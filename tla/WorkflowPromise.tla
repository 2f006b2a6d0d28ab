---------------------------- MODULE WorkflowPromise ----------------------------
(***************************************************************************)
(* What the workflow engine promises about one instance, whoever calls it  *)
(* and however the calls overlap: the instance moves only along the        *)
(* transitions of its definition, out of states it has been in, or is      *)
(* cancelled before it ends; and what has been accepted under an           *)
(* idempotency key is not accepted again.                                  *)
(***************************************************************************)
CONSTANTS State, Transition, From, To, InitialState, TerminalState, CancelledState,
          Key, NoKey

VARIABLES position,   \* the state of the instance, "ABSENT" before it is started
          visited,    \* the states it has been in
          accepted    \* <<key, transition>> of the calls accepted under a key

promiseVars == <<position, visited, accepted>>

Init ==
  /\ position = "ABSENT"
  /\ visited = {}
  /\ accepted = {}

Start ==
  /\ position = "ABSENT"
  /\ position' = InitialState
  /\ visited' = {InitialState}
  /\ UNCHANGED accepted

\* A transition that leads back to its own state leaves the position as it is.
Accept(k, t) ==
  /\ From[t] \in visited
  /\ <<k, t>> \notin accepted
  /\ position' \in {To[t]} \cup (IF From[t] = To[t] THEN {position} ELSE {})
  /\ visited' = visited \cup {To[t]}
  /\ accepted' = IF k = NoKey THEN accepted ELSE accepted \cup {<<k, t>>}

\* So does a cancellation to the state it was made in, where that is not terminal.
Cancel ==
  /\ \E s \in visited : s \notin TerminalState
  /\ \E s \in CancelledState :
       /\ position' \in {s} \cup (IF s \in visited \ TerminalState THEN {position} ELSE {})
       /\ visited' = visited \cup {s}
  /\ UNCHANGED accepted

Next ==
  \/ Start
  \/ \E k \in Key \cup {NoKey}, t \in Transition : Accept(k, t)
  \/ Cancel

Spec == Init /\ [][Next]_promiseVars
=============================================================================
