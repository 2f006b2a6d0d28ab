---------------------------- MODULE WorkflowEngine ----------------------------
(***************************************************************************)
(* services/workflow_engine.py: one workflow instance of one published     *)
(* definition, its executions, idempotency records and SLA timers.         *)
(*                                                                         *)
(* Callers use the engine in database sessions that overlap.  A session    *)
(* loads the instance and its idempotency record, then the timers that are *)
(* active, and at the end writes the columns it changed; the flush and the *)
(* commit are one step, because the flush takes the row locks.  No row is  *)
(* locked or compared with the loaded one before.  A session may also die  *)
(* before its commit: it raises, or its client goes away.  A client that   *)
(* has no answer calls again, with whatever key and lock_version it likes. *)
(*                                                                         *)
(* Times are left out: a timer that is active may be overdue at any time.  *)
(* The outbox events of a move are rows of the transaction of its          *)
(* execution and are left out; those of breached timers are counted.       *)
(***************************************************************************)
EXTENDS Naturals, Sequences, FiniteSets

CONSTANTS
  Session,                                  \* database sessions that call the engine
  Key, NoKey,                               \* idempotency keys
  Payload,                                  \* comment, reason and input data of a call
  State, InitialState, TerminalState,
  CompletedState, CancelledState,           \* by state_type
  Transition, From, To,                     \* the active transitions
  Actor, Allowed,                           \* the transitions each actor may execute
  Complete,                                 \* the payloads with all a transition requires
  Policy, PolicyState, PolicyTransition,    \* active SLA policies, Null where
  Null,                                     \* they name no state or no transition
  MaxMoves                                  \* bound on lock_version

ASSUME DefinitionAssumption ==
  /\ InitialState \in State /\ "ABSENT" \notin State
  /\ TerminalState \subseteq State
  /\ CompletedState \subseteq State /\ CancelledState \subseteq State
  /\ From \in [Transition -> State] /\ To \in [Transition -> State]
  /\ PolicyState \in [Policy -> State \cup {Null}]
  /\ PolicyTransition \in [Policy -> Transition \cup {Null}]
ASSUME CallAssumption ==
  /\ NoKey \notin Key
  /\ Allowed \in [Actor -> SUBSET Transition]
  /\ Complete \in [Transition -> SUBSET Payload]
ASSUME BoundAssumption == MaxMoves \in Nat \ {0}

VARIABLES
  instance,    \* the row of workflow_instances
  executions,  \* rows of workflow_transition_executions, in commit order
  records,     \* rows of workflow_idempotency_records
  timer,       \* rows of workflow_sla_timers: the policy, and the execution that started it
  reports,     \* how many SLA_BREACHED events the outbox has of each timer
  session,     \* each session: what it does and what it has loaded
  visited,     \* history: the states the instance has been in
  overlapped   \* history: a session has committed over rows changed after it read them

dbVars == <<instance, executions, records, timer, reports>>
vars   == <<dbVars, session, visited, overlapped>>

NoVersion == 0
Version == 1..MaxMoves + 1
Entry == Policy \X (0..MaxMoves)   \* 0: started with the instance
TimerStatus == {"NONE", "ACTIVE", "COMPLETED", "BREACHED"}

Instance == [state : State \cup {"ABSENT"}, lock_version : Version,
             completed_at : BOOLEAN, cancelled_at : BOOLEAN]
Hash == [payload : Payload, version : Version \cup {NoVersion}]   \* transition_request_hash
NoHash == [payload |-> "unhashed", version |-> NoVersion]
Execution == [transition : Transition, from : State, to : State,
              key : Key \cup {NoKey}, hash : Hash \cup {NoHash}]
Record == [key : Key, transition : Transition, hash : Hash, execution : 1..MaxMoves]
Idle == [op |-> "idle"]
Active == {e \in Entry : timer[e] = "ACTIVE"}

TypeOK ==
  /\ instance \in Instance
  /\ executions \in Seq(Execution)
  /\ records \subseteq Record
  /\ timer \in [Entry -> TimerStatus]
  /\ reports \in [Entry -> Nat]
  /\ visited \subseteq State
  /\ overlapped \in BOOLEAN

Init ==
  /\ instance = [state |-> "ABSENT", lock_version |-> 1, completed_at |-> FALSE,
                 cancelled_at |-> FALSE]
  /\ executions = <<>>
  /\ records = {}
  /\ timer = [e \in Entry |-> "NONE"]
  /\ reports = [e \in Entry |-> 0]
  /\ session = [s \in Session |-> Idle]
  /\ visited = {}
  /\ overlapped = FALSE

-----------------------------------------------------------------------------
(* Helpers of the engine. *)

\* create_sla_timers: the policies that match the state and the transition.
Matching(state, transition) ==
  {p \in Policy : PolicyState[p] \in {Null, state} /\ PolicyTransition[p] \in {Null, transition}}

\* A move that leaves the timers running, or one that completes breached timers too.
TimersAfter_Running(loaded, state, transition, n) ==
  [e \in Entry |->
     IF e[2] = n /\ e[1] \in Matching(state, transition) THEN "ACTIVE" ELSE timer[e]]
TimersAfter_Breached(loaded, state, transition, n) ==
  [e \in Entry |->
     IF e[2] = n /\ e[1] \in Matching(state, transition) THEN "ACTIVE"
     ELSE IF timer[e] # "NONE" THEN "COMPLETED" ELSE timer[e]]

\* A move completes the active timers it has loaded and starts those of entry n.
TimersAfter(loaded, state, transition, n) ==
  [e \in Entry |->
     IF e[2] = n /\ e[1] \in Matching(state, transition) THEN "ACTIVE"
     ELSE IF e \in loaded THEN "COMPLETED" ELSE timer[e]]

\* A transition executed from whatever state.
CanExecute_Anywhere(state, t, a) == t \in Allowed[a]

\* can_execute_transition for an instance in a state.
CanExecute(state, t, a) == From[t] = state /\ t \in Allowed[a]

\* The columns that an UPDATE of the loaded instance sets when it moves to a state.
MovedTo(loaded, state) ==
  [state        |-> IF state # loaded.state THEN state ELSE instance.state,
   lock_version |-> loaded.lock_version + 1,
   completed_at |-> instance.completed_at \/ state \in CompletedState,
   cancelled_at |-> instance.cancelled_at \/ state \in CancelledState]

\* get_instance_or_404
Found == instance.state # "ABSENT"

Finish(s) == session' = [session EXCEPT ![s] = Idle]

\* The rows a session read are still what they were.
Undisturbed(s) == instance = session[s].instance /\ session[s].timers \subseteq Active
Notice(s) == overlapped' = (overlapped \/ ~Undisturbed(s))

-----------------------------------------------------------------------------
(* start_workflow *)

\* An instance that exists is returned as it is.
BeginStart(s) ==
  /\ session[s] = Idle
  /\ instance.state = "ABSENT"
  /\ session' = [session EXCEPT ![s] = [op |-> "start", instance |-> instance, timers |-> {}]]
  /\ UNCHANGED <<dbVars, visited, overlapped>>

\* The unique constraint on definition, entity and key lets one insert through.
CommitStart(s) ==
  /\ session[s].op = "start"
  /\ instance.state = "ABSENT"
  /\ instance' = [instance EXCEPT !.state = InitialState]
  /\ timer' = TimersAfter({}, InitialState, Null, 0)
  /\ visited' = {InitialState}
  /\ Finish(s)
  /\ UNCHANGED <<executions, records, reports, overlapped>>

-----------------------------------------------------------------------------
(* execute_transition_with_callback and record_external_transition *)

\* The record that the idempotency lookup finds.
RecordsOf(k, t) == {r \in records : r.key = k /\ r.transition = t}

\* The comment, the reason and the fields that a transition requires.
HasRequired(t, p) == p \in Complete[t]

\* A lock_version that may be lower than the instance's.
ExecuteIsDue_Behind(a, t, k, p, v) ==
  /\ v <= instance.lock_version
  /\ RecordsOf(k, t) = {}
  /\ CanExecute(instance.state, t, a)
  /\ HasRequired(t, p)

\* The checks on a call to execute, in the state of the database it reads.  A call
\* whose key is on record ends here, with the recorded execution or a conflict.
ExecuteIsDue(a, t, k, p, v) ==
  /\ v \in {NoVersion, instance.lock_version}
  /\ RecordsOf(k, t) = {}
  /\ CanExecute(instance.state, t, a)
  /\ HasRequired(t, p)

BeginExecute(s, a, t, k, p, v) ==
  /\ session[s] = Idle
  /\ Found
  /\ ExecuteIsDue(a, t, k, p, v)
  /\ session' = [session EXCEPT ![s] =
       [op |-> "move", transition |-> t, key |-> k, hash |-> [payload |-> p, version |-> v],
        instance |-> instance, timers |-> {}, ready |-> FALSE]]
  /\ UNCHANGED <<dbVars, visited, overlapped>>

\* record_external_transition takes no lock_version, requires no comment and neither
\* looks up nor leaves a record.
BeginRecord(s, a, t) ==
  /\ session[s] = Idle
  /\ Found
  /\ CanExecute(instance.state, t, a)
  /\ session' = [session EXCEPT ![s] =
       [op |-> "move", transition |-> t, key |-> NoKey, hash |-> NoHash,
        instance |-> instance, timers |-> {}, ready |-> FALSE]]
  /\ UNCHANGED <<dbVars, visited, overlapped>>

\* complete_active_sla_timers loads the active timers.
LoadTimers(s) ==
  /\ session[s].op = "move"
  /\ ~session[s].ready
  /\ session' = [session EXCEPT ![s].timers = Active, ![s].ready = TRUE]
  /\ UNCHANGED <<dbVars, visited, overlapped>>

\* A unique key that is looked up and never enforced.
KeyIsFree_Unenforced(k, t) == TRUE

\* The unique constraint on key, instance and transition fails the second of two.
KeyIsFree(k, t) == \A r \in records : r.key = k => r.transition # t

\* The record of the previous execution, or one of a hash without the lock_version.
NewRecords_Previous(c, n) ==
  IF c.key = NoKey THEN {}
  ELSE {[key |-> c.key, transition |-> c.transition, hash |-> c.hash, execution |-> n - 1]}
NewRecords_Unversioned(c, n) ==
  IF c.key = NoKey THEN {}
  ELSE {[key |-> c.key, transition |-> c.transition,
         hash |-> [c.hash EXCEPT !.version = NoVersion], execution |-> n]}

\* The idempotency record of execution n, if its call has a key.
NewRecords(c, n) ==
  IF c.key = NoKey THEN {}
  ELSE {[key |-> c.key, transition |-> c.transition, hash |-> c.hash, execution |-> n]}

CommitMove(s) ==
  LET c == session[s]
      n == Len(executions) + 1
  IN /\ c.op = "move" /\ c.ready
     /\ c.instance.lock_version <= MaxMoves /\ n <= MaxMoves
     /\ KeyIsFree(c.key, c.transition)
     /\ executions' = Append(executions,
          [transition |-> c.transition, from |-> c.instance.state, to |-> To[c.transition],
           key |-> c.key, hash |-> c.hash])
     /\ instance' = MovedTo(c.instance, To[c.transition])
     /\ timer' = TimersAfter(c.timers, To[c.transition], c.transition, n)
     /\ records' = records \cup NewRecords(c, n)
     /\ visited' = visited \cup {To[c.transition]}
     /\ Notice(s)
     /\ Finish(s)
     /\ UNCHANGED reports

-----------------------------------------------------------------------------
(* cancel_workflow and mark_breached_sla_timers *)

\* Cancelling what has ended.
BeginCancel_Ended(s) ==
  /\ session[s] = Idle
  /\ Found
  /\ CancelledState # {}
  /\ session' = [session EXCEPT ![s] = [op |-> "cancel", instance |-> instance, timers |-> {}]]
  /\ UNCHANGED <<dbVars, visited, overlapped>>

BeginCancel(s) ==
  /\ session[s] = Idle
  /\ Found
  /\ instance.state \notin TerminalState
  /\ CancelledState # {}
  /\ session' = [session EXCEPT ![s] = [op |-> "cancel", instance |-> instance, timers |-> {}]]
  /\ UNCHANGED <<dbVars, visited, overlapped>>

\* Any cancelled state; the timers stay as they are, and no execution is written.
CommitCancel(s) ==
  /\ session[s].op = "cancel"
  /\ session[s].instance.lock_version <= MaxMoves
  /\ \E state \in CancelledState :
       /\ instance' = [MovedTo(session[s].instance, state) EXCEPT !.completed_at = instance.completed_at,
                                                                 !.cancelled_at = TRUE]
       /\ visited' = visited \cup {instance'.state}
  /\ Notice(s)
  /\ Finish(s)
  /\ UNCHANGED <<executions, records, timer, reports>>

BeginBreach(s) ==
  /\ session[s] = Idle
  /\ \E overdue \in (SUBSET Active) \ {{}} :
       session' = [session EXCEPT ![s] = [op |-> "breach", instance |-> instance, timers |-> overdue]]
  /\ UNCHANGED <<dbVars, visited, overlapped>>

CommitBreach(s) ==
  LET overdue == session[s].timers
  IN /\ session[s].op = "breach"
     /\ timer' = [e \in Entry |-> IF e \in overdue THEN "BREACHED" ELSE timer[e]]
     /\ reports' = [e \in Entry |-> IF e \in overdue THEN reports[e] + 1 ELSE reports[e]]
     /\ overlapped' = (overlapped \/ ~(overdue \subseteq Active))
     /\ Finish(s)
     /\ UNCHANGED <<instance, executions, records, visited>>

\* A handler raises, a constraint fails or the process stops: the rollback.
Abort(s) ==
  /\ session[s] # Idle
  /\ Finish(s)
  /\ UNCHANGED <<dbVars, visited, overlapped>>

Next ==
  \E s \in Session :
    \/ BeginStart(s) \/ CommitStart(s)
    \/ \E a \in Actor, t \in Transition :
         \/ \E k \in Key \cup {NoKey}, p \in Payload, v \in Version \cup {NoVersion} :
              BeginExecute(s, a, t, k, p, v)
         \/ BeginRecord(s, a, t)
    \/ LoadTimers(s) \/ CommitMove(s)
    \/ BeginCancel(s) \/ CommitCancel(s)
    \/ BeginBreach(s) \/ CommitBreach(s)
    \/ Abort(s)

Spec == Init /\ [][Next]_vars

-----------------------------------------------------------------------------
(* Properties *)

\* A call under an idempotency key takes effect once, whatever is repeated, lost or
\* answered late: two sessions that both found no record cannot both commit.
OneExecutionPerKey ==
  \A i, j \in DOMAIN executions :
    /\ executions[i].key # NoKey
    /\ executions[i].key = executions[j].key
    /\ executions[i].transition = executions[j].transition
    => i = j

\* The execution a retry is answered with is the one its first call made: of that key
\* and transition, with that payload and lock_version.
RetriesGetTheirExecution ==
  /\ \A r \in records :
       /\ r.execution \in DOMAIN executions
       /\ LET e == executions[r.execution]
          IN e.key = r.key /\ e.transition = r.transition /\ e.hash = r.hash
  /\ \A i \in DOMAIN executions :
       executions[i].key # NoKey => \E r \in records : r.execution = i

\* While no two sessions overlap, a call that names the lock_version it has seen
\* executes at most once, and its retry finds a higher one: it is refused as stale, even
\* where the idempotency record could answer it.
VersionedCallsRunOnce ==
  ~overlapped =>
    \A i, j \in DOMAIN executions :
      LET v == executions[i].hash.version
      IN v # NoVersion => /\ v < instance.lock_version
                          /\ v = executions[j].hash.version => i = j

\* While no two sessions overlap, the timers that still run are those the last execution
\* started: cancelling completes none, but starts none either.
ActiveTimersAreCurrent ==
  ~overlapped => \A e \in Active : e[2] = Len(executions)

\* A breach is reported for every timer that is marked as breached; while no two sessions
\* overlap, it is reported once, and a timer completed in time is never reported.
BreachesAreReported ==
  \A e \in Entry :
    /\ timer[e] = "BREACHED" => reports[e] > 0
    /\ ~overlapped => reports[e] = IF timer[e] = "BREACHED" THEN 1 ELSE 0

\* While no two sessions overlap, a started instance changes its state only by the next
\* execution, from the state it is in and along its transition, or by being cancelled
\* before it has ended; either raises lock_version by one.
MovesAreRecorded ==
  [][~overlapped' /\ instance.state # "ABSENT" /\ instance' # instance =>
       /\ instance'.lock_version = instance.lock_version + 1
       /\ \/ /\ Len(executions') = Len(executions) + 1
             /\ LET e == executions'[Len(executions')]
                IN /\ e.from = instance.state /\ e.to = instance'.state
                   /\ e.from = From[e.transition] /\ e.to = To[e.transition]
          \/ /\ executions' = executions
             /\ instance.state \notin TerminalState /\ instance'.state \in CancelledState]_vars

\* With or without overlap, the engine implements what WorkflowPromise says.
Promise == INSTANCE WorkflowPromise WITH
  position <- instance.state,
  accepted <- {<<executions[i].key, executions[i].transition>> :
                 i \in {j \in DOMAIN executions : executions[j].key # NoKey}}
KeepsItsPromise == Promise!Spec
=============================================================================
