------------------------ MODULE WorkflowEngine_proofs ------------------------
(***************************************************************************)
(* Proofs of the properties of WorkflowEngine, for any number of sessions, *)
(* keys, states, transitions and policies.                                 *)
(***************************************************************************)
EXTENDS WorkflowEngine, SequenceTheorems, TLAPS

(* What a session that is under way has loaded. *)
Starting == [op : {"start"}, instance : Instance, timers : {{}}]
Moving == [op : {"move"}, transition : Transition, key : Key \cup {NoKey},
           hash : Hash \cup {NoHash}, instance : Instance, timers : SUBSET Entry,
           ready : BOOLEAN]
Cancelling == [op : {"cancel"}, instance : Instance, timers : {{}}]
Breaching == [op : {"breach"}, instance : Instance, timers : SUBSET Entry]
Loaded == {Idle} \cup Starting \cup Moving \cup Cancelling \cup Breaching

Typed == TypeOK /\ session \in [Session -> Loaded]

(* The database on its own: nothing before the start, no timer ahead of its execution. *)
Placed ==
  /\ instance.state \in visited \cup {"ABSENT"}
  /\ instance.state = "ABSENT" => executions = <<>> /\ records = {}
  /\ \A e \in Entry : e[2] > Len(executions) => timer[e] = "NONE"
  /\ instance.state = "ABSENT" => \A e \in Entry : timer[e] = "NONE"

(* A session beside the database: what it has loaded was there, and, as long as nobody *)
(* has overlapped, is not ahead of the instance and includes the timers that run.      *)
Follows(c) ==
  /\ instance.state = "ABSENT" => c.op \in {"idle", "start"}
  /\ c.op # "idle" =>
       /\ \A e \in c.timers : e[2] <= Len(executions)
       /\ ~overlapped => c.instance.lock_version <= instance.lock_version
  /\ c.op = "move" =>
       /\ c.key # NoKey => c.hash \in Hash
       /\ c.instance.state = From[c.transition] /\ c.instance.state \in visited
       /\ c.hash.version \in {NoVersion, c.instance.lock_version}
       /\ c.ready /\ c.instance = instance /\ ~overlapped => Active \subseteq c.timers
  /\ c.op = "cancel" => c.instance.state \in visited \ TerminalState

IInv ==
  /\ Typed
  /\ Placed
  /\ \A s \in Session : Follows(session[s])
  /\ OneExecutionPerKey
  /\ RetriesGetTheirExecution
  /\ VersionedCallsRunOnce
  /\ ActiveTimersAreCurrent
  /\ BreachesAreReported

-----------------------------------------------------------------------------
(* Entries, columns and timers *)

LEMMA EntryFacts ==
  ASSUME NEW e \in Entry
  PROVE  e[1] \in Policy /\ e[2] \in 0..MaxMoves
BY DEF Entry

\* The instance's columns after a move from a loaded row.
LEMMA MovedToFacts ==
  ASSUME instance \in Instance, NEW loaded \in Instance, loaded.lock_version <= MaxMoves,
         NEW state \in State
  PROVE  /\ MovedTo(loaded, state) \in Instance
         /\ MovedTo(loaded, state).lock_version = loaded.lock_version + 1
         /\ MovedTo(loaded, state).state = IF state # loaded.state THEN state ELSE instance.state
BY BoundAssumption DEF MovedTo, Instance, Version

\* What create_sla_timers and complete_active_sla_timers leave, row by row.
LEMMA TimersAfterFacts ==
  ASSUME Typed, NEW loaded \in SUBSET Entry, NEW state, NEW transition, NEW n \in 0..MaxMoves
  PROVE  /\ TimersAfter(loaded, state, transition, n) \in [Entry -> TimerStatus]
         /\ \A e \in Entry :
              /\ TimersAfter(loaded, state, transition, n)[e] = "ACTIVE"
                   => e[2] = n \/ (e \notin loaded /\ timer[e] = "ACTIVE")
              /\ TimersAfter(loaded, state, transition, n)[e] = "BREACHED"
                   => e \notin loaded /\ timer[e] = "BREACHED"
              /\ timer[e] = "BREACHED" /\ e[2] # n /\ e \notin loaded
                   => TimersAfter(loaded, state, transition, n)[e] = "BREACHED"
              /\ e[2] # n /\ e \notin loaded
                   => TimersAfter(loaded, state, transition, n)[e] = timer[e]
BY DEF TimersAfter, TimerStatus, Typed, TypeOK

-----------------------------------------------------------------------------
(* The invariant holds at first, and every step keeps it. *)

LEMMA InitIInv == Init => IInv
<1> SUFFICES ASSUME Init PROVE IInv
  OBVIOUS
<1>1. instance \in Instance
  BY BoundAssumption DEF Init, Instance, Version
<1>2. TypeOK
  <2>1. <<>> \in Seq(Execution)
    OBVIOUS
  <2>2. timer \in [Entry -> TimerStatus] /\ reports \in [Entry -> Nat]
    BY DEF Init, TimerStatus
  <2> QED
    BY <1>1, <2>1, <2>2 DEF Init, TypeOK
<1>3. session \in [Session -> Loaded] /\ \A s \in Session : session[s] = Idle
  BY DEF Init, Loaded
<1>4. \A s \in Session : Follows(session[s])
  BY <1>3 DEF Follows, Idle
<1>5. Placed
  BY DEF Init, Placed, Active
<1>6. OneExecutionPerKey /\ RetriesGetTheirExecution /\ VersionedCallsRunOnce
  BY DEF Init, OneExecutionPerKey, RetriesGetTheirExecution, VersionedCallsRunOnce
<1>7. ActiveTimersAreCurrent /\ BreachesAreReported
  BY DEF Init, ActiveTimersAreCurrent, BreachesAreReported, Active
<1> QED
  BY <1>2, <1>3, <1>4, <1>5, <1>6, <1>7 DEF IInv, Typed

\* A step that only changes what one session has loaded.
LEMMA OneSessionKeepsIInv ==
  ASSUME IInv, NEW s \in Session, NEW c \in Loaded, Follows(c),
         session' = [session EXCEPT ![s] = c], UNCHANGED <<dbVars, visited, overlapped>>
  PROVE  IInv'
<1>1. session' \in [Session -> Loaded]
  BY DEF IInv, Typed
<1>2. Typed'
  BY <1>1 DEF IInv, Typed, TypeOK, dbVars
<1>3. Placed'
  BY DEF IInv, Placed, Active, dbVars
<1>4. ASSUME NEW r \in Session PROVE Follows(session[r])'
  <2>1. Follows(session'[r])
    BY DEF IInv, Typed
  <2>2. instance' = instance /\ timer' = timer /\ visited' = visited
        /\ overlapped' = overlapped /\ executions' = executions
    BY DEF dbVars
  <2> QED
    BY <2>1, <2>2 DEF Follows, Active
<1>5. OneExecutionPerKey' /\ RetriesGetTheirExecution' /\ VersionedCallsRunOnce'
  BY DEF IInv, OneExecutionPerKey, RetriesGetTheirExecution, VersionedCallsRunOnce, dbVars
<1>6. ActiveTimersAreCurrent' /\ BreachesAreReported'
  BY DEF IInv, ActiveTimersAreCurrent, BreachesAreReported, Active, dbVars
<1> QED
  BY <1>2, <1>3, <1>4, <1>5, <1>6 DEF IInv

LEMMA BeginStartKeepsIInv ==
  ASSUME IInv, NEW s \in Session, BeginStart(s)
  PROVE  IInv'
<1> DEFINE c == [op |-> "start", instance |-> instance, timers |-> {}]
<1>1. c \in Loaded
  BY DEF IInv, Typed, TypeOK, Loaded, Starting
<1>2. Follows(c)
  BY DEF BeginStart, Follows, IInv, Typed, TypeOK, Instance, Version
<1> QED
  BY <1>1, <1>2, OneSessionKeepsIInv DEF BeginStart

LEMMA BeginExecuteKeepsIInv ==
  ASSUME IInv, NEW s \in Session, NEW a \in Actor, NEW t \in Transition,
         NEW k \in Key \cup {NoKey}, NEW p \in Payload, NEW v \in Version \cup {NoVersion},
         BeginExecute(s, a, t, k, p, v)
  PROVE  IInv'
<1> DEFINE h == [payload |-> p, version |-> v]
           c == [op |-> "move", transition |-> t, key |-> k, hash |-> h,
                 instance |-> instance, timers |-> {}, ready |-> FALSE]
<1>1. h \in Hash /\ v \in {NoVersion, instance.lock_version}
  BY DEF Hash, BeginExecute, ExecuteIsDue
<1>2. instance \in Instance
  BY DEF IInv, Typed, TypeOK
<1>3. c \in Loaded
  BY <1>1, <1>2 DEF Loaded, Moving
<1>4. instance.state # "ABSENT" /\ instance.state = From[t] /\ instance.state \in visited
  BY DEF BeginExecute, Found, ExecuteIsDue, CanExecute, IInv, Placed
<1>5. Follows(c)
  BY <1>1, <1>2, <1>4 DEF Follows, Instance, Version
<1> QED
  BY <1>3, <1>5, OneSessionKeepsIInv DEF BeginExecute

LEMMA BeginRecordKeepsIInv ==
  ASSUME IInv, NEW s \in Session, NEW a \in Actor, NEW t \in Transition, BeginRecord(s, a, t)
  PROVE  IInv'
<1> DEFINE c == [op |-> "move", transition |-> t, key |-> NoKey, hash |-> NoHash,
                 instance |-> instance, timers |-> {}, ready |-> FALSE]
<1>1. instance \in Instance /\ NoHash.version = NoVersion
  BY DEF IInv, Typed, TypeOK, NoHash
<1>2. c \in Loaded
  BY <1>1 DEF Loaded, Moving
<1>3. instance.state # "ABSENT" /\ instance.state = From[t] /\ instance.state \in visited
  BY DEF BeginRecord, Found, CanExecute, IInv, Placed
<1>4. Follows(c)
  BY <1>1, <1>3 DEF Follows, Instance, Version
<1> QED
  BY <1>2, <1>4, OneSessionKeepsIInv DEF BeginRecord

LEMMA LoadTimersKeepsIInv ==
  ASSUME IInv, NEW s \in Session, LoadTimers(s)
  PROVE  IInv'
<1> DEFINE d == session[s]
           c == [d EXCEPT !.timers = Active, !.ready = TRUE]
<1>1. d \in Moving
  BY DEF IInv, Typed, LoadTimers, Loaded, Idle, Starting, Cancelling, Breaching
<1>2. Active \subseteq Entry
  BY DEF Active
<1>3. /\ c \in Moving /\ c.op = "move" /\ c.timers = Active /\ c.ready
      /\ c.transition = d.transition /\ c.key = d.key /\ c.hash = d.hash
      /\ c.instance = d.instance
  <2> HIDE DEF d
  <2> QED
    BY <1>1, <1>2 DEF Moving
<1>4. session' = [session EXCEPT ![s] = c]
  BY DEF LoadTimers, IInv, Typed
<1>5. c \in Loaded
  BY <1>3 DEF Loaded
<1>6. \A e \in Active : e[2] <= Len(executions)
  <2> SUFFICES ASSUME NEW e \in Active PROVE e[2] <= Len(executions)
    OBVIOUS
  <2>1. Len(executions) \in Nat /\ e \in Entry /\ timer[e] = "ACTIVE"
    BY DEF IInv, Typed, TypeOK, Active
  <2>2. e[2] \in Nat
    BY <2>1, EntryFacts
  <2> QED
    BY <2>1, <2>2 DEF IInv, Placed
<1>7. Follows(d)
  BY DEF IInv
<1>8. Follows(c)
  <2> HIDE DEF c, d
  <2> QED
    BY <1>1, <1>3, <1>6, <1>7 DEF Follows, Moving
<1> QED
  BY <1>4, <1>5, <1>8, OneSessionKeepsIInv DEF LoadTimers

LEMMA BeginCancelKeepsIInv ==
  ASSUME IInv, NEW s \in Session, BeginCancel(s)
  PROVE  IInv'
<1> DEFINE c == [op |-> "cancel", instance |-> instance, timers |-> {}]
<1>1. instance \in Instance
  BY DEF IInv, Typed, TypeOK
<1>2. c \in Loaded
  BY <1>1 DEF Loaded, Cancelling
<1>3. instance.state # "ABSENT" /\ instance.state \in visited \ TerminalState
  BY DEF BeginCancel, Found, IInv, Placed
<1>4. Follows(c)
  BY <1>1, <1>3 DEF Follows, Instance, Version
<1> QED
  BY <1>2, <1>4, OneSessionKeepsIInv DEF BeginCancel

LEMMA BeginBreachKeepsIInv ==
  ASSUME IInv, NEW s \in Session, BeginBreach(s)
  PROVE  IInv'
<1>1. PICK overdue \in (SUBSET Active) \ {{}} :
        session' = [session EXCEPT ![s] =
                      [op |-> "breach", instance |-> instance, timers |-> overdue]]
  BY DEF BeginBreach
<1> DEFINE c == [op |-> "breach", instance |-> instance, timers |-> overdue]
<1>2. instance \in Instance /\ overdue \subseteq Active /\ overdue # {} /\ Active \subseteq Entry
  <2>1. instance \in Instance
    BY DEF IInv, Typed, TypeOK
  <2>2. overdue \subseteq Active /\ overdue # {}
    OBVIOUS
  <2> QED
    BY <2>1, <2>2 DEF Active
<1>3. c \in Loaded
  BY <1>2 DEF Loaded, Breaching
<1>4. instance.state # "ABSENT"
  BY <1>2 DEF IInv, Placed, Active
<1>5. \A e \in overdue : e[2] <= Len(executions)
  <2> SUFFICES ASSUME NEW e \in overdue PROVE e[2] <= Len(executions)
    OBVIOUS
  <2>1. Len(executions) \in Nat /\ e \in Entry /\ timer[e] = "ACTIVE"
    BY <1>2 DEF IInv, Typed, TypeOK, Active
  <2>2. e[2] \in Nat
    BY <2>1, EntryFacts
  <2> QED
    BY <2>1, <2>2 DEF IInv, Placed
<1>6. Follows(c)
  BY <1>2, <1>4, <1>5 DEF Follows, Instance, Version
<1> QED
  BY <1>1, <1>3, <1>6, OneSessionKeepsIInv DEF BeginBreach

LEMMA AbortKeepsIInv ==
  ASSUME IInv, NEW s \in Session, Abort(s)
  PROVE  IInv'
<1>1. Idle \in Loaded /\ Follows(Idle)
  BY DEF Loaded, Follows, Idle
<1> QED
  BY <1>1, OneSessionKeepsIInv DEF Abort, Finish

\* A commit leaves its own session idle and the others as they were.
LEMMA CommitFinishes ==
  ASSUME IInv, NEW s \in Session, Finish(s),
         \A r \in Session \ {s} : session'[r] = session[r] => Follows(session[r])'
  PROVE  session' \in [Session -> Loaded] /\ \A r \in Session : Follows(session[r])'
<1>1. session' \in [Session -> Loaded]
  BY DEF IInv, Typed, Finish, Loaded
<1>2. session'[s] = Idle /\ \A r \in Session \ {s} : session'[r] = session[r]
  BY DEF IInv, Typed, Finish
<1>3. Follows(session[s])'
  BY <1>2 DEF Follows, Idle
<1> QED
  BY <1>1, <1>2, <1>3

LEMMA CommitStartKeepsIInv ==
  ASSUME IInv, NEW s \in Session, CommitStart(s)
  PROVE  IInv'
<1>1. /\ TypeOK /\ Typed /\ executions = <<>> /\ Len(executions) = 0 /\ records = {}
      /\ \A e \in Entry : timer[e] = "NONE" /\ e[2] \in Nat
  BY EntryFacts DEF IInv, Typed, Placed, CommitStart
<1>2. /\ instance' \in Instance /\ instance'.state = InitialState /\ instance'.state # "ABSENT"
      /\ instance'.lock_version = instance.lock_version
  BY <1>1, DefinitionAssumption DEF CommitStart, TypeOK, Instance
<1>3. /\ timer' \in [Entry -> TimerStatus]
      /\ \A e \in Entry : /\ timer'[e] = "ACTIVE" => e[2] = 0
                          /\ timer'[e] # "BREACHED"
                          /\ e[2] # 0 => timer'[e] = "NONE"
  <2> DEFINE T == TimersAfter({}, InitialState, Null, 0)
  <2>1. 0 \in 0..MaxMoves
    BY BoundAssumption
  <2>2. timer' = T
    BY DEF CommitStart
  <2> QED
    BY <1>1, <2>1, <2>2, TimersAfterFacts
<1>4. visited' = {InitialState} /\ InitialState \in State
  BY DefinitionAssumption DEF CommitStart
<1>5. UNCHANGED <<executions, records, reports, overlapped>> /\ Finish(s)
  BY DEF CommitStart
<1>6. TypeOK'
  BY <1>1, <1>2, <1>3, <1>4, <1>5 DEF TypeOK
<1>7. Placed'
  BY <1>1, <1>2, <1>3, <1>4, <1>5 DEF Placed
<1>8. session' \in [Session -> Loaded] /\ \A r \in Session : Follows(session[r])'
  <2>1. ASSUME NEW r \in Session \ {s}, session'[r] = session[r] PROVE Follows(session[r])'
    <3>1. session[r].op \in {"idle", "start"} /\ Follows(session[r]) /\ session[r] \in Loaded
      BY DEF IInv, Typed, Follows, CommitStart
    <3>2. session[r] \in {Idle} \cup Starting
      BY <3>1 DEF Loaded, Idle, Moving, Cancelling, Breaching
    <3> QED
      BY <2>1, <3>1, <3>2, <1>2, <1>5 DEF Follows, Idle, Starting
  <2> QED
    BY <2>1, <1>5, CommitFinishes
<1>9. OneExecutionPerKey' /\ RetriesGetTheirExecution' /\ VersionedCallsRunOnce'
  BY <1>1, <1>5 DEF OneExecutionPerKey, RetriesGetTheirExecution, VersionedCallsRunOnce
<1>10. ActiveTimersAreCurrent'
  BY <1>1, <1>3, <1>5 DEF ActiveTimersAreCurrent, Active
<1>11. BreachesAreReported'
  BY <1>1, <1>3, <1>5 DEF BreachesAreReported, IInv
<1> QED
  BY <1>6, <1>7, <1>8, <1>9, <1>10, <1>11 DEF IInv, Typed

LEMMA CommitBreachKeepsIInv ==
  ASSUME IInv, NEW s \in Session, CommitBreach(s)
  PROVE  IInv'
<1> DEFINE overdue == session[s].timers
<1>1. TypeOK /\ Typed /\ Len(executions) \in Nat /\ \A e \in Entry : e[2] \in Nat
  BY EntryFacts DEF IInv, Typed, TypeOK
<1>2. session[s] \in Breaching /\ overdue \subseteq Entry /\ Follows(session[s])
  BY DEF IInv, Typed, CommitBreach, Loaded, Idle, Starting, Moving, Cancelling, Breaching
<1>3. /\ timer' = [e \in Entry |-> IF e \in overdue THEN "BREACHED" ELSE timer[e]]
      /\ reports' = [e \in Entry |-> IF e \in overdue THEN reports[e] + 1 ELSE reports[e]]
      /\ overlapped' = (overlapped \/ ~(overdue \subseteq Active))
      /\ UNCHANGED <<instance, executions, records, visited>> /\ Finish(s)
      /\ session[s].op = "breach"
  BY DEF CommitBreach
<1>4. Active' \subseteq Active
  BY <1>3 DEF Active
<1>5. instance.state # "ABSENT" /\ \A e \in overdue : e[2] <= Len(executions)
  BY <1>2, <1>3 DEF Follows
<1> HIDE DEF overdue
<1>6. TypeOK'
  <2>1. timer' \in [Entry -> TimerStatus]
    BY <1>1, <1>3 DEF TypeOK, TimerStatus
  <2>2. reports' \in [Entry -> Nat]
    BY <1>1, <1>3 DEF TypeOK
  <2>3. overlapped' \in BOOLEAN
    BY <1>3
  <2> QED
    BY <1>1, <1>3, <2>1, <2>2, <2>3 DEF TypeOK
<1>7. Placed'
  BY <1>1, <1>3, <1>5 DEF IInv, Placed
<1>8. session' \in [Session -> Loaded] /\ \A r \in Session : Follows(session[r])'
  <2>1. ASSUME NEW r \in Session \ {s}, session'[r] = session[r] PROVE Follows(session[r])'
    BY <2>1, <1>3, <1>4 DEF Follows, IInv
  <2> QED
    BY <2>1, <1>3, CommitFinishes
<1>9. OneExecutionPerKey' /\ RetriesGetTheirExecution' /\ VersionedCallsRunOnce'
  BY <1>3 DEF IInv, OneExecutionPerKey, RetriesGetTheirExecution, VersionedCallsRunOnce
<1>10. ActiveTimersAreCurrent'
  BY <1>3, <1>4 DEF IInv, ActiveTimersAreCurrent
<1>11. BreachesAreReported'
  <2> SUFFICES ASSUME NEW e \in Entry
               PROVE  /\ timer'[e] = "BREACHED" => reports'[e] > 0
                      /\ ~overlapped' => reports'[e] = IF timer'[e] = "BREACHED" THEN 1 ELSE 0
    BY DEF BreachesAreReported
  <2>1. reports[e] \in Nat /\ (timer[e] = "BREACHED" => reports[e] > 0)
        /\ (~overlapped => reports[e] = IF timer[e] = "BREACHED" THEN 1 ELSE 0)
    BY <1>1 DEF IInv, BreachesAreReported, TypeOK
  <2>2. CASE e \in overdue
    <3>1. timer'[e] = "BREACHED" /\ reports'[e] = reports[e] + 1
      BY <2>2, <1>3
    <3>2. ~overlapped' => timer[e] = "ACTIVE" /\ ~overlapped
      BY <2>2, <1>3 DEF Active
    <3> QED
      BY <2>1, <3>1, <3>2
  <2>3. CASE e \notin overdue
    BY <2>1, <2>3, <1>3
  <2> QED
    BY <2>2, <2>3
<1> QED
  BY <1>6, <1>7, <1>8, <1>9, <1>10, <1>11 DEF IInv, Typed

\* What the commit of a move starts from and leaves.
LEMMA CommitMoveFacts ==
  ASSUME IInv, NEW s \in Session, CommitMove(s)
  PROVE  LET c == session[s]
             n == Len(executions) + 1
             x == [transition |-> c.transition, from |-> c.instance.state,
                   to |-> To[c.transition], key |-> c.key, hash |-> c.hash]
         IN /\ c \in Moving /\ c.ready /\ Follows(c)
            /\ n \in 1..MaxMoves /\ To[c.transition] \in State
            /\ c.instance \in Instance /\ c.instance.lock_version <= MaxMoves
            /\ instance.state # "ABSENT" /\ From[c.transition] \in visited
            /\ x \in Execution
            /\ executions' = Append(executions, x)
            /\ instance' = MovedTo(c.instance, To[c.transition])
            /\ timer' = TimersAfter(c.timers, To[c.transition], c.transition, n)
            /\ records' = records \cup NewRecords(c, n)
            /\ visited' = visited \cup {To[c.transition]}
            /\ overlapped' = (overlapped \/ ~(instance = c.instance /\ c.timers \subseteq Active))
            /\ reports' = reports /\ Finish(s)
            /\ \A r \in records : r.key = c.key => r.transition # c.transition
<1> DEFINE c == session[s]
           n == Len(executions) + 1
           x == [transition |-> c.transition, from |-> c.instance.state,
                 to |-> To[c.transition], key |-> c.key, hash |-> c.hash]
<1>1. c.op = "move" /\ c.ready /\ n <= MaxMoves /\ c.instance.lock_version <= MaxMoves
  BY DEF CommitMove
<1>2. c \in Moving /\ Follows(c)
  BY <1>1 DEF IInv, Typed, Loaded, Idle, Starting, Cancelling, Breaching
<1>3. n \in 1..MaxMoves
  BY <1>1, BoundAssumption DEF IInv, Typed, TypeOK
<1>4. To[c.transition] \in State /\ c.instance \in Instance
  BY <1>2, DefinitionAssumption DEF Moving
<1>5. instance.state # "ABSENT" /\ c.instance.state = From[c.transition]
      /\ From[c.transition] \in visited
  BY <1>1, <1>2 DEF Follows
<1>6. From[c.transition] \in State
  BY <1>5 DEF IInv, Typed, TypeOK
<1>7. x \in Execution
  BY <1>2, <1>4, <1>5, <1>6 DEF Execution, Moving
<1> QED
  BY <1>1, <1>2, <1>3, <1>4, <1>5, <1>7 DEF CommitMove, Notice, Undisturbed, KeyIsFree

\* The record of an execution, of a call that has a key.
LEMMA NewRecordsFacts ==
  ASSUME NEW c \in Moving, Follows(c), c.op = "move", NEW n \in 1..MaxMoves
  PROVE  /\ NewRecords(c, n) \subseteq Record
         /\ c.key = NoKey => NewRecords(c, n) = {}
         /\ c.key # NoKey =>
              /\ \E r \in NewRecords(c, n) : r.execution = n
              /\ \A r \in NewRecords(c, n) : /\ r.key = c.key /\ r.transition = c.transition
                                             /\ r.hash = c.hash /\ r.execution = n
<1>1. CASE c.key = NoKey
  BY <1>1 DEF NewRecords
<1>2. CASE c.key # NoKey
  <2> DEFINE r == [key |-> c.key, transition |-> c.transition, hash |-> c.hash, execution |-> n]
  <2>1. NewRecords(c, n) = {r}
    BY <1>2 DEF NewRecords
  <2>2. c.key \in Key /\ c.transition \in Transition /\ c.hash \in Hash
    BY <1>2 DEF Follows, Moving
  <2>3. r \in Record
    BY <2>2 DEF Record
  <2> QED
    BY <1>2, <2>1, <2>3
<1> QED
  BY <1>1, <1>2

LEMMA CommitMoveKeepsIInv ==
  ASSUME IInv, NEW s \in Session, CommitMove(s)
  PROVE  IInv'
<1> DEFINE c == session[s]
           n == Len(executions) + 1
           x == [transition |-> c.transition, from |-> c.instance.state,
                 to |-> To[c.transition], key |-> c.key, hash |-> c.hash]
           state == To[c.transition]
<1>1. TypeOK /\ Typed
  BY DEF IInv, Typed
<1>2. /\ c \in Moving /\ c.ready /\ Follows(c) /\ c.op = "move"
      /\ n \in 1..MaxMoves /\ state \in State
      /\ c.instance \in Instance /\ c.instance.lock_version <= MaxMoves
      /\ instance.state # "ABSENT" /\ From[c.transition] \in visited
      /\ x \in Execution /\ executions' = Append(executions, x)
      /\ instance' = MovedTo(c.instance, state)
      /\ timer' = TimersAfter(c.timers, state, c.transition, n)
      /\ records' = records \cup NewRecords(c, n)
      /\ visited' = visited \cup {state}
      /\ overlapped' = (overlapped \/ ~(instance = c.instance /\ c.timers \subseteq Active))
      /\ reports' = reports /\ Finish(s)
      /\ \A r \in records : r.key = c.key => r.transition # c.transition
  BY CommitMoveFacts DEF Moving
<1>3. /\ NewRecords(c, n) \subseteq Record
      /\ c.key = NoKey => NewRecords(c, n) = {}
      /\ c.key # NoKey =>
           /\ \E r \in NewRecords(c, n) : r.execution = n
           /\ \A r \in NewRecords(c, n) : /\ r.key = c.key /\ r.transition = c.transition
                                          /\ r.hash = c.hash /\ r.execution = n
  BY <1>2, NewRecordsFacts
<1>4. /\ instance' \in Instance /\ instance'.lock_version = c.instance.lock_version + 1
      /\ instance'.state = IF state # c.instance.state THEN state ELSE instance.state
  BY <1>1, <1>2, MovedToFacts DEF TypeOK
<1>5. /\ executions' \in Seq(Execution) /\ Len(executions') = n
      /\ executions'[n] = x /\ DOMAIN executions = 1..n-1 /\ DOMAIN executions' = 1..n
      /\ \A i \in 1..n-1 : executions'[i] = executions[i]
      /\ Len(executions) \in Nat /\ n = Len(executions) + 1
  BY <1>1, <1>2 DEF TypeOK
<1>6. /\ timer' \in [Entry -> TimerStatus]
      /\ \A e \in Entry :
           /\ e[2] \in Nat
           /\ timer'[e] = "ACTIVE" => e[2] = n \/ (e \notin c.timers /\ timer[e] = "ACTIVE")
           /\ timer'[e] = "BREACHED" => e \notin c.timers /\ timer[e] = "BREACHED"
           /\ timer[e] = "BREACHED" /\ e[2] # n /\ e \notin c.timers => timer'[e] = "BREACHED"
           /\ e[2] # n /\ e \notin c.timers => timer'[e] = timer[e]
  <2> DEFINE T == TimersAfter(c.timers, state, c.transition, n)
  <2>1. c.timers \in SUBSET Entry /\ n \in 0..MaxMoves
    BY <1>2 DEF Moving
  <2>2. \A e \in Entry : e[2] \in Nat
    BY EntryFacts
  <2>3. timer' = T
    BY <1>2
  <2> HIDE DEF c, n, state
  <2> QED
    BY <1>1, <2>1, <2>2, <2>3, TimersAfterFacts
<1>7. \A e \in c.timers : e[2] < n
  BY <1>2, <1>5, <1>6 DEF Follows, Moving
<1>8. ~overlapped' => ~overlapped /\ instance = c.instance /\ c.timers \subseteq Active
                      /\ Active \subseteq c.timers
  BY <1>2 DEF Follows
<1> HIDE DEF c, n, x, state
<1>9. TypeOK'
  <2>1. records' \subseteq Record /\ visited' \subseteq State /\ reports' \in [Entry -> Nat]
    BY <1>1, <1>2, <1>3 DEF TypeOK
  <2>2. overlapped' \in BOOLEAN
    BY <1>2
  <2> QED
    BY <1>4, <1>5, <1>6, <2>1, <2>2 DEF TypeOK
<1>10. Placed'
  <2>1. instance'.state \in visited' /\ instance'.state # "ABSENT"
    BY <1>1, <1>2, <1>4, DefinitionAssumption DEF IInv, Placed
  <2>2. \A e \in Entry : e[2] > n => timer'[e] = "NONE"
    <3> SUFFICES ASSUME NEW e \in Entry, e[2] > n PROVE timer'[e] = "NONE"
      OBVIOUS
    <3>1. n \in Nat /\ e[2] \in Nat
      BY <1>2, <1>6
    <3>2. e \notin c.timers
      BY <1>7, <3>1
    <3> QED
      BY <3>1, <3>2, <1>5, <1>6 DEF IInv, Placed
  <2> QED
    BY <1>5, <2>1, <2>2 DEF Placed
<1>11. session' \in [Session -> Loaded] /\ \A r \in Session : Follows(session[r])'
  <2>1. ASSUME NEW r \in Session \ {s}, session'[r] = session[r] PROVE Follows(session[r])'
    <3> DEFINE d == session[r]
    <3>1. Follows(d) /\ d \in Loaded
      BY DEF IInv, Typed
    <3>2. d.op # "idle" => d.instance \in Instance /\ d.timers \subseteq Entry
      BY <3>1 DEF Loaded, Idle, Starting, Moving, Cancelling, Breaching
    <3> HIDE DEF d
    <3>3. instance'.state # "ABSENT"
      BY <1>1, <1>2, <1>4, DefinitionAssumption
    <3>4. d.op # "idle" => \A e \in d.timers : e[2] <= n
      BY <3>1, <3>2, <1>5, <1>6 DEF Follows
    <3>5. d.op # "idle" /\ ~overlapped' => d.instance.lock_version < instance'.lock_version
      BY <3>1, <3>2, <1>2, <1>4, <1>8 DEF Follows, Instance, Version
    <3>6. d.op # "idle" /\ ~overlapped' => d.instance.lock_version <= instance'.lock_version
                                           /\ d.instance # instance'
      BY <3>2, <3>5, <1>4 DEF Instance, Version
    <3>7. Follows(d)'
      BY <2>1, <3>1, <3>3, <3>4, <3>6, <1>2, <1>5 DEF Follows, d
    <3> QED
      BY <3>7 DEF d
  <2> QED
    BY <2>1, <1>2, CommitFinishes
<1>12. OneExecutionPerKey'
  <2>1. \A i \in 1..n-1 : /\ executions[i].key = c.key /\ c.key # NoKey
                           => executions[i].transition # c.transition
    BY <1>2, <1>5 DEF IInv, RetriesGetTheirExecution
  <2>2. executions'[n].key = c.key /\ executions'[n].transition = c.transition
    BY <1>5 DEF x
  <2>3. \A i \in 1..n : i = n \/ i \in 1..n-1
    BY <1>5
  <2> QED
    BY <1>5, <2>1, <2>2, <2>3 DEF IInv, OneExecutionPerKey
<1>13. RetriesGetTheirExecution'
  <2>1. executions'[n].key = c.key /\ executions'[n].transition = c.transition
        /\ executions'[n].hash = c.hash
    BY <1>5 DEF x
  <2>2. \A i \in 1..n : i = n \/ i \in 1..n-1
    BY <1>5
  <2>3. ASSUME NEW r \in records'
        PROVE  r.execution \in 1..n
               /\ LET e == executions'[r.execution]
                  IN e.key = r.key /\ e.transition = r.transition /\ e.hash = r.hash
    <3>1. CASE r \in records
      BY <3>1, <1>5 DEF IInv, RetriesGetTheirExecution
    <3>2. CASE r \in NewRecords(c, n)
      BY <3>2, <1>2, <1>3, <1>5, <2>1
    <3> QED
      BY <3>1, <3>2, <2>3, <1>2
  <2>4. ASSUME NEW i \in 1..n, executions'[i].key # NoKey
        PROVE  \E r \in records' : r.execution = i
    <3>1. CASE i = n
      BY <3>1, <2>4, <2>1, <1>2, <1>3
    <3>2. CASE i \in 1..n-1
      BY <3>2, <2>4, <1>2, <1>5 DEF IInv, RetriesGetTheirExecution
    <3> QED
      BY <3>1, <3>2, <2>2
  <2> QED
    BY <1>5, <2>3, <2>4 DEF RetriesGetTheirExecution
<1>14. VersionedCallsRunOnce'
  <2> SUFFICES ASSUME ~overlapped', NEW i \in 1..n, NEW j \in 1..n,
                      executions'[i].hash.version # NoVersion
               PROVE  /\ executions'[i].hash.version < instance'.lock_version
                      /\ executions'[i].hash.version = executions'[j].hash.version => i = j
    BY <1>5 DEF VersionedCallsRunOnce
  <2>1. executions'[n].hash = c.hash /\ c.hash.version \in {NoVersion, instance.lock_version}
    BY <1>2, <1>5, <1>8 DEF x, Follows
  <2>2. instance'.lock_version = instance.lock_version + 1 /\ instance.lock_version \in Nat
    BY <1>1, <1>4, <1>8 DEF TypeOK, Instance, Version
  <2>3. \A k \in 1..n : k = n \/ k \in 1..n-1
    BY <1>5
  <2>4. \A k \in 1..n-1 : executions[k].hash.version # NoVersion =>
           /\ executions[k].hash.version < instance.lock_version
           /\ \A l \in 1..n-1 : executions[k].hash.version = executions[l].hash.version => k = l
    BY <1>5, <1>8 DEF IInv, VersionedCallsRunOnce
  <2>5. \A k \in 1..n-1 : executions[k].hash.version \in Nat
    <3> SUFFICES ASSUME NEW k \in 1..n-1 PROVE executions[k].hash.version \in Nat
      OBVIOUS
    <3>1. executions[k] \in Execution
      BY <1>1, <1>5 DEF TypeOK
    <3> QED
      BY <3>1 DEF Execution, Hash, NoHash, Version, NoVersion
  <2>6. CASE i = n
    BY <2>6, <2>1, <2>2, <2>3, <2>4, <2>5, <1>5
  <2>7. CASE i \in 1..n-1
    BY <2>7, <2>1, <2>2, <2>3, <2>4, <2>5, <1>5
  <2> QED
    BY <2>3, <2>6, <2>7
<1>15. ActiveTimersAreCurrent'
  BY <1>5, <1>6, <1>8 DEF ActiveTimersAreCurrent, Active
<1>16. BreachesAreReported'
  <2> SUFFICES ASSUME NEW e \in Entry
               PROVE  /\ timer'[e] = "BREACHED" => reports[e] > 0
                      /\ ~overlapped' => reports[e] = IF timer'[e] = "BREACHED" THEN 1 ELSE 0
    BY <1>2 DEF BreachesAreReported
  <2>1. (timer[e] = "BREACHED" => reports[e] > 0)
        /\ (~overlapped => reports[e] = IF timer[e] = "BREACHED" THEN 1 ELSE 0)
    BY DEF IInv, BreachesAreReported
  <2>2. e[2] = n => timer[e] = "NONE"
    BY <1>5, <1>6 DEF IInv, Placed
  <2>3. ~overlapped' => ~overlapped /\ (timer'[e] = "BREACHED" <=> timer[e] = "BREACHED")
    BY <2>2, <1>6, <1>8 DEF Active
  <2> QED
    BY <2>1, <2>3, <1>6
<1> QED
  BY <1>9, <1>10, <1>11, <1>12, <1>13, <1>14, <1>15, <1>16 DEF IInv, Typed

\* What the commit of a cancellation starts from and leaves.
LEMMA CommitCancelFacts ==
  ASSUME IInv, NEW s \in Session, CommitCancel(s)
  PROVE  LET c == session[s]
         IN /\ c \in Cancelling /\ c.op = "cancel"
            /\ c.instance.state \in visited \ TerminalState /\ instance.state # "ABSENT"
            /\ ~overlapped => c.instance.lock_version <= instance.lock_version
            /\ instance' \in Instance
            /\ instance'.lock_version = c.instance.lock_version + 1
            /\ \E state \in CancelledState :
                 instance'.state = IF state # c.instance.state THEN state ELSE instance.state
            /\ visited' = visited \cup {instance'.state}
            /\ overlapped' = (overlapped \/ ~(instance = c.instance))
            /\ UNCHANGED <<executions, records, timer, reports>> /\ Finish(s)
<1> DEFINE c == session[s]
<1>1. c.op = "cancel" /\ c.instance.lock_version <= MaxMoves
  BY DEF CommitCancel
<1>2. c \in Cancelling /\ Follows(c)
  BY <1>1 DEF IInv, Typed, Loaded, Idle, Starting, Moving, Breaching
<1>3. c.instance \in Instance /\ c.timers = {} /\ instance \in Instance
  BY <1>2 DEF Cancelling, IInv, Typed, TypeOK
<1>4. PICK state \in CancelledState :
        /\ instance' = [MovedTo(c.instance, state) EXCEPT !.completed_at = instance.completed_at,
                                                           !.cancelled_at = TRUE]
        /\ visited' = visited \cup {instance'.state}
  BY DEF CommitCancel
<1> DEFINE m == MovedTo(c.instance, state)
<1>5. /\ m \in Instance /\ m.lock_version = c.instance.lock_version + 1
      /\ m.state = IF state # c.instance.state THEN state ELSE instance.state
  BY <1>1, <1>3, DefinitionAssumption, MovedToFacts
<1>6. instance' = [m EXCEPT !.completed_at = instance.completed_at, !.cancelled_at = TRUE]
  BY <1>4
<1> HIDE DEF m, c
<1>7. instance' \in Instance /\ instance'.lock_version = m.lock_version /\ instance'.state = m.state
  BY <1>3, <1>5, <1>6 DEF Instance
<1>8. overlapped' = (overlapped \/ ~(instance = c.instance))
  BY <1>3 DEF CommitCancel, Notice, Undisturbed, c
<1>9. UNCHANGED <<executions, records, timer, reports>> /\ Finish(s)
  BY DEF CommitCancel
<1>10. c.instance.state \in visited \ TerminalState /\ instance.state # "ABSENT"
       /\ (~overlapped => c.instance.lock_version <= instance.lock_version)
  BY <1>1, <1>2 DEF Follows, c
<1>11. visited' = visited \cup {instance'.state}
       /\ \E st \in CancelledState :
            instance'.state = IF st # c.instance.state THEN st ELSE instance.state
  BY <1>4, <1>5, <1>7
<1> QED
  BY <1>1, <1>2, <1>5, <1>7, <1>8, <1>9, <1>10, <1>11 DEF c

LEMMA CommitCancelKeepsIInv ==
  ASSUME IInv, NEW s \in Session, CommitCancel(s)
  PROVE  IInv'
<1> DEFINE c == session[s]
<1>1. /\ c \in Cancelling /\ instance.state # "ABSENT"
      /\ ~overlapped => c.instance.lock_version <= instance.lock_version
      /\ instance' \in Instance
      /\ instance'.lock_version = c.instance.lock_version + 1
      /\ \E state \in CancelledState :
           instance'.state = IF state # c.instance.state THEN state ELSE instance.state
      /\ visited' = visited \cup {instance'.state}
      /\ overlapped' = (overlapped \/ ~(instance = c.instance))
      /\ UNCHANGED <<executions, records, timer, reports>> /\ Finish(s)
  BY CommitCancelFacts
<1>2. TypeOK /\ instance \in Instance /\ c.instance \in Instance
  BY <1>1 DEF IInv, Typed, TypeOK, Cancelling
<1>3. ~overlapped' => ~overlapped /\ instance'.lock_version = instance.lock_version + 1
                      /\ instance.lock_version \in Nat
  <2>1. instance.lock_version \in Nat
    BY <1>2 DEF Instance, Version
  <2> HIDE DEF c
  <2> QED
    BY <1>1, <2>1
<1> HIDE DEF c
<1>4. instance'.state \in State /\ instance'.state # "ABSENT"
  BY <1>1, <1>2, DefinitionAssumption DEF Instance
<1>5. TypeOK'
  <2>1. overlapped' \in BOOLEAN
    BY <1>1
  <2> QED
    BY <1>1, <1>2, <1>4, <2>1 DEF TypeOK
<1>6. Placed'
  BY <1>1, <1>4 DEF IInv, Placed
<1>7. session' \in [Session -> Loaded] /\ \A r \in Session : Follows(session[r])'
  <2>1. ASSUME NEW r \in Session \ {s}, session'[r] = session[r] PROVE Follows(session[r])'
    <3> DEFINE d == session[r]
    <3>1. Follows(d) /\ d \in Loaded
      BY DEF IInv, Typed
    <3>2. d.op # "idle" => d.instance \in Instance
      BY <3>1 DEF Loaded, Idle, Starting, Moving, Cancelling, Breaching
    <3> HIDE DEF d
    <3>3. d.op # "idle" /\ ~overlapped' => d.instance.lock_version <= instance'.lock_version
                                           /\ d.instance # instance'
      BY <3>1, <3>2, <1>3 DEF Follows, Instance, Version
    <3>4. Follows(d)'
      BY <2>1, <3>1, <3>3, <1>1, <1>4 DEF Follows, d
    <3> QED
      BY <3>4 DEF d
  <2> QED
    BY <2>1, <1>1, CommitFinishes
<1>8. OneExecutionPerKey' /\ RetriesGetTheirExecution'
  BY <1>1 DEF IInv, OneExecutionPerKey, RetriesGetTheirExecution
<1>9. VersionedCallsRunOnce'
  <2> SUFFICES ASSUME ~overlapped', NEW i \in DOMAIN executions, NEW j \in DOMAIN executions,
                      executions[i].hash.version # NoVersion
               PROVE  /\ executions[i].hash.version < instance'.lock_version
                      /\ executions[i].hash.version = executions[j].hash.version => i = j
    BY <1>1 DEF VersionedCallsRunOnce
  <2>1. executions[i].hash.version < instance.lock_version
        /\ (executions[i].hash.version = executions[j].hash.version => i = j)
    BY <1>3 DEF IInv, VersionedCallsRunOnce
  <2>2. executions[i].hash.version \in Nat
    <3>1. executions[i] \in Execution
      BY <1>2 DEF TypeOK
    <3> QED
      BY <3>1 DEF Execution, Hash, NoHash, Version, NoVersion
  <2> QED
    BY <2>1, <2>2, <1>3
<1>10. ActiveTimersAreCurrent' /\ BreachesAreReported'
  BY <1>1 DEF IInv, ActiveTimersAreCurrent, BreachesAreReported, Active
<1> QED
  BY <1>5, <1>6, <1>7, <1>8, <1>9, <1>10 DEF IInv, Typed

LEMMA StutterKeepsIInv ==
  ASSUME IInv, UNCHANGED vars
  PROVE  IInv'
<1>1. Typed'
  BY DEF IInv, Typed, TypeOK, vars, dbVars
<1>2. Placed'
  BY DEF IInv, Placed, vars, dbVars
<1>3. \A s \in Session : Follows(session[s])'
  <2> SUFFICES ASSUME NEW s \in Session PROVE Follows(session[s])'
    OBVIOUS
  <2>1. Follows(session[s])
    BY DEF IInv
  <2> QED
    BY <2>1 DEF Follows, Active, vars, dbVars
<1>4. OneExecutionPerKey' /\ RetriesGetTheirExecution' /\ VersionedCallsRunOnce'
  BY DEF IInv, OneExecutionPerKey, RetriesGetTheirExecution, VersionedCallsRunOnce, vars, dbVars
<1>5. ActiveTimersAreCurrent' /\ BreachesAreReported'
  BY DEF IInv, ActiveTimersAreCurrent, BreachesAreReported, Active, vars, dbVars
<1> QED
  BY <1>1, <1>2, <1>3, <1>4, <1>5 DEF IInv

LEMMA NextKeepsIInv == IInv /\ [Next]_vars => IInv'
<1> SUFFICES ASSUME IInv, [Next]_vars PROVE IInv'
  OBVIOUS
<1>1. CASE UNCHANGED vars
  BY <1>1, StutterKeepsIInv
<1>2. ASSUME NEW s \in Session, BeginStart(s) PROVE IInv'
  BY <1>2, BeginStartKeepsIInv
<1>3. ASSUME NEW s \in Session, CommitStart(s) PROVE IInv'
  BY <1>3, CommitStartKeepsIInv
<1>4. ASSUME NEW s \in Session, NEW a \in Actor, NEW t \in Transition,
             NEW k \in Key \cup {NoKey}, NEW p \in Payload, NEW v \in Version \cup {NoVersion},
             BeginExecute(s, a, t, k, p, v)
      PROVE  IInv'
  BY <1>4, BeginExecuteKeepsIInv
<1>5. ASSUME NEW s \in Session, NEW a \in Actor, NEW t \in Transition, BeginRecord(s, a, t)
      PROVE  IInv'
  BY <1>5, BeginRecordKeepsIInv
<1>6. ASSUME NEW s \in Session, LoadTimers(s) PROVE IInv'
  BY <1>6, LoadTimersKeepsIInv
<1>7. ASSUME NEW s \in Session, CommitMove(s) PROVE IInv'
  BY <1>7, CommitMoveKeepsIInv
<1>8. ASSUME NEW s \in Session, BeginCancel(s) PROVE IInv'
  BY <1>8, BeginCancelKeepsIInv
<1>9. ASSUME NEW s \in Session, CommitCancel(s) PROVE IInv'
  BY <1>9, CommitCancelKeepsIInv
<1>10. ASSUME NEW s \in Session, BeginBreach(s) PROVE IInv'
  BY <1>10, BeginBreachKeepsIInv
<1>11. ASSUME NEW s \in Session, CommitBreach(s) PROVE IInv'
  BY <1>11, CommitBreachKeepsIInv
<1>12. ASSUME NEW s \in Session, Abort(s) PROVE IInv'
  BY <1>12, AbortKeepsIInv
<1> QED
  BY <1>1, <1>2, <1>3, <1>4, <1>5, <1>6, <1>7, <1>8, <1>9, <1>10, <1>11, <1>12 DEF Next

-----------------------------------------------------------------------------
(* Invariants of the specification *)

LEMMA SpecIInv == Spec => []IInv
<1>1. Init => IInv
  BY InitIInv
<1>2. IInv /\ [Next]_vars => IInv'
  BY NextKeepsIInv
<1> QED
  BY <1>1, <1>2, PTL DEF Spec

\* Every row of the engine, written or loaded, is one that its columns allow.
THEOREM TypeCorrect == Spec => []TypeOK
<1>1. IInv => TypeOK
  BY DEF IInv, Typed
<1> QED
  BY <1>1, SpecIInv, PTL

\* A call under an idempotency key executes once, however sessions overlap.
THEOREM ExecutesOnce == Spec => []OneExecutionPerKey
<1>1. IInv => OneExecutionPerKey
  BY DEF IInv
<1> QED
  BY <1>1, SpecIInv, PTL

\* A retry is answered with the execution of its own key, transition and request hash.
THEOREM RetriesAreAnswered == Spec => []RetriesGetTheirExecution
<1>1. IInv => RetriesGetTheirExecution
  BY DEF IInv
<1> QED
  BY <1>1, SpecIInv, PTL

\* Without overlap, a lock_version is good for one execution.
THEOREM VersionsRunOnce == Spec => []VersionedCallsRunOnce
<1>1. IInv => VersionedCallsRunOnce
  BY DEF IInv
<1> QED
  BY <1>1, SpecIInv, PTL

\* Without overlap, no timer runs but those of the last execution.
THEOREM TimersAreCurrent == Spec => []ActiveTimersAreCurrent
<1>1. IInv => ActiveTimersAreCurrent
  BY DEF IInv
<1> QED
  BY <1>1, SpecIInv, PTL

\* A breach is reported, and without overlap it is reported once.
THEOREM BreachesReported == Spec => []BreachesAreReported
<1>1. IInv => BreachesAreReported
  BY DEF IInv
<1> QED
  BY <1>1, SpecIInv, PTL

-----------------------------------------------------------------------------
(* What the instance does in a step *)

\* The steps that leave the instance and its executions alone.
LEMMA OnlyCommitsMove ==
  ASSUME IInv, [Next]_vars
  PROVE  \/ UNCHANGED <<instance, executions, visited>>
         \/ \E s \in Session : CommitStart(s) \/ CommitMove(s) \/ CommitCancel(s)
<1>1. CASE UNCHANGED vars
  BY <1>1 DEF vars, dbVars
<1>2. ASSUME NEW s \in Session,
             BeginStart(s) \/ LoadTimers(s) \/ BeginCancel(s) \/ BeginBreach(s) \/ Abort(s)
      PROVE  UNCHANGED <<instance, executions, visited>>
  BY <1>2 DEF BeginStart, LoadTimers, BeginCancel, BeginBreach, Abort, dbVars
<1>3. ASSUME NEW s \in Session, CommitBreach(s)
      PROVE  UNCHANGED <<instance, executions, visited>>
  BY <1>3 DEF CommitBreach
<1>4. ASSUME NEW s \in Session, NEW a \in Actor, NEW t \in Transition,
             BeginRecord(s, a, t) \/ \E k \in Key \cup {NoKey}, p \in Payload,
               v \in Version \cup {NoVersion} : BeginExecute(s, a, t, k, p, v)
      PROVE  UNCHANGED <<instance, executions, visited>>
  BY <1>4 DEF BeginExecute, BeginRecord, dbVars
<1> QED
  BY <1>1, <1>2, <1>3, <1>4 DEF Next

\* Without overlap, every change of a started instance is an execution along its transition
\* or a cancellation of what has not ended, and raises lock_version by one.
THEOREM ChangesAreRecorded == Spec => MovesAreRecorded
<1>1. ASSUME IInv, [Next]_vars, ~overlapped', instance.state # "ABSENT", instance' # instance
      PROVE  /\ instance'.lock_version = instance.lock_version + 1
             /\ \/ /\ Len(executions') = Len(executions) + 1
                   /\ LET e == executions'[Len(executions')]
                      IN /\ e.from = instance.state /\ e.to = instance'.state
                         /\ e.from = From[e.transition] /\ e.to = To[e.transition]
                \/ /\ executions' = executions
                   /\ instance.state \notin TerminalState /\ instance'.state \in CancelledState
  <2>1. PICK s \in Session : CommitStart(s) \/ CommitMove(s) \/ CommitCancel(s)
    BY <1>1, OnlyCommitsMove
  <2> DEFINE c == session[s]
             x == [transition |-> c.transition, from |-> c.instance.state,
                   to |-> To[c.transition], key |-> c.key, hash |-> c.hash]
  <2>2. instance \in Instance /\ executions \in Seq(Execution)
    BY <1>1 DEF IInv, Typed, TypeOK
  <2>3. CASE CommitStart(s)
    BY <1>1, <2>3 DEF CommitStart
  <2>4. CASE CommitMove(s)
    <3>1. /\ c \in Moving /\ Follows(c) /\ To[c.transition] \in State
          /\ c.instance \in Instance /\ c.instance.lock_version <= MaxMoves
          /\ executions' = Append(executions, x)
          /\ instance' = MovedTo(c.instance, To[c.transition])
          /\ overlapped' = (overlapped \/ ~(instance = c.instance /\ c.timers \subseteq Active))
      BY <1>1, <2>4, CommitMoveFacts
    <3>2. instance = c.instance /\ c.instance.state = From[c.transition]
      BY <1>1, <3>1 DEF Follows, Moving
    <3>3. /\ instance'.lock_version = instance.lock_version + 1
          /\ instance'.state = To[c.transition]
      BY <2>2, <3>1, <3>2, MovedToFacts
    <3>4. Len(executions') = Len(executions) + 1 /\ executions'[Len(executions')] = x
      BY <2>2, <3>1
    <3> QED
      BY <3>2, <3>3, <3>4
  <2>5. CASE CommitCancel(s)
    <3>1. /\ c.instance.state \notin TerminalState
          /\ instance'.lock_version = c.instance.lock_version + 1
          /\ \E state \in CancelledState :
               instance'.state = IF state # c.instance.state THEN state ELSE instance.state
          /\ overlapped' = (overlapped \/ ~(instance = c.instance))
          /\ executions' = executions
      BY <1>1, <2>5, CommitCancelFacts
    <3>2. instance = c.instance
      BY <1>1, <3>1
    <3> QED
      BY <3>1, <3>2
  <2> QED
    BY <2>1, <2>3, <2>4, <2>5
<1>2. IInv /\ [Next]_vars =>
        [~overlapped' /\ instance.state # "ABSENT" /\ instance' # instance =>
           /\ instance'.lock_version = instance.lock_version + 1
           /\ \/ /\ Len(executions') = Len(executions) + 1
                 /\ LET e == executions'[Len(executions')]
                    IN /\ e.from = instance.state /\ e.to = instance'.state
                       /\ e.from = From[e.transition] /\ e.to = To[e.transition]
              \/ /\ executions' = executions
                 /\ instance.state \notin TerminalState /\ instance'.state \in CancelledState]_vars
  BY <1>1
<1> QED
  BY <1>2, SpecIInv, PTL DEF Spec, MovesAreRecorded

-----------------------------------------------------------------------------
(* The engine implements its promise. *)

Accepted == {<<executions[i].key, executions[i].transition>> :
               i \in {j \in DOMAIN executions : executions[j].key # NoKey}}

\* A move is an acceptance: of a call whose key has not been accepted for its transition.
LEMMA MoveAccepts ==
  ASSUME IInv, NEW s \in Session, CommitMove(s)
  PROVE  LET c == session[s]
         IN /\ c.key \in Key \cup {NoKey} /\ c.transition \in Transition
            /\ From[c.transition] \in visited
            /\ <<c.key, c.transition>> \notin Accepted
            /\ instance'.state \in {To[c.transition]}
                 \cup (IF From[c.transition] = To[c.transition] THEN {instance.state} ELSE {})
            /\ visited' = visited \cup {To[c.transition]}
            /\ Accepted' = IF c.key = NoKey THEN Accepted
                           ELSE Accepted \cup {<<c.key, c.transition>>}
<1> DEFINE c == session[s]
           n == Len(executions) + 1
           x == [transition |-> c.transition, from |-> c.instance.state,
                 to |-> To[c.transition], key |-> c.key, hash |-> c.hash]
<1>1. /\ c \in Moving /\ Follows(c) /\ To[c.transition] \in State
      /\ c.instance \in Instance /\ c.instance.lock_version <= MaxMoves
      /\ From[c.transition] \in visited
      /\ executions' = Append(executions, x)
      /\ instance' = MovedTo(c.instance, To[c.transition])
      /\ visited' = visited \cup {To[c.transition]}
      /\ \A r \in records : r.key = c.key => r.transition # c.transition
  BY CommitMoveFacts
<1>2. instance \in Instance /\ executions \in Seq(Execution)
  BY DEF IInv, Typed, TypeOK
<1>3. c.key \in Key \cup {NoKey} /\ c.transition \in Transition
      /\ c.instance.state = From[c.transition]
  BY <1>1 DEF Moving, Follows
<1>4. instance'.state = IF To[c.transition] # c.instance.state THEN To[c.transition]
                        ELSE instance.state
  BY <1>1, <1>2, MovedToFacts
<1>5. /\ DOMAIN executions = 1..n-1 /\ DOMAIN executions' = 1..n /\ n \in Nat \ {0}
      /\ executions'[n] = x /\ \A i \in 1..n-1 : executions'[i] = executions[i]
      /\ \A i \in 1..n : i = n \/ i \in 1..n-1
  BY <1>1, <1>2
<1> HIDE DEF c, n
<1>6. x.key = c.key /\ x.transition = c.transition
  OBVIOUS
<1>7. <<c.key, c.transition>> \notin Accepted
  <2> SUFFICES ASSUME NEW i \in 1..n-1, executions[i].key # NoKey,
                      <<executions[i].key, executions[i].transition>> = <<c.key, c.transition>>
               PROVE  FALSE
    BY <1>5 DEF Accepted
  <2>1. PICK r \in records : r.execution = i
    BY <1>5 DEF IInv, RetriesGetTheirExecution
  <2>2. r.key = executions[i].key /\ r.transition = executions[i].transition
    BY <2>1, <1>5 DEF IInv, RetriesGetTheirExecution
  <2> QED
    BY <2>2, <1>1
<1>8. Accepted' = IF c.key = NoKey THEN Accepted ELSE Accepted \cup {<<c.key, c.transition>>}
  <2> HIDE DEF x
  <2>1. Accepted = {<<executions[i].key, executions[i].transition>> :
                      i \in {j \in 1..n-1 : executions[j].key # NoKey}}
    BY <1>5 DEF Accepted
  <2>2. Accepted' = {<<executions'[i].key, executions'[i].transition>> :
                       i \in {j \in 1..n : executions'[j].key # NoKey}}
    BY <1>5 DEF Accepted
  <2>3. \A y : y \in Accepted => y \in Accepted'
    <3> SUFFICES ASSUME NEW i \in 1..n-1, executions[i].key # NoKey
                 PROVE  <<executions[i].key, executions[i].transition>> \in Accepted'
      BY <2>1
    <3>1. i \in 1..n /\ executions'[i] = executions[i]
      BY <1>5
    <3> QED
      BY <3>1, <2>2
  <2>4. c.key # NoKey => <<c.key, c.transition>> \in Accepted'
    <3>1. n \in 1..n
      BY <1>5
    <3> QED
      BY <3>1, <1>5, <1>6, <2>2
  <2>5. ASSUME NEW y \in Accepted'
        PROVE  y \in Accepted \/ (c.key # NoKey /\ y = <<c.key, c.transition>>)
    <3>1. PICK i \in 1..n : /\ executions'[i].key # NoKey
                            /\ y = <<executions'[i].key, executions'[i].transition>>
      BY <2>2, <2>5
    <3>2. CASE i = n
      BY <3>1, <3>2, <1>5, <1>6
    <3>3. CASE i \in 1..n-1
      BY <3>1, <3>3, <1>5, <2>1
    <3> QED
      BY <3>2, <3>3, <1>5
  <2> QED
    BY <2>3, <2>4, <2>5
<1> QED
  BY <1>1, <1>3, <1>4, <1>7, <1>8 DEF c

LEMMA AcceptIsNext ==
  ASSUME NEW k \in Key \cup {NoKey}, NEW t \in Transition,
         From[t] \in visited, <<k, t>> \notin Accepted,
         instance'.state \in {To[t]} \cup (IF From[t] = To[t] THEN {instance.state} ELSE {}),
         visited' = visited \cup {To[t]},
         Accepted' = IF k = NoKey THEN Accepted ELSE Accepted \cup {<<k, t>>}
  PROVE  Promise!Next
<1>1. Promise!Accept(k, t)
  BY DEF Promise!Accept, Accepted
<1> QED
  BY <1>1 DEF Promise!Next, Promise!Accept

\* With any overlap of sessions, every step of the engine is one of the promise or leaves
\* what it speaks of alone.
THEOREM EngineKeepsItsPromise == Spec => KeepsItsPromise
<1>1. Init => Promise!Init
  BY DEF Init, Promise!Init
<1>2. ASSUME IInv, [Next]_vars PROVE [Promise!Next]_(Promise!promiseVars)
  <2>1. CASE UNCHANGED <<instance, executions, visited>>
    BY <2>1 DEF Promise!promiseVars
  <2>2. ASSUME NEW s \in Session, CommitStart(s) PROVE Promise!Next
    <3>1. Promise!Start
      BY <2>2 DEF CommitStart, Promise!Start, IInv, Typed, TypeOK, Instance
    <3> QED
      BY <3>1 DEF Promise!Next
  <2>3. ASSUME NEW s \in Session, CommitMove(s) PROVE Promise!Next
    <3> DEFINE c == session[s]
    <3>1. /\ c.key \in Key \cup {NoKey} /\ c.transition \in Transition
          /\ From[c.transition] \in visited
          /\ <<c.key, c.transition>> \notin Accepted
          /\ instance'.state \in {To[c.transition]}
               \cup (IF From[c.transition] = To[c.transition] THEN {instance.state} ELSE {})
          /\ visited' = visited \cup {To[c.transition]}
          /\ Accepted' = IF c.key = NoKey THEN Accepted
                         ELSE Accepted \cup {<<c.key, c.transition>>}
      BY <1>2, <2>3, MoveAccepts
    <3> HIDE DEF c
    <3> QED
      BY <3>1, AcceptIsNext
  <2>4. ASSUME NEW s \in Session, CommitCancel(s) PROVE Promise!Next
    <3> DEFINE c == session[s]
    <3>1. /\ c.instance.state \in visited \ TerminalState
          /\ visited' = visited \cup {instance'.state} /\ executions' = executions
      BY <1>2, <2>4, CommitCancelFacts
    <3>2. PICK state \in CancelledState :
            instance'.state = IF state # c.instance.state THEN state ELSE instance.state
      BY <1>2, <2>4, CommitCancelFacts
    <3>3. instance.state \in visited
      BY <1>2, <2>4, CommitCancelFacts DEF IInv, Placed
    <3>4. /\ instance'.state \in {state} \cup
               (IF state \in visited \ TerminalState THEN {instance.state} ELSE {})
          /\ visited' = visited \cup {state}
      BY <3>1, <3>2, <3>3
    <3>5. Promise!Cancel
      BY <3>1, <3>4 DEF Promise!Cancel
    <3> QED
      BY <3>5 DEF Promise!Next
  <2> QED
    BY <1>2, <2>1, <2>2, <2>3, <2>4, OnlyCommitsMove
<1> QED
  BY <1>1, <1>2, SpecIInv, PTL DEF Spec, KeepsItsPromise, Promise!Spec
===============================================================================
