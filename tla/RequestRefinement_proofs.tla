------------------------ MODULE RequestRefinement_proofs ------------------------
(***************************************************************************)
(* Handlers that exclude one another implement RequestLifecycle, for any   *)
(* number of sessions, work types and contractors: a handler takes effect  *)
(* at its commit, and everything that it has loaded and checked by then    *)
(* still holds there.  Loading and rolling back are stuttering steps.      *)
(*                                                                         *)
(* The mapping is that of Atomic.  Lifecycle applies it to the proofs      *)
(* about RequestLifecycle as well, whose invariant the commits rely on:    *)
(* NextKeeps shows it for the mapped states, one abstract step at a time.  *)
(***************************************************************************)
EXTENDS RequestConcurrency_proofs

Lifecycle == INSTANCE RequestLifecycle_proofs WITH
  OfficeProfiles  <- {OfficePermission},
  status          <- row.status,
  completedAt     <- row.completedAt,
  closedAt        <- row.closedAt,
  instState       <- row.instState,
  instCompletedAt <- row.instCompletedAt,
  instCancelledAt <- row.instCancelledAt

-----------------------------------------------------------------------------
(* The rules are the same on both sides of the mapping.                      *)

LEMMA SameStatuses ==
  /\ Lifecycle!RequestStatus = RequestStatus
  /\ Lifecycle!AssignmentStatus = AssignmentStatus
  /\ Lifecycle!NoAssignment = NoAssignment
  /\ Lifecycle!Stamp = Stamp
  /\ Lifecycle!NothingAssigned = NothingAssigned
  /\ Lifecycle!OfficePermission = OfficePermission
  /\ Lifecycle!ContractorPermissions = ContractorPermissions
  /\ Lifecycle!REQUEST_STATUS_TRANSITIONS = REQUEST_STATUS_TRANSITIONS
  /\ Lifecycle!ASSIGNMENT_STATUS_TRANSITIONS = ASSIGNMENT_STATUS_TRANSITIONS
BY DEF Lifecycle!RequestStatus, RequestStatus, Lifecycle!AssignmentStatus, AssignmentStatus,
       Lifecycle!NoAssignment, NoAssignment, Lifecycle!Stamp, Stamp,
       Lifecycle!NothingAssigned, NothingAssigned,
       Lifecycle!OfficePermission, OfficePermission,
       Lifecycle!ContractorPermissions, ContractorPermissions,
       Lifecycle!REQUEST_STATUS_TRANSITIONS, REQUEST_STATUS_TRANSITIONS,
       Lifecycle!ASSIGNMENT_STATUS_TRANSITIONS, ASSIGNMENT_STATUS_TRANSITIONS

LEMMA SamePermissions ==
  ASSUME NEW state, NEW old, NEW new, NEW permissions
  PROVE  /\ Lifecycle!Coded(old, new) <=> Coded(old, new)
         /\ Lifecycle!CanExecute(state, old, new, permissions)
              <=> CanExecute(state, old, new, permissions)
         /\ Lifecycle!OfficeCanSee(permissions) <=> OfficeCanSee(permissions)
BY DEF Lifecycle!Coded, Coded, Lifecycle!REQUEST_TRANSITION_CODES, REQUEST_TRANSITION_CODES,
       Lifecycle!CanExecute, CanExecute, Lifecycle!TransitionPermissions, TransitionPermissions,
       Lifecycle!OfficeCanSee, OfficeCanSee

LEMMA SameAssignments ==
  ASSUME NEW s, NEW W, NEW a
  PROVE  /\ Lifecycle!Existing(a) = Existing(a)
         /\ Lifecycle!AllCancelled(a) <=> AllCancelled(a)
         /\ Lifecycle!AllDone(W, a) <=> AllDone(W, a)
         /\ Lifecycle!StatusAfterPublish(W, a) = StatusAfterPublish(W, a)
         /\ Lifecycle!Recalculated(s, W, a) = Recalculated(s, W, a)
BY DEF Lifecycle!Existing, Existing, Lifecycle!NoAssignment, NoAssignment,
       Lifecycle!Active, Active, Lifecycle!AllCancelled, AllCancelled,
       Lifecycle!Unassigned, Unassigned, Lifecycle!AllDone, AllDone,
       Lifecycle!StatusAfterPublish, StatusAfterPublish, Lifecycle!Recalculated, Recalculated

-----------------------------------------------------------------------------
(* The invariant.                                                            *)

OneAtATime == \A s, o \in Session : s # o => txn[s] = Idle \/ txn[o] = Idle

\* The copies of a handler that nobody disturbs are the rows themselves, and what
\* it was let in for is still legal.
Accurate(t) ==
  t.pc # "idle" =>
    /\ t.pc # "request" => \A c \in RequestColumn : t.row[c] = row[c]
    /\ t.pc \in {"request", "scope"} => \A w \in WorkType : t.a[w] \in {NoAssignment, assignment[w]}
    /\ t.pc \in {"instance", "commit"} => t.W = workTypes /\ t.a = assignment
    /\ t.pc = "commit" /\ t.kind # "edit" => t.row = row
    /\ t.kind = "publish" => row.status \notin {"ABSENT", "CLOSED", "CANCELLED"}
    /\ t.kind = "edit" => row.status = "DRAFT" /\ t.scope # {}
    /\ t.kind = "publish" /\ t.pc \in {"instance", "commit"} => t.found = responsibility
    /\ t.kind = "report" => /\ contractorOf[t.w] \in Contractor
                            /\ t.pc = "commit" /\ t.new = "COMPLETED" /\ RequireWorkResult
                                 => t.w \in workResults

\* Work results hang on assignments: a draft that loses its assignments loses
\* them too.
ResultsOfAssignments == workResults \subseteq Existing(assignment)

\* No work type has a contractor before it is assigned.
ContractorsOfAssignments ==
  \A w \in WorkType : assignment[w] = NoAssignment => contractorOf[w] = NoContractor

InTurn ==
  /\ Base
  /\ \A s \in Session : Accurate(txn[s])
  /\ ResultsOfAssignments /\ ContractorsOfAssignments
  /\ overwritten = {}
  /\ Lifecycle!IInv

\* What a handler reads and never writes stays while one is at work: the work results
\* that a completion needs, and whom the directory names.
ReadingsStay ==
  UNCHANGED txn /\ (\E s \in Session : txn[s] # Idle) =>
    /\ RequireWorkResult => workResults \subseteq workResults'
    /\ UNCHANGED responsibility

\* What the invariant of RequestLifecycle says of the rows.
LEMMA LifecycleOfRows ==
  ASSUME Lifecycle!IInv
  PROVE  /\ row.instState = row.status
         /\ row.instCompletedAt = "set" <=> row.status \in {"COMPLETED", "CLOSED"}
         /\ row.instCancelledAt = "set" <=> row.status = "CANCELLED"
         /\ row.status \in {"ABSENT", "DRAFT", "NEW"} => Existing(assignment) = {}
         /\ Existing(assignment) \subseteq workTypes
BY SameAssignments
DEF Lifecycle!IInv, Lifecycle!InstanceMirrorsRequest, Lifecycle!AssignmentsFitScope

\* While everybody is idle nothing has been loaded that could be out of date.
LEMMA IdleIsAccurate == Accurate(Idle) /\ Accurate(Idle)'
BY DEF Accurate, Idle

\* Whoever commits is alone at work.
LEMMA Alone ==
  ASSUME Base, OneAtATime, NEW s \in Session, txn[s].pc # "idle",
         txn' = [txn EXCEPT ![s] = Idle]
  PROVE  \A o \in Session : txn'[o] = Idle
BY DEF OneAtATime, Base, Idle

-----------------------------------------------------------------------------
(* Beginning and loading: nothing happens to the request, and what is loaded *)
(* is what the database holds.                                               *)

\* A step of session s alone that leaves its copies accurate.
LEMMA AccurateStep ==
  ASSUME Base, \A o \in Session : Accurate(txn[o]), NEW s \in Session, NEW t, Accurate(t),
         txn' = [txn EXCEPT ![s] = t], UNCHANGED dbVars
  PROVE  \A o \in Session : Accurate(txn[o])'
<1>1. ASSUME NEW o \in Session
      PROVE  Accurate(txn'[o])
  BY DEF Base
<1>2. QED
  BY <1>1 DEF Accurate, dbVars

LEMMA RequestLoaded ==
  ASSUME TypeOK, NEW r \in Memory
  PROVE  \A c \in RequestColumn : Loaded(r, RequestColumn)[c] = row[c]
BY LoadedTyped

LEMMA BeginOfficeIsAccurate ==
  ASSUME InTurn, NEW s \in Session, NEW kind \in {"publish", "status", "edit"}, NEW new,
         NEW W, BeginOffice(s, kind, new, W)
  PROVE  \A o \in Session : Accurate(txn[o])'
<1> DEFINE q == Loaded(Unread, RequestColumn)
           t == [pc |-> "scope", kind |-> kind, new |-> new, scope |-> W,
                 row |-> q, W |-> {}, a |-> NothingAssigned, found |-> Nobody]
<1>1. \A c \in RequestColumn : q[c] = row[c]
  BY RequestLoaded, UnreadTyped DEF InTurn, Base
<1>2. txn' = [txn EXCEPT ![s] = t] /\ UNCHANGED dbVars
  BY DEF BeginOffice, Starts
<1> HIDE DEF q
<1>3. Accurate(t)
  BY <1>1 DEF Accurate, BeginOffice, NothingAssigned
<1> HIDE DEF t
<1>4. QED
  BY <1>2, <1>3, AccurateStep DEF InTurn

LEMMA BeginAcceptIsAccurate ==
  ASSUME InTurn, NEW s \in Session, NEW contractors, BeginAccept(s, contractors)
  PROVE  \A o \in Session : Accurate(txn[o])'
<1> DEFINE q == Loaded(Unread, RequestColumn)
           t == [pc |-> "scope", kind |-> "accept", contractors |-> contractors,
                 row |-> q, W |-> {}, a |-> NothingAssigned, found |-> Nobody]
<1>1. \A c \in RequestColumn : q[c] = row[c]
  BY RequestLoaded, UnreadTyped DEF InTurn, Base
<1>2. txn' = [txn EXCEPT ![s] = t] /\ UNCHANGED dbVars
  BY DEF BeginAccept, Starts
<1> HIDE DEF q
<1>3. Accurate(t)
  BY <1>1 DEF Accurate, NothingAssigned
<1> HIDE DEF t
<1>4. QED
  BY <1>2, <1>3, AccurateStep DEF InTurn

LEMMA BeginReportIsAccurate ==
  ASSUME InTurn, NEW s \in Session, NEW w \in WorkType, NEW new, BeginReport(s, w, new)
  PROVE  \A o \in Session : Accurate(txn[o])'
<1> DEFINE b == [NothingAssigned EXCEPT ![w] = assignment[w]]
           t == [pc |-> "request", kind |-> "report", w |-> w, new |-> new,
                 row |-> Unread, W |-> {}, a |-> b, found |-> Nobody]
<1>1. \A v \in WorkType : b[v] \in {NoAssignment, assignment[v]}
  BY DEF NothingAssigned
<1>2. contractorOf[w] \in Contractor
  BY SessionAssumption DEF BeginReport
<1>3. txn' = [txn EXCEPT ![s] = t] /\ UNCHANGED dbVars
  BY DEF BeginReport, Starts
<1> HIDE DEF b
<1>4. Accurate(t)
  BY <1>1, <1>2 DEF Accurate
<1> HIDE DEF t
<1>5. QED
  BY <1>3, <1>4, AccurateStep DEF InTurn

LEMMA ReadRequestIsAccurate ==
  ASSUME InTurn, NEW s \in Session, ReadRequest(s)
  PROVE  \A o \in Session : Accurate(txn[o])'
<1> DEFINE q == Loaded(txn[s].row, RequestColumn)
           t == [txn[s] EXCEPT !.pc = "scope", !.row = q]
<1>1. /\ txn[s] \in ReportTxn /\ txn[s].kind = "report"
      /\ txn[s].pc = "request" /\ Accurate(txn[s])
  BY DEF ReadRequest, InTurn, Base, Txn, Idle, OfficeTxn, AcceptTxn, ReportTxn
<1>2. \A c \in RequestColumn : q[c] = row[c]
  BY <1>1, RequestLoaded DEF InTurn, Base, ReportTxn
<1>3. txn' = [txn EXCEPT ![s] = t] /\ UNCHANGED dbVars
  BY DEF ReadRequest
<1> HIDE DEF q
<1>4. /\ t.pc = "scope" /\ t.row = q /\ t.kind = "report"
      /\ t.a = txn[s].a /\ t.w = txn[s].w
  BY <1>1 DEF ReportTxn
<1> HIDE DEF t
<1>5. Accurate(t)
  BY <1>1, <1>2, <1>4 DEF Accurate
<1>6. QED
  BY <1>3, <1>5, AccurateStep DEF InTurn

LEMMA ReadScopeIsAccurate ==
  ASSUME InTurn, NEW s \in Session, ReadScope(s)
  PROVE  \A o \in Session : Accurate(txn[o])'
<1> DEFINE b == [w \in WorkType |-> IF txn[s].a[w] # NoAssignment THEN txn[s].a[w]
                                    ELSE assignment[w]]
           pc == IF txn[s].kind = "edit" THEN "commit" ELSE "instance"
           f == IF txn[s].kind = "publish" THEN responsibility ELSE txn[s].found
           t == [txn[s] EXCEPT !.pc = pc, !.W = workTypes, !.a = b, !.found = f]
<1>1. /\ txn[s] \in OfficeTxn \cup AcceptTxn \cup ReportTxn
      /\ txn[s].pc = "scope" /\ Accurate(txn[s])
  <2>1. txn[s].pc = "scope"
    BY DEF ReadScope
  <2>2. QED
    BY <2>1, AtWorkOnSomething DEF InTurn
<1>2. b = assignment
  <2>1. \A w \in WorkType : b[w] = assignment[w]
    BY <1>1 DEF Accurate
  <2>2. QED
    BY <2>1 DEF InTurn, Base, TypeOK
<1>3. txn' = [txn EXCEPT ![s] = t] /\ UNCHANGED dbVars
  BY DEF ReadScope
<1>4. pc \in {"instance", "commit"} /\ (pc = "commit" <=> txn[s].kind = "edit")
  OBVIOUS
<1> HIDE DEF b, f, pc
<1>5. /\ t.pc = pc /\ t.kind = txn[s].kind /\ t.row = txn[s].row /\ t.a = b /\ t.W = workTypes
      /\ t.found = f
      /\ t.kind = "edit" => t.scope = txn[s].scope
      /\ t.kind = "report" => t.w = txn[s].w
  BY <1>1 DEF OfficeTxn, AcceptTxn, ReportTxn
<1>6. t.kind = "publish" => t.found = responsibility
  BY <1>5 DEF f
<1> HIDE DEF t
<1>7. Accurate(t)
  BY <1>1, <1>2, <1>4, <1>5, <1>6 DEF Accurate
<1>8. QED
  BY <1>3, <1>7, AccurateStep DEF InTurn

LEMMA ReadInstanceIsAccurate ==
  ASSUME InTurn, NEW s \in Session, ReadInstance(s)
  PROVE  \A o \in Session : Accurate(txn[o])'
<1> DEFINE q == Loaded(txn[s].row, InstanceColumn)
           t == [txn[s] EXCEPT !.pc = "commit", !.row = q]
<1>1. /\ txn[s] \in OfficeTxn \cup AcceptTxn \cup ReportTxn
      /\ txn[s].pc = "instance" /\ Accurate(txn[s])
  BY DEF ReadInstance, InTurn, Base, Txn, Idle
<1>2. q = row
  <2>1. txn[s].row \in Memory /\ row \in Memory
    BY <1>1, RowsInMemory DEF OfficeTxn, AcceptTxn, ReportTxn, InTurn, Base, TypeOK
  <2>2. q \in Memory /\ \A c \in Columns : q[c] = row[c]
    BY <1>1, <2>1, LoadedTyped
    DEF InTurn, Base, Accurate, Columns, RequestColumn, InstanceColumn
  <2> HIDE DEF q
  <2>3. QED
    BY <2>1, <2>2 DEF Memory, Columns, RequestColumn, InstanceColumn
<1>3. txn' = [txn EXCEPT ![s] = t] /\ UNCHANGED dbVars
  BY DEF ReadInstance
<1>4. (RequireWorkResult /\ txn[s].kind = "report" /\ txn[s].new = "COMPLETED")
        => txn[s].w \in workResults
  BY DEF ReadInstance
<1> HIDE DEF q
<1>5. /\ t.pc = "commit" /\ t.kind = txn[s].kind /\ t.row = q /\ t.a = txn[s].a
      /\ t.W = txn[s].W /\ t.found = txn[s].found
      /\ t.kind = "edit" => t.scope = txn[s].scope
      /\ t.kind = "report" => t.w = txn[s].w /\ t.new = txn[s].new
  BY <1>1 DEF OfficeTxn, AcceptTxn, ReportTxn
<1> HIDE DEF t
<1>6. Accurate(t)
  BY <1>1, <1>2, <1>4, <1>5 DEF Accurate
<1>7. QED
  BY <1>3, <1>6, AccurateStep DEF InTurn

-----------------------------------------------------------------------------
(* Committing: each commit is the handler of RequestLifecycle.               *)

\* A flush on the row as it was loaded stores the new row, "now" as a stamp.
LEMMA FlushStores ==
  ASSUME row \in Rows, NEW n
  PROVE  \A c \in Columns : Flushed(row, n)[c] = IF n[c] = "now" THEN "set" ELSE n[c]
BY DEF Flushed, Rows, Stamp, Columns, RequestColumn, InstanceColumn, RequestStatus

\* What the office's move of a row leaves in the memory of its session.
LEMMA AppliedRow ==
  ASSUME row \in Rows, NEW new \in RequestStatus
  PROVE  LET n == Synchronized(Applied(row, new))
         IN  /\ n.status = new /\ n.instState = new
             /\ n.completedAt = CASE row.status # new /\ new = "COMPLETED" -> "now"
                                  [] row.status = "COMPLETED" /\ new = "IN_PROGRESS" -> "null"
                                  [] OTHER -> row.completedAt
             /\ n.closedAt = CASE row.status # new /\ new = "CLOSED" -> "now"
                               [] row.status = "COMPLETED" /\ new = "IN_PROGRESS" -> "null"
                               [] OTHER -> row.closedAt
             /\ n.instCompletedAt = IF new \in {"COMPLETED", "CLOSED"} THEN n.completedAt
                                    ELSE "null"
             /\ n.instCancelledAt = IF new = "CANCELLED" THEN "now" ELSE "null"
<1> DEFINE ap == Applied(row, new)
<1>1. DOMAIN row = Columns
  BY DEF Rows, Columns, RequestColumn, InstanceColumn
<1>2. /\ DOMAIN ap = Columns /\ ap.status = new
      /\ ap.completedAt = CASE row.status # new /\ new = "COMPLETED" -> "now"
                            [] row.status = "COMPLETED" /\ new = "IN_PROGRESS" -> "null"
                            [] OTHER -> row.completedAt
      /\ ap.closedAt = CASE row.status # new /\ new = "CLOSED" -> "now"
                         [] row.status = "COMPLETED" /\ new = "IN_PROGRESS" -> "null"
                         [] OTHER -> row.closedAt
  BY <1>1 DEF Applied, Columns, RequestColumn, InstanceColumn
<1> HIDE DEF ap
<1> DEFINE n == Synchronized(ap)
<1>3. /\ n.status = ap.status /\ n.completedAt = ap.completedAt /\ n.closedAt = ap.closedAt
      /\ n.instState = ap.status
      /\ n.instCompletedAt = IF ap.status \in {"COMPLETED", "CLOSED"} THEN ap.completedAt
                             ELSE "null"
      /\ n.instCancelledAt = IF ap.status = "CANCELLED" THEN "now" ELSE "null"
  BY <1>2 DEF Synchronized, Columns, RequestColumn, InstanceColumn
<1> HIDE DEF n
<1>4. QED
  BY <1>2, <1>3 DEF n, ap

\* The office's move is execute_request_status_transition on the database.
LEMMA OfficeMovesExecute ==
  ASSUME row \in Rows, NEW new \in RequestStatus, OfficeMoves(row, new)
  PROVE  Lifecycle!ExecuteTransition(row.status, new, row.instState, OfficePermission)
<1> DEFINE n == Synchronized(Applied(row, new))
<1>1. /\ n.status = new /\ n.instState = new
      /\ n.completedAt = CASE row.status # new /\ new = "COMPLETED" -> "now"
                           [] row.status = "COMPLETED" /\ new = "IN_PROGRESS" -> "null"
                           [] OTHER -> row.completedAt
      /\ n.closedAt = CASE row.status # new /\ new = "CLOSED" -> "now"
                        [] row.status = "COMPLETED" /\ new = "IN_PROGRESS" -> "null"
                        [] OTHER -> row.closedAt
      /\ n.instCompletedAt = IF new \in {"COMPLETED", "CLOSED"} THEN n.completedAt ELSE "null"
      /\ n.instCancelledAt = IF new = "CANCELLED" THEN "now" ELSE "null"
  BY AppliedRow
<1>2. row' = Flushed(row, n) /\ Recorded(row, new, OfficePermission)
  BY DEF OfficeMoves
<1> HIDE DEF n
<1>3. \A c \in Columns : row'[c] = IF n[c] = "now" THEN "set" ELSE n[c]
  BY <1>2, FlushStores
<1>4. /\ row.status \in RequestStatus \cup {"ABSENT"} /\ row.completedAt \in {"null", "set"}
      /\ row.closedAt \in {"null", "set"} /\ new # "now"
  BY DEF Rows, Stamp, RequestStatus
<1>5. /\ row'.status = new /\ row'.instState = new
      /\ row'.completedAt = CASE row.status # new /\ new = "COMPLETED" -> "set"
                              [] row.status = "COMPLETED" /\ new = "IN_PROGRESS" -> "null"
                              [] OTHER -> row.completedAt
      /\ row'.closedAt = CASE row.status # new /\ new = "CLOSED" -> "set"
                           [] row.status = "COMPLETED" /\ new = "IN_PROGRESS" -> "null"
                           [] OTHER -> row.closedAt
      /\ row'.instCompletedAt = IF new \in {"COMPLETED", "CLOSED"} THEN row'.completedAt
                                ELSE "null"
      /\ row'.instCancelledAt = IF new = "CANCELLED" THEN "set" ELSE "null"
  BY <1>1, <1>3, <1>4 DEF Columns, RequestColumn, InstanceColumn
<1>6. OfficeCanSee(OfficePermission)
  BY DEF OfficeCanSee, OfficePermission
<1>7. QED
  BY <1>2, <1>5, <1>6, SamePermissions
  DEF Recorded, Lifecycle!ExecuteTransition, Lifecycle!ApplyStatus, Lifecycle!Synchronize

LEMMA StatusIsAtomic ==
  ASSUME InTurn, NEW s \in Session, CommitStatus(s)
  PROVE  Lifecycle!Next
<1>1. /\ txn[s].pc = "commit" /\ txn[s].kind = "status" /\ txn[s].row = row
      /\ txn[s].new \in REQUEST_STATUS_TRANSITIONS[row.status]
  BY DEF CommitStatus, Commits, InTurn, Accurate, Base, Asked
<1>2. row \in Rows /\ row.status \in RequestStatus
  BY <1>1, AtWorkOnSomething DEF InTurn, Base, TypeOK
<1>3. PICK new \in RequestStatus : new = txn[s].new
  BY <1>1, <1>2, TransitionsStayInside
<1>4. Lifecycle!ExecuteTransition(row.status, new, row.instState, OfficePermission)
  BY <1>1, <1>2, <1>3, OfficeMovesExecute DEF CommitStatus
<1>5. row.status # "ABSENT" /\ "requests.change_status" \in OfficePermission
      /\ "requests.close" \in OfficePermission
  BY <1>2 DEF RequestStatus, OfficePermission
<1>6. Lifecycle!ChangeStatus(new, OfficePermission)
  BY <1>1, <1>3, <1>4, <1>5, SameStatuses DEF Lifecycle!ChangeStatus, CommitStatus
<1>7. QED
  BY <1>6, SameStatuses DEF Lifecycle!Next, Lifecycle!OfficeNext

LEMMA PublishIsAtomic ==
  ASSUME InTurn, NEW s \in Session, CommitPublish(s)
  PROVE  Lifecycle!Next
<1> DEFINE t == txn[s]
           given == Covered(workTypes, responsibility) \ Existing(assignment)
           a == Assigned(assignment, given)
           new == StatusAfterPublish(workTypes, a)
<1>1. /\ t.pc = "commit" /\ t.kind = "publish" /\ t.row = row /\ t.W = workTypes
      /\ t.a = assignment /\ t.found = responsibility
      /\ row.status \notin {"ABSENT", "CLOSED", "CANCELLED"}
  BY DEF CommitPublish, Commits, InTurn, Accurate
<1>2. /\ row \in Rows /\ assignment \in Assignments /\ workTypes \in SUBSET WorkType
  BY DEF InTurn, Base, TypeOK, Assignments
<1>3. /\ workTypes # {} /\ assignment' = a /\ OfficeMoves(row, new)
      /\ contractorOf' = [w \in WorkType |-> IF w \in given THEN responsibility[w]
                                             ELSE contractorOf[w]]
      /\ UNCHANGED <<workTypes, workResults, responsibility>>
  BY <1>1 DEF CommitPublish
<1>4. new \in RequestStatus
  BY PublishedStatus DEF RequestStatus
<1>5. given = Lifecycle!Uncovered(workTypes, assignment) /\ given \in SUBSET WorkType
  BY <1>2, SameAssignments DEF Lifecycle!Uncovered, Covered
<1> HIDE DEF given
<1>6. a = [w \in WorkType |-> IF w \in given THEN "ASSIGNED" ELSE assignment[w]]
  BY DEF Assigned
<1> HIDE DEF a
<1>7. new = Lifecycle!StatusAfterPublish(workTypes, a)
  BY SameAssignments
<1>8. Lifecycle!ExecuteTransition(row.status, new, row.instState, OfficePermission)
  <2> HIDE DEF new
  <2>1. QED
    BY <1>2, <1>3, <1>4, OfficeMovesExecute
<1> HIDE DEF new
<1>9. Lifecycle!PublishFrom(row.status, row.instState, workTypes, OfficePermission)
  BY <1>3, <1>5, <1>6, <1>7, <1>8 DEF Lifecycle!PublishFrom
<1>10. Lifecycle!Publish(OfficePermission)
  BY <1>1, <1>3, <1>9 DEF Lifecycle!Publish, OfficePermission
<1>11. QED
  BY <1>10 DEF Lifecycle!Next, Lifecycle!OfficeNext

LEMMA EditIsAtomic ==
  ASSUME InTurn, NEW s \in Session, CommitEdit(s)
  PROVE  Lifecycle!Next
<1> DEFINE W == txn[s].scope
<1>1. /\ txn[s] \in OfficeTxn /\ txn[s].pc = "commit" /\ txn[s].kind = "edit"
      /\ txn[s].W = workTypes /\ txn[s].a = assignment
      /\ row.status = "DRAFT" /\ W # {}
  BY DEF CommitEdit, Commits, InTurn, Base, Accurate, Txn, Idle, AcceptTxn, ReportTxn
<1>2. W \in SUBSET WorkType
  BY <1>1 DEF OfficeTxn
<1>3. workTypes' = W /\ UNCHANGED <<row, timelineEnd>>
  BY <1>1 DEF CommitEdit
<1>4. assignment' = NothingAssigned
  BY <1>1 DEF CommitEdit, NothingAssigned, Existing, InTurn, Base, TypeOK
<1>5. workResults' = {}
  BY <1>1 DEF CommitEdit, InTurn, ResultsOfAssignments
<1> HIDE DEF W
<1>6. contractorOf' = [w \in WorkType |-> NoContractor] /\ UNCHANGED responsibility
  BY <1>1 DEF CommitEdit, Existing, InTurn, Base, TypeOK, ContractorsOfAssignments
<1>7. Lifecycle!UpdateWorkTypes(W, OfficePermission)
  BY <1>1, <1>3, <1>4, <1>5, <1>6, SameStatuses
  DEF Lifecycle!UpdateWorkTypes, Lifecycle!instanceVars, OfficePermission
<1>8. QED
  BY <1>2, <1>7 DEF Lifecycle!Next, Lifecycle!OfficeNext

\* What a contractor's report leaves in the memory of its session, by way of the
\* engine and of the synchronization; r is the row with the service's changes.
LEMMA ReportedMemory ==
  ASSUME NEW r, NEW st, DOMAIN r = Columns, r.status = st
  PROVE  /\ LET n == Transitioned(r, st)
            IN  /\ n.status = st /\ n.instState = st
                /\ n.completedAt = r.completedAt /\ n.closedAt = r.closedAt
                /\ n.instCompletedAt = IF st \in {"COMPLETED", "CLOSED"} THEN "now"
                                       ELSE r.instCompletedAt
                /\ n.instCancelledAt = IF st = "CANCELLED" THEN "now" ELSE r.instCancelledAt
         /\ LET n == Synchronized(r)
            IN  /\ n.status = st /\ n.instState = st
                /\ n.completedAt = r.completedAt /\ n.closedAt = r.closedAt
                /\ n.instCompletedAt = IF st \in {"COMPLETED", "CLOSED"} THEN r.completedAt
                                       ELSE "null"
                /\ n.instCancelledAt = IF st = "CANCELLED" THEN "now" ELSE "null"
<1>1. LET n == Transitioned(r, st)
      IN  /\ n.status = st /\ n.instState = st
          /\ n.completedAt = r.completedAt /\ n.closedAt = r.closedAt
          /\ n.instCompletedAt = IF st \in {"COMPLETED", "CLOSED"} THEN "now"
                                 ELSE r.instCompletedAt
          /\ n.instCancelledAt = IF st = "CANCELLED" THEN "now" ELSE r.instCancelledAt
  BY DEF Transitioned, Columns, RequestColumn, InstanceColumn
<1>2. LET n == Synchronized(r)
      IN  /\ n.status = st /\ n.instState = st
          /\ n.completedAt = r.completedAt /\ n.closedAt = r.closedAt
          /\ n.instCompletedAt = IF st \in {"COMPLETED", "CLOSED"} THEN r.completedAt
                                 ELSE "null"
          /\ n.instCancelledAt = IF st = "CANCELLED" THEN "now" ELSE "null"
  BY DEF Synchronized, Columns, RequestColumn, InstanceColumn
<1>3. QED
  BY <1>1, <1>2

\* change_assignment_status, committed: the report of RequestLifecycle.  Where the
\* change has a code the engine's stamps and those of the synchronization after a
\* second accepted assignment are the same.
LEMMA ReportIsAtomic ==
  ASSUME InTurn, NEW s \in Session, NEW kind \in {"accept", "report"},
         NEW own \in SUBSET WorkType, NEW new \in AssignmentStatus,
         CommitReport(s, kind, own, new)
  PROVE  Lifecycle!AssignmentsBecome(own, new)
<1> DEFINE a == [w \in WorkType |-> IF w \in own THEN new ELSE assignment[w]]
           st == Recalculated(row.status, workTypes, a)
           done == AllDone(workTypes, a)
           once == Coded(row.status, st) /\ Cardinality(own) = 1
           c == IF done /\ row.completedAt = "null" THEN "now" ELSE row.completedAt
           r == [row EXCEPT !.status = st, !.completedAt = c]
           n == IF once THEN Transitioned(r, st) ELSE Synchronized(r)
<1>1. /\ txn[s].pc = "commit" /\ txn[s].kind = kind /\ txn[s].row = row
      /\ txn[s].W = workTypes /\ txn[s].a = assignment
  BY DEF CommitReport, Commits, InTurn, Accurate
<1>2. /\ row \in Rows /\ row.status \in RequestStatus
      /\ own # {} /\ own \subseteq Existing(assignment)
  BY <1>1, AtWorkOnSomething DEF CommitReport, InTurn, Base, TypeOK
<1>3. /\ assignment' = Saved(a, own)
      /\ Recorded(row, st, ContractorPermissions)
      /\ row' = Flushed(row, n)
      /\ UNCHANGED <<workTypes, contractorOf, workResults, responsibility>>
  BY <1>1 DEF CommitReport
<1>4. assignment' = a
  BY <1>3 DEF Saved
<1>5. /\ st \in {"CANCELLED", "COMPLETED", "IN_PROGRESS", "ASSIGNED", "PARTIALLY_ASSIGNED",
                 row.status}
      /\ st = "COMPLETED" => done \/ row.status = "COMPLETED"
  BY RecalculatedRange DEF Recalculated
<1>6. /\ st = Lifecycle!Recalculated(row.status, workTypes, a)
      /\ done <=> Lifecycle!AllDone(workTypes, a)
  BY SameAssignments
<1> HIDE DEF a, st, done, once
<1>7. st \in RequestStatus
  BY <1>2, <1>5 DEF RequestStatus
<1>8. /\ DOMAIN r = Columns /\ r.status = st /\ r.completedAt = c /\ r.closedAt = row.closedAt
      /\ r.instCompletedAt = row.instCompletedAt /\ r.instCancelledAt = row.instCancelledAt
  BY <1>2 DEF Rows, Columns, RequestColumn, InstanceColumn
<1> HIDE DEF r, c
<1>9. /\ n.status = st /\ n.instState = st /\ n.completedAt = c /\ n.closedAt = row.closedAt
      /\ once =>
           /\ n.instCompletedAt = IF st \in {"COMPLETED", "CLOSED"} THEN "now"
                                  ELSE row.instCompletedAt
           /\ n.instCancelledAt = IF st = "CANCELLED" THEN "now" ELSE row.instCancelledAt
      /\ ~once =>
           /\ n.instCompletedAt = IF st \in {"COMPLETED", "CLOSED"} THEN c ELSE "null"
           /\ n.instCancelledAt = IF st = "CANCELLED" THEN "now" ELSE "null"
  BY <1>8, ReportedMemory
<1> HIDE DEF n
<1>10. \A col \in Columns : row'[col] = IF n[col] = "now" THEN "set" ELSE n[col]
  BY <1>2, <1>3, FlushStores
<1>11. /\ row.completedAt \in {"null", "set"} /\ row.closedAt \in {"null", "set"}
       /\ row.instCompletedAt \in {"null", "set"} /\ row.instCancelledAt \in {"null", "set"}
       /\ st # "now" /\ c \in {"null", "set", "now"}
  BY <1>2, <1>7 DEF Rows, Stamp, RequestStatus, c
<1>12. /\ row'.status = st /\ row'.instState = st
       /\ row'.completedAt = IF done THEN "set" ELSE row.completedAt
       /\ row'.closedAt = row.closedAt
  BY <1>9, <1>10, <1>11 DEF Columns, RequestColumn, InstanceColumn, c
<1>13. /\ once =>
            /\ row'.instCompletedAt = IF st \in {"COMPLETED", "CLOSED"} THEN "set"
                                      ELSE row.instCompletedAt
            /\ row'.instCancelledAt = IF st = "CANCELLED" THEN "set" ELSE row.instCancelledAt
       /\ ~once =>
            /\ row'.instCompletedAt = IF st \in {"COMPLETED", "CLOSED"} THEN row'.completedAt
                                      ELSE "null"
            /\ row'.instCancelledAt = IF st = "CANCELLED" THEN "set" ELSE "null"
  BY <1>9, <1>10, <1>11 DEF Columns, RequestColumn, InstanceColumn
<1>14. CASE Coded(row.status, st)
  <2>1. /\ CanExecute(row.instState, row.status, st, ContractorPermissions)
        /\ timelineEnd' = st
    BY <1>3, <1>14 DEF Recorded
  <2>2. /\ row.status \in {"NEW", "PARTIALLY_ASSIGNED", "ASSIGNED", "IN_PROGRESS"}
        /\ st \in {"IN_PROGRESS", "COMPLETED", "CANCELLED"}
    BY <1>2, <1>7, <1>14, <2>1, ContractorsTransitions
  <2>3. row.instCompletedAt = "null" /\ row.instCancelledAt = "null"
    BY <1>11, <2>2, LifecycleOfRows DEF InTurn
  <2>4. st = "COMPLETED" => row'.completedAt = "set"
    BY <1>5, <1>12, <2>2
  <2>5. /\ row'.instCompletedAt = IF st \in {"COMPLETED", "CLOSED"} THEN "set"
                                  ELSE row.instCompletedAt
        /\ row'.instCancelledAt = IF st = "CANCELLED" THEN "set" ELSE row.instCancelledAt
    BY <1>13, <2>2, <2>3, <2>4
  <2>6. Lifecycle!RecordAfterChange(st)
    BY <1>12, <1>14, <2>1, <2>5, SamePermissions, SameStatuses DEF Lifecycle!RecordAfterChange
  <2>7. QED
    BY <1>3, <1>4, <1>6, <1>12, <2>6 DEF Lifecycle!AssignmentsBecome, a
<1>15. CASE ~Coded(row.status, st)
  <2>1. UNCHANGED timelineEnd /\ ~once
    BY <1>3, <1>15 DEF Recorded, once
  <2>2. Lifecycle!RecordAfterChange(st)
    BY <1>12, <1>13, <1>15, <2>1, SamePermissions
    DEF Lifecycle!RecordAfterChange, Lifecycle!Synchronize
  <2>3. QED
    BY <1>3, <1>4, <1>6, <1>12, <2>2 DEF Lifecycle!AssignmentsBecome, a
<1>16. QED
  BY <1>14, <1>15

LEMMA AcceptIsAtomic ==
  ASSUME InTurn, NEW s \in Session, CommitAccept(s)
  PROVE  Lifecycle!Next
<1> DEFINE contractors == txn[s].contractors
           own == {w \in WorkType : txn[s].a[w] = "ASSIGNED" /\ contractorOf[w] \in contractors}
<1>1. /\ CommitReport(s, "accept", own, "ACCEPTED")
      /\ txn[s].pc = "commit" /\ txn[s].kind = "accept"
  BY DEF CommitAccept
<1>2. txn[s] \in AcceptTxn /\ txn[s].a = assignment
  BY <1>1 DEF InTurn, Base, Accurate, Txn, Idle, OfficeTxn, ReportTxn
<1>3. contractors \in SUBSET Contractor
  BY <1>2 DEF AcceptTxn
<1>4. own = {w \in WorkType : assignment[w] = "ASSIGNED" /\ contractorOf[w] \in contractors}
  BY <1>2
<1>5. own \in SUBSET WorkType /\ "ACCEPTED" \in AssignmentStatus
  BY DEF AssignmentStatus
<1> HIDE DEF own
<1>6. own # {} /\ Lifecycle!AssignmentsBecome(own, "ACCEPTED")
  BY <1>1, <1>5, ReportIsAtomic DEF CommitReport
<1>7. Lifecycle!AcceptRequest(contractors)
  BY <1>4, <1>6 DEF Lifecycle!AcceptRequest
<1> HIDE DEF contractors
<1>8. QED
  BY <1>3, <1>7 DEF Lifecycle!Next, Lifecycle!ContractorNext

LEMMA AssignmentIsAtomic ==
  ASSUME InTurn, NEW s \in Session, CommitAssignment(s)
  PROVE  Lifecycle!Next
<1>1. /\ CommitReport(s, "report", {txn[s].w}, txn[s].new)
      /\ txn[s].pc = "commit" /\ txn[s].kind = "report"
  BY DEF CommitAssignment
<1>2. /\ txn[s] \in ReportTxn /\ txn[s].a = assignment
      /\ contractorOf[txn[s].w] \in Contractor
      /\ txn[s].new = "COMPLETED" /\ RequireWorkResult => txn[s].w \in workResults
      /\ assignment[txn[s].w] \in AssignmentStatus
      /\ txn[s].new \in ASSIGNMENT_STATUS_TRANSITIONS[assignment[txn[s].w]]
  BY <1>1 DEF InTurn, Base, Accurate, Asked, Txn, Idle, OfficeTxn, AcceptTxn
<1>3. PICK w \in WorkType, new \in AssignmentStatus : w = txn[s].w /\ new = txn[s].new
  BY <1>2 DEF ReportTxn
<1>4. {w} \in SUBSET WorkType /\ {contractorOf[w]} \in SUBSET Contractor
  BY <1>2, <1>3
<1>5. Lifecycle!AssignmentsBecome({w}, new)
  BY <1>1, <1>3, <1>4, ReportIsAtomic
<1>6. assignment[w] # NoAssignment
  BY <1>2, <1>3 DEF AssignmentStatus, NoAssignment
<1>7. Lifecycle!ReportAssignment({contractorOf[w]}, w, new)
  BY <1>2, <1>3, <1>5, <1>6, SameStatuses DEF Lifecycle!ReportAssignment
<1>8. QED
  BY <1>4, <1>7, SameStatuses DEF Lifecycle!Next, Lifecycle!ContractorNext

\* The handlers that are one step already.
LEMMA CreateDraftIsAtomic ==
  ASSUME InTurn, NEW s \in Session, NEW W \in SUBSET WorkType, CreateDraft(s, W)
  PROVE  Lifecycle!Next
<1>1. row \in Rows
  BY DEF InTurn, Base, TypeOK
<1>2. /\ row'.status = "DRAFT" /\ row'.instState = "DRAFT"
      /\ row'.completedAt = row.completedAt /\ row'.closedAt = row.closedAt
      /\ row'.instCompletedAt = row.instCompletedAt
      /\ row'.instCancelledAt = row.instCancelledAt
  BY <1>1 DEF CreateDraft, Rows
<1>3. "requests.create" \in OfficePermission
  BY DEF OfficePermission
<1>4. Lifecycle!CreateDraft(W, OfficePermission)
  BY <1>2, <1>3 DEF CreateDraft, Lifecycle!CreateDraft
<1>5. QED
  BY <1>4 DEF Lifecycle!Next, Lifecycle!OfficeNext

LEMMA CreatePublishedIsAtomic ==
  ASSUME InTurn, NEW s \in Session, NEW W \in SUBSET WorkType, CreatePublished(s, W)
  PROVE  Lifecycle!Next
<1> DEFINE given == Covered(W, responsibility)
           a == Assigned(NothingAssigned, given)
           st == StatusAfterPublish(W, a)
<1>1. /\ row \in Rows /\ assignment = NothingAssigned /\ Existing(assignment) = {}
      /\ \A w \in WorkType : contractorOf[w] = NoContractor
  BY DEF InTurn, Base, TypeOK, CreatePublished, NothingYet, NothingAssigned, Existing,
         ContractorsOfAssignments
<1>2. /\ row' = [row EXCEPT !.status = st, !.instState = st]
      /\ workTypes' = W /\ assignment' = a /\ timelineEnd' = st
      /\ contractorOf' = [w \in WorkType |-> IF w \in given THEN responsibility[w]
                                             ELSE contractorOf[w]]
      /\ UNCHANGED <<workResults, responsibility>>
      /\ row.status = "ABSENT" /\ W # {}
  BY <1>1 DEF CreatePublished
<1>3. st \in {"NEW", "PARTIALLY_ASSIGNED", "ASSIGNED"}
  BY PublishedStatus
<1>4. given = Lifecycle!Uncovered(W, assignment) /\ given \in SUBSET WorkType
  BY <1>1, SameAssignments DEF Lifecycle!Uncovered, Covered
<1> HIDE DEF given
<1>5. a = [w \in WorkType |-> IF w \in given THEN "ASSIGNED" ELSE assignment[w]]
  BY <1>1 DEF Assigned
<1> HIDE DEF a
<1>6. st = Lifecycle!StatusAfterPublish(W, a)
  BY SameAssignments
<1> HIDE DEF st
<1>7. /\ row'.status = st /\ row'.instState = st
      /\ row'.completedAt = row.completedAt /\ row'.closedAt = row.closedAt
      /\ row'.instCompletedAt = row.instCompletedAt
      /\ row'.instCancelledAt = row.instCancelledAt
  BY <1>1, <1>2 DEF Rows
<1>8. row.instCompletedAt = "null" /\ row.instCancelledAt = "null"
  BY <1>1, <1>2, LifecycleOfRows DEF InTurn, Rows, Stamp
<1>9. /\ Coded("DRAFT", st) /\ OfficeCanSee(OfficePermission)
      /\ CanExecute("DRAFT", "DRAFT", st, OfficePermission)
      /\ "requests.create" \in OfficePermission
  BY <1>3 DEF Coded, REQUEST_TRANSITION_CODES, OfficeCanSee, CanExecute, TransitionPermissions,
              OfficePermission
<1>10. Lifecycle!ExecuteTransition("DRAFT", st, "DRAFT", OfficePermission)
  <2>1. Lifecycle!ApplyStatus("DRAFT", st)
    BY <1>3, <1>7 DEF Lifecycle!ApplyStatus
  <2>2. Lifecycle!Synchronize(st, row'.completedAt)
    BY <1>3, <1>7, <1>8 DEF Lifecycle!Synchronize
  <2>3. QED
    BY <1>2, <1>9, <2>1, <2>2, SamePermissions DEF Lifecycle!ExecuteTransition
<1>11. Lifecycle!PublishFrom("DRAFT", "DRAFT", W, OfficePermission)
  BY <1>2, <1>4, <1>5, <1>6, <1>10 DEF Lifecycle!PublishFrom
<1>12. Lifecycle!CreatePublished(W, OfficePermission)
  BY <1>2, <1>9, <1>11 DEF Lifecycle!CreatePublished
<1>13. QED
  BY <1>12 DEF Lifecycle!Next, Lifecycle!OfficeNext

LEMMA WorkResultIsAtomic ==
  ASSUME InTurn, NEW s \in Session, NEW w \in WorkType,
         UploadWorkResult(s, w) \/ DeleteWorkResult(s, w)
  PROVE  Lifecycle!Next
<1>1. CASE UploadWorkResult(s, w)
  <2>1. Lifecycle!UploadWorkResult(w)
    BY <1>1, SameStatuses
    DEF UploadWorkResult, Existing, Lifecycle!UploadWorkResult, Lifecycle!requestVars,
        Lifecycle!instanceVars
  <2>2. QED
    BY <2>1 DEF Lifecycle!Next, Lifecycle!DataNext
<1>2. CASE DeleteWorkResult(s, w)
  <2>1. Lifecycle!DeleteWorkResult(w)
    BY <1>2
    DEF DeleteWorkResult, Lifecycle!DeleteWorkResult, Lifecycle!requestVars,
        Lifecycle!instanceVars
  <2>2. QED
    BY <2>1 DEF Lifecycle!Next, Lifecycle!DataNext
<1>3. QED
  BY <1>1, <1>2

LEMMA SetResponsibilityIsAtomic ==
  ASSUME InTurn, NEW s \in Session, NEW w \in WorkType, NEW c \in Responsible[w],
         SetResponsibility(s, w, c)
  PROVE  Lifecycle!Next
<1>1. c \in Contractor \cup {NoContractor}
  BY ResponsibleAssumption
<1>2. Lifecycle!SetResponsibility(w, c)
  BY DEF SetResponsibility, Lifecycle!SetResponsibility, Lifecycle!requestVars,
         Lifecycle!instanceVars
<1>3. QED
  BY <1>1, <1>2 DEF Lifecycle!Next, Lifecycle!DataNext

\* What a step leaves alone in the database, RequestLifecycle does not see.
LEMMA Stutters == UNCHANGED dbVars => UNCHANGED Lifecycle!vars
BY DEF dbVars, Lifecycle!vars, Lifecycle!requestVars, Lifecycle!instanceVars

\* Each step is one of RequestLifecycle or none.
LEMMA StepIsAtomic ==
  ASSUME InTurn, [Next]_vars
  PROVE  [Lifecycle!Next]_(Lifecycle!vars)
<1>1. ASSUME NEW s \in Session,
             \/ OfficeBegins(s)
             \/ \E contractors \in SUBSET Contractor : BeginAccept(s, contractors)
             \/ \E w \in WorkType, new \in AssignmentStatus : BeginReport(s, w, new)
             \/ ReadRequest(s) \/ ReadScope(s) \/ ReadInstance(s) \/ Abort(s)
      PROVE  UNCHANGED dbVars
  BY <1>1 DEF OfficeBegins, BeginOffice, BeginAccept, BeginReport, Starts, ReadRequest,
              ReadScope, ReadInstance, Abort
<1>2. CASE UNCHANGED vars
  BY <1>2, Stutters DEF vars
<1>3. CASE Next
  BY <1>1, <1>3, Stutters, CreateDraftIsAtomic, CreatePublishedIsAtomic, PublishIsAtomic,
     StatusIsAtomic, EditIsAtomic, AcceptIsAtomic, AssignmentIsAtomic, WorkResultIsAtomic,
     SetResponsibilityIsAtomic
  DEF Next
<1>4. QED
  BY <1>2, <1>3

-----------------------------------------------------------------------------
(* The invariant holds as long as handlers exclude one another.              *)

LEMMA AllIdleIsAccurate ==
  ASSUME \A o \in Session : txn'[o] = Idle
  PROVE  \A o \in Session : Accurate(txn[o])'
BY DEF Accurate, Idle

LEMMA CommitsAreAccurate ==
  ASSUME InTurn, OneAtATime, NEW s \in Session,
         \/ CommitPublish(s) \/ CommitStatus(s) \/ CommitEdit(s)
         \/ CommitAccept(s) \/ CommitAssignment(s)
  PROVE  \A o \in Session : Accurate(txn[o])'
<1>1. txn[s].pc # "idle" /\ txn' = [txn EXCEPT ![s] = Idle]
  BY DEF CommitPublish, CommitStatus, CommitEdit, CommitAccept, CommitAssignment, CommitReport,
         Commits
<1>2. QED
  BY <1>1, Alone, AllIdleIsAccurate DEF InTurn

LEMMA CreatesAreAccurate ==
  ASSUME InTurn, NEW s \in Session, NEW W, CreateDraft(s, W) \/ CreatePublished(s, W)
  PROVE  \A o \in Session : Accurate(txn[o])'
BY AllIdleIsAccurate DEF CreateDraft, CreatePublished, InTurn, Base, NothingYet

LEMMA WorkResultsAreAccurate ==
  ASSUME InTurn, ReadingsStay, NEW s \in Session, NEW w,
         UploadWorkResult(s, w) \/ DeleteWorkResult(s, w)
  PROVE  \A o \in Session : Accurate(txn[o])'
<1>1. UNCHANGED <<row, workTypes, assignment, contractorOf, responsibility, txn>>
  BY DEF UploadWorkResult, DeleteWorkResult
<1>2. CASE \A o \in Session : txn[o] = Idle
  BY <1>1, <1>2, AllIdleIsAccurate
<1>3. CASE RequireWorkResult => workResults \subseteq workResults'
  BY <1>1, <1>3 DEF InTurn, Accurate
<1>4. QED
  BY <1>1, <1>2, <1>3 DEF ReadingsStay

LEMMA ResponsibilityIsAccurate ==
  ASSUME InTurn, ReadingsStay, NEW s \in Session, NEW w, NEW c, SetResponsibility(s, w, c)
  PROVE  \A o \in Session : Accurate(txn[o])'
<1>1. UNCHANGED <<row, workTypes, assignment, contractorOf, workResults, txn>>
  BY DEF SetResponsibility
<1>2. CASE \A o \in Session : txn[o] = Idle
  BY <1>1, <1>2, AllIdleIsAccurate
<1>3. CASE UNCHANGED responsibility
  BY <1>1, <1>3 DEF InTurn, Accurate
<1>4. QED
  BY <1>1, <1>2, <1>3 DEF ReadingsStay

LEMMA OfficeBeginsIsAccurate ==
  ASSUME InTurn, NEW s \in Session, OfficeBegins(s)
  PROVE  \A o \in Session : Accurate(txn[o])'
BY BeginOfficeIsAccurate DEF OfficeBegins

LEMMA StepKeepsAccurate ==
  ASSUME InTurn, OneAtATime, ReadingsStay, [Next]_vars
  PROVE  \A s \in Session : Accurate(txn[s])'
<1>1. ASSUME NEW s \in Session, Abort(s)
      PROVE  \A o \in Session : Accurate(txn[o])'
  BY <1>1, AccurateStep, IdleIsAccurate DEF Abort, InTurn
<1>2. CASE UNCHANGED vars
  BY <1>2 DEF vars, dbVars, InTurn, Accurate
<1>3. CASE Next
  BY <1>1, <1>3, OfficeBeginsIsAccurate, BeginAcceptIsAccurate, BeginReportIsAccurate,
     ReadRequestIsAccurate, ReadScopeIsAccurate, ReadInstanceIsAccurate, CommitsAreAccurate,
     CreatesAreAccurate, WorkResultsAreAccurate, ResponsibilityIsAccurate
  DEF Next
<1>4. QED
  BY <1>2, <1>3

\* What a report does to the assignments, in short.
LEMMA ReportingWrites ==
  ASSUME Base, NEW s \in Session, CommitAccept(s) \/ CommitAssignment(s)
  PROVE  \E own \in SUBSET Existing(assignment), new \in AssignmentStatus \ {"ASSIGNED"} :
           assignment' = [w \in WorkType |-> IF w \in own THEN new ELSE assignment[w]]
<1>1. PICK own \in SUBSET Existing(assignment), new \in AssignmentStatus \ {"ASSIGNED"} :
        /\ own # {}
        /\ assignment' = [w \in WorkType |-> IF w \in own THEN new ELSE assignment[w]]
        /\ overwritten' = overwritten \cup {w \in own : assignment[w] # txn[s].a[w]}
        /\ \A w \in own : /\ txn[s].a[w] \in AssignmentStatus
                         /\ new \in ASSIGNMENT_STATUS_TRANSITIONS[txn[s].a[w]]
        /\ txn[s].kind \in {"accept", "report"} /\ txn[s].pc = "commit"
        /\ txn[s].kind = "accept" => new = "ACCEPTED" /\ \A w \in own :
                                       contractorOf[w] \in txn[s].contractors
        /\ txn[s].kind = "report" => own = {txn[s].w}
  BY ReportingMoves
<1>2. QED
  BY <1>1

LEMMA StepKeepsResults ==
  ASSUME InTurn, [Next]_vars
  PROVE  ResultsOfAssignments'
<1>1. ASSUME NEW s \in Session, CommitPublish(s)
      PROVE  ResultsOfAssignments'
  <2>1. UNCHANGED workResults /\ assignment' \in Assignments
    BY <1>1, StepKeepsBase DEF CommitPublish, InTurn, Base, TypeOK, Assignments
  <2>2. Existing(assignment) \subseteq Existing(assignment')
    BY <1>1, <2>1, PublishingAdds DEF InTurn, Base, TypeOK, Assignments, Existing
  <2>3. QED
    BY <2>1, <2>2 DEF InTurn, ResultsOfAssignments
<1>2. ASSUME NEW s \in Session, CommitAccept(s) \/ CommitAssignment(s)
      PROVE  ResultsOfAssignments'
  <2>1. PICK own \in SUBSET Existing(assignment), new \in AssignmentStatus \ {"ASSIGNED"} :
          assignment' = [w \in WorkType |-> IF w \in own THEN new ELSE assignment[w]]
    BY <1>2, ReportingWrites DEF InTurn
  <2>2. Existing(assignment') = Existing(assignment)
    BY <2>1 DEF Existing, InTurn, Base, TypeOK, AssignmentStatus, NoAssignment
  <2>3. UNCHANGED workResults
    BY <1>2 DEF CommitAccept, CommitAssignment, CommitReport
  <2>4. QED
    BY <2>2, <2>3 DEF InTurn, ResultsOfAssignments
<1>3. ASSUME NEW s \in Session, CommitEdit(s)
      PROVE  ResultsOfAssignments'
  BY <1>3 DEF CommitEdit, InTurn, Base, TypeOK, ResultsOfAssignments, Existing, NoAssignment
<1>4. ASSUME NEW s \in Session, NEW W, CreateDraft(s, W) \/ CreatePublished(s, W)
      PROVE  ResultsOfAssignments'
  BY <1>4 DEF CreateDraft, CreatePublished, InTurn, Base, NothingYet, NothingAssigned, Existing,
              ResultsOfAssignments
<1>5. ASSUME NEW s \in Session, NEW w, UploadWorkResult(s, w) \/ DeleteWorkResult(s, w)
      PROVE  ResultsOfAssignments'
  BY <1>5 DEF UploadWorkResult, DeleteWorkResult, InTurn, ResultsOfAssignments
<1>6. CASE UNCHANGED <<assignment, workResults>>
  BY <1>6 DEF InTurn, ResultsOfAssignments
<1>7. QED
  BY <1>1, <1>2, <1>3, <1>4, <1>5, <1>6
  DEF Next, vars, dbVars, OfficeBegins, BeginOffice, BeginAccept, BeginReport, Starts,
      ReadRequest, ReadScope, ReadInstance, CommitStatus, Abort, SetResponsibility

LEMMA StepKeepsContractors ==
  ASSUME InTurn, [Next]_vars
  PROVE  ContractorsOfAssignments'
<1>1. ASSUME NEW s \in Session, CommitPublish(s)
      PROVE  ContractorsOfAssignments'
  <2>1. PICK given \in SUBSET WorkType :
          /\ assignment' = Assigned(assignment, given)
          /\ contractorOf' = [w \in WorkType |-> IF w \in given THEN txn[s].found[w]
                                                 ELSE contractorOf[w]]
    <3> DEFINE given == Covered(txn[s].W, txn[s].found) \ Existing(txn[s].a)
    <3>1. txn[s].W \subseteq WorkType
      BY <1>1 DEF CommitPublish, Commits, InTurn, Base, TypeOK
    <3>2. given \in SUBSET WorkType
      BY <3>1 DEF Covered
    <3>3. QED
      BY <1>1, <3>2 DEF CommitPublish
  <2>2. QED
    BY <2>1 DEF Assigned, NoAssignment, InTurn, ContractorsOfAssignments
<1>2. ASSUME NEW s \in Session, CommitAccept(s) \/ CommitAssignment(s)
      PROVE  ContractorsOfAssignments'
  <2>1. PICK own \in SUBSET Existing(assignment), new \in AssignmentStatus \ {"ASSIGNED"} :
          assignment' = [w \in WorkType |-> IF w \in own THEN new ELSE assignment[w]]
    BY <1>2, ReportingWrites DEF InTurn
  <2>2. UNCHANGED contractorOf
    BY <1>2 DEF CommitAccept, CommitAssignment, CommitReport
  <2>3. QED
    BY <2>1, <2>2 DEF InTurn, ContractorsOfAssignments, AssignmentStatus, NoAssignment
<1>3. ASSUME NEW s \in Session, CommitEdit(s)
      PROVE  ContractorsOfAssignments'
  <2>1. txn[s].a = assignment
    BY <1>3 DEF CommitEdit, Commits, InTurn, Accurate
  <2>2. QED
    BY <1>3, <2>1 DEF CommitEdit, InTurn, ContractorsOfAssignments, Base, TypeOK, Existing
<1>4. ASSUME NEW s \in Session, NEW W \in SUBSET WorkType, CreateDraft(s, W)
      PROVE  ContractorsOfAssignments'
  BY <1>4 DEF CreateDraft, InTurn, ContractorsOfAssignments
<1>5. ASSUME NEW s \in Session, NEW W \in SUBSET WorkType, CreatePublished(s, W)
      PROVE  ContractorsOfAssignments'
  BY <1>5 DEF CreatePublished, Assigned, NoAssignment, ContractorsOfAssignments
<1>6. CASE UNCHANGED <<assignment, contractorOf>>
  BY <1>6 DEF InTurn, ContractorsOfAssignments
<1>7. QED
  BY <1>1, <1>2, <1>3, <1>4, <1>5, <1>6
  DEF Next, vars, dbVars, OfficeBegins, BeginOffice, BeginAccept, BeginReport, Starts,
      ReadRequest, ReadScope, ReadInstance, CommitStatus, Abort, UploadWorkResult,
      DeleteWorkResult, SetResponsibility

\* What a handler in turn writes over it has loaded.
LEMMA StepOverwritesNothing ==
  ASSUME InTurn, [Next]_vars
  PROVE  overwritten' = {}
<1>1. ASSUME NEW s \in Session, NEW kind, NEW own, NEW new, CommitReport(s, kind, own, new)
      PROVE  overwritten' = {}
  <2>1. txn[s].a = assignment
    BY <1>1 DEF CommitReport, Commits, InTurn, Accurate
  <2>2. overwritten' = overwritten \cup {w \in own : assignment[w] # txn[s].a[w]}
    BY <1>1 DEF CommitReport
  <2>3. QED
    BY <2>1, <2>2 DEF InTurn
<1>2. ASSUME NEW s \in Session, CommitAccept(s) \/ CommitAssignment(s)
      PROVE  overwritten' = {}
  BY <1>1, <1>2 DEF CommitAccept, CommitAssignment
<1>3. CASE UNCHANGED overwritten
  BY <1>3 DEF InTurn
<1>4. QED
  BY <1>2, <1>3
  DEF Next, vars, dbVars, CreateDraft, CreatePublished, OfficeBegins, BeginOffice, BeginAccept,
      BeginReport, Starts, ReadRequest, ReadScope, ReadInstance, CommitPublish, CommitStatus,
      CommitEdit, Abort, UploadWorkResult, DeleteWorkResult, SetResponsibility

LEMMA InitInTurn == Init => InTurn /\ Lifecycle!Init
<1> SUFFICES ASSUME Init PROVE InTurn /\ Lifecycle!Init
  OBVIOUS
<1>1. Lifecycle!Init
  BY SameStatuses DEF Init, Nobody, Lifecycle!Init
<1>2. Lifecycle!IInv
  BY <1>1, Lifecycle!InitKeeps, ResponsibleAssumption, ResultAssumption
  DEF OfficePermission, Lifecycle!OfficePermission
<1>3. QED
  BY <1>1, <1>2, InitBase DEF Init, InTurn, Accurate, ResultsOfAssignments,
     ContractorsOfAssignments, Nobody, Idle

LEMMA StepKeepsInTurn ==
  ASSUME InTurn, OneAtATime, ReadingsStay, [Next]_vars
  PROVE  InTurn'
<1>1. Lifecycle!IInv /\ [Lifecycle!Next]_(Lifecycle!vars) => Lifecycle!IInv'
  BY Lifecycle!NextKeeps, ResponsibleAssumption, ResultAssumption
  DEF OfficePermission, Lifecycle!OfficePermission
<1>2. Lifecycle!IInv'
  BY <1>1, StepIsAtomic DEF InTurn
<1>3. QED
  BY <1>2, StepKeepsBase, StepKeepsAccurate, StepKeepsResults, StepKeepsContractors,
     StepOverwritesNothing DEF InTurn

-----------------------------------------------------------------------------
(* The two instances of RequestLifecycle are one specification.              *)

LEMMA SameSpecification ==
  /\ Lifecycle!Init => Atomic!Init
  /\ [Lifecycle!Next]_(Lifecycle!vars) => [Atomic!Next]_(Atomic!vars)
<1>1. Lifecycle!Init => Atomic!Init
  BY DEF Lifecycle!Init, Atomic!Init, Lifecycle!NothingAssigned, Atomic!NothingAssigned,
         Lifecycle!NoAssignment, Atomic!NoAssignment
<1>2. Lifecycle!vars = Atomic!vars /\ Lifecycle!vars' = Atomic!vars'
  BY DEF Lifecycle!vars, Atomic!vars, Lifecycle!requestVars, Atomic!requestVars,
         Lifecycle!instanceVars, Atomic!instanceVars
<1>3. Lifecycle!Next => Atomic!Next
  BY DEF Lifecycle!Next, Atomic!Next, Lifecycle!OfficeNext, Atomic!OfficeNext,
     Lifecycle!ContractorNext, Atomic!ContractorNext, Lifecycle!DataNext, Atomic!DataNext,
     Lifecycle!CreateDraft, Atomic!CreateDraft, Lifecycle!CreatePublished,
     Atomic!CreatePublished, Lifecycle!UpdateWorkTypes, Atomic!UpdateWorkTypes,
     Lifecycle!Publish, Atomic!Publish, Lifecycle!ChangeStatus, Atomic!ChangeStatus,
     Lifecycle!AcceptRequest, Atomic!AcceptRequest, Lifecycle!ReportAssignment,
     Atomic!ReportAssignment, Lifecycle!UploadWorkResult, Atomic!UploadWorkResult,
     Lifecycle!DeleteWorkResult, Atomic!DeleteWorkResult, Lifecycle!SetResponsibility,
     Atomic!SetResponsibility, Lifecycle!AssignmentsBecome, Atomic!AssignmentsBecome,
     Lifecycle!RecordAfterChange, Atomic!RecordAfterChange, Lifecycle!PublishFrom,
     Atomic!PublishFrom, Lifecycle!Uncovered, Atomic!Uncovered,
     Lifecycle!ExecuteTransition, Atomic!ExecuteTransition, Lifecycle!ApplyStatus,
     Atomic!ApplyStatus, Lifecycle!Synchronize, Atomic!Synchronize,
     Lifecycle!requestVars, Atomic!requestVars, Lifecycle!instanceVars, Atomic!instanceVars,
     Lifecycle!NothingAssigned, Atomic!NothingAssigned, Lifecycle!NoAssignment,
     Atomic!NoAssignment, Lifecycle!RequestStatus, Atomic!RequestStatus,
     Lifecycle!AssignmentStatus, Atomic!AssignmentStatus, Lifecycle!OfficePermission,
     Atomic!OfficePermission, Lifecycle!ContractorPermissions, Atomic!ContractorPermissions,
     Lifecycle!REQUEST_STATUS_TRANSITIONS, Atomic!REQUEST_STATUS_TRANSITIONS,
     Lifecycle!ASSIGNMENT_STATUS_TRANSITIONS, Atomic!ASSIGNMENT_STATUS_TRANSITIONS,
     Lifecycle!Coded, Atomic!Coded, Lifecycle!REQUEST_TRANSITION_CODES,
     Atomic!REQUEST_TRANSITION_CODES, Lifecycle!CanExecute, Atomic!CanExecute,
     Lifecycle!TransitionPermissions, Atomic!TransitionPermissions, Lifecycle!OfficeCanSee,
     Atomic!OfficeCanSee, Lifecycle!Existing, Atomic!Existing, Lifecycle!Active, Atomic!Active,
     Lifecycle!AllCancelled, Atomic!AllCancelled, Lifecycle!Unassigned, Atomic!Unassigned,
     Lifecycle!AllDone, Atomic!AllDone, Lifecycle!StatusAfterPublish,
     Atomic!StatusAfterPublish, Lifecycle!Recalculated, Atomic!Recalculated
<1>4. QED
  BY <1>1, <1>2, <1>3

-----------------------------------------------------------------------------
(* The theorems.                                                             *)

LEMMA InTurnInvariance == Spec /\ []OneAtATime /\ [][ReadingsStay]_vars => []InTurn
<1>1. Init => InTurn
  BY InitInTurn
<1>2. InTurn /\ OneAtATime /\ [Next]_vars /\ [ReadingsStay]_vars => InTurn'
  <2>1. ASSUME InTurn, OneAtATime, UNCHANGED vars
        PROVE  InTurn'
    BY <2>1, StepKeepsInTurn DEF vars, dbVars, ReadingsStay
  <2>2. QED
    BY <2>1, StepKeepsInTurn
<1>3. QED
  BY <1>1, <1>2, PTL DEF Spec

\* Handlers that exclude one another on a request are atomic, in however many
\* threads they run, when no work result is deleted that a report under way has
\* found and no responsibility changed that a publication has read: what they check
\* while they load still holds at their commit, and what they write is what
\* RequestLifecycle says.
THEOREM HandlersInTurnAreAtomic ==
  Spec /\ []OneAtATime /\ [][ReadingsStay]_vars => HandlersAreAtomic
<1>1. Init => Atomic!Init
  BY InitInTurn, SameSpecification
<1>2. InTurn /\ [Next]_vars => [Atomic!Next]_(Atomic!vars)
  BY StepIsAtomic, SameSpecification
<1>3. QED
  BY <1>1, <1>2, InTurnInvariance, PTL DEF Spec, HandlersAreAtomic, Atomic!Spec

OneThread == \A s, o \in Session : s = o

\* In one thread handlers exclude one another, and nobody deletes a work result or
\* changes a responsibility while one is under way.
LEMMA OneThreadTakesTurns ==
  OneThread => (Spec => []OneAtATime /\ [][ReadingsStay]_vars)
<1> SUFFICES ASSUME OneThread PROVE Spec => []OneAtATime /\ [][ReadingsStay]_vars
  OBVIOUS
<1>1. OneAtATime
  BY DEF OneThread, OneAtATime
<1>2. Base /\ [Next]_vars => [ReadingsStay]_vars
  <2> SUFFICES ASSUME Base, Next, UNCHANGED txn, NEW s \in Session, txn[s] # Idle
               PROVE  workResults \subseteq workResults' /\ UNCHANGED responsibility
    BY DEF ReadingsStay
  <2>1. txn[s].pc # "idle"
    BY DEF Base, Txn, OfficeTxn, AcceptTxn, ReportTxn, Idle
  <2>2. /\ ~CommitEdit(s)
        /\ \A w \in WorkType : /\ ~DeleteWorkResult(s, w)
                               /\ \A c \in Responsible[w] : ~SetResponsibility(s, w, c)
    BY <2>1 DEF CommitEdit, Commits, DeleteWorkResult, SetResponsibility, Base, Idle
  <2>3. \A o \in Session :
          /\ ~CommitEdit(o)
          /\ \A w \in WorkType : /\ ~DeleteWorkResult(o, w)
                                 /\ \A c \in Responsible[w] : ~SetResponsibility(o, w, c)
    BY <2>2 DEF OneThread
  <2>4. ASSUME NEW o \in Session, NEW w \in WorkType, UploadWorkResult(o, w)
        PROVE  workResults \subseteq workResults' /\ UNCHANGED responsibility
    BY <2>4 DEF UploadWorkResult
  <2>5. ASSUME NEW o \in Session,
               \/ CommitPublish(o) \/ CommitStatus(o) \/ CommitAccept(o)
               \/ CommitAssignment(o) \/ Abort(o)
        PROVE  UNCHANGED <<workResults, responsibility>>
    BY <2>5 DEF CommitPublish, CommitStatus, CommitAccept, CommitAssignment, CommitReport,
                Abort, dbVars
  <2>6. ASSUME NEW o \in Session, ReadRequest(o) \/ ReadScope(o) \/ ReadInstance(o)
        PROVE  UNCHANGED <<workResults, responsibility>>
    BY <2>6 DEF ReadRequest, ReadScope, ReadInstance, dbVars
  <2>7. QED
    BY <2>3, <2>4, <2>5, <2>6
    DEF Next, OfficeBegins, BeginOffice, BeginAccept, BeginReport, Starts, CreateDraft,
        CreatePublished, dbVars
<1>3. QED
  BY <1>1, <1>2, BaseInvariance, PTL DEF Spec

\* A server with one thread implements RequestLifecycle, whatever its thread serves.
THEOREM OneThreadIsAtomic == OneThread => (Spec => HandlersAreAtomic)
BY OneThreadTakesTurns, HandlersInTurnAreAtomic, PTL

\* Then request and instance agree after every handler, publications and reports
\* included: what overlapping ones do not keep.
THEOREM StatesAgreeInTurn == Spec /\ []OneAtATime /\ [][ReadingsStay]_vars => []StatesAgree
<1>1. InTurn => StatesAgree
  BY LifecycleOfRows DEF InTurn, StatesAgree
<1>2. QED
  BY <1>1, InTurnInvariance, PTL

-----------------------------------------------------------------------------
(* What overlapping handlers do not keep, and handlers in turn do.           *)

\* In turn, only publications and reports touch existing assignments: a scope that
\* is edited has none.
LEMMA AssignmentWritesInTurn ==
  ASSUME InTurn, [Next]_vars
  PROVE  \/ UNCHANGED assignment
         \/ Existing(assignment) = {}
         \/ \E s \in Session : CommitPublish(s)
         \/ \E s \in Session : CommitAccept(s) \/ CommitAssignment(s)
<1>1. ASSUME NEW s \in Session, CommitEdit(s)
      PROVE  Existing(assignment) = {}
  BY <1>1, LifecycleOfRows DEF CommitEdit, Commits, InTurn, Accurate
<1>2. ASSUME NEW s \in Session, NEW W \in SUBSET WorkType, CreatePublished(s, W)
      PROVE  Existing(assignment) = {}
  BY <1>2 DEF CreatePublished, InTurn, Base, NothingYet, NothingAssigned, Existing
<1>3. QED
  BY <1>1, <1>2 DEF Next, vars, dbVars, CreateDraft, OfficeBegins, BeginOffice, BeginAccept,
     BeginReport, Starts, ReadRequest, ReadScope, ReadInstance, CommitStatus, Abort,
     UploadWorkResult, DeleteWorkResult, SetResponsibility

\* A report in turn: the status is computed from the assignments that it leaves.
LEMMA ReportsInTurn ==
  ASSUME InTurn, NEW s \in Session, CommitAccept(s) \/ CommitAssignment(s)
  PROVE  /\ row'.status = Recalculated(row.status, workTypes, assignment')
         /\ UNCHANGED workTypes
         /\ \A w \in Existing(assignment) :
              /\ assignment'[w] \notin {"ASSIGNED", NoAssignment} \/ assignment'[w] = assignment[w]
              /\ \/ assignment'[w] = assignment[w]
                 \/ assignment'[w] \in ASSIGNMENT_STATUS_TRANSITIONS[assignment[w]]
<1>1. PICK own \in SUBSET Existing(assignment), new \in AssignmentStatus \ {"ASSIGNED"} :
         /\ assignment' = [w \in WorkType |-> IF w \in own THEN new ELSE assignment[w]]
         /\ \A w \in own : new \in ASSIGNMENT_STATUS_TRANSITIONS[txn[s].a[w]]
         /\ txn[s].pc = "commit"
  BY ReportingMoves DEF InTurn
<1>2. txn[s].a = assignment /\ DOMAIN assignment = WorkType
  BY <1>1 DEF InTurn, Accurate, Base, TypeOK
<1>3. \A w \in Existing(assignment) :
        /\ assignment'[w] \notin {"ASSIGNED", NoAssignment} \/ assignment'[w] = assignment[w]
        /\ \/ assignment'[w] = assignment[w]
           \/ assignment'[w] \in ASSIGNMENT_STATUS_TRANSITIONS[assignment[w]]
  BY <1>1, <1>2 DEF Existing, AssignmentStatus, NoAssignment
<1>4. ASSUME NEW kind \in {"accept", "report"}, NEW mine \in SUBSET WorkType,
             NEW n \in AssignmentStatus, CommitReport(s, kind, mine, n)
      PROVE  /\ row'.status = Recalculated(row.status, workTypes, assignment')
             /\ UNCHANGED workTypes
  <2> DEFINE a == [w \in WorkType |-> IF w \in mine THEN n ELSE txn[s].a[w]]
  <2>1. txn[s].row = row /\ txn[s].W = workTypes
    BY <1>1, <1>4 DEF CommitReport, Commits, InTurn, Accurate
  <2>2. assignment' = Saved(a, mine) /\ UNCHANGED workTypes
    BY <1>4 DEF CommitReport
  <2>3. assignment' = a
    BY <1>2, <2>2 DEF Saved
  <2>4. row'.status = IF Recalculated(row.status, workTypes, a) = row.status THEN row.status
                      ELSE Recalculated(row.status, workTypes, a)
    BY <1>4, <2>1, ReportedRow DEF InTurn
  <2> HIDE DEF a
  <2>5. QED
    BY <2>2, <2>3, <2>4
<1>5. CASE CommitAccept(s)
  <2> DEFINE mine == {w \in WorkType : txn[s].a[w] = "ASSIGNED"
                                       /\ contractorOf[w] \in txn[s].contractors}
  <2>1. mine \in SUBSET WorkType /\ CommitReport(s, "accept", mine, "ACCEPTED")
    BY <1>5 DEF CommitAccept
  <2> HIDE DEF mine
  <2>2. QED
    BY <1>3, <1>4, <2>1 DEF AssignmentStatus
<1>6. CASE CommitAssignment(s)
  <2>1. CommitReport(s, "report", {txn[s].w}, txn[s].new) /\ txn[s] \in ReportTxn
    BY <1>6 DEF CommitAssignment, InTurn, Base, Txn, Idle, OfficeTxn, AcceptTxn
  <2>2. {txn[s].w} \in SUBSET WorkType /\ txn[s].new \in AssignmentStatus
    BY <2>1 DEF ReportTxn
  <2>3. QED
    BY <1>3, <1>4, <2>1, <2>2
<1>7. QED
  BY <1>5, <1>6

\* Handlers in turn keep what each contractor has begun, move every assignment
\* along its table, overwrite nothing that they have not loaded and are right about
\* every end that they report, with edits of the scope and with a contractor's users
\* in several sessions: whatever goes wrong there is due to the overlap alone.
THEOREM NothingLostInTurn ==
  Spec /\ []OneAtATime /\ [][ReadingsStay]_vars
    => /\ ProgressIsKept /\ AssignmentsMoveLegally /\ ReportedEndsAreReal
       /\ [](overwritten = {})
<1> DEFINE Kept == \A w \in Existing(assignment) : assignment[w] # "ASSIGNED" =>
                     assignment'[w] \notin {"ASSIGNED", NoAssignment}
           Legal == \A w \in Existing(assignment) :
                      assignment'[w] = assignment[w]
                      \/ assignment'[w] \in ASSIGNMENT_STATUS_TRANSITIONS[assignment[w]]
           Real == \A s \in Session : ReportMoves(s) =>
                     /\ row'.status = "COMPLETED" =>
                          \A w \in workTypes \ overwritten : assignment'[w] = "COMPLETED"
                     /\ row'.status = "CANCELLED" =>
                          \A w \in Existing(assignment') \ overwritten :
                            assignment'[w] = "CANCELLED" \/ w \notin Existing(txn[s].a)
<1>1. ASSUME InTurn, [Next]_vars
      PROVE  Kept /\ Legal
  <2>1. CASE UNCHANGED assignment \/ Existing(assignment) = {}
    BY <2>1 DEF Existing
  <2>2. ASSUME NEW s \in Session, CommitPublish(s)
        PROVE  Kept /\ Legal
    BY <1>1, <2>2, PublishingAdds DEF InTurn, Existing
  <2>3. ASSUME NEW s \in Session, CommitAccept(s) \/ CommitAssignment(s)
        PROVE  Kept /\ Legal
    BY <1>1, <2>3, ReportsInTurn DEF Existing
  <2>4. QED
    BY <1>1, <2>1, <2>2, <2>3, AssignmentWritesInTurn
<1>2. ASSUME InTurn, [Next]_vars
      PROVE  Real
  <2> SUFFICES ASSUME NEW s \in Session, ReportMoves(s)
               PROVE  /\ row'.status = "COMPLETED" =>
                           \A w \in workTypes : assignment'[w] = "COMPLETED"
                      /\ row'.status = "CANCELLED" =>
                           \A w \in Existing(assignment') : assignment'[w] = "CANCELLED"
    OBVIOUS
  <2>1. Base /\ row'.status # row.status
    BY <1>2 DEF InTurn, ReportMoves
  <2>2. CommitAccept(s) \/ CommitAssignment(s)
    BY <1>2, <2>1, OnlyReportsMove
  <2>3. row'.status = Recalculated(row.status, workTypes, assignment')
    BY <1>2, <2>2, ReportsInTurn
  <2>4. ASSUME row'.status = "COMPLETED"
        PROVE  \A w \in workTypes : assignment'[w] = "COMPLETED"
    <3>1. AllDone(workTypes, assignment')
      BY <2>1, <2>3, <2>4 DEF Recalculated
    <3>2. QED
      BY <3>1 DEF AllDone, Unassigned
  <2>5. ASSUME row'.status = "CANCELLED"
        PROVE  \A w \in Existing(assignment') : assignment'[w] = "CANCELLED"
    <3>1. AllCancelled(assignment')
      BY <2>1, <2>3, <2>5, RecalculatedCancels
    <3>2. QED
      BY <3>1 DEF AllCancelled, Active
  <2>6. QED
    BY <2>4, <2>5
<1>3. Spec /\ []OneAtATime /\ [][ReadingsStay]_vars
        => [][Kept]_vars /\ [][Legal]_vars /\ [][Real]_vars
  BY <1>1, <1>2, InTurnInvariance, PTL DEF Spec
<1>4. InTurn => overwritten = {}
  BY DEF InTurn
<1>5. Spec /\ []OneAtATime /\ [][ReadingsStay]_vars => [](overwritten = {})
  BY <1>4, InTurnInvariance, PTL
<1>6. QED
  BY <1>3, <1>5 DEF ProgressIsKept, AssignmentsMoveLegally, ReportedEndsAreReal

\* Contractors who report in turn complete the request with their last report, as
\* recalculate_request_status_from_assignments says: where the office neither
\* publishes again nor changes the status, only overlapping reports leave it open.
THEOREM AllDoneIsCompletedInTurn ==
  OfficeKinds \subseteq {"edit"} =>
    (Spec /\ []OneAtATime /\ [][ReadingsStay]_vars => []AllDoneIsCompleted)
<1> SUFFICES ASSUME OfficeKinds \subseteq {"edit"}
             PROVE  Spec /\ []OneAtATime /\ [][ReadingsStay]_vars => []AllDoneIsCompleted
  OBVIOUS
<1>1. Init => AllDoneIsCompleted
  BY DEF Init, AllDoneIsCompleted, AllDone, Active, Existing, NothingAssigned
<1>2. ASSUME InTurn, AllDoneIsCompleted, [Next]_vars
      PROVE  AllDoneIsCompleted'
  <2>1. ASSUME NEW s \in Session, CommitAccept(s) \/ CommitAssignment(s)
        PROVE  AllDoneIsCompleted'
    <3>1. /\ row'.status = Recalculated(row.status, workTypes, assignment')
          /\ UNCHANGED workTypes
      BY <1>2, <2>1, ReportsInTurn
    <3>2. AllDone(workTypes, assignment') => ~AllCancelled(assignment')
      BY DEF AllDone, AllCancelled
    <3>3. QED
      BY <3>1, <3>2 DEF AllDoneIsCompleted, Recalculated
  <2>2. ASSUME NEW s \in Session, CommitPublish(s) \/ CommitStatus(s)
        PROVE  FALSE
    BY <1>2, <2>2 DEF CommitPublish, CommitStatus, Commits, InTurn, Base, Asked
  <2>3. ASSUME NEW s \in Session, CommitEdit(s)
        PROVE  AllDoneIsCompleted'
    BY <1>2, <2>3 DEF CommitEdit, Commits, InTurn, Accurate, Base, TypeOK, AllDoneIsCompleted,
                      AllDone, Active, Existing
  <2>4. ASSUME NEW s \in Session, NEW W \in SUBSET WorkType, CreateDraft(s, W)
        PROVE  AllDoneIsCompleted'
    BY <1>2, <2>4 DEF CreateDraft, InTurn, Base, NothingYet, NothingAssigned,
                      AllDoneIsCompleted, AllDone, Active, Existing
  <2>5. ASSUME NEW s \in Session, NEW W \in SUBSET WorkType, CreatePublished(s, W)
        PROVE  AllDoneIsCompleted'
    <3>1. assignment' = Assigned(NothingAssigned, Covered(W, responsibility))
      BY <2>5 DEF CreatePublished
    <3>2. \A w \in DOMAIN assignment' : assignment'[w] # "COMPLETED"
      BY <3>1 DEF Assigned, NothingAssigned, NoAssignment
    <3>3. QED
      BY <3>2 DEF AllDoneIsCompleted, AllDone, Active, Existing
  <2>6. CASE UNCHANGED <<row, workTypes, assignment>>
    BY <1>2, <2>6 DEF AllDoneIsCompleted
  <2>7. QED
    BY <1>2, <2>1, <2>2, <2>3, <2>4, <2>5, <2>6
    DEF Next, vars, dbVars, OfficeBegins, BeginOffice, BeginAccept, BeginReport, Starts,
        ReadRequest, ReadScope, ReadInstance, Abort, UploadWorkResult, DeleteWorkResult,
        SetResponsibility
<1>3. QED
  BY <1>1, <1>2, InTurnInvariance, PTL DEF Spec
=============================================================================
