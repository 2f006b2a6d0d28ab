-------------------------- MODULE RequestConcurrency --------------------------
(***************************************************************************)
(* The handlers of RequestLifecycle when they overlap.  The server runs    *)
(* each HTTP request in a thread with a database session of its own; the   *)
(* database is PostgreSQL at READ COMMITTED, and no handler locks what it  *)
(* reads or checks at commit that it has not changed.                      *)
(*                                                                         *)
(* A session loads rows one SELECT after another, each from the database   *)
(* as it is at that moment, and keeps what it loaded: SQLAlchemy never     *)
(* refreshes an object it has.  It computes from these copies, and at the  *)
(* end writes the columns that it changed.  The writes of a transaction    *)
(* take row locks until its commit, so flush and commit are one step here. *)
(* A handler may also die at any point: it raises, or its process stops,   *)
(* and its transaction is rolled back.                                     *)
(*                                                                         *)
(* The SELECTs of the work types, of the assignments and of the            *)
(* responsibilities are one step, as are those of the work results and of  *)
(* the instance.  An assignment that an edit has deleted and a publication *)
(* inserted again counts as the same row.                                  *)
(***************************************************************************)
EXTENDS RequestRules, FiniteSets

CONSTANTS
  Session,           \* threads of the server
  OfficeSession,     \* those that serve office users
  OfficeKinds,       \* what the office does: a subset of {"publish", "status", "edit"}
  ActsFor,           \* the contractors whose users each session serves
  WorkType, Contractor, NoContractor,
  Responsible,       \* whom the directory may name for each work type
  RequireWorkResult

ASSUME SessionAssumption ==
  /\ OfficeSession \subseteq Session
  /\ OfficeKinds \subseteq {"publish", "status", "edit"}
  /\ ActsFor \in [Session -> SUBSET Contractor]
ASSUME ResponsibleAssumption ==
  /\ NoContractor \notin Contractor
  /\ Responsible \in [WorkType -> SUBSET (Contractor \cup {NoContractor})]
ASSUME ResultAssumption == RequireWorkResult \in BOOLEAN

VARIABLES
  row,          \* the request's row and the row of its workflow instance
  workTypes,    \* rows of request_work_types
  assignment,   \* rows of request_assignments: their status,
  contractorOf, \* and their contractor
  workResults,  \* work types whose assignment has an active WORK_RESULT
  timelineEnd,  \* to_state of the latest transition execution, or "NONE"
  responsibility,  \* the contractor find_contractor_for_work_type returns
  txn,          \* each session: what it does, how far it is, what it loaded
  overwritten   \* history: work types whose assignment a report has written over
                \* a status that it had not loaded

dbVars == <<row, workTypes, assignment, contractorOf, workResults, timelineEnd,
            responsibility, overwritten>>
vars   == <<dbVars, txn>>

RequestColumn  == {"status", "completedAt", "closedAt"}
InstanceColumn == {"instState", "instCompletedAt", "instCancelledAt"}

Idle == [pc |-> "idle"]

NothingAssigned == [w \in WorkType |-> NoAssignment]

Nobody == [w \in WorkType |-> NoContractor]

Unread == [c \in RequestColumn \cup InstanceColumn |-> "unread"]

Stamp == {"null", "set"}

Rows == [status : RequestStatus \cup {"ABSENT"}, completedAt : Stamp, closedAt : Stamp,
         instState : RequestStatus \cup {"ABSENT"}, instCompletedAt : Stamp,
         instCancelledAt : Stamp]

TypeOK ==
  /\ row \in Rows
  /\ workTypes \in SUBSET WorkType
  /\ assignment \in [WorkType -> AssignmentStatus \cup {NoAssignment}]
  /\ contractorOf \in [WorkType -> Contractor \cup {NoContractor}]
  /\ workResults \in SUBSET WorkType
  /\ timelineEnd \in RequestStatus \cup {"NONE"}
  /\ responsibility \in [WorkType -> Contractor \cup {NoContractor}]
  /\ overwritten \in SUBSET WorkType
  /\ \A s \in Session :
       /\ txn[s].pc \in {"idle", "request", "scope", "instance", "commit"}
       /\ txn[s].pc # "idle" =>
            /\ txn[s].kind \in {"publish", "status", "edit", "accept", "report"}
            /\ txn[s].W \in SUBSET WorkType
            /\ txn[s].a \in [WorkType -> AssignmentStatus \cup {NoAssignment}]
            /\ txn[s].found \in [WorkType -> Contractor \cup {NoContractor}]
       /\ txn[s].pc = "commit" /\ txn[s].kind # "edit" => txn[s].row \in Rows

Init ==
  /\ row = [status |-> "ABSENT", completedAt |-> "null", closedAt |-> "null",
            instState |-> "ABSENT", instCompletedAt |-> "null", instCancelledAt |-> "null"]
  /\ workTypes = {}
  /\ assignment = NothingAssigned
  /\ contractorOf = Nobody
  /\ workResults = {}
  /\ timelineEnd = "NONE"
  /\ responsibility \in [WorkType -> Contractor \cup {NoContractor}]
  /\ \A w \in WorkType : responsibility[w] \in Responsible[w]
  /\ txn = [s \in Session |-> Idle]
  /\ overwritten = {}

-----------------------------------------------------------------------------
(* Rows in a session's memory.  "now" is a fresh time, unlike any it loaded. *)

\* apply_request_status on a loaded row.
Applied(r, new) ==
  IF r.status = new THEN r
  ELSE IF r.status = "COMPLETED" /\ new = "IN_PROGRESS"
    THEN [r EXCEPT !.status = new, !.completedAt = "null", !.closedAt = "null"]
  ELSE [r EXCEPT !.status = new,
                 !.completedAt = IF new = "COMPLETED" THEN "now" ELSE @,
                 !.closedAt    = IF new = "CLOSED" THEN "now" ELSE @]

\* synchronize_instance_from_request
Synchronized(r) ==
  [r EXCEPT !.instState       = r.status,
            !.instCompletedAt = IF r.status \in {"COMPLETED", "CLOSED"} THEN r.completedAt
                                ELSE "null",
            !.instCancelledAt = IF r.status = "CANCELLED" THEN "now" ELSE "null"]

\* What the workflow engine itself writes on a transition to new.
Transitioned(r, new) ==
  [r EXCEPT !.instState       = new,
            !.instCompletedAt = IF new \in {"COMPLETED", "CLOSED"} THEN "now" ELSE @,
            !.instCancelledAt = IF new = "CANCELLED" THEN "now" ELSE @]

\* A flush that leaves out the columns to be cleared.
Flushed_SkippingNulls(loaded, new) ==
  [c \in DOMAIN row |-> IF new[c] \in {loaded[c], "null"} THEN row[c]
                        ELSE IF new[c] = "now" THEN "set" ELSE new[c]]

\* The UPDATE of a flush sets the columns whose value is no longer the loaded one.
Flushed(loaded, new) ==
  [c \in DOMAIN row |-> IF new[c] = loaded[c] THEN row[c]
                        ELSE IF new[c] = "now" THEN "set" ELSE new[c]]

-----------------------------------------------------------------------------
(* Loading.                                                                  *)

\* Session s starts a handler; t is what it knows so far.
Starts(s, t) ==
  /\ txn[s].pc = "idle"
  /\ txn' = [txn EXCEPT ![s] = t]
  /\ UNCHANGED dbVars

Loaded(r, columns) == [c \in DOMAIN r |-> IF c \in columns THEN row[c] ELSE r[c]]

\* get_request_or_404 for publish, status and edit: the request's row, checked
\* at once.  new is the status asked for, scope the work types.
BeginOffice(s, kind, new, scope) ==
  /\ s \in OfficeSession
  /\ row.status # "ABSENT"
  /\ \/ kind = "publish" /\ row.status \notin {"CLOSED", "CANCELLED"}
     \/ kind = "status"  /\ new \in REQUEST_STATUS_TRANSITIONS[row.status]
     \/ kind = "edit"    /\ row.status = "DRAFT" /\ scope # {}
  /\ Starts(s, [pc |-> "scope", kind |-> kind, new |-> new, scope |-> scope,
                row |-> Loaded(Unread, RequestColumn), W |-> {}, a |-> NothingAssigned,
                found |-> Nobody])

\* get_owned_request for accept: the request's row, when one of its assignments
\* is the contractors'.
BeginAccept(s, contractors) ==
  /\ contractors \subseteq ActsFor[s]
  /\ \E w \in Existing(assignment) : contractorOf[w] \in contractors
  /\ Starts(s, [pc |-> "scope", kind |-> "accept", contractors |-> contractors,
                row |-> Loaded(Unread, RequestColumn), W |-> {}, a |-> NothingAssigned,
                found |-> Nobody])

\* A report loads its own assignment first.  The legality of the move is checked
\* on this copy, whatever other handlers do until the commit.
BeginReport(s, w, new) ==
  /\ w \in Existing(assignment)
  /\ contractorOf[w] \in ActsFor[s]
  /\ new \in ASSIGNMENT_STATUS_TRANSITIONS[assignment[w]]
  /\ Starts(s, [pc |-> "request", kind |-> "report", w |-> w, new |-> new,
                row |-> Unread, W |-> {},
                a |-> [NothingAssigned EXCEPT ![w] = assignment[w]],
                found |-> Nobody])

\* The request's row, for a report.
ReadRequest(s) ==
  /\ txn[s].pc = "request"
  /\ txn' = [txn EXCEPT ![s].pc = "scope", ![s].row = Loaded(@, RequestColumn)]
  /\ UNCHANGED dbVars

\* The work types and the assignments; the assignment that a report has loaded
\* already is not refreshed.  A publication asks for the responsible contractors.
ReadScope(s) ==
  /\ txn[s].pc = "scope"
  /\ txn' = [txn EXCEPT
       ![s].pc = IF txn[s].kind = "edit" THEN "commit" ELSE "instance",
       ![s].W  = workTypes,
       ![s].a  = [w \in WorkType |-> IF @[w] # NoAssignment THEN @[w] ELSE assignment[w]],
       ![s].found = IF txn[s].kind = "publish" THEN responsibility ELSE @]
  /\ UNCHANGED dbVars

\* The check for a work result, and ensure_instance_for_request.
ReadInstance(s) ==
  /\ txn[s].pc = "instance"
  /\ (RequireWorkResult /\ txn[s].kind = "report" /\ txn[s].new = "COMPLETED")
       => txn[s].w \in workResults
  /\ txn' = [txn EXCEPT ![s].pc = "commit", ![s].row = Loaded(@, InstanceColumn)]
  /\ UNCHANGED dbVars

-----------------------------------------------------------------------------
(* Writing.                                                                  *)

Commits(s, kind) ==
  /\ txn[s].pc = "commit" /\ txn[s].kind = kind
  /\ txn' = [txn EXCEPT ![s] = Idle]

\* The engine's check and row for a transition that has a code.
Recorded(r, new, permissions) ==
  \/ /\ Coded(r.status, new)
     /\ CanExecute(r.instState, r.status, new, permissions)
     /\ timelineEnd' = new
  \/ /\ ~Coded(r.status, new)
     /\ UNCHANGED timelineEnd

\* The office moves the request it has loaded as r to new.
OfficeMoves(r, new) ==
  /\ Recorded(r, new, OfficePermission)
  /\ row' = Flushed(r, Synchronized(Applied(r, new)))

Assigned(a, given) == [w \in WorkType |-> IF w \in given THEN "ASSIGNED" ELSE a[w]]

\* The work types of W for which a contractor was found.
Covered(W, found) == {w \in W : found[w] # NoContractor}

\* A table without the constraint.
UniqueViolation_Never(given) == FALSE

\* uq_request_assignment_work_type: one of the new rows exists already.
UniqueViolation(given) == given \cap Existing(assignment) # {}

\* publish_contractor_request.  The unique constraint on request and work type
\* fails the whole transaction when another one has assigned a work type.
CommitPublish(s) ==
  LET t     == txn[s]
      given == Covered(t.W, t.found) \ Existing(t.a)
  IN  /\ Commits(s, "publish")
      /\ t.W # {}
      /\ ~UniqueViolation(given)
      /\ assignment' = Assigned(assignment, given)
      /\ contractorOf' = [w \in WorkType |-> IF w \in given THEN t.found[w]
                                             ELSE contractorOf[w]]
      /\ OfficeMoves(t.row, StatusAfterPublish(t.W, Assigned(t.a, given)))
      /\ UNCHANGED <<workTypes, workResults, responsibility, overwritten>>

\* change_request_status
CommitStatus(s) ==
  /\ Commits(s, "status")
  /\ OfficeMoves(txn[s].row, txn[s].new)
  /\ UNCHANGED <<workTypes, assignment, contractorOf, workResults, responsibility,
                 overwritten>>

\* update_contractor_request: the work types that were added or dropped, and all
\* the assignments that were loaded.  The primary key of request_work_types
\* fails the transaction when another one has added a work type too.
CommitEdit(s) ==
  LET t == txn[s]
  IN  /\ Commits(s, "edit")
      /\ (t.scope \ t.W) \cap workTypes = {}
      /\ workTypes' = (workTypes \ (t.W \ t.scope)) \cup (t.scope \ t.W)
      /\ assignment' = [w \in WorkType |-> IF w \in Existing(t.a) THEN NoAssignment
                                           ELSE assignment[w]]
      /\ contractorOf' = [w \in WorkType |-> IF w \in Existing(t.a) THEN NoContractor
                                             ELSE contractorOf[w]]
      /\ workResults' = workResults \ Existing(t.a)
      /\ UNCHANGED <<row, timelineEnd, responsibility, overwritten>>

\* Writing back every assignment that was loaded.
Saved_AllLoaded(a, own) == a

\* The assignments after a flush that changed those of own to what they are in a.
Saved(a, own) == [w \in WorkType |-> IF w \in own THEN a[w] ELSE assignment[w]]

\* change_assignment_status for the assignments of the work types own, from their
\* new status on.  Only these rows are written; the request's status comes from
\* the copies of all.  The engine alone writes the instance, unless the change
\* has no code or a second assignment is accepted, when it is synchronized.
CommitReport(s, kind, own, new) ==
  LET t    == txn[s]
      a    == [w \in WorkType |-> IF w \in own THEN new ELSE t.a[w]]
      st   == Recalculated(t.row.status, t.W, a)
      r    == [t.row EXCEPT !.status = st,
                            !.completedAt = IF AllDone(t.W, a) /\ @ = "null" THEN "now" ELSE @]
      once == Coded(t.row.status, st) /\ Cardinality(own) = 1
  IN  /\ Commits(s, kind)
      /\ own # {} /\ own \subseteq Existing(assignment)
      /\ assignment' = Saved(a, own)
      /\ Recorded(t.row, st, ContractorPermissions)
      /\ row' = Flushed(t.row, IF once THEN Transitioned(r, st) ELSE Synchronized(r))
      /\ overwritten' = overwritten \cup {w \in own : assignment[w] # t.a[w]}
      /\ UNCHANGED <<workTypes, contractorOf, workResults, responsibility>>

\* No code changes the contractor of an assignment, so the one in the database is
\* the one that was loaded.
CommitAccept(s) ==
  LET t == txn[s]
  IN  /\ t.pc = "commit" /\ t.kind = "accept"
      /\ CommitReport(s, "accept",
                      {w \in WorkType : t.a[w] = "ASSIGNED" /\ contractorOf[w] \in t.contractors},
                      "ACCEPTED")

CommitAssignment(s) ==
  /\ txn[s].pc = "commit" /\ txn[s].kind = "report"
  /\ CommitReport(s, "report", {txn[s].w}, txn[s].new)

\* The handler raises, or the server dies: the transaction is rolled back.
Abort(s) ==
  /\ txn[s].pc # "idle"
  /\ txn' = [txn EXCEPT ![s] = Idle]
  /\ UNCHANGED dbVars

-----------------------------------------------------------------------------
(* Handlers that no other can disturb: a request that nobody else can see yet, *)
(* and single rows that are inserted or marked deleted.                        *)

CreateDraft(s, W) ==
  /\ s \in OfficeSession /\ txn[s].pc = "idle"
  /\ row.status = "ABSENT"
  /\ row' = [row EXCEPT !.status = "DRAFT", !.instState = "DRAFT"]
  /\ workTypes' = W
  /\ UNCHANGED <<assignment, contractorOf, workResults, timelineEnd, responsibility, txn,
                 overwritten>>

CreatePublished(s, W) ==
  LET given == Covered(W, responsibility)
      a     == Assigned(NothingAssigned, given)
      st    == StatusAfterPublish(W, a)
  IN  /\ s \in OfficeSession /\ txn[s].pc = "idle"
      /\ row.status = "ABSENT" /\ W # {}
      /\ row' = [row EXCEPT !.status = st, !.instState = st]
      /\ workTypes' = W
      /\ assignment' = a
      /\ contractorOf' = [w \in WorkType |-> IF w \in given THEN responsibility[w]
                                             ELSE NoContractor]
      /\ timelineEnd' = st
      /\ UNCHANGED <<workResults, responsibility, txn, overwritten>>

UploadWorkResult(s, w) ==
  /\ txn[s].pc = "idle"
  /\ w \in Existing(assignment)
  /\ workResults' = workResults \cup {w}
  /\ UNCHANGED <<row, workTypes, assignment, contractorOf, timelineEnd, responsibility, txn,
                 overwritten>>

DeleteWorkResult(s, w) ==
  /\ txn[s].pc = "idle"
  /\ workResults' = workResults \ {w}
  /\ UNCHANGED <<row, workTypes, assignment, contractorOf, timelineEnd, responsibility, txn,
                 overwritten>>

\* An administrator adds, changes or deletes responsibilities, so that the request's
\* scope and the work type now lead to contractor c or to none.
SetResponsibility(s, w, c) ==
  /\ s \in OfficeSession /\ txn[s].pc = "idle"
  /\ responsibility' = [responsibility EXCEPT ![w] = c]
  /\ UNCHANGED <<row, workTypes, assignment, contractorOf, workResults, timelineEnd, txn,
                 overwritten>>

-----------------------------------------------------------------------------

\* The handlers that the office may start, with their arguments.
OfficeBegins(s) ==
  \/ "publish" \in OfficeKinds /\ BeginOffice(s, "publish", "NONE", {})
  \/ "status" \in OfficeKinds /\ \E new \in RequestStatus : BeginOffice(s, "status", new, {})
  \/ "edit" \in OfficeKinds /\ \E W \in SUBSET WorkType : BeginOffice(s, "edit", "NONE", W)

Next ==
  \E s \in Session :
    \/ \E W \in SUBSET WorkType : CreateDraft(s, W) \/ CreatePublished(s, W)
    \/ OfficeBegins(s)
    \/ \E contractors \in SUBSET Contractor : BeginAccept(s, contractors)
    \/ \E w \in WorkType, new \in AssignmentStatus : BeginReport(s, w, new)
    \/ ReadRequest(s) \/ ReadScope(s) \/ ReadInstance(s)
    \/ CommitPublish(s) \/ CommitStatus(s) \/ CommitEdit(s)
    \/ CommitAccept(s) \/ CommitAssignment(s)
    \/ Abort(s)
    \/ \E w \in WorkType :
         \/ UploadWorkResult(s, w) \/ DeleteWorkResult(s, w)
         \/ \E c \in Responsible[w] : SetResponsibility(s, w, c)

Spec == Init /\ [][Next]_vars

-----------------------------------------------------------------------------
(* One handler at a time.                                                    *)

Atomic == INSTANCE RequestLifecycle WITH
  OfficeProfiles  <- {OfficePermission},
  status          <- row.status,
  completedAt     <- row.completedAt,
  closedAt        <- row.closedAt,
  instState       <- row.instState,
  instCompletedAt <- row.instCompletedAt,
  instCancelledAt <- row.instCancelledAt

\* A server with a single thread does what RequestLifecycle says: its handlers
\* take effect at their commit, and all of what they check still holds there.
HandlersAreAtomic == Atomic!Spec

-----------------------------------------------------------------------------
(* Safety of overlapping handlers.                                           *)

\* The report of session s is committed and changes the status of the request.
ReportMoves(s) ==
  /\ txn[s].pc = "commit" /\ txn[s].kind \in {"accept", "report"}
  /\ txn'[s] = Idle
  /\ row'.status # row.status

\* A contractor's report may miss that the request is finished, never invent it:
\* when it completes the request, every work type is completed in the database, not
\* only in the copies that it computed from, and when it cancels the request, every
\* assignment is cancelled except those that a publication has made since the report
\* loaded them.  Only an assignment whose status another report of its contractor has
\* overwritten may be in another state.
ReportedEndsAreReal ==
  [][\A s \in Session : ReportMoves(s) =>
       /\ row'.status = "COMPLETED" =>
            \A w \in workTypes \ overwritten : assignment'[w] = "COMPLETED"
       /\ row'.status = "CANCELLED" =>
            \A w \in Existing(assignment') \ overwritten :
              assignment'[w] = "CANCELLED" \/ w \notin Existing(txn[s].a)]_vars

\* Neither publications nor reports on other assignments, which save computed copies
\* of the whole request, move an assignment against its table: where that happens, a
\* report has overwritten what another one of the same contractor wrote.
OnlyOverwritesAreIllegal ==
  [][\A w \in Existing(assignment) :
       \/ assignment'[w] = assignment[w]
       \/ assignment'[w] \in ASSIGNMENT_STATUS_TRANSITIONS[assignment[w]]
       \/ w \in overwritten']_vars

\* Status changes of the office leave request and instance in the same state, however
\* they overlap with each other: the engine refuses to move an instance that is not
\* where the loaded request is.  It is about handlers that go through the engine with a
\* transition code only; publications and reports also copy states without one.
StatesAgree == row.instState = row.status

\* What a contractor has begun is not reset by office users who publish at once.
ProgressIsKept ==
  [][\A w \in Existing(assignment) : assignment[w] # "ASSIGNED" =>
       assignment'[w] \notin {"ASSIGNED", NoAssignment}]_vars

-----------------------------------------------------------------------------
(* What the code states and overlapping handlers do not keep.                *)

\* recalculate_request_status_from_assignments: when the last assignment is
\* completed the request is completed.
AllDoneIsCompleted ==
  AllDone(workTypes, assignment) => row.status \in {"COMPLETED", "CLOSED"}

\* ASSIGNMENT_STATUS_TRANSITIONS: an assignment moves along its table, and one that
\* is completed or cancelled is at its end.
AssignmentsMoveLegally ==
  [][\A w \in Existing(assignment) :
       assignment'[w] = assignment[w]
       \/ assignment'[w] \in ASSIGNMENT_STATUS_TRANSITIONS[assignment[w]]]_vars
=============================================================================
