----------------------- MODULE RequestConcurrency_proofs -----------------------
(***************************************************************************)
(* Proofs about overlapping handlers, for any number of sessions, work     *)
(* types and contractors.  Base holds whatever the handlers are.  Copies   *)
(* relates what a session has loaded to the database when no scope is      *)
(* edited; OwnCopies does for the assignments that it is about to write,   *)
(* when each contractor is at work in one session at a time.               *)
(***************************************************************************)
EXTENDS RequestConcurrency, RequestRules_proofs

Assignments == [WorkType -> AssignmentStatus \cup {NoAssignment}]

Contractors == [WorkType -> Contractor \cup {NoContractor}]

\* Rows in the memory of a session.
Memory == [status : RequestStatus \cup {"ABSENT", "unread"},
           completedAt : Stamp \cup {"unread"}, closedAt : Stamp \cup {"unread"},
           instState : RequestStatus \cup {"ABSENT", "unread"},
           instCompletedAt : Stamp \cup {"unread"}, instCancelledAt : Stamp \cup {"unread"}]

OfficeTxn == [pc : {"scope", "instance", "commit"}, kind : {"publish", "status", "edit"},
              new : RequestStatus \cup {"NONE"}, scope : SUBSET WorkType,
              row : Memory, W : SUBSET WorkType, a : Assignments, found : Contractors]

AcceptTxn == [pc : {"scope", "instance", "commit"}, kind : {"accept"},
              contractors : SUBSET Contractor,
              row : Memory, W : SUBSET WorkType, a : Assignments, found : Contractors]

ReportTxn == [pc : {"request", "scope", "instance", "commit"}, kind : {"report"},
              w : WorkType, new : AssignmentStatus,
              row : Memory, W : SUBSET WorkType, a : Assignments, found : Contractors]

Txn == {Idle} \cup OfficeTxn \cup AcceptTxn \cup ReportTxn

RequestRead(r) == r.status \in RequestStatus /\ r.completedAt \in Stamp /\ r.closedAt \in Stamp

\* What a session has loaded, by how far it is.
Loading(t) ==
  /\ t.pc \in {"scope", "instance", "commit"} => RequestRead(t.row)
  /\ t.pc = "commit" /\ t.kind # "edit" => t.row \in Rows

\* What a session was asked for was legal for the row that it loaded first.
Asked(t) ==
  t.pc # "idle" =>
    /\ t.kind \in OfficeKinds \cup {"accept", "report"}
    /\ t.kind = "status" => t.new \in REQUEST_STATUS_TRANSITIONS[t.row.status]
    /\ t.kind = "report" => /\ t.a[t.w] \in AssignmentStatus
                            /\ t.new \in ASSIGNMENT_STATUS_TRANSITIONS[t.a[t.w]]

\* Nobody is at work on a request that does not exist.
NothingYet ==
  row.status = "ABSENT" => assignment = NothingAssigned /\ \A s \in Session : txn[s] = Idle

Base ==
  /\ TypeOK
  /\ txn \in [Session -> Txn]
  /\ NothingYet
  /\ \A s \in Session : Loading(txn[s]) /\ Asked(txn[s])

-----------------------------------------------------------------------------
(* Typing.                                                                   *)

LEMMA RowsInMemory == Rows \subseteq Memory
  BY DEF Rows, Memory

\* Loading some columns into memory.
LEMMA LoadedTyped ==
  ASSUME TypeOK, NEW r \in Memory, NEW columns
  PROVE  /\ Loaded(r, columns) \in Memory
         /\ \A c \in columns \cap (RequestColumn \cup InstanceColumn) : Loaded(r, columns)[c] = row[c]
         /\ \A c \in (RequestColumn \cup InstanceColumn) \ columns : Loaded(r, columns)[c] = r[c]
  BY RowsInMemory DEF Loaded, Memory, TypeOK, Rows, RequestColumn, InstanceColumn

LEMMA UnreadTyped == Unread \in Memory
  BY DEF Unread, Memory, RequestColumn, InstanceColumn

\* A flush leaves a row in the database.
LEMMA FlushedTyped ==
  ASSUME TypeOK, NEW r \in Memory, NEW new,
         new.status \in RequestStatus, new.instState \in RequestStatus,
         \A c \in {"completedAt", "closedAt", "instCompletedAt", "instCancelledAt"} :
           new[c] \in {"null", "set", "now"}
  PROVE  /\ Flushed(r, new) \in Rows
         /\ Flushed(r, new).status = IF new.status = r.status THEN row.status ELSE new.status
         /\ Flushed(r, new).instState = IF new.instState = r.instState THEN row.instState
                                        ELSE new.instState
  BY DEF Flushed, Memory, Rows, TypeOK, Stamp, RequestStatus

\* What the office writes when it moves a row.
LEMMA OfficeWrites ==
  ASSUME NEW r \in Rows, NEW new \in RequestStatus
  PROVE  LET n == Synchronized(Applied(r, new))
         IN  /\ n.status = new /\ n.instState = new
             /\ \A c \in {"completedAt", "closedAt", "instCompletedAt", "instCancelledAt"} :
                  n[c] \in {"null", "set", "now"}
  <1> DEFINE ap == Applied(r, new)
  <1>1. /\ DOMAIN ap = DOMAIN r /\ ap.status = new
        /\ ap.completedAt \in {"null", "set", "now"} /\ ap.closedAt \in {"null", "set", "now"}
    BY DEF Applied, Rows, Stamp
  <1>2. DOMAIN r = {"status", "completedAt", "closedAt", "instState", "instCompletedAt",
                    "instCancelledAt"}
    BY DEF Rows
  <1> HIDE DEF ap
  <1>3. QED
    BY <1>1, <1>2 DEF Synchronized, ap

Columns == RequestColumn \cup InstanceColumn

\* What a contractor's report writes, with and without the engine, when the
\* service has left the row r.
LEMMA ReportWrites ==
  ASSUME NEW r, NEW st \in RequestStatus, DOMAIN r = Columns, r.status = st,
         \A col \in Columns \ {"status", "instState"} : r[col] \in {"null", "set", "now"}
  PROVE  \A n \in {Transitioned(r, st), Synchronized(r)} :
           /\ n.status = st /\ n.instState = st
           /\ \A col \in {"completedAt", "closedAt", "instCompletedAt", "instCancelledAt"} :
                n[col] \in {"null", "set", "now"}
  <1> DEFINE m == Transitioned(r, st)
             z == Synchronized(r)
  <1>1. /\ m.status = st /\ m.instState = st
        /\ \A col \in {"completedAt", "closedAt", "instCompletedAt", "instCancelledAt"} :
             m[col] \in {"null", "set", "now"}
    BY DEF Transitioned, Columns, RequestColumn, InstanceColumn
  <1>2. /\ z.status = st /\ z.instState = st
        /\ \A col \in {"completedAt", "closedAt", "instCompletedAt", "instCancelledAt"} :
             z[col] \in {"null", "set", "now"}
    BY DEF Synchronized, Columns, RequestColumn, InstanceColumn
  <1> HIDE DEF m, z
  <1>3. QED
    BY <1>1, <1>2 DEF m, z

\* A step of session s that leaves the database typed and the request in being.
LEMMA SessionStep ==
  ASSUME Base, NEW s \in Session, NEW t \in Txn, Loading(t), Asked(t),
         txn' = [txn EXCEPT ![s] = t],
         row' \in Rows, row'.status # "ABSENT", workTypes' \in SUBSET WorkType,
         assignment' \in Assignments, contractorOf' \in Contractors,
         workResults' \in SUBSET WorkType, timelineEnd' \in RequestStatus \cup {"NONE"},
         responsibility' \in Contractors, overwritten' \in SUBSET WorkType
  PROVE  Base'
  <1>1. txn' \in [Session -> Txn] /\ \A o \in Session : Loading(txn'[o]) /\ Asked(txn'[o])
    BY DEF Base
  <1>2. \A o \in Session :
          /\ txn'[o].pc \in {"idle", "request", "scope", "instance", "commit"}
          /\ txn'[o].pc # "idle" =>
               /\ txn'[o].kind \in {"publish", "status", "edit", "accept", "report"}
               /\ txn'[o].W \in SUBSET WorkType
               /\ txn'[o].a \in Assignments
               /\ txn'[o].found \in Contractors
    BY <1>1 DEF Txn, OfficeTxn, AcceptTxn, ReportTxn, Idle
  <1>3. TypeOK'
    BY <1>1, <1>2 DEF TypeOK, Loading, Assignments, Contractors
  <1>4. NothingYet'
    BY DEF NothingYet
  <1>5. QED
    BY <1>1, <1>3, <1>4 DEF Base

\* Who is at work works on a request that exists.
LEMMA AtWorkOnSomething ==
  ASSUME Base, NEW s \in Session, txn[s].pc # "idle"
  PROVE  /\ row.status \in RequestStatus
         /\ txn[s] \in OfficeTxn \cup AcceptTxn \cup ReportTxn
  BY DEF Base, NothingYet, Idle, TypeOK, Rows, Txn

\* The same where an assignment exists.
LEMMA AssignedMeansSomething ==
  ASSUME Base, Existing(assignment) # {}
  PROVE  row.status \in RequestStatus
  BY DEF Base, NothingYet, NothingAssigned, Existing, TypeOK, Rows

-----------------------------------------------------------------------------
(* Each step keeps Base.                                                     *)

LEMMA InitBase == Init => Base
  BY DEF Init, Base, TypeOK, Rows, Stamp, NothingAssigned, Nobody, NothingYet, Loading, Asked,
         Txn, Idle

LEMMA NothingAssignedTyped == NothingAssigned \in Assignments /\ Nobody \in Contractors
  BY DEF NothingAssigned, Assignments, Nobody, Contractors

LEMMA BeginOfficeKeepsBase ==
  ASSUME Base, NEW s \in Session, NEW kind \in OfficeKinds \cap {"publish", "status", "edit"},
         NEW new \in RequestStatus \cup {"NONE"}, NEW W \in SUBSET WorkType,
         BeginOffice(s, kind, new, W)
  PROVE  Base'
  <1> DEFINE q == Loaded(Unread, RequestColumn)
             t == [pc |-> "scope", kind |-> kind, new |-> new, scope |-> W,
                   row |-> q, W |-> {}, a |-> NothingAssigned, found |-> Nobody]
  <1>1. q \in Memory /\ RequestRead(q) /\ q.status = row.status /\ row \in Rows
    <2>1. row \in Rows /\ row.status \in RequestStatus
      BY DEF BeginOffice, Base, TypeOK, Rows
    <2>2. \A c \in RequestColumn : q[c] = row[c]
      BY LoadedTyped, UnreadTyped DEF Base
    <2>3. QED
      BY <2>1, <2>2, LoadedTyped, UnreadTyped DEF Base, RequestRead, RequestColumn, Rows
  <1>2. t \in Txn
    BY <1>1, NothingAssignedTyped DEF Txn, OfficeTxn
  <1>3. Loading(t) /\ Asked(t)
    <2>1. kind = "status" => new \in REQUEST_STATUS_TRANSITIONS[row.status]
      BY DEF BeginOffice
    <2>2. QED
      BY <1>1, <2>1 DEF Loading, Asked
  <1> HIDE DEF q
  <1>4. txn' = [txn EXCEPT ![s] = t] /\ UNCHANGED dbVars
    BY DEF BeginOffice, Starts, q
  <1> HIDE DEF t
  <1>5. row.status # "ABSENT"
    BY DEF BeginOffice
  <1>6. QED
    BY <1>1, <1>2, <1>3, <1>4, <1>5, SessionStep DEF dbVars, Base, TypeOK, Assignments, Contractors

LEMMA BeginAcceptKeepsBase ==
  ASSUME Base, NEW s \in Session, NEW contractors \in SUBSET Contractor,
         BeginAccept(s, contractors)
  PROVE  Base'
  <1> DEFINE q == Loaded(Unread, RequestColumn)
             t == [pc |-> "scope", kind |-> "accept", contractors |-> contractors,
                   row |-> q, W |-> {}, a |-> NothingAssigned, found |-> Nobody]
  <1>1. q \in Memory /\ RequestRead(q) /\ row \in Rows /\ row.status \in RequestStatus
    <2>1. row \in Rows /\ row.status \in RequestStatus
      BY AssignedMeansSomething DEF BeginAccept, Base, TypeOK
    <2>2. \A c \in RequestColumn : q[c] = row[c]
      BY LoadedTyped, UnreadTyped DEF Base
    <2>3. QED
      BY <2>1, <2>2, LoadedTyped, UnreadTyped DEF Base, RequestRead, RequestColumn, Rows
  <1>2. t \in Txn
    BY <1>1, NothingAssignedTyped DEF Txn, AcceptTxn
  <1>3. Loading(t) /\ Asked(t)
    BY <1>1 DEF Loading, Asked
  <1> HIDE DEF q
  <1>4. txn' = [txn EXCEPT ![s] = t] /\ UNCHANGED dbVars
    BY DEF BeginAccept, Starts, q
  <1> HIDE DEF t
  <1>5. row.status # "ABSENT"
    BY <1>1 DEF RequestStatus
  <1>6. QED
    BY <1>1, <1>2, <1>3, <1>4, <1>5, SessionStep DEF dbVars, Base, TypeOK, Assignments, Contractors

LEMMA BeginReportKeepsBase ==
  ASSUME Base, NEW s \in Session, NEW w \in WorkType, NEW new \in AssignmentStatus,
         BeginReport(s, w, new)
  PROVE  Base'
  <1> DEFINE b == [NothingAssigned EXCEPT ![w] = assignment[w]]
             t == [pc |-> "request", kind |-> "report", w |-> w, new |-> new,
                   row |-> Unread, W |-> {}, a |-> b, found |-> Nobody]
  <1>1. row.status \in RequestStatus
    BY AssignedMeansSomething DEF BeginReport
  <1>2. b \in Assignments /\ b[w] = assignment[w] /\ assignment[w] \in AssignmentStatus
    BY DEF Base, TypeOK, Assignments, NothingAssigned, BeginReport, Existing
  <1>3. new \in ASSIGNMENT_STATUS_TRANSITIONS[b[w]]
    BY <1>2 DEF BeginReport
  <1> HIDE DEF b
  <1>4. t \in Txn
    BY <1>2, UnreadTyped, NothingAssignedTyped DEF Txn, ReportTxn
  <1>5. Loading(t) /\ Asked(t)
    BY <1>2, <1>3 DEF Loading, Asked
  <1>6. txn' = [txn EXCEPT ![s] = t] /\ UNCHANGED dbVars
    BY DEF BeginReport, Starts, b
  <1> HIDE DEF t
  <1>7. row.status # "ABSENT"
    BY <1>1 DEF RequestStatus
  <1>8. QED
    BY <1>4, <1>5, <1>6, <1>7, SessionStep DEF dbVars, Base, TypeOK, Assignments, Contractors

\* A session that reads on: the same handler with more loaded.
LEMMA ReadingOn ==
  ASSUME Base, NEW s \in Session, NEW t \in Txn, Loading(t), Asked(t),
         txn[s].pc # "idle", txn' = [txn EXCEPT ![s] = t], UNCHANGED dbVars
  PROVE  Base'
  BY AtWorkOnSomething, SessionStep DEF dbVars, Base, TypeOK, Assignments, Contractors, RequestStatus

LEMMA ReadRequestKeepsBase ==
  ASSUME Base, NEW s \in Session, ReadRequest(s)
  PROVE  Base'
  <1> DEFINE q == Loaded(txn[s].row, RequestColumn)
             t == [txn[s] EXCEPT !.pc = "scope", !.row = q]
  <1>1. txn[s] \in ReportTxn
    BY DEF ReadRequest, Base, Txn, Idle, OfficeTxn, AcceptTxn
  <1>2. row \in Rows /\ row.status \in RequestStatus
    BY AtWorkOnSomething DEF ReadRequest, Base, TypeOK
  <1>3. q \in Memory /\ RequestRead(q)
    <2>1. txn[s].row \in Memory
      BY <1>1 DEF ReportTxn
    <2>2. q \in Memory /\ \A c \in RequestColumn : q[c] = row[c]
      BY <2>1, LoadedTyped DEF Base
    <2>3. QED
      BY <1>2, <2>2 DEF RequestRead, RequestColumn, Rows
  <1>4. txn' = [txn EXCEPT ![s] = t] /\ UNCHANGED dbVars
    BY DEF ReadRequest
  <1> HIDE DEF q
  <1>5. /\ t \in ReportTxn /\ t.pc = "scope" /\ t.row = q
        /\ t.kind = "report" /\ t.a = txn[s].a /\ t.w = txn[s].w /\ t.new = txn[s].new
    BY <1>1, <1>3 DEF ReportTxn
  <1> HIDE DEF t
  <1>6. Loading(t) /\ Asked(t)
    BY <1>1, <1>3, <1>5 DEF Loading, Asked, Base, ReportTxn
  <1>7. QED
    BY <1>4, <1>5, <1>6, ReadingOn DEF ReadRequest, Txn

LEMMA ReadScopeKeepsBase ==
  ASSUME Base, NEW s \in Session, ReadScope(s)
  PROVE  Base'
  <1> DEFINE b == [w \in WorkType |-> IF txn[s].a[w] # NoAssignment THEN txn[s].a[w]
                                      ELSE assignment[w]]
             pc == IF txn[s].kind = "edit" THEN "commit" ELSE "instance"
             f == IF txn[s].kind = "publish" THEN responsibility ELSE txn[s].found
             t == [txn[s] EXCEPT !.pc = pc, !.W = workTypes, !.a = b, !.found = f]
  <1>1. txn[s] \in OfficeTxn \cup AcceptTxn \cup ReportTxn
    BY AtWorkOnSomething DEF ReadScope
  <1>2. b \in Assignments /\ workTypes \in SUBSET WorkType /\ f \in Contractors
    BY <1>1 DEF Base, TypeOK, Assignments, Contractors, OfficeTxn, AcceptTxn, ReportTxn
  <1>3. txn' = [txn EXCEPT ![s] = t] /\ UNCHANGED dbVars
    BY DEF ReadScope
  <1>4. pc \in {"instance", "commit"} /\ (pc = "commit" <=> txn[s].kind = "edit")
    OBVIOUS
  <1>5. txn[s].kind = "report" => b[txn[s].w] = txn[s].a[txn[s].w]
    BY <1>1 DEF Base, Asked, AssignmentStatus, NoAssignment, ReadScope, OfficeTxn, AcceptTxn,
                ReportTxn
  <1> HIDE DEF b, f, pc
  <1>6. /\ t \in OfficeTxn \cup AcceptTxn \cup ReportTxn
        /\ t.pc = pc /\ t.kind = txn[s].kind /\ t.row = txn[s].row /\ t.a = b
        /\ t.kind \in {"status", "report"} => t.new = txn[s].new
        /\ t.kind = "report" => t.w = txn[s].w
    BY <1>1, <1>2, <1>4 DEF OfficeTxn, AcceptTxn, ReportTxn
  <1> HIDE DEF t
  <1>7. Loading(txn[s]) /\ Asked(txn[s]) /\ txn[s].pc = "scope"
    BY DEF Base, ReadScope
  <1>8. Loading(t) /\ Asked(t)
    BY <1>4, <1>5, <1>6, <1>7 DEF Loading, Asked
  <1>9. QED
    BY <1>3, <1>6, <1>7, <1>8, ReadingOn DEF Txn

LEMMA ReadInstanceKeepsBase ==
  ASSUME Base, NEW s \in Session, ReadInstance(s)
  PROVE  Base'
  <1> DEFINE q == Loaded(txn[s].row, InstanceColumn)
             t == [txn[s] EXCEPT !.pc = "commit", !.row = q]
  <1>1. txn[s] \in OfficeTxn \cup AcceptTxn \cup ReportTxn
    BY DEF ReadInstance, Base, Txn, Idle
  <1>2. Loading(txn[s]) /\ Asked(txn[s]) /\ txn[s].pc = "instance"
    BY DEF Base, ReadInstance
  <1>3. q \in Rows /\ RequestRead(q) /\ q.status = txn[s].row.status
    <2>1. txn[s].row \in Memory /\ RequestRead(txn[s].row)
      BY <1>1, <1>2 DEF OfficeTxn, AcceptTxn, ReportTxn, Loading
    <2>2. /\ q \in Memory
          /\ q.instState = row.instState /\ q.instCompletedAt = row.instCompletedAt
          /\ q.instCancelledAt = row.instCancelledAt
          /\ q.status = txn[s].row.status /\ q.completedAt = txn[s].row.completedAt
          /\ q.closedAt = txn[s].row.closedAt
      BY <2>1, LoadedTyped DEF Base, RequestColumn, InstanceColumn
    <2>3. QED
      BY <2>1, <2>2 DEF RequestRead, Memory, Rows, Base, TypeOK
  <1>4. txn' = [txn EXCEPT ![s] = t] /\ UNCHANGED dbVars
    BY DEF ReadInstance
  <1> HIDE DEF q
  <1>5. /\ t \in OfficeTxn \cup AcceptTxn \cup ReportTxn
        /\ t.pc = "commit" /\ t.kind = txn[s].kind /\ t.row = q /\ t.a = txn[s].a
        /\ t.kind \in {"status", "report"} => t.new = txn[s].new
        /\ t.kind = "report" => t.w = txn[s].w
    BY <1>1, <1>3, RowsInMemory DEF OfficeTxn, AcceptTxn, ReportTxn
  <1> HIDE DEF t
  <1>6. Loading(t) /\ Asked(t)
    BY <1>2, <1>3, <1>5 DEF Loading, Asked
  <1>7. QED
    BY <1>2, <1>4, <1>5, <1>6, ReadingOn DEF Txn

\* A session that commits, or gives up, is idle afterwards.
LEMMA Ending ==
  ASSUME Base, NEW s \in Session, txn' = [txn EXCEPT ![s] = Idle],
         row' \in Rows, row'.status # "ABSENT", workTypes' \in SUBSET WorkType,
         assignment' \in Assignments, contractorOf' \in Contractors,
         workResults' \in SUBSET WorkType, timelineEnd' \in RequestStatus \cup {"NONE"},
         responsibility' \in Contractors, overwritten' \in SUBSET WorkType
  PROVE  Base'
  <1>1. Idle \in Txn /\ Loading(Idle) /\ Asked(Idle)
    BY DEF Txn, Idle, Loading, Asked
  <1>2. QED
    BY <1>1, SessionStep

\* A flush of the right values leaves a request in being.
LEMMA Flushing ==
  ASSUME Base, NEW s \in Session, txn[s].pc # "idle", NEW r \in Rows, NEW n, NEW st \in RequestStatus,
         n.status = st, n.instState = st,
         \A c \in {"completedAt", "closedAt", "instCompletedAt", "instCancelledAt"} :
           n[c] \in {"null", "set", "now"}
  PROVE  Flushed(r, n) \in Rows /\ Flushed(r, n).status # "ABSENT"
  <1>1. TypeOK /\ row.status \in RequestStatus /\ r \in Memory
    BY AtWorkOnSomething, RowsInMemory DEF Base
  <1>2. QED
    BY <1>1, FlushedTyped DEF RequestStatus

LEMMA OfficeMovesTyped ==
  ASSUME Base, NEW s \in Session, txn[s].pc # "idle", NEW r \in Rows, NEW new \in RequestStatus,
         OfficeMoves(r, new)
  PROVE  /\ row' \in Rows /\ row'.status # "ABSENT"
         /\ timelineEnd' \in RequestStatus \cup {"NONE"}
  <1>1. row' \in Rows /\ row'.status # "ABSENT"
    BY OfficeWrites, Flushing DEF OfficeMoves
  <1>2. timelineEnd' \in RequestStatus \cup {"NONE"}
    BY DEF OfficeMoves, Recorded, Base, TypeOK
  <1>3. QED
    BY <1>1, <1>2

LEMMA CommitPublishKeepsBase ==
  ASSUME Base, NEW s \in Session, CommitPublish(s)
  PROVE  Base'
  <1> DEFINE t == txn[s]
             given == Covered(t.W, t.found) \ Existing(t.a)
             new == StatusAfterPublish(t.W, Assigned(t.a, given))
  <1>1. t \in OfficeTxn /\ t.pc = "commit" /\ t.row \in Rows
    BY DEF CommitPublish, Commits, Base, Loading, Txn, Idle, AcceptTxn, ReportTxn
  <1>2. new \in RequestStatus
    BY PublishedStatus DEF RequestStatus
  <1>3. OfficeMoves(t.row, new)
    BY DEF CommitPublish
  <1> HIDE DEF new
  <1>4. /\ row' \in Rows /\ row'.status # "ABSENT"
        /\ timelineEnd' \in RequestStatus \cup {"NONE"}
    BY <1>1, <1>2, <1>3, OfficeMovesTyped
  <1>5. assignment' \in Assignments
    BY DEF CommitPublish, Assigned, Assignments, Base, TypeOK, AssignmentStatus
  <1>6. contractorOf' \in Contractors
    BY <1>1 DEF CommitPublish, Contractors, Base, TypeOK, OfficeTxn
  <1>7. QED
    BY <1>4, <1>5, <1>6, Ending DEF CommitPublish, Commits, Base, TypeOK, Contractors

LEMMA CommitStatusKeepsBase ==
  ASSUME Base, NEW s \in Session, CommitStatus(s)
  PROVE  Base'
  <1>1. txn[s] \in OfficeTxn /\ txn[s].pc = "commit" /\ txn[s].row \in Rows
    BY DEF CommitStatus, Commits, Base, Loading, Txn, Idle, AcceptTxn, ReportTxn
  <1>2. txn[s].new \in RequestStatus
    <2>1. txn[s].row.status \in RequestStatus
      BY <1>1 DEF Base, Loading, RequestRead
    <2>2. txn[s].new \in REQUEST_STATUS_TRANSITIONS[txn[s].row.status]
      BY <1>1 DEF Base, Asked, CommitStatus, Commits
    <2>3. QED
      BY <2>1, <2>2, TransitionsStayInside
  <1>3. /\ row' \in Rows /\ row'.status # "ABSENT"
        /\ timelineEnd' \in RequestStatus \cup {"NONE"}
    BY <1>1, <1>2, OfficeMovesTyped DEF CommitStatus
  <1>4. QED
    BY <1>3, Ending DEF CommitStatus, Commits, Base, TypeOK, Assignments, Contractors

LEMMA CommitEditKeepsBase ==
  ASSUME Base, NEW s \in Session, CommitEdit(s)
  PROVE  Base'
  <1>1. txn[s] \in OfficeTxn /\ txn[s].pc # "idle"
    BY DEF CommitEdit, Commits, Base, Txn, Idle, AcceptTxn, ReportTxn
  <1>2. row.status # "ABSENT"
    BY <1>1, AtWorkOnSomething DEF RequestStatus
  <1>3. workTypes' \in SUBSET WorkType /\ workResults' \in SUBSET WorkType
    BY <1>1 DEF CommitEdit, Base, TypeOK, OfficeTxn
  <1>4. assignment' \in Assignments
    BY DEF CommitEdit, Base, TypeOK, Assignments
  <1>5. contractorOf' \in Contractors
    BY DEF CommitEdit, Base, TypeOK, Contractors
  <1>6. QED
    BY <1>2, <1>3, <1>4, <1>5, Ending DEF CommitEdit, Commits, Base, TypeOK, Contractors

\* A report writes the status that it has computed from its copies, unless that is
\* the one it has loaded.
LEMMA ReportedRow ==
  ASSUME Base, NEW s \in Session, NEW kind \in {"accept", "report"},
         NEW own \in SUBSET WorkType, NEW new \in AssignmentStatus,
         CommitReport(s, kind, own, new)
  PROVE  LET st == Recalculated(txn[s].row.status, txn[s].W,
                                [w \in WorkType |-> IF w \in own THEN new ELSE txn[s].a[w]])
         IN  /\ row' \in Rows /\ row'.status # "ABSENT"
             /\ row'.status = IF st = txn[s].row.status THEN row.status ELSE st
             /\ timelineEnd' \in RequestStatus \cup {"NONE"}
  <1> DEFINE t == txn[s]
             a == [w \in WorkType |-> IF w \in own THEN new ELSE t.a[w]]
             st == Recalculated(t.row.status, t.W, a)
             done == AllDone(t.W, a)
             once == Coded(t.row.status, st) /\ Cardinality(own) = 1
             c == IF done /\ t.row.completedAt = "null" THEN "now" ELSE t.row.completedAt
             r == [t.row EXCEPT !.status = st, !.completedAt = c]
             n == IF once THEN Transitioned(r, st) ELSE Synchronized(r)
  <1>1. t \in AcceptTxn \cup ReportTxn /\ t.pc = "commit" /\ t.row \in Rows
        /\ t.row.status \in RequestStatus
    BY DEF CommitReport, Commits, Base, Loading, Txn, Idle, OfficeTxn, RequestRead
  <1>2. st \in RequestStatus
    <2>1. st \in {"CANCELLED", "COMPLETED", "IN_PROGRESS", "ASSIGNED", "PARTIALLY_ASSIGNED",
                  t.row.status}
      BY RecalculatedRange
    <2> HIDE DEF st
    <2>2. QED
      BY <1>1, <2>1 DEF RequestStatus
  <1>3. c \in {"null", "set", "now"}
    BY <1>1 DEF Rows, Stamp
  <1>4. row' = Flushed(t.row, n) /\ Recorded(t.row, st, ContractorPermissions)
    BY DEF CommitReport
  <1> HIDE DEF st, c, once
  <1>5. /\ n.status = st /\ n.instState = st
        /\ \A col \in {"completedAt", "closedAt", "instCompletedAt", "instCancelledAt"} :
             n[col] \in {"null", "set", "now"}
    <2>1. /\ DOMAIN r = Columns /\ r.status = st
          /\ \A col \in Columns \ {"status", "instState"} : r[col] \in {"null", "set", "now"}
      BY <1>1, <1>3 DEF Rows, Stamp, Columns, RequestColumn, InstanceColumn
    <2> HIDE DEF r
    <2>2. n \in {Transitioned(r, st), Synchronized(r)}
      OBVIOUS
    <2>3. QED
      BY <1>2, <2>1, <2>2, ReportWrites
  <1> HIDE DEF n
  <1>6. /\ row' \in Rows /\ row'.status # "ABSENT"
        /\ row'.status = IF st = t.row.status THEN row.status ELSE st
    BY <1>1, <1>2, <1>4, <1>5, Flushing, FlushedTyped, RowsInMemory DEF Base
  <1>7. timelineEnd' \in RequestStatus \cup {"NONE"}
    BY <1>2, <1>4 DEF Recorded, Base, TypeOK
  <1>8. QED
    BY <1>6, <1>7 DEF st

LEMMA CommitReportKeepsBase ==
  ASSUME Base, NEW s \in Session, NEW kind \in {"accept", "report"},
         NEW own \in SUBSET WorkType, NEW new \in AssignmentStatus,
         CommitReport(s, kind, own, new)
  PROVE  Base'
  <1> DEFINE b == [w \in WorkType |-> IF w \in own THEN new ELSE txn[s].a[w]]
  <1>1. txn[s] \in AcceptTxn \cup ReportTxn
    BY DEF CommitReport, Commits, Base, Txn, Idle, OfficeTxn
  <1>2. b \in Assignments /\ assignment' = Saved(b, own)
    BY <1>1 DEF CommitReport, Assignments, AcceptTxn, ReportTxn
  <1> HIDE DEF b
  <1>3. assignment' \in Assignments
    BY <1>2 DEF Saved, Assignments, Base, TypeOK
  <1>4. QED
    BY <1>3, ReportedRow, Ending DEF CommitReport, Commits, Base, TypeOK, Contractors

LEMMA CommitAcceptKeepsBase ==
  ASSUME Base, NEW s \in Session, CommitAccept(s)
  PROVE  Base'
  <1> DEFINE own == {w \in WorkType : txn[s].a[w] = "ASSIGNED"
                                      /\ contractorOf[w] \in txn[s].contractors}
  <1>1. own \in SUBSET WorkType /\ CommitReport(s, "accept", own, "ACCEPTED")
    BY DEF CommitAccept
  <1> HIDE DEF own
  <1>2. QED
    BY <1>1, CommitReportKeepsBase DEF AssignmentStatus

LEMMA CommitAssignmentKeepsBase ==
  ASSUME Base, NEW s \in Session, CommitAssignment(s)
  PROVE  Base'
  <1>1. txn[s] \in ReportTxn
    BY DEF CommitAssignment, Base, Txn, Idle, OfficeTxn, AcceptTxn
  <1>2. {txn[s].w} \in SUBSET WorkType /\ txn[s].new \in AssignmentStatus
    BY <1>1 DEF ReportTxn
  <1>3. QED
    BY <1>2, CommitReportKeepsBase DEF CommitAssignment

LEMMA AbortKeepsBase ==
  ASSUME Base, NEW s \in Session, Abort(s)
  PROVE  Base'
  BY AtWorkOnSomething, Ending DEF Abort, dbVars, Base, TypeOK, Assignments, Contractors, RequestStatus

\* Handlers that finish in one step: the sessions stay as they are.
LEMMA OneStep ==
  ASSUME Base, UNCHANGED txn, row' \in Rows, workTypes' \in SUBSET WorkType,
         assignment' \in Assignments, contractorOf' \in Contractors,
         workResults' \in SUBSET WorkType, timelineEnd' \in RequestStatus \cup {"NONE"},
         responsibility' \in Contractors, overwritten' \in SUBSET WorkType,
         row'.status = "ABSENT" => row.status = "ABSENT" /\ UNCHANGED assignment
  PROVE  Base'
  <1>1. TypeOK'
    BY DEF Base, TypeOK, Assignments, Contractors
  <1>2. NothingYet'
    BY DEF Base, NothingYet
  <1>3. QED
    BY <1>1, <1>2 DEF Base

LEMMA CreateKeepsBase ==
  ASSUME Base, NEW s \in Session, NEW W \in SUBSET WorkType,
         CreateDraft(s, W) \/ CreatePublished(s, W)
  PROVE  Base'
  <1>1. CASE CreateDraft(s, W)
    <2>1. row' \in Rows /\ row'.status # "ABSENT"
      BY <1>1 DEF CreateDraft, Base, TypeOK, Rows, RequestStatus
    <2>2. QED
      BY <1>1, <2>1, OneStep DEF CreateDraft, Base, TypeOK, Assignments, Contractors
  <1>2. CASE CreatePublished(s, W)
    <2> DEFINE given == Covered(W, responsibility)
               a == Assigned(NothingAssigned, given)
               st == StatusAfterPublish(W, a)
               names == [w \in WorkType |-> IF w \in given THEN responsibility[w]
                                            ELSE NoContractor]
    <2>1. st \in RequestStatus /\ st # "ABSENT"
      BY PublishedStatus DEF RequestStatus
    <2>2. a \in Assignments
      BY NothingAssignedTyped DEF Assigned, Assignments, AssignmentStatus
    <2>3. /\ row' = [row EXCEPT !.status = st, !.instState = st]
          /\ workTypes' = W /\ assignment' = a /\ contractorOf' = names /\ timelineEnd' = st
          /\ UNCHANGED <<workResults, responsibility, overwritten, txn>>
      BY <1>2 DEF CreatePublished
    <2> HIDE DEF a, st, given
    <2>4. row' \in Rows /\ row'.status # "ABSENT"
      BY <2>1, <2>3 DEF Base, TypeOK, Rows
    <2>5. names \in Contractors /\ responsibility \in Contractors
      BY DEF Contractors, Base, TypeOK
    <2> HIDE DEF names
    <2>6. QED
      BY <2>1, <2>2, <2>3, <2>4, <2>5, OneStep DEF Base, TypeOK
  <1>3. QED
    BY <1>1, <1>2

LEMMA WorkResultKeepsBase ==
  ASSUME Base, NEW s \in Session, NEW w \in WorkType,
         UploadWorkResult(s, w) \/ DeleteWorkResult(s, w)
  PROVE  Base'
  BY OneStep DEF UploadWorkResult, DeleteWorkResult, Base, TypeOK, Assignments, Contractors

LEMMA SetResponsibilityKeepsBase ==
  ASSUME Base, NEW s \in Session, NEW w \in WorkType, NEW c \in Responsible[w],
         SetResponsibility(s, w, c)
  PROVE  Base'
  <1>1. responsibility' \in Contractors
    BY ResponsibleAssumption DEF SetResponsibility, Base, TypeOK, Contractors
  <1>2. QED
    BY <1>1, OneStep DEF SetResponsibility, Base, TypeOK, Assignments, Contractors

LEMMA OfficeBeginsKeepsBase ==
  ASSUME Base, NEW s \in Session, OfficeBegins(s)
  PROVE  Base'
  <1>1. CASE "publish" \in OfficeKinds /\ BeginOffice(s, "publish", "NONE", {})
    BY <1>1, BeginOfficeKeepsBase
  <1>2. ASSUME "status" \in OfficeKinds, NEW new \in RequestStatus,
               BeginOffice(s, "status", new, {})
        PROVE  Base'
    BY <1>2, BeginOfficeKeepsBase
  <1>3. ASSUME "edit" \in OfficeKinds, NEW W \in SUBSET WorkType,
               BeginOffice(s, "edit", "NONE", W)
        PROVE  Base'
    BY <1>3, BeginOfficeKeepsBase
  <1>4. QED
    BY <1>1, <1>2, <1>3 DEF OfficeBegins

LEMMA StepKeepsBase ==
  ASSUME Base, [Next]_vars
  PROVE  Base'
  <1>1. CASE UNCHANGED vars
    BY <1>1 DEF vars, dbVars, Base, TypeOK, NothingYet
  <1>2. CASE Next
    BY <1>2, OfficeBeginsKeepsBase, BeginAcceptKeepsBase, BeginReportKeepsBase,
       ReadRequestKeepsBase, ReadScopeKeepsBase, ReadInstanceKeepsBase, CommitPublishKeepsBase,
       CommitStatusKeepsBase, CommitEditKeepsBase, CommitAcceptKeepsBase,
       CommitAssignmentKeepsBase, AbortKeepsBase, CreateKeepsBase, WorkResultKeepsBase,
       SetResponsibilityKeepsBase
    DEF Next
  <1>3. QED
    BY <1>1, <1>2

LEMMA BaseInvariance == Spec => []Base
  BY InitBase, StepKeepsBase, PTL DEF Spec

\* The rows stay typed, whoever overlaps with whom.
THEOREM OverlapTypeCorrect == Spec => []TypeOK
  <1>1. Base => TypeOK
    BY DEF Base
  <1>2. QED
    BY <1>1, BaseInvariance, PTL
-----------------------------------------------------------------------------
(* What the steps do to assignments when no scope is edited.                 *)

NoEdits == "edit" \notin OfficeKinds

LEMMA AssignmentWrites ==
  ASSUME Base, NoEdits, [Next]_vars
  PROVE  \/ UNCHANGED assignment
         \/ Existing(assignment) = {}
         \/ \E s \in Session : CommitPublish(s)
         \/ \E s \in Session : CommitAccept(s) \/ CommitAssignment(s)
  <1>1. ASSUME NEW s \in Session, CommitEdit(s)
        PROVE  FALSE
    BY <1>1 DEF CommitEdit, Commits, Base, Asked, NoEdits
  <1>2. ASSUME NEW s \in Session, NEW W \in SUBSET WorkType, CreatePublished(s, W)
        PROVE  Existing(assignment) = {}
    BY <1>2 DEF CreatePublished, Base, NothingYet, NothingAssigned, Existing
  <1>3. QED
    BY <1>1, <1>2 DEF Next, vars, dbVars, CreateDraft, OfficeBegins, BeginOffice, BeginAccept,
       BeginReport, Starts, ReadRequest, ReadScope, ReadInstance, CommitStatus, Abort,
       UploadWorkResult, DeleteWorkResult, SetResponsibility

\* A publication gives an assignment to work types that have none.
LEMMA PublishingAdds ==
  ASSUME Base, NEW s \in Session, CommitPublish(s)
  PROVE  /\ \A w \in Existing(assignment) : assignment'[w] = assignment[w]
         /\ \A w \in WorkType : assignment'[w] # assignment[w] => assignment'[w] = "ASSIGNED"
  <1>1. PICK given : /\ given \cap Existing(assignment) = {}
                     /\ assignment' = Assigned(assignment, given)
    BY DEF CommitPublish, UniqueViolation
  <1>2. QED
    BY <1>1 DEF Assigned, Existing, Base, TypeOK

\* A report changes the assignments that it is about, none of them to "ASSIGNED".
LEMMA ReportingMoves ==
  ASSUME Base, NEW s \in Session, CommitAccept(s) \/ CommitAssignment(s)
  PROVE  \E own \in SUBSET Existing(assignment), new \in AssignmentStatus \ {"ASSIGNED"} :
           /\ own # {}
           /\ assignment' = [w \in WorkType |-> IF w \in own THEN new ELSE assignment[w]]
           /\ overwritten' = overwritten \cup {w \in own : assignment[w] # txn[s].a[w]}
           /\ \A w \in own : /\ txn[s].a[w] \in AssignmentStatus
                            /\ new \in ASSIGNMENT_STATUS_TRANSITIONS[txn[s].a[w]]
           /\ txn[s].kind \in {"accept", "report"} /\ txn[s].pc = "commit"
           /\ txn[s].kind = "accept" => new = "ACCEPTED" /\ \A w \in own :
                                          contractorOf[w] \in txn[s].contractors
           /\ txn[s].kind = "report" => own = {txn[s].w}
  <1>1. CASE CommitAccept(s)
    <2> DEFINE own == {w \in WorkType : txn[s].a[w] = "ASSIGNED"
                                        /\ contractorOf[w] \in txn[s].contractors}
               b == [w \in WorkType |-> IF w \in own THEN "ACCEPTED" ELSE txn[s].a[w]]
    <2>1. /\ CommitReport(s, "accept", own, "ACCEPTED")
          /\ txn[s].kind = "accept" /\ txn[s].pc = "commit"
      BY <1>1 DEF CommitAccept
    <2>2. \A w \in own : /\ txn[s].a[w] \in AssignmentStatus
                         /\ "ACCEPTED" \in ASSIGNMENT_STATUS_TRANSITIONS[txn[s].a[w]]
                         /\ contractorOf[w] \in txn[s].contractors
      BY DEF ASSIGNMENT_STATUS_TRANSITIONS, AssignmentStatus
    <2> HIDE DEF own
    <2>3. /\ own # {} /\ own \subseteq Existing(assignment) /\ assignment' = Saved(b, own)
          /\ overwritten' = overwritten \cup {w \in own : assignment[w] # txn[s].a[w]}
      BY <2>1 DEF CommitReport
    <2>4. assignment' = [w \in WorkType |-> IF w \in own THEN "ACCEPTED" ELSE assignment[w]]
      BY <2>3 DEF Saved
    <2> HIDE DEF b
    <2>5. QED
      BY <2>1, <2>2, <2>3, <2>4 DEF AssignmentStatus
  <1>2. CASE CommitAssignment(s)
    <2> DEFINE own == {txn[s].w}
               new == txn[s].new
               b == [w \in WorkType |-> IF w \in own THEN new ELSE txn[s].a[w]]
    <2>1. /\ CommitReport(s, "report", own, new)
          /\ txn[s].kind = "report" /\ txn[s].pc = "commit"
      BY <1>2 DEF CommitAssignment
    <2>2. /\ txn[s].a[txn[s].w] \in AssignmentStatus
          /\ new \in ASSIGNMENT_STATUS_TRANSITIONS[txn[s].a[txn[s].w]]
      BY <2>1 DEF Base, Asked
    <2>3. new \in AssignmentStatus \ {"ASSIGNED"}
      BY <2>2 DEF ASSIGNMENT_STATUS_TRANSITIONS, AssignmentStatus
    <2>4. \A w \in own : /\ txn[s].a[w] \in AssignmentStatus
                         /\ new \in ASSIGNMENT_STATUS_TRANSITIONS[txn[s].a[w]]
      BY <2>2
    <2>5. own = {txn[s].w}
      OBVIOUS
    <2> HIDE DEF own, new
    <2>6. /\ own # {} /\ own \subseteq Existing(assignment) /\ assignment' = Saved(b, own)
          /\ overwritten' = overwritten \cup {w \in own : assignment[w] # txn[s].a[w]}
      BY <2>1 DEF CommitReport
    <2>7. assignment' = [w \in WorkType |-> IF w \in own THEN new ELSE assignment[w]]
      BY <2>6 DEF Saved
    <2> HIDE DEF b
    <2>8. own \in SUBSET Existing(assignment)
      BY <2>6
    <2> WITNESS own \in SUBSET Existing(assignment), new \in AssignmentStatus \ {"ASSIGNED"}
    <2>9. QED
      BY <2>1, <2>4, <2>5, <2>6, <2>7
  <1>3. QED
    BY <1>1, <1>2

\* Without edits of the scope, no overlap of handlers resets what a contractor
\* has begun.
THEOREM ProgressIsKeptWithoutEdits == NoEdits => (Spec => ProgressIsKept)
  <1> DEFINE Kept == \A w \in Existing(assignment) : assignment[w] # "ASSIGNED" =>
                       assignment'[w] \notin {"ASSIGNED", NoAssignment}
  <1> SUFFICES ASSUME NoEdits PROVE Spec => ProgressIsKept
    OBVIOUS
  <1>1. ASSUME Base, [Next]_vars
        PROVE  Kept
    <2>1. CASE UNCHANGED assignment \/ Existing(assignment) = {}
      BY <2>1 DEF Existing
    <2>2. ASSUME NEW s \in Session, CommitPublish(s)
          PROVE  Kept
      BY <1>1, <2>2, PublishingAdds DEF Existing
    <2>3. ASSUME NEW s \in Session, CommitAccept(s) \/ CommitAssignment(s)
          PROVE  Kept
      <3>1. PICK own \in SUBSET Existing(assignment), new \in AssignmentStatus \ {"ASSIGNED"} :
              assignment' = [w \in WorkType |-> IF w \in own THEN new ELSE assignment[w]]
        BY <1>1, <2>3, ReportingMoves
      <3>2. QED
        BY <1>1, <3>1 DEF Base, TypeOK, Existing, AssignmentStatus, NoAssignment
    <2>4. QED
      BY <1>1, <2>1, <2>2, <2>3, AssignmentWrites
  <1>2. Spec => [][Kept]_vars
    BY <1>1, BaseInvariance, PTL DEF Spec
  <1>3. QED
    BY <1>2 DEF ProgressIsKept

-----------------------------------------------------------------------------
(* Request and instance.                                                     *)

\* No publication, and nobody acts for a contractor.
ThroughTheEngineOnly == "publish" \notin OfficeKinds /\ \A s \in Session : ActsFor[s] = {}

Agreement ==
  /\ Base
  /\ StatesAgree
  /\ \A s \in Session : txn[s].pc # "idle" => txn[s].kind \in {"status", "edit"}

LEMMA StepKeepsAgreement ==
  ASSUME ThroughTheEngineOnly, Agreement, [Next]_vars
  PROVE  Agreement'
  <1>1. Base'
    BY StepKeepsBase DEF Agreement
  <1>2. \A s \in Session, contractors \in SUBSET Contractor : ~BeginAccept(s, contractors)
    BY DEF BeginAccept, ThroughTheEngineOnly
  <1>3. \A s \in Session, w \in WorkType, new \in AssignmentStatus : ~BeginReport(s, w, new)
    BY DEF BeginReport, ThroughTheEngineOnly
  <1>4. \A s \in Session : ~CommitPublish(s) /\ ~CommitAccept(s) /\ ~CommitAssignment(s)
    BY DEF Agreement, CommitPublish, Commits, CommitAccept, CommitAssignment
  <1>5. \A s \in Session : txn'[s].pc # "idle" => txn'[s].kind \in {"status", "edit"}
    <2> DEFINE Quiet(o) == txn'[o].pc # "idle" => txn'[o].kind \in {"status", "edit"}
    <2>1. ASSUME NEW s \in Session, OfficeBegins(s), NEW o \in Session
          PROVE  Quiet(o)
      <3>1. CASE o = s
        BY <2>1, <3>1 DEF OfficeBegins, BeginOffice, Starts, ThroughTheEngineOnly, Agreement, Base
      <3>2. CASE o # s
        BY <2>1, <3>2 DEF OfficeBegins, BeginOffice, Starts, Agreement, Base
      <3>3. QED
        BY <3>1, <3>2
    <2>2. ASSUME NEW s \in Session, ReadRequest(s) \/ ReadScope(s) \/ ReadInstance(s),
                 NEW o \in Session
          PROVE  Quiet(o)
      <3>1. txn[s].kind \in {"status", "edit"} /\ txn[s] \in OfficeTxn
        <4>1. txn[s].pc # "idle"
          BY <2>2 DEF ReadRequest, ReadScope, ReadInstance
        <4>2. QED
          BY <4>1, AtWorkOnSomething DEF Agreement, AcceptTxn, ReportTxn
      <3>2. CASE o = s
        <4>1. txn'[s].kind = txn[s].kind
          <5>1. CASE ReadRequest(s)
            BY <3>1, <5>1 DEF ReadRequest, OfficeTxn, Agreement, Base
          <5>2. CASE ReadScope(s)
            BY <3>1, <5>2 DEF ReadScope, OfficeTxn, Agreement, Base
          <5>3. CASE ReadInstance(s)
            BY <3>1, <5>3 DEF ReadInstance, OfficeTxn, Agreement, Base
          <5>4. QED
            BY <2>2, <5>1, <5>2, <5>3
        <4>2. QED
          BY <3>1, <3>2, <4>1
      <3>3. CASE o # s
        BY <2>2, <3>3 DEF ReadRequest, ReadScope, ReadInstance, Agreement, Base
      <3>4. QED
        BY <3>2, <3>3
    <2>3. ASSUME NEW s \in Session, CommitStatus(s) \/ CommitEdit(s) \/ Abort(s),
                 NEW o \in Session
          PROVE  Quiet(o)
      BY <2>3 DEF CommitStatus, CommitEdit, Commits, Abort, Agreement, Base, Idle
    <2>4. CASE UNCHANGED txn
      BY <2>4 DEF Agreement
    <2>5. QED
      BY <1>2, <1>3, <1>4, <2>1, <2>2, <2>3, <2>4
      DEF Next, vars, CreateDraft, CreatePublished, UploadWorkResult, DeleteWorkResult,
          SetResponsibility
  <1>6. StatesAgree'
    <2>1. ASSUME NEW s \in Session, CommitStatus(s)
          PROVE  StatesAgree'
      <3> DEFINE r == txn[s].row
                 new == txn[s].new
                 n == Synchronized(Applied(r, new))
      <3>1. r \in Rows /\ r.status \in RequestStatus /\ txn[s].pc # "idle"
        BY <2>1 DEF CommitStatus, Commits, Agreement, Base, Loading, RequestRead
      <3>2. new \in REQUEST_STATUS_TRANSITIONS[r.status]
        BY <2>1 DEF CommitStatus, Commits, Agreement, Base, Asked
      <3>3. new \in RequestStatus /\ new # r.status
        BY <3>1, <3>2 DEF REQUEST_STATUS_TRANSITIONS, RequestStatus
      <3>4. Recorded(r, new, OfficePermission) /\ row' = Flushed(r, n)
        BY <2>1 DEF CommitStatus, OfficeMoves
      <3>5. r.instState = r.status
        BY <3>1, <3>2, <3>3, <3>4, TransitionTablesAgree DEF Recorded, CanExecute
      <3> HIDE DEF r, new
      <3>6. /\ n.status = new /\ n.instState = new
            /\ \A c \in {"completedAt", "closedAt", "instCompletedAt", "instCancelledAt"} :
                 n[c] \in {"null", "set", "now"}
        BY <3>1, <3>3, OfficeWrites
      <3> HIDE DEF n
      <3>7. row'.status = new /\ row'.instState = new
        BY <3>1, <3>3, <3>4, <3>5, <3>6, FlushedTyped, RowsInMemory DEF Agreement, Base
      <3>8. QED
        BY <3>7 DEF StatesAgree
    <2>2. ASSUME NEW s \in Session, NEW W \in SUBSET WorkType,
                 CreateDraft(s, W) \/ CreatePublished(s, W)
          PROVE  StatesAgree'
      BY <2>2 DEF CreateDraft, CreatePublished, StatesAgree, Agreement, Base, TypeOK, Rows
    <2>3. QED
      BY <1>2, <1>3, <1>4, <2>1, <2>2
      DEF Next, vars, dbVars, Agreement, StatesAgree, OfficeBegins, BeginOffice, Starts,
          ReadRequest, ReadScope, ReadInstance, CommitEdit, Abort, UploadWorkResult,
          DeleteWorkResult, SetResponsibility
  <1>7. QED
    BY <1>1, <1>5, <1>6 DEF Agreement

\* Status changes and edits by the office leave request and instance in the same
\* state, however many office users are at work at once.
THEOREM StatesAgreeThroughTheEngine == ThroughTheEngineOnly => (Spec => []StatesAgree)
  <1> SUFFICES ASSUME ThroughTheEngineOnly PROVE Spec => []StatesAgree
    OBVIOUS
  <1>1. Init => Agreement
    BY InitBase DEF Agreement, StatesAgree, Init, Idle
  <1>2. Agreement /\ [Next]_vars => Agreement'
    BY StepKeepsAgreement
  <1>3. Agreement => StatesAgree
    BY DEF Agreement
  <1>4. QED
    BY <1>1, <1>2, <1>3, PTL DEF Spec

\* Where an assignment moves against its table, a report has written over a status
\* that it had not loaded: nothing else does, whatever overlaps.
THEOREM OnlyOverwritesMoveIllegally == NoEdits => (Spec => OnlyOverwritesAreIllegal)
  <1> DEFINE Legal == \A w \in Existing(assignment) :
               \/ assignment'[w] = assignment[w]
               \/ assignment'[w] \in ASSIGNMENT_STATUS_TRANSITIONS[assignment[w]]
               \/ w \in overwritten'
  <1> SUFFICES ASSUME NoEdits PROVE Spec => OnlyOverwritesAreIllegal
    OBVIOUS
  <1>1. ASSUME Base, [Next]_vars
        PROVE  Legal
    <2>1. CASE UNCHANGED assignment \/ Existing(assignment) = {}
      BY <2>1
    <2>2. ASSUME NEW s \in Session, CommitPublish(s)
          PROVE  Legal
      BY <1>1, <2>2, PublishingAdds
    <2>3. ASSUME NEW s \in Session, CommitAccept(s) \/ CommitAssignment(s)
          PROVE  Legal
      <3>1. PICK own \in SUBSET Existing(assignment), new \in AssignmentStatus \ {"ASSIGNED"} :
              /\ assignment' = [w \in WorkType |-> IF w \in own THEN new ELSE assignment[w]]
              /\ overwritten' = overwritten \cup {w \in own : assignment[w] # txn[s].a[w]}
              /\ \A w \in own : new \in ASSIGNMENT_STATUS_TRANSITIONS[txn[s].a[w]]
        BY <1>1, <2>3, ReportingMoves
      <3>2. Existing(assignment) \subseteq WorkType
        BY <1>1 DEF Base, TypeOK, Existing
      <3>3. QED
        BY <3>1, <3>2
    <2>4. QED
      BY <1>1, <2>1, <2>2, <2>3, AssignmentWrites
  <1>2. Spec => [][Legal]_vars
    BY <1>1, BaseInvariance, PTL DEF Spec
  <1>3. QED
    BY <1>2 DEF OnlyOverwritesAreIllegal

-----------------------------------------------------------------------------
(* What a session has loaded and what the database holds.                    *)

Final == {"COMPLETED", "CANCELLED"}

\* What a session has loaded, as t, beside the work types W and the assignments A
\* of the database, of which those of O have been overwritten.  Its copies may be
\* out of date, but none is of a row that is gone, and an end that it has seen is
\* there still unless it has been overwritten.
Fresh(t, W, A, O) ==
  t.pc # "idle" =>
    /\ Existing(t.a) \subseteq Existing(A)
    /\ \A w \in Existing(t.a) \ O : t.a[w] \in Final => A[w] = t.a[w]
    /\ t.pc \in {"instance", "commit"} => t.W = W

Copies ==
  /\ Base
  /\ \A s \in Session : Fresh(txn[s], workTypes, assignment, overwritten)

\* A session that reads on: what it has loaded stays, and what it had not is taken
\* from the database.
LEMMA ReadingStep ==
  ASSUME Base, NEW s \in Session, ReadRequest(s) \/ ReadScope(s) \/ ReadInstance(s)
  PROVE  LET t == txn[s]
             n == txn'[s]
         IN  /\ txn' = [txn EXCEPT ![s] = n] /\ UNCHANGED dbVars
             /\ t.pc # "idle" /\ n.kind = t.kind
             /\ t.kind = "accept" => n.contractors = t.contractors
             /\ t.kind = "report" => n.w = t.w
             /\ \/ n.a = t.a /\ n.pc = "scope"
                \/ n.a = t.a /\ n.W = t.W /\ t.pc = "instance" /\ n.pc = "commit"
                \/ /\ n.a = [w \in WorkType |-> IF t.a[w] # NoAssignment THEN t.a[w]
                                                ELSE assignment[w]]
                   /\ n.W = workTypes /\ n.pc \in {"instance", "commit"}
  <1>1. txn[s].pc # "idle" /\ txn \in [Session -> Txn]
    BY DEF ReadRequest, ReadScope, ReadInstance, Base
  <1>2. txn[s] \in OfficeTxn \cup AcceptTxn \cup ReportTxn
    BY <1>1, AtWorkOnSomething
  <1>3. CASE ReadRequest(s)
    BY <1>1, <1>2, <1>3 DEF ReadRequest, OfficeTxn, AcceptTxn, ReportTxn
  <1>4. CASE ReadScope(s)
    <2> DEFINE b == [w \in WorkType |-> IF txn[s].a[w] # NoAssignment THEN txn[s].a[w]
                                        ELSE assignment[w]]
               pc == IF txn[s].kind = "edit" THEN "commit" ELSE "instance"
               f == IF txn[s].kind = "publish" THEN responsibility ELSE txn[s].found
               t == [txn[s] EXCEPT !.pc = pc, !.W = workTypes, !.a = b, !.found = f]
    <2>1. txn' = [txn EXCEPT ![s] = t] /\ UNCHANGED dbVars
      BY <1>4 DEF ReadScope
    <2>2. pc \in {"instance", "commit"}
      OBVIOUS
    <2> HIDE DEF b, pc, f
    <2>3. /\ t.pc = pc /\ t.kind = txn[s].kind /\ t.a = b /\ t.W = workTypes
          /\ txn[s].kind = "accept" => t.contractors = txn[s].contractors
          /\ txn[s].kind = "report" => t.w = txn[s].w
      BY <1>2 DEF OfficeTxn, AcceptTxn, ReportTxn
    <2> HIDE DEF t
    <2>4. txn'[s] = t /\ txn' = [txn EXCEPT ![s] = txn'[s]]
      BY <1>1, <2>1
    <2>5. QED
      BY <1>1, <2>1, <2>2, <2>3, <2>4 DEF b
  <1>5. CASE ReadInstance(s)
    BY <1>1, <1>2, <1>5 DEF ReadInstance, OfficeTxn, AcceptTxn, ReportTxn
  <1>6. QED
    BY <1>3, <1>4, <1>5

\* A session that begins has loaded nothing but what a report is about.
LEMMA BeginningStep ==
  ASSUME Base, NEW s \in Session,
         \/ OfficeBegins(s)
         \/ \E contractors \in SUBSET Contractor : BeginAccept(s, contractors)
         \/ \E w \in WorkType, new \in AssignmentStatus : BeginReport(s, w, new)
  PROVE  LET n == txn'[s]
         IN  /\ txn' = [txn EXCEPT ![s] = n] /\ UNCHANGED dbVars
             /\ n.pc \in {"request", "scope"}
             /\ \/ n.kind \in {"publish", "status", "edit", "accept"} /\ n.a = NothingAssigned
                \/ /\ n.kind = "report" /\ n.w \in Existing(assignment)
                   /\ contractorOf[n.w] \in Contractor
                   /\ n.a = [NothingAssigned EXCEPT ![n.w] = assignment[n.w]]
  <1>1. txn \in [Session -> Txn]
    BY DEF Base
  <1>2. CASE OfficeBegins(s)
    BY <1>1, <1>2 DEF OfficeBegins, BeginOffice, Starts
  <1>3. ASSUME NEW contractors \in SUBSET Contractor, BeginAccept(s, contractors)
        PROVE  /\ txn' = [txn EXCEPT ![s] = txn'[s]] /\ UNCHANGED dbVars
               /\ txn'[s].pc = "scope" /\ txn'[s].kind = "accept" /\ txn'[s].a = NothingAssigned
    BY <1>1, <1>3 DEF BeginAccept, Starts
  <1>4. ASSUME NEW w \in WorkType, NEW new \in AssignmentStatus, BeginReport(s, w, new)
        PROVE  /\ txn' = [txn EXCEPT ![s] = txn'[s]] /\ UNCHANGED dbVars
               /\ txn'[s].pc = "request" /\ txn'[s].kind = "report" /\ txn'[s].w = w
               /\ w \in Existing(assignment) /\ contractorOf[w] \in Contractor
               /\ txn'[s].a = [NothingAssigned EXCEPT ![w] = assignment[w]]
    <2>1. contractorOf[w] \in Contractor /\ w \in Existing(assignment)
      BY <1>4, SessionAssumption DEF BeginReport
    <2>2. QED
      BY <1>1, <1>4, <2>1 DEF BeginReport, Starts
  <1>5. QED
    BY <1>2, <1>3, <1>4

\* What the other sessions have loaded stays fresh when a step keeps the rows of the
\* assignments and, but for those that are overwritten, their ends.
LEMMA FreshKept ==
  ASSUME NEW t, NEW W, NEW A, NEW O, NEW B, NEW P, Fresh(t, W, A, O),
         Existing(A) \subseteq Existing(B), O \subseteq P,
         \A w \in Existing(A) \ P : A[w] \in Final => B[w] = A[w]
  PROVE  Fresh(t, W, B, P)
  BY DEF Fresh

LEMMA IdleIsFresh == \A W, A, O : Fresh(Idle, W, A, O)
  BY DEF Fresh, Idle

\* A step of session s alone.
LEMMA OnlyMine ==
  ASSUME Copies, Base', NEW s \in Session, NEW t, Fresh(t, workTypes, assignment, overwritten),
         txn' = [txn EXCEPT ![s] = t], UNCHANGED <<workTypes, assignment, overwritten>>
  PROVE  Copies'
  BY DEF Copies, Base

\* What a session that works has loaded.
LEMMA CopiesTyped ==
  ASSUME Base, NEW s \in Session, txn[s].pc # "idle"
  PROVE  /\ txn[s].a \in Assignments /\ assignment \in Assignments
         /\ txn[s].kind = "report" => txn[s].w \in Existing(txn[s].a)
  <1>1. txn[s] \in OfficeTxn \cup AcceptTxn \cup ReportTxn /\ Asked(txn[s])
    BY AtWorkOnSomething DEF Base
  <1>2. QED
    BY <1>1 DEF OfficeTxn, AcceptTxn, ReportTxn, Asked, Existing, Assignments, AssignmentStatus,
                NoAssignment, Base, TypeOK

\* Copies together with the rows that it has not loaded yet.
LEMMA MergedCopies ==
  ASSUME NEW a \in Assignments, NEW A \in Assignments, Existing(a) \subseteq Existing(A),
         NEW b, b = [w \in WorkType |-> IF a[w] # NoAssignment THEN a[w] ELSE A[w]]
  PROVE  /\ Existing(b) = Existing(A)
         /\ \A w \in Existing(b) : b[w] = A[w] \/ (w \in Existing(a) /\ b[w] = a[w])
  BY DEF Existing, Assignments

LEMMA ReadsKeepCopies ==
  ASSUME Copies, Base', NEW s \in Session, ReadRequest(s) \/ ReadScope(s) \/ ReadInstance(s)
  PROVE  Copies'
  <1> DEFINE t == txn[s]
             n == txn'[s]
  <1>1. /\ txn' = [txn EXCEPT ![s] = n] /\ UNCHANGED <<workTypes, assignment, overwritten>>
        /\ t.pc # "idle"
        /\ \/ n.a = t.a /\ n.pc = "scope"
           \/ n.a = t.a /\ n.W = t.W /\ t.pc = "instance" /\ n.pc = "commit"
           \/ /\ n.a = [w \in WorkType |-> IF t.a[w] # NoAssignment THEN t.a[w]
                                           ELSE assignment[w]]
              /\ n.W = workTypes /\ n.pc \in {"instance", "commit"}
    BY ReadingStep DEF Copies, dbVars
  <1>2. t.a \in Assignments /\ assignment \in Assignments
    BY <1>1, CopiesTyped DEF Copies
  <1>3. Fresh(t, workTypes, assignment, overwritten)
    BY DEF Copies
  <1> HIDE DEF t, n
  <1>4. CASE n.a = t.a /\ n.pc = "scope"
    BY <1>1, <1>3, <1>4, OnlyMine DEF Fresh
  <1>5. CASE n.a = t.a /\ n.W = t.W /\ t.pc = "instance" /\ n.pc = "commit"
    BY <1>1, <1>3, <1>5, OnlyMine DEF Fresh
  <1>6. CASE /\ n.a = [w \in WorkType |-> IF t.a[w] # NoAssignment THEN t.a[w]
                                          ELSE assignment[w]]
             /\ n.W = workTypes
    <2>1. /\ Existing(t.a) \subseteq Existing(assignment)
          /\ \A w \in Existing(t.a) \ overwritten : t.a[w] \in Final => assignment[w] = t.a[w]
      BY <1>1, <1>3 DEF Fresh
    <2>2. /\ Existing(n.a) = Existing(assignment)
          /\ \A w \in Existing(n.a) : n.a[w] = assignment[w]
                                      \/ (w \in Existing(t.a) /\ n.a[w] = t.a[w])
      BY <1>2, <1>6, <2>1, MergedCopies
    <2>3. Fresh(n, workTypes, assignment, overwritten)
      BY <1>6, <2>1, <2>2 DEF Fresh
    <2>4. QED
      BY <1>1, <2>3, OnlyMine
  <1>7. QED
    BY <1>1, <1>4, <1>5, <1>6

LEMMA BeginsKeepCopies ==
  ASSUME Copies, Base', NEW s \in Session,
         \/ OfficeBegins(s)
         \/ \E contractors \in SUBSET Contractor : BeginAccept(s, contractors)
         \/ \E w \in WorkType, new \in AssignmentStatus : BeginReport(s, w, new)
  PROVE  Copies'
  <1> DEFINE n == txn'[s]
  <1>1. /\ txn' = [txn EXCEPT ![s] = n] /\ UNCHANGED <<workTypes, assignment, overwritten>>
        /\ n.pc \in {"request", "scope"}
        /\ \/ n.a = NothingAssigned
           \/ \E w \in Existing(assignment) : n.a = [NothingAssigned EXCEPT ![w] = assignment[w]]
    BY BeginningStep DEF Copies, dbVars
  <1> HIDE DEF n
  <1>2. CASE n.a = NothingAssigned
    <2>1. Existing(n.a) = {}
      BY <1>2 DEF NothingAssigned, Existing
    <2>2. QED
      BY <1>1, <2>1, OnlyMine DEF Fresh
  <1>3. ASSUME NEW w \in Existing(assignment),
               n.a = [NothingAssigned EXCEPT ![w] = assignment[w]]
        PROVE  Copies'
    <2>1. w \in WorkType
      BY DEF Copies, Base, TypeOK, Existing
    <2>2. Existing(n.a) = {w} /\ n.a[w] = assignment[w]
      BY <1>3, <2>1 DEF NothingAssigned, Existing
    <2>3. QED
      BY <1>1, <2>2, OnlyMine DEF Fresh
  <1>4. QED
    BY <1>1, <1>2, <1>3

\* Without edits a session that commits or gives up takes its copies with it, and
\* the others only have to bear what it has done to the assignments.
LEMMA OthersBear ==
  ASSUME Copies, Base', NEW s \in Session, txn' = [txn EXCEPT ![s] = Idle],
         UNCHANGED workTypes, overwritten \subseteq overwritten',
         Existing(assignment) \subseteq Existing(assignment'),
         \A w \in Existing(assignment) \ overwritten' :
           assignment[w] \in Final => assignment'[w] = assignment[w]
  PROVE  Copies'
  <1>1. ASSUME NEW o \in Session \ {s}
        PROVE  Fresh(txn'[o], workTypes', assignment', overwritten')
    <2>1. txn'[o] = txn[o] /\ Fresh(txn[o], workTypes, assignment, overwritten)
      BY DEF Copies, Base
    <2>2. Fresh(txn[o], workTypes, assignment', overwritten')
      BY <2>1, FreshKept
    <2>3. QED
      BY <2>1, <2>2
  <1>2. txn'[s] = Idle
    BY DEF Copies, Base
  <1>3. QED
    BY <1>1, <1>2, IdleIsFresh DEF Copies

LEMMA ReportsKeepCopies ==
  ASSUME Copies, Base', NEW s \in Session, CommitAccept(s) \/ CommitAssignment(s)
  PROVE  Copies'
  <1>1. PICK own \in SUBSET Existing(assignment), new \in AssignmentStatus \ {"ASSIGNED"} :
           /\ assignment' = [w \in WorkType |-> IF w \in own THEN new ELSE assignment[w]]
           /\ overwritten' = overwritten \cup {w \in own : assignment[w] # txn[s].a[w]}
           /\ \A w \in own : new \in ASSIGNMENT_STATUS_TRANSITIONS[txn[s].a[w]]
    BY ReportingMoves DEF Copies
  <1>2. DOMAIN assignment = WorkType /\ Existing(assignment) \subseteq WorkType
    BY DEF Copies, Base, TypeOK, Existing
  <1>3. Existing(assignment) \subseteq Existing(assignment')
    BY <1>1, <1>2 DEF Existing, AssignmentStatus, NoAssignment
  <1>4. txn' = [txn EXCEPT ![s] = Idle] /\ UNCHANGED workTypes
    BY DEF CommitAccept, CommitAssignment, CommitReport, Commits
  <1>5. ASSUME NEW w \in Existing(assignment) \ overwritten', assignment[w] \in Final
        PROVE  assignment'[w] = assignment[w]
    <2>1. w \in own => new \in ASSIGNMENT_STATUS_TRANSITIONS[assignment[w]]
      BY <1>1, <1>5
    <2>2. w \notin own
      BY <1>5, <2>1 DEF Final, ASSIGNMENT_STATUS_TRANSITIONS, AssignmentStatus
    <2>3. QED
      BY <1>1, <1>2, <2>2
  <1>6. QED
    BY <1>1, <1>3, <1>4, <1>5, OthersBear

LEMMA PublishKeepsCopies ==
  ASSUME Copies, Base', NEW s \in Session, CommitPublish(s)
  PROVE  Copies'
  <1>1. \A w \in Existing(assignment) : assignment'[w] = assignment[w]
    BY PublishingAdds DEF Copies
  <1>2. DOMAIN assignment = WorkType /\ DOMAIN assignment' = WorkType
    BY DEF Copies, Base, TypeOK
  <1>3. Existing(assignment) \subseteq Existing(assignment')
    BY <1>1, <1>2 DEF Existing
  <1>4. txn' = [txn EXCEPT ![s] = Idle] /\ UNCHANGED <<workTypes, overwritten>>
    BY DEF CommitPublish, Commits
  <1>5. QED
    BY <1>1, <1>3, <1>4, OthersBear

LEMMA CreateKeepsCopies ==
  ASSUME Copies, Base', NEW s \in Session, NEW W \in SUBSET WorkType,
         CreateDraft(s, W) \/ CreatePublished(s, W)
  PROVE  Copies'
  <1>1. \A o \in Session : txn'[o] = Idle
    BY DEF CreateDraft, CreatePublished, Copies, Base, NothingYet
  <1>2. QED
    BY <1>1, IdleIsFresh DEF Copies

LEMMA StepKeepsCopies ==
  ASSUME NoEdits, Copies, [Next]_vars
  PROVE  Copies'
  <1>1. Base'
    BY StepKeepsBase DEF Copies
  <1>2. ASSUME NEW s \in Session, CommitEdit(s)
        PROVE  FALSE
    BY <1>2 DEF CommitEdit, Commits, Copies, Base, Asked, NoEdits
  <1>3. ASSUME NEW s \in Session, CommitStatus(s) \/ Abort(s)
        PROVE  Copies'
    <2>1. txn' = [txn EXCEPT ![s] = Idle] /\ UNCHANGED <<workTypes, assignment, overwritten>>
      BY <1>3 DEF CommitStatus, Commits, Abort, dbVars
    <2>2. QED
      BY <1>1, <2>1, OnlyMine, IdleIsFresh
  <1>4. CASE UNCHANGED <<workTypes, assignment, overwritten, txn>>
    BY <1>1, <1>4 DEF Copies
  <1>5. QED
    BY <1>1, <1>2, <1>3, <1>4, BeginsKeepCopies, ReadsKeepCopies, PublishKeepsCopies,
       ReportsKeepCopies, CreateKeepsCopies
    DEF Next, vars, dbVars, UploadWorkResult, DeleteWorkResult, SetResponsibility

LEMMA CopiesInvariance == NoEdits => (Spec => []Copies)
  <1> SUFFICES ASSUME NoEdits PROVE Spec => []Copies
    OBVIOUS
  <1>1. Init => Copies
    BY InitBase, IdleIsFresh DEF Copies, Init
  <1>2. Copies /\ [Next]_vars => Copies'
    BY StepKeepsCopies
  <1>3. QED
    BY <1>1, <1>2, PTL DEF Spec

\* Only a report that is committed makes a report's move.
LEMMA OnlyReportsMove ==
  ASSUME Base, [Next]_vars, NEW s \in Session, ReportMoves(s)
  PROVE  CommitAccept(s) \/ CommitAssignment(s)
  <1>1. /\ txn[s].pc = "commit" /\ txn[s].kind \in {"accept", "report"}
        /\ txn'[s] = Idle /\ row' # row /\ txn \in [Session -> Txn]
    BY DEF ReportMoves, Base
  <1>2. txn'[s] # txn[s]
    BY <1>1 DEF Idle
  <1>3. ASSUME NEW o \in Session,
               \/ OfficeBegins(o)
               \/ \E contractors \in SUBSET Contractor : BeginAccept(o, contractors)
               \/ \E w \in WorkType, new \in AssignmentStatus : BeginReport(o, w, new)
               \/ ReadRequest(o) \/ ReadScope(o) \/ ReadInstance(o) \/ Abort(o)
        PROVE  FALSE
    BY <1>1, <1>3, BeginningStep, ReadingStep DEF Abort, dbVars
  <1>4. ASSUME NEW o \in Session, CommitPublish(o) \/ CommitStatus(o) \/ CommitEdit(o)
        PROVE  FALSE
    BY <1>1, <1>2, <1>4 DEF CommitPublish, CommitStatus, CommitEdit, Commits
  <1>5. ASSUME NEW o \in Session \ {s}, CommitAccept(o) \/ CommitAssignment(o)
        PROVE  FALSE
    BY <1>1, <1>2, <1>5 DEF CommitAccept, CommitAssignment, CommitReport, Commits
  <1>6. QED
    BY <1>1, <1>2, <1>3, <1>4, <1>5
    DEF Next, vars, dbVars, CreateDraft, CreatePublished, UploadWorkResult, DeleteWorkResult,
        SetResponsibility

\* A report that ends the request has seen the work types, and the ends of assignments
\* that it has seen are in the database still.
LEMMA EndsAreReal ==
  ASSUME Copies, NEW s \in Session, NEW kind \in {"accept", "report"},
         NEW own \in SUBSET WorkType, NEW new \in AssignmentStatus,
         CommitReport(s, kind, own, new), row'.status # row.status
  PROVE  /\ row'.status = "COMPLETED" =>
              \A w \in workTypes \ overwritten : assignment'[w] = "COMPLETED"
         /\ row'.status = "CANCELLED" =>
              \A w \in Existing(assignment') \ overwritten :
                assignment'[w] = "CANCELLED" \/ w \notin Existing(txn[s].a)
  <1> DEFINE t == txn[s]
             a == [w \in WorkType |-> IF w \in own THEN new ELSE t.a[w]]
             st == Recalculated(t.row.status, t.W, a)
  <1>1. /\ t.W = workTypes
        /\ \A w \in Existing(t.a) \ overwritten : t.a[w] \in Final => assignment[w] = t.a[w]
    BY DEF CommitReport, Commits, Copies, Fresh
  <1>2. DOMAIN t.a = WorkType /\ DOMAIN assignment = WorkType /\ workTypes \subseteq WorkType
    BY CopiesTyped DEF CommitReport, Commits, Copies, Base, TypeOK, Assignments
  <1>3. own \subseteq Existing(assignment) /\ assignment' = Saved(a, own)
    BY DEF CommitReport
  <1>4. Existing(a) = Existing(t.a) \cup own
    BY <1>2 DEF Existing, AssignmentStatus, NoAssignment
  <1>5. \A w \in Existing(a) \ overwritten : a[w] \in Final => assignment'[w] = a[w]
    BY <1>1, <1>2, <1>3, <1>4 DEF Saved, Existing
  <1>6. row'.status = st /\ st # t.row.status
    BY ReportedRow DEF Copies
  <1>7. DOMAIN assignment' = WorkType
    BY <1>3 DEF Saved
  <1> HIDE DEF a
  <1>8. CASE st = "COMPLETED"
    <2>1. AllDone(t.W, a)
      BY <1>6, <1>8 DEF Recalculated
    <2>2. \A w \in workTypes : w \in Existing(a) /\ a[w] = "COMPLETED"
      BY <1>1, <2>1 DEF AllDone, Unassigned, Active
    <2>3. \A w \in workTypes \ overwritten : assignment'[w] = "COMPLETED"
      BY <1>5, <2>2 DEF Final
    <2> HIDE DEF st
    <2>4. QED
      BY <1>6, <1>8, <2>3
  <1>9. CASE st = "CANCELLED"
    <2>1. AllCancelled(a)
      BY <1>6, <1>9 DEF Recalculated
    <2>2. \A w \in Existing(t.a) : w \in Existing(a) /\ a[w] = "CANCELLED"
      BY <1>4, <2>1 DEF AllCancelled, Active
    <2>3. \A w \in Existing(t.a) \ overwritten : assignment'[w] = "CANCELLED"
      BY <1>5, <2>2 DEF Final
    <2> HIDE DEF st
    <2>4. QED
      BY <1>6, <1>9, <2>3
  <1> HIDE DEF st
  <1>10. QED
    BY <1>6, <1>8, <1>9

\* A report that completes or cancels the request is right about the database, but
\* for publications since it loaded its copies and for what has been overwritten.
THEOREM ReportedEndsAreRealWithoutEdits == NoEdits => (Spec => ReportedEndsAreReal)
  <1> DEFINE Real(s) ==
        /\ row'.status = "COMPLETED" =>
             \A w \in workTypes \ overwritten : assignment'[w] = "COMPLETED"
        /\ row'.status = "CANCELLED" =>
             \A w \in Existing(assignment') \ overwritten :
               assignment'[w] = "CANCELLED" \/ w \notin Existing(txn[s].a)
  <1> SUFFICES ASSUME NoEdits PROVE Spec => ReportedEndsAreReal
    OBVIOUS
  <1>1. ASSUME Copies, [Next]_vars, NEW s \in Session, ReportMoves(s)
        PROVE  Real(s)
    <2>1. Base /\ row'.status # row.status
      BY <1>1 DEF Copies, ReportMoves
    <2>2. CASE CommitAccept(s)
      <3> DEFINE own == {w \in WorkType : txn[s].a[w] = "ASSIGNED"
                                          /\ contractorOf[w] \in txn[s].contractors}
      <3>1. own \in SUBSET WorkType /\ CommitReport(s, "accept", own, "ACCEPTED")
        BY <2>2 DEF CommitAccept
      <3> HIDE DEF own
      <3>2. QED
        BY <1>1, <2>1, <3>1, EndsAreReal DEF AssignmentStatus
    <2>3. CASE CommitAssignment(s)
      <3>1. CommitReport(s, "report", {txn[s].w}, txn[s].new) /\ txn[s] \in ReportTxn
        BY <2>1, <2>3, AtWorkOnSomething DEF CommitAssignment, OfficeTxn, AcceptTxn
      <3>2. {txn[s].w} \in SUBSET WorkType /\ txn[s].new \in AssignmentStatus
        BY <3>1 DEF ReportTxn
      <3>3. QED
        BY <1>1, <2>1, <3>1, <3>2, EndsAreReal
    <2>4. QED
      BY <1>1, <2>1, <2>2, <2>3, OnlyReportsMove
  <1>2. ASSUME Copies, [Next]_vars
        PROVE  \A s \in Session : ReportMoves(s) => Real(s)
    BY <1>1, <1>2
  <1>3. Spec => [][\A s \in Session : ReportMoves(s) => Real(s)]_vars
    BY <1>2, CopiesInvariance, PTL DEF Spec
  <1>4. QED
    BY <1>3 DEF ReportedEndsAreReal

-----------------------------------------------------------------------------
(* A contractor whose users take turns.                                      *)

\* Session s is at work for contractor c.
WorksFor(s, c) ==
  /\ txn[s].pc # "idle"
  /\ \/ txn[s].kind = "accept" /\ c \in txn[s].contractors
     \/ txn[s].kind = "report" /\ contractorOf[txn[s].w] = c

\* No contractor has two handlers at work at once, others may.
OnePerContractor ==
  \A s, o \in Session, c \in Contractor : WorksFor(s, c) /\ WorksFor(o, c) => s = o

\* The assignment of w is one that the session with t writes, where C names the
\* contractors.
Mine(t, w, C) ==
  \/ t.kind = "accept" /\ C[w] \in t.contractors
  \/ t.kind = "report" /\ C[w] = C[t.w]

\* The copies that a session is about to write are those of the database.
OwnFresh(t, A, C) ==
  t.pc # "idle" =>
    /\ t.kind = "report" => C[t.w] \in Contractor
    /\ \A w \in Existing(t.a) : Mine(t, w, C) => t.a[w] = A[w]

OwnCopies ==
  /\ Copies
  /\ \A s \in Session : OwnFresh(txn[s], assignment, contractorOf)

LEMMA IdleIsOwnFresh == \A A, C : OwnFresh(Idle, A, C)
  BY DEF OwnFresh, Idle

\* A change of the database that leaves a session's own assignments alone.
LEMMA OwnFreshKept ==
  ASSUME NEW t, NEW A, NEW C, NEW B, NEW D, OwnFresh(t, A, C),
         Existing(t.a) \subseteq Existing(A), t.kind = "report" => t.w \in Existing(t.a),
         \A w \in Existing(A) : D[w] = C[w],
         \A w \in Existing(A) : Mine(t, w, C) => B[w] = A[w]
  PROVE  OwnFresh(t, B, D)
  BY DEF OwnFresh, Mine

\* A step of session s alone.
LEMMA OnlyMyOwn ==
  ASSUME OwnCopies, Copies', NEW s \in Session, NEW t, OwnFresh(t, assignment, contractorOf),
         txn' = [txn EXCEPT ![s] = t], UNCHANGED <<assignment, contractorOf>>
  PROVE  OwnCopies'
  BY DEF OwnCopies, Copies, Base

LEMMA ReadsKeepOwn ==
  ASSUME OwnCopies, Copies', NEW s \in Session, ReadRequest(s) \/ ReadScope(s) \/ ReadInstance(s)
  PROVE  OwnCopies'
  <1> DEFINE t == txn[s]
             n == txn'[s]
  <1>1. /\ txn' = [txn EXCEPT ![s] = n] /\ UNCHANGED <<assignment, contractorOf>>
        /\ t.pc # "idle" /\ n.kind = t.kind
        /\ t.kind = "accept" => n.contractors = t.contractors
        /\ t.kind = "report" => n.w = t.w
        /\ \/ n.a = t.a
           \/ n.a = [w \in WorkType |-> IF t.a[w] # NoAssignment THEN t.a[w] ELSE assignment[w]]
    BY ReadingStep DEF OwnCopies, Copies, dbVars
  <1>2. t.a \in Assignments /\ assignment \in Assignments
    BY <1>1, CopiesTyped DEF OwnCopies, Copies
  <1>3. /\ t.kind = "report" => contractorOf[t.w] \in Contractor
        /\ \A w \in Existing(t.a) : Mine(t, w, contractorOf) => t.a[w] = assignment[w]
    BY <1>1 DEF OwnCopies, OwnFresh
  <1>4. Existing(t.a) \subseteq Existing(assignment)
    BY <1>1 DEF OwnCopies, Copies, Fresh
  <1> HIDE DEF t, n
  <1>5. \A w : Mine(n, w, contractorOf) => Mine(t, w, contractorOf)
    BY <1>1 DEF Mine
  <1>6. CASE n.a = t.a
    BY <1>1, <1>3, <1>5, <1>6, OnlyMyOwn DEF OwnFresh
  <1>7. CASE n.a = [w \in WorkType |-> IF t.a[w] # NoAssignment THEN t.a[w] ELSE assignment[w]]
    <2>1. \A w \in Existing(n.a) : n.a[w] = assignment[w]
                                   \/ (w \in Existing(t.a) /\ n.a[w] = t.a[w])
      BY <1>2, <1>4, <1>7, MergedCopies
    <2>2. OwnFresh(n, assignment, contractorOf)
      BY <1>1, <1>3, <1>5, <2>1 DEF OwnFresh
    <2>3. QED
      BY <1>1, <2>2, OnlyMyOwn
  <1>8. QED
    BY <1>1, <1>6, <1>7

LEMMA BeginsKeepOwn ==
  ASSUME OwnCopies, Copies', NEW s \in Session,
         \/ OfficeBegins(s)
         \/ \E contractors \in SUBSET Contractor : BeginAccept(s, contractors)
         \/ \E w \in WorkType, new \in AssignmentStatus : BeginReport(s, w, new)
  PROVE  OwnCopies'
  <1> DEFINE n == txn'[s]
  <1>1. /\ txn' = [txn EXCEPT ![s] = n] /\ UNCHANGED <<assignment, contractorOf>>
        /\ \/ n.kind \in {"publish", "status", "edit", "accept"} /\ n.a = NothingAssigned
           \/ /\ n.kind = "report" /\ n.w \in Existing(assignment)
              /\ contractorOf[n.w] \in Contractor
              /\ n.a = [NothingAssigned EXCEPT ![n.w] = assignment[n.w]]
    BY BeginningStep DEF OwnCopies, Copies, dbVars
  <1> HIDE DEF n
  <1>2. CASE n.kind \in {"publish", "status", "edit", "accept"} /\ n.a = NothingAssigned
    <2>1. Existing(n.a) = {}
      BY <1>2 DEF NothingAssigned, Existing
    <2>2. QED
      BY <1>1, <1>2, <2>1, OnlyMyOwn DEF OwnFresh
  <1>3. CASE /\ n.kind = "report" /\ n.w \in Existing(assignment)
             /\ contractorOf[n.w] \in Contractor
             /\ n.a = [NothingAssigned EXCEPT ![n.w] = assignment[n.w]]
    <2>1. n.w \in WorkType
      BY <1>3 DEF OwnCopies, Copies, Base, TypeOK, Existing
    <2>2. \A w \in Existing(n.a) : n.a[w] = assignment[w]
      BY <1>3, <2>1 DEF NothingAssigned, Existing
    <2>3. QED
      BY <1>1, <1>3, <2>2, OnlyMyOwn DEF OwnFresh
  <1>4. QED
    BY <1>1, <1>2, <1>3

\* What a session that ends does to the assignments of the others.
LEMMA OthersOwnBear ==
  ASSUME OwnCopies, Copies', NEW s \in Session, txn' = [txn EXCEPT ![s] = Idle],
         \A w \in Existing(assignment) : contractorOf'[w] = contractorOf[w],
         \A o \in Session \ {s}, w \in Existing(assignment) :
           txn[o].pc # "idle" /\ Mine(txn[o], w, contractorOf) => assignment'[w] = assignment[w]
  PROVE  OwnCopies'
  <1>1. ASSUME NEW o \in Session \ {s}, txn[o].pc # "idle"
        PROVE  OwnFresh(txn'[o], assignment', contractorOf')
    <2>1. /\ txn'[o] = txn[o] /\ OwnFresh(txn[o], assignment, contractorOf)
          /\ Existing(txn[o].a) \subseteq Existing(assignment)
      BY <1>1 DEF OwnCopies, Copies, Base, Fresh
    <2>2. txn[o].kind = "report" => txn[o].w \in Existing(txn[o].a)
      BY <1>1, CopiesTyped DEF OwnCopies, Copies
    <2>3. \A w \in Existing(assignment) : Mine(txn[o], w, contractorOf)
                                            => assignment'[w] = assignment[w]
      BY <1>1
    <2>4. OwnFresh(txn[o], assignment', contractorOf')
      BY <2>1, <2>2, <2>3, OwnFreshKept
    <2>5. QED
      BY <2>1, <2>4
  <1>2. ASSUME NEW o \in Session \ {s}, txn[o].pc = "idle"
        PROVE  OwnFresh(txn'[o], assignment', contractorOf')
    BY <1>2 DEF OwnFresh, OwnCopies, Copies, Base
  <1>3. txn'[s] = Idle
    BY DEF OwnCopies, Copies, Base
  <1>4. QED
    BY <1>1, <1>2, <1>3, IdleIsOwnFresh DEF OwnCopies

\* The report of a session moves assignments of its own contractors, from what they
\* are in the database.
LEMMA ReportingIsOwn ==
  ASSUME OwnCopies, NEW s \in Session, CommitAccept(s) \/ CommitAssignment(s)
  PROVE  \E own \in SUBSET Existing(assignment), new \in AssignmentStatus :
           /\ assignment' = [w \in WorkType |-> IF w \in own THEN new ELSE assignment[w]]
           /\ txn[s].pc # "idle"
           /\ \A w \in own : /\ WorksFor(s, contractorOf[w]) /\ contractorOf[w] \in Contractor
                             /\ new \in ASSIGNMENT_STATUS_TRANSITIONS[assignment[w]]
  <1>1. PICK own \in SUBSET Existing(assignment), new \in AssignmentStatus \ {"ASSIGNED"} :
           /\ assignment' = [w \in WorkType |-> IF w \in own THEN new ELSE assignment[w]]
           /\ \A w \in own : /\ txn[s].a[w] \in AssignmentStatus
                             /\ new \in ASSIGNMENT_STATUS_TRANSITIONS[txn[s].a[w]]
           /\ txn[s].kind \in {"accept", "report"} /\ txn[s].pc = "commit"
           /\ txn[s].kind = "accept" => \A w \in own : contractorOf[w] \in txn[s].contractors
           /\ txn[s].kind = "report" => own = {txn[s].w}
    BY ReportingMoves DEF OwnCopies, Copies
  <1>2. txn[s] \in AcceptTxn \cup ReportTxn /\ txn[s].a \in Assignments
    BY <1>1, AtWorkOnSomething, CopiesTyped DEF OwnCopies, Copies, OfficeTxn
  <1>3. own \subseteq WorkType /\ own \subseteq Existing(txn[s].a)
    BY <1>1, <1>2 DEF Existing, Assignments, AssignmentStatus, NoAssignment, OwnCopies, Copies,
                      Base, TypeOK
  <1>4. \A w \in own : Mine(txn[s], w, contractorOf) /\ WorksFor(s, contractorOf[w])
    BY <1>1 DEF Mine, WorksFor
  <1>5. \A w \in own : contractorOf[w] \in Contractor
    <2>1. CASE txn[s].kind = "accept"
      <3>1. txn[s].contractors \subseteq Contractor
        BY <1>2, <2>1 DEF AcceptTxn, ReportTxn
      <3>2. QED
        BY <1>1, <2>1, <3>1
    <2>2. CASE txn[s].kind = "report"
      <3>1. OwnFresh(txn[s], assignment, contractorOf)
        BY DEF OwnCopies
      <3>2. QED
        BY <1>1, <2>2, <3>1 DEF OwnFresh
    <2>3. QED
      BY <1>1, <2>1, <2>2
  <1>6. \A w \in own : txn[s].a[w] = assignment[w]
    BY <1>1, <1>3, <1>4 DEF OwnCopies, OwnFresh
  <1>7. /\ new \in AssignmentStatus /\ txn[s].pc # "idle"
        /\ \A w \in own : new \in ASSIGNMENT_STATUS_TRANSITIONS[assignment[w]]
    BY <1>1, <1>6
  <1>8. WITNESS own \in SUBSET Existing(assignment), new \in AssignmentStatus
  <1>9. QED
    BY <1>1, <1>4, <1>5, <1>7

LEMMA ReportsKeepOwn ==
  ASSUME OnePerContractor, OwnCopies, Copies', NEW s \in Session,
         CommitAccept(s) \/ CommitAssignment(s)
  PROVE  OwnCopies'
  <1>1. PICK own \in SUBSET Existing(assignment), new \in AssignmentStatus :
           /\ assignment' = [w \in WorkType |-> IF w \in own THEN new ELSE assignment[w]]
           /\ \A w \in own : WorksFor(s, contractorOf[w]) /\ contractorOf[w] \in Contractor
    BY ReportingIsOwn
  <1>2. txn' = [txn EXCEPT ![s] = Idle] /\ UNCHANGED contractorOf
    BY DEF CommitAccept, CommitAssignment, CommitReport, Commits
  <1>3. Existing(assignment) \subseteq WorkType
    BY DEF OwnCopies, Copies, Base, TypeOK, Existing
  <1>4. ASSUME NEW o \in Session \ {s}, NEW w \in Existing(assignment), txn[o].pc # "idle",
               Mine(txn[o], w, contractorOf)
        PROVE  assignment'[w] = assignment[w]
    <2>1. WorksFor(o, contractorOf[w])
      BY <1>4 DEF Mine, WorksFor
    <2>2. w \notin own
      BY <1>1, <2>1 DEF OnePerContractor
    <2>3. QED
      BY <1>1, <1>3, <2>2
  <1>5. QED
    BY <1>2, <1>4, OthersOwnBear

LEMMA PublishKeepsOwn ==
  ASSUME OwnCopies, Copies', NEW s \in Session, CommitPublish(s)
  PROVE  OwnCopies'
  <1>1. \A w \in Existing(assignment) : assignment'[w] = assignment[w]
    BY PublishingAdds DEF OwnCopies, Copies
  <1>2. \A w \in Existing(assignment) : contractorOf'[w] = contractorOf[w]
    BY DEF CommitPublish, UniqueViolation, OwnCopies, Copies, Base, TypeOK, Existing
  <1>3. txn' = [txn EXCEPT ![s] = Idle]
    BY DEF CommitPublish, Commits
  <1>4. QED
    BY <1>1, <1>2, <1>3, OthersOwnBear

LEMMA StepKeepsOwn ==
  ASSUME NoEdits, OnePerContractor, OwnCopies, [Next]_vars
  PROVE  OwnCopies'
  <1>1. Copies'
    BY StepKeepsCopies DEF OwnCopies
  <1>2. ASSUME NEW s \in Session, CommitEdit(s)
        PROVE  FALSE
    BY <1>2 DEF CommitEdit, Commits, OwnCopies, Copies, Base, Asked, NoEdits
  <1>3. ASSUME NEW s \in Session, CommitStatus(s) \/ Abort(s)
        PROVE  OwnCopies'
    <2>1. txn' = [txn EXCEPT ![s] = Idle] /\ UNCHANGED <<assignment, contractorOf>>
      BY <1>3 DEF CommitStatus, Commits, Abort, dbVars
    <2>2. QED
      BY <1>1, <2>1, OnlyMyOwn, IdleIsOwnFresh
  <1>4. CASE UNCHANGED <<assignment, contractorOf, txn>>
    BY <1>1, <1>4 DEF OwnCopies
  <1>5. ASSUME NEW s \in Session, NEW W \in SUBSET WorkType,
               CreateDraft(s, W) \/ CreatePublished(s, W)
        PROVE  OwnCopies'
    <2>1. \A o \in Session : txn'[o] = Idle
      BY <1>5 DEF CreateDraft, CreatePublished, OwnCopies, Copies, Base, NothingYet
    <2>2. QED
      BY <1>1, <2>1, IdleIsOwnFresh DEF OwnCopies
  <1>6. QED
    BY <1>1, <1>2, <1>3, <1>4, <1>5, BeginsKeepOwn, ReadsKeepOwn, PublishKeepsOwn,
       ReportsKeepOwn
    DEF Next, vars, dbVars, UploadWorkResult, DeleteWorkResult, SetResponsibility

\* While no contractor has two handlers at work at once, every assignment moves along
\* its table, whatever publications, responsibilities and other contractors do.
THEOREM AssignmentsMoveInTurn ==
  NoEdits => (Spec /\ []OnePerContractor => AssignmentsMoveLegally)
  <1> DEFINE Legal == \A w \in Existing(assignment) :
               assignment'[w] = assignment[w]
               \/ assignment'[w] \in ASSIGNMENT_STATUS_TRANSITIONS[assignment[w]]
  <1> SUFFICES ASSUME NoEdits PROVE Spec /\ []OnePerContractor => AssignmentsMoveLegally
    OBVIOUS
  <1>1. Init => OwnCopies
    BY InitBase, IdleIsFresh, IdleIsOwnFresh DEF OwnCopies, Copies, Init
  <1>2. OnePerContractor /\ OwnCopies /\ [Next]_vars => OwnCopies'
    BY StepKeepsOwn
  <1>3. ASSUME OwnCopies, [Next]_vars
        PROVE  Legal
    <2>1. CASE UNCHANGED assignment \/ Existing(assignment) = {}
      BY <2>1
    <2>2. ASSUME NEW s \in Session, CommitPublish(s)
          PROVE  Legal
      BY <1>3, <2>2, PublishingAdds DEF OwnCopies, Copies
    <2>3. ASSUME NEW s \in Session, CommitAccept(s) \/ CommitAssignment(s)
          PROVE  Legal
      <3>1. PICK own \in SUBSET Existing(assignment), new \in AssignmentStatus :
               /\ assignment' = [w \in WorkType |-> IF w \in own THEN new ELSE assignment[w]]
               /\ \A w \in own : new \in ASSIGNMENT_STATUS_TRANSITIONS[assignment[w]]
        BY <1>3, <2>3, ReportingIsOwn
      <3>2. QED
        BY <1>3, <3>1 DEF OwnCopies, Copies, Base, TypeOK, Existing
    <2>4. QED
      BY <1>3, <2>1, <2>2, <2>3, AssignmentWrites DEF OwnCopies, Copies
  <1>4. Spec /\ []OnePerContractor => []OwnCopies
    BY <1>1, <1>2, PTL DEF Spec
  <1>5. Spec /\ []OnePerContractor => [][Legal]_vars
    BY <1>3, <1>4, PTL DEF Spec
  <1>6. QED
    BY <1>5 DEF AssignmentsMoveLegally
=============================================================================
