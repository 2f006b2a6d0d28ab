------------------------ MODULE RequestLifecycle_proofs ------------------------
(***************************************************************************)
(* Proofs about RequestLifecycle for all work types, contractors and       *)
(* permission sets.  The invariants of the module are proved together:     *)
(* IInv is their conjunction, and each step of the proof that Next keeps   *)
(* it is about one action.                                                 *)
(***************************************************************************)
EXTENDS RequestLifecycle, RequestRules_proofs

IInv ==
  /\ TypeOK
  /\ InstanceMirrorsRequest
  /\ StampsFollowStatus
  /\ AssignmentsFitScope
  /\ AbandonedIsCancelled

-----------------------------------------------------------------------------
(* Typing.                                                                   *)

\* What apply_request_status and synchronize_instance_from_request write.
LEMMA WritingTyped ==
  ASSUME TypeOK, NEW old \in RequestStatus, NEW new \in RequestStatus, NEW state,
         NEW permissions, ExecuteTransition(old, new, state, permissions)
  PROVE  /\ status' = new /\ instState' = new
         /\ completedAt' \in Stamp /\ closedAt' \in Stamp
         /\ instCompletedAt' \in Stamp /\ instCancelledAt' \in Stamp
         /\ timelineEnd' \in RequestStatus \cup {"NONE"}
  BY DEF ExecuteTransition, ApplyStatus, Synchronize, TypeOK, Stamp

\* What publishing writes.
LEMMA PublishingTyped ==
  ASSUME TypeOK, NEW old \in RequestStatus, NEW state, NEW W \in SUBSET WorkType,
         NEW permissions, PublishFrom(old, state, W, permissions)
  PROVE  /\ status' \in {"NEW", "PARTIALLY_ASSIGNED", "ASSIGNED"} /\ instState' = status'
         /\ assignment' \in [WorkType -> AssignmentStatus \cup {NoAssignment}]
         /\ contractorOf' \in [WorkType -> Contractor \cup {NoContractor}]
         /\ completedAt' \in Stamp /\ closedAt' \in Stamp
         /\ instCompletedAt' \in Stamp /\ instCancelledAt' \in Stamp
         /\ timelineEnd' \in RequestStatus \cup {"NONE"}
  <1> DEFINE given == Uncovered(W, assignment)
             a     == [w \in WorkType |-> IF w \in given THEN "ASSIGNED" ELSE assignment[w]]
             new   == StatusAfterPublish(W, a)
  <1>1. /\ assignment' = a
        /\ contractorOf' = [w \in WorkType |-> IF w \in given THEN responsibility[w]
                                               ELSE contractorOf[w]]
        /\ ExecuteTransition(old, new, state, permissions)
    BY DEF PublishFrom
  <1>2. new \in {"NEW", "PARTIALLY_ASSIGNED", "ASSIGNED"}
    BY PublishedStatus
  <1>3. new \in RequestStatus
    BY <1>2 DEF RequestStatus
  <1> HIDE DEF new, given
  <1>4. /\ assignment' \in [WorkType -> AssignmentStatus \cup {NoAssignment}]
        /\ contractorOf' \in [WorkType -> Contractor \cup {NoContractor}]
    BY <1>1 DEF TypeOK, AssignmentStatus
  <1>5. QED
    BY <1>1, <1>2, <1>3, <1>4, WritingTyped

\* What a report writes.
LEMMA ReportingTyped ==
  ASSUME TypeOK, status \in RequestStatus, NEW W \in SUBSET WorkType,
         NEW new \in AssignmentStatus, AssignmentsBecome(W, new)
  PROVE  TypeOK'
  <1> DEFINE a == [w \in WorkType |-> IF w \in W THEN new ELSE assignment[w]]
             s == Recalculated(status, workTypes, a)
  <1>1. /\ assignment' = a /\ status' = s
        /\ completedAt' \in {"set", completedAt}
        /\ RecordAfterChange(s)
        /\ UNCHANGED <<workTypes, contractorOf, closedAt, workResults, responsibility>>
    BY DEF AssignmentsBecome
  <1>2. s \in RequestStatus
    BY RecalculatedRange DEF RequestStatus
  <1>3. a \in [WorkType -> AssignmentStatus \cup {NoAssignment}]
    BY DEF TypeOK
  <1> HIDE DEF s, a
  <1>4. /\ instState' = s
        /\ timelineEnd' \in {s, timelineEnd}
        /\ instCompletedAt' \in {"null", "set", completedAt', instCompletedAt}
        /\ instCancelledAt' \in {"null", "set", instCancelledAt}
    BY <1>1 DEF RecordAfterChange, Synchronize
  <1>5. QED
    BY <1>1, <1>2, <1>3, <1>4 DEF TypeOK, Stamp

\* Every contractor's report is about an existing assignment, hence about a
\* request that has been published.
LEMMA ReportsArePublished ==
  ASSUME IInv, NEW w \in WorkType, assignment[w] # NoAssignment
  PROVE  status \in RequestStatus \ {"DRAFT", "NEW"}
  <1>1. w \in Existing(assignment)
    BY DEF IInv, TypeOK, Existing
  <1>2. QED
    BY <1>1 DEF IInv, TypeOK, AssignmentsFitScope
-----------------------------------------------------------------------------
(* The invariant, action by action.                                          *)

LEMMA InitKeeps == Init => IInv
  <1> SUFFICES ASSUME Init PROVE IInv
    OBVIOUS
  <1>1. Existing(assignment) = {}
    BY DEF Init, NothingAssigned, Existing
  <1>2. TypeOK
    BY DEF Init, TypeOK, NothingAssigned, Stamp
  <1>3. QED
    BY <1>1, <1>2 DEF Init, IInv, InstanceMirrorsRequest, StampsFollowStatus,
                      AssignmentsFitScope, AbandonedIsCancelled, AllCancelled

\* Publishing a request that is not abandoned, first or again.
LEMMA PublishingKeeps ==
  ASSUME IInv, NEW old \in RequestStatus, NEW state, NEW W \in SUBSET WorkType,
         NEW permissions, PublishFrom(old, state, W, permissions),
         Existing(assignment) \subseteq W, ~AllCancelled(assignment),
         workTypes' = W, UNCHANGED <<workResults, responsibility>>
  PROVE  IInv'
  <1> DEFINE given == Uncovered(W, assignment)
             a     == [w \in WorkType |-> IF w \in given THEN "ASSIGNED" ELSE assignment[w]]
  <1>1. /\ assignment' = a
        /\ ExecuteTransition(old, StatusAfterPublish(W, a), state, permissions)
    BY DEF PublishFrom
  <1>2. TypeOK'
    <2>1. /\ status' \in {"NEW", "PARTIALLY_ASSIGNED", "ASSIGNED"} /\ instState' = status'
          /\ assignment' \in [WorkType -> AssignmentStatus \cup {NoAssignment}]
          /\ contractorOf' \in [WorkType -> Contractor \cup {NoContractor}]
          /\ completedAt' \in Stamp /\ closedAt' \in Stamp
          /\ instCompletedAt' \in Stamp /\ instCancelledAt' \in Stamp
          /\ timelineEnd' \in RequestStatus \cup {"NONE"}
      BY PublishingTyped DEF IInv
    <2>2. QED
      BY <2>1 DEF IInv, TypeOK, RequestStatus
  <1>3. given \subseteq W /\ given \cap Existing(assignment) = {}
    BY DEF Uncovered
  <1>4. Existing(a) = Existing(assignment) \cup given
    BY <1>3 DEF Existing, IInv, TypeOK, NoAssignment
  <1>5. Active(a) = Active(assignment) \cup given
    BY <1>3, <1>4 DEF Active, Existing, IInv, TypeOK
  <1>6. Existing(a) # {} => Active(a) # {}
    BY <1>4, <1>5 DEF AllCancelled
  <1>7. Active(a) \subseteq Existing(a) /\ Existing(a) \subseteq W
    BY <1>3, <1>4 DEF Active
  <1>8. /\ StatusAfterPublish(W, a) \in {"NEW", "PARTIALLY_ASSIGNED", "ASSIGNED"}
        /\ StatusAfterPublish(W, a) = "NEW" => Active(a) \cap W = {}
    BY PublishedStatus
  <1> HIDE DEF a, given
  <1>9. /\ status' = StatusAfterPublish(W, a)
        /\ instState' = status' /\ instCompletedAt' = "null" /\ instCancelledAt' = "null"
        /\ closedAt' = "set" => closedAt = "set" /\ completedAt' = completedAt
    BY <1>1, <1>8 DEF ExecuteTransition, ApplyStatus, Synchronize
  <1>10. InstanceMirrorsRequest'
    BY <1>8, <1>9 DEF InstanceMirrorsRequest
  <1>11. StampsFollowStatus'
    BY <1>8, <1>9 DEF IInv, StampsFollowStatus
  <1>12. AssignmentsFitScope'
    BY <1>1, <1>6, <1>7, <1>8, <1>9 DEF AssignmentsFitScope
  <1>13. AbandonedIsCancelled'
    BY <1>1, <1>6 DEF AbandonedIsCancelled, AllCancelled
  <1>14. QED
    BY <1>2, <1>10, <1>11, <1>12, <1>13 DEF IInv

\* The status endpoint on an existing request.
LEMMA ChangingStatusKeeps ==
  ASSUME IInv, NEW new, NEW permissions, ChangeStatus(new, permissions)
  PROVE  IInv'
  <1>1. /\ status \in RequestStatus /\ new \in RequestStatus \ {"DRAFT"}
        /\ new \in REQUEST_STATUS_TRANSITIONS[status]
        /\ status # "CANCELLED"
        /\ ExecuteTransition(status, new, instState, permissions)
        /\ UNCHANGED <<workTypes, assignment, contractorOf, workResults, responsibility>>
    BY TransitionsStayInside DEF ChangeStatus, IInv, TypeOK
  <1>2. new = "NEW" => status = "DRAFT"
    BY <1>1 DEF REQUEST_STATUS_TRANSITIONS, RequestStatus
  <1>3. new = "CLOSED" => status = "COMPLETED"
    BY <1>1 DEF REQUEST_STATUS_TRANSITIONS, RequestStatus
  <1>4. TypeOK'
    BY <1>1, WritingTyped DEF IInv, TypeOK
  <1>5. /\ status' = new /\ instState' = new
        /\ instCompletedAt' = IF new \in {"COMPLETED", "CLOSED"} THEN completedAt' ELSE "null"
        /\ instCancelledAt' = IF new = "CANCELLED" THEN "set" ELSE "null"
        /\ completedAt' = CASE status # new /\ new = "COMPLETED" -> "set"
                            [] status = "COMPLETED" /\ new = "IN_PROGRESS" -> "null"
                            [] OTHER -> completedAt
        /\ closedAt' = CASE status # new /\ new = "CLOSED" -> "set"
                         [] status = "COMPLETED" /\ new = "IN_PROGRESS" -> "null"
                         [] OTHER -> closedAt
    BY <1>1 DEF ExecuteTransition, ApplyStatus, Synchronize
  <1>6. StampsFollowStatus'
    BY <1>3, <1>5 DEF IInv, StampsFollowStatus
  <1>7. InstanceMirrorsRequest'
    BY <1>5, <1>6 DEF InstanceMirrorsRequest, StampsFollowStatus
  <1>8. AssignmentsFitScope'
    BY <1>1, <1>2, <1>5 DEF IInv, AssignmentsFitScope, RequestStatus
  <1>9. AbandonedIsCancelled'
    BY <1>1, <1>5 DEF IInv, AbandonedIsCancelled
  <1>10. QED
    BY <1>4, <1>6, <1>7, <1>8, <1>9 DEF IInv

\* A contractor's report on some existing assignments.
LEMMA ReportingKeeps ==
  ASSUME IInv, NEW W \in SUBSET WorkType, W # {}, W \subseteq Existing(assignment),
         NEW new \in AssignmentStatus, AssignmentsBecome(W, new)
  PROVE  IInv'
  <1> DEFINE a == [w \in WorkType |-> IF w \in W THEN new ELSE assignment[w]]
             s == Recalculated(status, workTypes, a)
  <1>1. /\ assignment' = a /\ status' = s
        /\ completedAt' = IF AllDone(workTypes, a) THEN "set" ELSE completedAt
        /\ RecordAfterChange(s)
        /\ UNCHANGED <<workTypes, contractorOf, closedAt, workResults, responsibility>>
    BY DEF AssignmentsBecome
  <1>2. status \in RequestStatus \ {"DRAFT", "NEW"}
    BY ReportsArePublished DEF Existing
  <1>3. TypeOK'
    BY <1>2, ReportingTyped DEF IInv
  <1>4. Existing(a) = Existing(assignment)
    BY DEF Existing, IInv, TypeOK, AssignmentStatus, NoAssignment
  <1>5. s \in {"CANCELLED", "COMPLETED", "IN_PROGRESS", "ASSIGNED", "PARTIALLY_ASSIGNED", status}
    BY RecalculatedRange
  <1>6. s = "COMPLETED" => completedAt' = "set"
    <2>1. CASE status = "COMPLETED"
      BY <1>1, <2>1 DEF IInv, StampsFollowStatus
    <2>2. CASE status # "COMPLETED"
      <3>1. s = "COMPLETED" => AllDone(workTypes, a)
        BY <2>2 DEF Recalculated
      <3>2. QED
        BY <1>1, <3>1
    <2>3. QED
      BY <2>1, <2>2
  <1>7. AllCancelled(a) => s = "CANCELLED"
    BY RecalculatedCancels
  <1> HIDE DEF s, a
  <1>8. StampsFollowStatus'
    BY <1>1, <1>2, <1>5, <1>6 DEF IInv, StampsFollowStatus
  <1>9. InstanceMirrorsRequest'
    <2>1. CASE ~Coded(status, s) /\ Synchronize(s, completedAt')
      BY <1>1, <1>8, <2>1 DEF Synchronize, InstanceMirrorsRequest, StampsFollowStatus
    <2>2. CASE /\ Coded(status, s)
               /\ CanExecute(instState, status, s, ContractorPermissions)
               /\ instState' = s
               /\ instCompletedAt' = IF s \in {"COMPLETED", "CLOSED"} THEN "set" ELSE instCompletedAt
               /\ instCancelledAt' = IF s = "CANCELLED" THEN "set" ELSE instCancelledAt
      <3>1. s \in RequestStatus
        BY <1>2, <1>5 DEF RequestStatus
      <3>2. status \in {"NEW", "PARTIALLY_ASSIGNED", "ASSIGNED", "IN_PROGRESS"}
        BY <1>2, <2>2, <3>1, ContractorsTransitions
      <3>3. QED
        BY <1>1, <2>2, <3>2 DEF IInv, InstanceMirrorsRequest, TypeOK, Stamp
    <2>3. QED
      BY <1>1, <2>1, <2>2 DEF RecordAfterChange
  <1>10. AssignmentsFitScope'
    BY <1>1, <1>2, <1>4, <1>5 DEF IInv, AssignmentsFitScope
  <1>11. AbandonedIsCancelled'
    BY <1>1, <1>7 DEF AbandonedIsCancelled
  <1>12. QED
    BY <1>3, <1>8, <1>9, <1>10, <1>11 DEF IInv

THEOREM NextKeeps == IInv /\ [Next]_vars => IInv'
  <1> SUFFICES ASSUME IInv, [Next]_vars
               PROVE  IInv'
    OBVIOUS
  <1>1. ASSUME NEW permissions \in OfficeProfiles, NEW W \in SUBSET WorkType,
               CreateDraft(W, permissions)
        PROVE  IInv'
    <2>1. /\ status = "ABSENT" /\ status' = "DRAFT" /\ instState' = "DRAFT" /\ workTypes' = W
          /\ UNCHANGED <<assignment, contractorOf, completedAt, closedAt, workResults,
                         instCompletedAt, instCancelledAt, timelineEnd, responsibility>>
      BY <1>1 DEF CreateDraft
    <2>2. Existing(assignment) = {}
      BY <2>1 DEF IInv, AssignmentsFitScope
    <2>3. TypeOK'
      BY <2>1 DEF IInv, TypeOK, RequestStatus
    <2>4. InstanceMirrorsRequest' /\ StampsFollowStatus'
      BY <2>1 DEF IInv, InstanceMirrorsRequest, StampsFollowStatus
    <2>5. AssignmentsFitScope' /\ AbandonedIsCancelled'
      BY <2>1, <2>2 DEF AssignmentsFitScope, AbandonedIsCancelled, AllCancelled
    <2>6. QED
      BY <2>3, <2>4, <2>5 DEF IInv
  <1>2. ASSUME NEW permissions \in OfficeProfiles, NEW W \in SUBSET WorkType,
               CreatePublished(W, permissions)
        PROVE  IInv'
    <2>1. Existing(assignment) = {}
      BY <1>2 DEF CreatePublished, IInv, AssignmentsFitScope
    <2>2. ~AllCancelled(assignment)
      BY <2>1 DEF AllCancelled
    <2>3. "DRAFT" \in RequestStatus
      BY DEF RequestStatus
    <2>4. QED
      BY <1>2, <2>1, <2>2, <2>3, PublishingKeeps DEF CreatePublished
  <1>3. ASSUME NEW permissions \in OfficeProfiles, NEW W \in SUBSET WorkType,
               UpdateWorkTypes(W, permissions)
        PROVE  IInv'
    <2>1. /\ status = "DRAFT" /\ workTypes' = W /\ assignment' = NothingAssigned
          /\ contractorOf' = [w \in WorkType |-> NoContractor] /\ workResults' = {}
          /\ UNCHANGED <<status, completedAt, closedAt, instanceVars, responsibility>>
      BY <1>3 DEF UpdateWorkTypes
    <2>2. Existing(assignment') = {}
      BY <2>1 DEF Existing, NothingAssigned
    <2>3. TypeOK'
      BY <2>1 DEF IInv, TypeOK, NothingAssigned, instanceVars
    <2>4. InstanceMirrorsRequest' /\ StampsFollowStatus'
      BY <2>1 DEF IInv, InstanceMirrorsRequest, StampsFollowStatus, instanceVars
    <2>5. AssignmentsFitScope' /\ AbandonedIsCancelled'
      BY <2>2 DEF AssignmentsFitScope, AbandonedIsCancelled, AllCancelled
    <2>6. QED
      BY <2>3, <2>4, <2>5 DEF IInv
  <1>4. ASSUME NEW permissions \in OfficeProfiles, Publish(permissions)
        PROVE  IInv'
    <2>1. status \in RequestStatus /\ status # "CANCELLED"
      BY <1>4 DEF Publish, IInv, TypeOK
    <2>2. ~AllCancelled(assignment)
      BY <2>1 DEF IInv, AbandonedIsCancelled
    <2>3. workTypes \in SUBSET WorkType /\ Existing(assignment) \subseteq workTypes
      BY DEF IInv, TypeOK, AssignmentsFitScope
    <2>4. QED
      BY <1>4, <2>1, <2>2, <2>3, PublishingKeeps DEF Publish
  <1>5. ASSUME NEW permissions \in OfficeProfiles, NEW new \in RequestStatus,
               ChangeStatus(new, permissions)
        PROVE  IInv'
    BY <1>5, ChangingStatusKeeps
  <1>6. ASSUME NEW contractors \in SUBSET Contractor, AcceptRequest(contractors)
        PROVE  IInv'
    <2> DEFINE own == {w \in WorkType : /\ assignment[w] = "ASSIGNED"
                                        /\ contractorOf[w] \in contractors}
    <2>1. own # {} /\ AssignmentsBecome(own, "ACCEPTED")
      BY <1>6 DEF AcceptRequest
    <2>2. own \in SUBSET WorkType /\ own \subseteq Existing(assignment)
      BY DEF Existing, IInv, TypeOK, NoAssignment
    <2>3. "ACCEPTED" \in AssignmentStatus
      BY DEF AssignmentStatus
    <2> HIDE DEF own
    <2>4. QED
      BY <2>1, <2>2, <2>3, ReportingKeeps
  <1>7. ASSUME NEW contractors \in SUBSET Contractor, NEW w \in WorkType,
               NEW new \in AssignmentStatus, ReportAssignment(contractors, w, new)
        PROVE  IInv'
    <2>1. {w} \in SUBSET WorkType /\ {w} # {} /\ {w} \subseteq Existing(assignment)
      BY <1>7 DEF ReportAssignment, Existing, IInv, TypeOK
    <2>2. AssignmentsBecome({w}, new)
      BY <1>7 DEF ReportAssignment
    <2>3. QED
      BY <2>1, <2>2, ReportingKeeps
  <1>8. ASSUME NEW w \in WorkType,
               \/ UploadWorkResult(w) \/ DeleteWorkResult(w)
               \/ \E c \in Contractor \cup {NoContractor} : SetResponsibility(w, c)
        PROVE  IInv'
    <2>1. /\ UNCHANGED <<requestVars, instanceVars>>
          /\ workResults' \in SUBSET WorkType
          /\ responsibility' \in [WorkType -> Contractor \cup {NoContractor}]
      BY <1>8 DEF UploadWorkResult, DeleteWorkResult, SetResponsibility, requestVars,
                  instanceVars, IInv, TypeOK
    <2>2. TypeOK'
      BY <2>1 DEF IInv, TypeOK, requestVars, instanceVars
    <2>3. QED
      BY <2>1, <2>2 DEF IInv, InstanceMirrorsRequest, StampsFollowStatus, AssignmentsFitScope,
                        AbandonedIsCancelled, requestVars, instanceVars
  <1>9. CASE UNCHANGED vars
    BY <1>9 DEF vars, requestVars, instanceVars, IInv, TypeOK, InstanceMirrorsRequest,
                StampsFollowStatus, AssignmentsFitScope, AbandonedIsCancelled
  <1>10. QED
    BY <1>1, <1>2, <1>3, <1>4, <1>5, <1>6, <1>7, <1>8, <1>9
       DEF Next, OfficeNext, ContractorNext, DataNext

\* The inductive invariant holds in every behaviour.
THEOREM Invariance == Spec => []IInv
  BY InitKeeps, NextKeeps, PTL DEF Spec

-----------------------------------------------------------------------------
(* The invariants of the module, for every instance.                         *)

\* Every variable keeps to the values its column or row can hold.
THEOREM TypeCorrect == Spec => []TypeOK
  <1>1. IInv => TypeOK
    BY DEF IInv
  <1>2. QED
    BY <1>1, Invariance, PTL

\* The workflow instance never disagrees with its request after a handler: every
\* way of writing the request also brings the instance along.
THEOREM InstanceAlwaysMirrors == Spec => []InstanceMirrorsRequest
  <1>1. IInv => InstanceMirrorsRequest
    BY DEF IInv
  <1>2. QED
    BY <1>1, Invariance, PTL

\* The stamps of completion and closing are never missing where the status
\* promises them, through any sequence of reopenings, republications and reports.
THEOREM StampsAlwaysFollow == Spec => []StampsFollowStatus
  <1>1. IInv => StampsFollowStatus
    BY DEF IInv
  <1>2. QED
    BY <1>1, Invariance, PTL

\* Assignments exist only for the published scope of the request.
THEOREM AssignmentsAlwaysFit == Spec => []AssignmentsFitScope
  <1>1. IInv => AssignmentsFitScope
    BY DEF IInv
  <1>2. QED
    BY <1>1, Invariance, PTL

\* A request that every contractor has turned down is cancelled.
THEOREM AbandonedAlwaysCancelled == Spec => []AbandonedIsCancelled
  <1>1. IInv => AbandonedIsCancelled
    BY DEF IInv
  <1>2. QED
    BY <1>1, Invariance, PTL

-----------------------------------------------------------------------------
(* What a step may never do.                                                 *)

\* A legal report on the assignments of W.
LegalReport(W, new) ==
  /\ W # {} /\ W \subseteq Existing(assignment)
  /\ \A w \in W : new \in ASSIGNMENT_STATUS_TRANSITIONS[assignment[w]]
  /\ AssignmentsBecome(W, new)

\* What a step can be, as far as the request and its instance are concerned.
LEMMA StepKinds ==
  ASSUME IInv, [Next]_vars
  PROVE  \/ \E permissions \in OfficeProfiles, W \in SUBSET WorkType :
              \/ CreateDraft(W, permissions)
              \/ CreatePublished(W, permissions)
              \/ UpdateWorkTypes(W, permissions)
         \/ \E permissions \in OfficeProfiles : Publish(permissions)
         \/ \E permissions \in OfficeProfiles, new \in RequestStatus :
              ChangeStatus(new, permissions)
         \/ \E W \in SUBSET WorkType, new \in AssignmentStatus : LegalReport(W, new)
         \/ UNCHANGED <<requestVars, instanceVars>>
  <1>1. ASSUME NEW contractors \in SUBSET Contractor, AcceptRequest(contractors)
        PROVE  \E W \in SUBSET WorkType, new \in AssignmentStatus : LegalReport(W, new)
    <2> DEFINE own == {w \in WorkType : /\ assignment[w] = "ASSIGNED"
                                        /\ contractorOf[w] \in contractors}
    <2>1. own \subseteq Existing(assignment) /\ own \in SUBSET WorkType
      BY DEF Existing, IInv, TypeOK, NoAssignment
    <2>2. \A w \in own : "ACCEPTED" \in ASSIGNMENT_STATUS_TRANSITIONS[assignment[w]]
      BY DEF ASSIGNMENT_STATUS_TRANSITIONS, AssignmentStatus
    <2>3. LegalReport(own, "ACCEPTED")
      BY <1>1, <2>1, <2>2 DEF AcceptRequest, LegalReport
    <2>4. "ACCEPTED" \in AssignmentStatus
      BY DEF AssignmentStatus
    <2> HIDE DEF own
    <2>5. QED
      BY <2>1, <2>3, <2>4
  <1>2. ASSUME NEW contractors \in SUBSET Contractor, NEW w \in WorkType,
               NEW new \in AssignmentStatus, ReportAssignment(contractors, w, new)
        PROVE  \E W \in SUBSET WorkType, n \in AssignmentStatus : LegalReport(W, n)
    <2>1. LegalReport({w}, new)
      BY <1>2 DEF ReportAssignment, LegalReport, Existing, IInv, TypeOK
    <2>2. QED
      BY <2>1
  <1>3. ASSUME NEW w \in WorkType,
               \/ UploadWorkResult(w) \/ DeleteWorkResult(w)
               \/ \E c \in Contractor \cup {NoContractor} : SetResponsibility(w, c)
        PROVE  UNCHANGED <<requestVars, instanceVars>>
    BY <1>3 DEF UploadWorkResult, DeleteWorkResult, SetResponsibility
  <1>4. CASE UNCHANGED vars
    BY <1>4 DEF vars
  <1>5. QED
    BY <1>1, <1>2, <1>3, <1>4 DEF Next, OfficeNext, ContractorNext, DataNext

\* Publishing leaves the existing assignments and their contractors alone.
LEMMA PublishingExtends ==
  ASSUME IInv, NEW old, NEW state, NEW W, NEW permissions,
         PublishFrom(old, state, W, permissions), NEW w \in Existing(assignment)
  PROVE  assignment'[w] = assignment[w] /\ contractorOf'[w] = contractorOf[w]
  <1>1. w \in WorkType /\ w \notin Uncovered(W, assignment)
    BY DEF Existing, Uncovered, IInv, TypeOK
  <1>2. QED
    BY <1>1 DEF PublishFrom

\* Only a contractor's report changes an existing assignment.
LEMMA OnlyReportsReport ==
  ASSUME IInv, [Next]_vars, Reports
  PROVE  \E W \in SUBSET WorkType, new \in AssignmentStatus : LegalReport(W, new)
  <1>1. PICK w \in Existing(assignment) : assignment'[w] # assignment[w]
    BY DEF Reports
  <1>2. status \notin {"ABSENT", "DRAFT"}
    BY DEF IInv, AssignmentsFitScope, Reports
  <1>3. ASSUME NEW permissions, Publish(permissions) PROVE FALSE
    BY <1>1, <1>3, PublishingExtends DEF Publish
  <1>4. ASSUME NEW permissions, NEW new, ChangeStatus(new, permissions) PROVE FALSE
    BY <1>1, <1>4 DEF ChangeStatus
  <1>5. ASSUME UNCHANGED <<requestVars, instanceVars>> PROVE FALSE
    BY <1>1, <1>5 DEF requestVars
  <1>6. QED
    BY <1>2, <1>3, <1>4, <1>5, StepKinds DEF CreateDraft, CreatePublished, UpdateWorkTypes

\* A report completes the request exactly when it leaves every work type done.
THEOREM CompletionAlwaysEarned == Spec => CompletionIsEarned
  <1>1. ASSUME IInv, [Next]_vars, Reports, status # "COMPLETED"
        PROVE  status' = "COMPLETED" <=> \A w \in workTypes : assignment'[w] = "COMPLETED"
    <2>1. PICK W \in SUBSET WorkType, new \in AssignmentStatus : LegalReport(W, new)
      BY <1>1, OnlyReportsReport
    <2> DEFINE a == [w \in WorkType |-> IF w \in W THEN new ELSE assignment[w]]
    <2>2. assignment' = a /\ status' = Recalculated(status, workTypes, a)
      BY <2>1 DEF LegalReport, AssignmentsBecome
    <2>3. Existing(a) = Existing(assignment)
      BY <1>1, <2>1 DEF LegalReport, Existing, IInv, TypeOK, AssignmentStatus, NoAssignment
    <2>4. Existing(a) # {} /\ Existing(a) \subseteq workTypes
      BY <1>1, <2>1, <2>3 DEF LegalReport, IInv, AssignmentsFitScope
    <2>5. workTypes \subseteq DOMAIN a
      BY <1>1 DEF IInv, TypeOK
    <2> HIDE DEF a
    <2>6. QED
      BY <1>1, <2>2, <2>4, <2>5, RecalculatedCompletes
  <1>2. QED
    BY <1>1, Invariance, PTL DEF Spec, CompletionIsEarned

\* A report takes a completion back only where it leaves a work type to nobody, and
\* it closes nothing.
THEOREM ReportsOnlyReopenGaps == Spec => ReportsReopenOnlyGaps
  <1>1. ASSUME IInv, [Next]_vars, Reports
        PROVE  /\ status = "COMPLETED" /\ status' # "COMPLETED" =>
                    /\ status' \in {"PARTIALLY_ASSIGNED", "CANCELLED"}
                    /\ Unassigned(workTypes, assignment') # {}
               /\ status' = "CLOSED" => status = "CLOSED"
    <2>1. PICK W \in SUBSET WorkType, new \in AssignmentStatus : LegalReport(W, new)
      BY <1>1, OnlyReportsReport
    <2> DEFINE a == [w \in WorkType |-> IF w \in W THEN new ELSE assignment[w]]
    <2>2. /\ assignment' = a
          /\ status' = Recalculated(status, workTypes, a) /\ RecordAfterChange(status')
      BY <2>1 DEF LegalReport, AssignmentsBecome
    <2>3. status' = "CLOSED" => status = "CLOSED"
      BY <2>2, RecalculatedRange
    <2>4. PICK w \in W : w \in workTypes /\ a[w] = new /\ a[w] # "ASSIGNED"
      <3>1. PICK w \in W : /\ w \in Existing(assignment)
                           /\ new \in ASSIGNMENT_STATUS_TRANSITIONS[assignment[w]]
        BY <2>1 DEF LegalReport
      <3>2. assignment[w] \in AssignmentStatus
        BY <1>1, <3>1 DEF Existing, IInv, TypeOK
      <3>3. new # "ASSIGNED"
        BY <3>1, <3>2 DEF ASSIGNMENT_STATUS_TRANSITIONS, AssignmentStatus
      <3>4. w \in workTypes
        BY <1>1, <3>1 DEF IInv, AssignmentsFitScope
      <3>5. QED
        BY <3>1, <3>3, <3>4
    <2>5. Existing(a) = Existing(assignment) /\ Existing(a) \subseteq workTypes
      BY <1>1, <2>1 DEF LegalReport, Existing, IInv, AssignmentsFitScope, TypeOK,
                        AssignmentStatus, NoAssignment
    <2> HIDE DEF a
    <2>6. ASSUME status = "COMPLETED", status' # "COMPLETED"
          PROVE  /\ status' \in {"PARTIALLY_ASSIGNED", "CANCELLED"}
                 /\ Unassigned(workTypes, a) # {}
      <3>1. status' # "IN_PROGRESS"
        <4>1. SUFFICES ASSUME status' = "IN_PROGRESS" PROVE FALSE
          OBVIOUS
        <4>2. status \in RequestStatus /\ status' \in RequestStatus /\ Coded(status, status')
          BY <2>6, <4>1 DEF RequestStatus, Coded, REQUEST_TRANSITION_CODES
        <4>3. CanExecute(instState, status, status', ContractorPermissions)
          BY <2>2, <4>2 DEF RecordAfterChange
        <4>4. QED
          BY <2>6, <4>2, <4>3, ContractorsTransitions
      <3>2. status' # "ASSIGNED"
        <4>1. status' = "ASSIGNED" => /\ Unassigned(workTypes, a) = {}
                                      /\ \A v \in Active(a) : a[v] = "ASSIGNED"
          BY <2>2, <2>6 DEF Recalculated
        <4>2. Unassigned(workTypes, a) = {} => w \in Active(a)
          BY <2>4 DEF Unassigned
        <4>3. QED
          BY <2>4, <4>1, <4>2
      <3>3. status' \in {"PARTIALLY_ASSIGNED", "CANCELLED"}
        BY <2>2, <2>6, <3>1, <3>2, RecalculatedRange
      <3>4. status' = "PARTIALLY_ASSIGNED" => Unassigned(workTypes, a) # {}
        BY <2>2, <2>6 DEF Recalculated
      <3>5. status' = "CANCELLED" => Unassigned(workTypes, a) # {}
        <4>1. status' = "CANCELLED" => AllCancelled(a)
          BY <2>2, <2>6, RecalculatedCancels
        <4>2. AllCancelled(a) => w \in Unassigned(workTypes, a)
          BY <2>4 DEF AllCancelled, Active, Unassigned
        <4>3. QED
          BY <4>1, <4>2
      <3>6. QED
        BY <3>3, <3>4, <3>5
    <2>7. QED
      BY <2>2, <2>3, <2>6
  <1>2. QED
    BY <1>1, Invariance, PTL DEF Spec, ReportsReopenOnlyGaps

\* Nothing happens to a request that every contractor has turned down.
THEOREM AbandonedStaysFrozen == Spec => AbandonedIsFrozen
  <1>1. ASSUME IInv, [Next]_vars, AllCancelled(assignment)
        PROVE  UNCHANGED <<requestVars, instanceVars>>
    <2>1. status = "CANCELLED"
      BY <1>1 DEF IInv, AbandonedIsCancelled
    <2>2. ASSUME NEW W \in SUBSET WorkType, NEW new \in AssignmentStatus, LegalReport(W, new)
          PROVE  FALSE
      <3>1. PICK w \in W : w \in Existing(assignment)
        BY <2>2 DEF LegalReport
      <3>2. assignment[w] = "CANCELLED"
        BY <1>1, <3>1 DEF AllCancelled, Active
      <3>3. QED
        BY <2>2, <3>2, TransitionsStayInside DEF LegalReport
    <2>3. ASSUME NEW permissions, NEW new, ChangeStatus(new, permissions) PROVE FALSE
      BY <2>1, <2>3, TransitionsStayInside DEF ChangeStatus
    <2>4. QED
      BY <1>1, <2>1, <2>2, <2>3, StepKinds DEF CreateDraft, CreatePublished, UpdateWorkTypes,
                                               Publish
  <1>2. QED
    BY <1>1, Invariance, PTL DEF Spec, AbandonedIsFrozen

\* Once published, an assignment keeps its contractor and its end.
THEOREM AssignmentsAlwaysKept == Spec => AssignmentsAreKept
  <1>1. ASSUME IInv, [Next]_vars, status \notin {"ABSENT", "DRAFT"},
               NEW w \in Existing(assignment)
        PROVE  /\ assignment'[w] # NoAssignment
               /\ contractorOf'[w] = contractorOf[w]
               /\ assignment[w] \in {"COMPLETED", "CANCELLED"} => assignment'[w] = assignment[w]
    <2>1. w \in WorkType /\ assignment[w] \in AssignmentStatus /\ assignment[w] # NoAssignment
      BY <1>1 DEF Existing, IInv, TypeOK
    <2>2. ASSUME NEW permissions, Publish(permissions)
          PROVE  assignment'[w] = assignment[w] /\ contractorOf'[w] = contractorOf[w]
      BY <1>1, <2>2, PublishingExtends DEF Publish
    <2>3. ASSUME NEW permissions, NEW new, ChangeStatus(new, permissions)
          PROVE  assignment'[w] = assignment[w] /\ contractorOf'[w] = contractorOf[w]
      BY <2>3 DEF ChangeStatus
    <2>4. ASSUME NEW W \in SUBSET WorkType, NEW new \in AssignmentStatus, LegalReport(W, new)
          PROVE  /\ assignment'[w] # NoAssignment
                 /\ contractorOf'[w] = contractorOf[w]
                 /\ assignment[w] \in {"COMPLETED", "CANCELLED"} => assignment'[w] = assignment[w]
      <3>1. contractorOf' = contractorOf
        BY <2>4 DEF LegalReport, AssignmentsBecome
      <3>2. assignment'[w] = IF w \in W THEN new ELSE assignment[w]
        BY <2>1, <2>4 DEF LegalReport, AssignmentsBecome
      <3>3. w \in W => assignment[w] \notin {"COMPLETED", "CANCELLED"}
        BY <2>4, TransitionsStayInside DEF LegalReport
      <3>4. QED
        BY <2>1, <3>1, <3>2, <3>3 DEF AssignmentStatus, NoAssignment
    <2>5. CASE UNCHANGED <<requestVars, instanceVars>>
      BY <2>1, <2>5 DEF requestVars
    <2>6. QED
      BY <1>1, <2>1, <2>2, <2>3, <2>4, <2>5, StepKinds
         DEF CreateDraft, CreatePublished, UpdateWorkTypes
  <1>2. IInv /\ [Next]_vars =>
          [status \notin {"ABSENT", "DRAFT"} =>
             \A w \in Existing(assignment) :
               /\ assignment'[w] # NoAssignment
               /\ contractorOf'[w] = contractorOf[w]
               /\ assignment[w] \in {"COMPLETED", "CANCELLED"} => assignment'[w] = assignment[w]]_vars
    BY <1>1
  <1>3. QED
    BY <1>2, Invariance, PTL DEF Spec, AssignmentsAreKept

\* Every change of status that has a code leaves its row in the timeline.
THEOREM CodedChangesAlwaysRecorded == Spec => CodedChangesAreRecorded
  <1>1. ASSUME IInv, [Next]_vars, Coded(status, status')
        PROVE  timelineEnd' = status'
    <2>1. status # "ABSENT" /\ status' # status
      BY <1>1 DEF Coded, REQUEST_TRANSITION_CODES
    <2>2. ASSUME NEW permissions, NEW old, NEW new, NEW state,
                 ExecuteTransition(old, new, state, permissions), old = status
          PROVE  timelineEnd' = status'
      <3>1. status' = new
        BY <2>2 DEF ExecuteTransition, ApplyStatus
      <3>2. QED
        BY <1>1, <2>2, <3>1 DEF ExecuteTransition
    <2>3. ASSUME NEW permissions, Publish(permissions) PROVE timelineEnd' = status'
      BY <2>2, <2>3 DEF Publish, PublishFrom
    <2>4. ASSUME NEW permissions, NEW new, ChangeStatus(new, permissions)
          PROVE  timelineEnd' = status'
      BY <2>2, <2>4 DEF ChangeStatus
    <2>5. ASSUME NEW W \in SUBSET WorkType, NEW new \in AssignmentStatus, LegalReport(W, new)
          PROVE  timelineEnd' = status'
      <3>1. RecordAfterChange(status')
        BY <2>5 DEF LegalReport, AssignmentsBecome
      <3>2. QED
        BY <1>1, <3>1 DEF RecordAfterChange
    <2>6. QED
      BY <1>1, <2>1, <2>3, <2>4, <2>5, StepKinds
         DEF CreateDraft, CreatePublished, UpdateWorkTypes, requestVars
  <1>2. QED
    BY <1>1, Invariance, PTL DEF Spec, CodedChangesAreRecorded
=============================================================================
