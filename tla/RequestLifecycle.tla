-------------------------- MODULE RequestLifecycle --------------------------
(***************************************************************************)
(* One contractor request from its creation to its end, with the workflow  *)
(* instance that mirrors it.  Each action is one HTTP handler, run alone   *)
(* and committed as one database transaction: a handler that raises rolls  *)
(* everything back, so a rejected call is no step at all and the guards    *)
(* below are the conditions under which the handler commits.  What happens *)
(* when handlers overlap is the subject of module RequestConcurrency.      *)
(*                                                                         *)
(* Office staff act with a permission set of OfficeProfiles; a contractor  *)
(* user acts for a set of contractors, the user's active memberships.      *)
(***************************************************************************)
EXTENDS RequestRules

CONSTANTS
  WorkType,          \* work types a request can ask for
  Contractor,        \* contractor companies
  NoContractor,      \* stands for "no responsible contractor"
  OfficeProfiles,    \* permission sets that office users hold
  RequireWorkResult  \* settings.require_work_result_for_completion

ASSUME NoContractorAssumption == NoContractor \notin Contractor
ASSUME ProfilesAssumption == OfficeProfiles \subseteq SUBSET OfficePermission
ASSUME SettingsAssumption == RequireWorkResult \in BOOLEAN

VARIABLES
  status,           \* contractor_requests.status, "ABSENT" before creation
  workTypes,        \* the request's work types
  assignment,       \* status of each work type's assignment, or NoAssignment
  contractorOf,     \* contractor of each work type's assignment
  workResults,      \* work types whose assignment has an active WORK_RESULT
  completedAt,      \* contractor_requests.completed_at: "null" or "set"
  closedAt,         \* contractor_requests.closed_at
  instState,        \* workflow_instances.current_state, by state code
  instCompletedAt,  \* workflow_instances.completed_at
  instCancelledAt,  \* workflow_instances.cancelled_at
  timelineEnd,      \* to_state of the latest transition execution, or "NONE"
  responsibility    \* the contractor find_contractor_for_work_type returns

requestVars  == <<status, workTypes, assignment, contractorOf, completedAt, closedAt>>
instanceVars == <<instState, instCompletedAt, instCancelledAt, timelineEnd>>
vars == <<requestVars, workResults, instanceVars, responsibility>>

Stamp == {"null", "set"}

TypeOK ==
  /\ status \in RequestStatus \cup {"ABSENT"}
  /\ workTypes \in SUBSET WorkType
  /\ assignment \in [WorkType -> AssignmentStatus \cup {NoAssignment}]
  /\ contractorOf \in [WorkType -> Contractor \cup {NoContractor}]
  /\ workResults \in SUBSET WorkType
  /\ completedAt \in Stamp /\ closedAt \in Stamp
  /\ instState \in RequestStatus \cup {"ABSENT"}
  /\ instCompletedAt \in Stamp /\ instCancelledAt \in Stamp
  /\ timelineEnd \in RequestStatus \cup {"NONE"}
  /\ responsibility \in [WorkType -> Contractor \cup {NoContractor}]

NothingAssigned == [w \in WorkType |-> NoAssignment]

Init ==
  /\ status = "ABSENT"
  /\ workTypes = {}
  /\ assignment = NothingAssigned
  /\ contractorOf = [w \in WorkType |-> NoContractor]
  /\ workResults = {}
  /\ completedAt = "null" /\ closedAt = "null"
  /\ instState = "ABSENT"
  /\ instCompletedAt = "null" /\ instCancelledAt = "null"
  /\ timelineEnd = "NONE"
  /\ responsibility \in [WorkType -> Contractor \cup {NoContractor}]

-----------------------------------------------------------------------------
(* Writing the request and its workflow instance.                            *)

\* Copying the state but leaving the stamps of an earlier completion behind.
Synchronize_StateOnly(new, completed) ==
  /\ instState' = new
  /\ UNCHANGED <<instCompletedAt, instCancelledAt>>

\* synchronize_instance_from_request, for a request that has become new with
\* completed_at = completed.  updated_at, copied to cancelled_at, is never null.
Synchronize(new, completed) ==
  /\ instState' = new
  /\ instCompletedAt' = IF new \in {"COMPLETED", "CLOSED"} THEN completed ELSE "null"
  /\ instCancelledAt' = IF new = "CANCELLED" THEN "set" ELSE "null"

\* apply_request_status
ApplyStatus(old, new) ==
  /\ status' = new
  /\ completedAt' = CASE old # new /\ new = "COMPLETED" -> "set"
                      [] old = "COMPLETED" /\ new = "IN_PROGRESS" -> "null"
                      [] OTHER -> completedAt
  /\ closedAt' = CASE old # new /\ new = "CLOSED" -> "set"
                   [] old = "COMPLETED" /\ new = "IN_PROGRESS" -> "null"
                   [] OTHER -> closedAt

\* execute_request_status_transition followed by the synchronization that both
\* of its callers do: the office moves the request from old to new while the
\* instance is in state.  A pair with a transition code goes through the
\* workflow engine, which checks the actor and adds a timeline row; any other
\* pair is applied as it is.  The synchronization overwrites the stamps the
\* engine sets.
ExecuteTransition(old, new, state, permissions) ==
  /\ \/ /\ Coded(old, new)
        /\ OfficeCanSee(permissions)
        /\ CanExecute(state, old, new, permissions)
        /\ timelineEnd' = new
     \/ /\ ~Coded(old, new)
        /\ UNCHANGED timelineEnd
  /\ ApplyStatus(old, new)
  /\ Synchronize(new, completedAt')

\* The state is always copied, the timeline never written.
RecordAfterChange_NoTimeline(new) ==
  /\ Coded(status, new) => CanExecute(instState, status, new, ContractorPermissions)
  /\ UNCHANGED timelineEnd
  /\ Synchronize(new, completedAt')

\* record_request_status_transition_after_change: a contractor's report has
\* already changed the request to new, the engine now records it or refuses.
RecordAfterChange(new) ==
  \/ /\ Coded(status, new)
     /\ CanExecute(instState, status, new, ContractorPermissions)
     /\ timelineEnd' = new
     /\ instState' = new
     /\ instCompletedAt' = IF new \in {"COMPLETED", "CLOSED"} THEN "set" ELSE instCompletedAt
     /\ instCancelledAt' = IF new = "CANCELLED" THEN "set" ELSE instCancelledAt
  \/ /\ ~Coded(status, new)
     /\ UNCHANGED timelineEnd
     /\ Synchronize(new, completedAt')

-----------------------------------------------------------------------------
(* The office.                                                               *)

\* The work types create_assignments_for_request assigns: those without any
\* assignment, a cancelled one included, for which a contractor is responsible.
Uncovered(W, a) == {w \in W \ Existing(a) : responsibility[w] # NoContractor}

\* publish_contractor_request on a request of status old with the work types W
\* and no final status.
PublishFrom(old, state, W, permissions) ==
  LET given == Uncovered(W, assignment)
      a     == [w \in WorkType |-> IF w \in given THEN "ASSIGNED" ELSE assignment[w]]
  IN  /\ W # {}
      /\ assignment' = a
      /\ contractorOf' = [w \in WorkType |-> IF w \in given THEN responsibility[w]
                                             ELSE contractorOf[w]]
      /\ ExecuteTransition(old, StatusAfterPublish(W, a), state, permissions)

\* POST /requests with save_as_draft: work types may still be missing.
CreateDraft(W, permissions) ==
  /\ status = "ABSENT"
  /\ "requests.create" \in permissions
  /\ status' = "DRAFT"
  /\ workTypes' = W
  /\ instState' = "DRAFT"
  /\ UNCHANGED <<assignment, contractorOf, completedAt, closedAt, workResults,
                 instCompletedAt, instCancelledAt, timelineEnd, responsibility>>

\* POST /requests without it: the draft is published in the same transaction.
CreatePublished(W, permissions) ==
  /\ status = "ABSENT"
  /\ "requests.create" \in permissions
  /\ workTypes' = W
  /\ PublishFrom("DRAFT", "DRAFT", W, permissions)
  /\ UNCHANGED <<workResults, responsibility>>

\* A handler that edits the scope in any status but the final ones.
UpdateWorkTypes_AnyStatus(W, permissions) ==
  /\ status \notin {"ABSENT", "CLOSED", "CANCELLED"}
  /\ "requests.update" \in permissions
  /\ W # {}
  /\ workTypes' = W
  /\ assignment' = NothingAssigned
  /\ contractorOf' = [w \in WorkType |-> NoContractor]
  /\ workResults' = {}
  /\ UNCHANGED <<status, completedAt, closedAt, instanceVars, responsibility>>

\* PATCH /requests/{id} with work_type_ids: only a draft's scope can be edited,
\* and its assignments are cleared.  Patches of other fields touch no state
\* that this module keeps.
UpdateWorkTypes(W, permissions) ==
  /\ status = "DRAFT"
  /\ "requests.update" \in permissions
  /\ W # {}
  /\ workTypes' = W
  /\ assignment' = NothingAssigned
  /\ contractorOf' = [w \in WorkType |-> NoContractor]
  /\ workResults' = {}
  /\ UNCHANGED <<status, completedAt, closedAt, instanceVars, responsibility>>

\* Publishing, or publishing again, whatever the status.
Publish_AnyStatus(permissions) ==
  /\ status # "ABSENT"
  /\ "requests.publish" \in permissions
  /\ PublishFrom(status, instState, workTypes, permissions)
  /\ UNCHANGED <<workTypes, workResults, responsibility>>

\* POST /requests/{id}/publish, in every status but the two final ones.
Publish(permissions) ==
  /\ status \notin {"ABSENT", "CLOSED", "CANCELLED"}
  /\ "requests.publish" \in permissions
  /\ PublishFrom(status, instState, workTypes, permissions)
  /\ UNCHANGED <<workTypes, workResults, responsibility>>

\* POST /requests/{id}/status
ChangeStatus(new, permissions) ==
  /\ status # "ABSENT"
  /\ "requests.change_status" \in permissions
  /\ new = "CLOSED" => "requests.close" \in permissions
  /\ new \in REQUEST_STATUS_TRANSITIONS[status]
  /\ ExecuteTransition(status, new, instState, permissions)
  /\ UNCHANGED <<workTypes, assignment, contractorOf, workResults, responsibility>>

-----------------------------------------------------------------------------
(* Contractors.                                                              *)

\* A recalculation that does not stamp the request.
AssignmentsBecome_NoStamp(W, new) ==
  LET a == [w \in WorkType |-> IF w \in W THEN new ELSE assignment[w]]
      s == Recalculated(status, workTypes, a)
  IN  /\ assignment' = a
      /\ status' = s
      /\ UNCHANGED completedAt
      /\ RecordAfterChange(s)
      /\ UNCHANGED <<workTypes, contractorOf, closedAt, workResults, responsibility>>

\* change_assignment_status from the assignment's new status on, for the work
\* types W: the request's status is recalculated and recorded.
AssignmentsBecome(W, new) ==
  LET a == [w \in WorkType |-> IF w \in W THEN new ELSE assignment[w]]
      s == Recalculated(status, workTypes, a)
  IN  /\ assignment' = a
      /\ status' = s
      /\ completedAt' = IF AllDone(workTypes, a) THEN "set" ELSE completedAt
      /\ RecordAfterChange(s)
      /\ UNCHANGED <<workTypes, contractorOf, closedAt, workResults, responsibility>>

\* POST /contractor/requests/{id}/accept: every ASSIGNED assignment of the
\* user's contractors is accepted in one transaction.  From the second one on
\* the recalculated status is the IN_PROGRESS of the first, and only the
\* synchronization runs again, which finds nothing to change.
AcceptRequest(contractors) ==
  LET own == {w \in WorkType : /\ assignment[w] = "ASSIGNED"
                               /\ contractorOf[w] \in contractors}
  IN  /\ own # {}
      /\ AssignmentsBecome(own, "ACCEPTED")

\* POST /contractor/assignments/{id}/status
ReportAssignment(contractors, w, new) ==
  /\ assignment[w] # NoAssignment
  /\ contractorOf[w] \in contractors
  /\ new \in ASSIGNMENT_STATUS_TRANSITIONS[assignment[w]]
  /\ (new = "COMPLETED" /\ RequireWorkResult) => w \in workResults
  /\ AssignmentsBecome({w}, new)

\* A WORK_RESULT attachment is uploaded for an assignment.
UploadWorkResult(w) ==
  /\ assignment[w] # NoAssignment
  /\ workResults' = workResults \cup {w}
  /\ UNCHANGED <<requestVars, instanceVars, responsibility>>

\* The last active WORK_RESULT of an assignment is deleted.
DeleteWorkResult(w) ==
  /\ workResults' = workResults \ {w}
  /\ UNCHANGED <<requestVars, instanceVars, responsibility>>

\* The administrator edits responsibilities, so that the request's scope and the
\* work type now lead to contractor c or to none.
SetResponsibility(w, c) ==
  /\ responsibility' = [responsibility EXCEPT ![w] = c]
  /\ UNCHANGED <<requestVars, workResults, instanceVars>>

-----------------------------------------------------------------------------

OfficeNext ==
  \E permissions \in OfficeProfiles :
    \/ \E W \in SUBSET WorkType : \/ CreateDraft(W, permissions)
                                  \/ CreatePublished(W, permissions)
                                  \/ UpdateWorkTypes(W, permissions)
    \/ Publish(permissions)
    \/ \E new \in RequestStatus : ChangeStatus(new, permissions)

ContractorNext ==
  \E contractors \in SUBSET Contractor :
    \/ AcceptRequest(contractors)
    \/ \E w \in WorkType, new \in AssignmentStatus : ReportAssignment(contractors, w, new)

DataNext ==
  \E w \in WorkType :
    \/ UploadWorkResult(w)
    \/ DeleteWorkResult(w)
    \/ \E c \in Contractor \cup {NoContractor} : SetResponsibility(w, c)

Next == OfficeNext \/ ContractorNext \/ DataNext

Spec == Init /\ [][Next]_vars

-----------------------------------------------------------------------------
(* Safety.                                                                   *)

\* The workflow instance mirrors its request after every handler: the same
\* state, completed exactly when the request is completed or closed, cancelled
\* exactly when it is cancelled.  verify_request_workflow_consistency reports
\* "state_mismatch" otherwise, and the engine then refuses every transition.
InstanceMirrorsRequest ==
  /\ instState = status
  /\ instCompletedAt = "set" <=> status \in {"COMPLETED", "CLOSED"}
  /\ instCancelledAt = "set" <=> status = "CANCELLED"

\* A completed or closed request carries the stamp of its completion, a closed
\* one that of its closing, and no request was closed that was not completed,
\* however often it was reopened, published again or resumed by a contractor.
StampsFollowStatus ==
  /\ status \in {"COMPLETED", "CLOSED"} => completedAt = "set"
  /\ status = "CLOSED" => closedAt = "set"
  /\ closedAt = "set" => completedAt = "set"

\* Only published scopes have assignments: a request that is a draft or new has
\* none, and each assignment is for one of the request's work types.
AssignmentsFitScope ==
  /\ status \in {"ABSENT", "DRAFT", "NEW"} => Existing(assignment) = {}
  /\ Existing(assignment) \subseteq workTypes

\* A request all of whose contractors have backed out is cancelled, so that
\* nobody waits for work that will not be done.
AbandonedIsCancelled == AllCancelled(assignment) => status = "CANCELLED"

\* Some contractor's report on an existing assignment is being committed.
Reports == \E w \in Existing(assignment) : assignment'[w] # assignment[w]

\* A contractor's report completes a request only when every work type is done,
\* and then it always does: a cancelled or a missing assignment keeps the
\* request open.
CompletionIsEarned ==
  [][Reports /\ status # "COMPLETED" =>
       (status' = "COMPLETED" <=> \A w \in workTypes : assignment'[w] = "COMPLETED")]_vars

\* A report takes back a completion only while some work type is left to nobody: the
\* request is then partially assigned again, or cancelled when no contractor is left,
\* and a later report may resume it.  No report resumes a completed request at once,
\* which takes the office's permission to reopen, and none closes a request.
ReportsReopenOnlyGaps ==
  [][Reports =>
       /\ status = "COMPLETED" /\ status' # "COMPLETED" =>
            /\ status' \in {"PARTIALLY_ASSIGNED", "CANCELLED"}
            /\ Unassigned(workTypes, assignment') # {}
       /\ status' = "CLOSED" => status = "CLOSED"]_vars

\* Once every assignment is cancelled the request is at its end: no later call
\* of office or contractor changes the request, its assignments or its instance.
AbandonedIsFrozen ==
  [][AllCancelled(assignment) => UNCHANGED <<requestVars, instanceVars>>]_vars

\* After publication an assignment stays with its contractor, whatever happens
\* to the responsibilities, it is never dropped, and a completed or cancelled
\* one is not taken up again.
AssignmentsAreKept ==
  [][status \notin {"ABSENT", "DRAFT"} =>
       \A w \in Existing(assignment) :
         /\ assignment'[w] # NoAssignment
         /\ contractorOf'[w] = contractorOf[w]
         /\ assignment[w] \in {"COMPLETED", "CANCELLED"} => assignment'[w] = assignment[w]]_vars

\* A change of status that has a transition code always leaves its row in the
\* timeline, whichever handler makes it.
CodedChangesAreRecorded ==
  [][Coded(status, status') => timelineEnd' = status']_vars

-----------------------------------------------------------------------------
(* What the code states and does not keep.                                   *)

\* REQUEST_TERMINAL_STATES: a closed or cancelled request stays so.
FinalStatusIsFinal ==
  [][(status \in {"CLOSED", "CANCELLED"}) => status' = status]_vars
=============================================================================
