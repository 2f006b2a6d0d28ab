---------------------------- MODULE RequestRules ----------------------------
(***************************************************************************)
(* The rules of the contractor request: its status table, the transitions  *)
(* of the seeded CONTRACTOR_REQUEST workflow with the permissions that let *)
(* an actor take them, and the two functions that compute a request status *)
(* from assignments.  They are the pure part of                            *)
(* services/request_service.py and services/contractor_request_workflow.py *)
(* and are shared by every module about requests.                          *)
(*                                                                         *)
(* The assignments of one request are a function a from work types to      *)
(* assignment statuses, NoAssignment where the work type has none: the     *)
(* table request_assignments holds at most one row per request and work    *)
(* type.                                                                   *)
(***************************************************************************)

RequestStatus == {"DRAFT", "NEW", "PARTIALLY_ASSIGNED", "ASSIGNED",
                  "IN_PROGRESS", "COMPLETED", "CLOSED", "CANCELLED"}

AssignmentStatus == {"ASSIGNED", "ACCEPTED", "IN_PROGRESS", "COMPLETED", "CANCELLED"}

NoAssignment == "NONE"

\* What the status endpoint may ask for, by current status.
REQUEST_STATUS_TRANSITIONS ==
  [s \in RequestStatus |->
     CASE s = "DRAFT"              -> {"NEW", "PARTIALLY_ASSIGNED", "ASSIGNED"}
       [] s = "NEW"                -> {"PARTIALLY_ASSIGNED", "ASSIGNED", "CANCELLED"}
       [] s = "PARTIALLY_ASSIGNED" -> {"ASSIGNED", "IN_PROGRESS", "CANCELLED"}
       [] s = "ASSIGNED"           -> {"IN_PROGRESS", "CANCELLED"}
       [] s = "IN_PROGRESS"        -> {"COMPLETED", "CANCELLED"}
       [] s = "COMPLETED"          -> {"CLOSED", "IN_PROGRESS"}
       [] s \in {"CLOSED", "CANCELLED"} -> {}]

\* A contractor who rejected or finished a work item could take it up again.
ASSIGNMENT_STATUS_TRANSITIONS_Reopening ==
  [s \in AssignmentStatus |->
     CASE s = "ASSIGNED"    -> {"ACCEPTED", "CANCELLED"}
       [] s = "ACCEPTED"    -> {"IN_PROGRESS", "CANCELLED"}
       [] s = "IN_PROGRESS" -> {"COMPLETED", "CANCELLED"}
       [] s = "COMPLETED"   -> {"IN_PROGRESS"}
       [] s = "CANCELLED"   -> {"ASSIGNED"}]

ASSIGNMENT_STATUS_TRANSITIONS ==
  [s \in AssignmentStatus |->
     CASE s = "ASSIGNED"    -> {"ACCEPTED", "CANCELLED"}
       [] s = "ACCEPTED"    -> {"IN_PROGRESS", "CANCELLED"}
       [] s = "IN_PROGRESS" -> {"COMPLETED", "CANCELLED"}
       [] s \in {"COMPLETED", "CANCELLED"} -> {}]

-----------------------------------------------------------------------------
(* The seeded workflow definition.  Each transition code belongs to one pair *)
(* of statuses, so the pair stands for the code.                             *)

REQUEST_TRANSITION_CODES ==
  {<<"DRAFT", "NEW">>, <<"DRAFT", "PARTIALLY_ASSIGNED">>, <<"DRAFT", "ASSIGNED">>,
   <<"NEW", "PARTIALLY_ASSIGNED">>, <<"NEW", "ASSIGNED">>, <<"NEW", "CANCELLED">>,
   <<"PARTIALLY_ASSIGNED", "ASSIGNED">>, <<"PARTIALLY_ASSIGNED", "IN_PROGRESS">>,
   <<"PARTIALLY_ASSIGNED", "CANCELLED">>,
   <<"ASSIGNED", "IN_PROGRESS">>, <<"ASSIGNED", "CANCELLED">>,
   <<"IN_PROGRESS", "COMPLETED">>, <<"IN_PROGRESS", "CANCELLED">>,
   <<"COMPLETED", "CLOSED">>, <<"COMPLETED", "IN_PROGRESS">>}

Coded(old, new) == <<old, new>> \in REQUEST_TRANSITION_CODES

OfficePermission ==
  {"requests.create", "requests.view", "requests.publish", "requests.update",
   "requests.change_status", "requests.close", "workflows.instances.view"}

\* compatibility_permissions_for_actor(CONTRACTOR_USER): what every contractor
\* report carries, whatever role its author has.
ContractorPermissions ==
  {"contractor.requests.view", "contractor.requests.update_status",
   "contractor.requests.accept", "workflows.instances.view",
   "workflows.instances.transition"}

\* The reopening could be open to whoever may start work.
TransitionPermissions_SharedReopen(old, new) ==
  CASE old = "DRAFT" -> {"requests.publish"}
    [] old # "DRAFT" /\ new \in {"PARTIALLY_ASSIGNED", "ASSIGNED"} -> {"requests.update"}
    [] new = "CLOSED" -> {"requests.close"}
    [] new = "IN_PROGRESS" -> {"requests.change_status", "contractor.requests.update_status",
                               "contractor.requests.accept"}
    [] OTHER -> {"requests.change_status", "contractor.requests.update_status"}

\* The permissions any one of which lets an actor take the transition: the
\* transition's own permission_code, or its list of allowed_permissions.
TransitionPermissions(old, new) ==
  CASE old = "DRAFT" -> {"requests.publish"}
    [] old # "DRAFT" /\ new \in {"PARTIALLY_ASSIGNED", "ASSIGNED"} -> {"requests.update"}
    [] old = "COMPLETED" /\ new = "CLOSED" -> {"requests.close"}
    [] old = "COMPLETED" /\ new = "IN_PROGRESS" -> {"requests.change_status"}
    [] old # "COMPLETED" /\ new = "IN_PROGRESS" ->
         {"requests.change_status", "contractor.requests.update_status",
          "contractor.requests.accept"}
    [] OTHER -> {"requests.change_status", "contractor.requests.update_status"}

\* Checking the actor, but not where the instance stands.
CanExecute_Anywhere(state, old, new, permissions) ==
  permissions \cap TransitionPermissions(old, new) # {}

\* can_execute_transition: the instance stands where the transition starts and
\* the actor holds a permission for it.  Both actor types are allowed on every
\* seeded transition.
CanExecute(state, old, new, permissions) ==
  /\ state = old
  /\ permissions \cap TransitionPermissions(old, new) # {}

\* get_entity for an actor of the office.
OfficeCanSee(permissions) ==
  permissions \cap {"requests.view", "workflows.instances.view"} # {}

-----------------------------------------------------------------------------
(* Assignments and the statuses computed from them.                          *)

Existing(a) == {w \in DOMAIN a : a[w] # NoAssignment}

Active(a) == {w \in Existing(a) : a[w] # "CANCELLED"}

\* unassigned_work_type_ids
Unassigned(W, a) == W \ Active(a)

AllCancelled(a) == Existing(a) # {} /\ Active(a) = {}

\* status_after_publish
StatusAfterPublish(W, a) ==
  CASE Unassigned(W, a) = W -> "NEW"
    [] Unassigned(W, a) # W /\ Unassigned(W, a) # {} -> "PARTIALLY_ASSIGNED"
    [] OTHER -> "ASSIGNED"

\* Every work type is assigned and every active assignment is finished.
AllDone(W, a) ==
  /\ Active(a) # {} /\ Unassigned(W, a) = {}
  /\ \A w \in Active(a) : a[w] = "COMPLETED"

\* Forgetting the work types that nobody has.
Recalculated_IgnoringUnassigned(s, W, a) ==
  IF AllCancelled(a) THEN "CANCELLED"
  ELSE IF \A w \in Active(a) : a[w] = "COMPLETED" THEN "COMPLETED"
  ELSE IF \E w \in Active(a) : a[w] \in {"ACCEPTED", "IN_PROGRESS"} THEN "IN_PROGRESS"
  ELSE s

\* Leaving the request as it is when the last assignment is cancelled.
Recalculated_KeepingCancelled(s, W, a) ==
  IF AllDone(W, a) THEN "COMPLETED"
  ELSE IF \E w \in Active(a) : a[w] \in {"ACCEPTED", "IN_PROGRESS"} THEN "IN_PROGRESS"
  ELSE IF Unassigned(W, a) # {} THEN "PARTIALLY_ASSIGNED"
  ELSE s

\* Copying an assignment's status to the request.
Recalculated_Copying(s, W, a) ==
  IF AllCancelled(a) THEN "CANCELLED"
  ELSE IF AllDone(W, a) THEN "COMPLETED"
  ELSE CHOOSE x \in {a[w] : w \in Active(a)} : TRUE

\* recalculate_request_status_from_assignments: the status of a request with
\* status s and work types W once its assignments are a.
Recalculated(s, W, a) ==
  IF AllCancelled(a) THEN "CANCELLED"
  ELSE IF AllDone(W, a) THEN "COMPLETED"
  ELSE IF \E w \in Active(a) : a[w] \in {"ACCEPTED", "IN_PROGRESS"} THEN "IN_PROGRESS"
  ELSE IF Active(a) # {} /\ Unassigned(W, a) = {} /\ \A w \in Active(a) : a[w] = "ASSIGNED"
    THEN "ASSIGNED"
  ELSE IF Unassigned(W, a) # {} THEN "PARTIALLY_ASSIGNED"
  ELSE s
=============================================================================
