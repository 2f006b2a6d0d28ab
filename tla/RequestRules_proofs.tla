-------------------------- MODULE RequestRules_proofs --------------------------
(***************************************************************************)
(* What the rules of a contractor request imply, for any set of work types *)
(* and any assignments: the facts the proofs about request modules rest    *)
(* on.                                                                     *)
(***************************************************************************)
EXTENDS RequestRules, TLAPS

\* The two tables of the code, REQUEST_STATUS_TRANSITIONS of the service and the
\* transition codes of the workflow definition, describe the same transitions:
\* what the status endpoint accepts always has a code, and a code is never for a
\* transition that the endpoint would refuse.
THEOREM TransitionTablesAgree ==
  \A old, new \in RequestStatus :
    Coded(old, new) <=> new \in REQUEST_STATUS_TRANSITIONS[old]
  BY DEF Coded, REQUEST_TRANSITION_CODES, REQUEST_STATUS_TRANSITIONS, RequestStatus

\* Both tables stay inside the statuses and leave the final ones alone.
LEMMA TransitionsStayInside ==
  /\ \A s \in RequestStatus : REQUEST_STATUS_TRANSITIONS[s] \subseteq RequestStatus \ {"DRAFT"}
  /\ \A s \in AssignmentStatus : ASSIGNMENT_STATUS_TRANSITIONS[s] \subseteq AssignmentStatus
  /\ ASSIGNMENT_STATUS_TRANSITIONS["CANCELLED"] = {}
  /\ ASSIGNMENT_STATUS_TRANSITIONS["COMPLETED"] = {}
  /\ REQUEST_STATUS_TRANSITIONS["CANCELLED"] = {}
  /\ REQUEST_STATUS_TRANSITIONS["CLOSED"] = {}
  BY DEF REQUEST_STATUS_TRANSITIONS, ASSIGNMENT_STATUS_TRANSITIONS, RequestStatus,
         AssignmentStatus

\* A contractor's report is let through by the workflow engine only where work
\* starts, ends or is called off: not on a completed request, and not by closing
\* or assigning one.
LEMMA ContractorsTransitions ==
  ASSUME NEW state, NEW old \in RequestStatus, NEW new \in RequestStatus,
         Coded(old, new), CanExecute(state, old, new, ContractorPermissions)
  PROVE  /\ state = old
         /\ old \in {"NEW", "PARTIALLY_ASSIGNED", "ASSIGNED", "IN_PROGRESS"}
         /\ new \in {"IN_PROGRESS", "COMPLETED", "CANCELLED"}
  BY DEF Coded, REQUEST_TRANSITION_CODES, CanExecute, TransitionPermissions,
         ContractorPermissions, RequestStatus

\* The recalculation chooses among five statuses or leaves the request alone.
LEMMA RecalculatedRange ==
  ASSUME NEW s, NEW W, NEW a
  PROVE  Recalculated(s, W, a) \in {"CANCELLED", "COMPLETED", "IN_PROGRESS", "ASSIGNED",
                                    "PARTIALLY_ASSIGNED", s}
  BY DEF Recalculated

\* It completes exactly the requests whose every work type is done.
LEMMA RecalculatedCompletes ==
  ASSUME NEW s, NEW W, NEW a, s # "COMPLETED", Existing(a) # {}, Existing(a) \subseteq W
  PROVE  Recalculated(s, W, a) = "COMPLETED" <=> \A w \in W : w \in DOMAIN a /\ a[w] = "COMPLETED"
  <1>1. Active(a) \subseteq Existing(a)
    BY DEF Active
  <1>2. CASE \A w \in W : w \in DOMAIN a /\ a[w] = "COMPLETED"
    <2>1. Active(a) = W /\ W # {}
      BY <1>1, <1>2 DEF Active, Existing, NoAssignment
    <2>2. AllDone(W, a) /\ ~AllCancelled(a)
      BY <1>2, <2>1 DEF Unassigned, AllCancelled, AllDone
    <2>3. QED
      BY <1>2, <2>2 DEF Recalculated
  <1>3. CASE Recalculated(s, W, a) = "COMPLETED"
    <2>1. Unassigned(W, a) = {} /\ \A w \in Active(a) : a[w] = "COMPLETED"
      BY <1>3 DEF Recalculated, AllDone
    <2>2. W \subseteq Active(a)
      BY <2>1 DEF Unassigned
    <2>3. QED
      BY <1>3, <2>1, <2>2 DEF Active, Existing
  <1>4. QED
    BY <1>2, <1>3

\* It cancels the abandoned requests and no others.
LEMMA RecalculatedCancels ==
  ASSUME NEW s, NEW W, NEW a
  PROVE  /\ AllCancelled(a) => Recalculated(s, W, a) = "CANCELLED"
         /\ Recalculated(s, W, a) = "CANCELLED" => AllCancelled(a) \/ s = "CANCELLED"
  BY DEF Recalculated

\* Publishing leaves one of the three open statuses, "NEW" only when no work type
\* has an active assignment.
LEMMA PublishedStatus ==
  ASSUME NEW W, NEW a
  PROVE  /\ StatusAfterPublish(W, a) \in {"NEW", "PARTIALLY_ASSIGNED", "ASSIGNED"}
         /\ StatusAfterPublish(W, a) = "NEW" => Active(a) \cap W = {}
  <1>1. StatusAfterPublish(W, a) \in {"NEW", "PARTIALLY_ASSIGNED", "ASSIGNED"}
    BY DEF StatusAfterPublish
  <1>2. StatusAfterPublish(W, a) = "NEW" => Unassigned(W, a) = W
    BY DEF StatusAfterPublish
  <1>3. Unassigned(W, a) = W => Active(a) \cap W = {}
    BY DEF Unassigned
  <1>4. QED
    BY <1>1, <1>2, <1>3
=============================================================================
