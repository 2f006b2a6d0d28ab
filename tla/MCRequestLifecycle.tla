-------------------------- MODULE MCRequestLifecycle --------------------------
(***************************************************************************)
(* Small instances of RequestLifecycle: two or three work types, two       *)
(* contractors, and three kinds of office user.                            *)
(***************************************************************************)
EXTENDS RequestLifecycle, TLC

\* A coordinator holds every permission, a dispatcher publishes and edits but
\* cannot change the status, an operator changes it but cannot close.
MCOfficeProfiles ==
  {OfficePermission,
   {"requests.create", "requests.view", "requests.publish"},
   {"requests.view", "requests.change_status"}}

MCSymmetry == Permutations(WorkType) \cup Permutations(Contractor)
=============================================================================
