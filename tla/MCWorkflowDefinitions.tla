------------------------- MODULE MCWorkflowDefinitions -------------------------
(***************************************************************************)
(* Two states and a transition between them, which is what the seed wants; *)
(* two sessions that edit, publish, deactivate, clone and seed.            *)
(***************************************************************************)
EXTENDS WorkflowDefinitions, TLC

CONSTANTS s1, s2

MCSeedFrom == "publish" :> "DRAFT"
MCSeedTo   == "publish" :> "NEW"

MCSymmetry == Permutations(Session)
=============================================================================
