--------------------------- MODULE MCWorkflowEngine ---------------------------
(***************************************************************************)
(* A small definition like the one of tests/test_workflow_engine.py: draft,*)
(* active, done and cancelled; started and finished, with a note that      *)
(* leads back to the state it was made in.                                 *)
(***************************************************************************)
EXTENDS WorkflowEngine, TLC

CONSTANTS s1, s2

MCFrom == "START" :> "draft" @@ "NOTE" :> "active" @@ "FINISH" :> "active"
MCTo   == "START" :> "active" @@ "NOTE" :> "active" @@ "FINISH" :> "done"

\* A clerk may not finish; finishing and noting require a comment, and work is
\* started without one.
MCAllowed  == "manager" :> {"START", "NOTE", "FINISH"} @@ "clerk" :> {"START", "NOTE"}
MCComplete == "START" :> {"empty"} @@ "NOTE" :> {"comment"} @@ "FINISH" :> {"comment"}

\* A deadline for the time the work is active.
MCPolicyState      == "work" :> "active"
MCPolicyTransition == "work" :> "null"

MCSymmetry == Permutations(Session)
=============================================================================
