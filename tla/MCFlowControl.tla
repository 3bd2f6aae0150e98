---------------------------- MODULE MCFlowControl ----------------------------
(***************************************************************************)
(* Values for the constants of FlowControl.                                *)
(***************************************************************************)
EXTENDS FlowControl, TLC

AllCalls == {"Start", "Resume", "Cancel"}
NoCancel == {"Start", "Resume"}

GoroutineSymmetry == Permutations(Runs) \cup Permutations(Contexts)
=============================================================================
