---------------------------- MODULE MCLlmCompare ----------------------------
(* Instances of LlmCompare for TLC. *)
EXTENDS LlmCompare, TLC

CompareSymmetry == Permutations(Requests)
=============================================================================
