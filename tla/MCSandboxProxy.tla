--------------------------- MODULE MCSandboxProxy ---------------------------
(* Instances of SandboxProxy for TLC. *)
EXTENDS SandboxProxy, TLC

RequestSymmetry == Permutations(Requests)
=============================================================================
