--------------------------- MODULE MCSessionStore ---------------------------
(* Instances of SessionStore for TLC. *)
EXTENDS SessionStore, TLC

MapSymmetry == Permutations(Ids) \cup Permutations(ClientIps \ {NoIp, Unknown})
=============================================================================
