------------------------------ MODULE MCGateway ------------------------------
(* Small instances of Gateway for TLC. *)
EXTENDS Gateway, TLC

CONSTANTS s1, s2, s3, w1, o1, o2

Symmetry == Permutations(Sessions) \cup Permutations(Ops)

=============================================================================
