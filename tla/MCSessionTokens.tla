-------------------------- MODULE MCSessionTokens --------------------------
(* Instance of SessionTokens for TLC. *)
EXTENDS SessionTokens, TLC

MCTokens == 1 .. 3
Symmetry == Permutations(Requests)
=============================================================================
