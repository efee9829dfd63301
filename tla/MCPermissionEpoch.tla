------------------------- MODULE MCPermissionEpoch -------------------------
(***************************************************************************)
(* Small instances of PermissionEpoch for TLC.                             *)
(***************************************************************************)
EXTENDS PermissionEpoch, TLC

\* Tokens and role changes are interchangeable.
Symmetry == Permutations(Tokens) \cup Permutations(Changes)
=============================================================================
