--------------------------- MODULE MCAdminRoster ---------------------------
(***************************************************************************)
(* Small instances of AdminRoster for TLC.                                 *)
(***************************************************************************)
EXTENDS AdminRoster, TLC

\* Users and requests are interchangeable.
Symmetry == Permutations(Users) \cup Permutations(Requests)
=============================================================================
