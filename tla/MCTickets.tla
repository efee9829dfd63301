----------------------------- MODULE MCTickets -----------------------------
(***************************************************************************)
(* Small instances of Tickets for TLC.                                     *)
(***************************************************************************)
EXTENDS Tickets, TLC

\* Requests and agents are interchangeable.
Symmetry == Permutations(Requests) \cup Permutations(Agents)
=============================================================================
