--------------------------- MODULE MCAttachments ---------------------------
(***************************************************************************)
(* Small instances of Attachments for TLC.                                 *)
(***************************************************************************)
EXTENDS Attachments, TLC

\* Attachments, tickets and requests are interchangeable.
Symmetry ==
    Permutations(Attachments) \cup Permutations(Tickets) \cup
    Permutations(Requests)
=============================================================================
