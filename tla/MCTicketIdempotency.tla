----------------------- MODULE MCTicketIdempotency -------------------------
(***************************************************************************)
(* A small instance of TicketIdempotency for TLC.                          *)
(***************************************************************************)
EXTENDS TicketIdempotency
=============================================================================
