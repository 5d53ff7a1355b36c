------------------------------- MODULE NoValue -------------------------------
(* What stands for a file, a record or a holder that is not there. *)
CONSTANT None
=============================================================================
