----------------------------- MODULE MCPayments -----------------------------
(* A subscription and a credit purchase, reported by two requests at once. *)
EXTENDS Payments
=============================================================================
