--------------------------- MODULE MCCreditLedger ---------------------------
(* Small instances of CreditLedger: callers are interchangeable.           *)
EXTENDS CreditLedger, TLC

Symmetry == Permutations(Proc)
=============================================================================
