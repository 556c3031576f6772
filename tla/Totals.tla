------------------------------- MODULE Totals -------------------------------
(***************************************************************************)
(* The sum of a function into the naturals, as the number of units it      *)
(* counts: one pair <<x, k>> for each k in 1..f[x].  Credits are whole and *)
(* never negative, so a credit total is the size of a set of credits, and  *)
(* the finite-set theorems apply to it.                                    *)
(***************************************************************************)
EXTENDS Naturals, FiniteSets

Units(f) == UNION {{x} \X (1..f[x]) : x \in DOMAIN f}

Total(f) == Cardinality(Units(f))

=============================================================================
