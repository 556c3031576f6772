--------------------------- MODULE MCSafetyLeases ---------------------------
(* Two executions that compete for the budgets of one grant.               *)
EXTENDS SafetyLeases

CONSTANTS k1, k2, e1, e2

MCExecOf == [k \in Key |-> IF k = k1 THEN e1 ELSE e2]
=============================================================================
