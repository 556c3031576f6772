---------------------------- MODULE ScanMachine -----------------------------
(***************************************************************************)
(* What every writer of Scan.state must respect, whichever process it is   *)
(* in: a row is born QUEUED, moves along the table, and once it has ended  *)
(* it stays as it is.  A row whose debit was refused is removed again.     *)
(***************************************************************************)
EXTENDS ScanStates

CONSTANT NoScan       \* no row

VARIABLE state

MInit == state = NoScan

Created == state = NoScan /\ state' = "QUEUED"

Moved == state \in ScanState /\ canTransition(state, state')

Removed == state \in {"QUEUED", "CANCELLED"} /\ state' = NoScan

MNext == Created \/ Moved \/ Removed

MSpec == MInit /\ [][MNext]_state
=============================================================================
