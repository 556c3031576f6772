-------------------------- MODULE MCExecutionUnits --------------------------
(* A unit that needs a lease, and a passive one.                           *)
EXTENDS ExecutionUnits

CONSTANTS a, p

(* The passive unit waits for the other.                                   *)
MCDeps == {d \in Unit \X Unit : d[1] = p /\ d[2] = a}
=============================================================================
