--------------------------- MODULE ExecutionUnits ---------------------------
(***************************************************************************)
(* The units of one planned scan (SPEC 009): execution hosts pick jobs     *)
(* from the class queues, claim a unit, ask for admission, move it to      *)
(* RUNNING by conditional updates, run it in a child process under a loop, *)
(* and finalize it; the orchestrator completes the passive units at the    *)
(* barrier before the report; the sweep ends what the deadline, a failure  *)
(* or a cancellation leaves behind.  Each action is one database           *)
(* transaction, queue operation or process event, so every interleaving of *)
(* the hosts, the orchestrator and the sweep is a behaviour.               *)
(***************************************************************************)
EXTENDS Integers

CONSTANTS
    Unit,         \* rows of ExecutionUnit in the plan that were not SKIPPED
    Passive,      \* the units of a passive class (PASSIVE_HTTP, SOURCE_STATIC)
    Leased,       \* the units whose adapter is of lease class L
    Deps,         \* ExecutionDependency: <<unit, the unit it depends on>>
    Host,         \* worker processes that consume the execution queues
    NoUnit,
    MaxFaults     \* bound: stops requested and hosts that die

ASSUME UnitsAssumption ==
    /\ Passive \subseteq Unit /\ Leased \subseteq Unit \ Passive
    /\ Deps \subseteq Unit \X Unit
    /\ NoUnit \notin Unit
    /\ MaxFaults \in Nat

VARIABLES
    clock,        \* the database clock, relative to the plan's deadline
    scan,         \* Scan.state
    module,       \* ModuleResult.state of the domain of each passive unit
    status,       \* ExecutionUnit.status
    lease,        \* the unit's AdmissionLease
    stopped,      \* the units with a pending stop, for whatever reason
    unconfirmed,  \* the units with an AUTHORIZED effect that is not confirmed
    claimed,      \* units with an ExecutionUnitHostClaim
    children,     \* the units whose child process is alive
    queued,       \* units whose job was added to their execution queue
    host,         \* per host: step, unit, and the outcome it will write
    orch,         \* the phase-3 job: step and the passive units left to do
    sweep,        \* the timeout sweep: step, scan state, units left, next write
    faults

vars == <<clock, scan, module, status, lease, stopped, unconfirmed, claimed, children,
          queued, host, orch, sweep, faults>>

world == <<clock, scan, module, stopped>>
rows == <<status, lease, unconfirmed, claimed>>
work == <<children, queued, faults>>
procs == <<host, orch, sweep>>

-----------------------------------------------------------------------------
(* The instants the code compares: enough time to start a unit, too little *)
(* (dispatchThresholdMs), past the deadline, past it by hardStopMarginMs.  *)
Plenty == 0
Insufficient == 1
Deadline == 2
Backstop == 3

PreRunning == {"PLANNED", "ADMITTED", "DISPATCHED"}
Ran == {"COMPLETED", "FAILED", "CANCELLED", "KILLED"}
Terminal == {"BLOCKED", "REFUSED"} \cup Ran
Status == PreRunning \cup {"RUNNING"} \cup Terminal

Ended == {"CANCELLED", "FAILED", "TIMED_OUT"}
Sweepable == {"RUNNING_PHASE_3", "RUNNING_MASTER"}
ScanState == {"QUEUED", "COMPLETED"} \cup Sweepable \cup Ended

Active == Unit \ Passive
Prerequisites(u) == {v \in Unit : <<u, v>> \in Deps}
Unfinished == {u \in Unit : status[u] \notin Terminal}

HostSteps == {"idle", "asking", "granted", "releasing", "admitted", "forked",
              "running", "refuse", "finalize", "gate"}

(* The steps of a host that holds the token of its unit's claim.           *)
Owning == {"asking", "granted", "releasing", "admitted", "forked", "running"}

Outcomes == {"none", "REFUSED", "replayed"} \cup Ran

Idle == [step |-> "idle", unit |-> NoUnit, out |-> "none"]

SweepIdle == [step |-> "idle", from |-> "none", todo |-> {}, unit |-> NoUnit,
              out |-> "none"]

Goto(h, s) == host' = [host EXCEPT ![h].step = s]
Take(h, u, s, o) == host' = [host EXCEPT ![h] = [step |-> s, unit |-> u, out |-> o]]
Leave(h) == host' = [host EXCEPT ![h] = Idle]
GotoWith(h, s, o) == host' = [host EXCEPT ![h].step = s, ![h].out = o]

(* classifyPreRunCause for a unit that is not terminal: a pending stop     *)
(* first, then the end of the scan, then the deadline.                     *)
ScanCause(enough) ==
    IF scan = "CANCELLED" THEN "SCAN_CANCELLED"
    ELSE IF scan = "FAILED" THEN "SCAN_FAILED"
    ELSE IF scan = "QUEUED" THEN "SCAN_NOT_STARTED"
    ELSE IF scan = "TIMED_OUT" \/ clock >= Deadline THEN "SCAN_DEADLINE_EXPIRED"
    ELSE IF clock >= enough THEN "SCAN_DEADLINE_INSUFFICIENT"
    ELSE "NONE"

PreRunCause(u) ==
    IF u \in stopped THEN "KILL_SWITCH_PENDING" ELSE ScanCause(Insufficient)

RunningCause(u) ==
    IF u \in stopped THEN "KILL_SWITCH_PENDING"
    ELSE IF scan = "QUEUED" THEN "NONE" ELSE ScanCause(Deadline)

(* The end of a stopped unit, by the reason of the stop.                   *)
Stopped == {"CANCELLED", "KILLED"}

Refusals == {"SCAN_CANCELLED", "SCAN_FAILED", "SCAN_DEADLINE_EXPIRED",
             "SCAN_DEADLINE_INSUFFICIENT"}

-----------------------------------------------------------------------------
(* fahes_finalize_unit: the only writer of a terminal status.              *)

(* The units that end BLOCKED with u: the least set that holds the         *)
(* unfinished dependents of u and of its own members.                      *)
Blocked(u) ==
    LET Rest == Unfinished \ {u} IN
    {x \in Rest :
       \A S \in SUBSET Rest :
         (\A y \in Rest : (\E z \in S \cup {u} : <<y, z>> \in Deps) => y \in S)
           => x \in S}

(* The edges it accepts; the row trigger blocks a PLANNED dependent only.  *)
Finalizable(u, out) ==
    /\ status[u] \in IF out = "REFUSED" THEN PreRunning ELSE {"RUNNING"}
    /\ out # "COMPLETED" => \A x \in Blocked(u) : status[x] = "PLANNED"

Finalized(u, out) ==
    [x \in Unit |-> IF x = u THEN out
                    ELSE IF out # "COMPLETED" /\ x \in Blocked(u) THEN "BLOCKED"
                    ELSE status[x]]

(* Mutants: the dependents are not blocked; a terminal row is overwritten. *)
FinalizeAlone(u, out) ==
    IF Finalizable(u, out)
    THEN /\ status' = [status EXCEPT ![u] = out]
         /\ lease' = [lease EXCEPT ![u] = "none"]
         /\ unconfirmed' = unconfirmed \ {u}
    ELSE UNCHANGED <<status, lease, unconfirmed>>

FinalizeAgain(u, out) ==
    IF Finalizable(u, out) \/ (status[u] \in Ran /\ out \in Ran)
    THEN /\ status' = Finalized(u, out)
         /\ lease' = [lease EXCEPT ![u] = "none"]
         /\ unconfirmed' = unconfirmed \ {u}
    ELSE UNCHANGED <<status, lease, unconfirmed>>

(* A terminal unit is replayed and an edge outside the table raises: both  *)
(* leave the row alone.                                                    *)
Finalize(u, out) ==
    IF Finalizable(u, out)
    THEN /\ status' = Finalized(u, out)
         /\ lease' = [lease EXCEPT ![u] = "none"]
         /\ unconfirmed' = unconfirmed \ {u}
    ELSE UNCHANGED <<status, lease, unconfirmed>>

(* It raises instead of answering: the caller's handler ends.              *)
Throws(u, out) == status[u] \notin Terminal /\ ~Finalizable(u, out)

-----------------------------------------------------------------------------
Init ==
    /\ clock = Plenty
    /\ scan = "QUEUED"
    /\ module = [p \in Passive |-> "RUNNING"]
    /\ status = [u \in Unit |-> "PLANNED"]
    /\ lease = [u \in Unit |-> "none"]
    /\ stopped = {}
    /\ unconfirmed = {}
    /\ claimed = {}
    /\ children = {}
    /\ queued = {}
    /\ host = [h \in Host |-> Idle]
    /\ orch = [step |-> "phases", todo |-> {}]
    /\ sweep = SweepIdle
    /\ faults = 0

-----------------------------------------------------------------------------
(* Queues.                                                                 *)

(* enqueueEligibleUnits: every PLANNED unit of a non-passive class whose   *)
(* prerequisites are COMPLETED.  A job may be delivered more than once: it *)
(* is added again when its finished or stalled predecessor was removed.    *)
(* Mutant: passive units are enqueued too.                                 *)
EligibleAnyClass ==
    {u \in Unit : status[u] = "PLANNED"
                  /\ \A v \in Prerequisites(u) : status[v] = "COMPLETED"}

Eligible ==
    {u \in Active : status[u] = "PLANNED"
                    /\ \A v \in Prerequisites(u) : status[v] = "COMPLETED"}

(* After the plan is resolved; this caller is not in the repository.       *)
EnqueuePlan ==
    /\ scan = "QUEUED"
    /\ queued' = queued \cup Eligible
    /\ UNCHANGED <<world, rows, children, faults, procs>>

-----------------------------------------------------------------------------
(* Dispatch: from the queue to RUNNING.                                    *)

(* Mutant: a second claim of the attempt replaces the first.               *)
PickupClaimsAgain(h, u) ==
    /\ host[h].step = "idle" /\ u \in queued /\ status[u] = "PLANNED"
    /\ PreRunCause(u) \in {"NONE", "KILL_SWITCH_PENDING"}
    /\ claimed' = claimed \cup {u} /\ Take(h, u, "asking", "none")
    /\ UNCHANGED <<world, work, status, lease, unconfirmed, orch, sweep>>

(* The handler re-reads the row: a unit that is not PLANNED is ignored and *)
(* one without an adapter is refused through the gate.  Then               *)
(* dispatchExecutionUnit up to the call of F07.  The unit is left alone    *)
(* for want of capacity, before the scan has started, or when the claim of *)
(* its attempt is taken; claimUnitHost and the second reading refuse by    *)
(* the cause, but not by a stop; the engine's guards refuse it too.        *)
Pickup(h, u) ==
    /\ host[h].step = "idle" /\ u \in queued /\ status[u] = "PLANNED"
    /\ \/ Take(h, u, "finalize", "REFUSED") /\ UNCHANGED claimed
       \/ /\ PreRunCause(u) \in Refusals
          /\ Take(h, u, "refuse", "none") /\ UNCHANGED claimed
       \/ /\ PreRunCause(u) \in {"NONE", "KILL_SWITCH_PENDING"}
          /\ u \notin claimed /\ claimed' = claimed \cup {u}
          /\ \E s \in {"asking", "refuse"} : Take(h, u, s, "none")
    /\ UNCHANGED <<world, work, status, lease, unconfirmed, orch, sweep>>

(* requestAdmission: F07 refuses under a pending stop and for reasons of   *)
(* its own; a grant of class L creates the lease.  Nothing here looks at   *)
(* the unit's row, which may have been finalized since the claim.          *)
RequestAdmission(h) ==
    LET u == host[h].unit IN
    /\ host[h].step = "asking"
    /\ \/ Goto(h, "refuse") /\ UNCHANGED lease
       \/ /\ u \notin stopped
          /\ lease' = [lease EXCEPT ![u] = IF u \in Leased THEN "live" ELSE @]
          /\ Goto(h, "granted")
    /\ UNCHANGED <<world, work, status, unconfirmed, claimed, orch, sweep>>

(* casHostTransition: one conditional update, and fahes_lock_live_lease,   *)
(* which sees a lease until it is released or reclaimed.                   *)
Wins(u, from) == status[u] = from /\ (u \in Leased => lease[u] # "none")

ToAdmitted(h) ==
    LET u == host[h].unit IN
    /\ host[h].step = "granted"
    /\ IF Wins(u, "PLANNED")
       THEN status' = [status EXCEPT ![u] = "ADMITTED"] /\ Goto(h, "admitted")
       ELSE UNCHANGED status /\ Goto(h, "releasing")
    /\ UNCHANGED <<world, work, lease, unconfirmed, claimed, orch, sweep>>

(* A lost PLANNED>ADMITTED gives back the lease it has just created.       *)
ReleaseLost(h) ==
    /\ host[h].step = "releasing"
    /\ lease' = [lease EXCEPT ![host[h].unit] = "none"]
    /\ Leave(h)
    /\ UNCHANGED <<world, work, status, unconfirmed, claimed, orch, sweep>>

(* Engine proofs, the third reading of the cause, the second update and    *)
(* the fork of the child, which waits for its start message.               *)
ToDispatched(h) ==
    LET u == host[h].unit IN
    /\ host[h].step = "admitted"
    /\ \/ Goto(h, "refuse") /\ UNCHANGED <<status, children>>
       \/ /\ PreRunCause(u) = "NONE" /\ Wins(u, "ADMITTED")
          /\ status' = [status EXCEPT ![u] = "DISPATCHED"]
          /\ children' = children \cup {u}
          /\ Goto(h, "forked")
       \/ /\ PreRunCause(u) = "NONE" /\ ~Wins(u, "ADMITTED")
          /\ Leave(h) /\ UNCHANGED <<status, children>>
    /\ UNCHANGED <<world, queued, faults, lease, unconfirmed, claimed, orch, sweep>>

(* On loss the child, which has not started, is killed; a failure to kill  *)
(* it is swallowed.                                                        *)
ToRunning(h) ==
    LET u == host[h].unit IN
    /\ host[h].step = "forked"
    /\ IF Wins(u, "DISPATCHED")
       THEN /\ status' = [status EXCEPT ![u] = "RUNNING"] /\ Goto(h, "running")
            /\ UNCHANGED children
       ELSE /\ children' \in {children, children \ {u}}
            /\ UNCHANGED status /\ Leave(h)
    /\ UNCHANGED <<world, queued, faults, lease, unconfirmed, claimed, orch, sweep>>

(* refuse: finalized without the gate; a replay is IGNORED.                *)
Refuse(h) ==
    /\ host[h].step = "refuse"
    /\ Finalize(host[h].unit, "REFUSED")
    /\ Leave(h)
    /\ UNCHANGED <<world, work, claimed, orch, sweep>>

-----------------------------------------------------------------------------
(* The host loop and the end of a unit.                                    *)

(* hostLoopDecision, read as one step: what the host will do, or the       *)
(* outcome it will finalize with.  F07 may answer a renewal with an        *)
(* invalid grant or not at all, which stops the unit.                      *)
Decisions(u) ==
    IF status[u] \in Terminal THEN {"STOP_TERMINAL"}
    ELSE IF u \in Leased /\ lease[u] = "none" THEN {"ABORT_LEASE_LOST"}
    ELSE IF u \in stopped
         THEN Stopped
    ELSE (IF u \in Leased THEN {"KILLED"} ELSE {})
         \cup {CASE u \in Leased /\ lease[u] = "expired" -> "ABORT_LEASE_LOST"
                 [] RunningCause(u) = "NONE" -> "CONTINUE"
                 [] RunningCause(u) = "SCAN_CANCELLED" -> "CANCELLED"
                 [] OTHER -> "FAILED"}

(* finalizeFor: a stale holder and a unit that has ended write nothing.    *)
Write(h, out) ==
    IF out \in Ran THEN GotoWith(h, "finalize", out) ELSE Leave(h)

(* Mutant: the outcome is written whether or not the child is gone.       *)
LoopStopsUnconfirmed(h) ==
    LET u == host[h].unit IN
    /\ host[h].step = "running"
    /\ children' \in {children, children \ {u}}
    /\ \E d \in (Decisions(u) \ {"CONTINUE"}) \cup {"KILLED"} : Write(h, d)
    /\ UNCHANGED <<world, rows, queued, faults, orch, sweep>>

(* A tick of the loop stops the unit; so does one whose reads fail.  The   *)
(* child is killed first: unconfirmed, the unit is left to the sweep.      *)
LoopStops(h) ==
    LET u == host[h].unit IN
    /\ host[h].step = "running"
    /\ \/ /\ children' = children \ {u}
          /\ \E d \in (Decisions(u) \ {"CONTINUE"}) \cup {"KILLED"} : Write(h, d)
       \/ UNCHANGED children /\ Leave(h)          \* CHILD_TERMINATION_UNCONFIRMED
    /\ UNCHANGED <<world, rows, queued, faults, orch, sweep>>

(* The adapter returns, throws, or runs into the hard stop; the decision   *)
(* is taken once more right before finalizing: only CONTINUE lets the      *)
(* observation stand, and a reading that fails ends the handler.           *)
RunEnds(h) ==
    LET u == host[h].unit IN
    /\ host[h].step = "running"
    /\ children' = children \ {u}
    /\ \E d \in Decisions(u) \cup {"throws"}, o \in {"COMPLETED", "FAILED"} :
         Write(h, IF d = "CONTINUE" THEN o ELSE d)
    /\ UNCHANGED <<world, rows, queued, faults, orch, sweep>>

(* finalizeUnitAndContinue: the finalizer, then the gate, also for a       *)
(* replay; the finalizer's exception ends the job.                         *)
FinalizeUnit(h) ==
    LET u == host[h].unit IN
    /\ host[h].step = "finalize"
    /\ Finalize(u, host[h].out)
    /\ IF Throws(u, host[h].out) THEN Leave(h)
       ELSE GotoWith(h, "gate", IF status[u] \in Terminal THEN "replayed"
                                ELSE host[h].out)
    /\ UNCHANGED <<world, work, claimed, orch, sweep>>

-----------------------------------------------------------------------------
(* The plan-unit barrier, continueScanIfPlanTerminal: what it reads only   *)
(* ever becomes true, and the last statement carries the state and the     *)
(* deadline.  The report's job may be lost; nothing below relies on it.    *)

GateOpenAnyUnits ==
    /\ scan = "RUNNING_PHASE_3"
    /\ \A p \in Passive : module[p] # "RUNNING"

GateOpen ==
    /\ scan = "RUNNING_PHASE_3"
    /\ \A p \in Passive : module[p] # "RUNNING"
    /\ Unfinished = {}

Continue ==
    scan' = IF GateOpen /\ clock < Deadline THEN "RUNNING_MASTER" ELSE scan

(* The host's gate; a completion that it wrote itself is followed by       *)
(* enqueueEligibleUnits.                                                   *)
HostGate(h) ==
    /\ host[h].step = "gate"
    /\ Continue
    /\ queued' = IF host[h].out = "COMPLETED" THEN queued \cup Eligible ELSE queued
    /\ Leave(h)
    /\ UNCHANGED <<clock, module, stopped, rows, children, faults, orch, sweep>>

(* The phase-3 job reaches the gate when its own modules have ended, and   *)
(* takes the PLANNED passive units in the order of their random ids.       *)
OrchBarrier ==
    /\ orch.step = "phases" /\ scan = "RUNNING_PHASE_3"
    /\ \A p \in Passive : module[p] # "RUNNING"
    /\ orch' = [step |-> "passive", todo |-> {p \in Passive : status[p] = "PLANNED"}]
    /\ UNCHANGED <<world, rows, work, host, sweep>>

(* fahes_complete_passive_unit: completed or refused by the result of its  *)
(* module, deferred while a prerequisite is missing or the scan has ended. *)
Completable(p) ==
    /\ status[p] = "PLANNED"
    /\ scan \in Sweepable /\ clock < Deadline
    /\ \A v \in Prerequisites(p) : status[v] = "COMPLETED"

CompletePassive(p) ==
    /\ orch.step = "passive" /\ p \in orch.todo
    /\ orch' = [orch EXCEPT !.todo = @ \ {p}]
    /\ status' = IF Completable(p)
                 THEN [status EXCEPT ![p] = IF module[p] = "COMPLETE"
                                            THEN "COMPLETED" ELSE "REFUSED"]
                 ELSE status
    /\ UNCHANGED <<world, work, lease, unconfirmed, claimed, host, sweep>>

OrchGate ==
    /\ orch.step = "passive" /\ orch.todo = {}
    /\ Continue
    /\ orch' = [orch EXCEPT !.step = "done"]
    /\ UNCHANGED <<clock, module, stopped, rows, work, host, sweep>>

-----------------------------------------------------------------------------
(* Effects of a running unit: its requests reach the host from the child   *)
(* until the host has finalized, also while it is stopping.                *)
Serving == {"running", "finalize"}

AuthorizeEffect(h) ==
    LET u == host[h].unit IN
    /\ host[h].step \in Serving
    /\ status[u] = "RUNNING" /\ RunningCause(u) = "NONE"
    /\ u \in Leased => lease[u] # "none"
    /\ unconfirmed' = unconfirmed \cup {u}
    /\ UNCHANGED <<world, work, status, lease, claimed, procs>>

ConfirmEffect(h) ==
    /\ host[h].step \in Serving
    /\ unconfirmed' = unconfirmed \ {host[h].unit}
    /\ UNCHANGED <<world, work, status, lease, claimed, procs>>

-----------------------------------------------------------------------------
(* The timeout sweep: a planned pass for a scan past its deadline, and a   *)
(* self-healing pass for the units an ended scan left behind.              *)
Sweep(pass) ==
    [step |-> "units", from |-> pass, todo |-> Unfinished, unit |-> NoUnit, out |-> "none"]

SweepTimeout ==
    /\ sweep.step = "idle" /\ clock >= Deadline /\ scan \in Sweepable
    /\ sweep' = Sweep(scan)
    /\ UNCHANGED <<world, rows, work, host, orch>>

(* Mutant: only the scans the sweep has ended itself are healed.           *)
SweepHealTimedOut ==
    /\ sweep.step = "idle" /\ scan = "TIMED_OUT" /\ Unfinished # {}
    /\ sweep' = Sweep("none")
    /\ UNCHANGED <<world, rows, work, host, orch>>

SweepHeal ==
    /\ sweep.step = "idle" /\ scan \in Ended /\ Unfinished # {}
    /\ sweep' = Sweep("none")
    /\ UNCHANGED <<world, rows, work, host, orch>>

(* The end of a RUNNING unit by cause: a stop beats the scan.              *)
ExpiredOutcomes(u) ==
    IF u \in stopped THEN Stopped
    ELSE {IF scan = "CANCELLED" THEN "CANCELLED" ELSE "FAILED"}

Untouched(u) ==
    status[u] \in Terminal \/ ~(scan \in Ended \/ (scan # "QUEUED" /\ clock >= Deadline))

(* What expirePlanUnits does with the unit it reads.  onUnitExpired        *)
(* confirms only a child that is gone, and an effect without confirmation  *)
(* overrules it; after the backstop the unit fails unconfirmed.            *)
Expire(u) ==
    IF Untouched(u) THEN {"skip"}
    ELSE IF status[u] \in PreRunning THEN {"REFUSED"}
    ELSE (IF u \notin children /\ u \notin unconfirmed
          THEN ExpiredOutcomes(u) ELSE {})
         \cup {IF clock >= Backstop THEN "FAILED" ELSE "skip"}

(* Predecessors first; the status is read in one statement, written later. *)
SweepRead(u) ==
    /\ sweep.step = "units" /\ u \in sweep.todo
    /\ Prerequisites(u) \cap sweep.todo = {}
    /\ \E o \in Expire(u) :
         sweep' = IF o = "skip" THEN [sweep EXCEPT !.todo = @ \ {u}]
                  ELSE [sweep EXCEPT !.step = "write", !.todo = @ \ {u},
                                     !.unit = u, !.out = o]
    /\ UNCHANGED <<world, rows, work, host, orch>>

(* An edge the finalizer refuses ends the sweep: the next one tries again. *)
SweepWrite ==
    /\ sweep.step = "write"
    /\ Finalize(sweep.unit, sweep.out)
    /\ sweep' = IF Throws(sweep.unit, sweep.out) THEN SweepIdle
                ELSE [sweep EXCEPT !.step = "units", !.unit = NoUnit, !.out = "none"]
    /\ UNCHANGED <<world, work, claimed, host, orch>>

(* The guarded move follows the units of a planned scan.                   *)
SweepEnd ==
    /\ sweep.step = "units" /\ sweep.todo = {}
    /\ sweep' = SweepIdle
    /\ scan' = IF scan = sweep.from THEN "TIMED_OUT" ELSE scan
    /\ UNCHANGED <<clock, module, stopped, rows, work, host, orch>>

-----------------------------------------------------------------------------
(* The rest of the system.                                                 *)

(* The scan (ScanLifecycle): RUNNING_PHASE_3 stands for every phase that   *)
(* runs modules, whose last module ends in phase 3.                        *)
ScanStarts ==
    /\ scan = "QUEUED"
    /\ scan' = "RUNNING_PHASE_3"
    /\ UNCHANGED <<clock, module, stopped, rows, work, procs>>

ModuleEnds(p) ==
    /\ scan = "RUNNING_PHASE_3" /\ module[p] = "RUNNING"
    /\ \E r \in {"COMPLETE", "FAILED"} : module' = [module EXCEPT ![p] = r]
    /\ UNCHANGED <<clock, scan, stopped, rows, work, procs>>

ReportDone ==
    /\ scan = "RUNNING_MASTER"
    /\ scan' = "COMPLETED"
    /\ UNCHANGED <<clock, module, stopped, rows, work, procs>>

ScanEnds ==
    /\ scan \in {"QUEUED"} \cup Sweepable
    /\ \E s \in {"CANCELLED", "FAILED"} : scan' = s
    /\ UNCHANGED <<clock, module, stopped, rows, work, procs>>

(* F07: a stop of the unit, a lease that is not renewed in time, and the   *)
(* reclaiming sweep (SafetyLeases).                                        *)
RequestStop(u) ==
    /\ u \notin stopped /\ faults < MaxFaults
    /\ stopped' = stopped \cup {u}
    /\ faults' = faults + 1
    /\ UNCHANGED <<clock, scan, module, rows, children, queued, procs>>

LeaseExpires(u) ==
    /\ lease[u] = "live"
    /\ lease' = [lease EXCEPT ![u] = "expired"]
    /\ UNCHANGED <<world, work, status, unconfirmed, claimed, procs>>

LeaseReclaimed(u) ==
    /\ lease[u] = "expired"
    /\ lease' = [lease EXCEPT ![u] = "none"]
    /\ UNCHANGED <<world, work, status, unconfirmed, claimed, procs>>

Tick ==
    /\ scan # "QUEUED" /\ clock < Backstop
    /\ clock' = clock + 1
    /\ UNCHANGED <<scan, module, stopped, rows, work, procs>>

(* A host dies: its token is lost, its claim and its lease stay.           *)
HostDies(h) ==
    /\ host[h].step # "idle" /\ faults < MaxFaults
    /\ Leave(h)
    /\ faults' = faults + 1
    /\ UNCHANGED <<world, rows, children, queued, orch, sweep>>

(* A child nobody waits for exits when its channel closes, not at once.    *)
ChildExits(u) ==
    /\ u \in children
    /\ \A h \in Host : host[h].unit = u => host[h].step \notin Owning
    /\ children' = children \ {u}
    /\ UNCHANGED <<world, rows, queued, faults, procs>>

-----------------------------------------------------------------------------
HostStep(h) ==
    \/ RequestAdmission(h) \/ ToAdmitted(h) \/ ReleaseLost(h)
    \/ ToDispatched(h) \/ ToRunning(h) \/ Refuse(h)
    \/ LoopStops(h) \/ RunEnds(h) \/ FinalizeUnit(h) \/ HostGate(h)

SweepStep ==
    \/ SweepTimeout \/ SweepHeal \/ (\E u \in Unit : SweepRead(u))
    \/ SweepWrite \/ SweepEnd

Next ==
    \/ EnqueuePlan
    \/ \E u \in Active : \/ RequestStop(u) \/ LeaseExpires(u)
                         \/ LeaseReclaimed(u) \/ ChildExits(u)
    \/ \E h \in Host : \/ HostStep(h) \/ HostDies(h)
                       \/ AuthorizeEffect(h) \/ ConfirmEffect(h)
                       \/ \E u \in Active : Pickup(h, u)
    \/ OrchBarrier \/ OrchGate
    \/ \E p \in Passive : CompletePassive(p) \/ ModuleEnds(p)
    \/ SweepStep \/ ScanStarts \/ ReportDone \/ ScanEnds \/ Tick

Spec == Init /\ [][Next]_vars

(* The clock runs; the sweep is a repeatable job; a host that lives ends   *)
(* its handler; a lease nobody renews expires and is reclaimed.            *)
FairSpec ==
    /\ Spec
    /\ WF_vars(ScanStarts \/ Tick) /\ WF_vars(SweepStep)
    /\ \A h \in Host : WF_vars(HostStep(h))
    /\ WF_vars(\E u \in Active : LeaseExpires(u) \/ LeaseReclaimed(u))

-----------------------------------------------------------------------------
(* Properties.                                                             *)

(* Every row, job and process is in one of the states the code knows.      *)
TypeOK ==
    /\ clock \in Plenty..Backstop /\ scan \in ScanState
    /\ module \in [Passive -> {"RUNNING", "COMPLETE", "FAILED"}]
    /\ status \in [Unit -> Status]
    /\ lease \in [Unit -> {"none", "live", "expired"}]
    /\ stopped \subseteq Active
    /\ unconfirmed \subseteq Active
    /\ claimed \subseteq Unit
    /\ children \subseteq Active
    /\ queued \subseteq Active
    /\ host \in [Host -> [step : HostSteps, unit : Unit \cup {NoUnit}, out : Outcomes]]
    /\ orch \in [step : {"phases", "passive", "done"}, todo : SUBSET Passive]
    /\ sweep \in [step : {"idle", "units", "write"}, from : Sweepable \cup {"none"},
                  todo : SUBSET Unit, unit : Unit \cup {NoUnit}, out : Outcomes]
    /\ faults \in 0..MaxFaults

(* "One host owns a unit attempt" (claim.ts): no two hosts are ever past   *)
(* the claim of the same unit, whatever is redelivered or dies.            *)
SoleHost ==
    \A g, h \in Host :
        /\ host[g].step \in Owning /\ host[h].step \in Owning
        /\ host[g].unit = host[h].unit
        => g = h

(* FR-010: a unit that was admitted had all its prerequisites COMPLETED,   *)
(* although only the enqueueing read checks them, and a unit with a        *)
(* non-passive prerequisite that ended otherwise has ended too.            *)
DependencyOrder ==
    \A u, v \in Unit : <<u, v>> \in Deps =>
        /\ status[u] \in {"ADMITTED", "DISPATCHED", "RUNNING"} \cup Ran
              => status[v] = "COMPLETED"
        /\ v \notin Passive /\ status[v] \in Terminal \ {"COMPLETED"}
              => status[u] \in Terminal

(* The barrier: no report is synthesised, and no scan completes, while a   *)
(* unit of the plan is unfinished.                                         *)
SynthesisAfterUnits ==
    scan \in {"RUNNING_MASTER", "COMPLETED"} => Unfinished = {}

(* A unit that has ended leaves nothing behind: no authorized effect       *)
(* without an answer, no lease but one granted while the unit was being    *)
(* refused, and no running child unless nobody could confirm its end       *)
(* until the backstop.                                                     *)
EndedUnitIsSettled ==
    \A u \in Unit : status[u] \in Terminal =>
        /\ u \notin unconfirmed
        /\ lease[u] # "none" => status[u] = "REFUSED"
        /\ u \in children => status[u] = "REFUSED" \/ clock >= Backstop

(* The first terminal write of a unit wins over every later one, of the    *)
(* host, of another host's refusal, of the sweep or of the orchestrator.   *)
FirstEndWins ==
    [][\A u \in Unit : status[u] \in Terminal => status'[u] = status[u]]_vars

(* Every unit ends and its lease comes back, whoever dies.                 *)
EveryUnitSettles ==
    <>[](\A u \in Unit : status[u] \in Terminal /\ lease[u] = "none")

(* plan-gate.ts: "a unit's finalization calls it again after the unit's    *)
(* terminal commit": a scan at the barrier whose units have all ended      *)
(* before the deadline is about to be continued by somebody.               *)
GateFollowsFinalization ==
    GateOpen /\ clock < Deadline =>
        \/ orch.step # "done"
        \/ \E h \in Host : host[h].step = "gate"

=============================================================================
