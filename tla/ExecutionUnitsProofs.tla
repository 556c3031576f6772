------------------------ MODULE ExecutionUnitsProofs ------------------------
(***************************************************************************)
(* Theorems about ExecutionUnits, for any plan (units, classes, edges), any*)
(* number of hosts and any number of deaths and stops.  The conditional    *)
(* updates look at one row each; that they suffice rests on what a host    *)
(* may conclude from its claim, and on what every queued unit has behind   *)
(* it, which no statement reads again.                                     *)
(***************************************************************************)
EXTENDS ExecutionUnits, TLAPS

Written == Ran \cup {"REFUSED"}

(* Every job in the hands of a host came from the queue, and what is about *)
(* to be written is an outcome.                                            *)
HostShape ==
    \A h \in Host : host[h].step # "idle" =>
        /\ host[h].unit \in queued
        /\ host[h].step = "finalize" => host[h].out \in Written

SweepShape == sweep.step = "write" => sweep.unit \in Unit /\ sweep.out \in Written

(* A host that owns its unit, or is about to write how the unit ran.       *)
Ending(h) == host[h].step = "finalize" /\ host[h].out \in Ran
Holder(h) == host[h].step \in Owning \/ Ending(h)

HoldersClaim ==
    /\ \A h \in Host : Holder(h) => host[h].unit \in claimed
    /\ \A g, h \in Host : Holder(g) /\ Holder(h) /\ host[g].unit = host[h].unit => g = h

(* What a holder knows of its unit's row and of its child: only a refusal  *)
(* may have come in between before the unit runs, only an end afterwards.  *)
StepStatus(h) ==
    LET u == host[h].unit
        s == host[h].step IN
    /\ s \in {"asking", "granted", "releasing"} => status[u] \in {"PLANNED", "REFUSED"}
    /\ s = "admitted" => status[u] \in {"ADMITTED", "REFUSED"}
    /\ s = "forked" => status[u] \in {"DISPATCHED", "REFUSED"}
    /\ s = "running" \/ Ending(h) => status[u] \in {"RUNNING"} \cup Ran
    /\ Ending(h) => u \notin children

(* A queued unit has its prerequisites behind it, for good, so that no end *)
(* of another unit can block it.                                           *)
Ready ==
    \A u \in queued : /\ status[u] # "BLOCKED"
                      /\ \A v \in Prerequisites(u) : status[v] = "COMPLETED"

(* Leases, children and effects belong to units that were queued.          *)
LeasesOK == \A u \in Unit : lease[u] # "none" => u \in Leased \cap queued
ChildrenOK == children \subseteq queued
EffectsOK == \A u \in unconfirmed : status[u] = "RUNNING"

(* What the sweep has read of a running unit still holds when it writes.   *)
SweepSound ==
    sweep.step = "write" /\ sweep.out \in Ran =>
        /\ status[sweep.unit] \in {"RUNNING"} \cup Ran
        /\ sweep.unit \in children => clock >= Backstop

Shapes == TypeOK /\ HostShape /\ SweepShape

IInv ==
    /\ Shapes /\ HoldersClaim /\ (\A h \in Host : StepStatus(h))
    /\ Ready /\ LeasesOK /\ ChildrenOK /\ EffectsOK /\ SweepSound
    /\ DependencyOrder /\ SynthesisAfterUnits /\ EndedUnitIsSettled

-----------------------------------------------------------------------------
(* Blocked(u) is a set of unfinished units, closed under dependents, each  *)
(* of which depends on an unfinished unit or on u.                         *)
LEMMA BlockedFacts ==
    ASSUME NEW u \in Unit
    PROVE  /\ Blocked(u) \subseteq Unfinished \ {u}
           /\ \A y \in Unfinished \ {u} : \A z \in Blocked(u) \cup {u} :
                <<y, z>> \in Deps => y \in Blocked(u)
           /\ \A x \in Blocked(u) : \E z \in Unfinished \cup {u} : <<x, z>> \in Deps
<1> DEFINE Rest == Unfinished \ {u}
           Closed(S) == \A y \in Rest : (\E z \in S \cup {u} : <<y, z>> \in Deps) => y \in S
<1>1. Blocked(u) = {x \in Rest : \A S \in SUBSET Rest : Closed(S) => x \in S}
  BY DEF Blocked
<1>2. ASSUME NEW y \in Rest, NEW z \in Blocked(u) \cup {u}, <<y, z>> \in Deps
      PROVE  y \in Blocked(u)
  <2> SUFFICES ASSUME NEW S \in SUBSET Rest, Closed(S) PROVE y \in S
    BY <1>1
  <2>1. z \in S \cup {u}
    BY <1>1, <1>2
  <2> QED BY <1>2, <2>1
<1>3. ASSUME NEW x \in Blocked(u) PROVE \E z \in Unfinished \cup {u} : <<x, z>> \in Deps
  <2> DEFINE T == {y \in Rest : \E z \in Unfinished \cup {u} : <<y, z>> \in Deps}
  <2>1. T \in SUBSET Rest
    OBVIOUS
  <2>2. Closed(T)
    OBVIOUS
  <2>3. x \in T
    BY <1>1, <1>3, <2>1, <2>2
  <2> QED BY <2>3
<1> QED BY <1>1, <1>2, <1>3

(* What fahes_finalize_unit does to the rows: the unit ends, with its      *)
(* lease and effects, or nothing happens; the dependents it blocks were    *)
(* never queued.                                                           *)
LEMMA FinalizeMoves ==
    ASSUME TypeOK, Ready, NEW u \in Unit, NEW out \in Written, Finalize(u, out)
    PROVE  /\ status' \in [Unit -> Status]
           /\ lease' \in [Unit -> {"none", "live", "expired"}]
           /\ unconfirmed' \subseteq unconfirmed
           /\ \A x \in Unit : lease'[x] = lease[x] \/ lease'[x] = "none"
           /\ status'[u] # status[u] =>
                /\ status'[u] = out /\ lease'[u] = "none" /\ u \notin unconfirmed'
                /\ status[u] \in IF out = "REFUSED" THEN PreRunning ELSE {"RUNNING"}
           /\ \A x \in Unit \ {u} : status'[x] # status[x] =>
                status[x] = "PLANNED" /\ status'[x] = "BLOCKED" /\ x \notin queued
<1>1. CASE ~Finalizable(u, out)
  BY <1>1 DEF Finalize, TypeOK
<1>2. CASE Finalizable(u, out)
  <2>1. /\ status' = Finalized(u, out) /\ lease' = [lease EXCEPT ![u] = "none"]
        /\ unconfirmed' = unconfirmed \ {u}
    BY <1>2 DEF Finalize
  <2>2. /\ status[u] \in IF out = "REFUSED" THEN PreRunning ELSE {"RUNNING"}
        /\ status[u] \notin Terminal
    BY <1>2 DEF Finalizable, PreRunning, Terminal, Ran
  <2>3. out \in Status /\ "BLOCKED" \in Status
    BY DEF Written, Status, Terminal, Ran
  <2>4. status' \in [Unit -> Status]
    BY <2>1, <2>3 DEF Finalized, TypeOK
  <2>5. ASSUME NEW x \in Unit \ {u}, status'[x] # status[x]
        PROVE  status[x] = "PLANNED" /\ status'[x] = "BLOCKED" /\ x \notin queued
    <3>1. x \in Blocked(u) /\ out # "COMPLETED" /\ status'[x] = "BLOCKED"
      BY <2>1, <2>5 DEF Finalized
    <3>2. status[x] = "PLANNED"
      BY <1>2, <3>1 DEF Finalizable
    <3>3. PICK z \in Unfinished \cup {u} : <<x, z>> \in Deps
      BY <3>1, BlockedFacts
    <3>4. z \in Unit /\ status[z] # "COMPLETED"
      BY <2>2, <3>3 DEF Unfinished, Terminal, Ran
    <3>5. x \notin queued
      BY <3>3, <3>4 DEF Ready, Prerequisites
    <3> QED BY <3>1, <3>2, <3>5
  <2> QED BY <2>1, <2>2, <2>4, <2>5 DEF Finalized, TypeOK
<1> QED BY <1>1, <1>2

(* The plan as it was resolved satisfies the invariant.                    *)
LEMMA InitStep == Init => IInv
<1> SUFFICES ASSUME Init PROVE IInv
  OBVIOUS
<1> USE UnitsAssumption DEF Init
<1>1. TypeOK
  BY DEF TypeOK, Plenty, Backstop, ScanState, Sweepable, Status, PreRunning, HostSteps, Outcomes,
         Idle, SweepIdle
<1>2. Shapes /\ HoldersClaim /\ \A h \in Host : StepStatus(h)
  BY <1>1 DEF Shapes, HostShape, SweepShape, HoldersClaim, StepStatus, Holder, Ending, Owning,
              Idle, SweepIdle
<1>3. Ready /\ LeasesOK /\ ChildrenOK /\ EffectsOK /\ SweepSound
  BY DEF Ready, LeasesOK, ChildrenOK, EffectsOK, SweepSound, SweepIdle
<1>4. DependencyOrder /\ SynthesisAfterUnits /\ EndedUnitIsSettled
  BY DEF DependencyOrder, SynthesisAfterUnits, EndedUnitIsSettled, Terminal, Ran
<1> QED BY <1>2, <1>3, <1>4 DEF IInv

-----------------------------------------------------------------------------
(* Every step keeps rows, queues and processes well formed.                *)

(* The unit of a host that is at work.                                     *)
LEMMA HostUnit ==
    ASSUME Shapes, NEW h \in Host, host[h].step # "idle"
    PROVE  host[h].unit \in queued /\ host[h].unit \in Active /\ host[h].unit \in Unit
BY DEF Shapes, HostShape, TypeOK, Active

(* A host's record after it moved on, took a job, or left.                 *)
HostRecord == [step : HostSteps, unit : Unit \cup {NoUnit}, out : Outcomes]

Becomes(h, s, u, o) ==
    /\ host' \in [Host -> HostRecord]
    /\ host'[h].step = s /\ host'[h].unit = u /\ host'[h].out = o
    /\ \A g \in Host \ {h} : host'[g] = host[g]

(* How the operators that move a host change its record.                   *)
LEMMA HostMoves ==
    ASSUME TypeOK, NEW h \in Host
    PROVE  /\ Leave(h) => Becomes(h, "idle", NoUnit, "none")
           /\ \A s \in HostSteps : Goto(h, s) => Becomes(h, s, host[h].unit, host[h].out)
           /\ \A s \in HostSteps : \A o \in Outcomes :
                GotoWith(h, s, o) => Becomes(h, s, host[h].unit, o)
           /\ \A u \in Unit : \A s \in HostSteps : \A o \in Outcomes :
                Take(h, u, s, o) => Becomes(h, s, u, o)
<1> USE DEF Becomes, HostRecord
<1>0. host \in [Host -> HostRecord]
  BY DEF TypeOK
<1>1. ASSUME Leave(h) PROVE Becomes(h, "idle", NoUnit, "none")
  <2>1. Idle \in HostRecord
    BY DEF Idle, HostSteps, Outcomes
  <2> QED BY <1>0, <1>1, <2>1 DEF Leave, Idle
<1>2. ASSUME NEW s \in HostSteps, Goto(h, s) PROVE Becomes(h, s, host[h].unit, host[h].out)
  BY <1>0, <1>2 DEF Goto
<1>3. ASSUME NEW s \in HostSteps, NEW o \in Outcomes, GotoWith(h, s, o)
      PROVE  Becomes(h, s, host[h].unit, o)
  BY <1>0, <1>3 DEF GotoWith
<1>4. ASSUME NEW u \in Unit, NEW s \in HostSteps, NEW o \in Outcomes, Take(h, u, s, o)
      PROVE  Becomes(h, s, u, o)
  BY <1>0, <1>4 DEF Take
<1> QED BY <1>1, <1>2, <1>3, <1>4

(* The record of the one host that moves is well formed.                   *)
LEMMA HostShaped ==
    ASSUME Shapes, NEW h \in Host, NEW s, NEW x, NEW o, Becomes(h, s, x, o),
           queued \subseteq queued', s # "idle" => x \in queued',
           s = "finalize" => o \in Written
    PROVE  HostShape'
BY DEF Shapes, HostShape, Becomes

(* Where a step of a host leads: to no job but its own, and it never       *)
(* becomes a holder by a step of the unit's handler.                       *)
Led(h) ==
    \E s \in HostSteps : \E x \in Unit \cup {NoUnit} : \E o \in Outcomes :
        /\ Becomes(h, s, x, o)
        /\ s # "idle" => x = host[h].unit
        /\ s = "finalize" => o \in Ran
        /\ s \in Owning \cup {"finalize"} => host[h].step \in Owning

(* Leaving, and moving on from a step that owns the unit, are such moves.  *)
LEMMA LedByMoves ==
    ASSUME Shapes, NEW h \in Host
    PROVE  /\ Leave(h) => Led(h)
           /\ \A s \in Owning \cup {"refuse"} :
                host[h].step \in Owning /\ Goto(h, s) => Led(h)
           /\ \A o \in Ran :
                host[h].step \in Owning /\ GotoWith(h, "finalize", o) => Led(h)
           /\ \A o \in Outcomes : GotoWith(h, "gate", o) => Led(h)
<1>0. TypeOK /\ host[h] \in HostRecord
  BY DEF Shapes, TypeOK, HostRecord
<1>1. host[h].unit \in Unit \cup {NoUnit} /\ host[h].out \in Outcomes
  BY <1>0 DEF HostRecord
<1>2. ASSUME Leave(h) PROVE Led(h)
  <2>1. Becomes(h, "idle", NoUnit, "none")
    BY <1>0, <1>2, HostMoves
  <2>2. /\ "idle" \in HostSteps /\ NoUnit \in Unit \cup {NoUnit} /\ "none" \in Outcomes
        /\ "idle" \notin Owning \cup {"finalize"}
    BY DEF HostSteps, Outcomes, Owning
  <2> QED BY <2>1, <2>2 DEF Led
<1>3. ASSUME NEW s \in Owning \cup {"refuse"}, host[h].step \in Owning, Goto(h, s)
      PROVE  Led(h)
  <2>1. s \in HostSteps /\ s # "finalize"
    BY DEF HostSteps, Owning
  <2>2. Becomes(h, s, host[h].unit, host[h].out)
    BY <1>0, <1>3, <2>1, HostMoves
  <2> QED BY <1>1, <1>3, <2>1, <2>2 DEF Led
<1>4. ASSUME NEW o \in Ran, host[h].step \in Owning, GotoWith(h, "finalize", o)
      PROVE  Led(h)
  <2>1. "finalize" \in HostSteps /\ o \in Outcomes
    BY DEF HostSteps, Outcomes
  <2>2. Becomes(h, "finalize", host[h].unit, o)
    BY <1>0, <1>4, <2>1, HostMoves
  <2> QED BY <1>1, <1>4, <2>1, <2>2 DEF Led
<1>5. ASSUME NEW o \in Outcomes, GotoWith(h, "gate", o) PROVE Led(h)
  <2>1. "gate" \in HostSteps /\ "gate" \notin Owning \cup {"finalize"}
    BY DEF HostSteps, Owning
  <2>2. Becomes(h, "gate", host[h].unit, o)
    BY <1>0, <1>5, <2>1, HostMoves
  <2> QED BY <1>1, <2>1, <2>2 DEF Led
<1> QED BY <1>2, <1>3, <1>4, <1>5

(* So is every step of the unit's handler.                                 *)
LEMMA HostStepMoves ==
    ASSUME Shapes, NEW h \in Host, HostStep(h)
    PROVE  Led(h)
<1>0. host[h].out \in Outcomes
  BY DEF Shapes, TypeOK
<1>1. /\ {"asking", "granted", "admitted", "releasing", "forked", "running"} \subseteq Owning
      /\ {"granted", "admitted", "releasing", "forked", "running", "refuse"}
            \subseteq Owning \cup {"refuse"}
      /\ "replayed" \in Outcomes
  BY DEF Owning, Outcomes
<1>2. CASE RequestAdmission(h)
  BY <1>1, <1>2, LedByMoves DEF RequestAdmission
<1>3. CASE ToAdmitted(h)
  BY <1>1, <1>3, LedByMoves DEF ToAdmitted
<1>4. CASE ReleaseLost(h)
  BY <1>4, LedByMoves DEF ReleaseLost
<1>5. CASE ToDispatched(h)
  BY <1>1, <1>5, LedByMoves DEF ToDispatched
<1>6. CASE ToRunning(h)
  BY <1>1, <1>6, LedByMoves DEF ToRunning
<1>7. CASE Refuse(h)
  BY <1>7, LedByMoves DEF Refuse
<1>8. CASE LoopStops(h)
  BY <1>1, <1>8, LedByMoves DEF LoopStops, Write
<1>9. CASE RunEnds(h)
  BY <1>1, <1>9, LedByMoves DEF RunEnds, Write
<1>10. CASE FinalizeUnit(h)
  BY <1>0, <1>1, <1>10, LedByMoves DEF FinalizeUnit
<1>11. CASE HostGate(h)
  BY <1>11, LedByMoves DEF HostGate
<1> QED BY <1>2, <1>3, <1>4, <1>5, <1>6, <1>7, <1>8, <1>9, <1>10, <1>11 DEF HostStep

(* The steps of a host.                                                    *)
LEMMA HostTypes ==
    ASSUME Shapes, Ready, NEW h \in Host, HostStep(h)
    PROVE  Shapes'
<1> DEFINE u == host[h].unit
<1>0. u \in queued /\ u \in Active /\ u \in Unit /\ TypeOK
  BY HostUnit DEF HostStep, RequestAdmission, ToAdmitted, ReleaseLost, ToDispatched, ToRunning,
     Refuse, LoopStops, RunEnds, FinalizeUnit, HostGate, Shapes
<1>1. PICK s \in HostSteps, x \in Unit \cup {NoUnit}, o \in Outcomes :
             /\ Becomes(h, s, x, o)
             /\ s # "idle" => x = host[h].unit
             /\ s = "finalize" => o \in Written
  BY HostStepMoves DEF Led, Written
<1>2. host' \in [Host -> [step : HostSteps, unit : Unit \cup {NoUnit}, out : Outcomes]]
  BY <1>1 DEF Becomes, HostRecord
<1>3. /\ queued \subseteq queued' /\ queued' \subseteq Active
      /\ UNCHANGED <<clock, module, stopped, faults, orch, sweep>>
      /\ scan' \in ScanState
      /\ children' \subseteq children \cup {u}
      /\ claimed' = claimed
  BY <1>0 DEF HostStep, RequestAdmission, ToAdmitted, ReleaseLost, ToDispatched, ToRunning,
     Refuse, LoopStops, RunEnds, FinalizeUnit, HostGate, TypeOK, world, rows, work, Continue,
     Eligible, ScanState, Sweepable
<1>4. /\ status' \in [Unit -> Status] /\ unconfirmed' \subseteq unconfirmed
      /\ lease' \in [Unit -> {"none", "live", "expired"}]
  <2>1. CASE Refuse(h) \/ FinalizeUnit(h)
    <3>1. \E out \in Written : Finalize(u, out)
      BY <2>1 DEF Refuse, FinalizeUnit, Written, Shapes, HostShape
    <3> QED BY <1>0, <3>1, FinalizeMoves
  <2>2. CASE ~(Refuse(h) \/ FinalizeUnit(h))
    BY <1>0, <2>2 DEF HostStep, RequestAdmission, ToAdmitted, ReleaseLost, ToDispatched, ToRunning,
       LoopStops, RunEnds, HostGate, TypeOK, rows, Status, PreRunning
  <2> QED BY <2>1, <2>2
<1>5. TypeOK'
  BY <1>0, <1>2, <1>3, <1>4 DEF TypeOK
<1>6. HostShape'
  BY <1>0, <1>1, <1>3, HostShaped
<1> QED BY <1>3, <1>5, <1>6 DEF Shapes, SweepShape

(* A job is taken from the queue, or dies with its host.                   *)
LEMMA PickupTypes ==
    ASSUME Shapes, NEW h \in Host, NEW u \in Active, Pickup(h, u)
    PROVE  Shapes'
<1>0. TypeOK /\ u \in Unit /\ u \in queued
  BY DEF Shapes, Active, Pickup
<1>1. \E s \in HostSteps : \E o \in Outcomes :
        Take(h, u, s, o) /\ (s = "finalize" => o \in Written)
  BY DEF Pickup, HostSteps, Outcomes, Written
<1>2. PICK s \in HostSteps, o \in Outcomes :
        Becomes(h, s, u, o) /\ (s = "finalize" => o \in Written)
  BY <1>0, <1>1, HostMoves
<1>3. claimed' \subseteq Unit /\ UNCHANGED <<world, work, status, lease, unconfirmed, orch, sweep>>
  BY <1>0 DEF Pickup, TypeOK
<1>4. TypeOK'
  BY <1>0, <1>2, <1>3 DEF TypeOK, Becomes, HostRecord, world, work
<1>5. HostShape'
  BY <1>0, <1>2, <1>3, HostShaped DEF work
<1> QED BY <1>3, <1>4, <1>5 DEF Shapes, SweepShape

(* A host that dies leaves an idle record behind.                          *)
LEMMA DeathTypes ==
    ASSUME Shapes, NEW h \in Host, HostDies(h)
    PROVE  Shapes' /\ Becomes(h, "idle", NoUnit, "none")
<1>1. TypeOK /\ Becomes(h, "idle", NoUnit, "none")
  BY HostMoves DEF Shapes, HostDies
<1>2. /\ UNCHANGED <<world, rows, children, queued, orch, sweep>> /\ faults' = faults + 1
      /\ faults < MaxFaults
  BY DEF HostDies
<1>3. TypeOK'
  BY <1>1, <1>2, UnitsAssumption DEF TypeOK, Becomes, HostRecord, world, rows
<1>4. HostShape'
  BY <1>1, <1>2, HostShaped
<1> QED BY <1>1, <1>2, <1>3, <1>4 DEF Shapes, SweepShape

(* The sweep.                                                              *)
LEMMA SweepTypes ==
    ASSUME Shapes, Ready, SweepStep
    PROVE  Shapes'
<1>0. TypeOK
  BY DEF Shapes
<1>1. UNCHANGED <<host, queued>>
  BY DEF SweepStep, SweepTimeout, SweepHeal, SweepRead, SweepWrite, SweepEnd, work
<1>2. CASE SweepTimeout \/ SweepHeal
  BY <1>0, <1>2 DEF SweepTimeout, SweepHeal, Sweep, Unfinished, TypeOK, Shapes, HostShape,
     SweepShape, world, rows, work, Outcomes
<1>3. ASSUME NEW u \in Unit, SweepRead(u) PROVE Shapes'
  <2>1. PICK o \in Expire(u) :
          sweep' = IF o = "skip" THEN [sweep EXCEPT !.todo = @ \ {u}]
                   ELSE [sweep EXCEPT !.step = "write", !.todo = @ \ {u}, !.unit = u, !.out = o]
    BY <1>3 DEF SweepRead
  <2>2. o = "skip" \/ o \in Written
    BY DEF Expire, ExpiredOutcomes, Stopped, Written, Ran
  <2>3. Written \subseteq Outcomes
    BY DEF Written, Outcomes
  <2>4. /\ sweep' \in [step : {"idle", "units", "write"}, from : Sweepable \cup {"none"},
                       todo : SUBSET Unit, unit : Unit \cup {NoUnit}, out : Outcomes]
        /\ sweep'.step = "write" => sweep'.unit \in Unit /\ sweep'.out \in Written
    <3>1. CASE o = "skip"
      BY <1>0, <1>3, <2>1, <3>1 DEF TypeOK, SweepRead
    <3>2. CASE o # "skip"
      BY <1>0, <2>1, <2>2, <2>3, <3>2 DEF TypeOK
    <3> QED BY <3>1, <3>2
  <2> QED BY <1>0, <1>3, <2>4 DEF SweepRead, TypeOK, Shapes, HostShape, SweepShape, world, rows, work
<1>4. CASE SweepWrite
  <2>1. sweep.unit \in Unit /\ sweep.out \in Written /\ Finalize(sweep.unit, sweep.out)
    BY <1>4 DEF SweepWrite, Shapes, SweepShape
  <2>2. /\ status' \in [Unit -> Status] /\ unconfirmed' \subseteq unconfirmed
        /\ lease' \in [Unit -> {"none", "live", "expired"}]
    BY <1>0, <2>1, FinalizeMoves
  <2>3. /\ sweep' \in [step : {"idle", "units", "write"}, from : Sweepable \cup {"none"},
                       todo : SUBSET Unit, unit : Unit \cup {NoUnit}, out : Outcomes]
        /\ sweep'.step # "write"
    BY <1>0, <1>4 DEF SweepWrite, TypeOK, SweepIdle, Outcomes
  <2> QED BY <1>0, <1>1, <1>4, <2>2, <2>3 DEF SweepWrite, TypeOK, Shapes, HostShape, SweepShape,
             world, work
<1>5. CASE SweepEnd
  BY <1>0, <1>1, <1>5 DEF SweepEnd, SweepIdle, TypeOK, Shapes, HostShape, SweepShape, rows, work,
     Outcomes, ScanState, Ended
<1> QED BY <1>2, <1>3, <1>4, <1>5 DEF SweepStep

(* The plan, the orchestrator, and the world outside.                      *)
LEMMA OtherTypes ==
    ASSUME Shapes,
           \/ EnqueuePlan \/ OrchBarrier \/ OrchGate
           \/ ScanStarts \/ ReportDone \/ ScanEnds \/ Tick
           \/ \E u \in Active : RequestStop(u) \/ LeaseExpires(u) \/ LeaseReclaimed(u) \/ ChildExits(u)
           \/ \E h \in Host : AuthorizeEffect(h) \/ ConfirmEffect(h)
           \/ \E p \in Passive : CompletePassive(p) \/ ModuleEnds(p)
    PROVE  Shapes' /\ host' = host
<1>0. TypeOK /\ Active \subseteq Unit
  BY DEF Shapes, Active
<1>1. ASSUME TypeOK', host' = host, queued \subseteq queued', sweep' = sweep
      PROVE  Shapes' /\ host' = host
  BY <1>1 DEF Shapes, HostShape, SweepShape
<1>2. CASE EnqueuePlan
  BY <1>0, <1>1, <1>2 DEF EnqueuePlan, Eligible, TypeOK, world, rows, procs
<1>3. CASE OrchBarrier \/ OrchGate
  BY <1>0, <1>1, <1>3 DEF OrchBarrier, OrchGate, Continue, TypeOK, world, rows, work, ScanState, Sweepable
<1>4. CASE ScanStarts \/ ReportDone \/ ScanEnds
  BY <1>0, <1>1, <1>4 DEF ScanStarts, ReportDone, ScanEnds, TypeOK, rows, work, procs, ScanState,
     Sweepable, Ended
<1>5. CASE Tick
  BY <1>0, <1>1, <1>5 DEF Tick, TypeOK, rows, work, procs, Plenty, Backstop
<1>6. ASSUME NEW u \in Active, RequestStop(u) PROVE Shapes' /\ host' = host
  BY <1>0, <1>1, <1>6, UnitsAssumption DEF RequestStop, TypeOK, rows, procs
<1>7. ASSUME NEW u \in Active, LeaseExpires(u) \/ LeaseReclaimed(u) PROVE Shapes' /\ host' = host
  BY <1>0, <1>1, <1>7 DEF LeaseExpires, LeaseReclaimed, TypeOK, world, work, procs
<1>8. ASSUME NEW u \in Active, ChildExits(u) PROVE Shapes' /\ host' = host
  BY <1>0, <1>1, <1>8 DEF ChildExits, TypeOK, world, rows, procs
<1>9. ASSUME NEW h \in Host, AuthorizeEffect(h) \/ ConfirmEffect(h) PROVE Shapes' /\ host' = host
  <2>1. host[h].unit \in Active
    BY <1>9, HostUnit DEF AuthorizeEffect, ConfirmEffect, Serving
  <2> QED BY <1>0, <1>1, <1>9, <2>1 DEF AuthorizeEffect, ConfirmEffect, TypeOK, world, work, procs
<1>10. ASSUME NEW p \in Passive, CompletePassive(p) PROVE Shapes' /\ host' = host
  BY <1>0, <1>1, <1>10, UnitsAssumption DEF CompletePassive, TypeOK, world, work, Status, Terminal, Ran
<1>11. ASSUME NEW p \in Passive, ModuleEnds(p) PROVE Shapes' /\ host' = host
  BY <1>0, <1>1, <1>11 DEF ModuleEnds, TypeOK, rows, work, procs
<1> QED BY <1>2, <1>3, <1>4, <1>5, <1>6, <1>7, <1>8, <1>9, <1>10, <1>11

(* No step spoils the shape of the rows, the hosts or the sweep.           *)
LEMMA ShapesStep ==
    ASSUME Shapes, Ready, [Next]_vars
    PROVE  Shapes'
<1>1. ASSUME NEW h \in Host, HostStep(h) PROVE Shapes'
  BY <1>1, HostTypes
<1>2. ASSUME NEW h \in Host, HostDies(h) PROVE Shapes'
  BY <1>2, DeathTypes
<1>3. ASSUME NEW h \in Host, NEW u \in Active, Pickup(h, u) PROVE Shapes'
  BY <1>3, PickupTypes
<1>4. CASE SweepStep
  BY <1>4, SweepTypes
<1>5. CASE UNCHANGED vars
  BY <1>5 DEF vars, Shapes, TypeOK, HostShape, SweepShape
<1> QED BY <1>1, <1>2, <1>3, <1>4, <1>5, OtherTypes DEF Next

-----------------------------------------------------------------------------
(* How the row of a unit may move in one step.                             *)

(* The conditional updates of the host that holds the unit.                *)
Advanced(h, from, to, s) ==
    /\ status[host[h].unit] = from
    /\ status' = [status EXCEPT ![host[h].unit] = to]
    /\ host'[h].step = s

Advance(h) ==
    \/ host[h].step = "granted" /\ Advanced(h, "PLANNED", "ADMITTED", "admitted")
    \/ host[h].step = "admitted" /\ Advanced(h, "ADMITTED", "DISPATCHED", "forked")
    \/ host[h].step = "forked" /\ Advanced(h, "DISPATCHED", "RUNNING", "running")

RowMoves(x) ==
    \/ status'[x] = status[x]
    \/ status[x] \in PreRunning /\ status'[x] = "REFUSED"
    \/ status[x] = "PLANNED" /\ status'[x] = "BLOCKED" /\ x \notin queued
    \/ status[x] = "RUNNING" /\ status'[x] \in Ran
    \/ /\ x \in Passive /\ status[x] = "PLANNED" /\ status'[x] = "COMPLETED"
       /\ \A v \in Prerequisites(x) : status[v] = "COMPLETED"
    \/ \E h \in Host : host[h].unit = x /\ Advance(h)

(* Who writes rows: a run ends by its holder or by the sweep.              *)
EndWritten(u, out) ==
    /\ Finalize(u, out) /\ UNCHANGED <<world, work>>
    /\ \/ out = "REFUSED"
       \/ \E h \in Host : Ending(h) /\ host[h].unit = u
       \/ sweep.step = "write" /\ sweep.unit = u /\ sweep.out = out

(* A unit's row is written by a conditional update of its host, by a       *)
(* finalization, or by the completion of a passive unit; by nothing else.  *)
LEMMA RowWriters ==
    ASSUME Shapes, [Next]_vars
    PROVE  \/ status' = status
           \/ \E h \in Host : HostStep(h) /\ Advance(h)
           \/ \E u \in Unit : \E out \in Written : EndWritten(u, out)
           \/ \E p \in Passive : CompletePassive(p)
<1>1. ASSUME NEW h \in Host, HostStep(h)
      PROVE  \/ status' = status \/ Advance(h)
             \/ \E u \in Unit : \E out \in Written : EndWritten(u, out)
  <2>1. CASE Refuse(h) \/ FinalizeUnit(h)
    <3>1. host[h].unit \in Unit
      BY <2>1, HostUnit DEF Refuse, FinalizeUnit
    <3>2. CASE Refuse(h)
      <4>1. EndWritten(host[h].unit, "REFUSED") /\ "REFUSED" \in Written
        BY <3>2 DEF Refuse, EndWritten, Written
      <4> QED BY <3>1, <4>1
    <3>3. CASE FinalizeUnit(h)
      <4>1. EndWritten(host[h].unit, host[h].out) /\ host[h].out \in Written
        BY <3>3 DEF FinalizeUnit, EndWritten, Written, Shapes, HostShape, Ending
      <4> QED BY <3>1, <4>1
    <3> QED BY <2>1, <3>2, <3>3
  <2>2. CASE ToAdmitted(h) \/ ToDispatched(h) \/ ToRunning(h)
    <3>1. \A s \in {"admitted", "forked", "running"} : Goto(h, s) => host'[h].step = s
      BY HostMoves DEF Shapes, Becomes, HostSteps
    <3> QED BY <2>2, <3>1 DEF ToAdmitted, ToDispatched, ToRunning, Advance, Advanced, Wins
  <2>3. CASE RequestAdmission(h) \/ ReleaseLost(h) \/ LoopStops(h) \/ RunEnds(h) \/ HostGate(h)
    BY <2>3 DEF RequestAdmission, ReleaseLost, LoopStops, RunEnds, HostGate, rows
  <2> QED BY <1>1, <2>1, <2>2, <2>3 DEF HostStep
<1>2. CASE SweepStep
  BY <1>2 DEF SweepStep, SweepTimeout, SweepHeal, SweepRead, SweepWrite, SweepEnd, rows, Shapes,
     SweepShape, EndWritten
<1>3. ASSUME NEW h \in Host,
             HostDies(h) \/ AuthorizeEffect(h) \/ ConfirmEffect(h) \/ \E u \in Active : Pickup(h, u)
      PROVE  status' = status
  BY <1>3 DEF HostDies, AuthorizeEffect, ConfirmEffect, Pickup, rows
<1>4. ASSUME NEW u \in Active,
             RequestStop(u) \/ LeaseExpires(u) \/ LeaseReclaimed(u) \/ ChildExits(u)
      PROVE  status' = status
  BY <1>4 DEF RequestStop, LeaseExpires, LeaseReclaimed, ChildExits, rows
<1>5. ASSUME \/ EnqueuePlan \/ OrchBarrier \/ OrchGate \/ ScanStarts \/ ReportDone
             \/ ScanEnds \/ Tick \/ UNCHANGED vars \/ \E p \in Passive : ModuleEnds(p)
      PROVE  status' = status
  BY <1>5 DEF EnqueuePlan, OrchBarrier, OrchGate, ScanStarts, ReportDone, ScanEnds, Tick, vars,
     ModuleEnds, rows
<1> QED BY <1>1, <1>2, <1>3, <1>4, <1>5 DEF Next

(* Every row moves along the edges of the unit's state machine.            *)
LEMMA RowsMove ==
    ASSUME Shapes, Ready, [Next]_vars
    PROVE  \A x \in Unit : RowMoves(x)
<1> SUFFICES ASSUME NEW x \in Unit PROVE RowMoves(x)
  OBVIOUS
<1>0. TypeOK
  BY DEF Shapes
<1>1. CASE status' = status
  BY <1>1 DEF RowMoves
<1>2. ASSUME NEW h \in Host, HostStep(h), Advance(h) PROVE RowMoves(x)
  <2>1. CASE host[h].unit = x
    BY <1>2, <2>1 DEF RowMoves
  <2>2. CASE host[h].unit # x
    BY <1>0, <1>2, <2>2 DEF RowMoves, Advance, Advanced, TypeOK
  <2> QED BY <2>1, <2>2
<1>3. ASSUME NEW u \in Unit, NEW out \in Written, EndWritten(u, out) PROVE RowMoves(x)
  <2>1. CASE x = u
    BY <1>0, <1>3, <2>1, FinalizeMoves DEF RowMoves, Written, EndWritten
  <2>2. CASE x # u
    BY <1>0, <1>3, <2>2, FinalizeMoves DEF RowMoves, EndWritten
  <2> QED BY <2>1, <2>2
<1>4. ASSUME NEW p \in Passive, CompletePassive(p) PROVE RowMoves(x)
  BY <1>0, <1>4, UnitsAssumption DEF CompletePassive, Completable, RowMoves, PreRunning, TypeOK
<1> QED BY <1>1, <1>2, <1>3, <1>4, RowWriters

(* A row that has ended stays as it is.                                    *)
LEMMA EndsAreFinal ==
    ASSUME Shapes, Ready, [Next]_vars, NEW x \in Unit, status[x] \in Terminal
    PROVE  status'[x] = status[x]
<1>1. RowMoves(x)
  BY RowsMove
<1>2. ~(\E h \in Host : host[h].unit = x /\ Advance(h))
  BY DEF Advance, Advanced, Terminal, Ran
<1> QED BY <1>1, <1>2 DEF RowMoves, PreRunning, Terminal, Ran

(* What was queued keeps what it has behind it.                            *)
LEMMA ReadyStep ==
    ASSUME Shapes, Ready, [Next]_vars
    PROVE  Ready' /\ queued \subseteq queued'
<1>1. queued' = queued \/ (queued' = queued \cup Eligible /\ status' = status)
  BY DEF Next, vars, HostStep, SweepStep, EnqueuePlan, RequestStop, LeaseExpires, LeaseReclaimed,
     ChildExits, RequestAdmission, ToAdmitted, ReleaseLost, ToDispatched, ToRunning, Refuse,
     LoopStops, RunEnds, FinalizeUnit, HostGate, HostDies, AuthorizeEffect, ConfirmEffect, Pickup,
     OrchBarrier, OrchGate, CompletePassive, ModuleEnds, SweepTimeout, SweepHeal, SweepRead,
     SweepWrite, SweepEnd, ScanStarts, ReportDone, ScanEnds, Tick, work, rows
<1>2. ASSUME NEW u \in queued
      PROVE  status'[u] # "BLOCKED" /\ \A v \in Prerequisites(u) : status'[v] = "COMPLETED"
  <2>1. u \in Unit /\ status[u] # "BLOCKED" /\ \A v \in Prerequisites(u) : status[v] = "COMPLETED"
    BY DEF Shapes, TypeOK, Active, Ready
  <2>2. RowMoves(u)
    BY <2>1, RowsMove
  <2>3. status'[u] # "BLOCKED"
    BY <2>1, <2>2 DEF RowMoves, Advance, Advanced, Ran, Shapes, TypeOK
  <2>4. ASSUME NEW v \in Prerequisites(u) PROVE status'[v] = "COMPLETED"
    BY <2>1, EndsAreFinal DEF Prerequisites, Terminal, Ran
  <2> QED BY <2>3, <2>4
<1>3. CASE queued' = queued
  BY <1>2, <1>3 DEF Ready, Prerequisites
<1>4. CASE queued' = queued \cup Eligible /\ status' = status
  BY <1>2, <1>4 DEF Ready, Prerequisites, Eligible
<1> QED BY <1>1, <1>3, <1>4

-----------------------------------------------------------------------------
(* Claims.                                                                 *)

(* What a step does to the hosts.                                          *)
LEMMA HostsMove ==
    ASSUME Shapes, [Next]_vars
    PROVE  \/ host' = host /\ claimed' = claimed
           \/ \E h \in Host : Led(h) /\ claimed' = claimed /\ (HostStep(h) \/ HostDies(h))
           \/ \E h \in Host : \E u \in Active : Pickup(h, u)
<1>1. ASSUME NEW h \in Host, HostStep(h) PROVE Led(h) /\ claimed' = claimed
  <2>1. claimed' = claimed
    BY <1>1 DEF HostStep, RequestAdmission, ToAdmitted, ReleaseLost, ToDispatched, ToRunning, Refuse,
       LoopStops, RunEnds, FinalizeUnit, HostGate, rows
  <2> QED BY <1>1, <2>1, HostStepMoves
<1>2. ASSUME NEW h \in Host, HostDies(h) PROVE Led(h) /\ claimed' = claimed
  BY <1>2, LedByMoves DEF HostDies, rows
<1>3. ASSUME NEW h \in Host, AuthorizeEffect(h) \/ ConfirmEffect(h)
      PROVE  host' = host /\ claimed' = claimed
  BY <1>3 DEF AuthorizeEffect, ConfirmEffect, procs
<1>4. ASSUME NEW u \in Active,
             RequestStop(u) \/ LeaseExpires(u) \/ LeaseReclaimed(u) \/ ChildExits(u)
      PROVE  host' = host /\ claimed' = claimed
  BY <1>4 DEF RequestStop, LeaseExpires, LeaseReclaimed, ChildExits, rows, procs
<1>5. ASSUME \/ EnqueuePlan \/ OrchBarrier \/ OrchGate \/ ScanStarts \/ ReportDone \/ SweepStep
             \/ ScanEnds \/ Tick \/ UNCHANGED vars
             \/ \E p \in Passive : CompletePassive(p) \/ ModuleEnds(p)
      PROVE  host' = host /\ claimed' = claimed
  BY <1>5 DEF EnqueuePlan, OrchBarrier, OrchGate, ScanStarts, ReportDone, ScanEnds, Tick, vars,
     SweepStep, SweepTimeout, SweepHeal, SweepRead, SweepWrite, SweepEnd, CompletePassive,
     ModuleEnds, rows, procs
<1> QED BY <1>1, <1>2, <1>3, <1>4, <1>5 DEF Next

(* The one host whose record a step of its handler changes.                *)
LEMMA LedHolds ==
    ASSUME Shapes, NEW h \in Host, Led(h)
    PROVE  /\ \A g \in Host \ {h} : host'[g] = host[g]
           /\ Holder(h)' => host[h].step \in Owning /\ host'[h].unit = host[h].unit
           /\ host'[h].step # "idle" => host'[h].unit = host[h].unit
BY DEF Led, Becomes, Holder, Ending, Owning

(* What taking a job makes of a host.                                      *)
LEMMA PickupMoves ==
    ASSUME Shapes, NEW h \in Host, NEW u \in Active, Pickup(h, u)
    PROVE  /\ \A g \in Host \ {h} : host'[g] = host[g]
           /\ host'[h].unit = u /\ status[u] = "PLANNED"
           /\ Holder(h)' => host'[h].step = "asking" /\ u \notin claimed /\ u \in claimed'
           /\ claimed \subseteq claimed'
           /\ UNCHANGED <<world, work, status, lease, unconfirmed, orch, sweep>>
<1>0. TypeOK /\ u \in Unit
  BY DEF Shapes, Active
<1>1. CASE Take(h, u, "finalize", "REFUSED") /\ UNCHANGED claimed
  <2>1. Becomes(h, "finalize", u, "REFUSED")
    BY <1>0, <1>1, HostMoves DEF HostSteps, Outcomes
  <2>2. ~Holder(h)'
    BY <2>1 DEF Becomes, Holder, Ending, Owning, Ran
  <2> QED BY <1>1, <2>1, <2>2 DEF Pickup, Becomes
<1>2. CASE Take(h, u, "refuse", "none") /\ (UNCHANGED claimed \/ claimed' = claimed \cup {u})
  <2>1. Becomes(h, "refuse", u, "none")
    BY <1>0, <1>2, HostMoves DEF HostSteps, Outcomes
  <2>2. ~Holder(h)'
    BY <2>1 DEF Becomes, Holder, Ending, Owning
  <2> QED BY <1>2, <2>1, <2>2 DEF Pickup, Becomes
<1>3. CASE Take(h, u, "asking", "none") /\ u \notin claimed /\ claimed' = claimed \cup {u}
  <2>1. Becomes(h, "asking", u, "none")
    BY <1>0, <1>3, HostMoves DEF HostSteps, Outcomes
  <2> QED BY <1>3, <2>1 DEF Pickup, Becomes
<1> QED BY <1>1, <1>2, <1>3 DEF Pickup

(* One claim, one holder.                                                  *)
LEMMA ClaimsStep ==
    ASSUME Shapes, HoldersClaim, [Next]_vars
    PROVE  HoldersClaim'
<1>1. CASE host' = host /\ claimed' = claimed
  BY <1>1 DEF HoldersClaim, Holder, Ending
<1>2. ASSUME NEW h \in Host, Led(h), claimed' = claimed PROVE HoldersClaim'
  <2>1. \A g \in Host : Holder(g)' => Holder(g) /\ host'[g].unit = host[g].unit
    BY <1>2, LedHolds DEF Holder, Ending
  <2> QED BY <1>2, <2>1 DEF HoldersClaim
<1>3. ASSUME NEW h \in Host, NEW u \in Active, Pickup(h, u) PROVE HoldersClaim'
  <2>1. \A g \in Host \ {h} : Holder(g)' => Holder(g) /\ host'[g].unit = host[g].unit
    BY <1>3, PickupMoves DEF Holder, Ending
  <2>2. /\ \A g \in Host \ {h} : Holder(g)' => host'[g].unit \in claimed
        /\ claimed \subseteq claimed'
        /\ Holder(h)' => host'[h].unit \notin claimed /\ host'[h].unit \in claimed'
    BY <1>3, <2>1, PickupMoves DEF HoldersClaim
  <2> QED BY <2>1, <2>2 DEF HoldersClaim
<1> QED BY <1>1, <1>2, <1>3, HostsMove

-----------------------------------------------------------------------------
(* What a host may conclude about its unit.                                *)

(* The children of a step: one more only for a unit that is DISPATCHED.    *)
LEMMA ChildrenMove ==
    ASSUME Shapes, [Next]_vars
    PROVE  \/ children' \subseteq children
           \/ \E h \in Host : /\ host[h].step = "admitted"
                              /\ Advanced(h, "ADMITTED", "DISPATCHED", "forked")
                              /\ children' = children \cup {host[h].unit}
<1>1. ASSUME NEW h \in Host, HostStep(h)
      PROVE  \/ children' \subseteq children
             \/ /\ host[h].step = "admitted" /\ Advanced(h, "ADMITTED", "DISPATCHED", "forked")
                /\ children' = children \cup {host[h].unit}
  <2>1. CASE ToDispatched(h)
    <3>1. Goto(h, "forked") => host'[h].step = "forked"
      BY HostMoves DEF Shapes, Becomes, HostSteps
    <3> QED BY <2>1, <3>1 DEF ToDispatched, Advanced, Wins
  <2>2. CASE ~ToDispatched(h)
    BY <1>1, <2>2 DEF HostStep, RequestAdmission, ToAdmitted, ReleaseLost, ToRunning, Refuse,
       LoopStops, RunEnds, FinalizeUnit, HostGate, work
  <2> QED BY <2>1, <2>2
<1>2. CASE SweepStep
  BY <1>2 DEF SweepStep, SweepTimeout, SweepHeal, SweepRead, SweepWrite, SweepEnd, work
<1>3. ASSUME NEW h \in Host,
             HostDies(h) \/ AuthorizeEffect(h) \/ ConfirmEffect(h) \/ \E u \in Active : Pickup(h, u)
      PROVE  children' = children
  BY <1>3 DEF HostDies, AuthorizeEffect, ConfirmEffect, Pickup, work
<1>4. ASSUME NEW u \in Active,
             RequestStop(u) \/ LeaseExpires(u) \/ LeaseReclaimed(u) \/ ChildExits(u)
      PROVE  children' \subseteq children
  BY <1>4 DEF RequestStop, LeaseExpires, LeaseReclaimed, ChildExits, work
<1>5. ASSUME \/ EnqueuePlan \/ OrchBarrier \/ OrchGate \/ ScanStarts \/ ReportDone
             \/ ScanEnds \/ Tick \/ UNCHANGED vars
             \/ \E p \in Passive : CompletePassive(p) \/ ModuleEnds(p)
      PROVE  children' = children
  BY <1>5 DEF EnqueuePlan, OrchBarrier, OrchGate, ScanStarts, ReportDone, ScanEnds, Tick, vars,
     CompletePassive, ModuleEnds, work
<1> QED BY <1>1, <1>2, <1>3, <1>4, <1>5 DEF Next

(* A host that does not move: only an end of its unit can have come in.    *)
LEMMA RestingHost ==
    ASSUME Shapes, Ready, HoldersClaim, [Next]_vars,
           NEW g \in Host, StepStatus(g), host'[g] = host[g]
    PROVE  StepStatus(g)'
<1> DEFINE u == host[g].unit
<1> SUFFICES ASSUME Holder(g) PROVE StepStatus(g)'
  BY DEF StepStatus, Holder, Ending, Owning
<1>1. u \in queued /\ u \in Active /\ u \in Unit
  BY HostUnit DEF Holder, Ending, Owning
<1>2. ~\E h \in Host : host[h].unit = u /\ Advance(h)
  <2> SUFFICES ASSUME NEW h \in Host, host[h].unit = u, Advance(h) PROVE FALSE
    OBVIOUS
  <2>1. h = g
    BY DEF HoldersClaim, Holder, Owning, Advance
  <2> QED BY <2>1 DEF Advance, Advanced
<1>3. /\ status[u] \in {"PLANNED", "REFUSED"} => status'[u] \in {"PLANNED", "REFUSED"}
      /\ status[u] \in {"ADMITTED", "REFUSED"} => status'[u] \in {"ADMITTED", "REFUSED"}
      /\ status[u] \in {"DISPATCHED", "REFUSED"} => status'[u] \in {"DISPATCHED", "REFUSED"}
      /\ status[u] \in {"RUNNING"} \cup Ran => status'[u] \in {"RUNNING"} \cup Ran
  BY <1>1, <1>2, RowsMove DEF RowMoves, PreRunning, Active, Ran
<1>4. Ending(g) => u \notin children'
  BY ChildrenMove DEF StepStatus, Advanced, Ran
<1> QED BY <1>3, <1>4 DEF StepStatus, Ending

(* The host that moves.                                                    *)
LEMMA MovingHost ==
    ASSUME Shapes, Ready, HoldersClaim, [Next]_vars,
           NEW h \in Host, StepStatus(h), HostStep(h)
    PROVE  StepStatus(h)'
<1> DEFINE u == host[h].unit
<1>0. u \in Unit /\ TypeOK /\ host[h].step # "idle"
  BY HostUnit DEF HostStep, RequestAdmission, ToAdmitted, ReleaseLost, ToDispatched, ToRunning,
     Refuse, LoopStops, RunEnds, FinalizeUnit, HostGate, Shapes
<1>1. /\ Leave(h) => StepStatus(h)'
      /\ Goto(h, "refuse") => StepStatus(h)'
      /\ \A o \in Outcomes : GotoWith(h, "gate", o) => StepStatus(h)'
  <2>1. \A s \in {"idle", "refuse", "gate"} : \A x : \A o : Becomes(h, s, x, o) => StepStatus(h)'
    BY DEF Becomes, StepStatus, Ending
  <2> QED BY <1>0, <2>1, HostMoves DEF HostSteps
<1>2. \A s \in Owning : Goto(h, s) => host'[h].step = s /\ host'[h].unit = u
  BY <1>0, HostMoves DEF Becomes, HostSteps, Owning
<1>3. CASE RequestAdmission(h)
  BY <1>1, <1>2, <1>3 DEF RequestAdmission, StepStatus, Ending, Owning
<1>4. CASE ToAdmitted(h)
  BY <1>0, <1>1, <1>2, <1>4 DEF ToAdmitted, StepStatus, Ending, Owning, TypeOK
<1>5. CASE ToDispatched(h)
  BY <1>0, <1>1, <1>2, <1>5 DEF ToDispatched, StepStatus, Ending, Owning, TypeOK
<1>6. CASE ToRunning(h)
  BY <1>0, <1>1, <1>2, <1>6 DEF ToRunning, StepStatus, Ending, Owning, TypeOK
<1>7. CASE ReleaseLost(h) \/ Refuse(h) \/ HostGate(h)
  BY <1>1, <1>7 DEF ReleaseLost, Refuse, HostGate
<1>8. CASE FinalizeUnit(h)
  <2>1. host[h].out \in Outcomes /\ "replayed" \in Outcomes
    BY <1>0 DEF TypeOK, Outcomes
  <2> QED BY <1>1, <1>8, <2>1 DEF FinalizeUnit
<1>9. CASE LoopStops(h) \/ RunEnds(h)
  <2>1. /\ status' = status /\ host[h].step = "running"
        /\ \/ Leave(h)
           \/ children' = children \ {u} /\ \E o \in Ran : GotoWith(h, "finalize", o)
    BY <1>9 DEF LoopStops, RunEnds, Write, rows
  <2>2. ASSUME NEW o \in Ran, GotoWith(h, "finalize", o), children' = children \ {u}
        PROVE  StepStatus(h)'
    <3>1. Becomes(h, "finalize", u, o)
      BY <1>0, <2>2, HostMoves DEF HostSteps, Outcomes
    <3> QED BY <2>1, <2>2, <3>1 DEF Becomes, StepStatus, Ending
  <2> QED BY <1>1, <2>1, <2>2
<1> QED BY <1>3, <1>4, <1>5, <1>6, <1>7, <1>8, <1>9 DEF HostStep

(* What a holder knows of its row stays true while the others act.         *)
LEMMA StepStatusStep ==
    ASSUME Shapes, Ready, HoldersClaim, [Next]_vars, \A h \in Host : StepStatus(h),
           NEW g \in Host
    PROVE  StepStatus(g)'
<1>1. CASE host' = host
  BY <1>1, RestingHost
<1>2. ASSUME NEW h \in Host, Led(h), HostStep(h) \/ HostDies(h) PROVE StepStatus(g)'
  <2>1. CASE g # h
    BY <1>2, <2>1, LedHolds, RestingHost
  <2>2. CASE g = h /\ HostStep(h)
    BY <2>2, MovingHost
  <2>3. CASE g = h /\ HostDies(h)
    BY <2>3, DeathTypes DEF Becomes, StepStatus, Ending
  <2> QED BY <1>2, <2>1, <2>2, <2>3
<1>3. ASSUME NEW h \in Host, NEW u \in Active, Pickup(h, u) PROVE StepStatus(g)'
  <2>1. CASE g # h
    BY <1>3, <2>1, PickupMoves, RestingHost
  <2>2. CASE g = h
    BY <1>3, <2>2, PickupMoves DEF StepStatus, Holder, Ending, Owning
  <2> QED BY <2>1, <2>2
<1> QED BY <1>1, <1>2, <1>3, HostsMove

-----------------------------------------------------------------------------
(* Leases, children and effects.                                           *)

(* A lease begins only with the answer to a host that asked for it.        *)
LEMMA LeasesMove ==
    ASSUME Shapes, [Next]_vars, NEW x \in Unit, lease'[x] # "none"
    PROVE  \/ lease[x] # "none"
           \/ \E h \in Host : /\ host[h].step = "asking" /\ host[h].unit = x
                              /\ x \in Leased /\ status' = status
<1>0. TypeOK
  BY DEF Shapes
<1>1. ASSUME NEW h \in Host, RequestAdmission(h)
      PROVE  \/ lease'[x] = lease[x]
             \/ host[h].step = "asking" /\ host[h].unit = x /\ x \in Leased /\ status' = status
  BY <1>0, <1>1 DEF RequestAdmission, TypeOK
<1>2. ASSUME NEW h \in Host, HostStep(h), ~RequestAdmission(h) PROVE lease[x] # "none"
  BY <1>0, <1>2 DEF HostStep, ToAdmitted, ReleaseLost, ToDispatched, ToRunning, Refuse,
       LoopStops, RunEnds, FinalizeUnit, HostGate, Finalize, TypeOK, rows
<1>3. CASE SweepStep
  BY <1>0, <1>3 DEF SweepStep, SweepTimeout, SweepHeal, SweepRead, SweepWrite, SweepEnd, rows,
     Finalize, TypeOK
<1>4. ASSUME NEW h \in Host,
             HostDies(h) \/ AuthorizeEffect(h) \/ ConfirmEffect(h) \/ \E u \in Active : Pickup(h, u)
      PROVE  lease' = lease
  BY <1>4 DEF HostDies, AuthorizeEffect, ConfirmEffect, Pickup, rows
<1>5. ASSUME NEW u \in Active,
             RequestStop(u) \/ LeaseExpires(u) \/ LeaseReclaimed(u) \/ ChildExits(u)
      PROVE  lease[x] # "none"
  BY <1>0, <1>5 DEF RequestStop, LeaseExpires, LeaseReclaimed, ChildExits, rows, TypeOK
<1>6. ASSUME \/ EnqueuePlan \/ OrchBarrier \/ OrchGate \/ ScanStarts \/ ReportDone
             \/ ScanEnds \/ Tick \/ UNCHANGED vars
             \/ \E p \in Passive : CompletePassive(p) \/ ModuleEnds(p)
      PROVE  lease' = lease
  BY <1>6 DEF EnqueuePlan, OrchBarrier, OrchGate, ScanStarts, ReportDone, ScanEnds, Tick, vars,
     CompletePassive, ModuleEnds, rows
<1> QED BY <1>1, <1>2, <1>3, <1>4, <1>5, <1>6 DEF Next

(* An effect is authorized only for a unit whose row says RUNNING.         *)
LEMMA EffectsMove ==
    ASSUME Shapes, [Next]_vars
    PROVE  \/ unconfirmed' \subseteq unconfirmed
           \/ \E h \in Host : /\ status[host[h].unit] = "RUNNING" /\ status' = status
                              /\ unconfirmed' = unconfirmed \cup {host[h].unit}
<1>1. ASSUME NEW h \in Host, HostStep(h) PROVE unconfirmed' \subseteq unconfirmed
  BY <1>1 DEF HostStep, RequestAdmission, ToAdmitted, ReleaseLost, ToDispatched, ToRunning, Refuse,
       LoopStops, RunEnds, FinalizeUnit, HostGate, Finalize, rows
<1>2. CASE SweepStep
  BY <1>2 DEF SweepStep, SweepTimeout, SweepHeal, SweepRead, SweepWrite, SweepEnd, rows, Finalize
<1>3. ASSUME NEW h \in Host, HostDies(h) \/ ConfirmEffect(h) \/ \E u \in Active : Pickup(h, u)
      PROVE  unconfirmed' \subseteq unconfirmed
  BY <1>3 DEF HostDies, ConfirmEffect, Pickup, rows
<1>4. ASSUME NEW h \in Host, AuthorizeEffect(h)
      PROVE  /\ status[host[h].unit] = "RUNNING" /\ status' = status
             /\ unconfirmed' = unconfirmed \cup {host[h].unit}
  BY <1>4 DEF AuthorizeEffect
<1>5. ASSUME NEW u \in Active,
             RequestStop(u) \/ LeaseExpires(u) \/ LeaseReclaimed(u) \/ ChildExits(u)
      PROVE  unconfirmed' = unconfirmed
  BY <1>5 DEF RequestStop, LeaseExpires, LeaseReclaimed, ChildExits, rows
<1>6. ASSUME \/ EnqueuePlan \/ OrchBarrier \/ OrchGate \/ ScanStarts \/ ReportDone
             \/ ScanEnds \/ Tick \/ UNCHANGED vars
             \/ \E p \in Passive : CompletePassive(p) \/ ModuleEnds(p)
      PROVE  unconfirmed' = unconfirmed
  BY <1>6 DEF EnqueuePlan, OrchBarrier, OrchGate, ScanStarts, ReportDone, ScanEnds, Tick, vars,
     CompletePassive, ModuleEnds, rows
<1> QED BY <1>1, <1>2, <1>3, <1>4, <1>5, <1>6 DEF Next

(* Leases, children and effects stay with queued units.                    *)
LEMMA ResourcesStep ==
    ASSUME Shapes, Ready, LeasesOK, ChildrenOK, EffectsOK, [Next]_vars
    PROVE  LeasesOK' /\ ChildrenOK' /\ EffectsOK'
<1>0. TypeOK /\ queued \subseteq queued'
  BY ReadyStep DEF Shapes
<1>1. LeasesOK'
  <2> SUFFICES ASSUME NEW x \in Unit, lease'[x] # "none" PROVE x \in Leased \cap queued'
    BY DEF LeasesOK
  <2>1. CASE lease[x] # "none"
    BY <1>0, <2>1 DEF LeasesOK
  <2>2. ASSUME NEW h \in Host, host[h].step = "asking", host[h].unit = x, x \in Leased
        PROVE  x \in Leased \cap queued'
    BY <1>0, <2>2, HostUnit
  <2> QED BY <2>1, <2>2, LeasesMove
<1>2. ChildrenOK'
  <2>1. CASE children' \subseteq children
    BY <1>0, <2>1 DEF ChildrenOK
  <2>2. ASSUME NEW h \in Host, host[h].step = "admitted", children' = children \cup {host[h].unit}
        PROVE  ChildrenOK'
    BY <1>0, <2>2, HostUnit DEF ChildrenOK
  <2> QED BY <2>1, <2>2, ChildrenMove
<1>3. EffectsOK'
  <2>1. ASSUME unconfirmed' \subseteq unconfirmed, NEW x \in unconfirmed' PROVE status'[x] = "RUNNING"
    <3>1. x \in Unit /\ status[x] = "RUNNING" /\ x \in Active
      BY <1>0, <2>1 DEF EffectsOK, TypeOK, Active
    <3>2. CASE status' = status
      BY <3>1, <3>2
    <3>3. ASSUME NEW h \in Host, Advance(h) PROVE status'[x] = "RUNNING"
      BY <1>0, <3>1, <3>3 DEF Advance, Advanced, TypeOK
    <3>4. ASSUME NEW u \in Unit, NEW out \in Written, EndWritten(u, out) PROVE status'[x] = "RUNNING"
      <4>1. CASE x = u
        BY <1>0, <2>1, <3>1, <3>4, <4>1, FinalizeMoves DEF EndWritten
      <4>2. CASE x # u
        BY <1>0, <3>1, <3>4, <4>2, FinalizeMoves DEF EndWritten
      <4> QED BY <4>1, <4>2
    <3>5. ASSUME NEW p \in Passive, CompletePassive(p) PROVE status'[x] = "RUNNING"
      BY <1>0, <3>1, <3>5 DEF CompletePassive, Completable, TypeOK
    <3> QED BY <3>2, <3>3, <3>4, <3>5, RowWriters
  <2>2. ASSUME NEW h \in Host, status[host[h].unit] = "RUNNING", status' = status,
               unconfirmed' = unconfirmed \cup {host[h].unit}
        PROVE  EffectsOK'
    BY <2>2 DEF EffectsOK
  <2> QED BY <2>1, <2>2, EffectsMove DEF EffectsOK
<1> QED BY <1>1, <1>2, <1>3

-----------------------------------------------------------------------------
(* The sweep and the barrier.                                              *)

(* What the sweep is about to write was decided now or was there before.   *)
LEMMA SweepMoves ==
    ASSUME Shapes, [Next]_vars, sweep'.step = "write"
    PROVE  \/ sweep' = sweep
           \/ /\ UNCHANGED <<clock, status, children>>
              /\ sweep'.unit \in Unit /\ sweep'.out \in Expire(sweep'.unit)
<1>0. TypeOK
  BY DEF Shapes
<1>1. ASSUME NEW u \in Unit, SweepRead(u)
      PROVE  /\ UNCHANGED <<clock, status, children>>
             /\ sweep'.unit \in Unit /\ sweep'.out \in Expire(sweep'.unit)
  <2>1. PICK o \in Expire(u) :
          sweep' = IF o = "skip" THEN [sweep EXCEPT !.todo = @ \ {u}]
                   ELSE [sweep EXCEPT !.step = "write", !.todo = @ \ {u}, !.unit = u, !.out = o]
    BY <1>1 DEF SweepRead
  <2>2. o # "skip"
    BY <1>0, <1>1, <2>1 DEF SweepRead, TypeOK
  <2>3. sweep'.unit = u /\ sweep'.out = o
    BY <1>0, <2>1, <2>2 DEF TypeOK
  <2> QED BY <1>1, <2>3 DEF SweepRead, world, rows, work
<1>2. ASSUME SweepTimeout \/ SweepHeal \/ SweepWrite \/ SweepEnd PROVE FALSE
  <2>1. CASE SweepTimeout \/ SweepHeal \/ SweepEnd
    BY <2>1 DEF SweepTimeout, SweepHeal, SweepEnd, Sweep, SweepIdle
  <2>2. CASE SweepWrite
    <3>1. SweepIdle.step = "idle"
      BY DEF SweepIdle
    <3>2. [sweep EXCEPT !.step = "units", !.unit = NoUnit, !.out = "none"].step = "units"
      BY <1>0 DEF TypeOK
    <3> QED BY <2>2, <3>1, <3>2 DEF SweepWrite
  <2> QED BY <1>2, <2>1, <2>2
<1>3. ASSUME NEW h \in Host, HostStep(h) PROVE sweep' = sweep
  BY <1>3 DEF HostStep, RequestAdmission, ToAdmitted, ReleaseLost, ToDispatched, ToRunning, Refuse,
       LoopStops, RunEnds, FinalizeUnit, HostGate
<1>4. ASSUME NEW h \in Host,
             HostDies(h) \/ AuthorizeEffect(h) \/ ConfirmEffect(h) \/ \E u \in Active : Pickup(h, u)
      PROVE  sweep' = sweep
  BY <1>4 DEF HostDies, AuthorizeEffect, ConfirmEffect, Pickup, procs
<1>5. ASSUME NEW u \in Active,
             RequestStop(u) \/ LeaseExpires(u) \/ LeaseReclaimed(u) \/ ChildExits(u)
      PROVE  sweep' = sweep
  BY <1>5 DEF RequestStop, LeaseExpires, LeaseReclaimed, ChildExits, procs
<1>6. ASSUME \/ EnqueuePlan \/ OrchBarrier \/ OrchGate \/ ScanStarts \/ ReportDone
             \/ ScanEnds \/ Tick \/ UNCHANGED vars
             \/ \E p \in Passive : CompletePassive(p) \/ ModuleEnds(p)
      PROVE  sweep' = sweep
  BY <1>6 DEF EnqueuePlan, OrchBarrier, OrchGate, ScanStarts, ReportDone, ScanEnds, Tick, vars,
     CompletePassive, ModuleEnds, procs
<1> QED BY <1>1, <1>2, <1>3, <1>4, <1>5, <1>6 DEF Next, SweepStep

(* Time passes one instant at a time.                                      *)
LEMMA ClockMoves ==
    ASSUME Shapes, [Next]_vars
    PROVE  clock' = clock \/ clock' = clock + 1
BY DEF Next, vars, HostStep, SweepStep, EnqueuePlan, RequestStop, LeaseExpires, LeaseReclaimed,
     ChildExits, RequestAdmission, ToAdmitted, ReleaseLost, ToDispatched, ToRunning, Refuse,
     LoopStops, RunEnds, FinalizeUnit, HostGate, HostDies, AuthorizeEffect, ConfirmEffect, Pickup,
     OrchBarrier, OrchGate, CompletePassive, ModuleEnds, SweepTimeout, SweepHeal, SweepRead,
     SweepWrite, SweepEnd, ScanStarts, ReportDone, ScanEnds, Tick, world

(* What the sweep read of a running unit outlasts every other party's      *)
(* step.                                                                   *)
LEMMA SweepSoundStep ==
    ASSUME Shapes, Ready, SweepSound, [Next]_vars
    PROVE  SweepSound'
<1> SUFFICES ASSUME sweep'.step = "write", sweep'.out \in Ran
             PROVE  /\ status'[sweep'.unit] \in {"RUNNING"} \cup Ran
                    /\ sweep'.unit \in children' => clock' >= Backstop
  BY DEF SweepSound
<1>0. TypeOK
  BY DEF Shapes
<1>1. CASE sweep' = sweep
  <2> DEFINE u == sweep.unit
  <2>1. u \in Unit /\ status[u] \in {"RUNNING"} \cup Ran /\ (u \in children => clock >= Backstop)
    BY <1>1 DEF Shapes, SweepShape, SweepSound
  <2>2. status'[u] \in {"RUNNING"} \cup Ran
    BY <2>1, RowsMove DEF RowMoves, Advance, Advanced, PreRunning, Ran
  <2>3. u \in children' => u \in children
    BY <2>1, ChildrenMove DEF Advanced, Ran
  <2>4. clock' >= clock /\ clock \in Int /\ clock' \in Int
    BY <1>0, ClockMoves DEF TypeOK, Plenty, Backstop
  <2> QED BY <1>1, <2>1, <2>2, <2>3, <2>4 DEF Backstop
<1>2. CASE /\ UNCHANGED <<clock, status, children>>
           /\ sweep'.unit \in Unit /\ sweep'.out \in Expire(sweep'.unit)
  <2> DEFINE u == sweep'.unit
  <2>1. status[u] \in Status
    BY <1>0, <1>2 DEF TypeOK
  <2>2. status[u] = "RUNNING"
    BY <1>2, <2>1 DEF Expire, Untouched, Status, PreRunning, Terminal, Ran
  <2>3. u \in children => clock >= Backstop
    BY <1>2, <2>2 DEF Expire, PreRunning, Ran
  <2> QED BY <1>2, <2>2, <2>3
<1> QED BY <1>1, <1>2, SweepMoves

(* The scan leaves the barrier only when every unit has ended.             *)
LEMMA BarrierStep ==
    ASSUME Shapes, Ready, SynthesisAfterUnits, [Next]_vars
    PROVE  SynthesisAfterUnits'
<1> SUFFICES ASSUME scan' \in {"RUNNING_MASTER", "COMPLETED"} PROVE Unfinished' = {}
  BY DEF SynthesisAfterUnits
<1>1. scan \in {"RUNNING_MASTER", "COMPLETED"} \/ GateOpen
  <2>1. ASSUME NEW h \in Host, HostStep(h)
        PROVE  scan' = scan \/ Continue
    BY <2>1 DEF HostStep, RequestAdmission, ToAdmitted, ReleaseLost, ToDispatched, ToRunning, Refuse,
       LoopStops, RunEnds, FinalizeUnit, HostGate, world
  <2>2. ASSUME NEW h \in Host,
             HostDies(h) \/ AuthorizeEffect(h) \/ ConfirmEffect(h) \/ \E u \in Active : Pickup(h, u)
        PROVE  scan' = scan
    BY <2>2 DEF HostDies, AuthorizeEffect, ConfirmEffect, Pickup, world
  <2>3. ASSUME NEW u \in Active,
             RequestStop(u) \/ LeaseExpires(u) \/ LeaseReclaimed(u) \/ ChildExits(u)
        PROVE  scan' = scan
    BY <2>3 DEF RequestStop, LeaseExpires, LeaseReclaimed, ChildExits, world
  <2>4. ASSUME \/ EnqueuePlan \/ OrchBarrier \/ OrchGate \/ Tick \/ UNCHANGED vars
               \/ \E p \in Passive : CompletePassive(p) \/ ModuleEnds(p)
        PROVE  scan' = scan \/ Continue
    BY <2>4 DEF EnqueuePlan, OrchBarrier, OrchGate, Tick, vars, CompletePassive, ModuleEnds, world
  <2>5. ASSUME SweepStep \/ ScanStarts \/ ScanEnds
        PROVE  scan' = scan \/ scan' \in {"TIMED_OUT", "RUNNING_PHASE_3", "CANCELLED", "FAILED"}
    BY <2>5 DEF SweepStep, SweepTimeout, SweepHeal, SweepRead, SweepWrite, SweepEnd, ScanStarts,
       ScanEnds, world
  <2>6. CASE ReportDone
    BY <2>6 DEF ReportDone
  <2> QED BY <2>1, <2>2, <2>3, <2>4, <2>5, <2>6 DEF Next, Continue
<1>2. Unfinished = {}
  BY <1>1 DEF SynthesisAfterUnits, GateOpen
<1>3. \A x \in Unit : status'[x] \in Terminal
  BY <1>2, EndsAreFinal DEF Unfinished
<1> QED BY <1>3 DEF Unfinished

-----------------------------------------------------------------------------
(* The end of a unit.                                                      *)

(* Whoever ends a unit otherwise than COMPLETED ends its dependents.       *)
LEMMA FinalizeCloses ==
    ASSUME TypeOK, Ready, NEW u \in Unit, NEW out \in Written, Finalize(u, out),
           NEW v \in Unit, status'[v] # status[v], status'[v] # "COMPLETED",
           NEW y \in Unit, <<y, v>> \in Deps
    PROVE  status'[y] \in Terminal
<1>1. Finalizable(u, out) /\ status' = Finalized(u, out)
  BY DEF Finalize
<1>2. (v = u \/ v \in Blocked(u)) /\ out # "COMPLETED"
  BY <1>1 DEF Finalized
<1>3. CASE y = u
  BY <1>1, <1>3 DEF Finalized, Written, Terminal
<1>4. CASE y # u /\ status[y] \in Terminal
  BY <1>1, <1>4 DEF Finalized, Terminal
<1>5. CASE y \in Unfinished \ {u}
  <2>1. y \in Blocked(u)
    BY <1>2, <1>5, BlockedFacts
  <2> QED BY <1>1, <1>2, <1>5, <2>1 DEF Finalized, Terminal
<1> QED BY <1>3, <1>4, <1>5 DEF Unfinished

(* A unit starts only after the units it depends on have completed.        *)
LEMMA OrderStep ==
    ASSUME Shapes, Ready, DependencyOrder, [Next]_vars
    PROVE  DependencyOrder'
<1> SUFFICES ASSUME NEW u \in Unit, NEW v \in Unit, <<u, v>> \in Deps
             PROVE  /\ status'[u] \in {"ADMITTED", "DISPATCHED", "RUNNING"} \cup Ran
                         => status'[v] = "COMPLETED"
                    /\ v \notin Passive /\ status'[v] \in Terminal \ {"COMPLETED"}
                         => status'[u] \in Terminal
  BY DEF DependencyOrder
<1>0. TypeOK /\ v \in Prerequisites(u)
  BY DEF Shapes, Prerequisites
<1>1. ASSUME status'[u] \in {"ADMITTED", "DISPATCHED", "RUNNING"} \cup Ran
      PROVE  status'[v] = "COMPLETED"
  <2>1. RowMoves(u)
    BY RowsMove
  <2>2. ASSUME NEW h \in Host, host[h].unit = u, Advance(h) PROVE status[v] = "COMPLETED"
    <3>1. u \in queued
      BY <2>2, HostUnit DEF Advance
    <3> QED BY <1>0, <3>1 DEF Ready
  <2>3. status[v] = "COMPLETED"
    BY <1>0, <1>1, <2>1, <2>2 DEF RowMoves, DependencyOrder, PreRunning, Ran
  <2> QED BY <2>3, EndsAreFinal DEF Terminal, Ran
<1>2. ASSUME v \notin Passive, status'[v] \in Terminal \ {"COMPLETED"}
      PROVE  status'[u] \in Terminal
  <2>1. CASE status'[v] = status[v]
    <3>1. status[u] \in Terminal
      BY <1>2, <2>1 DEF DependencyOrder
    <3> QED BY <3>1, EndsAreFinal
  <2>2. CASE status'[v] # status[v]
    <3>1. ASSUME NEW h \in Host, Advance(h) PROVE FALSE
      BY <1>0, <1>2, <2>2, <3>1 DEF Advance, Advanced, TypeOK, Terminal, Ran
    <3>2. ASSUME NEW p \in Passive, CompletePassive(p) PROVE FALSE
      BY <1>0, <1>2, <2>2, <3>2 DEF CompletePassive, TypeOK
    <3>3. ASSUME NEW x \in Unit, NEW out \in Written, EndWritten(x, out)
          PROVE  status'[u] \in Terminal
      BY <1>0, <1>2, <2>2, <3>3, FinalizeCloses DEF EndWritten
    <3> QED BY <2>2, <3>1, <3>2, <3>3, RowWriters
  <2> QED BY <2>1, <2>2
<1> QED BY <1>1, <1>2

(* A unit ends without a lease and without an effect; if it ran, without a *)
(* child that somebody could still have stopped.                           *)
LEMMA SettledStep ==
    ASSUME IInv, [Next]_vars, EffectsOK'
    PROVE  EndedUnitIsSettled'
<1> SUFFICES ASSUME NEW x \in Unit, status'[x] \in Terminal
             PROVE  /\ x \notin unconfirmed'
                    /\ lease'[x] # "none" => status'[x] = "REFUSED"
                    /\ x \in children' => status'[x] = "REFUSED" \/ clock' >= Backstop
  BY DEF EndedUnitIsSettled
<1>0. TypeOK /\ Shapes /\ Ready
  BY DEF IInv, Shapes
<1>1. x \notin unconfirmed'
  BY DEF EffectsOK, Terminal, Ran
<1>2. clock' >= clock /\ clock \in Int /\ clock' \in Int
  BY <1>0, ClockMoves DEF TypeOK, Plenty, Backstop
<1>3. x \in children' => x \in children
  BY <1>0, ChildrenMove DEF Advanced, TypeOK, Terminal, Ran
<1>4. CASE status'[x] = status[x]
  <2>1. lease'[x] # "none" => status[x] = "REFUSED"
    <3>1. ASSUME NEW h \in Host, host[h].step = "asking", host[h].unit = x PROVE status[x] = "REFUSED"
      BY <1>4, <3>1 DEF IInv, StepStatus, Terminal, Ran
    <3> QED BY <1>0, <1>4, <3>1, LeasesMove DEF IInv, EndedUnitIsSettled
  <2>2. x \in children => status[x] = "REFUSED" \/ clock >= Backstop
    BY <1>4 DEF IInv, EndedUnitIsSettled
  <2> QED BY <1>1, <1>2, <1>3, <1>4, <2>1, <2>2 DEF Backstop
<1>5. CASE status'[x] # status[x]
  <2>1. ASSUME NEW h \in Host, Advance(h) PROVE FALSE
    BY <1>0, <1>5, <2>1 DEF Advance, Advanced, TypeOK, Terminal, Ran
  <2>2. ASSUME NEW p \in Passive, CompletePassive(p)
        PROVE  lease'[x] = "none" /\ x \notin children
    <3>1. x \in Passive /\ lease' = lease
      BY <1>0, <1>5, <2>2 DEF CompletePassive, TypeOK
    <3> QED BY <1>0, <3>1, UnitsAssumption DEF IInv, LeasesOK, TypeOK, Active
  <2>3. ASSUME NEW u \in Unit, NEW out \in Written, EndWritten(u, out)
        PROVE  /\ lease'[x] # "none" => status'[x] = "REFUSED"
               /\ x \in children => status'[x] = "REFUSED" \/ clock >= Backstop
    <3>1. CASE x # u
      <4>1. x \notin queued /\ (lease'[x] = lease[x] \/ lease'[x] = "none")
        BY <1>0, <1>5, <2>3, <3>1, FinalizeMoves DEF EndWritten
      <4> QED BY <4>1 DEF IInv, LeasesOK, ChildrenOK
    <3>2. CASE x = u
      <4>1. lease'[x] = "none" /\ status'[x] = out
        BY <1>0, <1>5, <2>3, <3>2, FinalizeMoves DEF EndWritten
      <4>2. ASSUME NEW h \in Host, Ending(h), host[h].unit = x PROVE x \notin children
        BY <4>2 DEF IInv, StepStatus
      <4>3. ASSUME sweep.step = "write", sweep.unit = x, sweep.out = out, out # "REFUSED"
            PROVE  x \in children => clock >= Backstop
        BY <4>3 DEF IInv, SweepSound, Written
      <4> QED BY <2>3, <3>2, <4>1, <4>2, <4>3 DEF EndWritten
    <3> QED BY <3>1, <3>2
  <2>4. /\ lease'[x] # "none" => status'[x] = "REFUSED"
        /\ x \in children => status'[x] = "REFUSED" \/ clock >= Backstop
    BY <1>0, <1>5, <2>1, <2>2, <2>3, RowWriters
  <2> QED BY <1>1, <1>2, <1>3, <2>4 DEF Backstop
<1> QED BY <1>4, <1>5

-----------------------------------------------------------------------------
(* The theorems.                                                           *)

(* Every step keeps the invariant.                                         *)
LEMMA InvStep == IInv /\ [Next]_vars => IInv'
<1> SUFFICES ASSUME IInv, [Next]_vars PROVE IInv'
  OBVIOUS
<1>0. /\ Shapes /\ HoldersClaim /\ (\A h \in Host : StepStatus(h)) /\ Ready
      /\ LeasesOK /\ ChildrenOK /\ EffectsOK /\ SweepSound
      /\ DependencyOrder /\ SynthesisAfterUnits /\ EndedUnitIsSettled
  BY DEF IInv
<1>1. Shapes' /\ Ready' /\ HoldersClaim'
  BY <1>0, ShapesStep, ReadyStep, ClaimsStep
<1>2. \A h \in Host : StepStatus(h)'
  BY <1>0, StepStatusStep
<1>3. LeasesOK' /\ ChildrenOK' /\ EffectsOK'
  BY <1>0, ResourcesStep
<1>4. SweepSound' /\ DependencyOrder' /\ SynthesisAfterUnits'
  BY <1>0, SweepSoundStep, OrderStep, BarrierStep
<1>5. EndedUnitIsSettled'
  BY <1>3, SettledStep
<1> QED BY <1>1, <1>2, <1>3, <1>4, <1>5 DEF IInv

(* The inductive invariant holds in every interleaving.                    *)
LEMMA Inductive == Spec => []IInv
BY InitStep, InvStep, PTL DEF Spec

(* Every row, job and process stays in a state the code knows, whatever    *)
(* the hosts, the orchestrator and the sweep interleave.                   *)
THEOREM TypeCorrect == Spec => []TypeOK
<1>1. IInv => TypeOK
  BY DEF IInv, Shapes
<1> QED BY <1>1, Inductive, PTL

(* claimUnitHost: one host owns a unit attempt, for any number of hosts,   *)
(* redeliveries and deaths.                                                *)
THEOREM OneHostPerUnit == Spec => []SoleHost
<1>1. IInv => SoleHost
  BY DEF IInv, HoldersClaim, SoleHost, Holder
<1> QED BY <1>1, Inductive, PTL

(* FR-010: for any dependency relation, cyclic ones included, no unit is   *)
(* admitted before its prerequisites COMPLETED, and none outlives an       *)
(* active prerequisite that ended otherwise.                               *)
THEOREM DependenciesRespected == Spec => []DependencyOrder
<1>1. IInv => DependencyOrder
  BY DEF IInv
<1> QED BY <1>1, Inductive, PTL

(* continueScanIfPlanTerminal: no scan reaches the report, or completes,   *)
(* with an unfinished unit.                                                *)
THEOREM ReportAfterUnits == Spec => []SynthesisAfterUnits
<1>1. IInv => SynthesisAfterUnits
  BY DEF IInv
<1> QED BY <1>1, Inductive, PTL

(* fahes_finalize_unit settles: a unit that has ended holds no effect, no  *)
(* lease but one granted during its refusal, and no child that could have  *)
(* been stopped before the backstop.                                       *)
THEOREM EndSettles == Spec => []EndedUnitIsSettled
<1>1. IInv => EndedUnitIsSettled
  BY DEF IInv
<1> QED BY <1>1, Inductive, PTL

(* The terminal status of a unit is written once: the host, another host's *)
(* refusal, the sweep and the orchestrator cannot overwrite each other.    *)
THEOREM FirstEndIsFinal == Spec => FirstEndWins
<1>1. IInv /\ [Next]_vars
        => [\A u \in Unit : status[u] \in Terminal => status'[u] = status[u]]_vars
  BY EndsAreFinal DEF IInv
<1> QED BY <1>1, Inductive, PTL DEF Spec, FirstEndWins

-----------------------------------------------------------------------------
(* What the end of every unit rests on: its row never goes back.           *)

(* A unit's row only goes on along its state machine, at most four times:  *)
(* one rung of the host's ladder at a time, an end of its run only from    *)
(* RUNNING, a refusal only before it.  A unit that was queued is never     *)
(* blocked, and a passive one is completed after its prerequisites.        *)
RowsAdvance ==
    \A u \in Unit : status'[u] # status[u] =>
       \/ <<status[u], status'[u]>> \in {<<"PLANNED", "ADMITTED">>, <<"ADMITTED", "DISPATCHED">>,
                                         <<"DISPATCHED", "RUNNING">>}
       \/ status[u] \in PreRunning /\ status'[u] = "REFUSED"
       \/ status[u] = "RUNNING" /\ status'[u] \in Ran
       \/ status[u] = "PLANNED" /\ status'[u] = "BLOCKED" /\ u \notin queued
       \/ /\ u \in Passive /\ status[u] = "PLANNED" /\ status'[u] = "COMPLETED"
          /\ \A v \in Prerequisites(u) : status[v] = "COMPLETED"

(* No host, sweep or orchestrator, however late, takes a unit's row back   *)
(* or past a state it has to go through.                                   *)
THEOREM UnitOnlyMovesOn == Spec => [][RowsAdvance]_vars
<1>1. IInv /\ [Next]_vars => [RowsAdvance]_vars
  <2> SUFFICES ASSUME IInv, [Next]_vars, NEW u \in Unit, status'[u] # status[u]
               PROVE  \/ <<status[u], status'[u]>> \in {<<"PLANNED", "ADMITTED">>,
                             <<"ADMITTED", "DISPATCHED">>, <<"DISPATCHED", "RUNNING">>}
                      \/ status[u] \in PreRunning /\ status'[u] = "REFUSED"
                      \/ status[u] = "RUNNING" /\ status'[u] \in Ran
                      \/ status[u] = "PLANNED" /\ status'[u] = "BLOCKED" /\ u \notin queued
                      \/ /\ u \in Passive /\ status[u] = "PLANNED" /\ status'[u] = "COMPLETED"
                         /\ \A v \in Prerequisites(u) : status[v] = "COMPLETED"
    BY DEF RowsAdvance
  <2>1. RowMoves(u) /\ status \in [Unit -> Status]
    BY RowsMove DEF IInv, Shapes, TypeOK
  <2>2. ASSUME NEW h \in Host, host[h].unit = u, Advance(h)
        PROVE  <<status[u], status'[u]>> \in {<<"PLANNED", "ADMITTED">>,
                   <<"ADMITTED", "DISPATCHED">>, <<"DISPATCHED", "RUNNING">>}
    BY <2>1, <2>2 DEF Advance, Advanced
  <2> QED BY <2>1, <2>2 DEF RowMoves
<1> QED BY <1>1, Inductive, PTL DEF Spec


=============================================================================
