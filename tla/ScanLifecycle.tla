--------------------------- MODULE ScanLifecycle ----------------------------
(***************************************************************************)
(* One audit, from the request that creates and charges it to its end and  *)
(* its refund.  The processes that touch its row do so concurrently and    *)
(* share nothing but the database and the queues: the API request that     *)
(* creates it, the API requests that cancel it or answer its questionnaire,*)
(* the workers that run its phase jobs, the delayed questionnaire job and  *)
(* the timeout sweep.  Every one of them moves the row by an UPDATE guarded*)
(* on the state it saw before; what a process does after its move, and     *)
(* whether it lives to do it, is where the hard cases are.                 *)
(***************************************************************************)
EXTENDS Integers, FiniteSets, ScanStates, Totals

CONSTANTS
    Area,         \* the areas on offer (ModuleType)
    Cost,         \* credits per area
    Selections,   \* the sets of areas a request may ask for
    Gated,        \* areas whose control level the target may fall short of
    NoScan,       \* no Scan row
    MaxFaults     \* bound: processes and jobs lost

ASSUME LifecycleAssumption ==
    /\ IsFiniteSet(Area)
    /\ Cost \in [Area -> Nat \ {0}]
    /\ Selections \subseteq SUBSET Area
    /\ {} \notin Selections
    /\ Gated \subseteq Area
    /\ NoScan \notin ScanState
    /\ MaxFaults \in Nat

VARIABLES
    state, started, overdue,  \* Scan.state; startedAt set; startedAt < cutoff
    requested, gated,         \* requestedModules; those whose gate is not met
    results,                  \* per area, its ModuleResult row
    debited, refunded,        \* the scan's DEBIT and REFUND movements, 0 if none
    jobs, used,               \* phase jobs waiting; job ids ever added
    deadline,                 \* the delayed questionnaire-deadline job
    intent,                   \* DesignIntent.source
    creator,                  \* the createScan request
    canceller,                \* the POST /:id/cancel request
    resumer,                  \* the two sides of the questionnaire race
    run,                      \* per phase, the worker's handlePhase invocation
    sweeper,                  \* the timeout sweep's turn at this scan
    faults, abandoned         \* faults so far; one of them took a refund along

scanVars == <<state, started, overdue, requested, gated>>
money    == <<debited, refunded>>
queue    == <<jobs, used, deadline>>
actors   == <<creator, canceller, resumer, sweeper>>
ghosts   == <<faults, abandoned>>
vars     == <<scanVars, results, money, queue, intent, actors, run, ghosts>>

-----------------------------------------------------------------------------
(* chargedCredits: only the areas whose gate is met are charged for.       *)
Charge == Total([m \in requested \ gated |-> Cost[m]])

Scored == {m \in requested : results[m] = "scored"}

refundForUndelivered(charged, requestedCount, deliveredCount) ==
    LET undelivered == requestedCount - deliveredCount
    IN  IF requestedCount <= 0 \/ charged <= 0 \/ undelivered <= 0 THEN 0
        ELSE IF deliveredCount = 0 THEN charged
        ELSE (charged * undelivered) \div requestedCount

Owed == refundForUndelivered(Charge, Cardinality(requested), Cardinality(Scored))

(* Mutant: a refund that does not look for an earlier one.                 *)
RefundAgain(credits) ==
    /\ refunded' = IF debited > 0 THEN refunded + credits ELSE refunded
    /\ UNCHANGED debited

(* refundPartial: one refund per debit, nothing without a debit.           *)
Refund(credits) ==
    /\ refunded' = IF debited > 0 /\ refunded = 0 THEN credits ELSE refunded
    /\ UNCHANGED debited

(* transition(): the UPDATE guarded on the state the caller saw.           *)
CanMove(from, to) == canTransition(from, to) /\ state = from

(* BullMQ keeps one job per id while the old one is retained.              *)
Enqueue(phase, already) ==
    IF phase \in used
    THEN UNCHANGED <<jobs, used>>
    ELSE /\ jobs' = jobs \cup {[phase |-> phase, already |-> already]}
         /\ used' = used \cup {phase}

NoRun == [step |-> "none", read |-> NoScan, already |-> FALSE,
          current |-> NoScan, todo |-> {}, cancelled |-> FALSE, amount |-> 0]

Init ==
    /\ state = NoScan /\ started = FALSE /\ overdue = FALSE
    /\ requested = {} /\ gated = {}
    /\ results = [m \in Area |-> "none"]
    /\ debited = 0 /\ refunded = 0
    /\ jobs = {} /\ used = {} /\ deadline = "none"
    /\ intent = "none"
    /\ creator = "start"
    /\ canceller = [step |-> "idle", amount |-> 0, debitTx |-> FALSE]
    /\ resumer = [w \in {"user", "timer"} |-> "idle"]
    /\ run = [p \in Phase |-> NoRun]
    /\ sweeper = [step |-> "idle", observed |-> NoScan, amount |-> 0]
    /\ faults = 0 /\ abandoned = FALSE

-----------------------------------------------------------------------------
(* createScan.  The refusals before the row is written change nothing.     *)

CreateRow ==
    /\ creator = "start"
    /\ \E areas \in Selections : \E unmet \in SUBSET (areas \cap Gated) :
         /\ unmet # areas                     \* else ControlLevelRequiredError
         /\ requested' = areas
         /\ gated' = unmet
    /\ state' = "QUEUED"
    /\ creator' = "row"
    /\ UNCHANGED <<started, overdue, results, money, queue, intent, canceller,
                   resumer, sweeper, run, ghosts>>

DebitScan ==
    /\ creator = "row"
    /\ debited' = Charge
    /\ creator' = "debited"
    /\ UNCHANGED <<scanVars, results, refunded, queue, intent, canceller,
                   resumer, sweeper, run, ghosts>>

(* The authoritative debit is refused: the row is deleted, whatever state  *)
(* it has reached by now.                                                  *)
DebitRefused ==
    /\ creator = "row"
    /\ state' = NoScan
    /\ creator' = "done"
    /\ UNCHANGED <<started, overdue, requested, gated, results, money, queue,
                   intent, canceller, resumer, sweeper, run, ghosts>>

EnqueueFirst ==
    /\ creator = "debited"
    /\ Enqueue("RUNNING_PHASE_1", FALSE)
    /\ creator' = "done"
    /\ UNCHANGED <<scanVars, results, money, deadline, intent, canceller,
                   resumer, sweeper, run, ghosts>>

(* The plan is refused or the queue rejects the job: refund in full, then  *)
(* fail the row if it is still QUEUED.  A refund that was made already     *)
(* throws out of the handler before the row is touched.                    *)
EnqueueFailed ==
    /\ creator = "debited"
    /\ Refund(debited)
    /\ creator' = IF refunded = 0 THEN "failing" ELSE "done"
    /\ UNCHANGED <<scanVars, results, queue, intent, canceller, resumer,
                   sweeper, run, ghosts>>

(* Mutant: the row is failed by id alone.                                  *)
MarkFailedUnguarded ==
    /\ creator = "failing"
    /\ state' = "FAILED"
    /\ creator' = "done"
    /\ UNCHANGED <<started, overdue, requested, gated, results, money, queue,
                   intent, canceller, resumer, sweeper, run, ghosts>>

MarkFailed ==
    /\ creator = "failing"
    /\ state' = IF state = "QUEUED" THEN "FAILED" ELSE state
    /\ creator' = "done"
    /\ UNCHANGED <<started, overdue, requested, gated, results, money, queue,
                   intent, canceller, resumer, sweeper, run, ghosts>>

-----------------------------------------------------------------------------
(* POST /scans/:id/cancel                                                  *)

Running(p) == run[p].step \notin {"none", "done"}

CancelMove ==
    /\ canceller.step = "idle"
    /\ state \in ScanState \ Terminal
    /\ state' = "CANCELLED"
    /\ canceller' = [canceller EXCEPT !.step = "moved"]
    /\ UNCHANGED <<started, overdue, requested, gated, results, money, queue,
                   intent, creator, resumer, sweeper, run, ghosts>>

(* Publishing is best effort: any of the invocations that are subscribed   *)
(* hear of it, or none.                                                    *)
CancelPublish ==
    /\ canceller.step = "moved"
    /\ \E heard \in SUBSET {p \in Phase : Running(p)} :
         run' = [p \in Phase |->
                   IF p \in heard THEN [run[p] EXCEPT !.cancelled = TRUE] ELSE run[p]]
    /\ canceller' = [canceller EXCEPT !.step = "published"]
    /\ UNCHANGED <<scanVars, results, money, queue, intent, creator, resumer,
                   sweeper, ghosts>>

CancelRead ==
    /\ canceller.step = "published"
    /\ canceller' = [canceller EXCEPT !.step = "read", !.amount = Owed]
    /\ UNCHANGED <<scanVars, results, money, queue, intent, creator, resumer,
                   sweeper, run, ghosts>>

CancelRefund ==
    /\ canceller.step = "read"
    /\ IF canceller.amount > 0 THEN Refund(canceller.amount) ELSE UNCHANGED money
    /\ canceller' = [step |-> "done", amount |-> 0, debitTx |-> debited > 0]
    /\ UNCHANGED <<scanVars, results, queue, intent, creator, resumer, sweeper,
                   run, ghosts>>

-----------------------------------------------------------------------------
(* The questionnaire race: the user answers or skips, or the delayed job   *)
(* fires.  The guarded move picks the winner; the winner records the       *)
(* intent, and only then makes phase 2 visible to a worker.                *)

(* Mutant: the resume is not guarded on the pause.                         *)
ResumeUnguarded(w) ==
    /\ resumer[w] = "idle"
    /\ w = "timer" => deadline = "scheduled"
    /\ deadline' = IF w = "timer" THEN "fired" ELSE deadline
    /\ state \in {"AWAITING_QUESTIONNAIRE", "RUNNING_PHASE_2"}
    /\ state' = "RUNNING_PHASE_2"
    /\ resumer' = [resumer EXCEPT ![w] = "won"]
    /\ UNCHANGED <<started, overdue, requested, gated, results, money, jobs, used,
                   intent, creator, canceller, sweeper, run, ghosts>>

Resume(w) ==
    /\ resumer[w] = "idle"
    /\ w = "timer" => deadline = "scheduled"
    /\ deadline' = IF w = "timer" THEN "fired" ELSE deadline
    /\ IF CanMove("AWAITING_QUESTIONNAIRE", "RUNNING_PHASE_2")
       THEN /\ state' = "RUNNING_PHASE_2"
            /\ resumer' = [resumer EXCEPT ![w] = "won"]
       ELSE /\ w = "timer"                   \* the user gets a 409
            /\ UNCHANGED <<state, resumer>>
    /\ UNCHANGED <<started, overdue, requested, gated, results, money, jobs, used,
                   intent, creator, canceller, sweeper, run, ghosts>>

WriteIntent(w) ==
    /\ resumer[w] = "won"
    /\ intent' \in IF w = "timer" THEN {"DEFAULTED"} ELSE {"SUPPLIED", "SKIPPED"}
    /\ resumer' = [resumer EXCEPT ![w] = "wrote"]
    /\ UNCHANGED <<scanVars, results, money, queue, creator, canceller, sweeper,
                   run, ghosts>>

(* Mutant: phase 2 is queued as soon as the race is won.                   *)
EnqueueDesignEarly(w) ==
    /\ resumer[w] \in {"won", "wrote"}
    /\ Enqueue("RUNNING_PHASE_2", TRUE)
    /\ resumer' = [resumer EXCEPT ![w] = IF @ = "won" THEN "won" ELSE "done"]
    /\ UNCHANGED <<scanVars, results, money, deadline, intent, creator,
                   canceller, sweeper, run, ghosts>>

EnqueueDesign(w) ==
    /\ resumer[w] = "wrote"
    /\ Enqueue("RUNNING_PHASE_2", TRUE)
    /\ resumer' = [resumer EXCEPT ![w] = "done"]
    /\ UNCHANGED <<scanVars, results, money, deadline, intent, creator,
                   canceller, sweeper, run, ghosts>>

-----------------------------------------------------------------------------
(* handlePhase, one invocation per phase job.                              *)

Goto(p, step) == run' = [run EXCEPT ![p].step = step]

(* The handler returns; areas it no longer waits for may still be running. *)
Left(r) == [NoRun EXCEPT !.step = "done", !.todo = r.todo,
                         !.cancelled = r.cancelled /\ r.todo # {}]

Leave(p) == run' = [run EXCEPT ![p] = Left(@)]

(* dispatch() refuses a phase job without areas; handlePhase reads the row *)
(* and stops if there is none.                                             *)
StartJob(p) ==
    /\ \E job \in jobs :
         /\ job.phase = p
         /\ jobs' = jobs \ {job}
         /\ run' = [run EXCEPT ![p] =
               IF \/ state = NoScan
                  \/ /\ p \in MODULE_RUNNING_PHASES
                     /\ modulesForPhase(p, requested) = {}
               THEN [NoRun EXCEPT !.step = "done"]
               ELSE [NoRun EXCEPT !.step = "entry", !.read = state,
                                  !.already = job.already]]
    /\ UNCHANGED <<scanVars, results, money, used, deadline, intent, actors, ghosts>>

(* The entry move, or for a resumed phase the check that it still stands.  *)
Enter(p) ==
    LET r     == run[p]
        moves == ~ r.already /\ CanMove(r.read, p)
    IN  /\ r.step = "entry"
        /\ state' = IF moves THEN p ELSE state
        /\ started' = (started \/ (moves /\ r.read = "QUEUED"))
        /\ run' = [run EXCEPT ![p] =
              IF moves \/ (r.already /\ r.read = p)
              THEN [r EXCEPT !.step = "work", !.current = p,
                             !.todo = modulesForPhase(p, requested)]
              ELSE Left(r)]
        /\ UNCHANGED <<overdue, requested, gated, results, money, queue, intent,
                       actors, ghosts>>

(* One area of the phase ends, concurrently with the others, and its       *)
(* result is stored unless the invocation has heard of the cancellation.   *)
(* An area goes on after another one threw and the handler has moved on.   *)
FinishModule(p) ==
    /\ \E m \in run[p].todo :
         /\ run' = [run EXCEPT ![p].todo = @ \ {m}]
         /\ IF run[p].cancelled
            THEN UNCHANGED results
            ELSE \E r \in {"scored", "unscored"} : results' = [results EXCEPT ![m] = r]
    /\ UNCHANGED <<scanVars, money, queue, intent, actors, ghosts>>

(* All areas are in: walk through the phases that have none, pause before  *)
(* design, or queue the report.                                            *)
Walk(p) ==
    LET r    == run[p]
        next == nextPhase(r.current)
    IN  /\ r.step = "work" /\ r.todo = {} /\ p \in MODULE_RUNNING_PHASES
        /\ \/ /\ next \in MODULE_RUNNING_PHASES
              /\ modulesForPhase(next, requested) = {}
              /\ IF CanMove(r.current, next)
                 THEN state' = next /\ run' = [run EXCEPT ![p].current = next]
                 ELSE Leave(p) /\ UNCHANGED state
              /\ UNCHANGED <<jobs, used>>
           \/ /\ next \in MODULE_RUNNING_PHASES
              /\ modulesForPhase(next, requested) # {}
              /\ IF CanMove("RUNNING_PHASE_1", "AWAITING_QUESTIONNAIRE")
                 THEN state' = "AWAITING_QUESTIONNAIRE" /\ Goto(p, "pause")
                 ELSE Leave(p) /\ UNCHANGED state
              /\ UNCHANGED <<jobs, used>>
           \/ /\ next = "RUNNING_MASTER"
              /\ Enqueue(next, FALSE)
              /\ Leave(p)
              /\ UNCHANGED state
        /\ UNCHANGED <<started, overdue, requested, gated, results, money, deadline,
                       intent, actors, ghosts>>

(* awaitQuestionnaire schedules the deadline after the pause is committed. *)
ScheduleDeadline(p) ==
    /\ run[p].step = "pause"
    /\ deadline' = "scheduled"
    /\ Leave(p)
    /\ UNCHANGED <<scanVars, results, money, jobs, used, intent, actors, ghosts>>

Synthesize ==
    /\ run["RUNNING_MASTER"].step = "work"
    /\ Enqueue("RUNNING_DOCS", FALSE)
    /\ Leave("RUNNING_MASTER")
    /\ UNCHANGED <<scanVars, results, money, deadline, intent, actors, ghosts>>

(* Mutant: only a failure is refundable.                                   *)
EndFromFailureOnly(p, from, to) ==
    /\ IF CanMove(from, to) /\ to = "FAILED"
       THEN state' = to /\ Goto(p, "observe")
       ELSE state' = (IF CanMove(from, to) THEN to ELSE state) /\ Leave(p)
    /\ UNCHANGED <<started, overdue, requested, gated, results, money, queue,
                   intent, actors, ghosts>>

(* A guarded move to a terminal state; only its winner runs the observers. *)
EndFrom(p, from, to) ==
    /\ IF CanMove(from, to)
       THEN state' = to /\ Goto(p, "observe")
       ELSE UNCHANGED state /\ Leave(p)
    /\ UNCHANGED <<started, overdue, requested, gated, results, money, queue,
                   intent, actors, ghosts>>

Complete ==
    /\ run["RUNNING_DOCS"].step = "work"
    /\ EndFrom("RUNNING_DOCS", "RUNNING_DOCS", "COMPLETED")

(* Anything in the handler's try block may throw: the entry move, the steps*)
(* before the areas start, or an area itself, and the areas still running  *)
(* are not waited for.                                                     *)
Throw(p) ==
    /\ \/ run[p].step \in {"work", "pause"}
       \/ run[p].step = "entry" /\ ~ run[p].already
    /\ \E rest \in SUBSET run[p].todo :
         /\ rest = run[p].todo => rest = {}
         /\ run' = [run EXCEPT ![p].step = "fail", ![p].todo = rest]
    /\ UNCHANGED <<scanVars, results, money, queue, intent, actors, ghosts>>

(* failScan moves from the job's own phase, not from where the walk got to.*)
Fail(p) == run[p].step = "fail" /\ EndFrom(p, p, "FAILED")

(* installTerminalRefund's observer reads what was delivered, then refunds.*)
Observe(p) ==
    /\ run[p].step = "observe"
    /\ IF Owed > 0
       THEN run' = [run EXCEPT ![p].step = "refund", ![p].amount = Owed]
       ELSE Leave(p)
    /\ UNCHANGED <<scanVars, results, money, queue, intent, actors, ghosts>>

ObserverRefund(p) ==
    /\ run[p].step = "refund"
    /\ Refund(run[p].amount)
    /\ Leave(p)
    /\ UNCHANGED <<scanVars, results, queue, intent, actors, ghosts>>

-----------------------------------------------------------------------------
(* sweepTimedOutScans, on a schedule.  A row without startedAt never       *)
(* matches its filter.                                                     *)

Elapse ==
    /\ started /\ ~ overdue
    /\ overdue' = TRUE
    /\ UNCHANGED <<state, started, requested, gated, results, money, queue,
                   intent, actors, run, ghosts>>

(* Mutant: a paused audit is not sweepable.                                *)
SweepSelectNotPaused ==
    /\ sweeper.step = "idle"
    /\ state \in ScanState \ (Terminal \cup {"AWAITING_QUESTIONNAIRE"}) /\ overdue
    /\ sweeper' = [sweeper EXCEPT !.step = "picked", !.observed = state]
    /\ UNCHANGED <<scanVars, results, money, queue, intent, creator, canceller,
                   resumer, run, ghosts>>

SweepSelect ==
    /\ sweeper.step = "idle"
    /\ state \in ScanState \ Terminal /\ overdue
    /\ sweeper' = [sweeper EXCEPT !.step = "picked", !.observed = state]
    /\ UNCHANGED <<scanVars, results, money, queue, intent, creator, canceller,
                   resumer, run, ghosts>>

(* terminate(): the fresh read and the guarded move share a transaction,   *)
(* which at READ COMMITTED does not keep other commits out in between.     *)
SweepRead ==
    /\ sweeper.step = "picked"
    /\ sweeper' = [sweeper EXCEPT !.step = "read", !.amount = Owed]
    /\ UNCHANGED <<scanVars, results, money, queue, intent, creator, canceller,
                   resumer, run, ghosts>>

IdleSweeper == [step |-> "idle", observed |-> NoScan, amount |-> 0]

(* Mutant: the outcome of the guarded move is not looked at.               *)
SweepMoveUnchecked ==
    /\ sweeper.step = "read"
    /\ state' = IF CanMove(sweeper.observed, "TIMED_OUT") THEN "TIMED_OUT" ELSE state
    /\ sweeper' = IF sweeper.amount > 0
                  THEN [sweeper EXCEPT !.step = "refund"] ELSE IdleSweeper
    /\ UNCHANGED <<started, overdue, requested, gated, results, money, queue,
                   intent, creator, canceller, resumer, run, ghosts>>

SweepMove ==
    /\ sweeper.step = "read"
    /\ IF CanMove(sweeper.observed, "TIMED_OUT")
       THEN /\ state' = "TIMED_OUT"
            /\ sweeper' = IF sweeper.amount > 0
                          THEN [sweeper EXCEPT !.step = "refund"] ELSE IdleSweeper
       ELSE UNCHANGED state /\ sweeper' = IdleSweeper
    /\ UNCHANGED <<started, overdue, requested, gated, results, money, queue,
                   intent, creator, canceller, resumer, run, ghosts>>

SweepRefund ==
    /\ sweeper.step = "refund"
    /\ Refund(sweeper.amount)
    /\ sweeper' = IdleSweeper
    /\ UNCHANGED <<scanVars, results, queue, intent, creator, canceller, resumer,
                   run, ghosts>>

-----------------------------------------------------------------------------
(* Faults: a process dies where it stands.  Nobody finishes what it had    *)
(* begun; only the rows it committed remain.                               *)

Fault(losesRefund) ==
    /\ faults < MaxFaults
    /\ faults' = faults + 1
    /\ abandoned' = (abandoned \/ losesRefund)

CrashCreate ==
    /\ creator \in {"row", "debited", "failing"}
    /\ creator' = "done"
    /\ Fault(FALSE)
    /\ UNCHANGED <<scanVars, results, money, queue, intent, canceller, resumer,
                   sweeper, run>>

CrashCancel ==
    /\ canceller.step \in {"moved", "published", "read"}
    /\ canceller' = [canceller EXCEPT !.step = "done"]
    /\ Fault(TRUE)
    /\ UNCHANGED <<scanVars, results, money, queue, intent, creator, resumer,
                   sweeper, run>>

CrashResume(w) ==
    /\ resumer[w] \in {"won", "wrote"}
    /\ resumer' = [resumer EXCEPT ![w] = "done"]
    /\ Fault(FALSE)
    /\ UNCHANGED <<scanVars, results, money, queue, intent, creator, canceller,
                   sweeper, run>>

(* Mutant: a stalled job goes back to the queue.                           *)
CrashRunRedelivered(p) ==
    /\ Running(p)
    /\ run' = [run EXCEPT ![p] = [NoRun EXCEPT !.step = "done"]]
    /\ jobs' = jobs \cup {[phase |-> p, already |-> run[p].already]}
    /\ Fault(run[p].step \in {"observe", "refund"})
    /\ UNCHANGED <<scanVars, results, money, used, deadline, intent, actors>>

(* A stalled phase job fails at once: maxStalledCount is 0, attempts is 1. *)
CrashRun(p) ==
    /\ Running(p)
    /\ run' = [run EXCEPT ![p] = [NoRun EXCEPT !.step = "done"]]
    /\ Fault(run[p].step \in {"observe", "refund"})
    /\ UNCHANGED <<scanVars, results, money, queue, intent, actors>>

CrashSweep ==
    /\ sweeper.step # "idle"
    /\ sweeper' = IdleSweeper
    /\ Fault(sweeper.step = "refund")
    /\ UNCHANGED <<scanVars, results, money, queue, intent, creator, canceller,
                   resumer, run>>

-----------------------------------------------------------------------------
Create == CreateRow \/ DebitScan \/ DebitRefused \/ EnqueueFirst \/ EnqueueFailed
              \/ MarkFailed

Cancel == CancelMove \/ CancelPublish \/ CancelRead \/ CancelRefund

Questionnaire(w) == Resume(w) \/ WriteIntent(w) \/ EnqueueDesign(w)

handlePhase(p) ==
    \/ StartJob(p) \/ Enter(p) \/ FinishModule(p) \/ Walk(p) \/ ScheduleDeadline(p)
    \/ Throw(p) \/ Fail(p) \/ Observe(p) \/ ObserverRefund(p)

Sweep == SweepSelect \/ SweepRead \/ SweepMove \/ SweepRefund

Crash == CrashCreate \/ CrashCancel \/ CrashSweep
             \/ (\E w \in {"user", "timer"} : CrashResume(w))
             \/ (\E p \in Phase : CrashRun(p))

Next == \/ Create \/ Cancel \/ Synthesize \/ Complete \/ Elapse \/ Sweep \/ Crash
        \/ \E w \in {"user", "timer"} : Questionnaire(w)
        \/ \E p \in Phase : handlePhase(p)

Spec == Init /\ [][Next]_vars

(* Time passes, and the repeatable sweep job is run again and again.       *)
Fairness == WF_vars(Elapse) /\ WF_vars(Sweep)

FairSpec == Spec /\ Fairness

(* Moreover every process that is not struck by a fault goes on, and every *)
(* queued job finds a worker.                                              *)
LiveSpec ==
    /\ FairSpec
    /\ WF_vars(Create) /\ WF_vars(Synthesize) /\ WF_vars(Complete)
    /\ \A p \in Phase : WF_vars(handlePhase(p))
    /\ \A w \in {"user", "timer"} : WF_vars(WriteIntent(w) \/ EnqueueDesign(w))
    /\ WF_vars(Resume("timer"))

-----------------------------------------------------------------------------
(* Properties.                                                             *)

(* The row, its movements, its jobs and its processes have their shape.    *)
TypeOK ==
    /\ state \in ScanState \cup {NoScan}
    /\ started \in BOOLEAN /\ overdue \in BOOLEAN
    /\ requested \in SUBSET Area /\ gated \in SUBSET requested
    /\ results \in [Area -> {"none", "scored", "unscored"}]
    /\ debited \in Nat /\ refunded \in 0..debited
    /\ jobs \subseteq [phase : Phase, already : BOOLEAN] /\ used \subseteq Phase
    /\ deadline \in {"none", "scheduled", "fired"}
    /\ intent \in {"none", "SUPPLIED", "SKIPPED", "DEFAULTED"}
    /\ creator \in {"start", "row", "debited", "failing", "done"}
    /\ canceller \in [step : {"idle", "moved", "published", "read", "done"},
                      amount : Nat, debitTx : BOOLEAN]
    /\ resumer \in [{"user", "timer"} -> {"idle", "won", "wrote", "done"}]
    /\ run \in [Phase -> [step : {"none", "entry", "work", "pause", "fail",
                                  "observe", "refund", "done"},
                          read : ScanState \cup {NoScan}, already : BOOLEAN,
                          current : Phase \cup {NoScan}, todo : SUBSET Area,
                          cancelled : BOOLEAN, amount : Nat]]
    /\ sweeper \in [step : {"idle", "picked", "read", "refund"},
                    observed : ScanState \cup {NoScan}, amount : Nat]
    /\ faults \in 0..MaxFaults /\ abandoned \in BOOLEAN

(* The state machine of ScanMachine holds against every writer at once:    *)
(* the API's own UPDATEs and the workers' transition() never take the row  *)
(* along an edge that is not in the table, nor out of a terminal state.    *)
Machine == INSTANCE ScanMachine
LegalMoves == Machine!MSpec

(* Nobody still owes the scan a refund it has begun to work out.           *)
Settled ==
    /\ state \in Terminal
    /\ creator = "done"
    /\ canceller.step \in {"idle", "done"}
    /\ sweeper.step # "refund"
    /\ \A p \in Phase : run[p].step \notin {"observe", "refund"}

(* FR-075, Principle VI: whichever process ended the audit, and whatever   *)
(* else was under way, the areas that were not delivered are refunded,     *)
(* unless the process that owed the refund died, or the cancellation found *)
(* no charge yet.                                                          *)
UndeliveredRefunded ==
    (/\ Settled /\ debited > 0 /\ ~ abandoned
     /\ state = "CANCELLED" => canceller.debitTx)
        => refunded >= Owed

(* A completed audit is never refunded more than its undelivered areas: no *)
(* sweep, cancellation or failure that lost its race to the completion     *)
(* pays out.                                                               *)
CompletedIsPaidFor == state = "COMPLETED" => refunded <= Owed

(* The design phase never starts before the winner of the questionnaire    *)
(* race has stored the intent that phase reads.                            *)
IntentBeforeDesign ==
    run["RUNNING_PHASE_2"].step = "work" => intent # "none"

(* The loser of the questionnaire race never overwrites the winner.        *)
IntentWrittenOnce == [][intent # "none" => intent' = intent]_vars

(* No area is run and stored twice, through crashes, races and resumes: a  *)
(* second run would pay the provider again.                                *)
ResultWrittenOnce ==
    [][\A m \in Area : results[m] # "none" => results'[m] = results[m]]_vars

(* FR-038: an audit that has started ends, whatever died or was lost.      *)
StartedEventuallyEnds == started ~> state \in Terminal

-----------------------------------------------------------------------------
(* What the comments promise and the code does not keep.                   *)

(* "Refund whatever was charged for work that had not yet run": every      *)
(* cancelled scan that was charged gets back its undelivered areas.        *)
CancelledIsRefunded ==
    Settled /\ state = "CANCELLED" /\ ~ abandoned /\ debited > 0 => refunded >= Owed

(* "hand back credits nobody paid": an audit that delivered every area it  *)
(* charged for is refunded nothing.                                        *)
ChargedWorkIsPaidFor ==
    state = "COMPLETED" /\ requested \ gated \subseteq Scored => refunded = 0

(* The sweep is the backstop for "a crash between debit and enqueue": a    *)
(* scan that was charged ends or its charge is given back.                 *)
ChargedEventuallySettles == debited > 0 ~> (state \in Terminal \/ refunded > 0)

=============================================================================
