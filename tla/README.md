# WebAudit AI: a TLA+ model of credits, scans, execution and payments

WebAudit AI sells audits of web sites. A user holds credits, an API process
charges them for a scan and queues it, worker processes run the scan phase by
phase, and whatever was not delivered is refunded. A planned scan also runs units in
child processes, under leases that budgets and a kill switch control; credits and plans
are bought through a payment provider that reports when, and as often as, it likes. The API and the workers share
nothing but PostgreSQL and Redis, so almost everything that can go wrong with
money is an interleaving: two processes that read before either has written, a
process that dies between two commits, a sweep that meets a late answer. This
directory models those protocols, checks them with TLC on small instances and
proves their safety properties with TLAPS for every value of the constants.

Source paths below are relative to `src/`.

## 1. Inventory

| Component | State | Operations | Hard behaviour |
|---|---|---|---|
| Credit ledger (`apps/api/src/services/credits`, `db/retry.ts`) | `CreditLot`, `CreditTransaction`, `CreditAllocation` | `grantLot`, `adjustCredits`, `debit`, `refundPartial`/`refund`, `expireRenewedLots` | row locks in two different orders, READ COMMITTED re-evaluation, clock read before or after the lock, deadlock victims retried, proportional rounding, replacement lots |
| Scan creation (`services/intake/create-scan.ts`) | `Scan` row, debit, first job | `createScan` and its compensations | row, debit and enqueue are three commits; a cancel or a crash falls between them |
| Cancellation (`routes/scans.routes.ts`) | `Scan.state`, refund | `POST /:id/cancel` | moves first, refunds afterwards, never retried |
| Orchestrator (`apps/worker/src/orchestrator/orchestrator.ts`, `phases.ts`, `state-machine.ts`) | `Scan.state`, `ModuleResult`, BullMQ jobs | `handlePhase`, `transition`, `enqueuePhase` | guarded moves, areas running concurrently, an area that outlives its handler, stalled jobs |
| Questionnaire (`questionnaire.service.ts`, `questionnaire-timeout-handler.ts`) | `DesignIntent`, delayed job | answer, skip, deadline | a three-way race with an ordering requirement on its winner |
| Timeout sweep and terminal refund (`timeout.ts`, `timeout-scheduler.ts`, `terminal-refund.ts`) | `startedAt`, refund | `sweepTimedOutScans`, terminal observers | works on a stale selection; the move and the refund are separate commits |
| Admission (`services/queue/admission-gate.ts`, `entitlements.ts`, partial unique index) | Redis sorted set, queue depth | reserve, release, headroom, insert | a script that is atomic and a depth that is read before it; leases of dead processes |
| Execution runtime of planned scans (`services/execution-runtime`, worker `execution-runtime`, `planned-sweep.ts`, `fahes_*` functions) | `ExecutionUnit`, `ExecutionDependency`, host claims, effects, child processes, execution queues | enqueue, claim, admit, dispatch, run, finalize, gate, passive completion, expire | jobs delivered twice, hosts that die, a sweep that decides on what it read, a gate that several parties call, children that outlive their host |
| Safety leases, budgets, kill switch (`services/safety`, `services/authorization`, `f07_*` functions) | `AdmissionLease`, `BudgetCounter`, `BudgetConsumption`, `KillSwitchState`, the grant | admit, renew, release, finalize, reclaim, trigger, acknowledge, reconcile, revoke, reclassify | checks before the locks, renewal in two steps, dead holders, stops nobody answers |
| Billing (`services/billing`, `webhooks.routes.ts`) | `PendingPayment`, `BillingEvent`, grants, `Receipt` | checkout, provider events, receipt, confirmation, expiry of open payments | events repeated, early, late and concurrent; a handler of five transactions that may die in between |

Everything else (web frontend, authentication, capability runner, AI executor,
scoring, reports, e-mail, archive and network guards) is listed in
`PROJECT.json` with the reason it is left out: sequential request handling, pure
functions or pure I/O.

What makes the components correct:

* ledger: the movement history is the balance (Principle VI), no lot is
  overdrawn or inflated, a debit is reversed once, plan credits are spent before
  purchased ones and purchased credits never expire (FR-078, SC-022), every call
  returns;
* scans: the state table holds against every writer, undelivered areas are
  refunded and delivered ones are paid for (FR-075), an area is run once, a started
  audit ends (FR-038), design is judged after the intent is stored (FR-040);
* admission: capacity is respected, slots are not leaked, one running scan per
  target (FR-018);
* planned scans: one host runs a unit, a unit runs after its prerequisites, the report
  after every unit, a terminal status is final and leaves no lease, effect or process
  behind, every unit ends;
* leases: the counters equal the leases they count, no lease is granted under a stop, one
  that ended never comes back, every stop is completed;
* payments: a paid order is granted, once, and is SUCCEEDED only after the grant and
  its receipt.

## 2. Modules

| Module | Models |
|---|---|
| `Totals` | the sum of a function into the naturals, as the size of a set (so that it can be proved about) |
| `Account` | abstract: what the ledger promises its callers |
| `CreditLedger` | the ledger's rows and the transactions that change them |
| `ScanStates` | scan states, `ALLOWED`, `nextPhase`, `modulesForPhase` |
| `ScanMachine` | abstract: what every writer of `Scan.state` must respect |
| `ScanLifecycle` | one scan and all the processes that touch it |
| `Admission` | concurrent `createScan` requests at the gate |
| `ExecutionUnits` | the units of one planned scan: hosts, orchestrator, sweep |
| `SafetyLeases` | leases, counters and stops under one grant |
| `Payments` | orders of one user, from the checkout to the receipt |
| `MC*` | values and symmetry for TLC |
| `TotalsTheorems` | the laws of sums the proofs need |
| `CreditLedgerProofs`, `CreditLedgerBooks` | the ledger's theorems: what row locks protect, and the sums that follow |
| `ScanLifecycleProofs`, `AdmissionProofs`, `ExecutionUnitsProofs`, `SafetyLeasesProofs`, `PaymentsProofs` | the theorems of those modules |

### CreditLedger

One user's rows; no query of the directory spans two users. `lots` is the
sequence of `CreditLot` rows in the order of id, which is also taken to be the order
of `createdAt` (cuids are time-ordered); `txs` holds each `CreditTransaction` with
its `CreditAllocation` rows as a function from lots to credits. `call[p]` is the
transaction caller p is inside. A transaction is cut where PostgreSQL lets another
one in: the snapshot of the `SELECT` (`SelectDebit`, `SelectExpire`,
`ReadOriginal`), the unique-index insert (`InsertReversal`), one step per row lock
in the order of the `ORDER BY` (`LockNext`, which re-evaluates the `WHERE` clause on
a row that changed meanwhile), and the writes with the `COMMIT` (`CommitDebit`,
`CommitRefund`, `CommitExpire`). The writes are one step because they touch locked or
invisible rows only. `WaitsFor` is the lock table; `DeadlockVictim` is 40P01 followed by
`withRetry`. The clock of `debit` is read before its locks and that of
`refundPartial` after them, as in the code; it does not move between that reading and the
commit. Undated lots have `expiresAt = Never`.

`Remaining` is the column, `Spendable` what `balanceOf` counts of it: credits of lots that
have not expired. They differ between a boundary and its sweep. `KeepsPromise` maps the
abstract balance to `Spendable`, so a reversal counts only for credits the user can spend;
the mutant that pours a refund into a dead lot violates it, although no credit is lost from the
column. A debit may take credits that expired after it looked (`now` is read before its locks);
`late` of `Account` is the amount of those, and nothing else that is dead may be taken.

### ScanLifecycle

One scan. Each process is a small record of how far it has got: `creator`
(`createScan`), `canceller` (the cancel route), `resumer` (the user's and the timer's
side of the questionnaire), `run[phase]` (a `handlePhase` invocation, with its areas in
`todo` and whether it has heard of the cancellation), `sweeper`. One action is one
database or queue round trip. `CanMove` is the guard of `transition()`; `EndFrom` is
a terminal move whose winner goes on to the refund observer. `FinishModule` stores an
area's result even after its handler has moved on, because `Promise.all` does not
wait for the others when one throws. `Refund` is the ledger seen from outside:
at most one refund per debit, which `CreditLedger` establishes. `MaxFaults` bounds the crashes;
`abandoned` records that one of them struck a process that owed a refund. A stalled
phase job is not redelivered (`SCAN_PHASE_MAX_STALLED_COUNT` is 0, `attempts` is 1).
Scans without a resolved plan only: the plan gate and the planned pass of the sweep
belong to the execution runtime.

### Admission

`Req` are concurrent requests of one user. `slots` is the Redis sorted set,
`Reserve` the Lua script, `ReserveFails` a lost connection (with or without the script
having run), `Release` the `finally` block. `Undo` stands for every way the row is
deleted or failed again.

### ExecutionUnits

One planned scan from `QUEUED` to its end. `status` is `ExecutionUnit.status`
(units that the resolver skipped are left out: they are terminal from the start),
`host[h]` a worker process with the unit it works on and the outcome it is about
to write, `orch` the phase-3 job, `sweep` the timeout sweep with the list and the
decision it holds. Delivery is not an object of its own: `Pickup` may take any queued
unit again and again, which covers duplicate and redelivered jobs; the claim
(`claimed`, never given back) is what stops them. A host's way is `Pickup`,
`RequestAdmission`, three conditional updates (`ToAdmitted`, `ToDispatched`,
`ToRunning`), the loop with its child (`LoopStops`, `RunEnds`, `AuthorizeEffect`,
`ConfirmEffect`), `FinalizeUnit` and `HostGate`; each is one transaction.
`Finalize` is `fahes_finalize_unit` with the lease, the effects and the blocked
dependents in the same commit, and answers `replayed` for a unit that has ended.
`Sweep*` is `expirePlanUnits`: `SweepRead` decides, `SweepWrite` commits later.
Time is four instants relative to the deadline (`Plenty`, `Insufficient`, `Deadline`,
`Backstop`): those are all the code compares with. A stop is one fact here;
`SafetyLeases` has its life cycle.

### SafetyLeases

Requests for leases under one `TargetAuthorization`. A key of `Key` is an idempotency
key, `ExecOf` its execution. Scopes are the executions and `Wide`, which stands for
scan, grant, target, tenant and platform: a stop on any of them covers every key.
`caller[k]` is the caller's place between two statements: `BeginAdmit` looks for stops
without locks, `Admit` is `f07_admit` under the grant's lock; `BeginRenew` is the check of
`safetyCheckpoint`, `FinishRenew` the fenced `UPDATE`. An expired lease keeps its slot until
it is released or reclaimed, as `activeConcurrency` does. A second trigger of a stop that
is pending joins it; a completed one may be triggered again (`MaxTriggers` bounds it).

### Payments

Orders of one user: subscriptions and credit purchases (`Credits`), which need a plan
when they are granted. `happened` is what the provider did; an order of `Failing` may have a
failed attempt before the successful one. `Deliver` is the start of a webhook or redirect
request, possible any number of times; a handler then takes one step per transaction:
`Read`, `CheckEntitled`, `Grant`, `WriteReceipt`, `Close`, `Finalize`. An event with no row to
apply to is left unapplied, and the next delivery tries again; so is one whose user, amount, kind
or item differs from its row's (`mismatched`, possible for the orders of `Differing`). `Expire` is
the sweep of old open payments, `Lapse` a renewal that ends the plan. The handler that finds the
event applied leaves; one that dies leaves the event where it was.

`Refused` are the two refusals, which `CheckEntitled` asks again before each grant and each
repetition: credits need a plan that allows them (`entitled`), a subscription a plan that is on
offer (`subscribable`, which `UpdatePlan` switches at any time). Both raise, so a customer who paid
for a plan that was taken off offer after the checkout gets nothing while that lasts, and
`PaidIsGranted` says so. The event stays unapplied: once the plan is back for good, the next delivery
grants it. The refusal also strikes a repetition after a death between grant and close:
the order is granted, but its row stays `PENDING` until the sweep makes it `EXPIRED`.

## 3. Runs

| Run | Checks | Bounds |
|---|---|---|
| `credit_ledger` | `TypeOK`, `HistoryIsBalance`, `LotBounds`, `MovementsAllocated`, `RefundedOnce`, `LotBooks`, `PurchasedNeverLost`, `PlanSpentFirst`, `BoundaryNeverExtended`, refinement of `Account` | 2 callers, 2 grants of 2 credits, amounts 1 and 3, two boundaries, 4 lots, 5 movements, clock to 3 |
| `credit_ledger_live` | `EveryCallReturns` | 2 callers, 2 grants of 1 credit, amount 2, 2 attempts |
| `scan_lifecycle` | `TypeOK`, `LegalMoves` (refinement of `ScanMachine`), `UndeliveredRefunded`, `CompletedIsPaidFor`, `IntentBeforeDesign`, `IntentWrittenOnce`, `ResultWrittenOnce`, `StartedEventuallyEnds` | four selections of three areas, UI possibly gated, one fault |
| `admission` | `TypeOK`, `SlotsWithinCapacity`, `SlotsAccountedFor`, `OneActivePerTarget`, `RefusedForRoomOnly` | 3 requests, 2 targets, capacity 1, limit 2, clock to 3 |
| `execution_units` | `TypeOK`, `SoleHost`, `DependencyOrder`, `SynthesisAfterUnits`, `EndedUnitIsSettled`, `FirstEndWins`, `EveryUnitSettles` | a leased unit and a passive one that depends on it, 2 hosts, one death or stop |
| `safety_leases` | `TypeOK`, `BudgetsHold`, `NoLeaseUnderStop`, `EndedLeaseStaysEnded`, `StopCompletes` | 2 keys of 2 executions, one slot, one request, 2 triggers |
| `payments` | `TypeOK`, `GrantedOnce`, `SucceededIsDelivered`, `PaidIsGranted` | a subscription and a purchase, 2 handlers, one death, a failed attempt of the purchase, a report that differs from the subscription's row |
| `refused_gate` | violates `GateFollowsFinalization` | no faults |
| `cancel_race` | violates `CancelledIsRefunded` | no faults |
| `gated_refund` | violates `ChargedWorkIsPaidFor` | no faults |
| `stranded_charge` | violates `ChargedEventuallySettles` | one fault |
| `queue_overrun` | violates `WaitingWithinCapacity` | 2 requests |

Why the bounds are enough: an amount of 3 against lots of 2 makes every debit span
two lots, so that splits, rounding, lock order and deadlocks all occur; two
boundaries and a clock that passes both let a lot expire and be swept, early and late,
between a debit and its refund; four lots leave room for two replacement lots. Two
callers are the smallest set that conflicts; callers are interchangeable (symmetry).
In `scan_lifecycle` the selections cover one area, two in one phase, one on each side
of the questionnaire, and design alone; one fault at every point is what the
compensations are written for. Capacity 1 with three requests puts every reservation
at the limit; a lease of 1 with a clock to 3 lets a dead request's slot expire.

A unit and its dependent are enough for blocking, eligibility and order; two hosts for
every race over a claim, and the sweep is the third party of each. Budgets of one put both
keys at the limit; two triggers let a stop be requested again after it was completed. Two
handlers are webhook and redirect, or a delivery and its repetition; two kinds of order
are needed because the purchase depends on the plan of the other, and a refusal of either is
a different check. The passive unit is the dependent in `execution_units`, so that an
active unit depends on an active one is covered by the theorem `DependenciesRespected` alone.

Deadlock checking is off: a bounded ledger, an ended scan and an empty queue stop.

### Fairness

`CreditLedger.FairSpec`: a transaction that can go on does (the event loop resumes
it); a caller waiting for a lock gets it if it is free again and again (strong
fairness, because PostgreSQL queues lock waiters); deadlocks are broken. Nothing is
assumed of callers, the clock or crashes. `ScanLifecycle.FairSpec`: only time and
the repeatable sweep job are fair; no request and no phase job is, and
`StartedEventuallyEnds` holds all the same, which is what FR-038 asks for.
`LiveSpec` makes every surviving process fair too, so the counterexample of
`stranded_charge` is not a process that merely stopped.

`ExecutionUnits.FairSpec`: the scan is started and time passes, the repeatable
sweep runs, the handler of a living host goes on, and a lease
expires and is reclaimed; nothing is assumed of deliveries, areas, adapters or stops. `SafetyLeases.FairSpec`: a living holder reaches
its next checkpoint (the host loop has an interval), a lease that is not renewed expires,
and the repeatable job reclaims and reconciles; callers need not ask, release or
acknowledge. `Payments.FairSpec`: a living handler goes on, and the
provider repeats a webhook that was not answered with success (strong fairness of
`Deliver`, because the handlers are busy and free again in between); checkouts, the
sweep and deaths are free.

### What the violation runs show

* `cancel_race`: cancelling between the insert of the row and the debit leaves a
  cancelled scan charged. The cancel route looks for the debit once.
* `gated_refund`: an area that was gated out is not charged, but counts in
  `requestedCount`, so a completed audit that delivered everything it charged for gets
  part of the charge back.
* `stranded_charge`: a crash between debit and enqueue leaves a charged `QUEUED` row without
  `startedAt`, which the sweep's filter never matches, although the sweep's own comment
  names this crash.
* `queue_overrun`: the reservation script is atomic, the queue depth it is given
  is not: it was read before. `SlotsWithinCapacity` holds, the queue bound does not.

* `refused_gate`: a unit refused at dispatch is finalized without a call of the plan gate.
  If it is the last unit and the orchestrator has been at the gate before, all units are
  terminal and nothing continues the scan; it waits for its deadline and times out.

`UndeliveredRefunded` and `CompletedIsPaidFor` are what does hold: outside the
cancel race and a crash of the process that owes the refund, nobody is left
unrefunded, and no loser of a race pays out for a completed audit.

## 4. Proofs

Every invariant and every action property that a run checks is also a theorem, and so are
both refinements: for every value of the constants that satisfies the module's assumption,
not only for the instance of the run. Each proof first finds an inductive invariant, which TLC
has checked on the instance of the run before; then there is one lemma per action, or per
conjunct and the actions that can disturb it.

`TotalsTheorems`: a sum is the size of a finite set of units, so its laws are laws of
cardinalities: type, a sum of zeros, one summand, extension by zeros, addition, the change of
one summand, a new summand. No induction over data is needed.

`CreditLedgerProofs` and `CreditLedgerBooks`, for any callers, amounts, lots and movements
satisfying `LedgerAssumption`:

* `TypeCorrect` (`remaining` is a natural, so no lot is overdrawn), `LotsWithinBounds`,
  `ReversedOnce`. None of the three is inductive alone: that a commit does not overdraw a lot
  depends on what the transaction remembers of rows it read earlier. `IInv` adds what row
  locks buy. `HoldsRows`: what a call means to take from a row it holds is still there.
  `HoldsDebit`: the debit a call is reversing is a debit, large enough, and not reversed yet.
  `Excludes`: no two calls hold a row in common or reverse one debit. `MovementsOK`:
  allocations name existing lots. The commits share `RowsStep`, which says when a commit
  leaves the other callers' part of the invariant alone.
* `HistoryBalances`, `MovementsCovered`, `LotsAccounted`, `PurchasedKept`. Here `BInv` adds
  sums to what the locks protect. `Counts`: what a debit takes of its rows adds up to the
  smaller of what it asked for and what it has found; what a sweep takes is all of its rows.
  `OnceEach`: a statement locks a row once, or it would be counted twice. `Covers`: a refund
  has locked every lot its debit drew on. `PurchasedUndated`: neither a grant nor a
  replacement lot dates purchased credits. A commit that takes (`TakenFrom`) or gives (`GivenTo`)
  then moves the balance by the amount it records. For a refund this needs two facts about the
  operators: the shares of a split add up to the credits asked for (`SplitSums`), and the
  replacement lots together get what could not be given back, each lot's rest in exactly one of them
  (`OrphansSum`).
* `PlanFirstAlways`, from `PlanFirst`: a debit lists its purchased rows last (their boundary is
  null, and nulls sort last) and takes from one only once the plan rows it holds are spent.
  `BoundaryOnlyEarlier`.
* `PromiseKept`: `CreditLedger` implements `Account`, with the balance mapped to
  `Total(Spendable)`, `late` to `Total(Late)` and each debit to a charge with what its refund gave
  back. A refund raises `Spendable` by all of its amount: `GiveBack` chooses lots alive at the commit
  (`GivenTo`), and a replacement lot is alive because `refundLotExpiry` dates it after `now`. A debit
  takes from rows that were alive when it looked (`Counts`), so what it takes and is not spendable any
  more is late. `OpenRoom`, that the bound on movements leaves every open transaction its own, gives
  the charge its identity.
* `NoCallerStranded`: take any group of callers that wait only for each other, one of them
  inside a call. One of them can go on, or there is a cycle, which the database breaks. The
  argument takes a smallest such group (strict inclusion of finite sets is well founded).
  `EveryStepAdvances`: a step of a call ends it, begins one more of its `MaxAttempts` attempts with
  the same operation, amount and target, or takes the attempt further.

`ScanLifecycleProofs`, for any areas, prices, selections, gates and faults: `TypeCorrect`,
`TerminalRefundMade`, `CompletionPaysNoMore`, `DesignHasIntent`, `IntentIsFinal`, `ResultIsFinal` and
`RowFollowsTable`, the refinement of `ScanMachine`. The processes share no lock; the
invariant says what each of them may rely on instead. `OneJob`: a phase is queued once and
has one handler. `OneWinner`: one side of the questionnaire race gets past its guarded move.
`OneResult` and `Pinned`: an area is stored by the one handler that runs it, and while it is
pending nobody moves the row out of its phase except to an end. `Amounts`: an amount read as owed is
never less than what is owed later, because results only accumulate and
`refundForUndelivered` falls as they do. `Covered`: whoever ended a charged audit is on his way
to the refund until it is made, or a crash is on record. One frame lemma per group of actions
(`CreateFrame`, `HandlerFrame`, `SweepFrame`...) says which records it leaves alone. `AuditOnlyMovesOn`:
the row of a charged or started audit is never deleted, and every move leads to a later stage,
so a guarded move of the sweep that finds the row changed fails a bounded number of times.

`ExecutionUnitsProofs`, for any plan, hosts, deaths and stops: `TypeCorrect`, `OneHostPerUnit`,
`DependenciesRespected`, `ReportAfterUnits`, `EndSettles`, `FirstEndIsFinal`. A conditional `UPDATE`
looks at one row. That this suffices rests on `HoldersClaim` (a claim is never given back, so
a unit has one holder), `StepStatus` (what a holder may conclude about its row), `Ready` (a queued
unit's prerequisites are completed for good, so that nothing blocks it later, although nobody
reads them again) and `SweepSound` (what the sweep read of a running unit is still true when it
writes). `UnitOnlyMovesOn`: a unit's row only goes on along its state machine; a queued unit is never
blocked, and a passive one completes after its prerequisites.

`SafetyLeasesProofs`, for any requests and budgets: `TypeCorrect`, `BudgetsRespected`, `StopRefusesLeases`,
`EndedLeaseIsFinal`. `TypeOK` and `BudgetsHold` are inductive together; the work is in the
cardinalities, since a finalization or a reclaiming sweep frees a set of slots at once.
`StopOnlyWindsDown`: a pending stop only climbs its ladder and is `STOPPED` only with no live lease in
scope; under it no renewal begins, and a lease that is not live is revived at most once, by a
renewal that was already under way.

`PaymentsProofs`, for any orders, deliveries and handlers: `TypeCorrect`, `PaymentGrantedOnce`,
`PaymentDelivered`. The five transactions of a handler share no lock; `StepDone` says what is
committed when a handler has reached each of them, by itself or by an earlier delivery, and that it
has got there only on a report that matches its row.
`OrderOnlyMovesOn`: the first close of a row is final, what was applied, granted, written or sent is
never withdrawn, and a handler goes through its transactions in one direction on one event.

`AdmissionProofs`, under `AdmissionAssumption`: `TypeCorrect`, `CapacityHeld`, `NoSlotLeaked`,
`TargetAuditedOnce`, `RefusalHasCause`. The strengthening is small (a request under way has named
its target); the argument for the capacity is that the members after the script are among
the live ones before it and the new one.

Only model-checked: liveness under fairness (`EveryCallReturns`, `StartedEventuallyEnds`,
`EveryUnitSettles`, `StopCompletes`, `PaidIsGranted`). What each of them rests on is proved as a fact
about steps (`NoCallerStranded` and `EveryStepAdvances`, `AuditOnlyMovesOn`, `UnitOnlyMovesOn`,
`StopOnlyWindsDown`, `OrderOnlyMovesOn`): nothing that was reached is lost. That the next step is taken
is left to TLC, because fairness and `ENABLED` are out of the prover's reach. The violation runs
are counterexamples and have nothing to prove.

## 5. Plan

Done: ledger, scan lifecycle, admission, planned scans, safety leases and payments, each
model-checked, all of their safety properties and refinements proved, and the step facts
behind their liveness properties. Next: `Reverification`, with its charge, run and refund, and
subscription renewal as its two transactions with a crash between, composed with
`CreditLedger`'s grants.

## 6. Not modelled

Most of the repository's lines are outside a model's reach or use: the web frontend and
its design system, the modules that inspect pages, prompts, scoring and report texts,
parsers and validators (pure functions or I/O without shared state). Of the protocols:

* scans: contents of areas, findings and scores (an area's outcome is a choice); several
  scans in one sweep batch, where a refund that throws makes the later ones wait; a queue that
  stores a job and reports failure, which would deliver an audit that was refunded in full; a
  selection of UI alone, whose first phase is empty, so that its job is refused and the scan
  stays `QUEUED`; an area stored after the refund was worked out, which the code accepts.
  `DebitRefused` deletes the row even if it was cancelled meanwhile, as the code does;
* ledger and admission: several users; a plan lot granted after a debit's snapshot, which
  that debit does not see; the concurrency limit, which is counted before it is acted upon;
  other entitlements; Redis losing data;
* planned scans: `REVERIFY` plans, the `TELEMETRY` class, attempts after the first,
  evidence and progress, the kill of a child that ignores its signal;
* leases: several grants, escalation, the audit trail and its retention;
* payments: the generic branch of the webhook (`webhooks.routes.ts:144-259`, events signed with a
  shared secret instead of coming from the provider's client), which applies `subscribe`,
  `renewSubscription`, `changePlan`, `cancelSubscription` and `purchaseCredits` without an order, a
  receipt or a mail, keyed on the same `BillingEvent`; `subscription.cancelled` and
  `refund.succeeded` events of the modelled branch, the checkout lock, a change of a subscription to
  another plan, the fields of a plan other than `isActive`, and the renewal scheduler. The last renews a due subscription without looking at its
  boundary again, so one that was bought anew just before is renewed at once;
* issues and re-verification, realtime events, authentication, workspaces, e-mail.

## 7. Running

    tlc -config CreditLedger.cfg MCCreditLedger
    tlc -config ScanLifecycle.cfg MCScanLifecycle
    tlc -config Admission.cfg MCAdmission
    tlc -config ExecutionUnits.cfg MCExecutionUnits
    tlc -config SafetyLeases.cfg MCSafetyLeases
    tlc -config Payments.cfg MCPayments
    tlapm TotalsTheorems.tla
    tlapm CreditLedgerProofs.tla
    tlapm CreditLedgerBooks.tla
    tlapm ScanLifecycleProofs.tla
    tlapm AdmissionProofs.tla
    tlapm ExecutionUnitsProofs.tla
    tlapm SafetyLeasesProofs.tla
    tlapm PaymentsProofs.tla

The longest proof run is that of `ScanLifecycleProofs`, a few minutes.
