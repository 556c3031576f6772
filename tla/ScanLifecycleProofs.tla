------------------------- MODULE ScanLifecycleProofs ------------------------
(***************************************************************************)
(* Theorems about ScanLifecycle, for any areas, prices, selections, gates  *)
(* and number of faults.  The processes share no lock: what each of them   *)
(* may rely on is that a phase is queued once and run once, that an area   *)
(* still running pins the row to its phase, and that an amount read before *)
(* a move covers whatever is owed after it.                                *)
(***************************************************************************)
EXTENDS ScanLifecycle, TotalsTheorems

P1 == "RUNNING_PHASE_1"
P2 == "RUNNING_PHASE_2"
P3 == "RUNNING_PHASE_3"
PM == "RUNNING_MASTER"
PD == "RUNNING_DOCS"
Who == {"user", "timer"}

(* Before the request has written its row, nothing exists.                 *)
Fresh ==
    creator = "start" =>
        /\ state = NoScan /\ requested = {} /\ gated = {} /\ debited = 0
        /\ canceller = [step |-> "idle", amount |-> 0, debitTx |-> FALSE]

(* Before the first job is queued, no worker has heard of the audit.       *)
Quiet ==
    /\ creator # "done" => used = {}
    /\ used = {} =>
         /\ state \in {NoScan, "QUEUED", "CANCELLED", "FAILED"}
         /\ jobs = {} /\ started = FALSE /\ overdue = FALSE
         /\ results = [m \in Area |-> "none"]
         /\ sweeper = IdleSweeper

(* What the request that creates the audit relies on.                      *)
Creation ==
    /\ creator = "row" => state \in {"QUEUED", "CANCELLED"} /\ debited = 0
    /\ creator = "debited" => debited = Charge /\ state # NoScan
    /\ creator = "failing" => refunded = debited

(* Each phase has one job, ever, and one invocation.                       *)
OneJob ==
    /\ used \subseteq {P1, P2, PM, PD}
    /\ overdue => started
    /\ \A j \in jobs : /\ j.phase \in used /\ run[j.phase] = NoRun
                       /\ j.already <=> j.phase = P2
    /\ \A p \in Phase : p \notin used => run[p] = NoRun
    /\ \A p \in Phase : run[p].step = "entry" => (run[p].already <=> p = P2)

(* The questionnaire race has one winner, before whose turn nobody has     *)
(* stored an intent, and phase 2 is queued after he has.                   *)
Early == {NoScan, "QUEUED", P1, "AWAITING_QUESTIONNAIRE"}

OneWinner ==
    /\ \A w \in Who : resumer[w] # "idle" => state \notin Early
    /\ resumer["user"] = "idle" \/ resumer["timer"] = "idle"
    /\ \A w \in Who : /\ resumer[w] = "won" => intent = "none"
                      /\ resumer[w] = "wrote" => intent # "none"
    /\ intent # "none" => \E w \in Who : resumer[w] \in {"wrote", "done"}
    /\ P2 \in used => intent # "none"
    /\ used = {} => \A w \in Who : resumer[w] = "idle"

(* An area is stored by the one invocation that runs it.                   *)
OneResult ==
    \A p \in Phase :
        /\ run[p].todo \subseteq modulesForPhase(p, requested)
        /\ \A m \in run[p].todo : results[m] = "none"
        /\ run[p].step \in {"none", "entry"} =>
             run[p].todo = {} /\ \A m \in modulesForPhase(p, requested) : results[m] = "none"

(* How far the walk of a handler may have come.                            *)
WalkSound ==
    \A p \in Phase : run[p].step = "work" =>
        \/ run[p].current = p
        \/ /\ p \in {P1, P2} /\ run[p].current \in {P2, P3} /\ run[p].todo = {}
           /\ p = P1 => "UI" \notin requested

(* An area that is still running, or about to, pins the row to its phase,  *)
(* unless the audit has ended.                                             *)
Pending(p) ==
    run[p].todo # {} \/ (run[p].step = "entry" /\ run[p].already /\ run[p].read = p)

Pinned ==
    /\ \A p \in Phase : Pending(p) => state \in {p} \cup Ended
    /\ run[P2].step = "entry" => "UI" \in requested

(* Who pays out, after which end.                                          *)
Enders ==
    /\ canceller.step # "idle" => state \in {"CANCELLED", NoScan}
    /\ sweeper.step = "refund" => state = "TIMED_OUT"
    /\ \A p \in Phase : run[p].step \in {"observe", "refund"} =>
         state = "FAILED" \/ (state = "COMPLETED" /\ p = PD)
    /\ refunded > 0 => state \in Terminal \/ (used = {} /\ creator \in {"failing", "done"})
    /\ state = NoScan => debited = 0

(* What was read as owed is never more than the charge, and never less     *)
(* than what is owed later.                                                *)
Amounts ==
    /\ debited \in {0, Charge}
    /\ canceller.amount <= Charge /\ sweeper.amount <= Charge
    /\ \A p \in Phase : run[p].amount <= Charge
    /\ canceller.step = "read" => canceller.amount >= Owed
    /\ sweeper.step \in {"read", "refund"} => sweeper.amount >= Owed
    /\ \A p \in Phase : run[p].step = "refund" => run[p].amount >= Owed

(* A completed audit owes what it owed when it completed.                  *)
Completed ==
    state = "COMPLETED" =>
        refunded <= Owed /\ \A p \in Phase : run[p].step = "refund" => run[p].amount <= Owed

(* Somebody is on his way to pay what is owed, or it has been paid.        *)
Covered ==
    /\ refunded > 0 => refunded >= Owed
    /\ canceller.debitTx => refunded >= Owed
    /\ debited > 0 /\ ~ abandoned /\ state \in {"FAILED", "COMPLETED"} =>
         refunded >= Owed \/ \E p \in Phase : run[p].step \in {"observe", "refund"}
    /\ debited > 0 /\ ~ abandoned /\ state = "TIMED_OUT" =>
         refunded >= Owed \/ sweeper.step = "refund"

IInv ==
    /\ TypeOK /\ Fresh /\ Quiet /\ Creation /\ OneJob /\ OneWinner /\ OneResult /\ WalkSound
    /\ Pinned /\ Enders /\ Amounts /\ Completed /\ Covered

-----------------------------------------------------------------------------
(* The operators.                                                          *)

(* The phases, listed.                                                     *)
LEMMA PhaseSet == Phase = {P1, P2, P3, PM, PD}
<1>1. DOMAIN PHASE_ORDER = 1..5
  BY DEF PHASE_ORDER
<1>2. /\ PHASE_ORDER[1] = P1 /\ PHASE_ORDER[2] = P2 /\ PHASE_ORDER[3] = P3
      /\ PHASE_ORDER[4] = PM /\ PHASE_ORDER[5] = PD
  BY DEF PHASE_ORDER, P1, P2, P3, PM, PD
<1>3. 1..5 = {1, 2, 3, 4, 5}
  OBVIOUS
<1>4. Phase = {PHASE_ORDER[i] : i \in {1, 2, 3, 4, 5}}
  BY <1>1, <1>3 DEF Phase
<1> HIDE DEF P1, P2, P3, PM, PD
<1> QED BY <1>2, <1>4

(* The order in which a handler walks through the phases.                  *)
LEMMA NextPhases ==
    nextPhase(P1) = P2 /\ nextPhase(P2) = P3 /\ nextPhase(P3) = PM
<1>1. DOMAIN PHASE_ORDER = 1..5 /\ Len(PHASE_ORDER) = 5
  BY DEF PHASE_ORDER
<1>2. /\ PHASE_ORDER[1] = P1 /\ PHASE_ORDER[2] = P2 /\ PHASE_ORDER[3] = P3
      /\ PHASE_ORDER[4] = PM /\ PHASE_ORDER[5] = PD
  BY DEF PHASE_ORDER, P1, P2, P3, PM, PD
<1>3. \A i \in 1..5 : /\ PHASE_ORDER[i] = P1 => i = 1
                      /\ PHASE_ORDER[i] = P2 => i = 2
                      /\ PHASE_ORDER[i] = P3 => i = 3
  BY DEF PHASE_ORDER, P1, P2, P3, PM, PD
<1>4. ASSUME NEW p, NEW k \in 1..4, PHASE_ORDER[k] = p, \A i \in 1..5 : PHASE_ORDER[i] = p => i = k
      PROVE  nextPhase(p) = PHASE_ORDER[k + 1]
  <2> DEFINE c == CHOOSE i \in DOMAIN PHASE_ORDER : PHASE_ORDER[i] = p
  <2>1. k \in DOMAIN PHASE_ORDER /\ \A i \in DOMAIN PHASE_ORDER : PHASE_ORDER[i] = p => i = k
    BY <1>1, <1>4
  <2>2. c = k
    BY <1>4, <2>1
  <2>3. nextPhase(p) = IF c = Len(PHASE_ORDER) THEN "COMPLETED" ELSE PHASE_ORDER[c + 1]
    BY DEF nextPhase
  <2> HIDE DEF c
  <2> QED BY <1>1, <2>2, <2>3
<1> HIDE DEF P1, P2, P3, PM, PD
<1>5. nextPhase(P1) = PHASE_ORDER[1 + 1]
  BY <1>2, <1>3, <1>4
<1>6. nextPhase(P2) = PHASE_ORDER[2 + 1]
  BY <1>2, <1>3, <1>4
<1>7. nextPhase(P3) = PHASE_ORDER[3 + 1]
  BY <1>2, <1>3, <1>4
<1> QED BY <1>2, <1>5, <1>6, <1>7

(* The table of moves, as far as the proofs look at it.                    *)
LEMMA Moves ==
    /\ ScanState = {"QUEUED", "AWAITING_QUESTIONNAIRE", P1, P2, P3, PM, PD} \cup Terminal
    /\ NoScan \notin ScanState
    /\ \A s, t : canTransition(s, t) <=>
         \/ s = "QUEUED" /\ t \in {P1} \cup Ended
         \/ s = P1 /\ t \in {"AWAITING_QUESTIONNAIRE", P2} \cup Ended
         \/ s = "AWAITING_QUESTIONNAIRE" /\ t \in {P2} \cup Ended
         \/ s = P2 /\ t \in {P3} \cup Ended
         \/ s = P3 /\ t \in {PM} \cup Ended
         \/ s = PM /\ t \in {PD} \cup Ended
         \/ s = PD /\ t \in {"COMPLETED"} \cup Ended
<1>1. ScanState = {"QUEUED", "AWAITING_QUESTIONNAIRE", P1, P2, P3, PM, PD} \cup Terminal
  BY PhaseSet DEF ScanState
<1> QED BY <1>1, LifecycleAssumption DEF canTransition, ALLOWED, P1, P2, P3, PM, PD, Terminal

(* The table of moves relates states of a scan.                            *)
LEMMA MoveTypes ==
    /\ NoScan \notin ScanState /\ {"QUEUED", "CANCELLED", "FAILED"} \subseteq ScanState
    /\ \A s, t : canTransition(s, t) => s \in ScanState /\ t \in ScanState
BY Moves DEF Ended, Terminal

(* What is charged is a number of credits.                                 *)
LEMMA ChargeType ==
    ASSUME TypeOK
    PROVE  Charge \in Nat /\ IsFiniteSet(requested)
<1>1. requested \subseteq Area /\ requested \ gated \subseteq Area
  BY DEF TypeOK
<1>2. IsFiniteSet(requested) /\ IsFiniteSet(requested \ gated)
  BY <1>1, LifecycleAssumption, FS_Subset
<1>3. [m \in requested \ gated |-> Cost[m]] \in [requested \ gated -> Nat]
  BY <1>1, LifecycleAssumption
<1> QED BY <1>2, <1>3, TotalType DEF Charge

(* refundForUndelivered: never more than the charge, and the more areas    *)
(* were delivered the less.                                                *)
LEMMA DivBound ==
    ASSUME NEW a \in Nat, NEW c \in Nat, NEW n \in Nat, n > 0, a <= c * n
    PROVE  a \div n \in Nat /\ a \div n <= c
OBVIOUS

(* Rounded division keeps the order.                                       *)
LEMMA DivMonotone ==
    ASSUME NEW a \in Nat, NEW b \in Nat, NEW n \in Nat, n > 0, a <= b
    PROVE  a \div n <= b \div n
OBVIOUS

(* So does a product.                                                      *)
LEMMA TimesMonotone ==
    ASSUME NEW a \in Nat, NEW b \in Nat, NEW c \in Nat, a <= b
    PROVE  c * a \in Nat /\ c * b \in Nat /\ c * a <= c * b
OBVIOUS

(* Nothing is refunded where nothing was requested, charged or missed.     *)
LEMMA RefundNothing ==
    ASSUME NEW c \in Nat, NEW n \in Nat, NEW d \in Nat, n <= 0 \/ c <= 0 \/ n - d <= 0
    PROVE  refundForUndelivered(c, n, d) = 0
BY DEF refundForUndelivered

(* refundForUndelivered pays out no more than the charge.                  *)
LEMMA RefundBounds ==
    ASSUME NEW c \in Nat, NEW n \in Nat, NEW d \in Nat
    PROVE  /\ refundForUndelivered(c, n, d) \in Nat
           /\ refundForUndelivered(c, n, d) <= c
<1>1. CASE n <= 0 \/ c <= 0 \/ n - d <= 0
  BY <1>1, RefundNothing
<1>2. CASE n > 0 /\ c > 0 /\ n - d > 0 /\ d = 0
  BY <1>2 DEF refundForUndelivered
<1>3. CASE n > 0 /\ c > 0 /\ n - d > 0 /\ d # 0
  <2>1. n - d \in Nat /\ n - d <= n
    BY <1>3
  <2>2. c * (n - d) \in Nat /\ c * (n - d) <= c * n
    BY <2>1, TimesMonotone
  <2>3. (c * (n - d)) \div n \in Nat /\ (c * (n - d)) \div n <= c
    BY <1>3, <2>2, DivBound
  <2>4. refundForUndelivered(c, n, d) = (c * (n - d)) \div n
    BY <1>3 DEF refundForUndelivered
  <2> QED BY <2>3, <2>4
<1> QED BY <1>1, <1>2, <1>3

(* The more areas are delivered, the less refundForUndelivered pays out.   *)
LEMMA RefundAntitone ==
    ASSUME NEW c \in Nat, NEW n \in Nat, NEW d \in Nat, NEW e \in Nat, d <= e
    PROVE  refundForUndelivered(c, n, e) <= refundForUndelivered(c, n, d)
<1>1. CASE n <= 0 \/ c <= 0 \/ n - e <= 0
  <2>1. refundForUndelivered(c, n, e) = 0
    BY <1>1, RefundNothing
  <2> QED BY <2>1, RefundBounds
<1>2. CASE n > 0 /\ c > 0 /\ n - e > 0 /\ d = 0
  <2>1. refundForUndelivered(c, n, d) = c
    BY <1>2 DEF refundForUndelivered
  <2> QED BY <2>1, RefundBounds
<1>3. CASE n > 0 /\ c > 0 /\ n - e > 0 /\ d # 0
  <2>1. n - d \in Nat /\ n - e \in Nat /\ n - e <= n - d
    BY <1>3
  <2>2. c * (n - d) \in Nat /\ c * (n - e) \in Nat /\ c * (n - e) <= c * (n - d)
    BY <2>1, TimesMonotone
  <2>3. (c * (n - e)) \div n <= (c * (n - d)) \div n
    BY <1>3, <2>2, DivMonotone
  <2>4. /\ refundForUndelivered(c, n, d) = (c * (n - d)) \div n
        /\ refundForUndelivered(c, n, e) = (c * (n - e)) \div n
    BY <1>3 DEF refundForUndelivered
  <2> QED BY <2>3, <2>4
<1> QED BY <1>1, <1>2, <1>3

(* What is owed is at most the charge.                                     *)
LEMMA OwedType ==
    ASSUME TypeOK
    PROVE  Owed \in Nat /\ Owed <= Charge
<1>1. Charge \in Nat /\ IsFiniteSet(requested)
  BY ChargeType
<1>2. IsFiniteSet(Scored)
  BY <1>1, FS_Subset DEF Scored
<1>3. Cardinality(requested) \in Nat /\ Cardinality(Scored) \in Nat
  BY <1>1, <1>2, FS_CardinalityType
<1> QED BY <1>1, <1>3, RefundBounds DEF Owed

(* Results that are only ever added lower what is owed.                    *)
LEMMA OwedFalls ==
    ASSUME TypeOK, TypeOK', UNCHANGED <<requested, gated>>,
           \A m \in Area : results[m] # "none" => results'[m] = results[m]
    PROVE  Owed' \in Nat /\ Owed' <= Owed /\ Charge' = Charge
<1>1. Charge \in Nat /\ IsFiniteSet(requested)
  BY ChargeType
<1>2. Charge' = Charge
  BY DEF Charge
<1>3. Scored \subseteq Scored' /\ Scored' \subseteq requested
  BY DEF Scored, TypeOK
<1>4. IsFiniteSet(Scored')
  BY <1>1, <1>3, FS_Subset
<1>5. /\ IsFiniteSet(Scored) /\ Cardinality(Scored) \in Nat /\ Cardinality(Scored') \in Nat
      /\ Cardinality(Scored) <= Cardinality(Scored')
  BY <1>3, <1>4, FS_Subset, FS_CardinalityType
<1>6. Cardinality(requested) \in Nat
  BY <1>1, FS_CardinalityType
<1>7. Owed' = refundForUndelivered(Charge, Cardinality(requested), Cardinality(Scored'))
  BY <1>2 DEF Owed
<1> QED BY <1>1, <1>2, <1>5, <1>6, <1>7, RefundAntitone, RefundBounds DEF Owed

-----------------------------------------------------------------------------
(* What each actor leaves alone.                                           *)

USE DEF scanVars, money, queue, actors, ghosts

(* The request that creates the scan.                                      *)
LEMMA CreateFrame ==
    ASSUME Create
    PROVE  /\ UNCHANGED <<started, overdue, results, deadline, intent, canceller, resumer,
                          sweeper, run, ghosts>>
           /\ UNCHANGED state \/ CreateRow \/ DebitRefused \/ MarkFailed
           /\ UNCHANGED <<requested, gated>> \/ CreateRow
           /\ UNCHANGED money \/ DebitScan \/ EnqueueFailed
           /\ UNCHANGED <<jobs, used>> \/ EnqueueFirst
<1>1. CASE CreateRow     BY <1>1 DEF CreateRow
<1>2. CASE DebitScan     BY <1>2 DEF DebitScan
<1>3. CASE DebitRefused  BY <1>3 DEF DebitRefused
<1>4. CASE EnqueueFirst  BY <1>4 DEF EnqueueFirst
<1>5. CASE EnqueueFailed BY <1>5 DEF EnqueueFailed
<1>6. CASE MarkFailed    BY <1>6 DEF MarkFailed
<1> QED BY <1>1, <1>2, <1>3, <1>4, <1>5, <1>6 DEF Create

(* The cancel route.                                                       *)
LEMMA CancelFrame ==
    ASSUME Cancel
    PROVE  /\ UNCHANGED <<started, overdue, requested, gated, results, queue, intent, creator,
                          resumer, sweeper, ghosts>>
           /\ UNCHANGED state \/ CancelMove
           /\ UNCHANGED money \/ CancelRefund
           /\ UNCHANGED run \/ CancelPublish
<1>1. CASE CancelMove    BY <1>1 DEF CancelMove
<1>2. CASE CancelPublish BY <1>2 DEF CancelPublish
<1>3. CASE CancelRead    BY <1>3 DEF CancelRead
<1>4. CASE CancelRefund  BY <1>4 DEF CancelRefund
<1> QED BY <1>1, <1>2, <1>3, <1>4 DEF Cancel

(* The questionnaire: the user's answer or the deadline's.                 *)
LEMMA QuestionnaireFrame ==
    ASSUME NEW w, Questionnaire(w)
    PROVE  /\ UNCHANGED <<started, overdue, requested, gated, results, money, creator,
                          canceller, sweeper, run, ghosts>>
           /\ UNCHANGED state \/ Resume(w)
           /\ UNCHANGED <<jobs, used>> \/ EnqueueDesign(w)
           /\ deadline' \in {deadline, "fired"}
<1>1. CASE Resume(w)        BY <1>1 DEF Resume
<1>2. CASE WriteIntent(w)   BY <1>2 DEF WriteIntent
<1>3. CASE EnqueueDesign(w) BY <1>3 DEF EnqueueDesign
<1> QED BY <1>1, <1>2, <1>3 DEF Questionnaire

(* The handler of a phase job.                                             *)
LEMMA HandlerFrame ==
    ASSUME NEW p, handlePhase(p)
    PROVE  /\ UNCHANGED <<overdue, requested, gated, intent, actors, ghosts>>
           /\ UNCHANGED state \/ Enter(p) \/ Walk(p) \/ Fail(p)
           /\ UNCHANGED started \/ Enter(p)
           /\ UNCHANGED results \/ FinishModule(p)
           /\ UNCHANGED money \/ ObserverRefund(p)
           /\ UNCHANGED <<jobs, used>> \/ StartJob(p) \/ Walk(p)
           /\ deadline' \in {deadline, "scheduled"}
<1>1. CASE StartJob(p)         BY <1>1 DEF StartJob
<1>2. CASE Enter(p)            BY <1>2 DEF Enter
<1>3. CASE FinishModule(p)     BY <1>3 DEF FinishModule
<1>4. CASE Walk(p)             BY <1>4 DEF Walk
<1>5. CASE ScheduleDeadline(p) BY <1>5 DEF ScheduleDeadline
<1>6. CASE Throw(p)            BY <1>6 DEF Throw
<1>7. CASE Fail(p)             BY <1>7 DEF Fail, EndFrom
<1>8. CASE Observe(p)          BY <1>8 DEF Observe
<1>9. CASE ObserverRefund(p)   BY <1>9 DEF ObserverRefund
<1> QED BY <1>1, <1>2, <1>3, <1>4, <1>5, <1>6, <1>7, <1>8, <1>9 DEF handlePhase

(* The two steps that only one phase's handler takes.                      *)
LEMMA LastPhasesFrame ==
    /\ Synthesize => UNCHANGED <<scanVars, results, money, deadline, intent, actors, ghosts>>
    /\ Complete => UNCHANGED <<started, overdue, requested, gated, results, money, queue,
                               intent, actors, ghosts>>
BY DEF Synthesize, Complete, EndFrom

(* The timeout sweep, and the time that passes for it.                     *)
LEMMA SweepFrame ==
    /\ Elapse => UNCHANGED <<state, started, requested, gated, results, money, queue, intent,
                             actors, run, ghosts>>
    /\ Sweep => /\ UNCHANGED <<started, overdue, requested, gated, results, queue, intent,
                               creator, canceller, resumer, run, ghosts>>
                /\ UNCHANGED state \/ SweepMove
                /\ UNCHANGED money \/ SweepRefund
<1>1. CASE Elapse      BY <1>1 DEF Elapse, Sweep, SweepSelect, SweepRead, SweepMove, SweepRefund
<1>2. CASE SweepSelect BY <1>2 DEF SweepSelect, Elapse
<1>3. CASE SweepRead   BY <1>3 DEF SweepRead, Elapse
<1>4. CASE SweepMove   BY <1>4 DEF SweepMove, Elapse
<1>5. CASE SweepRefund BY <1>5 DEF SweepRefund, Elapse
<1> QED BY <1>1, <1>2, <1>3, <1>4, <1>5 DEF Sweep

(* A crash takes a process away and nothing that is stored.                *)
LEMMA CrashFrame ==
    ASSUME Crash
    PROVE  /\ UNCHANGED <<scanVars, results, money, queue, intent>>
           /\ UNCHANGED creator \/ CrashCreate
           /\ UNCHANGED canceller \/ CrashCancel
           /\ UNCHANGED sweeper \/ CrashSweep
           /\ UNCHANGED resumer \/ \E w \in Who : CrashResume(w)
           /\ UNCHANGED run \/ \E p \in Phase : CrashRun(p)
<1>1. CASE CrashCreate BY <1>1 DEF CrashCreate
<1>2. CASE CrashCancel BY <1>2 DEF CrashCancel
<1>3. CASE CrashSweep  BY <1>3 DEF CrashSweep
<1>4. CASE \E w \in Who : CrashResume(w)
  BY <1>4 DEF CrashResume
<1>5. CASE \E p \in Phase : CrashRun(p)
  BY <1>5 DEF CrashRun
<1> QED BY <1>1, <1>2, <1>3, <1>4, <1>5 DEF Crash, Who

-----------------------------------------------------------------------------
(* Who writes what.                                                        *)

(* Who writes Scan.state.                                                  *)
LEMMA StateWriters ==
    ASSUME [Next]_vars
    PROVE  \/ UNCHANGED state
           \/ CreateRow \/ DebitRefused \/ MarkFailed \/ CancelMove \/ Complete \/ SweepMove
           \/ \E w \in Who : Resume(w)
           \/ \E p \in Phase : Enter(p) \/ Walk(p) \/ Fail(p)
BY CreateFrame, CancelFrame, QuestionnaireFrame, HandlerFrame, LastPhasesFrame,
   SweepFrame, CrashFrame DEF Next, vars, Who

(* Who writes the selection: the insert of the row.                        *)
LEMMA RequestWriters ==
    ASSUME [Next]_vars
    PROVE  \/ UNCHANGED <<requested, gated>>
           \/ CreateRow
BY CreateFrame, CancelFrame, QuestionnaireFrame, HandlerFrame, LastPhasesFrame,
   SweepFrame, CrashFrame DEF Next, vars, Who

(* Who writes an area's result: the handler that runs the area.            *)
LEMMA ResultWriters ==
    ASSUME [Next]_vars
    PROVE  \/ UNCHANGED results
           \/ \E p \in Phase : FinishModule(p)
BY CreateFrame, CancelFrame, QuestionnaireFrame, HandlerFrame, LastPhasesFrame,
   SweepFrame, CrashFrame DEF Next, vars, Who

(* Who writes the debit and the refund.                                    *)
LEMMA MoneyWriters ==
    ASSUME [Next]_vars
    PROVE  \/ UNCHANGED money
           \/ DebitScan \/ EnqueueFailed \/ CancelRefund \/ SweepRefund
           \/ \E p \in Phase : ObserverRefund(p)
BY CreateFrame, CancelFrame, QuestionnaireFrame, HandlerFrame, LastPhasesFrame,
   SweepFrame, CrashFrame DEF Next, vars, Who

(* Who adds or takes a phase job.                                          *)
LEMMA JobWriters ==
    ASSUME [Next]_vars
    PROVE  \/ UNCHANGED <<jobs, used>>
           \/ EnqueueFirst \/ Synthesize
           \/ \E w \in Who : EnqueueDesign(w)
           \/ \E p \in Phase : StartJob(p) \/ Walk(p)
BY CreateFrame, CancelFrame, QuestionnaireFrame, HandlerFrame, LastPhasesFrame,
   SweepFrame, CrashFrame DEF Next, vars, Who

(* Who takes part in the questionnaire race.                               *)
LEMMA RaceWriters ==
    ASSUME [Next]_vars
    PROVE  \/ UNCHANGED <<resumer, intent>>
           \/ \E w \in Who : Resume(w) \/ WriteIntent(w) \/ EnqueueDesign(w) \/ CrashResume(w)
BY CreateFrame, CancelFrame, QuestionnaireFrame, HandlerFrame, LastPhasesFrame,
   SweepFrame, CrashFrame DEF Next, vars, Who, Questionnaire

(* Who changes the record of a handler: the handler, its crash, and a      *)
(* cancellation it hears of.                                               *)
LEMMA RunWriters ==
    ASSUME [Next]_vars
    PROVE  \/ UNCHANGED run
           \/ CancelPublish \/ Synthesize \/ Complete
           \/ \E p \in Phase : handlePhase(p) \/ CrashRun(p)
BY CreateFrame, CancelFrame, QuestionnaireFrame, HandlerFrame, LastPhasesFrame,
   SweepFrame, CrashFrame DEF Next, vars, Who

(* Who changes the record of the request that creates the scan.            *)
LEMMA CreatorWriters ==
    ASSUME [Next]_vars
    PROVE  \/ UNCHANGED creator
           \/ Create \/ CrashCreate
BY CreateFrame, CancelFrame, QuestionnaireFrame, HandlerFrame, LastPhasesFrame,
   SweepFrame, CrashFrame DEF Next, vars, Who

(* Who changes the record of the cancel route.                             *)
LEMMA CancellerWriters ==
    ASSUME [Next]_vars
    PROVE  \/ UNCHANGED canceller
           \/ Cancel \/ CrashCancel
BY CreateFrame, CancelFrame, QuestionnaireFrame, HandlerFrame, LastPhasesFrame,
   SweepFrame, CrashFrame DEF Next, vars, Who

(* Who changes the record of the sweep.                                    *)
LEMMA SweeperWriters ==
    ASSUME [Next]_vars
    PROVE  \/ UNCHANGED sweeper
           \/ Sweep \/ CrashSweep
BY CreateFrame, CancelFrame, QuestionnaireFrame, HandlerFrame, LastPhasesFrame,
   SweepFrame, CrashFrame DEF Next, vars, Who

(* Who sets startedAt, and who lets the deadline pass.                     *)
LEMMA ClockWriters ==
    ASSUME [Next]_vars
    PROVE  \/ UNCHANGED <<started, overdue>>
           \/ Elapse \/ \E p \in Phase : Enter(p)
BY CreateFrame, CancelFrame, QuestionnaireFrame, HandlerFrame, LastPhasesFrame,
   SweepFrame, CrashFrame DEF Next, vars, Who

(* The values the questionnaire's deadline may get.                        *)
LEMMA DeadlineWriters ==
    ASSUME [Next]_vars
    PROVE  deadline' \in {deadline, "scheduled", "fired"}
BY CreateFrame, CancelFrame, QuestionnaireFrame, HandlerFrame, LastPhasesFrame,
   SweepFrame, CrashFrame DEF Next, vars, Who

(* Who counts the faults: the crashes.                                     *)
LEMMA FaultWriters ==
    ASSUME [Next]_vars
    PROVE  \/ UNCHANGED ghosts
           \/ Crash
BY CreateFrame, CancelFrame, QuestionnaireFrame, HandlerFrame, LastPhasesFrame,
   SweepFrame, CrashFrame DEF Next, vars, Who

HIDE DEF scanVars, money, queue, actors, ghosts

-----------------------------------------------------------------------------
(* The invocations.                                                        *)

Steps == {"none", "entry", "work", "pause", "fail", "observe", "refund", "done"}

RunRecord ==
    [step : Steps, read : ScanState \cup {NoScan}, already : BOOLEAN,
     current : Phase \cup {NoScan}, todo : SUBSET Area, cancelled : BOOLEAN, amount : Nat]

(* The invocation of phase p is the one that moves, to this record.        *)
RunTo(p, s, read, already, current, todo, amount) ==
    /\ run' \in [Phase -> RunRecord]
    /\ run'[p].step = s /\ run'[p].read = read /\ run'[p].already = already
    /\ run'[p].current = current /\ run'[p].todo = todo /\ run'[p].amount = amount
    /\ \A q \in Phase \ {p} : run'[q] = run[q]

Same(p, s) == RunTo(p, s, run[p].read, run[p].already, run[p].current, run[p].todo, run[p].amount)
Returned(p) == RunTo(p, "done", NoScan, FALSE, NoScan, run[p].todo, 0)

(* The parts of a handler's record have their types.                       *)
LEMMA RunType ==
    ASSUME TypeOK, NEW p \in Phase
    PROVE  /\ run \in [Phase -> RunRecord] /\ run[p] \in RunRecord
           /\ run[p].step \in Steps /\ run[p].read \in ScanState \cup {NoScan}
           /\ run[p].already \in BOOLEAN /\ run[p].current \in Phase \cup {NoScan}
           /\ run[p].todo \subseteq Area /\ run[p].cancelled \in BOOLEAN /\ run[p].amount \in Nat
           /\ NoRun \in RunRecord
<1>1. run \in [Phase -> RunRecord]
  BY DEF TypeOK, RunRecord, Steps
<1>2. run[p] \in RunRecord
  BY <1>1
<1>3. NoRun \in RunRecord
  BY DEF NoRun, RunRecord, Steps
<1> QED BY <1>1, <1>2, <1>3 DEF RunRecord

(* How the operators that move a handler change its record.                *)
LEMMA RunMoves ==
    ASSUME TypeOK, NEW p \in Phase
    PROVE  /\ Leave(p) => Returned(p)
           /\ \A s \in Steps : Goto(p, s) => Same(p, s)
<1> USE RunType
<1>1. ASSUME Leave(p) PROVE Returned(p)
  <2>1. Left(run[p]) \in RunRecord
    BY DEF Left, NoRun, RunRecord, Steps
  <2>2. run'[p] = Left(run[p]) /\ run' \in [Phase -> RunRecord]
        /\ \A q \in Phase \ {p} : run'[q] = run[q]
    BY <1>1, <2>1 DEF Leave
  <2>3. /\ Left(run[p]).step = "done" /\ Left(run[p]).read = NoScan /\ Left(run[p]).already = FALSE
        /\ Left(run[p]).current = NoScan /\ Left(run[p]).todo = run[p].todo
        /\ Left(run[p]).amount = 0
    BY DEF Left, NoRun
  <2> QED BY <2>2, <2>3 DEF Returned, RunTo
<1>2. ASSUME NEW s \in Steps, Goto(p, s) PROVE Same(p, s)
  <2>1. [run[p] EXCEPT !.step = s] \in RunRecord
    BY DEF RunRecord
  <2> QED BY <1>2, <2>1 DEF Goto, Same, RunTo, RunRecord
<1> QED BY <1>1, <1>2

(* A handler starts by taking its job and reading the row; a scan that is  *)
(* gone, or a phase without areas, ends it at once.                        *)
LEMMA StartRun ==
    ASSUME TypeOK, NEW p \in Phase, StartJob(p)
    PROVE  \E job \in jobs :
             /\ job.phase = p /\ jobs' = jobs \ {job}
             /\ \/ RunTo(p, "done", NoScan, FALSE, NoScan, {}, 0)
                \/ /\ state # NoScan
                   /\ p \in MODULE_RUNNING_PHASES => modulesForPhase(p, requested) # {}
                   /\ RunTo(p, "entry", state, job.already, NoScan, {}, 0)
<1>1. PICK job \in jobs :
         /\ job.phase = p
         /\ jobs' = jobs \ {job}
         /\ run' = [run EXCEPT ![p] =
               IF \/ state = NoScan
                  \/ /\ p \in MODULE_RUNNING_PHASES
                     /\ modulesForPhase(p, requested) = {}
               THEN [NoRun EXCEPT !.step = "done"]
               ELSE [NoRun EXCEPT !.step = "entry", !.read = state, !.already = job.already]]
  BY DEF StartJob
<1>2. job.already \in BOOLEAN /\ state \in ScanState \cup {NoScan}
  BY DEF TypeOK
<1>3. CASE state = NoScan \/ (p \in MODULE_RUNNING_PHASES /\ modulesForPhase(p, requested) = {})
  <2>1. [NoRun EXCEPT !.step = "done"] \in RunRecord
    BY DEF NoRun, RunRecord, Steps
  <2>2. RunTo(p, "done", NoScan, FALSE, NoScan, {}, 0)
    BY <1>1, <1>3, <2>1, RunType DEF RunTo, NoRun
  <2> QED BY <1>1, <2>2
<1>4. CASE ~(state = NoScan \/ (p \in MODULE_RUNNING_PHASES /\ modulesForPhase(p, requested) = {}))
  <2> DEFINE r == [NoRun EXCEPT !.step = "entry", !.read = state, !.already = job.already]
  <2>1. r \in RunRecord
    BY <1>2 DEF NoRun, RunRecord, Steps
  <2>2. /\ r.step = "entry" /\ r.read = state /\ r.already = job.already /\ r.current = NoScan
        /\ r.todo = {} /\ r.amount = 0
    BY DEF NoRun
  <2>3. run' = [run EXCEPT ![p] = r]
    BY <1>1, <1>4
  <2> HIDE DEF r
  <2>4. RunTo(p, "entry", state, job.already, NoScan, {}, 0)
    BY <2>1, <2>2, <2>3, RunType DEF RunTo
  <2> QED BY <1>1, <1>4, <2>4
<1> QED BY <1>3, <1>4

(* A handler enters its phase by its own move, or because the resumer has  *)
(* made the move for it; otherwise it returns.                             *)
LEMMA EnterRun ==
    ASSUME TypeOK, NEW p \in Phase, Enter(p)
    PROVE  /\ run[p].step = "entry"
           /\ \/ /\ ~ run[p].already /\ CanMove(run[p].read, p) /\ state' = p
                 /\ RunTo(p, "work", run[p].read, run[p].already, p,
                          modulesForPhase(p, requested), run[p].amount)
              \/ /\ run[p].already /\ run[p].read = p /\ state' = state
                 /\ RunTo(p, "work", run[p].read, run[p].already, p,
                          modulesForPhase(p, requested), run[p].amount)
              \/ state' = state /\ Returned(p)
<1> DEFINE r     == run[p]
           moves == ~ r.already /\ CanMove(r.read, p)
           w     == [r EXCEPT !.step = "work", !.current = p, !.todo = modulesForPhase(p, requested)]
<1>1. /\ r.step = "entry" /\ state' = IF moves THEN p ELSE state
      /\ run' = [run EXCEPT ![p] = IF moves \/ (r.already /\ r.read = p) THEN w ELSE Left(r)]
  BY DEF Enter
<1>2. modulesForPhase(p, requested) \subseteq Area
  BY PhaseSet DEF modulesForPhase, TypeOK, P1, P2, P3, PM, PD
<1>3. CASE moves \/ (r.already /\ r.read = p)
  <2>1. w \in RunRecord
    BY <1>2, RunType DEF RunRecord, Steps
  <2>2. /\ w.step = "work" /\ w.read = r.read /\ w.already = r.already /\ w.current = p
        /\ w.todo = modulesForPhase(p, requested) /\ w.amount = r.amount
    BY RunType DEF RunRecord
  <2>3. run' = [run EXCEPT ![p] = w]
    BY <1>1, <1>3
  <2> HIDE DEF w
  <2>4. RunTo(p, "work", run[p].read, run[p].already, p, modulesForPhase(p, requested), run[p].amount)
    BY <2>1, <2>2, <2>3, RunType DEF RunTo
  <2> QED BY <1>1, <1>3, <2>4
<1>4. CASE ~(moves \/ (r.already /\ r.read = p))
  <2>1. Leave(p)
    BY <1>1, <1>4 DEF Leave
  <2> QED BY <1>1, <1>4, <2>1, RunMoves
<1> QED BY <1>3, <1>4

(* An area that finishes leaves the handler's list, with or without a      *)
(* result.                                                                 *)
LEMMA FinishRun ==
    ASSUME TypeOK, NEW p \in Phase, FinishModule(p)
    PROVE  \E m \in run[p].todo :
             /\ RunTo(p, run[p].step, run[p].read, run[p].already, run[p].current,
                      run[p].todo \ {m}, run[p].amount)
             /\ \/ results' = results
                \/ \E r \in {"scored", "unscored"} : results' = [results EXCEPT ![m] = r]
<1>1. PICK m \in run[p].todo :
         /\ run' = [run EXCEPT ![p].todo = @ \ {m}]
         /\ \/ results' = results
            \/ \E r \in {"scored", "unscored"} : results' = [results EXCEPT ![m] = r]
  BY DEF FinishModule
<1>2. [run[p] EXCEPT !.todo = @ \ {m}] \in RunRecord
  BY RunType DEF RunRecord
<1>3. RunTo(p, run[p].step, run[p].read, run[p].already, run[p].current,
            run[p].todo \ {m}, run[p].amount)
  BY <1>1, <1>2, RunType DEF RunTo, RunRecord
<1> QED BY <1>1, <1>3

(* A handler with no area left skips an empty phase, pauses for the        *)
(* questionnaire, queues the synthesis, or returns.                        *)
LEMMA WalkRun ==
    ASSUME TypeOK, NEW p \in Phase, Walk(p)
    PROVE  /\ run[p].step = "work" /\ run[p].todo = {} /\ p \in MODULE_RUNNING_PHASES
           /\ \/ /\ nextPhase(run[p].current) \in MODULE_RUNNING_PHASES
                 /\ modulesForPhase(nextPhase(run[p].current), requested) = {}
                 /\ CanMove(run[p].current, nextPhase(run[p].current))
                 /\ state' = nextPhase(run[p].current)
                 /\ RunTo(p, "work", run[p].read, run[p].already, nextPhase(run[p].current),
                          run[p].todo, run[p].amount)
                 /\ UNCHANGED <<jobs, used>>
              \/ /\ nextPhase(run[p].current) \in MODULE_RUNNING_PHASES
                 /\ modulesForPhase(nextPhase(run[p].current), requested) # {}
                 /\ CanMove(P1, "AWAITING_QUESTIONNAIRE") /\ state' = "AWAITING_QUESTIONNAIRE"
                 /\ Same(p, "pause") /\ UNCHANGED <<jobs, used>>
              \/ state' = state /\ Returned(p) /\ UNCHANGED <<jobs, used>>
              \/ state' = state /\ Returned(p) /\ Enqueue(PM, FALSE)
<1> DEFINE next == nextPhase(run[p].current)
<1>1. /\ run[p].step = "work" /\ run[p].todo = {} /\ p \in MODULE_RUNNING_PHASES
      /\ \/ /\ next \in MODULE_RUNNING_PHASES
            /\ modulesForPhase(next, requested) = {}
            /\ IF CanMove(run[p].current, next)
               THEN state' = next /\ run' = [run EXCEPT ![p].current = next]
               ELSE Leave(p) /\ UNCHANGED state
            /\ UNCHANGED <<jobs, used>>
         \/ /\ next \in MODULE_RUNNING_PHASES
            /\ modulesForPhase(next, requested) # {}
            /\ IF CanMove(P1, "AWAITING_QUESTIONNAIRE")
               THEN state' = "AWAITING_QUESTIONNAIRE" /\ Goto(p, "pause")
               ELSE Leave(p) /\ UNCHANGED state
            /\ UNCHANGED <<jobs, used>>
         \/ /\ next = PM
            /\ Enqueue(next, FALSE)
            /\ Leave(p)
            /\ UNCHANGED state
  BY DEF Walk, P1, PM
<1>2. ASSUME next \in MODULE_RUNNING_PHASES, run' = [run EXCEPT ![p].current = next]
      PROVE  RunTo(p, "work", run[p].read, run[p].already, next, run[p].todo, run[p].amount)
  <2>1. next \in Phase
    BY <1>2, PhaseSet DEF MODULE_RUNNING_PHASES, P1, P2, P3
  <2> HIDE DEF next
  <2>2. [run[p] EXCEPT !.current = next] \in RunRecord
    BY <2>1, RunType DEF RunRecord
  <2> QED BY <1>1, <1>2, <2>2, RunType DEF RunTo, RunRecord
<1>3. /\ Leave(p) => Returned(p)
      /\ Goto(p, "pause") => Same(p, "pause")
  BY RunMoves DEF Steps
<1> HIDE DEF next
<1>4. \/ /\ next \in MODULE_RUNNING_PHASES
         /\ modulesForPhase(next, requested) = {}
         /\ CanMove(run[p].current, next)
         /\ state' = next
         /\ RunTo(p, "work", run[p].read, run[p].already, next, run[p].todo, run[p].amount)
         /\ UNCHANGED <<jobs, used>>
      \/ /\ next \in MODULE_RUNNING_PHASES
         /\ modulesForPhase(next, requested) # {}
         /\ CanMove(P1, "AWAITING_QUESTIONNAIRE") /\ state' = "AWAITING_QUESTIONNAIRE"
         /\ Same(p, "pause") /\ UNCHANGED <<jobs, used>>
      \/ state' = state /\ Returned(p) /\ UNCHANGED <<jobs, used>>
      \/ state' = state /\ Returned(p) /\ Enqueue(PM, FALSE)
  BY <1>1, <1>2, <1>3
<1> QED BY <1>1, <1>4 DEF next

(* A handler that throws goes on to fail the scan; some of its areas run   *)
(* on.                                                                     *)
LEMMA ThrowRun ==
    ASSUME TypeOK, NEW p \in Phase, Throw(p)
    PROVE  /\ run[p].step # "done"
           /\ \E rest \in SUBSET run[p].todo :
                RunTo(p, "fail", run[p].read, run[p].already, run[p].current, rest, run[p].amount)
<1>1. PICK rest \in SUBSET run[p].todo :
        run' = [run EXCEPT ![p].step = "fail", ![p].todo = rest]
  BY DEF Throw
<1>2. [run[p] EXCEPT !.step = "fail", !.todo = rest] \in RunRecord
  BY RunType DEF RunRecord, Steps
<1>3. RunTo(p, "fail", run[p].read, run[p].already, run[p].current, rest, run[p].amount)
  BY <1>1, <1>2, RunType DEF RunTo, RunRecord
<1> QED BY <1>1, <1>3 DEF Throw

(* The guarded moves to an end, and what their winner does.                *)
LEMMA EndRun ==
    ASSUME TypeOK, NEW p \in Phase, NEW from, NEW to, EndFrom(p, from, to)
    PROVE  \/ CanMove(from, to) /\ state' = to /\ Same(p, "observe")
           \/ state' = state /\ Returned(p)
BY RunMoves DEF EndFrom, Steps

(* The terminal observer goes on to the refund exactly if something is     *)
(* owed.                                                                   *)
LEMMA ObserveRun ==
    ASSUME TypeOK, NEW p \in Phase, Observe(p)
    PROVE  /\ run[p].step = "observe"
           /\ \/ /\ Owed > 0
                 /\ RunTo(p, "refund", run[p].read, run[p].already, run[p].current,
                          run[p].todo, Owed)
              \/ ~(Owed > 0) /\ Returned(p)
<1>1. ASSUME run' = [run EXCEPT ![p].step = "refund", ![p].amount = Owed]
      PROVE  RunTo(p, "refund", run[p].read, run[p].already, run[p].current, run[p].todo, Owed)
  <2>1. [run[p] EXCEPT !.step = "refund", !.amount = Owed] \in RunRecord
    BY RunType, OwedType DEF RunRecord, Steps
  <2> QED BY <1>1, <2>1, RunType DEF RunTo, RunRecord
<1> QED BY <1>1, RunMoves DEF Observe

(* A handler that dies leaves nothing running, and owes what it owed.      *)
LEMMA CrashedRun ==
    ASSUME TypeOK, NEW p \in Phase, CrashRun(p)
    PROVE  /\ run[p].step \notin {"none", "done"}
           /\ RunTo(p, "done", NoScan, FALSE, NoScan, {}, 0)
           /\ run[p].step \in {"observe", "refund"} => abandoned'
<1>1. [NoRun EXCEPT !.step = "done"] \in RunRecord
  BY DEF NoRun, RunRecord, Steps
<1>2. RunTo(p, "done", NoScan, FALSE, NoScan, {}, 0)
  BY <1>1, RunType DEF CrashRun, RunTo, NoRun
<1> QED BY <1>2 DEF CrashRun, Running, Fault

(* A cancellation is heard; nothing else of an invocation changes.         *)
LEMMA PublishRun ==
    ASSUME TypeOK, CancelPublish
    PROVE  /\ run' \in [Phase -> RunRecord]
           /\ \A p \in Phase :
                /\ run'[p].step = run[p].step /\ run'[p].read = run[p].read
                /\ run'[p].already = run[p].already /\ run'[p].current = run[p].current
                /\ run'[p].todo = run[p].todo /\ run'[p].amount = run[p].amount
                /\ run[p] = NoRun => run'[p] = NoRun
<1>1. PICK heard \in SUBSET {p \in Phase : Running(p)} :
        run' = [p \in Phase |->
                  IF p \in heard THEN [run[p] EXCEPT !.cancelled = TRUE] ELSE run[p]]
  BY DEF CancelPublish
<1>2. ASSUME NEW p \in Phase
      PROVE  /\ run'[p] \in RunRecord
             /\ run'[p].step = run[p].step /\ run'[p].read = run[p].read
             /\ run'[p].already = run[p].already /\ run'[p].current = run[p].current
             /\ run'[p].todo = run[p].todo /\ run'[p].amount = run[p].amount
             /\ run[p] = NoRun => run'[p] = NoRun
  <2>1. CASE p \in heard
    <3>1. run'[p] = [run[p] EXCEPT !.cancelled = TRUE]
      BY <1>1, <2>1
    <3>2. run[p] # NoRun
      BY <2>1 DEF Running, NoRun
    <3> QED BY <3>1, <3>2, RunType DEF RunRecord
  <2>2. CASE p \notin heard
    BY <1>1, <2>2, RunType
  <2> QED BY <2>1, <2>2
<1>3. run' \in [Phase -> RunRecord]
  BY <1>1, <1>2
<1> QED BY <1>2, <1>3

-----------------------------------------------------------------------------
(* The row moves as ScanMachine says.                                      *)
LEMMA StateMoves ==
    ASSUME TypeOK, Fresh, Creation, [Next]_vars
    PROVE  \/ state' = state
           \/ CreateRow /\ state = NoScan /\ state' = "QUEUED"
           \/ DebitRefused /\ state \in {"QUEUED", "CANCELLED"} /\ state' = NoScan
           \/ canTransition(state, state')
<1>1. ASSUME NEW p \in Phase, Enter(p) PROVE state' = state \/ canTransition(state, state')
  BY <1>1, EnterRun DEF CanMove
<1>2. ASSUME NEW p \in Phase, Walk(p) PROVE state' = state \/ canTransition(state, state')
  BY <1>2, WalkRun DEF CanMove
<1>3. ASSUME NEW p \in Phase, Fail(p) PROVE state' = state \/ canTransition(state, state')
  BY <1>3, EndRun DEF CanMove, Fail
<1>4. CASE Complete
  BY <1>4, EndRun, PhaseSet DEF CanMove, Complete, PD
<1>5. CASE CreateRow
  BY <1>5 DEF CreateRow, Fresh
<1>6. CASE DebitRefused
  BY <1>6 DEF DebitRefused, Creation
<1>7. CASE MarkFailed
  BY <1>7, Moves DEF MarkFailed, Ended
<1>8. CASE CancelMove
  BY <1>8, Moves DEF CancelMove, Ended, Terminal
<1>9. CASE SweepMove
  BY <1>9 DEF SweepMove, CanMove
<1>10. ASSUME NEW w \in Who, Resume(w) PROVE state' = state \/ canTransition(state, state')
  BY <1>10 DEF Resume, CanMove
<1> QED BY <1>1, <1>2, <1>3, <1>4, <1>5, <1>6, <1>7, <1>8, <1>9, <1>10, StateWriters

(* The end of an audit is final, but for a row that is removed.            *)
LEMMA EndIsFinal ==
    ASSUME TypeOK, Fresh, Creation, [Next]_vars, state \in Terminal
    PROVE  state' = state \/ (DebitRefused /\ state = "CANCELLED" /\ state' = NoScan)
BY StateMoves, Moves DEF Terminal, Ended, P1, P2, P3, PM, PD

(* No step spoils the handlers' records.                                   *)
LEMMA RunTypes ==
    ASSUME TypeOK, [Next]_vars
    PROVE  run' \in [Phase -> RunRecord]
<1>1. ASSUME NEW p \in Phase, handlePhase(p) PROVE run' \in [Phase -> RunRecord]
  <2>1. CASE StartJob(p)
    BY <2>1, StartRun DEF RunTo
  <2>2. CASE Enter(p)
    BY <2>2, EnterRun DEF RunTo, Returned
  <2>3. CASE FinishModule(p)
    BY <2>3, FinishRun DEF RunTo
  <2>4. CASE Walk(p)
    BY <2>4, WalkRun DEF RunTo, Returned, Same
  <2>5. CASE ScheduleDeadline(p) \/ ObserverRefund(p)
    BY <2>5, RunMoves DEF ScheduleDeadline, ObserverRefund, RunTo, Returned
  <2>6. CASE Throw(p)
    BY <2>6, ThrowRun DEF RunTo
  <2>7. CASE Fail(p)
    BY <2>7, EndRun DEF Fail, RunTo, Returned, Same
  <2>8. CASE Observe(p)
    BY <2>8, ObserveRun DEF RunTo, Returned
  <2> QED BY <1>1, <2>1, <2>2, <2>3, <2>4, <2>5, <2>6, <2>7, <2>8 DEF handlePhase
<1>2. ASSUME NEW p \in Phase, CrashRun(p) PROVE run' \in [Phase -> RunRecord]
  BY <1>2, CrashedRun DEF RunTo
<1>3. CASE CancelPublish
  BY <1>3, PublishRun
<1>4. CASE Synthesize
  BY <1>4, RunMoves, PhaseSet DEF Synthesize, RunTo, Returned, PM
<1>5. CASE Complete
  BY <1>5, EndRun, PhaseSet DEF Complete, RunTo, Returned, Same, PD
<1>6. CASE UNCHANGED run
  BY <1>6, RunType DEF TypeOK, RunRecord, Steps
<1> QED BY <1>1, <1>2, <1>3, <1>4, <1>5, <1>6, RunWriters

(* No refund exceeds the charge, and none comes without one.               *)
LEMMA MoneyTypes ==
    ASSUME TypeOK, Fresh, Creation, Amounts, [Next]_vars
    PROVE  debited' \in Nat /\ refunded' \in 0..debited'
<1>0. debited \in Nat /\ refunded \in 0..debited /\ Charge \in Nat
  BY ChargeType DEF TypeOK
<1>1. ASSUME NEW a \in Nat, a <= Charge, Refund(a) PROVE debited' \in Nat /\ refunded' \in 0..debited'
  BY <1>0, <1>1 DEF Refund, Amounts
<1>2. CASE DebitScan
  BY <1>0, <1>2 DEF DebitScan, Creation
<1>3. CASE EnqueueFailed
  BY <1>0, <1>1, <1>3 DEF EnqueueFailed, Amounts
<1>4. CASE CancelRefund
  <2>1. canceller.amount \in Nat /\ canceller.amount <= Charge
    BY DEF TypeOK, Amounts
  <2> QED BY <1>0, <1>1, <1>4, <2>1 DEF CancelRefund, money
<1>5. CASE SweepRefund
  <2>1. sweeper.amount \in Nat /\ sweeper.amount <= Charge
    BY DEF TypeOK, Amounts
  <2> QED BY <1>1, <1>5, <2>1 DEF SweepRefund
<1>6. ASSUME NEW p \in Phase, ObserverRefund(p) PROVE debited' \in Nat /\ refunded' \in 0..debited'
  BY <1>1, <1>6, RunType DEF ObserverRefund, Amounts
<1>7. CASE UNCHANGED money
  BY <1>0, <1>7 DEF money
<1> QED BY <1>2, <1>3, <1>4, <1>5, <1>6, <1>7, MoneyWriters

(* The job a handler adds, if its phase has none yet.                      *)
LEMMA Added ==
    ASSUME TypeOK, NEW p \in Phase, NEW b \in BOOLEAN, Enqueue(p, b)
    PROVE  /\ jobs' \subseteq [phase : Phase, already : BOOLEAN] /\ used' = used \cup {p}
           /\ \A j \in jobs' : j \in jobs \/ (p \notin used /\ j.phase = p /\ j.already = b)
BY DEF Enqueue, TypeOK

(* No step spoils the queue.                                               *)
LEMMA JobTypes ==
    ASSUME TypeOK, [Next]_vars
    PROVE  jobs' \subseteq [phase : Phase, already : BOOLEAN] /\ used' \subseteq Phase
<1>0. /\ jobs \subseteq [phase : Phase, already : BOOLEAN] /\ used \subseteq Phase
      /\ {P1, P2, PM, PD} \subseteq Phase
  BY PhaseSet DEF TypeOK
<1>1. \A p \in Phase : \A b \in BOOLEAN : Enqueue(p, b) =>
        jobs' \subseteq [phase : Phase, already : BOOLEAN] /\ used' \subseteq Phase
  BY <1>0, Added
<1>2. CASE EnqueueFirst
  BY <1>0, <1>1, <1>2 DEF EnqueueFirst, P1
<1>3. CASE Synthesize
  BY <1>0, <1>1, <1>3 DEF Synthesize, PD
<1>4. ASSUME NEW w \in Who, EnqueueDesign(w)
      PROVE  jobs' \subseteq [phase : Phase, already : BOOLEAN] /\ used' \subseteq Phase
  BY <1>0, <1>1, <1>4 DEF EnqueueDesign, P2
<1>5. ASSUME NEW p \in Phase, StartJob(p)
      PROVE  jobs' \subseteq [phase : Phase, already : BOOLEAN] /\ used' \subseteq Phase
  BY <1>0, <1>5 DEF StartJob
<1>6. ASSUME NEW p \in Phase, Walk(p)
      PROVE  jobs' \subseteq [phase : Phase, already : BOOLEAN] /\ used' \subseteq Phase
  BY <1>0, <1>1, <1>6, WalkRun
<1> QED BY <1>0, <1>2, <1>3, <1>4, <1>5, <1>6, JobWriters

(* No step spoils the records of the other processes.                      *)
LEMMA ActorTypes ==
    ASSUME TypeOK, [Next]_vars
    PROVE  /\ creator' \in {"start", "row", "debited", "failing", "done"}
           /\ canceller' \in [step : {"idle", "moved", "published", "read", "done"},
                              amount : Nat, debitTx : BOOLEAN]
           /\ resumer' \in [Who -> {"idle", "won", "wrote", "done"}]
           /\ intent' \in {"none", "SUPPLIED", "SKIPPED", "DEFAULTED"}
           /\ sweeper' \in [step : {"idle", "picked", "read", "refund"},
                            observed : ScanState \cup {NoScan}, amount : Nat]
<1>1. creator' \in {"start", "row", "debited", "failing", "done"}
  BY CreatorWriters DEF TypeOK, Create, CreateRow, DebitScan, DebitRefused, EnqueueFirst,
     EnqueueFailed, MarkFailed, CrashCreate
<1>2. canceller' \in [step : {"idle", "moved", "published", "read", "done"},
                      amount : Nat, debitTx : BOOLEAN]
  <2>1. /\ canceller \in [step : {"idle", "moved", "published", "read", "done"},
                          amount : Nat, debitTx : BOOLEAN]
        /\ Owed \in Nat /\ (debited > 0) \in BOOLEAN
    BY OwedType DEF TypeOK
  <2>2. CASE Cancel
    <3>1. CASE CancelMove \/ CancelPublish \/ CancelRead
      BY <2>1, <3>1 DEF CancelMove, CancelPublish, CancelRead
    <3>2. CASE CancelRefund
      <4>1. PICK b \in BOOLEAN : b = (debited > 0)
        BY <2>1
      <4>2. canceller' = [step |-> "done", amount |-> 0, debitTx |-> b]
        BY <3>2, <4>1, Zenon DEF CancelRefund
      <4> QED BY <4>2
    <3> QED BY <2>2, <3>1, <3>2 DEF Cancel
  <2>3. CASE CrashCancel
    BY <2>1, <2>3 DEF CrashCancel
  <2> QED BY <2>1, <2>2, <2>3, CancellerWriters
<1>3. resumer' \in [Who -> {"idle", "won", "wrote", "done"}]
  <2>1. resumer \in [Who -> {"idle", "won", "wrote", "done"}]
    BY DEF TypeOK, Who
  <2>2. ASSUME NEW w \in Who, Resume(w) \/ WriteIntent(w) \/ EnqueueDesign(w) \/ CrashResume(w)
        PROVE  resumer' \in [Who -> {"idle", "won", "wrote", "done"}]
    BY <2>1, <2>2 DEF Resume, WriteIntent, EnqueueDesign, CrashResume
  <2> QED BY <2>1, <2>2, RaceWriters
<1>4. intent' \in {"none", "SUPPLIED", "SKIPPED", "DEFAULTED"}
  BY RaceWriters DEF TypeOK, Resume, WriteIntent, EnqueueDesign, CrashResume, scanVars, queue
<1>5. sweeper' \in [step : {"idle", "picked", "read", "refund"},
                    observed : ScanState \cup {NoScan}, amount : Nat]
  <2>1. /\ sweeper \in [step : {"idle", "picked", "read", "refund"},
                        observed : ScanState \cup {NoScan}, amount : Nat]
        /\ Owed \in Nat /\ state \in ScanState \cup {NoScan}
    BY OwedType DEF TypeOK
  <2>2. IdleSweeper \in [step : {"idle", "picked", "read", "refund"},
                        observed : ScanState \cup {NoScan}, amount : Nat]
    BY DEF IdleSweeper
  <2>3. CASE Sweep
    BY <2>1, <2>2, <2>3 DEF Sweep, SweepSelect, SweepRead, SweepMove, SweepRefund
  <2>4. CASE CrashSweep
    BY <2>2, <2>4 DEF CrashSweep
  <2> QED BY <2>1, <2>3, <2>4, SweeperWriters
<1> QED BY <1>1, <1>2, <1>3, <1>4, <1>5

(* No step spoils the types; amounts stay natural because a refund never   *)
(* exceeds the charge.                                                     *)
LEMMA TypeStep ==
    ASSUME TypeOK, Fresh, Creation, Amounts, [Next]_vars
    PROVE  TypeOK'
<1>1. state' \in ScanState \cup {NoScan}
  BY StateMoves, Moves DEF TypeOK, Ended, Terminal
<1>2. /\ started' \in BOOLEAN /\ overdue' \in BOOLEAN
  BY ClockWriters DEF TypeOK, Elapse, Enter
<1>3. requested' \in SUBSET Area /\ gated' \in SUBSET requested'
  BY RequestWriters, LifecycleAssumption DEF TypeOK, CreateRow
<1>4. results' \in [Area -> {"none", "scored", "unscored"}]
  <2>1. results \in [Area -> {"none", "scored", "unscored"}]
    BY DEF TypeOK
  <2>2. ASSUME NEW p \in Phase, FinishModule(p)
        PROVE  results' \in [Area -> {"none", "scored", "unscored"}]
    BY <2>1, <2>2 DEF FinishModule
  <2> QED BY <2>1, <2>2, ResultWriters
<1>5. faults' \in 0..MaxFaults /\ abandoned' \in BOOLEAN
  <2>1. faults \in 0..MaxFaults /\ abandoned \in BOOLEAN
    BY DEF TypeOK
  <2>2. ASSUME NEW l, Fault(l) PROVE faults' \in 0..MaxFaults /\ abandoned' \in BOOLEAN
    <3>1. faults' \in 0..MaxFaults
      BY <2>1, <2>2, LifecycleAssumption DEF Fault
    <3>2. abandoned' \in BOOLEAN
      BY <2>2, Zenon DEF Fault
    <3> QED BY <3>1, <3>2
  <2>3. CASE Crash
    BY <2>2, <2>3, Zenon DEF Crash, CrashCreate, CrashCancel, CrashResume, CrashRun, CrashSweep
  <2> QED BY <2>1, <2>3, FaultWriters DEF ghosts
<1>6. deadline' \in {"none", "scheduled", "fired"}
  BY DeadlineWriters DEF TypeOK
<1>7. run' \in [Phase -> [step : {"none", "entry", "work", "pause", "fail",
                                  "observe", "refund", "done"},
                          read : ScanState \cup {NoScan}, already : BOOLEAN,
                          current : Phase \cup {NoScan}, todo : SUBSET Area,
                          cancelled : BOOLEAN, amount : Nat]]
  BY RunTypes DEF RunRecord, Steps
<1> QED BY <1>1, <1>2, <1>3, <1>4, <1>5, <1>6, <1>7, MoneyTypes, JobTypes, ActorTypes
        DEF TypeOK, Who

-----------------------------------------------------------------------------
(* At most one invocation moves in a step.                                 *)
Kept(p) ==
    /\ run'[p].step = run[p].step /\ run'[p].read = run[p].read
    /\ run'[p].already = run[p].already /\ run'[p].current = run[p].current
    /\ run'[p].todo = run[p].todo /\ run'[p].amount = run[p].amount
    /\ run[p] = NoRun => run'[p] = NoRun

Acts(p) ==
    \/ handlePhase(p) \/ CrashRun(p)
    \/ p = PM /\ Synthesize
    \/ p = PD /\ Complete

(* A step moves at most one handler; the others keep their records but for *)
(* the cancellation they hear of.                                          *)
LEMMA OneMover ==
    ASSUME TypeOK, [Next]_vars
    PROVE  \/ \A p \in Phase : Kept(p)
           \/ \E p \in Phase : Acts(p) /\ \A q \in Phase \ {p} : Kept(q)
<1>1. ASSUME NEW p \in Phase, Acts(p) PROVE \A q \in Phase \ {p} : Kept(q)
  <2>1. \A s, a, b, c, d, e : RunTo(p, s, a, b, c, d, e) => \A q \in Phase \ {p} : Kept(q)
    BY DEF RunTo, Kept
  <2>2. CASE StartJob(p)
    BY <2>1, <2>2, StartRun
  <2>3. CASE Enter(p)
    BY <2>1, <2>3, EnterRun DEF Returned
  <2>4. CASE FinishModule(p)
    BY <2>1, <2>4, FinishRun
  <2>5. CASE Walk(p)
    BY <2>1, <2>5, WalkRun DEF Returned, Same
  <2>6. CASE ScheduleDeadline(p) \/ ObserverRefund(p)
    BY <2>1, <2>6, RunMoves DEF ScheduleDeadline, ObserverRefund, Returned
  <2>7. CASE Throw(p)
    BY <2>1, <2>7, ThrowRun
  <2>8. CASE Fail(p)
    BY <2>1, <2>8, EndRun DEF Fail, Returned, Same
  <2>9. CASE Observe(p)
    BY <2>1, <2>9, ObserveRun DEF Returned
  <2>10. CASE CrashRun(p)
    BY <2>1, <2>10, CrashedRun
  <2>11. CASE p = PM /\ Synthesize
    BY <2>1, <2>11, RunMoves DEF Synthesize, Returned, PM
  <2>12. CASE p = PD /\ Complete
    BY <2>1, <2>12, EndRun DEF Complete, Returned, Same, PD
  <2> QED BY <1>1, <2>2, <2>3, <2>4, <2>5, <2>6, <2>7, <2>8, <2>9, <2>10, <2>11, <2>12
          DEF Acts, handlePhase
<1>2. CASE CancelPublish
  BY <1>2, PublishRun DEF Kept
<1>3. CASE UNCHANGED run
  BY <1>3 DEF Kept
<1>4. ASSUME Synthesize PROVE Acts(PM) /\ PM \in Phase
  BY <1>4, PhaseSet DEF Acts
<1>5. ASSUME Complete PROVE Acts(PD) /\ PD \in Phase
  BY <1>5, PhaseSet DEF Acts
<1>6. ASSUME NEW p \in Phase, handlePhase(p) \/ CrashRun(p) PROVE Acts(p)
  BY <1>6 DEF Acts
<1> QED BY <1>1, <1>2, <1>3, <1>4, <1>5, <1>6, RunWriters

(* An invocation that acts has begun, or begins with its job.              *)
LEMMA ActsBegun ==
    ASSUME TypeOK, NEW p \in Phase, Acts(p)
    PROVE  StartJob(p) \/ run[p] # NoRun
<1>1. NoRun.step = "none" /\ NoRun.todo = {}
  BY DEF NoRun
<1> QED BY <1>1 DEF Acts, handlePhase, Enter, FinishModule, Walk, ScheduleDeadline, Throw, Fail, Observe,
   ObserverRefund, CrashRun, Running, Synthesize, Complete, PM, PD

(* How the job queue changes.                                              *)
LEMMA JobsMove ==
    ASSUME TypeOK, OneJob, [Next]_vars
    PROVE  /\ used \subseteq used'
           /\ \/ UNCHANGED <<jobs, used>>
              \/ \E p \in Phase : StartJob(p) /\ used' = used
              \/ EnqueueFirst /\ Enqueue(P1, FALSE)
              \/ \E w \in Who : EnqueueDesign(w) /\ Enqueue(P2, TRUE)
              \/ \E p \in Phase : Walk(p) /\ Enqueue(PM, FALSE)
              \/ Synthesize /\ Enqueue(PD, FALSE)
<1>1. ASSUME NEW p \in Phase, Walk(p) PROVE UNCHANGED <<jobs, used>> \/ Enqueue(PM, FALSE)
  BY <1>1, WalkRun
<1>2. \A p, b : Enqueue(p, b) => used \subseteq used'
  BY DEF Enqueue
<1> QED BY <1>1, <1>2, JobWriters DEF StartJob, EnqueueFirst, EnqueueDesign, Synthesize, P1, P2, PD

-----------------------------------------------------------------------------
(* One job and one invocation per phase.                                   *)
LEMMA OneJobStep ==
    ASSUME TypeOK, TypeOK', OneJob, [Next]_vars
    PROVE  OneJob'
<1>0. \A p \in Phase : run[p] # NoRun => p \in used
  BY DEF OneJob
<1>1. used' \subseteq {P1, P2, PM, PD}
  BY JobsMove DEF OneJob, Enqueue
<1>2. overdue' => started'
  BY ClockWriters DEF OneJob, Elapse, Enter
<1>3. ASSUME NEW p \in Phase, StartJob(p)
      PROVE  /\ \A j \in jobs' : j \in jobs /\ j.phase # p
             /\ p \in used /\ used' = used
             /\ run'[p].step = "entry" => (run'[p].already <=> p = P2)
  <2>1. PICK job \in jobs :
             /\ job.phase = p /\ jobs' = jobs \ {job}
             /\ \/ RunTo(p, "done", NoScan, FALSE, NoScan, {}, 0)
                \/ RunTo(p, "entry", state, job.already, NoScan, {}, 0)
    BY <1>3, StartRun
  <2>2. ASSUME NEW j \in jobs', j.phase = p PROVE FALSE
    <3>1. j \in jobs /\ j # job
      BY <2>1, <2>2
    <3>2. /\ j \in [phase : Phase, already : BOOLEAN] /\ job \in [phase : Phase, already : BOOLEAN]
          /\ j.already <=> job.already
      BY <2>1, <2>2, <3>1 DEF TypeOK, OneJob
    <3>3. j = job
      BY <2>1, <2>2, <3>2
    <3> QED BY <3>1, <3>3
  <2>3. run'[p].step = "entry" => (run'[p].already <=> p = P2)
    BY <2>1 DEF RunTo, OneJob
  <2> QED BY <1>3, <2>1, <2>2, <2>3 DEF StartJob, OneJob
<1>4. ASSUME NEW p \in Phase, Acts(p), ~StartJob(p)
      PROVE  /\ p \in used
             /\ run'[p].step = "entry" => (run'[p].already <=> p = P2)
  <2>1. p \in used
    BY <1>0, <1>4, ActsBegun
  <2>2. CASE FinishModule(p)
    <3>1. run'[p].step = run[p].step /\ run'[p].already = run[p].already
      BY <2>2, FinishRun DEF RunTo
    <3>2. run[p].step = "entry" => (run[p].already <=> p = P2)
      BY DEF OneJob
    <3> QED BY <2>1, <3>1, <3>2
  <2>3. CASE ~FinishModule(p)
    <3>1. run'[p].step # "entry"
      <4>1. CASE Enter(p)
        BY <4>1, EnterRun DEF RunTo, Returned
      <4>2. CASE Walk(p)
        BY <4>2, WalkRun DEF RunTo, Returned, Same
      <4>3. CASE ScheduleDeadline(p) \/ ObserverRefund(p)
        BY <4>3, RunMoves DEF ScheduleDeadline, ObserverRefund, Returned, RunTo
      <4>4. CASE Throw(p)
        BY <4>4, ThrowRun DEF RunTo
      <4>5. CASE Fail(p)
        BY <4>5, EndRun DEF Fail, Returned, Same, RunTo
      <4>6. CASE Observe(p)
        BY <4>6, ObserveRun DEF Returned, RunTo
      <4>7. CASE CrashRun(p)
        BY <4>7, CrashedRun DEF RunTo
      <4>8. CASE p = PM /\ Synthesize
        BY <4>8, RunMoves DEF Synthesize, Returned, PM, RunTo
      <4>9. CASE p = PD /\ Complete
        BY <4>9, EndRun DEF Complete, Returned, Same, PD, RunTo
      <4> QED BY <1>4, <2>3, <4>1, <4>2, <4>3, <4>4, <4>5, <4>6, <4>7, <4>8, <4>9
              DEF Acts, handlePhase
    <3> QED BY <2>1, <3>1
  <2> QED BY <2>2, <2>3
<1>5. ASSUME NEW p \in Phase, p \notin used' PROVE run'[p] = NoRun
  <2>1. p \notin used
    BY <1>5, JobsMove
  <2>2. CASE Kept(p)
    BY <1>0, <2>1, <2>2 DEF Kept
  <2>3. CASE Acts(p)
    BY <1>3, <1>4, <2>1, <2>3
  <2> QED BY <2>2, <2>3, OneMover
<1>6. ASSUME NEW p \in Phase, run'[p].step = "entry" PROVE run'[p].already <=> p = P2
  <2>1. CASE Kept(p)
    BY <1>6, <2>1 DEF Kept, OneJob
  <2>2. CASE Acts(p)
    BY <1>3, <1>4, <1>6, <2>2
  <2> QED BY <2>1, <2>2, OneMover
<1>7. ASSUME NEW j \in jobs'
      PROVE  j.phase \in used' /\ run'[j.phase] = NoRun /\ (j.already <=> j.phase = P2)
  <2>1. CASE j \in jobs
    <3>1. j.phase \in Phase /\ j.phase \in used /\ run[j.phase] = NoRun /\ (j.already <=> j.phase = P2)
      BY <2>1 DEF TypeOK, OneJob
    <3>2. run'[j.phase] = NoRun
      <4>1. CASE Kept(j.phase)
        BY <3>1, <4>1 DEF Kept
      <4>2. CASE Acts(j.phase)
        BY <1>3, <1>7, <3>1, <4>2, ActsBegun
      <4> QED BY <3>1, <4>1, <4>2, OneMover
    <3> QED BY <3>1, <3>2, JobsMove
  <2>2. CASE j \notin jobs
    <3>1. /\ j.phase \notin used /\ j.phase \in used' /\ j.phase \in Phase
          /\ j.already <=> j.phase = P2
      <4>1. \A p \in Phase : \A b \in BOOLEAN :
              Enqueue(p, b) => p \notin used /\ j.phase = p /\ j.already = b /\ p \in used'
        BY <2>2, Added
      <4>2. ~\E p \in Phase : StartJob(p)
        BY <1>3, <2>2
      <4>3. P1 # P2 /\ PM # P2 /\ PD # P2 /\ {P1, P2, PM, PD} \subseteq Phase
        BY PhaseSet DEF P1, P2, PM, PD
      <4> HIDE DEF P1, P2, PM, PD
      <4> QED BY <2>2, <4>1, <4>2, <4>3, JobsMove
    <3>2. run[j.phase] = NoRun
      BY <1>0, <3>1
    <3>3. run'[j.phase] = NoRun
      <4>1. CASE Kept(j.phase)
        BY <3>2, <4>1 DEF Kept
      <4>2. CASE Acts(j.phase)
        BY <1>3, <1>7, <2>2, <3>1, <3>2, <4>2, ActsBegun
      <4> QED BY <3>1, <4>1, <4>2, OneMover
    <3> QED BY <3>1, <3>3
  <2> QED BY <2>1, <2>2
<1> QED BY <1>1, <1>2, <1>5, <1>6, <1>7 DEF OneJob

-----------------------------------------------------------------------------
(* Creation.                                                               *)

(* Before the first job, no invocation and no side of the race can act.    *)
LEMMA NobodyActs ==
    ASSUME TypeOK, Quiet, OneJob, OneWinner, used = {}
    PROVE  /\ \A p \in Phase : run[p] = NoRun /\ ~Acts(p)
           /\ ~Synthesize /\ ~Complete
           /\ \A w \in Who : ~Resume(w) \/ state' = state
           /\ \A w \in Who : ~WriteIntent(w) /\ ~EnqueueDesign(w) /\ ~CrashResume(w)
<1>1. \A p \in Phase : run[p] = NoRun
  BY DEF OneJob
<1>2. \A p \in Phase : ~StartJob(p)
  BY DEF Quiet, StartJob
<1>3. \A p \in Phase : ~Acts(p)
  BY <1>1, <1>2, ActsBegun
<1>4. ~Synthesize /\ ~Complete
  BY <1>3, PhaseSet DEF Acts
<1>5. state # "AWAITING_QUESTIONNAIRE"
  BY Moves DEF Quiet, ScanState
<1>6. \A w \in Who : ~Resume(w) \/ state' = state
  BY <1>5 DEF Resume, CanMove
<1>7. \A w \in Who : ~WriteIntent(w) /\ ~EnqueueDesign(w) /\ ~CrashResume(w)
  BY DEF OneWinner, WriteIntent, EnqueueDesign, CrashResume
<1> QED BY <1>1, <1>3, <1>4, <1>6, <1>7

(* No worker hears of the audit before its first job.                      *)
LEMMA QuietStep ==
    ASSUME TypeOK, TypeOK', Quiet, OneJob, OneWinner, [Next]_vars
    PROVE  Quiet'
<1>1. creator = "done" => creator' = "done"
  BY CreatorWriters DEF Create, CreateRow, DebitScan, DebitRefused, EnqueueFirst,
     EnqueueFailed, MarkFailed, CrashCreate
<1>2. used = {} => UNCHANGED <<jobs, used>> \/ EnqueueFirst
  <2>1. \A p \in Phase : StartJob(p) \/ Walk(p) => Acts(p)
    BY DEF Acts, handlePhase
  <2> QED BY <2>1, NobodyActs, JobWriters
<1>3. creator' # "done" => used' = {}
  BY <1>1, <1>2 DEF Quiet, EnqueueFirst
<1>4. ASSUME used' = {}
      PROVE  /\ state' \in {NoScan, "QUEUED", "CANCELLED", "FAILED"}
             /\ jobs' = {} /\ started' = FALSE /\ overdue' = FALSE
             /\ results' = [m \in Area |-> "none"]
             /\ sweeper' = IdleSweeper
  <2>1. used = {} /\ ~EnqueueFirst
    BY <1>4, JobsMove DEF EnqueueFirst, Enqueue
  <2>2. /\ state \in {NoScan, "QUEUED", "CANCELLED", "FAILED"}
        /\ jobs = {} /\ started = FALSE /\ overdue = FALSE
        /\ results = [m \in Area |-> "none"]
        /\ sweeper = IdleSweeper
    BY <2>1 DEF Quiet
  <2>3. \A p \in Phase : Enter(p) \/ Walk(p) \/ Fail(p) \/ FinishModule(p) => Acts(p)
    BY DEF Acts, handlePhase
  <2>4. sweeper.step = "idle"
    BY <2>2 DEF IdleSweeper
  <2>5. state' \in {NoScan, "QUEUED", "CANCELLED", "FAILED"}
    BY <2>1, <2>2, <2>3, <2>4, NobodyActs, StateWriters
       DEF CreateRow, DebitRefused, MarkFailed, CancelMove, SweepMove
  <2>6. started' = FALSE /\ overdue' = FALSE
    BY <2>1, <2>2, <2>3, NobodyActs, ClockWriters DEF Elapse
  <2>7. results' = results
    BY <2>1, <2>3, NobodyActs, ResultWriters
  <2>8. sweeper' = sweeper
    BY <2>2, <2>4, SweeperWriters DEF Sweep, SweepSelect, SweepRead, SweepMove, SweepRefund, CrashSweep
  <2>9. jobs' = {}
    BY <1>2, <2>1, <2>2
  <2> QED BY <2>2, <2>5, <2>6, <2>7, <2>8, <2>9
<1> QED BY <1>3, <1>4 DEF Quiet

(* The request that creates the scan finds what it left behind.            *)
LEMMA CreationStep ==
    ASSUME TypeOK, TypeOK', Fresh, Quiet, Creation, OneJob, OneWinner, [Next]_vars
    PROVE  Fresh' /\ Creation'
<1>0. /\ debited \in Nat /\ refunded \in 0..debited
  BY DEF TypeOK
<1>1. UNCHANGED debited \/ DebitScan
  BY MoneyWriters DEF money, EnqueueFailed, CancelRefund, SweepRefund, ObserverRefund, Refund
<1>2. UNCHANGED creator \/ Create \/ CrashCreate
  BY CreatorWriters
<1>3. Fresh'
  <2> SUFFICES ASSUME creator' = "start"
               PROVE  /\ state' = NoScan /\ requested' = {} /\ gated' = {} /\ debited' = 0
                      /\ canceller' = [step |-> "idle", amount |-> 0, debitTx |-> FALSE]
    BY DEF Fresh
  <2>1. creator = "start" /\ ~CreateRow /\ ~DebitRefused /\ ~DebitScan
    BY <1>2 DEF Create, CreateRow, DebitScan, DebitRefused, EnqueueFirst, EnqueueFailed,
       MarkFailed, CrashCreate
  <2>2. /\ state = NoScan /\ requested = {} /\ gated = {} /\ debited = 0
        /\ canceller = [step |-> "idle", amount |-> 0, debitTx |-> FALSE]
    BY <2>1 DEF Fresh
  <2>3. state' = NoScan
    BY <2>1, <2>2, StateMoves, MoveTypes
  <2>4. requested' = {} /\ gated' = {}
    BY <2>1, <2>2, RequestWriters
  <2>5. canceller' = canceller
    BY <2>2, CancellerWriters, Moves DEF Cancel, CancelMove, CancelPublish, CancelRead, CancelRefund,
       CrashCancel
  <2> QED BY <1>1, <2>1, <2>2, <2>3, <2>4, <2>5
<1>4. ASSUME creator' = "row" PROVE state' \in {"QUEUED", "CANCELLED"} /\ debited' = 0
  <2>1. CASE CreateRow
    BY <1>1, <2>1 DEF CreateRow, Fresh, DebitScan
  <2>2. CASE ~CreateRow
    <3>1. creator = "row" /\ ~DebitRefused /\ ~DebitScan
      BY <1>2, <1>4, <2>2 DEF Create, DebitScan, DebitRefused, EnqueueFirst, EnqueueFailed,
         MarkFailed, CrashCreate
    <3>2. used = {} /\ used' = {} /\ state \in {"QUEUED", "CANCELLED"}
      BY <1>4, <3>1, QuietStep DEF Quiet, Creation
    <3>3. state' \in {NoScan, "QUEUED", "CANCELLED", "FAILED"}
      BY <3>2, QuietStep DEF Quiet
    <3>4. state' # NoScan
      BY <2>2, <3>1, <3>2, StateMoves, MoveTypes
    <3>5. state' # "FAILED"
      <4>1. \A p \in Phase : Enter(p) \/ Walk(p) \/ Fail(p) => Acts(p)
        BY DEF Acts, handlePhase
      <4>2. sweeper.step = "idle"
        BY <3>2 DEF Quiet, IdleSweeper
      <4> QED BY <2>2, <3>1, <3>2, <4>1, <4>2, NobodyActs, StateWriters
              DEF MarkFailed, CancelMove, SweepMove
    <3> QED BY <1>1, <3>1, <3>3, <3>4, <3>5 DEF Creation
  <2> QED BY <2>1, <2>2
<1>5. ASSUME creator' = "debited" PROVE debited' = Charge' /\ state' # NoScan
  <2>1. ~CreateRow /\ ~DebitRefused /\ creator \in {"row", "debited"}
    BY <1>2, <1>5 DEF Create, CreateRow, DebitScan, DebitRefused, EnqueueFirst, EnqueueFailed,
       MarkFailed, CrashCreate
  <2>2. Charge' = Charge
    BY <2>1, RequestWriters DEF Charge
  <2>3. state # NoScan /\ state' # NoScan
    <3>1. state # NoScan
      BY <2>1, Moves DEF Creation, Terminal
    <3> QED BY <2>1, <3>1, StateMoves, MoveTypes
  <2>4. DebitScan \/ creator = "debited"
    BY <1>2, <1>5 DEF Create, CreateRow, DebitRefused, EnqueueFirst, EnqueueFailed,
       MarkFailed, CrashCreate
  <2> QED BY <1>1, <2>2, <2>3, <2>4 DEF DebitScan, Creation
<1>6. ASSUME creator' = "failing" PROVE refunded' = debited'
  <2>1. CASE EnqueueFailed
    BY <1>0, <1>6, <2>1 DEF EnqueueFailed, Refund
  <2>2. CASE ~EnqueueFailed
    <3>1. creator = "failing" /\ refunded = debited
      BY <1>2, <1>6, <2>2 DEF Create, CreateRow, DebitScan, DebitRefused, EnqueueFirst,
         MarkFailed, CrashCreate, Creation
    <3>2. ~DebitScan
      BY <3>1 DEF DebitScan
    <3>3. \A a : Refund(a) => refunded' = refunded
      BY <1>0, <3>1 DEF Refund
    <3> QED BY <1>1, <2>2, <3>1, <3>2, <3>3, MoneyWriters
            DEF money, CancelRefund, SweepRefund, ObserverRefund
  <2> QED BY <2>1, <2>2
<1> QED BY <1>3, <1>4, <1>5, <1>6 DEF Creation

-----------------------------------------------------------------------------
(* The questionnaire.                                                      *)

(* The row never comes back to where the race can still be entered.        *)
LEMMA NeverEarlyAgain ==
    ASSUME TypeOK, Fresh, Quiet, Creation, [Next]_vars, state \notin Early, used # {}
    PROVE  state' \notin Early
<1>1. ~DebitRefused
  BY DEF DebitRefused, Quiet
<1>2. state \in ScanState \ Early
  BY DEF TypeOK, Early
<1>3. ~CreateRow \/ state # NoScan
  BY <1>2, MoveTypes
<1> QED BY <1>1, <1>2, <1>3, StateMoves, Moves DEF Early, P1, P2, P3, PM, PD, Terminal, Ended

(* The guarded move out of the questionnaire lets one of answer, skip and  *)
(* deadline through.                                                       *)
LEMMA OneWinnerStep ==
    ASSUME TypeOK, TypeOK', Fresh, Quiet, Creation, OneJob, OneWinner, [Next]_vars
    PROVE  OneWinner'
<1>0. /\ resumer \in [Who -> {"idle", "won", "wrote", "done"}] /\ Who = {"user", "timer"}
      /\ used \subseteq used'
  BY JobsMove DEF TypeOK, Who
<1>2. P2 \in used' => P2 \in used \/ \E w \in Who : EnqueueDesign(w)
  BY JobsMove DEF Enqueue, P1, P2, PM, PD
<1>3. ASSUME \A w \in Who : ~Resume(w) \/ UNCHANGED <<resumer, intent>>,
             \A w \in Who : ~WriteIntent(w) /\ ~EnqueueDesign(w) /\ ~CrashResume(w)
      PROVE  OneWinner'
  <2>1. UNCHANGED <<resumer, intent>>
    BY <1>3, RaceWriters
  <2>2. P2 \in used' => P2 \in used
    BY <1>2, <1>3
  <2>3. ASSUME NEW w \in Who, resumer[w] # "idle" PROVE state' \notin Early
    BY <2>3, NeverEarlyAgain DEF OneWinner
  <2> QED BY <1>0, <2>1, <2>2, <2>3 DEF OneWinner
<1>4. ASSUME NEW w \in Who, Resume(w), ~UNCHANGED <<resumer, intent>> PROVE OneWinner'
  <2>1. /\ state = "AWAITING_QUESTIONNAIRE" /\ state' = "RUNNING_PHASE_2" /\ resumer[w] = "idle"
        /\ resumer' = [resumer EXCEPT ![w] = "won"] /\ intent' = intent /\ used' = used
    BY <1>4 DEF Resume, CanMove
  <2>2. \A v \in Who : resumer[v] = "idle"
    BY <2>1 DEF OneWinner, Early
  <2>3. intent = "none" /\ P2 \notin used /\ used # {}
    <3>1. used # {}
      BY <2>1, Moves DEF Quiet
    <3> QED BY <2>2, <3>1 DEF OneWinner
  <2>4. state' \notin Early
    BY <2>1, MoveTypes, Moves DEF Early, P1, P2
  <2> QED BY <1>0, <2>1, <2>2, <2>3, <2>4 DEF OneWinner
<1>5. ASSUME NEW w \in Who, WriteIntent(w) PROVE OneWinner'
  <2>1. /\ resumer[w] = "won" /\ resumer' = [resumer EXCEPT ![w] = "wrote"]
        /\ intent' # "none" /\ state' = state /\ used' = used
    BY <1>5 DEF WriteIntent, scanVars, queue
  <2> QED BY <1>0, <2>1 DEF OneWinner
<1>6. ASSUME NEW w \in Who, EnqueueDesign(w) PROVE OneWinner'
  <2>1. /\ resumer[w] = "wrote" /\ resumer' = [resumer EXCEPT ![w] = "done"]
        /\ intent' = intent /\ state' = state /\ used' = used \cup {P2}
    BY <1>6 DEF EnqueueDesign, scanVars, Enqueue, P2
  <2> QED BY <1>0, <2>1 DEF OneWinner
<1>7. ASSUME NEW w \in Who, CrashResume(w) PROVE OneWinner'
  <2>1. /\ resumer[w] \in {"won", "wrote"} /\ resumer' = [resumer EXCEPT ![w] = "done"]
        /\ intent' = intent /\ state' = state /\ used' = used
    BY <1>7 DEF CrashResume, scanVars, queue
  <2> QED BY <1>0, <2>1 DEF OneWinner
<1> QED BY <1>3, <1>4, <1>5, <1>6, <1>7

(* So the winner's intent is never overwritten.                            *)
LEMMA IntentKept ==
    ASSUME TypeOK, OneWinner, [Next]_vars, intent # "none"
    PROVE  intent' = intent
BY RaceWriters DEF OneWinner, Resume, WriteIntent, EnqueueDesign, CrashResume

-----------------------------------------------------------------------------
(* Results.                                                                *)

(* The phases share the areas out among them.                              *)
LEMMA PhaseAreas ==
    ASSUME NEW R, NEW p \in Phase, NEW q \in Phase
    PROVE  /\ modulesForPhase(p, R) \subseteq R
           /\ p # q => modulesForPhase(p, R) \cap modulesForPhase(q, R) = {}
           /\ modulesForPhase(p, {}) = {}
           /\ p \notin {P1, P2} => modulesForPhase(p, R) = {}
           /\ modulesForPhase(P2, R) = {} <=> "UI" \notin R
BY PhaseSet DEF modulesForPhase, P1, P2, P3, PM, PD

(* An invocation that acts without storing a result: what it leaves to do. *)
LEMMA TodoShrinks ==
    ASSUME TypeOK, NEW p \in Phase, Acts(p), ~StartJob(p), ~Enter(p), ~FinishModule(p)
    PROVE  run'[p].todo \subseteq run[p].todo /\ run'[p].step \notin {"none", "entry"}
<1>1. CASE Walk(p)
  BY <1>1, WalkRun DEF RunTo, Returned, Same
<1>2. CASE ScheduleDeadline(p) \/ ObserverRefund(p)
  BY <1>2, RunMoves DEF ScheduleDeadline, ObserverRefund, Returned, RunTo
<1>3. CASE Throw(p)
  BY <1>3, ThrowRun DEF RunTo
<1>4. CASE Fail(p)
  BY <1>4, EndRun DEF Fail, Returned, Same, RunTo
<1>5. CASE Observe(p)
  BY <1>5, ObserveRun DEF Returned, RunTo
<1>6. CASE CrashRun(p)
  BY <1>6, CrashedRun DEF RunTo
<1>7. CASE p = PM /\ Synthesize
  BY <1>7, RunMoves DEF Synthesize, Returned, PM, RunTo
<1>8. CASE p = PD /\ Complete
  BY <1>8, EndRun DEF Complete, Returned, Same, PD, RunTo
<1> QED BY <1>1, <1>2, <1>3, <1>4, <1>5, <1>6, <1>7, <1>8 DEF Acts, handlePhase

(* The only result that is written is that of an area still to do.         *)
LEMMA ResultsMove ==
    ASSUME TypeOK, OneResult, [Next]_vars
    PROVE  /\ \A m \in Area : results[m] # "none" => results'[m] = results[m]
           /\ \A q \in Phase : (\A p \in Phase \ {q} : ~FinishModule(p)) /\ ~FinishModule(q)
                => results' = results
           /\ \A q \in Phase : \A p \in Phase \ {q} : FinishModule(p) =>
                \A m \in modulesForPhase(q, requested) : results'[m] = results[m]
<1>0. results \in [Area -> {"none", "scored", "unscored"}] /\ requested \subseteq Area
  BY DEF TypeOK
<1>1. ASSUME NEW p \in Phase, FinishModule(p)
      PROVE  \E m \in modulesForPhase(p, requested) :
               /\ results[m] = "none"
               /\ \A k \in Area \ {m} : results'[k] = results[k]
  <2>1. PICK m \in run[p].todo :
             \/ results' = results
             \/ \E r \in {"scored", "unscored"} : results' = [results EXCEPT ![m] = r]
    BY <1>1, FinishRun
  <2> QED BY <1>0, <2>1 DEF OneResult
<1>2. ASSUME NEW q \in Phase, NEW p \in Phase \ {q}, FinishModule(p),
             NEW m \in modulesForPhase(q, requested)
      PROVE  results'[m] = results[m]
  <2>1. m \in Area /\ m \notin modulesForPhase(p, requested)
    BY <1>0, PhaseAreas
  <2> QED BY <1>1, <1>2, <2>1
<1> QED BY <1>1, <1>2, ResultWriters

(* An area that a handler has yet to run has no result.                    *)
LEMMA OneResultStep ==
    ASSUME TypeOK, TypeOK', Fresh, Quiet, OneJob, OneWinner, OneResult, [Next]_vars
    PROVE  OneResult'
<1>1. CASE CreateRow
  <2>1. used = {} /\ creator = "start"
    BY <1>1 DEF CreateRow, Quiet
  <2>2. \A p \in Phase : run'[p] = NoRun
    BY <1>1, <2>1, NobodyActs DEF CreateRow
  <2>3. results' = [m \in Area |-> "none"] /\ requested' \subseteq Area
    BY <1>1, <2>1 DEF Quiet, CreateRow, TypeOK
  <2>4. \A p \in Phase : modulesForPhase(p, requested') \subseteq Area
    BY <2>3, PhaseAreas
  <2> QED BY <2>2, <2>3, <2>4 DEF OneResult, NoRun
<1>2. CASE ~CreateRow
  <2> SUFFICES ASSUME NEW p \in Phase
               PROVE  /\ run'[p].todo \subseteq modulesForPhase(p, requested')
                      /\ \A m \in run'[p].todo : results'[m] = "none"
                      /\ run'[p].step \in {"none", "entry"} =>
                           /\ run'[p].todo = {}
                           /\ \A m \in modulesForPhase(p, requested') : results'[m] = "none"
    BY DEF OneResult
  <2>0. requested' = requested
    BY <1>2, RequestWriters
  <2>1. /\ run[p].todo \subseteq modulesForPhase(p, requested)
        /\ \A m \in run[p].todo : results[m] = "none"
        /\ run[p].step \in {"none", "entry"} =>
             run[p].todo = {} /\ \A m \in modulesForPhase(p, requested) : results[m] = "none"
    BY DEF OneResult
  <2>2. ASSUME ~FinishModule(p) PROVE \A m \in modulesForPhase(p, requested) : results'[m] = results[m]
    BY <2>2, ResultsMove
  <2>3. CASE Kept(p) /\ ~FinishModule(p)
    BY <2>0, <2>1, <2>2, <2>3 DEF Kept
  <2>4. CASE FinishModule(p)
    <3>1. PICK m \in run[p].todo :
             /\ RunTo(p, run[p].step, run[p].read, run[p].already, run[p].current,
                      run[p].todo \ {m}, run[p].amount)
             /\ \/ results' = results
                \/ \E r \in {"scored", "unscored"} : results' = [results EXCEPT ![m] = r]
      BY <2>4, FinishRun
    <3>2. run[p].step \notin {"none", "entry"}
      BY <2>1, <3>1
    <3>3. \A k \in run[p].todo \ {m} : results'[k] = "none"
      BY <2>1, <3>1 DEF TypeOK
    <3> QED BY <2>0, <2>1, <3>1, <3>2, <3>3 DEF RunTo
  <2>5. CASE StartJob(p) /\ ~FinishModule(p)
    <3>1. run[p].step = "none" /\ run'[p].todo = {}
      <4>1. \E job \in jobs : job.phase = p
        BY <2>5 DEF StartJob
      <4>2. run[p] = NoRun
        BY <4>1 DEF OneJob
      <4>3. run'[p].todo = {}
        BY <2>5, StartRun DEF RunTo
      <4> QED BY <4>2, <4>3 DEF NoRun
    <3> QED BY <2>0, <2>1, <2>2, <2>5, <3>1
  <2>6. CASE Enter(p) /\ ~FinishModule(p)
    <3>1. /\ run[p].step = "entry" /\ run'[p].step \in {"work", "done"}
          /\ run'[p].todo \in {modulesForPhase(p, requested), run[p].todo}
      BY <2>6, EnterRun DEF RunTo, Returned
    <3> QED BY <2>0, <2>1, <2>2, <2>6, <3>1
  <2>7. CASE Acts(p) /\ ~StartJob(p) /\ ~Enter(p) /\ ~FinishModule(p)
    BY <2>0, <2>1, <2>2, <2>7, TodoShrinks
  <2> QED BY <2>3, <2>4, <2>5, <2>6, <2>7, OneMover
<1> QED BY <1>1, <1>2

-----------------------------------------------------------------------------
(* The walk, and what pins the row.                                        *)
LEMMA WalkStep ==
    ASSUME TypeOK, Fresh, Quiet, OneJob, OneWinner, WalkSound, [Next]_vars
    PROVE  WalkSound'
<1>0. P1 # P2 /\ P1 # P3 /\ P2 # P3
  BY DEF P1, P2, P3
<1>1. CASE CreateRow
  <2>1. used = {}
    BY <1>1 DEF CreateRow, Quiet
  <2>2. \A p \in Phase : run'[p] = NoRun
    BY <1>1, <2>1, NobodyActs DEF CreateRow
  <2> QED BY <2>2 DEF WalkSound, NoRun
<1>2. CASE ~CreateRow
  <2> SUFFICES ASSUME NEW p \in Phase, run'[p].step = "work"
               PROVE  \/ run'[p].current = p
                      \/ /\ p \in {P1, P2} /\ run'[p].current \in {P2, P3} /\ run'[p].todo = {}
                         /\ p = P1 => "UI" \notin requested'
    BY DEF WalkSound
  <2>0. requested' = requested
    BY <1>2, RequestWriters
  <2>1. CASE Kept(p)
    BY <2>0, <2>1 DEF Kept, WalkSound
  <2>2. CASE Enter(p)
    BY <2>2, EnterRun DEF RunTo, Returned
  <2>3. CASE FinishModule(p)
    BY <2>0, <2>3, FinishRun DEF RunTo, WalkSound
  <2>4. CASE Walk(p)
    <3> DEFINE next == nextPhase(run[p].current)
    <3>1. /\ run[p].step = "work" /\ run[p].todo = {} /\ p \in MODULE_RUNNING_PHASES
          /\ next \in MODULE_RUNNING_PHASES /\ modulesForPhase(next, requested) = {}
          /\ run'[p].current = next /\ run'[p].todo = {}
      BY <2>4, WalkRun DEF RunTo, Returned, Same
    <3>2. run[p].current = p \/ (p \in {P1, P2} /\ run[p].current \in {P2, P3}
                                  /\ (p = P1 => "UI" \notin requested))
      BY <3>1 DEF WalkSound
    <3>3. MODULE_RUNNING_PHASES = {P1, P2, P3} /\ PM \notin {P1, P2, P3}
      BY DEF MODULE_RUNNING_PHASES, P1, P2, P3, PM
    <3>4. modulesForPhase(P2, requested) = {} => "UI" \notin requested
      BY PhaseAreas, PhaseSet
    <3>5. nextPhase(P1) = P2 /\ nextPhase(P2) = P3 /\ nextPhase(P3) = PM
      BY NextPhases
    <3> HIDE DEF P1, P2, P3, PM
    <3>6. CASE run[p].current = P1
      BY <1>0, <2>0, <3>1, <3>2, <3>4, <3>5, <3>6
    <3>7. CASE run[p].current = P2
      BY <1>0, <2>0, <3>1, <3>2, <3>4, <3>5, <3>7
    <3>8. CASE run[p].current = P3
      BY <3>1, <3>3, <3>5, <3>8
    <3> QED BY <3>1, <3>2, <3>3, <3>6, <3>7, <3>8
  <2>5. CASE Acts(p) /\ ~Enter(p) /\ ~FinishModule(p) /\ ~Walk(p)
    <3>1. run'[p].step # "work"
      <4>1. CASE StartJob(p)
        BY <4>1, StartRun DEF RunTo
      <4>2. CASE ScheduleDeadline(p) \/ ObserverRefund(p)
        BY <4>2, RunMoves DEF ScheduleDeadline, ObserverRefund, Returned, RunTo
      <4>3. CASE Throw(p)
        BY <4>3, ThrowRun DEF RunTo
      <4>4. CASE Fail(p)
        BY <4>4, EndRun DEF Fail, Returned, Same, RunTo
      <4>5. CASE Observe(p)
        BY <4>5, ObserveRun DEF Returned, RunTo
      <4>6. CASE CrashRun(p)
        BY <4>6, CrashedRun DEF RunTo
      <4>7. CASE p = PM /\ Synthesize
        BY <4>7, RunMoves DEF Synthesize, Returned, PM, RunTo
      <4>8. CASE p = PD /\ Complete
        BY <4>8, EndRun DEF Complete, Returned, Same, PD, RunTo
      <4> QED BY <2>5, <4>1, <4>2, <4>3, <4>4, <4>5, <4>6, <4>7, <4>8 DEF Acts, handlePhase
    <3> QED BY <3>1
  <2> QED BY <2>1, <2>2, <2>3, <2>4, <2>5, OneMover
<1> QED BY <1>1, <1>2

(* Areas are pending in the two phases that have any.                      *)
LEMMA PendingPhases ==
    ASSUME OneJob, OneResult, Pinned, NEW p \in Phase, Pending(p)
    PROVE  /\ p \in used /\ (p = P1 \/ (p = P2 /\ "UI" \in requested))
           /\ state \in {p} \cup Ended
<1>1. run[p] # NoRun
  BY DEF Pending, NoRun
<1>2. CASE run[p].todo # {}
  <2>1. modulesForPhase(p, requested) # {}
    BY <1>2 DEF OneResult
  <2> QED BY <1>1, <2>1, PhaseAreas DEF OneJob, Pinned
<1>3. CASE run[p].step = "entry" /\ run[p].already
  BY <1>1, <1>3 DEF OneJob, Pinned
<1> QED BY <1>1, <1>2, <1>3 DEF Pending

(* While an area of a phase is pending, nobody moves the row out of that   *)
(* phase except to an end.                                                 *)
LEMMA PinHolds ==
    ASSUME TypeOK, Fresh, Quiet, Creation, OneJob, OneWinner, OneResult, WalkSound, Pinned,
           [Next]_vars, NEW p \in Phase, Pending(p)
    PROVE  state' \in {p} \cup Ended
<1>0. /\ p \in used /\ (p = P1 \/ (p = P2 /\ "UI" \in requested)) /\ state \in {p} \cup Ended
      /\ used # {}
  BY PendingPhases
<1>1. ASSUME NEW q \in Phase, Enter(q) PROVE state' \in {p} \cup Ended
  <2>1. state' = state \/ (state' = q /\ ~run[q].already /\ canTransition(state, q))
    BY <1>1, EnterRun DEF CanMove
  <2>2. q \in {P1, PM, PD} \/ run[q].already
    <3>1. run[q].step = "entry"
      BY <1>1, EnterRun
    <3>2. q \in used
      BY <3>1 DEF OneJob, NoRun
    <3> QED BY <3>1, <3>2 DEF OneJob
  <2>3. q \in {P1, PM, PD} => ~canTransition(state, q)
    BY <1>0, Moves DEF P1, P2, P3, PM, PD, Ended
  <2> QED BY <1>0, <2>1, <2>2, <2>3
<1>2. ASSUME NEW q \in Phase, Walk(q) PROVE state' \in {p} \cup Ended
  <2> DEFINE c == run[q].current
  <2>0. /\ run[q].step = "work" /\ run[q].todo = {} /\ q \in {P1, P2, P3}
        /\ q \in used
    <3>1. run[q].step = "work" /\ run[q].todo = {} /\ q \in MODULE_RUNNING_PHASES
      BY <1>2, WalkRun
    <3>2. q \in used
      BY <3>1 DEF OneJob, NoRun
    <3> QED BY <3>1, <3>2 DEF MODULE_RUNNING_PHASES, P1, P2, P3
  <2>1. q # p /\ q \in {P1, P2}
    BY <2>0 DEF Pending, OneJob, P1, P2, P3, PM, PD
  <2>2. c = q \/ (c \in {P2, P3} /\ (q = P1 => "UI" \notin requested))
    BY <2>0 DEF WalkSound
  <2>3. c \in {P1, P2, P3} /\ c # p
    BY <1>0, <2>1, <2>2 DEF P1, P2, P3
  <2>4. CASE CanMove(c, nextPhase(c)) /\ state' = nextPhase(c)
    BY <1>0, <2>3, <2>4 DEF CanMove, Ended, P1, P2, P3
  <2>5. CASE /\ modulesForPhase(nextPhase(c), requested) # {} /\ nextPhase(c) \in MODULE_RUNNING_PHASES
             /\ CanMove(P1, "AWAITING_QUESTIONNAIRE")
    <3>1. p = P1
      BY <1>0, <2>5 DEF CanMove, Ended, P1
    <3>2. nextPhase(c) # P2
      BY <2>3, <3>1, NextPhases DEF P1, P2, P3, PM
    <3>3. nextPhase(c) \in {P3, PM}
      BY <2>3, <3>1, NextPhases
    <3>4. P3 \notin {P1, P2} /\ PM \notin {P1, P2} /\ P3 \in Phase /\ PM \in Phase
      BY PhaseSet DEF P1, P2, P3, PM
    <3> QED BY <2>5, <3>3, <3>4, PhaseAreas
  <2>6. CASE state' = state
    BY <1>0, <2>6
  <2> QED BY <1>2, <2>4, <2>5, <2>6, WalkRun
<1>3. CASE CreateRow
  BY <1>0, <1>3 DEF CreateRow, Quiet
<1>4. CASE DebitRefused
  BY <1>0, <1>4 DEF DebitRefused, Quiet
<1>5. CASE MarkFailed \/ CancelMove \/ SweepMove
  BY <1>0, <1>5 DEF MarkFailed, CancelMove, SweepMove, Ended
<1>6. CASE Complete
  <2>1. CanMove(PD, "COMPLETED") \/ state' = state
    BY <1>6, EndRun, PhaseSet DEF Complete, PD
  <2> QED BY <1>0, <2>1 DEF CanMove, P1, P2, PD, Ended
<1>7. ASSUME NEW w \in Who, Resume(w) PROVE state' \in {p} \cup Ended
  BY <1>0, <1>7 DEF Resume, CanMove, P1, P2, Ended
<1>8. ASSUME NEW q \in Phase, Fail(q) PROVE state' \in {p} \cup Ended
  BY <1>0, <1>8, EndRun DEF Fail, Ended
<1> QED BY <1>0, <1>1, <1>2, <1>3, <1>4, <1>5, <1>6, <1>7, <1>8, StateWriters

(* So a pending area goes on pinning the row.                              *)
LEMMA PinnedStep ==
    ASSUME TypeOK, Fresh, Quiet, Creation, OneJob, OneWinner, OneResult, WalkSound, Pinned,
           [Next]_vars
    PROVE  Pinned'
<1>1. ASSUME NEW p \in Phase, Pending(p)' PROVE state' \in {p} \cup Ended
  <2>1. CASE Pending(p)
    BY <2>1, PinHolds
  <2>2. CASE StartJob(p)
    <3>1. state' = state /\ run'[p].todo = {}
      BY <2>2, StartRun DEF StartJob, scanVars, RunTo
    <3>2. run'[p].read = p => state = p
      <4>1. p # NoScan
        BY PhaseSet, MoveTypes, Moves
      <4> QED BY <2>2, <4>1, StartRun DEF RunTo
    <3> QED BY <1>1, <3>1, <3>2 DEF Pending
  <2>3. CASE Enter(p)
    <3>1. run[p].step = "entry" /\ run[p].todo = {}
      BY <2>3, EnterRun DEF OneResult
    <3>2. run'[p].step # "entry"
      BY <2>3, EnterRun DEF RunTo, Returned
    <3>3. state' = p \/ Pending(p)
      BY <1>1, <2>3, <3>1, <3>2, EnterRun DEF Pending, RunTo, Returned
    <3> QED BY <2>1, <3>3
  <2>4. CASE FinishModule(p)
    BY <1>1, <2>1, <2>4, FinishRun DEF Pending
  <2>5. CASE Acts(p) /\ ~StartJob(p) /\ ~Enter(p) /\ ~FinishModule(p)
    BY <1>1, <2>1, <2>5, TodoShrinks DEF Pending
  <2>6. CASE Kept(p)
    BY <1>1, <2>1, <2>6 DEF Kept, Pending
  <2> QED BY <2>2, <2>3, <2>4, <2>5, <2>6, OneMover
<1>2. ASSUME run'[P2].step = "entry" PROVE "UI" \in requested'
  <2>0. P2 \in Phase /\ P2 \in MODULE_RUNNING_PHASES
    BY PhaseSet DEF MODULE_RUNNING_PHASES, P2
  <2>1. requested' = requested \/ used = {}
    BY RequestWriters DEF CreateRow, Quiet
  <2>2. CASE used = {}
    <3>1. Kept(P2)
      BY <2>0, <2>2, NobodyActs, OneMover
    <3> QED BY <1>2, <2>0, <2>2, <3>1, NobodyActs DEF Kept, NoRun
  <2>3. CASE requested' = requested /\ StartJob(P2)
    <3>1. modulesForPhase(P2, requested) # {}
      BY <1>2, <2>0, <2>3, StartRun DEF RunTo
    <3> QED BY <2>0, <2>3, <3>1, PhaseAreas
  <2>4. CASE requested' = requested /\ ~StartJob(P2)
    <3>1. run[P2].step = "entry"
      <4>1. CASE Kept(P2)
        BY <1>2, <4>1 DEF Kept
      <4>2. CASE Enter(P2)
        BY <2>0, <4>2, EnterRun
      <4>3. CASE FinishModule(P2)
        BY <1>2, <2>0, <4>3, FinishRun DEF RunTo
      <4>4. CASE Acts(P2) /\ ~Enter(P2) /\ ~FinishModule(P2)
        BY <1>2, <2>0, <2>4, <4>4, TodoShrinks
      <4> QED BY <2>0, <4>1, <4>2, <4>3, <4>4, OneMover
    <3> QED BY <2>4, <3>1 DEF Pinned
  <2> QED BY <2>1, <2>2, <2>3, <2>4
<1> QED BY <1>1, <1>2 DEF Pinned

-----------------------------------------------------------------------------
(* Who pays.                                                               *)

(* How an invocation comes to owe the refund.                              *)
LEMMA PayersMove ==
    ASSUME TypeOK, [Next]_vars, NEW p \in Phase, run'[p].step \in {"observe", "refund"}
    PROVE  \/ run[p].step = run'[p].step /\ run[p].amount = run'[p].amount
           \/ run'[p].step = "observe" /\ state' = "FAILED"
           \/ run'[p].step = "observe" /\ state' = "COMPLETED" /\ p = PD
           \/ /\ run[p].step = "observe" /\ run'[p].step = "refund" /\ run'[p].amount = Owed
              /\ UNCHANGED <<state, results, requested, gated>>
<1>1. CASE Kept(p)
  BY <1>1 DEF Kept
<1>2. CASE StartJob(p)
  BY <1>2, StartRun DEF RunTo
<1>3. CASE Enter(p)
  BY <1>3, EnterRun DEF RunTo, Returned
<1>4. CASE FinishModule(p)
  BY <1>4, FinishRun DEF RunTo
<1>5. CASE Walk(p)
  BY <1>5, WalkRun DEF RunTo, Returned, Same
<1>6. CASE ScheduleDeadline(p) \/ ObserverRefund(p)
  BY <1>6, RunMoves DEF ScheduleDeadline, ObserverRefund, Returned, RunTo
<1>7. CASE Throw(p)
  BY <1>7, ThrowRun DEF RunTo
<1>8. CASE Fail(p)
  BY <1>8, EndRun DEF Fail, Returned, Same, RunTo
<1>9. CASE Observe(p)
  <2>1. UNCHANGED <<state, results, requested, gated>>
    BY <1>9 DEF Observe, scanVars
  <2> QED BY <1>9, <2>1, ObserveRun DEF Returned, RunTo
<1>10. CASE CrashRun(p)
  BY <1>10, CrashedRun DEF RunTo
<1>11. CASE p = PM /\ Synthesize
  BY <1>11, RunMoves DEF Synthesize, Returned, PM, RunTo
<1>12. CASE p = PD /\ Complete
  BY <1>12, EndRun DEF Complete, Returned, Same, PD, RunTo
<1> QED BY <1>1, <1>2, <1>3, <1>4, <1>5, <1>6, <1>7, <1>8, <1>9, <1>10, <1>11, <1>12, OneMover
        DEF Acts, handlePhase

(* How it stops owing it.                                                  *)
LEMMA PayersLeave ==
    ASSUME TypeOK, OneJob, [Next]_vars, NEW p \in Phase, run[p].step \in {"observe", "refund"}
    PROVE  \/ run'[p].step \in {"observe", "refund"}
           \/ Owed = 0 /\ Observe(p)
           \/ ObserverRefund(p)
           \/ abandoned'
<1>1. CASE Kept(p)
  BY <1>1 DEF Kept
<1>2. CASE FinishModule(p)
  BY <1>2, FinishRun DEF RunTo
<1>3. CASE Observe(p)
  BY <1>3, ObserveRun, OwedType DEF RunTo
<1>4. CASE CrashRun(p)
  BY <1>4, CrashedRun
<1>5. CASE StartJob(p)
  BY <1>5 DEF StartJob, OneJob, NoRun
<1>6. ~Enter(p) /\ ~Walk(p) /\ ~ScheduleDeadline(p) /\ ~Throw(p) /\ ~Fail(p)
      /\ ~(p = PM /\ Synthesize) /\ ~(p = PD /\ Complete)
  BY DEF Enter, Walk, ScheduleDeadline, Throw, Fail, Synthesize, Complete, PM, PD
<1> QED BY <1>1, <1>2, <1>3, <1>4, <1>5, <1>6, OneMover DEF Acts, handlePhase

(* A refund is made once, and covers what is owed.                         *)
LEMMA Paid ==
    ASSUME TypeOK, Creation, Amounts, [Next]_vars
    PROVE  /\ refunded' = refunded \/ (refunded = 0 /\ debited > 0 /\ refunded' >= Owed)
           /\ \/ refunded' = refunded
              \/ EnqueueFailed /\ refunded' = debited
              \/ CancelRefund
              \/ SweepRefund
              \/ \E p \in Phase : ObserverRefund(p) /\ refunded' = run[p].amount
<1>0. /\ debited \in Nat /\ refunded \in 0..debited /\ Owed \in Nat /\ Owed <= Charge
      /\ Charge \in Nat
  BY OwedType, ChargeType DEF TypeOK
<1>1. ASSUME NEW a \in Nat, a >= Owed, Refund(a)
      PROVE  /\ refunded' = refunded \/ (refunded = 0 /\ debited > 0 /\ refunded' >= Owed)
             /\ refunded' = refunded \/ refunded' = a
  BY <1>0, <1>1 DEF Refund
<1>2. CASE DebitScan \/ UNCHANGED money
  BY <1>2 DEF DebitScan, money
<1>3. CASE EnqueueFailed
  BY <1>0, <1>1, <1>3 DEF EnqueueFailed, Creation
<1>4. CASE CancelRefund
  <2>1. canceller.amount \in Nat /\ canceller.amount >= Owed
    BY <1>4 DEF CancelRefund, TypeOK, Amounts
  <2> QED BY <1>1, <1>4, <2>1 DEF CancelRefund, money
<1>5. CASE SweepRefund
  <2>1. sweeper.amount \in Nat /\ sweeper.amount >= Owed
    BY <1>5 DEF SweepRefund, TypeOK, Amounts
  <2> QED BY <1>1, <1>5, <2>1 DEF SweepRefund
<1>6. ASSUME NEW p \in Phase, ObserverRefund(p)
      PROVE  /\ refunded' = refunded \/ (refunded = 0 /\ debited > 0 /\ refunded' >= Owed)
             /\ refunded' = refunded \/ refunded' = run[p].amount
  <2>1. run[p].amount \in Nat /\ run[p].amount >= Owed
    BY <1>6, RunType DEF ObserverRefund, Amounts
  <2> QED BY <1>1, <1>6, <2>1 DEF ObserverRefund
<1> QED BY <1>2, <1>3, <1>4, <1>5, <1>6, MoneyWriters

(* Only createScan debits.                                                 *)
LEMMA DebitWriter ==
    ASSUME [Next]_vars
    PROVE  UNCHANGED debited \/ DebitScan
BY MoneyWriters DEF money, EnqueueFailed, CancelRefund, SweepRefund, ObserverRefund, Refund

(* Who pays out does so after the end that makes it due.                   *)
LEMMA EndersStep ==
    ASSUME TypeOK, TypeOK', Fresh, Quiet, Creation, OneJob, OneWinner, Enders, Amounts,
           [Next]_vars
    PROVE  Enders'
<1>0. /\ debited \in Nat /\ refunded \in 0..debited
      /\ {"CANCELLED", "FAILED", "TIMED_OUT", "COMPLETED"} = Terminal /\ NoScan \notin Terminal
      /\ NoScan \notin ScanState
  BY Moves DEF TypeOK, Terminal
<1>1. ASSUME canceller'.step # "idle" PROVE state' \in {"CANCELLED", NoScan}
  <2>1. CASE CancelMove
    BY <2>1 DEF CancelMove
  <2>2. CASE ~CancelMove
    <3>1. canceller.step # "idle"
      BY <1>1, <2>2, CancellerWriters
         DEF Cancel, CancelPublish, CancelRead, CancelRefund, CrashCancel
    <3>2. state \in {"CANCELLED", NoScan} /\ creator # "start"
      BY <3>1 DEF Enders, Fresh
    <3>3. CASE state = "CANCELLED"
      BY <1>0, <3>3, EndIsFinal
    <3>4. CASE state = NoScan
      BY <1>0, <3>2, <3>4, StateMoves, MoveTypes DEF CreateRow
    <3> QED BY <3>2, <3>3, <3>4
  <2> QED BY <2>1, <2>2
<1>2. ASSUME sweeper'.step = "refund" PROVE state' = "TIMED_OUT"
  <2>1. sweeper.step = "refund" \/ state' = "TIMED_OUT"
    <3>1. /\ IdleSweeper.step = "idle"
          /\ sweeper \in [step : {"idle", "picked", "read", "refund"},
                          observed : ScanState \cup {NoScan}, amount : Nat]
      BY DEF IdleSweeper, TypeOK
    <3>2. CASE SweepSelect \/ SweepRead
      BY <1>2, <3>1, <3>2 DEF SweepSelect, SweepRead
    <3>3. CASE SweepMove
      BY <1>2, <3>1, <3>3 DEF SweepMove
    <3>4. CASE SweepRefund \/ CrashSweep
      BY <1>2, <3>1, <3>4 DEF SweepRefund, CrashSweep
    <3> QED BY <1>2, <3>2, <3>3, <3>4, SweeperWriters DEF Sweep
  <2> QED BY <1>0, <2>1, EndIsFinal DEF Enders
<1>3. ASSUME NEW p \in Phase, run'[p].step \in {"observe", "refund"}
      PROVE  state' = "FAILED" \/ (state' = "COMPLETED" /\ p = PD)
  <2>1. CASE run[p].step \in {"observe", "refund"}
    <3>1. state = "FAILED" \/ (state = "COMPLETED" /\ p = PD)
      BY <2>1 DEF Enders
    <3> QED BY <1>0, <3>1, EndIsFinal
  <2>2. CASE run[p].step \notin {"observe", "refund"}
    BY <1>3, <2>2, PayersMove
  <2> QED BY <2>1, <2>2
<1>4. ASSUME state' = NoScan PROVE debited' = 0
  <2>1. CASE DebitRefused
    BY <2>1, DebitWriter DEF DebitRefused, Creation, DebitScan
  <2>2. CASE ~DebitRefused
    <3>1. state = NoScan
      BY <1>0, <1>4, <2>2, StateMoves, MoveTypes
    <3>2. debited = 0 /\ ~DebitScan
      BY <1>0, <3>1, MoveTypes DEF Enders, DebitScan, Creation
    <3> QED BY <3>2, DebitWriter
  <2> QED BY <2>1, <2>2
<1>5. ASSUME refunded' > 0
      PROVE  state' \in Terminal \/ (used' = {} /\ creator' \in {"failing", "done"})
  <2>1. CASE refunded > 0
    <3>1. debited > 0
      BY <1>0, <2>1
    <3>2. ~DebitRefused
      BY <3>1 DEF DebitRefused, Creation
    <3>3. CASE state \in Terminal
      BY <3>2, <3>3, EndIsFinal
    <3>4. CASE used = {} /\ creator \in {"failing", "done"}
      <4>1. creator' \in {"failing", "done"} /\ ~EnqueueFirst
        BY <3>4, CreatorWriters DEF Create, CreateRow, DebitScan, DebitRefused, EnqueueFirst,
           EnqueueFailed, MarkFailed, CrashCreate
      <4>2. used' = {}
        <5>1. \A p \in Phase : StartJob(p) \/ Walk(p) => Acts(p)
          BY DEF Acts, handlePhase
        <5> QED BY <3>4, <4>1, <5>1, NobodyActs, JobWriters
      <4> QED BY <4>1, <4>2
    <3> QED BY <2>1, <3>3, <3>4 DEF Enders
  <2>2. CASE refunded = 0
    <3>0. debited > 0
      BY <1>0, <1>5, <2>2, Paid
    <3>1. CASE EnqueueFailed
      BY <2>2, <3>1 DEF EnqueueFailed, Quiet, queue
    <3>2. CASE CancelRefund
      <4>1. state \in {"CANCELLED", NoScan} /\ state' = state
        BY <3>2 DEF CancelRefund, Enders, scanVars
      <4> QED BY <1>0, <3>0, <4>1 DEF Enders
    <3>3. CASE SweepRefund
      BY <1>0, <3>3 DEF SweepRefund, Enders, scanVars
    <3>4. ASSUME NEW p \in Phase, ObserverRefund(p) PROVE state' \in Terminal
      BY <1>0, <3>4 DEF ObserverRefund, Enders, scanVars
    <3> QED BY <1>5, <2>2, <3>1, <3>2, <3>3, <3>4, Paid
  <2> QED BY <1>0, <2>1, <2>2
<1> QED BY <1>1, <1>2, <1>3, <1>4, <1>5 DEF Enders

-----------------------------------------------------------------------------
(* What they pay.                                                          *)

(* Before the row is written nobody has read an amount.                    *)
LEMMA NothingRead ==
    ASSUME TypeOK, Fresh, Quiet, OneJob, OneWinner, CreateRow
    PROVE  /\ debited' = 0 /\ refunded' = 0
           /\ canceller' = [step |-> "idle", amount |-> 0, debitTx |-> FALSE]
           /\ sweeper' = IdleSweeper
           /\ \A p \in Phase : run'[p] = NoRun
           /\ state' = "QUEUED"
<1>1. creator = "start" /\ used = {}
  BY DEF CreateRow, Quiet
<1>2. debited = 0 /\ refunded = 0
  BY <1>1 DEF Fresh, TypeOK
<1>3. debited' = debited /\ refunded' = refunded
  BY DEF CreateRow, money
<1> QED BY <1>1, <1>2, <1>3, NobodyActs DEF CreateRow, Fresh, Quiet

(* An amount that was read as owed covers whatever is owed later.          *)
LEMMA AmountsStep ==
    ASSUME TypeOK, TypeOK', Fresh, Quiet, Creation, OneJob, OneWinner, OneResult, Amounts,
           [Next]_vars
    PROVE  Amounts'
<1>0. Owed \in Nat /\ Charge \in Nat /\ Owed <= Charge
  BY OwedType, ChargeType
<1>1. CASE CreateRow
  <2>1. requested' \ gated' \subseteq Area
    BY DEF TypeOK
  <2>2. IsFiniteSet(requested' \ gated')
    BY <2>1, LifecycleAssumption, FS_Subset
  <2>3. [m \in requested' \ gated' |-> Cost[m]] \in [requested' \ gated' -> Nat]
    BY <2>1, LifecycleAssumption
  <2>4. Charge' \in Nat
    BY <2>2, <2>3, TotalType DEF Charge
  <2> QED BY <1>1, <2>4, NothingRead DEF Amounts, IdleSweeper, NoRun
<1>2. CASE ~CreateRow
  <2>0. Owed' \in Nat /\ Owed' <= Owed /\ Charge' = Charge
    BY <1>2, RequestWriters, ResultsMove, OwedFalls
  <2>1. debited' \in {0, Charge'}
    BY <2>0, DebitWriter DEF Amounts, DebitScan
  <2>2. canceller'.amount <= Charge' /\ (canceller'.step = "read" => canceller'.amount >= Owed')
    <3>0. /\ canceller \in [step : {"idle", "moved", "published", "read", "done"},
                            amount : Nat, debitTx : BOOLEAN]
          /\ canceller.amount <= Charge /\ (canceller.step = "read" => canceller.amount >= Owed)
      BY DEF TypeOK, Amounts
    <3>1. CASE CancelMove \/ CancelPublish \/ CrashCancel
      BY <1>0, <2>0, <3>0, <3>1 DEF CancelMove, CancelPublish, CrashCancel
    <3>2. CASE CancelRead
      BY <1>0, <2>0, <3>0, <3>2 DEF CancelRead
    <3>3. CASE CancelRefund
      BY <1>0, <2>0, <3>3 DEF CancelRefund
    <3>4. CASE UNCHANGED canceller
      BY <1>0, <2>0, <3>0, <3>4
    <3> QED BY <3>1, <3>2, <3>3, <3>4, CancellerWriters DEF Cancel
  <2>3. /\ sweeper'.amount <= Charge'
        /\ sweeper'.step \in {"read", "refund"} => sweeper'.amount >= Owed'
    <3>0. /\ sweeper \in [step : {"idle", "picked", "read", "refund"},
                          observed : ScanState \cup {NoScan}, amount : Nat]
          /\ sweeper.amount <= Charge
          /\ sweeper.step \in {"read", "refund"} => sweeper.amount >= Owed
      BY DEF TypeOK, Amounts
    <3>1. IdleSweeper.step = "idle" /\ IdleSweeper.amount = 0
      BY DEF IdleSweeper
    <3>2. CASE SweepSelect
      BY <1>0, <2>0, <3>0, <3>2 DEF SweepSelect
    <3>3. CASE SweepRead
      BY <1>0, <2>0, <3>0, <3>3 DEF SweepRead
    <3>4. CASE SweepMove
      BY <1>0, <2>0, <3>0, <3>1, <3>4 DEF SweepMove
    <3>5. CASE SweepRefund \/ CrashSweep
      BY <1>0, <2>0, <3>1, <3>5 DEF SweepRefund, CrashSweep
    <3>6. CASE UNCHANGED sweeper
      BY <1>0, <2>0, <3>0, <3>6
    <3> QED BY <3>2, <3>3, <3>4, <3>5, <3>6, SweeperWriters DEF Sweep
  <2>4. ASSUME NEW p \in Phase
        PROVE  run'[p].amount <= Charge' /\ (run'[p].step = "refund" => run'[p].amount >= Owed')
    <3>0. /\ run[p].amount \in Nat /\ run'[p].amount \in Nat /\ run[p].amount <= Charge
          /\ run[p].step = "refund" => run[p].amount >= Owed
      <4>1. run'[p].amount \in Nat
        BY RunTypes DEF RunRecord
      <4> QED BY <4>1, RunType DEF Amounts
    <3>1. run'[p].amount \in {run[p].amount, 0, Owed}
      <4>1. CASE Kept(p)
        BY <4>1 DEF Kept
      <4>2. CASE StartJob(p)
        BY <4>2, StartRun DEF RunTo
      <4>3. CASE Enter(p)
        BY <4>3, EnterRun DEF RunTo, Returned
      <4>4. CASE FinishModule(p)
        BY <4>4, FinishRun DEF RunTo
      <4>5. CASE Walk(p)
        BY <4>5, WalkRun DEF RunTo, Returned, Same
      <4>6. CASE ScheduleDeadline(p) \/ ObserverRefund(p)
        BY <4>6, RunMoves DEF ScheduleDeadline, ObserverRefund, Returned, RunTo
      <4>7. CASE Throw(p)
        BY <4>7, ThrowRun DEF RunTo
      <4>8. CASE Fail(p)
        BY <4>8, EndRun DEF Fail, Returned, Same, RunTo
      <4>9. CASE Observe(p)
        BY <4>9, ObserveRun DEF Returned, RunTo
      <4>10. CASE CrashRun(p)
        BY <4>10, CrashedRun DEF RunTo
      <4>11. CASE p = PM /\ Synthesize
        BY <4>11, RunMoves DEF Synthesize, Returned, PM, RunTo
      <4>12. CASE p = PD /\ Complete
        BY <4>12, EndRun DEF Complete, Returned, Same, PD, RunTo
      <4> QED BY <4>1, <4>2, <4>3, <4>4, <4>5, <4>6, <4>7, <4>8, <4>9, <4>10, <4>11, <4>12,
                 OneMover DEF Acts, handlePhase
    <3>2. run'[p].step = "refund" => run'[p].amount >= Owed
      BY <1>0, <3>0, PayersMove
    <3> QED BY <1>0, <2>0, <3>0, <3>1, <3>2
  <2> QED BY <2>1, <2>2, <2>3, <2>4 DEF Amounts
<1> QED BY <1>1, <1>2

(* When an audit completes, all its areas are in, so that what it owes is  *)
(* settled; only its own observer pays.                                    *)
LEMMA CompletedStep ==
    ASSUME TypeOK, TypeOK', Fresh, Quiet, Creation, OneJob, OneWinner, OneResult, WalkSound,
           Pinned, Enders, Amounts, Completed, [Next]_vars
    PROVE  Completed'
<1> SUFFICES ASSUME state' = "COMPLETED"
             PROVE  /\ refunded' <= Owed'
                    /\ \A p \in Phase : run'[p].step = "refund" => run'[p].amount <= Owed'
  BY DEF Completed
<1>0. /\ ~CreateRow /\ Owed \in Nat /\ Owed' \in Nat /\ Owed' <= Owed /\ Charge' = Charge
      /\ refunded \in Nat /\ debited \in Nat
  <2>1. ~CreateRow
    BY DEF CreateRow
  <2>2. Owed' \in Nat /\ Owed' <= Owed /\ Charge' = Charge
    BY <2>1, RequestWriters, ResultsMove, OwedFalls
  <2> QED BY <2>1, <2>2, OwedType DEF TypeOK
<1>1. CASE state = "COMPLETED"
  <2>1. ASSUME NEW p \in Phase PROVE run[p].todo = {}
    <3>1. Pending(p) => state \in {p} \cup Ended
      BY DEF Pinned
    <3>2. "COMPLETED" \notin {p} \cup Ended
      BY PhaseSet DEF Ended, P1, P2, P3, PM, PD
    <3> QED BY <1>1, <3>1, <3>2 DEF Pending
  <2>2. results' = results /\ requested' = requested
    BY <1>0, <2>1, ResultWriters, RequestWriters DEF FinishModule
  <2>3. Owed' = Owed
    BY <1>0, <2>2 DEF Owed, Scored
  <2>4. used # {} /\ creator = "done" /\ canceller.step = "idle" /\ sweeper.step # "refund"
    <3>1. used # {}
      BY <1>1, Moves DEF Quiet, Terminal
    <3>2. canceller.step = "idle" /\ sweeper.step # "refund"
      BY <1>1, Moves DEF Enders, Terminal
    <3> QED BY <3>1, <3>2 DEF Quiet
  <2>5. refunded' <= Owed'
    <3>1. \A p \in Phase : ObserverRefund(p) => run[p].amount <= Owed
      BY <1>1 DEF Completed, ObserverRefund
    <3> QED BY <1>0, <1>1, <2>3, <2>4, <3>1, Paid
            DEF Completed, EnqueueFailed, CancelRefund, SweepRefund
  <2>6. ASSUME NEW p \in Phase, run'[p].step = "refund" PROVE run'[p].amount <= Owed'
    BY <1>0, <1>1, <2>3, <2>6, PayersMove DEF Completed
  <2> QED BY <2>5, <2>6
<1>2. CASE state # "COMPLETED"
  <2>0. Terminal = {"CANCELLED", "FAILED", "TIMED_OUT", "COMPLETED"} /\ NoScan # "COMPLETED"
    BY Moves DEF Terminal
  <2>1. canTransition(state, "COMPLETED")
    BY <1>0, <1>2, <2>0, StateMoves
  <2>2. state = PD /\ state \notin Terminal
    BY <2>1, Moves DEF Terminal, Ended, P1, P2, P3, PM, PD
  <2>3. refunded = 0
    <3>1. used # {}
      BY <2>2, Moves DEF Quiet, PD, ScanState
    <3> QED BY <1>0, <2>2, <3>1 DEF Enders
  <2>4. \A p \in Phase : run[p].step \notin {"observe", "refund"}
    BY <2>0, <2>2 DEF Enders
  <2>5. refunded' = refunded
    <3>1. \A p \in Phase : ~ObserverRefund(p)
      BY <2>4 DEF ObserverRefund
    <3>2. ~EnqueueFailed /\ ~CancelRefund /\ ~SweepRefund
      BY <1>2 DEF EnqueueFailed, CancelRefund, SweepRefund, scanVars
    <3> QED BY <3>1, <3>2, Paid
  <2>6. \A p \in Phase : run'[p].step # "refund"
    BY <2>4, PayersMove
  <2> QED BY <1>0, <2>3, <2>5, <2>6
<1> QED BY <1>1, <1>2

(* A refund that a crash struck stays marked as abandoned.                 *)
LEMMA AbandonedStays ==
    ASSUME TypeOK, [Next]_vars, abandoned
    PROVE  abandoned'
BY FaultWriters, Zenon DEF ghosts, Crash, CrashCreate, CrashCancel, CrashResume, CrashRun,
   CrashSweep, Fault

(* Whoever ends a charged audit is on his way to its refund until it is    *)
(* paid.                                                                   *)
LEMMA CoveredStep ==
    ASSUME TypeOK, TypeOK', Fresh, Quiet, Creation, OneJob, OneWinner, OneResult,
           Enders, Amounts, Covered, [Next]_vars
    PROVE  Covered'
<1>0. /\ Owed \in Nat /\ Charge \in Nat /\ Owed <= Charge
      /\ refunded \in 0..debited /\ debited \in Nat /\ refunded' \in 0..debited' /\ debited' \in Nat
  BY OwedType, ChargeType DEF TypeOK
<1>1. CASE CreateRow
  BY <1>1, NothingRead DEF Covered
<1>2. CASE ~CreateRow
  <2>0. Owed' \in Nat /\ Owed' <= Owed /\ Charge' = Charge
    BY <1>2, RequestWriters, ResultsMove, OwedFalls
  <2>1. /\ refunded' = refunded \/ (refunded = 0 /\ debited > 0 /\ refunded' >= Owed)
        /\ refunded >= Owed => refunded' >= Owed'
    BY <1>0, <2>0, Paid
  <2>2. refunded' > 0 => refunded' >= Owed'
    BY <1>0, <2>0, <2>1 DEF Covered
  <2>3. ASSUME canceller'.debitTx PROVE refunded' >= Owed'
    <3>1. CASE CancelRefund
      <4>1. canceller.amount \in Nat /\ canceller.amount >= Owed /\ (debited > 0)
        <5>1. debited > 0
          BY <2>3, <3>1, Zenon DEF CancelRefund
        <5> QED BY <3>1, <5>1 DEF CancelRefund, TypeOK, Amounts
      <4>2. CASE canceller.amount > 0
        BY <1>0, <2>0, <2>1, <2>2, <3>1, <4>1, <4>2 DEF CancelRefund, Refund
      <4>3. CASE ~(canceller.amount > 0)
        BY <1>0, <2>0, <4>1, <4>3
      <4> QED BY <4>2, <4>3
    <3>2. CASE ~CancelRefund
      <4>1. canceller'.debitTx = canceller.debitTx
        BY <3>2, CancellerWriters DEF Cancel, CancelMove, CancelPublish, CancelRead, CrashCancel, TypeOK
      <4> QED BY <2>1, <2>3, <4>1 DEF Covered
    <3> QED BY <3>1, <3>2
  <2>4. ASSUME debited' > 0, ~abandoned', state' \in {"FAILED", "COMPLETED"}
        PROVE  refunded' >= Owed' \/ \E p \in Phase : run'[p].step \in {"observe", "refund"}
    <3>1. CASE state' = state
      <4>1. ~DebitScan
        BY <2>4, <3>1 DEF DebitScan, Creation
      <4>2. debited > 0 /\ ~abandoned
        BY <2>4, <4>1, DebitWriter, AbandonedStays
      <4>3. CASE refunded >= Owed
        BY <2>1, <4>3
      <4>4. ASSUME NEW p \in Phase, run[p].step \in {"observe", "refund"}
            PROVE  refunded' >= Owed' \/ \E q \in Phase : run'[q].step \in {"observe", "refund"}
        <5>1. CASE ObserverRefund(p)
          <6>1. run[p].amount \in Nat /\ run[p].amount >= Owed
            BY <5>1, RunType DEF ObserverRefund, Amounts
          <6> QED BY <1>0, <2>0, <2>1, <2>2, <4>2, <5>1, <6>1 DEF ObserverRefund, Refund
        <5>2. CASE Owed = 0
          BY <1>0, <2>0, <5>2
        <5> QED BY <2>4, <4>4, <5>1, <5>2, PayersLeave
      <4> QED BY <2>4, <3>1, <4>2, <4>3, <4>4 DEF Covered
    <3>2. CASE state' # state
      <4>1. CASE MarkFailed
        <5>1. refunded = debited /\ debited' = debited
          BY <4>1, DebitWriter DEF MarkFailed, Creation, DebitScan
        <5> QED BY <1>0, <2>1, <2>2, <2>4, <5>1
      <4>2. ASSUME NEW p \in Phase, Fail(p) PROVE run'[p].step = "observe"
        BY <3>2, <4>2, EndRun DEF Fail, Same, RunTo
      <4>3. CASE Complete
        BY <3>2, <4>3, EndRun, PhaseSet DEF Complete, Same, RunTo, PD
      <4>4. ~CancelMove /\ ~SweepMove /\ ~DebitRefused /\ \A w \in Who : ~Resume(w)
        BY <2>4, <3>2, Moves DEF CancelMove, SweepMove, DebitRefused, Resume, Terminal
      <4>5. ASSUME NEW p \in Phase PROVE ~Enter(p) /\ ~Walk(p)
        <5>1. {"FAILED", "COMPLETED"} \cap (Phase \cup {"AWAITING_QUESTIONNAIRE"}) = {}
          BY PhaseSet DEF P1, P2, P3, PM, PD
        <5>2. MODULE_RUNNING_PHASES \subseteq Phase
          BY PhaseSet DEF MODULE_RUNNING_PHASES, P1, P2, P3, PM, PD
        <5>3. ~Enter(p)
          BY <2>4, <3>2, <5>1, EnterRun
        <5>4. ~Walk(p)
          BY <2>4, <3>2, <5>1, <5>2, WalkRun
        <5> QED BY <5>3, <5>4
      <4> QED BY <1>2, <3>2, <4>1, <4>2, <4>3, <4>4, <4>5, StateWriters
    <3> QED BY <3>1, <3>2
  <2>5. ASSUME debited' > 0, ~abandoned', state' = "TIMED_OUT"
        PROVE  refunded' >= Owed' \/ sweeper'.step = "refund"
    <3>1. CASE state' = state
      <4>1. ~DebitScan
        BY <2>5, <3>1 DEF DebitScan, Creation
      <4>2. debited > 0 /\ ~abandoned
        BY <2>5, <4>1, DebitWriter, AbandonedStays
      <4>3. CASE refunded >= Owed
        BY <2>1, <4>3
      <4>4. CASE sweeper.step = "refund"
        <5>1. CASE SweepRefund
          <6>1. sweeper.amount \in Nat /\ sweeper.amount >= Owed
            BY <5>1 DEF SweepRefund, TypeOK, Amounts
          <6> QED BY <1>0, <2>0, <2>1, <2>2, <4>2, <5>1, <6>1 DEF SweepRefund, Refund
        <5>2. ~CrashSweep
          <6>1. CrashSweep => abandoned'
            BY <4>4, Zenon DEF CrashSweep, Fault
          <6> QED BY <2>5, <6>1
        <5>3. CASE UNCHANGED sweeper
          BY <4>4, <5>3
        <5> QED BY <4>4, <5>1, <5>2, <5>3, SweeperWriters
                DEF Sweep, SweepSelect, SweepRead, SweepMove
      <4> QED BY <2>5, <3>1, <4>2, <4>3, <4>4 DEF Covered
    <3>2. CASE state' # state
      <4>1. CASE SweepMove
        <5>1. /\ sweeper \in [step : {"idle", "picked", "read", "refund"},
                              observed : ScanState \cup {NoScan}, amount : Nat]
              /\ sweeper.amount >= Owed
          BY <4>1 DEF SweepMove, TypeOK, Amounts
        <5>2. CASE sweeper.amount > 0
          BY <3>2, <4>1, <5>1, <5>2 DEF SweepMove
        <5>3. CASE ~(sweeper.amount > 0)
          BY <1>0, <2>0, <5>1, <5>3
        <5> QED BY <5>2, <5>3
      <4>2. ~MarkFailed /\ ~CancelMove /\ ~DebitRefused /\ \A w \in Who : ~Resume(w)
        BY <2>5, <3>2, Moves DEF CancelMove, MarkFailed, DebitRefused, Resume, Terminal
      <4>3. ~Complete
        BY <2>5, <3>2, EndRun, PhaseSet DEF Complete, PD
      <4>4. ASSUME NEW p \in Phase PROVE ~Enter(p) /\ ~Walk(p) /\ ~Fail(p)
        <5>1. "TIMED_OUT" \notin Phase \cup {"AWAITING_QUESTIONNAIRE"}
          BY PhaseSet DEF P1, P2, P3, PM, PD
        <5>2. MODULE_RUNNING_PHASES \subseteq Phase
          BY PhaseSet DEF MODULE_RUNNING_PHASES, P1, P2, P3, PM, PD
        <5>3. ~Enter(p)
          BY <2>5, <3>2, <5>1, EnterRun
        <5>4. ~Walk(p)
          BY <2>5, <3>2, <5>1, <5>2, WalkRun
        <5>5. ~Fail(p)
          BY <2>5, <3>2, EndRun DEF Fail
        <5> QED BY <5>3, <5>4, <5>5
      <4> QED BY <1>2, <3>2, <4>1, <4>2, <4>3, <4>4, StateWriters
    <3> QED BY <3>1, <3>2
  <2> QED BY <2>2, <2>3, <2>4, <2>5 DEF Covered
<1> QED BY <1>1, <1>2

-----------------------------------------------------------------------------
(* The invariant holds before the scan is created.                         *)
LEMMA InitStep == Init => IInv
<1> SUFFICES ASSUME Init PROVE IInv
  OBVIOUS
<1>0. /\ {P1, P2, P3, PM, PD} \cap {"COMPLETED", "FAILED", "CANCELLED", "TIMED_OUT"} = {}
      /\ P2 \in Phase
  BY PhaseSet DEF P1, P2, P3, PM, PD
<1>1. /\ \A p \in Phase : /\ run[p] = NoRun /\ run[p].step = "none" /\ run[p].todo = {}
                          /\ run[p].amount = 0
      /\ run \in [Phase -> RunRecord]
  BY DEF Init, NoRun, RunRecord, Steps
<1>2. TypeOK
  <2>1. run \in [Phase -> [step : {"none", "entry", "work", "pause", "fail",
                                   "observe", "refund", "done"},
                           read : ScanState \cup {NoScan}, already : BOOLEAN,
                           current : Phase \cup {NoScan}, todo : SUBSET Area,
                           cancelled : BOOLEAN, amount : Nat]]
    BY <1>1 DEF RunRecord, Steps
  <2>2. /\ state \in ScanState \cup {NoScan} /\ started \in BOOLEAN /\ overdue \in BOOLEAN
        /\ requested \in SUBSET Area /\ gated \in SUBSET requested
        /\ results \in [Area -> {"none", "scored", "unscored"}]
        /\ abandoned \in BOOLEAN
    BY DEF Init
  <2>3. /\ debited \in Nat /\ refunded \in 0..debited /\ faults \in 0..MaxFaults
        /\ jobs \subseteq [phase : Phase, already : BOOLEAN] /\ used \subseteq Phase
        /\ deadline \in {"none", "scheduled", "fired"}
        /\ intent \in {"none", "SUPPLIED", "SKIPPED", "DEFAULTED"}
        /\ creator \in {"start", "row", "debited", "failing", "done"}
    BY LifecycleAssumption DEF Init
  <2>4. /\ canceller \in [step : {"idle", "moved", "published", "read", "done"},
                          amount : Nat, debitTx : BOOLEAN]
        /\ resumer \in [{"user", "timer"} -> {"idle", "won", "wrote", "done"}]
        /\ sweeper \in [step : {"idle", "picked", "read", "refund"},
                        observed : ScanState \cup {NoScan}, amount : Nat]
    BY DEF Init
  <2> QED BY <2>1, <2>2, <2>3, <2>4 DEF TypeOK
<1>3. Charge \in Nat
  BY <1>2, ChargeType
<1>4. Fresh /\ Quiet /\ Creation
  BY DEF Init, Fresh, Quiet, Creation, IdleSweeper
<1>5. OneJob /\ WalkSound
  BY <1>1 DEF Init, OneJob, WalkSound
<1>6. OneWinner
  BY DEF Init, OneWinner, Who
<1>7. OneResult /\ Pinned
  <2>1. requested = {} /\ \A p \in Phase : modulesForPhase(p, requested) = {}
    BY PhaseAreas DEF Init
  <2> QED BY <1>0, <1>1, <2>1 DEF OneResult, Pinned, Pending
<1>8. Enders /\ Amounts
  BY <1>1, <1>3 DEF Init, Enders, Amounts
<1>9. Completed /\ Covered
  BY <1>1, MoveTypes, Moves DEF Init, Completed, Covered, Terminal
<1> QED BY <1>2, <1>4, <1>5, <1>6, <1>7, <1>8, <1>9 DEF IInv

(* Every step keeps the invariant.                                         *)
LEMMA InvStep == IInv /\ [Next]_vars => IInv'
<1> SUFFICES ASSUME IInv, [Next]_vars PROVE IInv'
  OBVIOUS
<1>1. /\ TypeOK /\ Fresh /\ Quiet /\ Creation /\ OneJob /\ OneWinner /\ OneResult /\ WalkSound
      /\ Pinned /\ Enders /\ Amounts /\ Completed /\ Covered
  BY DEF IInv
<1>2. TypeOK'
  BY <1>1, TypeStep
<1>3. Fresh' /\ Quiet' /\ Creation'
  BY <1>1, <1>2, QuietStep, CreationStep
<1>4. OneJob' /\ OneWinner'
  BY <1>1, <1>2, OneJobStep, OneWinnerStep
<1>5. OneResult' /\ WalkSound' /\ Pinned'
  BY <1>1, <1>2, OneResultStep, WalkStep, PinnedStep
<1>6. Enders' /\ Amounts'
  BY <1>1, <1>2, EndersStep, AmountsStep
<1>7. Completed' /\ Covered'
  BY <1>1, <1>2, CompletedStep, CoveredStep
<1> QED BY <1>2, <1>3, <1>4, <1>5, <1>6, <1>7 DEF IInv

(* The inductive invariant holds in every interleaving.                    *)
LEMMA Inductive == Spec => []IInv
BY InitStep, InvStep, PTL DEF Spec

-----------------------------------------------------------------------------
(* Scan rows, ledger movements, job records and processes keep to the      *)
(* values the code knows; no refund exceeds its debit.                     *)
THEOREM TypeCorrect == Spec => []TypeOK
<1>1. IInv => TypeOK BY DEF IInv
<1> QED BY Inductive, <1>1, PTL

(* Whoever ended the audit (cancel request, failScan, completion, sweep or *)
(* the failed creation), once nobody owes it a refund any more the areas   *)
(* that were not delivered have been refunded, unless the debtor died or   *)
(* the cancellation came before the charge.                                *)
THEOREM TerminalRefundMade == Spec => []UndeliveredRefunded
<1>1. IInv => UndeliveredRefunded
  <2> SUFFICES ASSUME IInv, Settled, debited > 0, ~ abandoned, state = "CANCELLED" => canceller.debitTx
               PROVE  refunded >= Owed
    BY DEF UndeliveredRefunded
  <2>1. /\ state \in {"COMPLETED", "FAILED", "CANCELLED", "TIMED_OUT"} /\ sweeper.step # "refund"
        /\ \A p \in Phase : run[p].step \notin {"observe", "refund"}
    BY DEF Settled, Terminal
  <2> QED BY <2>1 DEF IInv, Covered
<1> QED BY Inductive, <1>1, PTL

(* No sweep, cancellation or failed creation that lost its race to the     *)
(* completion pays out, and the completion's own observer pays no more     *)
(* than the undelivered areas.                                             *)
THEOREM CompletionPaysNoMore == Spec => []CompletedIsPaidFor
<1>1. IInv => CompletedIsPaidFor
  BY DEF IInv, Completed, CompletedIsPaidFor
<1> QED BY Inductive, <1>1, PTL

(* Phase 2's job is queued by the winner of the questionnaire race after   *)
(* its INSERT of the intent, so the phase never runs without one.          *)
THEOREM DesignHasIntent == Spec => []IntentBeforeDesign
<1>1. IInv => IntentBeforeDesign
  <2> SUFFICES ASSUME IInv, run[P2].step = "work" PROVE intent # "none"
    BY DEF IntentBeforeDesign, P2
  <2>1. P2 \in used
    BY PhaseSet DEF IInv, OneJob, NoRun
  <2> QED BY <2>1 DEF IInv, OneWinner
<1> QED BY Inductive, <1>1, PTL

(* The answer, the skip and the deadline job store one intent between      *)
(* them: the loser of the guarded move never overwrites the winner's.      *)
THEOREM IntentIsFinal == Spec => IntentWrittenOnce
<1>1. IInv /\ [Next]_vars => [intent # "none" => intent' = intent]_vars
  BY IntentKept DEF IInv
<1> QED BY Inductive, <1>1, PTL DEF Spec, IntentWrittenOnce

(* Each area's result is stored at most once, by the one invocation of the *)
(* one job of its phase, through crashes, thrown areas and cancellations.  *)
THEOREM ResultIsFinal == Spec => ResultWrittenOnce
<1>1. IInv /\ [Next]_vars =>
        [\A m \in Area : results[m] # "none" => results'[m] = results[m]]_vars
  BY ResultsMove DEF IInv
<1> QED BY Inductive, <1>1, PTL DEF Spec, ResultWrittenOnce

(* The lifecycle implements ScanMachine: creation, the API's own UPDATEs,  *)
(* transition(), the sweep and the crashes, interleaved in any way, take   *)
(* the row only along the table of moves.                                  *)
THEOREM RowFollowsTable == Spec => LegalMoves
<1>1. Init => Machine!MInit
  BY DEF Init, Machine!MInit
<1>2. \A s, t : canTransition(s, t) => s \in Machine!ScanState /\ Machine!canTransition(s, t)
  BY DEF canTransition, ALLOWED, ScanState, Phase, PHASE_ORDER, Terminal, Ended,
     Machine!canTransition, Machine!ALLOWED, Machine!ScanState, Machine!Phase,
     Machine!PHASE_ORDER, Machine!Terminal, Machine!Ended
<1>3. IInv /\ [Next]_vars => [Machine!MNext]_state
  <2> SUFFICES ASSUME IInv, [Next]_vars PROVE [Machine!MNext]_state
    OBVIOUS
  <2>1. \/ state' = state
        \/ state = NoScan /\ state' = "QUEUED"
        \/ state \in {"QUEUED", "CANCELLED"} /\ state' = NoScan
        \/ canTransition(state, state')
    BY StateMoves DEF IInv
  <2> QED BY <1>2, <2>1
          DEF Machine!MNext, Machine!Created, Machine!Moved, Machine!Removed
<1> QED BY Inductive, <1>1, <1>3, PTL DEF Spec, LegalMoves, Machine!MSpec

-----------------------------------------------------------------------------
(* What the end of every started audit rests on: the row cannot escape the *)
(* sweep for ever.                                                         *)

(* How far an audit has come.                                              *)
Stage(s) ==
    CASE s = "QUEUED"                 -> 0
      [] s = P1                       -> 1
      [] s = "AWAITING_QUESTIONNAIRE" -> 2
      [] s = P2                       -> 3
      [] s = P3                       -> 4
      [] s = PM                       -> 5
      [] s = PD                       -> 6
      [] OTHER                        -> 7

(* Once an audit is charged or has started, its row is not deleted, and    *)
(* each move takes it to a later stage.  The sweep's guarded move, which   *)
(* fails when the row has moved since it was selected, so fails at most    *)
(* seven times.                                                            *)
StageOnlyGrows ==
    (debited > 0 \/ started) /\ state' # state =>
        /\ state \in ScanState /\ state' \in ScanState
        /\ Stage(state) < Stage(state') /\ Stage(state') <= 7

(* The table of moves has no cycle: every edge leads to a later stage.     *)
LEMMA EdgesLeadOn ==
    ASSUME NEW s, NEW t, canTransition(s, t)
    PROVE  s \in ScanState /\ t \in ScanState /\ Stage(s) < Stage(t) /\ Stage(t) <= 7
<1>1. s \in {"QUEUED", "AWAITING_QUESTIONNAIRE", P1, P2, P3, PM, PD} \cup Terminal
  BY PhaseSet DEF canTransition, ScanState
<1>2. /\ s = "QUEUED" => t \in {P1} \cup Ended
      /\ s = P1 => t \in {"AWAITING_QUESTIONNAIRE", P2} \cup Ended
      /\ s = "AWAITING_QUESTIONNAIRE" => t \in {P2} \cup Ended
      /\ s = P2 => t \in {P3} \cup Ended
      /\ s = P3 => t \in {PM} \cup Ended
      /\ s = PM => t \in {PD} \cup Ended
      /\ s = PD => t \in {"COMPLETED"} \cup Ended
      /\ s \notin Terminal
  BY DEF canTransition, ALLOWED, Terminal, P1, P2, P3, PM, PD
<1>3. t \in ScanState
  BY <1>1, <1>2, PhaseSet DEF ScanState, Ended, Terminal
<1>4. Stage(s) < Stage(t) /\ Stage(t) <= 7
  BY <1>1, <1>2 DEF Stage, Ended, P1, P2, P3, PM, PD
<1> QED BY <1>3, <1>4 DEF canTransition

(* A charged or started audit only moves on, whoever moves it: a phase     *)
(* handler, the questionnaire, cancel or the timeout sweep.                *)
THEOREM AuditOnlyMovesOn == Spec => [][StageOnlyGrows]_vars
<1>1. IInv /\ [Next]_vars => [StageOnlyGrows]_vars
  <2> SUFFICES ASSUME IInv, [Next]_vars, debited > 0 \/ started, state' # state
               PROVE  /\ state \in ScanState /\ state' \in ScanState
                      /\ Stage(state) < Stage(state') /\ Stage(state') <= 7
    BY DEF StageOnlyGrows
  <2>1. creator = "done" \/ debited > 0
    BY DEF IInv, Quiet
  <2>2. ~ CreateRow
    BY <2>1 DEF CreateRow, IInv, Fresh
  <2>3. ~ DebitRefused
    BY <2>1 DEF DebitRefused, IInv, Creation
  <2>4. canTransition(state, state')
    BY <2>2, <2>3, StateMoves DEF IInv
  <2> QED BY <2>4, EdgesLeadOn
<1> QED BY Inductive, <1>1, PTL DEF Spec


=============================================================================
