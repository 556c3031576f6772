------------------------- MODULE CreditLedgerProofs -------------------------
(***************************************************************************)
(* Theorems about CreditLedger, for any number of callers, lots, movements *)
(* and any amounts.  The inductive invariant says what row locks buy: the  *)
(* rows a transaction holds are its own, so what it has read of them still *)
(* stands when it writes.                                                  *)
(***************************************************************************)
EXTENDS CreditLedger, TotalsTheorems

(* A transaction's hold on the rows: what it means to take from a row it   *)
(* has locked, and is still there; the debit it reverses is one, and has   *)
(* not been reversed.                                                      *)
HoldsRows(c) ==
    /\ c.step # "lock" => c.held = {} /\ c.take = NoLots
    /\ c.held \subseteq DOMAIN lots
    /\ \A l \in LotId :
         c.take[l] > 0 => l \in c.held /\ c.take[l] <= lots[l].remaining
    /\ \A i \in DOMAIN c.todo : c.todo[i] \in DOMAIN lots

HoldsDebit(c) ==
    /\ c.op = "none" => c.step = "idle"
    /\ c.op \in {"debit", "refund"} => c.amount > 0
    /\ c.op = "refund" => c.target \in DOMAIN txs
    /\ c.op = "refund" /\ c.step \in {"insert", "lock"} =>
         /\ txs[c.target].type = "DEBIT"
         /\ c.amount <= txs[c.target].amount
    /\ c.op = "refund" /\ c.step = "lock" => ~ Refunded(c.target)

(* Two transactions hold no row in common and do not reverse one debit.    *)
Reverses(c, d) == c.op = "refund" /\ c.step = "lock" /\ c.target = d

Excludes(c, d) ==
    /\ c.held \cap d.held = {}
    /\ ~ (Reverses(c, d.target) /\ Reverses(d, c.target))

MovementOK(m, n) ==
    /\ m.type = "DEBIT" => m.amount > 0
    /\ \A l \in LotId : m.alloc[l] > 0 => l \in 1..n

MovementsOK == \A t \in DOMAIN txs : MovementOK(txs[t], Len(lots))

CallsOK ==
    /\ \A p \in Proc : HoldsRows(call[p]) /\ HoldsDebit(call[p])
    /\ \A p, q \in Proc : p # q => Excludes(call[p], call[q])

IInv == TypeOK /\ LotBounds /\ MovementsOK /\ RefundedOnce /\ CallsOK

-----------------------------------------------------------------------------
(* The rows stand and one caller moves on: enough that its new record      *)
(* holds its rows and debit and excludes every other call.                 *)
LEMMA CallStep ==
    ASSUME IInv, NEW p \in Proc, NEW c \in Call,
           call' = [call EXCEPT ![p] = c],
           UNCHANGED <<clock, periodEnd, lots, txs>>,
           HoldsRows(c), HoldsDebit(c),
           \A q \in Proc \ {p} : Excludes(c, call[q])
    PROVE  IInv'
<1>1. TypeOK'
  BY DEF IInv, TypeOK
<1>2. LotBounds' /\ MovementsOK' /\ RefundedOnce'
  BY DEF IInv, LotBounds, MovementsOK, RefundedOnce
<1>3. \A q \in Proc : call'[q] = IF q = p THEN c ELSE call[q]
  BY DEF IInv, TypeOK
<1>4. \A q \in Proc : HoldsRows(call[q])' /\ HoldsDebit(call[q])'
  BY <1>3 DEF IInv, CallsOK, HoldsRows, HoldsDebit, Refunded
<1>5. \A q, r \in Proc : q # r => Excludes(call[q], call[r])'
  BY <1>3 DEF IInv, CallsOK, Excludes, Reverses
<1> QED BY <1>1, <1>2, <1>4, <1>5 DEF IInv, CallsOK

(* A call without locks is compatible with every other.                    *)
LEMMA Unlocked ==
    ASSUME NEW c \in Call, c.step # "lock", HoldsRows(c),
           NEW d \in Call
    PROVE  Excludes(c, d)
BY DEF HoldsRows, Excludes, Reverses

(* The record of a caller outside any transaction holds nothing.           *)
LEMMA IdleOK ==
    /\ Idle \in Call
    /\ HoldsRows(Idle) /\ HoldsDebit(Idle)
    /\ Idle.step = "idle" /\ Idle.op = "none" /\ Idle.held = {}
    /\ Idle.take = NoLots /\ Idle.todo = <<>>
BY LedgerAssumption DEF Idle, Call, NoLots, HoldsRows, HoldsDebit

(* The record of a transaction that has just begun holds nothing.          *)
LEMMA BeginOK ==
    ASSUME NEW op \in {"debit", "refund", "expire"}, NEW amount \in Nat,
           NEW target \in Nat, NEW now \in Nat, NEW attempt \in 0..MaxAttempts,
           op # "expire" => amount > 0,
           op = "refund" => target \in DOMAIN txs
    PROVE  LET c == Begin(op, amount, target, now, attempt)
           IN  /\ c \in Call /\ c.step = "begin" /\ c.op = op
               /\ HoldsRows(c) /\ HoldsDebit(c)
<1> DEFINE c == Begin(op, amount, target, now, attempt)
<1>1. /\ c \in Call /\ c.op = op /\ c.step = "begin"
      /\ c.amount = amount /\ c.target = target
      /\ c.held = {} /\ c.take = NoLots /\ c.todo = <<>>
  BY LedgerAssumption DEF Begin, Call, NoLots
<1> HIDE DEF c
<1>2. HoldsRows(c)
  BY <1>1 DEF HoldsRows, NoLots
<1>3. HoldsDebit(c)
  BY <1>1 DEF HoldsDebit
<1> QED BY <1>1, <1>2, <1>3 DEF c

(* A caller that returns or is rolled back without writing preserves the   *)
(* invariant.                                                              *)
LEMMA ReturnStep ==
    ASSUME IInv, NEW p \in Proc, Return(p),
           UNCHANGED <<clock, periodEnd, lots, txs>>
    PROVE  IInv'
<1>1. \A q \in Proc : call[q] \in Call
  BY DEF IInv, TypeOK
<1> QED BY <1>1, IdleOK, Unlocked, CallStep DEF Return

-----------------------------------------------------------------------------
(* One lemma per action that leaves the rows alone.                        *)

(* A transaction that begins, or begins again after a deadlock, preserves  *)
(* the invariant.                                                          *)
LEMMA BeginStep ==
    ASSUME IInv, NEW p \in Proc,
           NEW op \in {"debit", "refund", "expire"}, NEW amount \in Nat,
           NEW target \in Nat, NEW now \in Nat, NEW attempt \in 0..MaxAttempts,
           op # "expire" => amount > 0,
           op = "refund" => target \in DOMAIN txs,
           call' = [call EXCEPT ![p] = Begin(op, amount, target, now, attempt)],
           UNCHANGED <<clock, periodEnd, lots, txs>>
    PROVE  IInv'
<1>1. \A q \in Proc : call[q] \in Call
  BY DEF IInv, TypeOK
<1> DEFINE c == Begin(op, amount, target, now, attempt)
<1>2. c \in Call /\ c.step = "begin" /\ HoldsRows(c) /\ HoldsDebit(c)
  BY BeginOK
<1> HIDE DEF c
<1>3. \A q \in Proc : Excludes(c, call[q])
  BY <1>1, <1>2, Unlocked
<1> QED BY <1>2, <1>3, CallStep DEF c

(* debit(), refundPartial() and expireRenewedLots() may be called.         *)
LEMMA CallSteps ==
    ASSUME IInv, NEW p \in Proc, CallDebit(p) \/ CallRefund(p) \/ CallExpire(p)
    PROVE  IInv'
<1>1. CASE CallDebit(p)
  <2>1. PICK amount \in CallAmount :
          call' = [call EXCEPT ![p] = Begin("debit", amount, 0, 0, 1)]
    BY <1>1 DEF CallDebit
  <2>2. amount \in Nat /\ amount > 0 /\ 1 \in 0..MaxAttempts
    BY LedgerAssumption
  <2>3. UNCHANGED <<clock, periodEnd, lots, txs>>
    BY <1>1 DEF CallDebit
  <2> QED BY <2>1, <2>2, <2>3, BeginStep
<1>2. CASE CallRefund(p)
  <2>1. PICK d \in DOMAIN txs, credits \in CallAmount :
          call' = [call EXCEPT ![p] = Begin("refund", credits, d, 0, 1)]
    BY <1>2 DEF CallRefund
  <2>2. credits \in Nat /\ credits > 0 /\ d \in Nat /\ 1 \in 0..MaxAttempts
    BY LedgerAssumption DEF IInv, TypeOK
  <2>3. UNCHANGED <<clock, periodEnd, lots, txs>>
    BY <1>2 DEF CallRefund
  <2> QED BY <2>1, <2>2, <2>3, BeginStep
<1>3. CASE CallExpire(p)
  <2>1. PICK asOf \in Boundary :
          call' = [call EXCEPT ![p] = Begin("expire", 0, 0, asOf, 1)]
    BY <1>3 DEF CallExpire
  <2>2. asOf \in Nat /\ 1 \in 0..MaxAttempts
    BY LedgerAssumption
  <2>3. UNCHANGED <<clock, periodEnd, lots, txs>>
    BY <1>3 DEF CallExpire
  <2> QED BY <2>1, <2>2, <2>3, BeginStep
<1> QED BY <1>1, <1>2, <1>3

(* A deadlock victim that is retried or gives up preserves the invariant.  *)
LEMMA DeadlockVictimStep ==
    ASSUME IInv, NEW p \in Proc, DeadlockVictim(p)
    PROVE  IInv'
<1>1. call[p] \in Call /\ HoldsDebit(call[p])
  BY DEF IInv, TypeOK, CallsOK
<1>2. call[p].step # "idle"
  BY DEF DeadlockVictim, WaitCycle, WaitsFor
<1>3. call[p].op # "none"
  BY <1>1, <1>2 DEF HoldsDebit
<1>4. /\ call[p].op \in {"debit", "refund", "expire"} /\ call[p].amount \in Nat
      /\ call[p].target \in Nat /\ call[p].now \in Nat
      /\ call[p].op # "expire" => call[p].amount > 0
      /\ call[p].op = "refund" => call[p].target \in DOMAIN txs
  BY <1>1, <1>3 DEF Call, HoldsDebit
<1>5. CASE call[p].attempt < MaxAttempts
  <2>1. call[p].attempt + 1 \in 0..MaxAttempts
    BY <1>1, <1>5, LedgerAssumption DEF Call
  <2>2. call' = [call EXCEPT ![p] = Begin(call[p].op, call[p].amount,
                     call[p].target, call[p].now, call[p].attempt + 1)]
    BY <1>5 DEF DeadlockVictim
  <2>3. UNCHANGED <<clock, periodEnd, lots, txs>>
    BY DEF DeadlockVictim
  <2> QED BY <1>4, <2>1, <2>2, <2>3, BeginStep
<1>6. CASE ~ (call[p].attempt < MaxAttempts)
  BY <1>6, ReturnStep DEF DeadlockVictim
<1> QED BY <1>5, <1>6

(* A caller that dies preserves the invariant: its transaction rolls back. *)
LEMMA CrashStep ==
    ASSUME IInv, NEW p \in Proc, Crash(p)
    PROVE  IInv'
BY ReturnStep DEF Crash

(* An ORDER BY of some lots is a sequence of lots.                         *)
LEMMA InOrderType ==
    ASSUME NEW n \in Nat, NEW S \in SUBSET (1..n), NEW Before(_, _),
           NEW q \in InOrder(S, Before)
    PROVE  q \in Seq(S)
<1>1. IsFiniteSet(S)
  <2>1. IsFiniteSet(1..n)
    BY FS_Interval
  <2> QED BY <2>1, FS_Subset
<1>2. Cardinality(S) \in Nat
  BY <1>1, FS_CardinalityType
<1>3. q \in [1..Cardinality(S) -> S]
  BY DEF InOrder
<1> QED BY <1>2, <1>3

(* The statement's snapshot: rows to lock, none locked yet.                *)
LEMMA SnapshotStep ==
    ASSUME IInv, NEW p \in Proc, NEW c \in Call,
           c.step = "lock", c.op = call[p].op, c.amount = call[p].amount,
           c.target = call[p].target, c.held = {}, c.take = NoLots,
           call[p].step # "idle", c.op \in {"debit", "expire"},
           \A i \in DOMAIN c.todo : c.todo[i] \in DOMAIN lots,
           call' = [call EXCEPT ![p] = c],
           UNCHANGED <<clock, periodEnd, lots, txs>>
    PROVE  IInv'
<1>1. HoldsRows(c)
  BY DEF HoldsRows, NoLots
<1>2. HoldsDebit(c)
  BY DEF IInv, CallsOK, HoldsDebit
<1>3. \A q \in Proc : Excludes(c, call[q])
  BY DEF Excludes, Reverses
<1> QED BY <1>1, <1>2, <1>3, CallStep

(* debit()'s SELECT preserves the invariant.                               *)
LEMMA SelectDebitStep ==
    ASSUME IInv, NEW p \in Proc, SelectDebit(p)
    PROVE  IInv'
<1> DEFINE b == [call[p] EXCEPT !.step = "lock", !.now = clock]
           S == {l \in DOMAIN lots : Qualifies(b, l)}
<1>1. /\ call[p] \in Call /\ HoldsRows(call[p])
      /\ call[p].op = "debit" /\ call[p].step = "begin"
  BY DEF IInv, TypeOK, CallsOK, SelectDebit
<1>2. PICK q \in InOrder(S, ConsumedBefore) :
        call' = [call EXCEPT ![p] = [b EXCEPT !.todo = q]]
  BY DEF SelectDebit
<1>3. Len(lots) \in Nat /\ DOMAIN lots = 1..Len(lots) /\ DOMAIN lots \subseteq LotId
  BY LedgerAssumption DEF IInv, TypeOK, LotId
<1>4. q \in Seq(S)
  <2> HIDE DEF b
  <2> QED BY <1>3, InOrderType
<1>5. q \in Seq(LotId) /\ \A i \in DOMAIN q : q[i] \in DOMAIN lots
  <2> HIDE DEF b
  <2> QED BY <1>3, <1>4
<1> DEFINE c == [b EXCEPT !.todo = q]
<1>6. /\ c \in Call /\ c.step = "lock" /\ c.op = call[p].op
      /\ c.amount = call[p].amount /\ c.target = call[p].target
      /\ c.held = call[p].held /\ c.take = call[p].take /\ c.todo = q
  BY <1>1, <1>5 DEF IInv, TypeOK, Call
<1>7. c.held = {} /\ c.take = NoLots
  BY <1>1, <1>6 DEF HoldsRows
<1>8. UNCHANGED <<clock, periodEnd, lots, txs>>
  BY DEF SelectDebit
<1> HIDE DEF b, c
<1> QED BY <1>1, <1>2, <1>5, <1>6, <1>7, <1>8, SnapshotStep DEF c

(* expireRenewedLots()'s SELECT preserves the invariant.                   *)
LEMMA SelectExpireStep ==
    ASSUME IInv, NEW p \in Proc, SelectExpire(p)
    PROVE  IInv'
<1> DEFINE S == {l \in DOMAIN lots : Qualifies(call[p], l)}
<1>1. /\ call[p] \in Call /\ HoldsRows(call[p])
      /\ call[p].op = "expire" /\ call[p].step = "begin"
  BY DEF IInv, TypeOK, CallsOK, SelectExpire
<1>2. PICK q \in InOrder(S, ById) :
        call' = [call EXCEPT ![p].step = "lock", ![p].todo = q]
  BY DEF SelectExpire
<1>3. Len(lots) \in Nat /\ DOMAIN lots = 1..Len(lots) /\ DOMAIN lots \subseteq LotId
  BY LedgerAssumption DEF IInv, TypeOK, LotId
<1>4. q \in Seq(S)
  BY <1>3, InOrderType
<1>5. q \in Seq(LotId) /\ \A i \in DOMAIN q : q[i] \in DOMAIN lots
  BY <1>3, <1>4
<1> DEFINE c == [call[p] EXCEPT !.step = "lock", !.todo = q]
<1>6. /\ c \in Call /\ c.step = "lock" /\ c.op = call[p].op
      /\ c.amount = call[p].amount /\ c.target = call[p].target
      /\ c.held = call[p].held /\ c.take = call[p].take /\ c.todo = q
  BY <1>1, <1>5 DEF Call
<1>7. c.held = {} /\ c.take = NoLots
  BY <1>1, <1>6 DEF HoldsRows
<1>8. UNCHANGED <<clock, periodEnd, lots, txs>> /\ call' = [call EXCEPT ![p] = c]
  BY <1>2 DEF SelectExpire, IInv, TypeOK
<1> HIDE DEF c
<1> QED BY <1>1, <1>5, <1>6, <1>7, <1>8, SnapshotStep

(* refundPartial()'s reads and refusals preserve the invariant: past them  *)
(* the target is a debit of at least the credits asked for.                *)
LEMMA ReadOriginalStep ==
    ASSUME IInv, NEW p \in Proc, ReadOriginal(p)
    PROVE  IInv'
<1>1. /\ call[p] \in Call /\ HoldsRows(call[p]) /\ HoldsDebit(call[p])
      /\ call[p].op = "refund" /\ call[p].step = "begin"
      /\ UNCHANGED <<clock, periodEnd, lots, txs>>
  BY DEF IInv, TypeOK, CallsOK, ReadOriginal
<1>2. CASE ~ Refundable(call[p].target, call[p].amount)
  BY <1>1, <1>2, ReturnStep DEF ReadOriginal
<1>3. CASE Refundable(call[p].target, call[p].amount)
  <2> DEFINE c == [call[p] EXCEPT !.step = "insert"]
  <2>1. /\ c \in Call /\ c.step = "insert" /\ c.op = "refund"
        /\ c.amount = call[p].amount /\ c.target = call[p].target
        /\ c.held = call[p].held /\ c.take = call[p].take /\ c.todo = call[p].todo
    BY <1>1 DEF Call
  <2>2. call' = [call EXCEPT ![p] = c]
    BY <1>3 DEF ReadOriginal
  <2> HIDE DEF c
  <2>3. HoldsRows(c)
    BY <1>1, <2>1 DEF HoldsRows
  <2>4. HoldsDebit(c)
    BY <1>1, <1>3, <2>1 DEF HoldsDebit, Refundable
  <2>5. \A q \in Proc : Excludes(c, call[q])
    BY <2>1, <2>3, Unlocked DEF IInv, TypeOK
  <2> QED BY <1>1, <2>1, <2>2, <2>3, <2>4, <2>5, CallStep
<1> QED BY <1>2, <1>3

(* The unique index on reversesId lets one reversal of a debit through.    *)
LEMMA InsertReversalStep ==
    ASSUME IInv, NEW p \in Proc, InsertReversal(p)
    PROVE  IInv'
<1>1. /\ call[p] \in Call /\ HoldsRows(call[p]) /\ HoldsDebit(call[p])
      /\ call[p].op = "refund" /\ call[p].step = "insert"
      /\ UNCHANGED <<clock, periodEnd, lots, txs>>
  BY DEF IInv, TypeOK, CallsOK, InsertReversal
<1>2. CASE Refunded(call[p].target)
  BY <1>1, <1>2, ReturnStep DEF InsertReversal
<1>3. CASE ~ Refunded(call[p].target)
  <2> DEFINE S == {l \in LotId : txs[call[p].target].alloc[l] > 0}
  <2>1. PICK q \in InOrder(S, ById) :
          call' = [call EXCEPT ![p].step = "lock", ![p].todo = q]
    BY <1>3 DEF InsertReversal
  <2>2. call[p].target \in DOMAIN txs
    BY <1>1 DEF HoldsDebit
  <2>3. S \in SUBSET (1..Len(lots)) /\ Len(lots) \in Nat /\ DOMAIN lots = 1..Len(lots)
    BY <2>2 DEF IInv, TypeOK, MovementsOK, MovementOK
  <2>4. q \in Seq(S)
    <3> HIDE DEF S
    <3> QED BY <2>3, InOrderType
  <2>5. q \in Seq(LotId) /\ \A i \in DOMAIN q : q[i] \in DOMAIN lots
    BY <2>3, <2>4
  <2> DEFINE c == [call[p] EXCEPT !.step = "lock", !.todo = q]
  <2>6. /\ c \in Call /\ c.step = "lock" /\ c.op = "refund"
        /\ c.amount = call[p].amount /\ c.target = call[p].target
        /\ c.held = call[p].held /\ c.take = call[p].take /\ c.todo = q
    BY <1>1, <2>5 DEF Call
  <2>7. call' = [call EXCEPT ![p] = c]
    BY <2>1 DEF IInv, TypeOK
  <2> HIDE DEF c, S
  <2>8. HoldsRows(c)
    BY <1>1, <2>5, <2>6 DEF HoldsRows, NoLots
  <2>9. HoldsDebit(c)
    BY <1>1, <1>3, <2>6 DEF HoldsDebit
  <2>10. \A r \in Proc \ {p} : Excludes(c, call[r])
    <3>1. \A r \in Proc \ {p} : ~ ReversalInserted(r, call[p].target)
      BY <1>1 DEF InsertReversal, Blocked, WaitsFor
    <3>2. c.held = {}
      BY <1>1, <2>6 DEF HoldsRows
    <3> QED BY <2>6, <3>1, <3>2 DEF Excludes, Reverses, ReversalInserted
  <2> QED BY <1>1, <2>6, <2>7, <2>8, <2>9, <2>10, CallStep
<1> QED BY <1>2, <1>3

(* What a debit or a sweep means to take from a row is there to be taken.  *)
LEMMA ShareBound ==
    ASSUME NEW c \in Call, NEW l \in DOMAIN lots, lots \in Seq(Lot)
    PROVE  Share(c, l) \in Nat /\ Share(c, l) <= lots[l].remaining
<1>1. lots[l] \in Lot
  OBVIOUS
<1>2. lots[l].remaining \in Nat
  BY <1>1 DEF Lot
<1>3. c.amount \in Nat /\ c.available \in Nat
  BY DEF Call
<1> QED BY <1>2, <1>3 DEF Share, Min2, Max2

(* Locking a row preserves the invariant: nobody else holds it, and what   *)
(* will be taken from it is there.                                         *)
LEMMA LockNextStep ==
    ASSUME IInv, NEW p \in Proc, LockNext(p)
    PROVE  IInv'
<1> DEFINE b == call[p]
           l == Head(b.todo)
<1>1. /\ b \in Call /\ HoldsRows(b) /\ HoldsDebit(b)
      /\ b.step = "lock" /\ b.todo # <<>> /\ ~ Blocked(p)
      /\ UNCHANGED <<clock, periodEnd, lots, txs>>
  BY DEF IInv, TypeOK, CallsOK, LockNext
<1>2. /\ b.todo \in Seq(LotId) /\ b.held \in SUBSET LotId
      /\ b.take \in [LotId -> Nat] /\ b.available \in Nat
  BY <1>1 DEF Call
<1>3. /\ l \in DOMAIN lots /\ l \in LotId /\ Tail(b.todo) \in Seq(LotId)
      /\ \A i \in DOMAIN Tail(b.todo) : Tail(b.todo)[i] \in DOMAIN lots
  <2>1. l = b.todo[1] /\ 1 \in DOMAIN b.todo /\ l \in LotId
    BY <1>1, <1>2
  <2>2. Tail(b.todo) \in Seq(LotId)
    BY <1>1, <1>2
  <2>3. \A i \in DOMAIN Tail(b.todo) :
           i + 1 \in DOMAIN b.todo /\ Tail(b.todo)[i] = b.todo[i + 1]
    BY <1>1, <1>2
  <2>4. \A i \in DOMAIN b.todo : b.todo[i] \in DOMAIN lots
    BY <1>1 DEF HoldsRows
  <2> QED BY <2>1, <2>2, <2>3, <2>4
<1>4. lots \in Seq(Lot) /\ lots[l].remaining \in Nat
  <2>1. lots \in Seq(Lot)
    BY DEF IInv, TypeOK
  <2>2. lots[l] \in Lot
    BY <1>3, <2>1
  <2> QED BY <2>1, <2>2 DEF Lot
<1>5. \A q \in Proc \ {p} : l \notin call[q].held
  BY <1>1 DEF Blocked, WaitsFor
<1>6. Share(b, l) \in Nat /\ Share(b, l) <= lots[l].remaining
  BY <1>1, <1>3, <1>4, ShareBound
<1>7. ASSUME NEW c \in Call, c.step = "lock", c.op = b.op, c.amount = b.amount,
             c.target = b.target, c.todo = Tail(b.todo), c.held = b.held \cup {l},
             \/ c.take = b.take
             \/ c.take = [b.take EXCEPT ![l] = Share(b, l)],
             call' = [call EXCEPT ![p] = c]
      PROVE  IInv'
  <2>1. HoldsRows(c)
    BY <1>1, <1>2, <1>3, <1>6, <1>7 DEF HoldsRows
  <2>2. HoldsDebit(c)
    BY <1>1, <1>7 DEF HoldsDebit
  <2>3. \A q \in Proc \ {p} : Excludes(c, call[q])
    BY <1>1, <1>5, <1>7 DEF IInv, CallsOK, Excludes, Reverses
  <2> QED BY <1>1, <1>7, <2>1, <2>2, <2>3, CallStep
<1>8. CASE Qualifies(b, l)
  <2> DEFINE c == [b EXCEPT !.todo = Tail(@), !.held = @ \cup {l},
                            !.available = @ + lots[l].remaining,
                            !.take[l] = Share(b, l)]
  <2>1. call' = [call EXCEPT ![p] = c]
    BY <1>8 DEF LockNext
  <2>2. /\ c \in Call /\ c.step = "lock" /\ c.op = b.op /\ c.amount = b.amount
        /\ c.target = b.target /\ c.todo = Tail(b.todo) /\ c.held = b.held \cup {l}
        /\ c.take = [b.take EXCEPT ![l] = Share(b, l)]
    <3> DEFINE sh == Share(b, l)
               take == [b.take EXCEPT ![l] = sh]
               rem == lots[l].remaining
    <3>1. take \in [LotId -> Nat]
      BY <1>2, <1>3, <1>6
    <3>2. c = [b EXCEPT !.todo = Tail(b.todo), !.held = b.held \cup {l},
                        !.available = b.available + rem, !.take = take]
      BY <1>1 DEF Call
    <3> HIDE DEF b, c, take, rem
    <3>3. b.available + rem \in Nat
      <4>1. b.available \in Nat
        BY <1>2
      <4>2. rem \in Nat
        BY <1>4 DEF rem
      <4> QED BY <4>1, <4>2
    <3> QED BY <1>1, <1>2, <1>3, <3>1, <3>2, <3>3 DEF Call, take
  <2> QED BY <1>7, <2>1, <2>2
<1>9. CASE ~ Qualifies(b, l)
  <2> DEFINE c == [b EXCEPT !.todo = Tail(@), !.held = @ \cup {l}]
  <2>1. call' = [call EXCEPT ![p] = c]
    BY <1>9 DEF LockNext
  <2>2. /\ c \in Call /\ c.step = "lock" /\ c.op = b.op /\ c.amount = b.amount
        /\ c.target = b.target /\ c.todo = Tail(b.todo) /\ c.held = b.held \cup {l}
        /\ c.take = b.take
    BY <1>1, <1>2, <1>3, <1>4 DEF Call
  <2> QED BY <1>7, <2>1, <2>2
<1> QED BY <1>8, <1>9

-----------------------------------------------------------------------------
(* Rows change: only in rows the writer holds, and a movement is recorded. *)

(* Every open transaction either ends here or has no part in what changes. *)
Bystander(q, H, d) ==
    \/ call'[q] = Idle
    \/ /\ call'[q] = call[q]
       /\ call[q].held \cap H = {}
       /\ ~ Reverses(call[q], d)

(* A commit that appends movement m and changes only lots in H or new ones *)
(* preserves the invariant, when no other caller holds a row of H or       *)
(* reverses the same debit.                                                *)
LEMMA RowsStep ==
    ASSUME IInv, NEW H \in SUBSET LotId, NEW m \in Movement,
           call' \in [Proc -> Call],
           \A q \in Proc : Bystander(q, H, m.reverses),
           lots' \in Seq(Lot), Len(lots) <= Len(lots'), Len(lots') <= MaxLots,
           \A l \in DOMAIN lots : l \in H \/ lots[l].remaining <= lots'[l].remaining,
           LotBounds',
           txs' = Append(txs, m),
           MovementOK(m, Len(lots')),
           m.reverses # 0 =>
             /\ m.reverses \in DOMAIN txs /\ txs[m.reverses].type = "DEBIT"
             /\ m.amount <= txs[m.reverses].amount /\ ~ Refunded(m.reverses),
           UNCHANGED <<clock, periodEnd>>
    PROVE  IInv'
<1>1. /\ lots \in Seq(Lot) /\ txs \in Seq(Movement) /\ Len(txs) \in Nat
      /\ Len(lots) \in Nat /\ Len(lots') \in Nat
      /\ DOMAIN lots = 1..Len(lots) /\ DOMAIN lots' = 1..Len(lots')
      /\ DOMAIN txs = 1..Len(txs)
  BY DEF IInv, TypeOK
<1>2. /\ txs' \in Seq(Movement)
      /\ DOMAIN txs' = DOMAIN txs \cup {Len(txs) + 1}
      /\ \A t \in DOMAIN txs : txs'[t] = txs[t]
      /\ txs'[Len(txs) + 1] = m
  BY <1>1
<1>3. DOMAIN lots \subseteq DOMAIN lots'
  BY <1>1
<1>4. TypeOK'
  BY <1>2 DEF IInv, TypeOK
<1>5. MovementsOK'
  <2>1. \A n \in DOMAIN lots : n \in 1..Len(lots')
    BY <1>1, <1>3
  <2>2. \A t \in DOMAIN txs : MovementOK(txs[t], Len(lots'))
    BY <1>1, <2>1 DEF IInv, MovementsOK, MovementOK
  <2> QED BY <1>2, <2>2 DEF MovementsOK, MovementOK
<1>6. RefundedOnce'
  <2>1. Len(txs) + 1 \notin DOMAIN txs /\ 0 \notin DOMAIN txs
    BY <1>1
  <2>2. ASSUME NEW t \in DOMAIN txs', txs'[t].reverses # 0
        PROVE  /\ txs'[t].reverses \in DOMAIN txs'
               /\ txs'[txs'[t].reverses].type = "DEBIT"
               /\ txs'[t].amount <= txs'[txs'[t].reverses].amount
               /\ \A u \in DOMAIN txs' : txs'[u].reverses = txs'[t].reverses => u = t
    <3>1. CASE t \in DOMAIN txs
      <4>1. /\ txs[t].reverses \in DOMAIN txs
            /\ txs[txs[t].reverses].type = "DEBIT"
            /\ txs[t].amount <= txs[txs[t].reverses].amount
            /\ \A u \in DOMAIN txs : txs[u].reverses = txs[t].reverses => u = t
        BY <1>2, <2>2, <3>1 DEF IInv, RefundedOnce
      <4>2. m.reverses # txs[t].reverses
        BY <1>2, <2>2, <3>1 DEF Refunded
      <4> QED BY <1>2, <2>2, <3>1, <4>1, <4>2
    <3>2. CASE t = Len(txs) + 1
      BY <1>2, <2>1, <2>2, <3>2 DEF Refunded
    <3> QED BY <1>2, <2>2, <3>1, <3>2
  <2> QED BY <2>2 DEF RefundedOnce
<1>7. ASSUME NEW q \in Proc PROVE HoldsRows(call[q])' /\ HoldsDebit(call[q])'
  <2>1. CASE call'[q] = Idle
    <3>1. HoldsRows(Idle)' /\ HoldsDebit(Idle)'
      BY DEF Idle, NoLots, HoldsRows, HoldsDebit
    <3> QED BY <2>1, <3>1 DEF HoldsRows, HoldsDebit
  <2>2. CASE call'[q] = call[q] /\ call[q].held \cap H = {}
                 /\ ~ Reverses(call[q], m.reverses)
    <3>1. HoldsRows(call[q]) /\ HoldsDebit(call[q]) /\ call[q] \in Call
      BY DEF IInv, CallsOK, TypeOK
    <3>2. \A l \in DOMAIN lots : lots[l].remaining \in Nat
      <4>1. \A l \in DOMAIN lots : lots[l] \in Lot
        BY <1>1
      <4> QED BY <4>1 DEF Lot
    <3>3. \A l \in DOMAIN lots' : lots'[l].remaining \in Nat
      <4>1. \A l \in DOMAIN lots' : lots'[l] \in Lot
        BY <1>1
      <4> QED BY <4>1 DEF Lot
    <3>4. \A l \in call[q].held : lots[l].remaining <= lots'[l].remaining
      BY <2>2, <3>1 DEF HoldsRows
    <3>5. \A l \in LotId : call[q].take[l] > 0 =>
             l \in call[q].held /\ call[q].take[l] <= lots'[l].remaining
      <4> SUFFICES ASSUME NEW l \in LotId, call[q].take[l] > 0
                   PROVE  l \in call[q].held /\ call[q].take[l] <= lots'[l].remaining
        OBVIOUS
      <4>1. l \in call[q].held /\ call[q].take[l] <= lots[l].remaining
        BY <3>1 DEF HoldsRows
      <4>2. l \in DOMAIN lots /\ l \in DOMAIN lots'
        BY <1>3, <3>1, <4>1 DEF HoldsRows
      <4>3. call[q].take[l] \in Nat
        BY <3>1 DEF Call
      <4> QED BY <3>2, <3>3, <3>4, <4>1, <4>2, <4>3
    <3>6. HoldsRows(call[q])'
      BY <1>3, <2>2, <3>1, <3>5 DEF HoldsRows
    <3>7. HoldsDebit(call[q])'
      BY <1>2, <2>2, <3>1 DEF HoldsDebit, Refunded, Reverses
    <3> QED BY <3>6, <3>7
  <2> QED BY <2>1, <2>2 DEF Bystander
<1>8. ASSUME NEW q \in Proc, NEW r \in Proc, q # r
      PROVE  Excludes(call[q], call[r])'
  <2>1. \A s \in Proc : call'[s] = Idle \/ call'[s] = call[s]
    BY DEF Bystander
  <2>2. Excludes(call[q], call[r])
    BY <1>8 DEF IInv, CallsOK
  <2> QED BY <2>1, <2>2, IdleOK DEF Excludes, Reverses
<1> QED BY <1>4, <1>5, <1>6, <1>7, <1>8 DEF IInv, CallsOK

(* No call reverses movement 0, the null reversesId.                       *)
LEMMA NoMovementZero ==
    ASSUME IInv, NEW q \in Proc
    PROVE  ~ Reverses(call[q], 0)
<1>1. txs \in Seq(Movement)
  BY DEF IInv, TypeOK
<1>2. 0 \notin DOMAIN txs
  BY <1>1
<1> QED BY <1>2 DEF IInv, CallsOK, HoldsDebit, Reverses

(* When p commits, its locks and its unique-index entry kept everybody     *)
(* else off what it writes.                                                *)
LEMMA CommitLeavesOthers ==
    ASSUME IInv, NEW p \in Proc, Return(p),
           NEW d, d = 0 \/ Reverses(call[p], d)
    PROVE  /\ call' \in [Proc -> Call]
           /\ \A q \in Proc : Bystander(q, call[p].held, d)
<1>1. /\ call' \in [Proc -> Call]
      /\ \A q \in Proc : call'[q] = IF q = p THEN Idle ELSE call[q]
  BY IdleOK DEF IInv, TypeOK, Return
<1>2. \A q \in Proc \ {p} : call[q].held \cap call[p].held = {}
  BY DEF IInv, CallsOK, Excludes
<1>3. \A q \in Proc \ {p} : ~ Reverses(call[q], d)
  BY NoMovementZero DEF IInv, CallsOK, Excludes, Reverses
<1> QED BY <1>1, <1>2, <1>3 DEF Bystander

(* The rows as the proofs of the commits use them.                         *)
LEMMA RowTypes ==
    ASSUME IInv
    PROVE  /\ lots \in Seq(Lot) /\ Len(lots) \in Nat /\ Len(lots) <= MaxLots
           /\ DOMAIN lots = 1..Len(lots) /\ DOMAIN lots \subseteq LotId
           /\ \A l \in DOMAIN lots :
                /\ lots[l] \in Lot /\ lots[l].kind \in CreditKind
                /\ lots[l].granted \in Nat /\ lots[l].remaining \in Nat
                /\ lots[l].expiresAt \in Nat /\ lots[l].remaining <= lots[l].granted
<1>1. /\ lots \in Seq(Lot) /\ Len(lots) \in Nat /\ Len(lots) <= MaxLots
      /\ DOMAIN lots = 1..Len(lots)
  BY DEF IInv, TypeOK
<1>2. DOMAIN lots \subseteq LotId
  BY <1>1, LedgerAssumption DEF LotId
<1>3. \A l \in DOMAIN lots : lots[l] \in Lot
  BY <1>1
<1>4. \A l \in DOMAIN lots : lots[l].remaining <= lots[l].granted
  BY DEF IInv, LotBounds
<1> QED BY <1>1, <1>2, <1>3, <1>4 DEF Lot

(* grantLot() preserves the invariant.                                     *)
LEMMA GrantStep ==
    ASSUME IInv, Grant
    PROVE  IInv'
<1>1. PICK amount \in GrantAmount, kind \in CreditKind, e \in Event \cup {NoEvent},
           expiresAt \in {Never} \cup {b \in Boundary : b > clock} :
             grantLot(amount, kind, expiresAt, e)
  BY DEF Grant
<1>2. amount \in Nat /\ expiresAt \in Nat /\ UNCHANGED <<clock, periodEnd, call>>
  BY <1>1, LedgerAssumption DEF Never, grantLot
<1>3. CASE EventGranted(e)
  <2>1. UNCHANGED <<clock, periodEnd, lots, txs, call>>
    BY <1>1, <1>2, <1>3 DEF grantLot
  <2> QED BY <2>1 DEF IInv, TypeOK, LotBounds, MovementsOK, RefundedOnce, CallsOK,
                      HoldsRows, HoldsDebit, Refunded, Excludes, Reverses
<1>4. CASE ~ EventGranted(e)
  <2> DEFINE m == [type |-> "GRANT", amount |-> amount, reverses |-> 0,
                   event |-> e, alloc |-> NoLots]
             n == [kind |-> kind, granted |-> amount, remaining |-> amount,
                   expiresAt |-> expiresAt]
  <2>1. txs' = Append(txs, m) /\ lots' = Append(lots, n)
    BY <1>1, <1>4 DEF grantLot
  <2>2. /\ m \in Movement /\ m.reverses = 0 /\ m.type = "GRANT" /\ m.alloc = NoLots
        /\ n \in Lot /\ n.remaining = amount /\ n.granted = amount
    BY <1>2 DEF Movement, NoLots, Lot
  <2> HIDE DEF m, n
  <2>3. /\ lots' \in Seq(Lot) /\ Len(lots') = Len(lots) + 1
        /\ DOMAIN lots' = DOMAIN lots \cup {Len(lots) + 1}
        /\ \A l \in DOMAIN lots : lots'[l] = lots[l]
        /\ lots'[Len(lots) + 1] = n
    BY <2>1, <2>2, RowTypes
  <2>4. Len(lots) < MaxLots
    BY DEF Grant
  <2>5. /\ Len(lots) <= Len(lots') /\ Len(lots') <= MaxLots
        /\ \A l \in DOMAIN lots : lots[l].remaining <= lots'[l].remaining
    BY <2>3, <2>4, RowTypes, LedgerAssumption
  <2>6. LotBounds'
    <3>1. n.remaining \in 0..n.granted
      BY <1>2, <2>2
    <3>2. \A l \in DOMAIN lots : lots[l].remaining \in 0..lots[l].granted
      BY DEF IInv, LotBounds
    <3> QED BY <2>3, <3>1, <3>2 DEF LotBounds
  <2>7. MovementOK(m, Len(lots'))
    BY <2>2 DEF MovementOK, NoLots
  <2>8. /\ call' \in [Proc -> Call]
        /\ \A q \in Proc : Bystander(q, {}, m.reverses)
    BY <1>2, <2>2, NoMovementZero DEF IInv, TypeOK, Bystander
  <2> QED BY <1>2, <2>1, <2>2, <2>3, <2>5, <2>6, <2>7, <2>8, RowsStep
<1> QED BY <1>3, <1>4

(* An UPDATE of a lot's remaining credits leaves its other columns.        *)
LEMMA SetRemaining ==
    ASSUME NEW lot \in Lot, NEW n \in Nat
    PROVE  LET a == [lot EXCEPT !.remaining = n]
           IN  /\ a \in Lot /\ a.remaining = n /\ a.granted = lot.granted
               /\ a.kind = lot.kind /\ a.expiresAt = lot.expiresAt
BY DEF Lot

(* debit()'s writes preserve the invariant: no lot is overdrawn.           *)
LEMMA CommitDebitStep ==
    ASSUME IInv, NEW p \in Proc, CommitDebit(p)
    PROVE  IInv'
<1> DEFINE c == call[p]
<1>1. /\ c \in Call /\ HoldsRows(c) /\ HoldsDebit(c) /\ c.op = "debit"
      /\ Return(p) /\ UNCHANGED <<clock, periodEnd>>
  BY DEF IInv, TypeOK, CallsOK, CommitDebit
<1>2. CASE c.available < c.amount
  BY <1>1, <1>2, ReturnStep DEF CommitDebit
<1>3. CASE ~ (c.available < c.amount)
  <2> DEFINE m == [type |-> "DEBIT", amount |-> c.amount, reverses |-> 0,
                   event |-> NoEvent, alloc |-> c.take]
             After(l) == [lots[l] EXCEPT !.remaining = @ - c.take[l]]
  <2>1. /\ txs' = Append(txs, m)
        /\ lots' = [l \in DOMAIN lots |-> After(l)]
    BY <1>3 DEF CommitDebit
  <2>2. /\ c.amount \in Nat /\ c.amount > 0 /\ c.take \in [LotId -> Nat]
        /\ c.held \in SUBSET LotId
    BY <1>1 DEF Call, HoldsDebit
  <2>3. /\ m \in Movement /\ m.reverses = 0 /\ m.amount = c.amount
        /\ m.alloc = c.take
    BY <2>2 DEF Movement
  <2>4. \A l \in DOMAIN lots :
          /\ c.take[l] \in Nat /\ c.take[l] <= lots[l].remaining
          /\ l \notin c.held => c.take[l] = 0
    BY <1>1, <2>2, RowTypes DEF HoldsRows
  <2>5. \A l \in DOMAIN lots :
          /\ After(l) \in Lot /\ After(l).granted = lots[l].granted
          /\ After(l).remaining = lots[l].remaining - c.take[l]
    <3> SUFFICES ASSUME NEW l \in DOMAIN lots
                 PROVE  /\ After(l) \in Lot /\ After(l).granted = lots[l].granted
                        /\ After(l).remaining = lots[l].remaining - c.take[l]
      OBVIOUS
    <3>1. lots[l] \in Lot /\ lots[l].remaining - c.take[l] \in Nat
      BY <2>4, RowTypes
    <3> QED BY <3>1, SetRemaining
  <2> HIDE DEF m, c, After
  <2>6. /\ lots' \in Seq(Lot) /\ Len(lots') = Len(lots) /\ DOMAIN lots' = DOMAIN lots
        /\ \A l \in DOMAIN lots : lots'[l] = After(l)
    BY <2>1, <2>5, RowTypes
  <2>7. \A l \in DOMAIN lots : l \in c.held \/ lots[l].remaining <= lots'[l].remaining
    BY <2>4, <2>5, <2>6, RowTypes
  <2>8. LotBounds'
    <3> SUFFICES ASSUME NEW l \in DOMAIN lots
                 PROVE  lots'[l].remaining \in 0..lots'[l].granted
      BY <2>6 DEF LotBounds
    <3>1. /\ lots[l].remaining \in Nat /\ lots[l].granted \in Nat
          /\ lots[l].remaining <= lots[l].granted
          /\ c.take[l] \in Nat /\ c.take[l] <= lots[l].remaining
      BY <2>4, RowTypes
    <3>2. /\ lots'[l].remaining = lots[l].remaining - c.take[l]
          /\ lots'[l].granted = lots[l].granted
      BY <2>5, <2>6
    <3> QED BY <3>1, <3>2
  <2>9. MovementOK(m, Len(lots'))
    BY <1>1, <2>2, <2>3, <2>6, RowTypes DEF MovementOK, HoldsRows
  <2>10. /\ call' \in [Proc -> Call]
         /\ \A q \in Proc : Bystander(q, c.held, m.reverses)
    BY <1>1, <2>3, CommitLeavesOthers DEF c
  <2>11. Len(lots) <= Len(lots') /\ Len(lots') <= MaxLots
    BY <2>6, RowTypes
  <2> QED BY <1>1, <2>1, <2>2, <2>3, <2>6, <2>7, <2>8, <2>9, <2>10, <2>11, RowsStep
<1> QED BY <1>2, <1>3

(* expireRenewedLots()'s writes preserve the invariant.                    *)
LEMMA CommitExpireStep ==
    ASSUME IInv, NEW p \in Proc, CommitExpire(p)
    PROVE  IInv'
<1> DEFINE c      == call[p]
           dead   == {l \in DOMAIN lots : c.take[l] > 0}
           deadAt == Min2(c.now, clock)
<1>1. /\ c \in Call /\ HoldsRows(c) /\ Return(p) /\ UNCHANGED <<clock, periodEnd>>
  BY DEF IInv, TypeOK, CallsOK, CommitExpire
<1>2. CASE dead = {}
  BY <1>1, <1>2, ReturnStep DEF CommitExpire
<1>3. CASE dead # {}
  <2> DEFINE m == [type |-> "EXPIRE", amount |-> c.available, reverses |-> 0,
                   event |-> NoEvent, alloc |-> NoLots]
             After(l) == IF l \in dead THEN Swept(lots[l], deadAt) ELSE lots[l]
  <2>1. /\ txs' = Append(txs, m)
        /\ lots' = [l \in DOMAIN lots |-> After(l)]
    BY <1>3 DEF CommitExpire
  <2>2. /\ c.available \in Nat /\ c.held \in SUBSET LotId /\ deadAt \in Nat
        /\ dead \subseteq c.held
    BY <1>1, RowTypes DEF Call, HoldsRows, Min2, IInv, TypeOK
  <2>3. /\ m \in Movement /\ m.reverses = 0 /\ m.type = "EXPIRE" /\ m.alloc = NoLots
    BY <2>2 DEF Movement, NoLots
  <2>4. \A l \in DOMAIN lots :
          /\ After(l) \in Lot /\ After(l).granted = lots[l].granted
          /\ After(l).remaining = IF l \in dead THEN 0 ELSE lots[l].remaining
    <3> SUFFICES ASSUME NEW l \in DOMAIN lots
                 PROVE  /\ After(l) \in Lot /\ After(l).granted = lots[l].granted
                        /\ After(l).remaining = IF l \in dead THEN 0 ELSE lots[l].remaining
      OBVIOUS
    <3>1. lots[l] \in Lot /\ lots[l].expiresAt \in Nat
      BY RowTypes
    <3>2. Min2(lots[l].expiresAt, deadAt) \in Nat
      BY <2>2, <3>1 DEF Min2
    <3>3. Swept(lots[l], deadAt) \in Lot /\ Swept(lots[l], deadAt).remaining = 0
          /\ Swept(lots[l], deadAt).granted = lots[l].granted
      BY <3>1, <3>2 DEF Swept, Lot
    <3> QED BY <3>1, <3>3
  <2> HIDE DEF m, c, dead, After
  <2>5. /\ lots' \in Seq(Lot) /\ Len(lots') = Len(lots) /\ DOMAIN lots' = DOMAIN lots
        /\ \A l \in DOMAIN lots : lots'[l] = After(l)
    BY <2>1, <2>4, RowTypes
  <2>6. \A l \in DOMAIN lots : l \in c.held \/ lots[l].remaining <= lots'[l].remaining
    BY <2>2, <2>4, <2>5, RowTypes
  <2>7. LotBounds'
    <3> SUFFICES ASSUME NEW l \in DOMAIN lots
                 PROVE  lots'[l].remaining \in 0..lots'[l].granted
      BY <2>5 DEF LotBounds
    <3> QED BY <2>4, <2>5, RowTypes
  <2>8. MovementOK(m, Len(lots'))
    BY <2>3 DEF MovementOK, NoLots
  <2>9. /\ call' \in [Proc -> Call]
        /\ \A q \in Proc : Bystander(q, c.held, m.reverses)
    BY <1>1, <2>3, CommitLeavesOthers DEF c
  <2>10. Len(lots) <= Len(lots') /\ Len(lots') <= MaxLots
    BY <2>5, RowTypes
  <2> QED BY <1>1, <2>1, <2>2, <2>3, <2>5, <2>6, <2>7, <2>8, <2>9, <2>10, RowsStep
<1> QED BY <1>2, <1>3

-----------------------------------------------------------------------------
(* The refund's arithmetic stays within the naturals and within the lots.  *)

(* A quotient of naturals is a natural.                                    *)
LEMMA Quotient ==
    ASSUME NEW a \in Nat, NEW b \in Nat, b > 0
    PROVE  a \div b \in Nat
OBVIOUS

(* Every share of a proportional split is a natural.                       *)
LEMMA SplitsType ==
    ASSUME NEW debit \in Movement, debit.amount > 0, NEW credits \in Nat,
           NEW share \in Splits(debit, credits)
    PROVE  share \in [LotId -> Nat]
<1>1. debit.alloc \in [LotId -> Nat] /\ debit.amount \in Nat
  BY DEF Movement
<1> DEFINE floor == [l \in LotId |-> (debit.alloc[l] * credits) \div debit.amount]
<1>2. \A l \in LotId : debit.alloc[l] * credits \in Nat
  BY <1>1
<1>3. floor \in [LotId -> Nat]
  BY <1>1, <1>2, Quotient
<1>4. PICK R \in SUBSET LotId :
        share = [l \in LotId |-> IF l \in R THEN floor[l] + 1 ELSE floor[l]]
  BY DEF Splits
<1> HIDE DEF floor
<1> QED BY <1>3, <1>4

(* What goes back to a lot is part of its share and fits into the lot.     *)
LEMMA GiveBackBounds ==
    ASSUME IInv, NEW share \in [LotId -> Nat], NEW now \in Nat
    PROVE  LET back == GiveBack(share, now)
           IN  /\ back \in [LotId -> Nat]
               /\ \A l \in LotId : back[l] <= share[l]
               /\ \A l \in DOMAIN lots :
                    lots[l].remaining + back[l] <= lots[l].granted
               /\ \A l \in LotId : back[l] > 0 => l \in DOMAIN lots
<1> DEFINE back == GiveBack(share, now)
<1>1. ASSUME NEW l \in LotId, l \in DOMAIN lots
      PROVE  /\ back[l] \in Nat /\ back[l] <= share[l]
             /\ lots[l].remaining + back[l] <= lots[l].granted
  <2>1. /\ lots[l].remaining \in Nat /\ lots[l].granted \in Nat
        /\ lots[l].remaining <= lots[l].granted /\ share[l] \in Nat
    BY <1>1, RowTypes
  <2> QED BY <1>1, <2>1 DEF GiveBack, Min2, Max2
<1>2. ASSUME NEW l \in LotId, l \notin DOMAIN lots PROVE back[l] = 0
  BY <1>2 DEF GiveBack
<1>3. back = [l \in LotId |-> back[l]]
  BY DEF GiveBack
<1> HIDE DEF back
<1>4. back \in [LotId -> Nat]
  BY <1>1, <1>2, <1>3
<1>5. \A l \in LotId : back[l] <= share[l]
  BY <1>1, <1>2
<1>6. \A l \in DOMAIN lots : l \in LotId /\ lots[l].remaining + back[l] <= lots[l].granted
  BY <1>1, RowTypes
<1>7. \A l \in LotId : back[l] > 0 => l \in DOMAIN lots
  BY <1>2
<1> QED BY <1>4, <1>5, <1>6, <1>7 DEF back

(* There are finitely many lots.                                           *)
LEMMA LotIdFinite == IsFiniteSet(LotId)
BY LedgerAssumption, FS_Interval DEF LotId

(* Replacement lots have a kind, a lifetime and a natural amount.          *)
LEMMA OrphansType ==
    ASSUME IInv, NEW rest \in [LotId -> Nat], NEW now \in Nat
    PROVE  /\ OrphanKeys(rest, now) \subseteq CreditKind \X Nat
           /\ Cardinality(OrphanKeys(rest, now)) \in Nat
           /\ \A key : OrphanAmount(rest, now, key) \in Nat
<1>1. ASSUME NEW l \in DOMAIN lots
      PROVE  lots[l].kind \in CreditKind /\ refundLotExpiry(lots[l], now) \in Nat
  <2>1. lots[l].kind \in CreditKind /\ lots[l].expiresAt \in Nat /\ periodEnd \in Nat
    BY RowTypes DEF IInv, TypeOK
  <2> QED BY <2>1, LedgerAssumption DEF refundLotExpiry, Never, CreditKind
<1> DEFINE D   == {l \in DOMAIN lots : rest[l] > 0}
           Key(l) == <<lots[l].kind, refundLotExpiry(lots[l], now)>>
           f   == [l \in D |-> Key(l)]
<1>2. OrphanKeys(rest, now) = {Key(l) : l \in D}
  BY DEF OrphanKeys
<1>3. OrphanKeys(rest, now) \subseteq CreditKind \X Nat
  BY <1>1, <1>2
<1>4. Cardinality(OrphanKeys(rest, now)) \in Nat
  <2>1. IsFiniteSet(D)
    <3>1. D \in SUBSET LotId
      BY RowTypes
    <3> QED BY <3>1, LotIdFinite, FS_Subset
  <2>2. f \in Surjection(D, {Key(l) : l \in D})
    <3> HIDE DEF D, Key
    <3> QED BY DEF Surjection
  <2>3. IsFiniteSet({Key(l) : l \in D})
    <3> HIDE DEF D, Key, f
    <3> QED BY <2>1, <2>2, FS_Surjection
  <2> QED BY <1>2, <2>3, FS_CardinalityType
<1>5. ASSUME NEW key PROVE OrphanAmount(rest, now, key) \in Nat
  <2> DEFINE g == [l \in LotId |->
                     IF /\ l \in DOMAIN lots
                        /\ key = <<lots[l].kind, refundLotExpiry(lots[l], now)>>
                     THEN rest[l] ELSE 0]
  <2>1. g \in [LotId -> Nat]
    OBVIOUS
  <2>2. OrphanAmount(rest, now, key) = Total(g)
    BY DEF OrphanAmount
  <2> HIDE DEF g
  <2> QED BY <2>1, <2>2, LotIdFinite, TotalType
<1> QED BY <1>3, <1>4, <1>5

(* refundPartial()'s writes preserve the invariant: no lot is filled past  *)
(* its grant, and the debit is reversed this once.                         *)
LEMMA CommitRefundStep ==
    ASSUME IInv, NEW p \in Proc, CommitRefund(p)
    PROVE  IInv'
<1> DEFINE c == call[p]
           debit == txs[c.target]
<1>1. /\ c \in Call /\ HoldsRows(c) /\ HoldsDebit(c)
      /\ c.op = "refund" /\ c.step = "lock"
      /\ Return(p) /\ UNCHANGED <<clock, periodEnd>> /\ clock \in Nat
  BY DEF IInv, TypeOK, CallsOK, CommitRefund
<1>2. /\ txs \in Seq(Movement) /\ c.target \in DOMAIN txs /\ c.target \in Nat
      /\ c.amount \in Nat /\ c.held \in SUBSET LotId
  BY <1>1 DEF IInv, TypeOK, HoldsDebit, Call
<1>3. /\ debit \in Movement /\ debit.amount > 0 /\ debit.type = "DEBIT"
      /\ c.amount <= debit.amount /\ ~ Refunded(c.target)
  <2>1. debit \in Movement
    BY <1>2
  <2>2. debit.type = "DEBIT" /\ c.amount <= debit.amount /\ ~ Refunded(c.target)
    BY <1>1 DEF HoldsDebit
  <2>3. debit.amount > 0
    BY <1>2, <2>2 DEF IInv, MovementsOK, MovementOK
  <2> QED BY <2>1, <2>2, <2>3
<1>4. PICK share \in Splits(debit, c.amount) :
        LET back == GiveBack(share, clock)
            rest == [l \in LotId |-> share[l] - back[l]]
            keys == OrphanKeys(rest, clock)
            n    == Cardinality(keys)
        IN  /\ Len(lots) + n <= MaxLots
            /\ \E key \in [1..n -> keys] :
                 LET orphan(i) == OrphanAmount(rest, clock, key[i])
                 IN  /\ lots' = [l \in 1..(Len(lots) + n) |->
                          IF l <= Len(lots)
                          THEN [lots[l] EXCEPT !.remaining = @ + back[l]]
                          ELSE [kind |-> key[l - Len(lots)][1],
                                granted |-> orphan(l - Len(lots)),
                                remaining |-> orphan(l - Len(lots)),
                                expiresAt |-> key[l - Len(lots)][2]]]
                     /\ txs' = Append(txs,
                          [type |-> "REFUND", amount |-> c.amount,
                           reverses |-> c.target, event |-> NoEvent,
                           alloc |-> [l \in LotId |->
                              CASE l <= Len(lots) -> back[l]
                                [] l > Len(lots) + n -> 0
                                [] OTHER -> orphan(l - Len(lots))]])
  BY DEF CommitRefund
<1> DEFINE back == GiveBack(share, clock)
           rest == [l \in LotId |-> share[l] - back[l]]
           keys == OrphanKeys(rest, clock)
           n    == Cardinality(keys)
<1>5. PICK key \in [1..n -> keys] :
        /\ lots' = [l \in 1..(Len(lots) + n) |->
             IF l <= Len(lots)
             THEN [lots[l] EXCEPT !.remaining = @ + back[l]]
             ELSE [kind |-> key[l - Len(lots)][1],
                   granted |-> OrphanAmount(rest, clock, key[l - Len(lots)]),
                   remaining |-> OrphanAmount(rest, clock, key[l - Len(lots)]),
                   expiresAt |-> key[l - Len(lots)][2]]]
        /\ txs' = Append(txs,
             [type |-> "REFUND", amount |-> c.amount,
              reverses |-> c.target, event |-> NoEvent,
              alloc |-> [l \in LotId |->
                 CASE l <= Len(lots) -> back[l]
                   [] l > Len(lots) + n -> 0
                   [] OTHER -> OrphanAmount(rest, clock, key[l - Len(lots)])]])
  BY <1>4
<1>6. Len(lots) + n <= MaxLots
  BY <1>4
<1> DEFINE N == Len(lots)
           orphan(i) == OrphanAmount(rest, clock, key[i])
           Old(l) == [lots[l] EXCEPT !.remaining = @ + back[l]]
           New(l) == [kind |-> key[l - N][1], granted |-> orphan(l - N),
                      remaining |-> orphan(l - N), expiresAt |-> key[l - N][2]]
           alloc == [l \in LotId |-> CASE l <= N -> back[l]
                                       [] l > N + n -> 0
                                       [] OTHER -> orphan(l - N)]
           m == [type |-> "REFUND", amount |-> c.amount, reverses |-> c.target,
                 event |-> NoEvent, alloc |-> alloc]
<1>7. share \in [LotId -> Nat]
  BY <1>2, <1>3, SplitsType
<1>8. /\ back \in [LotId -> Nat]
      /\ \A l \in LotId : back[l] <= share[l]
      /\ \A l \in DOMAIN lots : lots[l].remaining + back[l] <= lots[l].granted
      /\ \A l \in LotId : back[l] > 0 => l \in DOMAIN lots
  BY <1>1, <1>7, GiveBackBounds
<1> HIDE DEF back
<1>9. rest \in [LotId -> Nat]
  BY <1>7, <1>8
<1> HIDE DEF rest
<1>10. /\ keys \subseteq CreditKind \X Nat /\ n \in Nat
       /\ \A i : orphan(i) \in Nat
  BY <1>1, <1>9, OrphansType
<1>11. N \in Nat /\ DOMAIN lots = 1..N /\ 1..N \subseteq LotId /\ LotId \subseteq Nat
  BY RowTypes, LedgerAssumption DEF LotId
<1> HIDE DEF keys, n
<1>12. \A l \in 1..N :
         /\ Old(l) \in Lot /\ Old(l).granted = lots[l].granted
         /\ Old(l).remaining = lots[l].remaining + back[l]
  <2> SUFFICES ASSUME NEW l \in 1..N
               PROVE  /\ Old(l) \in Lot /\ Old(l).granted = lots[l].granted
                      /\ Old(l).remaining = lots[l].remaining + back[l]
    OBVIOUS
  <2>1. lots[l] \in Lot /\ lots[l].remaining + back[l] \in Nat
    BY <1>8, <1>11, RowTypes
  <2> QED BY <2>1, SetRemaining
<1> HIDE DEF orphan
<1>13. \A l \in (N + 1)..(N + n) :
         /\ New(l) \in Lot /\ New(l).remaining = orphan(l - N)
         /\ New(l).granted = orphan(l - N) /\ orphan(l - N) \in Nat
  <2> SUFFICES ASSUME NEW l \in (N + 1)..(N + n)
               PROVE  /\ New(l) \in Lot /\ New(l).remaining = orphan(l - N)
                      /\ New(l).granted = orphan(l - N) /\ orphan(l - N) \in Nat
    OBVIOUS
  <2>1. l - N \in 1..n
    BY <1>10, <1>11
  <2>2. key[l - N] \in CreditKind \X Nat
    BY <1>10, <2>1
  <2>3. key[l - N][1] \in CreditKind /\ key[l - N][2] \in Nat
    BY <2>2
  <2> QED BY <1>10, <2>3 DEF Lot
<1>14. /\ lots' = [l \in 1..(N + n) |-> IF l <= N THEN Old(l) ELSE New(l)]
       /\ txs' = Append(txs, m)
  BY <1>5 DEF orphan
<1> HIDE DEF Old, New
<1>15. \A l \in 1..(N + n) : l \in 1..N \/ l \in (N + 1)..(N + n)
  BY <1>10, <1>11
<1>16. /\ DOMAIN lots' = 1..(N + n)
       /\ \A l \in 1..N : lots'[l] = Old(l)
       /\ \A l \in (N + 1)..(N + n) : lots'[l] = New(l)
  BY <1>10, <1>11, <1>14
<1>17. lots' \in Seq(Lot) /\ Len(lots') = N + n
  <2>1. lots' \in [1..(N + n) -> Lot]
    BY <1>12, <1>13, <1>14, <1>15, <1>16
  <2>2. N + n \in Nat
    BY <1>10, <1>11
  <2> HIDE DEF N
  <2> QED BY <2>1, <2>2
<1>18. LotBounds'
  <2> SUFFICES ASSUME NEW l \in 1..(N + n)
               PROVE  lots'[l].remaining \in 0..lots'[l].granted
    BY <1>16 DEF LotBounds
  <2>1. CASE l \in 1..N
    <3>1. /\ lots[l].remaining \in Nat /\ lots[l].granted \in Nat /\ back[l] \in Nat
          /\ lots[l].remaining + back[l] <= lots[l].granted
      BY <1>8, <1>11, <2>1, RowTypes
    <3> QED BY <1>12, <1>16, <2>1, <3>1
  <2>2. CASE l \in (N + 1)..(N + n)
    BY <1>13, <1>16, <2>2
  <2> QED BY <1>15, <2>1, <2>2
<1>19. \A l \in DOMAIN lots : lots[l].remaining <= lots'[l].remaining
  <2> SUFFICES ASSUME NEW l \in 1..N PROVE lots[l].remaining <= lots'[l].remaining
    BY <1>11
  <2>1. lots[l].remaining \in Nat /\ back[l] \in Nat
    BY <1>8, <1>11, RowTypes
  <2> QED BY <1>12, <1>16, <2>1
<1>20. alloc \in [LotId -> Nat] /\ \A l \in LotId : alloc[l] > 0 => l \in 1..(N + n)
  <2> SUFFICES ASSUME NEW l \in LotId
               PROVE  alloc[l] \in Nat /\ (alloc[l] > 0 => l \in 1..(N + n))
    BY DEF alloc
  <2>1. l \in Nat /\ l > 0 /\ back[l] \in Nat /\ orphan(l - N) \in Nat
    BY <1>8, <1>10 DEF LotId
  <2>2. alloc[l] = IF l <= N THEN back[l] ELSE IF l > N + n THEN 0 ELSE orphan(l - N)
    BY <1>10, <1>11, <2>1
  <2> HIDE DEF alloc
  <2> QED BY <1>10, <1>11, <2>1, <2>2
<1> HIDE DEF alloc
<1>21. /\ m \in Movement /\ m.reverses = c.target /\ m.amount = c.amount
       /\ m.type = "REFUND" /\ m.alloc = alloc
  BY <1>2, <1>20 DEF Movement
<1>22. MovementOK(m, Len(lots'))
  BY <1>17, <1>20, <1>21 DEF MovementOK
<1>23. /\ call' \in [Proc -> Call]
       /\ \A q \in Proc : Bystander(q, c.held, m.reverses)
  BY <1>1, <1>21, CommitLeavesOthers DEF Reverses
<1>24. Len(lots) <= Len(lots') /\ Len(lots') <= MaxLots
  BY <1>6, <1>10, <1>11, <1>17
<1> HIDE DEF m, c
<1> QED BY <1>1, <1>2, <1>3, <1>14, <1>17, <1>18, <1>19, <1>21, <1>22, <1>23,
           <1>24, RowsStep

-----------------------------------------------------------------------------
(* An empty ledger satisfies the invariant.                                *)
LEMMA InitStep == Init => IInv
<1> SUFFICES ASSUME Init PROVE IInv
  OBVIOUS
<1>1. TypeOK
  BY IdleOK, LedgerAssumption DEF Init, TypeOK
<1>2. lots = <<>> /\ txs = <<>> /\ \A p \in Proc : call[p] = Idle
  BY DEF Init
<1>3. LotBounds /\ MovementsOK /\ RefundedOnce
  BY <1>2 DEF LotBounds, MovementsOK, RefundedOnce
<1>4. CallsOK
  BY <1>2, IdleOK DEF CallsOK, Excludes, Reverses
<1> QED BY <1>1, <1>3, <1>4 DEF IInv

(* Billing and time touch no row of the ledger.                            *)
LEMMA QuietStep ==
    ASSUME IInv, UNCHANGED <<lots, txs, call>>, clock' \in Nat \ {0}, periodEnd' \in Nat
    PROVE  IInv'
BY DEF IInv, TypeOK, LotBounds, MovementsOK, RefundedOnce, CallsOK, HoldsRows,
       HoldsDebit, Refunded, Excludes, Reverses

(* Every step of the ledger preserves the invariant.                       *)
LEMMA NextStep == IInv /\ [Next]_vars => IInv'
<1> SUFFICES ASSUME IInv, [Next]_vars PROVE IInv'
  OBVIOUS
<1>1. clock \in Nat \ {0} /\ periodEnd \in Nat
  BY DEF IInv, TypeOK
<1>2. CASE Tick
  BY <1>1, <1>2, QuietStep DEF Tick
<1>3. ASSUME NEW end \in Boundary, Renew(end) PROVE IInv'
  BY <1>1, <1>3, QuietStep, LedgerAssumption DEF Renew
<1>4. CASE Grant
  BY <1>4, GrantStep
<1>5. ASSUME NEW p \in Proc, CallDebit(p) \/ CallRefund(p) \/ CallExpire(p)
      PROVE  IInv'
  BY <1>5, CallSteps
<1>6. ASSUME NEW p \in Proc, Step(p) PROVE IInv'
  <2>1. CASE SelectDebit(p) \/ SelectExpire(p)
    BY <2>1, SelectDebitStep, SelectExpireStep
  <2>2. CASE ReadOriginal(p) \/ InsertReversal(p)
    BY <2>2, ReadOriginalStep, InsertReversalStep
  <2>3. CASE LockNext(p) \/ DeadlockVictim(p)
    BY <2>3, LockNextStep, DeadlockVictimStep
  <2>4. CASE CommitDebit(p)
    BY <2>4, CommitDebitStep
  <2>5. CASE CommitRefund(p)
    BY <2>5, CommitRefundStep
  <2>6. CASE CommitExpire(p)
    BY <2>6, CommitExpireStep
  <2> QED BY <1>6, <2>1, <2>2, <2>3, <2>4, <2>5, <2>6 DEF Step
<1>7. ASSUME NEW p \in Proc, Crash(p) PROVE IInv'
  BY <1>7, CrashStep
<1>8. CASE UNCHANGED vars
  BY <1>1, <1>8, QuietStep DEF vars
<1> QED BY <1>2, <1>3, <1>4, <1>5, <1>6, <1>7, <1>8 DEF Next

(* The inductive invariant holds in every interleaving.                    *)
THEOREM Invariance == Spec => []IInv
BY InitStep, NextStep, PTL DEF Spec

(* Every interleaving keeps the rows and the transactions well formed; in  *)
(* particular no lot's remaining credits ever go below zero.               *)
THEOREM TypeCorrect == Spec => []TypeOK
<1>1. IInv => TypeOK
  BY DEF IInv
<1> QED BY <1>1, Invariance, PTL

(* No interleaving of debits, refunds and sweeps overdraws a lot or fills  *)
(* it past its grant.                                                      *)
THEOREM LotsWithinBounds == Spec => []LotBounds
<1>1. IInv => LotBounds
  BY DEF IInv
<1> QED BY <1>1, Invariance, PTL

(* However many callers race to reverse a debit, and however often they    *)
(* are rolled back and retried, it is reversed once and for no more than   *)
(* it charged.                                                             *)
THEOREM ReversedOnce == Spec => []RefundedOnce
<1>1. IInv => RefundedOnce
  BY DEF IInv
<1> QED BY <1>1, Invariance, PTL

-----------------------------------------------------------------------------
(* What the return of every call rests on: nobody waits for ever, and no   *)
(* step of a call is in vain.                                              *)

(* Nobody is stranded.  Take any callers such that whoever one of them     *)
(* waits for is among them.  As long as one of them is inside a call, one  *)
(* of them can go on, or some of them wait in a cycle, which PostgreSQL    *)
(* breaks by choosing a victim.                                            *)
NobodyStranded ==
    \A G \in SUBSET Proc :
       /\ \E p \in G : call[p].step # "idle"
       /\ \A p \in G, q \in Proc : WaitsFor(p, q) => q \in G
       => \/ \E p \in G : call[p].step # "idle" /\ ~ Blocked(p)
          \/ \E S \in SUBSET G : WaitCycle(S)

(* Callers that all wait for one of themselves contain a wait cycle: in    *)
(* a smallest such group everyone is waited for too.                       *)
LEMMA CycleAmong ==
    ASSUME NEW G \in SUBSET Proc, G # {}, \A p \in G : \E q \in G : WaitsFor(p, q)
    PROVE  \E S \in SUBSET G : WaitCycle(S)
<1> DEFINE Waits(S) == S # {} /\ \A p \in S : \E q \in S : WaitsFor(p, q)
           T        == {S \in SUBSET G : Waits(S)}
           R        == StrictSubsetOrdering(Proc)
<1>1. IsWellFoundedOn(R, SUBSET Proc)
  <2>1. IsFiniteSet(Proc)
    BY LedgerAssumption
  <2>2. FiniteSubsetsOf(Proc) = SUBSET Proc
    BY <2>1, FS_FiniteSubsetsOfFinite
  <2> QED BY <2>2, FS_StrictSubsetOrderingWellFounded
<1>2. T \subseteq SUBSET Proc /\ T # {}
  BY DEF T
<1>3. PICK S \in T : \A U \in T : ~ (<<U, S>> \in R)
  <2> HIDE DEF R, T
  <2> QED BY <1>1, <1>2, WFMin
<1>4. S \in SUBSET G /\ S \in SUBSET Proc /\ Waits(S)
  OBVIOUS
<1>5. ASSUME NEW p \in S PROVE \E q \in S : WaitsFor(q, p)
  <2> SUFFICES ASSUME \A q \in S : ~ WaitsFor(q, p) PROVE FALSE
    OBVIOUS
  <2> DEFINE U == S \ {p}
  <2>1. PICK q \in S : WaitsFor(p, q)
    BY <1>4
  <2>2. q # p
    BY <2>1 DEF WaitsFor
  <2>3. Waits(U)
    BY <1>4, <2>2
  <2>4. U \in T
    BY <1>4, <2>3
  <2>5. U \subseteq S /\ U # S /\ U \in SUBSET Proc
    BY <1>4
  <2>6. <<U, S>> \in R
    <3> HIDE DEF U
    <3> QED BY <1>4, <2>5 DEF StrictSubsetOrdering
  <2> QED BY <1>3, <2>4, <2>6
<1> QED BY <1>4, <1>5 DEF WaitCycle

(* Only an open transaction holds anyone up.                               *)
LEMMA HolderIsOpen ==
    ASSUME IInv, NEW p \in Proc, NEW q \in Proc, WaitsFor(p, q)
    PROVE  call[q].step # "idle"
<1>1. call[q].step # "lock" => call[q].held = {}
  BY DEF IInv, CallsOK, HoldsRows
<1> QED BY <1>1 DEF WaitsFor, ReversalInserted

(* In every interleaving a caller that waits is held up by one that can go *)
(* on or by a cycle of deadlocked ones, however many they are: the row     *)
(* locks of debit, refund and sweep strand nobody.                         *)
THEOREM NoCallerStranded == Spec => []NobodyStranded
<1>1. IInv => NobodyStranded
  <2> SUFFICES ASSUME IInv, NEW G \in SUBSET Proc,
                      \E p \in G : call[p].step # "idle",
                      \A p \in G, q \in Proc : WaitsFor(p, q) => q \in G,
                      \A p \in G : call[p].step # "idle" => Blocked(p)
               PROVE  \E S \in SUBSET G : WaitCycle(S)
    BY DEF NobodyStranded
  <2> DEFINE O == {p \in G : call[p].step # "idle"}
  <2>1. ASSUME NEW p \in O PROVE \E q \in O : WaitsFor(p, q)
    <3>1. PICK q \in Proc : WaitsFor(p, q)
      BY <2>1 DEF Blocked
    <3>2. q \in G /\ call[q].step # "idle"
      BY <2>1, <3>1, HolderIsOpen
    <3> QED BY <3>1, <3>2
  <2>2. O \in SUBSET Proc /\ O # {} /\ O \in SUBSET G
    OBVIOUS
  <2>3. PICK S \in SUBSET O : WaitCycle(S)
    <3> HIDE DEF O
    <3> QED BY <2>1, <2>2, CycleAmong
  <2> QED BY <2>2, <2>3
<1> QED BY <1>1, Invariance, PTL

(* A call never runs in circles.  Each step of a caller inside a call ends *)
(* the call, or repeats it as one more of MaxAttempts attempts, or takes   *)
(* the attempt further: from reading to writing, or by one locked row.     *)
(* And a call that is retried asks for what it asked for at first.         *)
Further(c, d) ==
    \/ d.attempt > c.attempt
    \/ /\ d.attempt = c.attempt
       /\ \/ c.step = "begin" /\ d.step \in {"insert", "lock"}
          \/ c.step = "insert" /\ d.step = "lock"
          \/ c.step = "lock" /\ d.step = "lock" /\ Len(d.todo) < Len(c.todo)

CallsAdvance ==
    \A p \in Proc :
       call[p].step # "idle" /\ call'[p] # call[p] =>
         \/ call'[p] = Idle
         \/ /\ Further(call[p], call'[p])
            /\ call'[p].op = call[p].op /\ call'[p].amount = call[p].amount
            /\ call'[p].target = call[p].target

(* One caller's step is a step forward for it and none for the others.     *)
LEMMA OneAdvances ==
    ASSUME IInv, NEW p \in Proc, NEW c, call' = [call EXCEPT ![p] = c],
           \/ call[p].step = "idle"
           \/ c = Idle
           \/ /\ Further(call[p], c) /\ c.op = call[p].op /\ c.amount = call[p].amount
              /\ c.target = call[p].target
    PROVE  CallsAdvance
<1>1. call'[p] = c /\ \A q \in Proc \ {p} : call'[q] = call[q]
  BY DEF IInv, TypeOK
<1>2. ASSUME NEW q \in Proc, call[q].step # "idle", call'[q] # call[q]
      PROVE  \/ call'[q] = Idle
             \/ /\ Further(call[q], call'[q])
                /\ call'[q].op = call[q].op /\ call'[q].amount = call[q].amount
                /\ call'[q].target = call[q].target
  <2>1. q = p
    BY <1>1, <1>2
  <2> QED BY <1>1, <1>2, <2>1
<1> QED BY <1>2 DEF CallsAdvance

(* Every step of the ledger takes the call it is a step of forward.        *)
LEMMA StepAdvances ==
    ASSUME IInv, NEW p \in Proc, Step(p)
    PROVE  CallsAdvance
<1> DEFINE b == call[p]
<1>1. b \in Call /\ call \in [Proc -> Call]
  BY DEF IInv, TypeOK
<1>2. b.attempt \in Nat /\ b.todo \in Seq(LotId)
  BY <1>1, LedgerAssumption DEF Call
<1>3. CASE Return(p)
  BY <1>3, OneAdvances DEF Return
<1>4. CASE SelectDebit(p)
  <2>1. PICK q : call' = [call EXCEPT ![p] =
                   [[b EXCEPT !.step = "lock", !.now = clock] EXCEPT !.todo = q]]
    BY <1>4 DEF SelectDebit
  <2> DEFINE c == [[b EXCEPT !.step = "lock", !.now = clock] EXCEPT !.todo = q]
  <2>2. /\ c.attempt = b.attempt /\ c.step = "lock" /\ b.step = "begin"
        /\ c.op = b.op /\ c.amount = b.amount /\ c.target = b.target
    BY <1>1, <1>4 DEF Call, SelectDebit
  <2> HIDE DEF c
  <2>3. Further(b, c)
    BY <2>2 DEF Further
  <2> QED BY <2>1, <2>2, <2>3, OneAdvances DEF c
<1>5. ASSUME NEW q, NEW s \in {"insert", "lock"}, b.step \in {"begin", "insert"}, s # b.step,
             call' = [call EXCEPT ![p].step = s, ![p].todo = q]
      PROVE  CallsAdvance
  <2> DEFINE c == [[b EXCEPT !.step = s] EXCEPT !.todo = q]
  <2>1. call' = [call EXCEPT ![p] = c]
    BY <1>1, <1>5
  <2>2. /\ c.attempt = b.attempt /\ c.step = s
        /\ c.op = b.op /\ c.amount = b.amount /\ c.target = b.target
    BY <1>1 DEF Call
  <2> HIDE DEF c
  <2>3. Further(b, c)
    BY <1>5, <2>2 DEF Further
  <2> QED BY <2>1, <2>2, <2>3, OneAdvances
<1>6. CASE SelectExpire(p)
  BY <1>5, <1>6 DEF SelectExpire
<1>7. CASE InsertReversal(p)
  BY <1>3, <1>5, <1>7 DEF InsertReversal
<1>8. CASE ReadOriginal(p)
  <2>1. CASE call' = [call EXCEPT ![p].step = "insert"]
    <3> DEFINE c == [b EXCEPT !.step = "insert"]
    <3>1. /\ c.attempt = b.attempt /\ c.step = "insert" /\ b.step = "begin"
          /\ c.op = b.op /\ c.amount = b.amount /\ c.target = b.target
      BY <1>1, <1>8 DEF Call, ReadOriginal
    <3>2. call' = [call EXCEPT ![p] = c]
      BY <2>1
    <3> HIDE DEF c
    <3>3. Further(b, c)
      BY <3>1 DEF Further
    <3> QED BY <3>1, <3>2, <3>3, OneAdvances
  <2> QED BY <1>3, <1>8, <2>1 DEF ReadOriginal
<1>9. CASE LockNext(p)
  <2>1. /\ b.step = "lock" /\ b.todo # <<>>
        /\ \E c : /\ call' = [call EXCEPT ![p] = c]
                  /\ c.attempt = b.attempt /\ c.step = "lock" /\ c.todo = Tail(b.todo)
                  /\ c.op = b.op /\ c.amount = b.amount /\ c.target = b.target
    <3> DEFINE l == Head(b.todo)
               c1 == [b EXCEPT !.todo = Tail(@), !.held = @ \cup {l},
                               !.available = @ + lots[l].remaining,
                               !.take[l] = Share(b, l)]
               c2 == [b EXCEPT !.todo = Tail(@), !.held = @ \cup {l}]
    <3>1. /\ b.step = "lock" /\ b.todo # <<>>
          /\ call' = [call EXCEPT ![p] = c1] \/ call' = [call EXCEPT ![p] = c2]
      BY <1>9 DEF LockNext
    <3>2. /\ c1.attempt = b.attempt /\ c1.step = b.step /\ c1.todo = Tail(b.todo)
          /\ c1.op = b.op /\ c1.amount = b.amount /\ c1.target = b.target
      BY <1>1 DEF Call
    <3>3. /\ c2.attempt = b.attempt /\ c2.step = b.step /\ c2.todo = Tail(b.todo)
          /\ c2.op = b.op /\ c2.amount = b.amount /\ c2.target = b.target
      BY <1>1 DEF Call
    <3> HIDE DEF c1, c2
    <3> QED BY <3>1, <3>2, <3>3
  <2>2. PICK c : /\ call' = [call EXCEPT ![p] = c]
                 /\ c.attempt = b.attempt /\ c.step = "lock" /\ c.todo = Tail(b.todo)
                 /\ c.op = b.op /\ c.amount = b.amount /\ c.target = b.target
    BY <2>1
  <2>3. Len(Tail(b.todo)) < Len(b.todo)
    BY <1>2, <2>1
  <2>4. Further(b, c)
    BY <2>1, <2>2, <2>3 DEF Further
  <2> QED BY <2>2, <2>4, OneAdvances
<1>10. CASE DeadlockVictim(p)
  <2>1. CASE call' = [call EXCEPT ![p] =
                        Begin(b.op, b.amount, b.target, b.now, b.attempt + 1)]
    <3> DEFINE c == Begin(b.op, b.amount, b.target, b.now, b.attempt + 1)
    <3>1. c.attempt > b.attempt /\ c.op = b.op /\ c.amount = b.amount /\ c.target = b.target
      BY <1>2 DEF Begin
    <3>2. Further(b, c)
      BY <3>1 DEF Further
    <3> HIDE DEF c
    <3> QED BY <2>1, <3>1, <3>2, OneAdvances DEF c
  <2> QED BY <1>3, <1>10, <2>1 DEF DeadlockVictim
<1>11. CASE CommitDebit(p) \/ CommitRefund(p) \/ CommitExpire(p)
  BY <1>3, <1>11 DEF CommitDebit, CommitRefund, CommitExpire
<1> QED BY <1>4, <1>6, <1>7, <1>8, <1>9, <1>10, <1>11 DEF Step

(* However often a call is chosen as a deadlock's victim, every step it    *)
(* takes brings it nearer its end, and a retry repeats the call it retries.*)
THEOREM EveryStepAdvances == Spec => [][CallsAdvance]_vars
<1>1. IInv /\ [Next]_vars => [CallsAdvance]_vars
  <2> SUFFICES ASSUME IInv, Next PROVE CallsAdvance
    OBVIOUS
  <2>1. CASE UNCHANGED call
    BY <2>1 DEF CallsAdvance
  <2>2. ASSUME NEW p \in Proc, CallDebit(p) \/ CallRefund(p) \/ CallExpire(p)
        PROVE  CallsAdvance
    <3>1. call[p].step = "idle" /\ \E c : call' = [call EXCEPT ![p] = c]
      BY <2>2 DEF CallDebit, CallRefund, CallExpire
    <3> QED BY <3>1, OneAdvances
  <2>3. ASSUME NEW p \in Proc, Crash(p) PROVE CallsAdvance
    BY <2>3, OneAdvances DEF Crash, Return
  <2>4. CASE Tick \/ Grant \/ \E end \in Boundary : Renew(end)
    BY <2>1, <2>4 DEF Tick, Grant, grantLot, Renew
  <2> QED BY <2>2, <2>3, <2>4, StepAdvances DEF Next
<1> QED BY <1>1, Invariance, PTL DEF Spec


=============================================================================
