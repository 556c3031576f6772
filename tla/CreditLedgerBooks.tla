------------------------- MODULE CreditLedgerBooks --------------------------
(***************************************************************************)
(* The books of CreditLedger balance, for any number of callers, lots and  *)
(* movements and any amounts.  CreditLedgerProofs shows that the rows a    *)
(* transaction holds are its own; here that becomes sums: what a caller    *)
(* has counted while it locked row after row is still the sum of those     *)
(* rows when it writes.                                                    *)
(***************************************************************************)
EXTENDS CreditLedgerProofs

-----------------------------------------------------------------------------
(* What each open transaction knows about its rows.                        *)

Bought(l) == lots[l].kind = "PURCHASED"

PlanAlive(c, l) == lots[l].kind = "PLAN" /\ AliveAt(lots[l], c.now)

(* A statement locks each of its rows once.                                *)
OnceEach(c) ==
    /\ \A i, j \in DOMAIN c.todo : c.todo[i] = c.todo[j] => i = j
    /\ \A i \in DOMAIN c.todo : c.todo[i] \notin c.held

(* What a debit takes adds up to what it asked for, as far as the rows go, *)
(* and comes from rows that were alive when it looked; what a sweep takes  *)
(* is all there is in dated rows.                                          *)
Counts(c) ==
    /\ c.step # "lock" => c.available = 0
    /\ c.op = "debit" => Total(c.take) = Min2(c.amount, c.available)
    /\ c.op = "debit" => \A l \in LotId : c.take[l] > 0 => AliveAt(lots[l], c.now)
    /\ c.op = "expire" => c.now > 0 /\ Total(c.take) = c.available
    /\ c.op = "expire" =>
         \A l \in LotId : c.take[l] > 0 =>
            c.take[l] = lots[l].remaining /\ lots[l].expiresAt # Never

(* A refund locks every lot its debit drew on.                             *)
Covers(c) ==
    c.op = "refund" /\ c.step = "lock" =>
      \A l \in LotId : txs[c.target].alloc[l] > 0 =>
         l \in c.held \/ \E i \in DOMAIN c.todo : c.todo[i] = l

(* A debit comes to its purchased rows last, and takes from one only after *)
(* it has emptied the plan rows.                                           *)
PlanFirst(c) ==
    c.op = "debit" =>
      /\ \A i, j \in DOMAIN c.todo :
            i < j /\ Bought(c.todo[i]) => Bought(c.todo[j])
      /\ \A l \in c.held :
            PlanAlive(c, l) /\ c.available < c.amount
               => c.take[l] = lots[l].remaining
      /\ \A b \in c.held : Bought(b) /\ c.take[b] > 0 =>
            /\ \A i \in DOMAIN c.todo : Bought(c.todo[i])
            /\ \A l \in c.held : PlanAlive(c, l) => c.take[l] = lots[l].remaining

CallBooks(c) == OnceEach(c) /\ Counts(c) /\ Covers(c) /\ PlanFirst(c)

CallsBooks == \A p \in Proc : CallBooks(call[p])

-----------------------------------------------------------------------------
(* What each table knows about the others.                                 *)

RefundsReverse ==
    \A t \in DOMAIN txs : txs[t].type = "REFUND" => txs[t].reverses # 0

PurchasedUndated == \A l \in DOMAIN lots : Bought(l) => lots[l].expiresAt = Never

Books == /\ HistoryIsBalance /\ MovementsAllocated /\ LotBooks
         /\ RefundsReverse /\ PurchasedUndated

BInv == IInv /\ CallsBooks /\ Books

-----------------------------------------------------------------------------
(* Steps that leave the rows alone.                                        *)

(* What a record may claim depends on the rows and the history only: while *)
(* they stand, whoever has the record then may claim it too.               *)
LEMMA SameRows ==
    ASSUME UNCHANGED <<lots, txs>>, NEW q \in Proc, CallBooks(call'[q])
    PROVE  CallBooks(call[q])'
<1> DEFINE c == call'[q]
<1>1. OnceEach(call[q])'
  BY DEF CallBooks, OnceEach
<1>2. Counts(call[q])'
  BY DEF CallBooks, Counts, AliveAt
<1>3. Covers(call[q])'
  BY DEF CallBooks, Covers
<1>4. PlanFirst(call[q])'
  BY DEF CallBooks, PlanFirst, Bought, PlanAlive
<1> QED BY <1>1, <1>2, <1>3, <1>4 DEF CallBooks

(* One caller moves on: enough that its own record is in order.            *)
LEMMA MoveOn ==
    ASSUME IInv, CallsBooks, NEW p \in Proc, NEW c,
           call' = [call EXCEPT ![p] = c], UNCHANGED <<lots, txs>>, CallBooks(c)
    PROVE  CallsBooks'
<1>1. \A q \in Proc : call'[q] = IF q = p THEN c ELSE call[q]
  BY DEF IInv, TypeOK
<1>2. \A q \in Proc : CallBooks(call'[q])
  BY <1>1 DEF CallsBooks
<1> QED BY <1>2, SameRows DEF CallsBooks

(* A step that leaves the rows and the callers alone.                      *)
LEMMA CallersStand ==
    ASSUME CallsBooks, UNCHANGED <<lots, txs, call>>
    PROVE  CallsBooks'
<1>1. \A q \in Proc : CallBooks(call'[q])
  BY DEF CallsBooks
<1> QED BY <1>1, SameRows DEF CallsBooks

(* Nothing has been counted before the first lock.                         *)
LEMMA NothingTaken == NoLots \in [LotId -> Nat] /\ Total(NoLots) = 0
<1>1. NoLots \in [LotId -> Nat] /\ \A l \in LotId : NoLots[l] = 0
  BY DEF NoLots
<1> QED BY <1>1, TotalZero

(* A transaction outside its locking statement has nothing to account for. *)
LEMMA Uncounted ==
    ASSUME NEW c \in Call, c.available = 0, c.take = NoLots, c.held = {}, c.todo = <<>>,
           c.step # "lock", c.op = "expire" => c.now > 0
    PROVE  CallBooks(c)
<1>1. OnceEach(c) /\ Covers(c)
  BY DEF OnceEach, Covers
<1>2. Counts(c)
  <2>1. c.amount \in Nat
    BY DEF Call
  <2>2. \A l \in LotId : c.take[l] = 0
    BY DEF NoLots
  <2> QED BY <2>1, <2>2, NothingTaken DEF Counts, Min2
<1>3. PlanFirst(c)
  BY DEF PlanFirst
<1> QED BY <1>1, <1>2, <1>3 DEF CallBooks

(* In particular a caller outside any transaction.                         *)
LEMMA IdleBooks == CallBooks(Idle)
<1>1. /\ Idle \in Call /\ Idle.available = 0 /\ Idle.take = NoLots /\ Idle.held = {}
      /\ Idle.todo = <<>> /\ Idle.step # "lock" /\ Idle.op # "expire"
  BY IdleOK DEF Idle
<1> QED BY <1>1, Uncounted

(* So has a transaction that has just begun.                               *)
LEMMA BeginBooks ==
    ASSUME NEW op \in {"debit", "refund", "expire"}, NEW amount \in Nat,
           NEW target \in Nat, NEW now \in Nat, NEW attempt \in 0..MaxAttempts,
           op = "expire" => now > 0
    PROVE  CallBooks(Begin(op, amount, target, now, attempt))
<1> DEFINE c == Begin(op, amount, target, now, attempt)
<1>1. /\ c \in Call /\ c.op = op /\ c.step = "begin" /\ c.now = now /\ c.available = 0
      /\ c.held = {} /\ c.take = NoLots /\ c.todo = <<>>
  BY LedgerAssumption DEF Begin, Call, NoLots
<1> HIDE DEF c
<1>2. CallBooks(c)
  BY <1>1, Uncounted
<1> QED BY <1>2 DEF c

(* debit(), refundPartial() and expireRenewedLots() may be called.         *)
LEMMA CallBooksSteps ==
    ASSUME IInv, CallsBooks, NEW p \in Proc, CallDebit(p) \/ CallRefund(p) \/ CallExpire(p)
    PROVE  CallsBooks'
<1>1. 1 \in 0..MaxAttempts
  BY LedgerAssumption
<1>2. CASE CallDebit(p)
  <2>1. PICK amount \in CallAmount :
          call' = [call EXCEPT ![p] = Begin("debit", amount, 0, 0, 1)]
    BY <1>2 DEF CallDebit
  <2>2. CallBooks(Begin("debit", amount, 0, 0, 1))
    BY <1>1, LedgerAssumption, BeginBooks
  <2>3. UNCHANGED <<lots, txs>>
    BY <1>2 DEF CallDebit
  <2> QED BY <2>1, <2>2, <2>3, MoveOn
<1>3. CASE CallRefund(p)
  <2>1. PICK d \in DOMAIN txs, credits \in CallAmount :
          call' = [call EXCEPT ![p] = Begin("refund", credits, d, 0, 1)]
    BY <1>3 DEF CallRefund
  <2>2. d \in Nat /\ credits \in Nat
    BY LedgerAssumption DEF IInv, TypeOK
  <2>3. CallBooks(Begin("refund", credits, d, 0, 1))
    BY <1>1, <2>2, BeginBooks
  <2>4. UNCHANGED <<lots, txs>>
    BY <1>3 DEF CallRefund
  <2> QED BY <2>1, <2>3, <2>4, MoveOn
<1>4. CASE CallExpire(p)
  <2>1. PICK asOf \in Boundary :
          call' = [call EXCEPT ![p] = Begin("expire", 0, 0, asOf, 1)]
    BY <1>4 DEF CallExpire
  <2>2. asOf \in Nat /\ asOf > 0
    BY LedgerAssumption
  <2>3. CallBooks(Begin("expire", 0, 0, asOf, 1))
    BY <1>1, <2>2, BeginBooks
  <2>4. UNCHANGED <<lots, txs>>
    BY <1>4 DEF CallExpire
  <2> QED BY <2>1, <2>3, <2>4, MoveOn
<1> QED BY <1>2, <1>3, <1>4

(* A caller that returns, dies or gives up without writing.                *)
LEMMA ReturnBooks ==
    ASSUME IInv, CallsBooks, NEW p \in Proc, Return(p), UNCHANGED <<lots, txs>>
    PROVE  CallsBooks'
BY MoveOn, IdleBooks DEF Return

(* A deadlock victim starts again from nothing, or gives up.               *)
LEMMA DeadlockVictimBooks ==
    ASSUME IInv, CallsBooks, NEW p \in Proc, DeadlockVictim(p)
    PROVE  CallsBooks'
<1>1. call[p] \in Call /\ HoldsDebit(call[p]) /\ Counts(call[p])
  BY DEF IInv, TypeOK, CallsOK, CallsBooks, CallBooks
<1>2. call[p].step # "idle"
  BY DEF DeadlockVictim, WaitCycle, WaitsFor
<1>3. /\ call[p].op \in {"debit", "refund", "expire"} /\ call[p].amount \in Nat
      /\ call[p].target \in Nat /\ call[p].now \in Nat
      /\ call[p].op = "expire" => call[p].now > 0
  BY <1>1, <1>2 DEF Call, HoldsDebit, Counts
<1>4. UNCHANGED <<lots, txs>>
  BY DEF DeadlockVictim
<1>5. CASE call[p].attempt < MaxAttempts
  <2>1. call[p].attempt + 1 \in 0..MaxAttempts
    BY <1>1, <1>5, LedgerAssumption DEF Call
  <2>2. call' = [call EXCEPT ![p] = Begin(call[p].op, call[p].amount,
                     call[p].target, call[p].now, call[p].attempt + 1)]
    BY <1>5 DEF DeadlockVictim
  <2>3. CallBooks(Begin(call[p].op, call[p].amount, call[p].target, call[p].now,
                        call[p].attempt + 1))
    BY <1>3, <2>1, BeginBooks
  <2> QED BY <1>4, <2>2, <2>3, MoveOn
<1>6. CASE ~ (call[p].attempt < MaxAttempts)
  BY <1>4, <1>6, ReturnBooks DEF DeadlockVictim
<1> QED BY <1>5, <1>6

-----------------------------------------------------------------------------
(* The rows a statement selects.                                           *)

(* A list of a finite set without repetition lists all of it.              *)
LEMMA Enumeration ==
    ASSUME NEW S, IsFiniteSet(S), NEW q \in [1..Cardinality(S) -> S],
           \A i, j \in 1..Cardinality(S) : i < j => q[i] # q[j]
    PROVE  /\ \A i, j \in DOMAIN q : q[i] = q[j] => i = j
           /\ \A x \in S : \E i \in DOMAIN q : q[i] = x
<1> DEFINE I == 1..Cardinality(S)
           T == {q[i] : i \in I}
<1>1. Cardinality(S) \in Nat
  BY FS_CardinalityType
<1>2. ASSUME NEW i \in I, NEW j \in I, q[i] = q[j] PROVE i = j
  <2>1. i \in Int /\ j \in Int /\ ~ (i < j) /\ ~ (j < i)
    BY <1>1, <1>2
  <2> QED BY <2>1
<1>3. IsFiniteSet(I) /\ Cardinality(I) = Cardinality(S)
  BY <1>1, FS_Interval
<1>4. T = S
  <2>1. q \in Bijection(I, T)
    BY <1>2 DEF Bijection, Injection, Surjection, IsInjective
  <2>2. ExistsBijection(I, T)
    BY <2>1 DEF ExistsBijection
  <2>3. T \subseteq S
    OBVIOUS
  <2> HIDE DEF I, T
  <2>4. Cardinality(T) = Cardinality(S)
    BY <1>3, <2>2, FS_Bijection
  <2> QED BY <2>3, <2>4, FS_Subset
<1> QED BY <1>2, <1>4

(* The rows a statement may select are finitely many.                      *)
LEMMA RowsFinite ==
    ASSUME NEW S \in SUBSET LotId
    PROVE  IsFiniteSet(S)
BY LotIdFinite, FS_Subset

(* debit()'s SELECT lists plan lots before purchased ones, because a       *)
(* purchased lot has no boundary.                                          *)
LEMMA SelectDebitBooks ==
    ASSUME IInv, CallsBooks, PurchasedUndated, NEW p \in Proc, SelectDebit(p)
    PROVE  CallsBooks'
<1> DEFINE b == [call[p] EXCEPT !.step = "lock", !.now = clock]
           S == {l \in DOMAIN lots : Qualifies(b, l)}
<1>1. /\ call[p] \in Call /\ HoldsRows(call[p]) /\ CallBooks(call[p])
      /\ call[p].op = "debit" /\ call[p].step = "begin"
  BY DEF IInv, TypeOK, CallsOK, CallsBooks, SelectDebit
<1>2. PICK q \in InOrder(S, ConsumedBefore) :
        call' = [call EXCEPT ![p] = [b EXCEPT !.todo = q]]
  BY DEF SelectDebit
<1>3. /\ q \in [1..Cardinality(S) -> S]
      /\ \A i, j \in 1..Cardinality(S) : i < j => ConsumedBefore(q[i], q[j])
  <2> HIDE DEF b, S
  <2> QED BY <1>2 DEF InOrder
<1>4. \A l \in S : l \in DOMAIN lots /\ l \in LotId /\ lots[l].kind \in CreditKind
                   /\ lots[l].expiresAt \in Nat
  <2> HIDE DEF b
  <2> QED BY RowTypes
<1> DEFINE c == [b EXCEPT !.todo = q]
<1>5. /\ c.step = "lock" /\ c.op = "debit" /\ c.todo = q /\ c.held = call[p].held
      /\ c.take = call[p].take /\ c.available = call[p].available
      /\ c.amount = call[p].amount
  BY <1>1 DEF Call
<1>6. c.held = {} /\ c.take = NoLots /\ c.available = 0 /\ c.amount \in Nat
  BY <1>1, <1>5 DEF HoldsRows, CallBooks, Counts, Call
<1>7. call' = [call EXCEPT ![p] = c] /\ UNCHANGED <<lots, txs>>
  BY <1>2 DEF SelectDebit
<1> HIDE DEF b, c, S
<1>8. \A l, m \in S : ConsumedBefore(l, m) => l # m /\ (Bought(l) => Bought(m))
  <2> TAKE l, m \in S
  <2>1. /\ l \in DOMAIN lots /\ l \in Nat /\ m \in DOMAIN lots
        /\ lots[l].kind \in CreditKind /\ lots[m].kind \in CreditKind
        /\ lots[l].expiresAt \in Nat /\ lots[m].expiresAt \in Nat
    BY <1>4 DEF LotId
  <2>2. ConsumedBefore(l, m) => l # m
    <3>1. ~ (lots[l].expiresAt < lots[l].expiresAt) /\ ~ (l < l)
      BY <2>1
    <3>2. ~ ConsumedBefore(l, l)
      BY <3>1 DEF ConsumedBefore
    <3> QED BY <3>2
  <2>3. ConsumedBefore(l, m) /\ Bought(l) => Bought(m)
    <3>1. Bought(l) => lots[l].expiresAt = Never
      BY <2>1 DEF PurchasedUndated
    <3> QED BY <2>1, <3>1 DEF ConsumedBefore, Bought, CreditKind
  <2> QED BY <2>2, <2>3
<1>9. OnceEach(c)
  <2>1. IsFiniteSet(S)
    BY <1>4, RowsFinite
  <2>2. \A i, j \in 1..Cardinality(S) : i < j => q[i] # q[j]
    BY <1>3, <1>8
  <2>3. \A i, j \in DOMAIN q : q[i] = q[j] => i = j
    BY <1>3, <2>1, <2>2, Enumeration
  <2> QED BY <1>5, <1>6, <2>3 DEF OnceEach
<1>10. Counts(c)
  BY <1>5, <1>6, NothingTaken DEF Counts, Min2, NoLots
<1>11. Covers(c)
  BY <1>5 DEF Covers
<1>12. PlanFirst(c)
  <2>1. \A i, j \in DOMAIN q : i < j /\ Bought(q[i]) => Bought(q[j])
    BY <1>3, <1>8
  <2> QED BY <1>5, <1>6, <2>1 DEF PlanFirst
<1> QED BY <1>7, <1>9, <1>10, <1>11, <1>12, MoveOn DEF CallBooks

(* A listing by id has every row once.                                     *)
LEMMA ListedById ==
    ASSUME NEW S \in SUBSET LotId, NEW q \in InOrder(S, ById)
    PROVE  /\ \A i, j \in DOMAIN q : q[i] = q[j] => i = j
           /\ \A l \in S : \E i \in DOMAIN q : q[i] = l
<1>1. IsFiniteSet(S)
  BY RowsFinite
<1>2. /\ q \in [1..Cardinality(S) -> S]
      /\ \A i, j \in 1..Cardinality(S) : i < j => q[i] < q[j]
  BY DEF InOrder, ById
<1>3. \A i, j \in 1..Cardinality(S) : i < j => q[i] # q[j]
  <2>1. \A l \in S : ~ (l < l)
    BY DEF LotId
  <2> QED BY <1>2, <2>1
<1> QED BY <1>1, <1>2, <1>3, Enumeration

(* expireRenewedLots()'s SELECT.                                           *)
LEMMA SelectExpireBooks ==
    ASSUME IInv, CallsBooks, NEW p \in Proc, SelectExpire(p)
    PROVE  CallsBooks'
<1> DEFINE S == {l \in DOMAIN lots : Qualifies(call[p], l)}
<1>1. /\ call[p] \in Call /\ HoldsRows(call[p]) /\ CallBooks(call[p])
      /\ call[p].op = "expire" /\ call[p].step = "begin"
  BY DEF IInv, TypeOK, CallsOK, CallsBooks, SelectExpire
<1>2. PICK q \in InOrder(S, ById) :
        call' = [call EXCEPT ![p].step = "lock", ![p].todo = q]
  BY DEF SelectExpire
<1>3. S \in SUBSET LotId
  BY RowTypes
<1> DEFINE c == [call[p] EXCEPT !.step = "lock", !.todo = q]
<1>4. /\ c.step = "lock" /\ c.op = "expire" /\ c.todo = q /\ c.held = call[p].held
      /\ c.take = call[p].take /\ c.available = call[p].available
      /\ c.now = call[p].now
  BY <1>1 DEF Call
<1>5. c.held = {} /\ c.take = NoLots /\ c.available = 0 /\ c.now > 0
  BY <1>1, <1>4 DEF HoldsRows, CallBooks, Counts
<1>6. call' = [call EXCEPT ![p] = c] /\ UNCHANGED <<lots, txs>>
  BY <1>2 DEF SelectExpire, IInv, TypeOK
<1> HIDE DEF c, S
<1>7. OnceEach(c)
  BY <1>2, <1>3, <1>4, <1>5, ListedById DEF OnceEach
<1>8. Counts(c)
  BY <1>4, <1>5, NothingTaken DEF Counts, NoLots
<1>9. Covers(c) /\ PlanFirst(c)
  BY <1>4 DEF Covers, PlanFirst
<1> QED BY <1>6, <1>7, <1>8, <1>9, MoveOn DEF CallBooks

(* refundPartial() reads its debit, then inserts the reversal and lists    *)
(* the lots of every allocation.                                           *)
LEMMA RefundReadsBooks ==
    ASSUME IInv, CallsBooks, NEW p \in Proc, ReadOriginal(p) \/ InsertReversal(p)
    PROVE  CallsBooks'
<1>1. /\ call[p] \in Call /\ HoldsRows(call[p]) /\ CallBooks(call[p])
      /\ call[p].op = "refund" /\ call[p].step # "lock"
      /\ UNCHANGED <<lots, txs>>
  BY DEF IInv, TypeOK, CallsOK, CallsBooks, ReadOriginal, InsertReversal
<1>2. call[p].held = {} /\ call[p].take = NoLots /\ call[p].available = 0
  BY <1>1 DEF HoldsRows, CallBooks, Counts
<1>3. CASE Return(p)
  BY <1>1, <1>3, ReturnBooks
<1>4. CASE call' = [call EXCEPT ![p].step = "insert"]
  <2> DEFINE c == [call[p] EXCEPT !.step = "insert"]
  <2>1. /\ c.step = "insert" /\ c.op = "refund" /\ c.todo = call[p].todo
        /\ c.held = call[p].held /\ c.available = call[p].available
    BY <1>1 DEF Call
  <2>2. call' = [call EXCEPT ![p] = c]
    BY <1>4
  <2> HIDE DEF c
  <2>3. CallBooks(c)
    BY <1>1, <1>2, <2>1 DEF CallBooks, OnceEach, Counts, Covers, PlanFirst
  <2> QED BY <1>1, <2>2, <2>3, MoveOn
<1>5. ASSUME NEW q \in InOrder({l \in LotId : txs[call[p].target].alloc[l] > 0}, ById),
             call' = [call EXCEPT ![p].step = "lock", ![p].todo = q]
      PROVE  CallsBooks'
  <2> DEFINE S == {l \in LotId : txs[call[p].target].alloc[l] > 0}
             c == [call[p] EXCEPT !.step = "lock", !.todo = q]
  <2>1. /\ c.step = "lock" /\ c.op = "refund" /\ c.todo = q /\ c.held = {}
        /\ c.target = call[p].target
    BY <1>1, <1>2 DEF Call
  <2>2. call' = [call EXCEPT ![p] = c]
    BY <1>5 DEF IInv, TypeOK
  <2> HIDE DEF c
  <2>3. /\ \A i, j \in DOMAIN q : q[i] = q[j] => i = j
        /\ \A l \in S : \E i \in DOMAIN q : q[i] = l
    <3>1. S \in SUBSET LotId /\ q \in InOrder(S, ById)
      OBVIOUS
    <3> HIDE DEF S
    <3> QED BY <3>1, ListedById
  <2>4. CallBooks(c)
    BY <2>1, <2>3 DEF CallBooks, OnceEach, Counts, Covers, PlanFirst
  <2> QED BY <1>1, <2>2, <2>4, MoveOn
<1> QED BY <1>3, <1>4, <1>5 DEF ReadOriginal, InsertReversal

(* Locking one row more: the debit takes what it still needs of it, the    *)
(* sweep takes it all, and the sums stay right.                            *)
LEMMA LockNextBooks ==
    ASSUME IInv, CallsBooks, NEW p \in Proc, LockNext(p)
    PROVE  CallsBooks'
<1> DEFINE b == call[p]
           l == Head(b.todo)
<1>1. /\ b \in Call /\ HoldsRows(b) /\ CallBooks(b)
      /\ b.step = "lock" /\ b.todo # <<>> /\ UNCHANGED <<lots, txs>>
  BY DEF IInv, TypeOK, CallsOK, CallsBooks, LockNext
<1>2. /\ b.todo \in Seq(LotId) /\ b.held \in SUBSET LotId
      /\ b.take \in [LotId -> Nat] /\ b.available \in Nat /\ b.amount \in Nat
  BY <1>1 DEF Call
<1>3. /\ l \in DOMAIN lots /\ l \in LotId /\ l = b.todo[1] /\ 1 \in DOMAIN b.todo
      /\ \A i \in DOMAIN Tail(b.todo) :
            /\ i + 1 \in DOMAIN b.todo /\ i + 1 > 1 /\ Tail(b.todo)[i] = b.todo[i + 1]
            /\ i \in Nat
      /\ \A i \in DOMAIN b.todo : i = 1 \/ \E j \in DOMAIN Tail(b.todo) : i = j + 1
  <2>1. l \in LotId /\ l = b.todo[1] /\ 1 \in DOMAIN b.todo
    BY <1>1, <1>2
  <2>2. \A i \in DOMAIN Tail(b.todo) :
            /\ i + 1 \in DOMAIN b.todo /\ i + 1 > 1 /\ Tail(b.todo)[i] = b.todo[i + 1]
            /\ i \in Nat
    BY <1>1, <1>2
  <2>3. \A i \in DOMAIN b.todo : i = 1 \/ (i - 1 \in DOMAIN Tail(b.todo) /\ i = (i - 1) + 1)
    BY <1>1, <1>2
  <2> QED BY <1>1, <2>1, <2>2, <2>3 DEF HoldsRows
<1>4. lots[l].remaining \in Nat /\ lots[l].kind \in CreditKind /\ lots \in Seq(Lot)
  BY <1>3, RowTypes
<1>5. l \notin b.held /\ b.take[l] = 0
  BY <1>1, <1>2, <1>3 DEF CallBooks, OnceEach, HoldsRows
<1>6. Share(b, l) \in Nat /\ Share(b, l) <= lots[l].remaining
  BY <1>1, <1>3, <1>4, ShareBound
<1>7. ASSUME NEW c, c.step = "lock", c.op = b.op, c.amount = b.amount, c.now = b.now,
             c.target = b.target, c.todo = Tail(b.todo), c.held = b.held \cup {l}
      PROVE  OnceEach(c) /\ Covers(c)
  <2>1. OnceEach(c)
    <3>1. ASSUME NEW i \in DOMAIN c.todo PROVE c.todo[i] \notin c.held
      BY <1>1, <1>3, <1>7 DEF CallBooks, OnceEach
    <3>2. ASSUME NEW i \in DOMAIN c.todo, NEW j \in DOMAIN c.todo, c.todo[i] = c.todo[j]
          PROVE  i = j
      <4>1. i + 1 = j + 1 /\ i \in Nat /\ j \in Nat
        BY <1>1, <1>3, <1>7, <3>2 DEF CallBooks, OnceEach
      <4> QED BY <4>1
    <3> QED BY <3>1, <3>2 DEF OnceEach
  <2>2. Covers(c)
    <3> SUFFICES ASSUME b.op = "refund", NEW m \in LotId, txs[b.target].alloc[m] > 0
                 PROVE  m \in c.held \/ \E i \in DOMAIN c.todo : c.todo[i] = m
      BY <1>7 DEF Covers
    <3>1. m \in b.held \/ \E i \in DOMAIN b.todo : b.todo[i] = m
      BY <1>1 DEF CallBooks, Covers
    <3> QED BY <1>3, <1>7, <3>1
  <2> QED BY <2>1, <2>2
<1>8. CASE Qualifies(b, l)
  <2> DEFINE c == [b EXCEPT !.todo = Tail(@), !.held = @ \cup {l},
                            !.available = @ + lots[l].remaining,
                            !.take[l] = Share(b, l)]
  <2>1. call' = [call EXCEPT ![p] = c]
    BY <1>8 DEF LockNext
  <2>2. /\ c.step = "lock" /\ c.op = b.op /\ c.amount = b.amount /\ c.now = b.now
        /\ c.target = b.target /\ c.todo = Tail(b.todo) /\ c.held = b.held \cup {l}
        /\ c.available = b.available + lots[l].remaining
        /\ c.take = [b.take EXCEPT ![l] = Share(b, l)]
    BY <1>1 DEF Call
  <2> HIDE DEF c, b, l
  <2>3. /\ Total(c.take) = Total(b.take) + Share(b, l)
        /\ \A m \in LotId : c.take[m] = IF m = l THEN Share(b, l) ELSE b.take[m]
    <3> DEFINE sh == Share(b, l)
               f  == b.take
               h  == c.take
    <3>1. /\ f \in [LotId -> Nat] /\ l \in LotId /\ sh \in Nat
          /\ h = [f EXCEPT ![l] = sh]
      BY <1>2, <1>3, <1>6, <2>2
    <3>2. f[l] = 0
      BY <1>5
    <3> HIDE DEF sh, f, h
    <3>3. h \in [LotId -> Nat] /\ \A m \in LotId : h[m] = IF m = l THEN sh ELSE f[m]
      BY <3>1
    <3>4. f \in [LotId -> Nat] /\ l \in LotId /\ \A m \in LotId \ {l} : h[m] = f[m]
      BY <3>1, <3>3
    <3>5. Total(h) = Total(f) + h[l]
      BY <3>2, <3>3, <3>4, LotIdFinite, TotalUpdate
    <3> QED BY <3>1, <3>3, <3>5 DEF sh, f, h
  <2>4. Counts(c)
    <3>1. CASE b.op = "debit"
      <4>1. Total(b.take) = Min2(b.amount, b.available)
        BY <1>1, <3>1 DEF CallBooks, Counts
      <4>2. Share(b, l) = Min2(lots[l].remaining, Max2(0, b.amount - b.available))
        BY <3>1 DEF Share
      <4>3. Total(c.take) = Min2(b.amount, b.available + lots[l].remaining)
        <5> DEFINE r == lots[l].remaining
                   a == b.amount
                   v == b.available
        <5>1. r \in Nat /\ a \in Nat /\ v \in Nat
          BY <1>2, <1>4
        <5> HIDE DEF r, a, v
        <5>2. Min2(a, v) + Min2(r, Max2(0, a - v)) = Min2(a, v + r)
          BY <5>1 DEF Min2, Max2
        <5> QED BY <2>3, <4>1, <4>2, <5>2 DEF r, a, v
      <4>4. \A m \in LotId : b.take[m] > 0 => AliveAt(lots[m], b.now)
        BY <1>1, <3>1 DEF CallBooks, Counts
      <4>5. AliveAt(lots[l], b.now)
        BY <1>8, <3>1 DEF Qualifies
      <4>6. \A m \in LotId : c.take[m] > 0 => AliveAt(lots[m], c.now)
        BY <2>2, <2>3, <4>4, <4>5
      <4> QED BY <1>1, <2>2, <3>1, <4>3, <4>6 DEF Counts
    <3>2. CASE b.op = "expire"
      <4>1. /\ b.now > 0 /\ Total(b.take) = b.available
            /\ \A m \in LotId : b.take[m] > 0 =>
                  b.take[m] = lots[m].remaining /\ lots[m].expiresAt # Never
        BY <1>1, <3>2 DEF CallBooks, Counts
      <4>2. Share(b, l) = lots[l].remaining /\ lots[l].expiresAt # Never
        BY <1>8, <3>2 DEF Share, Qualifies
      <4> QED BY <2>2, <2>3, <3>2, <4>1, <4>2 DEF Counts
    <3>3. CASE b.op \notin {"debit", "expire"}
      BY <2>2, <3>3 DEF Counts
    <3> QED BY <3>1, <3>2, <3>3
  <2>5. PlanFirst(c)
    <3> SUFFICES ASSUME b.op = "debit" PROVE PlanFirst(c)
      BY <2>2 DEF PlanFirst
    <3>1. /\ \A i, j \in DOMAIN b.todo : i < j /\ Bought(b.todo[i]) => Bought(b.todo[j])
          /\ \A m \in b.held : PlanAlive(b, m) /\ b.available < b.amount
                => b.take[m] = lots[m].remaining
          /\ \A d \in b.held : Bought(d) /\ b.take[d] > 0 =>
                /\ \A i \in DOMAIN b.todo : Bought(b.todo[i])
                /\ \A m \in b.held : PlanAlive(b, m) => b.take[m] = lots[m].remaining
      BY <1>1 DEF CallBooks, PlanFirst
    <3>2. Share(b, l) = Min2(lots[l].remaining, Max2(0, b.amount - b.available))
      BY DEF Share
    <3>3. \A m : PlanAlive(c, m) <=> PlanAlive(b, m)
      BY <2>2 DEF PlanAlive
    <3>4. \A i, j \in DOMAIN c.todo : i < j /\ Bought(c.todo[i]) => Bought(c.todo[j])
      <4> SUFFICES ASSUME NEW i \in DOMAIN c.todo, NEW j \in DOMAIN c.todo, i < j,
                          Bought(c.todo[i])
                   PROVE  Bought(c.todo[j])
        OBVIOUS
      <4>1. /\ i + 1 \in DOMAIN b.todo /\ j + 1 \in DOMAIN b.todo /\ i + 1 < j + 1
            /\ c.todo[i] = b.todo[i + 1] /\ c.todo[j] = b.todo[j + 1]
        BY <1>3, <2>2
      <4> QED BY <3>1, <4>1
    <3>5. ASSUME NEW m \in c.held, PlanAlive(c, m), c.available < c.amount
          PROVE  c.take[m] = lots[m].remaining
      <4>1. b.available < b.amount /\ Share(b, l) = lots[l].remaining
        BY <1>2, <1>4, <2>2, <3>2, <3>5 DEF Min2, Max2
      <4>2. m \in LotId /\ (m = l \/ m \in b.held)
        BY <1>2, <1>3, <2>2
      <4> QED BY <2>3, <3>1, <3>3, <3>5, <4>1, <4>2
    <3>6. ASSUME NEW d \in c.held, Bought(d), c.take[d] > 0
          PROVE  /\ \A i \in DOMAIN c.todo : Bought(c.todo[i])
                 /\ \A m \in c.held : PlanAlive(c, m) => c.take[m] = lots[m].remaining
      <4>1. \A m \in c.held : m \in LotId /\ (m = l \/ m \in b.held)
        BY <1>2, <1>3, <2>2
      <4>2. Bought(l)
        BY <1>3, <2>3, <3>1, <3>6, <4>1
      <4>3. \A i \in DOMAIN c.todo : Bought(c.todo[i])
        BY <1>3, <2>2, <3>1, <4>2
      <4>4. ~ PlanAlive(c, l)
        BY <4>2 DEF Bought, PlanAlive
      <4>5. ASSUME NEW m \in b.held, PlanAlive(b, m) PROVE b.take[m] = lots[m].remaining
        <5>1. CASE d = l
          <6>1. b.available < b.amount
            BY <1>2, <1>3, <1>4, <2>3, <3>2, <3>6, <5>1 DEF Min2, Max2
          <6> QED BY <3>1, <4>5, <6>1
        <5>2. CASE d # l
          BY <2>3, <3>1, <3>6, <4>1, <4>5, <5>2
        <5> QED BY <5>1, <5>2
      <4> QED BY <1>5, <2>3, <3>3, <4>1, <4>3, <4>4, <4>5
    <3> QED BY <3>4, <3>5, <3>6 DEF PlanFirst
  <2> QED BY <1>1, <1>7, <2>1, <2>2, <2>4, <2>5, MoveOn DEF CallBooks
<1>9. CASE ~ Qualifies(b, l)
  <2> DEFINE c == [b EXCEPT !.todo = Tail(@), !.held = @ \cup {l}]
  <2>1. call' = [call EXCEPT ![p] = c]
    BY <1>9 DEF LockNext
  <2>2. /\ c.step = "lock" /\ c.op = b.op /\ c.amount = b.amount /\ c.now = b.now
        /\ c.target = b.target /\ c.todo = Tail(b.todo) /\ c.held = b.held \cup {l}
        /\ c.available = b.available /\ c.take = b.take
    BY <1>1 DEF Call
  <2> HIDE DEF c, b, l
  <2>3. Counts(c)
    BY <1>1, <2>2 DEF CallBooks, Counts
  <2>4. PlanFirst(c)
    <3> SUFFICES ASSUME b.op = "debit" PROVE PlanFirst(c)
      BY <2>2 DEF PlanFirst
    <3>1. /\ \A i, j \in DOMAIN b.todo : i < j /\ Bought(b.todo[i]) => Bought(b.todo[j])
          /\ \A m \in b.held : PlanAlive(b, m) /\ b.available < b.amount
                => b.take[m] = lots[m].remaining
          /\ \A d \in b.held : Bought(d) /\ b.take[d] > 0 =>
                /\ \A i \in DOMAIN b.todo : Bought(b.todo[i])
                /\ \A m \in b.held : PlanAlive(b, m) => b.take[m] = lots[m].remaining
      BY <1>1 DEF CallBooks, PlanFirst
    <3>2. PlanAlive(b, l) => b.take[l] = lots[l].remaining
      BY <1>4, <1>5, <1>9 DEF PlanAlive, Qualifies
    <3>3. \A m : PlanAlive(c, m) <=> PlanAlive(b, m)
      BY <2>2 DEF PlanAlive
    <3>4. \A i, j \in DOMAIN c.todo : i < j /\ Bought(c.todo[i]) => Bought(c.todo[j])
      <4> SUFFICES ASSUME NEW i \in DOMAIN c.todo, NEW j \in DOMAIN c.todo, i < j,
                          Bought(c.todo[i])
                   PROVE  Bought(c.todo[j])
        OBVIOUS
      <4>1. /\ i + 1 \in DOMAIN b.todo /\ j + 1 \in DOMAIN b.todo /\ i + 1 < j + 1
            /\ c.todo[i] = b.todo[i + 1] /\ c.todo[j] = b.todo[j + 1]
        BY <1>3, <2>2
      <4> QED BY <3>1, <4>1
    <3>5. \A d \in c.held : c.take[d] > 0 => d \in b.held
      BY <1>5, <2>2
    <3>6. \A d \in c.held : Bought(d) /\ c.take[d] > 0 =>
            /\ \A i \in DOMAIN c.todo : Bought(c.todo[i])
            /\ \A m \in c.held : PlanAlive(c, m) => c.take[m] = lots[m].remaining
      BY <1>3, <2>2, <3>1, <3>2, <3>3, <3>5
    <3>7. \A m \in c.held : PlanAlive(c, m) /\ c.available < c.amount
             => c.take[m] = lots[m].remaining
      BY <2>2, <3>1, <3>2, <3>3
    <3> QED BY <3>4, <3>6, <3>7 DEF PlanFirst
  <2> QED BY <1>1, <1>7, <2>1, <2>2, <2>3, <2>4, MoveOn DEF CallBooks
<1> QED BY <1>8, <1>9

-----------------------------------------------------------------------------
(* Steps that write.                                                       *)

(* Movement m is recorded; rows are written in H, or are new; no row       *)
(* changes its kind.                                                       *)
RowsWritten(H, m) ==
    /\ txs' = Append(txs, m)
    /\ DOMAIN lots \subseteq DOMAIN lots'
    /\ \A l \in DOMAIN lots : /\ lots'[l].kind = lots[l].kind
                              /\ l \notin H => lots'[l] = lots[l]

(* The rows of txs after a movement is recorded.                           *)
LEMMA Recorded ==
    ASSUME IInv, NEW m \in Movement, txs' = Append(txs, m)
    PROVE  /\ DOMAIN txs' = DOMAIN txs \cup {Len(txs) + 1}
           /\ Len(txs) + 1 \notin DOMAIN txs
           /\ IsFiniteSet(DOMAIN txs)
           /\ \A t \in DOMAIN txs : txs'[t] = txs[t] /\ txs[t] \in Movement
           /\ txs'[Len(txs) + 1] = m
           /\ Len(txs') = Len(txs) + 1 /\ Len(txs) \in Nat
<1>1. txs \in Seq(Movement) /\ Len(txs) \in Nat /\ DOMAIN txs = 1..Len(txs)
  BY DEF IInv, TypeOK
<1>2. IsFiniteSet(1..Len(txs))
  BY <1>1, FS_Interval
<1> QED BY <1>1, <1>2

(* The new movement's place.                                               *)
LEMMA RecordedSets ==
    ASSUME IInv, NEW m \in Movement, txs' = Append(txs, m)
    PROVE  /\ IsFiniteSet(DOMAIN txs) /\ IsFiniteSet(DOMAIN txs')
           /\ Len(txs) + 1 \in DOMAIN txs' /\ DOMAIN txs = DOMAIN txs' \ {Len(txs) + 1}
<1>1. IsFiniteSet(DOMAIN txs \cup {Len(txs) + 1})
  BY Recorded, FS_AddElement
<1> QED BY <1>1, Recorded

(* What a transaction counted in its own rows survives another's commit.   *)
LEMMA CommitBooks ==
    ASSUME IInv, CallsBooks, NEW H, NEW m \in Movement, RowsWritten(H, m),
           \A q \in Proc : Bystander(q, H, m.reverses)
    PROVE  CallsBooks'
<1>1. \A t \in DOMAIN txs : txs'[t] = txs[t]
  BY Recorded DEF RowsWritten
<1> SUFFICES ASSUME NEW q \in Proc PROVE CallBooks(call[q])'
  BY DEF CallsBooks
<1>2. CASE call'[q] = Idle
  <2>1. OnceEach(Idle) /\ Covers(Idle)' /\ PlanFirst(Idle)'
    BY IdleOK DEF OnceEach, Covers, PlanFirst
  <2>2. Counts(Idle)'
    BY DEF Idle, Counts
  <2> QED BY <1>2, <2>1, <2>2 DEF CallBooks, OnceEach, Counts, Covers, PlanFirst,
                                  Bought, PlanAlive
<1>3. CASE call'[q] = call[q] /\ call[q].held \cap H = {}
  <2> DEFINE c == call[q]
  <2>1. CallBooks(c) /\ HoldsRows(c) /\ HoldsDebit(c)
    BY DEF CallsBooks, IInv, CallsOK
  <2>2. \A l \in c.held : l \in DOMAIN lots /\ lots'[l] = lots[l]
    BY <1>3, <2>1 DEF HoldsRows, RowsWritten
  <2>3. \A i \in DOMAIN c.todo : Bought(c.todo[i])' <=> Bought(c.todo[i])
    BY <1>3, <2>1 DEF HoldsRows, RowsWritten, Bought
  <2>4. \A l \in c.held : /\ PlanAlive(c, l)' <=> PlanAlive(c, l)
                          /\ Bought(l)' <=> Bought(l)
    BY <1>3, <2>2 DEF PlanAlive, Bought, AliveAt
  <2>5. OnceEach(call[q])'
    BY <1>3, <2>1 DEF CallBooks, OnceEach
  <2>6. Counts(call[q])'
    BY <1>3, <2>1, <2>2 DEF CallBooks, Counts, HoldsRows, AliveAt
  <2>7. Covers(call[q])'
    BY <1>1, <1>3, <2>1 DEF CallBooks, Covers, HoldsDebit
  <2>8. PlanFirst(call[q])'
    BY <1>3, <2>1, <2>2, <2>3, <2>4 DEF CallBooks, PlanFirst
  <2> QED BY <2>5, <2>6, <2>7, <2>8 DEF CallBooks
<1> QED BY <1>2, <1>3 DEF Bystander

(* A new row counts in the sums over the movements.                        *)
LEMMA SumRecorded ==
    ASSUME IInv, NEW m \in Movement, txs' = Append(txs, m)
    PROVE  \A f \in [DOMAIN txs -> Nat], g \in [DOMAIN txs' -> Nat] :
             (\A t \in DOMAIN txs : g[t] = f[t])
               => Total(g) = Total(f) + g[Len(txs) + 1] /\ Total(f) \in Nat
<1> DEFINE S == DOMAIN txs
           T == DOMAIN txs'
           x == Len(txs) + 1
<1>1. /\ IsFiniteSet(S) /\ IsFiniteSet(T) /\ x \in T /\ x \notin S
      /\ \A t \in S : t \in T
      /\ \A t \in T : t = x \/ t \in S
  BY RecordedSets
<1> HIDE DEF S, T, x
<1>2. ASSUME NEW f \in [S -> Nat], NEW g \in [T -> Nat], \A t \in S : g[t] = f[t]
      PROVE  Total(g) = Total(f) + g[x] /\ Total(f) \in Nat
  BY <1>1, <1>2, TotalInsert, TotalType
<1> QED BY <1>2 DEF S, T, x

(* Credits moved by a type of movement, one row later.                     *)
LEMMA MovedRecorded ==
    ASSUME IInv, NEW m \in Movement, txs' = Append(txs, m), NEW type
    PROVE  /\ Moved(type) \in Nat
           /\ Moved(type)' = Moved(type) + IF m.type = type THEN m.amount ELSE 0
<1> DEFINE f == [t \in DOMAIN txs |-> IF txs[t].type = type THEN txs[t].amount ELSE 0]
           g == [t \in DOMAIN txs' |-> IF txs'[t].type = type THEN txs'[t].amount ELSE 0]
           n == IF m.type = type THEN m.amount ELSE 0
<1>1. m.amount \in Nat /\ \A t \in DOMAIN txs : txs[t].amount \in Nat
  BY Recorded DEF Movement
<1>2. /\ f \in [DOMAIN txs -> Nat] /\ g \in [DOMAIN txs' -> Nat]
      /\ \A t \in DOMAIN txs : g[t] = f[t]
      /\ g[Len(txs) + 1] = n
  BY <1>1, Recorded
<1>3. Moved(type) = Total(f) /\ Moved(type)' = Total(g)
  BY DEF Moved
<1> HIDE DEF f, g, n
<1>4. Total(g) = Total(f) + g[Len(txs) + 1] /\ Total(f) \in Nat
  BY <1>2, SumRecorded
<1> QED BY <1>2, <1>3, <1>4 DEF n

(* Credits drawn from a lot, one row later.                                *)
LEMMA DrawnRecorded ==
    ASSUME IInv, NEW m \in Movement, txs' = Append(txs, m), NEW l \in LotId
    PROVE  /\ Drawn(l) \in Nat
           /\ Drawn(l)' = Drawn(l) + IF m.type = "DEBIT" THEN m.alloc[l] ELSE 0
<1> DEFINE f == [t \in DOMAIN txs |-> IF txs[t].type = "DEBIT" THEN txs[t].alloc[l] ELSE 0]
           g == [t \in DOMAIN txs' |-> IF txs'[t].type = "DEBIT" THEN txs'[t].alloc[l] ELSE 0]
           n == IF m.type = "DEBIT" THEN m.alloc[l] ELSE 0
<1>1. m.alloc[l] \in Nat /\ \A t \in DOMAIN txs : txs[t].alloc[l] \in Nat
  BY Recorded DEF Movement
<1>2. /\ f \in [DOMAIN txs -> Nat] /\ g \in [DOMAIN txs' -> Nat]
      /\ \A t \in DOMAIN txs : g[t] = f[t]
      /\ g[Len(txs) + 1] = n
  BY <1>1, Recorded
<1>3. Drawn(l) = Total(f) /\ Drawn(l)' = Total(g)
  BY DEF Drawn
<1> HIDE DEF f, g, n
<1>4. Total(g) = Total(f) + g[Len(txs) + 1] /\ Total(f) \in Nat
  BY <1>2, SumRecorded
<1> QED BY <1>2, <1>3, <1>4 DEF n

(* Credits given back to a lot, one row later.                             *)
LEMMA ReturnedRecorded ==
    ASSUME IInv, RefundsReverse, NEW m \in Movement, txs' = Append(txs, m),
           m.type = "REFUND" => m.reverses \in DOMAIN txs, NEW l \in LotId
    PROVE  /\ Returned(l) \in Nat
           /\ Returned(l)' = Returned(l)
                + IF m.type = "REFUND" /\ txs[m.reverses].alloc[l] > 0 THEN m.alloc[l] ELSE 0
<1> DEFINE f == [t \in DOMAIN txs |->
                   IF txs[t].type = "REFUND" /\ txs[txs[t].reverses].alloc[l] > 0
                   THEN txs[t].alloc[l] ELSE 0]
           g == [t \in DOMAIN txs' |->
                   IF txs'[t].type = "REFUND" /\ txs'[txs'[t].reverses].alloc[l] > 0
                   THEN txs'[t].alloc[l] ELSE 0]
           n == IF m.type = "REFUND" /\ txs[m.reverses].alloc[l] > 0 THEN m.alloc[l] ELSE 0
<1>1. m.alloc[l] \in Nat /\ \A t \in DOMAIN txs : txs[t].alloc[l] \in Nat
  BY Recorded DEF Movement
<1>2. \A t \in DOMAIN txs : txs[t].type = "REFUND" => txs[t].reverses \in DOMAIN txs
  BY DEF IInv, RefundedOnce, RefundsReverse
<1>3. \A t \in DOMAIN txs' : txs'[t].alloc[l] \in Nat
  BY <1>1, Recorded
<1>4. f \in [DOMAIN txs -> Nat] /\ g \in [DOMAIN txs' -> Nat]
  BY <1>1, <1>3
<1>5. \A t \in DOMAIN txs : g[t] = f[t]
  BY <1>2, Recorded
<1>6. g[Len(txs) + 1] = n
  BY Recorded
<1>7. Returned(l) = Total(f) /\ Returned(l)' = Total(g)
  BY DEF Returned
<1> HIDE DEF f, g, n
<1>8. Total(g) = Total(f) + g[Len(txs) + 1] /\ Total(f) \in Nat
  BY <1>4, <1>5, SumRecorded
<1> QED BY <1>6, <1>7, <1>8 DEF n

(* Sums over lots.                                                         *)
LEMMA LotsAdd ==
    ASSUME NEW f \in [LotId -> Nat], NEW d \in [LotId -> Nat], NEW h \in [LotId -> Nat],
           \A l \in LotId : h[l] = f[l] + d[l]
    PROVE  /\ Total(h) = Total(f) + Total(d)
           /\ Total(f) \in Nat /\ Total(d) \in Nat /\ Total(h) \in Nat
<1>1. Total(h) = Total(f) + Total(d)
  BY LotIdFinite, TotalAdd
<1>2. Total(f) \in Nat /\ Total(d) \in Nat /\ Total(h) \in Nat
  BY LotIdFinite, TotalType
<1> QED BY <1>1, <1>2

(* A lot that is not there counts for nothing.                             *)
LEMMA LotsExtend ==
    ASSUME NEW f, f \in [DOMAIN f -> Nat], NEW pad \in [LotId -> Nat],
           \A l \in DOMAIN f : l \in LotId /\ pad[l] = f[l],
           \A l \in LotId : l \in DOMAIN f \/ pad[l] = 0
    PROVE  Total(f) = Total(pad) /\ Total(pad) \in Nat
<1> DEFINE S == DOMAIN f
<1>1. /\ f \in [S -> Nat] /\ S \subseteq LotId
      /\ \A l \in S : pad[l] = f[l]
      /\ \A l \in LotId \ S : pad[l] = 0
  OBVIOUS
<1> HIDE DEF S
<1>2. Total(pad) = Total(f)
  BY <1>1, TotalExtend
<1>3. Total(pad) \in Nat
  BY LotIdFinite, TotalType
<1> QED BY <1>2, <1>3

(* The credits left in a table of lots.                                    *)
Left(rows) == Total([l \in DOMAIN rows |-> rows[l].remaining])

(* They may be counted over all ids, no lot counting for nothing.          *)
LEMMA LeftPadded ==
    ASSUME NEW rows \in Seq(Lot), Len(rows) <= MaxLots
    PROVE  LET pad == [l \in LotId |-> IF l \in DOMAIN rows THEN rows[l].remaining ELSE 0]
           IN  Left(rows) = Total(pad) /\ Left(rows) \in Nat /\ pad \in [LotId -> Nat]
<1> DEFINE f   == [l \in DOMAIN rows |-> rows[l].remaining]
           pad == [l \in LotId |-> IF l \in DOMAIN rows THEN rows[l].remaining ELSE 0]
<1>1. \A l \in DOMAIN rows : l \in LotId /\ rows[l] \in Lot
  BY LedgerAssumption DEF LotId
<1>2. \A l \in DOMAIN rows : rows[l].remaining \in Nat
  BY <1>1 DEF Lot
<1>3. /\ f \in [DOMAIN f -> Nat] /\ pad \in [LotId -> Nat]
      /\ \A l \in DOMAIN f : l \in LotId /\ pad[l] = f[l]
      /\ \A l \in LotId : l \in DOMAIN f \/ pad[l] = 0
  BY <1>1, <1>2
<1>4. Left(rows) = Total(f)
  BY DEF Left
<1> HIDE DEF f, pad
<1>5. Total(f) = Total(pad) /\ Total(pad) \in Nat
  BY <1>3, LotsExtend
<1> QED BY <1>3, <1>4, <1>5 DEF pad

(* Rows b have d more than rows a.                                         *)
LEMMA LeftMoved ==
    ASSUME NEW a \in Seq(Lot), NEW b \in Seq(Lot), Len(a) <= Len(b), Len(b) <= MaxLots,
           NEW d \in [LotId -> Nat],
           \A l \in DOMAIN a : b[l].remaining = a[l].remaining + d[l],
           \A l \in DOMAIN b : l \in DOMAIN a \/ b[l].remaining = d[l],
           \A l \in LotId : l \in DOMAIN b \/ d[l] = 0
    PROVE  /\ Left(b) = Left(a) + Total(d)
           /\ Left(a) \in Nat /\ Left(b) \in Nat /\ Total(d) \in Nat
<1> DEFINE f == [l \in LotId |-> IF l \in DOMAIN a THEN a[l].remaining ELSE 0]
           h == [l \in LotId |-> IF l \in DOMAIN b THEN b[l].remaining ELSE 0]
<1>1. Len(a) <= MaxLots
  BY LedgerAssumption
<1>2. /\ Left(a) = Total(f) /\ Left(a) \in Nat /\ f \in [LotId -> Nat]
      /\ Left(b) = Total(h) /\ Left(b) \in Nat /\ h \in [LotId -> Nat]
  BY <1>1, LeftPadded
<1>3. \A l \in LotId : h[l] = f[l] + d[l]
  <2> TAKE l \in LotId
  <2>1. l \in DOMAIN a => l \in DOMAIN b
    OBVIOUS
  <2>2. d[l] \in Nat
    OBVIOUS
  <2> QED BY <2>1, <2>2
<1> HIDE DEF f, h
<1>4. Total(h) = Total(f) + Total(d) /\ Total(d) \in Nat
  BY <1>2, <1>3, LotsAdd
<1> QED BY <1>2, <1>4

(* The balance is what is left in the lots.                                *)
LEMMA BalanceIsLeft == /\ Total(Remaining) = Left(lots)
                       /\ Total(Remaining)' = Left(lots')
BY DEF Remaining, Left

(* Rows after a commit that takes take from them: each lot has that much   *)
(* less, and a lot nothing is taken from is as it was.                     *)
TakenFrom(take) ==
    /\ DOMAIN lots' = DOMAIN lots
    /\ \A l \in LotId : l \in DOMAIN lots \/ take[l] = 0
    /\ \A l \in DOMAIN lots :
         /\ lots'[l].kind = lots[l].kind /\ lots'[l].granted = lots[l].granted
         /\ lots[l].remaining = lots'[l].remaining + take[l]
         /\ take[l] = 0 => lots'[l] = lots[l]

(* debit()'s writes.                                                       *)
LEMMA DebitWrites ==
    ASSUME IInv, NEW p \in Proc, CommitDebit(p), ~ (call[p].available < call[p].amount)
    PROVE  LET c == call[p]
               m == [type |-> "DEBIT", amount |-> c.amount, reverses |-> 0,
                     event |-> NoEvent, alloc |-> c.take]
           IN  /\ m \in Movement /\ txs' = Append(txs, m)
               /\ TakenFrom(c.take)
               /\ \A l \in DOMAIN lots : lots'[l].expiresAt = lots[l].expiresAt
<1> DEFINE c == call[p]
           m == [type |-> "DEBIT", amount |-> c.amount, reverses |-> 0,
                 event |-> NoEvent, alloc |-> c.take]
<1>1. c \in Call /\ HoldsRows(c)
  BY DEF IInv, TypeOK, CallsOK
<1>2. c.take \in [LotId -> Nat] /\ c.amount \in Nat
  BY <1>1 DEF Call
<1>3. m \in Movement
  BY <1>2 DEF Movement
<1>4. /\ txs' = Append(txs, m)
      /\ lots' = [l \in DOMAIN lots |-> [lots[l] EXCEPT !.remaining = @ - c.take[l]]]
  BY DEF CommitDebit
<1>5. \A l \in LotId : l \in DOMAIN lots \/ c.take[l] = 0
  BY <1>1, <1>2 DEF HoldsRows
<1>6. ASSUME NEW l \in DOMAIN lots
      PROVE  /\ lots'[l].kind = lots[l].kind /\ lots'[l].granted = lots[l].granted
             /\ lots'[l].expiresAt = lots[l].expiresAt
             /\ lots[l].remaining = lots'[l].remaining + c.take[l]
             /\ c.take[l] = 0 => lots'[l] = lots[l]
  <2>1. /\ lots[l] \in Lot /\ lots[l].remaining \in Nat /\ l \in LotId
        /\ c.take[l] \in Nat /\ c.take[l] <= lots[l].remaining
    BY <1>1, <1>2, RowTypes DEF HoldsRows
  <2>2. lots[l].remaining - c.take[l] \in Nat
    BY <2>1
  <2>3. lots'[l] = [lots[l] EXCEPT !.remaining = lots[l].remaining - c.take[l]]
    BY <1>4
  <2>4. /\ lots'[l].kind = lots[l].kind /\ lots'[l].granted = lots[l].granted
        /\ lots'[l].expiresAt = lots[l].expiresAt
        /\ lots'[l].remaining = lots[l].remaining - c.take[l]
    BY <2>1, <2>2, <2>3, SetRemaining
  <2>5. c.take[l] = 0 => lots'[l] = lots[l]
    <3>1. c.take[l] = 0 => lots[l].remaining - c.take[l] = lots[l].remaining
      BY <2>1
    <3> QED BY <2>1, <2>3, <3>1 DEF Lot
  <2> QED BY <2>1, <2>4, <2>5
<1> QED BY <1>3, <1>4, <1>5, <1>6 DEF TakenFrom

(* expireRenewedLots()'s writes: a swept lot gave all it had, and reads as *)
(* expired from now on.                                                    *)
LEMMA ExpireWrites ==
    ASSUME IInv, CallsBooks, NEW p \in Proc, CommitExpire(p),
           {l \in DOMAIN lots : call[p].take[l] > 0} # {}
    PROVE  LET c == call[p]
               m == [type |-> "EXPIRE", amount |-> c.available, reverses |-> 0,
                     event |-> NoEvent, alloc |-> NoLots]
           IN  /\ m \in Movement /\ txs' = Append(txs, m)
               /\ TakenFrom(c.take)
               /\ \A l \in DOMAIN lots : c.take[l] > 0 =>
                    /\ lots'[l].remaining = 0 /\ ~ AliveAt(lots'[l], clock)
                    /\ lots[l].expiresAt # Never /\ lots'[l].expiresAt <= lots[l].expiresAt
<1> DEFINE c == call[p]
           m == [type |-> "EXPIRE", amount |-> c.available, reverses |-> 0,
                 event |-> NoEvent, alloc |-> NoLots]
           deadAt == Min2(c.now, clock)
<1>1. /\ c \in Call /\ HoldsRows(c) /\ CallBooks(c) /\ c.op = "expire"
      /\ clock \in Nat /\ clock > 0
  BY DEF IInv, TypeOK, CallsOK, CallsBooks, CommitExpire
<1>2. /\ c.take \in [LotId -> Nat] /\ c.available \in Nat
      /\ deadAt \in Nat /\ deadAt > 0 /\ deadAt <= clock
  BY <1>1 DEF Call, CallBooks, Counts, Min2
<1>3. m \in Movement
  BY <1>2 DEF Movement, NoLots
<1>4. /\ txs' = Append(txs, m)
      /\ lots' = [l \in DOMAIN lots |->
                    IF c.take[l] > 0 THEN Swept(lots[l], deadAt) ELSE lots[l]]
  BY DEF CommitExpire
<1>5. \A l \in LotId : l \in DOMAIN lots \/ c.take[l] = 0
  BY <1>1, <1>2 DEF HoldsRows
<1> HIDE DEF deadAt
<1>6. ASSUME NEW l \in DOMAIN lots, c.take[l] > 0
      PROVE  /\ lots'[l].kind = lots[l].kind /\ lots'[l].granted = lots[l].granted
             /\ lots'[l].remaining = 0 /\ ~ AliveAt(lots'[l], clock)
             /\ lots[l].expiresAt # Never /\ lots'[l].expiresAt <= lots[l].expiresAt
             /\ lots[l].remaining = c.take[l]
  <2>1. /\ lots[l] \in Lot /\ lots[l].expiresAt \in Nat /\ l \in LotId
    BY RowTypes
  <2>2. c.take[l] = lots[l].remaining /\ lots[l].expiresAt # Never
    BY <1>1, <1>6, <2>1 DEF CallBooks, Counts
  <2>3. /\ lots'[l].kind = lots[l].kind /\ lots'[l].granted = lots[l].granted
        /\ lots'[l].remaining = 0 /\ lots'[l].expiresAt = Min2(lots[l].expiresAt, deadAt)
    BY <1>4, <1>6, <2>1 DEF Swept, Lot
  <2>4. /\ Min2(lots[l].expiresAt, deadAt) # Never
        /\ Min2(lots[l].expiresAt, deadAt) <= clock
        /\ Min2(lots[l].expiresAt, deadAt) <= lots[l].expiresAt
        /\ Min2(lots[l].expiresAt, deadAt) \in Nat
    BY <1>1, <1>2, <2>1, <2>2 DEF Min2, Never
  <2>5. ~ AliveAt(lots'[l], clock)
    BY <1>1, <2>3, <2>4 DEF AliveAt
  <2> QED BY <2>2, <2>3, <2>4, <2>5
<1>7. ASSUME NEW l \in DOMAIN lots, ~ (c.take[l] > 0)
      PROVE  lots'[l] = lots[l] /\ c.take[l] = 0
  BY <1>2, <1>4, <1>7, RowTypes
<1>8. \A l \in DOMAIN lots : lots[l].remaining \in Nat
  BY RowTypes
<1>9. DOMAIN lots' = DOMAIN lots
  BY <1>4
<1>10. TakenFrom(c.take)
  <2> SUFFICES ASSUME NEW l \in DOMAIN lots
               PROVE  /\ lots'[l].kind = lots[l].kind /\ lots'[l].granted = lots[l].granted
                      /\ lots[l].remaining = lots'[l].remaining + c.take[l]
                      /\ c.take[l] = 0 => lots'[l] = lots[l]
    BY <1>5, <1>9 DEF TakenFrom
  <2> HIDE DEF c
  <2>1. CASE c.take[l] > 0
    BY <1>6, <1>8, <2>1
  <2>2. CASE ~ (c.take[l] > 0)
    BY <1>7, <1>8, <2>2
  <2> QED BY <2>1, <2>2
<1> QED BY <1>3, <1>4, <1>6, <1>10

-----------------------------------------------------------------------------
(* The refund's arithmetic adds up.                                        *)

(* The shares of a proportional split add up to the refund, and only lots  *)
(* the debit drew on have one.                                             *)
LEMMA SplitSums ==
    ASSUME NEW debit \in Movement, debit.amount > 0, NEW credits \in Nat,
           NEW share \in Splits(debit, credits)
    PROVE  /\ Total(share) = credits
           /\ \A l \in LotId : share[l] > 0 => debit.alloc[l] > 0
<1>1. debit.alloc \in [LotId -> Nat] /\ debit.amount \in Nat
  BY DEF Movement
<1> DEFINE D     == {l \in LotId : debit.alloc[l] > 0}
           floor == [l \in LotId |-> (debit.alloc[l] * credits) \div debit.amount]
<1>2. \A l \in LotId : debit.alloc[l] * credits \in Nat
  BY <1>1
<1>3. floor \in [LotId -> Nat]
  BY <1>1, <1>2, Quotient
<1>4. PICK R \in SUBSET D :
        /\ Cardinality(R) = credits - Total(floor)
        /\ share = [l \in LotId |-> IF l \in R THEN floor[l] + 1 ELSE floor[l]]
  BY DEF Splits
<1>5. \A l \in LotId \ D : floor[l] = 0
  <2> SUFFICES ASSUME NEW l \in LotId, l \notin D PROVE floor[l] = 0
    OBVIOUS
  <2>1. debit.alloc[l] = 0
    BY <1>1
  <2>2. 0 * credits = 0 /\ 0 \div debit.amount = 0
    BY <1>1
  <2> QED BY <2>1, <2>2
<1> DEFINE one == [l \in LotId |-> IF l \in R THEN 1 ELSE 0]
<1>6. one \in [LotId -> Nat] /\ R \in SUBSET LotId
      /\ \A l \in LotId : one[l] = IF l \in R THEN 1 ELSE 0
  OBVIOUS
<1>7. \A l \in LotId : share[l] > 0 => debit.alloc[l] > 0
  <2> HIDE DEF floor
  <2> QED BY <1>3, <1>4, <1>5
<1> HIDE DEF floor
<1>8. share \in [LotId -> Nat] /\ \A l \in LotId : share[l] = floor[l] + one[l]
  BY <1>3, <1>4
<1> HIDE DEF one
<1>9. Total(one) = Cardinality(R)
  BY <1>6, LotIdFinite, TotalCount
<1>10. Total(share) = Total(floor) + Total(one) /\ Total(floor) \in Nat
  BY <1>3, <1>6, <1>8, LotsAdd
<1> QED BY <1>4, <1>7, <1>9, <1>10

(* Amounts gathered from lots into other lots.                             *)
LEMMA LotsGathered ==
    ASSUME NEW f \in [LotId -> Nat], NEW g \in [LotId -> Nat],
           NEW F \in [LotId -> [LotId -> Nat]],
           \A i \in LotId : g[i] = Total(F[i]),
           \A i \in LotId, x \in LotId : F[i][x] = 0 \/ F[i][x] = f[x],
           \A x \in LotId : f[x] > 0 => \E i \in LotId : F[i][x] = f[x],
           \A i, j \in LotId, x \in LotId : i = j \/ F[i][x] = 0 \/ F[j][x] = 0
    PROVE  Total(g) = Total(f)
<1>1. IsFiniteSet(Units(f))
  BY LotIdFinite, TotalType
<1>2. ASSUME NEW i \in LotId PROVE \E b : b \in Bijection(1..g[i], Units(F[i]))
  <2>1. F[i] \in [LotId -> Nat]
    OBVIOUS
  <2>2. IsFiniteSet(Units(F[i]))
    BY <2>1, LotIdFinite, TotalType
  <2>3. ExistsBijection(1..g[i], Units(F[i]))
    BY <2>2, FS_CardinalityType DEF Total
  <2> QED BY <2>3 DEF ExistsBijection
<1> DEFINE B(i) == CHOOSE b : b \in Bijection(1..g[i], Units(F[i]))
<1>3. \A i \in LotId : B(i) \in Bijection(1..g[i], Units(F[i]))
  BY <1>2
<1> HIDE DEF B
<1>4. \A i \in LotId : \A k \in 1..g[i] : B(i)[k] \in Units(F[i])
  BY <1>3 DEF Bijection, Injection
<1>5. ASSUME NEW i \in LotId, NEW u \in Units(F[i]) PROVE u \in Units(f)
  <2>1. F[i] \in [LotId -> Nat]
    OBVIOUS
  <2>2. u = <<u[1], u[2]>> /\ u[1] \in LotId /\ u[2] \in 1..F[i][u[1]]
    BY <2>1, UnitsMembers
  <2>3. F[i][u[1]] = f[u[1]]
    BY <2>2
  <2> QED BY <2>2, <2>3, UnitsMembers
<1>6. ASSUME NEW i \in LotId, NEW j \in LotId, NEW u \in Units(F[i]), u \in Units(F[j]) PROVE i = j
  <2>1. F[i] \in [LotId -> Nat] /\ F[j] \in [LotId -> Nat]
    OBVIOUS
  <2>2. u[1] \in LotId /\ u[2] \in 1..F[i][u[1]] /\ u[2] \in 1..F[j][u[1]]
    BY <1>6, <2>1, UnitsMembers
  <2>3. F[i][u[1]] # 0 /\ F[j][u[1]] # 0
    BY <2>2
  <2> QED BY <2>2, <2>3
<1>7. ASSUME NEW u \in Units(f) PROVE \E i \in LotId : u \in Units(F[i])
  <2>1. u = <<u[1], u[2]>> /\ u[1] \in LotId /\ u[2] \in 1..f[u[1]]
    BY UnitsMembers
  <2>2. PICK i \in LotId : F[i][u[1]] = f[u[1]]
    BY <2>1
  <2>3. F[i] \in [LotId -> Nat]
    OBVIOUS
  <2>4. <<u[1], u[2]>> \in Units(F[i])
    BY <2>1, <2>2, <2>3, UnitsMembers
  <2> QED BY <2>1, <2>4
<1> DEFINE h == [w \in Units(g) |-> B(w[1])[w[2]]]
<1>8. \A w \in Units(g) : w = <<w[1], w[2]>> /\ w[1] \in LotId /\ w[2] \in 1..g[w[1]]
  BY UnitsMembers
<1>9. h \in [Units(g) -> Units(f)]
  BY <1>4, <1>5, <1>8
<1>10. ASSUME NEW v \in Units(g), NEW w \in Units(g), h[v] = h[w] PROVE v = w
  <2>1. B(v[1])[v[2]] = B(w[1])[w[2]]
    BY <1>10
  <2>2. v[1] = w[1]
    BY <1>4, <1>6, <1>8, <2>1
  <2>3. v[2] = w[2]
    BY <1>3, <1>8, <2>1, <2>2 DEF Bijection, Injection, IsInjective
  <2> QED BY <1>8, <2>2, <2>3
<1>11. ASSUME NEW u \in Units(f) PROVE \E w \in Units(g) : h[w] = u
  <2>1. PICK i \in LotId : u \in Units(F[i])
    BY <1>7
  <2>2. PICK k \in 1..g[i] : B(i)[k] = u
    BY <1>3, <2>1 DEF Bijection, Surjection
  <2>3. <<i, k>> \in Units(g)
    BY UnitsMembers
  <2> QED BY <2>2, <2>3
<1> HIDE DEF h
<1>12. h \in Bijection(Units(g), Units(f)) /\ h \in Injection(Units(g), Units(f))
  BY <1>9, <1>10, <1>11 DEF Bijection, Injection, Surjection, IsInjective
<1>13. IsFiniteSet(Units(g))
  BY <1>1, <1>12, FS_Injection
<1>14. ExistsBijection(Units(g), Units(f))
  BY <1>12 DEF ExistsBijection
<1> QED BY <1>13, <1>14, FS_Bijection DEF Total

(* The replacement lots hold what did not go back: each lot's rest is in   *)
(* the one replacement lot of its kind and lifetime.                       *)
LEMMA OrphansSum ==
    ASSUME IInv, NEW rest \in [LotId -> Nat], NEW now \in Nat,
           \A l \in LotId : rest[l] > 0 => l \in DOMAIN lots,
           Len(lots) + Cardinality(OrphanKeys(rest, now)) <= MaxLots
    PROVE  LET keys == OrphanKeys(rest, now)
               n    == Cardinality(keys)
           IN  \A key \in [1..n -> keys] :
                 (\A i, j \in 1..n : i # j => key[i] # key[j])
                 => Total([l \in LotId |-> IF l \in (Len(lots) + 1)..(Len(lots) + n)
                             THEN OrphanAmount(rest, now, key[l - Len(lots)]) ELSE 0])
                    = Total(rest)
<1> DEFINE n == Cardinality(OrphanKeys(rest, now))
<1>0. SUFFICES ASSUME NEW key \in [1..n -> OrphanKeys(rest, now)],
                    \A i, j \in 1..n : i # j => key[i] # key[j],
                    NEW o,
                    o = [l \in LotId |-> IF l \in (Len(lots) + 1)..(Len(lots) + n)
                           THEN OrphanAmount(rest, now, key[l - Len(lots)]) ELSE 0]
             PROVE  Total(o) = Total(rest)
  OBVIOUS
<1>1. n \in Nat
  BY OrphansType
<1> HIDE DEF n
<1>2. /\ o \in [LotId -> Nat]
       /\ \A l \in LotId : o[l] = IF l \in (Len(lots) + 1)..(Len(lots) + n)
                                   THEN OrphanAmount(rest, now, key[l - Len(lots)]) ELSE 0
  <2>1. \A k : OrphanAmount(rest, now, k) \in Nat
    BY OrphansType
  <2> QED BY <1>0, <2>1
<1> DEFINE N      == Len(lots)
           New    == (N + 1)..(N + n)
           Key(l) == <<lots[l].kind, refundLotExpiry(lots[l], now)>>
           keys   == OrphanKeys(rest, now)
           F      == [i \in LotId |-> [x \in LotId |->
                        IF i \in New /\ x \in DOMAIN lots /\ key[i - N] = Key(x)
                        THEN rest[x] ELSE 0]]
<1>3. N \in Nat /\ n \in Nat /\ DOMAIN lots \subseteq LotId /\ N + n <= MaxLots
  BY <1>1, RowTypes DEF n
<1>4. \A i \in New : i \in LotId /\ i - N \in 1..n /\ i \in Int
  BY <1>3, LedgerAssumption DEF LotId
<1>5. keys = {Key(l) : l \in {m \in DOMAIN lots : rest[m] > 0}}
  BY DEF OrphanKeys
<1>6. \A k \in keys : \E i \in 1..n : key[i] = k
  <2> DEFINE S == OrphanKeys(rest, now)
  <2>1. IsFiniteSet(S)
    <3> DEFINE D == {m \in DOMAIN lots : rest[m] > 0}
               f == [l \in D |-> Key(l)]
    <3>1. IsFiniteSet(D)
      <4>1. D \in SUBSET LotId
        BY <1>3
      <4> QED BY <4>1, RowsFinite
    <3>2. f \in Surjection(D, {Key(l) : l \in D})
      <4> HIDE DEF D, Key
      <4> QED BY DEF Surjection
    <3>3. S = {Key(l) : l \in D}
      BY <1>5
    <3> HIDE DEF D, Key, f, S
    <3> QED BY <3>1, <3>2, <3>3, FS_Surjection
  <2>2. /\ key \in [1..Cardinality(S) -> S]
        /\ \A i, j \in 1..Cardinality(S) : i < j => key[i] # key[j]
    BY <1>0, <1>3 DEF n
  <2>3. DOMAIN key = 1..n
    OBVIOUS
  <2> HIDE DEF S
  <2>4. \A k \in S : \E i \in DOMAIN key : key[i] = k
    BY <2>1, <2>2, Enumeration
  <2> QED BY <2>3, <2>4 DEF S
<1> HIDE DEF Key
<1>7. F \in [LotId -> [LotId -> Nat]]
  OBVIOUS
<1>8. \A i, x \in LotId : F[i][x] = 0 \/ F[i][x] = rest[x]
  OBVIOUS
<1>9. \A i \in LotId : o[i] = Total(F[i])
  <2> TAKE i \in LotId
  <2>1. CASE i \in New
    <3>1. F[i] = [x \in LotId |-> IF x \in DOMAIN lots /\ key[i - N] = Key(x)
                                  THEN rest[x] ELSE 0]
      BY <2>1
    <3>2. OrphanAmount(rest, now, key[i - N]) = Total(F[i])
      BY <3>1 DEF OrphanAmount, Key
    <3> QED BY <1>2, <2>1, <3>2
  <2>2. CASE i \notin New
    <3>1. F[i] \in [LotId -> Nat] /\ \A x \in LotId : F[i][x] = 0
      BY <2>2
    <3>2. Total(F[i]) = 0
      <4> HIDE DEF F
      <4> QED BY <3>1, TotalZero
    <3> QED BY <1>2, <2>2, <3>2
  <2> QED BY <2>1, <2>2
<1>10. \A x \in LotId : rest[x] > 0 => \E i \in LotId : F[i][x] = rest[x]
  <2> SUFFICES ASSUME NEW x \in LotId, rest[x] > 0
               PROVE  \E i \in LotId : F[i][x] = rest[x]
    OBVIOUS
  <2>1. x \in DOMAIN lots /\ Key(x) \in keys
    BY <1>5
  <2>2. PICK k \in 1..n : key[k] = Key(x)
    BY <1>6, <2>1
  <2>3. N + k \in New /\ (N + k) - N = k /\ k \in Int
    BY <1>3
  <2>4. N + k \in LotId
    BY <1>4, <2>3
  <2>5. F[N + k][x] = rest[x]
    BY <2>1, <2>2, <2>3, <2>4
  <2> QED BY <2>4, <2>5
<1>11. \A i, j, x \in LotId : i = j \/ F[i][x] = 0 \/ F[j][x] = 0
  <2> SUFFICES ASSUME NEW i \in LotId, NEW j \in LotId, NEW x \in LotId,
                      F[i][x] # 0, F[j][x] # 0
               PROVE  i = j
    OBVIOUS
  <2>1. /\ i \in New /\ j \in New /\ key[i - N] = Key(x) /\ key[j - N] = Key(x)
    OBVIOUS
  <2>2. i - N = j - N
    BY <1>0, <1>4, <2>1
  <2> QED BY <1>3, <1>4, <2>1, <2>2
<1>12. o \in [LotId -> Nat]
  BY <1>2
<1>13. \A i \in LotId, x \in LotId : F[i][x] = 0 \/ F[i][x] = rest[x]
  BY <1>8
<1>14. \A i, j \in LotId, x \in LotId : i = j \/ F[i][x] = 0 \/ F[j][x] = 0
  BY <1>11
<1> HIDE DEF F, N, New, keys
<1> QED BY <1>7, <1>9, <1>10, <1>12, <1>13, <1>14, LotsGathered, Zenon

(* Rows after a commit that gives alloc to them, to new ones too; a new    *)
(* one is alive.                                                           *)
GivenTo(alloc) ==
    /\ DOMAIN lots \subseteq DOMAIN lots'
    /\ \A l \in LotId : l \in DOMAIN lots' \/ alloc[l] = 0
    /\ \A l \in DOMAIN lots :
         /\ lots'[l].kind = lots[l].kind /\ lots'[l].granted = lots[l].granted
         /\ lots'[l].expiresAt = lots[l].expiresAt
         /\ lots'[l].remaining = lots[l].remaining + alloc[l]
         /\ alloc[l] = 0 => lots'[l] = lots[l]
    /\ \A l \in DOMAIN lots' : l \in DOMAIN lots \/
         /\ lots'[l].remaining = alloc[l] /\ lots'[l].granted = alloc[l]
         /\ lots'[l].kind = "PURCHASED" => lots'[l].expiresAt = Never
         /\ AliveAt(lots'[l], clock)

(* refundPartial()'s writes: all of the refund reaches lots, old ones it   *)
(* holds and which its debit drew on, and new ones.                        *)
LEMMA RefundWrites ==
    ASSUME IInv, CallsBooks, NEW p \in Proc, CommitRefund(p)
    PROVE  \E alloc \in [LotId -> Nat] :
             LET c == call[p]
                 m == [type |-> "REFUND", amount |-> c.amount, reverses |-> c.target,
                       event |-> NoEvent, alloc |-> alloc]
             IN  /\ m \in Movement /\ txs' = Append(txs, m)
                 /\ Total(alloc) = c.amount
                 /\ GivenTo(alloc)
                 /\ \A l \in DOMAIN lots : alloc[l] > 0 =>
                      /\ l \in c.held /\ AliveAt(lots[l], clock)
                      /\ txs[c.target].alloc[l] > 0
<1> DEFINE c == call[p]
           debit == txs[c.target]
<1>1. /\ c \in Call /\ HoldsRows(c) /\ HoldsDebit(c) /\ CallBooks(c)
      /\ c.op = "refund" /\ c.step = "lock" /\ c.todo = <<>> /\ clock \in Nat
  BY DEF IInv, TypeOK, CallsOK, CallsBooks, CommitRefund
<1>2. /\ txs \in Seq(Movement) /\ c.target \in DOMAIN txs /\ c.target \in Nat
      /\ c.amount \in Nat
  BY <1>1 DEF IInv, TypeOK, HoldsDebit, Call
<1>3. debit \in Movement /\ debit.amount > 0
  <2>1. debit.type = "DEBIT"
    BY <1>1 DEF HoldsDebit
  <2> QED BY <1>2, <2>1 DEF IInv, MovementsOK, MovementOK
<1>4. \A l \in LotId : debit.alloc[l] > 0 => l \in c.held /\ l \in DOMAIN lots
  BY <1>1 DEF CallBooks, Covers, HoldsRows
<1>5. PICK share \in Splits(debit, c.amount) :
        LET back == GiveBack(share, clock)
            rest == [l \in LotId |-> share[l] - back[l]]
            keys == OrphanKeys(rest, clock)
            n    == Cardinality(keys)
        IN  /\ Len(lots) + n <= MaxLots
            /\ \E key \in [1..n -> keys] :
                 LET orphan(i) == OrphanAmount(rest, clock, key[i])
                 IN  /\ \A i, j \in 1..n : i # j => key[i] # key[j]
                     /\ lots' = [l \in 1..(Len(lots) + n) |->
                          IF l <= Len(lots)
                          THEN [lots[l] EXCEPT !.remaining = @ + back[l]]
                          ELSE [kind |-> key[l - Len(lots)][1],
                                granted |-> orphan(l - Len(lots)),
                                remaining |-> orphan(l - Len(lots)),
                                expiresAt |-> key[l - Len(lots)][2]]]
                     /\ txs' = Append(txs,
                          [type |-> "REFUND", amount |-> c.amount,
                           reverses |-> c.target, event |-> NoEvent,
                           alloc |-> [l \in LotId |->
                              CASE l <= Len(lots) -> back[l]
                                [] l > Len(lots) + n -> 0
                                [] OTHER -> orphan(l - Len(lots))]])
  BY DEF CommitRefund
<1> DEFINE N    == Len(lots)
           back == GiveBack(share, clock)
           rest == [l \in LotId |-> share[l] - back[l]]
           keys == OrphanKeys(rest, clock)
           n    == Cardinality(keys)
<1>6. PICK key \in [1..n -> keys] :
        /\ \A i, j \in 1..n : i # j => key[i] # key[j]
        /\ lots' = [l \in 1..(Len(lots) + n) |->
             IF l <= Len(lots)
             THEN [lots[l] EXCEPT !.remaining = @ + back[l]]
             ELSE [kind |-> key[l - Len(lots)][1],
                   granted |-> OrphanAmount(rest, clock, key[l - Len(lots)]),
                   remaining |-> OrphanAmount(rest, clock, key[l - Len(lots)]),
                   expiresAt |-> key[l - Len(lots)][2]]]
        /\ txs' = Append(txs,
             [type |-> "REFUND", amount |-> c.amount,
              reverses |-> c.target, event |-> NoEvent,
              alloc |-> [l \in LotId |->
                 CASE l <= Len(lots) -> back[l]
                   [] l > Len(lots) + n -> 0
                   [] OTHER -> OrphanAmount(rest, clock, key[l - Len(lots)])]])
  BY <1>5
<1>7. N + n <= MaxLots
  BY <1>5
<1> DEFINE orphan(i) == OrphanAmount(rest, clock, key[i])
           alloc == [l \in LotId |-> CASE l <= N -> back[l]
                                       [] l > N + n -> 0
                                       [] OTHER -> orphan(l - N)]
           o == [l \in LotId |-> IF l \in (N + 1)..(N + n) THEN orphan(l - N) ELSE 0]
<1>8. /\ share \in [LotId -> Nat] /\ Total(share) = c.amount
      /\ \A l \in LotId : share[l] > 0 => debit.alloc[l] > 0
  BY <1>2, <1>3, SplitsType, SplitSums
<1>9. /\ back \in [LotId -> Nat]
      /\ \A l \in LotId : back[l] <= share[l]
      /\ \A l \in LotId : back[l] > 0 => l \in DOMAIN lots
  BY <1>1, <1>8, GiveBackBounds
<1>10. \A l \in LotId : back[l] > 0 => AliveAt(lots[l], clock)
  BY DEF GiveBack
<1> HIDE DEF back
<1>11. rest \in [LotId -> Nat] /\ \A l \in LotId : share[l] = back[l] + rest[l]
  BY <1>8, <1>9
<1>12. \A l \in LotId : rest[l] > 0 => l \in DOMAIN lots
  <2> SUFFICES ASSUME NEW l \in LotId, rest[l] > 0 PROVE l \in DOMAIN lots
    OBVIOUS
  <2>1. share[l] \in Nat /\ back[l] \in Nat /\ share[l] > 0
    BY <1>8, <1>9
  <2> QED BY <1>4, <1>8, <2>1
<1>13. ASSUME NEW k \in keys
       PROVE  (k[1] = "PURCHASED" => k[2] = Never) /\ (k[2] = Never \/ k[2] > clock)
  <2>1. PICK l \in DOMAIN lots : k = <<lots[l].kind, refundLotExpiry(lots[l], clock)>>
    BY DEF OrphanKeys
  <2>2. clock + Horizon > clock
    BY <1>1, LedgerAssumption
  <2> QED BY <2>1, <2>2 DEF refundLotExpiry
<1> HIDE DEF rest
<1>14. n \in Nat /\ \A i : orphan(i) \in Nat
  BY <1>1, <1>11, OrphansType
<1>15. N \in Nat /\ DOMAIN lots = 1..N /\ 1..N \subseteq LotId /\ LotId \subseteq Nat \ {0}
  BY RowTypes, LedgerAssumption DEF LotId
<1>16. \A i, j \in 1..n : i # j => key[i] # key[j]
  BY <1>6
<1>17. o \in [LotId -> Nat]
  BY <1>14
<1>18. Total(o) = Total(rest)
  BY <1>1, <1>7, <1>11, <1>12, <1>16, OrphansSum
<1>19. txs' = Append(txs, [type |-> "REFUND", amount |-> c.amount, reverses |-> c.target,
                           event |-> NoEvent, alloc |-> alloc])
  BY <1>6
<1> DEFINE New(l) == [kind |-> key[l - N][1], granted |-> orphan(l - N),
                      remaining |-> orphan(l - N), expiresAt |-> key[l - N][2]]
<1>20. lots' = [l \in 1..(N + n) |->
                  IF l <= N THEN [lots[l] EXCEPT !.remaining = @ + back[l]] ELSE New(l)]
  BY <1>6
<1> HIDE DEF n, keys, orphan
<1>21. \A l \in LotId :
         alloc[l] = IF l <= N THEN back[l] ELSE IF l > N + n THEN 0 ELSE orphan(l - N)
  <2> TAKE l \in LotId
  <2>1. l \in Nat /\ l > 0
    BY <1>15
  <2> QED BY <1>14, <1>15, <2>1
<1>22. \A l \in LotId : alloc[l] = back[l] + o[l]
  <2> TAKE l \in LotId
  <2>1. l \in Nat /\ l > 0 /\ back[l] \in Nat /\ orphan(l - N) \in Nat
        /\ (l > N => back[l] = 0)
    BY <1>9, <1>14, <1>15
  <2>2. alloc[l] = IF l <= N THEN back[l] ELSE IF l > N + n THEN 0 ELSE orphan(l - N)
    BY <1>21
  <2>3. o[l] = IF l <= N THEN 0 ELSE IF l > N + n THEN 0 ELSE orphan(l - N)
    BY <1>14, <1>15, <2>1
  <2> HIDE DEF alloc, o
  <2> QED BY <1>14, <1>15, <2>1, <2>2, <2>3
<1>23. alloc \in [LotId -> Nat]
  <2>1. alloc = [l \in LotId |-> alloc[l]]
    OBVIOUS
  <2> HIDE DEF alloc, o
  <2> QED BY <1>9, <1>17, <1>22, <2>1
<1>24. Total(alloc) = c.amount
  <2> HIDE DEF alloc, o
  <2>1. Total(alloc) = Total(back) + Total(o)
    BY <1>9, <1>17, <1>22, <1>23, LotsAdd
  <2>2. Total(share) = Total(back) + Total(rest)
    BY <1>8, <1>9, <1>11, LotsAdd
  <2> QED BY <1>8, <1>18, <2>1, <2>2
<1>25. \A l \in 1..N : alloc[l] = back[l]
  <2> HIDE DEF alloc
  <2>1. \A l \in 1..N : l \in LotId /\ l <= N
    BY <1>15
  <2> QED BY <1>21, <2>1
<1>26. \A l \in (N + 1)..(N + n) : l \in LotId /\ alloc[l] = orphan(l - N)
  <2> HIDE DEF alloc
  <2> TAKE l \in (N + 1)..(N + n)
  <2>1. l \in LotId
    BY <1>7, <1>14, <1>15, LedgerAssumption DEF LotId
  <2>2. ~ (l <= N) /\ ~ (l > N + n)
    BY <1>14, <1>15
  <2> QED BY <1>21, <2>1, <2>2
<1>27. GivenTo(alloc)
  <2>1. DOMAIN lots' = 1..(N + n) /\ DOMAIN lots \subseteq DOMAIN lots'
    BY <1>14, <1>15, <1>20
  <2>2. \A l \in LotId : l \in DOMAIN lots' \/ alloc[l] = 0
    BY <1>14, <1>15, <2>1
  <2>3. ASSUME NEW l \in DOMAIN lots
        PROVE  /\ lots'[l].kind = lots[l].kind /\ lots'[l].granted = lots[l].granted
               /\ lots'[l].expiresAt = lots[l].expiresAt
               /\ lots'[l].remaining = lots[l].remaining + alloc[l]
               /\ alloc[l] = 0 => lots'[l] = lots[l]
    <3>1. lots[l] \in Lot /\ lots[l].remaining \in Nat /\ back[l] \in Nat /\ alloc[l] = back[l]
      BY <1>9, <1>15, <1>25, RowTypes
    <3>2. lots'[l] = [lots[l] EXCEPT !.remaining = lots[l].remaining + back[l]]
      BY <1>14, <1>15, <1>20
    <3>3. lots[l].remaining + back[l] \in Nat
      BY <3>1
    <3>4. /\ lots'[l].kind = lots[l].kind /\ lots'[l].granted = lots[l].granted
          /\ lots'[l].expiresAt = lots[l].expiresAt
          /\ lots'[l].remaining = lots[l].remaining + back[l]
      BY <3>1, <3>2, <3>3, SetRemaining
    <3>5. back[l] = 0 => lots'[l] = lots[l]
      <4>1. back[l] = 0 => lots[l].remaining + back[l] = lots[l].remaining
        BY <3>1
      <4> HIDE DEF alloc
      <4> QED BY <3>1, <3>2, <4>1 DEF Lot
    <3> QED BY <3>1, <3>4, <3>5
  <2>4. ASSUME NEW l \in DOMAIN lots', l \notin DOMAIN lots
        PROVE  /\ lots'[l].remaining = alloc[l] /\ lots'[l].granted = alloc[l]
               /\ lots'[l].kind = "PURCHASED" => lots'[l].expiresAt = Never
               /\ AliveAt(lots'[l], clock)
    <3>1. l \in (N + 1)..(N + n) /\ l - N \in 1..n /\ ~ (l <= N)
      BY <1>14, <1>15, <2>1, <2>4
    <3>2. lots'[l] = New(l)
      BY <1>20, <2>1, <3>1
    <3>3. key[l - N] \in keys
      BY <3>1
    <3> HIDE DEF alloc
    <3> QED BY <1>13, <1>26, <3>1, <3>2, <3>3 DEF AliveAt
  <2> HIDE DEF alloc
  <2> QED BY <2>1, <2>2, <2>3, <2>4 DEF GivenTo
<1>28. \A l \in DOMAIN lots : alloc[l] > 0 =>
         l \in c.held /\ AliveAt(lots[l], clock) /\ txs[c.target].alloc[l] > 0
  <2> SUFFICES ASSUME NEW l \in DOMAIN lots, alloc[l] > 0
               PROVE  l \in c.held /\ AliveAt(lots[l], clock) /\ debit.alloc[l] > 0
    OBVIOUS
  <2> HIDE DEF alloc
  <2>1. l \in LotId /\ back[l] > 0 /\ share[l] > 0
    BY <1>8, <1>9, <1>15, <1>25
  <2> QED BY <1>4, <1>8, <1>10, <2>1
<1>29. [type |-> "REFUND", amount |-> c.amount, reverses |-> c.target,
        event |-> NoEvent, alloc |-> alloc] \in Movement
  <2> HIDE DEF alloc
  <2> QED BY <1>2, <1>23 DEF Movement
<1> HIDE DEF alloc
<1> QED BY <1>19, <1>23, <1>24, <1>27, <1>28, <1>29

-----------------------------------------------------------------------------
(* The books balance after every step.                                     *)

(* Time passes and calls move on.                                          *)
LEMMA BooksQuiet ==
    ASSUME IInv, Books, UNCHANGED <<lots, txs>>, clock' \in Nat, clock <= clock'
    PROVE  Books'
<1>1. HistoryIsBalance' /\ MovementsAllocated' /\ RefundsReverse' /\ PurchasedUndated'
  BY DEF Books, HistoryIsBalance, MovementsAllocated, RefundsReverse, PurchasedUndated,
         Moved, Remaining, Bought
<1>2. \A l : Drawn(l)' = Drawn(l) /\ Returned(l)' = Returned(l)
  BY DEF Drawn, Returned
<1>3. \A l \in DOMAIN lots : AliveAt(lots[l], clock') => AliveAt(lots[l], clock)
  BY RowTypes DEF IInv, TypeOK, AliveAt
<1>4. LotBooks'
  BY <1>2, <1>3 DEF Books, LotBooks
<1> QED BY <1>1, <1>4 DEF Books

(* The rows after a step are rows.                                         *)
LEMMA RowTypesAfter ==
    ASSUME IInv'
    PROVE  /\ lots' \in Seq(Lot) /\ Len(lots') \in Nat /\ Len(lots') <= MaxLots
           /\ DOMAIN lots' = 1..Len(lots') /\ DOMAIN lots' \subseteq LotId
           /\ \A l \in DOMAIN lots' :
                /\ lots'[l].kind \in CreditKind /\ lots'[l].granted \in Nat
                /\ lots'[l].remaining \in Nat /\ lots'[l].expiresAt \in Nat
<1>1. /\ lots' \in Seq(Lot) /\ Len(lots') \in Nat /\ Len(lots') <= MaxLots
      /\ DOMAIN lots' = 1..Len(lots')
  BY DEF IInv, TypeOK
<1>2. DOMAIN lots' \subseteq LotId
  BY <1>1, LedgerAssumption DEF LotId
<1>3. \A l \in DOMAIN lots' : lots'[l] \in Lot
  BY <1>1
<1> QED BY <1>1, <1>2, <1>3 DEF Lot

(* A movement is recorded with its allocations and its reversal.           *)
LEMMA MovementsRecorded ==
    ASSUME IInv, Books, NEW m \in Movement, txs' = Append(txs, m),
           m.type \in {"DEBIT", "REFUND"} => Total(m.alloc) = m.amount,
           m.type = "REFUND" => m.reverses # 0
    PROVE  MovementsAllocated' /\ RefundsReverse'
BY Recorded DEF Books, MovementsAllocated, RefundsReverse

(* A commit that takes from the lots records what it took, and the balance *)
(* is that much less.                                                      *)
LEMMA TakenBalances ==
    ASSUME IInv, IInv', NEW take \in [LotId -> Nat], TakenFrom(take)
    PROVE  /\ Total(Remaining) = Total(Remaining)' + Total(take)
           /\ Total(Remaining) \in Nat /\ Total(Remaining)' \in Nat /\ Total(take) \in Nat
<1>1. /\ lots \in Seq(Lot) /\ lots' \in Seq(Lot) /\ Len(lots) <= MaxLots
      /\ Len(lots') = Len(lots)
  BY DEF IInv, TypeOK, TakenFrom
<1>2. Len(lots') <= Len(lots)
  BY <1>1
<1>3. /\ DOMAIN lots' = DOMAIN lots
      /\ \A l \in DOMAIN lots : lots[l].remaining = lots'[l].remaining + take[l]
      /\ \A l \in LotId : l \in DOMAIN lots \/ take[l] = 0
  BY DEF TakenFrom
<1> DEFINE a == lots'
           b == lots
<1> HIDE DEF a, b
<1>4. /\ a \in Seq(Lot) /\ b \in Seq(Lot) /\ Len(a) <= Len(b) /\ Len(b) <= MaxLots
      /\ \A l \in DOMAIN a : b[l].remaining = a[l].remaining + take[l]
      /\ \A l \in DOMAIN b : l \in DOMAIN a \/ b[l].remaining = take[l]
      /\ \A l \in LotId : l \in DOMAIN b \/ take[l] = 0
  BY <1>1, <1>2, <1>3 DEF a, b
<1>5. /\ Left(b) = Left(a) + Total(take)
      /\ Left(a) \in Nat /\ Left(b) \in Nat /\ Total(take) \in Nat
  BY <1>4, LeftMoved
<1> QED BY <1>5, BalanceIsLeft DEF a, b

(* The rows a debit or a sweep leaves are its own, changed, or others'.    *)
LEMMA TakenRows ==
    ASSUME IInv, NEW p \in Proc, TakenFrom(call[p].take), NEW m, txs' = Append(txs, m)
    PROVE  RowsWritten(call[p].held, m)
<1>1. call[p] \in Call /\ HoldsRows(call[p])
  BY DEF IInv, TypeOK, CallsOK
<1>2. \A l \in DOMAIN lots : l \in call[p].held \/ call[p].take[l] = 0
  BY <1>1, RowTypes DEF HoldsRows, Call
<1> QED BY <1>2 DEF TakenFrom, RowsWritten

(* debit() keeps the books.                                                *)
LEMMA CommitDebitBooks ==
    ASSUME BInv, NEW p \in Proc, CommitDebit(p)
    PROVE  CallsBooks' /\ Books'
<1> DEFINE c == call[p]
<1>1. /\ IInv /\ CallsBooks /\ Books /\ c \in Call /\ CallBooks(c) /\ HoldsRows(c)
      /\ c.op = "debit" /\ Return(p) /\ UNCHANGED <<clock, periodEnd>> /\ clock \in Nat
  BY DEF BInv, IInv, TypeOK, CallsBooks, CallsOK, CommitDebit
<1>2. CASE c.available < c.amount
  <2>1. UNCHANGED <<lots, txs>>
    BY <1>2 DEF CommitDebit
  <2> QED BY <1>1, <2>1, BooksQuiet, ReturnBooks
<1>3. CASE ~ (c.available < c.amount)
  <2> DEFINE m == [type |-> "DEBIT", amount |-> c.amount, reverses |-> 0,
                   event |-> NoEvent, alloc |-> c.take]
  <2>1. /\ m \in Movement /\ txs' = Append(txs, m) /\ TakenFrom(c.take)
        /\ \A l \in DOMAIN lots : lots'[l].expiresAt = lots[l].expiresAt
    BY <1>1, <1>3, DebitWrites
  <2>2. /\ m.type = "DEBIT" /\ m.amount = c.amount /\ m.reverses = 0 /\ m.alloc = c.take
        /\ c.take \in [LotId -> Nat] /\ c.amount \in Nat /\ c.available \in Nat
    BY <1>1 DEF Call
  <2> HIDE DEF m, c
  <2>3. Total(c.take) = c.amount
    BY <1>1, <1>3, <2>2 DEF CallBooks, Counts, Min2
  <2>4. IInv'
    BY <1>1, CommitDebitStep
  <2>5. CallsBooks'
    <3>1. RowsWritten(c.held, m)
      BY <1>1, <2>1, TakenRows DEF c
    <3>2. \A q \in Proc : Bystander(q, c.held, m.reverses)
      BY <1>1, <2>2, CommitLeavesOthers DEF c
    <3> QED BY <1>1, <2>1, <3>1, <3>2, CommitBooks
  <2>6. MovementsAllocated' /\ RefundsReverse'
    BY <1>1, <2>1, <2>2, <2>3, MovementsRecorded
  <2>7. HistoryIsBalance'
    <3>1. /\ Moved("DEBIT")' = Moved("DEBIT") + c.amount
          /\ Moved("EXPIRE")' = Moved("EXPIRE") + 0 /\ Moved("GRANT")' = Moved("GRANT") + 0
          /\ Moved("REFUND")' = Moved("REFUND") + 0
          /\ Moved("DEBIT") \in Nat /\ Moved("EXPIRE") \in Nat /\ Moved("GRANT") \in Nat
          /\ Moved("REFUND") \in Nat
      BY <1>1, <2>1, <2>2, MovedRecorded
    <3>2. /\ Total(Remaining) = Total(Remaining)' + c.amount
          /\ Total(Remaining) \in Nat /\ Total(Remaining)' \in Nat
      BY <1>1, <2>1, <2>2, <2>3, <2>4, TakenBalances
    <3> QED BY <1>1, <2>2, <3>1, <3>2 DEF Books, HistoryIsBalance
  <2>8. ASSUME NEW l \in DOMAIN lots'
        PROVE  /\ l \in DOMAIN lots
               /\ lots'[l].remaining + Drawn(l)' = lots[l].remaining + Drawn(l)
               /\ lots'[l].granted + Returned(l)' = lots[l].granted + Returned(l)
               /\ lots[l].remaining = 0 => lots'[l].remaining = 0
               /\ AliveAt(lots'[l], clock') <=> AliveAt(lots[l], clock)
    <3>1. l \in DOMAIN lots /\ l \in LotId
      BY <1>1, <2>1, RowTypes DEF TakenFrom
    <3>2. /\ lots'[l].granted = lots[l].granted
          /\ lots[l].remaining = lots'[l].remaining + c.take[l]
          /\ lots'[l].expiresAt = lots[l].expiresAt
      BY <2>1, <3>1 DEF TakenFrom
    <3>3. /\ lots[l].remaining \in Nat /\ lots[l].granted \in Nat /\ c.take[l] \in Nat
          /\ lots'[l].remaining \in Nat
      BY <1>1, <2>2, <2>4, <3>1, RowTypes, RowTypesAfter
    <3>4. Drawn(l) \in Nat /\ Drawn(l)' = Drawn(l) + c.take[l]
      BY <1>1, <2>1, <2>2, <3>1, DrawnRecorded
    <3>5. Returned(l) \in Nat /\ Returned(l)' = Returned(l) + 0
      BY <1>1, <2>1, <2>2, <3>1, ReturnedRecorded DEF Books
    <3> QED BY <1>1, <3>1, <3>2, <3>3, <3>4, <3>5 DEF AliveAt
  <2>9. LotBooks'
    BY <1>1, <2>8 DEF Books, LotBooks
  <2>10. PurchasedUndated'
    BY <1>1, <2>1 DEF Books, PurchasedUndated, Bought, TakenFrom
  <2> QED BY <2>5, <2>6, <2>7, <2>9, <2>10 DEF Books
<1> QED BY <1>2, <1>3

(* expireRenewedLots() keeps the books.                                    *)
LEMMA CommitExpireBooks ==
    ASSUME BInv, NEW p \in Proc, CommitExpire(p)
    PROVE  CallsBooks' /\ Books'
<1> DEFINE c    == call[p]
           dead == {l \in DOMAIN lots : c.take[l] > 0}
<1>1. /\ IInv /\ CallsBooks /\ Books /\ c \in Call /\ CallBooks(c) /\ HoldsRows(c)
      /\ c.op = "expire" /\ Return(p) /\ UNCHANGED <<clock, periodEnd>> /\ clock \in Nat
  BY DEF BInv, IInv, TypeOK, CallsBooks, CallsOK, CommitExpire
<1>2. CASE dead = {}
  <2>1. UNCHANGED <<lots, txs>>
    BY <1>2 DEF CommitExpire
  <2> QED BY <1>1, <2>1, BooksQuiet, ReturnBooks
<1>3. CASE dead # {}
  <2> DEFINE m == [type |-> "EXPIRE", amount |-> c.available, reverses |-> 0,
                   event |-> NoEvent, alloc |-> NoLots]
  <2>1. /\ m \in Movement /\ txs' = Append(txs, m) /\ TakenFrom(c.take)
        /\ \A l \in DOMAIN lots : c.take[l] > 0 =>
             /\ lots'[l].remaining = 0 /\ ~ AliveAt(lots'[l], clock)
             /\ lots[l].expiresAt # Never /\ lots'[l].expiresAt <= lots[l].expiresAt
    BY <1>1, <1>3, ExpireWrites
  <2>2. /\ m.type = "EXPIRE" /\ m.amount = c.available /\ m.reverses = 0
        /\ c.take \in [LotId -> Nat] /\ c.available \in Nat
    BY <1>1 DEF Call
  <2> HIDE DEF m, c, dead
  <2>3. Total(c.take) = c.available
    BY <1>1 DEF CallBooks, Counts
  <2>4. IInv'
    BY <1>1, CommitExpireStep
  <2>5. CallsBooks'
    <3>1. RowsWritten(c.held, m)
      BY <1>1, <2>1, TakenRows DEF c
    <3>2. \A q \in Proc : Bystander(q, c.held, m.reverses)
      BY <1>1, <2>2, CommitLeavesOthers DEF c
    <3> QED BY <1>1, <2>1, <3>1, <3>2, CommitBooks
  <2>6. MovementsAllocated' /\ RefundsReverse'
    BY <1>1, <2>1, <2>2, MovementsRecorded
  <2>7. HistoryIsBalance'
    <3>1. /\ Moved("EXPIRE")' = Moved("EXPIRE") + c.available
          /\ Moved("DEBIT")' = Moved("DEBIT") + 0 /\ Moved("GRANT")' = Moved("GRANT") + 0
          /\ Moved("REFUND")' = Moved("REFUND") + 0
          /\ Moved("DEBIT") \in Nat /\ Moved("EXPIRE") \in Nat /\ Moved("GRANT") \in Nat
          /\ Moved("REFUND") \in Nat
      BY <1>1, <2>1, <2>2, MovedRecorded
    <3>2. /\ Total(Remaining) = Total(Remaining)' + c.available
          /\ Total(Remaining) \in Nat /\ Total(Remaining)' \in Nat
      BY <1>1, <2>1, <2>2, <2>3, <2>4, TakenBalances
    <3> QED BY <1>1, <2>2, <3>1, <3>2 DEF Books, HistoryIsBalance
  <2>8. \A l \in DOMAIN lots : l \in LotId /\ (c.take[l] > 0 \/ lots'[l] = lots[l])
    <3> SUFFICES ASSUME NEW l \in DOMAIN lots
                 PROVE  l \in LotId /\ (c.take[l] > 0 \/ lots'[l] = lots[l])
      OBVIOUS
    <3>1. l \in LotId /\ c.take[l] \in Nat
      BY <1>1, <2>2, RowTypes
    <3> QED BY <2>1, <3>1 DEF TakenFrom
  <2>9. LotBooks'
    <3> SUFFICES ASSUME NEW l \in DOMAIN lots'
                 PROVE  /\ lots'[l].remaining + Drawn(l)' <= lots'[l].granted + Returned(l)'
                        /\ lots'[l].remaining + Drawn(l)' < lots'[l].granted + Returned(l)'
                             => lots'[l].remaining = 0 /\ ~ AliveAt(lots'[l], clock')
      BY DEF LotBooks
    <3>1. l \in DOMAIN lots /\ l \in LotId
      BY <2>1, <2>8 DEF TakenFrom
    <3>2. /\ Drawn(l) \in Nat /\ Drawn(l)' = Drawn(l) + 0
          /\ Returned(l) \in Nat /\ Returned(l)' = Returned(l) + 0
      BY <1>1, <2>1, <2>2, <3>1, DrawnRecorded, ReturnedRecorded DEF Books
    <3>3. /\ lots[l].remaining + Drawn(l) <= lots[l].granted + Returned(l)
          /\ lots[l].remaining + Drawn(l) < lots[l].granted + Returned(l)
               => lots[l].remaining = 0 /\ ~ AliveAt(lots[l], clock)
      BY <1>1, <3>1 DEF Books, LotBooks
    <3>4. /\ lots[l].remaining \in Nat /\ lots[l].granted \in Nat
          /\ lots'[l].granted = lots[l].granted
      BY <1>1, <2>1, <3>1, RowTypes DEF TakenFrom
    <3>5. CASE c.take[l] > 0
      <4>1. lots'[l].remaining = 0 /\ ~ AliveAt(lots'[l], clock')
        BY <1>1, <2>1, <3>1, <3>5
      <4> QED BY <3>2, <3>3, <3>4, <4>1
    <3>6. CASE lots'[l] = lots[l]
      BY <1>1, <3>2, <3>3, <3>4, <3>6
    <3> QED BY <2>8, <3>1, <3>5, <3>6
  <2>10. PurchasedUndated'
    <3> SUFFICES ASSUME NEW l \in DOMAIN lots', lots'[l].kind = "PURCHASED"
                 PROVE  lots'[l].expiresAt = Never
      BY DEF PurchasedUndated, Bought
    <3>1. l \in DOMAIN lots /\ lots[l].kind = "PURCHASED"
      BY <2>1 DEF TakenFrom
    <3>2. lots[l].expiresAt = Never
      BY <1>1, <3>1 DEF Books, PurchasedUndated, Bought
    <3> QED BY <2>1, <2>8, <3>1, <3>2
  <2> QED BY <2>5, <2>6, <2>7, <2>9, <2>10 DEF Books
<1> QED BY <1>2, <1>3

(* A commit that gives to the lots: the balance is that much more.         *)
LEMMA GivenBalances ==
    ASSUME IInv, IInv', NEW alloc \in [LotId -> Nat], GivenTo(alloc)
    PROVE  /\ Total(Remaining)' = Total(Remaining) + Total(alloc)
           /\ Total(Remaining) \in Nat /\ Total(Remaining)' \in Nat
           /\ Total(alloc) \in Nat
<1>1. /\ lots \in Seq(Lot) /\ lots' \in Seq(Lot) /\ Len(lots') <= MaxLots
      /\ DOMAIN lots = 1..Len(lots) /\ DOMAIN lots' = 1..Len(lots')
      /\ Len(lots) \in Nat /\ Len(lots') \in Nat
  BY RowTypes, RowTypesAfter
<1>2. Len(lots) <= Len(lots')
  <2>1. 1..Len(lots) \subseteq 1..Len(lots')
    BY <1>1 DEF GivenTo
  <2> QED BY <1>1, <2>1
<1>3. /\ \A l \in DOMAIN lots : lots'[l].remaining = lots[l].remaining + alloc[l]
      /\ \A l \in DOMAIN lots' : l \in DOMAIN lots \/ lots'[l].remaining = alloc[l]
      /\ \A l \in LotId : l \in DOMAIN lots' \/ alloc[l] = 0
  BY DEF GivenTo
<1> DEFINE a == lots
           b == lots'
<1> HIDE DEF a, b
<1>4. /\ a \in Seq(Lot) /\ b \in Seq(Lot) /\ Len(a) <= Len(b) /\ Len(b) <= MaxLots
      /\ \A l \in DOMAIN a : b[l].remaining = a[l].remaining + alloc[l]
      /\ \A l \in DOMAIN b : l \in DOMAIN a \/ b[l].remaining = alloc[l]
      /\ \A l \in LotId : l \in DOMAIN b \/ alloc[l] = 0
  BY <1>1, <1>2, <1>3 DEF a, b
<1>5. /\ Left(b) = Left(a) + Total(alloc)
      /\ Left(a) \in Nat /\ Left(b) \in Nat /\ Total(alloc) \in Nat
  BY <1>4, LeftMoved
<1> QED BY <1>5, BalanceIsLeft DEF a, b

(* No movement has touched a lot that is not there yet.                    *)
LEMMA NewLotUntouched ==
    ASSUME IInv, NEW l \in LotId, l \notin DOMAIN lots
    PROVE  Drawn(l) = 0 /\ Returned(l) = 0
<1> DEFINE f == [t \in DOMAIN txs |-> IF txs[t].type = "DEBIT" THEN txs[t].alloc[l] ELSE 0]
           g == [t \in DOMAIN txs |->
                   IF txs[t].type = "REFUND" /\ txs[txs[t].reverses].alloc[l] > 0
                   THEN txs[t].alloc[l] ELSE 0]
<1>1. ASSUME NEW t \in DOMAIN txs PROVE txs[t].alloc[l] = 0
  <2>1. txs[t] \in Movement
    BY DEF IInv, TypeOK
  <2>2. txs[t].alloc[l] \in Nat
    BY <2>1 DEF Movement
  <2>3. ~ (txs[t].alloc[l] > 0)
    BY RowTypes DEF IInv, MovementsOK, MovementOK
  <2> QED BY <2>2, <2>3
<1>2. /\ f \in [DOMAIN f -> Nat] /\ \A t \in DOMAIN f : f[t] = 0
      /\ g \in [DOMAIN g -> Nat] /\ \A t \in DOMAIN g : g[t] = 0
  BY <1>1
<1>3. Drawn(l) = Total(f) /\ Returned(l) = Total(g)
  BY DEF Drawn, Returned
<1> HIDE DEF f, g
<1> DEFINE S == DOMAIN f
           T == DOMAIN g
<1>4. f \in [S -> Nat] /\ (\A t \in S : f[t] = 0) /\ g \in [T -> Nat] /\ (\A t \in T : g[t] = 0)
  BY <1>2
<1> HIDE DEF S, T
<1>5. Total(f) = 0 /\ Total(g) = 0
  BY <1>4, TotalZero
<1> QED BY <1>3, <1>5

(* Giving keeps each lot's own books: an old lot gets back part of what    *)
(* the reversed debit drew from it, a new one starts full.                 *)
LEMMA GivenLotBooks ==
    ASSUME BInv, IInv', UNCHANGED clock, NEW alloc \in [LotId -> Nat], GivenTo(alloc),
           NEW m \in Movement, txs' = Append(txs, m), m.type \in {"GRANT", "REFUND"},
           m.type = "REFUND" => m.alloc = alloc /\ m.reverses \in DOMAIN txs,
           \A l \in DOMAIN lots : alloc[l] > 0 =>
              /\ m.type = "REFUND" /\ txs[m.reverses].alloc[l] > 0
              /\ AliveAt(lots[l], clock)
    PROVE  LotBooks' /\ PurchasedUndated'
<1>1. IInv /\ Books
  BY DEF BInv
<1>2. PurchasedUndated'
  BY <1>1 DEF Books, PurchasedUndated, Bought, GivenTo
<1> SUFFICES ASSUME NEW l \in DOMAIN lots'
             PROVE  /\ lots'[l].remaining + Drawn(l)' <= lots'[l].granted + Returned(l)'
                    /\ lots'[l].remaining + Drawn(l)' < lots'[l].granted + Returned(l)'
                         => lots'[l].remaining = 0 /\ ~ AliveAt(lots'[l], clock')
  BY <1>2 DEF LotBooks
<1>3. l \in LotId /\ alloc[l] \in Nat
  BY RowTypesAfter
<1>4. /\ Drawn(l) \in Nat /\ Drawn(l)' = Drawn(l) + 0
      /\ Returned(l) \in Nat
      /\ Returned(l)' = Returned(l)
           + IF m.type = "REFUND" /\ txs[m.reverses].alloc[l] > 0 THEN m.alloc[l] ELSE 0
  BY <1>1, <1>3, DrawnRecorded, ReturnedRecorded DEF Books
<1>5. CASE l \in DOMAIN lots
  <2>1. /\ lots[l].remaining + Drawn(l) <= lots[l].granted + Returned(l)
        /\ lots[l].remaining + Drawn(l) < lots[l].granted + Returned(l)
             => lots[l].remaining = 0 /\ ~ AliveAt(lots[l], clock)
    BY <1>1, <1>5 DEF Books, LotBooks
  <2>2. /\ lots[l].remaining \in Nat /\ lots[l].granted \in Nat
        /\ lots'[l].granted = lots[l].granted /\ lots'[l].expiresAt = lots[l].expiresAt
        /\ lots'[l].remaining = lots[l].remaining + alloc[l]
    BY <1>1, <1>5, RowTypes DEF GivenTo
  <2>3. Returned(l)' = Returned(l) + alloc[l]
    BY <1>3, <1>4, <1>5
  <2>4. AliveAt(lots'[l], clock') <=> AliveAt(lots[l], clock)
    BY <2>2 DEF AliveAt
  <2>5. AliveAt(lots[l], clock) \/ alloc[l] = 0
    BY <1>3, <1>5
  <2> DEFINE r  == lots[l].remaining
             g  == lots[l].granted
             d  == Drawn(l)
             k  == Returned(l)
             a  == alloc[l]
             r2 == lots'[l].remaining
             g2 == lots'[l].granted
             d2 == Drawn(l)'
             k2 == Returned(l)'
  <2>6. /\ r \in Nat /\ g \in Nat /\ d \in Nat /\ k \in Nat /\ a \in Nat
        /\ r2 = r + a /\ g2 = g /\ d2 = d + 0 /\ k2 = k + a
        /\ r + d <= g + k
        /\ r + d < g + k => r = 0 /\ ~ AliveAt(lots[l], clock)
        /\ AliveAt(lots[l], clock) \/ a = 0
    BY <1>3, <1>4, <2>1, <2>2, <2>3, <2>5
  <2> HIDE DEF r, g, d, k, a, r2, g2, d2, k2
  <2>7. r2 + d2 <= g2 + k2
    BY <2>6
  <2>8. ASSUME r2 + d2 < g2 + k2 PROVE r2 = 0 /\ ~ AliveAt(lots[l], clock)
    <3>1. r + d < g + k
      BY <2>6, <2>8
    <3> QED BY <2>6, <3>1
  <2> QED BY <2>4, <2>7, <2>8 DEF r, g, d, k, a, r2, g2, d2, k2
<1>6. CASE l \notin DOMAIN lots
  <2>1. Drawn(l) = 0 /\ Returned(l) = 0
    BY <1>1, <1>3, <1>6, NewLotUntouched
  <2>2. lots'[l].remaining = alloc[l] /\ lots'[l].granted = alloc[l]
    BY <1>6 DEF GivenTo
  <2>3. m.type = "REFUND" => ~ (txs[m.reverses].alloc[l] > 0)
    BY <1>1, <1>3, <1>6, RowTypes DEF IInv, MovementsOK, MovementOK
  <2> QED BY <1>3, <1>4, <2>1, <2>2, <2>3
<1> QED BY <1>5, <1>6

(* Rows that are given nothing stand.                                      *)
LEMMA GivenRows ==
    ASSUME NEW alloc \in [LotId -> Nat], GivenTo(alloc), NEW H, NEW m, txs' = Append(txs, m),
           DOMAIN lots \subseteq LotId, \A l \in DOMAIN lots : alloc[l] > 0 => l \in H
    PROVE  RowsWritten(H, m)
<1>1. \A l \in DOMAIN lots : alloc[l] = 0 \/ l \in H
  OBVIOUS
<1> QED BY <1>1 DEF GivenTo, RowsWritten

(* refundPartial() keeps the books.                                        *)
LEMMA CommitRefundBooks ==
    ASSUME BInv, NEW p \in Proc, CommitRefund(p)
    PROVE  CallsBooks' /\ Books'
<1> DEFINE c == call[p]
<1>1. /\ IInv /\ CallsBooks /\ Books /\ c \in Call /\ HoldsDebit(c)
      /\ c.op = "refund" /\ c.step = "lock" /\ Return(p) /\ UNCHANGED <<clock, periodEnd>>
  BY DEF BInv, IInv, TypeOK, CallsBooks, CallsOK, CommitRefund
<1>2. PICK alloc \in [LotId -> Nat] :
        LET m == [type |-> "REFUND", amount |-> c.amount, reverses |-> c.target,
                  event |-> NoEvent, alloc |-> alloc]
        IN  /\ m \in Movement /\ txs' = Append(txs, m)
            /\ Total(alloc) = c.amount
            /\ GivenTo(alloc)
            /\ \A l \in DOMAIN lots : alloc[l] > 0 =>
                 /\ l \in c.held /\ AliveAt(lots[l], clock)
                 /\ txs[c.target].alloc[l] > 0
  BY <1>1, RefundWrites
<1> DEFINE m == [type |-> "REFUND", amount |-> c.amount, reverses |-> c.target,
                 event |-> NoEvent, alloc |-> alloc]
<1>3. /\ m \in Movement /\ txs' = Append(txs, m) /\ Total(alloc) = c.amount /\ GivenTo(alloc)
      /\ \A l \in DOMAIN lots : alloc[l] > 0 =>
           l \in c.held /\ AliveAt(lots[l], clock) /\ txs[c.target].alloc[l] > 0
  BY <1>2
<1>4. /\ m.type = "REFUND" /\ m.amount = c.amount /\ m.reverses = c.target /\ m.alloc = alloc
      /\ c.amount \in Nat /\ c.target \in DOMAIN txs /\ c.target # 0
  BY <1>1 DEF Call, HoldsDebit, IInv, TypeOK
<1> HIDE DEF m, c
<1>5. IInv'
  BY <1>1, CommitRefundStep
<1>6. CallsBooks'
  <2>1. RowsWritten(c.held, m)
    BY <1>1, <1>3, GivenRows, RowTypes
  <2>2. \A q \in Proc : Bystander(q, c.held, m.reverses)
    BY <1>1, <1>4, CommitLeavesOthers DEF c, Reverses
  <2> QED BY <1>1, <1>3, <2>1, <2>2, CommitBooks
<1>7. MovementsAllocated' /\ RefundsReverse'
  BY <1>1, <1>3, <1>4, MovementsRecorded
<1>8. HistoryIsBalance'
  <2>1. /\ Moved("REFUND")' = Moved("REFUND") + c.amount
        /\ Moved("DEBIT")' = Moved("DEBIT") + 0 /\ Moved("GRANT")' = Moved("GRANT") + 0
        /\ Moved("EXPIRE")' = Moved("EXPIRE") + 0
        /\ Moved("DEBIT") \in Nat /\ Moved("EXPIRE") \in Nat /\ Moved("GRANT") \in Nat
        /\ Moved("REFUND") \in Nat
    BY <1>1, <1>3, <1>4, MovedRecorded
  <2>2. /\ Total(Remaining)' = Total(Remaining) + c.amount
        /\ Total(Remaining) \in Nat /\ Total(Remaining)' \in Nat
    BY <1>1, <1>3, <1>5, GivenBalances
  <2> QED BY <1>1, <1>4, <2>1, <2>2 DEF Books, HistoryIsBalance
<1>9. LotBooks' /\ PurchasedUndated'
  BY <1>1, <1>3, <1>4, <1>5, GivenLotBooks
<1> QED BY <1>6, <1>7, <1>8, <1>9 DEF Books

(* grantLot()'s writes: a new lot, and its movement; or, for an event that *)
(* was granted before, nothing.                                            *)
LEMMA GrantWrites ==
    ASSUME IInv, Grant
    PROVE  \/ UNCHANGED <<lots, txs>>
           \/ \E alloc \in [LotId -> Nat], m \in Movement :
                /\ txs' = Append(txs, m) /\ GivenTo(alloc)
                /\ \A l \in DOMAIN lots : alloc[l] = 0
                /\ m.type = "GRANT" /\ m.reverses = 0 /\ m.amount > 0
                /\ Total(alloc) = m.amount
<1>1. PICK amount \in GrantAmount, kind \in CreditKind, e \in Event \cup {NoEvent},
           expiresAt \in {Never} \cup {b \in Boundary : b > clock} :
             /\ kind = "PURCHASED" => expiresAt = Never
             /\ grantLot(amount, kind, expiresAt, e)
  BY DEF Grant
<1>2. amount \in Nat /\ amount > 0 /\ expiresAt \in Nat /\ clock \in Nat
  BY <1>1, LedgerAssumption DEF Never, IInv, TypeOK
<1>3. CASE EventGranted(e)
  BY <1>1, <1>3 DEF grantLot
<1>4. CASE ~ EventGranted(e)
  <2> DEFINE m == [type |-> "GRANT", amount |-> amount, reverses |-> 0,
                   event |-> e, alloc |-> NoLots]
             n == [kind |-> kind, granted |-> amount, remaining |-> amount,
                   expiresAt |-> expiresAt]
             x == Len(lots) + 1
             d == [l \in LotId |-> IF l = x THEN amount ELSE 0]
  <2>1. txs' = Append(txs, m) /\ lots' = Append(lots, n)
    BY <1>1, <1>4 DEF grantLot
  <2>2. /\ m \in Movement /\ m.reverses = 0 /\ m.type = "GRANT" /\ m.amount = amount
        /\ n \in Lot /\ n.remaining = amount /\ n.granted = amount
        /\ n.kind = "PURCHASED" => n.expiresAt = Never
        /\ AliveAt(n, clock)
    BY <1>1, <1>2 DEF Movement, NoLots, Lot, AliveAt
  <2> HIDE DEF m, n
  <2>3. Len(lots) < MaxLots /\ Len(lots) \in Nat
    BY RowTypes DEF Grant
  <2>4. /\ DOMAIN lots' = DOMAIN lots \cup {x} /\ x \notin DOMAIN lots
        /\ \A l \in DOMAIN lots : lots'[l] = lots[l]
        /\ lots'[x] = n
    BY <2>1, <2>2, RowTypes
  <2>5. x \in LotId
    BY <2>3, LedgerAssumption DEF LotId
  <2> HIDE DEF x
  <2>6. d \in [LotId -> Nat] /\ d[x] = amount /\ \A l \in LotId \ {x} : d[l] = 0
    BY <1>2, <2>5
  <2> HIDE DEF d
  <2>7. Total(d) = amount
    <3>1. Total(d) = d[x]
      BY <2>5, <2>6, TotalPoint
    <3> QED BY <2>6, <3>1
  <2>8. \A l \in DOMAIN lots : l \in LotId /\ l # x /\ d[l] = 0 /\ lots[l].remaining \in Nat
    BY <2>4, <2>6, RowTypes
  <2>9. GivenTo(d)
    BY <2>2, <2>4, <2>6, <2>8 DEF GivenTo
  <2> QED BY <1>2, <2>1, <2>2, <2>6, <2>7, <2>8, <2>9
<1> QED BY <1>3, <1>4

(* grantLot() keeps the books.                                             *)
LEMMA GrantBooks ==
    ASSUME BInv, Grant
    PROVE  CallsBooks' /\ Books'
<1>1. /\ UNCHANGED <<clock, periodEnd, call>> /\ IInv /\ CallsBooks /\ Books
      /\ clock \in Nat
  BY DEF Grant, grantLot, BInv, IInv, TypeOK
<1>2. CASE UNCHANGED <<lots, txs>>
  <2>1. CallsBooks'
    BY <1>1, <1>2, CallersStand
  <2> QED BY <1>1, <1>2, <2>1, BooksQuiet
<1>3. CASE ~ UNCHANGED <<lots, txs>>
  <2>1. PICK d \in [LotId -> Nat], m \in Movement :
          /\ txs' = Append(txs, m) /\ GivenTo(d)
          /\ \A l \in DOMAIN lots : d[l] = 0
          /\ m.type = "GRANT" /\ m.reverses = 0 /\ m.amount > 0
          /\ Total(d) = m.amount
    BY <1>1, <1>3, GrantWrites
  <2>2. m.amount \in Nat
    BY DEF Movement
  <2>3. IInv'
    BY <1>1, GrantStep
  <2>4. CallsBooks'
    <3>1. RowsWritten({}, m)
      BY <2>1 DEF GivenTo, RowsWritten
    <3>2. \A q \in Proc : Bystander(q, {}, m.reverses)
      BY <1>1, <2>1, NoMovementZero DEF Bystander
    <3> QED BY <1>1, <3>1, <3>2, CommitBooks
  <2>5. MovementsAllocated' /\ RefundsReverse'
    BY <1>1, <2>1, MovementsRecorded
  <2>6. HistoryIsBalance'
    <3>1. /\ Moved("GRANT")' = Moved("GRANT") + m.amount
          /\ Moved("DEBIT")' = Moved("DEBIT") + 0 /\ Moved("REFUND")' = Moved("REFUND") + 0
          /\ Moved("EXPIRE")' = Moved("EXPIRE") + 0
          /\ Moved("DEBIT") \in Nat /\ Moved("EXPIRE") \in Nat /\ Moved("GRANT") \in Nat
          /\ Moved("REFUND") \in Nat
      BY <1>1, <2>1, MovedRecorded
    <3>2. /\ Total(Remaining)' = Total(Remaining) + m.amount
          /\ Total(Remaining) \in Nat /\ Total(Remaining)' \in Nat
      BY <1>1, <2>1, <2>3, GivenBalances
    <3>3. HistoryIsBalance
      BY <1>1 DEF Books
    <3> QED BY <2>2, <3>1, <3>2, <3>3 DEF HistoryIsBalance
  <2>7. LotBooks' /\ PurchasedUndated'
    <3>1. m.type \in {"GRANT", "REFUND"} /\ m.type # "REFUND"
          /\ \A l \in DOMAIN lots : ~ (d[l] > 0)
      BY <2>1
    <3>2. BInv /\ IInv' /\ UNCHANGED clock /\ GivenTo(d)
      BY <1>1, <2>1, <2>3
    <3>3. txs' = Append(txs, m)
      BY <2>1
    <3>4. m.type = "REFUND" => m.alloc = d /\ m.reverses \in DOMAIN txs
      BY <3>1
    <3>5. \A l \in DOMAIN lots : d[l] > 0 =>
              /\ m.type = "REFUND" /\ txs[m.reverses].alloc[l] > 0
              /\ AliveAt(lots[l], clock)
      BY <3>1
    <3> QED BY <3>1, <3>2, <3>3, <3>4, <3>5, GivenLotBooks
  <2> QED BY <2>4, <2>5, <2>6, <2>7 DEF Books
<1> QED BY <1>2, <1>3

-----------------------------------------------------------------------------
(* The books are invariant.                                                *)

(* An empty ledger's books are in order.                                   *)
LEMMA InitBooks == Init => CallsBooks /\ Books
<1> SUFFICES ASSUME Init PROVE CallsBooks /\ Books
  OBVIOUS
<1>1. CallsBooks
  BY IdleBooks DEF Init, CallsBooks
<1>2. ASSUME NEW f, DOMAIN f = {}, f \in [{} -> Nat] PROVE Total(f) = 0
  <2>1. \A x \in {} : f[x] = 0
    OBVIOUS
  <2> QED BY <1>2, <2>1, TotalZero
<1>3. DOMAIN lots = {} /\ DOMAIN txs = {}
  BY DEF Init
<1>4. Total(Remaining) = 0
  <2>1. DOMAIN Remaining = {} /\ Remaining \in [{} -> Nat]
    BY <1>3 DEF Remaining
  <2> QED BY <2>1, <1>2
<1>5. ASSUME NEW type PROVE Moved(type) = 0
  <2> DEFINE f == [t \in DOMAIN txs |-> IF txs[t].type = type THEN txs[t].amount ELSE 0]
  <2>1. DOMAIN f = {} /\ f \in [{} -> Nat]
    BY <1>3
  <2> HIDE DEF f
  <2>2. Total(f) = 0
    BY <2>1, <1>2
  <2> QED BY <2>2 DEF f, Moved
<1>6. HistoryIsBalance
  BY <1>4, <1>5 DEF HistoryIsBalance
<1> QED BY <1>1, <1>3, <1>6 DEF Books, MovementsAllocated, LotBooks, RefundsReverse,
                               PurchasedUndated

(* A step that leaves the rows and the time alone.                         *)
LEMMA RowsStand ==
    ASSUME BInv, UNCHANGED <<clock, lots, txs>>
    PROVE  Books'
<1>1. IInv /\ Books /\ clock \in Nat /\ clock' = clock
  BY DEF BInv, IInv, TypeOK
<1> QED BY <1>1, BooksQuiet

(* A step of a transaction keeps the books.                                *)
LEMMA StepBooks ==
    ASSUME BInv, NEW p \in Proc, Step(p)
    PROVE  CallsBooks' /\ Books'
<1>1. IInv /\ CallsBooks /\ Books /\ PurchasedUndated
  BY DEF BInv, Books
<1>2. CASE SelectDebit(p)
  BY <1>1, <1>2, SelectDebitBooks, RowsStand DEF SelectDebit
<1>3. CASE SelectExpire(p)
  BY <1>1, <1>3, SelectExpireBooks, RowsStand DEF SelectExpire
<1>4. CASE ReadOriginal(p)
  BY <1>1, <1>4, RefundReadsBooks, RowsStand DEF ReadOriginal
<1>5. CASE InsertReversal(p)
  BY <1>1, <1>5, RefundReadsBooks, RowsStand DEF InsertReversal
<1>6. CASE LockNext(p)
  BY <1>1, <1>6, LockNextBooks, RowsStand DEF LockNext
<1>7. CASE DeadlockVictim(p)
  BY <1>1, <1>7, DeadlockVictimBooks, RowsStand DEF DeadlockVictim
<1>8. CASE CommitDebit(p)
  BY <1>8, CommitDebitBooks
<1>9. CASE CommitRefund(p)
  BY <1>9, CommitRefundBooks
<1>10. CASE CommitExpire(p)
  BY <1>10, CommitExpireBooks
<1> QED BY <1>2, <1>3, <1>4, <1>5, <1>6, <1>7, <1>8, <1>9, <1>10 DEF Step

(* Every step keeps the books.                                             *)
LEMMA NextBooks == BInv /\ [Next]_vars => BInv'
<1> SUFFICES ASSUME BInv, [Next]_vars PROVE BInv'
  OBVIOUS
<1>1. IInv /\ CallsBooks /\ Books /\ clock \in Nat /\ IInv'
  BY NextStep DEF BInv, IInv, TypeOK
<1> SUFFICES CallsBooks' /\ Books'
  BY <1>1 DEF BInv
<1>2. CASE Tick
  <2>1. clock' = clock + 1 /\ UNCHANGED <<lots, txs, call>>
    BY <1>2 DEF Tick
  <2>2. clock' \in Nat /\ clock <= clock'
    BY <1>1, <2>1
  <2> QED BY <1>1, <2>1, <2>2, BooksQuiet, CallersStand
<1>3. ASSUME NEW end \in Boundary, Renew(end) PROVE CallsBooks' /\ Books'
  BY <1>1, <1>3, RowsStand, CallersStand DEF Renew
<1>4. CASE Grant
  BY <1>4, GrantBooks
<1>5. ASSUME NEW p \in Proc, CallDebit(p) \/ CallRefund(p) \/ CallExpire(p)
      PROVE  CallsBooks' /\ Books'
  <2>1. UNCHANGED <<clock, lots, txs>>
    BY <1>5 DEF CallDebit, CallRefund, CallExpire
  <2> QED BY <1>1, <1>5, <2>1, CallBooksSteps, RowsStand
<1>6. ASSUME NEW p \in Proc, Step(p) PROVE CallsBooks' /\ Books'
  BY <1>6, StepBooks
<1>7. ASSUME NEW p \in Proc, Crash(p) PROVE CallsBooks' /\ Books'
  BY <1>1, <1>7, ReturnBooks, RowsStand DEF Crash
<1>8. CASE UNCHANGED vars
  BY <1>1, <1>8, RowsStand, CallersStand DEF vars
<1> QED BY <1>2, <1>3, <1>4, <1>5, <1>6, <1>7, <1>8 DEF Next

(* The strengthened invariant holds in every interleaving.                 *)
THEOREM BooksInvariance == Spec => []BInv
<1>1. Init => BInv
  BY InitStep, InitBooks DEF BInv
<1> QED BY <1>1, NextBooks, PTL DEF Spec

(* Whatever debits, refunds, sweeps and grants interleave, deadlock and    *)
(* are retried, the sum of the recorded movements is the sum of what is    *)
(* left in the lots.                                                       *)
THEOREM HistoryBalances == Spec => []HistoryIsBalance
<1>1. BInv => HistoryIsBalance
  BY DEF BInv, Books
<1> QED BY <1>1, BooksInvariance, PTL

(* Every recorded debit and refund is covered credit for credit by its     *)
(* allocation rows, replacement lots and rounding included.                *)
THEOREM MovementsCovered == Spec => []MovementsAllocated
<1>1. BInv => MovementsAllocated
  BY DEF BInv, Books
<1> QED BY <1>1, BooksInvariance, PTL

(* Each lot's own books: nothing leaves a lot but by a debit or a sweep,   *)
(* and no refund revives what a sweep destroyed.                           *)
THEOREM LotsAccounted == Spec => []LotBooks
<1>1. BInv => LotBooks
  BY DEF BInv, Books
<1> QED BY <1>1, BooksInvariance, PTL

(* What was drawn from a lot and given back to it are sums of credits.     *)
LEMMA BooksTypes ==
    ASSUME IInv, NEW l \in LotId
    PROVE  Drawn(l) \in Nat /\ Returned(l) \in Nat
<1> DEFINE f == [t \in DOMAIN txs |-> IF txs[t].type = "DEBIT" THEN txs[t].alloc[l] ELSE 0]
           g == [t \in DOMAIN txs |->
                   IF txs[t].type = "REFUND" /\ txs[txs[t].reverses].alloc[l] > 0
                   THEN txs[t].alloc[l] ELSE 0]
           S == DOMAIN txs
<1>1. txs \in Seq(Movement)
  BY DEF IInv, TypeOK
<1>2. IsFiniteSet(S)
  BY <1>1, FS_Interval
<1>3. \A t \in S : txs[t].alloc[l] \in Nat
  <2>1. \A t \in S : txs[t] \in Movement
    BY <1>1
  <2> QED BY <2>1 DEF Movement
<1>4. f \in [S -> Nat] /\ g \in [S -> Nat]
  BY <1>3
<1>5. Drawn(l) = Total(f) /\ Returned(l) = Total(g)
  BY DEF Drawn, Returned
<1> HIDE DEF f, g, S
<1>6. Total(f) \in Nat /\ Total(g) \in Nat
  BY <1>2, <1>4, TotalType
<1> QED BY <1>5, <1>6

(* No sweep ever destroys a purchased credit, through any chain of debits, *)
(* refunds and replacement lots.                                           *)
THEOREM PurchasedKept == Spec => []PurchasedNeverLost
<1>1. ASSUME BInv PROVE PurchasedNeverLost
  <2> SUFFICES ASSUME NEW l \in DOMAIN lots, lots[l].kind = "PURCHASED"
               PROVE  lots[l].remaining + Drawn(l) = lots[l].granted + Returned(l)
    BY DEF PurchasedNeverLost
  <2>1. AliveAt(lots[l], clock)
    BY <1>1 DEF BInv, Books, PurchasedUndated, Bought, AliveAt
  <2>2. /\ lots[l].remaining + Drawn(l) <= lots[l].granted + Returned(l)
        /\ ~ (lots[l].remaining + Drawn(l) < lots[l].granted + Returned(l))
    BY <1>1, <2>1 DEF BInv, Books, LotBooks
  <2>3. /\ lots[l].remaining \in Nat /\ lots[l].granted \in Nat
        /\ Drawn(l) \in Nat /\ Returned(l) \in Nat
    BY <1>1, RowTypes, BooksTypes DEF BInv
  <2> QED BY <2>2, <2>3
<1> QED BY <1>1, BooksInvariance, PTL

-----------------------------------------------------------------------------
(* Action properties.                                                      *)

(* debit() takes from a purchased lot only when the live plan lots it      *)
(* selected are emptied by the same commit.                                *)
THEOREM PlanFirstAlways == Spec => PlanSpentFirst
<1> DEFINE Act ==
      \A p \in Proc :
         LET c == call[p]
         IN  (/\ CommitDebit(p)
              /\ \E l \in DOMAIN lots : /\ lots[l].kind = "PURCHASED"
                                        /\ lots'[l].remaining < lots[l].remaining)
             => \A l \in c.held : (/\ lots[l].kind = "PLAN"
                                    /\ AliveAt(lots[l], c.now))
                                   => lots'[l].remaining = 0
<1>1. ASSUME BInv, [Next]_vars PROVE Act
  <2> SUFFICES ASSUME NEW p \in Proc, CommitDebit(p),
                      NEW b \in DOMAIN lots, lots[b].kind = "PURCHASED",
                      lots'[b].remaining < lots[b].remaining,
                      NEW l \in call[p].held, lots[l].kind = "PLAN",
                      AliveAt(lots[l], call[p].now)
               PROVE  lots'[l].remaining = 0
    OBVIOUS
  <2> DEFINE c == call[p]
  <2>1. /\ IInv /\ c \in Call /\ CallBooks(c) /\ HoldsRows(c) /\ c.op = "debit"
        /\ \A x \in DOMAIN lots : x \in LotId /\ lots[x].remaining \in Nat
    BY <1>1, RowTypes DEF BInv, IInv, TypeOK, CallsBooks, CallsOK, CommitDebit
  <2>2. ~ (c.available < c.amount)
    BY <2>1 DEF CommitDebit
  <2>3. TakenFrom(c.take)
    BY <2>1, <2>2, DebitWrites
  <2>4. IInv'
    BY <1>1, <2>1, NextStep
  <2>5. c.take \in [LotId -> Nat] /\ l \in DOMAIN lots
    BY <2>1 DEF Call, HoldsRows
  <2>6. /\ lots[b].remaining = lots'[b].remaining + c.take[b] /\ b \in LotId
        /\ lots[l].remaining = lots'[l].remaining + c.take[l] /\ l \in LotId
        /\ lots'[b].remaining \in Nat /\ lots'[l].remaining \in Nat
        /\ c.take[b] \in Nat /\ c.take[l] \in Nat /\ lots[l].remaining \in Nat
    BY <2>1, <2>3, <2>4, <2>5, RowTypesAfter DEF TakenFrom
  <2>7. c.take[b] > 0 /\ b \in c.held
    BY <2>1, <2>6 DEF HoldsRows
  <2>8. c.take[l] = lots[l].remaining
    BY <2>1, <2>7 DEF CallBooks, PlanFirst, Bought, PlanAlive
  <2> QED BY <2>6, <2>8
<1>2. ASSUME BInv, [Next]_vars PROVE [Act]_vars
  BY <1>1, <1>2
<1>3. PlanSpentFirst <=> [][Act]_vars
  BY DEF PlanSpentFirst
<1> HIDE DEF Act
<1> QED BY <1>2, <1>3, BooksInvariance, PTL DEF Spec

(* No step gives a lot a later boundary, or a boundary it never had:       *)
(* sweeps only move one back, refunds and debits leave it alone.           *)
THEOREM BoundaryOnlyEarlier == Spec => BoundaryNeverExtended
<1> DEFINE Act ==
      \A l \in DOMAIN lots :
         \/ lots'[l].expiresAt = lots[l].expiresAt
         \/ lots[l].expiresAt # Never /\ lots'[l].expiresAt < lots[l].expiresAt
<1>1. ASSUME BInv, [Next]_vars PROVE Act
  <2>1. IInv /\ CallsBooks
    BY <1>1 DEF BInv
  <2>2. CASE UNCHANGED lots
    BY <2>2
  <2>3. CASE Grant
    <3>1. PICK n : lots' = Append(lots, n) \/ lots' = lots
      BY <2>3 DEF Grant, grantLot
    <3> QED BY <2>1, <3>1, RowTypes
  <2>4. ASSUME NEW p \in Proc, CommitDebit(p) PROVE Act
    <3>1. CASE call[p].available < call[p].amount
      BY <2>2, <2>4, <3>1 DEF CommitDebit
    <3>2. CASE ~ (call[p].available < call[p].amount)
      BY <2>1, <2>4, <3>2, DebitWrites
    <3> QED BY <3>1, <3>2
  <2>5. ASSUME NEW p \in Proc, CommitRefund(p) PROVE Act
    <3>1. PICK alloc : GivenTo(alloc)
      BY <2>1, <2>5, RefundWrites
    <3> QED BY <3>1 DEF GivenTo
  <2>6. ASSUME NEW p \in Proc, CommitExpire(p) PROVE Act
    <3>1. CASE {l \in DOMAIN lots : call[p].take[l] > 0} = {}
      BY <2>2, <2>6, <3>1 DEF CommitExpire
    <3>2. CASE {l \in DOMAIN lots : call[p].take[l] > 0} # {}
      <4> SUFFICES ASSUME NEW l \in DOMAIN lots
                   PROVE  \/ lots'[l].expiresAt = lots[l].expiresAt
                          \/ /\ lots[l].expiresAt # Never
                             /\ lots'[l].expiresAt < lots[l].expiresAt
        OBVIOUS
      <4>1. /\ TakenFrom(call[p].take)
            /\ call[p].take[l] > 0 => /\ lots[l].expiresAt # Never
                                      /\ lots'[l].expiresAt <= lots[l].expiresAt
        BY <2>1, <2>6, <3>2, ExpireWrites
      <4>2. call[p].take \in [LotId -> Nat] /\ l \in LotId /\ lots[l].expiresAt \in Nat
        BY <2>1, RowTypes DEF IInv, TypeOK, Call
      <4>3. CASE call[p].take[l] > 0
        <5>1. lots'[l].expiresAt \in Nat
          BY <1>1, <2>1, <4>1, NextStep, RowTypesAfter DEF TakenFrom
        <5> QED BY <4>1, <4>2, <4>3, <5>1
      <4>4. CASE call[p].take[l] = 0
        BY <4>1, <4>4 DEF TakenFrom
      <4> QED BY <4>2, <4>3, <4>4
    <3> QED BY <3>1, <3>2
  <2>7. ASSUME NEW p \in Proc, Step(p) PROVE Act
    <3>1. CASE SelectDebit(p) \/ ReadOriginal(p) \/ InsertReversal(p) \/ SelectExpire(p)
      BY <2>2, <3>1 DEF SelectDebit, ReadOriginal, InsertReversal, SelectExpire
    <3>2. CASE LockNext(p) \/ DeadlockVictim(p)
      BY <2>2, <3>2 DEF LockNext, DeadlockVictim
    <3> QED BY <2>4, <2>5, <2>6, <2>7, <3>1, <3>2 DEF Step
  <2>8. CASE Tick \/ \E end \in Boundary : Renew(end)
    BY <2>2, <2>8 DEF Tick, Renew
  <2>9. ASSUME NEW p \in Proc,
               CallDebit(p) \/ CallRefund(p) \/ CallExpire(p) \/ Crash(p)
        PROVE  Act
    BY <2>2, <2>9 DEF CallDebit, CallRefund, CallExpire, Crash
  <2>10. CASE UNCHANGED vars
    BY <2>2, <2>10 DEF vars
  <2> HIDE DEF Act
  <2> QED BY <1>1, <2>3, <2>7, <2>8, <2>9, <2>10 DEF Next
<1>2. ASSUME BInv, [Next]_vars PROVE [Act]_vars
  BY <1>1, <1>2
<1>3. BoundaryNeverExtended <=> [][Act]_vars
  BY DEF BoundaryNeverExtended
<1> HIDE DEF Act
<1> QED BY <1>2, <1>3, BooksInvariance, PTL DEF Spec

-----------------------------------------------------------------------------
(* The ledger implements Account.                                          *)

(* Every open transaction has a movement reserved for it.                  *)
OpenCalls == {q \in Proc : call[q].step # "idle"}

OpenRoom == Len(txs) + Cardinality(OpenCalls) <= MaxTxs

(* The open transactions are finitely many, and as many as it takes.       *)
LEMMA OpenFinite == /\ IsFiniteSet(OpenCalls) /\ Cardinality(OpenCalls) \in Nat
                    /\ IsFiniteSet(OpenCalls') /\ Cardinality(OpenCalls') \in Nat
<1>1. OpenCalls \in SUBSET Proc /\ OpenCalls' \in SUBSET Proc
  BY DEF OpenCalls
<1>2. IsFiniteSet(OpenCalls) /\ IsFiniteSet(OpenCalls')
  BY <1>1, LedgerAssumption, FS_Subset
<1> QED BY <1>2, FS_CardinalityType

(* No transaction opens and no movement is recorded.                       *)
LEMMA RoomStands ==
    ASSUME IInv, OpenRoom, UNCHANGED txs, OpenCalls' \subseteq OpenCalls
    PROVE  OpenRoom'
<1>1. Cardinality(OpenCalls') <= Cardinality(OpenCalls)
  BY OpenFinite, FS_Subset
<1>2. Len(txs) \in Nat /\ Len(txs') = Len(txs) /\ MaxTxs \in Nat
  BY LedgerAssumption DEF IInv, TypeOK
<1> QED BY <1>1, <1>2, OpenFinite DEF OpenRoom

(* A commit closes its transaction and records at most one movement.       *)
LEMMA RoomUsed ==
    ASSUME IInv, OpenRoom, NEW p \in Proc, call[p].step # "idle", Return(p),
           Len(txs') \in Nat, Len(txs') <= Len(txs) + 1
    PROVE  OpenRoom'
<1>1. OpenCalls' = OpenCalls \ {p} /\ p \in OpenCalls
  BY DEF IInv, TypeOK, Return, Idle, OpenCalls
<1>2. Cardinality(OpenCalls') = Cardinality(OpenCalls) - 1
  BY <1>1, OpenFinite, FS_RemoveElement
<1>3. Len(txs) \in Nat /\ MaxTxs \in Nat
  BY LedgerAssumption DEF IInv, TypeOK
<1> QED BY <1>2, <1>3, OpenFinite DEF OpenRoom

(* A call opens a transaction only where a movement is left for it.        *)
LEMMA RoomReserved ==
    ASSUME IInv, OpenRoom, NEW p \in Proc, CallDebit(p) \/ CallRefund(p) \/ CallExpire(p)
    PROVE  OpenRoom'
<1>1. PICK c : /\ call' = [call EXCEPT ![p] = c] /\ c.step = "begin"
               /\ call[p].step = "idle" /\ Room /\ UNCHANGED txs
  BY DEF CallDebit, CallRefund, CallExpire, Begin
<1>2. OpenCalls' = OpenCalls \cup {p} /\ p \notin OpenCalls
  BY <1>1 DEF IInv, TypeOK, OpenCalls
<1>3. Cardinality(OpenCalls') = Cardinality(OpenCalls) + 1
  BY <1>2, OpenFinite, FS_AddElement
<1>4. Len(txs) \in Nat /\ Len(txs') = Len(txs) /\ MaxTxs \in Nat
  BY <1>1, LedgerAssumption DEF IInv, TypeOK
<1>5. Len(txs) + Cardinality(OpenCalls) < MaxTxs
  BY <1>1 DEF Room, OpenCalls
<1> QED BY <1>3, <1>4, <1>5, OpenFinite DEF OpenRoom

(* The bound on movements leaves every open transaction its own.           *)
LEMMA NextRoom == BInv /\ OpenRoom /\ [Next]_vars => OpenRoom'
<1> SUFFICES ASSUME BInv, OpenRoom, [Next]_vars PROVE OpenRoom'
  OBVIOUS
<1>1. /\ IInv /\ CallsBooks /\ call \in [Proc -> Call] /\ txs \in Seq(Movement)
      /\ Len(txs) \in Nat /\ MaxTxs \in Nat
  BY LedgerAssumption DEF BInv, IInv, TypeOK
<1>2. ASSUME NEW p \in Proc, call[p].step # "idle", UNCHANGED txs,
             \A q \in Proc \ {p} : call'[q] = call[q]
      PROVE  OpenRoom'
  <2>1. OpenCalls' \subseteq OpenCalls
    BY <1>1, <1>2 DEF OpenCalls
  <2> QED BY <1>1, <1>2, <2>1, RoomStands
<1>3. CASE UNCHANGED <<txs, call>>
  <2>1. OpenCalls' = OpenCalls
    BY <1>3 DEF OpenCalls
  <2> QED BY <1>1, <1>3, <2>1, RoomStands
<1>4. CASE Grant
  <2>1. /\ Len(txs) + Cardinality(OpenCalls) < MaxTxs
        /\ UNCHANGED call
        /\ UNCHANGED txs \/ \E m : txs' = Append(txs, m)
    BY <1>4 DEF Grant, grantLot, Room, OpenCalls
  <2>2. Len(txs') \in Nat /\ Len(txs') <= Len(txs) + 1
    BY <1>1, <2>1
  <2>3. OpenCalls' = OpenCalls
    BY <2>1 DEF OpenCalls
  <2> QED BY <1>1, <2>1, <2>2, <2>3, OpenFinite DEF OpenRoom
<1>5. ASSUME NEW p \in Proc, CallDebit(p) \/ CallRefund(p) \/ CallExpire(p)
      PROVE  OpenRoom'
  BY <1>1, <1>5, RoomReserved
<1>6. ASSUME NEW p \in Proc, Step(p) PROVE OpenRoom'
  <2>1. CASE CommitDebit(p) \/ CommitRefund(p) \/ CommitExpire(p)
    <3>1. /\ call[p].step # "idle" /\ Return(p)
          /\ UNCHANGED txs \/ \E m : txs' = Append(txs, m)
      BY <2>1 DEF CommitDebit, CommitRefund, CommitExpire
    <3>2. Len(txs') \in Nat /\ Len(txs') <= Len(txs) + 1
      BY <1>1, <3>1
    <3> QED BY <1>1, <3>1, <3>2, RoomUsed
  <2>2. CASE SelectDebit(p)
    BY <1>1, <1>2, <2>2 DEF SelectDebit
  <2>3. CASE SelectExpire(p)
    BY <1>1, <1>2, <2>3 DEF SelectExpire
  <2>4. CASE ReadOriginal(p)
    BY <1>1, <1>2, <2>4 DEF ReadOriginal, Return
  <2>5. CASE InsertReversal(p)
    BY <1>1, <1>2, <2>5 DEF InsertReversal, Return
  <2>6. CASE LockNext(p)
    BY <1>1, <1>2, <2>6 DEF LockNext
  <2>7. CASE DeadlockVictim(p)
    <3>1. call[p].step # "idle"
      BY <2>7 DEF DeadlockVictim, WaitCycle, WaitsFor
    <3> QED BY <1>1, <1>2, <2>7, <3>1 DEF DeadlockVictim, Return
  <2> QED BY <1>6, <2>1, <2>2, <2>3, <2>4, <2>5, <2>6, <2>7 DEF Step
<1>7. ASSUME NEW p \in Proc, Crash(p) PROVE OpenRoom'
  BY <1>1, <1>2, <1>7 DEF Crash, Return
<1>8. CASE Tick \/ (\E end \in Boundary : Renew(end)) \/ UNCHANGED vars
  BY <1>3, <1>8 DEF Tick, Renew, vars
<1> QED BY <1>4, <1>5, <1>6, <1>7, <1>8 DEF Next


(* What the refund of a debit has given back.                              *)
GivenBack(d) ==
    Total([t \in DOMAIN txs |-> IF txs[t].reverses = d THEN txs[t].amount ELSE 0])

(* Credits given back for a debit, one row later.                          *)
LEMMA GivenBackRecorded ==
    ASSUME IInv, NEW m \in Movement, txs' = Append(txs, m), NEW d
    PROVE  /\ GivenBack(d) \in Nat
           /\ GivenBack(d)' = GivenBack(d) + IF m.reverses = d THEN m.amount ELSE 0
<1> DEFINE f == [t \in DOMAIN txs |-> IF txs[t].reverses = d THEN txs[t].amount ELSE 0]
           g == [t \in DOMAIN txs' |-> IF txs'[t].reverses = d THEN txs'[t].amount ELSE 0]
           n == IF m.reverses = d THEN m.amount ELSE 0
<1>1. m.amount \in Nat /\ \A t \in DOMAIN txs : txs[t].amount \in Nat
  BY Recorded DEF Movement
<1>2. /\ f \in [DOMAIN txs -> Nat] /\ g \in [DOMAIN txs' -> Nat]
      /\ \A t \in DOMAIN txs : g[t] = f[t]
      /\ g[Len(txs) + 1] = n
  BY <1>1, Recorded
<1>3. GivenBack(d) = Total(f) /\ GivenBack(d)' = Total(g)
  BY DEF GivenBack
<1> HIDE DEF f, g, n
<1>4. Total(g) = Total(f) + g[Len(txs) + 1] /\ Total(f) \in Nat
  BY <1>2, SumRecorded
<1> QED BY <1>2, <1>3, <1>4 DEF n

(* A debit nobody has reversed got nothing back.                           *)
LEMMA NothingGivenBack ==
    ASSUME NEW d, ~ Refunded(d)
    PROVE  GivenBack(d) = 0
<1> DEFINE f == [t \in DOMAIN txs |-> IF txs[t].reverses = d THEN txs[t].amount ELSE 0]
           S == DOMAIN txs
<1>1. f \in [S -> Nat] /\ \A t \in S : f[t] = 0
  BY DEF Refunded
<1>2. GivenBack(d) = Total(f)
  BY DEF GivenBack
<1> HIDE DEF f, S
<1>3. Total(f) = 0
  BY <1>1, TotalZero
<1> QED BY <1>2, <1>3

(* Charges, written with GivenBack.                                        *)
Debits == {t \in DOMAIN txs : txs[t].type = "DEBIT"}

(* The charges the mapping shows, now and after the step.                  *)
LEMMA ChargesShown ==
    /\ Charges = [d \in Debits |-> [amount |-> txs[d].amount, refunded |-> GivenBack(d)]]
    /\ Charges' = [d \in Debits' |-> [amount |-> txs'[d].amount, refunded |-> GivenBack(d)']]
BY DEF Charges, Debits, GivenBack

(* A movement that is no debit and reverses none shows no change.          *)
LEMMA ChargesStand ==
    ASSUME IInv, NEW m \in Movement, txs' = Append(txs, m), m.type # "DEBIT", m.reverses = 0
    PROVE  Charges' = Charges
<1>1. Debits' = Debits
  BY Recorded DEF Debits
<1>2. ASSUME NEW d \in Debits
      PROVE  txs'[d].amount = txs[d].amount /\ GivenBack(d)' = GivenBack(d)
  <2>1. d \in DOMAIN txs /\ d # 0
    BY DEF Debits, IInv, TypeOK
  <2>2. GivenBack(d)' = GivenBack(d) + 0 /\ GivenBack(d) \in Nat
    BY <2>1, GivenBackRecorded
  <2> QED BY <2>1, <2>2, Recorded
<1> QED BY <1>1, <1>2, ChargesShown

(* A debit's movement shows as one new charge.                             *)
LEMMA ChargeAdded ==
    ASSUME IInv, NEW m \in Movement, txs' = Append(txs, m), m.type = "DEBIT", m.reverses = 0
    PROVE  LET x == Len(txs) + 1
           IN  /\ x \notin DOMAIN Charges
               /\ Charges' = [d \in DOMAIN Charges \cup {x} |->
                                IF d = x THEN [amount |-> m.amount, refunded |-> 0]
                                         ELSE Charges[d]]
<1>0. PICK x : x = Len(txs) + 1
  OBVIOUS
<1>1. /\ DOMAIN txs' = DOMAIN txs \cup {x} /\ x \notin DOMAIN txs /\ x # 0 /\ txs'[x] = m
      /\ \A t \in DOMAIN txs : txs'[t] = txs[t]
  BY <1>0, Recorded
<1>2. Debits' = Debits \cup {x} /\ x \notin Debits
  BY <1>1 DEF Debits
<1>3. ASSUME NEW d \in Debits
      PROVE  txs'[d].amount = txs[d].amount /\ GivenBack(d)' = GivenBack(d)
  <2>1. d \in DOMAIN txs /\ d # 0
    BY DEF Debits, IInv, TypeOK
  <2>2. GivenBack(d)' = GivenBack(d) + 0 /\ GivenBack(d) \in Nat
    BY <2>1, GivenBackRecorded
  <2> QED BY <1>1, <2>1, <2>2
<1>4. GivenBack(x)' = 0
  <2>1. ~ Refunded(x)
    BY <1>1 DEF Refunded, IInv, RefundedOnce
  <2>2. GivenBack(x) = 0
    BY <2>1, NothingGivenBack
  <2>3. GivenBack(x)' = GivenBack(x) + 0
    BY <1>1, GivenBackRecorded
  <2> QED BY <2>2, <2>3
<1>5. DOMAIN Charges = Debits
  BY ChargesShown
<1>6. Charges' = [d \in Debits \cup {x} |->
                    IF d = x THEN [amount |-> m.amount, refunded |-> 0] ELSE Charges[d]]
  <2>1. Charges' = [d \in Debits \cup {x} |->
                      [amount |-> txs'[d].amount, refunded |-> GivenBack(d)']]
    BY <1>2, ChargesShown
  <2>2. \A d \in Debits :
          [amount |-> txs'[d].amount, refunded |-> GivenBack(d)'] = Charges[d]
    BY <1>3, ChargesShown
  <2>3. [amount |-> txs'[x].amount, refunded |-> GivenBack(x)']
          = [amount |-> m.amount, refunded |-> 0]
    BY <1>1, <1>4
  <2> QED BY <1>2, <2>1, <2>2, <2>3
<1> QED BY <1>0, <1>2, <1>5, <1>6

(* A refund's movement shows as the reversal of one charge.                *)
LEMMA ChargeReversed ==
    ASSUME IInv, NEW m \in Movement, txs' = Append(txs, m), m.type = "REFUND",
           m.reverses \in DOMAIN txs, txs[m.reverses].type = "DEBIT", ~ Refunded(m.reverses)
    PROVE  LET d == m.reverses
           IN  /\ d \in DOMAIN Charges /\ Charges[d].refunded = 0
               /\ Charges[d].amount = txs[d].amount
               /\ Charges' = [Charges EXCEPT ![d].refunded = m.amount]
<1> DEFINE d == m.reverses
<1>1. Debits' = Debits /\ d \in Debits
  BY Recorded DEF Debits
<1>2. GivenBack(d) = 0 /\ m.amount \in Nat
  BY NothingGivenBack DEF Movement
<1>3. ASSUME NEW e \in Debits
      PROVE  /\ txs'[e].amount = txs[e].amount
             /\ GivenBack(e)' = IF e = d THEN m.amount ELSE GivenBack(e)
  <2>1. e \in DOMAIN txs
    BY DEF Debits
  <2>2. /\ GivenBack(e)' = GivenBack(e) + IF d = e THEN m.amount ELSE 0
        /\ GivenBack(e) \in Nat
    BY GivenBackRecorded
  <2> QED BY <1>2, <2>1, <2>2, Recorded
<1> HIDE DEF d
<1>4. /\ DOMAIN Charges = Debits
      /\ \A e \in Debits : Charges[e] = [amount |-> txs[e].amount, refunded |-> GivenBack(e)]
  BY ChargesShown
<1>5. Charges' = [e \in Debits |->
                    IF e = d THEN [amount |-> txs[e].amount, refunded |-> m.amount]
                             ELSE Charges[e]]
  <2>1. Charges' = [e \in Debits |->
                      [amount |-> txs'[e].amount, refunded |-> GivenBack(e)']]
    BY <1>1, ChargesShown
  <2>2. \A e \in Debits :
          [amount |-> txs'[e].amount, refunded |-> GivenBack(e)']
            = IF e = d THEN [amount |-> txs[e].amount, refunded |-> m.amount]
                       ELSE Charges[e]
    BY <1>3, <1>4
  <2> QED BY <2>1, <2>2
<1>6. [Charges EXCEPT ![d].refunded = m.amount]
        = [e \in Debits |->
             IF e = d THEN [amount |-> txs[e].amount, refunded |-> m.amount] ELSE Charges[e]]
  BY <1>1, <1>4, ChargesShown
<1> QED BY <1>1, <1>2, <1>4, <1>5, <1>6 DEF d


(* The sums of what can be spent, and of what expired late.                *)
LEMMA ShownTypes ==
    ASSUME IInv, IInv'
    PROVE  /\ Spendable \in [LotId -> Nat] /\ Late \in [LotId -> Nat]
           /\ Spendable' \in [LotId -> Nat] /\ Late' \in [LotId -> Nat]
<1>1. Spendable \in [LotId -> Nat] /\ Late \in [LotId -> Nat]
  BY RowTypes DEF Spendable, Late
<1>2. Spendable' \in [LotId -> Nat] /\ Late' \in [LotId -> Nat]
  BY RowTypesAfter DEF Spendable, Late
<1> QED BY <1>1, <1>2

(* Lots that count for no more add up to no more.                          *)
LEMMA LotsLess ==
    ASSUME NEW f \in [LotId -> Nat], NEW h \in [LotId -> Nat], \A l \in LotId : f[l] <= h[l]
    PROVE  Total(f) <= Total(h) /\ Total(f) \in Nat /\ Total(h) \in Nat
<1> DEFINE d == [l \in LotId |-> h[l] - f[l]]
<1>1. d \in [LotId -> Nat] /\ \A l \in LotId : h[l] = f[l] + d[l]
  <2>1. \A l \in LotId : h[l] - f[l] \in Nat /\ h[l] = f[l] + (h[l] - f[l])
    OBVIOUS
  <2> QED BY <2>1
<1> HIDE DEF d
<1>2. /\ Total(h) = Total(f) + Total(d)
      /\ Total(f) \in Nat /\ Total(d) \in Nat /\ Total(h) \in Nat
  BY <1>1, LotsAdd
<1> QED BY <1>2

(* Credits that leave s, for t or for nothing: what t gains, s has lost.   *)
LEMMA CreditsLapse ==
    ASSUME NEW s \in [LotId -> Nat], NEW t \in [LotId -> Nat],
           NEW s2 \in [LotId -> Nat], NEW t2 \in [LotId -> Nat],
           \A l \in LotId : s2[l] <= s[l], \A l \in LotId : s2[l] + t2[l] <= s[l] + t[l]
    PROVE  \E x \in 0..Total(s) : /\ Total(s2) = Total(s) - x
                                  /\ Total(t2) \in 0..(Total(t) + x)
<1> DEFINE u  == [l \in LotId |-> s[l] + t[l]]
           u2 == [l \in LotId |-> s2[l] + t2[l]]
<1>1. /\ u \in [LotId -> Nat] /\ \A l \in LotId : u[l] = s[l] + t[l]
      /\ u2 \in [LotId -> Nat] /\ \A l \in LotId : u2[l] = s2[l] + t2[l]
      /\ \A l \in LotId : u2[l] <= u[l]
  OBVIOUS
<1> HIDE DEF u, u2
<1>2. Total(u) = Total(s) + Total(t) /\ Total(s) \in Nat /\ Total(t) \in Nat
  <2>1. u \in [LotId -> Nat] /\ \A l \in LotId : u[l] = s[l] + t[l]
    BY <1>1
  <2> QED BY <2>1, LotsAdd
<1>3. Total(u2) = Total(s2) + Total(t2) /\ Total(s2) \in Nat /\ Total(t2) \in Nat
  <2>1. u2 \in [LotId -> Nat] /\ \A l \in LotId : u2[l] = s2[l] + t2[l]
    BY <1>1
  <2> QED BY <2>1, LotsAdd
<1>4. Total(u2) <= Total(u)
  BY <1>1, LotsLess
<1>5. Total(s2) <= Total(s)
  BY LotsLess
<1>6. PICK x : x = Total(s) - Total(s2)
  OBVIOUS
<1> QED BY <1>2, <1>3, <1>4, <1>5, <1>6

(* A step that charges and reverses nothing and gives to no lot shows as a *)
(* lapse, of nothing at all unless credits expire or are swept: a lot that *)
(* expires is late only if a debit under way has selected it before.       *)
LEMMA LapseShown ==
    ASSUME IInv, IInv', Charges' = Charges, DOMAIN lots' = DOMAIN lots, clock <= clock',
           \A l \in DOMAIN lots :
             /\ lots'[l].remaining <= lots[l].remaining
             /\ lots'[l].remaining = 0 \/ lots'[l].expiresAt = lots[l].expiresAt
             /\ lots'[l].remaining # 0 => \A q \in Proc :
                  Selected(q, l)' => Selected(q, l) \/ AliveAt(lots[l], clock)
    PROVE  [Promise!ANext]_(Promise!avars)
<1>1. clock \in Nat /\ clock' \in Nat
  BY DEF IInv, TypeOK
<1>2. ASSUME NEW l \in LotId
      PROVE  /\ Spendable'[l] <= Spendable[l]
             /\ Spendable'[l] + Late'[l] <= Spendable[l] + Late[l]
  <2>0. l \in DOMAIN lots => /\ lots[l].remaining \in Nat /\ lots'[l].remaining \in Nat
                             /\ lots[l].expiresAt \in Nat
    BY RowTypes, RowTypesAfter
  <2>1. CASE l \notin DOMAIN lots
    BY <2>1 DEF Spendable, Late
  <2>2. CASE l \in DOMAIN lots /\ lots'[l].remaining = 0
    <3>1. Spendable'[l] = 0 /\ Late'[l] = 0
      BY <2>2 DEF Spendable, Late
    <3> QED BY <3>1, ShownTypes
  <2>3. CASE l \in DOMAIN lots /\ lots'[l].remaining # 0
    <3>1. AliveAt(lots[l], clock)' => AliveAt(lots[l], clock)
      BY <1>1, <2>0, <2>3 DEF AliveAt
    <3>2. CASE AliveAt(lots[l], clock)
      <4>1. Spendable[l] = lots[l].remaining /\ Late[l] = 0
        BY <2>3, <3>2 DEF Spendable, Late
      <4>2. /\ Spendable'[l] \in {0, lots'[l].remaining}
            /\ Late'[l] \in {0, lots'[l].remaining}
            /\ Spendable'[l] = 0 \/ Late'[l] = 0
        BY <2>3 DEF Spendable, Late
      <4> QED BY <2>0, <2>3, <4>1, <4>2
    <3>3. CASE ~ AliveAt(lots[l], clock)
      <4>1. Spendable[l] = 0 /\ Spendable'[l] = 0
        BY <2>3, <3>1, <3>3 DEF Spendable
      <4>2. (\E q \in Proc : Selected(q, l)') => \E q \in Proc : Selected(q, l)
        BY <2>3, <3>3
      <4>3. Late[l] = IF \E q \in Proc : Selected(q, l) THEN lots[l].remaining ELSE 0
        BY <2>3, <3>3 DEF Late
      <4>4. Late'[l] = IF \E q \in Proc : Selected(q, l)' THEN lots'[l].remaining ELSE 0
        BY <2>3, <3>1, <3>3 DEF Late
      <4> HIDE DEF Selected
      <4> QED BY <2>0, <2>3, <4>1, <4>2, <4>3, <4>4
    <3> QED BY <3>2, <3>3
  <2> QED BY <2>1, <2>2, <2>3
<1>3. PICK x \in 0..Total(Spendable) : /\ Total(Spendable') = Total(Spendable) - x
                                       /\ Total(Late') \in 0..(Total(Late) + x)
  <2> DEFINE s2 == Spendable'
             t2 == Late'
  <2>1. /\ s2 \in [LotId -> Nat] /\ t2 \in [LotId -> Nat]
        /\ Spendable \in [LotId -> Nat] /\ Late \in [LotId -> Nat]
        /\ \A l \in LotId : s2[l] <= Spendable[l]
        /\ \A l \in LotId : s2[l] + t2[l] <= Spendable[l] + Late[l]
    BY <1>2, ShownTypes
  <2> HIDE DEF s2, t2
  <2>2. \E x \in 0..Total(Spendable) : /\ Total(s2) = Total(Spendable) - x
                                       /\ Total(t2) \in 0..(Total(Late) + x)
    BY <2>1, CreditsLapse
  <2> QED BY <2>2 DEF s2, t2
<1>4. Total(Spendable)' = Total(Spendable') /\ Total(Late)' = Total(Late')
  BY DEF Total, Units
<1>5. Promise!Lapse
  BY <1>3, <1>4 DEF Promise!Lapse
<1> QED BY <1>5 DEF Promise!ANext

(* In particular a step that writes nothing: time, renewals, calls, locks, *)
(* failures.  A debit selects only what is alive.                          *)
LEMMA NothingShown ==
    ASSUME IInv, IInv', UNCHANGED <<lots, txs>>, clock <= clock',
           \A q \in Proc :
             call'[q].op = "debit" /\ call'[q].step = "lock" =>
               \/ call'[q].now = clock
               \/ call[q].op = "debit" /\ call[q].step = "lock" /\ call'[q].now = call[q].now
    PROVE  [Promise!ANext]_(Promise!avars)
<1>1. Charges' = Charges
  BY DEF Charges
<1>2. \A l \in DOMAIN lots : lots[l].remaining \in Nat
  BY RowTypes
<1>3. \A l \in DOMAIN lots, q \in Proc :
        Selected(q, l)' => Selected(q, l) \/ AliveAt(lots[l], clock)
  BY DEF Selected, AliveAt
<1> QED BY <1>1, <1>2, <1>3, LapseShown

(* What a commit gives can be spent, all of it, and nothing becomes late.  *)
LEMMA GivenShown ==
    ASSUME IInv, IInv', UNCHANGED clock, NEW alloc \in [LotId -> Nat], GivenTo(alloc),
           \A l \in DOMAIN lots : alloc[l] > 0 => AliveAt(lots[l], clock),
           \A q \in Proc, l \in DOMAIN lots : lots'[l] = lots[l] => (Selected(q, l)' <=> Selected(q, l))
    PROVE  /\ Total(Spendable)' = Total(Spendable) + Total(alloc)
           /\ Total(Late)' = Total(Late)
           /\ Total(Spendable) \in Nat /\ Total(alloc) \in Nat /\ Total(Late) \in Nat
<1>1. ASSUME NEW l \in LotId
      PROVE  Spendable'[l] = Spendable[l] + alloc[l] /\ Late'[l] = Late[l]
  <2>1. CASE l \notin DOMAIN lots'
    BY <2>1 DEF Spendable, Late, GivenTo
  <2>2. CASE l \in DOMAIN lots' /\ l \notin DOMAIN lots
    <3>1. lots'[l].remaining = alloc[l] /\ AliveAt(lots'[l], clock')
      BY <2>2 DEF GivenTo
    <3> QED BY <2>2, <3>1 DEF Spendable, Late
  <2>3. CASE l \in DOMAIN lots
    <3>0. l \in DOMAIN lots' /\ lots[l].remaining \in Nat /\ alloc[l] \in Nat
      BY <2>3, RowTypes DEF GivenTo
    <3>1. CASE alloc[l] > 0
      <4>1. AliveAt(lots[l], clock) /\ AliveAt(lots'[l], clock')
        BY <2>3, <3>1 DEF GivenTo, AliveAt
      <4>2. lots'[l].remaining = lots[l].remaining + alloc[l]
        BY <2>3 DEF GivenTo
      <4> QED BY <2>3, <3>0, <4>1, <4>2 DEF Spendable, Late
    <3>2. CASE alloc[l] = 0
      <4>1. lots'[l] = lots[l]
        BY <2>3, <3>2 DEF GivenTo
      <4>2. (\E q \in Proc : Selected(q, l)') <=> \E q \in Proc : Selected(q, l)
        BY <2>3, <4>1
      <4>3. Late'[l] = Late[l]
        BY <2>3, <3>0, <4>1, <4>2 DEF Late
      <4>4. Spendable'[l] = Spendable[l]
        BY <2>3, <3>0, <4>1 DEF Spendable
      <4>5. Spendable[l] \in Nat
        BY ShownTypes
      <4> QED BY <3>2, <4>3, <4>4, <4>5
    <3> QED BY <3>0, <3>1, <3>2
  <2> QED BY <2>1, <2>2, <2>3 DEF GivenTo
<1>2. Total(Spendable)' = Total(Spendable') /\ Total(Late)' = Total(Late')
  BY DEF Total, Units
<1>3. Late' = Late
  BY <1>1, ShownTypes
<1>4. Total(Late) \in Nat
  BY ShownTypes, LotIdFinite, TotalType
<1> QED BY <1>1, <1>2, <1>3, <1>4, ShownTypes, LotsAdd

(* A grant shows as a credit.                                              *)
LEMMA GrantShown ==
    ASSUME BInv, Grant
    PROVE  [Promise!ANext]_(Promise!avars)
<1>1. IInv /\ UNCHANGED <<clock, call>>
  BY DEF BInv, Grant, grantLot
<1>2. IInv'
  BY <1>1, GrantStep
<1>3. CASE UNCHANGED <<lots, txs>>
  BY <1>1, <1>2, <1>3, NothingShown DEF IInv, TypeOK
<1>4. CASE ~ UNCHANGED <<lots, txs>>
  <2>1. PICK alloc \in [LotId -> Nat], m \in Movement :
          /\ txs' = Append(txs, m) /\ GivenTo(alloc)
          /\ \A l \in DOMAIN lots : alloc[l] = 0
          /\ m.type = "GRANT" /\ m.reverses = 0 /\ m.amount > 0
          /\ Total(alloc) = m.amount
    BY <1>1, <1>4, GrantWrites
  <2>2. Charges' = Charges
    BY <1>1, <2>1, ChargesStand
  <2>3. /\ Total(Spendable)' = Total(Spendable) + Total(alloc)
        /\ Total(Late)' = Total(Late)
        /\ Total(Spendable) \in Nat /\ Total(alloc) \in Nat
    <3>1. \A q \in Proc, l \in DOMAIN lots :
            lots'[l] = lots[l] => (Selected(q, l)' <=> Selected(q, l))
      BY <1>1 DEF Selected, AliveAt
    <3> QED BY <1>1, <1>2, <2>1, <3>1, GivenShown
  <2>4. Promise!Credit
    BY <2>1, <2>2, <2>3 DEF Promise!Credit
  <2> QED BY <2>4 DEF Promise!ANext
<1> QED BY <1>3, <1>4

(* debit() shows as a whole charge, or not at all: what it takes can be    *)
(* spent, or could be when it looked.                                      *)
LEMMA DebitShown ==
    ASSUME BInv, OpenRoom, NEW p \in Proc, CommitDebit(p)
    PROVE  [Promise!ANext]_(Promise!avars)
<1> DEFINE c == call[p]
<1>1. /\ IInv /\ c \in Call /\ CallBooks(c) /\ HoldsRows(c) /\ HoldsDebit(c) /\ c.op = "debit"
      /\ c.step = "lock" /\ c.amount \in Nat /\ c.available \in Nat
      /\ c.take \in [LotId -> Nat] /\ c.amount > 0 /\ Return(p) /\ UNCHANGED clock
  BY DEF BInv, IInv, TypeOK, CallsBooks, CallsOK, CommitDebit, Call, HoldsDebit
<1>2. IInv'
  BY <1>1, CommitDebitStep
<1>3. /\ call'[p] = Idle
      /\ \A q \in Proc \ {p} : call'[q] = call[q]
  BY <1>1 DEF Return, IInv, TypeOK
<1>4. CASE c.available < c.amount
  <2>1. UNCHANGED <<lots, txs>>
    BY <1>4 DEF CommitDebit
  <2> QED BY <1>1, <1>2, <1>3, <2>1, NothingShown DEF IInv, TypeOK, Idle
<1>5. CASE ~ (c.available < c.amount)
  <2> DEFINE m == [type |-> "DEBIT", amount |-> c.amount, reverses |-> 0,
                   event |-> NoEvent, alloc |-> c.take]
  <2>1. /\ m \in Movement /\ txs' = Append(txs, m) /\ TakenFrom(c.take)
        /\ m.type = "DEBIT" /\ m.reverses = 0 /\ m.amount = c.amount
        /\ \A l \in DOMAIN lots : lots'[l].expiresAt = lots[l].expiresAt
    BY <1>1, <1>5, DebitWrites
  <2> HIDE DEF m
  <2>2. Total(c.take) = c.amount
    BY <1>1, <1>5 DEF CallBooks, Counts, Min2
  <2>3. \A l \in LotId : c.take[l] > 0 => l \in DOMAIN lots /\ Selected(p, l)
    BY <1>1 DEF CallBooks, Counts, HoldsRows, Selected
  <2>4. \A l \in DOMAIN lots, q \in Proc : Selected(q, l)' => Selected(q, l)
    BY <1>3, <2>1 DEF Selected, AliveAt, Idle
  <2> DEFINE a == [l \in LotId |-> IF l \in DOMAIN lots /\ AliveAt(lots[l], clock)
                                   THEN c.take[l] ELSE 0]
             b == [l \in LotId |-> IF l \in DOMAIN lots /\ AliveAt(lots[l], clock)
                                   THEN 0 ELSE c.take[l]]
  <2>5. /\ a \in [LotId -> Nat] /\ b \in [LotId -> Nat]
        /\ \A l \in LotId : c.take[l] = a[l] + b[l]
    BY <1>1
  <2>6. ASSUME NEW l \in LotId
        PROVE  Spendable[l] = Spendable'[l] + a[l] /\ Late'[l] + b[l] <= Late[l]
    <3>0. /\ c.take[l] \in Nat
          /\ l \in DOMAIN lots => /\ lots[l].remaining \in Nat /\ lots'[l].remaining \in Nat
                                  /\ lots[l].remaining = lots'[l].remaining + c.take[l]
                                  /\ AliveAt(lots'[l], clock') <=> AliveAt(lots[l], clock)
      BY <1>1, <1>2, <2>1, RowTypes, RowTypesAfter DEF TakenFrom, AliveAt
    <3>1. CASE l \notin DOMAIN lots
      <4>1. Spendable[l] = 0 /\ Spendable'[l] = 0 /\ Late[l] = 0 /\ Late'[l] = 0
        BY <2>1, <3>1 DEF Spendable, Late, TakenFrom
      <4>2. a[l] = 0 /\ b[l] = 0
        BY <2>1, <3>1 DEF TakenFrom
      <4> QED BY <4>1, <4>2
    <3>2. CASE l \in DOMAIN lots /\ AliveAt(lots[l], clock)
      <4>1. /\ Spendable[l] = lots[l].remaining /\ Spendable'[l] = lots'[l].remaining
            /\ Late[l] = 0 /\ Late'[l] = 0
        BY <2>1, <3>0, <3>2 DEF Spendable, Late, TakenFrom
      <4>2. a[l] = c.take[l] /\ b[l] = 0
        BY <3>2
      <4> HIDE DEF a, b
      <4> QED BY <3>0, <3>2, <4>1, <4>2
    <3>3. CASE l \in DOMAIN lots /\ ~ AliveAt(lots[l], clock)
      <4>1. Spendable[l] = 0 /\ Spendable'[l] = 0
        BY <2>1, <3>0, <3>3 DEF Spendable, TakenFrom
      <4>2. /\ Late[l] = IF \E q \in Proc : Selected(q, l) THEN lots[l].remaining ELSE 0
            /\ Late'[l] = IF \E q \in Proc : Selected(q, l)' THEN lots'[l].remaining ELSE 0
        BY <2>1, <3>0, <3>3 DEF Late, TakenFrom
      <4>3. a[l] = 0 /\ b[l] = c.take[l]
        BY <3>3
      <4>4. (\E q \in Proc : Selected(q, l)') => \E q \in Proc : Selected(q, l)
        BY <2>4, <3>3
      <4>5. c.take[l] > 0 => \E q \in Proc : Selected(q, l)
        BY <2>3
      <4> HIDE DEF a, b, c, Selected
      <4> QED BY <3>0, <3>3, <4>1, <4>2, <4>3, <4>4, <4>5
    <3> QED BY <3>1, <3>2, <3>3
  <2> HIDE DEF a, b, c
  <2>7. Total(Spendable)' = Total(Spendable') /\ Total(Late)' = Total(Late')
    BY DEF Total, Units
  <2>8. PICK x \in 0..Total(Late) :
          /\ x <= c.amount /\ c.amount - x <= Total(Spendable)
          /\ c.amount <= Total(Spendable) + Total(Late)
          /\ Total(Spendable') = Total(Spendable) - (c.amount - x)
          /\ Total(Late') \in 0..(Total(Late) - x)
    <3> DEFINE take == c.take
               s1 == Spendable
               t1 == Late
               s2 == Spendable'
               t2 == Late'
               u  == [l \in LotId |-> t2[l] + b[l]]
    <3>1. /\ s1 \in [LotId -> Nat] /\ t1 \in [LotId -> Nat]
          /\ s2 \in [LotId -> Nat] /\ t2 \in [LotId -> Nat]
          /\ take \in [LotId -> Nat] /\ a \in [LotId -> Nat] /\ b \in [LotId -> Nat]
      BY <1>1, <1>2, <2>5, ShownTypes
    <3>2. /\ \A l \in LotId : s1[l] = s2[l] + a[l]
          /\ \A l \in LotId : t2[l] + b[l] <= t1[l]
          /\ \A l \in LotId : take[l] = a[l] + b[l]
      BY <2>5, <2>6
    <3> HIDE DEF take, s1, t1, s2, t2
    <3>3. /\ u \in [LotId -> Nat] /\ \A l \in LotId : u[l] = t2[l] + b[l]
          /\ \A l \in LotId : u[l] <= t1[l]
      BY <3>1, <3>2
    <3> HIDE DEF u
    <3>4. Total(s1) = Total(s2) + Total(a) /\ Total(s2) \in Nat /\ Total(a) \in Nat
      <4>1. /\ s1 \in [LotId -> Nat] /\ s2 \in [LotId -> Nat] /\ a \in [LotId -> Nat]
            /\ \A l \in LotId : s1[l] = s2[l] + a[l]
        BY <3>1, <3>2
      <4> QED BY <4>1, LotsAdd
    <3>5. Total(take) = Total(a) + Total(b) /\ Total(b) \in Nat
      <4>1. /\ take \in [LotId -> Nat] /\ a \in [LotId -> Nat] /\ b \in [LotId -> Nat]
            /\ \A l \in LotId : take[l] = a[l] + b[l]
        BY <3>1, <3>2
      <4> QED BY <4>1, LotsAdd
    <3>6. Total(u) = Total(t2) + Total(b) /\ Total(t2) \in Nat
      BY <3>1, <3>3, LotsAdd
    <3>7. Total(u) <= Total(t1) /\ Total(t1) \in Nat
      BY <3>1, <3>3, LotsLess
    <3>8. PICK x : x = Total(b)
      OBVIOUS
    <3>9. /\ x \in 0..Total(t1) /\ x <= Total(take) /\ Total(take) - x <= Total(s1)
          /\ Total(take) <= Total(s1) + Total(t1)
          /\ Total(s2) = Total(s1) - (Total(take) - x)
          /\ Total(t2) \in 0..(Total(t1) - x)
      BY <3>4, <3>5, <3>6, <3>7, <3>8
    <3> QED BY <2>2, <3>9 DEF take, s1, t1, s2, t2
  <2>9. PICK d : d = Len(txs) + 1
    OBVIOUS
  <2>10. /\ d \notin DOMAIN Charges
         /\ Charges' = [e \in DOMAIN Charges \cup {d} |->
                          IF e = d THEN [amount |-> c.amount, refunded |-> 0]
                                   ELSE Charges[e]]
    BY <1>1, <2>1, <2>9, ChargeAdded
  <2>11. d \in TxId
    <3>1. p \in OpenCalls
      BY <1>1 DEF OpenCalls, c
    <3>2. Cardinality(OpenCalls) # 0
      BY <3>1, OpenFinite, FS_EmptySet
    <3>3. Len(txs) \in Nat /\ MaxTxs \in Nat
      BY <1>1, LedgerAssumption DEF IInv, TypeOK
    <3> QED BY <2>9, <3>2, <3>3, OpenFinite DEF OpenRoom, TxId
  <2>12. PICK n : n = c.amount
    OBVIOUS
  <2>13. /\ n \in 1..(Total(Spendable) + Total(Late)) /\ x <= n /\ n - x <= Total(Spendable)
         /\ Total(Spendable)' = Total(Spendable) - (n - x)
         /\ Total(Late)' \in 0..(Total(Late) - x)
    <3>1. Total(Spendable) \in Nat /\ Total(Late) \in Nat
      BY <1>1, <1>2, ShownTypes, LotIdFinite, TotalType
    <3> QED BY <1>1, <2>7, <2>8, <2>12, <3>1
  <2>14. Promise!Charge(d)
    BY <2>8, <2>10, <2>12, <2>13 DEF Promise!Charge
  <2> QED BY <2>11, <2>14 DEF Promise!ANext
<1> QED BY <1>4, <1>5

(* refundPartial() shows as one whole reversal of one charge: each credit  *)
(* of it can be spent, whatever has expired since the debit.               *)
LEMMA RefundShown ==
    ASSUME BInv, OpenRoom, NEW p \in Proc, CommitRefund(p)
    PROVE  [Promise!ANext]_(Promise!avars)
<1> DEFINE c == call[p]
<1>1. /\ IInv /\ CallsBooks /\ c \in Call /\ HoldsDebit(c) /\ c.op = "refund" /\ c.step = "lock"
      /\ c.amount \in Nat /\ Return(p) /\ UNCHANGED clock
  BY DEF BInv, IInv, TypeOK, CallsBooks, CallsOK, CommitRefund, Call
<1>2. /\ c.amount > 0 /\ c.target \in DOMAIN txs /\ txs[c.target].type = "DEBIT"
      /\ c.amount <= txs[c.target].amount /\ ~ Refunded(c.target)
  BY <1>1 DEF HoldsDebit
<1>3. PICK alloc \in [LotId -> Nat] :
        LET m == [type |-> "REFUND", amount |-> c.amount, reverses |-> c.target,
                  event |-> NoEvent, alloc |-> alloc]
        IN  /\ m \in Movement /\ txs' = Append(txs, m)
            /\ Total(alloc) = c.amount /\ GivenTo(alloc)
            /\ \A l \in DOMAIN lots : alloc[l] > 0 => AliveAt(lots[l], clock)
  BY <1>1, RefundWrites
<1> DEFINE m == [type |-> "REFUND", amount |-> c.amount, reverses |-> c.target,
                 event |-> NoEvent, alloc |-> alloc]
<1>4. /\ m \in Movement /\ txs' = Append(txs, m) /\ Total(alloc) = c.amount /\ GivenTo(alloc)
      /\ \A l \in DOMAIN lots : alloc[l] > 0 => AliveAt(lots[l], clock)
      /\ m.type = "REFUND" /\ m.reverses = c.target /\ m.amount = c.amount
  BY <1>3
<1> HIDE DEF m
<1>5. IInv'
  BY <1>1, CommitRefundStep
<1>6. /\ Total(Spendable)' = Total(Spendable) + c.amount /\ Total(Late)' = Total(Late)
      /\ Total(Spendable) \in Nat
  <2>1. call'[p] = Idle /\ \A q \in Proc \ {p} : call'[q] = call[q]
    BY <1>1 DEF Return, IInv, TypeOK
  <2>2. \A q \in Proc, l \in DOMAIN lots :
          lots'[l] = lots[l] => (Selected(q, l)' <=> Selected(q, l))
    BY <1>1, <2>1 DEF Selected, AliveAt, Idle
  <2> QED BY <1>1, <1>4, <1>5, <2>2, GivenShown
<1> HIDE DEF c
<1>7. PICK d, n : d = c.target /\ n = c.amount
  OBVIOUS
<1>8. /\ d \in DOMAIN Charges /\ Charges[d].refunded = 0 /\ Charges[d].amount = txs[d].amount
      /\ Charges' = [Charges EXCEPT ![d].refunded = n]
  BY <1>1, <1>2, <1>4, <1>7, ChargeReversed
<1>9. d \in TxId
  <2>1. txs \in Seq(Movement) /\ Len(txs) \in Nat /\ MaxTxs \in Nat /\ d \in 1..Len(txs)
    BY <1>1, <1>2, <1>7, LedgerAssumption DEF IInv, TypeOK
  <2> QED BY <2>1, OpenFinite DEF OpenRoom, TxId
<1>10. n \in 1..Charges[d].amount /\ Total(Spendable)' = Total(Spendable) + n
  <2>1. txs[d].amount \in Nat
    BY <1>1, <1>2, <1>7, Recorded, <1>4 DEF Movement
  <2> QED BY <1>1, <1>2, <1>6, <1>7, <1>8, <2>1
<1>11. Promise!Reverse(d)
  BY <1>6, <1>8, <1>10 DEF Promise!Reverse
<1> QED BY <1>9, <1>11 DEF Promise!ANext

(* expireRenewedLots() shows as a lapse.                                   *)
LEMMA ExpireShown ==
    ASSUME BInv, NEW p \in Proc, CommitExpire(p)
    PROVE  [Promise!ANext]_(Promise!avars)
<1> DEFINE c == call[p]
<1>1. /\ IInv /\ CallsBooks /\ c \in Call /\ c.take \in [LotId -> Nat] /\ c.available \in Nat
      /\ Return(p) /\ UNCHANGED clock /\ clock \in Nat
  BY DEF BInv, IInv, TypeOK, Call, CommitExpire
<1>2. IInv'
  BY <1>1, CommitExpireStep
<1>3. call'[p] = Idle /\ \A q \in Proc \ {p} : call'[q] = call[q]
  BY <1>1 DEF Return, IInv, TypeOK
<1>4. CASE {l \in DOMAIN lots : c.take[l] > 0} = {}
  <2>1. UNCHANGED <<lots, txs>>
    BY <1>4 DEF CommitExpire
  <2> QED BY <1>1, <1>2, <1>3, <2>1, NothingShown DEF Idle
<1>5. CASE {l \in DOMAIN lots : c.take[l] > 0} # {}
  <2> DEFINE m == [type |-> "EXPIRE", amount |-> c.available, reverses |-> 0,
                   event |-> NoEvent, alloc |-> NoLots]
  <2>1. /\ m \in Movement /\ txs' = Append(txs, m) /\ TakenFrom(c.take)
        /\ m.type = "EXPIRE" /\ m.reverses = 0
        /\ \A l \in DOMAIN lots : c.take[l] > 0 => lots'[l].remaining = 0
    BY <1>1, <1>5, ExpireWrites
  <2> HIDE DEF m
  <2>2. Charges' = Charges
    BY <1>1, <2>1, ChargesStand
  <2>3. ASSUME NEW l \in DOMAIN lots
        PROVE  /\ lots'[l].remaining <= lots[l].remaining
               /\ lots'[l].remaining = 0 \/ lots'[l] = lots[l]
    <3>1. /\ lots[l].remaining \in Nat /\ lots'[l].remaining \in Nat /\ c.take[l] \in Nat
          /\ l \in DOMAIN lots'
      BY <1>1, <1>2, <2>1, RowTypes, RowTypesAfter DEF TakenFrom
    <3>2. lots[l].remaining = lots'[l].remaining + c.take[l]
      BY <2>1 DEF TakenFrom
    <3>3. c.take[l] = 0 => lots'[l] = lots[l]
      BY <2>1 DEF TakenFrom
    <3> HIDE DEF c
    <3> QED BY <2>1, <3>1, <3>2, <3>3
  <2>4. \A l \in DOMAIN lots, q \in Proc :
          lots'[l] = lots[l] => (Selected(q, l)' => Selected(q, l))
    BY <1>3 DEF Selected, AliveAt, Idle
  <2> HIDE DEF c
  <2>5. DOMAIN lots' = DOMAIN lots
    BY <2>1 DEF TakenFrom
  <2>6. clock <= clock'
    BY <1>1
  <2> QED BY <1>1, <1>2, <2>2, <2>3, <2>4, <2>5, <2>6, LapseShown
<1> QED BY <1>4, <1>5

(* The ledger implements Account, whatever interleaves: every step shows   *)
(* as a grant, one whole charge, one whole reversal, a lapse, or nothing.  *)
(* The balance is what balanceOf counts, so each credit a refund gives     *)
(* back can be spent, into whatever lots it went, and a debit takes an     *)
(* expired credit only if it expired after the debit had looked.           *)
THEOREM PromiseKept == Spec => KeepsPromise
<1>1. Init => BInv /\ OpenRoom
  <2> SUFFICES ASSUME Init PROVE BInv /\ OpenRoom
    OBVIOUS
  <2>1. OpenCalls = {} /\ Len(txs) = 0
    BY DEF Init, OpenCalls, Idle
  <2>2. OpenRoom
    BY <2>1, FS_EmptySet, LedgerAssumption DEF OpenRoom
  <2> QED BY <2>2, InitStep, InitBooks DEF BInv
<1>2. Spec => [](BInv /\ OpenRoom)
  BY <1>1, NextBooks, NextRoom, PTL DEF Spec
<1>3. Init => Promise!AInit
  <2> SUFFICES ASSUME Init PROVE Promise!AInit
    OBVIOUS
  <2>1. DOMAIN lots = {} /\ DOMAIN txs = {}
    BY DEF Init
  <2>2. Total(Spendable) = 0 /\ Total(Late) = 0
    <3>1. /\ Spendable \in [LotId -> Nat] /\ Late \in [LotId -> Nat]
          /\ \A l \in LotId : Spendable[l] = 0 /\ Late[l] = 0
      BY <2>1 DEF Spendable, Late
    <3> QED BY <3>1, TotalZero
  <2>3. Charges = [d \in {} |-> 0]
    BY <2>1 DEF Charges
  <2> QED BY <2>2, <2>3 DEF Promise!AInit
<1>4. BInv /\ OpenRoom /\ [Next]_vars => [Promise!ANext]_(Promise!avars)
  <2> SUFFICES ASSUME BInv, OpenRoom, [Next]_vars
               PROVE  [Promise!ANext]_(Promise!avars)
    OBVIOUS
  <2>0. IInv /\ IInv' /\ clock \in Nat
    BY NextStep DEF BInv, IInv, TypeOK
  <2>1. CASE Grant
    BY <2>1, GrantShown
  <2>2. ASSUME NEW p \in Proc, NEW c, call' = [call EXCEPT ![p] = c],
               UNCHANGED <<clock, lots, txs>>,
               c.op = "debit" /\ c.step = "lock" =>
                 \/ c.now = clock
                 \/ call[p].op = "debit" /\ call[p].step = "lock" /\ c.now = call[p].now
        PROVE  [Promise!ANext]_(Promise!avars)
    <3>1. \A q \in Proc : call'[q] = IF q = p THEN c ELSE call[q]
      BY <2>0, <2>2 DEF IInv, TypeOK
    <3>2. \A q \in Proc :
            call'[q].op = "debit" /\ call'[q].step = "lock" =>
              \/ call'[q].now = clock
              \/ call[q].op = "debit" /\ call[q].step = "lock" /\ call'[q].now = call[q].now
      BY <2>2, <3>1
    <3>3. clock <= clock'
      BY <2>0, <2>2
    <3> QED BY <2>0, <2>2, <3>2, <3>3, NothingShown
  <2>3. ASSUME NEW p \in Proc, Step(p) PROVE [Promise!ANext]_(Promise!avars)
    <3> USE <2>0 DEF IInv, TypeOK, Call
    <3>1. CASE CommitDebit(p)
      BY <3>1, DebitShown
    <3>2. CASE CommitRefund(p)
      BY <3>2, RefundShown
    <3>3. CASE CommitExpire(p)
      BY <3>3, ExpireShown
    <3>4. CASE SelectDebit(p)
      <4>1. PICK q : call' = [call EXCEPT ![p] =
                        [[call[p] EXCEPT !.step = "lock", !.now = clock] EXCEPT !.todo = q]]
        BY <3>4 DEF SelectDebit
      <4>2. call[p] \in Call /\ UNCHANGED <<clock, lots, txs>>
        BY <3>4 DEF SelectDebit
      <4> DEFINE c == [[call[p] EXCEPT !.step = "lock", !.now = clock] EXCEPT !.todo = q]
      <4>3. c.now = clock /\ call' = [call EXCEPT ![p] = c]
        BY <4>1, <4>2
      <4> HIDE DEF c
      <4> QED BY <2>2, <4>2, <4>3
    <3>5. CASE ReadOriginal(p) \/ InsertReversal(p) \/ SelectExpire(p)
      <4>1. /\ call[p].op # "debit" /\ call[p] \in Call /\ Idle.op # "debit"
            /\ UNCHANGED <<clock, lots, txs>>
        BY <3>5 DEF ReadOriginal, InsertReversal, SelectExpire, Idle
      <4>2. \E c : call' = [call EXCEPT ![p] = c] /\ c.op # "debit"
        <5>1. CASE Return(p)
          BY <4>1, <5>1 DEF Return
        <5>2. CASE call' = [call EXCEPT ![p].step = "insert"]
          <6>1. [call[p] EXCEPT !.step = "insert"].op # "debit"
            BY <4>1
          <6> QED BY <5>2, <6>1
        <5>3. CASE \E q : call' = [call EXCEPT ![p].step = "lock", ![p].todo = q]
          <6>1. PICK q : call' = [call EXCEPT ![p].step = "lock", ![p].todo = q]
            BY <5>3
          <6>2. [call[p] EXCEPT !.step = "lock", !.todo = q].op # "debit"
            BY <4>1
          <6>3. call' = [call EXCEPT ![p] = [call[p] EXCEPT !.step = "lock", !.todo = q]]
            BY <6>1
          <6> QED BY <6>2, <6>3
        <5> QED BY <3>5, <5>1, <5>2, <5>3 DEF ReadOriginal, InsertReversal, SelectExpire
      <4> QED BY <2>2, <4>1, <4>2
    <3>6. CASE LockNext(p)
      <4> DEFINE c == call'[p]
      <4>1. /\ call' = [call EXCEPT ![p] = c] /\ UNCHANGED <<clock, lots, txs>>
            /\ c.op = call[p].op /\ c.step = call[p].step /\ c.now = call[p].now
        BY <3>6 DEF LockNext
      <4> HIDE DEF c
      <4> QED BY <2>2, <4>1
    <3>7. CASE DeadlockVictim(p)
      BY <2>2, <3>7 DEF DeadlockVictim, Return, Idle, Begin
    <3> QED BY <2>3, <3>1, <3>2, <3>3, <3>4, <3>5, <3>6, <3>7 DEF Step
  <2>4. CASE Tick \/ (\E end \in Boundary : Renew(end)) \/ UNCHANGED vars
    <3>1. UNCHANGED <<lots, txs, call>> /\ clock <= clock'
      BY <2>0, <2>4 DEF Tick, Renew, vars
    <3> QED BY <2>0, <3>1, NothingShown
  <2>5. ASSUME NEW p \in Proc,
               CallDebit(p) \/ CallRefund(p) \/ CallExpire(p) \/ Crash(p)
        PROVE  [Promise!ANext]_(Promise!avars)
    BY <2>2, <2>5 DEF CallDebit, CallRefund, CallExpire, Crash, Begin, Return, Idle
  <2> QED BY <2>1, <2>3, <2>4, <2>5 DEF Next
<1> QED BY <1>2, <1>3, <1>4, PTL DEF Spec, KeepsPromise, Promise!ASpec


=============================================================================
