---------------------------- MODULE CreditLedger ----------------------------
(***************************************************************************)
(* One user's credit ledger: the rows of CreditLot, CreditTransaction and  *)
(* CreditAllocation, and the PostgreSQL transactions that debit, refund    *)
(* and expire them (apps/api/src/services/credits).  No query of that      *)
(* directory touches the rows of two users, so one user's rows are the     *)
(* whole of what can interfere.                                            *)
(*                                                                         *)
(* A transaction runs at READ COMMITTED.  Its statements are separate      *)
(* steps: the snapshot that selects the rows, the row locks, taken one at  *)
(* a time in the order of the ORDER BY (a row that changed while the       *)
(* statement waited is evaluated against the WHERE clause again), and the  *)
(* writes with the COMMIT.  The writes are one step because every row they *)
(* change is locked and every row they insert is invisible until COMMIT.   *)
(***************************************************************************)
EXTENDS Integers, Sequences, FiniteSets, Totals

CONSTANTS
    Proc,         \* callers that may be inside a ledger transaction
    Event,        \* billing events a grant may carry
    NoEvent,      \* the null billingEventId
    GrantAmount,  \* amounts a grant may have
    CallAmount,   \* amounts a caller may debit or ask back
    Boundary,     \* instants at which billing periods end
    MaxGrants,    \* bound: grants ever made
    MaxLots,      \* bound: lots ever created
    MaxTxs,       \* bound: movements ever recorded
    MaxClock,     \* bound: the last instant of the clock
    MaxAttempts,  \* MAX_ATTEMPTS of withRetry
    Horizon       \* REFUND_HORIZON_DAYS, in clock units

ASSUME LedgerAssumption ==
    /\ IsFiniteSet(Proc)
    /\ NoEvent \notin Event
    /\ GrantAmount \subseteq Nat \ {0}
    /\ CallAmount \subseteq Nat \ {0}
    /\ Boundary \subseteq Nat \ {0}
    /\ MaxGrants \in Nat
    /\ MaxLots \in Nat
    /\ MaxTxs \in Nat
    /\ MaxClock \in Nat \ {0}
    /\ MaxAttempts \in Nat \ {0}
    /\ Horizon \in Nat \ {0}

VARIABLES
    clock,      \* new Date(), the same for every caller
    periodEnd,  \* Subscription.periodEnd, 0 when there is no subscription
    lots,       \* CreditLot rows, in the order of id (and of createdAt)
    txs,        \* CreditTransaction rows with their CreditAllocation rows
    call        \* per caller, the transaction it is inside

vars == <<clock, periodEnd, lots, txs, call>>

-----------------------------------------------------------------------------
(* Rows.                                                                   *)

LotId == 1..MaxLots

TxId == 1..MaxTxs

(* A null expiresAt.  The clock starts at 1, so 0 is no instant.           *)
Never == 0

CreditKind == {"PLAN", "PURCHASED"}

Lot == [kind : CreditKind, granted : Nat, remaining : Nat, expiresAt : Nat]

(* alloc[l] = 0 where the transaction has no allocation row for lot l.     *)
Movement == [type : {"GRANT", "DEBIT", "REFUND", "EXPIRE"}, amount : Nat,
             reverses : Nat, event : Event \cup {NoEvent},
             alloc : [LotId -> Nat]]

NoLots == [l \in LotId |-> 0]

(* The clause "expiresAt" IS NULL OR "expiresAt" > now.                    *)
AliveAt(lot, now) == lot.expiresAt = Never \/ lot.expiresAt > now

(* A debit that has been reversed: reversesId is unique.                   *)
Refunded(d) == \E t \in DOMAIN txs : txs[t].reverses = d

(* The rows of CreditLot, each one's remaining credits, spendable or not.  *)
Remaining == [l \in DOMAIN lots |-> lots[l].remaining]

(* What balanceOf counts: an expired lot still exists as a row, but its    *)
(* credits can be neither counted nor spent.                               *)
Spendable ==
    [l \in LotId |-> IF l \in DOMAIN lots /\ AliveAt(lots[l], clock)
                     THEN lots[l].remaining ELSE 0]

-----------------------------------------------------------------------------
(* The transaction a caller is inside.                                     *)

Idle == [op |-> "none", step |-> "idle", amount |-> 0, target |-> 0,
         now |-> 0, todo |-> <<>>, held |-> {}, available |-> 0,
         take |-> NoLots, attempt |-> 0]

Call == [op : {"none", "debit", "refund", "expire"},
         step : {"idle", "begin", "insert", "lock"},
         amount : Nat,             \* credits asked for
         target : Nat,             \* refund: the debit to reverse
         now : Nat,                \* debit: now; expire: asOf
         todo : Seq(LotId),        \* rows the statement has yet to lock
         held : SUBSET LotId,      \* rows locked by this transaction
         available : Nat,          \* total of the rows returned so far
         take : [LotId -> Nat],    \* what this transaction takes from each lot
         attempt : 0..MaxAttempts]

Begin(op, amount, target, now, attempt) ==
    [op |-> op, step |-> "begin", amount |-> amount, target |-> target,
     now |-> now, todo |-> <<>>, held |-> {}, available |-> 0,
     take |-> NoLots, attempt |-> attempt]

(* The unique index on reversesId holds back a second insert until the     *)
(* first one's transaction ends.                                           *)
ReversalInserted(q, d) ==
    call[q].op = "refund" /\ call[q].step = "lock" /\ call[q].target = d

(* p cannot go on until q commits or rolls back.                           *)
WaitsFor(p, q) ==
    /\ p # q
    /\ \/ /\ call[p].step = "lock"
          /\ call[p].todo # <<>>
          /\ Head(call[p].todo) \in call[q].held
       \/ /\ call[p].step = "insert"
          /\ ReversalInserted(q, call[p].target)

Blocked(p) == \E q \in Proc : WaitsFor(p, q)

(* A set of callers that all wait for one another.                         *)
WaitCycle(S) ==
    /\ S # {}
    /\ \A p \in S : /\ \E q \in S : WaitsFor(p, q)
                    /\ \E q \in S : WaitsFor(q, p)

(* Bound on movements: every open transaction may still record one.        *)
Room == Len(txs) + Cardinality({q \in Proc : call[q].step # "idle"}) < MaxTxs

-----------------------------------------------------------------------------
Init ==
    /\ clock = 1
    /\ periodEnd = 0
    /\ lots = <<>>
    /\ txs = <<>>
    /\ call = [p \in Proc |-> Idle]

Tick ==
    /\ clock < MaxClock
    /\ clock' = clock + 1
    /\ UNCHANGED <<periodEnd, lots, txs, call>>

(* Billing moves the subscription to its next period.                      *)
Renew(end) ==
    /\ end > periodEnd
    /\ periodEnd' = end
    /\ UNCHANGED <<clock, lots, txs, call>>

-----------------------------------------------------------------------------
(* grant.ts and adjust.ts.  The movement is inserted before the lot, so a  *)
(* billing event that was granted already leaves nothing behind.           *)

EventGranted(e) == e # NoEvent /\ \E t \in DOMAIN txs : txs[t].event = e

grantLot(amount, kind, expiresAt, e) ==
    /\ IF EventGranted(e)
       THEN UNCHANGED <<txs, lots>>
       ELSE /\ txs' = Append(txs, [type |-> "GRANT", amount |-> amount,
                                   reverses |-> 0, event |-> e,
                                   alloc |-> NoLots])
            /\ lots' = Append(lots, [kind |-> kind, granted |-> amount,
                                     remaining |-> amount,
                                     expiresAt |-> expiresAt])
    /\ UNCHANGED <<clock, periodEnd, call>>

(* Plan credits carry a period's end, or none (the free allocation, an     *)
(* operator's grant); purchased credits never carry one.                   *)
Grant ==
  /\ Room /\ Len(lots) < MaxLots
  /\ Cardinality({t \in DOMAIN txs : txs[t].type = "GRANT"}) < MaxGrants
  /\ \E amount \in GrantAmount, kind \in CreditKind, e \in Event \cup {NoEvent},
       expiresAt \in {Never} \cup {b \in Boundary : b > clock} :
        /\ kind = "PURCHASED" => expiresAt = Never
        /\ grantLot(amount, kind, expiresAt, e)

-----------------------------------------------------------------------------
(* Steps every ledger transaction shares.                                  *)

(* Mutant: COALESCE'd null boundaries make the sweep select every lot.      *)
QualifiesNullAsPast(c, l) ==
    CASE c.op = "debit"  -> lots[l].remaining > 0 /\ AliveAt(lots[l], c.now)
      [] c.op = "expire" -> lots[l].remaining > 0 /\ lots[l].expiresAt <= c.now
      [] OTHER           -> TRUE

(* The WHERE clause of each operation's SELECT ... FOR UPDATE.             *)
Qualifies(c, l) ==
    CASE c.op = "debit"  -> lots[l].remaining > 0 /\ AliveAt(lots[l], c.now)
      [] c.op = "expire" -> /\ lots[l].remaining > 0
                            /\ lots[l].expiresAt # Never
                            /\ lots[l].expiresAt <= c.now
      [] OTHER           -> TRUE

Min2(a, b) == IF a <= b THEN a ELSE b

Max2(a, b) == IF a <= b THEN b ELSE a

(* Mutant: the debit takes all it still needs from the row.                *)
ShareUncapped(c, l) ==
    CASE c.op = "debit"  -> Max2(0, c.amount - c.available)
      [] c.op = "expire" -> lots[l].remaining
      [] OTHER           -> 0

(* What the transaction will take from a row it has just locked.  A debit  *)
(* walks its rows in lock order, so its share of this row depends only on  *)
(* the rows it locked before; a sweep takes all of it.                     *)
Share(c, l) ==
    CASE c.op = "debit"  -> Min2(lots[l].remaining,
                                 Max2(0, c.amount - c.available))
      [] c.op = "expire" -> lots[l].remaining
      [] OTHER           -> 0

(* Mutant: SELECT without FOR UPDATE.                                      *)
LockNextUnlocked(p) ==
    LET c == call[p]
        l == Head(c.todo)
    IN  /\ c.step = "lock" /\ c.todo # <<>>
        /\ call' = [call EXCEPT ![p] =
              [c EXCEPT !.todo = Tail(@), !.available = @ + lots[l].remaining,
                        !.take[l] = IF Qualifies(c, l) THEN Share(c, l) ELSE 0]]
        /\ UNCHANGED <<clock, periodEnd, lots, txs>>

LockNext(p) ==
    LET c == call[p]
        l == Head(c.todo)
    IN  /\ c.step = "lock" /\ c.todo # <<>>
        /\ ~ Blocked(p)
        /\ call' = [call EXCEPT ![p] =
              IF Qualifies(c, l)
              THEN [c EXCEPT !.todo = Tail(@), !.held = @ \cup {l},
                             !.available = @ + lots[l].remaining,
                             !.take[l] = Share(c, l)]
              ELSE [c EXCEPT !.todo = Tail(@), !.held = @ \cup {l}]]
        /\ UNCHANGED <<clock, periodEnd, lots, txs>>

Return(p) == call' = [call EXCEPT ![p] = Idle]

(* Mutant: withRetry never counts its attempts.                            *)
DeadlockVictimForever(p) ==
    /\ \E S \in SUBSET Proc : p \in S /\ WaitCycle(S)
    /\ call' = [call EXCEPT ![p] = Begin(@.op, @.amount, @.target, @.now, 1)]
    /\ UNCHANGED <<clock, periodEnd, lots, txs>>

(* PostgreSQL picks a victim of a deadlock and rolls it back (40P01);      *)
(* withRetry runs its transaction again from the start, at most            *)
(* MAX_ATTEMPTS times.                                                     *)
DeadlockVictim(p) ==
    /\ \E S \in SUBSET Proc : p \in S /\ WaitCycle(S)
    /\ IF call[p].attempt < MaxAttempts
       THEN call' = [call EXCEPT ![p] =
                Begin(@.op, @.amount, @.target, @.now, @.attempt + 1)]
       ELSE Return(p)
    /\ UNCHANGED <<clock, periodEnd, lots, txs>>

(* The caller or its connection dies: the transaction rolls back.          *)
Crash(p) ==
    /\ call[p].step # "idle"
    /\ Return(p)
    /\ UNCHANGED <<clock, periodEnd, lots, txs>>

(* The sequences that list S in the order Before.                          *)
InOrder(S, Before(_, _)) ==
    {q \in [1..Cardinality(S) -> S] :
        \A i, j \in 1..Cardinality(S) : i < j => Before(q[i], q[j])}

ById(l, m) == l < m

-----------------------------------------------------------------------------
(* debit.ts                                                                *)

CallDebit(p) ==
    /\ call[p].step = "idle" /\ Room
    /\ \E amount \in CallAmount :
         call' = [call EXCEPT ![p] = Begin("debit", amount, 0, 0, 1)]
    /\ UNCHANGED <<clock, periodEnd, lots, txs>>

(* Mutant: no kind key, so undated lots are spent oldest first.            *)
ConsumedByAge(l, m) ==
    LET sooner(a, b) == a # Never /\ (b = Never \/ a < b)
    IN  \/ sooner(lots[l].expiresAt, lots[m].expiresAt)
        \/ lots[l].expiresAt = lots[m].expiresAt /\ l < m

(* ORDER BY "expiresAt" ASC NULLS LAST, PLAN before PURCHASED, "createdAt" *)
ConsumedBefore(l, m) ==
    LET sooner(a, b) == a # Never /\ (b = Never \/ a < b)
    IN  \/ sooner(lots[l].expiresAt, lots[m].expiresAt)
        \/ /\ lots[l].expiresAt = lots[m].expiresAt
           /\ \/ lots[l].kind = "PLAN" /\ lots[m].kind = "PURCHASED"
              \/ lots[l].kind = lots[m].kind /\ l < m

(* The clock is read first, then the statement takes its snapshot.         *)
SelectDebit(p) ==
    LET c == [call[p] EXCEPT !.step = "lock", !.now = clock]
    IN  /\ call[p].op = "debit" /\ call[p].step = "begin"
        /\ \E q \in InOrder({l \in DOMAIN lots : Qualifies(c, l)},
                            ConsumedBefore) :
             call' = [call EXCEPT ![p] = [c EXCEPT !.todo = q]]
        /\ UNCHANGED <<clock, periodEnd, lots, txs>>

CommitDebit(p) ==
    LET c == call[p]
    IN  /\ c.op = "debit" /\ c.step = "lock" /\ c.todo = <<>>
        /\ IF c.available < c.amount
           THEN UNCHANGED <<lots, txs>>        \* InsufficientCreditsError
           ELSE /\ lots' = [l \in DOMAIN lots |->
                       [lots[l] EXCEPT !.remaining = @ - c.take[l]]]
                /\ txs' = Append(txs, [type |-> "DEBIT", amount |-> c.amount,
                                       reverses |-> 0, event |-> NoEvent,
                                       alloc |-> c.take])
        /\ Return(p)
        /\ UNCHANGED <<clock, periodEnd>>

-----------------------------------------------------------------------------
(* refund.ts.  refund() is refundPartial with everything the debit charged.*)

CallRefund(p) ==
    /\ call[p].step = "idle" /\ Room
    /\ \E d \in DOMAIN txs, credits \in CallAmount :
         call' = [call EXCEPT ![p] = Begin("refund", credits, d, 0, 1)]
    /\ UNCHANGED <<clock, periodEnd, lots, txs>>

Refundable(d, credits) ==
    /\ txs[d].type = "DEBIT"              \* else NotRefundableError
    /\ credits <= txs[d].amount           \* else OverRefundError
    /\ ~ Refunded(d)                      \* else AlreadyRefundedError

ReadOriginal(p) ==
    LET c == call[p]
    IN  /\ c.op = "refund" /\ c.step = "begin"
        /\ IF Refundable(c.target, c.amount)
           THEN call' = [call EXCEPT ![p].step = "insert"]
           ELSE Return(p)
        /\ UNCHANGED <<clock, periodEnd, lots, txs>>

(* Mutant: reversesId without its unique index.                            *)
InsertReversalTwice(p) ==
    LET c == call[p]
    IN  /\ c.op = "refund" /\ c.step = "insert"
        /\ \E q \in InOrder({l \in LotId : txs[c.target].alloc[l] > 0}, ById) :
             call' = [call EXCEPT ![p].step = "lock", ![p].todo = q]
        /\ UNCHANGED <<clock, periodEnd, lots, txs>>

(* INSERT of the REFUND row: it waits for an uncommitted reversal of the   *)
(* same debit, and fails on a committed one.                               *)
InsertReversal(p) ==
    LET c == call[p]
    IN  /\ c.op = "refund" /\ c.step = "insert"
        /\ ~ Blocked(p)
        /\ IF Refunded(c.target)
           THEN Return(p)
           ELSE \E q \in InOrder({l \in LotId : txs[c.target].alloc[l] > 0}, ById) :
                  call' = [call EXCEPT ![p].step = "lock", ![p].todo = q]
        /\ UNCHANGED <<clock, periodEnd, lots, txs>>

(* planRefundBoundary and refundLotExpiry.                                 *)
refundLotExpiry(lot, now) ==
    CASE lot.kind = "PURCHASED" -> Never
      [] lot.kind = "PLAN" /\ lot.expiresAt > now -> lot.expiresAt
      [] OTHER -> IF periodEnd > now THEN periodEnd ELSE now + Horizon

(* Mutant: the rounding remainder is dropped.                              *)
SplitsFloored(debit, credits) ==
    {[l \in LotId |-> (debit.alloc[l] * credits) \div debit.amount]}

(* The proportional split of a refund over the lots of its debit: shares   *)
(* rounded down, and one credit more for the largest allocations until the *)
(* shares add up.                                                          *)
Splits(debit, credits) ==
    LET Drawn == {l \in LotId : debit.alloc[l] > 0}
        floor == [l \in LotId |-> (debit.alloc[l] * credits) \div debit.amount]
        spare == credits - Total(floor)
    IN  {[l \in LotId |-> IF l \in R THEN floor[l] + 1 ELSE floor[l]] :
           R \in {R \in SUBSET Drawn :
                    /\ Cardinality(R) = spare
                    /\ \A l \in R, m \in Drawn \ R :
                          debit.alloc[l] >= debit.alloc[m]}}

(* Mutant: the share goes back into its lot whether that is dead or not.   *)
GiveBackDead(share, now) ==
    [l \in LotId |->
       IF l \in DOMAIN lots
       THEN Min2(share[l], Max2(0, lots[l].granted - lots[l].remaining))
       ELSE 0]

(* What goes back into the lot it came from: nothing into a dead lot,      *)
(* never more than the lot was granted.                                    *)
GiveBack(share, now) ==
    [l \in LotId |->
       IF l \in DOMAIN lots /\ AliveAt(lots[l], now)
       THEN Min2(share[l], Max2(0, lots[l].granted - lots[l].remaining))
       ELSE 0]

(* Mutant: what a dead lot is owed gets no replacement lot.                *)
OrphanKeysDropped(rest, now) == {}

(* The rest, grouped by the kind and lifetime of the replacement lot.      *)
OrphanKeys(rest, now) ==
    {<<lots[l].kind, refundLotExpiry(lots[l], now)>> :
        l \in {m \in DOMAIN lots : rest[m] > 0}}

OrphanAmount(rest, now, key) ==
    Total([l \in LotId |->
             IF /\ l \in DOMAIN lots
                /\ key = <<lots[l].kind, refundLotExpiry(lots[l], now)>>
             THEN rest[l] ELSE 0])

(* The clock is read after the locks.                                      *)
CommitRefund(p) ==
    LET c   == call[p]
        now == clock
    IN  /\ c.op = "refund" /\ c.step = "lock" /\ c.todo = <<>>
        /\ \E share \in Splits(txs[c.target], c.amount) :
             LET back == GiveBack(share, now)
                 rest == [l \in LotId |-> share[l] - back[l]]
                 keys == OrphanKeys(rest, now)
                 n    == Cardinality(keys)
             IN  /\ Len(lots) + n <= MaxLots
                 /\ \E key \in [1..n -> keys] :
                      LET orphan(i) == OrphanAmount(rest, now, key[i])
                      IN  /\ \A i, j \in 1..n : i # j => key[i] # key[j]
                          /\ lots' = [l \in 1..(Len(lots) + n) |->
                               IF l <= Len(lots)
                               THEN [lots[l] EXCEPT !.remaining = @ + back[l]]
                               ELSE [kind |-> key[l - Len(lots)][1],
                                     granted |-> orphan(l - Len(lots)),
                                     remaining |-> orphan(l - Len(lots)),
                                     expiresAt |-> key[l - Len(lots)][2]]]
                          /\ txs' = Append(txs,
                               [type |-> "REFUND", amount |-> c.amount,
                                reverses |-> c.target, event |-> NoEvent,
                                alloc |-> [l \in LotId |->
                                   CASE l <= Len(lots) -> back[l]
                                     [] l > Len(lots) + n -> 0
                                     [] OTHER -> orphan(l - Len(lots))]])
        /\ Return(p)
        /\ UNCHANGED <<clock, periodEnd>>

-----------------------------------------------------------------------------
(* expiry.ts.  asOf is a renewal boundary, so it may lie ahead of the clock*)

CallExpire(p) ==
    /\ call[p].step = "idle" /\ Room
    /\ \E asOf \in Boundary :
         call' = [call EXCEPT ![p] = Begin("expire", 0, 0, asOf, 1)]
    /\ UNCHANGED <<clock, periodEnd, lots, txs>>

SelectExpire(p) ==
    LET c == call[p]
    IN  /\ c.op = "expire" /\ c.step = "begin"
        /\ \E q \in InOrder({l \in DOMAIN lots : Qualifies(c, l)}, ById) :
             call' = [call EXCEPT ![p].step = "lock", ![p].todo = q]
        /\ UNCHANGED <<clock, periodEnd, lots, txs>>

(* Mutants: no clamp; a clamp without its "gt" filter.                     *)
SweptUnclamped(lot, deadAt) == [lot EXCEPT !.remaining = 0]

SweptForward(lot, deadAt) ==
    [lot EXCEPT !.remaining = 0, !.expiresAt = deadAt]

(* A swept lot is emptied and its boundary is moved back to the instant    *)
(* of the sweep, never forward.                                            *)
Swept(lot, deadAt) ==
    [lot EXCEPT !.remaining = 0, !.expiresAt = Min2(@, deadAt)]

CommitExpire(p) ==
    LET c      == call[p]
        dead   == {l \in DOMAIN lots : c.take[l] > 0}
        deadAt == Min2(c.now, clock)
    IN  /\ c.op = "expire" /\ c.step = "lock" /\ c.todo = <<>>
        /\ IF dead = {}
           THEN UNCHANGED <<lots, txs>>
           ELSE /\ lots' = [l \in DOMAIN lots |->
                       IF l \in dead THEN Swept(lots[l], deadAt) ELSE lots[l]]
                /\ txs' = Append(txs,
                      [type |-> "EXPIRE", amount |-> c.available,
                       reverses |-> 0, event |-> NoEvent, alloc |-> NoLots])
        /\ Return(p)
        /\ UNCHANGED <<clock, periodEnd>>

-----------------------------------------------------------------------------
Step(p) ==
    \/ SelectDebit(p) \/ CommitDebit(p)
    \/ ReadOriginal(p) \/ InsertReversal(p) \/ CommitRefund(p)
    \/ SelectExpire(p) \/ CommitExpire(p)
    \/ LockNext(p) \/ DeadlockVictim(p)

Next ==
    \/ Tick
    \/ \E end \in Boundary : Renew(end)
    \/ Grant
    \/ \E p \in Proc : \/ CallDebit(p) \/ CallRefund(p) \/ CallExpire(p)
                        \/ Step(p) \/ Crash(p)

Spec == Init /\ [][Next]_vars

(* A started transaction goes on: the event loop resumes it, PostgreSQL    *)
(* queues lock waiters and breaks deadlocks.  A caller that waits for a    *)
(* lock competes with others for it, hence strong fairness there.          *)
Fairness ==
    \A p \in Proc :
        /\ WF_vars(SelectDebit(p)) /\ WF_vars(CommitDebit(p))
        /\ WF_vars(ReadOriginal(p)) /\ WF_vars(CommitRefund(p))
        /\ WF_vars(SelectExpire(p)) /\ WF_vars(CommitExpire(p))
        /\ WF_vars(DeadlockVictim(p))
        /\ SF_vars(LockNext(p)) /\ SF_vars(InsertReversal(p))

FairSpec == Spec /\ Fairness

-----------------------------------------------------------------------------
(* Properties.                                                             *)

(* The rows and the open transactions have the shape the schema gives.     *)
TypeOK ==
    /\ clock \in Nat \ {0}
    /\ periodEnd \in Nat
    /\ lots \in Seq(Lot) /\ Len(lots) <= MaxLots
    /\ txs \in Seq(Movement)
    /\ call \in [Proc -> Call]

(* The sum of the movements of a type.                                     *)
Moved(type) ==
    Total([t \in DOMAIN txs |-> IF txs[t].type = type THEN txs[t].amount ELSE 0])

(* Principle VI: the movement history is the balance.  Whatever debits,    *)
(* refunds and sweeps interleave, a statement rebuilt from                 *)
(* CreditTransaction agrees with the credits left in the lots.             *)
HistoryIsBalance ==
    Total(Remaining) + Moved("DEBIT") + Moved("EXPIRE")
        = Moved("GRANT") + Moved("REFUND")

(* No interleaving overdraws a lot or inflates it past its own grant.      *)
LotBounds ==
    \A l \in DOMAIN lots : lots[l].remaining \in 0..lots[l].granted

(* Every debit and refund is backed, credit for credit, by allocation rows:*)
(* a later refund depends on them to find the lots.                        *)
MovementsAllocated ==
    \A t \in DOMAIN txs :
        txs[t].type \in {"DEBIT", "REFUND"} => Total(txs[t].alloc) = txs[t].amount

(* A debit is reversed at most once, never for more than it charged, and   *)
(* only a debit is: two callers may ask for the same refund at once.       *)
RefundedOnce ==
    \A t \in DOMAIN txs : txs[t].reverses # 0 =>
        /\ txs[t].reverses \in DOMAIN txs
        /\ txs[txs[t].reverses].type = "DEBIT"
        /\ txs[t].amount <= txs[txs[t].reverses].amount
        /\ \A u \in DOMAIN txs : txs[u].reverses = txs[t].reverses => u = t

(* Credits drawn from lot l by debits, and given back to it by the refunds *)
(* of those debits (a replacement lot was drawn on by no earlier debit).   *)
Drawn(l) ==
    Total([t \in DOMAIN txs |-> IF txs[t].type = "DEBIT" THEN txs[t].alloc[l] ELSE 0])

Returned(l) ==
    Total([t \in DOMAIN txs |->
             IF txs[t].type = "REFUND" /\ txs[txs[t].reverses].alloc[l] > 0
             THEN txs[t].alloc[l] ELSE 0])

(* Each lot's own books: what left it went to debits or to a sweep, and a  *)
(* lot a sweep has emptied stays empty and reads as expired, so no refund  *)
(* brings destroyed credits back to life and no live lot lacks the room    *)
(* for a refund of what was drawn from it.                                 *)
LotBooks ==
    \A l \in DOMAIN lots :
        /\ lots[l].remaining + Drawn(l) <= lots[l].granted + Returned(l)
        /\ lots[l].remaining + Drawn(l) < lots[l].granted + Returned(l)
              => lots[l].remaining = 0 /\ ~ AliveAt(lots[l], clock)

(* SC-022: a purchased credit is only ever spent.  Through any chain of    *)
(* debits, refunds and replacement lots, no sweep destroys one.            *)
PurchasedNeverLost ==
    \A l \in DOMAIN lots : lots[l].kind = "PURCHASED" =>
        lots[l].remaining + Drawn(l) = lots[l].granted + Returned(l)

(* FR-078, SC-022: a debit that spends a purchased credit leaves nothing   *)
(* spendable in the plan lots it selected.                                 *)
PlanSpentFirst ==
    [][\A p \in Proc :
         LET c == call[p]
         IN  (/\ CommitDebit(p)
              /\ \E l \in DOMAIN lots : /\ lots[l].kind = "PURCHASED"
                                        /\ lots'[l].remaining < lots[l].remaining)
             => \A l \in c.held : (/\ lots[l].kind = "PLAN"
                                    /\ AliveAt(lots[l], c.now))
                                   => lots'[l].remaining = 0]_vars

(* A boundary is only ever moved earlier: neither a sweep nor a refund     *)
(* hands a lot a lifetime it never had.                                    *)
BoundaryNeverExtended ==
    [][\A l \in DOMAIN lots :
         \/ lots'[l].expiresAt = lots[l].expiresAt
         \/ lots[l].expiresAt # Never /\ lots'[l].expiresAt < lots[l].expiresAt]_vars

(* Per debit, what it charged and what its refund gave back.               *)
Charges ==
    [d \in {t \in DOMAIN txs : txs[t].type = "DEBIT"} |->
       [amount |-> txs[d].amount,
        refunded |-> Total([t \in DOMAIN txs |->
                       IF txs[t].reverses = d THEN txs[t].amount ELSE 0])]]

(* The credits in lots that expired after a debit under way selected them. *)
Selected(p, l) ==
    call[p].op = "debit" /\ call[p].step = "lock" /\ AliveAt(lots[l], call[p].now)

Late ==
    [l \in LotId |-> IF /\ l \in DOMAIN lots /\ ~ AliveAt(lots[l], clock)
                       /\ \E p \in Proc : Selected(p, l)
                     THEN lots[l].remaining ELSE 0]

Promise == INSTANCE Account
    WITH Id <- TxId, balance <- Total(Spendable), late <- Total(Late), charges <- Charges

(* The ledger implements Account, whose balance is what balanceOf counts:  *)
(* every step of every interleaving is a grant, a whole charge, a lapse,   *)
(* invisible, or a reversal of which each credit can be spent, whatever    *)
(* expired since the debit; and a debit takes an expired credit only if it *)
(* expired after the debit had looked.                                     *)
KeepsPromise == Promise!ASpec

(* Every call into the ledger returns, deadlocks and retries included.     *)
EveryCallReturns ==
    \A p \in Proc : call[p].step # "idle" ~> call[p].step = "idle"

=============================================================================
