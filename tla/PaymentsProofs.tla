--------------------------- MODULE PaymentsProofs ---------------------------
(***************************************************************************)
(* Theorems about Payments, for any orders, events and requests: whatever  *)
(* is reported twice, early, late or by two requests at once, and whichever*)
(* of them die.  The transactions of applyVerifiedPaymentEvent share no    *)
(* lock, so the invariant says what each of its steps may rely on: what    *)
(* the steps before it, of this or of an earlier delivery, have committed. *)
(***************************************************************************)
EXTENDS Payments, TLAPS

(* The event of an order that was paid.                                    *)
Paid(p) == <<p, "payment.succeeded">>

(* A row is stored once, by its checkout.                                  *)
StoredOnce == \A p \in Payment : row[p] # "none" => checkout[p] = "done"

(* A request works on an event that happened.                              *)
Reported == \A h \in Handler : handler[h].step # "idle" => handler[h].event \in happened

(* What a request has behind it at each of its steps.                      *)
StepDone(h) ==
    LET e == handler[h].event
        s == handler[h].step IN
    /\ s \in {"check", "grant", "receipt", "close", "finalize"} => row[e[1]] # "none"
    /\ s \in {"check", "grant", "receipt"} => Succeeds(e) /\ e \notin mismatched
    /\ s = "receipt" => grants[e] = 1
    /\ s = "close" /\ Succeeds(e) => grants[e] = 1 /\ e \in receipts
    /\ s = "finalize" /\ Succeeds(e) => row[e[1]] \in {"SUCCEEDED", "FAILED", "EXPIRED"}

(* The row that claims appliedAt sends the one mail.                       *)
MailedOnce == \A e \in Event : mails[e] <= 1 /\ (event[e] # "applied" => mails[e] = 0)

GrantsPaid ==
    \A e \in Event :
        grants[e] <= 1 /\ (grants[e] = 1 => Succeeds(e) /\ e \in happened /\ e \notin mismatched)

SucceededRow ==
    \A p \in Payment : row[p] = "SUCCEEDED" =>
        Paid(p) \in happened /\ grants[Paid(p)] = 1 /\ Paid(p) \in receipts

AppliedRow ==
    \A p \in Payment :
        event[Paid(p)] = "applied" => row[p] \in {"SUCCEEDED", "FAILED", "EXPIRED"}

IInv ==
    /\ TypeOK /\ StoredOnce /\ Reported /\ (\A h \in Handler : StepDone(h))
    /\ MailedOnce /\ GrantsPaid /\ SucceededRow /\ AppliedRow

-----------------------------------------------------------------------------
(* An event is its order and its type; a successful one is its order's.    *)
LEMMA EventParts ==
    /\ \A e \in Event : e[1] \in Payment /\ (Succeeds(e) => e = Paid(e[1]))
    /\ \A p \in Payment : Paid(p) \in Event /\ Succeeds(Paid(p)) /\ Paid(p)[1] = p
BY DEF Event, Succeeds, Paid

(* Before anything is opened the invariant holds.                          *)
LEMMA InitStep == Init => IInv
<1> SUFFICES ASSUME Init PROVE IInv
  OBVIOUS
<1> USE DEF Init
<1>1. TypeOK
  BY PaymentsAssumption DEF TypeOK, RowStatus, Steps, Idle
<1>2. \A h \in Handler : StepDone(h)
  BY DEF StepDone, Idle
<1> QED BY <1>1, <1>2, EventParts
        DEF IInv, StoredOnce, Reported, MailedOnce, GrantsPaid, SucceededRow, AppliedRow, Idle

(* Every step keeps the rows and the requests well formed.                 *)
LEMMA TypeStep == TypeOK /\ Reported /\ [Next]_vars => TypeOK' /\ Reported'
<1> SUFFICES ASSUME TypeOK, Reported, [Next]_vars PROVE TypeOK' /\ Reported'
  OBVIOUS
<1> USE PaymentsAssumption DEF TypeOK, Reported, RowStatus, Steps
<1>1. ASSUME NEW p \in Payment, OpenCheckout(p) \/ CreatePendingPayment(p) \/ CheckoutDies(p) \/ Expire(p)
      PROVE  TypeOK' /\ Reported'
  BY <1>1 DEF OpenCheckout, CreatePendingPayment, CheckoutDies, Expire, Closed
<1>2. ASSUME NEW e \in Event, Transact(e) PROVE TypeOK' /\ Reported'
  BY <1>2 DEF Transact
<1>3. ASSUME NEW e \in Event, NEW h \in Handler, Deliver(h, e) PROVE TypeOK' /\ Reported'
  BY <1>3 DEF Deliver, At
<1>4. ASSUME NEW h \in Handler, Step(h) \/ HandlerDies(h) PROVE TypeOK' /\ Reported'
  <2> DEFINE e == handler[h].event
  <2>0. /\ handler[h].step # "idle" /\ e \in happened /\ e \in Event
    BY <1>4 DEF Step, Read, CheckEntitled, Grant, WriteReceipt, Close, Finalize, HandlerDies, At
  <2>1. e[1] \in Payment
    BY <2>0, EventParts
  <2> USE <2>0, <2>1 DEF At, Goto, Leave, Idle
  <2>2. CASE Read(h)           BY <2>2 DEF Read
  <2>3. CASE CheckEntitled(h)  BY <2>3 DEF CheckEntitled
  <2>4. CASE Grant(h)          BY <2>4 DEF Grant
  <2>5. CASE WriteReceipt(h)   BY <2>5 DEF WriteReceipt
  <2>6. CASE Close(h)          BY <2>6 DEF Close, Closed
  <2>7. CASE Finalize(h)       BY <2>7 DEF Finalize
  <2>8. CASE HandlerDies(h)    BY <2>8 DEF HandlerDies
  <2> QED BY <1>4, <2>2, <2>3, <2>4, <2>5, <2>6, <2>7, <2>8 DEF Step
<1>5. CASE Lapse \/ UpdatePlan BY <1>5 DEF Lapse, UpdatePlan
<1>6. CASE UNCHANGED vars BY <1>6 DEF vars
<1> QED BY <1>1, <1>2, <1>3, <1>4, <1>5, <1>6 DEF Next

(* The checkout, the customer, the sweep and the subscription: nothing a   *)
(* request relies on is taken back, because a row that was stored is never *)
(* stored again and a row that was closed is never opened again.           *)
LEMMA OthersStep ==
    ASSUME IInv, TypeOK', Reported',
           \/ \E p \in Payment : OpenCheckout(p) \/ CreatePendingPayment(p) \/ CheckoutDies(p) \/ Expire(p)
           \/ \E e \in Event : Transact(e)
           \/ Lapse \/ UpdatePlan
           \/ UNCHANGED vars
    PROVE  IInv'
<1> DEFINE Final == {"SUCCEEDED", "FAILED", "EXPIRED"}
<1> USE DEF IInv
<1>1. /\ UNCHANGED <<event, grants, receipts, mails, handler>>
      /\ happened \subseteq happened'
      /\ \A e \in happened : e \in mismatched' => e \in mismatched
  BY DEF OpenCheckout, CreatePendingPayment, CheckoutDies, Expire, Transact, Lapse, UpdatePlan, vars
<1>2. \A p \in Payment : /\ row[p] # "none" => row'[p] # "none"
                         /\ row[p] \in Final => row'[p] = row[p]
                         /\ row'[p] = "SUCCEEDED" => row[p] = "SUCCEEDED"
                         /\ row'[p] # "none" => checkout'[p] = "done"
  <2>0. /\ \A p \in Payment : row[p] # "none" => checkout[p] = "done"
        /\ DOMAIN row = Payment /\ DOMAIN checkout = Payment
    BY DEF TypeOK, StoredOnce
  <2>1. ASSUME NEW q \in Payment, OpenCheckout(q) \/ CheckoutDies(q)
        PROVE  row' = row /\ \A p \in Payment : row[p] # "none" => checkout'[p] = "done"
    <3>1. /\ row' = row /\ checkout[q] # "done"
          /\ \A p \in Payment \ {q} : checkout'[p] = checkout[p]
      BY <2>0, <2>1 DEF OpenCheckout, CheckoutDies
    <3> QED BY <2>0, <3>1
  <2>2. ASSUME NEW q \in Payment, CreatePendingPayment(q)
        PROVE  /\ row[q] = "none" /\ row' = [row EXCEPT ![q] = "PENDING"]
               /\ checkout' = [checkout EXCEPT ![q] = "done"]
    BY <2>0, <2>2 DEF CreatePendingPayment
  <2>3. ASSUME NEW q \in Payment, Expire(q)
        PROVE  row[q] = "PENDING" /\ row' = [row EXCEPT ![q] = "EXPIRED"] /\ checkout' = checkout
    BY <2>3 DEF Expire, Closed
  <2>4. CASE (\E e \in Event : Transact(e)) \/ Lapse \/ UpdatePlan \/ UNCHANGED vars
    <3>1. row' = row /\ checkout' = checkout
      BY <2>4 DEF Transact, Lapse, UpdatePlan, vars
    <3> QED BY <2>0, <3>1
  <2>5. CASE \E q \in Payment : OpenCheckout(q) \/ CheckoutDies(q)
    BY <2>1, <2>5
  <2>6. CASE \E q \in Payment : CreatePendingPayment(q)
    BY <2>0, <2>2, <2>6
  <2>7. CASE \E q \in Payment : Expire(q)
    BY <2>0, <2>3, <2>7
  <2> QED BY <2>4, <2>5, <2>6, <2>7
<1>3. \A h \in Handler : StepDone(h)'
  <2> SUFFICES ASSUME NEW h \in Handler PROVE StepDone(h)'
    OBVIOUS
  <2>1. CASE handler[h].step = "idle"
    BY <1>1, <2>1 DEF StepDone
  <2>2. CASE handler[h].step # "idle"
    <3>1. /\ handler[h].event \in Event /\ handler[h].event[1] \in Payment
          /\ handler[h].event \in happened
      BY <2>2, EventParts DEF Reported, TypeOK
    <3> QED BY <1>1, <1>2, <3>1 DEF StepDone
  <2> QED BY <2>1, <2>2
<1>4. StoredOnce' BY <1>2 DEF StoredOnce
<1>5. MailedOnce' BY <1>1 DEF MailedOnce
<1>6. GrantsPaid' BY <1>1 DEF GrantsPaid
<1>7. SucceededRow' BY <1>1, <1>2, EventParts DEF SucceededRow
<1>8. AppliedRow' BY <1>1, <1>2 DEF AppliedRow
<1> QED BY <1>3, <1>4, <1>5, <1>6, <1>7, <1>8

(* A delivery begins: the event has not been applied.                      *)
LEMMA DeliverStep ==
    ASSUME IInv, TypeOK', Reported', NEW h \in Handler, NEW e \in Event, Deliver(h, e)
    PROVE  IInv'
<1> USE DEF IInv, Deliver, At, TypeOK
<1>1. \A g \in Handler : StepDone(g)' BY DEF StepDone
<1>2. StoredOnce' BY DEF StoredOnce
<1>3. MailedOnce' BY DEF MailedOnce
<1>4. GrantsPaid' BY DEF GrantsPaid
<1>5. SucceededRow' BY DEF SucceededRow
<1>6. AppliedRow' BY EventParts DEF AppliedRow
<1> QED BY <1>1, <1>2, <1>3, <1>4, <1>5, <1>6

(* A step of one request leaves what the others rely on: grants and        *)
(* receipts stay, and a row that was closed stays closed.                  *)
LEMMA OtherRequests ==
    ASSUME TypeOK, Reported, NEW h \in Handler,
           \A g \in Handler : StepDone(g),
           \A g \in Handler \ {h} : handler'[g] = handler[g],
           \A e \in Event : grants[e] = 1 => grants'[e] = 1,
           receipts \subseteq receipts', mismatched' = mismatched,
           \A p \in Payment : /\ row[p] # "none" => row'[p] # "none"
                              /\ row[p] \in {"SUCCEEDED", "FAILED", "EXPIRED"} => row'[p] = row[p]
    PROVE  \A g \in Handler \ {h} : StepDone(g)'
<1> SUFFICES ASSUME NEW g \in Handler \ {h} PROVE StepDone(g)'
  OBVIOUS
<1>1. CASE handler[g].step = "idle"
  BY <1>1 DEF StepDone
<1>2. CASE handler[g].step # "idle"
  <2>1. handler[g].event \in Event /\ handler[g].event[1] \in Payment
    BY <1>2, EventParts DEF Reported, TypeOK
  <2> QED BY <2>1 DEF StepDone
<1> QED BY <1>1, <1>2

(* The steps of applyVerifiedPaymentEvent, and the death of a request.     *)
LEMMA RequestStep ==
    ASSUME IInv, TypeOK', Reported', NEW h \in Handler, Step(h) \/ HandlerDies(h)
    PROVE  IInv'
<1> DEFINE e == handler[h].event
<1> USE DEF IInv, At, Goto, Leave, Idle
<1>0. handler[h].step # "idle" /\ e \in happened /\ e \in Event
  BY DEF Step, Read, CheckEntitled, Grant, WriteReceipt, Close, Finalize, HandlerDies, TypeOK, Reported
<1>1. e[1] \in Payment /\ (Succeeds(e) => e = Paid(e[1]))
  BY <1>0, EventParts
<1>2. /\ \A g \in Handler \ {h} : handler'[g] = handler[g]
      /\ UNCHANGED <<happened, mismatched, checkout>>
  BY DEF Step, Read, CheckEntitled, Grant, WriteReceipt, Close, Finalize, HandlerDies, TypeOK
<1>3. CASE Read(h) \/ CheckEntitled(h) \/ HandlerDies(h)
  <2>1. UNCHANGED <<row, event, grants, receipts, mails>>
    BY <1>3 DEF Read, CheckEntitled, HandlerDies
  <2>2. StepDone(h)'
    <3>1. CASE Read(h)
      BY <1>0, <1>1, <3>1 DEF Read, StepDone, TypeOK, RowStatus, Succeeds
    <3>2. CASE CheckEntitled(h)
      BY <1>0, <1>1, <3>2 DEF CheckEntitled, StepDone, TypeOK
    <3>3. CASE HandlerDies(h)
      BY <3>3 DEF HandlerDies, StepDone, TypeOK
    <3> QED BY <1>3, <3>1, <3>2, <3>3
  <2>3. \A g \in Handler : StepDone(g)'
    BY <1>2, <2>1, <2>2, OtherRequests
  <2> QED BY <1>2, <2>1, <2>3 DEF StoredOnce, MailedOnce, GrantsPaid, SucceededRow, AppliedRow
<1>4. CASE Grant(h)
  <2>1. UNCHANGED <<row, event, receipts, mails>> /\ grants' = [grants EXCEPT ![e] = 1]
    BY <1>4 DEF Grant
  <2>2. Succeeds(e) /\ e \notin mismatched /\ StepDone(h)'
    BY <1>0, <1>4, <2>1 DEF Grant, StepDone, TypeOK
  <2>3. \A x \in Event : grants'[x] = IF x = e THEN 1 ELSE grants[x]
    BY <1>0, <2>1 DEF TypeOK
  <2>4. \A g \in Handler : StepDone(g)'
    BY <1>2, <2>1, <2>2, <2>3, OtherRequests
  <2>5. GrantsPaid' BY <1>0, <1>2, <2>2, <2>3 DEF GrantsPaid
  <2>6. SucceededRow' BY <1>2, <2>1, <2>3, EventParts DEF SucceededRow
  <2> QED BY <1>2, <2>1, <2>4, <2>5, <2>6 DEF StoredOnce, MailedOnce, AppliedRow
<1>5. CASE WriteReceipt(h)
  <2>1. UNCHANGED <<row, event, grants, mails>> /\ receipts' = receipts \cup {e}
    BY <1>5 DEF WriteReceipt
  <2>2. StepDone(h)'
    BY <1>0, <1>5, <2>1 DEF WriteReceipt, StepDone, TypeOK
  <2>3. \A g \in Handler : StepDone(g)'
    BY <1>2, <2>1, <2>2, OtherRequests
  <2> QED BY <1>2, <2>1, <2>3 DEF StoredOnce, MailedOnce, GrantsPaid, SucceededRow, AppliedRow
<1>6. CASE Close(h)
  <2> DEFINE s == IF Succeeds(e) THEN "SUCCEEDED" ELSE "FAILED"
  <2>1. /\ UNCHANGED <<event, grants, receipts, mails>>
        /\ \A p \in Payment : row'[p] = IF p = e[1] /\ row[p] = "PENDING" THEN s ELSE row[p]
    BY <1>1, <1>6 DEF Close, Closed, TypeOK
  <2>2. row[e[1]] # "none" /\ row[e[1]] \in RowStatus
    BY <1>0, <1>1, <1>6 DEF Close, StepDone, TypeOK
  <2>3. StepDone(h)'
    BY <1>0, <1>1, <1>6, <2>1, <2>2 DEF Close, StepDone, TypeOK, RowStatus
  <2>4. \A g \in Handler : StepDone(g)'
    BY <1>2, <2>1, <2>3, OtherRequests
  <2>5. Succeeds(e) => grants[e] = 1 /\ e \in receipts
    BY <1>6 DEF Close, StepDone
  <2>6. SucceededRow' BY <1>0, <1>1, <1>2, <2>1, <2>5 DEF SucceededRow
  <2>7. AppliedRow' BY <2>1 DEF AppliedRow
  <2>8. StoredOnce' BY <1>2, <2>1, <2>2 DEF StoredOnce
  <2> QED BY <1>2, <2>1, <2>4, <2>6, <2>7, <2>8 DEF MailedOnce, GrantsPaid
<1>7. CASE Finalize(h)
  <2>1. /\ UNCHANGED <<row, grants, receipts>>
        /\ event' = [event EXCEPT ![e] = "applied"]
        /\ mails' = [mails EXCEPT ![e] = IF event[e] = "applied" THEN @ ELSE @ + 1]
    BY <1>7 DEF Finalize
  <2>2. StepDone(h)'
    BY <1>7 DEF Finalize, StepDone, TypeOK
  <2>3. \A g \in Handler : StepDone(g)'
    BY <1>2, <2>1, <2>2, OtherRequests
  <2>4. MailedOnce' BY <1>0, <2>1 DEF MailedOnce, TypeOK
  <2>5. AppliedRow'
    <3>1. Succeeds(e) => row[e[1]] \in {"SUCCEEDED", "FAILED", "EXPIRED"}
      BY <1>7 DEF Finalize, StepDone
    <3> QED BY <1>0, <1>1, <2>1, <3>1, EventParts DEF AppliedRow, TypeOK
  <2> QED BY <1>2, <2>1, <2>3, <2>4, <2>5 DEF StoredOnce, GrantsPaid, SucceededRow
<1> QED BY <1>3, <1>4, <1>5, <1>6, <1>7 DEF Step

(* The invariant holds in every state.                                     *)
LEMMA Invariant == Spec => []IInv
<1>1. IInv /\ [Next]_vars => IInv'
  <2> SUFFICES ASSUME IInv, [Next]_vars PROVE IInv'
    OBVIOUS
  <2>1. TypeOK' /\ Reported'
    BY TypeStep DEF IInv
  <2> QED BY <2>1, OthersStep, DeliverStep, RequestStep DEF Next
<1> QED BY InitStep, <1>1, PTL DEF Spec

-----------------------------------------------------------------------------
(* Every row, counter and request keeps to the states the code knows, and  *)
(* no request is past its first step without an event.                     *)
THEOREM TypeCorrect == Spec => []TypeOK
<1>1. IInv => TypeOK BY DEF IInv
<1> QED BY Invariant, <1>1, PTL

(* However often webhook and redirect report a payment, and wherever a     *)
(* handler dies, it is granted and confirmed at most once, and only if it  *)
(* was paid.                                                               *)
THEOREM PaymentGrantedOnce == Spec => []GrantedOnce
<1>1. IInv => GrantedOnce BY DEF IInv, GrantedOnce, MailedOnce, GrantsPaid
<1> QED BY Invariant, <1>1, PTL

(* A payment that is SUCCEEDED was paid, granted and given its receipt, by *)
(* whichever deliveries; one whose event is marked as applied was          *)
(* delivered so, or closed before as FAILED or EXPIRED.                    *)
THEOREM PaymentDelivered == Spec => []SucceededIsDelivered
<1>1. IInv => SucceededIsDelivered
  BY DEF IInv, SucceededIsDelivered, SucceededRow, AppliedRow, Paid
<1> QED BY Invariant, <1>1, PTL


(* Where a request may be after one step: on along its transactions, or    *)
(* out, when it raises or dies.                                            *)
After(s) ==
    CASE s = "idle"     -> {"idle", "read"}
      [] s = "read"     -> {"read", "check", "close", "finalize", "idle"}
      [] s = "check"    -> {"check", "grant", "idle"}
      [] s = "grant"    -> {"grant", "receipt", "idle"}
      [] s = "receipt"  -> {"receipt", "close", "idle"}
      [] s = "close"    -> {"close", "finalize", "idle"}
      [] OTHER          -> {"finalize", "idle"}

(* What may happen to an order in one step: a row is closed at most once,  *)
(* what was applied, granted, written and sent stays, and a request goes   *)
(* on with the event it began with.                                        *)
OrdersAdvance ==
    /\ \A p \in Payment :
         /\ row[p] \in {"SUCCEEDED", "FAILED", "EXPIRED"} => row'[p] = row[p]
         /\ row[p] # "none" => row'[p] # "none"
         /\ checkout[p] = "done" => checkout'[p] = "done" /\ row[p] \in {row'[p], "PENDING"}
    /\ \A e \in Event : /\ event[e] = "applied" => event'[e] = "applied"
                        /\ grants[e] <= grants'[e] /\ mails[e] <= mails'[e]
    /\ receipts \subseteq receipts' /\ happened \subseteq happened'
    /\ \A h \in Handler : /\ handler'[h].step \in After(handler[h].step)
                          /\ handler[h].step # "idle" /\ handler'[h].step # "idle"
                               => handler'[h].event = handler[h].event

(* Every step does so: the checkout and the sweep, a delivery, a request.  *)
LEMMA OrderMoves == ASSUME IInv, [Next]_vars PROVE OrdersAdvance
<1> USE DEF OrdersAdvance, After
<1>0. TypeOK /\ StoredOnce /\ Reported /\ GrantsPaid
  BY DEF IInv
<1>1. CASE \/ \E p \in Payment : OpenCheckout(p) \/ CreatePendingPayment(p) \/ CheckoutDies(p) \/ Expire(p)
           \/ \E e \in Event : Transact(e)
           \/ Lapse \/ UpdatePlan
           \/ UNCHANGED vars
  <2>1. /\ UNCHANGED <<event, grants, receipts, mails, handler>>
        /\ happened \subseteq happened'
    BY <1>1 DEF OpenCheckout, CreatePendingPayment, CheckoutDies, Expire, Transact, Lapse, UpdatePlan, vars
  <2>2. ASSUME NEW p \in Payment
        PROVE  /\ row[p] \in {"SUCCEEDED", "FAILED", "EXPIRED"} => row'[p] = row[p]
               /\ row[p] # "none" => row'[p] # "none"
               /\ checkout[p] = "done" => checkout'[p] = "done" /\ row[p] \in {row'[p], "PENDING"}
    <3>0. /\ row[p] # "none" => checkout[p] = "done"
          /\ DOMAIN row = Payment /\ DOMAIN checkout = Payment
      BY <1>0 DEF TypeOK, StoredOnce
    <3>1. CASE \E q \in Payment : OpenCheckout(q)
      BY <3>0, <3>1 DEF OpenCheckout
    <3>2. CASE \E q \in Payment : CreatePendingPayment(q)
      BY <3>0, <3>2 DEF CreatePendingPayment
    <3>3. CASE \E q \in Payment : CheckoutDies(q)
      BY <3>0, <3>3 DEF CheckoutDies
    <3>4. CASE \E q \in Payment : Expire(q)
      BY <3>0, <3>4 DEF Expire, Closed
    <3>5. CASE (\E e \in Event : Transact(e)) \/ Lapse \/ UpdatePlan \/ UNCHANGED vars
      BY <3>5 DEF Transact, Lapse, UpdatePlan, vars
    <3> QED BY <1>1, <3>1, <3>2, <3>3, <3>4, <3>5
  <2>3. \A h \in Handler : handler'[h].step \in After(handler[h].step)
    BY <1>0, <2>1 DEF TypeOK, Steps
  <2>4. \A e \in Event : grants[e] <= grants'[e] /\ mails[e] <= mails'[e]
    BY <1>0, <2>1 DEF TypeOK
  <2> QED BY <2>1, <2>2, <2>3, <2>4
<1>2. ASSUME NEW e \in Event, NEW h \in Handler, Deliver(h, e) PROVE OrdersAdvance
  <2>1. /\ UNCHANGED <<checkout, happened, row, grants, receipts, mails>>
        /\ handler[h].step = "idle" /\ event[e] # "applied"
        /\ event' = [event EXCEPT ![e] = "received"]
        /\ handler' = [handler EXCEPT ![h] = [step |-> "read", event |-> e]]
    BY <1>2 DEF Deliver, At
  <2>2. \A g \in Handler : /\ handler'[g].step \in After(handler[g].step)
                           /\ handler[g].step # "idle" => handler'[g] = handler[g]
    BY <1>0, <2>1 DEF TypeOK, Steps
  <2>3. \A x \in Event : /\ event[x] = "applied" => event'[x] = "applied"
                         /\ grants[x] <= grants'[x] /\ mails[x] <= mails'[x]
    BY <1>0, <2>1 DEF TypeOK
  <2> QED BY <2>1, <2>2, <2>3
<1>3. ASSUME NEW h \in Handler, Step(h) \/ HandlerDies(h) PROVE OrdersAdvance
  <2> DEFINE e == handler[h].event
  <2>1. handler[h].step # "idle" /\ e \in Event /\ e[1] \in Payment
    BY <1>0, <1>3, EventParts
       DEF Step, Read, CheckEntitled, Grant, WriteReceipt, Close, Finalize, HandlerDies, TypeOK, Reported, At
  <2>2. /\ \A g \in Handler \ {h} : handler'[g] = handler[g]
        /\ handler'[h].step \in After(handler[h].step)
        /\ handler'[h].step # "idle" => handler'[h].event = e
        /\ UNCHANGED <<happened, checkout>>
    <3> USE <1>0, <2>1 DEF TypeOK, Steps, At, Goto, Leave, Idle
    <3>1. CASE Read(h)          BY <3>1 DEF Read
    <3>2. CASE CheckEntitled(h) BY <3>2 DEF CheckEntitled
    <3>3. CASE Grant(h)         BY <3>3 DEF Grant
    <3>4. CASE WriteReceipt(h)  BY <3>4 DEF WriteReceipt
    <3>5. CASE Close(h)         BY <3>5 DEF Close
    <3>6. CASE Finalize(h)      BY <3>6 DEF Finalize
    <3>7. CASE HandlerDies(h)   BY <3>7 DEF HandlerDies
    <3> QED BY <1>3, <3>1, <3>2, <3>3, <3>4, <3>5, <3>6, <3>7 DEF Step
  <2>3. \A g \in Handler : /\ handler'[g].step \in After(handler[g].step)
                           /\ handler[g].step # "idle" /\ handler'[g].step # "idle"
                                => handler'[g].event = handler[g].event
    <3>1. \A g \in Handler : handler[g].step \in After(handler[g].step)
      BY <1>0 DEF TypeOK, Steps
    <3> QED BY <2>2, <3>1
  <2>4. /\ \A p \in Payment : row'[p] = row[p] \/ (row[p] = "PENDING" /\ row'[p] # "none")
        /\ receipts \subseteq receipts'
    <3>1. CASE Close(h)
      BY <1>0, <2>1, <3>1 DEF Close, Closed, TypeOK
    <3>2. CASE ~Close(h)
      BY <1>3, <3>2 DEF Step, Read, CheckEntitled, Grant, WriteReceipt, Finalize, HandlerDies
    <3> QED BY <3>1, <3>2
  <2>5. \A x \in Event : event[x] = "applied" => event'[x] = "applied"
    BY <1>0, <1>3, <2>1 DEF Step, Read, CheckEntitled, Grant, WriteReceipt, Close, Finalize, HandlerDies, TypeOK
  <2>6. \A x \in Event : grants[x] <= grants'[x] /\ mails[x] <= mails'[x]
    <3>0. \A x \in Event : grants[x] \in Nat /\ mails[x] \in Nat /\ grants[x] <= 1
      BY <1>0, EventParts DEF TypeOK, GrantsPaid
    <3>1. CASE Grant(h)
      BY <1>0, <2>1, <3>0, <3>1 DEF Grant, TypeOK
    <3>2. CASE Finalize(h)
      BY <1>0, <2>1, <3>0, <3>2 DEF Finalize, TypeOK
    <3>3. CASE ~Grant(h) /\ ~Finalize(h)
      BY <1>3, <3>0, <3>3 DEF Step, Read, CheckEntitled, WriteReceipt, Close, HandlerDies
    <3> QED BY <3>1, <3>2, <3>3
  <2>7. \A p \in Payment : checkout'[p] = checkout[p]
    BY <2>2
  <2> QED BY <2>2, <2>3, <2>4, <2>5, <2>6, <2>7
<1> QED BY <1>1, <1>2, <1>3 DEF Next

(* An order only ever moves on, whatever is repeated, late or dies: the    *)
(* first close of a row is final (transitionPendingPayment), an applied    *)
(* event stays applied, and grant, receipt and mail are never withdrawn.   *)
(* A request goes through its transactions in one direction on one event   *)
(* (applyVerifiedPaymentEvent), so that a repeated delivery starts where   *)
(* nothing has been lost. It is what PaidIsGranted rests on.               *)
THEOREM OrderOnlyMovesOn == Spec => [][OrdersAdvance]_vars
<1>1. IInv /\ [Next]_vars => [OrdersAdvance]_vars
  BY OrderMoves
<1> QED BY <1>1, Invariant, PTL DEF Spec

=============================================================================
