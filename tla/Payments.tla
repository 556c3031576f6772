------------------------------ MODULE Payments ------------------------------
(***************************************************************************)
(* Payments of one account: a checkout opens an order at the provider and  *)
(* then stores a PendingPayment; the provider reports each transaction of  *)
(* the order, by webhook until it is answered and by the customer's signed *)
(* redirect, in any order and any number of times; every report goes       *)
(* through applyVerifiedPaymentEvent, whose statements are separate        *)
(* transactions; a sweep expires what stays open.                          *)
(***************************************************************************)
EXTENDS Integers

CONSTANTS
    Payment,      \* orders at the provider
    Credits,      \* the orders that buy credits; the others buy a subscription
    Failing,      \* bound: the orders with a failed attempt
    Differing,    \* bound: the orders a report may disagree with
    Handler,      \* requests that are being handled: webhook or redirect
    NoEvent,
    MaxCrashes    \* bound: handlers and checkouts that die

ASSUME PaymentsAssumption ==
    /\ Credits \subseteq Payment /\ Failing \subseteq Payment
    /\ Differing \subseteq Payment /\ MaxCrashes \in Nat
    /\ NoEvent \notin Payment \X {"payment.succeeded", "payment.failed"}

VARIABLES
    checkout,     \* the request that opens the order
    happened,     \* transactions of the provider
    mismatched,   \* those reported with another amount than their order's
    row,          \* PendingPayment.status
    event,        \* BillingEvent: received, and applied when appliedAt is set
    grants,       \* credit lots granted for the event
    receipts,     \* events with a Receipt
    mails,        \* confirmations sent for the event
    entitled,     \* the account's plan allows CREDIT_PURCHASE
    subscribable, \* Plan.isActive of the plan the orders subscribe to
    handler,      \* per request: step and event
    crashes

vars == <<checkout, happened, mismatched, row, event, grants, receipts, mails, entitled, subscribable, handler, crashes>>

-----------------------------------------------------------------------------
(* A transaction either succeeds or fails; an order has at most one of     *)
(* each, a failed attempt before the successful one included.              *)
Event == Payment \X {"payment.succeeded", "payment.failed"}
Succeeds(e) == e[2] = "payment.succeeded"

RowStatus == {"none", "PENDING", "SUCCEEDED", "FAILED", "EXPIRED"}
Steps == {"idle", "read", "check", "grant", "receipt", "close", "finalize"}

Idle == [step |-> "idle", event |-> NoEvent]
Goto(h, s) == handler' = [handler EXCEPT ![h].step = s]
Leave(h) == handler' = [handler EXCEPT ![h] = Idle]
At(h, s) == handler[h].step = s

Init ==
    /\ checkout = [p \in Payment |-> "none"]
    /\ happened = {} /\ mismatched = {}
    /\ row = [p \in Payment |-> "none"]
    /\ event = [e \in Event |-> "none"]
    /\ grants = [e \in Event |-> 0]
    /\ receipts = {}
    /\ mails = [e \in Event |-> 0]
    /\ entitled \in BOOLEAN /\ subscribable \in BOOLEAN
    /\ handler = [h \in Handler |-> Idle]
    /\ crashes = 0

-----------------------------------------------------------------------------
(* Checkout.                                                               *)

(* The two refusals: credits need a plan that allows them                  *)
(* (assertEntitled), a subscription a plan that is still on offer          *)
(* (loadSubscribablePlan).                                                 *)
Refused(p) == IF p \in Credits THEN ~entitled ELSE ~subscribable

(* The provider's order comes first.                                       *)
OpenCheckout(p) ==
    /\ checkout[p] = "none" /\ ~Refused(p)
    /\ checkout' = [checkout EXCEPT ![p] = "open"]
    /\ UNCHANGED <<happened, mismatched, row, event, grants, receipts, mails, entitled, subscribable, handler, crashes>>

CreatePendingPayment(p) ==
    /\ checkout[p] = "open"
    /\ checkout' = [checkout EXCEPT ![p] = "done"]
    /\ row' = [row EXCEPT ![p] = "PENDING"]
    /\ UNCHANGED <<happened, mismatched, event, grants, receipts, mails, entitled, subscribable, handler, crashes>>

(* The checkout dies in between: the order has no row, and never gets one. *)
CheckoutDies(p) ==
    /\ checkout[p] = "open" /\ crashes < MaxCrashes
    /\ checkout' = [checkout EXCEPT ![p] = "done"] /\ crashes' = crashes + 1
    /\ UNCHANGED <<happened, mismatched, row, event, grants, receipts, mails, entitled, subscribable, handler>>

(* The customer tries to pay (external).                                   *)
Transact(e) ==
    /\ checkout[e[1]] # "none" /\ e \notin happened
    /\ Succeeds(e) \/ e[1] \in Failing
    /\ <<e[1], "payment.succeeded">> \notin happened
    /\ happened' = happened \cup {e}
    /\ mismatched' \in {mismatched, mismatched \cup {x \in {e} : x[1] \in Differing}}
    /\ UNCHANGED <<checkout, row, event, grants, receipts, mails, entitled, subscribable, handler, crashes>>

-----------------------------------------------------------------------------
(* applyVerifiedPaymentEvent.                                              *)

(* Mutant: an event that was received before is answered.                  *)
DeliverOnce(h, e) ==
    /\ At(h, "idle") /\ e \in happened /\ event[e] = "none"
    /\ event' = [event EXCEPT ![e] = "received"]
    /\ handler' = [handler EXCEPT ![h] = [step |-> "read", event |-> e]]
    /\ UNCHANGED <<checkout, happened, mismatched, row, grants, receipts, mails, entitled, subscribable, crashes>>

(* The insert of the BillingEvent; an event that was applied is answered,  *)
(* one that was only received is tried again.                              *)
Deliver(h, e) ==
    /\ At(h, "idle") /\ e \in happened /\ event[e] # "applied"
    /\ event' = [event EXCEPT ![e] = "received"]
    /\ handler' = [handler EXCEPT ![h] = [step |-> "read", event |-> e]]
    /\ UNCHANGED <<checkout, happened, mismatched, row, grants, receipts, mails, entitled, subscribable, crashes>>

(* Without a row it raises and the provider tries again; a payment that is *)
(* closed, by whatever event or by the sweep, is left alone; a report that *)
(* does not match the row (eventMatchesPending) raises each time.          *)
Read(h) ==
    LET e == handler[h].event IN
    /\ At(h, "read")
    /\ IF row[e[1]] = "none" \/ (row[e[1]] = "PENDING" /\ e \in mismatched) THEN Leave(h)
       ELSE Goto(h, IF row[e[1]] # "PENDING" THEN "finalize"
                    ELSE IF Succeeds(e) THEN "check" ELSE "close")
    /\ UNCHANGED <<checkout, happened, mismatched, row, event, grants, receipts, mails, entitled, subscribable, crashes>>

(* purchaseCredits and subscribe look at the plan again, before their      *)
(* transaction and on a repetition too, and raise when it was changed or   *)
(* taken off offer since the checkout.                                     *)
CheckEntitled(h) ==
    /\ At(h, "check")
    /\ IF Refused(handler[h].event[1]) THEN Leave(h) ELSE Goto(h, "grant")
    /\ UNCHANGED <<checkout, happened, mismatched, row, event, grants, receipts, mails, entitled, subscribable, crashes>>

(* Mutant: the grant is not keyed on the event.                            *)
GrantEach(h) ==
    LET e == handler[h].event IN
    /\ At(h, "grant")
    /\ grants' = [grants EXCEPT ![e] = @ + 1]
    /\ entitled' = (entitled \/ e[1] \notin Credits)
    /\ Goto(h, "receipt")
    /\ UNCHANGED <<checkout, happened, mismatched, row, event, receipts, mails, subscribable, crashes>>

(* Mutant: a grant that is already there is taken for the whole effect.    *)
GrantElsewhere(h) ==
    LET e == handler[h].event IN
    /\ At(h, "grant")
    /\ grants' = [grants EXCEPT ![e] = 1]
    /\ entitled' = (entitled \/ (e[1] \notin Credits /\ grants[e] = 0))
    /\ Goto(h, IF grants[e] = 1 THEN "close" ELSE "receipt")
    /\ UNCHANGED <<checkout, happened, mismatched, row, event, receipts, mails, subscribable, crashes>>

(* The transaction of subscribe or purchaseCredits: a second grant of the  *)
(* same event rolls all of it back and is taken for done.                  *)
Grant(h) ==
    LET e == handler[h].event IN
    /\ At(h, "grant")
    /\ grants' = [grants EXCEPT ![e] = 1]
    /\ entitled' = (entitled \/ (e[1] \notin Credits /\ grants[e] = 0))
    /\ Goto(h, "receipt")
    /\ UNCHANGED <<checkout, happened, mismatched, row, event, receipts, mails, subscribable, crashes>>

(* createReceiptForPaymentEvent: ON CONFLICT DO NOTHING.                   *)
WriteReceipt(h) ==
    /\ At(h, "receipt")
    /\ receipts' = receipts \cup {handler[h].event}
    /\ Goto(h, "close")
    /\ UNCHANGED <<checkout, happened, mismatched, row, event, grants, mails, entitled, subscribable, crashes>>

(* transitionPendingPayment: only from PENDING.                            *)
Closed(p, s) == row' = [row EXCEPT ![p] = IF @ = "PENDING" THEN s ELSE @]

(* Mutant: the type of the event is stored as the status.                  *)
CloseVerbatim(h) ==
    LET e == handler[h].event IN
    /\ At(h, "close")
    /\ Closed(e[1], e[2])
    /\ Goto(h, "finalize")
    /\ UNCHANGED <<checkout, happened, mismatched, event, grants, receipts, mails, entitled, subscribable, crashes>>

Close(h) ==
    LET e == handler[h].event IN
    /\ At(h, "close")
    /\ Closed(e[1], IF Succeeds(e) THEN "SUCCEEDED" ELSE "FAILED")
    /\ Goto(h, "finalize")
    /\ UNCHANGED <<checkout, happened, mismatched, event, grants, receipts, mails, entitled, subscribable, crashes>>

(* appliedAt is claimed by one delivery, which sends the mail.             *)
Finalize(h) ==
    LET e == handler[h].event IN
    /\ At(h, "finalize")
    /\ event' = [event EXCEPT ![e] = "applied"]
    /\ mails' = [mails EXCEPT ![e] = IF event[e] = "applied" THEN @ ELSE @ + 1]
    /\ Leave(h)
    /\ UNCHANGED <<checkout, happened, mismatched, row, grants, receipts, entitled, subscribable, crashes>>

HandlerDies(h) ==
    /\ ~At(h, "idle") /\ crashes < MaxCrashes
    /\ Leave(h) /\ crashes' = crashes + 1
    /\ UNCHANGED <<checkout, happened, mismatched, row, event, grants, receipts, mails, entitled, subscribable>>

-----------------------------------------------------------------------------
(* sweepExpiredPendingPayments: the candidates are read before they are    *)
(* moved, by the same conditional update.                                  *)
Expire(p) ==
    /\ row[p] = "PENDING"
    /\ Closed(p, "EXPIRED")
    /\ UNCHANGED <<checkout, happened, mismatched, event, grants, receipts, mails, entitled, subscribable, handler, crashes>>

(* The subscription lapses (external to this module).                      *)
Lapse ==
    /\ entitled /\ entitled' = FALSE
    /\ UNCHANGED <<checkout, happened, mismatched, row, event, grants, receipts, mails, subscribable, handler, crashes>>

(* An operator takes the plan off offer or puts it back.                   *)
UpdatePlan ==
    /\ subscribable' = ~subscribable
    /\ UNCHANGED <<checkout, happened, mismatched, row, event, grants, receipts, mails, entitled, handler, crashes>>

-----------------------------------------------------------------------------
Step(h) == Read(h) \/ CheckEntitled(h) \/ Grant(h) \/ WriteReceipt(h) \/ Close(h) \/ Finalize(h)

Next ==
    \/ \E p \in Payment : OpenCheckout(p) \/ CreatePendingPayment(p) \/ CheckoutDies(p) \/ Expire(p)
    \/ \E e \in Event : Transact(e) \/ \E h \in Handler : Deliver(h, e)
    \/ \E h \in Handler : Step(h) \/ HandlerDies(h)
    \/ Lapse \/ UpdatePlan

Spec == Init /\ [][Next]_vars

(* The provider repeats a webhook until it is answered; a request that     *)
(* does not die ends.                                                      *)
FairSpec ==
    /\ Spec
    /\ \A e \in Event : SF_vars(\E h \in Handler : Deliver(h, e))
    /\ \A h \in Handler : WF_vars(Step(h))

-----------------------------------------------------------------------------
(* Properties.                                                             *)

(* Every row and every request is in one of the states the code knows.     *)
TypeOK ==
    /\ checkout \in [Payment -> {"none", "open", "done"}]
    /\ happened \subseteq Event /\ mismatched \subseteq happened
    /\ receipts \subseteq Event
    /\ row \in [Payment -> RowStatus]
    /\ event \in [Event -> {"none", "received", "applied"}]
    /\ grants \in [Event -> Nat] /\ mails \in [Event -> Nat]
    /\ entitled \in BOOLEAN /\ subscribable \in BOOLEAN
    /\ handler \in [Handler -> [step : Steps, event : Event \cup {NoEvent}]]
    /\ crashes \in 0..MaxCrashes

(* However often a payment is reported, by webhook, redirect or retry, and *)
(* wherever a handler dies, it is granted and confirmed at most once, only *)
(* if it was paid, and never on a report that does not match its row.      *)
GrantedOnce ==
    \A e \in Event :
        /\ grants[e] <= 1 /\ mails[e] <= 1
        /\ grants[e] = 1 => Succeeds(e) /\ e \in happened /\ e \notin mismatched

(* A payment that is SUCCEEDED, the only one refundPayment refunds, has    *)
(* been paid, granted and given its receipt; one reported as applied was   *)
(* delivered or closed before as FAILED or EXPIRED.                        *)
SucceededIsDelivered ==
    \A p \in Payment :
        LET e == <<p, "payment.succeeded">> IN
        row[p] = "SUCCEEDED" \/ (event[e] = "applied" /\ row[p] \notin {"FAILED", "EXPIRED"})
            => e \in happened /\ grants[e] = 1 /\ e \in receipts

(* A payment that was made while its row is open is granted in the end,    *)
(* unless the row is closed first, or the plan no longer allows it or was  *)
(* taken off offer after the checkout.                                     *)
PaidIsGranted ==
    \A p \in Payment :
        LET e == <<p, "payment.succeeded">> IN
        e \in happened /\ row[p] = "PENDING" /\ e \notin mismatched
            ~> grants[e] = 1 \/ row[p] \in {"FAILED", "EXPIRED"} \/ Refused(p)

=============================================================================
