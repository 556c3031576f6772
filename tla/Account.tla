------------------------------ MODULE Account -------------------------------
(***************************************************************************)
(* What the credit ledger promises its callers: a balance, of credits that *)
(* may be spent now, that is never negative; charges that are taken whole  *)
(* or not at all; and for each charge at most one reversal, of at most     *)
(* what was charged, that reaches the balance in full: no credit of it is  *)
(* one the user cannot spend.  Lots, allocations, locks and retries are    *)
(* hidden.  Credits may expire between the moment a charge looks and the   *)
(* moment it takes: the charge may still take those, and no others.        *)
(***************************************************************************)
EXTENDS Integers

CONSTANT Id           \* identities a charge may have

VARIABLES
    balance,          \* credits the user may spend
    late,             \* credits expired since a charge under way looked
    charges           \* per charge, its amount and what was given back

avars == <<balance, late, charges>>

AInit == balance = 0 /\ late = 0 /\ charges = [d \in {} |-> 0]

Credit == balance' \in Nat /\ balance' > balance /\ UNCHANGED <<late, charges>>

(* Credits expire, and those no charge is after are gone.                  *)
Lapse ==
    \E x \in 0..balance :
        balance' = balance - x /\ late' \in 0..(late + x) /\ UNCHANGED charges

Charge(d) ==
    /\ d \notin DOMAIN charges
    /\ \E n \in 1..(balance + late), x \in 0..late :
         /\ x <= n /\ n - x <= balance
         /\ balance' = balance - (n - x) /\ late' \in 0..(late - x)
         /\ charges' = [e \in DOMAIN charges \cup {d} |->
                          IF e = d THEN [amount |-> n, refunded |-> 0]
                                   ELSE charges[e]]

Reverse(d) ==
    /\ d \in DOMAIN charges
    /\ charges[d].refunded = 0
    /\ \E n \in 1..charges[d].amount :
         /\ balance' = balance + n /\ UNCHANGED late
         /\ charges' = [charges EXCEPT ![d].refunded = n]

ANext == Credit \/ Lapse \/ \E d \in Id : Charge(d) \/ Reverse(d)

ASpec == AInit /\ [][ANext]_avars
=============================================================================
