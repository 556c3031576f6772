---------------------------- MODULE SafetyLeases ----------------------------
(***************************************************************************)
(* Admission leases, budgets and the kill switch (SPEC 008, F07) under one *)
(* authorization grant.  An execution is admitted under the request and    *)
(* concurrency budgets of its grant and holds a lease that it renews; a    *)
(* stop of the execution or of a wider scope refuses admission and         *)
(* renewal until it has been acknowledged and recorded; a sweep reclaims   *)
(* the leases of dead holders and finishes stranded stops.  The f07_*      *)
(* functions run READ COMMITTED: what one reads before its locks may be    *)
(* old when it writes, so admission and renewal are two steps each.        *)
(***************************************************************************)
EXTENDS Integers, FiniteSets

CONSTANTS
    Key,              \* idempotency keys of admission requests, one lease row each
    Execution,
    ExecOf,           \* the execution a key belongs to
    Wide,             \* the scope of the grant; SCAN, TARGET, TENANT and
                      \* PLATFORM cover the same executions in the same way
    RequestBudget,
    ConcurrencyBudget,
    MaxTriggers       \* bound: stops triggered

ASSUME LeasesAssumption ==
    /\ IsFiniteSet(Key) /\ ExecOf \in [Key -> Execution] /\ Wide \notin Execution
    /\ RequestBudget \in Nat /\ ConcurrencyBudget \in Nat /\ MaxTriggers \in Nat

VARIABLES
    lease,        \* AdmissionLease of each key, by the database clock
    consumed,     \* keys with a BudgetConsumption row
    requests,     \* BudgetCounter.consumedRequests
    active,       \* BudgetCounter.activeConcurrency
    stop,         \* KillSwitchState.state of each scope
    valid,        \* the grant is neither revoked nor expired
    permitted,    \* the target's environment is one the grant allows
    caller,       \* the process that works with a key
    triggers

vars == <<lease, consumed, requests, active, stop, valid, permitted, caller, triggers>>

budget == <<lease, consumed, requests, active>>
grant == <<stop, valid, permitted, triggers>>

-----------------------------------------------------------------------------
Scope == Execution \cup {Wide}
LeaseState == {"none", "live", "expired", "released", "reclaimed"}
StopState == {"none", "REQUESTED", "ACKNOWLEDGED", "STOPPED"}
Steps == {"idle", "admitting", "holding", "renewing", "stopping"}

(* A lease holds its slot until it is released or reclaimed, expired or    *)
(* not.                                                                    *)
Holds == {"live", "expired"}
Held == {k \in Key : lease[k] \in Holds}
HeldAfter == {k \in Key : lease'[k] \in Holds}

Covers(s, k) == s \in {Wide, ExecOf[k]}
IsPending(s) == stop[s] \in {"REQUESTED", "ACKNOWLEDGED"}

(* f07_stop_pending: a stop of the execution itself refuses it for good.   *)
StopPending(k) ==
    \/ \E s \in Scope : Covers(s, k) /\ IsPending(s)
    \/ stop[ExecOf[k]] = "STOPPED"

(* f07_scope_has_live_execution                                            *)
HasLive(s) == \E k \in Key : Covers(s, k) /\ lease[k] = "live"

Goto(k, step) == caller' = [caller EXCEPT ![k] = step]

(* What a request consumes: a request, a slot, or both.                    *)
Consumptions == SUBSET {"request", "concurrency"} \ {{}}

-----------------------------------------------------------------------------
Init ==
    /\ lease = [k \in Key |-> "none"]
    /\ consumed = {} /\ requests = 0 /\ active = 0
    /\ stop = [s \in Scope |-> "none"]
    /\ valid = TRUE /\ permitted = TRUE
    /\ caller = [k \in Key |-> "idle"]
    /\ triggers = 0

-----------------------------------------------------------------------------
(* Admission.                                                              *)

(* requestAdmission up to the locks of f07_admit: an early look at the     *)
(* stops, the authorization and the grant's row.                           *)
BeginAdmit(k) ==
    /\ caller[k] = "idle"
    /\ ~StopPending(k) /\ valid /\ permitted
    /\ Goto(k, "admitting")
    /\ UNCHANGED <<budget, grant>>

(* The rows the granted request writes, under the lock of the counter.     *)
Granted(k, what) ==
    /\ consumed' = IF "request" \in what THEN consumed \cup {k} ELSE consumed
    /\ requests' = IF "request" \in what THEN requests + 1 ELSE requests
    /\ lease' = IF "concurrency" \in what THEN [lease EXCEPT ![k] = "live"] ELSE lease
    /\ active' = IF "concurrency" \in what THEN active + 1 ELSE active
    /\ Goto(k, IF "concurrency" \in what THEN "holding" ELSE "idle")

(* The rest of f07_admit, under the shared locks of every scope: the stops *)
(* and the environment are read again, the grant is not.  A key that has   *)
(* been answered is answered the same, with its lease as it is now.        *)
Replay(k) == k \in consumed \/ lease[k] # "none"

Leased(k) == \E j \in Key \ {k} : ExecOf[j] = ExecOf[k] /\ lease[j] = "live"

Fits(k, what) ==
    /\ "concurrency" \in what => ~Leased(k) /\ active + 1 <= ConcurrencyBudget
    /\ "request" \in what => requests + 1 <= RequestBudget

(* Mutant: the stops that were read before the locks decide.               *)
AdmitTrusting(k) ==
    /\ caller[k] = "admitting"
    /\ \E what \in Consumptions :
         IF Replay(k) \/ ~Fits(k, what)
         THEN Goto(k, IF lease[k] # "none" THEN "holding" ELSE "idle") /\ UNCHANGED budget
         ELSE Granted(k, what)
    /\ UNCHANGED grant

Admit(k) ==
    /\ caller[k] = "admitting"
    /\ \/ /\ StopPending(k) \/ ~permitted
          /\ Goto(k, "idle") /\ UNCHANGED budget
       \/ /\ ~StopPending(k) /\ permitted /\ Replay(k)
          /\ Goto(k, IF lease[k] # "none" THEN "holding" ELSE "idle")
          /\ UNCHANGED budget
       \/ /\ ~StopPending(k) /\ permitted /\ ~Replay(k)
          /\ \E what \in Consumptions :
               IF Fits(k, what) THEN Granted(k, what)
               ELSE Goto(k, "idle") /\ UNCHANGED budget
    /\ UNCHANGED grant

-----------------------------------------------------------------------------
(* The holder: it renews at every checkpoint and tick of its loop.         *)

(* Mutant: renewal does not look at the stops.                             *)
BeginRenewBlind(k) ==
    /\ caller[k] = "holding"
    /\ \/ lease[k] # "live" /\ Goto(k, "stopping")
       \/ lease[k] = "live" /\ Goto(k, "renewing")
    /\ UNCHANGED <<budget, grant>>

(* f07_renew_lease reads the clock, the stops and the grant, without a     *)
(* lock; an answer it cannot get counts as a stop.                         *)
BeginRenew(k) ==
    /\ caller[k] = "holding"
    /\ \/ Goto(k, "stopping")
       \/ ~StopPending(k) /\ valid /\ lease[k] = "live" /\ Goto(k, "renewing")
    /\ UNCHANGED <<budget, grant>>

(* Mutant: the update does not look at reclaimedAt and releasedAt.         *)
FinishRenewUnfenced(k) ==
    /\ caller[k] = "renewing"
    /\ lease' = [lease EXCEPT ![k] = "live"] /\ Goto(k, "holding")
    /\ UNCHANGED <<consumed, requests, active, grant>>

(* Its update compares the expiry with the clock it read first: a lease    *)
(* that has expired since is renewed, one that has ended is FENCED.        *)
FinishRenew(k) ==
    /\ caller[k] = "renewing"
    /\ IF lease[k] \in Holds
       THEN lease' = [lease EXCEPT ![k] = "live"] /\ Goto(k, "holding")
       ELSE UNCHANGED lease /\ Goto(k, "stopping")
    /\ UNCHANGED <<consumed, requests, active, grant>>

(* Mutant: a release that finds its lease ended frees the slot again.      *)
ReleaseAgain(k) ==
    /\ caller[k] \in {"holding", "stopping"}
    /\ lease' = [lease EXCEPT ![k] = IF @ \in Holds THEN "released" ELSE @]
    /\ active' = active - 1
    /\ Goto(k, "idle")
    /\ UNCHANGED <<consumed, requests, grant>>

(* f07_release_lease_by_token: a second release changes nothing.           *)
Release(k) ==
    /\ caller[k] \in {"holding", "stopping"}
    /\ lease' = [lease EXCEPT ![k] = IF @ \in Holds THEN "released" ELSE @]
    /\ active' = IF lease[k] \in Holds THEN active - 1 ELSE active
    /\ Goto(k, "idle")
    /\ UNCHANGED <<consumed, requests, grant>>

(* A holder dies; its lease stays.                                         *)
HolderDies(k) ==
    /\ caller[k] # "idle"
    /\ Goto(k, "idle")
    /\ UNCHANGED <<budget, grant>>

(* f07_ack_stop: a holder that has ceased acknowledges the stop it saw.    *)
Acknowledge(s) ==
    /\ \E k \in Key : caller[k] = "stopping" /\ Covers(s, k)
    /\ stop[s] = "REQUESTED"
    /\ stop' = [stop EXCEPT ![s] = "ACKNOWLEDGED"]
    /\ UNCHANGED <<budget, valid, permitted, triggers, caller>>

(* The finalizer (ExecutionUnits): it releases every lease of the unit by  *)
(* authority and acknowledges the unit's own stop, in one transaction.     *)
Finalize(e) ==
    LET Mine == {k \in Held : ExecOf[k] = e} IN
    /\ lease' = [k \in Key |-> IF k \in Mine THEN "released" ELSE lease[k]]
    /\ active' = active - Cardinality(Mine)
    /\ stop' = [stop EXCEPT ![e] = IF @ = "REQUESTED" THEN "ACKNOWLEDGED" ELSE @]
    /\ UNCHANGED <<consumed, requests, valid, permitted, triggers, caller>>

-----------------------------------------------------------------------------
(* The safety sweep; a row somebody has locked is skipped.                 *)

(* Mutant: each reclaimed lease is taken off the counter, and so is one    *)
(* that its holder has released meanwhile.                                 *)
ReclaimTwice ==
    \E S \in SUBSET {k \in Key : lease[k] \in {"expired", "released"}} \ {{}} :
        /\ lease' = [k \in Key |-> IF k \in S THEN "reclaimed" ELSE lease[k]]
        /\ active' = active - Cardinality(S)
        /\ UNCHANGED <<consumed, requests, grant, caller>>

(* f07_reclaim_expired_leases: leases that had expired when it began; the  *)
(* counter is computed anew from the rows.                                 *)
Reclaim ==
    \E S \in SUBSET {k \in Key : lease[k] = "expired"} \ {{}} :
        /\ lease' = [k \in Key |-> IF k \in S THEN "reclaimed" ELSE lease[k]]
        /\ active' = Cardinality(HeldAfter)
        /\ UNCHANGED <<consumed, requests, grant, caller>>

(* f07_reconcile_stranded_stops, and f07_record_stopped for its second     *)
(* edge: one edge at a time, and only when no lease in scope is live.      *)
Reconcile(s) ==
    /\ IsPending(s) /\ ~HasLive(s)
    /\ stop' = [stop EXCEPT ![s] = IF @ = "REQUESTED" THEN "ACKNOWLEDGED" ELSE "STOPPED"]
    /\ UNCHANGED <<budget, valid, permitted, triggers, caller>>

-----------------------------------------------------------------------------
(* Stops and the grant.                                                    *)

(* f07_trigger_stop: a pending stop is left alone, a finished one starts   *)
(* again.                                                                  *)
Triggered(s) ==
    /\ triggers < MaxTriggers
    /\ stop' = [stop EXCEPT ![s] = IF IsPending(s) THEN @ ELSE "REQUESTED"]
    /\ triggers' = triggers + 1

TriggerStop(s) ==
    /\ Triggered(s)
    /\ UNCHANGED <<budget, valid, permitted, caller>>

(* revokeAuthorization: the revocation and its stop are one transaction.   *)
Revoke ==
    /\ valid /\ valid' = FALSE
    /\ Triggered(Wide)
    /\ UNCHANGED <<budget, permitted, caller>>

(* classifyEnvironment: stops the grant it no longer permits; a later      *)
(* reclassification back cancels nothing.                                  *)
Reclassify ==
    /\ permitted' = ~permitted
    /\ IF permitted /\ valid THEN Triggered(Wide)
       ELSE triggers < MaxTriggers /\ triggers' = triggers + 1 /\ UNCHANGED stop
    /\ UNCHANGED <<budget, valid, caller>>

(* Time passes: the grant expires, without a stop; a lease expires.        *)
GrantExpires ==
    /\ valid /\ valid' = FALSE
    /\ UNCHANGED <<budget, stop, permitted, triggers, caller>>

LeaseExpires(k) ==
    /\ lease[k] = "live"
    /\ lease' = [lease EXCEPT ![k] = "expired"]
    /\ UNCHANGED <<consumed, requests, active, grant, caller>>

-----------------------------------------------------------------------------
Next ==
    \/ \E k \in Key : \/ BeginAdmit(k) \/ Admit(k) \/ BeginRenew(k) \/ FinishRenew(k)
                      \/ Release(k) \/ HolderDies(k) \/ LeaseExpires(k)
    \/ \E s \in Scope : Acknowledge(s) \/ Reconcile(s) \/ TriggerStop(s)
    \/ \E e \in Execution : Finalize(e)
    \/ Reclaim \/ Revoke \/ Reclassify \/ GrantExpires

Spec == Init /\ [][Next]_vars

(* A lease that nobody renews expires.                                     *)
Unrenewed(k) == caller[k] \notin {"holding", "renewing"} /\ LeaseExpires(k)

(* A holder that lives comes to its next checkpoint; the sweep is a        *)
(* repeatable job.                                                         *)
FairSpec ==
    /\ Spec
    /\ \A k \in Key : /\ WF_vars(BeginRenew(k)) /\ WF_vars(FinishRenew(k))
                      /\ WF_vars(Unrenewed(k))
    /\ \A s \in Scope : WF_vars(Reconcile(s))
    /\ WF_vars(Reclaim)

-----------------------------------------------------------------------------
(* Properties.                                                             *)

(* Every row and every process is in one of the states the code knows.     *)
TypeOK ==
    /\ lease \in [Key -> LeaseState]
    /\ consumed \subseteq Key /\ requests \in Nat /\ active \in Nat
    /\ stop \in [Scope -> StopState]
    /\ valid \in BOOLEAN /\ permitted \in BOOLEAN
    /\ caller \in [Key -> Steps] /\ triggers \in 0..MaxTriggers

(* The counters are exact and within the budgets of the grant, whatever    *)
(* releases, finalizations and sweeps race for the same lease.             *)
BudgetsHold ==
    /\ active = Cardinality(Held) /\ active <= ConcurrencyBudget
    /\ requests = Cardinality(consumed) /\ requests <= RequestBudget

(* FR-015: no lease is created while a stop that covers it is pending, or  *)
(* for an execution that was stopped, although the caller's own look at    *)
(* the stops was earlier.                                                  *)
NoLeaseUnderStop ==
    [][\A k \in Key : lease[k] = "none" /\ StopPending(k) => lease'[k] = "none"]_vars

(* A lease that was released or reclaimed never holds a slot again: its    *)
(* holder, however late, is fenced.                                        *)
EndedLeaseStaysEnded ==
    [][\A k \in Key : lease[k] \in {"released", "reclaimed"} => lease'[k] = lease[k]]_vars

(* Every stop that is requested is recorded STOPPED in the end, whether    *)
(* its holders acknowledge it, die, or hold on to their leases.            *)
StopCompletes ==
    \A s \in Scope : stop[s] = "REQUESTED" ~> stop[s] = "STOPPED"

=============================================================================
