------------------------- MODULE SafetyLeasesProofs -------------------------
(***************************************************************************)
(* Theorems about SafetyLeases, for any finite set of requests and any     *)
(* budgets: the counters of a grant are exact although releases,           *)
(* finalizations and the reclaiming sweep race for the same leases, no     *)
(* lease begins under a stop, and none that has ended comes back.          *)
(***************************************************************************)
EXTENDS SafetyLeases, FiniteSetTheorems, TLAPS

IInv == TypeOK /\ BudgetsHold

(* Sets of requests are finite, and their sizes are naturals.              *)
LEMMA RequestSets ==
    ASSUME NEW S \in SUBSET Key
    PROVE  IsFiniteSet(S) /\ Cardinality(S) \in Nat
BY LeasesAssumption, FS_Subset, FS_CardinalityType

(* One lease more, or one less, is one slot more or less.                  *)
LEMMA SlotTaken ==
    ASSUME NEW S \in SUBSET Key, NEW k \in Key, k \notin S
    PROVE  Cardinality(S \cup {k}) = Cardinality(S) + 1
BY RequestSets, FS_AddElement

(* Taking some leases away frees as many slots.                            *)
LEMMA SlotsFreed ==
    ASSUME NEW S \in SUBSET Key, NEW T \in SUBSET S
    PROVE  Cardinality(S \ T) = Cardinality(S) - Cardinality(T)
<1>1. IsFiniteSet(S) /\ IsFiniteSet(T) /\ S \cap T = T
  BY RequestSets
<1> QED BY <1>1, FS_Difference

(* A grant without leases satisfies the invariant.                         *)
LEMMA InitStep == Init => IInv
<1> SUFFICES ASSUME Init PROVE IInv
  OBVIOUS
<1>1. TypeOK
  BY LeasesAssumption DEF Init, TypeOK, LeaseState, StopState, Steps
<1>2. Held = {} /\ consumed = {}
  BY DEF Init, Held, Holds
<1> QED BY <1>1, <1>2, FS_EmptySet, LeasesAssumption DEF Init, IInv, BudgetsHold

-----------------------------------------------------------------------------
(* A step that leaves the counters and the slots alone keeps the books.    *)
LEMMA BooksUntouched ==
    ASSUME BudgetsHold, Held' = Held, UNCHANGED <<consumed, requests, active>>
    PROVE  BudgetsHold'
BY DEF BudgetsHold

(* f07_admit: a granted request takes its slot and its request from the    *)
(* budgets it has compared under the lock of the counter.                  *)
LEMMA AdmitStep ==
    ASSUME IInv, NEW k \in Key, Admit(k)
    PROVE  IInv'
<1> USE DEF IInv
<1>1. CASE UNCHANGED budget
  <2>1. TypeOK'
    BY <1>1 DEF TypeOK, Admit, Granted, Goto, budget, grant, Steps
  <2>2. Held' = Held
    BY <1>1 DEF Held, budget
  <2> QED BY <1>1, <2>1, <2>2, BooksUntouched DEF budget
<1>2. CASE ~ UNCHANGED budget
  <2>1. PICK what \in Consumptions :
          ~Replay(k) /\ Fits(k, what) /\ Granted(k, what) /\ UNCHANGED grant
    BY <1>2 DEF Admit
  <2>2. k \notin consumed /\ lease[k] = "none"
    BY <2>1 DEF Replay
  <2>3. TypeOK'
    BY <2>1 DEF TypeOK, Granted, Goto, grant, Steps, LeaseState
  <2>4. active' = Cardinality(Held') /\ active' <= ConcurrencyBudget
    <3>1. CASE "concurrency" \in what
      <4>1. Held' = Held \cup {k} /\ k \notin Held /\ Held \in SUBSET Key
        BY <2>1, <2>2, <3>1 DEF Granted, Held, Holds, TypeOK
      <4>2. Cardinality(Held') = Cardinality(Held) + 1
        BY <4>1, SlotTaken
      <4> QED BY <2>1, <3>1, <4>2 DEF Granted, Fits, BudgetsHold
    <3>2. CASE "concurrency" \notin what
      BY <2>1, <3>2 DEF Granted, BudgetsHold, Held
    <3> QED BY <3>1, <3>2
  <2>5. requests' = Cardinality(consumed') /\ requests' <= RequestBudget
    <3>1. CASE "request" \in what
      <4>1. Cardinality(consumed \cup {k}) = Cardinality(consumed) + 1
        BY <2>2, SlotTaken DEF TypeOK
      <4> QED BY <2>1, <3>1, <4>1 DEF Granted, Fits, BudgetsHold
    <3>2. CASE "request" \notin what
      BY <2>1, <3>2 DEF Granted, BudgetsHold
    <3> QED BY <3>1, <3>2
  <2> QED BY <2>3, <2>4, <2>5 DEF BudgetsHold
<1> QED BY <1>1, <1>2

(* Slots are freed as many as the counter goes down: by a holder's release,*)
(* by the finalizer for all leases of its unit, by the sweep.              *)
LEMMA FreeStep ==
    ASSUME IInv, TypeOK', NEW T \in SUBSET Held, Held' = Held \ T,
           active' = active - Cardinality(T), UNCHANGED <<consumed, requests>>
    PROVE  BudgetsHold'
<1>1. Held \in SUBSET Key /\ T \in SUBSET Key
  BY DEF Held
<1>2. Cardinality(Held') = Cardinality(Held) - Cardinality(T)
  BY <1>1, SlotsFreed
<1> QED BY <1>1, <1>2, RequestSets, LeasesAssumption DEF IInv, BudgetsHold, TypeOK

(* A release gives one slot back, and only for a lease that held one.      *)
LEMMA ReleaseStep ==
    ASSUME IInv, NEW k \in Key, Release(k)
    PROVE  IInv'
<1> DEFINE T == Held \cap {k}
<1>1. Held' = Held \ T
  BY DEF Release, Held, Holds, IInv, TypeOK
<1>2. Cardinality(T) = IF lease[k] \in Holds THEN 1 ELSE 0
  <2>1. T = IF lease[k] \in Holds THEN {k} ELSE {}
    BY DEF Held
  <2> QED BY <2>1, FS_EmptySet, FS_Singleton
<1>3. active \in Nat /\ active' = active - Cardinality(T)
  BY <1>2 DEF Release, IInv, TypeOK
<1>4. Cardinality(T) <= active
  <2>1. Held \in SUBSET Key /\ T \in SUBSET Held
    BY DEF Held
  <2> QED BY <2>1, RequestSets, FS_Subset DEF IInv, BudgetsHold
<1>5. TypeOK'
  <2>1. Cardinality(T) \in Nat
    BY <1>2
  <2>2. active' \in Nat
    BY <1>3, <1>4, <2>1
  <2> QED BY <2>2 DEF Release, Goto, grant, IInv, TypeOK, Steps, LeaseState
<1> QED BY <1>1, <1>3, <1>5, FreeStep DEF Release, IInv

(* A finalization gives back the slots its execution's leases held.        *)
LEMMA FinalizeStep ==
    ASSUME IInv, NEW e \in Execution, Finalize(e)
    PROVE  IInv'
<1> DEFINE T == {k \in Held : ExecOf[k] = e}
<1>1. Held' = Held \ T
  BY DEF Finalize, Held, Holds
<1>2. Held \in SUBSET Key /\ T \in SUBSET Held /\ T \in SUBSET Key
  BY DEF Held
<1>3. active' = active - Cardinality(T)
  BY DEF Finalize
<1>4. active' \in Nat
  BY <1>2, <1>3, RequestSets, FS_Subset DEF IInv, BudgetsHold
<1>5. TypeOK'
  <2>1. lease' \in [Key -> LeaseState]
    BY DEF Finalize, IInv, TypeOK, LeaseState
  <2>2. stop' \in [Scope -> StopState]
    BY DEF Finalize, IInv, TypeOK, StopState, Scope
  <2> QED BY <1>4, <2>1, <2>2 DEF Finalize, IInv, TypeOK
<1> QED BY <1>1, <1>2, <1>3, <1>5, FreeStep DEF Finalize, IInv

(* f07_reclaim_expired_leases computes the counter anew from the rows.     *)
LEMMA ReclaimStep ==
    ASSUME IInv, Reclaim
    PROVE  IInv'
<1>1. PICK S \in SUBSET {k \in Key : lease[k] = "expired"} \ {{}} :
        /\ lease' = [k \in Key |-> IF k \in S THEN "reclaimed" ELSE lease[k]]
        /\ active' = Cardinality(HeldAfter)
        /\ UNCHANGED <<consumed, requests, grant, caller>>
  BY DEF Reclaim
<1>2. HeldAfter = Held' /\ Held' \subseteq Held /\ Held \in SUBSET Key
  BY <1>1 DEF HeldAfter, Held, Holds
<1>3. active' \in Nat /\ active' <= active
  BY <1>1, <1>2, RequestSets, FS_Subset DEF IInv, BudgetsHold
<1>4. TypeOK'
  BY <1>1, <1>3 DEF IInv, TypeOK, LeaseState, grant
<1> QED BY <1>1, <1>2, <1>3, <1>4, LeasesAssumption DEF IInv, BudgetsHold, TypeOK

(* The other steps move no slot: a lease that expires keeps its own, and a *)
(* renewal finds it still held or changes nothing.                         *)
LEMMA OthersStep ==
    ASSUME IInv,
           \/ \E k \in Key : \/ BeginAdmit(k) \/ BeginRenew(k) \/ FinishRenew(k)
                             \/ HolderDies(k) \/ LeaseExpires(k)
           \/ \E s \in Scope : Acknowledge(s) \/ Reconcile(s) \/ TriggerStop(s)
           \/ Revoke \/ Reclassify \/ GrantExpires
           \/ UNCHANGED vars
    PROVE  IInv'
<1> USE LeasesAssumption DEF IInv
<1>1. TypeOK'
  <2> USE DEF TypeOK, LeaseState, StopState, Steps, Scope, budget, grant, Goto
  <2>1. ASSUME NEW k \in Key, BeginAdmit(k) \/ BeginRenew(k) \/ HolderDies(k) PROVE TypeOK'
    BY <2>1 DEF BeginAdmit, BeginRenew, HolderDies
  <2>2. ASSUME NEW k \in Key, FinishRenew(k) \/ LeaseExpires(k) PROVE TypeOK'
    BY <2>2 DEF FinishRenew, LeaseExpires
  <2>3. ASSUME NEW s \in Scope, Acknowledge(s) \/ Reconcile(s) \/ TriggerStop(s) PROVE TypeOK'
    BY <2>3 DEF Acknowledge, Reconcile, TriggerStop, Triggered
  <2>4. CASE Revoke
    <3>1. stop' \in [Scope -> StopState] /\ triggers' \in 0..MaxTriggers
      BY <2>4 DEF Revoke, Triggered
    <3> QED BY <2>4, <3>1 DEF Revoke
  <2>5. CASE Reclassify
    <3>1. stop' \in [Scope -> StopState] /\ triggers' \in 0..MaxTriggers
      BY <2>5 DEF Reclassify, Triggered
    <3>2. permitted' \in BOOLEAN
      BY <2>5, Zenon DEF Reclassify
    <3> QED BY <2>5, <3>1, <3>2 DEF Reclassify
  <2>6. CASE GrantExpires
    BY <2>6 DEF GrantExpires
  <2>7. CASE UNCHANGED vars
    BY <2>7 DEF vars
  <2> QED BY <2>1, <2>2, <2>3, <2>4, <2>5, <2>6, <2>7
<1>2. Held' = Held /\ UNCHANGED <<consumed, requests, active>>
  BY DEF BeginAdmit, BeginRenew, FinishRenew, HolderDies, LeaseExpires, Acknowledge, Reconcile,
         TriggerStop, Revoke, Reclassify, GrantExpires, vars, budget, Held, Holds, TypeOK
<1> QED BY <1>1, <1>2, BooksUntouched

(* The invariant holds in every state.                                     *)
LEMMA Invariant == Spec => []IInv
<1>1. IInv /\ [Next]_vars => IInv'
  BY AdmitStep, ReleaseStep, FinalizeStep, ReclaimStep, OthersStep DEF Next
<1> QED BY InitStep, <1>1, PTL DEF Spec

-----------------------------------------------------------------------------
(* Every row and every process keeps to its states; the counters, which    *)
(* releases and finalizations decrement, never become negative.            *)
THEOREM TypeCorrect == Spec => []TypeOK
<1>1. IInv => TypeOK BY DEF IInv
<1> QED BY Invariant, <1>1, PTL

(* The counters of a grant are the number of the leases that are held and  *)
(* of the requests that were consumed, and within its budgets, whatever    *)
(* releases, finalizations and sweeps race for the same lease.             *)
THEOREM BudgetsRespected == Spec => []BudgetsHold
<1>1. IInv => BudgetsHold BY DEF IInv
<1> QED BY Invariant, <1>1, PTL

(* No lease is created while a stop that covers it is pending: f07_admit   *)
(* reads the stops again under its locks.                                  *)
THEOREM StopRefusesLeases == Spec => NoLeaseUnderStop
<1>1. TypeOK /\ [Next]_vars
        => [\A k \in Key : lease[k] = "none" /\ StopPending(k) => lease'[k] = "none"]_vars
  <2> SUFFICES ASSUME TypeOK, Next, NEW k \in Key, lease[k] = "none", StopPending(k)
               PROVE  lease'[k] = "none"
    OBVIOUS
  <2> USE DEF TypeOK, budget
  <2>1. ASSUME NEW j \in Key, Admit(j) PROVE lease'[k] = "none"
    <3>1. CASE j = k
      BY <2>1, <3>1 DEF Admit
    <3>2. CASE j # k
      BY <2>1, <3>2 DEF Admit, Granted
    <3> QED BY <3>1, <3>2
  <2>2. ASSUME NEW j \in Key, BeginAdmit(j) \/ BeginRenew(j) \/ HolderDies(j)
        PROVE  lease'[k] = "none"
    BY <2>2 DEF BeginAdmit, BeginRenew, HolderDies
  <2>3. ASSUME NEW j \in Key, FinishRenew(j) \/ Release(j) \/ LeaseExpires(j)
        PROVE  lease'[k] = "none"
    BY <2>3 DEF FinishRenew, Release, LeaseExpires, Holds
  <2>4. ASSUME NEW s \in Scope, Acknowledge(s) \/ Reconcile(s) \/ TriggerStop(s)
        PROVE  lease'[k] = "none"
    BY <2>4 DEF Acknowledge, Reconcile, TriggerStop
  <2>5. ASSUME NEW e \in Execution, Finalize(e) PROVE lease'[k] = "none"
    BY <2>5 DEF Finalize, Held, Holds
  <2>6. CASE Reclaim \/ Revoke \/ Reclassify \/ GrantExpires
    BY <2>6 DEF Reclaim, Revoke, Reclassify, GrantExpires
  <2> QED BY <2>1, <2>2, <2>3, <2>4, <2>5, <2>6 DEF Next
<1> QED BY TypeCorrect, <1>1, PTL DEF Spec, NoLeaseUnderStop

(* A lease that was released or reclaimed stays so: a holder that renews   *)
(* or releases it later, and a second admission of its key, are fenced.    *)
THEOREM EndedLeaseIsFinal == Spec => EndedLeaseStaysEnded
<1>1. TypeOK /\ [Next]_vars
        => [\A k \in Key : lease[k] \in {"released", "reclaimed"} => lease'[k] = lease[k]]_vars
  <2> SUFFICES ASSUME TypeOK, Next, NEW k \in Key, lease[k] \in {"released", "reclaimed"}
               PROVE  lease'[k] = lease[k]
    OBVIOUS
  <2> USE DEF TypeOK, budget
  <2>1. ASSUME NEW j \in Key, Admit(j) PROVE lease'[k] = lease[k]
    BY <2>1 DEF Admit, Granted, Replay
  <2>2. ASSUME NEW j \in Key, BeginAdmit(j) \/ BeginRenew(j) \/ HolderDies(j)
        PROVE  lease'[k] = lease[k]
    BY <2>2 DEF BeginAdmit, BeginRenew, HolderDies
  <2>3. ASSUME NEW j \in Key, FinishRenew(j) \/ Release(j) \/ LeaseExpires(j)
        PROVE  lease'[k] = lease[k]
    BY <2>3 DEF FinishRenew, Release, LeaseExpires, Holds
  <2>4. ASSUME NEW s \in Scope, Acknowledge(s) \/ Reconcile(s) \/ TriggerStop(s)
        PROVE  lease'[k] = lease[k]
    BY <2>4 DEF Acknowledge, Reconcile, TriggerStop
  <2>5. ASSUME NEW e \in Execution, Finalize(e) PROVE lease'[k] = lease[k]
    BY <2>5 DEF Finalize, Held, Holds
  <2>6. CASE Reclaim \/ Revoke \/ Reclassify \/ GrantExpires
    BY <2>6 DEF Reclaim, Revoke, Reclassify, GrantExpires
  <2> QED BY <2>1, <2>2, <2>3, <2>4, <2>5, <2>6 DEF Next
<1> QED BY TypeCorrect, <1>1, PTL DEF Spec, EndedLeaseStaysEnded

-----------------------------------------------------------------------------
(* What the completion of every stop rests on.                             *)

(* A pending stop winds its scope down.  It only goes on to the next state *)
(* of the ladder, to STOPPED only while no lease in its scope is live.     *)
(* Under it no renewal begins, and a lease that is not live becomes live   *)
(* at most once, by a renewal that had read the stops before the stop was  *)
(* committed, and that is then over.                                       *)
WindsDown ==
    \A s \in Scope : IsPending(s) =>
       /\ \/ stop'[s] = stop[s]
          \/ stop[s] = "REQUESTED" /\ stop'[s] = "ACKNOWLEDGED"
          \/ stop[s] = "ACKNOWLEDGED" /\ stop'[s] = "STOPPED" /\ ~HasLive(s)
       /\ \A k \in Key : Covers(s, k) =>
            /\ caller'[k] = "renewing" => caller[k] = "renewing"
            /\ lease'[k] = "live" /\ lease[k] # "live" =>
                 caller[k] = "renewing" /\ caller'[k] # "renewing"

(* The stop's own row, whoever writes it.                                  *)
LEMMA StopLadder ==
    ASSUME TypeOK, Next, NEW s \in Scope, IsPending(s)
    PROVE  \/ stop'[s] = stop[s]
           \/ stop[s] = "REQUESTED" /\ stop'[s] = "ACKNOWLEDGED"
           \/ stop[s] = "ACKNOWLEDGED" /\ stop'[s] = "STOPPED" /\ ~HasLive(s)
<1> USE DEF TypeOK, IsPending
<1>1. ASSUME NEW j \in Key, \/ BeginAdmit(j) \/ Admit(j) \/ BeginRenew(j) \/ FinishRenew(j)
                            \/ Release(j) \/ HolderDies(j) \/ LeaseExpires(j)
      PROVE  stop'[s] = stop[s]
  BY <1>1 DEF BeginAdmit, Admit, BeginRenew, FinishRenew, Release, HolderDies, LeaseExpires, grant
<1>2. ASSUME NEW r \in Scope, Acknowledge(r)
      PROVE  stop'[s] = stop[s] \/ (stop[s] = "REQUESTED" /\ stop'[s] = "ACKNOWLEDGED")
  BY <1>2 DEF Acknowledge
<1>3. ASSUME NEW r \in Scope, Reconcile(r)
      PROVE  \/ stop'[s] = stop[s]
             \/ stop[s] = "REQUESTED" /\ stop'[s] = "ACKNOWLEDGED"
             \/ stop[s] = "ACKNOWLEDGED" /\ stop'[s] = "STOPPED" /\ ~HasLive(s)
  <2>1. CASE r = s
    BY <1>3, <2>1 DEF Reconcile
  <2>2. CASE r # s
    BY <1>3, <2>2 DEF Reconcile
  <2> QED BY <2>1, <2>2
<1>4. ASSUME NEW r \in Scope, Triggered(r) PROVE stop'[s] = stop[s]
  BY <1>4 DEF Triggered
<1>5. ASSUME NEW e \in Execution, Finalize(e)
      PROVE  stop'[s] = stop[s] \/ (stop[s] = "REQUESTED" /\ stop'[s] = "ACKNOWLEDGED")
  BY <1>5 DEF Finalize
<1>6. CASE Reclaim \/ Revoke \/ Reclassify \/ GrantExpires
  <2>1. Wide \in Scope
    BY DEF Scope
  <2> QED BY <1>4, <1>6, <2>1 DEF Reclaim, Revoke, Reclassify, GrantExpires, grant
<1>7. ASSUME NEW r \in Scope, TriggerStop(r) PROVE stop'[s] = stop[s]
  BY <1>4, <1>7 DEF TriggerStop
<1> QED BY <1>1, <1>2, <1>3, <1>5, <1>6, <1>7 DEF Next

(* The leases in its scope.                                                *)
LEMMA StoppedRenewals ==
    ASSUME TypeOK, Next, NEW k \in Key, StopPending(k)
    PROVE  /\ caller'[k] = "renewing" => caller[k] = "renewing"
           /\ lease'[k] = "live" /\ lease[k] # "live" =>
                caller[k] = "renewing" /\ caller'[k] # "renewing"
<1> DEFINE Goal == /\ caller'[k] = "renewing" => caller[k] = "renewing"
                   /\ lease'[k] = "live" /\ lease[k] # "live" =>
                        caller[k] = "renewing" /\ caller'[k] # "renewing"
<1> USE DEF TypeOK, budget, Goto
<1>1. ASSUME NEW j \in Key, Admit(j) PROVE Goal
  <2>1. CASE j = k
    BY <1>1, <2>1 DEF Admit
  <2>2. CASE j # k
    BY <1>1, <2>2 DEF Admit, Granted
  <2> QED BY <2>1, <2>2
<1>2. ASSUME NEW j \in Key, BeginRenew(j) PROVE Goal
  BY <1>2 DEF BeginRenew
<1>3. ASSUME NEW j \in Key, FinishRenew(j) PROVE Goal
  BY <1>3 DEF FinishRenew
<1>4. ASSUME NEW j \in Key, BeginAdmit(j) \/ HolderDies(j) PROVE Goal
  BY <1>4 DEF BeginAdmit, HolderDies
<1>5. ASSUME NEW j \in Key, Release(j) \/ LeaseExpires(j) PROVE Goal
  BY <1>5 DEF Release, LeaseExpires
<1>6. ASSUME NEW s \in Scope, Acknowledge(s) \/ Reconcile(s) \/ TriggerStop(s) PROVE Goal
  BY <1>6 DEF Acknowledge, Reconcile, TriggerStop
<1>7. ASSUME NEW e \in Execution, Finalize(e) PROVE Goal
  BY <1>7 DEF Finalize
<1>8. CASE Reclaim \/ Revoke \/ Reclassify \/ GrantExpires
  BY <1>8 DEF Reclaim, Revoke, Reclassify, GrantExpires
<1> QED BY <1>1, <1>2, <1>3, <1>4, <1>5, <1>6, <1>7, <1>8 DEF Next

(* Whatever its holders do, a pending stop comes nearer to STOPPED: no     *)
(* lease of its scope is begun, and none is revived but by a renewal that  *)
(* was under way.                                                          *)
THEOREM StopOnlyWindsDown == Spec => [][WindsDown]_vars
<1>1. TypeOK /\ [Next]_vars => [WindsDown]_vars
  <2> SUFFICES ASSUME TypeOK, Next PROVE WindsDown
    OBVIOUS
  <2>1. \A s \in Scope, k \in Key : IsPending(s) /\ Covers(s, k) => StopPending(k)
    BY DEF StopPending
  <2> QED BY <2>1, StopLadder, StoppedRenewals DEF WindsDown
<1> QED BY TypeCorrect, <1>1, PTL DEF Spec


=============================================================================
