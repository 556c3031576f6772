-------------------------- MODULE AdmissionProofs ---------------------------
(***************************************************************************)
(* Theorems about Admission, for any number of requests, targets, slots    *)
(* and any lease.  The invariants are inductive once the type of the       *)
(* sorted set is known; SlotsWithinCapacity rests on the script pruning,   *)
(* counting and adding in one step.                                        *)
(***************************************************************************)
EXTENDS Admission, FiniteSetTheorems, TLAPS

(* A request that is under way has named its target.                       *)
TargetNamed == \A r \in Req : req[r].step # "idle" => req[r].target \in Target

IInv ==
    /\ TypeOK /\ TargetNamed
    /\ SlotsWithinCapacity /\ SlotsAccountedFor /\ OneActivePerTarget

(* Sets of requests are finite, and their sizes are naturals.              *)
LEMMA RequestSets ==
    ASSUME NEW S \in SUBSET Req
    PROVE  IsFiniteSet(S) /\ Cardinality(S) \in Nat
BY AdmissionAssumption, FS_Subset, FS_CardinalityType

(* A step that frees slots, or moves none, keeps them within capacity.     *)
LEMMA FewerSlots ==
    ASSUME SlotsWithinCapacity, Members' \subseteq Members
    PROVE  SlotsWithinCapacity'
<1>1. Members \in SUBSET Req /\ Members' \in SUBSET Req
  BY DEF Members
<1>2. Cardinality(Members') <= Cardinality(Members)
  BY <1>1, RequestSets, FS_Subset
<1> QED BY <1>1, <1>2, RequestSets, AdmissionAssumption DEF SlotsWithinCapacity

(* RESERVE_SCRIPT admits a request only while the slots that have not      *)
(* expired leave room for one more, and prunes the others in the same step.*)
LEMMA OneMoreSlot ==
    ASSUME TypeOK, NEW r \in Req, req[r].depth + Cardinality(Live) < Capacity,
           slots' = [Pruned EXCEPT ![r] = clock + TTL]
    PROVE  SlotsWithinCapacity'
<1>1. Live \in SUBSET Req /\ Members' \in SUBSET Req
  BY DEF Live, Members
<1>2. Members' \subseteq Live \cup {r}
  BY DEF TypeOK, Members, Live, Pruned
<1>3. /\ IsFiniteSet(Live \cup {r})
      /\ Cardinality(Live \cup {r}) <= Cardinality(Live) + 1
      /\ Cardinality(Live \cup {r}) \in Nat
  BY <1>1, RequestSets, FS_AddElement, FS_CardinalityType
<1>4. Cardinality(Members') <= Cardinality(Live \cup {r})
  BY <1>2, <1>3, FS_Subset
<1>5. req[r].depth \in Nat
  BY DEF TypeOK
<1> QED BY <1>1, <1>3, <1>4, <1>5, RequestSets, AdmissionAssumption
        DEF SlotsWithinCapacity

(* The empty queue satisfies the invariant.                                *)
LEMMA InitStep == Init => IInv
<1> SUFFICES ASSUME Init PROVE IInv
  OBVIOUS
<1>1. TypeOK
  BY AdmissionAssumption DEF Init, TypeOK, Steps
<1>2. Members = {}
  BY DEF Init, Members
<1>3. SlotsWithinCapacity
  BY <1>2, FS_EmptySet, AdmissionAssumption DEF SlotsWithinCapacity
<1> QED BY <1>1, <1>2, <1>3
        DEF IInv, TargetNamed, SlotsAccountedFor, OneActivePerTarget, Init

(* The script writes well-formed leases.                                   *)
LEMMA LeaseTypes ==
    ASSUME TypeOK
    PROVE  /\ Pruned \in [Req -> 0..(clock + TTL)]
           /\ \A r \in Req : [Pruned EXCEPT ![r] = clock + TTL] \in [Req -> 0..(clock + TTL)]
<1>1. Pruned \in [Req -> 0..(clock + TTL)]
  BY AdmissionAssumption DEF TypeOK, Pruned
<1>2. clock + TTL \in 0..(clock + TTL)
  BY AdmissionAssumption DEF TypeOK
<1> HIDE DEF Pruned
<1> QED BY <1>1, <1>2

(* Every step keeps the queue, the sorted set and the requests well formed,*)
(* and a request keeps the target it has named.                            *)
LEMMA TypeStep == TypeOK /\ TargetNamed /\ [Next]_vars => TypeOK' /\ TargetNamed'
<1> SUFFICES ASSUME TypeOK, TargetNamed, [Next]_vars PROVE TypeOK' /\ TargetNamed'
  OBVIOUS
<1>1. ASSUME NEW r \in Req, createScan(r) \/ Crash(r) PROVE TypeOK' /\ TargetNamed'
  <2> USE AdmissionAssumption DEF TypeOK, TargetNamed, Steps, Goto
  <2>1. CASE Check(r)      BY <2>1 DEF Check
  <2>2. CASE ReadDepth(r)  BY <2>2 DEF ReadDepth
  <2>3. CASE Reserve(r)
    <3>1. slots' \in [Req -> 0..(clock + TTL)]
      BY <2>3, LeaseTypes DEF Reserve
    <3> QED BY <2>3, <3>1 DEF Reserve
  <2>4. CASE ReserveFails(r)
    <3>1. slots' \in [Req -> 0..(clock + TTL)]
      BY <2>4, LeaseTypes DEF ReserveFails
    <3>2. /\ req' = [req EXCEPT ![r].step = "died"] /\ req[r].step = "read"
          /\ UNCHANGED <<clock, waiting, active>>
      BY <2>4 DEF ReserveFails
    <3>3. TypeOK'
      BY <3>1, <3>2
    <3> QED BY <3>2, <3>3
  <2>5. CASE CheckHeadroom(r) BY <2>5 DEF CheckHeadroom
  <2>6. CASE Insert(r)
    <3>1. req[r].target \in Target
      BY <2>6 DEF Insert
    <3> QED BY <2>6, <3>1 DEF Insert
  <2>7. CASE Undo(r)       BY <2>7 DEF Undo
  <2>8. CASE Enqueue(r)    BY <2>8 DEF Enqueue
  <2>9. CASE Release(r)    BY <2>9 DEF Release
  <2>10. CASE Crash(r)     BY <2>10 DEF Crash
  <2> QED BY <1>1, <2>1, <2>2, <2>3, <2>4, <2>5, <2>6, <2>7, <2>8, <2>9, <2>10
          DEF createScan
<1> USE DEF TypeOK, TargetNamed
<1>2. CASE TakeJob  BY <1>2 DEF TakeJob
<1>3. CASE EndScan  BY <1>3 DEF EndScan
<1>4. CASE Tick     BY <1>4, AdmissionAssumption DEF Tick
<1>5. CASE UNCHANGED vars BY <1>5 DEF vars
<1> QED BY <1>1, <1>2, <1>3, <1>4, <1>5 DEF Next

(* Only the script adds a slot, and only while there is room: every step   *)
(* keeps the slots within capacity.                                        *)
LEMMA SlotsStep ==
    TypeOK /\ SlotsWithinCapacity /\ [Next]_vars => SlotsWithinCapacity'
<1> SUFFICES ASSUME TypeOK, SlotsWithinCapacity, [Next]_vars
             PROVE  SlotsWithinCapacity'
  OBVIOUS
<1>1. CASE UNCHANGED slots
  BY <1>1, FewerSlots DEF Members
<1>2. ASSUME NEW r \in Req, Reserve(r) PROVE SlotsWithinCapacity'
  <2>1. CASE req[r].depth + Cardinality(Live) < Capacity
    <3>1. ~ (req[r].depth + Cardinality(Live) >= Capacity)
      BY <2>1, RequestSets, AdmissionAssumption DEF TypeOK, Live
    <3> QED BY <1>2, <2>1, <3>1, OneMoreSlot DEF Reserve
  <2>2. CASE ~ (req[r].depth + Cardinality(Live) < Capacity)
    <3>1. req[r].depth + Cardinality(Live) >= Capacity
      BY <2>2, RequestSets, AdmissionAssumption DEF TypeOK, Live
    <3>2. slots' = Pruned
      BY <1>2, <3>1 DEF Reserve
    <3>3. Members' \subseteq Members
      BY <3>2 DEF Members, Pruned, TypeOK
    <3> QED BY <3>3, FewerSlots
  <2> QED BY <2>1, <2>2
<1>3. ASSUME NEW r \in Req, ReserveFails(r) PROVE SlotsWithinCapacity'
  BY <1>1, <1>3, OneMoreSlot DEF ReserveFails
<1>4. ASSUME NEW r \in Req, Release(r) PROVE SlotsWithinCapacity'
  <2>1. Members' \subseteq Members
    BY <1>4 DEF Release, Members, TypeOK
  <2> QED BY <2>1, FewerSlots
<1>5. ASSUME NEW r \in Req,
             Check(r) \/ ReadDepth(r) \/ CheckHeadroom(r) \/ Insert(r)
               \/ Undo(r) \/ Enqueue(r) \/ Crash(r)
      PROVE  UNCHANGED slots
  BY <1>5 DEF Check, ReadDepth, CheckHeadroom, Insert, Undo, Enqueue, Crash
<1>6. CASE TakeJob \/ EndScan \/ Tick \/ UNCHANGED vars
  BY <1>1, <1>6 DEF TakeJob, EndScan, Tick, vars
<1> QED BY <1>1, <1>2, <1>3, <1>4, <1>5, <1>6 DEF Next, createScan

(* A request leaves the path that releases its slot only by releasing it,  *)
(* or by dying with it.                                                    *)
LEMMA AccountedStep ==
    TypeOK /\ SlotsAccountedFor /\ [Next]_vars => SlotsAccountedFor'
<1> SUFFICES ASSUME TypeOK, SlotsAccountedFor, [Next]_vars
             PROVE  SlotsAccountedFor'
  OBVIOUS
<1> USE DEF SlotsAccountedFor, Members, TypeOK, Goto
<1>1. ASSUME NEW r \in Req, createScan(r) \/ Crash(r) PROVE SlotsAccountedFor'
  <2>1. CASE Check(r)      BY <2>1 DEF Check
  <2>2. CASE ReadDepth(r)  BY <2>2 DEF ReadDepth
  <2>3. CASE Reserve(r)
    <3>1. r \notin Members
      BY <2>3 DEF Reserve
    <3>2. \A q \in Req \ {r} : slots'[q] > 0 => slots[q] > 0
      <4>1. \A q \in Req \ {r} : slots'[q] \in {slots[q], Pruned[q]}
        BY <2>3, LeaseTypes DEF Reserve
      <4>2. \A q \in Req : Pruned[q] \in {0, slots[q]}
        BY DEF Pruned
      <4> QED BY <4>1, <4>2
    <3>3. slots'[r] > 0 => req'[r].step \in {"admitted", "died"}
      BY <2>3, <3>1 DEF Reserve, Pruned
    <3>4. \A q \in Req \ {r} : req'[q].step = req[q].step
      BY <2>3 DEF Reserve
    <3> QED BY <3>2, <3>3, <3>4
  <2>4. CASE ReserveFails(r)
    <3>1. r \notin Members
      BY <2>4 DEF ReserveFails
    <3>2. \A q \in Req \ {r} : slots'[q] > 0 => slots[q] > 0
      <4>1. \A q \in Req \ {r} : slots'[q] \in {slots[q], Pruned[q]}
        BY <2>4, LeaseTypes DEF ReserveFails
      <4>2. \A q \in Req : Pruned[q] \in {0, slots[q]}
        BY DEF Pruned
      <4> QED BY <4>1, <4>2
    <3>3. slots'[r] > 0 => req'[r].step \in {"admitted", "died"}
      BY <2>4, <3>1 DEF ReserveFails, Pruned
    <3>4. \A q \in Req \ {r} : req'[q].step = req[q].step
      BY <2>4 DEF ReserveFails
    <3> QED BY <3>2, <3>3, <3>4
  <2>5. CASE CheckHeadroom(r) BY <2>5 DEF CheckHeadroom
  <2>6. CASE Insert(r)     BY <2>6 DEF Insert
  <2>7. CASE Undo(r)       BY <2>7 DEF Undo
  <2>8. CASE Enqueue(r)    BY <2>8 DEF Enqueue
  <2>9. CASE Release(r)    BY <2>9 DEF Release
  <2>10. CASE Crash(r)     BY <2>10 DEF Crash
  <2> QED BY <1>1, <2>1, <2>2, <2>3, <2>4, <2>5, <2>6, <2>7, <2>8, <2>9, <2>10
          DEF createScan
<1>2. CASE TakeJob \/ EndScan \/ Tick \/ UNCHANGED vars
  BY <1>2 DEF TakeJob, EndScan, Tick, vars
<1> QED BY <1>1, <1>2 DEF Next

(* The partial unique index: the insert is the one step that adds a row,   *)
(* and it adds none for a target that has one.                             *)
LEMMA ActiveStep ==
    TypeOK /\ OneActivePerTarget /\ [Next]_vars => OneActivePerTarget'
<1> SUFFICES ASSUME TypeOK, OneActivePerTarget, [Next]_vars
             PROVE  OneActivePerTarget'
  OBVIOUS
<1>1. CASE active' \subseteq active
  BY <1>1 DEF OneActivePerTarget
<1>2. ASSUME NEW r \in Req, Insert(r) PROVE OneActivePerTarget'
  BY <1>1, <1>2 DEF Insert, OneActivePerTarget
<1>3. ASSUME NEW r \in Req, createScan(r) \/ Crash(r), ~ Insert(r)
      PROVE  active' \subseteq active
  BY <1>3 DEF createScan, Crash, Check, ReadDepth, Reserve, ReserveFails,
              CheckHeadroom, Undo, Enqueue, Release
<1>4. CASE TakeJob \/ EndScan \/ Tick \/ UNCHANGED vars
  BY <1>1, <1>4 DEF TakeJob, EndScan, Tick, vars
<1> QED BY <1>1, <1>2, <1>3, <1>4 DEF Next, createScan

(* The inductive invariant holds in every interleaving.                    *)
THEOREM Invariance == Spec => []IInv
<1>1. IInv /\ [Next]_vars => IInv'
  BY TypeStep, SlotsStep, AccountedStep, ActiveStep DEF IInv
<1> QED BY <1>1, InitStep, PTL DEF Spec

(* However many API processes reserve at once, and whatever dies, no more  *)
(* slots are held than SCAN_QUEUE_MAX_WAITING.                             *)
THEOREM CapacityHeld == Spec => []SlotsWithinCapacity
<1>1. IInv => SlotsWithinCapacity
  BY DEF IInv
<1> QED BY <1>1, Invariance, PTL

(* Every slot belongs to a request on its way or to one that died: no      *)
(* refusal or error path of createScan keeps one.                          *)
THEOREM NoSlotLeaked == Spec => []SlotsAccountedFor
<1>1. IInv => SlotsAccountedFor
  BY DEF IInv
<1> QED BY <1>1, Invariance, PTL

(* FR-018: a target has at most one running scan, however many requests    *)
(* passed the first read together.                                         *)
THEOREM TargetAuditedOnce == Spec => []OneActivePerTarget
<1>1. IInv => OneActivePerTarget
  BY DEF IInv
<1> QED BY <1>1, Invariance, PTL

(* The queue's depth, the sorted set and the requests keep their shape; no *)
(* reservation outlives its TTL.                                           *)
THEOREM TypeCorrect == Spec => []TypeOK
<1>1. IInv => TypeOK
  BY DEF IInv
<1> QED BY <1>1, Invariance, PTL

(* The script prunes before it counts: a request is refused for the depth  *)
(* it read and for live slots, never for one whose owner died long ago.    *)
THEOREM RefusalHasCause == Spec => RefusedForRoomOnly
<1> DEFINE A == \A r \in Req : req[r].step = "read" /\ req'[r].step = "refused" =>
                  req[r].depth + Cardinality(Live) >= Capacity
<1>1. TypeOK /\ [Next]_vars => [A]_vars
  <2> SUFFICES ASSUME TypeOK, [Next]_vars, NEW r \in Req,
                      req[r].step = "read", req'[r].step = "refused"
               PROVE  req[r].depth + Cardinality(Live) >= Capacity
    OBVIOUS
  <2>1. \A q \in Req : req[q] \in [step : Steps, target : Target \cup {NoTarget}, depth : Nat]
    BY DEF TypeOK
  <2>2. PICK q \in Req : createScan(q) \/ Crash(q)
    BY DEF Next, TakeJob, EndScan, Tick, vars
  <2>3. r = q
    BY <2>1, <2>2 DEF createScan, Crash, Check, ReadDepth, Reserve, ReserveFails,
       CheckHeadroom, Insert, Undo, Enqueue, Release, Goto, TypeOK
  <2>4. Reserve(q) \/ ReserveFails(q)
    BY <2>2, <2>3 DEF createScan, Crash, Check, ReadDepth, CheckHeadroom, Insert, Undo,
       Enqueue, Release
  <2>5. ~ReserveFails(q)
    BY <2>1, <2>3 DEF ReserveFails, Goto, TypeOK
  <2>6. req'[q].step = IF req[q].depth + Cardinality(Live) >= Capacity THEN "refused" ELSE "admitted"
    BY <2>1, <2>4, <2>5 DEF Reserve, Goto, TypeOK
  <2> QED BY <2>3, <2>6
<1> QED BY <1>1, TypeCorrect, PTL DEF Spec, RefusedForRoomOnly


=============================================================================
