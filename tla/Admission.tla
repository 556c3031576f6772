----------------------------- MODULE Admission ------------------------------
(***************************************************************************)
(* Admission of new scans (createScan's refusals and admission-gate.ts).   *)
(* Concurrent requests of one user, in any number of API processes, read   *)
(* the depth of the scan queue, reserve a slot in Redis by one Lua script, *)
(* count the user's running scans, insert their row under the partial      *)
(* unique index, enqueue, and release the slot on every way out.           *)
(***************************************************************************)
EXTENDS Integers, FiniteSets

CONSTANTS
    Req,          \* requests
    Target,       \* targets they may name
    NoTarget,
    Capacity,     \* SCAN_QUEUE_MAX_WAITING
    Limit,        \* the plan's concurrentScanLimit
    TTL,          \* ADMISSION_RESERVATION_TTL_MS, in clock units
    MaxClock      \* bound: the last instant of the clock

ASSUME AdmissionAssumption ==
    /\ IsFiniteSet(Req)
    /\ NoTarget \notin Target
    /\ Capacity \in Nat /\ Limit \in Nat
    /\ TTL \in Nat \ {0} /\ MaxClock \in Nat

VARIABLES
    clock,        \* Date.now() of every API process
    waiting,      \* getWaitingCount() of the scan queue
    active,       \* rows of Scan that have not ended: <<request, target>>
    slots,        \* the sorted set: request |-> expiry, 0 for no member
    req           \* per request: its step, target, and the depth it read

vars == <<clock, waiting, active, slots, req>>

Steps == {"idle", "checked", "read", "admitted", "cleared", "created",
          "leaving", "done", "refused", "died"}

-----------------------------------------------------------------------------
Members == {r \in Req : slots[r] > 0}

(* ZREMRANGEBYSCORE key -inf now                                           *)
Pruned == [r \in Req |-> IF slots[r] <= clock THEN 0 ELSE slots[r]]

Live == {r \in Req : slots[r] > clock}

Goto(r, step) == req' = [req EXCEPT ![r].step = step]

Init ==
    /\ clock = 1
    /\ waiting = 0
    /\ active = {}
    /\ slots = [r \in Req |-> 0]
    /\ req = [r \in Req |-> [step |-> "idle", target |-> NoTarget, depth |-> 0]]

(* The first read refuses a target that is being audited already.          *)
Check(r) ==
    /\ req[r].step = "idle"
    /\ \E t \in Target :
         req' = [req EXCEPT ![r].target = t,
                            ![r].step = IF \E a \in active : a[2] = t
                                        THEN "refused" ELSE "checked"]
    /\ UNCHANGED <<clock, waiting, active, slots>>

ReadDepth(r) ==
    /\ req[r].step = "checked"
    /\ req' = [req EXCEPT ![r].step = "read", ![r].depth = waiting]
    /\ UNCHANGED <<clock, waiting, active, slots>>

(* Mutants: the key's own expiry as the score; one slot too many; expired  *)
(* members are counted.                                                    *)
ReserveLongLease(r) ==
    /\ req[r].step = "read"
    /\ IF req[r].depth + Cardinality(Live) >= Capacity
       THEN slots' = Pruned /\ Goto(r, "refused")
       ELSE slots' = [Pruned EXCEPT ![r] = clock + TTL + 1] /\ Goto(r, "admitted")
    /\ UNCHANGED <<clock, waiting, active>>

ReserveOneOver(r) ==
    /\ req[r].step = "read"
    /\ IF req[r].depth + Cardinality(Live) > Capacity
       THEN slots' = Pruned /\ Goto(r, "refused")
       ELSE slots' = [Pruned EXCEPT ![r] = clock + TTL] /\ Goto(r, "admitted")
    /\ UNCHANGED <<clock, waiting, active>>

ReserveUnpruned(r) ==
    /\ req[r].step = "read"
    /\ IF req[r].depth + Cardinality(Members) >= Capacity
       THEN UNCHANGED slots /\ Goto(r, "refused")
       ELSE slots' = [slots EXCEPT ![r] = clock + TTL] /\ Goto(r, "admitted")
    /\ UNCHANGED <<clock, waiting, active>>

(* RESERVE_SCRIPT: prune, count, and admit if depth + members < capacity.  *)
Reserve(r) ==
    /\ req[r].step = "read"
    /\ IF req[r].depth + Cardinality(Live) >= Capacity
       THEN slots' = Pruned /\ Goto(r, "refused")
       ELSE slots' = [Pruned EXCEPT ![r] = clock + TTL] /\ Goto(r, "admitted")
    /\ UNCHANGED <<clock, waiting, active>>

(* Redis is unreachable: the request is refused, the script may have run.  *)
ReserveFails(r) ==
    /\ req[r].step = "read"
    /\ \/ UNCHANGED slots
       \/ /\ req[r].depth + Cardinality(Live) < Capacity
          /\ slots' = [Pruned EXCEPT ![r] = clock + TTL]
    /\ Goto(r, "died")
    /\ UNCHANGED <<clock, waiting, active>>

(* assertConcurrencyHeadroom and the other refusals before the row.        *)
CheckHeadroom(r) ==
    /\ req[r].step = "admitted"
    /\ \/ Cardinality(active) < Limit /\ Goto(r, "cleared")
       \/ Goto(r, "leaving")
    /\ UNCHANGED <<clock, waiting, active, slots>>

(* Mutants: no unique index; a duplicate leaves past the finally block.    *)
InsertUnindexed(r) ==
    /\ req[r].step = "cleared"
    /\ active' = active \cup {<<r, req[r].target>>}
    /\ Goto(r, "created")
    /\ UNCHANGED <<clock, waiting, slots>>

InsertLeaks(r) ==
    /\ req[r].step = "cleared"
    /\ IF \E a \in active : a[2] = req[r].target
       THEN Goto(r, "refused") /\ UNCHANGED active
       ELSE active' = active \cup {<<r, req[r].target>>} /\ Goto(r, "created")
    /\ UNCHANGED <<clock, waiting, slots>>

(* scan.create under Scan_one_active_per_target.                           *)
Insert(r) ==
    /\ req[r].step = "cleared"
    /\ IF \E a \in active : a[2] = req[r].target
       THEN Goto(r, "leaving") /\ UNCHANGED active         \* DuplicateScanError
       ELSE active' = active \cup {<<r, req[r].target>>} /\ Goto(r, "created")
    /\ UNCHANGED <<clock, waiting, slots>>

(* The debit or the plan is refused, or the queue rejects the job: the row *)
(* is deleted or failed.                                                   *)
Undo(r) ==
    /\ req[r].step = "created"
    /\ active' = active \ {<<r, req[r].target>>}
    /\ Goto(r, "leaving")
    /\ UNCHANGED <<clock, waiting, slots>>

Enqueue(r) ==
    /\ req[r].step = "created"
    /\ waiting' = waiting + 1
    /\ Goto(r, "leaving")
    /\ UNCHANGED <<clock, active, slots>>

(* The finally block: ZREM, whose own failure is only logged.              *)
Release(r) ==
    /\ req[r].step = "leaving"
    /\ \/ slots' = [slots EXCEPT ![r] = 0] /\ Goto(r, "done")
       \/ UNCHANGED slots /\ Goto(r, "died")
    /\ UNCHANGED <<clock, waiting, active>>

(* The API process dies.                                                   *)
Crash(r) ==
    /\ req[r].step \in {"admitted", "cleared", "created", "leaving"}
    /\ Goto(r, "died")
    /\ UNCHANGED <<clock, waiting, active, slots>>

(* Workers take jobs; audits end; time passes.                             *)
TakeJob ==
    /\ waiting > 0
    /\ waiting' = waiting - 1
    /\ UNCHANGED <<clock, active, slots, req>>

EndScan ==
    /\ \E a \in active : active' = active \ {a}
    /\ UNCHANGED <<clock, waiting, slots, req>>

Tick ==
    /\ clock < MaxClock
    /\ clock' = clock + 1
    /\ UNCHANGED <<waiting, active, slots, req>>

createScan(r) ==
    \/ Check(r) \/ ReadDepth(r) \/ Reserve(r) \/ ReserveFails(r)
    \/ CheckHeadroom(r) \/ Insert(r) \/ Undo(r) \/ Enqueue(r) \/ Release(r)

Next == TakeJob \/ EndScan \/ Tick \/ \E r \in Req : createScan(r) \/ Crash(r)

Spec == Init /\ [][Next]_vars

-----------------------------------------------------------------------------
(* Properties.                                                             *)

(* The queue, the sorted set and the requests have their shape.            *)
TypeOK ==
    /\ clock \in Nat \ {0}
    /\ waiting \in Nat
    /\ active \subseteq Req \X Target
    /\ slots \in [Req -> 0..(clock + TTL)]
    /\ req \in [Req -> [step : Steps, target : Target \cup {NoTarget}, depth : Nat]]

(* The script is atomic: however many processes reserve at once, through   *)
(* expiry, crashes and failed releases, no more slots are held than the    *)
(* queue has room for.                                                     *)
SlotsWithinCapacity == Cardinality(Members) <= Capacity

(* Slots are not leaked: a member of the set belongs to a request that is  *)
(* on its way, or to one whose process or Redis connection died.           *)
SlotsAccountedFor ==
    \A r \in Members : req[r].step \in {"admitted", "cleared", "created",
                                        "leaving", "died"}

(* FR-018: two requests that both passed the first read do not both get a  *)
(* running scan of one target.                                             *)
OneActivePerTarget == \A a, b \in active : a[2] = b[2] => a = b

(* A dead process cannot hold capacity for ever: a request is refused only *)
(* for the depth it read and for slots that have not expired.              *)
RefusedForRoomOnly ==
    [][\A r \in Req : req[r].step = "read" /\ req'[r].step = "refused" =>
         req[r].depth + Cardinality(Live) >= Capacity]_vars

(* What "closing that window" promises, and the code does not keep: the    *)
(* depth is read before the script runs, so it may be stale.               *)
WaitingWithinCapacity == waiting <= Capacity

=============================================================================
