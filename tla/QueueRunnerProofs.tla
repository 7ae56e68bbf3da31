-------------------------- MODULE QueueRunnerProofs --------------------------
(***************************************************************************)
(* Proofs about QueueRunner, for any number of messages, deliveries and    *)
(* faults: no delivery is ever reviewed more than three times before it is *)
(* settled, and the failure state on disk always accounts for the reviews  *)
(* that were started.                                                      *)
(*                                                                         *)
(* The invariant follows a charge from the reservation that announces it   *)
(* (saved before the review) to the save that commits, fences or refunds   *)
(* it.  Every save in flight accounts for the charges of its delivery, so  *)
(* it does not matter when it lands, or whether a crash lets it land; and  *)
(* whatever still clears a file belongs to a message that left the queue,  *)
(* whose delivery is charged with nothing.                                 *)
(***************************************************************************)
EXTENDS QueueRunner, TLAPS

Resting == {"idle", "thrown", "down"}

(* The reviews a state accounts for.                                       *)
Spent(s) == IF s.done THEN s.committed + 1 ELSE EffectiveAttempt(s)

(* A call holds a message; only a malformed one carries no delivery, and   *)
(* only requests are looked up and marked.                                 *)
CallInv ==
    /\ pc \in Resting => cur = NoMsg
    /\ pc \notin Resting => cur \in Messages
    /\ pc \notin Resting /\ verdict # "malformed" => job \in Deliveries
    /\ verdict = "malformed" => pc = "ack" /\ job = Malformed
    /\ pc \in {"lookup", "mark"} => Requested

(* The message that a call holds is in the queue until it is acknowledged. *)
HeldInv ==
    pc \notin Resting => (pc = "clear" <=> qstate[cur] = "gone")

(* An attempt has a slot.                                                  *)
SlotInv ==
    pc \in {"reserve", "review", "commit", "fence", "undo", "undoSave"} =>
        base < MaxAttempts

(* A call waits for a save in flight, whose state is the one it asked for, *)
(* and the reviews charged so far leave it the slot it is about to spend,  *)
(* or are covered by the slot it spends.                                   *)
AttemptInv ==
    /\ pc \in SaveWaits => pendSave[job].open
    /\ pc = "sync" =>
          pendSave[job].state = Committed(base) /\ charged[job] <= base
    /\ pc = "reserve" =>
          pendSave[job].state = Reserved(base, token) /\ charged[job] <= base
    /\ pc = "review" => charged[job] <= thisSlot
    /\ pc = "commit" =>
          pendSave[job].state = Committed(thisSlot) /\ charged[job] <= thisSlot
    /\ pc = "fence" =>
          pendSave[job].state = Completed(base) /\ charged[job] <= thisSlot
    /\ pc = "undo" =>
          charged[job] <= IF verdict = "refund" THEN thisSlot ELSE base

(* A state that bears the token of the attempt under way was made for it.  *)
OwnInv ==
    pc \in {"reserve", "review", "undo"} =>
        /\ disk[job].owner = token => disk[job].committed = base
        /\ pendSave[job].open /\ pendSave[job].state.owner = token =>
              pendSave[job].state.committed = base

IsGone(d) == \E m \in Messages : JobOf[m] = d /\ qstate[m] = "gone"

(* What is on disk, and what a save in flight will put there, is valid,    *)
(* was made in the past, and accounts for the reviews started; only a      *)
(* settled delivery, charged with nothing, still has a clear to come.      *)
Accounted(d) ==
    /\ ValidState(disk[d]) /\ disk[d].owner <= token
    /\ charged[d] <= Spent(disk[d])
    /\ pendSave[d].open =>
          /\ ValidState(pendSave[d].state) /\ pendSave[d].state.owner <= token
          /\ charged[d] <= Spent(pendSave[d].state) + pendSave[d].refund
    /\ lateClear[d] \/ pendSave[d].purge => IsGone(d)
    /\ IsGone(d) => charged[d] = 0

AccountInv == \A d \in Deliveries : Accounted(d)

QueueInv ==
    TypeInvariant /\ CallInv /\ HeldInv /\ SlotInv /\ AttemptInv /\ OwnInv
        /\ AccountInv
-----------------------------------------------------------------------------
(* Facts about failure states.                                             *)

(* A state with n committed failures is one the store accepts              *)
(* (isValidState), and it accounts for n reviews.                          *)
LEMMA CommittedValid ==
    ASSUME NEW n \in 0..MaxAttempts
    PROVE  /\ Committed(n) \in FailureStates
           /\ ValidState(Committed(n))
           /\ Committed(n).committed = n /\ Committed(n).owner = 0
           /\ ~Committed(n).done
           /\ Spent(Committed(n)) = n
BY DEF Committed, FailureStates, ValidState, HasReservation, Spent,
       EffectiveAttempt, MaxAttempts

(* The post-review fence of a slot is a valid state that accounts for the  *)
(* slot.                                                                   *)
LEMMA CompletedValid ==
    ASSUME NEW n \in 0..MaxAttempts, n < MaxAttempts
    PROVE  /\ Completed(n) \in FailureStates
           /\ ValidState(Completed(n))
           /\ Completed(n).owner = 0 /\ Completed(n).committed = n
           /\ Spent(Completed(n)) = n + 1
BY DEF Completed, FailureStates, ValidState, HasReservation, Spent, MaxAttempts

(* The reservation of a slot is a valid state that accounts for the slot.  *)
LEMMA ReservedValid ==
    ASSUME NEW n \in 0..MaxAttempts, n < MaxAttempts, NEW o \in Nat
    PROVE  /\ Reserved(n, o) \in FailureStates
           /\ ValidState(Reserved(n, o))
           /\ Reserved(n, o).committed = n /\ Reserved(n, o).owner = o
           /\ ~Reserved(n, o).done
           /\ Spent(Reserved(n, o)) = n + 1
BY DEF Reserved, FailureStates, ValidState, HasReservation, Spent,
       EffectiveAttempt, MaxAttempts

(* A valid state accounts for three reviews at most.                       *)
LEMMA SpentBound ==
    ASSUME NEW s, ValidState(s)
    PROVE  Spent(s) \in 0..MaxAttempts
BY DEF ValidState, FailureStates, Spent, EffectiveAttempt, HasReservation, MaxAttempts

(* moreConservativeState returns one of its two states.                    *)
LEMMA MoreConservativeType ==
    ASSUME NEW l \in FailureStates, NEW r \in FailureStates
    PROVE  MoreConservative(l, r) \in FailureStates
BY DEF MoreConservative, FailureStates

(* consumeReservation turns a reservation into a committed failure: it     *)
(* accounts for the same reviews.                                          *)
LEMMA ConsumeType ==
    ASSUME NEW s \in FailureStates
    PROVE  /\ ConsumeReservation(s) \in FailureStates
           /\ ~s.done => ConsumeReservation(s).committed = Spent(s)
BY DEF ConsumeReservation, Committed, FailureStates, HasReservation, Spent,
       EffectiveAttempt, MaxAttempts

(* nextFailureSlot never exceeds the three attempts.                       *)
LEMMA SlotType ==
    ASSUME NEW n \in 0..MaxAttempts, NEW f \in 0..MaxAttempts, NEW s \in FailureStates
    PROVE  NextFailureSlot(n, f, s) \in 0..MaxAttempts
BY DEF NextFailureSlot, EffectiveAttempt, FailureStates, Larger, Smaller, MaxAttempts

(* Reconciling never loses a review that the persisted state accounts for. *)
LEMMA ReconciledBounds ==
    ASSUME NEW s \in FailureStates, NEW k \in FailureStates, NEW f \in 0..MaxAttempts
    PROVE  /\ Reconciled(s, k, f) \in 0..MaxAttempts
           /\ ~s.done => Reconciled(s, k, f) >= Spent(s)
<1>1. ConsumeReservation(s).committed \in 0..MaxAttempts
      /\ ConsumeReservation(k).committed \in 0..MaxAttempts
  BY ConsumeType DEF FailureStates
<1>2. ~s.done => ConsumeReservation(s).committed = Spent(s)
  BY ConsumeType
<1> QED BY <1>1, <1>2 DEF Reconciled, Larger, MaxAttempts

(* A save starts as a record of a save in flight.                          *)
LEMMA SaveOpType ==
    ASSUME NEW s \in FailureStates, NEW n \in 0..MaxAttempts
    PROVE  SaveOp(s, n) \in SaveRecords
BY DEF SaveOp, SaveRecords, MaxAttempts

(* The absence of a save is a closed record that clears nothing.           *)
LEMMA NoSaveType ==
    /\ NoSave \in SaveRecords
    /\ ~NoSave.open /\ ~NoSave.purge
    /\ NoSave.state = EmptyState /\ EmptyState \in FailureStates
<1>1. EmptyState \in FailureStates
  BY CommittedValid DEF EmptyState, MaxAttempts
<1>2. SaveOp(EmptyState, 0) \in SaveRecords
  BY <1>1, SaveOpType DEF MaxAttempts
<1>3. SaveOp(EmptyState, 0).state = EmptyState /\ ~SaveOp(EmptyState, 0).purge
  BY DEF SaveOp
<1> QED BY <1>1, <1>2, <1>3 DEF NoSave, SaveRecords

-----------------------------------------------------------------------------
(* What the shared parts of the actions do to the types.                   *)

(* A save that lands writes a state, refunds and fences within bounds.     *)
LEMMA WrittenType ==
    ASSUME TypeInvariant, NEW d \in Deliveries
    PROVE  /\ Written(d) \in [Deliveries -> FailureStates]
           /\ Refunded(d) \in [Deliveries -> Nat]
           /\ Fences(d) \subseteq Deliveries
           /\ pendSave[d].slot \in 0..MaxAttempts
           /\ pendSave[d].purge \in BOOLEAN /\ pendSave[d].counted \in BOOLEAN
BY DEF TypeInvariant, WorldTypes, MapTypes, Written, Refunded, Fences, SaveRecords

(* #saveFailureState keeps the types of the maps it writes.                *)
LEMMA StartSaveType ==
    ASSUME TypeInvariant, job \in Deliveries, NEW s \in FailureStates,
           NEW n \in 0..MaxAttempts, NEW remembered \in FailureStates,
           StartSave(s, n, remembered)
    PROVE  /\ known' \in [Deliveries -> FailureStates]
           /\ pendSave' \in [Deliveries -> SaveRecords]
BY SaveOpType, MoreConservativeType DEF StartSave, TypeInvariant, WorldTypes, MapTypes

(* Charging a save in flight keeps its record.                             *)
LEMMA CountedType ==
    ASSUME TypeInvariant, NEW d \in Deliveries, NEW c \in BOOLEAN
    PROVE  [pendSave EXCEPT ![d].counted = c] \in [Deliveries -> SaveRecords]
BY DEF TypeInvariant, WorldTypes, MapTypes, SaveRecords

(* Reconciling the loaded, the remembered and the outage state yields a    *)
(* number of failures within bounds.                                       *)
LEMMA LoadedType ==
    ASSUME TypeInvariant, job \in Deliveries
    PROVE  /\ LoadedFailures \in 0..MaxAttempts
           /\ LoadedState \in FailureStates
           /\ Committed(LoadedFailures) \in FailureStates
           /\ NextFailureSlot(LoadedFailures, floor[job], LoadedState) \in 0..MaxAttempts
<1>1. known[job] \in FailureStates /\ disk[job] \in FailureStates
      /\ floor[job] \in 0..MaxAttempts
  BY DEF TypeInvariant, WorldTypes, MapTypes
<1>2. LoadedFailures \in 0..MaxAttempts
  BY <1>1, ReconciledBounds DEF LoadedFailures
<1>3. Committed(LoadedFailures) \in FailureStates
  BY <1>2, CommittedValid
<1>4. LoadedState \in FailureStates
  BY <1>1, <1>3, MoreConservativeType DEF LoadedState
<1> QED BY <1>1, <1>2, <1>3, <1>4, SlotType

(* #settleStoreFailure keeps the types of the maps it writes, and moves to *)
(* a settlement.                                                           *)
LEMMA SettleStoreFailureType ==
    ASSUME TypeInvariant, job \in Deliveries,
           NEW n \in 0..MaxAttempts, NEW counted \in BOOLEAN,
           SettleStoreFailure(job, n, counted)
    PROVE  /\ floor' \in [Deliveries -> 0..MaxAttempts]
           /\ known' \in [Deliveries -> FailureStates]
           /\ pendSettle' \in [Deliveries -> 0..MaxAttempts]
           /\ pc' \in {"ack", "retry"} /\ verdict' \in {"exhausted", "outage"}
           /\ base' = base /\ cur' = cur
<1>1. Larger(floor[job], n) \in 0..MaxAttempts
  BY DEF TypeInvariant, WorldTypes, MapTypes, Larger, MaxAttempts
<1>2. MoreConservative(known[job], Committed(Larger(floor[job], n))) \in FailureStates
  BY <1>1, CommittedValid, MoreConservativeType DEF TypeInvariant, WorldTypes, MapTypes
<1> QED BY <1>1, <1>2 DEF SettleStoreFailure, TypeInvariant, WorldTypes, MapTypes, Goto

(* The reservation after a reconciliation keeps the types, and moves to    *)
(* the reservation or to a terminal acknowledgement.                       *)
LEMMA ReserveOrSettleType ==
    ASSUME TypeInvariant, job \in Deliveries, NEW n \in 0..MaxAttempts,
           NEW remembered \in FailureStates,
           ReserveOrSettle(n, remembered)
    PROVE  /\ known' \in [Deliveries -> FailureStates]
           /\ pendSave' \in [Deliveries -> SaveRecords]
           /\ token' \in Nat
           /\ pc' \in {"ack", "reserve"} /\ verdict' \in {"none", "exhausted"}
           /\ base' = n /\ cur' = cur
<1>1. CASE n = MaxAttempts
  BY <1>1, NoSaveType DEF ReserveOrSettle, TypeInvariant, WorldTypes, MapTypes, Goto
<1>2. CASE n # MaxAttempts
  <2>1. n < MaxAttempts /\ n + 1 \in 0..MaxAttempts /\ token + 1 \in Nat
    BY <1>2 DEF MaxAttempts, TypeInvariant, WorldTypes, MapTypes
  <2>2. Reserved(n, token + 1) \in FailureStates
    BY <2>1, ReservedValid
  <2>3. StartSave(Reserved(n, token + 1), n + 1, remembered)
    BY <1>2 DEF ReserveOrSettle
  <2> QED BY <1>2, <2>1, <2>2, <2>3, StartSaveType DEF ReserveOrSettle, Goto
<1> QED BY <1>1, <1>2

(* A call that goes on, or ends, keeps its invariant.                      *)
LEMMA CallGoesOn ==
    ASSUME CallInv, pc \notin Resting, verdict # "malformed",
           cur' = cur, pc' \notin Resting, verdict' # "malformed",
           pc' \in {"lookup", "mark"} => Requested
    PROVE  CallInv'
BY DEF CallInv, job, Requested, request

(* A call that ends holds no message.                                      *)
LEMMA CallEnds ==
    ASSUME pc' \in Resting, cur' = NoMsg, verdict' # "malformed"
    PROVE  CallInv'
BY DEF CallInv, Resting

(* The end of the process keeps the types, whichever saves landed.         *)
LEMMA GoDownType ==
    ASSUME TypeInvariant, CallInv, GoDown,
           faults' \in [count : 0..MaxFaults, memory : {"kept", "lost"}]
    PROVE  TypeInvariant' /\ CallInv'
<1>1. PICK landed \in SUBSET {d \in Deliveries : pendSave[d].open} :
        /\ disk' = [d \in Deliveries |->
                       IF d \in landed THEN pendSave[d].state ELSE disk[d]]
        /\ charged' = [d \in Deliveries |->
                          IF d \in landed THEN Refunded(d)[d] ELSE charged[d]]
        /\ fenced' = fenced \cup {d \in landed : pendSave[d].state.done}
  BY DEF GoDown
<1>2. disk' \in [Deliveries -> FailureStates] /\ fenced' \subseteq Deliveries
  BY <1>1 DEF TypeInvariant, WorldTypes, MapTypes, SaveRecords
<1>3. charged' \in [Deliveries -> Nat]
  BY <1>1, WrittenType DEF TypeInvariant, WorldTypes, MapTypes
<1>4. /\ known' \in [Deliveries -> FailureStates]
      /\ pendSave' \in [Deliveries -> SaveRecords]
      /\ pc' = "down" /\ cur' = NoMsg /\ base' = 0 /\ verdict' = "none"
      /\ stopping' = FALSE
  BY NoSaveType DEF GoDown
<1>5. TypeInvariant'
  <2>1. WorldTypes'
    BY <1>2, <1>3, <1>4
       DEF GoDown, TypeInvariant, WorldTypes, queueVars, PCs, Verdicts, MaxAttempts
  <2>2. MapTypes'
    BY <1>2, <1>3, <1>4
       DEF GoDown, TypeInvariant, MapTypes, queueVars, PCs, Verdicts, MaxAttempts
  <2>3. CallTypes'
    <3>1. stopping' \in BOOLEAN
      BY <1>4
    <3> QED BY <1>4, <3>1 DEF CallTypes, PCs, Verdicts, MaxAttempts
  <2> QED BY <2>1, <2>2, <2>3 DEF TypeInvariant
<1>6. CallInv'
  BY CallEnds DEF GoDown, Resting
<1> QED BY <1>5, <1>6

-----------------------------------------------------------------------------
(* Type correctness, with what a call holds.                               *)
LEMMA TypeStep ==
    ASSUME TypeInvariant, CallInv, SlotInv, [Next]_vars
    PROVE  TypeInvariant' /\ CallInv'
<1> USE JobsAssumption, FaultsAssumption, NoSaveType
    DEF PCs, Verdicts, Goto, Throw, Finish, Fault, NoFault, request, Requested,
        queueVars, diskVars, stateMaps, opMaps, callVars, history, vars, MaxAttempts
<1>1. ASSUME NEW m \in Messages, Pull(m) PROVE TypeInvariant' /\ CallInv'
  BY <1>1
     DEF Pull, Smaller, TypeInvariant, WorldTypes, MapTypes, CallTypes, CallInv, Resting, job
<1>2. ASSUME PullNothing PROVE TypeInvariant' /\ CallInv'
  BY <1>2
     DEF PullNothing, TypeInvariant, WorldTypes, MapTypes, CallTypes, CallInv,
         Resting, job
<1>3. ASSUME NEW m \in Messages, LeaseExpires(m) PROVE TypeInvariant' /\ CallInv'
  BY <1>3
     DEF LeaseExpires, TypeInvariant, WorldTypes, MapTypes, CallTypes, CallInv,
         Resting, job
<1>4. ASSUME Acknowledge PROVE TypeInvariant' /\ CallInv'
  <2>1. verdict # "malformed" => job \in Deliveries
    BY <1>4 DEF Acknowledge, CallInv, Resting
  <2>2. charged' \in [Deliveries -> Nat] /\ qstate' \in [Messages -> {"ready", "leased", "gone"}]
    BY <1>4, <2>1 DEF Acknowledge, Settled, TypeInvariant, WorldTypes, MapTypes
  <2>3. TypeInvariant'
    <3>1. WorldTypes'
      BY <1>4, <2>2
         DEF Acknowledge, TypeInvariant, WorldTypes
    <3>2. MapTypes'
      BY <1>4, <2>2
         DEF Acknowledge, TypeInvariant, MapTypes
    <3>3. CallTypes'
      BY <1>4, <2>2
         DEF Acknowledge, TypeInvariant, CallTypes
    <3> QED BY <3>1, <3>2, <3>3 DEF TypeInvariant
  <2>4. CallInv'
    BY <1>4, CallGoesOn, CallEnds DEF Acknowledge, Resting
  <2> QED BY <2>3, <2>4
<1>5. ASSUME Retry PROVE TypeInvariant' /\ CallInv'
  BY <1>5
     DEF Retry, TypeInvariant, WorldTypes, MapTypes, CallTypes, CallInv, Resting, job
<1>6. ASSUME SettlementFails PROVE TypeInvariant' /\ CallInv'
  <2>1. verdict # "malformed" => job \in Deliveries
    BY <1>6 DEF SettlementFails, CallInv, Resting
  <2>2. charged' \in [Deliveries -> Nat] /\ qstate' \in [Messages -> {"ready", "leased", "gone"}]
    BY <1>6, <2>1 DEF SettlementFails, Settled, TypeInvariant, WorldTypes, MapTypes
  <2>3. TypeInvariant'
    <3>1. WorldTypes'
      BY <1>6, <2>2
         DEF SettlementFails, TypeInvariant, WorldTypes
    <3>2. MapTypes'
      BY <1>6, <2>2
         DEF SettlementFails, TypeInvariant, MapTypes
    <3>3. CallTypes'
      BY <1>6, <2>2
         DEF SettlementFails, TypeInvariant, CallTypes
    <3> QED BY <3>1, <3>2, <3>3 DEF TypeInvariant
  <2>4. CallInv'
    BY <1>6, CallEnds DEF SettlementFails, Resting
  <2> QED BY <2>3, <2>4
<1>7. ASSUME PolicyAllows PROVE TypeInvariant' /\ CallInv'
  <2>1. job \in Deliveries /\ cur \in Messages /\ pc \notin Resting /\ verdict # "malformed"
    BY <1>7 DEF PolicyAllows, CallInv, Resting, SaveWaits
  <2>2. pendSettle[job] \in 0..MaxAttempts
    BY <2>1 DEF TypeInvariant, WorldTypes, MapTypes
  <2>3. \/ SettleStoreFailure(job, pendSettle[job], TRUE)
        \/ /\ pc' \in {"mark", "lookup", "load"} /\ verdict' \in {"completed", "none"}
           /\ base' = 0 /\ cur' = cur /\ stopping' = stopping
           /\ UNCHANGED stateMaps
    BY <1>7 DEF PolicyAllows
  <2>4. CASE SettleStoreFailure(job, pendSettle[job], TRUE)
    <3>1. /\ floor' \in [Deliveries -> 0..MaxAttempts]
          /\ known' \in [Deliveries -> FailureStates]
          /\ pendSettle' \in [Deliveries -> 0..MaxAttempts]
          /\ pc' \in {"ack", "retry"} /\ verdict' \in {"exhausted", "outage"}
          /\ base' = base /\ cur' = cur
      BY <2>1, <2>2, <2>4, SettleStoreFailureType
    <3>2. TypeInvariant'
      <4>1. WorldTypes'
        BY <1>7, <3>1
           DEF PolicyAllows, TypeInvariant, WorldTypes
      <4>2. MapTypes'
        BY <1>7, <3>1
           DEF PolicyAllows, TypeInvariant, MapTypes
      <4>3. CallTypes'
        BY <1>7, <3>1
           DEF PolicyAllows, TypeInvariant, CallTypes
      <4> QED BY <4>1, <4>2, <4>3 DEF TypeInvariant
    <3>3. CallInv'
      BY <1>7, <2>1, <3>1, CallGoesOn, SMT DEF Resting
    <3> QED BY <3>2, <3>3
  <2>5. CASE ~SettleStoreFailure(job, pendSettle[job], TRUE)
    <3>1. TypeInvariant'
      <4>1. WorldTypes'
        BY <1>7, <2>3, <2>5
           DEF PolicyAllows, TypeInvariant, WorldTypes
      <4>2. MapTypes'
        BY <1>7, <2>3, <2>5
           DEF PolicyAllows, TypeInvariant, MapTypes
      <4>3. CallTypes'
        <5>1. stopping' \in BOOLEAN
          BY <1>7 DEF PolicyAllows, TypeInvariant, CallTypes
        <5>2. /\ pc' \in PCs /\ verdict' \in Verdicts
              /\ base' \in 0..MaxAttempts /\ cur' \in Messages
          <6>1. /\ pc' \in {"mark", "lookup", "load"}
                /\ verdict' \in {"completed", "none"}
                /\ base' = 0 /\ cur' = cur
            BY <2>3, <2>5, Zenon
          <6> QED BY <2>1, <6>1
        <5> QED BY <5>1, <5>2 DEF CallTypes
      <4> QED BY <4>1, <4>2, <4>3 DEF TypeInvariant
    <3>2. CallInv'
      BY <1>7, <2>1, <2>3, <2>5, CallGoesOn DEF PolicyAllows, Resting
    <3> QED BY <3>1, <3>2
  <2> QED BY <2>4, <2>5
<1>8. ASSUME PolicyRefuses PROVE TypeInvariant' /\ CallInv'
  BY <1>8
     DEF PolicyRefuses, TypeInvariant, WorldTypes, MapTypes, CallTypes, CallInv,
         Resting, job
<1>9. ASSUME NEW b \in BOOLEAN, PolicyUnavailable(b) PROVE TypeInvariant' /\ CallInv'
  BY <1>9
     DEF PolicyUnavailable, TypeInvariant, WorldTypes, MapTypes, CallTypes, CallInv,
         Resting, job
<1>10. ASSUME HasRequestCompletion PROVE TypeInvariant' /\ CallInv'
  BY <1>10
     DEF HasRequestCompletion, TypeInvariant, WorldTypes, MapTypes, CallTypes,
         CallInv, Resting, job
<1>11. ASSUME LoadFailureState PROVE TypeInvariant' /\ CallInv'
  <2>1. job \in Deliveries /\ cur \in Messages /\ pc \notin Resting /\ verdict # "malformed"
    BY <1>11 DEF LoadFailureState, CallInv, Resting, SaveWaits
  <2>2. /\ LoadedFailures \in 0..MaxAttempts
        /\ LoadedState \in FailureStates
        /\ Committed(LoadedFailures) \in FailureStates
        /\ NextFailureSlot(LoadedFailures, floor[job], LoadedState) \in 0..MaxAttempts
        /\ pendSettle[job] \in 0..MaxAttempts
    BY <2>1, LoadedType DEF TypeInvariant, WorldTypes, MapTypes
  <2>3. /\ pendLoad' = [pendLoad EXCEPT ![job] = 0]
        /\ UNCHANGED <<queueVars, diskVars, lateClear, stopping, history, faults>>
    BY <1>11 DEF LoadFailureState
  <2>3a. /\ pendLoad' \in [Deliveries -> 0..MaxAttempts]
        /\ lateClear' \in [Deliveries -> BOOLEAN]
    BY <2>1, <2>3 DEF TypeInvariant, MapTypes
  <2>4. CASE /\ SettleStoreFailure(job, pendSettle[job], TRUE)
             /\ UNCHANGED <<pendSave, token, doneRequests>>
    <3>1. /\ floor' \in [Deliveries -> 0..MaxAttempts]
          /\ known' \in [Deliveries -> FailureStates]
          /\ pendSettle' \in [Deliveries -> 0..MaxAttempts]
          /\ pc' \in {"ack", "retry"} /\ verdict' \in {"exhausted", "outage"}
          /\ base' = base /\ cur' = cur
      BY <2>1, <2>2, <2>4, SettleStoreFailureType
    <3>2. TypeInvariant'
      <4>1. WorldTypes'
        BY <2>1, <2>3, <2>4, <3>1
           DEF TypeInvariant, WorldTypes
      <4>2. MapTypes'
        BY <2>3a, <2>4, <3>1
           DEF TypeInvariant, MapTypes
      <4>3. CallTypes'
        BY <2>1, <2>3, <2>4, <3>1
           DEF TypeInvariant, CallTypes
      <4> QED BY <4>1, <4>2, <4>3 DEF TypeInvariant
    <3>3. CallInv'
      BY <2>1, <3>1, CallGoesOn DEF Resting
    <3> QED BY <3>2, <3>3
  <2>5. CASE /\ ReserveOrSettle(LoadedFailures, LoadedState)
             /\ UNCHANGED <<floor, pendSettle, doneRequests>>
    <3>1. /\ known' \in [Deliveries -> FailureStates]
          /\ pendSave' \in [Deliveries -> SaveRecords]
          /\ token' \in Nat
          /\ pc' \in {"ack", "reserve"} /\ verdict' \in {"none", "exhausted"}
          /\ base' = LoadedFailures /\ cur' = cur
      BY <2>1, <2>2, <2>5, ReserveOrSettleType
    <3>2. TypeInvariant'
      <4>1. WorldTypes'
        BY <2>1, <2>2, <2>3, <2>5, <3>1
           DEF TypeInvariant, WorldTypes
      <4>2. MapTypes'
        BY <2>3a, <2>5, <3>1
           DEF TypeInvariant, MapTypes
      <4>3. CallTypes'
        BY <2>1, <2>2, <2>3, <2>5, <3>1
           DEF TypeInvariant, CallTypes
      <4> QED BY <4>1, <4>2, <4>3 DEF TypeInvariant
    <3>3. CallInv'
      BY <2>1, <3>1, CallGoesOn DEF Resting
    <3> QED BY <3>2, <3>3
  <2>6. CASE /\ StartSave(Committed(LoadedFailures),
                          NextFailureSlot(LoadedFailures, floor[job], LoadedState),
                          LoadedState)
             /\ Goto("sync", LoadedFailures, "none")
             /\ UNCHANGED <<token, floor, pendSettle, doneRequests>>
    <3>1. /\ known' \in [Deliveries -> FailureStates]
          /\ pendSave' \in [Deliveries -> SaveRecords]
      BY <2>1, <2>2, <2>6, StartSaveType
    <3>2. TypeInvariant'
      <4>1. WorldTypes'
        BY <2>1, <2>2, <2>3, <2>6, <3>1
           DEF TypeInvariant, WorldTypes
      <4>2. MapTypes'
        BY <2>3a, <2>6, <3>1
           DEF TypeInvariant, MapTypes
      <4>3. CallTypes'
        BY <2>1, <2>2, <2>3, <2>6, <3>1
           DEF TypeInvariant, CallTypes
      <4> QED BY <4>1, <4>2, <4>3 DEF TypeInvariant
    <3>3. CallInv'
      BY <2>1, <2>6, CallGoesOn DEF Resting
    <3> QED BY <3>2, <3>3
  <2>7. CASE /\ \/ /\ Goto("mark", 0, "completed") /\ Requested
                   /\ doneRequests' = doneRequests \cup {request}
                \/ Goto("ack", 0, "completed") /\ UNCHANGED doneRequests
             /\ UNCHANGED <<stateMaps, pendSave, token>>
    <3>1. TypeInvariant'
      <4>1. WorldTypes'
        BY <2>1, <2>3, <2>7
           DEF TypeInvariant, WorldTypes
      <4>2. MapTypes'
        BY <2>1, <2>3, <2>7
           DEF TypeInvariant, MapTypes
      <4>3. CallTypes'
        BY <2>1, <2>3, <2>7
           DEF TypeInvariant, CallTypes
      <4> QED BY <4>1, <4>2, <4>3 DEF TypeInvariant
    <3>2. CallInv'
      BY <2>1, <2>7, CallGoesOn DEF Resting
    <3> QED BY <3>1, <3>2
  <2>8. CASE disk[job].done
    BY <1>11, <2>7, <2>8 DEF LoadFailureState
  <2>9. CASE ~disk[job].done /\ pendSettle[job] > 0
    <3>1. pendSettle[job] # 0
      BY <2>2, <2>9
    <3>2. /\ SettleStoreFailure(job, pendSettle[job], TRUE)
          /\ UNCHANGED <<pendSave, token, doneRequests>>
      BY <1>11, <2>9, <3>1, Zenon DEF LoadFailureState
    <3> QED BY <2>4, <3>2
  <2>10. CASE ~disk[job].done /\ ~(pendSettle[job] > 0)
    <3>1. /\ \/ /\ StartSave(Committed(LoadedFailures),
                             NextFailureSlot(LoadedFailures, floor[job], LoadedState),
                             LoadedState)
                /\ Goto("sync", LoadedFailures, "none")
                /\ UNCHANGED token
             \/ ReserveOrSettle(LoadedFailures, LoadedState)
          /\ UNCHANGED <<floor, pendSettle, doneRequests>>
      BY <1>11, <2>10 DEF LoadFailureState
    <3> QED BY <2>5, <2>6, <3>1
  <2> QED BY <2>8, <2>9, <2>10
<1>12. ASSUME NEW b \in BOOLEAN, LoadFails(b) PROVE TypeInvariant' /\ CallInv'
  <2>1. job \in Deliveries /\ cur \in Messages /\ pc \notin Resting /\ verdict # "malformed"
    BY <1>12 DEF LoadFails, CallInv, Resting, SaveWaits
  <2> DEFINE n == IF pendLoad[job] > 0 THEN pendLoad[job]
                  ELSE NextFailureSlot(0, floor[job], known[job])
  <2>2. n \in 0..MaxAttempts
    <3>1. NextFailureSlot(0, floor[job], known[job]) \in 0..MaxAttempts
      BY <2>1, SlotType DEF TypeInvariant, WorldTypes, MapTypes
    <3> QED BY <2>1, <3>1 DEF TypeInvariant, WorldTypes, MapTypes
  <2>3. /\ SettleStoreFailure(job, n, pendLoad[job] > 0)
        /\ (pendLoad[job] > 0) \in BOOLEAN
        /\ pendLoad' = [pendLoad EXCEPT ![job] = IF b THEN n ELSE 0]
        /\ UNCHANGED <<pendSave, lateClear, doneRequests, token>>
    BY <1>12 DEF LoadFails
  <2> HIDE DEF n
  <2>4. /\ floor' \in [Deliveries -> 0..MaxAttempts]
        /\ known' \in [Deliveries -> FailureStates]
        /\ pendSettle' \in [Deliveries -> 0..MaxAttempts]
        /\ pc' \in {"ack", "retry"} /\ verdict' \in {"exhausted", "outage"}
        /\ base' = base /\ cur' = cur
    BY <2>1, <2>2, <2>3, SettleStoreFailureType
  <2>5. TypeInvariant'
    <3>1. WorldTypes'
      BY <1>12, <2>2, <2>3, <2>4
         DEF LoadFails, TypeInvariant, WorldTypes
    <3>2. MapTypes'
      <4>1. pendLoad' \in [Deliveries -> 0..MaxAttempts]
        BY <2>1, <2>2, <2>3 DEF TypeInvariant, MapTypes
      <4> QED BY <2>3, <2>4, <4>1 DEF TypeInvariant, MapTypes
    <3>3. CallTypes'
      BY <1>12, <2>2, <2>3, <2>4
         DEF LoadFails, TypeInvariant, CallTypes
    <3> QED BY <3>1, <3>2, <3>3 DEF TypeInvariant
  <2>6. CallInv'
    BY <2>1, <2>4, CallGoesOn DEF Resting
  <2> QED BY <2>5, <2>6
<1>13. ASSUME NEW b \in BOOLEAN, JoinFails(b) PROVE TypeInvariant' /\ CallInv'
  <2>1. job \in Deliveries /\ cur \in Messages /\ pc \notin Resting /\ verdict # "malformed"
    BY <1>13 DEF JoinFails, CallInv, Resting, SaveWaits
  <2>2. SettleStoreFailure(job, pendSave[job].slot, pendSave[job].counted)
    BY <1>13 DEF JoinFails
  <2>3. /\ Written(job) \in [Deliveries -> FailureStates]
        /\ Refunded(job) \in [Deliveries -> Nat]
        /\ Fences(job) \subseteq Deliveries
        /\ pendSave[job].slot \in 0..MaxAttempts
        /\ pendSave[job].purge \in BOOLEAN /\ pendSave[job].counted \in BOOLEAN
    BY <2>1, WrittenType
  <2>4. /\ floor' \in [Deliveries -> 0..MaxAttempts]
        /\ known' \in [Deliveries -> FailureStates]
        /\ pendSettle' \in [Deliveries -> 0..MaxAttempts]
        /\ pc' \in {"ack", "retry"} /\ verdict' \in {"exhausted", "outage"}
        /\ base' = base /\ cur' = cur
    BY <2>1, <2>2, <2>3, SettleStoreFailureType
  <2>5. /\ disk' \in [Deliveries -> FailureStates]
        /\ charged' \in [Deliveries -> Nat] /\ fenced' \subseteq Deliveries
        /\ lateClear' \in [Deliveries -> BOOLEAN]
    BY <1>13, <2>3 DEF JoinFails, TypeInvariant, WorldTypes, MapTypes
  <2>6. pendSave' \in [Deliveries -> SaveRecords]
    <3>1. [pendSave EXCEPT ![job].counted = TRUE] \in [Deliveries -> SaveRecords]
      BY <2>1, CountedType
    <3>2. [pendSave EXCEPT ![job] = NoSave] \in [Deliveries -> SaveRecords]
      BY <2>1 DEF TypeInvariant, MapTypes
    <3> QED BY <1>13, <3>1, <3>2 DEF JoinFails
  <2>7. TypeInvariant'
    <3>1. WorldTypes'
      BY <1>13, <2>4, <2>5, <2>6
         DEF JoinFails, TypeInvariant, WorldTypes
    <3>2. MapTypes'
      BY <1>13, <2>4, <2>5, <2>6
         DEF JoinFails, TypeInvariant, MapTypes
    <3>3. CallTypes'
      BY <1>13, <2>4, <2>5, <2>6
         DEF JoinFails, TypeInvariant, CallTypes
    <3> QED BY <3>1, <3>2, <3>3 DEF TypeInvariant
  <2>8. CallInv'
    BY <2>1, <2>4, CallGoesOn DEF Resting
  <2> QED BY <2>7, <2>8
<1>14. ASSUME SyncSaved PROVE TypeInvariant' /\ CallInv'
  <2>1. job \in Deliveries /\ cur \in Messages /\ pc \notin Resting /\ verdict # "malformed"
    BY <1>14 DEF SyncSaved, CallInv, Resting, SaveWaits
  <2>2. known[job] \in FailureStates /\ base \in 0..MaxAttempts
    BY <2>1 DEF TypeInvariant, WorldTypes, MapTypes, CallTypes
  <2>3. TypeInvariant'
    <3>1. WorldTypes'
      BY <1>14, <2>1, <2>2, WrittenType, ReserveOrSettleType
         DEF SyncSaved, TypeInvariant, WorldTypes
    <3>2. MapTypes'
      BY <1>14, <2>1, <2>2, WrittenType, ReserveOrSettleType
         DEF SyncSaved, TypeInvariant, MapTypes
    <3>3. CallTypes'
      BY <1>14, <2>1, <2>2, WrittenType, ReserveOrSettleType
         DEF SyncSaved, TypeInvariant, CallTypes
    <3> QED BY <3>1, <3>2, <3>3 DEF TypeInvariant
  <2>4. CallInv'
    BY <1>14, <2>1, <2>2, ReserveOrSettleType, CallGoesOn DEF SyncSaved, Resting
  <2> QED BY <2>3, <2>4
<1>15. ASSUME StartReview PROVE TypeInvariant' /\ CallInv'
  <2>1. job \in Deliveries /\ cur \in Messages /\ pc \notin Resting /\ verdict # "malformed"
    BY <1>15 DEF StartReview, CallInv, Resting, SaveWaits
  <2>2. TypeInvariant'
    <3>1. WorldTypes'
      BY <1>15, <2>1, WrittenType
         DEF StartReview, TypeInvariant, WorldTypes
    <3>2. MapTypes'
      BY <1>15, <2>1, WrittenType
         DEF StartReview, TypeInvariant, MapTypes
    <3>3. CallTypes'
      BY <1>15, <2>1, WrittenType
         DEF StartReview, TypeInvariant, CallTypes
    <3> QED BY <3>1, <3>2, <3>3 DEF TypeInvariant
  <2>3. CallInv'
    BY <1>15, <2>1, CallGoesOn DEF StartReview, Goto, Resting
  <2> QED BY <2>2, <2>3
<1>16. ASSUME ReviewCompletes PROVE TypeInvariant' /\ CallInv'
  <2>1. job \in Deliveries /\ cur \in Messages /\ pc \notin Resting /\ verdict # "malformed"
    BY <1>16 DEF ReviewCompletes, CallInv, Resting, SaveWaits
  <2>2. Completed(base) \in FailureStates /\ thisSlot \in 0..MaxAttempts /\ known[job] \in FailureStates
    BY <1>16, <2>1, CompletedValid, CommittedValid
       DEF ReviewCompletes, SlotInv, TypeInvariant, WorldTypes, MapTypes, CallTypes,
           thisSlot
  <2>3. TypeInvariant'
    <3>1. WorldTypes'
      BY <1>16, <2>1, <2>2, StartSaveType
         DEF ReviewCompletes, TypeInvariant, WorldTypes
    <3>2. MapTypes'
      BY <1>16, <2>1, <2>2, StartSaveType
         DEF ReviewCompletes, TypeInvariant, MapTypes
    <3>3. CallTypes'
      BY <1>16, <2>1, <2>2, StartSaveType
         DEF ReviewCompletes, TypeInvariant, CallTypes
    <3> QED BY <3>1, <3>2, <3>3 DEF TypeInvariant
  <2>4. CallInv'
    BY <1>16, <2>1, CallGoesOn, CallEnds DEF ReviewCompletes, Resting
  <2> QED BY <2>3, <2>4
<1>17. ASSUME ReviewCancelled PROVE TypeInvariant' /\ CallInv'
  <2>1. job \in Deliveries /\ cur \in Messages /\ pc \notin Resting /\ verdict # "malformed"
    BY <1>17 DEF ReviewCancelled, CallInv, Resting, SaveWaits
  <2>2. Completed(base) \in FailureStates /\ thisSlot \in 0..MaxAttempts /\ known[job] \in FailureStates
    BY <1>17, <2>1, CompletedValid, CommittedValid
       DEF ReviewCancelled, SlotInv, TypeInvariant, WorldTypes, MapTypes, CallTypes,
           thisSlot
  <2>3. TypeInvariant'
    <3>1. WorldTypes'
      BY <1>17, <2>1, <2>2, StartSaveType
         DEF ReviewCancelled, TypeInvariant, WorldTypes
    <3>2. MapTypes'
      BY <1>17, <2>1, <2>2, StartSaveType
         DEF ReviewCancelled, TypeInvariant, MapTypes
    <3>3. CallTypes'
      BY <1>17, <2>1, <2>2, StartSaveType
         DEF ReviewCancelled, TypeInvariant, CallTypes
    <3> QED BY <3>1, <3>2, <3>3 DEF TypeInvariant
  <2>4. CallInv'
    BY <1>17, <2>1, CallGoesOn, CallEnds DEF ReviewCancelled, Resting
  <2> QED BY <2>3, <2>4
<1>18. ASSUME ReviewRejected PROVE TypeInvariant' /\ CallInv'
  BY <1>18
     DEF ReviewRejected, TypeInvariant, WorldTypes, MapTypes, CallTypes, CallInv,
         Resting, job
<1>19. ASSUME ReviewFails PROVE TypeInvariant' /\ CallInv'
  <2>1. job \in Deliveries /\ cur \in Messages /\ pc \notin Resting /\ verdict # "malformed"
    BY <1>19 DEF ReviewFails, CallInv, Resting, SaveWaits
  <2>2. Committed(thisSlot) \in FailureStates /\ thisSlot \in 0..MaxAttempts /\ known[job] \in FailureStates
    BY <1>19, <2>1, CompletedValid, CommittedValid
       DEF ReviewFails, SlotInv, TypeInvariant, WorldTypes, MapTypes, CallTypes,
           thisSlot
  <2>3. TypeInvariant'
    <3>1. WorldTypes'
      BY <1>19, <2>1, <2>2, StartSaveType
         DEF ReviewFails, TypeInvariant, WorldTypes
    <3>2. MapTypes'
      BY <1>19, <2>1, <2>2, StartSaveType
         DEF ReviewFails, TypeInvariant, MapTypes
    <3>3. CallTypes'
      BY <1>19, <2>1, <2>2, StartSaveType
         DEF ReviewFails, TypeInvariant, CallTypes
    <3> QED BY <3>1, <3>2, <3>3 DEF TypeInvariant
  <2>4. CallInv'
    BY <1>19, <2>1, CallGoesOn, CallEnds DEF ReviewFails, Resting
  <2> QED BY <2>3, <2>4
<1>20. ASSUME ReviewStopped PROVE TypeInvariant' /\ CallInv'
  BY <1>20
     DEF ReviewStopped, TypeInvariant, WorldTypes, MapTypes, CallTypes, CallInv,
         Resting, job
<1>21. ASSUME CommitSaved PROVE TypeInvariant' /\ CallInv'
  <2>1. job \in Deliveries /\ cur \in Messages /\ pc \notin Resting /\ verdict # "malformed"
    BY <1>21 DEF CommitSaved, CallInv, Resting, SaveWaits
  <2>2. TypeInvariant'
    <3>1. WorldTypes'
      BY <1>21, <2>1, WrittenType
         DEF CommitSaved, TypeInvariant, WorldTypes
    <3>2. MapTypes'
      BY <1>21, <2>1, WrittenType
         DEF CommitSaved, TypeInvariant, MapTypes
    <3>3. CallTypes'
      BY <1>21, <2>1, WrittenType
         DEF CommitSaved, TypeInvariant, CallTypes
    <3> QED BY <3>1, <3>2, <3>3 DEF TypeInvariant
  <2>3. CallInv'
    BY <1>21, <2>1, CallGoesOn, CallEnds DEF CommitSaved, Goto, Throw, Finish, Resting
  <2> QED BY <2>2, <2>3
<1>22. ASSUME FenceSaved PROVE TypeInvariant' /\ CallInv'
  <2>1. job \in Deliveries /\ cur \in Messages /\ pc \notin Resting /\ verdict # "malformed"
    BY <1>22 DEF FenceSaved, CallInv, Resting, SaveWaits
  <2>2. TypeInvariant'
    <3>1. WorldTypes'
      BY <1>22, <2>1, WrittenType
         DEF FenceSaved, TypeInvariant, WorldTypes
    <3>2. MapTypes'
      BY <1>22, <2>1, WrittenType
         DEF FenceSaved, TypeInvariant, MapTypes
    <3>3. CallTypes'
      BY <1>22, <2>1, WrittenType
         DEF FenceSaved, TypeInvariant, CallTypes
    <3> QED BY <3>1, <3>2, <3>3 DEF TypeInvariant
  <2>3. CallInv'
    BY <1>22, <2>1, CallGoesOn DEF FenceSaved, Goto, Resting
  <2> QED BY <2>2, <2>3
<1>23. ASSUME NEW b \in BOOLEAN, SaveFails(b) PROVE TypeInvariant' /\ CallInv'
  <2>1. job \in Deliveries /\ cur \in Messages /\ pc \notin Resting /\ verdict # "malformed"
    BY <1>23 DEF SaveFails, CallInv, Resting, SaveWaits
  <2>2. \/ Throw /\ UNCHANGED stateMaps
        \/ SettleStoreFailure(job, pendSave[job].slot, FALSE)
    BY <1>23 DEF SaveFails
  <2>3. /\ Written(job) \in [Deliveries -> FailureStates]
        /\ Refunded(job) \in [Deliveries -> Nat]
        /\ Fences(job) \subseteq Deliveries
        /\ pendSave[job].slot \in 0..MaxAttempts
        /\ pendSave[job].purge \in BOOLEAN /\ pendSave[job].counted \in BOOLEAN
    BY <2>1, WrittenType
  <2>4. disk' \in [Deliveries -> FailureStates] /\ fenced' \subseteq Deliveries
    BY <1>23, <2>3 DEF SaveFails, TypeInvariant, WorldTypes, MapTypes
  <2>5. pendSave' \in [Deliveries -> SaveRecords]
    <3> DEFINE c == pc # "fence" /\ ~stopping
    <3>1. [pendSave EXCEPT ![job].counted = c] \in [Deliveries -> SaveRecords]
      <4>1. c \in BOOLEAN
        OBVIOUS
      <4> HIDE DEF c
      <4> QED BY <2>1, <4>1, CountedType
    <3>2. [pendSave EXCEPT ![job] = NoSave] \in [Deliveries -> SaveRecords]
      BY <2>1 DEF TypeInvariant, MapTypes
    <3> QED BY <1>23, <3>1, <3>2 DEF SaveFails
  <2>6. CASE SettleStoreFailure(job, pendSave[job].slot, FALSE)
    <3>1. /\ floor' \in [Deliveries -> 0..MaxAttempts]
          /\ known' \in [Deliveries -> FailureStates]
          /\ pendSettle' \in [Deliveries -> 0..MaxAttempts]
          /\ pc' \in {"ack", "retry"} /\ verdict' \in {"exhausted", "outage"}
          /\ base' = base /\ cur' = cur
      BY <2>1, <2>3, <2>6, SettleStoreFailureType
    <3>2. TypeInvariant'
      <4>1. WorldTypes'
        BY <1>23, <2>4, <2>5, <3>1
           DEF SaveFails, TypeInvariant, WorldTypes
      <4>2. MapTypes'
        BY <1>23, <2>4, <2>5, <3>1
           DEF SaveFails, TypeInvariant, MapTypes
      <4>3. CallTypes'
        BY <1>23, <2>4, <2>5, <3>1
           DEF SaveFails, TypeInvariant, CallTypes
      <4> QED BY <4>1, <4>2, <4>3 DEF TypeInvariant
    <3>3. CallInv'
      BY <2>1, <3>1, CallGoesOn DEF Resting
    <3> QED BY <3>2, <3>3
  <2>7. CASE Throw /\ UNCHANGED stateMaps
    <3>1. TypeInvariant'
      <4>1. WorldTypes'
        BY <1>23, <2>4, <2>5, <2>7
           DEF SaveFails, TypeInvariant, WorldTypes
      <4>2. MapTypes'
        BY <1>23, <2>4, <2>5, <2>7
           DEF SaveFails, TypeInvariant, MapTypes
      <4>3. CallTypes'
        BY <1>23, <2>4, <2>5, <2>7
           DEF SaveFails, TypeInvariant, CallTypes
      <4> QED BY <4>1, <4>2, <4>3 DEF TypeInvariant
    <3>2. CallInv'
      BY <2>7, CallEnds DEF Resting
    <3> QED BY <3>1, <3>2
  <2> QED BY <2>2, <2>6, <2>7
<1>24. ASSUME MarkRequestCompletion PROVE TypeInvariant' /\ CallInv'
  <2>1. job \in Deliveries /\ cur \in Messages /\ pc \notin Resting /\ verdict # "malformed"
    BY <1>24 DEF MarkRequestCompletion, CallInv, Resting, SaveWaits
  <2>2. TypeInvariant'
    <3>1. WorldTypes'
      BY <1>24, <2>1
         DEF MarkRequestCompletion, TypeInvariant, WorldTypes, CallInv
    <3>2. MapTypes'
      BY <1>24, <2>1
         DEF MarkRequestCompletion, TypeInvariant, MapTypes, CallInv
    <3>3. CallTypes'
      BY <1>24, <2>1
         DEF MarkRequestCompletion, TypeInvariant, CallTypes, CallInv
    <3> QED BY <3>1, <3>2, <3>3 DEF TypeInvariant
  <2>3. CallInv'
    BY <1>24, <2>1, CallGoesOn, CallEnds
       DEF MarkRequestCompletion, Goto, Throw, Finish, Resting
  <2> QED BY <2>2, <2>3
<1>25. ASSUME RollbackReservation PROVE TypeInvariant' /\ CallInv'
  <2>1. job \in Deliveries /\ cur \in Messages /\ pc \notin Resting /\ verdict # "malformed"
    BY <1>25 DEF RollbackReservation, CallInv, Resting, SaveWaits
  <2>2. KnownRolledBack \in [Deliveries -> FailureStates]
    BY <2>1, CommittedValid
       DEF KnownRolledBack, TypeInvariant, WorldTypes, MapTypes, FailureStates
  <2>3. MoreConservative(known[job], ConsumeReservation(disk[job])) \in FailureStates
    BY <2>1, ConsumeType, MoreConservativeType DEF TypeInvariant, WorldTypes, MapTypes
  <2>4. ASSUME NEW r \in 0..1
        PROVE [SaveOp(Committed(disk[job].committed), NextFailureSlot(0, floor[job], known[job]))
                  EXCEPT !.refund = r] \in SaveRecords
    <3>1. Committed(disk[job].committed) \in FailureStates
      BY <2>1, CommittedValid DEF TypeInvariant, WorldTypes, MapTypes, FailureStates
    <3>2. NextFailureSlot(0, floor[job], known[job]) \in 0..MaxAttempts
      BY <2>1, SlotType DEF TypeInvariant, WorldTypes, MapTypes
    <3> QED BY <3>1, <3>2, SaveOpType DEF SaveRecords
  <2>5. known' \in [Deliveries -> FailureStates] /\ pendSave' \in [Deliveries -> SaveRecords]
    BY <1>25, <2>1, <2>2, <2>3, <2>4
       DEF RollbackReservation, TypeInvariant, WorldTypes, MapTypes
  <2>6. TypeInvariant'
    <3>1. WorldTypes'
      BY <1>25, <2>1, <2>5
         DEF RollbackReservation, TypeInvariant, WorldTypes
    <3>2. MapTypes'
      BY <1>25, <2>1, <2>5
         DEF RollbackReservation, TypeInvariant, MapTypes
    <3>3. CallTypes'
      BY <1>25, <2>1, <2>5
         DEF RollbackReservation, TypeInvariant, CallTypes
    <3> QED BY <3>1, <3>2, <3>3 DEF TypeInvariant
  <2>7. CallInv'
    BY <1>25, <2>1, CallGoesOn, CallEnds DEF RollbackReservation, Resting
  <2> QED BY <2>6, <2>7
<1>26. ASSUME RollbackSaved PROVE TypeInvariant' /\ CallInv'
  <2>1. job \in Deliveries /\ cur \in Messages /\ pc \notin Resting /\ verdict # "malformed"
    BY <1>26 DEF RollbackSaved, CallInv, Resting, SaveWaits
  <2>2. KnownRolledBack \in [Deliveries -> FailureStates]
    BY <2>1, CommittedValid
       DEF KnownRolledBack, TypeInvariant, WorldTypes, MapTypes, FailureStates
  <2>3. /\ Written(job) \in [Deliveries -> FailureStates]
        /\ Refunded(job) \in [Deliveries -> Nat]
        /\ Fences(job) \subseteq Deliveries
        /\ pendSave[job].slot \in 0..MaxAttempts
        /\ pendSave[job].purge \in BOOLEAN /\ pendSave[job].counted \in BOOLEAN
    BY <2>1, WrittenType
  <2>4. TypeInvariant'
    <3>1. WorldTypes'
      BY <1>26, <2>1, <2>2, <2>3
         DEF RollbackSaved, TypeInvariant, WorldTypes
    <3>2. MapTypes'
      BY <1>26, <2>1, <2>2, <2>3
         DEF RollbackSaved, TypeInvariant, MapTypes
    <3>3. CallTypes'
      BY <1>26, <2>1, <2>2, <2>3
         DEF RollbackSaved, TypeInvariant, CallTypes
    <3> QED BY <3>1, <3>2, <3>3 DEF TypeInvariant
  <2>5. CallInv'
    BY <1>26, CallEnds DEF RollbackSaved, Resting
  <2> QED BY <2>4, <2>5
<1>27. ASSUME NEW b \in BOOLEAN, RollbackFails(b) PROVE TypeInvariant' /\ CallInv'
  <2>1. job \in Deliveries /\ cur \in Messages /\ pc \notin Resting /\ verdict # "malformed"
    BY <1>27 DEF RollbackFails, CallInv, Resting, SaveWaits
  <2>2. /\ Written(job) \in [Deliveries -> FailureStates]
        /\ Refunded(job) \in [Deliveries -> Nat]
        /\ Fences(job) \subseteq Deliveries
        /\ pendSave[job].slot \in 0..MaxAttempts
        /\ pendSave[job].purge \in BOOLEAN /\ pendSave[job].counted \in BOOLEAN
    BY <2>1, WrittenType
  <2>3. TypeInvariant'
    <3>1. WorldTypes'
      BY <1>27, <2>1, <2>2
         DEF RollbackFails, TypeInvariant, WorldTypes
    <3>2. MapTypes'
      BY <1>27, <2>1, <2>2
         DEF RollbackFails, TypeInvariant, MapTypes
    <3>3. CallTypes'
      BY <1>27, <2>1, <2>2
         DEF RollbackFails, TypeInvariant, CallTypes
    <3> QED BY <3>1, <3>2, <3>3 DEF TypeInvariant
  <2>4. CallInv'
    BY <1>27, CallEnds DEF RollbackFails, Resting
  <2> QED BY <2>3, <2>4
<1>28. ASSUME ClearFailureState PROVE TypeInvariant' /\ CallInv'
  <2>1. job \in Deliveries /\ cur \in Messages /\ pc \notin Resting /\ verdict # "malformed"
    BY <1>28 DEF ClearFailureState, CallInv, Resting, SaveWaits
  <2>2. pendSave' \in [Deliveries -> SaveRecords]
    <3>1. DropMaps(job)
      BY <1>28 DEF ClearFailureState
    <3> HIDE DEF Fault, NoFault, job
    <3> QED BY <2>1, <3>1 DEF DropMaps, TypeInvariant, MapTypes, SaveRecords
  <2>3. /\ known' \in [Deliveries -> FailureStates]
        /\ floor' \in [Deliveries -> 0..MaxAttempts]
        /\ pendLoad' \in [Deliveries -> 0..MaxAttempts]
        /\ pendSettle' \in [Deliveries -> 0..MaxAttempts]
        /\ lateClear' \in [Deliveries -> BOOLEAN]
    <3>1. DropMaps(job) /\ lateClear' \in {lateClear, [lateClear EXCEPT ![job] = TRUE]}
      BY <1>28 DEF ClearFailureState
    <3>2. lateClear' \in [Deliveries -> BOOLEAN]
      BY <3>1 DEF TypeInvariant, MapTypes
    <3>3. /\ floor' \in [Deliveries -> 0..MaxAttempts]
          /\ pendLoad' \in [Deliveries -> 0..MaxAttempts]
          /\ pendSettle' \in [Deliveries -> 0..MaxAttempts]
      BY <2>1, <3>1 DEF DropMaps, TypeInvariant, MapTypes, SaveRecords
    <3>4. known' \in [Deliveries -> FailureStates]
      BY <2>1, <3>1 DEF DropMaps, TypeInvariant, MapTypes, SaveRecords
    <3> QED BY <3>2, <3>3, <3>4
  <2>4. TypeInvariant'
    <3>1. WorldTypes'
      BY <1>28, <2>1, <2>2, <2>3
         DEF ClearFailureState, TypeInvariant, WorldTypes
    <3>2. MapTypes'
      BY <1>28, <2>1, <2>2, <2>3
         DEF ClearFailureState, TypeInvariant, MapTypes
    <3>3. CallTypes'
      BY <1>28, <2>1, <2>2, <2>3
         DEF ClearFailureState, TypeInvariant, CallTypes
    <3> QED BY <3>1, <3>2, <3>3 DEF TypeInvariant
  <2>5. CallInv'
    BY <1>28, CallEnds DEF ClearFailureState, Resting
  <2> QED BY <2>4, <2>5
<1>29. ASSUME NEW d \in Deliveries, NEW b \in BOOLEAN, LateSave(d, b) PROVE TypeInvariant' /\ CallInv'
  <2>2. TypeInvariant'
    <3>1. WorldTypes'
      BY <1>29, WrittenType
         DEF LateSave, TypeInvariant, WorldTypes
    <3>2. MapTypes'
      BY <1>29, WrittenType
         DEF LateSave, TypeInvariant, MapTypes
    <3>3. CallTypes'
      BY <1>29, WrittenType
         DEF LateSave, TypeInvariant, CallTypes
    <3> QED BY <3>1, <3>2, <3>3 DEF TypeInvariant
  <2>3. CallInv'
    BY <1>29 DEF LateSave, CallInv, job
  <2> QED BY <2>2, <2>3
<1>30. ASSUME NEW d \in Deliveries, LateClear(d) PROVE TypeInvariant' /\ CallInv'
  BY <1>30
     DEF LateClear, TypeInvariant, WorldTypes, MapTypes, CallTypes, CallInv, Resting,
         job
<1>31. ASSUME NEW d \in Deliveries, LateLoad(d) PROVE TypeInvariant' /\ CallInv'
  BY <1>31
     DEF LateLoad, TypeInvariant, WorldTypes, MapTypes, CallTypes, CallInv, Resting, job
<1>32. ASSUME Stop PROVE TypeInvariant' /\ CallInv'
  BY <1>32
     DEF Stop, TypeInvariant, WorldTypes, MapTypes, CallTypes, CallInv, Resting, job
<1>33. ASSUME Crash PROVE TypeInvariant' /\ CallInv'
  <2>1. GoDown
    BY <1>33 DEF Crash
  <2>2. TypeInvariant' /\ CallInv'
    BY <1>33, <2>1, GoDownType DEF Crash, TypeInvariant, WorldTypes, MapTypes
  <2> QED BY <2>2
<1>34. ASSUME Exit PROVE TypeInvariant' /\ CallInv'
  <2>1. GoDown
    BY <1>34 DEF Exit
  <2>2. TypeInvariant' /\ CallInv'
    BY <1>34, <2>1, GoDownType DEF Exit, TypeInvariant, WorldTypes, MapTypes
  <2> QED BY <2>2
<1>35. ASSUME Resume PROVE TypeInvariant' /\ CallInv'
  BY <1>35
     DEF Resume, TypeInvariant, WorldTypes, MapTypes, CallTypes, CallInv, Resting, job
<1>36. ASSUME Restart PROVE TypeInvariant' /\ CallInv'
  BY <1>36
     DEF Restart, TypeInvariant, WorldTypes, MapTypes, CallTypes, CallInv, Resting, job
<1>37. CASE UNCHANGED vars
  BY <1>37 DEF TypeInvariant, WorldTypes, MapTypes, CallTypes, CallInv, Resting, job
<1> QED
  BY <1>1, <1>2, <1>3, <1>4, <1>5, <1>6, <1>7, <1>8, <1>9, <1>10, <1>11, <1>12,
     <1>13, <1>14, <1>15, <1>16, <1>17, <1>18, <1>19, <1>20, <1>21, <1>22, <1>23, <1>24,
     <1>25, <1>26, <1>27, <1>28, <1>29, <1>30, <1>31, <1>32, <1>33, <1>34, <1>35, <1>36,
     <1>37
     DEF Next, RunnerStep, QueueStep, PolicyStep, StoreStep, ReviewStep,
         RollbackStep, LateStep, ProcessStep
-----------------------------------------------------------------------------
(* A call that holds a message holds it until the queue drops it, and an   *)
(* attempt has a slot.                                                     *)

(* A call that is over owes nothing.                                       *)
LEMMA CallRests ==
    ASSUME pc' \in Resting
    PROVE  HeldInv' /\ SlotInv' /\ AttemptInv' /\ OwnInv'
BY DEF HeldInv, SlotInv, AttemptInv, OwnInv, Resting, SaveWaits

(* A call that goes on before its settlement still holds its message.      *)
LEMMA HeldGoesOn ==
    ASSUME HeldInv, pc \notin Resting, pc # "clear", pc' # "clear", cur' = cur,
           UNCHANGED qstate
    PROVE  HeldInv'
BY DEF HeldInv

(* Every step keeps the message that a call holds, and the slot of its     *)
(* attempt.                                                                *)
LEMMA HeldStep ==
    ASSUME TypeInvariant, CallInv, HeldInv, SlotInv, [Next]_vars
    PROVE  HeldInv' /\ SlotInv'
<1> DEFINE Moves == /\ pc \notin Resting /\ pc # "clear" /\ pc' # "clear"
                    /\ cur' = cur /\ UNCHANGED qstate
<1> USE DEF Goto, Throw, Finish, Resting
<1>a. ASSUME Moves, SlotInv' PROVE HeldInv' /\ SlotInv'
  BY <1>a, HeldGoesOn
<1>b. ASSUME pc' \in Resting PROVE HeldInv' /\ SlotInv'
  BY <1>b, CallRests
<1>1. ASSUME NEW m \in Messages, Pull(m) PROVE HeldInv' /\ SlotInv'
  BY <1>1 DEF Pull, HeldInv, SlotInv, TypeInvariant, WorldTypes
<1>2. CASE UNCHANGED vars
  BY <1>2 DEF vars, callVars, queueVars, HeldInv, SlotInv
<1>3. ASSUME NEW m \in Messages, LeaseExpires(m) PROVE HeldInv' /\ SlotInv'
  BY <1>3
     DEF LeaseExpires, callVars, HeldInv, SlotInv, CallInv, TypeInvariant, WorldTypes
<1>4. ASSUME Acknowledge PROVE HeldInv' /\ SlotInv'
  <2>1. cur \in Messages /\ qstate' = [qstate EXCEPT ![cur] = "gone"]
    BY <1>4 DEF Acknowledge, Settled, CallInv
  <2>2. \/ pc' = "idle"
        \/ pc' = "clear" /\ cur' = cur
    BY <1>4 DEF Acknowledge
  <2> QED BY <2>1, <2>2, <1>b DEF HeldInv, SlotInv, TypeInvariant, WorldTypes
<1>5. ASSUME Retry PROVE HeldInv' /\ SlotInv'
  BY <1>5, <1>b DEF Retry
<1>6. ASSUME SettlementFails PROVE HeldInv' /\ SlotInv'
  BY <1>6, <1>b DEF SettlementFails
<1>7. ASSUME PolicyAllows PROVE HeldInv' /\ SlotInv'
  <2>1. Moves /\ pc' \in {"mark", "lookup", "load", "ack", "retry"}
    BY <1>7 DEF PolicyAllows, SettleStoreFailure, queueVars
  <2> QED BY <2>1, <1>a DEF SlotInv
<1>8. ASSUME PolicyRefuses PROVE HeldInv' /\ SlotInv'
  BY <1>8, <1>a DEF PolicyRefuses, queueVars, SlotInv
<1>9. ASSUME NEW b \in BOOLEAN, PolicyUnavailable(b) PROVE HeldInv' /\ SlotInv'
  BY <1>9, <1>a DEF PolicyUnavailable, queueVars, SlotInv
<1>10. ASSUME HasRequestCompletion PROVE HeldInv' /\ SlotInv'
  BY <1>10, <1>a, <1>b DEF HasRequestCompletion, queueVars, SlotInv
<1>11. ASSUME LoadFailureState PROVE HeldInv' /\ SlotInv'
  <2>1. Moves /\ (pc' = "reserve" => base' # MaxAttempts)
        /\ pc' \in {"mark", "ack", "retry", "sync", "reserve"}
    BY <1>11 DEF LoadFailureState, SettleStoreFailure, ReserveOrSettle, queueVars
  <2>2. base' \in 0..MaxAttempts
    BY <1>11, TypeStep DEF Next, RunnerStep, StoreStep, TypeInvariant, CallTypes
  <2>3. pc' = "reserve" => base' < MaxAttempts
    BY <2>1, <2>2 DEF MaxAttempts
  <2> QED BY <2>1, <2>3, <1>a DEF SlotInv
<1>12. ASSUME NEW b \in BOOLEAN, LoadFails(b) PROVE HeldInv' /\ SlotInv'
  <2>1. Moves /\ pc' \in {"ack", "retry"}
    BY <1>12 DEF LoadFails, SettleStoreFailure, queueVars
  <2> QED BY <2>1, <1>a DEF SlotInv
<1>13. ASSUME NEW b \in BOOLEAN, JoinFails(b) PROVE HeldInv' /\ SlotInv'
  <2>1. Moves /\ pc' \in {"ack", "retry"}
    BY <1>13 DEF JoinFails, SettleStoreFailure, queueVars
  <2> QED BY <2>1, <1>a DEF SlotInv
<1>14. ASSUME SyncSaved PROVE HeldInv' /\ SlotInv'
  <2>1. Moves /\ (pc' = "reserve" => base' # MaxAttempts)
        /\ pc' \in {"ack", "reserve"}
    BY <1>14 DEF SyncSaved, ReserveOrSettle, queueVars
  <2>2. base' \in 0..MaxAttempts
    BY <1>14, TypeStep DEF Next, RunnerStep, StoreStep, TypeInvariant, CallTypes
  <2>3. pc' = "reserve" => base' < MaxAttempts
    BY <2>1, <2>2 DEF MaxAttempts
  <2> QED BY <2>1, <2>3, <1>a DEF SlotInv
<1>15. ASSUME StartReview PROVE HeldInv' /\ SlotInv'
  BY <1>15, <1>a DEF StartReview, queueVars, SlotInv
<1>16. ASSUME ReviewCompletes PROVE HeldInv' /\ SlotInv'
  BY <1>16, <1>a, <1>b DEF ReviewCompletes, queueVars, SlotInv
<1>17. ASSUME ReviewCancelled PROVE HeldInv' /\ SlotInv'
  BY <1>17, <1>a DEF ReviewCancelled, queueVars, SlotInv
<1>18. ASSUME ReviewRejected PROVE HeldInv' /\ SlotInv'
  BY <1>18, <1>a, <1>b DEF ReviewRejected, queueVars, SlotInv
<1>19. ASSUME ReviewFails PROVE HeldInv' /\ SlotInv'
  BY <1>19, <1>a DEF ReviewFails, queueVars, SlotInv
<1>20. ASSUME ReviewStopped PROVE HeldInv' /\ SlotInv'
  BY <1>20, <1>a DEF ReviewStopped, queueVars, SlotInv
<1>21. ASSUME CommitSaved PROVE HeldInv' /\ SlotInv'
  BY <1>21, <1>a, <1>b DEF CommitSaved, queueVars, SlotInv
<1>22. ASSUME FenceSaved PROVE HeldInv' /\ SlotInv'
  BY <1>22, <1>a DEF FenceSaved, queueVars, SlotInv
<1>23. ASSUME NEW b \in BOOLEAN, SaveFails(b) PROVE HeldInv' /\ SlotInv'
  <2>1. \/ pc' \in Resting
        \/ Moves /\ pc' \in {"ack", "retry"}
    BY <1>23 DEF SaveFails, SettleStoreFailure, queueVars
  <2> QED BY <2>1, <1>a, <1>b DEF SlotInv
<1>24. ASSUME MarkRequestCompletion PROVE HeldInv' /\ SlotInv'
  BY <1>24, <1>a, <1>b DEF MarkRequestCompletion, queueVars, SlotInv
<1>25. ASSUME RollbackReservation PROVE HeldInv' /\ SlotInv'
  <2>1. \/ pc' \in Resting
        \/ Moves /\ pc = "undo" /\ base' = base
    BY <1>25 DEF RollbackReservation, queueVars
  <2> QED BY <2>1, <1>a, <1>b DEF SlotInv
<1>26. ASSUME RollbackSaved PROVE HeldInv' /\ SlotInv'
  BY <1>26, <1>b DEF RollbackSaved
<1>27. ASSUME NEW b \in BOOLEAN, RollbackFails(b) PROVE HeldInv' /\ SlotInv'
  BY <1>27, <1>b DEF RollbackFails
<1>28. ASSUME ClearFailureState PROVE HeldInv' /\ SlotInv'
  <2>1. pc' = "idle"
    BY <1>28 DEF ClearFailureState
  <2> QED BY <2>1, <1>b
<1>29. ASSUME NEW d \in Deliveries, LateStep(d) PROVE HeldInv' /\ SlotInv'
  <2>1. UNCHANGED <<qstate, callVars>>
    BY <1>29 DEF LateStep, LateSave, LateClear, LateLoad, queueVars
  <2> QED BY <2>1 DEF HeldInv, SlotInv, callVars
<1>30. ASSUME Stop PROVE HeldInv' /\ SlotInv'
  <2>1. \/ pc' = "thrown"
        \/ Moves /\ pc = "reserve" /\ base' = base
        \/ UNCHANGED <<qstate, callVars>>
    BY <1>30 DEF Stop, queueVars
  <2>2. CASE UNCHANGED <<qstate, callVars>>
    BY <2>2 DEF HeldInv, SlotInv, callVars
  <2>3. CASE Moves /\ pc = "reserve" /\ base' = base
    BY <2>3, <1>a DEF SlotInv
  <2> QED BY <2>1, <2>2, <2>3, <1>b
<1>31. ASSUME Crash \/ ProcessStep PROVE HeldInv' /\ SlotInv'
  <2>1. pc' \in Resting
    BY <1>31 DEF Crash, ProcessStep, Exit, GoDown, Resume, Restart
  <2> QED BY <2>1, <1>b
<1> QED
  BY <1>1, <1>2, <1>3, <1>4, <1>5, <1>6, <1>7, <1>8, <1>9, <1>10, <1>11, <1>12,
     <1>13, <1>14, <1>15, <1>16, <1>17, <1>18, <1>19, <1>20, <1>21, <1>22, <1>23, <1>24,
     <1>25, <1>26, <1>27, <1>28, <1>29, <1>30, <1>31
     DEF Next, RunnerStep, QueueStep, PolicyStep, StoreStep, ReviewStep,
         RollbackStep, PullNothing
-----------------------------------------------------------------------------
(* What is written accounts for what was started.                          *)

(* A step that touches one delivery at most.                               *)
LEMMA AccountAt ==
    ASSUME TypeInvariant, AccountInv, NEW j \in Deliveries,
           UNCHANGED qstate, token' \in Nat, token' >= token,
           \A d \in Deliveries : d # j =>
               /\ disk'[d] = disk[d] /\ pendSave'[d] = pendSave[d]
               /\ charged'[d] = charged[d] /\ lateClear'[d] = lateClear[d],
           Accounted(j)'
    PROVE  AccountInv'
<1> SUFFICES ASSUME NEW d \in Deliveries, d # j PROVE Accounted(d)'
  BY DEF AccountInv
<1>1. Accounted(d) /\ (IsGone(d)' <=> IsGone(d))
  BY DEF AccountInv, IsGone
<1>2. token \in Nat /\ disk[d].owner \in Nat /\ pendSave[d].state.owner \in Nat
  BY DEF TypeInvariant, WorldTypes, MapTypes, FailureStates, SaveRecords
<1>3. ValidState(disk[d])' <=> ValidState(disk[d])
  BY DEF ValidState, HasReservation
<1>4. ValidState(pendSave[d].state)' <=> ValidState(pendSave[d].state)
  BY DEF ValidState, HasReservation
<1>5. Spent(disk[d])' = Spent(disk[d]) /\ Spent(pendSave[d].state)' = Spent(pendSave[d].state)
  BY DEF Spent, EffectiveAttempt, HasReservation
<1> QED BY <1>1, <1>2, <1>3, <1>4, <1>5 DEF Accounted

(* A step that writes nothing, charges nothing and settles nothing keeps   *)
(* the accounts.                                                           *)
LEMMA AccountStays ==
    ASSUME TypeInvariant, AccountInv,
           UNCHANGED <<disk, pendSave, charged, lateClear, token>>,
           \A m \in Messages : qstate'[m] = "gone" <=> qstate[m] = "gone"
    PROVE  AccountInv'
<1>1. \A d \in Deliveries : IsGone(d)' <=> IsGone(d)
  BY DEF IsGone
<1> QED BY <1>1 DEF AccountInv, Accounted, ValidState, HasReservation, Spent, EffectiveAttempt

(* Outside an attempt and the saves around it a call claims nothing of its *)
(* slot.                                                                   *)
LEMMA IdlesSafely ==
    ASSUME pc' \notin SaveWaits, pc' \notin {"review", "undo"}
    PROVE  AttemptInv' /\ OwnInv'
BY DEF AttemptInv, OwnInv, SaveWaits

(* Nobody clears the delivery of the message a call holds.                 *)
LEMMA JobFacts ==
    ASSUME TypeInvariant, CallInv, HeldInv, AccountInv,
           pc \notin Resting, pc # "clear", verdict # "malformed"
    PROVE  /\ job \in Deliveries /\ cur \in Messages
           /\ ~IsGone(job) /\ ~lateClear[job] /\ ~pendSave[job].purge
           /\ base \in 0..MaxAttempts /\ charged[job] \in Nat /\ token \in Nat
           /\ disk[job] \in FailureStates /\ pendSave[job] \in SaveRecords
           /\ Accounted(job)
<1>1. job \in Deliveries /\ cur \in Messages
  BY DEF CallInv
<1>2. ~IsGone(job)
  <2>1. qstate[cur] # "gone"
    BY DEF HeldInv
  <2>2. \A m \in Messages : JobOf[m] = job => m = cur
    BY <1>1, JobsAssumption, OwnMessagesAssumption DEF job
  <2> QED BY <2>1, <2>2 DEF IsGone
<1>3. Accounted(job)
  BY <1>1 DEF AccountInv
<1>4. base \in 0..MaxAttempts /\ charged[job] \in Nat /\ token \in Nat
      /\ disk[job] \in FailureStates /\ pendSave[job] \in SaveRecords
  BY <1>1 DEF TypeInvariant, WorldTypes, MapTypes, CallTypes
<1> QED BY <1>1, <1>2, <1>3, <1>4 DEF Accounted

(* A save starts.                                                          *)
LEMMA SaveStarts ==
    ASSUME TypeInvariant, AccountInv, NEW j \in Deliveries,
           NEW op \in SaveRecords, op.open, ~op.purge,
           pendSave' = [pendSave EXCEPT ![j] = op],
           ValidState(op.state), op.state.owner <= token',
           charged[j] <= Spent(op.state) + op.refund, ~lateClear[j],
           token' \in Nat, token' >= token,
           UNCHANGED <<qstate, disk, charged, lateClear>>
    PROVE  AccountInv' /\ pendSave'[j] = op
<1>1. pendSave'[j] = op /\ \A d \in Deliveries : d # j => pendSave'[d] = pendSave[d]
  BY DEF TypeInvariant, MapTypes
<1>2. Accounted(j) /\ (IsGone(j)' <=> IsGone(j))
  BY DEF AccountInv, IsGone
<1>3. disk[j].owner \in Nat /\ token \in Nat
  BY DEF TypeInvariant, WorldTypes, MapTypes, FailureStates
<1>4. Accounted(j)'
  BY <1>1, <1>2, <1>3 DEF Accounted
<1> QED BY <1>1, <1>4, AccountAt

(* A save is charged, or not.                                              *)
LEMMA SaveCounted ==
    ASSUME TypeInvariant, AccountInv, NEW j \in Deliveries, NEW c,
           pendSave' = [pendSave EXCEPT ![j].counted = c],
           UNCHANGED <<qstate, disk, charged, lateClear, token>>
    PROVE  AccountInv'
<1>1. pendSave[j] \in SaveRecords /\ token \in Nat
  BY DEF TypeInvariant, MapTypes
<1>2. /\ \A d \in Deliveries : d # j => pendSave'[d] = pendSave[d]
      /\ pendSave'[j] = [pendSave[j] EXCEPT !.counted = c]
  BY DEF TypeInvariant, MapTypes, SaveRecords
<1>3. /\ pendSave'[j].open = pendSave[j].open /\ pendSave'[j].state = pendSave[j].state
      /\ pendSave'[j].refund = pendSave[j].refund /\ pendSave'[j].purge = pendSave[j].purge
  BY <1>1, <1>2 DEF SaveRecords
<1>4. Accounted(j) /\ (IsGone(j)' <=> IsGone(j))
  BY DEF AccountInv, IsGone
<1>5. Accounted(j)'
  BY <1>3, <1>4 DEF Accounted
<1> QED BY <1>1, <1>2, <1>5, AccountAt

(* A save lands, or is lost.                                               *)
LEMMA SaveSettles ==
    ASSUME TypeInvariant, AccountInv, NEW j \in Deliveries, pendSave[j].open,
           \/ UNCHANGED <<disk, charged>>
           \/ disk' = Written(j) /\ charged' = Refunded(j)
           \/ /\ disk' = Written(j) /\ UNCHANGED charged
              /\ charged[j] <= Spent(pendSave[j].state),
           \/ UNCHANGED pendSave
           \/ pendSave' = [pendSave EXCEPT ![j] = NoSave],
           \/ UNCHANGED lateClear
           \/ lateClear' = [lateClear EXCEPT ![j] = @ \/ pendSave[j].purge],
           UNCHANGED <<qstate, token>>
    PROVE  AccountInv' /\ charged'[j] <= charged[j]
<1>1. /\ token \in Nat /\ charged[j] \in Nat /\ pendSave[j].refund \in 0..1
      /\ disk[j] \in FailureStates /\ pendSave[j].state \in FailureStates
  BY DEF TypeInvariant, WorldTypes, MapTypes, SaveRecords
<1>2. Accounted(j) /\ (IsGone(j)' <=> IsGone(j))
  BY DEF AccountInv, IsGone
<1>3. \/ disk'[j] = disk[j] /\ charged'[j] = charged[j]
      \/ disk'[j] = pendSave[j].state /\ charged'[j] <= Spent(pendSave[j].state)
         /\ charged'[j] <= charged[j] /\ charged'[j] \in Nat
  <2>1. CASE UNCHANGED <<disk, charged>>
    BY <2>1
  <2>2. CASE disk' = Written(j) /\ charged' = Refunded(j)
    <3>1. disk'[j] = pendSave[j].state
      BY <2>2 DEF Written, TypeInvariant, WorldTypes
    <3>2. charged'[j] = IF charged[j] >= pendSave[j].refund
                        THEN charged[j] - pendSave[j].refund ELSE 0
      BY <2>2 DEF Refunded, TypeInvariant, WorldTypes
    <3>3. charged[j] <= Spent(pendSave[j].state) + pendSave[j].refund
      BY <1>2 DEF Accounted
    <3>4. Spent(pendSave[j].state) \in 0..MaxAttempts
      BY <1>2, SpentBound DEF Accounted
    <3> QED BY <1>1, <3>1, <3>2, <3>3, <3>4 DEF MaxAttempts
  <2>3. CASE disk' = Written(j) /\ UNCHANGED charged
             /\ charged[j] <= Spent(pendSave[j].state)
    <3>1. disk'[j] = pendSave[j].state
      BY <2>3 DEF Written, TypeInvariant, WorldTypes
    <3> QED BY <1>1, <2>3, <3>1
  <2> QED BY <2>1, <2>2, <2>3
<1>4. \A d \in Deliveries : d # j => disk'[d] = disk[d] /\ charged'[d] = charged[d]
  BY DEF Written, Refunded, TypeInvariant, WorldTypes
<1>5. /\ pendSave'[j] = pendSave[j] \/ pendSave'[j] = NoSave
      /\ \A d \in Deliveries : d # j => pendSave'[d] = pendSave[d]
  BY DEF TypeInvariant, MapTypes
<1>6. /\ lateClear'[j] => lateClear[j] \/ pendSave[j].purge
      /\ \A d \in Deliveries : d # j => lateClear'[d] = lateClear[d]
  BY DEF TypeInvariant, MapTypes
<1>7. Accounted(j)'
  <2>1. ValidState(disk'[j]) /\ disk'[j].owner <= token /\ charged'[j] <= Spent(disk'[j])
    BY <1>2, <1>3 DEF Accounted
  <2>2. pendSave'[j].open =>
          /\ ValidState(pendSave'[j].state) /\ pendSave'[j].state.owner <= token
          /\ charged'[j] <= Spent(pendSave'[j].state) + pendSave'[j].refund
    <3>1. CASE pendSave'[j] = NoSave
      BY <3>1, NoSaveType
    <3>2. CASE pendSave'[j] = pendSave[j]
      <4>1. Spent(pendSave[j].state) \in 0..MaxAttempts
        BY <1>2, SpentBound DEF Accounted
      <4> QED BY <1>1, <1>2, <1>3, <3>2, <4>1 DEF Accounted, MaxAttempts
    <3> QED BY <1>5, <3>1, <3>2
  <2>3. lateClear'[j] \/ pendSave'[j].purge => IsGone(j)
    BY <1>2, <1>5, <1>6, NoSaveType DEF Accounted
  <2>4. IsGone(j) => charged'[j] = 0
    BY <1>1, <1>2, <1>3 DEF Accounted
  <2> QED BY <1>2, <2>1, <2>2, <2>3, <2>4 DEF Accounted
<1>8. charged'[j] <= charged[j]
  BY <1>1, <1>3
<1> QED BY <1>4, <1>5, <1>6, <1>7, <1>8, <1>1, AccountAt

(* The reservation that follows a reconciliation to n failures covers the  *)
(* review to come, since at most n were charged.                           *)
LEMMA ReserveOrSettleAccounts ==
    ASSUME TypeInvariant, CallInv, NEW j \in Deliveries, j = job,
           NEW n \in 0..MaxAttempts, NEW remembered,
           ReserveOrSettle(n, remembered), cur' = cur,
           Accounted(j), ~lateClear[j], ~pendSave[j].purge,
           charged[j] <= n, n <= MaxAttempts,
           disk'[j] = disk[j] \/ disk'[j] = Committed(n),
           \A d \in Deliveries : d # j => disk'[d] = disk[d],
           UNCHANGED <<qstate, charged, lateClear>>, AccountInv
    PROVE  AccountInv' /\ AttemptInv' /\ OwnInv'
<1>1. token \in Nat /\ charged[j] \in Nat /\ disk[j].owner \in Nat
  BY DEF TypeInvariant, WorldTypes, MapTypes, FailureStates
<1>2. job' = j
  BY DEF job
<1>3. IsGone(j)' <=> IsGone(j)
  BY DEF IsGone
<1>4. ValidState(disk'[j]) /\ disk'[j].owner <= token /\ charged[j] <= Spent(disk'[j])
  BY <1>1, CommittedValid DEF Accounted
<1>5. CASE n = MaxAttempts
  <2>1. pc' = "ack" /\ token' = token /\ pendSave' = [pendSave EXCEPT ![j] = NoSave]
    BY <1>5 DEF ReserveOrSettle, Goto
  <2>2. pendSave'[j] = NoSave /\ \A d \in Deliveries : d # j => pendSave'[d] = pendSave[d]
    BY <2>1 DEF TypeInvariant, MapTypes
  <2>3. Accounted(j)'
    BY <1>3, <1>4, <2>1, <2>2, NoSaveType DEF Accounted
  <2>4. AccountInv'
    BY <1>1, <2>1, <2>2, <2>3, AccountAt
  <2> QED BY <2>1, <2>4, IdlesSafely DEF SaveWaits
<1>6. CASE n # MaxAttempts
  <2>1. n < MaxAttempts
    BY <1>6 DEF MaxAttempts
  <2> DEFINE op == SaveOp(Reserved(n, token + 1), n + 1)
  <2>2. /\ pc' = "reserve" /\ base' = n /\ token' = token + 1
        /\ pendSave' = [pendSave EXCEPT ![j] = op]
    BY <1>6 DEF ReserveOrSettle, StartSave, Goto
  <2>3. pendSave'[j] = op /\ \A d \in Deliveries : d # j => pendSave'[d] = pendSave[d]
    BY <2>2 DEF TypeInvariant, MapTypes
  <2>4. /\ op.open /\ op.state = Reserved(n, token + 1) /\ op.refund = 0 /\ ~op.purge
    BY DEF SaveOp
  <2>5. /\ ValidState(op.state) /\ op.state.owner = token + 1
        /\ op.state.committed = n /\ Spent(op.state) = n + 1
    BY <1>1, <2>1, <2>4, ReservedValid
  <2> HIDE DEF op
  <2>6. Accounted(j)'
    <3>1. ValidState(disk'[j]) /\ disk'[j].owner <= token'
      BY <1>1, <1>4, <2>2, CommittedValid
    <3>2. charged'[j] <= Spent(disk'[j])
      BY <1>4
    <3>3. /\ ValidState(pendSave'[j].state) /\ pendSave'[j].state.owner <= token'
          /\ charged'[j] <= Spent(pendSave'[j].state) + pendSave'[j].refund
      BY <1>1, <2>2, <2>3, <2>4, <2>5
    <3>4. ~lateClear'[j] /\ ~pendSave'[j].purge
      BY <2>3, <2>4
    <3>5. IsGone(j)' => charged'[j] = 0
      BY <1>3 DEF Accounted
    <3> QED BY <3>1, <3>2, <3>3, <3>4, <3>5 DEF Accounted
  <2>7. AccountInv'
    BY <1>1, <2>2, <2>3, <2>6, AccountAt
  <2>8. AttemptInv'
    BY <1>2, <2>2, <2>3, <2>4 DEF AttemptInv, SaveWaits
  <2>9. OwnInv'
    <3>1. disk'[j].owner # token'
      BY <1>1, <1>4, <2>2, CommittedValid
    <3>2. pendSave'[j].state.committed = base'
      BY <2>2, <2>3, <2>5
    <3> QED BY <1>2, <3>1, <3>2 DEF OwnInv
  <2> QED BY <2>7, <2>8, <2>9
<1> QED BY <1>5, <1>6

(* Every step keeps the accounts: what is on disk, and what a save in      *)
(* flight will put there, covers the reviews charged.                      *)
LEMMA AccountStep ==
    ASSUME TypeInvariant, CallInv, HeldInv, SlotInv, AttemptInv, OwnInv, AccountInv,
           [Next]_vars
    PROVE  AttemptInv' /\ OwnInv' /\ AccountInv'
<1> DEFINE Good == AttemptInv' /\ OwnInv' /\ AccountInv'
           Books == <<disk, pendSave, charged, lateClear, token>>
<1> USE DEF Goto, Throw, Finish
<1>a. ASSUME UNCHANGED <<qstate, Books>>, pc' \notin SaveWaits, pc' \notin {"review", "undo"}
      PROVE  Good
  BY <1>a, AccountStays, IdlesSafely
<1>b. token \in Nat
  BY DEF TypeInvariant, MapTypes
<1>1. ASSUME NEW m \in Messages, Pull(m) PROVE Good
  <2>1. pc' \in {"ack", "policy", "thrown"} /\ UNCHANGED Books
    BY <1>1 DEF Pull, diskVars, opMaps, history
  <2>2. \A n \in Messages : qstate'[n] = "gone" <=> qstate[n] = "gone"
    BY <1>1 DEF Pull, TypeInvariant, WorldTypes
  <2> QED BY <2>1, <2>2, AccountStays, IdlesSafely DEF SaveWaits
<1>2. CASE UNCHANGED vars
  <2>1. UNCHANGED <<qstate, Books, callVars>>
    BY <1>2 DEF vars, queueVars, diskVars, opMaps, history
  <2>2. AttemptInv' /\ OwnInv'
    BY <2>1 DEF AttemptInv, OwnInv, callVars, job, thisSlot
  <2> QED BY <2>1, <2>2, AccountStays
<1>3. ASSUME NEW m \in Messages, LeaseExpires(m) PROVE Good
  <2>1. UNCHANGED <<callVars, Books>>
    BY <1>3 DEF LeaseExpires, diskVars, opMaps, history
  <2>2. \A n \in Messages : qstate'[n] = "gone" <=> qstate[n] = "gone"
    BY <1>3 DEF LeaseExpires, TypeInvariant, WorldTypes
  <2>3. AttemptInv' /\ OwnInv'
    BY <2>1 DEF AttemptInv, OwnInv, callVars, job, thisSlot
  <2> QED BY <2>1, <2>2, <2>3, AccountStays
<1>4. ASSUME Settled, pc \notin Resting, UNCHANGED <<disk, pendSave, lateClear, token>>
      PROVE  AccountInv'
  <2>1. cur \in Messages /\ (verdict # "malformed" => job \in Deliveries)
    BY <1>4 DEF CallInv
  <2>2. \A n \in Messages : qstate'[n] = "gone" <=> qstate[n] = "gone" \/ n = cur
    BY <1>4, <2>1 DEF Settled, TypeInvariant, WorldTypes
  <2> SUFFICES ASSUME NEW d \in Deliveries PROVE Accounted(d)'
    BY DEF AccountInv
  <2>3. Accounted(d) /\ charged[d] \in Nat
    BY DEF AccountInv, TypeInvariant, WorldTypes
  <2>4. IsGone(d) => IsGone(d)'
    BY <2>2 DEF IsGone
  <2>5. charged'[d] = charged[d] \/ charged'[d] = 0
    BY <1>4, <2>1 DEF Settled, TypeInvariant, WorldTypes
  <2>6. IsGone(d)' => charged'[d] = 0
    <3>1. CASE IsGone(d)
      BY <2>3, <2>5, <3>1 DEF Accounted
    <3>2. CASE IsGone(d)' /\ ~IsGone(d)
      <4>1. JobOf[cur] = d
        BY <2>2, <3>2 DEF IsGone
      <4>2. CASE verdict # "malformed"
        BY <1>4, <2>1, <4>1, <4>2 DEF Settled, TypeInvariant, WorldTypes, job
      <4>3. CASE verdict = "malformed"
        BY <4>1, <4>3, JobsAssumption DEF CallInv, job
      <4> QED BY <4>2, <4>3
    <3> QED BY <3>1, <3>2
  <2>7. charged'[d] <= charged[d] /\ charged'[d] \in Nat
    BY <2>3, <2>5
  <2>8. Spent(disk[d]) \in 0..MaxAttempts
    BY <2>3, SpentBound DEF Accounted
  <2>9. pendSave[d].open => Spent(pendSave[d].state) \in 0..MaxAttempts
                            /\ pendSave[d].refund \in 0..1
    BY <2>3, SpentBound DEF Accounted, TypeInvariant, MapTypes, SaveRecords
  <2>10. charged'[d] <= Spent(disk[d])
    BY <2>3, <2>7, <2>8 DEF Accounted, MaxAttempts
  <2>11. pendSave[d].open => charged'[d] <= Spent(pendSave[d].state) + pendSave[d].refund
    BY <2>3, <2>7, <2>9 DEF Accounted, MaxAttempts
  <2> QED BY <1>4, <2>3, <2>4, <2>6, <2>10, <2>11 DEF Accounted
<1>5. ASSUME Acknowledge PROVE Good
  <2>1. Settled /\ pc \notin Resting /\ UNCHANGED <<disk, pendSave, lateClear, token>>
    BY <1>5 DEF Acknowledge, Resting, diskVars, opMaps
  <2>2. pc' \in {"idle", "clear"}
    BY <1>5 DEF Acknowledge
  <2> QED BY <2>1, <2>2, <1>4, IdlesSafely DEF SaveWaits
<1>6. ASSUME Retry PROVE Good
  <2>1. cur \in Messages /\ qstate[cur] # "gone"
    BY <1>6 DEF Retry, CallInv, Resting
  <2>2. UNCHANGED Books /\ qstate' = [qstate EXCEPT ![cur] = "ready"] /\ pc' = "idle"
    BY <1>6 DEF Retry, diskVars, opMaps, history
  <2>3. \A n \in Messages : qstate'[n] = "gone" <=> qstate[n] = "gone"
    BY <2>1, <2>2 DEF TypeInvariant, WorldTypes
  <2> QED BY <2>2, <2>3, AccountStays, IdlesSafely DEF SaveWaits
<1>7. ASSUME SettlementFails PROVE Good
  <2>1. pc' = "thrown" /\ UNCHANGED <<disk, pendSave, lateClear, token>>
        /\ cur \in Messages /\ pc \notin Resting
    BY <1>7 DEF SettlementFails, diskVars, opMaps, CallInv, Resting
  <2>2. \/ Settled
        \/ UNCHANGED charged /\ UNCHANGED qstate
        \/ /\ UNCHANGED charged /\ qstate[cur] = "leased"
           /\ qstate' = [qstate EXCEPT ![cur] = "ready"]
    BY <1>7 DEF SettlementFails
  <2>3. CASE Settled
    BY <2>1, <2>3, <1>4, IdlesSafely DEF SaveWaits
  <2>4. CASE ~Settled
    <3>1. \A n \in Messages : qstate'[n] = "gone" <=> qstate[n] = "gone"
      BY <2>1, <2>2, <2>4 DEF TypeInvariant, WorldTypes
    <3> QED BY <2>1, <2>2, <2>4, <3>1, AccountStays, IdlesSafely DEF SaveWaits
  <2> QED BY <2>3, <2>4
<1>8. ASSUME PolicyStep \/ HasRequestCompletion \/ MarkRequestCompletion
             \/ ReviewRejected \/ (\E b \in BOOLEAN : LoadFails(b))
      PROVE  Good
  <2>1. UNCHANGED <<qstate, Books>>
    BY <1>8 DEF PolicyStep, PolicyAllows, PolicyRefuses, PolicyUnavailable,
       HasRequestCompletion, MarkRequestCompletion, ReviewRejected, LoadFails,
       queueVars, diskVars, opMaps, history
  <2>2. pc' \in {"mark", "lookup", "load", "ack", "retry", "thrown"}
    BY <1>8 DEF PolicyStep, PolicyAllows, PolicyRefuses, PolicyUnavailable,
       HasRequestCompletion, MarkRequestCompletion, ReviewRejected, LoadFails,
       SettleStoreFailure
  <2> QED BY <2>1, <2>2, <1>a DEF SaveWaits
<1>9. ASSUME LoadFailureState PROVE Good
  <2>1. /\ job \in Deliveries /\ ~lateClear[job] /\ ~pendSave[job].purge
        /\ charged[job] \in Nat /\ Accounted(job) /\ known[job] \in FailureStates
        /\ disk[job] \in FailureStates /\ floor[job] \in 0..MaxAttempts
    BY <1>9, JobFacts DEF LoadFailureState, Resting, CallInv, TypeInvariant, MapTypes
  <2> PICK j \in Deliveries : j = job
    BY <2>1
  <2>2. /\ LoadedFailures \in 0..MaxAttempts
        /\ ~disk[j].done => LoadedFailures >= Spent(disk[j])
    BY <2>1, ReconciledBounds DEF LoadedFailures
  <2>3. Spent(disk[j]) \in 0..MaxAttempts /\ charged[j] <= Spent(disk[j])
    BY <2>1, SpentBound DEF Accounted
  <2>4. UNCHANGED <<qstate, disk, charged, lateClear>> /\ cur' = cur
    BY <1>9 DEF LoadFailureState, SettleStoreFailure, ReserveOrSettle,
       queueVars, diskVars, history
  <2>5. \/ UNCHANGED <<pendSave, token>> /\ pc' \in {"mark", "ack", "retry"}
        \/ /\ ~disk[j].done
           /\ \/ /\ StartSave(Committed(LoadedFailures),
                              NextFailureSlot(LoadedFailures, floor[job], LoadedState),
                              LoadedState)
                 /\ pc' = "sync" /\ base' = LoadedFailures /\ UNCHANGED token
              \/ ReserveOrSettle(LoadedFailures, LoadedState)
    BY <1>9, Zenon DEF LoadFailureState, SettleStoreFailure
  <2>6. CASE UNCHANGED <<pendSave, token>> /\ pc' \in {"mark", "ack", "retry"}
    BY <2>4, <2>6, <1>a DEF SaveWaits
  <2>7. CASE ~disk[j].done /\ ReserveOrSettle(LoadedFailures, LoadedState)
    BY <2>1, <2>2, <2>3, <2>4, <2>7, ReserveOrSettleAccounts DEF MaxAttempts
  <2>8. CASE /\ ~disk[j].done
             /\ StartSave(Committed(LoadedFailures),
                          NextFailureSlot(LoadedFailures, floor[job], LoadedState),
                          LoadedState)
             /\ pc' = "sync" /\ base' = LoadedFailures /\ UNCHANGED token
    <3> DEFINE n == NextFailureSlot(LoadedFailures, floor[job], LoadedState)
               op == SaveOp(Committed(LoadedFailures), n)
    <3>1. n \in 0..MaxAttempts
      BY <2>1, LoadedType
    <3>2. /\ op \in SaveRecords /\ op.open /\ ~op.purge /\ op.refund = 0
          /\ op.state = Committed(LoadedFailures)
      BY <2>2, <3>1, SaveOpType, CommittedValid DEF SaveOp
    <3>3. pendSave' = [pendSave EXCEPT ![j] = op]
      BY <2>8 DEF StartSave
    <3>4. /\ ValidState(op.state) /\ op.state.owner = 0
          /\ Spent(op.state) = LoadedFailures
      BY <2>2, <3>2, CommittedValid
    <3> HIDE DEF op
    <3>5. charged[j] <= LoadedFailures
      BY <2>1, <2>2, <2>3, <2>8 DEF MaxAttempts
    <3>6. AccountInv' /\ pendSave'[j] = op
      <4>1. /\ charged[j] <= Spent(op.state) + op.refund
            /\ token' \in Nat /\ token' >= token /\ op.state.owner <= token'
        BY <1>b, <2>1, <2>2, <2>8, <3>2, <3>4, <3>5 DEF MaxAttempts
      <4> QED BY <2>1, <2>4, <3>2, <3>3, <3>4, <4>1, SaveStarts
    <3>7. job' = j
      BY <2>4 DEF job
    <3>8. AttemptInv'
      BY <2>4, <2>8, <3>2, <3>5, <3>6, <3>7 DEF AttemptInv, SaveWaits
    <3> QED BY <2>8, <3>6, <3>8 DEF OwnInv
  <2> QED BY <2>5, <2>6, <2>7, <2>8
<1>10. ASSUME NEW b \in BOOLEAN, JoinFails(b) PROVE Good
  <2>1. job \in Deliveries
    BY <1>10 DEF JoinFails, Resting, CallInv
  <2> PICK j \in Deliveries : j = job
    BY <2>1
  <2>2. /\ pc' \in {"ack", "retry"} /\ pendSave[j].open /\ UNCHANGED <<qstate, token>>
    BY <1>10 DEF JoinFails, SettleStoreFailure, queueVars
  <2>3. CASE b
    <3>1. /\ pendSave' = [pendSave EXCEPT ![j].counted = TRUE]
          /\ UNCHANGED <<disk, lateClear, charged>>
      BY <1>10, <2>3 DEF JoinFails
    <3> QED BY <2>2, <3>1, SaveCounted, IdlesSafely DEF SaveWaits
  <2>4. CASE ~b
    BY <1>10, <2>1, <2>2, <2>4, SaveSettles, IdlesSafely DEF JoinFails, SaveWaits
  <2> QED BY <2>3, <2>4
<1>11. ASSUME SyncSaved PROVE Good
  <2>1. /\ job \in Deliveries /\ ~lateClear[job] /\ ~pendSave[job].purge
        /\ charged[job] \in Nat /\ Accounted(job) /\ base \in 0..MaxAttempts
    BY <1>11, JobFacts DEF SyncSaved, Resting, CallInv
  <2> PICK j \in Deliveries : j = job
    BY <2>1
  <2>2. /\ pendSave[j].state = Committed(base) /\ charged[j] <= base
    BY <1>11 DEF SyncSaved, AttemptInv
  <2>3. /\ disk' = Written(j) /\ ReserveOrSettle(base, known[job])
        /\ UNCHANGED <<qstate, charged, lateClear>>
    BY <1>11 DEF SyncSaved, queueVars, history
  <2>4. /\ disk'[j] = Committed(base)
        /\ \A d \in Deliveries : d # j => disk'[d] = disk[d]
    BY <2>2, <2>3 DEF Written, TypeInvariant, WorldTypes
  <2>5. cur' = cur
    BY <2>3 DEF ReserveOrSettle
  <2>6. base <= MaxAttempts
    BY <2>1 DEF MaxAttempts
  <2> QED BY <2>1, <2>2, <2>3, <2>4, <2>5, <2>6, ReserveOrSettleAccounts
<1>12. ASSUME StartReview PROVE Good
  <2>1. /\ job \in Deliveries /\ ~lateClear[job] /\ ~pendSave[job].purge /\ ~IsGone(job)
        /\ charged[job] \in Nat /\ base \in 0..MaxAttempts /\ base < MaxAttempts
    BY <1>12, JobFacts DEF StartReview, Resting, CallInv, SlotInv
  <2> PICK j \in Deliveries : j = job
    BY <2>1
  <2>2. /\ pendSave[j].state = Reserved(base, token) /\ charged[j] <= base
    BY <1>12 DEF StartReview, AttemptInv
  <2>3. /\ disk' = Written(j) /\ pendSave' = [pendSave EXCEPT ![j] = NoSave]
        /\ charged' = [charged EXCEPT ![j] = @ + 1]
        /\ pc' = "review" /\ base' = base /\ cur' = cur
        /\ UNCHANGED <<qstate, lateClear, token>>
    BY <1>12 DEF StartReview, queueVars
  <2>4. /\ disk'[j] = Reserved(base, token) /\ pendSave'[j] = NoSave
        /\ charged'[j] = charged[j] + 1
        /\ \A d \in Deliveries : d # j =>
              disk'[d] = disk[d] /\ pendSave'[d] = pendSave[d] /\ charged'[d] = charged[d]
    BY <2>2, <2>3 DEF Written, TypeInvariant, WorldTypes, MapTypes
  <2>5. /\ ValidState(disk'[j]) /\ disk'[j].owner = token /\ disk'[j].committed = base
        /\ Spent(disk'[j]) = base + 1
    BY <1>b, <2>1, <2>4, ReservedValid
  <2>6. charged'[j] <= base + 1
    BY <2>1, <2>2, <2>4 DEF MaxAttempts
  <2>7. ~IsGone(j)'
    BY <2>1, <2>3 DEF IsGone
  <2>8. Accounted(j)'
    BY <1>b, <2>1, <2>3, <2>4, <2>5, <2>6, <2>7, NoSaveType DEF Accounted
  <2>9. AccountInv'
    BY <1>b, <2>3, <2>4, <2>8, AccountAt
  <2>10. job' = j /\ thisSlot' = base + 1
    BY <2>3 DEF job, thisSlot
  <2>11. AttemptInv'
    BY <2>3, <2>6, <2>10 DEF AttemptInv, SaveWaits
  <2>12. OwnInv'
    BY <2>3, <2>4, <2>5, <2>10, NoSaveType DEF OwnInv
  <2> QED BY <2>9, <2>11, <2>12
<1>13. ASSUME NEW s \in FailureStates, NEW n \in 0..MaxAttempts, NEW remembered,
              pc = "review", StartSave(s, n, remembered), ValidState(s), s.owner = 0,
              Spent(s) = thisSlot, UNCHANGED <<qstate, disk, charged, lateClear, token>>,
              base' = base, cur' = cur,
              \/ pc' = "fence" /\ s = Completed(base)
              \/ pc' = "commit" /\ s = Committed(thisSlot)
       PROVE  Good
  <2>1. /\ job \in Deliveries /\ ~lateClear[job] /\ charged[job] \in Nat
        /\ base \in 0..MaxAttempts
    BY <1>13, JobFacts DEF Resting, CallInv
  <2> PICK j \in Deliveries : j = job
    BY <2>1
  <2> DEFINE op == SaveOp(s, n)
  <2>2. /\ op \in SaveRecords /\ op.open /\ ~op.purge /\ op.refund = 0 /\ op.state = s
    BY <1>13, SaveOpType DEF SaveOp
  <2>3. pendSave' = [pendSave EXCEPT ![j] = op]
    BY <1>13 DEF StartSave
  <2>4. charged[j] <= thisSlot /\ thisSlot \in Nat
    BY <1>13, <2>1 DEF AttemptInv, thisSlot, MaxAttempts
  <2> HIDE DEF op
  <2>5. /\ charged[j] <= Spent(op.state) + op.refund /\ ValidState(op.state)
        /\ token' \in Nat /\ token' >= token /\ op.state.owner <= token'
    BY <1>b, <1>13, <2>1, <2>2, <2>4
  <2>6. AccountInv' /\ pendSave'[j] = op
    BY <1>13, <2>1, <2>2, <2>3, <2>5, SaveStarts
  <2>7. job' = j /\ thisSlot' = thisSlot
    BY <1>13 DEF job, thisSlot
  <2>8. AttemptInv'
    BY <1>13, <2>2, <2>4, <2>6, <2>7 DEF AttemptInv, SaveWaits
  <2> QED BY <1>13, <2>6, <2>8 DEF OwnInv
<1>14. ASSUME pc = "review"
       PROVE  /\ base \in 0..MaxAttempts /\ base < MaxAttempts
              /\ thisSlot \in 0..MaxAttempts /\ thisSlot = base + 1
  BY <1>14 DEF SlotInv, TypeInvariant, CallTypes, thisSlot, MaxAttempts
<1>15. ASSUME ReviewCompletes PROVE Good
  <2>1. pc = "review" /\ UNCHANGED <<qstate, disk, charged, lateClear, token>>
    BY <1>15 DEF ReviewCompletes, queueVars, diskVars
  <2>2. \/ UNCHANGED pendSave /\ pc' \in {"thrown", "ack"}
        \/ /\ StartSave(Completed(base), thisSlot, known[job])
           /\ pc' = "fence" /\ base' = base /\ cur' = cur
    BY <1>15 DEF ReviewCompletes
  <2>3. CASE UNCHANGED pendSave /\ pc' \in {"thrown", "ack"}
    BY <2>1, <2>3, <1>a DEF SaveWaits
  <2>4. CASE /\ StartSave(Completed(base), thisSlot, known[job])
             /\ pc' = "fence" /\ base' = base /\ cur' = cur
    <3>1. /\ Completed(base) \in FailureStates /\ ValidState(Completed(base))
          /\ Completed(base).owner = 0 /\ Spent(Completed(base)) = thisSlot
      BY <1>14, <2>1, CompletedValid
    <3> QED BY <1>13, <1>14, <2>1, <2>4, <3>1
  <2> QED BY <2>2, <2>3, <2>4
<1>16. ASSUME ReviewCancelled PROVE Good
  <2>1. /\ pc = "review" /\ StartSave(Completed(base), thisSlot, known[job])
        /\ pc' = "fence" /\ base' = base /\ cur' = cur
        /\ UNCHANGED <<qstate, disk, charged, lateClear, token>>
    BY <1>16 DEF ReviewCancelled, queueVars, diskVars
  <2> QED BY <1>13, <1>14, <2>1, CompletedValid
<1>17. ASSUME ReviewFails PROVE Good
  <2>1. StartSave(Committed(thisSlot), thisSlot, known[job])
    BY <1>17 DEF ReviewFails
  <2>2. /\ pc = "review" /\ pc' = "commit" /\ base' = base /\ cur' = cur
        /\ UNCHANGED <<qstate, disk, charged, lateClear, token>>
    BY <1>17 DEF ReviewFails, queueVars, diskVars, history
  <2>3. /\ Committed(thisSlot) \in FailureStates /\ ValidState(Committed(thisSlot))
        /\ Committed(thisSlot).owner = 0 /\ Spent(Committed(thisSlot)) = thisSlot
    BY <1>14, <2>2, CommittedValid
  <2> DEFINE s == Committed(thisSlot)
  <2>4. /\ s \in FailureStates /\ ValidState(s) /\ s.owner = 0 /\ Spent(s) = thisSlot
        /\ StartSave(s, thisSlot, known[job]) /\ s = Committed(thisSlot)
    BY <2>1, <2>3
  <2> HIDE DEF s
  <2> QED BY <1>13, <1>14, <2>2, <2>4
<1>18. ASSUME ReviewStopped PROVE Good
  <2>1. /\ pc = "review" /\ pc' = "undo" /\ base' = base /\ cur' = cur
        /\ verdict' = "refund" /\ UNCHANGED <<qstate, Books>>
    BY <1>18 DEF ReviewStopped, queueVars, diskVars, opMaps, history
  <2>2. AttemptInv' /\ OwnInv'
    BY <2>1 DEF AttemptInv, OwnInv, SaveWaits, job, thisSlot
  <2> QED BY <2>1, <2>2, AccountStays
<1>19. ASSUME pc \in {"sync", "reserve", "commit", "fence"}
       PROVE  /\ job \in Deliveries /\ pendSave[job].open
              /\ charged[job] <= Spent(pendSave[job].state)
  <2>1. /\ job \in Deliveries /\ base \in 0..MaxAttempts /\ charged[job] \in Nat
    BY <1>19, JobFacts DEF Resting, CallInv
  <2>2. pendSave[job].open
    BY <1>19 DEF AttemptInv, SaveWaits
  <2>3. CASE pc = "sync"
    <3>1. pendSave[job].state = Committed(base) /\ charged[job] <= base
      BY <2>3 DEF AttemptInv
    <3>2. Spent(Committed(base)) = base
      BY <2>1, CommittedValid
    <3> QED BY <2>1, <2>2, <3>1, <3>2
  <2>4. CASE pc # "sync"
    <3>1. pc # "sync" /\ base < MaxAttempts /\ thisSlot = base + 1
          /\ thisSlot \in 0..MaxAttempts
      BY <1>19, <2>1, <2>4 DEF SlotInv, thisSlot, MaxAttempts
    <3>2. Spent(pendSave[job].state) = thisSlot
      BY <1>19, <1>b, <2>1, <3>1, CommittedValid, CompletedValid, ReservedValid
         DEF AttemptInv
    <3>3. charged[job] <= thisSlot
      BY <1>19, <2>1, <3>1 DEF AttemptInv, MaxAttempts
    <3> QED BY <2>1, <2>2, <3>2, <3>3
  <2> QED BY <2>3, <2>4
<1>20. ASSUME CommitSaved \/ FenceSaved PROVE Good
  <2>1. pc \in {"sync", "reserve", "commit", "fence"} /\ disk' = Written(job)
        /\ UNCHANGED <<qstate, charged, lateClear, token>>
        /\ pendSave' = [pendSave EXCEPT ![job] = NoSave]
        /\ pc' \in {"thrown", "ack", "retry", "mark"}
    BY <1>20 DEF CommitSaved, FenceSaved, queueVars, history
  <2>2. AccountInv'
    BY <1>19, <2>1, SaveSettles
  <2> QED BY <2>1, <2>2, IdlesSafely DEF SaveWaits
<1>21. ASSUME NEW b \in BOOLEAN, SaveFails(b) PROVE Good
  <2>1. pc \in {"sync", "reserve", "commit", "fence"}
        /\ UNCHANGED <<qstate, charged, lateClear, token>>
        /\ pc' \in {"thrown", "ack", "retry"}
    BY <1>21 DEF SaveFails, SettleStoreFailure, queueVars
  <2>2. CASE b
    <3>1. /\ pendSave' = [pendSave EXCEPT ![job].counted = pc # "fence" /\ ~stopping]
          /\ UNCHANGED disk
      BY <1>21, <2>2, Zenon DEF SaveFails
    <3>2. AccountInv'
      BY <1>19, <2>1, <3>1, SaveCounted, Zenon
    <3> QED BY <2>1, <3>2, IdlesSafely DEF SaveWaits
  <2>3. CASE ~b
    <3>1. /\ pendSave' = [pendSave EXCEPT ![job] = NoSave]
          /\ UNCHANGED disk \/ disk' = Written(job)
      BY <1>21, <2>3, Zenon DEF SaveFails
    <3>2. AccountInv'
      BY <1>19, <2>1, <3>1, SaveSettles
    <3> QED BY <2>1, <3>2, IdlesSafely DEF SaveWaits
  <2> QED BY <2>2, <2>3
<1>22. ASSUME RollbackReservation PROVE Good
  <2>1. /\ pc = "undo" /\ UNCHANGED <<qstate, disk, charged, lateClear, token>>
    BY <1>22 DEF RollbackReservation, queueVars, diskVars, history
  <2>2. /\ job \in Deliveries /\ ~lateClear[job] /\ Accounted(job)
        /\ base \in 0..MaxAttempts /\ base < MaxAttempts /\ charged[job] \in Nat
        /\ known[job] \in FailureStates /\ floor[job] \in 0..MaxAttempts
    BY <2>1, JobFacts DEF Resting, CallInv, SlotInv, TypeInvariant, MapTypes
  <2> PICK j \in Deliveries : j = job
    BY <2>2
  <2> DEFINE n == NextFailureSlot(0, floor[job], known[job])
             r == IF verdict = "refund" THEN 1 ELSE 0
             op == [SaveOp(Committed(disk[job].committed), n) EXCEPT !.refund = r]
  <2>3. \/ pc' = "thrown" /\ UNCHANGED pendSave
        \/ /\ disk[j].owner = token /\ pc' = "undoSave" /\ cur' = cur
           /\ pendSave' = [pendSave EXCEPT ![j] = op]
    BY <1>22, Zenon DEF RollbackReservation
  <2>4. CASE pc' = "thrown" /\ UNCHANGED pendSave
    BY <2>1, <2>4, <1>a DEF SaveWaits
  <2>5. CASE /\ disk[j].owner = token /\ pc' = "undoSave" /\ cur' = cur
             /\ pendSave' = [pendSave EXCEPT ![j] = op]
    <3>1. disk[j].committed = base
      BY <2>1, <2>5 DEF OwnInv
    <3>2. n \in 0..MaxAttempts /\ r \in 0..1
      BY <2>2, SlotType DEF MaxAttempts
    <3>3. /\ op \in SaveRecords /\ op.open /\ ~op.purge /\ op.refund = r
          /\ op.state = Committed(base)
      <4>1. SaveOp(Committed(base), n) \in SaveRecords
        BY <2>2, <3>2, CommittedValid, SaveOpType
      <4> QED BY <3>1, <3>2, <4>1 DEF SaveOp, SaveRecords
    <3>4. charged[j] <= base + r
      BY <2>1, <2>2 DEF AttemptInv, thisSlot
    <3> HIDE DEF op, n, r
    <3>5. /\ ValidState(op.state) /\ charged[j] <= Spent(op.state) + op.refund
          /\ token' \in Nat /\ token' >= token /\ op.state.owner <= token'
      BY <1>b, <2>1, <2>2, <3>3, <3>4, CommittedValid
    <3>6. AccountInv' /\ pendSave'[j] = op
      BY <2>1, <2>2, <2>5, <3>3, <3>5, SaveStarts
    <3>7. job' = j
      BY <2>5 DEF job
    <3> QED BY <2>5, <3>3, <3>6, <3>7 DEF AttemptInv, OwnInv, SaveWaits
  <2> QED BY <2>3, <2>4, <2>5
<1>23. ASSUME RollbackSaved PROVE Good
  <2>1. /\ disk' = Written(job) /\ charged' = Refunded(job) /\ pc' = "thrown"
        /\ pendSave' = [pendSave EXCEPT ![job] = NoSave]
        /\ UNCHANGED <<qstate, lateClear, token>>
    BY <1>23 DEF RollbackSaved, queueVars
  <2>2. job \in Deliveries /\ pendSave[job].open
    BY <1>23 DEF RollbackSaved, CallInv, Resting, AttemptInv, SaveWaits
  <2> QED BY <2>1, <2>2, SaveSettles, IdlesSafely DEF SaveWaits
<1>24. ASSUME NEW b \in BOOLEAN, RollbackFails(b) PROVE Good
  <2>1. pc' = "thrown" /\ UNCHANGED <<qstate, lateClear, token>>
    BY <1>24 DEF RollbackFails, queueVars
  <2>2. \/ UNCHANGED <<disk, charged, pendSave>>
        \/ /\ pc = "undoSave" /\ pendSave' = [pendSave EXCEPT ![job] = NoSave]
           /\ \/ UNCHANGED <<disk, charged>>
              \/ disk' = Written(job) /\ charged' = Refunded(job)
    BY <1>24, Zenon DEF RollbackFails
  <2>3. CASE UNCHANGED <<disk, charged, pendSave>>
    BY <2>1, <2>3, <1>a DEF SaveWaits
  <2>4. CASE /\ pc = "undoSave" /\ pendSave' = [pendSave EXCEPT ![job] = NoSave]
             /\ \/ UNCHANGED <<disk, charged>>
                \/ disk' = Written(job) /\ charged' = Refunded(job)
    <3>1. job \in Deliveries /\ pendSave[job].open
      BY <2>4 DEF CallInv, Resting, AttemptInv, SaveWaits
    <3> QED BY <2>1, <2>4, <3>1, SaveSettles, IdlesSafely DEF SaveWaits
  <2> QED BY <2>2, <2>3, <2>4
<1>25. ASSUME ClearFailureState PROVE Good
  <2>1. pc = "clear" /\ cur \in Messages /\ job \in Deliveries
    BY <1>25 DEF ClearFailureState, CallInv, Resting
  <2> PICK j \in Deliveries : j = job
    BY <2>1
  <2>2. IsGone(j)
    BY <2>1 DEF IsGone, HeldInv, Resting, job
  <2>3. /\ pc' = "idle" /\ UNCHANGED <<qstate, charged, token>>
        /\ pendSave' = [pendSave EXCEPT ![j].purge = pendSave[j].open]
        /\ disk' = [disk EXCEPT ![j] = EmptyState] \/ UNCHANGED disk
        /\ lateClear' \in {lateClear, [lateClear EXCEPT ![j] = TRUE]}
    BY <1>25, Zenon DEF ClearFailureState, DropMaps, queueVars, history
  <2>4. /\ disk'[j] = EmptyState \/ disk'[j] = disk[j]
        /\ \A d \in Deliveries : d # j => disk'[d] = disk[d]
    BY <2>3 DEF TypeInvariant, WorldTypes
  <2>5. \A d \in Deliveries : d # j => lateClear'[d] = lateClear[d]
    BY <2>3 DEF TypeInvariant, MapTypes
  <2>6. /\ pendSave'[j].open = pendSave[j].open /\ pendSave'[j].state = pendSave[j].state
        /\ pendSave'[j].refund = pendSave[j].refund
        /\ \A d \in Deliveries : d # j => pendSave'[d] = pendSave[d]
    BY <2>3 DEF TypeInvariant, MapTypes, SaveRecords
  <2>7. Accounted(j) /\ charged[j] = 0
    BY <2>2 DEF AccountInv, Accounted
  <2>8. /\ ValidState(EmptyState) /\ EmptyState.owner = 0 /\ Spent(EmptyState) = 0
    BY CommittedValid DEF EmptyState, MaxAttempts
  <2>9. Accounted(j)'
    <3>1. IsGone(j)'
      BY <2>2, <2>3 DEF IsGone
    <3>2. ValidState(disk'[j]) /\ disk'[j].owner <= token /\ charged'[j] <= Spent(disk'[j])
      BY <1>b, <2>3, <2>4, <2>7, <2>8 DEF Accounted
    <3> QED BY <2>3, <2>6, <2>7, <3>1, <3>2 DEF Accounted
  <2>10. AccountInv'
    BY <1>b, <2>3, <2>4, <2>5, <2>6, <2>9, AccountAt
  <2> QED BY <2>3, <2>10, IdlesSafely DEF SaveWaits
<1>26. ASSUME NEW d \in Deliveries, NEW b \in BOOLEAN, LateSave(d, b) PROVE Good
  <2>1. /\ pendSave[d].open /\ ~Awaited(d) /\ pendSave' = [pendSave EXCEPT ![d] = NoSave]
        /\ lateClear' = [lateClear EXCEPT ![d] = @ \/ pendSave[d].purge]
        /\ UNCHANGED <<qstate, token, callVars>>
    BY <1>26 DEF LateSave, queueVars
  <2>2. \/ UNCHANGED <<disk, charged>>
        \/ disk' = Written(d) /\ charged' = Refunded(d)
    BY <1>26, Zenon DEF LateSave
  <2>3. AccountInv' /\ charged'[d] <= charged[d]
    BY <2>1, <2>2, SaveSettles
  <2>4. /\ \A e \in Deliveries : e # d => /\ disk'[e] = disk[e] /\ charged'[e] = charged[e]
                                         /\ pendSave'[e] = pendSave[e]
        /\ disk'[d] = disk[d] \/ disk'[d] = pendSave[d].state
        /\ ~pendSave'[d].open
    BY <2>1, <2>2, NoSaveType DEF Written, Refunded, TypeInvariant, WorldTypes, MapTypes
  <2>5. /\ job' = job /\ thisSlot' = thisSlot /\ pc' = pc /\ base' = base
        /\ verdict' = verdict
    BY <2>1 DEF callVars, job, thisSlot
  <2>6. CASE pc \notin SaveWaits /\ pc \notin {"review", "undo"}
    BY <2>3, <2>5, <2>6, IdlesSafely
  <2>7. CASE pc \in SaveWaits \/ pc \in {"review", "undo"}
    <3>1. /\ job \in Deliveries /\ base \in 0..MaxAttempts /\ charged[job] \in Nat
      BY <2>7, JobFacts DEF Resting, CallInv, SaveWaits
    <3>2. CASE job # d
      <4>1. /\ disk'[job] = disk[job] /\ pendSave'[job] = pendSave[job]
            /\ charged'[job] = charged[job] /\ token' = token
        BY <2>1, <2>4, <3>1, <3>2
      <4>2. AttemptInv'
        BY <2>5, <4>1 DEF AttemptInv
      <4>3. OwnInv'
        BY <2>5, <4>1 DEF OwnInv
      <4> QED BY <2>3, <4>2, <4>3
    <3>3. CASE job = d
      <4>1. pc \in {"review", "undo"}
        BY <2>1, <2>7, <3>3 DEF Awaited
      <4>2. charged'[d] \in Nat
        BY <2>2, WrittenType DEF TypeInvariant, WorldTypes
      <4>3. AttemptInv'
        BY <2>3, <2>5, <3>1, <3>3, <4>1, <4>2 DEF AttemptInv, SaveWaits, thisSlot
      <4>4. OwnInv'
        BY <2>1, <2>4, <2>5, <3>3, <4>1 DEF OwnInv
      <4> QED BY <2>3, <4>3, <4>4
    <3> QED BY <3>2, <3>3
  <2> QED BY <2>6, <2>7
<1>27. ASSUME NEW d \in Deliveries, LateClear(d) PROVE Good
  <2>1. /\ lateClear[d] /\ lateClear' = [lateClear EXCEPT ![d] = FALSE]
        /\ disk' = [disk EXCEPT ![d] = EmptyState] \/ UNCHANGED disk
        /\ UNCHANGED <<qstate, pendSave, charged, token, callVars>>
    BY <1>27 DEF LateClear, queueVars, history
  <2>2. Accounted(d) /\ IsGone(d) /\ charged[d] = 0
    BY <2>1 DEF AccountInv, Accounted
  <2>3. /\ ValidState(EmptyState) /\ EmptyState.owner = 0 /\ Spent(EmptyState) = 0
    BY CommittedValid DEF EmptyState, MaxAttempts
  <2>4. /\ disk'[d] = EmptyState \/ disk'[d] = disk[d]
        /\ \A e \in Deliveries : e # d => disk'[e] = disk[e]
    BY <2>1 DEF TypeInvariant, WorldTypes
  <2>5. /\ ~lateClear'[d]
        /\ \A e \in Deliveries : e # d => lateClear'[e] = lateClear[e]
    BY <2>1 DEF TypeInvariant, MapTypes
  <2>6. IsGone(d)'
    BY <2>1, <2>2 DEF IsGone
  <2>7. Accounted(d)'
    BY <1>b, <2>1, <2>2, <2>3, <2>4, <2>5, <2>6 DEF Accounted
  <2>8. AccountInv'
    <3>1. token' \in Nat /\ token' >= token
      BY <1>b, <2>1
    <3>2. \A e \in Deliveries : e # d =>
              /\ disk'[e] = disk[e] /\ pendSave'[e] = pendSave[e]
              /\ charged'[e] = charged[e] /\ lateClear'[e] = lateClear[e]
      BY <2>1, <2>4, <2>5
    <3> QED BY <2>1, <2>7, <3>1, <3>2, AccountAt
  <2>9. /\ job' = job /\ thisSlot' = thisSlot /\ pc' = pc /\ base' = base
        /\ verdict' = verdict
    BY <2>1 DEF callVars, job, thisSlot
  <2>10. AttemptInv'
    BY <2>1, <2>9 DEF AttemptInv
  <2>11. OwnInv'
    <3>1. CASE pc \in {"review", "undo", "reserve"}
      <4>1. job \in Deliveries /\ ~IsGone(job)
        BY <3>1, JobFacts DEF Resting, CallInv
      <4>2. disk'[job] = disk[job]
        BY <2>2, <2>4, <4>1
      <4> QED BY <2>1, <2>9, <4>2 DEF OwnInv
    <3>2. CASE pc \notin {"review", "undo", "reserve"}
      BY <2>9, <3>2 DEF OwnInv
    <3> QED BY <3>1, <3>2
  <2> QED BY <2>8, <2>10, <2>11
<1>28. ASSUME NEW d \in Deliveries, LateLoad(d) PROVE Good
  <2>1. UNCHANGED <<qstate, Books, callVars>>
    BY <1>28 DEF LateLoad, queueVars, diskVars, history
  <2>2. AttemptInv' /\ OwnInv'
    BY <2>1 DEF AttemptInv, OwnInv, callVars, job, thisSlot
  <2> QED BY <2>1, <2>2, AccountStays
<1>29. ASSUME Stop PROVE Good
  <2>1. UNCHANGED <<qstate, Books>>
    BY <1>29 DEF Stop, queueVars, diskVars, history
  <2>2. \/ pc' = "thrown"
        \/ pc = "reserve" /\ pc' = "undo" /\ base' = base /\ verdict' = "none" /\ cur' = cur
        \/ UNCHANGED callVars
    BY <1>29 DEF Stop
  <2>3. CASE pc' = "thrown"
    BY <2>1, <2>3, <1>a DEF SaveWaits
  <2>4. CASE pc = "reserve" /\ pc' = "undo" /\ base' = base /\ verdict' = "none" /\ cur' = cur
    <3>1. AttemptInv' /\ OwnInv'
      BY <2>1, <2>4 DEF AttemptInv, OwnInv, SaveWaits, job
    <3> QED BY <2>1, <3>1, AccountStays
  <2>5. CASE UNCHANGED callVars
    <3>1. AttemptInv' /\ OwnInv'
      BY <2>1, <2>5 DEF AttemptInv, OwnInv, callVars, job, thisSlot
    <3> QED BY <2>1, <3>1, AccountStays
  <2> QED BY <2>2, <2>3, <2>4, <2>5
<1>30. ASSUME Crash \/ Exit PROVE Good
  <2>1. GoDown
    BY <1>30 DEF Crash, Exit
  <2>2. PICK landed \in SUBSET {d \in Deliveries : pendSave[d].open} :
          /\ disk' = [d \in Deliveries |->
                         IF d \in landed THEN pendSave[d].state ELSE disk[d]]
          /\ charged' = [d \in Deliveries |->
                            IF d \in landed THEN Refunded(d)[d] ELSE charged[d]]
    BY <2>1 DEF GoDown
  <2>3. /\ pc' = "down" /\ UNCHANGED <<qstate, token>>
        /\ pendSave' = [d \in Deliveries |-> NoSave]
        /\ lateClear' = [d \in Deliveries |-> FALSE]
    BY <2>1 DEF GoDown, queueVars
  <2>4. ASSUME NEW d \in Deliveries PROVE Accounted(d)'
    <3>1. Accounted(d) /\ charged[d] \in Nat /\ pendSave[d].refund \in 0..1
          /\ (IsGone(d)' <=> IsGone(d))
      BY <2>3 DEF AccountInv, IsGone, TypeInvariant, WorldTypes, MapTypes, SaveRecords
    <3>2. pendSave'[d] = NoSave /\ ~lateClear'[d]
      BY <2>3
    <3>3. CASE d \notin landed
      BY <2>2, <2>3, <3>1, <3>2, <3>3, NoSaveType DEF Accounted
    <3>4. CASE d \in landed
      <4>1. pendSave[d].open /\ disk'[d] = pendSave[d].state
        BY <2>2, <3>4
      <4>2. charged'[d] = IF charged[d] >= pendSave[d].refund
                          THEN charged[d] - pendSave[d].refund ELSE 0
        BY <2>2, <3>4 DEF Refunded, TypeInvariant, WorldTypes
      <4>3. Spent(pendSave[d].state) \in 0..MaxAttempts
        BY <3>1, <4>1, SpentBound DEF Accounted
      <4>4. charged'[d] <= Spent(disk'[d]) /\ (charged[d] = 0 => charged'[d] = 0)
        BY <3>1, <4>1, <4>2, <4>3 DEF Accounted, MaxAttempts
      <4> QED BY <2>3, <3>1, <3>2, <4>1, <4>4, NoSaveType DEF Accounted
    <3> QED BY <3>3, <3>4
  <2> QED BY <2>3, <2>4, IdlesSafely DEF AccountInv, SaveWaits
<1>31. ASSUME Resume \/ Restart PROVE Good
  <2>1. pc' = "idle" /\ UNCHANGED <<qstate, Books>>
    BY <1>31 DEF Resume, Restart, queueVars, diskVars, opMaps, history
  <2> QED BY <2>1, <1>a DEF SaveWaits
<1> QED
  BY <1>1, <1>2, <1>3, <1>5, <1>6, <1>7, <1>8, <1>9, <1>10, <1>11, <1>12, <1>15,
     <1>16, <1>17, <1>18, <1>20, <1>21, <1>22, <1>23, <1>24, <1>25, <1>26, <1>27,
     <1>28, <1>29, <1>30, <1>31
     DEF Next, RunnerStep, QueueStep, StoreStep, ReviewStep, RollbackStep,
         LateStep, ProcessStep, PullNothing

-----------------------------------------------------------------------------
(* The theorems.                                                           *)

(* The invariant holds when the daemon first starts.                       *)
LEMMA QueueInit == Init => QueueInv
<1> SUFFICES ASSUME Init PROVE QueueInv
  OBVIOUS
<1>1. /\ EmptyState \in FailureStates /\ ValidState(EmptyState)
      /\ EmptyState.owner = 0 /\ Spent(EmptyState) = 0
  BY CommittedValid DEF EmptyState, MaxAttempts
<1>2. WorldTypes
  BY <1>1, FaultsAssumption DEF Init, WorldTypes, MaxAttempts
<1>3. MapTypes
  BY <1>1, NoSaveType DEF Init, MapTypes, MaxAttempts
<1>4. CallTypes
  <2>1. stopping \in BOOLEAN
    BY DEF Init
  <2> QED BY <2>1 DEF Init, CallTypes, PCs, Verdicts, MaxAttempts
<1>5. CallInv /\ HeldInv /\ SlotInv /\ AttemptInv /\ OwnInv
  BY DEF Init, CallInv, HeldInv, SlotInv, AttemptInv, OwnInv, Resting, SaveWaits
<1>6. AccountInv
  <2> SUFFICES ASSUME NEW d \in Deliveries PROVE Accounted(d)
    BY DEF AccountInv
  <2>1. /\ disk[d] = EmptyState /\ pendSave[d] = NoSave /\ charged[d] = 0
        /\ ~lateClear[d] /\ token = 0
    BY DEF Init
  <2> QED BY <1>1, <2>1, NoSaveType DEF Accounted
<1> QED BY <1>2, <1>3, <1>4, <1>5, <1>6 DEF QueueInv, TypeInvariant

(* The invariant is inductive.                                             *)
LEMMA QueueInductive == QueueInv /\ [Next]_vars => QueueInv'
<1> SUFFICES ASSUME QueueInv, [Next]_vars PROVE QueueInv'
  OBVIOUS
<1>1. /\ TypeInvariant /\ CallInv /\ HeldInv /\ SlotInv /\ AttemptInv /\ OwnInv
      /\ AccountInv
  BY DEF QueueInv
<1>2. TypeInvariant' /\ CallInv'
  BY <1>1, TypeStep
<1>3. HeldInv' /\ SlotInv'
  BY <1>1, HeldStep
<1>4. AttemptInv' /\ OwnInv' /\ AccountInv'
  BY <1>1, AccountStep
<1> QED BY <1>2, <1>3, <1>4 DEF QueueInv

(* The invariant holds in every reachable state, for any constants.        *)
THEOREM QueueInvariance == Spec => []QueueInv
<1>1. Init => QueueInv
  BY QueueInit
<1>2. QueueInv /\ [Next]_vars => QueueInv'
  BY QueueInductive
<1> QED BY <1>1, <1>2, PTL DEF Spec

(* Type correctness: no slot, floor or failure count ever exceeds three.   *)
THEOREM TypeCorrect == Spec => []TypeInvariant
<1>1. QueueInv => TypeInvariant
  BY DEF QueueInv
<1> QED BY <1>1, QueueInvariance, PTL

(* The runner saves only states that it can load again.                    *)
THEOREM SavesAreValid == Spec => []SavedStatesValid
<1>1. QueueInv => SavedStatesValid
  BY DEF QueueInv, AccountInv, Accounted, SavedStatesValid
<1> QED BY <1>1, QueueInvariance, PTL

(* The file of a delivery accounts for the reviews started on it, so that  *)
(* a restart cannot spend the same slot twice.                             *)
THEOREM ChargesSurviveRestarts == Spec => []ChargesAreDurable
<1>1. QueueInv => ChargesAreDurable
  BY DEF QueueInv, AccountInv, Accounted, ChargesAreDurable, Spent
<1> QED BY <1>1, QueueInvariance, PTL

(* No delivery is reviewed more than three times before it is settled, for *)
(* any number of messages, crashes, aborts and lost or late operations.    *)
THEOREM BudgetHolds == Spec => []AttemptBudget
<1>1. QueueInv => AttemptBudget
  <2> SUFFICES ASSUME QueueInv, NEW d \in Deliveries PROVE charged[d] <= MaxAttempts
    BY DEF AttemptBudget
  <2>1. Accounted(d) /\ charged[d] \in Nat
    BY DEF QueueInv, AccountInv, TypeInvariant, WorldTypes
  <2>2. Spent(disk[d]) \in 0..MaxAttempts
    BY <2>1, SpentBound DEF Accounted
  <2> QED BY <2>1, <2>2 DEF Accounted, MaxAttempts
<1> QED BY <1>1, QueueInvariance, PTL
=============================================================================
