--------------------------- MODULE QueueOnceProofs ---------------------------
(***************************************************************************)
(* Further proofs about QueueRunner, for any number of messages, requests  *)
(* and faults: the file of an unsettled delivery never loses an attempt,   *)
(* a review that ran to its end does not start again, and no message is    *)
(* dropped without a reason.                                               *)
(*                                                                         *)
(* A save is started only when the file is known, and the next one only    *)
(* when that one has settled; so it is enough to look at what each save    *)
(* starts from.                                                            *)
(***************************************************************************)
EXTENDS QueueRunnerProofs

(* A write that loses no attempt, or gives back one that was not used.     *)
Keeps(was, is) ==
    \/ is.done
    \/ ~was.done /\ EffectiveAttempt(is) >= EffectiveAttempt(was)
    \/ HasReservation(was) /\ ~was.done /\ is = Committed(was.committed)

(* A save in flight may land at any time.                                  *)
FlightInv ==
    \A d \in Deliveries :
        pendSave[d].open => IsGone(d) \/ Keeps(disk[d], pendSave[d].state)

(* During a review the file holds its reservation.                         *)
ReviewInv ==
    pc = "review" => disk[job] = Reserved(base, token) /\ ~pendSave[job].open

(* A fence on disk stays there, and no save in flight lowers it.           *)
FenceInv ==
    \A d \in fenced :
        \/ IsGone(d)
        \/ disk[d].done /\ (pendSave[d].open => pendSave[d].state.done)

(* A call that may yet review has found its request not completed.         *)
RequestInv ==
    /\ pc \in {"lookup", "load", "sync", "reserve"} /\ Requested =>
          request \notin doneRequests
    /\ pc \in {"load", "sync", "reserve"} /\ Requested =>
          request \notin completions

(* Unless the store failed or the process crashed, a requested review that *)
(* ran to its end has its marker, or the call at hand is about to write it.*)
MarkInv ==
    faults.memory = "kept" =>
        \A d \in finished :
            \/ RequestOf[d] = NoRequest
            \/ RequestOf[d] \in completions
            \/ pc \in {"fence", "mark"} /\ request = RequestOf[d]

OnceInv == FlightInv /\ ReviewInv /\ FenceInv /\ RequestInv /\ MarkInv

-----------------------------------------------------------------------------
(* What a step may do to the file and the save of a delivery.              *)

Orderly(d) ==
    \/ IsGone(d)
    \/ /\ \/ disk'[d] = disk[d]
          \/ pendSave[d].open /\ disk'[d] = pendSave[d].state
       /\ pendSave'[d].open =>
             \/ pendSave[d].open /\ pendSave'[d].state = pendSave[d].state
             \/ Keeps(disk'[d], pendSave'[d].state)
       /\ d \in fenced' =>
             d \in fenced \/ (disk'[d].done /\ ~pendSave'[d].open)

(* A state keeps itself.                                                   *)
LEMMA KeepsItself ==
    ASSUME NEW s \in FailureStates PROVE Keeps(s, s)
BY DEF Keeps, FailureStates, EffectiveAttempt

(* More committed failures than a state accounts for keep it, reserved or  *)
(* not, and a fence keeps every state.                                     *)
LEMMA CommittedKeeps ==
    ASSUME NEW s \in FailureStates, ~s.done, NEW n \in 0..MaxAttempts,
           n >= EffectiveAttempt(s)
    PROVE  Keeps(s, Committed(n))
BY CommittedValid DEF Keeps, EffectiveAttempt, Committed, HasReservation

LEMMA ReservedKeeps ==
    ASSUME NEW s \in FailureStates, ~s.done, NEW n \in 0..MaxAttempts,
           n >= EffectiveAttempt(s), NEW o
    PROVE  Keeps(s, Reserved(n, o))
BY DEF Keeps, EffectiveAttempt, Reserved, HasReservation, FailureStates,
       MaxAttempts

(* The queue drops a message for good.                                     *)
LEMMA GoneStays ==
    ASSUME TypeInvariant, CallInv, [Next]_vars, NEW d, IsGone(d)
    PROVE  IsGone(d)'
<1> PICK m \in Messages : JobOf[m] = d /\ qstate[m] = "gone"
  BY DEF IsGone
<1> SUFFICES qstate'[m] = "gone"
  BY DEF IsGone
<1>1. CASE UNCHANGED qstate
  BY <1>1
<1>2. ASSUME NEW n \in Messages, Pull(n) \/ LeaseExpires(n)
      PROVE  qstate'[m] = "gone"
  BY <1>2 DEF Pull, LeaseExpires, TypeInvariant, WorldTypes
<1>3. CASE Acknowledge \/ Retry \/ SettlementFails
  <2>1. \/ UNCHANGED qstate
        \/ qstate' = [qstate EXCEPT ![cur] = "gone"]
        \/ qstate[cur] = "leased" /\ qstate' = [qstate EXCEPT ![cur] = "ready"]
    BY <1>3 DEF Acknowledge, Retry, SettlementFails, Settled
  <2> QED BY <2>1 DEF TypeInvariant, WorldTypes
<1>4. CASE \/ PolicyStep \/ StoreStep \/ ReviewStep \/ RollbackStep
           \/ ProcessStep \/ Stop \/ Crash
           \/ \E e \in Deliveries : LateStep(e)
  <2>1. UNCHANGED queueVars
    BY <1>4 DEF PolicyStep, PolicyAllows, PolicyRefuses, PolicyUnavailable,
       StoreStep, HasRequestCompletion, LoadFailureState, LoadFails,
       JoinFails, SaveFails, SyncSaved, StartReview, CommitSaved, FenceSaved,
       MarkRequestCompletion, ClearFailureState, ReviewStep,
       ReviewCompletes, ReviewCancelled, ReviewRejected, ReviewFails,
       ReviewStopped, RollbackStep, RollbackReservation, RollbackSaved,
       RollbackFails, ProcessStep, Exit, GoDown, Resume, Restart, Stop,
       Crash, LateStep, LateSave, LateClear, LateLoad
  <2> QED BY <2>1, <1>1 DEF queueVars
<1> QED
  BY <1>1, <1>2, <1>3, <1>4
     DEF Next, RunnerStep, QueueStep, PullNothing, vars, queueVars

(* A save in flight lands, or is lost, or goes on.                         *)
LEMMA SettlesOrderly ==
    ASSUME TypeInvariant, NEW j \in Deliveries, pendSave[j].open,
           disk' = disk \/ disk' = Written(j),
           \/ pendSave' = [pendSave EXCEPT ![j] = NoSave]
           \/ \E c \in BOOLEAN : pendSave' = [pendSave EXCEPT ![j].counted = c]
           \/ UNCHANGED pendSave,
           \/ UNCHANGED fenced
           \/ /\ fenced' \subseteq fenced \cup {j} /\ pendSave[j].state.done
              /\ disk' = Written(j)
              /\ pendSave' = [pendSave EXCEPT ![j] = NoSave],
           NEW d \in Deliveries
    PROVE  Orderly(d)
<1>1. /\ disk \in [Deliveries -> FailureStates]
      /\ pendSave \in [Deliveries -> SaveRecords]
  BY DEF TypeInvariant, WorldTypes, MapTypes
<1>2. \/ disk'[d] = disk[d]
      \/ d = j /\ disk'[d] = pendSave[d].state
  BY <1>1 DEF Written
<1>3. pendSave'[d].open =>
         pendSave[d].open /\ pendSave'[d].state = pendSave[d].state
  <2>1. CASE d = j
    BY <1>1, <2>1, NoSaveType DEF SaveRecords
  <2>2. CASE d # j
    BY <1>1, <2>2
  <2> QED BY <2>1, <2>2
<1>4. d \in fenced' => d \in fenced \/ (disk'[d].done /\ ~pendSave'[d].open)
  <2>1. CASE d = j
    BY <1>1, <2>1, NoSaveType DEF Written
  <2>2. CASE d # j
    BY <2>2
  <2> QED BY <2>1, <2>2
<1> QED BY <1>2, <1>3, <1>4 DEF Orderly

(* A save starts.                                                          *)
LEMMA StartsOrderly ==
    ASSUME TypeInvariant, NEW j \in Deliveries, NEW op,
           pendSave' = [pendSave EXCEPT ![j] = op],
           Keeps(disk[j], op.state),
           UNCHANGED <<disk, fenced>>, NEW d \in Deliveries
    PROVE  Orderly(d)
<1>1. pendSave \in [Deliveries -> SaveRecords]
  BY DEF TypeInvariant, MapTypes
<1>2. CASE d = j
  BY <1>1, <1>2 DEF Orderly
<1>3. CASE d # j
  BY <1>1, <1>3 DEF Orderly
<1> QED BY <1>2, <1>3

(* Nothing is written.                                                     *)
LEMMA RestsOrderly ==
    ASSUME UNCHANGED <<disk, pendSave, fenced>>, NEW d \in Deliveries
    PROVE  Orderly(d)
BY DEF Orderly

(* Every step is orderly: what it saves loses nothing of the file.         *)
LEMMA StepIsOrderly ==
    ASSUME QueueInv, ReviewInv, [Next]_vars, NEW d \in Deliveries
    PROVE  Orderly(d)
<1> USE DEF Goto, Throw, Finish
<1>t. /\ TypeInvariant /\ CallInv /\ HeldInv /\ SlotInv /\ AttemptInv
      /\ AccountInv
  BY DEF QueueInv
<1>a. ASSUME UNCHANGED <<disk, pendSave, fenced>> PROVE Orderly(d)
  BY <1>a, RestsOrderly
<1>j. ASSUME pc \notin Resting, pc # "clear", verdict # "malformed"
      PROVE  /\ job \in Deliveries /\ base \in 0..MaxAttempts
             /\ disk[job] \in FailureStates /\ ValidState(disk[job])
             /\ pendSave[job] \in SaveRecords
  BY <1>j, <1>t, JobFacts DEF Accounted
<1>1. CASE \/ UNCHANGED vars \/ QueueStep \/ PolicyStep \/ Stop \/ Resume
           \/ Restart \/ HasRequestCompletion \/ MarkRequestCompletion
           \/ \E b \in BOOLEAN : LoadFails(b)
           \/ ReviewRejected \/ ReviewStopped
           \/ \E m \in Messages : LeaseExpires(m)
  BY <1>1, <1>a
     DEF vars, diskVars, opMaps, history, QueueStep, Pull, PullNothing,
         Acknowledge, Retry, SettlementFails, PolicyStep, PolicyAllows,
         PolicyRefuses, PolicyUnavailable, Stop, Resume, Restart,
         HasRequestCompletion, MarkRequestCompletion, LoadFails,
         ReviewRejected, ReviewStopped, LeaseExpires
<1>2. CASE LoadFailureState
  <2>1. pc = "load" /\ verdict # "malformed" /\ UNCHANGED <<disk, fenced>>
    BY <1>2, <1>t DEF LoadFailureState, CallInv, diskVars, history
  <2>2. job \in Deliveries /\ disk[job] \in FailureStates
    BY <2>1, <1>j DEF Resting
  <2>3. /\ LoadedFailures \in 0..MaxAttempts
        /\ ~disk[job].done => LoadedFailures >= EffectiveAttempt(disk[job])
    BY <1>t, <2>2, ReconciledBounds
       DEF LoadedFailures, Spent, TypeInvariant, MapTypes
  <2>4. CASE UNCHANGED pendSave
    BY <2>1, <2>4, <1>a
  <2>5. CASE ~UNCHANGED pendSave
    <3>1. ~disk[job].done
      BY <1>2, <2>5 DEF LoadFailureState
    <3>2. \/ \E n : pendSave' = [pendSave EXCEPT ![job] =
                                   SaveOp(Committed(LoadedFailures), n)]
          \/ \E n, o : pendSave' = [pendSave EXCEPT ![job] =
                                      SaveOp(Reserved(LoadedFailures, o), n)]
          \/ pendSave' = [pendSave EXCEPT ![job] = NoSave]
      BY <1>2, <2>5 DEF LoadFailureState, StartSave, ReserveOrSettle
    <3>3. /\ Keeps(disk[job], Committed(LoadedFailures))
          /\ \A o : Keeps(disk[job], Reserved(LoadedFailures, o))
      BY <2>2, <2>3, <3>1, CommittedKeeps, ReservedKeeps
    <3>4. \A s, n : SaveOp(s, n).state = s
      BY DEF SaveOp
    <3>5. CASE pendSave' = [pendSave EXCEPT ![job] = NoSave]
      BY <1>t, <2>1, <2>2, <3>5, NoSaveType
         DEF Orderly, TypeInvariant, MapTypes
    <3> QED BY <1>t, <2>1, <2>2, <3>2, <3>3, <3>4, <3>5, StartsOrderly
  <2> QED BY <2>4, <2>5
<1>3. CASE \/ \E b \in BOOLEAN : JoinFails(b) \/ SaveFails(b) \/ RollbackFails(b)
           \/ StartReview \/ CommitSaved \/ FenceSaved \/ RollbackSaved
  <2>1. pc \in SaveWaits \cup {"load", "undo"} /\ verdict # "malformed"
    BY <1>3, <1>t
       DEF JoinFails, SaveFails, RollbackFails, StartReview, CommitSaved,
           FenceSaved, RollbackSaved, SaveWaits, CallInv
  <2>2. job \in Deliveries /\ pendSave[job] \in SaveRecords
    BY <2>1, <1>j DEF Resting, SaveWaits
  <2>3. pc # "undo" => pendSave[job].open \/ UNCHANGED <<disk, pendSave, fenced>>
    BY <1>3, <1>t, <2>1
       DEF JoinFails, SaveFails, RollbackFails, StartReview, CommitSaved,
           FenceSaved, RollbackSaved, SaveWaits, AttemptInv
  <2>4. pc = "undo" => UNCHANGED <<disk, pendSave, fenced>>
    BY <1>3
       DEF JoinFails, SaveFails, RollbackFails, StartReview, CommitSaved,
           FenceSaved, RollbackSaved, diskVars, history
  <2>5. /\ disk' = disk \/ disk' = Written(job)
        /\ \/ pendSave' = [pendSave EXCEPT ![job] = NoSave]
           \/ \E c \in BOOLEAN :
                 pendSave' = [pendSave EXCEPT ![job].counted = c]
           \/ UNCHANGED pendSave
    BY <1>3
       DEF JoinFails, SaveFails, RollbackFails, StartReview, CommitSaved,
           FenceSaved, RollbackSaved
  <2>6. \/ UNCHANGED fenced
        \/ /\ fenced' \subseteq fenced \cup {job} /\ pendSave[job].state.done
           /\ disk' = Written(job)
           /\ pendSave' = [pendSave EXCEPT ![job] = NoSave]
    <3>1. CASE FenceSaved
      <4>1. pendSave[job].state.done
        BY <1>t, <3>1 DEF FenceSaved, AttemptInv, Completed
      <4> QED BY <3>1, <4>1 DEF FenceSaved
    <3>2. CASE \E b \in BOOLEAN : JoinFails(b) \/ SaveFails(b)
      <4>1. \/ UNCHANGED fenced
            \/ /\ fenced' = Fences(job) /\ disk' = Written(job)
               /\ pendSave' = [pendSave EXCEPT ![job] = NoSave]
        BY <3>2 DEF JoinFails, SaveFails
      <4> QED BY <4>1 DEF Fences
    <3>3. CASE \/ \E b \in BOOLEAN : RollbackFails(b)
               \/ StartReview \/ CommitSaved \/ RollbackSaved
      BY <3>3
         DEF RollbackFails, StartReview, CommitSaved, RollbackSaved, history
    <3> QED BY <1>3, <3>1, <3>2, <3>3
  <2> QED BY <1>t, <2>1, <2>2, <2>3, <2>4, <2>5, <2>6, <1>a, SettlesOrderly
<1>4. CASE SyncSaved
  <2>1. pc = "sync" /\ verdict # "malformed"
    BY <1>4, <1>t DEF SyncSaved, CallInv
  <2>2. /\ job \in Deliveries /\ base \in 0..MaxAttempts
        /\ pendSave[job].open /\ pendSave[job].state = Committed(base)
    BY <1>t, <2>1, <1>j DEF Resting, AttemptInv, SaveWaits
  <2>3. disk' = [disk EXCEPT ![job] = Committed(base)] /\ UNCHANGED fenced
    BY <1>4, <2>2 DEF SyncSaved, Written, history
  <2>4. \/ pendSave' = [pendSave EXCEPT ![job] = NoSave]
        \/ \E n, o : pendSave' = [pendSave EXCEPT ![job] =
                                    SaveOp(Reserved(base, o), n)]
    BY <1>4 DEF SyncSaved, ReserveOrSettle, StartSave
  <2>5. /\ disk \in [Deliveries -> FailureStates]
        /\ pendSave \in [Deliveries -> SaveRecords]
    BY <1>t DEF TypeInvariant, WorldTypes, MapTypes
  <2>6. CASE d # job
    BY <2>3, <2>4, <2>5, <2>6 DEF Orderly
  <2>7. CASE d = job
    <3>1. disk'[d] = Committed(base)
      BY <2>2, <2>3, <2>5, <2>7
    <3>2. \A o : Keeps(Committed(base), Reserved(base, o))
      BY <2>2, CommittedValid, ReservedKeeps
         DEF EffectiveAttempt, HasReservation, Committed
    <3>3. \A s, n : SaveOp(s, n).state = s
      BY DEF SaveOp
    <3>4. \/ pendSave'[d] = NoSave
          \/ \E n, o : pendSave'[d] = SaveOp(Reserved(base, o), n)
      BY <2>2, <2>4, <2>5, <2>7
    <3> QED BY <2>2, <2>3, <2>7, <3>1, <3>2, <3>3, <3>4, NoSaveType DEF Orderly
  <2> QED BY <2>6, <2>7
<1>5. CASE ReviewCompletes \/ ReviewCancelled \/ ReviewFails
  <2>1. pc = "review" /\ verdict # "malformed" /\ UNCHANGED <<disk, fenced>>
    BY <1>5, <1>t
       DEF ReviewCompletes, ReviewCancelled, ReviewFails, CallInv, diskVars,
           history
  <2>2. /\ job \in Deliveries /\ base \in 0..MaxAttempts /\ base < MaxAttempts
        /\ disk[job] = Reserved(base, token) /\ token \in Nat
    BY <1>t, <2>1, <1>j
       DEF Resting, ReviewInv, SlotInv, TypeInvariant, MapTypes
  <2>3. \/ UNCHANGED pendSave
        \/ \E n : pendSave' = [pendSave EXCEPT ![job] = SaveOp(Completed(base), n)]
        \/ \E n : pendSave' = [pendSave EXCEPT ![job] = SaveOp(Committed(thisSlot), n)]
    BY <1>5 DEF ReviewCompletes, ReviewCancelled, ReviewFails, StartSave
  <2>4. Keeps(disk[job], Completed(base))
    BY DEF Keeps, Completed
  <2>5. Keeps(disk[job], Committed(thisSlot))
    <3>1. /\ disk[job] \in FailureStates /\ ~disk[job].done
          /\ thisSlot \in 0..MaxAttempts
          /\ EffectiveAttempt(disk[job]) = thisSlot
      BY <2>2, ReservedValid
         DEF thisSlot, Reserved, EffectiveAttempt, HasReservation, MaxAttempts
    <3> QED BY <3>1, CommittedKeeps DEF MaxAttempts
  <2>6. \A s, n : SaveOp(s, n).state = s
    BY DEF SaveOp
  <2>7. \/ UNCHANGED pendSave
        \/ \E op : /\ pendSave' = [pendSave EXCEPT ![job] = op]
                   /\ Keeps(disk[job], op.state)
    BY <2>3, <2>4, <2>5, <2>6
  <2> QED BY <1>t, <2>1, <2>2, <2>7, <1>a, StartsOrderly
<1>6. CASE RollbackReservation
  <2>1. pc = "undo" /\ verdict # "malformed" /\ UNCHANGED <<disk, fenced>>
    BY <1>6, <1>t DEF RollbackReservation, CallInv, diskVars, history
  <2>2. job \in Deliveries /\ ValidState(disk[job])
    BY <2>1, <1>j DEF Resting
  <2>3. \/ UNCHANGED pendSave
        \/ /\ HasReservation(disk[job])
           /\ \E n, r : pendSave' = [pendSave EXCEPT ![job] =
                 [SaveOp(Committed(disk[job].committed), n) EXCEPT !.refund = r]]
    BY <1>6 DEF RollbackReservation
  <2>4. HasReservation(disk[job]) =>
           Keeps(disk[job], Committed(disk[job].committed))
    BY <2>2 DEF Keeps, ValidState
  <2>5. CASE UNCHANGED pendSave
    BY <2>1, <2>5, <1>a
  <2>6. CASE ~UNCHANGED pendSave
    <3>1. PICK n, r : pendSave' = [pendSave EXCEPT ![job] =
             [SaveOp(Committed(disk[job].committed), n) EXCEPT !.refund = r]]
      BY <2>3, <2>6
    <3> DEFINE op ==
          [SaveOp(Committed(disk[job].committed), n) EXCEPT !.refund = r]
    <3>2. op.state = Committed(disk[job].committed)
      BY DEF SaveOp
    <3>3. Keeps(disk[job], op.state)
      BY <2>3, <2>4, <2>6, <3>2
    <3>4. pendSave' = [pendSave EXCEPT ![job] = op]
      BY <3>1
    <3> HIDE DEF op
    <3> QED BY <1>t, <2>1, <2>2, <3>3, <3>4, StartsOrderly
  <2> QED BY <2>5, <2>6
<1>7. CASE ClearFailureState
  <2>1. job \in Deliveries /\ IsGone(job)
    <3>1. cur \in Messages /\ verdict # "malformed" /\ qstate[cur] = "gone"
      BY <1>7, <1>t DEF ClearFailureState, CallInv, HeldInv, Resting
    <3> QED BY <1>7, <1>t, <3>1 DEF CallInv, IsGone, job, ClearFailureState,
               Resting
  <2>2. d # job => disk'[d] = disk[d] /\ pendSave'[d] = pendSave[d]
    <3>1. pendSave' = [pendSave EXCEPT ![job].purge = pendSave[job].open]
      BY <1>7, Zenon DEF ClearFailureState, DropMaps
    <3>2. disk' = [disk EXCEPT ![job] = EmptyState] \/ UNCHANGED disk
      BY <1>7, Zenon DEF ClearFailureState
    <3> QED BY <1>t, <3>1, <3>2 DEF TypeInvariant, WorldTypes, MapTypes
  <2>3. UNCHANGED fenced
    BY <1>7 DEF ClearFailureState, history
  <2> QED BY <2>1, <2>2, <2>3 DEF Orderly
<1>8. ASSUME NEW e \in Deliveries, LateStep(e) PROVE Orderly(d)
  <2>1. CASE \E lands \in BOOLEAN : LateSave(e, lands)
    <3>1. /\ pendSave[e].open
          /\ disk' = disk \/ disk' = Written(e)
          /\ pendSave' = [pendSave EXCEPT ![e] = NoSave]
          /\ \/ UNCHANGED fenced
             \/ /\ fenced' \subseteq fenced \cup {e} /\ pendSave[e].state.done
                /\ disk' = Written(e)
      BY <2>1 DEF LateSave, Fences
    <3> QED BY <1>t, <3>1, SettlesOrderly
  <2>2. CASE LateClear(e)
    <3>1. IsGone(e)
      BY <1>t, <2>2 DEF LateClear, AccountInv, Accounted
    <3>2. UNCHANGED <<pendSave, fenced>> /\ (d # e => disk'[d] = disk[d])
      BY <1>t, <2>2 DEF LateClear, history, TypeInvariant, WorldTypes
    <3> QED BY <3>1, <3>2 DEF Orderly
  <2>3. CASE LateLoad(e)
    BY <2>3, <1>a DEF LateLoad, diskVars, history
  <2> QED BY <1>8, <2>1, <2>2, <2>3 DEF LateStep
<1>9. CASE Crash \/ Exit
  <2>1. PICK landed \in SUBSET {e \in Deliveries : pendSave[e].open} :
          /\ disk' = [e \in Deliveries |->
                         IF e \in landed THEN pendSave[e].state ELSE disk[e]]
          /\ fenced' = fenced \cup {e \in landed : pendSave[e].state.done}
    BY <1>9 DEF Crash, Exit, GoDown
  <2>2. ~pendSave'[d].open
    BY <1>9, NoSaveType DEF Crash, Exit, GoDown
  <2> QED BY <2>1, <2>2 DEF Orderly
<1> QED
  BY <1>1, <1>2, <1>3, <1>4, <1>5, <1>6, <1>7, <1>8, <1>9
     DEF Next, RunnerStep, StoreStep, ReviewStep, RollbackStep, ProcessStep

-----------------------------------------------------------------------------
(* The parts of the invariant.                                             *)

(* A delivery keeps what its save in flight keeps, and its fence.          *)
LEMMA FlightKept ==
    ASSUME QueueInv, TypeInvariant', FlightInv, ReviewInv, FenceInv,
           [Next]_vars
    PROVE  FlightInv' /\ FenceInv'
<1>t. TypeInvariant /\ CallInv
  BY DEF QueueInv
<1>s. ASSUME NEW d \in Deliveries
      PROVE  /\ Orderly(d) /\ (IsGone(d) => IsGone(d)')
             /\ pendSave[d].state \in FailureStates
  BY <1>t, GoneStays, StepIsOrderly
     DEF TypeInvariant, MapTypes, SaveRecords
<1>1. ASSUME NEW d \in Deliveries, pendSave'[d].open
      PROVE  IsGone(d)' \/ Keeps(disk'[d], pendSave'[d].state)
  <2>1. CASE IsGone(d)
    BY <1>s, <2>1
  <2>2. CASE ~IsGone(d) /\ Keeps(disk'[d], pendSave'[d].state)
    BY <2>2
  <2>3. CASE /\ ~IsGone(d) /\ pendSave[d].open
             /\ pendSave'[d].state = pendSave[d].state
    <3>1. Keeps(disk[d], pendSave[d].state)
      BY <2>3 DEF FlightInv
    <3>2. disk'[d] = disk[d] \/ disk'[d] = pendSave[d].state
      BY <1>s, <2>3 DEF Orderly
    <3> QED BY <1>s, <2>3, <3>1, <3>2, KeepsItself
  <2> QED BY <1>s, <1>1, <2>1, <2>2, <2>3 DEF Orderly
<1>2. ASSUME NEW d \in fenced'
      PROVE  \/ IsGone(d)'
             \/ disk'[d].done /\ (pendSave'[d].open => pendSave'[d].state.done)
  <2>0. d \in Deliveries
    BY DEF TypeInvariant, WorldTypes
  <2>1. CASE IsGone(d)
    BY <1>s, <2>0, <2>1
  <2>2. CASE ~IsGone(d) /\ d \notin fenced
    BY <1>s, <2>0, <2>2 DEF Orderly
  <2>3. CASE ~IsGone(d) /\ d \in fenced
    <3>1. disk[d].done /\ (pendSave[d].open => pendSave[d].state.done)
      BY <2>3 DEF FenceInv
    <3>2. disk'[d].done
      BY <1>s, <2>0, <2>3, <3>1 DEF Orderly
    <3>3. pendSave'[d].open => pendSave'[d].state.done
      BY <1>s, <2>0, <2>3, <3>1, <3>2 DEF Orderly, Keeps
    <3> QED BY <3>2, <3>3
  <2> QED BY <2>1, <2>2, <2>3
<1> QED BY <1>1, <1>2 DEF FlightInv, FenceInv

(* Nothing touches the file of a delivery while it is reviewed.            *)
LEMMA ReviewKept ==
    ASSUME QueueInv, ReviewInv, [Next]_vars
    PROVE  ReviewInv'
<1> USE DEF Goto, Throw, Finish
<1> SUFFICES ASSUME pc' = "review"
             PROVE  disk'[job'] = Reserved(base', token') /\ ~pendSave'[job'].open
  BY DEF ReviewInv
<1>t. /\ TypeInvariant /\ CallInv /\ HeldInv /\ AttemptInv /\ AccountInv
  BY DEF QueueInv
<1>1. CASE StartReview
  <2>1. /\ pc = "reserve" /\ verdict # "malformed"
        /\ disk' = Written(job) /\ pendSave' = [pendSave EXCEPT ![job] = NoSave]
        /\ UNCHANGED <<token, base, cur>>
    BY <1>1, <1>t DEF StartReview, CallInv
  <2>2. job \in Deliveries /\ pendSave[job].state = Reserved(base, token)
    BY <1>t, <2>1, JobFacts DEF Resting, AttemptInv
  <2>3. job' = job
    BY <2>1 DEF job
  <2> QED BY <1>t, <2>1, <2>2, <2>3, NoSaveType
          DEF Written, TypeInvariant, WorldTypes, MapTypes
<1>2. ASSUME pc = "review", UNCHANGED <<callVars, token>>,
             disk'[job] = disk[job], pendSave'[job] = pendSave[job]
      PROVE  disk'[job'] = Reserved(base', token') /\ ~pendSave'[job'].open
  BY <1>2 DEF ReviewInv, callVars, job
<1>3. CASE UNCHANGED vars \/ Stop \/ \E m \in Messages : LeaseExpires(m)
  <2>1. pc = "review" /\ UNCHANGED <<callVars, token, disk, pendSave>>
    BY <1>3 DEF vars, diskVars, opMaps, callVars, Stop, LeaseExpires
  <2> QED BY <1>2, <2>1
<1>4. ASSUME NEW e \in Deliveries, LateStep(e)
      PROVE  disk'[job'] = Reserved(base', token') /\ ~pendSave'[job'].open
  <2>1. pc = "review" /\ UNCHANGED <<callVars, token>>
    BY <1>4 DEF LateStep, LateSave, LateClear, LateLoad, callVars
  <2>2. job \in Deliveries /\ ~lateClear[job] /\ ~pendSave[job].open
    BY <1>t, <2>1, JobFacts DEF Resting, CallInv, ReviewInv
  <2>3. disk'[job] = disk[job] /\ pendSave'[job] = pendSave[job]
    <3>1. CASE \E lands \in BOOLEAN : LateSave(e, lands)
      <4>1. /\ e # job
            /\ disk' = disk \/ disk' = Written(e)
            /\ pendSave' = [pendSave EXCEPT ![e] = NoSave]
        BY <2>2, <3>1 DEF LateSave
      <4> QED BY <1>t, <2>2, <4>1
              DEF Written, TypeInvariant, WorldTypes, MapTypes
    <3>2. CASE LateClear(e)
      BY <1>t, <2>2, <3>2 DEF LateClear, TypeInvariant, WorldTypes
    <3>3. CASE LateLoad(e)
      BY <3>3 DEF LateLoad, diskVars
    <3> QED BY <1>4, <3>1, <3>2, <3>3 DEF LateStep
  <2> QED BY <1>2, <2>1, <2>3
<1>5. CASE QueueStep \/ PolicyStep \/ RollbackStep \/ ProcessStep \/ Crash
  <2>1. PullNothing
    BY <1>5
       DEF QueueStep, Pull, Acknowledge, Retry, SettlementFails, PolicyStep,
           PolicyAllows, PolicyRefuses, PolicyUnavailable, SettleStoreFailure,
           RollbackStep, RollbackReservation, RollbackSaved, RollbackFails,
           ProcessStep, Exit, GoDown, Resume, Restart, Crash
  <2> QED BY <1>3, <2>1 DEF PullNothing
<1>6. CASE StoreStep \/ ReviewStep
  <2>1. pc' = "review" => StartReview
    BY <1>6
       DEF StoreStep, HasRequestCompletion, LoadFailureState, LoadFails,
           JoinFails, SaveFails, SyncSaved, CommitSaved, FenceSaved,
           MarkRequestCompletion, ClearFailureState, SettleStoreFailure,
           ReserveOrSettle, ReviewStep, ReviewCompletes, ReviewCancelled,
           ReviewRejected, ReviewFails, ReviewStopped
  <2> QED BY <1>1, <2>1
<1> QED
  BY <1>3, <1>4, <1>5, <1>6 DEF Next, RunnerStep

(* The completion of a request is looked up before its review, and nothing *)
(* but the call at hand could record it meanwhile.                         *)
LEMMA RequestKept ==
    ASSUME QueueInv, RequestInv, [Next]_vars
    PROVE  RequestInv'
<1> USE DEF Goto, Throw, Finish
<1> DEFINE Asking == {"lookup", "load", "sync", "reserve"}
<1>1. ASSUME pc' \notin Asking PROVE RequestInv'
  BY <1>1 DEF RequestInv
<1>2. ASSUME UNCHANGED <<cur, completions, doneRequests>>,
             pc' = pc \/ (pc \in {"load", "sync"} /\ pc' \in {"sync", "reserve"})
      PROVE  RequestInv'
  BY <1>2 DEF RequestInv, Requested, request, job
<1>3. CASE \/ UNCHANGED vars \/ PullNothing \/ Stop
           \/ \E m \in Messages : LeaseExpires(m)
           \/ \E e \in Deliveries : LateStep(e)
  <2>1. /\ UNCHANGED <<completions, doneRequests>>
        /\ UNCHANGED callVars \/ pc' \in {"thrown", "undo"}
    BY <1>3 DEF vars, diskVars, callVars, PullNothing, Stop, LeaseExpires,
                LateStep, LateSave, LateClear, LateLoad
  <2>2. CASE UNCHANGED callVars
    BY <1>2, <2>1, <2>2 DEF callVars
  <2>3. CASE pc' \in {"thrown", "undo"}
    BY <1>1, <2>3
  <2> QED BY <2>1, <2>2, <2>3
<1>4. CASE PolicyAllows
  BY <1>4, <1>1 DEF PolicyAllows, SettleStoreFailure, RequestInv, Requested,
                    request, job
<1>5. CASE HasRequestCompletion
  BY <1>5, <1>1 DEF HasRequestCompletion, RequestInv, Requested, request, job,
                    diskVars
<1>6. CASE LoadFailureState \/ SyncSaved
  <2>1. CASE pc' \notin Asking
    BY <1>1, <2>1
  <2>2. CASE pc' \in Asking
    <3>1. /\ UNCHANGED <<cur, completions, doneRequests>>
          /\ pc \in {"load", "sync"} /\ pc' \in {"sync", "reserve"}
      BY <1>6, <2>2 DEF LoadFailureState, SyncSaved, ReserveOrSettle,
                        SettleStoreFailure, diskVars
    <3> QED BY <1>2, <3>1
  <2> QED BY <2>1, <2>2
<1>7. CASE \/ \E m \in Messages : Pull(m)
           \/ Acknowledge \/ Retry \/ SettlementFails
           \/ PolicyRefuses \/ RollbackStep \/ ProcessStep \/ Crash
           \/ \E b \in BOOLEAN : PolicyUnavailable(b)
  <2>1. pc' \notin Asking
    BY <1>7
       DEF Pull, Acknowledge, Retry, SettlementFails, PolicyRefuses,
           PolicyUnavailable, RollbackStep, RollbackReservation, RollbackSaved,
           RollbackFails, ProcessStep, Exit, GoDown, Resume, Restart, Crash
  <2> QED BY <1>1, <2>1
<1>8. CASE \/ \E b \in BOOLEAN : LoadFails(b) \/ JoinFails(b) \/ SaveFails(b)
           \/ StartReview \/ CommitSaved \/ FenceSaved \/ MarkRequestCompletion
           \/ ClearFailureState \/ ReviewStep
  <2>1. pc' \notin Asking
    BY <1>8
       DEF LoadFails, JoinFails, SaveFails, StartReview, CommitSaved,
           FenceSaved, MarkRequestCompletion, ClearFailureState,
           SettleStoreFailure, ReviewStep, ReviewCompletes, ReviewCancelled,
           ReviewRejected, ReviewFails, ReviewStopped
  <2> QED BY <1>1, <2>1
<1> QED
  BY <1>3, <1>4, <1>5, <1>6, <1>7, <1>8
     DEF Next, RunnerStep, QueueStep, PolicyStep, StoreStep

(* A review that ran to its end is fenced, marked and remembered without   *)
(* a break, unless the store fails or the process crashes.                 *)
LEMMA MarkKept ==
    ASSUME QueueInv, MarkInv, [Next]_vars
    PROVE  MarkInv'
<1> USE DEF Goto, Throw, Finish
<1> DEFINE Recording == {"fence", "mark"}
<1>t. TypeInvariant /\ CallInv
  BY DEF QueueInv
<1>1. ASSUME faults'.memory # "kept" PROVE MarkInv'
  BY <1>1 DEF MarkInv
<1>2. ASSUME faults'.memory = "kept" => faults.memory = "kept",
             finished' = finished, completions \subseteq completions',
             pc \in Recording => pc' \in Recording /\ cur' = cur
      PROVE  MarkInv'
  BY <1>2 DEF MarkInv, request, job
<1>3. ASSUME NoFault PROVE faults'.memory = faults.memory
  BY <1>3 DEF NoFault
<1>4. ASSUME NEW k, Fault(k)
      PROVE  /\ faults'.memory = "kept" => faults.memory = "kept"
             /\ k \in {"crash", "store"} => faults'.memory # "kept"
  BY <1>4 DEF Fault
<1>5. CASE \/ UNCHANGED vars \/ Stop
           \/ \E m \in Messages : LeaseExpires(m)
           \/ \E e \in Deliveries : LateStep(e)
  <2>1. /\ UNCHANGED <<completions, finished>>
        /\ pc \in Recording => pc' = pc /\ cur' = cur
        /\ faults' = faults \/ NoFault \/ Fault("stop") \/ Fault("lease")
    BY <1>5 DEF vars, diskVars, history, callVars, Stop, LeaseExpires,
                LateStep, LateSave, LateClear, LateLoad
  <2> QED BY <1>2, <1>3, <1>4, <2>1
<1>6. CASE QueueStep \/ PolicyStep \/ RollbackStep \/ ProcessStep
  <2>1. /\ UNCHANGED <<completions, finished>> /\ pc \notin Recording
        /\ \/ faults' = faults \/ NoFault
           \/ \E k : Fault(k)
    BY <1>6, <1>t
       DEF vars, diskVars, history, QueueStep, Pull, PullNothing, Acknowledge,
           Retry, SettlementFails, PolicyStep, PolicyAllows, PolicyRefuses,
           PolicyUnavailable, RollbackStep, RollbackReservation,
           RollbackSaved, RollbackFails, ProcessStep, Exit, GoDown, Resume,
           Restart
  <2> QED BY <1>2, <1>3, <1>4, <2>1
<1>7. CASE Crash \/ \E b \in BOOLEAN : LoadFails(b) \/ SaveFails(b)
  <2>1. \E k \in {"crash", "store"} : Fault(k)
    BY <1>7 DEF Crash, LoadFails, SaveFails
  <2> QED BY <1>1, <1>4, <2>1
<1>8. CASE \/ \E b \in BOOLEAN : JoinFails(b)
           \/ HasRequestCompletion \/ LoadFailureState \/ SyncSaved
           \/ StartReview \/ CommitSaved \/ ClearFailureState
           \/ ReviewRejected \/ ReviewFails \/ ReviewStopped
  <2>1. /\ UNCHANGED <<completions, finished>> /\ pc \notin Recording
        /\ NoFault \/ \E k : Fault(k)
    BY <1>8
       DEF diskVars, history, HasRequestCompletion, LoadFailureState,
           JoinFails, SyncSaved, StartReview, CommitSaved, ClearFailureState,
           ReviewRejected, ReviewFails, ReviewStopped
  <2> QED BY <1>2, <1>3, <1>4, <2>1
<1>9. CASE FenceSaved \/ MarkRequestCompletion
  <2>1. CASE Fault("store")
    BY <1>1, <1>4, <2>1
  <2>2. CASE ~Fault("store")
    <3>1. /\ UNCHANGED <<finished, cur>> /\ completions \subseteq completions'
          /\ NoFault
          /\ \/ pc' = "mark"
             \/ pc = "fence" /\ ~Requested
             \/ pc = "mark" /\ request \in completions'
      BY <1>9, <2>2 DEF FenceSaved, MarkRequestCompletion, history
    <3>2. faults'.memory = faults.memory
      BY <1>3, <3>1
    <3> QED BY <3>1, <3>2 DEF MarkInv, Requested, request, job
  <2> QED BY <2>1, <2>2
<1>10. CASE ReviewCompletes \/ ReviewCancelled
  <2>1. /\ pc = "review" /\ UNCHANGED completions
        /\ finished' = finished \cup {job} /\ faults'.memory = faults.memory
        /\ Requested => pc' = "fence" /\ cur' = cur
    BY <1>10 DEF ReviewCompletes, ReviewCancelled, diskVars, NoFault
  <2> QED BY <2>1 DEF MarkInv, Requested, request, job
<1> QED
  BY <1>5, <1>6, <1>7, <1>8, <1>9, <1>10
     DEF Next, RunnerStep, StoreStep, ReviewStep

-----------------------------------------------------------------------------
(* The theorems.                                                           *)

(* No save is in flight, nothing is fenced, finished or asked for.         *)
LEMMA OnceInit == Init => OnceInv
BY NoSaveType DEF Init, OnceInv, FlightInv, ReviewInv, FenceInv, RequestInv,
                  MarkInv

(* Through every await of #consumeOne, and every crash, no save in flight  *)
(* loses anything of the file it will meet, a fence stays, and a requested *)
(* review that ended is marked or about to be.                             *)
THEOREM OnceInvariance == Spec => [](QueueInv /\ OnceInv)
<1>1. Init => QueueInv /\ OnceInv
  BY QueueInit, OnceInit
<1>2. QueueInv /\ OnceInv /\ [Next]_vars => (QueueInv /\ OnceInv)'
  <2> SUFFICES ASSUME QueueInv, OnceInv, [Next]_vars
               PROVE  QueueInv' /\ OnceInv'
    OBVIOUS
  <2>1. QueueInv' /\ TypeInvariant'
    BY QueueInductive DEF QueueInv
  <2> QED BY <2>1, FlightKept, ReviewKept, RequestKept, MarkKept DEF OnceInv
<1> QED BY <1>1, <1>2, PTL DEF Spec

(* The failure-state file of an unsettled delivery never loses an attempt, *)
(* whatever saves, rollbacks, late operations and crashes write it.        *)
THEOREM StoreKeepsAttempts == Spec => StoreNeverRegresses
<1> DEFINE Kept(d) == IsGone(d) \/ Keeps(disk[d], disk'[d])
<1>1. QueueInv /\ OnceInv /\ [Next]_vars => \A d \in Deliveries : Kept(d)
  <2> SUFFICES ASSUME QueueInv, OnceInv, [Next]_vars, NEW d \in Deliveries
               PROVE  Kept(d)
    OBVIOUS
  <2>1. Orderly(d) /\ disk[d] \in FailureStates
    BY StepIsOrderly DEF OnceInv, QueueInv, TypeInvariant, WorldTypes
  <2>2. Keeps(disk[d], disk[d])
    BY <2>1, KeepsItself
  <2>3. pendSave[d].open => Kept(d) \/ disk'[d] # pendSave[d].state
    BY DEF OnceInv, FlightInv
  <2> QED BY <2>1, <2>2, <2>3 DEF Orderly
<1>2. (\A d \in Deliveries : Kept(d)) =>
         \A d \in Deliveries :
            LET was == disk[d]
                is == disk'[d]
            IN  \/ \E m \in Messages : JobOf[m] = d /\ qstate[m] = "gone"
                \/ is.done
                \/ ~was.done /\ EffectiveAttempt(is) >= EffectiveAttempt(was)
                \/ /\ HasReservation(was) /\ ~was.done
                   /\ is = Committed(was.committed)
  BY DEF IsGone, Keeps
<1> QED BY <1>1, <1>2, OnceInvariance, PTL DEF StoreNeverRegresses, Spec

(* A review whose post-review fence is on disk, or whose request has its   *)
(* completion marker, is never started again by #consumeOne; and until the *)
(* store fails or the process crashes, nor is a requested review that      *)
(* ended.                                                                  *)
THEOREM EndedReviewsStayEnded == Spec => NotReviewedAgain
<1>1. ASSUME QueueInv, OnceInv, StartReview
      PROVE  /\ job \notin fenced
             /\ Requested =>
                   /\ request \notin completions /\ request \notin doneRequests
                   /\ faults.memory = "kept" =>
                         \A d \in finished : RequestOf[d] # request
  <2>1. pc = "reserve" /\ verdict # "malformed"
    BY <1>1 DEF StartReview, QueueInv, CallInv
  <2>2. /\ ~IsGone(job) /\ pendSave[job].open
        /\ pendSave[job].state = Reserved(base, token)
    BY <1>1, <2>1, JobFacts DEF QueueInv, Resting, AttemptInv, SaveWaits
  <2>3. ~Reserved(base, token).done
    BY <1>1, <2>1, ReservedValid
       DEF QueueInv, SlotInv, TypeInvariant, CallTypes, MapTypes
  <2>4. job \notin fenced
    BY <1>1, <2>2, <2>3 DEF OnceInv, FenceInv
  <2>5. Requested => request \notin completions /\ request \notin doneRequests
    BY <1>1, <2>1 DEF OnceInv, RequestInv
  <2>6. Requested /\ faults.memory = "kept" =>
           \A d \in finished : RequestOf[d] # request
    BY <1>1, <2>1, <2>5 DEF OnceInv, MarkInv, Requested
  <2> QED BY <2>4, <2>5, <2>6
<1> QED BY <1>1, OnceInvariance, PTL DEF NotReviewedAgain, Spec
-----------------------------------------------------------------------------
(* A message leaves the queue for a reason.  A slot is used up by one      *)
(* delivery of a message at most, so that three used slots mean three      *)
(* deliveries; and what counts as reviewed goes back to a review that ran  *)
(* to its end.                                                             *)

(* Failures within a number.                                               *)
Within(s, n) == s.committed <= n /\ s.slot <= n

(* How many deliveries of a message may have used up a slot: not the one   *)
(* at hand before it has loaded the state.                                 *)
Early == {"policy", "lookup", "load"}
Used(m) == IF cur = m /\ pc \in Early /\ attempts[m] < MaxAttempts
           THEN attempts[m] - 1 ELSE attempts[m]

(* The slot a save may be charged to when it fails: a rollback, whose      *)
(* failure its own delivery does not settle, that of the next delivery.    *)
Chargeable(m) == IF cur = m /\ pc \notin {"undo", "undoSave"}
                 THEN attempts[m] ELSE attempts[m] + 1

(* No count of failures, on disk, in memory or in flight, exceeds n.       *)
AtMost(d, n) ==
    /\ Within(disk[d], n) /\ Within(known[d], n) /\ Within(pendSave[d].state, n)
    /\ floor[d] <= n /\ pendSettle[d] <= n /\ pendLoad[d] <= n

Counted(m) ==
    /\ AtMost(JobOf[m], Used(m))
    /\ pendSave[JobOf[m]].slot <= Chargeable(m)

CountInv ==
    /\ \A m \in Messages : JobOf[m] \in Deliveries => Counted(m)
    /\ pc \in {"sync", "reserve", "review", "commit", "fence", "undo",
               "undoSave"} =>
          base < attempts[cur] \/ attempts[cur] = MaxAttempts

(* A request counts as reviewed when a review of it ran to its end.        *)
Ended(r) == \E d \in finished : RequestOf[d] = r

EndInv ==
    /\ \A d \in Deliveries :
          disk[d].done \/ pendSave[d].state.done => d \in finished
    /\ \A r \in doneRequests \cup completions : Ended(r)
    /\ pc \in {"fence", "mark"} =>
          /\ verdict = "completed"
          /\ job \in finished \/ (Requested /\ Ended(request))

(* The counts of a delivery as numbers.                                    *)
LEMMA CountTypes ==
    ASSUME TypeInvariant, NEW d \in Deliveries
    PROVE  /\ disk[d] \in FailureStates /\ known[d] \in FailureStates
           /\ pendSave[d].state \in FailureStates
           /\ pendSave[d].slot \in 0..MaxAttempts
           /\ floor[d] \in 0..MaxAttempts
           /\ pendSettle[d] \in 0..MaxAttempts
           /\ pendLoad[d] \in 0..MaxAttempts
BY DEF TypeInvariant, WorldTypes, MapTypes, SaveRecords

(* What holds for the deliveries that used a slot holds for all of them.   *)
LEMMA UsedBounds ==
    ASSUME TypeInvariant, NEW m \in Messages, JobOf[m] \in Deliveries,
           Counted(m)
    PROVE  /\ attempts[m] \in 0..MaxAttempts
           /\ Used(m) \in 0..attempts[m]
           /\ Chargeable(m) \in attempts[m]..attempts[m] + 1
           /\ AtMost(JobOf[m], attempts[m])
<1>1. /\ attempts[m] \in 0..MaxAttempts
      /\ floor[JobOf[m]] \in 0..MaxAttempts
  BY CountTypes DEF TypeInvariant, WorldTypes
<1>2. Used(m) \in 0..attempts[m]
  BY <1>1 DEF Counted, AtMost, Used, MaxAttempts
<1>3. AtMost(JobOf[m], attempts[m])
  BY <1>1, <1>2, CountTypes
     DEF Counted, AtMost, Within, FailureStates, MaxAttempts
<1> QED BY <1>1, <1>2, <1>3 DEF Chargeable, MaxAttempts

(* A delivery whose counts grow no more than some other step allows.       *)
Lowered(d) ==
    /\ \A n \in 0..MaxAttempts : AtMost(d, n) => AtMost(d, n)'
    /\ pendSave'[d].slot <= pendSave[d].slot

(* A step that counts nothing, and neither takes up a message nor makes    *)
(* the call early again.                                                   *)
LEMMA LoweredCounts ==
    ASSUME TypeInvariant, TypeInvariant', CountInv,
           \A d \in Deliveries : Lowered(d),
           attempts' = attempts, cur' = cur \/ cur' = NoMsg,
           cur' \in Messages =>
              /\ pc' \in Early => pc \in Early
              /\ pc \in {"undo", "undoSave"} => pc' \in {"undo", "undoSave"},
           pc' \in {"sync", "reserve", "review", "commit", "fence", "undo",
                    "undoSave"} =>
              /\ pc \in {"sync", "reserve", "review", "commit", "fence",
                         "undo", "undoSave"}
              /\ cur' = cur /\ base' = base
    PROVE  CountInv'
<1>1. ASSUME NEW m \in Messages, JobOf[m] \in Deliveries PROVE Counted(m)'
  <2>1. /\ Counted(m) /\ Lowered(JobOf[m])
    BY <1>1 DEF CountInv
  <2>2. /\ attempts[m] \in 0..MaxAttempts /\ Used(m) \in 0..attempts[m]
        /\ Chargeable(m) \in attempts[m]..attempts[m] + 1
    BY <1>1, <2>1, UsedBounds
  <2>3. /\ Used(m)' \in Used(m)..MaxAttempts
        /\ Chargeable(m)' >= Chargeable(m)
        /\ Chargeable(m)' \in Nat
    BY <2>2, JobsAssumption DEF Used, Chargeable, MaxAttempts
  <2>4. AtMost(JobOf[m], Used(m))'
    <3>1. /\ (disk[JobOf[m]] \in FailureStates)'
          /\ (known[JobOf[m]] \in FailureStates)'
          /\ (pendSave[JobOf[m]].state \in FailureStates)'
          /\ (floor[JobOf[m]] \in 0..MaxAttempts)'
          /\ (pendSettle[JobOf[m]] \in 0..MaxAttempts)'
          /\ (pendLoad[JobOf[m]] \in 0..MaxAttempts)'
      BY <1>1 DEF TypeInvariant, WorldTypes, MapTypes, SaveRecords
    <3>2. \A n \in 0..MaxAttempts : AtMost(JobOf[m], n) => AtMost(JobOf[m], n)'
      BY <2>1 DEF Lowered
    <3>3. AtMost(JobOf[m], Used(m))
      BY <2>1 DEF Counted
    <3>4. PICK u \in 0..MaxAttempts : u = Used(m)
      BY <2>2 DEF MaxAttempts
    <3>5. AtMost(JobOf[m], u)'
      BY <3>2, <3>3, <3>4
    <3> QED
      BY <2>3, <3>1, <3>4, <3>5 DEF AtMost, Within, FailureStates, MaxAttempts
  <2>5. pendSave'[JobOf[m]].slot <= Chargeable(m)'
    <3>1. /\ pendSave[JobOf[m]].slot \in 0..MaxAttempts
          /\ pendSave'[JobOf[m]].slot \in 0..MaxAttempts
      BY <1>1 DEF TypeInvariant, MapTypes, SaveRecords
    <3> QED BY <2>1, <2>2, <2>3, <3>1 DEF Counted, Lowered, MaxAttempts
  <2> QED BY <2>4, <2>5 DEF Counted
<1> QED BY <1>1 DEF CountInv

(* The maps of every other delivery stay.                                  *)
OthersStay ==
    \A d \in Deliveries \ {job} :
        /\ disk'[d] = disk[d] /\ known'[d] = known[d]
        /\ pendSave'[d] = pendSave[d] /\ floor'[d] = floor[d]
        /\ pendSettle'[d] = pendSettle[d] /\ pendLoad'[d] = pendLoad[d]

(* A call that counts: its own delivery may use up a slot.                 *)
LEMMA CallCounts ==
    ASSUME TypeInvariant, CountInv, cur \in Messages,
           NEW j \in Deliveries, j = job, NEW a \in 0..MaxAttempts,
           a = attempts[cur], OthersStay, attempts' = attempts, cur' = cur \/ cur' = NoMsg,
           cur' = cur => pc' \notin Early,
           AtMost(j, a)',
           pendSave'[j].slot <=
              IF cur' = cur /\ pc' \notin {"undo", "undoSave"}
              THEN attempts[cur] ELSE attempts[cur] + 1,
           pc' \in {"sync", "reserve", "review", "commit", "fence", "undo",
                    "undoSave"} =>
              /\ cur' = cur
              /\ base' < attempts[cur] \/ attempts[cur] = MaxAttempts
    PROVE  CountInv'
<1>1. ASSUME NEW m \in Messages, JobOf[m] \in Deliveries PROVE Counted(m)'
  <2>1. CASE m = cur
    <3>1. m # NoMsg /\ j = JobOf[m]
      BY <2>1, JobsAssumption DEF job
    <3>2. Used(m)' = a
      BY <2>1, <3>1 DEF Used
    <3>3. Chargeable(m)' = IF cur' = cur /\ pc' \notin {"undo", "undoSave"}
                           THEN a ELSE a + 1
      BY <2>1, <3>1 DEF Chargeable
    <3> QED BY <2>1, <3>1, <3>2, <3>3 DEF Counted, AtMost
  <2>2. CASE m # cur
    <3>1. JobOf[m] \in Deliveries \ {job}
      BY <1>1, <2>2, OwnMessagesAssumption, JobsAssumption DEF job
    <3>2. /\ Used(m) = attempts[m] /\ Used(m)' = attempts[m]
          /\ Chargeable(m) = attempts[m] + 1 /\ Chargeable(m)' = attempts[m] + 1
      BY <2>2, JobsAssumption DEF Used, Chargeable
    <3>3. Counted(m)
      BY <1>1 DEF CountInv
    <3> QED BY <3>1, <3>2, <3>3 DEF Counted, AtMost, OthersStay
  <2> QED BY <2>1, <2>2
<1> QED BY <1>1 DEF CountInv

(* What the call at hand knows of its counts.                              *)
LEMMA OwnCounts ==
    ASSUME TypeInvariant, CallInv, CountInv, pc \notin Resting,
           verdict # "malformed"
    PROVE  /\ cur \in Messages /\ job \in Deliveries /\ job = JobOf[cur]
           /\ attempts[cur] \in 0..MaxAttempts
           /\ AtMost(job, attempts[cur])
           /\ pc \in Early => /\ AtMost(job, Used(cur))
                              /\ Used(cur) \in 0..attempts[cur]
                              /\ \/ Used(cur) < attempts[cur]
                                 \/ attempts[cur] = MaxAttempts
           /\ pc \notin {"undo", "undoSave"} =>
                 pendSave[job].slot <= attempts[cur]
           /\ pendSave[job].slot <= attempts[cur] + 1
<1>1. cur \in Messages /\ job \in Deliveries /\ job = JobOf[cur]
  BY DEF CallInv, job
<1>2. Counted(cur)
  BY <1>1 DEF CountInv
<1>3. /\ attempts[cur] \in 0..MaxAttempts
      /\ Used(cur) \in 0..attempts[cur]
      /\ AtMost(job, attempts[cur])
  BY <1>1, <1>2, UsedBounds
<1>4. pc \in Early => Used(cur) < attempts[cur] \/ attempts[cur] = MaxAttempts
  BY <1>3 DEF Used, MaxAttempts
<1>5. pendSave[job].slot \in 0..MaxAttempts
  BY <1>1, CountTypes
<1> QED
  BY <1>1, <1>2, <1>3, <1>4, <1>5 DEF Counted, Chargeable, MaxAttempts

(* The next slot is one more than what was counted.                        *)
LEMMA SlotCounts ==
    ASSUME NEW f \in 0..MaxAttempts, NEW s \in FailureStates,
           NEW u \in 0..MaxAttempts, NEW n \in 0..MaxAttempts,
           f <= u, Within(s, u), n <= u
    PROVE  /\ NextFailureSlot(n, f, s) \in 0..MaxAttempts
           /\ NextFailureSlot(n, f, s) <= u + 1
BY DEF NextFailureSlot, EffectiveAttempt, FailureStates, Within, Larger,
       Smaller, MaxAttempts

(* The failure of a store operation of this delivery counts no more than   *)
(* the delivery.                                                           *)
LEMMA SettleCounts ==
    ASSUME TypeInvariant, CountInv, CallInv, pc \notin Resting,
           verdict # "malformed",
           NEW n \in 0..MaxAttempts, n <= attempts[cur], NEW c \in BOOLEAN,
           SettleStoreFailure(job, n, c),
           attempts' = attempts,
           \A d \in Deliveries \ {job} :
              disk'[d] = disk[d] /\ pendSave'[d] = pendSave[d]
              /\ pendLoad'[d] = pendLoad[d],
           disk'[job] = disk[job] \/ disk'[job] = pendSave[job].state,
           pendSave'[job].state \in {pendSave[job].state, EmptyState},
           pendSave'[job].slot <= attempts[cur],
           pendLoad'[job] <= attempts[cur]
    PROVE  /\ CountInv' /\ pc' \in {"ack", "retry"}
           /\ pc' = "ack" => /\ verdict' = "exhausted" /\ cur' = cur
                             /\ attempts[cur] = MaxAttempts
<1>1. /\ cur \in Messages /\ job \in Deliveries
      /\ attempts[cur] \in 0..MaxAttempts
      /\ AtMost(job, attempts[cur])
  BY OwnCounts
<1>2. /\ known[job] \in FailureStates /\ disk[job] \in FailureStates
      /\ floor[job] \in 0..MaxAttempts /\ pendSave[job].state \in FailureStates
  BY <1>1, CountTypes
<1>3. /\ known \in [Deliveries -> FailureStates]
      /\ floor \in [Deliveries -> 0..MaxAttempts]
      /\ pendSettle \in [Deliveries -> 0..MaxAttempts]
  BY DEF TypeInvariant, MapTypes
<1>4. /\ cur' = cur /\ pc' \in {"ack", "retry"}
      /\ pc' = "ack" => verdict' = "exhausted" /\ n >= MaxAttempts
  BY DEF SettleStoreFailure, Goto
<1> DEFINE raised == Larger(floor[job], n)
<1>5. raised \in 0..MaxAttempts /\ raised <= attempts[cur]
  BY <1>1, <1>2 DEF Larger, AtMost, MaxAttempts
<1>6. Within(Committed(raised), attempts[cur])
  BY <1>1, <1>5 DEF Within, Committed, MaxAttempts
<1> HIDE DEF raised
<1>7. /\ floor'[job] \in {floor[job], raised}
      /\ known'[job] \in {known[job], Committed(raised)}
      /\ pendSettle'[job] = n
      /\ \A d \in Deliveries \ {job} :
            /\ floor'[d] = floor[d] /\ known'[d] = known[d]
            /\ pendSettle'[d] = pendSettle[d]
  BY <1>1, <1>3 DEF SettleStoreFailure, MoreConservative, raised
<1>8. Within(EmptyState, attempts[cur])
  BY <1>1 DEF Within, EmptyState, Committed, MaxAttempts
<1>j. PICK j \in Deliveries, a \in 0..MaxAttempts : j = job /\ a = attempts[cur]
  BY <1>1
<1>9. AtMost(j, a)'
  <2>1. Within(disk'[job], attempts[cur])
    BY <1>1 DEF AtMost
  <2>2. Within(known'[job], attempts[cur])
    BY <1>1, <1>6, <1>7 DEF AtMost
  <2>3. Within(pendSave'[job].state, attempts[cur])
    BY <1>1, <1>8 DEF AtMost
  <2>4. floor'[job] <= attempts[cur] /\ pendSettle'[job] <= attempts[cur]
    BY <1>1, <1>5, <1>7 DEF AtMost
  <2> QED BY <2>1, <2>2, <2>3, <2>4, <1>j DEF AtMost
<1>10. OthersStay
  BY <1>7 DEF OthersStay
<1>11. CountInv'
  BY <1>1, <1>4, <1>j, <1>9, <1>10, CallCounts DEF Early
<1> QED BY <1>1, <1>4, <1>11 DEF MaxAttempts

(* A state that is dropped or lowered is within what it was within.        *)
LEMMA WithinTypes ==
    ASSUME NEW n \in 0..MaxAttempts, NEW s \in FailureStates, Within(s, n)
    PROVE  /\ Within(EmptyState, n) /\ Within(Committed(s.committed), n)
           /\ Within(ConsumeReservation(s), n)
BY DEF Within, EmptyState, Committed, ConsumeReservation, FailureStates,
       HasReservation, MaxAttempts

(* What a step that counts nothing may make of the maps of a delivery.     *)
LEMMA Lowers ==
    ASSUME TypeInvariant, NEW d \in Deliveries,
           disk'[d] \in {disk[d], pendSave[d].state, EmptyState},
           known'[d] \in {known[d], EmptyState, Committed(known[d].committed),
                          ConsumeReservation(disk[d])},
           \/ pendSave'[d] = NoSave
           \/ /\ pendSave'[d].state = pendSave[d].state
              /\ pendSave'[d].slot = pendSave[d].slot,
           floor'[d] \in {floor[d], 0}, pendSettle'[d] \in {pendSettle[d], 0},
           pendLoad'[d] \in {pendLoad[d], 0}
    PROVE  Lowered(d)
<1>1. /\ pendSave[d].slot \in 0..MaxAttempts
      /\ NoSave.slot = 0 /\ NoSave.state = EmptyState
  BY CountTypes DEF NoSave, SaveOp
<1>2. pendSave'[d].slot <= pendSave[d].slot
  BY <1>1 DEF MaxAttempts
<1>3. ASSUME NEW n \in 0..MaxAttempts, AtMost(d, n) PROVE AtMost(d, n)'
  <2>1. /\ Within(EmptyState, n) /\ Within(Committed(known[d].committed), n)
        /\ Within(ConsumeReservation(disk[d]), n)
    BY <1>3, CountTypes, WithinTypes DEF AtMost
  <2>2. Within(disk'[d], n) /\ Within(known'[d], n)
    BY <1>3, <2>1 DEF AtMost
  <2>3. Within(pendSave'[d].state, n)
    BY <1>1, <1>3, <2>1 DEF AtMost
  <2>4. floor'[d] <= n /\ pendSettle'[d] <= n /\ pendLoad'[d] <= n
    BY <1>3 DEF AtMost
  <2> QED BY <2>2, <2>3, <2>4 DEF AtMost
<1> QED BY <1>2, <1>3 DEF Lowered

(* The next slot, or the acknowledgement when three are used up.           *)
LEMMA ReserveCounts ==
    ASSUME TypeInvariant, CountInv, CallInv, pc \notin Resting,
           verdict # "malformed", NEW n \in 0..MaxAttempts,
           n < attempts[cur] \/ attempts[cur] = MaxAttempts,
           NEW r \in FailureStates, Within(r, attempts[cur]),
           ReserveOrSettle(n, r), attempts' = attempts,
           \A d \in Deliveries \ {job} :
              disk'[d] = disk[d] /\ floor'[d] = floor[d]
              /\ pendSettle'[d] = pendSettle[d] /\ pendLoad'[d] = pendLoad[d],
           disk'[job] \in {disk[job], pendSave[job].state},
           floor'[job] \in {floor[job], 0}, pendSettle'[job] = pendSettle[job],
           pendLoad'[job] \in {pendLoad[job], 0}
    PROVE  /\ CountInv' /\ pc' \in {"ack", "reserve"}
           /\ pc' = "ack" => /\ verdict' = "exhausted" /\ cur' = cur
                             /\ attempts[cur] = MaxAttempts
<1>1. /\ cur \in Messages /\ job \in Deliveries
      /\ attempts[cur] \in 0..MaxAttempts
      /\ AtMost(job, attempts[cur])
  BY OwnCounts
<1>j. PICK j \in Deliveries, a \in 0..MaxAttempts : j = job /\ a = attempts[cur]
  BY <1>1
<1>2. /\ known \in [Deliveries -> FailureStates]
      /\ pendSave \in [Deliveries -> SaveRecords]
      /\ floor[j] \in 0..MaxAttempts
  BY DEF TypeInvariant, MapTypes
<1>3. /\ cur' = cur /\ base' = n
      /\ \/ n = MaxAttempts /\ pc' = "ack" /\ verdict' = "exhausted"
         \/ n # MaxAttempts /\ pc' = "reserve"
  BY DEF ReserveOrSettle, Goto
<1>4. /\ n = MaxAttempts => a = MaxAttempts
      /\ n # MaxAttempts => n + 1 <= a
  BY <1>j DEF MaxAttempts
<1>5. /\ NoSave.slot = 0 /\ NoSave.state = EmptyState
      /\ Within(EmptyState, a)
  BY <1>1, <1>j, CountTypes, WithinTypes DEF NoSave, SaveOp, AtMost
<1>6. ASSUME n # MaxAttempts, NEW o
      PROVE  Within(Reserved(n, o), a)
  BY <1>4, <1>6 DEF Within, Reserved, MaxAttempts
<1>7. /\ \A d \in Deliveries \ {j} :
            known'[d] = known[d] /\ pendSave'[d] = pendSave[d]
      /\ Within(known'[j], a) /\ Within(pendSave'[j].state, a)
      /\ pendSave'[j].slot <= a
  <2>1. CASE n = MaxAttempts
    <3>1. /\ known' = [known EXCEPT ![j] = r]
          /\ pendSave' = [pendSave EXCEPT ![j] = NoSave]
      BY <2>1, <1>j DEF ReserveOrSettle
    <3> QED BY <3>1, <1>j, <1>2, <1>5 DEF MaxAttempts
  <2>2. CASE n # MaxAttempts
    <3> DEFINE s == Reserved(n, token + 1)
    <3>1. /\ known' = [known EXCEPT ![j] = MoreConservative(r, s)]
          /\ pendSave' = [pendSave EXCEPT ![j] = SaveOp(s, n + 1)]
      BY <2>2, <1>j DEF ReserveOrSettle, StartSave
    <3>2. Within(s, a)
      BY <1>6, <2>2
    <3>3. SaveOp(s, n + 1).state = s /\ SaveOp(s, n + 1).slot = n + 1
      BY DEF SaveOp
    <3>4. MoreConservative(r, s) \in {r, s}
      <4>1. r.done \in BOOLEAN /\ s.done = FALSE
        BY DEF FailureStates, Reserved
      <4> QED BY <4>1 DEF MoreConservative
    <3> HIDE DEF s
    <3> QED BY <3>1, <3>2, <3>3, <3>4, <1>j, <1>2, <1>4, <2>2
  <2> QED BY <2>1, <2>2
<1>8. AtMost(j, a)'
  BY <1>1, <1>j, <1>2, <1>7 DEF AtMost, MaxAttempts
<1>9. OthersStay
  BY <1>j, <1>7 DEF OthersStay
<1>10. CountInv'
  BY <1>1, <1>j, <1>3, <1>4, <1>7, <1>8, <1>9, CallCounts DEF Early, MaxAttempts
<1> QED BY <1>3, <1>4, <1>j, <1>10

(* Another save of the call at hand, of a state that counts no more.       *)
LEMMA SaveCounts ==
    ASSUME TypeInvariant, CountInv, CallInv, pc \notin Resting,
           verdict # "malformed", NEW op,
           Within(op.state, attempts[cur]),
           pendSave' = [pendSave EXCEPT ![job] = op],
           op.slot <= IF pc' \notin {"undo", "undoSave"}
                      THEN attempts[cur] ELSE attempts[cur] + 1,
           \A d \in Deliveries \ {job} : known'[d] = known[d],
           Within(known'[job], attempts[cur]),
           UNCHANGED <<attempts, disk, floor, pendSettle, cur>>,
           \A d \in Deliveries : pendLoad'[d] \in {pendLoad[d], 0},
           \A d \in Deliveries \ {job} : pendLoad'[d] = pendLoad[d],
           pc' \notin Early,
           base' < attempts[cur] \/ attempts[cur] = MaxAttempts
    PROVE  CountInv'
<1>1. /\ cur \in Messages /\ job \in Deliveries
      /\ attempts[cur] \in 0..MaxAttempts
      /\ AtMost(job, attempts[cur])
  BY OwnCounts
<1>j. PICK j \in Deliveries, a \in 0..MaxAttempts : j = job /\ a = attempts[cur]
  BY <1>1
<1>2. pendSave \in [Deliveries -> SaveRecords]
  BY DEF TypeInvariant, MapTypes
<1>3. pendSave'[j] = op /\ \A d \in Deliveries \ {j} : pendSave'[d] = pendSave[d]
  BY <1>j, <1>2
<1>4. AtMost(j, a)'
  BY <1>1, <1>j, <1>3 DEF AtMost, MaxAttempts
<1>5. OthersStay
  BY <1>j, <1>3 DEF OthersStay
<1> QED BY <1>1, <1>j, <1>3, <1>4, <1>5, CallCounts

(* Three slots are used up after three deliveries.                         *)
Exhaustion ==
    pc = "ack" /\ verdict = "exhausted" => attempts[cur] >= MaxAttempts

(* Every step counts no more than the deliveries.                          *)
LEMMA CountStep ==
    ASSUME QueueInv, QueueInv', CountInv, EndInv, Exhaustion, [Next]_vars
    PROVE  CountInv' /\ Exhaustion'
<1> USE DEF Goto, Throw, Finish
<1>t. /\ TypeInvariant /\ TypeInvariant' /\ CallInv /\ CallInv' /\ SlotInv
      /\ SlotInv' /\ HeldInv
  BY DEF QueueInv
<1>m. /\ disk \in [Deliveries -> FailureStates]
      /\ known \in [Deliveries -> FailureStates]
      /\ pendSave \in [Deliveries -> SaveRecords]
      /\ floor \in [Deliveries -> 0..MaxAttempts]
      /\ pendSettle \in [Deliveries -> 0..MaxAttempts]
      /\ pendLoad \in [Deliveries -> 0..MaxAttempts]
      /\ attempts \in [Messages -> 0..MaxAttempts]
      /\ base \in 0..MaxAttempts
  BY <1>t DEF TypeInvariant, WorldTypes, MapTypes, CallTypes
<1>n. NoSave.slot = 0 /\ NoSave.state = EmptyState
  BY DEF NoSave, SaveOp
<1> DEFINE Slotted == {"sync", "reserve", "review", "commit", "fence", "undo",
                       "undoSave"}
           Goes == /\ attempts' = attempts /\ (cur' = cur \/ cur' = NoMsg)
                   /\ cur' \in Messages =>
                         /\ pc' \in Early => pc \in Early
                         /\ pc \in {"undo", "undoSave"} =>
                               pc' \in {"undo", "undoSave"}
                   /\ pc' \in Slotted =>
                         pc \in Slotted /\ cur' = cur /\ base' = base
                   /\ pc' = "ack" /\ verdict' = "exhausted" =>
                         cur' = cur /\ \/ attempts[cur] >= MaxAttempts
                                       \/ pc = "ack" /\ verdict = "exhausted"
           Maps == <<disk, known, pendSave, floor, pendSettle, pendLoad>>
           Good == CountInv' /\ Exhaustion'
<1>a. ASSUME Goes, \A d \in Deliveries : Lowered(d) PROVE Good
  <2>1. CountInv'
    BY <1>a, <1>t, LoweredCounts
  <2>2. Exhaustion'
    BY <1>a DEF Exhaustion
  <2> QED BY <2>1, <2>2
<1>b. ASSUME UNCHANGED Maps PROVE \A d \in Deliveries : Lowered(d)
  BY <1>b, <1>t, Lowers
<1>j. ASSUME pc \notin Resting, verdict # "malformed"
      PROVE  /\ cur \in Messages /\ job \in Deliveries /\ job = JobOf[cur]
             /\ attempts[cur] \in 0..MaxAttempts
             /\ AtMost(job, attempts[cur])
             /\ pc \in Early => /\ AtMost(job, Used(cur))
                                /\ Used(cur) \in 0..attempts[cur]
                                /\ \/ Used(cur) < attempts[cur]
                                   \/ attempts[cur] = MaxAttempts
             /\ pc \notin {"undo", "undoSave"} =>
                   pendSave[job].slot <= attempts[cur]
             /\ pendSave[job].slot <= attempts[cur] + 1
  BY <1>j, <1>t, OwnCounts
<1>s. ASSUME pc \notin Resting, verdict # "malformed"
      PROVE  /\ disk[job] \in FailureStates /\ known[job] \in FailureStates
             /\ pendSave[job].state \in FailureStates
             /\ pendSave[job].slot \in 0..MaxAttempts
             /\ floor[job] \in 0..MaxAttempts
             /\ pendSettle[job] \in 0..MaxAttempts
             /\ pendLoad[job] \in 0..MaxAttempts
  BY <1>s, <1>j, <1>t, CountTypes
<1>1. CASE UNCHANGED vars \/ PullNothing
  <2>1. UNCHANGED vars
    BY <1>1 DEF PullNothing
  <2>2. UNCHANGED Maps /\ UNCHANGED <<pc, cur, base, verdict, attempts>>
    BY <2>1 DEF vars, diskVars, stateMaps, opMaps, callVars, queueVars
  <2> QED BY <2>2, <1>a, <1>b
<1>2. ASSUME NEW m \in Messages, Pull(m) PROVE Good
  <2>1. /\ UNCHANGED Maps /\ cur = NoMsg /\ m # NoMsg
        /\ attempts' = [attempts EXCEPT ![m] = Smaller(MaxAttempts, @ + 1)]
        /\ pc' = "ack" => verdict' = "malformed"
        /\ pc' \in {"policy", "ack", "thrown"} /\ cur' \in {m, NoMsg}
    BY <1>2, <1>t, JobsAssumption
       DEF Pull, diskVars, stateMaps, opMaps, CallInv, Resting
  <2>2. ASSUME NEW n \in Messages, JobOf[n] \in Deliveries PROVE Counted(n)'
    <3>1. /\ Counted(n) /\ attempts[n] \in 0..MaxAttempts /\ n # NoMsg
          /\ pendSave[JobOf[n]].slot \in 0..MaxAttempts
          /\ UNCHANGED <<disk, known, pendSave, floor, pendSettle, pendLoad>>
      BY <2>1, <2>2, <1>t, <1>m, JobsAssumption, CountTypes DEF CountInv
    <3>2. /\ AtMost(JobOf[n], attempts[n])
          /\ pendSave[JobOf[n]].slot <= attempts[n] + 1
      BY <3>1, <2>1 DEF Counted, Used, Chargeable
    <3>3. \/ attempts'[n] = attempts[n] /\ n # m
          \/ attempts'[n] = Smaller(MaxAttempts, attempts[n] + 1)
      BY <2>1, <2>2, <1>m
    <3>4. CASE n # m
      <4>1. Used(n)' = attempts[n] /\ Chargeable(n)' = attempts[n] + 1
        BY <2>1, <3>1, <3>4, <1>m, <2>2 DEF Used, Chargeable
      <4> QED BY <3>1, <3>2, <4>1 DEF Counted, AtMost
    <3>5. CASE attempts'[n] = Smaller(MaxAttempts, attempts[n] + 1)
      <4>1. Used(n)' \in attempts[n]..MaxAttempts
        <5>1. attempts[n] \in 0..MaxAttempts
          BY <3>1
        <5>2. CASE attempts[n] < MaxAttempts
          <6>1. attempts'[n] = attempts[n] + 1
            BY <3>5, <5>1, <5>2 DEF Smaller, MaxAttempts
          <6>2. Used(n)' = attempts'[n] \/ Used(n)' = attempts'[n] - 1
            BY DEF Used
          <6> QED BY <5>1, <5>2, <6>1, <6>2 DEF MaxAttempts
        <5>3. CASE attempts[n] = MaxAttempts
          <6>1. attempts'[n] = MaxAttempts
            BY <3>5, <5>3 DEF Smaller, MaxAttempts
          <6>2. Used(n)' = attempts'[n]
            BY <6>1 DEF Used, MaxAttempts
          <6> QED BY <5>3, <6>1, <6>2 DEF MaxAttempts
        <5> QED BY <5>1, <5>2, <5>3 DEF MaxAttempts
      <4>2. /\ Chargeable(n)' \in Nat
            /\ Chargeable(n)' = MaxAttempts \/ Chargeable(n)' >= attempts[n] + 1
        BY <3>1, <3>5 DEF Chargeable, Smaller, MaxAttempts
      <4>3. pendSave'[JobOf[n]].slot <= Chargeable(n)'
        BY <3>1, <3>2, <4>2 DEF MaxAttempts
      <4>4. AtMost(JobOf[n], Used(n))'
        BY <2>2, <3>1, <3>2, <4>1, <1>t, CountTypes
           DEF AtMost, Within, FailureStates, MaxAttempts
      <4> QED BY <4>3, <4>4 DEF Counted
    <3> QED BY <3>3, <3>4, <3>5
  <2>3. pc' \notin Slotted
    BY <2>1
  <2> QED BY <2>1, <2>2, <2>3 DEF CountInv, Exhaustion
<1>3. CASE \/ Acknowledge \/ SettlementFails \/ PolicyRefuses
           \/ \E b \in BOOLEAN : PolicyUnavailable(b)
           \/ HasRequestCompletion \/ MarkRequestCompletion
           \/ ReviewRejected \/ ReviewStopped \/ Resume \/ Restart
           \/ \E m \in Messages : LeaseExpires(m)
  <2>1. UNCHANGED Maps
    BY <1>3
       DEF Acknowledge, SettlementFails, PolicyRefuses, PolicyUnavailable,
           HasRequestCompletion, MarkRequestCompletion, ReviewRejected,
           ReviewStopped, Resume, Restart, LeaseExpires, diskVars, stateMaps,
           opMaps
  <2>2. Goes
    BY <1>3
       DEF Acknowledge, SettlementFails, PolicyRefuses, PolicyUnavailable,
           HasRequestCompletion, MarkRequestCompletion, ReviewRejected,
           ReviewStopped, Resume, Restart, LeaseExpires, queueVars, callVars,
           Early
  <2> QED BY <2>1, <2>2, <1>a, <1>b
<1>4. CASE Retry
  <2>1. verdict # "malformed" /\ pc \notin Resting
    BY <1>4, <1>t DEF Retry, CallInv, Resting
  <2>2. /\ pendSettle' = [pendSettle EXCEPT ![job] = 0] \/ UNCHANGED pendSettle
        /\ UNCHANGED <<disk, known, pendSave, floor, pendLoad>>
    BY <1>4 DEF Retry, diskVars, opMaps
  <2>3. \A d \in Deliveries : Lowered(d)
    BY <2>2, <1>t, <1>m, Lowers
  <2>4. Goes
    BY <1>4, JobsAssumption DEF Retry, Early
  <2> QED BY <2>3, <2>4, <1>a
<1>5. CASE PolicyAllows
  <2>1. /\ pc = "policy" /\ verdict # "malformed" /\ pc \notin Resting
        /\ UNCHANGED <<disk, pendSave, pendLoad, attempts>>
    BY <1>5, <1>t DEF PolicyAllows, CallInv, Resting, diskVars, opMaps, queueVars
  <2>2. CASE SettleStoreFailure(job, pendSettle[job], TRUE)
    <3>1. pendSettle[job] <= attempts[cur]
      BY <2>1, <1>j, <1>s DEF AtMost
    <3>2. pendLoad[job] <= attempts[cur] /\ pendSave[job].slot <= attempts[cur]
      BY <2>1, <1>j DEF AtMost
    <3>3. CountInv' /\ (pc' = "ack" => cur' = cur /\ attempts[cur] = MaxAttempts)
      BY <2>1, <2>2, <3>1, <3>2, <1>t, <1>s, SettleCounts
    <3> QED BY <2>1, <3>3, <1>j DEF Exhaustion, MaxAttempts
  <2>3. CASE ~SettleStoreFailure(job, pendSettle[job], TRUE)
    <3>1. UNCHANGED Maps /\ Goes
      BY <1>5, <2>1, <2>3 DEF PolicyAllows, stateMaps, Early
    <3> QED BY <3>1, <1>a, <1>b
  <2> QED BY <2>2, <2>3
<1>6. CASE LoadFailureState
  <2>1. /\ pc = "load" /\ verdict # "malformed" /\ pc \notin Resting
        /\ UNCHANGED <<disk, attempts>>
        /\ pendLoad' = [pendLoad EXCEPT ![job] = 0]
    BY <1>6, <1>t DEF LoadFailureState, CallInv, Resting, diskVars, queueVars
  <2>2. /\ \A d \in Deliveries \ {job} : pendLoad'[d] = pendLoad[d]
        /\ pendLoad'[job] = 0
    BY <2>1, <1>j, <1>m
  <2>3. CASE SettleStoreFailure(job, pendSettle[job], TRUE) /\ UNCHANGED pendSave
    <3>1. pendSettle[job] <= attempts[cur] /\ pendSave[job].slot <= attempts[cur]
      BY <2>1, <1>j, <1>s DEF AtMost
    <3>2. pendLoad'[job] <= attempts[cur]
      BY <2>1, <2>2, <1>j DEF MaxAttempts
    <3>3. CountInv' /\ (pc' = "ack" => cur' = cur /\ attempts[cur] = MaxAttempts)
      BY <2>1, <2>2, <2>3, <3>1, <3>2, <1>t, <1>s, SettleCounts
    <3> QED BY <2>1, <3>3, <1>j DEF Exhaustion, MaxAttempts
  <2>4. CASE UNCHANGED <<known, floor, pendSettle, pendSave>>
             /\ pc' \in {"mark", "ack"} /\ verdict' = "completed" /\ cur' = cur
    <3>1. \A d \in Deliveries : Lowered(d)
      BY <2>1, <2>2, <2>4, <1>t, Lowers
    <3>2. Goes
      BY <2>1, <2>4 DEF Early
    <3> QED BY <3>1, <3>2, <1>a
  <2> DEFINE L == LoadedFailures
             N == NextFailureSlot(LoadedFailures, floor[job], LoadedState)
  <2>5. /\ L \in 0..MaxAttempts /\ LoadedState \in FailureStates
        /\ N \in 0..MaxAttempts
    BY <2>1, <1>j, <1>t, LoadedType
  <2>6. /\ L <= Used(cur) /\ Within(Committed(L), Used(cur))
        /\ Within(LoadedState, Used(cur))
    <3>1. /\ AtMost(job, Used(cur)) /\ Used(cur) \in 0..MaxAttempts
      BY <2>1, <1>j DEF Early, MaxAttempts
    <3>2. L <= Used(cur)
      BY <3>1, <2>1, <1>s
         DEF LoadedFailures, Reconciled, ConsumeReservation, Committed, Larger,
             AtMost, Within, FailureStates, HasReservation, MaxAttempts
    <3>3. Within(Committed(L), Used(cur))
      BY <3>1, <3>2 DEF Within, Committed, MaxAttempts
    <3>4. LoadedState \in {known[job], Committed(L)}
      <4>1. known[job].done \in BOOLEAN /\ Committed(L).done = FALSE
        BY <2>1, <1>s DEF FailureStates, Committed
      <4> QED BY <4>1 DEF LoadedState, MoreConservative
    <3> QED BY <3>1, <3>2, <3>3, <3>4 DEF AtMost
  <2>7. /\ L < attempts[cur] \/ attempts[cur] = MaxAttempts
        /\ Within(Committed(L), attempts[cur])
        /\ Within(LoadedState, attempts[cur])
        /\ N <= attempts[cur]
    <3>1. /\ Used(cur) \in 0..attempts[cur] /\ attempts[cur] \in 0..MaxAttempts
          /\ Used(cur) < attempts[cur] \/ attempts[cur] = MaxAttempts
          /\ floor[job] <= Used(cur)
      BY <2>1, <1>j DEF Early, AtMost
    <3>2. Committed(L) \in FailureStates
      BY <2>5, CommittedValid
    <3>3. N <= Used(cur) + 1
      BY <2>1, <2>5, <2>6, <3>1, <1>s, SlotCounts DEF MaxAttempts
    <3> QED BY <2>5, <2>6, <3>1, <3>2, <3>3 DEF Within, FailureStates, MaxAttempts
  <2>8. CASE StartSave(Committed(L), N, LoadedState) /\ pc' = "sync"
             /\ base' = L /\ cur' = cur /\ UNCHANGED <<floor, pendSettle>>
    <3> DEFINE op == SaveOp(Committed(L), N)
    <3>1. /\ pendSave' = [pendSave EXCEPT ![job] = op]
          /\ known' = [known EXCEPT ![job] = MoreConservative(LoadedState, Committed(L))]
      BY <2>8 DEF StartSave
    <3>2. op.state = Committed(L) /\ op.slot = N
      BY DEF SaveOp
    <3>3. MoreConservative(LoadedState, Committed(L)) \in {LoadedState, Committed(L)}
      <4>1. LoadedState.done \in BOOLEAN /\ Committed(L).done = FALSE
        BY <2>5 DEF FailureStates, Committed
      <4> QED BY <4>1 DEF MoreConservative
    <3>4. /\ Within(known'[job], attempts[cur])
          /\ \A d \in Deliveries \ {job} : known'[d] = known[d]
      BY <2>1, <2>7, <3>1, <3>3, <1>j, <1>m
    <3> HIDE DEF op
    <3>5. \A d \in Deliveries : pendLoad'[d] \in {pendLoad[d], 0}
      BY <2>2
    <3>6. CountInv'
      BY <2>1, <2>2, <2>7, <2>8, <3>1, <3>2, <3>4, <3>5, <1>t, SaveCounts
         DEF Early
    <3> QED BY <2>8, <3>6 DEF Exhaustion
  <2>9. CASE ReserveOrSettle(L, LoadedState) /\ UNCHANGED <<floor, pendSettle>>
    <3>1. CountInv' /\ (pc' = "ack" => cur' = cur /\ attempts[cur] = MaxAttempts)
      <4> HIDE DEF L
      <4> QED BY <2>1, <2>2, <2>5, <2>7, <2>9, <1>t, ReserveCounts
    <3> QED BY <2>1, <3>1, <1>j DEF Exhaustion, MaxAttempts
  <2> QED BY <1>6, <2>3, <2>4, <2>8, <2>9 DEF LoadFailureState, stateMaps
<1>7. ASSUME NEW b \in BOOLEAN, LoadFails(b) PROVE Good
  <2> DEFINE n == IF pendLoad[job] > 0 THEN pendLoad[job]
                  ELSE NextFailureSlot(0, floor[job], known[job])
             c == pendLoad[job] > 0
  <2>1. /\ pc = "load" /\ verdict # "malformed" /\ pc \notin Resting
        /\ UNCHANGED <<disk, attempts, pendSave>>
        /\ SettleStoreFailure(job, n, c)
        /\ pendLoad' = [pendLoad EXCEPT ![job] = IF b THEN n ELSE 0]
    BY <1>7, <1>t DEF LoadFails, CallInv, Resting, diskVars, queueVars
  <2>2. n \in 0..MaxAttempts /\ n <= attempts[cur]
    <3>1. /\ Used(cur) \in 0..attempts[cur] /\ attempts[cur] \in 0..MaxAttempts
          /\ Used(cur) < attempts[cur] \/ attempts[cur] = MaxAttempts
          /\ floor[job] <= Used(cur) /\ Within(known[job], Used(cur))
          /\ pendLoad[job] <= Used(cur)
      BY <2>1, <1>j DEF Early, AtMost
    <3>2. /\ NextFailureSlot(0, floor[job], known[job]) \in 0..MaxAttempts
          /\ NextFailureSlot(0, floor[job], known[job]) <= Used(cur) + 1
      BY <2>1, <3>1, <1>s, SlotCounts DEF MaxAttempts
    <3> QED BY <2>1, <3>1, <3>2, <1>s DEF MaxAttempts
  <2> HIDE DEF n, c
  <2>3. /\ \A d \in Deliveries \ {job} : pendLoad'[d] = pendLoad[d]
        /\ pendLoad'[job] <= attempts[cur]
    BY <2>1, <2>2, <1>j, <1>m DEF MaxAttempts
  <2>4. pendSave[job].slot <= attempts[cur]
    BY <2>1, <1>j
  <2>c. c \in BOOLEAN
    BY DEF c
  <2>5. CountInv' /\ (pc' = "ack" => cur' = cur /\ attempts[cur] = MaxAttempts)
    BY <2>1, <2>2, <2>3, <2>4, <2>c, <1>t, <1>s, SettleCounts
  <2> QED BY <2>1, <2>5, <1>j DEF Exhaustion, MaxAttempts
<1>8. ASSUME NEW b \in BOOLEAN, JoinFails(b) \/ SaveFails(b) PROVE Good
  <2>1. /\ pc \in {"load", "sync", "reserve", "commit", "fence"}
        /\ verdict # "malformed" /\ pc \notin Resting
        /\ UNCHANGED <<attempts, pendLoad>>
        /\ disk' = disk \/ disk' = Written(job)
        /\ \/ \E c \in BOOLEAN : pendSave' = [pendSave EXCEPT ![job].counted = c]
           \/ pendSave' = [pendSave EXCEPT ![job] = NoSave]
        /\ \/ /\ pc' = "thrown" /\ cur' = NoMsg /\ UNCHANGED stateMaps
           \/ \E c \in BOOLEAN : SettleStoreFailure(job, pendSave[job].slot, c)
    <3>1. pendSave[job].counted \in BOOLEAN /\ (pc # "fence" /\ ~stopping) \in BOOLEAN
      <4>1. pc \notin Resting /\ verdict # "malformed"
        BY <1>8, <1>t DEF JoinFails, SaveFails, CallInv, Resting
      <4> QED BY <4>1, <1>j, <1>m DEF SaveRecords
    <3>2. CASE JoinFails(b)
      BY <3>1, <3>2, <1>t DEF JoinFails, CallInv, Resting, queueVars
    <3>3. CASE SaveFails(b)
      BY <3>1, <3>3, <1>t DEF SaveFails, CallInv, Resting, queueVars
    <3> QED BY <1>8, <3>2, <3>3
  <2>2. /\ \A d \in Deliveries \ {job} :
              disk'[d] = disk[d] /\ pendSave'[d] = pendSave[d]
        /\ disk'[job] \in {disk[job], pendSave[job].state}
        /\ \/ pendSave'[job] = NoSave
           \/ /\ pendSave'[job].state = pendSave[job].state
              /\ pendSave'[job].slot = pendSave[job].slot
    BY <2>1, <1>j, <1>m DEF Written, SaveRecords
  <2>3. CASE pc' = "thrown" /\ cur' = NoMsg /\ UNCHANGED stateMaps
    <3>1. \A d \in Deliveries : Lowered(d)
      BY <2>1, <2>2, <2>3, <1>t, Lowers DEF stateMaps
    <3>2. Goes
      BY <2>1, <2>3, JobsAssumption
    <3> QED BY <3>1, <3>2, <1>a
  <2>4. ASSUME NEW c \in BOOLEAN, SettleStoreFailure(job, pendSave[job].slot, c)
        PROVE  Good
    <3>1. pendSave[job].slot <= attempts[cur] /\ pendLoad[job] <= attempts[cur]
          /\ attempts[cur] \in 0..MaxAttempts
      BY <2>1, <1>j DEF AtMost
    <3>2. /\ pendSave'[job].state \in {pendSave[job].state, EmptyState}
          /\ pendSave'[job].slot <= attempts[cur]
      BY <2>2, <3>1, <1>n DEF MaxAttempts
    <3>3. CountInv' /\ (pc' = "ack" => cur' = cur /\ attempts[cur] = MaxAttempts)
      BY <2>1, <2>2, <2>4, <3>1, <3>2, <1>t, <1>s, SettleCounts
    <3> QED BY <2>1, <3>3, <1>j DEF Exhaustion, MaxAttempts
  <2> QED BY <2>1, <2>3, <2>4
<1>9. CASE SyncSaved
  <2>1. /\ pc = "sync" /\ verdict # "malformed" /\ pc \notin Resting
        /\ UNCHANGED <<attempts, pendSettle, pendLoad>>
        /\ disk' = Written(job) /\ floor' = [floor EXCEPT ![job] = 0]
        /\ ReserveOrSettle(base, known[job])
    BY <1>9, <1>t DEF SyncSaved, CallInv, Resting, queueVars
  <2>2. /\ \A d \in Deliveries \ {job} : disk'[d] = disk[d] /\ floor'[d] = floor[d]
        /\ disk'[job] = pendSave[job].state /\ floor'[job] = 0
    BY <2>1, <1>j, <1>m DEF Written
  <2>3. /\ base < attempts[cur] \/ attempts[cur] = MaxAttempts
        /\ Within(known[job], attempts[cur])
    BY <2>1, <1>j DEF CountInv, AtMost
  <2>4. CountInv' /\ (pc' = "ack" => cur' = cur /\ attempts[cur] = MaxAttempts)
    BY <2>1, <2>2, <2>3, <1>t, <1>m, <1>s, ReserveCounts
  <2> QED BY <2>1, <2>4, <1>j DEF Exhaustion, MaxAttempts
<1>10. CASE StartReview \/ CommitSaved \/ FenceSaved \/ RollbackSaved
            \/ \E b \in BOOLEAN : RollbackFails(b)
  <2>1. /\ pc \in {"reserve", "commit", "fence", "undo", "undoSave"}
        /\ verdict # "malformed" /\ pc \notin Resting
        /\ UNCHANGED <<attempts, floor, pendSettle, pendLoad>>
        /\ disk' = disk \/ disk' = Written(job)
        /\ UNCHANGED pendSave \/ pendSave' = [pendSave EXCEPT ![job] = NoSave]
        /\ known' = known \/ known' = KnownRolledBack
    BY <1>10, <1>t
       DEF StartReview, CommitSaved, FenceSaved, RollbackSaved, RollbackFails,
           CallInv, Resting, queueVars, stateMaps
  <2>2. \A d \in Deliveries : Lowered(d)
    <3> SUFFICES ASSUME NEW d \in Deliveries PROVE Lowered(d)
      OBVIOUS
    <3>1. disk'[d] \in {disk[d], pendSave[d].state}
      BY <2>1, <1>m DEF Written
    <3>2. pendSave'[d] = NoSave \/ pendSave'[d] = pendSave[d]
      BY <2>1, <1>m
    <3>3. known'[d] \in {known[d], Committed(known[d].committed)}
      BY <2>1, <1>m DEF KnownRolledBack
    <3> QED BY <2>1, <3>1, <3>2, <3>3, <1>t, Lowers
  <2>3. CASE CommitSaved
    <3>1. /\ pc = "commit" /\ attempts[cur] \in 0..MaxAttempts
          /\ base < attempts[cur] \/ attempts[cur] = MaxAttempts
      BY <2>1, <2>3, <1>j DEF CommitSaved, CountInv
    <3>2. base + 1 >= MaxAttempts => attempts[cur] >= MaxAttempts
      BY <3>1, <1>m DEF MaxAttempts
    <3>3. Goes
      BY <2>1, <2>3, <3>2, JobsAssumption DEF CommitSaved, thisSlot, Early
    <3> QED BY <2>2, <3>3, <1>a
  <2>4. CASE FenceSaved
    <3>1. /\ pc = "fence" /\ pc' \in {"ack", "mark"} /\ cur' = cur
          /\ verdict' = "completed"
      BY <2>4 DEF FenceSaved, EndInv
    <3>2. Goes
      BY <2>1, <3>1 DEF Early
    <3> QED BY <2>2, <3>2, <1>a
  <2>5. CASE StartReview \/ RollbackSaved \/ \E b \in BOOLEAN : RollbackFails(b)
    <3>1. Goes
      BY <2>1, <2>5, JobsAssumption DEF StartReview, RollbackSaved, RollbackFails, Early
    <3> QED BY <2>2, <3>1, <1>a
  <2> QED BY <1>10, <2>3, <2>4, <2>5
<1>11. CASE ReviewCompletes \/ ReviewCancelled \/ ReviewFails
  <2>1. /\ pc = "review" /\ verdict # "malformed" /\ pc \notin Resting
        /\ UNCHANGED <<attempts, disk, floor, pendSettle, pendLoad>>
    BY <1>11, <1>t
       DEF ReviewCompletes, ReviewCancelled, ReviewFails, CallInv, Resting,
           queueVars, diskVars
  <2>2. /\ base < MaxAttempts /\ attempts[cur] \in 0..MaxAttempts
        /\ base < attempts[cur] \/ attempts[cur] = MaxAttempts
        /\ Within(known[job], attempts[cur])
    BY <2>1, <1>t, <1>j DEF SlotInv, CountInv, AtMost
  <2>3. thisSlot \in 0..MaxAttempts /\ thisSlot <= attempts[cur]
    BY <2>2, <1>m DEF thisSlot, MaxAttempts
  <2>4. ASSUME NEW s \in {Completed(base), Committed(thisSlot)},
               StartSave(s, thisSlot, known[job]),
               pc' \in {"fence", "commit"}, base' = base, cur' = cur
        PROVE  Good
    <3> DEFINE op == SaveOp(s, thisSlot)
    <3>1. /\ pendSave' = [pendSave EXCEPT ![job] = op]
          /\ known' = [known EXCEPT ![job] = MoreConservative(known[job], s)]
      BY <2>4 DEF StartSave
    <3>2. op.state = s /\ op.slot = thisSlot
      BY DEF SaveOp
    <3>3. Within(s, attempts[cur]) /\ s.done \in BOOLEAN
      <4>1. base <= attempts[cur] /\ 0 <= attempts[cur]
        BY <2>2, <1>m DEF MaxAttempts
      <4>2. CASE s = Completed(base)
        BY <4>1, <4>2 DEF Within, Completed
      <4>3. CASE s = Committed(thisSlot)
        BY <4>1, <4>3, <2>3 DEF Within, Committed
      <4> QED BY <4>2, <4>3, <2>4
    <3>4. MoreConservative(known[job], s) \in {known[job], s}
      <4>1. known[job].done \in BOOLEAN
        BY <2>1, <1>s DEF FailureStates
      <4> QED BY <3>3, <4>1 DEF MoreConservative
    <3>5. /\ Within(known'[job], attempts[cur])
          /\ \A d \in Deliveries \ {job} : known'[d] = known[d]
      BY <2>1, <2>2, <3>1, <3>3, <3>4, <1>j, <1>m
    <3> HIDE DEF op
    <3>6. CountInv'
      BY <2>1, <2>2, <2>3, <2>4, <3>1, <3>2, <3>3, <3>5, <1>t, SaveCounts
         DEF Early
    <3> QED BY <2>4, <3>6 DEF Exhaustion
  <2>5. CASE UNCHANGED <<known, pendSave>> /\ pc' \in {"thrown", "ack"}
             /\ (pc' = "ack" => verdict' = "completed") /\ cur' \in {cur, NoMsg}
    <3>1. UNCHANGED Maps
      BY <2>1, <2>5
    <3>2. Goes
      BY <2>1, <2>5 DEF Early
    <3> QED BY <3>1, <3>2, <1>a, <1>b
  <2> QED BY <1>11, <2>4, <2>5 DEF ReviewCompletes, ReviewCancelled, ReviewFails
<1>12. CASE RollbackReservation
  <2>1. /\ pc = "undo" /\ verdict # "malformed" /\ pc \notin Resting
        /\ UNCHANGED <<attempts, disk, floor, pendSettle, pendLoad>>
    BY <1>12, <1>t
       DEF RollbackReservation, CallInv, Resting, queueVars, diskVars
  <2>2. CASE pc' = "thrown" /\ cur' = NoMsg /\ UNCHANGED pendSave
             /\ \/ known' = KnownRolledBack
                \/ known' = [known EXCEPT ![job] =
                      MoreConservative(@, ConsumeReservation(disk[job]))]
    <3>1. MoreConservative(known[job], ConsumeReservation(disk[job]))
              \in {known[job], ConsumeReservation(disk[job])}
      <4>1. /\ known[job].done \in BOOLEAN
            /\ ConsumeReservation(disk[job]) \in FailureStates
        BY <2>1, <1>s, ConsumeType DEF FailureStates
      <4>2. ConsumeReservation(disk[job]).done \in BOOLEAN
        BY <4>1 DEF FailureStates
      <4> QED BY <4>1, <4>2 DEF MoreConservative
    <3>2. ASSUME NEW d \in Deliveries
          PROVE  known'[d] \in {known[d], Committed(known[d].committed),
                                ConsumeReservation(disk[d])}
      BY <2>1, <2>2, <3>1, <1>j, <1>m DEF KnownRolledBack
    <3>3. \A d \in Deliveries : Lowered(d)
      BY <2>1, <2>2, <3>2, <1>t, Lowers
    <3>4. Goes
      BY <2>1, <2>2, JobsAssumption
    <3> QED BY <3>3, <3>4, <1>a
  <2> DEFINE N == NextFailureSlot(0, floor[job], known[job])
             op == [SaveOp(Committed(disk[job].committed), N)
                       EXCEPT !.refund = IF verdict = "refund" THEN 1 ELSE 0]
  <2>3. CASE pendSave' = [pendSave EXCEPT ![job] = op] /\ UNCHANGED known
             /\ pc' = "undoSave" /\ base' = base /\ cur' = cur
    <3>1. op.state = Committed(disk[job].committed) /\ op.slot = N
      BY DEF SaveOp
    <3>2. /\ Within(Committed(disk[job].committed), attempts[cur])
          /\ Within(known[job], attempts[cur]) /\ floor[job] <= attempts[cur]
      BY <2>1, <1>j, <1>s, WithinTypes DEF AtMost
    <3>3. N <= attempts[cur] + 1
      BY <2>1, <3>2, <1>j, <1>s, SlotCounts DEF MaxAttempts
    <3>4. base' < attempts[cur] \/ attempts[cur] = MaxAttempts
      BY <2>1, <2>3 DEF CountInv
    <3> HIDE DEF op, N
    <3>5. CountInv'
      BY <2>1, <2>3, <3>1, <3>2, <3>3, <3>4, <1>t, SaveCounts DEF Early
    <3> QED BY <2>3, <3>5 DEF Exhaustion
  <2> QED BY <1>12, <2>2, <2>3 DEF RollbackReservation
<1>13. CASE ClearFailureState
  <2>1. /\ pc = "clear" /\ verdict # "malformed" /\ pc \notin Resting
        /\ DropMaps(job) /\ attempts' = attempts
        /\ disk' = disk \/ disk' = [disk EXCEPT ![job] = EmptyState]
    BY <1>13, <1>t DEF ClearFailureState, CallInv, Resting, queueVars
  <2>2. \A d \in Deliveries : Lowered(d)
    <3> SUFFICES ASSUME NEW d \in Deliveries PROVE Lowered(d)
      OBVIOUS
    <3>1. /\ disk'[d] \in {disk[d], EmptyState} /\ known'[d] \in {known[d], EmptyState}
          /\ floor'[d] \in {floor[d], 0} /\ pendSettle'[d] \in {pendSettle[d], 0}
          /\ pendLoad'[d] \in {pendLoad[d], 0}
      BY <2>1, <1>m DEF DropMaps
    <3>2. /\ pendSave'[d].state = pendSave[d].state
          /\ pendSave'[d].slot = pendSave[d].slot
      BY <2>1, <1>m DEF DropMaps, SaveRecords
    <3> QED BY <3>1, <3>2, <1>t, Lowers
  <2>3. Goes
    BY <1>13, <2>1, JobsAssumption DEF ClearFailureState, Early
  <2> QED BY <2>2, <2>3, <1>a
<1>14. ASSUME NEW e \in Deliveries, LateStep(e) PROVE Good
  <2>1. UNCHANGED <<known, floor, pendSettle, attempts, pc, cur, base, verdict>>
    BY <1>14
       DEF LateStep, LateSave, LateClear, LateLoad, stateMaps, callVars, queueVars
  <2>2. \A d \in Deliveries : Lowered(d)
    <3> SUFFICES ASSUME NEW d \in Deliveries PROVE Lowered(d)
      OBVIOUS
    <3>1. disk'[d] \in {disk[d], pendSave[d].state, EmptyState}
      BY <1>14, <1>m DEF LateStep, LateSave, LateClear, LateLoad, Written, diskVars
    <3>2. pendSave'[d] = NoSave \/ pendSave'[d] = pendSave[d]
      BY <1>14, <1>m DEF LateStep, LateSave, LateClear, LateLoad
    <3>3. pendLoad'[d] \in {pendLoad[d], 0}
      BY <1>14, <1>m DEF LateStep, LateSave, LateClear, LateLoad
    <3> QED BY <2>1, <3>1, <3>2, <3>3, <1>t, Lowers
  <2>3. Goes
    BY <2>1
  <2> QED BY <2>2, <2>3, <1>a
<1>15. CASE Stop
  <2>1. /\ UNCHANGED <<disk, known, pendSave, floor, pendSettle, attempts>>
        /\ \/ UNCHANGED pendLoad
           \/ pendLoad' = [pendLoad EXCEPT ![job] = 0]
    BY <1>15 DEF Stop, diskVars, stateMaps, queueVars
  <2>2. \A d \in Deliveries : Lowered(d)
    <3> SUFFICES ASSUME NEW d \in Deliveries PROVE Lowered(d)
      OBVIOUS
    <3>1. pendLoad'[d] \in {pendLoad[d], 0}
      BY <2>1, <1>m
    <3> QED BY <2>1, <3>1, <1>t, Lowers
  <2>3. \/ pc' = "thrown" /\ cur' = NoMsg
        \/ pc = "reserve" /\ pc' = "undo" /\ base' = base /\ cur' = cur
        \/ UNCHANGED callVars
    BY <1>15 DEF Stop
  <2>4. Goes
    BY <2>1, <2>3, JobsAssumption DEF Early, callVars
  <2> QED BY <2>2, <2>4, <1>a
<1>16. CASE Crash \/ Exit
  <2>1. GoDown
    BY <1>16 DEF Crash, Exit
  <2>2. \A d \in Deliveries : Lowered(d)
    <3> SUFFICES ASSUME NEW d \in Deliveries PROVE Lowered(d)
      OBVIOUS
    <3>1. disk'[d] \in {disk[d], pendSave[d].state}
      BY <2>1 DEF GoDown
    <3>2. /\ pendSave'[d] = NoSave /\ known'[d] = EmptyState /\ floor'[d] = 0
          /\ pendSettle'[d] = 0 /\ pendLoad'[d] = 0
      BY <2>1 DEF GoDown
    <3> QED BY <3>1, <3>2, <1>t, Lowers
  <2>3. pc' = "down" /\ cur' = NoMsg /\ attempts' = attempts
    BY <2>1 DEF GoDown, queueVars
  <2>4. Goes
    BY <2>3, JobsAssumption
  <2> QED BY <2>2, <2>4, <1>a
<1> QED
  BY <1>1, <1>2, <1>3, <1>4, <1>5, <1>6, <1>7, <1>8, <1>9, <1>10, <1>11, <1>12,
     <1>13, <1>14, <1>15, <1>16
     DEF Next, RunnerStep, QueueStep, PolicyStep, StoreStep, ReviewStep,
         RollbackStep, ProcessStep

(* A request that counts as reviewed goes on to do so.                     *)
LEMMA EndStep ==
    ASSUME QueueInv, QueueInv', EndInv, [Next]_vars
    PROVE  EndInv'
<1> USE DEF Goto, Throw, Finish
<1>t. /\ TypeInvariant /\ TypeInvariant' /\ CallInv /\ AttemptInv
  BY DEF QueueInv
<1>m. /\ disk \in [Deliveries -> FailureStates]
      /\ pendSave \in [Deliveries -> SaveRecords]
  BY <1>t DEF TypeInvariant, WorldTypes, MapTypes
<1>n. NoSave.state = EmptyState /\ ~EmptyState.done
      /\ (\A n : ~Committed(n).done) /\ (\A n, o : ~Reserved(n, o).done)
      /\ (\A s, n : SaveOp(s, n).state = s)
  BY DEF NoSave, SaveOp, EmptyState, Committed, Reserved
<1> DEFINE States == /\ finished \subseteq finished'
                     /\ \A d \in Deliveries :
                           /\ disk'[d].done => disk[d].done \/ pendSave[d].state.done
                           /\ pendSave'[d].state.done =>
                                 pendSave[d].state.done \/ d \in finished'
           Marks == /\ doneRequests' \cup completions'
                          \subseteq doneRequests \cup completions
                                    \cup {RequestOf[d] : d \in finished'}
           Call == pc' \in {"fence", "mark"} =>
                      /\ verdict' = "completed" /\ cur' = cur
                      /\ \/ pc \in {"fence", "mark"}
                         \/ job \in finished'
                         \/ Requested /\ request \in doneRequests
<1>a. ASSUME States, Marks, Call PROVE EndInv'
  <2>1. \A r : Ended(r) => Ended(r)'
    BY <1>a DEF Ended
  <2>2. \A d \in Deliveries : disk'[d].done \/ pendSave'[d].state.done => d \in finished'
    BY <1>a DEF EndInv
  <2>3. \A r \in doneRequests' \cup completions' : Ended(r)'
    BY <1>a, <2>1 DEF EndInv, Ended
  <2>4. ASSUME pc' \in {"fence", "mark"}
        PROVE  verdict' = "completed" /\ (job' \in finished' \/ (Requested' /\ Ended(request)'))
    <3>1. verdict' = "completed" /\ cur' = cur
      BY <1>a, <2>4
    <3>2. job' = job /\ request' = request /\ Requested' = Requested
      BY <3>1 DEF job, request, Requested
    <3>3. \/ job \in finished \/ job \in finished'
          \/ Requested /\ Ended(request)
      BY <1>a, <2>4 DEF EndInv
    <3>4. Ended(request) => \E d \in finished' : RequestOf[d] = request
      BY <1>a DEF Ended
    <3> QED BY <1>a, <3>1, <3>2, <3>3, <3>4 DEF Ended
  <2> QED BY <2>2, <2>3, <2>4 DEF EndInv
<1>j. ASSUME pc \notin Resting, verdict # "malformed"
      PROVE  /\ cur \in Messages /\ job \in Deliveries
             /\ disk[job] \in FailureStates
             /\ pendSave[job].state \in FailureStates
  BY <1>j, <1>t, CountTypes DEF CallInv, job
<1>s. ASSUME UNCHANGED <<disk, pendSave>>, finished \subseteq finished' PROVE States
  BY <1>s
<1>1. CASE UNCHANGED vars \/ PullNothing
  <2>1. UNCHANGED vars
    BY <1>1 DEF PullNothing
  <2>2. UNCHANGED <<disk, pendSave, finished, doneRequests, completions, pc, cur, verdict>>
    BY <2>1 DEF vars, diskVars, opMaps, callVars, history
  <2>3. Call
    BY <2>2 DEF EndInv
  <2> QED BY <2>2, <2>3, <1>a, <1>s
<1>2. CASE \/ \E m \in Messages : Pull(m) \/ LeaseExpires(m)
           \/ Acknowledge \/ Retry \/ SettlementFails \/ PolicyStep
           \/ \E b \in BOOLEAN : LoadFails(b)
           \/ ReviewRejected \/ ReviewStopped \/ Stop \/ Resume \/ Restart
  <2>1. UNCHANGED <<disk, pendSave, finished, doneRequests, completions>>
    BY <1>2
       DEF Pull, LeaseExpires, Acknowledge, Retry, SettlementFails, PolicyStep,
           PolicyAllows, PolicyRefuses, PolicyUnavailable, LoadFails,
           ReviewRejected, ReviewStopped, Stop, Resume, Restart, diskVars,
           opMaps, history
  <2>2. Call
    <3>1. CASE PolicyAllows
      BY <3>1 DEF PolicyAllows, SettleStoreFailure
    <3>2. CASE \/ PolicyRefuses \/ \E b \in BOOLEAN : PolicyUnavailable(b)
               \/ \E b \in BOOLEAN : LoadFails(b)
      BY <3>2 DEF PolicyRefuses, PolicyUnavailable, LoadFails, SettleStoreFailure
    <3>3. CASE \/ \E m \in Messages : Pull(m) \/ LeaseExpires(m)
               \/ Acknowledge \/ Retry \/ SettlementFails
               \/ ReviewRejected \/ ReviewStopped \/ Stop \/ Resume \/ Restart
      BY <3>3
         DEF Pull, LeaseExpires, Acknowledge, Retry, SettlementFails,
             ReviewRejected, ReviewStopped, Stop, Resume, Restart, callVars,
             EndInv
    <3> QED BY <1>2, <3>1, <3>2, <3>3 DEF PolicyStep
  <2> QED BY <2>1, <2>2, <1>a, <1>s
<1>3. CASE HasRequestCompletion \/ MarkRequestCompletion
  <2>1. /\ UNCHANGED <<disk, pendSave, finished>> /\ pc' \notin {"fence", "mark"}
        /\ pc \in {"lookup", "mark"} /\ verdict # "malformed"
    BY <1>3, <1>t DEF HasRequestCompletion, MarkRequestCompletion, diskVars, opMaps,
       history, CallInv
  <2>2. CASE HasRequestCompletion
    <3>1. Marks
      BY <2>2 DEF HasRequestCompletion, diskVars
    <3> QED BY <2>1, <3>1, <1>a, <1>s
  <2>3. CASE MarkRequestCompletion
    <3>1. pc = "mark" /\ doneRequests' = doneRequests
          /\ completions' \subseteq completions \cup {request}
      BY <2>3 DEF MarkRequestCompletion
    <3>2. \E d \in finished : RequestOf[d] = request
      BY <3>1 DEF EndInv, Ended, request
    <3>3. Marks
      BY <2>1, <3>1, <3>2
    <3> QED BY <2>1, <3>3, <1>a, <1>s
  <2> QED BY <1>3, <2>2, <2>3
<1>4. CASE LoadFailureState
  <2>1. /\ pc = "load" /\ verdict # "malformed" /\ pc \notin Resting
        /\ UNCHANGED <<disk, completions, finished>>
    BY <1>4, <1>t DEF LoadFailureState, CallInv, Resting, diskVars, history
  <2>2. job \in Deliveries
    BY <2>1, <1>j
  <2>3. CASE disk[job].done /\ UNCHANGED pendSave
             /\ doneRequests' \subseteq doneRequests \cup {request}
             /\ (pc' \in {"fence", "mark"} => verdict' = "completed" /\ cur' = cur)
    <3>1. job \in finished
      BY <2>2, <2>3 DEF EndInv
    <3>2. Marks
      BY <2>1, <2>3, <3>1 DEF request
    <3> QED BY <2>1, <2>3, <3>1, <3>2, <1>a, <1>s
  <2>4. CASE UNCHANGED <<pendSave, doneRequests>> /\ pc' \in {"ack", "retry"}
    BY <2>1, <2>4, <1>a, <1>s
  <2>5. CASE UNCHANGED doneRequests /\ pc' \in {"sync", "ack", "reserve"}
             /\ \E op : ~op.state.done /\ pendSave' = [pendSave EXCEPT ![job] = op]
    <3>1. States
      BY <2>1, <2>2, <2>5, <1>m
    <3> QED BY <2>1, <2>5, <3>1, <1>a
  <2>6. ASSUME NEW n, NEW r, ReserveOrSettle(n, r)
        PROVE  /\ pc' \in {"ack", "reserve"}
               /\ \E op : ~op.state.done /\ pendSave' = [pendSave EXCEPT ![job] = op]
    BY <2>6, <1>n DEF ReserveOrSettle, StartSave
  <2>7. ASSUME NEW n, NEW k, NEW r, StartSave(Committed(n), k, r)
        PROVE  \E op : ~op.state.done /\ pendSave' = [pendSave EXCEPT ![job] = op]
    <3>1. ~SaveOp(Committed(n), k).state.done
      BY <1>n
    <3> QED BY <2>7, <3>1 DEF StartSave
  <2> QED BY <1>4, <2>3, <2>4, <2>5, <2>6, <2>7 DEF LoadFailureState, SettleStoreFailure
<1>5. CASE \/ \E b \in BOOLEAN : JoinFails(b) \/ SaveFails(b) \/ RollbackFails(b)
           \/ StartReview \/ CommitSaved \/ RollbackSaved
  <2>1. /\ pc \in SaveWaits \cup {"load", "undo"} /\ verdict # "malformed"
        /\ pc \notin Resting /\ UNCHANGED <<completions, doneRequests, finished>>
        /\ disk' = disk \/ disk' = Written(job)
        /\ \/ \E c : pendSave' = [pendSave EXCEPT ![job].counted = c]
           \/ pendSave' = [pendSave EXCEPT ![job] = NoSave]
           \/ UNCHANGED pendSave
        /\ pc' \notin {"fence", "mark"}
    BY <1>5, <1>t
       DEF JoinFails, SaveFails, RollbackFails, StartReview, CommitSaved,
           RollbackSaved, SaveWaits, CallInv, Resting, history,
           SettleStoreFailure
  <2>2. job \in Deliveries
    BY <2>1, <1>j
  <2>3. States
    BY <2>1, <2>2, <1>m, <1>n DEF Written, SaveRecords
  <2> QED BY <2>1, <2>3, <1>a
<1>6. CASE FenceSaved
  <2>1. /\ pc = "fence" /\ verdict # "malformed" /\ pc \notin Resting
        /\ UNCHANGED <<completions, finished>> /\ disk' = Written(job)
        /\ pendSave' = [pendSave EXCEPT ![job] = NoSave]
        /\ doneRequests' \subseteq doneRequests \cup {request}
        /\ verdict' = verdict /\ cur' = cur
    BY <1>6, <1>t DEF FenceSaved, CallInv, Resting
  <2>2. job \in Deliveries /\ verdict = "completed"
        /\ \E d \in finished : RequestOf[d] = request
    BY <2>1, <1>j DEF EndInv, Ended, request
  <2>3. States
    BY <2>1, <2>2, <1>m, <1>n DEF Written
  <2>4. Marks
    BY <2>1, <2>2
  <2> QED BY <2>1, <2>2, <2>3, <2>4, <1>a
<1>7. CASE SyncSaved
  <2>1. /\ pc = "sync" /\ verdict # "malformed" /\ pc \notin Resting
        /\ UNCHANGED <<completions, doneRequests, finished>>
        /\ disk' = Written(job) /\ pc' \in {"ack", "reserve"}
        /\ \E op : ~op.state.done /\ pendSave' = [pendSave EXCEPT ![job] = op]
    BY <1>7, <1>t, <1>n
       DEF SyncSaved, CallInv, Resting, history, ReserveOrSettle, StartSave
  <2>2. States
    BY <2>1, <1>j, <1>m DEF Written
  <2> QED BY <2>1, <2>2, <1>a
<1>8. CASE ReviewCompletes \/ ReviewCancelled \/ ReviewFails
  <2>1. /\ pc = "review" /\ verdict # "malformed" /\ pc \notin Resting
        /\ UNCHANGED <<disk, completions>>
        /\ finished' \in {finished, finished \cup {job}}
        /\ \/ UNCHANGED pendSave
           \/ \E op : pendSave' = [pendSave EXCEPT ![job] = op]
                      /\ (op.state.done => job \in finished')
        /\ \/ UNCHANGED doneRequests
           \/ doneRequests' = doneRequests \cup {request} /\ job \in finished'
        /\ pc' \in {"fence", "mark"} =>
              verdict' = "completed" /\ cur' = cur /\ job \in finished'
    BY <1>8, <1>t, <1>n
       DEF ReviewCompletes, ReviewCancelled, ReviewFails, CallInv, Resting,
           diskVars, history, StartSave
  <2>2. States
    BY <2>1, <1>j, <1>m
  <2>3. Marks
    BY <2>1 DEF request
  <2> QED BY <2>1, <2>2, <2>3, <1>a
<1>9. CASE RollbackReservation
  <2>1. /\ pc = "undo" /\ verdict # "malformed" /\ pc \notin Resting
        /\ UNCHANGED <<disk, completions, doneRequests, finished>>
        /\ pc' \in {"thrown", "undoSave"}
        /\ \/ UNCHANGED pendSave
           \/ \E op : ~op.state.done /\ pendSave' = [pendSave EXCEPT ![job] = op]
    <3>1. \A c, n, k : ~[SaveOp(Committed(c), n) EXCEPT !.refund = k].state.done
      BY DEF SaveOp, Committed
    <3> QED BY <1>9, <3>1, <1>t
           DEF RollbackReservation, CallInv, Resting, diskVars, history
  <2>2. States
    BY <2>1, <1>j, <1>m
  <2> QED BY <2>1, <2>2, <1>a
<1>10. CASE ClearFailureState
  <2>1. /\ pc = "clear" /\ verdict # "malformed" /\ pc \notin Resting
        /\ UNCHANGED <<completions, doneRequests, finished>> /\ pc' = "idle"
        /\ disk' = disk \/ disk' = [disk EXCEPT ![job] = EmptyState]
        /\ \E c : pendSave' = [pendSave EXCEPT ![job].purge = c]
    BY <1>10, <1>t DEF ClearFailureState, DropMaps, CallInv, Resting, history
  <2>2. States
    BY <2>1, <1>j, <1>m, <1>n DEF SaveRecords
  <2> QED BY <2>1, <2>2, <1>a
<1>11. ASSUME NEW e \in Deliveries, LateStep(e) PROVE EndInv'
  <2>1. /\ UNCHANGED <<completions, doneRequests, finished, pc, cur, verdict>>
        /\ \/ disk' = disk \/ disk' = Written(e)
           \/ disk' = [disk EXCEPT ![e] = EmptyState]
        /\ pendSave' = [pendSave EXCEPT ![e] = NoSave] \/ UNCHANGED pendSave
    BY <1>11
       DEF LateStep, LateSave, LateClear, LateLoad, callVars, history, diskVars
  <2>2. States
    BY <2>1, <1>m, <1>n DEF Written
  <2>3. Call
    BY <2>1 DEF EndInv
  <2> QED BY <2>1, <2>2, <2>3, <1>a
<1>12. CASE Crash \/ Exit
  <2>1. GoDown
    BY <1>12 DEF Crash, Exit
  <2>2. /\ UNCHANGED <<completions, finished>> /\ doneRequests' = {} /\ pc' = "down"
        /\ \A d \in Deliveries : /\ disk'[d] \in {disk[d], pendSave[d].state}
                                 /\ pendSave'[d] = NoSave
    BY <2>1 DEF GoDown
  <2>3. States
    BY <2>2, <1>n
  <2> QED BY <2>2, <2>3, <1>a
<1> QED
  BY <1>1, <1>2, <1>3, <1>4, <1>5, <1>6, <1>7, <1>8, <1>9, <1>10, <1>11, <1>12
     DEF Next, RunnerStep, QueueStep, StoreStep, ReviewStep, RollbackStep,
         ProcessStep

(* A call that is about to acknowledge has a reason to.                    *)
LEMMA ReasonStep ==
    ASSUME QueueInv, EndInv, Exhaustion', SettledForAReason, [Next]_vars
    PROVE  SettledForAReason'
<1> USE DEF Goto, Throw, Finish
<1>t. TypeInvariant /\ CallInv
  BY DEF QueueInv
<1> DEFINE Otherwise == verdict' \in {"malformed", "ineligible", "abandoned",
                                      "rejected", "exhausted"}
           Reviewed == /\ verdict' = "completed" /\ cur' = cur
                       /\ \/ job \in finished'
                          \/ /\ Requested
                             /\ \E d \in finished' : RequestOf[d] = request
           Same == UNCHANGED <<pc, cur, verdict>> /\ finished \subseteq finished'
<1>a. ASSUME pc' = "ack" => Otherwise \/ Reviewed \/ Same
      PROVE  SettledForAReason'
  <2> SUFFICES ASSUME pc' = "ack" PROVE SettledForAReason'
    BY DEF SettledForAReason
  <2>1. verdict' = "exhausted" => attempts'[cur'] >= MaxAttempts
    BY DEF Exhaustion
  <2>2. CASE Otherwise
    BY <2>1, <2>2 DEF SettledForAReason
  <2>3. CASE Reviewed
    <3>1. job' = job /\ request' = request /\ Requested' = Requested
      BY <2>3 DEF job, request, Requested
    <3> QED BY <2>3, <3>1 DEF SettledForAReason
  <2>4. CASE Same
    <3>1. job' = job /\ request' = request /\ Requested' = Requested
      BY <2>4 DEF job, request, Requested
    <3> QED BY <2>1, <2>4, <3>1 DEF SettledForAReason
  <2> QED BY <1>a, <2>2, <2>3, <2>4
<1>1. CASE \/ UNCHANGED vars \/ PullNothing \/ Stop
           \/ \E d \in Deliveries : LateStep(d)
           \/ \E m \in Messages : LeaseExpires(m)
  <2>1. Same \/ pc' # "ack"
    BY <1>1
       DEF vars, callVars, history, PullNothing, Stop, LateStep, LateSave,
           LateClear, LateLoad, LeaseExpires
  <2> QED BY <2>1, <1>a
<1>2. CASE \/ \E m \in Messages : Pull(m)
           \/ Acknowledge \/ Retry \/ SettlementFails \/ PolicyStep
           \/ \E b \in BOOLEAN : LoadFails(b) \/ JoinFails(b) \/ SaveFails(b)
           \/ SyncSaved \/ StartReview \/ CommitSaved \/ ClearFailureState
           \/ ReviewCancelled \/ ReviewRejected \/ ReviewFails \/ ReviewStopped
           \/ RollbackStep \/ ProcessStep \/ Crash
  <2>1. pc' = "ack" => Otherwise
    BY <1>2
       DEF Pull, Acknowledge, Retry, SettlementFails, PolicyStep, PolicyAllows,
           PolicyRefuses, PolicyUnavailable, LoadFails, JoinFails, SaveFails,
           SettleStoreFailure, SyncSaved, ReserveOrSettle, StartReview,
           CommitSaved, ClearFailureState, ReviewCancelled, ReviewRejected,
           ReviewFails, ReviewStopped, RollbackStep, RollbackReservation,
           RollbackSaved, RollbackFails, ProcessStep, Exit, Resume, Restart,
           Crash, GoDown
  <2> QED BY <2>1, <1>a
<1>3. CASE HasRequestCompletion
  <2>1. pc' = "ack" => /\ request \in completions /\ Requested
                       /\ verdict' = "completed" /\ cur' = cur
                       /\ finished' = finished
    BY <1>3, <1>t DEF HasRequestCompletion, CallInv, history
  <2>2. request \in completions => \E d \in finished : RequestOf[d] = request
    BY DEF EndInv, Ended
  <2> QED BY <2>1, <2>2, <1>a
<1>4. CASE LoadFailureState
  <2>1. finished' = finished /\ job \in Deliveries
    BY <1>4, <1>t DEF LoadFailureState, history, CallInv, Resting
  <2>2. disk[job].done => job \in finished
    BY <2>1 DEF EndInv
  <2>3. pc' = "ack" => Otherwise \/ (disk[job].done /\ verdict' = "completed" /\ cur' = cur)
    BY <1>4 DEF LoadFailureState, SettleStoreFailure, ReserveOrSettle
  <2> QED BY <2>1, <2>2, <2>3, <1>a
<1>5. CASE ReviewCompletes
  <2>1. pc' = "ack" => verdict' = "completed" /\ cur' = cur /\ job \in finished'
    BY <1>5 DEF ReviewCompletes
  <2> QED BY <2>1, <1>a
<1>6. CASE FenceSaved \/ MarkRequestCompletion
  <2>1. /\ pc \in {"fence", "mark"} /\ finished' = finished
        /\ pc' = "ack" => /\ cur' = cur
                          /\ verdict' = verdict \/ verdict' = "completed"
    BY <1>6 DEF FenceSaved, MarkRequestCompletion, history
  <2>2. /\ verdict = "completed"
        /\ job \in finished \/ (Requested /\ \E d \in finished : RequestOf[d] = request)
    BY <2>1 DEF EndInv, Ended
  <2> QED BY <2>1, <2>2, <1>a
<1> QED
  BY <1>1, <1>2, <1>3, <1>4, <1>5, <1>6
     DEF Next, RunnerStep, QueueStep, StoreStep, ReviewStep

(* What SettledForAReason rests on.                                        *)
ReasonInv == CountInv /\ EndInv /\ Exhaustion /\ SettledForAReason

(* No message has been delivered, nothing has been reviewed.               *)
LEMMA ReasonInit == Init => ReasonInv
<1> SUFFICES ASSUME Init PROVE ReasonInv
  OBVIOUS
<1>1. /\ pc = "idle" /\ cur = NoMsg
      /\ NoSave.slot = 0 /\ NoSave.state = EmptyState
      /\ EmptyState.committed = 0 /\ EmptyState.slot = 0 /\ ~EmptyState.done
  BY DEF Init, NoSave, SaveOp, EmptyState, Committed
<1>2. ASSUME NEW m \in Messages, JobOf[m] \in Deliveries PROVE Counted(m)
  <2>1. Used(m) = 0 /\ Chargeable(m) = 1
    BY <1>1, JobsAssumption DEF Init, Used, Chargeable
  <2> QED BY <1>1, <1>2, <2>1 DEF Init, Counted, AtMost, Within
<1>3. CountInv
  BY <1>1, <1>2 DEF CountInv
<1>4. EndInv
  BY <1>1 DEF Init, EndInv
<1> QED BY <1>1, <1>3, <1>4 DEF ReasonInv, Exhaustion, SettledForAReason

(* No message is dropped in silence, for any number of messages, faults    *)
(* and redeliveries: each has a reason, and a job that is given up was     *)
(* delivered three times.                                                  *)
THEOREM NothingDroppedSilently == Spec => []SettledForAReason
<1>1. Init => ReasonInv
  BY ReasonInit
<1>2. QueueInv /\ QueueInv' /\ ReasonInv /\ [Next]_vars => ReasonInv'
  BY CountStep, EndStep, ReasonStep DEF ReasonInv
<1>3. ReasonInv => SettledForAReason
  BY DEF ReasonInv
<1> QED BY <1>1, <1>2, <1>3, QueueInvariance, PTL DEF Spec
=============================================================================
