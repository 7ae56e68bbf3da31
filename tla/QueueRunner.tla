----------------------------- MODULE QueueRunner -----------------------------
(***************************************************************************)
(* The queue consumer of the revoir daemon (apps/cli/src/queue/runner.ts): *)
(* it pulls one leased message at a time, reconciles the job's operational *)
(* failure state with the file store, reserves one of three attempt slots, *)
(* runs the review and settles the lease.  The module composes the runner  *)
(* with what it depends on: the Cloudflare queue (leases, visibility       *)
(* timeouts, lost confirmations), the two file stores (operations that     *)
(* fail, time out, or land after the caller stopped waiting), the shutdown *)
(* signal, and crashes and restarts of the process.                        *)
(*                                                                         *)
(* One step is the code between two awaits.  Every failure of the          *)
(* environment draws on one budget, MaxFaults, and only the kinds in       *)
(* FaultKinds happen.                                                      *)
(***************************************************************************)
EXTENDS FailureState

CONSTANTS
    Messages,      \* queue messages
    Deliveries,    \* webhook delivery ids, the keys of the failure store
    Requests,      \* requested-review identities (repository, comment)
    JobOf,         \* the delivery a message carries, or Malformed
    RequestOf,     \* the request of a delivery, or NoRequest (automatic)
    Malformed, NoRequest, NoMsg,
    FaultKinds,    \* the faults the environment may inject
    MaxFaults      \* how many of them, in all

AllFaults == {"crash", "stop", "store", "net", "lease", "policy"}

ASSUME JobsAssumption ==
    /\ JobOf \in [Messages -> Deliveries \cup {Malformed}]
    /\ RequestOf \in [Deliveries -> Requests \cup {NoRequest}]
    /\ Malformed \notin Deliveries
    /\ NoRequest \notin Requests
    /\ NoMsg \notin Messages

(* GitHub gives every webhook delivery an id of its own, and the relay     *)
(* sends one message for it.                                               *)
ASSUME OwnMessagesAssumption ==
    \A m, n \in Messages :
        JobOf[m] = JobOf[n] /\ JobOf[m] # Malformed => m = n

ASSUME FaultsAssumption == FaultKinds \subseteq AllFaults /\ MaxFaults \in Nat

VARIABLES
    \* The queue.
    qstate,        \* [Messages -> {"ready", "leased", "gone"}]
    attempts,      \* deliveries of each message so far, up to MaxAttempts
    \* The files under the state directory.
    disk,          \* operational failure state of each delivery
    completions,   \* requests whose completion marker exists
    \* The runner's maps, lost when the process ends.
    known,         \* #knownStates
    floor,         \* #outageFloors
    doneRequests,  \* #knownCompletedRequests
    pendSave,      \* #pendingSaves: the save in flight for a delivery
    pendLoad,      \* #pendingLoads: slot of a load that timed out, or 0
    pendSettle,    \* #pendingStoreSettlements: slot of its record, or 0
    lateClear,     \* a clear that timed out is still in flight
    token,         \* reservations made so far: randomUUID
    \* The call of #consumeOne under way.
    pc,            \* the await it is suspended at
    cur,           \* the leased message it holds
    base,          \* operationalState.committedFailures
    verdict,       \* why it is about to acknowledge or retry
    stopping,      \* the caller's abort signal has fired
    \* The environment and the history of the run.
    faults,        \* how many faults so far, and whether one lost state
    charged,       \* reviews started and not refunded since the last settlement
    finished,      \* deliveries whose review ran to a conclusion
    fenced         \* deliveries whose post-review fence reached the disk

queueVars == <<qstate, attempts>>
diskVars  == <<disk, completions>>
stateMaps == <<known, floor, pendSettle>>
opMaps    == <<pendSave, pendLoad, lateClear>>
callVars  == <<pc, cur, base, verdict>>
history   == <<charged, finished, fenced>>
vars == <<queueVars, diskVars, stateMaps, opMaps, doneRequests, token,
          callVars, stopping, faults, history>>

PCs == {"idle", "policy", "lookup", "load", "sync", "reserve", "review",
        "fence", "mark", "commit", "ack", "retry", "clear",
        "undo", "undoSave", "thrown", "down"}

Verdicts == {"none", "malformed", "ineligible", "abandoned", "completed",
             "rejected", "exhausted", "outage", "refund"}

(* A save in flight: the state it writes, the slot it is charged to when   *)
(* it fails, whether that charge was made, and whether the delivery was    *)
(* cleared meanwhile.  refund is history: the review a rollback gives back.*)
SaveRecords == [open : BOOLEAN, state : FailureStates, slot : 0..MaxAttempts,
                counted : BOOLEAN, purge : BOOLEAN, refund : 0..1]

SaveOp(s, n) == [open |-> TRUE, state |-> s, slot |-> n, counted |-> FALSE,
                 purge |-> FALSE, refund |-> 0]

NoSave == [SaveOp(EmptyState, 0) EXCEPT !.open = FALSE]

(* The waits that end with the outcome of the save in flight.              *)
SaveWaits == {"sync", "reserve", "commit", "fence", "undoSave"}

job == JobOf[cur]
request == RequestOf[job]
Requested == request # NoRequest
thisSlot == base + 1
Awaited(d) == pc \in SaveWaits /\ job = d

Fault(kind) ==
    /\ kind \in FaultKinds /\ faults.count < MaxFaults
    /\ faults' = [count  |-> faults.count + 1,
                  memory |-> IF kind \in {"crash", "store"} THEN "lost"
                             ELSE faults.memory]
NoFault == UNCHANGED faults

Written(d) == [disk EXCEPT ![d] = pendSave[d].state]
Refunded(d) ==
    [charged EXCEPT ![d] = IF @ >= pendSave[d].refund
                           THEN @ - pendSave[d].refund ELSE 0]
Fences(d) == IF pendSave[d].state.done THEN fenced \cup {d} ELSE fenced

Init ==
    /\ qstate = [m \in Messages |-> "ready"]
    /\ attempts = [m \in Messages |-> 0]
    /\ disk = [d \in Deliveries |-> EmptyState]
    /\ completions = {}
    /\ known = [d \in Deliveries |-> EmptyState]
    /\ floor = [d \in Deliveries |-> 0]
    /\ doneRequests = {}
    /\ pendSave = [d \in Deliveries |-> NoSave]
    /\ pendLoad = [d \in Deliveries |-> 0]
    /\ pendSettle = [d \in Deliveries |-> 0]
    /\ lateClear = [d \in Deliveries |-> FALSE]
    /\ token = 0
    /\ pc = "idle" /\ cur = NoMsg /\ base = 0 /\ verdict = "none"
    /\ stopping = FALSE
    /\ faults = [count |-> 0, memory |-> "kept"]
    /\ charged = [d \in Deliveries |-> 0]
    /\ finished = {} /\ fenced = {}

-----------------------------------------------------------------------------
(* How a call moves on.                                                    *)

Goto(p, b, v) == pc' = p /\ base' = b /\ verdict' = v /\ UNCHANGED cur
Throw == pc' = "thrown" /\ cur' = NoMsg /\ base' = 0 /\ verdict' = "none"
Finish == pc' = "idle" /\ cur' = NoMsg /\ base' = 0 /\ verdict' = "none"

(* #settleStoreFailure up to its settlement request: the failure of a      *)
(* store operation is counted once, raises the outage floor, and ends the  *)
(* delivery with a retry or, on the third slot, with an acknowledgement.   *)
SettleStoreFailure(d, n, counted) ==
    LET raised == Larger(floor[d], n)
    IN  /\ floor' = [floor EXCEPT ![d] = IF counted THEN @ ELSE raised]
        /\ known' = [known EXCEPT ![d] =
                        IF counted THEN @
                        ELSE MoreConservative(@, Committed(raised))]
        /\ pendSettle' = [pendSettle EXCEPT ![d] = n]
        /\ IF n >= MaxAttempts THEN Goto("ack", base, "exhausted")
                               ELSE Goto("retry", base, "outage")

(* #saveFailureState: the state is remembered, then its save is started.   *)
StartSave(s, n, remembered) ==
    /\ known' = [known EXCEPT ![job] = MoreConservative(remembered, s)]
    /\ pendSave' = [pendSave EXCEPT ![job] = SaveOp(s, n)]

ReserveOneTooMany(n, remembered) ==
    IF n > MaxAttempts
    THEN /\ known' = [known EXCEPT ![job] = remembered]
         /\ pendSave' = [pendSave EXCEPT ![job] = NoSave]
         /\ Goto("ack", n, "exhausted")
         /\ UNCHANGED token
    ELSE /\ token' = token + 1
         /\ StartSave(Reserved(n, token + 1), n + 1, remembered)
         /\ Goto("reserve", n, "none")

(* What follows a reconciliation to n failures: a terminal acknowledgement *)
(* or the reservation of the next slot.                                    *)
ReserveOrSettle(n, remembered) ==
    IF n = MaxAttempts
    THEN /\ known' = [known EXCEPT ![job] = remembered]
         /\ pendSave' = [pendSave EXCEPT ![job] = NoSave]
         /\ Goto("ack", n, "exhausted")
         /\ UNCHANGED token
    ELSE /\ token' = token + 1
         /\ StartSave(Reserved(n, token + 1), n + 1, remembered)
         /\ Goto("reserve", n, "none")

-----------------------------------------------------------------------------
(* The queue.                                                              *)

(* pullOne: one message is leased; its confirmation may be lost.           *)
Pull(m) ==
    /\ pc = "idle" /\ ~stopping
    /\ qstate[m] = "ready"
    /\ qstate' = [qstate EXCEPT ![m] = "leased"]
    /\ attempts' = [attempts EXCEPT ![m] = Smaller(MaxAttempts, @ + 1)]
    /\ \/ /\ NoFault
          /\ cur' = m /\ base' = 0
          /\ IF JobOf[m] = Malformed
             THEN pc' = "ack" /\ verdict' = "malformed"
             ELSE pc' = "policy" /\ verdict' = "none"
       \/ Fault("net") /\ Throw
    /\ UNCHANGED <<diskVars, stateMaps, opMaps, doneRequests, token, stopping,
                   history>>

(* An empty pull: run waits for the next poll.                             *)
PullNothing ==
    /\ pc = "idle" /\ ~stopping
    /\ \A m \in Messages : qstate[m] # "ready"
    /\ UNCHANGED vars

(* The visibility timeout of a lease runs out; while the runner still      *)
(* holds the message this is a fault, since the timeout exceeds the review.*)
LeaseExpires(m) ==
    /\ qstate[m] = "leased"
    /\ IF cur = m THEN Fault("lease") ELSE NoFault
    /\ qstate' = [qstate EXCEPT ![m] = "ready"]
    /\ UNCHANGED <<attempts, diskVars, stateMaps, opMaps, doneRequests, token,
                   callVars, stopping, history>>

(* The queue drops an acknowledged message.                                *)
Settled ==
    /\ qstate' = [qstate EXCEPT ![cur] = "gone"]
    /\ charged' = IF verdict = "malformed" THEN charged
                  ELSE [charged EXCEPT ![job] = 0]

(* acknowledge, confirmed.                                                 *)
Acknowledge ==
    /\ pc = "ack" /\ ~stopping /\ qstate[cur] = "leased"
    /\ Settled
    /\ IF verdict = "malformed" THEN Finish ELSE Goto("clear", base, verdict)
    /\ NoFault
    /\ UNCHANGED <<attempts, diskVars, stateMaps, opMaps, doneRequests, token,
                   stopping, finished, fenced>>

RetryKeepingSettlement ==
    /\ pc = "retry" /\ ~stopping /\ qstate[cur] = "leased"
    /\ qstate' = [qstate EXCEPT ![cur] = "ready"]
    /\ Finish
    /\ NoFault
    /\ UNCHANGED <<attempts, diskVars, stateMaps, opMaps, doneRequests,
                   token, stopping, history>>

(* retry, confirmed: the message is ready again, its delay left out.  The  *)
(* settlement that an outage left to do is done.                           *)
Retry ==
    /\ pc = "retry" /\ ~stopping /\ qstate[cur] = "leased"
    /\ qstate' = [qstate EXCEPT ![cur] = "ready"]
    /\ pendSettle' = IF verdict = "outage" THEN [pendSettle EXCEPT ![job] = 0]
                                         ELSE pendSettle
    /\ Finish
    /\ NoFault
    /\ UNCHANGED <<attempts, diskVars, known, floor, opMaps, doneRequests,
                   token, stopping, history>>

(* A settlement request that is not confirmed throws: the caller aborted,  *)
(* the lease had expired, or the request or its answer was lost.           *)
SettlementFails ==
    /\ pc \in {"ack", "retry"}
    /\ \/ /\ stopping \/ qstate[cur] # "leased"
          /\ NoFault
          /\ UNCHANGED <<qstate, charged>>
       \/ /\ Fault("net")
          /\ qstate[cur] = "leased"
          /\ \/ UNCHANGED <<qstate, charged>>
             \/ pc = "ack" /\ Settled
             \/ /\ pc = "retry"
                /\ qstate' = [qstate EXCEPT ![cur] = "ready"]
                /\ UNCHANGED charged
    /\ Throw
    /\ UNCHANGED <<attempts, diskVars, stateMaps, opMaps, doneRequests, token,
                   stopping, finished, fenced>>

-----------------------------------------------------------------------------
(* From the policy to the loaded state.                                    *)

(* loadPolicy succeeds and localEligibility accepts the job.               *)
PolicyAllows ==
    /\ pc = "policy"
    /\ IF Requested
       THEN /\ IF request \in doneRequests
               THEN Goto("mark", 0, "completed")
               ELSE Goto("lookup", 0, "none")
            /\ UNCHANGED stateMaps
       ELSE IF pendSettle[job] > 0
       THEN SettleStoreFailure(job, pendSettle[job], TRUE)
       ELSE Goto("load", 0, "none") /\ UNCHANGED stateMaps
    /\ NoFault
    /\ UNCHANGED <<queueVars, diskVars, opMaps, doneRequests, token, stopping,
                   history>>

(* The policy no longer allows the job.                                    *)
PolicyRefuses ==
    /\ pc = "policy"
    /\ Goto("ack", 0, "ineligible")
    /\ NoFault
    /\ UNCHANGED <<queueVars, diskVars, stateMaps, opMaps, doneRequests, token,
                   stopping, history>>

(* #settlePolicyLoadFailure: a retryable failure defers the first two      *)
(* deliveries of the message, any other abandons the job.                  *)
PolicyUnavailable(retryable) ==
    /\ pc = "policy"
    /\ Fault("policy")
    /\ IF retryable /\ attempts[cur] < MaxAttempts
       THEN Goto("retry", 0, "none")
       ELSE Goto("ack", 0, "abandoned")
    /\ UNCHANGED <<queueVars, diskVars, stateMaps, opMaps, doneRequests, token,
                   stopping, history>>

(* #hasRequestCompletion: its failure is not caught, it ends the call.     *)
HasRequestCompletion ==
    /\ pc = "lookup"
    /\ \/ /\ NoFault
          /\ IF request \in completions
             THEN /\ doneRequests' = doneRequests \cup {request}
                  /\ Goto("ack", 0, "completed")
             ELSE Goto("load", 0, "none") /\ UNCHANGED doneRequests
       \/ Fault("store") /\ Throw /\ UNCHANGED doneRequests
    /\ UNCHANGED <<queueVars, diskVars, stateMaps, opMaps, token, stopping,
                   history>>

(* What the loaded state, the remembered one and the outage floor are      *)
(* reconciled to, and what is remembered of it.                            *)
LoadedFailures == Reconciled(disk[job], known[job], floor[job])
LoadedState == MoreConservative(known[job], Committed(LoadedFailures))

(* #loadPersistedFailureState and, on success, the synchronous part of     *)
(* #consumeOne and #loadFailureState that follows.  The load starts once   *)
(* the save in flight for the delivery, if any, has settled.               *)
LoadFailureState ==
    /\ pc = "load" /\ ~pendSave[job].open
    /\ \/ /\ disk[job].done /\ Requested
          /\ doneRequests' = doneRequests \cup {request}
          /\ Goto("mark", 0, "completed")
          /\ UNCHANGED <<stateMaps, pendSave, token>>
       \/ /\ disk[job].done /\ ~Requested
          /\ Goto("ack", 0, "completed")
          /\ UNCHANGED <<stateMaps, pendSave, token, doneRequests>>
       \/ /\ ~disk[job].done /\ pendSettle[job] > 0
          /\ SettleStoreFailure(job, pendSettle[job], TRUE)
          /\ UNCHANGED <<pendSave, token, doneRequests>>
       \/ /\ ~disk[job].done /\ pendSettle[job] = 0
          /\ IF floor[job] > 0 \/ disk[job] # Committed(LoadedFailures)
             THEN /\ StartSave(Committed(LoadedFailures),
                               NextFailureSlot(LoadedFailures, floor[job], LoadedState),
                               LoadedState)
                  /\ Goto("sync", LoadedFailures, "none")
                  /\ UNCHANGED token
             ELSE ReserveOrSettle(LoadedFailures, LoadedState)
          /\ UNCHANGED <<floor, pendSettle, doneRequests>>
    /\ pendLoad' = [pendLoad EXCEPT ![job] = 0]
    /\ NoFault
    /\ UNCHANGED <<queueVars, diskVars, lateClear, stopping, history>>

(* The load fails, or its wait times out and leaves it in flight.  A load  *)
(* shared with an earlier delivery is charged to that delivery's slot.     *)
LoadFails(timesOut) ==
    /\ pc = "load" /\ ~pendSave[job].open
    /\ Fault("store")
    /\ LET shared == pendLoad[job] > 0
           n == IF shared THEN pendLoad[job]
                ELSE NextFailureSlot(0, floor[job], known[job])
       IN  /\ SettleStoreFailure(job, n, shared)
           /\ pendLoad' = [pendLoad EXCEPT ![job] = IF timesOut THEN n ELSE 0]
    /\ UNCHANGED <<queueVars, diskVars, pendSave, lateClear, doneRequests,
                   token, stopping, history>>

(* The save that the load has to join first times out again, or rejects.   *)
JoinFails(timesOut) ==
    /\ pc = "load" /\ pendSave[job].open
    /\ SettleStoreFailure(job, pendSave[job].slot, pendSave[job].counted)
    /\ \/ /\ timesOut
          /\ Fault("store")
          /\ pendSave' = [pendSave EXCEPT ![job].counted = TRUE]
          /\ UNCHANGED <<disk, lateClear, charged, fenced>>
       \/ /\ ~timesOut
          /\ NoFault
          /\ pendSave' = [pendSave EXCEPT ![job] = NoSave]
          /\ lateClear' = [lateClear EXCEPT ![job] = @ \/ pendSave[job].purge]
          /\ \/ UNCHANGED <<disk, charged, fenced>>
             \/ /\ disk' = Written(job)
                /\ charged' = Refunded(job)
                /\ fenced' = Fences(job)
    /\ UNCHANGED <<queueVars, completions, pendLoad, doneRequests, token,
                   stopping, finished>>

-----------------------------------------------------------------------------
(* The saves a call waits for, and the review between them.                *)

(* The reconciled state is on disk: the outage floor has been repaid.      *)
SyncSaved ==
    /\ pc = "sync"
    /\ disk' = Written(job)
    /\ floor' = [floor EXCEPT ![job] = 0]
    /\ ReserveOrSettle(base, known[job])
    /\ NoFault
    /\ UNCHANGED <<queueVars, completions, pendSettle, pendLoad, lateClear,
                   doneRequests, stopping, history>>

(* The reservation is on disk: the review starts.                          *)
StartReview ==
    /\ pc = "reserve"
    /\ disk' = Written(job)
    /\ pendSave' = [pendSave EXCEPT ![job] = NoSave]
    /\ charged' = [charged EXCEPT ![job] = @ + 1]
    /\ Goto("review", base, "none")
    /\ NoFault
    /\ UNCHANGED <<queueVars, completions, stateMaps, pendLoad, lateClear,
                   doneRequests, token, stopping, finished, fenced>>

(* The review returns.  A requested review is fenced whether or not the    *)
(* caller aborted meanwhile; an automatic one settles unless it did.       *)
ReviewCompletes ==
    /\ pc = "review"
    /\ finished' = finished \cup {job}
    /\ IF Requested
       THEN /\ doneRequests' = doneRequests \cup {request}
            /\ StartSave(Completed(base), thisSlot, known[job])
            /\ Goto("fence", base, "completed")
       ELSE /\ IF stopping THEN Throw ELSE Goto("ack", base, "completed")
            /\ UNCHANGED <<doneRequests, known, pendSave>>
    /\ NoFault
    /\ UNCHANGED <<queueVars, diskVars, floor, pendSettle, pendLoad, lateClear,
                   token, stopping, charged, fenced>>

(* Only the targeted cancellation ended the review: no failure, no retry.  *)
ReviewCancelled ==
    /\ pc = "review" /\ ~stopping
    /\ finished' = finished \cup {job}
    /\ StartSave(Completed(base), thisSlot, known[job])
    /\ Goto("fence", base, "completed")
    /\ NoFault
    /\ UNCHANGED <<queueVars, diskVars, floor, pendSettle, pendLoad, lateClear,
                   doneRequests, token, stopping, charged, fenced>>

(* PullRequestEligibilityError: settled without a failure.                 *)
ReviewRejected ==
    /\ pc = "review"
    /\ IF stopping THEN Throw ELSE Goto("ack", base, "rejected")
    /\ NoFault
    /\ UNCHANGED <<queueVars, diskVars, stateMaps, opMaps, doneRequests, token,
                   stopping, history>>

(* Any other failure, also one that merely coincides with an abort,        *)
(* commits the slot.                                                       *)
ReviewFails ==
    /\ pc = "review"
    /\ StartSave(Committed(thisSlot), thisSlot, known[job])
    /\ Goto("commit", base, "none")
    /\ NoFault
    /\ UNCHANGED <<queueVars, diskVars, floor, pendSettle, pendLoad, lateClear,
                   doneRequests, token, stopping, history>>

(* The review ends with the caller's cancellation and nothing else: the    *)
(* reservation is rolled back.                                             *)
ReviewStopped ==
    /\ pc = "review" /\ stopping
    /\ Goto("undo", base, "refund")
    /\ NoFault
    /\ UNCHANGED <<queueVars, diskVars, stateMaps, opMaps, doneRequests, token,
                   stopping, history>>

(* The failed attempt is on disk: retry, or report and acknowledge.        *)
CommitSaved ==
    /\ pc = "commit"
    /\ disk' = Written(job)
    /\ pendSave' = [pendSave EXCEPT ![job] = NoSave]
    /\ IF stopping THEN Throw
       ELSE IF thisSlot >= MaxAttempts THEN Goto("ack", base, "exhausted")
       ELSE Goto("retry", base, "none")
    /\ NoFault
    /\ UNCHANGED <<queueVars, completions, stateMaps, pendLoad, lateClear,
                   doneRequests, token, stopping, history>>

FenceSavedWithoutMark ==
    /\ pc = "fence"
    /\ disk' = Written(job)
    /\ fenced' = fenced \cup {job}
    /\ pendSave' = [pendSave EXCEPT ![job] = NoSave]
    /\ Goto("ack", base, verdict)
    /\ NoFault
    /\ UNCHANGED <<queueVars, completions, stateMaps, pendLoad, lateClear,
                   doneRequests, token, stopping, charged, finished>>

(* The post-review fence is on disk; a request is marked before its        *)
(* message is acknowledged.                                                *)
FenceSaved ==
    /\ pc = "fence"
    /\ disk' = Written(job)
    /\ fenced' = fenced \cup {job}
    /\ pendSave' = [pendSave EXCEPT ![job] = NoSave]
    /\ IF Requested
       THEN Goto("mark", base, verdict) /\ doneRequests' = doneRequests \cup {request}
       ELSE Goto("ack", base, verdict) /\ UNCHANGED doneRequests
    /\ NoFault
    /\ UNCHANGED <<queueVars, completions, stateMaps, pendLoad, lateClear,
                   token, stopping, charged, finished>>

(* A save the call waits for is rejected, possibly after it took effect,   *)
(* or times out and stays in flight.                                       *)
SaveFails(timesOut) ==
    /\ pc \in {"sync", "reserve", "commit", "fence"}
    /\ Fault("store")
    /\ IF pc = "fence" \/ stopping
       THEN Throw /\ UNCHANGED stateMaps
       ELSE SettleStoreFailure(job, pendSave[job].slot, FALSE)
    /\ \/ /\ timesOut
          /\ pendSave' = [pendSave EXCEPT ![job].counted = pc # "fence" /\ ~stopping]
          /\ UNCHANGED <<disk, fenced>>
       \/ /\ ~timesOut
          /\ pendSave' = [pendSave EXCEPT ![job] = NoSave]
          /\ \/ UNCHANGED <<disk, fenced>>
             \/ disk' = Written(job) /\ fenced' = Fences(job)
    /\ UNCHANGED <<queueVars, completions, pendLoad, lateClear, doneRequests,
                   token, stopping, charged, finished>>

(* #markRequestCompletion.                                                 *)
MarkRequestCompletion ==
    /\ pc = "mark"
    /\ \/ /\ NoFault
          /\ completions' = completions \cup {request}
          /\ Goto("ack", base, "completed")
       \/ /\ Fault("store")
          /\ completions' \in {completions, completions \cup {request}}
          /\ Throw
    /\ UNCHANGED <<queueVars, disk, stateMaps, opMaps, doneRequests, token,
                   stopping, history>>

-----------------------------------------------------------------------------
(* #rollbackReservation, the compensation of a cancelled attempt.          *)

KnownRolledBack ==
    [known EXCEPT ![job] =
        IF @.owner = token /\ EffectiveAttempt(@) = thisSlot
        THEN Committed(@.committed) ELSE @]

(* Once the save in flight has settled the persisted state is loaded, and  *)
(* lowered only if it still holds this attempt's own reservation.          *)
RollbackReservation ==
    /\ pc = "undo" /\ ~pendSave[job].open
    /\ LET s == disk[job]
           mine == HasReservation(s) /\ s.owner = token
           superseded == \/ HasReservation(s) /\ s.owner # token
                         \/ s.committed >= thisSlot
                         \/ HasReservation(s) /\ s.slot > thisSlot
       IN  \/ /\ superseded
              /\ known' = [known EXCEPT ![job] =
                              MoreConservative(@, ConsumeReservation(s))]
              /\ Throw /\ UNCHANGED pendSave
           \/ /\ ~superseded /\ mine
              /\ pendSave' = [pendSave EXCEPT ![job] =
                    [SaveOp(Committed(s.committed),
                            NextFailureSlot(0, floor[job], known[job]))
                        EXCEPT !.refund = IF verdict = "refund" THEN 1 ELSE 0]]
              /\ Goto("undoSave", base, verdict) /\ UNCHANGED known
           \/ /\ ~superseded /\ ~mine
              /\ known' = KnownRolledBack
              /\ Throw /\ UNCHANGED pendSave
    /\ NoFault
    /\ UNCHANGED <<queueVars, diskVars, floor, pendSettle, pendLoad, lateClear,
                   doneRequests, token, stopping, history>>

RollbackSaved ==
    /\ pc = "undoSave"
    /\ disk' = Written(job)
    /\ charged' = Refunded(job)
    /\ pendSave' = [pendSave EXCEPT ![job] = NoSave]
    /\ known' = KnownRolledBack
    /\ Throw
    /\ NoFault
    /\ UNCHANGED <<queueVars, completions, floor, pendSettle, pendLoad,
                   lateClear, doneRequests, token, stopping, finished, fenced>>

(* A rollback that fails, or whose wait times out, leaves the slot used.   *)
RollbackFails(timesOut) ==
    /\ pc \in {"undo", "undoSave"}
    /\ Fault("store")
    /\ IF timesOut \/ pc = "undo"
       THEN UNCHANGED <<disk, charged, pendSave>>
       ELSE /\ pendSave' = [pendSave EXCEPT ![job] = NoSave]
            /\ \/ UNCHANGED <<disk, charged>>
               \/ disk' = Written(job) /\ charged' = Refunded(job)
    /\ Throw
    /\ UNCHANGED <<queueVars, completions, stateMaps, pendLoad, lateClear,
                   doneRequests, token, stopping, finished, fenced>>

-----------------------------------------------------------------------------
(* #clearFailureState, after the acknowledgement.                          *)

DropMaps(d) ==
    /\ known' = [known EXCEPT ![d] = EmptyState]
    /\ floor' = [floor EXCEPT ![d] = 0]
    /\ pendSettle' = [pendSettle EXCEPT ![d] = 0]
    /\ pendLoad' = [pendLoad EXCEPT ![d] = 0]
    /\ pendSave' = [pendSave EXCEPT ![d].purge = pendSave[d].open]

(* The file is removed, stays (the failure is swallowed), or is removed    *)
(* later by an operation the runner stopped waiting for.                   *)
ClearFailureState ==
    /\ pc = "clear"
    /\ DropMaps(job)
    /\ \/ /\ NoFault
          /\ disk' = [disk EXCEPT ![job] = EmptyState]
          /\ UNCHANGED lateClear
       \/ /\ Fault("store")
          /\ UNCHANGED disk
          /\ lateClear' \in {lateClear, [lateClear EXCEPT ![job] = TRUE]}
    /\ Finish
    /\ UNCHANGED <<queueVars, completions, doneRequests, token, stopping,
                   history>>

(* A save nobody waits for settles.  A cleared delivery is cleared again.  *)
LateSave(d, lands) ==
    /\ pendSave[d].open /\ ~Awaited(d)
    /\ pc = "load" /\ job = d => lands
    /\ IF lands
       THEN disk' = Written(d) /\ charged' = Refunded(d) /\ fenced' = Fences(d)
       ELSE UNCHANGED <<disk, charged, fenced>>
    /\ pendSave' = [pendSave EXCEPT ![d] = NoSave]
    /\ lateClear' = [lateClear EXCEPT ![d] = @ \/ pendSave[d].purge]
    /\ NoFault
    /\ UNCHANGED <<queueVars, completions, stateMaps, pendLoad, doneRequests,
                   token, callVars, stopping, finished>>

LateClear(d) ==
    /\ lateClear[d]
    /\ lateClear' = [lateClear EXCEPT ![d] = FALSE]
    /\ disk' \in {disk, [disk EXCEPT ![d] = EmptyState]}
    /\ NoFault
    /\ UNCHANGED <<queueVars, completions, stateMaps, pendSave, pendLoad,
                   doneRequests, token, callVars, stopping, history>>

LateLoad(d) ==
    /\ pendLoad[d] > 0
    /\ ~(pc = "load" /\ job = d)
    /\ pendLoad' = [pendLoad EXCEPT ![d] = 0]
    /\ NoFault
    /\ UNCHANGED <<queueVars, diskVars, stateMaps, pendSave, lateClear,
                   doneRequests, token, callVars, stopping, history>>

-----------------------------------------------------------------------------
(* The process.                                                            *)

(* The abort signal fires.  Waits that honour it end at once; the others   *)
(* see it when they are over.                                              *)
Stop ==
    /\ pc \notin {"thrown", "down"} /\ ~stopping
    /\ Fault("stop")
    /\ stopping' = TRUE
    /\ CASE pc \in {"policy", "lookup", "load", "sync", "commit"} -> Throw
         [] pc = "reserve" -> Goto("undo", base, "none")
         [] OTHER -> UNCHANGED callVars
    /\ pendLoad' = IF pc = "load" /\ ~pendSave[job].open
                   THEN [pendLoad EXCEPT ![job] = 0] ELSE pendLoad
    /\ UNCHANGED <<queueVars, diskVars, stateMaps, pendSave, lateClear,
                   doneRequests, token, history>>

(* The process is gone: its maps are lost, and each save in flight either  *)
(* took effect or did not.                                                 *)
GoDown ==
    /\ pc' = "down" /\ cur' = NoMsg /\ base' = 0 /\ verdict' = "none"
    /\ stopping' = FALSE
    /\ known' = [d \in Deliveries |-> EmptyState]
    /\ floor' = [d \in Deliveries |-> 0]
    /\ pendSettle' = [d \in Deliveries |-> 0]
    /\ pendSave' = [d \in Deliveries |-> NoSave]
    /\ pendLoad' = [d \in Deliveries |-> 0]
    /\ lateClear' = [d \in Deliveries |-> FALSE]
    /\ doneRequests' = {}
    /\ \E landed \in SUBSET {d \in Deliveries : pendSave[d].open} :
        /\ disk' = [d \in Deliveries |->
                       IF d \in landed THEN pendSave[d].state ELSE disk[d]]
        /\ charged' = [d \in Deliveries |->
                          IF d \in landed THEN Refunded(d)[d] ELSE charged[d]]
        /\ fenced' = fenced \cup {d \in landed : pendSave[d].state.done}
    /\ UNCHANGED <<queueVars, completions, token, finished>>

Crash == pc # "down" /\ Fault("crash") /\ GoDown

(* run returns, or an error it does not catch ends the daemon.             *)
Exit ==
    /\ pc = "thrown" \/ (pc = "idle" /\ stopping)
    /\ NoFault
    /\ GoDown

(* A rejected call of consumeOne may also be followed by another one on    *)
(* the same runner, with a fresh signal.                                   *)
Resume ==
    /\ pc = "thrown" \/ (pc = "idle" /\ stopping)
    /\ pc' = "idle"
    /\ stopping' = FALSE
    /\ NoFault
    /\ UNCHANGED <<queueVars, diskVars, stateMaps, opMaps, doneRequests, token,
                   cur, base, verdict, history>>

(* launchd starts the daemon again.                                        *)
Restart ==
    /\ pc = "down"
    /\ pc' = "idle"
    /\ NoFault
    /\ UNCHANGED <<queueVars, diskVars, stateMaps, opMaps, doneRequests, token,
                   cur, base, verdict, stopping, history>>

-----------------------------------------------------------------------------
(* The specification.                                                      *)

StoreStep ==
    \/ HasRequestCompletion \/ LoadFailureState
    \/ \E timesOut \in BOOLEAN :
         LoadFails(timesOut) \/ JoinFails(timesOut) \/ SaveFails(timesOut)
    \/ SyncSaved \/ StartReview \/ CommitSaved \/ FenceSaved
    \/ MarkRequestCompletion \/ ClearFailureState

ReviewStep ==
    \/ ReviewCompletes \/ ReviewCancelled \/ ReviewRejected
    \/ ReviewFails \/ ReviewStopped

PolicyStep ==
    \/ PolicyAllows \/ PolicyRefuses
    \/ \E retryable \in BOOLEAN : PolicyUnavailable(retryable)

RollbackStep ==
    \/ RollbackReservation \/ RollbackSaved
    \/ \E timesOut \in BOOLEAN : RollbackFails(timesOut)

QueueStep ==
    \/ \E m \in Messages : Pull(m)
    \/ PullNothing
    \/ Acknowledge \/ Retry \/ SettlementFails

RunnerStep == QueueStep \/ PolicyStep \/ StoreStep \/ ReviewStep \/ RollbackStep

LateStep(d) ==
    \/ \E lands \in BOOLEAN : LateSave(d, lands)
    \/ LateClear(d) \/ LateLoad(d)

ProcessStep == Exit \/ Resume \/ Restart

Next ==
    \/ RunnerStep
    \/ \E d \in Deliveries : LateStep(d)
    \/ \E m \in Messages : LeaseExpires(m)
    \/ ProcessStep \/ Stop \/ Crash

Spec == Init /\ [][Next]_vars

(* The event loop runs, file operations settle one way or the other, the   *)
(* queue makes unsettled leases visible again, launchd restarts a daemon   *)
(* that ended.  Nothing is assumed of faults.                              *)
Fairness ==
    /\ WF_vars(RunnerStep)
    /\ \A d \in Deliveries : WF_vars(LateStep(d))
    /\ \A m \in Messages : WF_vars(LeaseExpires(m) /\ cur # m)
    /\ WF_vars(ProcessStep)

FairSpec == Spec /\ Fairness

-----------------------------------------------------------------------------
(* Properties.                                                             *)

WorldTypes ==
    /\ qstate \in [Messages -> {"ready", "leased", "gone"}]
    /\ attempts \in [Messages -> 0..MaxAttempts]
    /\ disk \in [Deliveries -> FailureStates]
    /\ completions \subseteq Requests
    /\ faults \in [count : 0..MaxFaults, memory : {"kept", "lost"}]
    /\ charged \in [Deliveries -> Nat]
    /\ finished \subseteq Deliveries
    /\ fenced \subseteq Deliveries

MapTypes ==
    /\ known \in [Deliveries -> FailureStates]
    /\ floor \in [Deliveries -> 0..MaxAttempts]
    /\ doneRequests \subseteq Requests
    /\ pendSave \in [Deliveries -> SaveRecords]
    /\ pendLoad \in [Deliveries -> 0..MaxAttempts]
    /\ pendSettle \in [Deliveries -> 0..MaxAttempts]
    /\ lateClear \in [Deliveries -> BOOLEAN]
    /\ token \in Nat

CallTypes ==
    /\ pc \in PCs
    /\ cur \in Messages \cup {NoMsg}
    /\ base \in 0..MaxAttempts
    /\ verdict \in Verdicts
    /\ stopping \in BOOLEAN

(* The variables have their types; in particular no slot or floor exceeds  *)
(* the three attempts, whatever fails (nextFailureSlot caps it).           *)
TypeInvariant == WorldTypes /\ MapTypes /\ CallTypes

(* The runner never asks the file store to save a state that isValidState  *)
(* rejects (the rejection would pass for an outage and use up a slot), so  *)
(* every file it left behind can be loaded again.                          *)
SavedStatesValid ==
    \A d \in Deliveries :
        /\ ValidState(disk[d])
        /\ pendSave[d].open => ValidState(pendSave[d].state)

(* No delivery is reviewed more than three times before it is settled,     *)
(* whatever combination of review failures, store outages, lost            *)
(* confirmations, aborts and crashes it meets; a review whose reservation  *)
(* was rolled back does not count.                                         *)
AttemptBudget == \A d \in Deliveries : charged[d] <= MaxAttempts

(* Every review that was started and not given back is covered by a slot   *)
(* of the persisted state: a restart that knows nothing but the file       *)
(* cannot start it again on the same slot.                                 *)
ChargesAreDurable ==
    \A d \in Deliveries :
        charged[d] <= IF disk[d].done THEN disk[d].committed + 1
                                      ELSE EffectiveAttempt(disk[d])

(* Once the post-review fence of a delivery reached the disk, or the       *)
(* completion of its request is known, no review of it starts again: not   *)
(* in the same process, not after a restart, not for a redelivery. And     *)
(* until the store fails or the process crashes, neither a stop nor an     *)
(* abort nor a lost acknowledgement nor an expired lease makes a requested *)
(* review that ran to its end run again.                                   *)
NotReviewedAgain ==
    [][StartReview =>
          /\ job \notin fenced
          /\ Requested =>
                /\ request \notin completions /\ request \notin doneRequests
                /\ faults.memory = "kept" =>
                      \A d \in finished : RequestOf[d] # request]_vars

(* A message leaves the queue only for a reason: the job is malformed,     *)
(* refused, abandoned by the policy or rejected by the review; its review  *)
(* (or another of the same request) ran to its end; or three deliveries    *)
(* of it failed.                                                           *)
SettledForAReason ==
    pc = "ack" =>
        /\ verdict \in {"malformed", "ineligible", "abandoned", "rejected",
                        "completed", "exhausted"}
        /\ verdict = "completed" =>
               \/ job \in finished
               \/ /\ Requested
                  /\ \E d \in finished : RequestOf[d] = request
        /\ verdict = "exhausted" => attempts[cur] >= MaxAttempts

(* The persisted state of an unsettled delivery never loses an attempt: a  *)
(* write that lowers it only gives back a reservation that was not used.   *)
StoreNeverRegresses ==
    [][\A d \in Deliveries :
          LET was == disk[d]
              is == disk'[d]
          IN  \/ \E m \in Messages : JobOf[m] = d /\ qstate[m] = "gone"
              \/ is.done
              \/ ~was.done /\ EffectiveAttempt(is) >= EffectiveAttempt(was)
              \/ /\ HasReservation(was) /\ ~was.done
                 /\ is = Committed(was.committed)]_vars

(* When faults cease every message is eventually settled.                  *)
EverySettles == \A m \in Messages : <>(qstate[m] = "gone")
=============================================================================
