---------------------------- MODULE Orchestrator ----------------------------
(* One call of CleanReviewOrchestrator.review (review/orchestrator.ts).    *)
(*                                                                         *)
(* The call has two threads of control. The outer one (variable call)      *)
(* reads the cancellation marker, loads the policy, authenticates, asks    *)
(* for the review lock and then races the finalization against the         *)
(* deadline. The finalization (variable pc) is the review under the lease; *)
(* it outlives the call when the deadline fires first. Beside them the     *)
(* cancellation monitors (variable watch) poll, the head of the pull       *)
(* request moves and the caller may abort.                                 *)
(*                                                                         *)
(* An operation ends well, fails (a fault, at most MaxFaults of them), or  *)
(* is interrupted by the review's signal; a write that fails may have      *)
(* taken effect all the same.                                              *)
EXTENDS Naturals

CONSTANTS MaxFaults,    \* operations that fail by themselves
          MaxMoves      \* pushes to the pull request during the review

ASSUME BoundsAssumption == MaxFaults \in Nat /\ MaxMoves \in Nat

VARIABLES
    call,       \* where the outer call is
    answer,     \* the causes in the error the caller gets; {} with a result
    expired,    \* the deadline has fired
    reason,     \* the reason of the review's signal; the first one stays
    watch,      \* the cancellation monitors
    pc,         \* where the finalization is
    failure,    \* the causes in the finalization's failure; {} if undefined
    result,     \* the kind of ManualReviewResult
    attempt,    \* failed attempts of the current terminal operation
    handles,    \* terminal handles that are still armed, and the lease
    plan,       \* what planFindingReconciliation found to do
    verdict,    \* the conclusion the check run is completed with
    head,       \* the pull request's head against the one under review
    moves,      \* pushes so far
    present,    \* artifacts that exist outside the process
    submitted,  \* this review's comments are published
    check,      \* the check run on GitHub
    faults      \* faults so far

callVars == <<call, answer, expired, reason, watch>>
world == <<head, moves, submitted>>
vars == <<call, answer, expired, reason, watch, pc, failure, result, attempt,
          handles, plan, verdict, head, moves, present, submitted, check,
          faults>>

(* Mutant of MaxTerminalAttempts: one attempt too many.                    *)
FourTerminalAttempts == 4
MaxTerminalAttempts == 3

Reasons == {"deadline", "caller", "targeted", "monitor"}
Causes == Reasons \cup {"fault", "retries", "cleanup", "uncertain"}
Conclusions == {"success", "failure", "cancelled", "timed_out"}
Handles == {"workspace", "draft", "eyes", "+1", "check", "lease"}
Artifacts == (Handles \ {"check"}) \cup {"oldDraft", "oldDone"}
Plans == [found : BOOLEAN, publish : BOOLEAN, obsolete : BOOLEAN]

(* Steps that only read, or whose effect no property looks at.             *)
Follows == [policy |-> "authenticate", authenticate |-> "pull",
            evidence |-> "review", review |-> "dropWorkspace",
            dropFailure |-> "cleanWorkspace"]

(* Mutant of Publication: a change of the body alone is not published.     *)
PublicationOfFindings ==
    IF plan.publish /\ plan.found THEN "draft" ELSE "conclude"
Publication == IF plan.publish THEN "draft" ELSE "conclude"
(* Where a step goes that finds the head it reviews still current, and     *)
(* where when the head has moved.                                          *)
Current == [startHead |-> "startCheck", preHead |-> "evidence",
            postHead |-> "dropOldDraft",
            resolveHead |-> IF plan.obsolete THEN "resolve" ELSE Publication,
            resolve |-> "resolvedHead", resolvedHead |-> Publication,
            draftHead |-> "stopBeforeSubmit", doneHead |-> "dropFailure"]
Moved == [s \in DOMAIN Current |->
            CASE s = "draftHead" -> "dropStaleDraft"
              [] s = "doneHead" -> "dropStaleDone"
              [] OTHER -> "cleanWorkspace"]

(* Terminal operations: the handle each one runs and the step after it.    *)
Cleans == [dropWorkspace |-> "workspace", dropEyes |-> "eyes",
           dropStaleDraft |-> "draft", dropStaleDone |-> "+1",
           cleanWorkspace |-> "workspace", cleanDraft |-> "draft",
           cleanEyes |-> "eyes", cleanDone |-> "+1",
           completeCheck |-> "check",
           release |-> "lease", releaseLate |-> "lease"]
After == [dropWorkspace |-> "dropEyes", dropEyes |-> "postHead",
          dropStaleDraft |-> "cleanWorkspace",
          dropStaleDone |-> "cleanWorkspace",
          cleanWorkspace |-> "cleanDraft", cleanDraft |-> "cleanEyes",
          cleanEyes |-> "cleanDone", cleanDone |-> "stopAtEnd",
          completeCheck |-> "stopFinally",
          release |-> "ended", releaseLate |-> "ended"]
InTry == {"dropWorkspace", "dropEyes", "dropStaleDraft", "dropStaleDone"}

(* Mutant of Stops: #finalizeReview awaits monitors it has not aborted.    *)
StopsInReview == {"stopBeforeSubmit", "stopBeforeDone", "stopAtEnd"}

(* The steps that abort the monitors and wait for them.                    *)
Stops == {"stopBeforeSubmit", "stopBeforeDone", "stopAtEnd", "stopFinally"}

(* An earlier run may have left a draft review or a completion reaction.   *)
Init ==
    /\ call = "marker"
    /\ answer = {}
    /\ expired = FALSE
    /\ reason = "none"
    /\ watch = "off"
    /\ pc = "idle"
    /\ failure = {}
    /\ result = "none"
    /\ attempt = 0
    /\ handles = {}
    /\ plan = [found |-> FALSE, publish |-> FALSE, obsolete |-> FALSE]
    /\ verdict = "none"
    /\ head = "reviewed"
    /\ moves = 0
    /\ present \in SUBSET {"oldDraft", "oldDone"}
    /\ submitted = FALSE
    /\ check = "none"
    /\ faults = 0

-----------------------------------------------------------------------------
(* The review's signal and what raises it.                                 *)

Aborted == reason # "none"
Abort(r) == reason' = IF Aborted THEN reason ELSE r
Fault == faults < MaxFaults /\ faults' = faults + 1

(* Mutant of DeadlineRuns: the timer starts with the lease.                *)
DeadlineRunsUnderLease == call = "finalizing"
DeadlineRuns == call # "answered"

Expire ==
    /\ ~expired /\ DeadlineRuns
    /\ expired' = TRUE
    /\ Abort("deadline")
    /\ UNCHANGED <<call, answer, watch, pc, failure, result, attempt, handles,
                   plan, verdict, present, check, faults, world>>

CallerAborts ==
    /\ ~Aborted
    /\ Abort("caller")
    /\ UNCHANGED <<call, answer, expired, watch, pc, failure, result, attempt,
                   handles, plan, verdict, present, check, faults, world>>

(* A monitor sees a cancellation or fails; a read that was under way when  *)
(* the monitors were stopped still counts.                                 *)
Observe(r) ==
    /\ watch \in {"on", "stopping"}
    /\ watch' = "off"
    /\ Abort(r)
    /\ UNCHANGED <<call, answer, expired, pc, failure, result, attempt,
                   handles, plan, verdict, present, check, world>>
ObserveCancellation == Observe("targeted") /\ UNCHANGED faults
MonitorFails == Observe("monitor") /\ Fault

(* The monitors end with the reason of their own signal.                   *)
MonitorsEnd ==
    /\ watch = "stopping" \/ (watch = "on" /\ (expired \/ reason = "caller"))
    /\ watch' = "off"
    /\ UNCHANGED <<call, answer, expired, reason, pc, failure, result,
                   attempt, handles, plan, verdict, present, check, faults,
                   world>>

StopMonitors ==
    /\ pc \in Stops \/ call = "leaving"
    /\ watch = "on"
    /\ watch' = "stopping"
    /\ UNCHANGED <<call, answer, expired, reason, pc, failure, result,
                   attempt, handles, plan, verdict, present, check, faults,
                   world>>

MoveHead ==
    /\ moves < MaxMoves /\ pc \notin {"idle", "ended"}
    /\ moves' = moves + 1
    /\ head' = IF head = "reviewed" THEN "other" ELSE "reviewed"
    /\ UNCHANGED <<callVars, pc, failure, result, attempt, handles, plan,
                   verdict, present, submitted, check, faults>>

-----------------------------------------------------------------------------
(* The outer call.                                                         *)

CallFails(c) ==
    /\ answer' = {c}
    /\ call' = IF call = "marker" THEN "answered" ELSE "leaving"

(* The marker, the policy and the session, each raced with the deadline.   *)
CallSteps == [marker |-> "policy", policy |-> "authenticate",
              authenticate |-> "acquire"]
CallStep ==
    /\ call \in DOMAIN CallSteps /\ ~expired
    /\ \/ /\ ~Aborted
          /\ call' = CallSteps[call]
          /\ watch' = IF call = "marker" THEN "on" ELSE watch
          /\ UNCHANGED <<answer, faults>>
       \/ /\ \/ Aborted /\ CallFails(reason) /\ UNCHANGED faults
             \/ Fault /\ CallFails("fault")
          /\ UNCHANGED watch
    /\ UNCHANGED <<expired, reason, pc, failure, result, attempt, handles,
                   plan, verdict, present, check, world>>

HoldLease ==
    /\ present' = present \cup {"lease"}
    /\ handles' = handles \cup {"lease"}

(* The lock may be handed over at the moment of an abort.                  *)
Acquire ==
    /\ call = "acquire" /\ ~expired
    /\ \/ /\ HoldLease
          /\ call' = "finalizing" /\ pc' = "policy"
          /\ UNCHANGED <<answer, faults>>
       \/ /\ \/ Aborted /\ CallFails(reason) /\ UNCHANGED faults
             \/ Fault /\ CallFails("fault")
          /\ UNCHANGED <<pc, present, handles>>
    /\ UNCHANGED <<expired, reason, watch, failure, result, attempt, plan,
                   verdict, check, world>>

Raced == DOMAIN CallSteps \cup {"acquire", "finalizing"}

(* ReviewDeadline.wait: the caller stops waiting; the acquisition of the   *)
(* lock, or the finalization, goes on without it.                          *)
CallTimesOut ==
    /\ expired /\ call \in Raced
    /\ answer' = {"deadline"}
    /\ call' = IF call \in {"marker", "finalizing"} THEN "answered"
                                                    ELSE "leaving"
    /\ pc' = IF call = "acquire" THEN "lateLease" ELSE pc
    /\ UNCHANGED <<expired, reason, watch, failure, result, attempt, handles,
                   plan, verdict, present, check, faults, world>>

LateLease ==
    /\ pc = "lateLease"
    /\ \/ HoldLease /\ pc' = "releaseLate"
       \/ UNCHANGED <<present, handles>> /\ pc' = "ended"
    /\ UNCHANGED <<callVars, failure, result, attempt, plan, verdict, check,
                   faults, world>>

CallEnds ==
    /\ \/ call = "leaving" /\ watch = "off" /\ UNCHANGED answer
       \/ /\ call = "finalizing" /\ ~expired /\ pc = "ended"
          /\ answer' = failure
    /\ call' = "answered"
    /\ UNCHANGED <<expired, reason, watch, pc, failure, result, attempt,
                   handles, plan, verdict, present, check, faults, world>>

-----------------------------------------------------------------------------
(* The review under the lease: #finalizeReview and #reviewWithLease.       *)

(* throwIfAborted after an operation that ended well.                      *)
Proceed(s) == ~Aborted /\ pc' = s /\ UNCHANGED <<failure, faults>>

Throw(c) == failure' = {c} /\ pc' = "cleanWorkspace"

(* An operation that was given the signal ends in an error.                *)
Break == \/ Aborted /\ Throw(reason) /\ UNCHANGED faults
         \/ Fault /\ Throw("fault")

Read ==
    /\ pc \in DOMAIN Follows
    /\ Proceed(Follows[pc]) \/ Break
    /\ UNCHANGED <<callVars, result, attempt, handles, plan, verdict, present,
                   check, world>>

(* getPullRequest; a job for another head ends at once, before anything    *)
(* was set up.                                                             *)
PullRequest ==
    /\ pc = "pull"
    /\ \/ UNCHANGED result /\ (Proceed("startHead") \/ Break)
       \/ Proceed("stopFinally") /\ result' = "stale"
    /\ UNCHANGED <<callVars, attempt, handles, plan, verdict, present, check,
                   world>>

(* getHeadSha, and resolveReviewThreads, which reads it before each write. *)
CheckHead ==
    /\ pc \in DOMAIN Current
    /\ \/ /\ head = "reviewed" /\ Proceed(Current[pc])
          /\ result' = IF pc = "doneHead" THEN "clean" ELSE result
          /\ handles' = IF pc = "doneHead" THEN handles \ {"+1"} ELSE handles
       \/ /\ head # "reviewed" /\ Proceed(Moved[pc])
          /\ result' = IF pc \in {"draftHead", "doneHead"} THEN result
                                                           ELSE "stale"
          /\ UNCHANGED handles
       \/ Break /\ UNCHANGED <<result, handles>>
    /\ UNCHANGED <<callVars, attempt, plan, verdict, present, check, world>>

(* The check run is created before its answer arrives; without the answer  *)
(* nobody in this process can complete it.                                 *)
StartCheck ==
    /\ pc = "startCheck"
    /\ \/ /\ \/ Proceed("dropOldDone")
             \/ Aborted /\ Throw(reason) /\ UNCHANGED faults
          /\ check' = "open"
          /\ handles' = handles \cup {"check"}
       \/ Break /\ check' \in {"none", "open"} /\ UNCHANGED handles
    /\ UNCHANGED <<callVars, result, attempt, plan, verdict, present, world>>

(* removeOwnCompletionReaction and removeOwnPendingReview.                 *)
DropOld ==
    /\ \E old \in {<<"dropOldDone", "oldDone", "addEyes">>,
                   <<"dropOldDraft", "oldDraft", "prior">>} :
          /\ pc = old[1]
          /\ \/ Proceed(old[3]) /\ present' = present \ {old[2]}
             \/ Break /\ present' \in {present, present \ {old[2]}}
    /\ UNCHANGED <<callVars, result, attempt, handles, plan, verdict, check,
                   world>>

(* Mutant of Armed: an interrupted creation arms no handle.                *)
ArmedOnceAnswered(a) == IF Aborted THEN handles ELSE handles \cup {a}
Armed(a) == handles \cup {a}

(* The handle is armed before the request is made, because the request may *)
(* take effect without an answer.                                          *)
Create ==
    /\ \E new \in {<<"addEyes", "eyes", "prepare">>,
                   <<"draft", "draft", "draftHead">>,
                   <<"addDone", "+1", "doneHead">>} :
          /\ pc = new[1]
          /\ handles' = Armed(new[2])
          /\ \/ Proceed(new[3]) /\ present' = present \cup {new[2]}
             \/ Break /\ present' \in {present, present \cup {new[2]}}
    /\ UNCHANGED <<callVars, result, attempt, plan, verdict, check, world>>

(* A preparation that fails cleans up after itself, or hands its cleanup   *)
(* over with a WorkspacePreparationError.                                  *)
Prepare ==
    /\ pc = "prepare"
    /\ \/ /\ Proceed("preHead") \/ Break
          /\ present' = present \cup {"workspace"}
          /\ handles' = handles \cup {"workspace"}
       \/ Break /\ UNCHANGED <<present, handles>>
    /\ UNCHANGED <<callVars, result, attempt, plan, verdict, check, world>>

(* getPriorReviewState and planFindingReconciliation.                      *)
PlanReconciliation ==
    /\ pc = "prior"
    /\ \/ Proceed("resolveHead") /\ plan' \in Plans
       \/ Break /\ UNCHANGED plan
    /\ UNCHANGED <<callVars, result, attempt, handles, verdict, present,
                   check, world>>

Conclude ==
    /\ pc = "conclude"
    /\ pc' = IF plan.found THEN "dropFailure" ELSE "stopBeforeDone"
    /\ result' = IF plan.found THEN "findings" ELSE result
    /\ UNCHANGED <<callVars, failure, attempt, handles, plan, verdict,
                   present, check, faults, world>>

(* Mutant of MonitorsSettled: the monitors are aborted and not awaited.    *)
MonitorsSignalled == watch # "on"
MonitorsSettled == watch = "off"

(* stopCancellationMonitoring: the monitors have settled.                  *)
MonitoringStopped ==
    /\ pc \in {"stopBeforeSubmit", "stopBeforeDone"} /\ MonitorsSettled
    /\ \/ Proceed(IF pc = "stopBeforeSubmit" THEN "submit" ELSE "addDone")
       \/ Aborted /\ Throw(reason) /\ UNCHANGED faults
    /\ UNCHANGED <<callVars, result, attempt, handles, plan, verdict, present,
                   check, world>>

(* After an ambiguous submission nothing may be deleted.                   *)
Disarmed == handles \ {"draft"}

(* submit (review/github.ts): the review is published, found published by  *)
(* the readback, known not to be published, or nobody can tell.            *)
Submit ==
    /\ pc = "submit"
    /\ \/ /\ present' = present \ {"draft"} /\ submitted' = TRUE
          /\ handles' = handles \ {"draft"}
          /\ pc' = "conclude" /\ UNCHANGED <<failure, faults>>
       \/ /\ Break
          /\ present' \in {present, present \ {"draft"}}
          /\ UNCHANGED <<handles, submitted>>
       \/ /\ Fault /\ Throw("uncertain")
          /\ handles' = Disarmed
          /\ \/ UNCHANGED <<present, submitted>>
             \/ present' = present \ {"draft"} /\ submitted' = TRUE
    /\ UNCHANGED <<callVars, result, attempt, plan, verdict, check, head,
                   moves>>

-----------------------------------------------------------------------------
(* Terminal operations: up to three attempts, none of which the signal     *)
(* interrupts.                                                             *)

(* Mutant of Conclusion: a result in hand hides a later failure.           *)
ConclusionOfResult(f) ==
    IF f = {} \/ result # "none"
    THEN IF result = "stale" THEN "cancelled" ELSE "success"
    ELSE "failure"

(* reviewCheckCompletion.                                                  *)
Conclusion(f) ==
    CASE f # {} /\ reason = "deadline" -> "timed_out"
      [] f # {} /\ reason # "deadline" ->
            IF f \cap {"targeted", "caller"} # {} THEN "cancelled"
                                                  ELSE "failure"
      [] f = {} -> IF result = "stale" THEN "cancelled" ELSE "success"

(* Mutant of Gone: every attempt computes the conclusion anew.             *)
GoneRecomputed == IF Cleans[pc] = "check"
        THEN check' = Conclusion(failure) /\ UNCHANGED present
        ELSE present' = present \ {Cleans[pc]} /\ UNCHANGED check
Gone == IF Cleans[pc] = "check"
        THEN check' = verdict /\ UNCHANGED present
        ELSE present' = present \ {Cleans[pc]} /\ UNCHANGED check

(* A failure inside the try block is thrown; at the end it is collected.   *)
(* The one of a late lease is dropped.                                     *)
Leave(c) ==
    /\ handles' = handles \ {Cleans[pc]}
    /\ attempt' = 0
    /\ IF c # "none" /\ pc \in InTry
       THEN Throw(IF c = "cleanup" THEN "retries" ELSE c) /\ UNCHANGED result
       ELSE /\ pc' = After[pc]
            /\ failure' = IF c = "none" \/ pc = "releaseLate" THEN failure
                                                        ELSE failure \cup {c}
            /\ result' = IF pc \in {"dropStaleDraft", "dropStaleDone"}
                         THEN "stale" ELSE result

(* completeTerminal reports a failed attempt even when a later one ends    *)
(* well; completeReviewCheck does not.                                     *)
Clean ==
    /\ pc \in DOMAIN Cleans /\ Cleans[pc] \in handles
    /\ Gone
    /\ Leave(IF attempt = 0 \/ pc = "completeCheck" THEN "none"
                                                    ELSE "cleanup")
    /\ UNCHANGED <<callVars, plan, verdict, faults, world>>

(* A failed attempt may have taken effect.                                 *)
CleanFails ==
    /\ pc \in DOMAIN Cleans /\ Cleans[pc] \in handles
    /\ Fault
    /\ Gone \/ UNCHANGED <<present, check>>
    /\ IF attempt + 1 < MaxTerminalAttempts
       THEN /\ attempt' = attempt + 1
            /\ UNCHANGED <<pc, handles, failure, result>>
       ELSE Leave("cleanup")
    /\ UNCHANGED <<callVars, plan, verdict, world>>

(* completePendingReview gives up at once when nobody can tell what became *)
(* of the draft.                                                           *)
DraftUncertain ==
    /\ pc \in {"dropStaleDraft", "cleanDraft"} /\ "draft" \in handles
    /\ Fault
    /\ Gone \/ UNCHANGED <<present, check>>
    /\ Leave("uncertain")
    /\ UNCHANGED <<callVars, plan, verdict, world>>

NothingToClean ==
    /\ pc \in {"cleanWorkspace", "cleanDraft", "cleanEyes", "cleanDone"}
    /\ Cleans[pc] \notin handles
    /\ pc' = After[pc]
    /\ UNCHANGED <<callVars, failure, result, attempt, handles, plan, verdict,
                   present, check, faults, world>>

(* Mutant of CheckOrRelease: the lease goes before the check is completed. *)
ReleaseFirst == "release"
CheckOrRelease == IF "check" \in handles THEN "completeCheck"
                                         ELSE "stopFinally"

(* The monitors have settled after the cleanup; an abort that no operation *)
(* noticed still fails the review.                                         *)
EndReview ==
    /\ pc = "stopAtEnd" /\ MonitorsSettled
    /\ failure' = IF failure \subseteq {"cleanup"} /\ Aborted
                  THEN failure \cup {reason} ELSE failure
    /\ verdict' = IF "check" \in handles THEN Conclusion(failure') ELSE verdict
    /\ pc' = CheckOrRelease
    /\ UNCHANGED <<callVars, result, attempt, handles, plan, present, check,
                   faults, world>>

ReleaseLease ==
    /\ pc = "stopFinally" /\ MonitorsSettled
    /\ pc' = "release"
    /\ UNCHANGED <<callVars, failure, result, attempt, handles, plan, verdict,
                   present, check, faults, world>>

-----------------------------------------------------------------------------
ReviewStep ==
    \/ LateLease \/ Read \/ PullRequest \/ CheckHead \/ StartCheck \/ DropOld
    \/ Create \/ Prepare \/ PlanReconciliation \/ Conclude
    \/ MonitoringStopped \/ Submit \/ Clean \/ CleanFails \/ DraftUncertain
    \/ NothingToClean \/ EndReview \/ ReleaseLease

(* The call is answered and its finalization is over.                      *)
Over == /\ call = "answered" /\ pc \in {"idle", "ended"}
        /\ UNCHANGED vars

Next ==
    \/ Expire \/ CallerAborts \/ ObserveCancellation \/ MonitorFails
    \/ MonitorsEnd \/ StopMonitors \/ MoveHead
    \/ CallStep \/ Acquire \/ CallTimesOut \/ CallEnds
    \/ ReviewStep \/ Over

Spec == Init /\ [][Next]_vars

(* Promises that have settled are acted upon.                              *)
FairSpec == Spec /\ WF_vars(CallTimesOut) /\ WF_vars(CallEnds)
                 /\ WF_vars(StopMonitors) /\ WF_vars(MonitorsEnd)

(* The timer fires, but no operation need ever end.                        *)
TimerFires == WF_vars(Expire)

(* Every operation ends, but the timer need not fire.                      *)
OperationsEnd == WF_vars(CallStep) /\ WF_vars(Acquire) /\ WF_vars(ReviewStep)

-----------------------------------------------------------------------------
(* Invariants.                                                             *)

Calls == {"marker", "policy", "authenticate", "acquire", "leaving",
          "finalizing", "answered"}
Steps == {"idle", "lateLease", "policy", "authenticate", "pull", "startHead",
          "startCheck", "dropOldDone", "addEyes", "prepare", "preHead",
          "evidence", "review", "dropWorkspace", "dropEyes", "postHead",
          "dropOldDraft", "prior", "resolveHead", "resolve", "resolvedHead",
          "draft", "draftHead", "dropStaleDraft", "stopBeforeSubmit",
          "submit", "conclude", "stopBeforeDone", "addDone", "doneHead",
          "dropStaleDone", "dropFailure", "cleanWorkspace", "cleanDraft",
          "cleanEyes", "cleanDone", "stopAtEnd", "completeCheck",
          "stopFinally", "release", "releaseLate", "ended"}

(* The values every variable of one review keeps.                          *)
TypeInvariant ==
    /\ call \in Calls
    /\ answer \subseteq Causes
    /\ expired \in BOOLEAN
    /\ reason \in Reasons \cup {"none"}
    /\ watch \in {"on", "stopping", "off"}
    /\ pc \in Steps
    /\ failure \subseteq Causes
    /\ result \in {"none", "stale", "clean", "findings"}
    /\ attempt \in {0, 1, 2}
    /\ handles \subseteq Handles
    /\ plan \in Plans
    /\ verdict \in Conclusions \cup {"none"}
    /\ head \in {"reviewed", "other"}
    /\ moves \in 0..MaxMoves
    /\ present \subseteq Artifacts
    /\ submitted \in BOOLEAN
    /\ check \in Conclusions \cup {"none", "open"}
    /\ faults \in 0..MaxFaults

(* With fewer faults than a terminal operation has attempts, whatever was  *)
(* interrupted and whenever: the workspace, the active reaction, the draft *)
(* and the lease are gone once the finalization ends, the lease handed     *)
(* over after the deadline included, and a check run the process knows of  *)
(* is completed. A draft of which nobody can tell what became is reported. *)
NothingIsLeftBehind ==
    (pc = "ended" /\ faults < MaxTerminalAttempts) =>
        /\ present \cap {"workspace", "eyes", "lease"} = {}
        /\ "draft" \in present => "uncertain" \in failure
        /\ check = "open" => verdict = "none"

(* While anything of this review is still to be taken down the process     *)
(* holds the lease: the next review never starts over its remains.         *)
LeaseCoversWork ==
    handles \ {"lease"} # {} => "lease" \in handles \cap present

(* No cleanup is armed against a review that is published: "Deleting after *)
(* an ambiguous submit can target a review GitHub already published."      *)
NoCleanupOfAPublishedReview == submitted => "draft" \notin handles

(* A review stopped by a targeted cancellation has published nothing, has  *)
(* not added its completion reaction, and its check does not pass.         *)
CancellationWins ==
    reason = "targeted" =>
        ~submitted /\ "+1" \notin present /\ check # "success"

(* A check run passes only for a review that came to a result and failed   *)
(* in nothing but giving up the check or the lease; it times out only at   *)
(* the deadline; it is cancelled only by an abort or a moved head.         *)
CheckTellsTheTruth ==
    /\ check = "success" =>
          result \in {"clean", "findings"} /\ failure \subseteq {"cleanup"}
    /\ check = "timed_out" => expired /\ failure # {}
    /\ check = "cancelled" =>
          result = "stale" \/ failure \cap {"targeted", "caller"} # {}
    /\ check = "failure" => failure \ {"targeted", "caller"} # {}

(* A caller who is given a result finds everything in the state the result *)
(* names: nothing temporary left, the lease released, the check concluded; *)
(* a completion reaction exactly when the review is clean, none of an      *)
(* earlier review, and the comments published exactly when there was       *)
(* something to publish.                                                   *)
ResultIsWhole ==
    (call = "answered" /\ answer = {}) =>
        /\ pc = "ended"
        /\ present \cap {"workspace", "eyes", "draft", "lease"} = {}
        /\ result = "stale" =>
              check \in {"none", "cancelled"} /\ "+1" \notin present
        /\ result # "stale" =>
              /\ check = "success"
              /\ present = IF result = "clean" THEN {"+1"} ELSE {}
              /\ submitted = plan.publish

-----------------------------------------------------------------------------
(* Action properties.                                                      *)

(* The conclusion of a check run is never changed, also when its first     *)
(* answer was lost and an abort arrives before the next attempt.           *)
ConclusionIsStable == [][(check \in Conclusions) => (check' = check)]_vars

-----------------------------------------------------------------------------
(* Liveness.                                                               *)

(* The caller is answered, by the deadline at the latest, even when an     *)
(* operation never ends.                                                   *)
CallerIsAnswered == TimerFires => <>(call = "answered")

(* When operations end, the call and the finalization end, without help of *)
(* the deadline; and after the deadline what the call left behind ends.    *)
FinalizationEnds ==
    OperationsEnd => <>(call = "answered" /\ pc \in {"idle", "ended"})
=============================================================================
