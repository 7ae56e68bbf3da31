------------------------- MODULE OrchestratorProofs -------------------------
(* Safety of one review, for every number of faults and pushes: types, the *)
(* lease that covers all cleanup, the precedence of a targeted             *)
(* cancellation over everything that cannot be taken back, the truth of    *)
(* the check run, and the state a caller with a result finds.              *)
EXTENDS Orchestrator, TLAPS

-----------------------------------------------------------------------------
(* The step tables lead from steps to steps.                               *)

LEMMA CallTable ==
    ASSUME NEW s \in DOMAIN CallSteps PROVE CallSteps[s] \in Calls
  BY DEF CallSteps, Calls

LEMMA FollowsTable ==
    ASSUME NEW s \in DOMAIN Follows PROVE Follows[s] \in Steps
  BY DEF Follows, Steps

LEMMA HeadTable ==
    ASSUME NEW s \in DOMAIN Current
    PROVE  Current[s] \in Steps /\ Moved[s] \in Steps
  BY DEF Steps, Current, Moved, Publication

LEMMA CleanTable ==
    ASSUME NEW s \in DOMAIN Cleans
    PROVE  Cleans[s] \in Handles /\ After[s] \in Steps
  BY DEF Steps, Cleans, After, Handles

-----------------------------------------------------------------------------
(* Types.                                                                  *)

LEMMA TypeInit == Init => TypeInvariant
  <1> SUFFICES ASSUME Init PROVE TypeInvariant
    OBVIOUS
  <1>1. plan \in Plans
    BY DEF Init, Plans
  <1>2. present \subseteq Artifacts
    BY DEF Init, Artifacts
  <1>3. 0 \in 0..MaxMoves /\ 0 \in 0..MaxFaults
    BY BoundsAssumption
  <1> QED
    BY <1>1, <1>2, <1>3 DEF Init, TypeInvariant, Steps, Calls

(* What the leaving of a terminal operation keeps.                         *)
LEMMA LeaveTypes ==
    ASSUME TypeInvariant, pc \in DOMAIN Cleans,
           NEW c \in {"none", "cleanup", "uncertain"}, Leave(c)
    PROVE  /\ handles' \subseteq Handles /\ attempt' \in {0, 1, 2}
           /\ pc' \in Steps /\ failure' \subseteq Causes
           /\ result' \in {"none", "stale", "clean", "findings"}
  <1>1. After[pc] \in Steps /\ "cleanWorkspace" \in Steps
    BY CleanTable DEF Steps
  <1>2. {"retries", "cleanup", "uncertain"} \subseteq Causes
    BY DEF Causes
  <1> QED
    BY <1>1, <1>2 DEF Leave, Throw, TypeInvariant

LEMMA GoneTypes ==
    ASSUME TypeInvariant, pc \in DOMAIN Cleans, Cleans[pc] \in handles,
           Gone \/ UNCHANGED <<present, check>>
    PROVE  /\ present' \subseteq Artifacts
           /\ check' \in Conclusions \cup {"none", "open"}
  BY DEF Gone, TypeInvariant

LEMMA TypeNext == TypeInvariant /\ [Next]_vars => TypeInvariant'
  <1> SUFFICES ASSUME TypeInvariant, [Next]_vars PROVE TypeInvariant'
    OBVIOUS
  <1> USE BoundsAssumption DEF world, callVars
  <1>1. CASE Expire
    BY <1>1 DEF Expire, Abort, Aborted, TypeInvariant, Reasons
  <1>2. CASE CallerAborts
    BY <1>2 DEF CallerAborts, Abort, TypeInvariant, Reasons
  <1>3. CASE ObserveCancellation
    BY <1>3 DEF ObserveCancellation, Observe, Abort, TypeInvariant, Reasons
  <1>4. CASE MonitorFails
    BY <1>4 DEF MonitorFails, Observe, Abort, Fault, TypeInvariant, Reasons
  <1>5. CASE MonitorsEnd \/ StopMonitors \/ MoveHead
    BY <1>5 DEF MonitorsEnd, StopMonitors, MoveHead, TypeInvariant
  <1>a. /\ reason # "none" => reason \in Causes
        /\ {"fault", "uncertain", "deadline", "cleanup"} \subseteq Causes
    BY DEF TypeInvariant, Causes, Reasons
  <1>b. ASSUME Fault PROVE faults' \in 0..MaxFaults
    BY <1>b DEF Fault, TypeInvariant
  <1>6. CASE CallStep
    <2>1. call' \in Calls
      BY <1>6, CallTable DEF CallStep, CallFails, TypeInvariant, Calls
    <2>2. answer' \subseteq Causes
      BY <1>6, <1>a DEF CallStep, CallFails, TypeInvariant, Aborted
    <2>3. faults' \in 0..MaxFaults
      BY <1>6, <1>b DEF CallStep, TypeInvariant
    <2>4. watch' \in {"on", "stopping", "off"}
      BY <1>6 DEF CallStep, TypeInvariant
    <2> QED
      BY <1>6, <2>1, <2>2, <2>3, <2>4 DEF CallStep, TypeInvariant
  <1>7. CASE Acquire
    <2>1. /\ call' \in Calls /\ answer' \subseteq Causes
          /\ faults' \in 0..MaxFaults /\ pc' \in Steps
      BY <1>7, <1>a, <1>b DEF Acquire, CallFails, TypeInvariant, Calls,
         Steps, Aborted
    <2>2. present' \subseteq Artifacts /\ handles' \subseteq Handles
      BY <1>7 DEF Acquire, HoldLease, TypeInvariant, Artifacts, Handles
    <2> QED
      BY <1>7, <2>1, <2>2 DEF Acquire, TypeInvariant
  <1>8. CASE CallTimesOut \/ CallEnds
    <2>1. call' \in Calls /\ answer' \subseteq Causes /\ pc' \in Steps
      BY <1>8, <1>a DEF CallTimesOut, CallEnds, TypeInvariant, Calls, Steps
    <2> QED
      BY <1>8, <2>1 DEF CallTimesOut, CallEnds, TypeInvariant
  <1>9. CASE LateLease
    <2>1. /\ "lease" \in Handles \cap Artifacts
          /\ "releaseLate" \in Steps /\ "ended" \in Steps
      BY DEF Handles, Artifacts, Steps
    <2> QED
      BY <1>9, <2>1 DEF LateLease, HoldLease, TypeInvariant
  <1>c. ASSUME NEW s \in Steps, Proceed(s)
        PROVE  pc' \in Steps /\ failure' \subseteq Causes
               /\ faults' \in 0..MaxFaults
    BY <1>c DEF Proceed, TypeInvariant
  <1>d. ASSUME NEW c \in Causes, Throw(c)
        PROVE  pc' \in Steps /\ failure' \subseteq Causes
    BY <1>d DEF Throw, Steps
  <1>e. ASSUME Break
        PROVE  pc' \in Steps /\ failure' \subseteq Causes
               /\ faults' \in 0..MaxFaults
    BY <1>e, <1>a, <1>b, <1>d DEF Break, Aborted, TypeInvariant
  <1>10. CASE Read
    BY <1>10, <1>c, <1>e, FollowsTable DEF Read, TypeInvariant
  <1>11. CASE PullRequest
    <2>1. "startHead" \in Steps /\ "stopFinally" \in Steps
      BY DEF Steps
    <2> QED
      BY <1>11, <2>1, <1>c, <1>e DEF PullRequest, TypeInvariant
  <1>12. CASE CheckHead
    BY <1>12, <1>c, <1>e, HeadTable DEF CheckHead, TypeInvariant
  <1>13. CASE StartCheck
    <2>1. "dropOldDone" \in Steps
      BY DEF Steps
    <2>2. pc' \in Steps /\ failure' \subseteq Causes /\ faults' \in 0..MaxFaults
      BY <1>13, <2>1, <1>a, <1>c, <1>d, <1>e
         DEF StartCheck, Aborted, TypeInvariant
    <2>3. handles' \subseteq Handles
      BY <1>13 DEF StartCheck, TypeInvariant, Handles
    <2>4. check' \in Conclusions \cup {"none", "open"}
      BY <1>13 DEF StartCheck
    <2> QED
      BY <1>13, <2>2, <2>3, <2>4 DEF StartCheck, TypeInvariant
  <1>14. CASE DropOld
    <2>1. "addEyes" \in Steps /\ "prior" \in Steps
      BY DEF Steps
    <2> QED
      BY <1>14, <2>1, <1>c, <1>e DEF DropOld, TypeInvariant
  <1>15. CASE Create
    <2>1. {"prepare", "draftHead", "doneHead"} \subseteq Steps
      BY DEF Steps
    <2>2. {"eyes", "draft", "+1"} \subseteq Handles \cap Artifacts
      BY DEF Handles, Artifacts
    <2> QED
      BY <1>15, <2>1, <2>2, <1>c, <1>e DEF Create, Armed, TypeInvariant
  <1>16. CASE Prepare
    <2>1. "preHead" \in Steps /\ "workspace" \in Handles \cap Artifacts
      BY DEF Steps, Handles, Artifacts
    <2> QED
      BY <1>16, <2>1, <1>c, <1>e DEF Prepare, TypeInvariant
  <1>17. CASE PlanReconciliation
    <2>1. "resolveHead" \in Steps
      BY DEF Steps
    <2> QED
      BY <1>17, <2>1, <1>c, <1>e DEF PlanReconciliation, TypeInvariant
  <1>18. CASE Conclude
    BY <1>18 DEF Conclude, TypeInvariant, Steps
  <1>19. CASE MonitoringStopped
    <2>1. "submit" \in Steps /\ "addDone" \in Steps
      BY DEF Steps
    <2> QED
      BY <1>19, <2>1, <1>a, <1>c, <1>d
         DEF MonitoringStopped, Aborted, TypeInvariant
  <1>20. CASE Submit
    <2>1. "conclude" \in Steps
      BY DEF Steps
    <2>2. pc' \in Steps /\ failure' \subseteq Causes /\ faults' \in 0..MaxFaults
      BY <1>20, <2>1, <1>a, <1>b, <1>d, <1>e DEF Submit, TypeInvariant
    <2>3. /\ handles' \subseteq Handles /\ present' \subseteq Artifacts
          /\ submitted' \in BOOLEAN
      BY <1>20 DEF Submit, Disarmed, TypeInvariant
    <2> QED
      BY <1>20, <2>2, <2>3 DEF Submit, TypeInvariant
  <1>21. CASE Clean
    <2>1. pc \in DOMAIN Cleans
          /\ \E c \in {"none", "cleanup", "uncertain"} : Leave(c)
      BY <1>21 DEF Clean
    <2> QED
      BY <1>21, <2>1, LeaveTypes, GoneTypes DEF Clean, TypeInvariant
  <1>22. CASE CleanFails
    <2>1. /\ handles' \subseteq Handles /\ attempt' \in {0, 1, 2}
          /\ pc' \in Steps /\ failure' \subseteq Causes
          /\ result' \in {"none", "stale", "clean", "findings"}
      <3>1. CASE attempt + 1 < MaxTerminalAttempts
        BY <1>22, <3>1 DEF CleanFails, MaxTerminalAttempts, TypeInvariant
      <3>2. CASE ~(attempt + 1 < MaxTerminalAttempts)
        BY <1>22, <3>2, LeaveTypes DEF CleanFails
      <3> QED
        BY <3>1, <3>2
    <2> QED
      BY <1>22, <2>1, <1>b, GoneTypes DEF CleanFails, TypeInvariant
  <1>23. CASE DraftUncertain
    <2>1. pc \in DOMAIN Cleans /\ Cleans[pc] = "draft"
      BY <1>23 DEF DraftUncertain, Cleans
    <2> QED
      BY <1>23, <2>1, <1>b, LeaveTypes, GoneTypes
         DEF DraftUncertain, TypeInvariant
  <1>24. CASE NothingToClean
    <2>1. pc \in DOMAIN Cleans
      BY <1>24 DEF NothingToClean, Cleans
    <2> QED
      BY <1>24, <2>1, CleanTable DEF NothingToClean, TypeInvariant
  <1>25. CASE EndReview
    <2>1. Conclusion(failure') \in Conclusions
      BY DEF Conclusion, Conclusions
    <2>2. failure' \subseteq Causes
      BY <1>25, <1>a DEF EndReview, Aborted, TypeInvariant
    <2> QED
      BY <1>25, <2>1, <2>2 DEF EndReview, CheckOrRelease, TypeInvariant, Steps
  <1>26. CASE ReleaseLease
    BY <1>26 DEF ReleaseLease, TypeInvariant, Steps
  <1>27. CASE Over \/ UNCHANGED vars
    BY <1>27 DEF Over, vars, TypeInvariant
  <1> QED
    BY <1>1, <1>2, <1>3, <1>4, <1>5, <1>6, <1>7, <1>8, <1>9, <1>10, <1>11,
       <1>12, <1>13, <1>14, <1>15, <1>16, <1>17, <1>18, <1>19, <1>20, <1>21,
       <1>22, <1>23, <1>24, <1>25, <1>26, <1>27 DEF Next, ReviewStep

(* Every variable keeps its type, whatever the number of faults and pushes *)
(* (no terminal operation, in particular, is attempted a fourth time).     *)
THEOREM TypeCorrect == Spec => []TypeInvariant
  BY TypeInit, TypeNext, PTL DEF Spec

-----------------------------------------------------------------------------
(* Where each handle can be armed. The lease is held from the beginning of *)
(* the finalization to its last step, everything else in between; nothing  *)
(* is published before the submission, and no draft is armed after it.     *)

Outside == {"idle", "lateLease", "ended"}
Unchecked == Outside \cup {"policy", "authenticate", "pull", "startHead",
                           "startCheck", "stopFinally", "release",
                           "releaseLate"}
Ending == {"cleanWorkspace", "cleanDraft", "cleanEyes", "cleanDone",
           "stopAtEnd", "completeCheck", "stopFinally", "release", "ended"}

HandlePlaces ==
    /\ "workspace" \in handles =>
          pc \in {"preHead", "evidence", "review", "dropWorkspace",
                  "cleanWorkspace"}
    /\ "draft" \in handles =>
          pc \in {"draftHead", "stopBeforeSubmit", "submit",
                  "dropStaleDraft", "cleanWorkspace", "cleanDraft"}
    /\ "eyes" \in handles =>
          pc \in {"prepare", "preHead", "evidence", "review",
                  "dropWorkspace", "dropEyes", "cleanWorkspace",
                  "cleanDraft", "cleanEyes"}
    /\ "+1" \in handles =>
          pc \in {"doneHead", "dropStaleDone", "cleanWorkspace",
                  "cleanDraft", "cleanEyes", "cleanDone"}
    /\ "check" \in handles => pc \notin Unchecked

LeasePlaces ==
    /\ "lease" \in handles <=> pc \notin Outside
    /\ pc \notin Outside \cup {"release", "releaseLate"} => "lease" \in present

SubmittedPlaces ==
    submitted => /\ pc \in Ending \cup {"conclude", "stopBeforeDone",
                        "addDone", "doneHead", "dropStaleDone", "dropFailure"}
                 /\ "draft" \notin handles

(* Before the lock is asked for there is no finalization.                  *)
CallPlaces == call \in {"marker", "policy", "authenticate", "acquire"} =>
                 pc = "idle"

(* Once something is done that a cancellation could not undo, or is about  *)
(* to be, the monitors are silent and the signal is not a cancellation.    *)
Quiet == watch = "off" /\ reason # "targeted"

Irrevocable == \/ submitted \/ "+1" \in present
               \/ check = "success" \/ verdict = "success"
               \/ pc \in {"submit", "addDone"}

Precedence ==
    /\ Irrevocable => Quiet
    /\ pc = "idle" => ~Irrevocable

ReviewInv == HandlePlaces /\ LeasePlaces /\ SubmittedPlaces /\ CallPlaces
             /\ Precedence

LEMMA ReviewInit == Init => ReviewInv
  BY DEF Init, ReviewInv, HandlePlaces, LeasePlaces, SubmittedPlaces,
     CallPlaces, Precedence, Irrevocable, Quiet, Outside, Unchecked

LEMMA CallPlacesNext == CallPlaces /\ [Next]_vars => CallPlaces'
  <1> SUFFICES ASSUME CallPlaces, [Next]_vars PROVE CallPlaces'
    OBVIOUS
  <1> USE DEF world, callVars, CallPlaces
  <1>1. CASE Expire \/ CallerAborts \/ ObserveCancellation \/ MonitorFails
             \/ MonitorsEnd \/ StopMonitors \/ MoveHead \/ Over
             \/ UNCHANGED vars
    BY <1>1 DEF Expire, CallerAborts, ObserveCancellation, MonitorFails,
       Observe, MonitorsEnd, StopMonitors, MoveHead, Over, vars
  <1>2. CASE CallStep \/ Acquire \/ CallTimesOut \/ CallEnds
    BY <1>2 DEF CallStep, CallSteps, CallFails, Acquire, CallTimesOut,
       CallEnds, Raced
  <1>3. CASE ReviewStep
    <2>1. pc # "idle"
      BY <1>3 DEF ReviewStep, LateLease, Read, Follows, PullRequest,
         CheckHead, Current, StartCheck, DropOld, Create, Prepare,
         PlanReconciliation, Conclude, MonitoringStopped, Submit, Clean,
         CleanFails, DraftUncertain, Cleans, NothingToClean, EndReview,
         ReleaseLease
    <2>2. UNCHANGED call
      BY <1>3 DEF ReviewStep, LateLease, Read, PullRequest, CheckHead,
         StartCheck, DropOld, Create, Prepare, PlanReconciliation, Conclude,
         MonitoringStopped, Submit, Clean, CleanFails, DraftUncertain,
         NothingToClean, EndReview, ReleaseLease
    <2> QED
      BY <2>1, <2>2
  <1> QED
    BY <1>1, <1>2, <1>3 DEF Next

LEMMA PlacesNext ==
    TypeInvariant /\ HandlePlaces /\ LeasePlaces /\ SubmittedPlaces
      /\ CallPlaces /\ [Next]_vars
    => HandlePlaces' /\ LeasePlaces' /\ SubmittedPlaces'
  <1> SUFFICES ASSUME TypeInvariant, HandlePlaces, LeasePlaces,
                      SubmittedPlaces, CallPlaces, [Next]_vars
               PROVE  HandlePlaces' /\ LeasePlaces' /\ SubmittedPlaces'
    OBVIOUS
  <1> USE DEF world, callVars, HandlePlaces, LeasePlaces, SubmittedPlaces,
              CallPlaces, Outside, Unchecked, Ending
  <1>1. CASE Expire \/ CallerAborts \/ ObserveCancellation \/ MonitorFails
             \/ MonitorsEnd \/ StopMonitors \/ MoveHead \/ CallStep
             \/ CallEnds \/ Over \/ UNCHANGED vars
    BY <1>1 DEF Expire, CallerAborts, ObserveCancellation, MonitorFails,
       Observe, MonitorsEnd, StopMonitors, MoveHead, CallStep, CallEnds, Over,
       vars
  <1>2. CASE Acquire \/ CallTimesOut \/ LateLease
    BY <1>2 DEF Acquire, HoldLease, CallTimesOut, LateLease
  <1>3. CASE Read
    BY <1>3 DEF Read, Follows, Proceed, Break, Throw
  <1>4. CASE PullRequest \/ StartCheck
    BY <1>4 DEF PullRequest, StartCheck, Proceed, Break, Throw
  <1>5. CASE CheckHead
    BY <1>5 DEF CheckHead, Current, Moved, Publication, Proceed, Break, Throw
  <1>6. CASE DropOld
    BY <1>6 DEF DropOld, Proceed, Break, Throw
  <1>7. CASE Create
    BY <1>7 DEF Create, Armed, Proceed, Break, Throw
  <1>8. CASE Prepare \/ PlanReconciliation \/ Conclude
    BY <1>8 DEF Prepare, PlanReconciliation, Conclude, Proceed, Break, Throw
  <1>9. CASE MonitoringStopped
    BY <1>9 DEF MonitoringStopped, Proceed, Throw
  <1>10. CASE Submit
    BY <1>10 DEF Submit, Disarmed, Break, Throw
  <1>11. CASE Clean
    BY <1>11 DEF Clean, Gone, Leave, Cleans, After, InTry, Throw
  <1>12. CASE CleanFails
    BY <1>12 DEF CleanFails, Gone, Leave, Cleans, After, InTry, Throw
  <1>13. CASE DraftUncertain
    BY <1>13 DEF DraftUncertain, Gone, Leave, Cleans, After, InTry, Throw
  <1>14. CASE NothingToClean
    BY <1>14 DEF NothingToClean, Cleans, After
  <1>15. CASE EndReview \/ ReleaseLease
    BY <1>15 DEF EndReview, CheckOrRelease, ReleaseLease
  <1> QED
    BY <1>1, <1>2, <1>3, <1>4, <1>5, <1>6, <1>7, <1>8, <1>9, <1>10, <1>11,
       <1>12, <1>13, <1>14, <1>15 DEF Next, ReviewStep

LEMMA PrecedenceNext ==
    TypeInvariant /\ CallPlaces /\ Precedence /\ [Next]_vars => Precedence'
  <1> SUFFICES ASSUME TypeInvariant, CallPlaces, Precedence, [Next]_vars
               PROVE  Precedence'
    OBVIOUS
  <1> USE DEF world, callVars, CallPlaces, Precedence, Irrevocable, Quiet
  <1>1. CASE Expire \/ CallerAborts \/ ObserveCancellation \/ MonitorFails
             \/ MonitorsEnd \/ StopMonitors \/ MoveHead \/ CallStep
             \/ CallEnds \/ Over \/ UNCHANGED vars
    BY <1>1 DEF Expire, CallerAborts, ObserveCancellation, MonitorFails,
       Observe, Abort, Aborted, MonitorsEnd, StopMonitors, MoveHead, CallStep,
       CallSteps, CallFails, CallEnds, Over, vars
  <1>2. CASE Acquire \/ CallTimesOut \/ LateLease
    BY <1>2 DEF Acquire, HoldLease, CallFails, CallTimesOut, LateLease
  <1>3. CASE Read
    BY <1>3 DEF Read, Follows, Proceed, Break, Throw
  <1>4. CASE PullRequest \/ StartCheck
    BY <1>4 DEF PullRequest, StartCheck, Proceed, Break, Throw
  <1>5. CASE CheckHead
    BY <1>5 DEF CheckHead, Current, Moved, Publication, Proceed, Break, Throw
  <1>6. CASE DropOld
    BY <1>6 DEF DropOld, Proceed, Break, Throw
  <1>7. CASE Create
    BY <1>7 DEF Create, Armed, Proceed, Break, Throw
  <1>8. CASE Prepare \/ PlanReconciliation \/ Conclude
    BY <1>8 DEF Prepare, PlanReconciliation, Conclude, Proceed, Break, Throw
  <1>9. CASE MonitoringStopped
    BY <1>9 DEF MonitoringStopped, MonitorsSettled, Aborted, Proceed, Throw
  <1>10. CASE Submit
    BY <1>10 DEF Submit, Disarmed, Break, Throw
  <1>11. CASE Clean
    BY <1>11 DEF Clean, Gone, Leave, Cleans, After, InTry, Throw
  <1>12. CASE CleanFails
    BY <1>12 DEF CleanFails, Gone, Leave, Cleans, After, InTry, Throw
  <1>13. CASE DraftUncertain
    BY <1>13 DEF DraftUncertain, Gone, Leave, Cleans, After, InTry, Throw
  <1>14. CASE NothingToClean
    BY <1>14 DEF NothingToClean, Cleans, After
  <1>15. CASE EndReview
    <2>1. ASSUME Conclusion(failure') = "success" PROVE reason = "none"
      BY <1>15, <2>1 DEF EndReview, Conclusion, Aborted
    <2> QED
      BY <1>15, <2>1 DEF EndReview, CheckOrRelease, MonitorsSettled
  <1>16. CASE ReleaseLease
    BY <1>16 DEF ReleaseLease
  <1> QED
    BY <1>1, <1>2, <1>3, <1>4, <1>5, <1>6, <1>7, <1>8, <1>9, <1>10, <1>11,
       <1>12, <1>13, <1>14, <1>15, <1>16 DEF Next, ReviewStep

LEMMA ReviewInvariant == Spec => [](TypeInvariant /\ ReviewInv)
  <1>1. Init => TypeInvariant /\ ReviewInv
    BY TypeInit, ReviewInit
  <1>2. TypeInvariant /\ ReviewInv /\ [Next]_vars
          => (TypeInvariant /\ ReviewInv)'
    BY TypeNext, CallPlacesNext, PlacesNext, PrecedenceNext DEF ReviewInv
  <1> QED
    BY <1>1, <1>2, PTL DEF Spec

(* Whatever fails, is interrupted or is given up, and whenever: while a    *)
(* workspace, a draft, a reaction or a check run of this review is still   *)
(* to be taken down, the process holds the review lock.                    *)
THEOREM LeaseOutlivesWork == Spec => []LeaseCoversWork
  <1>1. TypeInvariant /\ ReviewInv => LeaseCoversWork
    BY DEF TypeInvariant, Handles, ReviewInv, HandlePlaces, LeasePlaces,
       Outside, Unchecked, LeaseCoversWork
  <1> QED
    BY <1>1, ReviewInvariant, PTL

(* No terminal operation can be aimed at a review that was published, an   *)
(* ambiguous submission included.                                          *)
THEOREM PublishedReviewsStay == Spec => []NoCleanupOfAPublishedReview
  <1>1. ReviewInv => NoCleanupOfAPublishedReview
    BY DEF ReviewInv, SubmittedPlaces, NoCleanupOfAPublishedReview
  <1> QED
    BY <1>1, ReviewInvariant, PTL

(* A review whose signal carries a targeted cancellation has not submitted *)
(* its comments, has not added its completion reaction and has no passing  *)
(* check: the monitors are settled, and the signal is examined, before     *)
(* each of the three.                                                      *)
THEOREM CancellationPrecedes == Spec => []CancellationWins
  <1>1. ReviewInv => CancellationWins
    BY DEF ReviewInv, Precedence, Irrevocable, Quiet, CancellationWins
  <1> QED
    BY <1>1, ReviewInvariant, PTL

-----------------------------------------------------------------------------
(* Nothing is left behind. Every artifact has an armed handle until it is  *)
(* gone, unless a terminal operation spent its three attempts, which takes *)
(* three faults, or nobody could tell what became of the draft.            *)

Accounted ==
    /\ attempt <= faults
    /\ faults < MaxTerminalAttempts =>
          /\ "workspace" \in present => "workspace" \in handles
          /\ "eyes" \in present => "eyes" \in handles
          /\ "lease" \in present => "lease" \in handles
          /\ "draft" \in present =>
                "draft" \in handles \/ "uncertain" \in failure
          /\ check = "open" => "check" \in handles \/ verdict = "none"
    /\ verdict # "none" =>
          pc \in {"completeCheck", "stopFinally", "release", "ended"}
    /\ "uncertain" \in failure => pc \in Ending

LEMMA AccountedNext ==
    TypeInvariant /\ ReviewInv /\ Accounted /\ [Next]_vars => Accounted'
  <1> SUFFICES ASSUME TypeInvariant, HandlePlaces, LeasePlaces, CallPlaces,
                      Accounted, [Next]_vars
               PROVE  Accounted'
    BY DEF ReviewInv
  <1>t. attempt \in Nat /\ faults \in Nat /\ verdict # "open"
    BY BoundsAssumption DEF TypeInvariant, Conclusions
  <1>r. reason # "uncertain"
    BY DEF TypeInvariant, Reasons
  <1> USE <1>t, <1>r DEF world, callVars, Accounted, CallPlaces, Ending, Fault,
                         MaxTerminalAttempts
  <1>1. CASE Expire \/ CallerAborts \/ ObserveCancellation \/ MonitorFails
             \/ MonitorsEnd \/ StopMonitors \/ MoveHead \/ CallStep
             \/ CallEnds \/ Over \/ UNCHANGED vars
    BY <1>1 DEF Expire, CallerAborts, ObserveCancellation, MonitorFails,
       Observe, MonitorsEnd, StopMonitors, MoveHead, CallStep, CallEnds, Over,
       vars
  <1>2. CASE Acquire \/ CallTimesOut \/ LateLease
    BY <1>2 DEF Acquire, HoldLease, CallTimesOut, LateLease
  <1>3. CASE Read
    BY <1>3 DEF Read, Follows, Proceed, Break, Throw
  <1>4. CASE PullRequest
    BY <1>4 DEF PullRequest, Proceed, Break, Throw
  <1>5. CASE StartCheck
    BY <1>5 DEF StartCheck, Proceed, Break, Throw
  <1>6. CASE CheckHead
    BY <1>6 DEF CheckHead, Current, Moved, Publication, Proceed, Break, Throw
  <1>7. CASE DropOld
    BY <1>7 DEF DropOld, Proceed, Break, Throw
  <1>8. CASE Create
    BY <1>8 DEF Create, Armed, Proceed, Break, Throw
  <1>9. CASE Prepare \/ PlanReconciliation \/ Conclude
    BY <1>9 DEF Prepare, PlanReconciliation, Conclude, Proceed, Break, Throw
  <1>10. CASE MonitoringStopped
    BY <1>10 DEF MonitoringStopped, Proceed, Throw
  <1>11. CASE Submit
    BY <1>11 DEF Submit, Disarmed, Break, Throw
  <1>12. CASE Clean
    BY <1>12 DEF Clean, Gone, Leave, Cleans, After, InTry, Throw
  <1>13. CASE CleanFails
    BY <1>13 DEF CleanFails, Gone, Leave, Cleans, After, InTry, Throw
  <1>14. CASE DraftUncertain
    BY <1>14 DEF DraftUncertain, Gone, Leave, Cleans, After, InTry, Throw
  <1>15. CASE NothingToClean
    BY <1>15 DEF NothingToClean, Cleans, After
  <1>16. CASE EndReview \/ ReleaseLease
    BY <1>16 DEF EndReview, CheckOrRelease, ReleaseLease
  <1> QED
    BY <1>1, <1>2, <1>3, <1>4, <1>5, <1>6, <1>7, <1>8, <1>9, <1>10, <1>11,
       <1>12, <1>13, <1>14, <1>15, <1>16 DEF Next, ReviewStep

(* A finalization that met fewer than three faults leaves no workspace, no *)
(* active reaction and no lease behind, completes every check run it knows *)
(* of, and reports a draft it could not account for: on every path, after  *)
(* every interruption, and also when the lease came after the deadline.    *)
THEOREM EverythingIsTakenDown == Spec => []NothingIsLeftBehind
  <1>1. Init => Accounted
    BY DEF Init, Accounted
  <1>2. HandlePlaces /\ LeasePlaces /\ Accounted => NothingIsLeftBehind
    BY DEF HandlePlaces, LeasePlaces, Accounted, NothingIsLeftBehind, Outside,
       Unchecked
  <1>3. ReviewInv => HandlePlaces /\ LeasePlaces
    BY DEF ReviewInv
  <1> QED
    BY <1>1, <1>2, <1>3, AccountedNext, ReviewInvariant, PTL DEF Spec

-----------------------------------------------------------------------------
(* What the check run says. The conclusion is computed once, at the end of *)
(* the review, and every attempt to complete the check run writes it; what *)
(* it rests on can no longer change in a way that belies it.               *)

Concluding == (Ending \ {"completeCheck", "stopFinally", "release", "ended"})
              \cup {"dropFailure"}

Truthful ==
    /\ check \in Conclusions => verdict = check
    /\ verdict = "success" =>
          result \in {"clean", "findings"} /\ failure \subseteq {"cleanup"}
    /\ verdict = "timed_out" => expired /\ failure # {}
    /\ verdict = "cancelled" =>
          result = "stale" \/ failure \cap {"targeted", "caller"} # {}
    /\ verdict = "failure" => failure \ {"targeted", "caller"} # {}
    /\ reason = "deadline" => expired
    /\ pc \in Concluding => failure # {} \/ result # "none"

-----------------------------------------------------------------------------
(* What the caller gets. As long as nothing failed, every artifact has its *)
(* handle, each step has left what the later ones rely on, and a call that *)
(* ended without an error is one whose finalization ended without one.     *)

(* The steps at which no finalization of this call holds the lease for it. *)
Apart == {"idle", "lateLease", "releaseLate"}
BeforeCheck == Apart \cup {"policy", "authenticate", "pull", "startHead",
                          "startCheck"}
BeforeReaction == BeforeCheck \cup {"dropOldDone"}
BeforeDraft == BeforeReaction \cup
    {"addEyes", "prepare", "preHead", "evidence", "review", "dropWorkspace",
     "dropEyes", "postHead", "dropOldDraft"}
Publishing == {"draft", "draftHead", "stopBeforeSubmit", "submit"}
Published == {"conclude", "stopBeforeDone", "addDone", "doneHead",
              "dropStaleDone", "dropFailure"}
Good == {"clean", "findings"}

Answers ==
    /\ call = "finalizing" => pc \notin Apart
    /\ call = "leaving" => answer # {}
    /\ pc \in {"lateLease", "releaseLate"} \/ (pc = "ended" /\ result = "none"
                                               /\ failure = {}) =>
          call \in {"leaving", "answered"} /\ answer # {}
    /\ call = "answered" /\ answer = {} => pc = "ended" /\ failure = {}
    /\ result # "none" => pc \in Ending \cup {"dropFailure"}
    /\ result = "none" /\ pc \in {"completeCheck", "stopFinally", "release"}
          => failure # {}

Taken ==
    /\ "workspace" \in present => "workspace" \in handles
    /\ "eyes" \in present => "eyes" \in handles
    /\ "draft" \in present => "draft" \in handles
    /\ "+1" \in present => "+1" \in handles \/ result = "clean"
    /\ pc = "ended" /\ result # "none" => "lease" \notin present

Done ==
    /\ (pc \notin BeforeReaction \cup Ending \/ result \in Good) =>
          "oldDone" \notin present
    /\ (pc \notin BeforeDraft \cup Ending \/ result \in Good) =>
          "oldDraft" \notin present
    /\ (pc \notin BeforeCheck \cup Ending \/ result \in Good) =>
          \/ "check" \in handles
          \/ pc \in {"stopFinally", "release", "ended"} /\ check = "success"
    /\ result = "stale" =>
          check \in {"none", "cancelled"} \/ "check" \in handles
    /\ pc = "completeCheck" =>
          verdict = IF result = "stale" THEN "cancelled" ELSE "success"
    /\ pc \in BeforeCheck => check = "none"
    /\ pc \in Publishing => plan.publish
    /\ (pc \in Published \/ result \in Good) => submitted = plan.publish
    /\ pc = "doneHead" \/ result = "clean" => "+1" \in present
    /\ result = "clean" => "+1" \notin handles

Whole == failure = {} => Taken /\ Done

LEMMA TruthfulNext ==
    TypeInvariant /\ ReviewInv /\ Accounted /\ Truthful /\ [Next]_vars
    => Truthful'
  <1> SUFFICES ASSUME TypeInvariant, CallPlaces, Accounted, Truthful,
                      [Next]_vars
               PROVE  Truthful'
    BY DEF ReviewInv
  <1>t. /\ reason \in Reasons \cup {"none"} /\ failure \subseteq Causes
        /\ check \in Conclusions \cup {"none", "open"}
    BY DEF TypeInvariant
  <1>v. verdict # "none" =>
           pc \in {"completeCheck", "stopFinally", "release", "ended"}
    BY DEF Accounted
  <1> USE <1>t, <1>v DEF world, callVars, Truthful, CallPlaces, Concluding,
                         Ending, Conclusions
  <1>1. CASE Expire \/ CallerAborts \/ ObserveCancellation \/ MonitorFails
             \/ MonitorsEnd \/ StopMonitors \/ MoveHead \/ CallStep
             \/ CallEnds \/ Over \/ UNCHANGED vars
    BY <1>1 DEF Expire, CallerAborts, ObserveCancellation, MonitorFails,
       Observe, Abort, MonitorsEnd, StopMonitors, MoveHead, CallStep,
       CallEnds, Over, vars
  <1>2. CASE Acquire \/ CallTimesOut \/ LateLease
    BY <1>2 DEF Acquire, CallTimesOut, LateLease
  <1>3. CASE Read
    BY <1>3 DEF Read, Follows, Proceed, Break, Throw
  <1>4. CASE PullRequest \/ StartCheck
    BY <1>4 DEF PullRequest, StartCheck, Proceed, Break, Throw
  <1>5. CASE CheckHead
    BY <1>5 DEF CheckHead, Current, Moved, Publication, Proceed, Break, Throw
  <1>6. CASE DropOld \/ Create
    BY <1>6 DEF DropOld, Create, Proceed, Break, Throw
  <1>7. CASE Prepare \/ PlanReconciliation \/ Conclude
    BY <1>7 DEF Prepare, PlanReconciliation, Conclude, Proceed, Break, Throw
  <1>8. CASE MonitoringStopped \/ Submit
    BY <1>8 DEF MonitoringStopped, Submit, Proceed, Break, Throw
  <1>9. CASE Clean
    BY <1>9 DEF Clean, Gone, Leave, Cleans, After, InTry, Throw
  <1>10. CASE CleanFails
    BY <1>10 DEF CleanFails, Gone, Leave, Cleans, After, InTry, Throw
  <1>11. CASE DraftUncertain
    BY <1>11 DEF DraftUncertain, Gone, Leave, Cleans, After, InTry, Throw
  <1>12. CASE NothingToClean
    BY <1>12 DEF NothingToClean, Cleans, After
  <1>13. CASE EndReview
    <2>1. verdict = "none" /\ check \notin Conclusions
      BY <1>13 DEF EndReview
    <2>2. failure' # {} \/ result # "none"
      BY <1>13 DEF EndReview
    <2>3. UNCHANGED <<result, check, reason, expired>>
      BY <1>13 DEF EndReview
    <2>4. verdict' \in {Conclusion(failure'), "none"} /\ pc' \notin Concluding
      BY <1>13, <2>1 DEF EndReview, CheckOrRelease
    <2>5. result \in {"none", "stale", "clean", "findings"}
      BY DEF TypeInvariant
    <2> QED
      BY <2>1, <2>2, <2>3, <2>4, <2>5 DEF Conclusion
  <1>14. CASE ReleaseLease
    BY <1>14 DEF ReleaseLease
  <1> QED
    BY <1>1, <1>2, <1>3, <1>4, <1>5, <1>6, <1>7, <1>8, <1>9, <1>10, <1>11,
       <1>12, <1>13, <1>14 DEF Next, ReviewStep

LEMMA AnswersNext ==
    TypeInvariant /\ ReviewInv /\ Truthful /\ Answers /\ [Next]_vars
    => Answers'
  <1> SUFFICES ASSUME TypeInvariant, HandlePlaces, LeasePlaces, CallPlaces,
                      Truthful, Answers, [Next]_vars
               PROVE  Answers'
    BY DEF ReviewInv
  <1>c. pc \in Concluding => failure # {} \/ result # "none"
    BY DEF Truthful
  <1> USE <1>c DEF world, callVars, Answers, CallPlaces, Concluding, Ending,
                   Apart
  <1>1. CASE Expire \/ CallerAborts \/ ObserveCancellation \/ MonitorFails
             \/ MonitorsEnd \/ StopMonitors \/ MoveHead \/ Over
             \/ UNCHANGED vars
    BY <1>1 DEF Expire, CallerAborts, ObserveCancellation, MonitorFails,
       Observe, MonitorsEnd, StopMonitors, MoveHead, Over, vars
  <1>2. CASE CallStep \/ CallTimesOut \/ CallEnds
    BY <1>2 DEF CallStep, CallSteps, CallFails, CallTimesOut, CallEnds, Raced
  <1>3. CASE Acquire \/ LateLease
    BY <1>3 DEF Acquire, CallFails, LateLease
  <1>4. CASE Read
    BY <1>4 DEF Read, Follows, Proceed, Break, Throw
  <1>5. CASE PullRequest \/ StartCheck
    BY <1>5 DEF PullRequest, StartCheck, Proceed, Break, Throw
  <1>6. CASE CheckHead
    BY <1>6 DEF CheckHead, Current, Moved, Publication, Proceed, Break, Throw
  <1>7. CASE DropOld \/ Create
    BY <1>7 DEF DropOld, Create, Proceed, Break, Throw
  <1>8. CASE Prepare \/ PlanReconciliation \/ Conclude
    BY <1>8 DEF Prepare, PlanReconciliation, Conclude, Proceed, Break, Throw
  <1>9. CASE MonitoringStopped \/ Submit
    BY <1>9 DEF MonitoringStopped, Submit, Proceed, Break, Throw
  <1>10. CASE Clean
    BY <1>10 DEF Clean, Leave, Cleans, After, InTry, Throw
  <1>11. CASE CleanFails
    BY <1>11 DEF CleanFails, Leave, Cleans, After, InTry, Throw
  <1>12. CASE DraftUncertain
    BY <1>12 DEF DraftUncertain, Leave, Cleans, After, InTry, Throw
  <1>13. CASE NothingToClean
    BY <1>13 DEF NothingToClean, Cleans, After
  <1>14. CASE EndReview
    BY <1>14 DEF EndReview, CheckOrRelease
  <1>15. CASE ReleaseLease
    BY <1>15 DEF ReleaseLease
  <1> QED
    BY <1>1, <1>2, <1>3, <1>4, <1>5, <1>6, <1>7, <1>8, <1>9, <1>10, <1>11,
       <1>12, <1>13, <1>14, <1>15 DEF Next, ReviewStep

(* A failure is never taken back.                                          *)
LEMMA FailureStays ==
    [Next]_vars /\ failure' = {} => failure = {}
  <1> SUFFICES ASSUME [Next]_vars, failure' = {} PROVE failure = {}
    OBVIOUS
  <1>1. ASSUME NEW s, Proceed(s) \/ Break \/ Leave(s) \/ Throw(s)
        PROVE  failure = {}
    BY <1>1 DEF Proceed, Break, Leave, Throw
  <1>2. CASE Expire \/ CallerAborts \/ ObserveCancellation \/ MonitorFails
             \/ MonitorsEnd \/ StopMonitors \/ MoveHead \/ CallStep
             \/ Acquire \/ CallTimesOut \/ CallEnds \/ Over \/ UNCHANGED vars
    BY <1>2 DEF Expire, CallerAborts, ObserveCancellation, MonitorFails,
       Observe, MonitorsEnd, StopMonitors, MoveHead, CallStep, Acquire,
       CallTimesOut, CallEnds, Over, vars
  <1>3. CASE ReviewStep
    BY <1>1, <1>3 DEF ReviewStep, LateLease, Read, PullRequest, CheckHead,
       StartCheck, DropOld, Create, Prepare, PlanReconciliation, Conclude,
       MonitoringStopped, Submit, Clean, CleanFails, DraftUncertain,
       NothingToClean, EndReview, ReleaseLease
  <1> QED
    BY <1>2, <1>3 DEF Next

LEMMA TakenNext ==
    ASSUME TypeInvariant, ReviewInv, Answers, Taken, [Next]_vars,
           failure' = {}
    PROVE  Taken'
  <1>p. HandlePlaces /\ LeasePlaces /\ CallPlaces
    BY DEF ReviewInv
  <1>r. /\ result # "none" => pc \in Ending \cup {"dropFailure"}
        /\ result \in {"none", "stale", "clean", "findings"}
    BY DEF Answers, TypeInvariant
  <1> USE <1>p, <1>r DEF world, callVars, Taken, CallPlaces, Ending
  <1>1. CASE Expire \/ CallerAborts \/ ObserveCancellation \/ MonitorFails
             \/ MonitorsEnd \/ StopMonitors \/ MoveHead \/ CallStep
             \/ CallTimesOut \/ CallEnds \/ Over \/ UNCHANGED vars
    BY <1>1 DEF Expire, CallerAborts, ObserveCancellation, MonitorFails,
       Observe, MonitorsEnd, StopMonitors, MoveHead, CallStep, CallTimesOut,
       CallEnds, Over, vars
  <1>2. CASE Acquire \/ LateLease
    BY <1>2 DEF Acquire, HoldLease, LateLease
  <1>3. CASE Read
    BY <1>3 DEF Read, Follows, Proceed, Break, Throw
  <1>4. CASE PullRequest \/ StartCheck
    BY <1>4 DEF PullRequest, StartCheck, Proceed, Break, Throw
  <1>5. CASE CheckHead
    BY <1>5 DEF CheckHead, Current, Moved, Publication, Proceed, Break, Throw
  <1>6. CASE DropOld \/ Create
    BY <1>6 DEF DropOld, Create, Armed, Proceed, Break, Throw
  <1>7. CASE Prepare \/ PlanReconciliation \/ Conclude
    BY <1>7 DEF Prepare, PlanReconciliation, Conclude, Proceed, Break, Throw
  <1>8. CASE MonitoringStopped \/ Submit
    BY <1>8 DEF MonitoringStopped, Submit, Proceed, Break, Throw
  <1>9. CASE Clean
    BY <1>9 DEF Clean, Gone, Leave, Cleans, After, InTry, Throw
  <1>10. CASE CleanFails
    BY <1>10 DEF CleanFails, Gone, Leave, Cleans, After, InTry, Throw
  <1>11. CASE DraftUncertain
    BY <1>11 DEF DraftUncertain, Gone, Leave, Cleans, After, InTry, Throw
  <1>12. CASE NothingToClean
    BY <1>12 DEF NothingToClean, Cleans, After
  <1>13. CASE EndReview \/ ReleaseLease
    BY <1>13 DEF EndReview, CheckOrRelease, ReleaseLease
  <1> QED
    BY <1>1, <1>2, <1>3, <1>4, <1>5, <1>6, <1>7, <1>8, <1>9, <1>10, <1>11,
       <1>12, <1>13 DEF Next, ReviewStep

LEMMA DoneNext ==
    ASSUME TypeInvariant, ReviewInv, Truthful, Answers, Done, [Next]_vars,
           failure' = {}
    PROVE  Done'
  <1>p. HandlePlaces /\ SubmittedPlaces /\ CallPlaces
    BY DEF ReviewInv
  <1>r. /\ result # "none" => pc \in Ending \cup {"dropFailure"}
        /\ result \in {"none", "stale", "clean", "findings"}
        /\ submitted \in BOOLEAN /\ plan.publish \in BOOLEAN
    BY DEF Answers, TypeInvariant, Plans
  <1>c. pc \in Concluding => failure # {} \/ result # "none"
    BY DEF Truthful
  <1>f. failure = {}
    BY FailureStays
  <1> USE <1>p, <1>r, <1>c, <1>f DEF world, callVars, Done, CallPlaces,
          HandlePlaces, SubmittedPlaces, Ending, Apart, BeforeCheck,
          BeforeReaction, BeforeDraft, Publishing, Published, Good, Unchecked,
          Outside, Concluding
  <1>1. CASE Expire \/ CallerAborts \/ ObserveCancellation \/ MonitorFails
             \/ MonitorsEnd \/ StopMonitors \/ MoveHead \/ CallStep
             \/ CallTimesOut \/ CallEnds \/ Over \/ UNCHANGED vars
    BY <1>1 DEF Expire, CallerAborts, ObserveCancellation, MonitorFails,
       Observe, MonitorsEnd, StopMonitors, MoveHead, CallStep, CallTimesOut,
       CallEnds, Over, vars
  <1>2. CASE Acquire \/ LateLease
    BY <1>2 DEF Acquire, HoldLease, LateLease
  <1>3. CASE Read
    BY <1>3 DEF Read, Follows, Proceed, Break, Throw
  <1>4. CASE PullRequest \/ StartCheck
    BY <1>4 DEF PullRequest, StartCheck, Proceed, Break, Throw
  <1>5. CASE CheckHead
    BY <1>5 DEF CheckHead, Current, Moved, Publication, Proceed, Break, Throw
  <1>6. CASE DropOld
    BY <1>6 DEF DropOld, Proceed, Break, Throw
  <1>7. CASE Create
    BY <1>7 DEF Create, Armed, Proceed, Break, Throw
  <1>8. CASE Prepare \/ PlanReconciliation \/ Conclude
    BY <1>8 DEF Prepare, PlanReconciliation, Conclude, Proceed, Break, Throw
  <1>9. CASE MonitoringStopped \/ Submit
    BY <1>9 DEF MonitoringStopped, Submit, Proceed, Break, Throw
  <1>10. CASE Clean
    BY <1>10 DEF Clean, Gone, Leave, Cleans, After, InTry, Throw
  <1>11. CASE CleanFails
    BY <1>11 DEF CleanFails, Gone, Leave, Cleans, After, InTry, Throw
  <1>12. CASE DraftUncertain
    BY <1>12 DEF DraftUncertain, Gone, Leave, Cleans, After, InTry, Throw
  <1>13. CASE NothingToClean
    BY <1>13 DEF NothingToClean, Cleans, After
  <1>14. CASE EndReview
    BY <1>14 DEF EndReview, CheckOrRelease, Conclusion
  <1>15. CASE ReleaseLease
    BY <1>15 DEF ReleaseLease
  <1> QED
    BY <1>1, <1>2, <1>3, <1>4, <1>5, <1>6, <1>7, <1>8, <1>9, <1>10,
       <1>11, <1>12, <1>13, <1>14, <1>15 DEF Next, ReviewStep

-----------------------------------------------------------------------------
(* The invariant of one review, and what it shows of the check run and of  *)
(* the answer.                                                             *)

OrchestratorInv == TypeInvariant /\ ReviewInv /\ Accounted /\ Truthful
                   /\ Answers /\ Whole

LEMMA OrchestratorInvariant == Spec => []OrchestratorInv
  <1>1. Init => OrchestratorInv
    <2>1. Init => Accounted /\ Truthful /\ Answers
      BY DEF Init, Accounted, Truthful, Conclusions, Concluding, Ending,
         Answers, Apart
    <2>2. Init => Whole
      BY DEF Init, Whole, Taken, Done, Ending, Apart, BeforeCheck,
         BeforeReaction, BeforeDraft, Publishing, Published, Good
    <2> QED
      BY <2>1, <2>2, TypeInit, ReviewInit DEF OrchestratorInv
  <1>2. OrchestratorInv /\ [Next]_vars => OrchestratorInv'
    <2> SUFFICES ASSUME OrchestratorInv, [Next]_vars PROVE OrchestratorInv'
      OBVIOUS
    <2> USE DEF OrchestratorInv
    <2>1. TypeInvariant' /\ ReviewInv'
      BY TypeNext, CallPlacesNext, PlacesNext, PrecedenceNext DEF ReviewInv
    <2>2. Accounted' /\ Truthful' /\ Answers'
      BY AccountedNext, TruthfulNext, AnswersNext
    <2>3. Whole'
      BY FailureStays, TakenNext, DoneNext DEF Whole
    <2> QED
      BY <2>1, <2>2, <2>3
  <1> QED
    BY <1>1, <1>2, PTL DEF Spec

(* Whatever was interrupted, retried or given up: a check run passes only  *)
(* for a review with a result that failed in nothing but giving up the     *)
(* check or the lease, times out only after the deadline, and is cancelled *)
(* only by an abort or a moved head.                                       *)
THEOREM CheckIsTruthful == Spec => []CheckTellsTheTruth
  <1>1. OrchestratorInv => CheckTellsTheTruth
    BY DEF OrchestratorInv, Truthful, CheckTellsTheTruth, Conclusions
  <1> QED
    BY <1>1, OrchestratorInvariant, PTL

(* Once a check run has a conclusion no later attempt gives it another.    *)
THEOREM ConclusionStays == Spec => ConclusionIsStable
  <1>1. OrchestratorInv /\ [Next]_vars
        => [(check \in Conclusions) => (check' = check)]_vars
    <2> SUFFICES ASSUME OrchestratorInv, Next, check \in Conclusions
                 PROVE  check' = check
      BY DEF vars
    <2>1. /\ verdict = check
          /\ pc \in {"completeCheck", "stopFinally", "release", "ended"}
      BY DEF OrchestratorInv, Truthful, Accounted, Conclusions
    <2>2. CASE Expire \/ CallerAborts \/ ObserveCancellation \/ MonitorFails
               \/ MonitorsEnd \/ StopMonitors \/ MoveHead \/ CallStep
               \/ Acquire \/ CallTimesOut \/ CallEnds \/ Over
      BY <2>2 DEF Expire, CallerAborts, ObserveCancellation, MonitorFails,
         Observe, MonitorsEnd, StopMonitors, MoveHead, CallStep, Acquire,
         CallTimesOut, CallEnds, Over, vars
    <2>3. CASE ReviewStep
      BY <2>1, <2>3 DEF ReviewStep, LateLease, Read, PullRequest, CheckHead,
         StartCheck, DropOld, Create, Prepare, PlanReconciliation, Conclude,
         MonitoringStopped, Submit, Clean, CleanFails, DraftUncertain, Gone,
         NothingToClean, EndReview, ReleaseLease
    <2> QED
      BY <2>2, <2>3 DEF Next
  <1> QED
    BY <1>1, OrchestratorInvariant, PTL DEF Spec, ConclusionIsStable

(* A caller who is given a result finds the pull request in the state the  *)
(* result names, for every number of faults the review met on its way.     *)
THEOREM ResultsAreWhole == Spec => []ResultIsWhole
  <1>1. OrchestratorInv => ResultIsWhole
    <2> SUFFICES ASSUME OrchestratorInv, call = "answered", answer = {}
                 PROVE  ResultIsWhole
      BY DEF ResultIsWhole
    <2>1. /\ pc = "ended" /\ failure = {} /\ result # "none"
          /\ result \in {"none", "stale", "clean", "findings"}
          /\ present \subseteq Artifacts
      BY DEF OrchestratorInv, Answers, TypeInvariant
    <2>2. handles = {}
      BY <2>1 DEF OrchestratorInv, TypeInvariant, Handles, ReviewInv,
         HandlePlaces, LeasePlaces, Unchecked, Outside
    <2>3. Taken /\ Done
      BY <2>1 DEF OrchestratorInv, Whole
    <2>4. present \cap {"workspace", "eyes", "draft", "lease"} = {}
      BY <2>1, <2>2, <2>3 DEF Taken
    <2>5. ASSUME result = "stale"
          PROVE  check \in {"none", "cancelled"} /\ "+1" \notin present
      BY <2>2, <2>3, <2>5 DEF Taken, Done
    <2>6. ASSUME result # "stale"
          PROVE  /\ check = "success" /\ submitted = plan.publish
                 /\ present = IF result = "clean" THEN {"+1"} ELSE {}
      <3>1. /\ check = "success" /\ submitted = plan.publish
            /\ {"oldDone", "oldDraft"} \cap present = {}
        BY <2>1, <2>2, <2>3, <2>6 DEF Done, Good
      <3>2. "+1" \in present <=> result = "clean"
        BY <2>2, <2>3 DEF Taken, Done
      <3> QED
        BY <2>1, <2>4, <3>1, <3>2 DEF Artifacts, Handles
    <2> QED
      BY <2>1, <2>4, <2>5, <2>6 DEF ResultIsWhole
  <1> QED
    BY <1>1, OrchestratorInvariant, PTL
=============================================================================
