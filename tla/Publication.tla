------------------------------ MODULE Publication ------------------------------
(* The reviews of one pull request, one after the other, and what they     *)
(* publish on GitHub (review/github.ts, the publishing part of             *)
(* review/orchestrator.ts, review/publication.ts).                         *)
(*                                                                         *)
(* GitHub carries out a request it has answered at once. A request about a *)
(* draft or a thread without an answer (a timeout, an abort, a lost        *)
(* connection, a 5xx) is on the wire: GitHub carries it out later, or      *)
(* never. Between two steps of a review the author pushes and people       *)
(* resolve threads. Reviews do not overlap: they hold the review lock.     *)
EXTENDS Reconciliation

CONSTANTS Reports,      \* the sets of findings a review may come to
          Legacies,     \* body states an earlier version may have published
          MaxRuns,      \* reviews
          Budget        \* what a behavior may spend: two on each review, one on
                        \* each mishap (a fault, a push, a resolution by people)

(* What identifies a finding is computed from it alone: every token has its *)
(* anchor, and a marker holds the semantic one.  A body state has one       *)
(* identity of a fingerprint.                                               *)
Derived(i) ==
    \E t \in Tokens(i) :
        /\ t = <<"semantic", t[2]>>
        /\ \A u \in Tokens(i) : u[2] = t[2]
        /\ \/ i.fingerprint = t
           \/ /\ i.fingerprint = <<"occurrence", t[2], i.fingerprint[3]>>
              /\ i.fingerprint[3] \in Nat \ {0}

ASSUME ReportsAssumption ==
    \A r \in Reports :
        /\ IsFiniteSet(r)
        /\ \A f \in r : f.line \in Nat \ {0}
        /\ \A f, g \in r : f.anchor = g.anchor /\ f.line = g.line => f = g
ASSUME LegaciesAssumption ==
    \A b \in Legacies :
        /\ IsFiniteSet(b)
        /\ \A i \in b : Derived(i)
        /\ \A i, j \in b : i.fingerprint = j.fingerprint => i = j
ASSUME BoundsAssumption ==
    MaxRuns \in Nat /\ Budget \in Nat

VARIABLES
    threads,    \* review threads that carry our markers, by creation
    body,       \* the body state of our latest published review
    draft,      \* our pending review
    clean,      \* our completion reaction is on the pull request
    shown,      \* the reviews whose drafts GitHub has published
    wire,       \* requests about drafts without an answer
    closing,    \* threads of which a resolution got no answer
    head,       \* the head of the pull request
    pc,         \* the step of the review
    run,        \* its number
    sha,        \* the head it reviews
    found,      \* the findings of the model
    wasClean,   \* it has removed a completion reaction
    prior,      \* the prior body state it works with
    plan,       \* what is left of the reconciliation plan
    goal,       \* what a draft is being settled for
    target,     \* the review whose draft it is
    attempt,    \* attempts to settle it so far
    outcome,    \* how the latest review ended
    told,       \* what each review was told about its draft
    touched,    \* the latest plan took a draft's threads for open ones, or a
                \* thread was resolved since that is not in it
    last,       \* the report of the latest review if it is all there is on
                \* GitHub, and how many reviews in a row came to it
    spent       \* of the budget

github == <<threads, body, draft, clean, shown>>
world == <<closing, head, touched>>
local == <<run, sha, found, wasClean, prior>>
settling == <<goal, target, attempt>>
vars == <<github, wire, world, pc, local, plan, settling, outcome, told, last,
          spent>>

NoDraft == [run |-> 0, netNew |-> {}, body |-> {}]
NoPlan == [netNew |-> {}, obsolete |-> {}, body |-> {}, bodyChanged |-> FALSE]
Nothing == [report |-> {}, times |-> 0]
Complete == {"findings", "clean"}

(* The threads that GitHub opens for a draft, and the open ones of a list. *)
ThreadsOf(d) ==
    SetToSeq({[fingerprint |-> i.fingerprint, aliases |-> i.aliases,
               open |-> TRUE] : i \in d.netNew})
OpenIn(ts) ==
    {[fingerprint |-> ts[t].fingerprint, aliases |-> ts[t].aliases,
      thread |-> t] : t \in {u \in DOMAIN ts : ts[u].open}}
OpenThreads == OpenIn(threads)

(* What getPriorReviewState takes for our open threads: those of a draft   *)
(* that is still pending are among them.                                   *)
OwnedOpenThreads == OpenIn(threads \o ThreadsOf(draft))

Init ==
    /\ threads = <<>>
    /\ body \in Legacies
    /\ draft = NoDraft
    /\ clean = FALSE
    /\ shown = {}
    /\ wire = {} /\ closing = {}
    /\ head = 0 /\ touched = FALSE
    /\ pc = "idle"
    /\ run = 0
    /\ sha = 0
    /\ found = {}
    /\ wasClean = FALSE
    /\ prior = {}
    /\ plan = NoPlan
    /\ goal = "none" /\ target = 0 /\ attempt = 0
    /\ outcome = "none"
    /\ told = [r \in 1 .. MaxRuns |-> "nothing"]
    /\ last = Nothing
    /\ spent = 0

-----------------------------------------------------------------------------
(* GitHub                                                                  *)

(* GitHub keeps one pending review of a user on a pull request.            *)
CreateDraft(d) == draft' = IF draft = NoDraft THEN d ELSE draft

Publish(d) ==
    /\ threads' = threads \o ThreadsOf(d)
    /\ body' = d.body
    /\ shown' = shown \cup {d.run}
    /\ draft' = NoDraft

Unpublished == UNCHANGED <<threads, body, shown>>

Spend(n) == spent + n <= Budget /\ spent' = spent + n

(* A request that got no answer takes effect after all.                    *)
TakesEffect(w) ==
    \/ w.kind = "create" /\ CreateDraft(w.review) /\ Unpublished
    \/ w.kind = "submit" /\ draft = w.review /\ Publish(draft)
    \/ w.kind = "delete" /\ draft = w.review /\ draft' = NoDraft /\ Unpublished
CarryOut ==
    \E w \in wire :
        /\ wire' = wire \ {w}
        /\ TakesEffect(w)
        /\ UNCHANGED <<clean, world, pc, local, plan, settling, outcome, told,
                       last, spent>>

(* A thread is resolved. That of a draft is not on the list: the draft is  *)
(* deleted by the next sweep, and what became of its threads with it.      *)
Close(t) ==
    threads' = IF t \in DOMAIN threads
               THEN [threads EXCEPT ![t].open = FALSE] ELSE threads
Meddle(t) ==
    /\ threads[t].open /\ Close(t)
    /\ touched' = TRUE /\ last' = Nothing
Aside == UNCHANGED <<body, draft, clean, shown, wire, head, pc, local, plan,
                     settling, outcome, told>>

(* A resolution that got no answer takes effect after all.                 *)
CloseLate ==
    \E t \in closing :
        /\ closing' = closing \ {t}
        /\ \/ Meddle(t)
           \/ ~threads[t].open /\ UNCHANGED <<threads, touched, last>>
        /\ Aside /\ UNCHANGED spent

Dismiss ==
    /\ Spend(1)
    /\ \E t \in DOMAIN threads : Meddle(t)
    /\ Aside /\ UNCHANGED closing

Push ==
    /\ Spend(1)
    /\ head' = head + 1
    /\ UNCHANGED <<github, wire, closing, touched, pc, local, plan,
                   settling, outcome, told, last>>

-----------------------------------------------------------------------------
(* The course of a review                                                  *)

Fault == Spend(1)
Unanswered(kind, d) ==
    Fault /\ wire' = wire \cup {[kind |-> kind, review |-> d]}
Answered == UNCHANGED <<wire, spent>>

Go(s) == pc' = s /\ UNCHANGED <<settling, outcome, told, last>>
Settle(g, r) ==
    /\ pc' = "delete" /\ goal' = g /\ target' = r /\ attempt' = 0
    /\ UNCHANGED <<outcome, told, last>>
Tell(t) == told' = [told EXCEPT ![run] = t]
Submitted ==
    /\ pc' = "conclude" /\ Tell("submitted")
    /\ UNCHANGED <<settling, outcome, last>>

(* The review is over. One that did not learn that GitHub published its    *)
(* draft has told its caller that it did not, or that it cannot say. A     *)
(* complete one has left its report on GitHub.                             *)
Streak == IF last.times > 0 /\ last.report = found THEN 2 ELSE 1
End(o) ==
    /\ pc' = "idle" /\ goal' = "none" /\ target' = 0 /\ attempt' = 0
    /\ outcome' = o
    /\ IF told[run] = "submitted" THEN UNCHANGED told
       ELSE Tell(IF o \in {"uncertain", "crashed"}
                 THEN "uncertain" ELSE "unpublished")
    /\ last' = IF o \in Complete /\ ~touched
               THEN [report |-> found, times |-> Streak] ELSE Nothing

(* The review takes the head and removes the completion reaction of the    *)
(* run before, which says whether that run was clean.                      *)
Start ==
    /\ pc = "idle" /\ run < MaxRuns /\ Spend(2)
    /\ run' = run + 1
    /\ sha' = head
    /\ wasClean' = clean
    /\ clean' = FALSE
    /\ found' = {} /\ prior' = {} /\ plan' = NoPlan
    /\ pc' = "model" /\ outcome' = "none"
    /\ UNCHANGED <<threads, body, draft, shown, wire, world, settling, told,
                   last>>

(* The model's report, validated; then the head is read again.             *)
Model ==
    /\ pc = "model"
    /\ found' \in Reports
    /\ IF head = sha THEN Go("sweep") ELSE End("stale")
    /\ UNCHANGED <<github, wire, world, run, sha, wasClean, prior, plan, spent>>

(* removeOwnPendingReview lists our drafts and settles the one it finds.   *)
Sweep ==
    /\ pc \in {"sweep", "sweepOwn"}
    /\ IF draft # NoDraft THEN Settle(pc, draft.run)
       ELSE IF pc = "sweep" THEN Go("bodies") ELSE End("failed")
    /\ UNCHANGED <<github, wire, world, local, plan, spent>>

(* getPriorReviewState pages through the reviews, then through the threads.*)
PriorBody == IF wasClean THEN {} ELSE body
ReadBodies ==
    /\ pc = "bodies"
    /\ prior' = PriorBody
    /\ Go("threads")
    /\ UNCHANGED <<github, wire, world, run, sha, found, wasClean, plan, spent>>

Reconcile ==
    /\ pc = "threads"
    /\ plan' \in Plans(found, prior, OwnedOpenThreads)
    /\ touched' = (OwnedOpenThreads # OpenThreads)
    /\ Go("resolveHead")
    /\ UNCHANGED <<github, wire, closing, head, local, spent>>

(* Mutant of Publication: a change of the body state alone is kept back.   *)
PublicationOfNetNew == IF plan.netNew # {} THEN "create" ELSE "conclude"

(* Each resolution follows a look at the head, and so does the last one.   *)
Publication == IF plan.netNew # {} \/ plan.bodyChanged
               THEN "create" ELSE "conclude"
ResolveHead ==
    /\ pc = "resolveHead"
    /\ IF head # sha THEN End("stale")
       ELSE Go(IF plan.obsolete # {} THEN "resolve" ELSE Publication)
    /\ UNCHANGED <<github, wire, world, local, plan, spent>>

Resolve ==
    /\ pc = "resolve"
    /\ \/ /\ Close(Min(plan.obsolete))
          /\ plan' = [plan EXCEPT !.obsolete = @ \ {Min(@)}]
          /\ Go("resolveHead")
          /\ UNCHANGED <<closing, spent>>
       \/ /\ Fault /\ End("failed")
          /\ closing' = closing \cup ({Min(plan.obsolete)} \cap DOMAIN threads)
          /\ UNCHANGED <<threads, plan>>
    /\ UNCHANGED <<body, draft, clean, shown, wire, head, touched, local>>

-----------------------------------------------------------------------------
(* The draft                                                               *)

(* What this review asks GitHub to publish: a thread for every new finding *)
(* and the whole body state.                                               *)
Payload == [run |-> run, netNew |-> plan.netNew, body |-> plan.body]

(* From here on the cleanup looks for the draft, even if the answer never  *)
(* comes or GitHub refuses because an older draft is there.                *)
Create ==
    /\ pc = "create"
    /\ \/ Answered /\ CreateDraft(Payload)
          /\ Go(IF draft = NoDraft THEN "draftHead" ELSE "sweepOwn")
       \/ Unanswered("create", Payload) /\ Go("sweepOwn") /\ UNCHANGED draft
    /\ UNCHANGED <<threads, body, clean, shown, world, local, plan>>

DraftHead ==
    /\ pc = "draftHead"
    /\ IF head = sha THEN Go("submit") ELSE Settle("stale", run)
    /\ UNCHANGED <<github, wire, world, local, plan, spent>>

(* submit: an answer, a definitive rejection, or no answer.                *)
Submit ==
    /\ pc = "submit"
    /\ \/ Answered /\ Publish(draft) /\ Submitted
       \/ /\ Fault /\ Go("rejected")
          /\ UNCHANGED <<threads, body, draft, shown, wire>>
       \/ /\ Unanswered("submit", Payload) /\ Go("unanswered")
          /\ UNCHANGED <<threads, body, draft, shown>>
    /\ UNCHANGED <<clean, world, local, plan>>

(* Mutant of ReadSubmission: a draft that is still pending after a         *)
(* submission without an answer is left to the cleanup as well.            *)
SubmissionLeftToCleanup ==
    /\ pc \in {"rejected", "unanswered"}
    /\ \/ run \in shown /\ Submitted
       \/ run \notin shown /\ Settle("cleanup", run)
    /\ UNCHANGED <<github, wire, world, local, plan, spent>>

(* The readback of a submission without a clear success. A rejected draft  *)
(* that is still pending is left to the cleanup.                           *)
ReadSubmission ==
    /\ pc \in {"rejected", "unanswered"}
    /\ \/ run \in shown /\ Submitted /\ UNCHANGED spent
       \/ /\ run \notin shown /\ UNCHANGED spent
          /\ Settle(IF pc = "rejected" THEN "cleanup" ELSE "submission", run)
       \/ Fault /\ Settle("submission", run)
    /\ UNCHANGED <<github, wire, world, local, plan>>

(* Where the settlement of a draft leads: GitHub has removed the draft, or *)
(* published it, or three attempts could not tell.                         *)
Removed ==
    CASE goal = "sweep" -> Go("bodies")
      [] goal = "submission" -> Settle("cleanup", run)
      [] goal = "stale" -> End("stale")
      [] OTHER -> End("failed")
Published == IF goal = "submission" THEN Submitted ELSE Removed
Uncertain == End(IF goal = "submission" THEN "uncertain" ELSE "failed")

Delete ==
    /\ pc = "delete"
    /\ \/ /\ target \in shown /\ Go("readback") /\ Answered
          /\ UNCHANGED draft
       \/ /\ target \notin shown /\ Removed /\ Answered
          /\ draft' = IF draft.run = target THEN NoDraft ELSE draft
       \/ /\ Fault /\ Go("readback") /\ UNCHANGED draft
          /\ wire' = wire \cup {[kind |-> "delete", review |-> d] :
                                   d \in {e \in {draft} : e.run = target}}
    /\ UNCHANGED <<threads, body, clean, shown, world, local, plan>>

LastAttempt == 2

(* Mutant of Again: the loop runs once more.                               *)
AgainOnceMore ==
    IF attempt <= LastAttempt
    THEN /\ pc' = "delete" /\ attempt' = attempt + 1
         /\ UNCHANGED <<goal, target, outcome, told, last>>
    ELSE Uncertain

Again ==
    IF attempt < LastAttempt
    THEN /\ pc' = "delete" /\ attempt' = attempt + 1
         /\ UNCHANGED <<goal, target, outcome, told, last>>
    ELSE Uncertain

Readback ==
    /\ pc = "readback"
    /\ \/ target \in shown /\ Published /\ UNCHANGED spent
       \/ target \notin shown /\ Again /\ UNCHANGED spent
       \/ Fault /\ Again
    /\ UNCHANGED <<github, wire, world, local, plan>>

-----------------------------------------------------------------------------
(* The end                                                                 *)

(* A review without findings says so with a completion reaction, which it  *)
(* takes back if the head has moved.                                       *)
Conclude ==
    /\ pc = "conclude"
    /\ Go(IF found = {} THEN "doneHead" ELSE "dropFailure")
    /\ clean' = (found = {})
    /\ UNCHANGED <<threads, body, draft, shown, wire, world, local, plan, spent>>

DoneHead ==
    /\ pc = "doneHead"
    /\ IF head = sha THEN Go("dropFailure") /\ UNCHANGED clean
       ELSE End("stale") /\ clean' = FALSE
    /\ UNCHANGED <<threads, body, draft, shown, wire, world, local, plan, spent>>

DropFailure ==
    /\ pc = "dropFailure"
    /\ End(IF found = {} THEN "clean" ELSE "findings")
    /\ UNCHANGED <<github, wire, world, local, plan, spent>>

(* An operation fails or the review is cancelled: the cleanup removes what *)
(* the review has made.                                                    *)
Break ==
    /\ pc \notin {"idle", "resolve", "create", "rejected", "unanswered",
                  "delete", "readback"}
    /\ Fault
    /\ IF pc \in {"draftHead", "submit"} THEN Settle("cleanup", run)
       ELSE End("failed")
    /\ clean' = (clean /\ pc # "doneHead")
    /\ UNCHANGED <<threads, body, draft, shown, wire, world, local, plan>>

Crash ==
    /\ pc # "idle"
    /\ Fault /\ End("crashed")
    /\ UNCHANGED <<github, wire, world, local, plan>>

(* The bounds are used up.                                                 *)
Over ==
    /\ pc = "idle" /\ (run = MaxRuns \/ spent + 2 > Budget)
    /\ UNCHANGED vars

ReviewStep ==
    \/ Model \/ Sweep \/ ReadBodies \/ Reconcile \/ ResolveHead \/ Resolve
    \/ Create \/ DraftHead \/ Submit \/ ReadSubmission \/ Delete \/ Readback
    \/ Conclude \/ DoneHead \/ DropFailure \/ Break \/ Crash
Next == \/ Start \/ ReviewStep \/ CarryOut \/ CloseLate \/ Push \/ Dismiss
        \/ Over

Spec == Init /\ [][Next]_vars

-----------------------------------------------------------------------------
(* Properties                                                              *)

Steps == {"idle", "model", "sweep", "bodies", "threads", "resolveHead",
          "resolve", "create", "sweepOwn", "draftHead", "submit", "rejected",
          "unanswered", "delete", "readback", "conclude", "doneHead",
          "dropFailure"}

TypeInvariant ==
    /\ pc \in Steps /\ run \in 0 .. MaxRuns
    /\ goal \in {"none", "sweep", "sweepOwn", "submission", "cleanup", "stale"}
    /\ told \in [1 .. MaxRuns -> {"nothing", "submitted", "unpublished",
                                  "uncertain"}]
    /\ shown \subseteq 1 .. run
    /\ \A d \in {draft} \cup {w.review : w \in wire} : d.run \in 0 .. run
    /\ \A w \in wire : w.kind \in {"create", "submit", "delete"}
    /\ target \in 0 .. run /\ attempt \in 0 .. 2
    /\ plan.obsolete \subseteq Nat /\ closing \subseteq DOMAIN threads
    /\ \A i \in body : Tokens(i) # {}

(* What a review says of its draft stays true, whatever GitHub still       *)
(* carries out: no comments appear of a review that failed or was stale,   *)
(* and those of a submitted one are there (github.ts, submit).             *)
ToldTruly ==
    \A r \in 1 .. run : /\ told[r] = "unpublished" => r \notin shown
                        /\ told[r] = "submitted" => r \in shown

(* After a complete review GitHub shows its findings and no others: as     *)
(* many open threads and body entries of an anchor as the report has       *)
(* findings there (reconciliation.ts, planFindingReconciliation). This is  *)
(* not said of a review that took the threads of a pending draft for open  *)
(* ones, nor once a thread is resolved by others or late (last).           *)
Shows(a) == Cardinality({i \in body : <<"semantic", a>> \in Tokens(i)})
          + Cardinality({t \in OpenThreads : <<"semantic", a>> \in Tokens(t)})
FindingsShown ==
    pc = "idle" /\ last.times > 0 =>
        /\ Cardinality(body) + Cardinality(OpenThreads)
              = Cardinality(last.report)
        /\ \A f \in last.report :
              Shows(f.anchor)
                = Cardinality({g \in last.report : g.anchor = f.anchor})

(* A report that two complete reviews in a row came to changes nothing     *)
(* when it comes again. Nor does a report that only finds the same on other *)
(* lines, among the same neighbours, if the threads are the ones the last  *)
(* report would open (reconciliation.ts, matchFindingIdentities).          *)
Quiet(p) == p.netNew = {} /\ p.obsolete = {} /\ ~p.bodyChanged
Moved(r, s) ==
    /\ \A f, g \in r : f.anchor = g.anchor /\ f # g => f.context # NoContext
    /\ \A f \in r, g \in s : f.line # g.line
    /\ \E m \in Bijection(r, s) :
          \A f \in r : m[f] = [f EXCEPT !.line = m[f].line]
IdentitiesOf(r) == {[fingerprint |-> Identity(f, r).fingerprint,
                     aliases |-> Identity(f, r).aliases] : f \in r}
SameFindingsAreQuiet ==
    [][pc = "threads" /\ pc' = "resolveHead" /\ ~touched' /\
       \/ last.times > 1 /\ last.report = found
       \/ /\ last.times > 0 /\ Moved(last.report, found) /\ body = {}
          /\ IdentitiesOf(last.report) =
                {[fingerprint |-> t.fingerprint, aliases |-> t.aliases] :
                    t \in OpenThreads}
       => Quiet(plan')]_vars
=============================================================================
