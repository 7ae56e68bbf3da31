--------------------------- MODULE PublicationProofs ---------------------------
(* What a review says of its draft stays true (ToldTruly), and after a      *)
(* complete review GitHub shows its findings and no others (FindingsShown), *)
(* for every number of reviews, faults and pushes and for every plan.       *)
(*                                                                          *)
(* A draft is published by its own submission or by one that is still on    *)
(* the wire. A review that says its draft is not published has therefore to *)
(* know that no submission of it is on the wire, or that the draft is gone  *)
(* and no creation on the wire brings it back (DraftInv).                   *)
(*                                                                          *)
(* The stages of a matching pair each finding with at most one identity of  *)
(* its own anchor, so that a plan accounts for every finding once: in the   *)
(* body, on a thread or to be published (PlanBalance).  That account is     *)
(* still right when the review concludes because no draft of another review *)
(* is published after the sweep has listed the drafts (InertInv, PlanInv).  *)
EXTENDS Publication, FiniteSetTheorems, WellFoundedInduction, TLAPS

(* Requests for the draft of review r that are on the wire, and whether    *)
(* the draft can still be published.                                       *)
OnWire(kind, r) == \E w \in wire : w.kind = kind /\ w.review.run = r
OffWire(r) == \A w \in wire : w.review.run # r
Safe(r) ==
    /\ r \notin shown
    /\ OnWire("submit", r) => draft.run # r /\ ~OnWire("create", r)
Absent(r) == r \notin shown /\ draft.run # r /\ OffWire(r)

Settling == pc \in {"delete", "readback"}
Before ==
    \/ pc \in {"model", "sweep", "bodies", "threads", "resolveHead", "resolve",
               "create"}
    \/ Settling /\ goal = "sweep"
Drafted == pc \in {"draftHead", "submit"}
Asking == pc = "unanswered" \/ (Settling /\ goal = "submission")

Types ==
    /\ pc \in Steps /\ run \in 0 .. MaxRuns
    /\ told \in [1 .. MaxRuns -> {"nothing", "submitted", "unpublished",
                                  "uncertain"}]
    /\ shown \subseteq 0 .. run /\ draft.run \in 0 .. run
    /\ \A w \in wire : w.review.run \in 0 .. run

Truth ==
    \A r \in 1 .. MaxRuns : /\ told[r] = "submitted" => r \in shown
                            /\ told[r] = "unpublished" => Safe(r)
                            /\ r > run => told[r] = "nothing"

(* What the step of a review says of its own draft.                        *)
Phase ==
    pc # "idle" =>
        /\ run # 0
        /\ told[run] = "submitted" => pc \in {"conclude", "doneHead",
                                              "dropFailure"}
        /\ told[run] \in {"nothing", "submitted"}
        /\ told[run] = "nothing" => Safe(run) \/ Asking
        /\ Before => Absent(run)
        /\ Drafted => run \notin shown /\ draft.run = run /\ OffWire(run)
        /\ Asking \/ pc = "rejected" => ~OnWire("create", run)
        /\ Settling /\ goal \notin {"sweep", "sweepOwn"} => target = run

DraftInv == Types /\ Truth /\ Phase

-----------------------------------------------------------------------------
LEMMA DraftInit == Init => DraftInv
  <1> SUFFICES ASSUME Init PROVE DraftInv
    OBVIOUS
  <1> USE BoundsAssumption
  <1>1. Types
    BY DEF Init, Types, Steps, NoDraft
  <1>2. Truth
    BY DEF Init, Truth
  <1> QED
    BY <1>1, <1>2 DEF DraftInv, Phase, Init

(* Nothing new is published, created or submitted.                         *)
Calm ==
    /\ run' = run /\ shown' = shown
    /\ draft' \in {draft, NoDraft}
    /\ \A w \in wire' : w \in wire \/ (w.kind = "delete" /\ w.review = draft)

LEMMA CalmTypes ==
    ASSUME Types, Calm
    PROVE  /\ run' \in 0 .. MaxRuns /\ shown' \subseteq 0 .. run'
           /\ draft'.run \in 0 .. run'
           /\ \A w \in wire' : w.review.run \in 0 .. run'
  <1>1. NoDraft.run = 0 /\ run \in Nat
    BY BoundsAssumption DEF NoDraft, Types
  <1>2. draft'.run \in 0 .. run'
    BY <1>1 DEF Calm, Types
  <1>3. ASSUME NEW w \in wire' PROVE w.review.run \in 0 .. run'
    BY <1>3 DEF Calm, Types
  <1> QED
    BY <1>2, <1>3 DEF Calm, Types

LEMMA CalmSafe ==
    ASSUME Calm, NEW r \in 1 .. MaxRuns, Safe(r) PROVE Safe(r)'
  <1>1. NoDraft.run # r
    BY BoundsAssumption DEF NoDraft
  <1>2. r \notin shown'
    BY DEF Calm, Safe
  <1>3. OnWire("submit", r)' => OnWire("submit", r)
    BY DEF Calm, OnWire
  <1>4. OnWire("create", r)' => OnWire("create", r)
    BY DEF Calm, OnWire
  <1>5. draft'.run = r => draft.run = r
    BY <1>1 DEF Calm
  <1> QED
    BY <1>2, <1>3, <1>4, <1>5 DEF Safe

LEMMA CalmAbsent ==
    ASSUME Calm, run \in 1 .. MaxRuns, Absent(run) PROVE Absent(run)'
  <1>1. NoDraft.run # run
    BY BoundsAssumption DEF NoDraft
  <1>2. ASSUME NEW w \in wire' PROVE w.review.run # run
    BY <1>2 DEF Calm, Absent, OffWire
  <1> QED
    BY <1>1, <1>2 DEF Calm, Absent, OffWire

LEMMA CalmNoCreation ==
    ASSUME Calm, ~OnWire("create", run) PROVE ~OnWire("create", run)'
  BY DEF Calm, OnWire

LEMMA AbsentIsSafe == ASSUME NEW r, Absent(r) PROVE Safe(r)
  BY DEF Absent, Safe, OnWire, OffWire

(* The number of a review under way.                                       *)
LEMMA RunTyped ==
    ASSUME DraftInv, pc # "idle" PROVE run \in 1 .. MaxRuns
  BY BoundsAssumption DEF DraftInv, Types, Phase

LEMMA EndKeeps ==
    ASSUME DraftInv, pc # "idle", Calm, NEW o, End(o),
           told[run] = "nothing" /\ o \notin {"uncertain", "crashed"}
              => Safe(run)
    PROVE  DraftInv'
  <1>1. run \in 1 .. MaxRuns
    BY RunTyped
  <1>2. told' \in [1 .. MaxRuns -> {"nothing", "submitted", "unpublished",
                                    "uncertain"}]
    BY <1>1 DEF DraftInv, Types, End, Tell
  <1>3. pc' = "idle" /\ "idle" \in Steps
    BY DEF End, Steps
  <1>4. Types'
    BY <1>2, <1>3, CalmTypes DEF Types, DraftInv
  <1>5. ASSUME NEW r \in 1 .. MaxRuns
        PROVE  /\ told'[r] = "submitted" => r \in shown'
               /\ told'[r] = "unpublished" => Safe(r)'
               /\ r > run' => told'[r] = "nothing"
    <2>1. CASE told'[r] = told[r]
      BY <2>1, CalmSafe DEF DraftInv, Truth, Calm
    <2>2. CASE told'[r] # told[r]
      <3>1. r = run /\ told[run] # "submitted"
        BY <1>1, <2>2 DEF End, Tell, DraftInv, Types
      <3>2. told[run] = "nothing"
        BY <3>1 DEF DraftInv, Phase
      <3>3. /\ told'[r] \in {"unpublished", "uncertain"}
            /\ told'[r] = "unpublished" => o \notin {"uncertain", "crashed"}
        BY <1>1, <3>1 DEF End, Tell, DraftInv, Types
      <3>4. ~(r > run')
        BY <3>1, <1>1, BoundsAssumption DEF Calm
      <3> QED
        BY <3>1, <3>2, <3>3, <3>4, CalmSafe
    <2> QED
      BY <2>1, <2>2
  <1>6. Truth'
    BY <1>5 DEF Truth
  <1> QED
    BY <1>3, <1>4, <1>6 DEF DraftInv, Phase

LEMMA TruthKeeps ==
    ASSUME DraftInv, Calm, told' = told PROVE Truth'
  BY CalmSafe DEF DraftInv, Truth, Calm

(* Conclusions are the only places where a review has been told that its   *)
(* draft is published.                                                     *)
Conclusions == {"conclude", "doneHead", "dropFailure"}

LEMMA SettleKeeps ==
    ASSUME DraftInv, pc \notin Conclusions \cup {"idle"}, Calm,
           NEW g, NEW r, Settle(g, r),
           g # "submission" => Safe(run)',
           g = "sweep" => Absent(run),
           g = "submission" => ~OnWire("create", run),
           g \notin {"sweep", "sweepOwn"} => r = run
    PROVE  DraftInv'
  <1>1. run \in 1 .. MaxRuns
    BY RunTyped DEF Conclusions
  <1>2. /\ pc' = "delete" /\ goal' = g /\ target' = r /\ told' = told
        /\ pc' \in Steps
    BY DEF Settle, Steps
  <1>3. told[run] = "nothing"
    BY DEF DraftInv, Phase, Conclusions
  <1>4. Types'
    BY <1>2, CalmTypes DEF DraftInv, Types
  <1>5. Absent(run) => Absent(run)'
    BY <1>1, CalmAbsent
  <1>6. ~OnWire("create", run) => ~OnWire("create", run)'
    BY CalmNoCreation
  <1>7. Phase'
    BY <1>1, <1>2, <1>3, <1>5, <1>6
    DEF Phase, Before, Settling, Drafted, Asking, Calm
  <1> QED
    BY <1>2, <1>4, <1>7, TruthKeeps DEF DraftInv

(* A step to a place of which Phase says no more than that the draft is    *)
(* safe or, before its creation, absent.                                   *)
Befores == {"model", "sweep", "bodies", "threads", "resolveHead", "resolve",
            "create"}
Elsewhere == Befores \cup Conclusions \cup {"sweepOwn"}

LEMMA GoKeeps ==
    ASSUME DraftInv, pc # "idle", Calm, NEW s \in Elsewhere, Go(s),
           told[run] = "submitted" => s \in Conclusions,
           told[run] = "nothing" => Safe(run)',
           s \in Befores => Absent(run)
    PROVE  DraftInv'
  <1>1. run \in 1 .. MaxRuns
    BY RunTyped
  <1>2. pc' = s /\ told' = told /\ s \in Steps
    BY DEF Go, Steps, Elsewhere, Befores, Conclusions
  <1>3. Types'
    BY <1>2, CalmTypes DEF DraftInv, Types
  <1>4. Absent(run) => Absent(run)'
    BY <1>1, CalmAbsent
  <1>5. told[run] \in {"nothing", "submitted"}
    BY DEF DraftInv, Phase
  <1>6. Phase'
    BY <1>1, <1>2, <1>4, <1>5
    DEF Phase, Before, Settling, Drafted, Asking, Calm, Elsewhere, Befores,
        Conclusions
  <1> QED
    BY <1>2, <1>3, <1>6, TruthKeeps DEF DraftInv

-----------------------------------------------------------------------------
(* The steps of a review.                                                  *)

LEMMA BeforeKeeps ==
    ASSUME DraftInv, Before, Calm,
           \/ \E s \in Befores \cup Conclusions : Go(s)
           \/ \E o : End(o)
           \/ \E r : Settle("sweep", r)
    PROVE  DraftInv'
  <1>1. pc \notin Conclusions \cup {"idle"}
    BY DEF Before, Settling, Conclusions
  <1>2. run \in 1 .. MaxRuns /\ Absent(run) /\ told[run] = "nothing"
    BY <1>1, RunTyped DEF DraftInv, Phase, Conclusions
  <1>3. Safe(run) /\ Safe(run)'
    BY <1>2, AbsentIsSafe, CalmSafe DEF Calm
  <1>4. ASSUME NEW s \in Befores \cup Conclusions, Go(s) PROVE DraftInv'
    BY <1>1, <1>2, <1>3, <1>4, GoKeeps DEF Elsewhere
  <1>5. ASSUME NEW o, End(o) PROVE DraftInv'
    BY <1>1, <1>3, <1>5, EndKeeps
  <1>6. ASSUME NEW r, Settle("sweep", r) PROVE DraftInv'
    BY <1>1, <1>2, <1>3, <1>6, SettleKeeps
  <1> QED
    BY <1>4, <1>5, <1>6

LEMMA ModelKeeps == ASSUME DraftInv, Model PROVE DraftInv'
  <1>1. Before /\ Calm /\ (Go("sweep") \/ End("stale"))
    BY DEF Model, Before, Calm, github
  <1> QED
    BY <1>1, BeforeKeeps DEF Befores

LEMMA SweepKeeps == ASSUME DraftInv, Sweep PROVE DraftInv'
  <1>1. Calm
    BY DEF Sweep, Calm, github, local
  <1>2. CASE pc = "sweep"
    <2>1. Before /\ (Settle("sweep", draft.run) \/ Go("bodies"))
      BY <1>2 DEF Sweep, Before
    <2> QED
      BY <1>1, <2>1, BeforeKeeps DEF Befores
  <1>3. CASE pc = "sweepOwn"
    <2>1. run \in 1 .. MaxRuns /\ Safe(run) /\ Safe(run)'
      BY <1>1, <1>3, RunTyped, CalmSafe
      DEF DraftInv, Phase, Asking, Settling, Calm
    <2>2. Settle("sweepOwn", draft.run) \/ End("failed")
      BY <1>3 DEF Sweep
    <2>3. CASE Settle("sweepOwn", draft.run)
      BY <1>1, <1>3, <2>1, <2>3, SettleKeeps DEF Conclusions
    <2>4. CASE End("failed")
      BY <1>1, <1>3, <2>1, <2>4, EndKeeps
    <2> QED
      BY <2>2, <2>3, <2>4
  <1> QED
    BY <1>2, <1>3 DEF Sweep

LEMMA PlanningKeeps ==
    ASSUME DraftInv, ReadBodies \/ Reconcile \/ ResolveHead \/ Resolve
    PROVE  DraftInv'
  <1>1. Before /\ Calm
    BY DEF ReadBodies, Reconcile, ResolveHead, Resolve, Before, Calm, github,
           local
  <1>2. \/ \E s \in Befores \cup Conclusions : Go(s)
        \/ \E o : End(o)
    BY DEF ReadBodies, Reconcile, ResolveHead, Resolve, Publication, Befores,
           Conclusions
  <1> QED
    BY <1>1, <1>2, BeforeKeeps

LEMMA ConcludingKeeps ==
    ASSUME DraftInv, Conclude \/ DoneHead \/ DropFailure
    PROVE  DraftInv'
  <1>1. pc \in Conclusions /\ Calm
    BY DEF Conclude, DoneHead, DropFailure, Conclusions, Calm, github, local
  <1>2. run \in 1 .. MaxRuns /\ (told[run] = "nothing" => Safe(run))
    BY <1>1, RunTyped DEF DraftInv, Phase, Conclusions, Asking, Settling
  <1>3. told[run] = "nothing" => Safe(run)'
    BY <1>1, <1>2, CalmSafe DEF Calm
  <1>4. \/ \E s \in Conclusions : Go(s)
        \/ \E o : End(o)
    BY DEF Conclude, DoneHead, DropFailure, Conclusions
  <1>5. ASSUME NEW s \in Conclusions, Go(s) PROVE DraftInv'
    BY <1>1, <1>3, <1>5, GoKeeps DEF Elsewhere, Befores, Conclusions
  <1>6. ASSUME NEW o, End(o) PROVE DraftInv'
    BY <1>1, <1>2, <1>6, EndKeeps DEF Conclusions
  <1> QED
    BY <1>4, <1>5, <1>6

(* Where a draft is, nothing on the wire can publish it.                   *)
LEMMA DraftedIsSafe ==
    ASSUME DraftInv, Drafted
    PROVE  /\ run \in 1 .. MaxRuns /\ Safe(run) /\ told[run] = "nothing"
           /\ run \notin shown /\ draft.run = run /\ OffWire(run)
  <1>1. pc \notin Conclusions \cup {"idle"}
    BY DEF Drafted, Conclusions
  <1> QED
    BY <1>1, RunTyped
    DEF DraftInv, Phase, Safe, OnWire, OffWire, Conclusions

LEMMA DraftHeadKeeps == ASSUME DraftInv, DraftHead PROVE DraftInv'
  <1>1. Calm /\ Drafted /\ pc \notin Conclusions \cup {"idle"}
    BY DEF DraftHead, Drafted, Calm, github, local, Conclusions
  <1>2. run \in 1 .. MaxRuns /\ Safe(run)'
    BY <1>1, DraftedIsSafe, CalmSafe DEF Calm
  <1>3. CASE Settle("stale", run)
    BY <1>1, <1>2, <1>3, SettleKeeps
  <1>4. CASE Go("submit")
    <2>1. /\ pc' = "submit" /\ told' = told /\ pc' \in Steps
      BY <1>4 DEF Go, Steps
    <2>2. Types' /\ Truth'
      BY <1>1, <2>1, CalmTypes, TruthKeeps DEF DraftInv, Types
    <2>3. UNCHANGED <<run, shown, draft, wire>>
      BY DEF DraftHead, github, local
    <2>4. Phase'
      BY <1>1, <1>2, <2>1, <2>3, DraftedIsSafe
      DEF Phase, Before, Settling, Drafted, Asking, OffWire
    <2> QED
      BY <2>2, <2>4 DEF DraftInv
  <1> QED
    BY <1>3, <1>4 DEF DraftHead

LEMMA BreakKeeps == ASSUME DraftInv, Break PROVE DraftInv'
  <1>1. Calm /\ pc # "idle"
    BY DEF Break, Fault, Spend, Calm, local
  <1>2. CASE Drafted
    <2>1. Settle("cleanup", run) /\ pc \notin Conclusions \cup {"idle"}
      BY <1>2 DEF Break, Drafted, Conclusions
    <2>2. Safe(run)'
      BY <1>1, <1>2, DraftedIsSafe, CalmSafe DEF Calm
    <2> QED
      BY <1>1, <2>1, <2>2, SettleKeeps
  <1>3. CASE ~Drafted
    <2>1. End("failed") /\ ~Asking
      BY <1>3 DEF Break, Drafted, Asking, Settling
    <2>2. told[run] = "nothing" => Safe(run)
      BY <1>1, <2>1 DEF DraftInv, Phase
    <2> QED
      BY <1>1, <2>1, <2>2, EndKeeps
  <1> QED
    BY <1>2, <1>3

LEMMA CrashKeeps == ASSUME DraftInv, Crash PROVE DraftInv'
  <1>1. Calm /\ pc # "idle" /\ End("crashed")
    BY DEF Crash, Calm, github, local
  <1> QED
    BY <1>1, EndKeeps

(* The review that starts has told nobody anything and made nothing.       *)
LEMMA StartKeeps == ASSUME DraftInv, Start PROVE DraftInv'
  <1> USE BoundsAssumption
  <1>1. /\ run \in 0 .. MaxRuns /\ run < MaxRuns /\ run' = run + 1
        /\ pc' = "model" /\ "model" \in Steps
        /\ UNCHANGED <<draft, shown, wire, told>>
    BY DEF Start, Spend, DraftInv, Types, Steps
  <1>2. Types'
    BY <1>1 DEF DraftInv, Types
  <1>3. \A r \in 1 .. MaxRuns : Safe(r)' <=> Safe(r)
    BY <1>1 DEF Safe, OnWire
  <1>4. Truth'
    BY <1>1, <1>3 DEF DraftInv, Truth
  <1>5. Absent(run)'
    BY <1>1 DEF DraftInv, Types, Absent, OffWire
  <1>6. Safe(run)'
    BY <1>5 DEF Absent, Safe, OnWire, OffWire
  <1>7. run' \in 1 .. MaxRuns /\ told'[run'] = "nothing"
    BY <1>1 DEF DraftInv, Truth
  <1>8. Phase'
    BY <1>1, <1>5, <1>6, <1>7
    DEF Phase, Before, Settling, Drafted, Asking
  <1> QED
    BY <1>2, <1>4, <1>8 DEF DraftInv

(* A request on the wire takes effect.                                     *)
LEMMA CarriedTypes ==
    ASSUME Types, CarryOut PROVE Types'
  <1>1. PICK w \in wire : wire' = wire \ {w} /\ TakesEffect(w)
    BY DEF CarryOut
  <1>2. NoDraft.run = 0 /\ run \in Nat
    BY BoundsAssumption DEF NoDraft, Types
  <1>3. \/ draft' \in {draft, w.review, NoDraft} /\ shown' = shown
        \/ draft' = NoDraft /\ shown' = shown \cup {draft.run}
    BY <1>1 DEF TakesEffect, CreateDraft, Unpublished, Publish
  <1>5. draft.run \in 0 .. run /\ w.review.run \in 0 .. run
        /\ shown \subseteq 0 .. run
    BY <1>1 DEF Types
  <1>6. draft'.run \in 0 .. run
    <2>1. draft' \in {draft, w.review, NoDraft}
      BY <1>3
    <2> QED
      BY <1>2, <1>5, <2>1
  <1>7. shown' \subseteq 0 .. run
    BY <1>3, <1>5
  <1>4. UNCHANGED <<pc, run, told>>
    BY DEF CarryOut, local
  <1> QED
    BY <1>1, <1>4, <1>6, <1>7 DEF Types

LEMMA CarriedSafe ==
    ASSUME CarryOut, NEW r \in 1 .. MaxRuns, Safe(r) PROVE Safe(r)'
  <1>1. PICK w \in wire : wire' = wire \ {w} /\ TakesEffect(w)
    BY DEF CarryOut
  <1>2. NoDraft.run # r
    BY BoundsAssumption DEF NoDraft
  <1>3. wire' \subseteq wire
    BY <1>1
  <1>4. ASSUME OnWire("submit", r)' PROVE draft.run # r /\ ~OnWire("create", r)
    BY <1>3, <1>4 DEF OnWire, Safe
  <1>5. ~OnWire("create", r) => ~OnWire("create", r)'
    BY <1>3 DEF OnWire
  <1>6. CASE w.kind = "create" /\ CreateDraft(w.review) /\ Unpublished
    <2>1. ~OnWire("create", r) => w.review.run # r
      BY <1>6 DEF OnWire
    <2>2. OnWire("submit", r)' => draft'.run # r
      BY <1>4, <1>6, <2>1 DEF CreateDraft
    <2> QED
      BY <1>4, <1>5, <1>6, <2>2 DEF Safe, Unpublished
  <1>7. CASE w.kind = "submit" /\ draft = w.review /\ Publish(draft)
    <2>1. draft.run # r
      BY <1>7 DEF Safe, OnWire
    <2> QED
      BY <1>2, <1>4, <1>5, <1>7, <2>1 DEF Safe, Publish
  <1>8. CASE /\ w.kind = "delete" /\ draft = w.review
             /\ draft' = NoDraft /\ Unpublished
    BY <1>2, <1>4, <1>5, <1>8 DEF Safe, Unpublished
  <1> QED
    BY <1>1, <1>6, <1>7, <1>8 DEF TakesEffect

LEMMA CarriedAbsent ==
    ASSUME CarryOut, run \in 1 .. MaxRuns, Absent(run) PROVE Absent(run)'
  <1>1. PICK w \in wire : wire' = wire \ {w} /\ TakesEffect(w)
    BY DEF CarryOut
  <1>2. NoDraft.run # run /\ w.review.run # run
    BY BoundsAssumption DEF NoDraft, Absent, OffWire
  <1>3. run' = run /\ wire' \subseteq wire
    BY <1>1 DEF CarryOut, local
  <1>4. run \notin shown' /\ draft'.run # run
    BY <1>1, <1>2
    DEF Absent, TakesEffect, CreateDraft, Unpublished, Publish
  <1> QED
    BY <1>3, <1>4 DEF Absent, OffWire

LEMMA CarriedDrafted ==
    ASSUME CarryOut, run \in 1 .. MaxRuns, run \notin shown,
           draft.run = run, OffWire(run)
    PROVE  run \notin shown' /\ draft'.run = run /\ OffWire(run)'
  <1>1. PICK w \in wire : wire' = wire \ {w} /\ TakesEffect(w)
    BY DEF CarryOut
  <1>2. draft # NoDraft /\ draft # w.review
    BY BoundsAssumption DEF NoDraft, OffWire
  <1>3. run' = run /\ wire' \subseteq wire
    BY <1>1 DEF CarryOut, local
  <1> QED
    BY <1>1, <1>2, <1>3 DEF TakesEffect, CreateDraft, Unpublished, OffWire

LEMMA CarryOutKeeps == ASSUME DraftInv, CarryOut PROVE DraftInv'
  <1>1. /\ UNCHANGED <<pc, run, told, goal, target>> /\ wire' \subseteq wire
    BY DEF CarryOut, local, settling
  <1>2. Types'
    BY CarriedTypes DEF DraftInv
  <1>3. ASSUME NEW r \in 1 .. MaxRuns, r \in shown PROVE r \in shown'
    BY <1>3 DEF CarryOut, TakesEffect, Unpublished, Publish
  <1>4. Truth'
    BY <1>1, <1>3, CarriedSafe DEF DraftInv, Truth
  <1>5. ASSUME pc = "idle" PROVE Phase'
    <2>1. pc' = "idle"
      BY <1>1, <1>5
    <2> QED
      BY <2>1 DEF Phase
  <1>6. ASSUME pc # "idle" PROVE Phase'
    <2>1. run \in 1 .. MaxRuns
      BY <1>6, RunTyped
    <2>2. Before' = Before /\ Drafted' = Drafted /\ Asking' = Asking
      BY <1>1 DEF Before, Drafted, Asking, Settling
    <2>3. /\ Safe(run) => Safe(run)'
          /\ Absent(run) => Absent(run)'
      BY <1>1, <2>1, CarriedSafe, CarriedAbsent
    <2>4. ~OnWire("create", run) => ~OnWire("create", run)'
      BY <1>1 DEF OnWire
    <2>5. Drafted => run \notin shown' /\ draft'.run = run /\ OffWire(run)'
      BY <1>6, <2>1, CarriedDrafted DEF DraftInv, Phase
    <2> QED
      BY <1>1, <1>6, <2>1, <2>2, <2>3, <2>4, <2>5
      DEF DraftInv, Phase, Settling
  <1> QED
    BY <1>2, <1>4, <1>5, <1>6 DEF DraftInv

-----------------------------------------------------------------------------
(* The steps that create and publish the draft.                            *)

LEMMA CreateKeeps == ASSUME DraftInv, Create PROVE DraftInv'
  <1>1. /\ pc = "create" /\ Before /\ pc \notin Conclusions \cup {"idle"}
        /\ UNCHANGED <<run, shown>>
    BY DEF Create, Before, Conclusions, local
  <1>2. /\ run \in 1 .. MaxRuns /\ Absent(run) /\ told[run] = "nothing"
        /\ Payload.run = run
    BY <1>1, RunTyped DEF DraftInv, Phase, Conclusions, Payload
  <1>3. ASSUME Go("draftHead"), draft' = Payload, wire' = wire
        PROVE  DraftInv'
    <2>1. /\ pc' = "draftHead" /\ pc' \in Steps /\ told' = told
      BY <1>3 DEF Go, Steps
    <2>2. Types'
      BY <1>1, <1>2, <1>3, <2>1 DEF DraftInv, Types
    <2>3. run \notin shown' /\ draft'.run = run /\ OffWire(run)'
      BY <1>1, <1>2, <1>3 DEF Absent, OffWire
    <2>4. Safe(run)'
      BY <1>1, <2>3 DEF Safe, OnWire, OffWire
    <2>5. ASSUME NEW r \in 1 .. MaxRuns, Safe(r) PROVE Safe(r)'
      <3>1. CASE r = run
        BY <1>1, <2>4, <3>1
      <3>2. CASE r # run
        BY <1>1, <1>2, <1>3, <2>5, <3>2 DEF Safe, OnWire
      <3> QED
        BY <3>1, <3>2
    <2>6. Truth'
      BY <1>1, <2>1, <2>5 DEF DraftInv, Truth
    <2>7. Phase'
      BY <1>1, <1>2, <2>1, <2>3, <2>4
      DEF Phase, Before, Settling, Drafted, Asking
    <2> QED
      BY <2>2, <2>6, <2>7 DEF DraftInv
  <1>4. ASSUME Go("sweepOwn"), draft' = draft,
               wire' = wire
                 \/ wire' = wire \cup {[kind |-> "create", review |-> Payload]}
        PROVE  DraftInv'
    <2>1. /\ pc' = "sweepOwn" /\ pc' \in Steps /\ told' = told
      BY <1>4 DEF Go, Steps
    <2>2. ASSUME NEW w \in wire'
          PROVE  w \in wire \/ (w.kind = "create" /\ w.review.run = run)
      BY <1>2, <1>4
    <2>3. Types'
      BY <1>1, <1>2, <1>4, <2>1, <2>2 DEF DraftInv, Types
    <2>4. Safe(run)'
      BY <1>1, <1>2, <2>2 DEF Absent, Safe, OnWire, OffWire
    <2>5. ASSUME NEW r \in 1 .. MaxRuns, Safe(r) PROVE Safe(r)'
      <3>1. CASE r = run
        BY <1>1, <2>4, <3>1
      <3>2. CASE r # run
        <4>1. /\ OnWire("submit", r)' => OnWire("submit", r)
              /\ OnWire("create", r)' => OnWire("create", r)
          BY <2>2, <3>2 DEF OnWire
        <4> QED
          BY <1>1, <1>4, <2>5, <4>1 DEF Safe
      <3> QED
        BY <3>1, <3>2
    <2>6. Truth'
      BY <1>1, <2>1, <2>5 DEF DraftInv, Truth
    <2>7. Phase'
      BY <1>1, <1>2, <2>1, <2>4
      DEF Phase, Before, Settling, Drafted, Asking
    <2> QED
      BY <2>3, <2>6, <2>7 DEF DraftInv
  <1>5. \/ Go("draftHead") /\ draft' = Payload /\ wire' = wire
        \/ /\ Go("sweepOwn") /\ draft' = draft
           /\ \/ wire' = wire
              \/ wire' = wire \cup {[kind |-> "create", review |-> Payload]}
    BY DEF Create, CreateDraft, Answered, Unanswered
  <1> QED
    BY <1>3, <1>4, <1>5

(* The review learns that its draft is published.                          *)
LEMMA SubmittedKeeps ==
    ASSUME DraftInv, pc \notin Conclusions \cup {"idle"}, Submitted,
           UNCHANGED <<run, wire>>, run \in shown', shown \subseteq shown',
           Types, shown' \subseteq 0 .. run, draft'.run \in 0 .. run,
           \A r \in 1 .. MaxRuns : r # run /\ Safe(r) => Safe(r)'
    PROVE  DraftInv'
  <1>1. run \in 1 .. MaxRuns
    BY RunTyped DEF Conclusions
  <1>2. /\ pc' = "conclude" /\ pc' \in Steps
        /\ told' = [told EXCEPT ![run] = "submitted"]
    BY DEF Submitted, Tell, Steps
  <1>3. /\ told' \in [1 .. MaxRuns -> {"nothing", "submitted", "unpublished",
                                       "uncertain"}]
        /\ told'[run] = "submitted"
        /\ \A r \in 1 .. MaxRuns : r # run => told'[r] = told[r]
    BY <1>1, <1>2 DEF Types
  <1>4. Types'
    BY <1>1, <1>2, <1>3 DEF Types
  <1>5. ASSUME NEW r \in 1 .. MaxRuns
        PROVE  /\ told'[r] = "submitted" => r \in shown'
               /\ told'[r] = "unpublished" => Safe(r)'
               /\ r > run' => told'[r] = "nothing"
    <2>1. CASE r = run
      BY <1>1, <1>3, <2>1
    <2>2. CASE r # run
      BY <1>3, <2>2 DEF DraftInv, Truth
    <2> QED
      BY <2>1, <2>2
  <1>6. Truth'
    BY <1>5 DEF Truth
  <1>7. Phase'
    BY <1>1, <1>2, <1>3 DEF Phase, Before, Settling, Drafted, Asking
  <1> QED
    BY <1>4, <1>6, <1>7 DEF DraftInv

LEMMA SubmitKeeps == ASSUME DraftInv, Submit PROVE DraftInv'
  <1>1. /\ Drafted /\ pc = "submit" /\ pc \notin Conclusions \cup {"idle"}
        /\ run' = run
    BY DEF Submit, Drafted, Conclusions, local
  <1>2. /\ run \in 1 .. MaxRuns /\ told[run] = "nothing" /\ run \notin shown
        /\ draft.run = run /\ OffWire(run) /\ Payload.run = run /\ Safe(run)
    BY <1>1, DraftedIsSafe DEF Payload
  <1>3. ASSUME Answered, Publish(draft), Submitted PROVE DraftInv'
    <2>1. shown' = shown \cup {run} /\ draft' = NoDraft /\ wire' = wire
      BY <1>2, <1>3 DEF Publish, Answered
    <2>2. NoDraft.run = 0
      BY DEF NoDraft
    <2>3. ASSUME NEW r \in 1 .. MaxRuns, r # run, Safe(r) PROVE Safe(r)'
      BY <2>1, <2>2, <2>3 DEF Safe, OnWire
    <2>4. Types /\ shown' \subseteq 0 .. run /\ draft'.run \in 0 .. run
      BY <1>2, <2>1, <2>2, BoundsAssumption DEF DraftInv, Types
    <2> QED
      BY <1>1, <1>3, <2>1, <2>3, <2>4, SubmittedKeeps
  <1>4. ASSUME Go("rejected"), UNCHANGED <<wire, draft, shown>> PROVE DraftInv'
    <2>1. Calm /\ pc' = "rejected" /\ told' = told /\ pc' \in Steps
      BY <1>1, <1>4 DEF Calm, Go, Steps
    <2>2. Types' /\ Truth'
      BY <2>1, CalmTypes, TruthKeeps DEF DraftInv, Types
    <2>3. Safe(run)' /\ ~OnWire("create", run)'
      BY <1>1, <1>2, <1>4 DEF Safe, OnWire, OffWire
    <2>4. Phase'
      BY <1>1, <1>2, <2>1, <2>3
      DEF Phase, Before, Settling, Drafted, Asking
    <2> QED
      BY <2>2, <2>4 DEF DraftInv
  <1>5. ASSUME Go("unanswered"), UNCHANGED <<draft, shown>>,
               wire' = wire \cup {[kind |-> "submit", review |-> Payload]}
        PROVE  DraftInv'
    <2>1. pc' = "unanswered" /\ told' = told /\ pc' \in Steps
      BY <1>5 DEF Go, Steps
    <2>2. ASSUME NEW w \in wire'
          PROVE  w \in wire \/ (w.kind = "submit" /\ w.review.run = run)
      BY <1>2, <1>5
    <2>3. Types'
      BY <1>1, <1>2, <1>5, <2>1, <2>2 DEF DraftInv, Types
    <2>4. ~OnWire("create", run)'
      BY <1>1, <1>2, <2>2 DEF OnWire, OffWire
    <2>5. ASSUME NEW r \in 1 .. MaxRuns, r # run, Safe(r) PROVE Safe(r)'
      <3>1. /\ OnWire("submit", r)' => OnWire("submit", r)
            /\ OnWire("create", r)' => OnWire("create", r)
        BY <2>2, <2>5 DEF OnWire
      <3> QED
        BY <1>5, <2>5, <3>1 DEF Safe
    <2>6. Truth'
      BY <1>1, <1>2, <1>5, <2>1, <2>5 DEF DraftInv, Truth
    <2>7. Phase'
      BY <1>1, <1>2, <2>1, <2>4
      DEF Phase, Before, Settling, Drafted, Asking
    <2> QED
      BY <2>3, <2>6, <2>7 DEF DraftInv
  <1> QED
    BY <1>3, <1>4, <1>5 DEF Submit, Unanswered

-----------------------------------------------------------------------------
(* The readback and the settlement.                                        *)

LEMMA ReadSubmissionKeeps == ASSUME DraftInv, ReadSubmission PROVE DraftInv'
  <1>1. /\ Calm /\ UNCHANGED <<run, draft, shown, wire>>
        /\ pc \in {"rejected", "unanswered"}
        /\ pc \notin Conclusions \cup {"idle"}
    BY DEF ReadSubmission, Calm, github, local, Conclusions
  <1>2. /\ run \in 1 .. MaxRuns /\ ~OnWire("create", run)
        /\ told[run] = "nothing"
    BY <1>1, RunTyped DEF DraftInv, Phase, Asking, Conclusions
  <1>3. CASE run \in shown /\ Submitted
    <2>1. /\ Types /\ shown' \subseteq 0 .. run /\ draft'.run \in 0 .. run
          /\ run \in shown' /\ shown \subseteq shown'
      BY <1>1, <1>3 DEF DraftInv, Types
    <2>2. \A r \in 1 .. MaxRuns : Safe(r) => Safe(r)'
      BY <1>1, CalmSafe
    <2> QED
      BY <1>1, <1>3, <2>1, <2>2, SubmittedKeeps
  <1>4. CASE pc = "rejected" /\ Settle("cleanup", run)
    <2>1. Safe(run)
      BY <1>2, <1>4 DEF DraftInv, Phase, Asking, Settling
    <2>2. Safe(run)'
      BY <1>1, <1>2, <2>1, CalmSafe
    <2> QED
      BY <1>1, <1>4, <2>2, SettleKeeps
  <1>5. CASE Settle("submission", run)
    BY <1>1, <1>2, <1>5, SettleKeeps
  <1>6. \/ run \in shown /\ Submitted
        \/ pc = "rejected" /\ Settle("cleanup", run)
        \/ Settle("submission", run)
    BY DEF ReadSubmission
  <1> QED
    BY <1>3, <1>4, <1>5, <1>6

(* What is known while a draft is being settled.                           *)
LEMMA SettlingFacts ==
    ASSUME DraftInv, Settling
    PROVE  /\ pc \notin Conclusions \cup {"idle"} /\ run \in 1 .. MaxRuns
           /\ told[run] = "nothing"
           /\ goal = "sweep" => Absent(run)
           /\ goal # "submission" => Safe(run)
           /\ goal = "submission" => ~OnWire("create", run) /\ target = run
  <1>1. pc \notin Conclusions \cup {"idle"}
    BY DEF Settling, Conclusions
  <1>2. pc # "unanswered"
    BY DEF Settling
  <1> QED
    BY <1>1, <1>2, RunTyped
    DEF DraftInv, Phase, Before, Asking, Conclusions

LEMMA AgainKeeps ==
    ASSUME DraftInv, Settling, Calm, pc' \in {"delete", "readback"},
           UNCHANGED <<goal, target, told>>
    PROVE  DraftInv'
  <1>1. pc' \in Steps
    BY DEF Steps
  <1>2. Types' /\ Truth'
    BY <1>1, CalmTypes, TruthKeeps DEF DraftInv, Types
  <1>3. /\ Safe(run) => Safe(run)'
        /\ Absent(run) => Absent(run)'
        /\ ~OnWire("create", run) => ~OnWire("create", run)'
        /\ run' = run
    BY SettlingFacts, CalmSafe, CalmAbsent, CalmNoCreation DEF Calm
  <1>4. goal \notin {"sweep", "sweepOwn"} => target = run
    BY SettlingFacts DEF DraftInv, Phase
  <1>5. Phase'
    BY <1>3, <1>4, SettlingFacts
    DEF Phase, Before, Settling, Drafted, Asking
  <1> QED
    BY <1>2, <1>5 DEF DraftInv

LEMMA RemovedKeeps ==
    ASSUME DraftInv, Settling, Calm, Removed,
           goal = "submission" => Safe(run)'
    PROVE  DraftInv'
  <1>1. Safe(run)'
    BY SettlingFacts, CalmSafe DEF Calm
  <1>2. CASE goal = "sweep" /\ Go("bodies")
    BY <1>1, <1>2, SettlingFacts, GoKeeps DEF Elsewhere, Befores
  <1>3. CASE goal = "submission" /\ Settle("cleanup", run)
    BY <1>1, <1>3, SettlingFacts, SettleKeeps
  <1>4. CASE goal # "submission" /\ (End("stale") \/ End("failed"))
    BY <1>4, SettlingFacts, EndKeeps
  <1> QED
    BY <1>2, <1>3, <1>4 DEF Removed

LEMMA DeleteKeeps == ASSUME DraftInv, Delete PROVE DraftInv'
  <1>1. Settling /\ UNCHANGED <<run, shown>>
    BY DEF Delete, Settling, local
  <1>2. ASSUME Go("readback"), draft' = draft,
               \A w \in wire' :
                  w \in wire \/ (w.kind = "delete" /\ w.review = draft)
        PROVE  DraftInv'
    <2>1. /\ Calm /\ pc' \in {"delete", "readback"}
          /\ UNCHANGED <<goal, target, told>>
      BY <1>1, <1>2 DEF Calm, Go, settling
    <2> QED
      BY <1>1, <2>1, AgainKeeps
  <1>3. ASSUME target \notin shown, Removed, wire' = wire,
               draft' = IF draft.run = target THEN NoDraft ELSE draft
        PROVE  DraftInv'
    <2>1. Calm
      BY <1>1, <1>3 DEF Calm
    <2>2. run \in 1 .. MaxRuns /\ NoDraft.run # run
      BY <1>1, SettlingFacts, BoundsAssumption DEF NoDraft
    <2>3. ASSUME goal = "submission" PROVE Safe(run)'
      <3>1. target = run /\ ~OnWire("create", run)
        BY <1>1, <2>3, SettlingFacts
      <3>2. draft'.run # run
        BY <1>3, <2>2, <3>1
      <3>3. ~OnWire("create", run)'
        BY <2>1, <3>1, CalmNoCreation
      <3> QED
        BY <1>1, <1>3, <3>1, <3>2, <3>3 DEF Safe
    <2> QED
      BY <1>1, <1>3, <2>1, <2>3, RemovedKeeps
  <1>4. \/ Go("readback") /\ draft' = draft /\ wire' = wire
        \/ /\ target \notin shown /\ Removed /\ wire' = wire
           /\ draft' = IF draft.run = target THEN NoDraft ELSE draft
        \/ /\ Go("readback") /\ draft' = draft
           /\ wire' = wire \cup {[kind |-> "delete", review |-> d] :
                                    d \in {e \in {draft} : e.run = target}}
    BY DEF Delete, Answered
  <1> QED
    BY <1>2, <1>3, <1>4

LEMMA ReadbackKeeps == ASSUME DraftInv, Readback PROVE DraftInv'
  <1>1. /\ Settling /\ Calm /\ UNCHANGED <<run, draft, shown, wire>>
    BY DEF Readback, Settling, Calm, github, local
  <1>2. CASE target \in shown /\ goal = "submission" /\ Submitted
    <2>1. run \in shown
      BY <1>1, <1>2, SettlingFacts
    <2>2. /\ Types /\ shown' \subseteq 0 .. run /\ draft'.run \in 0 .. run
          /\ run \in shown' /\ shown \subseteq shown'
      BY <1>1, <2>1 DEF DraftInv, Types
    <2>3. \A r \in 1 .. MaxRuns : Safe(r) => Safe(r)'
      BY <1>1, CalmSafe
    <2> QED
      BY <1>1, <1>2, <2>2, <2>3, SettlingFacts, SubmittedKeeps
  <1>3. CASE goal # "submission" /\ Removed
    BY <1>1, <1>3, RemovedKeeps
  <1>4. CASE pc' = "delete" /\ UNCHANGED <<goal, target, told>>
    BY <1>1, <1>4, AgainKeeps
  <1>5. CASE End("uncertain") \/ (goal # "submission" /\ End("failed"))
    BY <1>1, <1>5, SettlingFacts, EndKeeps
  <1> QED
    BY <1>2, <1>3, <1>4, <1>5 DEF Readback, Published, Again, Uncertain

-----------------------------------------------------------------------------
LEMMA OthersKeep ==
    ASSUME DraftInv,
           UNCHANGED <<pc, run, draft, wire, shown, told, goal, target>>
    PROVE  DraftInv'
  BY DEF DraftInv, Types, Truth, Phase, Safe, Absent, OnWire, OffWire, Before,
         Settling, Drafted, Asking

LEMMA DraftNext == DraftInv /\ [Next]_vars => DraftInv'
  <1> SUFFICES ASSUME DraftInv, [Next]_vars PROVE DraftInv'
    OBVIOUS
  <1>1. CASE Start
    BY <1>1, StartKeeps
  <1>2. CASE ReviewStep
    BY <1>2, ModelKeeps, SweepKeeps, PlanningKeeps, CreateKeeps, DraftHeadKeeps,
       SubmitKeeps, ReadSubmissionKeeps, DeleteKeeps, ReadbackKeeps,
       ConcludingKeeps, BreakKeeps, CrashKeeps
    DEF ReviewStep
  <1>3. CASE CarryOut
    BY <1>3, CarryOutKeeps
  <1>4. CASE Push \/ Dismiss \/ CloseLate \/ Over \/ UNCHANGED vars
    <2>1. UNCHANGED <<pc, run, draft, wire, shown, told, goal, target>>
      BY <1>4
      DEF Push, Dismiss, CloseLate, Aside, Over, vars, github, local, settling
    <2> QED
      BY <2>1, OthersKeep
  <1> QED
    BY <1>1, <1>2, <1>3, <1>4 DEF Next

(* What every review knows of its draft, step by step.                     *)
THEOREM DraftInvariance == Spec => []DraftInv
  BY DraftInit, DraftNext, PTL DEF Spec

(* A review that was told its draft is published is right, and one that    *)
(* told its caller it is not stays right, whatever GitHub still carries    *)
(* out of the requests that got no answer.                                 *)
THEOREM ReviewsTellTheTruth == Spec => []ToldTruly
  <1>1. DraftInv => ToldTruly
    <2> SUFFICES ASSUME DraftInv, NEW r \in 1 .. run
                 PROVE  /\ told[r] = "unpublished" => r \notin shown
                        /\ told[r] = "submitted" => r \in shown
      BY DEF ToldTruly
    <2>1. r \in 1 .. MaxRuns
      BY BoundsAssumption DEF DraftInv, Types
    <2> QED
      BY <2>1 DEF DraftInv, Truth, Safe
  <1> QED
    BY <1>1, DraftInvariance, PTL

-----------------------------------------------------------------------------
(* The type invariant                                                      *)

Kinds == {"create", "submit", "delete"}
Goals == {"none", "sweep", "sweepOwn", "submission", "cleanup", "stale"}

(* GitHub appends threads to a sequence, as the new findings of a draft    *)
(* are finitely many, so that a plan resolves threads by their numbers,    *)
(* and one that was published is there when a resolution takes effect.     *)
(* What is submitted is the draft of a review that has begun.              *)
Listed(s) == \E S : s \in Seq(S)
Fields == {"netNew", "obsolete", "body", "bodyChanged"}
Ranges == goal \in Goals /\ target \in 0 .. run /\ attempt \in 0 .. 2
Requests ==
    \A w \in wire : /\ w.kind \in Kinds
                    /\ w.kind = "submit" => w.review.run # 0
                    /\ IsFiniteSet(w.review.netNew)
Findings ==
    /\ IsFiniteSet(found) /\ IsFiniteSet(draft.netNew)
    /\ IsFiniteSet(plan.netNew) /\ DOMAIN plan = Fields
Targets ==
    /\ Listed(threads) /\ plan.obsolete \subseteq Nat
    /\ closing \subseteq DOMAIN threads

Shape == Ranges /\ Requests /\ Findings /\ Targets /\ 0 \notin shown

LEMMA ImageFinite ==
    ASSUME NEW S, NEW T, IsFiniteSet(S), NEW f \in [S -> T],
           \A t \in T : \E s \in S : f[s] = t
    PROVE  IsFiniteSet(T)
  <1>1. f \in Surjection(S, T)
    BY DEF Surjection
  <1> QED
    BY <1>1, FS_Surjection

LEMMA SetToSeqListed ==
    ASSUME NEW S, IsFiniteSet(S) PROVE SetToSeq(S) \in Seq(S)
  <1>1. Cardinality(S) \in Nat /\ ExistsBijection(1 .. Cardinality(S), S)
    BY FS_CardinalityType
  <1>2. PICK f \in [1 .. Cardinality(S) -> S] : IsInjective(f)
    BY <1>1 DEF ExistsBijection, Bijection, Injection, IsInjective
  <1>3. SetToSeq(S) \in [1 .. Cardinality(S) -> S]
    BY <1>2 DEF SetToSeq
  <1> QED
    BY <1>1, <1>3

LEMMA ConcatListed ==
    ASSUME NEW s, NEW t, Listed(s), Listed(t)
    PROVE  Listed(s \o t) /\ DOMAIN s \subseteq DOMAIN (s \o t)
  <1>1. PICK S : s \in Seq(S)
    BY DEF Listed
  <1>2. PICK T : t \in Seq(T)
    BY DEF Listed
  <1>3. s \in Seq(S \cup T) /\ t \in Seq(S \cup T)
    BY <1>1, <1>2
  <1>4. s \o t \in Seq(S \cup T) /\ Len(s \o t) = Len(s) + Len(t)
        /\ Len(s) \in Nat /\ Len(t) \in Nat
    BY <1>3
  <1>5. DOMAIN s = 1 .. Len(s) /\ DOMAIN (s \o t) = 1 .. Len(s \o t)
    BY <1>3, <1>4
  <1> QED
    BY <1>4, <1>5 DEF Listed

LEMMA CloseListed ==
    ASSUME NEW s, NEW i, Listed(s)
    PROVE  /\ Listed([s EXCEPT ![i].open = FALSE])
           /\ DOMAIN [s EXCEPT ![i].open = FALSE] = DOMAIN s
  <1>1. PICK S : s \in Seq(S)
    BY DEF Listed
  <1> DEFINE e == [s[i] EXCEPT !.open = FALSE]
             r == [s EXCEPT ![i] = e]
  <1>2. DOMAIN s = 1 .. Len(s) /\ Len(s) \in Nat
    BY <1>1
  <1>3. \A j \in DOMAIN s : s[j] \in S
    BY <1>1
  <1> HIDE DEF e
  <1>4. r \in [1 .. Len(s) -> S \cup {e}]
    BY <1>2, <1>3
  <1>5. DOMAIN r = DOMAIN s
    OBVIOUS
  <1> DEFINE n == Len(s)
             T == S \cup {e}
  <1> HIDE DEF r, n, T
  <1>6. r \in [1 .. n -> T] /\ n \in Nat
    BY <1>2, <1>4 DEF n, T
  <1>7. r \in Seq(T)
    BY <1>6
  <1>8. Listed(r)
    BY <1>7 DEF Listed
  <1> QED
    BY <1>5, <1>8 DEF r, e

-----------------------------------------------------------------------------
(* Resolving a thread, whatever its number.                                *)
LEMMA Closes ==
    ASSUME Listed(threads), NEW t, Close(t)
    PROVE  threads' = [threads EXCEPT ![t].open = FALSE]
  <1>1. PICK S : threads \in Seq(S)
    BY DEF Listed
  <1>2. CASE t \notin DOMAIN threads
    <2> DEFINE e == [threads[t] EXCEPT !.open = FALSE]
    <2>1. threads \in [DOMAIN threads -> S]
      BY <1>1
    <2> HIDE DEF e
    <2>2. [threads EXCEPT ![t] = e] = threads
      BY <1>2, <2>1
    <2> QED
      BY <1>2, <2>2 DEF Close, e
  <1> QED
    BY <1>2 DEF Close

(* The threads of a draft, which a plan may have been made from.           *)
LEMMA DraftListed ==
    ASSUME NEW d, IsFiniteSet(d.netNew) PROVE Listed(ThreadsOf(d))
  <1> DEFINE open(i) == [fingerprint |-> i.fingerprint, aliases |-> i.aliases,
                         open |-> TRUE]
             S == {open(i) : i \in d.netNew}
             g == [i \in d.netNew |-> open(i)]
  <1>1. ThreadsOf(d) = SetToSeq(S)
    BY DEF ThreadsOf
  <1> HIDE DEF open
  <1>2. g \in [d.netNew -> S] /\ \A t \in S : \E i \in d.netNew : g[i] = t
    OBVIOUS
  <1> HIDE DEF S, g
  <1>3. IsFiniteSet(S)
    BY <1>2, ImageFinite
  <1>4. SetToSeq(S) \in Seq(S)
    BY <1>3, SetToSeqListed
  <1> QED
    BY <1>1, <1>4 DEF Listed

LEMMA OwnedAreListed == ASSUME Shape PROVE Listed(threads \o ThreadsOf(draft))
  BY DraftListed, ConcatListed DEF Shape, Findings, Targets

LEMMA PlanShape ==
    ASSUME NEW report, NEW bodies, NEW p, NEW ts, Listed(ts),
           IsFiniteSet(report), p \in Plans(report, bodies, OpenIn(ts))
    PROVE  /\ IsFiniteSet(p.netNew) /\ DOMAIN p = Fields
           /\ p.obsolete \subseteq Nat
  <1> DEFINE cs == Current(report)
             ps == Prior(bodies, OpenIn(ts))
             bare(c) == [fingerprint |-> c.fingerprint, aliases |-> c.aliases]
             id(f) == [anchor |-> f.anchor,
                       fingerprint |-> Identity(f, report).fingerprint,
                       aliases |-> Identity(f, report).aliases]
  <1>1. PICK m : p = PlanOf(m, cs, bodies, ps)
    BY DEF Plans
  <1>2. /\ p.netNew = {bare(c) : c \in cs \ Lefts(m)}
        /\ p.obsolete = {q.thread : q \in ps \ Rights(m)} \ {0}
        /\ DOMAIN p = Fields
    BY <1>1 DEF PlanOf, Fields
  <1>3. IsFiniteSet(cs)
    <2>1. cs = {id(f) : f \in report}
      BY DEF Current
    <2> HIDE DEF id, cs
    <2> DEFINE g == [f \in report |-> id(f)]
    <2>2. g \in [report -> cs] /\ \A c \in cs : \E f \in report : g[f] = c
      BY <2>1
    <2> QED
      BY <2>2, ImageFinite
  <1>4. IsFiniteSet(p.netNew)
    <2> DEFINE S == cs \ Lefts(m)
               g == [c \in S |-> bare(c)]
    <2>1. IsFiniteSet(S)
      BY <1>3, FS_Subset
    <2> HIDE DEF cs, bare, S
    <2>2. p.netNew = {bare(c) : c \in S}
      BY <1>2 DEF S
    <2>3. g \in [S -> p.netNew] /\ \A n \in p.netNew : \E c \in S : g[c] = n
      BY <2>2
    <2> QED
      BY <2>1, <2>3, ImageFinite
  <1>5. ASSUME NEW q \in ps, q.thread # 0 PROVE q.thread \in Nat
    <2>1. q.thread \in DOMAIN ts
      BY <1>5 DEF Prior, OpenIn
    <2>2. DOMAIN ts \subseteq Nat
      BY DEF Listed
    <2> QED
      BY <2>1, <2>2
  <1>6. p.obsolete \subseteq Nat
    BY <1>2, <1>5
  <1> QED
    BY <1>2, <1>4, <1>6

LEMMA ShapeInit == Init => Shape
  <1> SUFFICES ASSUME Init PROVE Shape
    OBVIOUS
  <1>1. IsFiniteSet({})
    BY FS_EmptySet
  <1>2. Ranges /\ Requests /\ 0 \notin shown
    BY DEF Init, Ranges, Requests, Goals
  <1>3. Findings
    BY <1>1 DEF Init, Findings, Fields, NoDraft, NoPlan
  <1>4. Listed(threads)
    <2>1. threads = << >>
      BY DEF Init
    <2>2. << >> \in Seq({})
      OBVIOUS
    <2> QED
      BY <2>1, <2>2 DEF Listed
  <1>5. plan.obsolete = {} /\ closing = {}
    BY DEF Init, NoPlan
  <1> QED
    BY <1>2, <1>3, <1>4, <1>5 DEF Shape, Targets

(* Where a step of the review leads leaves the settlement in its ranges.   *)
LEMMA RangesKeep ==
    ASSUME Types, Shape, run' = run,
           \/ \E s : Go(s)
           \/ \E o : End(o)
           \/ \E g \in Goals, r \in 0 .. run : Settle(g, r)
           \/ Submitted \/ Removed \/ Published \/ Again
    PROVE  Ranges'
  <1>1. run \in Nat /\ 0 \in 0 .. run /\ run \in 0 .. run
    BY BoundsAssumption DEF Types
  <1>2. CASE UNCHANGED settling
    BY <1>2 DEF settling, Shape, Ranges
  <1>3. CASE \E o : End(o)
    BY <1>1, <1>3 DEF End, Ranges, Goals
  <1>4. CASE \E g \in Goals, r \in 0 .. run : Settle(g, r)
    BY <1>4 DEF Settle, Ranges
  <1>5. "cleanup" \in Goals
    BY DEF Goals
  <1>6. CASE Removed
    BY <1>1, <1>2, <1>3, <1>4, <1>5, <1>6 DEF Removed, Go
  <1>7. CASE Again
    <2>1. CASE attempt < LastAttempt /\ attempt' = attempt + 1
               /\ UNCHANGED <<goal, target>>
      BY <2>1 DEF Shape, Ranges, LastAttempt
    <2>2. CASE Uncertain
      BY <1>3, <2>2 DEF Uncertain
    <2> QED
      BY <1>7, <2>1, <2>2 DEF Again
  <1> QED
    BY <1>2, <1>3, <1>4, <1>6, <1>7 DEF Go, Submitted, Published

(* A step that publishes nothing, makes no plan and sends only requests it *)
(* may send.                                                               *)
LEMMA ShapeKeeps ==
    ASSUME Types, Shape, Ranges', UNCHANGED <<threads, closing, plan, shown>>,
           IsFiniteSet(found'), IsFiniteSet(draft'.netNew),
           \A w \in wire' :
              \/ w \in wire
              \/ /\ w.kind \in Kinds
                 /\ w.kind = "submit" => w.review.run # 0
                 /\ IsFiniteSet(w.review.netNew)
    PROVE  Shape'
  <1>1. Requests'
    BY DEF Shape, Requests
  <1>2. Findings' /\ Targets'
    BY DEF Shape, Findings, Targets, Listed
  <1> QED
    BY <1>1, <1>2 DEF Shape

(* A draft is published that a review of a positive number made.           *)
LEMMA PublishShape ==
    ASSUME Types, Shape, Ranges', draft.run # 0, Publish(draft),
           UNCHANGED <<plan, found, closing>>, wire' \subseteq wire
    PROVE  Shape'
  <1>1. Listed(ThreadsOf(draft)) /\ Listed(threads)
    BY DraftListed DEF Shape, Findings, Targets
  <1>2. threads' = threads \o ThreadsOf(draft)
    BY DEF Publish
  <1>6. Listed(threads') /\ DOMAIN threads \subseteq DOMAIN threads'
    BY <1>1, <1>2, ConcatListed
  <1>7. Targets'
    BY <1>6 DEF Shape, Targets
  <1>8. Requests' /\ 0 \notin shown'
    BY DEF Shape, Requests, Publish
  <1>9. Findings'
    BY FS_EmptySet DEF Shape, Findings, Publish, NoDraft
  <1> QED
    BY <1>7, <1>8, <1>9 DEF Shape

LEMMA StartShape == ASSUME DraftInv, Shape, Start PROVE Shape'
  <1>1. /\ run' = run + 1 /\ run \in Nat
        /\ UNCHANGED <<settling, threads, draft, shown, wire, closing>>
        /\ found' = {} /\ plan' = NoPlan
    BY BoundsAssumption DEF Start, DraftInv, Types, world
  <1>2. Ranges'
    BY <1>1 DEF Shape, Ranges, settling
  <1>3. Requests' /\ 0 \notin shown'
    BY <1>1 DEF Shape, Requests
  <1>4. Findings' /\ Targets'
    BY <1>1, FS_EmptySet DEF Shape, Findings, Targets, Fields, NoPlan, Listed
  <1> QED
    BY <1>2, <1>3, <1>4 DEF Shape

LEMMA ReconcileShape == ASSUME DraftInv, Shape, Reconcile PROVE Shape'
  <1>1. /\ plan' \in Plans(found, prior, OwnedOpenThreads)
        /\ UNCHANGED <<github, wire, closing, local>> /\ Go("resolveHead")
    BY DEF Reconcile
  <1>2. Ranges' /\ IsFiniteSet(found)
    BY <1>1, RangesKeep DEF DraftInv, Shape, Findings, local
  <1>3. /\ IsFiniteSet(plan'.netNew) /\ DOMAIN plan' = Fields
        /\ plan'.obsolete \subseteq Nat
    BY <1>1, <1>2, OwnedAreListed, PlanShape DEF OwnedOpenThreads
  <1>4. Findings' /\ Targets' /\ Requests' /\ 0 \notin shown'
    BY <1>1, <1>3
    DEF Shape, Findings, Targets, Requests, Listed, github, local
  <1> QED
    BY <1>2, <1>4 DEF Shape

(* A resolution is answered, or the review fails without an answer.        *)
Unresolved ==
    /\ End("failed") /\ UNCHANGED <<threads, plan>>
    /\ closing' \subseteq closing \cup DOMAIN threads
LEMMA ResolveCases ==
    ASSUME Shape, Resolve
    PROVE  LET i == Min(plan.obsolete)
           IN  \/ /\ threads' = [threads EXCEPT ![i].open = FALSE]
                  /\ plan' = [plan EXCEPT !.obsolete = @ \ {i}]
                  /\ closing' = closing /\ Go("resolveHead")
               \/ Unresolved
  <1> DEFINE i == Min(plan.obsolete)
  <1>1. Listed(threads)
    BY DEF Shape, Targets
  <1>2. \/ /\ Close(i) /\ plan' = [plan EXCEPT !.obsolete = @ \ {i}]
           /\ closing' = closing /\ Go("resolveHead")
        \/ Unresolved
    BY DEF Resolve, Unresolved
  <1> HIDE DEF i
  <1>3. Close(i) => threads' = [threads EXCEPT ![i].open = FALSE]
    BY <1>1, Closes
  <1> QED
    BY <1>2, <1>3 DEF i

LEMMA ResolveShape == ASSUME DraftInv, Shape, Resolve PROVE Shape'
  <1> DEFINE i == Min(plan.obsolete)
  <1>1. UNCHANGED <<draft, shown, wire, local>>
    BY DEF Resolve
  <1>2. CASE /\ threads' = [threads EXCEPT ![i].open = FALSE]
             /\ plan' = [plan EXCEPT !.obsolete = @ \ {i}]
             /\ closing' = closing /\ Go("resolveHead")
    <2> HIDE DEF i
    <2>1. Ranges'
      BY <1>1, <1>2, RangesKeep DEF DraftInv, local
    <2>2. Listed(threads') /\ DOMAIN threads' = DOMAIN threads
      BY <1>2, CloseListed DEF Shape, Targets
    <2>3. /\ plan'.netNew = plan.netNew /\ DOMAIN plan' = Fields
          /\ plan'.obsolete \subseteq plan.obsolete
      BY <1>2 DEF Shape, Findings, Fields
    <2>4. Findings' /\ Targets' /\ Requests' /\ 0 \notin shown'
      BY <1>1, <1>2, <2>2, <2>3 DEF Shape, Findings, Targets, Requests, local
    <2> QED
      BY <2>1, <2>4 DEF Shape
  <1>3. CASE Unresolved
    <2>1. Ranges'
      BY <1>1, <1>3, RangesKeep DEF DraftInv, Unresolved, local
    <2>2. Findings' /\ Targets' /\ Requests' /\ 0 \notin shown'
      BY <1>1, <1>3
      DEF Shape, Findings, Targets, Requests, Unresolved, Listed, local
    <2> QED
      BY <2>1, <2>2 DEF Shape
  <1> QED
    BY <1>2, <1>3, ResolveCases

(* Somebody else resolves a thread, or nothing but a request is over.      *)
LEMMA MeddleShape ==
    ASSUME DraftInv, Shape, Dismiss \/ CloseLate
    PROVE  /\ Shape'
           /\ \/ UNCHANGED <<threads, touched, last>>
              \/ /\ \E i : threads' = [threads EXCEPT ![i].open = FALSE]
                 /\ touched' = TRUE /\ last' = Nothing
  <1>1. Listed(threads) /\ closing \subseteq DOMAIN threads
    BY DEF Shape, Targets
  <1>2. /\ UNCHANGED <<draft, shown, wire, local, plan, settling>>
        /\ closing' \subseteq closing
    BY DEF Dismiss, CloseLate, Aside
  <1>3. \/ UNCHANGED <<threads, touched, last>>
        \/ \E t : Meddle(t)
    BY DEF Dismiss, CloseLate
  <1>4. \/ UNCHANGED <<threads, touched, last>>
        \/ /\ \E i : threads' = [threads EXCEPT ![i].open = FALSE]
           /\ touched' = TRUE /\ last' = Nothing
    BY <1>1, <1>3, Closes, Zenon DEF Meddle
  <1>5. Listed(threads') /\ DOMAIN threads' = DOMAIN threads
    BY <1>1, <1>4, CloseListed DEF Listed
  <1> QED
    BY <1>1, <1>2, <1>4, <1>5
    DEF Shape, Ranges, Findings, Targets, Requests, local, settling

LEMMA SubmitShape == ASSUME DraftInv, Shape, Submit PROVE Shape'
  <1>1. /\ Drafted /\ UNCHANGED <<clean, closing, local, plan>>
        /\ run' = run /\ found' = found
    BY DEF Submit, Drafted, world, local
  <1>2. run # 0 /\ draft.run = run
    BY <1>1, DraftedIsSafe, BoundsAssumption
  <1>3. CASE Answered /\ Publish(draft) /\ Submitted
    <2>1. Ranges'
      BY <1>1, <1>3, RangesKeep DEF DraftInv
    <2> QED
      BY <1>1, <1>2, <1>3, <2>1, PublishShape DEF Answered, DraftInv
  <1>4. CASE Go("rejected") /\ UNCHANGED <<threads, body, draft, shown, wire>>
    <2>1. Ranges'
      BY <1>1, <1>4, RangesKeep DEF DraftInv
    <2> QED
      BY <1>1, <1>4, <2>1, ShapeKeeps DEF DraftInv, Shape, Findings
  <1>5. CASE /\ Unanswered("submit", Payload) /\ Go("unanswered")
             /\ UNCHANGED <<threads, body, draft, shown>>
    <2>1. Ranges'
      BY <1>1, <1>5, RangesKeep DEF DraftInv
    <2>2. Payload.run # 0 /\ IsFiniteSet(Payload.netNew)
      BY <1>2 DEF Payload, Shape, Findings
    <2>3. \A w \in wire' : \/ w \in wire
                           \/ w.kind = "submit" /\ w.review = Payload
      BY <1>5 DEF Unanswered
    <2> QED
      BY <1>1, <1>5, <2>1, <2>2, <2>3, ShapeKeeps
      DEF DraftInv, Shape, Findings, Kinds
  <1> QED
    BY <1>3, <1>4, <1>5 DEF Submit

LEMMA CreateShape == ASSUME DraftInv, Shape, Create PROVE Shape'
  <1>1. /\ UNCHANGED <<threads, closing, shown, local, plan>>
        /\ run' = run /\ found' = found /\ \E s : Go(s)
        /\ draft' \in {draft, Payload}
        /\ \A w \in wire' : \/ w \in wire
                            \/ w.kind = "create" /\ w.review = Payload
    BY DEF Create, CreateDraft, Answered, Unanswered, world, local
  <1>2. Ranges'
    BY <1>1, RangesKeep DEF DraftInv
  <1>3. IsFiniteSet(Payload.netNew) /\ IsFiniteSet(draft.netNew)
    BY DEF Payload, Shape, Findings
  <1>4. IsFiniteSet(draft'.netNew) /\ IsFiniteSet(found')
    BY <1>1, <1>3 DEF Shape, Findings
  <1> QED
    BY <1>1, <1>2, <1>3, <1>4, ShapeKeeps DEF DraftInv, Kinds

LEMMA DeleteShape == ASSUME DraftInv, Shape, Delete PROVE Shape'
  <1>1. /\ UNCHANGED <<threads, closing, shown, local, plan>>
        /\ run' = run /\ found' = found
        /\ Removed \/ \E s : Go(s)
        /\ draft' \in {draft, NoDraft}
        /\ \A w \in wire' : \/ w \in wire
                            \/ w.kind = "delete" /\ w.review = draft
    BY DEF Delete, Answered, world, local
  <1>2. Ranges'
    BY <1>1, RangesKeep DEF DraftInv
  <1>3. IsFiniteSet(NoDraft.netNew) /\ IsFiniteSet(draft.netNew)
    BY FS_EmptySet DEF NoDraft, Shape, Findings
  <1>4. IsFiniteSet(draft'.netNew) /\ IsFiniteSet(found')
    BY <1>1, <1>3 DEF Shape, Findings
  <1> QED
    BY <1>1, <1>2, <1>3, <1>4, ShapeKeeps DEF DraftInv, Kinds

LEMMA CarryOutShape == ASSUME DraftInv, Shape, CarryOut PROVE Shape'
  <1>1. PICK w \in wire : /\ wire' = wire \ {w} /\ TakesEffect(w)
                          /\ UNCHANGED <<local, plan, settling, closing>>
    BY DEF CarryOut, world
  <1>2. /\ wire' \subseteq wire /\ run' = run /\ found' = found /\ Ranges'
    BY <1>1 DEF local, settling, Shape, Ranges
  <1>3. CASE w.kind = "submit" /\ draft = w.review /\ Publish(draft)
    BY <1>1, <1>2, <1>3, PublishShape DEF DraftInv, Shape, Requests
  <1>4. CASE draft' \in {draft, NoDraft, w.review} /\ Unpublished
    <2>1. /\ IsFiniteSet(NoDraft.netNew) /\ IsFiniteSet(draft.netNew)
          /\ IsFiniteSet(w.review.netNew)
      BY FS_EmptySet DEF NoDraft, Shape, Findings, Requests
    <2>2. IsFiniteSet(draft'.netNew)
      BY <1>4, <2>1
    <2> QED
      BY <1>1, <1>2, <1>4, <2>2, ShapeKeeps
      DEF DraftInv, Shape, Findings, Unpublished
  <1> QED
    BY <1>1, <1>3, <1>4 DEF TakesEffect, CreateDraft

(* The other steps of a review.                                            *)
LEMMA QuietShape ==
    ASSUME DraftInv, Shape,
           \/ Model \/ Sweep \/ ReadBodies \/ ResolveHead \/ DraftHead
           \/ ReadSubmission \/ Readback \/ Conclude \/ DoneHead \/ DropFailure
           \/ Break \/ Crash
    PROVE  Shape'
  <1>1. UNCHANGED <<threads, closing, draft, shown, wire, run, plan>>
    BY DEF Model, Sweep, ReadBodies, ResolveHead, DraftHead, ReadSubmission,
           Readback, Conclude, DoneHead, DropFailure, Break, Crash, github,
           world, local
  <1>2. found' = found \/ found' \in Reports
    BY DEF Model, Sweep, ReadBodies, ResolveHead, DraftHead, ReadSubmission,
           Readback, Conclude, DoneHead, DropFailure, Break, Crash, local
  <1>3. draft.run \in 0 .. run /\ run \in 0 .. run
    BY BoundsAssumption DEF DraftInv, Types
  <1>4. \/ \E s : Go(s)
        \/ \E o : End(o)
        \/ \E g \in Goals, r \in 0 .. run : Settle(g, r)
        \/ Submitted \/ Published \/ Again
    <2> USE DEF Goals
    <2>1. CASE \/ Model \/ ReadBodies \/ ResolveHead \/ Conclude \/ DoneHead
               \/ DropFailure \/ Crash
      BY <2>1 DEF Model, ReadBodies, ResolveHead, Conclude, DoneHead,
                  DropFailure, Crash
    <2>2. CASE Sweep
      BY <1>3, <2>2 DEF Sweep
    <2>3. CASE DraftHead
      BY <1>3, <2>3 DEF DraftHead
    <2>4. CASE ReadSubmission
      BY <1>3, <2>4 DEF ReadSubmission
    <2>5. CASE Break
      BY <1>3, <2>5 DEF Break
    <2>6. CASE Readback
      BY <2>6 DEF Readback
    <2> QED
      BY <2>1, <2>2, <2>3, <2>4, <2>5, <2>6
  <1>5. Ranges'
    BY <1>1, <1>4, RangesKeep DEF DraftInv
  <1>6. IsFiniteSet(found') /\ IsFiniteSet(draft'.netNew)
    BY <1>1, <1>2, ReportsAssumption DEF Shape, Findings
  <1> QED
    BY <1>1, <1>5, <1>6, ShapeKeeps DEF DraftInv

LEMMA ShapeNext == DraftInv /\ Shape /\ [Next]_vars => Shape'
  <1> SUFFICES ASSUME DraftInv, Shape, [Next]_vars PROVE Shape'
    OBVIOUS
  <1>1. CASE ReviewStep
    BY <1>1, QuietShape, ReconcileShape, ResolveShape, CreateShape, SubmitShape,
       DeleteShape
    DEF ReviewStep
  <1>2. CASE Push \/ Over \/ UNCHANGED vars
    <2>1. UNCHANGED <<threads, closing, draft, shown, wire, run, plan, found,
                      settling>>
      BY <1>2 DEF Push, Over, vars, github, world, local
    <2> QED
      BY <2>1 DEF Shape, Ranges, Findings, Targets, Requests, settling, Listed
  <1> QED
    BY <1>1, <1>2, StartShape, CarryOutShape, MeddleShape DEF Next

THEOREM ShapeInvariance == Spec => []Shape
  BY ShapeInit, ShapeNext, DraftInvariance, PTL DEF Spec

(* The drafts and requests on GitHub are those of reviews that have begun, *)
(* what GitHub has published are drafts of reviews, a draft is settled in  *)
(* at most three attempts, and a resolution that is on the wire is one of  *)
(* a thread that is published.                                             *)
THEOREM Typing == Spec => []TypeInvariant
  <1>1. DraftInv /\ Shape => TypeInvariant
    <2> SUFFICES ASSUME DraftInv, Shape PROVE TypeInvariant
      OBVIOUS
    <2>1. shown \subseteq 1 .. run
      BY BoundsAssumption DEF DraftInv, Types, Shape
    <2>2. \A d \in {draft} \cup {w.review : w \in wire} : d.run \in 0 .. run
      BY DEF DraftInv, Types
    <2>3. \A i \in body : Tokens(i) # {}
      BY DEF Tokens
    <2> QED
      BY <2>1, <2>2, <2>3
      DEF TypeInvariant, DraftInv, Types, Shape, Ranges, Goals, Requests, Kinds,
          Targets
  <1> QED
    BY <1>1, DraftInvariance, ShapeInvariance, PTL

-----------------------------------------------------------------------------
(* How many identities of a set an anchor has; and that what is in the     *)
(* body, on threads and yet to be published are the findings of a report.  *)
Of(S, a) == Cardinality({i \in S : <<"semantic", a>> \in Tokens(i)})
Balance(b, t, n, report) ==
    /\ IsFiniteSet(b) /\ IsFiniteSet(t) /\ IsFiniteSet(n)
    /\ Cardinality(b) + Cardinality(t) + Cardinality(n) = Cardinality(report)
    /\ \A f \in report :
          Of(b, f.anchor) + Of(t, f.anchor) + Of(n, f.anchor)
             = Cardinality({g \in report : g.anchor = f.anchor})

(* The identities of a body state.                                         *)
BodyOk(b) == /\ IsFiniteSet(b) /\ \A i \in b : Derived(i)
             /\ \A i, j \in b : i.fingerprint = j.fingerprint => i = j
Distinct(n) == \A i, j \in n : i.fingerprint = j.fingerprint => i = j
-----------------------------------------------------------------------------
(* The plan of a report: a matching of identities                          *)

ReportOk(r) ==
    /\ IsFiniteSet(r)
    /\ \A f \in r : f.line \in Nat \ {0}
    /\ \A f, g \in r : f.anchor = g.anchor /\ f.line = g.line => f = g
ThreadsOk(ts) ==
    /\ IsFiniteSet(ts)
    /\ \A t \in ts : Derived(t) /\ t.thread \in Nat \ {0}
    /\ \A t, u \in ts : t.thread = u.thread => t = u

(* An identity of a finding of anchor a.                                   *)
Anchored(i, a) ==
    /\ <<"semantic", a>> \in Tokens(i)
    /\ \A u \in Tokens(i) : u[2] = a
    /\ \/ i.fingerprint = <<"semantic", a>>
       \/ \E n \in Nat \ {0} : i.fingerprint = <<"occurrence", a, n>>

LEMMA DerivedAnchored == ASSUME NEW i, Derived(i) PROVE \E a : Anchored(i, a)
  <1>1. PICK t \in Tokens(i) :
             /\ t = <<"semantic", t[2]>>
             /\ \A u \in Tokens(i) : u[2] = t[2]
             /\ \/ i.fingerprint = t
                \/ /\ i.fingerprint = <<"occurrence", t[2], i.fingerprint[3]>>
                   /\ i.fingerprint[3] \in Nat \ {0}
    BY DEF Derived
  <1> QED
    BY <1>1 DEF Anchored

LEMMA AnchoredDerived ==
    ASSUME NEW i, NEW a, Anchored(i, a) PROVE Derived(i)
  <1> DEFINE t == <<"semantic", a>>
  <1>1. t \in Tokens(i) /\ t[2] = a
    BY DEF Anchored
  <1>2. CASE i.fingerprint = t
    BY <1>1, <1>2 DEF Anchored, Derived
  <1>3. ASSUME NEW n \in Nat \ {0}, i.fingerprint = <<"occurrence", a, n>>
        PROVE  Derived(i)
    <2>1. i.fingerprint[3] = n
      BY <1>3
    <2> QED
      BY <1>1, <1>3, <2>1 DEF Anchored, Derived
  <1> QED
    BY <1>2, <1>3 DEF Anchored

LEMMA OneAnchor ==
    ASSUME NEW i, NEW a, NEW b, Anchored(i, a), <<"semantic", b>> \in Tokens(i)
    PROVE  b = a
  <1>1. <<"semantic", b>>[2] = b
    OBVIOUS
  <1> QED
    BY <1>1 DEF Anchored

LEMMA AnchoredRank ==
    ASSUME NEW a, NEW i, Anchored(i, a)
    PROVE  /\ Rank(i) \in Nat
           /\ i.fingerprint = IF Rank(i) = 0 THEN <<"semantic", a>>
                              ELSE <<"occurrence", a, Rank(i)>>
  <1>1. CASE i.fingerprint = <<"semantic", a>>
    BY <1>1 DEF Rank
  <1>2. ASSUME NEW n \in Nat \ {0}, i.fingerprint = <<"occurrence", a, n>>
        PROVE  Rank(i) = n
    BY <1>2 DEF Rank
  <1> QED
    BY <1>1, <1>2 DEF Anchored

LEMMA StrictlyFewer ==
    ASSUME NEW S, NEW T, IsFiniteSet(S), T \subseteq S, NEW x \in S, x \notin T
    PROVE  Cardinality(T) # Cardinality(S)
  BY FS_Subset

LEMMA DisjointCount ==
    ASSUME NEW S, NEW T, IsFiniteSet(S), IsFiniteSet(T), S \cap T = {}
    PROVE  /\ IsFiniteSet(S \cup T)
           /\ Cardinality(S \cup T) = Cardinality(S) + Cardinality(T)
           /\ Cardinality(S) \in Nat /\ Cardinality(T) \in Nat
  <1>1. /\ IsFiniteSet(S \cup T)
        /\ Cardinality(S \cup T)
             = Cardinality(S) + Cardinality(T) - Cardinality(S \cap T)
    BY FS_Union
  <1>2. Cardinality(S \cap T) = 0
    BY FS_EmptySet
  <1>3. Cardinality(S) \in Nat /\ Cardinality(T) \in Nat
    BY FS_CardinalityType
  <1> QED
    BY <1>1, <1>2, <1>3

LEMMA SameCount ==
    ASSUME NEW S, NEW T, IsFiniteSet(S), NEW f \in [S -> T],
           \A x, y \in S : f[x] = f[y] => x = y,
           \A t \in T : \E x \in S : f[x] = t
    PROVE  IsFiniteSet(T) /\ Cardinality(T) = Cardinality(S)
  <1>1. f \in Bijection(S, T)
    BY DEF Bijection, Injection, Surjection, IsInjective
  <1>2. ExistsBijection(S, T)
    BY <1>1 DEF ExistsBijection
  <1> QED
    BY <1>2, FS_Bijection

-----------------------------------------------------------------------------
(* The identities of a report.                                             *)
Bare(c) == [fingerprint |-> c.fingerprint, aliases |-> c.aliases]
Ranked(C) ==
    /\ IsFiniteSet(C)
    /\ \A c \in C : Rank(c) \in Nat
    /\ \A c, d \in C : Rank(c) = Rank(d) \/ c.fingerprint = d.fingerprint
                          => c = d
Ordered(P) ==
    /\ IsFiniteSet(P)
    /\ \A p \in P : Rank(p) \in Nat /\ p.thread \in Nat
    /\ \A p, q \in P : p # q => PriorBefore(p, q) \/ PriorBefore(q, p)

Named(f, r) == [anchor |-> f.anchor, fingerprint |-> Identity(f, r).fingerprint,
                aliases |-> Identity(f, r).aliases]

LEMMA NamedAnchored ==
    ASSUME NEW r, ReportOk(r), NEW f \in r
    PROVE  /\ Named(f, r).anchor = f.anchor
           /\ Named(f, r).fingerprint = Fingerprint(f, r)
           /\ Anchored(Named(f, r), f.anchor)
  <1> DEFINE fp == Fingerprint(f, r)
             al == ({Semantic(f), Exact(f)} \cup Context(f)) \ {fp}
  <1>1. Named(f, r) = [anchor |-> f.anchor, fingerprint |-> fp, aliases |-> al]
    BY DEF Named, Identity
  <1>2. /\ Named(f, r).anchor = f.anchor /\ Named(f, r).fingerprint = fp
        /\ Tokens(Named(f, r)) = {fp} \cup al
    BY <1>1 DEF Tokens
  <1>3. fp = <<"semantic", f.anchor>> \/ fp = <<"occurrence", f.anchor, f.line>>
    BY DEF Fingerprint, Occurrence, Semantic
  <1>4. Semantic(f) = <<"semantic", f.anchor>>
    BY DEF Semantic
  <1>5. \A u \in {fp} \cup al : u[2] = f.anchor
    <2>1. fp[2] = f.anchor
      BY <1>3
    <2>2. Semantic(f)[2] = f.anchor /\ Exact(f)[2] = f.anchor
      BY DEF Semantic, Exact
    <2>3. \A u \in Context(f) : u[2] = f.anchor
      BY DEF Context
    <2> QED
      BY <2>1, <2>2, <2>3
  <1>6. f.line \in Nat \ {0}
    BY DEF ReportOk
  <1> HIDE DEF fp
  <1> QED
    BY <1>2, <1>3, <1>4, <1>5, <1>6 DEF Anchored, fp

LEMMA FingerprintNames ==
    ASSUME NEW r, ReportOk(r), NEW f \in r, NEW g \in r,
           Fingerprint(f, r) = Fingerprint(g, r)
    PROVE  f = g
  <1>1. CASE HasPeers(f, r) /\ HasPeers(g, r)
    <2>1. f.anchor = g.anchor /\ f.line = g.line
      BY <1>1 DEF Fingerprint, Occurrence
    <2> QED
      BY <2>1 DEF ReportOk
  <1>2. CASE ~HasPeers(f, r) /\ ~HasPeers(g, r)
    <2>1. f.anchor = g.anchor
      BY <1>2 DEF Fingerprint, Semantic
    <2> QED
      BY <1>2, <2>1 DEF HasPeers, ReportOk
  <1>3. Occurrence(f)[1] # Semantic(g)[1] /\ Occurrence(g)[1] # Semantic(f)[1]
    BY DEF Occurrence, Semantic
  <1> QED
    BY <1>1, <1>2, <1>3 DEF Fingerprint

OfAnchor(S, a) == {i \in S : i.anchor = a}
CurrentOk(cs) ==
    /\ IsFiniteSet(cs)
    /\ \A c \in cs : Anchored(c, c.anchor)
    /\ \A c, d \in cs : c.fingerprint = d.fingerprint => c = d

LEMMA CurrentFacts ==
    ASSUME NEW r, ReportOk(r)
    PROVE  /\ CurrentOk(Current(r))
           /\ Cardinality(Current(r)) = Cardinality(r)
           /\ \A a : Cardinality(OfAnchor(Current(r), a))
                        = Cardinality(OfAnchor(r, a))
  <1> DEFINE cs == Current(r)
  <1>1. cs = {Named(f, r) : f \in r}
    BY DEF Current, Named
  <1>2. \A f, g \in r : Named(f, r).fingerprint = Named(g, r).fingerprint => f = g
    BY NamedAnchored, FingerprintNames
  <1>3. \A f \in r : /\ Named(f, r).anchor = f.anchor
                     /\ Anchored(Named(f, r), f.anchor)
    BY NamedAnchored
  <1>4. ASSUME NEW R \in SUBSET r, NEW C \in SUBSET cs,
               C = {Named(f, r) : f \in R}
        PROVE  IsFiniteSet(C) /\ Cardinality(C) = Cardinality(R)
    <2> DEFINE h == [f \in R |-> Named(f, r)]
    <2>1. h \in [R -> C] /\ \A c \in C : \E f \in R : h[f] = c
      BY <1>4
    <2>2. \A f, g \in R : h[f] = h[g] => f = g
      BY <1>2
    <2>3. IsFiniteSet(R)
      BY FS_Subset DEF ReportOk
    <2> HIDE DEF h
    <2> QED
      BY <2>1, <2>2, <2>3, SameCount
  <1>5. IsFiniteSet(cs) /\ Cardinality(cs) = Cardinality(r)
    BY <1>1, <1>4
  <1>6. ASSUME NEW a
        PROVE  Cardinality(OfAnchor(cs, a)) = Cardinality(OfAnchor(r, a))
    <2>1. OfAnchor(cs, a) = {Named(f, r) : f \in OfAnchor(r, a)}
      BY <1>1, <1>3 DEF OfAnchor
    <2>2. OfAnchor(cs, a) \in SUBSET cs /\ OfAnchor(r, a) \in SUBSET r
      BY DEF OfAnchor
    <2> QED
      BY <1>4, <2>1, <2>2
  <1>7. \A c \in cs : Anchored(c, c.anchor)
    BY <1>1, <1>3
  <1>8. \A c, d \in cs : c.fingerprint = d.fingerprint => c = d
    BY <1>1, <1>2
  <1> HIDE DEF cs
  <1>9. CurrentOk(cs)
    BY <1>5, <1>7, <1>8 DEF CurrentOk
  <1> QED
    BY <1>5, <1>6, <1>9 DEF cs

-----------------------------------------------------------------------------
(* The stages of the matching: no identity is matched twice.               *)

LEMMA RankedGroup ==
    ASSUME NEW C, NEW a, IsFiniteSet(C), \A c \in C : Anchored(c, a),
           \A c, d \in C : c.fingerprint = d.fingerprint => c = d
    PROVE  Ranked(C)
  <1>1. \A c \in C : Rank(c) \in Nat
    BY AnchoredRank
  <1>2. ASSUME NEW c \in C, NEW d \in C, Rank(c) = Rank(d) PROVE c = d
    <2>1. c.fingerprint = d.fingerprint
      BY <1>2, AnchoredRank
    <2> QED
      BY <2>1
  <1> QED
    BY <1>1, <1>2 DEF Ranked

LEMMA OrderedGroup ==
    ASSUME NEW P, NEW a, IsFiniteSet(P), \A p \in P : Anchored(p, a),
           \A p \in P : p.thread \in Nat,
           \A p, q \in P : /\ p.thread = q.thread
                           /\ p.thread = 0 => p.fingerprint = q.fingerprint
                           => p = q
    PROVE  Ordered(P)
  <1>1. \A p \in P : Rank(p) \in Nat
    BY AnchoredRank
  <1>2. ASSUME NEW p \in P, NEW q \in P, p # q
        PROVE  PriorBefore(p, q) \/ PriorBefore(q, p)
    <2>1. Rank(p) = Rank(q) => p.fingerprint = q.fingerprint
      BY AnchoredRank
    <2>2. ~(Rank(p) = Rank(q) /\ p.thread = q.thread)
      BY <1>2, <2>1
    <2>3. Rank(p) \in Nat /\ Rank(q) \in Nat
      BY <1>1
    <2> QED
      BY <2>2, <2>3 DEF PriorBefore
  <1> QED
    BY <1>1, <1>2 DEF Ordered

LEMMA RankedSubset ==
    ASSUME NEW C, Ranked(C), NEW D \in SUBSET C PROVE Ranked(D)
  BY FS_Subset DEF Ranked

LEMMA OrderedSubset ==
    ASSUME NEW P, Ordered(P), NEW Q \in SUBSET P PROVE Ordered(Q)
  BY FS_Subset DEF Ordered

LEMMA PriorOrder ==
    ASSUME NEW P, Ordered(P), NEW p \in P, NEW q \in P
    PROVE  /\ ~PriorBefore(p, p)
           /\ ~(PriorBefore(p, q) /\ PriorBefore(q, p))
           /\ \A r \in P : PriorBefore(r, p) /\ PriorBefore(p, q)
                              => PriorBefore(r, q)
  BY DEF Ordered, PriorBefore

LEMMA OneFirst ==
    ASSUME NEW P, Ordered(P), NEW p \in P, NEW q \in P,
           FirstPrior(p, P), FirstPrior(q, P)
    PROVE  p = q
  BY PriorOrder DEF FirstPrior

LEMMA ExactMatching ==
    ASSUME NEW C, NEW P, Ranked(C), Ordered(P)
    PROVE  ExactPairs(C, P) \subseteq C \X P /\ IsMatching(ExactPairs(C, P))
  <1> SUFFICES ASSUME NEW x \in ExactPairs(C, P), NEW y \in ExactPairs(C, P)
               PROVE  (x[1] = y[1]) <=> (x[2] = y[2])
    BY DEF ExactPairs, IsMatching
  <1> DEFINE same(p) == {q \in P : q.fingerprint = p.fingerprint}
  <1>1. /\ x[1] \in C /\ x[2] \in P /\ x[1].fingerprint = x[2].fingerprint
        /\ y[1] \in C /\ y[2] \in P /\ y[1].fingerprint = y[2].fingerprint
        /\ FirstPrior(x[2], same(x[2])) /\ FirstPrior(y[2], same(y[2]))
    BY DEF ExactPairs
  <1>2. ASSUME x[1] = y[1] PROVE x[2] = y[2]
    <2>1. same(x[2]) = same(y[2]) /\ Ordered(same(x[2]))
      BY <1>1, <1>2, OrderedSubset
    <2>2. x[2] \in same(x[2]) /\ y[2] \in same(x[2])
      BY <1>1, <1>2
    <2> QED
      BY <1>1, <2>1, <2>2, OneFirst
  <1>3. ASSUME x[2] = y[2] PROVE x[1] = y[1]
    BY <1>1, <1>3 DEF Ranked
  <1> QED
    BY <1>2, <1>3

LEMMA CohortMatching ==
    ASSUME NEW a, NEW C, NEW P, Ranked(C), Ordered(P)
    PROVE  /\ CohortPairs(a, C, P) \subseteq C \X P
           /\ IsMatching(CohortPairs(a, C, P))
  <1> DEFINE repeated == {t \in UNION {Tokens(c) : c \in C} :
                             t # <<"semantic", a>> /\ Repeated(t, C, P)}
             signature(i) == Tokens(i) \cap repeated
             ahead(c) == {d \in C : signature(d) = signature(c)
                                       /\ Rank(d) < Rank(c)}
             priorAhead(p) == {q \in P : signature(q) = signature(p)
                                            /\ PriorBefore(q, p)}
             pairs == {pair \in C \X P :
                /\ signature(pair[1]) # {}
                /\ signature(pair[1]) = signature(pair[2])
                /\ Cardinality(ahead(pair[1]))
                      = Cardinality(priorAhead(pair[2]))}
  <1>1. CohortPairs(a, C, P) = pairs
    BY DEF CohortPairs
  <1> HIDE DEF repeated
  <1>2. ASSUME NEW x \in pairs, NEW y \in pairs
        PROVE  (x[1] = y[1]) <=> (x[2] = y[2])
    <2>1. /\ x[1] \in C /\ x[2] \in P /\ signature(x[1]) = signature(x[2])
          /\ y[1] \in C /\ y[2] \in P /\ signature(y[1]) = signature(y[2])
          /\ Cardinality(ahead(x[1])) = Cardinality(priorAhead(x[2]))
          /\ Cardinality(ahead(y[1])) = Cardinality(priorAhead(y[2]))
      OBVIOUS
    <2>2. ASSUME NEW p \in P, NEW q \in P, PriorBefore(p, q),
                 signature(p) = signature(q)
          PROVE  Cardinality(priorAhead(p)) # Cardinality(priorAhead(q))
      <3>1. priorAhead(p) \subseteq priorAhead(q)
        BY <2>2, PriorOrder
      <3>2. p \in priorAhead(q) /\ p \notin priorAhead(p)
        BY <2>2, PriorOrder
      <3>3. IsFiniteSet(priorAhead(q))
        BY FS_Subset DEF Ordered
      <3> HIDE DEF priorAhead
      <3> QED
        BY <3>1, <3>2, <3>3, StrictlyFewer
    <2>3. ASSUME NEW c \in C, NEW d \in C, Rank(c) < Rank(d),
                 signature(c) = signature(d)
          PROVE  Cardinality(ahead(c)) # Cardinality(ahead(d))
      <3>1. Rank(c) \in Nat /\ Rank(d) \in Nat /\ \A e \in C : Rank(e) \in Nat
        BY DEF Ranked
      <3>2. ahead(c) \subseteq ahead(d)
        BY <2>3, <3>1
      <3>3. c \in ahead(d) /\ c \notin ahead(c)
        BY <2>3, <3>1
      <3>4. IsFiniteSet(ahead(d))
        BY FS_Subset DEF Ranked
      <3> HIDE DEF ahead
      <3> QED
        BY <3>2, <3>3, <3>4, StrictlyFewer
    <2> HIDE DEF ahead, priorAhead, signature, pairs
    <2>4. ASSUME x[1] = y[1] PROVE x[2] = y[2]
      <3>1. signature(x[2]) = signature(y[2])
        BY <2>1, <2>4
      <3>2. Cardinality(priorAhead(x[2])) = Cardinality(priorAhead(y[2]))
        BY <2>1, <2>4
      <3>3. x[2] # y[2] => PriorBefore(x[2], y[2]) \/ PriorBefore(y[2], x[2])
        BY <2>1 DEF Ordered
      <3> QED
        BY <2>1, <2>2, <3>1, <3>2, <3>3
    <2>5. ASSUME x[2] = y[2] PROVE x[1] = y[1]
      <3>1. signature(x[1]) = signature(y[1])
        BY <2>1, <2>5
      <3>2. Cardinality(ahead(x[1])) = Cardinality(ahead(y[1]))
        BY <2>1, <2>5
      <3>3. Rank(x[1]) \in Nat /\ Rank(y[1]) \in Nat
        BY <2>1 DEF Ranked
      <3>4. x[1] # y[1] => Rank(x[1]) < Rank(y[1]) \/ Rank(y[1]) < Rank(x[1])
        BY <2>1, <3>3 DEF Ranked
      <3> QED
        BY <2>1, <2>3, <3>1, <3>2, <3>4
    <2> QED
      BY <2>4, <2>5
  <1>3. pairs \subseteq C \X P
    OBVIOUS
  <1> QED
    BY <1>1, <1>2, <1>3 DEF IsMatching

LEMMA FallbackMatching ==
    ASSUME NEW a, NEW G, NEW Q, NEW C, NEW P, Ranked(C), Ordered(P)
    PROVE  /\ FallbackPairs(a, G, Q, C, P) \subseteq C \X P
           /\ IsMatching(FallbackPairs(a, G, Q, C, P))
  <1> DEFINE heirs == {p \in P : <<"semantic", a>> \in Tokens(p)}
             pairs == FallbackPairs(a, G, Q, C, P)
  <1>1. pairs \subseteq C \X heirs
    BY DEF FallbackPairs
  <1>2. ASSUME NEW x \in pairs, NEW y \in pairs
        PROVE  x[1] = y[1] /\ x[2] = y[2]
    <2>1. /\ x[1] \in C /\ y[1] \in C /\ x[2] \in heirs /\ y[2] \in heirs
          /\ FirstPrior(x[2], heirs) /\ FirstPrior(y[2], heirs)
          /\ \A c \in C : c = x[1] \/ Rank(x[1]) < Rank(c)
          /\ \A c \in C : c = y[1] \/ Rank(y[1]) < Rank(c)
      BY DEF FallbackPairs
    <2>2. x[2] = y[2]
      BY <2>1, OneFirst, OrderedSubset
    <2>3. Rank(x[1]) \in Nat /\ Rank(y[1]) \in Nat
      BY <2>1 DEF Ranked
    <2> QED
      BY <2>1, <2>2, <2>3
  <1> QED
    BY <1>1, <1>2 DEF IsMatching

(* A stage works on what the stages before it have left.                   *)
LEMMA StageMatching ==
    ASSUME NEW C, NEW P, NEW m, NEW n, m \subseteq C \X P, IsMatching(m),
           n \subseteq (C \ Lefts(m)) \X (P \ Rights(m)), IsMatching(n)
    PROVE  m \cup n \subseteq C \X P /\ IsMatching(m \cup n)
  <1>1. ASSUME NEW x \in m, NEW y \in n PROVE x[1] # y[1] /\ x[2] # y[2]
    BY <1>1 DEF Lefts, Rights
  <1> QED
    BY <1>1 DEF IsMatching

LEMMA GroupMatching ==
    ASSUME NEW a, NEW cs, NEW ps,
           Ranked({c \in cs : c.anchor = a}), Ordered(PriorGroup(a, cs, ps)),
           NEW m \in GroupMatchings(a, cs, ps)
    PROVE  /\ m \subseteq {c \in cs : c.anchor = a} \X PriorGroup(a, cs, ps)
           /\ IsMatching(m)
  <1> DEFINE G == {c \in cs : c.anchor = a}
             Q == PriorGroup(a, cs, ps)
             exact == ExactPairs(G, Q)
             strongest == StrongestPairs(G \ Lefts(exact), Q \ Rights(exact))
             co(k) == CohortPairs(a, G \ Lefts(k), Q \ Rights(k))
             fb(l) == FallbackPairs(a, G, Q, G \ Lefts(l), Q \ Rights(l))
  <1>1. m \in {l \cup fb(l) :
                 l \in {k \cup co(k) : k \in {exact \cup s : s \in strongest}}}
    BY ZenonT(30) DEF GroupMatchings
  <1>2. \A s \in strongest :
           /\ s \subseteq (G \ Lefts(exact)) \X (Q \ Rights(exact))
           /\ IsMatching(s)
    BY DEF StrongestPairs
  <1>3. Ranked(G) /\ Ordered(Q)
    OBVIOUS
  <1> HIDE DEF G, Q
  <1>4. exact \subseteq G \X Q /\ IsMatching(exact)
    BY <1>3, ExactMatching
  <1>5. ASSUME NEW k, k \subseteq G \X Q, IsMatching(k)
        PROVE  k \cup co(k) \subseteq G \X Q /\ IsMatching(k \cup co(k))
    <2>1. Ranked(G \ Lefts(k)) /\ Ordered(Q \ Rights(k))
      BY <1>3, RankedSubset, OrderedSubset
    <2>2. /\ co(k) \subseteq (G \ Lefts(k)) \X (Q \ Rights(k))
          /\ IsMatching(co(k))
      BY <2>1, CohortMatching
    <2> HIDE DEF co
    <2> QED
      BY <1>5, <2>2, StageMatching
  <1>6. ASSUME NEW l, l \subseteq G \X Q, IsMatching(l)
        PROVE  l \cup fb(l) \subseteq G \X Q /\ IsMatching(l \cup fb(l))
    <2>1. Ranked(G \ Lefts(l)) /\ Ordered(Q \ Rights(l))
      BY <1>3, RankedSubset, OrderedSubset
    <2>2. /\ fb(l) \subseteq (G \ Lefts(l)) \X (Q \ Rights(l))
          /\ IsMatching(fb(l))
      BY <2>1, FallbackMatching
    <2> HIDE DEF fb
    <2> QED
      BY <1>6, <2>2, StageMatching
  <1> HIDE DEF strongest, exact, co, fb
  <1>7. PICK s \in strongest :
             m = (exact \cup s) \cup co(exact \cup s)
                    \cup fb((exact \cup s) \cup co(exact \cup s))
    BY <1>1
  <1> DEFINE k == exact \cup s
             l == k \cup co(k)
  <1>8. k \subseteq G \X Q /\ IsMatching(k)
    BY <1>2, <1>4, StageMatching DEF exact
  <1> HIDE DEF k
  <1>9. l \subseteq G \X Q /\ IsMatching(l)
    BY <1>5, <1>8
  <1> HIDE DEF l
  <1>10. l \cup fb(l) \subseteq G \X Q /\ IsMatching(l \cup fb(l))
    BY <1>6, <1>9
  <1>11. m = l \cup fb(l)
    BY <1>7 DEF k, l
  <1> QED
    BY <1>10, <1>11 DEF G, Q

-----------------------------------------------------------------------------
(* The plan accounts for every finding                                     *)

PriorOk(ps) ==
    /\ IsFiniteSet(ps)
    /\ \A p \in ps : Derived(p) /\ p.thread \in Nat
    /\ \A p, q \in ps : /\ p.thread = q.thread
                        /\ p.thread = 0 => p.fingerprint = q.fingerprint
                        => p = q

LEMMA PriorFacts ==
    ASSUME NEW bodies, BodyOk(bodies), NEW ts, ThreadsOk(ts)
    PROVE  /\ PriorOk(Prior(bodies, ts))
           /\ \A p \in Prior(bodies, ts) : p.thread # 0 <=> p \in ts
  <1> DEFINE inBody(i) == [fingerprint |-> i.fingerprint, aliases |-> i.aliases,
                           thread |-> 0]
             B == {inBody(i) : i \in bodies}
  <1>1. Prior(bodies, ts) = B \cup ts
    BY DEF Prior
  <1>2. IsFiniteSet(B)
    <2> DEFINE h == [i \in bodies |-> inBody(i)]
    <2>1. h \in [bodies -> B] /\ \A b \in B : \E i \in bodies : h[i] = b
      BY DEF B
    <2> HIDE DEF h, B
    <2> QED
      BY <2>1, ImageFinite DEF BodyOk
  <1>3. IsFiniteSet(B \cup ts)
    BY <1>2, FS_Union DEF ThreadsOk
  <1>4. ASSUME NEW b \in B
        PROVE  /\ Derived(b) /\ b.thread = 0
               /\ \E i \in bodies : b = inBody(i)
    <2>1. PICK i \in bodies : b = inBody(i)
      OBVIOUS
    <2>2. /\ b.fingerprint = i.fingerprint /\ b.aliases = i.aliases
          /\ b.thread = 0
      BY <2>1
    <2>3. Tokens(b) = Tokens(i) /\ Derived(i)
      BY <2>2 DEF Tokens, BodyOk
    <2> QED
      BY <2>1, <2>2, <2>3 DEF Derived
  <1>5. ASSUME NEW t \in ts PROVE Derived(t) /\ t.thread \in Nat \ {0}
    BY DEF ThreadsOk
  <1>6. ASSUME NEW b \in B, NEW d \in B, b.fingerprint = d.fingerprint
        PROVE  b = d
    <2>1. PICK i \in bodies : b = inBody(i)
      OBVIOUS
    <2>2. PICK j \in bodies : d = inBody(j)
      OBVIOUS
    <2>3. i.fingerprint = j.fingerprint
      BY <1>6, <2>1, <2>2
    <2>4. i = j
      BY <2>3 DEF BodyOk
    <2> QED
      BY <2>1, <2>2, <2>4
  <1>7. \A t, u \in ts : t.thread = u.thread => t = u
    BY DEF ThreadsOk
  <1> HIDE DEF B
  <1> QED
    BY <1>1, <1>3, <1>4, <1>5, <1>6, <1>7 DEF PriorOk

(* A prior identity that a finding continues is of its anchor.             *)
LEMMA GroupAnchor ==
    ASSUME NEW cs, \A c \in cs : Anchored(c, c.anchor), NEW ps,
           NEW a, NEW p \in PriorGroup(a, cs, ps), Derived(p)
    PROVE  Anchored(p, a)
  <1>1. PICK b : Anchored(p, b)
    BY DerivedAnchored
  <1>2. MayContinue(p, a, cs)
    BY DEF PriorGroup
  <1>3. ASSUME NEW c \in cs, c.anchor = a, c.fingerprint \in Tokens(p)
        PROVE  a = b
    <2>1. c.fingerprint \in Tokens(c)
      BY DEF Tokens
    <2>2. c.fingerprint[2] = a
      BY <1>3, <2>1 DEF Anchored
    <2>3. c.fingerprint[2] = b
      BY <1>1, <1>3 DEF Anchored
    <2> QED
      BY <2>2, <2>3
  <1>4. a = b
    BY <1>1, <1>2, <1>3, OneAnchor DEF MayContinue
  <1> QED
    BY <1>1, <1>4

Joined(g, cs) == UNION {g[a] : a \in Anchors(cs)}

LEMMA PlanMatching ==
    ASSUME NEW cs, NEW ps, CurrentOk(cs), PriorOk(ps),
           NEW g, \A a \in Anchors(cs) : g[a] \in GroupMatchings(a, cs, ps)
    PROVE  /\ Joined(g, cs) \subseteq cs \X ps /\ IsMatching(Joined(g, cs))
           /\ \A x \in Joined(g, cs) : Anchored(x[2], x[1].anchor)
  <1> USE DEF CurrentOk, PriorOk
  <1> DEFINE G(a) == {c \in cs : c.anchor = a}
             Q(a) == PriorGroup(a, cs, ps)
             m == Joined(g, cs)
  <1>1. ASSUME NEW a \in Anchors(cs)
        PROVE  /\ g[a] \subseteq G(a) \X Q(a) /\ IsMatching(g[a])
               /\ \A p \in Q(a) : Anchored(p, a) /\ p \in ps
    <2>1. \A p \in Q(a) : p \in ps
      BY DEF PriorGroup
    <2>2. \A p \in Q(a) : Anchored(p, a)
      BY <2>1, GroupAnchor
    <2>3. IsFiniteSet(G(a)) /\ IsFiniteSet(Q(a))
      BY <2>1, FS_Subset
    <2>4. \A c \in G(a) : Anchored(c, a)
      OBVIOUS
    <2>5. Ranked(G(a))
      BY <2>3, <2>4, RankedGroup
    <2>6. Ordered(Q(a))
      <3> HIDE DEF Q
      <3> QED
        BY <2>1, <2>2, <2>3, OrderedGroup
    <2>7. g[a] \subseteq G(a) \X Q(a) /\ IsMatching(g[a])
      BY <2>5, <2>6, GroupMatching
    <2> QED
      BY <2>1, <2>2, <2>7
  <1> HIDE DEF Q
  <1>2. ASSUME NEW x \in m
        PROVE  /\ x \in cs \X ps /\ Anchored(x[2], x[1].anchor)
               /\ x[1].anchor \in Anchors(cs) /\ x \in g[x[1].anchor]
    <2>1. PICK a \in Anchors(cs) : x \in g[a]
      BY DEF Joined
    <2>2. x \in G(a) \X Q(a)
      BY <1>1, <2>1
    <2>3. x[1].anchor = a
      BY <2>2
    <2> QED
      BY <1>1, <2>1, <2>2, <2>3
  <1>3. ASSUME NEW x \in m, NEW y \in m PROVE (x[1] = y[1]) <=> (x[2] = y[2])
    <2>1. ASSUME x[1].anchor = y[1].anchor
          PROVE  (x[1] = y[1]) <=> (x[2] = y[2])
      BY <1>1, <1>2, <2>1 DEF IsMatching
    <2>2. ASSUME x[2] = y[2] PROVE x[1].anchor = y[1].anchor
      <3>1. /\ Anchored(x[2], x[1].anchor) /\ Anchored(x[2], y[1].anchor)
        BY <1>2, <2>2
      <3>2. <<"semantic", y[1].anchor>> \in Tokens(x[2])
        BY <3>1 DEF Anchored
      <3> QED
        BY <3>1, <3>2, OneAnchor
    <2> QED
      BY <2>1, <2>2
  <1> QED
    BY <1>2, <1>3 DEF IsMatching

(* Findings of D that are new, that stay in the body, and threads of them. *)
InBody(D, m) == {c \in D : \E x \in m : x[1] = c /\ x[2].thread = 0}
OnThreads(D, m, P) ==
    {p \in P : p.thread # 0 /\ \E x \in m : x[2] = p /\ x[1] \in D}

LEMMA Partition ==
    ASSUME NEW C, NEW P, IsFiniteSet(C), IsFiniteSet(P),
           NEW m, m \subseteq C \X P, IsMatching(m), NEW D, D \subseteq C
    PROVE  /\ IsFiniteSet(D \ Lefts(m)) /\ IsFiniteSet(InBody(D, m))
           /\ IsFiniteSet(OnThreads(D, m, P))
           /\ Cardinality(InBody(D, m)) + Cardinality(OnThreads(D, m, P))
                 + Cardinality(D \ Lefts(m)) = Cardinality(D)
  <1> USE DEF InBody, OnThreads
  <1> DEFINE N == D \ Lefts(m)
             K == InBody(D, m)
             L == {c \in D : \E x \in m : x[1] = c /\ x[2].thread # 0}
             T == OnThreads(D, m, P)
             of(c) == CHOOSE p \in P : <<c, p>> \in m
             h == [c \in L |-> of(c)]
  <1>1. IsFiniteSet(D) /\ IsFiniteSet(N) /\ IsFiniteSet(K) /\ IsFiniteSet(L)
    BY FS_Subset
  <1>2. \A x \in m : x[1] \in C /\ x[2] \in P /\ x = <<x[1], x[2]>>
    OBVIOUS
  <1>3. ASSUME NEW x \in m PROVE of(x[1]) = x[2]
    <2>1. <<x[1], of(x[1])>> \in m
      BY <1>2
    <2> HIDE DEF of
    <2> DEFINE y == <<x[1], of(x[1])>>
    <2>2. y \in m /\ y[1] = x[1] /\ y[2] = of(x[1])
      BY <2>1
    <2> QED
      BY <2>2 DEF IsMatching
  <1>4. IsFiniteSet(T) /\ Cardinality(T) = Cardinality(L)
    <2> HIDE DEF of
    <2>1. ASSUME NEW c \in L
          PROVE  of(c) \in T /\ \E x \in m : x[1] = c /\ x[2] = of(c)
      <3>1. PICK x \in m : x[1] = c /\ x[2].thread # 0
        OBVIOUS
      <3> QED
        BY <1>2, <1>3, <3>1
    <2>2. h \in [L -> T]
      BY <2>1
    <2>3. ASSUME NEW c \in L, NEW d \in L, h[c] = h[d] PROVE c = d
      <3>1. of(c) = of(d)
        BY <2>3
      <3> QED
        BY <2>1, <3>1 DEF IsMatching
    <2>4. ASSUME NEW p \in T PROVE \E c \in L : h[c] = p
      <3>1. PICK x \in m : x[2] = p /\ x[1] \in D /\ p.thread # 0
        OBVIOUS
      <3>2. x[1] \in L
        BY <3>1
      <3> QED
        BY <1>3, <3>1, <3>2
    <2> HIDE DEF h, L, T
    <2> QED
      BY <1>1, <2>2, <2>3, <2>4, SameCount
  <1>5. D = (N \cup K) \cup L
    BY DEF Lefts
  <1>6. N \cap K = {} /\ (N \cup K) \cap L = {}
    <2>1. N \cap K = {} /\ N \cap L = {}
      BY DEF Lefts
    <2>2. ASSUME NEW c \in K, c \in L PROVE FALSE
      <3>1. PICK x \in m : x[1] = c /\ x[2].thread = 0
        OBVIOUS
      <3>2. PICK y \in m : y[1] = c /\ y[2].thread # 0
        BY <2>2
      <3> QED
        BY <3>1, <3>2 DEF IsMatching
    <2> QED
      BY <2>1, <2>2
  <1> HIDE DEF N, K, L, T
  <1>7. /\ IsFiniteSet(N \cup K)
        /\ Cardinality(N \cup K) = Cardinality(N) + Cardinality(K)
    BY <1>1, <1>6, DisjointCount
  <1>8. Cardinality(D) = Cardinality(N) + Cardinality(K) + Cardinality(L)
    <2>1. Cardinality((N \cup K) \cup L)
             = Cardinality(N \cup K) + Cardinality(L)
      BY <1>1, <1>6, <1>7, DisjointCount
    <2> QED
      BY <1>5, <1>7, <2>1
  <1>9. /\ Cardinality(N) \in Nat /\ Cardinality(K) \in Nat
        /\ Cardinality(L) \in Nat
    BY <1>1, FS_CardinalityType
  <1>10. Cardinality(K) + Cardinality(T) + Cardinality(N) = Cardinality(D)
    BY <1>4, <1>8, <1>9
  <1> QED
    BY <1>1, <1>4, <1>10 DEF N, K, T

(* A plan keeps, in the body and on threads, or publishes one identity for *)
(* each finding, of the anchor of the finding.                             *)
PlanOk(p, report, bodies, ts) ==
    /\ Balance(p.body, {t \in ts : t.thread \notin p.obsolete}, p.netNew, report)
    /\ BodyOk(p.body) /\ Distinct(p.netNew) /\ \A i \in p.netNew : Derived(i)
    /\ p.bodyChanged = (p.body # bodies)
    /\ report = {} => p.body = {}

LEMMA PlanBalance ==
    ASSUME NEW report, ReportOk(report), NEW bodies, BodyOk(bodies),
           NEW ts, ThreadsOk(ts), NEW p \in Plans(report, bodies, ts)
    PROVE  PlanOk(p, report, bodies, ts)
  <1> DEFINE cs == Current(report)
             ps == Prior(bodies, ts)
             kept(m) == {Bare(pair[1]) : pair \in {x \in m : x[2].thread = 0}}
  <1>1. /\ CurrentOk(cs) /\ Cardinality(cs) = Cardinality(report)
        /\ \A a : Cardinality(OfAnchor(cs, a)) = Cardinality(OfAnchor(report, a))
    BY CurrentFacts
  <1>2. PriorOk(ps) /\ \A q \in ps : q.thread # 0 <=> q \in ts
    BY PriorFacts
  <1>3. ts \subseteq ps /\ (report = {} => cs = {})
    BY DEF Prior, Current
  <1>4. PICK g : /\ \A a \in Anchors(cs) : g[a] \in GroupMatchings(a, cs, ps)
                 /\ p = PlanOf(Joined(g, cs), cs, bodies, ps)
    BY DEF Plans, Joined
  <1> DEFINE m == Joined(g, cs)
  <1>5. /\ p.netNew = {Bare(c) : c \in cs \ Lefts(m)}
        /\ p.obsolete = {q.thread : q \in ps \ Rights(m)} \ {0}
        /\ p.body = kept(m) /\ p.bodyChanged = (kept(m) # bodies)
    BY <1>4 DEF PlanOf, Bare
  <1> HIDE DEF cs, ps
  <1>6. /\ m \subseteq cs \X ps /\ IsMatching(m)
        /\ \A x \in m : Anchored(x[2], x[1].anchor)
    BY <1>1, <1>2, <1>4, PlanMatching
  <1> HIDE DEF m
  <1> DEFINE N(D) == D \ Lefts(m)
             K(D) == InBody(D, m)
             T(D) == OnThreads(D, m, ps)
             Bares(D) == {Bare(c) : c \in D}
             live == {t \in ts : t.thread \notin p.obsolete}
  <1>7. ASSUME NEW D \in SUBSET cs
        PROVE  /\ IsFiniteSet(N(D)) /\ IsFiniteSet(K(D)) /\ IsFiniteSet(T(D))
               /\ Cardinality(K(D)) + Cardinality(T(D)) + Cardinality(N(D))
                    = Cardinality(D)
    <2>1. IsFiniteSet(cs) /\ IsFiniteSet(ps) /\ D \subseteq cs
      BY <1>1, <1>2 DEF CurrentOk, PriorOk
    <2>2. m \subseteq cs \X ps /\ IsMatching(m)
      BY <1>6
    <2>3. /\ IsFiniteSet(D \ Lefts(m)) /\ IsFiniteSet(InBody(D, m))
          /\ IsFiniteSet(OnThreads(D, m, ps))
          /\ Cardinality(InBody(D, m)) + Cardinality(OnThreads(D, m, ps))
                + Cardinality(D \ Lefts(m)) = Cardinality(D)
      BY ONLY <2>1, <2>2, Partition
    <2> QED
      BY <2>3
  <1>8. \A c \in cs : /\ Bare(c).fingerprint = c.fingerprint
                      /\ Tokens(Bare(c)) = Tokens(c)
    BY DEF Bare, Tokens
  <1>9. ASSUME NEW D \in SUBSET cs, IsFiniteSet(D)
        PROVE  IsFiniteSet(Bares(D)) /\ Cardinality(Bares(D)) = Cardinality(D)
    <2> DEFINE h == [c \in D |-> Bare(c)]
    <2>1. h \in [D -> Bares(D)] /\ \A b \in Bares(D) : \E c \in D : h[c] = b
      OBVIOUS
    <2>2. ASSUME NEW c \in D, NEW d \in D, h[c] = h[d] PROVE c = d
      <3>1. Bare(c) = Bare(d)
        BY <2>2
      <3>2. c.fingerprint = d.fingerprint
        BY <1>8, <3>1
      <3> QED
        BY <1>1, <3>2 DEF CurrentOk
    <2> HIDE DEF h, Bares
    <2> QED
      BY <1>9, <2>1, <2>2, SameCount
  <1>10. p.netNew = Bares(N(cs)) /\ p.body = Bares(K(cs))
    <2>1. \A x \in m : x[1] \in cs
      BY <1>6
    <2> QED
      BY <1>5, <2>1 DEF InBody
  <1>11. live = T(cs)
    <2>1. ASSUME NEW t \in live PROVE t \in T(cs)
      <3>1. t \in ps /\ t.thread # 0
        BY <1>2, <1>3
      <3>2. t \in Rights(m)
        BY <1>5, <3>1
      <3> QED
        BY <1>6, <3>1, <3>2 DEF Rights, OnThreads
    <2>2. ASSUME NEW t \in T(cs) PROVE t \in live
      <3>1. t \in ts /\ t \in Rights(m) /\ t.thread # 0 /\ t \in ps
        BY <1>2 DEF Rights, OnThreads
      <3>2. ASSUME NEW q \in ps \ Rights(m), q.thread = t.thread PROVE FALSE
        BY <1>2, <3>1, <3>2 DEF PriorOk
      <3> QED
        BY <1>5, <3>1, <3>2
    <2> QED
      BY <2>1, <2>2
  <1>12. \A c \in cs : \A a : <<"semantic", a>> \in Tokens(c) <=> c.anchor = a
    <2> SUFFICES ASSUME NEW c \in cs, NEW a
                 PROVE  <<"semantic", a>> \in Tokens(c) <=> c.anchor = a
      OBVIOUS
    <2>1. Anchored(c, c.anchor)
      BY <1>1 DEF CurrentOk
    <2> QED
      BY <2>1, OneAnchor DEF Anchored
  <1>13. ASSUME NEW a
         PROVE  Of(p.body, a) + Of(live, a) + Of(p.netNew, a)
                   = Cardinality(OfAnchor(report, a))
    <2> DEFINE D == OfAnchor(cs, a)
               sem(S) == {i \in S : <<"semantic", a>> \in Tokens(i)}
    <2>1. sem(Bares(N(cs))) = Bares(N(D))
      BY <1>8, <1>12 DEF OfAnchor
    <2>2. sem(Bares(K(cs))) = Bares(K(D))
      BY <1>8, <1>12 DEF OfAnchor, InBody
    <2>3. sem(T(cs)) = T(D)
      <3>1. ASSUME NEW x \in m
            PROVE  /\ x[1] \in cs
                   /\ <<"semantic", a>> \in Tokens(x[2]) <=> x[1].anchor = a
        <4>1. Anchored(x[2], x[1].anchor)
          BY <1>6
        <4> QED
          BY <1>6, <4>1, OneAnchor DEF Anchored
      <3> QED
        BY <3>1 DEF OfAnchor, OnThreads
    <2>4. D \in SUBSET cs /\ N(D) \in SUBSET cs /\ K(D) \in SUBSET cs
      BY DEF OfAnchor, InBody
    <2>5. /\ IsFiniteSet(N(D)) /\ IsFiniteSet(K(D))
          /\ Cardinality(K(D)) + Cardinality(T(D)) + Cardinality(N(D))
               = Cardinality(D)
      BY <1>7, <2>4
    <2>6. /\ Cardinality(Bares(N(D))) = Cardinality(N(D))
          /\ Cardinality(Bares(K(D))) = Cardinality(K(D))
      BY <1>9, <2>4, <2>5
    <2>7. /\ Of(p.netNew, a) = Cardinality(N(D))
          /\ Of(p.body, a) = Cardinality(K(D))
          /\ Of(live, a) = Cardinality(T(D))
      <3> HIDE DEF N, K, T, D, Bares, live
      <3> QED
        BY <1>10, <1>11, <2>1, <2>2, <2>3, <2>6 DEF Of
    <2> QED
      BY <1>1, <2>5, <2>7
  <1>14. /\ IsFiniteSet(p.body) /\ IsFiniteSet(live) /\ IsFiniteSet(p.netNew)
         /\ Cardinality(p.body) + Cardinality(live) + Cardinality(p.netNew)
              = Cardinality(report)
    <2>1. cs \in SUBSET cs /\ N(cs) \in SUBSET cs /\ K(cs) \in SUBSET cs
      BY DEF InBody
    <2>2. /\ IsFiniteSet(N(cs)) /\ IsFiniteSet(K(cs)) /\ IsFiniteSet(T(cs))
          /\ Cardinality(K(cs)) + Cardinality(T(cs)) + Cardinality(N(cs))
               = Cardinality(cs)
      BY <1>7, <2>1
    <2>3. /\ IsFiniteSet(Bares(N(cs))) /\ IsFiniteSet(Bares(K(cs)))
          /\ Cardinality(Bares(N(cs))) = Cardinality(N(cs))
          /\ Cardinality(Bares(K(cs))) = Cardinality(K(cs))
      BY <1>9, <2>1, <2>2
    <2> HIDE DEF N, K, T, Bares, live
    <2> QED
      BY <1>1, <1>10, <1>11, <2>2, <2>3
  <1>15. ASSUME NEW S \in SUBSET cs
         PROVE  /\ \A b \in Bares(S) : Derived(b)
                /\ \A b, d \in Bares(S) : b.fingerprint = d.fingerprint => b = d
    <2>1. ASSUME NEW b \in Bares(S) PROVE Derived(b)
      <3>1. PICK c \in cs : b = Bare(c)
        OBVIOUS
      <3>2. Anchored(c, c.anchor)
        BY <1>1 DEF CurrentOk
      <3>3. Anchored(b, c.anchor)
        BY <1>8, <3>1, <3>2 DEF Anchored
      <3> QED
        BY <3>3, AnchoredDerived
    <2>2. ASSUME NEW b \in Bares(S), NEW d \in Bares(S),
                 b.fingerprint = d.fingerprint
          PROVE  b = d
      <3>1. PICK c \in cs : b = Bare(c)
        OBVIOUS
      <3>2. PICK e \in cs : d = Bare(e)
        OBVIOUS
      <3>3. c = e
        BY <1>1, <1>8, <2>2, <3>1, <3>2 DEF CurrentOk
      <3> QED
        BY <3>1, <3>2, <3>3
    <2> QED
      BY <2>1, <2>2
  <1>16. /\ \A b \in p.body \cup p.netNew : Derived(b)
         /\ \A b, d \in p.body : b.fingerprint = d.fingerprint => b = d
         /\ \A b, d \in p.netNew : b.fingerprint = d.fingerprint => b = d
    <2>1. N(cs) \in SUBSET cs /\ K(cs) \in SUBSET cs
      BY DEF InBody
    <2> HIDE DEF N, K, Bares
    <2> QED
      BY <1>10, <1>15, <2>1
  <1>17. report = {} => p.body = {}
    BY <1>3, <1>10 DEF InBody
  <1>18. p.bodyChanged = (p.body # bodies)
    BY <1>5
  <1>19. BodyOk(p.body)
    BY <1>14, <1>16 DEF BodyOk
  <1>20. Balance(p.body, live, p.netNew, report)
    BY <1>13, <1>14 DEF Balance, OfAnchor
  <1> QED
    BY <1>16, <1>17, <1>18, <1>19, <1>20 DEF PlanOk, Distinct
-----------------------------------------------------------------------------
(* What a publication adds                                                 *)

Thread(i, t) ==
    [fingerprint |-> i.fingerprint, aliases |-> i.aliases, thread |-> t]
Opened(i) ==
    [fingerprint |-> i.fingerprint, aliases |-> i.aliases, open |-> TRUE]
OpenOf(ts) == {Thread(ts[t], t) : t \in {u \in DOMAIN ts : ts[u].open}}
LEMMA OpenAre == ASSUME NEW ts PROVE OpenIn(ts) = OpenOf(ts)
  BY DEF OpenIn, OpenOf, Thread

LEMMA OpenThreadsAre == OpenThreads = OpenOf(threads)
  BY OpenAre DEF OpenThreads

LEMMA ThreadTokens ==
    ASSUME NEW i, NEW t
    PROVE  /\ Thread(i, t).fingerprint = i.fingerprint
           /\ Thread(i, t).thread = t
           /\ Tokens(Thread(i, t)) = Tokens(i)
           /\ Derived(i) => Derived(Thread(i, t))
  <1>1. /\ Thread(i, t).fingerprint = i.fingerprint
        /\ Thread(i, t).thread = t
        /\ Tokens(Thread(i, t)) = Tokens(i)
    BY DEF Thread, Tokens
  <1> QED
    BY <1>1 DEF Derived

LEMMA OpenThreadsOk ==
    ASSUME NEW ts, Listed(ts), \A t \in DOMAIN ts : Derived(ts[t])
    PROVE  ThreadsOk(OpenOf(ts))
  <1> DEFINE D == {u \in DOMAIN ts : ts[u].open}
  <1>1. PICK S : ts \in Seq(S)
    BY DEF Listed
  <1>2. DOMAIN ts = 1 .. Len(ts) /\ Len(ts) \in Nat
    BY <1>1
  <1>3. IsFiniteSet(D) /\ D \subseteq Nat \ {0}
    <2>1. IsFiniteSet(DOMAIN ts)
      BY <1>2, FS_Interval
    <2> QED
      BY <1>2, <2>1, FS_Subset
  <1>4. \A t \in D : t \in DOMAIN ts
    OBVIOUS
  <1>5. OpenOf(ts) = {Thread(ts[t], t) : t \in D}
    BY DEF OpenOf
  <1> HIDE DEF D
  <1>6. IsFiniteSet(OpenOf(ts))
    <2> DEFINE h == [t \in D |-> Thread(ts[t], t)]
    <2>1. h \in [D -> OpenOf(ts)] /\ \A o \in OpenOf(ts) : \E t \in D : h[t] = o
      BY <1>5
    <2> HIDE DEF h
    <2> QED
      BY <1>3, <2>1, ImageFinite
  <1>7. ASSUME NEW o \in OpenOf(ts)
        PROVE  /\ o.thread \in D /\ o = Thread(ts[o.thread], o.thread)
               /\ Derived(o)
    BY <1>4, <1>5, ThreadTokens
  <1> QED
    BY <1>3, <1>6, <1>7 DEF ThreadsOk

LEMMA SetToSeqBijective ==
    ASSUME NEW S, IsFiniteSet(S)
    PROVE  LET q == SetToSeq(S)
               n == Cardinality(S)
           IN  /\ n \in Nat /\ q \in [1 .. n -> S] /\ q \in Seq(S)
               /\ Len(q) = n
               /\ \A j, k \in 1 .. n : q[j] = q[k] => j = k
               /\ \A x \in S : \E j \in 1 .. n : q[j] = x
  <1> DEFINE n == Cardinality(S)
             q == SetToSeq(S)
  <1>1. n \in Nat /\ ExistsBijection(1 .. n, S)
    BY FS_CardinalityType
  <1>2. PICK f \in [1 .. n -> S] : IsInjective(f)
    BY <1>1 DEF ExistsBijection, Bijection, Injection, IsInjective
  <1>3. q \in [1 .. n -> S] /\ IsInjective(q)
    BY <1>2 DEF SetToSeq
  <1> HIDE DEF n, q
  <1>4. q \in Injection(1 .. n, S) /\ \A j, k \in 1 .. n : q[j] = q[k] => j = k
    BY <1>3 DEF Injection, IsInjective
  <1>5. IsFiniteSet(1 .. n) /\ Cardinality(1 .. n) = n
    BY <1>1, FS_Interval
  <1>6. q \in Surjection(1 .. n, S)
    BY <1>4, <1>5, FS_Injection DEF n
  <1>7. \A x \in S : \E j \in 1 .. n : q[j] = x
    BY <1>6 DEF Surjection
  <1>8. q \in Seq(S) /\ Len(q) = n
    BY <1>1, <1>3
  <1> QED
    BY <1>1, <1>3, <1>4, <1>7, <1>8 DEF n, q

Extended(ts, n) == ts \o SetToSeq({Opened(i) : i \in n})

LEMMA OpenedCount ==
    ASSUME NEW ts, Listed(ts), NEW n, IsFiniteSet(n), Distinct(n)
    PROVE  \E new :
              /\ OpenOf(Extended(ts, n)) = OpenOf(ts) \cup new
              /\ OpenOf(ts) \cap new = {}
              /\ IsFiniteSet(new) /\ Cardinality(new) = Cardinality(n)
              /\ \A a : Of(new, a) = Of(n, a)
  <1> DEFINE S == {Opened(i) : i \in n}
             q == SetToSeq(S)
             m == Cardinality(S)
             k == Len(ts)
             r == ts \o q
             new == {Thread(q[j], k + j) : j \in 1 .. m}
  <1>1. IsFiniteSet(S)
    <2> DEFINE g == [i \in n |-> Opened(i)]
    <2>1. g \in [n -> S] /\ \A o \in S : \E i \in n : g[i] = o
      OBVIOUS
    <2> HIDE DEF g, S
    <2> QED
      BY <2>1, ImageFinite
  <1>2. \A o \in S : \E i \in n : o = Opened(i)
    OBVIOUS
  <1>3. \A i \in n : Opened(i) \in S
    OBVIOUS
  <1>4. \A i : /\ Opened(i).fingerprint = i.fingerprint
               /\ Opened(i).aliases = i.aliases /\ Opened(i).open
    BY DEF Opened
  <1> HIDE DEF S
  <1>5. /\ m \in Nat /\ q \in [1 .. m -> S] /\ q \in Seq(S) /\ Len(q) = m
        /\ \A j, l \in 1 .. m : q[j] = q[l] => j = l
        /\ \A x \in S : \E j \in 1 .. m : q[j] = x
    BY <1>1, SetToSeqBijective
  <1>6. PICK R : ts \in Seq(R)
    BY DEF Listed
  <1> HIDE DEF q, m
  <1>7. /\ k \in Nat /\ DOMAIN ts = 1 .. k /\ DOMAIN r = 1 .. (k + m)
        /\ \A t \in 1 .. k : r[t] = ts[t]
        /\ \A j \in 1 .. m : r[k + j] = q[j]
    <2>1. ts \in Seq(R \cup S) /\ q \in Seq(R \cup S)
      BY <1>5, <1>6
    <2> QED
      BY <1>5, <2>1
  <1> HIDE DEF r, k
  <1>8. OpenOf(r) = OpenOf(ts) \cup new
    <2>1. ASSUME NEW o \in OpenOf(r) PROVE o \in OpenOf(ts) \cup new
      <3>1. PICK t \in DOMAIN r : r[t].open /\ o = Thread(r[t], t)
        BY DEF OpenOf
      <3>2. CASE t \in 1 .. k
        BY <1>7, <3>1, <3>2 DEF OpenOf
      <3>3. CASE t \notin 1 .. k
        <4>1. t - k \in 1 .. m /\ k + (t - k) = t
          BY <1>5, <1>7, <3>1, <3>3
        <4>2. r[t] = q[t - k]
          BY <1>7, <4>1
        <4> QED
          BY <3>1, <4>1, <4>2
      <3> QED
        BY <3>2, <3>3
    <2>2. ASSUME NEW o \in OpenOf(ts) PROVE o \in OpenOf(r)
      <3>1. PICK t \in DOMAIN ts : ts[t].open /\ o = Thread(ts[t], t)
        BY DEF OpenOf
      <3>2. t \in DOMAIN r /\ r[t] = ts[t]
        BY <1>5, <1>7, <3>1
      <3> QED
        BY <3>1, <3>2 DEF OpenOf
    <2>3. ASSUME NEW o \in new PROVE o \in OpenOf(r)
      <3>1. PICK j \in 1 .. m : o = Thread(q[j], k + j)
        OBVIOUS
      <3>2. q[j].open
        BY <1>2, <1>4, <1>5
      <3>3. k + j \in DOMAIN r /\ r[k + j] = q[j]
        BY <1>5, <1>7
      <3> QED
        BY <3>1, <3>2, <3>3 DEF OpenOf
    <2> QED
      BY <2>1, <2>2, <2>3
  <1>9. OpenOf(ts) \cap new = {}
    <2> SUFFICES ASSUME NEW o \in OpenOf(ts), o \in new PROVE FALSE
      OBVIOUS
    <2>1. o.thread \in 1 .. k
      BY <1>7, ThreadTokens DEF OpenOf
    <2>2. PICK j \in 1 .. m : o = Thread(q[j], k + j)
      OBVIOUS
    <2>3. o.thread = k + j
      BY <2>2, ThreadTokens
    <2> QED
      BY <1>5, <1>7, <2>1, <2>3
  <1> DEFINE at(i) == CHOOSE j \in 1 .. m : q[j] = Opened(i)
             h == [i \in n |-> Thread(i, k + at(i))]
  <1>10. \A i \in n : at(i) \in 1 .. m /\ q[at(i)] = Opened(i)
    BY <1>3, <1>5
  <1> HIDE DEF at
  <1>11. ASSUME NEW i \in n, NEW t PROVE Thread(Opened(i), t) = Thread(i, t)
    BY <1>4 DEF Thread
  <1>12. \A i \in n : h[i] \in new
    <2> SUFFICES ASSUME NEW i \in n PROVE h[i] \in new
      OBVIOUS
    <2>1. h[i] = Thread(q[at(i)], k + at(i))
      BY <1>10, <1>11
    <2> QED
      BY <1>10, <2>1
  <1>13. \A o \in new : \E i \in n : h[i] = o
    <2> SUFFICES ASSUME NEW j \in 1 .. m
                 PROVE  \E i \in n : h[i] = Thread(q[j], k + j)
      OBVIOUS
    <2>1. PICK i \in n : q[j] = Opened(i)
      BY <1>2, <1>5
    <2>2. at(i) = j
      BY <1>5, <1>10, <2>1
    <2> QED
      BY <1>11, <2>1, <2>2
  <1>14. \A i, j \in n : h[i] = h[j] => i = j
    <2> SUFFICES ASSUME NEW i \in n, NEW j \in n, h[i] = h[j] PROVE i = j
      OBVIOUS
    <2>1. h[i].fingerprint = i.fingerprint /\ h[j].fingerprint = j.fingerprint
      BY ThreadTokens
    <2> QED
      BY <2>1 DEF Distinct
  <1>15. \A i \in n : Tokens(h[i]) = Tokens(i)
    BY ThreadTokens
  <1> HIDE DEF new
  <1>16. IsFiniteSet(new) /\ Cardinality(new) = Cardinality(n)
    <2>1. h \in [n -> new]
      BY <1>12
    <2> HIDE DEF h
    <2> QED
      BY <1>13, <1>14, <2>1, SameCount
  <1>17. ASSUME NEW a PROVE Of(new, a) = Of(n, a)
    <2> DEFINE sem(T) == {i \in T : <<"semantic", a>> \in Tokens(i)}
               e == [i \in sem(n) |-> h[i]]
    <2>1. e \in [sem(n) -> sem(new)]
      BY <1>12, <1>15
    <2>2. \A o \in sem(new) : \E i \in sem(n) : e[i] = o
      BY <1>13, <1>15
    <2>3. \A i, j \in sem(n) : e[i] = e[j] => i = j
      BY <1>14
    <2>4. IsFiniteSet(sem(n))
      BY FS_Subset
    <2> HIDE DEF e, sem
    <2>5. Cardinality(sem(new)) = Cardinality(sem(n))
      BY <2>1, <2>2, <2>3, <2>4, SameCount
    <2> QED
      BY <2>5 DEF sem, Of
  <1> QED
    BY <1>8, <1>9, <1>16, <1>17 DEF r, q, S, Extended

LEMMA OfUnion ==
    ASSUME NEW S, NEW T, IsFiniteSet(S), IsFiniteSet(T), S \cap T = {}, NEW a
    PROVE  /\ Of(S \cup T, a) = Of(S, a) + Of(T, a)
           /\ Of(S, a) \in Nat /\ Of(T, a) \in Nat
  <1> DEFINE sem(U) == {i \in U : <<"semantic", a>> \in Tokens(i)}
  <1>1. sem(S \cup T) = sem(S) \cup sem(T) /\ sem(S) \cap sem(T) = {}
    OBVIOUS
  <1>2. IsFiniteSet(sem(S)) /\ IsFiniteSet(sem(T))
    BY FS_Subset
  <1>3. \A U : Of(U, a) = Cardinality(sem(U))
    BY DEF Of
  <1> HIDE DEF sem
  <1>4. /\ Cardinality(sem(S) \cup sem(T))
              = Cardinality(sem(S)) + Cardinality(sem(T))
        /\ Cardinality(sem(S)) \in Nat /\ Cardinality(sem(T)) \in Nat
    BY ONLY <1>1, <1>2, DisjointCount
  <1> QED
    BY <1>1, <1>3, <1>4

LEMMA OfEmpty == ASSUME NEW a PROVE Of({}, a) = 0
  <1>1. {i \in {} : <<"semantic", a>> \in Tokens(i)} = {}
    OBVIOUS
  <1> QED
    BY <1>1, FS_EmptySet DEF Of

LEMMA PublishBalance ==
    ASSUME NEW ts, Listed(ts), NEW n, Distinct(n), NEW b, NEW report,
           Balance(b, OpenOf(ts), n, report)
    PROVE  Balance(b, OpenOf(Extended(ts, n)), {}, report)
  <1> DEFINE o == OpenOf(ts)
             p == OpenOf(Extended(ts, n))
  <1>1. /\ IsFiniteSet(b) /\ IsFiniteSet(o) /\ IsFiniteSet(n)
        /\ Cardinality(b) + Cardinality(o) + Cardinality(n)
              = Cardinality(report)
        /\ \A f \in report :
              Of(b, f.anchor) + Of(o, f.anchor) + Of(n, f.anchor)
                 = Cardinality({g \in report : g.anchor = f.anchor})
    BY DEF Balance
  <1>2. PICK new : /\ p = o \cup new /\ o \cap new = {}
                   /\ IsFiniteSet(new) /\ Cardinality(new) = Cardinality(n)
                   /\ \A a : Of(new, a) = Of(n, a)
    BY <1>1, OpenedCount
  <1> HIDE DEF o, p
  <1>3. /\ IsFiniteSet(p) /\ Cardinality(p) = Cardinality(o) + Cardinality(n)
        /\ Cardinality(o) \in Nat /\ Cardinality(n) \in Nat
    <2>1. IsFiniteSet(new) /\ p = o \cup new /\ o \cap new = {}
      BY <1>2
    <2>2. /\ IsFiniteSet(o \cup new)
          /\ Cardinality(o \cup new) = Cardinality(o) + Cardinality(new)
          /\ Cardinality(o) \in Nat /\ Cardinality(new) \in Nat
      BY ONLY <1>1, <2>1, DisjointCount
    <2> QED
      BY <1>2, <2>1, <2>2
  <1>4. Cardinality(b) \in Nat /\ IsFiniteSet({}) /\ Cardinality({}) = 0
    BY <1>1, FS_CardinalityType, FS_EmptySet
  <1>5. ASSUME NEW a
        PROVE  /\ Of(p, a) = Of(o, a) + Of(n, a) /\ Of({}, a) = 0
               /\ Of(o, a) \in Nat /\ Of(n, a) \in Nat /\ Of(b, a) \in Nat
    <2>1. Of(b, a) \in Nat
      BY <1>1, <1>4, OfUnion
    <2> QED
      BY <1>1, <1>2, <2>1, OfUnion, OfEmpty
  <1>6. Cardinality(b) + Cardinality(p) + Cardinality({}) = Cardinality(report)
    BY <1>1, <1>3, <1>4
  <1>7. ASSUME NEW f \in report
        PROVE  Of(b, f.anchor) + Of(p, f.anchor) + Of({}, f.anchor)
                  = Cardinality({g \in report : g.anchor = f.anchor})
    BY <1>1, <1>5, <1>7
  <1> QED
    BY <1>1, <1>3, <1>4, <1>6, <1>7 DEF Balance, p

-----------------------------------------------------------------------------
(* No draft of another review comes between what a review reads and what   *)
(* it leaves                                                               *)

(* A request to submit a draft and one to create it are never both under   *)
(* way, a draft that is published does not come back, and a submission     *)
(* that finds its draft gone does nothing.                                 *)
NeverBoth(r) == ~(OnWire("submit", r) /\ OnWire("create", r))
Gone(r) == r \in shown => draft.run # r /\ ~OnWire("create", r)
Inert(r) == ~(OnWire("submit", r) /\ draft.run = r)

(* The sweep has left nothing that could still be published but the draft  *)
(* it is settling; from then on the review's own submission is the only    *)
(* one.  A complete review leaves none behind, nor does one that found     *)
(* nothing.                                                                *)
Sweeping == Settling /\ goal = "sweep"
Late == pc \in {"rejected", "unanswered"} \/ (Settling /\ goal = "submission")
Planned == {"resolveHead", "resolve", "create", "draftHead", "submit"}
Early == {"model", "sweep"}
Swept == pc \in {"bodies", "threads"} \cup Planned \cup Conclusions
Rested == pc = "idle" /\ (last.times > 0 \/ clean)
Fresh == wasClean /\ (pc \in Early \/ Sweeping)
Spared(r) ==
    Swept \/ Rested \/ Fresh \/ (Late /\ r # run) \/ (Sweeping /\ r # target)

InertInv ==
    \A r \in 1 .. MaxRuns : NeverBoth(r) /\ Gone(r) /\ (Spared(r) => Inert(r))

(* A completion reaction means that nothing is in the body: a review that  *)
(* has removed one works with an empty body state.                         *)
CleanInv ==
    /\ clean => pc \in {"idle", "doneHead", "dropFailure"} /\ body = {}
    /\ Fresh \/ (wasClean /\ pc = "bodies") => body = {}

(* The plan, before its draft is published and after.                      *)
Live == {t \in OpenThreads : t.thread \notin plan.obsolete}
Pre ==
    /\ body = prior /\ plan.bodyChanged = (plan.body # prior)
    /\ found = {} => plan.body = {}
    /\ ~touched => Balance(plan.body, Live, plan.netNew, found)
Post ==
    /\ body = plan.body
    /\ found = {} => body = {}
    /\ ~touched => Balance(body, OpenThreads, {}, found)
Own ==
    /\ draft.run = run => draft = Payload
    /\ \A w \in wire : w.kind = "submit" /\ w.review.run = run
                          => w.review = Payload
LastShown == Balance(body, OpenThreads, {}, last.report)

PlanInv ==
    /\ pc = "threads" => prior = body
    /\ (pc \in Planned \/ Late) /\ run \notin shown => Pre
    /\ pc \in {"create", "draftHead", "submit"} \/ Late => plan.obsolete = {}
    /\ pc = "resolve" => plan.obsolete # {}
    /\ pc \in {"draftHead", "submit"} \/ Late => Own
    /\ pc \in Conclusions \/ (Late /\ run \in shown) => Post
    /\ pc = "idle" /\ last.times > 0 => LastShown

ReviewOk(d) ==
    BodyOk(d.body) /\ Distinct(d.netNew) /\ \A i \in d.netNew : Derived(i)
ThreadOk(t) ==
    DOMAIN t = {"fingerprint", "aliases", "open"} /\ Derived(t)
DataInv ==
    /\ BodyOk(body) /\ ReviewOk(plan) /\ ReviewOk(draft) /\ ReportOk(found)
    /\ \A w \in wire : ReviewOk(w.review)
    /\ \A t \in DOMAIN threads : ThreadOk(threads[t])

ShowInv == InertInv /\ CleanInv /\ PlanInv /\ DataInv

-----------------------------------------------------------------------------
LEMMA EndFacts ==
    ASSUME NEW o, End(o)
    PROVE  /\ pc' = "idle" /\ goal' = "none"
           /\ last'.times > 0 => /\ o \in Complete /\ ~touched
                                 /\ last'.report = found
  <1>1. pc' = "idle" /\ goal' = "none"
    BY DEF End
  <1>2. Nothing.times = 0
    BY DEF Nothing
  <1>3. CASE o \in Complete /\ ~touched
    BY <1>1, <1>3 DEF End
  <1>4. CASE ~(o \in Complete /\ ~touched)
    <2>1. last' = Nothing
      BY <1>4 DEF End
    <2> QED
      BY <1>1, <1>2, <2>1
  <1> QED
    BY <1>3, <1>4

LEMMA EmptyOk ==
    /\ BodyOk({}) /\ ReportOk({}) /\ ReviewOk(NoDraft) /\ ReviewOk(NoPlan)
  BY FS_EmptySet DEF BodyOk, ReportOk, ReviewOk, NoDraft, NoPlan, Distinct

LEMMA ShowInit == Init => ShowInv
  <1> SUFFICES ASSUME Init PROVE ShowInv
    OBVIOUS
  <1>1. pc = "idle" /\ ~clean /\ ~(last.times > 0) /\ ~wasClean
    BY DEF Init, Nothing
  <1>2. wire = {} /\ shown = {} /\ threads = <<>>
    BY DEF Init
  <1>3. InertInv
    BY <1>1, <1>2
    DEF InertInv, NeverBoth, Gone, OnWire, Spared, Swept, Rested, Fresh, Late,
        Sweeping, Settling, Planned, Conclusions
  <1>4. CleanInv
    BY <1>1 DEF CleanInv, Fresh
  <1>5. PlanInv
    BY <1>1 DEF PlanInv, Late, Settling, Planned, Conclusions
  <1>6. BodyOk(body)
    BY LegaciesAssumption DEF Init, BodyOk
  <1>7. DataInv
    BY <1>2, <1>6, EmptyOk DEF Init, DataInv
  <1> QED
    BY <1>3, <1>4, <1>5, <1>7 DEF ShowInv

-----------------------------------------------------------------------------
(* Steps that leave drafts and requests alone.                             *)

LEMMA SameDrafts ==
    ASSUME UNCHANGED <<draft, shown, wire>>, NEW r
    PROVE  /\ NeverBoth(r)' <=> NeverBoth(r)
           /\ Gone(r)' <=> Gone(r)
           /\ Inert(r)' <=> Inert(r)
  BY DEF NeverBoth, Gone, Inert, OnWire

LEMMA QuietInert ==
    ASSUME DraftInv, ShowInv,
           \/ Model \/ Sweep \/ ReadBodies \/ Reconcile \/ ResolveHead
           \/ Resolve \/ DraftHead \/ ReadSubmission \/ Readback \/ Conclude
           \/ DoneHead \/ DropFailure \/ Break \/ Crash
    PROVE  InertInv'
  <1>1. UNCHANGED <<draft, shown, wire, run, wasClean>>
    BY DEF Model, Sweep, ReadBodies, Reconcile, ResolveHead, Resolve, DraftHead,
           ReadSubmission, Readback, Conclude, DoneHead, DropFailure, Break,
           Crash, github, local
  <1> SUFFICES ASSUME NEW r \in 1 .. MaxRuns, Spared(r)'
               PROVE  Spared(r) \/ Inert(r)
    BY <1>1, SameDrafts DEF ShowInv, InertInv
  <1>2. r # 0 /\ NoDraft.run = 0 /\ (r \in shown => Inert(r))
    BY DEF NoDraft, ShowInv, InertInv, Gone, Inert
  <1>3. /\ clean => pc \in {"idle", "doneHead", "dropFailure"}
        /\ run \in shown => Inert(run)
    <2>1. pc # "idle"
      BY DEF Model, Sweep, ReadBodies, Reconcile, ResolveHead, Resolve,
             DraftHead, ReadSubmission, Readback, Conclude, DoneHead,
             DropFailure, Break, Crash
    <2>2. run \in 1 .. MaxRuns
      BY <2>1, RunTyped
    <2> QED
      BY <2>2 DEF ShowInv, CleanInv, InertInv, Gone, Inert
  <1>4. Settling /\ goal = "submission" => target = run
    BY DEF DraftInv, Phase, Settling
  <1>5. ASSUME NEW o, End(o), clean' => clean, pc # "idle",
               o \in Complete => pc \in Conclusions
        PROVE  Spared(r)
    <2>1. pc' = "idle" /\ (last'.times > 0 => o \in Complete)
      BY <1>5, EndFacts
    <2>2. last'.times > 0 \/ clean'
      BY <2>1 DEF Spared, Swept, Rested, Fresh, Late, Sweeping, Settling,
                  Planned, Conclusions, Early
    <2> QED
      BY <1>3, <1>5, <2>1, <2>2 DEF Spared, Swept, Conclusions
  <1> USE DEF Spared, Swept, Rested, Fresh, Late, Sweeping, Settling, Planned,
              Conclusions, Early
  <1>6. CASE Model
    BY <1>1, <1>5, <1>6 DEF Model, Go, Complete, github
  <1>7. CASE Sweep
    <2>1. CASE draft # NoDraft
      BY <1>1, <1>7, <2>1 DEF Sweep, Settle, Inert
    <2>2. CASE draft = NoDraft
      BY <1>2, <2>2 DEF Inert
    <2> QED
      BY <2>1, <2>2
  <1>8. CASE ReadBodies \/ Reconcile \/ Resolve
    BY <1>1, <1>8 DEF ReadBodies, Reconcile, Resolve, Go
  <1>9. CASE ResolveHead
    BY <1>9 DEF ResolveHead
  <1>10. CASE DraftHead
    BY <1>10 DEF DraftHead
  <1>11. CASE ReadSubmission
    BY <1>1, <1>3, <1>11 DEF ReadSubmission, Submitted, Settle
  <1>12. CASE Readback
    <2>1. CASE target \in shown /\ Published
      <3>1. CASE goal = "submission"
        BY <1>1, <1>3, <1>4, <1>12, <2>1, <3>1
        DEF Readback, Published, Submitted
      <3>2. CASE goal = "sweep"
        <4>1. r = target => Inert(r)
          BY <1>2, <2>1
        <4> QED
          BY <1>12, <3>2, <4>1 DEF Readback
      <3>3. CASE goal \notin {"sweep", "submission"}
        <4>1. End("stale") \/ End("failed")
          BY <2>1, <3>3 DEF Published, Removed
        <4> QED
          BY <1>5, <1>12, <4>1 DEF Readback, Complete, github
      <3> QED
        BY <3>1, <3>2, <3>3
    <2>2. CASE pc' = "delete" /\ UNCHANGED <<goal, target, last>>
      BY <1>1, <1>12, <2>2 DEF Readback
    <2>3. CASE Uncertain
      BY <1>5, <1>12, <2>3 DEF Readback, Uncertain, Complete, github
    <2> QED
      BY <1>12, <2>1, <2>2, <2>3 DEF Readback, Again
  <1>13. CASE Conclude \/ DropFailure
    BY <1>13 DEF Conclude, DropFailure
  <1>14. CASE DoneHead
    BY <1>14 DEF DoneHead
  <1>15. CASE Break
    <2>1. CASE Settle("cleanup", run)
      BY <1>15, <2>1 DEF Settle
    <2>2. CASE End("failed")
      BY <1>5, <1>15, <2>2 DEF Break, Complete
    <2> QED
      BY <1>15, <2>1, <2>2 DEF Break
  <1>16. CASE Crash
    BY <1>5, <1>16 DEF Crash, Complete, github
  <1> QED
    BY <1>6, <1>7, <1>8, <1>9, <1>10, <1>11, <1>12, <1>13, <1>14, <1>15, <1>16

LEMMA StartInert == ASSUME DraftInv, ShowInv, Start PROVE InertInv'
  <1>1. UNCHANGED <<draft, shown, wire>> /\ pc = "idle" /\ pc' = "model"
        /\ wasClean' = clean
    BY DEF Start
  <1>2. \A r \in 1 .. MaxRuns : Spared(r)' => Spared(r)
    BY <1>1 DEF Spared, Swept, Rested, Fresh, Late, Sweeping, Settling, Planned,
                Conclusions, Early
  <1> QED
    BY <1>1, <1>2, SameDrafts DEF ShowInv, InertInv

LEMMA OutsideInert ==
    ASSUME DraftInv, ShowInv,
           Push \/ Dismiss \/ CloseLate \/ Over \/ UNCHANGED vars
    PROVE  InertInv'
  <1>1. UNCHANGED <<draft, shown, wire, pc, run, wasClean, clean, goal, target>>
    BY DEF Push, Dismiss, CloseLate, Aside, Over, vars, github, local, settling
  <1>2. last'.times > 0 => last.times > 0
    BY DEF Push, Dismiss, CloseLate, Meddle, Over, vars, Nothing
  <1>3. \A r \in 1 .. MaxRuns : Spared(r)' => Spared(r)
    BY <1>1, <1>2 DEF Spared, Swept, Rested, Fresh, Late, Sweeping, Settling
  <1> QED
    BY <1>1, <1>3, SameDrafts DEF ShowInv, InertInv

-----------------------------------------------------------------------------
(* Steps on the draft.                                                     *)

LEMMA CreateInert == ASSUME DraftInv, ShowInv, Create PROVE InertInv'
  <1>1. /\ pc = "create" /\ Payload.run = run /\ shown' = shown
        /\ run \in 1 .. MaxRuns
    BY RunTyped DEF Create, Payload
  <1>2. Absent(run)
    BY <1>1 DEF DraftInv, Phase, Before
  <1>3. run \notin shown /\ ~OnWire("submit", run) /\ ~OnWire("create", run)
    BY <1>2 DEF Absent, OffWire, OnWire
  <1>4. ASSUME NEW r \in 1 .. MaxRuns
        PROVE  NeverBoth(r) /\ Gone(r) /\ Inert(r)
    BY <1>1, <1>4
    DEF ShowInv, InertInv, Spared, Swept, Planned
  <1>5. CASE draft' \in {draft, Payload} /\ wire' = wire
    <2> SUFFICES ASSUME NEW r \in 1 .. MaxRuns
                 PROVE  (NeverBoth(r) /\ Gone(r) /\ Inert(r))'
      BY DEF InertInv
    <2>1. \A k : OnWire(k, r)' <=> OnWire(k, r)
      BY <1>5 DEF OnWire
    <2> QED
      BY <1>1, <1>3, <1>4, <1>5, <2>1 DEF NeverBoth, Gone, Inert
  <1>6. CASE /\ draft' = draft /\ Go("sweepOwn")
             /\ wire' = wire \cup {[kind |-> "create", review |-> Payload]}
    <2> SUFFICES ASSUME NEW r \in 1 .. MaxRuns
                 PROVE  NeverBoth(r)' /\ Gone(r)' /\ Inert(r)'
      BY DEF InertInv
    <2>1. OnWire("submit", r)' <=> OnWire("submit", r)
      BY <1>6 DEF OnWire
    <2>2. OnWire("create", r)' => OnWire("create", r) \/ r = run
      BY <1>1, <1>6 DEF OnWire
    <2> QED
      BY <1>1, <1>3, <1>4, <1>6, <2>1, <2>2 DEF NeverBoth, Gone, Inert
  <1> QED
    BY <1>5, <1>6 DEF Create, CreateDraft, Answered, Unanswered

LEMMA SubmitInert == ASSUME DraftInv, ShowInv, Submit PROVE InertInv'
  <1>1. /\ pc = "submit" /\ Drafted /\ Payload.run = run /\ run' = run
    BY DEF Submit, Payload, Drafted, local
  <1>2. /\ run \in 1 .. MaxRuns /\ draft.run = run /\ run \notin shown
        /\ ~OnWire("submit", run) /\ ~OnWire("create", run)
    BY <1>1, DraftedIsSafe DEF OffWire, OnWire
  <1>3. ASSUME NEW r \in 1 .. MaxRuns
        PROVE  NeverBoth(r) /\ Gone(r) /\ Inert(r)
    BY <1>1, <1>3 DEF ShowInv, InertInv, Spared, Swept, Planned
  <1>4. CASE Answered /\ Publish(draft)
    <2>1. wire' = wire /\ draft' = NoDraft /\ shown' = shown \cup {run}
      BY <1>2, <1>4 DEF Answered, Publish
    <2>2. \A r \in 1 .. MaxRuns : draft'.run # r
      BY <2>1 DEF NoDraft
    <2> SUFFICES ASSUME NEW r \in 1 .. MaxRuns
                 PROVE  NeverBoth(r)' /\ Gone(r)' /\ Inert(r)'
      BY DEF InertInv
    <2>3. \A k : OnWire(k, r)' <=> OnWire(k, r)
      BY <2>1 DEF OnWire
    <2> QED
      BY <1>2, <1>3, <2>1, <2>2, <2>3 DEF NeverBoth, Gone, Inert
  <1>5. CASE UNCHANGED <<draft, shown, wire>>
    BY <1>3, <1>5, SameDrafts DEF InertInv
  <1>6. CASE /\ UNCHANGED <<draft, shown>> /\ Go("unanswered")
             /\ wire' = wire \cup {[kind |-> "submit", review |-> Payload]}
    <2>1. ASSUME NEW r \in 1 .. MaxRuns, Spared(r)' PROVE r # run
      BY <1>1, <1>6, <2>1
      DEF Go, Spared, Swept, Rested, Fresh, Late, Sweeping, Settling, Planned,
          Conclusions, Early
    <2> SUFFICES ASSUME NEW r \in 1 .. MaxRuns
                 PROVE  NeverBoth(r)' /\ Gone(r)' /\ (Spared(r)' => Inert(r)')
      BY DEF InertInv
    <2>2. OnWire("create", r)' <=> OnWire("create", r)
      BY <1>6 DEF OnWire
    <2>3. OnWire("submit", r)' => OnWire("submit", r) \/ r = run
      BY <1>1, <1>6 DEF OnWire
    <2> QED
      BY <1>2, <1>3, <1>6, <2>1, <2>2, <2>3 DEF NeverBoth, Gone, Inert
  <1> QED
    BY <1>4, <1>5, <1>6 DEF Submit, Unanswered

LEMMA DeleteInert == ASSUME DraftInv, ShowInv, Delete PROVE InertInv'
  <1>1. /\ Settling /\ pc = "delete"
        /\ UNCHANGED <<shown, run, wasClean, clean>>
        /\ draft' \in {draft, NoDraft} /\ NoDraft.run = 0
    BY DEF Delete, Settling, local, NoDraft
  <1>2. \A r : /\ OnWire("submit", r)' <=> OnWire("submit", r)
               /\ OnWire("create", r)' <=> OnWire("create", r)
    <2>1. \A w : w.kind # "delete" => (w \in wire' <=> w \in wire)
      BY DEF Delete, Answered
    <2> QED
      BY <2>1 DEF OnWire
  <1>3. ASSUME NEW r \in 1 .. MaxRuns
        PROVE  NeverBoth(r)' /\ Gone(r)' /\ (Inert(r) => Inert(r)')
    <2>1. NeverBoth(r) /\ Gone(r) /\ NoDraft.run # r
      BY <1>1, <1>3 DEF ShowInv, InertInv
    <2> QED
      BY <1>1, <1>2, <2>1 DEF NeverBoth, Gone, Inert
  <1>4. ASSUME NEW r \in 1 .. MaxRuns, Spared(r)'
        PROVE  Spared(r) \/ Inert(r)'
    <2> USE DEF Spared, Swept, Rested, Fresh, Late, Sweeping, Settling, Planned,
                Conclusions, Early
    <2>1. CASE Go("readback")
      BY <1>1, <1>4, <2>1 DEF Go, settling
    <2>2. CASE /\ Removed /\ target \notin shown
               /\ draft' = IF draft.run = target THEN NoDraft ELSE draft
      <3>1. CASE goal = "sweep"
        <4>1. r = target => draft'.run # r
          BY <1>1, <1>4, <2>2
        <4> QED
          BY <1>1, <3>1, <4>1 DEF Inert
      <3>2. CASE goal = "submission"
        BY <1>1, <1>4, <2>2, <3>2 DEF Removed, Settle
      <3>3. CASE goal \notin {"sweep", "submission"}
        <4>1. PICK o \in {"stale", "failed"} : End(o)
          BY <2>2, <3>3 DEF Removed
        <4>2. pc' = "idle" /\ ~(last'.times > 0)
          BY <4>1, EndFacts DEF Complete
        <4>3. ~clean'
          BY <1>1 DEF ShowInv, CleanInv
        <4> QED
          BY <1>4, <4>2, <4>3
      <3> QED
        BY <3>1, <3>2, <3>3
    <2> QED
      BY <2>1, <2>2 DEF Delete
  <1> QED
    BY <1>3, <1>4 DEF ShowInv, InertInv

(* A submission on the wire cannot publish anything unless it is the       *)
(* review's own.                                                           *)
LEMMA CarryOutInert ==
    ASSUME DraftInv, Shape, ShowInv, CarryOut
    PROVE  InertInv'
  <1>1. PICK w \in wire : /\ wire' = wire \ {w} /\ TakesEffect(w)
                          /\ UNCHANGED <<clean, pc, local, settling, last>>
    BY DEF CarryOut
  <1>2. \A k, r : OnWire(k, r)' => OnWire(k, r)
    BY <1>1 DEF OnWire
  <1>3. \A r : Spared(r)' <=> Spared(r)
    BY <1>1 DEF Spared, Swept, Rested, Fresh, Late, Sweeping, Settling, local,
                settling
  <1>4. OnWire(w.kind, w.review.run) /\ NoDraft.run = 0
    BY DEF OnWire, NoDraft
  <1> SUFFICES ASSUME NEW r \in 1 .. MaxRuns,
                      NeverBoth(r), Gone(r), Spared(r) => Inert(r)
               PROVE  NeverBoth(r)' /\ Gone(r)' /\ (Spared(r)' => Inert(r)')
    BY DEF InertInv, ShowInv
  <1>5. NeverBoth(r)' /\ r # 0
    BY <1>2 DEF NeverBoth
  <1>6. CASE w.kind = "create" /\ CreateDraft(w.review) /\ Unpublished
    <2>1. draft' \in {draft, w.review} /\ shown' = shown
      BY <1>6 DEF CreateDraft, Unpublished
    <2>2. draft'.run = r => draft.run = r \/ OnWire("create", r)
      BY <1>4, <1>6, <2>1
    <2> QED
      BY <1>2, <1>3, <1>5, <2>1, <2>2 DEF NeverBoth, Gone, Inert
  <1>7. CASE w.kind = "submit" /\ draft = w.review /\ Publish(draft)
    <2>1. draft' = NoDraft /\ shown' = shown \cup {w.review.run}
      BY <1>7 DEF Publish
    <2>2. r = w.review.run => OnWire("submit", r)
      BY <1>4, <1>7
    <2> QED
      BY <1>2, <1>4, <1>5, <2>1, <2>2 DEF NeverBoth, Gone, Inert
  <1>8. CASE w.kind = "delete" /\ draft' = NoDraft /\ Unpublished
    <2>1. shown' = shown
      BY <1>8 DEF Unpublished
    <2> QED
      BY <1>2, <1>4, <1>5, <1>8, <2>1 DEF Gone, Inert
  <1> QED
    BY <1>1, <1>6, <1>7, <1>8 DEF TakesEffect

LEMMA InertNext == DraftInv /\ Shape /\ ShowInv /\ [Next]_vars => InertInv'
  BY QuietInert, StartInert, OutsideInert, CreateInert, SubmitInert,
     DeleteInert, CarryOutInert
  DEF Next, ReviewStep

-----------------------------------------------------------------------------
LEMMA ForeignSubmission ==
    ASSUME DraftInv, Shape, ShowInv, NEW w \in wire, w.kind = "submit",
           draft = w.review
    PROVE  /\ w.review.run \in 1 .. MaxRuns /\ OnWire("submit", w.review.run)
           /\ ~Spared(w.review.run)
  <1>1. w.review.run \in 0 .. run /\ w.review.run # 0 /\ run \in 0 .. MaxRuns
    BY DEF DraftInv, Types, Shape, Requests
  <1>2. w.review.run \in 1 .. MaxRuns
    BY <1>1, BoundsAssumption
  <1>3. OnWire("submit", w.review.run)
    BY DEF OnWire
  <1> QED
    BY <1>2, <1>3 DEF ShowInv, InertInv, Inert

LEMMA CleanCarryOut ==
    ASSUME DraftInv, Shape, ShowInv, CarryOut PROVE CleanInv'
  <1>1. PICK w \in wire : /\ TakesEffect(w)
                          /\ UNCHANGED <<clean, pc, local, settling, last>>
    BY DEF CarryOut
  <1>2. UNCHANGED <<clean, pc, wasClean, goal, target>>
    BY <1>1 DEF local, settling
  <1>3. CASE body' = body
    BY <1>2, <1>3 DEF ShowInv, CleanInv, Fresh, Sweeping, Settling
  <1>4. CASE w.kind = "submit" /\ draft = w.review
    <2>1. ~Swept /\ ~Rested /\ ~Fresh
      BY <1>4, ForeignSubmission DEF Spared
    <2>2. ~clean
      BY <2>1 DEF ShowInv, CleanInv, Swept, Rested, Conclusions
    <2>3. ~Fresh' /\ pc' # "bodies"
      BY <1>2, <2>1 DEF Swept, Fresh, Sweeping, Settling
    <2> QED
      BY <1>2, <2>2, <2>3 DEF CleanInv
  <1> QED
    BY <1>1, <1>3, <1>4 DEF TakesEffect, Unpublished

LEMMA CleanNext ==
    ASSUME DraftInv, Shape, ShowInv, [Next]_vars PROVE CleanInv'
  <1> USE DEF Fresh, Sweeping, Settling, Early
  <1>1. CleanInv
    BY DEF ShowInv
  <1>2. CASE Start
    BY <1>1, <1>2 DEF Start, CleanInv
  <1>3. CASE Model
    <2>1. pc = "model" /\ UNCHANGED <<clean, body, wasClean>>
      BY <1>3 DEF Model, github
    <2>2. pc' \in {"sweep", "idle"}
      BY <1>3 DEF Model, Go, End
    <2> QED
      BY <1>1, <2>1, <2>2 DEF CleanInv
  <1>10. CASE ReadBodies \/ Reconcile \/ ResolveHead \/ Resolve \/ DraftHead
              \/ Create
    <2>1. UNCHANGED <<clean, wasClean, body>>
      BY <1>10 DEF ReadBodies, Reconcile, ResolveHead, Resolve, DraftHead,
                   Create, github, local
    <2>2. pc \notin {"idle", "doneHead", "dropFailure"}
      BY <1>10 DEF ReadBodies, Reconcile, ResolveHead, Resolve, DraftHead, Create
    <2>3. \/ pc' \notin {"model", "sweep", "bodies", "delete", "readback"}
          \/ pc' = "delete" /\ goal' = "stale"
      <3>1. CASE ReadBodies \/ Reconcile \/ Resolve
        BY <3>1 DEF ReadBodies, Reconcile, Resolve, Go, End
      <3>2. CASE ResolveHead
        BY <3>2 DEF ResolveHead, Publication, Go, End
      <3>3. CASE DraftHead
        BY <3>3 DEF DraftHead, Go, Settle
      <3>4. CASE Create
        BY <3>4 DEF Create, Go
      <3> QED
        BY <1>10, <3>1, <3>2, <3>3, <3>4
    <2> QED
      BY <1>1, <2>1, <2>2, <2>3 DEF CleanInv
  <1>4. CASE Sweep
    BY <1>1, <1>4 DEF Sweep, Go, End, Settle, CleanInv, github, local
  <1>5. CASE Submit \/ ReadSubmission
    BY <1>1, <1>5
    DEF Submit, ReadSubmission, Submitted, Go, Settle, CleanInv, github, local
  <1>6. CASE Delete \/ Readback
    <2>1. /\ Settling /\ ~clean /\ UNCHANGED <<clean, body, wasClean>>
      BY <1>1, <1>6 DEF Delete, Readback, CleanInv, github, local
    <2>2. \/ pc' \in {"delete", "readback"} /\ goal' = goal
          \/ pc' = "bodies" /\ goal = "sweep"
          \/ pc' \in {"idle", "conclude"}
          \/ pc' = "delete" /\ goal' = "cleanup"
      BY <1>6 DEF Delete, Readback, Removed, Published, Again, Uncertain, Go,
                  Settle, End, Submitted, settling
    <2> QED
      BY <1>1, <2>1, <2>2 DEF CleanInv
  <1>7. CASE Conclude
    <2>1. found = {} => body = {}
      BY <1>7 DEF Conclude, ShowInv, PlanInv, Post, Conclusions
    <2> QED
      BY <1>7, <2>1 DEF Conclude, Go, CleanInv
  <1>8. CASE DoneHead \/ DropFailure \/ Break \/ Crash
    <2>1. UNCHANGED body
      BY <1>8 DEF DoneHead, DropFailure, Break, Crash, github
    <2>3. clean' => clean
      <3>1. CASE DoneHead \/ Break
        BY <3>1 DEF DoneHead, Break
      <3>2. CASE DropFailure \/ Crash
        BY <3>2 DEF DropFailure, Crash, github
      <3> QED
        BY <1>8, <3>1, <3>2
    <2>2. \/ pc' = "idle"
          \/ pc' = "dropFailure"
          \/ pc' = "delete" /\ goal' = "cleanup" /\ ~clean
      <3>1. CASE DoneHead
        BY <3>1 DEF DoneHead, Go, End
      <3>2. CASE DropFailure \/ Crash
        BY <3>2 DEF DropFailure, Crash, End
      <3>3. CASE Break
        BY <1>1, <3>3 DEF Break, Settle, End, CleanInv
      <3> QED
        BY <1>8, <3>1, <3>2, <3>3
    <2> QED
      BY <1>1, <2>1, <2>2, <2>3 DEF CleanInv
  <1>9. CASE Push \/ Dismiss \/ CloseLate \/ Over \/ UNCHANGED vars
    <2>1. UNCHANGED <<pc, body, clean, wasClean, goal>>
      BY <1>9
      DEF Push, Dismiss, CloseLate, Aside, Over, vars, github, local, settling
    <2> QED
      BY <1>1, <2>1 DEF CleanInv
  <1> QED
    BY <1>2, <1>3, <1>4, <1>5, <1>6, <1>7, <1>8, <1>9, <1>10, CleanCarryOut
    DEF Next, ReviewStep

-----------------------------------------------------------------------------
(* What GitHub holds are identities of findings.                           *)

LEMMA CloseThread ==
    ASSUME NEW ts, NEW i, Listed(ts), \A t \in DOMAIN ts : ThreadOk(ts[t])
    PROVE  LET us == [ts EXCEPT ![i].open = FALSE]
           IN  /\ DOMAIN us = DOMAIN ts /\ Listed(us)
               /\ \A t \in DOMAIN ts :
                     /\ ThreadOk(us[t])
                     /\ us[t].fingerprint = ts[t].fingerprint
                     /\ us[t].aliases = ts[t].aliases
                     /\ us[t].open = IF t = i THEN FALSE ELSE ts[t].open
  <1> DEFINE us == [ts EXCEPT ![i].open = FALSE]
             e == [ts[i] EXCEPT !.open = FALSE]
  <1>1. DOMAIN us = DOMAIN ts /\ Listed(us)
    BY CloseListed
  <1>2. \A t \in DOMAIN ts : us[t] = IF t = i THEN e ELSE ts[t]
    BY <1>1
  <1>3. ASSUME NEW t \in DOMAIN ts
        PROVE  /\ ThreadOk(us[t])
               /\ us[t].fingerprint = ts[t].fingerprint
               /\ us[t].aliases = ts[t].aliases
               /\ us[t].open = IF t = i THEN FALSE ELSE ts[t].open
    <2>1. CASE t # i
      BY <1>2, <2>1
    <2>2. CASE t = i
      <3>1. DOMAIN ts[i] = {"fingerprint", "aliases", "open"} /\ Derived(ts[i])
        BY <2>2 DEF ThreadOk
      <3>2. /\ DOMAIN e = {"fingerprint", "aliases", "open"}
            /\ e.fingerprint = ts[i].fingerprint /\ e.aliases = ts[i].aliases
            /\ e.open = FALSE
        BY <3>1
      <3> HIDE DEF e
      <3>3. Derived(e)
        BY <3>1, <3>2 DEF Derived, Tokens
      <3> QED
        BY <1>2, <2>2, <3>2, <3>3 DEF ThreadOk
    <2> QED
      BY <2>1, <2>2
  <1> QED
    BY <1>1, <1>3

LEMMA ExtendThreads ==
    ASSUME NEW ts, Listed(ts), \A t \in DOMAIN ts : ThreadOk(ts[t]),
           NEW n, IsFiniteSet(n), \A i \in n : Derived(i)
    PROVE  \A t \in DOMAIN Extended(ts, n) : ThreadOk(Extended(ts, n)[t])
  <1> DEFINE S == {Opened(i) : i \in n}
             q == SetToSeq(S)
  <1>1. IsFiniteSet(S)
    <2> DEFINE g == [i \in n |-> Opened(i)]
    <2>1. g \in [n -> S] /\ \A o \in S : \E i \in n : g[i] = o
      OBVIOUS
    <2> HIDE DEF g, S
    <2> QED
      BY <2>1, ImageFinite
  <1>2. \A o \in S : ThreadOk(o)
    <2> SUFFICES ASSUME NEW i \in n PROVE ThreadOk(Opened(i))
      OBVIOUS
    <2>1. /\ DOMAIN Opened(i) = {"fingerprint", "aliases", "open"}
          /\ Opened(i).fingerprint = i.fingerprint
          /\ Opened(i).aliases = i.aliases
      BY DEF Opened
    <2>2. Derived(i)
      OBVIOUS
    <2>3. Derived(Opened(i))
      BY <2>1, <2>2 DEF Derived, Tokens
    <2> QED
      BY <2>1, <2>3 DEF ThreadOk
  <1> HIDE DEF S
  <1>3. q \in Seq(S)
    BY <1>1, SetToSeqListed
  <1> HIDE DEF q
  <1>4. PICK R : ts \in Seq(R)
    BY DEF Listed
  <1>5. ts \in Seq(R \cup S) /\ q \in Seq(R \cup S)
    BY <1>3, <1>4
  <1>6. /\ Len(ts) \in Nat /\ DOMAIN ts = 1 .. Len(ts)
        /\ Len(q) \in Nat /\ \A j \in 1 .. Len(q) : q[j] \in S
        /\ DOMAIN (ts \o q) = 1 .. (Len(ts) + Len(q))
        /\ \A t \in 1 .. (Len(ts) + Len(q)) :
              (ts \o q)[t] = IF t <= Len(ts) THEN ts[t] ELSE q[t - Len(ts)]
    BY <1>3, <1>4, <1>5
  <1> SUFFICES ASSUME NEW t \in DOMAIN (ts \o q) PROVE ThreadOk((ts \o q)[t])
    BY DEF Extended, q, S
  <1>7. CASE t <= Len(ts)
    <2>1. t \in DOMAIN ts /\ (ts \o q)[t] = ts[t]
      BY <1>6, <1>7
    <2> QED
      BY <2>1
  <1>8. CASE ~(t <= Len(ts))
    <2>1. t - Len(ts) \in 1 .. Len(q) /\ (ts \o q)[t] = q[t - Len(ts)]
      BY <1>6, <1>8
    <2>2. q[t - Len(ts)] \in S
      BY <1>6, <2>1
    <2> QED
      BY <1>2, <2>1, <2>2
  <1> QED
    BY <1>7, <1>8

(* A publication, and steps that neither publish nor plan.                 *)
LEMMA PublishData ==
    ASSUME Shape, DataInv, Publish(draft), UNCHANGED <<plan, found>>,
           wire' \subseteq wire
    PROVE  DataInv'
  <1>1. /\ threads' = Extended(threads, draft.netNew) /\ body' = draft.body
        /\ draft' = NoDraft
    BY DEF Publish, ThreadsOf, Extended, Opened
  <1>2. \A t \in DOMAIN threads' : ThreadOk(threads'[t])
    <2>1. /\ Listed(threads) /\ \A t \in DOMAIN threads : ThreadOk(threads[t])
          /\ IsFiniteSet(draft.netNew) /\ \A i \in draft.netNew : Derived(i)
      BY DEF Shape, Targets, Findings, DataInv, ReviewOk
    <2>2. \A t \in DOMAIN Extended(threads, draft.netNew) :
             ThreadOk(Extended(threads, draft.netNew)[t])
      BY <2>1, ExtendThreads
    <2> QED
      BY <1>1, <2>2
  <1> QED
    BY <1>1, <1>2, EmptyOk DEF DataInv, ReviewOk

LEMMA SameData ==
    ASSUME DataInv, UNCHANGED <<threads, body, plan>>,
           found' \in Reports \cup {found, {}},
           ReviewOk(draft'), \A w \in wire' : w \in wire \/ ReviewOk(w.review)
    PROVE  DataInv'
  <1>1. ReportOk(found')
    BY ReportsAssumption, EmptyOk DEF DataInv, ReportOk
  <1> QED
    BY <1>1 DEF DataInv

LEMMA PayloadOk == ASSUME DataInv PROVE ReviewOk(Payload)
  BY DEF DataInv, ReviewOk, Payload

LEMMA ClosingData ==
    ASSUME Shape, DataInv, NEW i, threads' = [threads EXCEPT ![i].open = FALSE],
           UNCHANGED <<body, draft, wire, found>>,
           plan'.netNew = plan.netNew /\ plan'.body = plan.body
    PROVE  DataInv'
  <1>1. Listed(threads) /\ \A t \in DOMAIN threads : ThreadOk(threads[t])
    BY DEF Shape, Targets, DataInv
  <1>2. \A t \in DOMAIN threads' : ThreadOk(threads'[t])
    <2> DEFINE us == [threads EXCEPT ![i].open = FALSE]
    <2>1. DOMAIN us = DOMAIN threads /\ \A t \in DOMAIN threads : ThreadOk(us[t])
      BY <1>1, CloseThread
    <2> QED
      BY <2>1
  <1> QED
    BY <1>2 DEF DataInv, ReviewOk

LEMMA ResolvedPlan ==
    ASSUME Shape, Resolve
    PROVE  \/ /\ plan'.netNew = plan.netNew /\ plan'.body = plan.body
              /\ plan'.bodyChanged = plan.bodyChanged
              /\ plan'.obsolete = plan.obsolete \ {Min(plan.obsolete)}
              /\ threads' = [threads EXCEPT ![Min(plan.obsolete)].open = FALSE]
              /\ Go("resolveHead")
           \/ Unresolved
  <1> DEFINE i == Min(plan.obsolete)
  <1>1. \/ /\ threads' = [threads EXCEPT ![i].open = FALSE]
           /\ plan' = [plan EXCEPT !.obsolete = @ \ {i}]
           /\ Go("resolveHead")
        \/ Unresolved
    BY ResolveCases
  <1>2. DOMAIN plan = Fields
    BY DEF Shape, Findings
  <1> HIDE DEF i
  <1> QED
    BY <1>1, <1>2 DEF Fields, i

LEMMA OwnedAreOk ==
    ASSUME Shape, DataInv PROVE ThreadsOk(OwnedOpenThreads)
  <1> DEFINE ts == threads \o ThreadsOf(draft)
  <1>1. /\ Listed(threads) /\ \A t \in DOMAIN threads : ThreadOk(threads[t])
        /\ IsFiniteSet(draft.netNew) /\ \A i \in draft.netNew : Derived(i)
    BY DEF Shape, Targets, Findings, DataInv, ReviewOk
  <1>2. ts = Extended(threads, draft.netNew)
    BY DEF ThreadsOf, Extended, Opened
  <1>3. \A t \in DOMAIN ts : ThreadOk(ts[t])
    <2>1. \A t \in DOMAIN Extended(threads, draft.netNew) :
             ThreadOk(Extended(threads, draft.netNew)[t])
      BY <1>1, ExtendThreads
    <2> QED
      BY <1>2, <2>1
  <1>4. Listed(ts)
    BY OwnedAreListed
  <1>5. OwnedOpenThreads = OpenOf(ts)
    BY OpenAre DEF OwnedOpenThreads
  <1> HIDE DEF ts
  <1> QED
    BY <1>3, <1>4, <1>5, OpenThreadsOk DEF ThreadOk

LEMMA ReconcileFacts ==
    ASSUME Shape, ShowInv, Reconcile
    PROVE  /\ ReviewOk(plan')
           /\ Balance(plan'.body,
                      {t \in OwnedOpenThreads : t.thread \notin plan'.obsolete},
                      plan'.netNew, found)
           /\ plan'.bodyChanged = (plan'.body # prior)
           /\ found = {} => plan'.body = {}
           /\ prior = body
  <1>1. plan' \in Plans(found, prior, OwnedOpenThreads) /\ pc = "threads"
    BY DEF Reconcile
  <1>2. prior = body /\ BodyOk(prior) /\ ReportOk(found)
    BY <1>1 DEF ShowInv, PlanInv, DataInv
  <1>3. ThreadsOk(OwnedOpenThreads)
    BY OwnedAreOk DEF ShowInv
  <1>4. PlanOk(plan', found, prior, OwnedOpenThreads)
    BY ONLY <1>1, <1>2, <1>3, PlanBalance
  <1> QED
    BY <1>2, <1>4 DEF PlanOk, ReviewOk

LEMMA DataNext ==
    ASSUME DraftInv, Shape, ShowInv, [Next]_vars PROVE DataInv'
  <1>1. DataInv /\ ReviewOk(draft) /\ ReviewOk(Payload) /\ ReviewOk(NoDraft)
    BY PayloadOk, EmptyOk DEF ShowInv, DataInv
  <1>2. CASE Start
    <2>1. /\ UNCHANGED <<threads, body, draft, wire>>
          /\ plan' = NoPlan /\ found' = {}
      BY <1>2 DEF Start
    <2> QED
      BY <1>1, <2>1, EmptyOk DEF DataInv
  <1>3. CASE \/ Model \/ Sweep \/ ReadBodies \/ ResolveHead \/ DraftHead
             \/ ReadSubmission \/ Readback \/ Conclude \/ DoneHead
             \/ DropFailure \/ Break \/ Crash
    <2>1. UNCHANGED <<threads, body, draft, wire, plan>>
      BY <1>3 DEF Model, Sweep, ReadBodies, ResolveHead, DraftHead,
              ReadSubmission, Readback, Conclude, DoneHead, DropFailure, Break,
              Crash, github, local
    <2>2. found' = found \/ found' \in Reports
      BY <1>3 DEF Model, Sweep, ReadBodies, ResolveHead, DraftHead,
              ReadSubmission, Readback, Conclude, DoneHead, DropFailure, Break,
              Crash, local
    <2> QED
      BY <1>1, <2>1, <2>2, SameData
  <1>4. CASE Reconcile
    <2>1. UNCHANGED <<threads, body, draft, wire, found>>
      BY <1>4 DEF Reconcile, github, local
    <2>2. ReviewOk(plan')
      BY <1>4, ReconcileFacts
    <2> QED
      BY <1>1, <2>1, <2>2 DEF DataInv
  <1>5. CASE Resolve
    <2>1. UNCHANGED <<body, draft, wire, found>>
      BY <1>5 DEF Resolve, local
    <2>2. CASE Unresolved
      BY <1>1, <2>1, <2>2, SameData DEF Unresolved
    <2> QED
      BY <1>1, <1>5, <2>1, <2>2, ResolvedPlan, ClosingData
  <1>6. CASE Create \/ Delete
    <2>1. /\ UNCHANGED <<threads, body, plan, found>>
          /\ draft' \in {draft, NoDraft, Payload}
          /\ \A w \in wire' : w \in wire \/ w.review \in {draft, Payload}
      BY <1>6 DEF Create, Delete, CreateDraft, Answered, Unanswered, local
    <2> QED
      BY <1>1, <2>1, SameData
  <1>7. CASE Submit
    <2>1. CASE Answered /\ Publish(draft)
      BY <1>1, <1>7, <2>1, PublishData DEF Submit, Answered, local
    <2>2. CASE /\ UNCHANGED <<threads, body, draft>>
               /\ \A w \in wire' : w \in wire \/ w.review = Payload
      BY <1>1, <1>7, <2>2, SameData DEF Submit, local
    <2> QED
      BY <1>7, <2>1, <2>2 DEF Submit, Unanswered
  <1>8. CASE CarryOut
    <2>1. PICK w \in wire : /\ wire' = wire \ {w} /\ TakesEffect(w)
                            /\ UNCHANGED <<local, plan>>
      BY <1>8 DEF CarryOut
    <2>2. wire' \subseteq wire /\ UNCHANGED <<plan, found>>
      BY <2>1 DEF local
    <2>3. CASE Publish(draft)
      BY <1>1, <2>2, <2>3, PublishData
    <2>4. CASE draft' \in {draft, NoDraft, w.review} /\ Unpublished
      <3>1. ReviewOk(w.review)
        BY <1>1 DEF DataInv
      <3>2. ReviewOk(draft') /\ UNCHANGED <<threads, body>>
        BY <1>1, <2>4, <3>1 DEF Unpublished
      <3> QED
        BY <1>1, <2>2, <3>2, SameData
    <2> QED
      BY <2>1, <2>3, <2>4 DEF TakesEffect, CreateDraft
  <1>9. CASE Dismiss \/ CloseLate
    <2>1. UNCHANGED <<body, draft, wire, found, plan>>
      BY <1>9 DEF Dismiss, CloseLate, Aside, local
    <2>2. CASE UNCHANGED threads
      BY <1>1, <2>1, <2>2, SameData
    <2>3. CASE \E i : threads' = [threads EXCEPT ![i].open = FALSE]
      BY <1>1, <2>1, <2>3, ClosingData
    <2> QED
      BY <1>9, <2>2, <2>3, MeddleShape
  <1>10. CASE Push \/ Over \/ UNCHANGED vars
    <2>1. UNCHANGED <<threads, body, draft, wire, plan, found>>
      BY <1>10 DEF Push, Over, vars, github, local
    <2> QED
      BY <1>1, <2>1, SameData
  <1> QED
    BY <1>2, <1>3, <1>4, <1>5, <1>6, <1>7, <1>8, <1>9, <1>10
    DEF Next, ReviewStep

-----------------------------------------------------------------------------
(* The plan and what GitHub shows of it.                                   *)

LEMMA MinInside ==
    ASSUME NEW S \in SUBSET Nat, S # {} PROVE Min(S) \in S
  <1>1. \E x \in S : \A y \in S : ~(<<y, x>> \in OpToRel(<, Nat))
    BY NatLessThanWellFounded, WFMin, Zenon
  <1>2. PICK x \in S : \A y \in S : ~(y < x)
    BY <1>1 DEF OpToRel
  <1>3. \A y \in S : x =< y
    BY <1>2
  <1> QED
    BY <1>3 DEF Min

LEMMA SameParts ==
    ASSUME UNCHANGED <<threads, body, prior, plan, found, touched>>
    PROVE  (Pre' <=> Pre) /\ (Post' <=> Post)
  <1>1. OpenThreads' = OpenThreads
    BY DEF OpenThreads, OpenIn
  <1>2. Live' = Live
    BY <1>1 DEF Live
  <1> QED
    BY <1>1, <1>2 DEF Pre, Post

LEMMA SameLast ==
    ASSUME UNCHANGED <<threads, body, last>> PROVE LastShown' <=> LastShown
  <1>1. OpenThreads' = OpenThreads
    BY DEF OpenThreads, OpenIn
  <1> QED
    BY <1>1 DEF LastShown

LEMMA NothingPlanned ==
    ASSUME \/ pc' \in {"model", "sweep", "bodies", "sweepOwn"}
           \/ pc' \in {"delete", "readback"} /\ goal' # "submission"
           \/ pc' = "idle" /\ ~(last'.times > 0)
    PROVE  PlanInv'
  BY DEF PlanInv, Late, Settling, Planned, Conclusions

LEMMA Concluded ==
    ASSUME Post', pc' \in Conclusions PROVE PlanInv'
  BY DEF PlanInv, Late, Settling, Planned, Conclusions

(* A review that ends is complete after its conclusions only.              *)
LEMMA EndPlan ==
    ASSUME NEW o, End(o), o \notin Complete PROVE PlanInv'
  <1>1. pc' = "idle" /\ ~(last'.times > 0)
    BY EndFacts
  <1> QED
    BY <1>1, NothingPlanned

LEMMA LateKeeps ==
    ASSUME PlanInv, Late, run # 0,
           UNCHANGED <<threads, body, prior, plan, found, touched, shown, run>>,
           draft' \in {draft, NoDraft},
           \A w \in wire' : w \in wire \/ w.kind # "submit",
           pc' \in {"delete", "readback"}
    PROVE  PlanInv'
  <1>1. (Pre' <=> Pre) /\ (Post' <=> Post)
    BY SameParts
  <1>2. /\ run \notin shown => Pre
        /\ run \in shown => Post
        /\ plan.obsolete = {} /\ Own
    BY DEF PlanInv
  <1>3. Own'
    BY <1>2 DEF Own, Payload, NoDraft
  <1> QED
    BY <1>1, <1>2, <1>3 DEF PlanInv, Late, Settling, Planned, Conclusions

(* A publication of the draft turns what is to be published into threads.  *)
LEMMA PublishPost ==
    ASSUME Shape, DataInv, Pre, plan.obsolete = {}, draft = Payload,
           Publish(draft), UNCHANGED <<plan, found, touched>>
    PROVE  Post'
  <1>1. draft.netNew = plan.netNew /\ draft.body = plan.body
    BY DEF Payload
  <1>2. threads' = Extended(threads, plan.netNew) /\ body' = plan.body
    BY <1>1 DEF Publish, ThreadsOf, Extended, Opened
  <1>3. OpenThreads' = OpenOf(threads')
    BY DEF OpenThreads, OpenIn, OpenOf, Thread
  <1>4. Live = OpenOf(threads)
    BY OpenThreadsAre DEF Live
  <1>5. ASSUME ~touched
        PROVE  Balance(plan.body, OpenOf(threads'), {}, found)
    <2>1. /\ Listed(threads) /\ Distinct(plan.netNew)
          /\ Balance(plan.body, OpenOf(threads), plan.netNew, found)
      BY <1>4, <1>5 DEF Pre, Shape, Targets, DataInv, ReviewOk
    <2>2. Balance(plan.body, OpenOf(Extended(threads, plan.netNew)), {}, found)
      BY ONLY <2>1, PublishBalance
    <2> QED
      BY <1>2, <2>2
  <1>6. ~touched' => Balance(body', OpenThreads', {}, found')
    BY <1>2, <1>3, <1>5
  <1> QED
    BY <1>2, <1>6 DEF Post, Pre

LEMMA ResolveLive ==
    ASSUME Shape, DataInv, Resolve, ~Unresolved, plan.obsolete # {}
    PROVE  Live' = Live
  <1> DEFINE i == Min(plan.obsolete)
             open(ts, S) == {u \in DOMAIN ts : ts[u].open /\ u \notin S}
  <1>1. /\ threads' = [threads EXCEPT ![i].open = FALSE]
        /\ plan'.obsolete = plan.obsolete \ {i}
    BY ResolvedPlan
  <1>2. i \in plan.obsolete
    <2>1. plan.obsolete \subseteq Nat
      BY DEF Shape, Targets
    <2> QED
      BY <2>1, MinInside
  <1> HIDE DEF i
  <1>3. /\ DOMAIN threads' = DOMAIN threads
        /\ \A t \in DOMAIN threads :
              /\ threads'[t].fingerprint = threads[t].fingerprint
              /\ threads'[t].aliases = threads[t].aliases
              /\ threads'[t].open = IF t = i THEN FALSE ELSE threads[t].open
    <2>1. Listed(threads) /\ \A t \in DOMAIN threads : ThreadOk(threads[t])
      BY DEF Shape, Targets, DataInv
    <2> DEFINE us == [threads EXCEPT ![i].open = FALSE]
    <2>2. /\ DOMAIN us = DOMAIN threads
          /\ \A t \in DOMAIN threads :
                /\ us[t].fingerprint = threads[t].fingerprint
                /\ us[t].aliases = threads[t].aliases
                /\ us[t].open = IF t = i THEN FALSE ELSE threads[t].open
      BY <2>1, CloseThread
    <2> HIDE DEF us
    <2> QED
      BY <1>1, <2>2 DEF us
  <1>4. \A t \in DOMAIN threads : Thread(threads'[t], t) = Thread(threads[t], t)
    BY <1>3 DEF Thread
  <1>5. open(threads', plan'.obsolete) = open(threads, plan.obsolete)
    BY <1>1, <1>2, <1>3
  <1>6. Live = {Thread(threads[t], t) : t \in open(threads, plan.obsolete)}
    BY OpenThreadsAre DEF Live, OpenOf, Thread
  <1>7. Live' = {Thread(threads'[t], t) : t \in open(threads', plan'.obsolete)}
    BY DEF Live, OpenThreads, OpenIn, Thread
  <1> QED
    BY <1>4, <1>5, <1>6, <1>7

LEMMA OfFinite == ASSUME NEW S, IsFiniteSet(S), NEW a PROVE Of(S, a) \in Nat
  BY FS_EmptySet, OfUnion

-----------------------------------------------------------------------------
(* PlanInv is kept, step by step.                                          *)

LEMMA Running ==
    ASSUME DraftInv, pc # "idle"
    PROVE  /\ run \in 1 .. MaxRuns /\ run # 0
           /\ Settling /\ goal = "submission" => target = run
           /\ Before => run \notin shown /\ OffWire(run)
           /\ Drafted => run \notin shown /\ draft.run = run /\ OffWire(run)
           /\ Late => ~OnWire("create", run)
  <1>1. run \in 1 .. MaxRuns
    BY RunTyped
  <1> QED
    BY <1>1, BoundsAssumption
    DEF DraftInv, Phase, Absent, Late, Asking, Settling

LEMMA OpeningPlan ==
    ASSUME DraftInv, Shape, ShowInv,
           Start \/ Model \/ Sweep \/ ReadBodies \/ Reconcile
    PROVE  PlanInv'
  <1>1. CASE Start \/ Model
    BY <1>1, EndPlan, NothingPlanned DEF Start, Model, Go, Complete
  <1>2. CASE Sweep
    <2>1. CASE draft # NoDraft
      BY <1>2, <2>1, NothingPlanned DEF Sweep, Settle
    <2>2. CASE draft = NoDraft
      BY <1>2, <2>2, EndPlan, NothingPlanned DEF Sweep, Go, Complete
    <2> QED
      BY <2>1, <2>2
  <1>3. CASE ReadBodies
    <2>1. PriorBody = body
      BY <1>3 DEF ReadBodies, PriorBody, ShowInv, CleanInv
    <2>2. pc' = "threads" /\ prior' = body'
      BY <1>3, <2>1 DEF ReadBodies, Go, github
    <2> QED
      BY <2>2 DEF PlanInv, Late, Settling, Planned, Conclusions
  <1>4. CASE Reconcile
    <2>1. /\ pc' = "resolveHead" /\ (~touched' => OwnedOpenThreads = OpenThreads)
          /\ UNCHANGED <<threads, body, prior, found>>
      BY <1>4 DEF Reconcile, Go, github, local
    <2>2. /\ Balance(plan'.body,
                     {t \in OwnedOpenThreads : t.thread \notin plan'.obsolete},
                     plan'.netNew, found)
          /\ plan'.bodyChanged = (plan'.body # prior)
          /\ found = {} => plan'.body = {}
          /\ prior = body
      BY <1>4, ReconcileFacts
    <2>3. Live' = {t \in OpenThreads : t.thread \notin plan'.obsolete}
      BY <2>1 DEF Live, OpenThreads, OpenIn
    <2>4. Pre'
      BY <2>1, <2>2, <2>3 DEF Pre
    <2> QED
      BY <2>1, <2>4 DEF PlanInv, Late, Settling, Planned, Conclusions
  <1> QED
    BY <1>1, <1>2, <1>3, <1>4

LEMMA ResolvingPlan ==
    ASSUME DraftInv, Shape, ShowInv, ResolveHead \/ Resolve PROVE PlanInv'
  <1>1. pc \in {"resolveHead", "resolve"}
    BY DEF ResolveHead, Resolve
  <1>2. run \notin shown
    BY <1>1, Running DEF Before
  <1>3. Pre /\ DataInv /\ (pc = "resolve" => plan.obsolete # {})
    BY <1>1, <1>2 DEF ShowInv, PlanInv, Planned
  <1>7. CASE Unresolved
    BY <1>7, EndPlan DEF Unresolved, Complete
  <1>4. CASE Resolve /\ ~Unresolved
    <2>1. UNCHANGED <<body, prior, found, touched>>
      BY <1>4 DEF Resolve, local
    <2>2. /\ plan'.netNew = plan.netNew /\ plan'.body = plan.body
          /\ plan'.bodyChanged = plan.bodyChanged /\ pc' = "resolveHead"
      BY <1>4, ResolvedPlan DEF Go
    <2>3. Live' = Live
      BY <1>3, <1>4, ResolveLive DEF Resolve
    <2>4. Pre'
      BY <1>3, <2>1, <2>2, <2>3 DEF Pre
    <2> QED
      BY <2>2, <2>4 DEF PlanInv, Late, Settling, Planned, Conclusions
  <1>5. CASE ResolveHead /\ End("stale")
    BY <1>5, EndPlan DEF Complete
  <1>6. CASE ResolveHead /\ ~End("stale")
    <2>1. /\ UNCHANGED <<threads, body, prior, plan, found, touched>>
          /\ Go(IF plan.obsolete # {} THEN "resolve" ELSE Publication)
      BY <1>6 DEF ResolveHead, github, world, local
    <2>2. Pre'
      BY <1>3, <2>1, SameParts
    <2>3. CASE plan.obsolete # {}
      <3>1. pc' = "resolve"
        BY <2>1, <2>3 DEF Go
      <3> QED
        BY <2>1, <2>2, <2>3, <3>1
        DEF PlanInv, Late, Settling, Planned, Conclusions
    <2>4. CASE plan.obsolete = {} /\ (plan.netNew # {} \/ plan.bodyChanged)
      <3>1. pc' = "create"
        BY <2>1, <2>4 DEF Go, Publication
      <3> QED
        BY <2>1, <2>2, <2>4, <3>1
        DEF PlanInv, Late, Settling, Planned, Conclusions
    <2>5. CASE plan.obsolete = {} /\ plan.netNew = {} /\ ~plan.bodyChanged
      <3>1. pc' \in Conclusions
        BY <2>1, <2>5 DEF Go, Publication, Conclusions
      <3>2. Live = OpenThreads
        BY <2>5 DEF Live
      <3>3. body = plan.body
        BY <1>3, <2>5 DEF Pre
      <3>4. Post
        BY <1>3, <2>5, <3>2, <3>3 DEF Pre, Post
      <3>5. Post'
        BY <2>1, <3>4, SameParts
      <3> QED
        BY <3>1, <3>5, Concluded
    <2> QED
      BY <2>3, <2>4, <2>5
  <1> QED
    BY <1>4, <1>5, <1>6, <1>7

LEMMA CreatePlan ==
    ASSUME DraftInv, Shape, ShowInv, Create PROVE PlanInv'
  <1>1. /\ pc = "create" /\ Go(pc')
        /\ UNCHANGED <<threads, body, prior, plan, found, touched, shown, run>>
    BY DEF Create, Go, world, local
  <1>2. run \notin shown /\ OffWire(run)
    BY <1>1, Running DEF Before
  <1>3. Pre' /\ plan'.obsolete = {}
    BY <1>1, <1>2, SameParts DEF ShowInv, PlanInv, Planned
  <1>4. CASE pc' = "sweepOwn"
    BY <1>4, NothingPlanned
  <1>5. CASE pc' = "draftHead"
    <2>1. wire' = wire /\ draft' = Payload /\ Payload' = Payload
      BY <1>1, <1>5 DEF Create, CreateDraft, Go, Answered, Unanswered, Payload
    <2>2. Own'
      BY <1>1, <1>2, <2>1 DEF Own, OffWire
    <2> QED
      BY <1>3, <1>5, <2>2 DEF PlanInv, Late, Settling, Planned, Conclusions
  <1> QED
    BY <1>4, <1>5 DEF Create, Go

LEMMA DraftedPlan ==
    ASSUME DraftInv, Shape, ShowInv, DraftHead \/ Submit PROVE PlanInv'
  <1>1. /\ pc \in {"draftHead", "submit"} /\ Drafted
        /\ UNCHANGED <<prior, plan, found, touched, run>>
    BY DEF DraftHead, Submit, Drafted, world, local
  <1>2. run \notin shown /\ draft.run = run /\ OffWire(run)
    BY <1>1, Running
  <1>3. Pre /\ Own /\ plan.obsolete = {} /\ DataInv /\ draft = Payload
    BY <1>1, <1>2 DEF ShowInv, PlanInv, Planned, Own
  <1>4. CASE Publish(draft) /\ Submitted
    BY <1>1, <1>3, <1>4, PublishPost, Concluded DEF Submitted, Conclusions
  <1>5. CASE /\ UNCHANGED <<threads, body, draft, shown>>
             /\ pc' \in {"submit", "rejected", "unanswered"}
             /\ \A w \in wire' : w \in wire \/ w.review = Payload
    <2>1. Pre'
      BY <1>1, <1>3, <1>5, SameParts
    <2>2. Own'
      BY <1>1, <1>3, <1>5 DEF Own, Payload
    <2>3. run' \notin shown' /\ plan'.obsolete = {}
      BY <1>1, <1>2, <1>3, <1>5
    <2> QED
      BY <1>5, <2>1, <2>2, <2>3
      DEF PlanInv, Late, Settling, Planned, Conclusions
  <1>6. CASE DraftHead
    <2>1. CASE Settle("stale", run)
      BY <2>1, NothingPlanned DEF Settle
    <2>2. CASE Go("submit")
      BY <1>5, <1>6, <2>2 DEF DraftHead, Go, github
    <2> QED
      BY <1>6, <2>1, <2>2 DEF DraftHead
  <1>7. CASE Submit
    BY <1>4, <1>5, <1>7 DEF Submit, Go, Unanswered
  <1> QED
    BY <1>4, <1>6, <1>7

LEMMA ReadSubmissionPlan ==
    ASSUME DraftInv, Shape, ShowInv, ReadSubmission PROVE PlanInv'
  <1>1. /\ pc \in {"rejected", "unanswered"} /\ Late
        /\ UNCHANGED <<threads, body, draft, shown, wire, prior, plan, found,
                       touched, run>>
    BY DEF ReadSubmission, Late, github, world, local
  <1>2. run # 0 /\ PlanInv
    BY <1>1, Running DEF ShowInv
  <1>3. CASE run \in shown /\ Submitted
    <2>1. Post
      BY <1>1, <1>2, <1>3 DEF PlanInv
    <2>2. Post'
      BY <1>1, <2>1, SameParts
    <2> QED
      BY <1>3, <2>2, Concluded DEF Submitted, Conclusions
  <1>4. CASE pc' = "delete"
    BY <1>1, <1>2, <1>4, LateKeeps
  <1> QED
    BY <1>3, <1>4 DEF ReadSubmission, Settle

(* The attempts to settle a draft.                                         *)
LEMMA SettlingPlan ==
    ASSUME DraftInv, Shape, ShowInv, Settling, goal' = goal,
           pc' \in {"delete", "readback"}, draft' \in {draft, NoDraft},
           \A w \in wire' : w \in wire \/ w.kind # "submit",
           UNCHANGED <<threads, body, prior, plan, found, touched, shown, run>>
    PROVE  PlanInv'
  <1>1. CASE goal # "submission"
    BY <1>1, NothingPlanned
  <1>2. CASE goal = "submission"
    <2>1. Late /\ run # 0 /\ PlanInv
      BY <1>2, Running DEF Late, Settling, ShowInv
    <2> QED
      BY <2>1, LateKeeps
  <1> QED
    BY <1>1, <1>2

LEMMA RemovedPlan == ASSUME Removed PROVE PlanInv'
  <1>1. CASE goal = "sweep"
    BY <1>1, NothingPlanned DEF Removed, Go
  <1>2. CASE goal = "submission"
    BY <1>2, NothingPlanned DEF Removed, Settle
  <1>3. CASE goal \notin {"sweep", "submission"}
    BY <1>3, EndPlan DEF Removed, Complete
  <1> QED
    BY <1>1, <1>2, <1>3

LEMMA DeletePlan ==
    ASSUME DraftInv, Shape, ShowInv, Delete PROVE PlanInv'
  <1>1. /\ Settling
        /\ UNCHANGED <<threads, body, prior, plan, found, touched, shown, run>>
    BY DEF Delete, Settling, world, local
  <1>2. CASE Removed
    BY <1>2, RemovedPlan
  <1>3. CASE Go("readback") /\ UNCHANGED draft
    <2>1. pc' = "readback" /\ goal' = goal
      BY <1>3 DEF Go, settling
    <2>2. \A w \in wire' : w \in wire \/ w.kind # "submit"
      <3>1. CASE wire' = wire
        BY <3>1
      <3>2. CASE wire' = wire \cup {[kind |-> "delete", review |-> d] :
                                       d \in {e \in {draft} : e.run = target}}
        BY <3>2
      <3>3. CASE Removed
        BY <1>3, <3>3 DEF Removed, Go, Settle, End
      <3> QED
        BY <3>1, <3>2, <3>3 DEF Delete, Answered
    <2> QED
      BY <1>1, <1>3, <2>1, <2>2, SettlingPlan
  <1> QED
    BY <1>2, <1>3 DEF Delete

LEMMA ReadbackPlan ==
    ASSUME DraftInv, Shape, ShowInv, Readback PROVE PlanInv'
  <1>1. /\ Settling /\ pc # "idle"
        /\ UNCHANGED <<threads, body, draft, shown, wire, prior, plan, found,
                       touched, run>>
    BY DEF Readback, Settling, github, world, local
  <1>2. CASE Removed
    BY <1>2, RemovedPlan
  <1>3. CASE goal = "submission" /\ target \in shown /\ Submitted
    <2>1. Late /\ run \in shown
      BY <1>1, <1>3, Running DEF Late
    <2>2. Post
      BY <2>1 DEF ShowInv, PlanInv
    <2>3. Post'
      BY <1>1, <2>2, SameParts
    <2> QED
      BY <1>3, <2>3, Concluded DEF Submitted, Conclusions
  <1>4. CASE pc' = "delete" /\ goal' = goal
    BY <1>1, <1>4, SettlingPlan
  <1>5. CASE Uncertain
    BY <1>5, EndPlan DEF Uncertain, Complete
  <1> QED
    BY <1>2, <1>3, <1>4, <1>5 DEF Readback, Published, Again

LEMMA ConcludingPlan ==
    ASSUME DraftInv, Shape, ShowInv, Conclude \/ DoneHead \/ DropFailure
    PROVE  PlanInv'
  <1>1. /\ pc \in Conclusions
        /\ UNCHANGED <<threads, body, prior, plan, found, touched>>
    BY DEF Conclude, DoneHead, DropFailure, Conclusions, github, world, local
  <1>2. Post /\ Post'
    BY <1>1, SameParts DEF ShowInv, PlanInv
  <1>3. CASE Conclude
    BY <1>2, <1>3, Concluded DEF Conclude, Go, Conclusions
  <1>4. CASE DoneHead
    BY <1>2, <1>4, Concluded, EndPlan
    DEF DoneHead, Go, Conclusions, Complete
  <1>5. CASE DropFailure
    <2>1. PICK o : End(o)
      BY <1>5 DEF DropFailure
    <2>2. /\ pc' = "idle"
          /\ last'.times > 0 => ~touched /\ last'.report = found
      BY <2>1, EndFacts
    <2>3. OpenThreads' = OpenThreads
      BY <1>1 DEF OpenThreads, OpenIn
    <2>4. last'.times > 0 => LastShown'
      BY <1>1, <1>2, <2>2, <2>3 DEF Post, LastShown
    <2> QED
      BY <2>2, <2>4 DEF PlanInv, Late, Settling, Planned, Conclusions
  <1> QED
    BY <1>3, <1>4, <1>5

LEMMA BreakingPlan == ASSUME Break \/ Crash PROVE PlanInv'
  <1>1. CASE Break
    BY <1>1, EndPlan, NothingPlanned DEF Break, Settle, Complete
  <1>2. CASE Crash
    BY <1>2, EndPlan DEF Crash, Complete
  <1> QED
    BY <1>1, <1>2

-----------------------------------------------------------------------------
(* What is not a step of the review.                                       *)

LEMMA OutsidePlan ==
    ASSUME DraftInv, Shape, ShowInv,
           Push \/ Dismiss \/ CloseLate \/ Over \/ UNCHANGED vars
    PROVE  PlanInv'
  <1>1. UNCHANGED <<pc, goal, run, prior, plan, found, body, draft, wire, shown>>
    BY DEF Push, Dismiss, CloseLate, Aside, Over, vars, github, local, settling
  <1>2. (Own' <=> Own) /\ (Late' <=> Late) /\ PlanInv
    BY <1>1 DEF Own, Payload, Late, Settling, ShowInv
  <1>3. CASE UNCHANGED <<threads, touched, last>>
    <2>1. UNCHANGED <<threads, touched, last>>
      BY <1>3
    <2>2. (Pre' <=> Pre) /\ (Post' <=> Post) /\ (LastShown' <=> LastShown)
      BY <1>1, <2>1, SameParts, SameLast
    <2> QED
      BY <1>1, <1>2, <2>1, <2>2 DEF PlanInv
  <1>4. CASE touched' = TRUE /\ last' = Nothing
    <2>1. touched' = TRUE /\ ~(last'.times > 0)
      BY <1>4 DEF Nothing
    <2>2. (Pre => Pre') /\ (Post => Post')
      BY <1>1, <2>1 DEF Pre, Post
    <2> QED
      BY <1>1, <1>2, <2>1, <2>2 DEF PlanInv
  <1>5. Push \/ Over \/ UNCHANGED vars => UNCHANGED <<threads, touched, last>>
    BY DEF Push, Over, vars, github, world
  <1>6. CASE Dismiss \/ CloseLate
    <2>1. CASE UNCHANGED <<threads, touched, last>>
      BY <1>3, <2>1
    <2>2. CASE \E t : Meddle(t)
      <3>1. touched' = TRUE /\ last' = Nothing
        BY <2>2 DEF Meddle
      <3> QED
        BY <1>4, <3>1
    <2>3. CASE Dismiss
      <3>1. \E t \in DOMAIN threads : Meddle(t)
        BY <2>3 DEF Dismiss
      <3> QED
        BY <2>2, <3>1
    <2>4. CASE CloseLate
      <3>1. PICK t \in closing :
              Meddle(t) \/ UNCHANGED <<threads, touched, last>>
        BY <2>4 DEF CloseLate
      <3> QED
        BY <2>1, <2>2, <3>1
    <2> QED
      BY <1>6, <2>3, <2>4
  <1> QED
    BY <1>3, <1>5, <1>6

LEMMA CarryOutPlan ==
    ASSUME DraftInv, Shape, ShowInv, CarryOut PROVE PlanInv'
  <1>1. PICK w \in wire :
             /\ wire' = wire \ {w} /\ TakesEffect(w)
             /\ UNCHANGED <<pc, goal, target, run, prior, plan, found, touched,
                            last>>
    BY DEF CarryOut, world, local, settling
  <1>2. (Late' <=> Late) /\ Payload' = Payload /\ PlanInv /\ DataInv
    BY <1>1 DEF Late, Settling, Payload, ShowInv
  <1>3. CASE Unpublished /\ draft' \in {draft, NoDraft, w.review}
                /\ (draft' = w.review => draft = w.review \/ w.kind = "create")
    <2>1. /\ UNCHANGED <<threads, body, shown>>
          /\ (Pre' <=> Pre) /\ (Post' <=> Post) /\ (LastShown' <=> LastShown)
      BY <1>1, <1>3, SameParts, SameLast DEF Unpublished
    <2>2. ASSUME pc \in {"draftHead", "submit"} \/ Late, Own PROVE Own'
      <3>1. pc # "idle"
        BY <2>2 DEF Late, Settling
      <3>2. ~OnWire("create", run) /\ run # 0
        BY <2>2, <3>1, Running DEF Drafted, OffWire, OnWire
      <3>3. draft'.run = run => draft' = draft
        BY <1>3, <3>2 DEF OnWire, NoDraft
      <3> QED
        BY <1>1, <1>2, <2>2, <3>3 DEF Own
    <2> QED
      BY <1>1, <1>2, <2>1, <2>2 DEF PlanInv
  <1>4. CASE w.kind = "submit" /\ draft = w.review /\ Publish(draft)
    <2>1. ~Spared(w.review.run) /\ w.review.run \in 1 .. MaxRuns
      BY <1>4, ForeignSubmission
    <2>2. ~Swept /\ ~Rested /\ (Late => draft.run = run)
      BY <1>4, <2>1 DEF Spared
    <2>3. CASE Late
      <3>1. draft.run = run /\ draft = Payload /\ plan.obsolete = {}
        BY <1>2, <2>2, <2>3 DEF PlanInv, Own
      <3>2. run \notin shown
        BY <1>4, <2>1, <3>1 DEF ShowInv, InertInv, Gone
      <3>3. Pre
        BY <1>2, <2>3, <3>2 DEF PlanInv
      <3>4. Post'
        BY <1>1, <1>2, <1>4, <3>1, <3>3, PublishPost
      <3>5. run' \in shown' /\ draft' = NoDraft
        BY <1>1, <1>4, <3>1 DEF Publish
      <3>6. Own'
        <4>1. run # 0
          BY <2>3, Running DEF Late, Settling
        <4>2. \A v \in wire' : v.kind = "submit" /\ v.review.run = run
                                  => v.review = Payload
          BY <1>1, <1>2, <2>3 DEF PlanInv, Own
        <4> QED
          BY <1>1, <1>2, <3>5, <4>1, <4>2 DEF Own, NoDraft
      <3>7. pc' \in {"rejected", "unanswered", "delete", "readback"}
        BY <1>1, <2>3 DEF Late, Settling
      <3> QED
        BY <1>1, <3>1, <3>4, <3>5, <3>6, <3>7
        DEF PlanInv, Planned, Conclusions
    <2>4. CASE ~Late
      BY <1>1, <1>2, <2>2, <2>4 DEF PlanInv, Swept, Rested, Planned, Conclusions
    <2> QED
      BY <2>3, <2>4
  <1> QED
    BY <1>1, <1>3, <1>4 DEF TakesEffect, CreateDraft

LEMMA PlanNext == DraftInv /\ Shape /\ ShowInv /\ [Next]_vars => PlanInv'
  BY OpeningPlan, ResolvingPlan, CreatePlan, DraftedPlan, ReadSubmissionPlan,
     DeletePlan, ReadbackPlan, ConcludingPlan, BreakingPlan, OutsidePlan,
     CarryOutPlan
  DEF Next, ReviewStep

LEMMA ShowNext == DraftInv /\ Shape /\ ShowInv /\ [Next]_vars => ShowInv'
  BY InertNext, CleanNext, PlanNext, DataNext DEF ShowInv

(* The inductive invariant behind FindingsShown holds in every state.      *)
THEOREM ShowInvariance == Spec => []ShowInv
  <1>1. DraftInv /\ Shape /\ ShowInv /\ [Next]_vars => ShowInv'
    BY ShowNext
  <1> QED
    BY <1>1, ShowInit, DraftInvariance, ShapeInvariance, PTL DEF Spec

(* After a complete review GitHub shows its findings and no others: as     *)
(* many open threads and body entries of an anchor as the report has       *)
(* findings there. It does so whatever the reviews before it left and      *)
(* whatever creations, submissions, deletions and resolutions are on the   *)
(* wire, until a thread is resolved by others or by one of those late      *)
(* resolutions, and except for a review that read the threads of a pending *)
(* draft.                                                                  *)
THEOREM FindingsAreShown == Spec => []FindingsShown
  <1>1. DraftInv /\ Shape /\ ShowInv => FindingsShown
    <2> SUFFICES ASSUME DraftInv, Shape, ShowInv, pc = "idle", last.times > 0
                 PROVE  /\ Cardinality(body) + Cardinality(OpenThreads)
                              = Cardinality(last.report)
                        /\ \A f \in last.report :
                              Shows(f.anchor) = Cardinality(
                                  {g \in last.report : g.anchor = f.anchor})
      BY DEF FindingsShown
    <2>1. Balance(body, OpenThreads, {}, last.report)
      BY DEF ShowInv, PlanInv, LastShown
    <2>2. /\ IsFiniteSet(body) /\ IsFiniteSet(OpenThreads)
          /\ Cardinality(body) + Cardinality(OpenThreads) + Cardinality({})
               = Cardinality(last.report)
          /\ \A f \in last.report :
                Of(body, f.anchor) + Of(OpenThreads, f.anchor)
                    + Of({}, f.anchor)
                  = Cardinality({g \in last.report : g.anchor = f.anchor})
      BY <2>1 DEF Balance
    <2>3. /\ Cardinality({}) = 0
          /\ Cardinality(body) \in Nat /\ Cardinality(OpenThreads) \in Nat
      BY <2>2, FS_EmptySet, FS_CardinalityType
    <2>4. ASSUME NEW f \in last.report
          PROVE  Shows(f.anchor)
                   = Cardinality({g \in last.report : g.anchor = f.anchor})
      <3>1. Shows(f.anchor) = Of(body, f.anchor) + Of(OpenThreads, f.anchor)
        BY DEF Shows, Of
      <3>2. Of(body, f.anchor) \in Nat /\ Of(OpenThreads, f.anchor) \in Nat
        BY <2>2, OfFinite
      <3> QED
        BY <2>2, <3>1, <3>2, OfEmpty
    <2> QED
      BY <2>2, <2>3, <2>4
  <1> QED
    BY <1>1, DraftInvariance, ShapeInvariance, ShowInvariance, PTL
=============================================================================
