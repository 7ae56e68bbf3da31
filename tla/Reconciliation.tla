---------------------------- MODULE Reconciliation ----------------------------
(* Finding identities (review/findings.ts) and the plan that reconciles the *)
(* findings of one review with what GitHub shows of the earlier ones        *)
(* (review/reconciliation.ts).                                              *)
(*                                                                          *)
(* Abstraction. The digests of findings.ts are tuples of what they are      *)
(* computed from. A finding is its anchor (path, kinds and anchor text),    *)
(* the changed line it is on and the changed lines around it (its context). *)
(* Digests are compared by a fixed order that stands for the alphabetical   *)
(* one. The assignment of maximum weight is any assignment of maximum       *)
(* weight: which one the Hungarian algorithm returns among equally good     *)
(* ones is left open.                                                       *)
EXTENDS Integers, FiniteSets, FiniteSetsExt, SequencesExt

CONSTANT NoContext      \* no other changed text before or after the line

(***************************************************************************)
(* Identities                                                              *)
(***************************************************************************)

Semantic(f) == <<"semantic", f.anchor>>
Exact(f) == <<"exact", f.anchor, f.line>>
Occurrence(f) == <<"occurrence", f.anchor, f.line>>
Context(f) == IF f.context = NoContext
              THEN {} ELSE {<<"context", f.anchor, f.context>>}

(* The semantic digest names a finding while it is the only one of its      *)
(* anchor in the report; with peers, the digest of its occurrence does.     *)
HasPeers(f, report) == \E g \in report : g.anchor = f.anchor /\ g.line # f.line
Fingerprint(f, report) ==
    IF HasPeers(f, report) THEN Occurrence(f) ELSE Semantic(f)

Identity(f, report) ==
    LET fp == Fingerprint(f, report)
    IN  [fingerprint |-> fp,
         aliases |-> ({Semantic(f), Exact(f)} \cup Context(f)) \ {fp}]

Tokens(i) == {i.fingerprint} \cup i.aliases

(* The identities of a report, with the anchor they are grouped by.         *)
Current(report) ==
    {[anchor |-> f.anchor, fingerprint |-> Identity(f, report).fingerprint,
      aliases |-> Identity(f, report).aliases] : f \in report}

(* A prior identity is on a thread, or in the body state (thread 0).        *)
Prior(body, threads) ==
    {[fingerprint |-> i.fingerprint, aliases |-> i.aliases, thread |-> 0] :
        i \in body} \cup threads

(***************************************************************************)
(* Matching                                                                *)
(***************************************************************************)

(* The order in which the code visits identities; those of a report have    *)
(* different ranks where they are of the same anchor.                       *)
Rank(i) == IF i.fingerprint[1] = "semantic" THEN 0 ELSE i.fingerprint[3]
PriorBefore(p, q) ==
    Rank(p) < Rank(q) \/ (Rank(p) = Rank(q) /\ p.thread < q.thread)
FirstPrior(p, S) == \A q \in S : q = p \/ PriorBefore(p, q)

(* The anchors whose findings a prior identity may continue; one that may   *)
(* continue several is left out.                                            *)
Anchors(cs) == {c.anchor : c \in cs}
MayContinue(p, a, cs) ==
    \/ <<"semantic", a>> \in Tokens(p)
    \/ \E c \in cs : c.anchor = a /\ c.fingerprint \in Tokens(p)
PriorGroup(a, cs, ps) ==
    {p \in ps : {b \in Anchors(cs) : MayContinue(p, b, cs)} = {a}}

(* Equal fingerprints match first, each with the first that has it.         *)
ExactPairs(cs, ps) ==
    {pair \in cs \X ps :
        /\ pair[1].fingerprint = pair[2].fingerprint
        /\ FirstPrior(pair[2], {q \in ps : q.fingerprint = pair[2].fingerprint})}

Lefts(pairs) == {pair[1] : pair \in pairs}
Rights(pairs) == {pair[2] : pair \in pairs}

Having(t, S) == Cardinality({i \in S : t \in Tokens(i)})

(* Evidence: tokens, other than the semantic one, that exactly one identity *)
(* on each side has; a fingerprint weighs more.                             *)
Score(c, p, cs, ps) ==
    LET unique == {t \in Tokens(c) \cap Tokens(p) :
                      /\ t # <<"semantic", c.anchor>>
                      /\ Having(t, cs) = 1 /\ Having(t, ps) = 1}
        worth(t) == 1 + (IF t = c.fingerprint THEN 2 ELSE 0)
                      + (IF t = p.fingerprint THEN 2 ELSE 0)
    IN  MapThenSumSet(worth, unique)

IsMatching(pairs) ==
    \A x, y \in pairs : (x[1] = y[1]) <=> (x[2] = y[2])

(* The assignments of maximum weight.                                       *)
StrongestPairs(cs, ps) ==
    LET scale == 1 + Max({Cardinality(cs), Cardinality(ps)})
        weight(pair) ==
            1 + scale * Score(pair[1], pair[2], cs, ps)
        edges == {pair \in cs \X ps : Score(pair[1], pair[2], cs, ps) > 0}
        matchings == {m \in SUBSET edges : IsMatching(m)}
        total(m) == MapThenSumSet(weight, m)
    IN  {m \in matchings : \A n \in matchings : total(n) <= total(m)}

(* A token is repeated if more than one identity on each side has it.       *)
(* Mutant of Repeated: more than two.                                       *)
MoreThanTwice(t, cs, ps) == Having(t, cs) > 2 /\ Having(t, ps) > 2
Repeated(t, cs, ps) == Having(t, cs) > 1 /\ Having(t, ps) > 1

(* Identities that share the same set of repeated tokens pair up in order:  *)
(* each with the one that has as many of the set before it on its side.     *)
CohortPairs(a, cs, ps) ==
    LET repeated == {t \in UNION {Tokens(c) : c \in cs} :
                        t # <<"semantic", a>> /\ Repeated(t, cs, ps)}
        signature(i) == Tokens(i) \cap repeated
        ahead(c) == {d \in cs : signature(d) = signature(c) /\ Rank(d) < Rank(c)}
        priorAhead(p) == {q \in ps : signature(q) = signature(p)
                                        /\ PriorBefore(q, p)}
    IN  {pair \in cs \X ps :
            /\ signature(pair[1]) # {}
            /\ signature(pair[1]) = signature(pair[2])
            /\ Cardinality(ahead(pair[1])) = Cardinality(priorAhead(pair[2]))}

(* The semantic token alone is enough only if one side had one identity.    *)
FallbackPairs(a, group, priors, cs, ps) ==
    LET heirs == {p \in ps : <<"semantic", a>> \in Tokens(p)}
    IN  {pair \in cs \X heirs :
            /\ Cardinality(group) = 1 \/ Cardinality(priors) = 1
            /\ \A c \in cs : c = pair[1] \/ Rank(pair[1]) < Rank(c)
            /\ FirstPrior(pair[2], heirs)}

(* The matchings of one anchor's group, each stage on what is left.         *)
GroupMatchings(a, cs, ps) ==
    LET group == {c \in cs : c.anchor = a}
        priors == PriorGroup(a, cs, ps)
        left(S, m) == S \ Lefts(m)
        right(S, m) == S \ Rights(m)
        exact == ExactPairs(group, priors)
        strong == {exact \cup m :
                      m \in StrongestPairs(left(group, exact),
                                           right(priors, exact))}
        cohorts == {m \cup CohortPairs(a, left(group, m), right(priors, m)) :
                      m \in strong}
    IN  {m \cup FallbackPairs(a, group, priors, left(group, m),
                              right(priors, m)) : m \in cohorts}

(***************************************************************************)
(* The plan                                                                *)
(***************************************************************************)

(* What the plan of a report is, given the body state and the open threads  *)
(* that were read: the findings to publish, the threads to resolve and the  *)
(* body state to publish. A finding found in the body stays there.          *)
PlanOf(matching, cs, body, ps) ==
    LET bare(c) == [fingerprint |-> c.fingerprint, aliases |-> c.aliases]
        kept == {bare(pair[1]) :
                    pair \in {x \in matching : x[2].thread = 0}}
    IN  [netNew |-> {bare(c) : c \in cs \ Lefts(matching)},
         obsolete |-> {p.thread : p \in ps \ Rights(matching)} \ {0},
         body |-> kept,
         bodyChanged |-> kept # body]

Plans(report, body, threads) ==
    LET cs == Current(report)
        ps == Prior(body, threads)
        choices == [Anchors(cs) -> UNION {GroupMatchings(a, cs, ps) :
                                             a \in Anchors(cs)}]
    IN  {PlanOf(UNION {g[a] : a \in Anchors(cs)}, cs, body, ps) :
            g \in {h \in choices : \A a \in Anchors(cs) :
                                      h[a] \in GroupMatchings(a, cs, ps)}}
=============================================================================
