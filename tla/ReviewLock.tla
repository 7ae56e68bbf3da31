----------------------------- MODULE ReviewLock -----------------------------
(***************************************************************************)
(* The local process lock under which reviews run                          *)
(* (apps/cli/src/review/lock.ts, FileReviewLock).  The lock is the file    *)
(* manual-review.lock, published with link(2) so that it appears complete  *)
(* and never replaces another.  A process that finds the lock of a process *)
(* that no longer exists reclaims it: it links a claim file named after    *)
(* that owner (the next generation of it when the claimants of all earlier *)
(* ones are gone), looks at the lock again and removes it.                 *)
(*                                                                         *)
(* One step is one file operation or one process inspection.  The owner    *)
(* token of a candidate is fresh for every attempt, so that comparing the  *)
(* owner compares the inode as well; a claim file names its target, so the *)
(* target inside it is the target of its path.  A process that ended is    *)
(* recognised as such: missing, or of another birth when its PID was       *)
(* reused (inspectProcess).                                                *)
(***************************************************************************)
EXTENDS Naturals, FiniteSets

CONSTANTS
    Procs,       \* the processes that call acquire
    Gone,        \* processes that ended before the model starts
    NoProc,
    MaxCalls,    \* bound on the acquire calls of a process
    MayAbort,    \* whether the caller's signal may fire during acquire
    MayCrash     \* whether a process may end at any point

ASSUME ProcsAssumption ==
    /\ Procs \cap Gone = {}
    /\ NoProc \notin Procs \cup Gone
    /\ MaxCalls \in Nat
    /\ MayAbort \in BOOLEAN /\ MayCrash \in BOOLEAN

(* acquire's #tryAcquire(3, signal).                                       *)
Attempts == 3

(* LockOwner: a process and the number of its attempt.                     *)
Owners == [proc : Procs \cup Gone, n : Nat]

NoFile == [proc |-> NoProc, n |-> 0]     \* there is no lock file

VARIABLES
    lock,       \* the owner in manual-review.lock, or NoFile
    claims,     \* the claim files
    alive,      \* the processes that exist
    pc,         \* where each process is in acquire, or with its lease
    tick,       \* attempts of each process so far: randomUUID
    left,       \* attemptsRemaining
    calls,      \* acquire calls of each process so far
    seen,       \* observed.owner, the target of the claim
    gen,        \* generation
    rival,      \* existing.claimant
    paths,      \* generations whose claim files the process will remove
    outcome,    \* what #removeStaleOwner returns after its cleanup
    overlap     \* history: processes active at some time during the call

vars == <<lock, claims, alive, pc, tick, left, calls, seen, gen, rival, paths,
          outcome, overlap>>

Claims == [target : Owners, gen : Nat, claimant : Owners]

PCs == {"idle", "link", "observe", "probe", "claim", "readClaim", "judge",
        "recheck", "unlink", "cleanup", "held", "relRead", "relUnlink", "dead"}

Me(p) == [proc |-> p, n |-> tick[p]]
IsOwnerAlive(o) == o.proc \in alive
ClaimFile(o, g) == {c \in claims : c.target = o /\ c.gen = g}

Active(p) == pc[p] \notin {"idle", "dead"}

(* The lock may have been left behind by a process that ended, and so may  *)
(* a claim on it, by a process that ended while it reclaimed the lock.     *)
Init ==
    /\ lock \in {NoFile} \cup [proc : Gone, n : {0}]
    /\ \/ claims = {}
       \/ /\ lock # NoFile
          /\ \E g \in Gone :
                claims = {[target |-> lock, gen |-> 0,
                           claimant |-> [proc |-> g, n |-> 1]]}
    /\ alive = Procs
    /\ pc = [p \in Procs |-> "idle"]
    /\ tick = [p \in Procs |-> 0]
    /\ left = [p \in Procs |-> 0]
    /\ calls = [p \in Procs |-> 0]
    /\ seen = [p \in Procs |-> NoFile]
    /\ gen = [p \in Procs |-> 0]
    /\ rival = [p \in Procs |-> NoFile]
    /\ paths = [p \in Procs |-> {}]
    /\ outcome = [p \in Procs |-> "none"]
    /\ overlap = [p \in Procs |-> {}]

-----------------------------------------------------------------------------
Goto(p, label) == pc' = [pc EXCEPT ![p] = label]

claimVars == <<seen, gen, rival, paths, outcome>>

(* acquire: the first attempt writes its candidate.                        *)
Acquire(p) ==
    /\ pc[p] = "idle" /\ calls[p] < MaxCalls
    /\ calls' = [calls EXCEPT ![p] = @ + 1]
    /\ tick' = [tick EXCEPT ![p] = @ + 1]
    /\ left' = [left EXCEPT ![p] = Attempts]
    /\ overlap' = [q \in Procs |->
                     IF q = p THEN {r \in Procs : Active(r)}
                     ELSE IF Active(q) THEN overlap[q] \cup {p}
                     ELSE overlap[q]]
    /\ Goto(p, "link")
    /\ UNCHANGED <<lock, claims, alive, claimVars>>

(* Mutant of LinkLock: the candidate is renamed over the lock.             *)
RenameLock(p) ==
    /\ pc[p] = "link"
    /\ lock' = Me(p)
    /\ Goto(p, "held")
    /\ UNCHANGED <<claims, alive, tick, left, calls, claimVars, overlap>>

(* link(candidate, lock): the lease, or EEXIST.                            *)
LinkLock(p) ==
    /\ pc[p] = "link"
    /\ IF lock = NoFile
       THEN lock' = Me(p) /\ Goto(p, "held")
       ELSE /\ Goto(p, IF left[p] <= 1 THEN "idle" ELSE "observe")
            /\ UNCHANGED lock
    /\ UNCHANGED <<claims, alive, tick, left, calls, claimVars, overlap>>

(* #removeStaleOwner reads the lock.                                       *)
Observe(p) ==
    /\ pc[p] = "observe"
    /\ seen' = [seen EXCEPT ![p] = lock]
    /\ IF lock = NoFile
       THEN /\ tick' = [tick EXCEPT ![p] = @ + 1]
            /\ left' = [left EXCEPT ![p] = @ - 1]
            /\ Goto(p, "link")
       ELSE Goto(p, "probe") /\ UNCHANGED <<tick, left>>
    /\ UNCHANGED <<lock, claims, alive, calls, gen, rival, paths, outcome,
                   overlap>>

(* A lock whose owner lives is respected: ReviewInProgressError.           *)
ProbeOwner(p) ==
    /\ pc[p] = "probe"
    /\ Goto(p, IF IsOwnerAlive(seen[p]) THEN "idle" ELSE "claim")
    /\ gen' = [gen EXCEPT ![p] = 0]
    /\ paths' = [paths EXCEPT ![p] = {}]
    /\ UNCHANGED <<lock, claims, alive, tick, left, calls, seen, rival, outcome,
                   overlap>>

(* #claimStaleOwner: link(candidate, claim file of this generation).       *)
LinkClaim(p) ==
    /\ pc[p] = "claim"
    /\ IF ClaimFile(seen[p], gen[p]) = {}
       THEN /\ claims' = claims \cup {[target |-> seen[p], gen |-> gen[p],
                                       claimant |-> Me(p)]}
            /\ paths' = [paths EXCEPT ![p] = @ \cup {gen[p]}]
            /\ Goto(p, "recheck")
       ELSE Goto(p, "readClaim") /\ UNCHANGED <<claims, paths>>
    /\ UNCHANGED <<lock, alive, tick, left, calls, seen, gen, rival, outcome,
                   overlap>>

(* The claim that was in the way is read, unless it went away meanwhile.   *)
ReadClaim(p) ==
    /\ pc[p] = "readClaim"
    /\ \/ /\ ClaimFile(seen[p], gen[p]) = {}
          /\ Goto(p, "claim")
          /\ UNCHANGED rival
       \/ \E c \in ClaimFile(seen[p], gen[p]) :
             /\ rival' = [rival EXCEPT ![p] = c.claimant]
             /\ Goto(p, "judge")
    /\ UNCHANGED <<lock, claims, alive, tick, left, calls, seen, gen, paths,
                   outcome, overlap>>

(* Mutants of JudgeClaimant: a dead claimant still blocks; its generation  *)
(* is tried again.                                                         *)
JudgeAllAlive(p) ==
    /\ pc[p] = "judge"
    /\ Goto(p, "idle")
    /\ UNCHANGED <<lock, claims, alive, tick, left, calls, claimVars, overlap>>

JudgeSameGeneration(p) ==
    /\ pc[p] = "judge"
    /\ Goto(p, IF IsOwnerAlive(rival[p]) THEN "idle" ELSE "claim")
    /\ UNCHANGED <<lock, claims, alive, tick, left, calls, claimVars, overlap>>

(* A later generation is taken only when the claimant is gone.             *)
JudgeClaimant(p) ==
    /\ pc[p] = "judge"
    /\ IF IsOwnerAlive(rival[p])
       THEN Goto(p, "idle") /\ UNCHANGED <<gen, paths>>
       ELSE /\ paths' = [paths EXCEPT ![p] = @ \cup {gen[p]}]
            /\ gen' = [gen EXCEPT ![p] = @ + 1]
            /\ Goto(p, "claim")
    /\ UNCHANGED <<lock, claims, alive, tick, left, calls, seen, rival, outcome,
                   overlap>>

(* Mutant of Recheck: any lock that is still there is removed.             *)
RecheckPresence(p) ==
    /\ pc[p] = "recheck"
    /\ IF lock # NoFile
       THEN Goto(p, "unlink") /\ UNCHANGED outcome
       ELSE outcome' = [outcome EXCEPT ![p] = "retry"] /\ Goto(p, "cleanup")
    /\ UNCHANGED <<lock, claims, alive, tick, left, calls, seen, gen, rival,
                   paths, overlap>>

(* The claim is held: the lock is read again and must be the one observed. *)
Recheck(p) ==
    /\ pc[p] = "recheck"
    /\ IF lock = seen[p]
       THEN Goto(p, "unlink") /\ UNCHANGED outcome
       ELSE /\ outcome' = [outcome EXCEPT ![p] =
                              IF lock = NoFile THEN "retry" ELSE "refuse"]
            /\ Goto(p, "cleanup")
    /\ UNCHANGED <<lock, claims, alive, tick, left, calls, seen, gen, rival,
                   paths, overlap>>

(* unlink(lock), whatever it is by now.                                    *)
UnlinkStale(p) ==
    /\ pc[p] = "unlink"
    /\ lock' = NoFile
    /\ outcome' = [outcome EXCEPT ![p] = "retry"]
    /\ Goto(p, "cleanup")
    /\ UNCHANGED <<claims, alive, tick, left, calls, seen, gen, rival, paths,
                   overlap>>

(* The claim files are unlinked in no particular order (Promise.all), the  *)
(* earlier generations along with the process's own.                       *)
UnlinkClaim(p) ==
    /\ pc[p] = "cleanup"
    /\ \E g \in paths[p] :
          /\ claims' = claims \ ClaimFile(seen[p], g)
          /\ paths' = [paths EXCEPT ![p] = @ \ {g}]
    /\ UNCHANGED <<lock, alive, pc, tick, left, calls, seen, gen, rival,
                   outcome, overlap>>

(* #removeStaleOwner returns: another attempt, or no lease.                *)
CleanedUp(p) ==
    /\ pc[p] = "cleanup" /\ paths[p] = {}
    /\ IF outcome[p] = "retry"
       THEN /\ tick' = [tick EXCEPT ![p] = @ + 1]
            /\ left' = [left EXCEPT ![p] = @ - 1]
            /\ Goto(p, "link")
       ELSE Goto(p, "idle") /\ UNCHANGED <<tick, left>>
    /\ UNCHANGED <<lock, claims, alive, calls, claimVars, overlap>>

(* The signal fires: acquire throws at its next check, and a claim that is *)
(* held is given up on the way out.                                        *)
Abort(p) ==
    /\ MayAbort
    /\ \/ /\ pc[p] \in {"link", "observe", "probe", "claim", "judge"}
          /\ Goto(p, "idle")
          /\ UNCHANGED outcome
       \/ /\ pc[p] = "recheck"
          /\ outcome' = [outcome EXCEPT ![p] = "abort"]
          /\ Goto(p, "cleanup")
    /\ UNCHANGED <<lock, claims, alive, tick, left, calls, seen, gen, rival,
                   paths, overlap>>

-----------------------------------------------------------------------------
(* The lease.  Its release reads the lock and removes it if it is its own. *)

Release(p) ==
    /\ pc[p] = "held"
    /\ Goto(p, "relRead")
    /\ UNCHANGED <<lock, claims, alive, tick, left, calls, claimVars, overlap>>

ReleaseRead(p) ==
    /\ pc[p] = "relRead"
    /\ Goto(p, IF lock = Me(p) THEN "relUnlink" ELSE "idle")
    /\ UNCHANGED <<lock, claims, alive, tick, left, calls, claimVars, overlap>>

ReleaseUnlink(p) ==
    /\ pc[p] = "relUnlink"
    /\ lock' = NoFile
    /\ Goto(p, "idle")
    /\ UNCHANGED <<claims, alive, tick, left, calls, claimVars, overlap>>

(* The process ends, wherever it is; its files stay.                       *)
Crash(p) ==
    /\ MayCrash
    /\ pc[p] # "dead"
    /\ alive' = alive \ {p}
    /\ Goto(p, "dead")
    /\ UNCHANGED <<lock, claims, tick, left, calls, claimVars, overlap>>

-----------------------------------------------------------------------------
Step(p) ==
    \/ LinkLock(p) \/ Observe(p) \/ ProbeOwner(p)
    \/ LinkClaim(p) \/ ReadClaim(p) \/ JudgeClaimant(p)
    \/ Recheck(p) \/ UnlinkStale(p) \/ UnlinkClaim(p) \/ CleanedUp(p)
    \/ ReleaseRead(p) \/ ReleaseUnlink(p)

Next == \E p \in Procs :
    Acquire(p) \/ Step(p) \/ Release(p) \/ Abort(p) \/ Crash(p)

Spec == Init /\ [][Next]_vars

(* A process that started an operation goes on with it; nothing is assumed *)
(* of callers, reviews or crashes.                                         *)
FairSpec == Spec /\ \A p \in Procs : WF_vars(Step(p))

-----------------------------------------------------------------------------
(* Properties.                                                             *)

TypeInvariant ==
    /\ lock \in Owners \cup {NoFile}
    /\ claims \subseteq Claims
    /\ alive \subseteq Procs
    /\ pc \in [Procs -> PCs]
    /\ tick \in [Procs -> Nat]
    /\ left \in [Procs -> 0..Attempts]
    /\ calls \in [Procs -> Nat]
    /\ seen \in [Procs -> Owners \cup {NoFile}]
    /\ gen \in [Procs -> Nat]
    /\ rival \in [Procs -> Owners \cup {NoFile}]
    /\ paths \in [Procs -> SUBSET Nat]
    /\ outcome \in [Procs -> {"none", "retry", "refuse", "abort"}]
    /\ overlap \in [Procs -> SUBSET Procs]

(* Two processes never hold the lease, and so never review, at once.       *)
MutualExclusion ==
    \A p, q \in Procs : pc[p] = "held" /\ pc[q] = "held" => p = q

(* While a lease is held the lock file is its own: nobody removes or       *)
(* replaces the lock of a process that lives.                              *)
LeaseKept == \A p \in Procs : pc[p] \in {"held", "relRead", "relUnlink"} => lock = Me(p)

(* The call ends with ReviewInProgressError.                               *)
Refused(p) ==
    /\ pc'[p] = "idle"
    /\ \/ LinkLock(p) \/ ProbeOwner(p) \/ JudgeClaimant(p)
       \/ CleanedUp(p) /\ outcome[p] = "refuse"

(* A call that met no other active process is never refused: a lock or a   *)
(* claim that a process left behind when it ended, or when it gave up,     *)
(* does not block the next caller.                                         *)
LoneCallerNotRefused ==
    [][\A p \in Procs :
          Refused(p) => overlap[p] # {}]_vars

(* Without aborts the lock implements the abstract one: a lease is granted *)
(* only while nobody holds one.                                            *)
Lock == INSTANCE Mutex WITH Clients <- Procs,
                            holders <- {p \in Procs : pc[p] = "held"}

ImplementsMutex == Lock!Spec

(* Every acquire call ends, with a lease or an error.                      *)
AcquireEnds ==
    \A p \in Procs :
        pc[p] = "link" ~> pc[p] \in {"idle", "held", "dead"}
=============================================================================
