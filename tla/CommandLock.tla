---------------------------- MODULE CommandLock ----------------------------
(***************************************************************************)
(* The lock under which setup and the repository commands run              *)
(* (apps/cli/src/config/command-lock.ts).  Like the review lock it is a    *)
(* file published with link(2), and the lock of a process that ended is    *)
(* removed under a claim file.  Unlike there, every call first removes     *)
(* what processes that ended have left: candidate files, and groups of     *)
(* claim files none of whose claimants lives, which it does under a claim  *)
(* of its own although the lock they are about may still be there.         *)
(*                                                                         *)
(* One step is one file operation or one process inspection.  A token is   *)
(* fresh for every record, so comparing tokens compares inodes as well; a  *)
(* claim file names its target.  A process has at most one candidate at a  *)
(* time and never removes that of a process that lives, so a candidate is  *)
(* the name of its process.                                                *)
(***************************************************************************)
EXTENDS Naturals, FiniteSets

CONSTANTS
    Procs,       \* the processes that run a command, and so call
                 \* acquireCommandLock once
    Gone,        \* processes that ended before the model starts
    NoProc

ASSUME CommandLockAssumption ==
    /\ Procs \cap Gone = {}
    /\ NoProc \notin Procs \cup Gone

(* attemptCommandLock(path, 3, ...).                                       *)
Attempts == 3

(* CommandLockRecord: a process and the number of its record.              *)
Records == [proc : Procs \cup Gone, n : Nat]

NoFile == [proc |-> NoProc, n |-> 0]

(* CommandLockReclaim, at the generation of its path.                      *)
Claims == [target : Records, gen : Nat, claimant : Records]

VARIABLES
    lock,       \* the record in the lock file, or NoFile
    claims,     \* the claim files
    drafts,     \* the processes whose candidate file exists
    alive,      \* the processes that exist
    pc,         \* where each process is in its call, or with its lease
    tick,       \* records of each process so far: randomUUID
    left,       \* attemptsRemaining
    listing,    \* names of claim files not yet dealt with: <<target, gen>>
    cleaning,   \* whether the claim is for cleaning or for the lock
    unread,     \* generations of the group still to read
    seen,       \* the lock observed, or the target of the group
    gen,        \* generation
    rival,      \* existing.claimant
    paths,      \* generations whose claim files the process will remove
    removed,    \* what removeStaleLock returns after its cleanup
    overlap,    \* history: processes active at some time during the call
    orphaned    \* history: a process ended while its claim was published

claimVars == <<listing, cleaning, unread, seen, gen, rival, paths, removed>>
callVars == <<tick, left>>
history == <<overlap, orphaned>>
vars == <<lock, claims, drafts, alive, pc, callVars, claimVars, history>>

PCs == {"idle", "candidates", "list", "group", "readGroup", "judgeGroup",
        "stat", "read", "probe", "claim", "readClaim", "judge", "claimed",
        "recheck", "unlink", "cleanup", "write", "link", "linked", "held",
        "relRead", "relUnlink", "done", "dead"}

Me(p) == [proc |-> p, n |-> tick[p]]
ProcessOwns(r) == r.proc \in alive
ClaimFile(t, g) == {c \in claims : c.target = t /\ c.gen = g}
ClaimsOf(p) == {c \in claims : c.claimant.proc = p}
Active(p) == pc[p] \notin {"idle", "done", "dead"}

(* The lock of a process that ended may be there, a claim on it of another *)
(* one that ended while it reclaimed it, and the candidate of that one.    *)
Init ==
    /\ lock \in {NoFile} \cup [proc : Gone, n : {0}]
    /\ \/ claims = {}
       \/ /\ lock # NoFile
          /\ \E g \in Gone :
                claims = {[target |-> lock, gen |-> 0,
                           claimant |-> [proc |-> g, n |-> 1]]}
    /\ drafts \in SUBSET Gone
    /\ alive = Procs
    /\ pc = [p \in Procs |-> "idle"]
    /\ tick = [p \in Procs |-> 0]
    /\ left = [p \in Procs |-> 0]
    /\ listing = [p \in Procs |-> {}]
    /\ cleaning = [p \in Procs |-> FALSE]
    /\ unread = [p \in Procs |-> {}]
    /\ seen = [p \in Procs |-> NoFile]
    /\ gen = [p \in Procs |-> 0]
    /\ rival = [p \in Procs |-> NoFile]
    /\ paths = [p \in Procs |-> {}]
    /\ removed = [p \in Procs |-> FALSE]
    /\ overlap = [p \in Procs |-> {}]
    /\ orphaned = (claims # {})

-----------------------------------------------------------------------------
Goto(p, label) == pc' = [pc EXCEPT ![p] = label]

(* A call that gives up forgets what it read.                              *)
Forget(p) ==
    /\ listing' = [listing EXCEPT ![p] = {}]
    /\ cleaning' = [cleaning EXCEPT ![p] = FALSE]
    /\ unread' = [unread EXCEPT ![p] = {}]
    /\ seen' = [seen EXCEPT ![p] = NoFile]
    /\ gen' = [gen EXCEPT ![p] = 0]
    /\ rival' = [rival EXCEPT ![p] = NoFile]
    /\ paths' = [paths EXCEPT ![p] = {}]
    /\ removed' = [removed EXCEPT ![p] = FALSE]

(* The call ends with ConcurrentCommandError, or because a file it was     *)
(* about to read has gone.                                                 *)
Refuse(p) == Goto(p, "done") /\ Forget(p)

(* Mutant of Acquire: one attempt too many.                                *)
AcquireOneMore(p) ==
    /\ pc[p] = "idle"
    /\ left' = [left EXCEPT ![p] = Attempts + 1]
    /\ Goto(p, "candidates")
    /\ UNCHANGED <<lock, claims, drafts, alive, tick, claimVars, history>>

(* acquireCommandLock.                                                     *)
Acquire(p) ==
    /\ pc[p] = "idle"
    /\ left' = [left EXCEPT ![p] = Attempts]
    /\ overlap' = [q \in Procs |->
                     IF q = p THEN {r \in Procs : Active(r)}
                     ELSE IF Active(q) THEN overlap[q] \cup {p}
                     ELSE overlap[q]]
    /\ Goto(p, "candidates")
    /\ UNCHANGED <<lock, claims, drafts, alive, tick, claimVars, orphaned>>

-----------------------------------------------------------------------------
(* Cleaning.                                                               *)

(* cleanUniqueCandidates: the candidates whose process lives stay.         *)
CleanCandidates(p) ==
    /\ pc[p] = "candidates"
    /\ drafts' = drafts \cap alive
    /\ Goto(p, "list")
    /\ UNCHANGED <<lock, claims, alive, callVars, claimVars, history>>

(* Mutant of ListClaims: only the first generation is recognised.          *)
ListFirstGeneration(p) ==
    /\ pc[p] = "list"
    /\ listing' = [listing EXCEPT ![p] =
                      {<<c.target, 0>> : c \in {c \in claims : c.gen = 0}}]
    /\ Goto(p, "group")
    /\ UNCHANGED <<lock, claims, drafts, alive, callVars, cleaning, unread, seen,
                   gen, rival, paths, removed, history>>

(* cleanPublishedReclaimClaims lists the claim files, once.                *)
ListClaims(p) ==
    /\ pc[p] = "list"
    /\ listing' = [listing EXCEPT ![p] = {<<c.target, c.gen>> : c \in claims}]
    /\ Goto(p, "group")
    /\ UNCHANGED <<lock, claims, drafts, alive, callVars, cleaning, unread, seen,
                   gen, rival, paths, removed, history>>

(* One group of claims on one target after the other, then the lock.       *)
NextGroup(p) ==
    /\ pc[p] = "group"
    /\ \/ /\ listing[p] = {}
          /\ tick' = [tick EXCEPT ![p] = @ + 1]
          /\ Forget(p)
          /\ Goto(p, "stat")
       \/ \E t \in {f[1] : f \in listing[p]} :
             LET gens == {f[2] : f \in {f \in listing[p] : f[1] = t}}
             IN  /\ seen' = [seen EXCEPT ![p] = t]
                 /\ unread' = [unread EXCEPT ![p] = gens]
                 /\ paths' = [paths EXCEPT ![p] = gens]
                 /\ listing' = [listing EXCEPT ![p] = {f \in @ : f[1] # t}]
                 /\ Goto(p, "readGroup")
                 /\ UNCHANGED <<tick, cleaning, gen, rival, removed>>
    /\ UNCHANGED <<lock, claims, drafts, alive, left, history>>

(* The claims of the group are read one by one; a claim that has gone      *)
(* leaves the group to somebody else.  When all claimants were dead, a     *)
(* claim of the process' own is written.                                   *)
ReadGroup(p) ==
    /\ pc[p] = "readGroup"
    /\ \/ \E g \in unread[p] :
             /\ gen' = [gen EXCEPT ![p] = g]
             /\ \/ /\ ClaimFile(seen[p], g) = {}
                   /\ Goto(p, "group")
                   /\ UNCHANGED rival
                \/ \E c \in ClaimFile(seen[p], g) :
                      /\ rival' = [rival EXCEPT ![p] = c.claimant]
                      /\ Goto(p, "judgeGroup")
             /\ UNCHANGED <<drafts, tick, cleaning>>
       \/ /\ unread[p] = {}
          /\ gen' = [gen EXCEPT ![p] = 0]
          /\ tick' = [tick EXCEPT ![p] = @ + 1]
          /\ cleaning' = [cleaning EXCEPT ![p] = TRUE]
          /\ drafts' = drafts \cup {p}
          /\ Goto(p, "claim")
          /\ UNCHANGED rival
    /\ UNCHANGED <<lock, claims, alive, left, listing, unread, seen, paths,
                   removed, history>>

JudgeGroup(p) ==
    /\ pc[p] = "judgeGroup"
    /\ IF ProcessOwns(rival[p])
       THEN Goto(p, "group") /\ UNCHANGED unread
       ELSE Goto(p, "readGroup") /\ unread' = [unread EXCEPT ![p] = @ \ {gen[p]}]
    /\ UNCHANGED <<lock, claims, drafts, alive, callVars, listing, cleaning, seen,
                   gen, rival, paths, removed, history>>

-----------------------------------------------------------------------------
(* attemptCommandLock.                                                     *)

(* readLockSnapshot: the file, then its content, then the file again.      *)
StatLock(p) ==
    /\ pc[p] = "stat"
    /\ seen' = [seen EXCEPT ![p] = lock]
    /\ Goto(p, IF lock = NoFile THEN "write" ELSE "read")
    /\ UNCHANGED <<lock, claims, drafts, alive, callVars, listing, cleaning,
                   unread, gen, rival, paths, removed, history>>

(* A lock that changed meanwhile is read again, a few times, or has gone   *)
(* when it is opened.                                                      *)
ReadLock(p) ==
    /\ pc[p] = "read"
    /\ \/ lock = seen[p] /\ Goto(p, "probe") /\ UNCHANGED claimVars
       \/ lock # seen[p] /\ Goto(p, "stat") /\ UNCHANGED claimVars
       \/ lock # seen[p] /\ Refuse(p)
    /\ UNCHANGED <<lock, claims, drafts, alive, callVars, history>>

(* The lock of a process that lives is respected.  Otherwise a claim on it *)
(* is written.                                                             *)
ProbeOwner(p) ==
    /\ pc[p] = "probe"
    /\ IF ProcessOwns(seen[p])
       THEN Refuse(p) /\ UNCHANGED drafts
       ELSE drafts' = drafts \cup {p} /\ Goto(p, "claim") /\ UNCHANGED claimVars
    /\ UNCHANGED <<lock, claims, alive, callVars, history>>

-----------------------------------------------------------------------------
(* publishReclaimClaim, for cleaning and for the lock.                     *)

(* No claim: the next group, or the lock stays with the other claimant.    *)
NoClaim(p) ==
    /\ drafts' = drafts \ {p}
    /\ IF cleaning[p]
       THEN /\ Goto(p, "group")
            /\ cleaning' = [cleaning EXCEPT ![p] = FALSE]
            /\ UNCHANGED <<listing, unread, seen, gen, rival, paths, removed>>
       ELSE Refuse(p)

LinkClaim(p) ==
    /\ pc[p] = "claim"
    /\ IF ClaimFile(seen[p], gen[p]) = {}
       THEN /\ claims' = claims \cup {[target |-> seen[p], gen |-> gen[p],
                                       claimant |-> Me(p)]}
            /\ paths' = [paths EXCEPT ![p] = @ \cup {gen[p]}]
            /\ Goto(p, "claimed")
       ELSE Goto(p, "readClaim") /\ UNCHANGED <<claims, paths>>
    /\ UNCHANGED <<lock, drafts, alive, callVars, listing, cleaning, unread, seen,
                   gen, rival, removed, history>>

(* The claim in the way is read, unless it went away meanwhile.            *)
ReadClaim(p) ==
    /\ pc[p] = "readClaim"
    /\ \/ ClaimFile(seen[p], gen[p]) = {} /\ NoClaim(p)
       \/ \E c \in ClaimFile(seen[p], gen[p]) :
             /\ rival' = [rival EXCEPT ![p] = c.claimant]
             /\ Goto(p, "judge")
             /\ UNCHANGED <<drafts, listing, cleaning, unread, seen, gen, paths,
                            removed>>
    /\ UNCHANGED <<lock, claims, alive, callVars, history>>

(* A later generation is taken only when the claimant is gone.             *)
JudgeClaimant(p) ==
    /\ pc[p] = "judge"
    /\ \/ ProcessOwns(rival[p]) /\ NoClaim(p)
       \/ /\ ~ProcessOwns(rival[p])
          /\ paths' = [paths EXCEPT ![p] = @ \cup {gen[p]}]
          /\ gen' = [gen EXCEPT ![p] = @ + 1]
          /\ Goto(p, "claim")
          /\ UNCHANGED <<drafts, listing, cleaning, unread, seen, rival, removed>>
    /\ UNCHANGED <<lock, claims, alive, callVars, history>>

(* The claim is there: its candidate goes.                                 *)
Claimed(p) ==
    /\ pc[p] = "claimed"
    /\ drafts' = drafts \ {p}
    /\ Goto(p, IF cleaning[p] THEN "cleanup" ELSE "recheck")
    /\ UNCHANGED <<lock, claims, alive, callVars, claimVars, history>>

-----------------------------------------------------------------------------
(* removeStaleLock under its claim.                                        *)

(* Mutant of Recheck: any lock that is still there is removed.             *)
RecheckPresence(p) ==
    /\ pc[p] = "recheck"
    /\ Goto(p, IF lock # NoFile THEN "unlink" ELSE "cleanup")
    /\ UNCHANGED <<lock, claims, drafts, alive, callVars, claimVars, history>>

(* The lock must be the one observed before the claim.                     *)
Recheck(p) ==
    /\ pc[p] = "recheck"
    /\ Goto(p, IF lock = seen[p] THEN "unlink" ELSE "cleanup")
    /\ UNCHANGED <<lock, claims, drafts, alive, callVars, claimVars, history>>

(* unlink(lock), whatever it is by now.                                    *)
UnlinkStale(p) ==
    /\ pc[p] = "unlink"
    /\ removed' = [removed EXCEPT ![p] = lock # NoFile]
    /\ lock' = NoFile
    /\ Goto(p, "cleanup")
    /\ UNCHANGED <<claims, drafts, alive, callVars, listing, cleaning, unread,
                   seen, gen, rival, paths, history>>

(* The claim files are unlinked in no particular order (Promise.all): the  *)
(* process' own, those of dead claimants it passed and, when cleaning, the *)
(* whole group.                                                            *)
UnlinkClaim(p) ==
    /\ pc[p] = "cleanup"
    /\ \E g \in paths[p] :
          /\ claims' = claims \ ClaimFile(seen[p], g)
          /\ paths' = [paths EXCEPT ![p] = @ \ {g}]
    /\ UNCHANGED <<lock, drafts, alive, pc, callVars, listing, cleaning, unread,
                   seen, gen, rival, removed, history>>

CleanedUp(p) ==
    /\ pc[p] = "cleanup" /\ paths[p] = {}
    /\ \/ /\ cleaning[p]
          /\ cleaning' = [cleaning EXCEPT ![p] = FALSE]
          /\ Goto(p, "group")
          /\ UNCHANGED <<listing, unread, seen, gen, rival, paths, removed>>
       \/ ~cleaning[p] /\ removed[p] /\ Forget(p) /\ Goto(p, "write")
       \/ ~cleaning[p] /\ ~removed[p] /\ Refuse(p)
    /\ UNCHANGED <<lock, claims, drafts, alive, callVars, history>>

-----------------------------------------------------------------------------
(* The lock is written as a candidate and linked; when another one came    *)
(* first the attempt is repeated.                                          *)

WriteLock(p) ==
    /\ pc[p] = "write"
    /\ drafts' = drafts \cup {p}
    /\ Goto(p, "link")
    /\ UNCHANGED <<lock, claims, alive, callVars, claimVars, history>>

LinkLock(p) ==
    /\ pc[p] = "link"
    /\ IF lock = NoFile
       THEN /\ lock' = Me(p)
            /\ Goto(p, "linked")
            /\ UNCHANGED <<drafts, tick, left, claimVars>>
       ELSE /\ drafts' = drafts \ {p}
            /\ UNCHANGED lock
            /\ IF left[p] > 1
               THEN /\ left' = [left EXCEPT ![p] = @ - 1]
                    /\ tick' = [tick EXCEPT ![p] = @ + 1]
                    /\ Goto(p, "stat")
                    /\ UNCHANGED claimVars
               ELSE Refuse(p) /\ UNCHANGED <<tick, left>>
    /\ UNCHANGED <<claims, alive, history>>

(* The lease is returned if the lock is still there (assertProtectedFile). *)
Granted(p) ==
    /\ pc[p] = "linked"
    /\ drafts' = drafts \ {p}
    /\ IF lock # NoFile THEN Forget(p) /\ Goto(p, "held") ELSE Refuse(p)
    /\ UNCHANGED <<lock, claims, alive, callVars, history>>

(* The lease.  Its release reads the lock and removes it if it is its own. *)
Release(p) ==
    /\ pc[p] = "held"
    /\ Goto(p, "relRead")
    /\ UNCHANGED <<lock, claims, drafts, alive, callVars, claimVars, history>>

ReleaseRead(p) ==
    /\ pc[p] = "relRead"
    /\ Goto(p, IF lock = Me(p) THEN "relUnlink" ELSE "done")
    /\ UNCHANGED <<lock, claims, drafts, alive, callVars, claimVars, history>>

ReleaseUnlink(p) ==
    /\ pc[p] = "relUnlink"
    /\ lock' = NoFile
    /\ Goto(p, "done")
    /\ UNCHANGED <<claims, drafts, alive, callVars, claimVars, history>>

(* The process ends, wherever it is; its files stay.                       *)
Crash(p) ==
    /\ pc[p] # "dead"
    /\ alive' = alive \ {p}
    /\ orphaned' = (orphaned \/ ClaimsOf(p) # {})
    /\ Forget(p)
    /\ Goto(p, "dead")
    /\ UNCHANGED <<lock, claims, drafts, callVars, overlap>>

-----------------------------------------------------------------------------
Clean(p) == CleanCandidates(p) \/ ListClaims(p) \/ NextGroup(p) \/ ReadGroup(p)
            \/ JudgeGroup(p)
Claim(p) == LinkClaim(p) \/ ReadClaim(p) \/ JudgeClaimant(p) \/ Claimed(p)
            \/ Recheck(p) \/ UnlinkStale(p) \/ UnlinkClaim(p) \/ CleanedUp(p)
Take(p) == StatLock(p) \/ ReadLock(p) \/ ProbeOwner(p) \/ WriteLock(p)
           \/ LinkLock(p) \/ Granted(p)

Next == \E p \in Procs :
    \/ Acquire(p) \/ Clean(p) \/ Claim(p) \/ Take(p)
    \/ Release(p) \/ ReleaseRead(p) \/ ReleaseUnlink(p) \/ Crash(p)

Spec == Init /\ [][Next]_vars

-----------------------------------------------------------------------------
(* Properties.                                                             *)

TypeInvariant ==
    /\ lock \in Records \cup {NoFile}
    /\ claims \subseteq Claims
    /\ drafts \subseteq Procs \cup Gone
    /\ alive \subseteq Procs
    /\ pc \in [Procs -> PCs]
    /\ tick \in [Procs -> Nat]
    /\ left \in [Procs -> 0..Attempts]
    /\ listing \in [Procs -> SUBSET (Records \X Nat)]
    /\ cleaning \in [Procs -> BOOLEAN]
    /\ unread \in [Procs -> SUBSET Nat]
    /\ seen \in [Procs -> Records \cup {NoFile}]
    /\ gen \in [Procs -> Nat]
    /\ rival \in [Procs -> Records \cup {NoFile}]
    /\ paths \in [Procs -> SUBSET Nat]
    /\ removed \in [Procs -> BOOLEAN]
    /\ overlap \in [Procs -> SUBSET Procs]
    /\ orphaned \in BOOLEAN

Holding == {"linked", "held", "relRead", "relUnlink"}

(* While nobody ended with a published claim, the lock file is that of the *)
(* process that holds the lease: no other command removes or replaces it.  *)
LeaseKept ==
    ~orphaned => \A p \in Procs : pc[p] \in Holding => lock = Me(p)

(* Two commands never hold the lease at once, whatever a process that      *)
(* ended has left behind.                                                  *)
MutualExclusion ==
    \A p, q \in Procs : pc[p] = "held" /\ pc[q] = "held" => p = q

Refused(p) ==
    /\ pc'[p] = "done"
    /\ \/ ReadLock(p) \/ ProbeOwner(p) \/ ReadClaim(p) \/ JudgeClaimant(p)
       \/ CleanedUp(p) \/ LinkLock(p)

(* A command that met no other one gets the lease, whatever processes that *)
(* ended anywhere have left, and leaves nothing of theirs behind.          *)
LoneCallerServed ==
    [][\A p \in Procs : overlap[p] = {} =>
          /\ ~Refused(p)
          /\ Granted(p) => pc'[p] = "held" /\ claims = {} /\ drafts' = {}]_vars
=============================================================================
