------------------------- MODULE CommandLockProofs -------------------------
(***************************************************************************)
(* Proofs about CommandLock, for any number of processes and crashes.      *)
(*                                                                         *)
(* Two kinds of process remove files: one that cleans up removes the claim *)
(* files of a group, and one that reclaims a lock removes first the lock   *)
(* and then the claims on it.  The heart of the argument is that, while no *)
(* process ended with its claim published, a claim on the lock that is in  *)
(* place belongs to a process that lives, so that it is neither passed by  *)
(* with a later generation nor removed by cleaning: whoever finds a        *)
(* claimant gone finds that the lock has gone as well.                     *)
(*                                                                         *)
(* The last part is about a process that meets no other one: it finds all  *)
(* that processes which ended have left, and is served.                    *)
(***************************************************************************)
EXTENDS CommandLock, TLAPS

Claiming == {"claim", "readClaim", "judge", "claimed", "recheck", "unlink"}
Grouping == {"readGroup", "judgeGroup"}

(* What is read of a lock or of a claim is a record.                       *)
SeenInv ==
    \A p \in Procs :
        pc[p] \in Claiming \cup Grouping \cup {"read", "probe", "cleanup"} =>
            seen[p] \in Records

(* The type invariant with what makes it inductive.                        *)
TypedInv == TypeInvariant /\ SeenInv

(* Claims are about locks of processes that ended.                         *)
TargetInv ==
    /\ \A c \in claims : c.target.proc \notin alive
    /\ \A p \in Procs : \A f \in listing[p] : f[1].proc \notin alive
    /\ \A p \in Procs : pc[p] \in Claiming \cup Grouping \cup {"cleanup"} =>
          seen[p].proc \notin alive

AliveInv == \A p \in Procs : pc[p] # "dead" => p \in alive

(* No two claim files have the same path.                                  *)
UniqueInv ==
    \A c, d \in claims : c.target = d.target /\ c.gen = d.gen => c = d

(* An attempt on the lock starts with the first generation.                *)
FreshInv ==
    \A p \in Procs : pc[p] \in {"stat", "read", "probe", "write", "link"} =>
        ~cleaning[p] /\ gen[p] = 0

(* Claims belong to processes that live.                                   *)
ClaimantInv == \A c \in claims : c.claimant.proc \in alive

(* While the lock is in place that p has seen, or whose claims it cleans:  *)
(* the claimant it judges still has its claim, ...                         *)
JudgeAt(p) ==
    pc[p] \in {"judge", "judgeGroup"} /\ lock = seen[p] =>
        \E c \in claims : c.target = seen[p] /\ c.claimant = rival[p]

(* ... it has found nobody gone, ...                                       *)
GroupAt(p) ==
    pc[p] \in Grouping /\ lock = seen[p] =>
        unread[p] = paths[p] /\ paths[p] # {}

FirstAt(p) ==
    pc[p] \in Claiming /\ lock = seen[p] => gen[p] = 0 /\ ~cleaning[p]

(* ... and its own claim, once it has one, is of the first generation.     *)
OwnClaimAt(p) ==
    pc[p] \in {"claimed", "recheck", "unlink"} /\ lock = seen[p] =>
        \E c \in claims : c.target = lock /\ c.gen = 0 /\ c.claimant.proc = p

(* The lock that is about to be removed is the one observed, claims are    *)
(* removed only after their lock, and the lock of a lease stays.           *)
UnlinkAt(p) == pc[p] = "unlink" => lock = seen[p]
CleanupAt(p) == pc[p] = "cleanup" => lock # seen[p]
HolderAt(p) == pc[p] \in Holding => lock = Me(p)

ProcInv(p) ==
    /\ JudgeAt(p) /\ GroupAt(p) /\ FirstAt(p) /\ OwnClaimAt(p)
    /\ UnlinkAt(p) /\ CleanupAt(p) /\ HolderAt(p)

ClaimsInv == ClaimantInv /\ \A p \in Procs : ProcInv(p)

BaseInv == TypedInv /\ TargetInv /\ AliveInv /\ UniqueInv /\ FreshInv

CommandInv == BaseInv /\ (~orphaned => ClaimsInv)

-----------------------------------------------------------------------------
(* The types of what a process remembers of its call.                      *)
CallTypes ==
    /\ pc \in [Procs -> PCs]
    /\ listing \in [Procs -> SUBSET (Records \X Nat)]
    /\ cleaning \in [Procs -> BOOLEAN]
    /\ unread \in [Procs -> SUBSET Nat]
    /\ seen \in [Procs -> Records \cup {NoFile}]
    /\ gen \in [Procs -> Nat]
    /\ rival \in [Procs -> Records \cup {NoFile}]
    /\ paths \in [Procs -> SUBSET Nat]
    /\ removed \in [Procs -> BOOLEAN]
    /\ SeenInv

(* A process that forgets its call remembers nothing that needs a type.    *)
LEMMA ForgetTypes ==
    ASSUME CallTypes, NEW p \in Procs, Forget(p),
           NEW l \in {"done", "stat", "write", "held", "dead"}, Goto(p, l)
    PROVE  CallTypes'
<1>1. l \in PCs /\ l \notin Claiming \cup Grouping \cup {"read", "probe", "cleanup"}
  BY DEF PCs, Claiming, Grouping
<1>2. SeenInv'
  BY <1>1 DEF CallTypes, SeenInv, Forget, Goto
<1> QED BY <1>1, <1>2 DEF CallTypes, Forget, Goto

(* Type correctness: the variables keep their types.                       *)
LEMMA TypeStep ==
    TypedInv /\ [Next]_vars => TypedInv'
<1> SUFFICES ASSUME TypedInv, [Next]_vars PROVE TypedInv'
  OBVIOUS
<1> DEFINE Files == /\ lock \in Records \cup {NoFile} /\ claims \subseteq Claims
                    /\ drafts \subseteq Procs \cup Gone /\ alive \subseteq Procs
                    /\ tick \in [Procs -> Nat] /\ left \in [Procs -> 0..Attempts]
                    /\ overlap \in [Procs -> SUBSET Procs]
                    /\ orphaned \in BOOLEAN
<1>split. ASSUME Files', CallTypes' PROVE TypedInv'
  BY <1>split DEF TypedInv, TypeInvariant, CallTypes
<1>call. CallTypes
  BY DEF TypedInv, TypeInvariant, CallTypes
<1>forget. ASSUME NEW p \in Procs, Forget(p),
                  NEW l \in {"done", "stat", "write", "held", "dead"}, Goto(p, l)
           PROVE  CallTypes'
  BY <1>forget, <1>call, ForgetTypes
<1>refuse. ASSUME NEW p \in Procs, Refuse(p) PROVE CallTypes'
  BY <1>refuse, <1>forget DEF Refuse
<1>group. ASSUME NEW p \in Procs, Goto(p, "group"),
                 cleaning' = [cleaning EXCEPT ![p] = FALSE],
                 UNCHANGED <<listing, unread, seen, gen, rival, paths, removed>>
          PROVE  CallTypes'
  <2>1. "group" \in PCs
        /\ "group" \notin Claiming \cup Grouping \cup {"read", "probe", "cleanup"}
    BY DEF PCs, Claiming, Grouping
  <2>2. SeenInv'
    BY <1>group, <1>call, <2>1 DEF CallTypes, SeenInv, Goto
  <2>3. cleaning' \in [Procs -> BOOLEAN] /\ pc' \in [Procs -> PCs]
    BY <1>group, <1>call, <2>1 DEF CallTypes, Goto
  <2> QED BY <1>group, <1>call, <2>2, <2>3 DEF CallTypes
<1>noClaim. ASSUME NEW p \in Procs, NoClaim(p) PROVE CallTypes'
  BY <1>noClaim, <1>group, <1>refuse DEF NoClaim
<1> USE DEF TypedInv, TypeInvariant, SeenInv, Claiming, Grouping, PCs, Goto,
            callVars, claimVars, history
<1>1. ASSUME NEW p \in Procs, Acquire(p) PROVE TypedInv'
  BY <1>1 DEF Acquire, Attempts
<1>2. ASSUME NEW p \in Procs, CleanCandidates(p) PROVE TypedInv'
  BY <1>2 DEF CleanCandidates
<1>3. ASSUME NEW p \in Procs, ListClaims(p) PROVE TypedInv'
  BY <1>3 DEF ListClaims, Claims
<1>4. ASSUME NEW p \in Procs, NextGroup(p) PROVE TypedInv'
  <2>1. CASE listing[p] = {}
    <3>1. Files'
      BY <1>4, <2>1 DEF NextGroup
    <3>2. CallTypes'
      BY <1>4, <1>forget, <2>1 DEF NextGroup
    <3> QED BY <1>split, <3>1, <3>2
  <2>2. ASSUME NEW t \in {f[1] : f \in listing[p]},
               NEW gens, gens = {f[2] : f \in {f \in listing[p] : f[1] = t}},
               seen' = [seen EXCEPT ![p] = t],
               unread' = [unread EXCEPT ![p] = gens],
               paths' = [paths EXCEPT ![p] = gens],
               listing' = [listing EXCEPT ![p] = {f \in @ : f[1] # t}],
               Goto(p, "readGroup"),
               UNCHANGED <<tick, cleaning, gen, rival, removed>>
        PROVE  TypedInv'
    <3>1. t \in Records /\ gens \subseteq Nat
      BY <2>2
    <3>2. {f \in listing[p] : f[1] # t} \subseteq Records \X Nat
      OBVIOUS
    <3> HIDE <2>2 DEF Records
    <3> QED BY <1>4, <2>2, <3>1, <3>2 DEF NextGroup
  <2> QED BY <1>4, <2>1, <2>2 DEF NextGroup
<1>5. ASSUME NEW p \in Procs, ReadGroup(p) PROVE TypedInv'
  <2>1. Files'
    BY <1>5 DEF ReadGroup
  <2>2. ASSUME NEW g \in unread[p], gen' = [gen EXCEPT ![p] = g],
               NEW r \in Records \cup {NoFile},
               rival' = [rival EXCEPT ![p] = r],
               NEW l \in {"group", "judgeGroup"}, Goto(p, l), cleaning' = cleaning
        PROVE  CallTypes'
    BY <1>5, <2>2 DEF ReadGroup, CallTypes
  <2>3. ASSUME unread[p] = {}, gen' = [gen EXCEPT ![p] = 0],
               cleaning' = [cleaning EXCEPT ![p] = TRUE],
               Goto(p, "claim"), rival' = rival
        PROVE  CallTypes'
    BY <1>5, <2>3 DEF ReadGroup, CallTypes
  <2>4. \A c \in claims : c.claimant \in Records
    BY DEF Claims
  <2>5. rival' = rival => rival' = [rival EXCEPT ![p] = rival[p]]
    OBVIOUS
  <2>6. CallTypes'
    BY <1>5, <2>2, <2>3, <2>4, <2>5 DEF ReadGroup, ClaimFile
  <2> QED BY <1>split, <2>1, <2>6
<1>6. ASSUME NEW p \in Procs, JudgeGroup(p) PROVE TypedInv'
  BY <1>6 DEF JudgeGroup
<1>7. ASSUME NEW p \in Procs, StatLock(p) PROVE TypedInv'
  BY <1>7 DEF StatLock
<1>8. ASSUME NEW p \in Procs, ReadLock(p) PROVE TypedInv'
  <2>1. Files'
    BY <1>8 DEF ReadLock
  <2>2. ASSUME ~Refuse(p) PROVE CallTypes'
    BY <1>8, <2>2 DEF ReadLock, CallTypes
  <2>3. ASSUME Refuse(p) PROVE CallTypes'
    BY <1>refuse, <2>3
  <2> QED BY <1>split, <2>1, <2>2, <2>3
<1>9. ASSUME NEW p \in Procs, ProbeOwner(p) PROVE TypedInv'
  <2>1. Files'
    BY <1>9 DEF ProbeOwner
  <2>2. ASSUME ~Refuse(p) PROVE CallTypes'
    BY <1>9, <2>2 DEF ProbeOwner, CallTypes
  <2>3. ASSUME Refuse(p) PROVE CallTypes'
    BY <1>refuse, <2>3
  <2> QED BY <1>split, <2>1, <2>2, <2>3
<1>10. ASSUME NEW p \in Procs, LinkClaim(p) PROVE TypedInv'
  BY <1>10 DEF LinkClaim, Me, Records, Claims
<1>11. ASSUME NEW p \in Procs, ReadClaim(p) PROVE TypedInv'
  <2>1. Files'
    BY <1>11 DEF ReadClaim, NoClaim
  <2>2. ASSUME NoClaim(p) PROVE CallTypes'
    BY <1>noClaim, <2>2
  <2>3. \A c \in claims : c.claimant \in Records
    BY DEF Claims
  <2>4. ASSUME ~NoClaim(p) PROVE CallTypes'
    BY <1>11, <2>3, <2>4 DEF ReadClaim, ClaimFile, CallTypes
  <2> QED BY <1>split, <2>1, <2>2, <2>4
<1>12. ASSUME NEW p \in Procs, JudgeClaimant(p) PROVE TypedInv'
  <2>1. Files'
    BY <1>12 DEF JudgeClaimant, NoClaim
  <2>2. ASSUME NoClaim(p) PROVE CallTypes'
    BY <1>noClaim, <2>2
  <2>3. ASSUME ~NoClaim(p) PROVE CallTypes'
    BY <1>12, <2>3 DEF JudgeClaimant, CallTypes
  <2> QED BY <1>split, <2>1, <2>2, <2>3
<1>13. ASSUME NEW p \in Procs, Claimed(p) PROVE TypedInv'
  BY <1>13 DEF Claimed
<1>14. ASSUME NEW p \in Procs, Recheck(p) PROVE TypedInv'
  BY <1>14 DEF Recheck
<1>15. ASSUME NEW p \in Procs, UnlinkStale(p) PROVE TypedInv'
  BY <1>15 DEF UnlinkStale
<1>16. ASSUME NEW p \in Procs, UnlinkClaim(p) PROVE TypedInv'
  BY <1>16 DEF UnlinkClaim, ClaimFile
<1>17. ASSUME NEW p \in Procs, CleanedUp(p) PROVE TypedInv'
  <2>1. Files'
    BY <1>17 DEF CleanedUp
  <2>2. ASSUME cleaning[p] PROVE CallTypes'
    BY <1>17, <1>group, <2>2 DEF CleanedUp
  <2>3. ASSUME ~cleaning[p] PROVE CallTypes'
    BY <1>17, <1>forget, <1>refuse, <2>3 DEF CleanedUp
  <2> QED BY <1>split, <2>1, <2>2, <2>3
<1>18. ASSUME NEW p \in Procs, WriteLock(p) PROVE TypedInv'
  BY <1>18 DEF WriteLock
<1>19. ASSUME NEW p \in Procs, LinkLock(p) PROVE TypedInv'
  <2>1. Files'
    BY <1>19 DEF LinkLock, Me, Records, Attempts
  <2>2. ASSUME Refuse(p) PROVE CallTypes'
    BY <1>refuse, <2>2
  <2>3. ASSUME ~Refuse(p) PROVE CallTypes'
    BY <1>19, <2>3 DEF LinkLock, CallTypes
  <2> QED BY <1>split, <2>1, <2>2, <2>3
<1>20. ASSUME NEW p \in Procs, Granted(p) PROVE TypedInv'
  <2>1. Files'
    BY <1>20 DEF Granted
  <2>2. CallTypes'
    BY <1>20, <1>forget, <1>refuse DEF Granted
  <2> QED BY <1>split, <2>1, <2>2
<1>21. ASSUME NEW p \in Procs, Release(p) PROVE TypedInv'
  BY <1>21 DEF Release
<1>22. ASSUME NEW p \in Procs, ReleaseRead(p) PROVE TypedInv'
  BY <1>22 DEF ReleaseRead
<1>23. ASSUME NEW p \in Procs, ReleaseUnlink(p) PROVE TypedInv'
  BY <1>23 DEF ReleaseUnlink
<1>24. ASSUME NEW p \in Procs, Crash(p) PROVE TypedInv'
  <2>1. Files'
    BY <1>24 DEF Crash, ClaimsOf
  <2>2. CallTypes'
    BY <1>24, <1>forget DEF Crash
  <2> QED BY <1>split, <2>1, <2>2
<1>25. CASE UNCHANGED vars
  BY <1>25 DEF vars
<1> QED
  BY <1>1, <1>2, <1>3, <1>4, <1>5, <1>6, <1>7, <1>8, <1>9, <1>10, <1>11, <1>12,
     <1>13, <1>14, <1>15, <1>16, <1>17, <1>18, <1>19, <1>20, <1>21, <1>22,
     <1>23, <1>24, <1>25
     DEF Next, Clean, Claim, Take

(* Every state of the lock is well typed.                                  *)
THEOREM TypeCorrect == Spec => []TypeInvariant
<1>1. Init => TypedInv
  BY CommandLockAssumption
     DEF Init, TypedInv, TypeInvariant, SeenInv, Claiming, Grouping, Records, Claims, PCs, Attempts
<1>2. TypedInv => TypeInvariant
  BY DEF TypedInv
<1> QED
  BY <1>1, <1>2, TypeStep, PTL DEF Spec

-----------------------------------------------------------------------------
(* What holds whatever processes that ended have left.                     *)
LEMMA BaseStep ==
    ASSUME BaseInv, [Next]_vars
    PROVE  BaseInv' /\ alive' \subseteq alive
<1>1. TypedInv'
  BY TypeStep DEF BaseInv
<1> USE <1>1 DEF BaseInv
<1> USE DEF TypedInv, TypeInvariant, SeenInv, TargetInv, AliveInv, UniqueInv,
            FreshInv, Claiming, Grouping, Goto, Forget, Refuse,
            callVars, claimVars, history
<1>2. ASSUME NEW p \in Procs, Acquire(p) PROVE BaseInv' /\ alive' \subseteq alive
  BY <1>2 DEF Acquire
<1>3. ASSUME NEW p \in Procs, CleanCandidates(p) PROVE BaseInv' /\ alive' \subseteq alive
  BY <1>3 DEF CleanCandidates
<1>4. ASSUME NEW p \in Procs, ListClaims(p) PROVE BaseInv' /\ alive' \subseteq alive
  BY <1>4 DEF ListClaims
<1>5. ASSUME NEW p \in Procs, NextGroup(p) PROVE BaseInv' /\ alive' \subseteq alive
  <2>1. CASE listing[p] = {}
    BY <1>5, <2>1 DEF NextGroup
  <2>2. ASSUME NEW t \in {f[1] : f \in listing[p]}, seen' = [seen EXCEPT ![p] = t],
               listing' = [listing EXCEPT ![p] = {f \in @ : f[1] # t}],
               Goto(p, "readGroup"), cleaning' = cleaning, gen' = gen
        PROVE  TargetInv' /\ FreshInv'
    <3>1. t.proc \notin alive
      BY <2>2
    <3> QED BY <1>5, <2>2, <3>1 DEF NextGroup
  <2>3. AliveInv' /\ UniqueInv' /\ alive' = alive
    BY <1>5 DEF NextGroup
  <2> QED BY <1>5, <2>1, <2>2, <2>3 DEF NextGroup
<1>6. ASSUME NEW p \in Procs, ReadGroup(p) PROVE BaseInv' /\ alive' \subseteq alive
  BY <1>6 DEF ReadGroup
<1>7. ASSUME NEW p \in Procs, JudgeGroup(p) PROVE BaseInv' /\ alive' \subseteq alive
  BY <1>7 DEF JudgeGroup
<1>8. ASSUME NEW p \in Procs, StatLock(p) PROVE BaseInv' /\ alive' \subseteq alive
  BY <1>8 DEF StatLock
<1>9. ASSUME NEW p \in Procs, ReadLock(p) PROVE BaseInv' /\ alive' \subseteq alive
  <2>1. AliveInv' /\ UniqueInv' /\ alive' = alive
    BY <1>9 DEF ReadLock
  <2>2. TargetInv'
    BY <1>9 DEF ReadLock
  <2>3. FreshInv'
    BY <1>9 DEF ReadLock
  <2> QED BY <2>1, <2>2, <2>3
<1>10. ASSUME NEW p \in Procs, ProbeOwner(p) PROVE BaseInv' /\ alive' \subseteq alive
  BY <1>10 DEF ProbeOwner, ProcessOwns
<1>11. ASSUME NEW p \in Procs, LinkClaim(p) PROVE BaseInv' /\ alive' \subseteq alive
  BY <1>11 DEF LinkClaim, ClaimFile
<1>12. ASSUME NEW p \in Procs, ReadClaim(p) PROVE BaseInv' /\ alive' \subseteq alive
  BY <1>12 DEF ReadClaim, NoClaim
<1>13. ASSUME NEW p \in Procs, JudgeClaimant(p) PROVE BaseInv' /\ alive' \subseteq alive
  BY <1>13 DEF JudgeClaimant, NoClaim
<1>14. ASSUME NEW p \in Procs, Claimed(p) PROVE BaseInv' /\ alive' \subseteq alive
  BY <1>14 DEF Claimed
<1>15. ASSUME NEW p \in Procs, Recheck(p) PROVE BaseInv' /\ alive' \subseteq alive
  BY <1>15 DEF Recheck
<1>16. ASSUME NEW p \in Procs, UnlinkStale(p) PROVE BaseInv' /\ alive' \subseteq alive
  BY <1>16 DEF UnlinkStale
<1>17. ASSUME NEW p \in Procs, UnlinkClaim(p) PROVE BaseInv' /\ alive' \subseteq alive
  BY <1>17 DEF UnlinkClaim, ClaimFile
<1>18. ASSUME NEW p \in Procs, CleanedUp(p) PROVE BaseInv' /\ alive' \subseteq alive
  <2>1. AliveInv' /\ UniqueInv' /\ alive' = alive
    BY <1>18 DEF CleanedUp
  <2>2. TargetInv'
    BY <1>18 DEF CleanedUp
  <2>3. FreshInv'
    BY <1>18 DEF CleanedUp
  <2> QED BY <2>1, <2>2, <2>3
<1>19. ASSUME NEW p \in Procs, WriteLock(p) PROVE BaseInv' /\ alive' \subseteq alive
  BY <1>19 DEF WriteLock
<1>20. ASSUME NEW p \in Procs, LinkLock(p) PROVE BaseInv' /\ alive' \subseteq alive
  BY <1>20 DEF LinkLock
<1>21. ASSUME NEW p \in Procs, Granted(p) PROVE BaseInv' /\ alive' \subseteq alive
  <2>1. AliveInv' /\ UniqueInv' /\ alive' = alive
    BY <1>21 DEF Granted
  <2>2. TargetInv'
    BY <1>21 DEF Granted
  <2>3. FreshInv'
    BY <1>21 DEF Granted
  <2> QED BY <2>1, <2>2, <2>3
<1>22. ASSUME NEW p \in Procs, Release(p) PROVE BaseInv' /\ alive' \subseteq alive
  BY <1>22 DEF Release
<1>23. ASSUME NEW p \in Procs, ReleaseRead(p) PROVE BaseInv' /\ alive' \subseteq alive
  BY <1>23 DEF ReleaseRead
<1>24. ASSUME NEW p \in Procs, ReleaseUnlink(p) PROVE BaseInv' /\ alive' \subseteq alive
  BY <1>24 DEF ReleaseUnlink
<1>25. ASSUME NEW p \in Procs, Crash(p) PROVE BaseInv' /\ alive' \subseteq alive
  BY <1>25 DEF Crash
<1>26. CASE UNCHANGED vars
  BY <1>26 DEF vars
<1> QED
  BY <1>2, <1>3, <1>4, <1>5, <1>6, <1>7, <1>8, <1>9, <1>10, <1>11, <1>12, <1>13,
     <1>14, <1>15, <1>16, <1>17, <1>18, <1>19, <1>20, <1>21, <1>22, <1>23,
     <1>24, <1>25, <1>26
     DEF Next, Clean, Claim, Take

-----------------------------------------------------------------------------
(* At most one process is between its claim and its unlink while the lock  *)
(* it has seen is in place: a first generation is claimed once.            *)
LEMMA Exclusive ==
    ASSUME BaseInv, ClaimsInv,
           NEW p \in Procs, pc[p] \in {"claimed", "recheck", "unlink"}, lock = seen[p],
           NEW q \in Procs, pc[q] \in {"claimed", "recheck", "unlink"}, lock = seen[q]
    PROVE  p = q
<1>1. PICK c \in claims : c.target = lock /\ c.gen = 0 /\ c.claimant.proc = p
  BY DEF ClaimsInv, ProcInv, OwnClaimAt
<1>2. PICK d \in claims : d.target = lock /\ d.gen = 0 /\ d.claimant.proc = q
  BY DEF ClaimsInv, ProcInv, OwnClaimAt
<1>3. c = d
  BY <1>1, <1>2 DEF BaseInv, UniqueInv
<1> QED BY <1>1, <1>2, <1>3

Unaffected(q) ==
    /\ pc'[q] = pc[q] /\ tick'[q] = tick[q] /\ seen'[q] = seen[q]
    /\ gen'[q] = gen[q] /\ rival'[q] = rival[q] /\ cleaning'[q] = cleaning[q]
    /\ unread'[q] = unread[q] /\ paths'[q] = paths[q]

Alone(p) == \A q \in Procs \ {p} : Unaffected(q)

(* What a step of p has to leave alone for what the others rely on to      *)
(* stay: the claims on the lock that is in place, and the lock itself if   *)
(* another process is about to remove it or holds the lease.  A lock that  *)
(* is replaced is replaced by that of a process that lives, and so is none *)
(* that another one has seen.                                              *)
LEMMA OthersKeep ==
    ASSUME BaseInv, ClaimsInv, NEW p \in Procs, NEW q \in Procs, q # p,
           Unaffected(q),
           \A c \in claims : c.target = lock => c \in claims',
           \/ lock' = lock
           \/ /\ lock' = NoFile \/ lock'.proc \in alive
              /\ pc[q] # "unlink" /\ pc[q] \notin Holding
    PROVE  ProcInv(q)'
<1>1. ASSUME pc[q] \in Claiming \cup Grouping \cup {"cleanup"}, lock' = seen[q]
      PROVE  lock = seen[q]
  <2>1. seen[q] \in Records /\ seen[q].proc \notin alive
    BY <1>1 DEF BaseInv, TypedInv, SeenInv, TargetInv
  <2>2. NoFile \notin Records
    BY CommandLockAssumption DEF NoFile, Records
  <2> QED BY <1>1, <2>1, <2>2
<1>2. ProcInv(q)
  BY DEF ClaimsInv
<1>3. JudgeAt(q)' /\ GroupAt(q)' /\ FirstAt(q)' /\ OwnClaimAt(q)'
  BY <1>1, <1>2
     DEF ProcInv, JudgeAt, GroupAt, FirstAt, OwnClaimAt, Claiming, Grouping,
         Unaffected
<1>4. UnlinkAt(q)' /\ CleanupAt(q)' /\ HolderAt(q)'
  BY <1>1, <1>2
     DEF ProcInv, UnlinkAt, CleanupAt, HolderAt, Me, Holding, Unaffected
<1> QED BY <1>3, <1>4 DEF ProcInv

(* A process that is at none of the places ProcInv speaks about, ...       *)
LEMMA Elsewhere ==
    ASSUME NEW p \in Procs,
           pc'[p] \notin Claiming \cup Grouping \cup Holding \cup {"cleanup"}
    PROVE  ProcInv(p)'
BY DEF ProcInv, JudgeAt, GroupAt, FirstAt, OwnClaimAt, UnlinkAt, CleanupAt,
       HolderAt, Claiming, Grouping, Holding

(* ... and one that works on a lock that is no longer in place.            *)
LEMMA LockGone ==
    ASSUME NEW p \in Procs, pc'[p] # "unlink", pc'[p] \notin Holding,
           lock' # seen'[p]
    PROVE  ProcInv(p)'
BY DEF ProcInv, JudgeAt, GroupAt, FirstAt, OwnClaimAt, UnlinkAt, CleanupAt,
       HolderAt

(* The inductive step, for a process that neither removes nor publishes    *)
(* anything: only what it knows itself is at stake.                        *)
LEMMA QuietStep ==
    ASSUME BaseInv, ClaimsInv, NEW p \in Procs,
           lock' = lock, claims' = claims, alive' = alive,
           Alone(p),
           ProcInv(p)'
    PROVE  ClaimsInv'
<1>1. \A q \in Procs : q # p => ProcInv(q)'
  BY OthersKeep DEF Alone
<1>2. ClaimantInv'
  BY DEF ClaimsInv, ClaimantInv
<1> QED BY <1>1, <1>2 DEF ClaimsInv

(* The steps that lead away from any group or claim.                       *)
LEMMA AcquireStep ==
    ASSUME BaseInv, BaseInv', ClaimsInv, NEW p \in Procs, Acquire(p)
    PROVE  ClaimsInv'
<1>f. /\ lock' = lock /\ claims' = claims /\ alive' = alive /\ Alone(p)
  BY DEF Acquire, BaseInv, TypedInv, TypeInvariant, Alone, Unaffected, callVars,
         claimVars, history, Goto, Forget, Refuse, NoClaim
<1>p. pc'[p] \notin Claiming \cup Grouping \cup Holding \cup {"cleanup"}
  BY DEF Acquire, BaseInv, TypedInv, TypeInvariant, Claiming, Grouping, Holding,
         Goto, Refuse
<1>g. ProcInv(p)'
  BY <1>p, Elsewhere
<1> QED BY <1>f, <1>g, QuietStep

(* Candidates are nothing the invariant speaks about.                      *)
LEMMA CleanCandidatesStep ==
    ASSUME BaseInv, BaseInv', ClaimsInv, NEW p \in Procs, CleanCandidates(p)
    PROVE  ClaimsInv'
<1>f. /\ lock' = lock /\ claims' = claims /\ alive' = alive /\ Alone(p)
  BY DEF CleanCandidates, BaseInv, TypedInv, TypeInvariant, Alone, Unaffected,
         callVars, claimVars, history, Goto, Forget, Refuse, NoClaim
<1>p. pc'[p] \notin Claiming \cup Grouping \cup Holding \cup {"cleanup"}
  BY DEF CleanCandidates, BaseInv, TypedInv, TypeInvariant, Claiming, Grouping,
         Holding, Goto, Refuse
<1>g. ProcInv(p)'
  BY <1>p, Elsewhere
<1> QED BY <1>f, <1>g, QuietStep

(* A listing is not yet a group.                                           *)
LEMMA ListClaimsStep ==
    ASSUME BaseInv, BaseInv', ClaimsInv, NEW p \in Procs, ListClaims(p)
    PROVE  ClaimsInv'
<1>f. /\ lock' = lock /\ claims' = claims /\ alive' = alive /\ Alone(p)
  BY DEF ListClaims, BaseInv, TypedInv, TypeInvariant, Alone, Unaffected,
         callVars, claimVars, history, Goto, Forget, Refuse, NoClaim
<1>p. pc'[p] \notin Claiming \cup Grouping \cup Holding \cup {"cleanup"}
  BY DEF ListClaims, BaseInv, TypedInv, TypeInvariant, Claiming, Grouping,
         Holding, Goto, Refuse
<1>g. ProcInv(p)'
  BY <1>p, Elsewhere
<1> QED BY <1>f, <1>g, QuietStep

(* A lock that was found has not been read.                                *)
LEMMA StatLockStep ==
    ASSUME BaseInv, BaseInv', ClaimsInv, NEW p \in Procs, StatLock(p)
    PROVE  ClaimsInv'
<1>f. /\ lock' = lock /\ claims' = claims /\ alive' = alive /\ Alone(p)
  BY DEF StatLock, BaseInv, TypedInv, TypeInvariant, Alone, Unaffected,
         callVars, claimVars, history, Goto, Forget, Refuse, NoClaim
<1>p. pc'[p] \notin Claiming \cup Grouping \cup Holding \cup {"cleanup"}
  BY DEF StatLock, BaseInv, TypedInv, TypeInvariant, Claiming, Grouping,
         Holding, Goto, Refuse
<1>g. ProcInv(p)'
  BY <1>p, Elsewhere
<1> QED BY <1>f, <1>g, QuietStep

(* A lock that was read has not been judged.                               *)
LEMMA ReadLockStep ==
    ASSUME BaseInv, BaseInv', ClaimsInv, NEW p \in Procs, ReadLock(p)
    PROVE  ClaimsInv'
<1>f. /\ lock' = lock /\ claims' = claims /\ alive' = alive /\ Alone(p)
  BY DEF ReadLock, BaseInv, TypedInv, TypeInvariant, Alone, Unaffected,
         callVars, claimVars, history, Goto, Forget, Refuse, NoClaim
<1>p. pc'[p] \notin Claiming \cup Grouping \cup Holding \cup {"cleanup"}
  BY DEF ReadLock, BaseInv, TypedInv, TypeInvariant, Claiming, Grouping,
         Holding, Goto, Refuse
<1>g. ProcInv(p)'
  BY <1>p, Elsewhere
<1> QED BY <1>f, <1>g, QuietStep

(* A candidate is no lock.                                                 *)
LEMMA WriteLockStep ==
    ASSUME BaseInv, BaseInv', ClaimsInv, NEW p \in Procs, WriteLock(p)
    PROVE  ClaimsInv'
<1>f. /\ lock' = lock /\ claims' = claims /\ alive' = alive /\ Alone(p)
  BY DEF WriteLock, BaseInv, TypedInv, TypeInvariant, Alone, Unaffected,
         callVars, claimVars, history, Goto, Forget, Refuse, NoClaim
<1>p. pc'[p] \notin Claiming \cup Grouping \cup Holding \cup {"cleanup"}
  BY DEF WriteLock, BaseInv, TypedInv, TypeInvariant, Claiming, Grouping,
         Holding, Goto, Refuse
<1>g. ProcInv(p)'
  BY <1>p, Elsewhere
<1> QED BY <1>f, <1>g, QuietStep

(* A group starts with all its claims to read.                             *)
LEMMA NextGroupStep ==
    ASSUME BaseInv, BaseInv', ClaimsInv, NEW p \in Procs, NextGroup(p)
    PROVE  ClaimsInv'
<1>f. /\ lock' = lock /\ claims' = claims /\ alive' = alive /\ Alone(p)
  <2>1. CASE listing[p] = {}
    BY <2>1
       DEF NextGroup, BaseInv, TypedInv, TypeInvariant, Alone, Unaffected,
           callVars, claimVars, history, Goto, Forget, Refuse, NoClaim
  <2>2. CASE listing[p] # {}
    BY <2>2
       DEF NextGroup, BaseInv, TypedInv, TypeInvariant, Alone, Unaffected,
           callVars, claimVars, history, Goto, Forget, Refuse, NoClaim
  <2> QED BY <2>1, <2>2
<1>g. ProcInv(p)'
  <2>1. CASE pc'[p] = "stat"
    BY <2>1, Elsewhere DEF Claiming, Grouping, Holding
  <2>2. CASE pc'[p] = "readGroup"
    <3>1. PICK t \in {f[1] : f \in listing[p]} :
            LET gens == {f[2] : f \in {f \in listing[p] : f[1] = t}}
            IN  unread' = [unread EXCEPT ![p] = gens] /\ paths' = [paths EXCEPT ![p] = gens]
      BY <2>2 DEF NextGroup, BaseInv, TypedInv, TypeInvariant, Goto
    <3>2. {f[2] : f \in {f \in listing[p] : f[1] = t}} # {}
      OBVIOUS
    <3>3. unread'[p] = paths'[p] /\ paths'[p] # {}
      BY <3>1, <3>2 DEF BaseInv, TypedInv, TypeInvariant
    <3> QED BY <2>2, <3>3
            DEF ProcInv, JudgeAt, GroupAt, FirstAt, OwnClaimAt, UnlinkAt,
                CleanupAt, HolderAt, Claiming, Grouping, Holding
  <2> QED BY <2>1, <2>2 DEF NextGroup, BaseInv, TypedInv, TypeInvariant, Goto
<1> QED BY <1>f, <1>g, QuietStep

(* A group all of whose claimants have gone is about a lock that has gone.  *)
LEMMA ReadGroupStep ==
    ASSUME BaseInv, BaseInv', ClaimsInv, NEW p \in Procs, ReadGroup(p)
    PROVE  ClaimsInv'
<1>f. /\ lock' = lock /\ claims' = claims /\ alive' = alive /\ Alone(p)
  BY DEF ReadGroup, BaseInv, TypedInv, TypeInvariant, Alone, Unaffected,
         callVars, claimVars, history, Goto, Forget, Refuse, NoClaim
<1>g. ProcInv(p)'
  <2>1. CASE pc'[p] = "group"
    BY <2>1, Elsewhere DEF Claiming, Grouping, Holding
  <2>2. CASE pc'[p] = "judgeGroup"
    <3>1. \E c \in claims' : c.target = seen'[p] /\ c.claimant = rival'[p]
      BY <2>2 DEF ReadGroup, BaseInv, TypedInv, TypeInvariant, Goto, ClaimFile
    <3>2. unread'[p] = unread[p] /\ paths'[p] = paths[p] /\ seen'[p] = seen[p] /\ pc[p] \in Grouping
      BY <2>2 DEF ReadGroup, BaseInv, TypedInv, TypeInvariant, Goto, Grouping
    <3>3. GroupAt(p)'
      BY <1>f, <3>2 DEF ClaimsInv, ProcInv, GroupAt
    <3> QED BY <2>2, <3>1, <3>3
            DEF ProcInv, JudgeAt, FirstAt, OwnClaimAt, UnlinkAt, CleanupAt,
                HolderAt, Claiming, Holding
  <2>3. CASE pc'[p] = "claim"
    <3>1. unread[p] = {} /\ seen'[p] = seen[p] /\ pc[p] \in Grouping
      BY <2>3 DEF ReadGroup, BaseInv, TypedInv, TypeInvariant, Goto, Grouping
    <3>2. lock # seen[p]
      BY <3>1 DEF ClaimsInv, ProcInv, GroupAt
    <3> QED BY <1>f, <2>3, <3>1, <3>2, LockGone DEF Holding
  <2> QED BY <2>1, <2>2, <2>3
             DEF ReadGroup, BaseInv, TypedInv, TypeInvariant, Goto
<1> QED BY <1>f, <1>g, QuietStep

(* A claimant that has gone took the lock of its claim with it.            *)
LEMMA JudgeGroupStep ==
    ASSUME BaseInv, BaseInv', ClaimsInv, NEW p \in Procs, JudgeGroup(p)
    PROVE  ClaimsInv'
<1>f. /\ lock' = lock /\ claims' = claims /\ alive' = alive /\ Alone(p)
  BY DEF JudgeGroup, BaseInv, TypedInv, TypeInvariant, Alone, Unaffected,
         callVars, claimVars, history, Goto, Forget, Refuse, NoClaim
<1>g. ProcInv(p)'
  <2>1. CASE pc'[p] = "group"
    BY <2>1, Elsewhere DEF Claiming, Grouping, Holding
  <2>2. CASE pc'[p] = "readGroup"
    <3>1. rival[p].proc \notin alive /\ seen'[p] = seen[p]
      BY <2>2
         DEF JudgeGroup, ProcessOwns, Goto, BaseInv, TypedInv, TypeInvariant
    <3>2. lock # seen[p]
      BY <3>1 DEF JudgeGroup, ClaimsInv, ClaimantInv, ProcInv, JudgeAt
    <3> QED BY <1>f, <2>2, <3>1, <3>2, LockGone DEF Holding
  <2> QED BY <2>1, <2>2 DEF JudgeGroup, BaseInv, TypedInv, TypeInvariant, Goto
<1> QED BY <1>f, <1>g, QuietStep

(* A claim for the lock starts with the first generation.                  *)
LEMMA ProbeOwnerStep ==
    ASSUME BaseInv, BaseInv', ClaimsInv, NEW p \in Procs, ProbeOwner(p)
    PROVE  ClaimsInv'
<1>f. /\ lock' = lock /\ claims' = claims /\ alive' = alive /\ Alone(p)
  BY DEF ProbeOwner, BaseInv, TypedInv, TypeInvariant, Alone, Unaffected,
         callVars, claimVars, history, Goto, Forget, Refuse, NoClaim
<1>g. ProcInv(p)'
  <2>1. CASE pc'[p] = "done"
    BY <2>1, Elsewhere DEF Claiming, Grouping, Holding
  <2>2. CASE pc'[p] = "claim"
    <3>1. gen'[p] = 0 /\ ~cleaning'[p]
      BY <2>2
         DEF ProbeOwner, BaseInv, TypedInv, TypeInvariant, FreshInv, Goto,
             Refuse, claimVars
    <3> QED BY <2>2, <3>1
            DEF ProcInv, JudgeAt, GroupAt, FirstAt, OwnClaimAt, UnlinkAt,
                CleanupAt, HolderAt, Grouping, Holding
  <2> QED BY <2>1, <2>2
             DEF ProbeOwner, BaseInv, TypedInv, TypeInvariant, Goto, Refuse
<1> QED BY <1>f, <1>g, QuietStep

(* The claimant that is judged is one whose claim is there.                *)
LEMMA ReadClaimStep ==
    ASSUME BaseInv, BaseInv', ClaimsInv, NEW p \in Procs, ReadClaim(p)
    PROVE  ClaimsInv'
<1>f. /\ lock' = lock /\ claims' = claims /\ alive' = alive /\ Alone(p)
  BY DEF ReadClaim, BaseInv, TypedInv, TypeInvariant, Alone, Unaffected,
         callVars, claimVars, history, Goto, Forget, Refuse, NoClaim
<1>g. ProcInv(p)'
  <2>1. CASE pc'[p] \in {"done", "group"}
    BY <2>1, Elsewhere DEF Claiming, Grouping, Holding
  <2>2. CASE pc'[p] = "judge"
    <3>1. \E c \in claims' : c.target = seen'[p] /\ c.claimant = rival'[p]
      BY <2>2
         DEF ReadClaim, BaseInv, TypedInv, TypeInvariant, Goto, ClaimFile,
             NoClaim, Refuse
    <3>2. seen'[p] = seen[p] /\ gen'[p] = gen[p] /\ cleaning'[p] = cleaning[p] /\ pc[p] \in Claiming
      BY <2>2
         DEF ReadClaim, BaseInv, TypedInv, TypeInvariant, Goto, Claiming,
             NoClaim, Refuse
    <3>3. FirstAt(p)'
      BY <1>f, <3>2 DEF ClaimsInv, ProcInv, FirstAt
    <3> QED BY <2>2, <3>1, <3>3
            DEF ProcInv, JudgeAt, GroupAt, OwnClaimAt, UnlinkAt, CleanupAt,
                HolderAt, Grouping, Holding
  <2> QED BY <2>1, <2>2
             DEF ReadClaim, BaseInv, TypedInv, TypeInvariant, Goto, NoClaim,
                 Refuse
<1> QED BY <1>f, <1>g, QuietStep

(* A later generation is only tried on a lock that has gone.               *)
LEMMA JudgeClaimantStep ==
    ASSUME BaseInv, BaseInv', ClaimsInv, NEW p \in Procs, JudgeClaimant(p)
    PROVE  ClaimsInv'
<1>f. /\ lock' = lock /\ claims' = claims /\ alive' = alive /\ Alone(p)
  BY DEF JudgeClaimant, BaseInv, TypedInv, TypeInvariant, Alone, Unaffected,
         callVars, claimVars, history, Goto, Forget, Refuse, NoClaim
<1>g. ProcInv(p)'
  <2>1. CASE pc'[p] \in {"done", "group"}
    BY <2>1, Elsewhere DEF Claiming, Grouping, Holding
  <2>2. CASE pc'[p] = "claim"
    <3>1. rival[p].proc \notin alive /\ seen'[p] = seen[p]
      BY <2>2
         DEF JudgeClaimant, ProcessOwns, Goto, BaseInv, TypedInv, TypeInvariant,
             NoClaim, Refuse
    <3>2. lock # seen[p]
      BY <3>1 DEF JudgeClaimant, ClaimsInv, ClaimantInv, ProcInv, JudgeAt
    <3> QED BY <1>f, <2>2, <3>1, <3>2, LockGone DEF Holding
  <2> QED BY <2>1, <2>2
             DEF JudgeClaimant, BaseInv, TypedInv, TypeInvariant, Goto, NoClaim,
                 Refuse
<1> QED BY <1>f, <1>g, QuietStep

(* A claim for cleaning is on a lock that has gone.                        *)
LEMMA ClaimedStep ==
    ASSUME BaseInv, BaseInv', ClaimsInv, NEW p \in Procs, Claimed(p)
    PROVE  ClaimsInv'
<1>f. /\ lock' = lock /\ claims' = claims /\ alive' = alive /\ Alone(p)
  BY DEF Claimed, BaseInv, TypedInv, TypeInvariant, Alone, Unaffected, callVars,
         claimVars, history, Goto, Forget, Refuse, NoClaim
<1>1. /\ seen'[p] = seen[p] /\ gen'[p] = gen[p] /\ cleaning'[p] = cleaning[p]
      /\ pc[p] = "claimed"
      /\ pc'[p] = IF cleaning[p] THEN "cleanup" ELSE "recheck"
  BY DEF Claimed, BaseInv, TypedInv, TypeInvariant, Goto, claimVars
<1>2. ProcInv(p)
  BY DEF ClaimsInv
<1>g. ProcInv(p)'
  <2>1. CASE cleaning[p]
    <3>1. lock # seen[p]
      BY <1>1, <1>2, <2>1 DEF ProcInv, FirstAt, Claiming
    <3> QED BY <1>1, <1>f, <2>1, <3>1, LockGone DEF Holding
  <2>2. CASE ~cleaning[p]
    BY <1>1, <1>2, <1>f, <2>2
       DEF ProcInv, JudgeAt, GroupAt, FirstAt, OwnClaimAt, UnlinkAt, CleanupAt,
           HolderAt, Claiming, Grouping, Holding
  <2> QED BY <2>1, <2>2
<1> QED BY <1>f, <1>g, QuietStep

(* The recheck compares the lock with the one observed.                    *)
LEMMA RecheckStep ==
    ASSUME BaseInv, BaseInv', ClaimsInv, NEW p \in Procs, Recheck(p)
    PROVE  ClaimsInv'
<1>f. /\ lock' = lock /\ claims' = claims /\ alive' = alive /\ Alone(p)
  BY DEF Recheck, BaseInv, TypedInv, TypeInvariant, Alone, Unaffected, callVars,
         claimVars, history, Goto, Forget, Refuse, NoClaim
<1>1. /\ seen'[p] = seen[p] /\ gen'[p] = gen[p] /\ cleaning'[p] = cleaning[p]
      /\ pc[p] = "recheck"
      /\ pc'[p] = IF lock = seen[p] THEN "unlink" ELSE "cleanup"
  BY DEF Recheck, BaseInv, TypedInv, TypeInvariant, Goto, claimVars
<1>2. ProcInv(p)
  BY DEF ClaimsInv
<1>g. ProcInv(p)'
  <2>1. CASE lock # seen[p]
    BY <1>1, <1>f, <2>1, LockGone DEF Holding
  <2>2. CASE lock = seen[p]
    BY <1>1, <1>2, <1>f, <2>2
       DEF ProcInv, JudgeAt, GroupAt, FirstAt, OwnClaimAt, UnlinkAt, CleanupAt,
           HolderAt, Claiming, Grouping, Holding
  <2> QED BY <2>1, <2>2
<1> QED BY <1>f, <1>g, QuietStep

(* Once all claims have been removed nothing is known any more.            *)
LEMMA CleanedUpStep ==
    ASSUME BaseInv, BaseInv', ClaimsInv, NEW p \in Procs, CleanedUp(p)
    PROVE  ClaimsInv'
<1>f. /\ lock' = lock /\ claims' = claims /\ alive' = alive /\ Alone(p)
  BY DEF CleanedUp, BaseInv, TypedInv, TypeInvariant, Alone, Unaffected,
         callVars, claimVars, history, Goto, Forget, Refuse, NoClaim
<1>p. pc'[p] \in {"group", "write", "done"}
  BY DEF CleanedUp, BaseInv, TypedInv, TypeInvariant, Goto, Refuse
<1>g. ProcInv(p)'
  BY <1>p, Elsewhere DEF Claiming, Grouping, Holding
<1> QED BY <1>f, <1>g, QuietStep

(* The lock that was linked is still there when the lease is returned.     *)
LEMMA GrantedStep ==
    ASSUME BaseInv, BaseInv', ClaimsInv, NEW p \in Procs, Granted(p)
    PROVE  ClaimsInv'
<1>f. /\ lock' = lock /\ claims' = claims /\ alive' = alive /\ Alone(p)
  BY DEF Granted, BaseInv, TypedInv, TypeInvariant, Alone, Unaffected, callVars,
         claimVars, history, Goto, Forget, Refuse, NoClaim
<1>1. /\ tick'[p] = tick[p] /\ pc[p] \in Holding
  BY DEF Granted, callVars, Holding
<1>2. lock = Me(p)
  BY <1>1 DEF ClaimsInv, ProcInv, HolderAt
<1>3. pc'[p] \notin Claiming \cup Grouping \cup {"cleanup"}
  BY DEF Granted, BaseInv, TypedInv, TypeInvariant, Goto, Forget, Refuse,
         Claiming, Grouping
<1>g. ProcInv(p)'
  BY <1>1, <1>2, <1>3, <1>f
     DEF ProcInv, JudgeAt, GroupAt, FirstAt, OwnClaimAt, UnlinkAt, CleanupAt,
         HolderAt, Me, Claiming, Grouping
<1> QED BY <1>f, <1>g, QuietStep

(* The lock stays while the lease is held, ...                             *)
LEMMA ReleaseStep ==
    ASSUME BaseInv, BaseInv', ClaimsInv, NEW p \in Procs, Release(p)
    PROVE  ClaimsInv'
<1>f. /\ lock' = lock /\ claims' = claims /\ alive' = alive /\ Alone(p)
  BY DEF Release, BaseInv, TypedInv, TypeInvariant, Alone, Unaffected, callVars,
         claimVars, history, Goto, Forget, Refuse, NoClaim
<1>1. /\ tick'[p] = tick[p] /\ pc[p] \in Holding
  BY DEF Release, callVars, Holding
<1>2. lock = Me(p)
  BY <1>1 DEF ClaimsInv, ProcInv, HolderAt
<1>3. pc'[p] \notin Claiming \cup Grouping \cup {"cleanup"}
  BY DEF Release, BaseInv, TypedInv, TypeInvariant, Goto, Forget, Refuse,
         Claiming, Grouping
<1>g. ProcInv(p)'
  BY <1>1, <1>2, <1>3, <1>f
     DEF ProcInv, JudgeAt, GroupAt, FirstAt, OwnClaimAt, UnlinkAt, CleanupAt,
         HolderAt, Me, Claiming, Grouping
<1> QED BY <1>f, <1>g, QuietStep

(* ... and until its release has read it.                                  *)
LEMMA ReleaseReadStep ==
    ASSUME BaseInv, BaseInv', ClaimsInv, NEW p \in Procs, ReleaseRead(p)
    PROVE  ClaimsInv'
<1>f. /\ lock' = lock /\ claims' = claims /\ alive' = alive /\ Alone(p)
  BY DEF ReleaseRead, BaseInv, TypedInv, TypeInvariant, Alone, Unaffected,
         callVars, claimVars, history, Goto, Forget, Refuse, NoClaim
<1>1. /\ tick'[p] = tick[p] /\ pc[p] \in Holding
  BY DEF ReleaseRead, callVars, Holding
<1>2. lock = Me(p)
  BY <1>1 DEF ClaimsInv, ProcInv, HolderAt
<1>3. pc'[p] \notin Claiming \cup Grouping \cup {"cleanup"}
  BY DEF ReleaseRead, BaseInv, TypedInv, TypeInvariant, Goto, Forget, Refuse,
         Claiming, Grouping
<1>g. ProcInv(p)'
  BY <1>1, <1>2, <1>3, <1>f
     DEF ProcInv, JudgeAt, GroupAt, FirstAt, OwnClaimAt, UnlinkAt, CleanupAt,
         HolderAt, Me, Claiming, Grouping
<1> QED BY <1>f, <1>g, QuietStep

(* A claim is taken once for each generation.                              *)
LEMMA LinkClaimStep ==
    ASSUME BaseInv, BaseInv', ClaimsInv, NEW p \in Procs, LinkClaim(p)
    PROVE  ClaimsInv'
<1>m. Me(p) \in Records /\ Me(p).proc = p /\ p \in alive
  BY DEF LinkClaim, BaseInv, TypedInv, TypeInvariant, AliveInv, Me, Records
<1>o. Alone(p)
  BY DEF LinkClaim, BaseInv, TypedInv, TypeInvariant, Alone, Unaffected,
         callVars, claimVars, history, Goto, Forget, Refuse, NoClaim
<1>1. lock' = lock /\ alive' = alive /\ claims \subseteq claims'
  BY DEF LinkClaim
<1>claimants. ClaimantInv'
  BY <1>m DEF LinkClaim, ClaimsInv, ClaimantInv
<1>others. \A q \in Procs : q # p => ProcInv(q)'
  BY <1>o, <1>1, OthersKeep DEF Alone
<1>2. ProcInv(p)
  BY DEF ClaimsInv
<1>3. /\ pc[p] = "claim" /\ seen'[p] = seen[p] /\ gen'[p] = gen[p]
      /\ cleaning'[p] = cleaning[p]
  BY DEF LinkClaim, claimVars
<1>4. FirstAt(p)'
  BY <1>1, <1>2, <1>3 DEF ProcInv, FirstAt, Claiming
<1>own. ProcInv(p)'
  <2>1. CASE pc'[p] = "claimed"
    <3>1. [target |-> seen[p], gen |-> gen[p], claimant |-> Me(p)] \in claims'
      BY <2>1 DEF LinkClaim, BaseInv, TypedInv, TypeInvariant, Goto
    <3>2. OwnClaimAt(p)'
      BY <1>m, <1>1, <1>3, <1>4, <2>1, <3>1 DEF OwnClaimAt, FirstAt, Claiming
    <3> QED BY <1>4, <2>1, <3>2
            DEF ProcInv, JudgeAt, GroupAt, UnlinkAt, CleanupAt, HolderAt, Grouping, Holding
  <2>2. CASE pc'[p] = "readClaim"
    BY <1>4, <2>2
       DEF ProcInv, JudgeAt, GroupAt, OwnClaimAt, UnlinkAt, CleanupAt, HolderAt, Grouping, Holding
  <2> QED BY <2>1, <2>2 DEF LinkClaim, BaseInv, TypedInv, TypeInvariant, Goto
<1> QED BY <1>claimants, <1>others, <1>own DEF ClaimsInv

(* The lock that is removed is the stale one, which nobody else reclaims    *)
(* and nobody holds.                                                       *)
LEMMA UnlinkStaleStep ==
    ASSUME BaseInv, BaseInv', ClaimsInv, NEW p \in Procs, UnlinkStale(p)
    PROVE  ClaimsInv'
<1>o. Alone(p)
  BY DEF UnlinkStale, BaseInv, TypedInv, TypeInvariant, Alone, Unaffected,
         callVars, claimVars, history, Goto, Forget, Refuse, NoClaim
<1>1. lock = seen[p] /\ pc[p] = "unlink"
  BY DEF UnlinkStale, ClaimsInv, ProcInv, UnlinkAt
<1>2. /\ lock' = NoFile /\ claims' = claims /\ alive' = alive
      /\ pc'[p] = "cleanup" /\ seen'[p] = seen[p]
  BY DEF UnlinkStale, BaseInv, TypedInv, TypeInvariant, Goto
<1>claimants. ClaimantInv'
  BY <1>2 DEF ClaimsInv, ClaimantInv
<1>3. ASSUME NEW q \in Procs, q # p PROVE pc[q] # "unlink"
  <2> SUFFICES ASSUME pc[q] = "unlink" PROVE FALSE
    OBVIOUS
  <2>1. lock = seen[q]
    BY DEF ClaimsInv, ProcInv, UnlinkAt
  <2> QED BY <1>1, <1>3, <2>1, Exclusive
<1>4. ASSUME NEW q \in Procs, pc[q] \in Holding PROVE FALSE
  <2>1. lock = Me(q) /\ lock.proc = q
    BY <1>4 DEF ClaimsInv, ProcInv, HolderAt, Me
  <2>2. q \in alive
    BY <1>4 DEF BaseInv, AliveInv, Holding
  <2>3. lock.proc \notin alive
    BY <1>1 DEF BaseInv, TargetInv, Claiming
  <2> QED BY <2>1, <2>2, <2>3
<1>others. \A q \in Procs : q # p => ProcInv(q)'
  BY <1>o, <1>2, <1>3, <1>4, OthersKeep DEF Alone
<1>5. seen[p] # NoFile
  BY <1>1, CommandLockAssumption
     DEF BaseInv, TypedInv, SeenInv, Claiming, Records, NoFile
<1>own. ProcInv(p)'
  BY <1>2, <1>5, LockGone DEF Holding
<1> QED BY <1>claimants, <1>others, <1>own DEF ClaimsInv

(* The claims that are removed are on a lock that has gone.                *)
LEMMA UnlinkClaimStep ==
    ASSUME BaseInv, BaseInv', ClaimsInv, NEW p \in Procs, UnlinkClaim(p)
    PROVE  ClaimsInv'
<1>o. Alone(p)
  BY DEF UnlinkClaim, BaseInv, TypedInv, TypeInvariant, Alone, Unaffected,
         callVars, claimVars, history, Goto, Forget, Refuse, NoClaim
<1>1. lock # seen[p]
  BY DEF UnlinkClaim, ClaimsInv, ProcInv, CleanupAt
<1>2. /\ lock' = lock /\ alive' = alive /\ claims' \subseteq claims
      /\ \A c \in claims : c.target = lock => c \in claims'
      /\ pc'[p] = "cleanup" /\ seen'[p] = seen[p]
  BY <1>1 DEF UnlinkClaim, ClaimFile
<1>claimants. ClaimantInv'
  BY <1>2 DEF ClaimsInv, ClaimantInv
<1>others. \A q \in Procs : q # p => ProcInv(q)'
  BY <1>o, <1>2, OthersKeep DEF Alone
<1>own. ProcInv(p)'
  BY <1>1, <1>2, LockGone DEF Holding
<1> QED BY <1>claimants, <1>others, <1>own DEF ClaimsInv

(* A lock is published where there is none.                                *)
LEMMA LinkLockStep ==
    ASSUME BaseInv, BaseInv', ClaimsInv, NEW p \in Procs, LinkLock(p)
    PROVE  ClaimsInv'
<1>o. Alone(p)
  BY DEF LinkLock, BaseInv, TypedInv, TypeInvariant, Alone, Unaffected,
         callVars, claimVars, history, Goto, Forget, Refuse, NoClaim
<1>m. Me(p).proc = p /\ p \in alive
  BY DEF LinkLock, BaseInv, AliveInv, Me
<1>1. /\ claims' = claims /\ alive' = alive
      /\ lock' = lock \/ (lock = NoFile /\ lock' = Me(p) /\ tick' = tick /\ pc'[p] = "linked")
  BY DEF LinkLock, BaseInv, TypedInv, TypeInvariant, Goto
<1>claimants. ClaimantInv'
  BY <1>1 DEF ClaimsInv, ClaimantInv
<1>2. ASSUME NEW q \in Procs, lock = NoFile
      PROVE  pc[q] # "unlink" /\ pc[q] \notin Holding
  <2>1. Me(q) # NoFile
    BY CommandLockAssumption DEF Me, NoFile
  <2>2. pc[q] = "unlink" => seen[q] # NoFile
    BY CommandLockAssumption
       DEF BaseInv, TypedInv, SeenInv, Claiming, Records, NoFile
  <2> QED BY <1>2, <2>1, <2>2 DEF ClaimsInv, ProcInv, UnlinkAt, HolderAt
<1>others. \A q \in Procs : q # p => ProcInv(q)'
  BY <1>m, <1>o, <1>1, <1>2, OthersKeep DEF Alone
<1>own. ProcInv(p)'
  <2>1. CASE pc'[p] = "linked"
    <3>1. lock' = Me(p) /\ tick' = tick
      BY <2>1 DEF LinkLock, BaseInv, TypedInv, TypeInvariant, Goto, Refuse
    <3> QED BY <2>1, <3>1
            DEF ProcInv, JudgeAt, GroupAt, FirstAt, OwnClaimAt, UnlinkAt,
                CleanupAt, HolderAt, Me, Claiming, Grouping
  <2>2. CASE pc'[p] \in {"stat", "done"}
    BY <2>2, Elsewhere DEF Claiming, Grouping, Holding
  <2> QED BY <2>1, <2>2
             DEF LinkLock, BaseInv, TypedInv, TypeInvariant, Goto, Refuse
<1> QED BY <1>claimants, <1>others, <1>own DEF ClaimsInv

(* A release removes the lock of its own lease.                            *)
LEMMA ReleaseUnlinkStep ==
    ASSUME BaseInv, BaseInv', ClaimsInv, NEW p \in Procs, ReleaseUnlink(p)
    PROVE  ClaimsInv'
<1>o. Alone(p)
  BY DEF ReleaseUnlink, BaseInv, TypedInv, TypeInvariant, Alone, Unaffected,
         callVars, claimVars, history, Goto, Forget, Refuse, NoClaim
<1>1. lock = Me(p) /\ lock.proc = p /\ p \in alive
  BY DEF ReleaseUnlink, BaseInv, AliveInv, ClaimsInv, ProcInv, HolderAt, Me,
         Holding
<1>2. lock' = NoFile /\ claims' = claims /\ alive' = alive /\ pc'[p] = "done"
  BY DEF ReleaseUnlink, BaseInv, TypedInv, TypeInvariant, Goto
<1>claimants. ClaimantInv'
  BY <1>2 DEF ClaimsInv, ClaimantInv
<1>3. ASSUME NEW q \in Procs, q # p
      PROVE  pc[q] # "unlink" /\ pc[q] \notin Holding
  <2>1. pc[q] = "unlink" => lock = seen[q] /\ seen[q].proc \notin alive
    BY DEF BaseInv, TargetInv, ClaimsInv, ProcInv, UnlinkAt, Claiming
  <2>2. pc[q] \in Holding => lock = Me(q)
    BY DEF ClaimsInv, ProcInv, HolderAt
  <2> QED BY <1>1, <1>3, <2>1, <2>2 DEF Me
<1>others. \A q \in Procs : q # p => ProcInv(q)'
  BY <1>o, <1>2, <1>3, OthersKeep DEF Alone
<1>own. ProcInv(p)'
  BY <1>2, Elsewhere DEF Claiming, Grouping, Holding
<1> QED BY <1>claimants, <1>others, <1>own DEF ClaimsInv

(* A process that ends leaves no claim, unless it is noted.                *)
LEMMA CrashStep ==
    ASSUME BaseInv, BaseInv', ClaimsInv, NEW p \in Procs, Crash(p), ~orphaned'
    PROVE  ClaimsInv'
<1>o. Alone(p)
  BY DEF Crash, BaseInv, TypedInv, TypeInvariant, Alone, Unaffected, callVars,
         claimVars, history, Goto, Forget, Refuse, NoClaim
<1>1. /\ lock' = lock /\ claims' = claims /\ alive' = alive \ {p}
      /\ pc'[p] = "dead" /\ ClaimsOf(p) = {}
  BY DEF Crash, BaseInv, TypedInv, TypeInvariant, Goto
<1>claimants. ClaimantInv'
  BY <1>1 DEF ClaimsInv, ClaimantInv, ClaimsOf
<1>others. \A q \in Procs : q # p => ProcInv(q)'
  BY <1>o, <1>1, OthersKeep DEF Alone
<1>own. ProcInv(p)'
  BY <1>1, Elsewhere DEF Claiming, Grouping, Holding
<1> QED BY <1>claimants, <1>others, <1>own DEF ClaimsInv

-----------------------------------------------------------------------------
(* Every step preserves the invariant.                                     *)
LEMMA CommandStep ==
    ASSUME CommandInv, [Next]_vars
    PROVE  CommandInv'
<1>1. BaseInv
  BY DEF CommandInv
<1>2. BaseInv'
  BY <1>1, BaseStep
<1> SUFFICES ASSUME ~orphaned' PROVE ClaimsInv'
  BY <1>2 DEF CommandInv
<1>4. ~orphaned
  BY DEF Next, Clean, Claim, Take, vars, history, Acquire, CleanCandidates,
         ListClaims, NextGroup, ReadGroup, JudgeGroup, StatLock, ReadLock,
         ProbeOwner, LinkClaim, ReadClaim, JudgeClaimant, Claimed, Recheck,
         UnlinkStale, UnlinkClaim, CleanedUp, WriteLock, LinkLock, Granted,
         Release, ReleaseRead, ReleaseUnlink, Crash
<1>3. ClaimsInv
  BY <1>4 DEF CommandInv
<1>5. ASSUME NEW p \in Procs, Acquire(p) PROVE ClaimsInv'
  BY <1>5, <1>1, <1>2, <1>3, AcquireStep
<1>6. ASSUME NEW p \in Procs, CleanCandidates(p) PROVE ClaimsInv'
  BY <1>6, <1>1, <1>2, <1>3, CleanCandidatesStep
<1>7. ASSUME NEW p \in Procs, ListClaims(p) PROVE ClaimsInv'
  BY <1>7, <1>1, <1>2, <1>3, ListClaimsStep
<1>8. ASSUME NEW p \in Procs, NextGroup(p) PROVE ClaimsInv'
  BY <1>8, <1>1, <1>2, <1>3, NextGroupStep
<1>9. ASSUME NEW p \in Procs, ReadGroup(p) PROVE ClaimsInv'
  BY <1>9, <1>1, <1>2, <1>3, ReadGroupStep
<1>10. ASSUME NEW p \in Procs, JudgeGroup(p) PROVE ClaimsInv'
  BY <1>10, <1>1, <1>2, <1>3, JudgeGroupStep
<1>11. ASSUME NEW p \in Procs, StatLock(p) PROVE ClaimsInv'
  BY <1>11, <1>1, <1>2, <1>3, StatLockStep
<1>12. ASSUME NEW p \in Procs, ReadLock(p) PROVE ClaimsInv'
  BY <1>12, <1>1, <1>2, <1>3, ReadLockStep
<1>13. ASSUME NEW p \in Procs, ProbeOwner(p) PROVE ClaimsInv'
  BY <1>13, <1>1, <1>2, <1>3, ProbeOwnerStep
<1>14. ASSUME NEW p \in Procs, LinkClaim(p) PROVE ClaimsInv'
  BY <1>14, <1>1, <1>2, <1>3, LinkClaimStep
<1>15. ASSUME NEW p \in Procs, ReadClaim(p) PROVE ClaimsInv'
  BY <1>15, <1>1, <1>2, <1>3, ReadClaimStep
<1>16. ASSUME NEW p \in Procs, JudgeClaimant(p) PROVE ClaimsInv'
  BY <1>16, <1>1, <1>2, <1>3, JudgeClaimantStep
<1>17. ASSUME NEW p \in Procs, Claimed(p) PROVE ClaimsInv'
  BY <1>17, <1>1, <1>2, <1>3, ClaimedStep
<1>18. ASSUME NEW p \in Procs, Recheck(p) PROVE ClaimsInv'
  BY <1>18, <1>1, <1>2, <1>3, RecheckStep
<1>19. ASSUME NEW p \in Procs, UnlinkStale(p) PROVE ClaimsInv'
  BY <1>19, <1>1, <1>2, <1>3, UnlinkStaleStep
<1>20. ASSUME NEW p \in Procs, UnlinkClaim(p) PROVE ClaimsInv'
  BY <1>20, <1>1, <1>2, <1>3, UnlinkClaimStep
<1>21. ASSUME NEW p \in Procs, CleanedUp(p) PROVE ClaimsInv'
  BY <1>21, <1>1, <1>2, <1>3, CleanedUpStep
<1>22. ASSUME NEW p \in Procs, WriteLock(p) PROVE ClaimsInv'
  BY <1>22, <1>1, <1>2, <1>3, WriteLockStep
<1>23. ASSUME NEW p \in Procs, LinkLock(p) PROVE ClaimsInv'
  BY <1>23, <1>1, <1>2, <1>3, LinkLockStep
<1>24. ASSUME NEW p \in Procs, Granted(p) PROVE ClaimsInv'
  BY <1>24, <1>1, <1>2, <1>3, GrantedStep
<1>25. ASSUME NEW p \in Procs, Release(p) PROVE ClaimsInv'
  BY <1>25, <1>1, <1>2, <1>3, ReleaseStep
<1>26. ASSUME NEW p \in Procs, ReleaseRead(p) PROVE ClaimsInv'
  BY <1>26, <1>1, <1>2, <1>3, ReleaseReadStep
<1>27. ASSUME NEW p \in Procs, ReleaseUnlink(p) PROVE ClaimsInv'
  BY <1>27, <1>1, <1>2, <1>3, ReleaseUnlinkStep
<1>28. ASSUME NEW p \in Procs, Crash(p), ~orphaned' PROVE ClaimsInv'
  BY <1>28, <1>1, <1>2, <1>3, CrashStep
<1>29. CASE UNCHANGED vars
  BY <1>3, <1>29
     DEF vars, callVars, claimVars, ClaimsInv, ClaimantInv, ProcInv, JudgeAt, GroupAt,
         FirstAt, OwnClaimAt, UnlinkAt, CleanupAt, HolderAt, Me
<1> QED
  BY <1>5, <1>6, <1>7, <1>8, <1>9, <1>10, <1>11, <1>12, <1>13, <1>14, <1>15,
     <1>16, <1>17, <1>18, <1>19, <1>20, <1>21, <1>22, <1>23, <1>24, <1>25,
     <1>26, <1>27, <1>28, <1>29
     DEF Next, Clean, Claim, Take

(* The invariant holds of what processes that ended have left.            *)
LEMMA CommandInit == Init => CommandInv
<1> SUFFICES ASSUME Init PROVE CommandInv
  OBVIOUS
<1>1. TypedInv
  BY CommandLockAssumption
     DEF Init, TypedInv, TypeInvariant, SeenInv, Claiming, Grouping, Records, Claims, PCs, Attempts
<1>2. TargetInv /\ AliveInv /\ UniqueInv /\ FreshInv
  BY CommandLockAssumption
     DEF Init, TargetInv, AliveInv, UniqueInv, FreshInv, Claiming, Grouping
<1>3. ASSUME ~orphaned PROVE ClaimsInv
  BY <1>3
     DEF Init, ClaimsInv, ClaimantInv, ProcInv, JudgeAt, GroupAt, FirstAt, OwnClaimAt,
         UnlinkAt, CleanupAt, HolderAt, Claiming, Grouping, Holding
<1> QED BY <1>1, <1>2, <1>3 DEF CommandInv, BaseInv

(* The invariant of every behaviour.                                       *)
LEMMA CommandInvariance == Spec => []CommandInv
BY CommandInit, CommandStep, PTL DEF Spec

(* While nobody ended with a published claim, the lock file of a command   *)
(* that holds the lease is its own.                                        *)
THEOREM LeaseIsKept == Spec => []LeaseKept
<1>1. CommandInv => LeaseKept
  BY DEF CommandInv, ClaimsInv, ProcInv, HolderAt, LeaseKept
<1> QED BY <1>1, CommandInvariance, PTL

(* Nor do two commands hold the lease then.                                *)
THEOREM Exclusion == Spec => [](~orphaned => MutualExclusion)
<1>1. CommandInv => (~orphaned => MutualExclusion)
  <2> SUFFICES ASSUME LeaseKept, ~orphaned, NEW p \in Procs, NEW q \in Procs,
                      pc[p] = "held", pc[q] = "held"
               PROVE  p = q
    BY DEF CommandInv, ClaimsInv, ProcInv, HolderAt, LeaseKept, MutualExclusion
  <2>1. lock = Me(p) /\ lock = Me(q)
    BY DEF LeaseKept, Holding
  <2> QED BY <2>1 DEF Me
<1> QED BY <1>1, CommandInvariance, PTL

-----------------------------------------------------------------------------
(* The lone caller, whatever processes that ended have left and wherever   *)
(* they ended.                                                             *)

(* The history variable names every process that is active along with p.   *)
OverlapInv ==
    \A p, q \in Procs : p # q /\ Active(p) /\ Active(q) => q \in overlap[p]

DeadInv == \A p \in Procs : pc[p] = "dead" => p \notin alive

(* Nobody leaves a file behind but by ending: the lock of a process that   *)
(* lives is that of its lease, a claim of it one that it is about to use   *)
(* or to remove, its candidate one that it still needs.                    *)
OwnerAt(p) == lock.proc = p /\ pc[p] # "dead" => lock = Me(p) /\ pc[p] \in Holding

LivingClaimAt(p) ==
    \A c \in claims : c.claimant.proc = p /\ pc[p] # "dead" =>
        /\ pc[p] \in {"claimed", "recheck", "unlink", "cleanup"}
        /\ c.target = seen[p] /\ c.gen \in paths[p]

DraftAt(p) ==
    p \in drafts =>
        pc[p] \in {"claim", "readClaim", "judge", "claimed", "link", "linked", "dead"}

FilesInv == \A p \in Procs : OwnerAt(p) /\ LivingClaimAt(p) /\ DraftAt(p)

(* What a lone caller finds.  The candidates of others are gone; the claim *)
(* files there are are those it has listed and not yet dealt with and,     *)
(* while it deals with the claims on one lock, the files it will remove.   *)
Names == {<<c.target, c.gen>> : c \in claims}
InHand(p) == {<<seen[p], g>> : g \in paths[p]}

GroupsAt(p) ==
    /\ pc[p] = "group" => Names = listing[p]
    /\ pc[p] \in Grouping \cup Claiming \cup {"cleanup"} =>
          /\ Names = listing[p] \cup InHand(p)
          /\ \A f \in listing[p] : f[1] # seen[p]
    /\ pc[p] \in Grouping => unread[p] \subseteq paths[p]
    /\ pc[p] \in {"judge", "judgeGroup"} => rival[p].proc \notin alive
    /\ pc[p] \in {"readClaim", "judge"} => cleaning[p] /\ gen[p] \in paths[p]
    /\ pc[p] \in {"recheck", "unlink"} => ~cleaning[p]

(* Then no claim is left, and the lock it looks at stays as it is until it *)
(* removes it.                                                             *)
Trying == {"stat", "read", "probe", "write", "link"}
AttemptAt(p) ==
    /\ pc[p] \notin {"idle", "candidates"} => drafts \subseteq {p}
    /\ pc[p] \in Trying \cup {"linked"} => claims = {}
    /\ pc[p] \in Trying => listing[p] = {} /\ paths[p] = {}
    /\ pc[p] = "claim" /\ ~cleaning[p] => paths[p] = {}
    /\ pc[p] \in Claiming \cup {"cleanup"} /\ ~cleaning[p] => listing[p] = {}
    /\ pc[p] \in {"read", "probe"} => lock = seen[p]
    /\ pc[p] \in Claiming /\ ~cleaning[p] => lock = seen[p]
    /\ pc[p] = "cleanup" /\ ~cleaning[p] => removed[p] /\ lock = NoFile
    /\ pc[p] \in {"write", "link"} => lock = NoFile
    /\ pc[p] = "linked" => lock # NoFile

LoneAt(p) == GroupsAt(p) /\ AttemptAt(p)
Lone(p) == Active(p) /\ overlap[p] = {}
LoneInv == \A p \in Procs : Lone(p) => LoneAt(p)

LeftInv == BaseInv /\ OverlapInv /\ DeadInv /\ FilesInv /\ LoneInv

(* What a process does between its call and the end of its lease: it is    *)
(* active before each of these steps, nobody becomes active by one, and    *)
(* the history of who met whom is what it was.                             *)
Work(p) == Clean(p) \/ Claim(p) \/ Take(p) \/ Release(p) \/ ReleaseRead(p) \/ ReleaseUnlink(p)

LEMMA Steady ==
    ASSUME LeftInv, NEW p \in Procs, Work(p)
    PROVE  /\ Active(p)
           /\ \A q \in Procs \ {p} : pc'[q] = pc[q]
           /\ pc'[p] # "dead"
           /\ overlap' = overlap /\ alive' = alive /\ BaseInv'
<1>1. BaseInv'
  BY BaseStep DEF LeftInv, Next, Work
<1> USE DEF LeftInv, BaseInv, TypedInv, TypeInvariant, Goto, Active, PCs, Refuse, history
<1>2. ASSUME Clean(p)
      PROVE  /\ Active(p)
             /\ \A q \in Procs \ {p} : pc'[q] = pc[q]
             /\ pc'[p] # "dead"
             /\ overlap' = overlap /\ alive' = alive
  BY <1>2 DEF Clean, CleanCandidates, ListClaims, NextGroup, ReadGroup, JudgeGroup
<1>3. ASSUME Claim(p)
      PROVE  /\ Active(p)
             /\ \A q \in Procs \ {p} : pc'[q] = pc[q]
             /\ pc'[p] # "dead"
             /\ overlap' = overlap /\ alive' = alive
  BY <1>3 DEF Claim, LinkClaim, ReadClaim, JudgeClaimant, NoClaim, Claimed, Recheck,
              UnlinkStale, UnlinkClaim, CleanedUp
<1>4. ASSUME Take(p) \/ Release(p) \/ ReleaseRead(p) \/ ReleaseUnlink(p)
      PROVE  /\ Active(p)
             /\ \A q \in Procs \ {p} : pc'[q] = pc[q]
             /\ pc'[p] # "dead"
             /\ overlap' = overlap /\ alive' = alive
  BY <1>4 DEF Take, StatLock, ReadLock, ProbeOwner, WriteLock, LinkLock, Granted,
              Release, ReleaseRead, ReleaseUnlink
<1> QED BY <1>1, <1>2, <1>3, <1>4 DEF Work

(* What such a step has to show, since everybody else is either not active *)
(* or not alone.                                                           *)
LEMMA SteadyStep ==
    ASSUME LeftInv, NEW p \in Procs, Work(p), Alone(p),
           lock' = lock \/ lock' = NoFile \/ lock' = Me(p),
           \A c \in claims' : c \in claims \/ c.claimant.proc = p,
           drafts' \subseteq drafts \cup {p},
           OwnerAt(p)', LivingClaimAt(p)', DraftAt(p)', Lone(p) => LoneAt(p)'
    PROVE  LeftInv'
<1> USE Steady
<1>1. OverlapInv' /\ DeadInv'
  BY DEF LeftInv, OverlapInv, DeadInv, Active
<1>2. ASSUME NEW q \in Procs, Lone(q)' PROVE LoneAt(q)'
  <2>1. q = p
    BY <1>2 DEF LeftInv, OverlapInv, Active, Lone
  <2> QED BY <1>2, <2>1 DEF Lone
<1>3. ASSUME NEW q \in Procs, q # p
      PROVE  OwnerAt(q)' /\ LivingClaimAt(q)' /\ DraftAt(q)'
  <2>1. OwnerAt(q) /\ LivingClaimAt(q) /\ DraftAt(q) /\ Unaffected(q)
    BY <1>3 DEF LeftInv, FilesInv, Alone
  <2>2. NoFile.proc # q /\ Me(p).proc # q
    BY <1>3, CommandLockAssumption DEF NoFile, Me
  <2>3. OwnerAt(q)'
    BY <2>1, <2>2 DEF OwnerAt, Unaffected, Me
  <2> QED BY <1>3, <2>1, <2>3 DEF LivingClaimAt, DraftAt, Unaffected
<1> QED BY <1>1, <1>2, <1>3 DEF LeftInv, LoneInv, FilesInv

(* A lone caller finds no claim of a process that lives in its way.        *)
LEMMA RivalsEnded ==
    ASSUME LeftInv, NEW p \in Procs, Lone(p), pc[p] \in {"readGroup", "readClaim"},
           NEW c \in claims
    PROVE  c.claimant.proc \notin alive
<1> SUFFICES ASSUME NEW q \in Procs, q = c.claimant.proc, q \in alive PROVE FALSE
  BY DEF LeftInv, BaseInv, TypedInv, TypeInvariant
<1>1. pc[q] \in {"claimed", "recheck", "unlink", "cleanup"}
  BY DEF LeftInv, FilesInv, LivingClaimAt, DeadInv
<1>2. q # p
  BY <1>1
<1> QED BY <1>1, <1>2 DEF LeftInv, OverlapInv, Active, Lone

(* A name for every claim.                                                 *)
LEMMA Named == Names = {} <=> claims = {}
<1>1. \A c \in claims : <<c.target, c.gen>> \in Names
  BY DEF Names
<1>2. claims = {} => Names = {}
  BY DEF Names
<1> QED BY <1>1, <1>2

(* The steps of one process: cleaning, the lock, the claim, the lease.     *)
LEMMA LoneCleanCandidates ==
    ASSUME LeftInv, NEW p \in Procs, CleanCandidates(p)
    PROVE  LeftInv'
<1>0. Work(p)
  BY DEF Work, Clean
<1>1. BaseInv' /\ Active(p)
  BY <1>0, Steady
<1>f. Alone(p)
  BY DEF CleanCandidates, LeftInv, BaseInv, TypedInv, TypeInvariant, Alone, Unaffected, callVars,
         claimVars, history, Goto, Forget, Refuse, NoClaim
<1>g. /\ lock' = lock \/ lock' = NoFile \/ lock' = Me(p)
      /\ \A c \in claims' : c \in claims \/ c.claimant.proc = p
      /\ drafts' \subseteq drafts \cup {p}
  BY DEF CleanCandidates, NoClaim, Me
<1>h. OwnerAt(p) /\ LivingClaimAt(p) /\ DraftAt(p)
  BY DEF LeftInv, FilesInv
<1> USE CommandLockAssumption
    DEF LeftInv, BaseInv, TypedInv, TypeInvariant, SeenInv, Claiming, Grouping,
        Holding, Me, Records, NoFile, Goto, Forget, Refuse, callVars, claimVars, history
<1>2. OwnerAt(p)'
  BY <1>1, <1>h DEF CleanCandidates, OwnerAt
<1>3. LivingClaimAt(p)'
  <2>1. \A c \in claims : c.claimant.proc # p
    BY <1>h DEF CleanCandidates, LivingClaimAt
  <2>2. claims' = claims
    BY DEF CleanCandidates
  <2> QED BY <2>1, <2>2 DEF LivingClaimAt
<1>4. DraftAt(p)'
  BY <1>1, <1>h DEF CleanCandidates, DraftAt
<1>5. ASSUME Lone(p) PROVE GroupsAt(p)'
  BY <1>1, <1>5 DEF CleanCandidates, LoneInv, LoneAt, GroupsAt, AttemptAt, Names, InHand, Trying
<1>6. ASSUME Lone(p) PROVE AttemptAt(p)'
  <2>1. \A q \in Procs \ {p} : ~Active(q)
    BY <1>1, <1>6 DEF OverlapInv, Lone
  <2>2. drafts \cap alive \subseteq {p}
    BY <2>1 DEF FilesInv, DraftAt, DeadInv, Active
  <2> QED BY <1>1, <1>6, <2>2 DEF CleanCandidates, AttemptAt, Trying
<1> QED BY <1>0, <1>f, <1>g, <1>2, <1>3, <1>4, <1>5, <1>6, SteadyStep DEF LoneAt

LEMMA LoneListClaims ==
    ASSUME LeftInv, NEW p \in Procs, ListClaims(p)
    PROVE  LeftInv'
<1>0. Work(p)
  BY DEF Work, Clean
<1>1. BaseInv' /\ Active(p)
  BY <1>0, Steady
<1>f. Alone(p)
  BY DEF ListClaims, LeftInv, BaseInv, TypedInv, TypeInvariant, Alone, Unaffected, callVars,
         claimVars, history, Goto, Forget, Refuse, NoClaim
<1>g. /\ lock' = lock \/ lock' = NoFile \/ lock' = Me(p)
      /\ \A c \in claims' : c \in claims \/ c.claimant.proc = p
      /\ drafts' \subseteq drafts \cup {p}
  BY DEF ListClaims, NoClaim, Me
<1>h. OwnerAt(p) /\ LivingClaimAt(p) /\ DraftAt(p)
  BY DEF LeftInv, FilesInv
<1> USE CommandLockAssumption
    DEF LeftInv, BaseInv, TypedInv, TypeInvariant, SeenInv, Claiming, Grouping,
        Holding, Me, Records, NoFile, Goto, Forget, Refuse, callVars, claimVars, history
<1>2. OwnerAt(p)'
  BY <1>1, <1>h DEF ListClaims, OwnerAt
<1>3. LivingClaimAt(p)'
  <2>1. \A c \in claims : c.claimant.proc # p
    BY <1>h DEF ListClaims, LivingClaimAt
  <2>2. claims' = claims
    BY DEF ListClaims
  <2> QED BY <2>1, <2>2 DEF LivingClaimAt
<1>4. DraftAt(p)'
  BY <1>1, <1>h DEF ListClaims, DraftAt
<1>5. ASSUME Lone(p) PROVE GroupsAt(p)'
  BY <1>1, <1>5 DEF ListClaims, LoneInv, LoneAt, GroupsAt, AttemptAt, Names, InHand, Trying
<1>6. ASSUME Lone(p) PROVE AttemptAt(p)'
  BY <1>1, <1>6 DEF ListClaims, LoneInv, LoneAt, GroupsAt, AttemptAt, Trying
<1> QED BY <1>0, <1>f, <1>g, <1>2, <1>3, <1>4, <1>5, <1>6, SteadyStep DEF LoneAt

LEMMA LoneNextGroup ==
    ASSUME LeftInv, NEW p \in Procs, NextGroup(p)
    PROVE  LeftInv'
<1>0. Work(p)
  BY DEF Work, Clean
<1>1. BaseInv' /\ Active(p)
  BY <1>0, Steady
<1>f. Alone(p)
  BY DEF NextGroup, LeftInv, BaseInv, TypedInv, TypeInvariant, Alone, Unaffected, callVars,
         claimVars, history, Goto, Forget, Refuse, NoClaim
<1>g. /\ lock' = lock \/ lock' = NoFile \/ lock' = Me(p)
      /\ \A c \in claims' : c \in claims \/ c.claimant.proc = p
      /\ drafts' \subseteq drafts \cup {p}
  BY DEF NextGroup, NoClaim, Me
<1>h. OwnerAt(p) /\ LivingClaimAt(p) /\ DraftAt(p)
  BY DEF LeftInv, FilesInv
<1> USE CommandLockAssumption
    DEF LeftInv, BaseInv, TypedInv, TypeInvariant, SeenInv, Claiming, Grouping,
        Holding, Me, Records, NoFile, Goto, Forget, Refuse, callVars, claimVars, history
<1>0a. \/ listing[p] = {} /\ Forget(p) /\ Goto(p, "stat")
      \/ \E t \in {f[1] : f \in listing[p]} :
            \E gens : /\ gens = {f[2] : f \in {f \in listing[p] : f[1] = t}}
                      /\ seen' = [seen EXCEPT ![p] = t]
                      /\ unread' = [unread EXCEPT ![p] = gens]
                      /\ paths' = [paths EXCEPT ![p] = gens]
                      /\ listing' = [listing EXCEPT ![p] = {f \in @ : f[1] # t}]
                      /\ Goto(p, "readGroup")
                      /\ UNCHANGED <<tick, cleaning, gen, rival, removed>>
  BY DEF NextGroup
<1>0b. pc[p] = "group" /\ UNCHANGED <<lock, claims, drafts, alive, left, history>>
  BY DEF NextGroup
<1>2. OwnerAt(p)'
  BY <1>1, <1>h DEF NextGroup, OwnerAt
<1>3. LivingClaimAt(p)'
  <2>1. CASE listing[p] = {} /\ Forget(p) /\ Goto(p, "stat")
    BY <1>1, <2>1, <1>h DEF NextGroup, LivingClaimAt
  <2>2. ASSUME NEW t \in {f[1] : f \in listing[p]}, NEW gens,
               gens = {f[2] : f \in {f \in listing[p] : f[1] = t}},
               seen' = [seen EXCEPT ![p] = t],
               unread' = [unread EXCEPT ![p] = gens],
               paths' = [paths EXCEPT ![p] = gens],
               listing' = [listing EXCEPT ![p] = {f \in @ : f[1] # t}],
               Goto(p, "readGroup"),
               UNCHANGED <<tick, cleaning, gen, rival, removed>>
        PROVE  LivingClaimAt(p)'
    <3>1. \A c \in claims : c.claimant.proc # p
      BY <1>0b, <1>h DEF LivingClaimAt
    <3> HIDE DEF Records
    <3> QED BY <1>0b, <2>2, <3>1 DEF LivingClaimAt
  <2> QED BY <1>0a, <2>1, <2>2
<1>4. DraftAt(p)'
  <2>1. p \notin drafts /\ drafts' = drafts
    BY <1>0b, <1>h DEF DraftAt
  <2> QED BY <2>1 DEF DraftAt
<1>5. ASSUME Lone(p) PROVE GroupsAt(p)'
  <2>1. CASE listing[p] = {} /\ Forget(p) /\ Goto(p, "stat")
    BY <1>1, <2>1, <1>5 DEF NextGroup, GroupsAt, LoneInv, LoneAt, Names, InHand, Trying
  <2>2. ASSUME NEW t \in {f[1] : f \in listing[p]}, NEW gens,
               gens = {f[2] : f \in {f \in listing[p] : f[1] = t}},
               seen' = [seen EXCEPT ![p] = t],
               unread' = [unread EXCEPT ![p] = gens],
               paths' = [paths EXCEPT ![p] = gens],
               listing' = [listing EXCEPT ![p] = {f \in @ : f[1] # t}],
               Goto(p, "readGroup"),
               UNCHANGED <<tick, cleaning, gen, rival, removed>>
        PROVE  GroupsAt(p)'
    <3>1. Names = listing[p]
      BY <1>0b, <1>5 DEF LoneInv, LoneAt, GroupsAt
    <3>2. /\ pc'[p] = "readGroup" /\ seen'[p] = t /\ unread'[p] = gens /\ paths'[p] = gens
          /\ listing'[p] = {f \in listing[p] : f[1] # t} /\ Names' = Names
      BY <1>0b, <2>2 DEF Names
    <3>3. Names = listing'[p] \cup InHand(p)'
      <4>1. ASSUME NEW f \in Names, f[1] = t PROVE f \in InHand(p)'
        <5>1. f[2] \in gens /\ f = <<f[1], f[2]>>
          BY <2>2, <3>1, <4>1 DEF Names
        <5> QED BY <3>2, <4>1, <5>1 DEF InHand
      <4>2. ASSUME NEW f \in InHand(p)' PROVE f \in Names
        <5>1. PICK g \in gens : f = <<t, g>>
          BY <3>2 DEF InHand
        <5>2. PICK e \in listing[p] : e[1] = t /\ e[2] = g
          BY <2>2, <5>1
        <5>3. e = <<e[1], e[2]>>
          BY <3>1, <5>2 DEF Names
        <5> QED BY <3>1, <5>1, <5>2, <5>3
      <4> QED BY <3>1, <3>2, <4>1, <4>2
    <3> QED BY <3>2, <3>3 DEF GroupsAt
  <2> QED BY <1>0a, <2>1, <2>2
<1>6. ASSUME Lone(p) PROVE AttemptAt(p)'
  <2>1. CASE listing[p] = {} /\ Forget(p) /\ Goto(p, "stat")
    <3>1. drafts \subseteq {p} /\ claims = {}
      BY <1>0b, <1>6, <2>1, Named DEF LoneInv, LoneAt, GroupsAt, AttemptAt
    <3>2. pc'[p] = "stat" /\ listing'[p] = {} /\ paths'[p] = {}
      BY <2>1
    <3>3. drafts' = drafts /\ claims' = claims
      BY <1>0b
    <3> QED BY <3>1, <3>2, <3>3 DEF AttemptAt, Trying
  <2>2. ASSUME NEW t \in {f[1] : f \in listing[p]}, NEW gens,
               gens = {f[2] : f \in {f \in listing[p] : f[1] = t}},
               seen' = [seen EXCEPT ![p] = t],
               unread' = [unread EXCEPT ![p] = gens],
               paths' = [paths EXCEPT ![p] = gens],
               listing' = [listing EXCEPT ![p] = {f \in @ : f[1] # t}],
               Goto(p, "readGroup"),
               UNCHANGED <<tick, cleaning, gen, rival, removed>>
        PROVE  AttemptAt(p)'
    <3>1. drafts \subseteq {p}
      BY <1>0b, <1>6 DEF LoneInv, LoneAt, AttemptAt
    <3>2. pc'[p] = "readGroup" /\ drafts' = drafts
      BY <1>0b, <2>2
    <3> QED BY <3>1, <3>2 DEF AttemptAt, Trying
  <2> QED BY <1>0a, <2>1, <2>2
<1> QED BY <1>0, <1>f, <1>g, <1>2, <1>3, <1>4, <1>5, <1>6, SteadyStep DEF LoneAt

LEMMA LoneReadGroup ==
    ASSUME LeftInv, NEW p \in Procs, ReadGroup(p)
    PROVE  LeftInv'
<1>0. Work(p)
  BY DEF Work, Clean
<1>1. BaseInv' /\ Active(p)
  BY <1>0, Steady
<1>f. Alone(p)
  BY DEF ReadGroup, LeftInv, BaseInv, TypedInv, TypeInvariant, Alone, Unaffected, callVars,
         claimVars, history, Goto, Forget, Refuse, NoClaim
<1>g. /\ lock' = lock \/ lock' = NoFile \/ lock' = Me(p)
      /\ \A c \in claims' : c \in claims \/ c.claimant.proc = p
      /\ drafts' \subseteq drafts \cup {p}
  BY DEF ReadGroup, NoClaim, Me
<1>h. OwnerAt(p) /\ LivingClaimAt(p) /\ DraftAt(p)
  BY DEF LeftInv, FilesInv
<1> USE CommandLockAssumption
    DEF LeftInv, BaseInv, TypedInv, TypeInvariant, SeenInv, Claiming, Grouping,
        Holding, Me, Records, NoFile, Goto, Forget, Refuse, callVars, claimVars, history
<1>2. OwnerAt(p)'
  BY <1>1, <1>h DEF ReadGroup, OwnerAt
<1>3. LivingClaimAt(p)'
  <2>1. \A c \in claims : c.claimant.proc # p
    BY <1>h DEF ReadGroup, LivingClaimAt
  <2>2. claims' = claims
    BY DEF ReadGroup
  <2> QED BY <2>1, <2>2 DEF LivingClaimAt
<1>4. DraftAt(p)'
  BY <1>1, <1>h DEF ReadGroup, DraftAt
<1>5. ASSUME Lone(p) PROVE GroupsAt(p)'
  <2>1. /\ Names = listing[p] \cup InHand(p) /\ (\A f \in listing[p] : f[1] # seen[p])
        /\ unread[p] \subseteq paths[p]
    BY <1>5 DEF ReadGroup, LoneInv, LoneAt, GroupsAt
  <2>2. Names' = Names /\ InHand(p)' = InHand(p) /\ listing' = listing /\ seen' = seen /\ unread' = unread
        /\ paths' = paths
    BY DEF ReadGroup, Names, InHand
  <2>3. ASSUME NEW g \in unread[p] PROVE ClaimFile(seen[p], g) # {}
    <3>1. <<seen[p], g>> \in Names
      BY <2>1 DEF InHand
    <3> QED BY <3>1 DEF Names, ClaimFile
  <2>4. ASSUME pc'[p] = "judgeGroup" PROVE rival'[p].proc \notin alive
    <3>1. PICK c \in claims : rival' = [rival EXCEPT ![p] = c.claimant]
      BY <2>4 DEF ReadGroup, ClaimFile
    <3> QED BY <1>5, <3>1, RivalsEnded DEF ReadGroup
  <2>5. pc'[p] \in {"judgeGroup", "claim"} /\ alive' = alive
    BY <2>3 DEF ReadGroup
  <2> QED BY <2>1, <2>2, <2>4, <2>5 DEF GroupsAt
<1>6. ASSUME Lone(p) PROVE AttemptAt(p)'
  <2>1. drafts \subseteq {p}
    BY <1>6 DEF ReadGroup, LoneInv, LoneAt, AttemptAt
  <2>2. pc'[p] \in {"group", "judgeGroup"} \/ (pc'[p] = "claim" /\ cleaning'[p])
    BY DEF ReadGroup
  <2>3. drafts' \subseteq {p}
    BY <2>1 DEF ReadGroup
  <2> QED BY <2>2, <2>3 DEF AttemptAt, Trying
<1> QED BY <1>0, <1>f, <1>g, <1>2, <1>3, <1>4, <1>5, <1>6, SteadyStep DEF LoneAt

LEMMA LoneJudgeGroup ==
    ASSUME LeftInv, NEW p \in Procs, JudgeGroup(p)
    PROVE  LeftInv'
<1>0. Work(p)
  BY DEF Work, Clean
<1>1. BaseInv' /\ Active(p)
  BY <1>0, Steady
<1>f. Alone(p)
  BY DEF JudgeGroup, LeftInv, BaseInv, TypedInv, TypeInvariant, Alone, Unaffected, callVars,
         claimVars, history, Goto, Forget, Refuse, NoClaim
<1>g. /\ lock' = lock \/ lock' = NoFile \/ lock' = Me(p)
      /\ \A c \in claims' : c \in claims \/ c.claimant.proc = p
      /\ drafts' \subseteq drafts \cup {p}
  BY DEF JudgeGroup, NoClaim, Me
<1>h. OwnerAt(p) /\ LivingClaimAt(p) /\ DraftAt(p)
  BY DEF LeftInv, FilesInv
<1> USE CommandLockAssumption
    DEF LeftInv, BaseInv, TypedInv, TypeInvariant, SeenInv, Claiming, Grouping,
        Holding, Me, Records, NoFile, Goto, Forget, Refuse, callVars, claimVars, history
<1>2. OwnerAt(p)'
  BY <1>1, <1>h DEF JudgeGroup, OwnerAt
<1>3. LivingClaimAt(p)'
  <2>1. \A c \in claims : c.claimant.proc # p
    BY <1>h DEF JudgeGroup, LivingClaimAt
  <2>2. claims' = claims
    BY DEF JudgeGroup
  <2> QED BY <2>1, <2>2 DEF LivingClaimAt
<1>4. DraftAt(p)'
  BY <1>1, <1>h DEF JudgeGroup, DraftAt
<1>5. ASSUME Lone(p) PROVE GroupsAt(p)'
  <2>1. /\ Names = listing[p] \cup InHand(p) /\ (\A f \in listing[p] : f[1] # seen[p])
        /\ unread[p] \subseteq paths[p] /\ rival[p].proc \notin alive
    BY <1>5 DEF JudgeGroup, LoneInv, LoneAt, GroupsAt
  <2>2. Names' = Names /\ InHand(p)' = InHand(p) /\ listing' = listing /\ seen' = seen
        /\ paths' = paths
    BY DEF JudgeGroup, Names, InHand
  <2>3. pc'[p] = "readGroup" /\ unread'[p] = unread[p] \ {gen[p]}
    BY <2>1 DEF JudgeGroup, ProcessOwns
  <2> QED BY <2>1, <2>2, <2>3 DEF GroupsAt
<1>6. ASSUME Lone(p) PROVE AttemptAt(p)'
  BY <1>1, <1>6 DEF JudgeGroup, LoneInv, LoneAt, GroupsAt, AttemptAt, Trying
<1> QED BY <1>0, <1>f, <1>g, <1>2, <1>3, <1>4, <1>5, <1>6, SteadyStep DEF LoneAt

LEMMA LoneStatLock ==
    ASSUME LeftInv, NEW p \in Procs, StatLock(p)
    PROVE  LeftInv'
<1>0. Work(p)
  BY DEF Work, Take
<1>1. BaseInv' /\ Active(p)
  BY <1>0, Steady
<1>f. Alone(p)
  BY DEF StatLock, LeftInv, BaseInv, TypedInv, TypeInvariant, Alone, Unaffected, callVars,
         claimVars, history, Goto, Forget, Refuse, NoClaim
<1>g. /\ lock' = lock \/ lock' = NoFile \/ lock' = Me(p)
      /\ \A c \in claims' : c \in claims \/ c.claimant.proc = p
      /\ drafts' \subseteq drafts \cup {p}
  BY DEF StatLock, NoClaim, Me
<1>h. OwnerAt(p) /\ LivingClaimAt(p) /\ DraftAt(p)
  BY DEF LeftInv, FilesInv
<1> USE CommandLockAssumption
    DEF LeftInv, BaseInv, TypedInv, TypeInvariant, SeenInv, Claiming, Grouping,
        Holding, Me, Records, NoFile, Goto, Forget, Refuse, callVars, claimVars, history
<1>2. OwnerAt(p)'
  BY <1>1, <1>h DEF StatLock, OwnerAt
<1>3. LivingClaimAt(p)'
  <2>1. \A c \in claims : c.claimant.proc # p
    BY <1>h DEF StatLock, LivingClaimAt
  <2>2. claims' = claims
    BY DEF StatLock
  <2> QED BY <2>1, <2>2 DEF LivingClaimAt
<1>4. DraftAt(p)'
  BY <1>1, <1>h DEF StatLock, DraftAt
<1>5. ASSUME Lone(p) PROVE GroupsAt(p)'
  BY <1>1, <1>5 DEF StatLock, LoneInv, LoneAt, GroupsAt, AttemptAt, Names, InHand, Trying
<1>6. ASSUME Lone(p) PROVE AttemptAt(p)'
  BY <1>1, <1>6 DEF StatLock, LoneInv, LoneAt, GroupsAt, AttemptAt, Trying
<1> QED BY <1>0, <1>f, <1>g, <1>2, <1>3, <1>4, <1>5, <1>6, SteadyStep DEF LoneAt

LEMMA LoneReadLock ==
    ASSUME LeftInv, NEW p \in Procs, ReadLock(p)
    PROVE  LeftInv'
<1>0. Work(p)
  BY DEF Work, Take
<1>1. BaseInv' /\ Active(p)
  BY <1>0, Steady
<1>f. Alone(p)
  BY DEF ReadLock, LeftInv, BaseInv, TypedInv, TypeInvariant, Alone, Unaffected, callVars,
         claimVars, history, Goto, Forget, Refuse, NoClaim
<1>g. /\ lock' = lock \/ lock' = NoFile \/ lock' = Me(p)
      /\ \A c \in claims' : c \in claims \/ c.claimant.proc = p
      /\ drafts' \subseteq drafts \cup {p}
  BY DEF ReadLock, NoClaim, Me
<1>h. OwnerAt(p) /\ LivingClaimAt(p) /\ DraftAt(p)
  BY DEF LeftInv, FilesInv
<1> USE CommandLockAssumption
    DEF LeftInv, BaseInv, TypedInv, TypeInvariant, SeenInv, Claiming, Grouping,
        Holding, Me, Records, NoFile, Goto, Forget, Refuse, callVars, claimVars, history
<1>2. OwnerAt(p)'
  BY <1>1, <1>h DEF ReadLock, OwnerAt
<1>3. LivingClaimAt(p)'
  <2>1. \A c \in claims : c.claimant.proc # p
    BY <1>h DEF ReadLock, LivingClaimAt
  <2>2. claims' = claims
    BY DEF ReadLock
  <2> QED BY <2>1, <2>2 DEF LivingClaimAt
<1>4. DraftAt(p)'
  BY <1>1, <1>h DEF ReadLock, DraftAt
<1>5. ASSUME Lone(p) PROVE GroupsAt(p)'
  BY <1>1, <1>5 DEF ReadLock, LoneInv, LoneAt, GroupsAt, AttemptAt, Names, InHand, Trying
<1>6. ASSUME Lone(p) PROVE AttemptAt(p)'
  BY <1>1, <1>6 DEF ReadLock, LoneInv, LoneAt, GroupsAt, AttemptAt, Trying
<1> QED BY <1>0, <1>f, <1>g, <1>2, <1>3, <1>4, <1>5, <1>6, SteadyStep DEF LoneAt

LEMMA LoneProbeOwner ==
    ASSUME LeftInv, NEW p \in Procs, ProbeOwner(p)
    PROVE  LeftInv'
<1>0. Work(p)
  BY DEF Work, Take
<1>1. BaseInv' /\ Active(p)
  BY <1>0, Steady
<1>f. Alone(p)
  BY DEF ProbeOwner, LeftInv, BaseInv, TypedInv, TypeInvariant, Alone, Unaffected, callVars,
         claimVars, history, Goto, Forget, Refuse, NoClaim
<1>g. /\ lock' = lock \/ lock' = NoFile \/ lock' = Me(p)
      /\ \A c \in claims' : c \in claims \/ c.claimant.proc = p
      /\ drafts' \subseteq drafts \cup {p}
  BY DEF ProbeOwner, NoClaim, Me
<1>h. OwnerAt(p) /\ LivingClaimAt(p) /\ DraftAt(p)
  BY DEF LeftInv, FilesInv
<1> USE CommandLockAssumption
    DEF LeftInv, BaseInv, TypedInv, TypeInvariant, SeenInv, Claiming, Grouping,
        Holding, Me, Records, NoFile, Goto, Forget, Refuse, callVars, claimVars, history
<1>2. OwnerAt(p)'
  BY <1>1, <1>h DEF ProbeOwner, OwnerAt
<1>3. LivingClaimAt(p)'
  <2>1. \A c \in claims : c.claimant.proc # p
    BY <1>h DEF ProbeOwner, LivingClaimAt
  <2>2. claims' = claims
    BY DEF ProbeOwner
  <2> QED BY <2>1, <2>2 DEF LivingClaimAt
<1>4. DraftAt(p)'
  BY <1>1, <1>h DEF ProbeOwner, DraftAt
<1>5. ASSUME Lone(p) PROVE GroupsAt(p)'
  BY <1>1, <1>5 DEF ProbeOwner, LoneInv, LoneAt, GroupsAt, AttemptAt, Names, InHand, Trying
<1>6. ASSUME Lone(p) PROVE AttemptAt(p)'
  <2>1. /\ lock = seen[p] /\ claims = {} /\ listing[p] = {} /\ paths[p] = {}
        /\ drafts \subseteq {p}
    BY <1>6 DEF ProbeOwner, LoneInv, LoneAt, AttemptAt, Trying
  <2>2. ~ProcessOwns(seen[p])
    <3> SUFFICES ASSUME NEW q \in Procs, lock.proc = q, q \in alive PROVE FALSE
      BY <2>1 DEF ProcessOwns
    <3>1. pc[q] \in Holding
      BY DEF FilesInv, OwnerAt, DeadInv
    <3> QED BY <1>6, <3>1 DEF ProbeOwner, OverlapInv, Active, Lone
  <2> QED BY <2>1, <2>2 DEF ProbeOwner, AttemptAt, Trying
<1> QED BY <1>0, <1>f, <1>g, <1>2, <1>3, <1>4, <1>5, <1>6, SteadyStep DEF LoneAt

LEMMA LoneWriteLock ==
    ASSUME LeftInv, NEW p \in Procs, WriteLock(p)
    PROVE  LeftInv'
<1>0. Work(p)
  BY DEF Work, Take
<1>1. BaseInv' /\ Active(p)
  BY <1>0, Steady
<1>f. Alone(p)
  BY DEF WriteLock, LeftInv, BaseInv, TypedInv, TypeInvariant, Alone, Unaffected, callVars,
         claimVars, history, Goto, Forget, Refuse, NoClaim
<1>g. /\ lock' = lock \/ lock' = NoFile \/ lock' = Me(p)
      /\ \A c \in claims' : c \in claims \/ c.claimant.proc = p
      /\ drafts' \subseteq drafts \cup {p}
  BY DEF WriteLock, NoClaim, Me
<1>h. OwnerAt(p) /\ LivingClaimAt(p) /\ DraftAt(p)
  BY DEF LeftInv, FilesInv
<1> USE CommandLockAssumption
    DEF LeftInv, BaseInv, TypedInv, TypeInvariant, SeenInv, Claiming, Grouping,
        Holding, Me, Records, NoFile, Goto, Forget, Refuse, callVars, claimVars, history
<1>2. OwnerAt(p)'
  BY <1>1, <1>h DEF WriteLock, OwnerAt
<1>3. LivingClaimAt(p)'
  BY <1>1, <1>h DEF WriteLock, LivingClaimAt
<1>4. DraftAt(p)'
  BY <1>1, <1>h DEF WriteLock, DraftAt
<1>5. ASSUME Lone(p) PROVE GroupsAt(p)'
  BY <1>1, <1>5 DEF WriteLock, LoneInv, LoneAt, GroupsAt, AttemptAt, Names, InHand, Trying
<1>6. ASSUME Lone(p) PROVE AttemptAt(p)'
  BY <1>1, <1>6 DEF WriteLock, LoneInv, LoneAt, GroupsAt, AttemptAt, Trying
<1> QED BY <1>0, <1>f, <1>g, <1>2, <1>3, <1>4, <1>5, <1>6, SteadyStep DEF LoneAt

LEMMA LoneLinkLock ==
    ASSUME LeftInv, NEW p \in Procs, LinkLock(p)
    PROVE  LeftInv'
<1>0. Work(p)
  BY DEF Work, Take
<1>1. BaseInv' /\ Active(p)
  BY <1>0, Steady
<1>f. Alone(p)
  BY DEF LinkLock, LeftInv, BaseInv, TypedInv, TypeInvariant, Alone, Unaffected, callVars,
         claimVars, history, Goto, Forget, Refuse, NoClaim
<1>g. /\ lock' = lock \/ lock' = NoFile \/ lock' = Me(p)
      /\ \A c \in claims' : c \in claims \/ c.claimant.proc = p
      /\ drafts' \subseteq drafts \cup {p}
  BY DEF LinkLock, NoClaim, Me
<1>h. OwnerAt(p) /\ LivingClaimAt(p) /\ DraftAt(p)
  BY DEF LeftInv, FilesInv
<1> USE CommandLockAssumption
    DEF LeftInv, BaseInv, TypedInv, TypeInvariant, SeenInv, Claiming, Grouping,
        Holding, Me, Records, NoFile, Goto, Forget, Refuse, callVars, claimVars, history
<1>2. OwnerAt(p)'
  BY <1>1, <1>h DEF LinkLock, OwnerAt
<1>3. LivingClaimAt(p)'
  BY <1>1, <1>h DEF LinkLock, LivingClaimAt
<1>4. DraftAt(p)'
  BY <1>1, <1>h DEF LinkLock, DraftAt
<1>5. ASSUME Lone(p) PROVE GroupsAt(p)'
  BY <1>1, <1>5 DEF LinkLock, LoneInv, LoneAt, GroupsAt, AttemptAt, Names, InHand, Trying
<1>6. ASSUME Lone(p) PROVE AttemptAt(p)'
  BY <1>1, <1>6 DEF LinkLock, LoneInv, LoneAt, GroupsAt, AttemptAt, Trying
<1> QED BY <1>0, <1>f, <1>g, <1>2, <1>3, <1>4, <1>5, <1>6, SteadyStep DEF LoneAt

LEMMA LoneGranted ==
    ASSUME LeftInv, NEW p \in Procs, Granted(p)
    PROVE  LeftInv'
<1>0. Work(p)
  BY DEF Work, Take
<1>1. BaseInv' /\ Active(p)
  BY <1>0, Steady
<1>f. Alone(p)
  BY DEF Granted, LeftInv, BaseInv, TypedInv, TypeInvariant, Alone, Unaffected, callVars,
         claimVars, history, Goto, Forget, Refuse, NoClaim
<1>g. /\ lock' = lock \/ lock' = NoFile \/ lock' = Me(p)
      /\ \A c \in claims' : c \in claims \/ c.claimant.proc = p
      /\ drafts' \subseteq drafts \cup {p}
  BY DEF Granted, NoClaim, Me
<1>h. OwnerAt(p) /\ LivingClaimAt(p) /\ DraftAt(p)
  BY DEF LeftInv, FilesInv
<1> USE CommandLockAssumption
    DEF LeftInv, BaseInv, TypedInv, TypeInvariant, SeenInv, Claiming, Grouping,
        Holding, Me, Records, NoFile, Goto, Forget, Refuse, callVars, claimVars, history
<1>2. OwnerAt(p)'
  BY <1>1, <1>h DEF Granted, OwnerAt
<1>3. LivingClaimAt(p)'
  <2>1. \A c \in claims : c.claimant.proc # p
    BY <1>h DEF Granted, LivingClaimAt
  <2>2. claims' = claims
    BY DEF Granted
  <2> QED BY <2>1, <2>2 DEF LivingClaimAt
<1>4. DraftAt(p)'
  BY <1>1, <1>h DEF Granted, DraftAt
<1>5. ASSUME Lone(p) PROVE GroupsAt(p)'
  BY <1>1, <1>5 DEF Granted, LoneInv, LoneAt, GroupsAt, AttemptAt, Names, InHand, Trying
<1>6. ASSUME Lone(p) PROVE AttemptAt(p)'
  <2>1. drafts \subseteq {p} /\ claims = {} /\ lock # NoFile
    BY <1>6 DEF Granted, LoneInv, LoneAt, AttemptAt
  <2>2. Goto(p, "held") /\ drafts' = drafts \ {p} /\ UNCHANGED <<lock, claims>>
    <3> HIDE DEF Goto, Forget, NoFile
    <3> QED BY <2>1 DEF Granted
  <2> QED BY <2>1, <2>2 DEF AttemptAt, Trying
<1> QED BY <1>0, <1>f, <1>g, <1>2, <1>3, <1>4, <1>5, <1>6, SteadyStep DEF LoneAt

LEMMA LoneLinkClaim ==
    ASSUME LeftInv, NEW p \in Procs, LinkClaim(p)
    PROVE  LeftInv'
<1>0. Work(p)
  BY DEF Work, Claim
<1>1. BaseInv' /\ Active(p)
  BY <1>0, Steady
<1>f. Alone(p)
  BY DEF LinkClaim, LeftInv, BaseInv, TypedInv, TypeInvariant, Alone, Unaffected, callVars,
         claimVars, history, Goto, Forget, Refuse, NoClaim
<1>g. /\ lock' = lock \/ lock' = NoFile \/ lock' = Me(p)
      /\ \A c \in claims' : c \in claims \/ c.claimant.proc = p
      /\ drafts' \subseteq drafts \cup {p}
  BY DEF LinkClaim, NoClaim, Me
<1>h. OwnerAt(p) /\ LivingClaimAt(p) /\ DraftAt(p)
  BY DEF LeftInv, FilesInv
<1> USE CommandLockAssumption
    DEF LeftInv, BaseInv, TypedInv, TypeInvariant, SeenInv, Claiming, Grouping,
        Holding, Me, Records, NoFile, Goto, Forget, Refuse, callVars, claimVars, history
<1>2. OwnerAt(p)'
  BY <1>1, <1>h DEF LinkClaim, ClaimFile, Claims, OwnerAt
<1>3. LivingClaimAt(p)'
  BY <1>1, <1>h DEF LinkClaim, ClaimFile, Claims, LivingClaimAt
<1>4. DraftAt(p)'
  BY <1>1, <1>h DEF LinkClaim, ClaimFile, Claims, DraftAt
<1>5. ASSUME Lone(p) PROVE GroupsAt(p)'
  <2>0. /\ Names = listing[p] \cup InHand(p) /\ (\A f \in listing[p] : f[1] # seen[p])
        /\ ~cleaning[p] => listing[p] = {} /\ paths[p] = {}
    BY <1>5 DEF LinkClaim, LoneInv, LoneAt, GroupsAt, AttemptAt
  <2>1. /\ Names = listing[p] \cup InHand(p) /\ (\A f \in listing[p] : f[1] # seen[p])
        /\ cleaning[p] \/ claims = {}
    BY <2>0, Named DEF InHand
  <2>2. listing' = listing /\ seen' = seen /\ gen' = gen /\ cleaning' = cleaning
    BY DEF LinkClaim
  <2>3. CASE ClaimFile(seen[p], gen[p]) = {}
    <3>0. PICK c : /\ c = [target |-> seen[p], gen |-> gen[p], claimant |-> Me(p)]
                   /\ claims' = claims \cup {c}
      BY <2>3 DEF LinkClaim
    <3>1. /\ paths'[p] = paths[p] \cup {gen[p]} /\ pc'[p] = "claimed"
          /\ claims' = claims \cup {c} /\ c.target = seen[p] /\ c.gen = gen[p]
      BY <2>3, <3>0 DEF LinkClaim
    <3>2. Names' = Names \cup {<<seen[p], gen[p]>>}
      <4> HIDE DEF Records
      <4> QED BY <3>1 DEF Names
    <3>3. InHand(p)' = InHand(p) \cup {<<seen[p], gen[p]>>}
      BY <2>2, <3>1 DEF InHand
    <3> QED BY <2>1, <2>2, <3>1, <3>2, <3>3 DEF GroupsAt
  <2>4. CASE ClaimFile(seen[p], gen[p]) # {}
    <3>1. /\ paths' = paths /\ pc'[p] = "readClaim" /\ claims' = claims
      BY <2>4 DEF LinkClaim
    <3>2. <<seen[p], gen[p]>> \in Names /\ cleaning[p]
      BY <2>1, <2>4 DEF Names, ClaimFile
    <3>3. gen[p] \in paths[p]
      BY <2>1, <3>2 DEF InHand
    <3>4. Names' = Names /\ InHand(p)' = InHand(p)
      BY <2>2, <3>1 DEF Names, InHand
    <3> QED BY <2>1, <2>2, <3>1, <3>2, <3>3, <3>4 DEF GroupsAt
  <2> QED BY <2>3, <2>4
<1>6. ASSUME Lone(p) PROVE AttemptAt(p)'
  BY <1>1, <1>6 DEF LinkClaim, ClaimFile, Claims, LoneInv, LoneAt, GroupsAt, AttemptAt, Trying
<1> QED BY <1>0, <1>f, <1>g, <1>2, <1>3, <1>4, <1>5, <1>6, SteadyStep DEF LoneAt

LEMMA LoneReadClaim ==
    ASSUME LeftInv, NEW p \in Procs, ReadClaim(p)
    PROVE  LeftInv'
<1>0. Work(p)
  BY DEF Work, Claim
<1>1. BaseInv' /\ Active(p)
  BY <1>0, Steady
<1>f. Alone(p)
  BY DEF ReadClaim, LeftInv, BaseInv, TypedInv, TypeInvariant, Alone, Unaffected, callVars,
         claimVars, history, Goto, Forget, Refuse, NoClaim
<1>g. /\ lock' = lock \/ lock' = NoFile \/ lock' = Me(p)
      /\ \A c \in claims' : c \in claims \/ c.claimant.proc = p
      /\ drafts' \subseteq drafts \cup {p}
  BY DEF ReadClaim, NoClaim, Me
<1>h. OwnerAt(p) /\ LivingClaimAt(p) /\ DraftAt(p)
  BY DEF LeftInv, FilesInv
<1> USE CommandLockAssumption
    DEF LeftInv, BaseInv, TypedInv, TypeInvariant, SeenInv, Claiming, Grouping,
        Holding, Me, Records, NoFile, Goto, Forget, Refuse, callVars, claimVars, history
<1>2. OwnerAt(p)'
  BY <1>1, <1>h DEF ReadClaim, NoClaim, OwnerAt
<1>3. LivingClaimAt(p)'
  <2>1. \A c \in claims : c.claimant.proc # p
    BY <1>h DEF ReadClaim, LivingClaimAt
  <2>2. claims' = claims
    BY DEF ReadClaim
  <2> QED BY <2>1, <2>2 DEF LivingClaimAt
<1>4. DraftAt(p)'
  BY <1>1, <1>h DEF ReadClaim, NoClaim, DraftAt
<1>5. ASSUME Lone(p) PROVE GroupsAt(p)'
  <2>1. /\ Names = listing[p] \cup InHand(p) /\ (\A f \in listing[p] : f[1] # seen[p])
        /\ cleaning[p] /\ gen[p] \in paths[p]
    BY <1>5 DEF ReadClaim, LoneInv, LoneAt, GroupsAt
  <2>2. ClaimFile(seen[p], gen[p]) # {}
    <3>1. <<seen[p], gen[p]>> \in Names
      BY <2>1 DEF InHand
    <3> QED BY <3>1 DEF Names, ClaimFile
  <2>3. PICK c \in claims : rival' = [rival EXCEPT ![p] = c.claimant] /\ pc'[p] = "judge"
                            /\ UNCHANGED <<listing, cleaning, seen, gen, paths>>
    BY <2>2 DEF ReadClaim, ClaimFile
  <2>4. rival'[p].proc \notin alive
    BY <1>5, <2>3, RivalsEnded DEF ReadClaim
  <2>5. Names' = Names /\ InHand(p)' = InHand(p) /\ alive' = alive
    BY <2>3 DEF ReadClaim, Names, InHand
  <2> QED BY <2>1, <2>3, <2>4, <2>5 DEF GroupsAt
<1>6. ASSUME Lone(p) PROVE AttemptAt(p)'
  <2>1. drafts \subseteq {p} /\ cleaning[p]
    BY <1>6 DEF ReadClaim, LoneInv, LoneAt, GroupsAt, AttemptAt
  <2>2. pc'[p] = "group" \/ (pc'[p] = "judge" /\ cleaning' = cleaning)
    BY <2>1 DEF ReadClaim, NoClaim
  <2>3. drafts' \subseteq {p}
    BY <2>1 DEF ReadClaim, NoClaim
  <2> QED BY <2>1, <2>2, <2>3 DEF AttemptAt, Trying
<1> QED BY <1>0, <1>f, <1>g, <1>2, <1>3, <1>4, <1>5, <1>6, SteadyStep DEF LoneAt

LEMMA LoneJudgeClaimant ==
    ASSUME LeftInv, NEW p \in Procs, JudgeClaimant(p)
    PROVE  LeftInv'
<1>0. Work(p)
  BY DEF Work, Claim
<1>1. BaseInv' /\ Active(p)
  BY <1>0, Steady
<1>f. Alone(p)
  BY DEF JudgeClaimant, LeftInv, BaseInv, TypedInv, TypeInvariant, Alone, Unaffected, callVars,
         claimVars, history, Goto, Forget, Refuse, NoClaim
<1>g. /\ lock' = lock \/ lock' = NoFile \/ lock' = Me(p)
      /\ \A c \in claims' : c \in claims \/ c.claimant.proc = p
      /\ drafts' \subseteq drafts \cup {p}
  BY DEF JudgeClaimant, NoClaim, Me
<1>h. OwnerAt(p) /\ LivingClaimAt(p) /\ DraftAt(p)
  BY DEF LeftInv, FilesInv
<1> USE CommandLockAssumption
    DEF LeftInv, BaseInv, TypedInv, TypeInvariant, SeenInv, Claiming, Grouping,
        Holding, Me, Records, NoFile, Goto, Forget, Refuse, callVars, claimVars, history
<1>2. OwnerAt(p)'
  BY <1>1, <1>h DEF JudgeClaimant, NoClaim, OwnerAt
<1>3. LivingClaimAt(p)'
  <2>1. \A c \in claims : c.claimant.proc # p
    BY <1>h DEF JudgeClaimant, LivingClaimAt
  <2>2. claims' = claims
    BY DEF JudgeClaimant
  <2> QED BY <2>1, <2>2 DEF LivingClaimAt
<1>4. DraftAt(p)'
  BY <1>1, <1>h DEF JudgeClaimant, NoClaim, DraftAt
<1>5. ASSUME Lone(p) PROVE GroupsAt(p)'
  <2>1. /\ Names = listing[p] \cup InHand(p) /\ (\A f \in listing[p] : f[1] # seen[p])
        /\ cleaning[p] /\ gen[p] \in paths[p] /\ rival[p].proc \notin alive
    BY <1>5 DEF JudgeClaimant, LoneInv, LoneAt, GroupsAt
  <2>0. paths[p] \cup {gen[p]} = paths[p]
    BY <2>1
  <2>a. /\ paths' = [paths EXCEPT ![p] = @ \cup {gen[p]}] /\ Goto(p, "claim")
        /\ UNCHANGED <<listing, cleaning, seen>>
    <3> HIDE DEF NoClaim, Goto
    <3> QED BY <2>1 DEF JudgeClaimant, ProcessOwns
  <2>2. /\ paths'[p] = paths[p] /\ pc'[p] = "claim"
        /\ UNCHANGED <<listing, cleaning, seen>>
    BY <2>0, <2>a
  <2>3. Names' = Names /\ InHand(p)' = InHand(p)
    BY <2>2 DEF JudgeClaimant, Names, InHand
  <2> QED BY <2>1, <2>2, <2>3 DEF GroupsAt
<1>6. ASSUME Lone(p) PROVE AttemptAt(p)'
  <2>1. /\ cleaning[p] /\ rival[p].proc \notin alive /\ drafts \subseteq {p}
    BY <1>6 DEF JudgeClaimant, LoneInv, LoneAt, GroupsAt, AttemptAt
  <2>2. pc'[p] = "claim" /\ UNCHANGED <<drafts, cleaning>>
    BY <2>1 DEF JudgeClaimant, ProcessOwns
  <2> QED BY <2>1, <2>2 DEF AttemptAt, Trying
<1> QED BY <1>0, <1>f, <1>g, <1>2, <1>3, <1>4, <1>5, <1>6, SteadyStep DEF LoneAt

LEMMA LoneClaimed ==
    ASSUME LeftInv, NEW p \in Procs, Claimed(p)
    PROVE  LeftInv'
<1>0. Work(p)
  BY DEF Work, Claim
<1>1. BaseInv' /\ Active(p)
  BY <1>0, Steady
<1>f. Alone(p)
  BY DEF Claimed, LeftInv, BaseInv, TypedInv, TypeInvariant, Alone, Unaffected, callVars,
         claimVars, history, Goto, Forget, Refuse, NoClaim
<1>g. /\ lock' = lock \/ lock' = NoFile \/ lock' = Me(p)
      /\ \A c \in claims' : c \in claims \/ c.claimant.proc = p
      /\ drafts' \subseteq drafts \cup {p}
  BY DEF Claimed, NoClaim, Me
<1>h. OwnerAt(p) /\ LivingClaimAt(p) /\ DraftAt(p)
  BY DEF LeftInv, FilesInv
<1> USE CommandLockAssumption
    DEF LeftInv, BaseInv, TypedInv, TypeInvariant, SeenInv, Claiming, Grouping,
        Holding, Me, Records, NoFile, Goto, Forget, Refuse, callVars, claimVars, history
<1>2. OwnerAt(p)'
  BY <1>1, <1>h DEF Claimed, OwnerAt
<1>3. LivingClaimAt(p)'
  BY <1>1, <1>h DEF Claimed, LivingClaimAt
<1>4. DraftAt(p)'
  BY <1>1, <1>h DEF Claimed, DraftAt
<1>5. ASSUME Lone(p) PROVE GroupsAt(p)'
  BY <1>1, <1>5 DEF Claimed, LoneInv, LoneAt, GroupsAt, AttemptAt, Names, InHand, Trying
<1>6. ASSUME Lone(p) PROVE AttemptAt(p)'
  BY <1>1, <1>6 DEF Claimed, LoneInv, LoneAt, GroupsAt, AttemptAt, Trying
<1> QED BY <1>0, <1>f, <1>g, <1>2, <1>3, <1>4, <1>5, <1>6, SteadyStep DEF LoneAt

LEMMA LoneRecheck ==
    ASSUME LeftInv, NEW p \in Procs, Recheck(p)
    PROVE  LeftInv'
<1>0. Work(p)
  BY DEF Work, Claim
<1>1. BaseInv' /\ Active(p)
  BY <1>0, Steady
<1>f. Alone(p)
  BY DEF Recheck, LeftInv, BaseInv, TypedInv, TypeInvariant, Alone, Unaffected, callVars,
         claimVars, history, Goto, Forget, Refuse, NoClaim
<1>g. /\ lock' = lock \/ lock' = NoFile \/ lock' = Me(p)
      /\ \A c \in claims' : c \in claims \/ c.claimant.proc = p
      /\ drafts' \subseteq drafts \cup {p}
  BY DEF Recheck, NoClaim, Me
<1>h. OwnerAt(p) /\ LivingClaimAt(p) /\ DraftAt(p)
  BY DEF LeftInv, FilesInv
<1> USE CommandLockAssumption
    DEF LeftInv, BaseInv, TypedInv, TypeInvariant, SeenInv, Claiming, Grouping,
        Holding, Me, Records, NoFile, Goto, Forget, Refuse, callVars, claimVars, history
<1>2. OwnerAt(p)'
  BY <1>1, <1>h DEF Recheck, OwnerAt
<1>3. LivingClaimAt(p)'
  BY <1>1, <1>h DEF Recheck, LivingClaimAt
<1>4. DraftAt(p)'
  BY <1>1, <1>h DEF Recheck, DraftAt
<1>5. ASSUME Lone(p) PROVE GroupsAt(p)'
  BY <1>1, <1>5 DEF Recheck, LoneInv, LoneAt, GroupsAt, AttemptAt, Names, InHand, Trying
<1>6. ASSUME Lone(p) PROVE AttemptAt(p)'
  BY <1>1, <1>6 DEF Recheck, LoneInv, LoneAt, GroupsAt, AttemptAt, Trying
<1> QED BY <1>0, <1>f, <1>g, <1>2, <1>3, <1>4, <1>5, <1>6, SteadyStep DEF LoneAt

LEMMA LoneUnlinkStale ==
    ASSUME LeftInv, NEW p \in Procs, UnlinkStale(p)
    PROVE  LeftInv'
<1>0. Work(p)
  BY DEF Work, Claim
<1>1. BaseInv' /\ Active(p)
  BY <1>0, Steady
<1>f. Alone(p)
  BY DEF UnlinkStale, LeftInv, BaseInv, TypedInv, TypeInvariant, Alone, Unaffected, callVars,
         claimVars, history, Goto, Forget, Refuse, NoClaim
<1>g. /\ lock' = lock \/ lock' = NoFile \/ lock' = Me(p)
      /\ \A c \in claims' : c \in claims \/ c.claimant.proc = p
      /\ drafts' \subseteq drafts \cup {p}
  BY DEF UnlinkStale, NoClaim, Me
<1>h. OwnerAt(p) /\ LivingClaimAt(p) /\ DraftAt(p)
  BY DEF LeftInv, FilesInv
<1> USE CommandLockAssumption
    DEF LeftInv, BaseInv, TypedInv, TypeInvariant, SeenInv, Claiming, Grouping,
        Holding, Me, Records, NoFile, Goto, Forget, Refuse, callVars, claimVars, history
<1>2. OwnerAt(p)'
  BY <1>1, <1>h DEF UnlinkStale, OwnerAt
<1>3. LivingClaimAt(p)'
  BY <1>1, <1>h DEF UnlinkStale, LivingClaimAt
<1>4. DraftAt(p)'
  BY <1>1, <1>h DEF UnlinkStale, DraftAt
<1>5. ASSUME Lone(p) PROVE GroupsAt(p)'
  BY <1>1, <1>5 DEF UnlinkStale, LoneInv, LoneAt, GroupsAt, AttemptAt, Names, InHand, Trying
<1>6. ASSUME Lone(p) PROVE AttemptAt(p)'
  <2>1. /\ drafts \subseteq {p} /\ ~cleaning[p] /\ lock = seen[p] /\ seen[p] \in Records
        /\ listing[p] = {}
    BY <1>6 DEF UnlinkStale, LoneInv, LoneAt, GroupsAt, AttemptAt
  <2>2. lock # NoFile
    BY <2>1
  <2> QED BY <2>1, <2>2 DEF UnlinkStale, AttemptAt, Trying
<1> QED BY <1>0, <1>f, <1>g, <1>2, <1>3, <1>4, <1>5, <1>6, SteadyStep DEF LoneAt

LEMMA LoneUnlinkClaim ==
    ASSUME LeftInv, NEW p \in Procs, UnlinkClaim(p)
    PROVE  LeftInv'
<1>0. Work(p)
  BY DEF Work, Claim
<1>1. BaseInv' /\ Active(p)
  BY <1>0, Steady
<1>f. Alone(p)
  BY DEF UnlinkClaim, LeftInv, BaseInv, TypedInv, TypeInvariant, Alone, Unaffected, callVars,
         claimVars, history, Goto, Forget, Refuse, NoClaim
<1>g. /\ lock' = lock \/ lock' = NoFile \/ lock' = Me(p)
      /\ \A c \in claims' : c \in claims \/ c.claimant.proc = p
      /\ drafts' \subseteq drafts \cup {p}
  BY DEF UnlinkClaim, NoClaim, Me
<1>h. OwnerAt(p) /\ LivingClaimAt(p) /\ DraftAt(p)
  BY DEF LeftInv, FilesInv
<1> USE CommandLockAssumption
    DEF LeftInv, BaseInv, TypedInv, TypeInvariant, SeenInv, Claiming, Grouping,
        Holding, Me, Records, NoFile, Goto, Forget, Refuse, callVars, claimVars, history
<1>2. OwnerAt(p)'
  BY <1>1, <1>h DEF UnlinkClaim, ClaimFile, OwnerAt
<1>3. LivingClaimAt(p)'
  BY <1>1, <1>h DEF UnlinkClaim, ClaimFile, LivingClaimAt
<1>4. DraftAt(p)'
  BY <1>1, <1>h DEF UnlinkClaim, ClaimFile, DraftAt
<1>5. ASSUME Lone(p) PROVE GroupsAt(p)'
  <2>1. PICK g \in paths[p] : /\ claims' = claims \ ClaimFile(seen[p], g)
                              /\ paths' = [paths EXCEPT ![p] = @ \ {g}]
    BY DEF UnlinkClaim
  <2>2. /\ Names = listing[p] \cup InHand(p) /\ (\A f \in listing[p] : f[1] # seen[p])
        /\ pc[p] = "cleanup" /\ UNCHANGED <<pc, seen, listing>>
    BY <1>5 DEF UnlinkClaim, LoneInv, LoneAt, GroupsAt
  <2>3. paths'[p] = paths[p] \ {g}
    BY <2>1
  <2>4. Names' = Names \ {<<seen[p], g>>}
    BY <2>1 DEF Names, ClaimFile
  <2>5. InHand(p)' = InHand(p) \ {<<seen[p], g>>}
    BY <2>2, <2>3 DEF InHand
  <2>6. <<seen[p], g>> \notin listing[p]
    BY <2>2
  <2> QED BY <2>2, <2>4, <2>5, <2>6 DEF GroupsAt
<1>6. ASSUME Lone(p) PROVE AttemptAt(p)'
  BY <1>1, <1>6 DEF UnlinkClaim, ClaimFile, LoneInv, LoneAt, GroupsAt, AttemptAt, Trying
<1> QED BY <1>0, <1>f, <1>g, <1>2, <1>3, <1>4, <1>5, <1>6, SteadyStep DEF LoneAt

LEMMA LoneCleanedUp ==
    ASSUME LeftInv, NEW p \in Procs, CleanedUp(p)
    PROVE  LeftInv'
<1>0. Work(p)
  BY DEF Work, Claim
<1>1. BaseInv' /\ Active(p)
  BY <1>0, Steady
<1>f. Alone(p)
  BY DEF CleanedUp, LeftInv, BaseInv, TypedInv, TypeInvariant, Alone, Unaffected, callVars,
         claimVars, history, Goto, Forget, Refuse, NoClaim
<1>g. /\ lock' = lock \/ lock' = NoFile \/ lock' = Me(p)
      /\ \A c \in claims' : c \in claims \/ c.claimant.proc = p
      /\ drafts' \subseteq drafts \cup {p}
  BY DEF CleanedUp, NoClaim, Me
<1>h. OwnerAt(p) /\ LivingClaimAt(p) /\ DraftAt(p)
  BY DEF LeftInv, FilesInv
<1> USE CommandLockAssumption
    DEF LeftInv, BaseInv, TypedInv, TypeInvariant, SeenInv, Claiming, Grouping,
        Holding, Me, Records, NoFile, Goto, Forget, Refuse, callVars, claimVars, history
<1>2. OwnerAt(p)'
  BY <1>1, <1>h DEF CleanedUp, OwnerAt
<1>3. LivingClaimAt(p)'
  <2>1. \A c \in claims : c.claimant.proc # p
    BY <1>h DEF CleanedUp, LivingClaimAt
  <2>2. claims' = claims
    BY DEF CleanedUp
  <2> QED BY <2>1, <2>2 DEF LivingClaimAt
<1>4. DraftAt(p)'
  BY <1>1, <1>h DEF CleanedUp, DraftAt
<1>5. ASSUME Lone(p) PROVE GroupsAt(p)'
  BY <1>1, <1>5 DEF CleanedUp, LoneInv, LoneAt, GroupsAt, AttemptAt, Names, InHand, Trying
<1>6. ASSUME Lone(p) PROVE AttemptAt(p)'
  <2>1. /\ drafts \subseteq {p} /\ paths[p] = {}
        /\ ~cleaning[p] => listing[p] = {} /\ removed[p] /\ lock = NoFile
        /\ Names = listing[p] \cup InHand(p)
    BY <1>6 DEF CleanedUp, LoneInv, LoneAt, GroupsAt, AttemptAt
  <2>2. ~cleaning[p] => claims = {}
    BY <2>1, Named DEF InHand
  <2>3. UNCHANGED <<lock, claims, drafts>>
    BY DEF CleanedUp
  <2>4. CASE cleaning[p]
    BY <2>1, <2>3, <2>4 DEF CleanedUp, AttemptAt, Trying
  <2>5. CASE ~cleaning[p]
    <3>1. pc'[p] = "write" /\ listing'[p] = {} /\ paths'[p] = {}
      BY <2>1, <2>5 DEF CleanedUp
    <3> QED BY <2>1, <2>2, <2>3, <2>5, <3>1 DEF AttemptAt, Trying
  <2> QED BY <2>4, <2>5
<1> QED BY <1>0, <1>f, <1>g, <1>2, <1>3, <1>4, <1>5, <1>6, SteadyStep DEF LoneAt

LEMMA LoneRelease ==
    ASSUME LeftInv, NEW p \in Procs, Release(p)
    PROVE  LeftInv'
<1>0. Work(p)
  BY DEF Work
<1>1. BaseInv' /\ Active(p)
  BY <1>0, Steady
<1>f. Alone(p)
  BY DEF Release, LeftInv, BaseInv, TypedInv, TypeInvariant, Alone, Unaffected, callVars,
         claimVars, history, Goto, Forget, Refuse, NoClaim
<1>g. /\ lock' = lock \/ lock' = NoFile \/ lock' = Me(p)
      /\ \A c \in claims' : c \in claims \/ c.claimant.proc = p
      /\ drafts' \subseteq drafts \cup {p}
  BY DEF Release, NoClaim, Me
<1>h. OwnerAt(p) /\ LivingClaimAt(p) /\ DraftAt(p)
  BY DEF LeftInv, FilesInv
<1> USE CommandLockAssumption
    DEF LeftInv, BaseInv, TypedInv, TypeInvariant, SeenInv, Claiming, Grouping,
        Holding, Me, Records, NoFile, Goto, Forget, Refuse, callVars, claimVars, history
<1>2. OwnerAt(p)'
  BY <1>1, <1>h DEF Release, OwnerAt
<1>3. LivingClaimAt(p)'
  BY <1>1, <1>h DEF Release, LivingClaimAt
<1>4. DraftAt(p)'
  BY <1>1, <1>h DEF Release, DraftAt
<1>5. ASSUME Lone(p) PROVE GroupsAt(p)'
  BY <1>1, <1>5 DEF Release, LoneInv, LoneAt, GroupsAt, AttemptAt, Names, InHand, Trying
<1>6. ASSUME Lone(p) PROVE AttemptAt(p)'
  BY <1>1, <1>6 DEF Release, LoneInv, LoneAt, GroupsAt, AttemptAt, Trying
<1> QED BY <1>0, <1>f, <1>g, <1>2, <1>3, <1>4, <1>5, <1>6, SteadyStep DEF LoneAt

LEMMA LoneReleaseRead ==
    ASSUME LeftInv, NEW p \in Procs, ReleaseRead(p)
    PROVE  LeftInv'
<1>0. Work(p)
  BY DEF Work
<1>1. BaseInv' /\ Active(p)
  BY <1>0, Steady
<1>f. Alone(p)
  BY DEF ReleaseRead, LeftInv, BaseInv, TypedInv, TypeInvariant, Alone, Unaffected, callVars,
         claimVars, history, Goto, Forget, Refuse, NoClaim
<1>g. /\ lock' = lock \/ lock' = NoFile \/ lock' = Me(p)
      /\ \A c \in claims' : c \in claims \/ c.claimant.proc = p
      /\ drafts' \subseteq drafts \cup {p}
  BY DEF ReleaseRead, NoClaim, Me
<1>h. OwnerAt(p) /\ LivingClaimAt(p) /\ DraftAt(p)
  BY DEF LeftInv, FilesInv
<1> USE CommandLockAssumption
    DEF LeftInv, BaseInv, TypedInv, TypeInvariant, SeenInv, Claiming, Grouping,
        Holding, Me, Records, NoFile, Goto, Forget, Refuse, callVars, claimVars, history
<1>2. OwnerAt(p)'
  BY <1>1, <1>h DEF ReleaseRead, OwnerAt
<1>3. LivingClaimAt(p)'
  BY <1>1, <1>h DEF ReleaseRead, LivingClaimAt
<1>4. DraftAt(p)'
  BY <1>1, <1>h DEF ReleaseRead, DraftAt
<1>5. ASSUME Lone(p) PROVE GroupsAt(p)'
  BY <1>1, <1>5 DEF ReleaseRead, LoneInv, LoneAt, GroupsAt, AttemptAt, Names, InHand, Trying
<1>6. ASSUME Lone(p) PROVE AttemptAt(p)'
  BY <1>1, <1>6 DEF ReleaseRead, LoneInv, LoneAt, GroupsAt, AttemptAt, Trying
<1> QED BY <1>0, <1>f, <1>g, <1>2, <1>3, <1>4, <1>5, <1>6, SteadyStep DEF LoneAt

LEMMA LoneReleaseUnlink ==
    ASSUME LeftInv, NEW p \in Procs, ReleaseUnlink(p)
    PROVE  LeftInv'
<1>0. Work(p)
  BY DEF Work
<1>1. BaseInv' /\ Active(p)
  BY <1>0, Steady
<1>f. Alone(p)
  BY DEF ReleaseUnlink, LeftInv, BaseInv, TypedInv, TypeInvariant, Alone, Unaffected, callVars,
         claimVars, history, Goto, Forget, Refuse, NoClaim
<1>g. /\ lock' = lock \/ lock' = NoFile \/ lock' = Me(p)
      /\ \A c \in claims' : c \in claims \/ c.claimant.proc = p
      /\ drafts' \subseteq drafts \cup {p}
  BY DEF ReleaseUnlink, NoClaim, Me
<1>h. OwnerAt(p) /\ LivingClaimAt(p) /\ DraftAt(p)
  BY DEF LeftInv, FilesInv
<1> USE CommandLockAssumption
    DEF LeftInv, BaseInv, TypedInv, TypeInvariant, SeenInv, Claiming, Grouping,
        Holding, Me, Records, NoFile, Goto, Forget, Refuse, callVars, claimVars, history
<1>2. OwnerAt(p)'
  BY <1>1, <1>h DEF ReleaseUnlink, OwnerAt
<1>3. LivingClaimAt(p)'
  BY <1>1, <1>h DEF ReleaseUnlink, LivingClaimAt
<1>4. DraftAt(p)'
  BY <1>1, <1>h DEF ReleaseUnlink, DraftAt
<1>5. ASSUME Lone(p) PROVE GroupsAt(p)'
  BY <1>1, <1>5 DEF ReleaseUnlink, LoneInv, LoneAt, GroupsAt, AttemptAt, Names, InHand, Trying
<1>6. ASSUME Lone(p) PROVE AttemptAt(p)'
  BY <1>1, <1>6 DEF ReleaseUnlink, LoneInv, LoneAt, GroupsAt, AttemptAt, Trying
<1> QED BY <1>0, <1>f, <1>g, <1>2, <1>3, <1>4, <1>5, <1>6, SteadyStep DEF LoneAt

(* A call that begins is alone only if nobody else is active; a process    *)
(* that ends leaves the files of a lone caller as they are.                *)
LEMMA LoneAcquire ==
    ASSUME LeftInv, NEW p \in Procs, Acquire(p)
    PROVE  LeftInv'
<1>1. BaseInv'
  BY BaseStep DEF LeftInv, Next
<1> USE DEF LeftInv, FilesInv, BaseInv, TypedInv, TypeInvariant, Goto
<1>2. FilesInv' /\ DeadInv'
  BY <1>1 DEF Acquire, claimVars, OwnerAt, LivingClaimAt, DraftAt, DeadInv, Holding, Me
<1>3. OverlapInv'
  BY <1>1 DEF Acquire, OverlapInv, Active
<1>4. ASSUME NEW q \in Procs, Lone(q)' PROVE LoneAt(q)'
  <2>1. q = p
    BY <1>4 DEF Acquire, Active, Lone
  <2> QED BY <1>1, <2>1 DEF Acquire, LoneAt, GroupsAt, AttemptAt, Trying, Claiming, Grouping
<1> QED BY <1>1, <1>2, <1>3, <1>4 DEF LoneInv

LEMMA LoneCrash ==
    ASSUME LeftInv, NEW p \in Procs, Crash(p)
    PROVE  LeftInv'
<1>1. BaseInv'
  BY BaseStep DEF LeftInv, Next
<1> USE DEF LeftInv, FilesInv, BaseInv, TypedInv, TypeInvariant, Goto, Crash, Forget
<1>2. FilesInv' /\ DeadInv' /\ OverlapInv'
  BY <1>1 DEF OwnerAt, LivingClaimAt, DraftAt, DeadInv, Me, OverlapInv, Active, callVars
<1>3. ASSUME NEW q \in Procs, Lone(q)' PROVE LoneAt(q)'
  <2>1. q # p /\ Lone(q)
    BY <1>3 DEF Lone, Active
  <2>2. LoneAt(q)
    BY <2>1 DEF LoneInv
  <2>3. /\ pc'[q] = pc[q] /\ listing'[q] = listing[q] /\ cleaning'[q] = cleaning[q]
        /\ unread'[q] = unread[q] /\ seen'[q] = seen[q] /\ gen'[q] = gen[q]
        /\ rival'[q] = rival[q] /\ paths'[q] = paths[q] /\ removed'[q] = removed[q]
        /\ lock' = lock /\ claims' = claims /\ drafts' = drafts /\ alive' \subseteq alive
    BY <2>1
  <2>4. Names' = Names /\ InHand(q)' = InHand(q)
    BY <2>3 DEF Names, InHand
  <2> HIDE DEF Crash, Forget
  <2>5. GroupsAt(q)'
    BY <2>2, <2>3, <2>4 DEF LoneAt, GroupsAt
  <2>6. AttemptAt(q)'
    BY <2>2, <2>3 DEF LoneAt, AttemptAt
  <2> QED BY <2>5, <2>6 DEF LoneAt
<1> QED BY <1>1, <1>2, <1>3 DEF LoneInv

(* The inductive step.                                                     *)
LEMMA LeftStep ==
    ASSUME LeftInv, [Next]_vars
    PROVE  LeftInv'
<1>1. CASE UNCHANGED vars
  <2>1. BaseInv'
    BY BaseStep DEF LeftInv
  <2> USE <1>1 DEF vars, callVars, claimVars, history
  <2>2. OverlapInv' /\ DeadInv' /\ FilesInv'
    BY DEF LeftInv, OverlapInv, DeadInv, Active, FilesInv, OwnerAt, LivingClaimAt, DraftAt, Me
  <2>3. LoneInv'
    BY DEF LeftInv, LoneInv, Lone, Active, LoneAt, GroupsAt, AttemptAt, Names, InHand
  <2> QED BY <2>1, <2>2, <2>3 DEF LeftInv
<1> QED
  BY <1>1, LoneAcquire, LoneCrash, LoneCleanCandidates, LoneListClaims, LoneNextGroup, LoneReadGroup, LoneJudgeGroup, LoneStatLock, LoneReadLock, LoneProbeOwner, LoneWriteLock, LoneLinkLock, LoneGranted, LoneLinkClaim, LoneReadClaim, LoneJudgeClaimant, LoneClaimed, LoneRecheck, LoneUnlinkStale, LoneUnlinkClaim, LoneCleanedUp, LoneRelease, LoneReleaseRead, LoneReleaseUnlink
     DEF Next, Clean, Claim, Take

(* It holds while no process has called.                                   *)
LEMMA LeftInit == Init => LeftInv
<1> SUFFICES ASSUME Init PROVE LeftInv
  OBVIOUS
<1>1. BaseInv
  BY CommandInit DEF CommandInv
<1>2. OverlapInv /\ DeadInv /\ LoneInv
  BY DEF Init, OverlapInv, DeadInv, LoneInv, Lone, Active
<1>3. FilesInv
  BY CommandLockAssumption
     DEF Init, FilesInv, OwnerAt, LivingClaimAt, DraftAt, NoFile
<1> QED BY <1>1, <1>2, <1>3 DEF LeftInv

(* A command that met no other one is not refused and gets the lease,      *)
(* whatever processes that ended anywhere have left: their lock, their     *)
(* claims of any generation on any lock, their candidates.  By the time it *)
(* has the lease nothing of that is left.                                  *)
THEOREM LoneCallers == Spec => LoneCallerServed
<1> DEFINE Served == \A p \in Procs : overlap[p] = {} =>
                        /\ ~Refused(p)
                        /\ Granted(p) => pc'[p] = "held" /\ claims = {} /\ drafts' = {}
<1>1. ASSUME LeftInv, NEW p \in Procs, overlap[p] = {}
      PROVE  /\ ~Refused(p)
             /\ Granted(p) => pc'[p] = "held" /\ claims = {} /\ drafts' = {}
  <2>1. pc \in [Procs -> PCs] /\ alive \subseteq Procs /\ cleaning \in [Procs -> BOOLEAN]
        /\ removed \in [Procs -> BOOLEAN]
    BY <1>1 DEF LeftInv, BaseInv, TypedInv, TypeInvariant
  <2>2. Active(p) => LoneAt(p)
    BY <1>1 DEF LeftInv, LoneInv, Lone
  <2> USE DEF Active, LoneAt, Goto
  <2>3. ~(ReadLock(p) /\ pc'[p] = "done")
    BY <2>1, <2>2 DEF ReadLock, AttemptAt
  <2>4. ~(ProbeOwner(p) /\ pc'[p] = "done")
    <3> SUFFICES ASSUME ProbeOwner(p), pc'[p] = "done" PROVE FALSE
      OBVIOUS
    <3>1. seen[p].proc \in alive /\ lock = seen[p]
      BY <2>1, <2>2 DEF ProbeOwner, ProcessOwns, AttemptAt
    <3>2. lock.proc \in Procs /\ pc[lock.proc] \in Holding
      BY <1>1, <2>1, <3>1 DEF LeftInv, FilesInv, OwnerAt, DeadInv
    <3> QED BY <1>1, <3>2 DEF LeftInv, OverlapInv, ProbeOwner, Holding
  <2>5. ~(ReadClaim(p) /\ pc'[p] = "done")
    BY <2>1, <2>2 DEF ReadClaim, NoClaim, GroupsAt
  <2>6. ~(JudgeClaimant(p) /\ pc'[p] = "done")
    BY <2>1, <2>2 DEF JudgeClaimant, NoClaim, GroupsAt
  <2>7. ~(CleanedUp(p) /\ pc'[p] = "done")
    BY <2>1, <2>2 DEF CleanedUp, AttemptAt
  <2>8. ~(LinkLock(p) /\ pc'[p] = "done")
    BY <2>1, <2>2 DEF LinkLock, AttemptAt
  <2>9. Granted(p) => pc'[p] = "held" /\ claims = {} /\ drafts' = {}
    BY <2>1, <2>2 DEF Granted, AttemptAt
  <2> QED BY <2>3, <2>4, <2>5, <2>6, <2>7, <2>8, <2>9 DEF Refused
<1>2. LeftInv => Served
  BY <1>1
<1>3. LeftInv /\ [Next]_vars => LeftInv'
  BY LeftStep
<1> QED BY <1>2, <1>3, LeftInit, PTL DEF Spec, LoneCallerServed

=============================================================================
