-------------------------- MODULE ReviewLockProofs --------------------------
(***************************************************************************)
(* Proofs about ReviewLock, for any number of processes, calls and crashes.*)
(*                                                                         *)
(* A lock file is removed either by the process whose lease it is or by a  *)
(* process that reclaims it.  The heart of the argument is that while a    *)
(* lock of a dead owner is in place at most one living process is between  *)
(* its claim and its unlink: it owns the claim of its generation, all      *)
(* earlier generations belong to dead claimants, and no claim on that lock *)
(* is removed before the lock is.  The last fact is what an abort breaks,  *)
(* so the theorems about exclusion assume that no signal fires.            *)
(*                                                                         *)
(* The last part is about a process that meets no other one: what others   *)
(* have left, by ending or by an abort, does not stand in its way.         *)
(***************************************************************************)
EXTENDS ReviewLock, TLAPS

Claiming == {"claim", "readClaim", "judge", "recheck", "unlink"}
Holding == {"held", "relRead", "relUnlink"}

(* Whoever looks for a stale lock has another attempt left.                *)
AttemptsInv ==
    \A p \in Procs : pc[p] \in Claiming \cup {"observe", "probe", "cleanup"} =>
        left[p] > 1

(* Whoever reclaims a lock has seen one ...                                *)
SeenInv ==
    \A p \in Procs : pc[p] \in Claiming \cup {"probe", "cleanup"} =>
        seen[p] \in Owners

(* The type invariant with what makes it inductive.                        *)
TypedInv == TypeInvariant /\ AttemptsInv /\ SeenInv

(* ... and its owner has ended.                                            *)
TargetInv ==
    \A p \in Procs : pc[p] \in Claiming \cup {"cleanup"} =>
        seen[p].proc \notin alive

AliveInv == \A p \in Procs : pc[p] # "dead" => p \in alive

HolderInv == \A p \in Procs : pc[p] \in Holding => lock = Me(p)

(* No two claim files have the same path.                                  *)
UniqueInv ==
    \A c, d \in claims : c.target = d.target /\ c.gen = d.gen => c = d

(* The claim on the lock p observed, of generation g, by claimant o.       *)
Claimed(p, g, o) == [target |-> seen[p], gen |-> g, claimant |-> o] \in claims

GivenUp(p, g) == \E o \in Owners : o.proc \notin alive /\ Claimed(p, g, o)

(* While the lock observed is in place, the generations below one's own    *)
(* belong to dead claimants, the claim that was read is still there, and   *)
(* so is the claim that was taken.                                         *)
EarlierInv ==
    \A p \in Procs : pc[p] \in Claiming /\ lock = seen[p] =>
        \A g \in Nat : g < gen[p] => GivenUp(p, g)

JudgeInv ==
    \A p \in Procs : pc[p] = "judge" /\ lock = seen[p] =>
        Claimed(p, gen[p], rival[p])

OwnClaimInv ==
    \A p \in Procs : pc[p] \in {"recheck", "unlink"} /\ lock = seen[p] =>
        Claimed(p, gen[p], Me(p))

(* The lock that is about to be removed is the one observed, and claims    *)
(* are removed only after their lock.                                      *)
UnlinkInv == \A p \in Procs : pc[p] = "unlink" => lock = seen[p]

CleanupInv == \A p \in Procs : pc[p] = "cleanup" => lock # seen[p]

LockInv ==
    /\ TypedInv
    /\ AliveInv /\ HolderInv /\ TargetInv /\ UniqueInv
    /\ EarlierInv /\ JudgeInv /\ OwnClaimInv /\ UnlinkInv /\ CleanupInv

-----------------------------------------------------------------------------
(* Type correctness: the variables keep their types whatever the signal    *)
(* and the processes do.  The number of attempts left stays a natural      *)
(* number because the last attempt never looks for a stale lock.           *)
LEMMA TypeStep ==
    TypedInv /\ [Next]_vars => TypedInv'
<1> SUFFICES ASSUME TypedInv, [Next]_vars PROVE TypedInv'
  OBVIOUS
<1> USE DEF TypedInv, TypeInvariant, AttemptsInv, SeenInv, Claiming, Attempts, PCs, Goto
<1>1. ASSUME NEW p \in Procs, Acquire(p) PROVE TypedInv'
  BY <1>1 DEF Acquire, claimVars
<1>2. ASSUME NEW p \in Procs, LinkLock(p) PROVE TypedInv'
  BY <1>2 DEF LinkLock, Me, Owners, claimVars
<1>3. ASSUME NEW p \in Procs, Observe(p) PROVE TypedInv'
  BY <1>3 DEF Observe
<1>4. ASSUME NEW p \in Procs, ProbeOwner(p) PROVE TypedInv'
  BY <1>4 DEF ProbeOwner
<1>5. ASSUME NEW p \in Procs, LinkClaim(p) PROVE TypedInv'
  BY <1>5 DEF LinkClaim, Me, Owners, Claims
<1>6. ASSUME NEW p \in Procs, ReadClaim(p) PROVE TypedInv'
  BY <1>6 DEF ReadClaim, Claims, ClaimFile
<1>7. ASSUME NEW p \in Procs, JudgeClaimant(p) PROVE TypedInv'
  BY <1>7 DEF JudgeClaimant
<1>8. ASSUME NEW p \in Procs, Recheck(p) PROVE TypedInv'
  BY <1>8 DEF Recheck
<1>9. ASSUME NEW p \in Procs, UnlinkStale(p) PROVE TypedInv'
  BY <1>9 DEF UnlinkStale
<1>10. ASSUME NEW p \in Procs, UnlinkClaim(p) PROVE TypedInv'
  BY <1>10 DEF UnlinkClaim
<1>11. ASSUME NEW p \in Procs, CleanedUp(p) PROVE TypedInv'
  BY <1>11 DEF CleanedUp, claimVars
<1>12. ASSUME NEW p \in Procs, ReleaseRead(p) PROVE TypedInv'
  BY <1>12 DEF ReleaseRead, claimVars
<1>13. ASSUME NEW p \in Procs, ReleaseUnlink(p) PROVE TypedInv'
  BY <1>13 DEF ReleaseUnlink, claimVars
<1>14. ASSUME NEW p \in Procs, Release(p) PROVE TypedInv'
  BY <1>14 DEF Release, claimVars
<1>15. ASSUME NEW p \in Procs, Abort(p) PROVE TypedInv'
  BY <1>15 DEF Abort
<1>16. ASSUME NEW p \in Procs, Crash(p) PROVE TypedInv'
  BY <1>16 DEF Crash, claimVars
<1>17. CASE UNCHANGED vars
  BY <1>17 DEF vars
<1> QED
  BY <1>1, <1>2, <1>3, <1>4, <1>5, <1>6, <1>7, <1>8,
     <1>9, <1>10, <1>11, <1>12, <1>13, <1>14, <1>15, <1>16, <1>17 DEF Next, Step

(* Every state of the lock is well typed.                                  *)
THEOREM TypeCorrect == Spec => []TypeInvariant
<1>1. Init => TypedInv
  BY ProcsAssumption
     DEF Init, TypedInv, TypeInvariant, AttemptsInv, SeenInv, Claiming, Owners, Claims, PCs, Attempts
<1>2. TypedInv => TypeInvariant
  BY DEF TypedInv
<1> QED
  BY <1>1, <1>2, TypeStep, PTL DEF Spec

-----------------------------------------------------------------------------
(* At most one process is between its claim and its unlink while the lock  *)
(* it observed is in place.                                                *)
LEMMA Exclusive ==
    ASSUME LockInv,
           NEW p \in Procs, pc[p] \in {"recheck", "unlink"}, lock = seen[p],
           NEW q \in Procs, pc[q] \in {"recheck", "unlink"}, lock = seen[q]
    PROVE  p = q
<1>1. Claimed(p, gen[p], Me(p)) /\ Claimed(q, gen[q], Me(q))
  BY DEF LockInv, OwnClaimInv
<1>2. gen[p] \in Nat /\ gen[q] \in Nat
  BY DEF LockInv, TypedInv, TypeInvariant
<1>3. p \in alive /\ q \in alive
  BY DEF LockInv, AliveInv
<1>4. \A g \in Nat, o, r \in Owners :
        [target |-> lock, gen |-> g, claimant |-> o] \in claims
        /\ [target |-> lock, gen |-> g, claimant |-> r] \in claims => o = r
  BY DEF LockInv, UniqueInv
<1>5. Me(p) \in Owners /\ Me(q) \in Owners
  BY DEF LockInv, TypedInv, TypeInvariant, Me, Owners
<1>6. ASSUME gen[p] = gen[q] PROVE p = q
  <2>1. Me(p) = Me(q)
    BY <1>1, <1>2, <1>4, <1>5, <1>6 DEF Claimed
  <2> QED BY <2>1 DEF Me
<1>7. ~(gen[p] < gen[q])
  <2> SUFFICES ASSUME gen[p] < gen[q] PROVE FALSE
    OBVIOUS
  <2>1. PICK o \in Owners : o.proc \notin alive /\ Claimed(q, gen[p], o)
    BY <1>2 DEF LockInv, EarlierInv, GivenUp, Claiming
  <2>2. o = Me(p)
    BY <1>1, <1>2, <1>4, <1>5, <2>1 DEF Claimed
  <2> QED BY <1>3, <2>1, <2>2 DEF Me
<1>8. ~(gen[q] < gen[p])
  <2> SUFFICES ASSUME gen[q] < gen[p] PROVE FALSE
    OBVIOUS
  <2>1. PICK o \in Owners : o.proc \notin alive /\ Claimed(p, gen[q], o)
    BY <1>2 DEF LockInv, EarlierInv, GivenUp, Claiming
  <2>2. o = Me(q)
    BY <1>1, <1>2, <1>4, <1>5, <2>1 DEF Claimed
  <2> QED BY <1>3, <2>1, <2>2 DEF Me
<1> QED BY <1>2, <1>6, <1>7, <1>8

(* The claims on the lock that is in place survive every step without an   *)
(* abort, and nobody comes back to life.                                   *)
LEMMA ClaimsStay ==
    ASSUME LockInv, ~MayAbort, [Next]_vars
    PROVE  /\ alive' \subseteq alive
           /\ \A c \in claims : c.target = lock => c \in claims'
<1> USE DEF LockInv
<1>1. ASSUME NEW p \in Procs, UnlinkClaim(p) PROVE \A c \in claims : c.target = lock => c \in claims'
  BY <1>1 DEF UnlinkClaim, CleanupInv, ClaimFile
<1>2. ASSUME NEW p \in Procs, LinkClaim(p) PROVE claims \subseteq claims'
  BY <1>2 DEF LinkClaim
<1>3. ASSUME NEW p \in Procs, UnlinkClaim(p) PROVE alive' = alive
  BY <1>3 DEF UnlinkClaim
<1>4. ASSUME NEW p \in Procs, LinkClaim(p) PROVE alive' = alive
  BY <1>4 DEF LinkClaim
<1>5. CASE UNCHANGED vars
  BY <1>5 DEF vars
<1> QED
  BY <1>1, <1>2, <1>3, <1>4, <1>5
     DEF Next, Step, Acquire, LinkLock, Observe, ProbeOwner, ReadClaim,
         JudgeClaimant, Recheck, UnlinkStale, CleanedUp, ReleaseRead,
         ReleaseUnlink, Release, Abort, Crash

(* The inductive step: every action but Abort preserves the invariant.     *)
LEMMA LockStep ==
    ASSUME LockInv, ~MayAbort, [Next]_vars
    PROVE  LockInv'
<1>1. TypedInv'
  BY TypeStep DEF LockInv
<1>2. alive' \subseteq alive /\ \A c \in claims : c.target = lock => c \in claims'
  BY ClaimsStay
<1>3. NoProc \notin alive /\ NoFile \notin Owners
  BY ProcsAssumption DEF LockInv, TypedInv, TypeInvariant, NoFile, Owners
<1>4. \A q \in Procs, g \in Nat :
        pc[q] \in Claiming /\ lock = seen[q] /\ seen'[q] = seen[q] /\ g < gen[q]
        => GivenUp(q, g)'
  BY <1>2 DEF LockInv, EarlierInv, GivenUp, Claimed
<1> USE <1>1, <1>2, <1>3
    DEF TypedInv, TypeInvariant, SeenInv, Claiming, Holding, Goto, Me,
        LockInv, AliveInv, HolderInv, TargetInv, UniqueInv, EarlierInv, JudgeInv,
        OwnClaimInv, UnlinkInv, CleanupInv
<1>5. ASSUME NEW p \in Procs, Acquire(p) PROVE LockInv'
  <2>1. AliveInv' /\ HolderInv' /\ TargetInv' /\ UniqueInv'
         /\ JudgeInv' /\ OwnClaimInv' /\ UnlinkInv' /\ CleanupInv'
    BY <1>5 DEF Acquire, claimVars, Claimed
  <2>2. EarlierInv'
    BY <1>4, <1>5 DEF Acquire, claimVars
  <2> QED BY <2>1, <2>2
<1>6. ASSUME NEW p \in Procs, LinkLock(p) PROVE LockInv'
  <2>1. AliveInv' /\ TargetInv' /\ UniqueInv'
    BY <1>6 DEF LinkLock, claimVars, Claimed
  <2>2. HolderInv'
    BY <1>6, ProcsAssumption DEF LinkLock, claimVars, NoFile
  <2>3. lock' = lock \/ \A q \in Procs : pc'[q] \in Claiming \cup {"cleanup"} => lock' # seen'[q]
    BY <1>6 DEF LinkLock, claimVars
  <2>4. EarlierInv' /\ JudgeInv' /\ OwnClaimInv'
    BY <1>4, <1>6, <2>3 DEF LinkLock, claimVars, Claimed
  <2>5. UnlinkInv' /\ CleanupInv'
    BY <1>6 DEF LinkLock, claimVars
  <2> QED BY <2>1, <2>2, <2>3, <2>4, <2>5
<1>7. ASSUME NEW p \in Procs, Observe(p) PROVE LockInv'
  <2>1. AliveInv' /\ HolderInv' /\ TargetInv' /\ UniqueInv'
         /\ JudgeInv' /\ OwnClaimInv' /\ UnlinkInv' /\ CleanupInv'
    BY <1>7 DEF Observe, Claimed
  <2>2. EarlierInv'
    BY <1>4, <1>7 DEF Observe
  <2> QED BY <2>1, <2>2
<1>8. ASSUME NEW p \in Procs, ProbeOwner(p) PROVE LockInv'
  <2>1. AliveInv' /\ HolderInv' /\ UniqueInv' /\ JudgeInv'
         /\ OwnClaimInv' /\ UnlinkInv' /\ CleanupInv'
    BY <1>8 DEF ProbeOwner, Claimed
  <2>2. EarlierInv'
    BY <1>4, <1>8 DEF ProbeOwner
  <2>3. TargetInv'
    BY <1>8 DEF ProbeOwner, IsOwnerAlive
  <2> QED BY <2>1, <2>2, <2>3
<1>9. ASSUME NEW p \in Procs, LinkClaim(p) PROVE LockInv'
  <2>1. AliveInv' /\ HolderInv' /\ TargetInv' /\ JudgeInv'
         /\ OwnClaimInv' /\ UnlinkInv' /\ CleanupInv'
    BY <1>9 DEF LinkClaim, Claimed
  <2>2. EarlierInv'
    BY <1>4, <1>9 DEF LinkClaim
  <2>3. UniqueInv'
    BY <1>9 DEF LinkClaim, ClaimFile
  <2> QED BY <2>1, <2>2, <2>3
<1>10. ASSUME NEW p \in Procs, ReadClaim(p) PROVE LockInv'
  <2>1. AliveInv' /\ HolderInv' /\ TargetInv' /\ UniqueInv'
         /\ OwnClaimInv' /\ UnlinkInv' /\ CleanupInv'
    BY <1>10 DEF ReadClaim, Claimed
  <2>2. EarlierInv'
    BY <1>4, <1>10 DEF ReadClaim
  <2>3. JudgeInv'
    BY <1>10 DEF ReadClaim, ClaimFile, Claims, Claimed
  <2> QED BY <2>1, <2>2, <2>3
<1>11. ASSUME NEW p \in Procs, JudgeClaimant(p) PROVE LockInv'
  <2>1. AliveInv' /\ HolderInv' /\ TargetInv' /\ UniqueInv'
         /\ JudgeInv' /\ OwnClaimInv' /\ UnlinkInv' /\ CleanupInv'
    BY <1>11 DEF JudgeClaimant, Claimed
  <2>2. EarlierInv'
    <3>1. pc'[p] = "claim" => rival[p].proc \notin alive /\ gen'[p] = gen[p] + 1
      BY <1>11 DEF JudgeClaimant, IsOwnerAlive, PCs
    <3>2. lock = seen[p] => Claimed(p, gen[p], rival[p]) /\ rival[p] \in Owners
      BY <1>11 DEF JudgeClaimant, Claimed, Claims
    <3>3. \A g \in Nat :
            lock = seen[p] /\ pc'[p] = "claim" /\ g = gen[p] => GivenUp(p, g)'
      BY <1>11, <3>1, <3>2 DEF JudgeClaimant, GivenUp, Claimed
    <3>4. \A g \in Nat : g < gen[p] + 1 => g < gen[p] \/ g = gen[p]
      OBVIOUS
    <3>5. pc'[p] \in Claiming => pc'[p] = "claim"
      BY <1>11 DEF JudgeClaimant, PCs
    <3>6. \A q \in Procs : q # p => pc'[q] = pc[q] /\ gen'[q] = gen[q]
      BY <1>11 DEF JudgeClaimant
    <3>7. lock' = lock /\ seen' = seen /\ pc[p] \in Claiming
      BY <1>11 DEF JudgeClaimant
    <3> QED
      <4> SUFFICES ASSUME NEW q \in Procs, pc'[q] \in Claiming, lock' = seen'[q],
                          NEW g \in Nat, g < gen'[q]
                   PROVE  GivenUp(q, g)'
        BY Zenon DEF EarlierInv
      <4>1. CASE q # p
        BY <1>4, <3>6, <3>7, <4>1
      <4>2. CASE q = p
        BY <1>4, <3>1, <3>3, <3>4, <3>5, <3>7, <4>2
      <4> QED BY <4>1, <4>2
  <2> QED BY <2>1, <2>2
<1>12. ASSUME NEW p \in Procs, Recheck(p) PROVE LockInv'
  <2>1. AliveInv' /\ HolderInv' /\ TargetInv' /\ UniqueInv'
         /\ JudgeInv' /\ OwnClaimInv' /\ UnlinkInv' /\ CleanupInv'
    BY <1>12 DEF Recheck, Claimed
  <2>2. EarlierInv'
    BY <1>4, <1>12 DEF Recheck
  <2> QED BY <2>1, <2>2
<1>13. ASSUME NEW p \in Procs, UnlinkStale(p) PROVE LockInv'
  <2>1. AliveInv' /\ HolderInv' /\ TargetInv' /\ UniqueInv'
    BY <1>13 DEF UnlinkStale, Claimed
  <2>2. \A q \in Procs : pc[q] \in Claiming \cup {"cleanup"} => lock' # seen'[q]
    BY <1>13 DEF UnlinkStale
  <2>3. EarlierInv' /\ JudgeInv' /\ OwnClaimInv' /\ CleanupInv'
    BY <1>13, <2>2 DEF UnlinkStale
  <2>4. UnlinkInv'
    <3>1. \A q \in Procs : pc[q] = "unlink" => q = p
      BY <1>13, Exclusive DEF UnlinkStale
    <3> QED BY <1>13, <3>1 DEF UnlinkStale
  <2> QED BY <2>1, <2>2, <2>3, <2>4
<1>14. ASSUME NEW p \in Procs, UnlinkClaim(p) PROVE LockInv'
  <2>1. AliveInv' /\ HolderInv' /\ TargetInv' /\ UniqueInv'
         /\ JudgeInv' /\ OwnClaimInv' /\ UnlinkInv' /\ CleanupInv'
    BY <1>14 DEF UnlinkClaim, Claimed
  <2>2. EarlierInv'
    BY <1>4, <1>14 DEF UnlinkClaim
  <2> QED BY <2>1, <2>2
<1>15. ASSUME NEW p \in Procs, CleanedUp(p) PROVE LockInv'
  <2>1. AliveInv' /\ HolderInv' /\ TargetInv' /\ UniqueInv'
         /\ JudgeInv' /\ OwnClaimInv' /\ UnlinkInv' /\ CleanupInv'
    BY <1>15 DEF CleanedUp, claimVars, Claimed
  <2>2. EarlierInv'
    BY <1>4, <1>15 DEF CleanedUp, claimVars
  <2> QED BY <2>1, <2>2
<1>16. ASSUME NEW p \in Procs, ReleaseRead(p) PROVE LockInv'
  <2>1. AliveInv' /\ HolderInv' /\ TargetInv' /\ UniqueInv'
         /\ JudgeInv' /\ OwnClaimInv' /\ UnlinkInv' /\ CleanupInv'
    BY <1>16 DEF ReleaseRead, claimVars, Claimed
  <2>2. EarlierInv'
    BY <1>4, <1>16 DEF ReleaseRead, claimVars
  <2> QED BY <2>1, <2>2
<1>17. ASSUME NEW p \in Procs, ReleaseUnlink(p) PROVE LockInv'
  <2>1. AliveInv' /\ HolderInv' /\ TargetInv' /\ UniqueInv'
         /\ UnlinkInv'
    BY <1>17 DEF ReleaseUnlink, claimVars, Claimed
  <2>2. \A q \in Procs : pc[q] \in Claiming \cup {"cleanup"} => lock' # seen'[q]
    BY <1>17 DEF ReleaseUnlink, claimVars
  <2>3. EarlierInv' /\ JudgeInv' /\ OwnClaimInv' /\ CleanupInv'
    BY <1>17, <2>2 DEF ReleaseUnlink, claimVars
  <2> QED BY <2>1, <2>2, <2>3
<1>18. ASSUME NEW p \in Procs, Release(p) PROVE LockInv'
  <2>1. AliveInv' /\ HolderInv' /\ TargetInv' /\ UniqueInv'
         /\ JudgeInv' /\ OwnClaimInv' /\ UnlinkInv' /\ CleanupInv'
    BY <1>18 DEF Release, claimVars, Claimed
  <2>2. EarlierInv'
    BY <1>4, <1>18 DEF Release, claimVars
  <2> QED BY <2>1, <2>2
<1>19. ASSUME NEW p \in Procs, Crash(p) PROVE LockInv'
  <2>1. AliveInv' /\ HolderInv' /\ TargetInv' /\ UniqueInv'
         /\ JudgeInv' /\ OwnClaimInv' /\ UnlinkInv' /\ CleanupInv'
    BY <1>19 DEF Crash, claimVars, Claimed
  <2>2. EarlierInv'
    BY <1>4, <1>19 DEF Crash, claimVars
  <2> QED BY <2>1, <2>2
<1>20. ASSUME UNCHANGED vars PROVE LockInv'
  <2>1. AliveInv' /\ HolderInv' /\ TargetInv' /\ UniqueInv' /\ JudgeInv'
         /\ OwnClaimInv' /\ UnlinkInv' /\ CleanupInv'
    BY <1>20 DEF vars, Claimed
  <2>2. EarlierInv'
    BY <1>4, <1>20 DEF vars
  <2> QED BY <2>1, <2>2
<1> QED
  BY <1>5, <1>6, <1>7, <1>8, <1>9, <1>10, <1>11, <1>12,
     <1>13, <1>14, <1>15, <1>16, <1>17, <1>18, <1>19, <1>20 DEF Next, Step, Abort

(* The invariant holds while no process has called acquire.                *)
LEMMA LockInit == Init => LockInv
<1> SUFFICES ASSUME Init PROVE LockInv
  OBVIOUS
<1>1. TypedInv
  BY ProcsAssumption
     DEF Init, TypedInv, TypeInvariant, AttemptsInv, SeenInv, Claiming, Owners,
         Claims, PCs, Attempts
<1>2. AliveInv /\ HolderInv /\ TargetInv /\ EarlierInv /\ JudgeInv /\ OwnClaimInv
      /\ UnlinkInv /\ CleanupInv
  BY DEF Init, AliveInv, HolderInv, TargetInv, EarlierInv, JudgeInv, OwnClaimInv,
         UnlinkInv, CleanupInv, Claiming, Holding
<1>3. UniqueInv
  BY DEF Init, UniqueInv
<1> QED BY <1>1, <1>2, <1>3 DEF LockInv

-----------------------------------------------------------------------------
(* If no reclaim is aborted, the invariant holds in every reachable state. *)
LEMMA Invariance == ASSUME ~MayAbort PROVE Spec => []LockInv
<1>1. LockInv /\ [Next]_vars => LockInv'
  BY LockStep
<1> QED BY <1>1, LockInit, PTL DEF Spec

(* While a lease is held, the lock file is its holder's: neither a release *)
(* nor a reclaiming process ever removes the lock of a living process.     *)
THEOREM LeaseIsKept == ASSUME ~MayAbort PROVE Spec => []LeaseKept
<1>1. LockInv => LeaseKept
  BY DEF LockInv, HolderInv, Holding, LeaseKept
<1> QED BY <1>1, Invariance, PTL

(* Two processes never hold the lease at once, so a manual review and the  *)
(* daemon never publish concurrently.                                      *)
THEOREM Exclusion == ASSUME ~MayAbort PROVE Spec => []MutualExclusion
<1>1. LockInv => MutualExclusion
  BY DEF LockInv, HolderInv, Holding, MutualExclusion, Me
<1> QED BY <1>1, Invariance, PTL

(* The lock implements the abstract one: acquiring a free lock file is a   *)
(* grant to nobody's loss, releasing a lease and ending with one give it   *)
(* back, and every other step, the whole of a reclamation included, leaves *)
(* the abstract state alone.                                               *)
THEOREM Refinement == ASSUME ~MayAbort PROVE Spec => ImplementsMutex
<1> DEFINE H == {p \in Procs : pc[p] = "held"}
<1>1. Init => H = {}
  BY DEF Init
<1>2. ASSUME LockInv, [Next]_vars
      PROVE  H' = H \/ \E p \in Procs : \/ H = {} /\ H' = {p}
                                        \/ p \in H /\ H' = H \ {p}
  <2> USE DEF Goto
  <2>1. pc \in [Procs -> PCs]
    BY <1>2 DEF LockInv, TypedInv, TypeInvariant
  <2>2. ASSUME NEW p \in Procs, LinkLock(p)
        PROVE  H' = H \/ (H = {} /\ H' = {p})
    <3>1. CASE lock = NoFile
      <4>1. H = {}
        BY <1>2, <3>1, ProcsAssumption DEF LockInv, HolderInv, Holding, Me, NoFile
      <4>2. H' = {p}
        BY <2>1, <2>2, <3>1, <4>1 DEF LinkLock
      <4> QED BY <4>1, <4>2
    <3>2. CASE lock # NoFile
      BY <2>1, <2>2, <3>2 DEF LinkLock
    <3> QED BY <3>1, <3>2
  <2>3. ASSUME NEW p \in Procs, Release(p) \/ Crash(p)
        PROVE  H' = H \/ (p \in H /\ H' = H \ {p})
    BY <2>1, <2>3 DEF Release, Crash
  <2>4. ASSUME NEW p \in Procs,
               \/ Acquire(p) \/ Observe(p) \/ ProbeOwner(p)
               \/ LinkClaim(p) \/ ReadClaim(p) \/ JudgeClaimant(p)
        PROVE  H' = H
    BY <2>1, <2>4 DEF Acquire, Observe, ProbeOwner, LinkClaim, ReadClaim, JudgeClaimant
  <2>5. ASSUME NEW p \in Procs,
               \/ Recheck(p) \/ UnlinkStale(p) \/ UnlinkClaim(p) \/ CleanedUp(p)
               \/ ReleaseRead(p) \/ ReleaseUnlink(p) \/ Abort(p)
        PROVE  H' = H
    BY <2>1, <2>5
       DEF Recheck, UnlinkStale, UnlinkClaim, CleanedUp, ReleaseRead, ReleaseUnlink, Abort
  <2>6. CASE UNCHANGED vars
    BY <2>6 DEF vars
  <2> QED BY <1>2, <2>2, <2>3, <2>4, <2>5, <2>6 DEF Next, Step
<1>3. Init => Lock!Init
  BY <1>1 DEF Lock!Init
<1>4. LockInv /\ [Next]_vars => [Lock!Next]_H
  BY <1>2 DEF Lock!Next, Lock!Grant, Lock!Return
<1> QED BY <1>3, <1>4, Invariance, PTL DEF Spec, ImplementsMutex, Lock!Spec

-----------------------------------------------------------------------------
(* The lone caller.  Here no signal and no crash is ruled out.             *)

(* The history variable names every process that is active along with p.   *)
OverlapInv ==
    \A p, q \in Procs : p # q /\ Active(p) /\ Active(q) => q \in overlap[p]

LivingInv == \A p \in Procs : p \in alive <=> pc[p] # "dead"

(* The lock of a process that lives is that of its lease, and its claim    *)
(* one that it is about to use or to remove: nobody leaves a lock or a     *)
(* claim behind but by ending.                                             *)
OwnerInv ==
    \A p \in Procs : lock.proc = p /\ pc[p] # "dead" =>
        lock = Me(p) /\ pc[p] \in Holding

ClaimantInv ==
    \A c \in claims, p \in Procs : c.claimant.proc = p /\ pc[p] # "dead" =>
        /\ pc[p] \in {"recheck", "unlink", "cleanup"}
        /\ c.target = seen[p] /\ c.gen \in paths[p]

(* The lock a lone caller looks at stays as it is until it removes it, the *)
(* claimant in its way has ended, and its next attempt finds no lock.      *)
LoneAt(p) ==
    /\ pc[p] = "link" => left[p] = Attempts \/ lock = NoFile
    /\ pc[p] \in Claiming \cup {"probe"} => lock = seen[p]
    /\ pc[p] = "judge" => rival[p].proc \notin alive
    /\ pc[p] = "cleanup" =>
          outcome[p] = "abort" \/ (outcome[p] = "retry" /\ lock = NoFile)

LoneInv == \A p \in Procs : Active(p) /\ overlap[p] = {} => LoneAt(p)

LeftInv ==
    TypedInv /\ OverlapInv /\ LivingInv /\ OwnerInv /\ ClaimantInv /\ LoneInv

(* Where the steps of a call, of a lease and of the signal begin and end:  *)
(* every process is active before one of them, none becomes active by it,  *)
(* and the history is what it was.                                         *)
LEMMA Steady ==
    ASSUME LeftInv, NEW p \in Procs, Step(p) \/ Release(p) \/ Abort(p)
    PROVE  /\ Active(p)
           /\ \A q \in Procs \ {p} : pc'[q] = pc[q]
           /\ pc'[p] # "dead"
           /\ overlap' = overlap /\ alive' = alive /\ TypedInv'
<1>1. TypedInv'
  BY TypeStep DEF LeftInv, Next
<1> QED
  BY <1>1 DEF LeftInv, TypedInv, TypeInvariant, Step, LinkLock, Observe, ProbeOwner,
     LinkClaim, ReadClaim, JudgeClaimant, Recheck, UnlinkStale, UnlinkClaim, CleanedUp,
     ReleaseRead, ReleaseUnlink, Release, Abort, Goto, Active, PCs

(* What such a step has to show, since everybody else is either idle or    *)
(* not alone.                                                              *)
LEMMA SteadyStep ==
    ASSUME LeftInv, NEW p \in Procs, Step(p) \/ Release(p) \/ Abort(p),
           OwnerInv', ClaimantInv',
           Active(p)' /\ overlap[p] = {} => LoneAt(p)'
    PROVE  LeftInv'
<1> USE Steady
<1>1. OverlapInv' /\ LivingInv'
  BY DEF LeftInv, OverlapInv, LivingInv, Active
<1>2. ASSUME NEW q \in Procs, Active(q)', overlap'[q] = {} PROVE LoneAt(q)'
  <2>1. q = p
    BY <1>2 DEF LeftInv, OverlapInv, Active
  <2> QED BY <1>2, <2>1
<1> QED BY <1>1, <1>2 DEF LeftInv, LoneInv

(* The inductive step.                                                     *)
LEMMA LeftStep ==
    ASSUME LeftInv, [Next]_vars
    PROVE  LeftInv'
<1>1. TypedInv'
  BY TypeStep DEF LeftInv
<1>2. NoProc \notin Procs /\ NoFile \notin Owners
  BY ProcsAssumption DEF NoFile, Owners
<1> USE <1>2 DEF TypedInv, TypeInvariant, SeenInv, Claiming, Holding, Goto, Me, LeftInv,
        OwnerInv, ClaimantInv
<1>3. ASSUME NEW p \in Procs, Acquire(p) PROVE LeftInv'
  <2>1. OwnerInv' /\ LivingInv' /\ ClaimantInv'
    BY <1>1, <1>3 DEF Acquire, claimVars, LivingInv
  <2>2. OverlapInv'
    BY <1>1, <1>3 DEF Acquire, OverlapInv, Active
  <2>3. ASSUME NEW q \in Procs, Active(q)', overlap'[q] = {} PROVE LoneAt(q)'
    <3>1. q = p
      BY <1>3, <2>3 DEF Acquire, Active
    <3> QED BY <1>1, <1>3, <3>1 DEF Acquire, LoneAt
  <2> QED BY <1>1, <2>1, <2>2, <2>3 DEF LoneInv
<1>4. ASSUME NEW p \in Procs, Crash(p) PROVE LeftInv'
  <2>1. OwnerInv' /\ LivingInv' /\ ClaimantInv' /\ OverlapInv'
    BY <1>1, <1>4 DEF Crash, claimVars, LivingInv, OverlapInv, Active
  <2>2. LoneInv'
    BY <1>1, <1>4 DEF Crash, claimVars, LoneInv, LoneAt, Active
  <2> QED BY <1>1, <2>1, <2>2
<1>5. ASSUME NEW p \in Procs, LinkLock(p) PROVE LeftInv'
  <2>1. OwnerInv' /\ ClaimantInv'
    BY <1>1, <1>5 DEF LinkLock, claimVars, NoFile
  <2>2. LoneAt(p)'
    BY <1>1, <1>5 DEF LinkLock, claimVars, LoneAt
  <2> QED BY <1>5, <2>1, <2>2, SteadyStep DEF Step
<1>6. ASSUME NEW p \in Procs, Observe(p) PROVE LeftInv'
  <2>1. OwnerInv' /\ ClaimantInv'
    BY <1>1, <1>6 DEF Observe, NoFile
  <2>2. LoneAt(p)'
    BY <1>1, <1>6 DEF Observe, LoneAt
  <2> QED BY <1>6, <2>1, <2>2, SteadyStep DEF Step
<1>7. ASSUME NEW p \in Procs, ProbeOwner(p) PROVE LeftInv'
  <2>1. OwnerInv' /\ ClaimantInv'
    BY <1>1, <1>7 DEF ProbeOwner
  <2>2. Active(p) /\ overlap[p] = {} => LoneAt(p)'
    BY <1>1, <1>7 DEF ProbeOwner, LoneAt, LoneInv
  <2> QED BY <1>7, <2>1, <2>2, Steady, SteadyStep DEF Step
<1>8. ASSUME NEW p \in Procs, LinkClaim(p) PROVE LeftInv'
  <2>1. OwnerInv'
    BY <1>1, <1>8 DEF LinkClaim
  <2>2. ClaimantInv'
    BY <1>1, <1>8 DEF LinkClaim
  <2>3. Active(p) /\ overlap[p] = {} => LoneAt(p)'
    BY <1>1, <1>8 DEF LinkClaim, LoneAt, LoneInv
  <2> QED BY <1>8, <2>1, <2>2, <2>3, Steady, SteadyStep DEF Step
<1>9. ASSUME NEW p \in Procs, ReadClaim(p) PROVE LeftInv'
  <2>1. OwnerInv' /\ ClaimantInv'
    BY <1>1, <1>9 DEF ReadClaim
  <2>2. ASSUME Active(p), overlap[p] = {}, pc'[p] = "judge" PROVE rival'[p].proc \notin alive
    <3>1. PICK c \in ClaimFile(seen[p], gen[p]) : rival' = [rival EXCEPT ![p] = c.claimant]
      BY <1>9, <2>2 DEF ReadClaim
    <3>2. c \in claims /\ rival'[p] = c.claimant
      BY <3>1 DEF ClaimFile
    <3>3. ASSUME NEW q \in Procs, q = c.claimant.proc, q \in alive PROVE FALSE
      <4>1. pc[q] \in {"recheck", "unlink", "cleanup"}
        BY <3>2, <3>3 DEF LivingInv
      <4>2. q # p
        BY <1>9, <4>1 DEF ReadClaim
      <4> QED BY <2>2, <4>1, <4>2 DEF OverlapInv, Active
    <3> QED BY <3>2, <3>3
  <2>3. Active(p) /\ overlap[p] = {} => LoneAt(p)'
    BY <1>1, <1>9, <2>2 DEF ReadClaim, LoneAt, LoneInv
  <2> QED BY <1>9, <2>1, <2>3, Steady, SteadyStep DEF Step
<1>10. ASSUME NEW p \in Procs, JudgeClaimant(p) PROVE LeftInv'
  <2>1. OwnerInv' /\ ClaimantInv'
    BY <1>1, <1>10 DEF JudgeClaimant
  <2>2. Active(p) /\ overlap[p] = {} => LoneAt(p)'
    BY <1>1, <1>10 DEF JudgeClaimant, LoneAt, LoneInv
  <2> QED BY <1>10, <2>1, <2>2, Steady, SteadyStep DEF Step
<1>11. ASSUME NEW p \in Procs, Recheck(p) PROVE LeftInv'
  <2>1. OwnerInv' /\ ClaimantInv'
    BY <1>1, <1>11 DEF Recheck
  <2>2. Active(p) /\ overlap[p] = {} => LoneAt(p)'
    BY <1>1, <1>11 DEF Recheck, LoneAt, LoneInv
  <2> QED BY <1>11, <2>1, <2>2, Steady, SteadyStep DEF Step
<1>12. ASSUME NEW p \in Procs, UnlinkStale(p) PROVE LeftInv'
  <2>1. OwnerInv' /\ ClaimantInv'
    BY <1>1, <1>12 DEF UnlinkStale, NoFile
  <2>2. LoneAt(p)'
    BY <1>1, <1>12 DEF UnlinkStale, LoneAt
  <2> QED BY <1>12, <2>1, <2>2, SteadyStep DEF Step
<1>13. ASSUME NEW p \in Procs, UnlinkClaim(p) PROVE LeftInv'
  <2>1. OwnerInv' /\ ClaimantInv'
    BY <1>1, <1>13 DEF UnlinkClaim, ClaimFile
  <2>2. Active(p) /\ overlap[p] = {} => LoneAt(p)'
    BY <1>1, <1>13 DEF UnlinkClaim, LoneAt, LoneInv
  <2> QED BY <1>13, <2>1, <2>2, Steady, SteadyStep DEF Step
<1>14. ASSUME NEW p \in Procs, CleanedUp(p) PROVE LeftInv'
  <2>1. OwnerInv' /\ ClaimantInv'
    BY <1>1, <1>14 DEF CleanedUp, claimVars
  <2>2. Active(p) /\ overlap[p] = {} => LoneAt(p)'
    BY <1>1, <1>14 DEF CleanedUp, claimVars, LoneAt, LoneInv
  <2> QED BY <1>14, <2>1, <2>2, Steady, SteadyStep DEF Step
<1>15. ASSUME NEW p \in Procs, ReleaseRead(p) \/ Release(p) PROVE LeftInv'
  <2>1. OwnerInv' /\ ClaimantInv'
    BY <1>1, <1>15 DEF ReleaseRead, Release, claimVars
  <2>2. LoneAt(p)'
    BY <1>1, <1>15 DEF ReleaseRead, Release, LoneAt
  <2> QED BY <1>15, <2>1, <2>2, SteadyStep DEF Step
<1>16. ASSUME NEW p \in Procs, ReleaseUnlink(p) PROVE LeftInv'
  <2>1. OwnerInv' /\ ClaimantInv'
    BY <1>1, <1>16 DEF ReleaseUnlink, claimVars, NoFile
  <2>2. LoneAt(p)'
    BY <1>1, <1>16 DEF ReleaseUnlink, LoneAt
  <2> QED BY <1>16, <2>1, <2>2, SteadyStep DEF Step
<1>17. ASSUME NEW p \in Procs, Abort(p) PROVE LeftInv'
  <2>1. OwnerInv' /\ ClaimantInv'
    BY <1>1, <1>17 DEF Abort
  <2>2. LoneAt(p)' \/ ~Active(p)'
    BY <1>1, <1>17 DEF Abort, LoneAt, Active
  <2> QED BY <1>17, <2>1, <2>2, SteadyStep
<1>18. CASE UNCHANGED vars
  <2>1. LivingInv' /\ OverlapInv' /\ OwnerInv' /\ ClaimantInv'
    BY <1>18 DEF vars, LivingInv, OverlapInv, Active
  <2>2. LoneInv'
    BY <1>18 DEF vars, LoneInv, LoneAt, Active
  <2> QED BY <1>1, <2>1, <2>2
<1> QED
  BY <1>3, <1>4, <1>5, <1>6, <1>7, <1>8, <1>9, <1>10, <1>11, <1>12,
     <1>13, <1>14, <1>15, <1>16, <1>17, <1>18 DEF Next, Step

(* It holds while no process has called acquire.                           *)
LEMMA LeftInit == Init => LeftInv
<1> SUFFICES ASSUME Init PROVE LeftInv
  OBVIOUS
<1>1. TypedInv
  BY ProcsAssumption
     DEF Init, TypedInv, TypeInvariant, AttemptsInv, SeenInv, Claiming, Owners,
         Claims, PCs, Attempts
<1>2. OverlapInv /\ LivingInv /\ LoneInv
  BY DEF Init, OverlapInv, LivingInv, LoneInv, Active
<1>3. OwnerInv /\ ClaimantInv
  BY ProcsAssumption DEF Init, OwnerInv, ClaimantInv, NoFile
<1> QED BY <1>1, <1>2, <1>3 DEF LeftInv

(* A call that met no other active process is never refused, whatever      *)
(* processes that ended, were aborted or gave up before it have left, and  *)
(* although it gives up after three attempts.                              *)
THEOREM LoneCallers == Spec => LoneCallerNotRefused
<1>1. ASSUME LeftInv, [Next]_vars, NEW p \in Procs, Refused(p) PROVE overlap[p] # {}
  <2> SUFFICES ASSUME overlap[p] = {} PROVE FALSE
    OBVIOUS
  <2>1. pc \in [Procs -> PCs] /\ alive \subseteq Procs /\ seen \in [Procs -> Owners \cup {NoFile}]
    BY <1>1 DEF LeftInv, TypedInv, TypeInvariant
  <2>2. \A q \in Procs : q # p => ~Active(q) \/ ~Active(p)
    BY <1>1 DEF LeftInv, OverlapInv
  <2>3. Active(p) => LoneAt(p)
    BY <1>1 DEF LeftInv, LoneInv
  <2>4. CASE LinkLock(p)
    BY <1>1, <2>1, <2>3, <2>4 DEF Refused, LinkLock, Goto, LoneAt, Active, Attempts
  <2>5. CASE ProbeOwner(p)
    <3>1. lock = seen[p] /\ seen[p].proc \in alive
      BY <1>1, <2>1, <2>3, <2>5 DEF ProbeOwner, Refused, Goto, LoneAt, Active, IsOwnerAlive
    <3>2. pc[lock.proc] \in Holding /\ lock.proc \in Procs
      BY <1>1, <2>1, <3>1 DEF LeftInv, OwnerInv, LivingInv
    <3> QED BY <2>2, <2>5, <3>2 DEF ProbeOwner, Active, Holding
  <2>6. CASE JudgeClaimant(p)
    BY <1>1, <2>1, <2>3, <2>6 DEF JudgeClaimant, Refused, Goto, LoneAt, Active, IsOwnerAlive
  <2>7. CASE CleanedUp(p) /\ outcome[p] = "refuse"
    BY <2>3, <2>7 DEF CleanedUp, LoneAt, Active
  <2> QED BY <1>1, <2>4, <2>5, <2>6, <2>7 DEF Refused
<1>2. LeftInv /\ [Next]_vars => [\A p \in Procs : Refused(p) => overlap[p] # {}]_vars
  BY <1>1
<1>3. LeftInv /\ [Next]_vars => LeftInv'
  BY LeftStep
<1> QED BY <1>2, <1>3, LeftInit, PTL DEF Spec, LoneCallerNotRefused

=============================================================================
