---------------------------- MODULE FailureState ----------------------------
(***************************************************************************)
(* The operational failure state of one queued review job: how many of its *)
(* three attempt slots are committed as failures, which slot (if any) is   *)
(* reserved by an attempt under way, and whether the review already ended  *)
(* (the post-review fence).  apps/cli/src/queue/runner.ts computes with    *)
(* these values; apps/cli/src/queue/failure-store.ts persists them.        *)
(*                                                                         *)
(* A missing file, a missing map entry and {committedFailures: 0} are the  *)
(* same value here (EmptyState), because every use in the source gives     *)
(* them the same meaning.  The terminal category, which only selects the   *)
(* wording of the failure comment, is left out; an owner token is a number *)
(* (0 when there is no reservation) in place of a UUID.                    *)
(***************************************************************************)
EXTENDS Naturals

MaxAttempts == 3                         \* MAX_OPERATIONAL_ATTEMPTS

FailureStates == [committed : 0..MaxAttempts,
                  slot      : 0..MaxAttempts,      \* 0: no reservation
                  owner     : Nat,
                  done      : BOOLEAN]             \* reviewCompleted

Committed(n) == [committed |-> n, slot |-> 0, owner |-> 0, done |-> FALSE]

EmptyState == Committed(0)

Reserved(n, o) ==
    [committed |-> n, slot |-> n + 1, owner |-> o, done |-> FALSE]

Completed(n) == [committed |-> n, slot |-> 0, owner |-> 0, done |-> TRUE]

HasReservation(s) == s.slot # 0

(* What the file store accepts on save and on load: isValidState.          *)
ValidState(s) ==
    /\ s \in FailureStates
    /\ HasReservation(s) => s.slot = s.committed + 1 /\ ~s.done
    /\ s.done => s.committed < MaxAttempts

Larger(a, b) == IF a >= b THEN a ELSE b
Smaller(a, b) == IF a <= b THEN a ELSE b

EffectiveAttempt(s) == IF HasReservation(s) THEN s.slot ELSE s.committed

ForgetReservation(s) == IF s.done THEN s ELSE Committed(s.committed)

(* A reservation found later than its own attempt counts as a used slot.   *)
ConsumeReservation(s) ==
    IF s.done \/ ~HasReservation(s) THEN s ELSE Committed(s.slot)

MoreConservative(l, r) ==
    CASE l.done -> l
      [] r.done /\ ~l.done -> r
      [] ~l.done /\ ~r.done ->
            IF \/ EffectiveAttempt(l) > EffectiveAttempt(r)
               \/ /\ EffectiveAttempt(l) = EffectiveAttempt(r)
                  /\ l.committed > r.committed
            THEN l ELSE r

UncappedFailureSlot(observed, floor, known) ==
    Larger(observed, Larger(floor, EffectiveAttempt(known))) + 1

DoubledFailureSlot(observed, floor, known) ==
    Smaller(MaxAttempts,
            Larger(observed, Larger(floor, EffectiveAttempt(known))) + 2)

(* The slot a store operation is charged to when it fails.                 *)
NextFailureSlot(observed, floor, known) ==
    Smaller(MaxAttempts,
            Larger(observed, Larger(floor, EffectiveAttempt(known))) + 1)

ReconciledFromMemory(loaded, known, floor) ==
    Larger(floor, ConsumeReservation(known).committed)

(* What #loadFailureState reconciles the persisted state, the in-memory    *)
(* state and the outage floor to.                                          *)
Reconciled(loaded, known, floor) ==
    Larger(floor, Larger(ConsumeReservation(loaded).committed,
                         ConsumeReservation(known).committed))
=============================================================================
