------------------------------- MODULE Mutex -------------------------------
(***************************************************************************)
(* What a review lock promises its callers: a lease is granted only while  *)
(* nobody holds one, and it ends when its holder releases it or ceases to  *)
(* exist.                                                                  *)
(***************************************************************************)
CONSTANT Clients

VARIABLE holders    \* the clients that hold a lease

Init == holders = {}

Grant(p) == holders = {} /\ holders' = {p}

Return(p) == p \in holders /\ holders' = holders \ {p}

Next == \E p \in Clients : Grant(p) \/ Return(p)

Spec == Init /\ [][Next]_holders
=============================================================================
