---------------------------- MODULE MCReviewLock ----------------------------
(* Small instances of ReviewLock for TLC.                                  *)
EXTENDS ReviewLock

CONSTANTS p1, p2, p3, g1
=============================================================================
