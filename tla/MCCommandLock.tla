--------------------------- MODULE MCCommandLock ---------------------------
(* Small instances of CommandLock for TLC.  The processes are              *)
(* interchangeable.                                                        *)
EXTENDS CommandLock, TLC

CONSTANTS p1, p2, p3, g1

Symmetry == Permutations(Procs)
=============================================================================
