---------------------------- MODULE MCPublication ----------------------------
(* Reports for TLC: one or more findings of an anchor, on lines with and   *)
(* without neighbours, the same pair further down, and another anchor.     *)
EXTENDS Publication

At(a, l, c) == [anchor |-> a, line |-> l, context |-> c]
MCReports ==
    {{}, {At("a", 1, NoContext)}, {At("a", 1, NoContext), At("a", 2, "c")},
     {At("a", 2, "c"), At("a", 3, "c")}, {At("a", 4, "c"), At("a", 5, "c")},
     {At("a", 1, NoContext), At("a", 2, "c"), At("a", 3, "c")},
     {At("a", 2, "d"), At("b", 1, NoContext)}}
MCLegacies ==
    {{}, {[fingerprint |-> <<"semantic", "a">>,
           aliases |-> {<<"exact", "a", 1>>}]}}
=============================================================================
