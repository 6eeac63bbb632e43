---------------------------- MODULE MCGameAnalysis ----------------------------
(* Small instances of GameAnalysis for TLC: two tabs of different builds. *)
EXTENDS GameAnalysis

CONSTANTS t1, t2, g1, p1, p2

MCPlies == [g \in Analysable |-> 2]
MCBuild == [t \in Tabs |-> IF t = t1 THEN "old" ELSE "new"]
=============================================================================
