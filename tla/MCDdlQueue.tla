----------------------------- MODULE MCDdlQueue -----------------------------
(* DdlQueue on the main server and its mirror, the main server preferred.   *)
EXTENDS DdlQueue, TLC

CONSTANTS i1, i2, main, mirror

MCRank     == [h \in Host |-> IF h = main THEN 1 ELSE 2]
MCOutputOf == [i \in Item |-> i]
=============================================================================
