--------------------------- MODULE MCCommandQueue ---------------------------
(* CommandQueue on a "default" and a "pp" pool: the bodies a and b share an  *)
(* exclusivity group, c has none, and d belongs to the pp pool.              *)
EXTENDS CommandQueue, TLC

CONSTANTS a, b, c, d, g, d1, d2, p1

MCClassOf == [x \in Command |-> IF x = d THEN "pp" ELSE "default"]
MCGroupOf == [x \in Command |-> IF x \in {a, b} THEN g ELSE NoGroup]
MCPoolOf  == [w \in Worker |-> IF w = p1 THEN "pp" ELSE "default"]

=============================================================================
