---------------------------- MODULE MCSelfHealing ----------------------------
(* A bad release and a good one, the bad one preferred.                      *)
EXTENDS SelfHealing

CONSTANTS bad, good

Order    == [r \in Release |-> IF r = bad THEN 1 ELSE 2]
OwnPosts == [r \in Release |-> r]

(* A crash, a lost hand-off, or the operator.                                *)
OneTrouble == {b \in [user : 0..1, crashes : 0..1, faults : 0..1] :
                 b.user + b.crashes + b.faults = 1}
=============================================================================
