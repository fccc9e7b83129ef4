----------------------------- MODULE JobLedger ------------------------------
(***************************************************************************)
(* What the command backbone promises, without workers, groups, pools or   *)
(* processes: a submitted job waits, is attempted, and is done exactly     *)
(* once; an attempt that dies sends the job back to waiting; each attempt  *)
(* that ends, one way or the other, is entered in the record once; and two *)
(* jobs with the same key are never both alive.                            *)
(***************************************************************************)
EXTENDS Naturals

CONSTANTS Job, Key, NoKey

VARIABLES
  phase,   \* "none", "waiting", "active" or "done"
  key,     \* what the job is a job for
  ended    \* how many attempts at the job the record holds

ledger == <<phase, key, ended>>

Alive(j) == phase[j] \in {"waiting", "active"}

Init ==
  /\ phase = [j \in Job |-> "none"]
  /\ key = [j \in Job |-> NoKey]
  /\ ended = [j \in Job |-> 0]

Submit(j, k) ==
  /\ phase[j] = "none"
  /\ \A i \in Job : Alive(i) => key[i] # k
  /\ phase' = [phase EXCEPT ![j] = "waiting"]
  /\ key' = [key EXCEPT ![j] = k]
  /\ UNCHANGED ended

Begin(j) ==
  /\ phase[j] = "waiting"
  /\ phase' = [phase EXCEPT ![j] = "active"]
  /\ UNCHANGED <<key, ended>>

End(j) ==
  /\ phase[j] = "active"
  /\ phase' = [phase EXCEPT ![j] = "done"]
  /\ ended' = [ended EXCEPT ![j] = @ + 1]
  /\ UNCHANGED key

(* The process died: every attempt under way is over, and its job waits.   *)
Reclaim ==
  /\ phase' = [j \in Job |-> IF phase[j] = "active" THEN "waiting" ELSE phase[j]]
  /\ ended' = [j \in Job |-> IF phase[j] = "active" THEN ended[j] + 1 ELSE ended[j]]
  /\ UNCHANGED key

Next ==
  \/ \E j \in Job, k \in Key : Submit(j, k)
  \/ \E j \in Job : Begin(j) \/ End(j)
  \/ Reclaim

Spec == Init /\ [][Next]_ledger
=============================================================================
