--------------------------- MODULE StoreGrab_proofs --------------------------
(***************************************************************************)
(* For any entitlements, requests, crashes and faults: an item that is not *)
(* accepted is neither queued nor owned nor imported, an import keeps its  *)
(* row and a verdict is not reopened.                                      *)
(***************************************************************************)
EXTENDS StoreGrab, TLAPS

(* Inductive as it is: every write of an axis reads the other one in its    *)
(* own transaction, and an ignore resets what a later restore would keep.   *)
Inv == TypeOK /\ OwnedOnlyWhenImported /\ IgnoredIsNotQueued

(* A started process with an empty review list satisfies the invariant.     *)
LEMMA InitInv == Init => Inv
  BY StoreAssumption
  DEF Init, Inv, TypeOK, OwnedOnlyWhenImported, IgnoredIsNotQueued, Verdict, Idle, NoRequest

(* Every action keeps the invariant.                                        *)
LEMMA StepInv == Inv /\ [Next]_vars => Inv'
<1> SUFFICES ASSUME Inv, [Next]_vars PROVE Inv'
  OBVIOUS
<1> USE StoreAssumption DEF Inv
<1>1. ASSUME NEW u \in User, NEW e \in Entitlement, NEW requireNew \in BOOLEAN, Match(u, e, requireNew) PROVE Inv'
  <2> USE <1>1 DEF Match, May, Then, entitlement, grabbing, limits
  <2>1. TypeOK'
    BY DEF TypeOK, Verdict, Claimable, Idle, NoRequest
  <2>2. OwnedOnlyWhenImported'
    BY DEF TypeOK, OwnedOnlyWhenImported, Verdict, NoRequest
  <2>3. IgnoredIsNotQueued'
    BY DEF TypeOK, IgnoredIsNotQueued, Verdict, NoRequest
  <2> QED BY <2>1, <2>2, <2>3
<1>2. ASSUME NEW u \in User, NEW e \in Entitlement, Retry(u, e) PROVE Inv'
  <2> USE <1>2 DEF Retry, May, Then, entitlement, grabbing, limits
  <2>1. TypeOK'
    BY DEF TypeOK, Verdict, Claimable, Idle, NoRequest
  <2>2. OwnedOnlyWhenImported'
    BY DEF TypeOK, OwnedOnlyWhenImported, Verdict, NoRequest
  <2>3. IgnoredIsNotQueued'
    BY DEF TypeOK, IgnoredIsNotQueued, Verdict, NoRequest
  <2> QED BY <2>1, <2>2, <2>3
<1>3. ASSUME NEW u \in User, NEW e \in Entitlement, Ignore(u, e) PROVE Inv'
  <2> USE <1>3 DEF Ignore, May, entitlement, grabbing, limits
  <2>1. TypeOK'
    BY DEF TypeOK, Verdict, Claimable, Idle, NoRequest
  <2>2. OwnedOnlyWhenImported'
    BY DEF TypeOK, OwnedOnlyWhenImported, Verdict, NoRequest
  <2>3. IgnoredIsNotQueued'
    BY DEF TypeOK, IgnoredIsNotQueued, Verdict, NoRequest
  <2> QED BY <2>1, <2>2, <2>3
<1>4. ASSUME NEW u \in User, NEW e \in Entitlement, Restore(u, e) PROVE Inv'
  <2> USE <1>4 DEF Restore, May, entitlement, grabbing, limits
  <2>1. TypeOK'
    BY DEF TypeOK, Verdict, Claimable, Idle, NoRequest
  <2>2. OwnedOnlyWhenImported'
    BY DEF TypeOK, OwnedOnlyWhenImported, Verdict, NoRequest
  <2>3. IgnoredIsNotQueued'
    BY DEF TypeOK, IgnoredIsNotQueued, Verdict, NoRequest
  <2> QED BY <2>1, <2>2, <2>3
<1>5. ASSUME NEW u \in User, NEW e \in Entitlement, QueueRemove(u, e) PROVE Inv'
  <2> USE <1>5 DEF QueueRemove, May, entitlement, grabbing, limits
  <2>1. TypeOK'
    BY DEF TypeOK, Verdict, Claimable, Idle, NoRequest
  <2>2. OwnedOnlyWhenImported'
    BY DEF TypeOK, OwnedOnlyWhenImported, Verdict, NoRequest
  <2>3. IgnoredIsNotQueued'
    BY DEF TypeOK, IgnoredIsNotQueued, Verdict, NoRequest
  <2> QED BY <2>1, <2>2, <2>3
<1>6. ASSUME NEW u \in User, NEW e \in Entitlement, QueueGrab(u, e) PROVE Inv'
  <2> USE <1>6 DEF QueueGrab, Owes, Then, Answered, entitlement, grabbing, limits
  <2>1. TypeOK'
    BY DEF TypeOK, Verdict, Claimable, Idle, NoRequest
  <2>2. OwnedOnlyWhenImported'
    BY DEF TypeOK, OwnedOnlyWhenImported, Verdict, NoRequest
  <2>3. IgnoredIsNotQueued'
    BY DEF TypeOK, IgnoredIsNotQueued, Verdict, NoRequest
  <2> QED BY <2>1, <2>2, <2>3
<1>7. ASSUME NEW u \in User, NEW e \in Entitlement, Enqueue(u, e) PROVE Inv'
  <2> USE <1>7 DEF Enqueue, Owes, Answered, entitlement, grabbing, limits
  <2>1. TypeOK'
    BY DEF TypeOK, Verdict, Claimable, Idle, NoRequest
  <2>2. OwnedOnlyWhenImported'
    BY DEF TypeOK, OwnedOnlyWhenImported, Verdict, NoRequest
  <2>3. IgnoredIsNotQueued'
    BY DEF TypeOK, IgnoredIsNotQueued, Verdict, NoRequest
  <2> QED BY <2>1, <2>2, <2>3
<1>8. ASSUME NEW u \in User, NEW e \in Entitlement, DropStale(u, e) PROVE Inv'
  <2> USE <1>8 DEF DropStale, Owes, Then, Answered, entitlement, grabbing, limits
  <2>1. TypeOK'
    BY DEF TypeOK, Verdict, Claimable, Idle, NoRequest
  <2>2. OwnedOnlyWhenImported'
    BY DEF TypeOK, OwnedOnlyWhenImported, Verdict, NoRequest
  <2>3. IgnoredIsNotQueued'
    BY DEF TypeOK, IgnoredIsNotQueued, Verdict, NoRequest
  <2> QED BY <2>1, <2>2, <2>3
<1>9. ASSUME NEW e \in Entitlement, GrabStart(e) PROVE Inv'
  <2> USE <1>9 DEF GrabStart, To, entitlement, grabbing, limits
  <2>1. TypeOK'
    BY DEF TypeOK, Verdict, Claimable, Idle, NoRequest
  <2>2. OwnedOnlyWhenImported'
    BY DEF TypeOK, OwnedOnlyWhenImported, Verdict, NoRequest
  <2>3. IgnoredIsNotQueued'
    BY DEF TypeOK, IgnoredIsNotQueued, Verdict, NoRequest
  <2> QED BY <2>1, <2>2, <2>3
<1>10. ASSUME NEW e \in Entitlement, Fetch(e) PROVE Inv'
  <2> USE <1>10 DEF Fetch, To, State, entitlement, grabbing, limits
  <2>1. TypeOK'
    BY DEF TypeOK, Verdict, Claimable, Idle, NoRequest
  <2>2. OwnedOnlyWhenImported'
    BY DEF TypeOK, OwnedOnlyWhenImported, Verdict, NoRequest
  <2>3. IgnoredIsNotQueued'
    BY DEF TypeOK, IgnoredIsNotQueued, Verdict, NoRequest
  <2> QED BY <2>1, <2>2, <2>3
<1>11. ASSUME NEW e \in Entitlement, Streamed(e) PROVE Inv'
  <2> USE <1>11 DEF Streamed, To, State, entitlement, grabbing, limits
  <2>1. TypeOK'
    BY DEF TypeOK, Verdict, Claimable, Idle, NoRequest
  <2>2. OwnedOnlyWhenImported'
    BY DEF TypeOK, OwnedOnlyWhenImported, Verdict, NoRequest
  <2>3. IgnoredIsNotQueued'
    BY DEF TypeOK, IgnoredIsNotQueued, Verdict, NoRequest
  <2> QED BY <2>1, <2>2, <2>3
<1>12. ASSUME NEW e \in Entitlement, GrabFails(e) PROVE Inv'
  <2> USE <1>12 DEF GrabFails, To, State, entitlement, grabbing, limits
  <2>1. TypeOK'
    BY DEF TypeOK, Verdict, Claimable, Idle, NoRequest
  <2>2. OwnedOnlyWhenImported'
    BY DEF TypeOK, OwnedOnlyWhenImported, Verdict, NoRequest
  <2>3. IgnoredIsNotQueued'
    BY DEF TypeOK, IgnoredIsNotQueued, Verdict, NoRequest
  <2> QED BY <2>1, <2>2, <2>3
<1>13. ASSUME NEW e \in Entitlement, Recheck(e) PROVE Inv'
  <2> USE <1>13 DEF Recheck, To, entitlement, grabbing, limits
  <2>1. TypeOK'
    BY DEF TypeOK, Verdict, Claimable, Idle, NoRequest
  <2>2. OwnedOnlyWhenImported'
    BY DEF TypeOK, OwnedOnlyWhenImported, Verdict, NoRequest
  <2>3. IgnoredIsNotQueued'
    BY DEF TypeOK, IgnoredIsNotQueued, Verdict, NoRequest
  <2> QED BY <2>1, <2>2, <2>3
<1>14. ASSUME NEW e \in Entitlement, HandOff(e) PROVE Inv'
  <2> USE <1>14 DEF HandOff, To, entitlement, grabbing, limits
  <2>1. TypeOK'
    BY DEF TypeOK, Verdict, Claimable, Idle, NoRequest
  <2>2. OwnedOnlyWhenImported'
    BY DEF TypeOK, OwnedOnlyWhenImported, Verdict, NoRequest
  <2>3. IgnoredIsNotQueued'
    BY DEF TypeOK, IgnoredIsNotQueued, Verdict, NoRequest
  <2> QED BY <2>1, <2>2, <2>3
<1>15. ASSUME NEW e \in Entitlement, Settle(e) PROVE Inv'
  <2> USE <1>15 DEF Settle, To, State, entitlement, grabbing, limits
  <2>1. TypeOK'
    BY DEF TypeOK, Verdict, Claimable, Idle, NoRequest
  <2>2. OwnedOnlyWhenImported'
    BY DEF TypeOK, OwnedOnlyWhenImported, Verdict, NoRequest
  <2>3. IgnoredIsNotQueued'
    BY DEF TypeOK, IgnoredIsNotQueued, Verdict, NoRequest
  <2> QED BY <2>1, <2>2, <2>3
<1>16. ASSUME NEW e \in Entitlement, GrabEnds(e) PROVE Inv'
  <2> USE <1>16 DEF GrabEnds, To, entitlement, grabbing, limits
  <2>1. TypeOK'
    BY DEF TypeOK, Verdict, Claimable, Idle, NoRequest
  <2>2. OwnedOnlyWhenImported'
    BY DEF TypeOK, OwnedOnlyWhenImported, Verdict, NoRequest
  <2>3. IgnoredIsNotQueued'
    BY DEF TypeOK, IgnoredIsNotQueued, Verdict, NoRequest
  <2> QED BY <2>1, <2>2, <2>3
<1>17. ASSUME NEW e \in Entitlement, TransportFault(e) PROVE Inv'
  <2> USE <1>17 DEF TransportFault, To, entitlement, grabbing, limits
  <2>1. TypeOK'
    BY DEF TypeOK, Verdict, Claimable, Idle, NoRequest
  <2>2. OwnedOnlyWhenImported'
    BY DEF TypeOK, OwnedOnlyWhenImported, Verdict, NoRequest
  <2>3. IgnoredIsNotQueued'
    BY DEF TypeOK, IgnoredIsNotQueued, Verdict, NoRequest
  <2> QED BY <2>1, <2>2, <2>3
<1>18. ASSUME NEW e \in Entitlement, Claim(e) PROVE Inv'
  <2> USE <1>18 DEF Claim, entitlement, grabbing, limits
  <2>1. TypeOK'
    BY DEF TypeOK, Verdict, Claimable, Idle, NoRequest
  <2>2. OwnedOnlyWhenImported'
    BY DEF TypeOK, OwnedOnlyWhenImported, Verdict, NoRequest
  <2>3. IgnoredIsNotQueued'
    BY DEF TypeOK, IgnoredIsNotQueued, Verdict, NoRequest
  <2> QED BY <2>1, <2>2, <2>3
<1>19. ASSUME NEW e \in Entitlement, PlanManual(e) PROVE Inv'
  <2> USE <1>19 DEF PlanManual, entitlement, grabbing, limits
  <2>1. TypeOK'
    BY DEF TypeOK, Verdict, Claimable, Idle, NoRequest
  <2>2. OwnedOnlyWhenImported'
    BY DEF TypeOK, OwnedOnlyWhenImported, Verdict, NoRequest
  <2>3. IgnoredIsNotQueued'
    BY DEF TypeOK, IgnoredIsNotQueued, Verdict, NoRequest
  <2> QED BY <2>1, <2>2, <2>3
<1>20. ASSUME NEW e \in Entitlement, Import(e) PROVE Inv'
  <2> USE <1>20 DEF Import, Finalize, entitlement, grabbing, limits
  <2>1. TypeOK'
    BY DEF TypeOK, Verdict, Claimable, Idle, NoRequest
  <2>2. OwnedOnlyWhenImported'
    BY DEF TypeOK, OwnedOnlyWhenImported, Verdict, NoRequest
  <2>3. IgnoredIsNotQueued'
    BY DEF TypeOK, IgnoredIsNotQueued, Verdict, NoRequest
  <2> QED BY <2>1, <2>2, <2>3
<1>21. ASSUME NEW e \in Entitlement, ImportAborts(e) PROVE Inv'
  <2> USE <1>21 DEF ImportAborts, entitlement, grabbing, limits
  <2>1. TypeOK'
    BY DEF TypeOK, Verdict, Claimable, Idle, NoRequest
  <2>2. OwnedOnlyWhenImported'
    BY DEF TypeOK, OwnedOnlyWhenImported, Verdict, NoRequest
  <2>3. IgnoredIsNotQueued'
    BY DEF TypeOK, IgnoredIsNotQueued, Verdict, NoRequest
  <2> QED BY <2>1, <2>2, <2>3
<1>22. ASSUME Crash PROVE Inv'
  <2> USE <1>22 DEF Crash, entitlement, grabbing, limits
  <2>1. TypeOK'
    BY DEF TypeOK, Verdict, Claimable, Idle, NoRequest
  <2>2. OwnedOnlyWhenImported'
    BY DEF TypeOK, OwnedOnlyWhenImported, Verdict, NoRequest
  <2>3. IgnoredIsNotQueued'
    BY DEF TypeOK, IgnoredIsNotQueued, Verdict, NoRequest
  <2> QED BY <2>1, <2>2, <2>3
<1>23. CASE UNCHANGED vars
  BY <1>23 DEF vars, TypeOK, OwnedOnlyWhenImported, IgnoredIsNotQueued
<1> QED
  BY <1>1, <1>2, <1>3, <1>4, <1>5, <1>6, <1>7, <1>8, <1>9, <1>10, <1>11, <1>12, <1>13, <1>14,
     <1>15, <1>16, <1>17, <1>18, <1>19, <1>20, <1>21, <1>22, <1>23
  DEF Next, UserActs, Proceed, GrabStep

(* The invariant holds in every reachable state.                            *)
THEOREM Invariance == Spec => []Inv
  BY InitInv, StepInv, PTL DEF Spec

(* The tables, the runs and the requests have their types.                  *)
THEOREM TypeCorrect == Spec => []TypeOK
  BY Invariance, PTL DEF Inv

(* An item shown as imported is accepted and in the library.                *)
THEOREM OwnershipIsEarned == Spec => []OwnedOnlyWhenImported
  BY Invariance, PTL DEF Inv

(* No interleaving of requests leaves a queued download on an item that is  *)
(* not accepted.                                                            *)
THEOREM OnlyAcceptedQueued == Spec => []IgnoredIsNotQueued
  BY Invariance, PTL DEF Inv

(* Only the importer's transaction adds to the library, and it reads the    *)
(* acceptance again: nothing withdrawn is imported.                         *)
THEOREM WithdrawalWins == Spec => WithdrawnImportsNothing
<1>1. [Next]_vars => [\A e \in library' \ library : review[e] = "matched"]_vars
  <2> SUFFICES ASSUME Next, NEW e \in library' \ library PROVE review[e] = "matched"
    OBVIOUS
  <2>1. PICK i \in Entitlement : Import(i)
    BY DEF Next, UserActs, Proceed, GrabStep, Match, Retry, Ignore, Restore, QueueRemove, QueueGrab,
           Enqueue, DropStale, GrabStart, Fetch, Streamed, GrabFails, Recheck, HandOff,
           Settle, GrabEnds, TransportFault, Claim, PlanManual, ImportAborts, Crash
  <2> QED BY <2>1 DEF Import, Finalize
<1> QED BY <1>1, PTL DEF Spec, WithdrawnImportsNothing

(* A row that left the drain with a verdict is never claimable again: the   *)
(* hand-off of a grab that runs once more finds it and does nothing.        *)
THEOREM VerdictsAreFinal == Spec => VerdictsStand
<1>1. Inv /\ [Next]_vars
        => [\A e \in Entitlement : tracked[e] \in Verdict => tracked'[e] \notin Claimable]_vars
  <2> SUFFICES ASSUME Inv, Next, NEW e \in Entitlement, tracked[e] \in Verdict
               PROVE  tracked'[e] \notin Claimable
    OBVIOUS
  <2> USE DEF Inv, TypeOK, Verdict, Claimable
  <2>1. CASE \E u \in User, i \in Entitlement : UserActs(u, i) \/ Proceed(u, i)
    BY <2>1 DEF UserActs, Proceed, Match, Retry, Ignore, Restore, QueueRemove, QueueGrab, Enqueue,
       DropStale
  <2>2. CASE \E i \in Entitlement : GrabStep(i) \/ TransportFault(i)
    BY <2>2 DEF GrabStep, GrabStart, Fetch, Streamed, GrabFails, Recheck, HandOff, Settle, GrabEnds,
                TransportFault
  <2>3. CASE \E i \in Entitlement : Claim(i) \/ PlanManual(i) \/ Import(i) \/ ImportAborts(i)
    BY <2>3 DEF Claim, PlanManual, Import, Finalize, ImportAborts
  <2>4. CASE Crash
    BY <2>4 DEF Crash
  <2> QED BY <2>1, <2>2, <2>3, <2>4 DEF Next
<1> QED BY <1>1, Invariance, PTL DEF Spec, VerdictsStand

(* The row of an import under way is deleted by the import alone.           *)
THEOREM ClaimsHold == Spec => ClaimIsHeld
<1> DEFINE Kept(e) == tracked[e] = "importing" /\ tracked'[e] = "absent"
                        => importer.ent = e /\ importer' = Idle
<1>1. Inv /\ [Next]_vars => [\A e \in Entitlement : Kept(e)]_vars
  <2> SUFFICES ASSUME Inv, Next, NEW e \in Entitlement PROVE Kept(e)
    OBVIOUS
  <2> USE DEF Inv, TypeOK, Verdict, Claimable
  <2>1. CASE \E u \in User, i \in Entitlement : UserActs(u, i) \/ Proceed(u, i)
    BY <2>1 DEF UserActs, Proceed, Match, Retry, Ignore, Restore, QueueRemove, QueueGrab, Enqueue,
       DropStale
  <2>2. CASE \E i \in Entitlement : GrabStep(i) \/ TransportFault(i)
    BY <2>2 DEF GrabStep, GrabStart, Fetch, Streamed, GrabFails, Recheck, HandOff, Settle, GrabEnds,
                TransportFault
  <2>3. CASE \E i \in Entitlement : Claim(i) \/ PlanManual(i) \/ Import(i) \/ ImportAborts(i)
    BY <2>3 DEF Claim, PlanManual, Import, Finalize, ImportAborts
  <2>4. CASE Crash
    BY <2>4 DEF Crash
  <2> QED BY <2>1, <2>2, <2>3, <2>4 DEF Next
<1> QED BY <1>1, Invariance, PTL DEF Spec, ClaimIsHeld

(* The review and the download of an item tell one story.                   *)
THEOREM AxesAlwaysAgree == Spec => []AxesAgree
  BY TypeCorrect, OwnershipIsEarned, OnlyAcceptedQueued, PTL DEF AxesAgree

(* No decision of the operator or the importer is undone behind its back.   *)
THEOREM DecisionsAlwaysHold == Spec => DecisionsHold
  BY WithdrawalWins, VerdictsAreFinal, ClaimsHold DEF DecisionsHold
=============================================================================
