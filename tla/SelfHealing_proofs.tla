-------------------------- MODULE SelfHealing_proofs --------------------------
(***************************************************************************)
(* For any releases, searches, operators and bounds: a release is handed   *)
(* to a client once, but for the crashes and the lost writes.              *)
(***************************************************************************)
EXTENDS SelfHealing, FiniteSetTheorems, TLAPS

(* What can disturb the loop is bounded by the behaviour's budget.          *)
Bounded == /\ budget \in Budgets
           /\ crashes <= budget.crashes /\ faults <= budget.faults

(* A release whose download is in grab_history.                             *)
Recorded(r) == \E j \in hist : Of(j) = r

(* Each send but the last was forgotten by a crash or lost with its write:  *)
(* the grab that made the last one is still to record it, or has.           *)
Counted ==
  \A r \in Release :
    /\ IsFiniteSet(Sent(r))
    /\ Recorded(r) => grab[r] \notin {"guarded", "sent"}
    /\ grab[r] = "sent" => Sent(r) # {}
    /\ Cardinality(Sent(r)) <= crashes + faults
                                 + (IF Recorded(r) \/ grab[r] = "sent" THEN 1 ELSE 0)

(* A row exists only for a download that a client was handed.               *)
RowsWereSent == \A j \in Job : row[j] # "absent" => client[j] # "none"

Inv == TypeOK /\ Bounded /\ Counted /\ RowsWereSent

LEMMA InitInv == ASSUME Init PROVE Inv
<1> USE ReleasesAssumption DEF Init
<1>1. TypeOK
  BY DEF TypeOK, NoSnap, Search, Actor
<1>2. Bounded /\ RowsWereSent
  BY DEF Bounded, RowsWereSent
<1>3. ASSUME NEW r \in Release PROVE Sent(r) = {}
  BY DEF Sent
<1>4. Counted
  <2>1. ASSUME NEW r \in Release
        PROVE  IsFiniteSet(Sent(r)) /\ Cardinality(Sent(r)) = 0 /\ ~Recorded(r)
    BY <1>3, FS_EmptySet DEF Recorded
  <2> QED
    BY <2>1 DEF Counted
<1> QED
  BY <1>1, <1>2, <1>4 DEF Inv

(* The size of what was sent, one more send included.                       *)
LEMMA SendAdds ==
  ASSUME NEW r \in Release, IsFiniteSet(Sent(r)), NEW j,
         Sent(r)' = Sent(r) \/ Sent(r)' = Sent(r) \cup {j}
  PROVE  /\ IsFiniteSet(Sent(r)') /\ Cardinality(Sent(r)) \in Nat
         /\ Cardinality(Sent(r)') \in Nat /\ Cardinality(Sent(r)') <= Cardinality(Sent(r)) + 1
<1> HIDE DEF Sent
<1>1. Cardinality(Sent(r)) \in Nat
  BY FS_CardinalityType
<1>2. IsFiniteSet(Sent(r) \cup {j})
      /\ Cardinality(Sent(r) \cup {j}) \in {Cardinality(Sent(r)), Cardinality(Sent(r)) + 1}
  BY <1>1, FS_AddElement
<1> QED
  BY <1>1, <1>2

(* The record of a send is one of the downloads the budget allows for.      *)
LEMMA RecordIsJob ==
  ASSUME Inv, NEW r \in Release, grab[r] = "sent"
  PROVE  <<r, Cardinality(Sent(r))>> \in Job
<1>1. Cardinality(Sent(r)) \in Nat /\ Cardinality(Sent(r)) # 0
  BY FS_CardinalityType, FS_EmptySet DEF Inv, Counted
<1>2. Cardinality(Sent(r)) <= crashes + faults + 1
  BY DEF Inv, Counted
<1>3. Cardinality(Sent(r)) \in 1 .. budget.crashes + budget.faults + 2
  BY <1>1, <1>2, ReleasesAssumption DEF Inv, Bounded, TypeOK
<1> QED
  BY <1>3 DEF Inv, Bounded, Job, Tries

LEMMA TypesStep == ASSUME Inv, [Next]_vars PROVE TypeOK' /\ Bounded'
<1> USE ReleasesAssumption DEF Inv, TypeOK, Bounded, searching, downloading, tracking, healing,
        limits, Ask, NoSnap
<1>1. CASE Schedule
  BY <1>1 DEF Schedule, Search
<1>2. ASSUME NEW c \in Search, SearchStart(c) PROVE TypeOK' /\ Bounded'
  BY <1>2 DEF SearchStart
<1>3. ASSUME NEW c \in Search, Prepare(c) PROVE TypeOK' /\ Bounded'
  <2>1. snap' \in [blocked : SUBSET Release, active : BOOLEAN, taken : BOOLEAN]
    <3>1. Active \in BOOLEAN
      BY DEF Active
    <3>2. CASE UNCHANGED snap
      BY <3>2
    <3>3. CASE snap' = [blocked |-> blocklist, active |-> Active, taken |-> TRUE]
      BY <3>1, <3>3
    <3> QED
      BY <1>3, <3>2, <3>3 DEF Prepare
  <2> QED
    BY <1>3, <2>1 DEF Prepare
<1>4. ASSUME NEW c \in Search, NEW offered \in SUBSET Release, Decide(c, offered)
      PROVE  TypeOK' /\ Bounded'
  BY <1>4 DEF Decide, Approved
<1>5. CASE Refresh
  BY <1>5 DEF Refresh, Observed, Actor
<1>6. CASE UserSearch
  BY <1>6 DEF UserSearch, May, Search
<1>7. ASSUME NEW r \in Release, UserGrab(r) \/ UserUnblock(r) PROVE TypeOK' /\ Bounded'
  BY <1>7 DEF UserGrab, UserUnblock, May
<1>8. ASSUME NEW j \in Job, NEW block \in BOOLEAN, UserRemove(j, block)
      PROVE  TypeOK' /\ Bounded'
  <2>1. Listed({j}) \subseteq Release
    BY DEF Listed, Of, Job
  <2>2. user' \in Nat /\ linked' \subseteq Job
    BY <1>8 DEF UserRemove, May
  <2>5. blocklist' \subseteq Release
    <3>1. blocklist' \in {blocklist, blocklist \cup Listed({j})}
      BY <1>8 DEF UserRemove
    <3> QED
      BY <2>1, <3>1
  <2>3. UNCHANGED <<cmd, snap, grab, hist, loop, owed, crashes, faults, budget>>
    BY <1>8 DEF UserRemove
  <2>4. client' = [client EXCEPT ![j] = "gone"] /\ row' = [row EXCEPT ![j] = "absent"]
    BY <1>8 DEF UserRemove
  <2> QED
    BY <2>2, <2>3, <2>4, <2>5
<1>9. CASE Crash
  BY <1>9 DEF Crash
<1>10. ASSUME NEW r \in Release, GrabStart(r) \/ GrabFails(r) PROVE TypeOK' /\ Bounded'
  BY <1>10 DEF GrabStart, GrabFails
<1>11. ASSUME NEW r \in Release, GrabSend(r) PROVE TypeOK' /\ Bounded'
  BY <1>11 DEF GrabSend
<1>12. ASSUME NEW r \in Release, GrabRecord(r) PROVE TypeOK' /\ Bounded'
  BY <1>12, RecordIsJob DEF GrabRecord
<1>13. ASSUME NEW a \in Actor, Promote(a) PROVE TypeOK' /\ Bounded'
  <2>1. Listed(Failing) \subseteq Release
    BY DEF Listed, Failing, Of, Job
  <2>2. owed' \in [Actor -> BOOLEAN]
    BY <1>13 DEF Promote
  <2> QED
    BY <1>13, <2>1, <2>2 DEF Promote
<1>14. ASSUME NEW a \in Actor, Research(a) PROVE TypeOK' /\ Bounded'
  BY <1>14 DEF Research, Search
<1>15. ASSUME NEW j \in Job, Import(j) \/ ClientEnds(j) PROVE TypeOK' /\ Bounded'
  BY <1>15 DEF Import, ClientEnds, Actor
<1>16. CASE UNCHANGED vars
  BY <1>16 DEF vars
<1> QED
  BY <1>1, <1>2, <1>3, <1>4, <1>5, <1>6, <1>7, <1>8, <1>9, <1>10, <1>11, <1>12, <1>13, <1>14,
     <1>15, <1>16 DEF Next, SearchStep, UserStep, GrabStep, LoopStep

(* What changes the count of a release's downloads.  All actions but a send *)
(* keep what was sent, and only the grabs' and the process's own steps are  *)
(* of interest to the grab.                                                 *)
LEMMA SentKept ==
  ASSUME NEW r \in Release, \A j \in Job : client'[j] = "none" <=> client[j] = "none"
  PROVE  Sent(r)' = Sent(r)
BY DEF Sent

LEMMA ClientMoves ==
  ASSUME Inv, [Next]_vars, \A r \in Release : ~GrabSend(r)
  PROVE  /\ \A j \in Job : client'[j] = "none" <=> client[j] = "none"
         /\ \A j \in Job : row'[j] # "absent" => client[j] # "none"
<1> DEFINE Moves == /\ \A j \in Job : client'[j] = "none" <=> client[j] = "none"
                    /\ \A j \in Job : row'[j] # "absent" => client[j] # "none"
<1> USE DEF Inv, TypeOK, RowsWereSent, searching, downloading, tracking, healing, limits
<1>1. ASSUME NEW j \in Job, Import(j) \/ ClientEnds(j) PROVE Moves
  BY <1>1 DEF Import, ClientEnds
<1>2. ASSUME NEW j \in Job, NEW block \in BOOLEAN, UserRemove(j, block) PROVE Moves
  <2>1. client' = [client EXCEPT ![j] = "gone"] /\ row' = [row EXCEPT ![j] = "absent"]
        /\ row[j] # "absent"
    BY <1>2 DEF UserRemove
  <2> QED
    BY <2>1
<1>3. CASE Refresh
  BY <1>3 DEF Refresh
<1>4. ASSUME NEW a \in Actor, Promote(a) PROVE Moves
  BY <1>4 DEF Promote, Failing
<1>5. CASE UNCHANGED <<client, row>>
  BY <1>5
<1> QED
  BY <1>1, <1>2, <1>3, <1>4, <1>5
  DEF Next, SearchStep, UserStep, GrabStep, LoopStep, Schedule, SearchStart, Prepare, Decide,
      UserSearch, UserGrab, UserUnblock, Crash, GrabStart, GrabFails, GrabRecord, Research, vars

LEMMA CountedStep == ASSUME Inv, [Next]_vars PROVE Counted' /\ RowsWereSent'
<1> USE DEF Inv
<1>1. ASSUME NEW r \in Release, GrabSend(r) PROVE Counted' /\ RowsWereSent'
  <2>1. PICK k \in Tries : client' = [client EXCEPT ![<<r, k>>] = "queue"]
    BY <1>1 DEF GrabSend
  <2>2. <<r, k>> \in Job /\ Of(<<r, k>>) = r
    BY DEF Job, Of
  <2>3. RowsWereSent'
    BY <1>1, <2>1, <2>2 DEF GrabSend, tracking, RowsWereSent, TypeOK
  <2>4. Sent(r)' = Sent(r) \cup {<<r, k>>}
    BY <2>1, <2>2 DEF Sent, TypeOK
  <2>5. \A s \in Release : s # r => Sent(s)' = Sent(s)
    BY <2>1, <2>2 DEF Sent, TypeOK
  <2>6. /\ IsFiniteSet(Sent(r)') /\ Cardinality(Sent(r)) \in Nat
        /\ Cardinality(Sent(r)') \in Nat /\ Cardinality(Sent(r)') <= Cardinality(Sent(r)) + 1
    BY <2>4, SendAdds DEF Counted
  <2>7. ~Recorded(r) /\ grab[r] # "sent"
    BY <1>1 DEF GrabSend, Counted
  <2>8. \A s \in Release : Recorded(s)' = Recorded(s)
    BY <1>1 DEF GrabSend, Recorded
  <2>9. \A s \in Release : grab'[s] = IF s = r THEN "sent" ELSE grab[s]
    BY <1>1 DEF GrabSend, TypeOK
  <2>10. UNCHANGED <<crashes, faults>> /\ crashes \in Nat /\ faults \in Nat
    BY <1>1 DEF GrabSend, limits, TypeOK
  <2> HIDE DEF Inv
  <2>11. Counted'
    <3> SUFFICES ASSUME NEW s \in Release
                 PROVE  /\ IsFiniteSet(Sent(s)')
                        /\ Recorded(s)' => grab'[s] \notin {"guarded", "sent"}
                        /\ grab'[s] = "sent" => Sent(s)' # {}
                        /\ Cardinality(Sent(s)') <= crashes' + faults'
                             + (IF Recorded(s)' \/ grab'[s] = "sent" THEN 1 ELSE 0)
      BY DEF Counted
    <3>1. CASE s = r
      <4>1. Sent(r)' # {}
        BY <2>4
      <4>2. Recorded(r)' = FALSE /\ grab'[r] = "sent"
        BY <2>7, <2>8, <2>9
      <4>3. Cardinality(Sent(r)) <= crashes + faults
        BY <2>6, <2>7, <2>10 DEF Counted, Inv
      <4>4. Cardinality(Sent(r)') <= crashes' + faults' + 1
        BY <2>6, <2>10, <4>3
      <4> QED
        BY <2>6, <3>1, <4>1, <4>2, <4>4
    <3>2. CASE s # r
      BY <2>5, <2>8, <2>9, <2>10, <3>2 DEF Counted, Inv
    <3> QED
      BY <3>1, <3>2
  <2> QED
    BY <2>3, <2>11
<1>2. CASE \A r \in Release : ~GrabSend(r)
  <2>1. RowsWereSent'
    BY <1>2, ClientMoves DEF RowsWereSent
  <2>2. \A r \in Release : Sent(r)' = Sent(r)
    BY <1>2, ClientMoves, SentKept
  <2>3. crashes \in Nat /\ faults \in Nat /\ \A r \in Release : Cardinality(Sent(r)) \in Nat
    BY FS_CardinalityType DEF Counted, TypeOK
  <2>4. ASSUME NEW s \in Release, GrabStart(s) PROVE Counted'
    <3>1. \A r \in Release : Recorded(r)' = Recorded(r)
      BY <2>4 DEF GrabStart, Recorded, downloading
    <3>2. \A r \in Release :
            grab'[r] = IF r # s THEN grab[r] ELSE IF Recorded(s) THEN "none" ELSE "guarded"
      BY <2>4 DEF GrabStart, Recorded, TypeOK
    <3>3. UNCHANGED <<crashes, faults>> /\ grab[s] = "queued"
      BY <2>4 DEF GrabStart, limits
    <3> QED
      BY <2>2, <2>3, <3>1, <3>2, <3>3 DEF Counted
  <2>5. ASSUME NEW s \in Release, GrabFails(s) PROVE Counted'
    <3>1. \A r \in Release : Recorded(r)' = Recorded(r)
      BY <2>5 DEF GrabFails, Recorded, downloading
    <3>2. \A r \in Release : grab'[r] = IF r = s THEN "none" ELSE grab[r]
      BY <2>5 DEF GrabFails, TypeOK
    <3>3. faults' = faults + 1 /\ crashes' = crashes
      BY <2>5 DEF GrabFails
    <3> QED
      BY <2>2, <2>3, <3>1, <3>2, <3>3 DEF Counted
  <2>6. ASSUME NEW s \in Release, GrabRecord(s) PROVE Counted'
    <3>1. \A r \in Release : Recorded(r)' <=> Recorded(r) \/ r = s
      <4>1. Of(<<s, Cardinality(Sent(s))>>) = s
        BY DEF Of
      <4> QED
        BY <2>6, <4>1 DEF GrabRecord, Recorded
    <3>2. \A r \in Release : grab'[r] = IF r = s THEN "none" ELSE grab[r]
      BY <2>6 DEF GrabRecord, TypeOK
    <3>3. UNCHANGED <<crashes, faults>> /\ grab[s] = "sent"
      BY <2>6 DEF GrabRecord, limits
    <3> QED
      BY <2>2, <2>3, <3>1, <3>2, <3>3 DEF Counted
  <2>7. CASE Crash
    <3>1. \A r \in Release : Recorded(r)' = Recorded(r)
      BY <2>7 DEF Crash, Recorded, downloading
    <3>2. \A r \in Release : grab'[r] = IF grab[r] \in {"guarded", "sent"} THEN "queued" ELSE grab[r]
      BY <2>7 DEF Crash, Busy
    <3>3. crashes' = crashes + 1 /\ faults' = faults
      BY <2>7 DEF Crash
    <3>4. ASSUME NEW r \in Release
          PROVE  /\ grab'[r] \notin {"guarded", "sent"}
                 /\ Cardinality(Sent(r)) <= crashes' + faults' + (IF Recorded(r) THEN 1 ELSE 0)
      BY <2>3, <3>2, <3>3 DEF Counted
    <3> QED
      <4> SUFFICES ASSUME NEW r \in Release
                   PROVE  /\ IsFiniteSet(Sent(r))
                          /\ grab'[r] \notin {"guarded", "sent"}
                          /\ Cardinality(Sent(r)) <= crashes' + faults'
                               + (IF Recorded(r) THEN 1 ELSE 0)
        BY <2>1, <2>2, <3>1 DEF Counted
      <4> QED
        BY <3>4 DEF Counted
  <2>8. ASSUME UNCHANGED <<hist, crashes, faults>>,
               \A r \in Release : grab'[r] = grab[r] \/ (grab[r] = "none" /\ grab'[r] = "queued")
        PROVE  Counted'
    <3>1. \A r \in Release : Recorded(r)' = Recorded(r)
      BY <2>8 DEF Recorded
    <3> QED
      BY <2>2, <2>3, <2>8, <3>1 DEF Counted
  <2>9. ASSUME NEW c \in Search, NEW offered \in SUBSET Release, Decide(c, offered)
        PROVE  Counted'
    <3>1. \A r \in Release : grab'[r] = grab[r] \/ (grab[r] = "none" /\ grab'[r] = "queued")
      BY <2>9 DEF Decide, TypeOK, Approved
    <3> QED
      BY <2>8, <2>9, <3>1 DEF Decide, downloading, limits
  <2>10. ASSUME NEW r \in Release, UserGrab(r) PROVE Counted'
    BY <2>8, <2>10 DEF UserGrab, downloading, TypeOK
  <2>11. CASE UNCHANGED <<hist, crashes, faults, grab>>
    <3>1. \A r \in Release : grab'[r] = grab[r]
      BY <2>11
    <3>2. UNCHANGED <<hist, crashes, faults>>
      BY <2>11
    <3> QED
      BY <2>1, <2>8, <3>1, <3>2
  <2> QED
    BY <1>2, <2>1, <2>4, <2>5, <2>6, <2>7, <2>9, <2>10, <2>11
    DEF Next, SearchStep, UserStep, GrabStep, LoopStep, Schedule, SearchStart, Prepare, Refresh,
        UserSearch, UserUnblock, UserRemove, Promote, Research, Import, ClientEnds, vars,
        downloading, limits
<1> QED
  BY <1>1, <1>2

LEMMA Invariance == Spec => []Inv
<1>1. Init => Inv
  BY InitInv
<1>2. Inv /\ [Next]_vars => Inv'
  BY TypesStep, CountedStep DEF Inv
<1> QED
  BY <1>1, <1>2, PTL DEF Spec

(* However many searches, operators and recoveries ask for a release, it is *)
(* handed to a client once, but for the crashes and the lost writes.        *)
THEOREM SendsAreCounted == Spec => []SentOnce
<1>1. Inv => SentOnce
  <2> SUFFICES ASSUME Inv, NEW r \in Release
               PROVE  Cardinality(Sent(r)) <= 1 + crashes + faults
    BY DEF Inv, SentOnce
  <2>1. Cardinality(Sent(r)) \in Nat /\ crashes \in Nat /\ faults \in Nat
    BY FS_CardinalityType DEF Inv, Counted, TypeOK
  <2> QED
    BY <2>1 DEF Inv, Counted
<1> QED
  BY <1>1, Invariance, PTL
=============================================================================
