--------------------------- MODULE Platform_proofs ----------------------------
(***************************************************************************)
(* What the boot, the way in, the listener and the import of a library     *)
(* keep, for every value of their constants.  The module is a section per  *)
(* component: its inductive invariant, a lemma for its first states and    *)
(* one for its steps, and the theorems.                                    *)
(***************************************************************************)
EXTENDS Platform, FiniteSetTheorems, SequenceTheorems, TLAPS

(* While one component runs the others rest: each step is one of each       *)
(* component or leaves its variables alone.                                 *)
LEMMA OneActs ==
  [Next]_vars => /\ [Boot!Next]_bootVars /\ [Gate!Next]_gateVars
                 /\ [Server!Next]_edgeVars /\ [Staging!Next]_stagingVars
<1> SUFFICES ASSUME [Next]_vars
             PROVE  /\ [Boot!Next]_bootVars /\ [Gate!Next]_gateVars
                    /\ [Server!Next]_edgeVars /\ [Staging!Next]_stagingVars
  OBVIOUS
<1> USE DEF bootVars, gateVars, edgeVars, stagingVars
<1>1. CASE BootApplication
  BY <1>1 DEF BootApplication
<1>2. CASE ServeClients
  BY <1>2 DEF ServeClients
<1>3. CASE ServeRequests
  BY <1>3 DEF ServeRequests
<1>4. CASE ImportLibrary
  BY <1>4 DEF ImportLibrary
<1>5. CASE UNCHANGED vars
  BY <1>5 DEF vars
<1> QED
  BY <1>1, <1>2, <1>3, <1>4, <1>5 DEF Next

(***************************************************************************)
(* The listener: one response, and a place at the write lock while it      *)
(* writes.                                                                 *)
(***************************************************************************)
Size    == (UNION {Sizes[r] : r \in Reqs}) \cup {"ok"}
Request == [pc : {"new", "streaming"} \cup Server!Before \cup Server!Ended, starts : Nat, expired : BOOLEAN,
            size : Size, row : Rows \cup {"none"}]

(* No answer has started while the handler is where it has not answered.    *)
Unanswered(q) == /\ q.starts <= 1
                 /\ q.pc \in Server!Before \cup {"new"} => q.starts = 0
                 /\ q.pc \in {"waiting", "writing", "committing"} => q.row # "none"

Answers == /\ DOMAIN edgeReq = Reqs
           /\ \A r \in Reqs : edgeReq[r] \in Request /\ Unanswered(edgeReq[r])

LEMMA AnswersInit == ASSUME Server!Init PROVE Answers
<1>1. Server!Idle \in Request
  BY DEF Server!Idle, Request, Size, Server!Before, Server!Ended
<1>2. Unanswered(Server!Idle)
  BY DEF Server!Idle, Unanswered, Server!Before
<1> QED
  BY <1>1, <1>2 DEF Server!Init, Answers

(* A step of one request.                                                   *)
LEMMA RequestMoves ==
  ASSUME Answers, NEW r \in Reqs, NEW q \in Request, Unanswered(q), edgeReq' = [edgeReq EXCEPT ![r] = q]
  PROVE  Answers'
BY DEF Answers

LEMMA Advance ==
  ASSUME NEW q \in Request, Unanswered(q), NEW pc \in {"new", "streaming"} \cup Server!Before \cup Server!Ended,
         q.starts = 0 \/ pc \in Server!Ended,
         pc \in {"waiting", "writing", "committing"} => q.row # "none"
  PROVE  [q EXCEPT !.pc = pc] \in Request /\ Unanswered([q EXCEPT !.pc = pc])
BY DEF Request, Unanswered, Server!Before, Server!Ended

LEMMA Answering ==
  ASSUME NEW q \in Request, NEW n \in Nat, q.starts + n <= 1, NEW pc \in {"streaming", "done"}
  PROVE  /\ [q EXCEPT !.pc = pc, !.starts = @ + n] \in Request
         /\ Unanswered([q EXCEPT !.pc = pc, !.starts = @ + n])
<1>1. pc \in {"new", "streaming"} \cup Server!Before \cup Server!Ended /\ pc \notin Server!Before \cup {"new"}
  BY DEF Server!Before, Server!Ended
<1>2. ASSUME NEW m \in Nat
      PROVE  LET a == [q EXCEPT !.pc = pc, !.starts = m]
             IN a \in Request /\ a.starts = m /\ a.pc = pc
  <2> HIDE DEF Size, Server!Before, Server!Ended
  <2> QED
    BY <1>1 DEF Request
<1>3. q.starts + n \in Nat
  BY DEF Request
<1> QED
  BY <1>1, <1>2, <1>3 DEF Unanswered, Server!Before

LEMMA FirstAnswer ==
  ASSUME NEW q \in Request, q.starts = 0, NEW pc \in {"streaming", "done"}
  PROVE  /\ [q EXCEPT !.pc = pc, !.starts = @ + 1] \in Request
         /\ Unanswered([q EXCEPT !.pc = pc, !.starts = @ + 1])
<1>1. 1 \in Nat /\ q.starts + 1 <= 1
  OBVIOUS
<1> QED
  BY <1>1, Answering

LEMMA AnswersStep ==
  ASSUME Answers, [Server!Next]_edgeVars
  PROVE  Answers'
<1>0. ASSUME NEW r \in Reqs
      PROVE  /\ edgeReq[r] \in Request /\ Unanswered(edgeReq[r])
             /\ edgeReq[r].pc \in Server!Before \cup {"new"} => edgeReq[r].starts = 0
             /\ edgeReq[r].pc \in {"waiting", "writing", "committing"} => edgeReq[r].row # "none"
  BY DEF Answers, Unanswered
<1>1. ASSUME NEW r \in Reqs, Server!Arrive(r) PROVE Answers'
  <2>1. PICK how \in Sizes[r], x \in Writes[r] :
          LET q == [edgeReq[r] EXCEPT !.size = how, !.row = x]
          IN \/ edgeReq' = [edgeReq EXCEPT ![r] = Server!Refusal(q)]
             \/ edgeReq' = [edgeReq EXCEPT ![r] = [q EXCEPT !.pc = "receiving"]]
    BY <1>1 DEF Server!Arrive
  <2> DEFINE q == [edgeReq[r] EXCEPT !.size = how, !.row = x]
  <2>2. how \in Size /\ x \in Rows \cup {"none"} /\ edgeReq[r].pc = "new" /\ edgeReq[r].starts = 0
    BY <1>0, <1>1, PlatformAssumption DEF Server!Arrive, Size, Server!EdgeAssumption
  <2>3. q \in Request /\ q.starts = 0 /\ q.pc = "new"
    <3> HIDE DEF Size
    <3> QED
      BY <1>0, <2>2 DEF Request
  <2> HIDE DEF q
  <2>4. Unanswered(q)
    BY <2>3 DEF Unanswered, Server!Before
  <2>5. Server!Refusal(q) \in Request /\ Unanswered(Server!Refusal(q))
    BY <2>3, FirstAnswer DEF Server!Refusal
  <2>6. [q EXCEPT !.pc = "receiving"] \in Request /\ Unanswered([q EXCEPT !.pc = "receiving"])
    BY <2>3, <2>4, Advance DEF Server!Before
  <2> QED
    BY <2>1, <2>5, <2>6, RequestMoves DEF q
<1>2. ASSUME NEW r \in Reqs, Server!Receive(r) \/ Server!HandlerFails(r) PROVE Answers'
  <2>1. edgeReq[r].starts = 0 /\ edgeReq[r].pc \in Server!Before
    BY <1>0, <1>2 DEF Server!Receive, Server!HandlerFails, Server!Before
  <2>2. Server!Refusal(edgeReq[r]) \in Request /\ Unanswered(Server!Refusal(edgeReq[r]))
    BY <1>0, <2>1, FirstAnswer DEF Server!Refusal
  <2>3. [edgeReq[r] EXCEPT !.pc = "handling"] \in Request
        /\ Unanswered([edgeReq[r] EXCEPT !.pc = "handling"])
    BY <1>0, <2>1, Advance DEF Server!Before
  <2>4. edgeReq' = [edgeReq EXCEPT ![r] = Server!Refusal(edgeReq[r])]
        \/ edgeReq' = [edgeReq EXCEPT ![r] = [edgeReq[r] EXCEPT !.pc = "handling"]]
    BY <1>2 DEF Server!Receive, Server!HandlerFails, Server!Refused
  <2> QED
    BY <2>2, <2>3, <2>4, RequestMoves
<1>3. ASSUME NEW r \in Reqs,
             Server!Handle(r) \/ Server!Write(r) \/ Server!CommitBegin(r) \/ Server!CommitDone(r) \/ Server!Finish(r) \/ Server!Disconnect(r)
      PROVE  Answers'
  <2>1. PICK pc \in {"new", "streaming"} \cup Server!Before \cup Server!Ended :
          /\ edgeReq' = [edgeReq EXCEPT ![r] = [edgeReq[r] EXCEPT !.pc = pc]]
          /\ edgeReq[r].starts = 0 \/ pc \in Server!Ended
          /\ pc \in {"waiting", "writing", "committing"} => edgeReq[r].row # "none"
    BY <1>0, <1>3 DEF Server!Handle, Server!Write, Server!CommitBegin, Server!CommitDone,
       Server!Finish, Server!Disconnect, Server!Go, Server!Before, Server!Ended
  <2> QED
    BY <1>0, <2>1, Advance, RequestMoves
<1>4. ASSUME NEW r \in Reqs, Server!Respond(r) PROVE Answers'
  <2>1. edgeReq[r].starts = 0
    BY <1>0, <1>4 DEF Server!Respond, Server!Before
  <2>2. edgeReq' = [edgeReq EXCEPT ![r] = [edgeReq[r] EXCEPT !.pc = "streaming", !.starts = @ + 1]]
    BY <1>4 DEF Server!Respond
  <2> QED
    BY <1>0, <2>1, <2>2, FirstAnswer, RequestMoves
<1>5. ASSUME NEW r \in Reqs, Server!Timeout(r) PROVE Answers'
  <2>1. edgeReq' = [edgeReq EXCEPT ![r] = [edgeReq[r] EXCEPT !.expired = TRUE]]
    BY <1>5 DEF Server!Timeout
  <2>2. [edgeReq[r] EXCEPT !.expired = TRUE] \in Request
        /\ Unanswered([edgeReq[r] EXCEPT !.expired = TRUE])
    BY <1>0 DEF Request, Unanswered
  <2> QED
    BY <2>1, <2>2, RequestMoves
<1>6. ASSUME NEW r \in Reqs, Server!TimeoutCancel(r) PROVE Answers'
  <2>1. Server!TimeoutAnswer(r) \in Nat /\ edgeReq[r].starts + Server!TimeoutAnswer(r) <= 1
    BY <1>0 DEF Server!TimeoutAnswer, Unanswered, Request
  <2>2. edgeReq' = [edgeReq EXCEPT ![r] = [edgeReq[r] EXCEPT !.pc = "done", !.starts = @ + Server!TimeoutAnswer(r)]]
    BY <1>6 DEF Server!TimeoutCancel
  <2> QED
    BY <1>0, <2>1, <2>2, Answering, RequestMoves
<1>7. CASE UNCHANGED edgeReq
  BY <1>7 DEF Answers
<1> QED
  BY <1>1, <1>2, <1>3, <1>4, <1>5, <1>6, <1>7
  DEF Server!Next, Server!Listen, Server!Socket, Server!WindowPasses, Server!Flush,
     Server!Handshake, Server!Accept, Server!Pump, Server!Hear, Server!SecondPasses, Server!Lost,
      Server!Close, edgeVars

LEMMA PlaceRemoved ==
  ASSUME NEW S, NEW s \in Seq(S), NEW i \in 1..Len(s)
  PROVE  /\ Server!RemoveAt(s, i) \in Seq(S) /\ Len(Server!RemoveAt(s, i)) = Len(s) - 1
         /\ \A j \in 1..(Len(s) - 1) : Server!RemoveAt(s, i)[j] = IF j < i THEN s[j] ELSE s[j + 1]
<1> DEFINE a == SubSeq(s, 1, i - 1)
           b == SubSeq(s, i + 1, Len(s))
<1>1. a \in Seq(S) /\ Len(a) = i - 1 /\ \A j \in 1..(i - 1) : a[j] = s[j]
  OBVIOUS
<1>2. b \in Seq(S) /\ Len(b) = Len(s) - i /\ \A j \in 1..(Len(s) - i) : b[j] = s[i + j]
  OBVIOUS
<1> HIDE DEF a, b
<1>3. a \o b \in Seq(S) /\ Len(a \o b) = Len(s) - 1
      /\ \A j \in 1..(Len(s) - 1) : (a \o b)[j] = IF j < i THEN a[j] ELSE b[j - (i - 1)]
  <2>1. /\ a \o b \in Seq(S) /\ Len(a \o b) = Len(a) + Len(b)
        /\ \A j \in 1..(Len(a) + Len(b)) : (a \o b)[j] = IF j <= Len(a) THEN a[j] ELSE b[j - Len(a)]
    BY <1>1, <1>2, ConcatProperties
  <2>2. Len(s) \in Nat
    OBVIOUS
  <2> QED
    BY <1>1, <1>2, <2>1, <2>2
<1>4. \A j \in 1..(Len(s) - 1) : (a \o b)[j] = IF j < i THEN s[j] ELSE s[j + 1]
  BY <1>1, <1>2, <1>3
<1> QED
  BY <1>3, <1>4 DEF a, b, Server!RemoveAt

\* A request has one place at the write lock, and only while it writes.
Writing == {"waiting", "writing", "committing"}
Locked == /\ edgeWriters \in Seq(Reqs)
          /\ \A i, j \in 1..Len(edgeWriters) : edgeWriters[i] = edgeWriters[j] => i = j
          /\ \A i \in 1..Len(edgeWriters) : edgeReq[edgeWriters[i]].pc \in Writing

\* Whatever becomes of a request, its place is given up with it.
LEMMA LockLeft ==
  ASSUME Locked, NEW r \in Reqs, Server!Leaves(r), \A d \in Reqs : d # r => edgeReq'[d] = edgeReq[d]
  PROVE  Locked'
<1>1. /\ edgeWriters \in Seq(Reqs) /\ Len(edgeWriters) \in Nat
      /\ DOMAIN edgeWriters = 1..Len(edgeWriters)
      /\ \A i \in 1..Len(edgeWriters) : edgeWriters[i] \in Reqs
  BY ElementOfSeq DEF Locked
<1>2. CASE \E i \in DOMAIN edgeWriters : edgeWriters[i] = r
  <2>1. PICK i \in 1..Len(edgeWriters) :
          edgeWriters[i] = r /\ edgeWriters' = Server!RemoveAt(edgeWriters, i)
    BY <1>1, <1>2 DEF Server!Leaves
  <2>2. /\ edgeWriters' \in Seq(Reqs) /\ Len(edgeWriters') = Len(edgeWriters) - 1
        /\ \A j \in 1..(Len(edgeWriters) - 1) :
             edgeWriters'[j] = IF j < i THEN edgeWriters[j] ELSE edgeWriters[j + 1]
    BY <1>1, <2>1, PlaceRemoved
  <2> DEFINE old(j) == IF j < i THEN j ELSE j + 1
  <2>3. /\ \A j \in 1..Len(edgeWriters') : old(j) \in 1..Len(edgeWriters) /\ old(j) # i
        /\ \A j, k \in 1..Len(edgeWriters') : old(j) = old(k) => j = k
        /\ \A j \in 1..Len(edgeWriters') : edgeWriters'[j] = edgeWriters[old(j)]
    BY <1>1, <2>2
  <2> HIDE DEF old
  <2>4. \A j, k \in 1..Len(edgeWriters') : edgeWriters'[j] = edgeWriters'[k] => j = k
    BY <2>3 DEF Locked
  <2>5. \A j \in 1..Len(edgeWriters') : edgeReq'[edgeWriters'[j]].pc \in Writing
    <3>1. \A j \in 1..Len(edgeWriters') : edgeWriters'[j] # r /\ edgeWriters'[j] \in Reqs
      BY <1>1, <2>1, <2>3 DEF Locked
    <3>2. \A j \in 1..Len(edgeWriters') : edgeReq[edgeWriters'[j]].pc \in Writing
      BY <2>3 DEF Locked
    <3> QED
      BY <3>1, <3>2
  <2> QED
    BY <2>2, <2>4, <2>5 DEF Locked
<1>3. CASE ~\E i \in DOMAIN edgeWriters : edgeWriters[i] = r
  <2>1. UNCHANGED edgeWriters
    BY <1>3 DEF Server!Leaves
  <2>2. \A i \in 1..Len(edgeWriters) : edgeWriters[i] # r
    BY <1>1, <1>3
  <2> QED
    BY <1>1, <2>1, <2>2 DEF Locked
<1> QED
  BY <1>2, <1>3

\* Those that wait stay where they are; who is not among them may move at will.
LEMMA LockKept ==
  ASSUME Locked, UNCHANGED edgeWriters, NEW r \in Reqs,
         \A d \in Reqs : d # r => edgeReq'[d] = edgeReq[d],
         edgeReq[r].pc \in Writing => edgeReq'[r].pc \in Writing
  PROVE  Locked'
<1>1. \A i \in 1..Len(edgeWriters) : edgeWriters[i] \in Reqs
  BY ElementOfSeq DEF Locked
<1> QED
  BY <1>1 DEF Locked

LEMMA LockStep ==
  ASSUME Answers, Locked, [Server!Next]_edgeVars
  PROVE  Locked'
<1>0. DOMAIN edgeReq = Reqs /\ \A r \in Reqs : edgeReq[r] \in Request
  BY DEF Answers
<1>1. ASSUME NEW r \in Reqs,
             Server!CommitDone(r) \/ Server!HandlerFails(r) \/ Server!TimeoutCancel(r) \/ Server!Disconnect(r)
      PROVE  Locked'
  <2>1. Server!Leaves(r)
    BY <1>1 DEF Server!CommitDone, Server!HandlerFails, Server!TimeoutCancel, Server!Disconnect,
       Server!Cancelled
  <2>2. \A d \in Reqs : d # r => edgeReq'[d] = edgeReq[d]
    BY <1>0, <1>1 DEF Server!CommitDone, Server!HandlerFails, Server!TimeoutCancel,
       Server!Disconnect, Server!Go, Server!Refused
  <2> QED
    BY <2>1, <2>2, LockLeft
<1>2. ASSUME NEW r \in Reqs, Server!Handle(r) PROVE Locked'
  <2>1. edgeReq[r].pc = "handling"
    BY <1>2 DEF Server!Handle
  <2>2. CASE UNCHANGED edgeWriters
    <3>1. \A d \in Reqs : d # r => edgeReq'[d] = edgeReq[d]
      BY <1>0, <1>2 DEF Server!Handle, Server!Go
    <3> QED
      BY <2>1, <2>2, <3>1, LockKept DEF Writing
  <2>3. CASE Server!Go(r, "waiting") /\ edgeWriters' = Append(edgeWriters, r)
    <3>1. edgeReq'[r].pc = "waiting" /\ \A d \in Reqs : d # r => edgeReq'[d] = edgeReq[d]
      <4>1. edgeReq' = [edgeReq EXCEPT ![r] = [edgeReq[r] EXCEPT !.pc = "waiting"]]
        BY <2>3 DEF Server!Go
      <4>2. \A q \in Request : [q EXCEPT !.pc = "waiting"].pc = "waiting"
        BY DEF Request
      <4> QED
        BY <1>0, <4>1, <4>2
    <3> DEFINE n == Len(edgeWriters)
    <3>2. /\ edgeWriters \in Seq(Reqs) /\ n \in Nat
          /\ \A i \in 1..n : edgeWriters[i] \in Reqs /\ edgeWriters[i] # r
      BY <2>1, ElementOfSeq DEF Locked, Writing
    <3>3. /\ edgeWriters' \in Seq(Reqs) /\ Len(edgeWriters') = n + 1 /\ edgeWriters'[n + 1] = r
          /\ \A i \in 1..n : edgeWriters'[i] = edgeWriters[i]
      BY <2>3, <3>2, AppendProperties
    <3>4. \A i, j \in 1..n : edgeWriters[i] = edgeWriters[j] => i = j
      BY DEF Locked
    <3>5. \A i \in 1..n : edgeReq[edgeWriters[i]].pc \in Writing
      BY DEF Locked
    <3> HIDE DEF n
    <3>6. \A i \in 1..(n + 1) : i \in 1..n \/ i = n + 1
      BY <3>2
    <3>7. \A i, j \in 1..(n + 1) : edgeWriters'[i] = edgeWriters'[j] => i = j
      BY <3>2, <3>3, <3>4, <3>6
    <3>8. \A i \in 1..(n + 1) : edgeReq'[edgeWriters'[i]].pc \in Writing
      BY <3>1, <3>2, <3>3, <3>5, <3>6 DEF Writing
    <3> QED
      BY <3>3, <3>7, <3>8 DEF Locked
  <2> QED
    BY <1>2, <2>2, <2>3 DEF Server!Handle
<1>3. ASSUME NEW r \in Reqs, Server!Write(r) \/ Server!CommitBegin(r) PROVE Locked'
  <2>1. PICK pc \in Writing : edgeReq' = [edgeReq EXCEPT ![r] = [edgeReq[r] EXCEPT !.pc = pc]]
    BY <1>3 DEF Server!Write, Server!CommitBegin, Server!Go, Writing
  <2>2. \A q \in Request : [q EXCEPT !.pc = pc].pc = pc
    BY DEF Request
  <2>3. edgeReq'[r].pc \in Writing /\ \A d \in Reqs : d # r => edgeReq'[d] = edgeReq[d]
    BY <1>0, <2>1, <2>2
  <2>4. UNCHANGED edgeWriters
    BY <1>3 DEF Server!Write, Server!CommitBegin
  <2> QED
    BY <2>3, <2>4, LockKept
<1>4. ASSUME NEW r \in Reqs,
             Server!Arrive(r) \/ Server!Receive(r) \/ Server!Respond(r) \/ Server!Finish(r)
      PROVE  Locked'
  <2>1. edgeReq[r].pc \notin Writing /\ UNCHANGED edgeWriters
    BY <1>4 DEF Server!Arrive, Server!Receive, Server!Respond, Server!Finish, Writing
  <2>2. \A d \in Reqs : d # r => edgeReq'[d] = edgeReq[d]
    BY <1>0, <1>4 DEF Server!Arrive, Server!Receive, Server!Respond, Server!Finish, Server!Go,
       Server!Refused
  <2> QED
    BY <2>1, <2>2, LockKept
<1>5. ASSUME NEW r \in Reqs, Server!Timeout(r) PROVE Locked'
  <2>1. edgeReq' = [edgeReq EXCEPT ![r] = [edgeReq[r] EXCEPT !.expired = TRUE]] /\ UNCHANGED edgeWriters
    BY <1>5 DEF Server!Timeout
  <2>2. \A q \in Request : [q EXCEPT !.expired = TRUE].pc = q.pc
    BY DEF Request
  <2>3. edgeReq'[r].pc = edgeReq[r].pc /\ \A d \in Reqs : d # r => edgeReq'[d] = edgeReq[d]
    BY <1>0, <2>1, <2>2
  <2> QED
    BY <2>1, <2>3, LockKept
<1>6. CASE UNCHANGED <<edgeReq, edgeWriters>>
  BY <1>6 DEF Locked
<1> QED
  BY <1>1, <1>2, <1>3, <1>4, <1>5, <1>6
     DEF Server!Next, Server!Listen, Server!Socket, Server!WindowPasses, Server!Flush,
         Server!Handshake, Server!Accept, Server!Pump, Server!Hear, Server!SecondPasses,
         Server!Lost, Server!Close, edgeVars

(***************************************************************************)
(* The listener: what a connected browser is told.                         *)
(***************************************************************************)
Message == [row : Rows, v : Nat]
Connection == [pc : {"off", "accepting", "open", "closing", "closed"}, queue : Seq(Message),
            dropped : BOOLEAN, heard : Nat]

FeedTypes == /\ edgeRow \in [Rows -> Nat] /\ edgePending \in Seq(Message)
             /\ edgeSock \in [Socks -> Connection]
             /\ edgeView \in [Socks -> [Rows -> Nat]] /\ edgeDue \in [Socks -> [Rows -> Nat]]

(* Nothing is promised that was not written, and nothing to a socket that   *)
(* never was there.                                                         *)
Promised == \A s \in Socks, x \in Rows :
              /\ edgeDue[s][x] <= edgeRow[x]
              /\ edgeSock[s].pc = "off" => edgeDue[s][x] <= edgeView[s][x]

Waiting(s, x) ==
  \/ edgeDue[s][x] <= edgeView[s][x]
  \/ edgeArmed /\ \E i \in DOMAIN edgePending : edgePending[i].row = x
  \/ \E i \in DOMAIN edgeSock[s].queue : edgeSock[s].queue[i].row = x

Feed == /\ FeedTypes /\ Promised
        /\ \A s \in Socks, x \in Rows : Server!Registered(s) => Waiting(s, x)

EdgeInv == Answers /\ Feed

LEMMA FeedInit == ASSUME Server!Init PROVE Feed
<1>1. Server!Off \in Connection
  BY DEF Server!Off, Connection
<1>2. Server!Nothing \in [Rows -> Nat] /\ \A x \in Rows : Server!Nothing[x] = 0
  BY DEF Server!Nothing
<1>3. FeedTypes
  BY <1>1, <1>2 DEF Server!Init, FeedTypes
<1> QED
  BY <1>2, <1>3 DEF Server!Init, Feed, Promised, Waiting

(* A window's messages name every row that changed in it.                   *)
LEMMA CoalescedCovers ==
  ASSUME edgePending \in Seq(Message), NEW x \in Rows, NEW v \in Nat
  PROVE  /\ Server!Coalesced(x, v) \in Seq(Message)
         /\ \E i \in DOMAIN Server!Coalesced(x, v) : Server!Coalesced(x, v)[i].row = x
         /\ \A y \in Rows : (\E i \in DOMAIN edgePending : edgePending[i].row = y)
                              => \E i \in DOMAIN Server!Coalesced(x, v) : Server!Coalesced(x, v)[i].row = y
<1> DEFINE m == [row |-> x, v |-> v]
<1>0. m \in Message /\ m.row = x
  BY DEF Message
<1> HIDE DEF m
<1>1. CASE \E i \in DOMAIN edgePending : edgePending[i].row = x
  <2> DEFINE q == [i \in DOMAIN edgePending |-> IF edgePending[i].row = x THEN m ELSE edgePending[i]]
  <2>1. Server!Coalesced(x, v) = q
    BY <1>1 DEF Server!Coalesced, m
  <2>2. DOMAIN q = 1..Len(edgePending) /\ DOMAIN edgePending = 1..Len(edgePending) /\ Len(edgePending) \in Nat
    OBVIOUS
  <2>3. \A i \in 1..Len(edgePending) : q[i] \in Message /\ q[i].row = edgePending[i].row
    BY <1>0, <2>2
  <2>4. q \in Seq(Message)
    BY <2>2, <2>3
  <2> HIDE DEF q
  <2> QED
    BY <1>1, <2>1, <2>2, <2>3, <2>4
<1>2. CASE ~\E i \in DOMAIN edgePending : edgePending[i].row = x
  <2>1. Server!Coalesced(x, v) = Append(edgePending, m)
    BY <1>2 DEF Server!Coalesced, m
  <2>2. DOMAIN Append(edgePending, m) = 1..Len(edgePending) + 1 /\ Append(edgePending, m) \in Seq(Message)
        /\ Append(edgePending, m)[Len(edgePending) + 1] = m
        /\ \A i \in 1..Len(edgePending) : Append(edgePending, m)[i] = edgePending[i]
    BY <1>0
  <2> QED
    BY <1>0, <2>1, <2>2
<1> QED
  BY <1>1, <1>2

(* What a flush leaves a socket with.                                       *)
LEMMA OfferedKeeps ==
  ASSUME edgePending \in Seq(Message), QueueMax \in Nat, NEW s \in Socks, edgeSock[s] \in Connection
  PROVE  /\ Server!Offered(s) \in Connection /\ Server!Offered(s).pc = edgeSock[s].pc
         /\ ~Server!Offered(s).dropped => /\ ~edgeSock[s].dropped
                                   /\ Server!Offered(s).queue = edgeSock[s].queue \o edgePending
<1> DEFINE room == QueueMax - Len(edgeSock[s].queue)
<1>1. edgeSock[s].queue \in Seq(Message) /\ room \in Int
  BY DEF Connection
<1>2. CASE Len(edgePending) > room
  <2>1. SubSeq(edgePending, 1, room) \in Seq(Message)
    BY <1>1, <1>2
  <2>2. edgeSock[s].queue \o SubSeq(edgePending, 1, room) \in Seq(Message)
    BY <1>1, <2>1
  <2>3. Server!Offered(s) = [edgeSock[s] EXCEPT !.queue = edgeSock[s].queue \o SubSeq(edgePending, 1, room),
                                     !.dropped = TRUE]
    BY <1>2 DEF Server!Offered
  <2> QED
    BY <2>2, <2>3 DEF Connection
<1>3. CASE ~(Len(edgePending) > room)
  <2>1. edgeSock[s].queue \o edgePending \in Seq(Message)
    BY <1>1
  <2>2. Server!Offered(s) = [edgeSock[s] EXCEPT !.queue = edgeSock[s].queue \o edgePending]
    BY <1>3 DEF Server!Offered
  <2> QED
    BY <2>1, <2>2 DEF Connection
<1> QED
  BY <1>2, <1>3

(* A step of one socket that delivers nothing.                              *)
LEMMA SocketMoves ==
  ASSUME Feed, NEW s \in Socks, NEW q \in Connection, edgeSock' = [edgeSock EXCEPT ![s] = q],
         UNCHANGED <<edgeRow, edgePending, edgeArmed, edgeView, edgeDue>>,
         q.pc = "off" => edgeSock[s].pc = "off",
         q.pc \in {"accepting", "open"} /\ ~q.dropped =>
           q.queue = edgeSock[s].queue /\ (Server!Registered(s) \/ edgeSock[s].pc = "off")
  PROVE  Feed'
<1> USE DEF Feed
<1>1. FeedTypes'
  BY DEF FeedTypes
<1>2. edgeSock'[s] = q /\ \A t \in Socks : t # s => edgeSock'[t] = edgeSock[t]
  BY DEF FeedTypes
<1>3. Promised'
  BY <1>2 DEF Promised
<1>4. ASSUME NEW t \in Socks, NEW x \in Rows, Server!Registered(t)' PROVE Waiting(t, x)'
  <2>1. CASE t = s
    <3>1. edgeSock'[s].queue = edgeSock[s].queue /\ (Server!Registered(s) \/ edgeSock[s].pc = "off")
      BY <1>2, <1>4, <2>1 DEF Server!Registered
    <3>2. Waiting(s, x)
      BY <3>1 DEF Promised, Waiting
    <3> QED
      BY <2>1, <3>1, <3>2 DEF Waiting
  <2>2. CASE t # s
    BY <1>2, <1>4, <2>2 DEF Server!Registered, Waiting
  <2> QED
    BY <2>1, <2>2
<1> QED
  BY <1>1, <1>3, <1>4

LEMMA FeedStep ==
  ASSUME EdgeInv, [Server!Next]_edgeVars
  PROVE  Feed'
<1> USE DEF EdgeInv
<1>0. ASSUME NEW s \in Socks PROVE edgeSock[s] \in Connection
  BY DEF Feed, FeedTypes
<1>1. ASSUME NEW r \in Reqs, Server!CommitDone(r) PROVE Feed'
  <2> DEFINE x == edgeReq[r].row
             v == edgeRow[x] + 1
  <2>1. x \in Rows
    BY <1>1 DEF Server!CommitDone, Answers, Unanswered, Request
  <2>2. v \in Nat
    BY <2>1 DEF Feed, FeedTypes
  <2>3. /\ edgeRow' = [edgeRow EXCEPT ![x] = v]
        /\ edgePending' = Server!Coalesced(x, v) /\ edgeArmed' = TRUE
        /\ edgeDue' = [s \in Socks |-> IF Server!Registered(s) THEN [edgeDue[s] EXCEPT ![x] = v] ELSE edgeDue[s]]
        /\ UNCHANGED <<edgeSock, edgeView>>
    BY <1>1 DEF Server!CommitDone, Server!OnEvent
  <2> HIDE DEF x, v
  <2>4. /\ edgePending' \in Seq(Message)
        /\ \E i \in DOMAIN edgePending' : edgePending'[i].row = x
        /\ \A y \in Rows : (\E i \in DOMAIN edgePending : edgePending[i].row = y)
                             => \E i \in DOMAIN edgePending' : edgePending'[i].row = y
    <3>1. edgePending \in Seq(Message)
      BY DEF Feed, FeedTypes
    <3>2. edgePending' = Server!Coalesced(x, v)
      BY <2>3
    <3> QED
      BY <2>1, <2>2, <3>1, <3>2, CoalescedCovers
  <2>5. FeedTypes'
    <3>1. edgeRow \in [Rows -> Nat] /\ edgeDue \in [Socks -> [Rows -> Nat]]
      BY DEF Feed, FeedTypes
    <3>2. edgeRow' \in [Rows -> Nat]
      BY <2>1, <2>2, <2>3, <3>1
    <3>3. edgeDue' \in [Socks -> [Rows -> Nat]]
      BY <2>1, <2>2, <2>3, <3>1
    <3> QED
      BY <2>3, <2>4, <3>2, <3>3 DEF Feed, FeedTypes
  <2>10. \A s \in Socks, y \in Rows :
           edgeDue'[s][y] = IF Server!Registered(s) /\ y = x THEN v ELSE edgeDue[s][y]
    BY <2>1, <2>3 DEF Feed, FeedTypes
  <2>11. \A y \in Rows : edgeRow'[y] = IF y = x THEN v ELSE edgeRow[y]
    BY <2>1, <2>3 DEF Feed, FeedTypes
  <2>6. \A s \in Socks, y \in Rows :
          /\ edgeDue'[s][y] = IF Server!Registered(s) /\ y = x THEN v ELSE edgeDue[s][y]
          /\ edgeRow'[y] = IF y = x THEN v ELSE edgeRow[y]
    BY <2>10, <2>11
  <2>7. v > edgeRow[x]
    BY <2>1 DEF v, Feed, FeedTypes
  <2>8. Promised'
    <3> SUFFICES ASSUME NEW s \in Socks, NEW y \in Rows
                 PROVE  /\ edgeDue'[s][y] <= edgeRow'[y]
                        /\ edgeSock'[s].pc = "off" => edgeDue'[s][y] <= edgeView'[s][y]
      BY DEF Promised
    <3>1. edgeDue[s][y] \in Nat /\ edgeRow[y] \in Nat /\ edgeDue[s][y] <= edgeRow[y]
      BY DEF Feed, FeedTypes, Promised
    <3>2. edgeSock[s].pc = "off" => ~Server!Registered(s) /\ edgeDue[s][y] <= edgeView[s][y]
      BY DEF Feed, Promised, Server!Registered
    <3> QED
      BY <2>2, <2>3, <2>6, <2>7, <3>1, <3>2
  <2>9. ASSUME NEW s \in Socks, NEW y \in Rows, Server!Registered(s)' PROVE Waiting(s, y)'
    <3>1. Server!Registered(s)
      BY <2>3, <2>9 DEF Server!Registered
    <3>2. Waiting(s, y)
      BY <3>1 DEF Feed
    <3> QED
      BY <2>3, <2>4, <2>6, <3>2 DEF Waiting
  <2> QED
    BY <2>5, <2>8, <2>9 DEF Feed
<1>2. ASSUME NEW r \in Reqs, Server!TimeoutCancel(r) \/ Server!Disconnect(r) PROVE Feed'
  <2>1. UNCHANGED <<edgePending, edgeArmed, edgeSock, edgeView, edgeDue>>
        /\ (edgeRow' = edgeRow \/ edgeRow' = [edgeRow EXCEPT ![edgeReq[r].row] = @ + 1])
    BY <1>2 DEF Server!TimeoutCancel, Server!Disconnect, Server!Cancelled, Server!feed
  <2>2. edgeRow' \in [Rows -> Nat] /\ \A x \in Rows : edgeRow'[x] \in Nat /\ edgeRow'[x] >= edgeRow[x]
    <3>1. edgeRow \in [Rows -> Nat] /\ \A x \in Rows : edgeRow[x] \in Nat /\ edgeRow[x] >= edgeRow[x]
      BY DEF Feed, FeedTypes
    <3>2. CASE edgeRow' = edgeRow
      BY <3>1, <3>2
    <3>3. CASE edgeRow' = [edgeRow EXCEPT ![edgeReq[r].row] = @ + 1]
      <4> DEFINE z == edgeReq[r].row
      <4>1. edgeRow' = [edgeRow EXCEPT ![z] = edgeRow[z] + 1]
        BY <3>3
      <4> HIDE DEF z
      <4>2. DOMAIN edgeRow' = Rows /\ edgeRow' = [x \in Rows |-> edgeRow'[x]]
        BY <3>1, <4>1
      <4>3. ASSUME NEW x \in Rows PROVE edgeRow'[x] \in Nat /\ edgeRow'[x] >= edgeRow[x]
        <5>1. edgeRow'[x] = IF x = z THEN edgeRow[x] + 1 ELSE edgeRow[x]
          BY <3>1, <4>1
        <5> QED
          BY <3>1, <5>1
      <4> QED
        BY <4>2, <4>3
    <3> QED
      BY <2>1, <3>2, <3>3
  <2>3. FeedTypes'
    BY <2>1, <2>2 DEF Feed, FeedTypes
  <2>4. \A s \in Socks, x \in Rows : edgeDue[s][x] \in Nat /\ edgeRow[x] \in Nat
    BY DEF Feed, FeedTypes
  <2>5. Promised'
    BY <2>1, <2>2, <2>4 DEF Feed, Promised
  <2> QED
    BY <2>1, <2>3, <2>5 DEF Feed, Waiting, Server!Registered
<1>3. CASE Server!Flush
  <2>1. /\ edgeArmed' = FALSE /\ edgePending' = <<>> /\ UNCHANGED <<edgeRow, edgeView, edgeDue>>
        /\ edgeSock' = [s \in Socks |-> IF Server!Registered(s) THEN Server!Offered(s) ELSE edgeSock[s]]
    BY <1>3 DEF Server!Flush
  <2>2. ASSUME NEW s \in Socks
        PROVE  /\ edgeSock'[s] \in Connection /\ edgeSock'[s].pc = edgeSock[s].pc
               /\ edgeSock'[s].pc \in {"accepting", "open"} /\ ~edgeSock'[s].dropped =>
                    Server!Registered(s) /\ edgeSock'[s].queue = edgeSock[s].queue \o edgePending
    BY <1>0, <2>1, OfferedKeeps, PlatformAssumption DEF Server!Registered, Feed, FeedTypes,
       Server!EdgeAssumption
  <2>3. FeedTypes'
    BY <2>1, <2>2 DEF Feed, FeedTypes
  <2>4. Promised'
    BY <2>1, <2>2 DEF Feed, Promised
  <2>5. ASSUME NEW s \in Socks, NEW x \in Rows, Server!Registered(s)' PROVE Waiting(s, x)'
    <3>1. Server!Registered(s) /\ edgeSock'[s].queue = edgeSock[s].queue \o edgePending
      BY <2>2, <2>5 DEF Server!Registered
    <3>2. Waiting(s, x)
      BY <3>1 DEF Feed
    <3>3. edgeSock[s].queue \in Seq(Message) /\ edgePending \in Seq(Message)
      BY <1>0 DEF Connection, Feed, FeedTypes
    <3>4. CASE edgeDue[s][x] <= edgeView[s][x]
      BY <2>1, <3>4 DEF Waiting
    <3>5. ASSUME NEW i \in DOMAIN edgePending, edgePending[i].row = x PROVE Waiting(s, x)'
      <4>1. Len(edgeSock[s].queue) + i \in DOMAIN edgeSock'[s].queue
            /\ edgeSock'[s].queue[Len(edgeSock[s].queue) + i] = edgePending[i]
        <5> DEFINE old == edgeSock[s].queue
                   new == edgeSock'[s].queue
        <5>1. old \in Seq(Message) /\ new = old \o edgePending
          BY <3>1, <3>3
        <5> HIDE DEF old, new
        <5>2. Len(old) \in Nat /\ Len(edgePending) \in Nat /\ i \in 1..Len(edgePending)
          BY <3>3, <3>5, <5>1
        <5>3. Len(new) = Len(old) + Len(edgePending) /\ DOMAIN new = 1..Len(new)
          BY <3>3, <5>1
        <5>4. Len(old) + i \in DOMAIN new
          BY <5>2, <5>3
        <5>5. new[Len(old) + i] = edgePending[i]
          BY <3>3, <5>1, <5>2
        <5> QED
          BY <5>4, <5>5 DEF old, new
      <4> QED
        BY <3>5, <4>1 DEF Waiting
    <3>6. ASSUME NEW i \in DOMAIN edgeSock[s].queue, edgeSock[s].queue[i].row = x PROVE Waiting(s, x)'
      <4>1. i \in DOMAIN edgeSock'[s].queue /\ edgeSock'[s].queue[i] = edgeSock[s].queue[i]
        BY <3>1, <3>3, <3>6
      <4> QED
        BY <3>6, <4>1 DEF Waiting
    <3> QED
      BY <3>2, <3>4, <3>5, <3>6 DEF Waiting
  <2> QED
    BY <2>3, <2>4, <2>5 DEF Feed
<1>4. ASSUME NEW s \in Socks, Server!Pump(s) PROVE Feed'
  <2> DEFINE queue == edgeSock[s].queue
             x == Head(queue).row
  <2>1. queue \in Seq(Message) /\ queue # <<>>
    BY <1>0, <1>4 DEF Connection, Server!Pump
  <2>2. x \in Rows /\ Tail(queue) \in Seq(Message)
    <3> HIDE DEF queue
    <3>1. Head(queue) \in Message /\ Tail(queue) \in Seq(Message)
      BY <2>1
    <3> QED
      BY <3>1 DEF Message
  <2>3. PICK pc \in {"open", "closing"} :
          edgeSock' = [edgeSock EXCEPT ![s] = [edgeSock[s] EXCEPT !.queue = Tail(queue), !.pc = pc]]
    BY <1>4 DEF Server!Pump, Server!Deliver
  <2>4. edgeView' = [edgeView EXCEPT ![s][x] = edgeRow[x]] /\ UNCHANGED <<edgeRow, edgePending, edgeArmed, edgeDue>>
        /\ edgeSock[s].pc = "open"
    BY <1>4 DEF Server!Pump, Server!Deliver
  <2> DEFINE q == [edgeSock[s] EXCEPT !.queue = Tail(queue), !.pc = pc]
  <2>5. q \in Connection /\ q.pc = pc /\ q.queue = Tail(queue) /\ q.dropped = edgeSock[s].dropped
    <3> HIDE DEF queue
    <3> QED
      BY <1>0, <2>2 DEF Connection
  <2> HIDE DEF q, queue
  <2>6. edgeSock'[s] = q /\ edgeSock' \in [Socks -> Connection]
        /\ \A t \in Socks : t # s => edgeSock'[t] = edgeSock[t]
    BY <2>3, <2>5 DEF q, Feed, FeedTypes
  <2> HIDE DEF x
  <2>7. edgeView' \in [Socks -> [Rows -> Nat]]
        /\ \A t \in Socks, y \in Rows :
             edgeView'[t][y] = IF t = s /\ y = x THEN edgeRow[x] ELSE edgeView[t][y]
    BY <2>2, <2>4 DEF Feed, FeedTypes
  <2>8. FeedTypes'
    BY <2>4, <2>6, <2>7 DEF Feed, FeedTypes
  <2>9. Promised'
    BY <2>4, <2>5, <2>6, <2>7 DEF Feed, Promised
  <2>10. ASSUME NEW t \in Socks, NEW y \in Rows, Server!Registered(t)' PROVE Waiting(t, y)'
    <3>1. CASE t # s
      BY <2>4, <2>6, <2>7, <2>10, <3>1 DEF Feed, Server!Registered, Waiting
    <3>2. CASE t = s /\ y = x
      BY <2>4, <2>7, <3>2 DEF Feed, Promised, Waiting
    <3>3. CASE t = s /\ y # x
      <4>1. Server!Registered(s)
        BY <2>4, <2>5, <2>6, <2>10, <3>3 DEF Server!Registered
      <4>2. Waiting(s, y)
        BY <4>1 DEF Feed
      <4>3. ASSUME NEW i \in DOMAIN queue, queue[i].row = y
            PROVE  \E j \in DOMAIN Tail(queue) : Tail(queue)[j].row = y
        <5>1. i # 1
          BY <2>1, <3>3, <4>3 DEF x
        <5>2. i - 1 \in DOMAIN Tail(queue) /\ Tail(queue)[i - 1] = queue[i]
          BY <2>1, <4>3, <5>1
        <5> QED
          BY <4>3, <5>2
      <4> QED
        BY <2>4, <2>5, <2>6, <2>7, <3>3, <4>2, <4>3 DEF Waiting, queue
    <3> QED
      BY <3>1, <3>2, <3>3
  <2> QED
    BY <2>8, <2>9, <2>10 DEF Feed
<1>5. ASSUME NEW s \in Socks, Server!Handshake(s) \/ Server!Accept(s) \/ Server!Lost(s) PROVE Feed'
  <2>1. PICK pc \in {"accepting", "open", "closing"} :
          /\ edgeSock' = [edgeSock EXCEPT ![s] = [edgeSock[s] EXCEPT !.pc = pc]]
          /\ edgeSock[s].pc \in {"off", "accepting", "open"}
    BY <1>5 DEF Server!Handshake, Server!Accept, Server!Lost
  <2>2. UNCHANGED <<edgeRow, edgePending, edgeArmed, edgeView, edgeDue>>
    BY <1>5 DEF Server!Handshake, Server!Accept, Server!Lost
  <2> DEFINE q == [edgeSock[s] EXCEPT !.pc = pc]
  <2>3. q \in Connection /\ q.pc = pc /\ q.queue = edgeSock[s].queue /\ q.dropped = edgeSock[s].dropped
    BY <1>0 DEF Connection
  <2> HIDE DEF q
  <2> QED
    BY <2>1, <2>2, <2>3, SocketMoves DEF q, Server!Registered
<1>6. ASSUME NEW s \in Socks, Server!Hear(s) \/ Server!SecondPasses(s) PROVE Feed'
  <2>1. PICK pc \in {"closing", edgeSock[s].pc}, n \in Nat :
          edgeSock' = [edgeSock EXCEPT ![s] = [edgeSock[s] EXCEPT !.heard = n, !.pc = pc]]
    <3>1. edgeSock[s].heard \in Nat
      BY <1>0 DEF Connection
    <3>2. CASE Server!Hear(s)
      <4>1. PICK large \in BOOLEAN :
              edgeSock' = [edgeSock EXCEPT
                ![s].heard = @ + IF large THEN 0 ELSE 1,
                ![s].pc = IF large \/ edgeSock[s].heard + 1 > InboundMax THEN "closing" ELSE @]
        BY <3>2 DEF Server!Hear
      <4>2. edgeSock[s].heard + (IF large THEN 0 ELSE 1) \in Nat
        BY <3>1
      <4> QED
        BY <4>1, <4>2, <1>0 DEF Connection, Feed, FeedTypes
    <3>3. CASE Server!SecondPasses(s)
      <4>1. edgeSock' = [edgeSock EXCEPT ![s].heard = @ - 1] /\ edgeSock[s].heard - 1 \in Nat
        BY <3>1, <3>3 DEF Server!SecondPasses
      <4> QED
        BY <4>1, <1>0 DEF Connection, Feed, FeedTypes
    <3> QED
      BY <1>6, <3>2, <3>3
  <2>2. UNCHANGED <<edgeRow, edgePending, edgeArmed, edgeView, edgeDue>>
    BY <1>6 DEF Server!Hear, Server!SecondPasses
  <2> DEFINE q == [edgeSock[s] EXCEPT !.heard = n, !.pc = pc]
  <2>3. q \in Connection /\ q.pc = pc /\ q.queue = edgeSock[s].queue /\ q.dropped = edgeSock[s].dropped
    BY <1>0 DEF Connection
  <2> HIDE DEF q
  <2> QED
    BY <2>1, <2>2, <2>3, SocketMoves DEF q, Server!Registered
<1>7. ASSUME NEW s \in Socks, Server!Close(s) PROVE Feed'
  <2> DEFINE q == [Server!Off EXCEPT !.pc = "closed"]
  <2>1. q \in Connection /\ q.pc = "closed"
    <3>1. Server!Off \in Connection
      <4>1. <<>> \in Seq(Message)
        OBVIOUS
      <4> QED
        BY <4>1 DEF Server!Off, Connection
    <3> QED
      BY <3>1 DEF Connection
  <2>2. edgeSock' = [edgeSock EXCEPT ![s] = q] /\ UNCHANGED <<edgeRow, edgePending, edgeArmed, edgeView, edgeDue>>
    BY <1>7 DEF Server!Close
  <2> HIDE DEF q
  <2> QED
    BY <2>1, <2>2, SocketMoves
<1>8. CASE UNCHANGED <<edgeRow, Server!feed>>
  BY <1>8 DEF Server!feed, Feed, FeedTypes, Promised, Waiting, Server!Registered
<1> QED
  BY <1>1, <1>2, <1>3, <1>4, <1>5, <1>6, <1>7, <1>8
  DEF Server!Next, Server!Listen, Server!Socket, Server!WindowPasses, Server!Arrive,
     Server!Receive, Server!Handle, Server!Write, Server!CommitBegin, Server!HandlerFails,
      Server!Respond, Server!Finish, Server!Timeout, edgeVars, Server!feed


\* A queue never outgrows its bound, nor the connections theirs.
Limited == /\ \A s \in Socks : Len(edgeSock[s].queue) <= QueueMax
           /\ Cardinality(Server!Connections) <= MaxConnections

EdgeLimits == EdgeInv /\ Locked /\ Limited

LEMMA CountSocks ==
  /\ \A S : Server!Cardinality(S) = Cardinality(S)
  /\ \A S \in SUBSET Socks : Cardinality(S) \in Nat /\ \A T \in SUBSET S : Cardinality(T) <= Cardinality(S)
  /\ \A S \in SUBSET Socks : \A s \in Socks \ S : Cardinality(S \cup {s}) = Cardinality(S) + 1
  /\ QueueMax \in Nat /\ MaxConnections \in Nat
<1>1. \A S : Server!Cardinality(S) = Cardinality(S) /\ Server!IsFiniteSet(S) = IsFiniteSet(S)
  BY DEF Cardinality, Server!Cardinality, IsFiniteSet, Server!IsFiniteSet
<1>2. IsFiniteSet(Socks) /\ QueueMax \in Nat /\ MaxConnections \in Nat
  BY <1>1, PlatformAssumption DEF Server!EdgeAssumption
<1>3. \A S \in SUBSET Socks : IsFiniteSet(S)
  BY <1>2, FS_Subset
<1>4. \A S \in SUBSET Socks : Cardinality(S) \in Nat /\ \A T \in SUBSET S : Cardinality(T) <= Cardinality(S)
  BY <1>3, FS_Subset, FS_CardinalityType
<1>5. \A S \in SUBSET Socks : \A s \in Socks \ S : Cardinality(S \cup {s}) = Cardinality(S) + 1
  BY <1>3, FS_AddElement
<1> QED
  BY <1>1, <1>2, <1>4, <1>5

LEMMA OfferedFits ==
  ASSUME edgePending \in Seq(Message), NEW s \in Socks, edgeSock[s] \in Connection,
         Len(edgeSock[s].queue) <= QueueMax
  PROVE  Len(Server!Offered(s).queue) <= QueueMax
<1> DEFINE queue == edgeSock[s].queue
           room == QueueMax - Len(queue)
<1>1. queue \in Seq(Message) /\ Len(queue) \in Nat /\ Len(edgePending) \in Nat /\ room \in Nat
  BY CountSocks DEF Connection
<1>2. CASE Len(edgePending) > room
  <2> DEFINE part == SubSeq(edgePending, 1, room)
  <2>1. part \in Seq(Message) /\ Len(part) = room
    BY <1>1, <1>2
  <2>2. Len(queue \o part) = QueueMax
    <3> HIDE DEF part
    <3>1. Len(queue \o part) = Len(queue) + Len(part)
      BY <1>1, <2>1, ConcatProperties
    <3> QED
      BY <1>1, <2>1, <3>1, CountSocks
  <2>3. Server!Offered(s).queue = queue \o part
    <3>1. Server!Offered(s) = [edgeSock[s] EXCEPT !.queue = queue \o part, !.dropped = TRUE]
      BY <1>2 DEF Server!Offered
    <3> HIDE DEF queue, part
    <3> QED
      BY <3>1 DEF Connection
  <2>4. \A n \in Nat : n <= n
    OBVIOUS
  <2> QED
    BY <2>2, <2>3, <2>4, CountSocks
<1>3. CASE ~(Len(edgePending) > room)
  <2>1. Len(queue \o edgePending) = Len(queue) + Len(edgePending)
    BY <1>1, ConcatProperties
  <2>2. Len(queue \o edgePending) <= QueueMax
    BY <1>1, <1>3, <2>1, CountSocks
  <2>3. Server!Offered(s).queue = queue \o edgePending
    <3>1. Server!Offered(s) = [edgeSock[s] EXCEPT !.queue = queue \o edgePending]
      BY <1>3 DEF Server!Offered
    <3> HIDE DEF queue
    <3> QED
      BY <3>1 DEF Connection
  <2> QED
    BY <2>2, <2>3
<1> QED
  BY <1>2, <1>3

LEMMA LimitsStep ==
  ASSUME EdgeInv, Limited, [Server!Next]_edgeVars
  PROVE  Limited'
<1>1. /\ edgeSock \in [Socks -> Connection] /\ edgePending \in Seq(Message)
      /\ \A s \in Socks : edgeSock[s] \in Connection /\ Len(edgeSock[s].queue) <= QueueMax
      /\ Server!Connections \in SUBSET Socks /\ Cardinality(Server!Connections) <= MaxConnections
  BY DEF EdgeInv, Feed, FeedTypes, Limited, Server!Connections
\* No more connections than there were.
<1>2. ASSUME \A s \in Socks : Len(edgeSock'[s].queue) <= QueueMax /\ (Server!Registered(s)' => Server!Registered(s))
      PROVE  Limited'
  <2>1. Server!Connections' \in SUBSET Server!Connections
    BY <1>2 DEF Server!Connections
  <2>2. Cardinality(Server!Connections') <= MaxConnections
    <3> DEFINE A == Server!Connections
               B == Server!Connections'
    <3> HIDE DEF A, B
    <3>1. A \in SUBSET Socks /\ B \in SUBSET A /\ B \in SUBSET Socks /\ Cardinality(A) <= MaxConnections
      BY <1>1, <2>1 DEF A, B
    <3>2. Cardinality(A) \in Nat /\ Cardinality(B) \in Nat /\ Cardinality(B) <= Cardinality(A)
      BY <3>1, CountSocks
    <3>3. Cardinality(B) <= MaxConnections
      BY <3>1, <3>2, CountSocks
    <3> QED
      BY <3>3 DEF B
  <2> QED
    BY <1>2, <2>2 DEF Limited
\* What a step does to one socket.
<1>3. ASSUME NEW s \in Socks, NEW q, edgeSock' = [edgeSock EXCEPT ![s] = q],
             Len(q.queue) <= QueueMax,
             q.pc \in {"accepting", "open"} /\ ~q.dropped => Server!Registered(s)
      PROVE  Limited'
  <2>1. edgeSock'[s] = q /\ \A t \in Socks : t # s => edgeSock'[t] = edgeSock[t]
    BY <1>1, <1>3
  <2> QED
    BY <1>1, <1>2, <1>3, <2>1 DEF Server!Registered
<1>4. ASSUME NEW s \in Socks, Server!Accept(s) \/ Server!Lost(s) PROVE Limited'
  <2>1. PICK pc \in {"open", "closing"} :
          /\ edgeSock' = [edgeSock EXCEPT ![s] = [edgeSock[s] EXCEPT !.pc = pc]]
          /\ edgeSock[s].pc \in {"accepting", "open"}
    BY <1>4 DEF Server!Accept, Server!Lost
  <2> DEFINE q == [edgeSock[s] EXCEPT !.pc = pc]
  <2>2. q.queue = edgeSock[s].queue /\ q.dropped = edgeSock[s].dropped
    BY <1>1 DEF Connection
  <2> HIDE DEF q
  <2> QED
    BY <1>1, <1>3, <2>1, <2>2 DEF q, Server!Registered
<1>5. ASSUME NEW s \in Socks, Server!Hear(s) \/ Server!SecondPasses(s) PROVE Limited'
  <2>1. PICK pc \in {"closing", edgeSock[s].pc}, n \in Int :
          edgeSock' = [edgeSock EXCEPT ![s] = [edgeSock[s] EXCEPT !.heard = n, !.pc = pc]]
    <3>1. edgeSock[s].heard \in Nat
      BY <1>1 DEF Connection
    <3>2. CASE Server!Hear(s)
      <4>1. PICK large \in BOOLEAN :
              edgeSock' = [edgeSock EXCEPT
                ![s].heard = @ + IF large THEN 0 ELSE 1,
                ![s].pc = IF large \/ edgeSock[s].heard + 1 > InboundMax THEN "closing" ELSE @]
        BY <3>2 DEF Server!Hear
      <4>2. edgeSock[s].heard + (IF large THEN 0 ELSE 1) \in Int
        BY <3>1
      <4> QED
        BY <1>1, <4>1, <4>2 DEF Connection
    <3>3. CASE Server!SecondPasses(s)
      <4>1. edgeSock' = [edgeSock EXCEPT ![s].heard = @ - 1] /\ edgeSock[s].heard - 1 \in Int
        BY <3>1, <3>3 DEF Server!SecondPasses
      <4> QED
        BY <1>1, <4>1 DEF Connection
    <3> QED
      BY <1>5, <3>2, <3>3
  <2> DEFINE q == [edgeSock[s] EXCEPT !.heard = n, !.pc = pc]
  <2>2. q.pc = pc /\ q.queue = edgeSock[s].queue /\ q.dropped = edgeSock[s].dropped
    BY <1>1 DEF Connection
  <2>3. q.pc \in {"accepting", "open"} /\ ~q.dropped => Server!Registered(s)
    BY <2>2 DEF Server!Registered
  <2> HIDE DEF q
  <2> QED
    BY <1>1, <1>3, <2>1, <2>2, <2>3 DEF q
<1>6. ASSUME NEW s \in Socks, Server!Pump(s) PROVE Limited'
  <2>1. PICK pc \in {"open", "closing"} :
          edgeSock' = [edgeSock EXCEPT ![s] = [edgeSock[s] EXCEPT !.queue = Tail(edgeSock[s].queue), !.pc = pc]]
    BY <1>6 DEF Server!Pump, Server!Deliver
  <2> DEFINE queue == edgeSock[s].queue
             q == [edgeSock[s] EXCEPT !.queue = Tail(queue), !.pc = pc]
  <2>2. queue \in Seq(Message) /\ queue # <<>> /\ edgeSock[s].pc = "open"
    BY <1>1, <1>6 DEF Connection, Server!Pump
  <2>3. Len(Tail(queue)) <= QueueMax
    <3>1. Len(Tail(queue)) = Len(queue) - 1 /\ Len(queue) \in Nat /\ Len(queue) <= QueueMax
      BY <1>1, <2>2, HeadTailProperties
    <3> QED
      BY <3>1, CountSocks
  <2>4. q.queue = Tail(queue) /\ q.dropped = edgeSock[s].dropped
    <3> HIDE DEF queue
    <3> QED
      BY <1>1 DEF Connection
  <2>5. q.pc \in {"accepting", "open"} /\ ~q.dropped => Server!Registered(s)
    BY <2>2, <2>4 DEF Server!Registered
  <2>6. edgeSock' = [edgeSock EXCEPT ![s] = q]
    BY <2>1
  <2> HIDE DEF q, queue
  <2> QED
    BY <1>3, <2>3, <2>4, <2>5, <2>6
<1>7. ASSUME NEW s \in Socks, Server!Close(s) PROVE Limited'
  <2> DEFINE q == [Server!Off EXCEPT !.pc = "closed"]
  <2>1. edgeSock' = [edgeSock EXCEPT ![s] = q]
    BY <1>7 DEF Server!Close
  <2>2. q.pc = "closed" /\ q.queue = <<>>
    BY DEF Server!Off
  <2> HIDE DEF q
  <2>3. Len(q.queue) <= QueueMax
    BY <2>2, CountSocks
  <2> QED
    BY <1>3, <2>1, <2>2, <2>3
<1>8. ASSUME NEW s \in Socks, Server!Handshake(s) PROVE Limited'
  <2> DEFINE q == [edgeSock[s] EXCEPT !.pc = "accepting"]
             A == Server!Connections
             B == Server!Connections'
  <2>1. edgeSock' = [edgeSock EXCEPT ![s] = q] /\ edgeSock[s].pc = "off"
    BY <1>8 DEF Server!Handshake
  <2>2. q.queue = edgeSock[s].queue
    BY <1>1 DEF Connection
  <2> HIDE DEF q
  <2>3. edgeSock'[s] = q /\ \A t \in Socks : t # s => edgeSock'[t] = edgeSock[t]
    BY <1>1, <2>1
  <2>4. A \in SUBSET Socks /\ s \in Socks \ A /\ B \in SUBSET (A \cup {s}) /\ A \cup {s} \in SUBSET Socks
        /\ B \in SUBSET Socks
    BY <2>1, <2>3 DEF Server!Connections, Server!Registered
  <2>5. Cardinality(A) < MaxConnections
    BY <1>8, CountSocks DEF Server!Handshake
  <2> HIDE DEF A, B
  <2>6. /\ Cardinality(A) \in Nat /\ Cardinality(B) \in Nat /\ Cardinality(A \cup {s}) = Cardinality(A) + 1
        /\ Cardinality(B) <= Cardinality(A \cup {s})
    BY <2>4, CountSocks
  <2>7. Cardinality(B) <= MaxConnections
    BY <2>5, <2>6, CountSocks
  <2> QED
    BY <1>1, <2>2, <2>3, <2>7 DEF B, Limited
<1>9. CASE Server!Flush
  <2>1. edgeSock' = [s \in Socks |-> IF Server!Registered(s) THEN Server!Offered(s) ELSE edgeSock[s]]
    BY <1>9 DEF Server!Flush
  <2>2. ASSUME NEW s \in Socks
        PROVE  Len(edgeSock'[s].queue) <= QueueMax /\ (Server!Registered(s)' => Server!Registered(s))
    BY <1>1, <2>1, OfferedFits DEF Server!Registered
  <2> QED
    BY <1>2, <2>2
<1>10. CASE UNCHANGED edgeSock
  BY <1>1, <1>2, <1>10 DEF Server!Registered
<1> QED
  BY <1>4, <1>5, <1>6, <1>7, <1>8, <1>9, <1>10
     DEF Server!Next, Server!Listen, Server!Socket, Server!WindowPasses, Server!Arrive,
         Server!Receive, Server!Handle, Server!Write, Server!CommitBegin, Server!CommitDone,
         Server!HandlerFails, Server!Respond, Server!Finish, Server!Timeout, Server!TimeoutCancel,
         Server!Disconnect, Server!feed, edgeVars

\* Whatever shares its window, however full its queue and wherever commits are
\* cut off: a registered socket's browser shows each announced change or is
\* about to.
THEOREM FeedReaches == Spec => []ConnectedSeesChanges
<1>1. Init => EdgeInv
  BY AnswersInit, FeedInit DEF Init, EdgeInv
<1>2. EdgeInv /\ [Next]_vars => EdgeInv'
  BY OneActs, AnswersStep, FeedStep, PlatformAssumption DEF EdgeInv
<1>3. EdgeInv => ConnectedSeesChanges
  BY DEF EdgeInv, Feed, FeedTypes, Waiting, ConnectedSeesChanges, Server!ConnectedSeesChanges
<1> QED
  BY <1>1, <1>2, <1>3, PTL DEF Spec

\* A time-out that fires as the handler starts its answer adds no second
\* response, and a request that has ended holds no place at the write lock.
THEOREM RequestsAnsweredOnce == Spec => []AnsweredOnce
<1>1. Init => EdgeLimits
  <2> SUFFICES ASSUME Server!Init PROVE EdgeLimits
    BY DEF Init
  <2>1. EdgeInv
    BY AnswersInit, FeedInit DEF EdgeInv
  <2>2. Locked
    <3>1. edgeWriters = <<>> /\ <<>> \in Seq(Reqs)
      BY DEF Server!Init
    <3> QED
      BY <3>1 DEF Locked
  <2>3. \A s \in Socks : edgeSock[s].queue = <<>> /\ ~Server!Registered(s)
    BY DEF Server!Init, Server!Off, Server!Registered
  <2>4. Server!Connections = {}
    BY <2>3 DEF Server!Connections
  <2>5. Cardinality(Server!Connections) <= MaxConnections
    <3>1. Cardinality({}) = 0
      BY FS_EmptySet
    <3> QED
      BY <2>4, <3>1, CountSocks
  <2>6. \A s \in Socks : Len(edgeSock[s].queue) <= QueueMax
    BY <2>3, CountSocks
  <2> QED
    BY <2>1, <2>2, <2>5, <2>6 DEF EdgeLimits, Limited
<1>2. EdgeLimits /\ [Next]_vars => EdgeLimits'
  BY OneActs, AnswersStep, FeedStep, LockStep, LimitsStep, PlatformAssumption DEF EdgeInv,
     EdgeLimits
<1>3. EdgeLimits => AnsweredOnce
  <2> SUFFICES ASSUME EdgeLimits PROVE Server!TypeOK /\ Server!AnsweredOnce
    BY DEF AnsweredOnce
  <2>1. \A r \in Reqs : edgeReq[r] \in Request /\ edgeReq[r].starts <= 1
    BY DEF EdgeLimits, EdgeInv, Answers, Unanswered
  <2>2. \A r \in Reqs : edgeReq[r].pc \in {"new", "streaming"} \cup Server!Before \cup Server!Ended
    BY <2>1 DEF Request
  <2>3. Server!TypeOK
    BY <2>2, CountSocks DEF EdgeLimits, Limited, Server!TypeOK
  <2>4. \A i \in DOMAIN edgeWriters : edgeReq[edgeWriters[i]].pc \in {"waiting", "writing", "committing"}
    BY DEF EdgeLimits, Locked, Writing
  <2> QED
    BY <2>1, <2>3, <2>4 DEF Server!AnsweredOnce
<1> QED
  BY <1>1, <1>2, <1>3, PTL DEF Spec

(***************************************************************************)
(* The way in: what has ended admits nobody.                               *)
(***************************************************************************)
Stages == {"idle", "cookie", "touch", "key", "keyread", "keyhit", "keymiss", "basic", "hash",
           "verify", "login", "loginread", "loginverify", "replace", "create", "inside", "answer",
           "change", "others", "settle"}
Credentials == Gate!Ways \X Nat
Visit == [pc : Stages, via : Gate!Ways \cup {"none"}, op : Gate!Operations, cred : Nat, at : Int,
          gen : Nat, hash : Nat, ends : SUBSET Credentials, gone : BOOLEAN]
Session == [until : Int, seen : Int]
InForce == [{"login", "opds", "key"} -> Nat]

\* What ended leaves no row, and no credential in force.
Ending(X, rows, force, made) == \A n \in Nat :
  /\ <<"cookie", n>> \in X => n \in 1..made /\ rows[n] = Gate!NoSession
  /\ <<"basic", n>> \in X => n < force["opds"]
  /\ <<"key", n>> \in X => n < force["key"]

\* A request with an ended credential gets no further than its check, a
\* verification knows whether the cache was cleared since it began, and only the
\* clearing of the cache answers the end of an OPDS password.
Sound(q, ended, gen, rows, force, made) ==
  /\ Ending(q.ends, rows, force, made)
  /\ q.gone => <<q.via, q.cred>> \in ended
  /\ q.gone /\ q.via = "cookie" => q.pc = "cookie"
  /\ q.gone /\ q.via = "key" => q.pc \in {"key", "keyread", "keymiss"}
  /\ q.gone /\ q.via = "basic" =>
       q.pc \in {"basic", "hash", "verify"} /\ (q.pc = "verify" => q.hash > q.cred)
  /\ q.pc = "verify" /\ q.gen = gen => <<"basic", q.hash>> \notin ended
  /\ q.gen <= gen
  /\ q.via = "cookie" => q.cred \in 1..made
  /\ \A n \in Nat : <<"basic", n>> \in q.ends => q.pc = "settle" /\ q.op = "opds"

Listed(s) == \E S : s \in Seq(S)
Verified(ended) == {e \in [pwd : Nat, until : Int] : <<"basic", e.pwd>> \notin ended}

AccessTypes ==
  /\ gateNow \in 0..MaxNow /\ gateGeneration \in Nat /\ gateBootstrap \in BOOLEAN
  /\ gateSess \in [Gate!Tokens -> Session] /\ gateCurrent \in InForce
  /\ gateReq \in [Clients -> Visit] /\ gateOver \subseteq Credentials
  /\ gateBound \in [requests : Nat, tokens : Gate!Tokens, restarts : Nat]
Backed == Listed(gateWindows) /\ Len(gateWindows) <= RegistryCapacity
Trusted == gateCache \in Seq(Verified(gateOver)) /\ Len(gateCache) <= CacheCapacity

Refusing ==
  /\ Ending(gateOver, gateSess, gateCurrent, gateBound.tokens)
  /\ \A c \in Clients :
       Sound(gateReq[c], gateOver, gateGeneration, gateSess, gateCurrent, gateBound.tokens)

AccessInv == AccessTypes /\ Backed /\ Trusted /\ Refusing

LEMMA AccessNumbers ==
  /\ {SessionLife, CacheLife, CacheCapacity, RegistryCapacity, MaxNow} \subseteq Nat
  /\ MaxTokens \in Nat \ {0}
  /\ \A S : Gate!Cardinality(S) = Cardinality(S)
<1>1. \A S : Gate!Cardinality(S) = Cardinality(S)
  BY DEF Cardinality, Gate!Cardinality
<1> QED
  BY <1>1, PlatformAssumption DEF Gate!AccessAssumption

\* A dictionary without one of its keys, and the youngest of a dictionary.
LEMMA PlacePopped ==
  ASSUME NEW S, NEW s \in Seq(S), NEW places \in SUBSET DOMAIN s
  PROVE  /\ Gate!Popped(s, places) \in Seq(S) /\ Len(s) \in Nat
         /\ Len(Gate!Popped(s, places)) = IF places = {} THEN Len(s) ELSE Len(s) - 1
<1>1. Len(s) \in Nat /\ DOMAIN s = 1..Len(s)
  OBVIOUS
<1>2. CASE places = {}
  BY <1>1, <1>2 DEF Gate!Popped
<1>3. CASE places # {}
  <2> DEFINE i == CHOOSE i \in places : TRUE
  <2>1. i \in 1..Len(s)
    BY <1>1, <1>3
  <2>2. Gate!Popped(s, places) = Server!RemoveAt(s, i)
    BY <1>3 DEF Gate!Popped, Gate!RemoveAt, Server!RemoveAt
  <2> HIDE DEF i
  <2> QED
    BY <1>1, <1>3, <2>1, <2>2, PlaceRemoved
<1> QED
  BY <1>2, <1>3

LEMMA YoungestKept ==
  ASSUME NEW S, NEW s \in Seq(S), NEW n \in Nat
  PROVE  Gate!Newest(s, n) \in Seq(S) /\ Len(Gate!Newest(s, n)) <= n
<1>1. Len(s) \in Nat
  OBVIOUS
<1>2. CASE Len(s) > n
  <2> DEFINE m == Len(s) - n + 1
  <2>1. m \in Int /\ 1 <= m /\ m <= Len(s) + 1 /\ Len(s) - m + 1 = n
    BY <1>1, <1>2
  <2>2. Gate!Newest(s, n) = SubSeq(s, m, Len(s))
    BY <1>2 DEF Gate!Newest
  <2> HIDE DEF m
  <2>3. SubSeq(s, m, Len(s)) \in Seq(S) /\ Len(SubSeq(s, m, Len(s))) = n
    BY <1>1, <2>1
  <2> QED
    BY <2>2, <2>3
<1>3. CASE ~(Len(s) > n)
  BY <1>1, <1>3 DEF Gate!Newest
<1> QED
  BY <1>2, <1>3

\* The registry of sources keeps within its capacity.
LEMMA BackedStays ==
  ASSUME Backed, NEW k,
         \/ UNCHANGED gateWindows
         \/ Gate!RetryAfter(k)
         \/ Gate!RecordFailure(k)
         \/ Gate!RecordSuccess(k)
  PROVE  Backed'
<1> DEFINE at == {i \in DOMAIN gateWindows : gateWindows[i].key = k}
           cold == Gate!Cold(k)
<1>1. PICK S : gateWindows \in Seq(S)
  BY DEF Backed, Listed
<1>2. /\ cold \in Seq(S) /\ Len(gateWindows) \in Nat
      /\ Len(cold) = IF at = {} THEN Len(gateWindows) ELSE Len(gateWindows) - 1
  <2>1. at \in SUBSET DOMAIN gateWindows
    OBVIOUS
  <2>2. cold = Gate!Popped(gateWindows, at)
    BY DEF Gate!Cold
  <2> HIDE DEF at, cold
  <2> QED
    BY <1>1, <2>1, <2>2, PlacePopped
<1>3. RegistryCapacity \in Nat /\ Len(gateWindows) <= RegistryCapacity
  BY AccessNumbers DEF Backed
<1> HIDE DEF cold
<1>4. \A e : Append(cold, e) \in Seq(S \cup {e}) /\ Len(Append(cold, e)) = Len(cold) + 1
  <2> TAKE e
  <2>1. cold \in Seq(S \cup {e})
    BY <1>2, SeqMonotonic
  <2> QED
    BY <2>1, AppendProperties
<1>5. CASE Gate!RetryAfter(k)
  <2>1. CASE gateWindows' = cold
    BY <1>2, <1>3, <2>1 DEF Backed, Listed
  <2>2. CASE at # {} /\ \E e : gateWindows' = Append(cold, e)
    <3>1. PICK e : gateWindows' = Append(cold, e)
      BY <2>2
    <3>2. Len(cold) = Len(gateWindows) - 1
      BY <1>2, <2>2
    <3>3. gateWindows' \in Seq(S \cup {e}) /\ Len(gateWindows') = Len(cold) + 1
      BY <1>4, <3>1
    <3>4. Len(gateWindows') <= RegistryCapacity
      BY <1>2, <1>3, <3>2, <3>3
    <3> QED
      BY <3>3, <3>4 DEF Backed, Listed
  <2>3. at = {} => Gate!TimesOf(k) = <<>>
    BY DEF Gate!TimesOf
  <2>4. Gate!Kept(<<>>) = <<>>
    <3>1. {i \in DOMAIN <<>> : <<>>[i] <= gateNow - Window} = {}
      OBVIOUS
    <3>2. Gate!Cardinality({}) = 0
      BY AccessNumbers, FS_EmptySet
    <3>3. Gate!Kept(<<>>) = SubSeq(<<>>, 1, 0)
      BY <3>1, <3>2 DEF Gate!Kept
    <3> QED
      BY <3>3
  <2> QED
    BY <1>5, <2>1, <2>2, <2>3, <2>4 DEF Gate!RetryAfter, cold
<1>6. CASE Gate!RecordFailure(k)
  <2>1. PICK e : gateWindows' = Gate!Newest(Append(cold, e), RegistryCapacity)
    BY <1>6 DEF Gate!RecordFailure, cold
  <2> QED
    BY <1>3, <1>4, <2>1, YoungestKept DEF Backed, Listed
<1>7. CASE Gate!RecordSuccess(k)
  <2>1. gateWindows' = cold
    BY <1>7 DEF Gate!RecordSuccess, cold
  <2> QED
    BY <1>2, <1>3, <2>1 DEF Backed, Listed
<1>8. CASE UNCHANGED gateWindows
  BY <1>8 DEF Backed
<1> QED
  BY <1>5, <1>6, <1>7, <1>8

\* What a step does to everyone else's request.
LEMMA SoundStays ==
  ASSUME NEW q \in Visit, NEW ended, NEW ended2, NEW gen \in Nat, NEW gen2 \in Nat,
         NEW rows, NEW rows2, NEW force \in InForce, NEW force2 \in InForce,
         NEW made \in Nat, NEW made2 \in Nat,
         Sound(q, ended, gen, rows, force, made),
         ended \subseteq ended2, gen <= gen2, made <= made2,
         gen = gen2 => \A n \in Nat : <<"basic", n>> \in ended2 => <<"basic", n>> \in ended,
         \A n \in 1..made : rows[n] = Gate!NoSession => rows2[n] = Gate!NoSession,
         force["opds"] <= force2["opds"], force["key"] <= force2["key"]
  PROVE  Sound(q, ended2, gen2, rows2, force2, made2)
<1>1. q.gen \in Nat /\ q.hash \in Nat /\ q.cred \in Nat /\ q.ends \subseteq Credentials
  BY DEF Visit
<1>2. {force["opds"], force["key"], force2["opds"], force2["key"]} \subseteq Nat
  BY DEF InForce
<1>3. Ending(q.ends, rows2, force2, made2)
  <2>1. Ending(q.ends, rows, force, made)
    BY DEF Sound
  <2> SUFFICES ASSUME NEW n \in Nat
               PROVE  /\ <<"cookie", n>> \in q.ends => n \in 1..made2 /\ rows2[n] = Gate!NoSession
                      /\ <<"basic", n>> \in q.ends => n < force2["opds"]
                      /\ <<"key", n>> \in q.ends => n < force2["key"]
    BY DEF Ending
  <2>2. /\ <<"cookie", n>> \in q.ends => n \in 1..made /\ rows[n] = Gate!NoSession
        /\ <<"basic", n>> \in q.ends => n < force["opds"]
        /\ <<"key", n>> \in q.ends => n < force["key"]
    BY <2>1 DEF Ending
  <2>3. \A m \in 1..made : m \in 1..made2
    OBVIOUS
  <2>4. <<"cookie", n>> \in q.ends => n \in 1..made2 /\ rows2[n] = Gate!NoSession
    BY <2>2, <2>3
  <2>5. <<"basic", n>> \in q.ends => n < force2["opds"]
    BY <1>2, <2>2
  <2>6. <<"key", n>> \in q.ends => n < force2["key"]
    BY <1>2, <2>2
  <2> QED
    BY <2>4, <2>5, <2>6
<1>4. q.gone => <<q.via, q.cred>> \in ended2
  BY DEF Sound
<1>5. q.pc = "verify" /\ q.gen = gen2 => <<"basic", q.hash>> \notin ended2
  <2> SUFFICES ASSUME q.pc = "verify", q.gen = gen2 PROVE <<"basic", q.hash>> \notin ended2
    OBVIOUS
  <2>1. q.gen <= gen /\ (q.gen = gen => <<"basic", q.hash>> \notin ended)
    BY DEF Sound
  <2>2. gen = gen2
    BY <1>1, <2>1
  <2> QED
    BY <1>1, <2>1, <2>2
<1>6. q.gen <= gen2 /\ (q.via = "cookie" => q.cred \in 1..made2)
  <2>1. q.gen <= gen /\ (q.via = "cookie" => q.cred \in 1..made)
    BY DEF Sound
  <2> QED
    BY <1>1, <2>1
<1> QED
  BY <1>3, <1>4, <1>5, <1>6 DEF Sound

LEMMA NobodySound ==
  ASSUME NEW ended, NEW gen \in Nat, NEW rows, NEW force, NEW made
  PROVE  Gate!NoReq \in Visit /\ Sound(Gate!NoReq, ended, gen, rows, force, made)
<1>1. Gate!NoReq \in Visit
  BY DEF Gate!NoReq, Visit, Stages, Gate!Operations, Credentials
<1>2. Sound(Gate!NoReq, ended, gen, rows, force, made)
  BY DEF Gate!NoReq, Sound, Ending
<1> QED
  BY <1>1, <1>2

\* A request that goes on.
LEMMA GoSound ==
  ASSUME NEW q \in Visit, NEW ended, NEW gen, NEW rows, NEW force, NEW made,
         Sound(q, ended, gen, rows, force, made),
         NEW pc \in Stages, pc # "verify", q.pc # "settle",
         q.gone => \/ q.via = "cookie" /\ pc = "cookie"
                   \/ q.via = "key" /\ pc \in {"key", "keyread", "keymiss"}
                   \/ q.via = "basic" /\ pc \in {"basic", "hash"}
                   \/ q.via \notin {"cookie", "key", "basic"}
  PROVE  /\ [q EXCEPT !.pc = pc] \in Visit
         /\ Sound([q EXCEPT !.pc = pc], ended, gen, rows, force, made)
<1> DEFINE r == [q EXCEPT !.pc = pc]
<1>1. /\ r \in Visit /\ r.pc = pc /\ r.via = q.via /\ r.op = q.op /\ r.cred = q.cred
      /\ r.gen = q.gen /\ r.hash = q.hash /\ r.ends = q.ends /\ r.gone = q.gone
  BY DEF Visit
<1> HIDE DEF r
<1>2. \A n \in Nat : <<"basic", n>> \notin q.ends
  BY DEF Sound
<1>3. Sound(r, ended, gen, rows, force, made)
  BY <1>1, <1>2 DEF Sound
<1> QED
  BY <1>1, <1>3 DEF r

\* A request that ends something.
LEMMA EndSound ==
  ASSUME NEW q \in Visit, NEW ended, NEW gen, NEW rows, NEW force, NEW made,
         Sound(q, ended, gen, rows, force, made),
         NEW pc \in Stages, pc # "verify", NEW X \in SUBSET Credentials,
         Ending(X, rows, force, made),
         q.gone => q.via \notin {"cookie", "key", "basic"},
         \A n \in Nat : <<"basic", n>> \in X => pc = "settle" /\ q.op = "opds"
  PROVE  /\ [q EXCEPT !.pc = pc, !.ends = X] \in Visit
         /\ Sound([q EXCEPT !.pc = pc, !.ends = X], ended, gen, rows, force, made)
<1> DEFINE r == [q EXCEPT !.pc = pc, !.ends = X]
<1>1. /\ r \in Visit /\ r.pc = pc /\ r.via = q.via /\ r.op = q.op /\ r.cred = q.cred
      /\ r.gen = q.gen /\ r.hash = q.hash /\ r.ends = X /\ r.gone = q.gone
  BY DEF Visit
<1> HIDE DEF r
<1>3. Sound(r, ended, gen, rows, force, made)
  BY <1>1 DEF Sound
<1> QED
  BY <1>1, <1>3 DEF r

LEMMA AccessInit == ASSUME Gate!Init PROVE AccessInv
<1>1. /\ gateNow = 0 /\ gateCurrent = [s \in {"login", "opds", "key"} |-> 0]
      /\ gateSess = [t \in Gate!Tokens |->
           IF t = 1 THEN [until |-> SessionLife, seen |-> 0] ELSE Gate!NoSession]
      /\ gateBootstrap = TRUE /\ gateCache = <<>> /\ gateGeneration = 0
      /\ gateWindows = <<>> /\ gateReq = [c \in Clients |-> Gate!NoReq] /\ gateOver = {}
      /\ gateBound = [requests |-> 0, tokens |-> 1, restarts |-> 0]
  BY DEF Gate!Init
<1>2. 1 \in Gate!Tokens /\ gateNow \in 0..MaxNow
  BY <1>1, AccessNumbers DEF Gate!Tokens
<1>3. gateSess \in [Gate!Tokens -> Session]
  BY <1>1, AccessNumbers DEF Session, Gate!NoSession
<1>4. gateReq \in [Clients -> Visit]
  BY <1>1, NobodySound
<1>5. gateBound \in [requests : Nat, tokens : Gate!Tokens, restarts : Nat] /\ gateCurrent \in InForce
  BY <1>1, <1>2 DEF InForce
<1>6. AccessTypes
  BY <1>1, <1>2, <1>3, <1>4, <1>5 DEF AccessTypes
<1>7. Backed /\ Trusted
  <2>1. \A S : <<>> \in Seq(S)
    OBVIOUS
  <2> QED
    BY <1>1, <2>1, AccessNumbers DEF Backed, Trusted, Listed
<1>8. Refusing
  <2>1. Ending(gateOver, gateSess, gateCurrent, gateBound.tokens)
    BY <1>1 DEF Ending
  <2>2. \A c \in Clients : Sound(gateReq[c], gateOver, gateGeneration, gateSess, gateCurrent, gateBound.tokens)
    BY <1>1, NobodySound
  <2> QED
    BY <2>1, <2>2 DEF Refusing
<1> QED
  BY <1>6, <1>7, <1>8 DEF AccessInv

SoundNow(q) == Sound(q, gateOver, gateGeneration, gateSess, gateCurrent, gateBound.tokens)

\* A step of one client.
LEMMA ClientMoves ==
  ASSUME AccessInv, AccessTypes', Backed', Trusted',
         NEW c \in Clients, \A d \in Clients : d # c => gateReq'[d] = gateReq[d],
         SoundNow(gateReq[c])',
         Ending(gateOver', gateSess', gateCurrent', gateBound'.tokens),
         gateOver \subseteq gateOver', gateGeneration <= gateGeneration',
         gateBound.tokens <= gateBound'.tokens,
         gateGeneration = gateGeneration' =>
           \A n \in Nat : <<"basic", n>> \in gateOver' => <<"basic", n>> \in gateOver,
         \A n \in 1..gateBound.tokens : gateSess[n] = Gate!NoSession => gateSess'[n] = Gate!NoSession,
         gateCurrent["opds"] <= gateCurrent'["opds"], gateCurrent["key"] <= gateCurrent'["key"]
  PROVE  AccessInv'
<1>1. /\ gateBound.tokens \in Nat /\ gateBound'.tokens \in Nat
      /\ gateGeneration \in Nat /\ gateGeneration' \in Nat
      /\ gateCurrent \in InForce /\ gateCurrent' \in InForce
  BY AccessNumbers DEF AccessInv, AccessTypes, Gate!Tokens
<1>2. ASSUME NEW d \in Clients
      PROVE  Sound(gateReq'[d], gateOver', gateGeneration', gateSess', gateCurrent', gateBound'.tokens)
  <2>1. CASE d = c
    BY <2>1 DEF SoundNow
  <2>2. CASE d # c
    <3>1. gateReq'[d] = gateReq[d] /\ gateReq[d] \in Visit
      BY <2>2 DEF AccessInv, AccessTypes
    <3>2. Sound(gateReq[d], gateOver, gateGeneration, gateSess, gateCurrent, gateBound.tokens)
      BY DEF AccessInv, Refusing
    <3>3. Sound(gateReq[d], gateOver', gateGeneration', gateSess', gateCurrent', gateBound'.tokens)
      BY <1>1, <3>1, <3>2, SoundStays
    <3> QED
      BY <3>1, <3>3
  <2> QED
    BY <2>1, <2>2
<1> QED
  BY <1>2 DEF AccessInv, Refusing

\* A step that leaves what is stored alone: only the request goes on.
LEMMA RequestOnly ==
  ASSUME AccessInv, Backed', Trusted', NEW c \in Clients, NEW q \in Visit, SoundNow(q),
         gateReq' = [gateReq EXCEPT ![c] = q], gateBootstrap' \in BOOLEAN,
         UNCHANGED <<gateNow, gateSess, gateCurrent, gateGeneration, gateOver>>,
         gateBound' \in [requests : Nat, tokens : Gate!Tokens, restarts : Nat],
         gateBound'.tokens = gateBound.tokens
  PROVE  AccessInv'
<1>1. AccessTypes'
  BY DEF AccessInv, AccessTypes
<1>2. gateReq'[c] = q /\ \A d \in Clients : d # c => gateReq'[d] = gateReq[d]
  BY DEF AccessInv, AccessTypes
<1>3. SoundNow(gateReq[c])'
  BY <1>2 DEF SoundNow
<1>4. Ending(gateOver', gateSess', gateCurrent', gateBound'.tokens)
  BY DEF AccessInv, Refusing
<1>5. /\ gateBound.tokens \in Nat /\ gateGeneration \in Nat
      /\ gateCurrent["opds"] \in Nat /\ gateCurrent["key"] \in Nat
  BY AccessNumbers DEF AccessInv, AccessTypes, Gate!Tokens, InForce
<1>6. /\ gateGeneration <= gateGeneration' /\ gateBound.tokens <= gateBound'.tokens
      /\ gateCurrent["opds"] <= gateCurrent'["opds"] /\ gateCurrent["key"] <= gateCurrent'["key"]
  BY <1>5
<1> QED
  BY <1>1, <1>2, <1>3, <1>4, <1>6, ClientMoves

\* Where a request of the client goes on, or is turned away.
LEMMA Onwards ==
  ASSUME AccessInv, Backed', Trusted', NEW c \in Clients, gateBootstrap' \in BOOLEAN,
         UNCHANGED <<gateNow, gateSess, gateCurrent, gateGeneration, gateOver, gateBound>>,
         \/ Gate!TurnAway(c)
         \/ \E pc \in Stages : /\ Gate!Go(c, pc) /\ pc # "verify" /\ gateReq[c].pc # "settle"
                               /\ gateReq[c].gone =>
                                    \/ gateReq[c].via = "cookie" /\ pc = "cookie"
                                    \/ gateReq[c].via = "key" /\ pc \in {"key", "keyread", "keymiss"}
                                    \/ gateReq[c].via = "basic" /\ pc \in {"basic", "hash"}
                                    \/ gateReq[c].via \notin {"cookie", "key", "basic"}
  PROVE  AccessInv'
<1>1. /\ gateBound \in [requests : Nat, tokens : Gate!Tokens, restarts : Nat]
      /\ gateReq[c] \in Visit /\ SoundNow(gateReq[c])
  BY DEF AccessInv, AccessTypes, Refusing, SoundNow
<1>2. CASE Gate!TurnAway(c)
  <2>1. gateReq' = [gateReq EXCEPT ![c] = Gate!NoReq]
    BY <1>2 DEF Gate!TurnAway
  <2>2. Gate!NoReq \in Visit /\ SoundNow(Gate!NoReq)
    BY NobodySound DEF SoundNow, AccessInv, AccessTypes
  <2> QED
    BY <1>1, <2>1, <2>2, RequestOnly
<1>3. ASSUME NEW pc \in Stages, Gate!Go(c, pc), pc # "verify", gateReq[c].pc # "settle",
             gateReq[c].gone =>
               \/ gateReq[c].via = "cookie" /\ pc = "cookie"
               \/ gateReq[c].via = "key" /\ pc \in {"key", "keyread", "keymiss"}
               \/ gateReq[c].via = "basic" /\ pc \in {"basic", "hash"}
               \/ gateReq[c].via \notin {"cookie", "key", "basic"}
      PROVE  AccessInv'
  <2> DEFINE q == [gateReq[c] EXCEPT !.pc = pc]
  <2>1. q \in Visit /\ SoundNow(q)
    BY <1>1, <1>3, GoSound DEF SoundNow
  <2>2. gateReq' = [gateReq EXCEPT ![c] = q]
    BY <1>3 DEF Gate!Go
  <2> HIDE DEF q
  <2> QED
    BY <1>1, <2>1, <2>2, RequestOnly
<1> QED
  BY <1>2, <1>3

\* The handler answers, and what it ended is over.
LEMMA AnswerStep ==
  ASSUME AccessInv, Backed', NEW c \in Clients, Gate!Answer(c), gateBootstrap' \in BOOLEAN,
         UNCHANGED <<gateNow, gateCurrent>>,
         \/ /\ ~(gateReq[c].pc = "settle" /\ gateReq[c].op = "opds")
            /\ UNCHANGED <<gateCache, gateGeneration>>
         \/ gateCache' = <<>> /\ gateGeneration' = gateGeneration + 1,
         gateSess' \in [Gate!Tokens -> Session],
         gateBound' \in [requests : Nat, tokens : Gate!Tokens, restarts : Nat],
         gateBound.tokens <= gateBound'.tokens,
         \A n \in 1..gateBound.tokens : gateSess[n] = Gate!NoSession => gateSess'[n] = Gate!NoSession
  PROVE  AccessInv'
<1> DEFINE q == gateReq[c]
<1>1. q \in Visit /\ SoundNow(q) /\ q.ends \in SUBSET Credentials
  <2>1. q \in Visit /\ SoundNow(q)
    BY DEF AccessInv, AccessTypes, Refusing, SoundNow
  <2> QED
    BY <2>1 DEF Visit
<1>2. gateReq' = [gateReq EXCEPT ![c] = Gate!NoReq] /\ gateOver' = gateOver \cup q.ends
  BY DEF Gate!Answer
<1>3. Gate!NoReq \in Visit /\ \A ended, rows, made : Sound(Gate!NoReq, ended, gateGeneration', rows, gateCurrent, made)
  BY NobodySound DEF AccessInv, AccessTypes
<1>4. gateReq' \in [Clients -> Visit] /\ gateReq'[c] = Gate!NoReq
      /\ \A d \in Clients : d # c => gateReq'[d] = gateReq[d]
  BY <1>2, <1>3 DEF AccessInv, AccessTypes
<1>5. gateGeneration \in Nat /\ gateGeneration' \in Nat /\ gateGeneration <= gateGeneration'
      /\ (gateGeneration = gateGeneration' =>
            ~(q.pc = "settle" /\ q.op = "opds") /\ UNCHANGED gateCache)
  BY DEF AccessInv, AccessTypes
<1>6. AccessTypes'
  <2>1. gateOver' \subseteq Credentials
    BY <1>1, <1>2 DEF AccessInv, AccessTypes
  <2> QED
    BY <1>4, <1>5, <2>1 DEF AccessInv, AccessTypes
<1>7. gateGeneration = gateGeneration' =>
        \A n \in Nat : <<"basic", n>> \in gateOver' => <<"basic", n>> \in gateOver
  <2>1. \A n \in Nat : <<"basic", n>> \in q.ends => q.pc = "settle" /\ q.op = "opds"
    BY <1>1 DEF SoundNow, Sound
  <2> HIDE DEF q
  <2> QED
    BY <1>2, <1>5, <2>1
<1>8. Trusted'
  <2>1. CASE gateCache' = <<>>
    <3>1. \A S : <<>> \in Seq(S)
      OBVIOUS
    <3> QED
      BY <2>1, <3>1, AccessNumbers DEF Trusted
  <2>2. CASE gateGeneration = gateGeneration' /\ UNCHANGED gateCache
    <3>1. Verified(gateOver) \subseteq Verified(gateOver')
      BY <1>7, <2>2 DEF Verified
    <3>2. gateCache \in Seq(Verified(gateOver)) /\ Len(gateCache) <= CacheCapacity
      BY DEF AccessInv, Trusted
    <3>3. gateCache \in Seq(Verified(gateOver'))
      BY <3>1, <3>2, SeqMonotonic
    <3> QED
      BY <2>2, <3>2, <3>3 DEF Trusted
  <2> QED
    BY <2>1, <2>2
<1>9. Ending(gateOver', gateSess', gateCurrent', gateBound'.tokens)
  <2>1. /\ Ending(q.ends, gateSess, gateCurrent, gateBound.tokens)
        /\ Ending(gateOver, gateSess, gateCurrent, gateBound.tokens)
    BY <1>1 DEF AccessInv, Refusing, SoundNow, Sound
  <2> HIDE DEF q
  <2>2. Ending(gateOver', gateSess, gateCurrent, gateBound.tokens)
    BY <1>2, <2>1 DEF Ending
  <2>3. gateBound.tokens \in Nat /\ gateBound'.tokens \in Nat
    BY AccessNumbers DEF AccessInv, AccessTypes, Gate!Tokens
  <2>4. \A n \in 1..gateBound.tokens : n \in 1..gateBound'.tokens
    BY <2>3
  <2> QED
    BY <2>2, <2>4 DEF Ending
<1>10. gateCurrent["opds"] <= gateCurrent'["opds"] /\ gateCurrent["key"] <= gateCurrent'["key"]
  <2>1. gateCurrent["opds"] \in Nat /\ gateCurrent["key"] \in Nat
    BY DEF AccessInv, AccessTypes, InForce
  <2> QED
    BY <2>1
<1>11. SoundNow(gateReq[c])'
  <2>1. gateCurrent' = gateCurrent
    OBVIOUS
  <2>2. Sound(Gate!NoReq, gateOver', gateGeneration', gateSess', gateCurrent', gateBound'.tokens)
    BY <1>3, <2>1
  <2> QED
    BY <1>4, <2>2 DEF SoundNow
<1> QED
  BY <1>2, <1>4, <1>5, <1>6, <1>7, <1>8, <1>9, <1>10, <1>11, ClientMoves

\* What is known of the request of a client.
LEMMA Presented ==
  ASSUME AccessInv, NEW c \in Clients
  PROVE  /\ gateReq[c] \in Visit /\ SoundNow(gateReq[c])
         /\ gateReq[c].pc \notin {"idle", "cookie", "key", "keyread", "keymiss", "basic", "hash", "verify"} =>
              (gateReq[c].gone => gateReq[c].via \notin {"cookie", "key", "basic"})
         /\ gateReq[c].gone /\ gateReq[c].via = "cookie" => gateSess[gateReq[c].cred] = Gate!NoSession
         /\ gateReq[c].gone /\ gateReq[c].via = "basic" =>
              gateReq[c].cred < gateCurrent["opds"] /\ <<"basic", gateReq[c].cred>> \in gateOver
         /\ gateReq[c].gone /\ gateReq[c].via = "key" => gateReq[c].cred < gateCurrent["key"]
<1> DEFINE q == gateReq[c]
<1>1. q \in Visit /\ SoundNow(q)
  BY DEF AccessInv, AccessTypes, Refusing, SoundNow
<1>2. Ending(gateOver, gateSess, gateCurrent, gateBound.tokens)
  BY DEF AccessInv, Refusing
<1>3. q.cred \in Nat /\ (q.gone => <<q.via, q.cred>> \in gateOver)
  BY <1>1 DEF Visit, SoundNow, Sound
<1>4. /\ q.gone /\ q.via = "cookie" => q.pc = "cookie"
      /\ q.gone /\ q.via = "key" => q.pc \in {"key", "keyread", "keymiss"}
      /\ q.gone /\ q.via = "basic" => q.pc \in {"basic", "hash", "verify"}
  BY <1>1 DEF SoundNow, Sound
<1> HIDE DEF q
<1>5. q.gone /\ q.via = "cookie" => gateSess[q.cred] = Gate!NoSession
  BY <1>2, <1>3 DEF Ending
<1>6. q.gone /\ q.via = "basic" => q.cred < gateCurrent["opds"] /\ <<"basic", q.cred>> \in gateOver
  BY <1>2, <1>3 DEF Ending
<1>7. q.gone /\ q.via = "key" => q.cred < gateCurrent["key"]
  BY <1>2, <1>3 DEF Ending
<1> QED
  BY <1>1, <1>4, <1>5, <1>6, <1>7 DEF q

LEMMA ArriveKeeps == ASSUME AccessInv, NEW c \in Clients, Gate!Arrive(c) PROVE AccessInv'
<1>1. PICK u \in Uses[c] :
        \E cred \in IF u[1] = "cookie" THEN 1..gateBound.tokens
                    ELSE 0..gateCurrent[Gate!Secret(u[1])] :
          gateReq' = [gateReq EXCEPT ![c] =
            [Gate!NoReq EXCEPT !.pc = u[1], !.via = u[1], !.op = u[2], !.cred = cred,
               !.at = gateNow, !.gone = <<u[1], cred>> \in gateOver]]
  BY DEF Gate!Arrive
<1>2. PICK cred \in IF u[1] = "cookie" THEN 1..gateBound.tokens
                    ELSE 0..gateCurrent[Gate!Secret(u[1])] :
          gateReq' = [gateReq EXCEPT ![c] =
            [Gate!NoReq EXCEPT !.pc = u[1], !.via = u[1], !.op = u[2], !.cred = cred,
               !.at = gateNow, !.gone = <<u[1], cred>> \in gateOver]]
  BY <1>1
<1> DEFINE ended == <<u[1], cred>> \in gateOver
           q == [Gate!NoReq EXCEPT !.pc = u[1], !.via = u[1], !.op = u[2], !.cred = cred,
                   !.at = gateNow, !.gone = ended]
<1>3. u[1] \in Gate!Ways /\ u[2] \in Gate!Operations
  BY PlatformAssumption DEF Gate!AccessAssumption
<1>4. cred \in Nat /\ (u[1] = "cookie" => cred \in 1..gateBound.tokens)
  <2>1. gateBound.tokens \in Nat /\ gateCurrent[Gate!Secret(u[1])] \in Nat
    BY AccessNumbers DEF AccessInv, AccessTypes, Gate!Tokens, InForce, Gate!Secret
  <2> QED
    BY <1>2, <2>1
<1>5. /\ q \in Visit /\ q.pc = u[1] /\ q.via = u[1] /\ q.cred = cred /\ q.gen = 0 /\ q.ends = {}
      /\ q.gone = ended
  <2>1. gateNow \in Int
    BY AccessNumbers DEF AccessInv, AccessTypes
  <2>2. u[1] \in Stages /\ u[1] \in Gate!Ways \cup {"none"}
    BY <1>3 DEF Stages, Gate!Ways
  <2>3. {} \in SUBSET Credentials /\ ended \in BOOLEAN
    OBVIOUS
  <2>4. u[2] \in Gate!Operations
    BY <1>3
  <2> DEFINE way == u[1]
             what == u[2]
  <2> HIDE DEF ended, way, what
  <2>5. ASSUME NEW v, NEW w, NEW x, NEW time, NEW g
        PROVE  LET r == [Gate!NoReq EXCEPT !.pc = v, !.via = v, !.op = w, !.cred = x, !.at = time, !.gone = g]
               IN /\ r.pc = v /\ r.via = v /\ r.op = w /\ r.cred = x /\ r.at = time /\ r.gone = g
                  /\ r.gen = 0 /\ r.hash = 0 /\ r.ends = {}
    BY DEF Gate!NoReq
  <2> QED
    BY <1>3, <1>4, <2>1, <2>2, <2>3, <2>4, <2>5 DEF Visit, Gate!NoReq, way, what
<1>6. gateReq' = [gateReq EXCEPT ![c] = q]
  BY <1>2
<1> HIDE DEF q
<1>7. SoundNow(q)
  <2>1. gateGeneration \in Nat
    BY DEF AccessInv, AccessTypes
  <2>2. u[1] # "verify"
    BY <1>3 DEF Gate!Ways
  <2>3. Ending(q.ends, gateSess, gateCurrent, gateBound.tokens)
    BY <1>5 DEF Ending
  <2>4. /\ q.gone => <<q.via, q.cred>> \in gateOver
        /\ \A n \in Nat : <<"basic", n>> \notin q.ends
    BY <1>5
  <2> HIDE DEF ended
  <2> QED
    BY <1>3, <1>4, <1>5, <2>1, <2>2, <2>3, <2>4 DEF SoundNow, Sound
<1>8. /\ gateBound' \in [requests : Nat, tokens : Gate!Tokens, restarts : Nat]
      /\ gateBound'.tokens = gateBound.tokens
  BY DEF Gate!Arrive, AccessInv, AccessTypes
<1>9. Backed' /\ Trusted' /\ gateBootstrap' \in BOOLEAN
  BY DEF Gate!Arrive, Gate!limiter, AccessInv, AccessTypes, Backed, Trusted
<1>10. UNCHANGED <<gateNow, gateSess, gateCurrent, gateGeneration, gateOver>>
  BY DEF Gate!Arrive, Gate!store
<1> QED
  BY <1>5, <1>6, <1>7, <1>8, <1>9, <1>10, RequestOnly

\* The memory is left alone.
LEMMA MemoryRests ==
  ASSUME AccessInv, UNCHANGED <<gateCache, gateWindows, gateOver, gateBootstrap>>
  PROVE  Backed' /\ Trusted' /\ gateBootstrap' \in BOOLEAN
BY DEF AccessInv, AccessTypes, Backed, Trusted

LEMMA CookieKeeps ==
  ASSUME AccessInv, NEW c \in Clients, Gate!CookieRead(c) \/ Gate!Touch(c)
  PROVE  AccessInv'
<1>1. Backed' /\ Trusted' /\ gateBootstrap' \in BOOLEAN
  BY MemoryRests DEF Gate!CookieRead, Gate!Touch, Gate!limiter
<1>2. CASE Gate!CookieRead(c)
  <2>1. gateReq[c].pc = "cookie" /\ {"touch", "inside"} \subseteq Stages
    BY <1>2 DEF Gate!CookieRead, Gate!At, Stages
  <2>2. UNCHANGED <<gateNow, gateSess, gateCurrent, gateGeneration, gateOver, gateBound>>
    BY <1>2 DEF Gate!CookieRead, Gate!store
  <2>3. \/ Gate!TurnAway(c)
        \/ /\ gateSess[gateReq[c].cred] # Gate!NoSession
           /\ Gate!Go(c, "touch") \/ Gate!Go(c, "inside")
    BY <1>2 DEF Gate!CookieRead, Gate!Has, Gate!Admit
  <2>4. gateSess[gateReq[c].cred] # Gate!NoSession /\ gateReq[c].gone =>
          gateReq[c].via \notin {"cookie", "key", "basic"}
    <3>1. gateReq[c].gone /\ gateReq[c].via \in {"key", "basic"} => gateReq[c].pc # "cookie"
      BY Presented DEF SoundNow, Sound
    <3> QED
      BY <2>1, <3>1, Presented
  <2> QED
    BY <1>1, <2>1, <2>2, <2>3, <2>4, Onwards
<1>3. CASE Gate!Touch(c)
  <2> DEFINE q == gateReq[c]
  <2>1. q.pc = "touch" /\ Gate!Go(c, "inside") /\ "inside" \in Stages
    BY <1>3 DEF Gate!Touch, Gate!At, Gate!Admit, Stages
  <2>2. /\ UNCHANGED <<gateNow, gateCurrent, gateCache, gateGeneration, gateOver, gateBound>>
        /\ gateSess' = IF Gate!Fresh(c)
                       THEN [gateSess EXCEPT ![q.cred] = [until |-> q.at + SessionLife, seen |-> q.at]]
                       ELSE gateSess
    BY <1>3 DEF Gate!Touch
  <2>3. q \in Visit /\ SoundNow(q) /\ (q.gone => q.via \notin {"cookie", "key", "basic"})
    BY <2>1, Presented
  <2>4. q.at \in Int /\ q.cred \in Nat /\ SessionLife \in Nat
    BY <2>3, AccessNumbers DEF Visit
  <2>5. gateReq' = [gateReq EXCEPT ![c].pc = "inside"]
    BY <2>1 DEF Gate!Go
  <2> DEFINE r == [q EXCEPT !.pc = "inside"]
  <2>6. r \in Visit /\ SoundNow(r)
    BY <2>1, <2>3, GoSound DEF SoundNow
  <2>7. gateReq' \in [Clients -> Visit] /\ gateReq'[c] = r /\ \A d \in Clients : d # c => gateReq'[d] = gateReq[d]
    BY <2>5, <2>6 DEF AccessInv, AccessTypes
  <2>8. gateSess' \in [Gate!Tokens -> Session]
        /\ \A n \in 1..gateBound.tokens : gateSess[n] = Gate!NoSession => gateSess'[n] = Gate!NoSession
    <3>1. gateSess \in [Gate!Tokens -> Session] /\ 1..gateBound.tokens \subseteq Gate!Tokens
      BY AccessNumbers DEF AccessInv, AccessTypes, Gate!Tokens
    <3>2. [until |-> q.at + SessionLife, seen |-> q.at] \in Session
      BY <2>4 DEF Session
    <3>3. Gate!Fresh(c) => gateSess[q.cred] # Gate!NoSession
      BY DEF Gate!Fresh, Gate!Has
    <3> HIDE DEF q
    <3> QED
      BY <2>2, <3>1, <3>2, <3>3
  <2> HIDE DEF q, r
  <2>9. AccessTypes'
    BY <2>2, <2>7, <2>8, <1>1 DEF AccessInv, AccessTypes
  <2>10. Ending(gateOver', gateSess', gateCurrent', gateBound'.tokens)
    BY <2>2, <2>8 DEF AccessInv, Refusing, Ending
  <2>11. /\ gateBound.tokens \in Nat /\ gateGeneration \in Nat /\ gateCurrent \in InForce
         /\ gateCurrent["opds"] \in Nat /\ gateCurrent["key"] \in Nat
    BY AccessNumbers DEF AccessInv, AccessTypes, Gate!Tokens, InForce
  <2>12. Sound(r, gateOver, gateGeneration, gateSess', gateCurrent, gateBound.tokens)
    <3>1. gateGeneration <= gateGeneration /\ gateBound.tokens <= gateBound.tokens
          /\ gateCurrent["opds"] <= gateCurrent["opds"] /\ gateCurrent["key"] <= gateCurrent["key"]
      BY <2>11
    <3> QED
      BY <2>6, <2>8, <2>11, <3>1, SoundStays DEF SoundNow
  <2>13. SoundNow(gateReq[c])'
    BY <2>2, <2>7, <2>12 DEF SoundNow
  <2>14. /\ gateGeneration <= gateGeneration' /\ gateBound.tokens <= gateBound'.tokens
         /\ gateCurrent["opds"] <= gateCurrent'["opds"] /\ gateCurrent["key"] <= gateCurrent'["key"]
    BY <2>2, <2>11
  <2> QED
    BY <1>1, <2>2, <2>7, <2>8, <2>9, <2>10, <2>13, <2>14, ClientMoves
<1> QED
  BY <1>2, <1>3

\* The back-off is asked first.
LEMMA TurnKeeps ==
  ASSUME AccessInv, NEW c \in Clients, Gate!KeyAsk(c) \/ Gate!LoginAsk(c)
  PROVE  AccessInv'
<1> DEFINE q == gateReq[c]
           pc == IF q.pc = "key" THEN "keyread" ELSE "loginread"
<1>1. /\ q.pc \in {"key", "login"} /\ (Gate!TurnAway(c) \/ Gate!Go(c, pc))
      /\ Gate!RetryAfter(Gate!Key(c))
      /\ UNCHANGED <<gateNow, gateSess, gateCurrent, gateBootstrap, gateCache, gateGeneration, gateOver, gateBound>>
  BY DEF Gate!KeyAsk, Gate!LoginAsk, Gate!Turn, Gate!At, Gate!store
<1>2. Backed'
  BY <1>1, BackedStays DEF AccessInv
<1>3. Trusted' /\ gateBootstrap' \in BOOLEAN
  BY <1>1 DEF AccessInv, AccessTypes, Trusted
<1>4. q.gone => (q.via = "key" /\ pc = "keyread") \/ q.via \notin {"cookie", "key", "basic"}
  BY <1>1, Presented DEF SoundNow, Sound
<1>5. pc \in Stages /\ pc # "verify" /\ q.pc # "settle" /\ pc \in {"keyread", "loginread"}
  BY <1>1 DEF Stages
<1> HIDE DEF pc
<1> QED
  BY <1>1, <1>2, <1>3, <1>4, <1>5, Onwards

LEMMA KeyKeeps ==
  ASSUME AccessInv, NEW c \in Clients, Gate!KeyRead(c) \/ Gate!KeyHit(c) \/ Gate!KeyMiss(c)
  PROVE  AccessInv'
<1> DEFINE q == gateReq[c]
<1>1. UNCHANGED <<gateNow, gateSess, gateCurrent, gateBootstrap, gateCache, gateGeneration, gateOver, gateBound>>
  BY DEF Gate!KeyRead, Gate!KeyHit, Gate!KeyMiss, Gate!store
<1>2. Backed'
  <2>1. UNCHANGED gateWindows \/ Gate!RecordFailure(Gate!Key(c)) \/ Gate!RecordSuccess(Gate!Key(c))
    BY DEF Gate!KeyRead, Gate!KeyHit, Gate!KeyMiss, Gate!limiter
  <2> QED
    BY <2>1, BackedStays DEF AccessInv
<1>3. Trusted' /\ gateBootstrap' \in BOOLEAN
  BY <1>1 DEF AccessInv, AccessTypes, Trusted
<1>4. q.pc \in {"keyread", "keyhit", "keymiss"} /\ {"keyhit", "keymiss", "inside"} \subseteq Stages
  BY DEF Gate!KeyRead, Gate!KeyHit, Gate!KeyMiss, Gate!At, Stages
<1>5. q.gone /\ q.via \in {"cookie", "key", "basic"} =>
        q.via = "key" /\ q.pc # "keyhit" /\ q.cred < gateCurrent["key"]
  BY <1>4, Presented DEF SoundNow, Sound
<1>6. \/ Gate!Go(c, "keyhit") /\ q.cred = gateCurrent["key"]
      \/ Gate!Go(c, "keymiss")
      \/ q.pc = "keyhit" /\ Gate!Go(c, "inside")
      \/ Gate!TurnAway(c)
  BY DEF Gate!KeyRead, Gate!KeyHit, Gate!KeyMiss, Gate!At, Gate!Admit
<1>7. q.cred = gateCurrent["key"] => ~(q.cred < gateCurrent["key"])
  <2>1. gateCurrent["key"] \in Nat
    BY DEF AccessInv, AccessTypes, InForce
  <2> QED
    BY <2>1
<1> HIDE DEF q
<1>8. CASE Gate!Go(c, "keyhit") /\ q.cred = gateCurrent["key"]
  BY <1>1, <1>2, <1>3, <1>4, <1>5, <1>7, <1>8, Onwards DEF q
<1>9. CASE Gate!Go(c, "keymiss")
  BY <1>1, <1>2, <1>3, <1>4, <1>5, <1>9, Onwards DEF q
<1>10. CASE q.pc = "keyhit" /\ Gate!Go(c, "inside")
  BY <1>1, <1>2, <1>3, <1>4, <1>5, <1>10, Onwards DEF q
<1>11. CASE Gate!TurnAway(c)
  BY <1>1, <1>2, <1>3, <1>11, Onwards
<1> QED
  BY <1>6, <1>8, <1>9, <1>10, <1>11

\* A password is trusted from memory only while it has not ended.
LEMMA BasicHitKeeps == ASSUME AccessInv, NEW c \in Clients, Gate!BasicHit(c) PROVE AccessInv'
<1> DEFINE q == gateReq[c]
<1>1. /\ UNCHANGED <<gateNow, gateSess, gateCurrent, gateBootstrap, gateCache, gateGeneration, gateOver, gateBound>>
      /\ q.pc = "basic" /\ Gate!Go(c, "inside") /\ Gate!Cached(q.cred) /\ Gate!RecordSuccess(Gate!Key(c))
  BY DEF Gate!BasicHit, Gate!store, Gate!At, Gate!Admit
<1>2. Backed'
  BY <1>1, BackedStays DEF AccessInv
<1>3. Trusted' /\ gateBootstrap' \in BOOLEAN
  BY <1>1 DEF AccessInv, AccessTypes, Trusted
<1>4. q.gone => q.via \notin {"cookie", "key", "basic"}
  <2>1. PICK i \in DOMAIN gateCache : gateCache[i].pwd = q.cred
    BY <1>1 DEF Gate!Cached
  <2>2. gateCache \in Seq(Verified(gateOver))
    BY DEF AccessInv, Trusted
  <2>3. gateCache[i] \in Verified(gateOver)
    BY <2>1, <2>2, ElementOfSeq
  <2>4. <<"basic", q.cred>> \notin gateOver
    BY <2>1, <2>3 DEF Verified
  <2>5. q.gone /\ q.via \in {"cookie", "key"} => q.pc # "basic"
    BY Presented DEF SoundNow, Sound
  <2> QED
    BY <1>1, <2>4, <2>5, Presented
<1>5. "inside" \in Stages
  BY DEF Stages
<1> QED
  BY <1>1, <1>2, <1>3, <1>4, <1>5, Onwards

LEMMA BasicAskKeeps == ASSUME AccessInv, NEW c \in Clients, Gate!BasicAsk(c) PROVE AccessInv'
<1> DEFINE q == gateReq[c]
           r == [q EXCEPT !.pc = "hash", !.gen = gateGeneration]
<1>1. /\ UNCHANGED <<gateNow, gateSess, gateCurrent, gateBootstrap, gateGeneration, gateOver, gateBound>>
      /\ q.pc = "basic" /\ Gate!RetryAfter(Gate!Key(c))
      /\ \/ Gate!TurnAway(c) /\ UNCHANGED gateCache
         \/ /\ gateReq' = [gateReq EXCEPT ![c].pc = "hash", ![c].gen = gateGeneration]
            /\ gateCache' = Gate!Unexpired(q.cred)
  BY DEF Gate!BasicAsk, Gate!store, Gate!At
<1>2. Backed'
  BY <1>1, BackedStays DEF AccessInv
<1>3. gateCache \in Seq(Verified(gateOver)) /\ Len(gateCache) <= CacheCapacity /\ gateBootstrap' \in BOOLEAN
  BY <1>1 DEF AccessInv, AccessTypes, Trusted
<1>4. CASE Gate!TurnAway(c) /\ UNCHANGED gateCache
  <2>1. Trusted'
    BY <1>1, <1>3, <1>4 DEF Trusted
  <2> QED
    BY <1>1, <1>2, <1>3, <1>4, <2>1, Onwards
<1>5. CASE /\ gateReq' = [gateReq EXCEPT ![c].pc = "hash", ![c].gen = gateGeneration]
           /\ gateCache' = Gate!Unexpired(q.cred)
  <2> DEFINE at == {i \in DOMAIN gateCache : gateCache[i].pwd = q.cred /\ gateCache[i].until <= gateNow}
  <2>1. at \in SUBSET DOMAIN gateCache /\ gateCache' = Gate!Popped(gateCache, at)
    BY <1>5 DEF Gate!Unexpired
  <2> HIDE DEF at
  <2>2. /\ gateCache' \in Seq(Verified(gateOver)) /\ Len(gateCache) \in Nat
        /\ Len(gateCache') = IF at = {} THEN Len(gateCache) ELSE Len(gateCache) - 1
    BY <1>3, <2>1, PlacePopped
  <2>3. Trusted'
    BY <1>1, <1>3, <2>2, AccessNumbers DEF Trusted
  <2>4. q \in Visit /\ SoundNow(q) /\ gateGeneration \in Nat /\ "hash" \in Stages
    BY Presented DEF AccessInv, AccessTypes, Stages
  <2>5. /\ r \in Visit /\ r.pc = "hash" /\ r.gen = gateGeneration /\ r.via = q.via /\ r.cred = q.cred
        /\ r.ends = q.ends /\ r.gone = q.gone /\ r.op = q.op /\ r.hash = q.hash
    BY <2>4 DEF Visit
  <2>6. gateReq' = [gateReq EXCEPT ![c] = r]
    BY <1>5
  <2> HIDE DEF r
  <2>7. \A n \in Nat : <<"basic", n>> \notin q.ends
    BY <1>1, <2>4 DEF SoundNow, Sound
  <2>8. q.gone => /\ q.via # "cookie" /\ q.via # "key"
    BY <1>1, <2>4 DEF SoundNow, Sound
  <2>9. SoundNow(r)
    BY <2>4, <2>5, <2>7, <2>8 DEF SoundNow, Sound
  <2>10. gateBound \in [requests : Nat, tokens : Gate!Tokens, restarts : Nat]
    BY DEF AccessInv, AccessTypes
  <2> QED
    BY <1>1, <1>2, <1>3, <2>3, <2>5, <2>6, <2>9, <2>10, RequestOnly
<1> QED
  BY <1>1, <1>4, <1>5

\* The hash that is read is in force, so no ended password verifies against it.
LEMMA BasicReadKeeps == ASSUME AccessInv, NEW c \in Clients, Gate!BasicRead(c) PROVE AccessInv'
<1> DEFINE q == gateReq[c]
           r == [q EXCEPT !.pc = "verify", !.hash = gateCurrent["opds"]]
<1>1. /\ UNCHANGED <<gateNow, gateSess, gateCurrent, gateBootstrap, gateCache, gateGeneration, gateWindows, gateOver, gateBound>>
      /\ q.pc = "hash" /\ gateReq' = [gateReq EXCEPT ![c].pc = "verify", ![c].hash = gateCurrent["opds"]]
  BY DEF Gate!BasicRead, Gate!store, Gate!limiter, Gate!At
<1>2. Backed' /\ Trusted' /\ gateBootstrap' \in BOOLEAN
  BY <1>1, MemoryRests
<1>3. q \in Visit /\ SoundNow(q) /\ gateCurrent["opds"] \in Nat /\ "verify" \in Stages
  BY Presented DEF AccessInv, AccessTypes, Stages, InForce
<1>4. /\ r \in Visit /\ r.pc = "verify" /\ r.hash = gateCurrent["opds"] /\ r.via = q.via /\ r.cred = q.cred
      /\ r.ends = q.ends /\ r.gone = q.gone /\ r.op = q.op /\ r.gen = q.gen
  BY <1>3 DEF Visit
<1>5. gateReq' = [gateReq EXCEPT ![c] = r]
  BY <1>1
<1> HIDE DEF r
<1>6. \A n \in Nat : <<"basic", n>> \notin q.ends
  BY <1>1, <1>3 DEF SoundNow, Sound
<1>7. q.gone => q.via # "cookie" /\ q.via # "key"
  BY <1>1, <1>3 DEF SoundNow, Sound
<1>8. <<"basic", gateCurrent["opds"]>> \notin gateOver
  <2>1. Ending(gateOver, gateSess, gateCurrent, gateBound.tokens)
    BY DEF AccessInv, Refusing
  <2>2. <<"basic", gateCurrent["opds"]>> \in gateOver => gateCurrent["opds"] < gateCurrent["opds"]
    BY <1>3, <2>1 DEF Ending
  <2> QED
    BY <1>3, <2>2
<1>9. q.gone /\ q.via = "basic" => gateCurrent["opds"] > q.cred
  <2>1. q.cred \in Nat
    BY <1>3 DEF Visit
  <2> QED
    BY <1>3, <2>1, Presented
<1>10. SoundNow(r)
  BY <1>3, <1>4, <1>6, <1>7, <1>8, <1>9 DEF SoundNow, Sound
<1>11. gateBound \in [requests : Nat, tokens : Gate!Tokens, restarts : Nat]
  BY DEF AccessInv, AccessTypes
<1> QED
  BY <1>1, <1>2, <1>4, <1>5, <1>10, <1>11, RequestOnly

\* What is kept as verified has not ended, unless the cache was cleared since.
LEMMA BasicVerifyKeeps == ASSUME AccessInv, NEW c \in Clients, Gate!BasicVerify(c) PROVE AccessInv'
<1> DEFINE q == gateReq[c]
<1>1. /\ UNCHANGED <<gateNow, gateSess, gateCurrent, gateBootstrap, gateGeneration, gateOver, gateBound>>
      /\ q.pc = "verify"
      /\ \/ /\ q.cred = q.hash /\ Gate!Go(c, "inside") /\ Gate!RecordSuccess(Gate!Key(c))
            /\ gateCache' = Gate!Put(c)
         \/ Gate!TurnAway(c) /\ Gate!RecordFailure(Gate!Key(c)) /\ UNCHANGED gateCache
  BY DEF Gate!BasicVerify, Gate!store, Gate!At, Gate!Admit
<1>2. Backed'
  BY <1>1, BackedStays DEF AccessInv
<1>3. gateCache \in Seq(Verified(gateOver)) /\ Len(gateCache) <= CacheCapacity /\ gateBootstrap' \in BOOLEAN
  BY <1>1 DEF AccessInv, AccessTypes, Trusted
<1>4. CASE Gate!TurnAway(c) /\ UNCHANGED gateCache
  <2>1. Trusted'
    BY <1>1, <1>3, <1>4 DEF Trusted
  <2> QED
    BY <1>1, <1>2, <1>3, <1>4, <2>1, Onwards
<1>5. CASE q.cred = q.hash /\ Gate!Go(c, "inside") /\ gateCache' = Gate!Put(c)
  <2>1. q \in Visit /\ SoundNow(q) /\ "inside" \in Stages
    BY Presented DEF Stages
  <2>2. q.cred \in Nat /\ q.hash \in Nat
    BY <2>1 DEF Visit
  <2>3. q.gone => q.via \notin {"cookie", "key", "basic"}
    <3>1. /\ q.gone /\ q.via = "basic" => q.hash > q.cred
          /\ q.gone => q.via # "cookie" /\ q.via # "key"
      BY <1>1, <2>1 DEF SoundNow, Sound
    <3> HIDE DEF q
    <3> QED
      BY <1>5, <2>2, <3>1
  <2>4. q.gen = gateGeneration => <<"basic", q.cred>> \notin gateOver
    BY <1>1, <1>5, <2>1 DEF SoundNow, Sound
  <2>5. Trusted'
    <3>1. CASE q.gen # gateGeneration
      <4>1. gateCache' = gateCache
        BY <1>5, <3>1 DEF Gate!Put
      <4> QED
        BY <1>1, <1>3, <4>1 DEF Trusted
    <3>2. CASE q.gen = gateGeneration
      <4> DEFINE at == {i \in DOMAIN gateCache : gateCache[i].pwd = q.cred}
                 e == [pwd |-> q.cred, until |-> gateNow + CacheLife]
                 rest == Gate!Popped(gateCache, at)
      <4>1. at \in SUBSET DOMAIN gateCache /\ gateCache' = Gate!Newest(Append(rest, e), CacheCapacity)
        BY <1>5, <3>2 DEF Gate!Put, Gate!With
      <4>2. gateNow + CacheLife \in Int
        <5>1. gateNow \in Int /\ CacheLife \in Nat
          BY AccessNumbers DEF AccessInv, AccessTypes
        <5> QED
          BY <5>1
      <4>3. e \in Verified(gateOver)
        BY <2>2, <2>4, <3>2, <4>2 DEF Verified
      <4> HIDE DEF at, e
      <4>4. rest \in Seq(Verified(gateOver))
        BY <1>3, <4>1, PlacePopped
      <4> HIDE DEF rest
      <4>5. Append(rest, e) \in Seq(Verified(gateOver))
        BY <4>3, <4>4, AppendProperties
      <4>6. CacheCapacity \in Nat
        BY AccessNumbers
      <4>7. gateCache' \in Seq(Verified(gateOver)) /\ Len(gateCache') <= CacheCapacity
        BY <4>1, <4>5, <4>6, YoungestKept
      <4> QED
        BY <1>1, <4>7 DEF Trusted
    <3> QED
      BY <3>1, <3>2
  <2> HIDE DEF q
  <2> QED
    BY <1>1, <1>2, <1>3, <1>5, <2>1, <2>3, <2>5, Onwards DEF q
<1> QED
  BY <1>1, <1>4, <1>5

\* What a request that is past its check, or never had one, may do.
LEMMA LoginKeeps ==
  ASSUME AccessInv, NEW c \in Clients, Gate!LoginRead(c) \/ Gate!LoginVerify(c)
  PROVE  AccessInv'
<1> DEFINE q == gateReq[c]
<1>1. UNCHANGED <<gateNow, gateSess, gateCurrent, gateBootstrap, gateCache, gateGeneration, gateOver, gateBound>>
  BY DEF Gate!LoginRead, Gate!LoginVerify, Gate!store
<1>2. Backed'
  <2>1. UNCHANGED gateWindows \/ Gate!RecordFailure(Gate!Key(c))
    BY DEF Gate!LoginRead, Gate!LoginVerify, Gate!limiter
  <2> QED
    BY <2>1, BackedStays DEF AccessInv
<1>3. Trusted' /\ gateBootstrap' \in BOOLEAN
  BY <1>1 DEF AccessInv, AccessTypes, Trusted
<1>4. q \in Visit /\ SoundNow(q) /\ q.pc \in {"loginread", "loginverify"}
  BY Presented DEF Gate!LoginRead, Gate!LoginVerify, Gate!At
<1>5. q.gone => q.via \notin {"cookie", "key", "basic"}
  BY <1>4, Presented
<1>6. CASE Gate!LoginRead(c)
  <2> DEFINE r == [q EXCEPT !.pc = "loginverify", !.hash = gateCurrent["login"]]
  <2>1. gateReq' = [gateReq EXCEPT ![c] = r] /\ gateCurrent["login"] \in Nat /\ "loginverify" \in Stages
    BY <1>6 DEF Gate!LoginRead, AccessInv, AccessTypes, InForce, Stages
  <2>2. /\ r \in Visit /\ r.pc = "loginverify" /\ r.via = q.via /\ r.cred = q.cred
        /\ r.ends = q.ends /\ r.gone = q.gone /\ r.op = q.op /\ r.gen = q.gen
    BY <1>4, <2>1 DEF Visit
  <2> HIDE DEF r
  <2>3. \A n \in Nat : <<"basic", n>> \notin q.ends
    BY <1>4 DEF SoundNow, Sound
  <2>4. SoundNow(r)
    BY <1>4, <1>5, <2>2, <2>3 DEF SoundNow, Sound
  <2>5. gateBound \in [requests : Nat, tokens : Gate!Tokens, restarts : Nat]
    BY DEF AccessInv, AccessTypes
  <2> QED
    BY <1>1, <1>2, <1>3, <2>1, <2>2, <2>4, <2>5, RequestOnly
<1>7. CASE Gate!LoginVerify(c)
  <2>1. Gate!TurnAway(c) \/ Gate!Go(c, "replace")
    BY <1>7 DEF Gate!LoginVerify
  <2>2. "replace" \in Stages
    BY DEF Stages
  <2> HIDE DEF q
  <2> QED
    BY <1>1, <1>2, <1>3, <1>4, <1>5, <2>1, <2>2, Onwards DEF q
<1> QED
  BY <1>6, <1>7

\* A change of the rows, or of what is in force, whose request says what it ended.
LEMMA EndStep ==
  ASSUME AccessInv, NEW c \in Clients, NEW pc \in Stages, pc # "verify",
         NEW X \in SUBSET Credentials,
         gateReq' = [gateReq EXCEPT ![c].pc = pc, ![c].ends = X],
         gateReq[c].gone => gateReq[c].via \notin {"cookie", "key", "basic"},
         \A n \in Nat : <<"basic", n>> \in X => pc = "settle" /\ gateReq[c].op = "opds",
         UNCHANGED <<gateNow, gateBootstrap, gateCache, gateGeneration, gateWindows, gateOver, gateBound>>,
         gateSess' \in [Gate!Tokens -> Session], gateCurrent' \in InForce,
         \A n \in 1..gateBound.tokens : gateSess[n] = Gate!NoSession => gateSess'[n] = Gate!NoSession,
         gateCurrent["opds"] <= gateCurrent'["opds"], gateCurrent["key"] <= gateCurrent'["key"],
         Ending(X, gateSess', gateCurrent', gateBound.tokens)
  PROVE  AccessInv'
<1> DEFINE q == gateReq[c]
           r == [q EXCEPT !.pc = pc, !.ends = X]
<1>1. q \in Visit /\ SoundNow(q)
  BY Presented
<1>2. /\ gateBound.tokens \in Nat /\ gateGeneration \in Nat
      /\ gateCurrent \in InForce /\ gateBound.tokens <= gateBound.tokens
      /\ gateGeneration <= gateGeneration
  BY AccessNumbers DEF AccessInv, AccessTypes, Gate!Tokens
<1>3. Sound(q, gateOver, gateGeneration, gateSess', gateCurrent', gateBound.tokens)
  <2>1. Sound(q, gateOver, gateGeneration, gateSess, gateCurrent, gateBound.tokens)
    BY <1>1 DEF SoundNow
  <2> HIDE DEF q
  <2> QED
    BY <1>1, <1>2, <2>1, SoundStays
<1>4. r \in Visit /\ Sound(r, gateOver, gateGeneration, gateSess', gateCurrent', gateBound.tokens)
  BY <1>1, <1>3, EndSound
<1>5. gateReq' = [gateReq EXCEPT ![c] = r]
  OBVIOUS
<1> HIDE DEF q, r
<1>6. gateReq' \in [Clients -> Visit] /\ gateReq'[c] = r /\ \A d \in Clients : d # c => gateReq'[d] = gateReq[d]
  BY <1>4, <1>5 DEF AccessInv, AccessTypes
<1>7. AccessTypes' /\ Backed' /\ Trusted'
  BY <1>6 DEF AccessInv, AccessTypes, Backed, Trusted
<1>8. Ending(gateOver', gateSess', gateCurrent', gateBound'.tokens)
  <2>1. Ending(gateOver, gateSess, gateCurrent, gateBound.tokens)
    BY DEF AccessInv, Refusing
  <2>2. {gateCurrent["opds"], gateCurrent["key"], gateCurrent'["opds"], gateCurrent'["key"]} \subseteq Nat
    BY <1>2 DEF InForce
  <2>3. \A n \in Nat : /\ n < gateCurrent["opds"] => n < gateCurrent'["opds"]
                       /\ n < gateCurrent["key"] => n < gateCurrent'["key"]
    BY <2>2
  <2> QED
    BY <2>1, <2>3 DEF Ending
<1>9. SoundNow(gateReq[c])'
  BY <1>4, <1>6 DEF SoundNow
<1> QED
  BY <1>2, <1>6, <1>7, <1>8, <1>9, ClientMoves

\* The rows without those of some tokens.
LEMMA RowsDeleted ==
  ASSUME AccessInv, NEW tokens
  PROVE  LET rows == Gate!Deleted(tokens) IN
         /\ rows \in [Gate!Tokens -> Session]
         /\ \A n \in 1..gateBound.tokens : /\ n \in Gate!Tokens
                                           /\ gateSess[n] = Gate!NoSession => rows[n] = Gate!NoSession
                                           /\ n \in tokens => rows[n] = Gate!NoSession
<1>1. gateSess \in [Gate!Tokens -> Session] /\ Gate!NoSession \in Session
  BY DEF AccessInv, AccessTypes, Gate!NoSession, Session
<1>2. \A n \in 1..gateBound.tokens : n \in Gate!Tokens
  BY AccessNumbers DEF AccessInv, AccessTypes, Gate!Tokens
<1> QED
  BY <1>1, <1>2 DEF Gate!Deleted

\* A handler that deletes sessions.
LEMMA SessionsEnd ==
  ASSUME AccessInv, NEW c \in Clients, NEW pc \in Stages, pc # "verify",
         NEW tokens, NEW T \in SUBSET tokens, T \subseteq 1..gateBound.tokens,
         gateReq' = [gateReq EXCEPT ![c].pc = pc, ![c].ends = {<<"cookie", t>> : t \in T}],
         gateSess' = Gate!Deleted(tokens),
         gateReq[c].pc \in {"inside", "others", "replace"},
         UNCHANGED <<gateNow, gateCurrent, gateBootstrap, gateCache, gateGeneration, gateWindows, gateOver, gateBound>>
  PROVE  AccessInv'
<1> DEFINE X == {<<"cookie", t>> : t \in T}
<1>1. T \subseteq Nat
  OBVIOUS
<1>2. X \in SUBSET Credentials /\ \A n : /\ <<"basic", n>> \notin X /\ <<"key", n>> \notin X
                                         /\ <<"cookie", n>> \in X => n \in T
  BY <1>1 DEF Credentials, Gate!Ways
<1> HIDE DEF X
<1>3. /\ gateSess' \in [Gate!Tokens -> Session]
      /\ \A n \in 1..gateBound.tokens : gateSess[n] = Gate!NoSession => gateSess'[n] = Gate!NoSession
      /\ \A n \in T : gateSess'[n] = Gate!NoSession
  BY RowsDeleted
<1>4. Ending(X, gateSess', gateCurrent', gateBound.tokens)
  BY <1>2, <1>3 DEF Ending
<1>5. gateReq[c].gone => gateReq[c].via \notin {"cookie", "key", "basic"}
  BY Presented
<1>6. /\ gateCurrent' \in InForce /\ gateCurrent["opds"] <= gateCurrent'["opds"]
      /\ gateCurrent["key"] <= gateCurrent'["key"]
  BY DEF AccessInv, AccessTypes, InForce
<1> QED
  BY <1>2, <1>3, <1>4, <1>5, <1>6, EndStep DEF X

LEMMA ReplaceKeeps == ASSUME AccessInv, NEW c \in Clients, Gate!LoginReplace(c) PROVE AccessInv'
<1>1. /\ UNCHANGED <<gateNow, gateCurrent, gateBootstrap, gateCache, gateGeneration, gateWindows, gateOver, gateBound>>
      /\ gateReq[c].pc = "replace" /\ "create" \in Stages
  BY DEF Gate!LoginReplace, Gate!limiter, Gate!At, Stages
<1>2. CASE Gate!Go(c, "create") /\ UNCHANGED gateSess
  <2>1. gateReq[c].gone => gateReq[c].via \notin {"cookie", "key", "basic"}
    BY <1>1, Presented
  <2> QED
    BY <1>1, <1>2, <2>1, MemoryRests, Onwards
<1>3. ASSUME NEW t \in 1..gateBound.tokens, gateSess' = [gateSess EXCEPT ![t] = Gate!NoSession],
             gateReq' = [gateReq EXCEPT ![c].pc = "create", ![c].ends = {<<"cookie", t>>}]
      PROVE  AccessInv'
  <2>1. gateSess' = Gate!Deleted({t})
    BY <1>3 DEF Gate!Deleted, AccessInv, AccessTypes
  <2>2. {<<"cookie", t>>} = {<<"cookie", s>> : s \in {t}}
    OBVIOUS
  <2> QED
    BY <1>1, <1>3, <2>1, <2>2, SessionsEnd
<1> QED
  BY <1>2, <1>3 DEF Gate!LoginReplace

LEMMA CreateKeeps == ASSUME AccessInv, NEW c \in Clients, Gate!LoginCreate(c) PROVE AccessInv'
<1>1. /\ UNCHANGED <<gateNow, gateCurrent, gateBootstrap, gateCache, gateGeneration>>
      /\ gateReq[c].pc = "create" /\ gateBound.tokens < MaxTokens
      /\ gateSess' = [gateSess EXCEPT ![gateBound.tokens + 1] = [until |-> gateNow + SessionLife, seen |-> gateNow]]
      /\ gateBound' = [gateBound EXCEPT !.tokens = @ + 1]
      /\ Gate!RecordSuccess(Gate!Key(c)) /\ Gate!Answer(c)
  BY DEF Gate!LoginCreate, Gate!At
<1>2. Backed' /\ gateBootstrap' \in BOOLEAN
  BY <1>1, BackedStays DEF AccessInv, AccessTypes
<1>3. /\ gateSess \in [Gate!Tokens -> Session] /\ gateBound \in [requests : Nat, tokens : Gate!Tokens, restarts : Nat]
      /\ gateNow \in Nat /\ SessionLife \in Nat /\ MaxTokens \in Nat
  BY AccessNumbers DEF AccessInv, AccessTypes
<1>4. gateBound.tokens \in 1..MaxTokens /\ gateBound.tokens + 1 \in 1..MaxTokens
  BY <1>1, <1>3 DEF Gate!Tokens
<1>5. [until |-> gateNow + SessionLife, seen |-> gateNow] \in Session
  BY <1>3 DEF Session
<1>6. /\ gateSess' \in [Gate!Tokens -> Session]
      /\ \A n \in 1..gateBound.tokens : gateSess[n] = Gate!NoSession => gateSess'[n] = Gate!NoSession
  BY <1>1, <1>3, <1>4, <1>5 DEF Gate!Tokens
<1>7. /\ gateBound' \in [requests : Nat, tokens : Gate!Tokens, restarts : Nat]
      /\ gateBound.tokens <= gateBound'.tokens
  BY <1>1, <1>3, <1>4 DEF Gate!Tokens
<1> QED
  BY <1>1, <1>2, <1>6, <1>7, AnswerStep

\* The handlers that answer at once, and the ends that are answered.
LEMMA AnswersKeep ==
  ASSUME AccessInv, NEW c \in Clients,
         \/ Gate!Read(c) \/ Gate!BootstrapKey(c) \/ Gate!Answered(c)
         \/ Gate!ClearCache(c) \/ Gate!ClearSources(c)
  PROVE  AccessInv'
<1>1. /\ UNCHANGED <<gateNow, gateSess, gateCurrent, gateWindows, gateBound>> /\ Gate!Answer(c)
      /\ UNCHANGED gateBootstrap \/ gateBootstrap' = FALSE
  BY DEF Gate!Read, Gate!BootstrapKey, Gate!Answered, Gate!ClearCache, Gate!ClearSources,
         Gate!store, Gate!limiter
<1>2. \/ /\ ~(gateReq[c].pc = "settle" /\ gateReq[c].op = "opds")
         /\ UNCHANGED <<gateCache, gateGeneration>>
      \/ gateCache' = <<>> /\ gateGeneration' = gateGeneration + 1
  BY DEF Gate!Read, Gate!BootstrapKey, Gate!Answered, Gate!ClearCache, Gate!ClearSources,
         Gate!Serves, Gate!At
<1>3. Backed' /\ gateBootstrap' \in BOOLEAN
  BY <1>1 DEF AccessInv, AccessTypes, Backed
<1>4. /\ gateSess' \in [Gate!Tokens -> Session]
      /\ gateBound' \in [requests : Nat, tokens : Gate!Tokens, restarts : Nat]
      /\ gateBound.tokens <= gateBound'.tokens
      /\ \A n \in 1..gateBound.tokens : gateSess[n] = Gate!NoSession => gateSess'[n] = Gate!NoSession
  BY <1>1, AccessNumbers DEF AccessInv, AccessTypes, Gate!Tokens
<1> QED
  BY <1>1, <1>2, <1>3, <1>4, AnswerStep

LEMMA SignOutsKeep ==
  ASSUME AccessInv, NEW c \in Clients,
         Gate!LogOut(c) \/ Gate!LogOutAll(c) \/ Gate!InvalidateOthers(c)
  PROVE  AccessInv'
<1>1. /\ UNCHANGED <<gateNow, gateCurrent, gateBootstrap, gateCache, gateGeneration, gateWindows, gateOver, gateBound>>
      /\ gateReq[c].pc \in {"inside", "others"} /\ {"answer", "settle"} \subseteq Stages
  BY DEF Gate!LogOut, Gate!LogOutAll, Gate!InvalidateOthers, Gate!limiter, Gate!Serves, Gate!At,
     Stages
<1>2. Gate!Own(c) \subseteq 1..gateBound.tokens /\ 1..gateBound.tokens \subseteq Gate!Tokens
  <2>1. gateReq[c].via = "cookie" => gateReq[c].cred \in 1..gateBound.tokens
    BY Presented DEF SoundNow, Sound
  <2>2. 1..gateBound.tokens \subseteq Gate!Tokens
    BY AccessNumbers DEF AccessInv, AccessTypes, Gate!Tokens
  <2> QED
    BY <2>1, <2>2 DEF Gate!Own
<1>3. CASE Gate!LogOut(c)
  <2>1. /\ gateSess' = Gate!Deleted(Gate!Own(c))
        /\ gateReq' = [gateReq EXCEPT ![c].pc = "answer", ![c].ends = {<<"cookie", t>> : t \in Gate!Own(c)}]
    BY <1>3 DEF Gate!LogOut
  <2> QED
    BY <1>1, <1>2, <2>1, SessionsEnd
<1>4. CASE Gate!LogOutAll(c)
  <2>1. /\ gateSess' = Gate!Deleted(Gate!Tokens)
        /\ gateReq' = [gateReq EXCEPT ![c].pc = "answer", ![c].ends = {<<"cookie", t>> : t \in 1..gateBound.tokens}]
    BY <1>4 DEF Gate!LogOutAll
  <2> QED
    BY <1>1, <1>2, <2>1, SessionsEnd
<1>5. CASE Gate!InvalidateOthers(c)
  <2> DEFINE T == (1..gateBound.tokens) \ Gate!Own(c)
             gone == Gate!Tokens \ Gate!Own(c)
  <2>1. /\ gateSess' = Gate!Deleted(gone)
        /\ gateReq' = [gateReq EXCEPT ![c].pc = "settle", ![c].ends = {<<"cookie", t>> : t \in T}]
    BY <1>5 DEF Gate!InvalidateOthers
  <2>2. T \subseteq 1..gateBound.tokens /\ T \in SUBSET gone
    BY <1>2
  <2> HIDE DEF T, gone
  <2> QED
    BY <1>1, <2>1, <2>2, SessionsEnd
<1> QED
  BY <1>3, <1>4, <1>5

LEMMA ChangesKeep ==
  ASSUME AccessInv, NEW c \in Clients, Gate!ChangeProve(c) \/ Gate!ChangeWrite(c)
  PROVE  AccessInv'
<1> DEFINE what == gateReq[c].op
<1>1. /\ UNCHANGED <<gateNow, gateSess, gateBootstrap, gateCache, gateGeneration, gateWindows, gateOver, gateBound>>
      /\ gateReq[c].pc \in {"inside", "change"} /\ {"change", "others", "settle"} \subseteq Stages
  BY DEF Gate!ChangeProve, Gate!ChangeWrite, Gate!limiter, Gate!store, Gate!At, Stages
<1>2. gateReq[c].gone => gateReq[c].via \notin {"cookie", "key", "basic"}
  BY <1>1, Presented
<1>3. CASE Gate!ChangeProve(c)
  <2>1. (Gate!TurnAway(c) \/ Gate!Go(c, "change")) /\ UNCHANGED gateCurrent
    BY <1>3 DEF Gate!ChangeProve, Gate!store
  <2> QED
    BY <1>1, <1>2, <2>1, MemoryRests, Onwards
<1>4. CASE Gate!ChangeWrite(c)
  <2> DEFINE v == gateCurrent[what] + 1
             X == Gate!Retires(what, v)
             pc == IF what = "login" THEN "others" ELSE "settle"
  <2>1. /\ gateCurrent' = [gateCurrent EXCEPT ![what] = v]
        /\ gateReq' = [gateReq EXCEPT ![c].pc = pc, ![c].ends = X]
    BY <1>4 DEF Gate!ChangeWrite
  <2>2. gateCurrent \in [{"login", "opds", "key"} -> Nat]
    BY DEF AccessInv, AccessTypes, InForce
  <2>3. what \in {"opds", "key"} => v \in Nat /\ v = gateCurrent[what] + 1
    BY <2>2
  <2>4. /\ gateCurrent' \in InForce /\ gateCurrent["opds"] <= gateCurrent'["opds"]
        /\ gateCurrent["key"] <= gateCurrent'["key"]
        /\ what = "opds" => gateCurrent'["opds"] = v
        /\ what = "key" => gateCurrent'["key"] = v
    <3> HIDE DEF what
    <3>1. CASE what \in {"login", "opds", "key"}
      BY <2>1, <2>2, <3>1 DEF InForce
    <3>2. CASE what \notin {"login", "opds", "key"}
      <4>1. /\ DOMAIN gateCurrent' = {"login", "opds", "key"}
            /\ \A s \in {"login", "opds", "key"} : gateCurrent'[s] = gateCurrent[s]
        BY <2>1, <2>2, <3>2
      <4>2. /\ gateCurrent["opds"] \in Nat /\ gateCurrent["key"] \in Nat
            /\ gateCurrent'["opds"] = gateCurrent["opds"] /\ gateCurrent'["key"] = gateCurrent["key"]
        BY <2>2, <4>1
      <4>3. gateCurrent' \in InForce
        BY <2>1, <2>2, <4>1 DEF InForce
      <4> QED
        BY <3>2, <4>2, <4>3
    <3> QED
      BY <3>1, <3>2
  <2> HIDE DEF v
  <2>5. X \in SUBSET Credentials
        /\ \A n \in Nat : /\ <<"cookie", n>> \notin X
                          /\ <<"basic", n>> \in X => what = "opds" /\ n < v
                          /\ <<"key", n>> \in X => what = "key" /\ n < v
    <3>1. CASE what = "opds"
      <4>1. X = {<<"basic", n>> : n \in 0..(v - 1)} /\ v \in Nat
        BY <2>3, <3>1 DEF Gate!Retires
      <4> HIDE DEF X, what
      <4> QED
        BY <3>1, <4>1 DEF Credentials, Gate!Ways
    <3>2. CASE what = "key"
      <4>1. X = {<<"key", n>> : n \in 0..(v - 1)} /\ v \in Nat
        BY <2>3, <3>2 DEF Gate!Retires
      <4> HIDE DEF X, what
      <4> QED
        BY <3>2, <4>1 DEF Credentials, Gate!Ways
    <3>3. CASE what \notin {"opds", "key"}
      <4>1. X = {}
        BY <3>3 DEF Gate!Retires
      <4> HIDE DEF X, what
      <4> QED
        BY <4>1
    <3> QED
      BY <3>1, <3>2, <3>3
  <2> HIDE DEF X
  <2>6. Ending(X, gateSess', gateCurrent', gateBound.tokens)
    BY <2>4, <2>5 DEF Ending
  <2>7. \A n \in Nat : <<"basic", n>> \in X => pc = "settle" /\ gateReq[c].op = "opds"
    BY <2>5
  <2>8. pc \in Stages /\ pc # "verify"
    BY <1>1
  <2>9. /\ gateSess' \in [Gate!Tokens -> Session]
        /\ \A n \in 1..gateBound.tokens : gateSess[n] = Gate!NoSession => gateSess'[n] = Gate!NoSession
    BY <1>1 DEF AccessInv, AccessTypes
  <2> HIDE DEF pc, what
  <2> QED
    BY <1>1, <1>2, <2>1, <2>4, <2>5, <2>6, <2>7, <2>8, <2>9, EndStep
<1> QED
  BY <1>3, <1>4

\* The clock, the pruning of old rows, and a restart.
LEMMA ClockKeeps == ASSUME AccessInv, Gate!Tick \/ Gate!PruneExpired PROVE AccessInv'
<1>1. /\ UNCHANGED <<gateCurrent, gateBootstrap, gateCache, gateGeneration, gateWindows, gateReq, gateOver, gateBound>>
      /\ gateNow' \in 0..MaxNow
  BY AccessNumbers DEF Gate!Tick, Gate!PruneExpired, Gate!limiter, Gate!store, AccessInv,
     AccessTypes
<1>2. /\ gateSess' \in [Gate!Tokens -> Session]
      /\ \A n \in 1..gateBound.tokens : gateSess[n] = Gate!NoSession => gateSess'[n] = Gate!NoSession
  <2>1. CASE UNCHANGED gateSess
    BY <2>1 DEF AccessInv, AccessTypes
  <2>2. UNCHANGED gateSess \/ \E tokens : gateSess' = Gate!Deleted(tokens)
    BY DEF Gate!Tick, Gate!PruneExpired, Gate!store
  <2> QED
    BY <2>1, <2>2, RowsDeleted
<1>3. AccessTypes' /\ Backed' /\ Trusted'
  BY <1>1, <1>2 DEF AccessInv, AccessTypes, Backed, Trusted
<1>4. Ending(gateOver', gateSess', gateCurrent', gateBound'.tokens)
  BY <1>1, <1>2 DEF AccessInv, Refusing, Ending
<1>5. ASSUME NEW d \in Clients
      PROVE  Sound(gateReq'[d], gateOver', gateGeneration', gateSess', gateCurrent', gateBound'.tokens)
  <2>1. gateReq[d] \in Visit
        /\ Sound(gateReq[d], gateOver, gateGeneration, gateSess, gateCurrent, gateBound.tokens)
    BY DEF AccessInv, AccessTypes, Refusing
  <2>2. /\ gateBound.tokens \in Nat /\ gateGeneration \in Nat /\ gateCurrent \in InForce
        /\ gateCurrent["opds"] \in Nat /\ gateCurrent["key"] \in Nat
    BY AccessNumbers DEF AccessInv, AccessTypes, Gate!Tokens, InForce
  <2>3. /\ gateGeneration <= gateGeneration /\ gateBound.tokens <= gateBound.tokens
        /\ gateCurrent["opds"] <= gateCurrent["opds"] /\ gateCurrent["key"] <= gateCurrent["key"]
    BY <2>2
  <2>4. Sound(gateReq[d], gateOver, gateGeneration, gateSess', gateCurrent, gateBound.tokens)
    BY <1>2, <2>1, <2>2, <2>3, SoundStays
  <2> QED
    BY <1>1, <2>4
<1> QED
  BY <1>3, <1>4, <1>5 DEF AccessInv, Refusing

LEMMA RestartKeeps == ASSUME AccessInv, Gate!Restart PROVE AccessInv'
<1>1. /\ UNCHANGED <<gateNow, gateSess, gateCurrent, gateOver>>
      /\ gateBound' = [gateBound EXCEPT !.restarts = @ + 1]
      /\ gateReq' = [c \in Clients |-> Gate!NoReq] /\ gateCache' = <<>> /\ gateGeneration' = 0
      /\ gateBootstrap' = FALSE /\ gateWindows' = <<>>
  BY DEF Gate!Restart, Gate!store
<1>2. /\ gateBound' \in [requests : Nat, tokens : Gate!Tokens, restarts : Nat]
      /\ gateBound'.tokens = gateBound.tokens
  BY <1>1 DEF AccessInv, AccessTypes
<1>3. Gate!NoReq \in Visit /\ \A ended, rows, force, made : Sound(Gate!NoReq, ended, 0, rows, force, made)
  BY NobodySound
<1>4. AccessTypes'
  BY <1>1, <1>2, <1>3 DEF AccessInv, AccessTypes
<1>5. Backed' /\ Trusted'
  <2>1. \A S : <<>> \in Seq(S)
    OBVIOUS
  <2> QED
    BY <1>1, <2>1, AccessNumbers DEF Backed, Trusted, Listed
<1>6. Refusing'
  BY <1>1, <1>2, <1>3 DEF AccessInv, Refusing
<1> QED
  BY <1>4, <1>5, <1>6 DEF AccessInv

LEMMA AccessStep == ASSUME AccessInv, [Gate!Next]_gateVars PROVE AccessInv'
<1>1. ASSUME NEW c \in Clients, Gate!Authenticate(c) PROVE AccessInv'
  BY <1>1, CookieKeeps, TurnKeeps, KeyKeeps, BasicHitKeeps, BasicAskKeeps, BasicReadKeeps,
     BasicVerifyKeeps DEF Gate!Authenticate
<1>2. ASSUME NEW c \in Clients, Gate!Login(c) PROVE AccessInv'
  BY <1>2, TurnKeeps, LoginKeeps, ReplaceKeeps, CreateKeeps DEF Gate!Login
<1>3. ASSUME NEW c \in Clients, Gate!Handle(c) PROVE AccessInv'
  BY <1>3, AnswersKeep, SignOutsKeep, ChangesKeep DEF Gate!Handle
<1>4. CASE UNCHANGED gateVars
  BY <1>4 DEF gateVars, AccessInv, AccessTypes, Backed, Trusted, Refusing
<1> QED
  BY <1>1, <1>2, <1>3, <1>4, ArriveKeeps, ClockKeeps, RestartKeeps DEF Gate!Next

\* What has ended admits nobody who arrives after its end was answered: a
\* session signed out of stays out, also when another request of it was being
\* touched meanwhile, and an old password or key is refused, also when its slow
\* verification ends after the change.
THEOREM EndedAreRefused == Spec => []EndedIsRefused
<1>1. Init => AccessInv
  BY AccessInit DEF Init
<1>2. AccessInv /\ [Next]_vars => AccessInv'
  BY OneActs, AccessStep
<1>3. AccessInv => EndedIsRefused
  <2> SUFFICES ASSUME AccessInv PROVE EndedIsRefused
    OBVIOUS
  <2>1. ASSUME NEW c \in Clients, Gate!Let(c) PROVE gateReq[c].gone => gateReq[c].via \notin {"cookie", "key", "basic"}
    BY <2>1, Presented DEF Gate!Let
  <2>2. Gate!TypeOK
    BY DEF AccessInv, AccessTypes, Backed, Trusted, Gate!TypeOK
  <2> QED
    BY <2>1, <2>2 DEF EndedIsRefused, Gate!SignedOutStaysOut, Gate!OldCredentialRefused
<1> QED
  BY <1>1, <1>2, <1>3, PTL DEF Spec

(***************************************************************************)
(* A boot: what it replaces it can put back, and what it began it ends.    *)
(***************************************************************************)
Stations == {"down", "load", "migrate-config", "gate", "restore", "stage", "swap-db", "swap-config",
             "unmark", "prepare", "migrate", "keystore", "secrets", "rules", "clear", "principal",
             "seed-indexer", "seed-client", "seed-mark", "serving"}
\* Past the preparation of the database: the start may have left a backup behind.
Prepared == {"migrate", "keystore", "secrets", "rules", "clear", "principal",
             "seed-indexer", "seed-client", "seed-mark", "serving"}
Opened == {"rules", "clear", "principal", "seed-indexer", "seed-client", "seed-mark", "serving"}

BootTypes ==
  /\ bootEnv \in [pw : Passwords \cup {Unset}, key : Boot!Secrets]
  /\ bootDb \in Boot!Database /\ bootConfig \in Boot!Configuration
  /\ bootBackups \subseteq Boot!Copies /\ IsFiniteSet(bootBackups)
  /\ bootBackups # {} => \E b \in bootBackups : \A c \in bootBackups : c.made <= b.made
  /\ bootMarker \in Nat /\ bootPc \in Stations
  /\ bootJob \in [at : {"idle", "config"}, db : Boot!Database]
  /\ bootSpent \in Boot!Bounds /\ bootLimit \in Boot!Bounds
  /\ bootSpent.faults <= bootLimit.faults /\ bootSpent.crashes <= bootLimit.crashes
  /\ bootConfig.ver = -1 => bootConfig.edits = {}

\* A database, wherever it lies: each default is there or was removed, and a login set in
\* Settings was set under the password the environment last gave.
Told(d) ==
  /\ d.rows \cap d.removed = {}
  /\ IF d.seeded THEN d.rows \cup d.removed = Boot!Defaults ELSE d.removed = {}
  /\ d.chosen # <<>> => d.pw # Unset /\ d.chosen[1] \in {Unset, d.fp}
AllTold == Told(bootDb) /\ Told(bootJob.db) /\ \A b \in bootBackups : Told(b.db)

Seeding ==
  /\ bootPc \in Opened /\ bootDb.sentinel = bootEnv.key => bootDb.secret # "plain"
  /\ bootPc = "seed-client" => bootDb.seeded \/ "indexer" \in bootDb.rows
  /\ bootPc = "seed-mark" => bootDb.seeded \/ bootDb.rows = Boot!Defaults
  /\ bootPc = "serving" => bootDb.seeded

Replacing ==
  /\ bootPc \in {"stage", "swap-db", "swap-config", "unmark"} =>
       \E b \in bootBackups : b.made = bootMarker
  /\ bootPc \in {"swap-config", "unmark"} => bootDb = Boot!Target.db
  /\ bootPc = "swap-config" => Boot!Target.config.ver # -1
  /\ bootPc = "unmark" => Boot!Target.config.ver = -1 \/ bootConfig = Boot!Target.config

\* What is live goes aside before it is replaced, and what lies aside is not pruned.
Aside == {b \in bootBackups : b.pool = "pre-restore"}
Saved ==
  /\ \A e \in Nat : e < bootSpent.edits =>
       \/ e \in bootDb.edits \cup bootConfig.edits
       \/ \E b \in Aside : e \in b.db.edits \cup b.config.edits
  /\ bootPc \in {"stage", "swap-db"} => \E b \in Aside : b.db = bootDb /\ b.config = bootConfig
  /\ bootPc = "swap-config" => \E b \in Aside : b.config = bootConfig

\* Every start that ended early left at most one backup before a migration.
Starts == bootSpent.faults + bootSpent.crashes + (IF bootPc \in Prepared THEN 1 ELSE 0)
Younger(b, all) == {c \in all : c.pool = "pre-migration" /\ c.made > b.made}
Undoable(d, all, n) ==
  d.origin # 0 => \E b \in all : /\ b.pool = "pre-migration" /\ b.db.rev = d.origin
                                 /\ Cardinality(Younger(b, all)) < n
AllUndoable == /\ Undoable(bootDb, bootBackups, Starts) /\ Undoable(bootJob.db, bootBackups, Starts)
               /\ \A b \in bootBackups : Undoable(b.db, bootBackups, Starts)

LEMMA BootNumbers ==
  /\ Revisions \in Nat /\ Keep \in Nat \ {0} /\ "plain" \notin Boot!Secrets /\ Unset # "chosen"
  /\ Boot!ConfigVersion = 1 /\ \A S : Boot!Cardinality(S) = Cardinality(S)
<1>1. \A S : Boot!Cardinality(S) = Cardinality(S)
  BY DEF Cardinality, Boot!Cardinality
<1> QED
  BY <1>1, PlatformAssumption DEF Boot!StartupAssumption, Boot!ConfigVersion

\* A new backup is the youngest.
LEMMA NextIsYoungest ==
  ASSUME BootTypes
  PROVE  Boot!NextId \in Nat \ {0} /\ \A b \in bootBackups : b.made < Boot!NextId
<1> DEFINE ids == {0} \cup {b.made : b \in bootBackups}
<1>1. \A b \in bootBackups : b.made \in Nat
  BY DEF BootTypes, Boot!Copies
<1>2. ids \subseteq Nat
  BY <1>1
<1>3. \E x \in ids : \A y \in ids : x >= y
  <2>1. CASE bootBackups = {}
    BY <2>1
  <2>2. CASE bootBackups # {}
    <3>1. PICK b \in bootBackups : \A c \in bootBackups : c.made <= b.made
      BY <2>2 DEF BootTypes
    <3>2. b.made \in ids /\ \A y \in ids : b.made >= y
      BY <1>1, <3>1
    <3> QED
      BY <3>2
  <2> QED
    BY <2>1, <2>2
<1>4. Boot!NextId = 1 + (CHOOSE x \in ids : \A y \in ids : x >= y)
  BY DEF Boot!NextId, Boot!Max
<1> DEFINE m == CHOOSE x \in ids : \A y \in ids : x >= y
<1>5. m \in ids /\ \A y \in ids : m >= y
  BY <1>3
<1>6. \A b \in bootBackups : b.made \in ids
  OBVIOUS
<1> HIDE DEF m, ids
<1>7. Boot!NextId = 1 + m /\ m \in Nat
  BY <1>2, <1>4, <1>5 DEF m, ids
<1> QED
  BY <1>1, <1>5, <1>6, <1>7

\* Max of a version and 1.
LEMMA NewerVersion ==
  ASSUME NEW v \in -1..2
  PROVE  Boot!Max({v, 1}) \in 1..2
<1> DEFINE S == {v, 1}
<1>1. \E x \in S : \A y \in S : x >= y
  <2>1. CASE v <= 1
    BY <2>1
  <2>2. CASE v > 1
    BY <2>2
  <2> QED
    BY <2>1, <2>2
<1>2. Boot!Max(S) \in S /\ \A y \in S : Boot!Max(S) >= y
  BY <1>1 DEF Boot!Max
<1> QED
  BY <1>2

\* What joins the backups, and what the pruning of a pool leaves.
Joined(pool, n) == Boot!Pruned(pool, Keep, bootBackups \cup {n})
LEMMA BackupsGrow ==
  ASSUME BootTypes, NEW pool \in Boot!Pools, NEW d \in Boot!Database, NEW c \in Boot!Configuration,
         NEW n, n = Boot!Backup(pool, d, c)
  PROVE  /\ n \in Boot!Copies /\ n.made = Boot!NextId /\ n.pool = pool /\ n.db = d /\ n.config = c
         /\ bootBackups \cup {n} \subseteq Boot!Copies /\ IsFiniteSet(bootBackups \cup {n})
         /\ \A b \in bootBackups : b.made < n.made
         /\ Joined(pool, n) \subseteq bootBackups \cup {n} /\ n \in Joined(pool, n)
         /\ \A b \in bootBackups : b.pool # pool => b \in Joined(pool, n)
         /\ \A b \in bootBackups :
              Cardinality({x \in bootBackups : x.pool = pool /\ x.made > b.made}) + 1 < Keep
              => b \in Joined(pool, n)
<1> DEFINE all == bootBackups \cup {n}
           Over(b) == {x \in all : x.pool = pool /\ x.made > b.made}
<1>1. n \in Boot!Copies /\ n.made = Boot!NextId /\ n.pool = pool /\ n.db = d /\ n.config = c
  BY NextIsYoungest DEF Boot!Backup, Boot!Copies
<1>2. all \subseteq Boot!Copies /\ IsFiniteSet(all)
  BY <1>1, FS_AddElement DEF BootTypes
<1>3. \A b \in bootBackups : b.made < n.made
  BY <1>1, NextIsYoungest
<1>4. Joined(pool, n) = {b \in all : b.pool # pool}
                          \cup {b \in all : b.pool = pool /\ Boot!Cardinality(Over(b)) < Keep}
  BY DEF Joined, Boot!Pruned, Boot!Newest
<1>5. n \in Joined(pool, n)
  <2>1. Over(n) = {}
    BY <1>1, <1>2, <1>3, NextIsYoungest DEF Boot!Copies
  <2>2. Boot!Cardinality(Over(n)) = 0
    BY <2>1, BootNumbers, FS_EmptySet
  <2> HIDE DEF Over
  <2>3. Boot!Cardinality(Over(n)) < Keep
    BY <2>2, BootNumbers
  <2> QED
    BY <1>1, <1>4, <2>3
<1>6. ASSUME NEW b \in bootBackups,
             Cardinality({x \in bootBackups : x.pool = pool /\ x.made > b.made}) + 1 < Keep
      PROVE  b \in Joined(pool, n)
  <2> DEFINE old == {x \in bootBackups : x.pool = pool /\ x.made > b.made}
  <2>1. IsFiniteSet(old) /\ Over(b) \subseteq old \cup {n}
    <3>1. IsFiniteSet(old)
      BY FS_Subset DEF BootTypes
    <3> QED
      BY <3>1
  <2> HIDE DEF old, Over
  <2>2. /\ IsFiniteSet(old \cup {n}) /\ Cardinality(old) \in Nat
        /\ Cardinality(old \cup {n}) <= Cardinality(old) + 1
    <3>1. Cardinality(old) \in Nat
      BY <2>1, FS_CardinalityType
    <3>2. /\ IsFiniteSet(old \cup {n})
          /\ Cardinality(old \cup {n}) = IF n \in old THEN Cardinality(old) ELSE Cardinality(old) + 1
      BY <2>1, FS_AddElement
    <3> QED
      BY <3>1, <3>2
  <2>3. Cardinality(Over(b)) \in Nat /\ Cardinality(Over(b)) <= Cardinality(old \cup {n})
    BY <2>1, <2>2, FS_Subset, FS_CardinalityType
  <2>4. Cardinality(old \cup {n}) \in Nat
    BY <2>2, FS_CardinalityType
  <2>5. Cardinality(Over(b)) < Keep
    BY <1>6, <2>2, <2>3, <2>4, BootNumbers DEF old
  <2>6. Boot!Cardinality(Over(b)) < Keep
    BY <2>5, BootNumbers
  <2> QED
    BY <1>4, <2>6
<1> QED
  BY <1>1, <1>2, <1>3, <1>4, <1>5, <1>6

LEMMA BootInit ==
  ASSUME Boot!Init
  PROVE  BootTypes /\ AllTold /\ Seeding /\ Replacing /\ Saved /\ AllUndoable
<1>1. PICK r \in Deployments :
        /\ bootEnv = r.env /\ bootDb = r.db /\ bootConfig = r.config /\ bootLimit = r.limit
        /\ bootBackups = r.backups /\ bootMarker = 0 /\ bootPc = "down" /\ bootJob = Boot!Idle
        /\ bootSpent = [edits |-> 0, logins |-> 0, faults |-> 0, crashes |-> 0, envs |-> 0,
                        restores |-> 0, backups |-> 0]
  BY DEF Boot!Init
<1>2. /\ r.env \in [pw : Passwords \cup {Unset}, key : Boot!Secrets] /\ r.limit \in Boot!Bounds
      /\ r.db \in Boot!Database /\ Boot!Found(r.db)
      /\ r.config \in Boot!Configuration /\ (r.config.ver = -1 => r.config.edits = {})
      /\ r.backups \subseteq Boot!Copies /\ Boot!IsFiniteSet(r.backups)
      /\ \A b \in r.backups : Boot!Found(b.db)
      /\ r.backups # {} => \E b \in r.backups : \A c \in r.backups : c.made <= b.made
  BY PlatformAssumption DEF Boot!StartupAssumption
<1>3. IsFiniteSet(r.backups)
  BY <1>2 DEF IsFiniteSet, Boot!IsFiniteSet
<1>4. Boot!NoDb \in Boot!Database /\ Boot!Found(Boot!NoDb)
  BY BootNumbers DEF Boot!NoDb, Boot!Database, Boot!Found, Boot!Logins, Boot!Secrets
<1>5. BootTypes
  <2>1. bootSpent \in Boot!Bounds /\ bootSpent.faults = 0 /\ bootSpent.crashes = 0
    BY <1>1 DEF Boot!Bounds
  <2>2. {bootLimit.faults, bootLimit.crashes} \subseteq Nat
    BY <1>1, <1>2 DEF Boot!Bounds
  <2>3. bootJob \in [at : {"idle", "config"}, db : Boot!Database]
    BY <1>1, <1>4 DEF Boot!Idle
  <2> QED
    BY <1>1, <1>2, <1>3, <2>1, <2>2, <2>3 DEF BootTypes, Stations
<1>6. \A d \in Boot!Database : Boot!Found(d) => Told(d) /\ Undoable(d, bootBackups, Starts)
  BY DEF Boot!Found, Told, Undoable, Boot!Database
<1>7. bootJob.db \in Boot!Database /\ Boot!Found(bootJob.db)
  BY <1>1, <1>4 DEF Boot!Idle
<1>8. \A b \in bootBackups : b.db \in Boot!Database
  BY <1>1, <1>2 DEF Boot!Copies
<1>9. AllTold /\ AllUndoable
  BY <1>1, <1>2, <1>6, <1>7, <1>8 DEF AllTold, AllUndoable
<1>10. Seeding /\ Replacing /\ Saved
  <2>1. bootSpent.edits = 0
    BY <1>1
  <2> QED
    BY <1>1, <2>1 DEF Seeding, Replacing, Saved, Opened
<1> QED
  BY <1>5, <1>9, <1>10

\* The steps that only go on to another station, and what each may spend.
Fails == Boot!RestoreFails \/ Boot!SnapshotFails \/ Boot!MigrationFails \/ Boot!RulesFail

LEMMA SpendsOne ==
  ASSUME BootTypes, NEW what \in {"edits", "logins", "faults", "crashes", "envs", "restores", "backups"},
         Boot!Spend(what)
  PROVE  /\ bootSpent' \in Boot!Bounds
         /\ what \notin {"faults", "crashes"} =>
              bootSpent'.faults = bootSpent.faults /\ bootSpent'.crashes = bootSpent.crashes
         /\ what = "faults" =>
              bootSpent'.faults = bootSpent.faults + 1 /\ bootSpent'.crashes = bootSpent.crashes
         /\ what = "crashes" =>
              bootSpent'.faults = bootSpent.faults /\ bootSpent'.crashes = bootSpent.crashes + 1
         /\ what # "edits" => bootSpent'.edits = bootSpent.edits
         /\ what = "edits" => bootSpent'.edits = bootSpent.edits + 1
         /\ bootSpent.edits \in Nat
         /\ bootSpent'.faults <= bootLimit.faults /\ bootSpent'.crashes <= bootLimit.crashes
<1>1. bootSpent \in Boot!Bounds /\ bootLimit \in Boot!Bounds
      /\ bootSpent.faults <= bootLimit.faults /\ bootSpent.crashes <= bootLimit.crashes
  BY DEF BootTypes
<1>2. bootSpent[what] < bootLimit[what] /\ bootSpent' = [bootSpent EXCEPT ![what] = @ + 1]
  BY DEF Boot!Spend
<1>3. CASE what = "edits"
  BY <1>1, <1>2, <1>3 DEF Boot!Bounds
<1>4. CASE what = "faults"
  BY <1>1, <1>2, <1>4 DEF Boot!Bounds
<1>5. CASE what = "crashes"
  BY <1>1, <1>2, <1>5 DEF Boot!Bounds
<1>6. CASE what \in {"logins", "envs", "restores", "backups"}
  BY <1>1, <1>2, <1>6 DEF Boot!Bounds
<1> QED
  BY <1>3, <1>4, <1>5, <1>6

\* What the start and the operator write into the database.
Writes1 == Boot!Migrate \/ Boot!InitKeystore \/ Boot!MigrateSecrets \/ Boot!ClearRules
Writes2 == Boot!SeedPrincipal \/ Boot!SeedIndexer \/ Boot!SeedClient \/ Boot!SeedMark
Edits == Boot!EditDb \/ Boot!ChangePassword \/ Boot!SaveSecret \/ Boot!RemoveDefault

LEMMA DatabaseWritten ==
  ASSUME BootTypes, AllTold, Seeding, Writes1 \/ Writes2 \/ Edits
  PROVE  /\ bootDb' \in Boot!Database /\ Told(bootDb')
         /\ bootDb.edits \subseteq bootDb'.edits
         /\ bootDb'.origin \in {0, bootDb.origin}
         /\ UNCHANGED <<bootEnv, bootConfig, bootBackups, bootMarker, bootJob, bootLimit>>
<1> DEFINE d == bootDb
<1>1. UNCHANGED <<bootEnv, bootConfig, bootBackups, bootMarker, bootJob, bootLimit>>
  BY DEF Writes1, Writes2, Edits, Boot!Migrate, Boot!InitKeystore, Boot!MigrateSecrets,
     Boot!ClearRules,
         Boot!SeedPrincipal, Boot!SeedIndexer, Boot!SeedClient, Boot!SeedRow, Boot!SeedMark,
         Boot!EditDb, Boot!ChangePassword, Boot!SaveSecret, Boot!RemoveDefault
<1>2. /\ d \in Boot!Database /\ Told(d) /\ bootEnv.key \in Boot!Secrets
      /\ bootEnv.pw \in Passwords \cup {Unset} /\ bootSpent.edits \in Nat
  BY DEF BootTypes, AllTold, Boot!Bounds
<1>3. /\ d.rev \in 0..(Revisions + 1) /\ d.edits \subseteq Nat /\ d.pw \in Boot!Logins
      /\ d.fp \in Boot!Logins /\ d.origin \in 0..(Revisions + 1) /\ d.rows \subseteq Boot!Defaults
      /\ d.removed \subseteq Boot!Defaults
  BY <1>2 DEF Boot!Database
<1>4. CASE Boot!Migrate
  <2> DEFINE o == IF d.rev + 1 = Revisions THEN 0 ELSE d.origin
  <2>1. bootDb' = [d EXCEPT !.rev = d.rev + 1, !.origin = o]
    BY <1>4 DEF Boot!Migrate
  <2>2. d.rev + 1 \in 0..(Revisions + 1) /\ o \in 0..(Revisions + 1) /\ o \in {0, d.origin}
    BY <1>3, <1>4, BootNumbers DEF Boot!Migrate
  <2> HIDE DEF o
  <2> QED
    BY <1>1, <1>2, <2>1, <2>2 DEF Boot!Database, Told
<1>5. CASE Boot!InitKeystore
  <2>1. bootDb' = d \/ bootDb' = [d EXCEPT !.sentinel = bootEnv.key]
    BY <1>5 DEF Boot!InitKeystore
  <2> QED
    BY <1>1, <1>2, <2>1 DEF Boot!Database, Told
<1>6. CASE Boot!MigrateSecrets
  <2>1. bootDb' = d \/ bootDb' = [d EXCEPT !.secret = bootEnv.key]
    BY <1>6 DEF Boot!MigrateSecrets
  <2> QED
    BY <1>1, <1>2, <2>1 DEF Boot!Database, Told
<1>7. CASE Boot!ClearRules
  <2>1. bootDb' = [d EXCEPT !.rules = FALSE]
    BY <1>7 DEF Boot!ClearRules
  <2> QED
    BY <1>1, <1>2, <2>1 DEF Boot!Database, Told
<1>8. CASE Boot!SeedPrincipal
  <2>1. \/ bootDb' = d
        \/ bootDb' = [d EXCEPT !.pw = bootEnv.pw, !.fp = bootEnv.pw, !.chosen = <<>>]
        \/ /\ bootDb' = [d EXCEPT !.fp = bootEnv.pw] /\ d.pw # Unset
           /\ d.fp \in {Unset, bootEnv.pw}
    BY <1>8 DEF Boot!SeedPrincipal, Boot!Seeded, Boot!Reseeded
  <2>2. bootEnv.pw \in Boot!Logins
    BY <1>2 DEF Boot!Logins
  <2>3. CASE bootDb' = d
    BY <1>1, <1>2, <2>3
  <2>4. CASE bootDb' = [d EXCEPT !.pw = bootEnv.pw, !.fp = bootEnv.pw, !.chosen = <<>>]
    BY <1>1, <1>2, <2>2, <2>4 DEF Boot!Database, Told
  <2>5. CASE /\ bootDb' = [d EXCEPT !.fp = bootEnv.pw] /\ d.pw # Unset
             /\ d.fp \in {Unset, bootEnv.pw}
    BY <1>1, <1>2, <2>2, <2>5 DEF Boot!Database, Told
  <2> QED
    BY <2>1, <2>3, <2>4, <2>5
<1>9. CASE Boot!SeedIndexer \/ Boot!SeedClient
  <2>1. \/ bootDb' = d
        \/ /\ ~d.seeded
           /\ \E row \in Boot!Defaults : bootDb' = [d EXCEPT !.rows = d.rows \cup {row}]
    BY <1>9 DEF Boot!SeedIndexer, Boot!SeedClient, Boot!SeedRow, Boot!Defaults
  <2>2. CASE bootDb' = d
    BY <1>1, <1>2, <2>2
  <2>3. ASSUME NEW row \in Boot!Defaults, ~d.seeded, bootDb' = [d EXCEPT !.rows = d.rows \cup {row}]
        PROVE  bootDb' \in Boot!Database /\ Told(bootDb') /\ d.edits = bootDb'.edits /\ bootDb'.origin = d.origin
    BY <1>2, <2>3 DEF Boot!Database, Told
  <2> QED
    BY <1>1, <2>1, <2>2, <2>3
<1>10. CASE Boot!SeedMark
  <2>1. bootDb' = [d EXCEPT !.seeded = TRUE] /\ (d.seeded \/ d.rows = Boot!Defaults)
    BY <1>10 DEF Boot!SeedMark, Seeding
  <2> QED
    BY <1>1, <1>2, <2>1 DEF Boot!Database, Told
<1>11. CASE Boot!EditDb
  <2>1. bootDb' = [d EXCEPT !.edits = d.edits \cup {bootSpent.edits}]
    BY <1>11 DEF Boot!EditDb
  <2> QED
    BY <1>1, <1>2, <2>1 DEF Boot!Database, Told
<1>12. CASE Boot!ChangePassword
  <2>1. bootDb' = [d EXCEPT !.pw = "chosen", !.chosen = <<d.fp>>]
    BY <1>12 DEF Boot!ChangePassword
  <2>2. "chosen" \in Boot!Logins /\ Unset # "chosen" /\ <<d.fp>>[1] = d.fp
        /\ <<d.fp>> \in {<<>>} \cup {<<p>> : p \in Boot!Logins}
    BY <1>3, BootNumbers DEF Boot!Logins
  <2> QED
    BY <1>1, <1>2, <2>1, <2>2 DEF Boot!Database, Told
<1>13. CASE Boot!SaveSecret
  <2>1. bootDb' = [d EXCEPT !.secret = bootEnv.key, !.edits = d.edits \cup {bootSpent.edits}]
    BY <1>13 DEF Boot!SaveSecret
  <2> QED
    BY <1>1, <1>2, <2>1 DEF Boot!Database, Told
<1>14. CASE Boot!RemoveDefault
  <2>1. PICK row \in d.rows : bootDb' = [d EXCEPT !.rows = d.rows \ {row}, !.removed = d.removed \cup {row},
                                                  !.edits = d.edits \cup {bootSpent.edits}]
    BY <1>14 DEF Boot!RemoveDefault
  <2>2. d.seeded
    BY <1>14 DEF Boot!RemoveDefault, Seeding
  <2> QED
    BY <1>1, <1>2, <2>1, <2>2 DEF Boot!Database, Told
<1> QED
  BY <1>4, <1>5, <1>6, <1>7, <1>8, <1>9, <1>10, <1>11, <1>12, <1>13, <1>14 DEF Writes1, Writes2,
     Edits

\* How each kind of step leaves the backups.
LEMMA BackupsKept ==
  ASSUME BootTypes, Boot!Next
  PROVE  \/ UNCHANGED bootBackups
         \/ \E pool \in Boot!Pools, d \in Boot!Database, c \in Boot!Configuration :
              LET n == Boot!Backup(pool, d, c) IN
              /\ d \in {bootDb, bootJob.db, Boot!NoDb}
              /\ \/ bootBackups' = bootBackups \cup {n}
                 \/ pool # "pre-restore" /\ bootBackups' = Joined(pool, n)
              /\ pool = "pre-migration" => Boot!Prepare /\ bootDb.rev < Revisions
              /\ UNCHANGED <<bootDb, bootEnv>> \/ Boot!Prepare
<1>1. Boot!NoDb \in Boot!Database /\ Boot!NoConfig \in Boot!Configuration
  BY BootNumbers DEF Boot!NoDb, Boot!Database, Boot!NoConfig, Boot!Configuration, Boot!Logins,
     Boot!Secrets
<1>2. bootDb \in Boot!Database /\ bootJob.db \in Boot!Database /\ bootConfig \in Boot!Configuration
  BY DEF BootTypes
<1>3. CASE Boot!Snapshot
  BY <1>2, <1>3 DEF Boot!Snapshot, Boot!Pools
<1>4. CASE Boot!LoadConfig
  BY <1>1, <1>2, <1>4 DEF Boot!LoadConfig, Boot!ConfigBackups, Joined, Boot!Pools
<1>5. CASE Boot!Prepare
  BY <1>1, <1>2, <1>5 DEF Boot!Prepare, Boot!PreparedBackups, Joined, Boot!Pools
<1>6. CASE Boot!BackupPublish
  BY <1>2, <1>6 DEF Boot!BackupPublish, Joined, Boot!Pools
<1>7. CASE ~(Boot!Snapshot \/ Boot!LoadConfig \/ Boot!Prepare \/ Boot!BackupPublish)
  BY <1>7 DEF Boot!Next, Boot!Startup, Boot!Boot, Boot!MigrateConfig, Boot!Gate, Boot!NoRestore,
     Boot!Stage, Boot!SwapDb, Boot!SwapConfig, Boot!Unmark, Boot!Migrate, Boot!InitKeystore,
     Boot!MigrateSecrets, Boot!MoveRules, Boot!ClearRules, Boot!SeedPrincipal, Boot!SeedIndexer,
     Boot!SeedClient, Boot!SeedRow, Boot!SeedMark, Boot!RestoreFails, Boot!SnapshotFails,
     Boot!MigrationFails, Boot!RulesFail, Boot!EditDb, Boot!EditConfig, Boot!ChangePassword,
     Boot!SaveSecret, Boot!RemoveDefault, Boot!BackupStart, Boot!AskRestore, Boot!ChangeEnv,
     Boot!Crash
<1> QED
  BY <1>3, <1>4, <1>5, <1>6, <1>7

\* What the steps that write no database may do to it and to the configuration.
LEMMA OthersMove ==
  ASSUME BootTypes, Boot!Next, ~(Writes1 \/ Writes2 \/ Edits)
  PROVE  /\ \/ UNCHANGED bootDb
            \/ Boot!SwapDb
            \/ /\ Boot!Prepare /\ bootDb.rev < Revisions
               /\ bootDb' = [bootDb EXCEPT !.origin = IF bootDb.origin = 0 THEN bootDb.rev
                                                        ELSE bootDb.origin]
         /\ \/ UNCHANGED bootJob
            \/ bootJob' = Boot!Idle
            \/ bootJob' = [at |-> "config", db |-> bootDb]
<1>1. UNCHANGED bootDb \/ Boot!SwapDb \/ Boot!Prepare
  BY DEF Writes1, Writes2, Edits, Boot!Next, Boot!Startup, Boot!Boot, Boot!LoadConfig,
     Boot!MigrateConfig,
     Boot!Gate, Boot!NoRestore, Boot!Snapshot, Boot!Stage, Boot!SwapConfig, Boot!Unmark,
     Boot!MoveRules, Boot!RestoreFails, Boot!SnapshotFails, Boot!MigrationFails, Boot!RulesFail,
     Boot!EditConfig, Boot!BackupStart, Boot!BackupPublish, Boot!AskRestore, Boot!ChangeEnv,
     Boot!Crash
<1>2. CASE Boot!Prepare
  BY <1>2 DEF Boot!Prepare
<1>3. \/ UNCHANGED bootJob
      \/ bootJob' = Boot!Idle
      \/ bootJob' = [at |-> "config", db |-> bootDb]
  BY DEF Writes1, Writes2, Edits, Boot!Next, Boot!Startup, Boot!Boot, Boot!LoadConfig,
     Boot!MigrateConfig,
     Boot!Gate, Boot!NoRestore, Boot!Snapshot, Boot!Stage, Boot!SwapDb, Boot!SwapConfig,
     Boot!Unmark,
     Boot!Prepare, Boot!MoveRules, Boot!RestoreFails, Boot!SnapshotFails, Boot!MigrationFails,
     Boot!RulesFail, Boot!EditConfig, Boot!BackupStart, Boot!BackupPublish, Boot!AskRestore,
     Boot!ChangeEnv, Boot!Crash
<1> QED
  BY <1>1, <1>2, <1>3

\* The copy a restore puts back is one of the backups.
LEMMA TargetListed ==
  ASSUME BootTypes, Replacing, bootPc \in {"stage", "swap-db", "swap-config", "unmark"}
  PROVE  Boot!Target \in bootBackups /\ Boot!Target \in Boot!Copies
<1>1. \E b \in bootBackups : b.made = bootMarker
  BY DEF Replacing
<1>2. Boot!Target \in bootBackups
  BY <1>1 DEF Boot!Target
<1> QED
  BY <1>2 DEF BootTypes

LEMMA DatabasesKept ==
  ASSUME BootTypes, AllTold, Seeding, Replacing, Boot!Next
  PROVE  /\ bootDb' \in Boot!Database /\ Told(bootDb')
         /\ bootJob' \in [at : {"idle", "config"}, db : Boot!Database] /\ Told(bootJob'.db)
         /\ bootBackups' \subseteq Boot!Copies /\ IsFiniteSet(bootBackups')
         /\ \A b \in bootBackups' : Told(b.db)
         /\ bootBackups' # {} => \E b \in bootBackups' : \A c \in bootBackups' : c.made <= b.made
<1>1. bootDb' \in Boot!Database /\ Told(bootDb')
  <2>1. CASE Writes1 \/ Writes2 \/ Edits
    BY <2>1, DatabaseWritten
  <2>2. CASE ~(Writes1 \/ Writes2 \/ Edits)
    <3>1. CASE UNCHANGED bootDb
      BY <3>1 DEF BootTypes, AllTold
    <3>2. CASE Boot!SwapDb
      <4>1. bootDb' = Boot!Target.db /\ bootPc = "swap-db"
        BY <3>2 DEF Boot!SwapDb
      <4>2. Boot!Target \in bootBackups /\ Boot!Target \in Boot!Copies
        BY <4>1, TargetListed
      <4> QED
        BY <4>1, <4>2 DEF AllTold, Boot!Copies
    <3>3. CASE bootDb' = [bootDb EXCEPT !.origin = IF bootDb.origin = 0 THEN bootDb.rev
                                                   ELSE bootDb.origin]
      <4> DEFINE o == IF bootDb.origin = 0 THEN bootDb.rev ELSE bootDb.origin
      <4>1. bootDb \in Boot!Database /\ o \in 0..(Revisions + 1)
        BY DEF BootTypes, Boot!Database
      <4> HIDE DEF o
      <4> QED
        BY <3>3, <4>1 DEF AllTold, Told, Boot!Database, o
    <3> QED
      BY <2>2, <3>1, <3>2, <3>3, OthersMove
  <2> QED
    BY <2>1, <2>2
<1>2. bootJob' \in [at : {"idle", "config"}, db : Boot!Database] /\ Told(bootJob'.db)
  <2>1. Boot!NoDb \in Boot!Database /\ Told(Boot!NoDb)
    BY BootNumbers DEF Boot!NoDb, Boot!Database, Told, Boot!Logins, Boot!Secrets
  <2>2. \/ UNCHANGED bootJob
        \/ bootJob' = [at |-> "idle", db |-> Boot!NoDb]
        \/ bootJob' = [at |-> "config", db |-> bootDb]
    BY DatabaseWritten, OthersMove DEF Boot!Idle
  <2> QED
    BY <2>1, <2>2 DEF BootTypes, AllTold
<1>3. CASE UNCHANGED bootBackups
  BY <1>1, <1>2, <1>3 DEF BootTypes, AllTold
<1>4. ASSUME NEW pool \in Boot!Pools, NEW d \in Boot!Database, NEW c \in Boot!Configuration,
             d \in {bootDb, bootJob.db, Boot!NoDb},
             LET n == Boot!Backup(pool, d, c) IN
             \/ bootBackups' = bootBackups \cup {n}
             \/ bootBackups' = Joined(pool, n)
      PROVE  /\ bootBackups' \subseteq Boot!Copies /\ IsFiniteSet(bootBackups')
             /\ \A b \in bootBackups' : Told(b.db)
             /\ bootBackups' # {} => \E b \in bootBackups' : \A x \in bootBackups' : x.made <= b.made
  <2> DEFINE n == Boot!Backup(pool, d, c)
  <2>1. /\ n \in Boot!Copies /\ n.db = d
        /\ bootBackups \cup {n} \subseteq Boot!Copies /\ IsFiniteSet(bootBackups \cup {n})
        /\ \A b \in bootBackups : b.made < n.made
        /\ bootBackups' \subseteq bootBackups \cup {n} /\ n \in bootBackups'
    <3>1. bootBackups' = bootBackups \cup {n} \/ bootBackups' = Joined(pool, n)
      BY <1>4
    <3>2. /\ n \in Boot!Copies /\ n.db = d
          /\ bootBackups \cup {n} \subseteq Boot!Copies /\ IsFiniteSet(bootBackups \cup {n})
          /\ \A b \in bootBackups : b.made < n.made
          /\ Joined(pool, n) \subseteq bootBackups \cup {n} /\ n \in Joined(pool, n)
      <4> HIDE DEF n
      <4>1. n = Boot!Backup(pool, d, c)
        BY DEF n
      <4> QED
        BY <4>1, BackupsGrow
    <3> HIDE DEF n
    <3> QED
      BY <3>1, <3>2
  <2>2. Told(d)
    BY <1>4, BootNumbers DEF AllTold, Told, Boot!NoDb
  <2> HIDE DEF n
  <2>3. bootBackups' \subseteq Boot!Copies /\ IsFiniteSet(bootBackups')
    BY <2>1, FS_Subset
  <2>4. \A b \in bootBackups' : Told(b.db)
    BY <2>1, <2>2 DEF AllTold
  <2>5. \A x \in bootBackups' : x.made <= n.made
    BY <2>1 DEF Boot!Copies
  <2> QED
    BY <2>1, <2>3, <2>4, <2>5
<1> QED
  BY <1>1, <1>2, <1>3, <1>4, BackupsKept

LEMMA ConfigurationKept ==
  ASSUME BootTypes, Replacing, Boot!Next
  PROVE  /\ bootConfig' \in Boot!Configuration
         /\ bootConfig'.ver = -1 => bootConfig'.edits = {}
         /\ \/ bootConfig.edits \subseteq bootConfig'.edits
            \/ bootPc = "swap-config" /\ Boot!SwapConfig
<1> DEFINE g == bootConfig
<1>1. g \in Boot!Configuration /\ (g.ver = -1 => g.edits = {}) /\ bootSpent.edits \in Nat
  BY DEF BootTypes, Boot!Bounds
<1>2. g.ver \in -1..2 /\ g.edits \subseteq Nat
  BY <1>1, BootNumbers DEF Boot!Configuration
<1>3. CASE UNCHANGED bootConfig
  BY <1>1, <1>3
<1>4. CASE Boot!LoadConfig /\ ~UNCHANGED bootConfig
  <2>1. bootConfig' = [ver |-> 1, edits |-> {}, rules |-> FALSE] /\ g.ver = -1
    BY <1>4, BootNumbers DEF Boot!LoadConfig, Boot!NoConfig
  <2> QED
    BY <1>1, <2>1, BootNumbers DEF Boot!Configuration
<1>5. CASE Boot!MigrateConfig
  <2>1. bootConfig' = [g EXCEPT !.ver = 1]
    BY <1>5, BootNumbers DEF Boot!MigrateConfig
  <2> QED
    BY <1>1, <2>1, BootNumbers DEF Boot!Configuration
<1>6. CASE Boot!SwapConfig
  <2>1. bootConfig' = Boot!Target.config /\ bootPc = "swap-config" /\ Boot!Target \in Boot!Copies
    BY <1>6, TargetListed DEF Boot!SwapConfig
  <2>2. Boot!Target.config.ver # -1
    BY <2>1 DEF Replacing
  <2> QED
    BY <1>6, <2>1, <2>2 DEF Boot!Copies
<1>7. CASE (Boot!MoveRules \/ Boot!EditConfig) /\ ~UNCHANGED bootConfig
  <2> DEFINE v == Boot!Max({g.ver, 1})
  <2>1. v \in 1..2
    BY <1>2, NewerVersion
  <2>2. \/ bootConfig' = [[g EXCEPT !.ver = v] EXCEPT !.rules = TRUE]
        \/ bootConfig' = [[g EXCEPT !.ver = v] EXCEPT !.edits = g.edits \cup {bootSpent.edits}]
    <3>1. Boot!Rewritten = [g EXCEPT !.ver = v]
      BY BootNumbers DEF Boot!Rewritten
    <3>2. Boot!Rewritten.edits = g.edits
      BY <1>1, <3>1 DEF Boot!Configuration
    <3> QED
      BY <1>7, <3>1, <3>2 DEF Boot!MoveRules, Boot!EditConfig
  <2> HIDE DEF v
  <2>3. Boot!Configuration = [ver : -1..2, edits : SUBSET Nat, rules : BOOLEAN] /\ v \in -1..2 /\ v # -1
    BY <2>1, BootNumbers DEF Boot!Configuration
  <2> HIDE DEF g
  <2>4. CASE bootConfig' = [[g EXCEPT !.ver = v] EXCEPT !.rules = TRUE]
    BY <1>1, <2>3, <2>4 DEF g
  <2>5. CASE bootConfig' = [[g EXCEPT !.ver = v] EXCEPT !.edits = g.edits \cup {bootSpent.edits}]
    <3>1. g.edits \cup {bootSpent.edits} \in SUBSET Nat
      BY <1>1, <1>2
    <3> QED
      BY <1>1, <2>3, <2>5, <3>1 DEF g
  <2> QED
    BY <2>2, <2>4, <2>5
<1>8. UNCHANGED bootConfig \/ Boot!LoadConfig \/ Boot!MigrateConfig \/ Boot!SwapConfig
      \/ Boot!MoveRules \/ Boot!EditConfig
  BY DEF Boot!Next, Boot!Startup, Boot!Boot, Boot!Gate, Boot!NoRestore, Boot!Snapshot,
     Boot!Stage, Boot!SwapDb, Boot!Unmark, Boot!Prepare, Boot!Migrate, Boot!InitKeystore,
     Boot!MigrateSecrets, Boot!ClearRules, Boot!SeedPrincipal, Boot!SeedIndexer,
     Boot!SeedClient, Boot!SeedRow, Boot!SeedMark, Boot!RestoreFails, Boot!SnapshotFails,
     Boot!MigrationFails, Boot!RulesFail, Boot!EditDb, Boot!ChangePassword,
     Boot!SaveSecret, Boot!RemoveDefault, Boot!BackupStart, Boot!BackupPublish,
     Boot!AskRestore, Boot!ChangeEnv, Boot!Crash
<1> QED
  BY <1>3, <1>4, <1>5, <1>6, <1>7, <1>8

\* Who spends what; the bounds do not move.
LEMMA Spending ==
  ASSUME BootTypes, Boot!Next
  PROVE  /\ UNCHANGED bootLimit
         /\ \/ UNCHANGED bootSpent
            \/ Boot!Spend("edits") /\ UNCHANGED bootPc
            \/ /\ \E what \in {"logins", "envs", "restores", "backups"} : Boot!Spend(what)
               /\ UNCHANGED bootPc
            \/ Boot!Spend("faults")
            \/ Boot!Spend("crashes") /\ Boot!Crash
<1>1. UNCHANGED bootLimit /\ (UNCHANGED bootSpent \/ Edits \/ Boot!EditConfig \/ Fails \/ Boot!BackupStart
                             \/ Boot!AskRestore \/ Boot!ChangeEnv \/ Boot!Crash)
  BY DEF Edits, Fails, Boot!Next, Boot!Startup, Boot!Boot, Boot!LoadConfig, Boot!MigrateConfig,
     Boot!Gate, Boot!NoRestore, Boot!Snapshot, Boot!Stage, Boot!SwapDb, Boot!SwapConfig,
     Boot!Unmark,
     Boot!Prepare, Boot!Migrate, Boot!InitKeystore, Boot!MigrateSecrets, Boot!MoveRules,
     Boot!ClearRules, Boot!SeedPrincipal, Boot!SeedIndexer, Boot!SeedClient, Boot!SeedRow,
     Boot!SeedMark, Boot!RestoreFails, Boot!SnapshotFails, Boot!MigrationFails, Boot!RulesFail,
     Boot!EditDb, Boot!EditConfig, Boot!ChangePassword, Boot!SaveSecret, Boot!RemoveDefault,
     Boot!BackupStart, Boot!BackupPublish, Boot!AskRestore, Boot!ChangeEnv, Boot!Crash
<1>2. CASE Edits
  BY <1>1, <1>2 DEF Edits, Boot!EditDb, Boot!ChangePassword, Boot!SaveSecret, Boot!RemoveDefault
<1>3. CASE Boot!EditConfig
  BY <1>1, <1>3 DEF Boot!EditConfig
<1>4. CASE Fails
  BY <1>1, <1>4 DEF Fails, Boot!RestoreFails, Boot!SnapshotFails, Boot!MigrationFails,
     Boot!RulesFail
<1>5. CASE Boot!BackupStart \/ Boot!AskRestore \/ Boot!ChangeEnv
  BY <1>1, <1>5 DEF Boot!BackupStart, Boot!AskRestore, Boot!ChangeEnv
<1>6. CASE Boot!Crash
  BY <1>1, <1>6 DEF Boot!Crash
<1> QED
  BY <1>1, <1>2, <1>3, <1>4, <1>5, <1>6

\* The counts grow, the ones of what ends a start included.
LEMMA SpentKept ==
  ASSUME BootTypes, Boot!Next
  PROVE  /\ bootLimit' \in Boot!Bounds /\ bootSpent' \in Boot!Bounds
         /\ bootSpent'.faults <= bootLimit'.faults /\ bootSpent'.crashes <= bootLimit'.crashes
         /\ \/ bootSpent'.edits = bootSpent.edits
            \/ bootSpent'.edits = bootSpent.edits + 1 /\ Boot!Spend("edits")
         /\ {bootSpent.faults, bootSpent.crashes, bootSpent'.faults, bootSpent'.crashes} \subseteq Nat
         /\ bootSpent.faults + bootSpent.crashes <= bootSpent'.faults + bootSpent'.crashes
<1>1. bootSpent \in Boot!Bounds /\ bootLimit \in Boot!Bounds
      /\ bootSpent.faults <= bootLimit.faults /\ bootSpent.crashes <= bootLimit.crashes
      /\ {bootSpent.faults, bootSpent.crashes} \subseteq Nat
  BY DEF BootTypes, Boot!Bounds
<1>2. CASE UNCHANGED bootSpent
  BY <1>1, <1>2, Spending
<1>3. CASE Boot!Spend("edits")
  BY <1>1, <1>3, Spending, SpendsOne
<1>4. ASSUME NEW what \in {"logins", "envs", "restores", "backups"}, Boot!Spend(what)
      PROVE  /\ bootSpent' \in Boot!Bounds /\ bootSpent'.faults = bootSpent.faults
             /\ bootSpent'.crashes = bootSpent.crashes /\ bootSpent'.edits = bootSpent.edits
  BY <1>4, SpendsOne
<1>5. CASE Boot!Spend("faults")
  BY <1>1, <1>5, Spending, SpendsOne
<1>6. CASE Boot!Spend("crashes")
  BY <1>1, <1>6, Spending, SpendsOne
<1> QED
  BY <1>1, <1>2, <1>3, <1>4, <1>5, <1>6, Spending

LEMMA BootTypesStep == ASSUME BootTypes, AllTold, Seeding, Replacing, Boot!Next PROVE BootTypes'
<1>1. bootPc' \in Stations
  <2>1. bootPc \in Stations
    BY DEF BootTypes
  <2>2. CASE Boot!Startup
    BY <2>1, <2>2 DEF Stations, Boot!Startup, Boot!Boot, Boot!LoadConfig, Boot!MigrateConfig,
     Boot!Gate, Boot!NoRestore, Boot!Snapshot, Boot!Stage, Boot!SwapDb, Boot!SwapConfig,
     Boot!Unmark,
     Boot!Prepare, Boot!Migrate, Boot!InitKeystore, Boot!MigrateSecrets, Boot!MoveRules,
     Boot!ClearRules, Boot!SeedPrincipal, Boot!SeedIndexer, Boot!SeedClient, Boot!SeedRow,
     Boot!SeedMark
  <2>3. CASE ~Boot!Startup
    BY <2>1, <2>3 DEF Stations, Boot!Next, Boot!RestoreFails, Boot!SnapshotFails,
       Boot!MigrationFails,
     Boot!RulesFail, Boot!EditDb, Boot!EditConfig, Boot!ChangePassword, Boot!SaveSecret,
     Boot!RemoveDefault, Boot!BackupStart, Boot!BackupPublish, Boot!AskRestore, Boot!ChangeEnv,
     Boot!Crash
  <2> QED
    BY <2>2, <2>3
<1>2. bootMarker' \in Nat
  <2>1. UNCHANGED bootMarker \/ bootMarker' = 0 \/ \E b \in bootBackups : bootMarker' = b.made
    BY DEF Boot!Next, Boot!Startup, Boot!Boot, Boot!LoadConfig, Boot!MigrateConfig,
     Boot!Gate, Boot!NoRestore, Boot!Snapshot, Boot!Stage, Boot!SwapDb, Boot!SwapConfig,
     Boot!Unmark,
     Boot!Prepare, Boot!Migrate, Boot!InitKeystore, Boot!MigrateSecrets, Boot!MoveRules,
     Boot!ClearRules, Boot!SeedPrincipal, Boot!SeedIndexer, Boot!SeedClient, Boot!SeedRow,
     Boot!SeedMark, Boot!RestoreFails, Boot!SnapshotFails, Boot!MigrationFails, Boot!RulesFail,
     Boot!EditDb, Boot!EditConfig, Boot!ChangePassword, Boot!SaveSecret, Boot!RemoveDefault,
     Boot!BackupStart, Boot!BackupPublish, Boot!AskRestore, Boot!ChangeEnv, Boot!Crash
  <2> QED
    BY <2>1 DEF BootTypes, Boot!Copies
<1>3. bootEnv' \in [pw : Passwords \cup {Unset}, key : Boot!Secrets]
  <2>1. UNCHANGED bootEnv \/ bootEnv' \in [pw : Passwords \cup {Unset}, key : Keys \cup {Unset}]
    BY DEF Boot!Next, Boot!Startup, Boot!Boot, Boot!LoadConfig, Boot!MigrateConfig,
     Boot!Gate, Boot!NoRestore, Boot!Snapshot, Boot!Stage, Boot!SwapDb, Boot!SwapConfig,
     Boot!Unmark,
     Boot!Prepare, Boot!Migrate, Boot!InitKeystore, Boot!MigrateSecrets, Boot!MoveRules,
     Boot!ClearRules, Boot!SeedPrincipal, Boot!SeedIndexer, Boot!SeedClient, Boot!SeedRow,
     Boot!SeedMark, Boot!RestoreFails, Boot!SnapshotFails, Boot!MigrationFails, Boot!RulesFail,
     Boot!EditDb, Boot!EditConfig, Boot!ChangePassword, Boot!SaveSecret, Boot!RemoveDefault,
     Boot!BackupStart, Boot!BackupPublish, Boot!AskRestore, Boot!ChangeEnv, Boot!Crash
  <2> QED
    BY <2>1 DEF BootTypes, Boot!Secrets
<1> QED
  BY <1>1, <1>2, <1>3, DatabasesKept, ConfigurationKept, SpentKept DEF BootTypes

\* Each stage of the start finds what the one before it did.
LEMMA SeedingStep == ASSUME BootTypes, AllTold, Seeding, Boot!Next PROVE Seeding'
<1>1. /\ bootDb \in Boot!Database /\ bootEnv.key \in Boot!Secrets /\ "plain" \notin Boot!Secrets
      /\ bootPc \in Stations
  BY BootNumbers DEF BootTypes
<1>2. /\ bootDb.rows \subseteq Boot!Defaults /\ Boot!Defaults = {"indexer", "client"}
      /\ bootDb.seeded => bootDb.rows \cup bootDb.removed = Boot!Defaults
  BY <1>1 DEF Boot!Database, Boot!Defaults, AllTold, Told
<1>3. CASE bootPc' \notin Opened
  BY <1>3 DEF Seeding, Opened
<1>4. CASE Boot!InitKeystore \/ Boot!MigrateSecrets
  <2>1. CASE Boot!InitKeystore
    <3>1. /\ bootPc' \in {"secrets", "rules"} /\ bootEnv' = bootEnv
          /\ bootPc' = "rules" => bootDb'.sentinel # bootEnv.key
      BY <2>1 DEF Boot!InitKeystore
    <3> QED
      BY <3>1 DEF Seeding, Opened
  <2>2. CASE Boot!MigrateSecrets
    <3>1. bootPc' = "rules" /\ bootEnv' = bootEnv
          /\ bootDb' = IF bootDb.secret = "plain" THEN [bootDb EXCEPT !.secret = bootEnv.key] ELSE bootDb
      BY <2>2 DEF Boot!MigrateSecrets
    <3>2. bootDb'.secret # "plain"
      BY <1>1, <3>1 DEF Boot!Database
    <3> QED
      BY <3>1, <3>2 DEF Seeding
  <2> QED
    BY <1>4, <2>1, <2>2
<1>5. CASE Boot!MoveRules \/ Boot!ClearRules \/ Boot!RulesFail
  <2>1. /\ bootPc \in Opened /\ bootPc' \in {"clear", "principal"} /\ bootEnv' = bootEnv
        /\ bootDb' = bootDb \/ bootDb' = [bootDb EXCEPT !.rules = FALSE]
    BY <1>5 DEF Boot!MoveRules, Boot!ClearRules, Boot!RulesFail, Opened
  <2>2. bootDb'.secret = bootDb.secret /\ bootDb'.sentinel = bootDb.sentinel
    BY <1>1, <2>1 DEF Boot!Database
  <2> QED
    BY <2>1, <2>2 DEF Seeding
<1>6. CASE Boot!SeedPrincipal
  <2>1. /\ bootPc \in Opened /\ bootPc' = "seed-indexer" /\ bootEnv' = bootEnv
        /\ \/ bootDb' = bootDb
           \/ bootDb' = [bootDb EXCEPT !.pw = bootEnv.pw, !.fp = bootEnv.pw, !.chosen = <<>>]
           \/ bootDb' = [bootDb EXCEPT !.fp = bootEnv.pw]
    BY <1>6 DEF Boot!SeedPrincipal, Boot!Seeded, Boot!Reseeded, Opened
  <2>2. bootDb'.secret = bootDb.secret /\ bootDb'.sentinel = bootDb.sentinel
    BY <1>1, <2>1 DEF Boot!Database
  <2> QED
    BY <2>1, <2>2 DEF Seeding
<1>7. CASE Boot!SeedIndexer
  <2>1. /\ bootPc \in Opened /\ bootPc' = "seed-client" /\ bootEnv' = bootEnv
        /\ bootDb' = IF bootDb.seeded THEN bootDb
                     ELSE [bootDb EXCEPT !.rows = bootDb.rows \cup {"indexer"}]
    BY <1>7 DEF Boot!SeedIndexer, Boot!SeedRow, Opened
  <2>2. /\ bootDb'.secret = bootDb.secret /\ bootDb'.sentinel = bootDb.sentinel
        /\ bootDb'.seeded \/ "indexer" \in bootDb'.rows
    BY <1>1, <2>1 DEF Boot!Database
  <2> QED
    BY <2>1, <2>2 DEF Seeding
<1>8. CASE Boot!SeedClient
  <2>1. /\ bootPc = "seed-client" /\ bootPc \in Opened /\ bootPc' = "seed-mark" /\ bootEnv' = bootEnv
        /\ bootDb' = IF bootDb.seeded THEN bootDb
                     ELSE [bootDb EXCEPT !.rows = bootDb.rows \cup {"client"}]
    BY <1>8 DEF Boot!SeedClient, Boot!SeedRow, Opened
  <2>2. /\ bootDb'.secret = bootDb.secret /\ bootDb'.sentinel = bootDb.sentinel
        /\ bootDb.seeded => bootDb' = bootDb
        /\ ~bootDb.seeded => bootDb'.rows = bootDb.rows \cup {"client"}
    BY <1>1, <2>1 DEF Boot!Database
  <2>3. bootDb.seeded \/ "indexer" \in bootDb.rows
    BY <2>1 DEF Seeding
  <2>4. bootDb'.seeded \/ bootDb'.rows = Boot!Defaults
    BY <1>2, <2>2, <2>3
  <2> QED
    BY <2>1, <2>2, <2>4 DEF Seeding
<1>9. CASE Boot!SeedMark
  <2>1. /\ bootPc \in Opened /\ bootPc' = "serving" /\ bootEnv' = bootEnv
        /\ bootDb' = [bootDb EXCEPT !.seeded = TRUE]
    BY <1>9 DEF Boot!SeedMark, Opened
  <2>2. bootDb'.secret = bootDb.secret /\ bootDb'.sentinel = bootDb.sentinel /\ bootDb'.seeded
    BY <1>1, <2>1 DEF Boot!Database
  <2> QED
    BY <2>1, <2>2 DEF Seeding
<1>10. CASE Edits
  <2>1. /\ bootPc = "serving" /\ bootPc' = bootPc /\ bootEnv' = bootEnv
        /\ \/ \E x : bootDb' = [bootDb EXCEPT !.edits = x]
           \/ \E x : bootDb' = [bootDb EXCEPT !.pw = "chosen", !.chosen = x]
           \/ \E x : bootDb' = [bootDb EXCEPT !.secret = bootEnv.key, !.edits = x]
           \/ \E x, y, z : bootDb' = [bootDb EXCEPT !.rows = x, !.removed = y, !.edits = z]
    BY <1>10 DEF Edits, Boot!EditDb, Boot!ChangePassword, Boot!SaveSecret, Boot!RemoveDefault
  <2>2. /\ bootDb'.secret \in {bootDb.secret, bootEnv.key} /\ bootDb'.sentinel = bootDb.sentinel
        /\ bootDb'.seeded = bootDb.seeded
    BY <1>1, <2>1 DEF Boot!Database
  <2>3. bootPc \in Opened
    BY <2>1 DEF Opened
  <2> QED
    BY <1>1, <2>1, <2>2, <2>3 DEF Seeding
<1>11. CASE UNCHANGED <<bootDb, bootEnv, bootPc>>
  BY <1>11 DEF Seeding
<1>12. \/ bootPc' \notin Opened
       \/ UNCHANGED <<bootDb, bootEnv, bootPc>>
       \/ Boot!InitKeystore \/ Boot!MigrateSecrets \/ Boot!MoveRules \/ Boot!ClearRules \/ Boot!RulesFail
       \/ Writes2 \/ Edits
  BY DEF Writes2, Edits, Opened, Boot!Next, Boot!Startup, Boot!Boot, Boot!LoadConfig,
     Boot!MigrateConfig,
     Boot!Gate, Boot!NoRestore, Boot!Snapshot, Boot!Stage, Boot!SwapDb, Boot!SwapConfig,
     Boot!Unmark,
     Boot!Prepare, Boot!Migrate, Boot!RestoreFails, Boot!SnapshotFails, Boot!MigrationFails,
     Boot!EditConfig, Boot!BackupStart, Boot!BackupPublish, Boot!AskRestore, Boot!ChangeEnv,
     Boot!Crash
<1> QED
  BY <1>3, <1>4, <1>5, <1>6, <1>7, <1>8, <1>9, <1>10, <1>11, <1>12 DEF Writes2

LEMMA ReplacingStep == ASSUME BootTypes, Replacing, Boot!Next PROVE Replacing'
<1> DEFINE Midway == {"stage", "swap-db", "swap-config", "unmark"}
<1>1. CASE bootPc' \notin Midway
  BY <1>1 DEF Replacing
<1>2. CASE Boot!Snapshot
  <2>1. bootPc' = "stage" /\ bootBackups \subseteq bootBackups' /\ bootMarker' = bootMarker
        /\ \E b \in bootBackups : b.made = bootMarker
    BY <1>2 DEF Boot!Snapshot, Boot!Restorable
  <2> QED
    BY <2>1 DEF Replacing
<1>3. CASE Boot!Stage
  <2>1. bootPc = "stage" /\ bootPc' = "swap-db" /\ bootBackups' = bootBackups /\ bootMarker' = bootMarker
    BY <1>3 DEF Boot!Stage
  <2> QED
    BY <2>1 DEF Replacing
<1>4. CASE Boot!SwapDb \/ Boot!SwapConfig
  <2>1. /\ bootPc \in {"swap-db", "swap-config"} /\ bootBackups' = bootBackups /\ bootMarker' = bootMarker
    BY <1>4 DEF Boot!SwapDb, Boot!SwapConfig
  <2>2. Boot!Target' = Boot!Target /\ \E b \in bootBackups' : b.made = bootMarker'
    BY <2>1 DEF Boot!Target, Replacing
  <2>3. bootDb' = Boot!Target.db
    BY <1>4 DEF Boot!SwapDb, Boot!SwapConfig, Replacing
  <2>4. /\ bootPc' \in {"swap-config", "unmark"}
        /\ bootPc' = "swap-config" => Boot!Target.config.ver # -1
        /\ bootPc' = "unmark" => Boot!Target.config.ver = -1 \/ bootConfig' = Boot!Target.config
    BY <1>4 DEF Boot!SwapDb, Boot!SwapConfig
  <2> QED
    BY <2>2, <2>3, <2>4 DEF Replacing
<1>5. bootPc' \notin Midway \/ Boot!Snapshot \/ Boot!Stage \/ Boot!SwapDb \/ Boot!SwapConfig
  BY DEF Boot!Next, Boot!Startup, Boot!Boot, Boot!LoadConfig, Boot!MigrateConfig,
     Boot!Gate, Boot!NoRestore, Boot!Unmark,
     Boot!Prepare, Boot!Migrate, Boot!InitKeystore, Boot!MigrateSecrets, Boot!MoveRules,
     Boot!ClearRules, Boot!SeedPrincipal, Boot!SeedIndexer, Boot!SeedClient, Boot!SeedRow,
     Boot!SeedMark, Boot!RestoreFails, Boot!SnapshotFails, Boot!MigrationFails, Boot!RulesFail,
     Boot!EditDb, Boot!EditConfig, Boot!ChangePassword, Boot!SaveSecret, Boot!RemoveDefault,
     Boot!BackupStart, Boot!BackupPublish, Boot!AskRestore, Boot!ChangeEnv, Boot!Crash
<1> QED
  BY <1>1, <1>2, <1>3, <1>4, <1>5

\* What a restore put aside stays.
LEMMA AsideKept == ASSUME BootTypes, Boot!Next PROVE Aside \subseteq Aside'
<1>1. CASE UNCHANGED bootBackups
  BY <1>1 DEF Aside
<1>2. ASSUME NEW pool \in Boot!Pools, NEW d \in Boot!Database, NEW c \in Boot!Configuration,
             LET n == Boot!Backup(pool, d, c) IN
             \/ bootBackups' = bootBackups \cup {n}
             \/ pool # "pre-restore" /\ bootBackups' = Joined(pool, n)
      PROVE  Aside \subseteq Aside'
  <2> DEFINE n == Boot!Backup(pool, d, c)
  <2>1. \/ bootBackups' = bootBackups \cup {n}
        \/ pool # "pre-restore" /\ bootBackups' = Joined(pool, n)
    BY <1>2
  <2> HIDE DEF n
  <2>2. \A b \in bootBackups : b.pool # pool => b \in Joined(pool, n)
    BY BackupsGrow DEF n
  <2> QED
    BY <2>1, <2>2 DEF Aside
<1> QED
  BY <1>1, <1>2, BackupsKept

\* A saved edit is in the live files.
LEMMA EditLands ==
  ASSUME BootTypes, Boot!Next, bootSpent'.edits # bootSpent.edits
  PROVE  bootSpent.edits \in bootDb'.edits \cup bootConfig'.edits
<1>1. Boot!EditDb \/ Boot!SaveSecret \/ Boot!RemoveDefault \/ Boot!EditConfig
  <2>1. UNCHANGED bootSpent \/ Edits \/ Boot!EditConfig \/ Fails \/ Boot!BackupStart
        \/ Boot!AskRestore \/ Boot!ChangeEnv \/ Boot!Crash
    BY DEF Edits, Fails, Boot!Next, Boot!Startup, Boot!Boot, Boot!LoadConfig, Boot!MigrateConfig,
       Boot!Gate, Boot!NoRestore, Boot!Snapshot, Boot!Stage, Boot!SwapDb, Boot!SwapConfig,
       Boot!Unmark,
       Boot!Prepare, Boot!Migrate, Boot!InitKeystore, Boot!MigrateSecrets, Boot!MoveRules,
       Boot!ClearRules, Boot!SeedPrincipal, Boot!SeedIndexer, Boot!SeedClient, Boot!SeedRow,
       Boot!SeedMark, Boot!BackupPublish
  <2>2. CASE Fails
    <3>1. Boot!Spend("faults")
      BY <2>2 DEF Fails, Boot!RestoreFails, Boot!SnapshotFails, Boot!MigrationFails, Boot!RulesFail
    <3> QED
      BY <3>1, SpendsOne
  <2>3. CASE Boot!ChangePassword \/ Boot!BackupStart \/ Boot!AskRestore \/ Boot!ChangeEnv \/ Boot!Crash
    <3>1. \E what \in {"logins", "backups", "restores", "envs", "crashes"} : Boot!Spend(what)
      BY <2>3 DEF Boot!ChangePassword, Boot!BackupStart, Boot!AskRestore, Boot!ChangeEnv, Boot!Crash
    <3> QED
      BY <3>1, SpendsOne
  <2> QED
    BY <2>1, <2>2, <2>3 DEF Edits
<1>2. CASE Boot!EditDb \/ Boot!SaveSecret \/ Boot!RemoveDefault
  <2>1. \/ bootDb' = [bootDb EXCEPT !.edits = bootDb.edits \cup {bootSpent.edits}]
        \/ bootDb' = [bootDb EXCEPT !.secret = bootEnv.key, !.edits = bootDb.edits \cup {bootSpent.edits}]
        \/ \E x, y : bootDb' = [bootDb EXCEPT !.rows = x, !.removed = y,
                                              !.edits = bootDb.edits \cup {bootSpent.edits}]
    BY <1>2 DEF Boot!EditDb, Boot!SaveSecret, Boot!RemoveDefault
  <2>2. bootDb \in Boot!Database
    BY DEF BootTypes
  <2> DEFINE e == bootDb.edits \cup {bootSpent.edits}
  <2>3. [bootDb EXCEPT !.edits = e].edits = e
    BY <2>2 DEF Boot!Database
  <2>4. [bootDb EXCEPT !.secret = bootEnv.key, !.edits = e].edits = e
    BY <2>2 DEF Boot!Database
  <2>5. \A x, y : [bootDb EXCEPT !.rows = x, !.removed = y, !.edits = e].edits = e
    BY <2>2 DEF Boot!Database
  <2>6. bootDb'.edits = e
    <3>1. CASE bootDb' = [bootDb EXCEPT !.edits = e]
      BY <2>3, <3>1
    <3>2. CASE bootDb' = [bootDb EXCEPT !.secret = bootEnv.key, !.edits = e]
      BY <2>4, <3>2
    <3>3. ASSUME NEW x, NEW y, bootDb' = [bootDb EXCEPT !.rows = x, !.removed = y, !.edits = e]
          PROVE  bootDb'.edits = e
      BY <2>5, <3>3
    <3> QED
      BY <2>1, <3>1, <3>2, <3>3
  <2> QED
    BY <2>6 DEF e
<1>3. CASE Boot!EditConfig
  <2> DEFINE v == Boot!Max({bootConfig.ver, Boot!ConfigVersion})
             r == [bootConfig EXCEPT !.ver = v]
  <2>1. bootConfig' = [r EXCEPT !.edits = r.edits \cup {bootSpent.edits}]
    BY <1>3 DEF Boot!EditConfig, Boot!Rewritten
  <2>2. bootConfig \in Boot!Configuration
    BY DEF BootTypes
  <2> HIDE DEF v
  <2>3. "edits" \in DOMAIN r
    BY <2>2 DEF Boot!Configuration
  <2> HIDE DEF r
  <2> QED
    BY <2>1, <2>3
<1> QED
  BY <1>1, <1>2, <1>3

LEMMA SavedStep ==
  ASSUME BootTypes, AllTold, Seeding, Replacing, Saved, Boot!Next
  PROVE  Saved'
<1>1. Aside \subseteq Aside'
  BY AsideKept
<1>2. \/ bootDb.edits \subseteq bootDb'.edits
      \/ /\ Boot!SwapDb /\ \E b \in Aside : b.db = bootDb
  <2>1. CASE Writes1 \/ Writes2 \/ Edits
    BY <2>1, DatabaseWritten
  <2>2. CASE ~(Writes1 \/ Writes2 \/ Edits)
    <3>1. CASE Boot!SwapDb
      BY <3>1 DEF Boot!SwapDb, Saved
    <3>2. CASE bootDb' = [bootDb EXCEPT !.origin = IF bootDb.origin = 0 THEN bootDb.rev ELSE bootDb.origin]
      <4>1. bootDb \in Boot!Database
        BY DEF BootTypes
      <4> QED
        BY <3>2, <4>1 DEF Boot!Database
    <3> QED
      BY <2>2, <3>1, <3>2, OthersMove
  <2> QED
    BY <2>1, <2>2
<1>3. \/ bootConfig.edits \subseteq bootConfig'.edits
      \/ \E b \in Aside : b.config = bootConfig
  BY ConfigurationKept DEF Saved
<1>4. ASSUME NEW e \in Nat, e < bootSpent'.edits
      PROVE  \/ e \in bootDb'.edits \cup bootConfig'.edits
             \/ \E b \in Aside' : e \in b.db.edits \cup b.config.edits
  <2>1. bootSpent.edits \in Nat
    BY DEF BootTypes, Boot!Bounds
  <2>2. CASE e < bootSpent.edits
    <3>1. \/ e \in bootDb.edits \cup bootConfig.edits
          \/ \E b \in Aside : e \in b.db.edits \cup b.config.edits
      BY <2>2 DEF Saved
    <3> QED
      BY <1>1, <1>2, <1>3, <3>1
  <2>3. CASE ~(e < bootSpent.edits)
    <3>1. /\ bootSpent'.edits \in {bootSpent.edits, bootSpent.edits + 1}
      BY SpentKept
    <3>2. e = bootSpent.edits /\ bootSpent'.edits # bootSpent.edits
      BY <1>4, <2>1, <2>3, <3>1
    <3> QED
      BY <3>2, EditLands
  <2> QED
    BY <2>2, <2>3
<1>5. bootPc' \in {"stage", "swap-db"} => \E b \in Aside' : b.db = bootDb' /\ b.config = bootConfig'
  <2>1. bootPc' \notin {"stage", "swap-db"} \/ Boot!Snapshot \/ Boot!Stage
    BY DEF Boot!Next, Boot!Startup, Boot!Boot, Boot!LoadConfig, Boot!MigrateConfig,
     Boot!Gate, Boot!NoRestore, Boot!Unmark, Boot!SwapDb, Boot!SwapConfig,
     Boot!Prepare, Boot!Migrate, Boot!InitKeystore, Boot!MigrateSecrets, Boot!MoveRules,
     Boot!ClearRules, Boot!SeedPrincipal, Boot!SeedIndexer, Boot!SeedClient, Boot!SeedRow,
     Boot!SeedMark, Boot!RestoreFails, Boot!SnapshotFails, Boot!MigrationFails, Boot!RulesFail,
     Boot!EditDb, Boot!EditConfig, Boot!ChangePassword, Boot!SaveSecret, Boot!RemoveDefault,
     Boot!BackupStart, Boot!BackupPublish, Boot!AskRestore, Boot!ChangeEnv, Boot!Crash
  <2>2. CASE Boot!Snapshot
    <3> DEFINE n == Boot!Backup("pre-restore", bootDb, bootConfig)
    <3>1. bootBackups' = bootBackups \cup {n} /\ bootDb' = bootDb /\ bootConfig' = bootConfig
      BY <2>2 DEF Boot!Snapshot
    <3>2. n.pool = "pre-restore" /\ n.db = bootDb /\ n.config = bootConfig
      BY DEF Boot!Backup
    <3> HIDE DEF n
    <3> QED
      BY <3>1, <3>2 DEF Aside
  <2>3. CASE Boot!Stage
    BY <1>1, <2>3 DEF Boot!Stage, Saved
  <2> QED
    BY <2>1, <2>2, <2>3
<1>6. bootPc' = "swap-config" => \E b \in Aside' : b.config = bootConfig'
  <2>1. bootPc' # "swap-config" \/ Boot!SwapDb
    BY DEF Boot!Next, Boot!Startup, Boot!Boot, Boot!LoadConfig, Boot!MigrateConfig,
     Boot!Gate, Boot!NoRestore, Boot!Snapshot, Boot!Stage, Boot!Unmark, Boot!SwapConfig,
     Boot!Prepare, Boot!Migrate, Boot!InitKeystore, Boot!MigrateSecrets, Boot!MoveRules,
     Boot!ClearRules, Boot!SeedPrincipal, Boot!SeedIndexer, Boot!SeedClient, Boot!SeedRow,
     Boot!SeedMark, Boot!RestoreFails, Boot!SnapshotFails, Boot!MigrationFails, Boot!RulesFail,
     Boot!EditDb, Boot!EditConfig, Boot!ChangePassword, Boot!SaveSecret, Boot!RemoveDefault,
     Boot!BackupStart, Boot!BackupPublish, Boot!AskRestore, Boot!ChangeEnv, Boot!Crash
  <2> QED
    BY <1>1, <2>1 DEF Boot!SwapDb, Saved
<1> QED
  BY <1>4, <1>5, <1>6 DEF Saved

\* No start leaves the count of starts behind it.
LEMMA StartsGrow ==
  ASSUME BootTypes, Boot!Next
  PROVE  /\ Starts \in Nat /\ Starts' \in Nat /\ Starts <= Starts'
         /\ Boot!Prepare /\ bootDb.rev < Revisions =>
              /\ Starts' = Starts + 1 /\ Starts <= bootLimit.faults + bootLimit.crashes
              /\ {bootLimit.faults, bootLimit.crashes} \subseteq Nat
<1>1. /\ {bootSpent.faults, bootSpent.crashes, bootSpent'.faults, bootSpent'.crashes} \subseteq Nat
      /\ bootSpent.faults + bootSpent.crashes <= bootSpent'.faults + bootSpent'.crashes
  BY SpentKept
<1>2. bootPc \in Prepared /\ bootPc' \notin Prepared => Boot!MigrationFails \/ Boot!Crash
  BY DEF Prepared, Boot!Next, Boot!Startup, Boot!Boot, Boot!LoadConfig, Boot!MigrateConfig,
     Boot!Gate, Boot!NoRestore, Boot!Snapshot, Boot!Stage, Boot!SwapDb, Boot!SwapConfig,
     Boot!Unmark,
     Boot!Prepare, Boot!Migrate, Boot!InitKeystore, Boot!MigrateSecrets, Boot!MoveRules,
     Boot!ClearRules, Boot!SeedPrincipal, Boot!SeedIndexer, Boot!SeedClient, Boot!SeedRow,
     Boot!SeedMark, Boot!RestoreFails, Boot!SnapshotFails, Boot!RulesFail,
     Boot!EditDb, Boot!EditConfig, Boot!ChangePassword, Boot!SaveSecret, Boot!RemoveDefault,
     Boot!BackupStart, Boot!BackupPublish, Boot!AskRestore, Boot!ChangeEnv
<1>3. Boot!MigrationFails \/ Boot!Crash =>
        bootSpent'.faults + bootSpent'.crashes = bootSpent.faults + bootSpent.crashes + 1
  <2>1. Boot!MigrationFails => Boot!Spend("faults")
    BY DEF Boot!MigrationFails
  <2>2. Boot!Crash => Boot!Spend("crashes")
    BY DEF Boot!Crash
  <2> QED
    BY <1>1, <2>1, <2>2, SpendsOne
<1>4. Starts \in Nat /\ Starts' \in Nat /\ Starts <= Starts'
  BY <1>1, <1>2, <1>3 DEF Starts
<1>5. ASSUME Boot!Prepare, bootDb.rev < Revisions
      PROVE  /\ Starts' = Starts + 1 /\ Starts <= bootLimit.faults + bootLimit.crashes
             /\ {bootLimit.faults, bootLimit.crashes} \subseteq Nat
  <2>1. bootPc = "prepare" /\ bootPc' = "migrate" /\ bootSpent' = bootSpent
    <3>1. Revisions \in Nat /\ bootDb.rev \in Nat
      BY BootNumbers DEF BootTypes, Boot!Database
    <3> QED
      BY <1>5, <3>1 DEF Boot!Prepare
  <2>2. bootPc \notin Prepared /\ bootPc' \in Prepared
    BY <2>1 DEF Prepared
  <2>3. /\ bootSpent.faults <= bootLimit.faults /\ bootSpent.crashes <= bootLimit.crashes
        /\ {bootLimit.faults, bootLimit.crashes} \subseteq Nat
    BY DEF BootTypes, Boot!Bounds
  <2> QED
    BY <1>1, <2>1, <2>2, <2>3 DEF Starts
<1> QED
  BY <1>4, <1>5

\* A copy with room behind it outlives the pruning.
LEMMA BackupRoom ==
  ASSUME BootTypes, NEW pool \in Boot!Pools, NEW d \in Boot!Database, NEW c \in Boot!Configuration,
         NEW n, n = Boot!Backup(pool, d, c)
  PROVE  \A y \in bootBackups :
           Cardinality({x \in bootBackups : x.pool = pool /\ x.made > y.made}) + 1 < Keep
             => y \in Joined(pool, n)
BY BackupsGrow

\* A backup made before a migration stays while few are younger.
LEMMA UndoStays ==
  ASSUME BootTypes, Boot!Next, bootLimit.faults + bootLimit.crashes < Keep,
         NEW b \in bootBackups, b.pool = "pre-migration",
         Cardinality(Younger(b, bootBackups)) < Starts
  PROVE  b \in bootBackups' /\ Cardinality(Younger(b, bootBackups')) < Starts'
<1> DEFINE old == Younger(b, bootBackups)
           new == Younger(b, bootBackups')
<1>1. IsFiniteSet(old) /\ Cardinality(old) \in Nat
  <2>1. IsFiniteSet(old)
    BY FS_Subset DEF BootTypes, Younger
  <2> QED
    BY <2>1, FS_CardinalityType
<1>2. Starts \in Nat /\ Starts' \in Nat /\ Starts <= Starts'
  BY StartsGrow
<1>3. CASE UNCHANGED bootBackups
  BY <1>1, <1>2, <1>3
<1>4. ASSUME NEW pool \in Boot!Pools, NEW d \in Boot!Database, NEW c \in Boot!Configuration,
             NEW n, n = Boot!Backup(pool, d, c),
             bootBackups' = bootBackups \cup {n} \/ bootBackups' = Joined(pool, n),
             pool = "pre-migration" => Boot!Prepare /\ bootDb.rev < Revisions
      PROVE  b \in bootBackups' /\ Cardinality(new) < Starts'
  <2>1. /\ n.pool = pool /\ bootBackups' \subseteq bootBackups \cup {n}
        /\ pool # "pre-migration" => b \in bootBackups'
        /\ Cardinality({x \in bootBackups : x.pool = pool /\ x.made > b.made}) + 1 < Keep
             => b \in bootBackups'
    <3>0. n.pool = pool
      BY <1>4 DEF Boot!Backup
    <3>1. /\ Joined(pool, n) \subseteq bootBackups \cup {n}
          /\ \A x \in bootBackups : x.pool # pool => x \in Joined(pool, n)
      <4>1. n = Boot!Backup(pool, d, c)
        BY <1>4
      <4> QED
        BY <4>1, BackupsGrow
    <3>2. \A y \in bootBackups :
            Cardinality({x \in bootBackups : x.pool = pool /\ x.made > y.made}) + 1 < Keep
              => y \in Joined(pool, n)
      <4> HIDE DEF new, old
      <4> QED
        BY <1>4, BackupRoom
    <3> QED
      BY <1>4, <3>0, <3>1, <3>2
  <2>2. CASE pool # "pre-migration"
    <3>1. new \subseteq old
      BY <2>1, <2>2 DEF Younger
    <3>2. Cardinality(new) <= Cardinality(old) /\ Cardinality(new) \in Nat
      BY <1>1, <3>1, FS_Subset, FS_CardinalityType
    <3> HIDE DEF new, old
    <3> QED
      BY <1>1, <1>2, <2>1, <2>2, <3>2 DEF old
  <2>3. CASE pool = "pre-migration"
    <3>1. /\ Starts' = Starts + 1 /\ Starts <= bootLimit.faults + bootLimit.crashes
          /\ {bootLimit.faults, bootLimit.crashes} \subseteq Nat
      BY <1>4, <2>3, StartsGrow
    <3>2. new \subseteq old \cup {n}
      BY <2>1 DEF Younger
    <3>3. /\ IsFiniteSet(old \cup {n})
          /\ Cardinality(old \cup {n}) = IF n \in old THEN Cardinality(old) ELSE Cardinality(old) + 1
      BY <1>1, FS_AddElement
    <3>4. Cardinality(new) <= Cardinality(old \cup {n}) /\ Cardinality(new) \in Nat
      BY <3>2, <3>3, FS_Subset, FS_CardinalityType
    <3>5. {x \in bootBackups : x.pool = pool /\ x.made > b.made} = old
      BY <2>3 DEF Younger
    <3> HIDE DEF new, old
    <3>6. Cardinality(old) + 1 < Keep
      BY <1>1, <1>2, <3>1, BootNumbers DEF old
    <3>7. b \in bootBackups'
      BY <2>1, <3>5, <3>6
    <3>8. Cardinality(old) < Starts
      BY DEF old
    <3>9. Cardinality(new) < Starts'
      BY <1>1, <1>2, <3>1, <3>3, <3>4, <3>8
    <3> QED
      BY <3>7, <3>9
  <2> QED
    BY <2>2, <2>3
<1> QED
  BY <1>3, <1>4, BackupsKept DEF Younger

\* So an upgrade that could be undone still can.
LEMMA StaysUndoable ==
  ASSUME BootTypes, Boot!Next, bootLimit.faults + bootLimit.crashes < Keep,
         NEW d, Undoable(d, bootBackups, Starts)
  PROVE  Undoable(d, bootBackups', Starts')
<1> SUFFICES ASSUME d.origin # 0
             PROVE  \E b \in bootBackups' : /\ b.pool = "pre-migration" /\ b.db.rev = d.origin
                                            /\ Cardinality(Younger(b, bootBackups')) < Starts'
  BY DEF Undoable
<1>1. PICK b \in bootBackups : /\ b.pool = "pre-migration" /\ b.db.rev = d.origin
                               /\ Cardinality(Younger(b, bootBackups)) < Starts
  BY DEF Undoable
<1> QED
  BY <1>1, UndoStays

\* The upgrade that begins has its backup.
LEMMA UpgradeBegins ==
  ASSUME BootTypes, Boot!Next, Boot!Prepare, bootDb.rev < Revisions, bootDb.origin = 0,
         bootDb' = [bootDb EXCEPT !.origin = IF bootDb.origin = 0 THEN bootDb.rev ELSE bootDb.origin]
  PROVE  Undoable(bootDb', bootBackups', Starts')
<1> DEFINE n == Boot!Backup("pre-migration", bootDb, Boot!NoConfig)
<1>1. bootDb \in Boot!Database /\ Boot!NoConfig \in Boot!Configuration
  BY DEF BootTypes, Boot!NoConfig, Boot!Configuration, Boot!ConfigVersion
<1>2. bootDb'.origin = bootDb.rev /\ bootDb.rev \in Nat /\ Revisions \in Nat
  BY <1>1, BootNumbers DEF Boot!Database
<1>3. CASE bootDb.rev = 0
  BY <1>2, <1>3 DEF Undoable
<1>4. CASE bootDb.rev # 0
  <2>1. bootBackups' = Joined("pre-migration", n)
    BY <1>2, <1>4 DEF Boot!Prepare, Boot!PreparedBackups, Joined
  <2>2. n = Boot!Backup("pre-migration", bootDb, Boot!NoConfig) /\ "pre-migration" \in Boot!Pools
    BY DEF Boot!Pools
  <2> HIDE DEF n
  <2>3. /\ n.pool = "pre-migration" /\ n.db = bootDb /\ n \in Boot!Copies
        /\ bootBackups' \subseteq bootBackups \cup {n} /\ n \in bootBackups'
        /\ \A b \in bootBackups : b.made < n.made
    <3>0. n.pool = "pre-migration" /\ n.db = bootDb
      BY <2>2 DEF Boot!Backup
    <3>1. n \in Boot!Copies
      <4>1. bootDb \in Boot!Database /\ Boot!NextId \in Nat \ {0}
        BY <1>1, NextIsYoungest
      <4> QED
        BY <1>1, <2>2, <4>1 DEF Boot!Backup, Boot!Copies
    <3>3. Joined("pre-migration", n) \subseteq bootBackups \cup {n}
      BY <1>1, <2>2, BackupsGrow
    <3>4. n \in Joined("pre-migration", n)
      BY <1>1, <2>2, BackupsGrow
    <3>2. \A b \in bootBackups : b.made < n.made
      BY <2>2, NextIsYoungest DEF Boot!Backup
    <3> QED
      BY <2>1, <3>0, <3>1, <3>2, <3>3, <3>4
  <2>4. \A c \in bootBackups' : ~(c.made > n.made)
    <3>1. \A b \in bootBackups \cup {n} : b.made \in Nat
      BY <2>3 DEF BootTypes, Boot!Copies
    <3> QED
      BY <2>3, <3>1
  <2>5. Younger(n, bootBackups') = {}
    BY <2>4 DEF Younger
  <2>6. Cardinality(Younger(n, bootBackups')) = 0
    BY <2>5, FS_EmptySet
  <2>7. 0 < Starts'
    BY StartsGrow
  <2> QED
    BY <1>2, <2>3, <2>6, <2>7 DEF Undoable
<1> QED
  BY <1>3, <1>4

LEMMA UndoableStep ==
  ASSUME BootTypes, AllTold, Seeding, Replacing, AllUndoable, Boot!Next,
         bootLimit.faults + bootLimit.crashes < Keep
  PROVE  AllUndoable'
<1>1. \A d : Undoable(d, bootBackups, Starts) => Undoable(d, bootBackups', Starts')
  BY StaysUndoable
<1>2. Undoable(Boot!NoDb, bootBackups', Starts')
  BY DEF Undoable, Boot!NoDb
<1>3. Undoable(bootDb, bootBackups', Starts') /\ Undoable(bootJob.db, bootBackups', Starts')
  BY <1>1 DEF AllUndoable
<1>4. Undoable(bootDb', bootBackups', Starts')
  <2>1. CASE Writes1 \/ Writes2 \/ Edits
    <3>1. bootDb'.origin \in {0, bootDb.origin}
      BY <2>1, DatabaseWritten
    <3> QED
      BY <1>3, <3>1 DEF Undoable
  <2>2. CASE ~(Writes1 \/ Writes2 \/ Edits)
    <3>1. CASE UNCHANGED bootDb
      BY <1>3, <3>1
    <3>2. CASE Boot!SwapDb
      <4>1. bootDb' = Boot!Target.db /\ bootPc = "swap-db"
        BY <3>2 DEF Boot!SwapDb
      <4>2. Boot!Target \in bootBackups
        BY <4>1, TargetListed
      <4> QED
        BY <1>1, <4>1, <4>2 DEF AllUndoable
    <3>3. ASSUME Boot!Prepare, bootDb.rev < Revisions,
                 bootDb' = [bootDb EXCEPT !.origin = IF bootDb.origin = 0 THEN bootDb.rev
                                                     ELSE bootDb.origin]
          PROVE  Undoable(bootDb', bootBackups', Starts')
      <4>1. CASE bootDb.origin = 0
        BY <3>3, <4>1, UpgradeBegins
      <4>2. CASE bootDb.origin # 0
        <5>1. bootDb'.origin = bootDb.origin
          BY <3>3, <4>2 DEF BootTypes, Boot!Database
        <5> QED
          BY <1>3, <5>1 DEF Undoable
      <4> QED
        BY <4>1, <4>2
    <3> QED
      BY <2>2, <3>1, <3>2, <3>3, OthersMove
  <2> QED
    BY <2>1, <2>2
<1>5. Undoable(bootJob'.db, bootBackups', Starts')
  <2>1. CASE Writes1 \/ Writes2 \/ Edits
    BY <1>3, <2>1, DatabaseWritten
  <2>2. CASE ~(Writes1 \/ Writes2 \/ Edits)
    <3>1. bootJob' = bootJob \/ bootJob'.db = bootDb \/ bootJob'.db = Boot!NoDb
      BY <2>2, OthersMove DEF Boot!Idle
    <3> QED
      BY <1>2, <1>3, <3>1
  <2> QED
    BY <2>1, <2>2
<1>6. ASSUME NEW b \in bootBackups' PROVE Undoable(b.db, bootBackups', Starts')
  <2>1. CASE b \in bootBackups
    BY <1>1, <2>1 DEF AllUndoable
  <2>2. ASSUME NEW pool \in Boot!Pools, NEW d \in Boot!Database, NEW c \in Boot!Configuration,
               NEW n, n = Boot!Backup(pool, d, c), d \in {bootDb, bootJob.db, Boot!NoDb},
               bootBackups' = bootBackups \cup {n} \/ bootBackups' = Joined(pool, n)
        PROVE  Undoable(b.db, bootBackups', Starts')
    <3>0. n.db = d
      BY <2>2 DEF Boot!Backup
    <3>1. Joined(pool, n) \subseteq bootBackups \cup {n}
      <4>1. n = Boot!Backup(pool, d, c)
        BY <2>2
      <4> QED
        BY <4>1, BackupsGrow
    <3>2. b \in bootBackups \cup {n}
      BY <2>2, <3>1
    <3> QED
      BY <1>2, <1>3, <2>1, <2>2, <3>0, <3>1, <3>2
  <2> QED
    BY <2>1, <2>2, BackupsKept
<1> QED
  BY <1>4, <1>5, <1>6 DEF AllUndoable

Booted == BootTypes /\ AllTold /\ Seeding /\ Replacing /\ Saved

LEMMA BootedStep == ASSUME Booted, [Boot!Next]_bootVars PROVE Booted'
<1>1. CASE Boot!Next
  BY <1>1, BootTypesStep, DatabasesKept, SeedingStep, ReplacingStep, SavedStep DEF Booted, AllTold
<1>2. CASE UNCHANGED bootVars
  <2>1. BootTypes' /\ AllTold'
    BY <1>2 DEF bootVars, Booted, BootTypes, AllTold
  <2>2. Seeding' /\ Replacing'
    BY <1>2 DEF bootVars, Booted, Seeding, Replacing, Boot!Target
  <2>3. Saved'
    BY <1>2 DEF bootVars, Booted, Saved, Aside
  <2> QED
    BY <2>1, <2>2, <2>3 DEF Booted
<1> QED
  BY <1>1, <1>2

LEMMA StationsNamed == Boot!Range(Boot!Steps) \cup {"down", "serving"} = Stations
<1> DEFINE s == Boot!Steps
<1>1. /\ DOMAIN s = 1..18
      /\ s[1] = "load" /\ s[2] = "migrate-config" /\ s[3] = "gate" /\ s[4] = "restore"
      /\ s[5] = "stage" /\ s[6] = "swap-db" /\ s[7] = "swap-config" /\ s[8] = "unmark"
      /\ s[9] = "prepare" /\ s[10] = "migrate" /\ s[11] = "keystore" /\ s[12] = "secrets"
      /\ s[13] = "rules" /\ s[14] = "clear" /\ s[15] = "principal" /\ s[16] = "seed-indexer"
      /\ s[17] = "seed-client" /\ s[18] = "seed-mark"
  BY DEF Boot!Steps
<1>2. Boot!Range(s) = {s[i] : i \in DOMAIN s}
  BY DEF Boot!Range
<1>3. \A i \in 1..18 : i \in {1, 2, 3, 4, 5, 6, 7, 8, 9, 10, 11, 12, 13, 14, 15, 16, 17, 18}
  OBVIOUS
<1> HIDE DEF s
<1>4. Boot!Range(s) = {s[1], s[2], s[3], s[4], s[5], s[6], s[7], s[8], s[9], s[10], s[11], s[12],
                       s[13], s[14], s[15], s[16], s[17], s[18]}
  BY <1>1, <1>2, <1>3
<1> QED
  BY <1>1, <1>4 DEF s, Stations

(* There is a copy of each saved edit, and of the revision an unfinished    *)
(* upgrade began at, when fewer starts end early than backups are kept: a   *)
(* start that ends early leaves at most one backup, and the pruning that    *)
(* would take the one needed leaves Keep younger ones.                      *)
THEOREM NothingIsLost ==
  ASSUME \A r \in Deployments : r.limit.faults + r.limit.crashes < Keep
  PROVE  Spec => []NothingLost
<1> DEFINE Inv == Booted /\ AllUndoable /\ bootLimit.faults + bootLimit.crashes < Keep
<1>1. Init => Inv
  <2> SUFFICES ASSUME Init PROVE Inv
    OBVIOUS
  <2>1. Boot!Init
    BY DEF Init
  <2>2. bootLimit.faults + bootLimit.crashes < Keep
    BY <2>1 DEF Boot!Init
  <2> QED
    BY <2>1, <2>2, BootInit DEF Booted
<1>2. Inv /\ [Next]_vars => Inv'
  <2> SUFFICES ASSUME Inv, [Next]_vars PROVE Inv'
    OBVIOUS
  <2>1. [Boot!Next]_bootVars
    BY OneActs
  <2>2. Booted'
    BY <2>1, BootedStep
  <2>3. UNCHANGED bootLimit
    BY <2>1, Spending DEF bootVars, Booted
  <2>4. AllUndoable'
    <3>1. CASE Boot!Next
      BY <3>1, UndoableStep DEF Booted
    <3>2. CASE UNCHANGED bootVars
      BY <3>2 DEF bootVars, AllUndoable, Undoable, Younger, Starts
    <3> QED
      BY <2>1, <3>1, <3>2
  <2> QED
    BY <2>2, <2>3, <2>4
<1>3. Inv => NothingLost
  <2> SUFFICES ASSUME Inv PROVE Boot!TypeOK /\ Boot!EditsKept /\ Boot!UpgradeUndoable
    BY DEF NothingLost
  <2>1. Boot!TypeOK
    BY StationsNamed DEF Booted, BootTypes, Boot!TypeOK, Boot!Database, Boot!Configuration,
       Boot!Secrets
  <2>2. Boot!EditsKept
    <3>1. bootSpent.edits \in Nat
      BY DEF Booted, BootTypes, Boot!Bounds
    <3>2. \A e \in 0..(bootSpent.edits - 1) : e \in Nat /\ e < bootSpent.edits
      BY <3>1
    <3> QED
      BY <3>2 DEF Boot!EditsKept, Booted, Saved, Aside
  <2>3. Boot!UpgradeUndoable
    BY DEF Boot!UpgradeUndoable, AllUndoable, Undoable
  <2> QED
    BY <2>1, <2>2, <2>3
<1> QED
  BY <1>1, <1>2, <1>3, PTL DEF Spec

(* An application that serves has sealed its secrets and has each default   *)
(* row that was not removed.                                                *)
THEOREM StartsServeSound == Spec => []ServedSound
<1>1. Init => Booted
  BY BootInit DEF Init, Booted
<1>2. Booted /\ [Next]_vars => Booted'
  BY OneActs, BootedStep
<1>3. Booted => ServedSound
  BY DEF Booted, AllTold, Told, Seeding, Opened, ServedSound, Boot!NoPlainSecret, Boot!SeededOnce
<1> QED
  BY <1>1, <1>2, <1>3, PTL DEF Spec

(* The marker goes when both files are in place, and a boot whose           *)
(* environment says what it said keeps the login set in Settings.           *)
THEOREM StartsUndoNothing == Spec => BootUndoesNothing
<1>1. Init => Booted
  BY BootInit DEF Init, Booted
<1>2. Booted /\ [Next]_vars => Booted'
  BY OneActs, BootedStep
<1>3. Booted /\ [Next]_vars
      => [bootMarker # 0 /\ bootMarker' = 0 =>
            /\ bootDb.edits = Boot!Target.db.edits
            /\ Boot!Target.config.ver # -1 => bootConfig.edits = Boot!Target.config.edits]_(Boot!vars)
  <2> SUFFICES ASSUME Booted, Boot!Next, bootMarker # 0, bootMarker' = 0
               PROVE  /\ bootDb.edits = Boot!Target.db.edits
                      /\ Boot!Target.config.ver # -1 => bootConfig.edits = Boot!Target.config.edits
    BY OneActs DEF bootVars, Boot!vars
  <2>1. Boot!Unmark \/ Boot!AskRestore
    BY DEF Boot!Next, Boot!Startup, Boot!Boot, Boot!LoadConfig, Boot!MigrateConfig,
     Boot!Gate, Boot!NoRestore, Boot!Snapshot, Boot!Stage, Boot!SwapDb, Boot!SwapConfig,
     Boot!Prepare, Boot!Migrate, Boot!InitKeystore, Boot!MigrateSecrets, Boot!MoveRules,
     Boot!ClearRules, Boot!SeedPrincipal, Boot!SeedIndexer, Boot!SeedClient, Boot!SeedRow,
     Boot!SeedMark, Boot!RestoreFails, Boot!SnapshotFails, Boot!MigrationFails, Boot!RulesFail,
     Boot!EditDb, Boot!EditConfig, Boot!ChangePassword, Boot!SaveSecret, Boot!RemoveDefault,
     Boot!BackupStart, Boot!BackupPublish, Boot!ChangeEnv, Boot!Crash
  <2>2. ~Boot!AskRestore
    BY DEF Booted, BootTypes, Boot!Copies, Boot!AskRestore
  <2>3. bootPc = "unmark"
    BY <2>1, <2>2 DEF Boot!Unmark
  <2> QED
    BY <2>3 DEF Booted, Replacing
<1>4. Booted /\ [Next]_vars
      => [bootPc = "principal" /\ bootDb.chosen # <<>> /\ bootEnv.pw \in {Unset, bootDb.chosen[1]}
            => bootDb'.pw = bootDb.pw]_(Boot!vars)
  <2> SUFFICES ASSUME Booted, Boot!Next, bootPc = "principal", bootDb.chosen # <<>>,
                      bootEnv.pw \in {Unset, bootDb.chosen[1]}
               PROVE  bootDb'.pw = bootDb.pw
    BY OneActs DEF bootVars, Boot!vars
  <2>1. Boot!SeedPrincipal \/ UNCHANGED bootDb
    BY DEF Boot!Next, Boot!Startup, Boot!Boot, Boot!LoadConfig, Boot!MigrateConfig,
     Boot!Gate, Boot!NoRestore, Boot!Snapshot, Boot!Stage, Boot!SwapDb, Boot!SwapConfig,
     Boot!Unmark,
     Boot!Prepare, Boot!Migrate, Boot!InitKeystore, Boot!MigrateSecrets, Boot!MoveRules,
     Boot!ClearRules, Boot!SeedIndexer, Boot!SeedClient, Boot!SeedRow,
     Boot!SeedMark, Boot!RestoreFails, Boot!SnapshotFails, Boot!MigrationFails, Boot!RulesFail,
     Boot!EditDb, Boot!EditConfig, Boot!ChangePassword, Boot!SaveSecret, Boot!RemoveDefault,
     Boot!BackupStart, Boot!BackupPublish, Boot!AskRestore, Boot!ChangeEnv, Boot!Crash
  <2>2. bootDb.pw # Unset /\ bootDb.chosen[1] \in {Unset, bootDb.fp} /\ bootDb \in Boot!Database
    BY DEF Booted, AllTold, Told, BootTypes
  <2>3. ASSUME Boot!SeedPrincipal PROVE bootDb'.pw = bootDb.pw
    <3>1. bootDb' = Boot!Reseeded
      BY <2>2, <2>3 DEF Boot!SeedPrincipal
    <3>2. bootDb' = bootDb \/ bootDb' = [bootDb EXCEPT !.fp = bootEnv.pw]
      BY <2>2, <3>1 DEF Boot!Reseeded
    <3> QED
      BY <2>2, <3>2 DEF Boot!Database
  <2> QED
    BY <2>1, <2>3
<1> QED
  BY <1>1, <1>2, <1>3, <1>4, PTL
     DEF Spec, BootUndoesNothing, Boot!RestoredWhole, Boot!LoginStands

(***************************************************************************)
(* The import of the library that was there before: a scan keeps what the  *)
(* operator decided, an import files what the operator selected.           *)
(***************************************************************************)
(* A row of the staging table: it holds files of its key, and a confirmed   *)
(* one names a volume.                                                      *)
WellFormed(r) ==
  /\ r \in Staging!Row
  /\ r.state = "confirmed" => r.confirmed # NoVolume
  /\ \A f \in r.files : KeyOf[f] = r.key

Staged == /\ \A i \in DOMAIN stagingRows : WellFormed(stagingRows[i])
          /\ \A i, j \in DOMAIN stagingRows : stagingRows[i].key = stagingRows[j].key => i = j

Same(q, r) == q.key = r.key /\ q.files = r.files

(* A step that is not the replacement writes rows in place.                 *)
Edited == /\ DOMAIN stagingRows' = DOMAIN stagingRows
          /\ \A i \in DOMAIN stagingRows :
               WellFormed(stagingRows'[i]) /\ Same(stagingRows'[i], stagingRows[i])

LEMMA StagingFacts ==
  /\ NoVolume \notin Volume /\ IsFiniteSet(MatchKey)
  /\ KeyOf \in [File -> MatchKey] /\ Rank \in [MatchKey -> Nat]
  /\ \A k, l \in MatchKey : Rank[k] = Rank[l] => k = l
  /\ Best \in [MatchKey -> Volume \cup {NoVolume}]
  /\ Modes \subseteq BOOLEAN
  /\ \A s : Staging!Cardinality(s) = Cardinality(s)
<1>1. \A s : Staging!Cardinality(s) = Cardinality(s)
  BY DEF Cardinality, Staging!Cardinality
<1>2. Staging!IsFiniteSet(MatchKey) = IsFiniteSet(MatchKey)
  BY DEF IsFiniteSet, Staging!IsFiniteSet
<1> QED
  BY <1>1, <1>2, PlatformAssumption DEF Staging!LibraryImportAssumption

LEMMA Relabelled ==
  ASSUME NEW r, WellFormed(r), NEW s \in {"proposed", "no_match", "imported", "skipped"}
  PROVE  /\ WellFormed([r EXCEPT !.state = s])
         /\ Same([r EXCEPT !.state = s], r)
BY DEF WellFormed, Same, Staging!Row

ConfirmedAs(r, v) == [r EXCEPT !.state = "confirmed", !.confirmed = v]

LEMMA Confirming ==
  ASSUME NEW r, WellFormed(r), NEW v \in Volume
  PROVE  WellFormed(ConfirmedAs(r, v)) /\ Same(ConfirmedAs(r, v), r)
BY StagingFacts DEF ConfirmedAs, WellFormed, Same, Staging!Row

LEMMA Proposing ==
  ASSUME NEW r, WellFormed(r), NEW v \in Volume \cup {NoVolume}
  PROVE  WellFormed([r EXCEPT !.proposed = v]) /\ Same([r EXCEPT !.proposed = v], r)
BY DEF WellFormed, Same, Staging!Row

OverriddenAs(r, v) == [r EXCEPT !.state = "confirmed", !.confirmed = v, !.proposed = v]

LEMMA Overriding ==
  ASSUME NEW r, WellFormed(r), NEW v \in Volume
  PROVE  WellFormed(OverriddenAs(r, v)) /\ Same(OverriddenAs(r, v), r)
<1> DEFINE c == ConfirmedAs(r, v)
           q == OverriddenAs(r, v)
<1>1. q = [c EXCEPT !.proposed = v]
  BY DEF ConfirmedAs, OverriddenAs
<1>2. WellFormed(c) /\ Same(c, r)
  BY Confirming
<1> HIDE DEF c
<1>3. WellFormed([c EXCEPT !.proposed = v]) /\ Same([c EXCEPT !.proposed = v], c)
  BY <1>2, Proposing
<1> HIDE DEF q
<1>4. WellFormed(q) /\ Same(q, r)
  BY <1>1, <1>2, <1>3, Zenon DEF Same
<1> QED
  BY <1>4 DEF q

ReviewedAs(r) == [r EXCEPT !.state = "proposed", !.confirmed = NoVolume]

LEMMA Reviewing ==
  ASSUME NEW r, WellFormed(r)
  PROVE  WellFormed(ReviewedAs(r)) /\ Same(ReviewedAs(r), r)
BY DEF ReviewedAs, WellFormed, Same, Staging!Row

LEMMA Responding ==
  ASSUME NEW r, WellFormed(r), NEW s \in {"proposed", "no_match"}, NEW v \in Volume \cup {NoVolume}
  PROVE  LET q == Staging!Answered(r, s, v)
         IN  /\ WellFormed(q) /\ Same(q, r)
             /\ q = r \/ (r.state = "proposed" /\ q.state # "imported")
<1>1. CASE r.state = "proposed" /\ r.confirmed = NoVolume
  <2>1. Staging!Answered(r, s, v) = [r EXCEPT !.state = s, !.proposed = v]
    BY <1>1 DEF Staging!Answered
  <2> QED
    BY <1>1, <2>1 DEF WellFormed, Same, Staging!Row
<1>2. CASE ~(r.state = "proposed" /\ r.confirmed = NoVolume)
  BY <1>2 DEF Staging!Answered, Same
<1> QED
  BY <1>1, <1>2

LEMMA PromotedIsSound ==
  ASSUME NEW r, WellFormed(r)
  PROVE  /\ WellFormed(Staging!Promoted(r)) /\ Same(Staging!Promoted(r), r)
         /\ Staging!Promoted(r).state = "imported" => r.state = "imported"
<1>1. CASE r.state = "proposed" /\ r.proposed # NoVolume
  <2>1. r.proposed \in Volume
    BY <1>1 DEF WellFormed, Staging!Row
  <2>2. Staging!Promoted(r) = ConfirmedAs(r, r.proposed)
    BY <1>1 DEF Staging!Promoted, ConfirmedAs
  <2>3. ConfirmedAs(r, r.proposed).state = "confirmed"
    BY DEF ConfirmedAs, WellFormed, Staging!Row
  <2> QED
    BY <2>1, <2>2, <2>3, Confirming
<1>2. CASE ~(r.state = "proposed" /\ r.proposed # NoVolume)
  BY <1>2 DEF Staging!Promoted, Same
<1> QED
  BY <1>1, <1>2

(* A row keeps what was decided of it.                                      *)
LEMMA CarriedForward ==
  ASSUME NEW k \in MatchKey, NEW files \in SUBSET File, \A f \in files : KeyOf[f] = k,
         NEW priors, \A r \in priors : WellFormed(r)
  PROVE  LET q == Staging!CarryForward(k, files, priors)
         IN  /\ WellFormed(q) /\ q.key = k /\ q.state # "imported"
             /\ \A r : priors = {r} /\ r.state \in {"confirmed", "skipped"} =>
                  /\ q.state = r.state
                  /\ r.state = "confirmed" => q.confirmed = r.confirmed
<1> DEFINE p == CHOOSE r \in priors : TRUE
           fresh == [key |-> k, files |-> files, proposed |-> NoVolume,
                     confirmed |-> NoVolume, state |-> "proposed"]
           q == Staging!CarryForward(k, files, priors)
<1>1. CASE priors = {}
  <2>1. PICK s \in {"no_match", "proposed"} : q = [fresh EXCEPT !.state = s]
    BY <1>1 DEF Staging!CarryForward
  <2> HIDE DEF q
  <2>2. q \in Staging!Row
    BY <2>1 DEF Staging!Row
  <2>3. q.key = k /\ q.files = files /\ q.state = s
    BY <2>1
  <2>4. WellFormed(q) /\ q.state # "imported"
    BY <2>2, <2>3 DEF WellFormed
  <2> QED
    BY <1>1, <2>3, <2>4 DEF q
<1>2. CASE priors # {}
  <2>1. p \in priors /\ WellFormed(p) /\ p \in Staging!Row
    BY <1>2 DEF WellFormed
  <2>2. \A r : priors = {r} => p = r
    OBVIOUS
  <2>3. q = [fresh EXCEPT
               !.proposed = IF p.state = "imported" /\ p.proposed = NoVolume
                            THEN p.confirmed ELSE p.proposed,
               !.confirmed = IF p.state = "confirmed" THEN p.confirmed ELSE NoVolume,
               !.state = IF p.state = "imported" THEN "proposed" ELSE p.state]
    BY <1>2 DEF Staging!CarryForward
  <2> HIDE DEF p, q
  <2>4. /\ q.key = k /\ q.files = files
        /\ q.state = IF p.state = "imported" THEN "proposed" ELSE p.state
        /\ q.confirmed = IF p.state = "confirmed" THEN p.confirmed ELSE NoVolume
    BY <2>3
  <2>5. q \in Staging!Row
    BY <2>1, <2>3 DEF Staging!Row
  <2>6. WellFormed(q)
    BY <2>1, <2>4, <2>5 DEF WellFormed
  <2>7. \A r : priors = {r} /\ r.state \in {"confirmed", "skipped"} =>
          q.state = r.state /\ (r.state = "confirmed" => q.confirmed = r.confirmed)
    BY <2>2, <2>4
  <2>8. q.state # "imported"
    BY <2>4
  <2> QED
    BY <2>4, <2>6, <2>7, <2>8 DEF q
<1> QED
  BY <1>1, <1>2

(* The keys kept by a scan have rows of their own.                          *)
LEMMA PlacesDiffer ==
  ASSUME NEW k \in Staging!Kept, NEW l \in Staging!Kept, Staging!Place(k) = Staging!Place(l)
  PROVE  k = l
<1> DEFINE upTo(x) == {y \in Staging!Kept : Rank[y] <= Rank[x]}
<1>1. /\ k \in MatchKey /\ l \in MatchKey /\ Rank[k] \in Nat /\ Rank[l] \in Nat
      /\ \A x : upTo(x) \subseteq MatchKey
  BY StagingFacts DEF Staging!Kept
<1>2. \A x : IsFiniteSet(upTo(x))
  BY <1>1, FS_Subset, StagingFacts
<1>3. Cardinality(upTo(k)) = Cardinality(upTo(l))
  BY StagingFacts DEF Staging!Place
<1>4. ASSUME NEW x \in Staging!Kept, NEW y \in Staging!Kept, Rank[x] < Rank[y],
             Rank[x] \in Nat, Rank[y] \in Nat,
             Cardinality(upTo(x)) = Cardinality(upTo(y))
      PROVE  FALSE
  <2>1. \A z \in Staging!Kept : Rank[z] \in Nat
    BY StagingFacts DEF Staging!Kept
  <2>2. upTo(x) \subseteq upTo(y)
    BY <1>4, <2>1
  <2>3. y \in upTo(y) /\ y \notin upTo(x)
    BY <1>4
  <2> HIDE DEF upTo
  <2>4. upTo(x) = upTo(y)
    BY <1>2, <1>4, <2>2, FS_Subset
  <2> QED
    BY <2>3, <2>4
<1>5. Rank[k] = Rank[l]
  BY <1>1, <1>3, <1>4
<1> QED
  BY <1>1, <1>5, StagingFacts

(* What the replacement of the rows keeps.                                  *)
LEMMA Replaced ==
  ASSUME Staged, stagingScan.found \subseteq File
  PROVE  /\ \A n \in DOMAIN Staging!Staged : WellFormed(Staging!Staged[n]) /\ Staging!Staged[n].state # "imported"
         /\ \A n, m \in DOMAIN Staging!Staged : Staging!Staged[n].key = Staging!Staged[m].key => n = m
         /\ \A i \in DOMAIN stagingRows :
              stagingRows[i].state \in {"confirmed", "skipped"} /\ stagingRows[i].key \in Staging!Kept =>
                \E n \in DOMAIN Staging!Staged :
                  /\ Staging!Staged[n].key = stagingRows[i].key
                  /\ Staging!Staged[n].state = stagingRows[i].state
                  /\ stagingRows[i].state = "confirmed"
                       => Staging!Staged[n].confirmed = stagingRows[i].confirmed
<1> DEFINE at(n) == CHOOSE k \in Staging!Kept : Staging!Place(k) = n
           new == Staging!Staged
<1>1. /\ DOMAIN new = {Staging!Place(k) : k \in Staging!Kept}
      /\ \A n \in DOMAIN new : new[n] = Staging!Draft(at(n))
  BY DEF Staging!Staged
<1>2. \A n \in DOMAIN new : at(n) \in Staging!Kept /\ Staging!Place(at(n)) = n
  BY <1>1
<1>3. \A k \in Staging!Kept : Staging!Place(k) \in DOMAIN new /\ at(Staging!Place(k)) = k
  BY <1>1, <1>2, PlacesDiffer
<1> HIDE DEF new, at
<1>4. ASSUME NEW k \in Staging!Kept
      PROVE  /\ WellFormed(Staging!Draft(k)) /\ Staging!Draft(k).key = k /\ Staging!Draft(k).state # "imported"
             /\ \A r : Staging!RowsOf(k) = {r} /\ r.state \in {"confirmed", "skipped"} =>
                  /\ Staging!Draft(k).state = r.state
                  /\ r.state = "confirmed" => Staging!Draft(k).confirmed = r.confirmed
  <2>1. k \in MatchKey
    BY DEF Staging!Kept
  <2>2. Staging!Drafted(k) \in SUBSET File /\ \A f \in Staging!Drafted(k) : KeyOf[f] = k
    BY DEF Staging!Drafted
  <2>3. \A r \in Staging!RowsOf(k) : WellFormed(r)
    BY DEF Staging!RowsOf, Staged
  <2> QED
    BY <2>1, <2>2, <2>3, CarriedForward DEF Staging!Draft
<1>5. \A n \in DOMAIN new : WellFormed(new[n]) /\ new[n].key = at(n) /\ new[n].state # "imported"
  BY <1>1, <1>2, <1>4
<1>6. \A n, m \in DOMAIN new : new[n].key = new[m].key => n = m
  BY <1>2, <1>5
<1>7. ASSUME NEW i \in DOMAIN stagingRows, stagingRows[i].state \in {"confirmed", "skipped"},
             stagingRows[i].key \in Staging!Kept
      PROVE  \E n \in DOMAIN new :
               /\ new[n].key = stagingRows[i].key /\ new[n].state = stagingRows[i].state
               /\ stagingRows[i].state = "confirmed" => new[n].confirmed = stagingRows[i].confirmed
  <2> DEFINE k == stagingRows[i].key
             n == Staging!Place(k)
  <2>1. Staging!RowsOf(k) = {stagingRows[i]}
    BY DEF Staging!RowsOf, Staged
  <2>2. n \in DOMAIN new /\ new[n] = Staging!Draft(k)
    BY <1>1, <1>3, <1>7
  <2>3. /\ Staging!Draft(k).key = k
        /\ Staging!Draft(k).state = stagingRows[i].state
        /\ stagingRows[i].state = "confirmed" => Staging!Draft(k).confirmed = stagingRows[i].confirmed
    BY <1>4, <1>7, <2>1
  <2> QED
    BY <2>2, <2>3
<1> QED
  BY <1>5, <1>6, <1>7 DEF new

(* Every other step edits rows in place, and only the verdict of an import  *)
(* makes one imported.                                                      *)
Verdict(i) == Staging!ImportOutcome /\ i = stagingExec.job.id

LEMMA RowEdited ==
  ASSUME Staged, NEW id \in DOMAIN stagingRows, NEW r, WellFormed(r), Same(r, stagingRows[id]),
         stagingRows' = [stagingRows EXCEPT ![id] = r]
  PROVE  /\ Edited
         /\ \A i \in DOMAIN stagingRows : i = id \/ stagingRows'[i] = stagingRows[i]
         /\ stagingRows'[id] = r
BY DEF Edited, Staged, Same

LEMMA RowsRest == ASSUME Staged, stagingRows' = stagingRows PROVE Edited
BY DEF Staged, Edited, Same

LEMMA AnswerLands ==
  ASSUME Staged, NEW k, NEW s \in {"proposed", "no_match"}, NEW v,
         k \in MatchKey => v \in Volume \cup {NoVolume}, Staging!PersistProposal(k, s, v)
  PROVE  /\ Edited
         /\ \A i \in DOMAIN stagingRows :
              \/ stagingRows'[i] = stagingRows[i]
              \/ (stagingRows[i].state = "proposed" /\ stagingRows'[i].state # "imported")
<1>1. stagingRows' = [i \in DOMAIN stagingRows |->
                       IF stagingRows[i].key = k THEN Staging!Answered(stagingRows[i], s, v)
                       ELSE stagingRows[i]]
  BY DEF Staging!PersistProposal
<1>2. DOMAIN stagingRows' = DOMAIN stagingRows
  BY <1>1
<1>3. ASSUME NEW i \in DOMAIN stagingRows
      PROVE  /\ WellFormed(stagingRows'[i]) /\ Same(stagingRows'[i], stagingRows[i])
             /\ \/ stagingRows'[i] = stagingRows[i]
                \/ (stagingRows[i].state = "proposed" /\ stagingRows'[i].state # "imported")
  <2>1. WellFormed(stagingRows[i])
    BY DEF Staged
  <2>2. CASE stagingRows[i].key # k
    <3>1. stagingRows'[i] = stagingRows[i]
      BY <1>1, <2>2
    <3> QED
      BY <2>1, <3>1 DEF Same
  <2>3. CASE stagingRows[i].key = k
    <3>1. stagingRows'[i] = Staging!Answered(stagingRows[i], s, v)
      BY <1>1, <2>3
    <3>2. v \in Volume \cup {NoVolume}
      BY <2>1, <2>3 DEF WellFormed, Staging!Row
    <3> QED
      BY <2>1, <3>1, <3>2, Responding
  <2> QED
    BY <2>2, <2>3
<1> QED
  BY <1>2, <1>3 DEF Edited

(* The steps of an import that hold a group, and the group they hold.       *)
Holding == {"look", "add", "refresh", "import", "outcome", "check", "rollback"}

Held(j) == /\ j = [id |-> j.id, row |-> j.row, created |-> j.created]
           /\ WellFormed(j.row) /\ j.row.confirmed \in Volume /\ j.created \in BOOLEAN

Importing ==
  /\ stagingExec = [pc |-> stagingExec.pc, ids |-> stagingExec.ids, meant |-> stagingExec.meant,
                    left |-> stagingExec.left, job |-> stagingExec.job]
  /\ stagingExec.pc \in {"idle", "next"} \cup Holding
  /\ stagingExec.pc \in Holding => Held(stagingExec.job)
  /\ stagingExec.pc \notin Holding => stagingExec.job = Staging!NoJob
  /\ stagingExec.job.created => stagingExec.pc \notin {"look", "add"}
  /\ stagingRequest # {} => stagingExec.pc = "idle"

Scanning ==
  /\ stagingScan = [pc |-> stagingScan.pc, known |-> stagingScan.known, gone |-> stagingScan.gone,
                    found |-> stagingScan.found, todo |-> stagingScan.todo]
  /\ stagingScan.pc \in {"idle", "queued", "prune", "replace", "propose"}
  /\ stagingScan.found \subseteq File

Registered ==
  /\ stagingInPlace \in BOOLEAN /\ stagingDisk \subseteq File
  /\ stagingTracked \in [File -> Volume \cup {NoVolume}]
  /\ stagingSeries \in [Volume -> Staging!Entry]
  /\ stagingMatching # <<>> =>
       \E v \in Volume, fs \in SUBSET File : stagingMatching = <<v, fs>>
  /\ stagingSpent \in [{"act", "scan", "import", "fault", "crash"} -> Nat]

LEMMA RowsMove ==
  ASSUME Staged, [Staging!Next]_stagingVars
  PROVE  \/ Staging!ScanReplace
         \/ /\ Edited
            /\ \A i \in DOMAIN stagingRows :
                 stagingRows'[i].state = "imported" /\ stagingRows[i].state # "imported" => Verdict(i)
<1> DEFINE Turn == \A i \in DOMAIN stagingRows :
                     stagingRows'[i].state = "imported" /\ stagingRows[i].state # "imported" => Verdict(i)
<1>1. \/ stagingRows' = stagingRows
      \/ Staging!ScanReplace \/ Staging!ScanPropose \/ Staging!ScanUnanswered
      \/ \E id \in DOMAIN stagingRows :
           \/ Staging!Confirm(id) \/ Staging!Skip(id) \/ Staging!BackToReview(id)
           \/ \E v \in Volume : Staging!Override(id, v)
      \/ \E id : Staging!ImportPromote(id)
      \/ Staging!ImportOutcome
  BY DEF Staging!Next, Staging!Scan, Staging!Import, Staging!Match, Staging!Operator,
     Staging!ScanRequest, Staging!ScanStart, Staging!ScanPrune, Staging!ExecuteEnqueue,
     Staging!ExecuteRequest, Staging!SeriesDelete, Staging!DiskChange, Staging!ImportLook,
     Staging!ImportAdd, Staging!ImportRefresh, Staging!ImportFails, Staging!ImportFiles,
     Staging!ImportCheck, Staging!ImportRollback, Staging!MatchStart, Staging!MatchCommit,
     Staging!Crash, stagingVars
<1>2. ASSUME NEW id \in DOMAIN stagingRows, NEW r, WellFormed(r), Same(r, stagingRows[id]),
             stagingRows' = [stagingRows EXCEPT ![id] = r],
             r.state = "imported" => stagingRows[id].state = "imported"
      PROVE  Edited /\ Turn
  BY <1>2, RowEdited
<1>3. ASSUME stagingRows' = stagingRows PROVE Edited /\ Turn
  BY <1>3, RowsRest
<1>4. CASE Staging!ScanPropose \/ Staging!ScanUnanswered
  <2> DEFINE k == Head(stagingScan.todo)
             Answer(s, v) == /\ s \in {"proposed", "no_match"}
                             /\ k \in MatchKey => v \in Volume \cup {NoVolume}
                             /\ Staging!PersistProposal(k, s, v)
  <2>1. PICK s, v : Answer(s, v)
    <3>1. CASE Staging!ScanPropose
      <4>1. Answer(IF Best[k] = NoVolume THEN "no_match" ELSE "proposed", Best[k])
        BY <3>1, StagingFacts DEF Staging!ScanPropose
      <4> QED
        BY <4>1
    <3>2. CASE Staging!ScanUnanswered
      <4>1. Answer("proposed", NoVolume)
        BY <3>2 DEF Staging!ScanUnanswered
      <4> QED
        BY <4>1
    <3> QED
      BY <1>4, <3>1, <3>2
  <2>2. /\ Edited
        /\ \A i \in DOMAIN stagingRows :
             \/ stagingRows'[i] = stagingRows[i]
             \/ (stagingRows[i].state = "proposed" /\ stagingRows'[i].state # "imported")
    BY <2>1, AnswerLands
  <2> QED
    BY <2>2
<1>5. ASSUME NEW id \in DOMAIN stagingRows,
             \/ Staging!Confirm(id) \/ Staging!Skip(id) \/ Staging!BackToReview(id)
             \/ \E v \in Volume : Staging!Override(id, v)
      PROVE  Edited /\ Turn
  <2> DEFINE r == stagingRows[id]
  <2>1. WellFormed(r) /\ r.confirmed \in Volume \cup {NoVolume} /\ r.proposed \in Volume \cup {NoVolume}
    BY DEF Staged, WellFormed, Staging!Row
  <2>2. CASE Staging!Confirm(id)
    <3> DEFINE v == IF r.confirmed # NoVolume THEN r.confirmed ELSE r.proposed
    <3>1. stagingRows' = [stagingRows EXCEPT ![id] = ConfirmedAs(r, v)] /\ v \in Volume
      BY <2>1, <2>2 DEF Staging!Confirm, Staging!Patch, ConfirmedAs
    <3> HIDE DEF v
    <3>2. ConfirmedAs(r, v).state = "confirmed"
      BY <2>1 DEF ConfirmedAs, WellFormed, Staging!Row
    <3>3. WellFormed(ConfirmedAs(r, v)) /\ Same(ConfirmedAs(r, v), r)
      BY <2>1, <3>1, Confirming
    <3> QED
      BY <1>2, <3>1, <3>2, <3>3
  <2>3. CASE Staging!Skip(id)
    <3> DEFINE q == [r EXCEPT !.state = "skipped"]
    <3>1. stagingRows' = [stagingRows EXCEPT ![id] = q]
      BY <2>3 DEF Staging!Skip, Staging!Patch
    <3>2. q.state = "skipped"
      BY <2>1 DEF WellFormed, Staging!Row
    <3>3. WellFormed(q) /\ Same(q, r)
      BY <2>1, Relabelled
    <3> HIDE DEF q
    <3> QED
      BY <1>2, <3>1, <3>2, <3>3
  <2>4. CASE Staging!BackToReview(id)
    <3> DEFINE q == ReviewedAs(r)
    <3>1. stagingRows' = [stagingRows EXCEPT ![id] = q]
      BY <2>4 DEF Staging!BackToReview, Staging!Patch, ReviewedAs
    <3>2. q.state = "proposed"
      BY <2>1 DEF WellFormed, Staging!Row, ReviewedAs
    <3>3. WellFormed(q) /\ Same(q, r)
      BY <2>1, Reviewing
    <3> HIDE DEF q
    <3> QED
      BY <1>2, <3>1, <3>2, <3>3
  <2>5. ASSUME NEW v \in Volume, Staging!Override(id, v) PROVE Edited /\ Turn
    <3> DEFINE q == OverriddenAs(r, v)
    <3>1. stagingRows' = [stagingRows EXCEPT ![id] = q]
      BY <2>5 DEF Staging!Override, Staging!Patch, OverriddenAs
    <3>2. q.state = "confirmed"
      BY <2>1 DEF WellFormed, Staging!Row, OverriddenAs
    <3>3. WellFormed(q) /\ Same(q, r)
      BY <2>1, Overriding
    <3> HIDE DEF q
    <3> QED
      BY <1>2, <3>1, <3>2, <3>3
  <2> QED
    BY <1>5, <2>2, <2>3, <2>4, <2>5
<1>6. ASSUME NEW id, Staging!ImportPromote(id) PROVE Edited /\ Turn
  <2> DEFINE q == Staging!Promoted(stagingRows[id])
  <2>1. \/ stagingRows' = stagingRows
        \/ id \in DOMAIN stagingRows /\ stagingRows' = [stagingRows EXCEPT ![id] = q]
    BY <1>6 DEF Staging!ImportPromote
  <2>2. id \in DOMAIN stagingRows => /\ WellFormed(q) /\ Same(q, stagingRows[id])
                                     /\ q.state = "imported" => stagingRows[id].state = "imported"
    BY PromotedIsSound DEF Staged
  <2> HIDE DEF q
  <2>3. CASE id \in DOMAIN stagingRows /\ stagingRows' = [stagingRows EXCEPT ![id] = q]
    <3>1. /\ WellFormed(q) /\ Same(q, stagingRows[id])
          /\ (q.state = "imported" => stagingRows[id].state = "imported")
      BY <2>2, <2>3
    <3> QED
      BY <1>2, <2>3, <3>1
  <2> QED
    BY <1>3, <2>1, <2>3
<1>7. CASE Staging!ImportOutcome
  <2> DEFINE id == stagingExec.job.id
             q == [stagingRows[id] EXCEPT !.state = "imported"]
  <2>1. CASE id \in DOMAIN stagingRows
    <3>1. stagingRows' = [stagingRows EXCEPT ![id] = q]
      BY <1>7, <2>1 DEF Staging!ImportOutcome, Staging!Job
    <3>2. WellFormed(q) /\ Same(q, stagingRows[id])
      BY <2>1, Relabelled DEF Staged
    <3> HIDE DEF q, id
    <3>3. Edited /\ \A i \in DOMAIN stagingRows : i = id \/ stagingRows'[i] = stagingRows[i]
      BY <2>1, <3>1, <3>2, RowEdited
    <3> QED
      BY <1>7, <3>3 DEF Verdict, id
  <2>2. CASE id \notin DOMAIN stagingRows
    BY <1>3, <1>7, <2>2 DEF Staging!ImportOutcome, Staging!Job
  <2> QED
    BY <2>1, <2>2
<1> QED
  BY <1>1, <1>3, <1>4, <1>5, <1>6, <1>7

(* The rows stay well formed.                                               *)
LEMMA StagedStep ==
  ASSUME Staged, Scanning, [Staging!Next]_stagingVars
  PROVE  /\ Staged'
         /\ Edited => /\ DOMAIN stagingRows' = DOMAIN stagingRows
                      /\ \A i \in DOMAIN stagingRows : Same(stagingRows'[i], stagingRows[i])
         /\ \A i \in DOMAIN stagingRows \cap DOMAIN stagingRows' :
              stagingRows'[i].state = "imported" /\ stagingRows[i].state # "imported" => Verdict(i)
<1>1. CASE Staging!ScanReplace
  <2>1. stagingRows' = Staging!Staged
    BY <1>1 DEF Staging!ScanReplace
  <2>2. /\ \A n \in DOMAIN stagingRows' : WellFormed(stagingRows'[n]) /\ stagingRows'[n].state # "imported"
        /\ \A n, m \in DOMAIN stagingRows' : stagingRows'[n].key = stagingRows'[m].key => n = m
    BY <2>1, Replaced DEF Scanning
  <2>3. Staged'
    BY <2>2 DEF Staged
  <2> QED
    BY <2>2, <2>3 DEF Edited
<1>2. CASE ~Staging!ScanReplace
  <2>1. /\ Edited
        /\ \A i \in DOMAIN stagingRows :
             stagingRows'[i].state = "imported" /\ stagingRows[i].state # "imported" => Verdict(i)
    BY <1>2, RowsMove
  <2>2. Staged'
    BY <2>1 DEF Edited, Staged, Same
  <2> QED
    BY <2>1, <2>2 DEF Edited
<1> QED
  BY <1>1, <1>2

(* A scan leaves what was decided.                                          *)
LEMMA DecisionStep ==
  ASSUME Staged, Scanning, Importing, [Staging!Next]_stagingVars
  PROVE  Staging!KeepsDecisions
<1> SUFFICES ASSUME stagingScan # stagingScan', stagingExec' = stagingExec,
                    NEW i \in DOMAIN stagingRows, stagingRows[i].state \in {"confirmed", "skipped"}
             PROVE  Staging!KeepsDecision(i)
  BY DEF Staging!KeepsDecisions
<1>1. \/ Staging!ScanReplace \/ Staging!ScanPropose \/ Staging!ScanUnanswered
      \/ stagingRows' = stagingRows
  <2>1. Staging!Operator => stagingScan' = stagingScan
    BY DEF Staging!Operator, Staging!ExecuteRequest, Staging!SeriesDelete, Staging!DiskChange,
       Staging!Confirm, Staging!Skip, Staging!BackToReview, Staging!Override, Staging!Patch
  <2>2. Staging!Import => stagingScan' = stagingScan
    BY DEF Staging!Import, Staging!ImportPromote,
       Staging!ImportLook, Staging!ImportAdd, Staging!ImportRefresh, Staging!ImportFails,
       Staging!ImportFiles, Staging!ImportOutcome, Staging!ImportCheck, Staging!ImportRollback
  <2>3. Staging!Match => stagingScan' = stagingScan
    BY DEF Staging!Match, Staging!MatchStart, Staging!MatchCommit
  <2>4. Staging!ScanRequest \/ Staging!ScanStart \/ Staging!ScanPrune \/ Staging!ExecuteEnqueue
          \/ Staging!Crash => stagingRows' = stagingRows
    BY DEF Staging!ScanRequest, Staging!ScanStart, Staging!ScanPrune, Staging!ExecuteEnqueue,
       Staging!Crash
  <2> QED
    BY <2>1, <2>2, <2>3, <2>4 DEF Staging!Next, Staging!Scan, stagingVars
<1>2. CASE stagingRows' = stagingRows
  BY <1>2 DEF Staging!KeepsDecision
<1>3. CASE Staging!ScanReplace
  <2>1. stagingRows' = Staging!Staged /\ stagingScan.pc = "replace"
    BY <1>3 DEF Staging!ScanReplace
  <2>2. CASE stagingRows[i].key \in Staging!Kept
    <3>1. \E n \in DOMAIN Staging!Staged :
            /\ Staging!Staged[n].key = stagingRows[i].key
            /\ Staging!Staged[n].state = stagingRows[i].state
            /\ stagingRows[i].state = "confirmed"
                 => Staging!Staged[n].confirmed = stagingRows[i].confirmed
      BY <2>2, Replaced DEF Scanning
    <3> QED
      BY <2>1, <3>1 DEF Staging!KeepsDecision
  <2>3. CASE stagingRows[i].key \notin Staging!Kept
    <3>1. stagingRows[i].key \in MatchKey
      BY DEF Staged, WellFormed, Staging!Row
    <3>2. Staging!Drafted(stagingRows[i].key) = {}
      BY <2>3, <3>1 DEF Staging!Kept
    <3> QED
      BY <2>1, <3>2 DEF Staging!KeepsDecision, Staging!Drafted
  <2> QED
    BY <2>2, <2>3
<1>4. CASE Staging!ScanPropose \/ Staging!ScanUnanswered
  <2>1. \E k, s, v : Staging!PersistProposal(k, s, v)
    BY <1>4 DEF Staging!ScanPropose, Staging!ScanUnanswered
  <2>2. PICK k, s, v :
          stagingRows' = [j \in DOMAIN stagingRows |->
                            IF stagingRows[j].key = k THEN Staging!Answered(stagingRows[j], s, v)
                            ELSE stagingRows[j]]
    BY <2>1 DEF Staging!PersistProposal
  <2>3. Staging!Answered(stagingRows[i], s, v) = stagingRows[i]
    BY DEF Staging!Answered
  <2>4. i \in DOMAIN stagingRows' /\ stagingRows'[i] = stagingRows[i]
    BY <2>2, <2>3
  <2> QED
    BY <2>4 DEF Staging!KeepsDecision
<1> QED
  BY <1>1, <1>2, <1>3, <1>4

LEMMA ScanningStep ==
  ASSUME Scanning, Registered, [Staging!Next]_stagingVars
  PROVE  Scanning'
<1>1. \/ stagingScan' = stagingScan \/ stagingScan' = Staging!IdleScan
      \/ stagingScan' = [stagingScan EXCEPT !.pc = "queued"]
      \/ Staging!ScanStart \/ Staging!ScanPrune \/ Staging!ScanReplace \/ Staging!Proposed
  <2>1. Staging!Operator => stagingScan' = stagingScan
    BY DEF Staging!Operator, Staging!ExecuteRequest, Staging!SeriesDelete, Staging!DiskChange,
       Staging!Confirm, Staging!Skip, Staging!BackToReview, Staging!Override, Staging!Patch
  <2>2. Staging!Import => stagingScan' = stagingScan
    BY DEF Staging!Import, Staging!ImportPromote,
       Staging!ImportLook, Staging!ImportAdd, Staging!ImportRefresh, Staging!ImportFails,
       Staging!ImportFiles, Staging!ImportOutcome, Staging!ImportCheck, Staging!ImportRollback
  <2>3. Staging!Match \/ Staging!ExecuteEnqueue => stagingScan' = stagingScan
    BY DEF Staging!Match, Staging!MatchStart, Staging!MatchCommit, Staging!ExecuteEnqueue
  <2>4. Staging!ScanPropose \/ Staging!ScanUnanswered => Staging!Proposed
    BY DEF Staging!ScanPropose, Staging!ScanUnanswered
  <2>5. Staging!Crash => stagingScan' = stagingScan \/ stagingScan' = Staging!IdleScan
    BY DEF Staging!Crash
  <2>6. Staging!ScanRequest => stagingScan' = [stagingScan EXCEPT !.pc = "queued"]
    BY DEF Staging!ScanRequest
  <2> QED
    BY <2>1, <2>2, <2>3, <2>4, <2>5, <2>6 DEF Staging!Next, Staging!Scan, stagingVars
<1> DEFINE Good(s) == /\ s = [pc |-> s.pc, known |-> s.known, gone |-> s.gone, found |-> s.found, todo |-> s.todo]
                      /\ s.pc \in {"idle", "queued", "prune", "replace", "propose"}
                      /\ s.found \subseteq File
<1>2. Good(stagingScan)
  BY DEF Scanning
<1>3. ASSUME NEW pc \in {"idle", "queued", "prune", "replace", "propose"}, NEW k, NEW g,
             NEW f \in SUBSET File, NEW t
      PROVE  Good([pc |-> pc, known |-> k, gone |-> g, found |-> f, todo |-> t])
  OBVIOUS
<1>4. Good(Staging!IdleScan)
  BY <1>3 DEF Staging!IdleScan
<1> HIDE DEF Good
<1>5. /\ stagingScan = [pc |-> stagingScan.pc, known |-> stagingScan.known, gone |-> stagingScan.gone,
                        found |-> stagingScan.found, todo |-> stagingScan.todo]
      /\ stagingScan.found \in SUBSET File /\ stagingDisk \subseteq File
      /\ stagingScan.pc \in {"idle", "queued", "prune", "replace", "propose"}
  BY DEF Scanning, Registered
<1>6. CASE stagingScan' = [stagingScan EXCEPT !.pc = "queued"]
  <2>1. stagingScan' = [pc |-> "queued", known |-> stagingScan.known, gone |-> stagingScan.gone,
                        found |-> stagingScan.found, todo |-> stagingScan.todo]
    BY <1>5, <1>6
  <2>2. Good(stagingScan')
    BY <1>3, <1>5, <2>1
  <2> QED
    BY <2>2 DEF Good, Scanning
<1>7. CASE Staging!ScanStart
  <2>1. \/ stagingScan' = Staging!IdleScan
        \/ \E k, g : stagingScan' = [stagingScan EXCEPT !.pc = "prune", !.known = k, !.gone = g]
    BY <1>7 DEF Staging!ScanStart
  <2>2. \/ stagingScan' = Staging!IdleScan
        \/ \E k, g : stagingScan' = [pc |-> "prune", known |-> k, gone |-> g,
                                     found |-> stagingScan.found, todo |-> stagingScan.todo]
    BY <1>5, <2>1
  <2>3. Good(stagingScan')
    BY <1>3, <1>4, <1>5, <2>2
  <2> QED
    BY <2>3 DEF Good, Scanning
<1>8. CASE Staging!ScanPrune
  <2>1. stagingScan' = [stagingScan EXCEPT !.pc = "replace", !.found = stagingDisk \ stagingScan.known,
                                           !.gone = {}]
    BY <1>8 DEF Staging!ScanPrune
  <2>2. stagingScan' = [pc |-> "replace", known |-> stagingScan.known, gone |-> {},
                        found |-> stagingDisk \ stagingScan.known, todo |-> stagingScan.todo]
    BY <1>5, <2>1
  <2>3. Good(stagingScan')
    BY <1>3, <1>5, <2>2
  <2> QED
    BY <2>3 DEF Good, Scanning
<1>9. CASE Staging!ScanReplace
  <2>1. \/ stagingScan' = Staging!IdleScan
        \/ \E t : stagingScan' = [Staging!IdleScan EXCEPT !.pc = "propose", !.todo = t]
    BY <1>9 DEF Staging!ScanReplace
  <2>2. \/ stagingScan' = Staging!IdleScan
        \/ \E t : stagingScan' = [pc |-> "propose", known |-> {}, gone |-> {}, found |-> {}, todo |-> t]
    BY <2>1 DEF Staging!IdleScan
  <2>3. Good(stagingScan')
    BY <1>3, <1>4, <2>2
  <2> QED
    BY <2>3 DEF Good, Scanning
<1>10. CASE Staging!Proposed
  <2>1. \/ stagingScan' = Staging!IdleScan
        \/ \E t : stagingScan' = [stagingScan EXCEPT !.todo = t]
    BY <1>10 DEF Staging!Proposed
  <2>2. \/ stagingScan' = Staging!IdleScan
        \/ \E t : stagingScan' = [pc |-> stagingScan.pc, known |-> stagingScan.known,
                                  gone |-> stagingScan.gone, found |-> stagingScan.found, todo |-> t]
    BY <1>5, <2>1
  <2>3. Good(stagingScan')
    BY <1>3, <1>4, <1>5, <2>2
  <2> QED
    BY <2>3 DEF Good, Scanning
<1>11. CASE stagingScan' = stagingScan \/ stagingScan' = Staging!IdleScan
  <2>1. Good(stagingScan')
    BY <1>2, <1>4, <1>11
  <2> QED
    BY <2>1 DEF Good, Scanning
<1> QED
  BY <1>1, <1>6, <1>7, <1>8, <1>9, <1>10, <1>11

(* An import holds a confirmed group from its promotion to its end.         *)
Process(pc, ids, meant, left, job) ==
  [pc |-> pc, ids |-> ids, meant |-> meant, left |-> left, job |-> job]

Sane(e) ==
  /\ e = Process(e.pc, e.ids, e.meant, e.left, e.job)
  /\ e.pc \in {"idle", "next"} \cup Holding
  /\ e.pc \in Holding => Held(e.job)
  /\ e.pc \notin Holding => e.job = Staging!NoJob
  /\ e.job.created => e.pc \notin {"look", "add"}

LEMMA ProcessIsSane ==
  /\ \A pc \in {"idle", "next"} : \A ids, meant, left : Sane(Process(pc, ids, meant, left, Staging!NoJob))
  /\ \A pc \in Holding : \A ids, meant, left, j :
       Held(j) /\ (j.created => pc \notin {"look", "add"}) => Sane(Process(pc, ids, meant, left, j))
<1>1. Staging!NoJob.created = FALSE
  BY DEF Staging!NoJob
<1> QED
  BY <1>1 DEF Sane, Process, Holding

LEMMA NewlyHeld ==
  ASSUME NEW id, NEW r, WellFormed(r), r.confirmed \in Volume, NEW created \in BOOLEAN
  PROVE  Held([id |-> id, row |-> r, created |-> created])
<1> DEFINE j == [id |-> id, row |-> r, created |-> created]
<1>1. j.id = id /\ j.row = r /\ j.created = created
  OBVIOUS
<1>2. j = [id |-> j.id, row |-> j.row, created |-> j.created]
  BY <1>1
<1> HIDE DEF j
<1>3. Held(j)
  BY <1>1, <1>2 DEF Held
<1> QED
  BY <1>3 DEF j

LEMMA JobTaken ==
  ASSUME NEW x, NEW y
  PROVE  [Staging!NoJob EXCEPT !.id = x, !.row = y] = [id |-> x, row |-> y, created |-> FALSE]
<1> DEFINE j == [Staging!NoJob EXCEPT !.id = x, !.row = y]
<1>1. /\ DOMAIN Staging!NoJob = {"id", "row", "created"}
      /\ Staging!NoJob.created = FALSE
  BY DEF Staging!NoJob
<1>2. /\ DOMAIN j = {"id", "row", "created"} /\ j = [n \in {"id", "row", "created"} |-> j[n]]
      /\ j.id = x /\ j.row = y /\ j.created = FALSE
  BY <1>1
<1> HIDE DEF j
<1>3. j = [id |-> x, row |-> y, created |-> FALSE]
  BY <1>2
<1> QED
  BY <1>3 DEF j

LEMMA Creating ==
  ASSUME NEW j, Held(j)
  PROVE  /\ Held([j EXCEPT !.created = TRUE])
         /\ [j EXCEPT !.created = TRUE].id = j.id
         /\ [j EXCEPT !.created = TRUE].row = j.row
<1> DEFINE q == [j EXCEPT !.created = TRUE]
<1>1. /\ j = [id |-> j.id, row |-> j.row, created |-> j.created]
      /\ WellFormed(j.row) /\ j.row.confirmed \in Volume
  BY DEF Held
<1>2. DOMAIN j = {"id", "row", "created"}
  BY <1>1
<1>3. /\ DOMAIN q = {"id", "row", "created"} /\ q = [n \in {"id", "row", "created"} |-> q[n]]
      /\ q.id = j.id /\ q.row = j.row /\ q.created = TRUE
  BY <1>2
<1> HIDE DEF q
<1>4. q = [id |-> q.id, row |-> q.row, created |-> q.created]
  BY <1>3
<1>5. Held(q)
  BY <1>1, <1>3, <1>4 DEF Held
<1> QED
  BY <1>3, <1>5 DEF q

LEMMA ImportMoves ==
  ASSUME Staged, Importing, [Staging!Next]_stagingVars
  PROVE  Sane(stagingExec')
<1> DEFINE e == stagingExec
<1>1. e = Process(e.pc, e.ids, e.meant, e.left, e.job) /\ Sane(e)
  BY DEF Importing, Sane, Process
<1>2. Sane(Staging!IdleExec)
  <2>1. Staging!IdleExec = Process("idle", {}, {}, {}, Staging!NoJob)
    BY DEF Staging!IdleExec, Process
  <2> QED
    BY <2>1, ProcessIsSane
<1>3. ASSUME NEW left, Staging!NextGroup(left) PROVE Sane(stagingExec')
  <2>1. stagingExec' = Staging!IdleExec \/ stagingExec' = Process("next", e.ids, e.meant, left, Staging!NoJob)
    BY <1>1, <1>3 DEF Staging!NextGroup, Process
  <2> QED
    BY <1>2, <2>1, ProcessIsSane
<1>4. ASSUME NEW pc \in Holding \ {"look", "add"}, e.pc \in Holding, Staging!Step(pc)
      PROVE  Sane(stagingExec')
  <2>1. stagingExec' = Process(pc, e.ids, e.meant, e.left, e.job)
    BY <1>1, <1>4 DEF Staging!Step, Process
  <2>2. Held(e.job)
    BY <1>4 DEF Importing
  <2> QED
    BY <1>4, <2>1, <2>2, ProcessIsSane
<1>5. ASSUME e.pc \in Holding, Staging!Finally PROVE Sane(stagingExec')
  <2>1. Staging!Step("check") \/ Staging!NextGroup(e.left)
    BY <1>5 DEF Staging!Finally, Staging!Job
  <2>2. "check" \in Holding \ {"look", "add"}
    BY DEF Holding
  <2> QED
    BY <1>3, <1>4, <1>5, <2>1, <2>2
<1>6. Staging!Operator \/ Staging!ScanRequest \/ Staging!Scan \/ Staging!Match
        \/ Staging!ExecuteEnqueue \/ Staging!Crash \/ stagingExec' = stagingExec => Sane(stagingExec')
  <2>1. ASSUME stagingExec' = stagingExec \/ stagingExec' = Staging!IdleExec PROVE Sane(stagingExec')
    BY <1>1, <1>2, <2>1
  <2>2. Staging!ScanRequest \/ Staging!Scan \/ Staging!Match => stagingExec' = stagingExec
    BY DEF Staging!ScanRequest, Staging!Scan, Staging!ScanStart, Staging!ScanPrune,
       Staging!ScanReplace, Staging!ScanPropose, Staging!ScanUnanswered, Staging!Match,
       Staging!MatchStart, Staging!MatchCommit
  <2>3. Staging!Crash => stagingExec' = stagingExec \/ stagingExec' = Staging!IdleExec
    BY DEF Staging!Crash
  <2>4. ASSUME Staging!ExecuteEnqueue PROVE Sane(stagingExec')
    <3>1. e.pc = "idle" /\ e.job = Staging!NoJob
      BY <2>4 DEF Staging!ExecuteEnqueue, Staging!NoRequest, Importing, Holding
    <3>2. stagingExec' = Process("next", stagingRequest, e.meant, stagingRequest, Staging!NoJob)
      BY <1>1, <2>4, <3>1 DEF Staging!ExecuteEnqueue, Process
    <3> QED
      BY <3>2, ProcessIsSane
  <2>5. ASSUME NEW ids, Staging!ExecuteRequest(ids) PROVE Sane(stagingExec')
    <3>1. e.pc = "idle" /\ e.job = Staging!NoJob
      BY <2>5 DEF Staging!ExecuteRequest, Staging!ImportLive, Importing, Holding
    <3>2. \E m : stagingExec' = [stagingExec EXCEPT !.meant = m]
      BY <2>5 DEF Staging!ExecuteRequest
    <3>3. \E m : stagingExec' = Process("idle", e.ids, m, e.left, Staging!NoJob)
      BY <1>1, <3>1, <3>2 DEF Process
    <3> QED
      BY <3>3, ProcessIsSane
  <2>6. Staging!Operator => stagingExec' = stagingExec \/ \E ids : Staging!ExecuteRequest(ids)
    BY DEF Staging!Operator, Staging!SeriesDelete, Staging!DiskChange,
       Staging!Confirm, Staging!Skip, Staging!BackToReview, Staging!Override, Staging!Patch
  <2> QED
    BY <2>1, <2>2, <2>3, <2>4, <2>5, <2>6
<1>7. ASSUME NEW id, Staging!ImportPromote(id) PROVE Sane(stagingExec')
  <2> DEFINE r == Staging!Promoted(stagingRows[id])
             j == [id |-> id, row |-> r, created |-> FALSE]
  <2>1. \/ \E left : Staging!NextGroup(left)
        \/ /\ id \in DOMAIN stagingRows /\ Staging!Importable(r)
           /\ \E left : stagingExec' = [stagingExec EXCEPT !.pc = "look", !.left = left,
                                          !.job = [Staging!NoJob EXCEPT !.id = id, !.row = r]]
    BY <1>7 DEF Staging!ImportPromote
  <2>2. CASE \E left : Staging!NextGroup(left)
    BY <1>3, <2>2
  <2>3. CASE /\ id \in DOMAIN stagingRows /\ Staging!Importable(r)
             /\ \E left : stagingExec' = [stagingExec EXCEPT !.pc = "look", !.left = left,
                                            !.job = [Staging!NoJob EXCEPT !.id = id, !.row = r]]
    <3>1. WellFormed(r) /\ r.state = "confirmed"
      BY <2>3, PromotedIsSound DEF Staged, Staging!Importable
    <3> HIDE DEF r
    <3>2. r.confirmed \in Volume
      BY <3>1 DEF WellFormed, Staging!Row
    <3>3. [Staging!NoJob EXCEPT !.id = id, !.row = r] = j
      BY JobTaken
    <3>4. Held(j) /\ ~j.created
      BY <3>1, <3>2, NewlyHeld
    <3> HIDE DEF j
    <3>5. \E left : stagingExec' = Process("look", e.ids, e.meant, left, j)
      BY <1>1, <2>3, <3>3 DEF Process
    <3>6. "look" \in Holding
      BY DEF Holding
    <3> QED
      BY <3>4, <3>5, <3>6, ProcessIsSane
  <2> QED
    BY <2>1, <2>2, <2>3
<1>8. ASSUME Staging!ImportLook PROVE Sane(stagingExec')
  <2>1. e.pc = "look" /\ (Staging!Step("add") \/ Staging!Step("refresh") \/ Staging!NextGroup(e.left))
    BY <1>8 DEF Staging!ImportLook
  <2>2. CASE Staging!Step("add")
    <3>1. stagingExec' = Process("add", e.ids, e.meant, e.left, e.job)
      BY <1>1, <2>2 DEF Staging!Step, Process
    <3>2. Held(e.job) /\ ~e.job.created /\ "add" \in Holding
      BY <2>1 DEF Importing, Holding
    <3> QED
      BY <3>1, <3>2, ProcessIsSane
  <2>3. "refresh" \in Holding \ {"look", "add"} /\ e.pc \in Holding
    BY <2>1 DEF Holding
  <2> QED
    BY <1>3, <1>4, <2>1, <2>2, <2>3
<1>9. ASSUME Staging!ImportAdd PROVE Sane(stagingExec')
  <2>1. \/ Staging!NextGroup(e.left)
        \/ stagingExec' = [stagingExec EXCEPT !.pc = "refresh", !.job.created = TRUE]
    BY <1>9 DEF Staging!ImportAdd
  <2>2. CASE stagingExec' = [stagingExec EXCEPT !.pc = "refresh", !.job.created = TRUE]
    <3> DEFINE j == [e.job EXCEPT !.created = TRUE]
    <3>1. Held(e.job)
      BY <1>9 DEF Staging!ImportAdd, Importing, Holding
    <3>2. Held(j)
      BY <3>1, Creating
    <3>3. stagingExec' = Process("refresh", e.ids, e.meant, e.left, j)
      BY <1>1, <2>2 DEF Process
    <3>4. "refresh" \in Holding \ {"look", "add"}
      BY DEF Holding
    <3> HIDE DEF j
    <3> QED
      BY <3>2, <3>3, <3>4, ProcessIsSane
  <2> QED
    BY <1>3, <2>1, <2>2
<1>10. ASSUME Staging!ImportRefresh \/ Staging!ImportFails \/ Staging!ImportFiles
                \/ Staging!ImportOutcome \/ Staging!ImportCheck \/ Staging!ImportRollback
       PROVE  Sane(stagingExec')
  <2>1. /\ e.pc \in Holding
        /\ \/ Staging!NextGroup(e.left) \/ Staging!Finally
           \/ Staging!Step("import") \/ Staging!Step("outcome") \/ Staging!Step("rollback")
    BY <1>10 DEF Staging!ImportRefresh, Staging!ImportFails, Staging!ImportFiles,
       Staging!ImportOutcome, Staging!ImportCheck, Staging!ImportRollback, Holding
  <2>2. {"import", "outcome", "rollback"} \subseteq Holding \ {"look", "add"}
    BY DEF Holding
  <2> QED
    BY <1>3, <1>4, <1>5, <2>1, <2>2
<1> QED
  BY <1>6, <1>7, <1>8, <1>9, <1>10 DEF Staging!Next, Staging!Import, stagingVars

LEMMA ImportingStep ==
  ASSUME Staged, Importing, [Staging!Next]_stagingVars
  PROVE  Importing'
<1>1. Sane(stagingExec')
  BY ImportMoves
<1>2. stagingRequest' # {} => stagingExec'.pc = "idle"
  <2>1. Staging!Import => stagingRequest' = stagingRequest /\ stagingExec.pc # "idle"
    BY DEF Staging!Import, Staging!ImportPromote,
       Staging!ImportLook, Staging!ImportAdd, Staging!ImportRefresh, Staging!ImportFails,
       Staging!ImportFiles, Staging!ImportOutcome, Staging!ImportCheck, Staging!ImportRollback
  <2>2. Staging!ExecuteEnqueue \/ Staging!Crash => stagingRequest' = {}
    BY DEF Staging!ExecuteEnqueue, Staging!Crash, Staging!NoRequest
  <2>3. Staging!ScanRequest \/ Staging!Scan \/ Staging!Match
          => stagingExec' = stagingExec /\ stagingRequest' = stagingRequest
    BY DEF Staging!ScanRequest, Staging!Scan, Staging!ScanStart, Staging!ScanPrune,
       Staging!ScanReplace, Staging!ScanPropose, Staging!ScanUnanswered, Staging!Match,
       Staging!MatchStart, Staging!MatchCommit
  <2>4. ASSUME NEW ids, Staging!ExecuteRequest(ids) PROVE stagingExec'.pc = "idle"
    BY <2>4 DEF Staging!ExecuteRequest, Staging!ImportLive, Importing
  <2>5. Staging!Operator => \/ stagingExec' = stagingExec /\ stagingRequest' = stagingRequest
                            \/ \E ids : Staging!ExecuteRequest(ids)
    BY DEF Staging!Operator, Staging!SeriesDelete, Staging!DiskChange,
       Staging!Confirm, Staging!Skip, Staging!BackToReview, Staging!Override, Staging!Patch
  <2> QED
    BY <2>1, <2>2, <2>3, <2>4, <2>5 DEF Staging!Next, Importing, stagingVars
<1> QED
  BY <1>1, <1>2 DEF Importing, Sane, Process

(* What an import of a group works on.                                      *)
LEMMA HeldGroup ==
  ASSUME Importing, stagingExec.pc \in Holding
  PROVE  /\ WellFormed(Staging!Job.row) /\ Staging!JobVolume \in Volume
         /\ Staging!JobVolume # NoVolume
         /\ Staging!Job.row.key \in MatchKey /\ Staging!Job.row.files \subseteq File
         /\ \A f \in Staging!Job.row.files : KeyOf[f] = Staging!Job.row.key
BY StagingFacts DEF Importing, Held, WellFormed, Staging!Row, Staging!Job, Staging!JobVolume

LEMMA SpentStep ==
  ASSUME Registered, [Staging!Next]_stagingVars
  PROVE  /\ stagingSpent' \in [{"act", "scan", "import", "fault", "crash"} -> Nat]
         /\ Staging!Crash => stagingSpent'.crash # stagingSpent.crash
<1> DEFINE kinds == {"act", "scan", "import", "fault", "crash"}
<1>1. stagingSpent \in [kinds -> Nat]
  BY DEF Registered
<1>2. ASSUME NEW k \in kinds, stagingSpent' = [stagingSpent EXCEPT ![k] = @ + 1]
      PROVE  /\ stagingSpent' \in [kinds -> Nat]
             /\ k = "crash" => stagingSpent'.crash # stagingSpent.crash
  BY <1>1, <1>2
<1>3. Staging!Crash => stagingSpent' = [stagingSpent EXCEPT !["crash"] = @ + 1]
  BY DEF Staging!Crash, Staging!Spend
<1>4. \/ stagingSpent' = stagingSpent
      \/ \E k \in kinds : stagingSpent' = [stagingSpent EXCEPT ![k] = @ + 1]
  <2>1. Staging!Operator => \/ stagingSpent' = stagingSpent
                            \/ \E k \in {"act", "import"} : Staging!Spend(k)
    BY DEF Staging!Operator, Staging!ExecuteRequest, Staging!SeriesDelete, Staging!DiskChange,
       Staging!Confirm, Staging!Skip, Staging!BackToReview, Staging!Override, Staging!Patch
  <2>2. Staging!Import => stagingSpent' = stagingSpent \/ Staging!Spend("fault")
    BY DEF Staging!Import, Staging!ImportPromote,
       Staging!ImportLook, Staging!ImportAdd, Staging!ImportRefresh, Staging!ImportFails,
       Staging!ImportFiles, Staging!ImportOutcome, Staging!ImportCheck, Staging!ImportRollback
  <2>3. Staging!Match \/ Staging!ExecuteEnqueue \/ Staging!ScanStart \/ Staging!ScanPrune
          \/ Staging!ScanReplace \/ Staging!ScanPropose => stagingSpent' = stagingSpent
    BY DEF Staging!Match, Staging!MatchStart, Staging!MatchCommit, Staging!ExecuteEnqueue,
       Staging!ScanStart, Staging!ScanPrune, Staging!ScanReplace, Staging!ScanPropose
  <2>4. /\ Staging!ScanUnanswered => Staging!Spend("fault")
        /\ Staging!ScanRequest => Staging!Spend("scan")
        /\ Staging!Crash => Staging!Spend("crash")
    BY DEF Staging!ScanUnanswered, Staging!ScanRequest, Staging!Crash
  <2>5. \A k : Staging!Spend(k) => stagingSpent' = [stagingSpent EXCEPT ![k] = @ + 1]
    BY DEF Staging!Spend
  <2>6. \/ stagingSpent' = stagingSpent \/ \E k \in kinds : Staging!Spend(k)
    BY <2>1, <2>2, <2>3, <2>4 DEF Staging!Next, Staging!Scan, stagingVars
  <2> QED
    BY <2>5, <2>6
<1> HIDE DEF kinds
<1>5. stagingSpent' \in [kinds -> Nat]
  BY <1>1, <1>2, <1>4
<1>6. Staging!Crash => stagingSpent'.crash # stagingSpent.crash
  BY <1>2, <1>3 DEF kinds
<1> QED
  BY <1>5, <1>6 DEF kinds

(* Where a file is registered and what becomes of a series.                 *)
LEMMA TrackedMoves ==
  ASSUME Registered, Importing, [Staging!Next]_stagingVars
  PROVE  /\ stagingTracked' \in [File -> Volume \cup {NoVolume}]
         /\ stagingTracked' = stagingTracked
              \/ Staging!ScanPrune \/ Staging!MatchCommit \/ Staging!ImportFiles
              \/ \E v \in Volume : Staging!Deleted(v)
<1>1. stagingTracked' = stagingTracked
        \/ Staging!ScanPrune \/ Staging!MatchCommit \/ Staging!ImportFiles
        \/ \E v \in Volume : Staging!Deleted(v)
  <2>1. Staging!Operator => \/ stagingTracked' = stagingTracked
                            \/ \E v \in Volume : Staging!Deleted(v)
    BY DEF Staging!Operator, Staging!ExecuteRequest, Staging!SeriesDelete, Staging!DiskChange,
       Staging!Confirm, Staging!Skip, Staging!BackToReview, Staging!Override, Staging!Patch
  <2>2. Staging!Import => \/ stagingTracked' = stagingTracked \/ Staging!ImportFiles
                          \/ Staging!ImportRollback
    BY DEF Staging!Import, Staging!ImportPromote,
       Staging!ImportLook, Staging!ImportAdd, Staging!ImportRefresh, Staging!ImportFails,
       Staging!ImportOutcome, Staging!ImportCheck
  <2>3. Staging!ImportRollback => \E v \in Volume : Staging!Deleted(v)
    BY HeldGroup DEF Staging!ImportRollback, Holding
  <2>4. Staging!MatchCommit \/ stagingTracked' = stagingTracked \/ ~Staging!Match
    BY DEF Staging!Match, Staging!MatchStart
  <2>5. Staging!ScanPrune \/ stagingTracked' = stagingTracked \/ ~Staging!Scan
    BY DEF Staging!Scan, Staging!ScanStart, Staging!ScanReplace, Staging!ScanPropose,
       Staging!ScanUnanswered
  <2>6. Staging!ScanRequest \/ Staging!ExecuteEnqueue \/ Staging!Crash => stagingTracked' = stagingTracked
    BY DEF Staging!ScanRequest, Staging!ExecuteEnqueue, Staging!Crash
  <2> QED
    BY <2>1, <2>2, <2>3, <2>4, <2>5, <2>6 DEF Staging!Next, stagingVars
<1>2. stagingTracked \in [File -> Volume \cup {NoVolume}]
  BY DEF Registered
<1>3. Staging!ScanPrune => stagingTracked' \in [File -> Volume \cup {NoVolume}]
  BY <1>2 DEF Staging!ScanPrune
<1>4. ASSUME NEW v \in Volume, Staging!Deleted(v) PROVE stagingTracked' \in [File -> Volume \cup {NoVolume}]
  BY <1>2, <1>4 DEF Staging!Deleted
<1>5. Staging!ImportFiles => stagingTracked' \in [File -> Volume \cup {NoVolume}]
  <2> SUFFICES ASSUME Staging!ImportFiles PROVE stagingTracked' \in [File -> Volume \cup {NoVolume}]
    OBVIOUS
  <2>1. Staging!JobVolume \in Volume
    BY HeldGroup DEF Staging!ImportFiles, Holding
  <2>2. \E fs : stagingTracked' = [f \in File |-> IF f \in fs THEN Staging!JobVolume ELSE stagingTracked[f]]
    BY DEF Staging!ImportFiles
  <2> QED
    BY <1>2, <2>1, <2>2
<1>6. Staging!MatchCommit => stagingTracked' \in [File -> Volume \cup {NoVolume}]
  <2> SUFFICES ASSUME Staging!MatchCommit PROVE stagingTracked' \in [File -> Volume \cup {NoVolume}]
    OBVIOUS
  <2>1. PICK v \in Volume, fs \in SUBSET File : stagingMatching = <<v, fs>>
    BY DEF Staging!MatchCommit, Registered
  <2>2. stagingMatching[1] = v /\ stagingMatching[2] = fs
    BY <2>1
  <2>3. \/ stagingTracked' = stagingTracked
        \/ stagingTracked' = [f \in File |-> IF f \in fs THEN v ELSE stagingTracked[f]]
    BY <2>2 DEF Staging!MatchCommit
  <2> QED
    BY <1>2, <2>3
<1> QED
  BY <1>1, <1>2, <1>3, <1>4, <1>5, <1>6

LEMMA SeriesMoves ==
  ASSUME Registered, Importing, [Staging!Next]_stagingVars
  PROVE  stagingSeries' \in [Volume -> Staging!Entry]
<1>1. stagingSeries' = stagingSeries
        \/ Staging!ImportAdd \/ Staging!ImportRefresh
        \/ (\E v \in Volume : Staging!Deleted(v)) \/ (\E v \in Volume : Staging!MatchStart(v))
  <2>1. Staging!Operator => \/ stagingSeries' = stagingSeries
                            \/ \E v \in Volume : Staging!Deleted(v)
    BY DEF Staging!Operator, Staging!ExecuteRequest, Staging!SeriesDelete, Staging!DiskChange,
       Staging!Confirm, Staging!Skip, Staging!BackToReview, Staging!Override, Staging!Patch
  <2>2. Staging!Import => \/ stagingSeries' = stagingSeries \/ Staging!ImportAdd
                          \/ Staging!ImportRefresh \/ Staging!ImportRollback
    BY DEF Staging!Import, Staging!ImportPromote, Staging!ImportLook, Staging!ImportFails,
       Staging!ImportFiles, Staging!ImportOutcome, Staging!ImportCheck
  <2>3. Staging!ImportRollback => \E v \in Volume : Staging!Deleted(v)
    BY HeldGroup DEF Staging!ImportRollback, Holding
  <2>4. Staging!Match => stagingSeries' = stagingSeries \/ \E v \in Volume : Staging!MatchStart(v)
    BY DEF Staging!Match, Staging!MatchCommit
  <2>5. Staging!Scan => stagingSeries' = stagingSeries
    BY DEF Staging!Scan, Staging!ScanStart, Staging!ScanPrune, Staging!ScanReplace,
       Staging!ScanPropose, Staging!ScanUnanswered
  <2>6. Staging!ScanRequest \/ Staging!ExecuteEnqueue \/ Staging!Crash => stagingSeries' = stagingSeries
    BY DEF Staging!ScanRequest, Staging!ExecuteEnqueue, Staging!Crash
  <2> QED
    BY <2>1, <2>2, <2>3, <2>4, <2>5, <2>6 DEF Staging!Next, stagingVars
<1>2. stagingSeries \in [Volume -> Staging!Entry]
  BY DEF Registered
<1>3. \A folder \in MatchKey \cup {Staging!OwnFolder, Staging!Absent} :
        [Staging!NoSeries EXCEPT !.folder = folder] \in Staging!Entry
  BY DEF Staging!NoSeries, Staging!Entry
<1>4. Staging!NoSeries \in Staging!Entry
  BY DEF Staging!NoSeries, Staging!Entry
<1>5. ASSUME NEW v \in Volume, Staging!Deleted(v) PROVE stagingSeries' \in [Volume -> Staging!Entry]
  BY <1>2, <1>4, <1>5 DEF Staging!Deleted
<1>6. ASSUME Staging!ImportAdd PROVE stagingSeries' \in [Volume -> Staging!Entry]
  <2>1. stagingSeries' = stagingSeries
        \/ \E folder \in {Staging!OwnFolder, Staging!Job.row.key} :
             stagingSeries' = [stagingSeries EXCEPT ![Staging!JobVolume] =
                                 [Staging!NoSeries EXCEPT !.folder = folder]]
    BY <1>6 DEF Staging!ImportAdd
  <2>2. Staging!Job.row.key \in MatchKey
    BY <1>6, HeldGroup DEF Staging!ImportAdd, Holding
  <2>3. ASSUME NEW folder \in {Staging!OwnFolder, Staging!Job.row.key}
        PROVE  [Staging!NoSeries EXCEPT !.folder = folder] \in Staging!Entry
    BY <1>3, <2>2
  <2> QED
    BY <1>2, <2>1, <2>3
<1>7. \A s \in Staging!Entry : /\ [s EXCEPT !.scan = FALSE] \in Staging!Entry
                              /\ [s EXCEPT !.issues = TRUE, !.scan = TRUE] \in Staging!Entry
  BY DEF Staging!Entry
<1>8. ASSUME Staging!ImportRefresh PROVE stagingSeries' \in [Volume -> Staging!Entry]
  <2> DEFINE v == Staging!JobVolume
  <2>1. v \in Volume
    BY <1>8, HeldGroup DEF Staging!ImportRefresh, Holding
  <2>2. \/ stagingSeries' = stagingSeries
        \/ stagingSeries' = [stagingSeries EXCEPT ![v].issues = TRUE, ![v].scan = TRUE]
    BY <1>8 DEF Staging!ImportRefresh
  <2> HIDE DEF v
  <2>3. stagingSeries' \in [Volume -> Staging!Entry]
    BY <1>2, <2>1, <2>2 DEF Staging!Entry
  <2> QED
    BY <2>3
<1>9. ASSUME NEW v \in Volume, Staging!MatchStart(v) PROVE stagingSeries' \in [Volume -> Staging!Entry]
  BY <1>2, <1>7, <1>9 DEF Staging!MatchStart
<1> QED
  BY <1>1, <1>2, <1>5, <1>6, <1>8, <1>9

LEMMA RegisteredStep ==
  ASSUME Registered, Importing, [Staging!Next]_stagingVars
  PROVE  Registered'
<1>1. stagingInPlace' = stagingInPlace
  BY DEF Staging!Next, Staging!Scan, Staging!Import, Staging!Match, Staging!Operator,
     Staging!ScanRequest, Staging!ScanStart, Staging!ScanPrune, Staging!ScanReplace,
     Staging!ScanPropose, Staging!ScanUnanswered, Staging!ExecuteEnqueue,
     Staging!ExecuteRequest, Staging!SeriesDelete, Staging!DiskChange, Staging!ImportPromote,
     Staging!ImportLook, Staging!ImportAdd, Staging!ImportRefresh, Staging!ImportFails,
     Staging!ImportFiles, Staging!ImportOutcome, Staging!ImportCheck, Staging!ImportRollback,
     Staging!MatchStart, Staging!MatchCommit, Staging!Crash, Staging!Confirm, Staging!Skip,
     Staging!BackToReview, Staging!Override, Staging!Patch, stagingVars
<1>2. stagingDisk' = stagingDisk \/ \E f \in File : Staging!DiskChange(f)
  BY DEF Staging!Next, Staging!Scan, Staging!Import, Staging!Match, Staging!Operator,
     Staging!ScanRequest, Staging!ScanStart, Staging!ScanPrune, Staging!ScanReplace,
     Staging!ScanPropose, Staging!ScanUnanswered, Staging!ExecuteEnqueue,
     Staging!ExecuteRequest, Staging!SeriesDelete, Staging!ImportPromote,
     Staging!ImportLook, Staging!ImportAdd, Staging!ImportRefresh, Staging!ImportFails,
     Staging!ImportFiles, Staging!ImportOutcome, Staging!ImportCheck, Staging!ImportRollback,
     Staging!MatchStart, Staging!MatchCommit, Staging!Crash, Staging!Confirm, Staging!Skip,
     Staging!BackToReview, Staging!Override, Staging!Patch, stagingVars
<1>3. stagingDisk' \subseteq File
  BY <1>2 DEF Staging!DiskChange, Registered
<1>4. \/ stagingMatching' = stagingMatching \/ stagingMatching' = <<>>
      \/ \E v \in Volume : Staging!MatchStart(v)
  BY DEF Staging!Next, Staging!Scan, Staging!Import, Staging!Match, Staging!Operator,
     Staging!ScanRequest, Staging!ScanStart, Staging!ScanPrune, Staging!ScanReplace,
     Staging!ScanPropose, Staging!ScanUnanswered, Staging!ExecuteEnqueue,
     Staging!ExecuteRequest, Staging!SeriesDelete, Staging!DiskChange, Staging!ImportPromote,
     Staging!ImportLook, Staging!ImportAdd, Staging!ImportRefresh, Staging!ImportFails,
     Staging!ImportFiles, Staging!ImportOutcome, Staging!ImportCheck, Staging!ImportRollback,
     Staging!MatchCommit, Staging!Crash, Staging!Confirm, Staging!Skip,
     Staging!BackToReview, Staging!Override, Staging!Patch, stagingVars
<1>5. ASSUME NEW v \in Volume, Staging!MatchStart(v)
      PROVE  \E fs \in SUBSET File : stagingMatching' = <<v, fs>>
  <2>1. \E fs \in SUBSET stagingDisk : stagingMatching' = <<v, fs>>
    BY <1>5 DEF Staging!MatchStart
  <2> QED
    BY <2>1 DEF Registered
<1>6. stagingMatching' # <<>> => \E v \in Volume, fs \in SUBSET File : stagingMatching' = <<v, fs>>
  BY <1>4, <1>5 DEF Registered
<1> QED
  BY <1>1, <1>3, <1>6, SpentStep, TrackedMoves, SeriesMoves DEF Registered

(* While requests and scans exclude each other, the rows an import names by *)
(* their ids are the groups the operator selected.                          *)
Chosen(ids) == /\ ids \subseteq DOMAIN stagingRows
               /\ \A id \in ids : stagingRows[id].key \in stagingExec.meant

Selected ==
  /\ stagingRequest # {} => stagingScan.pc = "idle" /\ Chosen(stagingRequest)
  /\ stagingExec.pc # "idle" => /\ stagingScan.pc \in {"idle", "queued"}
                                /\ stagingExec.ids # {} /\ Chosen(stagingExec.ids)
                                /\ stagingExec.left \subseteq stagingExec.ids
  /\ stagingExec.pc \in Holding => /\ stagingExec.job.id \in stagingExec.ids
                                   /\ Same(stagingRows[stagingExec.job.id], stagingExec.job.row)

(* What a step of an import makes of its process.                           *)
LEMMA ImportGoesOn ==
  ASSUME Importing, Staging!Import
  PROVE  \/ stagingExec'.pc = "idle"
         \/ /\ stagingExec'.ids = stagingExec.ids /\ stagingExec'.meant = stagingExec.meant
            /\ \/ stagingExec'.left = stagingExec.left
               \/ \E id : stagingExec'.left = stagingExec.left \ {id}
            /\ \/ stagingExec'.pc = "next"
               \/ /\ stagingExec.pc \in Holding
                  /\ stagingExec'.job.id = stagingExec.job.id
                  /\ stagingExec'.job.row = stagingExec.job.row
               \/ \E id \in stagingExec.left :
                    /\ id \in DOMAIN stagingRows
                    /\ stagingRows' = [stagingRows EXCEPT ![id] = Staging!Promoted(stagingRows[id])]
                    /\ stagingExec'.job.id = id
                    /\ stagingExec'.job.row = Staging!Promoted(stagingRows[id])
<1> DEFINE e == stagingExec
           Kept(ex) == ex.ids = e.ids /\ ex.meant = e.meant
<1>1. e = [pc |-> e.pc, ids |-> e.ids, meant |-> e.meant, left |-> e.left, job |-> e.job]
  BY DEF Importing
<1>2. ASSUME NEW left, Staging!NextGroup(left)
      PROVE  stagingExec'.pc = "idle" \/ (Kept(stagingExec') /\ stagingExec'.left = left /\ stagingExec'.pc = "next")
  <2>1. stagingExec' = Staging!IdleExec \/ stagingExec' = [e EXCEPT !.pc = "next", !.left = left, !.job = Staging!NoJob]
    BY <1>2 DEF Staging!NextGroup
  <2>2. Staging!IdleExec.pc = "idle"
    BY DEF Staging!IdleExec
  <2> QED
    BY <1>1, <2>1, <2>2
<1>3. ASSUME NEW pc, Staging!Step(pc)
      PROVE  Kept(stagingExec') /\ stagingExec'.left = e.left /\ stagingExec'.job = e.job
  BY <1>1, <1>3 DEF Staging!Step
<1>4. ASSUME Staging!ImportAdd
      PROVE  \/ Staging!NextGroup(e.left)
             \/ Kept(stagingExec') /\ stagingExec'.left = e.left /\ e.pc \in Holding
                  /\ stagingExec'.job.id = e.job.id /\ stagingExec'.job.row = e.job.row
  <2>1. e.pc \in Holding
    BY <1>4 DEF Staging!ImportAdd, Holding
  <2>2. CASE stagingExec' = [stagingExec EXCEPT !.pc = "refresh", !.job.created = TRUE]
    <3>1. Kept(stagingExec') /\ stagingExec'.left = e.left
            /\ stagingExec'.job = [e.job EXCEPT !.created = TRUE]
      BY <1>1, <2>2
    <3>2. Held(e.job)
      BY <2>1 DEF Importing
    <3> QED
      BY <2>1, <3>1, <3>2, Creating
  <2> QED
    BY <1>4, <2>2 DEF Staging!ImportAdd
<1>5. ASSUME \/ Staging!ImportLook \/ Staging!ImportRefresh \/ Staging!ImportFails \/ Staging!ImportFiles
             \/ Staging!ImportOutcome \/ Staging!ImportCheck \/ Staging!ImportRollback
      PROVE  /\ e.pc \in Holding
             /\ Staging!NextGroup(e.left) \/ \E pc : Staging!Step(pc)
  BY <1>5 DEF Staging!ImportLook, Staging!ImportRefresh, Staging!ImportFails, Staging!ImportFiles,
       Staging!ImportOutcome, Staging!ImportCheck, Staging!ImportRollback, Staging!Finally, Holding
<1>6. ASSUME NEW id \in e.left, Staging!ImportPromote(id)
      PROVE  \/ Staging!NextGroup(e.left \ {id})
             \/ /\ Kept(stagingExec') /\ stagingExec'.left = e.left \ {id}
                /\ id \in DOMAIN stagingRows
                /\ stagingRows' = [stagingRows EXCEPT ![id] = Staging!Promoted(stagingRows[id])]
                /\ stagingExec'.job.id = id
                /\ stagingExec'.job.row = Staging!Promoted(stagingRows[id])
  <2> DEFINE r == Staging!Promoted(stagingRows[id])
             j == [Staging!NoJob EXCEPT !.id = id, !.row = r]
  <2>1. \/ Staging!NextGroup(e.left \ {id})
        \/ /\ id \in DOMAIN stagingRows /\ stagingRows' = [stagingRows EXCEPT ![id] = r]
           /\ stagingExec' = [stagingExec EXCEPT !.pc = "look", !.left = stagingExec.left \ {id}, !.job = j]
    BY <1>6 DEF Staging!ImportPromote
  <2> HIDE DEF r
  <2>2. j.id = id /\ j.row = r
    BY JobTaken
  <2> HIDE DEF j
  <2>3. \/ Staging!NextGroup(e.left \ {id})
        \/ /\ id \in DOMAIN stagingRows /\ stagingRows' = [stagingRows EXCEPT ![id] = r]
           /\ Kept(stagingExec') /\ stagingExec'.left = e.left \ {id} /\ stagingExec'.job = j
    BY <1>1, <2>1
  <2> QED
    BY <2>2, <2>3 DEF r
<1> HIDE DEF Kept
<1>7. ASSUME Staging!ImportAdd
      PROVE  \/ stagingExec'.pc = "idle"
             \/ Kept(stagingExec') /\ stagingExec'.left = e.left /\ stagingExec'.pc = "next"
             \/ Kept(stagingExec') /\ stagingExec'.left = e.left /\ e.pc \in Holding
                  /\ stagingExec'.job.id = e.job.id /\ stagingExec'.job.row = e.job.row
  <2>1. CASE Staging!NextGroup(e.left)
    BY <1>2, <2>1
  <2> QED
    BY <1>4, <1>7, <2>1
<1>8. ASSUME \/ Staging!ImportLook \/ Staging!ImportRefresh \/ Staging!ImportFails \/ Staging!ImportFiles
             \/ Staging!ImportOutcome \/ Staging!ImportCheck \/ Staging!ImportRollback
      PROVE  \/ stagingExec'.pc = "idle"
             \/ Kept(stagingExec') /\ stagingExec'.left = e.left /\ stagingExec'.pc = "next"
             \/ Kept(stagingExec') /\ stagingExec'.left = e.left /\ e.pc \in Holding
                  /\ stagingExec'.job.id = e.job.id /\ stagingExec'.job.row = e.job.row
  BY <1>2, <1>3, <1>5, <1>8
<1>9. ASSUME NEW id \in e.left, Staging!ImportPromote(id)
      PROVE  \/ stagingExec'.pc = "idle"
             \/ Kept(stagingExec') /\ stagingExec'.left = e.left \ {id} /\ stagingExec'.pc = "next"
             \/ /\ Kept(stagingExec') /\ stagingExec'.left = e.left \ {id}
                /\ id \in DOMAIN stagingRows
                /\ stagingRows' = [stagingRows EXCEPT ![id] = Staging!Promoted(stagingRows[id])]
                /\ stagingExec'.job.id = id
                /\ stagingExec'.job.row = Staging!Promoted(stagingRows[id])
  BY <1>2, <1>6, <1>9
<1> QED
  BY <1>7, <1>8, <1>9 DEF Staging!Import, Kept

LEMMA SelectedStep ==
  ASSUME Staged, Scanning, Importing, Selected, ~Overlap, [Staging!Next]_stagingVars
  PROVE  Selected'
<1> DEFINE e == stagingExec
           Still(ids) == /\ ids \subseteq DOMAIN stagingRows'
                         /\ \A id \in ids : stagingRows'[id].key \in stagingExec'.meant
<1>1. CASE Staging!ScanReplace
  <2>1. stagingScan.pc = "replace" /\ UNCHANGED <<stagingRequest, stagingExec>>
    BY <1>1 DEF Staging!ScanReplace
  <2>2. stagingRequest = {} /\ e.pc = "idle" /\ e.pc \notin Holding
    BY <2>1 DEF Selected, Holding
  <2> QED
    BY <2>1, <2>2 DEF Selected
<1>2. CASE ~Staging!ScanReplace
  <2>1. Edited
    BY <1>2, RowsMove
  <2>2. ASSUME NEW ids, Chosen(ids), e'.meant = e.meant PROVE Still(ids)
    BY <2>1, <2>2 DEF Chosen, Edited, Same
  <2>3. ASSUME NEW id \in DOMAIN stagingRows, NEW r, Same(stagingRows[id], r) PROVE Same(stagingRows'[id], r)
    BY <2>1, <2>3 DEF Edited, Same
  <2>4. ASSUME stagingExec' = stagingExec, stagingRequest' = stagingRequest \/ stagingRequest' = {},
               \/ stagingScan' = stagingScan \/ stagingScan'.pc = "idle"
               \/ stagingScan'.pc = "queued" /\ stagingRequest = {}
               \/ stagingScan.pc \notin {"idle", "queued"}
               \/ stagingScan.pc # "idle" /\ e.pc = "idle"
        PROVE  Selected'
    <3>1. stagingRequest' # {} => stagingScan'.pc = "idle" /\ Still(stagingRequest')
      <4>1. SUFFICES ASSUME stagingRequest' # {}
                     PROVE  stagingScan'.pc = "idle" /\ Still(stagingRequest')
        OBVIOUS
      <4>2. stagingRequest' = stagingRequest /\ stagingScan.pc = "idle" /\ Chosen(stagingRequest)
        BY <2>4, <4>1 DEF Selected
      <4> QED
        BY <2>2, <2>4, <4>1, <4>2
    <3>2. e.pc # "idle" => stagingScan'.pc \in {"idle", "queued"} /\ Still(e.ids)
      BY <2>2, <2>4 DEF Selected
    <3>3. e.pc \in Holding => Same(stagingRows'[e.job.id], e.job.row)
      <4>1. SUFFICES ASSUME e.pc \in Holding PROVE Same(stagingRows'[e.job.id], e.job.row)
        OBVIOUS
      <4>2. e.job.id \in DOMAIN stagingRows /\ Same(stagingRows[e.job.id], e.job.row)
        BY <4>1 DEF Selected, Holding, Chosen
      <4> QED
        BY <2>3, <4>2
    <3> QED
      BY <2>4, <3>1, <3>2, <3>3 DEF Selected, Chosen
  <2>5. ASSUME stagingExec'.pc = "idle", stagingRequest' = {} PROVE Selected'
    BY <2>5 DEF Selected, Holding
  <2>6. CASE Staging!Crash
    <3>1. stagingRequest' = {} /\ (stagingExec' = stagingExec \/ stagingExec'.pc = "idle")
          /\ (stagingScan' = stagingScan \/ stagingScan'.pc = "idle")
      BY <2>6 DEF Staging!Crash, Staging!NoRequest, Staging!IdleExec, Staging!IdleScan
    <3> QED
      BY <2>4, <2>5, <3>1
  <2>7. CASE Staging!ScanRequest
    <3>1. /\ stagingExec' = stagingExec /\ stagingRequest' = stagingRequest /\ stagingRequest = {}
          /\ stagingScan' = [stagingScan EXCEPT !.pc = "queued"]
      BY <2>7 DEF Staging!ScanRequest, Staging!NoRequest
    <3>2. stagingScan'.pc = "queued"
      BY <3>1 DEF Scanning
    <3> QED
      BY <2>4, <3>1, <3>2
  <2>8. CASE Staging!ScanStart
    <3>1. stagingExec' = stagingExec /\ stagingRequest' = stagingRequest /\ stagingScan.pc = "queued"
      BY <2>8 DEF Staging!ScanStart
    <3>2. CASE e.pc = "idle"
      BY <2>4, <3>1, <3>2
    <3>3. CASE e.pc # "idle"
      <4>1. Staging!ExecutePending
        BY <3>3 DEF Selected, Chosen, Staging!ExecutePending, Staging!ImportLive
      <4>2. stagingScan'.pc = "idle"
        BY <2>8, <4>1 DEF Staging!ScanStart, Staging!IdleScan
      <4> QED
        BY <2>4, <3>1, <4>2
    <3> QED
      BY <3>2, <3>3
  <2>9. CASE Staging!ScanPrune \/ Staging!ScanPropose \/ Staging!ScanUnanswered
    <3>1. stagingExec' = stagingExec /\ stagingRequest' = stagingRequest /\ stagingScan.pc \notin {"idle", "queued"}
      BY <2>9 DEF Staging!ScanPrune, Staging!ScanPropose, Staging!ScanUnanswered
    <3> QED
      BY <2>4, <3>1
  <2>10. CASE Staging!Match \/ UNCHANGED stagingVars
    <3>1. stagingExec' = stagingExec /\ stagingRequest' = stagingRequest /\ stagingScan' = stagingScan
      BY <2>10 DEF Staging!Match, Staging!MatchStart, Staging!MatchCommit, stagingVars
    <3> QED
      BY <2>4, <3>1
  <2>11. ASSUME NEW ids, ids \subseteq DOMAIN stagingRows, Staging!ExecuteRequest(ids) PROVE Selected'
    <3>1. /\ stagingRequest' = ids /\ stagingRows' = stagingRows /\ stagingScan' = stagingScan
          /\ stagingScan.pc = "idle" /\ e.pc = "idle"
          /\ stagingExec' = [stagingExec EXCEPT !.meant = {stagingRows[id].key : id \in ids}]
      BY <2>11 DEF Staging!ExecuteRequest, Staging!ImportLive, Staging!ScanLive
    <3>2. stagingExec'.pc = "idle" /\ stagingExec'.meant = {stagingRows[id].key : id \in ids}
      BY <3>1 DEF Importing
    <3>3. Still(ids)
      BY <2>11, <3>1, <3>2
    <3> QED
      BY <3>1, <3>2, <3>3 DEF Selected, Chosen, Holding
  <2>12. CASE Staging!Operator
    <3>1. \/ /\ stagingExec' = stagingExec /\ stagingRequest' = stagingRequest
             /\ stagingScan' = stagingScan
          \/ \E ids \in SUBSET DOMAIN stagingRows : Staging!ExecuteRequest(ids)
      BY <2>12 DEF Staging!Operator, Staging!SeriesDelete, Staging!DiskChange,
         Staging!Confirm, Staging!Skip, Staging!BackToReview, Staging!Override, Staging!Patch
    <3> QED
      BY <2>4, <2>11, <3>1
  <2>13. CASE Staging!ExecuteEnqueue
    <3>1. /\ stagingRequest # {} /\ stagingRequest' = {} /\ stagingScan' = stagingScan
          /\ stagingExec' = [stagingExec EXCEPT !.pc = "next", !.ids = stagingRequest, !.left = stagingRequest]
      BY <2>13 DEF Staging!ExecuteEnqueue, Staging!NoRequest
    <3>2. /\ stagingExec'.pc = "next" /\ stagingExec'.ids = stagingRequest
          /\ stagingExec'.left = stagingRequest /\ stagingExec'.meant = stagingExec.meant
      BY <3>1 DEF Importing
    <3>3. stagingScan.pc = "idle" /\ Still(stagingRequest)
      BY <2>2, <3>1, <3>2 DEF Selected
    <3> QED
      BY <3>1, <3>2, <3>3 DEF Selected, Holding, Chosen
  <2>14. CASE Staging!Import
    <3>1. stagingRequest' = stagingRequest /\ stagingScan' = stagingScan /\ e.pc # "idle"
      BY <2>14 DEF Staging!Import, Staging!ImportPromote,
         Staging!ImportLook, Staging!ImportAdd, Staging!ImportRefresh, Staging!ImportFails,
         Staging!ImportFiles, Staging!ImportOutcome, Staging!ImportCheck, Staging!ImportRollback
    <3>2. stagingRequest = {}
      BY <3>1 DEF Importing
    <3>3. CASE stagingExec'.pc = "idle"
      BY <2>5, <3>1, <3>2, <3>3
    <3>4. CASE stagingExec'.pc # "idle"
      <4>1. /\ stagingScan.pc \in {"idle", "queued"} /\ e.ids # {} /\ Chosen(e.ids) /\ e.left \subseteq e.ids
        BY <3>1 DEF Selected
      <4>2. e'.ids = e.ids /\ e'.meant = e.meant /\ e'.left \subseteq e.left
        BY <2>14, <3>4, ImportGoesOn
      <4>3. Still(e.ids)
        BY <2>2, <4>1, <4>2
      <4>4. e'.pc \in Holding => e'.job.id \in e.ids /\ Same(stagingRows'[e'.job.id], e'.job.row)
        <5>1. SUFFICES ASSUME e'.pc \in Holding
                       PROVE  e'.job.id \in e.ids /\ Same(stagingRows'[e'.job.id], e'.job.row)
          OBVIOUS
        <5>2. \/ /\ e.pc \in Holding
                 /\ e'.job.id = e.job.id /\ e'.job.row = e.job.row
              \/ \E id \in e.left :
                   /\ id \in DOMAIN stagingRows
                   /\ stagingRows' = [stagingRows EXCEPT ![id] = Staging!Promoted(stagingRows[id])]
                   /\ e'.job.id = id /\ e'.job.row = Staging!Promoted(stagingRows[id])
          BY <2>14, <3>4, <5>1, ImportGoesOn DEF Holding
        <5>3. CASE e.pc \in Holding /\ e'.job.id = e.job.id /\ e'.job.row = e.job.row
          <6>1. e.job.id \in e.ids /\ e.job.id \in DOMAIN stagingRows /\ Same(stagingRows[e.job.id], e.job.row)
            BY <4>1, <5>3 DEF Selected, Chosen
          <6> QED
            BY <2>3, <5>3, <6>1
        <5>4. ASSUME NEW id \in e.left, id \in DOMAIN stagingRows,
                     stagingRows' = [stagingRows EXCEPT ![id] = Staging!Promoted(stagingRows[id])],
                     e'.job.id = id, e'.job.row = Staging!Promoted(stagingRows[id])
              PROVE  e'.job.id \in e.ids /\ Same(stagingRows'[e'.job.id], e'.job.row)
          BY <4>1, <5>4 DEF Same
        <5> QED
          BY <5>2, <5>3, <5>4
      <4> QED
        BY <3>1, <3>2, <4>1, <4>2, <4>3, <4>4 DEF Selected, Chosen
    <3> QED
      BY <3>3, <3>4
  <2> QED
    BY <1>2, <2>6, <2>7, <2>8, <2>9, <2>10, <2>12, <2>13, <2>14 DEF Staging!Next, Staging!Scan
<1> QED
  BY <1>1, <1>2

(* The inductive invariant of the import of a library.                      *)
StagingInv == Staged /\ Scanning /\ Importing /\ Registered

LEMMA StagingInit == ASSUME Staging!Init PROVE StagingInv /\ Selected
<1>1. stagingRows = <<>> /\ DOMAIN stagingRows = {}
  BY DEF Staging!Init
<1>2. Staged
  BY <1>1 DEF Staged
<1>3. Scanning
  BY DEF Staging!Init, Staging!IdleScan, Scanning
<1>4. Importing
  BY DEF Staging!Init, Staging!IdleExec, Staging!NoJob, Staging!NoRequest, Importing, Holding
<1>5. Registered
  <2>1. /\ stagingInPlace \in BOOLEAN /\ stagingDisk \subseteq File /\ stagingMatching = <<>>
        /\ stagingTracked \in [File -> Volume \cup {NoVolume}]
    BY StagingFacts DEF Staging!Init
  <2>2. stagingSeries \in [Volume -> Staging!Entry]
    BY DEF Staging!Init, Staging!NoSeries, Staging!Entry
  <2>3. stagingSpent \in [{"act", "scan", "import", "fault", "crash"} -> Nat]
    <3>1. DOMAIN Staging!Bound = {"act", "scan", "import", "fault", "crash"}
      BY DEF Staging!Bound
    <3> QED
      BY <3>1 DEF Staging!Init
  <2> QED
    BY <2>1, <2>2, <2>3 DEF Registered
<1>6. Selected
  BY DEF Staging!Init, Staging!IdleExec, Staging!NoRequest, Selected, Holding
<1> QED
  BY <1>2, <1>3, <1>4, <1>5, <1>6 DEF StagingInv

LEMMA StagingStep ==
  ASSUME StagingInv, [Staging!Next]_stagingVars
  PROVE  StagingInv'
BY StagedStep, ScanningStep, ImportingStep, RegisteredStep DEF StagingInv

(* An import that is not interrupted files into the groups selected, and    *)
(* its verdict lands on the one it imported.                                *)
LEMMA SelectionStep ==
  ASSUME StagingInv, Selected, Staging!Next
  PROVE  Staging!HonoursSelection
<1> SUFFICES ASSUME stagingSpent'.crash = stagingSpent.crash
             PROVE  Staging!FilesSelected /\ Staging!VerdictLands
  BY DEF Staging!HonoursSelection
<1>0. Staged /\ Scanning /\ Importing /\ Registered /\ ~Staging!Crash
  BY SpentStep DEF StagingInv
<1>1. Staging!FilesSelected
  <2> SUFFICES ASSUME stagingExec.pc = "import", stagingExec'.pc # "import",
                      NEW f \in File, stagingTracked'[f] # stagingTracked[f]
               PROVE  KeyOf[f] \in stagingExec.meant
    BY DEF Staging!FilesSelected
  <2>1. Staging!Import
    <3>1. Staging!ScanRequest \/ Staging!Scan \/ Staging!Match => stagingExec' = stagingExec
      BY DEF Staging!ScanRequest, Staging!Scan, Staging!ScanStart, Staging!ScanPrune,
         Staging!ScanReplace, Staging!ScanPropose, Staging!ScanUnanswered, Staging!Match,
         Staging!MatchStart, Staging!MatchCommit
    <3>2. ~Staging!ExecuteEnqueue /\ \A ids : ~Staging!ExecuteRequest(ids)
      BY <1>0 DEF Staging!ExecuteEnqueue, Staging!NoRequest, Importing, Staging!ExecuteRequest,
         Staging!ImportLive
    <3>3. Staging!Operator => stagingExec' = stagingExec
      BY <3>2 DEF Staging!Operator, Staging!SeriesDelete, Staging!DiskChange,
         Staging!Confirm, Staging!Skip, Staging!BackToReview, Staging!Override, Staging!Patch
    <3> QED
      BY <1>0, <3>1, <3>2, <3>3 DEF Staging!Next
  <2>2. Staging!ImportFiles
    BY <2>1 DEF Staging!Import, Staging!ImportPromote, Staging!ImportLook, Staging!ImportAdd,
       Staging!ImportRefresh, Staging!ImportFails, Staging!ImportOutcome, Staging!ImportCheck,
       Staging!ImportRollback
  <2>3. f \in Staging!Job.row.files
    BY <1>0, <2>2 DEF Staging!ImportFiles, Registered
  <2>4. stagingExec.pc \in Holding /\ stagingExec.pc # "idle"
    BY DEF Holding
  <2>5. KeyOf[f] = Staging!Job.row.key
    BY <1>0, <2>3, <2>4, HeldGroup
  <2>6. /\ stagingExec.job.id \in stagingExec.ids
        /\ stagingRows[stagingExec.job.id].key = Staging!Job.row.key
        /\ stagingRows[stagingExec.job.id].key \in stagingExec.meant
    BY <2>4 DEF Selected, Chosen, Same, Staging!Job
  <2> QED
    BY <2>5, <2>6
<1>2. Staging!VerdictLands
  <2> SUFFICES ASSUME NEW i \in DOMAIN stagingRows \cap DOMAIN stagingRows',
                      stagingRows'[i].state = "imported", stagingRows[i].state # "imported"
               PROVE  /\ stagingRows[i].key = Staging!Job.row.key
                      /\ stagingRows[i].files = Staging!Job.row.files
    BY DEF Staging!VerdictLands
  <2>1. Verdict(i)
    BY <1>0, StagedStep
  <2>2. i = stagingExec.job.id /\ stagingExec.pc \in Holding
    BY <2>1 DEF Verdict, Staging!ImportOutcome, Holding
  <2> QED
    BY <2>2 DEF Selected, Same, Staging!Job
<1> QED
  BY <1>1, <1>2

(* The series of a group that got no file goes with the group.              *)
LEMMA ShellStep ==
  ASSUME StagingInv, Staging!Next
  PROVE  Staging!LeavesNoShell
<1> SUFFICES ASSUME stagingExec.job.created, stagingExec'.job # stagingExec.job,
                    stagingSpent'.crash = stagingSpent.crash
             PROVE  \/ stagingSeries'[Staging!JobVolume].folder = Staging!Absent
                    \/ \E f \in File : stagingTracked'[f] = Staging!JobVolume
  BY DEF Staging!LeavesNoShell
<1>0. Importing /\ Registered /\ ~Staging!Crash
  BY SpentStep DEF StagingInv
<1>1. stagingExec.pc \in Holding \ {"look", "add"}
  BY <1>0 DEF Importing, Staging!NoJob
<1>2. Staging!Import
  <2>1. Staging!ScanRequest \/ Staging!Scan \/ Staging!Match => stagingExec' = stagingExec
    BY DEF Staging!ScanRequest, Staging!Scan, Staging!ScanStart, Staging!ScanPrune,
       Staging!ScanReplace, Staging!ScanPropose, Staging!ScanUnanswered, Staging!Match,
       Staging!MatchStart, Staging!MatchCommit
  <2>2. ~Staging!ExecuteEnqueue /\ \A ids : ~Staging!ExecuteRequest(ids)
    BY <1>0, <1>1 DEF Staging!ExecuteEnqueue, Staging!NoRequest, Importing, Staging!ExecuteRequest,
       Staging!ImportLive, Holding
  <2>3. Staging!Operator => stagingExec' = stagingExec
    BY <2>2 DEF Staging!Operator, Staging!SeriesDelete, Staging!DiskChange,
       Staging!Confirm, Staging!Skip, Staging!BackToReview, Staging!Override, Staging!Patch
  <2> QED
    BY <1>0, <2>1, <2>2, <2>3 DEF Staging!Next
<1>3. \A pc : Staging!Step(pc) => stagingExec'.job = stagingExec.job
  BY <1>0 DEF Staging!Step, Importing
<1>4. Staging!ImportCheck \/ Staging!ImportRollback
  <2>1. ~(\E id : Staging!ImportPromote(id)) /\ ~Staging!ImportLook /\ ~Staging!ImportAdd
    BY <1>1 DEF Staging!ImportPromote, Staging!ImportLook, Staging!ImportAdd, Holding
  <2>2. Staging!Finally => stagingExec'.job = stagingExec.job
    BY <1>3 DEF Staging!Finally, Staging!Job
  <2>3. ~Staging!ImportRefresh /\ ~Staging!ImportFails /\ ~Staging!ImportFiles /\ ~Staging!ImportOutcome
    BY <1>1, <1>3, <2>2 DEF Staging!ImportRefresh, Staging!ImportFails, Staging!ImportFiles,
       Staging!ImportOutcome
  <2> QED
    BY <1>2, <2>1, <2>3 DEF Staging!Import
<1>5. CASE Staging!ImportCheck
  <2>1. stagingTracked' = stagingTracked /\ Staging!FilesOf(Staging!JobVolume) # {}
    BY <1>3, <1>5 DEF Staging!ImportCheck
  <2> QED
    BY <2>1 DEF Staging!FilesOf
<1>6. CASE Staging!ImportRollback
  <2>1. Staging!JobVolume \in Volume
    BY <1>0, <1>1, HeldGroup
  <2>2. stagingSeries' = [stagingSeries EXCEPT ![Staging!JobVolume] = Staging!NoSeries]
    BY <1>6 DEF Staging!ImportRollback, Staging!Deleted
  <2>3. stagingSeries'[Staging!JobVolume] = Staging!NoSeries
    BY <1>0, <2>1, <2>2 DEF Registered
  <2> QED
    BY <2>3 DEF Staging!NoSeries
<1> QED
  BY <1>4, <1>5, <1>6

(* A scan changes no decision, and a group that failed leaves no empty      *)
(* series behind, whatever overlaps.                                        *)
THEOREM DecisionsSurviveScans ==
  Spec => /\ [](focus = "staging" => Staging!TypeOK)
          /\ Staging!DecisionsKept /\ Staging!NoShellLeft
<1>1. Init => StagingInv
  BY StagingInit DEF Init
<1>2. StagingInv /\ [Next]_vars => StagingInv'
  BY OneActs, StagingStep
<1>3. StagingInv => (focus = "staging" => Staging!TypeOK)
  BY DEF StagingInv, Registered, Staged, WellFormed, Staging!TypeOK
<1>4. StagingInv /\ [Next]_vars => [Staging!KeepsDecisions]_(Staging!vars)
  BY OneActs, DecisionStep DEF StagingInv
<1>5. StagingInv /\ [Next]_vars => [Staging!LeavesNoShell]_(Staging!vars)
  BY OneActs, ShellStep DEF stagingVars, Staging!vars
<1> QED
  BY <1>1, <1>2, <1>3, <1>4, <1>5, PTL DEF Spec, Staging!DecisionsKept, Staging!NoShellLeft

(* And when no import is asked for while a scan is live, nor a scan while   *)
(* one is being asked for, an import files what the operator selected.      *)
THEOREM ImportsAsDecided ==
  ASSUME ~Overlap
  PROVE  Spec => ImportedAsDecided
<1>1. Init => StagingInv /\ Selected
  BY StagingInit DEF Init
<1>2. StagingInv /\ Selected /\ [Next]_vars => StagingInv' /\ Selected'
  BY OneActs, StagingStep, SelectedStep DEF StagingInv
<1>3. StagingInv /\ Selected /\ [Next]_vars => [Staging!HonoursSelection]_(Staging!vars)
  BY OneActs, SelectionStep DEF stagingVars, Staging!vars
<1>4. Spec => /\ [](focus = "staging" => Staging!TypeOK)
              /\ Staging!DecisionsKept /\ Staging!NoShellLeft
  BY DecisionsSurviveScans
<1>5. Spec => Staging!SelectionHonoured
  BY <1>1, <1>2, <1>3, PTL DEF Spec, Staging!SelectionHonoured
<1> QED
  BY <1>4, <1>5, PTL DEF ImportedAsDecided

===============================================================================
