-------------------------------- MODULE Edge --------------------------------
(***************************************************************************)
(* The listener: HTTP requests under their limits (api/limits.py,          *)
(* api/posture.py), the write transaction a handler runs and the events it *)
(* announces once committed (db/engine.py, events/), and the WebSocket     *)
(* feed that carries them to browsers (ws/).                               *)
(*                                                                         *)
(* A request writes one row or none; a message of the feed names a row,    *)
(* and a browser that gets one fetches that row again.  A request may be   *)
(* cancelled at every await: by its time limit or by a lost connection.    *)
(***************************************************************************)
EXTENDS Integers, FiniteSets, SequencesExt

CONSTANTS
  Reqs,               \* the requests that arrive, each once
  Writes,             \* [Reqs -> sets of Rows, or "none"]: what may be written
  Peer,               \* [Reqs -> address]
  Sizes,              \* [Reqs -> sets]: how requests may exceed the caps
  Rows, Socks,
  RateMax, RateClients,          \* requests in a window, addresses followed
  QueueMax, MaxConnections, InboundMax,
  CancelledCommits,   \* what a cancelled commit does: "lands", "rolls back"
  MaxFaults           \* bound

VARIABLES
  req,                \* the request: where its handler is, answers started
  rate,               \* admitted requests by address, the coldest first
  writers,            \* the write lock: its holder, then its waiters
  row,                \* committed versions
  pending, armed,     \* the messages of the open debounce window
  sock,               \* [pc, queue, dropped, heard] of each socket
  view, due,          \* what a socket's browser shows, and was promised
  faults

vars == <<req, rate, writers, row, pending, armed, sock, view, due,
          faults>>
feed == <<pending, armed, sock, view, due>>

Idle == [pc |-> "new", starts |-> 0, expired |-> FALSE, size |-> "ok",
         row |-> "none"]
Off == [pc |-> "off", queue |-> <<>>, dropped |-> FALSE, heard |-> 0]
Nothing == [x \in Rows |-> 0]

\* Where a handler that has not answered yet may be.
Before == {"receiving", "handling", "waiting", "writing", "committing",
           "responding"}
Ended == {"done", "gone"}
Registered(s) == sock[s].pc \in {"accepting", "open"} /\ ~sock[s].dropped
Connections == {s \in Socks : Registered(s)}

TypeOK ==
  /\ \A r \in Reqs : req[r].pc \in {"new", "streaming"} \cup Before \cup Ended
  /\ \A s \in Socks : Len(sock[s].queue) <= QueueMax
  /\ Cardinality(Connections) <= MaxConnections

Init ==
  /\ req = [r \in Reqs |-> Idle]
  /\ rate = <<>> /\ writers = <<>> /\ row = Nothing
  /\ pending = <<>> /\ armed = FALSE
  /\ sock = [s \in Socks |-> Off]
  /\ view = [s \in Socks |-> Nothing] /\ due = [s \in Socks |-> Nothing]
  /\ faults = 0

EdgeAssumption ==
  /\ "none" \notin Rows
  /\ \A r \in Reqs : Writes[r] \subseteq Rows \cup {"none"}
  /\ {QueueMax, MaxConnections, MaxFaults} \subseteq Nat
  /\ IsFiniteSet(Socks)

Fault == faults < MaxFaults /\ faults' = faults + 1
Go(r, pc) == req' = [req EXCEPT ![r].pc = pc]

(***************************************************************************)
(* The limits: refused before the program sees the request.                *)
(***************************************************************************)
\* A refusal is a whole response.
Refusal(q) == [q EXCEPT !.pc = "done", !.starts = @ + 1]
Refused(r) == [req EXCEPT ![r] = Refusal(@)]

StampsOf(p) ==
  LET own == SelectSeq(rate, LAMBDA e : e.peer = p)
  IN IF own = <<>> THEN 0 ELSE own[1].n
Newest(s, n) == IF Len(s) > n THEN SubSeq(s, Len(s) - n + 1, Len(s)) ELSE s
\* The address is warmed, and one address too many forgets the coldest.
Warmed(p, n) ==
  Newest(Append(SelectSeq(rate, LAMBDA e : e.peer # p), [peer |-> p, n |-> n]),
         RateClients)

Arrive(r) ==
  /\ req[r].pc = "new"
  /\ \E how \in Sizes[r], x \in Writes[r] :
       LET p == Peer[r]
           allowed == StampsOf(p) < RateMax
           q == [req[r] EXCEPT !.size = how, !.row = x]
       IN /\ rate' = IF how = "headers" THEN rate
                     ELSE Warmed(p, StampsOf(p) + IF allowed THEN 1 ELSE 0)
          /\ req' = IF how \in {"headers", "declared"} \/ ~allowed
                    THEN [req EXCEPT ![r] = Refusal(q)]
                    ELSE [req EXCEPT ![r] = [q EXCEPT !.pc = "receiving"]]
  /\ UNCHANGED <<writers, row, feed, faults>>

\* The oldest stamp of an address leaves the window.
WindowPasses ==
  /\ \E i \in DOMAIN rate :
       /\ rate[i].n > 0
       /\ rate' = [rate EXCEPT ![i].n = @ - 1]
  /\ UNCHANGED <<req, writers, row, feed, faults>>

(***************************************************************************)
(* The handler, and the write transaction it runs.                         *)
(***************************************************************************)
\* A body that turns out too large ends the handler.
Receive(r) ==
  /\ req[r].pc = "receiving"
  /\ req' = IF req[r].size = "streamed" THEN Refused(r)
            ELSE [req EXCEPT ![r].pc = "handling"]
  /\ UNCHANGED <<rate, writers, row, feed, faults>>

Handle(r) ==
  /\ req[r].pc = "handling"
  /\ IF req[r].row = "none" THEN Go(r, "responding") /\ UNCHANGED writers
     ELSE Go(r, "waiting") /\ writers' = Append(writers, r)
  /\ UNCHANGED <<rate, row, feed, faults>>

Write(r) ==
  /\ req[r].pc = "waiting" /\ Head(writers) = r /\ Go(r, "writing")
  /\ UNCHANGED <<rate, writers, row, feed, faults>>

\* Whatever ends a transaction lets the next writer in.
Leaves(r) ==
  IF \E i \in DOMAIN writers : writers[i] = r
  THEN \E i \in DOMAIN writers : writers[i] = r /\ writers' = RemoveAt(writers, i)
  ELSE UNCHANGED writers

CommitBegin(r) ==
  /\ req[r].pc = "writing" /\ Go(r, "committing")
  /\ UNCHANGED <<rate, writers, row, feed, faults>>

\* The bus runs the feed's subscriber inline: a later event of the same row
\* replaces the message of the open window, another row has its own.
CoalescedByName(x, v) == <<[row |-> x, v |-> v]>>
Coalesced(x, v) ==
  IF \E i \in DOMAIN pending : pending[i].row = x
  THEN [i \in DOMAIN pending |->
          IF pending[i].row = x THEN [row |-> x, v |-> v] ELSE pending[i]]
  ELSE Append(pending, [row |-> x, v |-> v])

OnEvent(x, v) == pending' = Coalesced(x, v) /\ armed' = TRUE

\* The commit is durable, and what it changed is announced.
CommitDone(r) ==
  LET x == req[r].row
      v == row[x] + 1
  IN /\ req[r].pc = "committing" /\ Go(r, "responding")
     /\ row' = [row EXCEPT ![x] = v]
     /\ Leaves(r)
     /\ OnEvent(x, v)
     /\ due' = [s \in Socks |->
          IF Registered(s) THEN [due[s] EXCEPT ![x] = v] ELSE due[s]]
     /\ UNCHANGED <<rate, sock, view, faults>>

\* The handler raises, or the database stays locked through every retry of
\* the commit: the transaction is rolled back and the answer is an error.
HandlerFails(r) ==
  /\ req[r].pc \in {"handling", "writing", "committing"} /\ Fault
  /\ req' = Refused(r)
  /\ Leaves(r)
  /\ UNCHANGED <<rate, row, feed>>

Respond(r) ==
  /\ req[r].pc = "responding"
  /\ req' = [req EXCEPT ![r].pc = "streaming", ![r].starts = @ + 1]
  /\ UNCHANGED <<rate, writers, row, feed, faults>>

\* The rest of the response, or an error in the middle of it: too late for
\* another status, the connection is torn down.
Finish(r) ==
  /\ req[r].pc = "streaming" /\ Go(r, "done")
  /\ UNCHANGED <<rate, writers, row, feed, faults>>

(***************************************************************************)
(* The time limit, and a lost connection.                                  *)
(***************************************************************************)
\* The wait ends with neither an answer nor the end of the handler.
Timeout(r) ==
  /\ req[r].pc \in Before /\ ~req[r].expired
  /\ req' = [req EXCEPT ![r].expired = TRUE]
  /\ UNCHANGED <<rate, writers, row, feed, faults>>

\* Cancelling a handler undoes its transaction and frees the lock; a commit
\* already handed to the database thread may land all the same.
Cancelled(r) ==
  /\ Leaves(r)
  /\ IF req[r].pc = "committing"
     THEN \E end \in CancelledCommits :
            row' = IF end = "lands" THEN [row EXCEPT ![req[r].row] = @ + 1]
                   ELSE row
     ELSE UNCHANGED row

\* The handler may have moved on, even answered, before it is cancelled.
AnswersAlways(r) == 1
TimeoutAnswer(r) == IF req[r].starts = 0 THEN 1 ELSE 0

TimeoutCancel(r) ==
  /\ req[r].expired /\ req[r].pc \in Before \cup {"streaming"}
  /\ Cancelled(r)
  /\ req' = [req EXCEPT ![r].pc = "done", ![r].starts = @ + TimeoutAnswer(r)]
  /\ UNCHANGED <<rate, feed, faults>>

Disconnect(r) ==
  /\ req[r].pc \in Before \cup {"streaming"} /\ Fault
  /\ Cancelled(r) /\ Go(r, "gone")
  /\ UNCHANGED <<rate, feed>>

(***************************************************************************)
(* The feed.                                                               *)
(***************************************************************************)
\* The window closes: every message is offered to every socket registered,
\* and a socket whose queue is full is dropped.
Offered(s) ==
  LET room == QueueMax - Len(sock[s].queue)
  IN IF Len(pending) > room
     THEN [sock[s] EXCEPT !.queue = @ \o SubSeq(pending, 1, room),
                          !.dropped = TRUE]
     ELSE [sock[s] EXCEPT !.queue = @ \o pending]

Flush ==
  /\ armed /\ armed' = FALSE /\ pending' = <<>>
  /\ sock' = [s \in Socks |-> IF Registered(s) THEN Offered(s) ELSE sock[s]]
  /\ UNCHANGED <<req, rate, writers, row, view, due, faults>>

\* A socket is registered, below the cap, before its handshake completes.
Handshake(s) ==
  /\ sock[s].pc = "off"
  /\ Cardinality(Connections) < MaxConnections
  /\ sock' = [sock EXCEPT ![s].pc = "accepting"]
  /\ UNCHANGED <<req, rate, writers, row, pending, armed, view, due,
                 faults>>

\* The page fetched what it shows before its socket opened.
Accept(s) ==
  /\ sock[s].pc = "accepting"
  /\ sock' = [sock EXCEPT ![s].pc = "open"]
  /\ UNCHANGED <<req, rate, writers, row, pending, armed, view, due,
                 faults>>

\* The pump sends the next message; the browser fetches the row it names.  A
\* socket dropped with its queue full ends after the message the pump holds.
Deliver(s) ==
  LET x == Head(sock[s].queue).row
  IN /\ view' = [view EXCEPT ![s][x] = row[x]]
     /\ sock' = [sock EXCEPT ![s].queue = Tail(@),
                             ![s].pc = IF @ = "open" /\ sock[s].dropped
                                       THEN "closing" ELSE @]

Pump(s) ==
  /\ sock[s].pc = "open" /\ sock[s].queue # <<>> /\ Deliver(s)
  /\ UNCHANGED <<req, rate, writers, row, pending, armed, due, faults>>

\* What a browser sends is read and thrown away; a frame too large or one
\* too many in a second ends the socket.
Hear(s) ==
  /\ sock[s].pc = "open" /\ Fault
  /\ \E large \in BOOLEAN :
       sock' = [sock EXCEPT
         ![s].heard = @ + IF large THEN 0 ELSE 1,
         ![s].pc = IF large \/ sock[s].heard + 1 > InboundMax
                   THEN "closing" ELSE @]
  /\ UNCHANGED <<req, rate, writers, row, pending, armed, view, due>>

SecondPasses(s) ==
  /\ sock[s].heard > 0 /\ sock' = [sock EXCEPT ![s].heard = @ - 1]
  /\ UNCHANGED <<req, rate, writers, row, pending, armed, view, due,
                 faults>>

\* The browser leaves, or its handshake or a send fails.
Lost(s) ==
  /\ sock[s].pc \in {"accepting", "open"} /\ Fault
  /\ sock' = [sock EXCEPT ![s].pc = "closing"]
  /\ UNCHANGED <<req, rate, writers, row, pending, armed, view, due>>

\* The endpoint's last act, on every path.
Close(s) ==
  /\ sock[s].pc = "closing"
  /\ sock' = [sock EXCEPT ![s] = [Off EXCEPT !.pc = "closed"]]
  /\ UNCHANGED <<req, rate, writers, row, pending, armed, view, due,
                 faults>>

Listen(r) ==
  \/ Arrive(r) \/ Receive(r) \/ Handle(r) \/ Write(r) \/ CommitBegin(r)
  \/ CommitDone(r) \/ HandlerFails(r) \/ Respond(r) \/ Finish(r)
  \/ Timeout(r) \/ TimeoutCancel(r) \/ Disconnect(r)
Socket(s) ==
  \/ Handshake(s) \/ Accept(s) \/ Pump(s) \/ Hear(s) \/ SecondPasses(s)
  \/ Lost(s) \/ Close(s)

Next ==
  \/ \E r \in Reqs : Listen(r)
  \/ \E s \in Socks : Socket(s)
  \/ WindowPasses \/ Flush

Spec == Init /\ [][Next]_vars

(***************************************************************************)
(* Properties.                                                             *)
(***************************************************************************)
\* A request is answered with one response, never with a second one on top of
\* a first (a time-out that fires as the handler starts its answer), and a
\* request that has ended holds no place at the write lock.
AnsweredOnce ==
  /\ \A r \in Reqs : req[r].starts <= 1
  /\ \A i \in DOMAIN writers :
       req[writers[i]].pc \in {"waiting", "writing", "committing"}

\* A change announced while a browser is connected is on its way to it or
\* shown by it, however many other changes share its window.
ConnectedSeesChanges ==
  \A s \in Socks, x \in Rows :
    Registered(s) =>
      \/ view[s][x] >= due[s][x]
      \/ armed /\ \E i \in DOMAIN pending : pending[i].row = x
      \/ \E i \in DOMAIN sock[s].queue : sock[s].queue[i].row = x
=============================================================================
