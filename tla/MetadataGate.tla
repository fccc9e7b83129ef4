---------------------------- MODULE MetadataGate ----------------------------
(***************************************************************************)
(* The ComicVine client and the one process-wide gate its requests pass:   *)
(* minimum spacing, a rolling budget per resource path with a share of it  *)
(* for background work, and a cool-down after a rate-limit answer          *)
(* (metadata/ratelimit.py, metadata/comicvine.py).                         *)
(*                                                                         *)
(* A caller is one flow of the program: a library refresh (batch lane), an *)
(* operator's search (interactive lane).  It makes one call of the client  *)
(* at a time, and a call is one request or a walk of several pages.  Time  *)
(* is a counter; a sleeper may wake late, never early.                     *)
(***************************************************************************)
EXTENDS Integers, FiniteSets, SequencesExt

CONSTANTS
  Callers,            \* the flows that talk to ComicVine
  Lane,               \* [Callers -> {"batch", "interactive"}]
  Method,             \* [Callers -> {"pages", "chunks", "single", "suggest"}]
  Bucket,             \* [Callers -> resource path]: the budget a call counts in
  SetInterval, IntervalFloor,           \* the setting and its safety floor
  SetBudget, BudgetFloor, BudgetCeiling,
  SetShare,           \* the batch share of the budget, in percent
  Window,             \* the hour over which admissions are counted
  Backoff,            \* Backoff[n]: the delay after the n-th signal in a row
  RetryAfters,        \* the delays ComicVine may ask for
  Volume,             \* the issues ComicVine lists for the volume, in order
  Shifts,             \* how that list may change: "new" at its end, "gone"
  PageSize, MaxPages,
  ItemCap,            \* the most results a walk of the client keeps
  MaxNow, MaxCalls, MaxFaults, MaxShifts   \* bounds

GateAssumption ==
  /\ Lane \in [Callers -> {"batch", "interactive"}]
  /\ Method \in [Callers -> {"pages", "chunks", "single", "suggest"}]
  /\ Bucket \in [Callers -> STRING]
  /\ {SetInterval, IntervalFloor, Window} \subseteq Int
  /\ {SetBudget, BudgetFloor, BudgetCeiling, SetShare, PageSize, ItemCap, MaxNow} \subseteq Nat
  /\ Backoff \in Seq(Nat) \ {<<>>} /\ RetryAfters \subseteq Nat
  /\ Volume \in Seq(STRING)

VARIABLES
  now,
  last,               \* the last admission
  cooldown,           \* no request is due before this moment
  consecutive, degraded, authFailed,
  ledger,             \* the admissions counted: [bucket, at, lane]
  queue,              \* the gate's lock: its holder, then its waiters
  call,               \* the call each caller is making
  result,             \* what the last call of each caller returned
  listing,            \* what ComicVine lists at this moment
  bound

vars == <<now, last, cooldown, consecutive, degraded, authFailed, ledger,
          queue, call, result, listing, bound>>
gate == <<last, cooldown, consecutive, degraded, ledger, queue>>

Never == 0 - 1000
Issues(list) == {list[i] : i \in 1..Len(list)}
NoCall == [pc |-> "idle", due |-> 0, items |-> <<>>, page |-> 0, was |-> {}]
NoResult == [end |-> "none", items |-> <<>>, was |-> {}]

Bigger(a, b) == IF a > b THEN a ELSE b
Smaller(a, b) == IF a < b THEN a ELSE b

Interval == Bigger(SetInterval, IntervalFloor)
Budget == Smaller(Bigger(SetBudget, BudgetFloor), BudgetCeiling)
BatchCeiling == (Budget * SetShare) \div 100

(***************************************************************************)
(* Type invariant.                                                         *)
(***************************************************************************)
TypeOK ==
  /\ now \in 0..MaxNow
  /\ {last, cooldown} \subseteq Int /\ consecutive \in Nat
  /\ {degraded, authFailed} \subseteq BOOLEAN
  /\ \A i \in 1..Len(ledger) : ledger[i].lane \in {"batch", "interactive"}
  /\ \A i \in 1..Len(queue) : call[queue[i]].pc \in {"queued", "asleep"}
  /\ \A c \in Callers :
       call[c].pc \in {"idle", "queued", "asleep", "sent"}

Init ==
  /\ now = 0 /\ last = Never /\ cooldown = 0 /\ consecutive = 0
  /\ degraded = FALSE /\ authFailed = FALSE
  /\ ledger = <<>> /\ queue = <<>>
  /\ call = [c \in Callers |-> NoCall]
  /\ result = [c \in Callers |-> NoResult]
  /\ listing = Volume
  /\ bound = [calls |-> 0, faults |-> 0, shifts |-> 0]

Spend(b) == bound' = [bound EXCEPT ![b] = @ + 1]

(***************************************************************************)
(* The gate.                                                               *)
(***************************************************************************)
\* The places of what the path's ledger holds once the stamps older than the
\* window are pruned from it.
Counted(b) ==
  {i \in DOMAIN ledger : ledger[i].bucket = b /\ ledger[i].at > now - Window}
OfBatch(places) == {i \in places : ledger[i].lane = "batch"}

Refused(c) ==
  LET stamps == Counted(Bucket[c])
  IN \/ Cardinality(stamps) >= Budget
     \/ Lane[c] = "batch" /\ Cardinality(OfBatch(stamps)) >= BatchCeiling

\* The call of c ends.
Return(c, end, items) ==
  /\ call' = [call EXCEPT ![c] = NoCall]
  /\ result' = [result EXCEPT ![c] =
       [end |-> end, items |-> items,
        was |-> call[c].was \intersect Issues(listing)]]

\* A request of c begins: the first check takes no lock.
Ask(c, walk) ==
  IF Refused(c)
  THEN Return(c, "budget", <<>>) /\ UNCHANGED queue
  ELSE /\ call' = [call EXCEPT ![c] = [walk EXCEPT !.pc = "queued"]]
       /\ queue' = Append(queue, c)
       /\ UNCHANGED result

\* The request goes out.
Admit(c) ==
  /\ last' = now
  /\ ledger' = Append(ledger,
       [bucket |-> Bucket[c], at |-> now, lane |-> Lane[c]])
  /\ degraded' = (degraded /\ now < cooldown)
  /\ consecutive' = IF now < cooldown THEN consecutive ELSE 0
  /\ queue' = Tail(queue)
  /\ call' = [call EXCEPT ![c].pc = "sent"]
  /\ UNCHANGED <<now, cooldown, authFailed, result, listing, bound>>

\* Faulty: the check made before the lock was taken is not repeated under it.
TakeUnchecked(c) ==
  /\ queue # <<>> /\ Head(queue) = c /\ call[c].pc = "queued"
  /\ IF last + Interval <= now /\ cooldown <= now
     THEN Admit(c)
     ELSE /\ call' = [call EXCEPT ![c].pc = "asleep",
                ![c].due = Bigger(last + Interval, cooldown)]
          /\ UNCHANGED <<now, gate, authFailed, result, listing, bound>>

Due == Bigger(now, Bigger(last + Interval, cooldown))

\* The caller gets the lock: the deciding check, then the sleep, whose length
\* is settled here.
Take(c) ==
  /\ queue # <<>> /\ Head(queue) = c /\ call[c].pc = "queued"
  /\ IF Refused(c)
     THEN /\ Return(c, "budget", <<>>)
          /\ queue' = Tail(queue)
          /\ UNCHANGED <<now, last, cooldown, consecutive, degraded,
                         authFailed, ledger, listing, bound>>
     ELSE IF Due = now
     THEN Admit(c)
     ELSE /\ call' = [call EXCEPT ![c].pc = "asleep", ![c].due = Due]
          /\ UNCHANGED <<now, gate, authFailed, result, listing, bound>>

Wake(c) ==
  /\ call[c].pc = "asleep" /\ now >= call[c].due
  /\ Admit(c)

\* The flow is cancelled (a closed request, a drained command) while it waits:
\* the lock is released and nothing is stamped.
Cancel(c) ==
  /\ call[c].pc \in {"queued", "asleep"}
  /\ bound.faults < MaxFaults /\ Spend("faults")
  /\ \E i \in DOMAIN queue : queue[i] = c /\ queue' = RemoveAt(queue, i)
  /\ Return(c, "cancelled", <<>>)
  /\ UNCHANGED <<now, last, cooldown, consecutive, degraded, authFailed,
                 ledger, listing>>

(***************************************************************************)
(* The client.                                                             *)
(***************************************************************************)
\* A caller calls the client.
Begin(c) ==
  /\ call[c].pc = "idle"
  /\ bound.calls < MaxCalls /\ Spend("calls")
  /\ Ask(c, [NoCall EXCEPT !.was = Issues(listing)])
  /\ UNCHANGED <<now, last, cooldown, consecutive, degraded, authFailed,
                 ledger, listing>>

\* What a paged walk has once the page has arrived, and whether it goes on.
Gathered(c) ==
  call[c].items
    \o SubSeq(listing, call[c].page * PageSize + 1,
              Smaller((call[c].page + 1) * PageSize, Len(listing)))
Capped(c) == Len(Gathered(c)) >= ItemCap
GoesOn(c) ==
  /\ ~Capped(c)
  /\ Len(Gathered(c)) > Len(call[c].items)
  /\ (call[c].page + 1) * PageSize < Len(listing)
  /\ call[c].page + 1 < MaxPages

\* A page of a walk: the result is complete only when the walk reached the
\* advertised end with as many items as were advertised.
PageArrives(c) ==
  LET items == Gathered(c)
  IN IF GoesOn(c)
     THEN Ask(c, [call[c] EXCEPT !.items = items, !.page = @ + 1])
     ELSE /\ Return(c, IF ~Capped(c) /\ Len(items) >= Len(listing)
                       THEN "complete" ELSE "partial",
                    SubSeq(items, 1, Smaller(Len(items), ItemCap)))
          /\ UNCHANGED queue

\* Volumes asked for by id in chunks: all of them or an error.
ChunkArrives(c) ==
  IF (call[c].page + 1) * PageSize < Len(Volume)
  THEN Ask(c, [call[c] EXCEPT !.page = @ + 1])
  ELSE Return(c, "complete", Volume) /\ UNCHANGED queue

\* An answer without a fault proves the key good.
Answered(c) ==
  /\ call[c].pc = "sent"
  /\ authFailed' = FALSE
  /\ CASE Method[c] = "pages" -> PageArrives(c)
       [] Method[c] = "chunks" -> ChunkArrives(c)
       [] Method[c] \in {"single", "suggest"} ->
            Return(c, "complete", <<>>) /\ UNCHANGED queue
  /\ UNCHANGED <<now, last, cooldown, consecutive, degraded, ledger, listing,
                 bound>>

\* Faulty: a failed page ends the walk as its last page would.
BrokenUnmarked(c) ==
  CASE Method[c] = "pages" -> Return(c, "complete", call[c].items)
    [] Method[c] = "suggest" -> Return(c, "partial", <<>>)
    [] Method[c] \in {"single", "chunks"} -> Return(c, "error", <<>>)

\* How a call ends when a request of it fails other than by the key or the
\* budget.
Broken(c) ==
  CASE Method[c] = "pages" -> Return(c, "partial", call[c].items)
    [] Method[c] = "suggest" -> Return(c, "partial", <<>>)
    [] Method[c] \in {"single", "chunks"} -> Return(c, "error", <<>>)

Fault(c) ==
  /\ call[c].pc = "sent"
  /\ bound.faults < MaxFaults /\ Spend("faults")

\* 420, 429 or a ban page: the gate backs off.
RateLimited(c) ==
  /\ Fault(c)
  /\ \E asked \in RetryAfters \union {0} :
       cooldown' = Bigger(cooldown, now
         + Bigger(asked, Backoff[Smaller(consecutive + 1, Len(Backoff))]))
  /\ consecutive' = consecutive + 1
  /\ degraded' = TRUE
  /\ Broken(c)
  /\ UNCHANGED <<now, last, authFailed, ledger, queue, listing>>

\* 401 or status 100 condemns the key; 403 says nothing about it.
Denied(c) ==
  /\ Fault(c)
  /\ authFailed' \in {TRUE, authFailed}
  /\ Return(c, "auth", <<>>)
  /\ UNCHANGED <<now, gate, listing>>

\* A refused connection, a server error or an unreadable body; or an unknown
\* object (101), which proves the key good.
Unavailable(c) ==
  /\ Fault(c)
  /\ authFailed' \in {FALSE, authFailed}
  /\ Broken(c)
  /\ UNCHANGED <<now, gate, listing>>

\* The health page reads the gate, and clears a back-off that has passed.
ReadHealth ==
  /\ degraded /\ now >= cooldown
  /\ degraded' = FALSE /\ consecutive' = 0
  /\ UNCHANGED <<now, last, cooldown, authFailed, ledger, queue, call, result,
                 listing, bound>>

\* ComicVine lists a new issue of the volume, the latest by its cover date, or
\* drops one.
Shift ==
  /\ bound.shifts < MaxShifts /\ Spend("shifts")
  /\ \E kind \in Shifts, i \in 1..Len(listing) :
       listing' = IF kind = "new" THEN Append(listing, kind)
                                  ELSE RemoveAt(listing, i)
  /\ UNCHANGED <<now, gate, authFailed, call, result>>

Tick ==
  /\ now < MaxNow
  /\ now' = now + 1
  /\ UNCHANGED <<gate, authFailed, call, result, listing, bound>>

Pass(c) == Take(c) \/ Wake(c) \/ Cancel(c)
Request(c) ==
  \/ Begin(c) \/ Answered(c)
  \/ RateLimited(c) \/ Denied(c) \/ Unavailable(c)

Next ==
  \/ \E c \in Callers : Pass(c) \/ Request(c)
  \/ ReadHealth \/ Shift \/ Tick

Spec == Init /\ [][Next]_vars

(***************************************************************************)
(* Properties.                                                             *)
(***************************************************************************)
\* However calls overlap, requests leave at least the interval apart, no
\* rolling window holds more of them on a path than its budget, and background
\* work never eats the part of it kept for the operator (the check under the
\* lock, and the sleep inside it).
WithinLimits ==
  /\ \A i, j \in 1..Len(ledger) :
       i < j => ledger[j].at - ledger[i].at >= Interval
  /\ \A c \in Callers :
       /\ Cardinality(Counted(Bucket[c])) <= Budget
       /\ Cardinality(OfBatch(Counted(Bucket[c]))) <= BatchCeiling

\* While the cool-down after a rate-limit answer runs, the health page calls
\* the metadata source degraded, although requests that were already asleep
\* in the gate are still admitted.
CoolingIsShown == now < cooldown => degraded

\* A walk that calls itself complete returned every issue that the volume had
\* from its first page to its last, in spite of failed pages, page and item
\* caps and refused budgets: the refresh deletes what a complete walk does not
\* name.
CompleteIsWhole ==
  \A c \in Callers :
    (Method[c] = "pages" /\ result[c].end = "complete") =>
      result[c].was \subseteq Issues(result[c].items)
=============================================================================
