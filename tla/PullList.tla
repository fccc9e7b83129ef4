------------------------------ MODULE PullList ------------------------------
(***************************************************************************)
(* The weekly pull list: a release feed is fetched week by week, its       *)
(* entries are stored under the week they ship in and linked to the issues *)
(* of the watched series, and a series whose entry has no issue yet is     *)
(* refreshed (pull).  The view of a week joins the stored entries with the *)
(* issues of the library that are dated in it.                             *)
(*                                                                         *)
(* The feed is asked for a week without holding anything; all weeks of a   *)
(* run are stored and matched in one transaction; the refreshes are queued *)
(* after it.  One refresh of the list runs at a time (exclusivity group).  *)
(***************************************************************************)
EXTENDS Integers, Sequences

CONSTANTS
  Key,       \* watched series -> the folded name that entries call it by
  Numbers,   \* issue numbers, 1..n
  Weeks,     \* weeks of the calendar, 1..n
  Ahead,     \* a number this far past the newest known is no longer next in sequence
  Back,      \* weeks fetched when nothing is stored yet
  Nobody,
  Settings   \* circumstances to explore

Series == DOMAIN Key
IssueIds == Series \X Numbers

\* An entry ships in a week of the calendar.
IsEntry(e) == e \in [key : {e.key}, n : {e.n}, ships : Weeks, id : {e.id}]
PullAssumption ==
  /\ Back \in Nat /\ 1 \in Weeks /\ \A w \in Weeks : w \in Nat \ {0} /\ 1..w \subseteq Weeks
  /\ \A s \in Settings :
       /\ s.watched \subseteq Series /\ DOMAIN s.listed \subseteq IssueIds
       /\ DOMAIN s.feed = Weeks /\ \A w \in Weeks : \A e \in s.feed[w] : IsEntry(e)

VARIABLES
  now,       \* this week
  feed,      \* the payload of every week: entries, each with the week it ships in
  store,     \* stored entries: week, entry, match type and link
  lib,       \* the library: series watched, issues, downloads, refreshes queued
  backoff,   \* the feed is not asked while this holds
  job,       \* the running refresh of the list
  setting, left
vars == <<now, feed, store, lib, backoff, job, setting, left>>

NoJob == [at |-> "idle", todo |-> <<>>, got |-> {}, skipped |-> {}, ask |-> {}, before |-> {}]

Init ==
  /\ setting \in Settings
  /\ now = 1 /\ feed = setting.feed /\ store = {}
  /\ lib = [watched |-> setting.watched, issue |-> <<>>, busy |-> {}, queue |-> {}]
  /\ backoff = FALSE /\ job = NoJob
  /\ left = [acts |-> setting.acts, crash |-> setting.crash, news |-> setting.news, fails |-> setting.fails]

Ask(what) == what \in setting.asks /\ left.acts > 0 /\ left' = [left EXCEPT !.acts = @ - 1]
Spend(what) == left[what] > 0 /\ left' = [left EXCEPT ![what] = @ - 1]
Known == DOMAIN lib.issue

(***************************************************************************)
(* build_library_index, match_entry.  An entry names a series by its key,  *)
(* and may carry the id of an issue, of that series or of another one.     *)
(***************************************************************************)
Named(e) == {s \in lib.watched : Key[s] = e.key}
Latest(s) == LET ns == {i[2] : i \in {x \in Known : x[1] = s}} IN
             IF ns = {} THEN 0 ELSE CHOOSE n \in ns : \A m \in ns : m <= n
Near(i, e) == lib.issue[i].date = e.ships
\* Faulty: the id of an entry is believed, whatever series the entry names
ByIdUnguarded(e) == {i \in Known : e.id = i}

ById(e) == {i \in Known : e.id = i /\ i[1] \in Named(e)}
NextInSequence(e, s) == e.n - Latest(s) >= 0 /\ e.n - Latest(s) < Ahead
ByName(e) == {s \in Series : Named(e) = {s} /\ NextInSequence(e, s)
                               /\ (<<s, e.n>> \in Known => Near(<<s, e.n>>, e))}

\* of a row: its match type, the issue it links to, and the series that lacks the issue
Matched(e) ==
  LET ids == ById(e)  ss == ByName(e) IN
  CASE ids # {} -> [type |-> "id", link |-> e.id, lacks |-> {}]
    [] ids = {} /\ ss # {} ->
         LET i == <<CHOOSE s \in ss : TRUE, e.n>> IN
         [type |-> "name_seq", link |-> IF i \in Known THEN i ELSE Nobody,
          lacks |-> IF i \in Known THEN {} ELSE ss]
    [] OTHER -> [type |-> IF Named(e) = {} /\ e.n \in {0, 1} THEN "new_series" ELSE "unmatched",
                 link |-> Nobody, lacks |-> {}]
RowOf(e) == [week |-> e.ships, e |-> e, type |-> Matched(e).type, link |-> Matched(e).link]

(***************************************************************************)
(* _handle_pull_refresh                                                    *)
(***************************************************************************)
\* the calendar of the model ends; the weeks past it are not asked for
InCalendar(w) == IF w \in Weeks THEN <<w>> ELSE <<>>
Older == [k \in 1..(IF now - 2 < Back THEN now - 2 ELSE Back) |-> now - 1 - k]
Asked == <<now>> \o InCalendar(now - 1) \o InCalendar(now + 1)
         \o (IF store = {} THEN Older ELSE <<>>)
Start ==
  /\ job.at = "idle" /\ ~backoff
  /\ job' = [NoJob EXCEPT !.at = "fetch", !.todo = Asked, !.before = store]
  /\ UNCHANGED <<now, feed, store, lib, backoff, setting, left>>

Fetching == job.at = "fetch" /\ job.todo # <<>>
Skipping == job' = [job EXCEPT !.todo = Tail(@), !.skipped = @ \cup {Head(job.todo)}]

FetchWeek ==
  /\ Fetching
  /\ job' = [job EXCEPT !.todo = Tail(@), !.got = @ \cup feed[Head(job.todo)]]
  /\ UNCHANGED <<now, feed, store, lib, backoff, setting, left>>

\* the feed knows no such week; or it fails for next week only
FetchSkips ==
  /\ Fetching /\ Skipping /\ Spend("fails")
  /\ UNCHANGED <<now, feed, store, lib, backoff, setting>>

\* it is down: the run ends, and the feed is left alone for a while
FetchFails ==
  /\ Fetching /\ Head(job.todo) <= now /\ Spend("fails")
  /\ backoff' = TRUE /\ job' = NoJob
  /\ UNCHANGED <<now, feed, store, lib, setting>>

FetchEnds ==
  /\ job.at = "fetch" /\ job.todo = <<>>
  /\ backoff' = FALSE /\ job' = [job EXCEPT !.at = "store"]
  /\ UNCHANGED <<now, feed, store, lib, setting, left>>

\* Every week that some entry ships in is replaced and matched, in one transaction.
Replace ==
  /\ job.at = "store"
  /\ store' = {r \in store : \A e \in job.got : e.ships # r.week} \cup {RowOf(e) : e \in job.got}
  /\ job' = [job EXCEPT !.at = "ask", !.ask = UNION {Matched(e).lacks : e \in job.got}]
  /\ UNCHANGED <<now, feed, lib, backoff, setting, left>>

AskRefresh ==
  /\ job.at = "ask" /\ job.ask # {}
  /\ LET s == CHOOSE x \in job.ask : TRUE IN
       lib' = [lib EXCEPT !.queue = @ \cup {s}] /\ job' = [job EXCEPT !.ask = @ \ {s}]
  /\ UNCHANGED <<now, feed, store, backoff, setting, left>>

Done ==
  /\ job.at = "ask" /\ job.ask = {} /\ job' = NoJob
  /\ UNCHANGED <<now, feed, store, lib, backoff, setting, left>>

(***************************************************************************)
(* The rest of the program, as far as the list meets it                    *)
(***************************************************************************)
BackoffElapses ==
  /\ backoff /\ job.at = "idle" /\ backoff' = FALSE
  /\ UNCHANGED <<now, feed, store, lib, job, setting, left>>

Crash ==
  /\ Spend("crash") /\ job' = NoJob
  /\ UNCHANGED <<now, feed, store, lib, backoff, setting>>

\* the refresh of a series inserts what ComicVine lists of it
Refresh(s) ==
  /\ s \in lib.queue
  /\ LET new == {i \in DOMAIN setting.listed : i[1] = s /\ s \in lib.watched} \ Known IN
     lib' = [lib EXCEPT !.queue = @ \ {s},
               !.issue = [i \in Known \cup new |-> IF i \in Known THEN @[i]
                            ELSE [date |-> setting.listed[i], mon |-> TRUE, file |-> FALSE]]]
  /\ UNCHANGED <<now, feed, store, backoff, job, setting, left>>

\* A series leaves the library with its issues; the links to them are cleared.
Unlinked(r, s) == IF r.link # Nobody /\ r.link[1] = s THEN [r EXCEPT !.link = Nobody] ELSE r
Removed(s) == lib' = [lib EXCEPT !.watched = @ \ {s}, !.busy = {i \in @ : i[1] # s},
                                 !.issue = [i \in {x \in Known : x[1] # s} |-> @[i]]]

DeleteSeries(s) ==
  /\ s \in lib.watched /\ Ask("series") /\ Removed(s)
  /\ store' = {Unlinked(r, s) : r \in store}
  /\ UNCHANGED <<now, feed, backoff, job, setting>>

AddSeries(s) ==
  /\ s \notin lib.watched /\ {i \in Known : i[1] = s} = {} /\ Ask("series")
  /\ lib' = [lib EXCEPT !.watched = @ \cup {s}, !.queue = @ \cup {s}]
  /\ UNCHANGED <<now, feed, store, backoff, job, setting>>

\* the operator's flag of an issue, a download of it and its import
Flag(i) ==
  /\ i \in Known /\ Ask("issue") /\ lib' = [lib EXCEPT !.issue[i].mon = ~@]
  /\ UNCHANGED <<now, feed, store, backoff, job, setting>>
Download(i) ==
  /\ i \in Known \ lib.busy /\ Ask("issue") /\ lib' = [lib EXCEPT !.busy = @ \cup {i}]
  /\ UNCHANGED <<now, feed, store, backoff, job, setting>>
Import(i) ==
  /\ i \in lib.busy /\ lib' = [lib EXCEPT !.busy = @ \ {i}, !.issue[i].file = TRUE]
  /\ UNCHANGED <<now, feed, store, backoff, job, setting, left>>

WeekPasses ==
  /\ now + 1 \in Weeks /\ job.at = "idle" /\ now' = now + 1
  /\ UNCHANGED <<feed, store, lib, backoff, job, setting, left>>

\* the feed moves an entry to the week after: its payload keeps it
Delayed ==
  /\ Spend("news")
  /\ \E w \in Weeks : \E e \in feed[w] :
       e.ships + 1 \in Weeks /\ feed' = [feed EXCEPT ![w] = (@ \ {e}) \cup {[e EXCEPT !.ships = @ + 1]}]
  /\ UNCHANGED <<now, store, lib, backoff, job, setting>>

Fetch == FetchWeek \/ FetchSkips \/ FetchFails \/ FetchEnds
Run == Fetch \/ Replace \/ AskRefresh \/ Done
Operator == \/ \E s \in Series : DeleteSeries(s) \/ AddSeries(s)
            \/ \E i \in IssueIds : Flag(i) \/ Download(i)
Next == \/ Start \/ Run \/ BackoffElapses \/ Crash \/ WeekPasses \/ Delayed \/ Operator
        \/ \E s \in Series : Refresh(s)
        \/ \E i \in IssueIds : Import(i)
Spec == Init /\ [][Next]_vars

(***************************************************************************)
(* weekly_pull: what is listed for a week                                  *)
(***************************************************************************)
StateOf(i) ==
  CASE ~(i[1] \in lib.watched /\ lib.issue[i].mon) -> "unmonitored"
    [] lib.issue[i].mon /\ lib.issue[i].file -> "downloaded"
    [] lib.issue[i].mon /\ ~lib.issue[i].file /\ i \in lib.busy -> "downloading"
    [] OTHER -> "missing"
StoredIn(w) == {r \in store : r.week = w}
Primary(w) == {i \in Known : i[1] \in lib.watched /\ lib.issue[i].date = w}
              \cup ({r.link : r \in StoredIn(w)} \ {Nobody})
PendingRefresh(r) == r.type \in {"id", "name_seq"} /\ r.link = Nobody
Weekly(w) == {[issue |-> i, state |-> StateOf(i)] : i \in Primary(w)}
             \cup {[issue |-> Nobody, state |-> IF PendingRefresh(r) THEN "pending" ELSE "none"] :
                     r \in {x \in StoredIn(w) : x.link = Nobody}}

(***************************************************************************)
(* Properties                                                              *)
(***************************************************************************)
TypeOK ==
  /\ now \in Weeks /\ lib.watched \subseteq Series /\ Known \subseteq IssueIds
  /\ \A r \in store : r.week \in Weeks /\ r.type \in {"id", "name_seq", "unmatched", "new_series"}

\* A link leads to an issue that exists, of a series the entry names, whatever id the feed
\* attached and whatever left the library since; and the view of the week lists the issue
\* with the state of its row (matching.py "candidates, not authority").
LinksHold ==
  \A r \in store : r.link # Nobody =>
    /\ r.link \in Known /\ Key[r.link[1]] = r.e.key
    /\ [issue |-> r.link, state |-> StateOf(r.link)] \in Weekly(r.week)

\* A run that the feed fails leaves the list as it was when it began, but for links that
\* a deletion cleared meanwhile (commands.py: "stores nothing, leaving prior weeks intact").
Entries(rows) == {<<r.week, r.e>> : r \in rows}
OutageKeepsWeeks ==
  [][job.at = "fetch" /\ job'.at = "idle" => Entries(store') = Entries(job.before)]_vars
=============================================================================
