------------------------------- MODULE Access -------------------------------
(***************************************************************************)
(* Requests and the credentials they present: browser sessions kept as     *)
(* rows, the API key, the OPDS password with its cache of verified pairs,  *)
(* the back-off of failed attempts, and the handlers that end a session or *)
(* replace a credential (auth/).                                           *)
(*                                                                         *)
(* A credential is a version number: 0 is the first password or key, and   *)
(* every change makes the next one current.  A request presents one        *)
(* credential.  Each await of a handler is a step: other requests run in   *)
(* between.                                                                *)
(***************************************************************************)
EXTENDS Integers, FiniteSets, SequencesExt

CONSTANTS
  Clients,            \* who sends requests, one at a time each
  Source,             \* [Clients -> address]
  Uses,               \* [Clients -> sets of <<via, operation>>]
  SessionLife, TouchAfter,
  CacheLife, CacheCapacity,
  Threshold, Window, BackoffBase, RegistryCapacity,
  MaxNow, MaxRequests, MaxTokens, MaxRestarts       \* bounds

VARIABLES
  now,
  sess,               \* the session rows, by token
  current,            \* the version in force: [login, opds, key]
  bootstrap,          \* the first key may still be fetched once
  cache, generation,  \* the verified OPDS passwords, in memory
  windows,            \* failures per [source, surface], the coldest first
  recent, hot,        \* failures per surface, and whether they alarmed
  seen,               \* sources that used the key lately, oldest first
  req,                \* the request of each client
  over,               \* credentials whose end has been answered
  bound

vars == <<now, sess, current, bootstrap, cache, generation, windows, recent,
          hot, seen, req, over, bound>>
limiter == <<windows, recent, hot>>
store == <<sess, current>>

Surfaces == {"login", "api_key", "basic"}
Ways == {"cookie", "key", "basic", "login"}
Operations == {"none", "read", "bootstrap", "logout", "logout_all", "opds", "login", "key"}
Tokens == 1..MaxTokens
NoSession == [until |-> 0, seen |-> 0]
NoReq == [pc |-> "idle", via |-> "none", op |-> "none", cred |-> 0, at |-> 0,
          gen |-> 0, hash |-> 0, ends |-> {}, gone |-> FALSE]
Has(t) == sess[t] # NoSession
Secret(via) == CASE via = "basic" -> "opds" [] via = "key" -> "key"
                 [] OTHER -> "login"

TypeOK ==
  /\ now \in 0..MaxNow /\ generation \in Nat /\ bootstrap \in BOOLEAN
  /\ DOMAIN sess = Tokens /\ DOMAIN req = Clients
  /\ Len(cache) <= CacheCapacity /\ Len(windows) <= RegistryCapacity

AccessAssumption ==
  /\ \A c \in Clients : Uses[c] \subseteq Ways \X Operations
  /\ {SessionLife, CacheLife, CacheCapacity, RegistryCapacity, MaxNow} \subseteq Nat
  /\ MaxTokens \in Nat \ {0}

Init ==
  /\ now = 0
  /\ sess = [t \in Tokens |->
       IF t = 1 THEN [until |-> SessionLife, seen |-> 0] ELSE NoSession]
  /\ current = [s \in {"login", "opds", "key"} |-> 0]
  /\ bootstrap = TRUE
  /\ cache = <<>> /\ generation = 0
  /\ windows = <<>>
  /\ recent = [s \in Surfaces |-> <<>>] /\ hot = [s \in Surfaces |-> FALSE]
  /\ seen = <<>>
  /\ req = [c \in Clients |-> NoReq]
  /\ over = {}
  /\ bound = [requests |-> 0, tokens |-> 1, restarts |-> 0]

(***************************************************************************)
(* The back-off of failed attempts.                                        *)
(***************************************************************************)
\* A dictionary, in the order of use, without what stands at one of places.
Popped(s, places) ==
  IF places = {} THEN s ELSE RemoveAt(s, CHOOSE i \in places : TRUE)

\* The oldest stamps leave the window first.
Kept(times) ==
  SubSeq(times, Cardinality({i \in DOMAIN times : times[i] <= now - Window}) + 1,
         Len(times))
Cold(k) == Popped(windows, {i \in DOMAIN windows : windows[i].key = k})
TimesOf(k) ==
  IF \E i \in DOMAIN windows : windows[i].key = k
  THEN windows[CHOOSE i \in DOMAIN windows : windows[i].key = k].at
  ELSE <<>>
Smaller(a, b) == IF a < b THEN a ELSE b

\* The attempt comes too early after the failures of its source.
Throttled(k) ==
  LET times == Kept(TimesOf(k))
  IN /\ Len(times) >= Threshold
     /\ times[Len(times)]
          + Smaller(BackoffBase * 2^(Len(times) - Threshold), Window) > now

\* Asking forgets a source with no failure left, and warms any other.
RetryAfter(k) ==
  LET times == Kept(TimesOf(k))
  IN windows' = IF times = <<>> THEN Cold(k)
                ELSE Append(Cold(k), [key |-> k, at |-> times])

Newest(s, n) == IF Len(s) > n THEN SubSeq(s, Len(s) - n + 1, Len(s)) ELSE s

RecordFailure(k) ==
  LET times == Kept(Append(TimesOf(k), now))
      burst == Newest(Kept(Append(recent[k[2]], now)), Threshold)
  IN /\ windows' = Newest(Append(Cold(k), [key |-> k, at |-> times]),
                          RegistryCapacity)
     /\ recent' = [recent EXCEPT ![k[2]] = burst]
     /\ hot' = [hot EXCEPT ![k[2]] = Len(burst) >= Threshold]

RecordSuccess(k) == windows' = Cold(k) /\ UNCHANGED <<recent, hot>>

\* A source that used the key is remembered for a while.
Observe(src) ==
  LET live == SelectSeq(seen, LAMBDA s : s.until > now)
  IN seen' = Newest(
       Append(Popped(live, {i \in DOMAIN live : live[i].src = src}),
              [src |-> src, until |-> now + Window]), RegistryCapacity)

(***************************************************************************)
(* A request arrives, and is let in or turned away.                        *)
(***************************************************************************)
At(c, pc) == req[c].pc = pc
Go(c, pc) == req' = [req EXCEPT ![c].pc = pc]
Admit(c) == Go(c, "inside")
TurnAway(c) == req' = [req EXCEPT ![c] = NoReq]

\* The handler answers; what it ended is over from now on.
Answer(c) ==
  /\ req' = [req EXCEPT ![c] = NoReq]
  /\ over' = over \cup req[c].ends

Arrive(c) ==
  /\ At(c, "idle") /\ bound.requests < MaxRequests
  /\ \E u \in Uses[c] :
     \E cred \in IF u[1] = "cookie" THEN 1..bound.tokens
                 ELSE 0..current[Secret(u[1])] :
       req' = [req EXCEPT ![c] =
         [NoReq EXCEPT !.pc = u[1], !.via = u[1], !.op = u[2], !.cred = cred,
            !.at = now, !.gone = <<u[1], cred>> \in over]]
  /\ bound' = [bound EXCEPT !.requests = @ + 1]
  /\ UNCHANGED <<now, store, bootstrap, cache, generation, limiter, seen, over>>

\* The row of a cookie is read; a session seen long ago is touched.
CookieRead(c) ==
  /\ At(c, "cookie")
  /\ LET r == req[c]  s == sess[r.cred]
     IN IF ~Has(r.cred) \/ s.until <= r.at THEN TurnAway(c)
        ELSE IF r.at - s.seen >= TouchAfter THEN Go(c, "touch")
        ELSE Admit(c)
  /\ UNCHANGED <<now, store, bootstrap, cache, generation, limiter, seen,
                 over, bound>>

\* A row deleted since it was read stays deleted: the touch updates the row
\* it reads again, and never adds one.
Fresh(c) == Has(req[c].cred) /\ sess[req[c].cred].until > req[c].at

TouchAdding(c) ==
  /\ At(c, "touch") /\ Admit(c)
  /\ sess' = [sess EXCEPT ![req[c].cred] =
                     [until |-> req[c].at + SessionLife, seen |-> req[c].at]]
  /\ UNCHANGED <<now, current, bootstrap, cache, generation, limiter, seen,
                 over, bound>>

Touch(c) ==
  /\ At(c, "touch") /\ Admit(c)
  /\ sess' = IF Fresh(c)
             THEN [sess EXCEPT ![req[c].cred] =
                     [until |-> req[c].at + SessionLife, seen |-> req[c].at]]
             ELSE sess
  /\ UNCHANGED <<now, current, bootstrap, cache, generation, limiter, seen,
                 over, bound>>

\* The back-off is asked before any key or password is looked at.
Surface(via) == CASE via = "key" -> "api_key" [] OTHER -> via
Key(c) == <<Source[c], Surface(req[c].via)>>
Turn(c, pc) ==
  /\ RetryAfter(Key(c))
  /\ IF Throttled(Key(c)) THEN TurnAway(c) ELSE Go(c, pc)
  /\ UNCHANGED <<now, store, bootstrap, recent, hot, seen, over, bound>>

KeyAsk(c) == At(c, "key") /\ Turn(c, "keyread") /\ UNCHANGED <<cache, generation>>

KeyRead(c) ==
  /\ At(c, "keyread")
  /\ Go(c, IF req[c].cred = current.key THEN "keyhit" ELSE "keymiss")
  /\ UNCHANGED <<now, store, bootstrap, cache, generation, limiter, seen,
                 over, bound>>

KeyHit(c) ==
  /\ At(c, "keyhit") /\ Admit(c)
  /\ RecordSuccess(Key(c)) /\ Observe(Source[c])
  /\ UNCHANGED <<now, store, bootstrap, cache, generation, over, bound>>

KeyMiss(c) ==
  /\ At(c, "keymiss") /\ TurnAway(c) /\ RecordFailure(Key(c))
  /\ UNCHANGED <<now, store, bootstrap, cache, generation, seen, over, bound>>

\* A verified password is trusted without another verification for a while.
Unexpired(pwd) ==
  Popped(cache, {i \in DOMAIN cache : cache[i].pwd = pwd /\ cache[i].until <= now})
Cached(pwd) == \E i \in DOMAIN cache : cache[i].pwd = pwd /\ cache[i].until > now

BasicHit(c) ==
  /\ At(c, "basic") /\ ~Throttled(Key(c)) /\ Cached(req[c].cred)
  /\ RecordSuccess(Key(c)) /\ Admit(c)
  /\ UNCHANGED <<now, store, bootstrap, cache, generation, seen, over, bound>>

\* The generation is noted before the hash is read.
BasicAsk(c) ==
  /\ At(c, "basic") /\ ~(~Throttled(Key(c)) /\ Cached(req[c].cred))
  /\ RetryAfter(Key(c))
  /\ IF Throttled(Key(c)) THEN TurnAway(c) /\ UNCHANGED cache
     ELSE /\ req' = [req EXCEPT ![c].pc = "hash", ![c].gen = generation]
          /\ cache' = Unexpired(req[c].cred)
  /\ UNCHANGED <<now, store, bootstrap, generation, recent, hot, seen, over,
                 bound>>

BasicRead(c) ==
  /\ At(c, "hash")
  /\ req' = [req EXCEPT ![c].pc = "verify", ![c].hash = current.opds]
  /\ UNCHANGED <<now, store, bootstrap, cache, generation, limiter, seen,
                 over, bound>>

\* What was verified is kept, unless the cache was cleared meanwhile.
With(pwd) ==
  Newest(Append(Popped(cache, {i \in DOMAIN cache : cache[i].pwd = pwd}),
                [pwd |-> pwd, until |-> now + CacheLife]), CacheCapacity)
Put(c) == IF req[c].gen = generation THEN With(req[c].cred) ELSE cache

BasicVerify(c) ==
  /\ At(c, "verify")
  /\ IF req[c].cred = req[c].hash
     THEN Admit(c) /\ RecordSuccess(Key(c)) /\ cache' = Put(c)
     ELSE TurnAway(c) /\ RecordFailure(Key(c)) /\ UNCHANGED cache
  /\ UNCHANGED <<now, store, bootstrap, generation, seen, over, bound>>

(***************************************************************************)
(* Signing in.                                                             *)
(***************************************************************************)
LoginAsk(c) ==
  At(c, "login") /\ Turn(c, "loginread") /\ UNCHANGED <<cache, generation>>

LoginRead(c) ==
  /\ At(c, "loginread")
  /\ req' = [req EXCEPT ![c].pc = "loginverify", ![c].hash = current.login]
  /\ UNCHANGED <<now, store, bootstrap, cache, generation, limiter, seen,
                 over, bound>>

LoginVerify(c) ==
  /\ At(c, "loginverify")
  /\ IF req[c].cred = req[c].hash
     THEN Go(c, "replace") /\ UNCHANGED limiter
     ELSE TurnAway(c) /\ RecordFailure(Key(c))
  /\ UNCHANGED <<now, store, bootstrap, cache, generation, seen, over, bound>>

\* A sign-in ends the session of the cookie the browser still had, if any,
\* in a transaction of its own.
LoginReplace(c) ==
  /\ At(c, "replace")
  /\ \/ Go(c, "create") /\ UNCHANGED sess
     \/ \E t \in 1..bound.tokens :
          /\ sess' = [sess EXCEPT ![t] = NoSession]
          /\ req' = [req EXCEPT ![c].pc = "create",
                                ![c].ends = {<<"cookie", t>>}]
  /\ UNCHANGED <<now, current, bootstrap, cache, generation, limiter, seen,
                 over, bound>>

LoginCreate(c) ==
  /\ At(c, "create") /\ bound.tokens < MaxTokens
  /\ sess' = [sess EXCEPT ![bound.tokens + 1] =
                [until |-> now + SessionLife, seen |-> now]]
  /\ bound' = [bound EXCEPT !.tokens = @ + 1]
  /\ RecordSuccess(Key(c)) /\ Answer(c)
  /\ UNCHANGED <<now, current, bootstrap, cache, generation, seen>>

(***************************************************************************)
(* The handlers.                                                           *)
(***************************************************************************)
Serves(c, op) == At(c, "inside") /\ req[c].op = op

Read(c) ==
  /\ Serves(c, "read") /\ Answer(c)
  /\ UNCHANGED <<now, store, bootstrap, cache, generation, limiter, seen, bound>>

BootstrapKey(c) ==
  /\ Serves(c, "bootstrap") /\ Answer(c) /\ bootstrap' = FALSE
  /\ UNCHANGED <<now, store, cache, generation, limiter, seen, bound>>

Deleted(tokens) ==
  [t \in Tokens |-> IF t \in tokens THEN NoSession ELSE sess[t]]
Own(c) == IF req[c].via = "cookie" THEN {req[c].cred} ELSE {}

\* A request that came with a session ends that session.
LogOut(c) ==
  /\ Serves(c, "logout") /\ sess' = Deleted(Own(c))
  /\ req' = [req EXCEPT ![c].pc = "answer",
                        ![c].ends = {<<"cookie", t>> : t \in Own(c)}]
  /\ UNCHANGED <<now, current, bootstrap, cache, generation, limiter, seen,
                 over, bound>>

LogOutAll(c) ==
  /\ Serves(c, "logout_all") /\ sess' = Deleted(Tokens)
  /\ req' = [req EXCEPT ![c].pc = "answer",
                        ![c].ends = {<<"cookie", t>> : t \in 1..bound.tokens}]
  /\ UNCHANGED <<now, current, bootstrap, cache, generation, limiter, seen,
                 over, bound>>

Answered(c) ==
  /\ At(c, "answer") /\ Answer(c)
  /\ UNCHANGED <<now, store, bootstrap, cache, generation, limiter, seen, bound>>

\* A change asks for the login password again, and verifies it.
ChangeProve(c) ==
  /\ At(c, "inside") /\ req[c].op \in {"login", "opds", "key"}
  /\ \/ Go(c, "change")
     \/ TurnAway(c)
  /\ UNCHANGED <<now, store, bootstrap, cache, generation, limiter, seen,
                 over, bound>>

Retires(what, v) ==
  IF what = "opds" THEN {<<"basic", n>> : n \in 0..(v - 1)}
  ELSE IF what = "key" THEN {<<"key", n>> : n \in 0..(v - 1)} ELSE {}

\* The new hash is made in a thread and committed.
ChangeWrite(c) ==
  /\ At(c, "change")
  /\ LET what == req[c].op
         v == current[what] + 1
     IN /\ current' = [current EXCEPT ![what] = v]
        /\ req' = [req EXCEPT ![c].ends = Retires(what, v),
                     ![c].pc = IF what = "login" THEN "others" ELSE "settle"]
  /\ UNCHANGED <<now, sess, bootstrap, cache, generation, limiter, seen, over,
                 bound>>

\* A new login password ends every session but the one that changed it.
InvalidateOthers(c) ==
  /\ At(c, "others") /\ sess' = Deleted(Tokens \ Own(c))
  /\ req' = [req EXCEPT ![c].pc = "settle",
               ![c].ends = {<<"cookie", t>> : t \in (1..bound.tokens) \ Own(c)}]
  /\ UNCHANGED <<now, current, bootstrap, cache, generation, limiter, seen,
                 over, bound>>

\* After the commit, the memory that rests on the old credential is cleared.
ClearCache(c) ==
  /\ At(c, "settle") /\ req[c].op \in {"login", "opds"} /\ Answer(c)
  /\ generation' = generation + 1 /\ cache' = <<>>
  /\ UNCHANGED <<now, store, bootstrap, limiter, seen, bound>>

ClearSources(c) ==
  /\ At(c, "settle") /\ req[c].op = "key" /\ Answer(c)
  /\ bootstrap' = FALSE /\ seen' = <<>>
  /\ UNCHANGED <<now, store, cache, generation, limiter, bound>>

(***************************************************************************)
(* The clock, the hourly pruning of sessions, and a restart.               *)
(***************************************************************************)
Tick ==
  /\ now < MaxNow /\ now' = now + 1
  /\ UNCHANGED <<store, bootstrap, cache, generation, limiter, seen, req,
                 over, bound>>

PruneExpired ==
  /\ \E t \in Tokens : Has(t) /\ sess[t].until <= now
  /\ sess' = Deleted({t \in Tokens : sess[t].until <= now})
  /\ UNCHANGED <<now, current, bootstrap, cache, generation, limiter, seen,
                 req, over, bound>>

Restart ==
  /\ bound.restarts < MaxRestarts
  /\ bound' = [bound EXCEPT !.restarts = @ + 1]
  /\ req' = [c \in Clients |-> NoReq]
  /\ cache' = <<>> /\ generation' = 0 /\ seen' = <<>> /\ bootstrap' = FALSE
  /\ windows' = <<>> /\ recent' = [s \in Surfaces |-> <<>>]
  /\ hot' = [s \in Surfaces |-> FALSE]
  /\ UNCHANGED <<now, store, over>>

Authenticate(c) ==
  CookieRead(c) \/ Touch(c) \/ KeyAsk(c) \/ KeyRead(c) \/ KeyHit(c)
  \/ KeyMiss(c) \/ BasicHit(c) \/ BasicAsk(c) \/ BasicRead(c) \/ BasicVerify(c)
Login(c) ==
  LoginAsk(c) \/ LoginRead(c) \/ LoginVerify(c) \/ LoginReplace(c)
  \/ LoginCreate(c)
Handle(c) ==
  Read(c) \/ BootstrapKey(c) \/ LogOut(c) \/ LogOutAll(c) \/ Answered(c)
  \/ ChangeProve(c) \/ ChangeWrite(c) \/ InvalidateOthers(c) \/ ClearCache(c)
  \/ ClearSources(c)

Next ==
  \/ \E c \in Clients : Arrive(c) \/ Authenticate(c) \/ Login(c) \/ Handle(c)
  \/ Tick \/ PruneExpired \/ Restart

Spec == Init /\ [][Next]_vars

(***************************************************************************)
(* Properties.                                                             *)
(***************************************************************************)
Let(c) == req[c].pc \in {"inside", "change", "others", "settle", "answer"}

\* A session whose end was answered (a sign-out, a sign-out everywhere, a new
\* password set elsewhere) admits no request that arrives afterwards, whatever
\* requests of that session were still being touched when it ended.
SignedOutStaysOut ==
  \A c \in Clients : Let(c) /\ req[c].via = "cookie" => ~req[c].gone

\* Once a change of the OPDS password or of the key is answered, no request
\* that arrives afterwards gets in with an older one, also when a slow
\* verification against the old hash ends after the change.
OldCredentialRefused ==
  \A c \in Clients : Let(c) /\ req[c].via \in {"basic", "key"} => ~req[c].gone
=============================================================================
