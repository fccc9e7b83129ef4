------------------------------ MODULE MCPlatform ------------------------------
(***************************************************************************)
(* Small instances of what carries an installation.                        *)
(***************************************************************************)
EXTENDS Platform, TLC

(***************************************************************************)
(* Deployments: new, two revisions old, current, of a newer build          *)
(***************************************************************************)
NoDb == [rev |-> 0, edits |-> {}, pw |-> Unset, fp |-> Unset, chosen |-> <<>>, secret |-> "none",
         sentinel |-> Unset, seeded |-> FALSE, rows |-> {}, removed |-> {}, rules |-> FALSE,
         origin |-> 0]
Old == [NoDb EXCEPT !.rev = 1, !.pw = "a", !.secret = "plain", !.rules = TRUE]
Current == [Old EXCEPT !.rev = 3, !.fp = "a", !.secret = "k1", !.sentinel = "k1", !.rules = FALSE,
                       !.seeded = TRUE, !.rows = {"indexer", "client"}]
Newer == [Current EXCEPT !.rev = 4]
Config(v) == [ver |-> v, edits |-> {}, rules |-> FALSE]
NoConfig == Config(-1)
Listed(p, d, c) == [made |-> 1, pool |-> p, db |-> d, config |-> c]
Deployed(d, c, bs, edits, logins, faults, crashes, envs, restores, copies) ==
  [env |-> [pw |-> "a", key |-> "k1"], db |-> d, config |-> c, backups |-> bs,
   limit |-> [edits |-> edits, logins |-> logins, faults |-> faults, crashes |-> crashes,
              envs |-> envs, restores |-> restores, backups |-> copies]]
UsualDeployments ==
  {Deployed(NoDb, NoConfig, {}, 2, 1, 0, 1, 1, 0, 0),
   Deployed(Old, Config(0), {}, 1, 1, 1, 1, 1, 1, 0),
   Deployed(Current, Config(1), {Listed("scheduled", Old, Config(0))}, 2, 0, 1, 1, 0, 2, 1),
   Deployed(Current, Config(1), {}, 1, 1, 0, 2, 2, 0, 0),
   Deployed(Current, Config(1), {}, 1, 0, 0, 0, 0, 1, 4),
   Deployed(Newer, Config(2), {Listed("pre-migration", Current, NoConfig)}, 1, 0, 0, 1, 0, 1, 0),
   Deployed(Newer, Config(1), {Listed("pre-migration", Old, NoConfig)}, 1, 0, 0, 1, 0, 1, 0)}

(***************************************************************************)
(* A reader on a tablet and an administrator at a desk                     *)
(***************************************************************************)
UsualClients == {"reader", "admin"}
ClientSource == [c \in UsualClients |-> IF c = "reader" THEN "tablet" ELSE "desk"]
ClientUses == [c \in UsualClients |->
  IF c = "reader"
  THEN {<<via, "read">> : via \in {"basic", "key", "cookie"}}
  ELSE {<<"cookie", op>> : op \in {"opds", "login", "logout", "logout_all"}}
       \cup {<<"key", "key">>, <<"key", "bootstrap">>, <<"login", "none">>}]

(***************************************************************************)
(* Two requests and one browser                                            *)
(***************************************************************************)
RequestWrites == [r \in 1..2 |-> IF r = 1 THEN {"a"} ELSE {"b", "none"}]
RequestPeer == [r \in 1..2 |-> IF r = 2 THEN "tablet" ELSE "desk"]
RequestSizes == [r \in 1..2 |->
  IF r = 2 THEN {"ok", "headers", "declared", "streamed"} ELSE {"ok"}]

(***************************************************************************)
(* The import of a library: two keys, of which one lies in the root folder *)
(***************************************************************************)
StagedKey == "f1" :> "k1" @@ "f2" :> "k1" @@ "f3" :> "k2"
KeyRank == "k1" :> 1 @@ "k2" :> 2
KeyBest == "k1" :> "v1" @@ "k2" :> "v2"
===============================================================================
