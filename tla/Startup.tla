------------------------------- MODULE Startup -------------------------------
(***************************************************************************)
(* What a deployment keeps under its configuration directory, and the      *)
(* startup that reads, migrates and repairs it: config.py and              *)
(* config_migrations.py (config.yaml), app.py (the order of the startup    *)
(* hooks), db/restore.py and db/backup.py (backups and the restore marker),*)
(* db/migrations.py, keystore.py, sources/publisher_migration.py,          *)
(* auth/bootstrap.py and db/first_run.py.                                  *)
(*                                                                         *)
(* Every step below is one transaction or one atomic change of a file; the *)
(* process may die before any of them, and the next boot may come with     *)
(* another environment or another build.                                   *)
(***************************************************************************)
EXTENDS Integers, Sequences, FiniteSets, FiniteSetsExt, SequencesExt

CONSTANTS
    Revisions,      \* the migrations of this build, 1..Revisions
    Keep,           \* db_backup_retention and db_scheduled_backup_retention
    Regimes,        \* initial deployments: disk, environment and bounds
    Passwords,      \* values of FORAGERR_ADMIN_PASSWORD
    Keys,           \* values of FORAGERR_SECRET_KEY
    Unset           \* the variable is not in the environment

VARIABLES
    env,            \* [pw, key]: the environment of the next boot
    db,             \* foragerr.db
    config,         \* config.yaml
    backups,        \* the directories under backups/ that the pools list
    marker,         \* restore-from: the id of the backup it names, 0 if there is none
    pc,             \* the startup step that comes next, "down" or "serving"
    job,            \* the running backup-database command
    spent,          \* how much of each bound is used
    limit           \* the bounds of this behaviour

vars == <<env, db, config, backups, marker, pc, job, spent, limit>>

Defaults == {"indexer", "client"}       \* the two disabled GetComics rows
ConfigVersion == 1
Steps == <<"load", "migrate-config", "gate", "restore", "stage", "swap-db", "swap-config",
           "unmark", "prepare", "migrate", "keystore", "secrets", "rules", "clear",
           "principal", "seed-indexer", "seed-client", "seed-mark">>

\* A database: the revision it is stamped at (0: there is no file), the edits
\* it holds, the operator's login, the one provider secret and the salt's
\* sentinel, app_state and the default rows, the per-source publisher rules.
\* "chosen", "origin" and "removed" only record what the properties speak of:
\* the login set in Settings and the environment it was set under, the
\* revision an unfinished upgrade began at, the default rows deleted.
NoDb == [rev |-> 0, edits |-> {}, pw |-> Unset, fp |-> Unset, chosen |-> <<>>, secret |-> "none",
         sentinel |-> Unset, seeded |-> FALSE, rows |-> {}, removed |-> {}, rules |-> FALSE,
         origin |-> 0]
NoConfig == [ver |-> -1, edits |-> {}, rules |-> FALSE]
Idle == [at |-> "idle", db |-> NoDb]

Logins == Passwords \cup {Unset, "chosen"}
Secrets == Keys \cup {Unset}
Database ==
    [rev : 0..(Revisions + 1), edits : SUBSET Nat, pw : Logins, fp : Logins,
     chosen : {<<>>} \cup {<<p>> : p \in Logins}, secret : Secrets \cup {"none", "plain"},
     sentinel : Secrets, seeded : BOOLEAN, rows : SUBSET Defaults,
     removed : SUBSET Defaults, rules : BOOLEAN, origin : 0..(Revisions + 1)]
Configuration == [ver : -1..(ConfigVersion + 1), edits : SUBSET Nat, rules : BOOLEAN]
Pools == {"pre-restore", "pre-migration", "pre-config-migration", "scheduled"}
Copies == [made : Nat \ {0}, pool : Pools, db : Database, config : Configuration]
Bounds == [edits : Nat, logins : Nat, faults : Nat, crashes : Nat, envs : Nat, restores : Nat,
           backups : Nat]

\* Deployments are installations as they are found: nothing is recorded yet.
Found(d) == /\ d.chosen = <<>> /\ d.origin = 0
            /\ d.removed = IF d.seeded THEN Defaults \ d.rows ELSE {}

StartupAssumption ==
    /\ Revisions \in Nat /\ Keep \in Nat \ {0}
    /\ "plain" \notin Secrets /\ Unset # "chosen"
    /\ \A r \in Regimes :
         /\ r.env \in [pw : Passwords \cup {Unset}, key : Secrets] /\ r.limit \in Bounds
         /\ r.db \in Database /\ Found(r.db)
         /\ r.config \in Configuration /\ (r.config.ver = -1 => r.config.edits = {})
         /\ r.backups \subseteq Copies /\ IsFiniteSet(r.backups)
         /\ \A b \in r.backups : Found(b.db)
         /\ r.backups # {} => \E b \in r.backups : \A c \in r.backups : c.made <= b.made

TypeOK ==
    /\ env \in [pw : Passwords \cup {Unset}, key : Keys \cup {Unset}]
    /\ db.rev \in 0..(Revisions + 1) /\ db.rows \subseteq Defaults
    /\ config.ver \in -1..(ConfigVersion + 1)
    /\ marker \in Nat
    /\ pc \in Range(Steps) \cup {"down", "serving"}
    /\ job.at \in {"idle", "config", "publish"}

Init ==
    \E r \in Regimes :
        /\ env = r.env /\ db = r.db /\ config = r.config /\ limit = r.limit
        /\ backups = r.backups /\ marker = 0 /\ pc = "down" /\ job = Idle
        /\ spent = [edits |-> 0, logins |-> 0, faults |-> 0, crashes |-> 0, envs |-> 0, restores |-> 0,
                    backups |-> 0]

Spend(what) == /\ spent[what] < limit[what]
               /\ spent' = [spent EXCEPT ![what] = @ + 1]

(***************************************************************************)
(* Backups: one directory each, "made" orders them as their timestamps do. *)
(***************************************************************************)
Newest(pool, n, all) ==
    {b \in all : b.pool = pool /\ Cardinality({c \in all : c.pool = pool /\ c.made > b.made}) < n}

\* prune_backup_pool: the newest n of the pool stay, other pools are left alone
Pruned(pool, n, all) == {b \in all : b.pool # pool} \cup Newest(pool, n, all)

NextId == 1 + Max({0} \cup {b.made : b \in backups})
Backup(p, d, c) == [made |-> NextId, pool |-> p, db |-> d, config |-> c]

(***************************************************************************)
(* load_settings: read or write config.yaml, then the two refusals.        *)
(***************************************************************************)
Boot ==
    /\ pc = "down"
    /\ pc' = "load"
    /\ UNCHANGED <<env, db, config, backups, marker, job, spent, limit>>

ConfigBackups ==
    Pruned("pre-config-migration", Keep,
           backups \cup {Backup("pre-config-migration", NoDb, config)})

LoadConfig ==
    /\ pc = "load"
    /\ \/ /\ config.ver = -1
          /\ config' = [NoConfig EXCEPT !.ver = ConfigVersion]
          /\ pc' = "gate"
          /\ UNCHANGED backups
       \/ /\ config.ver > ConfigVersion             \* ConfigSchemaVersionError
          /\ pc' = "down"
          /\ UNCHANGED <<config, backups>>
       \/ /\ config.ver = ConfigVersion
          /\ pc' = "gate"
          /\ UNCHANGED <<config, backups>>
       \/ /\ config.ver \in 0..(ConfigVersion - 1)
          /\ backups' = ConfigBackups
          /\ pc' = "migrate-config"
          /\ UNCHANGED config
    /\ UNCHANGED <<env, db, marker, job, spent, limit>>

MigrateConfig ==
    /\ pc = "migrate-config"
    /\ config' = [config EXCEPT !.ver = ConfigVersion]
    /\ pc' = "gate"
    /\ UNCHANGED <<env, db, backups, marker, job, spent, limit>>

\* no passphrase, or no operator account and no pair to make one from
Refused == \/ env.key = Unset
           \/ db.pw = Unset /\ env.pw = Unset

Gate ==
    /\ pc = "gate"
    /\ pc' = IF Refused THEN "down" ELSE "restore"
    /\ UNCHANGED <<env, db, config, backups, marker, job, spent, limit>>

(***************************************************************************)
(* apply_restore_marker                                                    *)
(***************************************************************************)
Target == CHOOSE b \in backups : b.made = marker
Restorable == \E b \in backups : b.made = marker /\ b.db.rev # 0

\* an absent marker, or a target that is gone or has no database
NoRestore ==
    /\ pc = "restore"
    /\ ~Restorable
    /\ pc' = "prepare"
    /\ UNCHANGED <<env, db, config, backups, marker, job, spent, limit>>

SnapshotDbOnly ==               \* config.yaml is not copied aside
    /\ pc = "restore"
    /\ Restorable
    /\ backups' = backups \cup {Backup("pre-restore", db, NoConfig)}
    /\ pc' = "stage"
    /\ UNCHANGED <<env, db, config, marker, job, spent, limit>>

Snapshot ==
    /\ pc = "restore"
    /\ Restorable
    /\ backups' = backups \cup {Backup("pre-restore", db, config)}
    /\ pc' = "stage"
    /\ UNCHANGED <<env, db, config, marker, job, spent, limit>>

Stage ==
    /\ pc = "stage"
    /\ pc' = "swap-db"
    /\ UNCHANGED <<env, db, config, backups, marker, job, spent, limit>>

SwapDbOnly ==                   \* the marker goes before the configuration is in place
    /\ pc = "swap-db"
    /\ db' = Target.db
    /\ pc' = "unmark"
    /\ UNCHANGED <<env, config, backups, marker, job, spent, limit>>

SwapDb ==
    /\ pc = "swap-db"
    /\ db' = Target.db
    /\ pc' = IF Target.config.ver = -1 THEN "unmark" ELSE "swap-config"
    /\ UNCHANGED <<env, config, backups, marker, job, spent, limit>>

SwapConfig ==
    /\ pc = "swap-config"
    /\ config' = Target.config
    /\ pc' = "unmark"
    /\ UNCHANGED <<env, db, backups, marker, job, spent, limit>>

\* except OSError: the marker is kept and the boot goes on
RestoreFails ==
    /\ pc \in {"restore", "stage", "swap-db", "swap-config"}
    /\ pc = "restore" => Restorable
    /\ Spend("faults")
    /\ pc' = "prepare"
    /\ UNCHANGED <<env, db, config, backups, marker, job, limit>>

\* sqlite3.OperationalError (the disk is full) is no OSError: the hook raises
SnapshotFails ==
    /\ pc = "restore"
    /\ Restorable
    /\ Spend("faults")
    /\ pc' = "down"
    /\ UNCHANGED <<env, db, config, backups, marker, job, limit>>

Unmark ==
    /\ pc = "unmark"
    /\ marker' = 0
    /\ pc' = "prepare"
    /\ UNCHANGED <<env, db, config, backups, job, spent, limit>>

(***************************************************************************)
(* prepare_database                                                        *)
(***************************************************************************)

PreparedBackups == Pruned("pre-migration", Keep,
                          backups \cup {Backup("pre-migration", db, NoConfig)})

Prepare ==
    /\ pc = "prepare"
    /\ \/ /\ db.rev > Revisions                     \* SchemaVersionError
          /\ pc' = "down"
          /\ UNCHANGED <<db, backups>>
       \/ /\ db.rev = Revisions
          /\ pc' = "keystore"
          /\ UNCHANGED <<db, backups>>
       \/ /\ db.rev < Revisions
          /\ backups' = IF db.rev = 0 THEN backups ELSE PreparedBackups
          /\ db' = [db EXCEPT !.origin = IF @ = 0 THEN db.rev ELSE @]
          /\ pc' = "migrate"
    /\ UNCHANGED <<env, config, marker, job, spent, limit>>

Migrate ==
    /\ pc = "migrate"
    /\ db.rev < Revisions
    /\ db' = [db EXCEPT !.rev = @ + 1,
                        !.origin = IF db.rev + 1 = Revisions THEN 0 ELSE @]
    /\ pc' = IF db.rev + 1 = Revisions THEN "keystore" ELSE "migrate"
    /\ UNCHANGED <<env, config, backups, marker, job, spent, limit>>

\* MigrationError: the revision is not stamped, the application does not start
MigrationFails ==
    /\ pc = "migrate"
    /\ Spend("faults")
    /\ pc' = "down"
    /\ UNCHANGED <<env, db, config, backups, marker, job, limit>>

(***************************************************************************)
(* keystore_startup_hook                                                   *)
(***************************************************************************)
InitKeystoreFirst ==            \* the secrets are migrated by the boot that made the salt
    /\ pc = "keystore"
    /\ db' = IF db.sentinel = Unset THEN [db EXCEPT !.sentinel = env.key] ELSE db
    /\ pc' = IF db.sentinel = Unset THEN "secrets" ELSE "rules"
    /\ UNCHANGED <<env, config, backups, marker, job, spent, limit>>

InitKeystore ==
    /\ pc = "keystore"
    /\ db' = IF db.sentinel = Unset THEN [db EXCEPT !.sentinel = env.key] ELSE db
    /\ pc' = IF db'.sentinel = env.key THEN "secrets" ELSE "rules"
    /\ UNCHANGED <<env, config, backups, marker, job, spent, limit>>

MigrateSecrets ==
    /\ pc = "secrets"
    /\ db' = IF db.secret = "plain" THEN [db EXCEPT !.secret = env.key] ELSE db
    /\ pc' = "rules"
    /\ UNCHANGED <<env, config, backups, marker, job, spent, limit>>

(***************************************************************************)
(* The per-source publisher rules join the configuration's list, then they *)
(* are cleared; a failure of either is logged and the boot goes on.        *)
(***************************************************************************)
\* apply_config_file_updates writes every setting, the version stamp included
Rewritten == [config EXCEPT !.ver = Max({@, ConfigVersion})]

MoveRules ==
    /\ pc = "rules"
    /\ config' = IF db.rules THEN [Rewritten EXCEPT !.rules = TRUE] ELSE config
    /\ pc' = IF db.rules THEN "clear" ELSE "principal"
    /\ UNCHANGED <<env, db, backups, marker, job, spent, limit>>

ClearRules ==
    /\ pc = "clear"
    /\ db' = [db EXCEPT !.rules = FALSE]
    /\ pc' = "principal"
    /\ UNCHANGED <<env, config, backups, marker, job, spent, limit>>

RulesFail ==
    /\ pc \in {"rules", "clear"}
    /\ db.rules
    /\ Spend("faults")
    /\ pc' = "principal"
    /\ UNCHANGED <<env, db, config, backups, marker, job, limit>>

(***************************************************************************)
(* seed_principal_startup_hook: the fingerprint is the password the        *)
(* environment last set; a missing one is compared with the login itself.  *)
(***************************************************************************)
Seeded(d, pw) == [d EXCEPT !.pw = pw, !.fp = pw, !.chosen = <<>>]

Reseeded ==
    IF env.pw = Unset THEN db
    ELSE IF (IF db.fp = Unset THEN db.pw ELSE db.fp) # env.pw THEN Seeded(db, env.pw)
    ELSE [db EXCEPT !.fp = env.pw]

SeedPrincipal ==
    /\ pc = "principal"
    /\ db' = IF db.pw = Unset THEN Seeded(db, env.pw) ELSE Reseeded
    /\ pc' = "seed-indexer"
    /\ UNCHANGED <<env, config, backups, marker, job, spent, limit>>

(***************************************************************************)
(* seed_first_run_defaults                                                 *)
(***************************************************************************)
SeedRow(row, at, then) ==
    /\ pc = at
    /\ db' = IF db.seeded THEN db ELSE [db EXCEPT !.rows = @ \cup {row}]
    /\ pc' = then
    /\ UNCHANGED <<env, config, backups, marker, job, spent, limit>>

SeedIndexer == SeedRow("indexer", "seed-indexer", "seed-client")
SeedClient == SeedRow("client", "seed-client", "seed-mark")

SeedMark ==
    /\ pc = "seed-mark"
    /\ db' = [db EXCEPT !.seeded = TRUE]
    /\ pc' = "serving"
    /\ UNCHANGED <<env, config, backups, marker, job, spent, limit>>

(***************************************************************************)
(* While the application serves: the operator's writes and the backups.    *)
(***************************************************************************)
EditDb ==
    /\ pc = "serving"
    /\ Spend("edits")
    /\ db' = [db EXCEPT !.edits = @ \cup {spent.edits}]
    /\ UNCHANGED <<env, config, backups, marker, pc, job, limit>>

\* _apply: under the lock, the file is read, merged with the request and written
EditConfig ==
    /\ pc = "serving"
    /\ Spend("edits")
    /\ config' = [Rewritten EXCEPT !.edits = @ \cup {spent.edits}]
    /\ UNCHANGED <<env, db, backups, marker, pc, job, limit>>

ChangePassword ==
    /\ pc = "serving"
    /\ Spend("logins")
    /\ db' = [db EXCEPT !.pw = "chosen", !.chosen = <<db.fp>>]
    /\ UNCHANGED <<env, config, backups, marker, pc, job, limit>>

\* encrypt_secret uses the derived key whether or not the sentinel opens with it
SaveSecret ==
    /\ pc = "serving"
    /\ Spend("edits")
    /\ db' = [db EXCEPT !.secret = env.key, !.edits = @ \cup {spent.edits}]
    /\ UNCHANGED <<env, config, backups, marker, pc, job, limit>>

RemoveDefault ==
    /\ pc = "serving"
    /\ \E row \in db.rows :
          /\ Spend("edits")
          /\ db' = [db EXCEPT !.rows = @ \ {row}, !.removed = @ \cup {row},
                              !.edits = @ \cup {spent.edits}]
    /\ UNCHANGED <<env, config, backups, marker, pc, job, limit>>

\* the backup-database command: the database into a staging directory,
\* then config.yaml, then the rename that lists it and the pruning
BackupStart ==
    /\ pc = "serving" /\ job.at = "idle"
    /\ Spend("backups")
    /\ job' = [at |-> "config", db |-> db]
    /\ UNCHANGED <<env, db, config, backups, marker, pc, limit>>

BackupPublish ==
    /\ pc = "serving" /\ job.at = "config"
    /\ backups' = Pruned("scheduled", Keep, backups \cup {Backup("scheduled", job.db, config)})
    /\ job' = Idle
    /\ UNCHANGED <<env, db, config, marker, pc, spent, limit>>

(***************************************************************************)
(* The operator's hand on the volume and on the container                  *)
(***************************************************************************)
AskRestore ==
    /\ pc \in {"down", "serving"}
    /\ Spend("restores")
    /\ \E b \in backups : marker' = b.made
    /\ UNCHANGED <<env, db, config, backups, pc, job, limit>>

ChangeEnv ==
    /\ pc = "down"
    /\ Spend("envs")
    /\ env' \in [pw : Passwords \cup {Unset}, key : Keys \cup {Unset}]
    /\ env' # env
    /\ UNCHANGED <<db, config, backups, marker, pc, job, limit>>

\* killed, or stopped while it serves
Crash ==
    /\ pc # "down"
    /\ Spend("crashes")
    /\ pc' = "down" /\ job' = Idle
    /\ UNCHANGED <<env, db, config, backups, marker, limit>>

Startup ==
    \/ Boot \/ LoadConfig \/ MigrateConfig \/ Gate
    \/ NoRestore \/ Snapshot \/ Stage \/ SwapDb \/ SwapConfig \/ Unmark
    \/ Prepare \/ Migrate \/ InitKeystore \/ MigrateSecrets \/ MoveRules \/ ClearRules
    \/ SeedPrincipal \/ SeedIndexer \/ SeedClient \/ SeedMark

Next ==
    \/ Startup
    \/ RestoreFails \/ SnapshotFails \/ MigrationFails \/ RulesFail
    \/ EditDb \/ EditConfig \/ ChangePassword \/ SaveSecret \/ RemoveDefault
    \/ BackupStart \/ BackupPublish \/ AskRestore \/ ChangeEnv \/ Crash

Spec == Init /\ [][Next]_vars

(***************************************************************************)
(* Properties                                                              *)
(***************************************************************************)
\* Nothing the operator saved is lost by a restore, a failed or repeated one
\* included, by a migration or by the pruning of backups: it is in the live
\* files or in a directory under backups/ (db/restore.py, db/backup.py).
EditsKept ==
    \A e \in 0..(spent.edits - 1) :
        \/ e \in db.edits \cup config.edits
        \/ \E b \in backups : e \in b.db.edits \cup b.config.edits

\* While an upgrade is under way, a backup of the revision it began at is
\* there to go back to, however often it was tried (db/migrations.py:148).
UpgradeUndoable ==
    db.origin # 0 => \E b \in backups : b.db.rev = db.origin

\* An application that serves and whose passphrase opens the sentinel keeps
\* no secret in the clear, whatever crashed before and whatever was restored
\* (keystore.py:453).
NoPlainSecret ==
    pc = "serving" /\ db.sentinel = env.key => db.secret # "plain"

\* When the application serves, each default row is there or was removed by
\* the operator, never both: seeding is complete and is not repeated
\* (db/first_run.py:92).
SeededOnce ==
    pc = "serving" => /\ db.rows \cup db.removed = Defaults
                      /\ db.rows \cap db.removed = {}

\* A login set in Settings is replaced by no boot that comes with the pair
\* the environment last set, through restarts and crashes (auth/bootstrap.py:190).
LoginStands ==
    [][pc = "principal" /\ db.chosen # <<>> /\ env.pw \in {Unset, db.chosen[1]}
          => db'.pw = db.pw]_vars

\* A boot that restored removes the marker only with both files of the backup
\* in place, although it may take several boots to get there (db/restore.py:90).
RestoredWhole ==
    [][marker # 0 /\ marker' = 0 =>
          /\ db.edits = Target.db.edits
          /\ Target.config.ver # -1 => config.edits = Target.config.edits]_vars
=============================================================================
