---------------------------- MODULE DatabaseFile ----------------------------
(***************************************************************************)
(* The file of the authority's database and the commands that work on it   *)
(* at the same time: `init` makes it (provisioning.py), `migrate` brings a *)
(* legacy file to the shared schema (migrations.py, breakglass.py), a      *)
(* repository that is opened repairs its journal mode, a generation is     *)
(* cleaned up in another journal mode or cut over (mcp_repository.py), and *)
(* the legacy store adds memories, collects the low-scoring ones after it  *)
(* and deletes them when told to (store.py).  A command may be killed, or  *)
(* raise an exception, at any step.                                        *)
(*                                                                         *)
(* SQLite is modelled by what these commands see of it: one writer at a    *)
(* time, a transaction that happens at once or not at all, a WAL database  *)
(* whose journal mode cannot be changed while others are connected to it,  *)
(* and an unlinked file that the commands connected to it keep to          *)
(* themselves.                                                             *)
(***************************************************************************)
EXTENDS Integers, FiniteSets

CONSTANTS
    Command,     \* commands: each runs once
    Kind,        \* what each does
    OldRows,     \* memories of the legacy store from before
    Founder,     \* the owner of an authority from before
    MaxStarted,  \* bound: no more commands are started
    MaxFiles,    \* bound: no more files are made
    None         \* no such thing

Kinds == {"init", "migrate", "open", "fail", "cutover", "legacy"}
\* A legacy command adds a memory of its own.
Memory == OldRows \cup {p \in Command : Kind[p] = "legacy"}
Owner == Command \cup {Founder}    \* a command that finds no owner brings one

\* A file: whether it has the tables of the store, the version of its schema,
\* its owner, its memories and those that have metadata, its journal mode, the
\* state of a generation beside the active one and whether its vectors are there,
\* and who is writing; and, as history, the memories the legacy store has deleted.
File == [id : 1..MaxFiles, tables : BOOLEAN, version : {0, 1}, owner : Owner \cup {None},
         rows : SUBSET Memory, meta : SUBSET Memory, mode : {"wal", "delete"},
         gen : {"none", "building", "cut_over", "failed"}, vectors : BOOLEAN,
         writer : Command \cup {None}, lost : SUBSET Memory]

Snapshot == [of : 1..MaxFiles, whole : BOOLEAN, rows : SUBSET Memory]

ASSUME FileAssumption ==
    /\ Kind \in [Command -> Kinds]
    /\ Founder \notin Command /\ None \notin Owner
    /\ None \notin File /\ None \notin Snapshot
    /\ MaxStarted \in Nat /\ MaxFiles \in Nat \ {0}

Step == {"idle", "create", "backup", "copy", "fingerprint", "begin", "transact", "reopen",
         "config", "cleanup", "repair", "switch", "restore", "add", "collect", "clear", "done"}
Outcome == {"none", "ok", "refused", "failed", "killed",
            "recovery_committed", "recovery_rolled_back"}

VARIABLES
    file,      \* the file at the path of the database, if there is one
    made,      \* the files made so far
    config,    \* the owner the configuration names, if there is one
    pc,        \* where each command is
    conn,      \* the file each command is connected to
    since,     \* history: the files made when an init found none
    seen,      \* the fingerprint a migration has taken
    backup,    \* the snapshot of each migration
    outcome,   \* what each command came to
    stranded,  \* history: the files in which a command that ended left WAL for good
    cleaned    \* history: the commands that cleaned a generation up

jobVars == <<pc, conn, since, seen, backup, outcome>>
fileVars == <<file, made, config, pc, conn, since, seen, backup, outcome, stranded, cleaned>>

\* The types; and a file is one that was made, only a command that is connected to
\* it writes to it, and it has an owner from the moment it has the schema.
FileTypeOK ==
    /\ file \in File \cup {None}
    /\ made \in 0..MaxFiles
    /\ file # None => /\ file.id <= made
                      /\ file.writer # None => conn[file.writer] = file.id
                      /\ file.version = 1 <=> file.owner # None
                      /\ file.version = 1 => file.tables
                      /\ file.version = 0 => file.gen = "none"
    /\ config \in Owner \cup {None}
    /\ pc \in [Command -> Step]
    /\ conn \in [Command -> 0..MaxFiles]
    /\ since \in [Command -> 0..MaxFiles]
    /\ seen \in [Command -> SUBSET Memory]
    /\ backup \in [Command -> Snapshot \cup {None}]
    /\ outcome \in [Command -> Outcome]
    /\ stranded \subseteq 1..MaxFiles
    /\ cleaned \subseteq Command

New(tables, mode) ==
    [id |-> made + 1, tables |-> tables, version |-> 0, owner |-> None, rows |-> {},
     meta |-> {}, mode |-> mode, gen |-> "none", vectors |-> FALSE, writer |-> None,
     lost |-> {}]

LegacyFile == [id |-> 1, tables |-> TRUE, version |-> 0, owner |-> None, rows |-> OldRows,
               meta |-> {}, mode |-> "wal", gen |-> "none", vectors |-> FALSE,
               writer |-> None, lost |-> {}]

AuthorityFile == [LegacyFile EXCEPT !.version = 1, !.owner = Founder, !.meta = OldRows]

\* There is no database yet, or one of the legacy store, or an authority.
FileInit ==
    /\ \/ file = None /\ made = 0 /\ config = None
       \/ file = LegacyFile /\ made = 1 /\ config = None
       \/ file = AuthorityFile /\ made = 1 /\ config = Founder
    /\ pc = [p \in Command |-> "idle"]
    /\ conn = [p \in Command |-> 0]
    /\ since = [p \in Command |-> 0]
    /\ seen = [p \in Command |-> {}]
    /\ backup = [p \in Command |-> None]
    /\ outcome = [p \in Command |-> "none"]
    /\ stranded = {}
    /\ cleaned = {}

-----------------------------------------------------------------------------
(* Commands and connections. *)

\* A command that is connected to the file at the path, and not to one that was
\* unlinked under it.
On(p) == file # None /\ conn[p] = file.id
Others(p) == {q \in Command \ {p} : On(q)}

Goes(p, step) == pc' = [pc EXCEPT ![p] = step] /\ UNCHANGED outcome
Ends(p, o) == pc' = [pc EXCEPT ![p] = "done"] /\ outcome' = [outcome EXCEPT ![p] = o]
Connects(p, id) == conn' = [conn EXCEPT ![p] = id]
Disconnects(p) == Connects(p, 0)

\* BEGIN IMMEDIATE; COMMIT or ROLLBACK; PRAGMA journal_mode.
Locked(f, p) == [f EXCEPT !.writer = p]
Unlocked(f) == [f EXCEPT !.writer = None]
InMode(f, m) == [f EXCEPT !.mode = m]

\* Mutant: the lock outlives the connection.
Released_Held(p) == file

\* The lock goes with the connection.
Released(p) == IF On(p) /\ file.writer = p THEN Unlocked(file) ELSE file

MayStart(p) == /\ pc[p] = "idle"
               /\ Cardinality({q \in Command : pc[q] # "idle"}) < MaxStarted

\* A command connects to write; where there is no file, SQLite makes an empty one.
Target == IF file = None THEN New(FALSE, "delete") ELSE file

ConnectsToWrite(p) ==
    /\ file # None \/ made < MaxFiles
    /\ made' = IF file = None THEN made + 1 ELSE made
    /\ Connects(p, Target.id)

-----------------------------------------------------------------------------
(* The store's own tables. *)

\* The tables are made, where they are not there, and WAL is set.
Opened(f) == InMode([f EXCEPT !.tables = TRUE], "wal")

\* SQLiteStore: a store that is opened makes the file, if there is none.
OpenStore(next, p) ==
    /\ \/ /\ file = None /\ made < MaxFiles
          /\ file' = New(TRUE, "wal") /\ made' = made + 1 /\ UNCHANGED stranded
       \/ /\ file # None /\ file.writer = None
          /\ file' = Opened(file) /\ stranded' = stranded \ {file.id} /\ UNCHANGED made
    /\ Goes(p, next)
    /\ UNCHANGED <<config, conn, since, seen, backup, cleaned>>

\* The legacy store is opened to add a memory, to evict or delete some, or to
\* clear all of them.
LegacyOpen(p) ==
    /\ Kind[p] = "legacy" /\ MayStart(p)
    /\ \E next \in {"add", "collect", "clear"} : OpenStore(next, p)

LegacyWrites == file # None /\ file.tables /\ file.writer = None

WithMemory(f, p) == [f EXCEPT !.rows = @ \cup {p}]

\* It does not know the metadata of an authority, which stays behind.
Without(f, gone) == [f EXCEPT !.rows = @ \ gone, !.lost = @ \cup gone]

\* The memory is committed, and then the collection runs.
LegacyAdd(p) ==
    /\ Kind[p] = "legacy" /\ pc[p] = "add" /\ LegacyWrites
    /\ file' = WithMemory(file, p)
    /\ Goes(p, "collect")
    /\ UNCHANGED <<made, config, conn, since, seen, backup, stranded, cleaned>>

\* One memory is deleted, in a transaction of its own: one of those a collection
\* found before with a low score, or the one named in the command.
LegacyDelete(p) ==
    /\ pc[p] = "collect" /\ LegacyWrites
    /\ \E m \in file.rows : file' = Without(file, {m})
    /\ UNCHANGED <<made, config, jobVars, stranded, cleaned>>

LegacyDone(p) ==
    /\ pc[p] = "collect"
    /\ Ends(p, "ok")
    /\ UNCHANGED <<file, made, config, conn, since, seen, backup, stranded, cleaned>>

LegacyClear(p) ==
    /\ pc[p] = "clear" /\ LegacyWrites
    /\ file' = Without(file, file.rows)
    /\ Ends(p, "ok")
    /\ UNCHANGED <<made, config, conn, since, seen, backup, stranded, cleaned>>

\* The lock is not had in time, or the tables are gone with the file, which SQLite
\* makes again without them.
LegacyFails(p) ==
    /\ pc[p] \in {"add", "collect", "clear"}
    /\ file # None \/ made < MaxFiles
    /\ file' = Target /\ made' = IF file = None THEN made + 1 ELSE made
    /\ Ends(p, "failed")
    /\ UNCHANGED <<config, conn, since, seen, backup, stranded, cleaned>>

-----------------------------------------------------------------------------
(* init and migrate. *)

\* Mutant: only the configuration is looked for.
TargetsFree_ConfigOnly == config = None

\* initialize refuses if either target is there.
TargetsFree == config = None /\ file = None

StartInit(p) ==
    /\ Kind[p] = "init" /\ MayStart(p)
    /\ \/ TargetsFree /\ Goes(p, "create")
       \/ ~ TargetsFree /\ Ends(p, "refused")
    /\ since' = [since EXCEPT ![p] = made]
    /\ UNCHANGED <<file, made, config, conn, seen, backup, stranded, cleaned>>

CreateStore(p) ==
    /\ Kind[p] = "init" /\ pc[p] = "create"
    /\ OpenStore("begin", p)

\* One break-glass command at a time has the lock of the authority.
AuthorityBusy == \E q \in Command : Kind[q] = "migrate" /\ pc[q] \notin {"idle", "done"}

StartMigrate(p) ==
    /\ Kind[p] = "migrate" /\ MayStart(p)
    /\ \/ AuthorityBusy /\ Ends(p, "refused")
       \/ ~ AuthorityBusy /\ file = None /\ Ends(p, "failed")
       \/ ~ AuthorityBusy /\ file # None /\ Goes(p, "backup")
    /\ UNCHANGED <<file, made, config, conn, since, seen, backup, stranded, cleaned>>

\* sqlite_backup: the destination is there before its content is.
StartBackup(p) ==
    /\ pc[p] = "backup" /\ file # None
    /\ backup' = [backup EXCEPT ![p] = [of |-> file.id, whole |-> FALSE, rows |-> {}]]
    /\ Goes(p, "copy") /\ Connects(p, file.id)
    /\ UNCHANGED <<file, made, config, since, seen, stranded, cleaned>>

FinishBackup(p) ==
    /\ pc[p] = "copy"
    /\ \E rows \in IF On(p) THEN {file.rows} ELSE SUBSET Memory :
          backup' = [backup EXCEPT ![p] = [of |-> conn[p], whole |-> TRUE, rows |-> rows]]
    /\ Goes(p, "fingerprint") /\ Disconnects(p)
    /\ UNCHANGED <<file, made, config, since, seen, stranded, cleaned>>

\* _legacy_fingerprint, before the transaction.
Fingerprint(p) ==
    /\ pc[p] = "fingerprint" /\ file # None /\ file.tables
    /\ seen' = [seen EXCEPT ![p] = file.rows]
    /\ Goes(p, "begin")
    /\ UNCHANGED <<file, made, config, conn, since, backup, stranded, cleaned>>

MakesSchema(p) == Kind[p] \in {"init", "migrate"}

\* BEGIN IMMEDIATE waits for the writer.
BeginMigration(p) ==
    /\ MakesSchema(p) /\ pc[p] = "begin"
    /\ ConnectsToWrite(p)
    /\ Target.writer = None /\ file' = Locked(Target, p)
    /\ Goes(p, "transact")
    /\ UNCHANGED <<config, since, seen, backup, stranded, cleaned>>

\* Mutant: the history of applied versions is not looked at.
Migrated_Again(f, p) == [f EXCEPT !.version = 1, !.owner = p, !.meta = f.rows]

\* run_migrations: the schema, its owner, and metadata that quarantines every
\* memory there is; nothing if the schema is current.
Migrated(f, p) ==
    IF f.version = 1 THEN f
    ELSE [f EXCEPT !.version = 1, !.owner = p, !.meta = f.rows]

\* verify_migrated_database.
Verified(f) == f.version = 1 /\ f.meta = f.rows

\* Mutant: the fingerprints are not compared.
Unchanged_Trusted(p, f) == TRUE

\* What a migration found is what it leaves.
Unchanged(p, f) == Kind[p] = "migrate" => f.rows = seen[p]

\* Where a command goes that makes the schema and fails.
GivesUp(p) == \/ Kind[p] = "init" /\ Goes(p, "cleanup")
              \/ Kind[p] # "init" /\ Ends(p, "failed")

\* What the transaction has made is verified before it commits.
Commits(p) == LET f == Migrated(file, p)
              IN  file.tables /\ Verified(f) /\ Unchanged(p, f)

\* The migration, its verification and the commit, or the roll-back.
Transact(p) ==
    /\ MakesSchema(p) /\ pc[p] = "transact"
    /\ \/ On(p) /\ Commits(p) /\ Goes(p, "reopen") /\ file' = Unlocked(Migrated(file, p))
       \/ On(p) /\ ~ Commits(p) /\ GivesUp(p) /\ file' = Unlocked(file)
       \/ ~ On(p) /\ Goes(p, "reopen") /\ UNCHANGED file
    /\ Disconnects(p)
    /\ UNCHANGED <<made, config, since, seen, backup, stranded, cleaned>>

\* What was made is there, and as it was made.
Durable(p) == file # None /\ Verified(file) /\ Unchanged(p, file)

\* The file is opened again, and read back.
Reopen(p) ==
    /\ MakesSchema(p) /\ pc[p] = "reopen"
    /\ \/ Durable(p) /\ Kind[p] = "init" /\ Goes(p, "config")
       \/ Durable(p) /\ Kind[p] = "migrate" /\ Ends(p, "ok")
       \/ ~ Durable(p) /\ GivesUp(p)
    /\ UNCHANGED <<file, made, config, conn, since, seen, backup, stranded, cleaned>>

\* The configuration is written where none is; it does not undo the database.
WriteConfig(p) ==
    /\ pc[p] = "config"
    /\ \/ config = None /\ config' = p /\ Ends(p, "ok")
       \/ config # None /\ UNCHANGED config /\ Ends(p, "refused")
    /\ UNCHANGED <<file, made, conn, since, seen, backup, stranded, cleaned>>

\* _cleanup: what is at the path is unlinked.
Cleanup(p) ==
    /\ pc[p] = "cleanup"
    /\ file' = None
    /\ Ends(p, "failed")
    /\ UNCHANGED <<made, config, conn, since, seen, backup, stranded, cleaned>>

\* An exception, an interrupt among them: a transaction is rolled back, a snapshot
\* that is not whole is removed.
Raises(p) ==
    /\ MakesSchema(p)
    /\ pc[p] \in {"create", "backup", "copy", "fingerprint", "begin", "transact", "reopen"}
    /\ GivesUp(p)
    /\ file' = Released(p) /\ Disconnects(p)
    /\ backup' = IF pc[p] = "copy" THEN [backup EXCEPT ![p] = None] ELSE backup
    /\ UNCHANGED <<made, config, since, seen, stranded, cleaned>>

-----------------------------------------------------------------------------
(* Opening a repository. *)

IsAuthority == file # None /\ file.version = 1

\* The constructor of the repository looks for the authority's tables and
\* verifies them.
OpenRepository(p) ==
    /\ Kind[p] = "open" /\ MayStart(p)
    /\ \/ IsAuthority /\ Verified(file) /\ Goes(p, "repair") /\ Connects(p, file.id)
       \/ IsAuthority /\ ~ Verified(file) /\ Ends(p, "failed") /\ UNCHANGED conn
       \/ ~ IsAuthority /\ Ends(p, "ok") /\ UNCHANGED conn
    /\ UNCHANGED <<file, made, config, since, seen, backup, stranded, cleaned>>

\* WAL cannot be set while another one writes; a file that was unlinked is no
\* one's concern.
SetsWal(p) ==
    \/ /\ On(p)
       /\ file.mode = "delete" => file.writer = None
       /\ file' = InMode(file, "wal") /\ stranded' = stranded \ {file.id}
    \/ ~ On(p) /\ UNCHANGED <<file, stranded>>

RepairWal(p) ==
    /\ Kind[p] = "open" /\ pc[p] = "repair"
    /\ \/ SetsWal(p) /\ Ends(p, "ok")
       \/ Others(p) # {} /\ UNCHANGED <<file, stranded>> /\ Ends(p, "failed")
    /\ Disconnects(p)
    /\ UNCHANGED <<made, config, since, seen, backup, cleaned>>

-----------------------------------------------------------------------------
(* A generation beside the active one. *)

Built(f) == [f EXCEPT !.gen = "building", !.vectors = TRUE]
CutOver(f) == [f EXCEPT !.gen = "cut_over"]
CleanedUp(f) == [f EXCEPT !.gen = "failed", !.vectors = FALSE]

\* The next generation of a scope is opened, with its vectors.
StartBuild ==
    /\ IsAuthority /\ file.gen = "none" /\ file.writer = None
    /\ file' = Built(file)
    /\ UNCHANGED <<made, config, jobVars, stranded, cleaned>>

Building == IsAuthority /\ file.gen = "building"

\* cutover_embedding_generation.
StartCutover(p) ==
    /\ Kind[p] = "cutover" /\ MayStart(p)
    /\ IsAuthority /\ file.writer = None
    /\ file' = Locked(file, p) /\ Connects(p, file.id)
    /\ Goes(p, "transact")
    /\ UNCHANGED <<made, config, since, seen, backup, stranded, cleaned>>

Cutover(p) ==
    /\ Kind[p] = "cutover" /\ pc[p] = "transact"
    /\ \/ On(p) /\ Building /\ file' = Unlocked(CutOver(file)) /\ Ends(p, "ok")
       \/ ~ (On(p) /\ Building) /\ file' = Released(p) /\ Ends(p, "refused")
    /\ Disconnects(p)
    /\ UNCHANGED <<made, config, since, seen, backup, stranded, cleaned>>

\* fail_embedding_generation looks first, on a connection it closes again.
Preflight(p) ==
    /\ Kind[p] = "fail" /\ MayStart(p)
    /\ \/ Building /\ Goes(p, "switch")
       \/ ~ Building /\ Ends(p, "refused")
    /\ UNCHANGED <<file, made, config, conn, since, seen, backup, stranded, cleaned>>

\* WAL is left, if no one else is connected; without that there is nothing to undo.
LeaveWal(p) ==
    /\ pc[p] = "switch"
    /\ ConnectsToWrite(p)
    /\ Target.mode = "wal" => Others(p) = {}
    /\ file' = InMode(Target, "delete")
    /\ Goes(p, "begin")
    /\ UNCHANGED <<config, since, seen, backup, stranded, cleaned>>

LeaveWalFails(p) ==
    /\ pc[p] = "switch" /\ file # None /\ file.mode = "wal" /\ Others(p) # {}
    /\ Ends(p, "failed")
    /\ UNCHANGED <<file, made, config, conn, since, seen, backup, stranded, cleaned>>

BeginCleanup(p) ==
    /\ Kind[p] = "fail" /\ pc[p] = "begin"
    /\ \/ On(p) /\ file.writer = None /\ file' = Locked(file, p)
       \/ ~ On(p) /\ UNCHANGED file
    /\ Goes(p, "transact")
    /\ UNCHANGED <<made, config, conn, since, seen, backup, stranded, cleaned>>

\* Mutant: what the first look found is trusted.
MayClean_Trusted(p) == file.version = 1

\* The transaction looks again.
MayClean(p) == Building

\* Mutant: WAL is only restored when the transaction has committed.
AfterCleaning_IfCommitted(p, o) ==
    \/ /\ o = "ok" /\ pc' = [pc EXCEPT ![p] = "restore"]
       /\ outcome' = [outcome EXCEPT ![p] = o] /\ UNCHANGED conn
    \/ o # "ok" /\ Ends(p, o) /\ Disconnects(p)

\* WAL is to be restored whatever came of the transaction.
AfterCleaning(p, o) ==
    /\ pc' = [pc EXCEPT ![p] = "restore"]
    /\ outcome' = [outcome EXCEPT ![p] = o]
    /\ UNCHANGED conn

\* The vector table, the embeddings, the registry and the profile go in one
\* transaction.
CleanUp(p) ==
    /\ Kind[p] = "fail" /\ pc[p] = "transact"
    /\ \/ /\ On(p) => MayClean(p)
          /\ file' = IF On(p) THEN Unlocked(CleanedUp(file)) ELSE file
          /\ AfterCleaning(p, "ok") /\ cleaned' = cleaned \cup {p}
       \/ /\ On(p) => ~ MayClean(p)
          /\ file' = Released(p)
          /\ AfterCleaning(p, "refused") /\ UNCHANGED cleaned
    /\ UNCHANGED <<made, config, since, seen, backup, stranded>>

\* The lock is not had in time, or a statement fails, or the commit: all of it is
\* rolled back.
CleanUpFails(p) ==
    /\ Kind[p] = "fail" /\ pc[p] \in {"begin", "transact"}
    /\ file' = Released(p)
    /\ AfterCleaning(p, "failed")
    /\ UNCHANGED <<made, config, since, seen, backup, stranded, cleaned>>

RestoreWal(p) ==
    /\ pc[p] = "restore"
    /\ SetsWal(p)
    /\ Ends(p, outcome[p]) /\ Disconnects(p)
    /\ UNCHANGED <<made, config, since, seen, backup, cleaned>>

\* Mutant: the clean-up counts as committed before it is.
Committed_Early(o) == o \in {"ok", "failed"}

\* Whether the clean-up has committed.
Committed(o) == o = "ok"

\* The caller learns whether the clean-up has committed all the same.
RestoreWalFails(p) ==
    /\ pc[p] = "restore" /\ On(p) /\ Others(p) # {}
    /\ Ends(p, IF Committed(outcome[p]) THEN "recovery_committed" ELSE "recovery_rolled_back")
    /\ Disconnects(p)
    /\ stranded' = IF file.mode = "delete" THEN stranded \cup {file.id} ELSE stranded
    /\ UNCHANGED <<file, made, config, since, seen, backup, cleaned>>

-----------------------------------------------------------------------------

\* A maintenance that may have left WAL and has yet to restore it.
LeftWal(p) == Kind[p] = "fail" /\ On(p) /\ pc[p] \in {"begin", "transact", "restore"}

Kill(p) ==
    /\ pc[p] \notin {"idle", "done"}
    /\ Ends(p, "killed")
    /\ file' = Released(p) /\ Disconnects(p)
    /\ stranded' = IF LeftWal(p) /\ file.mode = "delete" THEN stranded \cup {file.id}
                                                        ELSE stranded
    /\ UNCHANGED <<made, config, since, seen, backup, cleaned>>

InitStep(p) ==
    \/ StartInit(p) \/ CreateStore(p) \/ WriteConfig(p) \/ Cleanup(p)

MigrateStep(p) ==
    \/ StartMigrate(p) \/ StartBackup(p) \/ FinishBackup(p) \/ Fingerprint(p)

SchemaStep(p) == BeginMigration(p) \/ Transact(p) \/ Reopen(p) \/ Raises(p)

MaintenanceStep(p) ==
    \/ Preflight(p) \/ LeaveWal(p) \/ LeaveWalFails(p) \/ BeginCleanup(p)
    \/ CleanUp(p) \/ CleanUpFails(p) \/ RestoreWal(p) \/ RestoreWalFails(p)

LegacyStep(p) ==
    \/ LegacyOpen(p) \/ LegacyAdd(p) \/ LegacyDelete(p) \/ LegacyDone(p)
    \/ LegacyClear(p) \/ LegacyFails(p)

CommandStep(p) ==
    \/ InitStep(p) \/ MigrateStep(p) \/ SchemaStep(p) \/ MaintenanceStep(p)
    \/ OpenRepository(p) \/ RepairWal(p)
    \/ StartCutover(p) \/ Cutover(p)
    \/ LegacyStep(p)
    \/ Kill(p)

FileNext == StartBuild \/ \E p \in Command : CommandStep(p)

FileSpec == FileInit /\ [][FileNext]_fileVars

-----------------------------------------------------------------------------
(* What the commands keep between them. *)

SameFile == file # None /\ file' # None /\ file'.id = file.id

\* A generation that was cut over between a maintenance's first look and its
\* transaction keeps its state and its vectors (fail_embedding_generation looks
\* again under the lock).
CutOverKept ==
    [][SameFile /\ file.gen = "cut_over" => file'.gen = "cut_over" /\ file'.vectors]_fileVars

\* What the caller of a maintenance that ended is told about its clean-up is what
\* became of it, when the journal mode could not be restored as well
\* (Vec0JournalModeRecoveryError.cleanup_committed).
CleanupTold ==
    \A p \in Command :
        Kind[p] = "fail" /\ pc[p] = "done" /\ outcome[p] # "killed"
            => (outcome[p] \in {"ok", "recovery_committed"} <=> p \in cleaned)

\* An authority is in WAL unless a maintenance is under way or ended without being
\* able to restore it, and opening the repository repairs that.
WalUnlessStranded ==
    file # None /\ file.version = 1 /\ file.mode = "delete"
        => file.id \in stranded \/ \E p \in Command : LeftWal(p)

\* A deletion that the legacy store makes of memories, by a collection or when told to.
LegacyDeletes(p) == Kind[p] = "legacy" /\ pc[p] \in {"collect", "clear"}

\* Whichever of these commands run together, a file keeps the owner it has and its
\* metadata, and only a collection, a deletion or a clearing of the legacy store
\* takes a memory from it: a migration of a database that has the schema, a
\* maintenance, a repair and whatever of them is killed or rolled back take none.
AuthorityKept ==
    [][SameFile => /\ file.owner # None => file'.owner = file.owner
                   /\ file.meta \subseteq file'.meta
                   /\ \/ file.rows \subseteq file'.rows
                      \/ \E p \in Command : LegacyDeletes(p)]_fileVars

\* A database that was there when init looked is never unlinked: only an init that
\* found none unlinks, and only what was made since.
InitSparesExisting ==
    [][file # None /\ file' = None
        => \E p \in Command : pc[p] = "cleanup" /\ since[p] < file.id]_fileVars

\* A migration that reports success has a whole snapshot; of the file it was taken
\* from, the memories of the fingerprint are those that have metadata, and what the
\* snapshot holds beside them was deleted by the legacy store, which may add and
\* delete between the two: the migration itself drops no memory.
MigrationTold ==
    \A p \in Command : Kind[p] = "migrate" /\ outcome[p] = "ok" =>
        /\ backup[p] # None /\ backup[p].whole
        /\ file # None /\ file.id = backup[p].of
              => file.meta = seen[p] /\ backup[p].rows \subseteq seen[p] \cup file.lost
=============================================================================
