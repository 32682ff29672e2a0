------------------------- MODULE DatabaseFile_proofs -------------------------
(***************************************************************************)
(* Theorems about the file of the authority's database, for any number of  *)
(* commands of each kind, started in any number, and any number of files.  *)
(***************************************************************************)
EXTENDS DatabaseFile, TLAPS

-----------------------------------------------------------------------------
(* What the operations make of a file. *)

LEMMA FileFields ==
    ASSUME NEW f \in File
    PROVE  /\ f # None /\ f.id \in 1..MaxFiles /\ f.tables \in BOOLEAN
           /\ f.version \in {0, 1} /\ f.owner \in Owner \cup {None}
           /\ f.rows \subseteq Memory /\ f.meta \subseteq Memory
           /\ f.mode \in {"wal", "delete"}
           /\ f.gen \in {"none", "building", "cut_over", "failed"}
           /\ f.vectors \in BOOLEAN /\ f.writer \in Command \cup {None}
           /\ f.lost \subseteq Memory
BY FileAssumption DEF File

LEMMA NewFile ==
    ASSUME made \in 0..MaxFiles, made < MaxFiles,
           NEW t \in BOOLEAN, NEW m \in {"wal", "delete"}
    PROVE  /\ New(t, m) \in File
           /\ New(t, m).id = made + 1 /\ New(t, m).version = 0 /\ New(t, m).owner = None
           /\ New(t, m).writer = None /\ New(t, m).gen = "none" /\ New(t, m).meta = {}
           /\ New(t, m).rows = {} /\ New(t, m).tables = t /\ New(t, m).mode = m
           /\ New(t, m).lost = {}
BY FileAssumption DEF New, File

LEMMA TargetFile ==
    ASSUME file \in File \cup {None}, made \in 0..MaxFiles, file # None \/ made < MaxFiles
    PROVE  /\ Target \in File
           /\ file # None => Target = file
           /\ file = None => /\ Target.id = made + 1 /\ Target.version = 0
                            /\ Target.owner = None /\ Target.writer = None
                            /\ Target.gen = "none" /\ Target.meta = {} /\ Target.rows = {}
                            /\ ~ Target.tables /\ Target.mode = "delete"
<1>1. CASE file = None
  BY <1>1, NewFile DEF Target
<1>2. CASE file # None
  BY <1>2 DEF Target
<1> QED BY <1>1, <1>2

LEMMA FoundFiles ==
    /\ LegacyFile \in File /\ AuthorityFile \in File
    /\ LegacyFile.id = 1 /\ AuthorityFile.id = 1
    /\ LegacyFile.version = 0 /\ AuthorityFile.version = 1
    /\ LegacyFile.owner = None /\ AuthorityFile.owner = Founder
    /\ LegacyFile.writer = None /\ AuthorityFile.writer = None
    /\ LegacyFile.mode = "wal" /\ AuthorityFile.mode = "wal"
    /\ LegacyFile.gen = "none" /\ AuthorityFile.gen = "none"
    /\ LegacyFile.tables /\ AuthorityFile.tables /\ LegacyFile.meta = {}
<1>1. None \in Command \cup {None} /\ Founder \in Owner /\ 1 \in 1..MaxFiles
  BY FileAssumption DEF Owner
<1>2. /\ LegacyFile \in File /\ LegacyFile.id = 1 /\ LegacyFile.version = 0
      /\ LegacyFile.owner = None /\ LegacyFile.writer = None /\ LegacyFile.mode = "wal"
      /\ LegacyFile.gen = "none" /\ LegacyFile.tables
      /\ LegacyFile.meta = {} /\ LegacyFile.rows = OldRows
  BY <1>1 DEF File, LegacyFile, Memory
<1>3. /\ AuthorityFile \in File /\ AuthorityFile.id = 1 /\ AuthorityFile.version = 1
      /\ AuthorityFile.owner = Founder /\ AuthorityFile.writer = None
      /\ AuthorityFile.mode = "wal" /\ AuthorityFile.gen = "none" /\ AuthorityFile.tables
      /\ AuthorityFile.meta = OldRows /\ AuthorityFile.rows = OldRows
  BY <1>1, <1>2 DEF File, AuthorityFile, Memory
<1> QED BY <1>2, <1>3

\* All but the lock, the mode, the generation and the tables.
SameContent(f, g) == /\ g \in File /\ g.id = f.id /\ g.version = f.version
                     /\ g.owner = f.owner /\ g.meta = f.meta /\ g.rows = f.rows
                     /\ g.lost = f.lost

LEMMA LockedFile ==
    ASSUME NEW f \in File, NEW p \in Command
    PROVE  /\ SameContent(f, Locked(f, p)) /\ Locked(f, p).tables = f.tables
           /\ Locked(f, p).mode = f.mode /\ Locked(f, p).gen = f.gen
           /\ Locked(f, p).vectors = f.vectors /\ Locked(f, p).writer = p
BY DEF Locked, File, SameContent

LEMMA UnlockedFile ==
    ASSUME NEW f \in File
    PROVE  /\ SameContent(f, Unlocked(f)) /\ Unlocked(f).tables = f.tables
           /\ Unlocked(f).mode = f.mode /\ Unlocked(f).gen = f.gen
           /\ Unlocked(f).vectors = f.vectors /\ Unlocked(f).writer = None
BY DEF Unlocked, File, SameContent

LEMMA FileInMode ==
    ASSUME NEW f \in File, NEW m \in {"wal", "delete"}
    PROVE  /\ SameContent(f, InMode(f, m)) /\ InMode(f, m).tables = f.tables
           /\ InMode(f, m).mode = m /\ InMode(f, m).gen = f.gen
           /\ InMode(f, m).vectors = f.vectors /\ InMode(f, m).writer = f.writer
BY DEF InMode, File, SameContent

LEMMA OpenedFile ==
    ASSUME NEW f \in File
    PROVE  /\ SameContent(f, Opened(f)) /\ Opened(f).tables
           /\ Opened(f).mode = "wal" /\ Opened(f).gen = f.gen
           /\ Opened(f).vectors = f.vectors /\ Opened(f).writer = f.writer
BY DEF Opened, InMode, File, SameContent

LEMMA FileWithMemory ==
    ASSUME NEW f \in File, NEW p \in Command, Kind[p] = "legacy"
    PROVE  LET g == WithMemory(f, p)
           IN  /\ g \in File /\ g.id = f.id /\ g.version = f.version /\ g.owner = f.owner
               /\ g.meta = f.meta /\ g.rows = f.rows \cup {p} /\ g.tables = f.tables
               /\ g.mode = f.mode /\ g.gen = f.gen /\ g.vectors = f.vectors
               /\ g.writer = f.writer /\ g.lost = f.lost
BY DEF WithMemory, File, Memory

LEMMA FileWithout ==
    ASSUME NEW f \in File, NEW gone \in SUBSET f.rows
    PROVE  LET g == Without(f, gone)
           IN  /\ g \in File /\ g.id = f.id /\ g.version = f.version /\ g.owner = f.owner
               /\ g.meta = f.meta /\ g.rows = f.rows \ gone /\ g.tables = f.tables
               /\ g.mode = f.mode /\ g.gen = f.gen /\ g.vectors = f.vectors
               /\ g.writer = f.writer /\ g.lost = f.lost \cup gone
BY DEF Without, File

LEMMA GenerationFile ==
    ASSUME NEW f \in File, NEW g \in {Built(f), CutOver(f), CleanedUp(f)}
    PROVE  /\ SameContent(f, g) /\ g.tables = f.tables /\ g.mode = f.mode
           /\ g.writer = f.writer
           /\ g = Built(f) => g.gen = "building" /\ g.vectors
           /\ g = CutOver(f) => g.gen = "cut_over" /\ g.vectors = f.vectors
           /\ g = CleanedUp(f) => g.gen = "failed"
<1>1. CASE g = Built(f)
  BY <1>1 DEF Built, CutOver, CleanedUp, File, SameContent
<1>2. CASE g = CutOver(f)
  BY <1>2 DEF Built, CutOver, CleanedUp, File, SameContent
<1>3. CASE g = CleanedUp(f)
  BY <1>3 DEF Built, CutOver, CleanedUp, File, SameContent
<1> QED BY <1>1, <1>2, <1>3

\* A migration of a file that has the schema changes nothing; another brings the
\* owner, and metadata for every memory.
LEMMA MigratedFile ==
    ASSUME NEW f \in File, NEW p \in Command
    PROVE  LET g == Migrated(f, p)
           IN  /\ g \in File /\ g.id = f.id /\ g.rows = f.rows /\ g.tables = f.tables
               /\ g.mode = f.mode /\ g.gen = f.gen /\ g.vectors = f.vectors
               /\ g.writer = f.writer /\ g.lost = f.lost /\ g.version = 1
               /\ f.version = 1 => g = f
               /\ f.version = 0 => g.owner = p /\ g.meta = f.rows
<1>1. CASE f.version = 1
  BY <1>1 DEF Migrated
<1>2. CASE f.version = 0
  <2>1. Migrated(f, p) = [f EXCEPT !.version = 1, !.owner = p, !.meta = f.rows]
    BY <1>2 DEF Migrated
  <2>2. p \in Owner \cup {None} /\ f.rows \subseteq Memory
    BY DEF Owner, File
  <2>3. f.version # 1
    BY <1>2
  <2>4. LET g == [f EXCEPT !.version = 1, !.owner = p, !.meta = f.rows]
        IN  /\ g \in File /\ g.id = f.id /\ g.rows = f.rows /\ g.tables = f.tables
            /\ g.mode = f.mode /\ g.gen = f.gen /\ g.vectors = f.vectors
            /\ g.writer = f.writer /\ g.lost = f.lost
            /\ g.version = 1 /\ g.owner = p /\ g.meta = f.rows
    BY <2>2 DEF File
  <2> QED BY <2>1, <2>3, <2>4
<1>3. f.version \in {0, 1}
  BY FileFields
<1> QED BY <1>1, <1>2, <1>3

-----------------------------------------------------------------------------
(* The inductive invariant: the jobs and the file. *)

\* What is known of the commands, among it that one that copies is connected.
JobsOK ==
    /\ pc \in [Command -> Step]
    /\ conn \in [Command -> 0..MaxFiles]
    /\ since \in [Command -> 0..MaxFiles]
    /\ seen \in [Command -> SUBSET Memory]
    /\ backup \in [Command -> Snapshot \cup {None}]
    /\ outcome \in [Command -> Outcome]
    /\ made \in 0..MaxFiles
    /\ config \in Owner \cup {None}
    /\ stranded \subseteq 1..MaxFiles
    /\ cleaned \subseteq Command
    /\ \A p \in Command : pc[p] = "copy" => conn[p] # 0

\* Only a command in its transaction, connected to the file, has its lock.
WriterHolds ==
    file # None /\ file.writer # None
        => conn[file.writer] = file.id /\ pc[file.writer] = "transact"

\* A file has an owner from the moment it has the schema, and no metadata before.
Sane(f) == /\ f.version = 1 <=> f.owner # None
           /\ f.version = 1 => f.tables
           /\ f.version = 0 => f.gen = "none" /\ f.meta = {}

FileOK ==
    /\ file \in File \cup {None}
    /\ file # None => Sane(file) /\ file.id <= made

FileInv == JobsOK /\ FileOK /\ WriterHolds

LEMMA InvTyped == FileInv => FileTypeOK
BY DEF FileInv, JobsOK, FileOK, WriterHolds, Sane, FileTypeOK

-----------------------------------------------------------------------------
(* Type correctness: the commands. *)

LEMMA Goes_ ==
    ASSUME JobsOK, NEW p \in Command, NEW s \in Step, Goes(p, s)
    PROVE  /\ pc' \in [Command -> Step] /\ pc'[p] = s
           /\ \A q \in Command \ {p} : pc'[q] = pc[q]
           /\ outcome' = outcome
BY DEF JobsOK, Goes

LEMMA Ends_ ==
    ASSUME JobsOK, NEW p \in Command, NEW o \in Outcome, Ends(p, o)
    PROVE  /\ pc' \in [Command -> Step] /\ pc'[p] = "done"
           /\ \A q \in Command \ {p} : pc'[q] = pc[q]
           /\ outcome' \in [Command -> Outcome] /\ outcome'[p] = o
           /\ \A q \in Command \ {p} : outcome'[q] = outcome[q]
BY DEF JobsOK, Ends, Step

LEMMA GivesUp_ ==
    ASSUME JobsOK, NEW p \in Command, GivesUp(p)
    PROVE  /\ pc' \in [Command -> Step] /\ pc'[p] \in {"cleanup", "done"}
           /\ \A q \in Command \ {p} : pc'[q] = pc[q]
           /\ outcome' \in [Command -> Outcome] /\ outcome'[p] \in {outcome[p], "failed"}
           /\ \A q \in Command \ {p} : outcome'[q] = outcome[q]
<1>1. "cleanup" \in Step /\ "failed" \in Outcome
  BY DEF Step, Outcome
<1> QED BY <1>1, Goes_, Ends_ DEF GivesUp, JobsOK

LEMMA Connects_ ==
    ASSUME JobsOK, NEW p \in Command, NEW id \in 0..MaxFiles, Connects(p, id)
    PROVE  /\ conn' \in [Command -> 0..MaxFiles] /\ conn'[p] = id
           /\ \A q \in Command \ {p} : conn'[q] = conn[q]
BY DEF JobsOK, Connects

\* The files a command leaves out of WAL, or brings back to it.
LEMMA StrandedTyped ==
    ASSUME JobsOK, FileOK, file # None
    PROVE  /\ stranded \cup {file.id} \subseteq 1..MaxFiles
           /\ stranded \ {file.id} \subseteq 1..MaxFiles
BY FileFields DEF JobsOK, FileOK

LEMMA SetsWalStranded ==
    ASSUME FileInv, NEW p \in Command, SetsWal(p) PROVE stranded' \subseteq 1..MaxFiles
BY StrandedTyped DEF SetsWal, On, FileInv, JobsOK

LEMMA OpenStoreMakes ==
    ASSUME FileInv, NEW p \in Command, NEW s \in Step, OpenStore(s, p)
    PROVE  /\ stranded' \subseteq 1..MaxFiles /\ made' \in 0..MaxFiles
           /\ Goes(p, s)
           /\ UNCHANGED <<config, conn, since, seen, backup, cleaned>>
<1>1. file # None => stranded \ {file.id} \subseteq 1..MaxFiles
  BY StrandedTyped DEF FileInv
<1>2. stranded \subseteq 1..MaxFiles /\ made \in 0..MaxFiles
  BY DEF FileInv, JobsOK
<1>3. CASE file = None
  BY <1>2, <1>3, FileAssumption DEF OpenStore
<1>4. CASE file # None
  BY <1>1, <1>2, <1>4 DEF OpenStore
<1> QED BY <1>3, <1>4

LEMMA JobsStep == FileInv /\ [FileNext]_fileVars => JobsOK'
<1> SUFFICES ASSUME FileInv, [FileNext]_fileVars PROVE JobsOK'
  OBVIOUS
<1> USE FileAssumption, FileFields DEF FileInv, JobsOK, FileOK, Step, Outcome, Owner
<1>1. ASSUME NEW p \in Command, LegacyOpen(p) PROVE JobsOK'
  BY <1>1, Goes_, OpenStoreMakes
  DEF LegacyOpen
<1>2. ASSUME NEW p \in Command, LegacyAdd(p) PROVE JobsOK'
  BY <1>2, Goes_
  DEF LegacyAdd
<1>2a. ASSUME NEW p \in Command, LegacyDelete(p) PROVE JobsOK'
  BY <1>2a DEF LegacyDelete, jobVars
<1>2b. ASSUME NEW p \in Command, LegacyDone(p) PROVE JobsOK'
  BY <1>2b, Ends_ DEF LegacyDone
<1>2c. ASSUME NEW p \in Command, LegacyClear(p) PROVE JobsOK'
  BY <1>2c, Ends_ DEF LegacyClear
<1>2d. ASSUME NEW p \in Command, LegacyFails(p) PROVE JobsOK'
  BY <1>2d, Ends_ DEF LegacyFails
<1>3. ASSUME NEW p \in Command, StartInit(p) PROVE JobsOK'
  BY <1>3, Goes_, Ends_
  DEF StartInit
<1>4. ASSUME NEW p \in Command, CreateStore(p) PROVE JobsOK'
  BY <1>4, Goes_, OpenStoreMakes
  DEF CreateStore
<1>5. ASSUME NEW p \in Command, StartMigrate(p) PROVE JobsOK'
  BY <1>5, Goes_, Ends_
  DEF StartMigrate
<1>6. ASSUME NEW p \in Command, StartBackup(p) PROVE JobsOK'
  <2>1. file \in File /\ file.id \in 1..MaxFiles /\ file.id # 0
    BY <1>6 DEF StartBackup
  <2>2. [of |-> file.id, whole |-> FALSE, rows |-> {}] \in Snapshot
    BY <2>1 DEF Snapshot
  <2>3. backup' \in [Command -> Snapshot \cup {None}]
    BY <1>6, <2>2 DEF StartBackup
  <2> QED BY <1>6, <2>1, <2>3, Goes_, Connects_ DEF StartBackup
<1>7. ASSUME NEW p \in Command, FinishBackup(p) PROVE JobsOK'
  <2>1. PICK rows \in IF On(p) THEN {file.rows} ELSE SUBSET Memory :
          backup' = [backup EXCEPT ![p] = [of |-> conn[p], whole |-> TRUE, rows |-> rows]]
    BY <1>7 DEF FinishBackup
  <2>2. rows \in SUBSET Memory
    BY <2>1 DEF On
  <2>3. conn[p] \in 1..MaxFiles
    BY <1>7 DEF FinishBackup
  <2>4. [of |-> conn[p], whole |-> TRUE, rows |-> rows] \in Snapshot
    BY <2>2, <2>3 DEF Snapshot
  <2>5. backup' \in [Command -> Snapshot \cup {None}]
    BY <2>1, <2>4
  <2>6. /\ Goes(p, "fingerprint") /\ Connects(p, 0)
        /\ UNCHANGED <<file, made, config, since, seen, stranded, cleaned>>
    BY <1>7 DEF FinishBackup, Disconnects
  <2>7. /\ pc' \in [Command -> Step] /\ pc'[p] = "fingerprint"
        /\ \A q \in Command \ {p} : pc'[q] = pc[q]
        /\ outcome' = outcome
    BY <2>6, Goes_
  <2>8. /\ conn' \in [Command -> 0..MaxFiles]
        /\ \A q \in Command \ {p} : conn'[q] = conn[q]
    BY <2>6, Connects_
  <2>9. \A q \in Command : pc'[q] = "copy" => conn'[q] # 0
    BY <2>7, <2>8
  <2> QED BY <2>5, <2>6, <2>7, <2>8, <2>9
<1>8. ASSUME NEW p \in Command, Fingerprint(p) PROVE JobsOK'
  BY <1>8, Goes_
  DEF Fingerprint
<1>9. ASSUME NEW p \in Command, BeginMigration(p) PROVE JobsOK'
  BY <1>9, Goes_, Connects_, TargetFile
  DEF BeginMigration, ConnectsToWrite, MakesSchema
<1>10. ASSUME NEW p \in Command, Transact(p) PROVE JobsOK'
  BY <1>10, Goes_, Ends_, GivesUp_, Connects_
  DEF Transact, On, Disconnects, MakesSchema
<1>11. ASSUME NEW p \in Command, Reopen(p) PROVE JobsOK'
  BY <1>11, Goes_, Ends_, GivesUp_
  DEF Reopen
<1>12. ASSUME NEW p \in Command, WriteConfig(p) PROVE JobsOK'
  BY <1>12, Ends_
  DEF WriteConfig
<1>13. ASSUME NEW p \in Command, Cleanup(p) PROVE JobsOK'
  BY <1>13, Ends_
  DEF Cleanup
<1>14. ASSUME NEW p \in Command, Raises(p) PROVE JobsOK'
  BY <1>14, Goes_, Ends_, GivesUp_, Connects_
  DEF Raises, On, Disconnects
<1>15. ASSUME NEW p \in Command, OpenRepository(p) PROVE JobsOK'
  BY <1>15, Goes_, Ends_, Connects_
  DEF OpenRepository, IsAuthority
<1>16. ASSUME NEW p \in Command, RepairWal(p) PROVE JobsOK'
  <2>1. stranded' \subseteq 1..MaxFiles
    BY <1>16, SetsWalStranded DEF RepairWal, JobsOK
  <2> QED BY <1>16, <2>1, Ends_, Connects_ DEF RepairWal, Disconnects
<1>17. ASSUME NEW p \in Command, StartCutover(p) PROVE JobsOK'
  BY <1>17, Goes_, Connects_
  DEF StartCutover, IsAuthority
<1>18. ASSUME NEW p \in Command, Cutover(p) PROVE JobsOK'
  BY <1>18, Ends_, Connects_
  DEF Cutover, On, IsAuthority, Disconnects
<1>19. ASSUME NEW p \in Command, Preflight(p) PROVE JobsOK'
  BY <1>19, Goes_, Ends_
  DEF Preflight
<1>20. ASSUME NEW p \in Command, LeaveWal(p) PROVE JobsOK'
  BY <1>20, Goes_, Connects_, TargetFile
  DEF LeaveWal, ConnectsToWrite
<1>21. ASSUME NEW p \in Command, LeaveWalFails(p) PROVE JobsOK'
  BY <1>21, Ends_
  DEF LeaveWalFails
<1>22. ASSUME NEW p \in Command, BeginCleanup(p) PROVE JobsOK'
  BY <1>22, Goes_
  DEF BeginCleanup, On
<1>23. ASSUME NEW p \in Command, CleanUp(p) PROVE JobsOK'
  BY <1>23
  DEF CleanUp, On, AfterCleaning
<1>24. ASSUME NEW p \in Command, CleanUpFails(p) PROVE JobsOK'
  BY <1>24
  DEF CleanUpFails, On, AfterCleaning
<1>25. ASSUME NEW p \in Command, RestoreWal(p) PROVE JobsOK'
  BY <1>25, Ends_, Connects_, SetsWalStranded
  DEF RestoreWal, On, Disconnects
<1>26. ASSUME NEW p \in Command, RestoreWalFails(p) PROVE JobsOK'
  <2>1. stranded' \subseteq 1..MaxFiles
    BY <1>26, StrandedTyped DEF RestoreWalFails, On, JobsOK
  <2> QED BY <1>26, <2>1, Ends_, Connects_ DEF RestoreWalFails, Disconnects
<1>27. ASSUME NEW p \in Command, Kill(p) PROVE JobsOK'
  <2>1. stranded' \subseteq 1..MaxFiles
    BY <1>27, StrandedTyped DEF Kill, LeftWal, On, JobsOK
  <2> QED BY <1>27, <2>1, Ends_, Connects_ DEF Kill, Disconnects
<1>28. CASE StartBuild
  BY <1>28 DEF StartBuild, jobVars
<1>29. CASE UNCHANGED fileVars
  BY <1>29 DEF fileVars
<1> QED
  BY <1>1, <1>2, <1>2a, <1>2b, <1>2c, <1>2d, <1>3, <1>4, <1>5, <1>6, <1>7, <1>8, <1>9, <1>10, <1>11, <1>12, <1>13, <1>14, <1>15, <1>16, <1>17, <1>18, <1>19, <1>20, <1>21, <1>22, <1>23, <1>24, <1>25, <1>26, <1>27, <1>28, <1>29
  DEF FileNext, CommandStep, InitStep, MigrateStep, SchemaStep, MaintenanceStep, LegacyStep

-----------------------------------------------------------------------------
(* Type correctness: the file and its lock. *)

\* What each operation makes of a file is a file again, and the same one.
Again(f, g) == g \in File /\ Sane(g) /\ g.id = f.id

LEMMA EditsSane ==
    ASSUME NEW f \in File, Sane(f), NEW p \in Command
    PROVE  /\ Again(f, Unlocked(f)) /\ Again(f, Locked(f, p)) /\ Again(f, Opened(f))
           /\ Kind[p] = "legacy" => Again(f, WithMemory(f, p))
           /\ \A gone \in SUBSET f.rows : Again(f, Without(f, gone))
           /\ \A m \in {"wal", "delete"} : Again(f, InMode(f, m))
           /\ f.version = 1 => Again(f, CutOver(f)) /\ Again(f, CleanedUp(f))
           /\ f.tables => Again(f, Migrated(f, p))
<1> USE DEF Again, Sane
<1>1. Again(f, Unlocked(f)) /\ Again(f, Locked(f, p)) /\ Again(f, Opened(f))
  BY UnlockedFile, LockedFile, OpenedFile DEF SameContent
<1>2. /\ Kind[p] = "legacy" => Again(f, WithMemory(f, p))
      /\ \A gone \in SUBSET f.rows : Again(f, Without(f, gone))
  BY FileWithMemory, FileWithout
<1>3. \A m \in {"wal", "delete"} : Again(f, InMode(f, m))
  BY FileInMode DEF SameContent
<1>4. f.version = 1 => Again(f, CutOver(f)) /\ Again(f, CleanedUp(f))
  BY GenerationFile DEF SameContent
<1>5. f.tables => Again(f, Migrated(f, p))
  <2>1. p # None
    BY FileAssumption DEF Owner
  <2> QED BY <2>1, MigratedFile, FileFields
<1> QED BY <1>1, <1>2, <1>3, <1>4, <1>5

LEMMA BuiltSane ==
    ASSUME NEW f \in File, Sane(f), f.version = 1 PROVE Again(f, Built(f))
BY GenerationFile DEF Again, Sane, SameContent

LEMMA NewSane ==
    ASSUME made \in 0..MaxFiles, made < MaxFiles,
           NEW t \in BOOLEAN, NEW m \in {"wal", "delete"}
    PROVE  /\ New(t, m) \in File /\ Sane(New(t, m))
           /\ New(t, m).id = made + 1 /\ New(t, m).writer = None
BY NewFile DEF Sane

LEMMA TargetSane ==
    ASSUME FileOK, made \in 0..MaxFiles, file # None \/ made < MaxFiles
    PROVE  /\ Target \in File /\ Sane(Target)
           /\ Target.id = IF file = None THEN made + 1 ELSE file.id
BY NewSane DEF FileOK, Target

\* There is no file, or one of those that were made.
Good(f, n) == f # None => f \in File /\ Sane(f) /\ f.id <= n

LEMMA InvGood == ASSUME FileInv PROVE Good(file, made)
BY DEF FileInv, FileOK, Good

LEMMA GoodAgain ==
    ASSUME FileInv, file # None, NEW g, Again(file, g) PROVE Good(g, made)
BY DEF FileInv, FileOK, Good, Again

LEMMA ReleasedGood == ASSUME FileInv, NEW p \in Command PROVE Good(Released(p), made)
<1>1. CASE On(p) /\ file.writer = p
  BY <1>1, EditsSane, GoodAgain DEF Released, On, FileInv, FileOK
<1>2. CASE ~ (On(p) /\ file.writer = p)
  BY <1>2, InvGood DEF Released
<1> QED BY <1>1, <1>2

LEMMA SetsWalGood == ASSUME FileInv, NEW p \in Command, SetsWal(p) PROVE Good(file', made)
<1>1. CASE On(p)
  BY <1>1, EditsSane, GoodAgain DEF SetsWal, On, FileInv, FileOK
<1>2. CASE ~ On(p)
  BY <1>2, InvGood DEF SetsWal
<1> QED BY <1>1, <1>2

LEMMA OpenStoreGood ==
    ASSUME FileInv, NEW p \in Command, NEW s \in Step, OpenStore(s, p)
    PROVE  Good(file', made') /\ file'.writer = None
<1>1. CASE file = None
  <2>1. made < MaxFiles /\ made' = made + 1 /\ file' = New(TRUE, "wal")
    BY <1>1 DEF OpenStore
  <2>2. made \in 0..MaxFiles
    BY DEF FileInv, JobsOK
  <2>3. New(TRUE, "wal") \in File /\ Sane(New(TRUE, "wal"))
        /\ New(TRUE, "wal").id = made + 1 /\ New(TRUE, "wal").writer = None
    BY <2>1, <2>2, NewSane
  <2>4. made + 1 \in Nat /\ made + 1 <= made + 1
    BY <2>2, FileAssumption
  <2>5. New(TRUE, "wal").id <= made + 1
    BY <2>3, <2>4
  <2> QED BY <2>1, <2>3, <2>5 DEF Good
<1>2. CASE file # None
  <2>1. Again(file, Opened(file)) /\ Opened(file).writer = None
    BY <1>2, EditsSane, OpenedFile DEF OpenStore, FileInv, FileOK
  <2> QED BY <1>2, <2>1, GoodAgain DEF OpenStore
<1> QED BY <1>1, <1>2

LEMMA ConnectsGood ==
    ASSUME FileInv, NEW p \in Command, ConnectsToWrite(p)
    PROVE  Good(Locked(Target, p), made') /\ Good(InMode(Target, "delete"), made')
<1>1. Target \in File /\ Sane(Target) /\ Target.id <= made'
  BY TargetSane, FileAssumption DEF ConnectsToWrite, FileInv, FileOK, JobsOK
<1>2. Again(Target, Locked(Target, p)) /\ Again(Target, InMode(Target, "delete"))
  BY <1>1, EditsSane
<1> QED BY <1>1, <1>2 DEF Again, Good

LEMMA GoodStep == FileInv /\ [FileNext]_fileVars => Good(file', made')
<1> SUFFICES ASSUME FileInv, [FileNext]_fileVars PROVE Good(file', made')
  OBVIOUS
<1>1. ASSUME NEW p \in Command, LegacyOpen(p) PROVE Good(file', made')
  BY <1>1, OpenStoreGood
  DEF LegacyOpen, Step
<1>2. ASSUME NEW p \in Command, LegacyAdd(p) PROVE Good(file', made')
  <2>1. Again(file, WithMemory(file, p))
    BY <1>2, EditsSane DEF LegacyAdd, LegacyWrites, FileInv, FileOK
  <2> QED BY <1>2, <2>1, GoodAgain DEF LegacyAdd, LegacyWrites
<1>2a. ASSUME NEW p \in Command, LegacyDelete(p) PROVE Good(file', made')
  <2>1. \A m \in file.rows : Again(file, Without(file, {m}))
    BY <1>2a, EditsSane DEF LegacyDelete, LegacyWrites, FileInv, FileOK
  <2> QED BY <1>2a, <2>1, GoodAgain DEF LegacyDelete, LegacyWrites
<1>2b. ASSUME NEW p \in Command, LegacyDone(p) PROVE Good(file', made')
  BY <1>2b, InvGood
  DEF LegacyDone
<1>2c. ASSUME NEW p \in Command, LegacyClear(p) PROVE Good(file', made')
  <2>1. Again(file, Without(file, file.rows))
    BY <1>2c, EditsSane DEF LegacyClear, LegacyWrites, FileInv, FileOK
  <2> QED BY <1>2c, <2>1, GoodAgain DEF LegacyClear, LegacyWrites
<1>2d. ASSUME NEW p \in Command, LegacyFails(p) PROVE Good(file', made')
  <2>1. Target \in File /\ Sane(Target) /\ Target.id <= made'
    BY <1>2d, TargetSane, FileAssumption DEF LegacyFails, FileInv, FileOK, JobsOK
  <2> QED BY <1>2d, <2>1 DEF LegacyFails, Good
<1>3. ASSUME NEW p \in Command, StartInit(p) PROVE Good(file', made')
  BY <1>3, InvGood
  DEF StartInit
<1>4. ASSUME NEW p \in Command, CreateStore(p) PROVE Good(file', made')
  BY <1>4, OpenStoreGood
  DEF CreateStore, Step
<1>5. ASSUME NEW p \in Command, StartMigrate(p) PROVE Good(file', made')
  BY <1>5, InvGood
  DEF StartMigrate
<1>6. ASSUME NEW p \in Command, StartBackup(p) PROVE Good(file', made')
  BY <1>6, InvGood
  DEF StartBackup
<1>7. ASSUME NEW p \in Command, FinishBackup(p) PROVE Good(file', made')
  BY <1>7, InvGood
  DEF FinishBackup
<1>8. ASSUME NEW p \in Command, Fingerprint(p) PROVE Good(file', made')
  BY <1>8, InvGood
  DEF Fingerprint
<1>9. ASSUME NEW p \in Command, BeginMigration(p) PROVE Good(file', made')
  BY <1>9, ConnectsGood
  DEF BeginMigration
<1>10. ASSUME NEW p \in Command, Transact(p) PROVE Good(file', made')
  <2>1. CASE On(p) /\ Commits(p) /\ file' = Unlocked(Migrated(file, p))
    <3>1. Again(file, Migrated(file, p))
      BY <2>1, EditsSane DEF Commits, On, FileInv, FileOK
    <3>2. Again(Migrated(file, p), Unlocked(Migrated(file, p)))
      BY <3>1, EditsSane DEF Again
    <3> QED BY <1>10, <2>1, <3>1, <3>2, GoodAgain DEF Transact, On, Again
  <2>2. CASE On(p) /\ file' = Unlocked(file)
    <3>1. Again(file, Unlocked(file))
      BY <2>2, EditsSane DEF On, FileInv, FileOK
    <3> QED BY <1>10, <2>2, <3>1, GoodAgain DEF Transact, On
  <2>3. CASE UNCHANGED file
    BY <1>10, <2>3, InvGood DEF Transact
  <2> QED BY <1>10, <2>1, <2>2, <2>3 DEF Transact
<1>11. ASSUME NEW p \in Command, Reopen(p) PROVE Good(file', made')
  BY <1>11, InvGood
  DEF Reopen
<1>12. ASSUME NEW p \in Command, WriteConfig(p) PROVE Good(file', made')
  BY <1>12, InvGood
  DEF WriteConfig
<1>13. ASSUME NEW p \in Command, Cleanup(p) PROVE Good(file', made')
  BY <1>13 DEF Cleanup, Good
<1>14. ASSUME NEW p \in Command, Raises(p) PROVE Good(file', made')
  BY <1>14, ReleasedGood
  DEF Raises
<1>15. ASSUME NEW p \in Command, OpenRepository(p) PROVE Good(file', made')
  BY <1>15, InvGood
  DEF OpenRepository
<1>16. ASSUME NEW p \in Command, RepairWal(p) PROVE Good(file', made')
  BY <1>16, SetsWalGood, InvGood
  DEF RepairWal
<1>17. ASSUME NEW p \in Command, StartCutover(p) PROVE Good(file', made')
  <2>1. Again(file, Locked(file, p))
    BY <1>17, EditsSane DEF StartCutover, IsAuthority, FileInv, FileOK
  <2> QED BY <1>17, <2>1, GoodAgain DEF StartCutover, IsAuthority
<1>18. ASSUME NEW p \in Command, Cutover(p) PROVE Good(file', made')
  <2>1. CASE On(p) /\ Building /\ file' = Unlocked(CutOver(file))
    <3>1. Again(file, CutOver(file))
      BY <2>1, EditsSane DEF Building, IsAuthority, FileInv, FileOK
    <3>2. Again(CutOver(file), Unlocked(CutOver(file)))
      BY <3>1, EditsSane DEF Again
    <3> QED BY <1>18, <2>1, <3>1, <3>2, GoodAgain DEF Cutover, On, Again
  <2>2. CASE file' = Released(p)
    BY <1>18, <2>2, ReleasedGood DEF Cutover
  <2> QED BY <1>18, <2>1, <2>2 DEF Cutover
<1>19. ASSUME NEW p \in Command, Preflight(p) PROVE Good(file', made')
  BY <1>19, InvGood
  DEF Preflight
<1>20. ASSUME NEW p \in Command, LeaveWal(p) PROVE Good(file', made')
  BY <1>20, ConnectsGood
  DEF LeaveWal
<1>21. ASSUME NEW p \in Command, LeaveWalFails(p) PROVE Good(file', made')
  BY <1>21, InvGood
  DEF LeaveWalFails
<1>22. ASSUME NEW p \in Command, BeginCleanup(p) PROVE Good(file', made')
  <2>1. file # None => Again(file, Locked(file, p))
    BY EditsSane DEF FileInv, FileOK
  <2> QED BY <1>22, <2>1, GoodAgain, InvGood DEF BeginCleanup, On
<1>23. ASSUME NEW p \in Command, CleanUp(p) PROVE Good(file', made')
  <2>1. CASE On(p) /\ MayClean(p) /\ file' = Unlocked(CleanedUp(file))
    <3>1. Again(file, CleanedUp(file))
      BY <2>1, EditsSane DEF MayClean, Building, IsAuthority, FileInv, FileOK
    <3>2. Again(CleanedUp(file), Unlocked(CleanedUp(file)))
      BY <3>1, EditsSane DEF Again
    <3> QED BY <1>23, <2>1, <3>1, <3>2, GoodAgain DEF CleanUp, On, Again
  <2>2. CASE file' = Released(p)
    BY <1>23, <2>2, ReleasedGood DEF CleanUp
  <2>3. CASE UNCHANGED file
    BY <1>23, <2>3, InvGood DEF CleanUp
  <2> QED BY <1>23, <2>1, <2>2, <2>3 DEF CleanUp
<1>24. ASSUME NEW p \in Command, CleanUpFails(p) PROVE Good(file', made')
  BY <1>24, ReleasedGood
  DEF CleanUpFails
<1>25. ASSUME NEW p \in Command, RestoreWal(p) PROVE Good(file', made')
  BY <1>25, SetsWalGood, InvGood
  DEF RestoreWal
<1>26. ASSUME NEW p \in Command, RestoreWalFails(p) PROVE Good(file', made')
  BY <1>26, InvGood
  DEF RestoreWalFails
<1>27. ASSUME NEW p \in Command, Kill(p) PROVE Good(file', made')
  BY <1>27, ReleasedGood
  DEF Kill
<1>28. CASE StartBuild
  BY <1>28, BuiltSane, GoodAgain DEF StartBuild, IsAuthority, FileInv, FileOK
<1>29. CASE UNCHANGED fileVars
  BY <1>29, InvGood DEF fileVars
<1> QED
  BY <1>1, <1>2, <1>2a, <1>2b, <1>2c, <1>2d, <1>3, <1>4, <1>5, <1>6, <1>7, <1>8, <1>9, <1>10, <1>11, <1>12, <1>13, <1>14, <1>15, <1>16, <1>17, <1>18, <1>19, <1>20, <1>21, <1>22, <1>23, <1>24, <1>25, <1>26, <1>27, <1>28, <1>29
  DEF FileNext, CommandStep, InitStep, MigrateStep, SchemaStep, MaintenanceStep, LegacyStep

LEMMA FileStep == FileInv /\ [FileNext]_fileVars => FileOK'
<1> SUFFICES ASSUME FileInv, [FileNext]_fileVars PROVE FileOK'
  OBVIOUS
<1>1. Good(file', made')
  BY GoodStep
<1> QED BY <1>1 DEF FileOK, Good, Sane

\* A command that moves keeps another one's lock, and has none itself.
LEMMA WriterKept ==
    ASSUME FileInv, NEW p \in Command,
           \A q \in Command \ {p} : pc'[q] = pc[q] /\ conn'[q] = conn[q],
           file' # None =>
              /\ file # None /\ file' \in File /\ file'.id = file.id
              /\ file'.writer \in {file.writer, None} /\ file'.writer # p
    PROVE  WriterHolds'
BY FileFields DEF FileInv, WriterHolds

LEMMA ReleasedFile ==
    ASSUME FileInv, NEW p \in Command, NEW g, g = Released(p)
    PROVE  g # None => /\ file # None /\ g \in File /\ g.id = file.id
                       /\ g.writer \in {file.writer, None} /\ g.writer # p
<1>1. CASE On(p) /\ file.writer = p
  BY <1>1, UnlockedFile, FileAssumption DEF Released, On, FileInv, FileOK, SameContent, Owner
<1>2. CASE ~ (On(p) /\ file.writer = p)
  BY <1>2, FileAssumption DEF Released, On, FileInv, FileOK, WriterHolds, Owner
<1> QED BY <1>1, <1>2

LEMMA SetsWalFile ==
    ASSUME FileInv, NEW p \in Command, pc[p] # "transact", SetsWal(p)
    PROVE  file' # None => /\ file # None /\ file' \in File /\ file'.id = file.id
                           /\ file'.writer \in {file.writer, None} /\ file'.writer # p
<1>1. file # None => file.writer # p
  BY FileAssumption DEF FileInv, WriterHolds, Owner
<1>2. CASE On(p)
  BY <1>1, <1>2, FileInMode DEF SetsWal, On, FileInv, FileOK, SameContent
<1>3. CASE ~ On(p)
  BY <1>1, <1>3 DEF SetsWal, FileInv, FileOK
<1> QED BY <1>2, <1>3

LEMMA WriterStep == FileInv /\ [FileNext]_fileVars => WriterHolds'
<1> SUFFICES ASSUME FileInv, [FileNext]_fileVars PROVE WriterHolds'
  OBVIOUS
<1> USE FileAssumption, FileFields DEF FileInv, JobsOK, FileOK, WriterHolds, SameContent, Step, Outcome
<1>1. ASSUME NEW p \in Command, LegacyOpen(p) PROVE WriterHolds'
  BY <1>1, Goes_, OpenStoreMakes, NewFile, OpenedFile, OpenStoreGood
  DEF LegacyOpen, Step
<1>2. ASSUME NEW p \in Command, LegacyAdd(p) PROVE WriterHolds'
  BY <1>2, Goes_, FileWithMemory
  DEF LegacyAdd, LegacyWrites
<1>2a. ASSUME NEW p \in Command, LegacyDelete(p) PROVE WriterHolds'
  BY <1>2a, FileWithout DEF LegacyDelete, LegacyWrites, jobVars
<1>2b. ASSUME NEW p \in Command, LegacyDone(p) PROVE WriterHolds'
  BY <1>2b, Ends_ DEF LegacyDone
<1>2c. ASSUME NEW p \in Command, LegacyClear(p) PROVE WriterHolds'
  BY <1>2c, Ends_, FileWithout DEF LegacyClear, LegacyWrites
<1>2d. ASSUME NEW p \in Command, LegacyFails(p) PROVE WriterHolds'
  BY <1>2d, Ends_, TargetFile DEF LegacyFails
<1>3. ASSUME NEW p \in Command, StartInit(p) PROVE WriterHolds'
  BY <1>3, Goes_, Ends_
  DEF StartInit, MayStart
<1>4. ASSUME NEW p \in Command, CreateStore(p) PROVE WriterHolds'
  BY <1>4, Goes_, OpenStoreMakes, NewFile, OpenedFile, OpenStoreGood
  DEF CreateStore, Step
<1>5. ASSUME NEW p \in Command, StartMigrate(p) PROVE WriterHolds'
  BY <1>5, Goes_, Ends_
  DEF StartMigrate, MayStart
<1>6. ASSUME NEW p \in Command, StartBackup(p) PROVE WriterHolds'
  BY <1>6, Goes_, Connects_
  DEF StartBackup
<1>7. ASSUME NEW p \in Command, FinishBackup(p) PROVE WriterHolds'
  BY <1>7, Goes_, Connects_
  DEF FinishBackup, On, Disconnects
<1>8. ASSUME NEW p \in Command, Fingerprint(p) PROVE WriterHolds'
  BY <1>8, Goes_
  DEF Fingerprint
<1>9. ASSUME NEW p \in Command, BeginMigration(p) PROVE WriterHolds'
  BY <1>9, Goes_, Connects_, TargetFile, TargetFile, LockedFile
  DEF BeginMigration, ConnectsToWrite, MakesSchema
<1>10. ASSUME NEW p \in Command, Transact(p) PROVE WriterHolds'
  BY <1>10, Goes_, Ends_, GivesUp_, Connects_, UnlockedFile, MigratedFile
  DEF Transact, On, Disconnects, MakesSchema
<1>11. ASSUME NEW p \in Command, Reopen(p) PROVE WriterHolds'
  BY <1>11, Goes_, Ends_, GivesUp_
  DEF Reopen
<1>12. ASSUME NEW p \in Command, WriteConfig(p) PROVE WriterHolds'
  BY <1>12, Ends_
  DEF WriteConfig
<1>13. ASSUME NEW p \in Command, Cleanup(p) PROVE WriterHolds'
  BY <1>13, Ends_
  DEF Cleanup
<1>14. ASSUME NEW p \in Command, Raises(p) PROVE WriterHolds'
  <2>1. \A q \in Command \ {p} : pc'[q] = pc[q] /\ conn'[q] = conn[q]
    BY <1>14, Goes_, Ends_, GivesUp_, Connects_ DEF Raises, Disconnects, FileInv, JobsOK, Step, Outcome
  <2>2. file' # None =>
          /\ file # None /\ file' \in File /\ file'.id = file.id
          /\ file'.writer \in {file.writer, None} /\ file'.writer # p
    BY <1>14, ReleasedFile DEF Raises
  <2> QED BY <2>1, <2>2, WriterKept
<1>15. ASSUME NEW p \in Command, OpenRepository(p) PROVE WriterHolds'
  BY <1>15, Goes_, Ends_, Connects_
  DEF OpenRepository, MayStart, IsAuthority
<1>16. ASSUME NEW p \in Command, RepairWal(p) PROVE WriterHolds'
  <2>1. \A q \in Command \ {p} : pc'[q] = pc[q] /\ conn'[q] = conn[q]
    BY <1>16, Ends_, Connects_, SetsWalStranded DEF RepairWal, Disconnects, FileInv, JobsOK, Step, Outcome
  <2>2. file' # None =>
          /\ file # None /\ file' \in File /\ file'.id = file.id
          /\ file'.writer \in {file.writer, None} /\ file'.writer # p
    BY <1>16, SetsWalFile, FileAssumption DEF RepairWal, FileInv, FileOK, WriterHolds, Owner
  <2> QED BY <2>1, <2>2, WriterKept
<1>17. ASSUME NEW p \in Command, StartCutover(p) PROVE WriterHolds'
  BY <1>17, Goes_, Connects_, LockedFile
  DEF StartCutover, IsAuthority
<1>18. ASSUME NEW p \in Command, Cutover(p) PROVE WriterHolds'
  <2>1. \A q \in Command \ {p} : pc'[q] = pc[q] /\ conn'[q] = conn[q]
    BY <1>18, Ends_, Connects_ DEF Cutover, Disconnects, FileInv, JobsOK, Step, Outcome
  <2>2. CASE file' = Unlocked(CutOver(file)) /\ On(p)
    <3>1. file' \in File /\ file'.id = file.id /\ file'.writer = None
      BY <2>2, GenerationFile, UnlockedFile DEF On, FileInv, FileOK, SameContent
    <3> QED BY <2>1, <2>2, <3>1, WriterKept, FileAssumption DEF On, Owner
  <2>3. CASE file' = Released(p)
    BY <2>1, <2>3, ReleasedFile, WriterKept
  <2> QED BY <1>18, <2>2, <2>3 DEF Cutover
<1>19. ASSUME NEW p \in Command, Preflight(p) PROVE WriterHolds'
  BY <1>19, Goes_, Ends_
  DEF Preflight, MayStart
<1>20. ASSUME NEW p \in Command, LeaveWal(p) PROVE WriterHolds'
  BY <1>20, Goes_, Connects_, TargetFile, TargetFile, FileInMode
  DEF LeaveWal, ConnectsToWrite
<1>21. ASSUME NEW p \in Command, LeaveWalFails(p) PROVE WriterHolds'
  BY <1>21, Ends_
  DEF LeaveWalFails
<1>22. ASSUME NEW p \in Command, BeginCleanup(p) PROVE WriterHolds'
  BY <1>22, Goes_, LockedFile
  DEF BeginCleanup, On
<1>23. ASSUME NEW p \in Command, CleanUp(p) PROVE WriterHolds'
  <2>1. \A q \in Command \ {p} : pc'[q] = pc[q] /\ conn'[q] = conn[q]
    BY <1>23 DEF CleanUp, AfterCleaning, FileInv, JobsOK, Step, Outcome
  <2>2. CASE file' = Unlocked(CleanedUp(file)) /\ On(p)
    <3>1. file' \in File /\ file'.id = file.id /\ file'.writer = None
      BY <2>2, GenerationFile, UnlockedFile DEF On, FileInv, FileOK, SameContent
    <3> QED BY <2>1, <2>2, <3>1, WriterKept, FileAssumption DEF On, Owner
  <2>3. CASE file' = Released(p)
    BY <2>1, <2>3, ReleasedFile, WriterKept
  <2>4. CASE ~ On(p) /\ UNCHANGED file
    BY <2>1, <2>4, WriterKept DEF On, FileInv, FileOK, WriterHolds
  <2> QED BY <1>23, <2>2, <2>3, <2>4 DEF CleanUp
<1>24. ASSUME NEW p \in Command, CleanUpFails(p) PROVE WriterHolds'
  <2>1. \A q \in Command \ {p} : pc'[q] = pc[q] /\ conn'[q] = conn[q]
    BY <1>24 DEF CleanUpFails, AfterCleaning, FileInv, JobsOK, Step, Outcome
  <2>2. file' # None =>
          /\ file # None /\ file' \in File /\ file'.id = file.id
          /\ file'.writer \in {file.writer, None} /\ file'.writer # p
    BY <1>24, ReleasedFile DEF CleanUpFails
  <2> QED BY <2>1, <2>2, WriterKept
<1>25. ASSUME NEW p \in Command, RestoreWal(p) PROVE WriterHolds'
  <2>1. \A q \in Command \ {p} : pc'[q] = pc[q] /\ conn'[q] = conn[q]
    BY <1>25, Ends_, Connects_, SetsWalStranded DEF RestoreWal, Disconnects, FileInv, JobsOK, Step, Outcome
  <2>2. file' # None =>
          /\ file # None /\ file' \in File /\ file'.id = file.id
          /\ file'.writer \in {file.writer, None} /\ file'.writer # p
    BY <1>25, SetsWalFile DEF RestoreWal
  <2> QED BY <2>1, <2>2, WriterKept
<1>26. ASSUME NEW p \in Command, RestoreWalFails(p) PROVE WriterHolds'
  BY <1>26, Ends_, Connects_, StrandedTyped
  DEF RestoreWalFails, Disconnects
<1>27. ASSUME NEW p \in Command, Kill(p) PROVE WriterHolds'
  <2>1. \A q \in Command \ {p} : pc'[q] = pc[q] /\ conn'[q] = conn[q]
    BY <1>27, Ends_, Connects_, StrandedTyped DEF Kill, Disconnects, FileInv, JobsOK, Step, Outcome
  <2>2. file' # None =>
          /\ file # None /\ file' \in File /\ file'.id = file.id
          /\ file'.writer \in {file.writer, None} /\ file'.writer # p
    BY <1>27, ReleasedFile DEF Kill
  <2> QED BY <2>1, <2>2, WriterKept
<1>28. CASE StartBuild
  BY <1>28, GenerationFile DEF StartBuild, IsAuthority, jobVars
<1>29. CASE UNCHANGED fileVars
  BY <1>29 DEF fileVars
<1> QED
  BY <1>1, <1>2, <1>2a, <1>2b, <1>2c, <1>2d, <1>3, <1>4, <1>5, <1>6, <1>7, <1>8, <1>9, <1>10, <1>11, <1>12, <1>13, <1>14, <1>15, <1>16, <1>17, <1>18, <1>19, <1>20, <1>21, <1>22, <1>23, <1>24, <1>25, <1>26, <1>27, <1>28, <1>29
  DEF FileNext, CommandStep, InitStep, MigrateStep, SchemaStep, MaintenanceStep, LegacyStep

LEMMA FileInvInit == FileInit => FileInv
<1> SUFFICES ASSUME FileInit PROVE FileInv
  OBVIOUS
<1>1. Sane(LegacyFile) /\ Sane(AuthorityFile) /\ Founder # None
  BY FoundFiles, FileAssumption DEF Sane, Owner
<1>2. FileOK /\ WriterHolds
  BY <1>1, FoundFiles, FileAssumption DEF FileInit, FileOK, Sane, WriterHolds
<1>3. made \in 0..MaxFiles /\ config \in Owner \cup {None}
  BY FileAssumption DEF FileInit, Owner
<1>4. /\ pc \in [Command -> Step] /\ conn \in [Command -> 0..MaxFiles]
      /\ since \in [Command -> 0..MaxFiles] /\ seen \in [Command -> SUBSET Memory]
      /\ backup \in [Command -> Snapshot \cup {None}] /\ outcome \in [Command -> Outcome]
      /\ \A p \in Command : pc[p] = "idle"
  BY FileAssumption DEF FileInit, Step, Outcome
<1>5. stranded \subseteq 1..MaxFiles /\ cleaned \subseteq Command
  BY DEF FileInit
<1> QED BY <1>2, <1>3, <1>4, <1>5 DEF FileInv, JobsOK

LEMMA FileInvStep == FileInv /\ [FileNext]_fileVars => FileInv'
BY JobsStep, FileStep, WriterStep DEF FileInv

\* The types of the state, for any number of commands and files (FileTypeOK).
THEOREM FileTypeCorrect == FileSpec => []FileTypeOK
<1>1. FileInv => FileTypeOK
  BY InvTyped
<1> QED BY <1>1, FileInvInit, FileInvStep, PTL DEF FileSpec

-----------------------------------------------------------------------------
(* What a step may make of the file at the path. *)

\* A generation that is searched, or will be, has its vectors.
Searchable(f) == f.gen \in {"building", "cut_over"} => f.vectors

\* A file that has the tables of the store is in WAL.
InWal(f) == f.tables => f.mode = "wal"

\* The same file, with all that it has to keep; a memory that it lacks was deleted.
Kept(f, g) ==
    /\ g.id = f.id
    /\ f.owner # None => g.owner = f.owner
    /\ f.version = 1 => g.version = 1 /\ g.meta = f.meta
    /\ f.rows \subseteq g.rows \cup g.lost /\ f.lost \subseteq g.lost
    /\ f.meta \subseteq g.meta
    /\ f.gen = "cut_over" => g.gen = "cut_over"
    /\ Searchable(f) => Searchable(g)

Moved(f, g) == Kept(f, g) /\ f.rows \subseteq g.rows /\ (InWal(f) => InWal(g))

LEMMA SameMoved == \A f : Moved(f, f)
BY DEF Moved, Kept

LEMMA MovedOn ==
    ASSUME NEW f, NEW g, NEW h, Moved(f, g), Moved(g, h), f.owner # None => g.owner # None
    PROVE  Moved(f, h)
BY DEF Moved, Kept

LEMMA EditsMoved ==
    ASSUME NEW f \in File, Sane(f), NEW p \in Command
    PROVE  /\ Moved(f, Unlocked(f)) /\ Moved(f, Locked(f, p)) /\ Moved(f, Opened(f))
           /\ Moved(f, InMode(f, "wal"))
           /\ Kept(f, InMode(f, "delete")) /\ f.rows = InMode(f, "delete").rows
           /\ Kind[p] = "legacy" => Moved(f, WithMemory(f, p))
           /\ Moved(f, Migrated(f, p))
           /\ f.gen = "building" => Moved(f, CutOver(f)) /\ Moved(f, CleanedUp(f))
<1> USE DEF Moved, Kept, Searchable, InWal
<1>1. Moved(f, Unlocked(f)) /\ Moved(f, Locked(f, p)) /\ Moved(f, Opened(f))
  BY UnlockedFile, LockedFile, OpenedFile DEF SameContent
<1>2. /\ Moved(f, InMode(f, "wal"))
      /\ Kept(f, InMode(f, "delete")) /\ f.rows = InMode(f, "delete").rows
  BY FileInMode DEF SameContent
<1>3. Kind[p] = "legacy" => Moved(f, WithMemory(f, p))
  BY FileWithMemory
<1>4. Moved(f, Migrated(f, p))
  BY MigratedFile, FileFields DEF Sane
<1>5. f.gen = "building" => Moved(f, CutOver(f)) /\ Moved(f, CleanedUp(f))
  BY GenerationFile DEF SameContent
<1> QED BY <1>1, <1>2, <1>3, <1>4, <1>5

LEMMA WithoutKept ==
    ASSUME NEW f \in File, NEW gone \in SUBSET f.rows
    PROVE  Kept(f, Without(f, gone)) /\ (InWal(f) => InWal(Without(f, gone)))
BY FileWithout DEF Kept, Searchable, InWal

LEMMA BuiltMoved == ASSUME NEW f \in File, f.gen = "none" PROVE Moved(f, Built(f))
BY GenerationFile DEF Moved, Kept, Searchable, InWal, SameContent

\* A file that is made.
Fresh(f) == /\ f.id = made + 1 /\ made' = made + 1
            /\ f.gen = "none" /\ f.version = 0 /\ f.rows = {} /\ InWal(f)

LeavesWal == \E p \in Command : LeaveWal(p)

\* Only these steps take a memory from the file.
TakesMemory == \E p \in Command : LegacyDelete(p) \/ LegacyClear(p)

\* The file at the path is unlinked, or made, or stays what it was but for what the
\* commands may change.
Changes == file' # None =>
    \/ file = None /\ Fresh(file')
    \/ file # None /\ Kept(file, file') /\ made' = made
          /\ ((InWal(file) => InWal(file')) \/ LeavesWal)
          /\ (file.rows \subseteq file'.rows \/ TakesMemory)

LEMMA Stays == ASSUME UNCHANGED <<file, made>> PROVE Changes
BY SameMoved DEF Changes, Moved

LEMMA MovesOn ==
    ASSUME file # None, UNCHANGED made, Moved(file, file') PROVE Changes
BY DEF Changes, Moved

LEMMA ReleasedChanges ==
    ASSUME FileInv, NEW p \in Command, file' = Released(p), UNCHANGED made PROVE Changes
<1>1. CASE On(p) /\ file.writer = p
  BY <1>1, EditsMoved, MovesOn DEF Released, On, FileInv, FileOK
<1>2. CASE ~ (On(p) /\ file.writer = p)
  BY <1>2, Stays DEF Released
<1> QED BY <1>1, <1>2

LEMMA SetsWalChanges ==
    ASSUME FileInv, NEW p \in Command, SetsWal(p), UNCHANGED made PROVE Changes
<1>1. CASE On(p)
  BY <1>1, EditsMoved, MovesOn DEF SetsWal, On, FileInv, FileOK
<1>2. CASE ~ On(p)
  BY <1>2, Stays DEF SetsWal
<1> QED BY <1>1, <1>2

LEMMA OpenStoreChanges ==
    ASSUME FileInv, NEW p \in Command, NEW s \in Step, OpenStore(s, p) PROVE Changes
<1>1. CASE file = None
  <2>1. made < MaxFiles /\ made' = made + 1 /\ file' = New(TRUE, "wal") /\ made \in 0..MaxFiles
    BY <1>1 DEF OpenStore, FileInv, JobsOK
  <2>2. /\ New(TRUE, "wal").id = made + 1 /\ New(TRUE, "wal").version = 0
        /\ New(TRUE, "wal").gen = "none" /\ New(TRUE, "wal").rows = {}
        /\ New(TRUE, "wal").mode = "wal"
    BY <2>1, NewFile
  <2> QED BY <1>1, <2>1, <2>2 DEF Changes, Fresh, InWal
<1>2. CASE file # None
  BY <1>2, EditsMoved, MovesOn DEF OpenStore, FileInv, FileOK
<1> QED BY <1>1, <1>2

\* Where there is no file, SQLite makes one without tables.
LEMMA TargetMakes ==
    ASSUME FileInv, file = None, made < MaxFiles, made' = made + 1 PROVE Fresh(Target)
<1>1. made \in 0..MaxFiles
  BY DEF FileInv, JobsOK
<1> QED BY <1>1, TargetFile DEF Fresh, InWal

\* A command that connects where there is no file makes one without tables.
LEMMA ConnectsMakes ==
    ASSUME FileInv, NEW p \in Command, ConnectsToWrite(p), file = None,
           NEW g \in {Locked(Target, p), InMode(Target, "delete")}
    PROVE  Fresh(g)
<1>1. made < MaxFiles /\ made' = made + 1 /\ made \in 0..MaxFiles
  BY DEF ConnectsToWrite, FileInv, JobsOK
<1>2. /\ Target \in File /\ Target.id = made + 1 /\ Target.version = 0
      /\ Target.gen = "none" /\ Target.rows = {} /\ ~ Target.tables
  BY <1>1, TargetFile
<1>3. CASE g = Locked(Target, p)
  BY <1>1, <1>2, <1>3, LockedFile DEF Fresh, InWal, SameContent
<1>4. CASE g = InMode(Target, "delete")
  BY <1>1, <1>2, <1>4, FileInMode DEF Fresh, InWal, SameContent
<1> QED BY <1>3, <1>4

LEMMA ChangesStep == FileInv /\ [FileNext]_fileVars => Changes
<1> SUFFICES ASSUME FileInv, [FileNext]_fileVars PROVE Changes
  OBVIOUS
<1>1. ASSUME NEW p \in Command, LegacyOpen(p) PROVE Changes
  BY <1>1, OpenStoreChanges
  DEF LegacyOpen, Step
<1>2. ASSUME NEW p \in Command, LegacyAdd(p) PROVE Changes
  <2>1. Moved(file, WithMemory(file, p))
    BY <1>2, EditsMoved DEF LegacyAdd, LegacyWrites, FileInv, FileOK
  <2> QED BY <1>2, <2>1, MovesOn DEF LegacyAdd, LegacyWrites
<1>2a. ASSUME NEW p \in Command, LegacyDelete(p) PROVE Changes
  <2>1. PICK m \in file.rows : file' = Without(file, {m})
    BY <1>2a DEF LegacyDelete
  <2>2. TakesMemory /\ file # None /\ made' = made
    BY <1>2a DEF TakesMemory, LegacyDelete, LegacyWrites
  <2> QED BY <2>1, <2>2, WithoutKept DEF Changes, FileInv, FileOK
<1>2b. ASSUME NEW p \in Command, LegacyDone(p) PROVE Changes
  BY <1>2b, Stays DEF LegacyDone
<1>2c. ASSUME NEW p \in Command, LegacyClear(p) PROVE Changes
  <2>1. TakesMemory /\ file # None /\ made' = made /\ file' = Without(file, file.rows)
    BY <1>2c DEF TakesMemory, LegacyClear, LegacyWrites
  <2> QED BY <2>1, WithoutKept DEF Changes, FileInv, FileOK
<1>2d. ASSUME NEW p \in Command, LegacyFails(p) PROVE Changes
  <2>1. CASE file = None
    BY <1>2d, <2>1, TargetMakes DEF LegacyFails, Changes
  <2>2. CASE file # None
    BY <1>2d, <2>2, Stays DEF LegacyFails, Target
  <2> QED BY <2>1, <2>2
<1>3. ASSUME NEW p \in Command, StartInit(p) PROVE Changes
  BY <1>3, Stays
  DEF StartInit
<1>4. ASSUME NEW p \in Command, CreateStore(p) PROVE Changes
  BY <1>4, OpenStoreChanges
  DEF CreateStore, Step
<1>5. ASSUME NEW p \in Command, StartMigrate(p) PROVE Changes
  BY <1>5, Stays
  DEF StartMigrate
<1>6. ASSUME NEW p \in Command, StartBackup(p) PROVE Changes
  BY <1>6, Stays
  DEF StartBackup
<1>7. ASSUME NEW p \in Command, FinishBackup(p) PROVE Changes
  BY <1>7, Stays
  DEF FinishBackup
<1>8. ASSUME NEW p \in Command, Fingerprint(p) PROVE Changes
  BY <1>8, Stays
  DEF Fingerprint
<1>9. ASSUME NEW p \in Command, BeginMigration(p) PROVE Changes
  <2>1. CASE file = None
    BY <1>9, <2>1, ConnectsMakes DEF BeginMigration, Changes
  <2>2. CASE file # None
    BY <1>9, <2>2, EditsMoved, MovesOn
    DEF BeginMigration, ConnectsToWrite, Target, FileInv, FileOK
  <2> QED BY <2>1, <2>2
<1>10. ASSUME NEW p \in Command, Transact(p) PROVE Changes
  <2>1. CASE On(p) /\ Commits(p) /\ file' = Unlocked(Migrated(file, p))
    <3>1. /\ Again(file, Migrated(file, p)) /\ Moved(file, Migrated(file, p))
          /\ Sane(file)
      BY <2>1, EditsSane, EditsMoved DEF Commits, On, FileInv, FileOK
    <3>2. Moved(Migrated(file, p), Unlocked(Migrated(file, p)))
      BY <3>1, EditsMoved DEF Again
    <3>3. file.owner # None => Migrated(file, p).owner # None
      BY <3>1 DEF Moved, Kept
    <3> QED BY <1>10, <2>1, <3>1, <3>2, <3>3, MovedOn, MovesOn DEF Transact, On
  <2>2. CASE On(p) /\ file' = Unlocked(file)
    BY <1>10, <2>2, EditsMoved, MovesOn DEF Transact, On, FileInv, FileOK
  <2>3. CASE UNCHANGED file
    BY <1>10, <2>3, Stays DEF Transact
  <2> QED BY <1>10, <2>1, <2>2, <2>3 DEF Transact
<1>11. ASSUME NEW p \in Command, Reopen(p) PROVE Changes
  BY <1>11, Stays
  DEF Reopen
<1>12. ASSUME NEW p \in Command, WriteConfig(p) PROVE Changes
  BY <1>12, Stays
  DEF WriteConfig
<1>13. ASSUME NEW p \in Command, Cleanup(p) PROVE Changes
  BY <1>13 DEF Cleanup, Changes
<1>14. ASSUME NEW p \in Command, Raises(p) PROVE Changes
  BY <1>14, ReleasedChanges
  DEF Raises
<1>15. ASSUME NEW p \in Command, OpenRepository(p) PROVE Changes
  BY <1>15, Stays
  DEF OpenRepository
<1>16. ASSUME NEW p \in Command, RepairWal(p) PROVE Changes
  BY <1>16, SetsWalChanges, Stays
  DEF RepairWal
<1>17. ASSUME NEW p \in Command, StartCutover(p) PROVE Changes
  BY <1>17, EditsMoved, MovesOn DEF StartCutover, IsAuthority, FileInv, FileOK
<1>18. ASSUME NEW p \in Command, Cutover(p) PROVE Changes
  <2>1. CASE On(p) /\ Building /\ file' = Unlocked(CutOver(file))
    <3>1. Again(file, CutOver(file)) /\ Moved(file, CutOver(file)) /\ Sane(file)
      BY <2>1, EditsSane, EditsMoved DEF Building, IsAuthority, FileInv, FileOK
    <3>2. Moved(CutOver(file), Unlocked(CutOver(file)))
      BY <3>1, EditsMoved DEF Again
    <3>3. file.owner # None => CutOver(file).owner # None
      BY <3>1 DEF Moved, Kept
    <3> QED BY <1>18, <2>1, <3>1, <3>2, <3>3, MovedOn, MovesOn DEF Cutover, On
  <2>2. CASE file' = Released(p)
    BY <1>18, <2>2, ReleasedChanges DEF Cutover
  <2> QED BY <1>18, <2>1, <2>2 DEF Cutover
<1>19. ASSUME NEW p \in Command, Preflight(p) PROVE Changes
  BY <1>19, Stays
  DEF Preflight
<1>20. ASSUME NEW p \in Command, LeaveWal(p) PROVE Changes
  <2>1. CASE file = None
    BY <1>20, <2>1, ConnectsMakes DEF LeaveWal, Changes
  <2>2. CASE file # None
    <3>1. Kept(file, InMode(file, "delete")) /\ file.rows = InMode(file, "delete").rows
      BY <2>2, EditsMoved DEF FileInv, FileOK
    <3>2. LeavesWal
      BY <1>20 DEF LeavesWal
    <3> QED BY <1>20, <2>2, <3>1, <3>2 DEF LeaveWal, ConnectsToWrite, Target, Changes
  <2> QED BY <2>1, <2>2
<1>21. ASSUME NEW p \in Command, LeaveWalFails(p) PROVE Changes
  BY <1>21, Stays
  DEF LeaveWalFails
<1>22. ASSUME NEW p \in Command, BeginCleanup(p) PROVE Changes
  <2>1. file # None => Moved(file, Locked(file, p))
    BY EditsMoved DEF FileInv, FileOK
  <2> QED BY <1>22, <2>1, MovesOn, Stays DEF BeginCleanup, On
<1>23. ASSUME NEW p \in Command, CleanUp(p) PROVE Changes
  <2>1. CASE On(p) /\ MayClean(p) /\ file' = Unlocked(CleanedUp(file))
    <3>1. Again(file, CleanedUp(file)) /\ Moved(file, CleanedUp(file)) /\ Sane(file)
      BY <2>1, EditsSane, EditsMoved DEF MayClean, Building, IsAuthority, FileInv, FileOK
    <3>2. Moved(CleanedUp(file), Unlocked(CleanedUp(file)))
      BY <3>1, EditsMoved DEF Again
    <3>3. file.owner # None => CleanedUp(file).owner # None
      BY <3>1 DEF Moved, Kept
    <3> QED BY <1>23, <2>1, <3>1, <3>2, <3>3, MovedOn, MovesOn DEF CleanUp, On
  <2>2. CASE file' = Released(p)
    BY <1>23, <2>2, ReleasedChanges DEF CleanUp
  <2>3. CASE UNCHANGED file
    BY <1>23, <2>3, Stays DEF CleanUp
  <2> QED BY <1>23, <2>1, <2>2, <2>3 DEF CleanUp
<1>24. ASSUME NEW p \in Command, CleanUpFails(p) PROVE Changes
  BY <1>24, ReleasedChanges
  DEF CleanUpFails
<1>25. ASSUME NEW p \in Command, RestoreWal(p) PROVE Changes
  BY <1>25, SetsWalChanges
  DEF RestoreWal
<1>26. ASSUME NEW p \in Command, RestoreWalFails(p) PROVE Changes
  BY <1>26, Stays
  DEF RestoreWalFails
<1>27. ASSUME NEW p \in Command, Kill(p) PROVE Changes
  BY <1>27, ReleasedChanges
  DEF Kill
<1>28. CASE StartBuild
  BY <1>28, BuiltMoved, MovesOn DEF StartBuild, IsAuthority, FileInv, FileOK
<1>29. CASE UNCHANGED fileVars
  BY <1>29, Stays DEF fileVars
<1> QED
  BY <1>1, <1>2, <1>2a, <1>2b, <1>2c, <1>2d, <1>3, <1>4, <1>5, <1>6, <1>7, <1>8, <1>9, <1>10, <1>11, <1>12, <1>13, <1>14, <1>15, <1>16, <1>17, <1>18, <1>19, <1>20, <1>21, <1>22, <1>23, <1>24, <1>25, <1>26, <1>27, <1>28, <1>29
  DEF FileNext, CommandStep, InitStep, MigrateStep, SchemaStep, MaintenanceStep, LegacyStep

\* A step of one command leaves the others where they are, and makes one file at most.
OthersStay(p) ==
    /\ \A q \in Command \ {p} :
          /\ pc'[q] = pc[q] /\ conn'[q] = conn[q] /\ outcome'[q] = outcome[q]
          /\ since'[q] = since[q] /\ seen'[q] = seen[q] /\ backup'[q] = backup[q]
          /\ q \in cleaned' <=> q \in cleaned
    /\ made' \in {made, made + 1}

LEMMA OneMoves == ASSUME FileInv, NEW p \in Command, CommandStep(p) PROVE OthersStay(p)
<1>1. ASSUME LegacyOpen(p) PROVE OthersStay(p)
  BY <1>1
  DEF LegacyOpen, OpenStore, Goes, FileInv, JobsOK, OthersStay, Step, Outcome
<1>2. ASSUME LegacyAdd(p) PROVE OthersStay(p)
  BY <1>2
  DEF LegacyAdd, Goes, FileInv, JobsOK, OthersStay, Step, Outcome
<1>2a. ASSUME LegacyDelete(p) PROVE OthersStay(p)
  BY <1>2a
  DEF LegacyDelete, jobVars, OthersStay
<1>2b. ASSUME LegacyDone(p) PROVE OthersStay(p)
  BY <1>2b
  DEF LegacyDone, Ends, FileInv, JobsOK, OthersStay, Step, Outcome
<1>2c. ASSUME LegacyClear(p) PROVE OthersStay(p)
  BY <1>2c
  DEF LegacyClear, Ends, FileInv, JobsOK, OthersStay, Step, Outcome
<1>2d. ASSUME LegacyFails(p) PROVE OthersStay(p)
  BY <1>2d
  DEF LegacyFails, Ends, FileInv, JobsOK, OthersStay, Step, Outcome
<1>3. ASSUME StartInit(p) PROVE OthersStay(p)
  BY <1>3
  DEF StartInit, Goes, Ends, FileInv, JobsOK, OthersStay, Step, Outcome
<1>4. ASSUME CreateStore(p) PROVE OthersStay(p)
  BY <1>4
  DEF CreateStore, OpenStore, Goes, FileInv, JobsOK, OthersStay, Step, Outcome
<1>5. ASSUME StartMigrate(p) PROVE OthersStay(p)
  BY <1>5
  DEF StartMigrate, Goes, Ends, FileInv, JobsOK, OthersStay, Step, Outcome
<1>6. ASSUME StartBackup(p) PROVE OthersStay(p)
  BY <1>6
  DEF StartBackup, Goes, Connects, FileInv, JobsOK, OthersStay, Step, Outcome
<1>7. ASSUME FinishBackup(p) PROVE OthersStay(p)
  BY <1>7
  DEF FinishBackup, Goes, Disconnects, Connects, FileInv, JobsOK, OthersStay, Step, Outcome
<1>8. ASSUME Fingerprint(p) PROVE OthersStay(p)
  BY <1>8
  DEF Fingerprint, Goes, FileInv, JobsOK, OthersStay, Step, Outcome
<1>9. ASSUME BeginMigration(p) PROVE OthersStay(p)
  BY <1>9
  DEF BeginMigration, ConnectsToWrite, Connects, Goes, FileInv, JobsOK, OthersStay, Step, Outcome
<1>10. ASSUME Transact(p) PROVE OthersStay(p)
  BY <1>10
  DEF Transact, Goes, GivesUp, Ends, Disconnects, Connects, FileInv, JobsOK, OthersStay, Step, Outcome
<1>11. ASSUME Reopen(p) PROVE OthersStay(p)
  BY <1>11
  DEF Reopen, Goes, Ends, GivesUp, FileInv, JobsOK, OthersStay, Step, Outcome
<1>12. ASSUME WriteConfig(p) PROVE OthersStay(p)
  BY <1>12
  DEF WriteConfig, Ends, FileInv, JobsOK, OthersStay, Step, Outcome
<1>13. ASSUME Cleanup(p) PROVE OthersStay(p)
  BY <1>13
  DEF Cleanup, Ends, FileInv, JobsOK, OthersStay, Step, Outcome
<1>14. ASSUME Raises(p) PROVE OthersStay(p)
  BY <1>14
  DEF Raises, GivesUp, Goes, Ends, Disconnects, Connects, FileInv, JobsOK, OthersStay, Step, Outcome
<1>15. ASSUME OpenRepository(p) PROVE OthersStay(p)
  BY <1>15
  DEF OpenRepository, Goes, Ends, Connects, FileInv, JobsOK, OthersStay, Step, Outcome
<1>16. ASSUME RepairWal(p) PROVE OthersStay(p)
  BY <1>16
  DEF RepairWal, Ends, Disconnects, Connects, FileInv, JobsOK, OthersStay, Step, Outcome
<1>17. ASSUME StartCutover(p) PROVE OthersStay(p)
  BY <1>17
  DEF StartCutover, Connects, Goes, FileInv, JobsOK, OthersStay, Step, Outcome
<1>18. ASSUME Cutover(p) PROVE OthersStay(p)
  BY <1>18
  DEF Cutover, Ends, Disconnects, Connects, FileInv, JobsOK, OthersStay, Step, Outcome
<1>19. ASSUME Preflight(p) PROVE OthersStay(p)
  BY <1>19
  DEF Preflight, Goes, Ends, FileInv, JobsOK, OthersStay, Step, Outcome
<1>20. ASSUME LeaveWal(p) PROVE OthersStay(p)
  BY <1>20
  DEF LeaveWal, ConnectsToWrite, Connects, Goes, FileInv, JobsOK, OthersStay, Step, Outcome
<1>21. ASSUME LeaveWalFails(p) PROVE OthersStay(p)
  BY <1>21
  DEF LeaveWalFails, Ends, FileInv, JobsOK, OthersStay, Step, Outcome
<1>22. ASSUME BeginCleanup(p) PROVE OthersStay(p)
  BY <1>22
  DEF BeginCleanup, Goes, FileInv, JobsOK, OthersStay, Step, Outcome
<1>23. ASSUME CleanUp(p) PROVE OthersStay(p)
  BY <1>23
  DEF CleanUp, AfterCleaning, FileInv, JobsOK, OthersStay, Step, Outcome
<1>24. ASSUME CleanUpFails(p) PROVE OthersStay(p)
  BY <1>24
  DEF CleanUpFails, AfterCleaning, FileInv, JobsOK, OthersStay, Step, Outcome
<1>25. ASSUME RestoreWal(p) PROVE OthersStay(p)
  BY <1>25
  DEF RestoreWal, Ends, Disconnects, Connects, FileInv, JobsOK, OthersStay, Step, Outcome
<1>26. ASSUME RestoreWalFails(p) PROVE OthersStay(p)
  BY <1>26
  DEF RestoreWalFails, Ends, Disconnects, Connects, FileInv, JobsOK, OthersStay, Step, Outcome
<1>27. ASSUME Kill(p) PROVE OthersStay(p)
  BY <1>27
  DEF Kill, Ends, Disconnects, Connects, FileInv, JobsOK, OthersStay, Step, Outcome
<1> QED
  BY <1>1, <1>2, <1>2a, <1>2b, <1>2c, <1>2d, <1>3, <1>4, <1>5, <1>6, <1>7, <1>8, <1>9, <1>10, <1>11, <1>12, <1>13, <1>14, <1>15, <1>16, <1>17, <1>18, <1>19, <1>20, <1>21, <1>22, <1>23, <1>24, <1>25, <1>26, <1>27
  DEF CommandStep, InitStep, MigrateStep, SchemaStep, MaintenanceStep, LegacyStep

-----------------------------------------------------------------------------
(* Which commands take which steps. *)

\* What a command is, where it is.
KindOf(p) ==
    /\ pc[p] \in {"create", "config", "cleanup"} => Kind[p] = "init"
    /\ pc[p] \in {"backup", "copy", "fingerprint"} => Kind[p] = "migrate"
    /\ pc[p] \in {"switch", "restore"} => Kind[p] = "fail"
    /\ pc[p] \in {"add", "collect", "clear"} => Kind[p] = "legacy"

KindInv == FileInv /\ \A p \in Command : KindOf(p)

LEMMA KindMoves ==
    ASSUME KindInv, NEW p \in Command, CommandStep(p) PROVE KindOf(p)'
<1> USE DEF KindInv, KindOf, FileInv, JobsOK, Step, Outcome
<1>1. ASSUME LegacyOpen(p) PROVE KindOf(p)'
  BY <1>1
  DEF LegacyOpen, OpenStore, Goes, MakesSchema
<1>2. ASSUME LegacyAdd(p) PROVE KindOf(p)'
  BY <1>2
  DEF LegacyAdd, Goes, MakesSchema
<1>2a. ASSUME LegacyDelete(p) PROVE KindOf(p)'
  BY <1>2a
  DEF LegacyDelete, jobVars
<1>2b. ASSUME LegacyDone(p) PROVE KindOf(p)'
  BY <1>2b
  DEF LegacyDone, Ends
<1>2c. ASSUME LegacyClear(p) PROVE KindOf(p)'
  BY <1>2c
  DEF LegacyClear, Ends
<1>2d. ASSUME LegacyFails(p) PROVE KindOf(p)'
  BY <1>2d
  DEF LegacyFails, Ends
<1>3. ASSUME StartInit(p) PROVE KindOf(p)'
  BY <1>3
  DEF StartInit, Goes, Ends, MakesSchema
<1>4. ASSUME CreateStore(p) PROVE KindOf(p)'
  BY <1>4
  DEF CreateStore, OpenStore, Goes, MakesSchema
<1>5. ASSUME StartMigrate(p) PROVE KindOf(p)'
  BY <1>5
  DEF StartMigrate, Goes, Ends, MakesSchema
<1>6. ASSUME StartBackup(p) PROVE KindOf(p)'
  BY <1>6
  DEF StartBackup, Goes, Connects, MakesSchema
<1>7. ASSUME FinishBackup(p) PROVE KindOf(p)'
  BY <1>7
  DEF FinishBackup, Goes, Disconnects, Connects, MakesSchema
<1>8. ASSUME Fingerprint(p) PROVE KindOf(p)'
  BY <1>8
  DEF Fingerprint, Goes, MakesSchema
<1>9. ASSUME BeginMigration(p) PROVE KindOf(p)'
  BY <1>9
  DEF BeginMigration, ConnectsToWrite, Connects, Goes, MakesSchema
<1>10. ASSUME Transact(p) PROVE KindOf(p)'
  BY <1>10
  DEF Transact, Goes, GivesUp, Ends, Disconnects, Connects, MakesSchema
<1>11. ASSUME Reopen(p) PROVE KindOf(p)'
  BY <1>11
  DEF Reopen, Goes, Ends, GivesUp, MakesSchema
<1>12. ASSUME WriteConfig(p) PROVE KindOf(p)'
  BY <1>12
  DEF WriteConfig, Ends, MakesSchema
<1>13. ASSUME Cleanup(p) PROVE KindOf(p)'
  BY <1>13
  DEF Cleanup, Ends, MakesSchema
<1>14. ASSUME Raises(p) PROVE KindOf(p)'
  BY <1>14
  DEF Raises, GivesUp, Goes, Ends, Disconnects, Connects, MakesSchema
<1>15. ASSUME OpenRepository(p) PROVE KindOf(p)'
  BY <1>15
  DEF OpenRepository, Goes, Ends, Connects, MakesSchema
<1>16. ASSUME RepairWal(p) PROVE KindOf(p)'
  BY <1>16
  DEF RepairWal, Ends, Disconnects, Connects, MakesSchema
<1>17. ASSUME StartCutover(p) PROVE KindOf(p)'
  BY <1>17
  DEF StartCutover, Connects, Goes, MakesSchema
<1>18. ASSUME Cutover(p) PROVE KindOf(p)'
  BY <1>18
  DEF Cutover, Ends, Disconnects, Connects, MakesSchema
<1>19. ASSUME Preflight(p) PROVE KindOf(p)'
  BY <1>19
  DEF Preflight, Goes, Ends, MakesSchema
<1>20. ASSUME LeaveWal(p) PROVE KindOf(p)'
  BY <1>20
  DEF LeaveWal, ConnectsToWrite, Connects, Goes, MakesSchema
<1>21. ASSUME LeaveWalFails(p) PROVE KindOf(p)'
  BY <1>21
  DEF LeaveWalFails, Ends, MakesSchema
<1>22. ASSUME BeginCleanup(p) PROVE KindOf(p)'
  BY <1>22
  DEF BeginCleanup, Goes, MakesSchema
<1>23. ASSUME CleanUp(p) PROVE KindOf(p)'
  BY <1>23
  DEF CleanUp, AfterCleaning, MakesSchema
<1>24. ASSUME CleanUpFails(p) PROVE KindOf(p)'
  BY <1>24
  DEF CleanUpFails, AfterCleaning, MakesSchema
<1>25. ASSUME RestoreWal(p) PROVE KindOf(p)'
  BY <1>25
  DEF RestoreWal, Ends, Disconnects, Connects, MakesSchema
<1>26. ASSUME RestoreWalFails(p) PROVE KindOf(p)'
  BY <1>26
  DEF RestoreWalFails, Ends, Disconnects, Connects, MakesSchema
<1>27. ASSUME Kill(p) PROVE KindOf(p)'
  BY <1>27
  DEF Kill, Ends, Disconnects, Connects, MakesSchema
<1> QED
  BY <1>1, <1>2, <1>2a, <1>2b, <1>2c, <1>2d, <1>3, <1>4, <1>5, <1>6, <1>7, <1>8, <1>9, <1>10, <1>11, <1>12, <1>13, <1>14, <1>15, <1>16, <1>17, <1>18, <1>19, <1>20, <1>21, <1>22, <1>23, <1>24, <1>25, <1>26, <1>27
  DEF CommandStep, InitStep, MigrateStep, SchemaStep, MaintenanceStep, LegacyStep

LEMMA KindStep == KindInv /\ [FileNext]_fileVars => KindInv'
<1> SUFFICES ASSUME KindInv, [FileNext]_fileVars PROVE KindInv'
  OBVIOUS
<1>1. FileInv'
  BY FileInvStep DEF KindInv
<1>2. ASSUME NEW p \in Command, CommandStep(p), NEW q \in Command PROVE KindOf(q)'
  <2>1. CASE q = p
    BY <1>2, <2>1, KindMoves
  <2>2. CASE q # p
    <3>1. pc'[q] = pc[q]
      BY <1>2, <2>2, OneMoves DEF OthersStay, KindInv
    <3> QED BY <3>1 DEF KindInv, KindOf
  <2> QED BY <2>1, <2>2
<1>3. CASE StartBuild \/ UNCHANGED fileVars
  BY <1>1, <1>3 DEF StartBuild, jobVars, fileVars, KindInv, KindOf
<1> QED BY <1>1, <1>2, <1>3 DEF FileNext, KindInv

LEMMA KindInit == FileInit => KindInv
<1> SUFFICES ASSUME FileInit PROVE KindInv
  OBVIOUS
<1>1. \A p \in Command : pc[p] = "idle"
  BY DEF FileInit
<1> QED BY <1>1, FileInvInit DEF KindInv, KindOf

LEMMA FailSteps ==
    ASSUME KindInv, NEW p \in Command, CommandStep(p), Kind[p] = "fail"
    PROVE  MaintenanceStep(p) \/ Kill(p)
<1> USE DEF KindInv, KindOf
<1>1. ~ InitStep(p)
  BY DEF InitStep, StartInit, CreateStore, WriteConfig, Cleanup
<1>2. ~ MigrateStep(p)
  BY DEF MigrateStep, StartMigrate, StartBackup, FinishBackup, Fingerprint
<1>3. ~ SchemaStep(p)
  BY DEF SchemaStep, MakesSchema, BeginMigration, Transact, Reopen, Raises
<1>4. /\ ~ OpenRepository(p) /\ ~ RepairWal(p) /\ ~ StartCutover(p) /\ ~ Cutover(p)
  BY DEF OpenRepository, RepairWal, StartCutover, Cutover
<1>L. ~ LegacyStep(p)
  BY DEF LegacyStep, LegacyOpen, LegacyAdd, LegacyDelete, LegacyDone, LegacyClear, LegacyFails
<1> QED BY <1>1, <1>2, <1>3, <1>4, <1>L DEF CommandStep

LEMMA InitSteps ==
    ASSUME KindInv, NEW p \in Command, CommandStep(p), Kind[p] = "init"
    PROVE  InitStep(p) \/ SchemaStep(p) \/ Kill(p)
<1> USE DEF KindInv, KindOf
<1>1. ~ MigrateStep(p)
  BY DEF MigrateStep, StartMigrate, StartBackup, FinishBackup, Fingerprint
<1>2. ~ MaintenanceStep(p)
  BY DEF MaintenanceStep, Preflight, LeaveWal, LeaveWalFails, BeginCleanup, CleanUp, CleanUpFails, RestoreWal, RestoreWalFails
<1>3. /\ ~ OpenRepository(p) /\ ~ RepairWal(p) /\ ~ StartCutover(p) /\ ~ Cutover(p)
  BY DEF OpenRepository, RepairWal, StartCutover, Cutover
<1>L. ~ LegacyStep(p)
  BY DEF LegacyStep, LegacyOpen, LegacyAdd, LegacyDelete, LegacyDone, LegacyClear, LegacyFails
<1> QED BY <1>1, <1>2, <1>3, <1>L DEF CommandStep

LEMMA MigrateSteps ==
    ASSUME KindInv, NEW p \in Command, CommandStep(p), Kind[p] = "migrate"
    PROVE  MigrateStep(p) \/ SchemaStep(p) \/ Kill(p)
<1> USE DEF KindInv, KindOf
<1>1. ~ InitStep(p)
  BY DEF InitStep, StartInit, CreateStore, WriteConfig, Cleanup
<1>2. ~ MaintenanceStep(p)
  BY DEF MaintenanceStep, Preflight, LeaveWal, LeaveWalFails, BeginCleanup, CleanUp, CleanUpFails, RestoreWal, RestoreWalFails
<1>3. /\ ~ OpenRepository(p) /\ ~ RepairWal(p) /\ ~ StartCutover(p) /\ ~ Cutover(p)
  BY DEF OpenRepository, RepairWal, StartCutover, Cutover
<1>L. ~ LegacyStep(p)
  BY DEF LegacyStep, LegacyOpen, LegacyAdd, LegacyDelete, LegacyDone, LegacyClear, LegacyFails
<1> QED BY <1>1, <1>2, <1>3, <1>L DEF CommandStep

-----------------------------------------------------------------------------
(* What the commands keep between them. *)

\* A file keeps its owner and its metadata, and only a deletion of the legacy store
\* takes a memory from it, whichever commands run together (AuthorityKept).
THEOREM AuthorityKeptCorrect == FileSpec => AuthorityKept
<1>1. KindInv /\ [FileNext]_fileVars =>
        [SameFile => /\ file.owner # None => file'.owner = file.owner
                     /\ file.meta \subseteq file'.meta
                     /\ \/ file.rows \subseteq file'.rows
                        \/ \E p \in Command : LegacyDeletes(p)]_fileVars
  <2> SUFFICES ASSUME KindInv, [FileNext]_fileVars, SameFile
               PROVE  /\ file.owner # None => file'.owner = file.owner
                      /\ file.meta \subseteq file'.meta
                      /\ \/ file.rows \subseteq file'.rows
                         \/ \E p \in Command : LegacyDeletes(p)
    OBVIOUS
  <2>1. Kept(file, file') /\ (file.rows \subseteq file'.rows \/ TakesMemory)
    BY ChangesStep DEF Changes, SameFile, KindInv
  <2>2. TakesMemory => \E p \in Command : LegacyDeletes(p)
    BY DEF TakesMemory, LegacyDelete, LegacyClear, LegacyDeletes, KindInv, KindOf
  <2> QED BY <2>1, <2>2 DEF Kept
<1> QED
  BY <1>1, KindInit, KindStep, PTL DEF FileSpec, AuthorityKept

\* The vectors of a generation are there as long as it may be searched.
VectorsInv == file # None => Searchable(file)

LEMMA VectorsInit == FileInit => VectorsInv
BY FoundFiles DEF FileInit, VectorsInv, Searchable

LEMMA VectorsStep == FileInv /\ VectorsInv /\ [FileNext]_fileVars => VectorsInv'
BY ChangesStep DEF Changes, VectorsInv, Fresh, Kept, Searchable

\* A generation that is cut over stays so, with its vectors, whatever a maintenance
\* had found before (CutOverKept).
THEOREM CutOverKeptCorrect == FileSpec => CutOverKept
<1>1. FileInv /\ VectorsInv /\ VectorsInv' /\ [FileNext]_fileVars =>
        [SameFile /\ file.gen = "cut_over" => file'.gen = "cut_over" /\ file'.vectors]_fileVars
  BY ChangesStep DEF Changes, SameFile, Kept, VectorsInv, Searchable
<1> QED
  BY <1>1, FileInvInit, FileInvStep, VectorsInit, VectorsStep, PTL
  DEF FileSpec, CutOverKept

-----------------------------------------------------------------------------
(* What the caller of a maintenance is told. *)

Told(p) ==
    Kind[p] = "fail" =>
        /\ pc[p] \in {"idle", "switch", "begin", "transact"} => p \notin cleaned
        /\ pc[p] = "restore" => /\ outcome[p] \in {"ok", "refused", "failed"}
                                /\ outcome[p] = "ok" <=> p \in cleaned
        /\ pc[p] = "done" /\ outcome[p] # "killed"
              => (outcome[p] \in {"ok", "recovery_committed"} <=> p \in cleaned)

ToldInv == KindInv /\ \A p \in Command : Told(p)

LEMMA ToldMoves ==
    ASSUME ToldInv, NEW p \in Command, Kind[p] = "fail", CommandStep(p) PROVE Told(p)'
<1> USE DEF ToldInv, KindInv, FileInv, JobsOK, Told, Step, Outcome
<1>1. CASE Preflight(p)
  BY <1>1 DEF Preflight, MayStart, Goes, Ends
<1>2. CASE LeaveWal(p)
  BY <1>2 DEF LeaveWal, Goes
<1>3. CASE LeaveWalFails(p)
  BY <1>3 DEF LeaveWalFails, Ends
<1>4. CASE BeginCleanup(p)
  BY <1>4 DEF BeginCleanup, Goes
<1>5. CASE CleanUp(p)
  BY <1>5 DEF CleanUp, AfterCleaning
<1>6. CASE CleanUpFails(p)
  BY <1>6 DEF CleanUpFails, AfterCleaning
<1>7. CASE RestoreWal(p)
  BY <1>7 DEF RestoreWal, Ends
<1>8. CASE RestoreWalFails(p)
  BY <1>8 DEF RestoreWalFails, Committed, Ends
<1>9. CASE Kill(p)
  BY <1>9 DEF Kill, Ends
<1>10. MaintenanceStep(p) \/ Kill(p)
  BY FailSteps
<1> QED
  BY <1>1, <1>2, <1>3, <1>4, <1>5, <1>6, <1>7, <1>8, <1>9, <1>10 DEF MaintenanceStep

LEMMA ToldInit == FileInit => ToldInv
<1> SUFFICES ASSUME FileInit PROVE ToldInv
  OBVIOUS
<1>1. cleaned = {} /\ \A p \in Command : pc[p] = "idle"
  BY DEF FileInit
<1> QED BY <1>1, KindInit DEF ToldInv, Told

LEMMA ToldStep == ToldInv /\ [FileNext]_fileVars => ToldInv'
<1> SUFFICES ASSUME ToldInv, [FileNext]_fileVars PROVE ToldInv'
  OBVIOUS
<1>1. KindInv'
  BY KindStep DEF ToldInv
<1>2. ASSUME NEW p \in Command, CommandStep(p), NEW q \in Command PROVE Told(q)'
  <2>1. CASE q = p
    BY <1>2, <2>1, ToldMoves DEF Told
  <2>2. CASE q # p
    <3>1. pc'[q] = pc[q] /\ outcome'[q] = outcome[q] /\ (q \in cleaned' <=> q \in cleaned)
      BY <1>2, <2>2, OneMoves DEF OthersStay, ToldInv, KindInv
    <3> QED BY <3>1 DEF ToldInv, Told
  <2> QED BY <2>1, <2>2
<1>3. CASE StartBuild \/ UNCHANGED fileVars
  BY <1>1, <1>3 DEF StartBuild, jobVars, fileVars, ToldInv, Told
<1> QED BY <1>1, <1>2, <1>3 DEF FileNext, ToldInv

\* The caller of a maintenance learns what became of the clean-up, although the
\* journal mode could not be restored (CleanupTold).
THEOREM CleanupToldCorrect == FileSpec => []CleanupTold
<1>1. ToldInv => CleanupTold
  BY DEF ToldInv, Told, CleanupTold
<1> QED BY <1>1, ToldInit, ToldStep, PTL DEF FileSpec

-----------------------------------------------------------------------------
(* What init unlinks. *)

LEMMA EditsThere ==
    ASSUME NEW f \in File, NEW p \in Command
    PROVE  /\ Unlocked(f) # None /\ Locked(f, p) # None /\ Opened(f) # None
           /\ InMode(f, "wal") # None /\ InMode(f, "delete") # None
           /\ Kind[p] = "legacy" => WithMemory(f, p) # None
           /\ \A gone \in SUBSET f.rows : Without(f, gone) # None
           /\ Unlocked(Migrated(f, p)) # None
           /\ Unlocked(CutOver(f)) # None /\ Unlocked(CleanedUp(f)) # None
<1>1. /\ Unlocked(f) \in File /\ Locked(f, p) \in File /\ Opened(f) \in File
      /\ InMode(f, "wal") \in File /\ InMode(f, "delete") \in File
  BY UnlockedFile, LockedFile, OpenedFile, FileInMode DEF SameContent
<1>2. /\ Kind[p] = "legacy" => WithMemory(f, p) \in File
      /\ \A gone \in SUBSET f.rows : Without(f, gone) \in File
      /\ Migrated(f, p) \in File
  BY FileWithMemory, FileWithout, MigratedFile
<1>3. CutOver(f) \in File /\ CleanedUp(f) \in File
  BY GenerationFile DEF SameContent
<1>4. /\ Unlocked(Migrated(f, p)) \in File /\ Unlocked(CutOver(f)) \in File
      /\ Unlocked(CleanedUp(f)) \in File
  BY <1>2, <1>3, UnlockedFile DEF SameContent
<1> QED BY <1>1, <1>2, <1>4, FileFields

\* Only the clean-up of an init unlinks a file.
LEMMA Unlinks ==
    ASSUME FileInv, NEW p \in Command, file # None, CommandStep(p)
    PROVE  Cleanup(p) \/ file' # None
<1>there. /\ Unlocked(file) # None /\ Locked(file, p) # None /\ Opened(file) # None
         /\ InMode(file, "wal") # None /\ InMode(file, "delete") # None
         /\ Unlocked(Migrated(file, p)) # None
         /\ Unlocked(CutOver(file)) # None /\ Unlocked(CleanedUp(file)) # None
  BY EditsThere DEF FileInv, FileOK
<1>add. Kind[p] = "legacy" => WithMemory(file, p) # None
  BY EditsThere DEF FileInv, FileOK
<1>gone. \A gone \in SUBSET file.rows : Without(file, gone) # None
  BY EditsThere DEF FileInv, FileOK
<1>1. ASSUME LegacyOpen(p) PROVE Cleanup(p) \/ file' # None
  BY <1>1, <1>there
  DEF LegacyOpen, OpenStore
<1>2. ASSUME LegacyAdd(p) PROVE Cleanup(p) \/ file' # None
  BY <1>2, <1>add
  DEF LegacyAdd
<1>2a. ASSUME LegacyDelete(p) PROVE Cleanup(p) \/ file' # None
  BY <1>2a, <1>gone
  DEF LegacyDelete
<1>2b. ASSUME LegacyDone(p) PROVE Cleanup(p) \/ file' # None
  BY <1>2b
  DEF LegacyDone
<1>2c. ASSUME LegacyClear(p) PROVE Cleanup(p) \/ file' # None
  BY <1>2c, <1>gone
  DEF LegacyClear
<1>2d. ASSUME LegacyFails(p) PROVE Cleanup(p) \/ file' # None
  BY <1>2d, <1>there
  DEF LegacyFails, Target
<1>3. ASSUME StartInit(p) PROVE Cleanup(p) \/ file' # None
  BY <1>3, <1>there
  DEF StartInit
<1>4. ASSUME CreateStore(p) PROVE Cleanup(p) \/ file' # None
  BY <1>4, <1>there
  DEF CreateStore, OpenStore
<1>5. ASSUME StartMigrate(p) PROVE Cleanup(p) \/ file' # None
  BY <1>5, <1>there
  DEF StartMigrate
<1>6. ASSUME StartBackup(p) PROVE Cleanup(p) \/ file' # None
  BY <1>6, <1>there
  DEF StartBackup
<1>7. ASSUME FinishBackup(p) PROVE Cleanup(p) \/ file' # None
  BY <1>7, <1>there
  DEF FinishBackup
<1>8. ASSUME Fingerprint(p) PROVE Cleanup(p) \/ file' # None
  BY <1>8, <1>there
  DEF Fingerprint
<1>9. ASSUME BeginMigration(p) PROVE Cleanup(p) \/ file' # None
  BY <1>9, <1>there
  DEF BeginMigration, ConnectsToWrite, Target
<1>10. ASSUME Transact(p) PROVE Cleanup(p) \/ file' # None
  BY <1>10, <1>there
  DEF Transact
<1>11. ASSUME Reopen(p) PROVE Cleanup(p) \/ file' # None
  BY <1>11, <1>there
  DEF Reopen
<1>12. ASSUME WriteConfig(p) PROVE Cleanup(p) \/ file' # None
  BY <1>12, <1>there
  DEF WriteConfig
<1>13. ASSUME Cleanup(p) PROVE Cleanup(p) \/ file' # None
  BY <1>13
  DEF Cleanup
<1>14. ASSUME Raises(p) PROVE Cleanup(p) \/ file' # None
  BY <1>14, <1>there
  DEF Raises, Released
<1>15. ASSUME OpenRepository(p) PROVE Cleanup(p) \/ file' # None
  BY <1>15, <1>there
  DEF OpenRepository
<1>16. ASSUME RepairWal(p) PROVE Cleanup(p) \/ file' # None
  BY <1>16, <1>there
  DEF RepairWal, SetsWal
<1>17. ASSUME StartCutover(p) PROVE Cleanup(p) \/ file' # None
  BY <1>17, <1>there
  DEF StartCutover
<1>18. ASSUME Cutover(p) PROVE Cleanup(p) \/ file' # None
  BY <1>18, <1>there
  DEF Cutover, Released
<1>19. ASSUME Preflight(p) PROVE Cleanup(p) \/ file' # None
  BY <1>19, <1>there
  DEF Preflight
<1>20. ASSUME LeaveWal(p) PROVE Cleanup(p) \/ file' # None
  BY <1>20, <1>there
  DEF LeaveWal, ConnectsToWrite, Target
<1>21. ASSUME LeaveWalFails(p) PROVE Cleanup(p) \/ file' # None
  BY <1>21, <1>there
  DEF LeaveWalFails
<1>22. ASSUME BeginCleanup(p) PROVE Cleanup(p) \/ file' # None
  BY <1>22, <1>there
  DEF BeginCleanup
<1>23. ASSUME CleanUp(p) PROVE Cleanup(p) \/ file' # None
  BY <1>23, <1>there
  DEF CleanUp, Released
<1>24. ASSUME CleanUpFails(p) PROVE Cleanup(p) \/ file' # None
  BY <1>24, <1>there
  DEF CleanUpFails, Released
<1>25. ASSUME RestoreWal(p) PROVE Cleanup(p) \/ file' # None
  BY <1>25, <1>there
  DEF RestoreWal, SetsWal
<1>26. ASSUME RestoreWalFails(p) PROVE Cleanup(p) \/ file' # None
  BY <1>26, <1>there
  DEF RestoreWalFails
<1>27. ASSUME Kill(p) PROVE Cleanup(p) \/ file' # None
  BY <1>27, <1>there
  DEF Kill, Released
<1> QED
  BY <1>1, <1>2, <1>2a, <1>2b, <1>2c, <1>2d, <1>3, <1>4, <1>5, <1>6, <1>7, <1>8, <1>9, <1>10, <1>11, <1>12, <1>13, <1>14, <1>15, <1>16, <1>17, <1>18, <1>19, <1>20, <1>21, <1>22, <1>23, <1>24, <1>25, <1>26, <1>27
  DEF CommandStep, InitStep, MigrateStep, SchemaStep, MaintenanceStep, LegacyStep

\* What an init that is under way has seen made, is not what is at the path.
Spares(p) ==
    Kind[p] = "init" /\ pc[p] \notin {"idle", "done"}
        => since[p] <= made /\ (file # None => since[p] < file.id)

SparesInv == KindInv /\ \A p \in Command : Spares(p)

LEMMA SinceHeld ==
    ASSUME KindInv, NEW p \in Command, Kind[p] = "init", CommandStep(p)
    PROVE  StartInit(p) \/ (pc[p] \notin {"idle", "done"} /\ since' = since)
<1>1. CASE InitStep(p)
  BY <1>1 DEF InitStep, CreateStore, OpenStore, WriteConfig, Cleanup
<1>2. CASE SchemaStep(p)
  BY <1>2 DEF SchemaStep, BeginMigration, Transact, Reopen, Raises
<1>3. CASE Kill(p)
  BY <1>3 DEF Kill
<1> QED BY <1>1, <1>2, <1>3, InitSteps

LEMMA SparesInit == FileInit => SparesInv
<1> SUFFICES ASSUME FileInit PROVE SparesInv
  OBVIOUS
<1>1. \A p \in Command : pc[p] = "idle"
  BY DEF FileInit
<1> QED BY <1>1, KindInit DEF SparesInv, Spares

LEMMA SparesStep == SparesInv /\ [FileNext]_fileVars => SparesInv'
<1> SUFFICES ASSUME SparesInv, [FileNext]_fileVars PROVE SparesInv'
  OBVIOUS
<1>1. KindInv' /\ FileInv
  BY KindStep DEF SparesInv, KindInv
<1>2. ASSUME NEW p \in Command, CommandStep(p), NEW q \in Command PROVE Spares(q)'
  <2>1. made' \in {made, made + 1} /\ made \in Nat /\ since[q] \in Nat
    BY <1>1, <1>2, OneMoves, FileAssumption DEF OthersStay, FileInv, JobsOK
  <2>2. file' # None => \/ file = None /\ file'.id = made + 1
                        \/ file # None /\ file'.id = file.id
    BY <1>1, ChangesStep DEF Changes, Fresh, Kept
  <2>3. CASE since'[q] = since[q] /\ Spares(q) /\ pc[q] \notin {"idle", "done"}
    BY <2>1, <2>2, <2>3 DEF Spares
  <2>4. CASE q = p
    <3>1. CASE Kind[q] = "init" /\ StartInit(q)
      <4>1. since'[q] = made /\ file' = file /\ made' = made
        BY <1>1, <3>1 DEF StartInit, FileInv, JobsOK
      <4>2. CASE TargetsFree
        BY <2>1, <4>1, <4>2 DEF TargetsFree, Spares
      <4>3. CASE ~ TargetsFree
        BY <1>1, <3>1, <4>3 DEF StartInit, Ends, Spares, FileInv, JobsOK
      <4> QED BY <4>2, <4>3
    <3>2. CASE Kind[q] # "init"
      BY <3>2 DEF Spares
    <3> QED BY <1>2, <2>3, <2>4, <3>1, <3>2, SinceHeld DEF SparesInv
  <2>5. CASE q # p
    <3>1. pc'[q] = pc[q] /\ since'[q] = since[q]
      BY <1>1, <1>2, <2>5, OneMoves DEF OthersStay
    <3> QED BY <2>3, <3>1 DEF SparesInv, Spares
  <2> QED BY <2>4, <2>5
<1>3. CASE StartBuild \/ UNCHANGED fileVars
  <2>1. pc' = pc /\ since' = since /\ made' = made
    BY <1>3 DEF StartBuild, jobVars, fileVars
  <2>2. file' # None => file # None /\ file'.id = file.id
    <3>1. CASE StartBuild
      BY <1>1, <3>1, ChangesStep DEF StartBuild, IsAuthority, Changes, Kept
    <3> QED BY <1>3, <3>1 DEF fileVars
  <2> QED BY <1>1, <2>1, <2>2 DEF SparesInv, Spares
<1> QED BY <1>1, <1>2, <1>3 DEF FileNext, SparesInv

\* Whatever fails, a database that was there when init looked for one is not
\* unlinked (InitSparesExisting).
THEOREM InitSparesCorrect == FileSpec => InitSparesExisting
<1>1. SparesInv /\ [FileNext]_fileVars =>
        [file # None /\ file' = None
            => \E p \in Command : pc[p] = "cleanup" /\ since[p] < file.id]_fileVars
  <2> SUFFICES ASSUME SparesInv, [FileNext]_fileVars, file # None, file' = None
               PROVE  \E p \in Command : pc[p] = "cleanup" /\ since[p] < file.id
    OBVIOUS
  <2>1. ~ StartBuild
    <3>1. file \in File /\ Built(file) \in File
      BY GenerationFile DEF SparesInv, KindInv, FileInv, FileOK, SameContent
    <3> QED BY <3>1, FileFields DEF StartBuild
  <2>2. PICK p \in Command : CommandStep(p)
    BY <2>1 DEF FileNext, fileVars
  <2>3. pc[p] = "cleanup"
    BY <2>2, Unlinks DEF Cleanup, SparesInv, KindInv
  <2> QED BY <2>3 DEF SparesInv, KindInv, KindOf, Spares
<1> QED
  BY <1>1, SparesInit, SparesStep, PTL DEF FileSpec, InitSparesExisting

-----------------------------------------------------------------------------
(* The journal mode. *)

\* A file that is out of WAL was left so, or is being maintained.
WalInv ==
    /\ KindInv
    /\ file # None /\ ~ InWal(file)
          => file.id \in stranded \/ \E p \in Command : LeftWal(p)

StrandedKept == file.id \in stranded' \/ file'.mode = "wal"

LEMMA StaysStranded ==
    ASSUME FileInv, NEW p \in Command, file # None, file.id \in stranded, CommandStep(p)
    PROVE  StrandedKept
<1>wal. Opened(file).mode = "wal" /\ InMode(file, "wal").mode = "wal"
  BY OpenedFile, FileInMode DEF FileInv, FileOK
<1>1. ASSUME LegacyOpen(p) PROVE StrandedKept
  BY <1>1, <1>wal
  DEF LegacyOpen, OpenStore, StrandedKept
<1>2. ASSUME LegacyAdd(p) PROVE StrandedKept
  BY <1>2
  DEF LegacyAdd, StrandedKept
<1>2a. ASSUME LegacyDelete(p) PROVE StrandedKept
  BY <1>2a
  DEF LegacyDelete, StrandedKept
<1>2b. ASSUME LegacyDone(p) PROVE StrandedKept
  BY <1>2b
  DEF LegacyDone, StrandedKept
<1>2c. ASSUME LegacyClear(p) PROVE StrandedKept
  BY <1>2c
  DEF LegacyClear, StrandedKept
<1>2d. ASSUME LegacyFails(p) PROVE StrandedKept
  BY <1>2d
  DEF LegacyFails, StrandedKept
<1>3. ASSUME StartInit(p) PROVE StrandedKept
  BY <1>3
  DEF StartInit, StrandedKept
<1>4. ASSUME CreateStore(p) PROVE StrandedKept
  BY <1>4, <1>wal
  DEF CreateStore, OpenStore, StrandedKept
<1>5. ASSUME StartMigrate(p) PROVE StrandedKept
  BY <1>5
  DEF StartMigrate, StrandedKept
<1>6. ASSUME StartBackup(p) PROVE StrandedKept
  BY <1>6
  DEF StartBackup, StrandedKept
<1>7. ASSUME FinishBackup(p) PROVE StrandedKept
  BY <1>7
  DEF FinishBackup, StrandedKept
<1>8. ASSUME Fingerprint(p) PROVE StrandedKept
  BY <1>8
  DEF Fingerprint, StrandedKept
<1>9. ASSUME BeginMigration(p) PROVE StrandedKept
  BY <1>9
  DEF BeginMigration, StrandedKept
<1>10. ASSUME Transact(p) PROVE StrandedKept
  BY <1>10
  DEF Transact, StrandedKept
<1>11. ASSUME Reopen(p) PROVE StrandedKept
  BY <1>11
  DEF Reopen, StrandedKept
<1>12. ASSUME WriteConfig(p) PROVE StrandedKept
  BY <1>12
  DEF WriteConfig, StrandedKept
<1>13. ASSUME Cleanup(p) PROVE StrandedKept
  BY <1>13
  DEF Cleanup, StrandedKept
<1>14. ASSUME Raises(p) PROVE StrandedKept
  BY <1>14
  DEF Raises, StrandedKept
<1>15. ASSUME OpenRepository(p) PROVE StrandedKept
  BY <1>15
  DEF OpenRepository, StrandedKept
<1>16. ASSUME RepairWal(p) PROVE StrandedKept
  BY <1>16, <1>wal
  DEF RepairWal, SetsWal, StrandedKept
<1>17. ASSUME StartCutover(p) PROVE StrandedKept
  BY <1>17
  DEF StartCutover, StrandedKept
<1>18. ASSUME Cutover(p) PROVE StrandedKept
  BY <1>18
  DEF Cutover, StrandedKept
<1>19. ASSUME Preflight(p) PROVE StrandedKept
  BY <1>19
  DEF Preflight, StrandedKept
<1>20. ASSUME LeaveWal(p) PROVE StrandedKept
  BY <1>20
  DEF LeaveWal, StrandedKept
<1>21. ASSUME LeaveWalFails(p) PROVE StrandedKept
  BY <1>21
  DEF LeaveWalFails, StrandedKept
<1>22. ASSUME BeginCleanup(p) PROVE StrandedKept
  BY <1>22
  DEF BeginCleanup, StrandedKept
<1>23. ASSUME CleanUp(p) PROVE StrandedKept
  BY <1>23
  DEF CleanUp, StrandedKept
<1>24. ASSUME CleanUpFails(p) PROVE StrandedKept
  BY <1>24
  DEF CleanUpFails, StrandedKept
<1>25. ASSUME RestoreWal(p) PROVE StrandedKept
  BY <1>25, <1>wal
  DEF RestoreWal, SetsWal, StrandedKept
<1>26. ASSUME RestoreWalFails(p) PROVE StrandedKept
  BY <1>26
  DEF RestoreWalFails, StrandedKept
<1>27. ASSUME Kill(p) PROVE StrandedKept
  BY <1>27
  DEF Kill, StrandedKept
<1> QED
  BY <1>1, <1>2, <1>2a, <1>2b, <1>2c, <1>2d, <1>3, <1>4, <1>5, <1>6, <1>7, <1>8, <1>9, <1>10, <1>11, <1>12, <1>13, <1>14, <1>15, <1>16, <1>17, <1>18, <1>19, <1>20, <1>21, <1>22, <1>23, <1>24, <1>25, <1>26, <1>27
  DEF CommandStep, InitStep, MigrateStep, SchemaStep, MaintenanceStep, LegacyStep

\* A maintenance that is under way stays so, restores WAL, or strands the file.
LEMMA LeftWalMoves ==
    ASSUME KindInv, NEW p \in Command, LeftWal(p), CommandStep(p), file.mode = "delete",
           file' # None, file'.id = file.id
    PROVE  LeftWal(p)' \/ file.id \in stranded' \/ file'.mode = "wal"
<1> USE DEF LeftWal, On, KindInv, FileInv, JobsOK, Step, Outcome
<1>1. CASE BeginCleanup(p)
  BY <1>1 DEF BeginCleanup, Goes
<1>2. CASE CleanUp(p)
  BY <1>2 DEF CleanUp, AfterCleaning
<1>3. CASE CleanUpFails(p)
  BY <1>3 DEF CleanUpFails, AfterCleaning
<1>4. CASE RestoreWal(p)
  BY <1>4, FileInMode DEF RestoreWal, SetsWal, FileOK
<1>5. CASE RestoreWalFails(p)
  BY <1>5 DEF RestoreWalFails
<1>6. CASE Kill(p)
  BY <1>6 DEF Kill
<1>7. CASE Preflight(p) \/ LeaveWal(p) \/ LeaveWalFails(p)
  BY <1>7 DEF Preflight, MayStart, LeaveWal, LeaveWalFails
<1>8. MaintenanceStep(p) \/ Kill(p)
  BY FailSteps
<1> QED
  BY <1>1, <1>2, <1>3, <1>4, <1>5, <1>6, <1>7, <1>8 DEF MaintenanceStep

LEMMA WalInit == FileInit => WalInv
BY KindInit, FoundFiles DEF FileInit, WalInv, InWal

LEMMA WalStep == WalInv /\ [FileNext]_fileVars => WalInv'
<1> SUFFICES ASSUME WalInv, [FileNext]_fileVars PROVE WalInv'
  OBVIOUS
<1>1. KindInv' /\ KindInv /\ FileInv
  BY KindStep DEF WalInv, KindInv
<1> SUFFICES ASSUME file' # None, ~ InWal(file')
             PROVE  file'.id \in stranded' \/ \E p \in Command : LeftWal(p)'
  BY <1>1 DEF WalInv, InWal
<1>2. /\ file # None /\ file'.id = file.id
      /\ ~ InWal(file) \/ LeavesWal
  BY <1>1, ChangesStep DEF Changes, Fresh, Kept
<1>3. CASE LeavesWal
  <2>1. PICK p \in Command : LeaveWal(p)
    BY <1>3 DEF LeavesWal
  <2>2. pc'[p] = "begin" /\ conn'[p] = file.id
    BY <1>1, <1>2, <2>1
    DEF LeaveWal, ConnectsToWrite, Connects, Target, Goes, FileInv, JobsOK, Step
  <2>3. Kind[p] = "fail"
    BY <1>1, <2>1 DEF LeaveWal, KindInv, KindOf
  <2>4. LeftWal(p)'
    BY <1>2, <2>2, <2>3 DEF LeftWal, On
  <2> QED BY <2>4
<1>4. CASE ~ InWal(file) /\ ~ LeavesWal
  <2>1. file.mode = "delete" /\ file'.mode # "wal"
    BY <1>1, <1>2, <1>4, FileFields DEF InWal, FileInv, FileOK
  <2>2. CASE \E p \in Command : CommandStep(p)
    <3>1. PICK p \in Command : CommandStep(p)
      BY <2>2
    <3>2. CASE file.id \in stranded
      BY <1>1, <1>2, <2>1, <3>1, <3>2, StaysStranded DEF StrandedKept
    <3>3. ASSUME NEW q \in Command, LeftWal(q)
          PROVE  file'.id \in stranded' \/ \E r \in Command : LeftWal(r)'
      <4>1. CASE q = p
        BY <1>1, <1>2, <2>1, <3>1, <3>3, <4>1, LeftWalMoves
      <4>2. CASE q # p
        <5>1. pc'[q] = pc[q] /\ conn'[q] = conn[q]
          BY <1>1, <3>1, <4>2, OneMoves DEF OthersStay
        <5>2. LeftWal(q)'
          BY <1>2, <3>3, <5>1 DEF LeftWal, On
        <5> QED BY <5>2
      <4> QED BY <4>1, <4>2
    <3> QED BY <1>2, <1>4, <3>2, <3>3 DEF WalInv
  <2>3. CASE StartBuild \/ UNCHANGED fileVars
    <3>1. pc' = pc /\ conn' = conn /\ stranded' = stranded
      BY <2>3 DEF StartBuild, jobVars, fileVars
    <3>2. \A q \in Command : LeftWal(q) => LeftWal(q)'
      BY <1>2, <3>1 DEF LeftWal, On
    <3> QED BY <1>2, <1>4, <3>1, <3>2 DEF WalInv
  <2> QED BY <2>2, <2>3 DEF FileNext
<1> QED BY <1>2, <1>3, <1>4

\* An authority is out of WAL only while a maintenance runs, or when one ended
\* without being able to restore it (WalUnlessStranded).
THEOREM WalCorrect == FileSpec => []WalUnlessStranded
<1>1. WalInv => WalUnlessStranded
  BY DEF WalInv, WalUnlessStranded, InWal, KindInv, FileInv, FileOK, Sane
<1> QED BY <1>1, WalInit, WalStep, PTL DEF FileSpec

-----------------------------------------------------------------------------
(* What a migration that reports success has done. *)

\* Of the file a snapshot was taken from, if it is still at the path: what the
\* snapshot holds is there, or is among what a fingerprint saw and the schema covers,
\* but for what the legacy store has deleted.
Covered(b) == file # None /\ file.id = b.of => b.rows \subseteq file.rows \cup file.lost

Quarantined(b, s) ==
    file # None /\ file.id = b.of
        => file.version = 1 /\ file.meta = s /\ b.rows \subseteq s \cup file.lost

\* A migration has a snapshot from its copy on, a whole one once that has ended, and
\* what it holds is still there, or was deleted, when the migration comes to its end.
Migrates(p) ==
    Kind[p] = "migrate" =>
        /\ pc[p] # "done" => outcome[p] = "none"
        /\ backup[p] # None => backup[p].of <= made
        /\ pc[p] = "copy" => backup[p] # None /\ backup[p].of = conn[p]
        /\ pc[p] \in {"fingerprint", "begin", "transact", "reopen"}
              => backup[p] # None /\ backup[p].whole /\ Covered(backup[p])
        /\ outcome[p] = "ok"
              => /\ pc[p] = "done" /\ backup[p] # None /\ backup[p].whole
                 /\ Quarantined(backup[p], seen[p])

MigratesInv == KindInv /\ \A p \in Command : Migrates(p)

\* The file a snapshot was taken from loses no memory but by a deletion, and another
\* never gets its number: whatever a step does, what is covered stays so.
LEMMA SnapshotStays ==
    ASSUME FileInv, [FileNext]_fileVars
    PROVE  \A b \in Snapshot, s \in SUBSET Memory : b.of <= made =>
              /\ Covered(b) => Covered(b)'
              /\ Quarantined(b, s) => Quarantined(b, s)'
<1> TAKE b \in Snapshot, s \in SUBSET Memory
<1> HAVE b.of <= made
<1>1. made \in Nat /\ b.of \in Nat
  BY FileAssumption DEF FileInv, JobsOK, Snapshot
<1>2. Changes
  BY ChangesStep
<1>3. CASE file' = None
  BY <1>3 DEF Covered, Quarantined
<1>4. CASE file' # None /\ file = None
  <2>1. file'.id # b.of
    BY <1>1, <1>2, <1>4 DEF Changes, Fresh
  <2> QED BY <2>1 DEF Covered, Quarantined
<1>5. CASE file' # None /\ file # None
  BY <1>2, <1>5 DEF Changes, Kept, Covered, Quarantined
<1> QED BY <1>3, <1>4, <1>5

LEMMA MadeGrows ==
    ASSUME FileInv, NEW p \in Command, CommandStep(p) PROVE made <= made'
BY OneMoves, FileAssumption DEF OthersStay, FileInv, JobsOK

\* A step that leaves a migration where it is, or where its snapshot matters as much.
LEMMA MigrationStays ==
    ASSUME FileInv, [FileNext]_fileVars, made <= made', NEW p \in Command, Migrates(p),
           backup'[p] = backup[p], seen'[p] = seen[p], outcome'[p] = outcome[p],
           \/ pc'[p] = pc[p] /\ conn'[p] = conn[p]
           \/ /\ pc[p] \in {"fingerprint", "begin", "transact"}
              /\ pc'[p] \in {"begin", "transact", "reopen"}
    PROVE  Migrates(p)'
<1>1. made \in Nat /\ made' \in Nat /\ seen[p] \in SUBSET Memory
      /\ backup[p] \in Snapshot \cup {None}
  BY JobsStep, FileAssumption DEF FileInv, JobsOK
<1>2. CASE backup[p] = None
  BY <1>2 DEF Migrates
<1>3. CASE backup[p] # None
  <2>1. PICK b \in Snapshot, s \in SUBSET Memory : b = backup[p] /\ s = seen[p]
    BY <1>1, <1>3
  <2>2. b.of \in Nat
    BY DEF Snapshot
  <2>3. Kind[p] = "migrate" => b.of <= made /\ b.of <= made'
    BY <1>1, <1>3, <2>1, <2>2 DEF Migrates
  <2>4. Kind[p] = "migrate" => /\ Covered(b) => Covered(b)'
                               /\ Quarantined(b, s) => Quarantined(b, s)'
    BY <2>3, SnapshotStays
  <2>5. Covered(backup[p])' <=> Covered(b)'
    BY <2>1 DEF Covered
  <2>6. Quarantined(backup[p], seen[p])' <=> Quarantined(b, s)'
    BY <2>1 DEF Quarantined
  <2>7. /\ Covered(backup[p]) <=> Covered(b)
        /\ Quarantined(backup[p], seen[p]) <=> Quarantined(b, s)
    BY <2>1
  <2> QED BY <1>3, <2>1, <2>3, <2>4, <2>5, <2>6, <2>7 DEF Migrates
<1> QED BY <1>2, <1>3

\* A migration that ends without success has nothing to answer for but the file its
\* snapshot, if it has one, was taken from.
LEMMA MigrationEnds ==
    ASSUME FileInv, FileInv', made <= made', NEW p \in Command, Migrates(p),
           NEW o \in Outcome, o # "ok", Ends(p, o), backup'[p] \in {backup[p], None}
    PROVE  Migrates(p)'
<1>1. made \in Nat /\ made' \in Nat /\ backup[p] \in Snapshot \cup {None}
  BY FileAssumption DEF FileInv, JobsOK
<1>2. backup[p] # None => backup[p].of \in Nat
  BY <1>1 DEF Snapshot
<1>3. pc'[p] = "done" /\ outcome'[p] = o
  BY Ends_ DEF FileInv
<1> QED BY <1>1, <1>2, <1>3 DEF Migrates

LEMMA MigrateMoves ==
    ASSUME MigratesInv, NEW p \in Command, Kind[p] = "migrate", CommandStep(p)
    PROVE  Migrates(p)'
<1>1. /\ KindInv /\ FileInv /\ JobsOK /\ Migrates(p) /\ [FileNext]_fileVars /\ FileInv'
      /\ made \in Nat /\ made' \in Nat /\ made <= made'
  BY FileInvStep, MadeGrows, FileAssumption
  DEF MigratesInv, KindInv, FileInv, JobsOK, FileNext
<1>2. CASE StartMigrate(p)
  <2>1. CASE Ends(p, "refused") \/ Ends(p, "failed")
    BY <1>1, <1>2, <2>1, MigrationEnds DEF StartMigrate, Outcome
  <2>2. CASE Goes(p, "backup")
    BY <1>1, <1>2, <2>2 DEF StartMigrate, MayStart, Goes, JobsOK, Migrates
  <2> QED BY <1>2, <2>1, <2>2 DEF StartMigrate
<1>3. CASE StartBackup(p)
  <2>1. file # None /\ file.id <= made /\ file.id \in 0..MaxFiles
    BY <1>1, <1>3, FileFields DEF StartBackup, FileInv, FileOK
  <2>2. /\ backup'[p] = [of |-> file.id, whole |-> FALSE, rows |-> {}]
        /\ backup'[p] \in Snapshot \cup {None} /\ conn'[p] = file.id /\ made' = made
        /\ pc'[p] = "copy" /\ outcome' = outcome /\ pc[p] = "backup"
    <3>1. FileInv' /\ pc[p] = "backup" /\ made' = made
      BY <1>1, <1>3 DEF StartBackup
    <3>2. pc'[p] = "copy" /\ outcome' = outcome
      BY <1>1, <1>3, Goes_ DEF StartBackup, Step
    <3>3. conn'[p] = file.id
      BY <1>1, <1>3, <2>1, Connects_ DEF StartBackup
    <3> QED BY <1>1, <1>3, <3>1, <3>2, <3>3 DEF StartBackup, FileInv, JobsOK
  <2>3. backup'[p] # None /\ backup'[p].of = file.id
    <3> DEFINE b == [of |-> file.id, whole |-> FALSE, rows |-> {}]
    <3>1. b \in Snapshot /\ b.of = file.id
      BY <2>1, FileFields, <1>1 DEF Snapshot, FileInv, FileOK
    <3>2. b # None
      BY <3>1, FileAssumption
    <3> QED BY <2>2, <3>1, <3>2
  <2> QED BY <1>1, <2>1, <2>2, <2>3 DEF Migrates
<1>4. CASE FinishBackup(p)
  <2>1. PICK rows \in IF On(p) THEN {file.rows} ELSE SUBSET Memory :
          backup' = [backup EXCEPT ![p] = [of |-> conn[p], whole |-> TRUE, rows |-> rows]]
    BY <1>4 DEF FinishBackup
  <2>2. /\ pc[p] = "copy" /\ conn[p] \in 1..MaxFiles /\ conn[p] <= made
        /\ pc'[p] = "fingerprint" /\ outcome' = outcome
        /\ file' = file /\ made' = made
    <3>1. pc[p] = "copy" /\ file' = file /\ made' = made
      BY <1>4 DEF FinishBackup
    <3>2. pc'[p] = "fingerprint" /\ outcome' = outcome
      BY <1>1, <1>4, Goes_ DEF FinishBackup, Step
    <3>3. conn[p] \in 1..MaxFiles
      BY <1>1, <3>1 DEF JobsOK
    <3> QED BY <1>1, <3>1, <3>2, <3>3 DEF Migrates
  <2>3. rows \in SUBSET Memory /\ (On(p) => rows = file.rows)
    BY <1>1, <2>1, FileFields DEF On, FileInv, FileOK
  <2>4. [of |-> conn[p], whole |-> TRUE, rows |-> rows] \in Snapshot
    BY <2>2, <2>3 DEF Snapshot
  <2>5. /\ backup'[p] # None /\ backup'[p].of = conn[p] /\ backup'[p].whole
        /\ backup'[p].rows = rows
    BY <1>1, <2>1, <2>4, FileAssumption DEF JobsOK
  <2>6. Covered(backup[p])'
    BY <2>2, <2>3, <2>5 DEF Covered, On
  <2> QED BY <1>1, <2>2, <2>5, <2>6 DEF Migrates
<1>5. CASE Fingerprint(p)
  <2>1. /\ pc[p] = "fingerprint" /\ pc'[p] = "begin" /\ outcome' = outcome
        /\ file' = file /\ made' = made /\ backup' = backup
    BY <1>1, <1>5, Goes_ DEF Fingerprint, Step
  <2>2. Covered(backup[p])' <=> Covered(backup[p])
    BY <2>1 DEF Covered
  <2> QED BY <1>1, <2>1, <2>2 DEF Migrates
<1>6. CASE BeginMigration(p) \/ (Transact(p) /\ Goes(p, "reopen"))
  <2>1. /\ pc[p] \in {"begin", "transact"} /\ pc'[p] \in {"transact", "reopen"}
        /\ backup' = backup /\ seen' = seen /\ outcome' = outcome
    BY <1>1, <1>6, Goes_ DEF BeginMigration, Transact, Step
  <2> QED BY <1>1, <2>1, MigrationStays
<1>7. CASE (Transact(p) \/ Reopen(p) \/ Raises(p)) /\ GivesUp(p)
  <2>1. Ends(p, "failed") /\ "failed" \in Outcome
    BY <1>7 DEF GivesUp, Outcome
  <2>2. backup'[p] \in {backup[p], None}
    BY <1>1, <1>7 DEF Transact, Reopen, Raises, JobsOK
  <2> QED BY <1>1, <2>1, <2>2, MigrationEnds
<1>8. CASE Reopen(p) /\ Durable(p) /\ Ends(p, "ok")
  <2>1. /\ pc[p] = "reopen" /\ file' = file /\ made' = made /\ backup' = backup
        /\ seen' = seen
    BY <1>8 DEF Reopen
  <2>2. pc'[p] = "done" /\ outcome'[p] = "ok"
    BY <1>1, <1>8, Ends_ DEF Outcome
  <2>3. Quarantined(backup[p], seen[p])
    BY <1>1, <1>8, <2>1
    DEF Durable, Verified, Unchanged, Migrates, Covered, Quarantined
  <2>4. Quarantined(backup[p], seen[p])'
    BY <2>1, <2>3 DEF Quarantined
  <2> QED BY <1>1, <2>1, <2>2, <2>4 DEF Migrates
<1>9. CASE Kill(p)
  <2>1. backup' = backup /\ Ends(p, "killed") /\ "killed" \in Outcome
    BY <1>9 DEF Kill, Outcome
  <2> QED BY <1>1, <2>1, MigrationEnds
<1>10. \/ StartMigrate(p) \/ StartBackup(p) \/ FinishBackup(p) \/ Fingerprint(p)
       \/ BeginMigration(p) \/ Transact(p) \/ Reopen(p) \/ Raises(p) \/ Kill(p)
  BY <1>1, MigrateSteps DEF MigrateStep, SchemaStep
<1>11. Transact(p) => Goes(p, "reopen") \/ GivesUp(p)
  BY DEF Transact
<1>12. Reopen(p) => (Durable(p) /\ Ends(p, "ok")) \/ GivesUp(p)
  BY DEF Reopen
<1>13. Raises(p) => GivesUp(p)
  BY DEF Raises
<1> QED
  BY <1>2, <1>3, <1>4, <1>5, <1>6, <1>7, <1>8, <1>9, <1>10, <1>11, <1>12, <1>13

LEMMA MigratesInit == FileInit => MigratesInv
<1> SUFFICES ASSUME FileInit PROVE MigratesInv
  OBVIOUS
<1>1. \A p \in Command : pc[p] = "idle" /\ outcome[p] = "none" /\ backup[p] = None
  BY DEF FileInit
<1> QED BY <1>1, KindInit DEF MigratesInv, Migrates

LEMMA MigratesStep == MigratesInv /\ [FileNext]_fileVars => MigratesInv'
<1> SUFFICES ASSUME MigratesInv, [FileNext]_fileVars PROVE MigratesInv'
  OBVIOUS
<1>1. KindInv' /\ FileInv
  BY KindStep DEF MigratesInv, KindInv
<1>2. ASSUME NEW p \in Command, CommandStep(p), NEW q \in Command PROVE Migrates(q)'
  <2>1. CASE q = p
    BY <1>2, <2>1, MigrateMoves DEF Migrates
  <2>2. CASE q # p
    <3>1. /\ pc'[q] = pc[q] /\ conn'[q] = conn[q] /\ outcome'[q] = outcome[q]
          /\ seen'[q] = seen[q] /\ backup'[q] = backup[q] /\ made <= made'
      BY <1>1, <1>2, <2>2, OneMoves, MadeGrows DEF OthersStay
    <3> QED BY <1>1, <3>1, MigrationStays DEF MigratesInv
  <2> QED BY <2>1, <2>2
<1>3. CASE StartBuild \/ UNCHANGED fileVars
  <2>1. /\ pc' = pc /\ conn' = conn /\ outcome' = outcome /\ seen' = seen
        /\ backup' = backup /\ made' = made /\ made \in Nat
    BY <1>1, <1>3, FileAssumption DEF StartBuild, jobVars, fileVars, FileInv, JobsOK
  <2> QED BY <1>1, <2>1, MigrationStays DEF MigratesInv
<1> QED BY <1>1, <1>2, <1>3 DEF FileNext, MigratesInv

\* A migration that reports success has a whole snapshot; the memories it found in the
\* file that was taken from have metadata, and it has dropped none of the snapshot's:
\* those it did not find the legacy store has deleted (MigrationTold).
THEOREM MigrationToldCorrect == FileSpec => []MigrationTold
<1>1. MigratesInv => MigrationTold
  BY DEF MigratesInv, Migrates, Quarantined, MigrationTold
<1> QED BY <1>1, MigratesInit, MigratesStep, PTL DEF FileSpec

=============================================================================
