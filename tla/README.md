# recall-memory: specifications, model checks and proofs

This directory holds TLA+ specifications of the memory authority of
`recall-memory`, the TLC configurations that check them on small instances, and
machine-checked proofs (TLAPS) of their most important properties.  Paths are
relative to the repository; `pkg/` stands for
`recall-memory-mcp/src/recall_memory_mcp/` and `core/` for `src/recall/`.
R5.1 and the like are the requirements of
`.kiro/specs/recall-mcp-cross-client/requirements.md`; design.md is beside it.

Contents: 1 the system; 2 the modules and how they correspond to the code;
3 what each run checks; 4 bounds and fairness; 5 what is proved; 6 where the code
and its documents disagree; 7 what is not modelled; 8 what could come next.

## 1. The system

| Component | State it keeps | Operations | What makes it correct |
|---|---|---|---|
| Canonical repository, `core/mcp_repository.py` over the schema of `core/migrations.py` | one SQLite file: client grants, memories and their metadata, keywords, FTS, embeddings, embedding profiles, vec0 tables, audit events, idempotency ledger | add, replace (also moves between scopes), remove, restore, purge, cutover and failure of an embedding generation, the reads | one audit event per change, by a grant that may make it; every derived index speaks of the row; a key is used once; a purge leaves nothing; one ACTIVE generation per scope |
| Authority adapter, `pkg/authority.py` | the digest key file; it writes the local grant and the first embedding profile | bootstrap, prepare the vectors of a write, translate errors | vectors are comparable with those of their generation; the local grants widen in order; one digest key |
| Memory tools, `pkg/service.py`, `server.py`, `app.py`, `models.py` | none; one call runs through authorize, embed, prepare, commit, answer | search, get, recent, status, add, replace, remove | a call takes effect once however often it is repeated, and its client learns its effect in the end |
| Owner administration, `pkg/admin.py`, `adminapi.py`, `admincli.py` | the admin session file, an operation log in memory | export, restore, purge | the session is of the process that serves; an operation is reported as it ended |
| Authority process and lock, `core/authority_lock.py`, `pkg/cli.py`, `servicectl.py` | the OS lock and its diagnostic sidecar, the unit of the supervisor | serve, stop, status, install, uninstall | one owner of the database; a crash never blocks the restart |
| Break-glass maintenance, `pkg/breakglass.py` | snapshots, an audit file | backup, whole-database restore, migrate | no answered write is lost |
| Provisioning and migration, `pkg/provisioning.py`, `core/migrations.py` | schema version, backups | init, migrate, verify | the old schema or the new one, whole |
| Pairing and tokens, `pkg/grants.py`, `auth.py` | grants, used challenges, revoked tokens and generations, in memory | challenge, claim, bind, revoke, validate | a challenge is claimed once; the audit events are a ledger of the generations |
| Legacy store and retrieval, `core/store.py`, `retrieve.py`, `embed.py` | tiers of memories, their vectors | add, promote, demote, trim, evict, search | tiers stay within their sizes; the vector index holds hot memories only |
| Deprecated stdio server and terminal commands, `core/recall_mcp.py`, `cli.py`, `config.py` | none | wrappers of the legacy store | |
| Logging, redaction, settings; release and interoperability evidence | none | pure functions, batch checkers | |

How they interact.  A client call reaches the repository through a tool and the
adapter.  The repository trusts nothing it is told: each of its writing methods
authorizes the grant again, in SQL, in the transaction that writes.  All
processes share one SQLite file; an OS lock lets one of them serve, and the
break-glass commands take the same lock.

What is hard about it.

* *Between transactions.*  One write call is several transactions (adapter) and one
  more (repository); the local grant and the embedding profile are written
  outside the lock, or outside the transaction of the write they serve.
* *Repetition.*  A client repeats a call whose answer it has lost or still waits
  for, under the same idempotency key, and both attempts may be under way.
* *Generations.*  A second embedding generation is built beside the one that is
  searched, while memories are written, moved, removed and purged.
* *Processes.*  A supervisor restarts `serve`; a terminal starts another; a backup,
  a restore or `service status` runs beside; any of them may be killed at any step.
* *Stale authority.*  Who calls is resolved when a request comes in; the query runs later,
  when the grant may have been unlinked, narrowed or bound again.
* *One file, many commands.*  `init`, `migrate`, the constructor of the repository, the clean-up of a
  generation (which switches the journal mode) and the legacy store open the same path without
  a lock of their own; the last of them also deletes memories, on its own account, after an add.
* *Moves in two transactions.*  The legacy store keeps a tier and a vector index in step by the
  order of two transactions, and a kill or an exception may come between them.

`PROJECT.json` lists the hazards line by line, with the properties that cover them.

## 2. The modules

    McpRepository            the repository: one action per writing method
      McpRepository_proofs
        McpIndexes_proofs    its derived indexes and its ledger
      ServiceRequests        a write call on its way through tool, adapter and repository
        IdempotentCalls      what a client may rely on (abstract)
        ServiceRequests_proofs
    AuthorityHost            the processes of one machine around the database
      AuthorityHost_proofs
    ClientGrants             pairing challenges, client grants and tokens
      ClientGrants_proofs
      RemoteCalls            a read or an administrative call from its token to its answer
        GrantedCalls         what owners may rely on (abstract)
        RemoteCalls_proofs
    DatabaseFile             the commands that work on one database file
      DatabaseFile_proofs
    TieredStore              the legacy store and its tiered retrieval
      TieredStore_proofs
    MC<module>               instances for TLC

An indented module extends or uses the one above it.

### McpRepository

A method of `RecallMCPRepository` runs in one `BEGIN IMMEDIATE` transaction and
either writes every table or rolls back, so it is one action.  The guard of an
action is the conjunction of the checks that would raise, constraints of the
schema included (`PrimaryKeyFree`, `RevisionFree`, the foreign keys in `CanMove`).
A refused or replayed call changes nothing and is no step here; ServiceRequests
models the refusals and replays one by one.

| Variable | Table or state |
|---|---|
| `grants` | `client_grants` of kind OAUTH: in force or not, permissions, memory scopes |
| `rows` | `memories` joined with `memory_metadata` |
| `keywords`, `fts` | `keywords`, `memories_fts`: the content each memory's entries are from |
| `embeddings` | `memory_embeddings`: per memory and generation the scope, the embedded content and whether a vec0 row is named |
| `profiles` | `embedding_profiles.status` |
| `vectorTables`, `vectors` | `vector_tables` and the rows of the vec0 tables |
| `events`, `idem` | `memory_events`, `mcp_idempotency` |

A content stands for content, kind and tags together.  The keyed payload digest
of a request is the record of the fields it covers: two digests are equal exactly
when the fields are.  `blobs` are the generations the caller brings vectors for,
which must be those that are ACTIVE or BUILDING at that moment (`Covers`).  The
reindexer that opens, fills and projects a generation is not in the repository (its tests
play that part); `BeginBuilding`, `Backfill` and `ProjectVectors` model it from what
cutover and failure expect.  Grants are revoked and narrowed, as the repository's
predicates expect, by `RevokeGrant` and `DowngradeGrant`.

Two simplifications.  `EnsureEmbeddingProfile` takes any owner and scope, without the
read of the grant that precedes it (ServiceRequests has that read): more behaviours,
never fewer.  `FailEmbeddingGeneration` is the committing transaction of that method;
the switch of the journal mode around it is in DatabaseFile.
The initial state is a migrated authority without memories from the legacy store.

### ServiceRequests and IdempotentCalls

A call is sent (`Send`: the tool checks its context and embeds the content),
finds its owner (`FindOwner`, a read), ensures the profile of each of its
scopes (`EnsureProfile`, one transaction each, in the order of the code, the model
compared), and then commits, is replayed or is refused in one transaction
(`WriteCommits`, `WriteReplays`, `WriteRefused`).  `Refusals` follows the order of
the checks of the methods.  The answer reaches the client (`Deliver`) or the attempt is cut off
at whatever step it has reached (`CutOff`).  `remove` takes no vectors and skips the
middle.  The administrator (`Administration`), the reindexer (`BuildsGeneration`) and
outages of the embedder run beside.  `identity` is the model a generation was made
with (provider, endpoint, name and dimension as one value).

The error codes are those of `_map_error`; `"failed"` stands for
VALIDATION_ERROR and INTERNAL_ERROR, `"reused"` and `"purged"` for the two
IDEMPOTENCY_KEY codes, and `"unavailable"` for EMBEDDING_UNAVAILABLE.

IdempotentCalls is the abstract promise: a call happens once or never, and a
client is only ever told of what happened.  ServiceRequests implements it by
`effect <- effects` and `told <-` the successes among the answers.

### AuthorityHost

`serve` builds the whole application before it takes the lock: the digest key
(`LoadDigestKey`, `CreateDigestKey`, `WriteDigestKey`: the file is created
exclusively, then written), the local grant (`BindLocalGrant`, a transaction on the
shared database), the admin session file (`CreateLocalAdminSession`), and only then
`AcquireSingleOwner`.  The unit of the supervisor and a `serve` by hand run these
steps independently; the memory scopes of a process come from its environment and
may differ between them, so a binding takes any setting.  A crash at any step frees
the lock (the kernel closes the descriptor), and the supervisor restarts a unit
that failed, not one that ended with the status the unit file declares a success.
Backup and whole-database restore hold the same lock, make a safety snapshot of
the live database first, and may be abandoned between any two steps.
`BeginProbe` and `EndProbe` are `service status`, which takes the lock for a moment.

### ClientGrants

The grant manager and the token manager keep everything in the memory of one process:
`managed` and `linkEvents` (the grants and their audit events), `usedChallenges`,
`revokedTokens`, `revokedGenerations`.  `Forget` is a restart: it empties them all.  What carries
a signature stays with its holder: `expiry` (the challenges that were made) and `minted`.  A token
is minted with whatever generation it is to claim: `mint_token` looks at no grant.
The clock ticks between operations.  A revocation counts a generation of its own
(`Revoked`), as `revoke_grant` does.  Nothing in `src/` calls the manager but its tests, so
its operations come in any order.  Signatures are modelled by what they allow: a
challenge or a token is one that was made, with the fields it was made with, and whoever
claims a challenge knows its verifier.

### RemoteCalls and GrantedCalls

A call of one of the four reading or the three administrative tools is sent, let in
(`LetIn`: middleware and resolver; `Resolve` is `token_resolver`, the static resolver of a server
that asks for no token, or the local admin session), checked by its tool (`StartRead`,
`StartAdmin`) and answered by a query that joins the grant as it is then (`Authorized`).
`status` counts scope by scope, one transaction each (`ScopeCardinality`, `Status`), and
hides counts below `MinCardinality`.  An administrative call commits, is recorded
in the admin log (`AnswerRecorded`) or fails to be (`RecordFails`), and only then is answered.
Beside the calls, rows of `client_grants` are bound, unlinked and narrowed,
memories are written (`WriteMemory` stands for every writing method of McpRepository), and
the server restarts (`Restart`: the calls under way are cut, revocations are
forgotten, the session token is another one).  `requireAuth` is chosen at the start.

The schema has no index that keeps one grant of a client in force; `BindGrant` takes
the earlier rows out of force in its own step, as `ensure_local_grant` does for the
local one.  Idempotent replay, revision numbers, the wording of errors and the degraded
flag of a search are left out; `RefuseAdmin` stands for every conflict and failure of
an administrative call.

GrantedCalls is the abstract promise: a call learns of a memory, or changes
one, as if it were authorized and served in one step.  RemoteCalls implements it with
`allowed` and `inReach` computed from the terms the caller holds in that state.  The terms are those of the
grant and do not look at the age of a token or of the session: both are checked when the call is let in
(`ValidToken`, `now < sessionEnds`), and no property asks more of them.

### DatabaseFile

One path, at which there may be no file, a legacy database or an authority, and eight
commands of six kinds that open it at the same time: `init`, `migrate`, a repository that is opened, the
clean-up of a generation, a cutover and a command of the legacy store.  A command is a
sequence of the transactions and PRAGMAs of its function and may raise or be killed at
each (`Raises`, `LegacyFails`, `Kill`).  Of SQLite the model keeps what these commands meet: one writer; a
transaction that happens or does not; a connection in WAL mode that keeps others from
leaving WAL; and a file that was unlinked, to which the connections it has keep
(`On`: they no longer see the file at the path).  An idle connection in DELETE mode
holds no lock, so a constructor may set WAL again between the PRAGMA of a clean-up and its
BEGIN.  `file` is the file with its schema version, owner, memories, metadata, journal mode and
the state of one generation beside the active one, and, as history, the memories the legacy store
has deleted from it (`lost`); `backup` the snapshot of a
migration, which a kill leaves partial; `config` the owner named by the configuration.

A command of the legacy store opens the file (`LegacyOpen`) and then adds a memory and collects,
or deletes, or clears.  `add` ends with the management of the tiers, so each add is
followed by a collection (`LegacyAdd` goes on to `LegacyDelete`), which deletes memories one
transaction at a time until it is done.  Which memories it takes is left open, as is
how many: any of them may have a low score when it looks, and a `gc` or a `delete` from the
terminal is the same loop without the add (a `delete` takes one, the model allows more).
`LegacyClear` deletes all memories at once.  None of these knows
the metadata of an authority, which stays behind.

The store makes its tables in one step.  Nothing in `src/` but tests calls
`fail_embedding_generation`; it is modelled as a command like the others.

Behaviours of the code that this model shows and no document promises against: of two
`init` commands that both found nothing, the one that fails unlinks the database the other has
completed, and the configuration may then name an owner whose database is gone; an `init`
killed between its database and its configuration leaves a state every later `init`
refuses; a migration may report a failure after it has committed; what the legacy store collects
between the snapshot and the fingerprint of a migration is in the snapshot only, and the migration reports
success all the same; an add or a deletion of the legacy store in a migrated database leaves metadata that does not
match, and every later open of the repository fails.

### TieredStore

`rows` is the table of memories (tier, access count up to `MaxAccess`, young or
stale, cooling, with or without an embedding), `vec` the vector index.  An add is followed
by `_manage_tiers`: trim, replenish, collect; a query by its promotions, its access
counts and the sampling of cold memories.  `pc` is the phase, `todo` what it has
still to treat, and `cur` the memory between the two transactions of a move
(`DropVector` then `SetTier`; `RaiseToHot` then `InsertVector`).  `Kill` ends any phase, and `Raises`
is a transaction that fails in it: the stdio server answers with an error and goes on.
What `LIMIT` takes is any set the order allows (`FirstOf`).

The embedder answers or not, the same within one query.  Which memories a query
matches is open, within the tiers each of the three paths looks at (`ByPaths`).  The fallback of
`retrieve_relevant` ranks memories of every tier (`RankByEmbedding`).  Time passes between
operations only.  `DemoteToCold` is `demote(id, "cold")` of a user of the library; nothing in `src/`
demotes to cold, so without it the cold tier stays empty.

## 3. The runs

Passing runs:

| Run | Question | Instance |
|---|---|---|
| `repo_lifecycle` | does the audit trail replay to the rows and the ledger match it, does a purge leave anything, and can a change be made by nobody or by a grant that may not make it any more? | two clients of two owners, two scopes, two memories, two keys, three revisions, revocations and downgrades |
| `repo_generations` | do all indexes keep speaking of the row while a second generation is built, cut over or failed? | one memory, two scopes, two generations, three keys, four revisions |
| `requests` | does a repeated, interrupted and overtaken call take effect once, and are its vectors comparable? | an add, a replace and a removal, the last two of the memory that the add may have made and under one key; two attempts at a time; one cut; two models |
| `requests_settle` | is a client that keeps asking told in the end? | an add and a move, two attempts at a time, one cut, one outage |
| `host` | one owner, no answered write lost, one digest key, linear grants, restart after a crash | one unit and one terminal, break-glass commands, the status probe, two crashes |
| `pairing` | do the audit events tell the life of every grant, and is a challenge claimed once? | one client, two owners, one challenge, two tokens, three generations, one restart |
| `remote_calls` | is a call served what its caller's grant allows at that moment, and does the admin log tell the truth? | one call at a time of seven that cover every tool but the export of everything, one client, one memory, two generations, one restart |
| `database_file` | do commands on one file keep the authority, the generation that was cut over and the journal mode, and tell what they did? | three of eight commands, two files, starting without a file, from a legacy one and from an authority |
| `tiers` | does the vector index agree with the tiers, and do these keep their sizes? | three memories, room for two hot and one warm, answers of one memory |

The properties of these runs:

* `RevisionHistory` (R5.9): the events of a memory are gapless, start with its add, and the
  last one is what the row shows.  `LedgerMatchesHistory`: a kept result is the event
  it caused, no event answers two keys, every event of a memory not yet purged can be replayed.
  `PurgeLeavesNothing` (R5.8, R8.7, R8.9): no row, index entry, embedding or replayable
  result in any scope the memory ever was in.
* `EveryChangeAttributed` (R5.3, R5.10, R8.3): a row changes only together with one new event, under
  the next revision, by a grant that may make that change at that moment.
* `DerivedIndexParity` (R5.4, R6.7, R6.8), `MappingsInScope`, `VectorsNotStale`, `OneActive`: the derived
  rows after any order of writes, moves, projections, cutovers and failures.
  `DerivedIndexParity` is asked again in `requests`, where the vectors of a write were
  prepared for the generations of an earlier moment.
* `CallsTakeEffectOnce` (R5.1, R5.2) is the specification of IdempotentCalls.
  `VectorsComparable` (R6.6, R6.7): the models are compared in one transaction and the
  vectors stored in another.  `CallsSettle`: the client knows in the end.
* `OneOwner` (R1.5), `AcknowledgedWritesKept`, `LocalGrantLedger`,
  `KeySurvivesRestart`, `RestartTakesOver`: see the comments in AuthorityHost.
* `LinkLedger`: the generations of a grant have one event each, in order, revocations included, so
  the generation a token carries names one binding.  `ClaimedOncePerStart`: a process lets a
  challenge be claimed once (a restart forgets what was claimed).
* `ServedAsGranted` (R5.6, R8.10) is the specification of GrantedCalls: what a call is served or
  changes is what the grant in force reaches in that step, although it was resolved
  earlier.  `AdminLogTrue` (R8.3): no export or change is acknowledged without an
  entry, and no entry says what was not done.
* `CutOverKept`: a clean-up that saw a generation BUILDING leaves it alone once it is cut over.
  `CleanupTold`: a clean-up that cannot restore the journal mode still says what it
  committed.  `WalUnlessStranded`: only a clean-up that ended without restoring WAL leaves an authority in another
  journal mode.  `AuthorityKept`: nothing but a deletion of the legacy store takes a memory from a file, and nothing takes its
  metadata or its owner.  `MigrationTold`: a migration that reports success has given metadata to the memories it
  found, no more and no fewer, and drops none itself: what its snapshot holds beside them was deleted by the legacy store.
  `InitSparesExisting`: `init` unlinks no database that was there when it looked.
* `VectorsOnlyHot`, `HotFindable`: index and tier, between the two transactions of every move; only a kill or an
  exception there leaves a hot memory that search cannot find, and only the one that is being moved.
  `HotWithinCapacity`, `CoolingStaysDown`: the sizes of the tiers, and the rest of a memory that was taken down.

Each property of a passing run is paired in `PROJECT.json` with a mutant: a plausible
slip in one definition (beside the original in its module, marked "Mutant:")
under which the run reports a violation of that property.

The three runs that expect a violation are described in section 6.

## 4. Bounds and fairness

*Repository.*  A row is not written beyond `MaxRevision`; memories, keys, contents
and generations are finite sets.  Three or four revisions of a memory allow
add, move, remove or replace, and purge, with a restore in between; an index can be wrong only
relative to the writes of one memory, so one memory is enough in `repo_generations`, and two
where ledger and history must tell memories apart.  One content suffices in `repo_lifecycle`, whose
properties compare revisions and scopes; the indexes, where the content matters, have two
in `repo_generations`.  Two scopes are needed
for moves and for purges that must reach a scope the memory has left.  Two
generations give every pair of states the code can meet in a scope (ACTIVE with
BUILDING, RETIRED, FAILED).  The repository treats memories, keys and
contents alike, so they are symmetric there; so are the attempts of a call in `requests`.  The run
with a liveness property over calls uses no symmetry.

*Requests.*  `MaxInFlight` attempts of all calls run at once (2: a race of two
attempts of one call, or of two calls), `MaxCut` attempts are cut off (1) and the
embedder fails `MaxOutages` times (0 or 1).  In `requests_settle` every generation
is of the running model, because a generation of another model refuses every write of
its scope and the property excludes that case; and each call has one attempt at a
time there.

*Host.*  `MaxGeneration`, `MaxSnapshots` and `MaxCrashes` (2 each) bound how often the grant is
widened, copies are made and processes are killed: two of each is the least in which a
second widening, the snapshot of a snapshot's database and a crash during recovery happen.

*Pairing and remote calls.*  `MaxTime`, `MaxGeneration`, `MaxStarts` and `MaxRevoked` bound the clock,
the generations, the restarts and the revocations.  `pairing` has three generations: bound, revoked and bound
again.  Calls share nothing but the memories and the log, which is kept per call, and `WriteMemory` already
makes any change another call may make; so one call at a time (`MaxSent` 1, chosen among seven) meets
every interleaving that matters to it.  The theorems hold for any number at once.

*Database file.*  `MaxStarted` (3 of 8 commands) and `MaxFiles` (2): two commands that meet
and a third that finds what they left, with one file unlinked and one made after it.

*Tiers.*  With three memories and a hot capacity of two, an add overflows the hot tier; a warm capacity of one leaves
some cold memories without room.  Access counts are told apart up to `MaxAccess` = 1,
the promotion threshold.  The three memories are symmetric.  `LIMIT 200` of the candidates of a
collection is never reached.

*Deadlock* is not checked in the repository, request, pairing, remote-call and file runs: every bound is
reached in the end, and then nothing is left to do.  It is checked in the host and tier runs.

*Fairness.*  The safety runs assume none.  `FairServiceSpec` assumes that a
client that has no final answer keeps asking (weak fairness of `Send`; it is the premise of the
idempotency contract), that a handler that runs keeps running (`Attempts`: a
synchronous handler with no lock of its own), and that an outage ends.  It does not assume
that the administrator or the reindexer acts.  `FairSpec` of AuthorityHost assumes that
a server that was started keeps running through its start sequence and that the supervisor restarts
its unit (`Serve`, weakly fair for each server), and that a status command ends; nobody
has to start, stop or kill anything.

## 5. What is proved

The proof modules hold theorems for every value of the constants: any number of
owners, grants, scopes, memories, keys, generations, calls, attempts, servers, snapshots, commands, files, clients and
tokens, under the named assumptions `ConstantsAssumption`, `NoneAssumption`, `CallAssumption`, `HostAssumption`,
`LinkAssumption`, `FileAssumption` and `StoreAssumption` (the types of the constants, NULL is no value, in
ServiceRequests: a call is its grant, key and digest; in TieredStore: there are finitely many memories).

McpRepository_proofs, for `Spec`:

* `TypeCorrect`.  One lemma per method.
* `OneActiveGeneration`.  `OneActive` is inductive with the types; only the four
  actions that write `profiles` matter (`ActiveKept` for those that leave the ACTIVE one alone).
* `HistoryCorrect`.  `RevisionHistory` is inductive as the conjunction of
  `GaplessHistory`, `RowAtLastEvent` and `RowHasEvent`; `HistoryAdvances` treats the
  four methods that take the next revision alike, `HistoryAdd` the first one.
* `PurgeInvariant` and `PurgeComplete`.  `PurgeLeavesNothing` is not inductive: a purge scrubs the kept results of the
  purging owner's grants only.  The strengthening `PurgeInv` adds `LedgerOwned`: a kept result is of
  a memory that has a history, and of a grant of the owner of its row.  A purged memory gets no new row because its
  first revision is taken (`RevisionHistory`).
* `ChangesAttributed`: `Spec => EveryChangeAttributed`.  Each method that changes a row appends one event of
  its kind (`NewEvent`), by a grant that may make that change in that state (`MayChange`); the others leave the rows alone.

McpIndexes_proofs, for `Spec`:

* `IndexInvariant`: `IndexInv`, from which the next two follow.  Neither `DerivedIndexParity` nor
  `MappingsInScope` is inductive.  A cutover makes the BUILDING generation the one that is searched, so its
  mappings must already be of the row's content; and the first generation of a scope is
  ACTIVE at once, so no row may be in a scope that has no generation.  `Indexed`, the invariant for one memory, says both; that
  a scope has at most one ACTIVE generation comes from `OneActiveGeneration`.  `IndexedWritten` treats the
  writes alike, `IndexedKept` the steps that do not touch the memory.
* `IndexesInParity` and `MappingsStayInScope`, from it.
* `VectorsNeverStale`: a mapping that names a vec0 row names one that is there (`Projected`).  It is inductive
  with `IndexInv`, of which it needs that a mapping is in the scope of its row: then the table that goes with a failed
  generation holds no vector another mapping names.  A purge takes the mappings of its memory with their vec0 rows, a rewrite
  names none (`StillProjected`: what another step leaves named, it leaves in its table).
* `LedgerCorrect`: `LedgerMatchesHistory` is inductive with `PurgeInv`.  A new result answers the revision that was just
  taken, so no other key answers it (`LedgerAdvances`); and what a purge leaves of the memory's results,
  of whichever grant, is a tombstone (`LedgerAfterPurge`).

ServiceRequests_proofs, for `ServiceSpec`:

* `ServiceTypeCorrect`.
* `ImplementsRepository`: `ServiceSpec => Spec`, step by step.  With it the theorems above hold of the
  repository under the service, whatever is retried, cut off or stale; `ServiceKeepsIndexes` says so of
  `DerivedIndexParity`, which the run `requests` checks again.
* `WritesStayComparable`: `ServiceSpec => VectorsComparable`.  The models are compared in one
  transaction and the vectors written in another, so the invariant speaks of what an attempt holds in between
  (`VectorsOfRunning`: each of its vectors is for a generation that has the running model in a scope of the call).
  It stays true because the model of a profile is never written again (`ModelsStay`); the
  insertion that does nothing on a conflict hides no older profile, because a scope without a current generation has none
  (`OneActive`); and a move needs both scopes to have the same profiles.
* `EffectOnce`: `ServiceSpec => CallsTakeEffectOnce`, the refinement of
  IdempotentCalls.  The inductive invariant `OnceInv` ties effects to the ledger: a call with
  an effect holds its primary key (so it cannot commit again, `CommitLedger`), and a
  row of `mcp_idempotency` under a call's grant, key and digest that is not purged holds
  an effect of that call (so a replay tells the truth).  Only a commit and a purge write the ledger,
  and `PurgeKeepsKeys` shows that a purge frees no key and revives no result.

AuthorityHost_proofs, for `Spec`:

* `TypeCorrect`; `MutualExclusion` (a process that works on the database holds the lock);
  `OneDigestKey` (`KeyInv`: the file has one writer, and is empty while that one writes);
  `NoAnsweredWriteLost` (`KeptInv`: what was answered is in the database or a snapshot, and the
  database is in a snapshot before it is overwritten); `LocalGrantsInOrder` (`GrantsInOrder` of the
  database and of all snapshots is inductive).

ClientGrants_proofs, for `LinkSpec`:

* `LinkTypeCorrect` (`LinkInv` adds that a grant that was ever bound has an owner), `LedgerWhole` (`LedgerGrows`: one
  more event, of the next generation, keeps the trail whole), `ClaimedOnce` (`ClaimedBefore`: a challenge this process has
  not seen was claimed at most once by each process before it).

RemoteCalls_proofs, for `RemoteSpec`:

* `RemoteTypeCorrect`, `AdminLogHonest`, and `CallsServedAsGranted`, the refinement of GrantedCalls.  The inductive
  invariant `RemoteInv` adds to the types that at most one grant of a client is in force (`OneInForce`) and, for each call, that
  what it was resolved to is what it is entitled to (its grant is that of its token's client, its permissions
  are within the token's) and how far it has come (`AdminProgress`).  `AuthorizedReaches` is the heart:
  what the query allows, the terms of the caller reach, because the grant it was resolved to, if still in force, is the
  newest one of its client (`NewestInForce`).

DatabaseFile_proofs, for `FileSpec`:

* `FileTypeCorrect`.  `FileInv` is three parts: the commands (`JobsOK`), the file (`FileOK`), and that the writer of the file
  is connected to it (`WriterHolds`).
* `AuthorityKeptCorrect` and `CutOverKeptCorrect`, from one relation `Changes` between a file and the next: kept, moved on in a named
  way, or made anew; that only a legacy command is at a step that deletes comes from `KindInv`.  `CutOverKeptCorrect` also needs that a generation that is searched has its vectors (`VectorsInv`).
* `CleanupToldCorrect` (`ToldInv`: at each step of a clean-up, whether it has committed), `InitSparesCorrect`
  (`SparesInv`: what an `init` will unlink was made after it looked), `WalCorrect` (`WalInv`: a file
  with tables that is not in WAL was stranded or is being cleaned up).
* `MigrationToldCorrect`.  `MigratesInv` says of each migration how far its snapshot has come: from the copy on there is one,
  whole after it, and as long as the file it was taken from is at the path, what the snapshot holds is in that file or
  among the memories the legacy store has deleted from it, `lost`
  (`Covered`; `Quarantined` once the migration has succeeded).  `SnapshotStays` shows that no step of any command
  takes that away: a memory that leaves a file is from then on in `lost`, which only grows (`Changes`), the metadata of a file
  that has the schema stays, and a file that is made later never gets the number of an earlier one.  These, but for `FileTypeCorrect`, rest on `KindInv`: a command is at a step
  of its own kind.

TieredStore_proofs, for `Spec`:

* `TypeCorrect` and `OnlyHotMemoriesIndexed`: `VectorsOnlyHot` with `Shape`, which says for each phase in which tier the memories
  it has still to treat are, and where the one between two transactions is.
* `CooldownHolds`, `MovesKeepFindable`: action properties, from `Shape`.
* `CapacityKept`: `Budget` counts the hot memories and those that replenishing has still to raise.

`IndexInv`, `VectorsOfRunning` and `MigratesInv` hold on the instances of `repo_generations`, `requests` and `database_file`
as well: TLC checked them there before they were proved.

Only model-checked: the liveness properties (`CallsSettle`, `RestartTakesOver`), because fairness and ENABLED are out of
the prover's reach.  Every invariant, every action property and both refinements the passing runs check are theorems.
No module declares a recursive operator.

## 6. Where the code and its documents disagree

Each run checks one statement of a document and TLC finds it violated.

* `repo_retry_after_move`: a replace that moved its memory files its kept result under the
  target scope; the retry looks under the source scope and is refused (R5.1).
* `host_second_serve`: a second `serve` replaces the local grant and the admin session before the lock
  refuses it (design.md section 11).
* `remote_old_generation`: the token resolver takes the newest grant of the client and never compares its
  generation with the token's, so a token of a generation that was replaced is served by the next (R5.10).

Further statements the code does not keep are definitions of the modules, at the end of each, without a run of
their own:

* `TombstoneBlocksKey` (McpRepository): the deny tombstone of a purge may be shadowed by a replayable result
  of another operation under the same key (docstring of `_resolve_idempotency`).
* `PurgedVectorsGone` (McpRepository): a replace forgets the vec0 row of its memory without deleting it; after a
  move, a purge leaves it in the table (R8.7).
* `MoveCoversEveryMapping` (McpRepository): mappings of a RETIRED generation stay in the old scope, so that no
  memory written before a cutover can be moved after it (R6.8).
* `WritesDuringReindex` (ServiceRequests): while a generation of another model is BUILDING, every write of its scope is
  refused as if the embedder were down (R6.8).
* `RestartServes` (AuthorityHost): a unit that restarts while `service status` holds the lock is not
  started again (comments of cli.py and servicectl.py).
* `EvictionKeepsFloor` (TieredStore): "evict down to 3000" (core/store.py:489), but the excess is subtracted from the
  number of candidates, so that a small excess evicts nearly all of them, also below that floor.
* `RecallOnlyPromotes` (TieredStore): "Move a memory up one tier" (core/store.py:317), but a query promotes to warm what its
  cold search found, and the fallback of that search ranks memories of every tier: a hot memory that was found that way
  is moved down to warm (core/retrieve.py:240).

## 7. What is not modelled

* The history of a memory (a read), the degraded flag of a search, and the ranking and fusion of search
  results, which are formulas on scores; entity extraction, keywords and the text index beyond which memories they may match.
* The instant between the commit of a generation's clean-up and the assignment that notes it (core/mcp_repository.py:1441-1442):
  `CleanUp` is both.  An interrupt exactly there, followed by a failure to restore WAL, would report a committed clean-up as
  rolled back.
* A legacy store without sqlite-vec: it writes no vectors and searches by keywords or by the stored
  embeddings; a demotion from hot fails at its first transaction (core/store.py:371-381), so the hot tier is not trimmed.
* A digest key from the environment (RECALL_MCP_DIGEST_KEY): such a server neither reads nor makes the key file, and
  digests under another key than before are its operator's choice.
* The replay of an administrative call under a used key: it answers with the kept result, changes nothing and records one more entry.
  `AdminLogTrue` is about the call that made the change.
* The re-projection of a vec0 table after a replace: nothing in the repository does it.
* A wait for the SQLite write lock: a transaction that starts has the lock, and one that times out is an attempt
  that was cut off before its transaction.
* The diagnostic sidecar of the lock; writing and removing unit files; the audit file of the break-glass commands; the terminal
  client of the administration and the file its export is written to; file permissions; loopback HTTP parsing.
* Two processes on one legacy store: each would trim by a count the other changes.  TieredStore is the one
  process the stdio server or a terminal command is.
* Challenges and tokens are not composed with the write path: ServiceRequests authorizes by the grant a call already has.
* Argument parsing, JSON-RPC dispatch, redaction, settings, formatting, and the release and interoperability
  checkers: pure functions and batch programs without a protocol.

## 8. What could come next

1. Two processes on one legacy store.
2. The audit files of break-glass maintenance and of administration, with a crash between an effect and its entry.
3. The write path of ServiceRequests behind the resolver of RemoteCalls.
4. The safety half of the liveness properties: that no call that is repeated is ever left without a next step.
