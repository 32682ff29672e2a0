---------------------------- MODULE McpRepository ----------------------------
(***************************************************************************)
(* The MCP repository over the canonical SQLite authority                  *)
(* (src/recall/mcp_repository.py, schema in src/recall/migrations.py).     *)
(*                                                                         *)
(* Every writing method runs in one BEGIN IMMEDIATE transaction: it        *)
(* re-authorizes the grant, resolves the idempotency key, compares the     *)
(* revision, and then writes every table or rolls everything back.  Each   *)
(* method is therefore one action.  Its guard is the conjunction of the    *)
(* checks that would otherwise raise (a refusal or a replay leaves the     *)
(* database unchanged), the constraints of the schema included.            *)
(***************************************************************************)
EXTENDS Integers, FiniteSets

CONSTANTS
    Owner,          \* rows of table owners
    Grant,          \* rows of table client_grants, of kind OAUTH
    Scope,          \* memory scopes
    Key,            \* idempotency keys
    Memory,         \* memory ids
    Content,        \* contents (with the kind and the tags) of a memory
    Generation,     \* embedding generations
    FirstGeneration,\* DEFAULT_GENERATION of authority.py
    GrantOwner,     \* the owner each grant is bound to
    GrantRow,       \* perms and scopes of each grant when it was bound
    MaxRevision,    \* bound: no method is called on a row at this revision
    None            \* SQL NULL, and the absence of a row

Perm == {"read", "write", "admin"}
Op == {"add", "replace", "remove", "restore", "purge"}
Status == {"none", "BUILDING", "ACTIVE", "RETIRED", "FAILED"}

GrantType == [active : BOOLEAN, perms : SUBSET Perm, scopes : SUBSET Scope]
RowType == [owner : Owner, scope : Scope, rev : 1..MaxRevision,
            content : Content, deleted : BOOLEAN]
EmbeddingType == [scope : Scope, content : Content, vec : BOOLEAN]

\* What the keyed payload digest of a request stands for: the digest of two
\* requests is the same exactly when these fields are.
Request == [op : Op, scope : Scope, new : Scope, mem : Memory \cup {None},
            rev : 0..MaxRevision, content : Content \cup {None}]
EventType == [mem : Memory, rev : 1..MaxRevision, op : Op, grant : Grant]
IdemType == [grant : Grant, op : Op, key : Key, mem : Memory, scope : Scope,
             digest : Request, rev : 0..MaxRevision, purged : BOOLEAN]

ASSUME ConstantsAssumption ==
    /\ GrantOwner \in [Grant -> Owner]
    /\ GrantRow \in [Grant -> [perms : SUBSET Perm, scopes : SUBSET Scope]]
    /\ MaxRevision \in Nat \ {0}
    /\ FirstGeneration \in Generation
    /\ None \notin Memory \cup Content

\* A row of a table is never NULL.
ASSUME NoneAssumption == None \notin RowType /\ None \notin EmbeddingType

VARIABLES
    grants,        \* client_grants
    rows,          \* memories JOIN memory_metadata
    keywords,      \* keywords: the content each memory's keywords are from
    fts,           \* memories_fts: the content each memory's entry is from
    embeddings,    \* memory_embeddings
    profiles,      \* embedding_profiles: the status of each generation
    vectorTables,  \* vector_tables: the generations with a vec0 table
    vectors,       \* the rows of those vec0 tables: <<table, memory, content>>
    events,        \* memory_events
    idem           \* mcp_idempotency

vars == <<grants, rows, keywords, fts, embeddings, profiles, vectorTables,
          vectors, events, idem>>
indexVars == <<keywords, fts>>
generationVars == <<profiles, vectorTables>>

TypeOK ==
    /\ grants \in [Grant -> GrantType]
    /\ rows \in [Memory -> RowType \cup {None}]
    /\ keywords \in [Memory -> Content \cup {None}]
    /\ fts \in [Memory -> Content \cup {None}]
    /\ embeddings \in [Memory -> [Generation -> EmbeddingType \cup {None}]]
    /\ profiles \in [Owner -> [Scope -> [Generation -> Status]]]
    /\ vectorTables \subseteq Owner \X Scope \X Generation
    /\ vectors \subseteq (Owner \X Scope \X Generation) \X Memory \X Content
    /\ events \subseteq EventType
    /\ idem \subseteq IdemType

Init ==
    /\ grants = [g \in Grant |-> [active |-> TRUE, perms |-> GrantRow[g].perms,
                                  scopes |-> GrantRow[g].scopes]]
    /\ rows = [m \in Memory |-> None]
    /\ keywords = [m \in Memory |-> None]
    /\ fts = [m \in Memory |-> None]
    /\ embeddings = [m \in Memory |-> [n \in Generation |-> None]]
    /\ profiles = [o \in Owner |-> [s \in Scope |-> [n \in Generation |-> "none"]]]
    /\ vectorTables = {}
    /\ vectors = {}
    /\ events = {}
    /\ idem = {}

-----------------------------------------------------------------------------
(* The checks every method starts with. *)

\* The grant row that the SQL predicate of a method selects.
Authorized(g, perms, scopes) ==
    /\ grants[g].active
    /\ grants[g].perms \cap perms # {}
    /\ scopes \subseteq grants[g].scopes

CanWrite(g, scopes) == Authorized(g, {"write", "admin"}, scopes)
CanAdmin(g, s) == Authorized(g, {"admin"}, {s})

\* The rows _resolve_idempotency looks up: not restricted to one operation,
\* restricted to the scope of the request.
KeyRows(g, s, k) == {r \in idem : r.grant = g /\ r.scope = s /\ r.key = k}

\* PRIMARY KEY(grant_id, operation, idempotency_key) has no such row.
PrimaryKeyFree(g, op, k) ==
    ~ \E r \in idem : r.grant = g /\ r.op = op /\ r.key = k

\* Mutant: a key is looked up first, and nothing stops it from being used twice.
KeyUnused_Anyway(g, s, op, k) == TRUE

\* The key was never committed as far as the method can tell: the lookup
\* finds nothing to replay or to refuse, and the final INSERT goes through.
KeyUnused(g, s, op, k) == KeyRows(g, s, k) = {} /\ PrimaryKeyFree(g, op, k)

\* The answer of _resolve_idempotency when fetchone() returns row r.
Resolution(r, q) ==
    CASE r.purged -> "purged"
      [] ~ r.purged /\ (r.op # q.op \/ r.digest # q) -> "reused"
      [] OTHER -> "replay"

\* UNIQUE(memory_id, revision) of memory_events has no such row.
RevisionFree(m, n) == ~ \E e \in events : e.mem = m /\ e.rev = n

\* Mutant: the row is looked up without its owner.
Matches_AnyOwner(o, s, m, n) ==
    rows[m] # None /\ rows[m].scope = s /\ rows[m].rev = n

\* The visible row of an owner in a scope, at the revision the caller expects.
Matches(o, s, m, n) ==
    /\ rows[m] # None
    /\ rows[m].owner = o /\ rows[m].scope = s /\ rows[m].rev = n

\* Mutant: a write covers the generation that search uses, and no other.
Current_ActiveOnly(o, s) == {n \in Generation : profiles[o][s][n] = "ACTIVE"}

\* The generations that a write must cover.
Current(o, s) == {n \in Generation : profiles[o][s][n] \in {"ACTIVE", "BUILDING"}}
Active(o, s) == {n \in Generation : profiles[o][s][n] = "ACTIVE"}

Mapped(m) == {n \in Generation : embeddings[m][n] # None}

\* The memories of a scope, tombstones included, and those with a mapping.
Canonical(o, s) == {m \in Memory : rows[m] # None /\ rows[m].owner = o
                                                  /\ rows[m].scope = s}
MappedIn(o, s, n) == {m \in Canonical(o, s) : embeddings[m][n] # None}

\* Mutant: the audit records the revision the caller expected.
Event_Expected(m, n, op, g) ==
    [mem |-> m, rev |-> IF n > 1 THEN n - 1 ELSE n, op |-> op, grant |-> g]

Event(m, n, op, g) == [mem |-> m, rev |-> n, op |-> op, grant |-> g]

\* Mutant: the kept result of a call is the revision the call expected.
IdemRow_Expected(g, op, k, m, s, d, n) ==
    [grant |-> g, op |-> op, key |-> k, mem |-> m, scope |-> s,
     digest |-> d, rev |-> d.rev, purged |-> FALSE]

IdemRow(g, op, k, m, s, d, n) ==
    [grant |-> g, op |-> op, key |-> k, mem |-> m, scope |-> s,
     digest |-> d, rev |-> n, purged |-> FALSE]

-----------------------------------------------------------------------------
(* The requests of the five lifecycle methods, as the service digests them. *)

AddRequest(s, c) == [op |-> "add", scope |-> s, new |-> s, mem |-> None,
                     rev |-> 0, content |-> c]
ReplaceRequest(s, t, m, n, c) == [op |-> "replace", scope |-> s, new |-> t,
                                  mem |-> m, rev |-> n, content |-> c]
RowRequest(op, s, m, n) == [op |-> op, scope |-> s, new |-> s, mem |-> m,
                            rev |-> n, content |-> None]

\* The digest that replaces every digest of a purged memory: it is made of
\* the memory and the scope alone.
DenyDigest(m, s) == RowRequest("purge", s, m, 0)

\* Mutant: a rewritten mapping keeps its vec0 row.
Rewritten_KeepsVector(m, blobs, t, c) ==
    [i \in Generation |-> IF i \in blobs
                            THEN [scope |-> t, content |-> c,
                                  vec |-> embeddings[m][i] # None /\ embeddings[m][i].vec]
                            ELSE embeddings[m][i]]

\* The mappings of m once a write of content c to scope t is done, with vectors
\* for the generations in blobs: theirs are rewritten or created.  A vec0 row that
\* such a mapping had is forgotten but not deleted.
Rewritten(m, blobs, t, c) ==
    [i \in Generation |-> IF i \in blobs
                            THEN [scope |-> t, content |-> c, vec |-> FALSE]
                            ELSE embeddings[m][i]]

\* Mutant: the vectors need only be of generations there once were.
Covers_Known(blobs, o, s) ==
    blobs # {} /\ \A n \in blobs : profiles[o][s][n] # "none"

\* The vectors of a write are exactly for the generations that need one.
Covers(blobs, o, s) == blobs = Current(o, s)

\* add_memory: a memory with revision 1 and every derived row.
AddMemory(g, s, m, c, k, blobs) ==
    LET o == GrantOwner[g] IN
    /\ CanWrite(g, {s})
    /\ KeyUnused(g, s, "add", k)
    /\ rows[m] = None
    /\ blobs # {} /\ Covers(blobs, o, s)
    /\ RevisionFree(m, 1)
    /\ rows' = [rows EXCEPT ![m] = [owner |-> o, scope |-> s, rev |-> 1,
                                    content |-> c, deleted |-> FALSE]]
    /\ keywords' = [keywords EXCEPT ![m] = c]
    /\ fts' = [fts EXCEPT ![m] = c]
    /\ embeddings' = [embeddings EXCEPT ![m] = Rewritten(m, blobs, s, c)]
    /\ events' = events \cup {Event(m, 1, "add", g)}
    /\ idem' = idem \cup {IdemRow(g, "add", k, m, s, AddRequest(s, c), 1)}
    /\ UNCHANGED <<grants, profiles, vectorTables, vectors>>

\* Mutant: no foreign key is enforced at COMMIT.
CanMove_Unchecked(o, s, t, m) ==
    /\ Current(o, s) = Current(o, t)
    /\ \A n \in Mapped(m) : ~ embeddings[m][n].vec

\* What a move from scope s to t needs besides the rest of replace_memory: the
\* same generations on both sides, no physical vector, and, for the deferred
\* foreign keys of memory_embeddings at COMMIT, no mapping that stays behind.
CanMove(o, s, t, m) ==
    /\ Current(o, s) = Current(o, t)
    /\ \A n \in Mapped(m) : ~ embeddings[m][n].vec
    /\ Mapped(m) \subseteq Current(o, t)

\* replace_memory, to scope t (t = s when the request names no new scope).
ReplaceMemory(g, s, t, m, n, c, k, blobs) ==
    LET o == GrantOwner[g] IN
    /\ CanWrite(g, {s, t})
    /\ KeyUnused(g, s, "replace", k)
    /\ Matches(o, s, m, n) /\ ~ rows[m].deleted
    /\ t # s => CanMove(o, s, t, m)
    /\ blobs # {} /\ Covers(blobs, o, t)
    /\ RevisionFree(m, n + 1)
    /\ n < MaxRevision
    /\ rows' = [rows EXCEPT ![m] = [owner |-> o, scope |-> t, rev |-> n + 1,
                                    content |-> c, deleted |-> FALSE]]
    /\ keywords' = [keywords EXCEPT ![m] = c]
    /\ fts' = [fts EXCEPT ![m] = c]
    /\ embeddings' = [embeddings EXCEPT ![m] = Rewritten(m, blobs, t, c)]
    /\ events' = events \cup {Event(m, n + 1, "replace", g)}
    /\ idem' = idem \cup {IdemRow(g, "replace", k, m, t,
                                  ReplaceRequest(s, t, m, n, c), n + 1)}
    /\ UNCHANGED <<grants, profiles, vectorTables, vectors>>

\* remove_memory: a tombstone; every derived row is kept for restore_memory.
RemoveMemory(g, s, m, n, k) ==
    /\ CanWrite(g, {s})
    /\ KeyUnused(g, s, "remove", k)
    /\ Matches(GrantOwner[g], s, m, n) /\ ~ rows[m].deleted
    /\ RevisionFree(m, n + 1)
    /\ n < MaxRevision
    /\ rows' = [rows EXCEPT ![m] = [@ EXCEPT !.rev = n + 1, !.deleted = TRUE]]
    /\ events' = events \cup {Event(m, n + 1, "remove", g)}
    /\ idem' = idem \cup {IdemRow(g, "remove", k, m, s,
                                  RowRequest("remove", s, m, n), n + 1)}
    /\ UNCHANGED <<grants, indexVars, embeddings, generationVars, vectors>>

\* restore_memory: the tombstone becomes visible again under a new revision.
\* Its keywords and FTS entry are rebuilt; its embeddings must be complete.
RestoreMemory(g, s, m, n, k) ==
    LET o == GrantOwner[g] IN
    /\ CanAdmin(g, s)
    /\ KeyUnused(g, s, "restore", k)
    /\ Matches(o, s, m, n) /\ rows[m].deleted
    /\ Current(o, s) # {} /\ Current(o, s) \subseteq Mapped(m)
    /\ RevisionFree(m, n + 1)
    /\ n < MaxRevision
    /\ keywords' = [keywords EXCEPT ![m] = rows[m].content]
    /\ fts' = [fts EXCEPT ![m] = rows[m].content]
    /\ rows' = [rows EXCEPT ![m] = [@ EXCEPT !.rev = n + 1, !.deleted = FALSE]]
    /\ events' = events \cup {Event(m, n + 1, "restore", g)}
    /\ idem' = idem \cup {IdemRow(g, "restore", k, m, s,
                                  RowRequest("restore", s, m, n), n + 1)}
    /\ UNCHANGED <<grants, embeddings, generationVars, vectors>>

\* Mutant: only the results kept in the scope of the purge are scrubbed.
Scrubbed_InScope(table, o, s, m) ==
    {IF r.mem = m /\ r.scope = s /\ GrantOwner[r.grant] = o
       THEN [r EXCEPT !.digest = DenyDigest(m, s), !.rev = 0, !.purged = TRUE]
       ELSE r : r \in table}

\* Mutant: the scrub forgets which memory a tombstone is of.
Scrubbed_NoTarget(table, o, s, m) ==
    {IF r.mem = m /\ GrantOwner[r.grant] = o
       THEN [r EXCEPT !.mem = None, !.rev = 0, !.purged = TRUE]
       ELSE r : r \in table}

\* The deny tombstones of a purge: every idempotency row of the memory, in
\* whatever scope and of whatever grant of the owner, loses its result.
Scrubbed(table, o, s, m) ==
    {IF r.mem = m /\ GrantOwner[r.grant] = o
       THEN [r EXCEPT !.digest = DenyDigest(m, s), !.rev = 0, !.purged = TRUE]
       ELSE r : r \in table}

\* The mappings of m that lie in a generation with a vec0 table.
Registered(o, s, m) == {i \in Mapped(m) : <<o, s, i>> \in vectorTables}

\* purge_memory, for a visible row or a tombstone: the content leaves every
\* table and index; the events and the deny tombstones stay.  It does not
\* resolve its key: only the primary key of mcp_idempotency guards it.
PurgeMemory(g, s, m, n, k) ==
    LET o == GrantOwner[g] IN
    /\ CanAdmin(g, s)
    /\ PrimaryKeyFree(g, "purge", k)
    /\ Matches(o, s, m, n)
    /\ RevisionFree(m, n + 1)
    /\ n < MaxRevision
    /\ \A i \in Registered(o, s, m) : embeddings[m][i].vec
    /\ events' = events \cup {Event(m, n + 1, "purge", g)}
    /\ idem' = Scrubbed(idem \cup {IdemRow(g, "purge", k, m, s, DenyDigest(m, s), 0)},
                        o, s, m)
    /\ vectors' = {v \in vectors : \A i \in Registered(o, s, m) :
                      v # <<<<o, s, i>>, m, embeddings[m][i].content>>}
    /\ embeddings' = [embeddings EXCEPT ![m] = [i \in Generation |-> None]]
    /\ keywords' = [keywords EXCEPT ![m] = None]
    /\ fts' = [fts EXCEPT ![m] = None]
    /\ rows' = [rows EXCEPT ![m] = None]
    /\ UNCHANGED <<grants, generationVars>>

-----------------------------------------------------------------------------
(* Embedding generations. *)

\* authority.py ensure_embedding_profile, called for each scope of a write in a
\* transaction of its own, before the write's: it does not look at the grant.
\* The first generation becomes ACTIVE unless a row of it exists (ON CONFLICT DO
\* NOTHING).
EnsureEmbeddingProfile(o, s) ==
    /\ Current(o, s) = {}
    /\ profiles[o][s][FirstGeneration] = "none"
    /\ profiles' = [profiles EXCEPT ![o][s][FirstGeneration] = "ACTIVE"]
    /\ UNCHANGED <<grants, rows, indexVars, embeddings, vectorTables, vectors,
                   events, idem>>

\* The vec0 table of a generation, if registered, holds a row of each mapping;
\* if not, no mapping claims one.
VectorsComplete(o, s, b) ==
    IF <<o, s, b>> \in vectorTables
      THEN \A m \in MappedIn(o, s, b) : /\ embeddings[m][b].vec
                                        /\ \E c \in Content : <<<<o, s, b>>, m, c>> \in vectors
      ELSE \A m \in MappedIn(o, s, b) : ~ embeddings[m][b].vec

\* Mutant: the ACTIVE generation is not retired.
Activated_BesideOld(p, a, b) == [p EXCEPT ![b] = "ACTIVE"]

\* The profiles of a scope once a is retired and b activated in its place.
Activated(p, a, b) == [p EXCEPT ![a] = "RETIRED", ![b] = "ACTIVE"]

\* cutover_embedding_generation: ACTIVE a is retired and BUILDING b activated,
\* if both map exactly the memories of the scope, tombstones included.
CutoverEmbeddingGeneration(g, s, a, b) ==
    LET o == GrantOwner[g] IN
    /\ CanAdmin(g, s)
    /\ Active(o, s) = {a} /\ profiles[o][s][b] = "BUILDING"
    /\ Canonical(o, s) = MappedIn(o, s, a) /\ Canonical(o, s) = MappedIn(o, s, b)
    /\ VectorsComplete(o, s, b)
    /\ profiles' = [profiles EXCEPT ![o][s] = Activated(@, a, b)]
    /\ UNCHANGED <<grants, rows, indexVars, embeddings, vectorTables, vectors,
                   events, idem>>

\* fail_embedding_generation, its committing transaction: BUILDING b loses its
\* mappings, its vec0 table and its registration.
FailEmbeddingGeneration(g, s, b) ==
    LET o == GrantOwner[g] IN
    /\ CanAdmin(g, s)
    /\ Cardinality(Active(o, s)) = 1 /\ profiles[o][s][b] = "BUILDING"
    /\ <<o, s, b>> \in vectorTables
         \/ \A m \in MappedIn(o, s, b) : ~ embeddings[m][b].vec
    /\ vectors' = {v \in vectors : v[1] # <<o, s, b>>}
    /\ embeddings' = [m \in Memory |-> [n \in Generation |->
           IF n = b /\ m \in MappedIn(o, s, b) THEN None ELSE embeddings[m][n]]]
    /\ vectorTables' = vectorTables \ {<<o, s, b>>}
    /\ profiles' = [profiles EXCEPT ![o][s][b] = "FAILED"]
    /\ UNCHANGED <<grants, rows, indexVars, events, idem>>

-----------------------------------------------------------------------------
(* Code outside the repository that the methods above are written for: the  *)
(* reindexer that builds a generation, and the owner's grant administration. *)

\* A reindexer opens a new generation beside the ACTIVE one.
BeginBuilding(o, s, n) ==
    /\ Active(o, s) # {}
    /\ profiles[o][s][n] = "none"
    /\ profiles' = [profiles EXCEPT ![o][s][n] = "BUILDING"]
    /\ UNCHANGED <<grants, rows, indexVars, embeddings, vectorTables, vectors,
                   events, idem>>

\* It embeds a memory that was there before the generation.
Backfill(m, n) ==
    /\ rows[m] # None
    /\ profiles[rows[m].owner][rows[m].scope][n] = "BUILDING"
    /\ embeddings[m][n] = None
    /\ embeddings' = [embeddings EXCEPT ![m][n] =
           [scope |-> rows[m].scope, content |-> rows[m].content, vec |-> FALSE]]
    /\ UNCHANGED <<grants, rows, indexVars, generationVars, vectors, events, idem>>

\* It registers a vec0 table and projects the mappings of the generation.
ProjectVectors(o, s, n) ==
    /\ n \in Current(o, s)
    /\ MappedIn(o, s, n) # {}
    /\ <<o, s, n>> \notin vectorTables
    /\ vectorTables' = vectorTables \cup {<<o, s, n>>}
    /\ vectors' = vectors \cup
           {<<<<o, s, n>>, m, embeddings[m][n].content>> : m \in MappedIn(o, s, n)}
    /\ embeddings' = [m \in Memory |->
           IF m \in MappedIn(o, s, n)
             THEN [embeddings[m] EXCEPT ![n] = [@ EXCEPT !.vec = TRUE]]
             ELSE embeddings[m]]
    /\ UNCHANGED <<grants, rows, indexVars, profiles, events, idem>>

\* A grant is revoked or unlinked; this is never undone.
RevokeGrant(g) ==
    /\ grants[g].active
    /\ grants' = [grants EXCEPT ![g].active = FALSE]
    /\ UNCHANGED <<rows, indexVars, embeddings, generationVars, vectors, events, idem>>

\* A grant loses one of its memory scopes.
DowngradeGrant(g, s) ==
    /\ grants[g].active /\ s \in grants[g].scopes
    /\ grants' = [grants EXCEPT ![g].scopes = @ \ {s}]
    /\ UNCHANGED <<rows, indexVars, embeddings, generationVars, vectors, events, idem>>

-----------------------------------------------------------------------------
Revision == 1..MaxRevision

Lifecycle(g, s, m, k) ==
    \/ \E c \in Content, blobs \in SUBSET Generation : AddMemory(g, s, m, c, k, blobs)
    \/ \E t \in Scope, n \in Revision, c \in Content, blobs \in SUBSET Generation :
           ReplaceMemory(g, s, t, m, n, c, k, blobs)
    \/ \E n \in Revision : \/ RemoveMemory(g, s, m, n, k)
                           \/ RestoreMemory(g, s, m, n, k)
                           \/ PurgeMemory(g, s, m, n, k)

Generations(g, s) ==
    \/ \E a, b \in Generation : CutoverEmbeddingGeneration(g, s, a, b)
    \/ \E b \in Generation : FailEmbeddingGeneration(g, s, b)

Reindexer ==
    \/ \E o \in Owner, s \in Scope, n \in Generation : BeginBuilding(o, s, n)
    \/ \E o \in Owner, s \in Scope, n \in Generation : ProjectVectors(o, s, n)
    \/ \E m \in Memory, n \in Generation : Backfill(m, n)

GrantAdministration ==
    \E g \in Grant : RevokeGrant(g) \/ \E s \in Scope : DowngradeGrant(g, s)

Next ==
    \/ \E g \in Grant, s \in Scope, m \in Memory, k \in Key : Lifecycle(g, s, m, k)
    \/ \E g \in Grant, s \in Scope : Generations(g, s)
    \/ \E o \in Owner, s \in Scope : EnsureEmbeddingProfile(o, s)
    \/ Reindexer
    \/ GrantAdministration

Spec == Init /\ [][Next]_vars

-----------------------------------------------------------------------------
(* What the repository promises. *)

History(m) == {e \in events : e.mem = m}
Purged(m) == \E e \in History(m) : e.op = "purge"

\* No revision of a memory is recorded twice, and an event follows an event of
\* every earlier revision, the first of which is the add.
GaplessHistory ==
    \A m \in Memory : \A e \in History(m) :
        /\ \A f \in History(m) : f.rev = e.rev => f = e
        /\ \A n \in 1..e.rev : \E f \in History(m) : f.rev = n
        /\ e.op = "add" <=> e.rev = 1

\* A row is at the revision of its last event, which tells whether it is a
\* tombstone; a memory without a row has no event, or the last one is its purge.
RowAtLastEvent ==
    \A m \in Memory : \A e \in History(m) :
        /\ rows[m] # None => e.rev <= rows[m].rev
        /\ e.op = "purge" => rows[m] = None /\ \A f \in History(m) : f.rev <= e.rev
RowHasEvent ==
    \A m \in Memory :
        /\ rows[m] # None =>
              \E e \in History(m) : /\ e.rev = rows[m].rev
                                    /\ e.op = "remove" <=> rows[m].deleted
        /\ rows[m] = None => History(m) = {} \/ Purged(m)

\* The audit trail of memory_events replays to the canonical rows: every
\* successful method takes one new revision and leaves its trace, whatever the
\* order in which clients interleave (R5.9).
RevisionHistory == GaplessHistory /\ RowAtLastEvent /\ RowHasEvent

\* The ledger mcp_idempotency and the audit trail tell the same story: a result
\* that is kept is of an event with its memory, revision, operation and grant, no
\* revision answers two keys, and as long as a memory is not purged each of its
\* events has a kept result.
LedgerMatchesHistory ==
    /\ \A r \in idem : ~ r.purged =>
           /\ Event(r.mem, r.rev, r.op, r.grant) \in events
           /\ \A q \in idem : ~ q.purged /\ q.mem = r.mem /\ q.rev = r.rev => q = r
    /\ \A e \in events : ~ Purged(e.mem) =>
           \E r \in idem : /\ ~ r.purged
                           /\ e = Event(r.mem, r.rev, r.op, r.grant)

\* Every derived index speaks of the content that is in the row, tombstones
\* included: keywords, FTS, and the embedding of the generation that search may
\* use, before and after any cutover (R5.4, R6.7, R6.8).
DerivedIndexParity ==
    \A m \in Memory :
        IF rows[m] = None
          THEN keywords[m] = None /\ fts[m] = None /\ Mapped(m) = {}
          ELSE /\ keywords[m] = rows[m].content /\ fts[m] = rows[m].content
               /\ \A n \in Active(rows[m].owner, rows[m].scope) :
                      embeddings[m][n] # None /\ embeddings[m][n].content = rows[m].content

\* The foreign keys of memory_embeddings: a mapping is in the scope of its row
\* and its generation has a profile there.
MappingsInScope ==
    \A m \in Memory : \A n \in Mapped(m) :
        /\ rows[m] # None
        /\ embeddings[m][n].scope = rows[m].scope
        /\ profiles[rows[m].owner][rows[m].scope][n] # "none"

\* A mapping that names a vec0 row names one that is there, in a registered
\* table of its own scope, and that holds the vector of the mapped content:
\* no rewrite, failed generation or purge leaves it dangling or stale.
VectorsNotStale ==
    \A m \in Memory : \A n \in Mapped(m) : embeddings[m][n].vec =>
        LET t == <<rows[m].owner, embeddings[m][n].scope, n>> IN
        t \in vectorTables /\ <<t, m, embeddings[m][n].content>> \in vectors

\* Once a scope has a generation it has exactly one ACTIVE generation, so the
\* ON CONFLICT DO NOTHING of ensure_embedding_profile never hides a scope that
\* no write could ever enter again (R6.7).
OneActive ==
    \A o \in Owner, s \in Scope :
        (\E n \in Generation : profiles[o][s][n] # "none") =>
            \E n \in Generation : Active(o, s) = {n}

\* Nothing that could give back the content of a purged memory is kept, in any
\* scope it ever was in: no row, no keyword, FTS entry or embedding, and no
\* replayable result of any grant (R5.8, R8.7, R8.9).
PurgeLeavesNothing ==
    \A m \in Memory : Purged(m) =>
        /\ rows[m] = None /\ keywords[m] = None /\ fts[m] = None /\ Mapped(m) = {}
        /\ \A r \in idem : r.mem = m => r.purged

\* What a grant may have done to row m: it was active, with a permission to
\* write, for the scope the row was in and for the scope it is in now, of its
\* own owner.
AuthorizedChange(m, g) ==
    /\ \A r \in {rows[m], rows'[m]} \ {None} :
           CanWrite(g, {r.scope}) /\ r.owner = GrantOwner[g]
    /\ rows'[m] = None => CanAdmin(g, rows[m].scope)

\* No step changes a row without one new event of that memory, under the
\* revision after the row's, by a grant that may change it right then: there is
\* no lost update, no silent write, no write of another owner's row and none by
\* a grant revoked in between (R5.3, R5.10, R7.8, R8.3).
EveryChangeAttributed ==
    [][\A m \in Memory : rows'[m] # rows[m] =>
          \E e \in events' \ events :
              /\ events' = events \cup {e}
              /\ e.mem = m
              /\ e.rev = IF rows[m] = None THEN 1 ELSE rows[m].rev + 1
              /\ AuthorizedChange(m, e.grant)]_vars

-----------------------------------------------------------------------------
(* What the documents promise and the code does not keep. *)

\* R5.1 (.kiro/specs/recall-mcp-cross-client/requirements.md): the same key of
\* the same grant and operation has one side effect "and returns the original
\* result".  A call repeated while its result is kept must find it, and nothing
\* else, under its key.
RetryReplays ==
    \A r \in idem : ~ r.purged =>
        LET found == KeyRows(r.grant, r.digest.scope, r.key) IN
        found # {} /\ \A x \in found : Resolution(x, r.digest) = "replay"

\* The docstring of _resolve_idempotency: "a purged deny tombstone written by
\* any operation blocks every replay of the same key".
TombstoneBlocksKey ==
    \A r \in idem : r.purged =>
        \A x \in KeyRows(r.grant, r.scope, r.key) : x.purged

\* R8.7: a hard purge removes the content from every index.
PurgedVectorsGone ==
    \A v \in vectors : ~ Purged(v[2])

\* R6.8: a scope move updates the scope of the row and of all the mappings of
\* the memory, so that a move between scopes with the same generations and
\* without physical vectors leaves no mapping behind (and can commit).
MoveCoversEveryMapping ==
    \A m \in Memory : rows[m] # None /\ ~ rows[m].deleted =>
        LET o == rows[m].owner
            s == rows[m].scope IN
        \A t \in Scope \ {s} :
            /\ Current(o, s) # {} /\ Current(o, s) = Current(o, t)
            /\ \A n \in Mapped(m) : ~ embeddings[m][n].vec
            => Mapped(m) \subseteq Current(o, t)
=============================================================================
