------------------------ MODULE McpRepository_proofs ------------------------
(***************************************************************************)
(* Theorems about the MCP repository, for any owners, grants, scopes,      *)
(* memories, keys, contents and generations.                               *)
(***************************************************************************)
EXTENDS McpRepository, TLAPS

-----------------------------------------------------------------------------
(* Types of the values the actions build. *)

LEMMA RequestTyped ==
    ASSUME NEW op \in Op, NEW s \in Scope, NEW m \in Memory, NEW n \in 0..MaxRevision
    PROVE  RowRequest(op, s, m, n) \in Request
BY DEF RowRequest, Request

LEMMA EventTyped ==
    ASSUME NEW m \in Memory, NEW n \in 1..MaxRevision, NEW op \in Op, NEW g \in Grant
    PROVE  Event(m, n, op, g) \in EventType
BY DEF Event, EventType

LEMMA IdemRowTyped ==
    ASSUME NEW g \in Grant, NEW op \in Op, NEW k \in Key, NEW m \in Memory,
           NEW s \in Scope, NEW d \in Request, NEW n \in 0..MaxRevision
    PROVE  IdemRow(g, op, k, m, s, d, n) \in IdemType
BY DEF IdemRow, IdemType

LEMMA OwnerTyped ==
    ASSUME NEW g \in Grant
    PROVE  GrantOwner[g] \in Owner
BY ConstantsAssumption

LEMMA RevisionTyped ==
    /\ MaxRevision \in Nat
    /\ 1 \in 1..MaxRevision
    /\ \A n \in 1..MaxRevision : /\ n \in 0..MaxRevision
                                 /\ n < MaxRevision => n + 1 \in 1..MaxRevision
BY ConstantsAssumption

LEMMA RewrittenTyped ==
    ASSUME TypeOK, NEW m \in Memory, NEW blobs, NEW t \in Scope, NEW c \in Content
    PROVE  Rewritten(m, blobs, t, c) \in [Generation -> EmbeddingType \cup {None}]
BY DEF TypeOK, Rewritten, EmbeddingType

LEMMA ScrubbedTyped ==
    ASSUME NEW table, table \subseteq IdemType,
           NEW o \in Owner, NEW s \in Scope, NEW m \in Memory
    PROVE  Scrubbed(table, o, s, m) \subseteq IdemType
<1>1. DenyDigest(m, s) \in Request
  BY RequestTyped, RevisionTyped DEF DenyDigest, Op
<1>2. 0 \in 0..MaxRevision
  BY RevisionTyped
<1>3. ASSUME NEW r \in IdemType
      PROVE  [r EXCEPT !.digest = DenyDigest(m, s), !.rev = 0, !.purged = TRUE] \in IdemType
  BY <1>1, <1>2, <1>3 DEF IdemType
<1>4. QED
  BY <1>3 DEF Scrubbed

-----------------------------------------------------------------------------
(* Type correctness. *)

\* A row that a method found has the revision the caller named.
LEMMA MatchesTyped ==
    ASSUME TypeOK, NEW o \in Owner, NEW s \in Scope, NEW m \in Memory,
           NEW n \in 1..MaxRevision, Matches(o, s, m, n)
    PROVE  rows[m] \in RowType
BY DEF TypeOK, Matches

LEMMA TypeAdd ==
    ASSUME TypeOK, NEW g \in Grant, NEW s \in Scope, NEW m \in Memory,
           NEW c \in Content, NEW k \in Key,
           NEW blobs \in SUBSET Generation, AddMemory(g, s, m, c, k, blobs)
    PROVE  TypeOK'
<1> DEFINE o == GrantOwner[g]
<1>1. o \in Owner
  BY OwnerTyped
<1>2. rows' \in [Memory -> RowType \cup {None}]
  <2>1. [owner |-> o, scope |-> s, rev |-> 1, content |-> c, deleted |-> FALSE] \in RowType
    BY <1>1, RevisionTyped DEF RowType
  <2>2. QED
    BY <2>1 DEF TypeOK, AddMemory
<1>3. keywords' \in [Memory -> Content \cup {None}] /\ fts' \in [Memory -> Content \cup {None}]
  BY DEF TypeOK, AddMemory
<1>4. embeddings' \in [Memory -> [Generation -> EmbeddingType \cup {None}]]
  BY <1>1, RewrittenTyped DEF TypeOK, AddMemory
<1>5. events' \subseteq EventType
  BY EventTyped, RevisionTyped DEF TypeOK, AddMemory, Op
<1>6. idem' \subseteq IdemType
  <2>1. AddRequest(s, c) \in Request
    BY RevisionTyped DEF AddRequest, Request, Op
  <2>2. IdemRow(g, "add", k, m, s, AddRequest(s, c), 1) \in IdemType
    BY <2>1, IdemRowTyped, RevisionTyped DEF Op
  <2>3. QED
    BY <2>2 DEF TypeOK, AddMemory
<1>7. QED
  BY <1>2, <1>3, <1>4, <1>5, <1>6 DEF TypeOK, AddMemory

LEMMA TypeReplace ==
    ASSUME TypeOK, NEW g \in Grant, NEW s \in Scope, NEW t \in Scope, NEW m \in Memory,
           NEW n \in 1..MaxRevision, NEW c \in Content, NEW k \in Key,
           NEW blobs \in SUBSET Generation, ReplaceMemory(g, s, t, m, n, c, k, blobs)
    PROVE  TypeOK'
<1> DEFINE o == GrantOwner[g]
<1>1. o \in Owner
  BY OwnerTyped
<1>2. n \in 0..MaxRevision /\ n + 1 \in 1..MaxRevision /\ n + 1 \in 0..MaxRevision
  BY RevisionTyped DEF ReplaceMemory
<1>3. rows' \in [Memory -> RowType \cup {None}]
  <2>1. [owner |-> o, scope |-> t, rev |-> n + 1, content |-> c, deleted |-> FALSE] \in RowType
    BY <1>1, <1>2 DEF RowType
  <2>2. QED
    BY <2>1 DEF TypeOK, ReplaceMemory
<1>4. keywords' \in [Memory -> Content \cup {None}] /\ fts' \in [Memory -> Content \cup {None}]
  BY DEF TypeOK, ReplaceMemory
<1>5. embeddings' \in [Memory -> [Generation -> EmbeddingType \cup {None}]]
  BY <1>1, RewrittenTyped DEF TypeOK, ReplaceMemory
<1>6. events' \subseteq EventType
  BY EventTyped, <1>2 DEF TypeOK, ReplaceMemory, Op
<1>7. idem' \subseteq IdemType
  <2>1. ReplaceRequest(s, t, m, n, c) \in Request
    BY <1>2 DEF ReplaceRequest, Request, Op
  <2>2. QED
    BY <2>1, IdemRowTyped, <1>2 DEF TypeOK, ReplaceMemory, Op
<1>8. QED
  BY <1>3, <1>4, <1>5, <1>6, <1>7 DEF TypeOK, ReplaceMemory

LEMMA TypeRemove ==
    ASSUME TypeOK, NEW g \in Grant, NEW s \in Scope, NEW m \in Memory,
           NEW n \in 1..MaxRevision, NEW k \in Key, RemoveMemory(g, s, m, n, k)
    PROVE  TypeOK'
<1>1. n \in 0..MaxRevision /\ n + 1 \in 1..MaxRevision /\ n + 1 \in 0..MaxRevision
  BY RevisionTyped DEF RemoveMemory
<1>2. rows' \in [Memory -> RowType \cup {None}]
  <2>1. rows[m] \in RowType
    BY MatchesTyped, OwnerTyped DEF RemoveMemory
  <2>2. [rows[m] EXCEPT !.rev = n + 1, !.deleted = TRUE] \in RowType
    BY <1>1, <2>1 DEF RowType
  <2>3. QED
    BY <2>2 DEF TypeOK, RemoveMemory
<1>3. events' \subseteq EventType
  BY EventTyped, <1>1 DEF TypeOK, RemoveMemory, Op
<1>4. idem' \subseteq IdemType
  BY RequestTyped, IdemRowTyped, <1>1 DEF TypeOK, RemoveMemory, Op
<1>5. QED
  BY <1>2, <1>3, <1>4 DEF TypeOK, RemoveMemory, indexVars, generationVars

LEMMA TypeRestore ==
    ASSUME TypeOK, NEW g \in Grant, NEW s \in Scope, NEW m \in Memory,
           NEW n \in 1..MaxRevision, NEW k \in Key, RestoreMemory(g, s, m, n, k)
    PROVE  TypeOK'
<1>1. n \in 0..MaxRevision /\ n + 1 \in 1..MaxRevision /\ n + 1 \in 0..MaxRevision
  BY RevisionTyped DEF RestoreMemory
<1>2. rows[m] \in RowType
  BY MatchesTyped, OwnerTyped DEF RestoreMemory
<1>3. rows' \in [Memory -> RowType \cup {None}]
  <2>1. [rows[m] EXCEPT !.rev = n + 1, !.deleted = FALSE] \in RowType
    BY <1>1, <1>2 DEF RowType
  <2>2. QED
    BY <2>1 DEF TypeOK, RestoreMemory
<1>4. keywords' \in [Memory -> Content \cup {None}] /\ fts' \in [Memory -> Content \cup {None}]
  <2>1. rows[m].content \in Content
    BY <1>2 DEF RowType
  <2>2. QED
    BY <2>1 DEF TypeOK, RestoreMemory
<1>5. events' \subseteq EventType
  BY EventTyped, <1>1 DEF TypeOK, RestoreMemory, Op
<1>6. idem' \subseteq IdemType
  BY RequestTyped, IdemRowTyped, <1>1 DEF TypeOK, RestoreMemory, Op
<1>7. QED
  BY <1>3, <1>4, <1>5, <1>6 DEF TypeOK, RestoreMemory, generationVars

LEMMA TypePurge ==
    ASSUME TypeOK, NEW g \in Grant, NEW s \in Scope, NEW m \in Memory,
           NEW n \in 1..MaxRevision, NEW k \in Key, PurgeMemory(g, s, m, n, k)
    PROVE  TypeOK'
<1>1. n + 1 \in 1..MaxRevision
  BY RevisionTyped DEF PurgeMemory
<1>2. rows' \in [Memory -> RowType \cup {None}]
  BY DEF TypeOK, PurgeMemory
<1>3. keywords' \in [Memory -> Content \cup {None}] /\ fts' \in [Memory -> Content \cup {None}]
  BY DEF TypeOK, PurgeMemory
<1>4. embeddings' \in [Memory -> [Generation -> EmbeddingType \cup {None}]]
  BY DEF TypeOK, PurgeMemory
<1>5. vectors' \subseteq (Owner \X Scope \X Generation) \X Memory \X Content
  BY DEF TypeOK, PurgeMemory
<1>6. events' \subseteq EventType
  BY EventTyped, <1>1 DEF TypeOK, PurgeMemory, Op
<1>7. idem' \subseteq IdemType
  <2>1. DenyDigest(m, s) \in Request
    BY RequestTyped, RevisionTyped DEF DenyDigest, Op
  <2>2. IdemRow(g, "purge", k, m, s, DenyDigest(m, s), 0) \in IdemType
    BY <2>1, IdemRowTyped, RevisionTyped DEF Op
  <2>3. idem \cup {IdemRow(g, "purge", k, m, s, DenyDigest(m, s), 0)} \subseteq IdemType
    BY <2>2 DEF TypeOK
  <2>4. QED
    BY <2>3, ScrubbedTyped, OwnerTyped DEF PurgeMemory
<1>8. QED
  BY <1>2, <1>3, <1>4, <1>5, <1>6, <1>7 DEF TypeOK, PurgeMemory, generationVars

LEMMA StatusTyped ==
    ASSUME NEW p \in [Generation -> Status], NEW a \in Generation, NEW b \in Generation
    PROVE  Activated(p, a, b) \in [Generation -> Status]
BY DEF Activated, Status

LEMMA TypeGenerations ==
    ASSUME TypeOK, NEW g \in Grant, NEW s \in Scope, Generations(g, s)
    PROVE  TypeOK'
<1> DEFINE o == GrantOwner[g]
<1>1. o \in Owner
  BY OwnerTyped
<1>2. CASE \E a, b \in Generation : CutoverEmbeddingGeneration(g, s, a, b)
  <2>1. PICK a \in Generation, b \in Generation : CutoverEmbeddingGeneration(g, s, a, b)
    BY <1>2
  <2>2. Activated(profiles[o][s], a, b) \in [Generation -> Status]
    BY <1>1, StatusTyped DEF TypeOK
  <2>3. profiles' \in [Owner -> [Scope -> [Generation -> Status]]]
    BY <1>1, <2>1, <2>2 DEF TypeOK, CutoverEmbeddingGeneration
  <2>4. QED
    BY <2>1, <2>3 DEF TypeOK, CutoverEmbeddingGeneration, indexVars
<1>3. CASE \E b \in Generation : FailEmbeddingGeneration(g, s, b)
  <2>1. PICK b \in Generation : FailEmbeddingGeneration(g, s, b)
    BY <1>3
  <2>2. profiles' \in [Owner -> [Scope -> [Generation -> Status]]]
    BY <1>1, <2>1 DEF TypeOK, FailEmbeddingGeneration, Status
  <2>3. embeddings' \in [Memory -> [Generation -> EmbeddingType \cup {None}]]
    BY <1>1, <2>1 DEF TypeOK, FailEmbeddingGeneration
  <2>4. vectors' \subseteq vectors /\ vectorTables' \subseteq vectorTables
    BY <2>1 DEF FailEmbeddingGeneration
  <2>5. QED
    BY <2>1, <2>2, <2>3, <2>4 DEF TypeOK, FailEmbeddingGeneration, indexVars
<1>4. QED
  BY <1>2, <1>3 DEF Generations

LEMMA TypeEnsure ==
    ASSUME TypeOK, NEW o \in Owner, NEW s \in Scope, EnsureEmbeddingProfile(o, s)
    PROVE  TypeOK'
<1>1. profiles' \in [Owner -> [Scope -> [Generation -> Status]]]
  BY ConstantsAssumption DEF TypeOK, EnsureEmbeddingProfile, Status
<1>2. QED
  BY <1>1 DEF TypeOK, EnsureEmbeddingProfile, indexVars

LEMMA TypeReindexer ==
    ASSUME TypeOK, Reindexer
    PROVE  TypeOK'
<1>1. ASSUME NEW o \in Owner, NEW s \in Scope, NEW n \in Generation, BeginBuilding(o, s, n)
      PROVE  TypeOK'
  <2>1. profiles' \in [Owner -> [Scope -> [Generation -> Status]]]
    BY <1>1 DEF TypeOK, BeginBuilding, Status
  <2>2. QED
    BY <1>1, <2>1 DEF TypeOK, BeginBuilding, indexVars
<1>2. ASSUME NEW o \in Owner, NEW s \in Scope, NEW n \in Generation, ProjectVectors(o, s, n)
      PROVE  TypeOK'
  <2>1. \A m \in MappedIn(o, s, n) : m \in Memory /\ embeddings[m][n] \in EmbeddingType
    BY DEF TypeOK, MappedIn, Canonical
  <2>2. vectors' \subseteq (Owner \X Scope \X Generation) \X Memory \X Content
    BY <1>2, <2>1 DEF TypeOK, ProjectVectors, EmbeddingType
  <2>3. \A m \in MappedIn(o, s, n) :
            [embeddings[m] EXCEPT ![n] = [@ EXCEPT !.vec = TRUE]]
                \in [Generation -> EmbeddingType \cup {None}]
    BY <2>1 DEF TypeOK, EmbeddingType
  <2>4. embeddings' \in [Memory -> [Generation -> EmbeddingType \cup {None}]]
    BY <1>2, <2>3 DEF TypeOK, ProjectVectors
  <2>5. vectorTables' \subseteq Owner \X Scope \X Generation
    BY <1>2 DEF TypeOK, ProjectVectors
  <2>6. QED
    BY <1>2, <2>2, <2>4, <2>5 DEF TypeOK, ProjectVectors, indexVars
<1>3. ASSUME NEW m \in Memory, NEW n \in Generation, Backfill(m, n)
      PROVE  TypeOK'
  <2>1. rows[m] \in RowType
    BY <1>3 DEF TypeOK, Backfill
  <2>2. [scope |-> rows[m].scope, content |-> rows[m].content, vec |-> FALSE] \in EmbeddingType
    BY <2>1 DEF RowType, EmbeddingType
  <2>3. embeddings' \in [Memory -> [Generation -> EmbeddingType \cup {None}]]
    BY <1>3, <2>2 DEF TypeOK, Backfill
  <2>4. QED
    BY <1>3, <2>3 DEF TypeOK, Backfill, indexVars, generationVars
<1>4. QED
  BY <1>1, <1>2, <1>3 DEF Reindexer

LEMMA TypeGrants ==
    ASSUME TypeOK, GrantAdministration
    PROVE  TypeOK'
<1>1. ASSUME NEW g \in Grant, RevokeGrant(g)
      PROVE  TypeOK'
  BY <1>1 DEF TypeOK, RevokeGrant, GrantType, indexVars, generationVars
<1>2. ASSUME NEW g \in Grant, NEW s \in Scope, DowngradeGrant(g, s)
      PROVE  TypeOK'
  BY <1>2 DEF TypeOK, DowngradeGrant, GrantType, indexVars, generationVars
<1>3. QED
  BY <1>1, <1>2 DEF GrantAdministration

LEMMA TypeLifecycle ==
    ASSUME TypeOK, NEW g \in Grant, NEW s \in Scope, NEW m \in Memory, NEW k \in Key,
           Lifecycle(g, s, m, k)
    PROVE  TypeOK'
BY TypeAdd, TypeReplace, TypeRemove, TypeRestore, TypePurge DEF Lifecycle, Revision

LEMMA TypeInit ==
    ASSUME Init
    PROVE  TypeOK
BY ConstantsAssumption DEF Init, TypeOK, GrantType, Status

LEMMA TypeStep ==
    ASSUME TypeOK, [Next]_vars
    PROVE  TypeOK'
<1>1. CASE \E g \in Grant, s \in Scope, m \in Memory, k \in Key : Lifecycle(g, s, m, k)
  BY <1>1, TypeLifecycle
<1>2. CASE \E g \in Grant, s \in Scope : Generations(g, s)
  BY <1>2, TypeGenerations
<1>3. CASE \E o \in Owner, s \in Scope : EnsureEmbeddingProfile(o, s)
  BY <1>3, TypeEnsure
<1>4. CASE Reindexer
  BY <1>4, TypeReindexer
<1>5. CASE GrantAdministration
  BY <1>5, TypeGrants
<1>6. CASE UNCHANGED vars
  BY <1>6 DEF vars, TypeOK
<1>7. QED
  BY <1>1, <1>2, <1>3, <1>4, <1>5, <1>6 DEF Next

\* Every table of the authority stays well typed, whatever the grants, the
\* scopes and the generations, and however the methods interleave.
THEOREM TypeCorrect == Spec => []TypeOK
<1>1. Init => TypeOK
  BY TypeInit
<1>2. TypeOK /\ [Next]_vars => TypeOK'
  BY TypeStep
<1>3. QED
  BY <1>1, <1>2, PTL DEF Spec

-----------------------------------------------------------------------------
(* One ACTIVE generation per scope. *)

\* A step that changes one generation b of one scope, which is not ACTIVE and
\* does not become it, leaves the ACTIVE generations of every scope as they are.
LEMMA ActiveKept ==
    ASSUME TypeOK, NEW o \in Owner, NEW s \in Scope, NEW b \in Generation, NEW st \in Status,
           profiles[o][s][b] # "ACTIVE", st # "ACTIVE",
           profiles' = [profiles EXCEPT ![o][s][b] = st]
    PROVE  \A p \in Owner, t \in Scope : Active(p, t)' = Active(p, t)
BY DEF TypeOK, Active

LEMMA OneActiveCutover ==
    ASSUME TypeOK, OneActive, NEW g \in Grant, NEW s \in Scope,
           NEW a \in Generation, NEW b \in Generation, CutoverEmbeddingGeneration(g, s, a, b)
    PROVE  OneActive'
<1> DEFINE o == GrantOwner[g]
<1>1. o \in Owner
  BY OwnerTyped
<1>2. Active(o, s)' = {b}
  <2>1. profiles'[o][s] = Activated(profiles[o][s], a, b)
    BY <1>1 DEF TypeOK, CutoverEmbeddingGeneration
  <2>2. \A n \in Generation : profiles[o][s][n] = "ACTIVE" <=> n = a
    BY DEF CutoverEmbeddingGeneration, Active
  <2>3. profiles[o][s] \in [Generation -> Status] /\ a # b
    BY <1>1, <2>2 DEF TypeOK, CutoverEmbeddingGeneration
  <2>4. \A n \in Generation : profiles'[o][s][n] = "ACTIVE" <=> n = b
    BY <2>1, <2>2, <2>3 DEF Activated
  <2>5. QED
    BY <2>4 DEF Active
<1>3. ASSUME NEW p \in Owner, NEW t \in Scope, <<p, t>> # <<o, s>>
      PROVE  profiles'[p][t] = profiles[p][t]
  BY <1>1, <1>3 DEF TypeOK, CutoverEmbeddingGeneration
<1>4. SUFFICES ASSUME NEW p \in Owner, NEW t \in Scope, NEW n \in Generation,
                      profiles'[p][t][n] # "none"
               PROVE  \E i \in Generation : Active(p, t)' = {i}
  BY DEF OneActive
<1>5. CASE <<p, t>> = <<o, s>>
  BY <1>2, <1>5
<1>6. CASE <<p, t>> # <<o, s>>
  BY <1>3, <1>4, <1>6 DEF OneActive, Active
<1>7. QED
  BY <1>5, <1>6

LEMMA OneActiveFail ==
    ASSUME TypeOK, OneActive, NEW g \in Grant, NEW s \in Scope, NEW b \in Generation,
           FailEmbeddingGeneration(g, s, b)
    PROVE  OneActive'
<1> DEFINE o == GrantOwner[g]
<1>1. o \in Owner
  BY OwnerTyped
<1>2. \A p \in Owner, t \in Scope : Active(p, t)' = Active(p, t)
  BY <1>1, ActiveKept DEF FailEmbeddingGeneration, Status
<1>3. \A p \in Owner, t \in Scope, n \in Generation :
          profiles'[p][t][n] # "none" => profiles[p][t][n] # "none"
  BY <1>1 DEF TypeOK, FailEmbeddingGeneration
<1>4. QED
  BY <1>2, <1>3 DEF OneActive

LEMMA OneActiveBegin ==
    ASSUME TypeOK, OneActive, NEW o \in Owner, NEW s \in Scope, NEW n \in Generation,
           BeginBuilding(o, s, n)
    PROVE  OneActive'
<1>1. \A p \in Owner, t \in Scope : Active(p, t)' = Active(p, t)
  BY ActiveKept DEF BeginBuilding, Status
<1>2. ASSUME NEW p \in Owner, NEW t \in Scope, NEW i \in Generation,
             profiles'[p][t][i] # "none"
      PROVE  \E j \in Generation : profiles[p][t][j] # "none"
  BY <1>2 DEF TypeOK, BeginBuilding, Active
<1>3. QED
  BY <1>1, <1>2 DEF OneActive

\* A scope without a current generation has none at all: that is why the insert
\* of the first one is never refused.
LEMMA OneActiveEnsure ==
    ASSUME TypeOK, OneActive, NEW o \in Owner, NEW s \in Scope, EnsureEmbeddingProfile(o, s)
    PROVE  OneActive'
<1>1. \A n \in Generation : profiles[o][s][n] = "none"
  BY DEF OneActive, EnsureEmbeddingProfile, Active, Current
<1>2. Active(o, s)' = {FirstGeneration}
  BY <1>1, ConstantsAssumption DEF TypeOK, EnsureEmbeddingProfile, Active
<1>3. \A p \in Owner, t \in Scope : <<p, t>> # <<o, s>> => profiles'[p][t] = profiles[p][t]
  BY DEF TypeOK, EnsureEmbeddingProfile
<1>4. SUFFICES ASSUME NEW p \in Owner, NEW t \in Scope, NEW n \in Generation,
                      profiles'[p][t][n] # "none"
               PROVE  \E i \in Generation : Active(p, t)' = {i}
  BY DEF OneActive
<1>5. CASE <<p, t>> = <<o, s>>
  BY <1>2, <1>5, ConstantsAssumption
<1>6. CASE <<p, t>> # <<o, s>>
  BY <1>3, <1>4, <1>6 DEF OneActive, Active
<1>7. QED
  BY <1>5, <1>6

LEMMA LifecycleKeepsProfiles ==
    ASSUME NEW g \in Grant, NEW s \in Scope, NEW m \in Memory, NEW k \in Key,
           Lifecycle(g, s, m, k)
    PROVE  profiles' = profiles
<1>1. CASE \E c \in Content, blobs \in SUBSET Generation : AddMemory(g, s, m, c, k, blobs)
  BY <1>1 DEF AddMemory
<1>2. CASE \E t \in Scope, n \in Revision, c \in Content, blobs \in SUBSET Generation :
               ReplaceMemory(g, s, t, m, n, c, k, blobs)
  BY <1>2 DEF ReplaceMemory
<1>3. CASE \E n \in Revision : RemoveMemory(g, s, m, n, k)
  BY <1>3 DEF RemoveMemory, generationVars
<1>4. CASE \E n \in Revision : RestoreMemory(g, s, m, n, k)
  BY <1>4 DEF RestoreMemory, generationVars
<1>5. CASE \E n \in Revision : PurgeMemory(g, s, m, n, k)
  BY <1>5 DEF PurgeMemory, generationVars
<1>6. QED
  BY <1>1, <1>2, <1>3, <1>4, <1>5 DEF Lifecycle

LEMMA OneActiveStep ==
    ASSUME TypeOK, OneActive, [Next]_vars
    PROVE  OneActive'
<1>1. CASE \E g \in Grant, s \in Scope, m \in Memory, k \in Key : Lifecycle(g, s, m, k)
  <2>1. profiles' = profiles
    BY <1>1, LifecycleKeepsProfiles
  <2>2. QED
    BY <2>1 DEF OneActive, Active
<1>2. CASE \E g \in Grant, s \in Scope : Generations(g, s)
  BY <1>2, OneActiveCutover, OneActiveFail DEF Generations
<1>3. CASE \E o \in Owner, s \in Scope : EnsureEmbeddingProfile(o, s)
  BY <1>3, OneActiveEnsure
<1>4. CASE Reindexer
  <2>1. CASE \E o \in Owner, s \in Scope, n \in Generation : BeginBuilding(o, s, n)
    BY <2>1, OneActiveBegin
  <2>2. CASE profiles' = profiles
    BY <2>2 DEF OneActive, Active
  <2>3. QED
    BY <1>4, <2>1, <2>2 DEF Reindexer, ProjectVectors, Backfill, generationVars
<1>5. CASE GrantAdministration
  BY <1>5 DEF GrantAdministration, RevokeGrant, DowngradeGrant, generationVars, OneActive, Active
<1>6. CASE UNCHANGED vars
  BY <1>6 DEF vars, OneActive, Active
<1>7. QED
  BY <1>1, <1>2, <1>3, <1>4, <1>5, <1>6 DEF Next

\* For any scopes and generations, a scope that was ever written to has exactly
\* one ACTIVE generation at every moment of every reindexing.
THEOREM OneActiveGeneration == Spec => []OneActive
<1>1. Init => OneActive
  BY DEF Init, OneActive
<1>2. TypeOK /\ OneActive /\ [Next]_vars => OneActive'
  BY OneActiveStep
<1>3. QED
  BY <1>1, <1>2, TypeCorrect, PTL DEF Spec

-----------------------------------------------------------------------------
(* The audit trail. *)

\* What replace, remove, restore and purge have in common: the row of m goes to
\* its next revision, or away, and the event of that revision is recorded.
LEMMA HistoryAdvances ==
    ASSUME TypeOK, RevisionHistory, NEW g \in Grant, NEW m \in Memory,
           NEW n \in 1..MaxRevision, NEW op \in Op \ {"add"},
           rows[m] # None, rows[m].rev = n,
           events' = events \cup {Event(m, n + 1, op, g)},
           \A q \in Memory \ {m} : rows'[q] = rows[q],
           op = "purge" => rows'[m] = None,
           op # "purge" => /\ rows'[m] # None
                           /\ rows'[m].rev = n + 1
                           /\ rows'[m].deleted <=> op = "remove"
    PROVE  RevisionHistory'
<1> DEFINE new == Event(m, n + 1, op, g)
<1>1. MaxRevision \in Nat /\ n \in Nat /\ n + 1 # 1
  BY RevisionTyped
<1>2. new.mem = m /\ new.rev = n + 1 /\ new.op = op
  BY DEF Event
<1>3. \A q \in Memory \ {m} : History(q)' = History(q)
  BY <1>2 DEF History
<1>4. History(m)' = History(m) \cup {new}
  BY <1>2 DEF History
<1>5. \A e \in History(m) : e.rev \in Nat /\ e.rev <= n /\ e.op # "purge"
  BY <1>1 DEF History, TypeOK, EventType, RevisionHistory, RowAtLastEvent
<1>6. \E e \in History(m) : e.rev = n
  BY DEF RevisionHistory, RowHasEvent
<1>7. GaplessHistory'
  <2>1. ASSUME NEW e \in History(m)
        PROVE  /\ \A f \in History(m)' : f.rev = e.rev => f = e
               /\ \A i \in 1..e.rev : \E f \in History(m)' : f.rev = i
               /\ e.op = "add" <=> e.rev = 1
    BY <1>1, <1>2, <1>4, <1>5 DEF RevisionHistory, GaplessHistory
  <2>2. \A f \in History(m)' : f.rev = new.rev => f = new
    BY <1>1, <1>2, <1>4, <1>5
  <2>3. \A i \in 1..new.rev : \E f \in History(m)' : f.rev = i
    <3>1. \A i \in 1..n : \E f \in History(m) : f.rev = i
      BY <1>6 DEF RevisionHistory, GaplessHistory
    <3>2. \A i \in 1..(n + 1) : i \in 1..n \/ i = n + 1
      BY <1>1
    <3>3. QED
      BY <1>2, <1>4, <3>1, <3>2
  <2>4. ~ (new.op = "add") /\ ~ (new.rev = 1)
    BY <1>1, <1>2
  <2>5. QED
    BY <1>3, <1>4, <2>1, <2>2, <2>3, <2>4 DEF RevisionHistory, GaplessHistory
<1>8. RowAtLastEvent'
  <2>1. \A e \in History(m)' : /\ rows'[m] # None => e.rev <= rows'[m].rev
                               /\ e.op = "purge" => /\ rows'[m] = None
                                                    /\ \A f \in History(m)' : f.rev <= e.rev
    BY <1>1, <1>2, <1>4, <1>5
  <2>2. QED
    BY <1>3, <2>1 DEF RevisionHistory, RowAtLastEvent
<1>9. RowHasEvent'
  <2>1. new \in History(m)'
    BY <1>4
  <2>2. \A q \in Memory \ {m} : Purged(q)' = Purged(q)
    BY <1>3 DEF Purged
  <2>3. op = "purge" => Purged(m)'
    BY <1>2, <2>1 DEF Purged
  <2>4. QED
    BY <1>2, <1>3, <2>1, <2>2, <2>3 DEF RevisionHistory, RowHasEvent
<1>10. QED
  BY <1>7, <1>8, <1>9 DEF RevisionHistory

LEMMA HistoryAdd ==
    ASSUME TypeOK, RevisionHistory, NEW g \in Grant, NEW s \in Scope, NEW m \in Memory,
           NEW c \in Content, NEW k \in Key,
           NEW blobs \in SUBSET Generation, AddMemory(g, s, m, c, k, blobs)
    PROVE  RevisionHistory' /\ History(m) = {}
<1> DEFINE new == Event(m, 1, "add", g)
<1>1. new.mem = m /\ new.rev = 1 /\ new.op = "add"
  BY DEF Event
\* An event of m would follow one of revision 1, which RevisionFree excludes.
<1>2. History(m) = {}
  <2>1. \A f \in History(m) : f.rev # 1
    BY DEF AddMemory, RevisionFree, History
  <2>2. ASSUME NEW e \in History(m)
        PROVE  FALSE
    <3>1. e.rev \in 1..MaxRevision
      BY DEF History, TypeOK, EventType
    <3>2. 1 \in 1..e.rev
      BY <3>1, RevisionTyped
    <3>3. QED
      BY <2>1, <3>2 DEF RevisionHistory, GaplessHistory
  <2>3. QED
    BY <2>2
<1>3. \A q \in Memory \ {m} : History(q)' = History(q) /\ rows'[q] = rows[q]
  BY <1>1 DEF History, AddMemory, TypeOK
<1>4. History(m)' = {new}
  <2>1. \A e \in events' : e \in events \/ e = new
    BY DEF AddMemory
  <2>2. new \in events'
    BY DEF AddMemory
  <2>3. QED
    BY <1>1, <1>2, <2>1, <2>2 DEF History
<1>5. rows'[m] # None /\ rows'[m].rev = 1 /\ ~ rows'[m].deleted
  <2>1. rows'[m] = [owner |-> GrantOwner[g], scope |-> s, rev |-> 1,
                    content |-> c, deleted |-> FALSE]
    BY DEF AddMemory, TypeOK
  <2>2. rows'[m] \in RowType
    BY <2>1, OwnerTyped, RevisionTyped DEF RowType
  <2>3. rows'[m] # None
    BY <2>2, NoneAssumption
  <2>4. rows'[m].rev = 1 /\ rows'[m].deleted = FALSE
    BY <2>1
  <2>5. QED
    BY <2>3, <2>4
<1>6. GaplessHistory'
  BY <1>1, <1>3, <1>4 DEF RevisionHistory, GaplessHistory
<1>7. RowAtLastEvent'
  BY <1>1, <1>3, <1>4, <1>5 DEF RevisionHistory, RowAtLastEvent
<1>8. RowHasEvent'
  <2>1. \A q \in Memory \ {m} : Purged(q)' = Purged(q)
    BY <1>3 DEF Purged
  <2>2. QED
    BY <1>1, <1>3, <1>4, <1>5, <2>1 DEF RevisionHistory, RowHasEvent
<1>9. QED
  BY <1>2, <1>6, <1>7, <1>8 DEF RevisionHistory

\* The four other methods go through HistoryAdvances.
LEMMA HistoryLifecycle ==
    ASSUME TypeOK, RevisionHistory, NEW g \in Grant, NEW s \in Scope, NEW m \in Memory,
           NEW k \in Key, Lifecycle(g, s, m, k)
    PROVE  RevisionHistory'
<1> DEFINE o == GrantOwner[g]
<1>0. o \in Owner /\ RowType \cap {None} = {}
  BY OwnerTyped, NoneAssumption
<1>1. CASE \E c \in Content, blobs \in SUBSET Generation : AddMemory(g, s, m, c, k, blobs)
  BY <1>1, HistoryAdd
<1>2. CASE \E t \in Scope, n \in Revision, c \in Content, blobs \in SUBSET Generation :
               ReplaceMemory(g, s, t, m, n, c, k, blobs)
  <2>1. PICK t \in Scope, n \in Revision, c \in Content, blobs \in SUBSET Generation :
               ReplaceMemory(g, s, t, m, n, c, k, blobs)
    BY <1>2
  <2>2. n \in 1..MaxRevision /\ n + 1 \in 1..MaxRevision
    BY <2>1, RevisionTyped DEF Revision, ReplaceMemory
  <2>3. [owner |-> o, scope |-> t, rev |-> n + 1, content |-> c, deleted |-> FALSE] \in RowType
    BY <1>0, <2>2 DEF RowType
  <2>4. rows'[m] = [owner |-> o, scope |-> t, rev |-> n + 1, content |-> c, deleted |-> FALSE]
    BY <2>1 DEF ReplaceMemory, TypeOK
  <2>5. rows'[m] # None /\ rows'[m].rev = n + 1 /\ ~ rows'[m].deleted
    <3>1. rows'[m] # None
      BY <1>0, <2>3, <2>4
    <3>2. rows'[m].rev = n + 1 /\ rows'[m].deleted = FALSE
      BY <2>4
    <3>3. QED
      BY <3>1, <3>2
  <2>6. \A q \in Memory \ {m} : rows'[q] = rows[q]
    BY <2>1 DEF ReplaceMemory, TypeOK
  <2>7. rows[m] # None /\ rows[m].rev = n /\ events' = events \cup {Event(m, n + 1, "replace", g)}
    BY <2>1 DEF ReplaceMemory, Matches
  <2>8. QED
    BY <2>2, <2>5, <2>6, <2>7, HistoryAdvances DEF Op
<1>3. CASE \E n \in Revision : RemoveMemory(g, s, m, n, k)
  <2>1. PICK n \in Revision : RemoveMemory(g, s, m, n, k)
    BY <1>3
  <2>2. n \in 1..MaxRevision /\ n + 1 \in 1..MaxRevision /\ rows[m] \in RowType
    BY <1>0, <2>1, RevisionTyped, MatchesTyped DEF Revision, RemoveMemory
  <2>3. [rows[m] EXCEPT !.rev = n + 1, !.deleted = TRUE] \in RowType
    BY <2>2 DEF RowType
  <2>4. rows'[m] = [rows[m] EXCEPT !.rev = n + 1, !.deleted = TRUE]
    BY <2>1 DEF RemoveMemory, TypeOK
  <2>5. rows'[m] # None /\ rows'[m].rev = n + 1 /\ rows'[m].deleted
    BY <1>0, <2>2, <2>3, <2>4 DEF RowType
  <2>6. \A q \in Memory \ {m} : rows'[q] = rows[q]
    BY <2>1 DEF RemoveMemory, TypeOK
  <2>7. rows[m] # None /\ rows[m].rev = n /\ events' = events \cup {Event(m, n + 1, "remove", g)}
    BY <2>1 DEF RemoveMemory, Matches
  <2>8. QED
    BY <2>2, <2>5, <2>6, <2>7, HistoryAdvances DEF Op
<1>4. CASE \E n \in Revision : RestoreMemory(g, s, m, n, k)
  <2>1. PICK n \in Revision : RestoreMemory(g, s, m, n, k)
    BY <1>4
  <2>2. n \in 1..MaxRevision /\ n + 1 \in 1..MaxRevision /\ rows[m] \in RowType
    BY <1>0, <2>1, RevisionTyped, MatchesTyped DEF Revision, RestoreMemory
  <2>3. [rows[m] EXCEPT !.rev = n + 1, !.deleted = FALSE] \in RowType
    BY <2>2 DEF RowType
  <2>4. rows'[m] = [rows[m] EXCEPT !.rev = n + 1, !.deleted = FALSE]
    BY <2>1 DEF RestoreMemory, TypeOK
  <2>5. rows'[m] # None /\ rows'[m].rev = n + 1 /\ ~ rows'[m].deleted
    BY <1>0, <2>2, <2>3, <2>4 DEF RowType
  <2>6. \A q \in Memory \ {m} : rows'[q] = rows[q]
    BY <2>1 DEF RestoreMemory, TypeOK
  <2>7. rows[m] # None /\ rows[m].rev = n /\ events' = events \cup {Event(m, n + 1, "restore", g)}
    BY <2>1 DEF RestoreMemory, Matches
  <2>8. QED
    BY <2>2, <2>5, <2>6, <2>7, HistoryAdvances DEF Op
<1>5. CASE \E n \in Revision : PurgeMemory(g, s, m, n, k)
  <2>1. PICK n \in Revision : PurgeMemory(g, s, m, n, k)
    BY <1>5
  <2>2. n \in 1..MaxRevision
    BY DEF Revision
  <2>3. rows'[m] = None /\ \A q \in Memory \ {m} : rows'[q] = rows[q]
    BY <2>1 DEF PurgeMemory, TypeOK
  <2>4. rows[m] # None /\ rows[m].rev = n /\ events' = events \cup {Event(m, n + 1, "purge", g)}
    BY <2>1 DEF PurgeMemory, Matches
  <2>5. QED
    BY <2>2, <2>3, <2>4, HistoryAdvances DEF Op
<1>6. QED
  BY <1>1, <1>2, <1>3, <1>4, <1>5 DEF Lifecycle

\* Only the five methods write the rows and the events.
LEMMA OthersKeepRows ==
    ASSUME [Next]_vars,
           ~ \E g \in Grant, s \in Scope, m \in Memory, k \in Key : Lifecycle(g, s, m, k)
    PROVE  UNCHANGED <<rows, keywords, fts, events, idem>>
<1>1. CASE \E g \in Grant, s \in Scope : Generations(g, s)
  <2>1. ASSUME NEW g \in Grant, NEW s \in Scope, NEW a \in Generation, NEW b \in Generation,
               CutoverEmbeddingGeneration(g, s, a, b)
        PROVE  UNCHANGED <<rows, keywords, fts, events, idem>>
    BY <2>1 DEF CutoverEmbeddingGeneration, indexVars
  <2>2. ASSUME NEW g \in Grant, NEW s \in Scope, NEW b \in Generation,
               FailEmbeddingGeneration(g, s, b)
        PROVE  UNCHANGED <<rows, keywords, fts, events, idem>>
    BY <2>2 DEF FailEmbeddingGeneration, indexVars
  <2>3. QED
    BY <1>1, <2>1, <2>2 DEF Generations
<1>2. CASE \E o \in Owner, s \in Scope : EnsureEmbeddingProfile(o, s)
  BY <1>2 DEF EnsureEmbeddingProfile, indexVars
<1>3. CASE Reindexer
  BY <1>3 DEF Reindexer, BeginBuilding, ProjectVectors, Backfill, indexVars
<1>4. CASE GrantAdministration
  BY <1>4 DEF GrantAdministration, RevokeGrant, DowngradeGrant, indexVars
<1>5. CASE UNCHANGED vars
  BY <1>5 DEF vars
<1>6. QED
  BY <1>1, <1>2, <1>3, <1>4, <1>5 DEF Next

\* However many clients write, and whatever they lose, the audit trail replays
\* to the rows: one event per revision, without a gap, the last one the row's.
THEOREM HistoryCorrect == Spec => []RevisionHistory
<1>1. Init => RevisionHistory
  BY DEF Init, RevisionHistory, GaplessHistory, RowAtLastEvent, RowHasEvent, History
<1>2. TypeOK /\ RevisionHistory /\ [Next]_vars => RevisionHistory'
  <2> SUFFICES ASSUME TypeOK, RevisionHistory, [Next]_vars
               PROVE  RevisionHistory'
    OBVIOUS
  <2>1. CASE \E g \in Grant, s \in Scope, m \in Memory, k \in Key : Lifecycle(g, s, m, k)
    BY <2>1, HistoryLifecycle
  <2>2. CASE UNCHANGED <<rows, events>>
    BY <2>2 DEF RevisionHistory, GaplessHistory, RowAtLastEvent, RowHasEvent, History, Purged
  <2>3. QED
    BY <2>1, <2>2, OthersKeepRows
<1>3. QED
  BY <1>1, <1>2, TypeCorrect, PTL DEF Spec

-----------------------------------------------------------------------------
(* Who changes a row. *)

\* The change of q is one new event by a grant that may make it.
Attributed(q) ==
    \E e \in events' \ events :
        /\ events' = events \cup {e}
        /\ e.mem = q
        /\ e.rev = IF rows[q] = None THEN 1 ELSE rows[q].rev + 1
        /\ AuthorizedChange(q, e.grant)

\* A revision that was free makes its event a new one.
LEMMA NewEvent ==
    ASSUME NEW g \in Grant, NEW m \in Memory, NEW n, NEW op,
           RevisionFree(m, n), events' = events \cup {Event(m, n, op, g)},
           n = IF rows[m] = None THEN 1 ELSE rows[m].rev + 1,
           AuthorizedChange(m, g),
           \A q \in Memory \ {m} : rows'[q] = rows[q]
    PROVE  \A q \in Memory : rows'[q] # rows[q] => Attributed(q)
<1> DEFINE new == Event(m, n, op, g)
<1>1. new.mem = m /\ new.rev = n /\ new.grant = g
  BY DEF Event
<1>2. new \in events' \ events
  BY <1>1 DEF RevisionFree
<1>3. Attributed(m)
  BY <1>1, <1>2 DEF Attributed
<1> QED BY <1>3

\* A grant that may write a visible row may write what it makes of it.
LEMMA MayChange ==
    ASSUME NEW g \in Grant, NEW m \in Memory, NEW s \in Scope, NEW n,
           Matches(GrantOwner[g], s, m, n),
           \/ rows'[m] = None /\ CanAdmin(g, s)
           \/ /\ rows'[m] # None /\ rows'[m].owner = GrantOwner[g]
              /\ CanWrite(g, {s}) /\ CanWrite(g, {rows'[m].scope})
    PROVE  AuthorizedChange(m, g)
BY DEF Matches, AuthorizedChange, CanAdmin, CanWrite, Authorized

LEMMA LifecycleAttributed ==
    ASSUME TypeOK, NEW g \in Grant, NEW s \in Scope, NEW m \in Memory,
           NEW k \in Key, Lifecycle(g, s, m, k)
    PROVE  \A q \in Memory : rows'[q] # rows[q] => Attributed(q)
<1> DEFINE o == GrantOwner[g]
<1>0. o \in Owner /\ RowType \cap {None} = {}
  BY OwnerTyped, NoneAssumption
<1>1. CASE \E c \in Content, blobs \in SUBSET Generation : AddMemory(g, s, m, c, k, blobs)
  <2>1. PICK c \in Content, blobs \in SUBSET Generation : AddMemory(g, s, m, c, k, blobs)
    BY <1>1
  <2>2. rows'[m] = [owner |-> o, scope |-> s, rev |-> 1, content |-> c, deleted |-> FALSE]
    BY <2>1 DEF AddMemory, TypeOK
  <2>3. rows'[m].owner = o /\ rows'[m].scope = s
    BY <2>2
  <2>4. rows'[m] # None
    <3>1. rows'[m] \in RowType
      BY <1>0, <2>2, RevisionTyped DEF RowType
    <3> QED BY <1>0, <3>1
  <2>5. AuthorizedChange(m, g)
    BY <2>1, <2>3, <2>4 DEF AddMemory, AuthorizedChange
  <2>6. \A q \in Memory \ {m} : rows'[q] = rows[q]
    BY <2>1 DEF AddMemory, TypeOK
  <2> QED BY <2>1, <2>5, <2>6, NewEvent DEF AddMemory
<1>2. CASE \E t \in Scope, n \in Revision, c \in Content, blobs \in SUBSET Generation :
               ReplaceMemory(g, s, t, m, n, c, k, blobs)
  <2>1. PICK t \in Scope, n \in Revision, c \in Content, blobs \in SUBSET Generation :
               ReplaceMemory(g, s, t, m, n, c, k, blobs)
    BY <1>2
  <2>2. rows'[m] = [owner |-> o, scope |-> t, rev |-> n + 1, content |-> c, deleted |-> FALSE]
    BY <2>1 DEF ReplaceMemory, TypeOK
  <2>3. rows'[m].owner = o /\ rows'[m].scope = t
    BY <2>2
  <2>4. rows'[m] # None
    <3>1. n + 1 \in 1..MaxRevision
      BY <2>1, RevisionTyped DEF Revision, ReplaceMemory
    <3>2. rows'[m] \in RowType
      BY <1>0, <2>2, <3>1 DEF RowType
    <3> QED BY <1>0, <3>2
  <2>5. CanWrite(g, {s}) /\ CanWrite(g, {t})
    BY <2>1 DEF ReplaceMemory, CanWrite, Authorized
  <2>6. AuthorizedChange(m, g)
    BY <2>1, <2>3, <2>4, <2>5, MayChange DEF ReplaceMemory
  <2>7. \A q \in Memory \ {m} : rows'[q] = rows[q]
    BY <2>1 DEF ReplaceMemory, TypeOK
  <2> QED BY <2>1, <2>6, <2>7, NewEvent DEF ReplaceMemory, Matches
<1>3. CASE \E n \in Revision : RemoveMemory(g, s, m, n, k) \/ RestoreMemory(g, s, m, n, k)
  <2>1. PICK n \in Revision : RemoveMemory(g, s, m, n, k) \/ RestoreMemory(g, s, m, n, k)
    BY <1>3
  <2>2. /\ n + 1 \in 1..MaxRevision /\ rows[m] \in RowType
        /\ Matches(o, s, m, n) /\ CanWrite(g, {s})
    BY <1>0, <2>1, RevisionTyped, MatchesTyped
    DEF Revision, RemoveMemory, RestoreMemory, CanAdmin, CanWrite, Authorized
  <2>3. PICK d \in BOOLEAN : rows'[m] = [rows[m] EXCEPT !.rev = n + 1, !.deleted = d]
    BY <2>1 DEF RemoveMemory, RestoreMemory, TypeOK
  <2>4. rows'[m] \in RowType /\ rows'[m].owner = rows[m].owner
        /\ rows'[m].scope = rows[m].scope
    BY <2>2, <2>3 DEF RowType
  <2>5. AuthorizedChange(m, g)
    BY <1>0, <2>2, <2>4, MayChange DEF Matches
  <2>6. \A q \in Memory \ {m} : rows'[q] = rows[q]
    BY <2>1 DEF RemoveMemory, RestoreMemory, TypeOK
  <2> QED
    BY <2>1, <2>2, <2>5, <2>6, NewEvent DEF RemoveMemory, RestoreMemory, Matches
<1>4. CASE \E n \in Revision : PurgeMemory(g, s, m, n, k)
  <2>1. PICK n \in Revision : PurgeMemory(g, s, m, n, k)
    BY <1>4
  <2>2. rows'[m] = None /\ \A q \in Memory \ {m} : rows'[q] = rows[q]
    BY <2>1 DEF PurgeMemory, TypeOK
  <2>3. AuthorizedChange(m, g)
    BY <2>1, <2>2, MayChange DEF PurgeMemory
  <2> QED BY <2>1, <2>2, <2>3, NewEvent DEF PurgeMemory, Matches
<1> QED
  BY <1>1, <1>2, <1>3, <1>4 DEF Lifecycle

\* However many clients write while their grants are changed, each change of a row
\* is one new event by a grant that may make it at that moment.
THEOREM ChangesAttributed == Spec => EveryChangeAttributed
<1>1. TypeOK /\ [Next]_vars =>
        [\A m \in Memory : rows'[m] # rows[m] =>
            \E e \in events' \ events :
                /\ events' = events \cup {e}
                /\ e.mem = m
                /\ e.rev = IF rows[m] = None THEN 1 ELSE rows[m].rev + 1
                /\ AuthorizedChange(m, e.grant)]_vars
  <2> SUFFICES ASSUME TypeOK, [Next]_vars
               PROVE  \A m \in Memory : rows'[m] # rows[m] => Attributed(m)
    BY DEF Attributed
  <2>1. CASE \E g \in Grant, s \in Scope, m \in Memory, k \in Key : Lifecycle(g, s, m, k)
    BY <2>1, LifecycleAttributed
  <2>2. CASE UNCHANGED rows
    BY <2>2
  <2> QED BY <2>1, <2>2, OthersKeepRows
<1> QED
  BY <1>1, TypeCorrect, PTL DEF Spec, EveryChangeAttributed

-----------------------------------------------------------------------------
(* A purge leaves nothing to find or to replay. *)

\* The strengthening that PurgeLeavesNothing needs.  purge_memory scrubs the
\* results kept for the purging owner only, so every kept result about a live
\* memory must be of a grant of its owner; and add_memory must not meet a kept
\* result about the memory it creates.
LedgerOwned ==
    \A r \in idem :
        /\ History(r.mem) # {}
        /\ rows[r.mem] # None => rows[r.mem].owner = GrantOwner[r.grant]

PurgeInv == PurgeLeavesNothing /\ LedgerOwned

\* A memory that has a row was not purged.
LEMMA LiveNotPurged ==
    ASSUME RevisionHistory, NEW m \in Memory, rows[m] # None
    PROVE  ~ Purged(m)
BY DEF RevisionHistory, RowAtLastEvent, Purged

\* A method that adds one kept result about a memory that is not purged.
LEMMA PurgeInvAdvance ==
    ASSUME TypeOK, PurgeInv, NEW m \in Memory, NEW r \in IdemType, NEW e,
           e.mem = m, e.op # "purge", r.mem = m,
           ~ Purged(m), events' = events \cup {e}, idem' = idem \cup {r},
           rows'[m].owner = GrantOwner[r.grant],
           rows[m] # None => rows'[m].owner = rows[m].owner,
           rows[m] = None => History(m) = {},
           \A q \in Memory \ {m} : /\ rows'[q] = rows[q] /\ keywords'[q] = keywords[q]
                                   /\ fts'[q] = fts[q] /\ embeddings'[q] = embeddings[q]
    PROVE  PurgeInv'
<1>1. \A q \in Memory \ {m} : History(q)' = History(q) /\ Purged(q)' = Purged(q)
  BY DEF History, Purged
<1>2. ~ Purged(m)'
  BY DEF History, Purged
<1>3. e \in History(m)'
  BY DEF History
<1>4. \A x \in idem : x.mem \in Memory
  BY DEF TypeOK, IdemType
<1>5. PurgeLeavesNothing'
  <2> SUFFICES ASSUME NEW q \in Memory, Purged(q)'
               PROVE  /\ rows'[q] = None /\ keywords'[q] = None /\ fts'[q] = None
                      /\ Mapped(q)' = {}
                      /\ \A x \in idem' : x.mem = q => x.purged
    BY DEF PurgeLeavesNothing
  <2>1. q # m /\ Purged(q)
    BY <1>1, <1>2
  <2>2. Mapped(q)' = Mapped(q)
    BY <2>1 DEF Mapped
  <2>3. \A x \in idem' : x.mem = q => x \in idem
    BY <2>1
  <2>4. QED
    BY <2>1, <2>2, <2>3 DEF PurgeInv, PurgeLeavesNothing
<1>6. LedgerOwned'
  <2> SUFFICES ASSUME NEW x \in idem'
               PROVE  /\ History(x.mem)' # {}
                      /\ rows'[x.mem] # None => rows'[x.mem].owner = GrantOwner[x.grant]
    BY DEF LedgerOwned
  <2>1. CASE x = r
    BY <1>3, <2>1
  <2>2. CASE x \in idem /\ x.mem = m
    BY <1>3, <2>2 DEF PurgeInv, LedgerOwned
  <2>3. CASE x \in idem /\ x.mem # m
    BY <1>1, <1>4, <2>3 DEF PurgeInv, LedgerOwned
  <2>4. QED
    BY <2>1, <2>2, <2>3
<1>7. QED
  BY <1>5, <1>6 DEF PurgeInv

LEMMA PurgeInvAdd ==
    ASSUME TypeOK, RevisionHistory, PurgeInv, NEW g \in Grant, NEW s \in Scope,
           NEW m \in Memory, NEW c \in Content, NEW k \in Key,
           NEW blobs \in SUBSET Generation, AddMemory(g, s, m, c, k, blobs)
    PROVE  PurgeInv'
<1> DEFINE r == IdemRow(g, "add", k, m, s, AddRequest(s, c), 1)
           e == Event(m, 1, "add", g)
<1>1. History(m) = {} /\ ~ Purged(m)
  BY HistoryAdd DEF Purged
<1>2. r \in IdemType /\ r.mem = m /\ r.grant = g
  <2>1. AddRequest(s, c) \in Request
    BY RevisionTyped DEF AddRequest, Request, Op
  <2>2. r \in IdemType
    BY <2>1, IdemRowTyped, RevisionTyped DEF Op
  <2>3. QED
    BY <2>2 DEF IdemRow
<1>3. e.mem = m /\ e.op # "purge"
  BY DEF Event
<1>4. rows'[m].owner = GrantOwner[g] /\ rows[m] = None
  BY DEF AddMemory, TypeOK
<1>5. events' = events \cup {e} /\ idem' = idem \cup {r}
  BY DEF AddMemory
<1>6. \A q \in Memory \ {m} : /\ rows'[q] = rows[q] /\ keywords'[q] = keywords[q]
                              /\ fts'[q] = fts[q] /\ embeddings'[q] = embeddings[q]
  BY DEF AddMemory, TypeOK
<1> HIDE DEF r, e
<1>7. QED
  BY <1>1, <1>2, <1>3, <1>4, <1>5, <1>6, PurgeInvAdvance

LEMMA PurgeInvReplace ==
    ASSUME TypeOK, RevisionHistory, PurgeInv, NEW g \in Grant, NEW s \in Scope,
           NEW t \in Scope, NEW m \in Memory, NEW n \in 1..MaxRevision, NEW c \in Content,
           NEW k \in Key,
           NEW blobs \in SUBSET Generation, ReplaceMemory(g, s, t, m, n, c, k, blobs)
    PROVE  PurgeInv'
<1> DEFINE r == IdemRow(g, "replace", k, m, t, ReplaceRequest(s, t, m, n, c), n + 1)
           e == Event(m, n + 1, "replace", g)
<1>1. rows[m] # None /\ rows[m].owner = GrantOwner[g]
  BY DEF ReplaceMemory, Matches
<1>2. r \in IdemType /\ r.mem = m /\ r.grant = g
  <2>1. n \in 0..MaxRevision /\ n + 1 \in 0..MaxRevision
    BY RevisionTyped DEF ReplaceMemory
  <2>2. ReplaceRequest(s, t, m, n, c) \in Request
    BY <2>1 DEF ReplaceRequest, Request, Op
  <2>3. r \in IdemType
    BY <2>1, <2>2, IdemRowTyped DEF Op
  <2>4. QED
    BY <2>3 DEF IdemRow
<1>3. e.mem = m /\ e.op # "purge" /\ ~ Purged(m)
  BY <1>1, LiveNotPurged DEF Event
<1>4. rows'[m].owner = GrantOwner[g]
  BY DEF ReplaceMemory, TypeOK
<1>5. events' = events \cup {e} /\ idem' = idem \cup {r}
  BY DEF ReplaceMemory
<1>6. \A q \in Memory \ {m} : /\ rows'[q] = rows[q] /\ keywords'[q] = keywords[q]
                              /\ fts'[q] = fts[q] /\ embeddings'[q] = embeddings[q]
  BY DEF ReplaceMemory, TypeOK
<1> HIDE DEF r, e
<1>7. QED
  BY <1>1, <1>2, <1>3, <1>4, <1>5, <1>6, PurgeInvAdvance

LEMMA PurgeInvRemove ==
    ASSUME TypeOK, RevisionHistory, PurgeInv, NEW g \in Grant, NEW s \in Scope,
           NEW m \in Memory, NEW n \in 1..MaxRevision, NEW k \in Key,
           RemoveMemory(g, s, m, n, k)
    PROVE  PurgeInv'
<1> DEFINE r == IdemRow(g, "remove", k, m, s, RowRequest("remove", s, m, n), n + 1)
           e == Event(m, n + 1, "remove", g)
<1>1. rows[m] # None /\ rows[m].owner = GrantOwner[g] /\ rows[m] \in RowType
  BY MatchesTyped, OwnerTyped DEF RemoveMemory, Matches
<1>2. r \in IdemType /\ r.mem = m /\ r.grant = g
  <2>1. n \in 0..MaxRevision /\ n + 1 \in 0..MaxRevision
    BY RevisionTyped DEF RemoveMemory
  <2>2. r \in IdemType
    BY <2>1, RequestTyped, IdemRowTyped DEF Op
  <2>3. QED
    BY <2>2 DEF IdemRow
<1>3. e.mem = m /\ e.op # "purge" /\ ~ Purged(m)
  BY <1>1, LiveNotPurged DEF Event
<1>4. rows'[m].owner = rows[m].owner
  BY <1>1 DEF RemoveMemory, TypeOK, RowType
<1>5. events' = events \cup {e} /\ idem' = idem \cup {r}
  BY DEF RemoveMemory
<1>6. \A q \in Memory \ {m} : /\ rows'[q] = rows[q] /\ keywords'[q] = keywords[q]
                              /\ fts'[q] = fts[q] /\ embeddings'[q] = embeddings[q]
  BY DEF RemoveMemory, TypeOK, indexVars
<1> HIDE DEF r, e
<1>7. QED
  BY <1>1, <1>2, <1>3, <1>4, <1>5, <1>6, PurgeInvAdvance

LEMMA PurgeInvRestore ==
    ASSUME TypeOK, RevisionHistory, PurgeInv, NEW g \in Grant, NEW s \in Scope,
           NEW m \in Memory, NEW n \in 1..MaxRevision, NEW k \in Key,
           RestoreMemory(g, s, m, n, k)
    PROVE  PurgeInv'
<1> DEFINE r == IdemRow(g, "restore", k, m, s, RowRequest("restore", s, m, n), n + 1)
           e == Event(m, n + 1, "restore", g)
<1>1. rows[m] # None /\ rows[m].owner = GrantOwner[g] /\ rows[m] \in RowType
  BY MatchesTyped, OwnerTyped DEF RestoreMemory, Matches
<1>2. r \in IdemType /\ r.mem = m /\ r.grant = g
  <2>1. n \in 0..MaxRevision /\ n + 1 \in 0..MaxRevision
    BY RevisionTyped DEF RestoreMemory
  <2>2. r \in IdemType
    BY <2>1, RequestTyped, IdemRowTyped DEF Op
  <2>3. QED
    BY <2>2 DEF IdemRow
<1>3. e.mem = m /\ e.op # "purge" /\ ~ Purged(m)
  BY <1>1, LiveNotPurged DEF Event
<1>4. rows'[m].owner = rows[m].owner
  BY <1>1 DEF RestoreMemory, TypeOK, RowType
<1>5. events' = events \cup {e} /\ idem' = idem \cup {r}
  BY DEF RestoreMemory
<1>6. \A q \in Memory \ {m} : /\ rows'[q] = rows[q] /\ keywords'[q] = keywords[q]
                              /\ fts'[q] = fts[q] /\ embeddings'[q] = embeddings[q]
  BY DEF RestoreMemory, TypeOK
<1> HIDE DEF r, e
<1>7. QED
  BY <1>1, <1>2, <1>3, <1>4, <1>5, <1>6, PurgeInvAdvance

\* The scrub reaches every kept result about m when all of them are of one owner.
LEMMA ScrubReachesAll ==
    ASSUME NEW table, table \subseteq IdemType,
           NEW o \in Owner, NEW s \in Scope, NEW m \in Memory,
           \A r \in table : r.mem = m => GrantOwner[r.grant] = o
    PROVE  \A x \in Scrubbed(table, o, s, m) :
               \/ x \in table /\ x.mem # m
               \/ x.mem = m /\ x.purged /\ \E r \in table : r.mem = m /\ r.grant = x.grant
<1>1. ASSUME NEW r \in table, r.mem = m
      PROVE  LET x == [r EXCEPT !.digest = DenyDigest(m, s), !.rev = 0, !.purged = TRUE]
             IN  x.mem = m /\ x.purged /\ x.grant = r.grant
  BY <1>1 DEF IdemType
<1>2. QED
  BY <1>1 DEF Scrubbed

\* After the purge of m every kept result about m is a deny tombstone, and the
\* results about other memories are the ones there were.
LEMMA LedgerAfterPurge ==
    ASSUME TypeOK, PurgeInv, NEW g \in Grant, NEW s \in Scope,
           NEW m \in Memory, NEW n \in 1..MaxRevision, NEW k \in Key,
           PurgeMemory(g, s, m, n, k)
    PROVE  /\ \A x \in idem' : \/ x \in idem /\ x.mem # m
                               \/ x.mem = m /\ x.purged
           /\ \A x \in idem : x.mem # m => x \in idem'
<1> DEFINE o == GrantOwner[g]
           r == IdemRow(g, "purge", k, m, s, DenyDigest(m, s), 0)
<1>1. rows[m] # None /\ rows[m].owner = o /\ o \in Owner
  BY OwnerTyped DEF PurgeMemory, Matches
<1>2. r \in IdemType /\ r.mem = m /\ r.grant = g
  <2>1. DenyDigest(m, s) \in Request
    BY RequestTyped, RevisionTyped DEF DenyDigest, Op
  <2>2. r \in IdemType
    BY <2>1, IdemRowTyped, RevisionTyped DEF Op
  <2>3. QED
    BY <2>2 DEF IdemRow
<1>3. idem' = Scrubbed(idem \cup {r}, o, s, m)
  BY DEF PurgeMemory
<1>4. \A x \in idem' : \/ x \in idem /\ x.mem # m
                       \/ x.mem = m /\ x.purged
  <2>1. idem \cup {r} \subseteq IdemType
    BY <1>2 DEF TypeOK
  <2>2. \A x \in idem \cup {r} : x.mem = m => GrantOwner[x.grant] = o
    BY <1>1, <1>2 DEF PurgeInv, LedgerOwned
  <2>3. \A x \in idem' : \/ x \in idem \cup {r} /\ x.mem # m
                         \/ x.mem = m /\ x.purged
    BY <1>1, <1>3, <2>1, <2>2, ScrubReachesAll
  <2>4. QED
    BY <1>2, <2>3
<1>5. \A x \in idem : x.mem # m => x \in idem'
  BY <1>3 DEF Scrubbed
<1>6. QED
  BY <1>4, <1>5

LEMMA PurgeInvPurge ==
    ASSUME TypeOK, RevisionHistory, PurgeInv, NEW g \in Grant, NEW s \in Scope,
           NEW m \in Memory, NEW n \in 1..MaxRevision, NEW k \in Key,
           PurgeMemory(g, s, m, n, k)
    PROVE  PurgeInv'
<1> DEFINE e == Event(m, n + 1, "purge", g)
<1>1. \A x \in idem' : \/ x \in idem /\ x.mem # m
                       \/ x.mem = m /\ x.purged
  BY LedgerAfterPurge
<1>2. e \in events' /\ e.mem = m /\ e.op = "purge" /\ events' = events \cup {e}
  BY DEF PurgeMemory, Event
<1>3. \A q \in Memory \ {m} : /\ History(q)' = History(q) /\ Purged(q)' = Purged(q)
                              /\ rows'[q] = rows[q] /\ keywords'[q] = keywords[q]
                              /\ fts'[q] = fts[q] /\ Mapped(q)' = Mapped(q)
  <2>1. \A q \in Memory \ {m} : History(q)' = History(q) /\ Purged(q)' = Purged(q)
    BY <1>2 DEF History, Purged
  <2>2. \A q \in Memory \ {m} : rows'[q] = rows[q] /\ keywords'[q] = keywords[q] /\ fts'[q] = fts[q]
    BY DEF PurgeMemory, TypeOK
  <2>3. \A q \in Memory \ {m} : embeddings'[q] = embeddings[q]
    BY DEF PurgeMemory, TypeOK
  <2>4. QED
    BY <2>1, <2>2, <2>3 DEF Mapped
<1>4. rows'[m] = None /\ keywords'[m] = None /\ fts'[m] = None /\ Mapped(m)' = {}
  BY DEF PurgeMemory, TypeOK, Mapped
<1>5. \A x \in idem : x.mem \in Memory
  BY DEF TypeOK, IdemType
<1>6. PurgeLeavesNothing'
  BY <1>1, <1>3, <1>4 DEF PurgeInv, PurgeLeavesNothing
<1>7. History(m)' # {}
  BY <1>2 DEF History
<1>8. LedgerOwned'
  BY <1>1, <1>3, <1>4, <1>5, <1>7 DEF PurgeInv, LedgerOwned
<1>9. QED
  BY <1>6, <1>8 DEF PurgeInv

\* No other step gives a memory without a row an embedding.
LEMMA OthersMapRowsOnly ==
    ASSUME TypeOK, [Next]_vars,
           ~ \E g \in Grant, s \in Scope, m \in Memory, k \in Key : Lifecycle(g, s, m, k),
           NEW q \in Memory, rows[q] = None, Mapped(q) = {}
    PROVE  Mapped(q)' = {}
<1>1. \A i \in Generation : embeddings[q][i] = None
  BY DEF Mapped
<1>2. SUFFICES \A i \in Generation : embeddings'[q][i] = None
  BY DEF Mapped
<1>3. ASSUME NEW g \in Grant, NEW s \in Scope, NEW b \in Generation,
             FailEmbeddingGeneration(g, s, b)
      PROVE  \A i \in Generation : embeddings'[q][i] = None
  BY <1>1, <1>3 DEF FailEmbeddingGeneration
<1>4. ASSUME NEW o \in Owner, NEW s \in Scope, NEW n \in Generation, ProjectVectors(o, s, n)
      PROVE  \A i \in Generation : embeddings'[q][i] = None
  BY <1>1, <1>4 DEF ProjectVectors, MappedIn
<1>5. ASSUME NEW m \in Memory, NEW n \in Generation, Backfill(m, n)
      PROVE  \A i \in Generation : embeddings'[q][i] = None
  BY <1>1, <1>5 DEF Backfill, TypeOK
<1>6. CASE UNCHANGED embeddings
  BY <1>1, <1>6
<1>7. CASE \E g \in Grant, s \in Scope : Generations(g, s)
  BY <1>3, <1>6, <1>7 DEF Generations, CutoverEmbeddingGeneration
<1>8. CASE Reindexer
  BY <1>4, <1>5, <1>6, <1>8 DEF Reindexer, BeginBuilding
<1>9. CASE \E o \in Owner, s \in Scope : EnsureEmbeddingProfile(o, s)
  BY <1>6, <1>9 DEF EnsureEmbeddingProfile
<1>10. CASE GrantAdministration
  BY <1>6, <1>10 DEF GrantAdministration, RevokeGrant, DowngradeGrant
<1>11. CASE UNCHANGED vars
  BY <1>6, <1>11 DEF vars
<1>12. QED
  BY <1>7, <1>8, <1>9, <1>10, <1>11 DEF Next

LEMMA PurgeInvStep ==
    ASSUME TypeOK, RevisionHistory, PurgeInv, [Next]_vars
    PROVE  PurgeInv'
<1>1. CASE \E g \in Grant, s \in Scope, m \in Memory, k \in Key : Lifecycle(g, s, m, k)
  BY <1>1, PurgeInvAdd, PurgeInvReplace, PurgeInvRemove, PurgeInvRestore, PurgeInvPurge
     DEF Lifecycle, Revision
<1>2. CASE ~ \E g \in Grant, s \in Scope, m \in Memory, k \in Key : Lifecycle(g, s, m, k)
  <2>1. UNCHANGED <<rows, keywords, fts, events, idem>>
    BY <1>2, OthersKeepRows
  <2>2. \A q \in Memory : Purged(q) => Mapped(q)' = {}
    BY <1>2, OthersMapRowsOnly DEF PurgeInv, PurgeLeavesNothing
  <2>3. \A q \in Memory : Purged(q)' = Purged(q) /\ History(q)' = History(q)
    BY <2>1 DEF Purged, History
  <2>4. PurgeLeavesNothing'
    BY <2>1, <2>2, <2>3 DEF PurgeInv, PurgeLeavesNothing
  <2>5. LedgerOwned'
    BY <2>1 DEF PurgeInv, LedgerOwned, History
  <2>6. QED
    BY <2>4, <2>5 DEF PurgeInv
<1>3. QED
  BY <1>1, <1>2

\* What a purge needs of the ledger holds whenever one may be called.
THEOREM PurgeInvariant == Spec => []PurgeInv
<1>1. Init => PurgeInv
  BY DEF Init, PurgeInv, PurgeLeavesNothing, LedgerOwned, Purged, History
<1>2. TypeOK /\ RevisionHistory /\ PurgeInv /\ [Next]_vars => PurgeInv'
  BY PurgeInvStep
<1>3. QED
  BY <1>1, <1>2, TypeCorrect, HistoryCorrect, PTL DEF Spec

\* Whatever a memory went through before its purge (scope moves, restores, calls
\* of several grants, reindexing), afterwards nothing of its content is left in
\* a table or an index and no key of anyone replays a result about it.
THEOREM PurgeComplete == Spec => []PurgeLeavesNothing
<1>1. PurgeInv => PurgeLeavesNothing
  BY DEF PurgeInv
<1>2. QED
  BY <1>1, PurgeInvariant, PTL
=============================================================================
