------------------------- MODULE McpIndexes_proofs -------------------------
(***************************************************************************)
(* Theorems about the derived indexes of the MCP repository (keywords, FTS, *)
(* embeddings, vec0 tables) and about its idempotency ledger, for any       *)
(* owners, grants, scopes, memories, keys, contents and generations.       *)
(***************************************************************************)
EXTENDS McpRepository_proofs

-----------------------------------------------------------------------------
(* The indexes of a memory.                                                 *)

(* Neither DerivedIndexParity nor MappingsInScope is inductive.  A cutover   *)
(* makes the BUILDING generation the one of search, so its mappings must     *)
(* already be of the row's content; and the first generation of a scope is   *)
(* ACTIVE at once, so no row may be in a scope that has none.                *)
Indexed(m) ==
    IF rows[m] = None
      THEN keywords[m] = None /\ fts[m] = None /\ Mapped(m) = {}
      ELSE LET o == rows[m].owner
               s == rows[m].scope IN
           /\ keywords[m] = rows[m].content /\ fts[m] = rows[m].content
           /\ Active(o, s) # {} /\ Active(o, s) \subseteq Mapped(m)
           /\ \A n \in Mapped(m) :
                 /\ embeddings[m][n].scope = s
                 /\ profiles[o][s][n] # "none"
                 /\ n \in Current(o, s) => embeddings[m][n].content = rows[m].content

IndexInv == \A m \in Memory : Indexed(m)

\* A memory no table of which is touched.
LEMMA IndexedKept ==
    ASSUME NEW m \in Memory, Indexed(m),
           rows'[m] = rows[m], keywords'[m] = keywords[m], fts'[m] = fts[m],
           embeddings'[m] = embeddings[m],
           rows[m] # None => profiles'[rows[m].owner][rows[m].scope]
                                 = profiles[rows[m].owner][rows[m].scope]
    PROVE  Indexed(m)'
<1>1. Mapped(m)' = Mapped(m)
  BY DEF Mapped
<1>2. CASE rows[m] = None
  BY <1>1, <1>2 DEF Indexed
<1>3. CASE rows[m] # None
  <2> DEFINE o == rows[m].owner
             s == rows[m].scope
  <2>1. Active(o, s)' = Active(o, s) /\ Current(o, s)' = Current(o, s)
    BY <1>3 DEF Active, Current
  <2>2. QED
    BY <1>1, <1>3, <2>1 DEF Indexed
<1>4. QED
  BY <1>2, <1>3

\* A write of m with vectors for exactly the current generations of its scope,
\* provided that no mapping of another generation is in a different scope.
LEMMA IndexedWritten ==
    ASSUME TypeOK, OneActive, NEW m \in Memory, NEW o \in Owner, NEW t \in Scope,
           NEW c \in Content, NEW blobs \in SUBSET Generation,
           blobs # {}, blobs = Current(o, t), profiles' = profiles,
           rows'[m] # None, rows'[m].owner = o, rows'[m].scope = t, rows'[m].content = c,
           keywords'[m] = c, fts'[m] = c,
           embeddings'[m] = Rewritten(m, blobs, t, c),
           \A n \in Mapped(m) \ blobs : /\ embeddings[m][n].scope = t
                                        /\ profiles[o][t][n] # "none"
    PROVE  Indexed(m)'
<1>1. Active(o, t) # {} /\ Active(o, t) \subseteq blobs
  BY DEF Active, Current, OneActive
<1>2. \A n \in blobs : /\ embeddings'[m][n] = [scope |-> t, content |-> c, vec |-> FALSE]
                       /\ embeddings'[m][n] # None
                       /\ profiles[o][t][n] # "none"
  <2>1. [scope |-> t, content |-> c, vec |-> FALSE] \in EmbeddingType
    BY DEF EmbeddingType
  <2>2. QED
    BY <2>1, NoneAssumption DEF Rewritten, Current
<1>3. \A n \in Generation \ blobs : embeddings'[m][n] = embeddings[m][n]
  BY DEF Rewritten
<1>4. Mapped(m)' = Mapped(m) \cup blobs
  BY <1>2, <1>3 DEF Mapped
<1>5. Active(o, t)' = Active(o, t) /\ Current(o, t)' = blobs
  BY DEF Active, Current
<1>6. ASSUME NEW n \in Mapped(m)'
      PROVE  /\ embeddings'[m][n].scope = t
             /\ profiles'[o][t][n] # "none"
             /\ n \in Current(o, t)' => embeddings'[m][n].content = c
  <2>1. CASE n \in blobs
    BY <1>2, <2>1
  <2>2. CASE n \notin blobs
    BY <1>3, <1>4, <1>5, <2>2 DEF Mapped
  <2>3. QED
    BY <2>1, <2>2
<1>7. QED
  BY <1>1, <1>4, <1>5, <1>6 DEF Indexed

LEMMA IndexAdd ==
    ASSUME TypeOK, OneActive, IndexInv, NEW g \in Grant, NEW s \in Scope, NEW m \in Memory,
           NEW c \in Content, NEW k \in Key, NEW blobs \in SUBSET Generation,
           AddMemory(g, s, m, c, k, blobs)
    PROVE  IndexInv'
<1> DEFINE o == GrantOwner[g]
<1>1. o \in Owner
  BY OwnerTyped
<1>2. rows'[m] = [owner |-> o, scope |-> s, rev |-> 1, content |-> c, deleted |-> FALSE]
  BY DEF AddMemory, TypeOK
<1>3. rows'[m] # None /\ rows'[m].owner = o /\ rows'[m].scope = s /\ rows'[m].content = c
  <2>1. rows'[m] \in RowType
    BY <1>1, <1>2, RevisionTyped DEF RowType
  <2>2. rows'[m] # None
    BY <2>1, NoneAssumption
  <2>3. QED
    BY <1>2, <2>2
<1>4. Mapped(m) = {}
  BY DEF AddMemory, IndexInv, Indexed
<1>5. /\ profiles' = profiles /\ blobs # {} /\ blobs = Current(o, s)
      /\ keywords'[m] = c /\ fts'[m] = c /\ embeddings'[m] = Rewritten(m, blobs, s, c)
  BY DEF AddMemory, Covers, TypeOK
<1>6. Indexed(m)'
  BY <1>1, <1>3, <1>4, <1>5, IndexedWritten
<1>7. ASSUME NEW q \in Memory \ {m}
      PROVE  Indexed(q)'
  <2>1. /\ rows'[q] = rows[q] /\ keywords'[q] = keywords[q] /\ fts'[q] = fts[q]
        /\ embeddings'[q] = embeddings[q] /\ profiles' = profiles
    BY DEF AddMemory, TypeOK
  <2>2. QED
    BY <2>1, IndexedKept DEF IndexInv
<1>8. QED
  BY <1>6, <1>7 DEF IndexInv

LEMMA IndexReplace ==
    ASSUME TypeOK, OneActive, IndexInv, NEW g \in Grant, NEW s \in Scope, NEW t \in Scope,
           NEW m \in Memory, NEW n \in 1..MaxRevision, NEW c \in Content, NEW k \in Key,
           NEW blobs \in SUBSET Generation, ReplaceMemory(g, s, t, m, n, c, k, blobs)
    PROVE  IndexInv'
<1> DEFINE o == GrantOwner[g]
<1>1. o \in Owner
  BY OwnerTyped
<1>2. rows'[m] = [owner |-> o, scope |-> t, rev |-> n + 1, content |-> c, deleted |-> FALSE]
  BY DEF ReplaceMemory, TypeOK
<1>3. rows'[m] # None /\ rows'[m].owner = o /\ rows'[m].scope = t /\ rows'[m].content = c
  <2>1. n + 1 \in 1..MaxRevision
    BY RevisionTyped DEF ReplaceMemory
  <2>2. rows'[m] \in RowType
    BY <1>1, <1>2, <2>1 DEF RowType
  <2>3. rows'[m] # None
    BY <2>2, NoneAssumption
  <2>4. QED
    BY <1>2, <2>3
<1>4. /\ profiles' = profiles /\ blobs # {} /\ blobs = Current(o, t)
      /\ keywords'[m] = c /\ fts'[m] = c /\ embeddings'[m] = Rewritten(m, blobs, t, c)
  BY DEF ReplaceMemory, Covers, TypeOK
\* A mapping is left as it is only when the memory stays in its scope.
<1>5. \A i \in Mapped(m) \ blobs : /\ embeddings[m][i].scope = t
                                   /\ profiles[o][t][i] # "none"
  <2>1. rows[m] # None /\ rows[m].owner = o /\ rows[m].scope = s
    BY DEF ReplaceMemory, Matches
  <2>2. CASE t = s
    BY <2>1, <2>2 DEF IndexInv, Indexed
  <2>3. CASE t # s
    BY <1>4, <2>3 DEF ReplaceMemory, CanMove
  <2>4. QED
    BY <2>2, <2>3
<1>6. Indexed(m)'
  BY <1>1, <1>3, <1>4, <1>5, IndexedWritten
<1>7. ASSUME NEW q \in Memory \ {m}
      PROVE  Indexed(q)'
  <2>1. /\ rows'[q] = rows[q] /\ keywords'[q] = keywords[q] /\ fts'[q] = fts[q]
        /\ embeddings'[q] = embeddings[q] /\ profiles' = profiles
    BY DEF ReplaceMemory, TypeOK
  <2>2. QED
    BY <2>1, IndexedKept DEF IndexInv
<1>8. QED
  BY <1>6, <1>7 DEF IndexInv

\* remove_memory and restore_memory keep the content, the scope and the mappings.
LEMMA IndexTombstone ==
    ASSUME TypeOK, IndexInv, NEW g \in Grant, NEW s \in Scope, NEW m \in Memory,
           NEW n \in 1..MaxRevision, NEW k \in Key,
           RemoveMemory(g, s, m, n, k) \/ RestoreMemory(g, s, m, n, k)
    PROVE  IndexInv'
<1>1. rows[m] \in RowType /\ rows[m] # None /\ n + 1 \in 1..MaxRevision
  BY OwnerTyped, MatchesTyped, RevisionTyped DEF RemoveMemory, RestoreMemory, Matches
<1>2. profiles' = profiles /\ embeddings' = embeddings
  BY DEF RemoveMemory, RestoreMemory, generationVars
<1>3. PICK d \in BOOLEAN : rows'[m] = [rows[m] EXCEPT !.rev = n + 1, !.deleted = d]
  BY DEF RemoveMemory, RestoreMemory, TypeOK
<1>4. /\ rows'[m] # None /\ rows'[m].owner = rows[m].owner
      /\ rows'[m].scope = rows[m].scope /\ rows'[m].content = rows[m].content
  <2>1. rows'[m] \in RowType
    BY <1>1, <1>3 DEF RowType
  <2>2. rows'[m] # None
    BY <2>1, NoneAssumption
  <2>3. QED
    BY <1>1, <1>3, <2>2 DEF RowType
<1>5. keywords'[m] = rows[m].content /\ fts'[m] = rows[m].content
  BY <1>1 DEF RemoveMemory, RestoreMemory, TypeOK, indexVars, IndexInv, Indexed
<1>6. Indexed(m)'
  <2>1. \A o, t : Active(o, t)' = Active(o, t) /\ Current(o, t)' = Current(o, t)
    BY <1>2 DEF Active, Current
  <2>2. Mapped(m)' = Mapped(m)
    BY <1>2 DEF Mapped
  <2>3. QED
    BY <1>1, <1>2, <1>4, <1>5, <2>1, <2>2 DEF IndexInv, Indexed
<1>7. ASSUME NEW q \in Memory \ {m}
      PROVE  Indexed(q)'
  <2>1. rows'[q] = rows[q] /\ keywords'[q] = keywords[q] /\ fts'[q] = fts[q]
    BY DEF RemoveMemory, RestoreMemory, TypeOK, indexVars
  <2>2. QED
    BY <1>2, <2>1, IndexedKept DEF IndexInv
<1>8. QED
  BY <1>6, <1>7 DEF IndexInv

LEMMA IndexPurge ==
    ASSUME TypeOK, IndexInv, NEW g \in Grant, NEW s \in Scope, NEW m \in Memory,
           NEW n \in 1..MaxRevision, NEW k \in Key, PurgeMemory(g, s, m, n, k)
    PROVE  IndexInv'
<1>1. Indexed(m)'
  <2>1. rows'[m] = None /\ keywords'[m] = None /\ fts'[m] = None
    BY DEF PurgeMemory, TypeOK
  <2>2. embeddings'[m] = [i \in Generation |-> None]
    BY DEF PurgeMemory, TypeOK
  <2>3. Mapped(m)' = {}
    BY <2>2 DEF Mapped
  <2>4. QED
    BY <2>1, <2>3 DEF Indexed
<1>2. ASSUME NEW q \in Memory \ {m}
      PROVE  Indexed(q)'
  <2>1. /\ rows'[q] = rows[q] /\ keywords'[q] = keywords[q] /\ fts'[q] = fts[q]
        /\ embeddings'[q] = embeddings[q] /\ profiles' = profiles
    BY DEF PurgeMemory, TypeOK, generationVars
  <2>2. QED
    BY <2>1, IndexedKept DEF IndexInv
<1>3. QED
  BY <1>1, <1>2 DEF IndexInv

\* Only a BUILDING generation is activated, and only when every memory of the
\* scope has a mapping of it: whatever was written since it was opened is of
\* the row's content in it already.
LEMMA IndexCutover ==
    ASSUME TypeOK, IndexInv, NEW g \in Grant, NEW s \in Scope, NEW a \in Generation,
           NEW b \in Generation, CutoverEmbeddingGeneration(g, s, a, b)
    PROVE  IndexInv'
<1> DEFINE o == GrantOwner[g]
<1>1. o \in Owner
  BY OwnerTyped
<1>2. UNCHANGED <<rows, keywords, fts, embeddings>>
  BY DEF CutoverEmbeddingGeneration, indexVars
<1>3. profiles'[o][s] = Activated(profiles[o][s], a, b)
  BY <1>1 DEF TypeOK, CutoverEmbeddingGeneration
<1>4. \A p \in Owner, t \in Scope : <<p, t>> # <<o, s>> => profiles'[p][t] = profiles[p][t]
  BY <1>1 DEF TypeOK, CutoverEmbeddingGeneration
<1>5. /\ \A n \in Generation : profiles[o][s][n] = "ACTIVE" <=> n = a
      /\ profiles[o][s][b] = "BUILDING" /\ a # b
      /\ profiles[o][s] \in [Generation -> Status]
  BY <1>1 DEF CutoverEmbeddingGeneration, Active, TypeOK
<1>6. /\ Active(o, s)' = {b} /\ Current(o, s)' \subseteq Current(o, s)
      /\ \A n \in Generation : profiles[o][s][n] # "none" => profiles'[o][s][n] # "none"
  BY <1>3, <1>5 DEF Active, Current, Activated
<1>7. SUFFICES ASSUME NEW m \in Memory
               PROVE  Indexed(m)'
  BY DEF IndexInv
<1>8. CASE m \in Canonical(o, s)
  <2>1. rows[m] # None /\ rows[m].owner = o /\ rows[m].scope = s
    BY <1>8 DEF Canonical
  <2>2. b \in Mapped(m)
    BY <1>8 DEF CutoverEmbeddingGeneration, MappedIn, Mapped
  <2>3. Mapped(m)' = Mapped(m)
    BY <1>2 DEF Mapped
  <2>4. /\ Active(o, s)' # {} /\ Active(o, s)' \subseteq Mapped(m)
        /\ \A n \in Mapped(m) : /\ n \in Generation
                                /\ n \in Current(o, s)' => n \in Current(o, s)
    BY <1>6, <2>2 DEF Mapped
  <2>5. QED
    BY <1>2, <1>6, <2>1, <2>3, <2>4 DEF IndexInv, Indexed
<1>9. CASE m \notin Canonical(o, s)
  <2>1. rows[m] # None => /\ rows[m].owner \in Owner /\ rows[m].scope \in Scope
                          /\ <<rows[m].owner, rows[m].scope>> # <<o, s>>
    BY <1>9 DEF Canonical, TypeOK, RowType
  <2>2. QED
    BY <1>2, <1>4, <2>1, IndexedKept DEF IndexInv
<1>10. QED
  BY <1>8, <1>9

LEMMA IndexFail ==
    ASSUME TypeOK, IndexInv, NEW g \in Grant, NEW s \in Scope, NEW b \in Generation,
           FailEmbeddingGeneration(g, s, b)
    PROVE  IndexInv'
<1> DEFINE o == GrantOwner[g]
<1>1. o \in Owner
  BY OwnerTyped
<1>2. UNCHANGED <<rows, keywords, fts>>
  BY DEF FailEmbeddingGeneration, indexVars
<1>3. profiles'[o][s] = [profiles[o][s] EXCEPT ![b] = "FAILED"]
  BY <1>1 DEF TypeOK, FailEmbeddingGeneration
<1>4. \A p \in Owner, t \in Scope : <<p, t>> # <<o, s>> => profiles'[p][t] = profiles[p][t]
  BY <1>1 DEF TypeOK, FailEmbeddingGeneration
<1>5. profiles[o][s] \in [Generation -> Status] /\ profiles[o][s][b] = "BUILDING"
  BY <1>1 DEF FailEmbeddingGeneration, TypeOK
<1>6. /\ Active(o, s)' = Active(o, s) /\ Current(o, s)' \subseteq Current(o, s)
      /\ b \notin Active(o, s)
      /\ \A n \in Generation : profiles[o][s][n] # "none" => profiles'[o][s][n] # "none"
  BY <1>3, <1>5 DEF Active, Current
<1>7. SUFFICES ASSUME NEW m \in Memory
               PROVE  Indexed(m)'
  BY DEF IndexInv
<1>8. CASE m \in Canonical(o, s)
  <2>1. rows[m] # None /\ rows[m].owner = o /\ rows[m].scope = s
    BY <1>8 DEF Canonical
  <2>2. \A n \in Generation : n # b => embeddings'[m][n] = embeddings[m][n]
    BY DEF FailEmbeddingGeneration
  <2>3. embeddings'[m][b] = None
    BY <1>8 DEF FailEmbeddingGeneration, MappedIn
  <2>4. Mapped(m)' = Mapped(m) \ {b}
    BY <2>2, <2>3 DEF Mapped
  <2>5. \A i \in Mapped(m)' : i \in Mapped(m) /\ i \in Generation
                              /\ embeddings'[m][i] = embeddings[m][i]
    BY <2>2, <2>4 DEF Mapped
  <2>6. QED
    BY <1>2, <1>6, <2>1, <2>4, <2>5 DEF IndexInv, Indexed
<1>9. CASE m \notin Canonical(o, s)
  <2>1. rows[m] # None => /\ rows[m].owner \in Owner /\ rows[m].scope \in Scope
                          /\ <<rows[m].owner, rows[m].scope>> # <<o, s>>
    BY <1>9 DEF Canonical, TypeOK, RowType
  <2>2. embeddings'[m] = embeddings[m]
    BY <1>9 DEF FailEmbeddingGeneration, MappedIn, TypeOK
  <2>3. QED
    BY <1>2, <1>4, <2>1, <2>2, IndexedKept DEF IndexInv
<1>10. QED
  BY <1>8, <1>9

\* A step that gives generation n of one scope its first profile: no memory of
\* the scope has a mapping of n.
LEMMA IndexNewProfile ==
    ASSUME TypeOK, IndexInv, NEW o \in Owner, NEW s \in Scope, NEW n \in Generation,
           NEW st \in Status, profiles[o][s][n] = "none", st # "none",
           profiles' = [profiles EXCEPT ![o][s][n] = st],
           st = "ACTIVE" => Canonical(o, s) = {},
           UNCHANGED <<rows, keywords, fts, embeddings>>
    PROVE  IndexInv'
<1>1. profiles'[o][s] = [profiles[o][s] EXCEPT ![n] = st]
  BY DEF TypeOK
<1>2. \A p \in Owner, t \in Scope : <<p, t>> # <<o, s>> => profiles'[p][t] = profiles[p][t]
  BY DEF TypeOK
<1>3. SUFFICES ASSUME NEW m \in Memory
               PROVE  Indexed(m)'
  BY DEF IndexInv
<1>4. CASE m \in Canonical(o, s)
  <2>1. rows[m] # None /\ rows[m].owner = o /\ rows[m].scope = s /\ st # "ACTIVE"
    BY <1>4 DEF Canonical
  <2>2. n \notin Mapped(m)
    BY <2>1 DEF IndexInv, Indexed
  <2>3. Mapped(m)' = Mapped(m)
    BY DEF Mapped
  <2>4. \A i \in Generation \ {n} : profiles'[o][s][i] = profiles[o][s][i]
    BY <1>1 DEF TypeOK
  <2>5. Active(o, s)' = Active(o, s)
    BY <1>1, <2>1 DEF TypeOK, Active
  <2>6. Current(o, s)' \ {n} \subseteq Current(o, s)
    BY <2>4 DEF Current
  <2>7. QED
    BY <2>1, <2>2, <2>3, <2>4, <2>5, <2>6 DEF IndexInv, Indexed, Mapped
<1>5. CASE m \notin Canonical(o, s)
  <2>1. rows[m] # None => /\ rows[m].owner \in Owner /\ rows[m].scope \in Scope
                          /\ <<rows[m].owner, rows[m].scope>> # <<o, s>>
    BY <1>5 DEF Canonical, TypeOK, RowType
  <2>2. QED
    BY <1>2, <2>1, IndexedKept DEF IndexInv
<1>6. QED
  BY <1>4, <1>5

\* The first generation of a scope is opened in an empty one.
LEMMA IndexEnsure ==
    ASSUME TypeOK, IndexInv, NEW o \in Owner, NEW s \in Scope, EnsureEmbeddingProfile(o, s)
    PROVE  IndexInv'
<1>1. Canonical(o, s) = {}
  BY DEF EnsureEmbeddingProfile, IndexInv, Indexed, Canonical, Active, Current
<1>2. QED
  BY <1>1, IndexNewProfile, ConstantsAssumption DEF EnsureEmbeddingProfile, indexVars, Status

LEMMA IndexBackfill ==
    ASSUME TypeOK, IndexInv, NEW m \in Memory, NEW n \in Generation, Backfill(m, n)
    PROVE  IndexInv'
<1> DEFINE o == rows[m].owner
           s == rows[m].scope
           new == [scope |-> s, content |-> rows[m].content, vec |-> FALSE]
<1>1. UNCHANGED <<rows, keywords, fts, profiles>> /\ rows[m] # None /\ profiles[o][s][n] = "BUILDING"
  BY DEF Backfill, indexVars, generationVars
<1>2. new # None
  <2>1. new \in EmbeddingType
    BY <1>1 DEF TypeOK, RowType, EmbeddingType
  <2>2. QED
    BY <2>1, NoneAssumption
<1>3. embeddings'[m] = [embeddings[m] EXCEPT ![n] = new]
  BY DEF Backfill, TypeOK
<1>4. embeddings'[m][n] = new /\ \A i \in Generation \ {n} : embeddings'[m][i] = embeddings[m][i]
  BY <1>3 DEF TypeOK
<1>5. Mapped(m)' = Mapped(m) \cup {n}
  BY <1>2, <1>4 DEF Mapped
<1>6. Indexed(m)'
  <2>1. Active(o, s)' = Active(o, s) /\ Current(o, s)' = Current(o, s)
    BY <1>1 DEF Active, Current
  <2>2. ASSUME NEW i \in Mapped(m)'
        PROVE  /\ embeddings'[m][i].scope = s
               /\ profiles'[o][s][i] # "none"
               /\ i \in Current(o, s)' => embeddings'[m][i].content = rows[m].content
    <3>1. CASE i = n
      BY <1>1, <1>4, <3>1
    <3>2. CASE i # n
      BY <1>1, <1>4, <1>5, <2>1, <3>2 DEF IndexInv, Indexed, Mapped
    <3>3. QED
      BY <3>1, <3>2
  <2>3. QED
    BY <1>1, <1>5, <2>1, <2>2 DEF IndexInv, Indexed
<1>7. ASSUME NEW q \in Memory \ {m}
      PROVE  Indexed(q)'
  <2>1. embeddings'[q] = embeddings[q]
    BY DEF Backfill, TypeOK
  <2>2. QED
    BY <1>1, <2>1, IndexedKept DEF IndexInv
<1>8. QED
  BY <1>6, <1>7 DEF IndexInv

\* A projection sets the flag of the mappings and nothing else of them.
LEMMA ProjectedMappings ==
    ASSUME TypeOK, NEW o \in Owner, NEW s \in Scope, NEW n \in Generation,
           ProjectVectors(o, s, n), NEW m \in Memory
    PROVE  /\ Mapped(m)' = Mapped(m)
           /\ \A i \in Mapped(m) :
                  /\ embeddings'[m][i].scope = embeddings[m][i].scope
                  /\ embeddings'[m][i].content = embeddings[m][i].content
                  /\ embeddings'[m][i].vec <=> \/ embeddings[m][i].vec
                                               \/ i = n /\ m \in MappedIn(o, s, n)
<1>1. \A i \in Mapped(m) : embeddings[m][i] \in EmbeddingType
  BY DEF TypeOK, Mapped
<1>2. CASE m \in MappedIn(o, s, n)
  <2>1. embeddings'[m] = [embeddings[m] EXCEPT ![n] = [@ EXCEPT !.vec = TRUE]]
    BY <1>2 DEF ProjectVectors
  <2>2. n \in Mapped(m)
    BY <1>2 DEF MappedIn, Mapped
  <2>3. embeddings'[m][n] = [embeddings[m][n] EXCEPT !.vec = TRUE]
    BY <2>1, <2>2 DEF TypeOK
  <2>4. \A i \in Generation \ {n} : embeddings'[m][i] = embeddings[m][i]
    BY <2>1 DEF TypeOK
  <2>5. /\ embeddings'[m][n] \in EmbeddingType /\ embeddings'[m][n].vec = TRUE
        /\ embeddings'[m][n].scope = embeddings[m][n].scope
        /\ embeddings'[m][n].content = embeddings[m][n].content
    BY <1>1, <2>2, <2>3 DEF EmbeddingType
  <2>6. Mapped(m)' = Mapped(m)
    BY <2>2, <2>4, <2>5, NoneAssumption DEF Mapped
  <2>7. ASSUME NEW i \in Mapped(m)
        PROVE  /\ embeddings'[m][i].scope = embeddings[m][i].scope
               /\ embeddings'[m][i].content = embeddings[m][i].content
               /\ embeddings'[m][i].vec <=> \/ embeddings[m][i].vec
                                            \/ i = n /\ m \in MappedIn(o, s, n)
    <3>1. CASE i = n
      BY <1>2, <2>5, <3>1
    <3>2. CASE i # n
      BY <2>4, <3>2 DEF Mapped
    <3>3. QED
      BY <3>1, <3>2
  <2>8. QED
    BY <2>6, <2>7
<1>3. CASE m \notin MappedIn(o, s, n)
  <2>1. embeddings'[m] = embeddings[m]
    BY <1>3 DEF ProjectVectors
  <2>2. QED
    BY <1>3, <2>1 DEF Mapped
<1>4. QED
  BY <1>2, <1>3

LEMMA IndexProject ==
    ASSUME TypeOK, IndexInv, NEW o \in Owner, NEW s \in Scope, NEW n \in Generation,
           ProjectVectors(o, s, n)
    PROVE  IndexInv'
<1>1. UNCHANGED <<rows, keywords, fts, profiles>>
  BY DEF ProjectVectors, indexVars
<1>2. SUFFICES ASSUME NEW m \in Memory
               PROVE  Indexed(m)'
  BY DEF IndexInv
<1>3. /\ Mapped(m)' = Mapped(m)
      /\ \A i \in Mapped(m) : /\ embeddings'[m][i].scope = embeddings[m][i].scope
                              /\ embeddings'[m][i].content = embeddings[m][i].content
  BY ProjectedMappings
<1>4. \A p, t : Active(p, t)' = Active(p, t) /\ Current(p, t)' = Current(p, t)
  BY <1>1 DEF Active, Current
<1>5. QED
  BY <1>1, <1>3, <1>4 DEF IndexInv, Indexed

LEMMA IndexStep ==
    ASSUME TypeOK, OneActive, IndexInv, [Next]_vars
    PROVE  IndexInv'
<1>1. CASE \E g \in Grant, s \in Scope, m \in Memory, k \in Key : Lifecycle(g, s, m, k)
  BY <1>1, IndexAdd, IndexReplace, IndexTombstone, IndexPurge DEF Lifecycle, Revision
<1>2. CASE \E g \in Grant, s \in Scope : Generations(g, s)
  BY <1>2, IndexCutover, IndexFail DEF Generations
<1>3. CASE \E o \in Owner, s \in Scope : EnsureEmbeddingProfile(o, s)
  BY <1>3, IndexEnsure
<1>4. CASE Reindexer
  <2>1. ASSUME NEW o \in Owner, NEW s \in Scope, NEW n \in Generation, BeginBuilding(o, s, n)
        PROVE  IndexInv'
    BY <2>1, IndexNewProfile DEF BeginBuilding, indexVars, Status
  <2>2. QED
    BY <1>4, <2>1, IndexProject, IndexBackfill DEF Reindexer
<1>5. CASE UNCHANGED <<rows, keywords, fts, embeddings, profiles>>
  BY <1>5, IndexedKept DEF IndexInv
<1>6. CASE GrantAdministration
  BY <1>5, <1>6 DEF GrantAdministration, RevokeGrant, DowngradeGrant, indexVars, generationVars
<1>7. CASE UNCHANGED vars
  BY <1>5, <1>7 DEF vars
<1>8. QED
  BY <1>1, <1>2, <1>3, <1>4, <1>6, <1>7 DEF Next

\* Every index of every memory is as a write, a move, a cutover and a failed
\* generation need to find it.
THEOREM IndexInvariant == Spec => []IndexInv
<1>1. Init => IndexInv
  BY DEF Init, IndexInv, Indexed, Mapped
<1>2. TypeOK /\ OneActive /\ IndexInv /\ [Next]_vars => IndexInv'
  BY IndexStep
<1>3. QED
  BY <1>1, <1>2, TypeCorrect, OneActiveGeneration, PTL DEF Spec

\* Whatever the writes, moves, tombstones and reindexings, and in whatever order
\* they meet: keywords, FTS and the embedding search uses are of the row's
\* content, and nothing of a memory without a row is in an index.
THEOREM IndexesInParity == Spec => []DerivedIndexParity
<1>1. TypeOK /\ IndexInv => DerivedIndexParity
  BY DEF IndexInv, Indexed, DerivedIndexParity, Active, Current, Mapped
<1>2. QED
  BY <1>1, IndexInvariant, TypeCorrect, PTL

\* No mapping outlives its row, stays behind in the scope its row left, or is of
\* a generation its scope does not know.
THEOREM MappingsStayInScope == Spec => []MappingsInScope
<1>1. TypeOK /\ IndexInv => MappingsInScope
  BY DEF IndexInv, Indexed, MappingsInScope
<1>2. QED
  BY <1>1, IndexInvariant, TypeCorrect, PTL

-----------------------------------------------------------------------------
(* The vec0 rows of a memory. *)

Projected(m) ==
    \A n \in Mapped(m) : embeddings[m][n].vec =>
        LET t == <<rows[m].owner, embeddings[m][n].scope, n>> IN
        t \in vectorTables /\ <<t, m, embeddings[m][n].content>> \in vectors

\* What a mapping with a vec0 row is after a step that projects nothing: the one
\* it was before, in a table that stays and with a row that stays.
StillProjected(m, n) ==
    LET t == <<rows[m].owner, embeddings[m][n].scope, n>>
        v == <<t, m, embeddings[m][n].content>> IN
    /\ n \in Mapped(m) /\ embeddings'[m][n] = embeddings[m][n]
    /\ rows'[m].owner = rows[m].owner
    /\ t \in vectorTables => t \in vectorTables'
    /\ v \in vectors => v \in vectors'

LEMMA ProjectedKept ==
    ASSUME NEW m \in Memory, Projected(m),
           \A n \in Mapped(m)' : embeddings'[m][n].vec => StillProjected(m, n)
    PROVE  Projected(m)'
<1>1. SUFFICES ASSUME NEW n \in Mapped(m)', embeddings'[m][n].vec
               PROVE  LET t == <<rows'[m].owner, embeddings'[m][n].scope, n>> IN
                      /\ t \in vectorTables'
                      /\ <<t, m, embeddings'[m][n].content>> \in vectors'
  BY DEF Projected
<1>2. StillProjected(m, n)
  BY <1>1
<1>3. QED
  BY <1>1, <1>2 DEF StillProjected, Projected

\* A memory no mapping of which is touched, in a step that touches no vec0 row of
\* it and no table.
LEMMA ProjectedUntouched ==
    ASSUME NEW m \in Memory, Projected(m), embeddings'[m] = embeddings[m],
           Mapped(m) # {} => rows'[m].owner = rows[m].owner,
           vectorTables' = vectorTables,
           \A v \in vectors : v[2] = m => v \in vectors'
    PROVE  Projected(m)'
<1>1. Mapped(m)' = Mapped(m)
  BY DEF Mapped
<1>2. \A n \in Mapped(m) : StillProjected(m, n)
  BY DEF StillProjected
<1>3. QED
  BY <1>1, <1>2, ProjectedKept

\* A rewritten mapping names no vec0 row; the others are left as they are.
LEMMA ProjectedWritten ==
    ASSUME NEW m \in Memory, NEW blobs \in SUBSET Generation, NEW t, NEW c,
           Projected(m), embeddings'[m] = Rewritten(m, blobs, t, c),
           Mapped(m) # {} => rows'[m].owner = rows[m].owner,
           UNCHANGED <<vectorTables, vectors>>
    PROVE  Projected(m)'
<1>1. ASSUME NEW n \in Mapped(m)', embeddings'[m][n].vec
      PROVE  StillProjected(m, n)
  <2>1. n \in Generation
    BY DEF Mapped
  <2>2. n \notin blobs
    BY <1>1, <2>1 DEF Rewritten
  <2>3. embeddings'[m][n] = embeddings[m][n] /\ n \in Mapped(m)
    BY <2>1, <2>2 DEF Rewritten, Mapped
  <2>4. QED
    BY <2>3 DEF StillProjected
<1>2. QED
  BY <1>1, ProjectedKept

LEMMA VectorsLifecycle ==
    ASSUME TypeOK, IndexInv, \A m \in Memory : Projected(m),
           NEW g \in Grant, NEW s \in Scope, NEW m \in Memory, NEW k \in Key,
           Lifecycle(g, s, m, k)
    PROVE  \A q \in Memory : Projected(q)'
<1> DEFINE o == GrantOwner[g]
<1>1. CASE \E c \in Content, blobs \in SUBSET Generation : AddMemory(g, s, m, c, k, blobs)
  <2>1. PICK c \in Content, blobs \in SUBSET Generation : AddMemory(g, s, m, c, k, blobs)
    BY <1>1
  <2>2. /\ Mapped(m) = {} /\ embeddings'[m] = Rewritten(m, blobs, s, c)
        /\ UNCHANGED <<vectorTables, vectors>>
    BY <2>1 DEF AddMemory, IndexInv, Indexed, TypeOK
  <2>3. Projected(m)'
    BY <2>2, ProjectedWritten
  <2>4. \A q \in Memory \ {m} : embeddings'[q] = embeddings[q] /\ rows'[q] = rows[q]
    BY <2>1 DEF AddMemory, TypeOK
  <2>5. QED
    BY <2>2, <2>3, <2>4, ProjectedUntouched
<1>2. CASE \E t \in Scope, n \in Revision, c \in Content, blobs \in SUBSET Generation :
               ReplaceMemory(g, s, t, m, n, c, k, blobs)
  <2>1. PICK t \in Scope, n \in Revision, c \in Content, blobs \in SUBSET Generation :
               ReplaceMemory(g, s, t, m, n, c, k, blobs)
    BY <1>2
  <2>2. /\ rows[m].owner = o
        /\ rows'[m] = [owner |-> o, scope |-> t, rev |-> n + 1, content |-> c, deleted |-> FALSE]
        /\ embeddings'[m] = Rewritten(m, blobs, t, c)
        /\ UNCHANGED <<vectorTables, vectors>>
    BY <2>1 DEF ReplaceMemory, Matches, TypeOK
  <2>3. rows'[m].owner = rows[m].owner
    BY <2>2
  <2>4. Projected(m)'
    BY <2>2, <2>3, ProjectedWritten
  <2>5. \A q \in Memory \ {m} : embeddings'[q] = embeddings[q] /\ rows'[q] = rows[q]
    BY <2>1 DEF ReplaceMemory, TypeOK
  <2>6. QED
    BY <2>2, <2>4, <2>5, ProjectedUntouched
<1>3. CASE \E n \in Revision : RemoveMemory(g, s, m, n, k) \/ RestoreMemory(g, s, m, n, k)
  <2>1. PICK n \in Revision : RemoveMemory(g, s, m, n, k) \/ RestoreMemory(g, s, m, n, k)
    BY <1>3
  <2>2. UNCHANGED <<embeddings, vectorTables, vectors>>
    BY <2>1 DEF RemoveMemory, RestoreMemory, generationVars
  <2>3. rows[m] \in RowType
    BY <2>1, OwnerTyped, MatchesTyped DEF RemoveMemory, RestoreMemory, Revision
  <2>4. PICK d \in BOOLEAN : rows' = [rows EXCEPT ![m] = [@ EXCEPT !.rev = n + 1, !.deleted = d]]
    BY <2>1 DEF RemoveMemory, RestoreMemory
  <2>5. \A q \in Memory : rows'[q].owner = rows[q].owner
    BY <2>3, <2>4 DEF TypeOK, RowType
  <2>6. QED
    BY <2>2, <2>5, ProjectedUntouched
\* A purge deletes vec0 rows of its own memory only.
<1>4. CASE \E n \in Revision : PurgeMemory(g, s, m, n, k)
  <2>1. PICK n \in Revision : PurgeMemory(g, s, m, n, k)
    BY <1>4
  <2>2. embeddings'[m] = [i \in Generation |-> None] /\ vectorTables' = vectorTables
    BY <2>1 DEF PurgeMemory, TypeOK, generationVars
  <2>3. Projected(m)'
    BY <2>2 DEF Projected, Mapped
  <2>4. ASSUME NEW q \in Memory \ {m}
        PROVE  Projected(q)'
    <3>1. embeddings'[q] = embeddings[q] /\ rows'[q] = rows[q]
      BY <2>1 DEF PurgeMemory, TypeOK
    <3>2. \A v \in vectors : v[2] = q => v \in vectors'
      BY <2>1 DEF PurgeMemory
    <3>3. QED
      BY <2>2, <3>1, <3>2, ProjectedUntouched
  <2>5. QED
    BY <2>3, <2>4
<1>5. QED
  BY <1>1, <1>2, <1>3, <1>4 DEF Lifecycle

\* The table that goes holds vectors of the mappings that go, because a mapping
\* is in the scope of its row.
LEMMA VectorsFail ==
    ASSUME TypeOK, IndexInv, NEW g \in Grant, NEW s \in Scope, NEW b \in Generation,
           FailEmbeddingGeneration(g, s, b), NEW m \in Memory, Projected(m)
    PROVE  Projected(m)'
<1> DEFINE o == GrantOwner[g]
<1>1. rows' = rows /\ vectorTables' = vectorTables \ {<<o, s, b>>}
      /\ \A v \in vectors : v[1] # <<o, s, b>> => v \in vectors'
  BY DEF FailEmbeddingGeneration
<1>2. ASSUME NEW n \in Mapped(m)', embeddings'[m][n].vec
      PROVE  StillProjected(m, n)
  <2>1. embeddings'[m][n] = IF n = b /\ m \in MappedIn(o, s, b) THEN None ELSE embeddings[m][n]
    BY DEF FailEmbeddingGeneration, Mapped
  <2>2. ~ (n = b /\ m \in MappedIn(o, s, b))
    BY <2>1 DEF Mapped
  <2>3. embeddings'[m][n] = embeddings[m][n] /\ n \in Mapped(m)
    BY <2>1, <2>2 DEF Mapped
  <2>4. rows[m] # None /\ embeddings[m][n].scope = rows[m].scope
    BY <2>3 DEF IndexInv, Indexed
  <2>5. <<rows[m].owner, embeddings[m][n].scope, n>> # <<o, s, b>>
    BY <2>2, <2>3, <2>4 DEF MappedIn, Canonical, Mapped
  <2>6. QED
    BY <1>1, <2>3, <2>5 DEF StillProjected
<1>3. QED
  BY <1>2, ProjectedKept

LEMMA VectorsProject ==
    ASSUME TypeOK, IndexInv, NEW o \in Owner, NEW s \in Scope, NEW n \in Generation,
           ProjectVectors(o, s, n), NEW m \in Memory, Projected(m)
    PROVE  Projected(m)'
<1>1. /\ Mapped(m)' = Mapped(m)
      /\ \A i \in Mapped(m) : /\ embeddings'[m][i].scope = embeddings[m][i].scope
                              /\ embeddings'[m][i].content = embeddings[m][i].content
                              /\ embeddings'[m][i].vec <=> \/ embeddings[m][i].vec
                                                           \/ i = n /\ m \in MappedIn(o, s, n)
  BY ProjectedMappings
<1>2. /\ rows' = rows /\ vectorTables' = vectorTables \cup {<<o, s, n>>}
      /\ vectors' = vectors \cup
             {<<<<o, s, n>>, q, embeddings[q][n].content>> : q \in MappedIn(o, s, n)}
  BY DEF ProjectVectors
<1>3. SUFFICES ASSUME NEW i \in Mapped(m), embeddings'[m][i].vec
               PROVE  LET t == <<rows[m].owner, embeddings[m][i].scope, i>> IN
                      t \in vectorTables' /\ <<t, m, embeddings[m][i].content>> \in vectors'
  BY <1>1, <1>2 DEF Projected
<1>4. CASE embeddings[m][i].vec
  BY <1>2, <1>4 DEF Projected
<1>5. CASE i = n /\ m \in MappedIn(o, s, n)
  <2>1. rows[m].owner = o /\ embeddings[m][i].scope = s
    BY <1>5 DEF MappedIn, Canonical, IndexInv, Indexed
  <2>2. QED
    BY <1>2, <1>5, <2>1
<1>6. QED
  BY <1>1, <1>3, <1>4, <1>5

LEMMA VectorsBackfill ==
    ASSUME TypeOK, NEW m \in Memory, NEW n \in Generation, Backfill(m, n),
           NEW q \in Memory, Projected(q)
    PROVE  Projected(q)'
<1>1. UNCHANGED <<rows, vectorTables, vectors>>
  BY DEF Backfill, generationVars
<1>2. ASSUME NEW i \in Mapped(q)', embeddings'[q][i].vec
      PROVE  StillProjected(q, i)
  <2>1. i \in Generation
    BY DEF Mapped
  <2>2. CASE q = m /\ i = n
    <3>1. embeddings'[m][n] = [scope |-> rows[m].scope, content |-> rows[m].content, vec |-> FALSE]
      BY DEF Backfill, TypeOK
    <3>2. QED
      BY <1>2, <2>2, <3>1
  <2>3. CASE ~ (q = m /\ i = n)
    <3>1. embeddings'[q][i] = embeddings[q][i]
      BY <2>1, <2>3 DEF Backfill, TypeOK
    <3>2. QED
      BY <1>1, <2>1, <3>1 DEF StillProjected, Mapped
  <2>4. QED
    BY <2>2, <2>3
<1>3. QED
  BY <1>2, ProjectedKept

LEMMA VectorsStep ==
    ASSUME TypeOK, IndexInv, \A m \in Memory : Projected(m), [Next]_vars
    PROVE  \A m \in Memory : Projected(m)'
<1>1. CASE \E g \in Grant, s \in Scope, m \in Memory, k \in Key : Lifecycle(g, s, m, k)
  BY <1>1, VectorsLifecycle
<1>2. CASE UNCHANGED <<rows, embeddings, vectorTables, vectors>>
  BY <1>2, ProjectedUntouched
<1>3. CASE \E g \in Grant, s \in Scope : Generations(g, s)
  BY <1>2, <1>3, VectorsFail DEF Generations, CutoverEmbeddingGeneration
<1>4. CASE \E o \in Owner, s \in Scope : EnsureEmbeddingProfile(o, s)
  BY <1>2, <1>4 DEF EnsureEmbeddingProfile
<1>5. CASE Reindexer
  BY <1>2, <1>5, VectorsProject, VectorsBackfill DEF Reindexer, BeginBuilding
<1>6. CASE GrantAdministration
  BY <1>2, <1>6 DEF GrantAdministration, RevokeGrant, DowngradeGrant, generationVars
<1>7. CASE UNCHANGED vars
  BY <1>2, <1>7 DEF vars
<1>8. QED
  BY <1>1, <1>3, <1>4, <1>5, <1>6, <1>7 DEF Next

\* No rewrite, purge, move or failed generation leaves a mapping that names a vec0
\* row which is not there or holds the vector of another content.
THEOREM VectorsNeverStale == Spec => []VectorsNotStale
<1>1. VectorsNotStale <=> \A m \in Memory : Projected(m)
  BY DEF VectorsNotStale, Projected
<1>2. Init => VectorsNotStale
  BY DEF Init, VectorsNotStale, Mapped
<1>3. TypeOK /\ IndexInv /\ VectorsNotStale /\ [Next]_vars => VectorsNotStale'
  <2>1. VectorsNotStale' <=> \A m \in Memory : Projected(m)'
    BY DEF VectorsNotStale, Projected
  <2>2. QED
    BY <1>1, <2>1, VectorsStep
<1>4. QED
  BY <1>2, <1>3, TypeCorrect, IndexInvariant, PTL DEF Spec

-----------------------------------------------------------------------------
(* The ledger and the audit trail. *)

\* A method that records the event of a free revision and keeps its result under
\* a key in the same transaction.
LEMMA LedgerAdvances ==
    ASSUME LedgerMatchesHistory, NEW g, NEW op, NEW k, NEW m, NEW s, NEW d, NEW n,
           RevisionFree(m, n),
           events' = events \cup {Event(m, n, op, g)},
           idem' = idem \cup {IdemRow(g, op, k, m, s, d, n)}
    PROVE  LedgerMatchesHistory'
<1> DEFINE e == Event(m, n, op, g)
           r == IdemRow(g, op, k, m, s, d, n)
<1>1. e.mem = m /\ e.rev = n
  BY DEF Event
<1>2. /\ r.mem = m /\ r.rev = n /\ r.op = op /\ r.grant = g /\ ~ r.purged
      /\ e = Event(r.mem, r.rev, r.op, r.grant)
  BY DEF IdemRow
<1>3. events' = events \cup {e} /\ idem' = idem \cup {r}
  OBVIOUS
\* No result kept before is of this revision: its event would be recorded.
<1>4. ASSUME NEW q \in idem, ~ q.purged, q.mem = m, q.rev = n
      PROVE  FALSE
  <2>1. Event(q.mem, q.rev, q.op, q.grant) \in events
    BY <1>4 DEF LedgerMatchesHistory
  <2>2. QED
    BY <1>4, <2>1 DEF RevisionFree, Event
<1> HIDE DEF e, r
<1>5. ASSUME NEW x \in idem', ~ x.purged
      PROVE  /\ Event(x.mem, x.rev, x.op, x.grant) \in events'
             /\ \A q \in idem' : ~ q.purged /\ q.mem = x.mem /\ q.rev = x.rev => q = x
  <2>1. CASE x = r
    BY <1>2, <1>3, <1>4, <2>1
  <2>2. CASE x \in idem
    <3>1. ~ (x.mem = m /\ x.rev = n)
      BY <1>4, <1>5, <2>2
    <3>2. QED
      BY <1>2, <1>3, <1>5, <2>2, <3>1 DEF LedgerMatchesHistory
  <2>3. QED
    BY <1>3, <2>1, <2>2
<1>6. ASSUME NEW f \in events', ~ Purged(f.mem)'
      PROVE  \E x \in idem' : ~ x.purged /\ f = Event(x.mem, x.rev, x.op, x.grant)
  <2>1. CASE f = e
    BY <1>2, <1>3, <2>1
  <2>2. CASE f \in events
    <3>1. ~ Purged(f.mem)
      BY <1>3, <1>6 DEF Purged, History
    <3>2. QED
      BY <1>3, <2>2, <3>1 DEF LedgerMatchesHistory
  <2>3. QED
    BY <1>3, <2>1, <2>2
<1>7. QED
  BY <1>5, <1>6 DEF LedgerMatchesHistory

LEMMA LedgerPurge ==
    ASSUME TypeOK, PurgeInv, LedgerMatchesHistory, NEW g \in Grant, NEW s \in Scope,
           NEW m \in Memory, NEW n \in 1..MaxRevision, NEW k \in Key,
           PurgeMemory(g, s, m, n, k)
    PROVE  LedgerMatchesHistory'
<1> DEFINE e == Event(m, n + 1, "purge", g)
<1>1. /\ \A x \in idem' : \/ x \in idem /\ x.mem # m
                          \/ x.mem = m /\ x.purged
      /\ \A x \in idem : x.mem # m => x \in idem'
  BY LedgerAfterPurge
<1>2. events' = events \cup {e} /\ e.mem = m /\ e.op = "purge"
  BY DEF PurgeMemory, Event
<1> HIDE DEF e
<1>3. Purged(m)'
  BY <1>2 DEF Purged, History
<1>4. ASSUME NEW x \in idem', ~ x.purged
      PROVE  /\ Event(x.mem, x.rev, x.op, x.grant) \in events'
             /\ \A q \in idem' : ~ q.purged /\ q.mem = x.mem /\ q.rev = x.rev => q = x
  BY <1>1, <1>2, <1>4 DEF LedgerMatchesHistory
<1>5. ASSUME NEW f \in events', ~ Purged(f.mem)'
      PROVE  \E x \in idem' : ~ x.purged /\ f = Event(x.mem, x.rev, x.op, x.grant)
  <2>1. f.mem # m
    BY <1>3, <1>5
  <2>2. f \in events /\ ~ Purged(f.mem)
    BY <1>2, <1>5, <2>1 DEF Purged, History
  <2>3. PICK x \in idem : ~ x.purged /\ f = Event(x.mem, x.rev, x.op, x.grant)
    BY <2>2 DEF LedgerMatchesHistory
  <2>4. x.mem = f.mem
    BY <2>3 DEF Event
  <2>5. QED
    BY <1>1, <2>1, <2>3, <2>4
<1>6. QED
  BY <1>4, <1>5 DEF LedgerMatchesHistory

LEMMA LedgerStep ==
    ASSUME TypeOK, PurgeInv, LedgerMatchesHistory, [Next]_vars
    PROVE  LedgerMatchesHistory'
<1>1. ASSUME NEW g \in Grant, NEW s \in Scope, NEW m \in Memory, NEW k \in Key,
             Lifecycle(g, s, m, k)
      PROVE  LedgerMatchesHistory'
  <2>1. CASE \E c \in Content, blobs \in SUBSET Generation : AddMemory(g, s, m, c, k, blobs)
    BY <2>1, LedgerAdvances DEF AddMemory
  <2>2. CASE \E t \in Scope, n \in Revision, c \in Content, blobs \in SUBSET Generation :
                 ReplaceMemory(g, s, t, m, n, c, k, blobs)
    BY <2>2, LedgerAdvances DEF ReplaceMemory
  <2>3. CASE \E n \in Revision : RemoveMemory(g, s, m, n, k)
    BY <2>3, LedgerAdvances DEF RemoveMemory
  <2>4. CASE \E n \in Revision : RestoreMemory(g, s, m, n, k)
    BY <2>4, LedgerAdvances DEF RestoreMemory
  <2>5. CASE \E n \in Revision : PurgeMemory(g, s, m, n, k)
    BY <2>5, LedgerPurge DEF Revision
  <2>6. QED
    BY <1>1, <2>1, <2>2, <2>3, <2>4, <2>5 DEF Lifecycle
<1>2. CASE UNCHANGED <<events, idem>>
  BY <1>2 DEF LedgerMatchesHistory, Purged, History
<1>3. QED
  BY <1>1, <1>2, OthersKeepRows

\* Whoever's purge scrubs whatever ledger entries: a kept result is of an event
\* that happened, under one key only, and a memory that was not purged has every
\* event of it answered by a key.
THEOREM LedgerCorrect == Spec => []LedgerMatchesHistory
<1>1. Init => LedgerMatchesHistory
  BY DEF Init, LedgerMatchesHistory
<1>2. TypeOK /\ PurgeInv /\ LedgerMatchesHistory /\ [Next]_vars => LedgerMatchesHistory'
  BY LedgerStep
<1>3. QED
  BY <1>1, <1>2, TypeCorrect, PurgeInvariant, PTL DEF Spec
=============================================================================
