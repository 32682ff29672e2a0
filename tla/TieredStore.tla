----------------------------- MODULE TieredStore -----------------------------
(***************************************************************************)
(* The legacy store of recall (store.py) and its tiered retrieval          *)
(* (retrieve.py), as the stdio server or a terminal command runs them: one *)
(* process, which may be killed between any two of its transactions, and   *)
(* an operation that raises at any of them is given up there.              *)
(*                                                                         *)
(* A memory is hot (it has a row in the vector index), warm or cold.       *)
(* Every write is followed by a round of tier management (trim, replenish, *)
(* collect), every query counts its results and may move cold memories up. *)
(* A promotion or demotion that touches the vector index is TWO            *)
(* transactions, and `cur` is the memory between them.                     *)
(***************************************************************************)
EXTENDS Integers, FiniteSets

CONSTANTS
    Memories,            \* the ids of memories
    HotCapacity,         \* HOT_CAPACITY
    WarmCapacity,        \* WARM_CAPACITY
    PromotionThreshold,  \* PROMOTION_THRESHOLD
    KeepCount,           \* evict() collects down to so many memories
    TopK,                \* the size of an answer
    SamplingInterval,    \* SAMPLING_INTERVAL
    MaxAccess,           \* bound: access counts are told apart up to this one
    None                 \* no memory

Tiers == {"hot", "warm", "cold"}
Rank == [t \in Tiers |-> CASE t = "hot" -> 2 [] t = "warm" -> 1 [] OTHER -> 0]
\* young: less than 30 days; stale: so old (two months) that only its accesses
\* keep its score at 0.5 or more
Ages == {"young", "stale"}
Row == [tier : Tiers, access : 0..MaxAccess, age : Ages,
        cooling : BOOLEAN,      \* demoted less than COOLDOWN_HOURS ago
        embedded : BOOLEAN]     \* the row carries its embedding

ASSUME StoreAssumption ==
    /\ IsFiniteSet(Memories)
    /\ HotCapacity \in Nat /\ WarmCapacity \in Nat /\ KeepCount \in Nat
    /\ PromotionThreshold \in Nat /\ TopK \in Nat /\ MaxAccess \in Nat
    /\ SamplingInterval \in Nat \ {0}
    /\ None \notin Memories /\ None \notin Row

VARIABLES
    rows,      \* the table `memories`, with its keyword and FTS rows
    vec,       \* the ids in vec_embeddings
    pc,        \* the phase of the operation under way, or "idle"
    todo,      \* the memories that phase has still to treat
    found,     \* the answer of the query under way
    cur,       \* the memory between the two transactions of a move, or None
    queries,   \* _tier_router_query_count
    managed    \* history: the hot tier has been trimmed and filled since the last add

vars == <<rows, vec, pc, todo, found, cur, queries, managed>>

Phases == {"idle", "trim", "trimming", "replenish", "replenishing", "gc", "evicting",
           "demoting", "raising", "counting", "sample", "sampling"}

Stored == {m \in Memories : rows[m] # None}
InTier(t) == {m \in Stored : rows[m].tier = t}
MinOf(a, b) == IF a <= b THEN a ELSE b
\* embed: a vector, or None when the service is out of reach.
EmbedAnswers == BOOLEAN
\* The n members of S, or all of them, that some order not told apart here takes first.
Sized(S, n) == {A \in SUBSET S : Cardinality(A) = MinOf(n, Cardinality(S))}
\* What `LIMIT n` may return of a set: its least elements under a strict order,
\* ties broken either way.
FirstOf(S, n, before(_, _)) ==
    {F \in Sized(S, n) : \A f \in F, g \in S \ F : ~before(g, f)}

Init ==
    /\ rows = [m \in Memories |-> None] /\ vec = {}
    /\ pc = "idle" /\ todo = {} /\ found = {} /\ cur = None
    /\ queries = 0 /\ managed = TRUE

-----------------------------------------------------------------------------
(* Writes of one transaction. *)

\* add: the row, its keywords, its FTS row and, as it is hot, its vector; then
\* _manage_tiers.  The stdio server embeds the content, if the embedder answers;
\* the command line never does.
Add(m, embedded) ==
    /\ pc = "idle" /\ m \notin Stored
    /\ rows' = [rows EXCEPT ![m] = [tier |-> "hot", access |-> 0, age |-> "young",
                                    cooling |-> FALSE, embedded |-> embedded]]
    /\ vec' = IF embedded THEN vec \cup {m} ELSE vec
    /\ pc' = "trim" /\ managed' = FALSE
    /\ UNCHANGED <<todo, found, cur, queries>>

Without(m) ==
    /\ rows' = [rows EXCEPT ![m] = None]
    /\ vec' = vec \ {m}

Delete(m) ==
    /\ pc = "idle" /\ m \in Stored /\ Without(m)
    /\ UNCHANGED <<pc, todo, found, cur, queries, managed>>

Clear ==
    /\ pc = "idle" /\ rows' = [m \in Memories |-> None] /\ vec' = {}
    /\ UNCHANGED <<pc, todo, found, cur, queries, managed>>

-----------------------------------------------------------------------------
(* Moves between the tiers. *)

\* The tier demote() or promote(..., "warm") moves the memories of a phase to.
Target == IF pc = "demoting" THEN "cold" ELSE "warm"
Moving == pc \in {"trimming", "demoting", "raising", "sampling"}

\* First transaction of a move away from hot: the vector goes.
DropVector(m) ==
    /\ Moving /\ cur = None /\ m \in todo /\ rows[m].tier = "hot"
    /\ vec' = vec \ {m} /\ cur' = m
    /\ UNCHANGED <<rows, pc, todo, found, queries, managed>>

\* Mutant: the tier is set, and only then the vector removed.
SetTier_First(m) ==
    /\ Moving /\ m \in todo /\ cur = None
    /\ rows' = [rows EXCEPT ![m].tier = Target,
                            ![m].cooling = @ \/ pc \in {"trimming", "demoting"}]
    /\ todo' = todo \ {m} /\ cur' = None
    /\ UNCHANGED <<vec, pc, found, queries, managed>>

\* The transaction that sets the tier; a demotion also stamps last_demoted_at.
SetTier(m) ==
    /\ Moving /\ m \in todo
    /\ cur = m \/ (cur = None /\ rows[m].tier # "hot")
    /\ rows' = [rows EXCEPT ![m].tier = Target,
                            ![m].cooling = @ \/ pc \in {"trimming", "demoting"}]
    /\ todo' = todo \ {m} /\ cur' = None
    /\ UNCHANGED <<vec, pc, found, queries, managed>>

\* Mutant: the memory is hot, and nothing is left to be done.
RaiseToHot_Unindexed(m, answers) ==
    /\ pc = "replenishing" /\ cur = None /\ m \in todo
    /\ rows' = [rows EXCEPT ![m].tier = "hot", ![m].embedded = @ \/ answers]
    /\ cur' = None /\ todo' = todo \ {m}
    /\ UNCHANGED <<vec, pc, found, queries, managed>>

\* promote(m, "hot"): without an embedding the embedder is asked for one, and
\* the memory stays where it is if there is no answer ...
RaiseToHot(m, answers) ==
    /\ pc = "replenishing" /\ cur = None /\ m \in todo
    /\ IF rows[m].embedded \/ answers
       THEN /\ rows' = [rows EXCEPT ![m].tier = "hot", ![m].embedded = TRUE]
            /\ cur' = m /\ todo' = todo
       ELSE todo' = todo \ {m} /\ UNCHANGED <<rows, cur>>
    /\ UNCHANGED <<vec, pc, found, queries, managed>>

\* ... and its vector comes in a second transaction.
InsertVector(m) ==
    /\ pc = "replenishing" /\ cur = m
    /\ vec' = vec \cup {m}
    /\ cur' = None /\ todo' = todo \ {m}
    /\ UNCHANGED <<rows, pc, found, queries, managed>>

\* demote(m, "cold") of a caller of the library.
DemoteToCold(m) ==
    /\ pc = "idle" /\ m \in Stored
    /\ pc' = "demoting" /\ todo' = {m}
    /\ UNCHANGED <<rows, vec, found, cur, queries, managed>>

-----------------------------------------------------------------------------
(* _manage_tiers, after a write: trim_hot, replenish_hot, _gc_if_needed. *)

\* Mutant: the memory just added is not counted.
Excess_LastUncounted == Cardinality(InTier("hot")) - HotCapacity - 1

Excess == Cardinality(InTier("hot")) - HotCapacity
LessUsed(m, n) == \/ rows[m].access < rows[n].access
                  \/ rows[m].access = rows[n].access
                     /\ rows[m].age = "stale" /\ rows[n].age = "young"

SelectTrim ==
    /\ pc = "trim"
    /\ IF Excess <= 0 THEN todo' = {}
       ELSE todo' \in FirstOf(InTier("hot"), Excess, LessUsed)
    /\ pc' = "trimming"
    /\ UNCHANGED <<rows, vec, found, cur, queries, managed>>

\* LIMIT applies before the cooldown is looked at.
Wanted == {m \in InTier("warm") : rows[m].access >= PromotionThreshold}
MoreUsed(m, n) == LessUsed(n, m)
\* Mutant: the cooldown is not looked at.
Rested_Always(m) == TRUE

Rested(m) == ~rows[m].cooling

SelectReplenish ==
    /\ pc = "replenish"
    /\ IF Excess >= 0 THEN todo' = {}
       ELSE \E W \in FirstOf(Wanted, 0 - Excess, MoreUsed) :
                todo' = {m \in W : Rested(m)}
    /\ pc' = "replenishing"
    /\ UNCHANGED <<rows, vec, found, cur, queries, managed>>

\* evict: young warm memories are protected; of the others, in the order of
\* their scores, the list is cut to len(candidates) - target_count, and those
\* of it with a low score are deleted.
Candidates == {m \in InTier("warm") \cup InTier("cold") :
                   ~(rows[m].tier = "warm" /\ rows[m].age = "young")}
LowScore == {m \in Candidates : rows[m].age = "stale" /\ rows[m].access = 0}
AboveKeep == IF Cardinality(Stored) > KeepCount THEN Cardinality(Stored) - KeepCount ELSE 0

SelectEvict ==
    LET cut == Cardinality(Candidates) - AboveKeep
        n == IF cut < 0 THEN 0 ELSE MinOf(cut, Cardinality(LowScore)) IN
    todo' \in Sized(LowScore, n)

\* _gc_if_needed: a collection, if the file has reached 80 MB.
Collect ==
    /\ pc = "gc"
    /\ SelectEvict \/ todo' = {}
    /\ pc' = "evicting" /\ managed' = TRUE
    /\ UNCHANGED <<rows, vec, found, cur, queries>>

\* `gc` of a terminal or of the stdio server.
CollectNow ==
    /\ pc = "idle" /\ SelectEvict /\ pc' = "evicting"
    /\ UNCHANGED <<rows, vec, found, cur, queries, managed>>

EvictOne(m) ==
    /\ pc = "evicting" /\ m \in todo
    /\ Without(m) /\ todo' = todo \ {m}
    /\ UNCHANGED <<pc, found, cur, queries, managed>>

-----------------------------------------------------------------------------
(* retrieve_tiered. *)

Embedded == {m \in Stored : rows[m].embedded}

\* What the vector index answers: it knows no tiers.
AnnSearch(t, embeds) == IF t = "hot" /\ embeds THEN vec \cap Stored ELSE {}
\* What the keyword and the full-text search may answer: both join the rows of
\* the tier.
TextSearch(t) == InTier(t)
\* The three paths of retrieve_relevant together: what matches, cut to the n best.
ByPaths(t, n, embeds) == {A \in SUBSET (TextSearch(t) \cup AnnSearch(t, embeds)) :
                              A # {} /\ Cardinality(A) <= n}
\* _rank_by_embedding: the nearest of the given memories, or just the first of
\* them when the query, or every memory, is without a vector.
RankByEmbedding(n, embeds) ==
    Sized(IF embeds /\ Embedded # {} THEN Embedded ELSE Stored, n)
\* retrieve_relevant for one tier: when no path finds anything it ranks get_all,
\* that is the memories of EVERY tier.
Relevant(t, n, embeds) ==
    IF InTier(t) = {} \/ n = 0 THEN {{}}
    ELSE ByPaths(t, n, embeds) \cup RankByEmbedding(n, embeds)

\* Hot, then warm, then cold memories, until there are TopK; `embeds`: the
\* embedder answers for the query.  Those that only the cold search finds are
\* moved up, as far as warm has room.
Recall(embeds) ==
    /\ pc = "idle" /\ Stored # {}
    /\ \E hot \in Relevant("hot", TopK, embeds) :
       \E warm \in Relevant("warm", TopK - Cardinality(hot), embeds) :
       \E cold \in Relevant("cold", TopK - Cardinality(hot \cup warm), embeds) :
          LET fresh == {m \in cold \ (hot \cup warm) : Rested(m)}
              room == WarmCapacity - Cardinality(InTier("warm")) IN
          /\ found' = hot \cup warm \cup cold
          /\ todo' \in Sized(fresh, IF room <= 0 THEN 0 ELSE room)
    /\ pc' = "raising"
    /\ UNCHANGED <<rows, vec, cur, queries, managed>>

\* increment_access, one transaction for each result.
CountAccess(m) ==
    /\ pc = "counting" /\ m \in found
    /\ rows' = IF m \in Stored
               THEN [rows EXCEPT ![m].access = MinOf(@ + 1, MaxAccess)] ELSE rows
    /\ found' = found \ {m}
    /\ UNCHANGED <<vec, pc, todo, cur, queries, managed>>

\* Mutant: the count of queries is never reset.
Sample_KeepsCounting ==
    /\ pc = "sample"
    /\ queries' = queries + 1
    /\ todo' \in IF queries + 1 < SamplingInterval THEN {{}}
                 ELSE {S \in SUBSET {m \in InTier("cold") : Rested(m)} : Cardinality(S) <= 2}
    /\ pc' = "sampling"
    /\ UNCHANGED <<rows, vec, found, cur, managed>>

\* sample_cold_for_promotion, at every SamplingInterval-th query: at most two
\* cold memories are drawn, and those that share keywords with it are moved up.
Sample ==
    /\ pc = "sample"
    /\ IF queries + 1 < SamplingInterval
       THEN queries' = queries + 1 /\ todo' = {}
       ELSE /\ queries' = 0
            /\ todo' \in {S \in SUBSET {m \in InTier("cold") : Rested(m)} :
                              Cardinality(S) <= 2}
    /\ pc' = "sampling"
    /\ UNCHANGED <<rows, vec, found, cur, managed>>

-----------------------------------------------------------------------------
\* A phase whose memories have been treated gives way to the next.
NextPhase ==
    /\ cur = None
    /\ CASE pc = "counting" -> found = {}
         [] pc \in {"trimming", "replenishing", "evicting", "demoting",
                    "raising", "sampling"} -> todo = {}
         [] OTHER -> FALSE
    /\ pc' = CASE pc = "trimming" -> "replenish" [] pc = "replenishing" -> "gc"
               [] pc = "raising" -> "counting" [] pc = "counting" -> "sample"
               [] OTHER -> "idle"
    /\ UNCHANGED <<rows, vec, todo, found, cur, queries, managed>>

\* The process is killed and started again: what it held in memory is gone.
Kill ==
    /\ pc' = "idle" /\ todo' = {} /\ found' = {} /\ cur' = None /\ queries' = 0
    /\ UNCHANGED <<rows, vec, managed>>

\* A transaction fails, as when the database is locked for too long or a vector does
\* not fit: the rest of the operation is given up, and the server goes on.
Raises ==
    /\ pc # "idle"
    /\ pc' = "idle" /\ todo' = {} /\ found' = {} /\ cur' = None
    /\ UNCHANGED <<rows, vec, queries, managed>>

\* Time passes: a cooldown ends, a memory grows old.  It does so between two
\* operations: none reads the same memory's stamp twice, so a moment that falls
\* within one might as well have come before it or after it.
CoolDown(m) ==
    /\ pc = "idle" /\ m \in Stored /\ rows[m].cooling
    /\ rows' = [rows EXCEPT ![m].cooling = FALSE]
    /\ UNCHANGED <<vec, pc, todo, found, cur, queries, managed>>

GrowOld(m) ==
    /\ pc = "idle" /\ m \in Stored /\ rows[m].age = "young"
    /\ rows' = [rows EXCEPT ![m].age = "stale"]
    /\ UNCHANGED <<vec, pc, todo, found, cur, queries, managed>>

Step(m) ==
    \/ DropVector(m) \/ SetTier(m) \/ InsertVector(m)
    \/ \E answers \in EmbedAnswers : RaiseToHot(m, answers)
    \/ EvictOne(m) \/ CountAccess(m)

Next ==
    \/ \E m \in Memories : \/ \E embedded \in EmbedAnswers : Add(m, embedded)
                           \/ Delete(m) \/ DemoteToCold(m) \/ Step(m)
                           \/ CoolDown(m) \/ GrowOld(m)
    \/ Clear \/ SelectTrim \/ SelectReplenish \/ Collect \/ CollectNow
    \/ (\E embeds \in EmbedAnswers : Recall(embeds)) \/ Sample \/ NextPhase
    \/ Raises \/ Kill

Spec == Init /\ [][Next]_vars

-----------------------------------------------------------------------------
TypeOK ==
    /\ rows \in [Memories -> Row \cup {None}]
    /\ vec \subseteq Memories
    /\ pc \in Phases /\ todo \subseteq Memories /\ found \subseteq Memories
    /\ cur \in Memories \cup {None} /\ queries \in 0..(SamplingInterval - 1)
    /\ managed \in BOOLEAN

\* The vector index holds hot memories only, also between the transactions of a
\* move and after a kill: demote() and promote(..., "warm") remove the vector
\* BEFORE they change the tier, promote(..., "hot") inserts it AFTER.  Were it
\* otherwise, the hot search would answer with memories of other tiers and the
\* next insertion of that vector would collide with the one left behind.
VectorsOnlyHot == vec \subseteq InTier("hot")

\* Once _manage_tiers has trimmed after an add, the hot tier stays within
\* HOT_CAPACITY, whatever replenish_hot, queries, collections and kills do, until
\* the next add.
HotWithinCapacity ==
    managed \/ pc \in {"replenish", "replenishing", "gc"}
        => Cardinality(InTier("hot")) <= HotCapacity

\* Hot memories with an embedding that the vector search does not find, but for
\* the one that is being moved.
Unfindable == {m \in InTier("hot") \ {cur} : rows[m].embedded /\ m \notin vec}

\* Only a kill, or an exception such as _insert_vec_embedding's, in the middle of a
\* move can make a hot memory unfindable, and it does so to no memory but the one
\* that is being moved: a move that is carried through leaves tier and vector index
\* agreeing.
HotFindable ==
    [][Unfindable' \subseteq IF Kill \/ Raises THEN Unfindable \cup {cur} ELSE Unfindable]_vars

\* For COOLDOWN_HOURS after a demotion no path moves a memory up again: neither
\* replenish_hot, nor a query, nor the sampling of cold memories.
CoolingStaysDown ==
    [][\A m \in Memories :
          rows[m] # None /\ rows'[m] # None /\ Rank[rows'[m].tier] > Rank[rows[m].tier]
              => ~rows[m].cooling]_vars

\* A query moves no memory down: "Move a memory up one tier" (promote, store.py).
RecallOnlyPromotes ==
    [][\A m \in Memories :
          pc = "raising" /\ rows[m] # None /\ rows'[m] # None
              => Rank[rows'[m].tier] >= Rank[rows[m].tier]]_vars

\* "evict down to 3000" (evict, store.py): a collection deletes a memory only
\* while there are more than that.
EvictionKeepsFloor ==
    [][\A m \in Memories :
          pc = "evicting" /\ rows[m] # None /\ rows'[m] = None
              => Cardinality(Stored) > KeepCount]_vars

=============================================================================
