-------------------------- MODULE TieredStore_proofs --------------------------
(***************************************************************************)
(* Theorems about the legacy tiered store, for any number of memories and  *)
(* any capacities.                                                         *)
(***************************************************************************)
EXTENDS TieredStore, FiniteSetTheorems, TLAPS

-----------------------------------------------------------------------------
(* The inductive invariant. *)

\* The phases that treat the memories of `todo` one by one.
Treating == {"trimming", "replenishing", "evicting", "demoting", "raising", "sampling"}

\* What a phase knows of the memories it has still to treat: nothing has happened
\* to them since they were selected.
Shape ==
    /\ todo \subseteq Stored
    /\ pc \notin Treating => todo = {} /\ cur = None
    /\ cur # None => cur \in todo /\ pc # "evicting"
    /\ Moving /\ cur # None => cur \notin vec
    /\ pc = "replenishing" =>
         \A m \in todo : rows[m].tier = IF m = cur THEN "hot" ELSE "warm"
    /\ pc = "trimming" => todo \subseteq InTier("hot")
    /\ pc \in {"replenishing", "raising", "sampling"} => \A m \in todo : Rested(m)

\* The hot tier against its capacity, through the phases of _manage_tiers.
Budget ==
    /\ HotWithinCapacity
    /\ pc = "trimming" => Cardinality(InTier("hot")) - Cardinality(todo) <= HotCapacity
    /\ pc = "replenishing" =>
         Cardinality(InTier("hot")) + Cardinality(todo \ {cur}) <= HotCapacity

Inv == TypeOK /\ VectorsOnlyHot /\ Shape

-----------------------------------------------------------------------------
(* Type correctness. *)

LEMMA TypeInit == Init => TypeOK
BY StoreAssumption DEF Init, TypeOK, Phases

\* A row that is changed in one field is still a row.
LEMMA RowTyped ==
    ASSUME TypeOK, NEW m \in Stored
    PROVE  /\ rows[m] \in Row
           /\ \A t \in Tiers, c \in BOOLEAN :
                [rows EXCEPT ![m].tier = t, ![m].cooling = c] \in [Memories -> Row \cup {None}]
           /\ \A t \in Tiers :
                [rows EXCEPT ![m].tier = t, ![m].embedded = TRUE] \in [Memories -> Row \cup {None}]
           /\ \A n \in 0..MaxAccess :
                [rows EXCEPT ![m].access = n] \in [Memories -> Row \cup {None}]
           /\ [rows EXCEPT ![m].cooling = FALSE] \in [Memories -> Row \cup {None}]
           /\ \A g \in Ages : [rows EXCEPT ![m].age = g] \in [Memories -> Row \cup {None}]
BY DEF TypeOK, Stored, Row

LEMMA TypeStep == TypeOK /\ todo \subseteq Stored /\ [Next]_vars => TypeOK'
<1> SUFFICES ASSUME TypeOK, todo \subseteq Stored, [Next]_vars PROVE TypeOK'
  OBVIOUS
<1> USE StoreAssumption
<1>1. ASSUME NEW m \in Memories, NEW embedded \in BOOLEAN, Add(m, embedded) PROVE TypeOK'
  <2>1. [tier |-> "hot", access |-> 0, age |-> "young",
         cooling |-> FALSE, embedded |-> embedded] \in Row
    BY DEF Row, Tiers, Ages
  <2>2. rows' \in [Memories -> Row \cup {None}]
    BY <1>1, <2>1 DEF Add, TypeOK
  <2>3. QED
    BY <1>1, <2>2 DEF Add, TypeOK, Phases
<1>2. ASSUME NEW m \in Memories, Delete(m) \/ EvictOne(m) PROVE TypeOK'
  BY <1>2 DEF Delete, EvictOne, Without, TypeOK
<1>3. ASSUME NEW m \in Memories, DemoteToCold(m) \/ DropVector(m) \/ InsertVector(m) PROVE TypeOK'
  BY <1>3 DEF DemoteToCold, DropVector, InsertVector, TypeOK, Phases
<1>4. ASSUME NEW m \in Memories, SetTier(m) PROVE TypeOK'
  <2>1. m \in Stored /\ Target \in Tiers
    BY <1>4 DEF SetTier, Target, Tiers
  <2>2. (rows[m].cooling \/ pc \in {"trimming", "demoting"}) \in BOOLEAN
    OBVIOUS
  <2>3. rows' \in [Memories -> Row \cup {None}]
    BY <1>4, <2>1, <2>2, RowTyped DEF SetTier
  <2>4. QED
    BY <1>4, <2>3 DEF SetTier, TypeOK
<1>5. ASSUME NEW m \in Memories, NEW answers \in BOOLEAN, RaiseToHot(m, answers) PROVE TypeOK'
  <2>1. m \in Stored /\ "hot" \in Tiers
    BY <1>5 DEF RaiseToHot, Tiers
  <2>2. [rows EXCEPT ![m].tier = "hot", ![m].embedded = TRUE] \in [Memories -> Row \cup {None}]
    BY <2>1, RowTyped
  <2>3. rows' = rows \/ rows' = [rows EXCEPT ![m].tier = "hot", ![m].embedded = TRUE]
    BY <1>5, Zenon DEF RaiseToHot
  <2>4. rows' \in [Memories -> Row \cup {None}]
    BY <2>2, <2>3 DEF TypeOK
  <2>5. QED
    BY <1>5, <2>4 DEF RaiseToHot, TypeOK
<1>6. ASSUME NEW m \in Memories, CountAccess(m) PROVE TypeOK'
  <2>1. CASE m \in Stored
    <3>1. rows[m].access \in 0..MaxAccess
      BY <2>1, RowTyped DEF Row
    <3>2. MinOf(rows[m].access + 1, MaxAccess) \in 0..MaxAccess
      BY <3>1 DEF MinOf
    <3>3. rows' \in [Memories -> Row \cup {None}]
      BY <1>6, <2>1, <3>2, RowTyped DEF CountAccess
    <3>4. QED
      BY <1>6, <3>3 DEF CountAccess, TypeOK
  <2>2. CASE m \notin Stored
    BY <1>6, <2>2 DEF CountAccess, TypeOK
  <2>3. QED
    BY <2>1, <2>2
<1>7. ASSUME NEW m \in Memories, CoolDown(m) \/ GrowOld(m) PROVE TypeOK'
  <2>1. m \in Stored /\ rows[m] \in Row
    BY <1>7, RowTyped DEF CoolDown, GrowOld
  <2>2. rows' \in [Memories -> Row \cup {None}]
    <3>1. CASE CoolDown(m)
      <4>1. rows' = [rows EXCEPT ![m].cooling = FALSE]
        BY <3>1, Zenon DEF CoolDown
      <4>2. QED
        BY <2>1, <4>1, RowTyped
    <3>2. CASE GrowOld(m)
      <4>1. rows' = [rows EXCEPT ![m].age = "stale"] /\ "stale" \in Ages
        BY <3>2 DEF GrowOld, Ages
      <4>2. QED
        BY <2>1, <4>1, RowTyped
    <3>3. QED
      BY <1>7, <3>1, <3>2
  <2>3. QED
    BY <1>7, <2>2 DEF CoolDown, GrowOld, TypeOK
<1>8. ASSUME Clear PROVE TypeOK'
  BY <1>8 DEF Clear, TypeOK
<1>9. ASSUME SelectTrim \/ SelectReplenish \/ Collect \/ CollectNow PROVE TypeOK'
  BY <1>9 DEF SelectTrim, SelectReplenish, Collect, CollectNow, SelectEvict, FirstOf, Sized,
              LowScore, Candidates, InTier, Stored, Wanted, TypeOK, Phases
<1>10. ASSUME NEW embeds \in EmbedAnswers, Recall(embeds) PROVE TypeOK'
  <2>1. \A t, n : \A S \in Relevant(t, n, embeds) : S \subseteq Memories
    BY DEF Relevant, ByPaths, RankByEmbedding, Sized, Embedded, AnnSearch, TextSearch, InTier, Stored
  <2>2. found' \subseteq Memories /\ todo' \subseteq Memories
    BY <1>10, <2>1 DEF Recall, Sized
  <2>3. QED
    BY <1>10, <2>2 DEF Recall, TypeOK, Phases
<1>11. ASSUME Sample PROVE TypeOK'
  BY <1>11 DEF Sample, InTier, Stored, TypeOK, Phases
<1>12. ASSUME NextPhase PROVE TypeOK'
  BY <1>12 DEF NextPhase, TypeOK, Phases
<1>13. ASSUME Raises \/ Kill PROVE TypeOK'
  BY <1>13 DEF Raises, Kill, TypeOK, Phases
<1>14. ASSUME UNCHANGED vars PROVE TypeOK'
  BY <1>14 DEF vars, TypeOK
<1>15. QED
  BY <1>1, <1>2, <1>3, <1>4, <1>5, <1>6, <1>7, <1>8, <1>9, <1>10, <1>11, <1>12, <1>13, <1>14
     DEF Next, Step, EmbedAnswers

-----------------------------------------------------------------------------
(* What a change of one row does to the tiers. *)

LEMMA TiersAfter ==
    ASSUME TypeOK, NEW m \in Memories, NEW r \in Row \cup {None},
           rows' = [rows EXCEPT ![m] = r]
    PROVE  /\ Stored' = IF r = None THEN Stored \ {m} ELSE Stored \cup {m}
           /\ \A t : InTier(t)' = IF r # None /\ r.tier = t THEN InTier(t) \cup {m}
                                 ELSE InTier(t) \ {m}
           /\ \A n \in Memories \ {m} : rows'[n] = rows[n]
           /\ rows'[m] = r
BY DEF TypeOK, Stored, InTier

\* Every update of a field is such a change, and leaves the other fields alone.
LEMMA FieldUpdate ==
    ASSUME TypeOK, NEW m \in Stored
    PROVE  /\ \A t \in Tiers, c \in BOOLEAN :
                rows' = [rows EXCEPT ![m].tier = t, ![m].cooling = c]
                  => /\ rows' = [rows EXCEPT ![m] = rows'[m]] /\ rows'[m] \in Row
                     /\ rows'[m].tier = t /\ rows'[m].cooling = c
                     /\ rows'[m].embedded = rows[m].embedded
           /\ \A t \in Tiers :
                rows' = [rows EXCEPT ![m].tier = t, ![m].embedded = TRUE]
                  => /\ rows' = [rows EXCEPT ![m] = rows'[m]] /\ rows'[m] \in Row
                     /\ rows'[m].tier = t /\ rows'[m].cooling = rows[m].cooling
           /\ \A n \in 0..MaxAccess :
                rows' = [rows EXCEPT ![m].access = n]
                  => /\ rows' = [rows EXCEPT ![m] = rows'[m]] /\ rows'[m] \in Row
                     /\ rows'[m].tier = rows[m].tier /\ rows'[m].cooling = rows[m].cooling
                     /\ rows'[m].embedded = rows[m].embedded
           /\ rows' = [rows EXCEPT ![m].cooling = FALSE]
                  => /\ rows' = [rows EXCEPT ![m] = rows'[m]] /\ rows'[m] \in Row
                     /\ rows'[m].tier = rows[m].tier /\ rows'[m].embedded = rows[m].embedded
           /\ \A g \in Ages :
                rows' = [rows EXCEPT ![m].age = g]
                  => /\ rows' = [rows EXCEPT ![m] = rows'[m]] /\ rows'[m] \in Row
                     /\ rows'[m].tier = rows[m].tier /\ rows'[m].embedded = rows[m].embedded
<1>0. m \in Memories /\ rows[m] # None /\ rows[m] \in Row
  BY RowTyped DEF Stored
<1>1. ASSUME NEW t \in Tiers, NEW c \in BOOLEAN,
             rows' = [rows EXCEPT ![m].tier = t, ![m].cooling = c]
      PROVE  /\ rows' = [rows EXCEPT ![m] = rows'[m]] /\ rows'[m] \in Row
             /\ rows'[m].tier = t /\ rows'[m].cooling = c
             /\ rows'[m].embedded = rows[m].embedded
  BY <1>0, <1>1 DEF TypeOK, Row
<1>2. ASSUME NEW t \in Tiers, rows' = [rows EXCEPT ![m].tier = t, ![m].embedded = TRUE]
      PROVE  /\ rows' = [rows EXCEPT ![m] = rows'[m]] /\ rows'[m] \in Row
             /\ rows'[m].tier = t /\ rows'[m].cooling = rows[m].cooling
  BY <1>0, <1>2 DEF TypeOK, Row
<1>3. ASSUME NEW n \in 0..MaxAccess, rows' = [rows EXCEPT ![m].access = n]
      PROVE  /\ rows' = [rows EXCEPT ![m] = rows'[m]] /\ rows'[m] \in Row
             /\ rows'[m].tier = rows[m].tier /\ rows'[m].cooling = rows[m].cooling
             /\ rows'[m].embedded = rows[m].embedded
  BY <1>0, <1>3 DEF TypeOK, Row
<1>4. ASSUME rows' = [rows EXCEPT ![m].cooling = FALSE]
      PROVE  /\ rows' = [rows EXCEPT ![m] = rows'[m]] /\ rows'[m] \in Row
             /\ rows'[m].tier = rows[m].tier /\ rows'[m].embedded = rows[m].embedded
  BY <1>0, <1>4 DEF TypeOK, Row
<1>5. ASSUME NEW g \in Ages, rows' = [rows EXCEPT ![m].age = g]
      PROVE  /\ rows' = [rows EXCEPT ![m] = rows'[m]] /\ rows'[m] \in Row
             /\ rows'[m].tier = rows[m].tier /\ rows'[m].embedded = rows[m].embedded
  BY <1>0, <1>5 DEF TypeOK, Row
<1>6. QED
  BY <1>1, <1>2, <1>3, <1>4, <1>5

\* CountAccess, CoolDown and GrowOld move no memory.
LEMMA SameTiers ==
    ASSUME TypeOK, NEW m \in Memories, CountAccess(m) \/ CoolDown(m) \/ GrowOld(m)
    PROVE  /\ Stored' = Stored
           /\ \A t : InTier(t)' = InTier(t)
           /\ \A n \in Stored : rows'[n].tier = rows[n].tier
<1>1. CASE rows' = rows
  BY <1>1 DEF Stored, InTier
<1>2. CASE m \in Stored /\ rows' # rows
  <2>1. rows[m] \in Row /\ rows[m].access \in 0..MaxAccess
    BY <1>2, RowTyped DEF Row
  <2>2. MinOf(rows[m].access + 1, MaxAccess) \in 0..MaxAccess
    BY <2>1, StoreAssumption DEF MinOf
  <2>3. /\ rows' = [rows EXCEPT ![m] = rows'[m]] /\ rows'[m] \in Row
        /\ rows'[m].tier = rows[m].tier
    <3>1. CASE CountAccess(m)
      <4>1. rows' = [rows EXCEPT ![m].access = MinOf(rows[m].access + 1, MaxAccess)]
        BY <1>2, <3>1 DEF CountAccess
      <4>2. QED
        BY <1>2, <2>2, <4>1, FieldUpdate
    <3>2. CASE CoolDown(m)
      <4>1. rows' = [rows EXCEPT ![m].cooling = FALSE]
        BY <3>2, Zenon DEF CoolDown
      <4>2. QED
        BY <1>2, <4>1, FieldUpdate
    <3>3. CASE GrowOld(m)
      <4>1. rows' = [rows EXCEPT ![m].age = "stale"] /\ "stale" \in Ages
        BY <3>3 DEF GrowOld, Ages
      <4>2. QED
        BY <1>2, <4>1, FieldUpdate
    <3>4. QED
      BY <3>1, <3>2, <3>3
  <2>4. rows'[m] # None /\ rows[m] # None
    BY <2>1, <2>3, StoreAssumption
  <2>5. \A n \in Memories \ {m} : rows'[n] = rows[n]
    BY <2>3, TiersAfter
  <2>6. QED
    BY <2>3, <2>4, <2>5 DEF Stored, InTier
<1>3. QED
  BY <1>1, <1>2 DEF CountAccess, CoolDown, GrowOld

-----------------------------------------------------------------------------
(* The vector index and the memories under treatment. *)

LEMMA ShapeInit == Init => VectorsOnlyHot /\ Shape
BY DEF Init, VectorsOnlyHot, Shape, Treating, Moving, InTier, Stored, Rested

\* A row that is made, and a memory removed, between operations or by a collection.
LEMMA ShapeAdd ==
    ASSUME Inv, NEW m \in Memories, NEW embedded \in BOOLEAN, Add(m, embedded)
    PROVE  VectorsOnlyHot' /\ Shape'
<1> DEFINE r == [tier |-> "hot", access |-> 0, age |-> "young",
                 cooling |-> FALSE, embedded |-> embedded]
<1>1. r \in Row /\ r # None /\ rows' = [rows EXCEPT ![m] = r]
  <2>1. r \in Row
    BY StoreAssumption DEF Row, Tiers, Ages
  <2>2. rows' = [rows EXCEPT ![m] = r]
    BY DEF Add
  <2>3. QED
    BY <2>1, <2>2, StoreAssumption
<1> HIDE DEF r
<1>2. InTier("hot")' = InTier("hot") \cup {m}
  <2>1. r.tier = "hot"
    BY DEF r
  <2>2. TypeOK /\ r \in Row \cup {None}
    BY <1>1 DEF Inv
  <2>3. \A t : InTier(t)' = IF r # None /\ r.tier = t THEN InTier(t) \cup {m}
                            ELSE InTier(t) \ {m}
    BY <1>1, <2>2, TiersAfter
  <2>4. QED
    BY <1>1, <2>1, <2>3
<1>3. QED
  BY <1>2 DEF Add, Inv, VectorsOnlyHot, Shape, Treating, Moving

LEMMA ShapeRemove ==
    ASSUME Inv, NEW m \in Memories, Delete(m) \/ EvictOne(m)
    PROVE  VectorsOnlyHot' /\ Shape'
<1>1. rows' = [rows EXCEPT ![m] = None] /\ vec' = vec \ {m}
  BY DEF Delete, EvictOne, Without
<1>2. Stored' = Stored \ {m} /\ InTier("hot")' = InTier("hot") \ {m}
  BY <1>1, TiersAfter DEF Inv
<1>3. VectorsOnlyHot'
  BY <1>1, <1>2 DEF Inv, VectorsOnlyHot
<1>4. /\ pc \in {"idle", "evicting"} /\ pc' = pc /\ cur' = cur /\ cur = None
      /\ pc = "idle" => todo = {} /\ todo' = {}
      /\ pc = "evicting" => todo' = todo \ {m}
  BY DEF Delete, EvictOne, Inv, Shape, Treating
<1>5. QED
  BY <1>2, <1>3, <1>4 DEF Inv, Shape, Moving, Treating

\* The two transactions of a move away from the hot tier, and those towards it.
LEMMA ShapeDropVector ==
    ASSUME Inv, NEW m \in Memories, DropVector(m)
    PROVE  VectorsOnlyHot' /\ Shape'
BY StoreAssumption
   DEF DropVector, Inv, VectorsOnlyHot, Shape, Treating, Moving, InTier, Stored, Rested

LEMMA ShapeSetTier ==
    ASSUME Inv, NEW m \in Memories, SetTier(m)
    PROVE  VectorsOnlyHot' /\ Shape'
<1>1. m \in Stored /\ Moving /\ m \in todo /\ pc' = pc /\ vec' = vec
      /\ todo' = todo \ {m} /\ cur' = None /\ Target \in {"cold", "warm"}
  BY DEF SetTier, Inv, Shape, Target
<1> DEFINE r == rows'[m]
           c == rows[m].cooling \/ pc \in {"trimming", "demoting"}
<1>2. rows' = [rows EXCEPT ![m] = r] /\ r \in Row /\ r.tier = Target
  <2>1. rows' = [rows EXCEPT ![m].tier = Target, ![m].cooling = c]
    BY DEF SetTier
  <2>2. Target \in Tiers /\ c \in BOOLEAN
    BY <1>1 DEF Tiers
  <2>3. QED
    BY <1>1, <2>1, <2>2, FieldUpdate DEF Inv
<1>3. /\ r # None /\ Stored' = Stored
      /\ InTier("hot")' = InTier("hot") \ {m}
      /\ \A n \in Memories \ {m} : rows'[n] = rows[n]
  <2>1. m \in Memories /\ r # None
    BY <1>2, StoreAssumption
  <2>2. Stored' = Stored \cup {m}
    BY <1>2, <2>1, TiersAfter DEF Inv
  <2>3. InTier("hot")' = InTier("hot") \ {m}
    BY <1>1, <1>2, <2>1, TiersAfter DEF Inv
  <2>4. \A n \in Memories \ {m} : rows'[n] = rows[n]
    BY <1>2, <2>1, TiersAfter DEF Inv
  <2>5. QED
    BY <1>1, <2>1, <2>2, <2>3, <2>4
<1>4. m \notin vec
  <2>1. CASE cur = m
    BY <1>1, <2>1, StoreAssumption DEF Inv, Shape, Stored
  <2>2. CASE rows[m].tier # "hot"
    BY <2>2 DEF Inv, VectorsOnlyHot, InTier
  <2>3. QED
    BY <2>1, <2>2 DEF SetTier
<1>5. VectorsOnlyHot'
  BY <1>1, <1>3, <1>4 DEF Inv, VectorsOnlyHot
<1>6. todo \subseteq Memories /\ \A n \in todo' : Rested(n)' = Rested(n)
  BY <1>1, <1>3 DEF Inv, TypeOK, Rested
<1>7. QED
  BY <1>1, <1>3, <1>5, <1>6 DEF Inv, Shape, Treating, Moving

LEMMA ShapeRaiseToHot ==
    ASSUME Inv, NEW m \in Memories, NEW answers \in BOOLEAN, RaiseToHot(m, answers)
    PROVE  VectorsOnlyHot' /\ Shape'
<1>1. pc = "replenishing" /\ pc' = pc /\ cur = None /\ m \in todo /\ vec' = vec /\ m \in Stored
  BY DEF RaiseToHot, Inv, Shape
<1>2. CASE rows[m].embedded \/ answers
  <2>1. cur' = m /\ todo' = todo
        /\ rows' = [rows EXCEPT ![m].tier = "hot", ![m].embedded = TRUE]
    BY <1>2, Zenon DEF RaiseToHot
  <2>2. /\ rows' = [rows EXCEPT ![m] = rows'[m]] /\ rows'[m] \in Row
        /\ rows'[m].tier = "hot" /\ rows'[m].cooling = rows[m].cooling
    BY <1>1, <2>1, FieldUpdate DEF Inv, Tiers
  <2>3. /\ rows'[m] # None /\ Stored' = Stored \cup {m}
        /\ InTier("hot")' = InTier("hot") \cup {m}
        /\ \A n \in Memories \ {m} : rows'[n] = rows[n]
    BY <2>2, TiersAfter, StoreAssumption DEF Inv
  <2>4. todo \subseteq Memories /\ \A n \in todo : Rested(n)' = Rested(n)
    BY <2>2, <2>3 DEF Inv, TypeOK, Rested
  <2>5. VectorsOnlyHot'
    BY <1>1, <2>3 DEF Inv, VectorsOnlyHot
  <2>6. m # None
    BY StoreAssumption
  <2>7. \A n \in todo : rows[n].tier = "warm"
    BY <1>1, StoreAssumption DEF Inv, Shape, TypeOK
  <2>8. QED
    BY <1>1, <2>1, <2>2, <2>3, <2>4, <2>5, <2>6, <2>7 DEF Inv, Shape, Treating, Moving
<1>3. CASE ~(rows[m].embedded \/ answers)
  <2>1. todo' = todo \ {m} /\ UNCHANGED <<rows, cur>>
    BY <1>3, Zenon DEF RaiseToHot
  <2>2. QED
    BY <1>1, <2>1 DEF Inv, VectorsOnlyHot, Shape, Treating, Moving, InTier, Stored, Rested
<1>4. QED
  BY <1>2, <1>3

LEMMA ShapeInsertVector ==
    ASSUME Inv, NEW m \in Memories, InsertVector(m)
    PROVE  VectorsOnlyHot' /\ Shape'
<1>1. pc = "replenishing" /\ cur = m /\ m # None /\ m \in todo /\ m \in Stored
      /\ rows[m].tier = "hot"
  BY StoreAssumption DEF InsertVector, Inv, Shape
<1>2. QED
  BY <1>1, StoreAssumption
     DEF InsertVector, Inv, TypeOK, VectorsOnlyHot, Shape, Treating, Moving, InTier, Stored, Rested

\* What only selects memories, goes on to another phase or forgets everything.
LEMMA ShapeSelect ==
    ASSUME Inv,
           \/ SelectTrim \/ SelectReplenish \/ Collect \/ CollectNow \/ Sample
           \/ \E m \in Memories : DemoteToCold(m)
           \/ \E embeds \in EmbedAnswers : Recall(embeds)
    PROVE  VectorsOnlyHot' /\ Shape'
<1>1. UNCHANGED <<rows, vec, cur>> /\ cur = None
  BY DEF SelectTrim, SelectReplenish, Collect, CollectNow, Sample, DemoteToCold, Recall, Inv, Shape,
         Treating
<1>2. VectorsOnlyHot'
  BY <1>1 DEF Inv, VectorsOnlyHot, InTier, Stored
<1>3. ASSUME pc' \in {"trimming", "replenishing", "evicting", "demoting", "raising", "sampling"},
             todo' \subseteq Stored,
             pc' = "trimming" => todo' \subseteq InTier("hot"),
             pc' = "replenishing" => todo' \subseteq InTier("warm"),
             pc' \in {"replenishing", "raising", "sampling"} => \A m \in todo' : Rested(m)
      PROVE  Shape'
  <2>1. \A m \in todo' : m # None
    BY <1>3, StoreAssumption DEF Stored
  <2>2. QED
    BY <1>1, <1>3, <2>1 DEF Shape, Treating, Moving, InTier, Stored, Rested
<1>4. CASE SelectTrim
  <2>1. pc' = "trimming" /\ todo' \subseteq InTier("hot")
    BY <1>4 DEF SelectTrim, FirstOf, Sized
  <2>2. QED
    BY <1>2, <1>3, <2>1 DEF InTier
<1>5. CASE SelectReplenish
  <2>1. pc' = "replenishing" /\ todo' \subseteq {m \in InTier("warm") : Rested(m)}
    BY <1>5 DEF SelectReplenish, FirstOf, Sized, Wanted
  <2>2. QED
    BY <1>2, <1>3, <2>1 DEF InTier
<1>6. CASE Collect \/ CollectNow
  <2>1. pc' = "evicting" /\ todo' \subseteq Stored
    BY <1>6 DEF Collect, CollectNow, SelectEvict, Sized, LowScore, Candidates, InTier
  <2>2. QED
    BY <1>2, <1>3, <2>1
<1>7. CASE Sample
  <2>1. pc' = "sampling" /\ todo' \subseteq {m \in InTier("cold") : Rested(m)}
    BY <1>7 DEF Sample
  <2>2. QED
    BY <1>2, <1>3, <2>1 DEF InTier
<1>8. CASE \E m \in Memories : DemoteToCold(m)
  <2>1. pc' = "demoting" /\ todo' \subseteq Stored
    BY <1>8 DEF DemoteToCold
  <2>2. QED
    BY <1>2, <1>3, <2>1
<1>9. ASSUME NEW embeds \in EmbedAnswers, Recall(embeds) PROVE Shape'
  <2>1. \A t, n : \A S \in Relevant(t, n, embeds) : S \subseteq Stored
    BY DEF Relevant, ByPaths, RankByEmbedding, Sized, Embedded, AnnSearch, TextSearch, InTier, Stored
  <2>2. pc' = "raising" /\ todo' \subseteq {m \in Stored : Rested(m)}
    BY <1>9, <2>1 DEF Recall, Sized
  <2>3. QED
    BY <1>3, <2>2
<1>10. QED
  BY <1>2, <1>4, <1>5, <1>6, <1>7, <1>8, <1>9

LEMMA ShapeOthers ==
    ASSUME Inv,
           \/ Clear \/ NextPhase \/ Raises \/ Kill \/ UNCHANGED vars
           \/ \E m \in Memories : CountAccess(m) \/ CoolDown(m) \/ GrowOld(m)
    PROVE  VectorsOnlyHot' /\ Shape'
<1>1. CASE Clear
  BY <1>1 DEF Clear, Inv, VectorsOnlyHot, Shape, Treating, Moving
<1>2. CASE NextPhase
  <2>1. pc' \notin Treating /\ cur = None /\ UNCHANGED <<rows, vec, cur, todo>>
    BY <1>2, Zenon DEF NextPhase, Treating
  <2>2. todo = {}
    BY <1>2, Zenon DEF NextPhase, Treating, Inv, Shape
  <2>3. QED
    BY <2>1, <2>2 DEF Inv, VectorsOnlyHot, Shape, Treating, Moving, InTier, Stored
<1>3. CASE Raises \/ Kill
  BY <1>3 DEF Raises, Kill, Inv, VectorsOnlyHot, Shape, Treating, Moving, InTier, Stored
<1>4. CASE UNCHANGED vars
  BY <1>4 DEF vars, Inv, VectorsOnlyHot, Shape, Treating, Moving, InTier, Stored, Rested
<1>5. ASSUME NEW m \in Memories, CountAccess(m) \/ CoolDown(m) \/ GrowOld(m)
      PROVE  VectorsOnlyHot' /\ Shape'
  <2>1. /\ Stored' = Stored /\ InTier("hot")' = InTier("hot")
        /\ UNCHANGED <<vec, pc, todo, cur>> /\ pc \in {"idle", "counting"}
    BY <1>5, SameTiers DEF Inv, CountAccess, CoolDown, GrowOld
  <2>2. todo = {} /\ cur = None
    BY <2>1 DEF Inv, Shape, Treating
  <2>3. QED
    BY <2>1, <2>2 DEF Inv, VectorsOnlyHot, Shape, Treating, Moving
<1>6. QED
  BY <1>1, <1>2, <1>3, <1>4, <1>5

LEMMA InvStep == Inv /\ [Next]_vars => Inv'
<1> SUFFICES ASSUME Inv, [Next]_vars PROVE Inv'
  OBVIOUS
<1>1. TypeOK'
  BY TypeStep DEF Inv, Shape
<1>2. VectorsOnlyHot' /\ Shape'
  BY ShapeAdd, ShapeRemove, ShapeDropVector, ShapeSetTier, ShapeRaiseToHot, ShapeInsertVector,
     ShapeSelect, ShapeOthers DEF Next, Step, EmbedAnswers
<1>3. QED
  BY <1>1, <1>2 DEF Inv

LEMMA InvHolds == Spec => []Inv
<1>1. Init => Inv
  BY TypeInit, ShapeInit DEF Inv
<1>2. QED
  BY <1>1, InvStep, PTL DEF Spec

\* Every state of the store is well typed.
THEOREM TypeCorrect == Spec => []TypeOK
<1>1. Inv => TypeOK
  BY DEF Inv
<1>2. QED
  BY <1>1, InvHolds, PTL

\* The vector index never holds a memory that is not hot, whatever move is under
\* way and wherever a kill cuts it.
THEOREM OnlyHotMemoriesIndexed == Spec => []VectorsOnlyHot
<1>1. Inv => VectorsOnlyHot
  BY DEF Inv
<1>2. QED
  BY <1>1, InvHolds, PTL

-----------------------------------------------------------------------------
(* Cooling memories are not moved up. *)

\* A memory moves up only by SetTier, from cold, or by RaiseToHot, from warm; both
\* treat only memories that had rested when they were selected.
LEMMA CoolingStep ==
    ASSUME Inv, [Next]_vars, NEW m \in Memories,
           rows[m] # None, rows'[m] # None, Rank[rows'[m].tier] > Rank[rows[m].tier]
    PROVE  ~rows[m].cooling
<1> DEFINE moved == rows'[m].tier # rows[m].tier
<1>0. moved /\ rows'[m] # rows[m] /\ m \in Stored
  <2>1. rows[m] \in Row
    BY DEF Inv, TypeOK
  <2>2. ~(Rank[rows[m].tier] > Rank[rows[m].tier])
    BY <2>1 DEF Row, Tiers, Rank
  <2>3. QED
    BY <2>2 DEF Stored
<1>1. ASSUME NEW n \in Memories, NEW embedded \in BOOLEAN, Add(n, embedded) PROVE FALSE
  BY <1>0, <1>1 DEF Add, Inv, TypeOK, Stored
<1>2. ASSUME NEW n \in Memories, Delete(n) \/ EvictOne(n) PROVE FALSE
  BY <1>0, <1>2 DEF Delete, EvictOne, Without, Inv, TypeOK
<1>3. ASSUME NEW n \in Memories, CountAccess(n) \/ CoolDown(n) \/ GrowOld(n) PROVE FALSE
  BY <1>0, <1>3, SameTiers DEF Inv
<1>4. ASSUME NEW n \in Memories, SetTier(n) PROVE ~rows[m].cooling
  <2>1. n \in Stored /\ n \in todo /\ Target \in Tiers /\ Moving
    BY <1>4 DEF SetTier, Target, Tiers, Inv, Shape
  <2> DEFINE c == rows[n].cooling \/ pc \in {"trimming", "demoting"}
  <2>2. rows' = [rows EXCEPT ![n].tier = Target, ![n].cooling = c]
    BY <1>4 DEF SetTier
  <2>3. c \in BOOLEAN
    OBVIOUS
  <2>4. rows' = [rows EXCEPT ![n] = rows'[n]] /\ rows'[n].tier = Target
    BY <2>1, <2>2, <2>3, FieldUpdate DEF Inv
  <2>5. n = m
    BY <1>0, <2>1, <2>4 DEF Inv, TypeOK
  <2>6. CASE pc \in {"raising", "sampling"}
    BY <2>1, <2>5, <2>6 DEF Inv, Shape, Rested
  <2>7. CASE pc = "demoting"
    <3>1. Rank[rows'[m].tier] = 0 /\ rows[m].tier \in Tiers
      BY <1>0, <2>4, <2>5, <2>7, RowTyped DEF Target, Rank, Tiers, Inv, Row
    <3>2. QED
      BY <3>1 DEF Rank, Tiers
  <2>8. CASE pc = "trimming"
    <3>1. rows[m].tier = "hot" /\ rows'[m].tier = "warm"
      BY <2>1, <2>4, <2>5, <2>8 DEF Inv, Shape, InTier, Target
    <3>2. QED
      BY <3>1 DEF Rank, Tiers
  <2>9. QED
    BY <2>1, <2>6, <2>7, <2>8 DEF Moving
<1>5. ASSUME NEW n \in Memories, NEW answers \in BOOLEAN, RaiseToHot(n, answers)
      PROVE  ~rows[m].cooling
  <2>1. pc = "replenishing" /\ n \in todo /\ n \in Stored
    BY <1>5 DEF RaiseToHot, Inv, Shape
  <2>2. rows' = [rows EXCEPT ![n].tier = "hot", ![n].embedded = TRUE]
    BY <1>0, <1>5, Zenon DEF RaiseToHot
  <2>3. rows' = [rows EXCEPT ![n] = rows'[n]]
    BY <2>1, <2>2, FieldUpdate DEF Inv, Tiers
  <2>4. n = m
    BY <1>0, <2>1, <2>3 DEF Inv, TypeOK
  <2>5. QED
    BY <2>1, <2>4 DEF Inv, Shape, Rested
<1>6. CASE Clear
  BY <1>6 DEF Clear
<1>7. CASE \/ SelectTrim \/ SelectReplenish \/ Collect \/ CollectNow \/ Sample \/ NextPhase
           \/ Raises \/ Kill
           \/ UNCHANGED vars
           \/ \E n \in Memories : DemoteToCold(n) \/ DropVector(n) \/ InsertVector(n)
           \/ \E embeds \in EmbedAnswers : Recall(embeds)
  <2>1. rows' = rows
    BY <1>7 DEF SelectTrim, SelectReplenish, Collect, CollectNow, Sample, NextPhase, Raises, Kill, vars,
                DemoteToCold, DropVector, InsertVector, Recall
  <2>2. QED
    BY <1>0, <2>1
<1>8. QED
  BY <1>1, <1>2, <1>3, <1>4, <1>5, <1>6, <1>7 DEF Next, Step, EmbedAnswers

\* Whatever replenish_hot, a query or the sampling has selected, a memory in its
\* cooldown stays where it was demoted to.
THEOREM CooldownHolds == Spec => CoolingStaysDown
<1>1. Inv /\ [Next]_vars =>
        [\A m \in Memories :
            rows[m] # None /\ rows'[m] # None /\ Rank[rows'[m].tier] > Rank[rows[m].tier]
                => ~rows[m].cooling]_vars
  BY CoolingStep
<1>2. QED
  BY <1>1, InvHolds, PTL DEF Spec, CoolingStaysDown

-----------------------------------------------------------------------------
(* The hot tier stays within its capacity. *)

LEMMA FiniteTiers ==
    ASSUME TypeOK
    PROVE  /\ \A t : IsFiniteSet(InTier(t)) /\ Cardinality(InTier(t)) \in Nat
           /\ IsFiniteSet(todo) /\ Cardinality(todo) \in Nat
BY StoreAssumption, FS_Subset, FS_CardinalityType DEF TypeOK, InTier, Stored

\* The set less one of its members, and with one member more.
LEMMA OneLess ==
    ASSUME NEW S, IsFiniteSet(S), NEW x
    PROVE  /\ IsFiniteSet(S \ {x}) /\ Cardinality(S \ {x}) \in Nat
           /\ Cardinality(S \ {x}) <= Cardinality(S)
           /\ x \in S => Cardinality(S \ {x}) = Cardinality(S) - 1
           /\ Cardinality(S \cup {x}) \in Nat /\ Cardinality(S \cup {x}) <= Cardinality(S) + 1
BY FS_RemoveElement, FS_AddElement, FS_CardinalityType, FS_Subset

\* The steps that neither raise a memory nor select any.
LEMMA BudgetShrinks ==
    ASSUME TypeOK, Budget, InTier("hot")' \subseteq InTier("hot"), managed' = managed,
           \/ pc' \notin {"replenish", "replenishing", "gc", "trimming"}
           \/ pc' = pc /\ pc # "trimming"
              /\ (pc = "replenishing" => todo' \ {cur'} \subseteq todo \ {cur})
    PROVE  Budget'
<1> DEFINE H == InTier("hot")
<1>1. /\ IsFiniteSet(H) /\ IsFiniteSet(todo \ {cur})
      /\ Cardinality(H) \in Nat /\ Cardinality(todo \ {cur}) \in Nat
  BY FiniteTiers, OneLess
<1>2. Cardinality(H') \in Nat /\ Cardinality(H') <= Cardinality(H)
  BY <1>1, FS_Subset, FS_CardinalityType
<1>3. pc = "replenishing" /\ pc' = pc =>
        /\ Cardinality(todo' \ {cur'}) \in Nat
        /\ Cardinality(todo' \ {cur'}) <= Cardinality(todo \ {cur})
  BY <1>1, FS_Subset, FS_CardinalityType
<1> HIDE DEF H
<1>4. QED
  BY <1>1, <1>2, <1>3, StoreAssumption DEF Budget, HotWithinCapacity, H

LEMMA BudgetStep == Inv /\ Budget /\ [Next]_vars => Budget'
<1> SUFFICES ASSUME Inv, Budget, [Next]_vars PROVE Budget'
  OBVIOUS
<1> DEFINE H == InTier("hot")
           pending == todo \ {cur}
<1>0. /\ TypeOK /\ HotCapacity \in Nat
      /\ IsFiniteSet(H) /\ Cardinality(H) \in Nat
      /\ IsFiniteSet(todo) /\ Cardinality(todo) \in Nat
      /\ IsFiniteSet(pending) /\ Cardinality(pending) \in Nat
  BY FiniteTiers, OneLess, StoreAssumption DEF Inv
<1>1. ASSUME NEW m \in Memories, NEW embedded \in BOOLEAN, Add(m, embedded) PROVE Budget'
  BY <1>1 DEF Add, Budget, HotWithinCapacity
<1>2. ASSUME NEW m \in Memories, Delete(m) \/ EvictOne(m) PROVE Budget'
  <2>1. rows' = [rows EXCEPT ![m] = None]
    BY <1>2 DEF Delete, EvictOne, Without
  <2>2. H' = H \ {m}
    BY <1>0, <2>1, TiersAfter
  <2>3. QED
    BY <1>0, <1>2, <2>2, BudgetShrinks DEF Delete, EvictOne
<1>3. ASSUME NEW m \in Memories, CountAccess(m) \/ CoolDown(m) \/ GrowOld(m) PROVE Budget'
  <2>1. H' = H
    BY <1>0, <1>3, SameTiers
  <2>2. QED
    BY <1>0, <1>3, <2>1, BudgetShrinks DEF CountAccess, CoolDown, GrowOld
<1>4. CASE Clear
  <2>1. H' = {}
    BY <1>4 DEF Clear, InTier, Stored
  <2>2. QED
    BY <1>0, <1>4, <2>1, BudgetShrinks DEF Clear
<1>5. ASSUME NEW m \in Memories, SetTier(m) PROVE Budget'
  <2>1. /\ m \in Stored /\ m \in todo /\ todo' = todo \ {m} /\ pc' = pc /\ managed' = managed
        /\ Moving /\ Target \in Tiers /\ Target # "hot"
    BY <1>5 DEF SetTier, Target, Tiers, Inv, Shape
  <2> DEFINE c == rows[m].cooling \/ pc \in {"trimming", "demoting"}
  <2>2. rows' = [rows EXCEPT ![m].tier = Target, ![m].cooling = c] /\ c \in BOOLEAN
    BY <1>5 DEF SetTier
  <2>3. rows' = [rows EXCEPT ![m] = rows'[m]] /\ rows'[m] \in Row /\ rows'[m].tier = Target
    BY <1>0, <2>1, <2>2, FieldUpdate
  <2>4. H' = H \ {m}
    BY <1>0, <2>1, <2>3, TiersAfter DEF Stored
  <2>5. CASE pc = "trimming"
    <3>1. m \in H
      BY <2>1, <2>5 DEF Inv, Shape
    <3>2. /\ Cardinality(H') = Cardinality(H) - 1 /\ Cardinality(H') \in Nat
          /\ Cardinality(todo') = Cardinality(todo) - 1
      BY <1>0, <2>1, <2>4, <3>1, OneLess
    <3> HIDE DEF H
    <3>3. QED
      BY <1>0, <2>1, <2>5, <3>2 DEF Budget, HotWithinCapacity, H
  <2>6. CASE pc # "trimming"
    BY <1>0, <2>1, <2>4, <2>6, BudgetShrinks DEF Moving
  <2>7. QED
    BY <2>5, <2>6
<1>6. ASSUME NEW m \in Memories, NEW answers \in BOOLEAN, RaiseToHot(m, answers) PROVE Budget'
  <2>1. /\ pc = "replenishing" /\ pc' = pc /\ cur = None /\ m \in todo /\ m \in Stored
        /\ managed' = managed /\ m # None /\ None \notin todo
    BY <1>6, StoreAssumption DEF RaiseToHot, Inv, Shape, TypeOK
  <2>2. Cardinality(H) + Cardinality(todo) <= HotCapacity
    <3>1. pending = todo
      BY <2>1
    <3>2. QED
      BY <2>1, <3>1 DEF Budget
  <2>3. CASE rows[m].embedded \/ answers
    <3>1. cur' = m /\ todo' = todo
          /\ rows' = [rows EXCEPT ![m].tier = "hot", ![m].embedded = TRUE]
      BY <1>6, <2>3, Zenon DEF RaiseToHot
    <3>2. rows' = [rows EXCEPT ![m] = rows'[m]] /\ rows'[m] \in Row /\ rows'[m].tier = "hot"
      BY <1>0, <2>1, <3>1, FieldUpdate DEF Tiers
    <3>3. H' = H \cup {m}
      BY <1>0, <2>1, <3>2, TiersAfter, StoreAssumption
    <3>4. /\ Cardinality(H') \in Nat /\ Cardinality(H') <= Cardinality(H) + 1
          /\ Cardinality(todo' \ {cur'}) = Cardinality(todo) - 1
          /\ Cardinality(todo' \ {cur'}) \in Nat
      BY <1>0, <2>1, <3>1, <3>3, OneLess
    <3> HIDE DEF H
    <3>5. QED
      BY <1>0, <2>1, <2>2, <3>4 DEF Budget, HotWithinCapacity, H
  <2>4. CASE ~(rows[m].embedded \/ answers)
    <3>1. todo' = todo \ {m} /\ UNCHANGED <<rows, cur>>
      BY <1>6, <2>4, Zenon DEF RaiseToHot
    <3>2. H' = H
      BY <3>1 DEF InTier, Stored
    <3>3. QED
      BY <1>0, <2>1, <3>1, <3>2, BudgetShrinks
  <2>5. QED
    BY <2>3, <2>4
<1>7. ASSUME NEW m \in Memories, DropVector(m) \/ InsertVector(m) \/ DemoteToCold(m) PROVE Budget'
  <2>1. H' = H /\ managed' = managed
    BY <1>7 DEF DropVector, InsertVector, DemoteToCold, InTier, Stored
  <2>2. CASE InsertVector(m) \/ DemoteToCold(m)
    BY <1>0, <2>1, <2>2, BudgetShrinks DEF InsertVector, DemoteToCold
  <2>3. CASE DropVector(m)
    <3>1. pc' = pc /\ todo' = todo /\ pc # "replenishing"
      BY <2>3 DEF DropVector, Moving
    <3> HIDE DEF H
    <3>2. QED
      BY <2>1, <3>1 DEF Budget, HotWithinCapacity, H
  <2>4. QED
    BY <1>7, <2>2, <2>3
<1>8. CASE SelectTrim
  <2>1. H' = H /\ managed' = managed /\ pc' = "trimming"
    BY <1>8 DEF SelectTrim, InTier, Stored
  <2>2. Excess = Cardinality(H) - HotCapacity
    BY DEF Excess
  <2>3. Cardinality(todo') \in Nat /\ Cardinality(H) - Cardinality(todo') <= HotCapacity
    <3>1. CASE Excess <= 0
      <4>1. todo' = {}
        BY <1>8, <3>1 DEF SelectTrim
      <4>2. QED
        BY <1>0, <2>2, <3>1, <4>1, FS_EmptySet
    <3>2. CASE ~(Excess <= 0)
      <4>1. todo' \in Sized(H, Excess)
        BY <1>8, <3>2 DEF SelectTrim, FirstOf
      <4>2. Cardinality(todo') = MinOf(Excess, Cardinality(H))
        BY <4>1 DEF Sized
      <4> HIDE DEF H
      <4>3. QED
        BY <1>0, <2>2, <3>2, <4>2 DEF MinOf
    <3>3. QED
      BY <3>1, <3>2
  <2> HIDE DEF H
  <2>4. managed => Cardinality(H) <= HotCapacity
    BY DEF Budget, HotWithinCapacity, H
  <2>5. QED
    BY <1>0, <2>1, <2>3, <2>4 DEF Budget, HotWithinCapacity, H
<1>9. CASE SelectReplenish
  <2>1. H' = H /\ managed' = managed /\ pc' = "replenishing" /\ pc = "replenish" /\ cur' = cur
    BY <1>9 DEF SelectReplenish, InTier, Stored
  <2>2. Excess = Cardinality(H) - HotCapacity /\ Cardinality(H) <= HotCapacity
    BY <2>1 DEF Excess, Budget, HotWithinCapacity
  <2>3. /\ Cardinality(todo' \ {cur'}) \in Nat
        /\ Cardinality(H) + Cardinality(todo' \ {cur'}) <= HotCapacity
    <3>1. CASE Excess >= 0
      <4>1. todo' = {} /\ todo' \ {cur'} = {}
        BY <1>9, <3>1 DEF SelectReplenish
      <4>2. QED
        BY <1>0, <2>2, <4>1, FS_EmptySet
    <3>2. CASE ~(Excess >= 0)
      <4>1. PICK W \in Sized(Wanted, 0 - Excess) : todo' \subseteq W
        BY <1>9, <3>2 DEF SelectReplenish, FirstOf
      <4>2. Wanted \subseteq InTier("warm") /\ W \subseteq Wanted
        BY <4>1 DEF Wanted, Sized
      <4>3. IsFiniteSet(Wanted) /\ IsFiniteSet(W)
            /\ Cardinality(Wanted) \in Nat /\ Cardinality(W) \in Nat
        BY <1>0, <4>2, FiniteTiers, FS_Subset, FS_CardinalityType
      <4>4. Cardinality(W) = MinOf(0 - Excess, Cardinality(Wanted))
        BY <4>1 DEF Sized
      <4> HIDE DEF H
      <4>5. Cardinality(W) <= HotCapacity - Cardinality(H)
        BY <1>0, <2>2, <4>3, <4>4 DEF MinOf
      <4>6. todo' \ {cur'} \in SUBSET W
        BY <4>1
      <4>7. Cardinality(todo' \ {cur'}) \in Nat /\ Cardinality(todo' \ {cur'}) <= Cardinality(W)
        BY <4>3, <4>6, FS_Subset, FS_CardinalityType
      <4>8. QED
        BY <1>0, <4>3, <4>5, <4>7
    <3>3. QED
      BY <3>1, <3>2
  <2> HIDE DEF H
  <2>4. QED
    BY <1>0, <2>1, <2>2, <2>3 DEF Budget, HotWithinCapacity, H
<1>10. CASE Collect
  <2>1. H' = H /\ pc' = "evicting" /\ pc = "gc"
    BY <1>10 DEF Collect, InTier, Stored
  <2> HIDE DEF H
  <2>2. QED
    BY <2>1 DEF Budget, HotWithinCapacity, H
<1>11. CASE \/ CollectNow \/ Sample \/ Raises \/ Kill
            \/ \E embeds \in EmbedAnswers : Recall(embeds)
  <2>1. /\ H' = H /\ managed' = managed
        /\ pc' \notin {"replenish", "replenishing", "gc", "trimming"}
    BY <1>11 DEF CollectNow, Sample, Raises, Kill, Recall, InTier, Stored
  <2>2. QED
    BY <1>0, <2>1, BudgetShrinks
<1>12. CASE NextPhase
  <2>1. H' = H /\ managed' = managed
    BY <1>12 DEF NextPhase, InTier, Stored
  <2>2. CASE pc \in {"trimming", "replenishing"}
    <3>1. todo = {} /\ pc' \in {"replenish", "gc"}
      BY <1>12, <2>2, Zenon DEF NextPhase
    <3>2. Cardinality(todo) = 0 /\ todo \ {cur} = {} /\ Cardinality(todo \ {cur}) = 0
      BY <3>1, FS_EmptySet
    <3> HIDE DEF H
    <3>3. Cardinality(H) <= HotCapacity
      BY <1>0, <2>2, <3>2 DEF Budget, H
    <3>4. QED
      BY <2>1, <3>1, <3>3 DEF Budget, HotWithinCapacity, H
  <2>3. CASE pc \notin {"trimming", "replenishing"}
    <3>1. pc' \notin {"replenish", "replenishing", "gc", "trimming"}
      BY <1>12, <2>3, Zenon DEF NextPhase
    <3>2. QED
      BY <1>0, <2>1, <3>1, BudgetShrinks
  <2>4. QED
    BY <2>2, <2>3
<1>13. CASE UNCHANGED vars
  BY <1>13 DEF vars, Budget, HotWithinCapacity, InTier, Stored
<1>14. QED
  BY <1>1, <1>2, <1>3, <1>4, <1>5, <1>6, <1>7, <1>8, <1>9, <1>10, <1>11, <1>12, <1>13
     DEF Next, Step, EmbedAnswers

\* After the tier management that follows an add, and until the next one, the hot
\* tier is within HOT_CAPACITY.
THEOREM CapacityKept == Spec => []HotWithinCapacity
<1>1. Init => Budget
  <2> SUFFICES ASSUME Init PROVE Budget
    OBVIOUS
  <2>1. InTier("hot") = {}
    BY DEF Init, InTier, Stored
  <2>2. QED
    BY <2>1, FS_EmptySet, StoreAssumption DEF Init, Budget, HotWithinCapacity
<1>2. Budget => HotWithinCapacity
  BY DEF Budget
<1>3. QED
  BY <1>1, <1>2, BudgetStep, InvHolds, PTL DEF Spec

-----------------------------------------------------------------------------
(* Moves that are carried through keep hot memories findable. *)

\* A step that changes at most the row of m, and gives m no unindexed hot row.
LEMMA FindableRow ==
    ASSUME TypeOK, NEW m \in Memories, NEW r \in Row \cup {None},
           rows' = [rows EXCEPT ![m] = r], vec \ {m} \subseteq vec',
           cur \in {m, None},
           r # None /\ r.tier = "hot" /\ r.embedded => m \in vec' \/ m = cur'
    PROVE  Unfindable' \subseteq Unfindable
<1>1. /\ InTier("hot")' \subseteq InTier("hot") \cup {m}
      /\ \A n \in Memories \ {m} : rows'[n] = rows[n]
      /\ rows'[m] = r
      /\ m \in InTier("hot")' => r # None /\ r.tier = "hot"
  <2>1. InTier("hot")' = IF r # None /\ r.tier = "hot" THEN InTier("hot") \cup {m}
                         ELSE InTier("hot") \ {m}
    BY TiersAfter
  <2>2. /\ \A n \in Memories \ {m} : rows'[n] = rows[n]
        /\ rows'[m] = r
    BY TiersAfter
  <2>3. QED
    BY <2>1, <2>2
<1>2. ASSUME NEW n \in Unfindable' PROVE n \in Unfindable
  <2>1. n \in InTier("hot")' /\ n # cur' /\ rows'[n].embedded /\ n \notin vec' /\ n \in Memories
    BY DEF Unfindable, InTier, Stored
  <2>2. n # m
    BY <1>1, <2>1
  <2>3. QED
    BY <1>1, <2>1, <2>2, StoreAssumption DEF Unfindable
<1>3. QED
  BY <1>2

LEMMA FindableStep ==
    ASSUME Inv, [Next]_vars, ~ Kill, ~ Raises PROVE Unfindable' \subseteq Unfindable
<1>0. TypeOK
  BY DEF Inv
<1>1. ASSUME NEW m \in Memories, NEW embedded \in BOOLEAN, Add(m, embedded)
      PROVE  Unfindable' \subseteq Unfindable
  <2> DEFINE r == [tier |-> "hot", access |-> 0, age |-> "young",
                   cooling |-> FALSE, embedded |-> embedded]
  <2>1. r \in Row /\ r.embedded = embedded
    BY StoreAssumption DEF Row, Tiers, Ages
  <2>2. rows' = [rows EXCEPT ![m] = r] /\ vec' = IF embedded THEN vec \cup {m} ELSE vec
    BY <1>1 DEF Add
  <2>3. cur = None
    BY <1>1 DEF Add, Inv, Shape, Treating
  <2> HIDE DEF r
  <2>4. QED
    BY <1>0, <2>1, <2>2, <2>3, FindableRow
<1>2. ASSUME NEW m \in Memories, Delete(m) \/ EvictOne(m) PROVE Unfindable' \subseteq Unfindable
  <2>1. rows' = [rows EXCEPT ![m] = None] /\ vec' = vec \ {m}
    BY <1>2 DEF Delete, EvictOne, Without
  <2>2. cur = None
    BY <1>2 DEF Delete, EvictOne, Inv, Shape, Treating
  <2>3. QED
    BY <1>0, <2>1, <2>2, FindableRow
<1>3. ASSUME NEW m \in Memories, SetTier(m) PROVE Unfindable' \subseteq Unfindable
  <2>1. m \in Stored /\ Target \in Tiers /\ Target # "hot" /\ vec' = vec /\ cur \in {m, None}
    BY <1>3 DEF SetTier, Target, Tiers, Inv, Shape
  <2> DEFINE c == rows[m].cooling \/ pc \in {"trimming", "demoting"}
  <2>2. rows' = [rows EXCEPT ![m].tier = Target, ![m].cooling = c] /\ c \in BOOLEAN
    BY <1>3 DEF SetTier
  <2>3. rows' = [rows EXCEPT ![m] = rows'[m]] /\ rows'[m] \in Row /\ rows'[m].tier = Target
    BY <1>0, <2>1, <2>2, FieldUpdate
  <2>4. QED
    BY <1>0, <2>1, <2>3, FindableRow
<1>4. ASSUME NEW m \in Memories, NEW answers \in BOOLEAN, RaiseToHot(m, answers)
      PROVE  Unfindable' \subseteq Unfindable
  <2>1. m \in Stored /\ vec' = vec /\ cur = None
    BY <1>4 DEF RaiseToHot, Inv, Shape
  <2>2. CASE rows[m].embedded \/ answers
    <3>1. cur' = m /\ rows' = [rows EXCEPT ![m].tier = "hot", ![m].embedded = TRUE]
      BY <1>4, <2>2, Zenon DEF RaiseToHot
    <3>2. rows' = [rows EXCEPT ![m] = rows'[m]] /\ rows'[m] \in Row
      BY <1>0, <2>1, <3>1, FieldUpdate DEF Tiers
    <3>3. QED
      BY <1>0, <2>1, <3>1, <3>2, FindableRow
  <2>3. CASE ~(rows[m].embedded \/ answers)
    <3>1. UNCHANGED <<rows, cur, vec>>
      BY <1>4, <2>3, Zenon DEF RaiseToHot
    <3>2. QED
      BY <3>1 DEF Unfindable, InTier, Stored
  <2>4. QED
    BY <2>2, <2>3
<1>5. ASSUME NEW m \in Memories, DropVector(m) PROVE Unfindable' \subseteq Unfindable
  <2>1. rows' = rows /\ vec' = vec \ {m} /\ cur' = m /\ cur = None
    BY <1>5 DEF DropVector
  <2>2. QED
    BY <2>1, StoreAssumption DEF Unfindable, InTier, Stored
<1>6. ASSUME NEW m \in Memories, InsertVector(m) PROVE Unfindable' \subseteq Unfindable
  <2>1. rows' = rows /\ vec' = vec \cup {m} /\ cur = m
    BY <1>6 DEF InsertVector
  <2>2. QED
    BY <2>1 DEF Unfindable, InTier, Stored
<1>7. ASSUME NEW m \in Memories, CountAccess(m) \/ CoolDown(m) \/ GrowOld(m)
      PROVE  Unfindable' \subseteq Unfindable
  <2>1. /\ InTier("hot")' = InTier("hot") /\ UNCHANGED <<vec, cur>>
        /\ \A n \in Stored : rows'[n].embedded = rows[n].embedded
    <3>1. InTier("hot")' = InTier("hot") /\ UNCHANGED <<vec, cur>>
      BY <1>0, <1>7, SameTiers DEF CountAccess, CoolDown, GrowOld
    <3>2. CASE rows' = rows
      BY <3>1, <3>2
    <3>3. CASE rows' # rows /\ m \in Stored
      <4>1. rows[m] \in Row /\ rows[m].access \in 0..MaxAccess
        BY <1>0, <3>3, RowTyped DEF Row
      <4>2. MinOf(rows[m].access + 1, MaxAccess) \in 0..MaxAccess
        BY <4>1, StoreAssumption DEF MinOf
      <4>3. rows' = [rows EXCEPT ![m] = rows'[m]] /\ rows'[m].embedded = rows[m].embedded
        <5>1. CASE CountAccess(m)
          <6>1. rows' = [rows EXCEPT ![m].access = MinOf(rows[m].access + 1, MaxAccess)]
            BY <3>3, <5>1 DEF CountAccess
          <6>2. QED
            BY <1>0, <3>3, <4>2, <6>1, FieldUpdate
        <5>2. CASE CoolDown(m)
          <6>1. rows' = [rows EXCEPT ![m].cooling = FALSE]
            BY <5>2, Zenon DEF CoolDown
          <6>2. QED
            BY <1>0, <3>3, <6>1, FieldUpdate
        <5>3. CASE GrowOld(m)
          <6>1. rows' = [rows EXCEPT ![m].age = "stale"] /\ "stale" \in Ages
            BY <5>3 DEF GrowOld, Ages
          <6>2. QED
            BY <1>0, <3>3, <6>1, FieldUpdate
        <5>4. QED
          BY <1>7, <5>1, <5>2, <5>3
      <4>4. QED
        BY <1>0, <3>1, <4>3 DEF TypeOK, Stored
    <3>4. QED
      BY <1>7, <3>2, <3>3 DEF CountAccess, CoolDown, GrowOld
  <2>2. QED
    BY <2>1 DEF Unfindable, InTier, Stored
<1>8. CASE Clear
  BY <1>8 DEF Clear, Unfindable, InTier, Stored
<1>9. CASE \/ SelectTrim \/ SelectReplenish \/ Collect \/ CollectNow \/ Sample \/ NextPhase
           \/ UNCHANGED vars
           \/ \E m \in Memories : DemoteToCold(m)
           \/ \E embeds \in EmbedAnswers : Recall(embeds)
  <2>1. UNCHANGED <<rows, vec, cur>>
    BY <1>9 DEF SelectTrim, SelectReplenish, Collect, CollectNow, Sample, NextPhase, vars,
                DemoteToCold, Recall
  <2>2. QED
    BY <2>1 DEF Unfindable, InTier, Stored
<1>10. QED
  BY <1>1, <1>2, <1>3, <1>4, <1>5, <1>6, <1>7, <1>8, <1>9 DEF Next, Step, EmbedAnswers

\* A hot memory with an embedding drops out of the vector search only when a kill or
\* an exception cuts its move, and no other with it.
THEOREM MovesKeepFindable == Spec => HotFindable
<1>1. Inv /\ [Next]_vars =>
        [Unfindable' \subseteq IF Kill \/ Raises THEN Unfindable \cup {cur} ELSE Unfindable]_vars
  <2> SUFFICES ASSUME Inv, [Next]_vars
               PROVE  Unfindable' \subseteq
                        IF Kill \/ Raises THEN Unfindable \cup {cur} ELSE Unfindable
    OBVIOUS
  <2>1. CASE Kill \/ Raises
    <3>1. UNCHANGED <<rows, vec>>
      BY <2>1 DEF Kill, Raises
    <3>2. Unfindable' \subseteq Unfindable \cup {cur}
      BY <3>1 DEF Unfindable, InTier, Stored
    <3>3. QED
      BY <2>1, <3>2
  <2>2. CASE ~ (Kill \/ Raises)
    BY <2>2, FindableStep
  <2>3. QED
    BY <2>1, <2>2
<1>2. QED
  BY <1>1, InvHolds, PTL DEF Spec, HotFindable
=============================================================================
