------------------------ MODULE ServiceRequests_proofs ------------------------
(***************************************************************************)
(* Proofs about ServiceRequests: every step of the service is a step of    *)
(* the repository or leaves it alone, calls implement IdempotentCalls, and *)
(* no write stores a vector beside those of another model.                 *)
(***************************************************************************)
EXTENDS ServiceRequests, McpIndexes_proofs

(* The types of what a call asks for and of what it may be told. *)

LEMMA AskedTyped ==
    ASSUME NEW c \in Call
    PROVE  /\ Asked[c] \in Ask
           /\ Asked[c].op = "add" => Asked[c].content \in Content
           /\ Asked[c].op = "replace" =>
                 Asked[c].content \in Content /\ Asked[c].mem \in Memory
           /\ Asked[c].op = "remove" => Asked[c].mem \in Memory
BY CallAssumption DEF Ask, WriteOp

LEMMA RefusedTyped ==
    ASSUME NEW code \in Code
    PROVE  Refused(code) \in Refusal /\ Refused(code) \notin Result
BY DEF Refused, Refusal, Result, Code

LEMMA DoneTyped ==
    ASSUME NEW m \in Memory, NEW n \in 1..MaxRevision
    PROVE  Done(m, n) \in Result
BY DEF Done, Result

LEMMA RefusedCodes ==
    /\ Refused("none") \in Refusal /\ Refused("none") \notin Result
    /\ Refused("not_authorized") \in Refusal /\ Refused("not_authorized") \notin Result
    /\ Refused("unavailable") \in Refusal /\ Refused("unavailable") \notin Result
BY RefusedTyped DEF Code

LEMMA RefusalsTyped ==
    ASSUME NEW c \in Call, NEW blobs, NEW code \in Refusals(c, blobs)
    PROVE  code \in Code
<1>1. \A r, q : Resolution(r, q) \in {"purged", "reused", "replay"}
  BY DEF Resolution
<1>2. CASE ~ CanWrite(Asked[c].grant, ScopesOf(c))
  BY <1>2 DEF Refusals, Code
<1>3. CASE CanWrite(Asked[c].grant, ScopesOf(c)) /\ Found(c) # {}
  <2>1. Refusals(c, blobs) = {Resolution(r, Digest(c)) : r \in Found(c)} \ {"replay"}
    BY <1>3 DEF Refusals
  <2>2. PICK r \in Found(c) : code = Resolution(r, Digest(c)) /\ code # "replay"
    BY <2>1
  <2>3. code \in {"purged", "reused", "replay"}
    BY <1>1, <2>2
  <2>4. QED
    BY <2>2, <2>3 DEF Code
<1>4. CASE CanWrite(Asked[c].grant, ScopesOf(c)) /\ Found(c) = {}
  <2>1. Refusals(c, blobs) \subseteq {"not_authorized", "conflict", "failed"}
    BY <1>4 DEF Refusals
  <2>2. QED
    BY <2>1 DEF Code
<1>5. QED
  BY <1>2, <1>3, <1>4

-----------------------------------------------------------------------------
(* The repository under the service. *)

\* A commit of a call is a lifecycle step of the repository.
LEMMA CommitMaps ==
    ASSUME ServiceTypeOK, NEW c \in Call, NEW i \in Attempt, WriteCommits(c, i)
    PROVE  Next
<1> DEFINE a == Asked[c]
           blobs == attempts[c][i].blobs
<1>1. a.grant \in Grant /\ a.scope \in Scope /\ a.new \in Scope /\ a.key \in Key
  BY AskedTyped DEF Ask
<1>2. blobs \in SUBSET Generation
  BY DEF ServiceTypeOK, AttemptType
<1>3. CASE a.op = "add"
  <2>1. PICK m \in Memory : AddMemory(a.grant, a.scope, m, a.content, a.key, blobs)
    BY <1>3 DEF WriteCommits
  <2>2. Lifecycle(a.grant, a.scope, m, a.key)
    BY <1>2, <1>3, <2>1, AskedTyped DEF Lifecycle
  <2>3. QED
    BY <1>1, <2>2 DEF Next
<1>4. ASSUME a.op # "add", Matches(OwnerOf(c), a.scope, a.mem, a.rev), a.mem \in Memory
      PROVE  a.rev \in Revision
  BY <1>1, <1>4, OwnerTyped DEF ServiceTypeOK, TypeOK, Matches, RowType, Revision
<1>5. CASE a.op = "replace"
  <2>1. ReplaceMemory(a.grant, a.scope, a.new, a.mem, a.rev, a.content, a.key, blobs)
    BY <1>5 DEF WriteCommits
  <2>2. a.rev \in Revision
    BY <1>4, <1>5, <2>1, AskedTyped DEF ReplaceMemory, OwnerOf
  <2>3. Lifecycle(a.grant, a.scope, a.mem, a.key)
    BY <1>1, <1>2, <1>5, <2>1, <2>2, AskedTyped DEF Lifecycle
  <2>4. QED
    BY <1>1, <1>5, <2>3, AskedTyped DEF Next
<1>6. CASE a.op = "remove"
  <2>1. RemoveMemory(a.grant, a.scope, a.mem, a.rev, a.key)
    BY <1>6 DEF WriteCommits
  <2>2. a.rev \in Revision
    BY <1>4, <1>6, <2>1, AskedTyped DEF RemoveMemory, OwnerOf
  <2>3. Lifecycle(a.grant, a.scope, a.mem, a.key)
    BY <2>1, <2>2 DEF Lifecycle
  <2>4. QED
    BY <1>1, <1>6, <2>3, AskedTyped DEF Next
<1>7. QED
  BY <1>3, <1>5, <1>6 DEF WriteCommits

LEMMA ScopesTyped ==
    ASSUME NEW c \in Call
    PROVE  OwnerOf(c) \in Owner /\ ScopesOf(c) \subseteq Scope /\ Asked[c].grant \in Grant
BY AskedTyped, OwnerTyped DEF Ask, OwnerOf, ScopesOf

\* The scope an attempt ensures a profile in is one of its call's.
LEMMA EnsureMaps ==
    ASSUME NEW c \in Call, NEW i \in Attempt, EnsureProfile(c, i)
    PROVE  Next \/ UNCHANGED vars
<1> DEFINE o == OwnerOf(c)
           s == IF Asked[c].scope \in attempts[c][i].todo THEN Asked[c].scope
                ELSE Asked[c].new
<1>1. o \in Owner /\ s \in Scope
  BY ScopesTyped DEF ScopesOf
<1>2. EnsureEmbeddingProfile(o, s) \/ UNCHANGED vars
  BY DEF EnsureProfile
<1>3. QED
  BY <1>1, <1>2 DEF Next

LEMMA AdministrationMaps ==
    ASSUME Administration
    PROVE  Next
<1>1. ASSUME NEW g \in Grant, NEW s \in Scope, NEW m \in Memory, NEW n \in Revision,
             NEW k \in Key, PurgeMemory(g, s, m, n, k)
      PROVE  Next
  BY <1>1 DEF Next, Lifecycle
<1>2. ASSUME NEW g \in Grant, NEW s \in Scope, Generations(g, s)
      PROVE  Next
  BY <1>2 DEF Next
<1>3. ASSUME NEW m \in Memory, NEW n \in Generation, Backfill(m, n)
      PROVE  Next
  BY <1>3 DEF Next, Reindexer
<1>4. ASSUME NEW c \in Call, RevokeGrant(Asked[c].grant)
      PROVE  Next
  BY <1>4, ScopesTyped DEF Next, GrantAdministration
<1>5. QED
  BY <1>1, <1>2, <1>3, <1>4 DEF Administration

LEMMA StepMaps ==
    ASSUME ServiceTypeOK, [ServiceNext]_allVars
    PROVE  [Next]_vars
<1>1. ASSUME NEW c \in Call, NEW i \in Attempt, Send(c, i) \/ Attempts(c, i) \/ CutOff(c, i)
      PROVE  Next \/ UNCHANGED vars
  <2>1. CASE WriteCommits(c, i)
    BY <2>1, CommitMaps
  <2>2. CASE EnsureProfile(c, i)
    BY <2>2, EnsureMaps
  <2>3. CASE Send(c, i) \/ CutOff(c, i) \/ FindOwner(c, i) \/ WriteReplays(c, i)
             \/ WriteRefused(c, i) \/ Deliver(c, i)
    BY <2>3 DEF Send, CutOff, FindOwner, WriteReplays, WriteRefused, Deliver
  <2>4. QED
    BY <1>1, <2>1, <2>2, <2>3 DEF Attempts
<1>2. CASE EmbedderFails \/ EmbedderRecovers
  BY <1>2 DEF EmbedderFails, EmbedderRecovers
<1>3. ASSUME NEW o \in Owner, NEW s \in Scope, NEW n \in Generation, NEW model \in Model,
             BuildsGeneration(o, s, n, model)
      PROVE  Next
  BY <1>3 DEF BuildsGeneration, Next, Reindexer
<1>4. CASE Administration
  BY <1>4, AdministrationMaps
<1>5. CASE UNCHANGED allVars
  BY <1>5 DEF allVars
<1>6. QED
  BY <1>1, <1>2, <1>3, <1>4, <1>5 DEF ServiceNext

-----------------------------------------------------------------------------
(* A call takes effect once.  The inductive invariant ties the effects of a *)
(* call to the rows of mcp_idempotency: a call that did something holds its *)
(* primary key, so it cannot commit again, and a row that its retry would   *)
(* replay is one that it wrote.                                             *)

\* A call has one effect at most, and so does what its client and its attempts
\* were told.
OneEffect ==
    \A c \in Call :
        /\ effects[c] = {} \/ \E r \in Result : effects[c] = {r}
        /\ told[c] \cap Result \subseteq effects[c]
        /\ \A i \in Attempt :
               attempts[c][i].answer \in Result => attempts[c][i].answer \in effects[c]

\* The row of a call's key that a retry of it would replay.
KeptRow(r, c) ==
    /\ ~ r.purged
    /\ r.grant = Asked[c].grant /\ r.key = Asked[c].key /\ r.digest = Digest(c)

EffectInLedger ==
    \A c \in Call :
        /\ effects[c] # {} => ~ PrimaryKeyFree(Asked[c].grant, Asked[c].op, Asked[c].key)
        /\ \A r \in idem : KeptRow(r, c) => Done(r.mem, r.rev) \in effects[c]

OnceInv == ServiceTypeOK /\ OneEffect /\ EffectInLedger

LEMMA OnceInit ==
    ASSUME ServiceInit
    PROVE  OnceInv
<1>1. TypeOK
  BY TypeInit DEF ServiceInit
<1>2. Idle \in AttemptType /\ Idle.answer \notin Result
  BY RefusedCodes DEF Idle, AttemptType, Step
<1>3. ServiceTypeOK
  <2>1. faults \in [cut : 0..MaxCut, outages : 0..MaxOutages]
    BY CallAssumption DEF ServiceInit
  <2>2. QED
    BY <1>1, <1>2, <2>1 DEF ServiceTypeOK, ServiceInit
<1>4. OneEffect
  BY <1>2 DEF OneEffect, ServiceInit
<1>5. EffectInLedger
  BY DEF EffectInLedger, ServiceInit, Init
<1>6. QED
  BY <1>3, <1>4, <1>5 DEF OnceInv

\* What an attempt's step does to the table of attempts.
LEMMA AttemptGoes ==
    ASSUME ServiceTypeOK, NEW c \in Call, NEW i \in Attempt, NEW a \in AttemptType,
           Goes(c, i, a)
    PROVE  /\ attempts' \in [Call -> [Attempt -> AttemptType]]
           /\ attempts'[c][i] = a
           /\ \A d \in Call, j \in Attempt :
                  attempts'[d][j] = a \/ attempts'[d][j] = attempts[d][j]
           /\ \A d \in Call, j \in Attempt :
                  d # c => attempts'[d][j] = attempts[d][j]
BY DEF ServiceTypeOK, Goes

LEMMA AnswerTyped ==
    ASSUME NEW answer \in Result \cup Refusal
    PROVE  [Idle EXCEPT !.at = "answer", !.answer = answer] \in AttemptType
BY RefusedCodes DEF Idle, AttemptType, Step

\* A step of an attempt that neither has an effect nor writes the ledger.
LEMMA QuietAttempt ==
    ASSUME OnceInv, TypeOK', NEW c \in Call, NEW i \in Attempt, NEW a \in AttemptType,
           Goes(c, i, a), a.answer \in Result => a.answer \in effects[c],
           UNCHANGED <<idem, effects, told, embedder, faults>>,
           identity' \in [Owner -> [Scope -> [Generation -> Model \cup {None}]]]
    PROVE  OnceInv'
<1>1. ServiceTypeOK'
  BY AttemptGoes DEF OnceInv, ServiceTypeOK
<1>2. OneEffect'
  <2>1. ServiceTypeOK /\ OneEffect
    BY DEF OnceInv
  <2>2. ASSUME NEW d \in Call, NEW j \in Attempt, attempts'[d][j].answer \in Result
        PROVE  attempts'[d][j].answer \in effects'[d]
    <3>1. attempts'[d][j] = attempts[d][j] \/ (d = c /\ attempts'[d][j] = a)
      BY <2>1, AttemptGoes
    <3>2. effects' = effects
      OBVIOUS
    <3>3. QED
      BY <2>1, <2>2, <3>1, <3>2 DEF OneEffect
  <2>3. QED
    BY <2>1, <2>2 DEF OneEffect
<1>3. EffectInLedger'
  BY DEF OnceInv, EffectInLedger, PrimaryKeyFree, KeptRow
<1>4. QED
  BY <1>1, <1>2, <1>3 DEF OnceInv

\* A step of an attempt that only refuses or moves on.
LEMMA RefusalStep ==
    ASSUME OnceInv, TypeOK', NEW c \in Call, NEW i \in Attempt, NEW code \in Code,
           Answers(c, i, Refused(code)),
           UNCHANGED <<idem, effects, told, identity, embedder, faults>>
    PROVE  OnceInv'
<1> DEFINE a == [Idle EXCEPT !.at = "answer", !.answer = Refused(code)]
<1>1. a \in AttemptType /\ a.answer \notin Result
  BY RefusedTyped, AnswerTyped DEF Idle
<1>2. Goes(c, i, a)
  BY DEF Answers
<1>3. identity' \in [Owner -> [Scope -> [Generation -> Model \cup {None}]]]
  BY DEF OnceInv, ServiceTypeOK
<1>4. QED
  BY <1>1, <1>2, <1>3, QuietAttempt

LEMMA OnceSend ==
    ASSUME OnceInv, TypeOK', NEW c \in Call, NEW i \in Attempt, Send(c, i)
    PROVE  OnceInv'
<1> DEFINE w == [Idle EXCEPT !.at = "write"]
           o == [Idle EXCEPT !.at = "owner"]
<1>1. UNCHANGED <<idem, effects, told, identity, embedder, faults>>
  BY DEF Send, vars
<1>2. /\ w \in AttemptType /\ w.answer \notin Result
      /\ o \in AttemptType /\ o.answer \notin Result
  BY RefusedCodes DEF Idle, AttemptType, Step
<1>3. identity' \in [Owner -> [Scope -> [Generation -> Model \cup {None}]]]
  BY <1>1 DEF OnceInv, ServiceTypeOK
<1>4. CASE Goes(c, i, w)
  BY <1>1, <1>2, <1>3, <1>4, QuietAttempt
<1>5. CASE Goes(c, i, o)
  BY <1>1, <1>2, <1>3, <1>5, QuietAttempt
<1>6. CASE Answers(c, i, Refused("not_authorized"))
  BY <1>1, <1>6, RefusalStep DEF Code
<1>7. CASE Answers(c, i, Refused("unavailable"))
  BY <1>1, <1>7, RefusalStep DEF Code
<1>8. QED
  BY <1>4, <1>5, <1>6, <1>7 DEF Send

LEMMA OnceFindOwner ==
    ASSUME OnceInv, TypeOK', NEW c \in Call, NEW i \in Attempt, FindOwner(c, i)
    PROVE  OnceInv'
<1> DEFINE p == [Idle EXCEPT !.at = "profile", !.todo = ScopesOf(c)]
<1>1. UNCHANGED <<idem, effects, told, identity, embedder, faults>>
  BY DEF FindOwner, vars
<1>2. p \in AttemptType /\ p.answer \notin Result
  BY RefusedCodes, ScopesTyped DEF Idle, AttemptType, Step
<1>3. identity' \in [Owner -> [Scope -> [Generation -> Model \cup {None}]]]
  BY <1>1 DEF OnceInv, ServiceTypeOK
<1>4. CASE Goes(c, i, p)
  BY <1>1, <1>2, <1>3, <1>4, QuietAttempt
<1>5. CASE Answers(c, i, Refused("not_authorized"))
  BY <1>1, <1>5, RefusalStep DEF Code
<1>6. QED
  BY <1>4, <1>5 DEF FindOwner

LEMMA OnceEnsure ==
    ASSUME OnceInv, TypeOK', NEW c \in Call, NEW i \in Attempt, EnsureProfile(c, i)
    PROVE  OnceInv'
<1> DEFINE o == OwnerOf(c)
           a == attempts[c][i]
           s == IF Asked[c].scope \in a.todo THEN Asked[c].scope ELSE Asked[c].new
           b(gens) == [a EXCEPT !.blobs = @ \cup gens, !.todo = @ \ {s},
                       !.at = IF a.todo = {s} THEN "write" ELSE @]
<1>1. UNCHANGED <<idem, effects, told, embedder, faults>>
  BY DEF EnsureProfile, EnsureEmbeddingProfile, vars
<1>2. a \in AttemptType
  BY DEF OnceInv, ServiceTypeOK
<1>3. ASSUME NEW gens \in SUBSET Generation
      PROVE  b(gens) \in AttemptType /\ b(gens).answer = a.answer
  BY <1>2 DEF AttemptType, Step
<1>4. identity' \in [Owner -> [Scope -> [Generation -> Model \cup {None}]]]
  <2>1. identity \in [Owner -> [Scope -> [Generation -> Model \cup {None}]]]
    BY DEF OnceInv, ServiceTypeOK
  <2>2. \/ identity' = identity
        \/ identity' = [identity EXCEPT ![o][s][FirstGeneration] = RunningModel]
    BY DEF EnsureProfile
  <2>3. CASE identity' = identity
    BY <2>1, <2>3
  <2>4. CASE identity' = [identity EXCEPT ![o][s][FirstGeneration] = RunningModel]
    <3>1. o \in Owner /\ s \in Scope
      BY ScopesTyped DEF ScopesOf
    <3> HIDE DEF o, s
    <3>2. QED
      BY <2>1, <2>4, <3>1, CallAssumption
  <2>5. QED
    BY <2>2, <2>3, <2>4
<1>5. CASE Answers(c, i, Refused("unavailable"))
  <2> DEFINE u == [Idle EXCEPT !.at = "answer", !.answer = Refused("unavailable")]
  <2>1. u \in AttemptType /\ u.answer \notin Result
    BY RefusedCodes, AnswerTyped DEF Idle
  <2>2. Goes(c, i, u)
    BY <1>5 DEF Answers
  <2>3. QED
    BY <1>1, <1>4, <2>1, <2>2, QuietAttempt
<1>6. ASSUME NEW gens \in SUBSET Generation, Goes(c, i, b(gens))
      PROVE  OnceInv'
  <2>1. a.answer \in Result => a.answer \in effects[c]
    BY DEF OnceInv, OneEffect
  <2>2. QED
    BY <1>1, <1>3, <1>4, <1>6, <2>1, QuietAttempt
<1>7. Current(o, s) \in SUBSET Generation /\ {FirstGeneration} \in SUBSET Generation
  BY ConstantsAssumption DEF Current
<1>8. \/ Answers(c, i, Refused("unavailable"))
      \/ Goes(c, i, b(Current(o, s)))
      \/ Goes(c, i, b({FirstGeneration}))
  BY DEF EnsureProfile
<1>9. QED
  BY <1>5, <1>6, <1>7, <1>8

LEMMA OnceReplays ==
    ASSUME OnceInv, TypeOK', NEW c \in Call, NEW i \in Attempt, WriteReplays(c, i)
    PROVE  OnceInv'
<1>1. UNCHANGED <<idem, effects, told, identity, embedder, faults>>
  BY DEF WriteReplays, vars
<1>2. PICK r \in Found(c) : /\ Resolution(r, Digest(c)) = "replay"
                            /\ Answers(c, i, Done(r.mem, r.rev))
  BY DEF WriteReplays
<1>3. r \in idem /\ r.grant = Asked[c].grant /\ r.key = Asked[c].key
  BY DEF Found, KeyRows
<1>4. ~ r.purged /\ r.digest = Digest(c)
  BY <1>2 DEF Resolution
<1>5. Done(r.mem, r.rev) \in effects[c]
  BY <1>3, <1>4 DEF OnceInv, EffectInLedger, KeptRow
<1>6. Done(r.mem, r.rev) \in Result
  BY <1>5 DEF OnceInv, ServiceTypeOK
<1> DEFINE a == [Idle EXCEPT !.at = "answer", !.answer = Done(r.mem, r.rev)]
<1>7. a \in AttemptType /\ a.answer = Done(r.mem, r.rev)
  BY <1>6, AnswerTyped DEF Idle
<1>8. Goes(c, i, a)
  BY <1>2 DEF Answers
<1>9. identity' \in [Owner -> [Scope -> [Generation -> Model \cup {None}]]]
  BY <1>1 DEF OnceInv, ServiceTypeOK
<1>10. QED
  BY <1>1, <1>5, <1>7, <1>8, <1>9, QuietAttempt

LEMMA OnceRefused ==
    ASSUME OnceInv, TypeOK', NEW c \in Call, NEW i \in Attempt, WriteRefused(c, i)
    PROVE  OnceInv'
<1>1. UNCHANGED <<idem, effects, told, identity, embedder, faults>>
  BY DEF WriteRefused, vars
<1>2. PICK code \in Refusals(c, attempts[c][i].blobs) : Answers(c, i, Refused(code))
  BY DEF WriteRefused
<1>3. QED
  BY <1>1, <1>2, RefusalsTyped, RefusalStep
\* The row that a commit of c adds to the ledger, whatever the operation: it is
\* kept under c's grant, key and digest and holds the result c is told.
LEMMA CommitLedger ==
    ASSUME ServiceTypeOK, NEW c \in Call, NEW i \in Attempt, WriteCommits(c, i)
    PROVE  /\ PrimaryKeyFree(Asked[c].grant, Asked[c].op, Asked[c].key)
           /\ \E m \in Memory, n \in 1..MaxRevision, s \in Scope :
                 /\ Happens(c, i, m, n)
                 /\ idem' = idem \cup {IdemRow(Asked[c].grant, Asked[c].op, Asked[c].key,
                                               m, s, Digest(c), n)}
<1> DEFINE a == Asked[c]
           blobs == attempts[c][i].blobs
<1>1. a.scope \in Scope /\ a.new \in Scope /\ a.rev \in Nat
  BY AskedTyped, ConstantsAssumption DEF Ask
<1>2. CASE a.op = "add"
  <2>1. PICK m \in Memory :
            /\ AddMemory(a.grant, a.scope, m, a.content, a.key, blobs)
            /\ Happens(c, i, m, 1)
    BY <1>2 DEF WriteCommits
  <2>2. Digest(c) = AddRequest(a.scope, a.content)
    BY <1>2 DEF Digest
  <2>3. QED
    BY <1>1, <1>2, <2>1, <2>2, RevisionTyped DEF AddMemory, KeyUnused
<1>3. CASE a.op = "replace"
  <2>1. /\ ReplaceMemory(a.grant, a.scope, a.new, a.mem, a.rev, a.content, a.key, blobs)
        /\ Happens(c, i, a.mem, a.rev + 1)
    BY <1>3 DEF WriteCommits
  <2>2. Digest(c) = ReplaceRequest(a.scope, a.new, a.mem, a.rev, a.content)
    BY <1>3 DEF Digest
  <2>3. a.mem \in Memory /\ a.rev + 1 \in 1..MaxRevision
    BY <1>1, <1>3, <2>1, AskedTyped, ConstantsAssumption DEF ReplaceMemory
  <2>4. QED
    BY <1>1, <1>3, <2>1, <2>2, <2>3 DEF ReplaceMemory, KeyUnused
<1>4. CASE a.op = "remove"
  <2>1. /\ RemoveMemory(a.grant, a.scope, a.mem, a.rev, a.key)
        /\ Happens(c, i, a.mem, a.rev + 1)
    BY <1>4 DEF WriteCommits
  <2>2. Digest(c) = RowRequest("remove", a.scope, a.mem, a.rev)
    BY <1>4 DEF Digest
  <2>3. a.mem \in Memory /\ a.rev + 1 \in 1..MaxRevision
    BY <1>1, <1>4, <2>1, AskedTyped, ConstantsAssumption DEF RemoveMemory
  <2>4. QED
    BY <1>1, <1>4, <2>1, <2>2, <2>3 DEF RemoveMemory, KeyUnused
<1>5. QED
  BY <1>2, <1>3, <1>4 DEF WriteCommits

LEMMA OnceCommits ==
    ASSUME OnceInv, TypeOK', NEW c \in Call, NEW i \in Attempt, WriteCommits(c, i)
    PROVE  /\ OnceInv'
           /\ effects[c] = {}
           /\ \E r \in Result : effects' = [effects EXCEPT ![c] = {r}]
           /\ UNCHANGED told
<1>1. ServiceTypeOK /\ OneEffect /\ EffectInLedger
  BY DEF OnceInv
<1>2. effects[c] = {}
  BY <1>1, CommitLedger DEF EffectInLedger
<1>3. PICK m \in Memory, n \in 1..MaxRevision, s \in Scope :
          /\ Happens(c, i, m, n)
          /\ idem' = idem \cup {IdemRow(Asked[c].grant, Asked[c].op, Asked[c].key,
                                        m, s, Digest(c), n)}
  BY <1>1, CommitLedger
<1> DEFINE r == Done(m, n)
           a == [Idle EXCEPT !.at = "answer", !.answer = r]
           row == IdemRow(Asked[c].grant, Asked[c].op, Asked[c].key, m, s, Digest(c), n)
<1>4. r \in Result
  BY DoneTyped
<1>5. effects' = [effects EXCEPT ![c] = {r}]
  BY <1>2, <1>3 DEF Happens
<1>6. effects'[c] = {r} /\ \A d \in Call : d # c => effects'[d] = effects[d]
  BY <1>1, <1>5 DEF ServiceTypeOK
<1>7. UNCHANGED <<told, identity, embedder, faults>>
  BY DEF WriteCommits
<1>8. Goes(c, i, a) /\ a.answer = r /\ a \in AttemptType
  BY <1>3, <1>4, AnswerTyped DEF Happens, Answers, Idle
<1> HIDE DEF r, a
<1>9. ServiceTypeOK'
  <2>1. attempts' \in [Call -> [Attempt -> AttemptType]]
    BY <1>1, <1>8, AttemptGoes
  <2>2. effects' \in [Call -> SUBSET Result]
    BY <1>1, <1>4, <1>5 DEF ServiceTypeOK
  <2>3. QED
    BY <1>1, <1>7, <2>1, <2>2 DEF ServiceTypeOK
<1>10. OneEffect'
  <2>1. ASSUME NEW d \in Call
        PROVE  effects'[d] = {} \/ \E x \in Result : effects'[d] = {x}
    BY <1>1, <1>4, <1>6 DEF OneEffect
  <2>2. ASSUME NEW d \in Call
        PROVE  told'[d] \cap Result \subseteq effects'[d]
    BY <1>1, <1>2, <1>6, <1>7 DEF OneEffect
  <2>3. ASSUME NEW d \in Call, NEW j \in Attempt, attempts'[d][j].answer \in Result
        PROVE  attempts'[d][j].answer \in effects'[d]
    <3>1. attempts'[d][j] = attempts[d][j] \/ (d = c /\ attempts'[d][j] = a)
      BY <1>1, <1>8, AttemptGoes
    <3>2. CASE attempts'[d][j] = attempts[d][j]
      BY <1>1, <1>2, <1>6, <2>3, <3>2 DEF OneEffect
    <3>3. QED
      BY <1>6, <1>8, <3>1, <3>2
  <2>4. QED
    BY <2>1, <2>2, <2>3 DEF OneEffect
<1>11. row.grant = Asked[c].grant /\ row.op = Asked[c].op /\ row.key = Asked[c].key
       /\ row.digest = Digest(c) /\ row.mem = m /\ row.rev = n
  BY DEF IdemRow
<1> HIDE DEF row
<1>12. idem' = idem \cup {row}
  BY <1>3 DEF row
<1>13. EffectInLedger'
  <2>1. ASSUME NEW d \in Call, effects'[d] # {}
        PROVE  \E x \in idem' : /\ x.grant = Asked[d].grant /\ x.op = Asked[d].op
                                /\ x.key = Asked[d].key
    <3>1. CASE d = c
      BY <1>11, <1>12, <3>1
    <3>2. CASE d # c
      BY <1>1, <1>6, <1>12, <2>1, <3>2 DEF EffectInLedger, PrimaryKeyFree
    <3>3. QED
      BY <3>1, <3>2
  <2>2. ASSUME NEW d \in Call, NEW x \in idem', KeptRow(x, d)
        PROVE  Done(x.mem, x.rev) \in effects'[d]
    <3>1. CASE x \in idem
      <4>1. Done(x.mem, x.rev) \in effects[d]
        BY <1>1, <2>2, <3>1 DEF EffectInLedger
      <4>2. QED
        BY <1>2, <1>6, <4>1
    <3>2. CASE x = row
      <4>1. d = c
        BY <1>11, <2>2, <3>2, CallAssumption DEF KeptRow
      <4>2. QED
        BY <1>6, <1>11, <3>2, <4>1 DEF r
    <3>3. QED
      BY <1>12, <2>2, <3>1, <3>2
  <2>3. \A d \in Call : Digest(d)' = Digest(d)
    BY DEF Digest, AddRequest, ReplaceRequest, RowRequest
  <2>4. QED
    BY <2>1, <2>2, <2>3 DEF EffectInLedger, PrimaryKeyFree, KeptRow
<1>14. QED
  BY <1>2, <1>4, <1>5, <1>7, <1>9, <1>10, <1>13 DEF OnceInv

LEMMA IdleTyped == Idle \in AttemptType /\ Idle.answer \notin Result
BY RefusedCodes DEF Idle, AttemptType, Step

LEMMA OnceDeliver ==
    ASSUME OnceInv, TypeOK', NEW c \in Call, NEW i \in Attempt, Deliver(c, i)
    PROVE  /\ OnceInv'
           /\ UNCHANGED effects
           /\ told' = [told EXCEPT ![c] = @ \cup {attempts[c][i].answer}]
           /\ attempts[c][i].answer \in Result => attempts[c][i].answer \in effects[c]
<1> DEFINE answer == attempts[c][i].answer
<1>1. ServiceTypeOK /\ OneEffect /\ EffectInLedger
  BY DEF OnceInv
<1>2. UNCHANGED <<idem, effects, identity, embedder, faults>>
  BY DEF Deliver, vars
<1>3. told' = [told EXCEPT ![c] = @ \cup {answer}] /\ Goes(c, i, Idle)
  BY DEF Deliver
<1>4. answer \in Result => answer \in effects[c]
  BY <1>1 DEF OneEffect
<1>5. answer \in Result \cup Refusal
  BY <1>1 DEF ServiceTypeOK, AttemptType
<1>6. ServiceTypeOK'
  <2>1. attempts' \in [Call -> [Attempt -> AttemptType]]
    BY <1>1, <1>3, AttemptGoes, IdleTyped
  <2>2. told' \in [Call -> SUBSET (Result \cup Refusal)]
    BY <1>1, <1>3, <1>5 DEF ServiceTypeOK
  <2>3. QED
    BY <1>1, <1>2, <2>1, <2>2 DEF ServiceTypeOK
<1>7. OneEffect'
  <2>1. ASSUME NEW d \in Call
        PROVE  told'[d] \cap Result \subseteq effects'[d]
    <3>1. told'[d] = IF d = c THEN told[c] \cup {answer} ELSE told[d]
      BY <1>1, <1>3 DEF ServiceTypeOK
    <3>2. told[d] \cap Result \subseteq effects[d]
      BY <1>1 DEF OneEffect
    <3>3. QED
      BY <1>2, <1>4, <3>1, <3>2
  <2>2. ASSUME NEW d \in Call, NEW j \in Attempt, attempts'[d][j].answer \in Result
        PROVE  attempts'[d][j].answer \in effects'[d]
    <3>1. attempts'[d][j] = attempts[d][j]
      BY <1>1, <1>3, <2>2, AttemptGoes, IdleTyped
    <3>2. QED
      BY <1>1, <1>2, <2>2, <3>1 DEF OneEffect
  <2>3. QED
    BY <1>1, <1>2, <2>1, <2>2 DEF OneEffect
<1>8. EffectInLedger'
  BY <1>1, <1>2 DEF EffectInLedger, PrimaryKeyFree, KeptRow
<1>9. QED
  BY <1>2, <1>3, <1>4, <1>6, <1>7, <1>8 DEF OnceInv

LEMMA OnceCutOff ==
    ASSUME OnceInv, TypeOK', NEW c \in Call, NEW i \in Attempt, CutOff(c, i)
    PROVE  OnceInv'
<1>1. ServiceTypeOK /\ OneEffect /\ EffectInLedger
  BY DEF OnceInv
<1>2. UNCHANGED <<idem, effects, told, identity, embedder>> /\ Goes(c, i, Idle)
  BY DEF CutOff, vars
<1>3. faults' \in [cut : 0..MaxCut, outages : 0..MaxOutages]
  BY <1>1, CallAssumption DEF CutOff, ServiceTypeOK
<1>4. ServiceTypeOK'
  BY <1>1, <1>2, <1>3, AttemptGoes, IdleTyped DEF ServiceTypeOK
<1>5. OneEffect'
  <2>1. ASSUME NEW d \in Call, NEW j \in Attempt, attempts'[d][j].answer \in Result
        PROVE  attempts'[d][j].answer \in effects'[d]
    <3>1. attempts'[d][j] = attempts[d][j]
      BY <1>1, <1>2, <2>1, AttemptGoes, IdleTyped
    <3>2. QED
      BY <1>1, <1>2, <2>1, <3>1 DEF OneEffect
  <2>2. QED
    BY <1>1, <1>2, <2>1 DEF OneEffect
<1>6. EffectInLedger'
  BY <1>1, <1>2 DEF EffectInLedger, PrimaryKeyFree, KeptRow
<1>7. QED
  BY <1>4, <1>5, <1>6 DEF OnceInv

\* A step beside the calls that leaves the ledger alone, as far as the type of
\* what it changes goes.
LEMMA QuietStep ==
    ASSUME OnceInv, ServiceTypeOK', UNCHANGED <<idem, attempts, told, effects>>
    PROVE  OnceInv'
<1>1. OneEffect'
  BY DEF OnceInv, OneEffect
<1>2. EffectInLedger'
  BY DEF OnceInv, EffectInLedger, PrimaryKeyFree, KeptRow
<1>3. QED
  BY <1>1, <1>2 DEF OnceInv

LEMMA OnceEmbedder ==
    ASSUME OnceInv, TypeOK', EmbedderFails \/ EmbedderRecovers
    PROVE  OnceInv'
<1>1. UNCHANGED <<idem, attempts, told, effects, identity>>
  BY DEF EmbedderFails, EmbedderRecovers, vars
<1>2. embedder' \in BOOLEAN
  BY DEF EmbedderFails, EmbedderRecovers
<1>3. faults' \in [cut : 0..MaxCut, outages : 0..MaxOutages]
  BY CallAssumption DEF EmbedderFails, EmbedderRecovers, OnceInv, ServiceTypeOK
<1>4. QED
  BY <1>1, <1>2, <1>3, QuietStep DEF OnceInv, ServiceTypeOK

LEMMA OnceBuilds ==
    ASSUME OnceInv, TypeOK', NEW o \in Owner, NEW s \in Scope, NEW n \in Generation,
           NEW model \in Model, BuildsGeneration(o, s, n, model)
    PROVE  OnceInv'
<1>1. UNCHANGED <<idem, attempts, told, effects, embedder, faults>>
  BY DEF BuildsGeneration, BeginBuilding
<1>2. identity' \in [Owner -> [Scope -> [Generation -> Model \cup {None}]]]
  BY DEF BuildsGeneration, OnceInv, ServiceTypeOK
<1>3. QED
  BY <1>1, <1>2, QuietStep DEF OnceInv, ServiceTypeOK

\* A purge scrubs results but takes no key away and makes no result replayable.
LEMMA PurgeKeepsKeys ==
    ASSUME TypeOK, NEW g \in Grant, NEW s \in Scope, NEW m \in Memory,
           NEW n \in Revision, NEW k \in Key, PurgeMemory(g, s, m, n, k)
    PROVE  /\ \A r \in idem : \E q \in idem' : q.grant = r.grant /\ q.op = r.op /\ q.key = r.key
           /\ \A q \in idem' : ~ q.purged => q \in idem
<1> DEFINE o == GrantOwner[g]
           row == IdemRow(g, "purge", k, m, s, DenyDigest(m, s), 0)
           scrub(r) == IF r.mem = m /\ GrantOwner[r.grant] = o
                         THEN [r EXCEPT !.digest = DenyDigest(m, s), !.rev = 0, !.purged = TRUE]
                         ELSE r
<1>1. idem' = {scrub(r) : r \in idem \cup {row}}
  BY DEF PurgeMemory, Scrubbed
<1>2. row \in IdemType /\ row.mem = m /\ GrantOwner[row.grant] = o
  BY RequestTyped, RevisionTyped, IdemRowTyped DEF DenyDigest, IdemRow, Op
<1>3. ASSUME NEW r \in IdemType
      PROVE  /\ scrub(r).grant = r.grant /\ scrub(r).op = r.op /\ scrub(r).key = r.key
             /\ ~ scrub(r).purged => scrub(r) = r /\ ~ (r.mem = m /\ GrantOwner[r.grant] = o)
  BY DEF IdemType
<1>4. idem \subseteq IdemType
  BY DEF TypeOK
<1> HIDE DEF scrub, row
<1>5. QED
  BY <1>1, <1>2, <1>3, <1>4

LEMMA OnceAdministration ==
    ASSUME OnceInv, TypeOK', Administration
    PROVE  OnceInv'
<1>1. UNCHANGED serviceVars
  BY DEF Administration
<1>2. ServiceTypeOK'
  BY <1>1 DEF OnceInv, ServiceTypeOK, serviceVars
<1>3. ASSUME NEW g \in Grant, NEW s \in Scope, NEW m \in Memory, NEW n \in Revision,
             NEW k \in Key, PurgeMemory(g, s, m, n, k)
      PROVE  OnceInv'
  <2>1. TypeOK /\ OneEffect /\ EffectInLedger
    BY DEF OnceInv, ServiceTypeOK
  <2>2. /\ \A r \in idem : \E q \in idem' : q.grant = r.grant /\ q.op = r.op /\ q.key = r.key
        /\ \A q \in idem' : ~ q.purged => q \in idem
    BY <1>3, <2>1, PurgeKeepsKeys
  <2>3. OneEffect'
    BY <1>1, <2>1 DEF OneEffect, serviceVars
  <2>4. EffectInLedger'
    BY <1>1, <2>1, <2>2 DEF EffectInLedger, PrimaryKeyFree, KeptRow, serviceVars
  <2>5. QED
    BY <1>2, <2>3, <2>4 DEF OnceInv
<1>4. CASE \/ \E g \in Grant, s \in Scope : Generations(g, s)
           \/ \E m \in Memory, n \in Generation : Backfill(m, n)
           \/ \E c \in Call : RevokeGrant(Asked[c].grant)
  <2>1. UNCHANGED idem
    <3>1. ASSUME NEW g \in Grant, NEW s \in Scope, Generations(g, s)
          PROVE  UNCHANGED idem
      <4>1. ASSUME NEW a \in Generation, NEW b \in Generation,
                   CutoverEmbeddingGeneration(g, s, a, b)
            PROVE  UNCHANGED idem
        BY <4>1 DEF CutoverEmbeddingGeneration
      <4>2. ASSUME NEW b \in Generation, FailEmbeddingGeneration(g, s, b)
            PROVE  UNCHANGED idem
        BY <4>2 DEF FailEmbeddingGeneration
      <4>3. QED
        BY <3>1, <4>1, <4>2 DEF Generations
    <3>2. ASSUME NEW m \in Memory, NEW n \in Generation, Backfill(m, n)
          PROVE  UNCHANGED idem
      BY <3>2 DEF Backfill
    <3>3. ASSUME NEW c \in Call, RevokeGrant(Asked[c].grant)
          PROVE  UNCHANGED idem
      BY <3>3 DEF RevokeGrant
    <3>4. QED
      BY <1>4, <3>1, <3>2, <3>3
  <2>2. QED
    BY <1>1, <1>2, <2>1, QuietStep DEF serviceVars
<1>5. QED
  BY <1>3, <1>4 DEF Administration

-----------------------------------------------------------------------------
LEMMA AttemptsDisjuncts ==
    ASSUME NEW c \in Call, NEW i \in Attempt, Send(c, i) \/ Attempts(c, i) \/ CutOff(c, i)
    PROVE  \/ WriteCommits(c, i) \/ Deliver(c, i)
           \/ /\ UNCHANGED <<effects, told>>
              /\ \/ Send(c, i) \/ CutOff(c, i) \/ FindOwner(c, i) \/ EnsureProfile(c, i)
                 \/ WriteReplays(c, i) \/ WriteRefused(c, i)
BY DEF Attempts, Send, CutOff, FindOwner, EnsureProfile, WriteReplays, WriteRefused

LEMMA OnceStep ==
    ASSUME OnceInv, [ServiceNext]_allVars
    PROVE  OnceInv'
<1>1. ServiceTypeOK /\ TypeOK
  BY DEF OnceInv, ServiceTypeOK
<1>2. TypeOK'
  BY <1>1, StepMaps, TypeStep
<1>3. ASSUME NEW c \in Call, NEW i \in Attempt, Send(c, i) \/ Attempts(c, i) \/ CutOff(c, i)
      PROVE  OnceInv'
  BY <1>2, <1>3, AttemptsDisjuncts, OnceSend, OnceFindOwner, OnceEnsure, OnceCommits,
     OnceReplays, OnceRefused, OnceDeliver, OnceCutOff
<1>4. CASE EmbedderFails \/ EmbedderRecovers
  BY <1>2, <1>4, OnceEmbedder
<1>5. CASE \E o \in Owner, s \in Scope, n \in Generation, model \in Model :
               BuildsGeneration(o, s, n, model)
  BY <1>2, <1>5, OnceBuilds
<1>6. CASE Administration
  BY <1>2, <1>6, OnceAdministration
<1>7. CASE UNCHANGED allVars
  <2>1. UNCHANGED <<idem, attempts, told, effects, identity, embedder, faults>>
    BY <1>7 DEF allVars, vars, serviceVars
  <2>2. ServiceTypeOK'
    BY <1>1, <1>2, <2>1 DEF ServiceTypeOK
  <2>3. QED
    BY <2>1, <2>2, QuietStep
<1>8. QED
  BY <1>3, <1>4, <1>5, <1>6, <1>7 DEF ServiceNext

LEMMA OnceInvariant == ServiceSpec => []OnceInv
<1>1. ServiceInit => OnceInv
  BY OnceInit
<1>2. OnceInv /\ [ServiceNext]_allVars => OnceInv'
  BY OnceStep
<1>3. QED
  BY <1>1, <1>2, PTL DEF ServiceSpec

\* Every reachable state of the service has its types, for any calls, grants and
\* number of concurrent attempts (service.py, authority.py).
THEOREM ServiceTypeCorrect == ServiceSpec => []ServiceTypeOK
<1>1. OnceInv => ServiceTypeOK
  BY DEF OnceInv
<1>2. QED
  BY <1>1, OnceInvariant, PTL

\* The service only ever takes steps of the repository: what is proved of the
\* repository under any client holds under the service, its retries, its stale
\* vectors and its interrupted handlers included.
THEOREM ImplementsRepository == ServiceSpec => Spec
<1>1. ServiceInit => Init
  BY DEF ServiceInit
<1>2. OnceInv /\ [ServiceNext]_allVars => [Next]_vars
  BY StepMaps DEF OnceInv
<1>3. QED
  BY <1>1, <1>2, OnceInvariant, PTL DEF ServiceSpec, Spec

\* A step of the service is at most one step of IdempotentCalls.
LEMMA OnceRefines ==
    ASSUME OnceInv, [ServiceNext]_allVars
    PROVE  [Once!Next]_<<effects, [c \in Call |-> told[c] \cap Result]>>
<1> DEFINE heard == [c \in Call |-> told[c] \cap Result]
<1>1. OneEffect /\ ServiceTypeOK /\ TypeOK
  BY DEF OnceInv, ServiceTypeOK
<1>2. TypeOK'
  BY <1>1, StepMaps, TypeStep
<1>3. ASSUME NEW c \in Call, NEW i \in Attempt, Send(c, i) \/ Attempts(c, i) \/ CutOff(c, i)
      PROVE  Once!Next \/ UNCHANGED <<effects, heard>>
  <2>1. CASE WriteCommits(c, i)
    <3>1. /\ effects[c] = {}
          /\ \E r \in Result : effects' = [effects EXCEPT ![c] = {r}]
          /\ UNCHANGED told
      BY <1>2, <2>1, OnceCommits
    <3>2. UNCHANGED heard
      BY <3>1
    <3>3. \E r \in Result : Once!Happen(c, r)
      BY <3>1, <3>2 DEF Once!Happen
    <3>4. QED
      BY <3>3 DEF Once!Next
  <2>2. CASE Deliver(c, i)
    <3> DEFINE answer == attempts[c][i].answer
    <3>1. /\ UNCHANGED effects
          /\ told' = [told EXCEPT ![c] = @ \cup {answer}]
          /\ answer \in Result => answer \in effects[c]
      BY <1>2, <2>2, OnceDeliver
    <3>2. \A d \in Call : told'[d] = IF d = c THEN told[c] \cup {answer} ELSE told[d]
      BY <1>1, <3>1 DEF ServiceTypeOK
    <3>3. CASE answer \notin Result
      BY <3>1, <3>2, <3>3
    <3>4. CASE answer \in Result
      <4>1. told[c] \cap Result \subseteq effects[c] /\ \E r \in Result : effects[c] = {r}
        BY <1>1, <3>1, <3>4 DEF OneEffect
      <4>2. effects[c] = {answer} /\ told'[c] \cap Result = {answer}
        BY <3>1, <3>2, <3>4, <4>1
      <4>3. heard' = [heard EXCEPT ![c] = effects[c]]
        BY <3>2, <4>2
      <4>4. Once!Tell(c)
        BY <3>1, <4>2, <4>3 DEF Once!Tell
      <4>5. QED
        BY <4>4 DEF Once!Next
    <3>5. QED
      BY <3>3, <3>4
  <2>3. CASE UNCHANGED <<effects, told>>
    BY <2>3
  <2>4. QED
    BY <1>3, <2>1, <2>2, <2>3, AttemptsDisjuncts
<1>4. CASE \/ EmbedderFails \/ EmbedderRecovers \/ Administration \/ UNCHANGED allVars
           \/ \E o \in Owner, s \in Scope, n \in Generation, model \in Model :
                  BuildsGeneration(o, s, n, model)
  <2>1. UNCHANGED <<effects, told>>
    BY <1>4 DEF EmbedderFails, EmbedderRecovers, Administration, BuildsGeneration,
                allVars, serviceVars
  <2>2. QED
    BY <2>1
<1>5. QED
  BY <1>3, <1>4 DEF ServiceNext

\* R5.1 for every call, key, grant and interleaving: however often a call is
\* sent, cut off, repeated or answered late, it takes effect at most once and
\* every success its client hears of is that effect.
THEOREM EffectOnce == ServiceSpec => CallsTakeEffectOnce
<1>1. ServiceInit => Once!Init
  BY DEF ServiceInit, Once!Init
<1>2. OnceInv /\ [ServiceNext]_allVars
        => [Once!Next]_<<effects, [c \in Call |-> told[c] \cap Result]>>
  BY OnceRefines
<1>3. QED
  BY <1>1, <1>2, OnceInvariant, PTL DEF ServiceSpec, CallsTakeEffectOnce, Once!Spec

-----------------------------------------------------------------------------
(* The indexes under the service. *)

\* Its retries, late attempts and interrupted handlers leave every index of the
\* authority of the content of its row.
THEOREM ServiceKeepsIndexes == ServiceSpec => []DerivedIndexParity
BY ImplementsRepository, IndexesInParity, PTL

-----------------------------------------------------------------------------
(* One model per generation.  The models are compared when a profile is     *)
(* ensured and the vectors stored later; what bridges the two is that a     *)
(* generation is opened once, so that its model never changes.              *)

\* A generation that has a profile keeps one.
LEMMA ProfilesStay ==
    ASSUME TypeOK, [Next]_vars, NEW o \in Owner, NEW s \in Scope, NEW n \in Generation,
           profiles[o][s][n] # "none"
    PROVE  profiles'[o][s][n] # "none"
<1>1. CASE profiles' = profiles
  BY <1>1
<1>2. ASSUME NEW g \in Grant, NEW t \in Scope, NEW a \in Generation, NEW b \in Generation,
             CutoverEmbeddingGeneration(g, t, a, b)
      PROVE  profiles'[o][s][n] # "none"
  <2> DEFINE p == GrantOwner[g]
  <2>1. p \in Owner
    BY OwnerTyped
  <2>2. CASE <<p, t>> = <<o, s>>
    <3>1. profiles'[o][s] = Activated(profiles[o][s], a, b)
      BY <1>2, <2>2 DEF CutoverEmbeddingGeneration, TypeOK
    <3>2. profiles[o][s] \in [Generation -> Status]
      BY DEF TypeOK
    <3>3. QED
      BY <3>1, <3>2 DEF Activated
  <2>3. CASE <<p, t>> # <<o, s>>
    BY <1>2, <2>1, <2>3 DEF CutoverEmbeddingGeneration, TypeOK
  <2>4. QED
    BY <2>2, <2>3
<1>3. ASSUME NEW g \in Grant, NEW t \in Scope, NEW b \in Generation,
             FailEmbeddingGeneration(g, t, b)
      PROVE  profiles'[o][s][n] # "none"
  BY <1>3, OwnerTyped DEF FailEmbeddingGeneration, TypeOK
<1>4. ASSUME NEW p \in Owner, NEW t \in Scope, EnsureEmbeddingProfile(p, t)
      PROVE  profiles'[o][s][n] # "none"
  BY <1>4, ConstantsAssumption DEF EnsureEmbeddingProfile, TypeOK
<1>5. ASSUME NEW p \in Owner, NEW t \in Scope, NEW b \in Generation, BeginBuilding(p, t, b)
      PROVE  profiles'[o][s][n] # "none"
  BY <1>5 DEF BeginBuilding, TypeOK
<1>6. CASE \E g \in Grant, t \in Scope, m \in Memory, k \in Key : Lifecycle(g, t, m, k)
  BY <1>1, <1>6, LifecycleKeepsProfiles
<1>7. CASE Reindexer
  BY <1>1, <1>5, <1>7 DEF Reindexer, ProjectVectors, Backfill, generationVars
<1>8. CASE GrantAdministration \/ UNCHANGED vars
  BY <1>1, <1>8 DEF GrantAdministration, RevokeGrant, DowngradeGrant, generationVars, vars
<1>9. CASE \E g \in Grant, t \in Scope : Generations(g, t)
  BY <1>2, <1>3, <1>9 DEF Generations
<1>10. CASE \E p \in Owner, t \in Scope : EnsureEmbeddingProfile(p, t)
  BY <1>4, <1>10
<1>11. QED
  BY <1>6, <1>7, <1>8, <1>9, <1>10 DEF Next

\* The generation has a profile of the running model in the scope.
OfRunning(o, s, n) ==
    profiles[o][s][n] # "none" /\ identity[o][s][n] = RunningModel

\* A model is recorded only for a generation that had no profile.
LEMMA ModelsStay ==
    ASSUME ServiceTypeOK, [ServiceNext]_allVars, NEW o \in Owner, NEW s \in Scope,
           NEW n \in Generation, OfRunning(o, s, n)
    PROVE  OfRunning(o, s, n)'
<1>1. profiles'[o][s][n] # "none"
  BY StepMaps, ProfilesStay DEF ServiceTypeOK, OfRunning
<1>2. CASE identity' = identity
  BY <1>1, <1>2 DEF OfRunning
<1>3. ASSUME NEW c \in Call, NEW i \in Attempt, EnsureProfile(c, i)
      PROVE  identity'[o][s][n] = identity[o][s][n]
  <2> DEFINE p == OwnerOf(c)
             t == IF Asked[c].scope \in attempts[c][i].todo THEN Asked[c].scope
                  ELSE Asked[c].new
  <2>1. p \in Owner /\ t \in Scope
    BY ScopesTyped DEF ScopesOf
  <2>2. \/ identity' = identity
        \/ /\ profiles[p][t][FirstGeneration] = "none"
           /\ identity' = [identity EXCEPT ![p][t][FirstGeneration] = RunningModel]
    BY <1>3 DEF EnsureProfile
  <2> HIDE DEF p, t
  <2>3. CASE <<p, t, FirstGeneration>> = <<o, s, n>>
    BY <2>2, <2>3 DEF OfRunning
  <2>4. CASE <<p, t, FirstGeneration>> # <<o, s, n>>
    BY <2>1, <2>2, <2>4, ConstantsAssumption DEF ServiceTypeOK
  <2>5. QED
    BY <2>3, <2>4
<1>4. ASSUME NEW p \in Owner, NEW t \in Scope, NEW b \in Generation, NEW model \in Model,
             BuildsGeneration(p, t, b, model)
      PROVE  identity'[o][s][n] = identity[o][s][n]
  BY <1>4 DEF BuildsGeneration, BeginBuilding, ServiceTypeOK, OfRunning
<1>5. ASSUME NEW c \in Call, NEW i \in Attempt, Send(c, i) \/ Attempts(c, i) \/ CutOff(c, i)
      PROVE  identity' = identity \/ EnsureProfile(c, i)
  BY <1>5 DEF Attempts, Send, CutOff, FindOwner, WriteCommits, WriteReplays, WriteRefused,
              Deliver
<1>6. CASE EmbedderFails \/ EmbedderRecovers \/ Administration \/ UNCHANGED allVars
  BY <1>2, <1>6 DEF EmbedderFails, EmbedderRecovers, Administration, serviceVars, allVars
<1>7. identity'[o][s][n] = identity[o][s][n] => OfRunning(o, s, n)'
  BY <1>1 DEF OfRunning
<1>8. CASE \E c \in Call, i \in Attempt : Send(c, i) \/ Attempts(c, i) \/ CutOff(c, i)
  BY <1>3, <1>5, <1>7, <1>8
<1>9. CASE \E p \in Owner, t \in Scope, b \in Generation, model \in Model :
               BuildsGeneration(p, t, b, model)
  BY <1>4, <1>7, <1>9
<1>10. QED
  BY <1>6, <1>8, <1>9 DEF ServiceNext

\* The vectors an attempt holds are for generations of the running model in one
\* of the scopes of its call, since it found or made them.
VectorsOfRunning ==
    \A c \in Call, i \in Attempt : \A n \in attempts[c][i].blobs :
        \E s \in ScopesOf(c) : OfRunning(OwnerOf(c), s, n)

\* A step of one attempt leaves every other as it was.
LEMMA GoesAlone ==
    ASSUME ServiceTypeOK, NEW c \in Call, NEW i \in Attempt, NEW d \in Call,
           NEW j \in Attempt, NEW a, Goes(d, j, a)
    PROVE  attempts'[c][i] = IF c = d /\ i = j THEN a ELSE attempts[c][i]
<1>1. /\ attempts \in [Call -> [Attempt -> AttemptType]]
      /\ attempts' = [attempts EXCEPT ![d] = [@ EXCEPT ![j] = a]]
  BY DEF ServiceTypeOK, Goes
<1>2. attempts'[c] = IF c = d THEN [attempts[c] EXCEPT ![j] = a] ELSE attempts[c]
  BY <1>1
<1>3. QED
  BY <1>1, <1>2

\* Every step of an attempt but the looking at a scope drops its vectors.
LEMMA HandsEmpty ==
    ASSUME ServiceTypeOK, NEW c \in Call, NEW i \in Attempt, NEW d \in Call,
           NEW j \in Attempt, NEW at, NEW todo, NEW answer,
           \/ Goes(d, j, Idle)
           \/ Goes(d, j, [Idle EXCEPT !.at = at])
           \/ Goes(d, j, [Idle EXCEPT !.at = at, !.todo = todo])
           \/ Answers(d, j, answer)
    PROVE  /\ attempts'[c][i].blobs \subseteq attempts[c][i].blobs
           /\ attempts'[d][j].blobs = {}
<1>1. ASSUME NEW a, Goes(d, j, a), a.blobs = {}
      PROVE  /\ attempts'[c][i].blobs \subseteq attempts[c][i].blobs
             /\ attempts'[d][j].blobs = {}
  BY <1>1, GoesAlone
<1> DEFINE w == [Idle EXCEPT !.at = at]
           p == [Idle EXCEPT !.at = at, !.todo = todo]
           u == [Idle EXCEPT !.at = "answer", !.answer = answer]
<1>2. Idle.blobs = {} /\ w.blobs = {} /\ p.blobs = {} /\ u.blobs = {}
  BY DEF Idle
<1>3. Goes(d, j, Idle) \/ Goes(d, j, w) \/ Goes(d, j, p) \/ Goes(d, j, u)
  BY DEF Answers
<1> HIDE DEF w, p, u
<1>4. QED
  BY <1>1, <1>2, <1>3

\* What a step may do to the vectors an attempt holds: forget them, or add those
\* of the next scope.
LEMMA BlobsGrow ==
    ASSUME ServiceTypeOK, [ServiceNext]_allVars, NEW c \in Call, NEW i \in Attempt
    PROVE  \/ attempts'[c][i].blobs \subseteq attempts[c][i].blobs
           \/ EnsureProfile(c, i)
<1>1. \A d \in Call, j \in Attempt : \A answer : Answers(d, j, answer) =>
          attempts'[c][i].blobs \subseteq attempts[c][i].blobs
  BY HandsEmpty
<1>2. ASSUME NEW d \in Call, NEW j \in Attempt,
             \/ Send(d, j) \/ CutOff(d, j) \/ FindOwner(d, j) \/ WriteCommits(d, j)
             \/ WriteReplays(d, j) \/ WriteRefused(d, j) \/ Deliver(d, j)
      PROVE  attempts'[c][i].blobs \subseteq attempts[c][i].blobs
  <2>1. CASE Send(d, j)
    BY <1>1, <2>1, HandsEmpty DEF Send
  <2>2. CASE CutOff(d, j) \/ Deliver(d, j)
    BY <2>2, HandsEmpty DEF CutOff, Deliver
  <2>3. CASE FindOwner(d, j)
    BY <1>1, <2>3, HandsEmpty DEF FindOwner
  <2>4. CASE WriteCommits(d, j)
    BY <1>1, <2>4 DEF WriteCommits, Happens
  <2>5. CASE WriteReplays(d, j) \/ WriteRefused(d, j)
    BY <1>1, <2>5 DEF WriteReplays, WriteRefused
  <2>6. QED
    BY <1>2, <2>1, <2>2, <2>3, <2>4, <2>5
<1>3. ASSUME NEW d \in Call, NEW j \in Attempt, EnsureProfile(d, j), ~ EnsureProfile(c, i)
      PROVE  attempts'[c][i].blobs \subseteq attempts[c][i].blobs
  <2>1. <<d, j>> # <<c, i>>
    BY <1>3
  <2>2. (\E answer : Answers(d, j, answer)) \/ \E a : Goes(d, j, a)
    BY <1>3 DEF EnsureProfile
  <2>3. QED
    BY <1>1, <2>1, <2>2, GoesAlone
<1>4. CASE \/ EmbedderFails \/ EmbedderRecovers \/ Administration \/ UNCHANGED allVars
           \/ \E o \in Owner, s \in Scope, n \in Generation, model \in Model :
                  BuildsGeneration(o, s, n, model)
  BY <1>4 DEF EmbedderFails, EmbedderRecovers, Administration, BuildsGeneration,
              allVars, serviceVars
<1>5. QED
  BY <1>2, <1>3, <1>4 DEF ServiceNext, Attempts

\* The vectors of the scope that was looked at are for generations of the running
\* model once the transaction is done.  ON CONFLICT DO NOTHING never hides an
\* older profile here: a scope without a current generation has none at all.
LEMMA EnsuredOfRunning ==
    ASSUME ServiceTypeOK, OneActive, NEW c \in Call, NEW i \in Attempt, EnsureProfile(c, i)
    PROVE  \A n \in attempts'[c][i].blobs \ attempts[c][i].blobs :
               \E s \in ScopesOf(c) : OfRunning(OwnerOf(c), s, n)'
<1> DEFINE o == OwnerOf(c)
           a == attempts[c][i]
           s == IF Asked[c].scope \in a.todo THEN Asked[c].scope ELSE Asked[c].new
           b(gens) == [a EXCEPT !.blobs = @ \cup gens, !.todo = @ \ {s},
                       !.at = IF a.todo = {s} THEN "write" ELSE @]
<1>1. o \in Owner /\ s \in Scope /\ s \in ScopesOf(c)
  BY ScopesTyped DEF ScopesOf
<1>2. PICK t \in Scope : t = s
  BY <1>1
<1>3. a \in AttemptType
  BY DEF ServiceTypeOK
<1>4. ASSUME NEW gens, Goes(c, i, b(gens))
      PROVE  attempts'[c][i].blobs \ a.blobs \subseteq gens
  <2>1. attempts'[c][i] = b(gens)
    BY <1>4, GoesAlone
  <2>2. b(gens).blobs = a.blobs \cup gens
    BY <1>3 DEF AttemptType
  <2>3. QED
    BY <2>1, <2>2
<1>5. CASE Answers(c, i, Refused("unavailable"))
  <2>1. attempts'[c][i].blobs = {}
    BY <1>5, HandsEmpty
  <2>2. QED
    BY <2>1
<1>6. CASE /\ Current(o, s) # {} /\ Comparable(o, s) /\ Goes(c, i, b(Current(o, s)))
           /\ UNCHANGED <<vars, identity>>
  <2>1. attempts'[c][i].blobs \ a.blobs \subseteq Current(o, s)
    BY <1>4, <1>6
  <2>2. \A n \in Current(o, t) : profiles'[o][t][n] # "none" /\ identity'[o][t][n] = RunningModel
    BY <1>2, <1>6 DEF Comparable, Current, vars
  <2>3. QED
    BY <1>1, <1>2, <2>1, <2>2 DEF OwnerOf, OfRunning
<1>7. CASE Current(o, s) = {} /\ Goes(c, i, b({FirstGeneration}))
           /\ ~ Answers(c, i, Refused("unavailable"))
  <2>1. \A n \in Generation : profiles[o][s][n] = "none"
    BY <1>1, <1>7 DEF OneActive, Active, Current
  <2>2. /\ profiles' = [profiles EXCEPT ![o][t][FirstGeneration] = "ACTIVE"]
        /\ identity' = [identity EXCEPT ![o][t][FirstGeneration] = RunningModel]
    BY <1>2, <1>7, <2>1, ConstantsAssumption DEF EnsureProfile, EnsureEmbeddingProfile
  <2>3. /\ profiles'[o][t][FirstGeneration] # "none"
        /\ identity'[o][t][FirstGeneration] = RunningModel
    BY <1>1, <2>2, ConstantsAssumption DEF ServiceTypeOK, TypeOK
  <2>4. attempts'[c][i].blobs \ a.blobs \subseteq {FirstGeneration}
    BY <1>4, <1>7
  <2>5. QED
    BY <1>1, <1>2, <2>3, <2>4 DEF OwnerOf, OfRunning
<1>8. QED
  BY <1>5, <1>6, <1>7 DEF EnsureProfile

LEMMA VectorsOfRunningStep ==
    ASSUME ServiceTypeOK, OneActive, VectorsOfRunning, [ServiceNext]_allVars
    PROVE  VectorsOfRunning'
<1>1. SUFFICES ASSUME NEW c \in Call, NEW i \in Attempt, NEW n \in attempts'[c][i].blobs
               PROVE  \E s \in ScopesOf(c) : OfRunning(OwnerOf(c), s, n)'
  BY DEF VectorsOfRunning, ScopesOf, OwnerOf
<1>2. CASE n \in attempts[c][i].blobs
  <2>1. PICK s \in ScopesOf(c) : OfRunning(OwnerOf(c), s, n)
    BY <1>2 DEF VectorsOfRunning
  <2>2. n \in Generation
    BY <1>2 DEF ServiceTypeOK, AttemptType
  <2>3. OwnerOf(c) \in Owner /\ s \in Scope
    BY ScopesTyped
  <2>4. OfRunning(OwnerOf(c), s, n)'
    BY <2>1, <2>2, <2>3, ModelsStay
  <2>5. QED
    BY <2>4
<1>3. CASE n \notin attempts[c][i].blobs
  BY <1>1, <1>3, BlobsGrow, EnsuredOfRunning
<1>4. QED
  BY <1>2, <1>3

\* Only the transaction of a call adds or replaces: the administrator purges.
LEMMA CallsWrite ==
    ASSUME [ServiceNext]_allVars, NEW e \in events' \ events, e.op \in {"add", "replace"}
    PROVE  \E c \in Call, i \in Attempt : WriteCommits(c, i)
<1>1. CASE events' = events
  BY <1>1
<1>2. ASSUME NEW c \in Call, NEW i \in Attempt, Send(c, i) \/ Attempts(c, i) \/ CutOff(c, i),
             ~ WriteCommits(c, i)
      PROVE  events' = events
  BY <1>2 DEF Attempts, Send, CutOff, FindOwner, EnsureProfile, EnsureEmbeddingProfile,
              WriteReplays, WriteRefused, Deliver, vars
<1>3. CASE Administration
  <2>1. ASSUME NEW g \in Grant, NEW s \in Scope, NEW m \in Memory, NEW n \in Revision,
               NEW k \in Key, PurgeMemory(g, s, m, n, k)
        PROVE  FALSE
    <3>1. e = Event(m, n + 1, "purge", g)
      BY <2>1 DEF PurgeMemory
    <3>2. QED
      BY <3>1 DEF Event
  <2>2. ASSUME NEW g \in Grant, NEW s \in Scope, Generations(g, s)
        PROVE  events' = events
    BY <2>2 DEF Generations, CutoverEmbeddingGeneration, FailEmbeddingGeneration
  <2>3. QED
    BY <1>1, <1>3, <2>1, <2>2 DEF Administration, Backfill, RevokeGrant
<1>4. CASE EmbedderFails \/ EmbedderRecovers \/ UNCHANGED allVars
  BY <1>1, <1>4 DEF EmbedderFails, EmbedderRecovers, allVars, vars
<1>5. CASE \E o \in Owner, s \in Scope, n \in Generation, model \in Model :
               BuildsGeneration(o, s, n, model)
  BY <1>1, <1>5 DEF BuildsGeneration, BeginBuilding
<1>6. QED
  BY <1>1, <1>2, <1>3, <1>4, <1>5 DEF ServiceNext

LEMMA WritesComparable ==
    ASSUME ServiceTypeOK, VectorsOfRunning, NEW c \in Call, NEW i \in Attempt,
           WriteCommits(c, i), NEW e \in events' \ events, e.op \in {"add", "replace"}
    PROVE  \A n \in Mapped(e.mem)' : embeddings'[e.mem][n] # embeddings[e.mem][n] =>
               identity[rows'[e.mem].owner][rows'[e.mem].scope][n] = RunningModel
<1> DEFINE a == Asked[c]
           o == OwnerOf(c)
           blobs == attempts[c][i].blobs
<1>1. \A n \in blobs : n \in Generation /\ \E s \in {a.scope, a.new} : OfRunning(o, s, n)
  BY DEF VectorsOfRunning, ScopesOf, ServiceTypeOK, AttemptType
\* What is written is what the attempt holds vectors for.
<1>2. ASSUME NEW m \in Memory, NEW t, NEW d, embeddings' = [embeddings EXCEPT ![m] = Rewritten(m, blobs, t, d)],
             NEW n \in Mapped(m)', embeddings'[m][n] # embeddings[m][n]
      PROVE  n \in blobs
  BY <1>2 DEF Rewritten, Mapped, ServiceTypeOK, TypeOK
<1>3. CASE a.op = "add"
  <2>1. PICK m \in Memory : AddMemory(a.grant, a.scope, m, a.content, a.key, blobs)
    BY <1>3 DEF WriteCommits
  <2>2. e.mem = m
    BY <2>1 DEF AddMemory, Event
  <2>3. rows'[m].owner = o /\ rows'[m].scope = a.scope
    BY <2>1 DEF AddMemory, ServiceTypeOK, TypeOK, OwnerOf
  <2>4. a.new = a.scope
    BY <1>3, CallAssumption
  <2>5. \A n \in blobs : identity[o][a.scope][n] = RunningModel
    BY <1>1, <2>4 DEF OfRunning
  <2>6. embeddings' = [embeddings EXCEPT ![m] = Rewritten(m, blobs, a.scope, a.content)]
    BY <2>1 DEF AddMemory
  <2>7. QED
    BY <1>2, <2>2, <2>3, <2>5, <2>6
<1>4. CASE a.op = "replace"
  <2> DEFINE m == a.mem
  <2>1. /\ ReplaceMemory(a.grant, a.scope, a.new, m, a.rev, a.content, a.key, blobs)
        /\ a.new # a.scope => SameProfiles(o, a.scope, a.new)
        /\ m \in Memory
    BY <1>4, AskedTyped DEF WriteCommits
  <2>2. e.mem = m
    BY <2>1 DEF ReplaceMemory, Event
  <2>3. rows'[m].owner = o /\ rows'[m].scope = a.new
    BY <2>1 DEF ReplaceMemory, ServiceTypeOK, TypeOK, OwnerOf
  <2>4. blobs = Current(o, a.new)
    BY <2>1 DEF ReplaceMemory, Covers, OwnerOf
  <2>5. \A n \in blobs : identity[o][a.new][n] = RunningModel
    BY <1>1, <2>1, <2>4 DEF OfRunning, SameProfiles
  <2>6. embeddings' = [embeddings EXCEPT ![m] = Rewritten(m, blobs, a.new, a.content)]
    BY <2>1 DEF ReplaceMemory
  <2>7. QED
    BY <1>2, <2>1, <2>2, <2>3, <2>5, <2>6
<1>5. CASE a.op = "remove"
  <2>1. e = Event(a.mem, a.rev + 1, "remove", a.grant)
    BY <1>5 DEF WriteCommits, RemoveMemory
  <2>2. QED
    BY <2>1 DEF Event
<1>6. QED
  BY <1>3, <1>4, <1>5 DEF WriteCommits

\* R6.6 and R6.7 for every interleaving of calls, cutovers and new generations:
\* no write stores a vector of the running embedder in a generation of another
\* model.
THEOREM WritesStayComparable == ServiceSpec => VectorsComparable
<1>1. ServiceInit => VectorsOfRunning
  BY DEF ServiceInit, VectorsOfRunning, Idle
<1>2. ServiceTypeOK /\ OneActive /\ VectorsOfRunning /\ [ServiceNext]_allVars
        => VectorsOfRunning'
  BY VectorsOfRunningStep
<1>3. ServiceSpec => []OneActive
  BY ImplementsRepository, OneActiveGeneration, PTL
<1>4. ServiceTypeOK /\ VectorsOfRunning /\ [ServiceNext]_allVars =>
        [\A e \in events' \ events : e.op \in {"add", "replace"} =>
            LET r == rows'[e.mem] IN
            \A n \in Mapped(e.mem)' : embeddings'[e.mem][n] # embeddings[e.mem][n] =>
                identity[r.owner][r.scope][n] = RunningModel]_allVars
  BY CallsWrite, WritesComparable
<1>5. QED
  BY <1>1, <1>2, <1>3, <1>4, ServiceTypeCorrect, PTL DEF ServiceSpec, VectorsComparable
=============================================================================
