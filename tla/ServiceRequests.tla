--------------------------- MODULE ServiceRequests ---------------------------
(***************************************************************************)
(* One write call on its way through the tools (service.py), the adapter   *)
(* (authority.py) and the repository, and back to a client that repeats it *)
(* under the same key.                                                     *)
(*                                                                         *)
(* A call is not atomic.  It asks the embedder, reads the owner of the     *)
(* grant, ensures an embedding profile in each scope it touches (one       *)
(* transaction each), runs the method of the repository (one transaction)  *)
(* and answers.  Other calls, the administrator, the reindexer and further *)
(* attempts of the same call run in between, and an attempt may be cut off *)
(* at any point.                                                           *)
(***************************************************************************)
EXTENDS McpRepository

CONSTANTS
    Call,         \* the calls clients make
    Asked,        \* what each call asks for
    Attempt,      \* the attempts of a call that may be under way at once
    Model,        \* embedding models: provider, endpoint, name and dimension
    RunningModel, \* the one the embedder of the service runs
    MaxInFlight,  \* bound: the attempts of all calls under way at once
    MaxCut,       \* bound: no more attempts are cut off
    MaxOutages    \* bound: the embedder fails no more often

WriteOp == {"add", "replace", "remove"}
Ask == [grant : Grant, op : WriteOp, scope : Scope, new : Scope,
        mem : Memory \cup {None}, rev : 0..MaxRevision,
        content : Content \cup {None}, key : Key]

\* What a successful call did: the memory and its new revision.
Result == [code : {"ok"}, mem : Memory, rev : 1..MaxRevision]
Code == {"none", "not_authorized", "conflict", "reused", "purged", "failed", "unavailable"}
Refusal == [code : Code, mem : {None}, rev : {0}]
Done(m, n) == [code |-> "ok", mem |-> m, rev |-> n]
Refused(code) == [code |-> code, mem |-> None, rev |-> 0]

Step == {"idle", "owner", "profile", "write", "answer"}
AttemptType == [at : Step, todo : SUBSET Scope, blobs : SUBSET Generation,
                answer : Result \cup Refusal]

VARIABLES
    attempts,   \* the attempts of each call that are under way
    told,       \* the answers each call's client has received
    effects,    \* history: what each call did
    identity,   \* the model of each embedding profile
    embedder,   \* whether the embedder answers
    faults      \* history: attempts cut off and outages of the embedder

serviceVars == <<attempts, told, effects, identity, embedder, faults>>
allVars == <<vars, serviceVars>>

\* The keyed digest of a call.
Digest(c) ==
    LET a == Asked[c] IN
    CASE a.op = "add" -> AddRequest(a.scope, a.content)
      [] a.op = "replace" -> ReplaceRequest(a.scope, a.new, a.mem, a.rev, a.content)
      [] a.op = "remove" -> RowRequest("remove", a.scope, a.mem, a.rev)

\* A call is its grant, its operation, its key and what the digest covers.
ASSUME CallAssumption ==
    /\ Asked \in [Call -> Ask]
    /\ \A c \in Call : /\ Asked[c].op = "add" <=> Asked[c].mem = None
                       /\ Asked[c].op = "remove" <=> Asked[c].content = None
                       /\ Asked[c].op # "replace" => Asked[c].new = Asked[c].scope
    /\ \A c, d \in Call :
           /\ Asked[c].grant = Asked[d].grant /\ Asked[c].key = Asked[d].key
           /\ Digest(c) = Digest(d)
           => c = d
    /\ RunningModel \in Model /\ None \notin Model
    /\ MaxInFlight \in Nat \ {0} /\ MaxCut \in Nat /\ MaxOutages \in Nat

Idle == [at |-> "idle", todo |-> {}, blobs |-> {}, answer |-> Refused("none")]

ServiceTypeOK ==
    /\ TypeOK
    /\ attempts \in [Call -> [Attempt -> AttemptType]]
    /\ told \in [Call -> SUBSET (Result \cup Refusal)]
    /\ effects \in [Call -> SUBSET Result]
    /\ identity \in [Owner -> [Scope -> [Generation -> Model \cup {None}]]]
    /\ embedder \in BOOLEAN
    /\ faults \in [cut : 0..MaxCut, outages : 0..MaxOutages]

ServiceInit ==
    /\ Init
    /\ attempts = [c \in Call |-> [i \in Attempt |-> Idle]]
    /\ told = [c \in Call |-> {}]
    /\ effects = [c \in Call |-> {}]
    /\ identity = [o \in Owner |-> [s \in Scope |-> [n \in Generation |-> None]]]
    /\ embedder = TRUE
    /\ faults = [cut |-> 0, outages |-> 0]

-----------------------------------------------------------------------------
OwnerOf(c) == GrantOwner[Asked[c].grant]
ScopesOf(c) == {Asked[c].scope, Asked[c].new}

\* The client keeps asking until it knows: only "unavailable" is worth a retry.
Settled(c) == told[c] \ {Refused("unavailable")} # {}

Goes(c, i, a) == attempts' = [attempts EXCEPT ![c][i] = a]
Answers(c, i, answer) == Goes(c, i, [Idle EXCEPT !.at = "answer", !.answer = answer])

InFlight == {p \in Call \X Attempt : attempts[p[1]][p[2]].at # "idle"}

\* The context of the caller, which is what its grant was when it was bound.
InContext(c) ==
    LET bound == GrantRow[Asked[c].grant] IN
    bound.perms \cap {"write", "admin"} # {} /\ ScopesOf(c) \subseteq bound.scopes

\* The client sends the call, or sends it again after a time-out, an answer it
\* lost or a failure that may pass.  The tool checks its context and embeds the
\* content, whether or not the call was made before; a removal has none.
Send(c, i) ==
    /\ attempts[c][i].at = "idle" /\ ~ Settled(c)
    /\ Cardinality(InFlight) < MaxInFlight
    /\ IF ~ InContext(c) THEN Answers(c, i, Refused("not_authorized"))
       ELSE IF Asked[c].op = "remove" THEN Goes(c, i, [Idle EXCEPT !.at = "write"])
       ELSE IF embedder THEN Goes(c, i, [Idle EXCEPT !.at = "owner"])
       ELSE Answers(c, i, Refused("unavailable"))
    /\ UNCHANGED <<vars, told, effects, identity, embedder, faults>>

\* _owner_for_write: the owner behind the grant, if it may write right now.
FindOwner(c, i) ==
    /\ attempts[c][i].at = "owner"
    /\ IF CanWrite(Asked[c].grant, ScopesOf(c))
         THEN Goes(c, i, [Idle EXCEPT !.at = "profile", !.todo = ScopesOf(c)])
         ELSE Answers(c, i, Refused("not_authorized"))
    /\ UNCHANGED <<vars, told, effects, identity, embedder, faults>>

\* Mutant: the running embedder is not compared with the profiles.
Comparable_Always(o, s) == TRUE

\* The running embedder is the one that made every profile a write must cover.
Comparable(o, s) == \A n \in Current(o, s) : identity[o][s][n] = RunningModel

\* ensure_embedding_profile of the next scope: the generations a write to it has
\* to cover now, the first of which is made if there is none.
EnsureProfile(c, i) ==
    LET o == OwnerOf(c)
        a == attempts[c][i]
        s == IF Asked[c].scope \in a.todo THEN Asked[c].scope ELSE Asked[c].new
        Covered(gens) == Goes(c, i, [a EXCEPT !.blobs = @ \cup gens, !.todo = @ \ {s},
                                     !.at = IF a.todo = {s} THEN "write" ELSE @])
    IN
    /\ a.at = "profile"
    /\ \/ /\ Current(o, s) # {} /\ Comparable(o, s)
          /\ Covered(Current(o, s))
          /\ UNCHANGED <<vars, identity>>
       \/ /\ ~ Comparable(o, s)
          /\ Answers(c, i, Refused("unavailable"))
          /\ UNCHANGED <<vars, identity>>
       \/ /\ Current(o, s) = {}
          /\ IF profiles[o][s][FirstGeneration] = "none"
               THEN /\ EnsureEmbeddingProfile(o, s)
                    /\ identity' = [identity EXCEPT ![o][s][FirstGeneration] = RunningModel]
               ELSE UNCHANGED <<vars, identity>>
          /\ Covered({FirstGeneration})
    /\ UNCHANGED <<told, effects, embedder, faults>>

-----------------------------------------------------------------------------
(* The transaction of the repository. *)

\* The profiles of two scopes are the same, their models included.
SameProfiles(o, s, t) ==
    /\ Current(o, s) = Current(o, t)
    /\ \A n \in Current(o, s) : identity[o][s][n] = identity[o][t][n]

\* Mutant: the answer is the revision that the call expected.
Happens_Expected(c, i, m, n) ==
    /\ effects' = [effects EXCEPT ![c] = @ \cup {Done(m, n)}]
    /\ Answers(c, i, Done(m, n - 1))

\* Call c has done this and will be told so.
Happens(c, i, m, n) ==
    /\ effects' = [effects EXCEPT ![c] = @ \cup {Done(m, n)}]
    /\ Answers(c, i, Done(m, n))

\* It commits.  An add has drawn a new memory id.
WriteCommits(c, i) ==
    LET a == Asked[c]
        blobs == attempts[c][i].blobs IN
    /\ attempts[c][i].at = "write"
    /\ \/ /\ a.op = "add"
          /\ \E m \in Memory :
               /\ \A e \in events : e.mem # m
               /\ AddMemory(a.grant, a.scope, m, a.content, a.key, blobs)
               /\ Happens(c, i, m, 1)
       \/ /\ a.op = "replace"
          /\ a.new # a.scope => SameProfiles(OwnerOf(c), a.scope, a.new)
          /\ ReplaceMemory(a.grant, a.scope, a.new, a.mem, a.rev, a.content, a.key, blobs)
          /\ Happens(c, i, a.mem, a.rev + 1)
       \/ /\ a.op = "remove"
          /\ RemoveMemory(a.grant, a.scope, a.mem, a.rev, a.key)
          /\ Happens(c, i, a.mem, a.rev + 1)
    /\ UNCHANGED <<told, identity, embedder, faults>>

\* The kept results that the call's key finds in its scope.
Found(c) == KeyRows(Asked[c].grant, Asked[c].scope, Asked[c].key)

\* It has committed before: the kept result is returned.
WriteReplays(c, i) ==
    /\ attempts[c][i].at = "write"
    /\ CanWrite(Asked[c].grant, ScopesOf(c))
    /\ \E r \in Found(c) : /\ Resolution(r, Digest(c)) = "replay"
                           /\ Answers(c, i, Done(r.mem, r.rev))
    /\ UNCHANGED <<vars, told, effects, identity, embedder, faults>>

\* The row the call is about.
Visible(c) ==
    LET r == rows[Asked[c].mem] IN
    r # None /\ r.owner = OwnerOf(c) /\ r.scope = Asked[c].scope /\ ~ r.deleted

\* Mutant: a write that lost the race with a cutover is not answered.
Fits_AnyCover(c, blobs) == PrimaryKeyFree(Asked[c].grant, Asked[c].op, Asked[c].key)

\* What else the transaction needs: vectors for the generations there are now,
\* the same profiles on both sides of a move, and the primary key.
Fits(c, blobs) ==
    LET a == Asked[c]
        o == OwnerOf(c) IN
    /\ a.op # "remove" => blobs # {} /\ Covers(blobs, o, a.new)
    /\ a.new # a.scope => SameProfiles(o, a.scope, a.new) /\ CanMove(o, a.scope, a.new, a.mem)
    /\ PrimaryKeyFree(a.grant, a.op, a.key)

\* The check the call fails, in the order of the method (none: it commits).
Refusals(c, blobs) ==
    LET a == Asked[c] IN
    CASE ~ CanWrite(a.grant, ScopesOf(c)) -> {"not_authorized"}
      [] CanWrite(a.grant, ScopesOf(c)) /\ Found(c) # {} ->
            {Resolution(r, Digest(c)) : r \in Found(c)} \ {"replay"}
      [] OTHER ->
            IF a.op # "add" /\ ~ Visible(c) THEN {"not_authorized"}
            ELSE IF a.op # "add" /\ rows[a.mem].rev # a.rev THEN {"conflict"}
            ELSE IF ~ Fits(c, blobs) THEN {"failed"} ELSE {}

\* It is refused and rolled back.
WriteRefused(c, i) ==
    /\ attempts[c][i].at = "write"
    /\ \E code \in Refusals(c, attempts[c][i].blobs) : Answers(c, i, Refused(code))
    /\ UNCHANGED <<vars, told, effects, identity, embedder, faults>>

-----------------------------------------------------------------------------
\* The client receives the answer.
Deliver(c, i) ==
    /\ attempts[c][i].at = "answer"
    /\ told' = [told EXCEPT ![c] = @ \cup {attempts[c][i].answer}]
    /\ Goes(c, i, Idle)
    /\ UNCHANGED <<vars, effects, identity, embedder, faults>>

\* The connection or the process is gone, with the attempt or its answer.
CutOff(c, i) ==
    /\ attempts[c][i].at # "idle" /\ faults.cut < MaxCut
    /\ Goes(c, i, Idle)
    /\ faults' = [faults EXCEPT !.cut = @ + 1]
    /\ UNCHANGED <<vars, told, effects, identity, embedder>>

EmbedderFails ==
    /\ embedder /\ faults.outages < MaxOutages
    /\ embedder' = FALSE
    /\ faults' = [faults EXCEPT !.outages = @ + 1]
    /\ UNCHANGED <<vars, attempts, told, effects, identity>>

EmbedderRecovers ==
    /\ ~ embedder
    /\ embedder' = TRUE
    /\ UNCHANGED <<vars, attempts, told, effects, identity, faults>>

-----------------------------------------------------------------------------
(* The administrator and the reindexer, beside the calls. *)

BuildsGeneration(o, s, n, model) ==
    /\ BeginBuilding(o, s, n)
    /\ identity' = [identity EXCEPT ![o][s][n] = model]
    /\ UNCHANGED <<attempts, told, effects, embedder, faults>>

Administration ==
    /\ \/ \E g \in Grant, s \in Scope, m \in Memory, n \in Revision, k \in Key :
             PurgeMemory(g, s, m, n, k)
       \/ \E g \in Grant, s \in Scope : Generations(g, s)
       \/ \E m \in Memory, n \in Generation : Backfill(m, n)
       \/ \E c \in Call : RevokeGrant(Asked[c].grant)
    /\ UNCHANGED serviceVars

Attempts(c, i) ==
    \/ FindOwner(c, i) \/ EnsureProfile(c, i)
    \/ WriteCommits(c, i) \/ WriteReplays(c, i) \/ WriteRefused(c, i)
    \/ Deliver(c, i)

ServiceNext ==
    \/ \E c \in Call, i \in Attempt : Send(c, i) \/ Attempts(c, i) \/ CutOff(c, i)
    \/ EmbedderFails \/ EmbedderRecovers
    \/ \E o \in Owner, s \in Scope, n \in Generation, model \in Model :
           BuildsGeneration(o, s, n, model)
    \/ Administration

ServiceSpec == ServiceInit /\ [][ServiceNext]_allVars

\* A client that does not know keeps asking, a handler that runs keeps running,
\* and an outage of the embedder ends.
ServiceFairness ==
    /\ \A c \in Call, i \in Attempt : WF_allVars(Send(c, i)) /\ WF_allVars(Attempts(c, i))
    /\ WF_allVars(EmbedderRecovers)

FairServiceSpec == ServiceSpec /\ ServiceFairness

-----------------------------------------------------------------------------
(* What a client may rely on. *)

\* However often a call is sent, cut off, answered late or answered twice, it
\* takes effect at most once, and every success its client hears of is that
\* effect (R5.1, R5.2).
Once == INSTANCE IdempotentCalls
    WITH effect <- effects, told <- [c \in Call |-> told[c] \cap Result]
CallsTakeEffectOnce == Once!Spec

\* No write stores a vector of the running embedder in a generation of another
\* model, although the models are compared in one transaction and the vectors
\* stored in another, with cutovers and new generations in between (R6.6, R6.7).
VectorsComparable ==
    [][\A e \in events' \ events : e.op \in {"add", "replace"} =>
          LET r == rows'[e.mem] IN
          \A n \in Mapped(e.mem)' : embeddings'[e.mem][n] # embeddings[e.mem][n] =>
              identity[r.owner][r.scope][n] = RunningModel]_allVars

\* A client that keeps asking is told in the end, whatever is cut off and
\* whenever the embedder fails, unless its scope is given to another model.
CallsSettle ==
    \A c \in Call :
        (\E i \in Attempt : attempts[c][i].at # "idle") ~>
            \/ Settled(c)
            \/ \E s \in ScopesOf(c) : ~ Comparable(OwnerOf(c), s)

-----------------------------------------------------------------------------
(* What the documents promise and the code does not keep. *)

\* R6.8: while a generation is BUILDING every write stores a vector in it and in
\* the ACTIVE one.  So no write is refused for want of a vector unless the
\* embedder is down.
WritesDuringReindex ==
    [][\A c \in Call, i \in Attempt :
          attempts'[c][i].answer = Refused("unavailable") /\ attempts[c][i].at # "answer"
          => ~ embedder]_allVars
=============================================================================
