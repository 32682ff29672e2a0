---------------------------- MODULE RemoteCalls ----------------------------
(***************************************************************************)
(* A read or an administrative call on its way through the server: who is  *)
(* calling (authority.py, adminapi.py), what that caller may do (service.py*)
(* admin.py), what the repository answers (mcp_repository.py) and what the *)
(* administrator's log keeps of it.                                        *)
(*                                                                         *)
(* A call is checked when it arrives and again in the query itself.  In    *)
(* between, grants are bound, narrowed and unlinked, tokens are revoked,   *)
(* memories are written, and the process may end.  McpRepository has the   *)
(* writes in full; here a memory is a scope and whether it is deleted.     *)
(***************************************************************************)
EXTENDS ClientGrants

CONSTANTS
    Scope,           \* scopes of memories
    Memory,          \* memories
    MemoryOwner,     \* the owner of each
    Call,            \* calls
    Asked,           \* what each call asks for
    LocalTerms,      \* what the local grant allows
    Session,         \* the token of the local admin session, of any start
    SessionTTL,      \* how long a session lasts
    MinCardinality,  \* smaller scopes are not counted (MIN_DIAGNOSTIC_CARDINALITY)
    MaxSent          \* bound: no more calls are sent

ReadTool == {"search", "get", "recent", "status"}
AdminTool == {"export", "export_all", "restore", "purge"}
Ask == [tool : ReadTool \cup AdminTool, cred : Token \cup {Session},
        scope : Scope, mem : Memory]
Terms == [owner : Owner, perms : SUBSET Perm, scopes : SUBSET Scope]

\* A row of client_grants, which may be taken out of force but never goes, and of memory_metadata.
GrantRow == [inForce : BOOLEAN, owner : Owner, perms : SUBSET Perm, scopes : SUBSET Scope]
Row == [scope : Scope, deleted : BOOLEAN]

ASSUME CallAssumption ==
    /\ MemoryOwner \in [Memory -> Owner]
    /\ Asked \in [Call -> Ask]
    /\ LocalTerms \in Terms
    /\ Session \notin Token
    /\ SessionTTL \in Nat /\ MinCardinality \in Nat /\ MaxSent \in Nat
    /\ None \notin Client \X Generation /\ None \notin GrantRow /\ None \notin Row

\* The grant of a caller: a row of client_grants, or None for the local one.
Caller == [grant : Client \X Generation \cup {None}, perms : SUBSET Perm,
           scopes : SUBSET Scope]
Nobody == [grant |-> None, perms |-> {}, scopes |-> {}]

Step == {"new", "sent", "let_in", "running", "done", "answered"}
CallState == [at : Step, session : 0..MaxStarts, caller : Caller, todo : SUBSET Scope,
              found : SUBSET Memory, outcome : {"none", "ok", "refused", "unavailable"}]

VARIABLES
    requireAuth,   \* whether the server asks for tokens, or serves loopback only
    rows,          \* the rows of client_grants
    place,         \* the rows of memory_metadata
    sessionEnds,   \* when the local admin session of this start expires
    calls,         \* the calls
    log,           \* the administrator's log: the entries of each call
    changed        \* history: the memories each call restored or purged

callVars == <<requireAuth, rows, place, sessionEnds, calls, log, changed>>
remoteVars == <<linkVars, callVars>>

RemoteTypeOK ==
    /\ LinkTypeOK
    /\ requireAuth \in BOOLEAN
    /\ rows \in [Client -> [Generation -> GrantRow \cup {None}]]
    /\ place \in [Memory -> Row \cup {None}]
    /\ sessionEnds \in 0..MaxTime + SessionTTL
    /\ calls \in [Call -> CallState]
    /\ log \in [Call -> SUBSET {"ok", "refused"}]
    /\ changed \in [Call -> SUBSET Memory]

NewCall == [at |-> "new", session |-> 0, caller |-> Nobody, todo |-> {},
            found |-> {}, outcome |-> "none"]

RemoteInit ==
    /\ LinkInit
    /\ requireAuth \in BOOLEAN
    /\ rows = [c \in Client |-> [n \in Generation |-> None]]
    /\ place \in [Memory -> Row \cup {None}]
    /\ sessionEnds = SessionTTL
    /\ calls = [k \in Call |-> NewCall]
    /\ log = [k \in Call |-> {}]
    /\ changed = [k \in Call |-> {}]

-----------------------------------------------------------------------------
(* The rows of client_grants.  Nothing in src/ writes one for a remote      *)
(* client; the schema keeps the generations of a client apart.              *)

InForce(c) == {n \in Generation : rows[c][n] # None /\ rows[c][n].inForce}

OutOfForce(table, c) ==
    [n \in Generation |-> IF table[c][n] = None THEN None
                          ELSE [table[c][n] EXCEPT !.inForce = FALSE]]

\* The grant the manager holds becomes the row in force of its client.
BindGrant(c, scopes) ==
    LET n == managed[c].gen IN
    /\ managed[c].active /\ rows[c][n] = None
    /\ rows' = [rows EXCEPT ![c] = [OutOfForce(rows, c) EXCEPT ![n] =
                    [inForce |-> TRUE, owner |-> managed[c].owner,
                     perms |-> managed[c].perms, scopes |-> scopes]]]
    /\ UNCHANGED <<linkVars, requireAuth, place, sessionEnds, calls, log, changed>>

\* A grant is revoked or unlinked.
UnlinkGrant(c) ==
    /\ InForce(c) # {}
    /\ rows' = [rows EXCEPT ![c] = OutOfForce(rows, c)]
    /\ UNCHANGED <<linkVars, requireAuth, place, sessionEnds, calls, log, changed>>

\* The scopes of a grant are narrowed where it stands.
NarrowGrant(c, n, s) ==
    /\ n \in InForce(c) /\ s \in rows[c][n].scopes
    /\ rows' = [rows EXCEPT ![c][n].scopes = @ \ {s}]
    /\ UNCHANGED <<linkVars, requireAuth, place, sessionEnds, calls, log, changed>>

\* Another call adds, moves, removes, restores or purges a memory.
WriteMemory(m, r) ==
    /\ IF place[m] = None THEN r # None /\ ~ r.deleted ELSE r # place[m]
    /\ place' = [place EXCEPT ![m] = r]
    /\ UNCHANGED <<linkVars, requireAuth, rows, sessionEnds, calls, log, changed>>

-----------------------------------------------------------------------------
(* Who is calling. *)

\* lookup_grant: the newest grant in force of the client of a token.
Newest(c) == CHOOSE n \in InForce(c) : \A i \in InForce(c) : i <= n

PermsOf(t) == rows[Claims[t].client][Newest(Claims[t].client)].perms \cap Claims[t].perms

\* token_resolver: a caller has what its grant and its token both allow.
TokenCaller(t) ==
    LET c == Claims[t].client IN
    IF t \in Token /\ ValidToken(t) /\ InForce(c) # {} /\ PermsOf(t) # {}
      THEN [grant |-> <<c, Newest(c)>>, perms |-> PermsOf(t),
            scopes |-> rows[c][Newest(c)].scopes]
      ELSE Nobody

LocalCaller == [grant |-> None, perms |-> LocalTerms.perms, scopes |-> LocalTerms.scopes]

\* The resolver of the server: tokens, or the local grant whatever is presented.
Resolve(cred) ==
    IF ~ requireAuth THEN LocalCaller
    ELSE IF cred \in Token THEN TokenCaller(cred) ELSE Nobody

\* has_oauth_scope: an administrator may do everything.
Has(caller, perm) == caller.perms \cap {perm, "admin"} # {}

-----------------------------------------------------------------------------
(* The life of a call. *)

Asks(k) == Asked[k].tool
Goes(k, state) == calls' = [calls EXCEPT ![k] = state]
Refuse(k) == Goes(k, [calls[k] EXCEPT !.at = "answered", !.outcome = "refused"])

\* A client sends a call.  The administrator's command has read the session file
\* before it does, and gives up if the session has expired.
Send(k) ==
    /\ calls[k].at = "new"
    /\ Cardinality({j \in Call : calls[j].at # "new"}) < MaxSent
    /\ Asked[k].cred = Session => now < sessionEnds
    /\ Goes(k, [calls[k] EXCEPT !.at = "sent", !.session = starts])
    /\ UNCHANGED <<linkVars, requireAuth, rows, place, sessionEnds, log, changed>>

\* RequireBearerMiddleware: without a verified token there is no endpoint.
LetIn(k) ==
    /\ calls[k].at = "sent" /\ Asks(k) \in ReadTool
    /\ IF requireAuth /\ Resolve(Asked[k].cred) = Nobody
         THEN Refuse(k)
         ELSE Goes(k, [calls[k] EXCEPT !.at = "let_in"])
    /\ UNCHANGED <<linkVars, requireAuth, rows, place, sessionEnds, log, changed>>

\* _authorize of the tools; diagnostics are the administrator's.
MayRead(caller, k) ==
    IF Asks(k) = "status" THEN "admin" \in caller.perms
    ELSE Has(caller, "read") /\ Asked[k].scope \in caller.scopes

\* The middleware resolves the caller again, and the tool checks what it may do.
StartRead(k) ==
    LET caller == Resolve(Asked[k].cred) IN
    /\ calls[k].at = "let_in"
    /\ IF MayRead(caller, k)
         THEN Goes(k, [calls[k] EXCEPT !.at = "running", !.caller = caller,
                           !.todo = IF Asks(k) = "status" THEN caller.scopes
                                    ELSE {Asked[k].scope}])
         ELSE Refuse(k)
    /\ UNCHANGED <<linkVars, requireAuth, rows, place, sessionEnds, log, changed>>

-----------------------------------------------------------------------------
(* Reads.  The query asks for the grant again, as the database has it now. *)

LocalRow == [inForce |-> TRUE, owner |-> LocalTerms.owner,
             perms |-> LocalTerms.perms, scopes |-> LocalTerms.scopes]

GrantNow(grant) == IF grant = None THEN LocalRow ELSE rows[grant[1]][grant[2]]

\* Mutant: the query trusts that the grant is still in force.
Authorized_OnceResolved(grant, perms, m, s) ==
    LET g == GrantNow(grant) IN
    /\ g.owner = MemoryOwner[m]
    /\ g.perms \cap perms # {} /\ s \in g.scopes
    /\ place[m] # None /\ place[m].scope = s

\* The join of memory_metadata with client_grants.
Authorized(grant, perms, m, s) ==
    LET g == GrantNow(grant) IN
    /\ g.inForce /\ g.owner = MemoryOwner[m]
    /\ g.perms \cap perms # {} /\ s \in g.scopes
    /\ place[m] # None /\ place[m].scope = s

Readable(k, s) == {m \in Memory : /\ Authorized(calls[k].caller.grant, {"read", "admin"}, m, s)
                                  /\ ~ place[m].deleted}

Running(k, tools) == calls[k].at = "running" /\ Asks(k) \in tools

Answer(k, found) ==
    /\ Goes(k, [calls[k] EXCEPT !.at = "answered", !.found = found, !.outcome = "ok"])
    /\ UNCHANGED <<linkVars, requireAuth, rows, place, sessionEnds, log, changed>>

\* search_scoped: the full-text index decides what matches.
SearchScoped(k) ==
    /\ Running(k, {"search"})
    /\ \E found \in SUBSET Readable(k, Asked[k].scope) : Answer(k, found)

GetScopedMemory(k) ==
    /\ Running(k, {"get"})
    /\ Answer(k, Readable(k, Asked[k].scope) \cap {Asked[k].mem})

RecentScopedMemories(k) ==
    /\ Running(k, {"recent"})
    /\ Answer(k, Readable(k, Asked[k].scope))

\* scope_cardinality of the next scope; a small scope stays undisclosed.
ScopeCardinality(k, s) ==
    LET counted == IF Cardinality(Readable(k, s)) < MinCardinality THEN {}
                   ELSE Readable(k, s)
    IN
    /\ Running(k, {"status"}) /\ s \in calls[k].todo
    /\ Goes(k, [calls[k] EXCEPT !.todo = @ \ {s}, !.found = @ \cup counted])
    /\ UNCHANGED <<linkVars, requireAuth, rows, place, sessionEnds, log, changed>>

Status(k) ==
    /\ Running(k, {"status"}) /\ calls[k].todo = {}
    /\ Answer(k, calls[k].found)

-----------------------------------------------------------------------------
(* Administration. *)

\* AdminAuthenticator: the session of this start until it expires, or a token if
\* the server asks for tokens.  That loopback serves anyone does not count here.
AdminCaller(k) ==
    IF Asked[k].cred = Session
      THEN IF calls[k].session = starts /\ now < sessionEnds THEN LocalCaller ELSE Nobody
    ELSE IF requireAuth THEN TokenCaller(Asked[k].cred) ELSE Nobody

\* A refusal before the repository is asked leaves no entry in the log.
StartAdmin(k) ==
    LET caller == AdminCaller(k) IN
    /\ calls[k].at = "sent" /\ Asks(k) \in AdminTool
    /\ IF "admin" \in caller.perms /\ Asked[k].scope \in caller.scopes
         THEN Goes(k, [calls[k] EXCEPT !.at = "running", !.caller = caller])
         ELSE Refuse(k)
    /\ UNCHANGED <<linkVars, requireAuth, rows, place, sessionEnds, log, changed>>

Administers(k, m) == Authorized(calls[k].caller.grant, {"admin"}, m, Asked[k].scope)

Ended(k, found, outcome) ==
    Goes(k, [calls[k] EXCEPT !.at = "done", !.found = found, !.outcome = outcome])

\* export_scoped, with the tombstones if they are asked for.
ExportScoped(k) ==
    /\ Running(k, {"export", "export_all"})
    /\ Ended(k, {m \in Memory : /\ Administers(k, m)
                                /\ place[m].deleted => Asks(k) = "export_all"}, "ok")
    /\ UNCHANGED <<linkVars, requireAuth, rows, place, sessionEnds, log, changed>>

\* restore_memory or purge_memory commits.
Commit(k, m, r) ==
    /\ Administers(k, m)
    /\ place' = [place EXCEPT ![m] = r]
    /\ changed' = [changed EXCEPT ![k] = @ \cup {m}]
    /\ Ended(k, {}, "ok")
    /\ UNCHANGED <<linkVars, requireAuth, rows, sessionEnds, log>>

RestoreMemory(k) ==
    LET m == Asked[k].mem IN
    /\ Running(k, {"restore"})
    /\ place[m] # None /\ place[m].deleted
    /\ Commit(k, m, [place[m] EXCEPT !.deleted = FALSE])

PurgeMemory(k) ==
    /\ Running(k, {"purge"})
    /\ Commit(k, Asked[k].mem, None)

\* The repository refuses: no such row, another revision, a used key, a failure.
RefuseAdmin(k) ==
    /\ Running(k, {"restore", "purge"})
    /\ Ended(k, {}, "refused")
    /\ UNCHANGED <<linkVars, requireAuth, rows, place, sessionEnds, log, changed>>

\* Mutant: an answer does not wait for its entry.
Record_Later(k, outcome) == UNCHANGED log

\* Mutant: what the client is told is recorded, not what the call did.
Record_AsAnswered(k, outcome) == log' = [log EXCEPT ![k] = @ \cup {calls'[k].outcome}]

Record(k, outcome) == log' = [log EXCEPT ![k] = @ \cup {outcome}]

\* _record: the entry is written before the answer is given.
AnswerRecorded(k) ==
    /\ calls[k].at = "done"
    /\ Goes(k, [calls[k] EXCEPT !.at = "answered"])
    /\ Record(k, calls[k].outcome)
    /\ UNCHANGED <<linkVars, requireAuth, rows, place, sessionEnds, changed>>

\* The entry cannot be written, or its file cannot be hardened after it was: the
\* answer is withheld, what the call did is not undone.
RecordFails(k) ==
    /\ calls[k].at = "done"
    /\ Goes(k, [calls[k] EXCEPT !.at = "answered", !.found = {}, !.outcome = "unavailable"])
    /\ Record(k, calls[k].outcome) \/ UNCHANGED log
    /\ UNCHANGED <<linkVars, requireAuth, rows, place, sessionEnds, changed>>

-----------------------------------------------------------------------------

\* The calls under way are lost; one that was only sent reaches the next process.
Cut(call) ==
    IF call.at \in {"let_in", "running", "done"}
      THEN [call EXCEPT !.at = "answered", !.found = {}, !.outcome = "unavailable"]
      ELSE call

\* The server ends and starts again, with a new admin session.
Restart ==
    /\ Forget
    /\ calls' = [k \in Call |-> Cut(calls[k])]
    /\ sessionEnds' = now + SessionTTL
    /\ UNCHANGED <<requireAuth, rows, place, log, changed>>

Reads(k) ==
    \/ LetIn(k) \/ StartRead(k)
    \/ SearchScoped(k) \/ GetScopedMemory(k) \/ RecentScopedMemories(k)
    \/ \E s \in Scope : ScopeCardinality(k, s)
    \/ Status(k)

Administration(k) ==
    \/ StartAdmin(k) \/ ExportScoped(k) \/ RestoreMemory(k) \/ PurgeMemory(k)
    \/ RefuseAdmin(k) \/ AnswerRecorded(k) \/ RecordFails(k)

GrantTable ==
    \E c \in Client :
        \/ \E scopes \in SUBSET Scope \ {{}} : BindGrant(c, scopes)
        \/ UnlinkGrant(c)
        \/ \E n \in Generation, s \in Scope : NarrowGrant(c, n, s)

RemoteNext ==
    \/ (Linking \/ Tick) /\ UNCHANGED callVars
    \/ GrantTable
    \/ \E m \in Memory, r \in Row \cup {None} : WriteMemory(m, r)
    \/ \E k \in Call : Send(k) \/ Reads(k) \/ Administration(k)
    \/ Restart

RemoteSpec == RemoteInit /\ [][RemoteNext]_remoteVars

-----------------------------------------------------------------------------
(* What owners may rely on. *)

\* What the credential of a call is worth now: the local grant, or what the
\* grant in force of its client and its token both allow.
NoTerms == [owner |-> None, perms |-> {}, scopes |-> {}]

TokenTerms(t) ==
    LET c == Claims[t].client IN
    IF InForce(c) = {} THEN NoTerms
    ELSE LET g == rows[c][Newest(c)] IN
         [owner |-> g.owner, perms |-> g.perms \cap Claims[t].perms, scopes |-> g.scopes]

TermsOf(k) ==
    LET cred == Asked[k].cred
        local == IF Asks(k) \in ReadTool THEN ~ requireAuth
                 ELSE cred = Session /\ calls[k].session = starts
    IN
    IF local THEN LocalTerms
    ELSE IF requireAuth /\ cred \in Token THEN TokenTerms(cred)
    ELSE NoTerms

\* The memories those terms reach.
Reached(k, perms) ==
    LET terms == TermsOf(k) IN
    {m \in Memory :
        /\ place[m] # None
        /\ place[m].scope \in terms.scopes
        /\ Asks(k) # "status" => place[m].scope = Asked[k].scope
        /\ terms.owner = MemoryOwner[m]
        /\ terms.perms \cap perms # {}}

AllowedTo(k) ==
    IF Asks(k) \in ReadTool THEN {m \in Reached(k, {"read", "admin"}) : ~ place[m].deleted}
    ELSE IF Asks(k) \in {"export", "export_all"}
      THEN {m \in Reached(k, {"admin"}) : place[m].deleted => Asks(k) = "export_all"}
    ELSE {}

Granted == INSTANCE GrantedCalls WITH
    allowed <- [k \in Call |-> AllowedTo(k)],
    inReach <- [k \in Call |-> Reached(k, {"admin"})],
    seen <- [k \in Call |-> calls[k].found]

\* A call learns of a memory, or changes one, only in a step in which the terms
\* its caller holds allow it, although its caller was resolved in an earlier
\* step and its grant may have been unlinked, narrowed or bound again since
\* (R5.6, R8.10).
ServedAsGranted == Granted!Spec

\* The administrator's log tells no lie: an entry says what the call did, and no
\* exported memory is handed out and no change acknowledged without one (R8.3).
AdminLogTrue ==
    \A k \in Call : Asks(k) \in AdminTool =>
        LET did == IF Asks(k) \in {"restore", "purge"} THEN {Asked[k].mem} ELSE {} IN
        /\ "ok" \in log[k] => changed[k] = did
        /\ "refused" \in log[k] => changed[k] = {}
        /\ calls[k].at = "answered" /\ calls[k].outcome = "ok" =>
               "ok" \in log[k] /\ changed[k] = did
        /\ calls[k].at = "answered" /\ "ok" \notin log[k] => calls[k].found = {}

-----------------------------------------------------------------------------
(* What the documents promise and the code does not keep. *)

\* R5.10: a generation that was revoked or unlinked is invalid for ever, and a
\* new authorization does not bring it back.  So a token of a generation out of
\* force is served nothing by a server that asks for tokens.
OldGenerationStaysInvalid ==
    [][\A k \in Call :
          /\ requireAuth /\ Asked[k].cred \in Token
          /\ ~ (calls'[k].found \subseteq calls[k].found)
          => LET claim == Claims[Asked[k].cred]
                 row == rows[claim.client][claim.gen]
             IN row # None => row.inForce]_remoteVars
=============================================================================
