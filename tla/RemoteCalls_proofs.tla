------------------------- MODULE RemoteCalls_proofs -------------------------
(***************************************************************************)
(* RemoteCalls, for any clients, tokens, scopes, memories and calls: its   *)
(* types, the administrator's log, and that it implements GrantedCalls.    *)
(***************************************************************************)
EXTENDS RemoteCalls, ClientGrants_proofs

USE LinkAssumption, CallAssumption

-----------------------------------------------------------------------------
(* States of calls. *)

Outcome == {"none", "ok", "refused", "unavailable"}

LEMMA CallFields ==
    ASSUME NEW x \in CallState
    PROVE  /\ x.at \in Step /\ x.session \in 0..MaxStarts /\ x.caller \in Caller
           /\ x.todo \in SUBSET Scope /\ x.found \in SUBSET Memory
           /\ x.outcome \in Outcome
BY DEF CallState, Outcome

LEMMA NobodyTyped == Nobody \in Caller /\ LocalCaller \in Caller
BY DEF Nobody, LocalCaller, Caller, Terms

LEMMA NewCallTyped == NewCall \in CallState
BY NobodyTyped DEF NewCall, CallState, Step

\* The states a call goes to.
StartedCall(x, u, todo) == [x EXCEPT !.at = "running", !.caller = u, !.todo = todo]
StartedAdminCall(x, u) == [x EXCEPT !.at = "running", !.caller = u]
FinishedCall(x, a, f, o) == [x EXCEPT !.at = a, !.found = f, !.outcome = o]
CountedCall(x, s, f) == [x EXCEPT !.todo = x.todo \ {s}, !.found = x.found \cup f]
MovedCall(x, a) == [x EXCEPT !.at = a]
SentCall(x, n) == [x EXCEPT !.at = "sent", !.session = n]
RefusedCall(x) == [x EXCEPT !.at = "answered", !.outcome = "refused"]

\* A call moves on.
LEMMA Moved ==
    ASSUME NEW x \in CallState, NEW a \in Step
    PROVE  /\ MovedCall(x, a) \in CallState
           /\ MovedCall(x, a).at = a
           /\ MovedCall(x, a).session = x.session
           /\ MovedCall(x, a).caller = x.caller
           /\ MovedCall(x, a).found = x.found
           /\ MovedCall(x, a).outcome = x.outcome
BY DEF CallState, MovedCall

LEMMA Refused ==
    ASSUME NEW x \in CallState
    PROVE  /\ RefusedCall(x) \in CallState
           /\ RefusedCall(x).at = "answered"
           /\ RefusedCall(x).found = x.found
           /\ RefusedCall(x).outcome = "refused"
<1>1. [x EXCEPT !.at = "answered"] \in CallState
  BY Moved DEF MovedCall, Step
<1> QED BY <1>1 DEF CallState, RefusedCall

LEMMA Finished ==
    ASSUME NEW x \in CallState, NEW a \in Step, NEW f \in SUBSET Memory, NEW o \in Outcome
    PROVE  /\ FinishedCall(x, a, f, o) \in CallState
           /\ FinishedCall(x, a, f, o).at = a
           /\ FinishedCall(x, a, f, o).session = x.session
           /\ FinishedCall(x, a, f, o).caller = x.caller
           /\ FinishedCall(x, a, f, o).found = f
           /\ FinishedCall(x, a, f, o).outcome = o
<1>1. [x EXCEPT !.at = a] \in CallState
  BY Moved DEF MovedCall
<1>2. [x EXCEPT !.at = a, !.found = f] \in CallState
  BY <1>1 DEF CallState
<1> QED BY <1>2 DEF CallState, Outcome, FinishedCall

LEMMA Sent ==
    ASSUME NEW x \in CallState, NEW n \in 0..MaxStarts
    PROVE  /\ SentCall(x, n) \in CallState
           /\ SentCall(x, n).at = "sent"
           /\ SentCall(x, n).session = n
           /\ SentCall(x, n).caller = x.caller
           /\ SentCall(x, n).found = x.found
           /\ SentCall(x, n).outcome = x.outcome
<1>1. [x EXCEPT !.at = "sent"] \in CallState
  BY Moved DEF MovedCall, Step
<1> QED BY <1>1 DEF CallState, SentCall

LEMMA Started ==
    ASSUME NEW x \in CallState, NEW u \in Caller, NEW todo \in SUBSET Scope
    PROVE  /\ StartedCall(x, u, todo) \in CallState
           /\ StartedCall(x, u, todo).at = "running"
           /\ StartedCall(x, u, todo).session = x.session
           /\ StartedCall(x, u, todo).caller = u
           /\ StartedCall(x, u, todo).found = x.found
           /\ StartedCall(x, u, todo).outcome = x.outcome
<1>1. [x EXCEPT !.at = "running"] \in CallState
  BY Moved DEF MovedCall, Step
<1>2. [x EXCEPT !.at = "running", !.caller = u] \in CallState
  BY <1>1 DEF CallState
<1> QED BY <1>2 DEF CallState, StartedCall

LEMMA StartedAdmin ==
    ASSUME NEW x \in CallState, NEW u \in Caller
    PROVE  /\ StartedAdminCall(x, u) \in CallState
           /\ StartedAdminCall(x, u).at = "running"
           /\ StartedAdminCall(x, u).session = x.session
           /\ StartedAdminCall(x, u).caller = u
           /\ StartedAdminCall(x, u).found = x.found
           /\ StartedAdminCall(x, u).outcome = x.outcome
<1>1. [x EXCEPT !.at = "running"] \in CallState
  BY Moved DEF MovedCall, Step
<1> QED BY <1>1 DEF CallState, StartedAdminCall

LEMMA Counted ==
    ASSUME NEW x \in CallState, NEW s \in Scope, NEW f \in SUBSET Memory
    PROVE  /\ CountedCall(x, s, f) \in CallState
           /\ CountedCall(x, s, f).at = x.at
           /\ CountedCall(x, s, f).session = x.session
           /\ CountedCall(x, s, f).caller = x.caller
           /\ CountedCall(x, s, f).found = x.found \cup f
           /\ CountedCall(x, s, f).outcome = x.outcome
<1>1. [x EXCEPT !.todo = x.todo \ {s}] \in CallState
  BY DEF CallState
<1> QED BY <1>1 DEF CallState, CountedCall

-----------------------------------------------------------------------------
(* Rows of client_grants. *)

RowsTyped == rows \in [Client -> [Generation -> GrantRow \cup {None}]]

\* A client has one grant in force at most.
OneInForce == \A c \in Client : \A i, j \in InForce(c) : i = j

\* A row that was made stays, and keeps its owner and what it was granted.
RowsKept ==
    \A c \in Client, n \in Generation : rows[c][n] # None =>
        /\ rows'[c][n] # None
        /\ rows'[c][n].owner = rows[c][n].owner /\ rows'[c][n].perms = rows[c][n].perms

LEMMA RowFields ==
    ASSUME NEW r \in GrantRow
    PROVE  /\ r.inForce \in BOOLEAN /\ r.owner \in Owner
           /\ r.perms \in SUBSET Perm /\ r.scopes \in SUBSET Scope
           /\ [r EXCEPT !.inForce = FALSE] \in GrantRow
           /\ [r EXCEPT !.inForce = FALSE].inForce = FALSE
           /\ [r EXCEPT !.inForce = FALSE].owner = r.owner
           /\ [r EXCEPT !.inForce = FALSE].perms = r.perms
BY DEF GrantRow

LEMMA NarrowedRow ==
    ASSUME NEW r \in GrantRow, NEW s \in Scope
    PROVE  /\ [r EXCEPT !.scopes = r.scopes \ {s}] \in GrantRow
           /\ [r EXCEPT !.scopes = r.scopes \ {s}].inForce = r.inForce
           /\ [r EXCEPT !.scopes = r.scopes \ {s}].owner = r.owner
           /\ [r EXCEPT !.scopes = r.scopes \ {s}].perms = r.perms
BY DEF GrantRow

LEMMA OutOfForceRows ==
    ASSUME RowsTyped, NEW c \in Client
    PROVE  /\ OutOfForce(rows, c) \in [Generation -> GrantRow \cup {None}]
           /\ \A n \in Generation :
                 /\ rows[c][n] = None => OutOfForce(rows, c)[n] = None
                 /\ rows[c][n] # None =>
                       /\ OutOfForce(rows, c)[n] \in GrantRow
                       /\ OutOfForce(rows, c)[n].inForce = FALSE
                       /\ OutOfForce(rows, c)[n].owner = rows[c][n].owner
                       /\ OutOfForce(rows, c)[n].perms = rows[c][n].perms
<1>1. ASSUME NEW n \in Generation
      PROVE  /\ OutOfForce(rows, c)[n] = IF rows[c][n] = None THEN None
                                         ELSE [rows[c][n] EXCEPT !.inForce = FALSE]
             /\ rows[c][n] \in GrantRow \cup {None}
  BY DEF OutOfForce, RowsTyped
<1>2. ASSUME NEW n \in Generation
      PROVE  /\ OutOfForce(rows, c)[n] \in GrantRow \cup {None}
             /\ rows[c][n] = None => OutOfForce(rows, c)[n] = None
             /\ rows[c][n] # None =>
                   /\ OutOfForce(rows, c)[n] \in GrantRow
                   /\ OutOfForce(rows, c)[n].inForce = FALSE
                   /\ OutOfForce(rows, c)[n].owner = rows[c][n].owner
                   /\ OutOfForce(rows, c)[n].perms = rows[c][n].perms
  <2>1. CASE rows[c][n] = None
    BY <1>1, <2>1
  <2>2. CASE rows[c][n] # None
    BY <1>1, <2>2, RowFields
  <2> QED BY <2>1, <2>2
<1>3. OutOfForce(rows, c) \in [Generation -> GrantRow \cup {None}]
  <2>1. OutOfForce(rows, c) = [n \in Generation |-> OutOfForce(rows, c)[n]]
    BY DEF OutOfForce
  <2> QED BY <1>2, <2>1
<1> QED BY <1>2, <1>3

LEMMA BindKeeps ==
    ASSUME RowsTyped, OneInForce, LinkInv, NEW c \in Client, NEW scopes \in SUBSET Scope,
           BindGrant(c, scopes)
    PROVE  RowsTyped' /\ OneInForce' /\ RowsKept
<1> DEFINE n == managed[c].gen
           old == OutOfForce(rows, c)
           row == [inForce |-> TRUE, owner |-> managed[c].owner,
                   perms |-> managed[c].perms, scopes |-> scopes]
<1>1. /\ managed[c] \in ClientGrant /\ n \in Generation
      /\ managed[c].owner \in Owner /\ managed[c].perms \in SUBSET Perm
  BY GrantFields DEF BindGrant, LinkInv, LinkTypeOK, OwnedGrants, Generation
<1>2. row \in GrantRow
  BY <1>1 DEF GrantRow
<1>3. rows' = [rows EXCEPT ![c] = [old EXCEPT ![n] = row]] /\ rows[c][n] = None
  BY DEF BindGrant
<1> HIDE DEF old, row, n
<1>4. /\ old \in [Generation -> GrantRow \cup {None}]
      /\ \A i \in Generation :
            /\ rows[c][i] = None => old[i] = None
            /\ rows[c][i] # None =>
                  /\ old[i] \in GrantRow /\ old[i].inForce = FALSE
                  /\ old[i].owner = rows[c][i].owner /\ old[i].perms = rows[c][i].perms
  BY OutOfForceRows DEF old
<1>5. /\ rows'[c][n] = row /\ \A i \in Generation \ {n} : rows'[c][i] = old[i]
      /\ \A d \in Client \ {c} : rows'[d] = rows[d]
  BY <1>1, <1>3, <1>4 DEF RowsTyped
<1>6. RowsTyped'
  BY <1>1, <1>2, <1>3, <1>4 DEF RowsTyped
<1>7. RowsKept
  BY <1>3, <1>4, <1>5, None \notin GrantRow DEF RowsKept
<1>8. OneInForce'
  <2>1. ASSUME NEW i \in Generation, i # n PROVE i \notin InForce(c)'
    BY <1>4, <1>5, <2>1 DEF InForce
  <2>2. \A d \in Client \ {c} : InForce(d)' = InForce(d)
    BY <1>5 DEF InForce
  <2>3. \A d \in Client : InForce(d)' \subseteq Generation
    BY DEF InForce
  <2> QED BY <2>1, <2>2, <2>3 DEF OneInForce
<1> QED BY <1>6, <1>7, <1>8

LEMMA UnlinkKeeps ==
    ASSUME RowsTyped, OneInForce, NEW c \in Client, UnlinkGrant(c)
    PROVE  RowsTyped' /\ OneInForce' /\ RowsKept
<1> DEFINE old == OutOfForce(rows, c)
<1>1. rows' = [rows EXCEPT ![c] = old]
  BY DEF UnlinkGrant
<1> HIDE DEF old
<1>2. /\ old \in [Generation -> GrantRow \cup {None}]
      /\ \A i \in Generation :
            /\ rows[c][i] = None => old[i] = None
            /\ rows[c][i] # None =>
                  /\ old[i] \in GrantRow /\ old[i].inForce = FALSE
                  /\ old[i].owner = rows[c][i].owner /\ old[i].perms = rows[c][i].perms
  BY OutOfForceRows DEF old
<1>3. rows'[c] = old /\ \A d \in Client \ {c} : rows'[d] = rows[d]
  BY <1>1 DEF RowsTyped
<1>4. RowsTyped'
  BY <1>1, <1>2 DEF RowsTyped
<1>5. RowsKept
  BY <1>2, <1>3, None \notin GrantRow DEF RowsKept
<1>6. OneInForce'
  <2>1. InForce(c)' = {}
    BY <1>2, <1>3 DEF InForce
  <2>2. \A d \in Client \ {c} : InForce(d)' = InForce(d)
    BY <1>3 DEF InForce
  <2> QED BY <2>1, <2>2 DEF OneInForce
<1> QED BY <1>4, <1>5, <1>6

LEMMA NarrowKeeps ==
    ASSUME RowsTyped, OneInForce, NEW c \in Client, NEW n \in Generation, NEW s \in Scope,
           NarrowGrant(c, n, s)
    PROVE  RowsTyped' /\ OneInForce' /\ RowsKept
<1> DEFINE row == [rows[c][n] EXCEPT !.scopes = rows[c][n].scopes \ {s}]
<1>1. rows[c][n] \in GrantRow /\ rows[c][n].inForce
  BY DEF NarrowGrant, InForce, RowsTyped
<1>2. rows' = [rows EXCEPT ![c] = [rows[c] EXCEPT ![n] = row]]
  BY DEF NarrowGrant, RowsTyped
<1>3. /\ row \in GrantRow /\ row.inForce = rows[c][n].inForce
      /\ row.owner = rows[c][n].owner /\ row.perms = rows[c][n].perms
  BY <1>1, NarrowedRow
<1> HIDE DEF row
<1>4. /\ rows'[c][n] = row /\ \A i \in Generation \ {n} : rows'[c][i] = rows[c][i]
      /\ \A d \in Client \ {c} : rows'[d] = rows[d]
  BY <1>2 DEF RowsTyped
<1>5. RowsTyped'
  BY <1>2, <1>3 DEF RowsTyped
<1>6. RowsKept
  BY <1>3, <1>4, None \notin GrantRow DEF RowsKept
<1>7. OneInForce'
  <2>1. InForce(c)' \subseteq InForce(c)
    BY <1>1, <1>3, <1>4, None \notin GrantRow DEF InForce
  <2>2. \A d \in Client \ {c} : InForce(d)' = InForce(d)
    BY <1>4 DEF InForce
  <2> QED BY <2>1, <2>2 DEF OneInForce
<1> QED BY <1>5, <1>6, <1>7

-----------------------------------------------------------------------------
(* Callers. *)

\* The local grant is what the call was resolved to.
Local(k) == IF Asks(k) \in ReadTool THEN ~ requireAuth
            ELSE Asked[k].cred = Session /\ calls[k].session = starts

\* A caller holds what a row of its client and its token both allow.
Holds(u, t) ==
    /\ t \in Token
    /\ u.grant \in Client \X Generation
    /\ u.grant[1] = Claims[t].client
    /\ rows[u.grant[1]][u.grant[2]] # None
    /\ u.perms = rows[u.grant[1]][u.grant[2]].perms \cap Claims[t].perms

NeedsAdmin(k) == Asks(k) \in AdminTool \cup {"status"}

\* A call that runs was resolved to a caller that may run it.
Entitled(k) ==
    LET u == calls[k].caller IN
    /\ Has(u, "read") /\ (NeedsAdmin(k) => "admin" \in u.perms)
    /\ \/ u.grant = None /\ Local(k) /\ u.perms = LocalTerms.perms
       \/ requireAuth /\ Holds(u, Asked[k].cred)

LEMMA NewestInForce ==
    ASSUME OneInForce, NEW c \in Client, NEW n \in InForce(c)
    PROVE  Newest(c) = n
<1>1. InForce(c) = {n} /\ n \in Nat
  BY DEF OneInForce, InForce, Generation
<1> QED BY <1>1 DEF Newest

LEMMA TokenCallerHolds ==
    ASSUME RowsTyped, OneInForce, NEW t
    PROVE  /\ TokenCaller(t) \in Caller
           /\ TokenCaller(t) = Nobody \/ Holds(TokenCaller(t), t)
<1> DEFINE c == Claims[t].client
           n == Newest(c)
           u == [grant |-> <<c, n>>, perms |-> PermsOf(t), scopes |-> rows[c][n].scopes]
<1>1. CASE t \in Token /\ ValidToken(t) /\ InForce(c) # {} /\ PermsOf(t) # {}
  <2>1. c \in Client
    BY <1>1
  <2>2. PICK i \in InForce(c) : TRUE
    BY <1>1
  <2>3. n = i /\ n \in Generation /\ rows[c][n] # None
    BY <2>1, <2>2, NewestInForce DEF InForce
  <2>4. rows[c][n] \in GrantRow
    BY <2>1, <2>3 DEF RowsTyped
  <2>5. PermsOf(t) = rows[c][n].perms \cap Claims[t].perms
    BY DEF PermsOf
  <2>6. rows[c][n].scopes \in SUBSET Scope /\ rows[c][n].perms \in SUBSET Perm
    BY <2>4, RowFields
  <2>7. u \in Caller
    BY <2>1, <2>3, <2>5, <2>6 DEF Caller
  <2>8. Holds(u, t)
    BY <1>1, <2>1, <2>3, <2>5 DEF Holds
  <2>9. TokenCaller(t) = u
    BY <1>1 DEF TokenCaller
  <2> QED BY <2>7, <2>8, <2>9
<1>2. CASE ~ (t \in Token /\ ValidToken(t) /\ InForce(c) # {} /\ PermsOf(t) # {})
  BY <1>2, NobodyTyped DEF TokenCaller
<1> QED BY <1>1, <1>2

LEMMA NobodyMay ==
    /\ ~ Has(Nobody, "read") /\ "admin" \notin Nobody.perms
    /\ \A u \in Caller : "admin" \in u.perms => Has(u, "read")
BY DEF Has, Nobody

LEMMA ResolveHolds ==
    ASSUME RowsTyped, OneInForce, NEW k \in Call, Asks(k) \in ReadTool,
           requireAuth \in BOOLEAN
    PROVE  LET u == Resolve(Asked[k].cred) IN
           /\ u \in Caller
           /\ \/ u = Nobody
              \/ u.grant = None /\ Local(k) /\ u.perms = LocalTerms.perms
              \/ requireAuth /\ Holds(u, Asked[k].cred)
<1>1. CASE ~ requireAuth
  BY <1>1, NobodyTyped DEF Resolve, Local, LocalCaller
<1>2. CASE requireAuth /\ Asked[k].cred \in Token
  BY <1>2, TokenCallerHolds DEF Resolve
<1>3. CASE requireAuth /\ Asked[k].cred \notin Token
  BY <1>3, NobodyTyped DEF Resolve
<1> QED BY <1>1, <1>2, <1>3

LEMMA AdminCallerHolds ==
    ASSUME RowsTyped, OneInForce, NEW k \in Call, Asks(k) \in AdminTool,
           requireAuth \in BOOLEAN
    PROVE  LET u == AdminCaller(k) IN
           /\ u \in Caller
           /\ \/ u = Nobody
              \/ u.grant = None /\ Local(k) /\ u.perms = LocalTerms.perms
              \/ requireAuth /\ Holds(u, Asked[k].cred)
<1> DEFINE cred == Asked[k].cred
<1>1. CASE cred = Session /\ calls[k].session = starts /\ now < sessionEnds
  <2>1. Asks(k) \notin ReadTool
    BY DEF AdminTool, ReadTool
  <2> QED BY <1>1, <2>1, NobodyTyped DEF AdminCaller, Local, LocalCaller
<1>2. CASE cred = Session /\ ~ (calls[k].session = starts /\ now < sessionEnds)
  BY <1>2, NobodyTyped DEF AdminCaller
<1>3. CASE cred # Session /\ requireAuth
  BY <1>3, TokenCallerHolds DEF AdminCaller
<1>4. CASE cred # Session /\ ~ requireAuth
  BY <1>4, NobodyTyped DEF AdminCaller
<1> QED BY <1>1, <1>2, <1>3, <1>4

-----------------------------------------------------------------------------
(* The invariant. *)

CallsTyped ==
    /\ requireAuth \in BOOLEAN
    /\ place \in [Memory -> Row \cup {None}]
    /\ sessionEnds \in 0..MaxTime + SessionTTL
    /\ calls \in [Call -> CallState]
    /\ log \in [Call -> SUBSET {"ok", "refused"}]
    /\ changed \in [Call -> SUBSET Memory]

\* What an administrative call that succeeds changes.
Does(k) == IF Asks(k) \in {"restore", "purge"} THEN {Asked[k].mem} ELSE {}

\* What an administrative call has done and logged, step by step.
AdminProgress(k) ==
    /\ calls[k].at \in {"new", "sent", "let_in", "running"} => log[k] = {} /\ changed[k] = {}
    /\ calls[k].at = "done" =>
           /\ log[k] = {} /\ calls[k].outcome \in {"ok", "refused"}
           /\ changed[k] = IF calls[k].outcome = "ok" THEN Does(k) ELSE {}
           /\ calls[k].outcome = "refused" => calls[k].found = {}
    /\ calls[k].at = "answered" =>
           /\ "ok" \in log[k] => changed[k] = Does(k)
           /\ "refused" \in log[k] => changed[k] = {}
           /\ calls[k].outcome = "ok" => "ok" \in log[k]
           /\ "ok" \notin log[k] => calls[k].found = {}

\* A call under way has found nothing yet, unless it counts for a status call;
\* only administrative calls wait for their entry.
CallOK(k) ==
    /\ calls[k].at = "running" => Entitled(k)
    /\ calls[k].at \in {"new", "sent", "let_in"} => calls[k].found = {}
    /\ calls[k].at = "running" /\ Asks(k) # "status" => calls[k].found = {}
    /\ calls[k].at = "let_in" => Asks(k) \in ReadTool
    /\ calls[k].at = "done" => Asks(k) \in AdminTool
    /\ Asks(k) \in AdminTool => AdminProgress(k)

RemoteInv == LinkInv /\ RowsTyped /\ OneInForce /\ CallsTyped /\ \A k \in Call : CallOK(k)

LEMMA RemoteInvTypes == RemoteInv => RemoteTypeOK
BY DEF RemoteInv, LinkInv, RowsTyped, CallsTyped, RemoteTypeOK

\* A call that does not move itself stays as it should be.
LEMMA OthersKept ==
    ASSUME RemoteInv, NEW k \in Call,
           calls'[k] = calls[k], log'[k] = log[k], changed'[k] = changed[k],
           requireAuth' = requireAuth, starts' = starts, RowsKept
    PROVE  CallOK(k)'
<1>1. CallOK(k)
  BY DEF RemoteInv
<1>2. Entitled(k) => Entitled(k)'
  <2> SUFFICES ASSUME Entitled(k) PROVE Entitled(k)'
    OBVIOUS
  <2> DEFINE u == calls[k].caller
  <2>1. CASE u.grant = None /\ Local(k) /\ u.perms = LocalTerms.perms
    BY <2>1 DEF Entitled, Local
  <2>2. CASE requireAuth /\ Holds(u, Asked[k].cred)
    <3> DEFINE c == u.grant[1]
               n == u.grant[2]
    <3>0. u.grant \in Client \X Generation
      BY <2>2 DEF Holds
    <3>1. c \in Client /\ n \in Generation
      BY <3>0
    <3>2. /\ rows[c][n] # None /\ rows'[c][n] # None
          /\ rows'[c][n].perms = rows[c][n].perms
      BY <2>2, <3>1 DEF Holds, RowsKept
    <3>3. (Holds(u, Asked[k].cred))'
      BY <2>2, <3>1, <3>2 DEF Holds
    <3> QED BY <2>2, <3>3 DEF Entitled
  <2> QED BY <2>1, <2>2 DEF Entitled
<1>3. AdminProgress(k) => AdminProgress(k)'
  BY DEF AdminProgress
<1> QED BY <1>1, <1>2, <1>3 DEF CallOK

LEMMA RowsStill == ASSUME UNCHANGED rows PROVE RowsKept
BY DEF RowsKept

\* One call moves, and nothing but it, the memories, its log and what it changed.
LEMMA OneCallMoves ==
    ASSUME RemoteInv, NEW k \in Call, NEW x \in CallState, Goes(k, x),
           UNCHANGED <<linkVars, requireAuth, rows, sessionEnds>>,
           CallsTyped',
           \A j \in Call \ {k} : log'[j] = log[j] /\ changed'[j] = changed[j],
           CallOK(k)'
    PROVE  RemoteInv'
<1>1. LinkInv' /\ RowsTyped' /\ OneInForce'
  BY DEF RemoteInv, LinkInv, LinkTypeOK, OwnedGrants, linkVars, RowsTyped, OneInForce, InForce
<1>2. \A j \in Call \ {k} : calls'[j] = calls[j]
  BY DEF Goes, RemoteInv, CallsTyped
<1>3. RowsKept /\ starts' = starts
  BY RowsStill DEF linkVars
<1>4. \A j \in Call \ {k} : CallOK(j)'
  BY <1>2, <1>3, OthersKept
<1> QED BY <1>1, <1>4 DEF RemoteInv

\* The same, when only the call moves.
LEMMA OnlyCallMoves ==
    ASSUME RemoteInv, NEW k \in Call, NEW x \in CallState, Goes(k, x),
           UNCHANGED <<linkVars, requireAuth, rows, place, sessionEnds, log, changed>>,
           CallOK(k)'
    PROVE  RemoteInv'
<1>1. CallsTyped'
  BY DEF RemoteInv, CallsTyped, Goes
<1> QED BY <1>1, OneCallMoves

LEMMA GoesTo ==
    ASSUME CallsTyped, NEW k \in Call, NEW x, Goes(k, x)
    PROVE  calls'[k] = x
BY DEF CallsTyped, Goes

-----------------------------------------------------------------------------
(* The steps of a call. *)

LEMMA SendStep == ASSUME RemoteInv, NEW k \in Call, Send(k) PROVE RemoteInv'
<1> DEFINE x == SentCall(calls[k], starts)
<1>1. calls[k] \in CallState /\ starts \in 0..MaxStarts /\ CallsTyped /\ CallOK(k)
  BY DEF RemoteInv, CallsTyped, LinkInv, LinkTypeOK
<1>2. /\ x \in CallState /\ x.at = "sent" /\ x.found = calls[k].found
  BY <1>1, Sent
<1>3. Goes(k, x)
  BY DEF Send, SentCall
<1> HIDE DEF x
<1>4. calls'[k] = x
  BY <1>1, <1>3, GoesTo
<1>5. CallOK(k)'
  BY <1>1, <1>2, <1>4 DEF Send, CallOK, AdminProgress
<1> QED BY <1>2, <1>3, <1>5, OnlyCallMoves DEF Send

\* A refusal is an answer of nothing.
LEMMA RefuseStep ==
    ASSUME RemoteInv, NEW k \in Call, Refuse(k), calls[k].at \in {"sent", "let_in"},
           UNCHANGED <<linkVars, requireAuth, rows, place, sessionEnds, log, changed>>
    PROVE  RemoteInv'
<1> DEFINE x == RefusedCall(calls[k])
<1>1. calls[k] \in CallState /\ CallsTyped /\ CallOK(k)
  BY DEF RemoteInv, CallsTyped
<1>2. x \in CallState /\ x.at = "answered" /\ x.found = calls[k].found /\ x.outcome = "refused"
  BY <1>1, Refused
<1>3. Goes(k, x)
  BY DEF Refuse, RefusedCall
<1> HIDE DEF x
<1>4. calls'[k] = x
  BY <1>1, <1>3, GoesTo
<1>5. CallOK(k)'
  BY <1>1, <1>2, <1>4 DEF CallOK, AdminProgress
<1> QED BY <1>2, <1>3, <1>5, OnlyCallMoves

LEMMA LetInStep == ASSUME RemoteInv, NEW k \in Call, LetIn(k) PROVE RemoteInv'
<1> DEFINE x == MovedCall(calls[k], "let_in")
<1>1. CASE Refuse(k)
  BY <1>1, RefuseStep DEF LetIn
<1>2. CASE Goes(k, x)
  <2>1. calls[k] \in CallState /\ CallsTyped /\ CallOK(k)
    BY DEF RemoteInv, CallsTyped
  <2>2. x \in CallState /\ x.at = "let_in" /\ x.found = calls[k].found
    BY <2>1, Moved DEF Step
  <2> HIDE DEF x
  <2>3. calls'[k] = x
    BY <1>2, <2>1, GoesTo
  <2>4. CallOK(k)'
    BY <2>1, <2>2, <2>3 DEF LetIn, CallOK, AdminProgress
  <2> QED BY <1>2, <2>2, <2>4, OnlyCallMoves DEF LetIn
<1> QED BY <1>1, <1>2 DEF LetIn, MovedCall

\* A call starts to run with the caller it was resolved to.
LEMMA StartStep ==
    ASSUME RemoteInv, NEW k \in Call, NEW u \in Caller, NEW x \in CallState, Goes(k, x),
           calls[k].at \in {"sent", "let_in"},
           x.at = "running", x.caller = u, x.session = calls[k].session,
           x.found = calls[k].found,
           Has(u, "read"), NeedsAdmin(k) => "admin" \in u.perms,
           \/ u.grant = None /\ Local(k) /\ u.perms = LocalTerms.perms
           \/ requireAuth /\ Holds(u, Asked[k].cred),
           UNCHANGED <<linkVars, requireAuth, rows, place, sessionEnds, log, changed>>
    PROVE  RemoteInv'
<1>1. CallsTyped /\ CallOK(k)
  BY DEF RemoteInv
<1>2. calls'[k] = x
  BY <1>1, GoesTo
<1>3. Local(k) => Local(k)'
  BY <1>2 DEF Local, linkVars
<1>4. Holds(u, Asked[k].cred) => (Holds(u, Asked[k].cred))'
  BY DEF Holds
<1>5. Entitled(k)'
  BY <1>2, <1>3, <1>4 DEF Entitled
<1>6. CallOK(k)'
  BY <1>1, <1>2, <1>5 DEF CallOK, AdminProgress
<1> QED BY <1>6, OnlyCallMoves

LEMMA StartReadStep == ASSUME RemoteInv, NEW k \in Call, StartRead(k) PROVE RemoteInv'
<1> DEFINE u == Resolve(Asked[k].cred)
           todo == IF Asks(k) = "status" THEN u.scopes ELSE {Asked[k].scope}
           x == StartedCall(calls[k], u, todo)
<1>1. CASE Refuse(k)
  BY <1>1, RefuseStep DEF StartRead
<1>2. CASE MayRead(u, k) /\ Goes(k, x)
  <2>1. calls[k] \in CallState /\ CallsTyped /\ CallOK(k) /\ RowsTyped /\ OneInForce
        /\ requireAuth \in BOOLEAN
    BY DEF RemoteInv, CallsTyped
  <2>2. Asks(k) \in ReadTool /\ calls[k].at = "let_in"
    BY <2>1 DEF StartRead, CallOK
  <2>3. /\ u \in Caller
        /\ \/ u = Nobody
           \/ u.grant = None /\ Local(k) /\ u.perms = LocalTerms.perms
           \/ requireAuth /\ Holds(u, Asked[k].cred)
    BY <2>1, <2>2, ResolveHolds
  <2>4. todo \in SUBSET Scope
    BY <2>3 DEF Caller, Asks, Ask
  <2> HIDE DEF todo, u
  <2>5. /\ x \in CallState /\ x.at = "running" /\ x.caller = u
        /\ x.session = calls[k].session /\ x.found = calls[k].found
    BY <2>1, <2>3, <2>4, Started
  <2>6. Has(u, "read") /\ (NeedsAdmin(k) => "admin" \in u.perms)
    <3>1. Asks(k) \notin AdminTool
      BY <2>2 DEF ReadTool, AdminTool
    <3> QED BY <1>2, <2>3, <3>1, NobodyMay DEF MayRead, NeedsAdmin
  <2>7. u # Nobody
    BY <2>6, NobodyMay
  <2> QED BY <1>2, <2>2, <2>3, <2>5, <2>6, <2>7, StartStep DEF StartRead
<1> QED BY <1>1, <1>2 DEF StartRead, StartedCall

LEMMA StartAdminStep == ASSUME RemoteInv, NEW k \in Call, StartAdmin(k) PROVE RemoteInv'
<1> DEFINE u == AdminCaller(k)
           x == StartedAdminCall(calls[k], u)
<1>1. CASE Refuse(k)
  BY <1>1, RefuseStep DEF StartAdmin
<1>2. CASE "admin" \in u.perms /\ Goes(k, x)
  <2>1. calls[k] \in CallState /\ CallsTyped /\ RowsTyped /\ OneInForce
        /\ requireAuth \in BOOLEAN
    BY DEF RemoteInv, CallsTyped
  <2>2. Asks(k) \in AdminTool /\ calls[k].at = "sent"
    BY DEF StartAdmin
  <2>3. /\ u \in Caller
        /\ \/ u = Nobody
           \/ u.grant = None /\ Local(k) /\ u.perms = LocalTerms.perms
           \/ requireAuth /\ Holds(u, Asked[k].cred)
    BY <2>1, <2>2, AdminCallerHolds
  <2>4. /\ x \in CallState /\ x.at = "running" /\ x.caller = u
        /\ x.session = calls[k].session /\ x.found = calls[k].found
    BY <2>1, <2>3, StartedAdmin
  <2> HIDE DEF x, u
  <2>5. Has(u, "read") /\ u # Nobody
    BY <1>2, <2>3, NobodyMay
  <2> QED BY <1>2, <2>2, <2>3, <2>4, <2>5, StartStep DEF StartAdmin
<1> QED BY <1>1, <1>2 DEF StartAdmin, StartedAdminCall

LEMMA AnswerStep ==
    ASSUME RemoteInv, NEW k \in Call, NEW f \in SUBSET Memory,
           Running(k, ReadTool), Answer(k, f)
    PROVE  RemoteInv'
<1> DEFINE x == FinishedCall(calls[k], "answered", f, "ok")
<1>1. calls[k] \in CallState /\ CallsTyped /\ Asks(k) \notin AdminTool
  BY DEF RemoteInv, CallsTyped, Running, ReadTool, AdminTool
<1>2. x \in CallState /\ x.at = "answered"
  BY <1>1, Finished DEF Step, Outcome
<1>3. Goes(k, x)
  BY DEF Answer, FinishedCall
<1> HIDE DEF x
<1>4. calls'[k] = x
  BY <1>1, <1>3, GoesTo
<1>5. CallOK(k)'
  BY <1>1, <1>2, <1>4 DEF CallOK, Asks
<1> QED BY <1>2, <1>3, <1>5, OnlyCallMoves DEF Answer

LEMMA CountStep ==
    ASSUME RemoteInv, NEW k \in Call, NEW s \in Scope, ScopeCardinality(k, s)
    PROVE  RemoteInv'
<1> DEFINE f == IF Cardinality(Readable(k, s)) < MinCardinality THEN {} ELSE Readable(k, s)
           x == CountedCall(calls[k], s, f)
<1>1. /\ calls[k] \in CallState /\ CallsTyped /\ CallOK(k)
      /\ calls[k].at = "running" /\ Asks(k) = "status" /\ Asks(k) \notin AdminTool
  BY DEF RemoteInv, CallsTyped, ScopeCardinality, Running, AdminTool
<1>2. f \in SUBSET Memory
  BY DEF Readable
<1>3. Goes(k, x)
  BY DEF ScopeCardinality, CountedCall
<1> HIDE DEF f
<1>4. x \in CallState /\ x.at = "running" /\ x.caller = calls[k].caller
      /\ x.session = calls[k].session
  BY <1>1, <1>2, Counted
<1> HIDE DEF x
<1>5. calls'[k] = x
  BY <1>1, <1>3, GoesTo
<1>6. Entitled(k)'
  <2>1. Entitled(k)
    BY <1>1 DEF CallOK
  <2>2. Local(k) => Local(k)'
    BY <1>4, <1>5 DEF Local, ScopeCardinality, linkVars
  <2>3. Holds(x.caller, Asked[k].cred) => (Holds(calls[k].caller, Asked[k].cred))'
    BY <1>4, <1>5 DEF Holds, ScopeCardinality
  <2> QED BY <1>4, <1>5, <2>1, <2>2, <2>3 DEF Entitled, ScopeCardinality
<1>7. CallOK(k)'
  BY <1>1, <1>4, <1>5, <1>6 DEF CallOK, Asks
<1> QED BY <1>3, <1>4, <1>7, OnlyCallMoves DEF ScopeCardinality

\* An administrative call ends, and waits for its entry.
LEMMA EndStep ==
    ASSUME RemoteInv, NEW k \in Call, Running(k, AdminTool),
           NEW f \in SUBSET Memory, NEW o \in {"ok", "refused"}, Ended(k, f, o),
           o = "refused" => f = {},
           UNCHANGED <<linkVars, requireAuth, rows, sessionEnds, log>>,
           place' \in [Memory -> Row \cup {None}],
           changed' \in [Call -> SUBSET Memory],
           changed'[k] = IF o = "ok" THEN Does(k) ELSE {},
           \A j \in Call \ {k} : changed'[j] = changed[j]
    PROVE  RemoteInv'
<1> DEFINE x == FinishedCall(calls[k], "done", f, o)
<1>1. /\ calls[k] \in CallState /\ CallsTyped /\ CallOK(k)
      /\ Asks(k) \in AdminTool /\ calls[k].at = "running"
  BY DEF RemoteInv, CallsTyped, Running
<1>2. x \in CallState /\ x.at = "done" /\ x.outcome = o /\ x.found = f
  BY <1>1, Finished DEF Step, Outcome
<1>3. Goes(k, x)
  BY DEF Ended, FinishedCall
<1> HIDE DEF x
<1>4. calls'[k] = x
  BY <1>1, <1>3, GoesTo
<1>5. log[k] = {} /\ log' = log
  BY <1>1 DEF CallOK, AdminProgress
<1>6. AdminProgress(k)'
  BY <1>2, <1>4, <1>5 DEF AdminProgress, Does, Asks
<1>7. CallOK(k)'
  BY <1>1, <1>2, <1>4, <1>6 DEF CallOK, Asks
<1>8. CallsTyped'
  BY <1>1, <1>2, <1>3 DEF CallsTyped, Goes
<1> QED BY <1>2, <1>3, <1>7, <1>8, OneCallMoves

LEMMA ExportStep == ASSUME RemoteInv, NEW k \in Call, ExportScoped(k) PROVE RemoteInv'
<1> DEFINE f == {m \in Memory : /\ Administers(k, m)
                                /\ place[m].deleted => Asks(k) = "export_all"}
<1>1. /\ Running(k, AdminTool) /\ Ended(k, f, "ok")
      /\ Asks(k) \notin {"restore", "purge"}
  BY DEF ExportScoped, Running, AdminTool
<1>2. f \in SUBSET Memory
  OBVIOUS
<1> HIDE DEF f
<1>3. CallOK(k) /\ changed[k] = {} /\ CallsTyped
  BY <1>1 DEF RemoteInv, CallOK, AdminProgress, Running
<1>4. UNCHANGED <<linkVars, requireAuth, rows, place, sessionEnds, log, changed>>
  BY DEF ExportScoped
<1> QED BY <1>1, <1>2, <1>3, <1>4, EndStep DEF Does, CallsTyped

LEMMA CommitStep ==
    ASSUME RemoteInv, NEW k \in Call, Running(k, {"restore", "purge"}),
           NEW r \in Row \cup {None}, Commit(k, Asked[k].mem, r)
    PROVE  RemoteInv'
<1> DEFINE m == Asked[k].mem
<1>1. Running(k, AdminTool) /\ m \in Memory /\ Does(k) = {m}
  BY DEF Running, AdminTool, Ask, Does
<1>2. CallOK(k) /\ changed[k] = {} /\ CallsTyped
  BY <1>1 DEF RemoteInv, CallOK, AdminProgress, Running
<1>3. /\ place' \in [Memory -> Row \cup {None}]
      /\ changed' \in [Call -> SUBSET Memory]
      /\ changed'[k] = {m} /\ \A j \in Call \ {k} : changed'[j] = changed[j]
  BY <1>1, <1>2 DEF Commit, CallsTyped
<1>4. Ended(k, {}, "ok") /\ UNCHANGED <<linkVars, requireAuth, rows, sessionEnds, log>>
  BY DEF Commit
<1> QED BY <1>1, <1>3, <1>4, EndStep

LEMMA RefuseAdminStep == ASSUME RemoteInv, NEW k \in Call, RefuseAdmin(k) PROVE RemoteInv'
<1>1. Running(k, AdminTool)
  BY DEF RefuseAdmin, Running, AdminTool
<1>2. CallOK(k) /\ changed[k] = {} /\ CallsTyped
  BY <1>1 DEF RemoteInv, CallOK, AdminProgress, Running
<1> QED BY <1>1, <1>2, EndStep DEF RefuseAdmin, CallsTyped

\* The entry of an administrative call is written, or not, and it is answered.
LEMMA RecordStep ==
    ASSUME RemoteInv, NEW k \in Call, AnswerRecorded(k) \/ RecordFails(k)
    PROVE  RemoteInv'
<1> DEFINE o == calls[k].outcome
           x == IF AnswerRecorded(k) THEN MovedCall(calls[k], "answered")
                ELSE FinishedCall(calls[k], "answered", {}, "unavailable")
<1>1. /\ calls[k] \in CallState /\ CallsTyped /\ CallOK(k) /\ calls[k].at = "done"
      /\ Asks(k) \in AdminTool /\ AdminProgress(k)
  BY DEF RemoteInv, CallsTyped, CallOK, AnswerRecorded, RecordFails
<1>2. o \in {"ok", "refused"} /\ log[k] = {}
  BY <1>1 DEF AdminProgress
<1>3. x \in CallState /\ x.at = "answered"
  BY <1>1, Moved, Finished DEF Step, Outcome
<1>4. Goes(k, x)
  BY DEF AnswerRecorded, RecordFails, MovedCall, FinishedCall
<1>5. \/ /\ log' = [log EXCEPT ![k] = log[k] \cup {o}]
         /\ x.outcome \in {o, "unavailable"}
         /\ (x.outcome = o /\ x.found = calls[k].found) \/ x.found = {}
      \/ log' = log /\ x.outcome = "unavailable" /\ x.found = {}
  <2>1. CASE AnswerRecorded(k)
    BY <1>1, <2>1, Moved DEF AnswerRecorded, Record, Step
  <2>2. CASE ~ AnswerRecorded(k)
    BY <1>1, <2>2, Finished DEF RecordFails, Record, Step, Outcome
  <2> QED BY <2>1, <2>2
<1>6. UNCHANGED <<linkVars, requireAuth, rows, place, sessionEnds, changed>>
  BY DEF AnswerRecorded, RecordFails
<1> HIDE DEF x
<1>7. calls'[k] = x
  BY <1>1, <1>4, GoesTo
<1>8. \/ log'[k] = {o} /\ x.outcome \in {o, "unavailable"}
         /\ (x.found = calls[k].found \/ x.found = {})
      \/ log'[k] = {} /\ x.outcome = "unavailable" /\ x.found = {}
  BY <1>1, <1>2, <1>5 DEF CallsTyped
<1>9. AdminProgress(k)'
  BY <1>1, <1>2, <1>3, <1>6, <1>7, <1>8 DEF AdminProgress, Does, Asks
<1>10. CallOK(k)'
  BY <1>1, <1>3, <1>7, <1>9 DEF CallOK, Asks
<1>11. CallsTyped' /\ \A j \in Call \ {k} : log'[j] = log[j]
  BY <1>1, <1>2, <1>3, <1>4, <1>5, <1>6 DEF CallsTyped, Goes
<1> QED BY <1>3, <1>4, <1>6, <1>10, <1>11, OneCallMoves

-----------------------------------------------------------------------------
(* The other steps. *)

LEMMA RestartStep == ASSUME RemoteInv, Restart PROVE RemoteInv'
<1>1. LinkInv' /\ RowsTyped' /\ OneInForce'
  <2>1. LinkInv'
    BY LinkStepTyped DEF RemoteInv, Restart, LinkNext
  <2> QED BY <2>1 DEF RemoteInv, Restart, RowsTyped, OneInForce, InForce
<1>2. ASSUME NEW k \in Call
      PROVE  /\ calls'[k] \in CallState
             /\ calls'[k].at \in {"new", "sent", "answered"}
             /\ \/ calls'[k] = calls[k]
                \/ /\ calls[k].at \in {"let_in", "running", "done"}
                   /\ calls'[k].at = "answered" /\ calls'[k].found = {}
                   /\ calls'[k].outcome = "unavailable"
  <2>1. calls[k] \in CallState /\ calls[k].at \in Step /\ calls'[k] = Cut(calls[k])
    BY CallFields DEF RemoteInv, CallsTyped, Restart
  <2>2. CASE calls[k].at \in {"let_in", "running", "done"}
    <3> DEFINE x == FinishedCall(calls[k], "answered", {}, "unavailable")
    <3>1. calls'[k] = x
      BY <2>1, <2>2 DEF Cut, FinishedCall
    <3>2. x \in CallState /\ x.at = "answered" /\ x.found = {} /\ x.outcome = "unavailable"
      BY <2>1, Finished DEF Step, Outcome
    <3> HIDE DEF x
    <3> QED BY <2>2, <3>1, <3>2
  <2>3. CASE calls[k].at \notin {"let_in", "running", "done"}
    BY <2>1, <2>3 DEF Cut, Step
  <2> QED BY <2>2, <2>3
<1>3. calls' \in [Call -> CallState]
  <2>1. calls' = [k \in Call |-> calls'[k]]
    BY DEF Restart
  <2> QED BY <1>2, <2>1
<1>4. CallsTyped'
  <2>1. now \in Nat /\ now <= MaxTime
    BY DEF RemoteInv, LinkInv, LinkTypeOK, Time
  <2>2. sessionEnds' \in 0..MaxTime + SessionTTL
    BY <2>1 DEF Restart
  <2> QED BY <1>3, <2>2 DEF RemoteInv, CallsTyped, Restart
<1>5. ASSUME NEW k \in Call PROVE CallOK(k)'
  <2>1. CallOK(k) /\ log'[k] = log[k] /\ changed'[k] = changed[k]
    BY DEF RemoteInv, Restart
  <2>2. Asks(k) \in AdminTool => AdminProgress(k)'
    BY <1>2, <2>1 DEF CallOK, AdminProgress, Does, Asks
  <2> QED BY <1>2, <2>1, <2>2 DEF CallOK, Asks
<1> QED BY <1>1, <1>4, <1>5 DEF RemoteInv

\* Linking and the clock leave calls alone.
LEMMA LinkingStep ==
    ASSUME RemoteInv, (Linking \/ Tick) /\ UNCHANGED callVars
    PROVE  RemoteInv'
<1>1. LinkInv'
  BY LinkStepTyped DEF RemoteInv, LinkNext
<1>2. starts' = starts
  BY DEF Linking, Tick, CreatePairingChallenge, ClaimChallenge, RegisterOrUpdateGrant,
         RevokeGrant, MintToken, RevokeToken, RevokeGeneration
<1>3. UNCHANGED <<requireAuth, rows, place, sessionEnds, calls, log, changed>>
  BY DEF callVars
<1>4. \A k \in Call : CallOK(k)'
  BY <1>2, <1>3, OthersKept, RowsStill
<1> QED BY <1>1, <1>3, <1>4
        DEF RemoteInv, RowsTyped, OneInForce, InForce, CallsTyped

\* Grants and memories change under the calls.
LEMMA TableStep ==
    ASSUME RemoteInv, RowsTyped', OneInForce', RowsKept,
           place' \in [Memory -> Row \cup {None}],
           UNCHANGED <<linkVars, requireAuth, sessionEnds, calls, log, changed>>
    PROVE  RemoteInv'
<1>1. LinkInv' /\ starts' = starts
  BY DEF RemoteInv, LinkInv, LinkTypeOK, OwnedGrants, linkVars
<1>2. \A k \in Call : CallOK(k)'
  BY <1>1, OthersKept
<1> QED BY <1>1, <1>2 DEF RemoteInv, CallsTyped

LEMMA GrantStep == ASSUME RemoteInv, GrantTable PROVE RemoteInv'
<1>0. RowsTyped /\ OneInForce /\ LinkInv /\ place \in [Memory -> Row \cup {None}]
  BY DEF RemoteInv, CallsTyped
<1>1. ASSUME NEW c \in Client, NEW scopes \in SUBSET Scope, BindGrant(c, scopes)
      PROVE  RemoteInv'
  <2>1. RowsTyped' /\ OneInForce' /\ RowsKept
    BY <1>0, <1>1, BindKeeps
  <2> QED BY <1>0, <1>1, <2>1, TableStep DEF BindGrant
<1>2. ASSUME NEW c \in Client, UnlinkGrant(c) PROVE RemoteInv'
  <2>1. RowsTyped' /\ OneInForce' /\ RowsKept
    BY <1>0, <1>2, UnlinkKeeps
  <2> QED BY <1>0, <1>2, <2>1, TableStep DEF UnlinkGrant
<1>3. ASSUME NEW c \in Client, NEW n \in Generation, NEW s \in Scope, NarrowGrant(c, n, s)
      PROVE  RemoteInv'
  <2>1. RowsTyped' /\ OneInForce' /\ RowsKept
    BY <1>0, <1>3, NarrowKeeps
  <2> QED BY <1>0, <1>3, <2>1, TableStep DEF NarrowGrant
<1> QED BY <1>1, <1>2, <1>3 DEF GrantTable

LEMMA WriteStep ==
    ASSUME RemoteInv, NEW m \in Memory, NEW r \in Row \cup {None}, WriteMemory(m, r)
    PROVE  RemoteInv'
<1>1. place' \in [Memory -> Row \cup {None}]
  BY DEF RemoteInv, CallsTyped, WriteMemory
<1>2. RowsTyped' /\ OneInForce' /\ RowsKept
  BY RowsStill DEF RemoteInv, WriteMemory, RowsTyped, OneInForce, InForce
<1> QED BY <1>1, <1>2, TableStep DEF WriteMemory

LEMMA RemoteInit_Inv == RemoteInit => RemoteInv
<1> SUFFICES ASSUME RemoteInit PROVE RemoteInv
  OBVIOUS
<1>1. LinkInv
  BY LinkInitTyped DEF RemoteInit
<1>2. RowsTyped /\ OneInForce
  BY DEF RemoteInit, RowsTyped, OneInForce, InForce
<1>3. CallsTyped
  BY NewCallTyped DEF RemoteInit, CallsTyped
<1>4. \A k \in Call : CallOK(k)
  BY DEF RemoteInit, NewCall, CallOK, AdminProgress
<1> QED BY <1>1, <1>2, <1>3, <1>4 DEF RemoteInv

LEMMA RemoteStep_Inv == RemoteInv /\ [RemoteNext]_remoteVars => RemoteInv'
<1> SUFFICES ASSUME RemoteInv, [RemoteNext]_remoteVars PROVE RemoteInv'
  OBVIOUS
<1>1. CASE (Linking \/ Tick) /\ UNCHANGED callVars
  BY <1>1, LinkingStep
<1>2. CASE GrantTable
  BY <1>2, GrantStep
<1>3. ASSUME NEW m \in Memory, NEW r \in Row \cup {None}, WriteMemory(m, r) PROVE RemoteInv'
  BY <1>3, WriteStep
<1>4. ASSUME NEW k \in Call, Send(k) PROVE RemoteInv'
  BY <1>4, SendStep
<1>5. ASSUME NEW k \in Call, Reads(k) PROVE RemoteInv'
  <2>1. CASE LetIn(k)
    BY <2>1, LetInStep
  <2>2. CASE StartRead(k)
    BY <2>2, StartReadStep
  <2>3. CASE SearchScoped(k)
    BY <2>3, AnswerStep DEF SearchScoped, Running, ReadTool, Readable
  <2>4. CASE GetScopedMemory(k)
    BY <2>4, AnswerStep DEF GetScopedMemory, Running, ReadTool, Readable
  <2>5. CASE RecentScopedMemories(k)
    BY <2>5, AnswerStep DEF RecentScopedMemories, Running, ReadTool, Readable
  <2>6. CASE Status(k)
    <3>1. calls[k].found \in SUBSET Memory
      BY CallFields DEF RemoteInv, CallsTyped
    <3> QED BY <2>6, <3>1, AnswerStep DEF Status, Running, ReadTool
  <2>7. ASSUME NEW s \in Scope, ScopeCardinality(k, s) PROVE RemoteInv'
    BY <2>7, CountStep
  <2> QED BY <1>5, <2>1, <2>2, <2>3, <2>4, <2>5, <2>6, <2>7 DEF Reads
<1>6. ASSUME NEW k \in Call, Administration(k) PROVE RemoteInv'
  <2>1. CASE RestoreMemory(k)
    <3> DEFINE m == Asked[k].mem
               r == [place[m] EXCEPT !.deleted = FALSE]
    <3>1. m \in Memory /\ place[m] \in Row
      BY <2>1 DEF RestoreMemory, Ask, RemoteInv, CallsTyped
    <3>2. r \in Row
      BY <3>1 DEF Row
    <3>3. Running(k, {"restore", "purge"}) /\ Commit(k, m, r)
      BY <2>1 DEF RestoreMemory, Running
    <3> QED BY <3>2, <3>3, CommitStep
  <2>2. CASE PurgeMemory(k)
    BY <2>2, CommitStep DEF PurgeMemory, Running
  <2> QED BY <1>6, <2>1, <2>2, StartAdminStep, ExportStep, RefuseAdminStep, RecordStep
          DEF Administration
<1>7. CASE Restart
  BY <1>7, RestartStep
<1>8. CASE UNCHANGED remoteVars
  <2>1. UNCHANGED <<linkVars, callVars>>
    BY <1>8 DEF remoteVars
  <2>2. RowsTyped' /\ OneInForce' /\ RowsKept /\ place' \in [Memory -> Row \cup {None}]
    BY <2>1, RowsStill DEF callVars, RemoteInv, RowsTyped, OneInForce, InForce, CallsTyped
  <2> QED BY <2>1, <2>2, TableStep DEF callVars
<1> QED BY <1>1, <1>2, <1>3, <1>4, <1>5, <1>6, <1>7, <1>8 DEF RemoteNext

\* Every variable keeps its type: a caller that was resolved is a grant of a
\* client, or the local one, with scopes and permissions of the kinds there are.
THEOREM RemoteTypeCorrect == RemoteSpec => []RemoteTypeOK
<1> QED BY RemoteInit_Inv, RemoteStep_Inv, RemoteInvTypes, PTL DEF RemoteSpec

LEMMA LogFollows == RemoteInv => AdminLogTrue
<1> SUFFICES ASSUME RemoteInv, NEW k \in Call, Asks(k) \in AdminTool
             PROVE  /\ "ok" \in log[k] => changed[k] = Does(k)
                    /\ "refused" \in log[k] => changed[k] = {}
                    /\ calls[k].at = "answered" /\ calls[k].outcome = "ok" =>
                           "ok" \in log[k] /\ changed[k] = Does(k)
                    /\ calls[k].at = "answered" /\ "ok" \notin log[k] => calls[k].found = {}
  BY DEF AdminLogTrue, Does
<1>1. AdminProgress(k) /\ calls[k].at \in Step
  BY CallFields DEF RemoteInv, CallsTyped, CallOK
<1> QED BY <1>1 DEF AdminProgress, Step

\* The administrator's log tells no lie, whatever fails or restarts: an entry
\* says what the call did, and nothing is handed out or acknowledged without one.
THEOREM AdminLogHonest == RemoteSpec => []AdminLogTrue
<1> QED BY RemoteInit_Inv, RemoteStep_Inv, LogFollows, PTL DEF RemoteSpec

-----------------------------------------------------------------------------
(* Calls are served as granted. *)

\* What the query lets a running call have, the terms its caller holds reach:
\* the grant it was resolved to is still the one in force of its client.
LEMMA AuthorizedReaches ==
    ASSUME RemoteInv, NEW k \in Call, calls[k].at = "running",
           NEW perms, perms = {"read", "admin"} \/ (NeedsAdmin(k) /\ perms = {"admin"}),
           NEW m \in Memory, NEW s \in Scope,
           Authorized(calls[k].caller.grant, perms, m, s),
           Asks(k) # "status" => s = Asked[k].scope
    PROVE  m \in Reached(k, perms)
<1> DEFINE u == calls[k].caller
           g == GrantNow(u.grant)
           t == Asked[k].cred
<1>1. Entitled(k) /\ RowsTyped /\ OneInForce
  BY DEF RemoteInv, CallOK
<1>2. /\ g.inForce /\ g.owner = MemoryOwner[m]
      /\ g.perms \cap perms # {} /\ s \in g.scopes
      /\ place[m] # None /\ place[m].scope = s
  BY DEF Authorized
<1>3. CASE u.grant = None /\ Local(k) /\ u.perms = LocalTerms.perms
  <2>1. TermsOf(k) = LocalTerms
    BY <1>3 DEF TermsOf, Local
  <2>2. g.owner = LocalTerms.owner /\ g.perms = LocalTerms.perms /\ g.scopes = LocalTerms.scopes
    BY <1>3 DEF GrantNow, LocalRow
  <2> QED BY <1>2, <2>1, <2>2 DEF Reached
<1>4. CASE requireAuth /\ Holds(u, t)
  <2> DEFINE c == u.grant[1]
             n == u.grant[2]
  <2>1. /\ t \in Token /\ u.grant \in Client \X Generation /\ c = Claims[t].client
        /\ u.perms = rows[c][n].perms \cap Claims[t].perms /\ rows[c][n] # None
    BY <1>4 DEF Holds
  <2>2. u.grant # None /\ c \in Client /\ n \in Generation
    BY <2>1
  <2>3. g = rows[c][n]
    BY <2>2 DEF GrantNow
  <2>4. n \in InForce(c)
    BY <1>2, <2>1, <2>2, <2>3 DEF InForce
  <2>5. Newest(c) = n
    BY <1>1, <2>2, <2>4, NewestInForce
  <2>6. TermsOf(k) = TokenTerms(t)
    BY <1>4, <2>1 DEF TermsOf
  <2>7. /\ TokenTerms(t).owner = g.owner /\ TokenTerms(t).scopes = g.scopes
        /\ TokenTerms(t).perms = u.perms
    BY <2>1, <2>3, <2>4, <2>5 DEF TokenTerms
  <2>8. u.perms \cap perms # {}
    BY <1>1 DEF Entitled, Has
  <2> QED BY <1>2, <2>6, <2>7, <2>8 DEF Reached
<1> QED BY <1>1, <1>3, <1>4 DEF Entitled

LEMMA ReadableAllowed ==
    ASSUME RemoteInv, NEW k \in Call, Running(k, ReadTool), NEW s \in Scope,
           Asks(k) # "status" => s = Asked[k].scope
    PROVE  Readable(k, s) \subseteq AllowedTo(k)
<1> SUFFICES ASSUME NEW m \in Readable(k, s) PROVE m \in AllowedTo(k)
  OBVIOUS
<1>1. /\ m \in Memory /\ ~ place[m].deleted
      /\ Authorized(calls[k].caller.grant, {"read", "admin"}, m, s)
  BY DEF Readable
<1>2. m \in Reached(k, {"read", "admin"})
  BY <1>1, AuthorizedReaches DEF Running
<1> QED BY <1>1, <1>2 DEF AllowedTo, Running

LEMMA AdministersReached ==
    ASSUME RemoteInv, NEW k \in Call, Running(k, AdminTool), NEW m \in Memory,
           Administers(k, m)
    PROVE  m \in Reached(k, {"admin"})
<1>1. Asks(k) # "status" /\ NeedsAdmin(k) /\ Asked[k].scope \in Scope
  BY DEF Running, AdminTool, NeedsAdmin, Ask
<1> QED BY <1>1, AuthorizedReaches DEF Administers, Running

Seen == [k \in Call |-> calls[k].found]
GrantedStep == [Granted!Next]_<<Seen, changed>>

LEMMA NothingSeen ==
    ASSUME \A k \in Call : calls'[k].found = calls[k].found, UNCHANGED changed
    PROVE  GrantedStep
BY DEF GrantedStep, Seen

\* What is seen after one call moved.
LEMMA SeenAfter ==
    ASSUME CallsTyped, NEW k \in Call, NEW x, Goes(k, x)
    PROVE  Seen' = [Seen EXCEPT ![k] = x.found]
BY DEF Seen, CallsTyped, Goes

LEMMA QuietMove ==
    ASSUME CallsTyped, NEW k \in Call, NEW x, Goes(k, x), x.found = calls[k].found,
           UNCHANGED changed
    PROVE  GrantedStep
BY NothingSeen DEF CallsTyped, Goes

LEMMA ServeStep ==
    ASSUME CallsTyped, NEW k \in Call, NEW x, NEW f \in SUBSET Memory, Goes(k, x),
           f \subseteq AllowedTo(k), x.found = calls[k].found \cup f, UNCHANGED changed
    PROVE  GrantedStep
<1>1. Seen' = [Seen EXCEPT ![k] = Seen[k] \cup f]
  BY SeenAfter DEF Seen
<1>2. Granted!Serve(k, f)
  BY <1>1 DEF Granted!Serve, Seen
<1> QED BY <1>2 DEF GrantedStep, Granted!Next

LEMMA LoseStep ==
    ASSUME NEW lost \in SUBSET Call, UNCHANGED changed,
           \A k \in lost : calls'[k].found = {},
           \A k \in Call \ lost : calls'[k].found = calls[k].found
    PROVE  GrantedStep
<1>1. Granted!Lose(lost)
  BY DEF Granted!Lose
<1> QED BY <1>1 DEF GrantedStep, Granted!Next

LEMMA RefuseQuiet ==
    ASSUME RemoteInv, NEW k \in Call, Refuse(k), UNCHANGED changed
    PROVE  GrantedStep
<1>1. CallsTyped /\ calls[k] \in CallState /\ Goes(k, RefusedCall(calls[k]))
  BY DEF RemoteInv, CallsTyped, Refuse, RefusedCall
<1> QED BY <1>1, Refused, QuietMove

LEMMA ReadsGranted == ASSUME RemoteInv, NEW k \in Call, Reads(k) PROVE GrantedStep
<1>0. CallsTyped /\ calls[k] \in CallState /\ CallOK(k) /\ calls[k].found \in SUBSET Memory
  BY CallFields DEF RemoteInv, CallsTyped
<1>1. CASE LetIn(k)
  <2>1. CASE Refuse(k)
    BY <1>1, <2>1, RefuseQuiet DEF LetIn
  <2>2. CASE Goes(k, MovedCall(calls[k], "let_in"))
    BY <1>0, <1>1, <2>2, Moved, QuietMove DEF LetIn, Step
  <2> QED BY <1>1, <2>1, <2>2 DEF LetIn, MovedCall
<1>2. CASE StartRead(k)
  <2> DEFINE u == Resolve(Asked[k].cred)
             todo == IF Asks(k) = "status" THEN u.scopes ELSE {Asked[k].scope}
             x == StartedCall(calls[k], u, todo)
  <2>1. CASE Refuse(k)
    BY <1>2, <2>1, RefuseQuiet DEF StartRead
  <2>2. CASE Goes(k, x)
    <3>1. Asks(k) \in ReadTool /\ requireAuth \in BOOLEAN
      BY <1>0, <1>2 DEF StartRead, CallOK, CallsTyped
    <3>2. u \in Caller
      BY <3>1, ResolveHolds DEF RemoteInv
    <3>3. todo \in SUBSET Scope
      BY <3>2 DEF Caller, Asks, Ask
    <3>4. x.found = calls[k].found
      BY <1>0, <3>2, <3>3, Started
    <3> HIDE DEF x
    <3> QED BY <1>0, <1>2, <2>2, <3>4, QuietMove DEF StartRead
  <2> QED BY <1>2, <2>1, <2>2 DEF StartRead, StartedCall
<1>3. ASSUME Running(k, {"search", "get", "recent"}),
             NEW f \in SUBSET Readable(k, Asked[k].scope), Answer(k, f)
      PROVE  GrantedStep
  <2> DEFINE x == FinishedCall(calls[k], "answered", f, "ok")
  <2>1. /\ Running(k, ReadTool) /\ Asks(k) # "status" /\ Asked[k].scope \in Scope
        /\ f \in SUBSET Memory
    BY <1>3 DEF Running, ReadTool, Readable, Ask
  <2>2. f \subseteq AllowedTo(k)
    BY <2>1, ReadableAllowed
  <2>3. calls[k].found = {}
    BY <1>0, <2>1 DEF CallOK, Running
  <2>4. x.found = f
    BY <1>0, <2>1, Finished DEF Step, Outcome
  <2>5. Goes(k, x) /\ UNCHANGED changed
    BY <1>3 DEF Answer, FinishedCall
  <2> HIDE DEF x
  <2> QED BY <1>0, <2>1, <2>2, <2>3, <2>4, <2>5, ServeStep
<1>4. CASE SearchScoped(k)
  BY <1>3, <1>4 DEF SearchScoped, Running
<1>5. CASE GetScopedMemory(k)
  BY <1>3, <1>5 DEF GetScopedMemory, Running
<1>6. CASE RecentScopedMemories(k)
  BY <1>3, <1>6 DEF RecentScopedMemories, Running
<1>7. CASE Status(k)
  <2> DEFINE x == FinishedCall(calls[k], "answered", calls[k].found, "ok")
  <2>1. x.found = calls[k].found
    BY <1>0, Finished DEF Step, Outcome
  <2>2. Goes(k, x) /\ UNCHANGED changed
    BY <1>7 DEF Status, Answer, FinishedCall
  <2> HIDE DEF x
  <2> QED BY <1>0, <2>1, <2>2, QuietMove
<1>8. ASSUME NEW s \in Scope, ScopeCardinality(k, s) PROVE GrantedStep
  <2> DEFINE f == IF Cardinality(Readable(k, s)) < MinCardinality THEN {} ELSE Readable(k, s)
             x == CountedCall(calls[k], s, f)
  <2>1. Running(k, ReadTool) /\ Asks(k) = "status"
    BY <1>8 DEF ScopeCardinality, Running, ReadTool
  <2>2. Readable(k, s) \subseteq AllowedTo(k)
    BY <2>1, ReadableAllowed
  <2>3. f \subseteq AllowedTo(k) /\ f \in SUBSET Memory
    BY <2>2 DEF Readable
  <2>4. Goes(k, x) /\ UNCHANGED changed
    BY <1>8 DEF ScopeCardinality, CountedCall
  <2> HIDE DEF f
  <2>5. x.found = calls[k].found \cup f
    BY <1>0, <2>3, Counted
  <2> HIDE DEF x
  <2> QED BY <1>0, <2>3, <2>4, <2>5, ServeStep
<1> QED BY <1>1, <1>2, <1>4, <1>5, <1>6, <1>7, <1>8 DEF Reads

LEMMA AdministrationGranted ==
    ASSUME RemoteInv, NEW k \in Call, Administration(k)
    PROVE  GrantedStep
<1>0. /\ CallsTyped /\ calls[k] \in CallState /\ CallOK(k) /\ calls[k].found \in SUBSET Memory
      /\ Running(k, AdminTool) => calls[k].found = {}
  BY CallFields DEF RemoteInv, CallsTyped, CallOK, Running, AdminTool
<1>1. CASE StartAdmin(k)
  <2> DEFINE u == AdminCaller(k)
             x == StartedAdminCall(calls[k], u)
  <2>1. CASE Refuse(k)
    BY <1>1, <2>1, RefuseQuiet DEF StartAdmin
  <2>2. CASE Goes(k, x)
    <3>1. Asks(k) \in AdminTool /\ requireAuth \in BOOLEAN
      BY <1>0, <1>1 DEF StartAdmin, CallsTyped
    <3>2. u \in Caller
      BY <3>1, AdminCallerHolds DEF RemoteInv
    <3>3. x.found = calls[k].found
      BY <1>0, <3>2, StartedAdmin
    <3> HIDE DEF x
    <3> QED BY <1>0, <1>1, <2>2, <3>3, QuietMove DEF StartAdmin
  <2> QED BY <1>1, <2>1, <2>2 DEF StartAdmin, StartedAdminCall
<1>2. CASE ExportScoped(k)
  <2> DEFINE f == {m \in Memory : /\ Administers(k, m)
                                  /\ place[m].deleted => Asks(k) = "export_all"}
             x == FinishedCall(calls[k], "done", f, "ok")
  <2>1. Running(k, AdminTool) /\ Asks(k) \in {"export", "export_all"} /\ Asks(k) \notin ReadTool
    BY <1>2 DEF ExportScoped, Running, AdminTool, ReadTool
  <2>2. f \subseteq AllowedTo(k)
    BY <2>1, AdministersReached DEF AllowedTo
  <2>3. Goes(k, x) /\ UNCHANGED changed
    BY <1>2 DEF ExportScoped, Ended, FinishedCall
  <2>4. f \in SUBSET Memory
    OBVIOUS
  <2> HIDE DEF f
  <2>5. x.found = f
    BY <1>0, <2>4, Finished DEF Step, Outcome
  <2> HIDE DEF x
  <2>6. calls[k].found = {}
    BY <1>0, <2>1
  <2> QED BY <1>0, <2>2, <2>3, <2>4, <2>5, <2>6, ServeStep
<1>3. ASSUME Running(k, {"restore", "purge"}), NEW r, Commit(k, Asked[k].mem, r)
      PROVE  GrantedStep
  <2> DEFINE m == Asked[k].mem
             x == FinishedCall(calls[k], "done", {}, "ok")
  <2>1. Running(k, AdminTool) /\ m \in Memory /\ Administers(k, m)
    BY <1>3 DEF Running, AdminTool, Ask, Commit
  <2>2. m \in Reached(k, {"admin"})
    BY <2>1, AdministersReached
  <2>3. Goes(k, x) /\ changed' = [changed EXCEPT ![k] = changed[k] \cup {m}]
    BY <1>3 DEF Commit, Ended, FinishedCall
  <2>4. x.found = {}
    BY <1>0, Finished DEF Step, Outcome
  <2> HIDE DEF x
  <2>5. Seen' = Seen
    <3>1. calls[k].found = {}
      BY <1>0, <2>1
    <3>2. \A j \in Call : calls'[j].found = calls[j].found
      BY <1>0, <2>3, <2>4, <3>1 DEF Goes, CallsTyped
    <3> QED BY <3>2 DEF Seen
  <2>6. Granted!Change(k, m)
    BY <2>2, <2>3, <2>5 DEF Granted!Change, Seen
  <2> QED BY <2>1, <2>6 DEF GrantedStep, Granted!Next
<1>4. CASE RestoreMemory(k)
  BY <1>3, <1>4 DEF RestoreMemory, Running
<1>5. CASE PurgeMemory(k)
  BY <1>3, <1>5 DEF PurgeMemory, Running
<1>6. CASE RefuseAdmin(k)
  <2> DEFINE x == FinishedCall(calls[k], "done", {}, "refused")
  <2>1. Goes(k, x) /\ UNCHANGED changed /\ Running(k, AdminTool)
    BY <1>6 DEF RefuseAdmin, Ended, FinishedCall, Running, AdminTool
  <2>2. x.found = {}
    BY <1>0, Finished DEF Step, Outcome
  <2> HIDE DEF x
  <2>3. calls[k].found = {}
    BY <1>0, <2>1
  <2> QED BY <1>0, <2>1, <2>2, <2>3, QuietMove
<1>7. CASE AnswerRecorded(k)
  <2>1. Goes(k, MovedCall(calls[k], "answered")) /\ UNCHANGED changed
    BY <1>7 DEF AnswerRecorded, MovedCall
  <2> QED BY <1>0, <2>1, Moved, QuietMove DEF Step
<1>8. CASE RecordFails(k)
  <2> DEFINE x == FinishedCall(calls[k], "answered", {}, "unavailable")
  <2>1. Goes(k, x) /\ UNCHANGED changed
    BY <1>8 DEF RecordFails, FinishedCall
  <2>2. x.found = {}
    BY <1>0, Finished DEF Step, Outcome
  <2> HIDE DEF x
  <2>3. calls'[k] = x /\ \A j \in Call \ {k} : calls'[j] = calls[j]
    BY <1>0, <2>1 DEF Goes, CallsTyped
  <2>4. \A j \in Call \ {k} : calls'[j].found = calls[j].found
    BY <2>3
  <2>5. {k} \in SUBSET Call /\ \A j \in {k} : calls'[j].found = {}
    BY <2>2, <2>3
  <2> QED BY <2>1, <2>4, <2>5, LoseStep
<1> QED BY <1>1, <1>2, <1>4, <1>5, <1>6, <1>7, <1>8 DEF Administration

LEMMA StepGranted == RemoteInv /\ [RemoteNext]_remoteVars => GrantedStep
<1> SUFFICES ASSUME RemoteInv, [RemoteNext]_remoteVars PROVE GrantedStep
  OBVIOUS
<1>0. CallsTyped
  BY DEF RemoteInv
<1>1. ASSUME UNCHANGED <<calls, changed>> PROVE GrantedStep
  BY <1>1, NothingSeen
<1>2. CASE (Linking \/ Tick) /\ UNCHANGED callVars
  BY <1>1, <1>2 DEF callVars
<1>3. CASE GrantTable
  BY <1>1, <1>3 DEF GrantTable, BindGrant, UnlinkGrant, NarrowGrant
<1>4. ASSUME NEW m \in Memory, NEW r \in Row \cup {None}, WriteMemory(m, r)
      PROVE  GrantedStep
  BY <1>1, <1>4 DEF WriteMemory
<1>5. ASSUME NEW k \in Call, Send(k) PROVE GrantedStep
  <2>1. calls[k] \in CallState /\ starts \in 0..MaxStarts
    BY DEF RemoteInv, CallsTyped, LinkInv, LinkTypeOK
  <2>2. Goes(k, SentCall(calls[k], starts)) /\ UNCHANGED changed
    BY <1>5 DEF Send, SentCall
  <2> QED BY <1>0, <2>1, <2>2, Sent, QuietMove
<1>6. ASSUME NEW k \in Call, Reads(k) PROVE GrantedStep
  BY <1>6, ReadsGranted
<1>7. ASSUME NEW k \in Call, Administration(k) PROVE GrantedStep
  BY <1>7, AdministrationGranted
<1>8. CASE Restart
  <2> DEFINE lost == {k \in Call : calls[k].at \in {"let_in", "running", "done"}}
  <2>1. ASSUME NEW k \in Call
        PROVE  /\ k \in lost => calls'[k].found = {}
               /\ k \notin lost => calls'[k].found = calls[k].found
    <3>1. calls[k] \in CallState /\ calls'[k] = Cut(calls[k])
      BY <1>0, <1>8 DEF CallsTyped, Restart
    <3>2. CASE k \in lost
      <4> DEFINE x == FinishedCall(calls[k], "answered", {}, "unavailable")
      <4>1. x.found = {}
        BY <3>1, Finished DEF Step, Outcome
      <4>2. calls'[k] = x
        BY <3>1, <3>2 DEF Cut, FinishedCall
      <4> QED BY <3>2, <4>1, <4>2
    <3>3. CASE k \notin lost
      BY <3>1, <3>3 DEF Cut
    <3> QED BY <3>2, <3>3
  <2>2. UNCHANGED changed
    BY <1>8 DEF Restart
  <2> HIDE DEF lost
  <2>3. lost \in SUBSET Call
    BY DEF lost
  <2> QED BY <2>1, <2>2, <2>3, LoseStep
<1>9. CASE UNCHANGED remoteVars
  BY <1>1, <1>9 DEF remoteVars, callVars
<1> QED BY <1>2, <1>3, <1>4, <1>5, <1>6, <1>7, <1>8, <1>9 DEF RemoteNext

\* A call learns of a memory, or changes one, only when the terms its caller
\* holds in that very step allow it: the calls implement GrantedCalls.
THEOREM CallsServedAsGranted == RemoteSpec => ServedAsGranted
<1>1. RemoteInit => Granted!Init
  BY DEF RemoteInit, Granted!Init, NewCall
<1>2. RemoteInv /\ [RemoteNext]_remoteVars =>
          [Granted!Next]_<<[k \in Call |-> calls[k].found], changed>>
  BY StepGranted DEF GrantedStep, Seen
<1> QED BY <1>1, <1>2, RemoteInit_Inv, RemoteStep_Inv, PTL
        DEF ServedAsGranted, RemoteSpec, Granted!Spec
=============================================================================
