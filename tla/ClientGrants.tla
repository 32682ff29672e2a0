---------------------------- MODULE ClientGrants ----------------------------
(***************************************************************************)
(* How a remote client is linked to an owner: pairing challenges, the      *)
(* client grants and their generations (grants.py), the tokens minted for  *)
(* them and what has been revoked (auth.py).  All of it is kept in the     *)
(* memory of one process; a restart forgets it, while challenges and       *)
(* tokens, which carry a signature, stay in the hands of those who have    *)
(* them.  Nothing in src/ calls the manager but its tests: who calls it,   *)
(* and when, is left open.                                                 *)
(***************************************************************************)
EXTENDS Integers, Sequences, FiniteSets

CONSTANTS
    Client,         \* remote clients: an issuer, a subject and a client id
    Owner,          \* owners of memories
    PermSets,       \* the sets of OAuth scopes clients are granted
    Challenge,      \* pairing challenges
    Names,          \* the owner and the client each challenge names
    Token,          \* tokens
    Claims,         \* what each token claims
    TTL,            \* how long a challenge may be claimed
    MaxTime,        \* bound: the clock stops here
    MaxGeneration,  \* bound: no more generations of a grant
    MaxStarts,      \* bound: no more starts of the process
    MaxRevoked,     \* bound: no more tokens and generations are revoked
    None            \* no such thing

Perm == {"read", "write", "admin"}
Time == 0..MaxTime
Generation == 1..MaxGeneration

ASSUME LinkAssumption ==
    /\ PermSets \subseteq SUBSET Perm
    /\ Names \in [Challenge -> [owner : Owner, client : Client]]
    /\ Claims \in [Token -> [client : Client, gen : Generation,
                             perms : SUBSET Perm, exp : Time]]
    /\ TTL \in Nat /\ MaxTime \in Nat
    /\ MaxGeneration \in Nat \ {0} /\ MaxStarts \in Nat \ {0} /\ MaxRevoked \in Nat
    /\ None \notin Owner /\ None \notin Time

LinkAction == {"initial_bind", "reauthorize", "scope_change", "revoke"}
LinkEvent == [client : Client, owner : Owner, action : LinkAction, gen : Generation]

\* A client that has no grant is in generation 0.
ClientGrant == [owner : Owner \cup {None}, gen : 0..MaxGeneration,
                perms : SUBSET Perm, active : BOOLEAN]

VARIABLES
    now,              \* the clock
    starts,           \* the starts of the process so far
    expiry,           \* when each challenge that was made expires
    usedChallenges,   \* the challenges this process has seen claimed
    claims,           \* history: how often each challenge was claimed
    managed,          \* the grant of each client
    linkEvents,       \* the audit events of the grants
    minted,           \* the tokens that were minted
    revokedTokens,    \* the tokens that were revoked
    revokedGenerations \* the generations that were revoked

linkVars == <<now, starts, expiry, usedChallenges, claims, managed, linkEvents,
              minted, revokedTokens, revokedGenerations>>
challengeVars == <<expiry, usedChallenges, claims>>
grantVars == <<managed, linkEvents>>
tokenVars == <<minted, revokedTokens, revokedGenerations>>

LinkTypeOK ==
    /\ now \in Time /\ starts \in 1..MaxStarts
    /\ expiry \in [Challenge -> 0..MaxTime + TTL \cup {None}]
    /\ usedChallenges \subseteq Challenge
    /\ claims \in [Challenge -> Nat]
    /\ managed \in [Client -> ClientGrant]
    /\ linkEvents \in Seq(LinkEvent)
    /\ minted \subseteq Token /\ revokedTokens \subseteq Token
    /\ revokedGenerations \subseteq Client \X Generation

NoGrant == [owner |-> None, gen |-> 0, perms |-> {}, active |-> FALSE]

LinkInit ==
    /\ now = 0 /\ starts = 1
    /\ expiry = [ch \in Challenge |-> None]
    /\ usedChallenges = {}
    /\ claims = [ch \in Challenge |-> 0]
    /\ managed = [c \in Client |-> NoGrant]
    /\ linkEvents = <<>>
    /\ minted = {} /\ revokedTokens = {} /\ revokedGenerations = {}

-----------------------------------------------------------------------------
(* Pairing challenges. *)

\* A challenge carries its expiry: it is made once.
CreatePairingChallenge(ch) ==
    /\ expiry[ch] = None
    /\ expiry' = [expiry EXCEPT ![ch] = now + TTL]
    /\ UNCHANGED <<now, starts, usedChallenges, claims, grantVars, tokenVars>>

\* Mutant: a claimed challenge is not remembered.
Claimable_Again(ch) == expiry[ch] # None /\ expiry[ch] >= now

\* The challenge is signed, was not claimed in this process and has not expired.
Claimable(ch) ==
    /\ ch \notin usedChallenges
    /\ expiry[ch] # None /\ expiry[ch] >= now

\* verify_and_claim_challenge, by one who knows the verifier of the challenge.
ClaimChallenge(ch, o, c) ==
    /\ Claimable(ch)
    /\ Names[ch] = [owner |-> o, client |-> c]
    /\ usedChallenges' = usedChallenges \cup {ch}
    /\ claims' = [claims EXCEPT ![ch] = @ + 1]
    /\ UNCHANGED <<now, starts, expiry, grantVars, tokenVars>>

-----------------------------------------------------------------------------
(* Client grants. *)

Audited(c, grant, action) ==
    linkEvents' = Append(linkEvents, [client |-> c, owner |-> grant.owner,
                                      action |-> action, gen |-> grant.gen])

\* The grant of a client is made, or made again in the next generation, whether
\* or not it was revoked.  A client of another owner is refused.
RegisterOrUpdateGrant(o, c, perms) ==
    LET old == managed[c]
        grant == [owner |-> o, gen |-> old.gen + 1, perms |-> perms, active |-> TRUE]
    IN
    /\ old.gen < MaxGeneration
    /\ old.gen > 0 => old.owner = o
    /\ managed' = [managed EXCEPT ![c] = grant]
    /\ Audited(c, grant, IF old.gen = 0 THEN "initial_bind"
                         ELSE IF old.perms # perms THEN "scope_change"
                         ELSE "reauthorize")
    /\ UNCHANGED <<now, starts, challengeVars, tokenVars>>

\* Mutant: a revocation does not open a generation of its own.
Revoked_InPlace(grant) == [grant EXCEPT !.active = FALSE]

\* Mutant: a revocation drops the owner, too.
Revoked_Unowned(grant) == [grant EXCEPT !.owner = None, !.gen = @ + 1, !.active = FALSE]

Revoked(grant) == [grant EXCEPT !.gen = @ + 1, !.active = FALSE]

RevokeGrant(c) ==
    /\ managed[c].active /\ managed[c].gen < MaxGeneration
    /\ managed' = [managed EXCEPT ![c] = Revoked(@)]
    /\ Audited(c, Revoked(managed[c]), "revoke")
    /\ UNCHANGED <<now, starts, challengeVars, tokenVars>>

-----------------------------------------------------------------------------
(* Tokens. *)

\* A token is minted with what it claims: no grant is looked at.
MintToken(t) ==
    /\ t \notin minted
    /\ minted' = minted \cup {t}
    /\ UNCHANGED <<now, starts, challengeVars, grantVars, revokedTokens,
                   revokedGenerations>>

MayRevoke == Cardinality(revokedTokens) + Cardinality(revokedGenerations) < MaxRevoked

RevokeToken(t) ==
    /\ MayRevoke
    /\ t \in minted \ revokedTokens
    /\ revokedTokens' = revokedTokens \cup {t}
    /\ UNCHANGED <<now, starts, challengeVars, grantVars, minted, revokedGenerations>>

RevokeGeneration(c, n) ==
    /\ MayRevoke
    /\ <<c, n>> \notin revokedGenerations
    /\ revokedGenerations' = revokedGenerations \cup {<<c, n>>}
    /\ UNCHANGED <<now, starts, challengeVars, grantVars, minted, revokedTokens>>

\* validate_token: the token was signed here, has not expired, and neither it
\* nor its generation was revoked since the process started.
ValidToken(t) ==
    /\ t \in minted /\ t \notin revokedTokens
    /\ Claims[t].exp >= now
    /\ <<Claims[t].client, Claims[t].gen>> \notin revokedGenerations

-----------------------------------------------------------------------------

\* Time passes.
Tick ==
    /\ now < MaxTime
    /\ now' = now + 1
    /\ UNCHANGED <<starts, challengeVars, grantVars, tokenVars>>

\* The process ends and is started again: what it kept in memory is gone.
Forget ==
    /\ starts < MaxStarts
    /\ starts' = starts + 1
    /\ usedChallenges' = {}
    /\ managed' = [c \in Client |-> NoGrant]
    /\ linkEvents' = <<>>
    /\ revokedTokens' = {} /\ revokedGenerations' = {}
    /\ UNCHANGED <<now, expiry, claims, minted>>

Linking ==
    \/ \E ch \in Challenge : CreatePairingChallenge(ch)
    \/ \E ch \in Challenge, o \in Owner, c \in Client : ClaimChallenge(ch, o, c)
    \/ \E o \in Owner, c \in Client, p \in PermSets : RegisterOrUpdateGrant(o, c, p)
    \/ \E c \in Client : RevokeGrant(c)
    \/ \E t \in Token : MintToken(t) \/ RevokeToken(t)
    \/ \E c \in Client, n \in Generation : RevokeGeneration(c, n)

LinkNext == Linking \/ Tick \/ Forget

LinkSpec == LinkInit /\ [][LinkNext]_linkVars

-----------------------------------------------------------------------------
(* What the audit trail and the challenges are worth. *)

\* The audit events tell the whole life of a grant: each of its generations has
\* an event, later events are of later generations and of the same owner, and
\* that of the last generation says whether the grant is in force.  So the
\* generation a token carries names one binding.
LinkLedger ==
    /\ \A i, j \in DOMAIN linkEvents :
           linkEvents[i].client = linkEvents[j].client =>
               (i < j <=> linkEvents[i].gen < linkEvents[j].gen)
    /\ \A i \in DOMAIN linkEvents :
           LET e == linkEvents[i] IN
           /\ e.gen <= managed[e.client].gen
           /\ e.owner = managed[e.client].owner
           /\ e.gen = managed[e.client].gen =>
                  (managed[e.client].active <=> e.action # "revoke")
    /\ \A c \in Client : \A n \in 1..managed[c].gen :
           \E i \in DOMAIN linkEvents : linkEvents[i].client = c /\ linkEvents[i].gen = n

\* A process lets a challenge be claimed once: as many claims as processes.
ClaimedOncePerStart == \A ch \in Challenge : claims[ch] <= starts
=============================================================================
