------------------------- MODULE ClientGrants_proofs -------------------------
(***************************************************************************)
(* ClientGrants, for any clients, owners, challenges and bounds: its types,*)
(* the audit trail of the grants and the one claim of a challenge.         *)
(***************************************************************************)
EXTENDS ClientGrants, FiniteSetTheorems, TLAPS

USE LinkAssumption

-----------------------------------------------------------------------------
(* Types. *)

LEMMA GrantFields ==
    ASSUME NEW g \in ClientGrant
    PROVE  /\ g.owner \in Owner \cup {None} /\ g.gen \in 0..MaxGeneration
           /\ g.perms \in SUBSET Perm /\ g.active \in BOOLEAN
BY DEF ClientGrant

LEMMA ForgottenTyped == NoGrant \in ClientGrant
BY DEF NoGrant, ClientGrant

\* What the manager makes when it binds a grant or revokes one.
LEMMA MadeTyped ==
    ASSUME NEW o \in Owner, NEW p \in SUBSET Perm, NEW n \in 0..MaxGeneration,
           n < MaxGeneration
    PROVE  [owner |-> o, gen |-> n + 1, perms |-> p, active |-> TRUE] \in ClientGrant
BY DEF ClientGrant

LEMMA RevokedTyped ==
    ASSUME NEW g \in ClientGrant, g.gen < MaxGeneration
    PROVE  /\ Revoked(g) \in ClientGrant
           /\ Revoked(g).owner = g.owner /\ Revoked(g).gen = g.gen + 1
           /\ Revoked(g).active = FALSE
<1>1. g.gen + 1 \in 0..MaxGeneration
  BY GrantFields
<1>2. [g EXCEPT !.gen = g.gen + 1] \in ClientGrant
  BY <1>1 DEF ClientGrant
<1>3. Revoked(g) \in ClientGrant
  BY <1>2 DEF ClientGrant, Revoked
<1>4. Revoked(g).active = FALSE
  BY DEF ClientGrant, Revoked
<1>5. Revoked(g).owner = g.owner /\ Revoked(g).gen = g.gen + 1
  BY DEF ClientGrant, Revoked
<1> QED BY <1>3, <1>4, <1>5

LEMMA EventFields ==
    ASSUME NEW e \in LinkEvent
    PROVE  /\ e.client \in Client /\ e.owner \in Owner
           /\ e.gen \in Nat /\ e.gen > 0
BY DEF LinkEvent, Generation

\* A grant that has an owner has a generation; only grants with one are active.
OwnedGrants ==
    \A c \in Client : /\ managed[c].gen > 0 => managed[c].owner \in Owner
                      /\ managed[c].active => managed[c].gen > 0

LinkInv == LinkTypeOK /\ OwnedGrants

LEMMA RegisterTyped ==
    ASSUME LinkInv, NEW o \in Owner, NEW c \in Client, NEW p \in PermSets,
           RegisterOrUpdateGrant(o, c, p)
    PROVE  LinkInv'
<1> DEFINE old == managed[c]
           grant == [owner |-> o, gen |-> old.gen + 1, perms |-> p, active |-> TRUE]
           action == IF old.gen = 0 THEN "initial_bind"
                     ELSE IF old.perms # p THEN "scope_change" ELSE "reauthorize"
           e == [client |-> c, owner |-> o, action |-> action, gen |-> old.gen + 1]
<1>1. old \in ClientGrant /\ old.gen \in 0..MaxGeneration /\ old.gen < MaxGeneration
  BY GrantFields DEF LinkInv, LinkTypeOK, RegisterOrUpdateGrant
<1>2. grant \in ClientGrant
  BY <1>1, MadeTyped, p \in SUBSET Perm
<1>3. action \in LinkAction
  BY DEF LinkAction
<1>4. e \in LinkEvent
  BY <1>1, <1>3 DEF LinkEvent, Generation
<1>5. managed' = [managed EXCEPT ![c] = grant] /\ linkEvents' = Append(linkEvents, e)
  BY DEF RegisterOrUpdateGrant, Audited
<1>6. managed' \in [Client -> ClientGrant] /\ linkEvents' \in Seq(LinkEvent)
  BY <1>2, <1>4, <1>5 DEF LinkInv, LinkTypeOK
<1>7. LinkTypeOK'
  BY <1>6 DEF LinkInv, LinkTypeOK, RegisterOrUpdateGrant, challengeVars, tokenVars
<1>8. OwnedGrants'
  BY <1>1, <1>5 DEF LinkInv, LinkTypeOK, OwnedGrants
<1> QED BY <1>7, <1>8 DEF LinkInv

LEMMA RevokeTyped ==
    ASSUME LinkInv, NEW c \in Client, RevokeGrant(c)
    PROVE  LinkInv'
<1> DEFINE old == managed[c]
           e == [client |-> c, owner |-> Revoked(old).owner, action |-> "revoke",
                 gen |-> Revoked(old).gen]
<1>1. old \in ClientGrant /\ old.gen \in 1..MaxGeneration /\ old.gen < MaxGeneration
      /\ old.owner \in Owner
  BY GrantFields DEF LinkInv, LinkTypeOK, OwnedGrants, RevokeGrant
<1>2. /\ Revoked(old) \in ClientGrant
      /\ Revoked(old).owner = old.owner /\ Revoked(old).gen = old.gen + 1
      /\ Revoked(old).active = FALSE
  BY <1>1, RevokedTyped
<1>4. e \in LinkEvent
  BY <1>1, <1>2 DEF LinkEvent, Generation, LinkAction
<1>5. managed' = [managed EXCEPT ![c] = Revoked(old)] /\ linkEvents' = Append(linkEvents, e)
  BY DEF RevokeGrant, Audited
<1>6. managed' \in [Client -> ClientGrant] /\ linkEvents' \in Seq(LinkEvent)
  BY <1>2, <1>4, <1>5 DEF LinkInv, LinkTypeOK
<1>7. LinkTypeOK'
  BY <1>6 DEF LinkInv, LinkTypeOK, RevokeGrant, challengeVars, tokenVars
<1>8. OwnedGrants'
  BY <1>1, <1>2, <1>5 DEF LinkInv, LinkTypeOK, OwnedGrants
<1> QED BY <1>7, <1>8 DEF LinkInv

LEMMA LinkStepTyped == LinkInv /\ [LinkNext]_linkVars => LinkInv'
<1> SUFFICES ASSUME LinkInv, [LinkNext]_linkVars PROVE LinkInv'
  OBVIOUS
<1> USE DEF LinkInv, LinkTypeOK, OwnedGrants
<1>1. ASSUME NEW ch \in Challenge, CreatePairingChallenge(ch) PROVE LinkInv'
  <2>1. now + TTL \in 0..MaxTime + TTL
    BY DEF Time
  <2>2. expiry' \in [Challenge -> 0..MaxTime + TTL \cup {None}]
    BY <1>1, <2>1 DEF CreatePairingChallenge
  <2> QED BY <1>1, <2>2 DEF CreatePairingChallenge, grantVars, tokenVars
<1>2. ASSUME NEW ch \in Challenge, NEW o \in Owner, NEW c \in Client,
             ClaimChallenge(ch, o, c)
      PROVE  LinkInv'
  BY <1>2 DEF ClaimChallenge, grantVars, tokenVars
<1>3. ASSUME NEW o \in Owner, NEW c \in Client, NEW p \in PermSets,
             RegisterOrUpdateGrant(o, c, p)
      PROVE  LinkInv'
  BY <1>3, RegisterTyped
<1>4. ASSUME NEW c \in Client, RevokeGrant(c) PROVE LinkInv'
  BY <1>4, RevokeTyped
<1>5. ASSUME NEW t \in Token, MintToken(t) PROVE LinkInv'
  BY <1>5 DEF MintToken, challengeVars, grantVars
<1>6. ASSUME NEW t \in Token, RevokeToken(t) PROVE LinkInv'
  BY <1>6 DEF RevokeToken, challengeVars, grantVars
<1>7. ASSUME NEW c \in Client, NEW n \in Generation, RevokeGeneration(c, n) PROVE LinkInv'
  BY <1>7 DEF RevokeGeneration, challengeVars, grantVars
<1>8. CASE Tick
  BY <1>8 DEF Tick, Time, challengeVars, grantVars, tokenVars
<1>9. CASE Forget
  <2>1. managed' \in [Client -> ClientGrant] /\ OwnedGrants'
    BY <1>9, ForgottenTyped DEF Forget, NoGrant
  <2>2. starts' \in 1..MaxStarts /\ linkEvents' \in Seq(LinkEvent)
    BY <1>9 DEF Forget
  <2> QED BY <1>9, <2>1, <2>2 DEF Forget
<1>10. CASE UNCHANGED linkVars
  BY <1>10 DEF linkVars
<1> QED BY <1>1, <1>2, <1>3, <1>4, <1>5, <1>6, <1>7, <1>8, <1>9, <1>10
        DEF LinkNext, Linking

LEMMA LinkInitTyped == LinkInit => LinkInv
<1> SUFFICES ASSUME LinkInit PROVE LinkInv
  OBVIOUS
<1>1. managed \in [Client -> ClientGrant] /\ OwnedGrants
  BY ForgottenTyped DEF LinkInit, NoGrant, OwnedGrants
<1>2. linkEvents \in Seq(LinkEvent)
  BY DEF LinkInit
<1> QED BY <1>1, <1>2 DEF LinkInit, LinkInv, LinkTypeOK, Time

\* Every variable keeps its type: no generation or clock runs past its bound.
THEOREM LinkTypeCorrect == LinkSpec => []LinkTypeOK
<1>1. LinkInv => LinkTypeOK
  BY DEF LinkInv
<1> QED BY <1>1, LinkInitTyped, LinkStepTyped, PTL DEF LinkSpec

-----------------------------------------------------------------------------
(* The audit trail. *)

\* One more event, of the next generation of its client, keeps the trail whole.
LEMMA LedgerGrows ==
    ASSUME LinkInv, LinkLedger, NEW c \in Client, NEW g \in ClientGrant,
           NEW e \in LinkEvent,
           e.client = c, e.gen = g.gen, e.owner = g.owner,
           g.gen = managed[c].gen + 1,
           managed[c].gen > 0 => g.owner = managed[c].owner,
           g.active <=> e.action # "revoke",
           managed' = [managed EXCEPT ![c] = g],
           linkEvents' = Append(linkEvents, e)
    PROVE  LinkLedger'
<1> DEFINE n == Len(linkEvents)
<1>1. n \in Nat /\ DOMAIN linkEvents = 1..n /\ DOMAIN linkEvents' = 1..(n + 1)
      /\ linkEvents'[n + 1] = e /\ \A i \in 1..n : linkEvents'[i] = linkEvents[i]
  BY DEF LinkInv, LinkTypeOK
<1>2. ASSUME NEW i \in 1..n
      PROVE  /\ linkEvents[i].client \in Client
             /\ linkEvents[i].gen \in Nat /\ linkEvents[i].gen > 0
  <2>1. linkEvents[i] \in LinkEvent
    BY DEF LinkInv, LinkTypeOK
  <2> QED BY <2>1, EventFields
<1>3. /\ \A d \in Client : managed[d].gen \in Nat /\ managed'[d].gen \in Nat
      /\ managed'[c] = g /\ \A d \in Client \ {c} : managed'[d] = managed[d]
  BY GrantFields DEF LinkInv, LinkTypeOK
<1>4. \A i \in 1..n : linkEvents[i].gen <= managed[linkEvents[i].client].gen
  BY <1>1 DEF LinkLedger
<1>5. ASSUME NEW i \in 1..(n + 1), NEW j \in 1..(n + 1),
             linkEvents'[i].client = linkEvents'[j].client
      PROVE  i < j <=> linkEvents'[i].gen < linkEvents'[j].gen
  <2>1. CASE i \in 1..n /\ j \in 1..n
    BY <1>1, <1>5, <2>1 DEF LinkLedger
  <2>2. CASE i \in 1..n /\ j = n + 1
    BY <1>1, <1>2, <1>3, <1>4, <1>5, <2>2
  <2>3. CASE i = n + 1 /\ j \in 1..n
    BY <1>1, <1>2, <1>3, <1>4, <1>5, <2>3
  <2>4. CASE i = n + 1 /\ j = n + 1
    BY <1>1, <1>3, <2>4
  <2> QED BY <1>1, <2>1, <2>2, <2>3, <2>4
<1>6. ASSUME NEW i \in 1..(n + 1)
      PROVE  LET f == linkEvents'[i] IN
             /\ f.gen <= managed'[f.client].gen
             /\ f.owner = managed'[f.client].owner
             /\ f.gen = managed'[f.client].gen =>
                    (managed'[f.client].active <=> f.action # "revoke")
  <2>1. CASE i = n + 1
    BY <1>1, <1>3, <2>1
  <2>2. CASE i \in 1..n /\ linkEvents[i].client = c
    <3>1. linkEvents[i].gen <= managed[c].gen /\ linkEvents[i].owner = managed[c].owner
      BY <1>1, <2>2 DEF LinkLedger
    <3>2. linkEvents[i].gen > 0
      BY <1>2, <2>2
    <3> QED BY <1>1, <1>2, <1>3, <2>2, <3>1, <3>2
  <2>3. CASE i \in 1..n /\ linkEvents[i].client # c
    BY <1>1, <1>2, <1>3, <2>3 DEF LinkLedger
  <2> QED BY <1>1, <2>1, <2>2, <2>3
<1>7. ASSUME NEW d \in Client, NEW k \in 1..managed'[d].gen
      PROVE  \E i \in 1..(n + 1) : linkEvents'[i].client = d /\ linkEvents'[i].gen = k
  <2>1. CASE d = c /\ k = g.gen
    BY <1>1, <2>1
  <2>2. CASE k \in 1..managed[d].gen
    <3>1. PICK i \in 1..n : linkEvents[i].client = d /\ linkEvents[i].gen = k
      BY <1>1, <2>2 DEF LinkLedger
    <3> QED BY <1>1, <3>1
  <2> QED BY <1>3, <2>1, <2>2
<1>8. /\ \A i, j \in DOMAIN linkEvents' :
             linkEvents'[i].client = linkEvents'[j].client =>
                 (i < j <=> linkEvents'[i].gen < linkEvents'[j].gen)
      /\ \A i \in DOMAIN linkEvents' :
             LET f == linkEvents'[i] IN
             /\ f.gen <= managed'[f.client].gen
             /\ f.owner = managed'[f.client].owner
             /\ f.gen = managed'[f.client].gen =>
                    (managed'[f.client].active <=> f.action # "revoke")
  BY <1>1, <1>5, <1>6
<1>9. \A d \in Client : \A k \in 1..managed'[d].gen :
          \E i \in DOMAIN linkEvents' : linkEvents'[i].client = d /\ linkEvents'[i].gen = k
  BY <1>1, <1>7
<1> QED BY <1>8, <1>9, Zenon DEF LinkLedger

LEMMA LedgerStep == LinkInv /\ LinkLedger /\ [LinkNext]_linkVars => LinkLedger'
<1> SUFFICES ASSUME LinkInv, LinkLedger, [LinkNext]_linkVars PROVE LinkLedger'
  OBVIOUS
<1>1. ASSUME NEW o \in Owner, NEW c \in Client, NEW p \in PermSets,
             RegisterOrUpdateGrant(o, c, p)
      PROVE  LinkLedger'
  <2> DEFINE old == managed[c]
             grant == [owner |-> o, gen |-> old.gen + 1, perms |-> p, active |-> TRUE]
             action == IF old.gen = 0 THEN "initial_bind"
                       ELSE IF old.perms # p THEN "scope_change" ELSE "reauthorize"
             e == [client |-> c, owner |-> o, action |-> action, gen |-> old.gen + 1]
  <2>1. old \in ClientGrant /\ old.gen \in 0..MaxGeneration /\ old.gen < MaxGeneration
    BY <1>1, GrantFields DEF LinkInv, LinkTypeOK, RegisterOrUpdateGrant
  <2>2. grant \in ClientGrant
    BY <2>1, MadeTyped, p \in SUBSET Perm
  <2>3. action \in LinkAction /\ action # "revoke"
    BY DEF LinkAction
  <2>4. e \in LinkEvent
    BY <2>1, <2>3 DEF LinkEvent, Generation
  <2>5. managed' = [managed EXCEPT ![c] = grant] /\ linkEvents' = Append(linkEvents, e)
    BY <1>1 DEF RegisterOrUpdateGrant, Audited
  <2>6. old.gen > 0 => old.owner = o
    BY <1>1 DEF RegisterOrUpdateGrant
  <2> QED BY <2>1, <2>2, <2>3, <2>4, <2>5, <2>6, LedgerGrows
<1>2. ASSUME NEW c \in Client, RevokeGrant(c) PROVE LinkLedger'
  <2> DEFINE old == managed[c]
             e == [client |-> c, owner |-> Revoked(old).owner, action |-> "revoke",
                   gen |-> Revoked(old).gen]
  <2>1. old \in ClientGrant /\ old.gen \in 1..MaxGeneration /\ old.gen < MaxGeneration
        /\ old.owner \in Owner
    BY <1>2, GrantFields DEF LinkInv, LinkTypeOK, OwnedGrants, RevokeGrant
  <2>2. /\ Revoked(old) \in ClientGrant
        /\ Revoked(old).owner = old.owner /\ Revoked(old).gen = old.gen + 1
        /\ Revoked(old).active = FALSE
    BY <2>1, RevokedTyped
  <2>4. e \in LinkEvent
    BY <2>1, <2>2 DEF LinkEvent, Generation, LinkAction
  <2>5. managed' = [managed EXCEPT ![c] = Revoked(old)]
        /\ linkEvents' = Append(linkEvents, e)
    BY <1>2 DEF RevokeGrant, Audited
  <2> QED BY <2>1, <2>2, <2>4, <2>5, LedgerGrows
<1>3. CASE Forget
  BY <1>3 DEF Forget, NoGrant, LinkLedger
<1>4. CASE UNCHANGED grantVars
  BY <1>4 DEF grantVars, LinkLedger
<1> QED BY <1>1, <1>2, <1>3, <1>4
        DEF LinkNext, Linking, Tick, CreatePairingChallenge, ClaimChallenge, MintToken,
            RevokeToken, RevokeGeneration, linkVars, grantVars

\* The audit events of a grant tell its whole life, generation by generation,
\* whatever is bound, bound again and revoked in whatever order (R5.10).
THEOREM LedgerWhole == LinkSpec => []LinkLedger
<1>1. LinkInit => LinkInv /\ LinkLedger
  BY LinkInitTyped DEF LinkInit, LinkLedger, NoGrant
<1>2. LinkInv /\ LinkLedger /\ [LinkNext]_linkVars => (LinkInv /\ LinkLedger)'
  BY LinkStepTyped, LedgerStep
<1> QED BY <1>1, <1>2, PTL DEF LinkSpec

-----------------------------------------------------------------------------
(* The challenges. *)

\* Until a process has seen a challenge claimed, it was claimed at most once by
\* each of the processes before it.
ClaimedBefore ==
    \A ch \in Challenge : claims[ch] <= IF ch \in usedChallenges THEN starts ELSE starts - 1

LEMMA ClaimStep == LinkInv /\ ClaimedBefore /\ [LinkNext]_linkVars => ClaimedBefore'
<1> SUFFICES ASSUME LinkInv, ClaimedBefore, [LinkNext]_linkVars PROVE ClaimedBefore'
  OBVIOUS
<1> USE DEF LinkInv, LinkTypeOK, ClaimedBefore
<1>1. ASSUME NEW ch \in Challenge, NEW o \in Owner, NEW c \in Client,
             ClaimChallenge(ch, o, c)
      PROVE  ClaimedBefore'
  BY <1>1 DEF ClaimChallenge, Claimable
<1>2. CASE Forget
  BY <1>2 DEF Forget
<1>3. CASE UNCHANGED <<starts, usedChallenges, claims>>
  BY <1>3
<1> QED BY <1>1, <1>2, <1>3
        DEF LinkNext, Linking, Tick, CreatePairingChallenge, RegisterOrUpdateGrant,
            RevokeGrant, MintToken, RevokeToken, RevokeGeneration, linkVars, challengeVars

\* A challenge is claimed at most once by each process.
THEOREM ClaimedOnce == LinkSpec => []ClaimedOncePerStart
<1>1. LinkInit => LinkInv /\ ClaimedBefore
  BY LinkInitTyped DEF LinkInit, ClaimedBefore
<1>2. LinkInv /\ ClaimedBefore /\ [LinkNext]_linkVars => (LinkInv /\ ClaimedBefore)'
  BY LinkStepTyped, ClaimStep
<1>3. LinkInv /\ ClaimedBefore => ClaimedOncePerStart
  BY DEF LinkInv, LinkTypeOK, ClaimedBefore, ClaimedOncePerStart
<1> QED BY <1>1, <1>2, <1>3, PTL DEF LinkSpec
=============================================================================
