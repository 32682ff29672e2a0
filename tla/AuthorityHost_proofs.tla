------------------------- MODULE AuthorityHost_proofs -------------------------
(***************************************************************************)
(* Theorems about the processes around the authority database, for any     *)
(* number of servers, scopes, writes, snapshots and crashes.               *)
(***************************************************************************)
EXTENDS AuthorityHost, TLAPS

-----------------------------------------------------------------------------
(* Type correctness. *)

LEMMA GenerationTyped ==
    /\ MaxGeneration \in Nat
    /\ 1 \in Generation
    /\ 0 \notin Generation
    /\ \A i \in Generation : i \in Nat
    /\ \A i \in Generation \cup {0} : i < MaxGeneration => i + 1 \in Generation
BY HostAssumption DEF Generation

LEMMA WidenedTyped ==
    ASSUME TypeOK, NEW i \in Generation \cup {0}, NEW S \in SUBSET Scope
    PROVE  Widened(i, S) \in [Generation -> GrantType]
BY DEF TypeOK, Database, Widened, GrantType

LEMMA TypeInit == Init => TypeOK
<1> SUFFICES ASSUME Init PROVE TypeOK
  OBVIOUS
<1>1. db \in Database
  BY DEF Init, Database, GrantType
<1>2. crashes \in 0..MaxCrashes
  BY HostAssumption DEF Init
<1>3. QED
  BY <1>1, <1>2 DEF Init, TypeOK, Step

\* No step of a starting server but the binding of the grant touches the database.
LEMMA TypeBind ==
    ASSUME TypeOK, NEW p \in Server, NEW settings \in Setting,
           BindLocalGrant(p, settings)
    PROVE  TypeOK'
<1>1. PICK i \in Generation \cup {0} :
         LET stored == IF i = 0 THEN {} ELSE db.grants[i].scopes IN
         \/ /\ i # 0
            /\ context' = [context EXCEPT ![p] = i]
            /\ UNCHANGED db
         \/ /\ i < MaxGeneration
            /\ db' = [db EXCEPT !.grants = Widened(i, stored \cup settings)]
            /\ context' = [context EXCEPT ![p] = i + 1]
  BY DEF BindLocalGrant
<1> DEFINE stored == IF i = 0 THEN {} ELSE db.grants[i].scopes
<1>2. stored \cup settings \in SUBSET Scope
  BY HostAssumption DEF TypeOK, Database, GrantType
<1>3. db' \in Database
  <2>1. Widened(i, stored \cup settings) \in [Generation -> GrantType]
    BY <1>2, WidenedTyped
  <2>2. QED
    BY <1>1, <2>1 DEF TypeOK, Database
<1>4. context' \in [Server -> Generation \cup {0}]
  BY <1>1, GenerationTyped DEF TypeOK
<1>5. pc' \in [Server -> Step \cup {"off", "serving", "exited"}]
  BY DEF TypeOK, BindLocalGrant, Goto, Step
<1>6. QED
  BY <1>3, <1>4, <1>5 DEF TypeOK, BindLocalGrant, fileVars, offlineVars, history

LEMMA TypeServer ==
    ASSUME TypeOK, NEW p \in Server,
           Serve(p) \/ StartByHand(p) \/ Stop(p) \/ Crash(p)
    PROVE  TypeOK'
<1>1. CASE StartUnit(p)
  BY <1>1 DEF TypeOK, StartUnit, Goto, Step, fileVars, offlineVars, history
<1>2. CASE LoadDigestKey(p)
  BY <1>2 DEF TypeOK, LoadDigestKey, Goto, Ends, Fails, Step, fileVars, offlineVars, history
<1>3. CASE CreateDigestKey(p)
  BY <1>3 DEF TypeOK, CreateDigestKey, Goto, Ends, Fails, Step, offlineVars, history
<1>4. CASE WriteDigestKey(p)
  BY <1>4 DEF TypeOK, WriteDigestKey, Goto, Step, offlineVars, history
<1>5. ASSUME NEW settings \in Setting, BindLocalGrant(p, settings)
      PROVE  TypeOK'
  BY <1>5, TypeBind
<1>6. CASE CreateLocalAdminSession(p)
  BY <1>6 DEF TypeOK, CreateLocalAdminSession, Goto, Step, offlineVars, history
<1>7. CASE AcquireSingleOwner(p)
  BY <1>7 DEF TypeOK, AcquireSingleOwner, Goto, Ends, Step, Holder, fileVars, offlineVars, history
<1>8. CASE StartByHand(p)
  BY <1>8 DEF TypeOK, StartByHand, Goto, Step, fileVars, offlineVars, history
<1>9. CASE Stop(p)
  BY <1>9 DEF TypeOK, Stop, Goto, Ends, Step, Freed, fileVars, offlineVars, history
<1>10. CASE Crash(p)
  <2>1. crashes' \in 0..MaxCrashes
    BY <1>10, HostAssumption DEF TypeOK, Crash
  <2>2. pc' \in [Server -> Step \cup {"off", "serving", "exited"}]
    BY <1>10 DEF TypeOK, Crash, Fails, Ends, Goto
  <2>3. lock' \in Holder \cup {None}
    BY <1>10 DEF TypeOK, Crash, ReleasedByKernel
  <2>4. QED
    BY <1>10, <2>1, <2>2, <2>3 DEF TypeOK, Crash, Fails, Ends, fileVars, offlineVars
<1>11. QED
  BY <1>1, <1>2, <1>3, <1>4, <1>5, <1>6, <1>7, <1>8, <1>9, <1>10 DEF Serve

LEMMA TypeOthers ==
    ASSUME TypeOK,
           \/ \E p \in Server, w \in Write : ClientWrite(p, w)
           \/ Offline \/ BeginProbe \/ EndProbe
    PROVE  TypeOK'
<1>1. ASSUME NEW p \in Server, NEW w \in Write, ClientWrite(p, w)
      PROVE  TypeOK'
  <2>1. db' \in Database
    BY <1>1 DEF TypeOK, ClientWrite, Database
  <2>2. QED
    BY <1>1, <2>1 DEF TypeOK, ClientWrite, fileVars, offlineVars
<1>2. CASE BeginOffline
  BY <1>2 DEF TypeOK, BeginOffline, Holder, fileVars, history
<1>3. CASE BackupDatabase
  BY <1>3 DEF TypeOK, BackupDatabase, fileVars, history
<1>4. ASSUME NEW d \in snapshots, SaveBeforeRestore(d)
      PROVE  TypeOK'
  <2>1. Plan(d) \in [source : Database, safety : Database]
    BY DEF TypeOK, Plan
  <2>2. Plan(d) # None
    BY <2>1, HostAssumption
  <2>3. QED
    BY <1>4, <2>1, <2>2 DEF TypeOK, SaveBeforeRestore, WithSafetyCopy, fileVars, history
<1>5. CASE OverwriteDatabase
  <2>1. restoring # None => db' \in Database
    BY <1>5 DEF TypeOK, OverwriteDatabase
  <2>2. QED
    BY <1>5, <2>1 DEF TypeOK, OverwriteDatabase, fileVars, history
<1>6. CASE EndOffline
  BY <1>6 DEF TypeOK, EndOffline, Freed, fileVars, history
<1>7. CASE BeginProbe
  BY <1>7 DEF TypeOK, BeginProbe, Holder, fileVars, offlineVars, history
<1>8. CASE EndProbe
  BY <1>8 DEF TypeOK, EndProbe, Freed, fileVars, offlineVars, history
<1>10. QED
  BY <1>1, <1>2, <1>3, <1>4, <1>5, <1>6, <1>7, <1>8 DEF Offline

LEMMA TypeStep == TypeOK /\ [Next]_vars => TypeOK'
<1> SUFFICES ASSUME TypeOK, [Next]_vars PROVE TypeOK'
  OBVIOUS
<1>1. CASE Next
  BY <1>1, TypeServer, TypeOthers DEF Next
<1>2. CASE UNCHANGED vars
  BY <1>2 DEF TypeOK, vars
<1>3. QED
  BY <1>1, <1>2

\* Every reachable state of the host has its types: in particular a restore that
\* has saved the live database knows its source and its safety snapshot.
THEOREM TypeCorrect == Spec => []TypeOK
BY TypeInit, TypeStep, PTL DEF Spec

-----------------------------------------------------------------------------
(* Mutual exclusion.  Who works on the database holds the lock; a lock has  *)
(* one holder.                                                              *)

WorkersHoldLock ==
    /\ \A p \in Server : pc[p] = "serving" => lock = p
    /\ operator # "idle" => lock = Operator

LEMMA LockInit == Init => WorkersHoldLock
BY DEF Init, WorkersHoldLock

LEMMA LockStep == TypeOK /\ WorkersHoldLock /\ [Next]_vars => WorkersHoldLock'
<1> SUFFICES ASSUME TypeOK, WorkersHoldLock, [Next]_vars PROVE WorkersHoldLock'
  OBVIOUS
<1> USE HostAssumption DEF WorkersHoldLock, Holder, TypeOK
<1>1. ASSUME NEW p \in Server,
             pc' \in {[pc EXCEPT ![p] = s] : s \in Step \cup {"off", "exited"}},
             UNCHANGED <<lock, operator>>
      PROVE  WorkersHoldLock'
  BY <1>1 DEF Step
<1>2. ASSUME NEW p \in Server, Serve(p) \/ StartByHand(p)
      PROVE  WorkersHoldLock'
  <2>1. CASE StartUnit(p) \/ StartByHand(p)
    BY <2>1, <1>1 DEF StartUnit, StartByHand, Goto, Step, offlineVars
  <2>2. CASE LoadDigestKey(p)
    BY <2>2, <1>1 DEF LoadDigestKey, Goto, Ends, Fails, Step, offlineVars
  <2>3. CASE CreateDigestKey(p)
    BY <2>3, <1>1 DEF CreateDigestKey, Goto, Ends, Fails, Step, offlineVars
  <2>4. CASE WriteDigestKey(p)
    BY <2>4, <1>1 DEF WriteDigestKey, Goto, Step, offlineVars
  <2>5. ASSUME NEW settings \in Setting, BindLocalGrant(p, settings)
        PROVE  WorkersHoldLock'
    BY <2>5, <1>1 DEF BindLocalGrant, Goto, Step, offlineVars
  <2>6. CASE CreateLocalAdminSession(p)
    BY <2>6, <1>1 DEF CreateLocalAdminSession, Goto, Step, offlineVars
  <2>7. CASE AcquireSingleOwner(p)
    <3>1. CASE CanLock(p)
      BY <2>7, <3>1 DEF AcquireSingleOwner, CanLock, Goto, offlineVars
    <3>2. CASE ~ CanLock(p)
      BY <2>7, <3>2, <1>1 DEF AcquireSingleOwner, Goto, Ends, offlineVars
    <3>3. QED
      BY <3>1, <3>2
  <2>8. QED
    BY <1>2, <2>1, <2>2, <2>3, <2>4, <2>5, <2>6, <2>7 DEF Serve
<1>3. ASSUME NEW p \in Server, Stop(p) \/ Crash(p)
      PROVE  WorkersHoldLock'
  BY <1>3 DEF Stop, Crash, Goto, Ends, Fails, Freed, ReleasedByKernel, offlineVars
<1>4. ASSUME NEW p \in Server, NEW w \in Write, ClientWrite(p, w)
      PROVE  WorkersHoldLock'
  BY <1>4 DEF ClientWrite, offlineVars
<1>5. CASE Offline
  <2>1. CASE BeginOffline
    BY <2>1 DEF BeginOffline, CanLock
  <2>2. CASE BackupDatabase \/ OverwriteDatabase \/ \E d \in snapshots : SaveBeforeRestore(d)
    BY <2>2 DEF BackupDatabase, OverwriteDatabase, SaveBeforeRestore
  <2>3. CASE EndOffline
    BY <2>3 DEF EndOffline, Freed
  <2>4. QED
    BY <1>5, <2>1, <2>2, <2>3 DEF Offline
<1>6. CASE BeginProbe \/ EndProbe
  BY <1>6 DEF BeginProbe, EndProbe, CanLock, Freed, offlineVars, Operator, Status
<1>7. CASE UNCHANGED vars
  BY <1>7 DEF vars, offlineVars
<1>8. QED
  BY <1>2, <1>3, <1>4, <1>5, <1>6, <1>7 DEF Next

\* At most one server serves, and none while a break-glass command works.
THEOREM MutualExclusion == Spec => []OneOwner
<1>1. TypeOK /\ WorkersHoldLock => OneOwner
  BY HostAssumption DEF WorkersHoldLock, OneOwner
<1>2. QED
  BY <1>1, LockInit, LockStep, TypeCorrect, PTL DEF Spec
-----------------------------------------------------------------------------
(* The digest key.  The file is created once; only its creator writes it.   *)

KeyInv ==
    /\ KeySurvivesRestart
    /\ \A p \in Server : pc[p] \in {"bind", "session", "lock", "serving"} =>
           digestKey \in Server
    /\ \A p \in Server : pc[p] = "write" =>
           /\ digestKey = "empty"
           /\ \A q \in Server : pc[q] = "write" => q = p

LEMMA KeyInit == Init => KeyInv
BY DEF Init, KeyInv, KeySurvivesRestart

LEMMA KeyStep == TypeOK /\ KeyInv /\ [Next]_vars => KeyInv'
<1> SUFFICES ASSUME TypeOK, KeyInv, [Next]_vars PROVE KeyInv'
  OBVIOUS
<1> USE HostAssumption DEF KeyInv, KeySurvivesRestart, TypeOK, Holder
\* Steps that leave the file and the loaded keys alone, and that take no server
\* past the loading of its key.
<1>1. ASSUME NEW p \in Server,
             \E s \in {"off", "exited", "load", "create", "bind", "session", "lock", "serving"} :
                 /\ pc' = [pc EXCEPT ![p] = s]
                 /\ s \in {"bind", "session", "lock", "serving"} =>
                        pc[p] \in {"bind", "session", "lock", "serving"},
             \A q \in Server \ {p} : key'[q] = key[q],
             pc'[p] \in {"bind", "session", "lock", "serving"} => key'[p] = key[p],
             UNCHANGED digestKey
      PROVE  KeyInv'
  BY <1>1
<1>2. ASSUME NEW p \in Server, Serve(p) \/ StartByHand(p) \/ Stop(p) \/ Crash(p)
      PROVE  KeyInv'
  <2>1. CASE StartUnit(p) \/ StartByHand(p)
    BY <2>1, <1>1 DEF StartUnit, StartByHand, Goto, fileVars
  <2>2. CASE LoadDigestKey(p)
    <3>1. CASE digestKey \in Server
      BY <2>2, <3>1 DEF LoadDigestKey, Goto, fileVars
    <3>2. CASE digestKey \notin Server
      BY <2>2, <3>2, <1>1 DEF LoadDigestKey, Goto, Ends, Fails, fileVars
    <3>3. QED
      BY <3>1, <3>2
  <2>3. CASE CreateDigestKey(p)
    <3>1. CASE KeyFileFree
      BY <2>3, <3>1 DEF CreateDigestKey, KeyFileFree, Goto
    <3>2. CASE ~ KeyFileFree
      BY <2>3, <3>2, <1>1 DEF CreateDigestKey, Goto, Ends, Fails
    <3>3. QED
      BY <3>1, <3>2
  <2>4. CASE WriteDigestKey(p)
    BY <2>4 DEF WriteDigestKey, Goto
  <2>5. ASSUME NEW settings \in Setting, BindLocalGrant(p, settings)
        PROVE  KeyInv'
    BY <2>5, <1>1 DEF BindLocalGrant, Goto, fileVars
  <2>6. CASE CreateLocalAdminSession(p)
    BY <2>6, <1>1 DEF CreateLocalAdminSession, Goto
  <2>7. CASE AcquireSingleOwner(p)
    BY <2>7, <1>1 DEF AcquireSingleOwner, Goto, Ends, fileVars
  <2>8. CASE Stop(p) \/ Crash(p)
    BY <2>8, <1>1 DEF Stop, Crash, Goto, Ends, Fails, fileVars
  <2>9. QED
    BY <1>2, <2>1, <2>2, <2>3, <2>4, <2>5, <2>6, <2>7, <2>8 DEF Serve
<1>3. ASSUME UNCHANGED <<pc, key, digestKey>>
      PROVE  KeyInv'
  BY <1>3
<1>4. CASE \/ \E p \in Server, w \in Write : ClientWrite(p, w)
           \/ Offline \/ BeginProbe \/ EndProbe \/ UNCHANGED vars
  BY <1>4, <1>3 DEF ClientWrite, Offline, BeginOffline, BackupDatabase, SaveBeforeRestore,
                    OverwriteDatabase, EndOffline, BeginProbe, EndProbe,
                    vars, fileVars
<1>5. QED
  BY <1>2, <1>4 DEF Next

\* However many servers are started at once on a fresh authority, and whichever
\* is killed while it creates the key file, no two of them run with different
\* keys, and none runs with a key that is not in the file.
THEOREM OneDigestKey == Spec => []KeySurvivesRestart
<1>1. KeyInv => KeySurvivesRestart
  BY DEF KeyInv
<1>2. QED
  BY <1>1, KeyInit, KeyStep, TypeCorrect, PTL DEF Spec

-----------------------------------------------------------------------------
(* No answered write is lost.  While a restore is between its safety        *)
(* snapshot and the overwriting nobody writes, so the snapshot still has    *)
(* every write of the live database.                                        *)

Kept(writes) == \A w \in writes : \E d \in snapshots : w \in d.writes

SavedBeforeOverwrite ==
    operator = "saved" =>
        /\ Kept(db.writes)
        /\ restoring.source \in snapshots /\ restoring.safety \in snapshots

KeptInv == WorkersHoldLock /\ AcknowledgedWritesKept /\ SavedBeforeOverwrite

LEMMA KeptInit == Init => KeptInv
BY LockInit DEF Init, KeptInv, AcknowledgedWritesKept, SavedBeforeOverwrite

\* A step that writes nothing, forgets no snapshot and leaves the restore alone.
LEMMA KeptQuiet ==
    ASSUME KeptInv, WorkersHoldLock',
           db'.writes = db.writes, UNCHANGED <<acked, snapshots, operator, restoring>>
    PROVE  KeptInv'
BY DEF KeptInv, AcknowledgedWritesKept, SavedBeforeOverwrite, Kept

LEMMA KeptStep == TypeOK /\ KeptInv /\ [Next]_vars => KeptInv'
<1> SUFFICES ASSUME TypeOK, KeptInv, [Next]_vars PROVE KeptInv'
  OBVIOUS
<1>1. WorkersHoldLock'
  BY LockStep DEF KeptInv
<1>2. ASSUME NEW p \in Server, Serve(p) \/ StartByHand(p) \/ Stop(p) \/ Crash(p)
      PROVE  KeptInv'
  <2>1. ASSUME NEW settings \in Setting, BindLocalGrant(p, settings)
        PROVE  KeptInv'
    <3>1. db'.writes = db.writes
      BY <2>1 DEF BindLocalGrant, TypeOK, Database
    <3>2. QED
      BY <1>1, <2>1, <3>1, KeptQuiet DEF BindLocalGrant, offlineVars, history
  <2>2. CASE ~ \E settings \in Setting : BindLocalGrant(p, settings)
    BY <1>1, <1>2, <2>2, KeptQuiet DEF Serve, StartUnit, StartByHand, LoadDigestKey,
       CreateDigestKey, WriteDigestKey, CreateLocalAdminSession, AcquireSingleOwner,
       Stop, Crash, offlineVars, history
  <2>3. QED
    BY <2>1, <2>2
<1>3. ASSUME NEW p \in Server, NEW w \in Write, ClientWrite(p, w)
      PROVE  KeptInv'
  <2>1. operator = "idle" /\ operator' = "idle"
    BY <1>3, HostAssumption DEF ClientWrite, KeptInv, WorkersHoldLock, offlineVars, Holder
  <2>2. db'.writes = db.writes \cup {w}
    BY <1>3 DEF ClientWrite, TypeOK, Database
  <2>3. QED
    BY <1>1, <1>3, <2>1, <2>2 DEF ClientWrite, KeptInv, AcknowledgedWritesKept,
       SavedBeforeOverwrite, offlineVars
<1>4. CASE BeginOffline \/ EndOffline
  BY <1>1, <1>4 DEF BeginOffline, EndOffline, KeptInv, AcknowledgedWritesKept,
     SavedBeforeOverwrite, history
<1>5. CASE BackupDatabase
  BY <1>1, <1>5 DEF BackupDatabase, KeptInv, AcknowledgedWritesKept,
     SavedBeforeOverwrite, history
<1>6. ASSUME NEW d \in snapshots, SaveBeforeRestore(d)
      PROVE  KeptInv'
  <2>1. db \in snapshots' /\ d \in snapshots' /\ snapshots \subseteq snapshots'
    BY <1>6 DEF SaveBeforeRestore, WithSafetyCopy
  <2>2. QED
    BY <1>1, <1>6, <2>1 DEF SaveBeforeRestore, Plan, KeptInv, AcknowledgedWritesKept,
       SavedBeforeOverwrite, Kept, history
<1>7. CASE OverwriteDatabase
  BY <1>1, <1>7 DEF OverwriteDatabase, KeptInv, AcknowledgedWritesKept,
     SavedBeforeOverwrite, Kept, history
<1>8. CASE BeginProbe \/ EndProbe \/ UNCHANGED vars
  BY <1>1, <1>8, KeptQuiet DEF BeginProbe, EndProbe, vars, offlineVars, history
<1>9. QED
  BY <1>2, <1>3, <1>4, <1>5, <1>6, <1>7, <1>8 DEF Next, Offline

\* A write that a client was told of is never lost, whatever is started, killed,
\* backed up, restored or abandoned: it is in the database or in a snapshot.
THEOREM NoAnsweredWriteLost == Spec => []AcknowledgedWritesKept
<1>1. KeptInv => AcknowledgedWritesKept
  BY DEF KeptInv
<1>2. QED
  BY <1>1, KeptInit, KeptStep, TypeCorrect, PTL DEF Spec
-----------------------------------------------------------------------------
(* The generations of the local grant.                                      *)

\* Binding a generation after the one in force, with a scope that one lacks,
\* keeps the generations in order.
LEMMA WidenedInOrder ==
    ASSUME TypeOK, GrantsInOrder(db.grants),
           NEW i \in Generation \cup {0}, InForce(i), i < MaxGeneration,
           db.grants[i + 1].status = "none",
           NEW S \in SUBSET Scope,
           i # 0 => db.grants[i].scopes \subseteq S /\ db.grants[i].scopes # S
    PROVE  GrantsInOrder(Widened(i, S))
<1> DEFINE old == db.grants
           new == Widened(i, S)
<1>1. i + 1 \in Generation /\ i \in Nat
  BY GenerationTyped
<1>2. \A j \in Generation : j > i => old[j].status = "none"
  <2>1. SUFFICES ASSUME NEW j \in Generation, j > i, old[j].status # "none"
                 PROVE  FALSE
    OBVIOUS
  <2>2. j # i + 1
    BY <2>1
  <2>3. i + 1 < j
    BY <1>1, <2>1, <2>2, GenerationTyped
  <2>4. old[i + 1].status = "unlinked"
    BY <1>1, <2>1, <2>3 DEF GrantsInOrder
  <2>5. QED
    BY <2>4
<1>3. new[i + 1] = [status |-> "active", scopes |-> S]
  BY <1>1 DEF Widened
<1>4. \A j \in Generation : j > i + 1 => new[j] = old[j]
  BY <1>1, GenerationTyped DEF Widened
<1>5. i # 0 => /\ new[i].status = "unlinked"
               /\ new[i].scopes = old[i].scopes
  <2>1. i # 0 => i \in Generation /\ i # i + 1
    BY <1>1
  <2>2. i # 0 => old[i] \in GrantType
    BY <2>1 DEF TypeOK, Database
  <2>3. QED
    BY <2>1, <2>2 DEF Widened, GrantType
<1>6. \A j \in Generation : j < i => new[j] = old[j]
  BY <1>1, GenerationTyped DEF Widened
<1>7. \A j \in Generation : j < i => /\ i # 0
                                   /\ old[j].status = "unlinked"
                                   /\ old[j].scopes \subseteq old[i].scopes
                                   /\ old[j].scopes # old[i].scopes
  <2>1. SUFFICES ASSUME NEW j \in Generation, j < i
                 PROVE  /\ i # 0
                        /\ old[j].status = "unlinked"
                        /\ old[j].scopes \subseteq old[i].scopes
                        /\ old[j].scopes # old[i].scopes
    OBVIOUS
  <2>2. i # 0 /\ i \in Generation
    BY <2>1, GenerationTyped DEF Generation
  <2>3. old[i].status = "active"
    BY <2>2 DEF InForce
  <2>4. QED
    BY <2>1, <2>2, <2>3 DEF GrantsInOrder
<1>8. SUFFICES ASSUME NEW k \in Generation, NEW j \in Generation, j < k,
                      new[k].status # "none"
               PROVE  /\ new[j].status = "unlinked"
                      /\ new[j].scopes \subseteq new[k].scopes
                      /\ new[j].scopes # new[k].scopes
  BY DEF GrantsInOrder
<1>9. k <= i + 1
  <2>c. k \in Nat
    BY GenerationTyped, Zenon
  <2>a. k \in Int /\ i + 1 \in Int
    BY <1>1, <2>c
  <2>b. k <= i + 1 \/ k > i + 1
    BY <2>a
  <2>1. SUFFICES ASSUME k > i + 1 PROVE FALSE
    BY <2>b
  <2>2. new[k] = old[k]
    BY <1>4, <2>1
  <2>3. k > i
    BY <1>1, <2>1, GenerationTyped
  <2>4. old[k].status = "none"
    BY <1>2, <2>3
  <2>5. QED
    BY <1>8, <2>2, <2>4
<1>10. CASE k = i + 1
  <2>1. CASE j = i
    BY <1>3, <1>5, <1>10, <2>1, GenerationTyped
  <2>2. CASE j # i
    <3>1. j < i
      BY <1>1, <1>8, <1>10, <2>2, GenerationTyped
    <3>2. old[j].scopes \subseteq S /\ old[j].scopes # S
      BY <1>7, <3>1
    <3>3. QED
      BY <1>3, <1>6, <1>7, <1>10, <3>1, <3>2
  <2>3. QED
    BY <2>1, <2>2
<1>11. CASE k = i
  <2>1. j < i /\ i # 0
    BY <1>8, <1>11, GenerationTyped
  <2>2. new[j] = old[j]
    BY <1>6, <2>1
  <2>3. QED
    BY <1>5, <1>7, <1>11, <2>1, <2>2
<1>12. CASE k < i
  BY <1>6, <1>8, <1>12, GenerationTyped DEF GrantsInOrder
<1>13. QED
  BY <1>1, <1>9, <1>10, <1>11, <1>12, GenerationTyped

LEMMA LedgerInit == Init => LocalGrantLedger
BY DEF Init, LocalGrantLedger, GrantsInOrder

\* A step that changes no grant and makes no copy but of the live database.
LEMMA LedgerQuiet ==
    ASSUME LocalGrantLedger, db'.grants = db.grants, snapshots' \subseteq snapshots \cup {db}
    PROVE  LocalGrantLedger'
BY DEF LocalGrantLedger, GrantsInOrder

LEMMA LedgerStep ==
    TypeOK /\ KeptInv /\ LocalGrantLedger /\ [Next]_vars => LocalGrantLedger'
<1> SUFFICES ASSUME TypeOK, KeptInv, LocalGrantLedger, [Next]_vars PROVE LocalGrantLedger'
  OBVIOUS
<1>1. ASSUME NEW p \in Server, Serve(p) \/ StartByHand(p) \/ Stop(p) \/ Crash(p)
      PROVE  LocalGrantLedger'
  <2>1. ASSUME NEW settings \in Setting, BindLocalGrant(p, settings)
        PROVE  LocalGrantLedger'
    <3>1. PICK i \in Generation \cup {0} :
            LET stored == IF i = 0 THEN {} ELSE db.grants[i].scopes IN
            /\ InForce(i)
            /\ \/ UNCHANGED db
               \/ /\ i = 0 \/ ~ (settings \subseteq stored)
                  /\ i < MaxGeneration /\ db.grants[i + 1].status = "none"
                  /\ db' = [db EXCEPT !.grants = Widened(i, stored \cup settings)]
      BY <2>1 DEF BindLocalGrant
    <3>2. UNCHANGED snapshots
      BY <2>1 DEF BindLocalGrant, offlineVars
    <3>3. CASE UNCHANGED db
      BY <3>2, <3>3, LedgerQuiet
    <3>4. CASE ~ UNCHANGED db
      <4> DEFINE stored == IF i = 0 THEN {} ELSE db.grants[i].scopes
      <4>1. stored \cup settings \in SUBSET Scope
        BY HostAssumption DEF TypeOK, Database, GrantType
      <4>2. i # 0 => /\ db.grants[i].scopes \subseteq stored \cup settings
                     /\ db.grants[i].scopes # stored \cup settings
        <5>1. ~ (settings \subseteq stored) \/ i = 0
          BY <3>1, <3>4
        <5>2. i # 0 => stored = db.grants[i].scopes
          OBVIOUS
        <5>3. QED
          BY <5>1, <5>2
      <4>3. GrantsInOrder(Widened(i, stored \cup settings))
        BY <3>1, <3>4, <4>1, <4>2, WidenedInOrder DEF LocalGrantLedger
      <4>4. db'.grants = Widened(i, stored \cup settings)
        BY <3>1, <3>4 DEF TypeOK, Database
      <4>5. QED
        <5>1. GrantsInOrder(db'.grants)
          BY <4>3, <4>4
        <5>2. \A d \in snapshots : GrantsInOrder(d.grants)
          BY DEF LocalGrantLedger
        <5>3. (\A d \in snapshots \cup {db} : GrantsInOrder(d.grants))'
          BY <3>2, <5>1, <5>2 DEF GrantsInOrder
        <5>4. QED
          BY <5>3 DEF LocalGrantLedger
    <3>5. QED
      BY <3>3, <3>4
  <2>2. CASE ~ \E settings \in Setting : BindLocalGrant(p, settings)
    BY <1>1, <2>2, LedgerQuiet DEF Serve, StartUnit, StartByHand, LoadDigestKey,
       CreateDigestKey, WriteDigestKey, CreateLocalAdminSession, AcquireSingleOwner,
       Stop, Crash, offlineVars
  <2>3. QED
    BY <2>1, <2>2
<1>2. ASSUME NEW p \in Server, NEW w \in Write, ClientWrite(p, w)
      PROVE  LocalGrantLedger'
  <2>1. db'.grants = db.grants
    BY <1>2 DEF ClientWrite, TypeOK, Database
  <2>2. QED
    BY <1>2, <2>1, LedgerQuiet DEF ClientWrite, offlineVars
<1>3. CASE OverwriteDatabase
  <2>1. db' \in snapshots /\ UNCHANGED snapshots
    BY <1>3 DEF OverwriteDatabase, KeptInv, SavedBeforeOverwrite
  <2>2. QED
    BY <2>1 DEF LocalGrantLedger
<1>4. CASE \/ BeginOffline \/ BackupDatabase \/ \E d \in snapshots : SaveBeforeRestore(d)
           \/ EndOffline \/ BeginProbe \/ EndProbe \/ UNCHANGED vars
  BY <1>4, LedgerQuiet DEF BeginOffline, BackupDatabase, SaveBeforeRestore, WithSafetyCopy,
     EndOffline, BeginProbe, EndProbe, vars, offlineVars
<1>5. QED
  BY <1>1, <1>2, <1>3, <1>4 DEF Next, Offline

\* In the live database and in every snapshot at most one generation of the local
\* grant is in force, the last, and each widens the one before it.
THEOREM LocalGrantsInOrder == Spec => []LocalGrantLedger
BY KeptInit, KeptStep, LedgerInit, LedgerStep, TypeCorrect, PTL DEF Spec
=============================================================================
