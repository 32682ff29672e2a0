----------------------------- MODULE AuthorityHost -----------------------------
(***************************************************************************)
(* The processes of one machine around the authority database: `serve` in  *)
(* the unit of the supervisor and by hand, `service status`, and the       *)
(* offline break-glass commands (cli.py, authority.py, servicectl.py,      *)
(* breakglass.py; the lock is src/recall/authority_lock.py).               *)
(*                                                                         *)
(* `serve` builds the whole application first (the digest key, the local   *)
(* grant, the admin session file) and takes the lock of the database only  *)
(* then.  Each of these steps is atomic on its own file or in its own      *)
(* transaction, and any process may run, crash or be started in between.   *)
(***************************************************************************)
EXTENDS Integers, FiniteSets

CONSTANTS
    Server,          \* the `serve` processes: one per unit or terminal
    Supervised,      \* those that a supervisor starts and restarts
    Scope,           \* memory scopes
    Setting,         \* what RECALL_MCP_MEMORY_SCOPES may be in a process
    Write,           \* client writes
    MaxGeneration,   \* bound: no local grant is widened beyond this generation
    MaxSnapshots,    \* bound: no more copies of the database are made
    MaxCrashes,      \* bound: no more processes are killed
    None             \* nobody, nothing

\* Those that may hold the lock besides a server.
Operator == "operator"
Status == "status"
Holder == Server \cup {Operator, Status}

Generation == 1..MaxGeneration
GrantType == [status : {"none", "active", "unlinked"}, scopes : SUBSET Scope]
Database == [grants : [Generation -> GrantType], writes : SUBSET Write]

ASSUME HostAssumption ==
    /\ Supervised \subseteq Server
    /\ Setting \subseteq SUBSET Scope
    /\ Operator \notin Server /\ Status \notin Server
    /\ None \notin Holder /\ "empty" \notin Server /\ "empty" # None
    /\ MaxGeneration \in Nat \ {0} /\ MaxSnapshots \in Nat /\ MaxCrashes \in Nat
    /\ None \notin [source : Database, safety : Database]

VARIABLES
    lock,         \* who holds the OS lock of the database
    pc,           \* the next step of each server
    context,      \* the generation of the local grant each server runs with, or 0
    key,          \* the digest key each server runs with: who made it
    digestKey,    \* the digest key file: missing, empty, or who made it
    session,      \* the admin session file: the server whose token it holds
    db,           \* the authority database
    snapshots,    \* verified copies of it
    operator,     \* the next step of the break-glass command
    restoring,    \* the snapshot a restore reads, and the one it saved first
    acked,        \* history: the client writes that were answered
    crashes       \* history: how many processes were killed

vars == <<lock, pc, context, key, digestKey, session, db, snapshots,
          operator, restoring, acked, crashes>>
fileVars == <<digestKey, session>>
offlineVars == <<snapshots, operator, restoring>>
history == <<acked, crashes>>

Step == {"load", "create", "write", "bind", "session", "lock"}

TypeOK ==
    /\ lock \in Holder \cup {None}
    /\ pc \in [Server -> Step \cup {"off", "serving", "exited"}]
    /\ context \in [Server -> Generation \cup {0}]
    /\ key \in [Server -> Server \cup {None}]
    /\ digestKey \in Server \cup {None, "empty"}
    /\ session \in Server \cup {None}
    /\ db \in Database
    /\ snapshots \in SUBSET Database
    /\ operator \in {"idle", "locked", "saved", "done"}
    /\ restoring \in [source : Database, safety : Database] \cup {None}
    /\ operator = "saved" <=> restoring # None
    /\ acked \in SUBSET Write
    /\ crashes \in 0..MaxCrashes

\* A fresh authority, as `init` leaves it: no local grant, key or session.
Init ==
    /\ lock = None
    /\ pc = [p \in Server |-> IF p \in Supervised THEN "off" ELSE "exited"]
    /\ context = [p \in Server |-> 0]
    /\ key = [p \in Server |-> None]
    /\ digestKey = None
    /\ session = None
    /\ db = [grants |-> [i \in Generation |-> [status |-> "none", scopes |-> {}]],
             writes |-> {}]
    /\ snapshots = {}
    /\ operator = "idle"
    /\ restoring = None
    /\ acked = {}
    /\ crashes = 0

-----------------------------------------------------------------------------
(* The lock of the database. *)

\* Mutant: the break-glass commands do not care who holds the lock.
CanLock_OfflineAnyway(h) == lock = None \/ h = Operator

\* The advisory lock is free; what the sidecar file says is never asked.
CanLock(h) == lock = None

\* release: the lock once h has closed its descriptor.
Freed(h) == IF lock = h THEN None ELSE lock

\* Mutant: a lock that is a file with the owner's process id in it.
ReleasedByKernel_PidFile(h) == lock

\* The kernel closes the descriptor of a process that was killed.
ReleasedByKernel(h) == IF lock = h THEN None ELSE lock

-----------------------------------------------------------------------------
(* `serve` *)

Alive(p) == pc[p] \notin {"off", "exited"}

Goto(p, step) == pc' = [pc EXCEPT ![p] = step]

\* The process ends, and what it has in memory is gone.
Ends(p, how) ==
    /\ Goto(p, how)
    /\ context' = [context EXCEPT ![p] = 0]
    /\ key' = [key EXCEPT ![p] = None]

\* It fails (exit 1) or is killed: its supervisor starts it again.
Fails(p) == Ends(p, IF p \in Supervised THEN "off" ELSE "exited")

\* The supervisor (re)starts its unit.
StartUnit(p) ==
    /\ p \in Supervised /\ pc[p] = "off"
    /\ Goto(p, "load")
    /\ UNCHANGED <<fileVars, lock, context, key, db, offlineVars, history>>

\* An operator types `serve`, or starts a unit the supervisor has given up.
StartByHand(p) ==
    /\ pc[p] = "exited"
    /\ Goto(p, "load")
    /\ UNCHANGED <<fileVars, lock, context, key, db, offlineVars, history>>

\* load_or_create_digest_key: an existing file must hold a whole key.
LoadDigestKey(p) ==
    /\ pc[p] = "load"
    /\ \/ /\ digestKey \in Server
          /\ key' = [key EXCEPT ![p] = digestKey]
          /\ Goto(p, "bind")
          /\ UNCHANGED context
       \/ /\ digestKey = "empty"
          /\ Fails(p)
       \/ /\ digestKey = None
          /\ Goto(p, "create")
          /\ UNCHANGED <<context, key>>
    /\ UNCHANGED <<fileVars, lock, db, offlineVars, history>>

\* Mutant: open(path, "w").
KeyFileFree_Truncates == TRUE

\* open(path, "x") succeeds.
KeyFileFree == digestKey = None

\* ... a missing one is created, unless somebody else was faster,
CreateDigestKey(p) ==
    /\ pc[p] = "create"
    /\ IF KeyFileFree
         THEN digestKey' = "empty" /\ Goto(p, "write") /\ UNCHANGED <<context, key>>
         ELSE Fails(p) /\ UNCHANGED digestKey
    /\ UNCHANGED <<session, lock, db, offlineVars, history>>

\* ... and then written.
WriteDigestKey(p) ==
    /\ pc[p] = "write"
    /\ digestKey' = p
    /\ key' = [key EXCEPT ![p] = p]
    /\ Goto(p, "bind")
    /\ UNCHANGED <<session, lock, context, db, offlineVars, history>>

\* The generation of the local grant that is in force (0: there is none).
InForce(i) ==
    IF \A j \in Generation : db.grants[j].status # "active"
      THEN i = 0
      ELSE /\ i \in Generation /\ db.grants[i].status = "active"
           /\ \A j \in Generation : db.grants[j].status = "active" => j <= i

\* Mutant: the old generation stays in force.
Widened_KeepsOld(i, scopes) ==
    [db.grants EXCEPT ![i + 1] = [status |-> "active", scopes |-> scopes]]

\* The local grants once generation i is unlinked and the next one bound.
Widened(i, scopes) ==
    [j \in Generation |->
        IF j = i + 1 THEN [status |-> "active", scopes |-> scopes]
        ELSE IF j = i THEN [db.grants[j] EXCEPT !.status = "unlinked"]
        ELSE db.grants[j]]

\* ensure_local_grant, one transaction: the grant in force is used if it covers
\* the scopes in the environment of this server (a unit and a terminal need not
\* agree); else a new generation with the scopes of both is bound.
BindLocalGrant(p, settings) ==
    /\ pc[p] = "bind"
    /\ \E i \in Generation \cup {0} :
         LET stored == IF i = 0 THEN {} ELSE db.grants[i].scopes IN
         /\ InForce(i)
         /\ \/ /\ i # 0 /\ settings \subseteq stored
               /\ context' = [context EXCEPT ![p] = i]
               /\ UNCHANGED db
            \/ /\ i = 0 \/ ~ (settings \subseteq stored)
               /\ i < MaxGeneration /\ db.grants[i + 1].status = "none"
               /\ db' = [db EXCEPT !.grants = Widened(i, stored \cup settings)]
               /\ context' = [context EXCEPT ![p] = i + 1]
    /\ Goto(p, "session")
    /\ UNCHANGED <<fileVars, lock, key, offlineVars, history>>

\* create_local_admin_session replaces the session file.
CreateLocalAdminSession(p) ==
    /\ pc[p] = "session"
    /\ session' = p
    /\ Goto(p, "lock")
    /\ UNCHANGED <<digestKey, lock, context, key, db, offlineVars, history>>

\* acquire_single_owner: exit 3, final for the supervisor, if the lock is held.
AcquireSingleOwner(p) ==
    /\ pc[p] = "lock"
    /\ IF CanLock(p)
         THEN lock' = p /\ Goto(p, "serving") /\ UNCHANGED <<context, key>>
         ELSE Ends(p, "exited") /\ UNCHANGED lock
    /\ UNCHANGED <<fileVars, db, offlineVars, history>>

\* A write of a client commits and is answered: the grant that the server has
\* been running with since it was started is still in force.
ClientWrite(p, w) ==
    /\ pc[p] = "serving" /\ w \notin acked
    /\ context[p] # 0 /\ db.grants[context[p]].status = "active"
    /\ db' = [db EXCEPT !.writes = @ \cup {w}]
    /\ acked' = acked \cup {w}
    /\ UNCHANGED <<fileVars, lock, pc, context, key, offlineVars, crashes>>

\* The server is told to stop; the session file stays.
Stop(p) ==
    /\ pc[p] = "serving"
    /\ Ends(p, "exited")
    /\ lock' = Freed(p)
    /\ UNCHANGED <<fileVars, db, offlineVars, history>>

\* The process is killed at any point.
Crash(p) ==
    /\ Alive(p) /\ crashes < MaxCrashes
    /\ Fails(p)
    /\ lock' = ReleasedByKernel(p)
    /\ crashes' = crashes + 1
    /\ UNCHANGED <<fileVars, db, offlineVars, acked>>

-----------------------------------------------------------------------------
(* Offline break-glass commands, and `service status`. *)

\* _ExclusiveAuthority: refused while anybody holds the lock.
BeginOffline ==
    /\ operator = "idle" /\ CanLock(Operator)
    /\ operator' = "locked" /\ lock' = Operator
    /\ UNCHANGED <<fileVars, pc, context, key, db, snapshots, restoring, history>>

\* backup_database
BackupDatabase ==
    /\ operator = "locked"
    /\ Cardinality(snapshots \cup {db}) <= MaxSnapshots
    /\ operator' = "done"
    /\ snapshots' = snapshots \cup {db}
    /\ UNCHANGED <<fileVars, lock, pc, context, key, db, restoring, history>>

\* Mutant: the safety snapshot is removed once it is verified.
WithSafetyCopy_Removed == snapshots

\* The snapshots once the safety snapshot of the live database is verified.
WithSafetyCopy == snapshots \cup {db}

\* Mutant: nobody remembers where the safety snapshot is.
Plan_NoSafety(d) == [source |-> d, safety |-> None]

\* What a restore of snapshot d works with.
Plan(d) == [source |-> d, safety |-> db]

\* restore_whole_database: a safety snapshot of the live database first,
SaveBeforeRestore(d) ==
    /\ operator = "locked" /\ d \in snapshots
    /\ Cardinality(snapshots \cup {db}) <= MaxSnapshots
    /\ operator' = "saved"
    /\ snapshots' = WithSafetyCopy
    /\ restoring' = Plan(d)
    /\ UNCHANGED <<fileVars, lock, pc, context, key, db, history>>

\* ... then the whole database is overwritten by the chosen one; if that
\* fails, the safety snapshot is written back.
OverwriteDatabase ==
    /\ operator = "saved"
    /\ operator' = "done"
    /\ db' \in {restoring.source, restoring.safety}
    /\ restoring' = None
    /\ UNCHANGED <<fileVars, lock, pc, context, key, snapshots, history>>

\* The command ends, or is killed: every step of it is transactional.
EndOffline ==
    /\ operator # "idle"
    /\ operator' = "idle" /\ restoring' = None
    /\ lock' = Freed(Operator)
    /\ UNCHANGED <<fileVars, pc, context, key, db, snapshots, history>>

\* probe_authority takes the lock to see whether it is free,
BeginProbe ==
    /\ CanLock(Status)
    /\ lock' = Status
    /\ UNCHANGED <<fileVars, pc, context, key, db, offlineVars, history>>

\* ... and gives it back.
EndProbe ==
    /\ lock = Status
    /\ lock' = Freed(Status)
    /\ UNCHANGED <<fileVars, pc, context, key, db, offlineVars, history>>

-----------------------------------------------------------------------------
\* What a started server does by itself until it serves or gives up.
Serve(p) ==
    \/ StartUnit(p)
    \/ LoadDigestKey(p) \/ CreateDigestKey(p) \/ WriteDigestKey(p)
    \/ \E settings \in Setting : BindLocalGrant(p, settings)
    \/ CreateLocalAdminSession(p) \/ AcquireSingleOwner(p)

Offline ==
    \/ BeginOffline \/ BackupDatabase \/ OverwriteDatabase \/ EndOffline
    \/ \E d \in snapshots : SaveBeforeRestore(d)

Next ==
    \/ \E p \in Server : Serve(p) \/ StartByHand(p) \/ Stop(p) \/ Crash(p)
    \/ \E p \in Server, w \in Write : ClientWrite(p, w)
    \/ Offline
    \/ BeginProbe \/ EndProbe

Spec == Init /\ [][Next]_vars

\* A process that runs keeps running and the supervisor restarts its unit; a
\* status command ends.  Nobody has to start, stop or kill anything.
Fairness ==
    /\ \A p \in Server : WF_vars(Serve(p))
    /\ WF_vars(EndProbe)

FairSpec == Spec /\ Fairness

-----------------------------------------------------------------------------
(* What the host promises. *)

\* At most one process works on the database: one server that serves, or one
\* break-glass command (design.md section 11, R1.5).
OneOwner ==
    \A p \in Server : pc[p] = "serving" =>
        /\ operator = "idle"
        /\ \A q \in Server : pc[q] = "serving" => q = p

\* A write that was answered is in the database or, if a restore has replaced
\* it since, in a snapshot the operator still has: no restart, crash, failed or
\* abandoned restore loses it.
AcknowledgedWritesKept ==
    \A w \in acked : w \in db.writes \/ \E d \in snapshots : w \in d.writes

\* In the database and in each snapshot of it the generations of the local
\* grant are consecutive, each has more scopes than the one before, and only
\* the last is in force: no start of any server, in whatever order, leaves two
\* grants in force or takes a scope away from the owner.
GrantsInOrder(grants) ==
    \A i, j \in Generation : j < i /\ grants[i].status # "none" =>
        /\ grants[j].status = "unlinked"
        /\ grants[j].scopes \subseteq grants[i].scopes
        /\ grants[j].scopes # grants[i].scopes
LocalGrantLedger ==
    \A d \in snapshots \cup {db} : GrantsInOrder(d.grants)

\* A server past its first step runs with the key that is in the file, so that
\* the digests it stores can still be compared after a restart, even if two
\* servers were started at once on a fresh authority.
KeySurvivesRestart ==
    \A p \in Server : pc[p] \in {"bind", "session", "lock", "serving"} =>
        key[p] = digestKey

\* After a crash the restarted unit serves, or finds the lock with a process that
\* is there, unless the crash has torn the digest key: no lock outlives its
\* process.
RestartTakesOver ==
    \A p \in Supervised : pc[p] = "off" ~>
        \/ digestKey = "empty"
        \/ operator # "idle" \/ lock = Status
        \/ \E q \in Server : pc[q] = "serving"

-----------------------------------------------------------------------------
(* What the documents promise and the code does not keep. *)

\* design.md section 11: a second authority process is refused by the lock and
\* does not share the SQLite file.  What it does before must then not disturb
\* the process that serves: its local grant stays in force, and the session
\* file holds its token.
ServingUndisturbed ==
    \A p \in Server : pc[p] = "serving" /\ operator = "idle" =>
        /\ db.grants[context[p]].status = "active"
        /\ session = p

\* cli.py: a crash releases the lock, and a supervisor restart can take over
\* without any cleanup step; servicectl.py: `service status` changes nothing.
\* So the restarted unit serves unless another server or a break-glass command
\* does own the database (or the crash has torn the digest key).
RestartServes ==
    \A p \in Supervised : pc[p] = "off" ~>
        \/ digestKey = "empty"
        \/ operator # "idle"
        \/ \E q \in Server : pc[q] = "serving"
=============================================================================
