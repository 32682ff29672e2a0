---------------------------- MODULE MCRemoteCalls ----------------------------
(* Constants for model checking RemoteCalls. *)
EXTENDS RemoteCalls, TLC

CONSTANTS alice, bob, claude, early, late, pairing, shared, m1, m2,
          search, purge, export, get, recent, status, restore

GrantedPerms == {{"read", "admin"}}
NamesIn == [ch \in Challenge |-> [owner |-> alice, client |-> claude]]
ClaimOf ==
    early :> [client |-> claude, gen |-> 1, perms |-> {"read", "admin"}, exp |-> 1]
    @@ late :> [client |-> claude, gen |-> 2, perms |-> {"admin", "read"}, exp |-> 1]
ClaimsIn == [t \in Token |-> ClaimOf[t]]
OwnerOf == m1 :> alice @@ m2 :> bob
OwnerOfMemory == [m \in Memory |-> OwnerOf[m]]
AskOf ==
    search :> [tool |-> "search", cred |-> early, scope |-> shared, mem |-> m1]
    @@ get :> [tool |-> "get", cred |-> early, scope |-> shared, mem |-> m1]
    @@ recent :> [tool |-> "recent", cred |-> early, scope |-> shared, mem |-> m1]
    @@ status :> [tool |-> "status", cred |-> early, scope |-> shared, mem |-> m1]
    @@ export :> [tool |-> "export", cred |-> early, scope |-> shared, mem |-> m1]
    @@ restore :> [tool |-> "restore", cred |-> Session, scope |-> shared, mem |-> m1]
    @@ purge :> [tool |-> "purge", cred |-> Session, scope |-> shared, mem |-> m1]
AskedIn == [k \in Call |-> AskOf[k]]
LocalTermsIn == [owner |-> alice, perms |-> Perm, scopes |-> {shared}]
=============================================================================
