--------------------------- MODULE MCClientGrants ---------------------------
(* Constants for model checking ClientGrants. *)
EXTENDS ClientGrants, TLC

CONSTANTS alice, bob, claude, pair, first, second

GrantedPerms == {{"read"}, {"read", "write"}}
NamesIn == pair :> [owner |-> alice, client |-> claude]
ClaimsIn ==
    first :> [client |-> claude, gen |-> 1, perms |-> {"read"}, exp |-> 1]
    @@ second :> [client |-> claude, gen |-> 3, perms |-> {"read"}, exp |-> 2]
=============================================================================
