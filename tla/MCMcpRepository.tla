--------------------------- MODULE MCMcpRepository ---------------------------
(* Instances of McpRepository for TLC. *)
EXTENDS McpRepository, TLC

CONSTANTS alice, bob, admin, writer, other, private, shared

\* Two grants of alice (one of them may not administer), one of bob.
MCGrantOwner == (admin :> alice) @@ (writer :> alice) @@ (other :> bob)
MCGrantRow ==
    (admin :> [perms |-> {"read", "admin"}, scopes |-> {private, shared}])
    @@ (writer :> [perms |-> {"read", "write"}, scopes |-> {private, shared}])
    @@ (other :> [perms |-> {"read", "write", "admin"}, scopes |-> {shared}])

\* Restricted to the grants and the scopes of the instance.
GrantOwnerOf == [g \in Grant |-> MCGrantOwner[g]]
GrantRowOf == [g \in Grant |-> [MCGrantRow[g] EXCEPT !.scopes = @ \cap Scope]]

Symmetry == Permutations(Memory) \cup Permutations(Key) \cup Permutations(Content)
=============================================================================
