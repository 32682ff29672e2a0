-------------------------- MODULE MCServiceRequests --------------------------
(* Instances of ServiceRequests for TLC. *)
EXTENDS ServiceRequests, TLC

CONSTANTS alice, admin, writer, private, shared, m1, k1, k2, c1, c2,
          add, again, edit, move, remove

\* The clients write through one grant, the owner administers through another.
OneOwner == (admin :> alice) @@ (writer :> alice)
GrantRowOf ==
    (admin :> [perms |-> {"admin"}, scopes |-> Scope])
    @@ (writer :> [perms |-> {"write"}, scopes |-> Scope])

A(op, s, t, m, n, c, k) == [grant |-> writer, op |-> op, scope |-> s, new |-> t,
                            mem |-> m, rev |-> n, content |-> c, key |-> k]

\* An add; a replace of what it made, which may move it; another add under the
\* key of the first; a removal.
AskedOf ==
    (add :> A("add", shared, shared, None, 0, c1, k1))
    @@ (again :> A("add", shared, shared, None, 0, c2, k1))
    @@ (edit :> A("replace", shared, shared, m1, 1, c2, k2))
    @@ (move :> A("replace", shared, private, m1, 1, c2, k2))
    @@ (remove :> A("remove", shared, shared, m1, 1, None, k2))
AskedIn == [c \in Call |-> AskedOf[c]]

Symmetry == Permutations(Attempt)
=============================================================================
