---------------------------- MODULE GrantedCalls ----------------------------
(***************************************************************************)
(* What owners may rely on, however a call is made (R5.6, R8.10 of         *)
(* .kiro/specs/recall-mcp-cross-client/requirements.md): as if a call were *)
(* authorized and served at once, it learns of a memory only, and changes  *)
(* one only, in a step in which the terms its caller holds allow it.       *)
(***************************************************************************)
CONSTANTS Call, Memory

VARIABLES
    allowed,   \* the memories each call may learn of
    inReach,   \* the memories each call may change
    seen,      \* those it was served
    changed    \* those it changed

Init ==
    /\ seen = [k \in Call |-> {}]
    /\ changed = [k \in Call |-> {}]

Serve(k, found) ==
    /\ found \subseteq allowed[k]
    /\ seen' = [seen EXCEPT ![k] = @ \cup found]
    /\ UNCHANGED changed

Change(k, m) ==
    /\ m \in inReach[k]
    /\ changed' = [changed EXCEPT ![k] = @ \cup {m}]
    /\ UNCHANGED seen

\* A restart, or an administrator's log that cannot be written, loses answers.
Lose(lost) ==
    /\ seen' = [k \in Call |-> IF k \in lost THEN {} ELSE seen[k]]
    /\ UNCHANGED changed

Next ==
    \/ \E k \in Call, found \in SUBSET Memory : Serve(k, found)
    \/ \E k \in Call, m \in Memory : Change(k, m)
    \/ \E lost \in SUBSET Call : Lose(lost)

\* Who may do what, and where the memories are, changes at any time.
Spec == Init /\ [][Next]_<<seen, changed>>
=============================================================================
