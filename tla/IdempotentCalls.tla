---------------------------- MODULE IdempotentCalls ----------------------------
(***************************************************************************)
(* What a client may rely on when it repeats a call under one idempotency  *)
(* key (R5.1 of .kiro/specs/recall-mcp-cross-client/requirements.md): the  *)
(* call takes effect at most once, and every success it is told of, however*)
(* often it asked, is that effect.                                         *)
(***************************************************************************)
CONSTANTS
    Call,     \* what clients ask for
    Result    \* what a call may do

VARIABLES
    effect,   \* what each call has done
    told      \* the successes its client has been told of

Init ==
    /\ effect = [c \in Call |-> {}]
    /\ told = [c \in Call |-> {}]

\* A call that has done nothing yet takes effect.
Happen(c, r) ==
    /\ effect[c] = {}
    /\ effect' = [effect EXCEPT ![c] = {r}]
    /\ UNCHANGED told

\* Its client is told, for the first time or again.
Tell(c) ==
    /\ effect[c] # {}
    /\ told' = [told EXCEPT ![c] = effect[c]]
    /\ UNCHANGED effect

Next == \E c \in Call : Tell(c) \/ \E r \in Result : Happen(c, r)

Spec == Init /\ [][Next]_<<effect, told>>
=============================================================================
