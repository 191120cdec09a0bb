----------------------------- MODULE MoeLayer -----------------------------
(***************************************************************************)
(* What the expert cache of a MoE layer promises, without slots, streams   *)
(* or tables: the forwards hand MLPs over working sets of experts to the   *)
(* device, which executes them in order, and each one computes with the    *)
(* weights of exactly the experts it was given, as if all experts of the   *)
(* layer were resident.                                                    *)
(***************************************************************************)
EXTENDS Naturals

CONSTANTS
    Experts,
    None      \* no weights

VARIABLES
    issued,   \* MLPs handed over so far
    queue,    \* those that are not executed yet: number and working set
    used      \* the weights the last executed MLP used, per expert

vars == <<issued, queue, used>>

Init ==
    /\ issued = 0
    /\ queue = {}
    /\ used = [e \in Experts |-> None]

Issue(A) ==
    /\ issued' = issued + 1
    /\ queue' = queue \cup {[id |-> issued + 1, experts |-> A]}
    /\ UNCHANGED used

Execute(q) ==
    /\ \A r \in queue : q.id <= r.id
    /\ queue' = queue \ {q}
    /\ used' = [e \in Experts |-> IF e \in q.experts THEN e ELSE None]
    /\ UNCHANGED issued

Next ==
    \/ \E A \in SUBSET Experts : Issue(A)
    \/ \E q \in queue : Execute(q)

Spec == Init /\ [][Next]_vars
===========================================================================
