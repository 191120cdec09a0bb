------------------------- MODULE MCWeightLifecycle -------------------------
(* Deployments of WeightLifecycle for TLC. *)
EXTENDS WeightLifecycle, TLC

CONSTANT ResidentLayer

ExpertsAreAlike == Permutations(Experts)

Native == [numSlots |-> 2, resident |-> {}, cpuFirst |-> FALSE, release |-> FALSE]

\* Both regimes with native loading, the dynamic regime with CPU-first loading.
Supported ==
    {[Native EXCEPT !.numSlots = s, !.resident = r, !.release = b] :
        s \in {1, Cardinality(Experts)}, r \in {{}, {ResidentLayer}}, b \in BOOLEAN}
    \cup
    {[Native EXCEPT !.numSlots = 1, !.cpuFirst = TRUE, !.release = b] : b \in BOOLEAN}

\* CPU-first loading with a slot for every expert.
CpuFirstStatic ==
    {[Native EXCEPT !.numSlots = Cardinality(Experts), !.cpuFirst = TRUE]}
===========================================================================
