--------------------------- MODULE MCSeamRunner ---------------------------
(* Models of SeamRunner for TLC. *)
EXTENDS SeamRunner

Plain == [hasId |-> TRUE, external |-> FALSE, mix |-> FALSE, custom |-> "none",
          gate |-> FALSE, topK |-> TRUE, experts |-> TRUE, scoring |-> TRUE,
          quantized |-> FALSE, overlapGate |-> FALSE, sharedGate |-> FALSE,
          overlapShared |-> FALSE, staticKernel |-> FALSE, zeroExperts |-> FALSE,
          resident |-> FALSE, lanes |-> "none"]

External == [Plain EXCEPT !.external = TRUE]
Overlapped == [External EXCEPT !.overlapShared = TRUE]
Upstream == [Overlapped EXCEPT !.sharedGate = TRUE]
Fused == [Plain EXCEPT !.mix = TRUE, !.lanes = "matching"]

\* One defect each.
Defective ==
    {[Plain EXCEPT !.hasId = FALSE], [Plain EXCEPT !.custom = "callable"],
     [Plain EXCEPT !.custom = "named"], [Plain EXCEPT !.topK = FALSE],
     [Plain EXCEPT !.experts = FALSE], [Plain EXCEPT !.scoring = FALSE],
     [Plain EXCEPT !.quantized = TRUE],
     [External EXCEPT !.overlapGate = TRUE], [Plain EXCEPT !.overlapShared = TRUE],
     [Plain EXCEPT !.staticKernel = TRUE], [Plain EXCEPT !.zeroExperts = TRUE]}

DefectiveFused ==
    {[Fused EXCEPT !.lanes = "none"], [Fused EXCEPT !.lanes = "other"],
     [Fused EXCEPT !.overlapShared = TRUE]}

Model(abi, sentinel, parallel, first, second) ==
    [abi |-> abi, sentinel |-> sentinel, parallel |-> parallel,
     kinds |-> <<first, second>>]

Resident(k) == [k EXCEPT !.resident = TRUE]
Gated(k) == [k EXCEPT !.gate = TRUE]

\* Whole models are fused or not; fused experts and overlap are ABI 1.
TwoLayerModels ==
    {Model(abi, s, "single_npu", Resident(Plain), k) :
        abi \in {1, 2}, s \in BOOLEAN,
        k \in Defective \cup {Plain, External, Gated(Plain)}}
    \cup {Model(1, TRUE, "single_npu", k, Fused) : k \in {Fused, Resident(Fused)}}
    \cup {Model(1, TRUE, "single_npu", Fused, k) : k \in DefectiveFused}
    \cup {Model(1, TRUE, "single_npu", k, Overlapped) :
            k \in {Overlapped, Upstream}}
    \cup {Model(1, TRUE, "single_npu", Resident(Overlapped), External)}
    \cup {Model(1, TRUE, "tp4", Overlapped, Overlapped)}
    \cup {Model(abi, TRUE, "multi_npu", Plain, Plain) : abi \in {1, 2}}
===========================================================================
