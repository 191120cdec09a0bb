--------------------------- MODULE MCSeamDispatch -------------------------
(* Deployments of SeamDispatch for TLC. *)
EXTENDS SeamDispatch

\* Eager: the phase of a forward may be unknown.
Eager == [topK |-> 2, captureSizes |-> {}, servingPhases |-> Phases]

\* Graphs for the batches that fit the slots, phases known from the metadata.
Graphs == [topK |-> 1, captureSizes |-> {1, 2},
           servingPhases |-> {"prefill", "decode", "mixed"}]

\* A captured size whose batches may need more experts than there are slots.
Oversized == [Graphs EXCEPT !.captureSizes = {1, 3}]

Supported == {Eager, Graphs}
Unsupported == {Oversized}
===========================================================================
