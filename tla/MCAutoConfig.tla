--------------------------- MODULE MCAutoConfig ---------------------------
(* An instance of AutoConfig for TLC: the model the defaults are made for  *)
(* and one with layers four times as large.                                *)
EXTENDS AutoConfig

Default8 == [layers |-> 8, experts |-> 8, expert |-> 1, topK |-> 2, reserve |-> 2]
Large8 == [layers |-> 8, experts |-> 8, expert |-> 4, topK |-> 2, reserve |-> 4]
Dense == [layers |-> 4, experts |-> 0, expert |-> 1, topK |-> 0, reserve |-> 0]
ServedModels == {Default8, Large8, Dense}

Plain == [gbEnv |-> 48, gbCli |-> {}, slots |-> {}, resident |-> {}, fanout |-> {},
          layered |-> {}, release |-> {}, sew |-> TRUE, local |-> TRUE, batch |-> 1,
          launcher |-> TRUE, strict |-> FALSE, pinned |-> FALSE, defects |-> {},
          prefixCaching |-> FALSE, compatOnly |-> FALSE, uva |-> FALSE,
          nativePrefetch |-> FALSE, graphs |-> "piecewise"]

\* One departure from the plain deployment at a time.
SomeShells ==
    {Plain,
     [Plain EXCEPT !.gbEnv = 0],
     [Plain EXCEPT !.gbEnv = 0, !.gbCli = {48}],
     [Plain EXCEPT !.sew = FALSE],
     [Plain EXCEPT !.sew = FALSE, !.release = {TRUE}],
     [Plain EXCEPT !.slots = {3}],
     [Plain EXCEPT !.resident = {{}}],
     [Plain EXCEPT !.local = FALSE],
     [Plain EXCEPT !.launcher = FALSE, !.prefixCaching = TRUE],
     [Plain EXCEPT !.prefixCaching = TRUE],
     [Plain EXCEPT !.defects = {"runtime_dirty"}],
     [Plain EXCEPT !.defects = {"runtime_not_git"}, !.pinned = TRUE],
     [Plain EXCEPT !.defects = {"seam_dirty"}],
     [Plain EXCEPT !.defects = {"runtime_dirty"}, !.strict = TRUE],
     [Plain EXCEPT !.compatOnly = TRUE],
     [Plain EXCEPT !.uva = TRUE],
     [Plain EXCEPT !.nativePrefetch = TRUE],
     [Plain EXCEPT !.graphs = "full"]}

SomeReadings == {{}, {[usable |-> 400, total |-> 600]}, {[usable |-> 120, total |-> 600]}}

Waves(l, t) == [name |-> "b2_work_conserving_prefill", layer |-> l, ms |-> t]
Resident(l, t) == [name |-> "prefill_resident_native", layer |-> l, ms |-> t]
Step(t) == [name |-> "forward", layer |-> -1, ms |-> t]
SomeProfiles == {<<>>,
                 <<Step(9), Resident(2, 2), Waves(3, 3), Resident(2, 2)>>,
                 <<Resident(0, 1), Waves(3, 4), Resident(4, 2), Step(9), Waves(7, 2),
                   Waves(3, 1), Resident(0, 1), Resident(1, 3), Waves(6, 3), Waves(2, 5)>>}
===========================================================================
