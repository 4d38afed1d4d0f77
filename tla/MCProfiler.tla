----------------------------- MODULE MCProfiler -----------------------------
(***************************************************************************)
(* Command lines, geometries and bounds for model checking the Pin tool.    *)
(* Three lines over one-line caches, two threads: a reference that misses   *)
(* costs a fill and a writeback.                                            *)
(***************************************************************************)
EXTENDS Profiler, TLC

OneLine == [sets |-> 1, assoc |-> 1]
ThreeLines == 0..2
ThreadSymmetry == Permutations(Threads)

\* The tool's defaults, with small windows instead of millions.
Default == [useCache |-> TRUE, countWB |-> TRUE, paired |-> FALSE,
            privateParallel |-> FALSE, localBbl |-> FALSE,
            ff |-> 0, warmup |-> 0, len |-> 0,
            epoch |-> 2, epochIns |-> 0, epochRefs |-> 0, maxEpochs |-> 0,
            roi |-> "none", roiEpoch |-> TRUE, warmOutside |-> FALSE,
            dumpMin |-> 1, dumpCap |-> 0]

PairedDefault == [Default EXCEPT !.paired = TRUE]

\* run_paired.py: three streams over reference or traffic windows.
PairedConfigs ==
    {[PairedDefault EXCEPT !.epoch = 4, !.epochRefs = x[1], !.maxEpochs = x[2],
                           !.privateParallel = x[3]] :
        x \in {<<3, 0, TRUE>>, <<3, 1, FALSE>>, <<0, 0, FALSE>>}}

\* Raw dumps without pairing: caching on and off, writebacks counted or not,
\* filtered and capped dumps, thread-local instruction counts, and windows
\* short enough for a run to close several and pass a target.
RawConfigs ==
    {[Default EXCEPT !.useCache = x[1], !.epoch = x[2], !.dumpMin = x[3],
                     !.dumpCap = x[4]] :
        x \in {<<TRUE, 2, 1, 0>>, <<TRUE, 3, 1, 1>>, <<FALSE, 3, 2, 0>>}} \cup
    {[Default EXCEPT !.countWB = FALSE, !.localBbl = TRUE]}

\* Phases, without and with regions of interest.
PhaseConfigs ==
    {[Default EXCEPT !.ff = f, !.warmup = w, !.len = l, !.epoch = 3, !.epochIns = e] :
        f \in {0, 1}, w \in {0, 1}, l \in {0, 2}, e \in {0, 1}}

RoiConfigs ==
    {[Default EXCEPT !.roi = "named", !.warmOutside = o, !.paired = x[1], !.len = x[2],
                     !.epochIns = x[3], !.maxEpochs = x[4]] :
        o \in BOOLEAN, x \in {<<TRUE, 0, 0, 0>>, <<FALSE, 0, 0, 1>>}} \cup
    {[Default EXCEPT !.roi = "named", !.len = x[1], !.epochIns = x[2]] :
        x \in {<<2, 0>>, <<0, 2>>}} \cup
    {[Default EXCEPT !.roi = "endOnly", !.warmOutside = o] : o \in BOOLEAN}

ControlConfigs == PhaseConfigs \cup RoiConfigs

AllConfigs == PairedConfigs \cup RawConfigs \cup ControlConfigs

\* As many steps as each command line needs for its windows, phases and regions.
BoundsOf(k) ==
    CASE k \in PairedConfigs ->
             [threads |-> 2, operands |-> 3, ins |-> 0, roi |-> 1,
              lines |-> IF k.privateParallel THEN {0, 2} ELSE Lines]
      [] k \in RawConfigs ->
             [threads |-> 1, operands |-> IF k.useCache /\ k.countWB THEN 4 ELSE 3,
              lines |-> Lines, ins |-> IF k.useCache /\ ~k.localBbl THEN 0 ELSE 1,
              roi |-> 1]
      [] k \in PhaseConfigs ->
             [threads |-> 2, operands |-> 2, lines |-> {0, 2}, ins |-> 4, roi |-> 1]
      [] OTHER ->
             [threads |-> 2, operands |-> 2, lines |-> {0, 2}, ins |-> 3, roi |-> 2]

-----------------------------------------------------------------------------
\* The command lines of the runs that are expected to be violated.

\* -epoch_refs without -paired.
UnpairedReferenceConfigs == {[Default EXCEPT !.epochRefs = 2]}

\* Two threads in two regions, with the caches modelled inside them only.
PairedRegionConfigs == {[PairedDefault EXCEPT !.roi = "named"]}

\* Three operands, without instructions; or two of each.
NoInstructions(k) == [threads |-> 2, operands |-> 3, lines |-> Lines, ins |-> 0, roi |-> 1]
TwoEach(k) == [threads |-> 2, operands |-> 2, lines |-> {0, 2}, ins |-> 2, roi |-> 2]

\* run_extension_workload.py: -paired 1 over DRAM-access windows.
PairedTrafficConfigs == {PairedDefault}
=============================================================================
