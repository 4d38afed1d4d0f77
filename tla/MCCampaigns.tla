----------------------------- MODULE MCCampaigns -----------------------------
(***************************************************************************)
(* One job of each kind: a benchmark and an extension workload in the pin   *)
(* lane, one simulation, an input preparation and a data set, two           *)
(* repetition controls, a stage-2 job with one thread and one with more.    *)
(***************************************************************************)
EXTENDS Campaigns

PinLane == <<"bfs", "redis">>
SimLane == <<"bc">>
InputControls == <<"inputs", "dataset">>
Repetitions == <<"bfs200", "cc200">>
StageTwo == <<"process", "threads20">>

\* Each lane by itself and both side by side, the chain, and the simulation that
\* resumes after the first campaign.
Chained == {"fidelity", "trials", "stage2"}
Resumed == {"fidelity", "resume", "sim"}
SimAlone == {{"sim"}}
Together == {{"pin"}, {"sim"}, Lanes, Chained, Resumed}

\* Recoveries from recoveries are met where one lane is alone.
FaultsOf(s) == IF s \in {Lanes, Chained} THEN 1 ELSE IF s = Resumed THEN 2 ELSE 3
=============================================================================
