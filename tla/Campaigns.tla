------------------------------ MODULE Campaigns ------------------------------
(***************************************************************************)
(* All restartable campaigns of one machine: the lanes of                   *)
(* revalidation_campaign.py and the chain of fidelity campaigns.  They run  *)
(* the same Pin tool, which may be rebuilt under them; and                  *)
(* resume_sim_after_fidelity.py replaces itself by a checkpointed sim lane, *)
(* which then is left to it.                                               *)
(***************************************************************************)
EXTENDS RevalidationLanes

CONSTANTS FidelityJobs, StageJobs, Trials, Preparations, Datasets, Threaded

VARIABLES fstatus, frows, held, fruns, proc, ffaults

F == INSTANCE FidelityCampaigns
       WITH tool <- build["pin"], status <- fstatus, rows <- frows, runs <- fruns,
            faults <- ffaults, ChainFaults <- MaxFaults({"fidelity", "resume", "sim"})

\* Each campaign has a directory and a status file of its own.
ASSUME ChainAssumption ==
  /\ \A c \in {"fidelity", "stage2", "trials"} : F!Order(c) \in Seq(F!JobsOf(c))
  /\ F!JobsOf("fidelity") \cap F!JobsOf("stage2") = {}
  /\ F!Jobs \cap F!JobsOf("trials") = {}
  /\ Datasets \subseteq F!JobsOf("fidelity") \ Preparations
  /\ Preparations \subseteq F!Jobs /\ Threaded \subseteq F!JobsOf("stage2")

fvars == <<fstatus, frows, held, fruns, proc, ffaults>>
allVars == <<services, build, status, rows, runs, sims, lane, faults,
             fstatus, frows, held, fruns, proc, ffaults>>

CInit == Init /\ F!Init

SimLeftAlone ==
  "resume" \in services /\ lane["sim"].pc = "off" => lane'["sim"].pc = "off"

\* Bound: the faults of lanes and chain together.
Bounded == faults' + ffaults' <= MaxFaults(services)

LanesStep == Next /\ SimLeftAlone /\ UNCHANGED fvars /\ Bounded

\* A step of the services in use that leaves the lanes alone.
Chain(A) ==
  /\ UNCHANGED vars
  /\ A
  /\ \A c \in F!Services \ services : proc'[c].pc = "off"

\* A step of one service, if it is in use.
Of(c, A) == c \in services /\ Chain(A)

ChainStep == Chain(F!Steps) /\ Bounded

\* The lane may be running already, or its simulator not be validated.
Resume ==
  /\ IF MayStart("sim", TRUE) THEN Start("sim", TRUE) ELSE UNCHANGED vars
  /\ F!Resume

CNext == LanesStep \/ ChainStep \/ Resume

\* All processes and their children are live.  The operator (or systemd) starts
\* what measures in the chain whenever it is not running, but not so often that
\* who polls every 10 s never sees a complete campaign complete.
CSpec ==
  /\ CInit /\ [][CNext]_allVars
  /\ WF_allVars(PinSteps /\ UNCHANGED fvars) /\ WF_allVars(SimSteps /\ UNCHANGED fvars)
  /\ WF_allVars(Of("fidelity", F!StartFidelity \/ F!CampaignSteps("fidelity")))
  /\ WF_allVars(Of("trials", F!StartWaiting("trials") \/ F!TrialSteps))
  /\ SF_allVars(Of("trials", F!AwaitFidelity))
  /\ WF_allVars(Of("stage2", \/ \E hold \in BOOLEAN : F!StartStage2(hold)
                            \/ F!AwaitTrials \/ F!CampaignSteps("stage2")))

--------------------------------------------------------------------------------
(* Properties.                                                                *)

(***************************************************************************)
(* A campaign whose status file says complete has completed every job and   *)
(* drawn its figure, the publishers are pointed to complete collections     *)
(* only, stage 2 has started no job without the repetition controls, and    *)
(* resume_sim no simulation without the whole fidelity campaign, whose      *)
(* measurements it would disturb.  The facts are in the files of three      *)
(* processes, the decisions in others.                                      *)
(***************************************************************************)
Truthful ==
  /\ F!Truthful
  /\ "resume" \in services /\ lane["sim"].pc # "off" =>
        \A j \in F!JobsOf("fidelity") \ Preparations :
           \E d \in DOMAIN fruns[j] : fruns[j][d].manifest = "complete"

(***************************************************************************)
(* "Never overwrites historical results" (revalidation_campaign.py:2),      *)
(* "Preserve failed attempts" (run_fidelity_campaign.py:2): a complete      *)
(* collection stays as it is whoever starts what, and when.                 *)
(***************************************************************************)
ResultsKept == [][CompleteKept /\ F!CompleteKept]_allVars

(***************************************************************************)
(* Once --single-thread-only has been given, no job with several threads is *)
(* touched, by this invocation or by a later one without the option         *)
(* (run_pin_fidelity_stage2.py:29, 58).                                     *)
(***************************************************************************)
HeldStaysQueued == [][F!HoldKept]_allVars

(***************************************************************************)
(* With one tool, and repetition controls that are neither stopped nor      *)
(* fail, the chain of campaigns gets to its end whatever happens to the     *)
(* others: all stage-2 jobs are complete but those that are held.           *)
(***************************************************************************)
ChainFinishes ==
  F!Services \ {"resume"} \subseteq services /\ [](build["pin"] = 1 /\ F!TrialsGood)
     => <>(fstatus["stage2"] \in {"complete", "held"})
=============================================================================
