-------------------------- MODULE FidelityCampaigns --------------------------
(***************************************************************************)
(* The fidelity campaign, the repetition controls that wait for it, and the *)
(* stage-2 campaign that waits for those: run_fidelity_campaign.py,         *)
(* run_artifact_trial_control.py, run_pin_fidelity_stage2.py; and           *)
(* resume_sim_after_fidelity.py, which waits for the first one too.  They   *)
(* know of each other only by polling status files and manifests.           *)
(*                                                                         *)
(* Unlike a lane of revalidation_campaign.py a campaign ends at the first   *)
(* job that fails.  The steps end where something else may happen.          *)
(***************************************************************************)
EXTENDS PairedRuns, FiniteSets

CONSTANTS
  FidelityJobs, StageJobs,  \* the jobs of each campaign, in order
  Trials,       \* the workloads of the repetition controls, in order
  Preparations, \* the jobs that prepare inputs and have no manifest
  Datasets,     \* the jobs of the first campaign that run the prepared inputs
  Threaded,     \* the stage-2 jobs with more than one thread
  ChainFaults   \* bound: kills, stops, failing children and publishers

Campaigns == {"fidelity", "stage2"}
Services == Campaigns \cup {"trials", "resume"}
Order(c) == CASE c = "fidelity" -> FidelityJobs [] c = "stage2" -> StageJobs
              [] c = "trials" -> Trials
JobsOf(c) == {Order(c)[i] : i \in DOMAIN Order(c)}
Jobs == JobsOf("fidelity") \cup JobsOf("stage2")

VARIABLES
  tool,    \* the Pin tool on disk, rebuilt by others
  status,  \* "status" of the two campaign.json files
  rows,    \* their "jobs"
  held,    \* "multithread_hold" of the second
  runs,    \* each job's run directories, the fixed one first
  proc,    \* the running process of each service
  faults

vars == <<tool, status, rows, held, runs, proc, faults>>

Queued == [state |-> "queued", tool |-> 0, dir |-> 0]
Off == [pc |-> "off", n |-> 0, fp |-> 0]

Init ==
  /\ status = [c \in Campaigns |-> "absent"]
  /\ rows = [j \in Jobs |-> Queued]
  /\ held = FALSE
  /\ runs = [j \in Jobs \cup JobsOf("trials") |-> <<>>]
  /\ proc = [c \in Services |-> Off]
  /\ faults = 0

At(c, pc) == proc[c].pc = pc
To(c, pc) == proc' = [proc EXCEPT ![c].pc = pc]
Leaves(c) == proc' = [proc EXCEPT ![c] = Off]
Passes(c) == proc' = [proc EXCEPT ![c].pc = "pick", ![c].n = @ + 1]
Job(c) == Order(c)[proc[c].n]
More(c) == proc[c].n <= Len(Order(c))
Fault == faults < ChainFaults /\ faults' = faults + 1

--------------------------------------------------------------------------------
(* The two campaigns.                                                         *)

StartFidelity ==
  /\ At("fidelity", "off")
  /\ status' = [status EXCEPT !["fidelity"] = "running"]
  /\ proc' = [proc EXCEPT !["fidelity"] = [pc |-> "pick", n |-> 1, fp |-> tool]]
  /\ UNCHANGED <<tool, rows, held, runs, faults>>

\* Mutant: the hold lasts as long as the option is given.
HoldNow(hold) == hold

\* --single-thread-only is remembered in the status file.
Hold(hold) == held \/ hold

StartStage2(hold) ==
  /\ At("stage2", "off")
  /\ held' = Hold(hold)
  /\ status' = [status EXCEPT !["stage2"] = "waiting"]
  /\ To("stage2", "await")
  /\ UNCHANGED <<tool, rows, runs, faults>>

\* Mutant: the first workload stands for both.
FirstTrialState == {RunAt(runs[Trials[1]], 1).manifest}

TrialStates == {RunAt(runs[j], 1).manifest : j \in JobsOf("trials")}

\* The repetition controls must be complete; one that is not will never be, and
\* ends the campaign.
AwaitTrials ==
  /\ At("stage2", "await")
  /\ \/ /\ TrialStates = {"complete"}
        /\ status' = [status EXCEPT !["stage2"] = "running"]
        /\ proc' = [proc EXCEPT !["stage2"] = [Off EXCEPT !.pc = "pick", !.n = 1]]
     \/ /\ TrialStates \cap {"failed", "interrupted", "limited"} # {}
        /\ Leaves("stage2")
        /\ UNCHANGED status
  /\ UNCHANGED <<tool, rows, held, runs, faults>>

\* Stage 2 compares no tool, and passes over what is held.
Passed(c) ==
  IF c = "fidelity" THEN rows[Job(c)].state = "complete" /\ rows[Job(c)].tool = proc[c].fp
  ELSE rows[Job(c)].state = "complete" \/ (held /\ Job(c) \in Threaded)

Skip(c) ==
  /\ At(c, "pick") /\ More(c) /\ Passed(c)
  /\ Passes(c)
  /\ UNCHANGED <<tool, status, rows, held, runs, faults>>

\* Stage 2 does not start a job with less than 12 GiB available.
WaitForMemory ==
  /\ At("stage2", "pick") /\ More("stage2") /\ ~Passed("stage2")
  /\ status' = [status EXCEPT !["stage2"] = "waiting"]
  /\ UNCHANGED <<tool, rows, held, runs, proc, faults>>

\* Mutant: the first campaign has no attempts.
FixedTarget(c) == IF c = "fidelity" THEN 1 ELSE Len(runs[Job(c)]) + 1

\* The first campaign uses the fixed directory as long as what is there is
\* complete, the second none twice.
Target(c) ==
  IF c = "fidelity" /\ RunAt(runs[Job(c)], 1).manifest \in {"none", "complete"} THEN 1
  ELSE Len(runs[Job(c)]) + 1

\* The job's record is saved (twice) before anything runs.
Pick(c) ==
  /\ At(c, "pick") /\ More(c) /\ ~Passed(c)
  /\ status' = [status EXCEPT ![c] = "running"]
  /\ rows' = [rows EXCEPT ![Job(c)] =
                [state |-> "running", tool |-> proc[c].fp,
                 dir |-> IF Job(c) \in Preparations THEN 0 ELSE Target(c)]]
  /\ To(c, "launch")
  /\ UNCHANGED <<tool, held, runs, faults>>

\* Whatever goes wrong with a job ends the campaign, and a stop does too.
Aborts(c, how) ==
  /\ rows' = [rows EXCEPT ![Job(c)].state = how]
  /\ status' = [status EXCEPT ![c] = how]
  /\ Leaves(c)

\* run_paired.py: refuse, skip or run.
Launch(c) ==
  /\ At(c, "launch")
  /\ LET j == Job(c)
         r == RunAt(runs[j], rows[j].dir)
     IN  IF j \in Preparations
         THEN To(c, "child") /\ UNCHANGED <<status, rows, runs>>
         ELSE IF Refuses(r, tool) THEN Aborts(c, "failed") /\ UNCHANGED runs
         ELSE IF Skips(r, tool) THEN To(c, "check") /\ UNCHANGED <<status, rows, runs>>
         ELSE /\ runs' = [runs EXCEPT ![j] = Stored(@, rows[j].dir, Begun(tool))]
              /\ To(c, "child")
              /\ UNCHANGED <<status, rows>>
  /\ UNCHANGED <<tool, held, faults>>

ChildRun(c, end) ==
  IF Job(c) \in Preparations THEN runs
  ELSE [runs EXCEPT ![Job(c)][rows[Job(c)].dir] = Ended(@, end, FALSE)]

ChildEnds(c) ==
  /\ At(c, "child")
  /\ runs' = ChildRun(c, "complete")
  /\ To(c, "check")
  /\ UNCHANGED <<tool, status, rows, held, faults>>

ChildFails(c) ==
  /\ At(c, "child") /\ Fault
  /\ \E end \in {"limited", "failed"} : runs' = ChildRun(c, end)
  /\ Aborts(c, "failed")
  /\ UNCHANGED <<tool, held>>

\* The manifest of the directory, whatever tool it names.
Accepts(c) ==
  Job(c) \notin Preparations => runs[Job(c)][rows[Job(c)].dir].manifest = "complete"

Check(c) ==
  /\ At(c, "check")
  /\ IF Accepts(c)
     THEN /\ rows' = [rows EXCEPT ![Job(c)].state = "complete"]
          /\ To(c, "publish")
          /\ UNCHANGED status
     ELSE Aborts(c, "failed")
  /\ UNCHANGED <<tool, held, runs, faults>>

Publish(c) ==
  /\ At(c, "publish")
  /\ Passes(c)
  /\ UNCHANGED <<tool, status, rows, held, runs, faults>>

\* A publisher that fails in the try block fails the job, complete or not; in
\* stage 2 it runs only after a job.
PublishFails(c) ==
  /\ At(c, "publish") \/ (c = "fidelity" /\ At(c, "launch"))
  /\ Fault
  /\ Aborts(c, "failed")
  /\ UNCHANGED <<tool, held, runs>>

Finish(c) ==
  /\ At(c, "pick") /\ ~More(c)
  /\ status' = [status EXCEPT ![c] =
                  IF c = "stage2" /\ \E j \in JobsOf(c) : rows[j].state # "complete"
                  THEN "held" ELSE "complete"]
  /\ Leaves(c)
  /\ UNCHANGED <<tool, rows, held, runs, faults>>

\* SIGTERM in the try block; run_paired dies with its manifest as it is.
Interrupt(c) ==
  /\ proc[c].pc \in {"launch", "child", "check", "publish"} /\ Fault
  /\ Aborts(c, "interrupted")
  /\ UNCHANGED <<tool, held, runs>>

--------------------------------------------------------------------------------
(* What waits for the first campaign.                                         *)

\* They poll; a campaign that is not there fails resume_sim at once.
StartWaiting(c) ==
  /\ c \in {"trials", "resume"} /\ At(c, "off")
  /\ c = "resume" => status["fidelity"] # "absent"
  /\ To(c, "await")
  /\ UNCHANGED <<tool, status, rows, held, runs, faults>>

Stopped(c) ==
  /\ c \in {"trials", "resume"} /\ At(c, "await")
  /\ status["fidelity"] \in {"failed", "interrupted"}
  /\ Leaves(c)
  /\ UNCHANGED <<tool, status, rows, held, runs, faults>>

\* resume_sim replaces itself by the sim lane.
Resume ==
  /\ At("resume", "await") /\ status["fidelity"] = "complete"
  /\ Leaves("resume")
  /\ UNCHANGED <<tool, status, rows, held, runs, faults>>

AwaitFidelity ==
  /\ At("trials", "await") /\ status["fidelity"] = "complete"
  /\ proc' = [proc EXCEPT !["trials"] = [Off EXCEPT !.pc = "pick", !.n = 1]]
  /\ UNCHANGED <<tool, status, rows, held, runs, faults>>

\* One run_paired for all workloads and one directory: a manifest it may not
\* overwrite ends it, a complete one is passed over, a failure is not the end.
Repeat ==
  /\ At("trials", "pick") /\ More("trials")
  /\ LET r == RunAt(runs[Job("trials")], 1)
     IN  IF Refuses(r, tool) THEN Leaves("trials") /\ UNCHANGED runs
         ELSE IF Skips(r, tool) THEN Passes("trials") /\ UNCHANGED runs
         ELSE /\ runs' = [runs EXCEPT ![Job("trials")] = Stored(@, 1, Begun(tool))]
              /\ To("trials", "child")
  /\ UNCHANGED <<tool, status, rows, held, faults>>

RepeatEnds(end) ==
  /\ At("trials", "child")
  /\ runs' = [runs EXCEPT ![Job("trials")][1] = Ended(@, end, FALSE)]
  /\ Passes("trials")
  /\ UNCHANGED <<tool, status, rows, held>>

RepeatFails == Fault /\ \E end \in Ends \ {"complete"} : RepeatEnds(end)

RepeatsDone ==
  /\ At("trials", "pick") /\ ~More("trials")
  /\ Leaves("trials")
  /\ UNCHANGED <<tool, status, rows, held, runs, faults>>

--------------------------------------------------------------------------------
(* A service is killed (or its publisher fails outside the try block) and     *)
(* saves nothing more.                                                        *)

Kill(c) ==
  /\ ~At(c, "off") /\ Fault
  /\ Leaves(c)
  /\ UNCHANGED <<tool, status, rows, held, runs>>

CampaignSteps(c) ==
  Skip(c) \/ Pick(c) \/ Launch(c) \/ ChildEnds(c) \/ Check(c) \/ Publish(c) \/ Finish(c)
TrialSteps ==
  Stopped("trials") \/ AwaitFidelity \/ Repeat \/ RepeatsDone
    \/ (RepeatEnds("complete") /\ UNCHANGED faults)

\* What the four services do but for Resume, which starts a sim lane.
Steps ==
  \/ StartFidelity \/ AwaitTrials \/ WaitForMemory \/ TrialSteps \/ RepeatFails
  \/ \E hold \in BOOLEAN : StartStage2(hold)
  \/ \E c \in Campaigns : CampaignSteps(c) \/ ChildFails(c) \/ PublishFails(c) \/ Interrupt(c)
  \/ \E c \in Services : StartWaiting(c) \/ Kill(c)
  \/ Stopped("resume")

--------------------------------------------------------------------------------
(* What the publishers read whenever a status file is saved.                  *)

CompleteIn(jobs) ==
  UNION {{<<j, d>> : d \in {e \in DOMAIN runs[j] : runs[j][e].manifest = "complete"}} : j \in jobs}

\* publish_fidelity.py scores whatever is complete under the first campaign's
\* directory, which the repetition controls share.
Scored == CompleteIn(JobsOf("fidelity") \cup JobsOf("trials"))

\* Of the attempts at a data set its figure shows the one the job points to.
Selected(j) ==
  {s \in Scored : rows[j].state = "complete" /\ s = <<j, rows[j].dir>>}

FigureDue == \A j \in Datasets : Selected(j) # {}

\* publish_pin_stage2.py follows the rows of both campaigns, and looks for the
\* repetition controls itself.
Sources ==
  {<<j, rows[j].dir>> : j \in {i \in Jobs \ Preparations : rows[i].state = "complete"}}
    \cup CompleteIn(JobsOf("trials"))

--------------------------------------------------------------------------------
(* Properties.                                                                *)

(***************************************************************************)
(* A campaign whose status file says complete has completed every job, and  *)
(* stage 2 has started no job without the repetition controls.  The         *)
(* publishers, which would stop on a directory without a complete manifest  *)
(* (compare_reproduction.py:27) and end the campaign with it, are pointed   *)
(* to complete collections only, those of the first campaign are the ones   *)
(* it has scored itself, and when it is complete its figure is there.  The  *)
(* facts are in files of three processes.                                   *)
(***************************************************************************)
Truthful ==
  /\ \A c \in Campaigns : status[c] = "complete" =>
        \A j \in JobsOf(c) : rows[j].state = "complete"
  /\ Sources \subseteq Scored \cup CompleteIn(JobsOf("stage2"))
  /\ status["fidelity"] = "complete" => FigureDue
  /\ (\E j \in JobsOf("stage2") : rows[j].state # "queued") =>
        \A j \in JobsOf("trials") : RunAt(runs[j], 1).manifest = "complete"

\* No complete collection is run again or overwritten.
CompleteKept ==
  \A j \in DOMAIN runs : \A d \in DOMAIN runs[j] :
     runs[j][d].manifest = "complete" => runs'[j][d] = runs[j][d]

\* The hold stays, and what is held.
HoldKept == held => held' /\ \A j \in Threaded : rows'[j] = rows[j]

\* The repetition controls are neither killed nor fail: they could not be run
\* again in their one directory.
TrialsGood ==
  \A j \in JobsOf("trials") :
     /\ RunAt(runs[j], 1).manifest \in {"none", "running", "complete"}
     /\ RunAt(runs[j], 1).manifest = "running" => At("trials", "child")
=============================================================================
