-------------------------- MODULE RevalidationLanes --------------------------
(***************************************************************************)
(* revalidation_campaign.py: two restartable lanes of jobs.  The pin lane   *)
(* runs run_paired.py or run_extension_workload.py and analyses the raw     *)
(* records; the sim lane runs gem5, on demand under checkpoint_sim.py, of   *)
(* which only what a lane sees is kept: whether a run has an image, is over *)
(* and reached the end of the region.  A lane keeps one record per job in   *)
(* its status file and publishes all results before and after each job.     *)
(*                                                                         *)
(* A step ends where something else may happen that matters: the status     *)
(* file is saved, a child starts or ends, the executable is rebuilt, the    *)
(* lane is told to stop, or it is killed with everything it started.        *)
(***************************************************************************)
EXTENDS PairedRuns, FiniteSets

CONSTANTS
  PinJobs, SimJobs,   \* the jobs of each lane, in order
  Extensions,         \* the pin jobs that run_extension_workload.py runs
  Analysed,           \* the pin jobs whose raw records are analysed
  Validated,          \* the simulators with a passed restore validation
  Rebuilt,            \* the lanes whose executable may be rebuilt
  Mixes,              \* bound: the sets of services that are run together
  MaxBuilds,          \* bound: executables built
  MaxFaults(_)        \* bound, by the services in use: kills, stops, failing
                      \* children, gaps, full disks and rebuilds

Lanes == {"pin", "sim"}
Order(l) == IF l = "pin" THEN PinJobs ELSE SimJobs
Elements(s) == {s[i] : i \in DOMAIN s}

\* A job is kept under its lane's directory and status file.
ASSUME LanesAssumption ==
  /\ \A l \in Lanes : Order(l) \in Seq(Elements(Order(l)))
  /\ Elements(PinJobs) \cap Elements(SimJobs) = {}
  /\ Extensions \cup Analysed \subseteq Elements(PinJobs)

Jobs == Elements(PinJobs) \cup Elements(SimJobs)
LaneOf(j) == IF j \in Elements(PinJobs) THEN "pin" ELSE "sim"

VARIABLES
  services,  \* what is ever started: the lanes, and what runs beside them
  build,     \* the Pin tool and the simulator on disk
  status,    \* "status" of each lane's status file, "absent" before the first
  rows,      \* "jobs" of the status files
  runs,      \* each job's run directories: the fixed one or attempts
  sims,      \* what is in the simulator's directories besides the tool's hash
  lane,      \* the running invocation of each lane
  faults

vars == <<services, build, status, rows, runs, sims, lane, faults>>

\* analysed: "analysis" is there; snap: "checkpoint_state" is.
Row == [state : {"queued", "running", "paused", "complete", "failed", "interrupted"},
        tool : Nat, dir : Nat, snap : BOOLEAN, analysed : BOOLEAN]
NoRow == [state |-> "queued", tool |-> 0, dir |-> 0, snap |-> FALSE, analysed |-> FALSE]

\* image: latest.json names a snapshot; done: the supervisor's state is
\* complete; roi: the log says exit #3 and stopping.
NoSim == [image |-> FALSE, done |-> FALSE, roi |-> FALSE]

\* n: position in Order; fp: the executable's hash, taken once; old: the record
\* this invocation found; safe: --checkpoint-storage was given.
Idle == [pc |-> "off", n |-> 0, fp |-> 0, old |-> NoRow, dir |-> 0, safe |-> FALSE]

Init ==
  /\ services \in Mixes
  /\ build = [l \in Lanes |-> 1]
  /\ status = [l \in Lanes |-> "absent"]
  /\ rows = [j \in Jobs |-> NoRow]
  /\ runs = [j \in Jobs |-> <<>>]
  /\ sims = [j \in Elements(SimJobs) |-> <<>>]
  /\ lane = [l \in Lanes |-> Idle]
  /\ faults = 0

Job(l) == Order(l)[lane[l].n]
Directory(l) == runs[Job(l)][lane[l].dir]
To(l, pc) == lane' = [lane EXCEPT ![l].pc = pc]
Off(l) == lane' = [lane EXCEPT ![l] = Idle]
Fault == faults < MaxFaults(services) /\ faults' = faults + 1

--------------------------------------------------------------------------------
(* An invocation.                                                             *)

\* The lane's lock is free; with checkpoints only a validated simulator.
MayStart(l, safe) ==
  /\ l \in services /\ lane[l].pc = "off"
  /\ safe => l = "sim" /\ build[l] \in Validated

\* main() up to the first save.
Start(l, safe) ==
  /\ MayStart(l, safe)
  /\ status' = [status EXCEPT ![l] = "running"]
  /\ lane' = [lane EXCEPT ![l] = [Idle EXCEPT !.pc = "pick", !.n = 1, !.fp = build[l],
                                              !.safe = safe]]
  /\ UNCHANGED <<services, build, rows, runs, sims, faults>>

\* Mutant: a completed job is reused whatever it was run with.
DoneAnyhow(j, fp) == rows[j].state = "complete"

Done(j, fp) == rows[j].state = "complete" /\ rows[j].tool = fp

Skip(l) ==
  /\ lane[l].pc = "pick" /\ lane[l].n <= Len(Order(l)) /\ Done(Job(l), lane[l].fp)
  /\ lane' = [lane EXCEPT ![l].n = @ + 1]
  /\ UNCHANGED <<services, build, status, rows, runs, sims, faults>>

\* A fresh record replaces the old one, which only this invocation remembers.
Pick(l) ==
  /\ lane[l].pc = "pick" /\ lane[l].n <= Len(Order(l)) /\ ~Done(Job(l), lane[l].fp)
  /\ rows' = [rows EXCEPT ![Job(l)] = [NoRow EXCEPT !.state = "running", !.tool = lane[l].fp]]
  /\ lane' = [lane EXCEPT ![l].pc = "announce", ![l].old = rows[Job(l)], ![l].dir = 0]
  /\ UNCHANGED <<services, build, status, runs, sims, faults>>

\* A complete collection whose tracker sweep has gaps is refused ...
SweepsWhole ==
  \A j \in Elements(PinJobs) \ Extensions : \A d \in DOMAIN runs[j] :
     ~(runs[j][d].manifest = "complete" /\ runs[j][d].gaps)

\* ... and by compare_simulator_m5.py a complete simulation without the end of its
\* region in the log.
SimsEvident ==
  \A j \in Elements(SimJobs) : rows[j].state = "complete" => sims[j][rows[j].dir].roi

Publishable == SweepsWhole /\ SimsEvident

\* Outside the try block, a failure to publish ends the lane as a kill would.
Publish(l) ==
  /\ lane[l].pc \in {"announce", "report"}
  /\ IF ~Publishable THEN Off(l)
     ELSE IF lane[l].pc = "announce" THEN To(l, "prepare")
     ELSE lane' = [lane EXCEPT ![l].pc = "pick", ![l].n = @ + 1]
  /\ UNCHANGED <<services, build, status, rows, runs, sims, faults>>

Resumes(l) ==
  /\ l = "sim" /\ lane[l].safe /\ lane[l].old.snap
  /\ sims[Job(l)][lane[l].old.dir].image

\* Mutant: the fixed directory is used whatever is in it.
FixedDirectory(l) ==
  IF Resumes(l) THEN lane[l].old.dir
  ELSE IF Job(l) \in Elements(PinJobs) \ Extensions THEN 1 ELSE Len(runs[Job(l)]) + 1

\* Where the job is to run: again where its snapshot is; run_paired's fixed
\* directory unless what is there is of no use; otherwise a new attempt.
Target(l) ==
  LET fixed == RunAt(runs[Job(l)], 1)
  IN  IF Resumes(l) THEN lane[l].old.dir
      ELSE IF /\ Job(l) \in Elements(PinJobs) \ Extensions
              /\ fixed.manifest # "none" => Skips(fixed, lane[l].fp)
           THEN 1
      ELSE Len(runs[Job(l)]) + 1

\* The simulator's directory is made here, the others by the children.
Prepare(l) ==
  /\ lane[l].pc = "prepare"
  /\ LET j == Job(l)
         d == Target(l)
     IN  /\ rows' = [rows EXCEPT ![j].dir = d, ![j].snap = lane[l].safe]
         /\ lane' = [lane EXCEPT ![l].pc = "launch", ![l].dir = d]
         /\ IF l = "sim" /\ ~Resumes(l)
            THEN /\ runs' = [runs EXCEPT ![j] = Append(@, NoRun)]
                 /\ sims' = [sims EXCEPT ![j] = Append(@, NoSim)]
            ELSE UNCHANGED <<runs, sims>>
  /\ UNCHANGED <<services, build, status, faults>>

\* The except clause, but for a stop: the job fails and the lane goes on.
Fails(l) ==
  /\ rows' = [rows EXCEPT ![Job(l)].state = "failed"]
  /\ To(l, "report")

\* run() starts nothing on a disk with less than 4 GiB free.
DiskFull(l) ==
  /\ lane[l].pc = "launch" /\ Fault /\ Fails(l)
  /\ UNCHANGED <<services, build, status, runs, sims>>

LaunchPin ==
  /\ lane["pin"].pc = "launch"
  /\ LET j == Job("pin")
         d == lane["pin"].dir
         r == RunAt(runs[j], d)
         tool == build["pin"]
     IN  IF Refuses(r, tool) THEN Fails("pin") /\ UNCHANGED runs
         ELSE IF Skips(r, tool) THEN To("pin", "check") /\ UNCHANGED <<rows, runs>>
         ELSE /\ runs' = [runs EXCEPT ![j] = Stored(@, d, Begun(tool))]
              /\ To("pin", "child")
              /\ UNCHANGED rows
  /\ UNCHANGED <<services, build, status, sims, faults>>

\* checkpoint_sim.py run: a changed simulator is refused, a finished run prints
\* its log again, an image is restored.
LaunchSim ==
  /\ lane["sim"].pc = "launch"
  /\ LET j == Job("sim")
         d == lane["sim"].dir
         begun == runs[j][d].manifest # "none"
     IN  IF begun /\ runs[j][d].tool # build["sim"]
         THEN Fails("sim") /\ UNCHANGED runs
         ELSE IF begun /\ sims[j][d].done
         THEN To("sim", "check") /\ UNCHANGED <<rows, runs>>
         ELSE /\ runs' = [runs EXCEPT ![j][d] = Begun(build["sim"])]
              /\ To("sim", "child")
              /\ UNCHANGED rows
  /\ UNCHANGED <<services, build, status, sims, faults>>

--------------------------------------------------------------------------------
(* The children.                                                              *)

\* The collection completes; rc 0.
Collect(gaps) ==
  /\ lane["pin"].pc = "child"
  /\ runs' = [runs EXCEPT ![Job("pin")][lane["pin"].dir] = Ended(@, "complete", gaps)]
  /\ To("pin", "check")
  /\ UNCHANGED <<services, build, status, rows, sims>>

\* The application or the tool fails; rc 1.
CollectFails ==
  /\ lane["pin"].pc = "child" /\ Fault
  /\ \E end \in {"limited", "failed"} :
        runs' = [runs EXCEPT ![Job("pin")][lane["pin"].dir] = Ended(@, end, FALSE)]
  /\ Fails("pin")
  /\ UNCHANGED <<services, build, status, sims>>

AtSim(r) ==
  /\ sims' = [sims EXCEPT ![Job("sim")][lane["sim"].dir] = r]
  /\ UNCHANGED <<services, build, status>>

Here == sims[Job("sim")][lane["sim"].dir]

\* The supervisor finalizes a snapshot.
Snapshot ==
  /\ lane["sim"].pc = "child" /\ lane["sim"].safe /\ ~Here.image
  /\ AtSim([Here EXCEPT !.image = TRUE])
  /\ UNCHANGED <<rows, runs, lane, faults>>

\* gem5 exits with 0, at the third exit of the guest ...
Simulate ==
  /\ lane["sim"].pc = "child"
  /\ AtSim([Here EXCEPT !.roi = TRUE, !.done = lane["sim"].safe])
  /\ To("sim", "check")
  /\ UNCHANGED <<rows, runs, faults>>

\* ... or before, because the guest went down.
SimulateShort ==
  /\ lane["sim"].pc = "child" /\ Fault
  /\ AtSim([Here EXCEPT !.done = lane["sim"].safe])
  /\ To("sim", "check")
  /\ UNCHANGED <<rows, runs>>

SimulateFails ==
  /\ lane["sim"].pc = "child" /\ Fault /\ Fails("sim")
  /\ UNCHANGED <<services, build, status, runs, sims>>

\* The supervisor was told to pause and exits with 75: so does the lane.
PauseRun ==
  /\ lane["sim"].pc = "child" /\ lane["sim"].safe /\ Fault
  /\ AtSim([Here EXCEPT !.image = TRUE])
  /\ rows' = [rows EXCEPT ![Job("sim")].state = "paused"]
  /\ status' = [status EXCEPT !["sim"] = "paused"]
  /\ Off("sim")
  /\ UNCHANGED <<services, build, runs>>

--------------------------------------------------------------------------------
(* After the child.                                                           *)

\* Mutant: that the manifest is complete is enough.
CompleteByAny(l) == Directory(l).manifest = "complete"

\* The workload's manifest is complete and of the tool this lane started with.
Compatible(l) == Skips(Directory(l), lane[l].fp)

Accepted(l) ==
  IF l = "sim" THEN Here.roi
  ELSE Compatible(l) /\ (Job(l) \in Analysed => ~Directory(l).gaps)

Check(l) ==
  /\ lane[l].pc = "check"
  /\ IF Accepted(l)
     THEN /\ rows' = [rows EXCEPT ![Job(l)].state = "complete",
                                  ![Job(l)].analysed = Job(l) \in Analysed]
          /\ To(l, "report")
     ELSE Fails(l)
  /\ UNCHANGED <<services, build, status, runs, sims, faults>>

Finish(l) ==
  /\ lane[l].pc = "pick" /\ lane[l].n > Len(Order(l))
  /\ status' = [status EXCEPT ![l] =
                  IF \A j \in Elements(Order(l)) : rows[j].state = "complete"
                  THEN "complete" ELSE "finished-with-failures"]
  /\ Off(l)
  /\ UNCHANGED <<services, build, rows, runs, sims, faults>>

--------------------------------------------------------------------------------
(* What happens to a lane.                                                    *)

InTry(l) == lane[l].pc \in {"prepare", "launch", "child", "check"}

\* SIGTERM inside the try block: the child goes with the lane.  A supervisor may
\* still take its snapshot before it is killed.
Interrupt(l) ==
  /\ InTry(l) /\ Fault
  /\ rows' = [rows EXCEPT ![Job(l)].state = "interrupted"]
  /\ status' = [status EXCEPT ![l] = "interrupted"]
  /\ IF l = "sim" /\ lane[l].pc = "child" /\ lane[l].safe
     THEN \E image \in {Here.image, TRUE} :
             sims' = [sims EXCEPT ![Job(l)][lane[l].dir].image = image]
     ELSE UNCHANGED sims
  /\ Off(l)
  /\ UNCHANGED <<services, build, runs>>

\* The host goes down, the service is killed, or SIGTERM comes outside the try
\* block: nothing more is saved.
Kill(l) ==
  /\ lane[l].pc # "off" /\ Fault
  /\ Off(l)
  /\ UNCHANGED <<services, build, status, rows, runs, sims>>

Rebuild(l) ==
  /\ l \in Rebuilt /\ build[l] < MaxBuilds /\ Fault
  /\ build' = [build EXCEPT ![l] = @ + 1]
  /\ UNCHANGED <<services, status, rows, runs, sims, lane>>

LaneStep(l) == Skip(l) \/ Pick(l) \/ Publish(l) \/ Prepare(l) \/ Check(l) \/ Finish(l)

\* What a lane and its children do when nothing goes wrong.
PinSteps == LaneStep("pin") \/ LaunchPin \/ (Collect(FALSE) /\ UNCHANGED faults)
SimSteps == LaneStep("sim") \/ LaunchSim \/ Simulate

Next ==
  \/ \E l \in Lanes :
        \/ \E safe \in BOOLEAN : Start(l, safe)
        \/ DiskFull(l) \/ Interrupt(l) \/ Kill(l) \/ Rebuild(l)
  \/ PinSteps \/ SimSteps
  \/ (Collect(TRUE) /\ Fault)
  \/ CollectFails \/ Snapshot \/ SimulateShort \/ SimulateFails \/ PauseRun

\* The operator (or a timer) starts a lane whenever it has ended.
Restarted(l) == WF_vars(\E safe \in BOOLEAN : Start(l, safe))

--------------------------------------------------------------------------------
(* Properties.                                                                *)

(***************************************************************************)
(* What a status file calls complete has been verified: a pin job's record  *)
(* names the directory of a complete collection by the very tool it names,  *)
(* with a validated analysis where one is due; a simulation reached the end *)
(* of its region.  This must survive kills between any two saves, rebuilt   *)
(* tools between the lane's hash and the child's, and reused directories.   *)
(***************************************************************************)
Verified ==
  \A j \in Jobs : rows[j].state = "complete" =>
     IF LaneOf(j) = "sim" THEN sims[j][rows[j].dir].roi
     ELSE LET r == runs[j][rows[j].dir]
          IN  /\ r.manifest = "complete" /\ r.tool = rows[j].tool
              /\ j \in Analysed => rows[j].analysed /\ ~r.gaps

\* No complete collection is overwritten, and none of its directories is lost.
CompleteKept ==
  \A j \in Elements(PinJobs) : \A d \in DOMAIN runs[j] :
     runs[j][d].manifest = "complete" => d \in DOMAIN runs'[j] /\ runs'[j][d] = runs[j][d]

(***************************************************************************)
(* A pin lane that is started again whenever it has ended completes all its *)
(* jobs, whatever was killed, stopped, rebuilt or left half done before,    *)
(* unless a collection with gaps keeps every lane from publishing; what the *)
(* sim lane has left in its status file never does.                         *)
(***************************************************************************)
PinFinishes ==
  "pin" \in services /\ Restarted("pin") /\ []SweepsWhole => <>(status["pin"] = "complete")

(***************************************************************************)
(* "Failed attempts are kept; a later invocation creates a new attempt      *)
(* directory for incomplete jobs" (revalidation_campaign.py:5): an earlier  *)
(* directory is used again only if its snapshot can be restored and has     *)
(* something left to do.                                                    *)
(***************************************************************************)
AttemptsFresh ==
  lane["sim"].pc = "launch" /\ Directory("sim").manifest # "none" =>
     /\ Directory("sim").tool = build["sim"]
     /\ Here.image /\ ~Here.done
=============================================================================
