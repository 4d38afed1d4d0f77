----------------------------- MODULE CheckpointSim -----------------------------
(***************************************************************************)
(* The checkpoint supervisor, src/experiments/checkpoint_sim.py: one       *)
(* process that runs a simulator under DMTCP, replaces its disk snapshot   *)
(* at an interval or when it is told to pause, and, run again, restores    *)
(* the snapshot latest.json names.  The supervisor, the simulator with its *)
(* DMTCP coordinator, the `pause` command and the host interleave; the     *)
(* host may go down between any two steps and the disk survives it.        *)
(*                                                                         *)
(* A snapshot is abstracted to the progress of the simulator it holds and  *)
(* to whether it has been written whole: that pair is what its SHA-256     *)
(* tells apart.  The directory is 0 for images/ and n > 0 for the n-th     *)
(* directory of history/, named by the clock and so ordered by age.        *)
(***************************************************************************)
EXTENDS Integers, FiniteSets

CONSTANTS
  Goal,       \* progress at which the simulator exits with 0
  MaxRounds,  \* bound: replacements started by the interval alone
  MaxFaults,  \* bound: crashes of the host or the simulator, failed calls, timeouts
  MaxAsks,    \* bound: `pause` commands and SIGTERMs
  FaultsAt    \* positions of the supervisor at which a fault may meet it

Positions == {"off", "starting", "watching", "moved", "clearing", "polling",
              "seen", "linked", "settling", "ending"}

ASSUME BoundsAssumption ==
  Goal \in Nat /\ MaxRounds \in Nat /\ MaxFaults \in Nat /\ MaxAsks \in Nat

ASSUME FaultsAssumption == FaultsAt \subseteq Positions

VARIABLES
  status,   \* state.json: its "status", or "none" before the first run
  latest,   \* latest.json: the snapshot it names with its hash, or {} before one
  files,    \* the images in images/ and history/, but those set aside as unverified
  dirs,     \* the directories of history/
  newest,   \* the last directory made in history/
  request,  \* pause.request is there
  sup,      \* where the supervisor is
  stop,     \* it has been sent SIGTERM or SIGINT
  pausing,  \* `pause`, read at the head of its loop
  child,    \* the simulator: "none", "running", "asked" for an image, "frozen"
            \* while the image is written, "exited" (with 0) or "crashed"
  work,     \* its progress
  asker,    \* the `pause` command: "checked" between its checks and its request
  asks, faults,
  owed      \* history: progress when this run was first told to pause

supVars  == <<sup, stop, pausing>>
diskVars == <<status, latest, files, dirs, newest, request>>
simVars  == <<child, work>>
vars == <<diskVars, supVars, simVars, asker, asks, faults, owed>>

Statuses  == {"none", "starting", "running", "checkpointing", "paused", "complete", "failed"}
Children  == {"none", "running", "asked", "frozen", "exited", "crashed"}
Snapshots == [dir : Nat, work : 0..Goal, whole : BOOLEAN]

Images == {f \in files : f.dir = 0}
Gone == child \in {"exited", "crashed"}

Init ==
  /\ status = "none" /\ latest = {} /\ files = {} /\ dirs = {} /\ newest = 0
  /\ request = FALSE
  /\ sup = "off" /\ stop = FALSE /\ pausing = FALSE
  /\ child = "none" /\ work = 0
  /\ asker = "idle" /\ asks = 0 /\ faults = 0 /\ owed = 0

\* The snapshot latest.json names is on disk and has the hash it names.
HashMatches == latest \subseteq files

--------------------------------------------------------------------------------
(* `run`: the lock admits one supervisor, a finished run only prints its log. *)

\* Mutant: a restart that launches the command anew.
Relaunched == 0
\* Where the computation goes on from.
Restored == IF latest = {} THEN 0 ELSE (CHOOSE s \in latest : TRUE).work

\* Restore what latest.json names, or launch a command that has never run.
Start ==
  /\ sup = "off" /\ status # "complete"
  /\ IF latest = {} THEN status = "none" ELSE HashMatches
  /\ request' = FALSE /\ status' = "starting"
  /\ sup' = "starting" /\ stop' = FALSE /\ pausing' = FALSE
  /\ child' = "running"
  /\ work' = Restored
  /\ owed' = 0
  /\ UNCHANGED <<latest, files, dirs, newest, asker, asks, faults>>

\* The checks that refuse to run come after pause.request is deleted.
Refuse ==
  /\ sup = "off" /\ status # "complete"
  /\ IF latest = {} THEN status # "none" ELSE ~HashMatches
  /\ request' = FALSE
  /\ UNCHANGED <<status, latest, files, dirs, newest, supVars, simVars, asker, asks, faults, owed>>

\* The coordinator has written its port, which it does before the simulator runs.
Up ==
  /\ sup = "starting"
  /\ sup' = "watching" /\ status' = "running"
  /\ UNCHANGED <<latest, files, dirs, newest, request, stop, pausing, simVars, asker, asks, faults, owed>>

--------------------------------------------------------------------------------
(* Replacing the snapshot.                                                    *)

Told == stop \/ request
\* Mutant: the request of the `pause` command is not looked at.
ToldBySignal == stop
\* What the head of the loop looks at.
Demanded == Told

\* A new history directory takes the snapshot images/ holds.
Replace ==
  /\ sup = "watching" /\ ~Gone
  /\ Demanded \/ newest < MaxRounds
  /\ pausing' = Demanded
  /\ newest' = newest + 1 /\ dirs' = dirs \cup {newest + 1}
  /\ files' = {IF f \in latest /\ f.dir = 0 THEN [f EXCEPT !.dir = newest + 1] ELSE f : f \in files}
  /\ sup' = IF \E s \in latest : s.dir = 0 THEN "moved" ELSE "clearing"
  /\ UNCHANGED <<status, latest, request, stop, simVars, asker, asks, faults, owed>>

\* Mutant: latest.json is left as it was.
MovedOnly ==
  /\ sup = "moved" /\ sup' = "clearing"
  /\ UNCHANGED <<diskVars, stop, pausing, simVars, asker, asks, faults, owed>>

\* latest.json follows the snapshot that was moved.
Relink ==
  /\ sup = "moved"
  /\ latest' = {[s EXCEPT !.dir = newest] : s \in latest}
  /\ sup' = "clearing"
  /\ UNCHANGED <<status, files, dirs, newest, request, stop, pausing, simVars, asker, asks, faults, owed>>

\* All but the two newest directories of history/ go.
Recent(D) == {d \in D : Cardinality({e \in D : e > d}) < 2}

\* Mutant: history/ is pruned before the new image is there.
ClearAndPrune ==
  /\ sup = "clearing" /\ ~Gone
  /\ dirs' = Recent(dirs)
  /\ files' = {f \in files : f.dir \in Recent(dirs)}
  /\ status' = "checkpointing"
  /\ child' = "asked" /\ sup' = "polling"
  /\ UNCHANGED <<latest, newest, request, stop, pausing, work, asker, asks, faults, owed>>

\* What an earlier attempt left in images/ is set aside, then the image is
\* asked for; the coordinator answers before it acts.
Clear ==
  /\ sup = "clearing" /\ ~Gone
  /\ files' = files \ Images
  /\ status' = "checkpointing"
  /\ child' = "asked" /\ sup' = "polling"
  /\ UNCHANGED <<latest, dirs, newest, request, stop, pausing, work, asker, asks, faults, owed>>

\* First half of a poll: one image is there.
Glob ==
  /\ sup = "polling"
  /\ \E f \in Images : Images = {f}
  /\ sup' = "seen"
  /\ UNCHANGED <<diskVars, stop, pausing, simVars, asker, asks, faults, owed>>

\* Mutant: any image will do while the computation lives.
FinalizedOnSight == ~Gone
\* Second half: the coordinator says RUNNING=yes.
Finalized == child \in {"running", "asked"}

Link ==
  /\ sup = "seen" /\ Finalized
  /\ latest' = Images
  /\ sup' = "linked"
  /\ UNCHANGED <<status, files, dirs, newest, request, stop, pausing, simVars, asker, asks, faults, owed>>

PollAgain ==
  /\ sup = "seen" /\ ~Finalized /\ ~Gone
  /\ sup' = "polling"
  /\ UNCHANGED <<diskVars, stop, pausing, simVars, asker, asks, faults, owed>>

Prune ==
  /\ sup = "linked"
  /\ dirs' = Recent(dirs)
  /\ files' = {f \in files : f.dir \in Recent(dirs) \cup {0}}
  /\ sup' = "settling"
  /\ UNCHANGED <<status, latest, newest, request, stop, pausing, simVars, asker, asks, faults, owed>>

--------------------------------------------------------------------------------
(* After a replacement, and the ends of a run.                                *)

Leave(s) ==
  /\ status' = s
  /\ sup' = "off" /\ child' = "none"
  /\ UNCHANGED <<latest, files, dirs, newest, request, stop, pausing, work, asker, asks, owed>>

\* Mutant: whether to pause is read anew.
ToldByNow == Told
\* The replacement was made to pause.
ToPause == pausing

Resume ==
  /\ sup = "settling" /\ ~ToPause
  /\ sup' = "watching" /\ status' = "running"
  /\ UNCHANGED <<latest, files, dirs, newest, request, stop, pausing, simVars, asker, asks, faults, owed>>

EndPause ==
  /\ sup = "settling" /\ ToPause /\ child # "exited"
  /\ sup' = "ending"
  /\ UNCHANGED <<diskVars, stop, pausing, simVars, asker, asks, faults, owed>>

\* The computation is killed, or was over before the kill.
Pause ==
  /\ sup = "ending"
  /\ Leave("paused") /\ UNCHANGED faults

Complete ==
  /\ \/ sup = "watching"
     \/ sup = "settling" /\ ToPause
  /\ child = "exited"
  /\ Leave("complete") /\ UNCHANGED faults

\* A call that needs the computation raises once it is gone.
FailGone ==
  /\ \/ Gone /\ sup \in {"clearing", "polling", "seen", "ending"}
     \/ child = "crashed" /\ sup \in {"starting", "watching"}
  /\ Leave("failed") /\ UNCHANGED faults

\* A call fails or a deadline passes: disk full, no port, no image, no exit.
FailCall ==
  /\ sup # "off" /\ sup \in FaultsAt /\ faults < MaxFaults
  /\ Leave("failed") /\ faults' = faults + 1

SupStep ==
  \/ Up \/ Replace \/ Relink \/ Clear \/ Glob \/ Link \/ PollAgain \/ Prune
  \/ Resume \/ EndPause \/ Pause \/ Complete \/ FailGone

--------------------------------------------------------------------------------
(* The simulator and its coordinator.                                         *)

Advance ==
  /\ child \in {"running", "asked"} /\ work < Goal
  /\ work' = work + 1
  /\ UNCHANGED <<diskVars, supVars, child, asker, asks, faults, owed>>

Exit ==
  /\ child \in {"running", "asked"} /\ work = Goal
  /\ child' = "exited"
  /\ UNCHANGED <<diskVars, supVars, work, asker, asks, faults, owed>>

\* The image appears in images/ before it is whole.
BeginImage ==
  /\ child = "asked"
  /\ child' = "frozen"
  /\ files' = files \cup {[dir |-> 0, work |-> work, whole |-> FALSE]}
  /\ UNCHANGED <<status, latest, dirs, newest, request, supVars, work, asker, asks, faults, owed>>

EndImage ==
  /\ child = "frozen"
  /\ child' = "running"
  /\ files' = (files \ Images) \cup {[f EXCEPT !.whole = TRUE] : f \in Images}
  /\ UNCHANGED <<status, latest, dirs, newest, request, supVars, work, asker, asks, faults, owed>>

Crash ==
  /\ child \in {"running", "asked", "frozen"} /\ faults < MaxFaults
  /\ child' = "crashed" /\ faults' = faults + 1
  /\ UNCHANGED <<diskVars, supVars, work, asker, asks, owed>>

--------------------------------------------------------------------------------
(* The operator and the host.                                                 *)

Owe == owed' = IF Told \/ sup = "off" THEN owed ELSE work

Sigterm ==
  /\ sup # "off" /\ ~stop /\ asks < MaxAsks
  /\ stop' = TRUE /\ asks' = asks + 1 /\ Owe
  /\ UNCHANGED <<diskVars, sup, pausing, simVars, asker, faults>>

\* `pause` goes on only if the process state.json names is alive.
CheckAlive ==
  /\ asker = "idle" /\ asks < MaxAsks
  /\ sup # "off" /\ status \notin {"paused", "complete"}
  /\ asker' = "checked" /\ asks' = asks + 1
  /\ UNCHANGED <<diskVars, supVars, simVars, faults, owed>>

\* By now that process may have ended, and another may have started.
Touch ==
  /\ asker = "checked"
  /\ request' = TRUE /\ asker' = "idle" /\ Owe
  /\ UNCHANGED <<status, latest, files, dirs, newest, supVars, simVars, asks, faults>>

HostDown ==
  /\ sup # "off" /\ sup \in FaultsAt /\ faults < MaxFaults
  /\ sup' = "off" /\ child' = "none" /\ asker' = "idle" /\ faults' = faults + 1
  /\ UNCHANGED <<diskVars, stop, pausing, work, asks, owed>>

Next ==
  \/ SupStep \/ FailCall \/ Start \/ Refuse
  \/ Advance \/ Exit \/ BeginImage \/ EndImage \/ Crash
  \/ Sigterm \/ CheckAlive \/ Touch \/ HostDown

Spec == Init /\ [][Next]_vars

\* The supervisor and the coordinator are live processes; the simulator need
\* not come to an end, and nobody need run the command again.
FairSpec == Spec /\ WF_vars(SupStep) /\ WF_vars(BeginImage \/ EndImage)

\* The simulator makes progress, and a command that ended is run again.
Persistence == WF_vars(Advance \/ Exit) /\ WF_vars(Start)

--------------------------------------------------------------------------------
(* Properties.                                                                *)

ControlType ==
  /\ status \in Statuses /\ sup \in Positions /\ child \in Children
  /\ request \in BOOLEAN /\ stop \in BOOLEAN /\ pausing \in BOOLEAN
  /\ asker \in {"idle", "checked"}

DiskType ==
  /\ files \subseteq Snapshots /\ latest \subseteq Snapshots
  /\ \A s, t \in latest : s = t
  /\ dirs \subseteq Nat /\ newest \in Nat

CountType ==
  /\ work \in 0..Goal /\ owed \in 0..Goal
  /\ asks \in 0..MaxAsks /\ faults \in 0..MaxFaults

\* latest.json names at most one snapshot, images are of the progress the
\* simulator can make, and the supervisor, the simulator and state.json take
\* the values the code gives them.
TypeOK == ControlType /\ DiskType /\ CountType

\* A finalized snapshot is never lost: whatever fails and wherever the host goes
\* down, a whole image of the progress latest.json names stays on disk, through
\* the move to history/, the setting aside of leftovers and the pruning.
SnapshotKept ==
  \A s \in latest : \E f \in files : f.whole /\ f.work = s.work

\* Between runs, the snapshot latest.json names can be restored.  The comment
\* at checkpoint_sim.py:98 promises that the previous snapshot stays available
\* during replacement.
Restorable == sup = "off" => HashMatches

\* A pause that is confirmed loses nothing: the computation is gone, and the
\* snapshot to be restored holds all the work that was done when the supervisor
\* was first told to pause, even if it was then in the middle of a checkpoint.
PausedKeepsWork ==
  status = "paused" =>
    /\ sup = "off" /\ child = "none"
    /\ latest # {} /\ HashMatches
    /\ \A s \in latest : s.work >= owed

\* Restoring, failing and replacing never give up progress that has been saved.
NeverBackwards ==
  [][\A s \in latest : \E t \in latest' : t.work >= s.work]_vars

\* Once a snapshot has been saved, the simulation is completed, however often
\* it is interrupted, if the simulator makes progress and is run again.
Recovers == Persistence => (latest # {} ~> status = "complete")

\* A supervisor that is told to pause ends, even if the simulator never does.
PauseHonoured == Told /\ sup # "off" ~> sup = "off"
================================================================================
