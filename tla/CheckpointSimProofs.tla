-------------------------- MODULE CheckpointSimProofs --------------------------
(***************************************************************************)
(* Proofs about the checkpoint supervisor, for every length of the         *)
(* simulation, every number of replacements, faults and pauses, and every  *)
(* set of positions at which a fault may meet the supervisor.              *)
(***************************************************************************)
EXTENDS CheckpointSim, TLAPS

\* The new image is being waited for; the new image has been named.
Waiting == sup \in {"polling", "seen"}
Named == sup \in {"linked", "settling", "ending"}

\* latest.json names a whole image.  It is on disk under that name except while
\* latest.json has still to follow it to history/.
LatestInv ==
  /\ \A s \in latest : s.whole
  /\ SnapshotKept
  /\ sup \notin {"off", "moved"} => latest \subseteq files
  /\ sup = "moved" =>
       /\ newest # 0
       /\ \A s \in latest : s.dir = 0 /\ [s EXCEPT !.dir = newest] \in files
  /\ sup \in {"clearing", "polling", "seen"} => \A s \in latest : s.dir # 0
  /\ Named => latest # {} /\ \A s \in latest : s.dir = 0

\* What images/ holds while an image is waited for: nothing before the
\* computation is frozen, and a whole image once it runs again.
ImageInv ==
  /\ child \in {"asked", "frozen"} => Waiting
  /\ child = "asked" => Images = {}
  /\ sup = "seen" => \E f \in Images : Images = {f}
  /\ Waiting /\ child = "running" => \A f \in Images : f.whole

\* Progress: the snapshot is behind the simulator, the new image is not behind
\* the snapshot, and, in a replacement made to pause, neither is behind what the
\* simulator had done when the supervisor was first told to pause.
WorkInv ==
  /\ sup # "off" => \A s \in latest : s.work <= work
  /\ sup # "off" /\ Told => owed <= work
  /\ sup \notin {"off", "starting", "watching"} /\ pausing => Told
  /\ sup = "ending" => pausing
  /\ Waiting => \A f \in Images :
       /\ f.work <= work
       /\ \A s \in latest : s.work <= f.work
       /\ pausing => owed <= f.work
  /\ Named /\ pausing => \A s \in latest : owed <= s.work

PauseInv == (sup # "off" => status # "paused") /\ PausedKeepsWork

IInv == TypeOK /\ LatestInv /\ ImageInv /\ WorkInv /\ PauseInv

\* The simulator's progress is restored from the snapshot latest.json names.
LEMMA RestoredWork ==
  ASSUME TypeOK
  PROVE  /\ Restored \in 0..Goal
         /\ \A s \in latest : Restored = s.work
<1> USE BoundsAssumption
<1>1. CASE latest = {}
  BY <1>1 DEF Restored
<1>2. CASE latest # {}
  <2>1. PICK s \in latest : s = CHOOSE t \in latest : TRUE
    BY <1>2
  <2>2. s \in Snapshots /\ \A t \in latest : t = s
    BY <2>1 DEF TypeOK, DiskType
  <2> QED BY <1>2, <2>1, <2>2 DEF Restored, Snapshots
<1> QED BY <1>1, <1>2

\* Every step keeps the supervisor, the simulator and the flags within their types.
LEMMA ControlStep == TypeOK /\ [Next]_vars => ControlType'
<1> USE DEF TypeOK, ControlType, Positions, Statuses, Children,
           diskVars, supVars, simVars
<1>1. TypeOK /\ (SupStep \/ FailCall) => ControlType'
  BY DEF SupStep, Up, Replace, Relink, Clear, Glob, Link, PollAgain, Prune, Resume,
         EndPause, Pause, Complete, FailGone, FailCall, Leave, Demanded, Told
<1>2. TypeOK /\ (Start \/ Refuse) => ControlType'
  BY DEF Start, Refuse
<1>3. TypeOK /\ (Advance \/ Exit \/ BeginImage \/ EndImage \/ Crash) => ControlType'
  BY DEF Advance, Exit, BeginImage, EndImage, Crash
<1>4. TypeOK /\ (Sigterm \/ CheckAlive \/ Touch \/ HostDown) => ControlType'
  BY DEF Sigterm, CheckAlive, Touch, HostDown
<1>5. TypeOK /\ UNCHANGED vars => ControlType'
  BY DEF vars
<1> QED BY <1>1, <1>2, <1>3, <1>4, <1>5 DEF Next

\* Every step keeps one snapshot at most in latest.json, and only images on
\* disk.
LEMMA DiskStep == TypeOK /\ ImageInv /\ [Next]_vars => DiskType'
<1> USE BoundsAssumption DEF TypeOK, DiskType, CountType, diskVars, supVars, simVars
<1>1. TypeOK /\ Replace => DiskType'
  BY DEF Replace, Snapshots
<1>2. TypeOK /\ Relink => DiskType'
  BY DEF Relink, Snapshots
<1>3. TypeOK /\ ImageInv /\ Link => DiskType'
  <2> SUFFICES ASSUME TypeOK, ImageInv, Link PROVE DiskType'
    OBVIOUS
  <2>1. PICK f \in Images : Images = {f}
    BY DEF Link, ImageInv
  <2>2. f \in Snapshots
    BY <2>1 DEF Images
  <2> QED BY <2>1, <2>2 DEF Link
<1>4. TypeOK /\ (Clear \/ Prune) => DiskType'
  BY DEF Clear, Prune, Recent
<1>5. TypeOK /\ (Up \/ Glob \/ PollAgain \/ Resume \/ EndPause) => DiskType'
  BY DEF Up, Glob, PollAgain, Resume, EndPause
<1>6. TypeOK /\ (Pause \/ Complete \/ FailGone \/ FailCall) => DiskType'
  BY DEF Pause, Complete, FailGone, FailCall, Leave
<1>7. TypeOK /\ (Start \/ Refuse) => DiskType'
  BY DEF Start, Refuse
<1>8. TypeOK /\ (BeginImage \/ EndImage) => DiskType'
  <2>1. TypeOK => [dir |-> 0, work |-> work, whole |-> FALSE] \in Snapshots
    BY DEF Snapshots
  <2>2. TypeOK => {[f EXCEPT !.whole = TRUE] : f \in Images} \subseteq Snapshots
    BY DEF Images, Snapshots
  <2> QED BY <2>1, <2>2 DEF BeginImage, EndImage
<1>9. TypeOK /\ (Advance \/ Exit \/ Crash) => DiskType'
  BY DEF Advance, Exit, Crash
<1>10. TypeOK /\ (Sigterm \/ CheckAlive \/ Touch \/ HostDown) => DiskType'
  BY DEF Sigterm, CheckAlive, Touch, HostDown
<1>11. TypeOK /\ UNCHANGED vars => DiskType'
  BY DEF vars
<1> QED BY <1>1, <1>2, <1>3, <1>4, <1>5, <1>6, <1>7, <1>8, <1>9, <1>10, <1>11
        DEF Next, SupStep

\* Every step keeps progress and the bounded counters in range.
LEMMA CountStep == TypeOK /\ [Next]_vars => CountType'
<1> USE BoundsAssumption DEF TypeOK, CountType, diskVars, supVars, simVars
<1>1. TypeOK /\ SupStep => CountType'
  BY DEF SupStep, Up, Replace, Relink, Clear, Glob, Link, PollAgain, Prune, Resume,
         EndPause, Pause, Complete, FailGone, Leave
<1>2. TypeOK /\ Start => CountType'
  BY RestoredWork DEF Start
<1>3. TypeOK /\ Refuse => CountType'
  BY DEF Refuse
<1>4. TypeOK /\ (Advance \/ Exit \/ BeginImage \/ EndImage \/ Crash) => CountType'
  BY DEF Advance, Exit, BeginImage, EndImage, Crash
<1>5. TypeOK /\ (Sigterm \/ CheckAlive \/ Touch) => CountType'
  BY DEF Sigterm, CheckAlive, Touch, Owe
<1>6. TypeOK /\ (FailCall \/ HostDown) => CountType'
  BY DEF FailCall, Leave, HostDown
<1>7. TypeOK /\ UNCHANGED vars => CountType'
  BY DEF vars
<1> QED BY <1>1, <1>2, <1>3, <1>4, <1>5, <1>6, <1>7 DEF Next

--------------------------------------------------------------------------------

\* A step that leaves the disk as it is, and the supervisor where it is or gone.
LEMMA DiskAlone ==
  ASSUME LatestInv, UNCHANGED <<latest, files, newest>>,
         sup' = sup \/ sup' = "off"
  PROVE  LatestInv'
<1> QED BY DEF LatestInv, SnapshotKept, Named

\* A replacement takes the snapshot along, and setting leftovers aside, adding
\* an image or pruning history/ never touches it.
LEMMA LatestStep == IInv /\ [Next]_vars => LatestInv'
<1> SUFFICES ASSUME IInv, [Next]_vars PROVE LatestInv'
  OBVIOUS
<1> USE DEF IInv
<1>1. CASE Replace
  <2>1. latest \subseteq files /\ latest' = latest /\ newest' = newest + 1 /\ newest \in Nat
    BY <1>1 DEF Replace, LatestInv, TypeOK, DiskType
  <2>2. ASSUME NEW s \in latest PROVE IF s.dir = 0 THEN [s EXCEPT !.dir = newest'] \in files'
                                                   ELSE s \in files'
    BY <1>1, <2>1 DEF Replace
  <2>3. CASE \E s \in latest : s.dir = 0
    <3>1. \A s \in latest : s.dir = 0
      BY <2>3 DEF TypeOK, DiskType
    <3>2. \A s \in latest : /\ [s EXCEPT !.dir = newest'] \in files'
                            /\ [s EXCEPT !.dir = newest'].whole
                            /\ [s EXCEPT !.dir = newest'].work = s.work
      BY <2>2, <3>1 DEF TypeOK, DiskType, Snapshots, LatestInv
    <3>3. SnapshotKept'
      BY <2>1, <3>2 DEF SnapshotKept
    <3> QED BY <1>1, <2>1, <2>3, <3>1, <3>2, <3>3 DEF Replace, LatestInv, Named
  <2>4. CASE ~\E s \in latest : s.dir = 0
    BY <1>1, <2>1, <2>2, <2>4 DEF Replace, LatestInv, SnapshotKept, Named
  <2> QED BY <2>3, <2>4
<1>2. CASE Relink
  <2>1. /\ \A s \in latest : s \in Snapshots /\ s.whole /\ s.dir = 0
        /\ \A s \in latest : [s EXCEPT !.dir = newest] \in files
    BY <1>2 DEF Relink, LatestInv, TypeOK, DiskType
  <2>2. newest # 0
    BY <1>2 DEF Relink, LatestInv
  <2> QED BY <1>2, <2>1, <2>2 DEF Relink, LatestInv, SnapshotKept, Named, Snapshots
<1>3. CASE Clear
  <2>1. latest \subseteq files' /\ latest' = latest
    BY <1>3 DEF Clear, LatestInv, Images
  <2> QED BY <1>3, <2>1 DEF Clear, LatestInv, SnapshotKept, Named
<1>4. CASE Link
  <2>1. PICK f \in Images : Images = {f}
    BY <1>4 DEF Link, ImageInv
  <2>2. f.whole /\ f.dir = 0 /\ f \in files
    BY <1>4, <2>1 DEF Link, Finalized, ImageInv, Waiting, Images
  <2> QED BY <1>4, <2>1, <2>2 DEF Link, LatestInv, SnapshotKept, Named
<1>5. CASE Prune
  <2>1. latest \subseteq files' /\ latest' = latest
    BY <1>5 DEF Prune, LatestInv, Named
  <2> QED BY <1>5, <2>1 DEF Prune, LatestInv, SnapshotKept, Named
<1>6. CASE BeginImage \/ EndImage
  <2>1. Waiting /\ latest \subseteq files /\ \A s \in latest : s.dir # 0
    BY <1>6 DEF BeginImage, EndImage, ImageInv, LatestInv, Waiting
  <2>2. latest \subseteq files' /\ latest' = latest /\ sup' = sup
    BY <1>6, <2>1 DEF BeginImage, EndImage, Images, supVars
  <2> QED BY <2>1, <2>2 DEF LatestInv, SnapshotKept, Named, Waiting
<1>7. CASE Start \/ Refuse
  BY <1>7 DEF Start, Refuse, HashMatches, LatestInv, SnapshotKept, Named, supVars
<1>8. CASE Up \/ Glob \/ PollAgain \/ Resume \/ EndPause
  BY <1>8 DEF Up, Glob, PollAgain, Resume, EndPause, LatestInv, SnapshotKept, Named, diskVars
<1>9. CASE Pause \/ Complete \/ FailGone \/ FailCall
  BY <1>9, DiskAlone DEF Pause, Complete, FailGone, FailCall, Leave
<1>10. CASE Advance \/ Exit \/ Crash \/ Sigterm \/ CheckAlive \/ Touch \/ HostDown
  BY <1>10, DiskAlone DEF Advance, Exit, Crash, Sigterm, CheckAlive, Touch, HostDown,
                          diskVars, supVars
<1>11. CASE UNCHANGED vars
  BY <1>11, DiskAlone DEF vars, diskVars, supVars
<1> QED BY <1>1, <1>2, <1>3, <1>4, <1>5, <1>6, <1>7, <1>8, <1>9, <1>10, <1>11 DEF Next, SupStep

--------------------------------------------------------------------------------

\* The image is asked for with images/ empty, and is whole once the computation
\* runs again.
LEMMA ImageStep == IInv /\ [Next]_vars => ImageInv'
<1> SUFFICES ASSUME IInv, [Next]_vars PROVE ImageInv'
  OBVIOUS
<1> USE DEF IInv, ImageInv, Waiting
<1>1. CASE Replace
  BY <1>1 DEF Replace, simVars
<1>2. CASE Clear
  <2>1. Images' = {}
    BY <1>2 DEF Clear, Images
  <2> QED BY <1>2, <2>1 DEF Clear
<1>3. CASE Glob
  <2>1. Images' = Images
    BY <1>3 DEF Glob, diskVars, Images
  <2> QED BY <1>3, <2>1 DEF Glob, simVars
<1>4. CASE Link \/ PollAgain
  <2>1. Images' = Images
    BY <1>4 DEF Link, PollAgain, diskVars, Images
  <2>2. child # "asked" \/ sup # "seen"
    OBVIOUS
  <2> QED BY <1>4, <2>1, <2>2 DEF Link, PollAgain, Finalized, simVars
<1>5. CASE Up \/ Relink \/ Prune \/ Resume \/ EndPause
  BY <1>5 DEF Up, Relink, Prune, Resume, EndPause, diskVars, simVars
<1>6. CASE Pause \/ Complete \/ FailGone \/ FailCall \/ HostDown
  BY <1>6 DEF Pause, Complete, FailGone, FailCall, Leave, HostDown
<1>7. CASE Start \/ Refuse
  <2>1. Images' = Images
    BY <1>7 DEF Start, Refuse, Images
  <2> QED BY <1>7, <2>1 DEF Start, Refuse, supVars, simVars
<1>8. CASE BeginImage
  <2>1. Images = {} /\ sup = "polling"
    BY <1>8 DEF BeginImage
  <2> QED BY <1>8, <2>1 DEF BeginImage, supVars
<1>9. CASE EndImage
  <2>1. Images' = {[f EXCEPT !.whole = TRUE] : f \in Images}
    BY <1>9 DEF EndImage, Images, TypeOK, DiskType, Snapshots
  <2>2. \A f \in Images' : f.whole
    BY <2>1 DEF Images, TypeOK, DiskType, Snapshots
  <2>3. ASSUME sup = "seen" PROVE \E f \in Images' : Images' = {f}
    <3>1. PICK f \in Images : Images = {f}
      BY <2>3
    <3> DEFINE g == [f EXCEPT !.whole = TRUE]
    <3>2. Images' = {g}
      BY <2>1, <3>1
    <3> QED BY <3>2
  <2> QED BY <1>9, <2>2, <2>3 DEF EndImage, supVars
<1>10. CASE Advance \/ Exit \/ Crash \/ Sigterm \/ CheckAlive \/ Touch \/ UNCHANGED vars
  <2>1. Images' = Images
    BY <1>10 DEF Advance, Exit, Crash, Sigterm, CheckAlive, Touch, vars, diskVars, Images
  <2> QED BY <1>10, <2>1 DEF Advance, Exit, Crash, Sigterm, CheckAlive, Touch, vars,
                             diskVars, supVars, simVars
<1> QED BY <1>1, <1>2, <1>3, <1>4, <1>5, <1>6, <1>7, <1>8, <1>9, <1>10 DEF Next, SupStep

\* An image that was seen, by name.
LEMMA SeenImage ==
  ASSUME WorkInv, sup = "seen", NEW f \in Images
  PROVE  /\ f.work <= work
         /\ \A s \in latest : s.work <= f.work
         /\ pausing => owed <= f.work
<1>1. Waiting
  BY DEF Waiting
<1> QED BY <1>1 DEF WorkInv

\* Progress only grows within a run, so an image taken after the supervisor
\* decided to pause is not behind what was done when it was told to.
LEMMA WorkStep == IInv /\ [Next]_vars => WorkInv'
<1> SUFFICES ASSUME IInv, [Next]_vars PROVE WorkInv'
  OBVIOUS
<1> USE DEF IInv, WorkInv, Waiting, Named
<1>0. /\ work \in Nat /\ owed \in Nat
      /\ files \subseteq Snapshots /\ latest \subseteq Snapshots
  BY BoundsAssumption DEF TypeOK, DiskType, CountType
<1>1. CASE Replace
  <2>1. pausing' => Told'
    BY <1>1 DEF Replace, Demanded, Told
  <2> QED BY <1>1, <2>1 DEF Replace, Told, simVars
<1>2. CASE Relink
  <2>1. \A t \in latest' : \E s \in latest : t.work = s.work
    BY <1>0, <1>2 DEF Relink, Snapshots
  <2> QED BY <1>2, <2>1 DEF Relink, Told, simVars
<1>3. CASE Clear
  <2>1. Images' = {}
    BY <1>3 DEF Clear, Images
  <2> QED BY <1>3, <2>1 DEF Clear, Told
<1>4. CASE Glob \/ PollAgain
  <2>1. Images' = Images
    BY <1>4 DEF Glob, PollAgain, diskVars, Images
  <2> QED BY <1>4, <2>1 DEF Glob, PollAgain, Told, diskVars, simVars
<1>5. CASE Link
  <2>1. sup = "seen" /\ sup' = "linked" /\ latest' = Images
    BY <1>5 DEF Link
  <2>2. UNCHANGED <<work, owed, pausing, stop, request>>
    BY <1>5 DEF Link, simVars
  <2>3. \A f \in Images : f.work <= work /\ (pausing => owed <= f.work)
    BY <2>1, SeenImage
  <2> QED BY <2>1, <2>2, <2>3 DEF Told
<1>6. CASE Up \/ Prune \/ Resume \/ EndPause
  BY <1>6 DEF Up, Prune, Resume, EndPause, ToPause, Told, diskVars, simVars
<1>7. CASE Pause \/ Complete \/ FailGone \/ FailCall \/ HostDown
  BY <1>7 DEF Pause, Complete, FailGone, FailCall, Leave, HostDown
<1>8. CASE Start
  <2>1. \A s \in latest : work' = s.work
    BY <1>8, RestoredWork DEF Start
  <2> QED BY <1>0, <1>8, <2>1 DEF Start, Told, Snapshots
<1>9. CASE Refuse
  BY <1>9 DEF Refuse, supVars
<1>10. CASE BeginImage
  <2>1. Images = {} /\ sup = "polling"
    BY <1>10 DEF BeginImage, ImageInv
  <2>2. \A f \in Images' : f.work = work
    BY <1>10, <2>1 DEF BeginImage, Images
  <2> QED BY <1>0, <1>10, <2>1, <2>2 DEF BeginImage, Told, supVars
<1>11. CASE EndImage
  <2>1. \A g \in Images' : \E f \in Images : g.work = f.work
    BY <1>0, <1>11 DEF EndImage, Images, Snapshots
  <2> QED BY <1>11, <2>1 DEF EndImage, Told, supVars
<1>12. CASE Advance
  <2>1. Images' = Images
    BY <1>12 DEF Advance, diskVars, Images
  <2>2. \A n \in Nat : n <= work => n <= work'
    BY <1>0, <1>12 DEF Advance
  <2>3. /\ \A s \in latest : s.work \in Nat
        /\ \A f \in Images : f.work \in Nat
    BY <1>0, BoundsAssumption DEF Images, Snapshots
  <2> QED BY <1>0, <1>12, <2>1, <2>2, <2>3 DEF Advance, Told, diskVars, supVars
<1>13. CASE Exit \/ Crash \/ CheckAlive \/ UNCHANGED vars
  <2>1. Images' = Images
    BY <1>13 DEF Exit, Crash, CheckAlive, vars, diskVars, Images
  <2> QED BY <1>13, <2>1 DEF Exit, Crash, CheckAlive, Told, vars, diskVars, supVars, simVars
<1>14. CASE Sigterm \/ Touch
  <2>1. Images' = Images
    BY <1>14 DEF Sigterm, Touch, diskVars, Images
  <2>2. sup # "off" => owed' = IF Told THEN owed ELSE work
    BY <1>14 DEF Sigterm, Touch, Owe
  <2>3. Told'
    BY <1>14 DEF Sigterm, Touch, Told
  <2> QED BY <1>0, <1>14, <2>1, <2>2, <2>3 DEF Sigterm, Touch, diskVars, supVars, simVars
<1> QED BY <1>1, <1>2, <1>3, <1>4, <1>5, <1>6, <1>7, <1>8, <1>9, <1>10, <1>11, <1>12,
           <1>13, <1>14 DEF Next, SupStep

\* "paused" is written only after the image of this replacement was named, and
\* is rewritten before anything else is done.
LEMMA PauseStep == IInv /\ [Next]_vars => PauseInv'
<1> SUFFICES ASSUME IInv, [Next]_vars PROVE PauseInv'
  OBVIOUS
<1> USE DEF IInv, PauseInv, PausedKeepsWork, HashMatches
<1>1. CASE Pause
  <2>1. /\ latest # {} /\ latest \subseteq files
        /\ \A s \in latest : owed <= s.work
    BY <1>1 DEF Pause, LatestInv, WorkInv, Named
  <2>2. owed \in Nat /\ \A s \in latest : s.work \in Nat
    BY BoundsAssumption DEF TypeOK, DiskType, CountType, Snapshots
  <2> QED BY <1>1, <2>1, <2>2 DEF Pause, Leave
<1>2. CASE SupStep /\ ~Pause
  BY <1>2 DEF SupStep, Up, Replace, Relink, Clear, Glob, Link, PollAgain, Prune, Resume,
              EndPause, Complete, FailGone, Leave, diskVars
<1>3. CASE FailCall \/ HostDown
  BY <1>3 DEF FailCall, Leave, HostDown, diskVars
<1>4. CASE Start \/ Refuse
  BY <1>4 DEF Start, Refuse, supVars, simVars
<1>5. CASE Advance \/ Exit \/ BeginImage \/ EndImage \/ Crash
  BY <1>5 DEF Advance, Exit, BeginImage, EndImage, Crash, ImageInv, Waiting, diskVars, supVars
<1>6. CASE Sigterm \/ CheckAlive \/ Touch \/ UNCHANGED vars
  BY <1>6 DEF Sigterm, CheckAlive, Touch, Owe, vars, diskVars, supVars, simVars
<1> QED BY <1>1, <1>2, <1>3, <1>4, <1>5, <1>6 DEF Next

LEMMA InitHolds == Init => IInv
<1> SUFFICES ASSUME Init PROVE IInv
  OBVIOUS
<1>1. TypeOK
  <2>1. ControlType /\ DiskType
    BY DEF Init, ControlType, DiskType, Positions, Statuses, Children
  <2>2. CountType
    BY BoundsAssumption DEF Init, CountType
  <2> QED BY <2>1, <2>2 DEF TypeOK
<1>2. LatestInv /\ ImageInv /\ WorkInv /\ PauseInv
  BY DEF Init, LatestInv, SnapshotKept, ImageInv, WorkInv, PauseInv, PausedKeepsWork,
         Waiting, Named, Images, Told
<1> QED BY <1>1, <1>2 DEF IInv

LEMMA StepHolds == IInv /\ [Next]_vars => IInv'
  BY ControlStep, DiskStep, CountStep, LatestStep, ImageStep, WorkStep, PauseStep
  DEF IInv, TypeOK

LEMMA Invariance == Spec => []IInv
  BY InitHolds, StepHolds, PTL DEF Spec

--------------------------------------------------------------------------------

\* Every value the supervisor keeps and writes has its type, and latest.json
\* names one snapshot at most.
THEOREM SupervisorTypes == Spec => []TypeOK
<1>1. IInv => TypeOK
  BY DEF IInv
<1> QED BY <1>1, Invariance, PTL

\* Wherever the supervisor, the simulator or the host fails, a whole image of the
\* saved progress is on disk (checkpoint_sim.py:98-126).
THEOREM SnapshotsSurvive == Spec => []SnapshotKept
<1>1. IInv => SnapshotKept
  BY DEF IInv, LatestInv
<1> QED BY <1>1, Invariance, PTL

\* A confirmed pause loses no work done before it was asked for
\* (checkpoint_sim.py:96, 118-132).
THEOREM PausesLoseNothing == Spec => []PausedKeepsWork
<1>1. IInv => PausedKeepsWork
  BY DEF IInv, PauseInv
<1> QED BY <1>1, Invariance, PTL

\* Saved progress is never given up, by a restart, a failure or a replacement
\* (checkpoint_sim.py:70-73, 105-108, 122).
THEOREM ProgressIsKept == Spec => NeverBackwards
<1> DEFINE Keeps == \A s \in latest : \E t \in latest' : t.work >= s.work
<1>1. IInv /\ [Next]_vars => [Keeps]_vars
  <2> SUFFICES ASSUME IInv, [Next]_vars, ~UNCHANGED vars PROVE Keeps
    OBVIOUS
  <2>0. latest \subseteq Snapshots /\ \A s \in latest : s.work \in Nat
    BY BoundsAssumption DEF IInv, TypeOK, DiskType, Snapshots
  <2>1. CASE latest' = latest
    BY <2>0, <2>1
  <2>2. CASE Relink
    <3>1. \A s \in latest : [s EXCEPT !.dir = newest] \in latest'
                          /\ [s EXCEPT !.dir = newest].work = s.work
      BY <2>0, <2>2 DEF Relink, Snapshots
    <3>2. \A n \in Nat : n >= n
      OBVIOUS
    <3> QED BY <2>0, <3>1, <3>2
  <2>3. CASE Link
    <3>1. PICK f \in Images : Images = {f}
      BY <2>3 DEF Link, IInv, ImageInv
    <3>2. \A s \in latest : s.work <= f.work
      <4>1. sup = "seen"
        BY <2>3 DEF Link
      <4> QED BY <3>1, <4>1, SeenImage DEF IInv
    <3>3. f.work \in Nat
      BY <3>1, BoundsAssumption DEF IInv, TypeOK, DiskType, Images, Snapshots
    <3> QED BY <2>0, <2>3, <3>1, <3>2, <3>3 DEF Link
  <2>4. latest' = latest \/ Relink \/ Link
    BY DEF Next, SupStep, Up, Replace, Clear, Glob, PollAgain, Prune, Resume, EndPause, Pause,
           Complete, FailGone, FailCall, Leave, Start, Refuse, Advance, Exit, BeginImage,
           EndImage, Crash, Sigterm, CheckAlive, Touch, HostDown, diskVars
  <2> QED BY <2>1, <2>2, <2>3, <2>4
<1> QED BY <1>1, Invariance, PTL DEF Spec, NeverBackwards

\* When nothing goes wrong between the move of the old image and the rewriting of
\* latest.json (checkpoint_sim.py:106-108), what latest.json names can be restored
\* whatever else goes wrong.
THEOREM OnlyTheMoveIsExposed ==
  ASSUME "moved" \notin FaultsAt
  PROVE  Spec => []Restorable
<1>1. Init => Restorable
  BY DEF Init, Restorable, HashMatches
<1>2. IInv /\ Restorable /\ [Next]_vars => Restorable'
  <2> SUFFICES ASSUME IInv, Restorable, [Next]_vars, sup' = "off" PROVE latest' \subseteq files'
    BY DEF Restorable, HashMatches
  <2>1. CASE sup = "off"
    <3>1. latest \subseteq files
      BY <2>1 DEF Restorable, HashMatches
    <3>2. latest' = latest /\ files' = files
      BY <2>1 DEF Next, SupStep, Up, Replace, Relink, Clear, Glob, Link, PollAgain, Prune,
                  Resume, EndPause, Pause, Complete, FailGone, FailCall, Leave, Start, Refuse,
                  Advance, Exit, BeginImage, EndImage, Crash, Sigterm, CheckAlive, Touch,
                  HostDown, IInv, ImageInv, Waiting, vars, diskVars, supVars
    <3> QED BY <3>1, <3>2
  <2>2. CASE sup # "off"
    <3>1. Pause \/ Complete \/ FailGone \/ FailCall \/ HostDown
      BY <2>2 DEF Next, SupStep, Up, Replace, Relink, Clear, Glob, Link, PollAgain, Prune,
                  Resume, EndPause, Start, Refuse, Advance, Exit, BeginImage, EndImage, Crash,
                  Sigterm, CheckAlive, Touch, vars, diskVars, supVars
    <3>2. latest' = latest /\ files' = files
      BY <3>1 DEF Pause, Complete, FailGone, FailCall, Leave, HostDown, diskVars
    <3>3. sup # "moved"
      BY <3>1 DEF Pause, Complete, FailGone, FailCall, HostDown
    <3> QED BY <2>2, <3>2, <3>3 DEF IInv, LatestInv
  <2> QED BY <2>1, <2>2
<1> QED BY <1>1, <1>2, Invariance, PTL DEF Spec
================================================================================
