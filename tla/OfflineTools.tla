----------------------------- MODULE OfflineTools -----------------------------
(***************************************************************************)
(* What works around the collections, each in directories of its own: the   *)
(* migration of raw records, their analysis, the studies of the Pin tool,   *)
(* the preparation of inputs and the simulated run of a guest.  They share  *)
(* nothing that one of them changes, so a behaviour is of one of them.      *)
(***************************************************************************)
EXTENDS RawMigration, Sequences, FiniteSetsExt

CONSTANTS
  Tools,
  Words, Saturated, PageSizes, WordSizes, HotWords, Dumps, BlockSizes, Ks, Divisors,
  Cases, StudyFaults,
  Processes, Assets, Graphs, Tolerance, Errors, Launches, InputFaults,
  MaxTrials, MaxRequests, Room

ASSUME StudiesAssumption == Cases \in Nat /\ Cases >= 2
ASSUME InputsAssumption ==
  Graphs \in Nat \ {0} /\ Errors \in [1 .. Graphs -> Nat] /\ Tolerance \in Nat

VARIABLES
  tool,
  dump, block, reader, sums, prev, placed, verdict,
  study, report, runs, alive, graph, published, studyFaults,
  asset, sourceJson, attempts, inputRecord, process, launched, inputFaults,
  args, guest, trials, exits, switched, over, died, made, refused, bridge, queue, counted

Analysis == INSTANCE RawAnalysis
Pin == INSTANCE PinStudies
Inputs == INSTANCE InputPreparation WITH source <- sourceJson, record <- inputRecord
Guest == INSTANCE GuestRun

ASSUME AnalysisAssumption ==
  /\ Words \in Nat /\ Ks \subseteq Nat
  /\ BlockSizes \subseteq Nat \ {0} /\ Divisors \subseteq Nat \ {0}
  /\ \A d \in Dumps : d.recs \in Seq(Analysis!RawRecord)

\* A collection records a page because something touched it, which is an access
\* for each word touched.
ASSUME WrittenAssumption ==
  \A d \in Dumps : Analysis!WellFormed(d) =>
    \A i \in DOMAIN d.recs : LET r == d.recs[i] IN r.mask # {} /\ Analysis!Touched(r) <= r.acc

readVars == <<dump, block, reader, sums, prev, placed, verdict>>
studyVars == <<study, report, runs, alive, graph, published, studyFaults>>
inputVars == <<asset, sourceJson, attempts, inputRecord, process, launched, inputFaults>>
guestVars == <<args, guest, trials, exits, switched, over, died, made, refused, bridge, queue,
               counted>>
offlineVars == <<tool, moveVars, readVars, studyVars, inputVars, guestVars>>

\* A collection that is not complete is refused when it is opened.
NothingToAnalyse ==
  /\ \E d \in Dumps : ~d.summary.complete /\ Analysis!Open(d)
  /\ block = Min(BlockSizes)

\* The simulation that is not looked at is one of the default command line.
NothingToSimulate ==
  /\ Guest!Init /\ ~args.atRoi /\ args.stop = 4 /\ ~args.big /\ ~args.bounded

Init ==
  /\ tool \in Tools
  /\ MoveInit /\ Pin!Init /\ Inputs!Init
  /\ IF tool = "guest" THEN Guest!Init ELSE NothingToSimulate
  /\ IF tool = "analysis" THEN Analysis!Init ELSE NothingToAnalyse

Migrate ==
  /\ tool = "migration"
  /\ UNCHANGED <<tool, readVars, studyVars, inputVars, guestVars>>
  /\ MoveNext

Analyse ==
  /\ tool = "analysis"
  /\ UNCHANGED <<tool, moveVars, studyVars, inputVars, guestVars>>
  /\ Analysis!Next

Study ==
  /\ tool = "studies"
  /\ UNCHANGED <<tool, moveVars, readVars, inputVars, guestVars>>
  /\ Pin!Next

Prepare ==
  /\ tool = "inputs"
  /\ UNCHANGED <<tool, moveVars, readVars, studyVars, guestVars>>
  /\ Inputs!Next

Simulate ==
  /\ tool = "guest"
  /\ UNCHANGED <<tool, moveVars, readVars, studyVars, inputVars>>
  /\ Guest!Next

Next == Migrate \/ Analyse \/ Study \/ Prepare \/ Simulate

Spec == Init /\ [][Next]_offlineVars

--------------------------------------------------------------------------------
(* Properties: each is stated, with the code it is about, where its tool is;  *)
(* RawReachable is in module RawMigration.                                    *)

(* A dump is validated exactly if it is well-formed.                          *)
ValidatedIsWhole == Analysis!ValidatedIsWhole

(* The stream of windows gives what loading all records gives, or stands to   *)
(* it as SameTurnover says.                                                   *)
ModelsAgree == Analysis!ModelsAgree

(* Who sees the present does no worse than who sees the past.                 *)
OracleIsBest == Analysis!OracleIsBest

(* What the studies report of their runs is so, and stays so.                 *)
StudiesTruthful == Pin!StudiesTruthful

(* No earlier run of the profile takes part of the machine.                   *)
ProfiledAlone == Pin!ProfiledAlone

(* What a record of inputs names is there in full.                            *)
InputsAttested == Inputs!InputsAttested

(* The probes of a simulated run count each request of the region once.       *)
RoiMeasured == Guest!RoiMeasured
=============================================================================
