----------------------------- MODULE PinStudies -----------------------------
(***************************************************************************)
(* Three studies of the Pin tool, each a sequence of runs of run_paired     *)
(* under a deadline: validate_pin_scalability.py, validate_pin_real_input.py*)
(* ("pilot") and profile_pin_bottleneck.py, with publish_pin_bottleneck.py. *)
(* A run is a process group: its leader keeps the manifest, and waits for   *)
(* its target, the application under Pin, which can outlive it.  A study    *)
(* has a directory of its own and is not resumed.                           *)
(***************************************************************************)
EXTENDS Integers, Sequences

CONSTANTS Cases,       \* runs of a study, at least two: the first two have one thread
          StudyFaults  \* bounds signals, deadlines met, runs that fail or are refused

VARIABLES
  study,      \* the running study: its next step, its case and how that went
  report,     \* the saved reports: status and a row per case
  runs,       \* per study and case, the manifest and the outputs
  alive,      \* processes <<study, case, role>>
  graph,      \* the induced graph that the pilot makes and the profile takes
  published,  \* the profile's results are
  studyFaults

studyVars == <<study, report, runs, alive, graph, published, studyFaults>>

Studies == {"scaling", "pilot", "profile"}
CaseIds == 1 .. Cases
Off == [name |-> "none", pc |-> "off", case |-> 0, went |-> "none"]

Init ==
  /\ study = Off
  /\ report = [s \in Studies |-> [status |-> "none", rows |-> <<>>]]
  /\ runs = [s \in Studies |-> [c \in CaseIds |-> [manifest |-> "none", outputs |-> "none"]]]
  /\ alive = {}
  /\ graph = "none"
  /\ published = FALSE
  /\ studyFaults = 0

At(pc) == study.pc = pc
Leader == <<study.name, study.case, "leader">>
Group == {<<study.name, study.case, r>> : r \in {"leader", "target"}}
Fault == studyFaults < StudyFaults /\ studyFaults' = studyFaults + 1
Report(status) == report' = [report EXCEPT ![study.name].status = status]

--------------------------------------------------------------------------------
(* A run.                                                                     *)

Begins(s, c) ==
  /\ <<s, c, "leader">> \in alive /\ runs[s][c].manifest = "none"
  /\ runs' = [runs EXCEPT ![s][c].manifest = "running"]
  /\ alive' = alive \cup {<<s, c, "target">>}
  /\ UNCHANGED <<study, report, graph, published, studyFaults>>

TargetEnds(s, c) ==
  /\ <<s, c, "target">> \in alive
  /\ \/ runs' = [runs EXCEPT ![s][c].outputs = "whole"] /\ UNCHANGED studyFaults
     \/ runs' = [runs EXCEPT ![s][c].outputs = "part"] /\ Fault
  /\ alive' = alive \ {<<s, c, "target">>}
  /\ UNCHANGED <<study, report, graph, published>>

\* It refuses to start, or ends with the manifest, and with 0 if complete.
LeaderEnds(s, c) ==
  /\ <<s, c, "leader">> \in alive /\ <<s, c, "target">> \notin alive
  /\ IF runs[s][c].manifest = "none" THEN Fault ELSE UNCHANGED studyFaults
  /\ runs' = [runs EXCEPT ![s][c].manifest =
                CASE @ = "none" -> "none"
                  [] @ = "running" -> IF runs[s][c].outputs = "whole" THEN "complete"
                                      ELSE "failed"]
  /\ alive' = alive \ {<<s, c, "leader">>}
  /\ UNCHANGED <<study, report, graph, published>>

--------------------------------------------------------------------------------
(* A study.                                                                   *)

Start(s) ==
  /\ At("off") /\ report[s].status = "none"
  /\ study' = [Off EXCEPT !.name = s, !.pc = "check"]
  /\ report' = [report EXCEPT ![s].status = "running"]
  /\ UNCHANGED <<runs, alive, graph, published, studyFaults>>

\* The gate of the pilot: the whole scaling study has passed.
Gate ==
  /\ report["scaling"].status = "passed"
  /\ Len(report["scaling"].rows) = Cases
  /\ \A c \in CaseIds : report["scaling"].rows[c] = "audited"

\* What a study wants first: equal outputs on a fixture and a guarded option, the
\* gate, or its graph; the tools and inputs must be those it was written for.
Wanted == CASE study.name = "scaling" -> TRUE
            [] study.name = "pilot" -> Gate
            [] study.name = "profile" -> graph = "whole"

Check ==
  /\ At("check")
  /\ \/ /\ Wanted
        /\ study' = [study EXCEPT !.pc = IF study.name = "pilot" THEN "induce" ELSE "case",
                                  !.case = 1]
        /\ UNCHANGED report
        /\ UNCHANGED studyFaults
     \/ study' = Off /\ Report("failed") /\ Fault
  /\ UNCHANGED <<runs, alive, graph, published>>

\* The pilot's graph, and the native runs on it, which must count alike.
Induce ==
  /\ At("induce")
  /\ \/ /\ graph' = "whole" /\ study' = [study EXCEPT !.pc = "case"]
        /\ UNCHANGED <<report, studyFaults>>
     \/ graph' \in {"part", "whole"} /\ study' = Off /\ Report("failed") /\ Fault
  /\ UNCHANGED <<runs, alive, published>>

Launch ==
  /\ At("case")
  /\ alive' = alive \cup {Leader}
  /\ study' = [study EXCEPT !.pc = "wait"]
  /\ UNCHANGED <<report, runs, graph, published, studyFaults>>

\* Mutant: who outlives the leader is left alone, as by the other studies.
SweptNever(s) == {}

\* Who is killed when the profile has its case: perf ends before what it records.
Swept(s) == IF s = "profile" THEN Group ELSE {}

Reap ==
  /\ At("wait") /\ Leader \notin alive
  /\ alive' = alive \ Swept(study.name)
  /\ study' = [study EXCEPT !.pc = "settle",
                 !.went = IF runs[study.name][study.case].manifest = "complete"
                          THEN "complete" ELSE "failed"]
  /\ UNCHANGED <<report, runs, graph, published, studyFaults>>

Deadline ==
  /\ At("wait") /\ Leader \in alive /\ Fault
  /\ study' = [study EXCEPT !.pc = "deadline"]
  /\ UNCHANGED <<report, runs, alive, graph, published>>

\* SIGTERM to the group.  The leader ends of it, if it has not ended by itself;
\* who else is left then is killed with the leader, or lives on.
Terminate ==
  /\ At("deadline")
  /\ \E left \in SUBSET ((alive \cap Group) \ {Leader}) :
        alive' = (alive \ Group) \cup (left \ Swept(study.name))
  /\ study' = [study EXCEPT !.pc = "settle", !.went = "cut"]
  /\ UNCHANGED <<report, runs, graph, published, studyFaults>>

\* Mutant: only a manifest that still says running.
MarkRunning(m) == IF m = "running" THEN "interrupted" ELSE m

\* The pilot and the profile mark a run they cut, whatever its manifest says.
Mark(m) == IF m = "none" THEN "none" ELSE "interrupted"

Marked == study.went = "cut" /\ study.name # "scaling"
NextCase == study' = IF study.case = Cases THEN [study EXCEPT !.pc = "end"]
            ELSE [study EXCEPT !.pc = "case", !.case = @ + 1]

\* A complete run is audited; the profile is over at the first that failed, and
\* so is the pilot at an audit that does.
Settle ==
  /\ At("settle")
  /\ runs' = IF Marked THEN [runs EXCEPT ![study.name][study.case].manifest = Mark(@)]
             ELSE runs
  /\ \E row \in IF study.went = "complete" THEN {"audited", "audit failed"} ELSE {study.went} :
       LET stops == \/ study.name # "scaling" /\ row = "audit failed"
                    \/ study.name = "profile" /\ row = "failed"
       IN  /\ row = "audited" => runs[study.name][study.case].outputs = "whole"
           /\ IF row = "audit failed" THEN Fault ELSE UNCHANGED studyFaults
           /\ report' = [report EXCEPT ![study.name].rows = Append(@, row),
                                       ![study.name].status = IF stops THEN "failed" ELSE @]
           /\ IF stops THEN study' = Off ELSE NextCase
  /\ UNCHANGED <<alive, graph, published>>

AllAudited == \A c \in CaseIds : report[study.name].rows[c] = "audited"

\* The profile takes what it has got; the others pass if all is audited.  The
\* one-thread outputs of pilot and profile may differ.
End ==
  /\ At("end")
  /\ \E equal \in BOOLEAN :
       Report(CASE study.name = "profile" -> IF equal THEN "completed" ELSE "completed, unequal"
                [] study.name = "scaling" -> IF AllAudited THEN "passed" ELSE "incomplete"
                [] study.name = "pilot" -> IF AllAudited /\ equal THEN "passed" ELSE "incomplete")
  /\ study' = Off
  /\ UNCHANGED <<runs, alive, graph, published, studyFaults>>

\* derive: the one-thread runs are audited again, all others must have been cut.
Publish ==
  /\ At("off") /\ ~published
  /\ report["profile"].status = "completed"
  /\ \A c \in CaseIds :
        IF c <= 2 THEN /\ report["profile"].rows[c] = "audited"
                       /\ runs["profile"][c] = [manifest |-> "complete", outputs |-> "whole"]
                  ELSE /\ report["profile"].rows[c] = "cut"
                       /\ runs["profile"][c].manifest = "interrupted"
  /\ published' = TRUE
  /\ UNCHANGED <<study, report, runs, alive, graph, studyFaults>>

\* The scaling study just ends, as any does of SIGKILL; of SIGTERM the others kill
\* their run (the pilot's only while it has a leader) and save the report.
Stop ==
  /\ ~At("off") /\ Fault
  /\ study' = Off
  /\ \/ UNCHANGED <<report, alive>>
     \/ /\ study.name # "scaling"
        /\ Report("interrupted")
        /\ alive' = IF study.name = "profile" \/ Leader \in alive THEN alive \ Group
                    ELSE alive
  /\ runs' \in {runs} \cup (IF At("settle") /\ Marked
                            THEN {[runs EXCEPT ![study.name][study.case].manifest = m] :
                                    m \in {Mark(runs[study.name][study.case].manifest), "torn"}}
                            ELSE {})
  /\ graph' \in IF At("induce") THEN {"none", "part", "whole"} ELSE {graph}
  /\ UNCHANGED published

Next ==
  \/ \E s \in Studies : Start(s)
  \/ Check \/ Induce \/ Launch \/ Reap \/ Deadline \/ Terminate \/ Settle \/ End
  \/ Publish \/ Stop
  \/ \E s \in Studies, c \in CaseIds : Begins(s, c) \/ TargetEnds(s, c) \/ LeaderEnds(s, c)

--------------------------------------------------------------------------------
(***************************************************************************)
(* What the reports say is so, and stays so whatever outlives its study: an *)
(* audited case has a complete manifest and whole outputs, a case that the  *)
(* pilot or the profile cut is not complete (run_paired may have finished   *)
(* it just before the signal), and a published profile is of such cases.    *)
(***************************************************************************)
StudiesTruthful ==
  /\ \A s \in Studies : \A c \in DOMAIN report[s].rows :
        /\ report[s].rows[c] = "audited" =>
              runs[s][c] = [manifest |-> "complete", outputs |-> "whole"]
        /\ report[s].rows[c] = "cut" /\ s # "scaling" =>
              runs[s][c].manifest \in {"none", "interrupted"}
  /\ published => \A c \in CaseIds : runs["profile"][c].manifest =
                                       IF c <= 2 THEN "complete" ELSE "interrupted"

(***************************************************************************)
(* While the profile samples a case no process of its earlier cases takes   *)
(* part of the machine, although the recorder can end before what it        *)
(* records (profile_pin_bottleneck.py:107).  Of the other studies' cases a  *)
(* target may: their deadlines wait for the leader only.                    *)
(***************************************************************************)
ProfiledAlone ==
  study.name = "profile" =>
    \A p \in alive : p[1] = "profile" => p[2] = study.case
=============================================================================
