----------------------------- MODULE OfflineProofs -----------------------------
(***************************************************************************)
(* What holds of the tools around the collections whatever their files,     *)
(* cases, graphs and requests, and however often they are interrupted.      *)
(***************************************************************************)
EXTENDS OfflineTools, FiniteSetTheorems, FunctionTheorems, SequenceTheorems, WellFoundedInduction, TLAPS

\* A set of natural numbers that is not empty has a least element.
LEMMA LeastOf ==
  ASSUME NEW S, S \subseteq Nat, S # {}
  PROVE  \E m \in S : \A x \in S : m <= x
<1>1. PICK m \in S : \A y \in S : ~ (<<y, m>> \in OpToRel(<, Nat))
  BY NatLessThanWellFounded, WFMin
<1>2. ASSUME NEW y \in S PROVE m <= y
  <2>1. y \in Nat /\ m \in Nat
    OBVIOUS
  <2>2. <<y, m>> \in Nat \X Nat /\ <<y, m>>[1] = y /\ <<y, m>>[2] = m
    BY <2>1
  <2>3. y < m => <<y, m>> \in OpToRel(<, Nat)
    BY <2>2, Zenon DEF OpToRel
  <2>4. ~ (y < m)
    BY <1>1, <2>3, Zenon
  <2> QED BY <2>1, <2>4
<1> QED BY <1>2

--------------------------------------------------------------------------------
(* migrate_raw_storage.py                                                     *)

MovePcs == {"off", "scan", "copy", "verify", "link", "swap", "record"}

MoveTypes ==
  /\ source \in [Files -> {"file", "link"}]
  /\ link \in [Files -> BOOLEAN]
  /\ partial \in [Files -> Copies]
  /\ target \in [Files -> Copies]
  /\ record \in [Files -> BOOLEAN]
  /\ mover \in [pc : MovePcs, file : SUBSET Files, todo : SUBSET Files]

\* The target is in place as soon as the script turns to the source.
TargetFirst ==
  /\ \A f \in Files : source[f] = "link" => target[f] = "whole"
  /\ \A f \in Files : record[f] => source[f] = "link"
  /\ \A f \in mover.file : mover.pc \in {"link", "swap"} => target[f] = "whole"
  /\ \A f \in mover.file : mover.pc = "record" => source[f] = "link"

MoveInv == MoveTypes /\ TargetFirst

LEMMA InitMoves == MoveInit => MoveInv
  BY DEF MoveInit, MoveInv, MoveTypes, TargetFirst, Copies, Gone, MovePcs

LEMMA StepMoves == MoveInv /\ [MoveNext]_moveVars => MoveInv'
<1> SUFFICES ASSUME MoveInv, [MoveNext]_moveVars PROVE MoveInv'
  OBVIOUS
<1> USE DEF MoveInv, MoveTypes, TargetFirst, MovePcs, Copies, Gone, Then, Moving
<1>1. CASE Start
  BY <1>1 DEF Start
<1>2. CASE Done
  BY <1>2 DEF Done
<1>3. CASE Kill
  BY <1>3 DEF Kill
<1>4. ASSUME NEW f \in Files, Take(f) PROVE MoveInv'
  <2>1. UNCHANGED <<source, link, partial, target, record>>
    BY <1>4 DEF Take
  <2>2. CASE source[f] = "link"
    <3>1. mover' = [pc |-> "scan", file |-> {f}, todo |-> mover.todo \ {f}]
      BY <1>4, <2>2 DEF Take
    <3> QED BY <2>1, <3>1
  <2>3. CASE source[f] = "file" /\ target[f] = "none"
    <3>1. mover' = [pc |-> "copy", file |-> {f}, todo |-> mover.todo \ {f}]
      BY <1>4, <2>3 DEF Take
    <3> QED BY <2>1, <3>1
  <2>4. CASE source[f] = "file" /\ target[f] = "whole"
    <3>1. mover' = [pc |-> "link", file |-> {f}, todo |-> mover.todo \ {f}]
      BY <1>4, <2>4 DEF Take
    <3> QED BY <2>1, <2>4, <3>1
  <2>5. CASE source[f] = "file" /\ target[f] = "bad"
    <3>1. mover' = Gone
      BY <1>4, <2>5 DEF Take
    <3> QED BY <2>1, <3>1
  <2> QED BY <2>2, <2>3, <2>4, <2>5
<1>5. ASSUME NEW f \in Files, Copy(f) PROVE MoveInv'
  BY <1>5 DEF Copy
<1>6. ASSUME NEW f \in Files, Verify(f) PROVE MoveInv'
  <2>1. CASE Copied(f)
    BY <1>6, <2>1 DEF Verify, Copied
  <2>2. CASE ~Copied(f)
    BY <1>6, <2>2 DEF Verify
  <2> QED BY <2>1, <2>2
<1>7. ASSUME NEW f \in Files, MakeLink(f) PROVE MoveInv'
  <2>1. UNCHANGED <<source, partial, target, record>> /\ mover.pc = "link" /\ mover.file = {f}
    BY <1>7 DEF MakeLink
  <2>2. CASE link[f]
    BY <1>7, <2>1, <2>2 DEF MakeLink
  <2>3. CASE ~link[f]
    <3>1. link' = [link EXCEPT ![f] = TRUE] /\ mover' = [mover EXCEPT !.pc = "swap"]
      BY <1>7, <2>3 DEF MakeLink
    <3>2. mover'.pc = "swap" /\ mover'.file = mover.file
      BY <3>1
    <3>3. MoveTypes'
      BY <2>1, <3>1
    <3> QED BY <2>1, <3>1, <3>2, <3>3
  <2> QED BY <2>2, <2>3
<1>8. ASSUME NEW f \in Files, Swap(f) PROVE MoveInv'
  BY <1>8 DEF Swap
<1>9. ASSUME NEW f \in Files, Record(f) PROVE MoveInv'
  BY <1>9 DEF Record
<1>10. CASE UNCHANGED moveVars
  BY <1>10 DEF moveVars
<1> QED BY <1>1, <1>2, <1>3, <1>4, <1>5, <1>6, <1>7, <1>8, <1>9, <1>10 DEF MoveNext

LEMMA MovesAreSafe == MoveInv => RawReachable
  BY DEF MoveInv, MoveTypes, TargetFirst, RawReachable, Read

LEMMA InitMovesToo == Init => MoveInv
  BY InitMoves DEF Init

\* The other tools leave its files alone.
LEMMA MigrationStep == MoveInv /\ [Next]_offlineVars => MoveInv'
  <1>1. [Next]_offlineVars => [MoveNext]_moveVars
    BY DEF Next, Migrate, Analyse, Study, Prepare, Simulate, offlineVars
  <1> QED
    BY <1>1, StepMoves

(***************************************************************************)
(* No kill of migrate_raw_storage.py, and no number of them, leaves a raw   *)
(* file that cannot be read in full at its original path.                   *)
(***************************************************************************)
THEOREM RawStaysReachable == Spec => []RawReachable
  <1>1. Spec => []MoveInv
    BY InitMovesToo, MigrationStep, PTL DEF Spec
  <1> QED
    BY <1>1, MovesAreSafe, PTL

--------------------------------------------------------------------------------
(* The studies of the Pin tool.                                               *)

Roles == {"leader", "target"}
Manifests == {"none", "running", "complete", "failed", "interrupted", "torn"}
Outputs == {"none", "part", "whole"}
PinRun == [manifest : Manifests, outputs : Outputs]
RowStates == {"audited", "audit failed", "failed", "cut"}
Statuses == {"none", "running", "passed", "incomplete", "completed", "completed, unequal", "failed",
             "interrupted"}
StudyPcs == {"off", "check", "induce", "case", "wait", "deadline", "settle", "end"}

PinTypes ==
  /\ study \in [name : Pin!Studies \cup {"none"}, pc : StudyPcs, case : Nat,
                went : {"none", "complete", "failed", "cut"}]
  /\ report \in [Pin!Studies -> [status : Statuses, rows : Seq(RowStates)]]
  /\ runs \in [Pin!Studies -> [Pin!CaseIds -> PinRun]]
  /\ alive \subseteq Pin!Studies \X Pin!CaseIds \X Roles

Led(s, c) == <<s, c, "leader">> \in alive
Live(s, c) == \E r \in Roles : <<s, c, r>> \in alive

\* A study has a row for each case before the one in its hand.
PinPlaced ==
  IF study.pc = "off" THEN study.name = "none"
  ELSE /\ study.name \in Pin!Studies /\ report[study.name].status = "running"
       /\ study.pc # "check" => study.case \in Pin!CaseIds
       /\ study.pc = "check" => study.case = 0
       /\ study.pc = "induce" => study.case = 1
       /\ study.pc \in {"check", "induce"} => Len(report[study.name].rows) = 0
       /\ study.pc \in {"case", "wait", "deadline", "settle"} =>
             Len(report[study.name].rows) = study.case - 1
       /\ study.pc = "end" => Len(report[study.name].rows) = Cases
       /\ study.pc = "settle" =>
             /\ ~Led(study.name, study.case) /\ study.went # "none"
             /\ study.went = "complete" => runs[study.name][study.case].manifest = "complete"

Unlaunched(s, c) ==
  IF study.name = s THEN c > study.case \/ (c = study.case /\ study.pc \in {"induce", "case"})
  ELSE report[s].status = "none"

\* Nobody runs, or can still change a complete run, without having been launched.
PinRuns ==
  \A s \in Pin!Studies : \A c \in Pin!CaseIds :
     /\ Unlaunched(s, c) => runs[s][c].manifest = "none" /\ ~Live(s, c)
     /\ runs[s][c].manifest = "complete" => ~Live(s, c)
     /\ Led(s, c) => runs[s][c].manifest \in {"none", "running"}

\* What has a row is over, and what the row says of it is so.
PinRows ==
  \A s \in Pin!Studies :
     /\ Len(report[s].rows) <= Cases
     /\ report[s].status = "completed" => Len(report[s].rows) = Cases
     /\ report[s].status = "none" => Len(report[s].rows) = 0
     /\ \A c \in DOMAIN report[s].rows :
          /\ ~Led(s, c)
          /\ report[s].rows[c] = "audited" =>
                runs[s][c] = [manifest |-> "complete", outputs |-> "whole"]
          /\ report[s].rows[c] = "cut" /\ s # "scaling" =>
                runs[s][c].manifest \in {"none", "interrupted"}

\* Between the cases of the profile nothing of it runs.
PinAlone ==
  study.name = "profile" =>
     \A c \in Pin!CaseIds : Live("profile", c) =>
        c = study.case /\ study.pc \in {"wait", "deadline"}

PinPublished ==
  published =>
    /\ report["profile"].status = "completed"
    /\ \A c \in Pin!CaseIds : runs["profile"][c].manifest =
                                IF c <= 2 THEN "complete" ELSE "interrupted"

PinInv == PinTypes /\ PinPlaced /\ PinRuns /\ PinRows /\ PinAlone /\ PinPublished

LEMMA PinBegins == Pin!Init => PinInv
  <1> SUFFICES ASSUME Pin!Init
               PROVE  PinInv
    OBVIOUS
  <1>1. /\ study.name = "none" /\ study.pc = "off" /\ study.case = 0 /\ study.went = "none"
        /\ study \in [name : Pin!Studies \cup {"none"}, pc : StudyPcs, case : Nat,
                      went : {"none", "complete", "failed", "cut"}]
    BY DEF Pin!Init, Pin!Off, StudyPcs
  <1>2. PinTypes
    BY <1>1 DEF Pin!Init, PinTypes, PinRun, Manifests, Outputs, Statuses
  <1>3. \A s \in Pin!Studies : \A c \in Pin!CaseIds : runs[s][c].manifest = "none" /\ ~Live(s, c)
    BY DEF Pin!Init, Live
  <1>4. \A s \in Pin!Studies : report[s].status = "none" /\ report[s].rows = <<>>
    BY DEF Pin!Init
  <1>5. Cases \in Nat
    BY StudiesAssumption
  <1>6. PinPlaced /\ PinAlone /\ PinPublished
    BY <1>1 DEF Pin!Init, PinPlaced, PinAlone, PinPublished
  <1>7. PinRuns /\ PinRows
    BY <1>3, <1>4, <1>5 DEF PinRuns, PinRows, Led, Live, Roles
  <1> QED
    BY <1>2, <1>6, <1>7 DEF PinInv

\* A step of one run, which has been launched and has no row yet unless it is the
\* target that ends.
LEMMA RunSteps ==
    ASSUME PinInv, UNCHANGED <<study, report, published>>,
           NEW s \in Pin!Studies, NEW c \in Pin!CaseIds, Live(s, c), PinTypes',
           \A t \in Pin!Studies, d \in Pin!CaseIds :
              t # s \/ d # c => runs'[t][d] = runs[t][d],
           \A t \in Pin!Studies, d \in Pin!CaseIds, r \in Roles :
              (t # s \/ d # c) /\ <<t, d, r>> \in alive' => <<t, d, r>> \in alive,
           runs'[s][c].manifest = "complete" => ~Live(s, c)',
           Led(s, c)' => Led(s, c) /\ runs'[s][c].manifest \in {"none", "running"},
           runs'[s][c].manifest = runs[s][c].manifest \/ Led(s, c)
    PROVE  PinInv'
  <1>1. PinTypes /\ PinPlaced /\ PinRuns /\ PinRows /\ PinAlone /\ PinPublished
    BY DEF PinInv
  <1>2. \A t \in Pin!Studies, d \in Pin!CaseIds : Led(t, d)' => Led(t, d)
    BY DEF Led, Roles
  <1>3. \A t \in Pin!Studies, d \in Pin!CaseIds : Live(t, d)' => Live(t, d)
    BY DEF Live
  <1>4. \A t \in Pin!Studies, d \in Pin!CaseIds : Unlaunched(t, d)' <=> Unlaunched(t, d)
    BY DEF Unlaunched
  <1>5. PinPlaced'
    BY <1>1, <1>2 DEF PinPlaced
  <1>6. PinRuns'
    BY <1>1, <1>2, <1>3, <1>4 DEF PinRuns
  <1>7. c \in DOMAIN report[s].rows => ~Led(s, c) /\ report[s].rows[c] # "audited"
    BY <1>1 DEF PinRows, PinRuns
  <1>8. \A t \in Pin!Studies : \A d \in DOMAIN report[t].rows : d \in Pin!CaseIds
    BY <1>1, StudiesAssumption DEF PinTypes, PinRows, Pin!CaseIds
  <1>9. PinRows'
    BY <1>1, <1>2, <1>7, <1>8 DEF PinRows
  <1>10. PinAlone'
    BY <1>1, <1>3 DEF PinAlone, Pin!Studies
  <1>11. PinPublished'
    <2> SUFFICES ASSUME published
                 PROVE  PinPublished'
      BY DEF PinPublished
    <2>1. "profile" \in Pin!Studies /\ DOMAIN report["profile"].rows = Pin!CaseIds
      BY <1>1, StudiesAssumption DEF PinPublished, PinRows, PinTypes, Pin!Studies, Pin!CaseIds
    <2>2. runs'[s][c].manifest = runs[s][c].manifest \/ s # "profile"
      BY <1>7, <2>1
    <2> QED
      BY <1>1, <2>1, <2>2 DEF PinPublished
  <1> QED
    BY <1>1, <1>5, <1>6, <1>9, <1>10, <1>11 DEF PinInv

LEMMA BeginsKeeps ==
    ASSUME PinInv, NEW s \in Pin!Studies, NEW c \in Pin!CaseIds, Pin!Begins(s, c)
    PROVE  PinInv'
  <1>1. /\ runs \in [Pin!Studies -> [Pin!CaseIds -> PinRun]] /\ PinTypes
        /\ Led(s, c) /\ UNCHANGED <<study, report, published>>
        /\ runs' = [runs EXCEPT ![s][c].manifest = "running"]
        /\ alive' = alive \cup {<<s, c, "target">>}
    BY DEF Pin!Begins, PinInv, PinTypes, Led
  <1>2. "running" \in Manifests
    BY DEF Manifests
  <1>3. /\ runs' \in [Pin!Studies -> [Pin!CaseIds -> PinRun]]
        /\ runs'[s][c].manifest = "running"
        /\ \A t \in Pin!Studies, d \in Pin!CaseIds : t # s \/ d # c => runs'[t][d] = runs[t][d]
    BY <1>1, <1>2 DEF PinRun
  <1>4. PinTypes'
    BY <1>1, <1>3 DEF PinTypes, Roles
  <1>5. /\ Live(s, c)
        /\ \A t \in Pin!Studies, d \in Pin!CaseIds, r \in Roles :
              (t # s \/ d # c) /\ <<t, d, r>> \in alive' => <<t, d, r>> \in alive
    BY <1>1 DEF Led, Live, Roles
  <1> QED
    BY <1>1, <1>3, <1>4, <1>5, RunSteps

LEMMA TargetEndsKeeps ==
    ASSUME PinInv, NEW s \in Pin!Studies, NEW c \in Pin!CaseIds, Pin!TargetEnds(s, c)
    PROVE  PinInv'
  <1>1. /\ runs \in [Pin!Studies -> [Pin!CaseIds -> PinRun]] /\ PinTypes /\ PinRuns
        /\ <<s, c, "target">> \in alive /\ UNCHANGED <<study, report, published>>
        /\ alive' = alive \ {<<s, c, "target">>}
    BY DEF Pin!TargetEnds, PinInv, PinTypes
  <1>2. PICK o \in Outputs : runs' = [runs EXCEPT ![s][c].outputs = o]
    BY DEF Pin!TargetEnds, Outputs
  <1>3. /\ runs' \in [Pin!Studies -> [Pin!CaseIds -> PinRun]]
        /\ runs'[s][c].manifest = runs[s][c].manifest
        /\ \A t \in Pin!Studies, d \in Pin!CaseIds : t # s \/ d # c => runs'[t][d] = runs[t][d]
    BY <1>1, <1>2 DEF PinRun
  <1>4. PinTypes'
    BY <1>1, <1>3 DEF PinTypes
  <1>5. /\ Live(s, c) /\ runs[s][c].manifest # "complete"
        /\ \A t \in Pin!Studies, d \in Pin!CaseIds, r \in Roles :
              <<t, d, r>> \in alive' => <<t, d, r>> \in alive
    BY <1>1 DEF Live, Roles, PinRuns
  <1>6. Led(s, c)' => Led(s, c) /\ runs'[s][c].manifest \in {"none", "running"}
    BY <1>1, <1>3 DEF Led, PinRuns
  <1> QED
    BY <1>1, <1>3, <1>4, <1>5, <1>6, RunSteps

LEMMA LeaderEndsKeeps ==
    ASSUME PinInv, NEW s \in Pin!Studies, NEW c \in Pin!CaseIds, Pin!LeaderEnds(s, c)
    PROVE  PinInv'
  <1>1. /\ runs \in [Pin!Studies -> [Pin!CaseIds -> PinRun]] /\ PinTypes /\ PinRuns
        /\ Led(s, c) /\ <<s, c, "target">> \notin alive /\ UNCHANGED <<study, report, published>>
        /\ alive' = alive \ {<<s, c, "leader">>}
    BY DEF Pin!LeaderEnds, PinInv, PinTypes, Led
  <1> DEFINE m == CASE runs[s][c].manifest = "none" -> "none"
                    [] runs[s][c].manifest = "running" ->
                         IF runs[s][c].outputs = "whole" THEN "complete" ELSE "failed"
  <1>2. runs' = [runs EXCEPT ![s][c].manifest = m]
    BY DEF Pin!LeaderEnds
  <1>3. m \in {"none", "complete", "failed"}
    <2>1. CASE runs[s][c].manifest = "none"
      BY <2>1
    <2>2. CASE runs[s][c].manifest = "running"
      BY <2>2
    <2> QED
      BY <1>1, <2>1, <2>2 DEF PinRuns
  <1> HIDE DEF m
  <1>4. /\ runs' \in [Pin!Studies -> [Pin!CaseIds -> PinRun]]
        /\ \A t \in Pin!Studies, d \in Pin!CaseIds : t # s \/ d # c => runs'[t][d] = runs[t][d]
    <2>1. PICK n \in Manifests : n = m
      BY <1>3 DEF Manifests
    <2>2. runs' = [runs EXCEPT ![s][c].manifest = n]
      BY <1>2, <2>1
    <2> QED
      BY <1>1, <2>1, <2>2 DEF PinRun
  <1>5. PinTypes'
    BY <1>1, <1>4 DEF PinTypes
  <1>6. /\ Live(s, c) /\ ~Live(s, c)' /\ ~Led(s, c)'
        /\ \A t \in Pin!Studies, d \in Pin!CaseIds, r \in Roles :
              <<t, d, r>> \in alive' => <<t, d, r>> \in alive
    BY <1>1 DEF Live, Led, Roles
  <1> QED
    BY <1>1, <1>4, <1>5, <1>6, RunSteps

\* A step of a study, which starts no run, and marks at most the one it settles.
MarksAtMost ==
  \A s \in Pin!Studies, c \in Pin!CaseIds :
     \/ runs'[s][c] = runs[s][c]
     \/ /\ study.pc = "settle" /\ study.name = s /\ study.case = c
        /\ runs'[s][c].manifest # "complete"

LEMMA StudySteps ==
    ASSUME PinInv, PinTypes', PinPlaced', UNCHANGED published, alive' \subseteq alive, MarksAtMost,
           \A s \in Pin!Studies :
              /\ report'[s].rows = report[s].rows
              /\ report'[s].status = "none" => report[s].status = "none"
              /\ report'[s].status = "completed" /\ report[s].status # "completed" =>
                    Len(report[s].rows) = Cases,
           published => report'["profile"].status = "completed",
           \A s \in Pin!Studies, c \in Pin!CaseIds : Unlaunched(s, c)' => Unlaunched(s, c),
           PinAlone'
    PROVE  PinInv'
  <1>1. PinTypes /\ PinPlaced /\ PinRuns /\ PinRows /\ PinAlone /\ PinPublished
    BY DEF PinInv
  <1>2. \A s \in Pin!Studies, c \in Pin!CaseIds : (Led(s, c)' => Led(s, c)) /\ (Live(s, c)' => Live(s, c))
    BY DEF Led, Live
  <1>3. \A s \in Pin!Studies, c \in Pin!CaseIds :
           runs'[s][c] # runs[s][c] =>
             /\ study.pc = "settle" /\ study.name = s /\ study.case = c
             /\ runs'[s][c].manifest # "complete"
             /\ ~Led(s, c) /\ ~Unlaunched(s, c) /\ c \notin DOMAIN report[s].rows
             /\ report[s].status = "running"
    <2> SUFFICES ASSUME NEW s \in Pin!Studies, NEW c \in Pin!CaseIds, runs'[s][c] # runs[s][c]
                 PROVE  /\ study.pc = "settle" /\ study.name = s /\ study.case = c
                        /\ runs'[s][c].manifest # "complete"
                        /\ ~Led(s, c) /\ ~Unlaunched(s, c) /\ c \notin DOMAIN report[s].rows
                        /\ report[s].status = "running"
      OBVIOUS
    <2>1. /\ study.pc = "settle" /\ study.name = s /\ study.case = c
          /\ runs'[s][c].manifest # "complete"
      BY DEF MarksAtMost
    <2>2. /\ ~Led(s, c) /\ report[s].status = "running" /\ Len(report[s].rows) = c - 1
      BY <1>1, <2>1 DEF PinPlaced
    <2>3. c \in Nat
      BY StudiesAssumption DEF Pin!CaseIds
    <2>4. ~Unlaunched(s, c)
      BY <2>1, <2>3 DEF Unlaunched
    <2>5. c \notin DOMAIN report[s].rows
      BY <1>1, <2>2, <2>3 DEF PinTypes
    <2> QED
      BY <2>1, <2>2, <2>4, <2>5
  <1>4. PinRuns'
    BY <1>1, <1>2, <1>3 DEF PinRuns
  <1>5. \A s \in Pin!Studies : \A c \in DOMAIN report[s].rows : c \in Pin!CaseIds
    BY <1>1, StudiesAssumption DEF PinTypes, PinRows, Pin!CaseIds
  <1>6. PinRows'
    BY <1>1, <1>2, <1>3, <1>5 DEF PinRows
  <1>7. PinPublished'
    <2>1. published => \A c \in Pin!CaseIds : runs'["profile"][c] = runs["profile"][c]
      BY <1>1, <1>3 DEF PinPublished, Pin!Studies
    <2> QED
      BY <1>1, <2>1 DEF PinPublished
  <1> QED
    BY <1>4, <1>6, <1>7 DEF PinInv

StudyState == [name : Pin!Studies \cup {"none"}, pc : StudyPcs, case : Nat,
               went : {"none", "complete", "failed", "cut"}]

\* Only the status of the study at work is saved.
LEMMA SavesReport ==
    ASSUME PinTypes, study.name \in Pin!Studies, NEW status \in Statuses, Pin!Report(status)
    PROVE  /\ report' \in [Pin!Studies -> [status : Statuses, rows : Seq(RowStates)]]
           /\ report'[study.name].status = status
           /\ \A s \in Pin!Studies : report'[s].rows = report[s].rows
           /\ \A s \in Pin!Studies : s # study.name => report'[s] = report[s]
  BY DEF PinTypes, Pin!Report

LEMMA PinOff ==
    Pin!Off \in StudyState /\ Pin!Off.pc = "off" /\ Pin!Off.name = "none"
  BY DEF Pin!Off, StudyState, StudyPcs

\* A study that is at work.
LEMMA AtWork ==
    ASSUME PinInv, study.pc # "off"
    PROVE  /\ study \in StudyState /\ study.name \in Pin!Studies /\ study.case \in Nat
           /\ report[study.name].status = "running"
           /\ study.pc # "check" => study.case \in Pin!CaseIds
           /\ \A s \in Pin!Studies : report[s] \in [status : Statuses, rows : Seq(RowStates)]
  BY DEF PinInv, PinTypes, PinPlaced, StudyState

\* A study ends, with its report saved or not.
LEMMA StudyEnds ==
    ASSUME PinInv, study.pc # "off", study' = Pin!Off, UNCHANGED published, alive' \subseteq alive,
           runs' \in [Pin!Studies -> [Pin!CaseIds -> PinRun]], MarksAtMost,
           \/ UNCHANGED report
           \/ \E status \in Statuses \ {"none"} :
                 /\ Pin!Report(status)
                 /\ status = "completed" => Len(report[study.name].rows) = Cases
    PROVE  PinInv'
  <1>1. PinTypes /\ PinPlaced /\ PinPublished /\ study.name \in Pin!Studies
        /\ report[study.name].status = "running"
    BY AtWork DEF PinInv
  <1>2. /\ report' \in [Pin!Studies -> [status : Statuses, rows : Seq(RowStates)]]
        /\ \A s \in Pin!Studies : /\ report'[s].rows = report[s].rows
                                  /\ s # study.name => report'[s] = report[s]
        /\ report'[study.name].status # "none"
        /\ report'[study.name].status = "completed" => Len(report[study.name].rows) = Cases
    <2>1. CASE UNCHANGED report
      BY <1>1, <2>1 DEF PinTypes
    <2>2. CASE ~UNCHANGED report
      <3>1. PICK status \in Statuses \ {"none"} :
               /\ Pin!Report(status)
               /\ status = "completed" => Len(report[study.name].rows) = Cases
        BY <2>2
      <3> QED
        BY <1>1, <3>1, SavesReport
    <2> QED
      BY <2>1, <2>2
  <1>3. PinTypes'
    BY <1>1, <1>2, PinOff DEF PinTypes, StudyState
  <1>4. PinPlaced' /\ PinAlone'
    BY PinOff DEF PinPlaced, PinAlone
  <1>5. \A s \in Pin!Studies, c \in Pin!CaseIds : Unlaunched(s, c)' => Unlaunched(s, c)
    BY <1>2, PinOff DEF Unlaunched, Pin!Studies
  <1>6. published => report'["profile"].status = "completed"
    BY <1>1, <1>2 DEF PinPublished, Pin!Studies
  <1>7. \A s \in Pin!Studies :
           /\ report'[s].rows = report[s].rows
           /\ report'[s].status = "none" => report[s].status = "none"
           /\ report'[s].status = "completed" /\ report[s].status # "completed" =>
                 Len(report[s].rows) = Cases
    BY <1>2
  <1> QED
    BY <1>3, <1>4, <1>5, <1>6, <1>7, StudySteps

LEMMA StudyConcludes ==
    ASSUME PinInv, study.pc # "off", study' = Pin!Off, UNCHANGED <<runs, alive, published>>,
           NEW status \in Statuses \ {"none"}, Pin!Report(status),
           status = "completed" => Len(report[study.name].rows) = Cases
    PROVE  PinInv'
  <1>1. runs' \in [Pin!Studies -> [Pin!CaseIds -> PinRun]] /\ MarksAtMost
    BY DEF PinInv, PinTypes, MarksAtMost
  <1>2. \E st \in Statuses \ {"none"} :
           Pin!Report(st) /\ (st = "completed" => Len(report[study.name].rows) = Cases)
    OBVIOUS
  <1> QED
    BY <1>1, <1>2, StudyEnds

LEMMA StartKeepsStudies ==
    ASSUME PinInv, NEW s \in Pin!Studies, Pin!Start(s)
    PROVE  PinInv'
  <1>1. /\ PinTypes /\ PinPlaced /\ PinPublished /\ PinRuns /\ PinRows /\ study.pc = "off"
        /\ study.name = "none" /\ report[s].status = "none"
        /\ UNCHANGED <<runs, alive, published>>
    BY DEF Pin!Start, Pin!At, PinInv, PinPlaced
  <1>2. /\ study'.name = s /\ study'.pc = "check" /\ study'.case = 0 /\ study' \in StudyState
    BY DEF Pin!Start, Pin!Off, StudyState, StudyPcs
  <1>3. /\ report' = [report EXCEPT ![s].status = "running"]
        /\ report' \in [Pin!Studies -> [status : Statuses, rows : Seq(RowStates)]]
        /\ report'[s].status = "running"
        /\ \A t \in Pin!Studies : report'[t].rows = report[t].rows
        /\ \A t \in Pin!Studies : t # s => report'[t] = report[t]
    BY <1>1 DEF Pin!Start, PinTypes, Statuses
  <1>4. PinTypes'
    BY <1>1, <1>2, <1>3 DEF PinTypes, StudyState
  <1>5. Len(report[s].rows) = 0
    BY <1>1 DEF PinRows
  <1>6. PinPlaced'
    BY <1>2, <1>3, <1>5 DEF PinPlaced
  <1>7. "none" \notin Pin!Studies
    BY DEF Pin!Studies
  <1>8. \A t \in Pin!Studies, c \in Pin!CaseIds : Unlaunched(t, c)' => Unlaunched(t, c)
    BY <1>1, <1>2, <1>3, <1>7 DEF Unlaunched
  <1>9. \A c \in Pin!CaseIds : ~Live(s, c)
    BY <1>1, <1>7 DEF PinRuns, Unlaunched
  <1>10. PinAlone' /\ MarksAtMost
    BY <1>1, <1>2, <1>9 DEF PinAlone, Live, MarksAtMost
  <1>11. published => report'["profile"].status = "completed"
    BY <1>1, <1>3 DEF PinPublished, Pin!Studies
  <1> QED
    BY <1>1, <1>3, <1>4, <1>6, <1>8, <1>10, <1>11, StudySteps

\* A study at work goes on, leaving its report and its runs.
LEMMA StudyGoesOn ==
    ASSUME PinInv, study' \in StudyState, study.pc # "off", study'.name = study.name,
           UNCHANGED <<report, runs, published>>, alive' \subseteq alive,
           PinPlaced', PinAlone',
           \A c \in Pin!CaseIds : Unlaunched(study.name, c)' => Unlaunched(study.name, c)
    PROVE  PinInv'
  <1>1. PinTypes /\ PinPublished
    BY DEF PinInv
  <1>2. PinTypes' /\ MarksAtMost
    BY <1>1 DEF PinTypes, StudyState, MarksAtMost
  <1>3. \A s \in Pin!Studies, c \in Pin!CaseIds : Unlaunched(s, c)' => Unlaunched(s, c)
    BY DEF Unlaunched
  <1>4. published => report'["profile"].status = "completed"
    BY <1>1 DEF PinPublished
  <1> QED
    BY <1>2, <1>3, <1>4, StudySteps

LEMMA CheckKeepsStudies ==
    ASSUME PinInv, Pin!Check
    PROVE  PinInv'
  <1>1. /\ study.pc = "check" /\ study.case = 0 /\ UNCHANGED <<runs, alive, published>>
        /\ study.name \in Pin!Studies /\ study \in StudyState
        /\ PinTypes /\ PinPlaced /\ PinRuns
    BY AtWork DEF Pin!Check, Pin!At, PinInv, PinPlaced
  <1>2. CASE study' = Pin!Off /\ Pin!Report("failed")
    BY <1>1, <1>2, StudyConcludes DEF Statuses
  <1>3. CASE /\ UNCHANGED report
             /\ study' = [study EXCEPT !.pc = IF study.name = "pilot" THEN "induce" ELSE "case",
                                       !.case = 1]
    <2> DEFINE q == [study EXCEPT !.pc = IF study.name = "pilot" THEN "induce" ELSE "case"]
    <2>1. q \in StudyState /\ q.pc \in {"induce", "case"} /\ q.name = study.name
      BY <1>1 DEF StudyState, StudyPcs
    <2>2. study' = [q EXCEPT !.case = 1]
      BY <1>1, <1>3 DEF StudyState
    <2> HIDE DEF q
    <2>3. /\ study' \in StudyState /\ study'.pc \in {"induce", "case"} /\ study'.name = study.name
          /\ study'.case = 1
      BY <2>1, <2>2 DEF StudyState
    <2>4. 1 \in Pin!CaseIds /\ \A c \in Pin!CaseIds : c \in Nat /\ c > 0
      BY StudiesAssumption DEF Pin!CaseIds
    <2>5. PinPlaced'
      BY <1>1, <1>3, <2>3, <2>4 DEF PinPlaced
    <2>6. \A c \in Pin!CaseIds : Unlaunched(study.name, c) /\ ~Live(study.name, c)
      BY <1>1, <2>4 DEF Unlaunched, PinRuns
    <2>7. PinAlone'
      BY <1>1, <2>3, <2>6 DEF PinAlone, Live
    <2> QED
      BY <1>1, <1>3, <2>3, <2>5, <2>6, <2>7, StudyGoesOn
  <1> QED
    BY <1>2, <1>3 DEF Pin!Check

LEMMA InduceKeepsStudies ==
    ASSUME PinInv, Pin!Induce
    PROVE  PinInv'
  <1>1. /\ study.pc = "induce" /\ UNCHANGED <<runs, alive, published>>
        /\ study.name \in Pin!Studies /\ study \in StudyState
        /\ PinTypes /\ PinPlaced /\ PinAlone
    BY AtWork DEF Pin!Induce, Pin!At, PinInv
  <1>2. CASE study' = Pin!Off /\ Pin!Report("failed")
    BY <1>1, <1>2, StudyConcludes DEF Statuses
  <1>3. CASE UNCHANGED report /\ study' = [study EXCEPT !.pc = "case"]
    <2>1. /\ study' \in StudyState /\ study'.pc = "case" /\ study'.name = study.name
          /\ study'.case = study.case
      BY <1>1, <1>3 DEF StudyState, StudyPcs
    <2>2. PinPlaced'
      BY <1>1, <1>3, <2>1 DEF PinPlaced
    <2>3. \A c \in Pin!CaseIds : Unlaunched(study.name, c)' => Unlaunched(study.name, c)
      BY <1>1, <2>1 DEF Unlaunched
    <2>4. PinAlone'
      BY <1>1, <2>1 DEF PinAlone, Live
    <2> QED
      BY <1>1, <1>3, <2>1, <2>2, <2>3, <2>4, StudyGoesOn
  <1> QED
    BY <1>2, <1>3 DEF Pin!Induce

LEMMA DeadlineKeepsStudies ==
    ASSUME PinInv, Pin!Deadline
    PROVE  PinInv'
  <1>1. /\ study.pc = "wait" /\ UNCHANGED <<report, runs, alive, published>>
        /\ study.name \in Pin!Studies /\ study \in StudyState
        /\ PinTypes /\ PinPlaced /\ PinAlone
    BY AtWork DEF Pin!Deadline, Pin!At, PinInv
  <1>2. /\ study' \in StudyState /\ study'.pc = "deadline" /\ study'.name = study.name
        /\ study'.case = study.case
    BY <1>1 DEF Pin!Deadline, StudyState, StudyPcs
  <1>3. PinPlaced'
    BY <1>1, <1>2 DEF PinPlaced
  <1>4. \A c \in Pin!CaseIds : Unlaunched(study.name, c)' => Unlaunched(study.name, c)
    BY <1>1, <1>2 DEF Unlaunched
  <1>5. PinAlone'
    BY <1>1, <1>2 DEF PinAlone, Live
  <1> QED
    BY <1>1, <1>2, <1>3, <1>4, <1>5, StudyGoesOn

\* The run in hand is over: of the profile's nobody is left.
LEMMA RunOver ==
    ASSUME PinInv, study.pc \in {"wait", "deadline"}, UNCHANGED <<report, runs, published>>,
           alive' \subseteq alive, Pin!Leader \notin alive',
           study.name = "profile" => alive' \cap Pin!Group = {},
           study' \in StudyState, study'.pc = "settle", study'.name = study.name,
           study'.case = study.case, study'.went # "none",
           study'.went = "complete" => runs[study.name][study.case].manifest = "complete"
    PROVE  PinInv'
  <1>1. /\ study.name \in Pin!Studies /\ study \in StudyState /\ study.case \in Pin!CaseIds
        /\ PinTypes /\ PinPlaced /\ PinAlone
    BY AtWork DEF PinInv
  <1>2. ~Led(study.name, study.case)'
    BY DEF Led, Pin!Leader
  <1>3. PinPlaced'
    BY <1>1, <1>2 DEF PinPlaced
  <1>4. \A c \in Pin!CaseIds : Unlaunched(study.name, c)' => Unlaunched(study.name, c)
    BY <1>1 DEF Unlaunched
  <1>5. PinAlone'
    <2> SUFFICES ASSUME study.name = "profile", NEW c \in Pin!CaseIds, Live("profile", c)'
                 PROVE  FALSE
      BY DEF PinAlone
    <2>1. PICK r \in Roles : <<"profile", c, r>> \in alive'
      BY DEF Live
    <2>2. c = study.case
      BY <1>1, <2>1 DEF PinAlone, Live
    <2> QED
      BY <2>1, <2>2 DEF Pin!Group, Roles
  <1> QED
    BY <1>1, <1>3, <1>4, <1>5, StudyGoesOn

LEMMA ReapKeepsStudies ==
    ASSUME PinInv, Pin!Reap
    PROVE  PinInv'
  <1>1. /\ study.pc = "wait" /\ UNCHANGED <<report, runs, published>> /\ study \in StudyState
        /\ Pin!Leader \notin alive /\ alive' = alive \ Pin!Swept(study.name)
    BY AtWork DEF Pin!Reap, Pin!At
  <1> DEFINE w == IF runs[study.name][study.case].manifest = "complete" THEN "complete"
                  ELSE "failed"
             q == [study EXCEPT !.pc = "settle"]
  <1>2. study' = [q EXCEPT !.went = w]
    BY <1>1 DEF Pin!Reap, StudyState
  <1>3. /\ w \in {"complete", "failed"}
        /\ w = "complete" => runs[study.name][study.case].manifest = "complete"
    OBVIOUS
  <1> HIDE DEF w
  <1>4. /\ q \in StudyState /\ q.pc = "settle" /\ q.name = study.name /\ q.case = study.case
    BY <1>1 DEF StudyState, StudyPcs
  <1> HIDE DEF q
  <1>5. /\ study' \in StudyState /\ study'.pc = "settle" /\ study'.name = study.name
        /\ study'.case = study.case /\ study'.went = w
    BY <1>2, <1>3, <1>4 DEF StudyState
  <1>6. study.name = "profile" => alive' \cap Pin!Group = {}
    BY <1>1 DEF Pin!Swept
  <1> QED
    BY <1>1, <1>3, <1>5, <1>6, RunOver

LEMMA TerminateKeepsStudies ==
    ASSUME PinInv, Pin!Terminate
    PROVE  PinInv'
  <1>1. /\ study.pc = "deadline" /\ UNCHANGED <<report, runs, published>> /\ study \in StudyState
    BY AtWork DEF Pin!Terminate, Pin!At
  <1>2. PICK left \in SUBSET ((alive \cap Pin!Group) \ {Pin!Leader}) :
           alive' = (alive \ Pin!Group) \cup (left \ Pin!Swept(study.name))
    BY DEF Pin!Terminate
  <1>3. Pin!Leader \in Pin!Group
    BY DEF Pin!Leader, Pin!Group
  <1>4. alive' \subseteq alive /\ Pin!Leader \notin alive'
    BY <1>2, <1>3
  <1>5. study.name = "profile" => alive' \cap Pin!Group = {}
    BY <1>2 DEF Pin!Swept
  <1> DEFINE q == [study EXCEPT !.pc = "settle"]
  <1>6. study' = [q EXCEPT !.went = "cut"]
    BY <1>1 DEF Pin!Terminate, StudyState
  <1>7. q \in StudyState /\ q.pc = "settle" /\ q.name = study.name /\ q.case = study.case
    BY <1>1 DEF StudyState, StudyPcs
  <1> HIDE DEF q
  <1>8. /\ study' \in StudyState /\ study'.pc = "settle" /\ study'.name = study.name
        /\ study'.case = study.case /\ study'.went = "cut"
    BY <1>6, <1>7 DEF StudyState
  <1> QED
    BY <1>1, <1>4, <1>5, <1>8, RunOver

LEMMA LaunchKeepsStudies ==
    ASSUME PinInv, Pin!Launch
    PROVE  PinInv'
  <1>1. /\ study.pc = "case" /\ UNCHANGED <<report, runs, published>>
        /\ study.name \in Pin!Studies /\ study \in StudyState /\ study.case \in Pin!CaseIds
        /\ alive' = alive \cup {Pin!Leader}
        /\ PinTypes /\ PinPlaced /\ PinRuns /\ PinRows /\ PinAlone /\ PinPublished
    BY AtWork DEF Pin!Launch, Pin!At, PinInv
  <1>2. /\ study' \in StudyState /\ study'.pc = "wait" /\ study'.name = study.name
        /\ study'.case = study.case
    BY <1>1 DEF Pin!Launch, StudyState, StudyPcs
  <1>3. PinTypes'
    BY <1>1, <1>2 DEF PinTypes, StudyState, Pin!Leader, Roles
  <1>4. PinPlaced'
    BY <1>1, <1>2 DEF PinPlaced
  <1>5. \A s \in Pin!Studies, c \in Pin!CaseIds :
           s # study.name \/ c # study.case => /\ Led(s, c)' => Led(s, c)
                                               /\ Live(s, c)' => Live(s, c)
    BY <1>1 DEF Led, Live, Pin!Leader
  <1>6. \A s \in Pin!Studies, c \in Pin!CaseIds :
           Unlaunched(s, c)' => Unlaunched(s, c) /\ (s # study.name \/ c # study.case)
    BY <1>1, <1>2, StudiesAssumption DEF Unlaunched, Pin!CaseIds
  <1>7. runs[study.name][study.case].manifest = "none"
    BY <1>1 DEF PinRuns, Unlaunched
  <1>8. PinRuns'
    BY <1>1, <1>5, <1>6, <1>7 DEF PinRuns
  <1>9. /\ study.case \notin DOMAIN report[study.name].rows
        /\ \A s \in Pin!Studies : \A c \in DOMAIN report[s].rows : c \in Pin!CaseIds
    BY <1>1, StudiesAssumption DEF PinPlaced, PinTypes, PinRows, Pin!CaseIds
  <1>10. PinRows'
    BY <1>1, <1>5, <1>9 DEF PinRows
  <1>11. PinAlone'
    BY <1>1, <1>2, <1>5 DEF PinAlone, Pin!Studies
  <1>12. PinPublished'
    BY <1>1 DEF PinPublished
  <1> QED
    BY <1>3, <1>4, <1>8, <1>10, <1>11, <1>12 DEF PinInv

LEMMA EndKeepsStudies ==
    ASSUME PinInv, Pin!End
    PROVE  PinInv'
  <1>1. /\ study.pc = "end" /\ UNCHANGED <<runs, alive, published>> /\ study' = Pin!Off
        /\ study.name \in Pin!Studies /\ Len(report[study.name].rows) = Cases
    BY AtWork DEF Pin!End, Pin!At, PinInv, PinPlaced
  <1>2. PICK equal \in BOOLEAN :
          Pin!Report(CASE study.name = "profile" -> IF equal THEN "completed" ELSE "completed, unequal"
                       [] study.name = "scaling" -> IF Pin!AllAudited THEN "passed" ELSE "incomplete"
                       [] study.name = "pilot" -> IF Pin!AllAudited /\ equal THEN "passed"
                                                  ELSE "incomplete")
    BY DEF Pin!End
  <1>3. \E status \in Statuses \ {"none"} : Pin!Report(status)
    <2>1. CASE study.name = "profile"
      BY <1>2, <2>1 DEF Statuses
    <2>2. CASE study.name = "scaling"
      BY <1>2, <2>2 DEF Statuses
    <2>3. CASE study.name = "pilot"
      BY <1>2, <2>3 DEF Statuses
    <2> QED
      BY <1>1, <2>1, <2>2, <2>3 DEF Pin!Studies
  <1> QED
    BY <1>1, <1>3, StudyConcludes

LEMMA PublishKeepsStudies ==
    ASSUME PinInv, Pin!Publish
    PROVE  PinInv'
  <1>1. UNCHANGED <<study, report, runs, alive>> /\ report["profile"].status = "completed"
    BY DEF Pin!Publish
  <1>2. \A c \in Pin!CaseIds : runs["profile"][c].manifest =
                                 IF c <= 2 THEN "complete" ELSE "interrupted"
    <2> SUFFICES ASSUME NEW c \in Pin!CaseIds
                 PROVE  runs["profile"][c].manifest = IF c <= 2 THEN "complete" ELSE "interrupted"
      OBVIOUS
    <2>0. IF c <= 2 THEN /\ report["profile"].rows[c] = "audited"
                         /\ runs["profile"][c] = [manifest |-> "complete", outputs |-> "whole"]
                    ELSE /\ report["profile"].rows[c] = "cut"
                         /\ runs["profile"][c].manifest = "interrupted"
      BY DEF Pin!Publish
    <2>1. CASE c <= 2
      <3>1. runs["profile"][c] = [manifest |-> "complete", outputs |-> "whole"]
        BY <2>0, <2>1
      <3> QED
        BY <2>1, <3>1
    <2>2. CASE ~(c <= 2)
      BY <2>0, <2>2
    <2> QED
      BY <2>1, <2>2
  <1>3. PinTypes /\ PinPlaced /\ PinRuns /\ PinRows /\ PinAlone /\ PinPublished
    BY DEF PinInv
  <1>4. PinTypes' /\ PinPlaced'
    BY <1>1, <1>3 DEF PinTypes, PinPlaced, Led
  <1>5. PinRuns' /\ PinRows' /\ PinAlone'
    BY <1>1, <1>3, ZenonT(40) DEF PinRuns, PinRows, PinAlone, Led, Live, Unlaunched
  <1>6. PinPublished'
    BY <1>1, <1>2 DEF PinPublished
  <1> QED
    BY <1>4, <1>5, <1>6 DEF PinInv

\* What Settle and Stop leave of the run in hand.
LEMMA Marking ==
    ASSUME PinInv, study.pc = "settle", NEW m \in Manifests, m # "complete",
           runs' = [runs EXCEPT ![study.name][study.case].manifest = m]
    PROVE  /\ runs' \in [Pin!Studies -> [Pin!CaseIds -> PinRun]] /\ MarksAtMost
           /\ runs'[study.name][study.case].manifest = m
  <1>1. /\ runs \in [Pin!Studies -> [Pin!CaseIds -> PinRun]]
        /\ study.name \in Pin!Studies /\ study.case \in Pin!CaseIds
    BY AtWork DEF PinInv, PinTypes
  <1> QED
    BY <1>1, SMTT(30) DEF PinRun, MarksAtMost

\* Nothing is marked.
LEMMA Unmarked ==
    ASSUME PinInv, UNCHANGED runs
    PROVE  runs' \in [Pin!Studies -> [Pin!CaseIds -> PinRun]] /\ MarksAtMost
  BY DEF PinInv, PinTypes, MarksAtMost

LEMMA StopKeepsStudies ==
    ASSUME PinInv, Pin!Stop
    PROVE  PinInv'
  <1>1. /\ study.pc # "off" /\ study' = Pin!Off /\ UNCHANGED published
        /\ runs \in [Pin!Studies -> [Pin!CaseIds -> PinRun]]
        /\ study.name \in Pin!Studies /\ study.pc # "check" => study.case \in Pin!CaseIds
    BY AtWork DEF Pin!Stop, Pin!At, PinInv, PinTypes
  <1>2. /\ alive' \subseteq alive
        /\ \/ UNCHANGED report
           \/ Pin!Report("interrupted")
    BY DEF Pin!Stop
  <1>3. "interrupted" \in Statuses \ {"none"}
    BY DEF Statuses
  <1>4. runs' \in [Pin!Studies -> [Pin!CaseIds -> PinRun]] /\ MarksAtMost
    <2>1. CASE UNCHANGED runs
      BY <2>1, Unmarked, SMTT(30)
    <2>2. CASE ~UNCHANGED runs
      <3>1. study.pc = "settle"
        BY <2>2 DEF Pin!Stop, Pin!At
      <3>2. PICK m \in {Pin!Mark(runs[study.name][study.case].manifest), "torn"} :
               runs' = [runs EXCEPT ![study.name][study.case].manifest = m]
        BY <2>2 DEF Pin!Stop
      <3>3. m \in Manifests /\ m # "complete"
        BY DEF Pin!Mark, Manifests
      <3> QED
        BY <3>1, <3>2, <3>3, Marking
    <2> QED
      BY <2>1, <2>2
  <1>5. \/ UNCHANGED report
        \/ \E status \in Statuses \ {"none"} :
              /\ Pin!Report(status)
              /\ status = "completed" => Len(report[study.name].rows) = Cases
    BY <1>2, <1>3
  <1> QED
    BY <1>1, <1>2, <1>4, <1>5, StudyEnds

\* A report gets a row and a status.
LEMMA StatusSet ==
    ASSUME NEW h \in [Pin!Studies -> [status : Statuses, rows : Seq(RowStates)]],
           NEW s \in Pin!Studies, NEW status \in Statuses
    PROVE  LET g == [h EXCEPT ![s].status = status]
           IN  /\ g \in [Pin!Studies -> [status : Statuses, rows : Seq(RowStates)]]
               /\ g[s].rows = h[s].rows /\ g[s].status = status
               /\ \A u \in Pin!Studies : u # s => g[u] = h[u]
  OBVIOUS

WithRow(f, s, row, status) == [f EXCEPT ![s].rows = Append(@, row), ![s].status = status]

LEMMA Reported ==
    ASSUME NEW f \in [Pin!Studies -> [status : Statuses, rows : Seq(RowStates)]],
           NEW s \in Pin!Studies, NEW row \in RowStates, NEW status \in Statuses
    PROVE  /\ WithRow(f, s, row, status) \in
                 [Pin!Studies -> [status : Statuses, rows : Seq(RowStates)]]
           /\ WithRow(f, s, row, status)[s].rows = Append(f[s].rows, row)
           /\ WithRow(f, s, row, status)[s].status = status
           /\ \A u \in Pin!Studies : u # s => WithRow(f, s, row, status)[u] = f[u]
  <1> DEFINE h == [f EXCEPT ![s].rows = Append(@, row)]
  <1>1. Append(f[s].rows, row) \in Seq(RowStates)
    BY AppendProperties
  <1>2. /\ h \in [Pin!Studies -> [status : Statuses, rows : Seq(RowStates)]]
        /\ h[s].rows = Append(f[s].rows, row) /\ \A u \in Pin!Studies : u # s => h[u] = f[u]
    BY <1>1
  <1>3. [f EXCEPT ![s].rows = Append(@, row), ![s].status = status] = [h EXCEPT ![s].status = status]
    OBVIOUS
  <1> HIDE DEF h
  <1> DEFINE g == [h EXCEPT ![s].status = status]
  <1>4. /\ g \in [Pin!Studies -> [status : Statuses, rows : Seq(RowStates)]]
        /\ g[s].rows = h[s].rows /\ g[s].status = status
        /\ \A u \in Pin!Studies : u # s => g[u] = h[u]
    BY <1>2, StatusSet, SMTT(30)
  <1> HIDE DEF g
  <1>5. /\ g \in [Pin!Studies -> [status : Statuses, rows : Seq(RowStates)]]
        /\ g[s].rows = Append(f[s].rows, row) /\ g[s].status = status
        /\ \A u \in Pin!Studies : u # s => g[u] = f[u]
    BY <1>2, <1>4
  <1>6. WithRow(f, s, row, status) = g
    BY <1>3 DEF g, WithRow
  <1> QED
    BY <1>5, <1>6, Zenon

\* What Settle does to the study, the report and the run in hand.
LEMMA Settling ==
    ASSUME PinInv, Pin!Settle
    PROVE  \E s \in Pin!Studies, c \in Pin!CaseIds, row \in RowStates, stops \in BOOLEAN :
             /\ s = study.name /\ c = study.case
             /\ row = "audited" => /\ study.went = "complete"
                                  /\ runs[s][c].outputs = "whole"
             /\ row = "cut" => study.went = "cut"
             /\ report' = [report EXCEPT ![s].rows = Append(@, row),
                                         ![s].status = IF stops THEN "failed" ELSE @]
             /\ IF stops THEN study' = Pin!Off ELSE Pin!NextCase
  <1>1. /\ study.name \in Pin!Studies /\ study.case \in Pin!CaseIds
        /\ study.went \in {"complete", "failed", "cut"}
    BY AtWork DEF Pin!Settle, Pin!At, PinInv, PinPlaced, StudyState
  <1>2. PICK row \in IF study.went = "complete" THEN {"audited", "audit failed"} ELSE {study.went} :
          LET stops == \/ study.name # "scaling" /\ row = "audit failed"
                       \/ study.name = "profile" /\ row = "failed"
          IN  /\ row = "audited" => runs[study.name][study.case].outputs = "whole"
              /\ report' = [report EXCEPT ![study.name].rows = Append(@, row),
                                          ![study.name].status = IF stops THEN "failed" ELSE @]
              /\ IF stops THEN study' = Pin!Off ELSE Pin!NextCase
    BY DEF Pin!Settle
  <1>3. row \in RowStates /\ (row = "audited" => study.went = "complete")
        /\ (row = "cut" => study.went = "cut")
    BY <1>1, <1>2 DEF RowStates
  <1>4. PICK stops \in BOOLEAN :
          stops = (\/ study.name # "scaling" /\ row = "audit failed"
                   \/ study.name = "profile" /\ row = "failed")
    OBVIOUS
  <1>5. /\ row = "audited" => /\ study.went = "complete"
                             /\ runs[study.name][study.case].outputs = "whole"
        /\ row = "cut" => study.went = "cut"
        /\ report' = [report EXCEPT ![study.name].rows = Append(@, row),
                                    ![study.name].status = IF stops THEN "failed" ELSE @]
        /\ IF stops THEN study' = Pin!Off ELSE Pin!NextCase
    BY <1>2, <1>3, <1>4
  <1> QED
    BY <1>1, <1>3, <1>5, Zenon

LEMMA SettleKeepsStudies ==
    ASSUME PinInv, Pin!Settle
    PROVE  PinInv'
  <1>0. PICK s \in Pin!Studies, c \in Pin!CaseIds, row \in RowStates, stops \in BOOLEAN :
             /\ s = study.name /\ c = study.case
             /\ row = "audited" => /\ study.went = "complete"
                                  /\ runs[s][c].outputs = "whole"
             /\ row = "cut" => study.went = "cut"
             /\ report' = [report EXCEPT ![s].rows = Append(@, row),
                                         ![s].status = IF stops THEN "failed" ELSE @]
             /\ IF stops THEN study' = Pin!Off ELSE Pin!NextCase
    BY Settling
  <1>1. /\ study.pc = "settle" /\ study \in StudyState /\ study.name = s /\ study.case = c
        /\ PinTypes /\ PinPlaced /\ PinRuns /\ PinRows /\ PinAlone /\ PinPublished
        /\ UNCHANGED <<alive, published>>
    BY <1>0, AtWork DEF Pin!Settle, Pin!At, PinInv
  <1>2. /\ report[s].status = "running" /\ Len(report[s].rows) = c - 1 /\ ~Led(s, c)
        /\ study.went \in {"complete", "failed", "cut"}
        /\ study.went = "complete" => runs[s][c].manifest = "complete"
    BY <1>1 DEF PinPlaced, StudyState
  <1>3. /\ runs' \in [Pin!Studies -> [Pin!CaseIds -> PinRun]] /\ MarksAtMost
        /\ ~Pin!Marked => runs' = runs
        /\ Pin!Marked => runs'[s][c].manifest \in {"none", "interrupted"}
    <2>1. CASE ~Pin!Marked
      BY <2>1, Unmarked DEF Pin!Settle
    <2>2. CASE Pin!Marked
      <3>1. PICK m : m = Pin!Mark(runs[s][c].manifest)
        OBVIOUS
      <3>2. m \in {"none", "interrupted"} /\ m \in Manifests /\ m # "complete"
        BY <3>1 DEF Pin!Mark, Manifests
      <3>3. runs' = [runs EXCEPT ![study.name][study.case].manifest = m]
        BY <1>1, <2>2, <3>1 DEF Pin!Settle
      <3> QED
        BY <1>1, <2>2, <3>2, <3>3, Marking
    <2> QED
      BY <2>1, <2>2
  <1>14. /\ c \in Nat /\ c >= 1 /\ c <= Cases /\ Cases \in Nat
    BY StudiesAssumption DEF Pin!CaseIds
  <1>4. PICK r : r = report[s].rows
    OBVIOUS
  <1>5. r \in Seq(RowStates) /\ Len(r) = c - 1 /\ report[s].rows = r
    BY <1>1, <1>2, <1>4 DEF PinTypes
  <1>6. PICK rows : rows = Append(r, row)
    OBVIOUS
  <1>10. /\ rows \in Seq(RowStates) /\ Len(rows) = c /\ DOMAIN rows = 1 .. c
         /\ rows[c] = row /\ \A d \in 1 .. (c - 1) : rows[d] = r[d]
    BY <1>5, <1>6, <1>14, AppendProperties
  <1>7. PICK status : status = IF stops THEN "failed" ELSE "running"
    OBVIOUS
  <1>8. status \in Statuses /\ status \notin {"completed", "none"}
    BY <1>7 DEF Statuses
  <1>9. report' = WithRow(report, s, row, status)
    BY <1>0, <1>1, <1>2, <1>7 DEF PinTypes, WithRow
  <1>13. /\ report' \in [Pin!Studies -> [status : Statuses, rows : Seq(RowStates)]]
         /\ report'[s].rows = rows /\ report'[s].status = status
         /\ \A u \in Pin!Studies : u # s => report'[u] = report[u]
    <2>1. report \in [Pin!Studies -> [status : Statuses, rows : Seq(RowStates)]]
      BY <1>1 DEF PinTypes
    <2>2. PICK f : f = report
      OBVIOUS
    <2>3. f \in [Pin!Studies -> [status : Statuses, rows : Seq(RowStates)]]
      BY <2>1, <2>2
    <2>4. report' = WithRow(f, s, row, status)
      BY <1>9, <2>2
    <2>5. /\ report' \in [Pin!Studies -> [status : Statuses, rows : Seq(RowStates)]]
          /\ report'[s].rows = Append(f[s].rows, row) /\ report'[s].status = status
          /\ \A u \in Pin!Studies : u # s => report'[u] = f[u]
      <3>1. status \in Statuses
        BY <1>8
      <3>2. /\ WithRow(f, s, row, status) \in
                   [Pin!Studies -> [status : Statuses, rows : Seq(RowStates)]]
            /\ WithRow(f, s, row, status)[s].rows = Append(f[s].rows, row)
            /\ WithRow(f, s, row, status)[s].status = status
            /\ \A u \in Pin!Studies : u # s => WithRow(f, s, row, status)[u] = f[u]
        BY <2>3, <3>1, Reported
      <3>3. PICK g : g = WithRow(f, s, row, status)
        OBVIOUS
      <3>4. /\ g \in [Pin!Studies -> [status : Statuses, rows : Seq(RowStates)]]
            /\ g[s].rows = Append(f[s].rows, row) /\ g[s].status = status
            /\ \A u \in Pin!Studies : u # s => g[u] = f[u]
        BY <3>2, <3>3
      <3> QED
        BY <2>4, <3>3, <3>4
    <2> QED
      BY <1>4, <1>6, <2>2, <2>5
  <1>15. /\ study' \in StudyState
         /\ stops => study' = Pin!Off
         /\ ~stops => /\ study'.name = s
                      /\ \/ c = Cases /\ study'.pc = "end" /\ study'.case = c
                         \/ c # Cases /\ study'.pc = "case" /\ study'.case = c + 1
    <2>1. CASE stops
      BY <1>0, <2>1, PinOff
    <2>2. CASE ~stops /\ c = Cases
      <3>1. study' = [study EXCEPT !.pc = "end"]
        BY <1>0, <1>1, <2>2 DEF Pin!NextCase
      <3> QED
        BY <1>1, <2>2, <3>1 DEF StudyState, StudyPcs
    <2>3. CASE ~stops /\ c # Cases
      <3> DEFINE v == [study EXCEPT !.pc = "case"]
      <3>1. study' = [v EXCEPT !.case = c + 1]
        BY <1>0, <1>1, <2>3 DEF Pin!NextCase, StudyState
      <3>2. v \in StudyState /\ v.pc = "case" /\ v.name = s
        BY <1>1 DEF StudyState, StudyPcs
      <3> HIDE DEF v
      <3> QED
        BY <1>14, <2>3, <3>1, <3>2 DEF StudyState
    <2> QED
      BY <2>1, <2>2, <2>3
  <1>16. PinTypes'
    BY <1>1, <1>3, <1>13, <1>15 DEF PinTypes, StudyState
  <1>17. PinPlaced'
    <2>1. CASE stops
      BY <1>15, <2>1, PinOff DEF PinPlaced
    <2>2. CASE ~stops
      BY <1>1, <1>7, <1>10, <1>13, <1>14, <1>15, <2>2 DEF PinPlaced, Pin!CaseIds
    <2> QED
      BY <2>1, <2>2
  <1>18. \A u \in Pin!Studies, d \in Pin!CaseIds :
            Unlaunched(u, d)' => Unlaunched(u, d) /\ (u # s \/ d # c)
    <2>1. CASE stops
      BY <1>1, <1>8, <1>13, <1>15, <2>1, PinOff DEF Unlaunched, Pin!Studies
    <2>2. CASE ~stops
      BY <1>1, <1>8, <1>13, <1>14, <1>15, <2>2 DEF Unlaunched, Pin!CaseIds
    <2> QED
      BY <2>1, <2>2
  <1>19. /\ \A u \in Pin!Studies, d \in Pin!CaseIds :
               /\ u # s \/ d # c => runs'[u][d] = runs[u][d]
               /\ Led(u, d)' = Led(u, d) /\ Live(u, d)' = Live(u, d)
         /\ runs'[s][c].manifest = "complete" => runs'[s][c] = runs[s][c]
    BY <1>1, <1>3 DEF MarksAtMost, Led, Live
  <1>20. PinRuns'
    BY <1>1, <1>2, <1>18, <1>19 DEF PinRuns
  <1>21. /\ row = "audited" => runs'[s][c] = [manifest |-> "complete", outputs |-> "whole"]
         /\ row = "cut" /\ s # "scaling" => runs'[s][c].manifest \in {"none", "interrupted"}
    <2>1. row = "audited" => runs'[s][c] = runs[s][c] /\ runs[s][c].manifest = "complete"
                             /\ runs[s][c].outputs = "whole" /\ runs[s][c] \in PinRun
      BY <1>0, <1>1, <1>2, <1>3 DEF Pin!Marked, PinTypes
    <2>2. row = "cut" /\ s # "scaling" => Pin!Marked
      BY <1>0, <1>1 DEF Pin!Marked
    <2> QED
      BY <1>3, <2>1, <2>2 DEF PinRun
  <1>22. PinRows'
    <2> SUFFICES ASSUME NEW u \in Pin!Studies
                 PROVE  /\ Len(report'[u].rows) <= Cases
                        /\ report'[u].status = "completed" => Len(report'[u].rows) = Cases
                        /\ report'[u].status = "none" => Len(report'[u].rows) = 0
                        /\ \A d \in DOMAIN report'[u].rows :
                             /\ ~Led(u, d)'
                             /\ report'[u].rows[d] = "audited" =>
                                   runs'[u][d] = [manifest |-> "complete", outputs |-> "whole"]
                             /\ report'[u].rows[d] = "cut" /\ u # "scaling" =>
                                   runs'[u][d].manifest \in {"none", "interrupted"}
      BY DEF PinRows
    <2>0. \A d \in DOMAIN report[u].rows : d \in Pin!CaseIds
      BY <1>1, StudiesAssumption DEF PinTypes, PinRows, Pin!CaseIds
    <2>1. CASE u # s
      <3>1. /\ report'[u] = report[u]
            /\ \A d \in DOMAIN report[u].rows : runs'[u][d] = runs[u][d] /\ (Led(u, d)' <=> Led(u, d))
        BY <1>13, <1>19, <2>0, <2>1
      <3>2. /\ Len(report[u].rows) <= Cases
            /\ report[u].status = "completed" => Len(report[u].rows) = Cases
            /\ report[u].status = "none" => Len(report[u].rows) = 0
            /\ \A d \in DOMAIN report[u].rows :
                 /\ ~Led(u, d)
                 /\ report[u].rows[d] = "audited" =>
                       runs[u][d] = [manifest |-> "complete", outputs |-> "whole"]
                 /\ report[u].rows[d] = "cut" /\ u # "scaling" =>
                       runs[u][d].manifest \in {"none", "interrupted"}
        BY <1>1 DEF PinRows
      <3> QED
        BY <3>1, <3>2
    <2>2. CASE u = s
      <3>1. \A d \in 1 .. (c - 1) : d \in DOMAIN report[s].rows /\ d \in Pin!CaseIds /\ d # c
        BY <1>2, <1>14, <1>1 DEF PinTypes, Pin!CaseIds
      <3>2. \A d \in DOMAIN rows : d = c \/ d \in 1 .. (c - 1)
        BY <1>10, <1>14
      <3>3. \A d \in 1 .. (c - 1) :
              /\ ~Led(s, d)'
              /\ rows[d] = "audited" =>
                    runs'[s][d] = [manifest |-> "complete", outputs |-> "whole"]
              /\ rows[d] = "cut" /\ s # "scaling" => runs'[s][d].manifest \in {"none", "interrupted"}
        BY <1>1, <1>5, <1>10, <1>19, <3>1 DEF PinRows
      <3>4. /\ Len(rows) <= Cases /\ status \notin {"completed", "none"}
        BY <1>8, <1>10, <1>14
      <3>5. ~Led(s, c)' /\ rows[c] = row
        BY <1>1, <1>2, <1>10, <1>19
      <3> QED
        BY <1>13, <1>21, <2>2, <3>2, <3>3, <3>4, <3>5
    <2> QED
      BY <2>1, <2>2
  <1>23. PinAlone'
    BY <1>1, <1>15, PinOff DEF PinAlone, Live
  <1>24. PinPublished'
    <2>1. published => s # "profile" /\ report["profile"].status = "completed"
      BY <1>1, <1>2 DEF PinPublished
    <2> QED
      BY <1>1, <1>13, <1>19, <2>1 DEF PinPublished, Pin!Studies
  <1> QED
    BY <1>16, <1>17, <1>20, <1>22, <1>23, <1>24 DEF PinInv

LEMMA PinStep == PinInv /\ [Next]_offlineVars => PinInv'
  <1> SUFFICES ASSUME PinInv, [Next]_offlineVars
               PROVE  PinInv'
    OBVIOUS
  <1>1. CASE Pin!Next
    <2>1. ASSUME NEW s \in Pin!Studies, Pin!Start(s)
          PROVE  PinInv'
      BY <2>1, StartKeepsStudies
    <2>2. ASSUME NEW s \in Pin!Studies, NEW c \in Pin!CaseIds,
                 Pin!Begins(s, c) \/ Pin!TargetEnds(s, c) \/ Pin!LeaderEnds(s, c)
          PROVE  PinInv'
      BY <2>2, BeginsKeeps, TargetEndsKeeps, LeaderEndsKeeps
    <2>3. Pin!Check \/ Pin!Induce \/ Pin!Launch \/ Pin!Reap \/ Pin!Deadline => PinInv'
      BY CheckKeepsStudies, InduceKeepsStudies, LaunchKeepsStudies, ReapKeepsStudies,
         DeadlineKeepsStudies
    <2>4. Pin!Terminate \/ Pin!Settle \/ Pin!End \/ Pin!Publish \/ Pin!Stop => PinInv'
      BY TerminateKeepsStudies, SettleKeepsStudies, EndKeepsStudies, PublishKeepsStudies,
         StopKeepsStudies
    <2>5. \/ \E s \in Pin!Studies : Pin!Start(s)
          \/ \E s \in Pin!Studies, c \in Pin!CaseIds :
                Pin!Begins(s, c) \/ Pin!TargetEnds(s, c) \/ Pin!LeaderEnds(s, c)
          \/ Pin!Check \/ Pin!Induce \/ Pin!Launch \/ Pin!Reap \/ Pin!Deadline
          \/ Pin!Terminate \/ Pin!Settle \/ Pin!End \/ Pin!Publish \/ Pin!Stop
      BY <1>1 DEF Pin!Next
    <2> QED
      BY <2>1, <2>2, <2>3, <2>4, <2>5
  <1>2. CASE UNCHANGED Pin!studyVars
    <2>1. UNCHANGED <<study, report, runs, alive, published>>
      BY <1>2 DEF Pin!studyVars
    <2>2. PinTypes' /\ PinPlaced'
      BY <2>1 DEF PinInv, PinTypes, PinPlaced, Led
    <2>3. PinRuns' /\ PinRows' /\ PinAlone' /\ PinPublished'
      BY <2>1, ZenonT(40) DEF PinInv, PinRuns, PinRows, PinAlone, PinPublished, Live, Led, Unlaunched
    <2> QED
      BY <2>2, <2>3 DEF PinInv
  <1>3. Pin!Next \/ UNCHANGED Pin!studyVars
    BY DEF Next, Migrate, Analyse, Study, Prepare, Simulate, offlineVars, studyVars,
           Pin!studyVars
  <1> QED
    BY <1>1, <1>2, <1>3

LEMMA PinsBegin == Init => PinInv
  BY PinBegins DEF Init

LEMMA RunAlone == PinInv => ProfiledAlone
  <1> SUFFICES ASSUME PinInv, study.name = "profile",
                      NEW p \in alive, p[1] = "profile"
               PROVE  p[2] = study.case
    BY DEF ProfiledAlone, Pin!ProfiledAlone
  <1>1. PICK s \in Pin!Studies, c \in Pin!CaseIds, r \in Roles : p = <<s, c, r>>
    BY DEF PinInv, PinTypes
  <1>2. s = "profile" /\ p[2] = c /\ Live("profile", c)
    BY <1>1 DEF Live
  <1> QED
    BY <1>2 DEF PinInv, PinAlone

LEMMA RowsAreSo == PinInv => StudiesTruthful
  BY DEF PinInv, PinRows, PinPublished, StudiesTruthful, Pin!StudiesTruthful

(***************************************************************************)
(* While profile_pin_bottleneck.py samples a case, nothing of its earlier   *)
(* cases is alive: it launches none before what is left of the last is      *)
(* killed, also when the case ended by its deadline or by itself.           *)
(***************************************************************************)
THEOREM ProfileRunsAlone == Spec => []ProfiledAlone
  <1>1. Spec => []PinInv
    BY PinsBegin, PinStep, PTL DEF Spec
  <1> QED
    BY <1>1, RunAlone, PTL

(***************************************************************************)
(* What the studies' reports say of their runs is so for any number of      *)
(* cases and of failures, although runs outlive the study that began them:  *)
(* who outlives its study writes no manifest that a row was derived from.   *)
(***************************************************************************)
THEOREM ReportsTruthful == Spec => []StudiesTruthful
  <1>1. Spec => []PinInv
    BY PinsBegin, PinStep, PTL DEF Spec
  <1> QED
    BY <1>1, RowsAreSo, PTL

--------------------------------------------------------------------------------
(* The preparation of inputs.                                                 *)

Contents == {"none", "part", "whole"}
FetchPcs == {"fetch", "rename", "source"}
OwnPcs == {"source of it", "build", "collect", "record"}
MakePcs == OwnPcs \cup {"look", "make"}
Fillings == [Inputs!GraphIds -> Contents]
AssetStates == [dest : {"none", "whole", "spoiled"}, partial : {"none", "whole", "spoiled"}]
ProcessStates == [script : Inputs!Makers \cup {"fetch", "none"}, pc : FetchPcs \cup MakePcs \cup {"off"},
                  at : Assets \cup Nat, todo : SUBSET (Assets \cup Inputs!GraphIds)]

\* The script of a process is in a step of its own.
InStep(x) ==
  /\ x.script = "none" => x.pc = "off"
  /\ x.script = "fetch" => x.pc \in FetchPcs /\ x.todo \subseteq Assets
  /\ x.script \in Inputs!Makers => x.pc \in MakePcs /\ x.todo \subseteq Inputs!GraphIds

InputTypes ==
  /\ asset \in [Assets -> AssetStates]
  /\ sourceJson \in {"none", "torn", "whole"}
  /\ attempts \in [Inputs!Makers -> Seq(Fillings)]
  /\ process \in [Processes -> ProcessStates]
  /\ \A p \in Processes : InStep(process[p])

OneFetch ==
  \A p, q \in Processes : process[p].script = "fetch" /\ process[q].script = "fetch" => p = q

\* What fetch_twitter.py has verified stays whole.
Fetched(x) ==
  x.script = "fetch" =>
    /\ \A a \in Assets \ x.todo : asset[a].dest = "whole"
    /\ x.pc = "rename" => x.at \in x.todo /\ asset[x.at].dest = "none"
    /\ x.pc = "source" => x.todo = {}

SourceWhole == sourceJson = "whole" => \A a \in Assets : asset[a].dest = "whole"

\* A directory is written by the one process that made it.
Owns(x, m, d) == x.script = m /\ x.pc \in OwnPcs /\ x.at = d
Owned ==
  \A p, q \in Processes : \A m \in Inputs!Makers : \A d \in DOMAIN attempts[m] :
     Owns(process[p], m, d) /\ Owns(process[q], m, d) => p = q

Tried(m, d) == {g \in Inputs!GraphIds : attempts[m][d][g] # "none"}
Enough(m, tried) ==
  \/ tried = Inputs!GraphIds
  \/ m = "footprint" /\ \E g \in tried : Errors[g] <= Tolerance

\* How far a script has got with its directory.
Making(x, m, d, todo) ==
  /\ x.pc \in {"look", "make", "source of it"} => todo = Inputs!GraphIds
  /\ x.pc = "make" => d \in 1 .. Len(attempts[m]) + 1
  /\ x.pc \in OwnPcs => d \in DOMAIN attempts[m]
  /\ x.pc = "source of it" => Tried(m, d) = {}
  /\ x.pc \in {"build", "record"} =>
       /\ \A g \in Tried(m, d) : attempts[m][d][g] = "whole"
       /\ IF todo = {} THEN Enough(m, Tried(m, d)) ELSE Tried(m, d) = Inputs!GraphIds \ todo
  /\ x.pc = "collect" =>
       /\ todo # {}
       /\ Tried(m, d) = (Inputs!GraphIds \ todo) \cup {Inputs!Min(todo)}
       /\ \A g \in Tried(m, d) \ {Inputs!Min(todo)} : attempts[m][d][g] = "whole"
  /\ x.pc = "record" => todo = {}

Made(x) == x.script \in Inputs!Makers => Making(x, x.script, x.at, x.todo)

\* What has a record is in nobody's hands.
Recorded(m) ==
  inputRecord[m].state = "whole" =>
    \E d \in DOMAIN attempts[m] :
       /\ d = inputRecord[m].attempt
       /\ \A p \in Processes : ~Owns(process[p], m, d)
       /\ \A g \in Tried(m, d) : attempts[m][d][g] = "whole"
       /\ Enough(m, Tried(m, d))
       /\ inputRecord[m].graphs =
            IF m = "footprint" THEN Inputs!Nearest(Tried(m, d)) ELSE Tried(m, d)

InputInv ==
  /\ InputTypes /\ OneFetch /\ SourceWhole /\ Owned
  /\ \A p \in Processes : Fetched(process[p]) /\ Made(process[p])
  /\ inputRecord = [m \in Inputs!Makers |-> inputRecord[m]]
  /\ \A m \in Inputs!Makers : Recorded(m)

LEMMA InputsBegin == Inputs!Init => InputInv
  <1> SUFFICES ASSUME Inputs!Init
               PROVE  InputInv
    OBVIOUS
  <1>1. \A p \in Processes : process[p] = Inputs!Idle
    BY DEF Inputs!Init
  <1>2. /\ Inputs!Idle \in ProcessStates /\ Inputs!Idle.script = "none" /\ Inputs!Idle.pc = "off"
        /\ Inputs!Idle.script \notin Inputs!Makers
    BY DEF Inputs!Idle, ProcessStates, Inputs!Makers
  <1>3. InputTypes
    BY <1>1, <1>2 DEF InputTypes, Inputs!Init, InStep, AssetStates
  <1>4. OneFetch /\ SourceWhole /\ Owned
    BY <1>1, <1>2 DEF OneFetch, SourceWhole, Owned, Owns, Inputs!Init
  <1>5. \A p \in Processes : Fetched(process[p]) /\ Made(process[p])
    BY <1>1, <1>2 DEF Fetched, Made
  <1>6. \A m \in Inputs!Makers : inputRecord[m].state = "none"
    BY DEF Inputs!Init, Inputs!Missing
  <1>7. inputRecord = [m \in Inputs!Makers |-> inputRecord[m]]
    BY DEF Inputs!Init
  <1> QED
    BY <1>3, <1>4, <1>5, <1>6, <1>7 DEF InputInv, Recorded

\* A step of a process, p, to x: it writes no directory but its own.
LEMMA ProcessSteps ==
    ASSUME InputInv, NEW p \in Processes, NEW x \in ProcessStates, InStep(x),
           process' = [process EXCEPT ![p] = x],
           asset' \in [Assets -> AssetStates], sourceJson' \in {"none", "torn", "whole"},
           attempts' \in [Inputs!Makers -> Seq(Fillings)],
           asset' = asset \/ process[p].script = "fetch",
           SourceWhole', Fetched(x)', Made(x)',
           x.script = "fetch" => \A q \in Processes \ {p} : process[q].script # "fetch",
           \A m \in Inputs!Makers :
              /\ Len(attempts[m]) <= Len(attempts'[m])
              /\ \A d \in DOMAIN attempts[m] : \/ attempts'[m][d] = attempts[m][d]
                                               \/ Owns(process[p], m, d)
              /\ \A d \in DOMAIN attempts[m] : Owns(x, m, d) => Owns(process[p], m, d)
              /\ \A q \in Processes : \A d \in DOMAIN attempts'[m] :
                    q # p /\ Owns(x, m, d) => ~Owns(process[q], m, d),
           inputRecord' = [m \in Inputs!Makers |-> inputRecord'[m]],
           \A m \in Inputs!Makers : Recorded(m)' \/ inputRecord'[m] = inputRecord[m]
    PROVE  InputInv'
  <1>1. /\ process'[p] = x /\ \A q \in Processes : q # p => process'[q] = process[q]
        /\ process' \in [Processes -> ProcessStates]
    BY DEF InputInv, InputTypes
  <1>2. InputTypes'
    BY <1>1 DEF InputInv, InputTypes, InStep
  <1>3. OneFetch'
    BY <1>1 DEF InputInv, OneFetch
  <1>4. ASSUME NEW m \in Inputs!Makers
        PROVE  /\ Len(attempts[m]) \in Nat /\ Len(attempts'[m]) \in Nat
               /\ DOMAIN attempts[m] = 1 .. Len(attempts[m])
               /\ DOMAIN attempts'[m] = 1 .. Len(attempts'[m])
               /\ DOMAIN attempts[m] \subseteq DOMAIN attempts'[m]
    <2>1. attempts[m] \in Seq(Fillings) /\ attempts'[m] \in Seq(Fillings)
      BY <1>4 DEF InputInv, InputTypes
    <2>2. Len(attempts[m]) <= Len(attempts'[m])
      BY <1>4
    <2> QED
      BY <2>1, <2>2
  <1>5. ASSUME NEW q \in Processes, q # p
        PROVE  Fetched(process[q])'
    <2>1. PICK y : y = process[q]
      OBVIOUS
    <2>2. Fetched(y) /\ (y.script = "fetch" => asset' = asset)
      BY <1>5, <2>1 DEF InputInv, OneFetch
    <2>3. Fetched(y)'
      BY <2>2 DEF Fetched
    <2> QED
      BY <1>1, <1>5, <2>1, <2>3
  <1>6. ASSUME NEW q \in Processes, q # p
        PROVE  Made(process[q])'
    <2>1. PICK y : y = process[q]
      OBVIOUS
    <2> SUFFICES ASSUME y.script \in Inputs!Makers
                 PROVE  Making(y, y.script, y.at, y.todo)'
      BY <1>1, <1>6, <2>1 DEF Made
    <2>2. PICK m, d, todo : m = y.script /\ d = y.at /\ todo = y.todo
      OBVIOUS
    <2>2a. m \in Inputs!Makers
      BY <2>2
    <2>3. Making(y, m, d, todo)
      BY <1>6, <2>1, <2>2 DEF InputInv, Made
    <2>4. y.pc \in OwnPcs => d \in DOMAIN attempts[m] /\ ~Owns(process[p], m, d)
      BY <1>6, <2>1, <2>2, <2>2a, <2>3 DEF InputInv, Owned, Owns, Making
    <2>5. y.pc \in OwnPcs => attempts'[m][d] = attempts[m][d]
      BY <2>2a, <2>4
    <2>6. y.pc \in OwnPcs => Tried(m, d)' = Tried(m, d)
      BY <2>5 DEF Tried
    <2>7. Len(attempts[m]) <= Len(attempts'[m]) /\ Len(attempts[m]) \in Nat
          /\ Len(attempts'[m]) \in Nat /\ DOMAIN attempts[m] \subseteq DOMAIN attempts'[m]
      BY <1>4, <2>2a
    <2>8. Making(y, m, d, todo)'
      <3>1. CASE y.pc \in OwnPcs
        <4>1. /\ d \in DOMAIN attempts'[m] /\ attempts'[m][d] = attempts[m][d]
              /\ Tried(m, d)' = Tried(m, d) /\ y.pc # "make"
          BY <2>4, <2>5, <2>6, <2>7, <3>1 DEF OwnPcs
        <4>2. Enough(m, Tried(m, d))' = Enough(m, Tried(m, d))
          BY <4>1 DEF Enough
        <4> QED
          BY <2>3, <4>1, <4>2 DEF Making
      <3>2. CASE y.pc \notin OwnPcs
        <4>1. y.pc = "make" => d \in 1 .. Len(attempts'[m]) + 1
          BY <2>3, <2>7 DEF Making
        <4> QED
          BY <2>3, <3>2, <4>1 DEF Making, OwnPcs
      <3> QED
        BY <3>1, <3>2
    <2> QED
      BY <2>2, <2>2a, <2>8
  <1>7. Owned'
    <2> SUFFICES ASSUME NEW q \in Processes, NEW r \in Processes, NEW m \in Inputs!Makers,
                        NEW d \in DOMAIN attempts'[m], q # r,
                        Owns(process'[q], m, d), Owns(process'[r], m, d)
                 PROVE  FALSE
      BY DEF Owned, Owns
    <2>1. q # p /\ r # p
      BY <1>1
    <2>2. process[q] = process'[q] /\ process[r] = process'[r]
      BY <1>1, <2>1
    <2>3. Owns(process[q], m, d) /\ Made(process[q])
      BY <2>2 DEF InputInv
    <2>4. d \in DOMAIN attempts[m]
      BY <2>3 DEF Made, Making, Owns
    <2> QED
      BY <2>2, <2>4 DEF InputInv, Owned
  <1>8. ASSUME NEW m \in Inputs!Makers
        PROVE  Recorded(m)'
    <2> SUFFICES ASSUME inputRecord'[m] = inputRecord[m], inputRecord[m].state = "whole"
                 PROVE  Recorded(m)'
      BY DEF Recorded
    <2>1. PICK d \in DOMAIN attempts[m] :
             /\ d = inputRecord[m].attempt
             /\ \A q \in Processes : ~Owns(process[q], m, d)
             /\ \A g \in Tried(m, d) : attempts[m][d][g] = "whole"
             /\ Enough(m, Tried(m, d))
             /\ inputRecord[m].graphs =
                  IF m = "footprint" THEN Inputs!Nearest(Tried(m, d)) ELSE Tried(m, d)
      BY <1>8 DEF InputInv, Recorded
    <2>2. attempts'[m][d] = attempts[m][d]
      BY <1>8, <2>1
    <2>3. Tried(m, d)' = Tried(m, d)
      BY <2>2 DEF Tried
    <2>4. \A q \in Processes : ~Owns(process'[q], m, d)
      BY <1>1, <1>8, <2>1
    <2>5. Enough(m, Tried(m, d))' /\ Inputs!Nearest(Tried(m, d))' = Inputs!Nearest(Tried(m, d))
      BY <2>1, <2>3 DEF Enough, Inputs!Nearest
    <2> QED
      BY <1>4, <1>8, <2>1, <2>2, <2>3, <2>4, <2>5 DEF Recorded, Owns
  <1>9. \A q \in Processes : Fetched(process[q])' /\ Made(process[q])'
    <2>1. Fetched(process[p])' /\ Made(process[p])'
      BY <1>1
    <2> QED
      BY <1>5, <1>6, <2>1
  <1> QED
    BY <1>2, <1>3, <1>7, <1>8, <1>9 DEF InputInv

\* A step that changes nothing but its process.
LEMMA JustSteps ==
    ASSUME InputInv, NEW p \in Processes, NEW x \in ProcessStates, InStep(x),
           process' = [process EXCEPT ![p] = x],
           UNCHANGED <<asset, sourceJson, attempts, inputRecord>>,
           Fetched(x), Made(x),
           x.script = "fetch" => \A q \in Processes \ {p} : process[q].script # "fetch",
           \A m \in Inputs!Makers : \A d : Owns(x, m, d) => Owns(process[p], m, d)
    PROVE  InputInv'
  <1>1. /\ asset' \in [Assets -> AssetStates] /\ sourceJson' \in {"none", "torn", "whole"}
        /\ attempts' \in [Inputs!Makers -> Seq(Fillings)] /\ asset' = asset
        /\ inputRecord' = [m \in Inputs!Makers |-> inputRecord'[m]]
        /\ \A m \in Inputs!Makers : inputRecord'[m] = inputRecord[m]
    BY DEF InputInv, InputTypes
  <1>2. SourceWhole'
    BY DEF InputInv, SourceWhole
  <1>3. Fetched(x)'
    BY DEF Fetched
  <1>4. Made(x)'
    BY DEF Made, Making, Tried, Enough
  <1>5. ASSUME NEW m \in Inputs!Makers
        PROVE  /\ Len(attempts[m]) <= Len(attempts'[m])
               /\ \A d \in DOMAIN attempts[m] : attempts'[m][d] = attempts[m][d]
               /\ \A d \in DOMAIN attempts[m] : Owns(x, m, d) => Owns(process[p], m, d)
               /\ \A q \in Processes : \A d \in DOMAIN attempts'[m] :
                     q # p /\ Owns(x, m, d) => ~Owns(process[q], m, d)
    <2>1. attempts' = attempts /\ attempts[m] \in Seq(Fillings) /\ Owned
      BY <1>5 DEF InputInv, InputTypes
    <2> QED
      BY <1>5, <2>1 DEF Owned
  <1> QED
    BY <1>1, <1>2, <1>3, <1>4, <1>5, ProcessSteps

LEMMA IdleState ==
    /\ Inputs!Idle \in ProcessStates /\ InStep(Inputs!Idle) /\ Inputs!Idle.script = "none"
    /\ Fetched(Inputs!Idle) /\ Made(Inputs!Idle)
    /\ \A m \in Inputs!Makers : \A d : ~Owns(Inputs!Idle, m, d)
  BY DEF Inputs!Idle, ProcessStates, InStep, Fetched, Made, Owns, Inputs!Makers

LEMMA Ended ==
    ASSUME InputInv, NEW p \in Processes, Inputs!Ends(p),
           UNCHANGED <<asset, sourceJson, attempts, inputRecord>>
    PROVE  InputInv'
  <1>1. process' = [process EXCEPT ![p] = Inputs!Idle]
    BY DEF Inputs!Ends
  <1> QED
    BY <1>1, IdleState, JustSteps

\* A process goes on to another step.
LEMMA Going ==
    ASSUME InputInv, NEW p \in Processes, NEW pc \in FetchPcs \cup MakePcs,
           Inputs!Goes(p, pc)
    PROVE  \E x \in ProcessStates :
             /\ process' = [process EXCEPT ![p] = x]
             /\ x.script = process[p].script /\ x.pc = pc /\ x.at = process[p].at
             /\ x.todo = process[p].todo
  <1>1. process[p] \in ProcessStates
    BY DEF InputInv, InputTypes
  <1> DEFINE x == [process[p] EXCEPT !.pc = pc]
  <1>2. x \in ProcessStates /\ process' = [process EXCEPT ![p] = x]
    BY <1>1 DEF Inputs!Goes, InputInv, InputTypes, ProcessStates
  <1>3. /\ x.script = process[p].script /\ x.pc = pc /\ x.at = process[p].at
        /\ x.todo = process[p].todo
    BY <1>1 DEF ProcessStates
  <1> HIDE DEF x
  <1> QED
    BY <1>2, <1>3

LEMMA LaunchKeepsInputs ==
    ASSUME InputInv, NEW p \in Processes, NEW script \in Inputs!Makers \cup {"fetch"},
           Inputs!Launch(p, script)
    PROVE  InputInv'
  <1>1. PICK pc, todo : /\ pc = IF script = "fetch" THEN "fetch" ELSE "look"
                        /\ todo = IF script = "fetch" THEN Assets ELSE Inputs!GraphIds
    OBVIOUS
  <1> DEFINE y == [Inputs!Idle EXCEPT !.script = script]
             z == [y EXCEPT !.pc = pc]
             w == [z EXCEPT !.todo = todo]
  <1>2. process' = [process EXCEPT ![p] = w]
    BY <1>1 DEF Inputs!Launch
  <1>3. /\ UNCHANGED <<asset, sourceJson, attempts, inputRecord>>
        /\ script = "fetch" => \A q \in Processes : process[q].script # "fetch"
    BY DEF Inputs!Launch
  <1>4. y \in ProcessStates /\ y.script = script
    BY IdleState DEF ProcessStates
  <1> HIDE DEF y
  <1>5. z \in ProcessStates /\ z.script = script /\ z.pc = pc
    BY <1>1, <1>4 DEF ProcessStates, FetchPcs, MakePcs
  <1> HIDE DEF z
  <1>6. w \in ProcessStates /\ w.script = script /\ w.pc = pc /\ w.todo = todo
    BY <1>1, <1>5 DEF ProcessStates
  <1> HIDE DEF w
  <1>7. PICK x \in ProcessStates :
           /\ process' = [process EXCEPT ![p] = x]
           /\ x.script = script /\ x.pc = pc /\ x.todo = todo
    BY <1>2, <1>6
  <1>8. InStep(x) /\ Fetched(x) /\ Made(x)
    BY <1>1, <1>7 DEF InStep, Inputs!Makers, FetchPcs, MakePcs, OwnPcs, Fetched, Made, Making
  <1>9. /\ x.script = "fetch" => \A q \in Processes \ {p} : process[q].script # "fetch"
        /\ \A m \in Inputs!Makers : \A d : Owns(x, m, d) => Owns(process[p], m, d)
    BY <1>1, <1>3, <1>7 DEF Owns, OwnPcs
  <1> QED
    BY <1>3, <1>7, <1>8, <1>9, JustSteps

\* The steps of fetch_twitter.py.
LEMMA FetchSteps ==
    ASSUME InputInv, NEW p \in Processes, NEW x \in ProcessStates, InStep(x),
           process[p].script = "fetch", x.script \in {"fetch", "none"},
           process' = [process EXCEPT ![p] = x],
           UNCHANGED <<attempts, inputRecord>>,
           asset' \in [Assets -> AssetStates], sourceJson' \in {"none", "torn", "whole"},
           SourceWhole', Fetched(x)'
    PROVE  InputInv'
  <1>1. /\ attempts' \in [Inputs!Makers -> Seq(Fillings)]
        /\ inputRecord' = [m \in Inputs!Makers |-> inputRecord'[m]]
        /\ \A m \in Inputs!Makers : inputRecord'[m] = inputRecord[m]
        /\ x.script \notin Inputs!Makers
        /\ \A q \in Processes \ {p} : process[q].script # "fetch"
    BY DEF InputInv, InputTypes, OneFetch, Inputs!Makers
  <1>2. Made(x)'
    BY <1>1 DEF Made
  <1>3. ASSUME NEW m \in Inputs!Makers
        PROVE  /\ Len(attempts[m]) <= Len(attempts'[m])
               /\ \A d \in DOMAIN attempts[m] : attempts'[m][d] = attempts[m][d]
               /\ \A d \in DOMAIN attempts[m] : Owns(x, m, d) => Owns(process[p], m, d)
               /\ \A q \in Processes : \A d \in DOMAIN attempts'[m] :
                     q # p /\ Owns(x, m, d) => ~Owns(process[q], m, d)
    <2>1. attempts' = attempts /\ attempts[m] \in Seq(Fillings)
      BY <1>3 DEF InputInv, InputTypes
    <2>2. x.script # m
      BY <1>1, <1>3
    <2> QED
      BY <1>3, <2>1, <2>2 DEF Owns
  <1> QED
    BY <1>1, <1>2, <1>3, ProcessSteps

LEMMA AtFetch ==
    ASSUME InputInv, NEW p \in Processes, process[p].pc \in FetchPcs
    PROVE  /\ process[p].script = "fetch" /\ process[p].todo \subseteq Assets
           /\ process[p] \in ProcessStates /\ Fetched(process[p])
  <1>1. process[p] \in ProcessStates /\ InStep(process[p]) /\ Fetched(process[p])
    BY DEF InputInv, InputTypes
  <1> QED
    BY <1>1 DEF InStep, ProcessStates, FetchPcs, MakePcs, OwnPcs

LEMMA DownloadKeepsInputs ==
    ASSUME InputInv, NEW p \in Processes, NEW a \in Assets, Inputs!Download(p, a)
    PROVE  InputInv'
  <1>1. /\ process[p].script = "fetch" /\ a \in process[p].todo /\ asset[a].dest = "none"
        /\ process[p].todo \subseteq Assets /\ process[p] \in ProcessStates
        /\ Fetched(process[p]) /\ process[p].pc = "fetch"
        /\ UNCHANGED <<sourceJson, attempts, inputRecord>>
    BY AtFetch DEF Inputs!Download, Inputs!In, FetchPcs
  <1>2. PICK c \in {"whole", "spoiled"} : asset' = [asset EXCEPT ![a].partial = c]
    BY DEF Inputs!Download
  <1>3. /\ asset' \in [Assets -> AssetStates]
        /\ \A b \in Assets : asset'[b].dest = asset[b].dest
    BY <1>2 DEF InputInv, InputTypes, AssetStates
  <1> DEFINE y == [process[p] EXCEPT !.pc = "rename"]
             z == [y EXCEPT !.at = a]
  <1>4. process' = [process EXCEPT ![p] = z]
    BY <1>1 DEF Inputs!Download, InputInv, InputTypes, ProcessStates
  <1>5. /\ y \in ProcessStates /\ y.pc = "rename" /\ y.script = "fetch"
        /\ y.todo = process[p].todo
    BY <1>1 DEF ProcessStates, FetchPcs
  <1> HIDE DEF y
  <1>5a. /\ z \in ProcessStates /\ z.pc = "rename" /\ z.script = "fetch"
         /\ z.todo = process[p].todo /\ z.at = a
    BY <1>5 DEF ProcessStates
  <1> HIDE DEF z
  <1>6. PICK x \in ProcessStates :
           /\ process' = [process EXCEPT ![p] = x] /\ x.pc = "rename" /\ x.script = "fetch"
           /\ x.todo = process[p].todo /\ x.at = a
    BY <1>4, <1>5a
  <1>7. InStep(x)
    BY <1>1, <1>6 DEF InStep, FetchPcs, Inputs!Makers
  <1>8. Fetched(x)'
    BY <1>1, <1>3, <1>6 DEF Fetched
  <1>9. SourceWhole'
    BY <1>1, <1>3 DEF InputInv, SourceWhole
  <1>10. sourceJson' \in {"none", "torn", "whole"}
    BY <1>1 DEF InputInv, InputTypes
  <1> QED
    BY <1>1, <1>3, <1>6, <1>7, <1>8, <1>9, <1>10, FetchSteps

LEMMA RenameKeepsInputs ==
    ASSUME InputInv, NEW p \in Processes, Inputs!RenameAsset(p)
    PROVE  InputInv'
  <1>1. /\ process[p].script = "fetch" /\ process[p].todo \subseteq Assets
        /\ process[p].at \in process[p].todo /\ asset[process[p].at].dest = "none"
        /\ Fetched(process[p]) /\ UNCHANGED <<sourceJson, attempts, inputRecord>>
        /\ Inputs!Goes(p, "fetch")
    BY AtFetch DEF Inputs!RenameAsset, Inputs!In, FetchPcs, Fetched
  <1>2. PICK a \in Assets : a = process[p].at
    BY <1>1
  <1>3. asset' = [asset EXCEPT ![a] = [dest |-> asset[a].partial, partial |-> "none"]]
    BY <1>2 DEF Inputs!RenameAsset, InputInv, InputTypes
  <1>4. /\ asset' \in [Assets -> AssetStates]
        /\ \A b \in Assets : b # a => asset'[b] = asset[b]
    BY <1>3 DEF InputInv, InputTypes, AssetStates
  <1>5. PICK x \in ProcessStates :
             /\ process' = [process EXCEPT ![p] = x]
             /\ x.script = process[p].script /\ x.pc = "fetch" /\ x.at = process[p].at
             /\ x.todo = process[p].todo
    BY <1>1, Going DEF FetchPcs
  <1>6. InStep(x)
    BY <1>1, <1>5 DEF InStep, FetchPcs, Inputs!Makers
  <1>7. Fetched(x)'
    BY <1>1, <1>2, <1>4, <1>5 DEF Fetched
  <1>8. SourceWhole' /\ sourceJson' \in {"none", "torn", "whole"}
    BY <1>1, <1>2, <1>4 DEF InputInv, SourceWhole, InputTypes
  <1> QED
    BY <1>1, <1>4, <1>5, <1>6, <1>7, <1>8, FetchSteps

LEMMA VerifyKeepsInputs ==
    ASSUME InputInv, NEW p \in Processes, NEW a \in Assets, Inputs!Verify(p, a)
    PROVE  InputInv'
  <1>1. /\ process[p].script = "fetch" /\ process[p].todo \subseteq Assets
        /\ Fetched(process[p]) /\ process[p] \in ProcessStates /\ process[p].pc = "fetch"
        /\ UNCHANGED <<asset, sourceJson, attempts, inputRecord>>
    BY AtFetch DEF Inputs!Verify, Inputs!In, FetchPcs
  <1>2. CASE ~Inputs!Sound(a)
    BY <1>1, <1>2, Ended DEF Inputs!Verify
  <1>3. CASE Inputs!Sound(a)
    <2> DEFINE z == [process[p] EXCEPT !.todo = @ \ {a}]
    <2>1. process' = [process EXCEPT ![p] = z]
      BY <1>1, <1>3 DEF Inputs!Verify, InputInv, InputTypes
    <2>2. /\ z \in ProcessStates /\ z.script = "fetch" /\ z.pc = "fetch"
          /\ z.todo = process[p].todo \ {a}
      BY <1>1 DEF ProcessStates
    <2> HIDE DEF z
    <2>2a. PICK x \in ProcessStates :
             /\ process' = [process EXCEPT ![p] = x] /\ x.script = "fetch" /\ x.pc = "fetch"
             /\ x.todo = process[p].todo \ {a}
      BY <2>1, <2>2
    <2>3. InStep(x) /\ Fetched(x)'
      BY <1>1, <1>3, <2>2a DEF InStep, FetchPcs, Inputs!Makers, Fetched, Inputs!Sound
    <2>4. /\ SourceWhole' /\ sourceJson' \in {"none", "torn", "whole"}
          /\ asset' \in [Assets -> AssetStates]
      BY <1>1 DEF InputInv, SourceWhole, InputTypes
    <2> QED
      BY <1>1, <2>2a, <2>3, <2>4, FetchSteps
  <1> QED
    BY <1>2, <1>3

LEMMA SourceKeepsInputs ==
    ASSUME InputInv, NEW p \in Processes, Inputs!OpenSource(p) \/ Inputs!WriteSource(p)
    PROVE  InputInv'
  <1>1. /\ process[p].script = "fetch" /\ process[p].todo = {}
        /\ Fetched(process[p]) /\ UNCHANGED <<asset, attempts, inputRecord>>
    BY AtFetch DEF Inputs!OpenSource, Inputs!WriteSource, Inputs!In, FetchPcs, Fetched
  <1>2. asset' \in [Assets -> AssetStates] /\ \A a \in Assets : asset'[a].dest = "whole"
    BY <1>1 DEF InputInv, InputTypes, Fetched
  <1>3. SourceWhole'
    BY <1>2 DEF SourceWhole
  <1>4. CASE Inputs!OpenSource(p)
    <2>1. sourceJson' = "torn" /\ Inputs!Goes(p, "source")
      BY <1>4 DEF Inputs!OpenSource
    <2>2. PICK x \in ProcessStates :
             /\ process' = [process EXCEPT ![p] = x]
             /\ x.script = process[p].script /\ x.pc = "source" /\ x.at = process[p].at
             /\ x.todo = process[p].todo
      BY <2>1, Going DEF FetchPcs
    <2>3. InStep(x) /\ Fetched(x)'
      BY <1>1, <1>2, <2>2 DEF InStep, FetchPcs, Inputs!Makers, Fetched
    <2> QED
      BY <1>1, <1>2, <1>3, <2>1, <2>2, <2>3, FetchSteps
  <1>5. CASE Inputs!WriteSource(p)
    <2>1. sourceJson' = "whole" /\ process' = [process EXCEPT ![p] = Inputs!Idle]
      BY <1>5 DEF Inputs!WriteSource, Inputs!Ends
    <2>2. Fetched(Inputs!Idle)'
      BY IdleState DEF Fetched
    <2> QED
      BY <1>1, <1>2, <1>3, <2>1, <2>2, IdleState, FetchSteps
  <1> QED
    BY <1>4, <1>5

--------------------------------------------------------------------------------
\* The steps of the scripts that make graphs.
LEMMA AtMake ==
    ASSUME InputInv, NEW p \in Processes, process[p].pc \in MakePcs
    PROVE  \E m \in Inputs!Makers, d \in Assets \cup Nat, todo \in SUBSET Inputs!GraphIds :
             /\ m = process[p].script /\ d = process[p].at /\ todo = process[p].todo
             /\ process[p] \in ProcessStates /\ Making(process[p], m, d, todo)
             /\ attempts[m] \in Seq(Fillings)
  <1>1. /\ process[p] \in ProcessStates /\ InStep(process[p]) /\ Made(process[p])
        /\ attempts \in [Inputs!Makers -> Seq(Fillings)]
    BY DEF InputInv, InputTypes
  <1>2. process[p].script \in Inputs!Makers
    BY <1>1 DEF InStep, ProcessStates, FetchPcs, MakePcs, OwnPcs, Inputs!Makers
  <1> QED
    BY <1>1, <1>2 DEF InStep, ProcessStates, Made

LEMMA SomeGraph == Inputs!GraphIds # {} /\ Inputs!GraphIds \subseteq Nat
  <1>1. 1 \in Inputs!GraphIds
    BY InputsAssumption DEF Inputs!GraphIds
  <1> QED
    BY <1>1, InputsAssumption DEF Inputs!GraphIds

LEMMA LookKeepsInputs ==
    ASSUME InputInv, NEW p \in Processes, Inputs!Look(p)
    PROVE  InputInv'
  <1>1. /\ process[p].pc = "look" /\ process[p].pc \in MakePcs
        /\ UNCHANGED <<asset, sourceJson, attempts, inputRecord>>
    BY DEF Inputs!Look, Inputs!In, MakePcs
  <1>2. PICK m \in Inputs!Makers, e \in Assets \cup Nat, todo \in SUBSET Inputs!GraphIds :
             /\ m = process[p].script /\ e = process[p].at /\ todo = process[p].todo
             /\ process[p] \in ProcessStates /\ Making(process[p], m, e, todo)
             /\ attempts[m] \in Seq(Fillings)
    BY <1>1, AtMake
  <1>3. CASE inputRecord[m] # Inputs!Missing
    BY <1>1, <1>2, <1>3, Ended DEF Inputs!Look, Inputs!Script
  <1>4. CASE inputRecord[m] = Inputs!Missing
    <2>1. PICK d \in Nat : d = Len(attempts[m]) + 1
      BY <1>2
    <2> DEFINE y == [process[p] EXCEPT !.pc = "make"]
               z == [y EXCEPT !.at = d]
    <2>2. process' = [process EXCEPT ![p] = z]
      BY <1>2, <1>4, <2>1 DEF Inputs!Look, Inputs!Script, Inputs!Attempts, InputInv, InputTypes,
                              ProcessStates
    <2>3. y \in ProcessStates /\ y.script = m /\ y.pc = "make" /\ y.todo = todo
      BY <1>2 DEF ProcessStates, MakePcs
    <2> HIDE DEF y
    <2>4. z \in ProcessStates /\ z.script = m /\ z.pc = "make" /\ z.todo = todo /\ z.at = d
      BY <2>3 DEF ProcessStates
    <2> HIDE DEF z
    <2>5. PICK x \in ProcessStates :
             /\ process' = [process EXCEPT ![p] = x]
             /\ x.script = m /\ x.pc = "make" /\ x.todo = todo /\ x.at = d
      BY <2>2, <2>4
    <2>6. todo = Inputs!GraphIds /\ d \in 1 .. Len(attempts[m]) + 1
      BY <1>1, <1>2, <2>1 DEF Making
    <2>7. InStep(x) /\ Fetched(x) /\ x.script # "fetch"
      BY <1>2, <2>5 DEF InStep, Fetched, MakePcs, Inputs!Makers
    <2>8. Made(x)
      BY <2>5, <2>6 DEF Made, Making, OwnPcs
    <2>9. \A n \in Inputs!Makers : \A f : Owns(x, n, f) => Owns(process[p], n, f)
      BY <2>5 DEF Owns, OwnPcs
    <2> QED
      BY <1>1, <2>5, <2>7, <2>8, <2>9, JustSteps
  <1> QED
    BY <1>3, <1>4

LEMMA CheckSourceKeepsInputs ==
    ASSUME InputInv, NEW p \in Processes, Inputs!CheckSource(p)
    PROVE  InputInv'
  <1>1. /\ process[p].pc = "source of it" /\ process[p].pc \in MakePcs
        /\ UNCHANGED <<asset, sourceJson, attempts, inputRecord>>
        /\ Inputs!Goes(p, "build") \/ Inputs!Ends(p)
    BY DEF Inputs!CheckSource, Inputs!In, MakePcs, OwnPcs
  <1>2. PICK m \in Inputs!Makers, d \in Assets \cup Nat, todo \in SUBSET Inputs!GraphIds :
             /\ m = process[p].script /\ d = process[p].at /\ todo = process[p].todo
             /\ process[p] \in ProcessStates /\ Making(process[p], m, d, todo)
             /\ attempts[m] \in Seq(Fillings)
    BY <1>1, AtMake
  <1>3. CASE Inputs!Ends(p)
    BY <1>1, <1>3, Ended
  <1>4. CASE Inputs!Goes(p, "build")
    <2>1. PICK x \in ProcessStates :
             /\ process' = [process EXCEPT ![p] = x]
             /\ x.script = process[p].script /\ x.pc = "build" /\ x.at = process[p].at
             /\ x.todo = process[p].todo
      <3>1. "build" \in FetchPcs \cup MakePcs
        BY DEF MakePcs, OwnPcs
      <3> QED
        BY <1>4, <3>1, Going
    <2>2. todo = Inputs!GraphIds /\ d \in DOMAIN attempts[m] /\ Tried(m, d) = {}
      BY <1>1, <1>2 DEF Making, OwnPcs
    <2>3. InStep(x) /\ Fetched(x) /\ x.script # "fetch"
      BY <1>2, <2>1 DEF InStep, Fetched, MakePcs, OwnPcs, Inputs!Makers
    <2>4. Making(x, m, d, todo)
      <3>1. todo # {} /\ Tried(m, d) = Inputs!GraphIds \ todo
        BY <2>2, SomeGraph
      <3>2. \A g \in Tried(m, d) : attempts[m][d][g] = "whole"
        BY <2>2
      <3> QED
        BY <2>1, <2>2, <3>1, <3>2 DEF Making
    <2>5. Made(x)
      BY <1>2, <2>1, <2>4 DEF Made
    <2>6. \A n \in Inputs!Makers : \A f : Owns(x, n, f) => Owns(process[p], n, f)
      BY <1>1, <2>1 DEF Owns, OwnPcs
    <2> QED
      BY <1>1, <2>1, <2>3, <2>5, <2>6, JustSteps
  <1> QED
    BY <1>1, <1>3, <1>4

LEMMA FailKeepsInputs ==
    ASSUME InputInv, NEW p \in Processes, Inputs!Fail(p)
    PROVE  InputInv'
  BY Ended DEF Inputs!Fail

\* A directory is begun.
LEMMA MakeDirectoryKeepsInputs ==
    ASSUME InputInv, NEW p \in Processes, Inputs!MakeDirectory(p)
    PROVE  InputInv'
  <1>1. /\ process[p].pc = "make" /\ process[p].pc \in MakePcs
        /\ UNCHANGED <<asset, sourceJson, inputRecord>>
    BY DEF Inputs!MakeDirectory, Inputs!In, MakePcs
  <1>2. PICK m \in Inputs!Makers, d \in Assets \cup Nat, todo \in SUBSET Inputs!GraphIds :
             /\ m = process[p].script /\ d = process[p].at /\ todo = process[p].todo
             /\ process[p] \in ProcessStates /\ Making(process[p], m, d, todo)
             /\ attempts[m] \in Seq(Fillings)
    BY <1>1, AtMake
  <1>3. CASE ~Inputs!MayMake(p)
    BY <1>1, <1>3, Ended DEF Inputs!MakeDirectory
  <1>4. CASE Inputs!MayMake(p)
    <2>1. d > Len(attempts[m]) /\ d \in 1 .. Len(attempts[m]) + 1 /\ todo = Inputs!GraphIds
      BY <1>1, <1>2, <1>4 DEF Inputs!MayMake, Inputs!Attempts, Inputs!Script, Making
    <2>2. d = Len(attempts[m]) + 1 /\ d \in Nat /\ Len(attempts[m]) \in Nat
      BY <1>2, <2>1
    <2>3. /\ attempts' = [attempts EXCEPT ![m] = Append(@, Inputs!Empty)]
          /\ Inputs!Goes(p, "source of it")
      BY <1>2, <1>4, <2>1 DEF Inputs!MakeDirectory, Inputs!Attempts, Inputs!Script
    <2>4. Inputs!Empty \in Fillings
      BY DEF Inputs!Empty, Fillings, Contents
    <2>5. PICK more : more = Append(attempts[m], Inputs!Empty)
      OBVIOUS
    <2>6. /\ more \in Seq(Fillings) /\ Len(more) = d /\ more[d] = Inputs!Empty
          /\ \A e \in 1 .. Len(attempts[m]) : more[e] = attempts[m][e]
      BY <1>2, <2>2, <2>4, <2>5, AppendProperties
    <2>7. /\ attempts' \in [Inputs!Makers -> Seq(Fillings)] /\ attempts'[m] = more
          /\ \A n \in Inputs!Makers : n # m => attempts'[n] = attempts[n]
      BY <2>3, <2>5, <2>6 DEF InputInv, InputTypes
    <2>8. PICK x \in ProcessStates :
             /\ process' = [process EXCEPT ![p] = x]
             /\ x.script = process[p].script /\ x.pc = "source of it" /\ x.at = process[p].at
             /\ x.todo = process[p].todo
      <3>1. "source of it" \in FetchPcs \cup MakePcs
        BY DEF MakePcs, OwnPcs
      <3> QED
        BY <2>3, <3>1, Going
    <2>9. InStep(x) /\ x.script # "fetch"
      BY <1>2, <2>8 DEF InStep, MakePcs, OwnPcs, Inputs!Makers
    <2>10. Fetched(x)'
      BY <2>9 DEF Fetched
    <2>11. Made(x)'
      <3>1. d \in DOMAIN attempts'[m] /\ attempts'[m][d] = Inputs!Empty
        BY <2>2, <2>6, <2>7
      <3>2. Tried(m, d)' = {}
        BY <3>1 DEF Tried, Inputs!Empty
      <3>3. Making(x, m, d, todo)'
        BY <2>1, <2>8, <3>1, <3>2 DEF Making
      <3> QED
        BY <1>2, <2>8, <3>3 DEF Made
    <2>12. ASSUME NEW n \in Inputs!Makers
           PROVE  /\ Len(attempts[n]) <= Len(attempts'[n])
                  /\ \A e \in DOMAIN attempts[n] : attempts'[n][e] = attempts[n][e]
                  /\ \A e \in DOMAIN attempts[n] : ~Owns(x, n, e)
                  /\ \A q \in Processes : \A e \in DOMAIN attempts'[n] :
                        q # p /\ Owns(x, n, e) => ~Owns(process[q], n, e)
      <3>1. attempts[n] \in Seq(Fillings) /\ Len(attempts[n]) \in Nat
            /\ DOMAIN attempts[n] = 1 .. Len(attempts[n])
        BY <2>12 DEF InputInv, InputTypes
      <3>2. \A e : Owns(x, n, e) => n = m /\ e = d
        BY <1>2, <2>8 DEF Owns
      <3>3. \A q \in Processes : \A e : Owns(process[q], m, e) => e \in DOMAIN attempts[m]
        BY <1>2 DEF InputInv, Made, Making, Owns
      <3>4. d \notin DOMAIN attempts[m]
        BY <1>2, <2>2
      <3> QED
        BY <2>2, <2>6, <2>7, <3>1, <3>2, <3>3, <3>4
    <2>13. /\ asset' \in [Assets -> AssetStates] /\ sourceJson' \in {"none", "torn", "whole"}
           /\ SourceWhole' /\ inputRecord' = [n \in Inputs!Makers |-> inputRecord'[n]]
           /\ asset' = asset /\ \A n \in Inputs!Makers : inputRecord'[n] = inputRecord[n]
      BY <1>1 DEF InputInv, InputTypes, SourceWhole
    <2>14. \A n \in Inputs!Makers :
              /\ Len(attempts[n]) <= Len(attempts'[n])
              /\ \A e \in DOMAIN attempts[n] : \/ attempts'[n][e] = attempts[n][e]
                                               \/ Owns(process[p], n, e)
              /\ \A e \in DOMAIN attempts[n] : Owns(x, n, e) => Owns(process[p], n, e)
              /\ \A q \in Processes : \A e \in DOMAIN attempts'[n] :
                    q # p /\ Owns(x, n, e) => ~Owns(process[q], n, e)
      BY <2>12
    <2> QED
      BY <2>7, <2>8, <2>9, <2>10, <2>11, <2>13, <2>14, ProcessSteps
  <1> QED
    BY <1>3, <1>4

\* A graph of a directory is written.
Fill(f, m, d, g, content) == [f EXCEPT ![m][d][g] = content]

LEMMA Filled ==
    ASSUME NEW f \in [Inputs!Makers -> Seq(Fillings)], NEW m \in Inputs!Makers,
           NEW d \in DOMAIN f[m], NEW g \in Inputs!GraphIds, NEW content \in Contents
    PROVE  /\ Fill(f, m, d, g, content) \in [Inputs!Makers -> Seq(Fillings)]
           /\ Fill(f, m, d, g, content)[m][d] = [f[m][d] EXCEPT ![g] = content]
           /\ f[m][d] \in Fillings
           /\ \A n \in Inputs!Makers :
                 /\ Len(Fill(f, m, d, g, content)[n]) = Len(f[n])
                 /\ \A e \in DOMAIN f[n] :
                       n # m \/ e # d => Fill(f, m, d, g, content)[n][e] = f[n][e]
  <1>1. PICK s : s = f[m]
    OBVIOUS
  <1>2. s \in Seq(Fillings) /\ d \in 1 .. Len(s) /\ Len(s) \in Nat
    BY <1>1
  <1>3. PICK h : h = [s[d] EXCEPT ![g] = content]
    OBVIOUS
  <1>4. s[d] \in Fillings /\ h \in Fillings
    BY <1>2, <1>3 DEF Fillings
  <1>5. PICK t : t = [s EXCEPT ![d] = h]
    OBVIOUS
  <1>6. /\ t \in Seq(Fillings) /\ Len(t) = Len(s) /\ t[d] = h
        /\ \A e \in 1 .. Len(s) : e # d => t[e] = s[e]
    BY <1>2, <1>4, <1>5
  <1>7. Fill(f, m, d, g, content) = [f EXCEPT ![m] = t]
    BY <1>1, <1>3, <1>5 DEF Fill
  <1>8. PICK k : k = Fill(f, m, d, g, content)
    OBVIOUS
  <1>9. /\ k \in [Inputs!Makers -> Seq(Fillings)] /\ k[m] = t
        /\ \A n \in Inputs!Makers : n # m => k[n] = f[n]
    BY <1>6, <1>7, <1>8
  <1>10. /\ k[m][d] = [f[m][d] EXCEPT ![g] = content] /\ f[m][d] \in Fillings
         /\ \A n \in Inputs!Makers :
                 /\ Len(k[n]) = Len(f[n])
                 /\ \A e \in DOMAIN f[n] : n # m \/ e # d => k[n][e] = f[n][e]
    <2>1. k[m][d] = [f[m][d] EXCEPT ![g] = content] /\ f[m][d] \in Fillings
      BY <1>1, <1>3, <1>4, <1>6, <1>9
    <2>2. ASSUME NEW n \in Inputs!Makers, n # m
          PROVE  k[n] = f[n]
      BY <1>9, <2>2
    <2>3. Len(k[m]) = Len(f[m]) /\ \A e \in DOMAIN f[m] : e # d => k[m][e] = f[m][e]
      BY <1>1, <1>2, <1>6, <1>9
    <2> QED
      BY <2>1, <2>2, <2>3
  <1> QED
    BY <1>8, <1>9, <1>10

LEMMA FilledGraphs ==
    ASSUME InputInv, NEW m \in Inputs!Makers, NEW d \in DOMAIN attempts[m],
           NEW g \in Inputs!GraphIds, NEW content \in Contents, content # "none",
           attempts' = Fill(attempts, m, d, g, content)
    PROVE  /\ attempts' \in [Inputs!Makers -> Seq(Fillings)]
           /\ d \in DOMAIN attempts'[m] /\ Tried(m, d)' = Tried(m, d) \cup {g}
           /\ attempts'[m][d][g] = content
           /\ \A h \in Inputs!GraphIds : h # g => attempts'[m][d][h] = attempts[m][d][h]
           /\ \A n \in Inputs!Makers :
                 /\ Len(attempts'[n]) = Len(attempts[n])
                 /\ \A e \in DOMAIN attempts[n] :
                       n # m \/ e # d => attempts'[n][e] = attempts[n][e]
  <1>1. attempts \in [Inputs!Makers -> Seq(Fillings)]
    BY DEF InputInv, InputTypes
  <1>2. PICK f : f = attempts
    OBVIOUS
  <1>3. f \in [Inputs!Makers -> Seq(Fillings)] /\ d \in DOMAIN f[m]
    BY <1>1, <1>2
  <1>4. /\ Fill(f, m, d, g, content) \in [Inputs!Makers -> Seq(Fillings)]
        /\ Fill(f, m, d, g, content)[m][d] = [f[m][d] EXCEPT ![g] = content]
        /\ f[m][d] \in Fillings
        /\ \A n \in Inputs!Makers :
                 /\ Len(Fill(f, m, d, g, content)[n]) = Len(f[n])
                 /\ \A e \in DOMAIN f[n] :
                       n # m \/ e # d => Fill(f, m, d, g, content)[n][e] = f[n][e]
    BY <1>3, Filled, SMTT(60)
  <1>5. /\ attempts' \in [Inputs!Makers -> Seq(Fillings)]
        /\ attempts'[m][d] = [attempts[m][d] EXCEPT ![g] = content]
        /\ attempts[m][d] \in Fillings
        /\ \A n \in Inputs!Makers :
                 /\ Len(attempts'[n]) = Len(attempts[n])
                 /\ \A e \in DOMAIN attempts[n] :
                       n # m \/ e # d => attempts'[n][e] = attempts[n][e]
    BY <1>2, <1>4
  <1>6. /\ attempts'[m][d][g] = content
        /\ \A h \in Inputs!GraphIds : h # g => attempts'[m][d][h] = attempts[m][d][h]
    BY <1>5 DEF Fillings
  <1>7. Tried(m, d)' = Tried(m, d) \cup {g}
    BY <1>6 DEF Tried
  <1>8. attempts[m] \in Seq(Fillings) /\ attempts'[m] \in Seq(Fillings)
        /\ Len(attempts'[m]) = Len(attempts[m])
    BY <1>1, <1>5
  <1>9. d \in DOMAIN attempts'[m]
    BY <1>8
  <1> QED
    BY <1>5, <1>6, <1>7, <1>9

LEMMA FillSteps ==
    ASSUME InputInv, NEW p \in Processes, NEW x \in ProcessStates, InStep(x),
           process' = [process EXCEPT ![p] = x], UNCHANGED <<asset, sourceJson, inputRecord>>,
           NEW m \in Inputs!Makers, NEW d \in DOMAIN attempts[m],
           NEW g \in Inputs!GraphIds, NEW content \in Contents, content # "none",
           attempts' = Fill(attempts, m, d, g, content),
           Owns(process[p], m, d), Owns(x, m, d), Made(x)'
    PROVE  InputInv'
  <1>1. /\ asset' \in [Assets -> AssetStates] /\ sourceJson' \in {"none", "torn", "whole"}
        /\ SourceWhole' /\ inputRecord' = [n \in Inputs!Makers |-> inputRecord'[n]]
        /\ asset' = asset /\ \A n \in Inputs!Makers : inputRecord'[n] = inputRecord[n]
    BY DEF InputInv, InputTypes, SourceWhole
  <1>2. x.script # "fetch"
    BY DEF Owns, Inputs!Makers
  <1>3. Fetched(x)'
    BY <1>2 DEF Fetched
  <1>4. /\ attempts' \in [Inputs!Makers -> Seq(Fillings)]
        /\ \A n \in Inputs!Makers :
                 /\ Len(attempts'[n]) = Len(attempts[n])
                 /\ \A e \in DOMAIN attempts[n] :
                       n # m \/ e # d => attempts'[n][e] = attempts[n][e]
    BY FilledGraphs
  <1>5. ASSUME NEW n \in Inputs!Makers
        PROVE  /\ Len(attempts[n]) <= Len(attempts'[n])
               /\ \A e \in DOMAIN attempts[n] : \/ attempts'[n][e] = attempts[n][e]
                                                \/ Owns(process[p], n, e)
               /\ \A e \in DOMAIN attempts[n] : Owns(x, n, e) => Owns(process[p], n, e)
               /\ \A q \in Processes : \A e \in DOMAIN attempts'[n] :
                     q # p /\ Owns(x, n, e) => ~Owns(process[q], n, e)
    <2>1. attempts[n] \in Seq(Fillings) /\ attempts'[n] \in Seq(Fillings)
          /\ Len(attempts'[n]) = Len(attempts[n])
      BY <1>4, <1>5 DEF InputInv, InputTypes
    <2>2. Len(attempts[n]) <= Len(attempts'[n]) /\ DOMAIN attempts'[n] = DOMAIN attempts[n]
      BY <2>1
    <2>3. \A e : Owns(x, n, e) => n = m /\ e = d
      BY DEF Owns
    <2>4. \A q \in Processes : q # p => ~Owns(process[q], m, d)
      BY DEF InputInv, Owned
    <2> QED
      BY <1>4, <1>5, <2>2, <2>3, <2>4
  <1> QED
    BY <1>1, <1>2, <1>3, <1>4, <1>5, ProcessSteps

LEMMA Least ==
    ASSUME NEW S, S \subseteq Nat, S # {}
    PROVE  Inputs!Min(S) \in S /\ \A y \in S : Inputs!Min(S) <= y
  BY LeastOf DEF Inputs!Min

LEMMA BuildKeepsInputs ==
    ASSUME InputInv, NEW p \in Processes, Inputs!Build(p)
    PROVE  InputInv'
  <1>1. /\ process[p].pc = "build" /\ process[p].pc \in MakePcs /\ process[p].todo # {}
        /\ UNCHANGED <<asset, sourceJson, inputRecord>> /\ Inputs!Goes(p, "collect")
    BY DEF Inputs!Build, Inputs!In, MakePcs, OwnPcs
  <1>2. PICK m \in Inputs!Makers, d \in Assets \cup Nat, todo \in SUBSET Inputs!GraphIds :
             /\ m = process[p].script /\ d = process[p].at /\ todo = process[p].todo
             /\ process[p] \in ProcessStates /\ Making(process[p], m, d, todo)
             /\ attempts[m] \in Seq(Fillings)
    BY <1>1, AtMake
  <1>3. PICK g : g = Inputs!Min(todo)
    OBVIOUS
  <1>4. g \in todo /\ g \in Inputs!GraphIds
    BY <1>1, <1>2, <1>3, Least, SomeGraph
  <1>5. /\ d \in DOMAIN attempts[m] /\ todo # {} /\ Tried(m, d) = Inputs!GraphIds \ todo
        /\ \A h \in Tried(m, d) : attempts[m][d][h] = "whole"
    BY <1>1, <1>2 DEF Making, OwnPcs
  <1>6. attempts' = Fill(attempts, m, d, g, "part")
    BY <1>2, <1>3 DEF Inputs!Build, Inputs!Script, Fill
  <1>7. "part" \in Contents /\ "part" # "none"
    BY DEF Contents
  <1>8. /\ d \in DOMAIN attempts'[m] /\ Tried(m, d)' = Tried(m, d) \cup {g}
        /\ \A h \in Inputs!GraphIds : h # g => attempts'[m][d][h] = attempts[m][d][h]
    BY <1>4, <1>5, <1>6, <1>7, FilledGraphs
  <1>9. "collect" \in FetchPcs \cup MakePcs
    BY DEF MakePcs, OwnPcs
  <1>10. PICK x \in ProcessStates :
             /\ process' = [process EXCEPT ![p] = x]
             /\ x.script = process[p].script /\ x.pc = "collect" /\ x.at = process[p].at
             /\ x.todo = process[p].todo
    BY <1>1, <1>9, Going
  <1>11. InStep(x) /\ Owns(x, m, d) /\ Owns(process[p], m, d)
    BY <1>1, <1>2, <1>10 DEF InStep, Owns, MakePcs, OwnPcs, Inputs!Makers
  <1>12. /\ Tried(m, d)' = (Inputs!GraphIds \ todo) \cup {Inputs!Min(todo)}
         /\ \A h \in Tried(m, d)' \ {Inputs!Min(todo)} : attempts'[m][d][h] = "whole"
    BY <1>3, <1>4, <1>5, <1>8
  <1>13. Making(x, m, d, todo)'
    BY <1>5, <1>8, <1>10, <1>12 DEF Making, Inputs!Min
  <1>14. Made(x)'
    BY <1>2, <1>10, <1>13 DEF Made
  <1> QED
    BY <1>1, <1>4, <1>5, <1>6, <1>7, <1>10, <1>11, <1>14, FillSteps

LEMMA CollectKeepsInputs ==
    ASSUME InputInv, NEW p \in Processes, Inputs!Collect(p)
    PROVE  InputInv'
  <1>1. /\ process[p].pc = "collect" /\ process[p].pc \in MakePcs
        /\ UNCHANGED <<asset, sourceJson, inputRecord>>
    BY DEF Inputs!Collect, Inputs!In, MakePcs, OwnPcs
  <1>2. PICK m \in Inputs!Makers, d \in Assets \cup Nat, todo \in SUBSET Inputs!GraphIds :
             /\ m = process[p].script /\ d = process[p].at /\ todo = process[p].todo
             /\ process[p] \in ProcessStates /\ Making(process[p], m, d, todo)
             /\ attempts[m] \in Seq(Fillings)
    BY <1>1, AtMake
  <1>3. PICK g : g = Inputs!Min(todo)
    OBVIOUS
  <1>4. /\ d \in DOMAIN attempts[m] /\ todo # {}
        /\ Tried(m, d) = (Inputs!GraphIds \ todo) \cup {g}
        /\ \A h \in Tried(m, d) \ {g} : attempts[m][d][h] = "whole"
    BY <1>1, <1>2, <1>3 DEF Making, OwnPcs
  <1>5. g \in todo /\ g \in Inputs!GraphIds
    BY <1>2, <1>3, <1>4, Least, SomeGraph
  <1>6. PICK rest : rest = IF m = "footprint" /\ Errors[g] <= Tolerance THEN {} ELSE todo \ {g}
    OBVIOUS
  <1>7. /\ attempts' = Fill(attempts, m, d, g, "whole")
        /\ process' = [process EXCEPT ![p].pc = "build", ![p].todo = rest]
    BY <1>2, <1>3, <1>6 DEF Inputs!Collect, Inputs!Script, Fill, InputInv, InputTypes
  <1>8. "whole" \in Contents /\ "whole" # "none"
    BY DEF Contents
  <1>9. /\ d \in DOMAIN attempts'[m] /\ Tried(m, d)' = Tried(m, d) \cup {g}
        /\ attempts'[m][d][g] = "whole"
        /\ \A h \in Inputs!GraphIds : h # g => attempts'[m][d][h] = attempts[m][d][h]
    BY <1>4, <1>5, <1>7, <1>8, FilledGraphs
  <1> DEFINE y == [process[p] EXCEPT !.pc = "build"]
             z == [y EXCEPT !.todo = rest]
  <1>10. process' = [process EXCEPT ![p] = z]
    BY <1>2, <1>7 DEF InputInv, InputTypes, ProcessStates
  <1>11. rest \in SUBSET Inputs!GraphIds /\ rest \in SUBSET (Assets \cup Inputs!GraphIds)
    BY <1>6
  <1>12. y \in ProcessStates /\ y.script = m /\ y.pc = "build" /\ y.at = d
    BY <1>2 DEF ProcessStates, MakePcs, OwnPcs
  <1> HIDE DEF y
  <1>13. z \in ProcessStates /\ z.script = m /\ z.pc = "build" /\ z.at = d /\ z.todo = rest
    BY <1>11, <1>12 DEF ProcessStates
  <1> HIDE DEF z
  <1>14. PICK x \in ProcessStates :
            /\ process' = [process EXCEPT ![p] = x]
            /\ x.script = m /\ x.pc = "build" /\ x.at = d /\ x.todo = rest
    BY <1>10, <1>13
  <1>15. InStep(x) /\ Owns(x, m, d) /\ Owns(process[p], m, d)
    BY <1>1, <1>2, <1>11, <1>14 DEF InStep, Owns, MakePcs, OwnPcs, Inputs!Makers
  <1>16. Tried(m, d)' = (Inputs!GraphIds \ todo) \cup {g}
    BY <1>4, <1>9
  <1>17. \A h \in Tried(m, d)' : attempts'[m][d][h] = "whole"
    <2>1. Tried(m, d)' \subseteq Inputs!GraphIds
      BY DEF Tried
    <2> QED
      BY <1>4, <1>9, <2>1
  <1>18. IF rest = {} THEN Enough(m, Tried(m, d)') ELSE Tried(m, d)' = Inputs!GraphIds \ rest
    <2>1. CASE m = "footprint" /\ Errors[g] <= Tolerance
      BY <1>6, <1>16, <2>1 DEF Enough
    <2>2. CASE ~(m = "footprint" /\ Errors[g] <= Tolerance)
      <3>1. rest = todo \ {g}
        BY <1>6, <2>2
      <3>2. Tried(m, d)' = Inputs!GraphIds \ rest
        BY <1>2, <1>5, <1>16, <3>1
      <3> QED
        BY <3>2 DEF Enough
    <2> QED
      BY <2>1, <2>2
  <1>19. Making(x, m, d, rest)'
    BY <1>9, <1>14, <1>17, <1>18 DEF Making, Enough
  <1>20. Made(x)'
    BY <1>14, <1>19 DEF Made
  <1> QED
    BY <1>1, <1>4, <1>5, <1>7, <1>8, <1>14, <1>15, <1>20, FillSteps

\* The steps that write a record.
LEMMA RecordSteps ==
    ASSUME InputInv, NEW p \in Processes, NEW x \in ProcessStates, InStep(x),
           process' = [process EXCEPT ![p] = x], UNCHANGED <<asset, sourceJson, attempts>>,
           x.script # "fetch", Made(x),
           \A m \in Inputs!Makers : \A d : Owns(x, m, d) => Owns(process[p], m, d),
           NEW m \in Inputs!Makers, NEW r,
           inputRecord' = [inputRecord EXCEPT ![m] = r], Recorded(m)'
    PROVE  InputInv'
  <1>1. /\ asset' \in [Assets -> AssetStates] /\ sourceJson' \in {"none", "torn", "whole"}
        /\ attempts' \in [Inputs!Makers -> Seq(Fillings)] /\ asset' = asset /\ SourceWhole'
    BY DEF InputInv, InputTypes, SourceWhole
  <1>2. /\ inputRecord' = [n \in Inputs!Makers |-> inputRecord'[n]]
        /\ \A n \in Inputs!Makers : n # m => inputRecord'[n] = inputRecord[n]
    BY DEF InputInv
  <1>3. Fetched(x)'
    BY DEF Fetched
  <1>4. Made(x)'
    BY DEF Made, Making, Tried, Enough
  <1>5. ASSUME NEW n \in Inputs!Makers
        PROVE  /\ Len(attempts[n]) <= Len(attempts'[n])
               /\ \A d \in DOMAIN attempts[n] : attempts'[n][d] = attempts[n][d]
               /\ \A d \in DOMAIN attempts[n] : Owns(x, n, d) => Owns(process[p], n, d)
               /\ \A q \in Processes : \A d \in DOMAIN attempts'[n] :
                     q # p /\ Owns(x, n, d) => ~Owns(process[q], n, d)
    <2>1. attempts' = attempts /\ attempts[n] \in Seq(Fillings) /\ Owned
      BY <1>5 DEF InputInv, InputTypes
    <2> QED
      BY <1>5, <2>1 DEF Owned
  <1>6. \A n \in Inputs!Makers : Recorded(n)' \/ inputRecord'[n] = inputRecord[n]
    BY <1>2
  <1> QED
    BY <1>1, <1>2, <1>3, <1>4, <1>5, <1>6, ProcessSteps

LEMMA OpenRecordKeepsInputs ==
    ASSUME InputInv, NEW p \in Processes, Inputs!OpenRecord(p)
    PROVE  InputInv'
  <1>1. /\ process[p].pc = "build" /\ process[p].pc \in MakePcs /\ process[p].todo = {}
        /\ UNCHANGED <<asset, sourceJson, attempts>> /\ Inputs!Goes(p, "record")
    BY DEF Inputs!OpenRecord, Inputs!In, MakePcs, OwnPcs
  <1>2. PICK m \in Inputs!Makers, d \in Assets \cup Nat, todo \in SUBSET Inputs!GraphIds :
             /\ m = process[p].script /\ d = process[p].at /\ todo = process[p].todo
             /\ process[p] \in ProcessStates /\ Making(process[p], m, d, todo)
             /\ attempts[m] \in Seq(Fillings)
    BY <1>1, AtMake
  <1>3. inputRecord' = [inputRecord EXCEPT ![m] = Inputs!Torn]
    BY <1>2 DEF Inputs!OpenRecord, Inputs!Script
  <1>4. inputRecord'[m] = Inputs!Torn
    BY <1>3 DEF InputInv
  <1>5. Recorded(m)'
    BY <1>4 DEF Recorded, Inputs!Torn
  <1>6. "record" \in FetchPcs \cup MakePcs
    BY DEF MakePcs, OwnPcs
  <1>7. PICK x \in ProcessStates :
             /\ process' = [process EXCEPT ![p] = x]
             /\ x.script = process[p].script /\ x.pc = "record" /\ x.at = process[p].at
             /\ x.todo = process[p].todo
    BY <1>1, <1>6, Going
  <1>8. /\ InStep(x) /\ x.script # "fetch"
        /\ \A n \in Inputs!Makers : \A e : Owns(x, n, e) => Owns(process[p], n, e)
    BY <1>1, <1>2, <1>7 DEF InStep, Owns, MakePcs, OwnPcs, Inputs!Makers
  <1>9. Making(x, m, d, todo)
    BY <1>1, <1>2, <1>7 DEF Making, OwnPcs
  <1>10. Made(x)
    BY <1>2, <1>7, <1>9 DEF Made
  <1> QED
    BY <1>1, <1>3, <1>5, <1>7, <1>8, <1>10, RecordSteps

LEMMA WriteRecordKeepsInputs ==
    ASSUME InputInv, NEW p \in Processes, Inputs!WriteRecord(p)
    PROVE  InputInv'
  <1>1. /\ process[p].pc = "record" /\ process[p].pc \in MakePcs
        /\ UNCHANGED <<asset, sourceJson, attempts>>
        /\ process' = [process EXCEPT ![p] = Inputs!Idle]
    BY DEF Inputs!WriteRecord, Inputs!In, Inputs!Ends, MakePcs, OwnPcs
  <1>2. PICK m \in Inputs!Makers, d \in Assets \cup Nat, todo \in SUBSET Inputs!GraphIds :
             /\ m = process[p].script /\ d = process[p].at /\ todo = process[p].todo
             /\ process[p] \in ProcessStates /\ Making(process[p], m, d, todo)
             /\ attempts[m] \in Seq(Fillings)
    BY <1>1, AtMake
  <1>3. /\ d \in DOMAIN attempts[m] /\ Enough(m, Tried(m, d))
        /\ \A g \in Tried(m, d) : attempts[m][d][g] = "whole"
    BY <1>1, <1>2 DEF Making, OwnPcs
  <1>4. PICK graphs : graphs = IF m = "footprint" THEN Inputs!Nearest(Tried(m, d)) ELSE Tried(m, d)
    OBVIOUS
  <1>5. PICK r : r = Inputs!Names(d, graphs)
    BY SMTT(30)
  <1>6. inputRecord' = [inputRecord EXCEPT ![m] = r]
    BY <1>2, <1>4, <1>5 DEF Inputs!WriteRecord, Inputs!Script, Inputs!Attempts, Tried
  <1>7. inputRecord'[m] = r /\ r.attempt = d /\ r.graphs = graphs
    BY <1>5, <1>6 DEF InputInv, Inputs!Names
  <1>8. /\ Tried(m, d)' = Tried(m, d) /\ Enough(m, Tried(m, d))'
        /\ Inputs!Nearest(Tried(m, d))' = Inputs!Nearest(Tried(m, d))
    BY <1>1, <1>3 DEF Tried, Enough, Inputs!Nearest
  <1>9. Owns(process[p], m, d)
    BY <1>1, <1>2 DEF Owns, OwnPcs
  <1>10. \A q \in Processes : ~Owns(process'[q], m, d)
    <2>1. \A q \in Processes : process'[q] = IF q = p THEN Inputs!Idle ELSE process[q]
      BY <1>1 DEF InputInv, InputTypes
    <2>2. \A q \in Processes : q # p => ~Owns(process[q], m, d)
      BY <1>3, <1>9 DEF InputInv, Owned
    <2> QED
      BY <2>1, <2>2, IdleState
  <1>11. Recorded(m)'
    BY <1>1, <1>3, <1>4, <1>7, <1>8, <1>10 DEF Recorded, Owns
  <1> QED
    BY <1>1, <1>6, <1>11, IdleState, RecordSteps

LEMMA InputStep == InputInv /\ [Next]_offlineVars => InputInv'
  <1> SUFFICES ASSUME InputInv, [Next]_offlineVars
               PROVE  InputInv'
    OBVIOUS
  <1>1. CASE Inputs!Next
    <2>1. PICK p \in Processes :
             \/ \E script \in Inputs!Makers \cup {"fetch"} : Inputs!Launch(p, script)
             \/ \E a \in Assets : Inputs!Download(p, a) \/ Inputs!Verify(p, a)
             \/ Inputs!RenameAsset(p) \/ Inputs!OpenSource(p) \/ Inputs!WriteSource(p)
             \/ Inputs!Look(p) \/ Inputs!MakeDirectory(p) \/ Inputs!CheckSource(p)
             \/ Inputs!Build(p) \/ Inputs!Collect(p)
             \/ Inputs!OpenRecord(p) \/ Inputs!WriteRecord(p) \/ Inputs!Fail(p)
      BY <1>1 DEF Inputs!Next
    <2>2. ASSUME NEW script \in Inputs!Makers \cup {"fetch"}, Inputs!Launch(p, script)
          PROVE  InputInv'
      BY <2>2, LaunchKeepsInputs
    <2>3. ASSUME NEW a \in Assets, Inputs!Download(p, a) \/ Inputs!Verify(p, a)
          PROVE  InputInv'
      BY <2>3, DownloadKeepsInputs, VerifyKeepsInputs
    <2>4. Inputs!RenameAsset(p) \/ Inputs!OpenSource(p) \/ Inputs!WriteSource(p) => InputInv'
      BY RenameKeepsInputs, SourceKeepsInputs
    <2>5. Inputs!Look(p) \/ Inputs!MakeDirectory(p) \/ Inputs!CheckSource(p) \/ Inputs!Build(p)
          \/ Inputs!Collect(p) => InputInv'
      BY LookKeepsInputs, MakeDirectoryKeepsInputs, CheckSourceKeepsInputs, BuildKeepsInputs,
         CollectKeepsInputs
    <2>6. Inputs!OpenRecord(p) \/ Inputs!WriteRecord(p) \/ Inputs!Fail(p) => InputInv'
      BY OpenRecordKeepsInputs, WriteRecordKeepsInputs, FailKeepsInputs
    <2> QED
      BY <2>1, <2>2, <2>3, <2>4, <2>5, <2>6
  <1>2. CASE UNCHANGED Inputs!inputVars
    <2>1. UNCHANGED <<asset, sourceJson, attempts, inputRecord, process>>
      BY <1>2 DEF Inputs!inputVars
    <2>2. InputTypes' /\ OneFetch' /\ SourceWhole' /\ Owned'
      BY <2>1 DEF InputInv, InputTypes, OneFetch, SourceWhole, Owned
    <2>3. ASSUME NEW p \in Processes
          PROVE  Fetched(process[p])' /\ Made(process[p])'
      <3>1. PICK x : x = process[p]
        OBVIOUS
      <3>2. Fetched(x) /\ Made(x) /\ process'[p] = x
        BY <2>1, <2>3, <3>1 DEF InputInv
      <3>3. Fetched(x)'
        BY <2>1, <3>2 DEF Fetched
      <3>4. Made(x)'
        BY <2>1, <3>2, ZenonT(40) DEF Made, Making, Tried, Enough
      <3> QED
        BY <3>2, <3>3, <3>4
    <2>4. inputRecord' = [m \in Inputs!Makers |-> inputRecord'[m]]
      BY <2>1 DEF InputInv
    <2>5. ASSUME NEW m \in Inputs!Makers
          PROVE  Recorded(m)'
      <3>1. /\ \A d : /\ Tried(m, d)' = Tried(m, d) /\ Enough(m, Tried(m, d))' = Enough(m, Tried(m, d))
                      /\ Inputs!Nearest(Tried(m, d))' = Inputs!Nearest(Tried(m, d))
            /\ Recorded(m)
        BY <2>1, <2>5 DEF InputInv, Tried, Enough, Inputs!Nearest
      <3> QED
        BY <2>1, <3>1 DEF Recorded, Owns
    <2> QED
      BY <2>2, <2>3, <2>4, <2>5 DEF InputInv
  <1>3. Inputs!Next \/ UNCHANGED Inputs!inputVars
    BY DEF Next, Migrate, Analyse, Study, Prepare, Simulate, offlineVars, inputVars,
           Inputs!inputVars
  <1> QED
    BY <1>1, <1>2, <1>3

\* There is one nearest candidate, and it is near enough if one is.
LEMMA NearestIsOne ==
    ASSUME NEW tried \in SUBSET Inputs!GraphIds, tried # {}
    PROVE  \E g \in tried : /\ Inputs!Nearest(tried) = {g}
                             /\ \A h \in tried : Errors[g] <= Errors[h]
  <1>1. Errors \in [Inputs!GraphIds -> Nat] /\ Inputs!GraphIds \subseteq Nat
    BY InputsAssumption DEF Inputs!GraphIds
  <1> DEFINE errors == {Errors[g] : g \in tried}
             least == Inputs!Min(errors)
             ties == {g \in tried : Errors[g] = least}
             first == Inputs!Min(ties)
  <1>2. least \in errors /\ \A y \in errors : least <= y
    <2>1. errors \subseteq Nat /\ errors # {}
      BY <1>1
    <2> HIDE DEF errors
    <2> QED
      BY <2>1, Least
  <1>3. first \in ties /\ \A y \in ties : first <= y
    <2>1. ties \subseteq Nat /\ ties # {}
      BY <1>1, <1>2
    <2> HIDE DEF ties
    <2> QED
      BY <2>1, Least
  <1> HIDE DEF least, first
  <1>4. PICK g \in tried : g = first
    BY <1>3
  <1>5. Errors[g] = least /\ \A h \in tried : Errors[g] <= Errors[h]
    BY <1>2, <1>3, <1>4
  <1>6. ASSUME NEW h \in tried, h # g
        PROVE  Errors[g] < Errors[h] \/ (Errors[g] = Errors[h] /\ g <= h)
    <2>1. Errors[g] \in Nat /\ Errors[h] \in Nat /\ Errors[g] <= Errors[h]
      BY <1>1, <1>5
    <2>2. Errors[h] = Errors[g] => g <= h
      BY <1>3, <1>4, <1>5, <1>6
    <2> QED
      BY <2>1, <2>2
  <1>7. g \in Inputs!Nearest(tried)
    BY <1>1, <1>4, <1>6 DEF Inputs!Nearest
  <1>8. ASSUME NEW h \in Inputs!Nearest(tried)
        PROVE  h = g
    <2>1. /\ h \in tried /\ Errors[g] \in Nat /\ Errors[h] \in Nat /\ g \in Nat /\ h \in Nat
          /\ Errors[h] < Errors[g] \/ (Errors[h] = Errors[g] /\ h <= g)
      BY <1>1, <1>8 DEF Inputs!Nearest
    <2>2. h # g => Errors[g] < Errors[h] \/ (Errors[g] = Errors[h] /\ g <= h)
      BY <1>6, <2>1
    <2> QED
      BY <2>1, <2>2
  <1> QED
    BY <1>4, <1>5, <1>7, <1>8

LEMMA RecordsAttest == InputInv => InputsAttested
  <1> SUFFICES ASSUME InputInv
               PROVE  InputsAttested
    OBVIOUS
  <1>1. sourceJson = "whole" => \A a \in Assets : asset[a].dest = "whole"
    BY DEF InputInv, SourceWhole
  <1>2. ASSUME NEW m \in Inputs!Makers, inputRecord[m].state = "whole"
        PROVE  \E d \in DOMAIN attempts[m], tried \in SUBSET Inputs!GraphIds :
                 /\ d = inputRecord[m].attempt /\ tried = Tried(m, d)
                 /\ \A g \in tried : attempts[m][d][g] = "whole"
                 /\ m = "inputs" => inputRecord[m].graphs = Inputs!GraphIds
                 /\ m = "footprint" =>
                      \E g \in tried : /\ inputRecord[m].graphs = {g}
                                       /\ \A h \in tried : Errors[g] <= Errors[h]
                                       /\ tried = Inputs!GraphIds \/ Errors[g] <= Tolerance
    <2>1. PICK d \in DOMAIN attempts[m] :
             /\ d = inputRecord[m].attempt
             /\ \A g \in Tried(m, d) : attempts[m][d][g] = "whole"
             /\ Enough(m, Tried(m, d))
             /\ inputRecord[m].graphs =
                  IF m = "footprint" THEN Inputs!Nearest(Tried(m, d)) ELSE Tried(m, d)
      BY <1>2 DEF InputInv, Recorded
    <2>2. PICK tried \in SUBSET Inputs!GraphIds : tried = Tried(m, d)
      BY DEF Tried
    <2>3. m = "inputs" => inputRecord[m].graphs = Inputs!GraphIds
      BY <2>1 DEF Enough
    <2>4. m = "footprint" =>
            \E g \in tried : /\ inputRecord[m].graphs = {g}
                             /\ \A h \in tried : Errors[g] <= Errors[h]
                             /\ tried = Inputs!GraphIds \/ Errors[g] <= Tolerance
      <3> HAVE m = "footprint"
      <3>1. tried # {}
        BY <2>1, <2>2, SomeGraph DEF Enough
      <3>2. PICK g \in tried : /\ Inputs!Nearest(tried) = {g}
                               /\ \A h \in tried : Errors[g] <= Errors[h]
        BY <3>1, NearestIsOne
      <3>3. \A h \in tried : Errors[h] \in Nat
        BY InputsAssumption DEF Inputs!GraphIds
      <3>4. tried = Inputs!GraphIds \/ \E h \in tried : Errors[h] <= Tolerance
        BY <2>1, <2>2 DEF Enough
      <3>5. tried = Inputs!GraphIds \/ Errors[g] <= Tolerance
        BY <3>2, <3>3, <3>4, InputsAssumption
      <3> QED
        BY <2>1, <2>2, <3>2, <3>5
    <2>5. /\ d = inputRecord[m].attempt /\ tried = Tried(m, d)
          /\ \A g \in tried : attempts[m][d][g] = "whole"
      BY <2>1, <2>2
    <2> WITNESS d \in DOMAIN attempts[m], tried \in SUBSET Inputs!GraphIds
    <2> QED
      BY <2>3, <2>4, <2>5
  <1> QED
    BY <1>1, <1>2 DEF InputsAttested, Inputs!InputsAttested, Tried

(***************************************************************************)
(* What a record of prepared inputs names is there in full, for any number  *)
(* of scripts at a time (of which one is the fetcher), of graphs and of     *)
(* failures, and the candidate that prepare_tc_footprint.py records is the  *)
(* nearest it has measured.  Which process may write a directory is the     *)
(* core of it: who has made it, until it ends, and nobody after that.       *)
(***************************************************************************)
THEOREM RecordsName == Spec => []InputsAttested
  <1>1. Init => InputInv
    BY InputsBegin DEF Init
  <1>2. Spec => []InputInv
    BY <1>1, InputStep, PTL DEF Spec
  <1> QED
    BY <1>2, RecordsAttest, PTL

--------------------------------------------------------------------------------
(* The simulated run of a guest.                                              *)

Targets == {"low", "high", "device"}
Requests == [target : Targets, during : Guest!Activities, processor : {"timing", "atomic"}]

GuestTypes ==
  /\ args \in Guest!Arguments /\ guest \in Guest!Activities /\ exits \in Nat
  /\ switched \in BOOLEAN /\ died \in BOOLEAN /\ over \in {"no", "stopped", "ticks"}
  /\ made \in Seq(Requests) /\ refused \in Targets \cup {"none"}
  /\ bridge \in Seq({"high", "device"})
  /\ counted \in [{"low", "high", "bridge"} -> Nat]

\* Where the guest is, by the exits it has taken.
GuestRan ==
  /\ guest = "boot" => exits = 0
  /\ guest = "setup" => exits = 1
  /\ guest = "kernel" => exits >= 2
  /\ guest \in {"after", "idle"} /\ ~died => exits >= 3
  /\ died => guest = "idle"
  /\ exits >= args.stop /\ ~died => over # "no"
  /\ switched <=> guest \notin (IF args.atRoi THEN {"boot", "setup"} ELSE {"boot"})

GuestMade ==
  \A i \in DOMAIN made :
     IF made[i].processor = "atomic" THEN made[i].during # "kernel"
     ELSE args.atRoi /\ args.stop = 3 /\ ~died => made[i].during = "kernel"

Timed(t) == {i \in DOMAIN made : made[i].target = t /\ made[i].processor = "timing"}
Bound(b) == {i \in DOMAIN b : b[i] = "high"}

Counts ==
  /\ counted["low"] + Guest!Waiting("low") = Cardinality(Timed("low"))
  /\ counted["bridge"] + Guest!Waiting("high") = Cardinality(Timed("high"))
  /\ counted["bridge"] = counted["high"] + Cardinality(Bound(bridge))

GuestInv == GuestTypes /\ GuestRan /\ GuestMade /\ Counts

LEMMA GuestBegins == Guest!Init => GuestInv
  <1> SUFFICES ASSUME Guest!Init
               PROVE  GuestInv
    OBVIOUS
  <1>1. GuestTypes
    <2>1. /\ args \in Guest!Arguments /\ guest = "boot" /\ exits = 0 /\ over = "no"
          /\ switched = FALSE /\ died = FALSE /\ made = <<>> /\ refused = "none" /\ bridge = <<>>
          /\ counted = [p \in {"low", "high", "bridge"} |-> 0]
      BY DEF Guest!Init
    <2>2. /\ guest \in Guest!Activities /\ exits \in Nat /\ over \in {"no", "stopped", "ticks"}
          /\ refused \in Targets \cup {"none"}
      BY <2>1 DEF Guest!Activities
    <2>3. switched \in BOOLEAN /\ died \in BOOLEAN
      BY <2>1
    <2>4. made \in Seq(Requests) /\ bridge \in Seq({"high", "device"})
      BY <2>1
    <2>5. counted \in [{"low", "high", "bridge"} -> Nat]
      BY <2>1
    <2> QED
      BY <2>1, <2>2, <2>3, <2>4, <2>5 DEF GuestTypes
  <1>2. GuestRan
    BY DEF Guest!Init, GuestRan, Guest!Arguments
  <1>3. GuestMade
    BY DEF Guest!Init, GuestMade
  <1>4. Timed("low") = {} /\ Timed("high") = {} /\ Bound(bridge) = {}
    BY DEF Guest!Init, Timed, Bound
  <1>5. Counts
    <2>1. Cardinality({}) = 0
      BY FS_EmptySet
    <2>2. /\ counted["low"] = 0 /\ counted["bridge"] = 0 /\ counted["high"] = 0
          /\ Guest!Waiting("low") = 0 /\ Guest!Waiting("high") = 0
      BY DEF Guest!Init, Guest!Waiting
    <2> QED
      BY <1>4, <2>1, <2>2 DEF Counts
  <1> QED
    BY <1>1, <1>2, <1>3, <1>5 DEF GuestInv

\* An exit of the guest.
LEMMA ExitSteps ==
    ASSUME GuestInv, NEW next \in Guest!Activities, Guest!OnExit(next), died' \in BOOLEAN,
           died' => next = "idle", ~died,
           GuestRan'
    PROVE  GuestInv'
  <1>1. /\ UNCHANGED <<args, made, refused, bridge, counted>> /\ guest' = next
        /\ exits' = exits + 1 /\ switched' = (switched \/ Guest!Switches(exits + 1))
        /\ over' \in {"no", "stopped"}
    BY DEF Guest!OnExit
  <1>2. GuestTypes'
    <2>1. switched' \in BOOLEAN
      BY <1>1 DEF GuestInv, GuestTypes, Guest!Switches
    <2> QED
      BY <1>1, <2>1 DEF GuestInv, GuestTypes
  <1>3. GuestMade'
    BY <1>1 DEF GuestInv, GuestMade
  <1>4. Counts'
    BY <1>1 DEF GuestInv, Counts, Timed, Bound, Guest!Waiting
  <1> QED
    BY <1>2, <1>3, <1>4 DEF GuestInv

LEMMA HandBackKeepsGuest ==
    ASSUME GuestInv, Guest!HandBack
    PROVE  GuestInv'
  <1>1. /\ guest = "boot" /\ Guest!OnExit("setup") /\ died' = died /\ died \in BOOLEAN
        /\ GuestTypes /\ GuestRan
    BY DEF Guest!HandBack, GuestInv, GuestTypes
  <1>2. /\ exits = 0 /\ ~switched /\ ~died /\ args.atRoi \in BOOLEAN /\ args.stop \in {3, 4}
    BY <1>1 DEF GuestRan, GuestTypes, Guest!Arguments
  <1>3. exits' = 1 /\ guest' = "setup" /\ args' = args /\ switched' = ~args.atRoi
    <2>1. Guest!Switches(1) <=> ~args.atRoi
      BY <1>2 DEF Guest!Switches
    <2> QED
      BY <1>1, <1>2, <2>1 DEF Guest!OnExit
  <1>4. GuestRan'
    <2>1. switched' <=> guest' \notin (IF args'.atRoi THEN {"boot", "setup"} ELSE {"boot"})
      <3>1. CASE args.atRoi
        BY <1>3, <3>1
      <3>2. CASE ~args.atRoi
        BY <1>3, <3>2
      <3> QED
        BY <3>1, <3>2
    <2>2. ~died' /\ exits' = 1 /\ guest' = "setup" /\ ~(exits' >= args'.stop)
      BY <1>1, <1>2, <1>3
    <2> QED
      BY <2>1, <2>2 DEF GuestRan
  <1>5. "setup" \in Guest!Activities
    BY DEF Guest!Activities
  <1>6. died' \in BOOLEAN /\ ~died'
    BY <1>1, <1>2
  <1> QED
    BY <1>1, <1>2, <1>4, <1>5, <1>6, ExitSteps

\* From the guest's first own exit on the timing processor is there.
LEMMA Switched ==
    ASSUME GuestInv, guest \in {"setup", "kernel", "after"}, NEW next, Guest!OnExit(next)
    PROVE  /\ exits' = exits + 1 /\ guest' = next /\ args' = args /\ switched'
           /\ exits' >= args.stop => over' # "no"
           /\ ~died /\ exits \in Nat /\ args.stop \in {3, 4} /\ args.atRoi \in BOOLEAN
           /\ guest = "setup" => exits = 1
           /\ guest = "kernel" => exits >= 2
           /\ guest = "after" => exits >= 3
           /\ GuestTypes
  <1>1. /\ args.stop \in {3, 4} /\ args.atRoi \in BOOLEAN /\ exits \in Nat /\ ~died
        /\ guest = "setup" => exits = 1
        /\ guest = "kernel" => exits >= 2
        /\ guest = "after" => exits >= 3
        /\ switched <=> guest \notin (IF args.atRoi THEN {"boot", "setup"} ELSE {"boot"})
        /\ GuestTypes
    BY DEF GuestInv, GuestTypes, GuestRan, Guest!Arguments
  <1>2. switched \/ Guest!Switches(exits + 1)
    BY <1>1 DEF Guest!Switches
  <1>3. exits + 1 >= args.stop => Guest!Stops(exits + 1)
    BY <1>1 DEF Guest!Stops
  <1> QED
    BY <1>1, <1>2, <1>3 DEF Guest!OnExit

LEMMA RunKeepsGuest ==
    ASSUME GuestInv, Guest!RoiBegin \/ Guest!RoiEnd \/ Guest!ScriptEnd
    PROVE  GuestInv'
  <1>1. PICK next \in Guest!Activities :
          /\ Guest!OnExit(next) /\ guest \in {"setup", "kernel", "after"}
          /\ \/ next = "kernel" /\ guest \in {"setup", "after"} /\ died' = died
             \/ next \in {"idle", "after"} /\ guest = "kernel" /\ died' = died
             \/ next = "idle" /\ died' = (guest # "after")
    BY DEF Guest!RoiBegin, Guest!RoiEnd, Guest!ScriptEnd, Guest!Activities
  <1>2. /\ exits' = exits + 1 /\ guest' = next /\ args' = args /\ switched'
        /\ exits' >= args.stop => over' # "no"
        /\ ~died /\ exits \in Nat /\ args.stop \in {3, 4} /\ args.atRoi \in BOOLEAN
        /\ guest = "setup" => exits = 1
        /\ guest = "kernel" => exits >= 2
        /\ guest = "after" => exits >= 3
        /\ GuestTypes
    BY <1>1, Switched
  <1>3. next \in {"kernel", "idle", "after"} /\ (died' => next = "idle") /\ died' \in BOOLEAN
    <2>1. CASE died' = died
      BY <1>1, <1>2, <2>1 DEF GuestTypes
    <2>2. CASE next = "idle" /\ died' = (guest # "after")
      BY <2>2
    <2> QED
      BY <1>1, <2>1, <2>2
  <1>3a. next = "idle" /\ ~died' => guest \in {"kernel", "after"}
    BY <1>1, <1>2
  <1>4. GuestRan'
    <2>1. exits' >= 2 /\ (next \in {"after", "idle"} /\ ~died' => exits' >= 3)
      BY <1>1, <1>2, <1>3, <1>3a
    <2> QED
      BY <1>2, <1>3, <2>1 DEF GuestRan
  <1> QED
    BY <1>1, <1>2, <1>3, <1>4, ExitSteps

LEMMA TicksKeepGuest ==
    ASSUME GuestInv, Guest!OutOfTicks
    PROVE  GuestInv'
  <1>1. /\ UNCHANGED <<args, guest, exits, switched, died, made, refused, bridge, counted>>
        /\ over' = "ticks"
    BY DEF Guest!OutOfTicks
  <1>2. GuestTypes' /\ GuestRan'
    BY <1>1 DEF GuestInv, GuestTypes, GuestRan
  <1>3. GuestMade' /\ Counts'
    BY <1>1 DEF GuestInv, GuestMade, Counts, Timed, Bound, Guest!Waiting
  <1> QED
    BY <1>2, <1>3 DEF GuestInv

--------------------------------------------------------------------------------
\* How many requests wait in the bridge for the high controller.
LEMMA BoundEnters ==
    ASSUME NEW b \in Seq({"high", "device"}), NEW t \in {"high", "device"}
    PROVE  /\ IsFiniteSet(Bound(b))
           /\ Cardinality(Bound(b)) \in Nat
           /\ Append(b, t) \in Seq({"high", "device"})
           /\ Cardinality(Bound(Append(b, t))) =
                 IF t = "high" THEN Cardinality(Bound(b)) + 1 ELSE Cardinality(Bound(b))
  <1>1. /\ Len(b) \in Nat /\ DOMAIN b = 1 .. Len(b) /\ Append(b, t) \in Seq({"high", "device"})
        /\ DOMAIN Append(b, t) = 1 .. Len(b) + 1 /\ Append(b, t)[Len(b) + 1] = t
        /\ \A i \in 1 .. Len(b) : Append(b, t)[i] = b[i]
    BY AppendProperties
  <1>2. IsFiniteSet(Bound(b)) /\ Cardinality(Bound(b)) \in Nat
    <2>1. IsFiniteSet(1 .. Len(b)) /\ Bound(b) \in SUBSET (1 .. Len(b))
      BY <1>1, FS_Interval DEF Bound
    <2> QED
      BY <2>1, FS_Subset, FS_CardinalityType
  <1>3. CASE t = "high"
    <2>1. Bound(Append(b, t)) = Bound(b) \cup {Len(b) + 1} /\ Len(b) + 1 \notin Bound(b)
      BY <1>1, <1>3 DEF Bound
    <2> QED
      BY <1>1, <1>2, <1>3, <2>1, FS_AddElement
  <1>4. CASE t # "high"
    <2>1. Bound(Append(b, t)) = Bound(b)
      BY <1>1, <1>4 DEF Bound
    <2> QED
      BY <1>1, <1>2, <1>4, <2>1
  <1> QED
    BY <1>3, <1>4

LEMMA BoundLeaves ==
    ASSUME NEW b \in Seq({"high", "device"}), b # <<>>
    PROVE  /\ Tail(b) \in Seq({"high", "device"}) /\ Head(b) \in {"high", "device"}
           /\ Cardinality(Bound(b)) =
                 IF Head(b) = "high" THEN Cardinality(Bound(Tail(b))) + 1
                 ELSE Cardinality(Bound(Tail(b)))
           /\ Cardinality(Bound(Tail(b))) \in Nat
  <1>1. PICK n \in Nat : n = Len(Tail(b))
    BY HeadTailProperties
  <1>2. PICK r : r = Tail(b)
    OBVIOUS
  <1>3. /\ r \in Seq({"high", "device"}) /\ Head(b) \in {"high", "device"} /\ Head(b) = b[1]
        /\ DOMAIN b = 1 .. n + 1 /\ DOMAIN r = 1 .. n
        /\ \A i \in 1 .. n : r[i] = b[i + 1]
    BY <1>1, <1>2, HeadTailProperties
  <1>4. IsFiniteSet(Bound(r)) /\ Cardinality(Bound(r)) \in Nat
    BY <1>3, BoundEnters
  <1> DEFINE rest == Bound(b) \ {1}
             next == [i \in Bound(r) |-> i + 1]
  <1>5. next \in [Bound(r) -> rest]
    BY <1>3 DEF Bound
  <1>6. \A i, j \in Bound(r) : next[i] = next[j] => i = j
    BY <1>3 DEF Bound
  <1>7. \A j \in rest : \E i \in Bound(r) : next[i] = j
    <2> SUFFICES ASSUME NEW j \in rest
                 PROVE  j - 1 \in Bound(r) /\ next[j - 1] = j
      OBVIOUS
    <2>1. j \in 1 .. n + 1 /\ j # 1 /\ b[j] = "high"
      BY <1>3 DEF Bound
    <2>2. j - 1 \in 1 .. n /\ r[j - 1] = b[j] /\ j - 1 + 1 = j
      BY <1>3, <2>1
    <2> QED
      BY <1>3, <2>1, <2>2 DEF Bound
  <1>8. ExistsBijection(Bound(r), rest)
    <2> HIDE DEF next, rest
    <2>1. next \in Bijection(Bound(r), rest)
      BY <1>5, <1>6, <1>7, Fun_IsBij
    <2> QED
      BY <2>1 DEF ExistsBijection
  <1>9. Cardinality(rest) = Cardinality(Bound(r)) /\ IsFiniteSet(rest)
    BY <1>4, <1>8, FS_Bijection
  <1>10. CASE Head(b) = "high"
    <2>1. Bound(b) = rest \cup {1} /\ 1 \notin rest
      BY <1>3, <1>10 DEF Bound
    <2> HIDE DEF rest
    <2>2. Cardinality(rest \cup {1}) = Cardinality(rest) + 1
      BY <1>9, <2>1, FS_AddElement
    <2>3. Cardinality(Bound(b)) = Cardinality(Bound(r)) + 1
      BY <1>9, <2>1, <2>2
    <2> QED
      BY <1>2, <1>3, <1>4, <1>10, <2>3
  <1>11. CASE Head(b) # "high"
    <2>1. Bound(b) = rest
      BY <1>3, <1>11 DEF Bound
    <2> HIDE DEF rest
    <2> QED
      BY <1>2, <1>3, <1>4, <1>9, <1>11, <2>1
  <1> QED
    BY <1>10, <1>11

\* A request that is made.
LEMMA TimedGrows ==
    ASSUME GuestInv, NEW r \in Requests, made' = Append(made, r)
    PROVE  /\ made' \in Seq(Requests)
           /\ \A i \in DOMAIN made' : \/ i \in DOMAIN made /\ made'[i] = made[i]
                                      \/ made'[i] = r
           /\ \A t : /\ Cardinality(Timed(t)) \in Nat
                    /\ Cardinality(Timed(t)') =
                         IF r.target = t /\ r.processor = "timing" THEN Cardinality(Timed(t)) + 1
                         ELSE Cardinality(Timed(t))
  <1>1. PICK s : s = made
    OBVIOUS
  <1>2. s \in Seq(Requests)
    BY <1>1 DEF GuestInv, GuestTypes
  <1>3. PICK n \in Nat : n = Len(s)
    BY <1>2
  <1>4. /\ Append(s, r) \in Seq(Requests) /\ DOMAIN s = 1 .. n /\ DOMAIN Append(s, r) = 1 .. n + 1
        /\ Append(s, r)[n + 1] = r /\ \A i \in 1 .. n : Append(s, r)[i] = s[i]
    BY <1>2, <1>3, AppendProperties
  <1>5. /\ made' \in Seq(Requests) /\ DOMAIN made = 1 .. n /\ DOMAIN made' = 1 .. n + 1
        /\ made'[n + 1] = r /\ \A i \in 1 .. n : made'[i] = made[i]
    BY <1>1, <1>4
  <1>6. ASSUME NEW t
        PROVE  /\ Cardinality(Timed(t)) \in Nat
               /\ Cardinality(Timed(t)') =
                    IF r.target = t /\ r.processor = "timing" THEN Cardinality(Timed(t)) + 1
                    ELSE Cardinality(Timed(t))
    <2>1. IsFiniteSet(1 .. n) /\ Timed(t) \in SUBSET (1 .. n)
      BY <1>5, FS_Interval DEF Timed
    <2>2. IsFiniteSet(Timed(t)) /\ Cardinality(Timed(t)) \in Nat
      BY <2>1, FS_Subset, FS_CardinalityType
    <2>3. CASE r.target = t /\ r.processor = "timing"
      <3>1. Timed(t)' = Timed(t) \cup {n + 1} /\ n + 1 \notin Timed(t)
        BY <1>5, <2>3 DEF Timed
      <3>2. Cardinality(Timed(t) \cup {n + 1}) = Cardinality(Timed(t)) + 1
        BY <2>2, <3>1, FS_AddElement
      <3> QED
        BY <2>2, <2>3, <3>1, <3>2
    <2>4. CASE ~(r.target = t /\ r.processor = "timing")
      <3>1. Timed(t)' = Timed(t)
        BY <1>5, <2>4 DEF Timed
      <3> QED
        BY <2>2, <2>4, <3>1
    <2> QED
      BY <2>3, <2>4
  <1> QED
    BY <1>5, <1>6

\* A request comes to the low controller or to the bridge.
LEMMA Arrives ==
    ASSUME GuestInv, NEW t \in Targets, Guest!Arrive(t)
    PROVE  /\ counted' \in [{"low", "high", "bridge"} -> Nat]
           /\ bridge' \in Seq({"high", "device"}) /\ refused' \in Targets \cup {"none"}
           /\ counted'["low"] + Guest!Waiting("low")' =
                 counted["low"] + (IF t = "low" THEN 1 ELSE 0)
           /\ counted'["bridge"] + Guest!Waiting("high")' =
                 counted["bridge"] + (IF t = "high" THEN 1 ELSE 0)
           /\ counted'["bridge"] = counted'["high"] + Cardinality(Bound(bridge'))
  <1>1. /\ counted \in [{"low", "high", "bridge"} -> Nat] /\ bridge \in Seq({"high", "device"})
        /\ counted["bridge"] = counted["high"] + Cardinality(Bound(bridge))
    BY DEF GuestInv, GuestTypes, Counts
  <1>2. PICK b : b = bridge
    OBVIOUS
  <1>3. b \in Seq({"high", "device"}) /\ Cardinality(Bound(bridge)) = Cardinality(Bound(b))
    BY <1>1, <1>2
  <1>4. Cardinality(Bound(b)) \in Nat
    BY <1>3, BoundEnters
  <1>5. CASE ~Guest!Accepts(t)
    <2>1. counted' = counted /\ bridge' = bridge /\ refused' = t
      BY <1>5 DEF Guest!Arrive, Guest!Seen
    <2>2. Guest!Waiting("low")' = (IF t = "low" THEN 1 ELSE 0)
          /\ Guest!Waiting("high")' = (IF t = "high" THEN 1 ELSE 0)
      BY <2>1 DEF Guest!Waiting
    <2> QED
      BY <1>1, <2>1, <2>2
  <1>6. CASE Guest!Accepts(t)
    <2>1. /\ refused' = "none" /\ Guest!Waiting("low")' = 0 /\ Guest!Waiting("high")' = 0
      BY <1>6 DEF Guest!Arrive, Guest!Waiting
    <2>2. CASE t = "low"
      <3>1. counted' = [counted EXCEPT !["low"] = @ + 1] /\ bridge' = bridge
        BY <1>6, <2>2 DEF Guest!Arrive, Guest!Seen, Guest!ProbeOf
      <3>2. /\ counted' \in [{"low", "high", "bridge"} -> Nat]
            /\ counted'["low"] = counted["low"] + 1 /\ counted'["high"] = counted["high"]
            /\ counted'["bridge"] = counted["bridge"]
        BY <1>1, <3>1
      <3> QED
        BY <1>1, <2>1, <2>2, <3>1, <3>2
    <2>3. CASE t = "high"
      <3>1. counted' = [counted EXCEPT !["bridge"] = @ + 1] /\ bridge' = Append(b, "high")
        BY <1>2, <1>6, <2>3 DEF Guest!Arrive, Guest!Seen, Guest!ProbeOf
      <3>2. /\ counted' \in [{"low", "high", "bridge"} -> Nat]
            /\ counted'["low"] = counted["low"] /\ counted'["high"] = counted["high"]
            /\ counted'["bridge"] = counted["bridge"] + 1
        BY <1>1, <3>1
      <3>3. bridge' \in Seq({"high", "device"})
            /\ Cardinality(Bound(bridge')) = Cardinality(Bound(b)) + 1
        BY <1>3, <3>1, BoundEnters
      <3> QED
        BY <1>1, <1>3, <1>4, <2>1, <2>3, <3>2, <3>3
    <2>4. CASE t = "device"
      <3>1. counted' = counted /\ bridge' = Append(b, "device")
        BY <1>2, <1>6, <2>4 DEF Guest!Arrive, Guest!Seen
      <3>2. bridge' \in Seq({"high", "device"}) /\ Cardinality(Bound(bridge')) = Cardinality(Bound(b))
        BY <1>3, <3>1, BoundEnters
      <3> QED
        BY <1>1, <1>3, <1>4, <2>1, <2>4, <3>1, <3>2
    <2> QED
      BY <2>2, <2>3, <2>4 DEF Targets
  <1> QED
    BY <1>5, <1>6

LEMMA MakeKeepsGuest ==
    ASSUME GuestInv, NEW t \in Guest!Targets, Guest!Make(t)
    PROVE  GuestInv'
  <1>1. /\ over = "no" /\ refused = "none" /\ t \in Targets
        /\ UNCHANGED <<args, guest, exits, switched, over, died>>
        /\ GuestTypes /\ GuestRan /\ GuestMade /\ Counts
    BY DEF Guest!Make, Guest!Targets, Targets, GuestInv
  <1>2. PICK now, by : now = guest /\ by = IF switched THEN "timing" ELSE "atomic"
    OBVIOUS
  <1>3. now \in Guest!Activities /\ by \in {"timing", "atomic"}
    BY <1>1, <1>2 DEF GuestTypes
  <1>4. PICK r \in Requests : /\ r = [target |-> t, during |-> now, processor |-> by]
                              /\ r.target = t /\ r.during = now /\ r.processor = by
    <2>1. PICK r : r = [target |-> t, during |-> now, processor |-> by]
      OBVIOUS
    <2>2. r.target = t /\ r.during = now /\ r.processor = by
      BY <2>1
    <2>3. t \in Targets
      BY <1>1
    <2>4. r \in Requests
      BY <2>1, <2>3, <1>3 DEF Requests
    <2> QED
      BY <2>1, <2>2, <2>4
  <1>5. made' = Append(made, r)
    BY <1>2, <1>4 DEF Guest!Make
  <1>6. /\ made' \in Seq(Requests)
        /\ \A i \in DOMAIN made' : \/ i \in DOMAIN made /\ made'[i] = made[i]
                                   \/ made'[i] = r
        /\ \A u : /\ Cardinality(Timed(u)) \in Nat
                 /\ Cardinality(Timed(u)') =
                      IF r.target = u /\ r.processor = "timing" THEN Cardinality(Timed(u)) + 1
                      ELSE Cardinality(Timed(u))
    BY <1>5, TimedGrows
  <1>7. GuestRan'
    BY <1>1 DEF GuestRan
  <1>8. IF by = "atomic" THEN now # "kernel"
        ELSE args.atRoi /\ args.stop = 3 /\ ~died => now = "kernel"
    <2>1. CASE switched
      <3>1. by = "timing"
        BY <1>2, <2>1
      <3>2. ASSUME args.atRoi, args.stop = 3, ~died
            PROVE  now = "kernel"
        <4>1. guest \notin {"boot", "setup"}
          BY <1>1, <2>1, <3>2 DEF GuestRan
        <4>2. ~(exits >= 3)
          BY <1>1, <3>2 DEF GuestRan
        <4>3. guest \notin {"after", "idle"}
          BY <1>1, <3>2, <4>2 DEF GuestRan
        <4> QED
          BY <1>2, <1>3, <4>1, <4>3 DEF Guest!Activities
      <3> QED
        BY <3>1, <3>2
    <2>2. CASE ~switched
      <3>1. by = "atomic"
        BY <1>2, <2>2
      <3>2. guest \in {"boot", "setup"}
        BY <1>1, <2>2 DEF GuestRan
      <3> QED
        BY <1>2, <3>1, <3>2
    <2> QED
      BY <2>1, <2>2
  <1>9. GuestMade'
    BY <1>1, <1>4, <1>6, <1>8 DEF GuestMade
  <1>10. /\ Guest!Waiting("low") = 0 /\ Guest!Waiting("high") = 0
         /\ counted \in [{"low", "high", "bridge"} -> Nat]
    BY <1>1 DEF Guest!Waiting, GuestTypes
  <1>11. CASE switched
    <2>1. Guest!Arrive(t) /\ r.processor = "timing"
      BY <1>2, <1>4, <1>11 DEF Guest!Make
    <2>2. /\ counted' \in [{"low", "high", "bridge"} -> Nat]
          /\ bridge' \in Seq({"high", "device"}) /\ refused' \in Targets \cup {"none"}
          /\ counted'["low"] + Guest!Waiting("low")' =
                counted["low"] + (IF t = "low" THEN 1 ELSE 0)
          /\ counted'["bridge"] + Guest!Waiting("high")' =
                counted["bridge"] + (IF t = "high" THEN 1 ELSE 0)
          /\ counted'["bridge"] = counted'["high"] + Cardinality(Bound(bridge'))
      BY <1>1, <2>1, Arrives
    <2>3. /\ counted["low"] = Cardinality(Timed("low"))
          /\ counted["bridge"] = Cardinality(Timed("high"))
      BY <1>1, <1>6, <1>10 DEF Counts
    <2>4. /\ Cardinality(Timed("low")') = counted["low"] + (IF t = "low" THEN 1 ELSE 0)
          /\ Cardinality(Timed("high")') = counted["bridge"] + (IF t = "high" THEN 1 ELSE 0)
      BY <1>4, <1>6, <1>10, <2>1, <2>3
    <2>5. Counts'
      BY <2>2, <2>4 DEF Counts
    <2>6. GuestTypes'
      BY <1>1, <1>6, <2>2 DEF GuestTypes
    <2> QED
      BY <1>7, <1>9, <2>5, <2>6 DEF GuestInv
  <1>12. CASE ~switched
    <2>1. UNCHANGED <<refused, bridge, counted>> /\ r.processor = "atomic"
      BY <1>2, <1>4, <1>12 DEF Guest!Make
    <2>2. Cardinality(Timed("low")') = Cardinality(Timed("low"))
          /\ Cardinality(Timed("high")') = Cardinality(Timed("high"))
      BY <1>6, <2>1
    <2>3. Counts'
      BY <1>1, <2>1, <2>2 DEF Counts, Guest!Waiting
    <2>4. GuestTypes'
      BY <1>1, <1>6, <2>1 DEF GuestTypes
    <2> QED
      BY <1>7, <1>9, <2>3, <2>4 DEF GuestInv
  <1> QED
    BY <1>11, <1>12

LEMMA SendAgainKeepsGuest ==
    ASSUME GuestInv, Guest!SendAgain
    PROVE  GuestInv'
  <1>1. /\ refused # "none" /\ Guest!Arrive(refused)
        /\ UNCHANGED <<args, guest, exits, switched, over, died, made>>
        /\ GuestTypes /\ GuestRan /\ GuestMade /\ Counts
    BY DEF Guest!SendAgain, GuestInv
  <1>2. PICK t \in Targets : t = refused
    BY <1>1 DEF GuestTypes
  <1>3. Guest!Arrive(t)
    BY <1>1, <1>2 DEF Guest!Arrive, Guest!Seen, Guest!Accepts
  <1>4. /\ counted' \in [{"low", "high", "bridge"} -> Nat]
        /\ bridge' \in Seq({"high", "device"}) /\ refused' \in Targets \cup {"none"}
        /\ counted'["low"] + Guest!Waiting("low")' =
              counted["low"] + (IF t = "low" THEN 1 ELSE 0)
        /\ counted'["bridge"] + Guest!Waiting("high")' =
              counted["bridge"] + (IF t = "high" THEN 1 ELSE 0)
        /\ counted'["bridge"] = counted'["high"] + Cardinality(Bound(bridge'))
    BY <1>3, Arrives
  <1>5. /\ Guest!Waiting("low") = (IF t = "low" THEN 1 ELSE 0)
        /\ Guest!Waiting("high") = (IF t = "high" THEN 1 ELSE 0)
    BY <1>2 DEF Guest!Waiting
  <1>6. Timed("low")' = Timed("low") /\ Timed("high")' = Timed("high")
    BY <1>1 DEF Timed
  <1>7. Counts'
    BY <1>1, <1>4, <1>5, <1>6 DEF Counts
  <1>8. GuestTypes' /\ GuestRan' /\ GuestMade'
    BY <1>1, <1>4 DEF GuestTypes, GuestRan, GuestMade
  <1> QED
    BY <1>7, <1>8 DEF GuestInv

LEMMA ForwardKeepsGuest ==
    ASSUME GuestInv, Guest!Forward
    PROVE  GuestInv'
  <1>1. /\ bridge # <<>> /\ bridge' = Tail(bridge)
        /\ UNCHANGED <<args, guest, exits, switched, over, died, made, refused>>
        /\ GuestTypes /\ GuestRan /\ GuestMade /\ Counts
    BY DEF Guest!Forward, GuestInv
  <1>2. PICK b : b = bridge
    OBVIOUS
  <1>3. b \in Seq({"high", "device"}) /\ b # <<>> /\ bridge' = Tail(b)
    BY <1>1, <1>2 DEF GuestTypes
  <1>4. /\ Tail(b) \in Seq({"high", "device"}) /\ Head(b) \in {"high", "device"}
        /\ Cardinality(Bound(b)) =
              IF Head(b) = "high" THEN Cardinality(Bound(Tail(b))) + 1
              ELSE Cardinality(Bound(Tail(b)))
        /\ Cardinality(Bound(Tail(b))) \in Nat
    BY <1>3, BoundLeaves
  <1>5. /\ counted \in [{"low", "high", "bridge"} -> Nat]
        /\ counted["bridge"] = counted["high"] + Cardinality(Bound(b))
    BY <1>1, <1>2 DEF GuestTypes, Counts
  <1>6. /\ counted' \in [{"low", "high", "bridge"} -> Nat]
        /\ counted'["low"] = counted["low"] /\ counted'["bridge"] = counted["bridge"]
        /\ counted'["bridge"] = counted'["high"] + Cardinality(Bound(bridge'))
    <2>1. CASE Head(b) = "device"
      <3>1. counted' = counted
        BY <1>2, <2>1 DEF Guest!Forward
      <3> QED
        BY <1>3, <1>4, <1>5, <2>1, <3>1
    <2>2. CASE Head(b) = "high"
      <3>1. counted' = [counted EXCEPT !["high"] = @ + 1]
        BY <1>2, <2>2 DEF Guest!Forward
      <3>2. /\ counted' \in [{"low", "high", "bridge"} -> Nat]
            /\ counted'["high"] = counted["high"] + 1
            /\ counted'["low"] = counted["low"] /\ counted'["bridge"] = counted["bridge"]
        BY <1>5, <3>1
      <3> QED
        BY <1>3, <1>4, <1>5, <2>2, <3>2
    <2> QED
      BY <1>4, <2>1, <2>2
  <1>7. /\ Timed("low")' = Timed("low") /\ Timed("high")' = Timed("high")
        /\ Guest!Waiting("low")' = Guest!Waiting("low")
        /\ Guest!Waiting("high")' = Guest!Waiting("high")
    BY <1>1 DEF Timed, Guest!Waiting
  <1>8. Counts'
    BY <1>1, <1>6, <1>7 DEF Counts
  <1>9. GuestTypes' /\ GuestRan' /\ GuestMade'
    BY <1>1, <1>3, <1>4, <1>6 DEF GuestTypes, GuestRan, GuestMade
  <1> QED
    BY <1>8, <1>9 DEF GuestInv

\* What changes nothing but the queues of the controllers.
LEMMA ServeKeepsGuest ==
    ASSUME GuestInv,
           UNCHANGED <<args, guest, exits, switched, over, died, made, refused, bridge, counted>>
    PROVE  GuestInv'
  <1>1. GuestTypes' /\ GuestRan' /\ GuestMade'
    BY DEF GuestInv, GuestTypes, GuestRan, GuestMade
  <1>2. Counts'
    BY DEF GuestInv, Counts, Timed, Bound, Guest!Waiting
  <1> QED
    BY <1>1, <1>2 DEF GuestInv

LEMMA GuestStep == GuestInv /\ [Next]_offlineVars => GuestInv'
  <1> SUFFICES ASSUME GuestInv, [Next]_offlineVars
               PROVE  GuestInv'
    OBVIOUS
  <1>1. CASE Guest!Next
    <2>1. ASSUME NEW t \in Guest!Targets, Guest!Make(t)
          PROVE  GuestInv'
      BY <2>1, MakeKeepsGuest
    <2>2. ASSUME NEW c \in {"low", "high"}, Guest!Serve(c)
          PROVE  GuestInv'
      BY <2>2, ServeKeepsGuest DEF Guest!Serve
    <2>3. Guest!HandBack \/ Guest!RoiBegin \/ Guest!RoiEnd \/ Guest!ScriptEnd => GuestInv'
      BY HandBackKeepsGuest, RunKeepsGuest
    <2>4. Guest!OutOfTicks \/ Guest!SendAgain \/ Guest!Forward => GuestInv'
      BY TicksKeepGuest, SendAgainKeepsGuest, ForwardKeepsGuest
    <2> QED
      BY <1>1, <2>1, <2>2, <2>3, <2>4 DEF Guest!Next
  <1>2. CASE UNCHANGED Guest!vars
    <2>1. UNCHANGED <<args, guest, exits, switched, over, died, made, refused, bridge, counted>>
      BY <1>2 DEF Guest!vars
    <2> QED
      BY <2>1, ServeKeepsGuest
  <1>3. Guest!Next \/ UNCHANGED Guest!vars
    BY DEF Next, Migrate, Analyse, Study, Prepare, Simulate, offlineVars, guestVars, Guest!vars
  <1> QED
    BY <1>1, <1>2, <1>3

\* The library's operator is one operator, seen from the instance too.
LEMMA SameCardinality == \A S : Guest!Cardinality(S) = Cardinality(S)
  BY DEF Cardinality, Guest!Cardinality

LEMMA RegionMeasured == GuestInv => RoiMeasured
  <1> SUFFICES ASSUME GuestInv
               PROVE  RoiMeasured
    OBVIOUS
  <1>1. \A t : Timed(t) = Guest!MadeFor(t)
    BY DEF Timed, Guest!MadeFor
  <1>2. /\ counted["low"] + Guest!Waiting("low") = Cardinality(Guest!MadeFor("low"))
        /\ counted["bridge"] + Guest!Waiting("high") = Cardinality(Guest!MadeFor("high"))
        /\ counted["bridge"] = counted["high"] +
                               Cardinality({i \in DOMAIN bridge : bridge[i] = "high"})
    BY <1>1 DEF GuestInv, Counts, Bound
  <1>3. ~died =>
          \A i \in DOMAIN made :
             IF made[i].processor = "atomic" THEN made[i].during # "kernel"
             ELSE args.atRoi /\ args.stop = 3 => made[i].during = "kernel"
    BY DEF GuestInv, GuestMade
  <1>4. Guest!Evidence /\ ~died =>
          \A i \in DOMAIN made :
             IF made[i].processor = "atomic" THEN made[i].during # "kernel"
             ELSE args.atRoi /\ args.stop = 3 => made[i].during = "kernel"
    BY <1>3
  <1>5. Guest!RoiMeasured
    BY <1>2, <1>3, SameCardinality DEF Guest!RoiMeasured, Guest!MadeFor
  <1> QED
    BY <1>5 DEF RoiMeasured

(***************************************************************************)
(* For any number of requests and trials, and any room: fs_hotskew.py's     *)
(* probes count each request of the timing processor once, and a benchmark  *)
(* that did not die ran no timed kernel on the atomic processor.            *)
(***************************************************************************)
THEOREM RegionIsMeasured == Spec => []RoiMeasured
  <1>1. Init => GuestInv
    BY GuestBegins DEF Init, NothingToSimulate
  <1>2. Spec => []GuestInv
    BY <1>1, GuestStep, PTL DEF Spec
  <1> QED
    BY <1>2, RegionMeasured, PTL
--------------------------------------------------------------------------------
(* revalidate_extensions.py: what the oracle is best at.                      *)

(***************************************************************************)
(* The accesses of a finite set of records.  The library's sum is a         *)
(* recursion over subsets; each law is proved from a smallest               *)
(* counterexample.                                                          *)
(***************************************************************************)
\* Of some finite sets, one that is smallest by a measure.
LEMMA SmallestBy ==
  ASSUME NEW F, F # {}, NEW g, \A s \in F : g[s] \in Nat
  PROVE  \E s \in F : \A t \in F : g[s] <= g[t]
<1> DEFINE N == {g[s] : s \in F}
<1>1. N \subseteq Nat /\ N # {}
  OBVIOUS
<1>2. PICK m \in N : \A x \in N : m <= x
  BY <1>1, LeastOf
<1> QED BY <1>2

LEMMA SmallestSet ==
  ASSUME NEW F, F # {}, \A s \in F : IsFiniteSet(s)
  PROVE  \E s \in F : \A t \in F : Cardinality(s) <= Cardinality(t)
<1>1. PICK g : g = [s \in F |-> Cardinality(s)]
  OBVIOUS
<1>2. \A s \in F : g[s] = Cardinality(s) /\ g[s] \in Nat
  BY <1>1, FS_CardinalityType
<1>3. PICK s \in F : \A t \in F : g[s] <= g[t]
  BY <1>2, SmallestBy
<1> QED BY <1>2, <1>3

One(s) == CHOOSE x \in s : TRUE
SumsOf(g, F, f) == g = [s \in F |-> IF s = {} THEN 0 ELSE f[One(s)] + g[s \ {One(s)}]]
PartsUpTo(S, n) == {s \in SUBSET S : Cardinality(s) <= n}

\* The sum of what f gives the elements of S.
Sum(f, S) == (CHOOSE h : SumsOf(h, SUBSET S, f))[S]

LEMMA LeaveOne ==
  ASSUME NEW s, IsFiniteSet(s), s # {}
  PROVE  /\ One(s) \in s /\ IsFiniteSet(s \ {One(s)})
         /\ Cardinality(s \ {One(s)}) = Cardinality(s) - 1
         /\ Cardinality(s) \in Nat \ {0}
BY FS_RemoveElement, FS_CardinalityType, FS_EmptySet DEF One

LEMMA SumsExist ==
  ASSUME NEW S, IsFiniteSet(S), NEW f, NEW n \in Nat
  PROVE  \E g : SumsOf(g, PartsUpTo(S, n), f)
<1>1. \A s \in SUBSET S : IsFiniteSet(s) /\ Cardinality(s) \in Nat
  BY FS_Subset, FS_CardinalityType
<1> DEFINE Bad == {m \in Nat : ~ \E g : SumsOf(g, PartsUpTo(S, m), f)}
<1>2. SUFFICES ASSUME Bad # {} PROVE FALSE
  BY <1>2
<1>3. PICK m \in Bad : \A x \in Bad : m <= x
  BY <1>2, LeastOf
<1>4. CASE m = 0
  <2> DEFINE g == [s \in PartsUpTo(S, 0) |-> 0]
  <2>1. \A s \in PartsUpTo(S, 0) : s = {}
    BY <1>1, FS_EmptySet DEF PartsUpTo
  <2>2. SumsOf(g, PartsUpTo(S, 0), f)
    BY <2>1 DEF SumsOf
  <2> QED BY <1>4, <2>2
<1>5. CASE m # 0
  <2>1. m \in Nat /\ m - 1 \in Nat /\ m - 1 < m
    BY <1>5
  <2>2. PICK g : SumsOf(g, PartsUpTo(S, m - 1), f)
    BY <1>3, <2>1
  <2> DEFINE next(s) == IF s = {} THEN 0 ELSE f[One(s)] + g[s \ {One(s)}]
  <2> DEFINE h == [s \in PartsUpTo(S, m) |-> next(s)]
  <2>3. \A s \in PartsUpTo(S, m - 1) : g[s] = next(s)
    BY <2>2 DEF SumsOf
  <2>4. PartsUpTo(S, m - 1) \subseteq PartsUpTo(S, m)
    BY <1>1, <2>1 DEF PartsUpTo
  <2>5. ASSUME NEW s \in PartsUpTo(S, m), s # {} PROVE s \ {One(s)} \in PartsUpTo(S, m - 1)
    BY <1>1, <2>1, <2>5, LeaveOne DEF PartsUpTo
  <2>6. \A s \in PartsUpTo(S, m) : s # {} => h[s \ {One(s)}] = g[s \ {One(s)}]
    BY <2>3, <2>4, <2>5
  <2>7. SumsOf(h, PartsUpTo(S, m), f)
    <3>1. \A s \in PartsUpTo(S, m) : next(s) = IF s = {} THEN 0 ELSE f[One(s)] + h[s \ {One(s)}]
      BY <2>6
    <3> QED BY <3>1 DEF SumsOf
  <2> QED BY <2>7
<1> QED BY <1>4, <1>5

LEMMA SumsAgree ==
  ASSUME NEW S, IsFiniteSet(S), NEW T, T \subseteq S, NEW f, NEW g, NEW h,
         SumsOf(g, SUBSET S, f), SumsOf(h, SUBSET T, f), NEW s, s \subseteq T
  PROVE  g[s] = h[s]
<1> SUFFICES \A t \in SUBSET T : g[t] = h[t]
  OBVIOUS
<1> DEFINE Bad == {t \in SUBSET T : g[t] # h[t]}
<1>1. SUFFICES ASSUME Bad # {} PROVE FALSE
  OBVIOUS
<1>2. \A t \in SUBSET S : IsFiniteSet(t)
  BY FS_Subset
<1>3. PICK u \in Bad : \A t \in Bad : Cardinality(u) <= Cardinality(t)
  BY <1>1, <1>2, SmallestSet
<1>4. u \in SUBSET T /\ u \in SUBSET S /\ g[u] # h[u]
  OBVIOUS
<1> DEFINE of(k, r) == IF r = {} THEN 0 ELSE f[One(r)] + k[r \ {One(r)}]
<1>5. g[u] = of(g, u)
  BY <1>4 DEF SumsOf
<1>6. h[u] = of(h, u)
  BY <1>4 DEF SumsOf
<1>7. u # {} /\ IsFiniteSet(u)
  BY <1>2, <1>4, <1>5, <1>6
<1>8. One(u) \in u /\ Cardinality(u \ {One(u)}) = Cardinality(u) - 1 /\ Cardinality(u) \in Nat
  BY <1>7, LeaveOne
<1> DEFINE t == u \ {One(u)}
<1>9. t \in SUBSET T /\ t \in SUBSET S
  BY <1>4
<1>10. ~ (Cardinality(u) <= Cardinality(t))
  BY <1>8
<1>11. g[t] = h[t]
  BY <1>3, <1>9, <1>10
<1>12. g[u] = f[One(u)] + g[t] /\ h[u] = f[One(u)] + h[t]
  BY <1>5, <1>6, <1>7
<1> QED BY <1>4, <1>11, <1>12

LEMMA SumsOn ==
  ASSUME NEW S, IsFiniteSet(S), NEW f
  PROVE  \E g : SumsOf(g, SUBSET S, f)
<1>1. \A s \in SUBSET S : Cardinality(s) <= Cardinality(S)
  BY FS_Subset
<1>2. PartsUpTo(S, Cardinality(S)) = SUBSET S
  BY <1>1 DEF PartsUpTo
<1>3. Cardinality(S) \in Nat
  BY FS_CardinalityType
<1>4. \E g : SumsOf(g, PartsUpTo(S, Cardinality(S)), f)
  BY <1>3, SumsExist
<1> QED BY <1>2, <1>4

LEMMA SumIs ==
  ASSUME NEW S, IsFiniteSet(S), NEW f, NEW T \in SUBSET S, NEW g, SumsOf(g, SUBSET S, f)
  PROVE  Sum(f, T) = g[T]
<1>1. IsFiniteSet(T)
  BY FS_Subset
<1>2. \E h : SumsOf(h, SUBSET T, f)
  BY <1>1, SumsOn
<1>3. PICK k : SumsOf(k, SUBSET T, f) /\ Sum(f, T) = k[T]
  BY <1>2 DEF Sum
<1>4. SumsOf(k, SUBSET T, f)
  BY <1>3
<1>5. g[T] = k[T]
  BY <1>4, SumsAgree
<1> QED BY <1>3, <1>5

\* f gives the elements of a finite set natural numbers.
Weighed(f, S) == IsFiniteSet(S) /\ \A x \in S : f[x] \in Nat

LEMMA SumOfNone == ASSUME NEW f PROVE Sum(f, {}) = 0
<1>1. IsFiniteSet({}) /\ {} \in SUBSET {}
  BY FS_EmptySet
<1>2. PICK g : SumsOf(g, SUBSET {}, f)
  BY <1>1, SumsOn
<1>3. g[{}] = 0
  BY <1>2 DEF SumsOf
<1>4. Sum(f, {}) = g[{}]
  BY <1>1, <1>2, SumIs, Zenon
<1> QED BY <1>3, <1>4

LEMMA SumOfOne ==
  ASSUME NEW S, IsFiniteSet(S), S # {}, NEW f
  PROVE  Sum(f, S) = f[One(S)] + Sum(f, S \ {One(S)})
<1>1. PICK g : SumsOf(g, SUBSET S, f)
  BY SumsOn
<1>2. g[S] = f[One(S)] + g[S \ {One(S)}]
  BY <1>1 DEF SumsOf
<1>3. Sum(f, S) = g[S]
  BY <1>1, SumIs
<1>4. Sum(f, S \ {One(S)}) = g[S \ {One(S)}]
  BY <1>1, SumIs
<1> QED BY <1>2, <1>3, <1>4

LEMMA SumInNat ==
  ASSUME NEW f, NEW S, Weighed(f, S)
  PROVE  Sum(f, S) \in Nat
<1> DEFINE Bad == {s \in SUBSET S : Sum(f, s) \notin Nat}
<1>1. SUFFICES ASSUME Bad # {} PROVE FALSE
  OBVIOUS
<1>2. \A s \in SUBSET S : IsFiniteSet(s)
  BY FS_Subset DEF Weighed
<1>3. PICK s \in Bad : \A t \in Bad : Cardinality(s) <= Cardinality(t)
  BY <1>1, <1>2, SmallestSet
<1>4. s # {}
  BY SumOfNone
<1>5. One(s) \in s /\ Cardinality(s \ {One(s)}) = Cardinality(s) - 1 /\ Cardinality(s) \in Nat
  BY <1>2, <1>4, LeaveOne
<1>6. Sum(f, s \ {One(s)}) \in Nat
  BY <1>3, <1>5
<1>7. Sum(f, s) = f[One(s)] + Sum(f, s \ {One(s)})
  BY <1>2, <1>4, SumOfOne
<1> QED BY <1>5, <1>6, <1>7 DEF Weighed

LEMMA SumWithout ==
  ASSUME NEW f, NEW S, Weighed(f, S), NEW x \in S
  PROVE  Sum(f, S) = f[x] + Sum(f, S \ {x})
<1> DEFINE Off(s, y) == Sum(f, s) = f[y] + Sum(f, s \ {y})
<1> DEFINE Bad == {s \in SUBSET S : \E y \in s : ~ Off(s, y)}
<1>1. SUFFICES ASSUME Bad # {} PROVE FALSE
  OBVIOUS
<1>2. \A s \in SUBSET S : IsFiniteSet(s) /\ Weighed(f, s)
  BY FS_Subset DEF Weighed
<1>3. PICK s \in Bad : \A t \in Bad : Cardinality(s) <= Cardinality(t)
  BY <1>1, <1>2, SmallestSet
<1>4. PICK y \in s : ~ Off(s, y)
  BY <1>3
<1>5. PICK z : z = One(s)
  OBVIOUS
<1>6. z \in s
  BY <1>2, <1>4, <1>5, LeaveOne
<1>7. Off(s, z)
  BY <1>2, <1>4, <1>5, SumOfOne
<1>8. y # z
  BY <1>4, <1>7
<1>9. IsFiniteSet(s) /\ Cardinality(s) \in Nat
  BY <1>2, FS_CardinalityType
<1>10. ASSUME NEW w \in s, NEW v \in s \ {w} PROVE Off(s \ {w}, v)
  <2>1. Cardinality(s \ {w}) = Cardinality(s) - 1
    BY <1>9, FS_RemoveElement
  <2>2. ~ (Cardinality(s) <= Cardinality(s \ {w}))
    BY <1>9, <2>1
  <2>3. s \ {w} \notin Bad
    BY <1>3, <2>2
  <2>4. s \ {w} \in SUBSET S
    OBVIOUS
  <2> QED BY <2>3, <2>4
<1>11. PICK rest : rest = (s \ {z}) \ {y}
  OBVIOUS
<1>12. rest = (s \ {y}) \ {z} /\ rest \subseteq S
  BY <1>11
<1>13. Sum(f, rest) \in Nat
  BY <1>2, <1>12, SumInNat
<1>14. f[y] \in Nat /\ f[z] \in Nat
  BY <1>4, <1>6 DEF Weighed
<1>15. Sum(f, s \ {z}) = f[y] + Sum(f, rest)
  BY <1>4, <1>6, <1>8, <1>10, <1>11
<1>16. Sum(f, s \ {y}) = f[z] + Sum(f, rest)
  BY <1>4, <1>6, <1>8, <1>10, <1>12
<1>17. Sum(f, s) = f[z] + Sum(f, s \ {z})
  BY <1>7
<1> QED BY <1>4, <1>13, <1>14, <1>15, <1>16, <1>17

LEMMA SumJoin ==
  ASSUME NEW f, NEW S, NEW T, Weighed(f, S), Weighed(f, T), S \cap T = {}
  PROVE  Sum(f, S \cup T) = Sum(f, S) + Sum(f, T)
<1> DEFINE Joined(t) == Sum(f, S \cup t) = Sum(f, S) + Sum(f, t)
<1> DEFINE Bad == {t \in SUBSET T : ~ Joined(t)}
<1>1. SUFFICES ASSUME Bad # {} PROVE FALSE
  OBVIOUS
<1>2. \A t \in SUBSET T : IsFiniteSet(t) /\ Weighed(f, t) /\ Weighed(f, S \cup t)
  <2>1. \A t \in SUBSET T : IsFiniteSet(t) /\ IsFiniteSet(S \cup t)
    BY FS_Subset, FS_Union DEF Weighed
  <2> QED BY <2>1 DEF Weighed
<1>3. PICK t \in Bad : \A u \in Bad : Cardinality(t) <= Cardinality(u)
  BY <1>1, <1>2, SmallestSet
<1>4. t \subseteq T /\ ~ Joined(t) /\ Sum(f, S) \in Nat
  BY SumInNat
<1>5. t # {}
  <2>1. S \cup {} = S
    OBVIOUS
  <2>2. Sum(f, S \cup {}) = Sum(f, S) + Sum(f, {})
    BY <1>4, <2>1, SumOfNone
  <2> QED BY <1>4, <2>2
<1>6. PICK x \in t : TRUE
  BY <1>5
<1>7. PICK u : u = t \ {x}
  OBVIOUS
<1>8. u \subseteq T /\ (S \cup t) \ {x} = S \cup u /\ x \in S \cup t
  BY <1>4, <1>6, <1>7
<1>9. Cardinality(u) = Cardinality(t) - 1 /\ Cardinality(t) \in Nat
  BY <1>2, <1>4, <1>6, <1>7, FS_RemoveElement, FS_CardinalityType
<1>10. Joined(u)
  <2>1. ~ (Cardinality(t) <= Cardinality(u))
    BY <1>9
  <2>2. u \notin Bad
    BY <1>3, <2>1
  <2> QED BY <1>8, <2>2
<1>11. Sum(f, t) = f[x] + Sum(f, u)
  BY <1>2, <1>4, <1>6, <1>7, SumWithout
<1>12. Sum(f, S \cup t) = f[x] + Sum(f, S \cup u)
  BY <1>2, <1>4, <1>8, SumWithout
<1>13. f[x] \in Nat /\ Sum(f, u) \in Nat
  BY <1>2, <1>4, <1>6, <1>8, SumInNat DEF Weighed
<1> QED BY <1>4, <1>10, <1>11, <1>12, <1>13

LEMMA SumAtMost ==
  ASSUME NEW f, NEW g, NEW S, Weighed(f, S), Weighed(g, S), \A x \in S : f[x] <= g[x]
  PROVE  Sum(f, S) <= Sum(g, S)
<1> DEFINE Bad == {s \in SUBSET S : ~ (Sum(f, s) <= Sum(g, s))}
<1>1. SUFFICES ASSUME Bad # {} PROVE FALSE
  OBVIOUS
<1>2. \A s \in SUBSET S : IsFiniteSet(s) /\ Weighed(f, s) /\ Weighed(g, s)
  BY FS_Subset DEF Weighed
<1>3. PICK s \in Bad : \A t \in Bad : Cardinality(s) <= Cardinality(t)
  BY <1>1, <1>2, SmallestSet
<1>4. s \subseteq S /\ ~ (Sum(f, s) <= Sum(g, s))
  OBVIOUS
<1>5. s # {}
  BY <1>4, SumOfNone
<1>6. PICK x \in s : TRUE
  BY <1>5
<1>7. PICK t : t = s \ {x}
  OBVIOUS
<1>8. t \subseteq S /\ Cardinality(t) = Cardinality(s) - 1 /\ Cardinality(s) \in Nat
  BY <1>2, <1>4, <1>6, <1>7, FS_RemoveElement, FS_CardinalityType
<1>9. Sum(f, t) <= Sum(g, t)
  <2>1. ~ (Cardinality(s) <= Cardinality(t))
    BY <1>8
  <2> QED BY <1>3, <1>8, <2>1
<1>10. Sum(f, s) = f[x] + Sum(f, t) /\ Sum(g, s) = g[x] + Sum(g, t)
  BY <1>2, <1>4, <1>6, <1>7, SumWithout
<1>11. f[x] \in Nat /\ g[x] \in Nat /\ f[x] <= g[x] /\ Sum(f, t) \in Nat /\ Sum(g, t) \in Nat
  BY <1>2, <1>4, <1>6, <1>8, SumInNat DEF Weighed
<1> QED BY <1>4, <1>9, <1>10, <1>11

LEMMA SumSame ==
  ASSUME NEW f, NEW g, NEW S, Weighed(f, S), \A x \in S : f[x] = g[x]
  PROVE  Sum(f, S) = Sum(g, S)
<1>1. Weighed(g, S) /\ (\A x \in S : f[x] <= g[x]) /\ \A x \in S : g[x] <= f[x]
  BY DEF Weighed
<1>2. Sum(f, S) <= Sum(g, S) /\ Sum(g, S) <= Sum(f, S)
  BY <1>1, SumAtMost
<1>3. Sum(f, S) \in Nat /\ Sum(g, S) \in Nat
  BY <1>1, SumInNat
<1> QED BY <1>2, <1>3

Accessed(S) == IsFiniteSet(S) /\ \A r \in S : r.acc \in Nat

LEMMA AccessesAre ==
  ASSUME NEW S, IsFiniteSet(S), NEW f, \A r \in S : f[r] = r.acc
  PROVE  Analysis!Accesses(S) = Sum(f, S)
<1> DEFINE by(h, s) == IF s = {} THEN 0 ELSE One(s).acc + h[s \ {One(s)}]
<1>1. Analysis!Accesses(S) = (CHOOSE h : h = [s \in SUBSET S |-> by(h, s)])[S]
  BY DEF Analysis!Accesses, Analysis!MapThenSumSet, Analysis!MapThenFoldSet, One
<1>2. \A s \in SUBSET S : s # {} => f[One(s)] = One(s).acc
  BY FS_Subset, LeaveOne
<1>3. ASSUME NEW h PROVE SumsOf(h, SUBSET S, f) <=> h = [s \in SUBSET S |-> by(h, s)]
  <2>1. \A s \in SUBSET S : by(h, s) = IF s = {} THEN 0 ELSE f[One(s)] + h[s \ {One(s)}]
    BY <1>2
  <2>2. [s \in SUBSET S |-> by(h, s)] =
          [s \in SUBSET S |-> IF s = {} THEN 0 ELSE f[One(s)] + h[s \ {One(s)}]]
    BY <2>1
  <2> QED BY <2>2 DEF SumsOf
<1>4. \E h : h = [s \in SUBSET S |-> by(h, s)]
  BY <1>3, SumsOn
<1>5. PICK k : k = [s \in SUBSET S |-> by(k, s)] /\ Analysis!Accesses(S) = k[S]
  BY <1>1, <1>4
<1>6. SumsOf(k, SUBSET S, f)
  BY <1>3, <1>5
<1> QED BY <1>5, <1>6, SumIs

LEMMA AccessesSum ==
  ASSUME NEW S, Accessed(S), NEW f, f = [r \in S |-> r.acc], NEW T, T \subseteq S
  PROVE  Weighed(f, T) /\ Analysis!Accesses(T) = Sum(f, T)
<1>1. IsFiniteSet(T) /\ \A r \in T : f[r] = r.acc /\ r.acc \in Nat
  BY FS_Subset DEF Accessed
<1> QED BY <1>1, AccessesAre DEF Weighed

LEMMA NoAccesses == Analysis!Accesses({}) = 0
<1>1. PICK f : f = [r \in {} |-> r.acc]
  OBVIOUS
<1> QED BY <1>1, AccessesAre, SumOfNone, FS_EmptySet

LEMMA AccessesInNat ==
  ASSUME NEW S, Accessed(S)
  PROVE  Analysis!Accesses(S) \in Nat
<1>1. PICK f : f = [r \in S |-> r.acc]
  OBVIOUS
<1> QED BY <1>1, AccessesSum, SumInNat

LEMMA AccessesWithout ==
  ASSUME NEW S, Accessed(S), NEW x \in S
  PROVE  Analysis!Accesses(S) = x.acc + Analysis!Accesses(S \ {x})
<1>1. PICK f : f = [r \in S |-> r.acc]
  OBVIOUS
<1>2. Weighed(f, S) /\ Analysis!Accesses(S) = Sum(f, S)
  BY <1>1, AccessesSum
<1>3. Analysis!Accesses(S \ {x}) = Sum(f, S \ {x})
  BY <1>1, AccessesSum
<1>4. f[x] = x.acc
  BY <1>1
<1> QED BY <1>2, <1>3, <1>4, SumWithout

LEMMA AccessesJoin ==
  ASSUME NEW S, NEW T, Accessed(S), Accessed(T), S \cap T = {}
  PROVE  Analysis!Accesses(S \cup T) = Analysis!Accesses(S) + Analysis!Accesses(T)
<1>1. PICK U : U = S \cup T
  OBVIOUS
<1>2. Accessed(U) /\ S \subseteq U /\ T \subseteq U
  BY <1>1, FS_Union DEF Accessed
<1>3. PICK f : f = [r \in U |-> r.acc]
  OBVIOUS
<1>4. Analysis!Accesses(U) = Sum(f, U)
  BY <1>2, <1>3, AccessesSum
<1>5. Weighed(f, S) /\ Analysis!Accesses(S) = Sum(f, S)
  BY <1>2, <1>3, AccessesSum
<1>6. Weighed(f, T) /\ Analysis!Accesses(T) = Sum(f, T)
  BY <1>2, <1>3, AccessesSum
<1> QED BY <1>1, <1>4, <1>5, <1>6, SumJoin

LEMMA AccessesGrow ==
  ASSUME NEW S, Accessed(S), NEW T, T \subseteq S
  PROVE  Analysis!Accesses(T) <= Analysis!Accesses(S)
<1> DEFINE Bad == {s \in SUBSET S : T \subseteq s /\ ~ (Analysis!Accesses(T) <= Analysis!Accesses(s))}
<1>1. SUFFICES ASSUME Bad # {} PROVE FALSE
  BY <1>1
<1>2. \A s \in SUBSET S : IsFiniteSet(s) /\ Accessed(s) /\ Analysis!Accesses(s) \in Nat
  BY FS_Subset, AccessesInNat DEF Accessed
<1>3. PICK s \in Bad : \A t \in Bad : Cardinality(s) <= Cardinality(t)
  BY <1>1, <1>2, SmallestSet
<1>4. s # T
  BY <1>2
<1>5. PICK x \in s : x \notin T
  BY <1>4
<1>6. Cardinality(s \ {x}) = Cardinality(s) - 1 /\ Cardinality(s) \in Nat
  BY <1>2, FS_RemoveElement, FS_CardinalityType
<1>7. s \ {x} \notin Bad
  BY <1>3, <1>6
<1>8. Analysis!Accesses(T) <= Analysis!Accesses(s \ {x})
  BY <1>5, <1>7
<1>9. Analysis!Accesses(s) = x.acc + Analysis!Accesses(s \ {x})
  BY <1>2, AccessesWithout
<1>10. x.acc \in Nat /\ Analysis!Accesses(s \ {x}) \in Nat /\ Analysis!Accesses(T) \in Nat
  BY <1>2 DEF Accessed
<1> QED BY <1>8, <1>9, <1>10

(***************************************************************************)
(* The exchange argument.  O has k records, or all that were accessed, and  *)
(* none outside has more accesses than one inside; then no k records have   *)
(* more accesses than O.                                                    *)
(***************************************************************************)
LEMMA Exchange ==
  ASSUME NEW S, Accessed(S), NEW O, O \subseteq S, NEW k \in Nat,
         \A a \in O, b \in S \ O : a.acc >= b.acc,
         Cardinality(O) >= k \/ \A b \in S \ O : b.acc = 0,
         NEW T, T \subseteq S, Cardinality(T) <= k
  PROVE  Analysis!Accesses(T) <= Analysis!Accesses(O)
<1> DEFINE Bad == {t \in SUBSET S : /\ Cardinality(t) <= k
                                    /\ ~ (Analysis!Accesses(t) <= Analysis!Accesses(O))}
<1>1. SUFFICES ASSUME Bad # {} PROVE FALSE
  BY <1>1
<1>2. \A s \in SUBSET S : /\ IsFiniteSet(s) /\ Accessed(s) /\ Analysis!Accesses(s) \in Nat
                          /\ Cardinality(s) \in Nat
  BY FS_Subset, FS_CardinalityType, AccessesInNat DEF Accessed
<1>3. PICK g : g = [t \in Bad |-> Cardinality(t \ O)]
  OBVIOUS
<1>4. \A t \in Bad : g[t] = Cardinality(t \ O) /\ g[t] \in Nat
  BY <1>2, <1>3
<1>5. PICK t \in Bad : \A u \in Bad : Cardinality(t \ O) <= Cardinality(u \ O)
  <2>1. PICK t \in Bad : \A u \in Bad : g[t] <= g[u]
    BY <1>1, <1>4, SmallestBy
  <2> QED BY <1>4, <2>1
<1>6. t \subseteq S /\ Cardinality(t) <= k /\ ~ (Analysis!Accesses(t) <= Analysis!Accesses(O))
  OBVIOUS
<1>7. ~ (t \subseteq O)
  <2>1. Accessed(O)
    BY <1>2
  <2> QED BY <1>6, <2>1, AccessesGrow
<1>8. PICK x \in t : x \notin O
  BY <1>7
<1>9. PICK rest : rest = t \ {x}
  OBVIOUS
<1>10. /\ rest \subseteq S /\ Cardinality(rest) = Cardinality(t) - 1
       /\ Analysis!Accesses(t) = x.acc + Analysis!Accesses(rest)
       /\ x.acc \in Nat /\ x \in S /\ x \notin rest
  BY <1>2, <1>6, <1>9, FS_RemoveElement, AccessesWithout DEF Accessed
<1>11. Cardinality(rest \ O) = Cardinality(t \ O) - 1
  <2>1. rest \ O = (t \ O) \ {x} /\ x \in t \ O
    BY <1>8, <1>9
  <2>2. IsFiniteSet(t \ O)
    BY <1>2, <1>6
  <2> QED BY <2>1, <2>2, FS_RemoveElement
<1>12. Cardinality(t \ O) \in Nat /\ Cardinality(rest \ O) \in Nat
  BY <1>2, <1>6, <1>10
<1>13. CASE O \subseteq t
  <2>1. O \subseteq rest
    BY <1>8, <1>9, <1>13
  <2>2. Cardinality(O) <= Cardinality(rest)
    BY <1>2, <1>10, <2>1, FS_Subset
  <2>3. Cardinality(O) < k
    BY <1>2, <1>6, <1>10, <2>2
  <2>4. x.acc = 0
    BY <1>2, <1>8, <1>10, <2>3
  <2>5. rest \in Bad
    BY <1>2, <1>6, <1>10, <2>4
  <2> QED BY <1>5, <1>11, <1>12, <2>5
<1>14. CASE ~ (O \subseteq t)
  <2>1. PICK y \in O : y \notin t
    BY <1>14
  <2>2. PICK u : u = rest \cup {y}
    OBVIOUS
  <2>3. u \subseteq S /\ y \in u /\ u \ {y} = rest /\ y \in S /\ y \notin rest
    BY <1>9, <1>10, <2>1, <2>2
  <2>4. Cardinality(u) = Cardinality(rest) + 1
    BY <1>2, <1>10, <2>2, <2>3, FS_AddElement
  <2>5. Analysis!Accesses(u) = y.acc + Analysis!Accesses(rest)
    BY <1>2, <2>3, AccessesWithout
  <2>6. y.acc >= x.acc /\ y.acc \in Nat
    BY <1>8, <1>10, <2>1, <2>3 DEF Accessed
  <2>7. u \in Bad
    BY <1>2, <1>6, <1>10, <2>3, <2>4, <2>5, <2>6
  <2>8. u \ O = rest \ O
    BY <2>1, <2>2
  <2> QED BY <1>5, <1>11, <1>12, <2>7, <2>8
<1> QED BY <1>13, <1>14

(***************************************************************************)
(* The best k by a score, where no two have the same key.                   *)
(***************************************************************************)
Ahead(score, key, y, x) == score[y] > score[x] \/ (score[y] = score[x] /\ key[y] < key[x])
AheadOf(score, key, x) == {y \in DOMAIN score : Ahead(score, key, y, x)}

Ranked(score, key) ==
  /\ IsFiniteSet(DOMAIN score)
  /\ \A x \in DOMAIN score : score[x] \in Nat /\ key[x] \in Nat
  /\ \A x, y \in DOMAIN score : key[x] = key[y] => x = y

LEMMA SetsOfAnalysis ==
  \A S : Analysis!Cardinality(S) = Cardinality(S) /\ (Analysis!IsFiniteSet(S) <=> IsFiniteSet(S))
BY DEF Analysis!Cardinality, Cardinality, Analysis!IsFiniteSet, IsFiniteSet

LEMMA BestIs ==
  ASSUME NEW score, NEW key, NEW k
  PROVE  Analysis!Best(score, key, k) = {x \in DOMAIN score : Cardinality(AheadOf(score, key, x)) < k}
BY DEF Analysis!Best, AheadOf, Ahead, Analysis!Cardinality, Cardinality

LEMMA AheadFacts ==
  ASSUME NEW score, NEW key, Ranked(score, key)
  PROVE  /\ \A x \in DOMAIN score : /\ IsFiniteSet(AheadOf(score, key, x))
                                    /\ Cardinality(AheadOf(score, key, x)) \in Nat
                                    /\ x \notin AheadOf(score, key, x)
         /\ \A x, y \in DOMAIN score :
              /\ x = y \/ y \in AheadOf(score, key, x) \/ x \in AheadOf(score, key, y)
              /\ y \in AheadOf(score, key, x) =>
                   Cardinality(AheadOf(score, key, y)) < Cardinality(AheadOf(score, key, x))
<1>1. ASSUME NEW x \in DOMAIN score
      PROVE  /\ IsFiniteSet(AheadOf(score, key, x)) /\ Cardinality(AheadOf(score, key, x)) \in Nat
             /\ x \notin AheadOf(score, key, x)
  <2>1. AheadOf(score, key, x) \subseteq DOMAIN score
    BY DEF AheadOf
  <2>2. x \notin AheadOf(score, key, x)
    BY DEF AheadOf, Ahead, Ranked
  <2> QED BY <2>1, <2>2, FS_Subset, FS_CardinalityType DEF Ranked
<1>2. ASSUME NEW x \in DOMAIN score, NEW y \in DOMAIN score
      PROVE  x = y \/ y \in AheadOf(score, key, x) \/ x \in AheadOf(score, key, y)
  BY DEF AheadOf, Ahead, Ranked
<1>3. ASSUME NEW x \in DOMAIN score, NEW y \in AheadOf(score, key, x)
      PROVE  Cardinality(AheadOf(score, key, y)) < Cardinality(AheadOf(score, key, x))
  <2>1. y \in DOMAIN score
    BY DEF AheadOf
  <2>2. AheadOf(score, key, y) \subseteq AheadOf(score, key, x)
    BY <1>3, <2>1 DEF AheadOf, Ahead, Ranked
  <2>3. AheadOf(score, key, y) \subseteq AheadOf(score, key, x) \ {y}
    BY <1>1, <2>1, <2>2
  <2>4. /\ IsFiniteSet(AheadOf(score, key, x) \ {y})
        /\ Cardinality(AheadOf(score, key, x) \ {y}) = Cardinality(AheadOf(score, key, x)) - 1
    BY <1>1, FS_RemoveElement
  <2>5. Cardinality(AheadOf(score, key, y)) <= Cardinality(AheadOf(score, key, x) \ {y})
    BY <2>3, <2>4, FS_Subset
  <2> QED BY <1>1, <2>1, <2>4, <2>5
<1> QED BY <1>1, <1>2, <1>3

LEMMA BestFacts ==
  ASSUME NEW score, NEW key, Ranked(score, key), NEW k \in Nat, NEW B,
         B = Analysis!Best(score, key, k)
  PROVE  /\ B \subseteq DOMAIN score /\ IsFiniteSet(B) /\ Cardinality(B) <= k
         /\ Cardinality(B) >= k \/ B = DOMAIN score
         /\ \A a \in B, b \in DOMAIN score \ B : score[a] >= score[b]
<1>1. PICK D : D = DOMAIN score
  OBVIOUS
<1>2. PICK A : A = [x \in D |-> AheadOf(score, key, x)]
  OBVIOUS
<1>3. PICK n : n = [x \in D |-> Cardinality(A[x])]
  OBVIOUS
<1>4. B = {x \in D : n[x] < k}
  BY <1>1, <1>2, <1>3, BestIs
<1>5. /\ \A x \in D : IsFiniteSet(A[x]) /\ n[x] \in Nat /\ n[x] = Cardinality(A[x]) /\ A[x] \subseteq D
      /\ \A x, y \in D : (x = y \/ y \in A[x] \/ x \in A[y]) /\ (y \in A[x] => n[y] < n[x])
  <2>1. \A x \in D : A[x] = AheadOf(score, key, x) /\ n[x] = Cardinality(AheadOf(score, key, x))
    BY <1>2, <1>3
  <2>2. \A x \in D : A[x] \subseteq D
    BY <1>1, <2>1 DEF AheadOf
  <2> QED BY <1>1, <2>1, <2>2, AheadFacts
<1>6. B \subseteq D /\ IsFiniteSet(D) /\ IsFiniteSet(B) /\ Cardinality(B) \in Nat
  BY <1>1, <1>4, FS_Subset, FS_CardinalityType DEF Ranked
<1>7. Cardinality(B) <= k
  <2>1. CASE B = {}
    BY <2>1, FS_EmptySet
  <2>2. CASE B # {}
    <3>1. PICK m : m = [x \in B |-> k - n[x]]
      OBVIOUS
    <3>2. \A x \in B : m[x] \in Nat /\ m[x] = k - n[x] /\ n[x] \in Nat
      BY <1>4, <1>5, <3>1
    <3>3. PICK x \in B : \A y \in B : m[x] <= m[y]
      BY <2>2, <3>2, SmallestBy
    <3>4. \A y \in B : n[y] <= n[x]
      BY <3>2, <3>3
    <3>5. ASSUME NEW y \in B, y # x PROVE y \in A[x]
      <4>1. x \notin A[y]
        BY <1>5, <1>6, <3>2, <3>4
      <4> QED BY <1>5, <1>6, <3>5, <4>1
    <3>6. B \ {x} \subseteq A[x]
      BY <3>5
    <3>7. Cardinality(B \ {x}) <= n[x]
      BY <1>5, <1>6, <3>6, FS_Subset
    <3>8. Cardinality(B \ {x}) = Cardinality(B) - 1
      BY <1>6, FS_RemoveElement
    <3> QED BY <1>4, <1>6, <3>2, <3>7, <3>8
  <2> QED BY <2>1, <2>2
<1>8. Cardinality(B) >= k \/ B = D
  <2>1. SUFFICES ASSUME B # D PROVE Cardinality(B) >= k
    OBVIOUS
  <2>2. D \ B # {} /\ \A x \in D \ B : n[x] \in Nat
    BY <1>5, <1>6, <2>1
  <2>3. PICK x \in D \ B : \A y \in D \ B : n[x] <= n[y]
    BY <2>2, SmallestBy
  <2>4. A[x] \subseteq B
    BY <1>5, <2>3
  <2>5. n[x] <= Cardinality(B)
    BY <1>5, <1>6, <2>4, FS_Subset
  <2>6. n[x] >= k
    BY <1>4, <1>5
  <2> QED BY <1>5, <1>6, <2>5, <2>6
<1>9. ASSUME NEW a \in B, NEW b \in D \ B PROVE score[a] >= score[b]
  <2>1. n[a] < n[b]
    BY <1>4, <1>5, <1>6
  <2>2. b \notin A[a]
    BY <1>5, <1>6, <2>1
  <2>3. ~ (score[b] > score[a])
    BY <1>1, <1>2, <1>6, <2>2 DEF AheadOf, Ahead
  <2> QED BY <1>1, <1>6, <2>3 DEF Ranked
<1> QED BY <1>1, <1>6, <1>7, <1>8, <1>9

\* The records of one window.
IsWindow(R) ==
  /\ IsFiniteSet(R) /\ R \subseteq Analysis!RawRecord
  /\ \A x, y \in R : x.page = y.page => x = y

LEMMA RecordTyped ==
  ASSUME NEW R, IsWindow(R)
  PROVE  Accessed(R) /\ \A r \in R : r.page \in Nat /\ r.acc \in Nat
BY DEF IsWindow, Accessed, Analysis!RawRecord

LEMMA PagesAre ==
  ASSUME NEW B, IsFiniteSet(B)
  PROVE  /\ IsFiniteSet({r.page : r \in B})
         /\ Cardinality({r.page : r \in B}) <= Cardinality(B)
<1>1. PICK f : f = [r \in B |-> r.page]
  OBVIOUS
<1>2. f \in Surjection(B, {r.page : r \in B})
  BY <1>1 DEF Surjection
<1> QED BY <1>2, FS_Surjection

\* So many pages have at most so many records.
LEMMA RecordsOfPages ==
  ASSUME NEW R, IsWindow(R), NEW C, IsFiniteSet(C)
  PROVE  Cardinality({r \in R : r.page \in C}) <= Cardinality(C)
<1>1. PICK T : T = {r \in R : r.page \in C}
  OBVIOUS
<1>2. PICK f : f = [r \in T |-> r.page]
  OBVIOUS
<1>3. f \in Injection(T, C)
  BY <1>1, <1>2 DEF Injection, IsInjective, IsWindow
<1> QED BY <1>1, <1>3, FS_Injection

LEMMA RankedByPage ==
  ASSUME NEW R, IsWindow(R), NEW S, S \subseteq R, NEW s, NEW k,
         DOMAIN s = S, \A r \in S : s[r] \in Nat, k = [r \in S |-> r.page]
  PROVE  Ranked(s, k)
<1>1. IsFiniteSet(S)
  BY FS_Subset DEF IsWindow
<1>2. \A r \in S : k[r] = r.page /\ r.page \in Nat
  BY RecordTyped
<1> QED BY <1>1, <1>2 DEF Ranked, IsWindow

\* What is chosen by any score fits.
LEMMA ChosenFit ==
  ASSUME NEW R, IsWindow(R), NEW score, DOMAIN score = R, \A r \in R : score[r] \in Nat,
         NEW capacity \in Nat
  PROVE  /\ IsFiniteSet(Analysis!Choice(score, capacity))
         /\ Cardinality(Analysis!Choice(score, capacity)) <= capacity
<1>1. PICK S : S = {r \in R : score[r] > 0}
  OBVIOUS
<1>2. PICK s : s = [r \in S |-> score[r]]
  OBVIOUS
<1>3. PICK k : k = [r \in S |-> r.page]
  OBVIOUS
<1>4. PICK B : B = Analysis!Best(s, k, capacity)
  OBVIOUS
<1>5. Analysis!Choice(score, capacity) = {r.page : r \in B}
  BY <1>1, <1>2, <1>3, <1>4 DEF Analysis!Choice, Analysis!PagesOf
<1>6. S \subseteq R /\ DOMAIN s = S /\ \A r \in S : s[r] \in Nat
  BY <1>1, <1>2
<1>7. Ranked(s, k)
  BY <1>3, <1>6, RankedByPage
<1>8. IsFiniteSet(B) /\ Cardinality(B) <= capacity
  BY <1>4, <1>7, BestFacts
<1>9. IsFiniteSet({r.page : r \in B}) /\ Cardinality({r.page : r \in B}) <= Cardinality(B)
  BY <1>8, PagesAre
<1> QED BY <1>5, <1>8, <1>9, FS_CardinalityType

LEMMA LandingIs ==
  ASSUME NEW R, NEW C
  PROVE  Analysis!Landing(R, C) = Analysis!Accesses({r \in R : r.page \in C})
BY DEF Analysis!Landing

LEMMA LandingInNat ==
  ASSUME NEW R, IsWindow(R), NEW C
  PROVE  Analysis!Landing(R, C) \in Nat
<1>1. Accessed({r \in R : r.page \in C})
  BY RecordTyped, FS_Subset DEF Accessed
<1> QED BY <1>1, LandingIs, AccessesInNat

\* No pages take more accesses of a window than its best records do.
LEMMA BestLandMost ==
  ASSUME NEW R, IsWindow(R), NEW S, S \subseteq R, \A r \in R \ S : r.acc = 0, NEW k \in Nat,
         NEW B, B = Analysis!Best([r \in S |-> r.acc], [r \in S |-> r.page], k),
         NEW C, IsFiniteSet(C), Cardinality(C) <= k
  PROVE  Analysis!Landing(R, C) <= Analysis!Landing(R, {r.page : r \in B})
<1>1. PICK s : s = [r \in S |-> r.acc]
  OBVIOUS
<1>2. PICK key : key = [r \in S |-> r.page]
  OBVIOUS
<1>3. DOMAIN s = S /\ \A r \in S : s[r] = r.acc /\ r.acc \in Nat
  BY <1>1, RecordTyped
<1>4. Ranked(s, key)
  BY <1>2, <1>3, RankedByPage
<1>5. /\ B \subseteq S /\ IsFiniteSet(B) /\ Cardinality(B) <= k
      /\ Cardinality(B) >= k \/ B = S
      /\ \A a \in B, b \in S \ B : s[a] >= s[b]
  BY <1>1, <1>2, <1>3, <1>4, BestFacts
<1>6. PICK T : T = {r \in R : r.page \in C}
  OBVIOUS
<1>7. T \subseteq R /\ Cardinality(T) <= k
  <2>1. IsFiniteSet(T)
    BY <1>6, FS_Subset DEF IsWindow
  <2>2. Cardinality(T) \in Nat /\ Cardinality(C) \in Nat
    BY <2>1, FS_CardinalityType
  <2> QED BY <1>6, <2>2, RecordsOfPages
<1>8. \A a \in B, b \in R \ B : a.acc >= b.acc
  BY <1>3, <1>5, RecordTyped
<1>9. Cardinality(B) >= k \/ \A b \in R \ B : b.acc = 0
  BY <1>5
<1>10. Analysis!Accesses(T) <= Analysis!Accesses(B)
  BY <1>5, <1>7, <1>8, <1>9, RecordTyped, Exchange
<1>11. {r \in R : r.page \in {x.page : x \in B}} = B
  BY <1>5 DEF IsWindow
<1> QED BY <1>6, <1>10, <1>11, LandingIs

LEMMA OracleLandsMost ==
  ASSUME NEW R, IsWindow(R), NEW capacity \in Nat, NEW C, IsFiniteSet(C),
         Cardinality(C) <= capacity
  PROVE  Analysis!Landing(R, C) <= Analysis!Landing(R, Analysis!Oracle(R, capacity))
<1>1. PICK S : S = {r \in R : r.acc > 0}
  OBVIOUS
<1>2. PICK B : B = Analysis!Best([r \in S |-> r.acc], [r \in S |-> r.page], capacity)
  OBVIOUS
<1>3. Analysis!Oracle(R, capacity) = {r.page : r \in B}
  <2>1. PICK a : a = [r \in R |-> r.acc]
    OBVIOUS
  <2>2. {r \in DOMAIN a : a[r] > 0} = S
    BY <1>1, <2>1
  <2>3. [r \in S |-> a[r]] = [r \in S |-> r.acc]
    BY <1>1, <2>1
  <2> QED BY <1>2, <2>1, <2>2, <2>3
          DEF Analysis!Oracle, Analysis!Choice, Analysis!AccessesOf, Analysis!PagesOf
<1>4. S \subseteq R /\ \A r \in R \ S : r.acc = 0
  BY <1>1, RecordTyped
<1> QED BY <1>2, <1>3, <1>4, BestLandMost

LEMMA OwnLandMost ==
  ASSUME NEW R, IsWindow(R), NEW k \in Nat, NEW C, IsFiniteSet(C), Cardinality(C) <= k
  PROVE  Analysis!Landing(R, C) <= Analysis!Landing(R, Analysis!TopK(R, k))
<1>1. PICK B : B = Analysis!Best([r \in R |-> r.acc], [r \in R |-> r.page], k)
  OBVIOUS
<1>2. Analysis!TopK(R, k) = {r.page : r \in B}
  BY <1>1 DEF Analysis!TopK, Analysis!AccessesOf, Analysis!PagesOf
<1>3. R \subseteq R /\ \A r \in R \ R : r.acc = 0
  OBVIOUS
<1> QED BY <1>1, <1>2, <1>3, BestLandMost

LEMMA TopKFit ==
  ASSUME NEW R, IsWindow(R), NEW k \in Nat
  PROVE  IsFiniteSet(Analysis!TopK(R, k)) /\ Cardinality(Analysis!TopK(R, k)) <= k
<1>1. PICK s : s = [r \in R |-> r.acc]
  OBVIOUS
<1>2. PICK key : key = [r \in R |-> r.page]
  OBVIOUS
<1>3. PICK B : B = Analysis!Best(s, key, k)
  OBVIOUS
<1>4. Analysis!TopK(R, k) = {r.page : r \in B}
  BY <1>1, <1>2, <1>3 DEF Analysis!TopK, Analysis!AccessesOf, Analysis!PagesOf
<1>5. Ranked(s, key)
  BY <1>1, <1>2, RecordTyped, RankedByPage
<1>6. IsFiniteSet(B) /\ Cardinality(B) <= k
  BY <1>3, <1>5, BestFacts
<1>7. IsFiniteSet({r.page : r \in B}) /\ Cardinality({r.page : r \in B}) <= Cardinality(B)
  BY <1>6, PagesAre
<1> QED BY <1>4, <1>6, <1>7, FS_CardinalityType

\* The candidates of each policy fit.
LEMMA CandidatesFit ==
  ASSUME NEW R, IsWindow(R), NEW capacity \in Nat, NEW p \in Analysis!Policies
  PROVE  /\ IsFiniteSet(Analysis!Candidates(R, capacity)[p])
         /\ Cardinality(Analysis!Candidates(R, capacity)[p]) <= capacity
<1>1. PICK hot : hot = Analysis!HottestWords(R, capacity * HotWords)
  OBVIOUS
<1>2. \A r \in R : Analysis!InPage(hot, r) \in Nat
  <2>1. IsFiniteSet(R \X Analysis!WordIds)
    <3>1. 0 \in Int /\ Words - 1 \in Int
      BY AnalysisAssumption
    <3>2. IsFiniteSet(Analysis!WordIds)
      BY <3>1, FS_Interval DEF Analysis!WordIds
    <3> QED BY <3>2, FS_Product DEF IsWindow
  <2>2. hot \subseteq R \X Analysis!WordIds
    <3>1. PICK c : c = {x \in R \X Analysis!WordIds : x[1].words[x[2]] > 0}
      OBVIOUS
    <3>2. hot \subseteq c
      BY <1>1, <3>1, BestIs DEF Analysis!HottestWords
    <3> QED BY <3>1, <3>2
  <2>3. IsFiniteSet(hot)
    BY <2>1, <2>2, FS_Subset
  <2>4. ASSUME NEW r \in R PROVE Analysis!InPage(hot, r) \in Nat
    <3>1. IsFiniteSet({x \in hot : x[1] = r})
      BY <2>3, FS_Subset
    <3> QED BY <3>1, FS_CardinalityType, SetsOfAnalysis DEF Analysis!InPage
  <2> QED BY <2>4
<1>3. PICK accs : accs = [r \in R |-> r.acc]
  OBVIOUS
<1>4. PICK hpt : hpt = Analysis!Choice(accs, capacity)
  OBVIOUS
<1>5. PICK both : both = [r \in R |-> IF r.page \in hpt THEN Analysis!InPage(hot, r) ELSE 0]
  OBVIOUS
<1>6. PICK all : all = [r \in R |-> Analysis!InPage(hot, r)]
  OBVIOUS
<1>7. Analysis!Candidates(R, capacity)[p] \in
        {Analysis!Choice(accs, capacity), Analysis!Choice(both, capacity),
         Analysis!Choice(all, capacity)}
  BY <1>1, <1>3, <1>4, <1>5, <1>6 DEF Analysis!Candidates, Analysis!Policies, Analysis!AccessesOf
<1>8. \A f \in {accs, both, all} : DOMAIN f = R /\ \A r \in R : f[r] \in Nat
  BY <1>2, <1>3, <1>5, <1>6, RecordTyped
<1>9. \A f \in {accs, both, all} : /\ IsFiniteSet(Analysis!Choice(f, capacity))
                                   /\ Cardinality(Analysis!Choice(f, capacity)) <= capacity
  BY <1>8, ChosenFit
<1> QED BY <1>7, <1>9

ReaderTypes ==
  /\ dump \in Dumps /\ block \in BlockSizes
  /\ reader \in [pos : Nat, pending : Seq(Analysis!RawRecord), last : Int, eof : BOOLEAN]
  /\ reader.pos <= Len(dump.recs)

\* What is counted of a transition.
Row == [kept : Nat, of : Nat, either : Nat, late : Nat, own : Nat, total : Nat]

LEMMA TransitionCounts ==
  ASSUME NEW P, IsWindow(P), NEW R, IsWindow(R), NEW k \in Nat, NEW t,
         t = Analysis!Transition(P, R, k)
  PROVE  t \in Row /\ t.late <= t.own
<1>1. PICK was : was = Analysis!TopK(P, k)
  OBVIOUS
<1>2. PICK is : is = Analysis!TopK(R, k)
  OBVIOUS
<1>3. IsFiniteSet(was) /\ IsFiniteSet(is) /\ Cardinality(was) <= k
  BY <1>1, <1>2, TopKFit
<1>4. /\ Cardinality(was \cap is) \in Nat /\ Cardinality(was) \in Nat
      /\ Cardinality(was \cup is) \in Nat
  <2>1. IsFiniteSet(was \cap is) /\ IsFiniteSet(was \cup is)
    BY <1>3, FS_Subset, FS_Union
  <2> QED BY <1>3, <2>1, FS_CardinalityType
<1>5. /\ Analysis!Landing(R, was) \in Nat /\ Analysis!Landing(R, is) \in Nat
      /\ Analysis!Accesses(R) \in Nat
  BY LandingInNat, RecordTyped, AccessesInNat
<1>6. Analysis!Landing(R, was) <= Analysis!Landing(R, is)
  BY <1>2, <1>3, OwnLandMost
<1>7. t = [kept |-> Cardinality(was \cap is), of |-> Cardinality(was),
           either |-> Cardinality(was \cup is),
           late |-> Analysis!Landing(R, was), own |-> Analysis!Landing(R, is),
           total |-> Analysis!Accesses(R)]
  BY <1>1, <1>2, SetsOfAnalysis DEF Analysis!Transition
<1> QED BY <1>4, <1>5, <1>6, <1>7 DEF Row

\* Totals are numbers, and before the second window nothing is placed.
TotalsTyped ==
  /\ IsWindow(prev)
  /\ \A d \in Divisors : sums.capacity[d] \in Nat
  /\ \A k \in Ks : sums.turnover[k] \in Seq(Row)
  /\ \A d \in Divisors, p \in Analysis!AllPolicies :
       /\ placed[d][p].fast \in Nat
       /\ prev = {} => placed[d][p].resident = {}

OracleInv == ReaderTypes /\ TotalsTyped /\ OracleIsBest

LEMMA FreshReader == Analysis!Fresh /\ dump \in Dumps /\ block \in BlockSizes => OracleInv
<1> SUFFICES ASSUME Analysis!Fresh, dump \in Dumps, block \in BlockSizes PROVE OracleInv
  OBVIOUS
<1>1. ReaderTypes
  <2>1. dump.recs \in Seq(Analysis!RawRecord)
    BY AnalysisAssumption
  <2>2. reader = [pos |-> 0, pending |-> <<>>, last |-> -1, eof |-> FALSE]
    BY DEF Analysis!Fresh
  <2>3. Len(dump.recs) \in Nat /\ <<>> \in Seq(Analysis!RawRecord)
    BY <2>1
  <2> QED BY <2>2, <2>3 DEF ReaderTypes
<1>2. prev = {}
  BY DEF Analysis!Fresh
<1>3. \A d \in Divisors, p \in Analysis!AllPolicies :
        placed[d][p] = [fast |-> 0, new |-> 0, rounds |-> 0, resident |-> {}]
  BY DEF Analysis!Fresh, Analysis!Nowhere
<1>4. /\ \A d \in Divisors : sums.capacity[d] = 0
      /\ \A k \in Ks : sums.turnover[k] = <<>>
  BY DEF Analysis!Fresh, Analysis!NoSums
<1>5. TotalsTyped
  <2>1. IsWindow(prev)
    BY <1>2, FS_EmptySet DEF IsWindow
  <2>2. \A d \in Divisors : sums.capacity[d] \in Nat
    BY <1>4
  <2>3. \A k \in Ks : sums.turnover[k] \in Seq(Row)
    <3>1. <<>> \in Seq(Row)
      OBVIOUS
    <3> QED BY <1>4, <3>1
  <2>4. \A d \in Divisors, p \in Analysis!AllPolicies :
          placed[d][p].fast = 0 /\ placed[d][p].resident = {}
    BY <1>3
  <2> QED BY <2>1, <2>2, <2>3, <2>4 DEF TotalsTyped
<1>6. OracleIsBest
  <2>1. \A d \in Divisors, p \in Analysis!AllPolicies :
          Analysis!Cardinality(placed[d][p].resident) = 0
    BY <1>3, SetsOfAnalysis, FS_EmptySet
  <2>2. "oracle" \in Analysis!AllPolicies
    BY DEF Analysis!AllPolicies
  <2> QED BY <1>3, <1>4, <2>1, <2>2 DEF OracleIsBest, Analysis!OracleIsBest
<1> QED BY <1>1, <1>5, <1>6 DEF OracleInv

LEMMA ReadTypes ==
  ASSUME ReaderTypes, Analysis!Read
  PROVE  ReaderTypes' /\ UNCHANGED <<sums, prev, placed>>
<1>1. UNCHANGED <<dump, block, sums, prev, placed>>
  BY DEF Analysis!Read
<1>2. CASE UNCHANGED reader
  BY <1>1, <1>2 DEF ReaderTypes
<1>3. CASE ~ UNCHANGED reader
  <2>1. PICK recs : recs = dump.recs
    OBVIOUS
  <2>2. PICK left : left = Len(recs) - reader.pos
    OBVIOUS
  <2>3. PICK n : n = IF left < block THEN left ELSE block
    OBVIOUS
  <2>4. PICK more : more = SubSeq(recs, reader.pos + 1, reader.pos + n)
    OBVIOUS
  <2>5. reader' = [reader EXCEPT !.pos = @ + n, !.eof = n = 0, !.pending = @ \o more]
    BY <1>3, <2>1, <2>2, <2>3, <2>4 DEF Analysis!Read
  <2>6. /\ recs \in Seq(Analysis!RawRecord) /\ Len(recs) \in Nat /\ block \in Nat
        /\ reader.pos \in Nat /\ reader.pos <= Len(recs)
    BY <2>1, AnalysisAssumption DEF ReaderTypes
  <2>7. n \in Nat /\ reader.pos + n \in Nat /\ reader.pos + n <= Len(recs)
    BY <2>2, <2>3, <2>6
  <2>8. more \in Seq(Analysis!RawRecord)
    <3>1. \A i \in (reader.pos + 1) .. (reader.pos + n) : recs[i] \in Analysis!RawRecord
      BY <2>6, <2>7
    <3> QED BY <2>4, <2>6, <2>7, <3>1, SubSeqProperties
  <2>9. reader.pending \o more \in Seq(Analysis!RawRecord)
    BY <2>8, ConcatProperties DEF ReaderTypes
  <2>10. (n = 0) \in BOOLEAN
    OBVIOUS
  <2> QED BY <1>1, <2>1, <2>5, <2>7, <2>9, <2>10 DEF ReaderTypes
<1> QED BY <1>2, <1>3

\* The window that is yielded has records, and no page twice if it passes the checks.
LEMMA WindowYielded ==
  ASSUME ReaderTypes, Analysis!Yields, NEW s,
         s = SubSeq(reader.pending, 1, Analysis!WindowEnd), Analysis!Consistent(s)
  PROVE  /\ IsWindow(Analysis!SetOf(s)) /\ Analysis!SetOf(s) # {}
         /\ SubSeq(reader.pending, Analysis!WindowEnd + 1, Len(reader.pending))
              \in Seq(Analysis!RawRecord)
<1>1. PICK t : t = reader.pending
  OBVIOUS
<1>2. PICK e : e = Analysis!WindowEnd
  OBVIOUS
<1>3. t \in Seq(Analysis!RawRecord) /\ Len(t) \in Nat \ {0}
  <2>1. t # <<>> /\ t \in Seq(Analysis!RawRecord)
    BY <1>1 DEF Analysis!Yields, ReaderTypes
  <2> QED BY <2>1
<1>4. e \in 1 .. Len(t)
  <2>1. PICK b : b = Analysis!Boundaries(t)
    OBVIOUS
  <2>2. b \subseteq 1 .. Len(t) - 1
    BY <2>1 DEF Analysis!Boundaries
  <2>3. CASE b # {}
    <3>1. \E x \in b : \A y \in b : x <= y
      <4>1. b \subseteq Nat
        BY <1>3, <2>2
      <4> QED BY <2>3, <4>1, LeastOf
    <3>2. e = Analysis!Min(b)
      BY <1>1, <1>2, <2>1, <2>3 DEF Analysis!WindowEnd
    <3>3. e \in b
      BY <3>1, <3>2 DEF Analysis!Min
    <3> QED BY <1>3, <2>2, <3>3
  <2>4. CASE b = {}
    BY <1>1, <1>2, <1>3, <2>1, <2>4 DEF Analysis!WindowEnd
  <2> QED BY <2>3, <2>4
<1>5. s \in Seq(Analysis!RawRecord) /\ Len(s) = e
  <2>1. s = SubSeq(t, 1, e) /\ 1 \in Int /\ e \in Int /\ \A i \in 1 .. e : t[i] \in Analysis!RawRecord
    BY <1>1, <1>2, <1>3, <1>4
  <2>2. /\ SubSeq(t, 1, e) \in Seq(Analysis!RawRecord)
        /\ Len(SubSeq(t, 1, e)) = IF 1 <= e THEN e - 1 + 1 ELSE 0
    BY <2>1, SubSeqProperties
  <2>3. 1 <= e /\ e - 1 + 1 = e
    BY <1>3, <1>4
  <2> QED BY <2>1, <2>2, <2>3
<1>6. SubSeq(t, e + 1, Len(t)) \in Seq(Analysis!RawRecord)
  <2>1. e + 1 \in Int /\ Len(t) \in Int /\ \A i \in e + 1 .. Len(t) : t[i] \in Analysis!RawRecord
    BY <1>3, <1>4
  <2> QED BY <2>1, SubSeqProperties
<1>7. PICK R : R = Analysis!SetOf(s)
  OBVIOUS
<1>8. R = {s[i] : i \in DOMAIN s}
  BY <1>7 DEF Analysis!SetOf
<1>9. DOMAIN s = 1 .. e /\ e \in Nat /\ 1 \in 1 .. e
  BY <1>4, <1>5
<1>10. IsFiniteSet(R)
  <2>1. PICK f : f = [i \in 1 .. e |-> s[i]]
    OBVIOUS
  <2>2. f \in Surjection(1 .. e, R)
    BY <1>8, <1>9, <2>1 DEF Surjection
  <2>3. IsFiniteSet(1 .. e)
    BY <1>9, FS_Interval
  <2> QED BY <2>2, <2>3, FS_Surjection
<1>11. R \subseteq Analysis!RawRecord /\ R # {}
  BY <1>5, <1>8, <1>9
<1>12. \A x, y \in R : x.page = y.page => x = y
  <2>1. \A i, j \in DOMAIN s : s[i].page = s[j].page => i = j
    BY DEF Analysis!Consistent
  <2>2. ASSUME NEW x \in R, NEW y \in R, x.page = y.page PROVE x = y
    <3>1. PICK i \in DOMAIN s : x = s[i]
      BY <1>8
    <3>2. PICK j \in DOMAIN s : y = s[j]
      BY <1>8
    <3>3. i = j
      BY <2>1, <2>2, <3>1, <3>2
    <3> QED BY <3>1, <3>2, <3>3
  <2> QED BY <2>2
<1> QED BY <1>1, <1>2, <1>6, <1>7, <1>10, <1>11, <1>12 DEF IsWindow

\* What each policy selects fits, the oracle's always.
LEMMA SelectionsFit ==
  ASSUME IsWindow(prev), NEW R, IsWindow(R), NEW capacity \in Nat, NEW sel,
         sel = Analysis!Selections(R, capacity)
  PROVE  /\ "oracle" \in DOMAIN sel /\ sel["oracle"] = Analysis!Oracle(R, capacity)
         /\ \A p \in DOMAIN sel : IsFiniteSet(sel[p]) /\ Cardinality(sel[p]) <= capacity
<1>1. /\ DOMAIN sel = {"count-only", "oracle"} \cup
                      (IF Analysis!IsSaturated(prev) THEN {} ELSE Analysis!Policies)
      /\ \A p \in DOMAIN sel : sel[p] = IF p = "oracle" THEN Analysis!Oracle(R, capacity)
                                        ELSE Analysis!Candidates(prev, capacity)[p]
  BY DEF Analysis!Selections
<1>2. \A p \in DOMAIN sel : p = "oracle" \/ p \in Analysis!Policies
  BY <1>1 DEF Analysis!Policies
<1>3. IsFiniteSet(Analysis!Oracle(R, capacity)) /\ Cardinality(Analysis!Oracle(R, capacity)) <= capacity
  <2>1. PICK a : a = [r \in R |-> r.acc]
    OBVIOUS
  <2>2. DOMAIN a = R /\ \A r \in R : a[r] \in Nat
    BY <2>1, RecordTyped
  <2>3. Analysis!Oracle(R, capacity) = Analysis!Choice(a, capacity)
    BY <2>1 DEF Analysis!Oracle, Analysis!AccessesOf
  <2> QED BY <2>2, <2>3, ChosenFit
<1>4. ASSUME NEW p \in DOMAIN sel PROVE IsFiniteSet(sel[p]) /\ Cardinality(sel[p]) <= capacity
  <2>1. CASE p = "oracle"
    BY <1>1, <1>3, <2>1
  <2>2. CASE p # "oracle"
    BY <1>1, <1>2, <2>2, CandidatesFit
  <2> QED BY <2>1, <2>2
<1> QED BY <1>1, <1>4

\* Another window after the first.
LEMMA WindowPlaced ==
  ASSUME TotalsTyped, OracleIsBest, prev # {}, NEW R, IsWindow(R), R # {},
         sums' = Analysis!Counted(R), placed' = Analysis!Place(R), prev' = R
  PROVE  TotalsTyped' /\ OracleIsBest'
<1>1. sums'.capacity = sums.capacity
  BY DEF Analysis!Counted
<1>2. ASSUME NEW d \in Divisors, NEW p \in Analysis!AllPolicies
      PROVE  /\ placed'[d][p].fast \in Nat /\ placed'[d][p].fast <= placed'[d]["oracle"].fast
             /\ Cardinality(placed'[d][p].resident) <= sums.capacity[d]
  <2>1. PICK capacity : capacity = sums.capacity[d]
    OBVIOUS
  <2>2. capacity \in Nat
    BY <2>1 DEF TotalsTyped
  <2>3. PICK sel : sel = Analysis!Selections(R, capacity)
    OBVIOUS
  <2>4. /\ "oracle" \in DOMAIN sel /\ sel["oracle"] = Analysis!Oracle(R, capacity)
        /\ \A q \in DOMAIN sel : IsFiniteSet(sel[q]) /\ Cardinality(sel[q]) <= capacity
    BY <2>2, <2>3, SelectionsFit DEF TotalsTyped
  <2>5. \A q \in Analysis!AllPolicies :
          placed'[d][q] = IF q \in DOMAIN sel THEN Analysis!Round(placed[d][q], R, sel[q])
                          ELSE placed[d][q]
    BY <2>1, <2>3 DEF Analysis!Place
  <2>6. \A q \in Analysis!AllPolicies :
          /\ q \in DOMAIN sel =>
               /\ placed'[d][q].fast = placed[d][q].fast + Analysis!Landing(R, sel[q])
               /\ placed'[d][q].resident = sel[q]
          /\ q \notin DOMAIN sel => placed'[d][q] = placed[d][q]
    <3>1. ASSUME NEW was, NEW chosen
          PROVE  /\ Analysis!Round(was, R, chosen).fast = was.fast + Analysis!Landing(R, chosen)
                 /\ Analysis!Round(was, R, chosen).resident = chosen
      BY DEF Analysis!Round
    <3> QED BY <2>5, <3>1
  <2>7. "oracle" \in Analysis!AllPolicies
    BY DEF Analysis!AllPolicies
  <2>8. PICK o : o = Analysis!Landing(R, Analysis!Oracle(R, capacity))
    OBVIOUS
  <2>9. placed'[d]["oracle"].fast = placed[d]["oracle"].fast + o /\ o \in Nat
    BY <2>4, <2>6, <2>7, <2>8, LandingInNat
  <2>10. /\ placed[d][p].fast \in Nat /\ placed[d]["oracle"].fast \in Nat
         /\ placed[d][p].fast <= placed[d]["oracle"].fast
         /\ Cardinality(placed[d][p].resident) <= capacity
    BY <2>1, <2>7, SetsOfAnalysis DEF TotalsTyped, OracleIsBest, Analysis!OracleIsBest
  <2>11. CASE p \in DOMAIN sel
    <3>1. PICK l : l = Analysis!Landing(R, sel[p])
      OBVIOUS
    <3>2. l \in Nat
      BY <3>1, LandingInNat
    <3>3. l <= o
      BY <2>2, <2>4, <2>8, <2>11, <3>1, OracleLandsMost
    <3>4. placed'[d][p].fast = placed[d][p].fast + l /\ placed'[d][p].resident = sel[p]
      BY <2>6, <2>11, <3>1
    <3>5. Cardinality(sel[p]) <= capacity
      BY <2>4, <2>11
    <3> QED BY <2>1, <2>9, <2>10, <3>2, <3>3, <3>4, <3>5
  <2>12. CASE p \notin DOMAIN sel
    <3>1. placed'[d][p] = placed[d][p]
      BY <2>6, <2>12
    <3> QED BY <2>1, <2>9, <2>10, <3>1
  <2> QED BY <2>11, <2>12
<1>3. ASSUME NEW k \in Ks
      PROVE  /\ sums'.turnover[k] \in Seq(Row)
             /\ \A i \in DOMAIN sums'.turnover[k] :
                  sums'.turnover[k][i].late <= sums'.turnover[k][i].own
  <2>1. PICK t : t = Analysis!Transition(prev, R, k)
    OBVIOUS
  <2>2. t \in Row /\ t.late <= t.own
    BY <2>1, TransitionCounts, AnalysisAssumption DEF TotalsTyped
  <2>3. PICK rows : rows = sums.turnover[k]
    OBVIOUS
  <2>4. rows \in Seq(Row) /\ \A i \in DOMAIN rows : rows[i].late <= rows[i].own
    BY <2>3 DEF TotalsTyped, OracleIsBest, Analysis!OracleIsBest
  <2>5. sums'.turnover[k] = Append(rows, t)
    BY <2>1, <2>3 DEF Analysis!Counted
  <2>6. Append(rows, t) \in Seq(Row)
    BY <2>2, <2>4
  <2>7. \A i \in DOMAIN Append(rows, t) : Append(rows, t)[i].late <= Append(rows, t)[i].own
    BY <2>2, <2>4
  <2> QED BY <2>5, <2>6, <2>7
<1>4. TotalsTyped'
  BY <1>1, <1>2, <1>3 DEF TotalsTyped
<1>5. OracleIsBest'
  BY <1>1, <1>2, <1>3, SetsOfAnalysis DEF OracleIsBest, Analysis!OracleIsBest
<1> QED BY <1>4, <1>5

LEMMA CapacityInNat ==
  ASSUME NEW R, IsFiniteSet(R), NEW d \in Divisors
  PROVE  Analysis!Capacity(R, d) \in Nat
<1>1. PICK c \in Nat : c = Cardinality(R)
  BY FS_CardinalityType
<1>2. d \in Nat \ {0}
  BY AnalysisAssumption
<1>3. PICK share : share = c \div d
  OBVIOUS
<1>4. share \in Nat
  BY <1>1, <1>2, <1>3
<1>5. Analysis!Capacity(R, d) = IF share > 1 THEN share ELSE 1
  BY <1>1, <1>3, SetsOfAnalysis DEF Analysis!Capacity
<1> QED BY <1>4, <1>5

\* The first window.
LEMMA FirstCounted ==
  ASSUME TotalsTyped, OracleIsBest, prev = {}, NEW R, IsWindow(R), R # {},
         sums' = Analysis!Counted(R), placed' = Analysis!Place(R), prev' = R
  PROVE  TotalsTyped' /\ OracleIsBest'
<1>1. placed' = placed
  BY DEF Analysis!Place
<1>2. sums'.turnover = sums.turnover
  BY DEF Analysis!Counted
<1>3. ASSUME NEW d \in Divisors PROVE sums'.capacity[d] \in Nat
  <2>1. sums'.capacity[d] = Analysis!Capacity(R, d)
    BY DEF Analysis!Counted
  <2> QED BY <2>1, CapacityInNat DEF IsWindow
<1>4. \A d \in Divisors, p \in Analysis!AllPolicies : Cardinality(placed[d][p].resident) = 0
  BY FS_EmptySet DEF TotalsTyped
<1>5. TotalsTyped'
  BY <1>1, <1>2, <1>3 DEF TotalsTyped
<1>6. OracleIsBest'
  BY <1>1, <1>2, <1>3, <1>4, SetsOfAnalysis DEF OracleIsBest, Analysis!OracleIsBest
<1> QED BY <1>5, <1>6

LEMMA YieldKeepsBest ==
  ASSUME OracleInv, Analysis!Yield
  PROVE  OracleInv'
<1>1. UNCHANGED <<dump, block>>
  BY DEF Analysis!Yield
<1>2. CASE UNCHANGED <<reader, sums, placed, prev>>
  BY <1>1, <1>2 DEF OracleInv, ReaderTypes, TotalsTyped, OracleIsBest, Analysis!OracleIsBest
<1>3. CASE ~ UNCHANGED <<reader, sums, placed, prev>>
  <2>1. PICK s : s = SubSeq(reader.pending, 1, Analysis!WindowEnd)
    OBVIOUS
  <2>2. PICK R : R = Analysis!SetOf(s)
    OBVIOUS
  <2>3. /\ Analysis!Yields /\ Analysis!Consistent(s)
        /\ reader' = [reader EXCEPT !.last = @ + 1,
                        !.pending = SubSeq(@, Analysis!WindowEnd + 1, Len(@))]
        /\ sums' = Analysis!Counted(R) /\ placed' = Analysis!Place(R) /\ prev' = R
    BY <1>3, <2>1, <2>2 DEF Analysis!Yield
  <2>4. PICK rest : rest = SubSeq(reader.pending, Analysis!WindowEnd + 1, Len(reader.pending))
    OBVIOUS
  <2>5. IsWindow(R) /\ R # {} /\ rest \in Seq(Analysis!RawRecord)
    BY <2>1, <2>2, <2>3, <2>4, WindowYielded DEF OracleInv
  <2>6. reader' = [reader EXCEPT !.last = @ + 1, !.pending = rest]
    BY <2>3, <2>4
  <2>7. ReaderTypes'
    <3>1. /\ reader \in [pos : Nat, pending : Seq(Analysis!RawRecord), last : Int, eof : BOOLEAN]
          /\ reader.pos <= Len(dump.recs) /\ dump \in Dumps /\ block \in BlockSizes
      BY DEF OracleInv, ReaderTypes
    <3>2. reader.last + 1 \in Int
      BY <3>1
    <3>3. /\ reader' \in [pos : Nat, pending : Seq(Analysis!RawRecord), last : Int, eof : BOOLEAN]
          /\ reader'.pos = reader.pos
      BY <2>5, <2>6, <3>1, <3>2
    <3> QED BY <1>1, <3>1, <3>3 DEF ReaderTypes
  <2>8. TotalsTyped' /\ OracleIsBest'
    BY <2>3, <2>5, FirstCounted, WindowPlaced DEF OracleInv
  <2> QED BY <2>7, <2>8 DEF OracleInv
<1> QED BY <1>2, <1>3

LEMMA OracleSame ==
  ASSUME OracleInv, UNCHANGED <<dump, block, reader, sums, prev, placed>>
  PROVE  OracleInv'
BY DEF OracleInv, ReaderTypes, TotalsTyped, OracleIsBest, Analysis!OracleIsBest

LEMMA OracleBegins == Init => OracleInv
<1>1. Init => Analysis!Fresh /\ dump \in Dumps /\ block \in BlockSizes
  BY DEF Init, NothingToAnalyse, Analysis!Init, Analysis!Open
<1> QED BY <1>1, FreshReader

LEMMA OracleStep == OracleInv /\ [Next]_offlineVars => OracleInv'
<1> SUFFICES ASSUME OracleInv, [Next]_offlineVars PROVE OracleInv'
  OBVIOUS
<1>1. CASE Analyse
  <2>1. CASE Analysis!Read
    <3>1. ReaderTypes' /\ UNCHANGED <<sums, prev, placed>>
      BY <2>1, ReadTypes DEF OracleInv
    <3> QED BY <3>1 DEF OracleInv, TotalsTyped, OracleIsBest, Analysis!OracleIsBest
  <2>2. CASE Analysis!Yield
    BY <2>2, YieldKeepsBest
  <2>3. CASE Analysis!Conclude
    BY <2>3, OracleSame DEF Analysis!Conclude
  <2> QED BY <1>1, <2>1, <2>2, <2>3 DEF Analyse, Analysis!Next
<1>2. CASE ~ Analyse
  <2>1. UNCHANGED readVars
    BY <1>2 DEF Next, Migrate, Study, Prepare, Simulate, offlineVars
  <2> QED BY <2>1, OracleSame DEF readVars
<1> QED BY <1>1, <1>2

(***************************************************************************)
(* Whatever the records and however they are read, no policy lands more     *)
(* accesses in fast memory than the oracle, a late hot set takes no more    *)
(* than an own one, and what is chosen fits.                                *)
(***************************************************************************)
THEOREM OracleStaysBest == Spec => []OracleIsBest
<1>1. Spec => []OracleInv
  BY OracleBegins, OracleStep, PTL DEF Spec
<1>2. OracleInv => OracleIsBest
  BY DEF OracleInv
<1> QED BY <1>1, <1>2, PTL

--------------------------------------------------------------------------------
(* revalidate_extensions.py: what it takes for a whole collection.            *)

Part(s, a, b) == {s[i] : i \in a .. b}

\* What the windows read so far, the first c records of s, must be.
WindowsRead(s, c, last) ==
  /\ c \in 0 .. Len(s) /\ last \in Int /\ last >= -1
  /\ \A i \in 1 .. c : s[i].epoch \in 0 .. last
  /\ \A e \in 0 .. last : \E i \in 1 .. c : s[i].epoch = e
  /\ \A i, j \in 1 .. c : i <= j => s[i].epoch <= s[j].epoch
  /\ \A i, j \in 1 .. c : s[i].epoch = s[j].epoch /\ s[i].page = s[j].page => i = j
  /\ \A e \in 0 .. last : Analysis!CountsAgree(Analysis!Window(Part(s, 1, c), e))
  /\ c < Len(s) => s[c + 1].epoch # last

LEMMA TypedRecords ==
  ASSUME NEW s \in Seq(Analysis!RawRecord)
  PROVE  /\ Len(s) \in Nat /\ DOMAIN s = 1 .. Len(s)
         /\ \A i \in 1 .. Len(s) : /\ s[i] \in Analysis!RawRecord /\ s[i].epoch \in Nat
                                   /\ s[i].page \in Nat /\ s[i].acc \in Nat
<1>1. Len(s) \in Nat /\ DOMAIN s = 1 .. Len(s) /\ \A i \in 1 .. Len(s) : s[i] \in Analysis!RawRecord
  OBVIOUS
<1> QED BY <1>1 DEF Analysis!RawRecord

\* The records of a window have its epoch.
LEMMA OneEpoch ==
  ASSUME NEW t \in Seq(Analysis!RawRecord), NEW e \in 1 .. Len(t),
         \A i \in 1 .. e - 1 : t[i].epoch = t[i + 1].epoch
  PROVE  \A i \in 1 .. e : t[i].epoch = t[1].epoch
<1> DEFINE Bad == {i \in 1 .. e : t[i].epoch # t[1].epoch}
<1>1. SUFFICES ASSUME Bad # {} PROVE FALSE
  OBVIOUS
<1>2. Bad \subseteq Nat /\ e \in Nat
  OBVIOUS
<1>3. PICK m \in Bad : \A x \in Bad : m <= x
  BY <1>1, <1>2, LeastOf
<1>4. m \in 1 .. e /\ m # 1 /\ t[m].epoch # t[1].epoch
  OBVIOUS
<1>5. PICK k : k = m - 1
  OBVIOUS
<1>6. k \in 1 .. e - 1 /\ k \in 1 .. e /\ k + 1 = m /\ ~ (m <= k)
  BY <1>2, <1>4, <1>5
<1>7. t[k].epoch = t[1].epoch
  BY <1>3, <1>6
<1>8. t[k].epoch = t[k + 1].epoch
  BY <1>6
<1> QED BY <1>4, <1>6, <1>7, <1>8

\* One more window.
LEMMA WindowRead ==
  ASSUME NEW s \in Seq(Analysis!RawRecord), NEW c, NEW last, WindowsRead(s, c, last),
         NEW d \in Nat, c < d, d <= Len(s),
         \A i \in c + 1 .. d : s[i].epoch = last + 1,
         \A i, j \in c + 1 .. d : s[i].page = s[j].page => i = j,
         Analysis!CountsAgree(Part(s, c + 1, d)),
         d < Len(s) => s[d + 1].epoch # last + 1
  PROVE  WindowsRead(s, d, last + 1)
<1>1. c \in Nat /\ Len(s) \in Nat /\ last \in Int /\ last >= -1
  BY DEF WindowsRead
<1>2. \A i \in 1 .. d : i \in 1 .. c \/ i \in c + 1 .. d
  BY <1>1
<1>3. \A i \in 1 .. c : s[i].epoch \in 0 .. last
  BY DEF WindowsRead
<1>4. \A i \in 1 .. d : s[i].epoch \in 0 .. last + 1
  BY <1>1, <1>2, <1>3
<1>5. \A e \in 0 .. last + 1 : \E i \in 1 .. d : s[i].epoch = e
  <2>1. ASSUME NEW e \in 0 .. last PROVE \E i \in 1 .. d : s[i].epoch = e
    <3>1. PICK i \in 1 .. c : s[i].epoch = e
      BY DEF WindowsRead
    <3> QED BY <1>1, <3>1
  <2>2. d \in 1 .. d /\ s[d].epoch = last + 1
    BY <1>1
  <2>3. \A e \in 0 .. last + 1 : e \in 0 .. last \/ e = last + 1
    BY <1>1
  <2> QED BY <2>1, <2>2, <2>3
<1>6. ASSUME NEW i \in 1 .. d, NEW j \in 1 .. d, i <= j PROVE s[i].epoch <= s[j].epoch
  <2>1. CASE j \in 1 .. c
    <3>1. i \in 1 .. c
      BY <1>1, <1>6, <2>1
    <3> QED BY <1>6, <2>1, <3>1 DEF WindowsRead
  <2>2. CASE j \in c + 1 .. d
    <3>1. s[j].epoch = last + 1 /\ s[i].epoch \in 0 .. last + 1
      BY <1>4, <2>2
    <3> QED BY <1>1, <3>1
  <2> QED BY <1>2, <2>1, <2>2
<1>7. ASSUME NEW i \in 1 .. d, NEW j \in 1 .. d, s[i].epoch = s[j].epoch, s[i].page = s[j].page
      PROVE  i = j
  <2>1. CASE i \in 1 .. c /\ j \in 1 .. c
    BY <1>7, <2>1 DEF WindowsRead
  <2>2. CASE i \in c + 1 .. d /\ j \in c + 1 .. d
    BY <1>7, <2>2
  <2>3. ~ (i \in 1 .. c /\ j \in c + 1 .. d) /\ ~ (j \in 1 .. c /\ i \in c + 1 .. d)
    BY <1>1, <1>3, <1>7
  <2> QED BY <1>2, <2>1, <2>2, <2>3
<1>8. Part(s, 1, d) = Part(s, 1, c) \cup Part(s, c + 1, d)
  <2>1. 1 .. d = (1 .. c) \cup (c + 1 .. d)
    BY <1>1
  <2> QED BY <2>1 DEF Part
<1>9. /\ \A r \in Part(s, 1, c) : r.epoch \in 0 .. last
      /\ \A r \in Part(s, c + 1, d) : r.epoch = last + 1
  BY <1>3 DEF Part
<1>10. ASSUME NEW e \in 0 .. last + 1
       PROVE  Analysis!CountsAgree(Analysis!Window(Part(s, 1, d), e))
  <2>1. CASE e = last + 1
    <3>1. Analysis!Window(Part(s, 1, d), e) = Part(s, c + 1, d)
      BY <1>1, <1>8, <1>9, <2>1 DEF Analysis!Window
    <3> QED BY <3>1
  <2>2. CASE e # last + 1
    <3>1. e \in 0 .. last
      BY <1>1, <2>2
    <3>2. Analysis!Window(Part(s, 1, d), e) = Analysis!Window(Part(s, 1, c), e)
      BY <1>8, <1>9, <2>2 DEF Analysis!Window
    <3> QED BY <3>1, <3>2 DEF WindowsRead
  <2> QED BY <2>1, <2>2
<1>11. d \in 0 .. Len(s) /\ last + 1 \in Int /\ last + 1 >= -1
  BY <1>1
<1> QED BY <1>4, <1>5, <1>6, <1>7, <1>10, <1>11 DEF WindowsRead

\* The records of a collection that is written in order.
InOrder(s) ==
  LET epochs == {s[i].epoch : i \in DOMAIN s}
  IN  /\ epochs = 0 .. Cardinality(epochs) - 1
      /\ \A i, j \in DOMAIN s : i <= j => s[i].epoch <= s[j].epoch
      /\ \A i, j \in DOMAIN s : s[i].epoch = s[j].epoch /\ s[i].page = s[j].page => i = j
      /\ \A e \in epochs : Analysis!CountsAgree(Analysis!Window(Analysis!SetOf(s), e))

LEMMA FinitelyManyEpochs ==
  ASSUME NEW s \in Seq(Analysis!RawRecord), NEW E, E = {s[i].epoch : i \in DOMAIN s}
  PROVE  IsFiniteSet(E) /\ Cardinality(E) \in Nat
<1>1. PICK f : f = [i \in 1 .. Len(s) |-> s[i].epoch]
  OBVIOUS
<1>2. DOMAIN s = 1 .. Len(s) /\ Len(s) \in Nat
  BY TypedRecords
<1>3. f \in Surjection(1 .. Len(s), E)
  BY <1>1, <1>2 DEF Surjection
<1>4. IsFiniteSet(1 .. Len(s))
  BY <1>2, FS_Interval
<1> QED BY <1>3, <1>4, FS_Surjection, FS_CardinalityType

\* In such a collection the next window is the next epoch's and passes the checks.
LEMMA NextWindowSound ==
  ASSUME NEW s \in Seq(Analysis!RawRecord), InOrder(s), NEW c, NEW last,
         WindowsRead(s, c, last), NEW d \in Nat, c < d, d <= Len(s),
         \A i \in c + 1 .. d : s[i].epoch = s[c + 1].epoch,
         d < Len(s) => s[d + 1].epoch # s[c + 1].epoch
  PROVE  /\ s[c + 1].epoch = last + 1
         /\ \A i, j \in c + 1 .. d : s[i].page = s[j].page => i = j
         /\ Analysis!CountsAgree(Part(s, c + 1, d))
<1>1. /\ c \in Nat /\ Len(s) \in Nat /\ last \in Int /\ last >= -1 /\ DOMAIN s = 1 .. Len(s)
      /\ \A i \in 1 .. Len(s) : s[i].epoch \in Nat
  BY TypedRecords DEF WindowsRead
<1>2. PICK E : E = {s[i].epoch : i \in DOMAIN s}
  OBVIOUS
<1>3. /\ E = 0 .. Cardinality(E) - 1
      /\ \A i, j \in 1 .. Len(s) : i <= j => s[i].epoch <= s[j].epoch
      /\ \A i, j \in 1 .. Len(s) : s[i].epoch = s[j].epoch /\ s[i].page = s[j].page => i = j
      /\ \A e \in E : Analysis!CountsAgree(Analysis!Window(Analysis!SetOf(s), e))
  BY <1>1, <1>2 DEF InOrder
<1>4. c + 1 \in 1 .. Len(s) /\ c < Len(s)
  BY <1>1
<1>5. PICK n \in Nat : n = s[c + 1].epoch
  BY <1>1, <1>4
<1>6. n # last
  BY <1>4, <1>5 DEF WindowsRead
<1>7. \A i \in 1 .. c : i \in 1 .. Len(s) /\ s[i].epoch \in 0 .. last
  BY <1>1, <1>4 DEF WindowsRead
<1>8. n > last
  <2>1. CASE last = -1
    BY <2>1
  <2>2. CASE last # -1
    <3>1. last \in 0 .. last
      BY <1>1, <2>2
    <3>2. PICK i \in 1 .. c : s[i].epoch = last
      BY <3>1 DEF WindowsRead
    <3>3. i \in 1 .. Len(s) /\ i <= c + 1
      BY <1>1, <1>4
    <3>4. last <= n
      BY <1>3, <1>4, <1>5, <3>2, <3>3
    <3> QED BY <1>1, <1>6, <3>4
  <2> QED BY <2>1, <2>2
<1>9. n = last + 1
  <2>1. SUFFICES ASSUME n # last + 1 PROVE FALSE
    OBVIOUS
  <2>2. last + 1 \in 0 .. n /\ last + 1 < n
    BY <1>1, <1>8, <2>1
  <2>3. n \in E
    BY <1>1, <1>2, <1>4, <1>5
  <2>4. last + 1 \in E
    <3>5. Cardinality(E) \in Nat
      BY <1>2, FinitelyManyEpochs, Zenon
    <3>1. PICK k \in Int : k = Cardinality(E) - 1
      BY <3>5
    <3>2. E = 0 .. k
      BY <1>3, <3>1
    <3>3. n \in 0 .. k
      BY <2>3, <3>2
    <3>4. last + 1 \in 0 .. k
      BY <1>1, <2>2, <3>3
    <3> QED BY <3>2, <3>4
  <2>5. PICK i \in 1 .. Len(s) : s[i].epoch = last + 1
    BY <1>1, <1>2, <2>4
  <2>6. CASE i <= c
    <3>1. i \in 1 .. c
      BY <1>1, <2>6
    <3> QED BY <1>1, <1>7, <2>5, <3>1
  <2>7. CASE ~ (i <= c)
    <3>1. c + 1 <= i
      BY <1>1, <2>7
    <3>2. n <= last + 1
      BY <1>3, <1>4, <1>5, <2>5, <3>1
    <3> QED BY <1>1, <2>2, <3>2
  <2> QED BY <2>6, <2>7
<1>10. \A i \in c + 1 .. d : i \in 1 .. Len(s) /\ s[i].epoch = n
  BY <1>1, <1>5
<1>11. \A i, j \in c + 1 .. d : s[i].page = s[j].page => i = j
  BY <1>3, <1>10
<1>12. Analysis!Window(Analysis!SetOf(s), n) = Part(s, c + 1, d)
  <2>1. ASSUME NEW i \in 1 .. Len(s), s[i].epoch = n PROVE i \in c + 1 .. d
    <3>1. ~ (i <= c)
      <4>1. i <= c => i \in 1 .. c
        BY <1>1
      <4> QED BY <1>1, <1>7, <1>9, <2>1, <4>1
    <3>2. ~ (d < i)
      <4>1. SUFFICES ASSUME d < i PROVE FALSE
        OBVIOUS
      <4>2. d < Len(s) /\ d + 1 \in 1 .. Len(s) /\ d + 1 <= i /\ c + 1 <= d + 1
        BY <1>1, <4>1
      <4>3. s[d + 1].epoch # n /\ s[d + 1].epoch \in Nat
        BY <1>1, <1>5, <4>2
      <4>4. n <= s[d + 1].epoch
        BY <1>3, <1>4, <1>5, <4>2
      <4>5. s[d + 1].epoch <= n
        BY <1>3, <2>1, <4>2
      <4> QED BY <4>3, <4>4, <4>5
    <3> QED BY <1>1, <3>1, <3>2
  <2>2. Analysis!SetOf(s) = {s[i] : i \in 1 .. Len(s)}
    BY <1>1 DEF Analysis!SetOf
  <2> QED BY <1>10, <2>1, <2>2 DEF Analysis!Window, Part
<1>13. n \in E
  BY <1>1, <1>2, <1>4, <1>5
<1> QED BY <1>3, <1>5, <1>9, <1>11, <1>12, <1>13

\* At the end of the file the windows read are all, and in order.
LEMMA AllRead ==
  ASSUME NEW s \in Seq(Analysis!RawRecord), NEW last, WindowsRead(s, Len(s), last)
  PROVE  InOrder(s) /\ Cardinality({s[i].epoch : i \in DOMAIN s}) = last + 1
<1>1. Len(s) \in Nat /\ DOMAIN s = 1 .. Len(s) /\ last \in Int /\ last >= -1
  BY TypedRecords DEF WindowsRead
<1>2. PICK E : E = {s[i].epoch : i \in DOMAIN s}
  OBVIOUS
<1>3. E = 0 .. last
  <2>1. \A e \in E : e \in 0 .. last
    BY <1>1, <1>2 DEF WindowsRead
  <2>2. ASSUME NEW e \in 0 .. last PROVE e \in E
    <3>1. PICK i \in 1 .. Len(s) : s[i].epoch = e
      BY DEF WindowsRead
    <3> QED BY <1>1, <1>2, <3>1
  <2> QED BY <2>1, <2>2
<1>4. Cardinality(E) = last + 1
  <2>1. Cardinality(0 .. last) = IF 0 > last THEN 0 ELSE last - 0 + 1
    BY <1>1, FS_Interval
  <2> QED BY <1>1, <1>3, <2>1
<1>5. E = 0 .. Cardinality(E) - 1
  <2>1. PICK k : k = Cardinality(E)
    OBVIOUS
  <2>2. k - 1 = last
    BY <1>1, <1>4, <2>1
  <2>3. E = 0 .. k - 1
    BY <1>3, <2>2
  <2> QED BY <2>1, <2>3
<1>6. Analysis!SetOf(s) = Part(s, 1, Len(s))
  BY <1>1 DEF Analysis!SetOf, Part
<1>7. /\ \A i, j \in DOMAIN s : i <= j => s[i].epoch <= s[j].epoch
      /\ \A i, j \in DOMAIN s : s[i].epoch = s[j].epoch /\ s[i].page = s[j].page => i = j
      /\ \A e \in E : Analysis!CountsAgree(Analysis!Window(Analysis!SetOf(s), e))
  BY <1>1, <1>3, <1>6 DEF WindowsRead
<1> QED BY <1>2, <1>4, <1>5, <1>7 DEF InOrder

\* Of the records how many touched n words.
Touching(R, n) == {r \in R : Cardinality(r.mask) = n}

LEMMA TouchingJoin ==
  ASSUME NEW S, NEW T, IsFiniteSet(S), IsFiniteSet(T), S \cap T = {}, NEW n
  PROVE  Cardinality(Touching(S \cup T, n)) = Cardinality(Touching(S, n)) + Cardinality(Touching(T, n))
<1>1. PICK A : A = Touching(S, n)
  OBVIOUS
<1>2. PICK B : B = Touching(T, n)
  OBVIOUS
<1>3. A \subseteq S /\ B \subseteq T /\ Touching(S \cup T, n) = A \cup B /\ A \cap B = {}
  BY <1>1, <1>2 DEF Touching
<1>4. IsFiniteSet(A) /\ IsFiniteSet(B)
  BY <1>3, FS_Subset
<1>5. Cardinality(A \cup B) = Cardinality(A) + Cardinality(B) - Cardinality(A \cap B)
  BY <1>4, FS_Union
<1>6. Cardinality(A \cap B) = 0 /\ Cardinality(A) \in Nat /\ Cardinality(B) \in Nat
  BY <1>3, <1>4, FS_EmptySet, FS_CardinalityType
<1>7. Cardinality(A \cup B) = Cardinality(A) + Cardinality(B)
  BY <1>5, <1>6
<1> QED BY <1>1, <1>2, <1>3, <1>7

LEMMA PartFinite ==
  ASSUME NEW s \in Seq(Analysis!RawRecord), NEW a \in Nat, NEW b \in Nat, a >= 1, b <= Len(s)
  PROVE  /\ IsFiniteSet(Part(s, a, b)) /\ Accessed(Part(s, a, b))
         /\ Part(s, a, b) \subseteq Analysis!RawRecord
<1>1. PICK f : f = [i \in a .. b |-> s[i]]
  OBVIOUS
<1>2. f \in Surjection(a .. b, Part(s, a, b))
  BY <1>1 DEF Surjection, Part
<1>3. IsFiniteSet(a .. b)
  BY FS_Interval
<1>4. IsFiniteSet(Part(s, a, b))
  BY <1>2, <1>3, FS_Surjection
<1>5. \A i \in a .. b : i \in 1 .. Len(s)
  BY TypedRecords
<1> QED BY <1>4, <1>5, TypedRecords DEF Accessed, Part

\* A window has as many records as places.
LEMMA PartCardinality ==
  ASSUME NEW s \in Seq(Analysis!RawRecord), NEW c \in Nat, NEW d \in Nat, c < d, d <= Len(s),
         \A i, j \in c + 1 .. d : s[i].page = s[j].page => i = j
  PROVE  Cardinality(Part(s, c + 1, d)) = d - c
<1>1. PICK f : f = [i \in c + 1 .. d |-> s[i]]
  OBVIOUS
<1>2. f \in Surjection(c + 1 .. d, Part(s, c + 1, d))
  BY <1>1 DEF Surjection, Part
<1>3. f \in Injection(c + 1 .. d, Part(s, c + 1, d))
  BY <1>1 DEF Injection, IsInjective, Part
<1>4. /\ IsFiniteSet(c + 1 .. d)
      /\ Cardinality(c + 1 .. d) = IF c + 1 > d THEN 0 ELSE d - (c + 1) + 1
  BY FS_Interval
<1>5. Cardinality(Part(s, c + 1, d)) = Cardinality(c + 1 .. d)
  BY <1>2, <1>3, <1>4, FS_Surjection
<1>6. ~ (c + 1 > d) /\ d - (c + 1) + 1 = d - c
  OBVIOUS
<1> QED BY <1>4, <1>5, <1>6

\* Merging no windows leaves a mask to each record.
LEMMA MergedOne ==
  ASSUME NEW R, R \subseteq Analysis!RawRecord,
         \A x, y \in R : x.epoch = y.epoch /\ x.page = y.page => x = y
  PROVE  Analysis!Merged(R, 1) = {<<<<r.epoch, r.page>>, r.mask>> : r \in R}
<1>1. \A r \in R : r.epoch \in Nat /\ r.epoch \div 1 = r.epoch
  BY DEF Analysis!RawRecord
<1>2. ASSUME NEW k
      PROVE  {r \in R : r.epoch \div 1 = k[1] /\ r.page = k[2]} = {r \in R : r.epoch = k[1] /\ r.page = k[2]}
  BY <1>1
<1>3. PICK K : K = {<<r.epoch, r.page>> : r \in R}
  OBVIOUS
<1>4. {<<r.epoch \div 1, r.page>> : r \in R} = K
  BY <1>1, <1>3
<1>5. Analysis!Merged(R, 1) =
        {<<k, UNION {r.mask : r \in {r \in R : r.epoch = k[1] /\ r.page = k[2]}}>> : k \in K}
  BY <1>2, <1>4 DEF Analysis!Merged
<1>6. ASSUME NEW r \in R, NEW k, k = <<r.epoch, r.page>>
      PROVE  UNION {x.mask : x \in {x \in R : x.epoch = k[1] /\ x.page = k[2]}} = r.mask
  <2>1. {x \in R : x.epoch = k[1] /\ x.page = k[2]} = {r}
    BY <1>6
  <2> QED BY <2>1
<1>7. PICK u : u = [k \in K |-> UNION {r.mask : r \in {r \in R : r.epoch = k[1] /\ r.page = k[2]}}]
  OBVIOUS
<1>8. Analysis!Merged(R, 1) = {<<k, u[k]>> : k \in K}
  BY <1>5, <1>7
<1>9. \A r \in R : <<r.epoch, r.page>> \in K /\ u[<<r.epoch, r.page>>] = r.mask
  BY <1>3, <1>6, <1>7
<1> QED BY <1>3, <1>8, <1>9

LEMMA MergedTouching ==
  ASSUME NEW R, IsFiniteSet(R), R \subseteq Analysis!RawRecord,
         \A x, y \in R : x.epoch = y.epoch /\ x.page = y.page => x = y
  PROVE  Analysis!Histogram(Analysis!Merged(R, 1)) = [n \in 0 .. Words |-> Cardinality(Touching(R, n))]
<1>1. PICK M : M = Analysis!Merged(R, 1)
  OBVIOUS
<1>2. M = {<<<<r.epoch, r.page>>, r.mask>> : r \in R}
  BY <1>1, MergedOne
<1>3. ASSUME NEW n
      PROVE  Cardinality({m \in M : Cardinality(m[2]) = n}) = Cardinality(Touching(R, n))
  <2>1. PICK A : A = Touching(R, n)
    OBVIOUS
  <2>2. PICK B : B = {m \in M : Cardinality(m[2]) = n}
    OBVIOUS
  <2>3. PICK f : f = [r \in A |-> <<<<r.epoch, r.page>>, r.mask>>]
    OBVIOUS
  <2>4. A \subseteq R /\ IsFiniteSet(A)
    BY <2>1, FS_Subset DEF Touching
  <2>5. \A r \in A : f[r] \in B
    BY <1>2, <2>1, <2>2, <2>3 DEF Touching
  <2>6. ASSUME NEW b \in B PROVE \E r \in A : f[r] = b
    <3>1. PICK r \in R : b = <<<<r.epoch, r.page>>, r.mask>>
      BY <1>2, <2>2
    <3>2. Cardinality(r.mask) = n
      BY <2>2, <3>1
    <3> QED BY <2>1, <2>3, <3>1, <3>2 DEF Touching
  <2>7. f \in Surjection(A, B)
    BY <2>3, <2>5, <2>6 DEF Surjection
  <2>8. f \in Injection(A, B)
    BY <2>3, <2>4, <2>5 DEF Injection, IsInjective
  <2> QED BY <2>1, <2>2, <2>4, <2>7, <2>8, FS_Surjection
<1>4. Analysis!Histogram(M) = [n \in 0 .. Words |-> Cardinality({m \in M : Cardinality(m[2]) = n})]
  BY SetsOfAnalysis DEF Analysis!Histogram
<1> QED BY <1>1, <1>3, <1>4

\* What is not yielded yet is what was read of s after its first c records.
PendingAre(s, c) ==
  /\ c \in Nat /\ c <= reader.pos /\ Len(reader.pending) = reader.pos - c
  /\ \A i \in 1 .. reader.pos - c : reader.pending[i] = s[c + i]
  /\ reader.eof => reader.pos = Len(s) /\ ~ dump.cut

\* The totals are those of the first c records.
TotalsOf(s, c) ==
  /\ sums.observed = c /\ sums.events = Analysis!Accesses(Part(s, 1, c))
  /\ sums.count = reader.last + 1
  /\ sums.histogram = [n \in 0 .. Words |-> Cardinality(Touching(Part(s, 1, c), n))]

Streaming(s, c) == PendingAre(s, c) /\ WindowsRead(s, c, reader.last) /\ TotalsOf(s, c)

WholeInv ==
  /\ ReaderTypes /\ ValidatedIsWhole
  /\ verdict = "none" => /\ dump.summary.complete /\ ~ dump.summary.capped
                         /\ \E c : Streaming(dump.recs, c)

LEMMA MinIs ==
  ASSUME NEW b, b \subseteq Nat, b # {}
  PROVE  Analysis!Min(b) \in b /\ \A x \in b : Analysis!Min(b) <= x
<1>1. \E x \in b : \A y \in b : x <= y
  BY LeastOf
<1> QED BY <1>1 DEF Analysis!Min

\* Where the window ends that is yielded next.
LEMMA NextWindowEnds ==
  ASSUME ReaderTypes, Analysis!Yields, NEW s, s = dump.recs, NEW c, PendingAre(s, c),
         NEW e, e = Analysis!WindowEnd
  PROVE  /\ e \in 1 .. Len(reader.pending) /\ c + e <= Len(s)
         /\ \A i \in c + 1 .. c + e : s[i].epoch = s[c + 1].epoch
         /\ c + e < Len(s) => s[(c + e) + 1].epoch # s[c + 1].epoch
<1>1. PICK t : t = reader.pending
  OBVIOUS
<1>2. t \in Seq(Analysis!RawRecord) /\ Len(t) \in Nat \ {0}
  <2>1. t # <<>> /\ t \in Seq(Analysis!RawRecord)
    BY <1>1 DEF Analysis!Yields, ReaderTypes
  <2> QED BY <2>1
<1>3. PICK b : b = Analysis!Boundaries(t)
  OBVIOUS
<1>4. b = {i \in 1 .. Len(t) - 1 : t[i].epoch # t[i + 1].epoch} /\ b \subseteq Nat
  BY <1>3 DEF Analysis!Boundaries
<1>5. /\ c \in Nat /\ reader.pos \in Nat /\ c <= reader.pos /\ Len(t) = reader.pos - c
      /\ \A i \in 1 .. Len(t) : t[i] = s[c + i]
      /\ reader.pos <= Len(s) /\ Len(s) \in Nat
      /\ reader.eof => reader.pos = Len(s)
  <2>1. s \in Seq(Analysis!RawRecord)
    BY AnalysisAssumption DEF ReaderTypes
  <2> QED BY <1>1, <2>1 DEF PendingAre, ReaderTypes
<1>6. e \in 1 .. Len(t) /\ \A i \in 1 .. e - 1 : t[i].epoch = t[i + 1].epoch
  <2>1. CASE b # {}
    <3>1. e = Analysis!Min(b)
      BY <1>1, <1>3, <2>1 DEF Analysis!WindowEnd
    <3>2. e \in b /\ \A x \in b : e <= x
      BY <1>4, <2>1, <3>1, MinIs
    <3>3. e \in 1 .. Len(t)
      BY <1>2, <1>4, <3>2
    <3>4. ASSUME NEW i \in 1 .. e - 1 PROVE t[i].epoch = t[i + 1].epoch
      <4>1. i \in 1 .. Len(t) - 1 /\ ~ (e <= i)
        BY <1>2, <1>4, <3>2
      <4> QED BY <1>4, <3>2, <4>1
    <3> QED BY <3>3, <3>4
  <2>2. CASE b = {}
    <3>1. e = Len(t)
      BY <1>1, <1>3, <2>2 DEF Analysis!WindowEnd
    <3> QED BY <1>2, <1>4, <2>2, <3>1
  <2> QED BY <2>1, <2>2
<1>7. \A i \in 1 .. e : t[i].epoch = t[1].epoch
  BY <1>2, <1>6, OneEpoch
<1>8. e \in Nat /\ 1 \in 1 .. e /\ 1 \in 1 .. Len(t) /\ e <= Len(t) /\ t[1] = s[c + 1]
  BY <1>2, <1>5, <1>6
<1>9. ASSUME NEW i \in c + 1 .. c + e PROVE s[i].epoch = s[c + 1].epoch
  <2>1. PICK k : k = i - c
    OBVIOUS
  <2>2. k \in 1 .. e /\ k \in 1 .. Len(t) /\ c + k = i
    BY <1>5, <1>8, <2>1
  <2>3. t[k] = s[i]
    BY <1>5, <2>2
  <2> QED BY <1>7, <1>8, <2>2, <2>3
<1>10. ASSUME c + e < Len(s) PROVE s[(c + e) + 1].epoch # s[c + 1].epoch
  <2>1. CASE b # {}
    <3>1. e = Analysis!Min(b)
      BY <1>1, <1>3, <2>1 DEF Analysis!WindowEnd
    <3>2. e \in b
      BY <1>4, <2>1, <3>1, MinIs
    <3>3. e + 1 \in 1 .. Len(t) /\ e \in 1 .. Len(t) /\ t[e].epoch # t[e + 1].epoch
      BY <1>2, <1>4, <3>2
    <3>4. t[e + 1] = s[c + (e + 1)] /\ c + (e + 1) = (c + e) + 1
      BY <1>5, <1>8, <3>3
    <3>5. t[e].epoch = t[1].epoch
      BY <1>7, <1>8
    <3> QED BY <1>8, <3>3, <3>4, <3>5
  <2>2. CASE b = {}
    <3>1. e = Len(t) /\ reader.eof
      BY <1>1, <1>3, <2>2 DEF Analysis!WindowEnd, Analysis!Yields
    <3> QED BY <1>5, <1>10, <3>1
  <2> QED BY <2>1, <2>2
<1>11. c + e <= Len(s)
  BY <1>5, <1>8
<1> QED BY <1>1, <1>6, <1>9, <1>10, <1>11

\* The records from place a to place b pass the checks on a window.
Passes(s, a, b) ==
  /\ \A i, j \in a .. b : s[i].page = s[j].page => i = j
  /\ Analysis!CountsAgree(Part(s, a, b))

\* The window that is taken out.
LEMMA NextWindowIs ==
  ASSUME ReaderTypes, Analysis!Yields, NEW s, s = dump.recs, NEW c, PendingAre(s, c),
         NEW e, e = Analysis!WindowEnd, NEW t, t = SubSeq(reader.pending, 1, e)
  PROVE  /\ Analysis!SetOf(t) = Part(s, c + 1, c + e) /\ t[1] = s[c + 1]
         /\ Analysis!Consistent(t) <=> Passes(s, c + 1, c + e)
<1>1. PICK p : p = reader.pending
  OBVIOUS
<1>2. /\ p \in Seq(Analysis!RawRecord) /\ Len(p) \in Nat /\ e \in 1 .. Len(p) /\ c \in Nat
      /\ \A i \in 1 .. Len(p) : p[i] = s[c + i]
  <2>1. e \in 1 .. Len(p)
    BY <1>1, NextWindowEnds
  <2>2. p \in Seq(Analysis!RawRecord) /\ Len(p) \in Nat
    BY <1>1 DEF ReaderTypes
  <2>3. Len(p) = reader.pos - c /\ c \in Nat
    BY <1>1 DEF PendingAre
  <2>4. \A i \in 1 .. Len(p) : p[i] = s[c + i]
    BY <1>1, <2>3 DEF PendingAre
  <2> QED BY <2>1, <2>2, <2>3, <2>4
<1>3. t = [i \in 1 .. e |-> p[i]] /\ DOMAIN t = 1 .. e /\ e \in Nat
  BY <1>1, <1>2
<1>4. \A i \in 1 .. e : t[i] = s[c + i]
  BY <1>2, <1>3
<1>5. \A i \in 1 .. e : c + i \in c + 1 .. c + e
  BY <1>2, <1>3
<1>6. ASSUME NEW k \in c + 1 .. c + e
      PROVE  k - c \in 1 .. e /\ t[k - c] = s[k]
  <2>1. k - c \in 1 .. e /\ c + (k - c) = k
    BY <1>2, <1>3
  <2> QED BY <1>4, <2>1
<1>7. Analysis!SetOf(t) = {t[i] : i \in 1 .. e}
  BY <1>3 DEF Analysis!SetOf
<1>8. Analysis!SetOf(t) = Part(s, c + 1, c + e)
  <2>1. \A i \in 1 .. e : t[i] \in Part(s, c + 1, c + e)
    BY <1>4, <1>5 DEF Part
  <2>2. \A k \in c + 1 .. c + e : s[k] \in {t[i] : i \in 1 .. e}
    BY <1>6
  <2>3. Part(s, c + 1, c + e) = {s[k] : k \in c + 1 .. c + e}
    BY DEF Part
  <2>4. Part(s, c + 1, c + e) \subseteq {t[i] : i \in 1 .. e}
    BY <2>2, <2>3, ZenonT(40)
  <2>5. {t[i] : i \in 1 .. e} \subseteq Part(s, c + 1, c + e)
    BY <2>1
  <2> QED BY <1>7, <2>4, <2>5
<1>9. 1 \in 1 .. e
  BY <1>2
<1>10. (\A i, j \in DOMAIN t : t[i].page = t[j].page => i = j)
         <=> \A i, j \in c + 1 .. c + e : s[i].page = s[j].page => i = j
  <2>1. ASSUME \A i, j \in DOMAIN t : t[i].page = t[j].page => i = j,
               NEW i \in c + 1 .. c + e, NEW j \in c + 1 .. c + e, s[i].page = s[j].page
        PROVE  i = j
    <3>1. i - c = j - c
      BY <1>3, <1>6, <2>1
    <3> QED BY <1>2, <3>1
  <2>2. ASSUME \A i, j \in c + 1 .. c + e : s[i].page = s[j].page => i = j,
               NEW i \in DOMAIN t, NEW j \in DOMAIN t, t[i].page = t[j].page
        PROVE  i = j
    <3>3. i \in 1 .. e /\ j \in 1 .. e
      BY <1>3
    <3>4. PICK k, m : k = c + i /\ m = c + j
      OBVIOUS
    <3>5. /\ k \in c + 1 .. c + e /\ t[i] = s[k]
          /\ m \in c + 1 .. c + e /\ t[j] = s[m]
      BY <1>4, <1>5, <3>3, <3>4
    <3>6. k = m
      BY <2>2, <3>5
    <3>1. c + i = c + j
      BY <3>4, <3>6
    <3>2. i \in Nat /\ j \in Nat
      BY <1>3
    <3> QED BY <1>2, <3>1, <3>2
  <2> QED BY <2>1, <2>2
<1> QED BY <1>4, <1>8, <1>9, <1>10 DEF Analysis!Consistent, Passes

LEMMA WellFormedIs ==
  ASSUME NEW s, s = dump.recs
  PROVE  Analysis!WellFormed(dump) <=>
           /\ ~ dump.cut /\ dump.summary.complete /\ ~ dump.summary.capped /\ dump.ratios
           /\ InOrder(s)
           /\ Len(s) = dump.summary.observations
           /\ Analysis!Accesses(Analysis!SetOf(s)) = dump.summary.accesses
           /\ Cardinality({s[i].epoch : i \in DOMAIN s}) = dump.summary.epochs
           /\ Analysis!Histogram(Analysis!Merged(Analysis!SetOf(s), 1)) = dump.summary.histogram
<1>1. PICK E : E = {s[i].epoch : i \in DOMAIN s}
  OBVIOUS
<1>2. Analysis!Cardinality(E) = Cardinality(E)
  BY SetsOfAnalysis
<1>3. InOrder(s) <=>
        /\ E = 0 .. Cardinality(E) - 1
        /\ \A i, j \in DOMAIN s : i <= j => s[i].epoch <= s[j].epoch
        /\ \A i, j \in DOMAIN s : s[i].epoch = s[j].epoch /\ s[i].page = s[j].page => i = j
        /\ \A e \in E : Analysis!CountsAgree(Analysis!Window(Analysis!SetOf(s), e))
  BY <1>1 DEF InOrder
<1>4. Analysis!WellFormed(dump) <=>
        /\ ~ dump.cut /\ dump.summary.complete /\ ~ dump.summary.capped /\ dump.ratios
        /\ E = 0 .. Analysis!Cardinality(E) - 1
        /\ \A i, j \in DOMAIN s : i <= j => s[i].epoch <= s[j].epoch
        /\ \A i, j \in DOMAIN s : s[i].epoch = s[j].epoch /\ s[i].page = s[j].page => i = j
        /\ \A e \in E : Analysis!CountsAgree(Analysis!Window(Analysis!SetOf(s), e))
        /\ Len(s) = dump.summary.observations
        /\ Analysis!Accesses(Analysis!SetOf(s)) = dump.summary.accesses
        /\ Analysis!Cardinality(E) = dump.summary.epochs
        /\ Analysis!Histogram(Analysis!Merged(Analysis!SetOf(s), 1)) = dump.summary.histogram
  BY <1>1 DEF Analysis!WellFormed
<1> QED BY <1>1, <1>2, <1>3, <1>4

LEMMA StreamBegins ==
  ASSUME Analysis!Fresh, dump \in Dumps, NEW s, s = dump.recs
  PROVE  Streaming(s, 0)
<1>1. s \in Seq(Analysis!RawRecord) /\ Len(s) \in Nat /\ \A i \in 1 .. Len(s) : s[i].epoch \in Nat
  <2>1. s \in Seq(Analysis!RawRecord)
    BY AnalysisAssumption
  <2> QED BY <2>1, TypedRecords
<1>2. reader = [pos |-> 0, pending |-> <<>>, last |-> -1, eof |-> FALSE]
  BY DEF Analysis!Fresh
<1>3. PendingAre(s, 0)
  BY <1>1, <1>2 DEF PendingAre
<1>4. Part(s, 1, 0) = {}
  BY DEF Part
<1>5. WindowsRead(s, 0, -1)
  <2>1. \A i \in 1 .. 0 : FALSE
    OBVIOUS
  <2>2. \A e \in 0 .. -1 : FALSE
    OBVIOUS
  <2>3. 0 < Len(s) => s[0 + 1].epoch # -1
    BY <1>1
  <2>4. 0 \in 0 .. Len(s) /\ -1 \in Int /\ -1 >= -1
    BY <1>1
  <2> QED BY <2>1, <2>2, <2>3, <2>4 DEF WindowsRead
<1>6. sums.observed = 0 /\ sums.events = 0 /\ sums.count = 0 /\ sums.histogram = [n \in 0 .. Words |-> 0]
  BY DEF Analysis!Fresh, Analysis!NoSums
<1>7. TotalsOf(s, 0)
  <2>1. \A n : Touching(Part(s, 1, 0), n) = {}
    BY <1>4 DEF Touching
  <2>2. [n \in 0 .. Words |-> Cardinality(Touching(Part(s, 1, 0), n))] = [n \in 0 .. Words |-> 0]
    BY <2>1, FS_EmptySet
  <2>3. Analysis!Accesses(Part(s, 1, 0)) = 0
    BY <1>4, NoAccesses
  <2>4. reader.last + 1 = 0
    BY <1>2
  <2> QED BY <1>6, <2>2, <2>3, <2>4 DEF TotalsOf
<1> QED BY <1>2, <1>3, <1>5, <1>7 DEF Streaming

LEMMA OpenIsWhole == \A d \in Dumps : Analysis!Open(d) => WholeInv
<1> SUFFICES ASSUME NEW d \in Dumps, Analysis!Open(d) PROVE WholeInv
  OBVIOUS
<1>1. /\ Analysis!Fresh /\ dump \in Dumps /\ block \in BlockSizes
      /\ verdict = IF dump.summary.complete /\ ~ dump.summary.capped THEN "none" ELSE "error"
  BY DEF Analysis!Open
<1>2. ReaderTypes
  BY <1>1, FreshReader DEF OracleInv
<1>3. PICK s : s = dump.recs
  OBVIOUS
<1>4. Streaming(dump.recs, 0)
  BY <1>1, <1>3, StreamBegins
<1>5. ValidatedIsWhole
  BY <1>1, <1>3, WellFormedIs DEF ValidatedIsWhole, Analysis!ValidatedIsWhole
<1> QED BY <1>1, <1>2, <1>4, <1>5 DEF WholeInv

\* Reading on.
LEMMA ReadIsWhole ==
  ASSUME WholeInv, Analysis!Read
  PROVE  WholeInv'
<1>1. UNCHANGED <<dump, block, sums>> /\ verdict = "none"
  BY DEF Analysis!Read
<1>2. ReaderTypes'
  BY ReadTypes DEF WholeInv
<1>3. PICK s : s = dump.recs
  OBVIOUS
<1>4. dump.summary.complete /\ ~ dump.summary.capped
  BY <1>1 DEF WholeInv
<1>5. PICK c : Streaming(s, c)
  BY <1>1, <1>3 DEF WholeInv
<1>6. PICK left : left = Len(s) - reader.pos
  OBVIOUS
<1>7. PICK n : n = IF left < block THEN left ELSE block
  OBVIOUS
<1>8. PICK more : more = SubSeq(s, reader.pos + 1, reader.pos + n)
  OBVIOUS
<1>9. CASE dump.cut /\ left < block
  <2>1. verdict' = "error" /\ UNCHANGED reader
    BY <1>3, <1>6, <1>9 DEF Analysis!Read
  <2>2. ~ Analysis!WellFormed(dump)
    BY <1>3, <1>9, WellFormedIs
  <2>3. ~ Analysis!WellFormed(dump')
    BY <1>1, <2>2
  <2>4. ValidatedIsWhole'
    BY <2>1, <2>3 DEF ValidatedIsWhole, Analysis!ValidatedIsWhole
  <2> QED BY <1>2, <2>1, <2>4 DEF WholeInv
<1>10. CASE ~ (dump.cut /\ left < block)
  <2>1. /\ reader' = [reader EXCEPT !.pos = @ + n, !.eof = n = 0, !.pending = @ \o more]
        /\ verdict' = "none"
    BY <1>1, <1>3, <1>6, <1>7, <1>8, <1>10 DEF Analysis!Read
  <2>2. PICK p : p = reader.pending
    OBVIOUS
  <2>3. /\ reader \in [pos : Nat, pending : Seq(Analysis!RawRecord), last : Int, eof : BOOLEAN]
        /\ reader.pos <= Len(s) /\ dump \in Dumps /\ block \in BlockSizes
    BY <1>3 DEF WholeInv, ReaderTypes
  <2>4. s \in Seq(Analysis!RawRecord) /\ Len(s) \in Nat /\ block \in Nat \ {0}
    BY <1>3, <2>3, AnalysisAssumption
  <2>5. PICK q \in Nat : q = reader.pos
    BY <2>3
  <2>6. n \in Nat /\ q + n <= Len(s) /\ (n = 0 => q = Len(s) /\ left < block)
    BY <1>6, <1>7, <2>3, <2>4, <2>5
  <2>7. /\ c \in Nat /\ c <= q /\ Len(p) = q - c /\ p \in Seq(Analysis!RawRecord)
        /\ \A i \in 1 .. q - c : p[i] = s[c + i]
    <3>1. PendingAre(s, c)
      BY <1>5 DEF Streaming
    <3> QED BY <2>2, <2>3, <2>5, <3>1 DEF PendingAre
  <2>8. /\ more \in Seq(Analysis!RawRecord) /\ Len(more) = n
        /\ \A i \in 1 .. n : more[i] = s[q + i]
    <3>1. more = SubSeq(s, q + 1, q + n)
      BY <1>8, <2>5
    <3>2. \A i \in q + 1 .. q + n : s[i] \in Analysis!RawRecord
      BY <2>4, <2>5, <2>6
    <3>3. q + 1 \in Int /\ q + n \in Int
      BY <2>5, <2>6
    <3>4. /\ SubSeq(s, q + 1, q + n) \in Seq(Analysis!RawRecord)
          /\ Len(SubSeq(s, q + 1, q + n)) = IF q + 1 <= q + n THEN (q + n) - (q + 1) + 1 ELSE 0
          /\ \A i \in 1 .. (q + n) - (q + 1) + 1 : SubSeq(s, q + 1, q + n)[i] = s[(q + 1) + i - 1]
      BY <3>2, <3>3, SubSeqProperties
    <3>5. (q + n) - (q + 1) + 1 = n /\ (~ (q + 1 <= q + n) => n = 0)
      BY <2>5, <2>6
    <3>6. \A i \in 1 .. n : (q + 1) + i - 1 = q + i
      BY <2>5, <2>6
    <3> QED BY <3>1, <3>4, <3>5, <3>6
  <2>9. PICK r : r = p \o more
    OBVIOUS
  <2>10. /\ Len(r) = (q + n) - c
         /\ \A i \in 1 .. (q + n) - c : r[i] = s[c + i]
    <3>1. /\ Len(r) = Len(p) + Len(more)
          /\ \A i \in 1 .. Len(p) + Len(more) : r[i] = IF i <= Len(p) THEN p[i] ELSE more[i - Len(p)]
      BY <2>7, <2>8, <2>9, ConcatProperties
    <3>2. Len(p) + Len(more) = (q + n) - c
      BY <2>5, <2>6, <2>7, <2>8
    <3>3. ASSUME NEW i \in 1 .. (q + n) - c PROVE r[i] = s[c + i]
      <4>1. CASE i <= q - c
        <5>1. i \in 1 .. q - c
          BY <2>5, <2>7, <4>1
        <5> QED BY <2>7, <3>1, <3>2, <4>1, <5>1
      <4>2. CASE ~ (i <= q - c)
        <5>1. PICK k : k = i - (q - c)
          OBVIOUS
        <5>4. c \in Nat /\ n \in Nat /\ i \in Int /\ 1 <= i /\ i <= (q + n) - c /\ i > q - c
          BY <2>5, <2>6, <2>7, <4>2
        <5>2. k \in 1 .. n /\ q + k = c + i
          BY <2>5, <5>1, <5>4
        <5>3. r[i] = more[k]
          BY <2>7, <3>1, <3>2, <4>2, <5>1
        <5> QED BY <2>8, <5>2, <5>3
      <4> QED BY <4>1, <4>2
    <3> QED BY <3>1, <3>2, <3>3
  <2>11. reader' = [reader EXCEPT !.pos = q + n, !.eof = (n = 0), !.pending = r]
    BY <2>1, <2>2, <2>3, <2>5, <2>9
  <2>12. /\ reader'.pos = q + n /\ reader'.eof = (n = 0) /\ reader'.pending = r
         /\ reader'.last = reader.last
    BY <2>3, <2>11
  <2>13. PendingAre(s, c)'
    <3>1. c <= q + n
      BY <2>5, <2>6, <2>7
    <3>2. n = 0 => q + n = Len(s) /\ ~ dump'.cut
      BY <1>1, <1>10, <2>5, <2>6
    <3> QED BY <2>7, <2>10, <2>12, <3>1, <3>2 DEF PendingAre
  <2>14. WindowsRead(s, c, reader'.last)
    BY <1>5, <2>12 DEF Streaming
  <2>15. TotalsOf(s, c)'
    BY <1>1, <1>5, <2>12 DEF Streaming, TotalsOf
  <2>16. Streaming(s, c)'
    BY <2>13, <2>14, <2>15 DEF Streaming
  <2>17. Streaming(dump.recs, c)'
    BY <1>1, <1>3, <2>16
  <2>18. ValidatedIsWhole'
    BY <2>1 DEF ValidatedIsWhole, Analysis!ValidatedIsWhole
  <2> QED BY <1>1, <1>2, <1>4, <2>17, <2>18 DEF WholeInv
<1> QED BY <1>9, <1>10

LEMMA TotalsYielded ==
  ASSUME ReaderTypes, NEW s \in Seq(Analysis!RawRecord), NEW c, TotalsOf(s, c),
         WindowsRead(s, c, reader.last), NEW d \in Nat, c < d, d <= Len(s),
         \A i \in c + 1 .. d : s[i].epoch = reader.last + 1,
         \A i, j \in c + 1 .. d : s[i].page = s[j].page => i = j,
         NEW R, R = Part(s, c + 1, d), sums' = Analysis!Counted(R), reader'.last = reader.last + 1
  PROVE  TotalsOf(s, d)'
<1>1. c \in Nat /\ Len(s) \in Nat /\ reader.last \in Int
  BY TypedRecords DEF WindowsRead
<1>2. PICK Q : Q = Part(s, 1, c)
  OBVIOUS
<1>3. Part(s, 1, d) = Q \cup R
  <2>1. 1 .. d = (1 .. c) \cup (c + 1 .. d)
    BY <1>1
  <2> QED BY <1>2, <2>1 DEF Part
<1>4. Q \cap R = {}
  <2>1. \A r \in Q : r.epoch \in 0 .. reader.last
    BY <1>2 DEF WindowsRead, Part
  <2>2. \A r \in R : r.epoch = reader.last + 1
    BY DEF Part
  <2>3. reader.last + 1 \notin 0 .. reader.last
    BY <1>1
  <2> QED BY <2>1, <2>2, <2>3
<1>5. IsFiniteSet(Q) /\ Accessed(Q) /\ IsFiniteSet(R) /\ Accessed(R)
  <2>1. c <= Len(s) /\ c + 1 \in Nat /\ c + 1 >= 1 /\ 1 \in Nat /\ 1 >= 1
    BY <1>1
  <2>2. IsFiniteSet(Q) /\ Accessed(Q)
    BY <1>1, <1>2, <2>1, PartFinite
  <2>3. IsFiniteSet(R) /\ Accessed(R)
    BY <2>1, PartFinite
  <2> QED BY <2>2, <2>3
<1>6. Cardinality(R) = d - c
  BY <1>1, PartCardinality
<1>7. sums'.observed = d
  <2>1. sums'.observed = sums.observed + Analysis!Cardinality(R)
    BY DEF Analysis!Counted
  <2>2. sums'.observed = c + (d - c)
    BY <1>6, <2>1, SetsOfAnalysis DEF TotalsOf
  <2> QED BY <1>1, <2>2
<1>8. sums'.events = Analysis!Accesses(Part(s, 1, d))
  <2>1. sums'.events = sums.events + Analysis!Accesses(R)
    BY DEF Analysis!Counted
  <2>2. Analysis!Accesses(Q \cup R) = Analysis!Accesses(Q) + Analysis!Accesses(R)
    BY <1>4, <1>5, AccessesJoin
  <2>3. sums.events = Analysis!Accesses(Q)
    BY <1>2 DEF TotalsOf
  <2> QED BY <1>3, <2>1, <2>2, <2>3
<1>9. sums'.count = reader'.last + 1
  BY DEF Analysis!Counted, TotalsOf
<1>10. sums'.histogram = [n \in 0 .. Words |-> Cardinality(Touching(Part(s, 1, d), n))]
  <2>1. sums'.histogram =
          [n \in 0 .. Words |->
             sums.histogram[n] + Analysis!Cardinality({r \in R : Analysis!Touched(r) = n})]
    BY DEF Analysis!Counted
  <2>2. ASSUME NEW n
        PROVE  Analysis!Cardinality({r \in R : Analysis!Touched(r) = n}) = Cardinality(Touching(R, n))
    <3>1. {r \in R : Analysis!Touched(r) = n} = Touching(R, n)
      BY SetsOfAnalysis DEF Analysis!Touched, Touching
    <3> QED BY <3>1, SetsOfAnalysis
  <2>3. ASSUME NEW n \in 0 .. Words
        PROVE  sums.histogram[n] + Analysis!Cardinality({r \in R : Analysis!Touched(r) = n})
                 = Cardinality(Touching(Part(s, 1, d), n))
    <3>1. sums.histogram[n] = Cardinality(Touching(Q, n))
      BY <1>2 DEF TotalsOf
    <3>2. Cardinality(Touching(Q \cup R, n)) = Cardinality(Touching(Q, n)) + Cardinality(Touching(R, n))
      BY <1>4, <1>5, TouchingJoin
    <3> QED BY <1>3, <2>2, <3>1, <3>2
  <2> QED BY <2>1, <2>3
<1> QED BY <1>7, <1>8, <1>9, <1>10 DEF TotalsOf

\* One more window, or its refusal.
LEMMA YieldIsWhole ==
  ASSUME WholeInv, OracleInv, OracleInv', Analysis!Yield
  PROVE  WholeInv'
<1>1. UNCHANGED <<dump, block>> /\ verdict = "none" /\ Analysis!Yields
  BY DEF Analysis!Yield
<1>2. ReaderTypes /\ ReaderTypes'
  BY DEF OracleInv
<1>3. PICK s : s = dump.recs
  OBVIOUS
<1>4. dump.summary.complete /\ ~ dump.summary.capped
  BY <1>1 DEF WholeInv
<1>5. PICK c : Streaming(s, c)
  BY <1>1, <1>3 DEF WholeInv
<1>6. PICK e : e = Analysis!WindowEnd
  OBVIOUS
<1>7. PICK t : t = SubSeq(reader.pending, 1, e)
  OBVIOUS
<1>8. PICK p : p = reader.pending
  OBVIOUS
<1>9. PICK q : q = reader.pos
  OBVIOUS
<1>10. /\ c \in Nat /\ q \in Nat /\ c <= q /\ Len(p) = q - c /\ p \in Seq(Analysis!RawRecord)
       /\ \A i \in 1 .. q - c : p[i] = s[c + i]
       /\ s \in Seq(Analysis!RawRecord)
       /\ reader.last \in Int
       /\ reader \in [pos : Nat, pending : Seq(Analysis!RawRecord), last : Int, eof : BOOLEAN]
  <2>1. s \in Seq(Analysis!RawRecord)
    BY <1>2, <1>3, AnalysisAssumption DEF ReaderTypes
  <2> QED BY <1>2, <1>5, <1>8, <1>9, <2>1 DEF Streaming, PendingAre, ReaderTypes
<1>11. PICK d : d = c + e
  OBVIOUS
<1>12. /\ e \in 1 .. Len(p) /\ d <= Len(s)
       /\ \A i \in c + 1 .. d : s[i].epoch = s[c + 1].epoch
       /\ d < Len(s) => s[d + 1].epoch # s[c + 1].epoch
  <2>1. PendingAre(s, c)
    BY <1>5 DEF Streaming
  <2>2. /\ e \in 1 .. Len(reader.pending) /\ c + e <= Len(s)
        /\ \A i \in c + 1 .. c + e : s[i].epoch = s[c + 1].epoch
        /\ c + e < Len(s) => s[(c + e) + 1].epoch # s[c + 1].epoch
    BY <1>1, <1>2, <1>3, <1>6, <2>1, NextWindowEnds
  <2> QED BY <1>8, <1>11, <2>2
<1>13. d \in Nat /\ c < d /\ e \in Nat /\ e >= 1 /\ e <= q - c
  BY <1>10, <1>11, <1>12
<1>14. PICK R : R = Part(s, c + 1, d)
  OBVIOUS
<1>15. /\ Analysis!SetOf(t) = R /\ t[1] = s[c + 1]
       /\ Analysis!Consistent(t) <=>
            /\ \A i, j \in c + 1 .. d : s[i].page = s[j].page => i = j
            /\ Analysis!CountsAgree(R)
  <2>1. PendingAre(s, c)
    BY <1>5 DEF Streaming
  <2>2. /\ Analysis!SetOf(t) = Part(s, c + 1, c + e) /\ t[1] = s[c + 1]
        /\ Analysis!Consistent(t) <=> Passes(s, c + 1, c + e)
    BY <1>1, <1>2, <1>3, <1>6, <1>7, <2>1, NextWindowIs, ZenonT(40)
  <2> QED BY <1>11, <1>14, <2>2 DEF Passes
<1>16. WindowsRead(s, c, reader.last)
  BY <1>5 DEF Streaming
<1>17. CASE t[1].epoch = reader.last + 1 /\ Analysis!Consistent(t)
  <2>1. PICK rest : rest = SubSeq(p, e + 1, Len(p))
    OBVIOUS
  <2>2. /\ reader' = [reader EXCEPT !.last = @ + 1, !.pending = rest]
        /\ sums' = Analysis!Counted(R) /\ verdict' = "none"
    BY <1>1, <1>6, <1>7, <1>8, <1>15, <1>17, <2>1 DEF Analysis!Yield
  <2>3. /\ reader'.last = reader.last + 1 /\ reader'.pending = rest /\ reader'.pos = q
        /\ reader'.eof = reader.eof
    BY <1>9, <1>10, <2>2
  <2>4. /\ \A i \in c + 1 .. d : s[i].epoch = reader.last + 1
        /\ \A i, j \in c + 1 .. d : s[i].page = s[j].page => i = j
        /\ Analysis!CountsAgree(Part(s, c + 1, d))
        /\ d < Len(s) => s[d + 1].epoch # reader.last + 1
    BY <1>12, <1>14, <1>15, <1>17
  <2>5. WindowsRead(s, d, reader'.last)
    <3>1. WindowsRead(s, d, reader.last + 1)
      BY <1>10, <1>12, <1>13, <1>16, <2>4, WindowRead
    <3> QED BY <2>3, <3>1
  <2>6. TotalsOf(s, d)'
    <3>1. TotalsOf(s, c)
      BY <1>5 DEF Streaming
    <3> QED BY <1>2, <1>10, <1>12, <1>13, <1>14, <1>16, <2>2, <2>3, <2>4, <3>1, TotalsYielded
  <2>7. Len(rest) = q - d /\ \A i \in 1 .. q - d : rest[i] = s[d + i]
    <3>1. e + 1 \in Int /\ q - c \in Int /\ \A i \in e + 1 .. q - c : p[i] \in Analysis!RawRecord
      BY <1>10, <1>13
    <3>2. /\ Len(SubSeq(p, e + 1, q - c)) = IF e + 1 <= q - c THEN (q - c) - (e + 1) + 1 ELSE 0
          /\ \A i \in 1 .. (q - c) - (e + 1) + 1 : SubSeq(p, e + 1, q - c)[i] = p[(e + 1) + i - 1]
      BY <3>1, SubSeqProperties
    <3>3. /\ (q - c) - (e + 1) + 1 = q - d
          /\ ~ (e + 1 <= q - c) => q - d = 0
      BY <1>10, <1>11, <1>13
    <3>4. rest = SubSeq(p, e + 1, q - c)
      BY <1>10, <2>1
    <3>5. ASSUME NEW i \in 1 .. q - d PROVE rest[i] = s[d + i]
      <4>1. PICK k : k = e + i
        OBVIOUS
      <4>2. k \in 1 .. q - c /\ (e + 1) + i - 1 = k /\ c + k = d + i
        BY <1>10, <1>11, <1>13, <4>1
      <4>3. rest[i] = p[k]
        BY <3>2, <3>3, <3>4, <4>2
      <4> QED BY <1>10, <4>2, <4>3
    <3> QED BY <3>2, <3>3, <3>4, <3>5
  <2>8. PendingAre(s, d)'
    <3>1. d <= q
      BY <1>10, <1>11, <1>13
    <3>2. reader.eof => q = Len(s) /\ ~ dump.cut
      BY <1>5, <1>9 DEF Streaming, PendingAre
    <3> QED BY <1>1, <1>13, <2>3, <2>7, <3>1, <3>2 DEF PendingAre
  <2>9. Streaming(s, d)'
    BY <2>5, <2>6, <2>8 DEF Streaming
  <2>10. Streaming(dump.recs, d)'
    BY <1>1, <1>3, <2>9
  <2>11. ValidatedIsWhole'
    BY <2>2 DEF ValidatedIsWhole, Analysis!ValidatedIsWhole
  <2> QED BY <1>1, <1>2, <1>4, <2>10, <2>11 DEF WholeInv
<1>18. CASE ~ (t[1].epoch = reader.last + 1 /\ Analysis!Consistent(t))
  <2>1. verdict' = "error"
    BY <1>6, <1>7, <1>18 DEF Analysis!Yield
  <2>2. ~ InOrder(s)
    <3>1. SUFFICES ASSUME InOrder(s) PROVE FALSE
      OBVIOUS
    <3>2. /\ s[c + 1].epoch = reader.last + 1
          /\ \A i, j \in c + 1 .. d : s[i].page = s[j].page => i = j
          /\ Analysis!CountsAgree(Part(s, c + 1, d))
      BY <1>10, <1>12, <1>13, <1>16, <3>1, NextWindowSound
    <3> QED BY <1>14, <1>15, <1>18, <3>2
  <2>3. ~ Analysis!WellFormed(dump)
    BY <1>3, <2>2, WellFormedIs
  <2>4. ~ Analysis!WellFormed(dump')
    BY <1>1, <2>3
  <2>5. ValidatedIsWhole'
    BY <2>1, <2>4 DEF ValidatedIsWhole, Analysis!ValidatedIsWhole
  <2> QED BY <1>2, <2>1, <2>5 DEF WholeInv
<1> QED BY <1>17, <1>18

\* At the end of the records the totals are compared.
LEMMA ConcludeIsWhole ==
  ASSUME WholeInv, Analysis!Conclude
  PROVE  WholeInv'
<1>1. /\ UNCHANGED <<dump, block, reader, sums>> /\ verdict = "none"
      /\ reader.eof /\ reader.pending = <<>>
  BY DEF Analysis!Conclude
<1>2. ReaderTypes /\ ReaderTypes'
  BY <1>1 DEF WholeInv, ReaderTypes
<1>3. PICK s : s = dump.recs
  OBVIOUS
<1>4. dump.summary.complete /\ ~ dump.summary.capped
  BY <1>1 DEF WholeInv
<1>5. PICK c : Streaming(s, c)
  BY <1>1, <1>3 DEF WholeInv
<1>6. s \in Seq(Analysis!RawRecord) /\ Len(s) \in Nat
  <2>1. s \in Seq(Analysis!RawRecord)
    BY <1>2, <1>3, AnalysisAssumption DEF ReaderTypes
  <2> QED BY <2>1
<1>7. c = Len(s) /\ ~ dump.cut
  <2>1. Len(reader.pending) = 0
    BY <1>1
  <2>2. c \in Nat /\ reader.pos \in Nat /\ reader.pos - c = 0 /\ reader.pos = Len(s) /\ ~ dump.cut
    BY <1>1, <1>2, <1>5, <2>1 DEF Streaming, PendingAre, ReaderTypes
  <2> QED BY <2>2
<1>8. WindowsRead(s, Len(s), reader.last)
  BY <1>5, <1>7 DEF Streaming
<1>9. InOrder(s) /\ Cardinality({s[i].epoch : i \in DOMAIN s}) = reader.last + 1
  BY <1>6, <1>8, AllRead
<1>10. PICK R : R = Analysis!SetOf(s)
  OBVIOUS
<1>11. R = Part(s, 1, Len(s))
  BY <1>6, <1>10 DEF Analysis!SetOf, Part
<1>12. /\ sums.observed = Len(s) /\ sums.events = Analysis!Accesses(R)
       /\ sums.count = reader.last + 1
       /\ sums.histogram = [n \in 0 .. Words |-> Cardinality(Touching(R, n))]
  BY <1>5, <1>7, <1>11 DEF Streaming, TotalsOf
<1>13. Analysis!Histogram(Analysis!Merged(R, 1)) = [n \in 0 .. Words |-> Cardinality(Touching(R, n))]
  <2>1. IsFiniteSet(R) /\ R \subseteq Analysis!RawRecord
    BY <1>6, <1>11, PartFinite
  <2>2. \A i, j \in 1 .. Len(s) : s[i].epoch = s[j].epoch /\ s[i].page = s[j].page => i = j
    BY <1>8 DEF WindowsRead
  <2>3. ASSUME NEW x \in R, NEW y \in R, x.epoch = y.epoch, x.page = y.page PROVE x = y
    <3>1. PICK i \in 1 .. Len(s) : x = s[i]
      BY <1>11 DEF Part
    <3>2. PICK j \in 1 .. Len(s) : y = s[j]
      BY <1>11 DEF Part
    <3>3. i = j
      BY <2>2, <2>3, <3>1, <3>2
    <3> QED BY <3>1, <3>2, <3>3
  <2> QED BY <2>1, <2>3, MergedTouching
<1>14. Analysis!WellFormed(dump) <=>
         /\ dump.ratios
         /\ sums.observed = dump.summary.observations
         /\ sums.events = dump.summary.accesses
         /\ sums.count = dump.summary.epochs
         /\ sums.histogram = dump.summary.histogram
  <2>1. Analysis!WellFormed(dump) <=>
          /\ ~ dump.cut /\ dump.summary.complete /\ ~ dump.summary.capped /\ dump.ratios
          /\ InOrder(s)
          /\ Len(s) = dump.summary.observations
          /\ Analysis!Accesses(R) = dump.summary.accesses
          /\ Cardinality({s[i].epoch : i \in DOMAIN s}) = dump.summary.epochs
          /\ Analysis!Histogram(Analysis!Merged(R, 1)) = dump.summary.histogram
    BY <1>3, <1>10, WellFormedIs, ZenonT(40)
  <2> QED BY <1>4, <1>7, <1>9, <1>12, <1>13, <2>1
<1>15. /\ verdict' = "validated" <=> Analysis!WellFormed(dump)
       /\ verdict' # "none"
  BY <1>14 DEF Analysis!Conclude
<1>16. ValidatedIsWhole'
  BY <1>1, <1>15 DEF ValidatedIsWhole, Analysis!ValidatedIsWhole
<1> QED BY <1>2, <1>15, <1>16 DEF WholeInv

LEMMA WholeBegins == Init => WholeInv
<1>1. Init => \E d \in Dumps : Analysis!Open(d)
  BY DEF Init, NothingToAnalyse, Analysis!Init
<1> QED BY <1>1, OpenIsWhole

LEMMA WholeStep == WholeInv /\ OracleInv /\ OracleInv' /\ [Next]_offlineVars => WholeInv'
<1> SUFFICES ASSUME WholeInv, OracleInv, OracleInv', [Next]_offlineVars PROVE WholeInv'
  OBVIOUS
<1>1. CASE Analyse
  BY <1>1, ReadIsWhole, YieldIsWhole, ConcludeIsWhole DEF Analyse, Analysis!Next
<1>2. CASE ~ Analyse
  <2>1. UNCHANGED readVars
    BY <1>2 DEF Next, Migrate, Study, Prepare, Simulate, offlineVars
  <2> QED BY <2>1 DEF readVars, WholeInv, ReaderTypes, ValidatedIsWhole, Analysis!ValidatedIsWhole,
                     Streaming, PendingAre, TotalsOf
<1> QED BY <1>1, <1>2

(***************************************************************************)
(* Whatever the file, however it is cut into blocks: a dump is validated if *)
(* it is well-formed (whole, consistent, in order, its windows numbered     *)
(* without a gap, and as its summary says), and refused if it is not.       *)
(***************************************************************************)
THEOREM OnlyWholeDumpsPass == Spec => []ValidatedIsWhole
<1>1. Spec => []OracleInv
  BY OracleBegins, OracleStep, PTL DEF Spec
<1>2. Spec => []WholeInv
  BY <1>1, WholeBegins, WholeStep, PTL DEF Spec
<1>3. WholeInv => ValidatedIsWhole
  BY DEF WholeInv
<1> QED BY <1>2, <1>3, PTL

--------------------------------------------------------------------------------
(* revalidate_extensions.py: what the stream of windows sums up is what the    *)
(* analyses compute that load all records.                                      *)

\* No window has records in both.
Apart(S, T) == \A x \in S, y \in T : x.epoch # y.epoch

LEMMA CardinalitiesJoin ==
  ASSUME NEW S, NEW T, IsFiniteSet(S), IsFiniteSet(T), S \cap T = {}
  PROVE  /\ IsFiniteSet(S \cup T)
         /\ Analysis!Cardinality(S \cup T) = Analysis!Cardinality(S) + Analysis!Cardinality(T)
<1>1. /\ IsFiniteSet(S \cup T)
      /\ Cardinality(S \cup T) = Cardinality(S) + Cardinality(T) - Cardinality(S \cap T)
  BY FS_Union
<1>2. Cardinality(S \cap T) = 0 /\ Cardinality(S) \in Nat /\ Cardinality(T) \in Nat
  BY FS_EmptySet, FS_CardinalityType
<1>3. Cardinality(S \cup T) = Cardinality(S) + Cardinality(T)
  BY <1>1, <1>2
<1> QED BY <1>1, <1>3, SetsOfAnalysis

\* sweep_records: regions, the coarser words touched, the regions with few of them.
Regions(R, x) == {<<r.epoch, r.page \div x[1]>> : r \in R}
Coarse(R, x) == UNION {{r} \X {w \div x[2] : w \in r.mask} : r \in R}
RegionOf(R, x, g) == {r \in R : r.epoch = g[1] /\ r.page \div x[1] = g[2]}
SparseRegions(R, x) ==
  {g \in Regions(R, x) :
     4 * Analysis!Cardinality(Coarse(RegionOf(R, x, g), x)) <= (x[1] * Words) \div x[2]}

LEMMA SweepIs ==
  ASSUME NEW R, NEW x \in Analysis!Sizes
  PROVE  Analysis!Sweep(R)[x] = [pages |-> Analysis!Cardinality(Regions(R, x)),
                                 touched |-> Analysis!Cardinality(Coarse(R, x)),
                                 sparse |-> Analysis!Cardinality(SparseRegions(R, x))]
BY DEF Analysis!Sweep, Regions, Coarse, RegionOf, SparseRegions

LEMMA RegionsFinite ==
  ASSUME NEW R, IsFiniteSet(R), NEW x
  PROVE  IsFiniteSet(Regions(R, x))
<1>1. PICK f : f = [r \in R |-> <<r.epoch, r.page \div x[1]>>]
  OBVIOUS
<1>2. f \in Surjection(R, Regions(R, x))
  BY <1>1 DEF Surjection, Regions
<1> QED BY <1>2, FS_Surjection

LEMMA MaskFinite ==
  ASSUME NEW r \in Analysis!RawRecord
  PROVE  /\ IsFiniteSet(r.mask) /\ r.mask \subseteq Analysis!WordIds
         /\ Cardinality(r.mask) \in Nat /\ Cardinality(r.mask) <= Words
<1>1. r.mask \subseteq 0 .. Words - 1 /\ Words \in Nat
  BY AnalysisAssumption DEF Analysis!RawRecord, Analysis!WordIds
<1>2. /\ IsFiniteSet(0 .. Words - 1)
      /\ Cardinality(0 .. Words - 1) = IF 0 > Words - 1 THEN 0 ELSE Words - 1 - 0 + 1
  BY <1>1, FS_Interval
<1>3. Cardinality(0 .. Words - 1) = Words
  BY <1>1, <1>2
<1>4. IsFiniteSet(r.mask) /\ Cardinality(r.mask) <= Cardinality(0 .. Words - 1)
  BY <1>1, <1>2, FS_Subset
<1> QED BY <1>1, <1>3, <1>4, FS_CardinalityType DEF Analysis!WordIds

LEMMA CoarseFinite ==
  ASSUME NEW R, IsFiniteSet(R), R \subseteq Analysis!RawRecord, NEW x
  PROVE  IsFiniteSet(Coarse(R, x))
<1>1. PICK P : P = R \X Analysis!WordIds
  OBVIOUS
<1>2. IsFiniteSet(P)
  <2>1. 0 \in Int /\ Words - 1 \in Int
    BY AnalysisAssumption
  <2>2. IsFiniteSet(Analysis!WordIds)
    BY <2>1, FS_Interval DEF Analysis!WordIds
  <2> QED BY <1>1, <2>2, FS_Product
<1>3. PICK f : f = [q \in P |-> <<q[1], q[2] \div x[2]>>]
  OBVIOUS
<1>4. PICK I : I = {f[q] : q \in P}
  OBVIOUS
<1>5. IsFiniteSet(I)
  <2>1. f \in Surjection(P, I)
    BY <1>3, <1>4 DEF Surjection
  <2> QED BY <1>2, <2>1, FS_Surjection
<1>6. ASSUME NEW r \in R, NEW w \in r.mask PROVE <<r, w \div x[2]>> \in I
  <2>1. PICK q : q = <<r, w>>
    OBVIOUS
  <2>2. q \in P /\ q[1] = r /\ q[2] = w
    BY <1>1, <2>1, MaskFinite
  <2> QED BY <1>3, <1>4, <2>2
<1>7. Coarse(R, x) \subseteq I
  <2>1. ASSUME NEW y \in Coarse(R, x) PROVE y \in I
    <3>1. PICK r \in R : y \in {r} \X {w \div x[2] : w \in r.mask}
      BY DEF Coarse
    <3>2. PICK w \in r.mask : y = <<r, w \div x[2]>>
      BY <3>1
    <3> QED BY <1>6, <3>2
  <2> QED BY <2>1
<1> QED BY <1>5, <1>7, FS_Subset

LEMMA SparseJoin ==
  ASSUME NEW S, NEW T, Apart(S, T), NEW x
  PROVE  SparseRegions(S \cup T, x) = SparseRegions(S, x) \cup SparseRegions(T, x)
<1>1. Regions(S \cup T, x) = Regions(S, x) \cup Regions(T, x)
  BY DEF Regions
<1>2. \A g \in Regions(S, x) : RegionOf(S \cup T, x, g) = RegionOf(S, x, g)
  BY DEF Regions, RegionOf, Apart
<1>3. \A g \in Regions(T, x) : RegionOf(S \cup T, x, g) = RegionOf(T, x, g)
  BY DEF Regions, RegionOf, Apart
<1> DEFINE few(R, g) ==
      4 * Analysis!Cardinality(Coarse(RegionOf(R, x, g), x)) <= (x[1] * Words) \div x[2]
<1>4. \A g \in Regions(S, x) : few(S \cup T, g) <=> few(S, g)
  BY <1>2
<1>5. \A g \in Regions(T, x) : few(S \cup T, g) <=> few(T, g)
  BY <1>3
<1>6. \A R : SparseRegions(R, x) = {g \in Regions(R, x) : few(R, g)}
  BY DEF SparseRegions
<1> HIDE DEF few
<1> QED BY <1>1, <1>4, <1>5, <1>6

\* The regions and words of separate windows add up.
LEMMA SweepsJoin ==
  ASSUME NEW S, NEW T, IsFiniteSet(S), IsFiniteSet(T), S \subseteq Analysis!RawRecord,
         T \subseteq Analysis!RawRecord, Apart(S, T)
  PROVE  Analysis!Sweep(S \cup T) = Analysis!AddSweep(Analysis!Sweep(S), Analysis!Sweep(T))
<1>1. ASSUME NEW x \in Analysis!Sizes
      PROVE  /\ Analysis!Cardinality(Regions(S \cup T, x))
                  = Analysis!Cardinality(Regions(S, x)) + Analysis!Cardinality(Regions(T, x))
             /\ Analysis!Cardinality(Coarse(S \cup T, x))
                  = Analysis!Cardinality(Coarse(S, x)) + Analysis!Cardinality(Coarse(T, x))
             /\ Analysis!Cardinality(SparseRegions(S \cup T, x))
                  = Analysis!Cardinality(SparseRegions(S, x))
                    + Analysis!Cardinality(SparseRegions(T, x))
  <2>1. Regions(S \cup T, x) = Regions(S, x) \cup Regions(T, x)
    BY DEF Regions
  <2>2. Regions(S, x) \cap Regions(T, x) = {}
    BY DEF Regions, Apart
  <2>3. IsFiniteSet(Regions(S, x)) /\ IsFiniteSet(Regions(T, x))
    BY RegionsFinite
  <2>4. Coarse(S \cup T, x) = Coarse(S, x) \cup Coarse(T, x)
    BY DEF Coarse
  <2>5. Coarse(S, x) \cap Coarse(T, x) = {}
    <3>1. \A y \in Coarse(S, x) : y[1] \in S
      BY DEF Coarse
    <3>2. \A y \in Coarse(T, x) : y[1] \in T
      BY DEF Coarse
    <3>3. S \cap T = {}
      BY DEF Apart
    <3> QED BY <3>1, <3>2, <3>3
  <2>6. IsFiniteSet(Coarse(S, x)) /\ IsFiniteSet(Coarse(T, x))
    BY CoarseFinite
  <2>7. SparseRegions(S, x) \subseteq Regions(S, x) /\ SparseRegions(T, x) \subseteq Regions(T, x)
    BY DEF SparseRegions
  <2>8. IsFiniteSet(SparseRegions(S, x)) /\ IsFiniteSet(SparseRegions(T, x))
    BY <2>3, <2>7, FS_Subset
  <2>9. SparseRegions(S, x) \cap SparseRegions(T, x) = {}
    BY <2>2, <2>7
  <2>10. SparseRegions(S \cup T, x) = SparseRegions(S, x) \cup SparseRegions(T, x)
    BY SparseJoin
  <2>11. Analysis!Cardinality(Regions(S \cup T, x))
           = Analysis!Cardinality(Regions(S, x)) + Analysis!Cardinality(Regions(T, x))
    BY <2>1, <2>2, <2>3, CardinalitiesJoin
  <2>12. Analysis!Cardinality(Coarse(S \cup T, x))
           = Analysis!Cardinality(Coarse(S, x)) + Analysis!Cardinality(Coarse(T, x))
    BY <2>4, <2>5, <2>6, CardinalitiesJoin
  <2>13. Analysis!Cardinality(SparseRegions(S \cup T, x))
           = Analysis!Cardinality(SparseRegions(S, x)) + Analysis!Cardinality(SparseRegions(T, x))
    BY <2>8, <2>9, <2>10, CardinalitiesJoin
  <2> QED BY <2>11, <2>12, <2>13
<1>2. PICK a : a = Analysis!Sweep(S)
  OBVIOUS
<1>3. PICK b : b = Analysis!Sweep(T)
  OBVIOUS
<1>4. PICK c : c = Analysis!Sweep(S \cup T)
  OBVIOUS
<1>5. ASSUME NEW x \in Analysis!Sizes
      PROVE  c[x] = [pages |-> a[x].pages + b[x].pages, touched |-> a[x].touched + b[x].touched,
                     sparse |-> a[x].sparse + b[x].sparse]
  <2>1. /\ a[x] = [pages |-> Analysis!Cardinality(Regions(S, x)),
                   touched |-> Analysis!Cardinality(Coarse(S, x)),
                   sparse |-> Analysis!Cardinality(SparseRegions(S, x))]
        /\ b[x] = [pages |-> Analysis!Cardinality(Regions(T, x)),
                   touched |-> Analysis!Cardinality(Coarse(T, x)),
                   sparse |-> Analysis!Cardinality(SparseRegions(T, x))]
        /\ c[x] = [pages |-> Analysis!Cardinality(Regions(S \cup T, x)),
                   touched |-> Analysis!Cardinality(Coarse(S \cup T, x)),
                   sparse |-> Analysis!Cardinality(SparseRegions(S \cup T, x))]
    BY <1>2, <1>3, <1>4, SweepIs
  <2> QED BY <1>1, <2>1
<1>6. c = [x \in Analysis!Sizes |-> c[x]]
  BY <1>4 DEF Analysis!Sweep
<1>7. Analysis!AddSweep(a, b) =
        [x \in Analysis!Sizes |->
           [pages |-> a[x].pages + b[x].pages, touched |-> a[x].touched + b[x].touched,
            sparse |-> a[x].sparse + b[x].sparse]]
  BY DEF Analysis!AddSweep
<1>8. c = Analysis!AddSweep(a, b)
  BY <1>5, <1>6, <1>7
<1> QED BY <1>2, <1>3, <1>4, <1>8

LEMMA NoSweep == Analysis!Sweep({}) = [x \in Analysis!Sizes |-> [pages |-> 0, touched |-> 0, sparse |-> 0]]
<1>1. Analysis!Cardinality({}) = 0
  BY SetsOfAnalysis, FS_EmptySet
<1>2. ASSUME NEW x \in Analysis!Sizes
      PROVE  Analysis!Sweep({})[x] = [pages |-> 0, touched |-> 0, sparse |-> 0]
  <2>1. Regions({}, x) = {} /\ Coarse({}, x) = {} /\ SparseRegions({}, x) = {}
    BY DEF Regions, Coarse, SparseRegions
  <2> QED BY <1>1, <2>1, SweepIs
<1>3. PICK c : c = Analysis!Sweep({})
  OBVIOUS
<1>4. c = [x \in Analysis!Sizes |-> c[x]]
  BY <1>3 DEF Analysis!Sweep
<1> QED BY <1>2, <1>3, <1>4

LEMMA SumOfConstant ==
  ASSUME NEW f, NEW S, IsFiniteSet(S), NEW k \in Nat, \A x \in S : f[x] = k
  PROVE  Sum(f, S) = k * Cardinality(S)
<1> DEFINE Bad == {s \in SUBSET S : Sum(f, s) # k * Cardinality(s)}
<1>1. SUFFICES ASSUME Bad # {} PROVE FALSE
  OBVIOUS
<1>2. \A s \in SUBSET S : IsFiniteSet(s) /\ Weighed(f, s)
  BY FS_Subset DEF Weighed
<1>3. PICK s \in Bad : \A t \in Bad : Cardinality(s) <= Cardinality(t)
  BY <1>1, <1>2, SmallestSet
<1>4. s \subseteq S /\ Sum(f, s) # k * Cardinality(s)
  OBVIOUS
<1>5. s # {}
  <2>1. Cardinality({}) = 0 /\ k * 0 = 0 /\ Sum(f, {}) = 0
    BY FS_EmptySet, SumOfNone
  <2> QED BY <1>4, <2>1
<1>6. PICK x \in s : TRUE
  BY <1>5
<1>7. PICK t : t = s \ {x}
  OBVIOUS
<1>8. t \subseteq S /\ Cardinality(t) = Cardinality(s) - 1 /\ Cardinality(s) \in Nat
  BY <1>2, <1>4, <1>6, <1>7, FS_RemoveElement, FS_CardinalityType
<1>9. Sum(f, t) = k * Cardinality(t)
  <2>1. ~ (Cardinality(s) <= Cardinality(t))
    BY <1>8
  <2> QED BY <1>3, <1>8, <2>1
<1>10. Sum(f, s) = f[x] + Sum(f, t) /\ f[x] = k
  BY <1>2, <1>4, <1>6, <1>7, SumWithout
<1>11. PICK n \in Nat : n = Cardinality(s)
  BY <1>8
<1>12. k + k * (n - 1) = k * n
  BY <1>11
<1> QED BY <1>4, <1>8, <1>9, <1>10, <1>11, <1>12

LEMMA SumOfRange ==
  ASSUME NEW f, NEW a \in Int, NEW n \in Int, a <= n, \A i \in a .. n : f[i] \in Nat
  PROVE  /\ Sum(f, a .. n) = f[n] + Sum(f, a .. n - 1)
         /\ Weighed(f, a .. n) /\ Weighed(f, a .. n - 1)
<1>1. IsFiniteSet(a .. n) /\ IsFiniteSet(a .. n - 1)
  BY FS_Interval
<1>2. \A i \in a .. n - 1 : i \in a .. n
  OBVIOUS
<1>3. Weighed(f, a .. n) /\ Weighed(f, a .. n - 1)
  BY <1>1, <1>2 DEF Weighed
<1>4. n \in a .. n /\ (a .. n) \ {n} = a .. n - 1
  OBVIOUS
<1>5. Sum(f, a .. n) = f[n] + Sum(f, (a .. n) \ {n})
  BY <1>3, <1>4, SumWithout
<1> QED BY <1>3, <1>4, <1>5

\* The library's sums over records and over numbers of words.
LEMMA WordsAre ==
  ASSUME NEW S, IsFiniteSet(S), NEW f, \A r \in S : f[r] = Cardinality(r.mask)
  PROVE  Analysis!MapThenSumSet(Analysis!Touched, S) = Sum(f, S)
<1> DEFINE by(h, s) == IF s = {} THEN 0 ELSE Analysis!Touched(One(s)) + h[s \ {One(s)}]
<1>1. Analysis!MapThenSumSet(Analysis!Touched, S) = (CHOOSE h : h = [s \in SUBSET S |-> by(h, s)])[S]
  BY DEF Analysis!MapThenSumSet, Analysis!MapThenFoldSet, One
<1>2. \A s \in SUBSET S : s # {} => f[One(s)] = Analysis!Touched(One(s))
  BY FS_Subset, LeaveOne, SetsOfAnalysis DEF Analysis!Touched
<1>3. ASSUME NEW h PROVE SumsOf(h, SUBSET S, f) <=> h = [s \in SUBSET S |-> by(h, s)]
  <2>1. [s \in SUBSET S |-> by(h, s)] =
          [s \in SUBSET S |-> IF s = {} THEN 0 ELSE f[One(s)] + h[s \ {One(s)}]]
    BY <1>2
  <2> QED BY <2>1 DEF SumsOf
<1>4. PICK k : k = [s \in SUBSET S |-> by(k, s)] /\ Analysis!MapThenSumSet(Analysis!Touched, S) = k[S]
  BY <1>1, <1>3, SumsOn
<1> QED BY <1>3, <1>4, SumIs, SMTT(30)

LEMMA AtMostIs ==
  ASSUME NEW h, NEW n \in Int
  PROVE  Analysis!AtMostOf(h, n) = Sum(h, 0 .. n)
<1>1. IsFiniteSet(0 .. n)
  BY FS_Interval
<1>2. PICK S : S = 0 .. n
  OBVIOUS
<1>3. Analysis!AtMostOf(h, n) =
        (CHOOSE g : g = [s \in SUBSET S |-> IF s = {} THEN 0 ELSE h[One(s)] + g[s \ {One(s)}]])[S]
  BY <1>2 DEF Analysis!AtMostOf, Analysis!MapThenSumSet, Analysis!MapThenFoldSet, One
<1> QED BY <1>2, <1>3 DEF Sum, SumsOf

\* validated_histogram: the words that all observations touched.
WordsIn(h, n) == Analysis!MapThenSumSet(LAMBDA i : i * h[i], 0 .. n)

LEMMA WordsOfHistogram ==
  ASSUME NEW h, NEW n \in Int, NEW f, \A i \in 0 .. n : f[i] = i * h[i]
  PROVE  WordsIn(h, n) = Sum(f, 0 .. n)
<1>1. PICK S : S = 0 .. n
  OBVIOUS
<1>2. IsFiniteSet(S)
  BY <1>1, FS_Interval
<1> DEFINE by(g, s) == IF s = {} THEN 0 ELSE One(s) * h[One(s)] + g[s \ {One(s)}]
<1>3. WordsIn(h, n) = (CHOOSE g : g = [s \in SUBSET S |-> by(g, s)])[S]
  BY <1>1 DEF WordsIn, Analysis!MapThenSumSet, Analysis!MapThenFoldSet, One
<1>4. \A s \in SUBSET S : s # {} => f[One(s)] = One(s) * h[One(s)]
  <2>1. \A s \in SUBSET S : s # {} => One(s) \in S
    BY <1>2, FS_Subset, LeaveOne
  <2> QED BY <1>1, <2>1
<1>5. ASSUME NEW g PROVE SumsOf(g, SUBSET S, f) <=> g = [s \in SUBSET S |-> by(g, s)]
  <2>1. [s \in SUBSET S |-> by(g, s)] =
          [s \in SUBSET S |-> IF s = {} THEN 0 ELSE f[One(s)] + g[s \ {One(s)}]]
    BY <1>4
  <2> QED BY <2>1 DEF SumsOf
<1>6. PICK k : k = [s \in SUBSET S |-> by(k, s)] /\ WordsIn(h, n) = k[S]
  BY <1>2, <1>3, <1>5, SumsOn
<1>7. SumsOf(k, SUBSET S, f)
  BY <1>5, <1>6
<1>8. Sum(f, S) = k[S]
  BY <1>2, <1>7, SumIs
<1> QED BY <1>1, <1>6, <1>8, Zenon

UpTo(R, n) == {r \in R : Cardinality(r.mask) <= n}

LEMMA UpToIs ==
  ASSUME NEW R, IsFiniteSet(R), R \subseteq Analysis!RawRecord, NEW n \in Nat
  PROVE  /\ IsFiniteSet(UpTo(R, n)) /\ IsFiniteSet(Touching(R, n))
         /\ UpTo(R, 0) = Touching(R, 0)
         /\ n # 0 => /\ UpTo(R, n) = UpTo(R, n - 1) \cup Touching(R, n)
                     /\ UpTo(R, n - 1) \cap Touching(R, n) = {}
<1>1. UpTo(R, n) \subseteq R /\ Touching(R, n) \subseteq R
  BY DEF UpTo, Touching
<1>2. \A r \in R : Cardinality(r.mask) \in Nat
  BY MaskFinite
<1>3. UpTo(R, 0) = Touching(R, 0)
  BY <1>2 DEF UpTo, Touching
<1>4. \A r \in R : Cardinality(r.mask) <= n <=> Cardinality(r.mask) <= n - 1 \/ Cardinality(r.mask) = n
  BY <1>2
<1>5. \A r \in R : ~ (Cardinality(r.mask) <= n - 1 /\ Cardinality(r.mask) = n)
  BY <1>2
<1> QED BY <1>1, <1>3, <1>4, <1>5, FS_Subset DEF UpTo, Touching

\* The observations with at most n words, from the records and from the histogram.
LEMMA HistogramAdds ==
  ASSUME NEW R, IsFiniteSet(R), R \subseteq Analysis!RawRecord,
         NEW h, h = [n \in 0 .. Words |-> Cardinality(Touching(R, n))], NEW n \in 0 .. Words
  PROVE  Sum(h, 0 .. n) = Cardinality(UpTo(R, n))
<1>1. Words \in Nat
  BY AnalysisAssumption
<1>2. \A i \in 0 .. Words : h[i] = Cardinality(Touching(R, i)) /\ h[i] \in Nat
  BY UpToIs, FS_CardinalityType
<1> DEFINE Bad == {m \in 0 .. Words : Sum(h, 0 .. m) # Cardinality(UpTo(R, m))}
<1>3. SUFFICES ASSUME Bad # {} PROVE FALSE
  OBVIOUS
<1>4. Bad \subseteq Nat
  BY <1>1
<1>5. PICK m \in Bad : \A x \in Bad : m <= x
  BY <1>3, <1>4, LeastOf
<1>6. /\ m \in 0 .. Words /\ m \in Nat /\ m \in Int /\ 0 \in Int /\ 0 <= m /\ m <= Words
      /\ Sum(h, 0 .. m) # Cardinality(UpTo(R, m))
  BY <1>1
<1>7. \A i \in 0 .. m : h[i] \in Nat
  BY <1>1, <1>2, <1>6
<1>8. Sum(h, 0 .. m) = h[m] + Sum(h, 0 .. m - 1)
  BY <1>6, <1>7, SumOfRange
<1>9. IsFiniteSet(UpTo(R, m)) /\ IsFiniteSet(Touching(R, m)) /\ h[m] = Cardinality(Touching(R, m))
  BY <1>2, <1>6, UpToIs
<1>10. CASE m = 0
  <2>1. 0 .. m - 1 = {} /\ Sum(h, {}) = 0
    BY <1>10, SumOfNone
  <2>2. UpTo(R, 0) = Touching(R, 0)
    BY UpToIs
  <2>3. Cardinality(UpTo(R, m)) \in Nat
    BY <1>9, FS_CardinalityType
  <2> QED BY <1>6, <1>8, <1>9, <1>10, <2>1, <2>2, <2>3
<1>11. CASE m # 0
  <2>1. PICK l \in 0 .. Words : l = m - 1
    BY <1>1, <1>6, <1>11
  <2>2. Sum(h, 0 .. l) = Cardinality(UpTo(R, l))
    <3>1. ~ (m <= l)
      BY <1>6, <2>1
    <3> QED BY <1>5, <2>1, <3>1
  <2>3. /\ UpTo(R, m) = UpTo(R, l) \cup Touching(R, m)
        /\ UpTo(R, l) \cap Touching(R, m) = {}
    BY <1>6, <1>11, <2>1, UpToIs
  <2>4. IsFiniteSet(UpTo(R, l))
    BY <1>1, <2>1, UpToIs
  <2>5. Cardinality(UpTo(R, m)) = Cardinality(UpTo(R, l)) + Cardinality(Touching(R, m))
    <3>1. PICK A : A = UpTo(R, l)
      OBVIOUS
    <3>2. PICK B : B = Touching(R, m)
      OBVIOUS
    <3>3. Analysis!Cardinality(A \cup B) = Analysis!Cardinality(A) + Analysis!Cardinality(B)
      BY <1>9, <2>3, <2>4, <3>1, <3>2, CardinalitiesJoin
    <3> QED BY <2>3, <3>1, <3>2, <3>3, SetsOfAnalysis
  <2>6. Cardinality(UpTo(R, l)) \in Nat /\ Cardinality(Touching(R, m)) \in Nat
    BY <1>9, <2>4, FS_CardinalityType
  <2> QED BY <1>6, <1>8, <1>9, <2>1, <2>2, <2>5, <2>6
<1> QED BY <1>10, <1>11

\* The words they touched, too.
LEMMA TouchingWords ==
  ASSUME NEW R, IsFiniteSet(R), R \subseteq Analysis!RawRecord,
         NEW t, t = [r \in R |-> Cardinality(r.mask)], NEW i \in Nat
  PROVE  /\ Sum(t, Touching(R, i)) = i * Cardinality(Touching(R, i))
         /\ Weighed(t, Touching(R, i)) /\ Weighed(t, UpTo(R, i))
<1>1. IsFiniteSet(Touching(R, i)) /\ IsFiniteSet(UpTo(R, i))
  BY UpToIs
<1>2. \A r \in Touching(R, i) : t[r] = i
  BY DEF Touching
<1>3. Sum(t, Touching(R, i)) = i * Cardinality(Touching(R, i))
  BY <1>1, <1>2, SumOfConstant
<1>4. \A r \in UpTo(R, i) : t[r] \in Nat
  BY MaskFinite DEF UpTo
<1> QED BY <1>1, <1>2, <1>3, <1>4 DEF Weighed

LEMMA WordsAdd ==
  ASSUME NEW R, IsFiniteSet(R), R \subseteq Analysis!RawRecord,
         NEW t, t = [r \in R |-> Cardinality(r.mask)],
         NEW f, \A i \in 0 .. Words : f[i] = Sum(t, Touching(R, i)), NEW n \in 0 .. Words
  PROVE  Sum(f, 0 .. n) = Sum(t, UpTo(R, n))
<1>1. Words \in Nat
  BY AnalysisAssumption
<1>2. \A i \in 0 .. Words : i \in Nat
  OBVIOUS
<1>4. ASSUME NEW i \in 0 .. Words
      PROVE  Sum(t, Touching(R, i)) = f[i] /\ Weighed(t, Touching(R, i)) /\ Weighed(t, UpTo(R, i))
  BY <1>2, TouchingWords
<1>3. \A i \in 0 .. Words : f[i] \in Nat
  BY <1>4, SumInNat
<1> DEFINE Bad == {m \in 0 .. Words : Sum(f, 0 .. m) # Sum(t, UpTo(R, m))}
<1>5. SUFFICES ASSUME Bad # {} PROVE FALSE
  OBVIOUS
<1>6. Bad \subseteq Nat
  BY <1>1
<1>7. PICK m \in Bad : \A x \in Bad : m <= x
  BY <1>5, <1>6, LeastOf
<1>8. /\ m \in 0 .. Words /\ m \in Nat /\ m \in Int /\ 0 \in Int /\ 0 <= m /\ m <= Words
      /\ Sum(f, 0 .. m) # Sum(t, UpTo(R, m))
  BY <1>1
<1>9. \A i \in 0 .. m : f[i] \in Nat
  BY <1>1, <1>3, <1>8
<1>10. Sum(f, 0 .. m) = f[m] + Sum(f, 0 .. m - 1) /\ f[m] \in Nat
  <2>1. m \in Int /\ 0 \in Int /\ 0 <= m
    BY <1>8
  <2>2. Sum(f, 0 .. m) = f[m] + Sum(f, 0 .. m - 1)
    BY <1>9, <2>1, SumOfRange
  <2> QED BY <1>3, <1>8, <2>2
<1>11. CASE m = 0
  <2>1. 0 .. m - 1 = {} /\ Sum(f, {}) = 0
    BY <1>11, SumOfNone
  <2>2. UpTo(R, 0) = Touching(R, 0)
    BY UpToIs
  <2> QED BY <1>4, <1>8, <1>10, <1>11, <2>1, <2>2
<1>12. CASE m # 0
  <2>1. PICK l \in 0 .. Words : l = m - 1
    BY <1>1, <1>8, <1>12
  <2>2. Sum(f, 0 .. l) = Sum(t, UpTo(R, l))
    <3>1. ~ (m <= l)
      BY <1>8, <2>1
    <3> QED BY <1>7, <2>1, <3>1
  <2>3. /\ UpTo(R, m) = UpTo(R, l) \cup Touching(R, m)
        /\ UpTo(R, l) \cap Touching(R, m) = {}
    BY <1>8, <1>12, <2>1, UpToIs
  <2>4. Weighed(t, UpTo(R, l)) /\ Weighed(t, Touching(R, m)) /\ Sum(t, Touching(R, m)) = f[m]
    BY <1>4, <1>8
  <2>5. Sum(t, UpTo(R, m)) = Sum(t, UpTo(R, l)) + f[m]
    BY <2>3, <2>4, SumJoin
  <2>6. Sum(t, UpTo(R, l)) \in Nat
    BY <2>4, SumInNat
  <2> QED BY <1>8, <1>10, <2>1, <2>2, <2>5, <2>6
<1> QED BY <1>11, <1>12

\* The distinct records of a collection, at the size of a page and of a word.
LEMMA OneWordTouched ==
  ASSUME NEW R, IsFiniteSet(R), R \subseteq Analysis!RawRecord,
         NEW t, t = [r \in R |-> Cardinality(r.mask)]
  PROVE  Analysis!Cardinality(Coarse(R, <<1, 1>>)) = Sum(t, R)
<1>1. PICK x : x = <<1, 1>>
  OBVIOUS
<1>2. x[2] = 1
  BY <1>1
<1> DEFINE Bad == {s \in SUBSET R : Analysis!Cardinality(Coarse(s, x)) # Sum(t, s)}
<1>3. SUFFICES ASSUME Bad # {} PROVE FALSE
  BY <1>1
<1>4. \A s \in SUBSET R : IsFiniteSet(s) /\ Weighed(t, s) /\ IsFiniteSet(Coarse(s, x))
  <2>1. \A s \in SUBSET R : IsFiniteSet(s) /\ s \subseteq Analysis!RawRecord
    BY FS_Subset
  <2>2. \A s \in SUBSET R : IsFiniteSet(Coarse(s, x))
    BY <2>1, CoarseFinite
  <2>3. \A r \in R : t[r] \in Nat
    BY MaskFinite
  <2> QED BY <2>1, <2>2, <2>3 DEF Weighed
<1>5. PICK s \in Bad : \A u \in Bad : Cardinality(s) <= Cardinality(u)
  BY <1>3, <1>4, SmallestSet
<1>6. s \subseteq R /\ Analysis!Cardinality(Coarse(s, x)) # Sum(t, s)
  OBVIOUS
<1>7. s # {}
  <2>1. Coarse({}, x) = {}
    BY DEF Coarse
  <2>2. Analysis!Cardinality(Coarse({}, x)) = 0
    BY <2>1, FS_EmptySet, SetsOfAnalysis
  <2> QED BY <1>6, <2>2, SumOfNone
<1>8. PICK r \in s : TRUE
  BY <1>7
<1>9. PICK u : u = s \ {r}
  OBVIOUS
<1>10. u \subseteq R /\ Cardinality(u) = Cardinality(s) - 1 /\ Cardinality(s) \in Nat
  BY <1>4, <1>6, <1>8, <1>9, FS_RemoveElement, FS_CardinalityType
<1>11. Analysis!Cardinality(Coarse(u, x)) = Sum(t, u)
  <2>1. ~ (Cardinality(s) <= Cardinality(u))
    BY <1>10
  <2> QED BY <1>5, <1>10, <2>1
<1>12. Sum(t, s) = t[r] + Sum(t, u)
  BY <1>4, <1>6, <1>8, <1>9, SumWithout
<1>13. PICK A : A = {r} \X r.mask
  OBVIOUS
<1>14. Coarse(s, x) = Coarse(u, x) \cup A
  <2>1. \A q \in s : \A w \in q.mask : w \div x[2] = w
    BY <1>2, <1>6, AnalysisAssumption DEF Analysis!RawRecord, Analysis!WordIds
  <2>2. \A q \in s : {w \div x[2] : w \in q.mask} = q.mask
    BY <2>1
  <2>3. Coarse(s, x) = UNION {{q} \X q.mask : q \in s}
    BY <2>2 DEF Coarse
  <2>4. Coarse(u, x) = UNION {{q} \X q.mask : q \in u}
    BY <1>9, <2>2 DEF Coarse
  <2>5. s = u \cup {r}
    BY <1>8, <1>9
  <2> QED BY <1>13, <2>3, <2>4, <2>5
<1>15. Coarse(u, x) \cap A = {}
  <2>1. \A y \in Coarse(u, x) : y[1] \in u
    BY DEF Coarse
  <2>2. \A y \in A : y[1] = r
    BY <1>13
  <2> QED BY <1>9, <2>1, <2>2
<1>16. IsFiniteSet(A) /\ Analysis!Cardinality(A) = t[r]
  <2>1. IsFiniteSet({r}) /\ Cardinality({r}) = 1
    BY FS_Singleton
  <2>2. IsFiniteSet(r.mask) /\ Cardinality(r.mask) \in Nat
    BY <1>6, <1>8, MaskFinite
  <2>3. IsFiniteSet(A) /\ Cardinality(A) = 1 * Cardinality(r.mask)
    BY <1>13, <2>1, <2>2, FS_Product
  <2>4. t[r] = Cardinality(r.mask)
    BY <1>6, <1>8
  <2> QED BY <2>2, <2>3, <2>4, SetsOfAnalysis
<1>17. Analysis!Cardinality(Coarse(s, x)) = Analysis!Cardinality(Coarse(u, x)) + t[r]
  BY <1>4, <1>10, <1>14, <1>15, <1>16, CardinalitiesJoin
<1>18. t[r] \in Nat /\ Sum(t, u) \in Nat
  BY <1>4, <1>6, <1>8, <1>10, SumInNat DEF Weighed
<1> QED BY <1>6, <1>11, <1>12, <1>17, <1>18

\* Every page its own record in every window.
Distinct(R) == \A x, y \in R : x.epoch = y.epoch /\ x.page = y.page => x = y

LEMMA WastedIs ==
  ASSUME NEW R, IsFiniteSet(R), R \subseteq Analysis!RawRecord, Distinct(R),
         <<1, 1>> \in Analysis!Sizes
  PROVE  Analysis!Wasted(R)
           = Words * Analysis!Sweep(R)[<<1, 1>>].pages - Analysis!Sweep(R)[<<1, 1>>].touched
<1>1. PICK x : x = <<1, 1>>
  OBVIOUS
<1>2. PICK t : t = [r \in R |-> Cardinality(r.mask)]
  OBVIOUS
<1>5. /\ Analysis!Sweep(R)[x].touched = Analysis!Cardinality(Coarse(R, x))
      /\ Analysis!Sweep(R)[x].pages = Analysis!Cardinality(Regions(R, x))
  <2>1. x \in Analysis!Sizes
    BY <1>1
  <2>2. Analysis!Sweep(R)[x] = [pages |-> Analysis!Cardinality(Regions(R, x)),
                                touched |-> Analysis!Cardinality(Coarse(R, x)),
                                sparse |-> Analysis!Cardinality(SparseRegions(R, x))]
    BY <2>1, SweepIs
  <2> QED BY <2>2
<1>3. Analysis!Sweep(R)[x].touched = Analysis!MapThenSumSet(Analysis!Touched, R)
  <2>1. Analysis!Cardinality(Coarse(R, x)) = Sum(t, R)
    BY <1>1, <1>2, OneWordTouched
  <2>2. Analysis!MapThenSumSet(Analysis!Touched, R) = Sum(t, R)
    BY <1>2, WordsAre
  <2> QED BY <1>5, <2>1, <2>2
<1>4. Analysis!Sweep(R)[x].pages = Analysis!Cardinality(R)
  <2>2. PICK f : f = [r \in R |-> <<r.epoch, r.page \div x[1]>>]
    OBVIOUS
  <2>3. \A r \in R : r.page \div x[1] = r.page
    BY <1>1 DEF Analysis!RawRecord
  <2>4. f \in Surjection(R, Regions(R, x))
    BY <2>2 DEF Surjection, Regions
  <2>5. f \in Injection(R, Regions(R, x))
    BY <2>2, <2>3 DEF Injection, IsInjective, Regions, Distinct
  <2>6. Cardinality(Regions(R, x)) = Cardinality(R)
    BY <2>4, <2>5, FS_Surjection
  <2> QED BY <1>5, <2>6, SetsOfAnalysis
<1> QED BY <1>1, <1>3, <1>4 DEF Analysis!Wasted

\* A dump that is well formed has as many records as places, each with its page.
LEMMA WholeRecords ==
  ASSUME dump \in Dumps, Analysis!WellFormed(dump), NEW s, s = dump.recs,
         NEW R, R = Analysis!SetOf(s)
  PROVE  /\ s \in Seq(Analysis!RawRecord) /\ Len(s) \in Nat
         /\ R = Part(s, 1, Len(s)) /\ IsFiniteSet(R) /\ R \subseteq Analysis!RawRecord
         /\ Distinct(R) /\ Cardinality(R) = Len(s)
<1>1. s \in Seq(Analysis!RawRecord) /\ Len(s) \in Nat /\ DOMAIN s = 1 .. Len(s)
  <2>1. s \in Seq(Analysis!RawRecord)
    BY AnalysisAssumption
  <2> QED BY <2>1, TypedRecords
<1>2. R = Part(s, 1, Len(s))
  BY <1>1 DEF Analysis!SetOf, Part
<1>3. IsFiniteSet(R) /\ R \subseteq Analysis!RawRecord
  BY <1>1, <1>2, PartFinite
<1>4. \A i, j \in 1 .. Len(s) : s[i].epoch = s[j].epoch /\ s[i].page = s[j].page => i = j
  <2>1. InOrder(s)
    BY WellFormedIs
  <2> QED BY <1>1, <2>1 DEF InOrder
<1>5. Distinct(R)
  <2>1. ASSUME NEW x \in R, NEW y \in R, x.epoch = y.epoch, x.page = y.page PROVE x = y
    <3>1. PICK i \in 1 .. Len(s) : x = s[i]
      BY <1>2 DEF Part
    <3>2. PICK j \in 1 .. Len(s) : y = s[j]
      BY <1>2 DEF Part
    <3>3. i = j
      BY <1>4, <2>1, <3>1, <3>2
    <3> QED BY <3>1, <3>2, <3>3
  <2> QED BY <2>1 DEF Distinct
<1>6. Cardinality(R) = Len(s)
  <2>1. PICK n \in Nat : n = Len(s)
    BY <1>1
  <2>2. PICK f : f = [i \in 1 .. n |-> s[i]]
    OBVIOUS
  <2>3. f \in Surjection(1 .. n, R)
    BY <1>2, <2>1, <2>2 DEF Surjection, Part
  <2>4. f \in Injection(1 .. n, R)
    <3>1. \A i \in 1 .. n : f[i] = s[i] /\ f[i] \in R
      BY <1>2, <2>1, <2>2 DEF Part
    <3>2. \A i, j \in 1 .. n : f[i] = f[j] => i = j
      BY <1>4, <2>1, <3>1
    <3> QED BY <2>2, <3>1, <3>2 DEF Injection, IsInjective
  <2>5. IsFiniteSet(1 .. n) /\ Cardinality(1 .. n) = n
    <3>1. 1 \in Int /\ n \in Int
      BY <2>1
    <3>2. /\ IsFiniteSet(1 .. n)
          /\ Cardinality(1 .. n) = IF 1 > n THEN 0 ELSE n - 1 + 1
      BY <3>1, FS_Interval
    <3> QED BY <2>1, <3>2
  <2>6. Cardinality(R) = Cardinality(1 .. n)
    BY <2>3, <2>4, <2>5, FS_Surjection
  <2> QED BY <2>1, <2>5, <2>6
<1> QED BY <1>1, <1>2, <1>3, <1>5, <1>6

\* compare_simulator_m5.py: the histogram is one of touched pages.
LEMMA WrittenHistogram ==
  ASSUME dump \in Dumps, Analysis!WellFormed(dump), NEW R, R = Analysis!SetOf(dump.recs),
         NEW h, h = dump.summary.histogram
  PROVE  /\ \A n \in 0 .. Words : Analysis!AtMostOf(h, n) = Analysis!AtMost(R, n)
         /\ h[0] = 0 /\ Analysis!AtMostOf(h, Words) = Cardinality(R)
         /\ WordsIn(h, Words) <= Analysis!Accesses(R)
<1>1. PICK s : s = dump.recs
  OBVIOUS
<1>2. /\ s \in Seq(Analysis!RawRecord) /\ Len(s) \in Nat /\ R = Part(s, 1, Len(s))
      /\ IsFiniteSet(R) /\ R \subseteq Analysis!RawRecord /\ Distinct(R)
  BY <1>1, WholeRecords
<1>3. Words \in Nat
  BY AnalysisAssumption
<1>4. h = [n \in 0 .. Words |-> Cardinality(Touching(R, n))]
  <2>1. Analysis!Histogram(Analysis!Merged(R, 1)) = h
    BY <1>1, WellFormedIs
  <2> QED BY <1>2, <2>1, MergedTouching DEF Distinct
<1>5. \A n \in 0 .. Words : n \in Int /\ Analysis!AtMostOf(h, n) = Cardinality(UpTo(R, n))
  <2>1. ASSUME NEW n \in 0 .. Words
        PROVE  n \in Int /\ Analysis!AtMostOf(h, n) = Cardinality(UpTo(R, n))
    <3>1. n \in Int
      OBVIOUS
    <3>2. Analysis!AtMostOf(h, n) = Sum(h, 0 .. n)
      BY <3>1, AtMostIs
    <3>3. Sum(h, 0 .. n) = Cardinality(UpTo(R, n))
      BY <1>2, <1>4, HistogramAdds
    <3> QED BY <3>1, <3>2, <3>3
  <2> QED BY <2>1
<1>6. \A n : Analysis!AtMost(R, n) = Cardinality(UpTo(R, n))
  BY SetsOfAnalysis DEF Analysis!AtMost, Analysis!Touched, UpTo
<1>7. \A r \in R : /\ IsFiniteSet(r.mask) /\ Cardinality(r.mask) \in Nat /\ Cardinality(r.mask) <= Words
                   /\ r.mask # {} /\ Cardinality(r.mask) <= r.acc /\ r.acc \in Nat
  <2>1. ASSUME NEW r \in R
        PROVE  /\ IsFiniteSet(r.mask) /\ Cardinality(r.mask) \in Nat /\ Cardinality(r.mask) <= Words
               /\ r.mask # {} /\ Cardinality(r.mask) <= r.acc /\ r.acc \in Nat
    <3>1. PICK i \in DOMAIN s : r = s[i]
      BY <1>1 DEF Analysis!SetOf
    <3>2. r.mask # {} /\ Analysis!Touched(r) <= r.acc
      BY <1>1, <3>1, WrittenAssumption
    <3>3. r.acc \in Nat
      BY <1>2 DEF Analysis!RawRecord
    <3> QED BY <1>2, <3>2, <3>3, MaskFinite, SetsOfAnalysis DEF Analysis!Touched
  <2> QED BY <2>1
<1>8. h[0] = 0
  <2>1. Touching(R, 0) = {}
    BY <1>7, FS_EmptySet DEF Touching
  <2>2. h[0] = Cardinality(Touching(R, 0))
    BY <1>3, <1>4
  <2> QED BY <2>1, <2>2, FS_EmptySet
<1>9. UpTo(R, Words) = R
  BY <1>7 DEF UpTo
<1>10. Words \in 0 .. Words
  BY <1>3
<1>11. WordsIn(h, Words) <= Analysis!Accesses(R)
  <2>1. PICK t : t = [r \in R |-> Cardinality(r.mask)]
    OBVIOUS
  <2>2. PICK f : f = [i \in 0 .. Words |-> Sum(t, Touching(R, i))]
    OBVIOUS
  <2>3. \A i \in 0 .. Words : f[i] = i * h[i]
    <3>1. ASSUME NEW i \in 0 .. Words PROVE f[i] = i * h[i]
      <4>1. i \in Nat /\ h[i] = Cardinality(Touching(R, i)) /\ f[i] = Sum(t, Touching(R, i))
        BY <1>4, <2>2
      <4>2. Sum(t, Touching(R, i)) = i * Cardinality(Touching(R, i))
        BY <1>2, <2>1, <4>1, TouchingWords
      <4> QED BY <4>1, <4>2
    <3> QED BY <3>1
  <2>4. WordsIn(h, Words) = Sum(f, 0 .. Words)
    <3>1. Words \in Int
      BY <1>3
    <3> QED BY <2>3, <3>1, WordsOfHistogram
  <2>5. Sum(f, 0 .. Words) = Sum(t, R)
    <3>1. \A i \in 0 .. Words : f[i] = Sum(t, Touching(R, i))
      BY <2>2
    <3> QED BY <1>2, <1>9, <1>10, <2>1, <3>1, WordsAdd
  <2>6. PICK a : a = [r \in R |-> r.acc]
    OBVIOUS
  <2>7. Weighed(a, R) /\ Analysis!Accesses(R) = Sum(a, R)
    <3>1. Accessed(R)
      BY <1>2, <1>7 DEF Accessed
    <3> QED BY <2>6, <3>1, AccessesSum
  <2>8. Weighed(t, R) /\ \A r \in R : t[r] <= a[r]
    BY <1>2, <1>7, <2>1, <2>6 DEF Weighed
  <2>9. Sum(t, R) <= Sum(a, R)
    BY <2>7, <2>8, SumAtMost
  <2> HIDE <2>3
  <2> QED BY <2>4, <2>5, <2>7, <2>9, Zenon
<1>12. Analysis!AtMostOf(h, Words) = Cardinality(R)
  BY <1>5, <1>9, <1>10
<1> QED BY <1>5, <1>6, <1>8, <1>11, <1>12, Zenon

\* What loads all records agrees with the summary.
LEMMA BatchAccepts ==
  ASSUME dump \in Dumps, Analysis!WellFormed(dump), NEW R, R = Analysis!SetOf(dump.recs)
  PROVE  /\ Analysis!Loads(dump)
         /\ \A n \in 0 .. Words :
              Analysis!AtMostOf(dump.summary.histogram, n) = Analysis!AtMost(R, n)
         /\ R # {} => Analysis!ValidHistogram(dump.summary)
<1>1. PICK s : s = dump.recs
  OBVIOUS
<1>2. PICK h : h = dump.summary.histogram
  OBVIOUS
<1>3. /\ ~ dump.cut /\ dump.summary.complete /\ ~ dump.summary.capped
      /\ Len(s) = dump.summary.observations
      /\ Analysis!Accesses(R) = dump.summary.accesses
      /\ Cardinality({s[i].epoch : i \in DOMAIN s}) = dump.summary.epochs
  BY <1>1, WellFormedIs, ZenonT(40)
<1>4. Analysis!Loads(dump)
  BY <1>1, <1>3 DEF Analysis!Loads
<1>5. /\ \A n \in 0 .. Words : Analysis!AtMostOf(h, n) = Analysis!AtMost(R, n)
      /\ h[0] = 0 /\ Analysis!AtMostOf(h, Words) = Cardinality(R)
      /\ WordsIn(h, Words) <= Analysis!Accesses(R)
  BY <1>2, WrittenHistogram
<1>6. ASSUME R # {} PROVE Analysis!ValidHistogram(dump.summary)
  <2>1. s \in Seq(Analysis!RawRecord) /\ Len(s) \in Nat /\ IsFiniteSet(R) /\ Cardinality(R) = Len(s)
    BY <1>1, WholeRecords
  <2>2. dump.summary.observations > 0
    <3>1. Cardinality(R) # 0
      BY <1>6, <2>1, FS_EmptySet
    <3> QED BY <1>3, <2>1, <3>1
  <2>3. dump.summary.epochs >= 1
    <3>1. PICK E : E = {s[i].epoch : i \in DOMAIN s}
      OBVIOUS
    <3>2. IsFiniteSet(E) /\ Cardinality(E) \in Nat
      BY <2>1, <3>1, FinitelyManyEpochs, Zenon
    <3>3. E # {}
      BY <1>1, <1>6, <3>1 DEF Analysis!SetOf
    <3>4. Cardinality(E) # 0
      BY <3>2, <3>3, FS_EmptySet
    <3> QED BY <1>3, <3>1, <3>2, <3>4
  <2>4. Analysis!AtMostOf(h, Words) = dump.summary.observations
    BY <1>3, <1>5, <2>1
  <2>5. dump.summary.histogram[0] = 0
    BY <1>2, <1>5
  <2>6. WordsIn(dump.summary.histogram, Words) <= dump.summary.accesses
    BY <1>2, <1>3, <1>5
  <2>7. Analysis!AtMostOf(dump.summary.histogram, Words) = dump.summary.observations
    BY <1>2, <2>4
  <2> QED BY <2>2, <2>3, <2>5, <2>6, <2>7
          DEF Analysis!ValidHistogram, WordsIn, Analysis!MapThenSumSet, Analysis!MapThenFoldSet
<1> QED BY <1>2, <1>4, <1>5, <1>6

\* Records of the windows from 0 to n.
Numbered(R, n) ==
  /\ n \in Nat /\ Analysis!Epochs(R) = 0 .. n
  /\ \A e \in 0 .. n : IsWindow(Analysis!Window(R, e))

LEMMA EpochsAre ==
  ASSUME NEW R, NEW n, Numbered(R, n)
  PROVE  /\ Analysis!Min(Analysis!Epochs(R)) = 0 /\ Analysis!Later(R) = 1 .. n
         /\ Analysis!First(R) = Analysis!Window(R, 0)
         /\ \A e \in 1 .. n : /\ e - 1 \in 0 .. n
                              /\ Analysis!Max({d \in Analysis!Epochs(R) : d < e}) = e - 1
                              /\ Analysis!Before(R, e) = Analysis!Window(R, e - 1)
<1>1. n \in Nat /\ Analysis!Epochs(R) = 0 .. n
  BY DEF Numbered
<1>2. Analysis!Min(0 .. n) = 0
  <2>1. 0 .. n \subseteq Nat /\ 0 .. n # {} /\ 0 \in 0 .. n
    BY <1>1
  <2>2. Analysis!Min(0 .. n) \in 0 .. n /\ \A x \in 0 .. n : Analysis!Min(0 .. n) <= x
    BY <2>1, MinIs
  <2> QED BY <1>1, <2>1, <2>2
<1>3. (0 .. n) \ {0} = 1 .. n
  BY <1>1
<1>4. ASSUME NEW e \in 1 .. n
      PROVE  e - 1 \in 0 .. n /\ Analysis!Max({d \in 0 .. n : d < e}) = e - 1
  <2>1. PICK S : S = {d \in 0 .. n : d < e}
    OBVIOUS
  <2>2. PICK m : m = e - 1
    OBVIOUS
  <2>3. m \in 0 .. n /\ m \in S /\ \A x \in S : x <= m /\ x \in Int
    BY <1>1, <2>1, <2>2
  <2>4. m \in Int
    BY <1>1, <2>3
  <2>5. PICK x : x = Analysis!Max(S)
    OBVIOUS
  <2>6. x \in S /\ \A y \in S : x >= y
    <3>1. \E z \in S : \A y \in S : z >= y
      BY <2>3, <2>4
    <3> QED BY <2>5, <3>1 DEF Analysis!Max
  <2>7. x = m
    BY <2>3, <2>4, <2>6
  <2> QED BY <2>1, <2>2, <2>3, <2>5, <2>7
<1> QED BY <1>1, <1>2, <1>3, <1>4 DEF Analysis!Later, Analysis!First, Analysis!Before

\* hotset_turnover.py: the transitions between the windows from 0 to n.
TurnedOver(R, n, k) ==
  [e \in 1 .. n |-> Analysis!Transition(Analysis!Window(R, e - 1), Analysis!Window(R, e), k)]

LEMMA TransitionsAre ==
  ASSUME NEW R, NEW n, Numbered(R, n), NEW k
  PROVE  Analysis!Transitions(R, k) = TurnedOver(R, n, k)
<1>1. /\ Analysis!Later(R) = 1 .. n
      /\ \A e \in 1 .. n : Analysis!Before(R, e) = Analysis!Window(R, e - 1)
  BY EpochsAre
<1> QED BY <1>1 DEF Analysis!Transitions, TurnedOver

\* causal_placement.py: the pages in fast memory, window by window.
Selected(R, d, p, e) ==
  IF e = 0 THEN {}
  ELSE IF p = "oracle"
       THEN Analysis!Choice(Analysis!AccessesOf(Analysis!Window(R, e)),
                            Analysis!Capacity(Analysis!Window(R, 0), d))
       ELSE Analysis!Candidates(Analysis!Window(R, e - 1), Analysis!Capacity(Analysis!Window(R, 0), d))[p]
Fast(R, d, p, n) ==
  [e \in 1 .. n |-> Analysis!Landing(Analysis!Window(R, e), Selected(R, d, p, e))]
New(R, d, p, n) ==
  [e \in 1 .. n |-> Cardinality(Selected(R, d, p, e) \ Selected(R, d, p, e - 1))]

LEMMA SelectedIs ==
  ASSUME NEW R, NEW n, Numbered(R, n), NEW d, NEW p
  PROVE  \A e \in 0 .. n : Analysis!Chosen(R, d, p, e) = Selected(R, d, p, e)
<1>1. ASSUME NEW e \in 0 .. n PROVE Analysis!Chosen(R, d, p, e) = Selected(R, d, p, e)
  <2>1. n \in Nat
    BY DEF Numbered
  <2>2. Analysis!Min(Analysis!Epochs(R)) = 0 /\ Analysis!First(R) = Analysis!Window(R, 0)
    BY EpochsAre
  <2>3. e # 0 => Analysis!Before(R, e) = Analysis!Window(R, e - 1)
    <3>1. e # 0 => e \in 1 .. n
      BY <2>1
    <3> QED BY <3>1, EpochsAre
  <2> QED BY <2>2, <2>3 DEF Analysis!Chosen, Selected
<1> QED BY <1>1

LEMMA EvaluatedIs ==
  ASSUME NEW R, NEW n, Numbered(R, n), NEW d, NEW p
  PROVE  Analysis!Evaluated(R, d, p)
           = [fast |-> Sum(Fast(R, d, p, n), 1 .. n), new |-> Sum(New(R, d, p, n), 1 .. n)]
<1>1. PICK S : S = Analysis!Later(R)
  OBVIOUS
<1>2. /\ S = 1 .. n /\ IsFiniteSet(S) /\ n \in Nat
      /\ \A e \in 1 .. n : /\ e - 1 \in 0 .. n
                           /\ Analysis!Max({c \in Analysis!Epochs(R) : c < e}) = e - 1
  <2>1. n \in Int /\ 1 \in Int /\ n \in Nat
    BY DEF Numbered
  <2> QED BY <1>1, <2>1, EpochsAre, FS_Interval
<1>3. \A s \in SUBSET S : s # {} => One(s) \in 1 .. n
  BY <1>2, FS_Subset, LeaveOne
<1>4. \A e \in 1 .. n :
        /\ Analysis!Chosen(R, d, p, e) = Selected(R, d, p, e)
        /\ Analysis!Chosen(R, d, p, Analysis!Max({c \in Analysis!Epochs(R) : c < e}))
             = Selected(R, d, p, e - 1)
  <2>1. \A e \in 1 .. n : e \in 0 .. n
    BY <1>2
  <2> QED BY <1>2, <2>1, SelectedIs
<1>5. Analysis!Evaluated(R, d, p).fast = Sum(Fast(R, d, p, n), S)
  <2>1. PICK f : f = Fast(R, d, p, n)
    OBVIOUS
  <2> DEFINE at(e) == Analysis!Landing(Analysis!Window(R, e), Analysis!Chosen(R, d, p, e))
  <2> DEFINE by(g, s) == IF s = {} THEN 0 ELSE at(One(s)) + g[s \ {One(s)}]
  <2>2. \A e \in 1 .. n : f[e] = at(e)
    BY <1>4, <2>1 DEF Fast
  <2>3. Analysis!Evaluated(R, d, p).fast = (CHOOSE g : g = [s \in SUBSET S |-> by(g, s)])[S]
    BY <1>1 DEF Analysis!Evaluated, Analysis!MapThenSumSet, Analysis!MapThenFoldSet, One
  <2>4. \A s \in SUBSET S : s # {} => f[One(s)] = at(One(s))
    BY <1>3, <2>2
  <2> HIDE DEF at
  <2>5. ASSUME NEW g PROVE SumsOf(g, SUBSET S, f) <=> g = [s \in SUBSET S |-> by(g, s)]
    <3>1. [s \in SUBSET S |-> by(g, s)] =
            [s \in SUBSET S |-> IF s = {} THEN 0 ELSE f[One(s)] + g[s \ {One(s)}]]
      BY <2>4
    <3> QED BY <3>1 DEF SumsOf
  <2>6. PICK g : g = [s \in SUBSET S |-> by(g, s)] /\ Analysis!Evaluated(R, d, p).fast = g[S]
    BY <1>2, <2>3, <2>5, SumsOn
  <2>7. SumsOf(g, SUBSET S, f)
    BY <2>5, <2>6
  <2>8. Sum(f, S) = g[S]
    <3>1. IsFiniteSet(S) /\ S \in SUBSET S
      BY <1>2
    <3> QED BY <2>7, <3>1, SumIs
  <2> QED BY <2>1, <2>6, <2>8
<1>6. Analysis!Evaluated(R, d, p).new = Sum(New(R, d, p, n), S)
  <2>1. PICK f : f = New(R, d, p, n)
    OBVIOUS
  <2> DEFINE at(e) ==
        Analysis!Cardinality(Analysis!Chosen(R, d, p, e) \
          Analysis!Chosen(R, d, p, Analysis!Max({c \in Analysis!Epochs(R) : c < e})))
  <2> DEFINE by(g, s) == IF s = {} THEN 0 ELSE at(One(s)) + g[s \ {One(s)}]
  <2>2. \A e \in 1 .. n : f[e] = at(e)
    BY <1>4, <2>1, SetsOfAnalysis DEF New
  <2>3. Analysis!Evaluated(R, d, p).new = (CHOOSE g : g = [s \in SUBSET S |-> by(g, s)])[S]
    BY <1>1 DEF Analysis!Evaluated, Analysis!MapThenSumSet, Analysis!MapThenFoldSet, One
  <2>4. \A s \in SUBSET S : s # {} => f[One(s)] = at(One(s))
    BY <1>3, <2>2
  <2> HIDE DEF at
  <2>5. ASSUME NEW g PROVE SumsOf(g, SUBSET S, f) <=> g = [s \in SUBSET S |-> by(g, s)]
    <3>1. [s \in SUBSET S |-> by(g, s)] =
            [s \in SUBSET S |-> IF s = {} THEN 0 ELSE f[One(s)] + g[s \ {One(s)}]]
      BY <2>4
    <3> QED BY <3>1 DEF SumsOf
  <2>6. PICK g : g = [s \in SUBSET S |-> by(g, s)] /\ Analysis!Evaluated(R, d, p).new = g[S]
    BY <1>2, <2>3, <2>5, SumsOn
  <2>7. SumsOf(g, SUBSET S, f)
    BY <2>5, <2>6
  <2>8. Sum(f, S) = g[S]
    <3>1. IsFiniteSet(S) /\ S \in SUBSET S
      BY <1>2
    <3> QED BY <2>7, <3>1, SumIs
  <2> QED BY <2>1, <2>6, <2>8
<1>7. Analysis!Evaluated(R, d, p) =
        [fast |-> Analysis!Evaluated(R, d, p).fast, new |-> Analysis!Evaluated(R, d, p).new]
  BY DEF Analysis!Evaluated
<1> QED BY <1>2, <1>5, <1>6, <1>7

LEMMA SumExtends ==
  ASSUME NEW f, NEW g, NEW n \in Nat, NEW m, m = n + 1,
         \A e \in 1 .. n : f[e] = g[e], \A e \in 1 .. m : g[e] \in Nat
  PROVE  Sum(g, 1 .. m) = Sum(f, 1 .. n) + g[m]
<1>1. m \in Int /\ 1 \in Int /\ 1 <= m /\ m - 1 = n /\ m \in 1 .. m
  OBVIOUS
<1>2. Sum(g, 1 .. m) = g[m] + Sum(g, 1 .. m - 1) /\ Weighed(g, 1 .. m - 1)
  BY <1>1, SumOfRange
<1>3. Weighed(g, 1 .. n) /\ Sum(g, 1 .. m) = g[m] + Sum(g, 1 .. n)
  BY <1>1, <1>2
<1>4. Weighed(f, 1 .. n)
  BY <1>3 DEF Weighed
<1>5. Sum(f, 1 .. n) = Sum(g, 1 .. n)
  BY <1>4, SumSame
<1>6. Sum(g, 1 .. n) \in Nat /\ g[m] \in Nat
  BY <1>1, <1>3, SumInNat
<1> QED BY <1>3, <1>5, <1>6

LEMMA SelectedFinite ==
  ASSUME NEW R, NEW n, Numbered(R, n), NEW d \in Divisors, NEW p \in Analysis!AllPolicies,
         NEW e \in 0 .. n
  PROVE  IsFiniteSet(Selected(R, d, p, e))
<1>1. n \in Nat /\ \A x \in 0 .. n : IsWindow(Analysis!Window(R, x))
  BY DEF Numbered
<1>2. PICK first : first = Analysis!Window(R, 0)
  OBVIOUS
<1>3. PICK c \in Nat : c = Analysis!Capacity(first, d)
  <2>1. 0 \in 0 .. n
    BY <1>1
  <2>2. IsFiniteSet(first)
    BY <1>1, <1>2, <2>1 DEF IsWindow
  <2> QED BY <2>2, CapacityInNat
<1>4. CASE e = 0
  BY <1>4, FS_EmptySet DEF Selected
<1>5. CASE e # 0 /\ p = "oracle"
  <2>1. PICK W : W = Analysis!Window(R, e)
    OBVIOUS
  <2>2. IsWindow(W)
    BY <1>1, <2>1
  <2>3. PICK a : a = [r \in W |-> r.acc]
    OBVIOUS
  <2>4. DOMAIN a = W /\ \A r \in W : a[r] \in Nat
    BY <2>2, <2>3, RecordTyped
  <2>5. IsFiniteSet(Analysis!Choice(a, c))
    BY <2>2, <2>4, ChosenFit
  <2> QED BY <1>2, <1>3, <1>5, <2>1, <2>3, <2>5 DEF Selected, Analysis!AccessesOf
<1>6. CASE e # 0 /\ p # "oracle"
  <2>1. PICK W : W = Analysis!Window(R, e - 1)
    OBVIOUS
  <2>2. e - 1 \in 0 .. n
    BY <1>1, <1>6
  <2>3. IsWindow(W)
    BY <1>1, <2>1, <2>2
  <2>4. p \in Analysis!Policies
    BY <1>6 DEF Analysis!AllPolicies
  <2>5. IsFiniteSet(Analysis!Candidates(W, c)[p])
    BY <2>3, <2>4, CandidatesFit
  <2> QED BY <1>2, <1>3, <1>6, <2>1, <2>5 DEF Selected
<1> QED BY <1>4, <1>5, <1>6

\* One more window of records.
Adds(R, n, W, T) ==
  /\ Numbered(R, n) /\ IsWindow(W) /\ W # {} /\ T = R \cup W
  /\ \A r \in W : r.epoch = n + 1

LEMMA WindowsKept ==
  ASSUME NEW R, NEW n, NEW W, NEW T, Adds(R, n, W, T)
  PROVE  /\ n \in Nat /\ Numbered(T, n + 1) /\ Analysis!Window(T, n + 1) = W
         /\ \A e \in 0 .. n : Analysis!Window(T, e) = Analysis!Window(R, e)
<1>1. /\ n \in Nat /\ Analysis!Epochs(R) = 0 .. n /\ IsWindow(W) /\ W # {} /\ T = R \cup W
      /\ \A r \in W : r.epoch = n + 1
      /\ \A e \in 0 .. n : IsWindow(Analysis!Window(R, e))
  BY DEF Adds, Numbered
<1>2. \A r \in R : r.epoch \in 0 .. n
  BY <1>1 DEF Analysis!Epochs
<1>3. n + 1 \notin 0 .. n /\ (0 .. n) \cup {n + 1} = 0 .. n + 1 /\ n + 1 \in Nat
  BY <1>1
<1>4. Analysis!Window(T, n + 1) = W
  BY <1>1, <1>2, <1>3 DEF Analysis!Window
<1>5. \A e \in 0 .. n : Analysis!Window(T, e) = Analysis!Window(R, e)
  BY <1>1, <1>3 DEF Analysis!Window
<1>6. Analysis!Epochs(T) = 0 .. n + 1
  <2>1. Analysis!Epochs(T) = Analysis!Epochs(R) \cup {r.epoch : r \in W}
    BY <1>1 DEF Analysis!Epochs
  <2>2. {r.epoch : r \in W} = {n + 1}
    BY <1>1
  <2> QED BY <1>1, <1>3, <2>1, <2>2
<1>7. \A e \in 0 .. n + 1 : IsWindow(Analysis!Window(T, e))
  <2>1. \A e \in 0 .. n + 1 : e \in 0 .. n \/ e = n + 1
    BY <1>3
  <2> QED BY <1>1, <1>4, <1>5, <2>1
<1> QED BY <1>1, <1>3, <1>4, <1>5, <1>6, <1>7 DEF Numbered

LEMMA AppendToFunction ==
  ASSUME NEW n \in Nat, NEW s, s = [e \in 1 .. n |-> s[e]], NEW t
  PROVE  Append(s, t) = [e \in 1 .. n + 1 |-> IF e = n + 1 THEN t ELSE s[e]]
<1>1. PICK V : V = {s[e] : e \in 1 .. n} \cup {t}
  OBVIOUS
<1>2. DOMAIN s = 1 .. n
  OBVIOUS
<1>3. s \in Seq(V) /\ t \in V
  <2>1. \A e \in 1 .. n : s[e] \in V
    BY <1>1
  <2>2. s \in [1 .. n -> V]
    BY <2>1
  <2>3. s \in Seq(V)
    BY <2>2
  <2> QED BY <1>1, <2>3
<1>4. Len(s) = n
  BY <1>2, <1>3, LenProperties
<1>5. PICK b : b = Append(s, t)
  OBVIOUS
<1>6. b \in Seq(V) /\ Len(b) = n + 1 /\ b[n + 1] = t
  BY <1>3, <1>4, <1>5, AppendProperties
<1>7. \A e \in 1 .. n : b[e] = s[e]
  BY <1>3, <1>4, <1>5, AppendProperties
<1>8. b \in [1 .. n + 1 -> V]
  BY <1>6, LenProperties
<1>9. \A e \in 1 .. n + 1 : b[e] = IF e = n + 1 THEN t ELSE s[e]
  <2> TAKE e \in 1 .. n + 1
  <2>1. CASE e = n + 1
    BY <1>6, <2>1
  <2>2. CASE e # n + 1
    <3>1. e \in 1 .. n
      BY <2>2
    <3> QED BY <1>7, <2>2, <3>1
  <2> QED BY <2>1, <2>2
<1> QED BY <1>5, <1>8, <1>9

LEMMA TurnoverAdds ==
  ASSUME NEW R, NEW n, NEW W, NEW T, Adds(R, n, W, T), NEW k
  PROVE  TurnedOver(T, n + 1, k)
           = Append(TurnedOver(R, n, k), Analysis!Transition(Analysis!Window(R, n), W, k))
<1>1. PICK m : m = n + 1
  OBVIOUS
<1>2. /\ n \in Nat /\ Analysis!Window(T, m) = W
      /\ \A e \in 0 .. n : Analysis!Window(T, e) = Analysis!Window(R, e)
  BY <1>1, WindowsKept
<1>3. /\ \A e \in 1 .. n : e \in 0 .. n /\ e - 1 \in 0 .. n
      /\ m - 1 = n /\ n \in 0 .. n
  BY <1>1, <1>2
<1>4. PICK rows : rows = TurnedOver(R, n, k)
  OBVIOUS
<1>5. PICK t : t = Analysis!Transition(Analysis!Window(R, n), W, k)
  OBVIOUS
<1>6. /\ DOMAIN rows = 1 .. n
      /\ \A e \in 1 .. n :
           rows[e] = Analysis!Transition(Analysis!Window(R, e - 1), Analysis!Window(R, e), k)
  BY <1>4 DEF TurnedOver
<1>7. PICK more : more = TurnedOver(T, m, k)
  OBVIOUS
<1>8. \A e \in 1 .. n : more[e] = rows[e]
  <2>1. \A e \in 1 .. n : e \in 1 .. m
    BY <1>1, <1>2
  <2>2. \A e \in 1 .. n :
          more[e] = Analysis!Transition(Analysis!Window(T, e - 1), Analysis!Window(T, e), k)
    BY <1>7, <2>1 DEF TurnedOver
  <2> QED BY <1>2, <1>3, <1>6, <2>2
<1>9. more[m] = t
  <2>1. m \in 1 .. m
    BY <1>1, <1>2
  <2>2. more[m] = Analysis!Transition(Analysis!Window(T, m - 1), Analysis!Window(T, m), k)
    BY <1>7, <2>1 DEF TurnedOver
  <2> QED BY <1>2, <1>3, <1>5, <2>2
<1>10. DOMAIN more = 1 .. m /\ more = [e \in 1 .. m |-> more[e]]
  BY <1>7 DEF TurnedOver
<1>11. rows = [e \in 1 .. n |-> rows[e]]
  BY <1>6, <1>4 DEF TurnedOver
<1>12. \A e \in 1 .. m : e \in 1 .. n \/ e = m
  BY <1>1, <1>2
<1>13. Append(rows, t) = [e \in 1 .. m |-> IF e = m THEN t ELSE rows[e]]
  BY <1>1, <1>2, <1>11, AppendToFunction
<1>14. \A e \in 1 .. m : more[e] = IF e = m THEN t ELSE rows[e]
  BY <1>8, <1>9, <1>12
<1> QED BY <1>1, <1>4, <1>5, <1>7, <1>10, <1>13, <1>14

LEMMA SelectedKept ==
  ASSUME NEW R, NEW n, NEW W, NEW T, Adds(R, n, W, T), NEW d, NEW p
  PROVE  /\ \A e \in 0 .. n : Selected(T, d, p, e) = Selected(R, d, p, e)
         /\ Selected(T, d, p, n + 1) =
              IF p = "oracle"
              THEN Analysis!Choice(Analysis!AccessesOf(W), Analysis!Capacity(Analysis!Window(R, 0), d))
              ELSE Analysis!Candidates(Analysis!Window(R, n),
                                       Analysis!Capacity(Analysis!Window(R, 0), d))[p]
<1>1. PICK m : m = n + 1
  OBVIOUS
<1>2. /\ n \in Nat /\ Analysis!Window(T, m) = W
      /\ \A e \in 0 .. n : Analysis!Window(T, e) = Analysis!Window(R, e)
  BY <1>1, WindowsKept
<1>3. m # 0 /\ m - 1 = n /\ 0 \in 0 .. n /\ n \in 0 .. n
  BY <1>1, <1>2
<1>4. Analysis!Window(T, 0) = Analysis!Window(R, 0) /\ Analysis!Window(T, m - 1) = Analysis!Window(R, n)
  BY <1>2, <1>3
<1>5. ASSUME NEW e \in 0 .. n PROVE Selected(T, d, p, e) = Selected(R, d, p, e)
  <2>1. e # 0 => e - 1 \in 0 .. n
    BY <1>2
  <2>2. Analysis!Window(T, e) = Analysis!Window(R, e)
    BY <1>2
  <2>3. e # 0 => Analysis!Window(T, e - 1) = Analysis!Window(R, e - 1)
    BY <1>2, <2>1
  <2> QED BY <1>4, <2>2, <2>3 DEF Selected
<1> QED BY <1>1, <1>2, <1>3, <1>4, <1>5 DEF Selected

LEMMA EvaluatedAdds ==
  ASSUME NEW R, NEW n, NEW W, NEW T, Adds(R, n, W, T), NEW d \in Divisors,
         NEW p \in Analysis!AllPolicies, NEW C, C = Selected(T, d, p, n + 1)
  PROVE  /\ Sum(Fast(T, d, p, n + 1), 1 .. n + 1)
              = Sum(Fast(R, d, p, n), 1 .. n) + Analysis!Landing(W, C)
         /\ Sum(New(T, d, p, n + 1), 1 .. n + 1)
              = Sum(New(R, d, p, n), 1 .. n) + Cardinality(C \ Selected(R, d, p, n))
<1>1. PICK m : m = n + 1
  OBVIOUS
<1>2. /\ n \in Nat /\ Numbered(T, m) /\ Analysis!Window(T, m) = W
      /\ \A e \in 0 .. n : Analysis!Window(T, e) = Analysis!Window(R, e)
  BY <1>1, WindowsKept
<1>3. \A e \in 0 .. m : IsWindow(Analysis!Window(T, e))
  BY <1>2 DEF Numbered
<1>4. /\ \A e \in 1 .. n : e \in 0 .. n /\ e - 1 \in 0 .. n /\ e \in 1 .. m
      /\ \A e \in 1 .. m : e \in 0 .. m /\ e - 1 \in 0 .. m
      /\ m \in 1 .. m /\ m - 1 = n /\ n \in 0 .. n
  BY <1>1, <1>2
<1>5. \A e \in 0 .. n : Selected(T, d, p, e) = Selected(R, d, p, e)
  BY SelectedKept
<1>6. \A e \in 0 .. m : IsFiniteSet(Selected(T, d, p, e))
  BY <1>2, SelectedFinite
<1>7. PICK f : f = Fast(R, d, p, n)
  OBVIOUS
<1>8. PICK g : g = Fast(T, d, p, m)
  OBVIOUS
<1>9. \A e \in 1 .. m : g[e] = Analysis!Landing(Analysis!Window(T, e), Selected(T, d, p, e))
  BY <1>8 DEF Fast
<1>10. Sum(g, 1 .. m) = Sum(f, 1 .. n) + g[m]
  <2>1. \A e \in 1 .. n : f[e] = g[e]
    BY <1>2, <1>4, <1>5, <1>7, <1>9 DEF Fast
  <2>2. \A e \in 1 .. m : g[e] \in Nat
    BY <1>3, <1>4, <1>9, LandingInNat
  <2> QED BY <1>1, <1>2, <2>1, <2>2, SumExtends
<1>11. g[m] = Analysis!Landing(W, C)
  BY <1>1, <1>2, <1>4, <1>9
<1>12. PICK u : u = New(R, d, p, n)
  OBVIOUS
<1>13. PICK v : v = New(T, d, p, m)
  OBVIOUS
<1>14. \A e \in 1 .. m : v[e] = Cardinality(Selected(T, d, p, e) \ Selected(T, d, p, e - 1))
  BY <1>13 DEF New
<1>15. Sum(v, 1 .. m) = Sum(u, 1 .. n) + v[m]
  <2>1. \A e \in 1 .. n : u[e] = v[e]
    BY <1>4, <1>5, <1>12, <1>14 DEF New
  <2>2. \A e \in 1 .. m : v[e] \in Nat
    <3>1. ASSUME NEW e \in 1 .. m PROVE v[e] \in Nat
      <4>1. PICK D : D = Selected(T, d, p, e) \ Selected(T, d, p, e - 1)
        OBVIOUS
      <4>2. IsFiniteSet(D)
        BY <1>4, <1>6, <4>1, FS_Subset
      <4> QED BY <1>14, <4>1, <4>2, FS_CardinalityType
    <3> QED BY <3>1
  <2> QED BY <1>1, <1>2, <2>1, <2>2, SumExtends
<1>16. v[m] = Cardinality(C \ Selected(R, d, p, n))
  BY <1>1, <1>4, <1>5, <1>14
<1> QED BY <1>1, <1>7, <1>8, <1>10, <1>11, <1>12, <1>13, <1>15, <1>16

\* Of the windows from 0 to n: what a policy placed.
PlacedBy(R, n, d, p) ==
  [fast |-> Sum(Fast(R, d, p, n), 1 .. n), new |-> Sum(New(R, d, p, n), 1 .. n),
   rounds |-> n, resident |-> Selected(R, d, p, n)]

\* Nothing was yielded yet.
NoneModelled(R) ==
  /\ R = {} /\ reader.last = -1
  /\ \A k \in Ks : sums.turnover[k] = <<>>
  /\ \A d \in Divisors, p \in Analysis!AllPolicies : placed[d][p] = Analysis!Nowhere

\* The records R were, the last window of them before.
SomeModelled(R) ==
  /\ Numbered(R, reader.last) /\ prev = Analysis!Window(R, reader.last)
  /\ \A d \in Divisors : sums.capacity[d] = Analysis!Capacity(Analysis!Window(R, 0), d)
  /\ \A k \in Ks : sums.turnover[k] = TurnedOver(R, reader.last, k)
  /\ ~ sums.saturated =>
       /\ ~ Analysis!IsSaturated(prev)
       /\ \A d \in Divisors, p \in Analysis!AllPolicies : placed[d][p] = PlacedBy(R, reader.last, d, p)

Modelled(R) ==
  /\ sums.sweep = Analysis!Sweep(R)
  /\ prev = {} => NoneModelled(R)
  /\ prev # {} => SomeModelled(R)

Yielded(R, W, T) ==
  /\ IsFiniteSet(R) /\ R \subseteq Analysis!RawRecord /\ T = R \cup W
  /\ IsWindow(W) /\ W # {} /\ \A r \in W : r.epoch = reader.last + 1
  /\ \A r \in R : r.epoch # reader.last + 1
  /\ sums' = Analysis!Counted(W) /\ placed' = Analysis!Place(W) /\ prev' = W
  /\ reader'.last = reader.last + 1

LEMMA SweepAdds ==
  ASSUME NEW R, NEW W, NEW T, Yielded(R, W, T), Modelled(R)
  PROVE  sums'.sweep = Analysis!Sweep(T)
<1>1. Apart(R, W)
  BY DEF Yielded, Apart
<1>2. /\ IsFiniteSet(R) /\ IsFiniteSet(W) /\ R \subseteq Analysis!RawRecord
      /\ W \subseteq Analysis!RawRecord /\ T = R \cup W
  BY DEF Yielded, IsWindow
<1>3. Analysis!Sweep(R \cup W) = Analysis!AddSweep(Analysis!Sweep(R), Analysis!Sweep(W))
  BY <1>1, <1>2, SweepsJoin
<1>4. sums'.sweep = Analysis!AddSweep(sums.sweep, Analysis!Sweep(W))
  BY DEF Yielded, Analysis!Counted
<1> QED BY <1>2, <1>3, <1>4 DEF Modelled

LEMMA FirstModelled ==
  ASSUME NEW R, NEW W, NEW T, Yielded(R, W, T), Modelled(R), prev = {}
  PROVE  Modelled(T)'
<1>1. /\ R = {} /\ reader.last = -1 /\ T = W /\ IsWindow(W) /\ W # {}
      /\ \A r \in W : r.epoch = 0
      /\ sums' = Analysis!Counted(W) /\ placed' = placed /\ prev' = W /\ reader'.last = 0
  BY DEF Yielded, Modelled, NoneModelled, Analysis!Place
<1>2. Analysis!Window(T, 0) = W
  BY <1>1 DEF Analysis!Window
<1>3. Numbered(T, 0)
  <2>1. Analysis!Epochs(T) = {0}
    BY <1>1 DEF Analysis!Epochs
  <2>2. 0 .. 0 = {0} /\ 0 \in Nat
    OBVIOUS
  <2> QED BY <1>1, <1>2, <2>1, <2>2 DEF Numbered
<1>4. \A f : Sum(f, 1 .. 0) = 0
  <2>1. 1 .. 0 = {}
    OBVIOUS
  <2> QED BY <2>1, SumOfNone
<1>5. \A d \in Divisors : sums'.capacity[d] = Analysis!Capacity(W, d)
  BY <1>1 DEF Analysis!Counted
<1>6. \A k \in Ks : sums'.turnover[k] = TurnedOver(T, 0, k)
  <2>1. sums'.turnover = sums.turnover
    BY <1>1 DEF Analysis!Counted
  <2>2. \A k \in Ks : sums'.turnover[k] = <<>>
    BY <2>1 DEF Modelled, NoneModelled
  <2>3. ASSUME NEW k PROVE TurnedOver(T, 0, k) = <<>>
    <3>1. 1 .. 0 = {}
      OBVIOUS
    <3> QED BY <3>1 DEF TurnedOver
  <2> QED BY <2>2, <2>3
<1>7. \A d \in Divisors, p \in Analysis!AllPolicies : placed'[d][p] = PlacedBy(T, 0, d, p)
  <2>1. \A d \in Divisors, p \in Analysis!AllPolicies : placed'[d][p] = Analysis!Nowhere
    BY <1>1 DEF Modelled, NoneModelled
  <2>2. ASSUME NEW d, NEW p PROVE PlacedBy(T, 0, d, p) = Analysis!Nowhere
    <3>1. PICK f : f = Fast(T, d, p, 0)
      OBVIOUS
    <3>2. PICK u : u = New(T, d, p, 0)
      OBVIOUS
    <3>3. Sum(f, 1 .. 0) = 0 /\ Sum(u, 1 .. 0) = 0
      BY <1>4
    <3>4. Selected(T, d, p, 0) = {}
      BY DEF Selected
    <3> QED BY <3>1, <3>2, <3>3, <3>4 DEF PlacedBy, Analysis!Nowhere
  <2> QED BY <2>1, <2>2
<1>8. ~ sums'.saturated => ~ Analysis!IsSaturated(W)
  BY <1>1 DEF Analysis!Counted
<1>9. SomeModelled(T)'
  <2>1. ~ sums'.saturated =>
          /\ ~ Analysis!IsSaturated(prev')
          /\ \A d \in Divisors, p \in Analysis!AllPolicies :
               placed'[d][p] = PlacedBy(T, reader'.last, d, p)
    BY <1>1, <1>7, <1>8
  <2>2. \A d \in Divisors : sums'.capacity[d] = Analysis!Capacity(Analysis!Window(T, 0), d)
    BY <1>2, <1>5
  <2>3. \A k \in Ks : sums'.turnover[k] = TurnedOver(T, reader'.last, k)
    BY <1>1, <1>6
  <2>4. Numbered(T, reader'.last) /\ prev' = Analysis!Window(T, reader'.last)
    BY <1>1, <1>2, <1>3
  <2> QED BY <2>1, <2>2, <2>3, <2>4 DEF SomeModelled
<1>10. sums'.sweep = Analysis!Sweep(T)
  BY SweepAdds
<1> QED BY <1>1, <1>9, <1>10 DEF Modelled

LEMMA NextModelled ==
  ASSUME NEW R, NEW W, NEW T, Yielded(R, W, T), Modelled(R), prev # {}
  PROVE  Modelled(T)'
<1>1. PICK n : n = reader.last
  OBVIOUS
<1>2. PICK m : m = n + 1
  OBVIOUS
<1>3. /\ sums' = Analysis!Counted(W) /\ placed' = Analysis!Place(W) /\ prev' = W
      /\ reader'.last = m /\ W # {}
      /\ Numbered(R, n) /\ prev = Analysis!Window(R, n) /\ Adds(R, n, W, T)
  BY <1>1, <1>2 DEF Yielded, Modelled, SomeModelled, Adds
<1>4. /\ n \in Nat /\ Numbered(T, m) /\ Analysis!Window(T, m) = W
      /\ Analysis!Window(T, 0) = Analysis!Window(R, 0)
  <2>1. /\ n \in Nat /\ Numbered(T, m) /\ Analysis!Window(T, m) = W
        /\ \A e \in 0 .. n : Analysis!Window(T, e) = Analysis!Window(R, e)
    BY <1>2, <1>3, WindowsKept
  <2>2. 0 \in 0 .. n
    BY <2>1
  <2> QED BY <2>1, <2>2
<1>5. \A d \in Divisors : /\ sums.capacity[d] = Analysis!Capacity(Analysis!Window(R, 0), d)
                          /\ sums'.capacity[d] = Analysis!Capacity(Analysis!Window(T, 0), d)
  <2>1. sums'.capacity = sums.capacity
    BY <1>3 DEF Analysis!Counted
  <2> QED BY <1>4, <2>1 DEF Modelled, SomeModelled
<1>6. ASSUME NEW k \in Ks PROVE sums'.turnover[k] = TurnedOver(T, m, k)
  <2>1. sums.turnover[k] = TurnedOver(R, n, k)
    BY <1>1 DEF Modelled, SomeModelled
  <2>2. sums'.turnover[k] = Append(sums.turnover[k], Analysis!Transition(prev, W, k))
    BY <1>3 DEF Analysis!Counted
  <2> QED BY <1>2, <1>3, <2>1, <2>2, TurnoverAdds
<1>7. ASSUME ~ sums'.saturated
      PROVE  /\ ~ Analysis!IsSaturated(W)
             /\ \A d \in Divisors, p \in Analysis!AllPolicies : placed'[d][p] = PlacedBy(T, m, d, p)
  <2>1. ~ sums.saturated /\ ~ Analysis!IsSaturated(W)
    BY <1>3, <1>7 DEF Analysis!Counted
  <2>2. /\ ~ Analysis!IsSaturated(prev)
        /\ \A d \in Divisors, p \in Analysis!AllPolicies : placed[d][p] = PlacedBy(R, n, d, p)
    BY <1>1, <2>1 DEF Modelled, SomeModelled
  <2>3. ASSUME NEW d \in Divisors, NEW p \in Analysis!AllPolicies
        PROVE  placed'[d][p] = PlacedBy(T, m, d, p)
    <3>1. PICK capacity : capacity = sums.capacity[d]
      OBVIOUS
    <3>2. PICK sel : sel = Analysis!Selections(W, capacity)
      OBVIOUS
    <3>3. /\ p \in DOMAIN sel
          /\ sel[p] = IF p = "oracle" THEN Analysis!Oracle(W, capacity)
                      ELSE Analysis!Candidates(prev, capacity)[p]
      BY <2>2, <3>2 DEF Analysis!Selections, Analysis!AllPolicies
    <3>4. PICK C : C = sel[p]
      OBVIOUS
    <3>5. C = Selected(T, d, p, m)
      BY <1>2, <1>3, <1>5, <3>1, <3>3, <3>4, SelectedKept DEF Analysis!Oracle
    <3>6. placed'[d][p] = Analysis!Round(placed[d][p], W, C)
      BY <1>3, <3>1, <3>2, <3>3, <3>4 DEF Analysis!Place
    <3>7. placed[d][p] = PlacedBy(R, n, d, p)
      BY <2>2
    <3>8. /\ Sum(Fast(T, d, p, m), 1 .. m) = Sum(Fast(R, d, p, n), 1 .. n) + Analysis!Landing(W, C)
          /\ Sum(New(T, d, p, m), 1 .. m)
               = Sum(New(R, d, p, n), 1 .. n) + Cardinality(C \ Selected(R, d, p, n))
      BY <1>2, <1>3, <3>5, EvaluatedAdds
    <3>9. placed'[d][p] =
            [fast |-> Sum(Fast(R, d, p, n), 1 .. n) + Analysis!Landing(W, C),
             new |-> Sum(New(R, d, p, n), 1 .. n) + Cardinality(C \ Selected(R, d, p, n)),
             rounds |-> n + 1, resident |-> C]
      BY <3>6, <3>7, SetsOfAnalysis DEF Analysis!Round, PlacedBy
    <3> QED BY <1>2, <3>5, <3>8, <3>9 DEF PlacedBy
  <2> QED BY <2>1, <2>3
<1>8. SomeModelled(T)'
  <2>1. ~ sums'.saturated =>
          /\ ~ Analysis!IsSaturated(prev')
          /\ \A d \in Divisors, p \in Analysis!AllPolicies :
               placed'[d][p] = PlacedBy(T, reader'.last, d, p)
    BY <1>3, <1>7
  <2>2. \A k \in Ks : sums'.turnover[k] = TurnedOver(T, reader'.last, k)
    BY <1>3, <1>6
  <2>3. Numbered(T, reader'.last) /\ prev' = Analysis!Window(T, reader'.last)
    BY <1>3, <1>4
  <2> QED BY <1>5, <2>1, <2>2, <2>3 DEF SomeModelled
<1>9. sums'.sweep = Analysis!Sweep(T)
  BY SweepAdds
<1> QED BY <1>3, <1>8, <1>9 DEF Modelled

(***************************************************************************)
(* Means of shares.  Where every share has the same denominator t, so has   *)
(* their sum: the mean of a[x] of t is the sum of a of t times their number.*)
(***************************************************************************)
SharesOf(g, F, f) ==
  g = [s \in F |-> IF s = {} THEN <<0, 1>> ELSE Analysis!AddShares(f[One(s)], g[s \ {One(s)}])]

LEMMA SharesExist ==
  ASSUME NEW S, IsFiniteSet(S), NEW f, NEW n \in Nat
  PROVE  \E g : SharesOf(g, PartsUpTo(S, n), f)
<1>1. \A s \in SUBSET S : IsFiniteSet(s) /\ Cardinality(s) \in Nat
  BY FS_Subset, FS_CardinalityType
<1> DEFINE Bad == {m \in Nat : ~ \E g : SharesOf(g, PartsUpTo(S, m), f)}
<1>2. SUFFICES ASSUME Bad # {} PROVE FALSE
  BY <1>2
<1>3. PICK m \in Bad : \A x \in Bad : m <= x
  BY <1>2, LeastOf
<1>4. CASE m = 0
  <2> DEFINE g == [s \in PartsUpTo(S, 0) |-> <<0, 1>>]
  <2>1. \A s \in PartsUpTo(S, 0) : s = {}
    BY <1>1, FS_EmptySet DEF PartsUpTo
  <2>2. SharesOf(g, PartsUpTo(S, 0), f)
    BY <2>1 DEF SharesOf
  <2> QED BY <1>4, <2>2
<1>5. CASE m # 0
  <2>1. m \in Nat /\ m - 1 \in Nat /\ m - 1 < m
    BY <1>5
  <2>2. PICK g : SharesOf(g, PartsUpTo(S, m - 1), f)
    BY <1>3, <2>1
  <2> DEFINE next(s) ==
        IF s = {} THEN <<0, 1>> ELSE Analysis!AddShares(f[One(s)], g[s \ {One(s)}])
  <2> DEFINE h == [s \in PartsUpTo(S, m) |-> next(s)]
  <2>3. \A s \in PartsUpTo(S, m - 1) : g[s] = next(s)
    BY <2>2 DEF SharesOf
  <2>4. PartsUpTo(S, m - 1) \subseteq PartsUpTo(S, m)
    BY <1>1, <2>1 DEF PartsUpTo
  <2>5. ASSUME NEW s \in PartsUpTo(S, m), s # {} PROVE s \ {One(s)} \in PartsUpTo(S, m - 1)
    BY <1>1, <2>1, <2>5, LeaveOne DEF PartsUpTo
  <2>6. \A s \in PartsUpTo(S, m) : s # {} => h[s \ {One(s)}] = g[s \ {One(s)}]
    BY <2>3, <2>4, <2>5
  <2>7. SharesOf(h, PartsUpTo(S, m), f)
    <3>1. \A s \in PartsUpTo(S, m) :
            next(s) = IF s = {} THEN <<0, 1>> ELSE Analysis!AddShares(f[One(s)], h[s \ {One(s)}])
      BY <2>6
    <3> QED BY <3>1 DEF SharesOf
  <2> QED BY <2>7
<1> QED BY <1>4, <1>5

LEMMA MeanIs ==
  ASSUME NEW S, IsFiniteSet(S), NEW f, DOMAIN f = S
  PROVE  \E g : /\ SharesOf(g, SUBSET S, f)
                /\ Analysis!Mean(f) = <<g[S][1], g[S][2] * Cardinality(S)>>
<1>1. \A s \in SUBSET S : Cardinality(s) <= Cardinality(S)
  BY FS_Subset
<1>2. PICK n : n = Cardinality(S)
  OBVIOUS
<1>3. n \in Nat
  BY <1>2, FS_CardinalityType
<1>4. \E g : SharesOf(g, SUBSET S, f)
  <2>1. PartsUpTo(S, n) = SUBSET S
    BY <1>1, <1>2 DEF PartsUpTo
  <2>2. \E g : SharesOf(g, PartsUpTo(S, n), f)
    BY <1>3, SharesExist
  <2> QED BY <2>1, <2>2
<1>5. PICK sum : sum = Analysis!FoldFunction(Analysis!AddShares, <<0, 1>>, f)
  OBVIOUS
<1>6. sum = (CHOOSE g : SharesOf(g, SUBSET S, f))[S]
  BY <1>5 DEF Analysis!FoldFunction, Analysis!FoldFunctionOnSet, Analysis!MapThenFoldSet,
              One, SharesOf
<1>7. PICK g : SharesOf(g, SUBSET S, f) /\ sum = g[S]
  BY <1>4, <1>6
<1>8. Analysis!Mean(f) = <<sum[1], sum[2] * Cardinality(S)>>
  BY <1>5, SetsOfAnalysis DEF Analysis!Mean
<1> QED BY <1>7, <1>8

LEMMA MeanOfNone ==
  ASSUME NEW f, DOMAIN f = {}
  PROVE  Analysis!Mean(f) = <<0, 0>>
<1>1. IsFiniteSet({}) /\ Cardinality({}) = 0
  BY FS_EmptySet
<1>2. PICK g : /\ SharesOf(g, SUBSET {}, f)
               /\ Analysis!Mean(f) = <<g[{}][1], g[{}][2] * Cardinality({})>>
  BY <1>1, MeanIs
<1>3. g[{}] = <<0, 1>>
  BY <1>2 DEF SharesOf
<1> QED BY <1>1, <1>2, <1>3

LEMMA Distributed ==
  ASSUME NEW a \in Int, NEW t \in Int, NEW b \in Int, NEW p \in Int, NEW q \in Int,
         p * t = b * q
  PROVE  (a * q + p * t) * t = (a + b) * (t * q)
<1>1. PICK y \in Int : y = b * q
  OBVIOUS
<1>2. PICK x \in Int : x = a * q
  OBVIOUS
<1>3. (a + b) * q = x + y
  BY <1>1, <1>2
<1>4. (a + b) * (t * q) = ((a + b) * q) * t
  OBVIOUS
<1> QED BY <1>1, <1>2, <1>3, <1>4

LEMMA MeanOfEqual ==
  ASSUME NEW S, NEW a, Weighed(a, S), NEW t \in Nat, NEW f,
         DOMAIN f = S, \A x \in S : f[x] = <<a[x], t>>
  PROVE  Analysis!SameShare(<<Sum(a, S), t * Cardinality(S)>>, Analysis!Mean(f))
<1>1. \A s \in SUBSET S : IsFiniteSet(s) /\ Weighed(a, s) /\ Sum(a, s) \in Nat
  BY FS_Subset, SumInNat DEF Weighed
<1>2. PICK g : /\ SharesOf(g, SUBSET S, f)
               /\ Analysis!Mean(f) = <<g[S][1], g[S][2] * Cardinality(S)>>
  BY <1>1, MeanIs
<1> DEFINE Fine(s) == \E p, q \in Nat : g[s] = <<p, q>> /\ p * t = Sum(a, s) * q
<1> DEFINE Bad == {s \in SUBSET S : ~ Fine(s)}
<1>3. ASSUME Bad # {} PROVE FALSE
  <2>1. PICK s \in Bad : \A u \in Bad : Cardinality(s) <= Cardinality(u)
    BY <1>1, <1>3, SmallestSet
  <2>2. s \subseteq S /\ ~ Fine(s)
    OBVIOUS
  <2>3. s # {}
    <3>1. g[{}] = <<0, 1>>
      BY <1>2 DEF SharesOf
    <3>2. Sum(a, {}) = 0 /\ 0 * t = 0 * 1
      BY SumOfNone
    <3>3. Fine({})
      BY <3>1, <3>2
    <3> QED BY <2>2, <3>3
  <2>4. PICK x : x = One(s)
    OBVIOUS
  <2>5. PICK u : u = s \ {x}
    OBVIOUS
  <2>6. /\ x \in s /\ x \in S /\ u \subseteq S /\ Cardinality(u) = Cardinality(s) - 1
        /\ Cardinality(s) \in Nat
    BY <1>1, <2>2, <2>3, <2>4, <2>5, LeaveOne
  <2>7. ~ (Cardinality(s) <= Cardinality(u))
    BY <2>6
  <2>8. Fine(u)
    BY <2>1, <2>6, <2>7
  <2>9. PICK p \in Nat, q \in Nat : g[u] = <<p, q>> /\ p * t = Sum(a, u) * q
    BY <2>8
  <2>10. g[s] = Analysis!AddShares(f[x], g[u])
    BY <1>2, <2>2, <2>3, <2>4, <2>5 DEF SharesOf
  <2>11. a[x] \in Nat /\ f[x] = <<a[x], t>>
    BY <2>6 DEF Weighed
  <2>12. g[s] = <<a[x] * q + p * t, t * q>>
    BY <2>9, <2>10, <2>11 DEF Analysis!AddShares
  <2>13. PICK b \in Nat : b = Sum(a, u)
    BY <1>1, <2>6
  <2>14. Sum(a, s) = a[x] + b
    BY <1>1, <2>2, <2>5, <2>6, <2>13, SumWithout
  <2>15. (a[x] * q + p * t) * t = (a[x] + b) * (t * q)
    BY <2>9, <2>11, <2>13, Distributed
  <2>16. a[x] * q + p * t \in Nat /\ t * q \in Nat
    BY <2>11
  <2> QED BY <2>2, <2>12, <2>14, <2>15, <2>16
<1>4. S \notin Bad /\ S \in SUBSET S
  BY <1>3
<1>5. PICK p \in Nat, q \in Nat : g[S] = <<p, q>> /\ p * t = Sum(a, S) * q
  BY <1>4
<1>6. PICK n \in Nat : n = Cardinality(S)
  BY <1>1, FS_CardinalityType
<1>7. PICK b \in Nat : b = Sum(a, S)
  BY <1>1
<1>8. b * (q * n) = p * (t * n)
  <2>1. b * (q * n) = (b * q) * n /\ p * (t * n) = (p * t) * n
    OBVIOUS
  <2> QED BY <1>5, <1>7, <2>1
<1>9. Analysis!Mean(f) = <<p, q * n>>
  BY <1>2, <1>5, <1>6
<1> QED BY <1>6, <1>7, <1>8, <1>9 DEF Analysis!SameShare

\* The library's sum of a function.
LEMMA SumFunctionIs ==
  ASSUME NEW f
  PROVE  Analysis!SumFunction(f) = Sum(f, DOMAIN f)
BY DEF Analysis!SumFunction, Analysis!SumFunctionOnSet, Analysis!FoldFunctionOnSet,
       Analysis!MapThenFoldSet, Sum, SumsOf, One

\* If all windows have t accesses, the share of the sums is the mean of the shares,
\* of which there are none if t is 0.
LEMMA SharesAgree ==
  ASSUME NEW S, NEW a, Weighed(a, S), DOMAIN a = S, NEW w, DOMAIN w = S, NEW t \in Nat,
         \A x \in S : w[x] = t,
         NEW f, DOMAIN f = {x \in S : w[x] # 0}, \A x \in DOMAIN f : f[x] = <<a[x], t>>
  PROVE  Analysis!SameShare(<<Analysis!SumFunction(a), Analysis!SumFunction(w)>>,
                            Analysis!Mean(f))
<1>1. /\ IsFiniteSet(S) /\ Cardinality(S) \in Nat /\ Sum(a, S) \in Nat
      /\ Analysis!SumFunction(a) = Sum(a, S) /\ Analysis!SumFunction(w) = t * Cardinality(S)
  BY SumFunctionIs, SumInNat, SumOfConstant, FS_CardinalityType DEF Weighed
<1>2. CASE t = 0
  <2>1. DOMAIN f = {}
    BY <1>2
  <2>2. Analysis!Mean(f) = <<0, 0>>
    BY <2>1, MeanOfNone
  <2>3. t * Cardinality(S) = 0
    BY <1>1, <1>2
  <2>4. PICK b \in Nat : b = Sum(a, S)
    BY <1>1
  <2> QED BY <1>1, <2>2, <2>3, <2>4 DEF Analysis!SameShare
<1>3. CASE t # 0
  <2>1. DOMAIN f = S
    BY <1>3
  <2> QED BY <1>1, <2>1, MeanOfEqual
<1> QED BY <1>2, <1>3

LEMMA RowsTyped ==
  ASSUME NEW R, NEW n, Numbered(R, n), NEW k \in Nat
  PROVE  \A e \in 1 .. n : /\ TurnedOver(R, n, k)[e] \in Row
                           /\ TurnedOver(R, n, k)[e].total = Analysis!Accesses(Analysis!Window(R, e))
<1> TAKE e \in 1 .. n
<1>1. IsWindow(Analysis!Window(R, e - 1)) /\ IsWindow(Analysis!Window(R, e))
  <2>1. e - 1 \in 0 .. n /\ e \in 0 .. n
    BY DEF Numbered
  <2> QED BY <2>1 DEF Numbered
<1>2. PICK t : t = Analysis!Transition(Analysis!Window(R, e - 1), Analysis!Window(R, e), k)
  OBVIOUS
<1>3. TurnedOver(R, n, k)[e] = t
  BY <1>2 DEF TurnedOver
<1>4. t \in Row
  BY <1>1, <1>2, TransitionCounts
<1>5. t.total = Analysis!Accesses(Analysis!Window(R, e))
  BY <1>2 DEF Analysis!Transition
<1> QED BY <1>3, <1>4, <1>5

LEMMA TurnoverAgrees ==
  ASSUME NEW R, NEW n, Numbered(R, n), NEW k \in Ks, sums.turnover[k] = TurnedOver(R, n, k)
  PROVE  Analysis!SameTurnover(R, k)
<1>1. PICK rows : rows = sums.turnover[k]
  OBVIOUS
<1>2. PICK S : S = 1 .. n
  OBVIOUS
<1>3. /\ n \in Nat /\ Analysis!Epochs(R) = 0 .. n /\ Analysis!Later(R) = S /\ k \in Nat
      /\ IsFiniteSet(S)
  <2>1. n \in Nat /\ Analysis!Epochs(R) = 0 .. n
    BY DEF Numbered
  <2>2. Analysis!Later(R) = S
    BY <1>2, EpochsAre
  <2>3. k \in Nat
    BY AnalysisAssumption
  <2>4. IsFiniteSet(1 .. n)
    BY <2>1, FS_Interval
  <2> QED BY <1>2, <2>1, <2>2, <2>3, <2>4
<1>4. Analysis!Transitions(R, k) = rows /\ DOMAIN rows = S
  BY <1>1, <1>2, TransitionsAre DEF TurnedOver
<1>5. \A e \in S : rows[e] \in Row /\ rows[e].total = Analysis!Accesses(Analysis!Window(R, e))
  BY <1>1, <1>2, <1>3, RowsTyped
<1>6. Analysis!TurnoverReport(k).transitions = Analysis!Cardinality(Analysis!Epochs(R)) - 1
  <2>1. Len(rows) = n
    BY <1>2, <1>3, <1>4
  <2>2. Cardinality(0 .. n) = n + 1
    BY <1>3, FS_Interval
  <2> QED BY <1>1, <1>3, <2>1, <2>2, SetsOfAnalysis DEF Analysis!TurnoverReport
<1>7. Analysis!TurnoverReport(k).retention = Analysis!Turnover(R, k).retention
  BY <1>1, <1>3, <1>4 DEF Analysis!TurnoverReport, Analysis!Turnover
<1>8. ASSUME \A d, e \in S :
               Analysis!Accesses(Analysis!Window(R, d)) = Analysis!Accesses(Analysis!Window(R, e))
      PROVE  /\ Analysis!SameShare(Analysis!TurnoverReport(k).coverage, Analysis!Turnover(R, k).coverage)
             /\ Analysis!SameShare(Analysis!TurnoverReport(k).oracle,
                                   Analysis!Turnover(R, k).concentration)
  <2>1. PICK t \in Nat : \A e \in S : rows[e].total = t
    <3>1. CASE S = {}
      BY <3>1
    <3>2. CASE S # {}
      <4>1. PICK d \in S : TRUE
        BY <3>2
      <4>2. rows[d].total \in Nat
        BY <1>5 DEF Row
      <4> QED BY <1>5, <1>8, <4>2
    <3> QED BY <3>1, <3>2
  <2>2. PICK w : w = [e \in S |-> rows[e].total]
    OBVIOUS
  <2>3. PICK busy : busy = {e \in S : rows[e].total # 0}
    OBVIOUS
  <2>4. DOMAIN w = S /\ (\A e \in S : w[e] = t) /\ busy = {e \in S : w[e] # 0}
    BY <2>1, <2>2, <2>3
  <2>5. PICK a : a = [e \in S |-> rows[e].late]
    OBVIOUS
  <2>6. PICK f : f = [e \in busy |-> <<rows[e].late, rows[e].total>>]
    OBVIOUS
  <2>7. Analysis!SameShare(<<Analysis!SumFunction(a), Analysis!SumFunction(w)>>, Analysis!Mean(f))
    <3>1. Weighed(a, S) /\ DOMAIN a = S
      BY <1>3, <1>5, <2>5 DEF Weighed, Row
    <3>2. DOMAIN f = {e \in S : w[e] # 0} /\ \A e \in DOMAIN f : f[e] = <<a[e], t>>
      BY <2>1, <2>3, <2>4, <2>5, <2>6
    <3> QED BY <2>4, <3>1, <3>2, SharesAgree
  <2>8. PICK b : b = [e \in S |-> rows[e].own]
    OBVIOUS
  <2>9. PICK h : h = [e \in busy |-> <<rows[e].own, rows[e].total>>]
    OBVIOUS
  <2>10. Analysis!SameShare(<<Analysis!SumFunction(b), Analysis!SumFunction(w)>>, Analysis!Mean(h))
    <3>1. Weighed(b, S) /\ DOMAIN b = S
      BY <1>3, <1>5, <2>8 DEF Weighed, Row
    <3>2. DOMAIN h = {e \in S : w[e] # 0} /\ \A e \in DOMAIN h : h[e] = <<b[e], t>>
      BY <2>1, <2>3, <2>4, <2>8, <2>9
    <3> QED BY <2>4, <3>1, <3>2, SharesAgree
  <2>11. /\ Analysis!TurnoverReport(k).coverage = <<Analysis!SumFunction(a), Analysis!SumFunction(w)>>
         /\ Analysis!TurnoverReport(k).oracle = <<Analysis!SumFunction(b), Analysis!SumFunction(w)>>
    BY <1>1, <1>4, <2>2, <2>5, <2>8 DEF Analysis!TurnoverReport
  <2>12. /\ Analysis!Turnover(R, k).coverage = Analysis!Mean(f)
         /\ Analysis!Turnover(R, k).concentration = Analysis!Mean(h)
    BY <1>3, <1>4, <2>3, <2>6, <2>9 DEF Analysis!Turnover
  <2> QED BY <2>7, <2>10, <2>11, <2>12
<1> QED BY <1>1, <1>3, <1>4, <1>6, <1>7, <1>8 DEF Analysis!SameTurnover

AgreeInv ==
  /\ ModelsAgree
  /\ verdict = "none" => Modelled(Part(dump.recs, 1, sums.observed))

LEMMA AgreeBegins == Init => AgreeInv
<1> SUFFICES ASSUME Init PROVE AgreeInv
  OBVIOUS
<1>1. Analysis!Fresh /\ verdict # "validated"
  BY DEF Init, NothingToAnalyse, Analysis!Init, Analysis!Open
<1>2. PICK R : R = Part(dump.recs, 1, sums.observed)
  OBVIOUS
<1>3. R = {}
  <2>1. 1 .. 0 = {} /\ sums.observed = 0
    BY <1>1 DEF Analysis!Fresh, Analysis!NoSums
  <2> QED BY <1>2, <2>1 DEF Part
<1>4. sums.sweep = Analysis!Sweep(R)
  BY <1>1, <1>3, NoSweep DEF Analysis!Fresh, Analysis!NoSums
<1>5. NoneModelled(R) /\ prev = {}
  BY <1>1, <1>3 DEF NoneModelled, Analysis!Fresh, Analysis!NoSums
<1> QED BY <1>1, <1>2, <1>4, <1>5 DEF AgreeInv, Modelled, ModelsAgree, Analysis!ModelsAgree

LEMMA ReadAgrees ==
  ASSUME AgreeInv, ReaderTypes, Analysis!Read
  PROVE  AgreeInv'
<1>1. UNCHANGED <<dump, sums, prev, placed>> /\ verdict = "none" /\ verdict' # "validated"
  BY DEF Analysis!Read
<1>2. reader'.last = reader.last
  BY DEF Analysis!Read, ReaderTypes
<1>3. ModelsAgree'
  BY <1>1 DEF ModelsAgree, Analysis!ModelsAgree
<1>4. PICK R : R = Part(dump.recs, 1, sums.observed)
  OBVIOUS
<1>5. Modelled(R)
  BY <1>1, <1>4 DEF AgreeInv
<1>6. Modelled(R)'
  BY <1>1, <1>2, <1>5 DEF Modelled, NoneModelled, SomeModelled
<1> QED BY <1>1, <1>3, <1>4, <1>6 DEF AgreeInv

\* What a window that passes adds to the records before it.
LEMMA YieldedIs ==
  ASSUME WholeInv, Analysis!Yield, verdict' = "none", NEW s, s = dump.recs
  PROVE  \E W : Yielded(Part(s, 1, sums.observed), W, Part(s, 1, sums'.observed))
<1>1. Analysis!Yields /\ verdict = "none" /\ ReaderTypes
  BY DEF Analysis!Yield, WholeInv
<1>2. PICK c : Streaming(s, c)
  BY <1>1 DEF WholeInv
<1>3. PICK e : e = Analysis!WindowEnd
  OBVIOUS
<1>4. PICK t : t = SubSeq(reader.pending, 1, e)
  OBVIOUS
<1>5. PICK W : W = Analysis!SetOf(t)
  OBVIOUS
<1>6. /\ t[1].epoch = reader.last + 1 /\ Analysis!Consistent(t)
      /\ sums' = Analysis!Counted(W) /\ placed' = Analysis!Place(W) /\ prev' = W
      /\ reader' = [reader EXCEPT !.last = @ + 1,
                      !.pending = SubSeq(@, Analysis!WindowEnd + 1, Len(@))]
  BY <1>3, <1>4, <1>5 DEF Analysis!Yield
<1>7. reader'.last = reader.last + 1
  <2>1. reader \in [pos : Nat, pending : Seq(Analysis!RawRecord), last : Int, eof : BOOLEAN]
    BY <1>1 DEF ReaderTypes
  <2> QED BY <1>6, <2>1
<1>8. PendingAre(s, c) /\ WindowsRead(s, c, reader.last) /\ TotalsOf(s, c)
  BY <1>2 DEF Streaming
<1>9. /\ s \in Seq(Analysis!RawRecord) /\ Len(s) \in Nat /\ reader.last \in Int
      /\ c \in Nat /\ c <= Len(s) /\ sums.observed = c
  <2>1. s \in Seq(Analysis!RawRecord) /\ reader.last \in Int
    BY <1>1, AnalysisAssumption DEF ReaderTypes
  <2>2. Len(s) \in Nat
    BY <2>1
  <2> QED BY <1>8, <2>1, <2>2 DEF WindowsRead, TotalsOf
<1>10. /\ e \in 1 .. Len(reader.pending) /\ c + e <= Len(s)
       /\ \A i \in c + 1 .. c + e : s[i].epoch = s[c + 1].epoch
  BY <1>1, <1>3, <1>8, NextWindowEnds
<1>11. /\ W = Part(s, c + 1, c + e) /\ t[1] = s[c + 1]
       /\ Analysis!Consistent(t) <=> Passes(s, c + 1, c + e)
  BY <1>1, <1>3, <1>4, <1>5, <1>8, NextWindowIs, ZenonT(40)
<1>12. IsWindow(W) /\ W # {}
  BY <1>1, <1>3, <1>4, <1>5, <1>6, WindowYielded
<1>13. PICK d : d = c + e
  OBVIOUS
<1>14. d \in Nat /\ c < d /\ d <= Len(s)
  <2>1. e \in Nat /\ e >= 1
    BY <1>10
  <2> QED BY <1>9, <1>10, <1>13, <2>1
<1>15. sums'.observed = d
  <2>1. \A i, j \in c + 1 .. d : s[i].page = s[j].page => i = j
    BY <1>6, <1>11, <1>13 DEF Passes
  <2>2. Cardinality(W) = d - c
    BY <1>9, <1>11, <1>13, <1>14, <2>1, PartCardinality, SMTT(30)
  <2>3. sums'.observed = c + Cardinality(W)
    BY <1>6, <1>9, SetsOfAnalysis DEF Analysis!Counted
  <2> QED BY <1>9, <1>14, <2>2, <2>3
<1>16. PICK R : R = Part(s, 1, c)
  OBVIOUS
<1>17. PICK T : T = Part(s, 1, d)
  OBVIOUS
<1>18. T = R \cup W
  <2>1. 1 .. d = (1 .. c) \cup (c + 1 .. d)
    BY <1>9, <1>14
  <2> QED BY <1>11, <1>13, <1>16, <1>17, <2>1 DEF Part
<1>19. \A r \in W : r.epoch = reader.last + 1
  BY <1>6, <1>10, <1>11 DEF Part
<1>20. \A r \in R : r.epoch # reader.last + 1
  <2>1. \A r \in R : r.epoch \in 0 .. reader.last
    BY <1>8, <1>16 DEF WindowsRead, Part
  <2> QED BY <1>9, <2>1
<1>21. IsFiniteSet(R) /\ R \subseteq Analysis!RawRecord
  BY <1>9, <1>16, PartFinite
<1>22. Yielded(R, W, T)
  BY <1>6, <1>7, <1>12, <1>18, <1>19, <1>20, <1>21 DEF Yielded
<1> QED BY <1>9, <1>15, <1>16, <1>17, <1>22

LEMMA YieldAgrees ==
  ASSUME AgreeInv, WholeInv, Analysis!Yield
  PROVE  AgreeInv'
<1>1. dump' = dump /\ verdict = "none" /\ verdict' \in {"none", "error"}
  BY DEF Analysis!Yield
<1>2. ModelsAgree'
  BY <1>1 DEF ModelsAgree, Analysis!ModelsAgree
<1>3. ASSUME verdict' = "none"
      PROVE  Modelled(Part(dump.recs, 1, sums.observed))'
  <2>1. PICK s : s = dump.recs
    OBVIOUS
  <2>2. PICK W : Yielded(Part(s, 1, sums.observed), W, Part(s, 1, sums'.observed))
    BY <1>3, <2>1, YieldedIs
  <2>3. PICK R : R = Part(s, 1, sums.observed)
    OBVIOUS
  <2>4. PICK T : T = Part(s, 1, sums'.observed)
    OBVIOUS
  <2>5. Yielded(R, W, T) /\ Modelled(R)
    BY <1>1, <2>1, <2>2, <2>3, <2>4 DEF AgreeInv
  <2>6. Modelled(T)'
    BY <2>5, FirstModelled, NextModelled
  <2> QED BY <1>1, <2>1, <2>4, <2>6
<1> QED BY <1>2, <1>3 DEF AgreeInv

LEMMA ConcludeAgrees ==
  ASSUME AgreeInv, WholeInv, WholeInv', Analysis!Conclude
  PROVE  AgreeInv'
<1>1. UNCHANGED <<dump, reader, sums, prev, placed>> /\ verdict = "none" /\ verdict' \in {"validated", "error"}
  BY DEF Analysis!Conclude
<1>2. SUFFICES ASSUME verdict' = "validated" PROVE ModelsAgree'
  BY <1>1 DEF AgreeInv, ModelsAgree, Analysis!ModelsAgree
<1>3. Analysis!WellFormed(dump) /\ dump \in Dumps
  BY <1>1, <1>2 DEF WholeInv, ReaderTypes, ValidatedIsWhole, Analysis!ValidatedIsWhole
<1>4. PICK s : s = dump.recs
  OBVIOUS
<1>5. PICK R : R = Analysis!SetOf(s)
  OBVIOUS
<1>6. /\ Len(s) \in Nat /\ R = Part(s, 1, Len(s)) /\ IsFiniteSet(R)
      /\ R \subseteq Analysis!RawRecord /\ Distinct(R)
  BY <1>3, <1>4, <1>5, WholeRecords
<1>7. PICK c : Streaming(s, c)
  BY <1>1, <1>4 DEF WholeInv
<1>8. sums.observed = Len(s) /\ sums.count = reader.last + 1
  <2>1. sums.observed = dump.summary.observations
    BY <1>2 DEF Analysis!Conclude
  <2>2. Len(s) = dump.summary.observations
    BY <1>3, <1>4, WellFormedIs
  <2> QED BY <1>7, <2>1, <2>2 DEF Streaming, TotalsOf
<1>9. Modelled(R)
  BY <1>1, <1>4, <1>6, <1>8 DEF AgreeInv
<1>10. /\ Analysis!Loads(dump)
       /\ \A n \in 0 .. Words :
            Analysis!AtMostOf(dump.summary.histogram, n) = Analysis!AtMost(R, n)
       /\ R # {} => Analysis!ValidHistogram(dump.summary)
  BY <1>3, <1>4, <1>5, BatchAccepts
<1>11. sums.sweep = Analysis!Sweep(R)
  BY <1>9 DEF Modelled
<1>12. <<1, 1>> \in Analysis!Sizes =>
         Analysis!Wasted(R) = Words * sums.sweep[<<1, 1>>].pages - sums.sweep[<<1, 1>>].touched
  BY <1>6, <1>11, WastedIs
<1>13. ASSUME R # {}
       PROVE  /\ \A k \in Ks : Analysis!SameTurnover(R, k)
              /\ ~ sums.saturated =>
                   \A d \in Divisors, p \in Analysis!AllPolicies :
                     /\ Analysis!Reported(p)
                     /\ [fast |-> placed[d][p].fast, new |-> placed[d][p].new]
                          = Analysis!Evaluated(R, d, p)
  <2>1. SomeModelled(R)
    BY <1>9, <1>13 DEF Modelled, NoneModelled
  <2>2. PICK n : n = reader.last
    OBVIOUS
  <2>3. Numbered(R, n) /\ n \in Nat
    BY <2>1, <2>2 DEF SomeModelled, Numbered
  <2>4. \A k \in Ks : Analysis!SameTurnover(R, k)
    BY <2>1, <2>2, <2>3, TurnoverAgrees DEF SomeModelled
  <2>5. ASSUME ~ sums.saturated, NEW d \in Divisors, NEW p \in Analysis!AllPolicies
        PROVE  /\ Analysis!Reported(p)
               /\ [fast |-> placed[d][p].fast, new |-> placed[d][p].new] = Analysis!Evaluated(R, d, p)
    <3>1. \A x \in Divisors : placed[x][p] = PlacedBy(R, n, x, p)
      BY <2>1, <2>2, <2>5 DEF SomeModelled
    <3>2. sums.count - 1 = n
      BY <1>8, <2>2, <2>3
    <3>5. ASSUME NEW x \in Divisors
          PROVE  /\ placed[x][p].rounds = n
                 /\ placed[x][p].fast = Sum(Fast(R, x, p, n), 1 .. n)
                 /\ placed[x][p].new = Sum(New(R, x, p, n), 1 .. n)
      <4>1. PICK a : a = Sum(Fast(R, x, p, n), 1 .. n)
        OBVIOUS
      <4>2. PICK b : b = Sum(New(R, x, p, n), 1 .. n)
        OBVIOUS
      <4>3. PICK in : in = Selected(R, x, p, n)
        OBVIOUS
      <4>4. placed[x][p] = [fast |-> a, new |-> b, rounds |-> n, resident |-> in]
        BY <3>1, <4>1, <4>2, <4>3 DEF PlacedBy
      <4> QED BY <4>1, <4>2, <4>4
    <3>3. Analysis!Reported(p)
      BY <3>2, <3>5 DEF Analysis!Reported
    <3>4. Analysis!Evaluated(R, d, p)
            = [fast |-> Sum(Fast(R, d, p, n), 1 .. n), new |-> Sum(New(R, d, p, n), 1 .. n)]
      BY <2>3, EvaluatedIs
    <3> QED BY <3>3, <3>4, <3>5
  <2> QED BY <2>4, <2>5
<1> QED BY <1>1, <1>4, <1>5, <1>10, <1>11, <1>12, <1>13, ZenonT(40)
        DEF ModelsAgree, Analysis!ModelsAgree, Analysis!Reported, Analysis!SameTurnover,
            Analysis!TurnoverReport

LEMMA AgreeStep == AgreeInv /\ WholeInv /\ WholeInv' /\ [Next]_offlineVars => AgreeInv'
<1> SUFFICES ASSUME AgreeInv, WholeInv, WholeInv', [Next]_offlineVars PROVE AgreeInv'
  OBVIOUS
<1>1. CASE Analyse
  <2>1. ReaderTypes
    BY DEF WholeInv
  <2> QED BY <1>1, <2>1, ReadAgrees, YieldAgrees, ConcludeAgrees DEF Analyse, Analysis!Next
<1>2. CASE ~ Analyse
  <2>1. UNCHANGED readVars
    BY <1>2 DEF Next, Migrate, Study, Prepare, Simulate, offlineVars
  <2>2. UNCHANGED <<dump, reader, sums, prev, placed, verdict>>
    BY <2>1 DEF readVars
  <2> QED BY <2>2, ZenonT(40)
          DEF AgreeInv, ModelsAgree, Analysis!ModelsAgree, Analysis!Reported, Modelled,
                     NoneModelled, SomeModelled, Analysis!SameTurnover, Analysis!TurnoverReport
<1> QED BY <1>1, <1>2

(***************************************************************************)
(* Of a collection of any size, in blocks of any size: what the stream of   *)
(* windows sums up is what the analyses compute that load all records.  The *)
(* turnover has the same transitions and the same mean retention; a mean of *)
(* shares is the share weighted by traffic where the later windows have the *)
(* same number of accesses, and only then is it claimed.                    *)
(***************************************************************************)
THEOREM StreamGivesTheSame == Spec => []ModelsAgree
<1>1. Spec => []OracleInv
  BY OracleBegins, OracleStep, PTL DEF Spec
<1>2. Spec => []WholeInv
  BY <1>1, WholeBegins, WholeStep, PTL DEF Spec
<1>3. Spec => []AgreeInv
  BY <1>2, AgreeBegins, AgreeStep, PTL DEF Spec
<1>4. AgreeInv => ModelsAgree
  BY DEF AgreeInv
<1> QED BY <1>3, <1>4, PTL
================================================================================
