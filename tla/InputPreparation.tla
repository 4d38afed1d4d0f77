-------------------------- MODULE InputPreparation --------------------------
(***************************************************************************)
(* Preparing the inputs: fetch_twitter.py downloads the source,             *)
(* prepare_fidelity_inputs.py makes graphs of it (and, with                 *)
(* prepare_gplus.py, of another source), prepare_tc_footprint.py makes      *)
(* candidates and selects one.  Each leaves a JSON record, written in       *)
(* place, which consumers trust.  Scripts may run several times and, but    *)
(* for two downloads, at the same time, fail at any step or be killed there.*)
(***************************************************************************)
EXTENDS Integers, Sequences, FiniteSets, FiniteSetsExt

CONSTANTS
  Processes,   \* scripts at a time
  Assets,      \* the files of the source
  Graphs,      \* the number of graphs, or candidates, of an attempt; not 0
  Tolerance,   \* the error of a candidate that ends the search
  Errors,      \* errors of candidates, per graph
  Launches,    \* bounds the scripts started
  InputFaults  \* bounds failures, kills and bad downloads

VARIABLES
  asset,        \* the destination and the partial file of each asset
  source,       \* source.json
  attempts,     \* per script, its attempt directories: what is in them
  record,       \* per script, what its JSON says
  process,      \* per process, its script, step and directory
  launched, inputFaults

inputVars == <<asset, source, attempts, record, process, launched, inputFaults>>

GraphIds == 1 .. Graphs
Makers == {"inputs", "footprint"}
Idle == [script |-> "none", pc |-> "off", at |-> 0, todo |-> {}]
Empty == [g \in GraphIds |-> "none"]

\* A record is missing, torn, or names graphs of one attempt.
Missing == [state |-> "none"]
Torn == [state |-> "torn"]
Names(attempt, graphs) == [state |-> "whole", attempt |-> attempt, graphs |-> graphs]

Init ==
  /\ asset = [a \in Assets |-> [dest |-> "none", partial |-> "none"]]
  /\ source = "none"
  /\ attempts = [m \in Makers |-> <<>>]
  /\ record = [m \in Makers |-> Missing]
  /\ process = [p \in Processes |-> Idle]
  /\ launched = 0 /\ inputFaults = 0

Fault == inputFaults < InputFaults /\ inputFaults' = inputFaults + 1
In(p, pc) == process[p].pc = pc
Goes(p, pc) == process' = [process EXCEPT ![p].pc = pc]
Ends(p) == process' = [process EXCEPT ![p] = Idle]

\* Of the fetcher one process at a time: it has no lock, and nothing starts two.
Launch(p, script) ==
  /\ In(p, "off") /\ launched < Launches
  /\ launched' = launched + 1
  /\ script = "fetch" => \A q \in Processes : process[q].script # "fetch"
  /\ process' = [process EXCEPT ![p] = [Idle EXCEPT !.script = script,
                   !.pc = IF script = "fetch" THEN "fetch" ELSE "look",
                   !.todo = IF script = "fetch" THEN Assets ELSE GraphIds]]
  /\ UNCHANGED <<asset, source, attempts, record, inputFaults>>

--------------------------------------------------------------------------------
(* fetch_twitter.py                                                           *)

\* A partial file is continued; what is whole in size may be spoiled.
Download(p, a) ==
  /\ In(p, "fetch") /\ a \in process[p].todo /\ asset[a].dest = "none"
  /\ \/ asset' = [asset EXCEPT ![a].partial = "whole"] /\ UNCHANGED inputFaults
     \/ asset' = [asset EXCEPT ![a].partial = "spoiled"] /\ Fault
  /\ process' = [process EXCEPT ![p].pc = "rename", ![p].at = a]
  /\ UNCHANGED <<source, attempts, record, launched>>

RenameAsset(p) ==
  /\ In(p, "rename")
  /\ asset' = [asset EXCEPT ![process[p].at] = [dest |-> @.partial, partial |-> "none"]]
  /\ Goes(p, "fetch")
  /\ UNCHANGED <<source, attempts, record, launched, inputFaults>>

\* gzip -t
Sound(a) == asset[a].dest = "whole"

\* What is there is tested and hashed; what is bad stays and is refused again.
Verify(p, a) ==
  /\ In(p, "fetch") /\ a \in process[p].todo /\ asset[a].dest # "none"
  /\ IF Sound(a) THEN process' = [process EXCEPT ![p].todo = @ \ {a}] ELSE Ends(p)
  /\ UNCHANGED <<asset, source, attempts, record, launched, inputFaults>>

\* source.json is opened, which empties it, and then written.
OpenSource(p) ==
  /\ In(p, "fetch") /\ process[p].todo = {}
  /\ source' = "torn"
  /\ Goes(p, "source")
  /\ UNCHANGED <<asset, attempts, record, launched, inputFaults>>

WriteSource(p) ==
  /\ In(p, "source")
  /\ source' = "whole"
  /\ Ends(p)
  /\ UNCHANGED <<asset, attempts, record, launched, inputFaults>>

--------------------------------------------------------------------------------
(* prepare_fidelity_inputs.py and prepare_tc_footprint.py                     *)

Script(p) == process[p].script
Attempts(p) == attempts[Script(p)]

\* A record ends the script, well or, if it cannot be read, badly; the graphs it
\* names are hashed again.  Without one a directory is looked for.
Look(p) ==
  /\ In(p, "look")
  /\ IF record[Script(p)] = Missing
     THEN process' = [process EXCEPT ![p].pc = "make", ![p].at = Len(Attempts(p)) + 1]
     ELSE Ends(p)
  /\ UNCHANGED <<asset, source, attempts, record, launched, inputFaults>>

\* Mutant: mkdir(exist_ok=True).
MayShare(p) == TRUE

\* mkdir of a directory that another process has made meanwhile fails.
MayMake(p) == process[p].at > Len(Attempts(p))

MakeDirectory(p) ==
  /\ In(p, "make")
  /\ IF MayMake(p)
     THEN /\ attempts' = IF process[p].at > Len(Attempts(p))
                         THEN [attempts EXCEPT ![Script(p)] = Append(@, Empty)]
                         ELSE attempts
          /\ Goes(p, "source of it")
     ELSE Ends(p) /\ UNCHANGED attempts
  /\ UNCHANGED <<asset, source, record, launched, inputFaults>>

\* The source must be recorded, and be what was recorded.
CheckSource(p) ==
  /\ In(p, "source of it")
  /\ IF source = "whole" /\ \A a \in Assets : asset[a].dest = "whole"
     THEN Goes(p, "build") ELSE Ends(p)
  /\ UNCHANGED <<asset, source, attempts, record, launched, inputFaults>>

\* The graphs are converted one after the other, into files of the directory.
Build(p) ==
  /\ In(p, "build") /\ process[p].todo # {}
  /\ attempts' = [attempts EXCEPT ![Script(p)][process[p].at][Min(process[p].todo)] = "part"]
  /\ Goes(p, "collect")
  /\ UNCHANGED <<asset, source, record, launched, inputFaults>>

\* The size must fit the header.  A candidate within the tolerance is the last.
Collect(p) ==
  /\ In(p, "collect")
  /\ LET g == Min(process[p].todo)
         last == Script(p) = "footprint" /\ Errors[g] <= Tolerance
     IN  /\ attempts' = [attempts EXCEPT ![Script(p)][process[p].at][g] = "whole"]
         /\ process' = [process EXCEPT ![p].pc = "build",
                                       ![p].todo = IF last THEN {} ELSE @ \ {g}]
  /\ UNCHANGED <<asset, source, record, launched, inputFaults>>

\* The footprint takes the candidate with the least error, the first of equals.
Nearest(tried) ==
  {g \in tried : \A h \in tried : Errors[g] < Errors[h] \/ (Errors[g] = Errors[h] /\ g <= h)}

OpenRecord(p) ==
  /\ In(p, "build") /\ process[p].todo = {}
  /\ record' = [record EXCEPT ![Script(p)] = Torn]
  /\ Goes(p, "record")
  /\ UNCHANGED <<asset, source, attempts, launched, inputFaults>>

WriteRecord(p) ==
  /\ In(p, "record")
  /\ LET at == process[p].at
         made == {g \in GraphIds : Attempts(p)[at][g] # "none"}
     IN  record' = [record EXCEPT ![Script(p)] =
                      Names(at, IF Script(p) = "footprint" THEN Nearest(made) ELSE made)]
  /\ Ends(p)
  /\ UNCHANGED <<asset, source, attempts, launched, inputFaults>>

\* A step fails or the process is killed, wherever it is.
Fail(p) ==
  /\ ~In(p, "off") /\ Fault
  /\ Ends(p)
  /\ UNCHANGED <<asset, source, attempts, record, launched>>

Next ==
  \E p \in Processes :
     \/ \E script \in Makers \cup {"fetch"} : Launch(p, script)
     \/ \E a \in Assets : Download(p, a) \/ Verify(p, a)
     \/ RenameAsset(p) \/ OpenSource(p) \/ WriteSource(p)
     \/ Look(p) \/ MakeDirectory(p) \/ CheckSource(p) \/ Build(p) \/ Collect(p)
     \/ OpenRecord(p) \/ WriteRecord(p) \/ Fail(p)

--------------------------------------------------------------------------------
(***************************************************************************)
(* What a record names is there in full and is written no more, although    *)
(* scripts run at the same time and leave what they had begun: of the       *)
(* source every file, of the inputs every graph, of the footprint the       *)
(* candidate nearest to the target, found by the rule that was fixed before *)
(* the first was measured.  The fetcher, which has no lock, is taken to run *)
(* once at a time.                                                          *)
(***************************************************************************)
InputsAttested ==
  /\ source = "whole" => \A a \in Assets : asset[a].dest = "whole"
  /\ \A m \in Makers : record[m].state = "whole" =>
       LET r == record[m]
           tried == {g \in GraphIds : attempts[m][r.attempt][g] # "none"}
       IN  /\ \A g \in tried : attempts[m][r.attempt][g] = "whole"
           /\ m = "inputs" => r.graphs = GraphIds
           /\ m = "footprint" =>
                \E g \in tried : /\ r.graphs = {g}
                                 /\ \A h \in tried : Errors[g] <= Errors[h]
                                 /\ tried = GraphIds \/ Errors[g] <= Tolerance
=============================================================================
