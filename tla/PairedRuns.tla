------------------------------ MODULE PairedRuns ------------------------------
(***************************************************************************)
(* A run directory of run_paired.py or run_extension_workload.py: the       *)
(* manifest they keep beside the results, and what run_paired does when it  *)
(* finds one.  A manifest that is never rewritten to an end ("running")     *)
(* belongs to a run that was killed: neither script handles SIGTERM.        *)
(***************************************************************************)
EXTENDS Integers, Sequences

Ends == {"complete", "limited", "failed", "interrupted"}

\* `tool` is the hash of the Pin tool, `gaps` whether some epoch of the
\* collection left neither tracker rows nor raw records.
Run == [manifest : Ends \cup {"none", "running"}, tool : Nat, gaps : BOOLEAN]

NoRun == [manifest |-> "none", tool |-> 0, gaps |-> FALSE]
Begun(tool) == [NoRun EXCEPT !.manifest = "running", !.tool = tool]
Ended(r, end, gaps) == [r EXCEPT !.manifest = end, !.gaps = gaps]

\* Directories are numbered from 1 in the order they are made; run_paired makes
\* its own.
RunAt(runs, d) == IF d \in DOMAIN runs THEN runs[d] ELSE NoRun
Stored(runs, d, r) == IF d \in DOMAIN runs THEN [runs EXCEPT ![d] = r] ELSE Append(runs, r)

\* Mutant: whatever is complete will do.
SkipsAny(r, tool) == r.manifest = "complete"

\* "SKIP completed": the same command, tool and input have been run to the end.
Skips(r, tool) == r.manifest = "complete" /\ r.tool = tool

\* Mutant: another command may replace what is complete.
RefusesIncomplete(r, tool) == r.manifest \notin {"none", "complete"}

\* "Refusing to overwrite": anything else that is there.
Refuses(r, tool) == r.manifest # "none" /\ ~Skips(r, tool)
=============================================================================
