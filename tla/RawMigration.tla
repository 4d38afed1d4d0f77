---------------------------- MODULE RawMigration ----------------------------
(***************************************************************************)
(* migrate_raw_storage.py: raw records move to another disk one by one, and *)
(* a symbolic link takes their place.  It can be killed, or fail, between   *)
(* any two changes of the directories, and be run again.                    *)
(***************************************************************************)
EXTENDS Integers

CONSTANTS Files, MoveFaults  \* MoveFaults bounds kills and bad copies

VARIABLES
  source,   \* what is at each original path: the "file" or a "link" to target
  link,     \* whether <path>.hdd-link is there
  partial,  \* <target>.partial: "none", a "bad" or a "whole" copy
  target,   \* the same
  record,   \* whether <target>.sha256.json is there
  mover,    \* the running script: its next step, its file, those still to do
  moveFaults

moveVars == <<source, link, partial, target, record, mover, moveFaults>>

Copies == {"none", "bad", "whole"}
Gone == [pc |-> "off", file |-> {}, todo |-> {}]

MoveInit ==
  /\ source = [f \in Files |-> "file"]
  /\ link = [f \in Files |-> FALSE]
  /\ partial = [f \in Files |-> "none"]
  /\ target = [f \in Files |-> "none"]
  /\ record = [f \in Files |-> FALSE]
  /\ mover = Gone
  /\ moveFaults = 0

\* The file being moved is the one in mover.file.
Moving(pc, f) == mover.pc = pc /\ mover.file = {f}
Then(pc) == mover' = [mover EXCEPT !.pc = pc]
Fault == moveFaults < MoveFaults /\ moveFaults' = moveFaults + 1

Start ==
  /\ mover.pc = "off"
  /\ mover' = [pc |-> "scan", file |-> {}, todo |-> Files]
  /\ UNCHANGED <<source, link, partial, target, record, moveFaults>>

\* A link is passed over; a target that is there must be the same file.
Take(f) ==
  /\ mover.pc = "scan" /\ f \in mover.todo
  /\ LET next(pc) == mover' = [pc |-> pc, file |-> {f}, todo |-> mover.todo \ {f}]
     IN  CASE source[f] = "link" -> next("scan")
           [] source[f] = "file" /\ target[f] = "none" -> next("copy")
           [] source[f] = "file" /\ target[f] = "whole" -> next("link")
           [] source[f] = "file" /\ target[f] = "bad" -> mover' = Gone
  /\ UNCHANGED <<source, link, partial, target, record, moveFaults>>

\* copy2 writes over what an earlier run left; a disk may keep something else.
Copy(f) ==
  /\ Moving("copy", f)
  /\ \/ partial' = [partial EXCEPT ![f] = "whole"] /\ UNCHANGED moveFaults
     \/ partial' = [partial EXCEPT ![f] = "bad"] /\ Fault
  /\ Then("verify")
  /\ UNCHANGED <<source, link, target, record>>

\* Mutant: the copy is not read again.
CopiedAnyhow(f) == partial[f] # "none"

Copied(f) == partial[f] = "whole"

\* The copy is hashed and renamed, or left and the script fails.
Verify(f) ==
  /\ Moving("verify", f)
  /\ IF Copied(f)
     THEN /\ target' = [target EXCEPT ![f] = partial[f]]
          /\ partial' = [partial EXCEPT ![f] = "none"]
          /\ Then("link")
     ELSE mover' = Gone /\ UNCHANGED <<target, partial>>
  /\ UNCHANGED <<source, link, record, moveFaults>>

\* A link left by an earlier run fails the script, and every later one.
MakeLink(f) ==
  /\ Moving("link", f)
  /\ IF link[f] THEN mover' = Gone /\ UNCHANGED link
     ELSE link' = [link EXCEPT ![f] = TRUE] /\ Then("swap")
  /\ UNCHANGED <<source, partial, target, record, moveFaults>>

Swap(f) ==
  /\ Moving("swap", f)
  /\ source' = [source EXCEPT ![f] = "link"]
  /\ link' = [link EXCEPT ![f] = FALSE]
  /\ Then("record")
  /\ UNCHANGED <<partial, target, record, moveFaults>>

Record(f) ==
  /\ Moving("record", f)
  /\ record' = [record EXCEPT ![f] = TRUE]
  /\ Then("scan")
  /\ UNCHANGED <<source, link, partial, target, moveFaults>>

Done ==
  /\ mover.pc = "scan" /\ mover.todo = {}
  /\ mover' = Gone
  /\ UNCHANGED <<source, link, partial, target, record, moveFaults>>

\* Killed, also in the middle of a copy.
Kill ==
  /\ mover.pc # "off" /\ Fault
  /\ mover' = Gone
  /\ partial' = [f \in Files |-> IF Moving("copy", f) THEN "bad" ELSE partial[f]]
  /\ UNCHANGED <<source, link, target, record>>

MoveNext ==
  \/ Start \/ Done \/ Kill
  \/ \E f \in Files :
        Take(f) \/ Copy(f) \/ Verify(f) \/ MakeLink(f) \/ Swap(f) \/ Record(f)

MoveSpec == MoveInit /\ [][MoveNext]_moveVars

\* What a reader finds at the original path.
Read(f) == IF source[f] = "file" THEN "whole" ELSE target[f]

(***************************************************************************)
(* "Move ... after SHA256 verification.  Original paths become symlinks"    *)
(* (migrate_raw_storage.py:2): the records can be read in full at their     *)
(* original path at every moment, whenever the script is killed and run     *)
(* again; and a sha256.json is only ever of a file that has been moved.     *)
(***************************************************************************)
RawReachable ==
  \A f \in Files : /\ Read(f) = "whole"
                   /\ record[f] => source[f] = "link" /\ target[f] = "whole"
=============================================================================
