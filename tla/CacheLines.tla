----------------------------- MODULE CacheLines -----------------------------
(***************************************************************************)
(* The address space every component shares: 64-byte lines, named by their  *)
(* line numbers (byte address >> 6).                                        *)
(***************************************************************************)
EXTENDS Integers

CONSTANT Lines              \* the line numbers in play

ASSUME LinesAssumption == Lines \subseteq Nat

NoLine == -1                \* "no such line": Outcome.wroteBack = false
LineOrNone == Lines \cup {NoLine}

AccessType == {"read", "write"}

\* The function f with one more at k.
PlusOne(f, k) == [f EXCEPT ![k] = @ + 1]
=============================================================================
