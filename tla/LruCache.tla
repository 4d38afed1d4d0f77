------------------------------ MODULE LruCache ------------------------------
(***************************************************************************)
(* What one cache level promises its caller: true LRU replacement inside a  *)
(* set, writeback of exactly the dirty victim, write-allocate.  The state   *)
(* is the level's contents and the last answer; nothing says where a line   *)
(* is kept.  CacheLevel implements this specification.                      *)
(***************************************************************************)
EXTENDS LruLevel

CONSTANTS NumSets, Assoc

VARIABLES level,            \* the contents (LruLevel!Level)
          answer            \* what the last call returned

vars == <<level, answer>>

Geom == [sets |-> NumSets, assoc |-> Assoc]

Init ==
    /\ level = EmptyLevel
    /\ answer = [op |-> "none"]

AccessLine(c, line, type) ==
    LET o == Access(Geom, c, line, type)
    IN  /\ answer' = [op |-> "access", line |-> line, hit |-> o.hit, wb |-> o.wb]
        /\ level' = o.level

Invalidate(c, line) ==
    LET d == Drop(Geom, c, line)
    IN  /\ answer' = [op |-> "invalidate", line |-> line, dirty |-> d.wasDirty]
        /\ level' = d.level

Next == \E c \in {level} : \E line \in Lines :
            \/ \E type \in AccessType : AccessLine(c, line, type)
            \/ Invalidate(c, line)

Spec == Init /\ [][Next]_vars
=============================================================================
