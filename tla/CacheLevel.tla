----------------------------- MODULE CacheLevel -----------------------------
(***************************************************************************)
(* class CacheLevel (cache_model.hpp): ways with tag, stamp, valid and      *)
(* dirty bits, one clock per level, a probe, the first-invalid-else-oldest  *)
(* victim, and the hit/miss/writeback counters.                             *)
(***************************************************************************)
EXTENDS CacheLines, FiniteSets

CONSTANTS SizeBytes, Assoc, LineBytes,      \* the arguments of init()
          MaxClock          \* bound: the clock, hence the number of accesses

IsPowerOfTwo(n) == \E k \in 0..n : n = 2^k

\* The conditions init() returns false on, negated.
Representable(size, assoc, lineBytes) ==
    /\ assoc # 0 /\ lineBytes # 0 /\ IsPowerOfTwo(lineBytes)
    /\ size % (lineBytes * assoc) = 0
    /\ size \div (lineBytes * assoc) # 0
    /\ IsPowerOfTwo(size \div (lineBytes * assoc))

ASSUME GeometryAssumption ==
    /\ SizeBytes \in Nat /\ Assoc \in Nat /\ LineBytes \in Nat /\ MaxClock \in Nat
    /\ Representable(SizeBytes, Assoc, LineBytes)

NumSets == SizeBytes \div (LineBytes * Assoc)
Sets == 0..(NumSets - 1)
Ways == 0..(Assoc - 1)

VARIABLES way,              \* way[set][w]: the four per-way arrays
          clock,            \* clock_
          stats,            \* hits_, misses_, writebacks_
          answer            \* what the last call returned

vars == <<way, clock, stats, answer>>

SetOf(line) == line % NumSets          \* lineAddr & setMask_
TagOf(line) == line \div NumSets       \* lineAddr >> setBits_
LineOf(set, tag) == tag * NumSets + set    \* (tag << setBits_) | set

Init ==
    /\ way = [s \in Sets |-> [w \in Ways |->
                [tag |-> 0, stamp |-> 0, valid |-> FALSE, dirty |-> FALSE]]]
    /\ clock = 1
    /\ stats = [hits |-> 0, misses |-> 0, writebacks |-> 0]
    /\ answer = [op |-> "none"]

\* The ways a probe for `line` matches.
Matches(line) ==
    {w \in Ways : /\ way[SetOf(line)][w].valid
                  /\ way[SetOf(line)][w].tag = TagOf(line)}

First(ws) == CHOOSE w \in ws : \A v \in ws : w <= v

Free(set) == {w \in Ways : ~way[set][w].valid}

\* Mutant: the scan keeps the newest way.
Newest(set) ==
    First({w \in Ways : \A v \in Ways : way[set][w].stamp >= way[set][v].stamp})

\* The scan keeps the first way whose stamp is below every earlier one.
Oldest(set) ==
    First({w \in Ways : \A v \in Ways : way[set][w].stamp <= way[set][v].stamp})

Hit(line, type) ==
    LET s == SetOf(line)
        w == First(Matches(line))
    IN  /\ Matches(line) # {}
        /\ way' = [way EXCEPT ![s][w].stamp = clock, ![s][w].dirty = @ \/ type = "write"]
        /\ stats' = [stats EXCEPT !.hits = @ + 1]
        /\ answer' = [op |-> "access", line |-> line, hit |-> TRUE, wb |-> NoLine]

Miss(line, type) ==
    LET s  == SetOf(line)
        w  == IF Free(s) # {} THEN First(Free(s)) ELSE Oldest(s)
        wb == Free(s) = {} /\ way[s][w].dirty
    IN  /\ Matches(line) = {}
        /\ way' = [way EXCEPT ![s][w] = [tag |-> TagOf(line), stamp |-> clock,
                                         valid |-> TRUE, dirty |-> type = "write"]]
        /\ stats' = [stats EXCEPT !.misses = @ + 1,
                                  !.writebacks = @ + (IF wb THEN 1 ELSE 0)]
        /\ answer' = [op |-> "access", line |-> line, hit |-> FALSE,
                      wb |-> IF wb THEN LineOf(s, way[s][w].tag) ELSE NoLine]

\* CacheLevel::access
AccessLine(line, type) ==
    /\ clock < MaxClock
    /\ clock' = clock + 1
    /\ Hit(line, type) \/ Miss(line, type)

\* CacheLevel::invalidate
Invalidate(line) ==
    LET s == SetOf(line)
        w == First(Matches(line))
    IN  /\ IF Matches(line) = {}
           THEN UNCHANGED way
           ELSE way' = [way EXCEPT ![s][w].valid = FALSE, ![s][w].dirty = FALSE]
        /\ answer' = [op |-> "invalidate", line |-> line,
                      dirty |-> Matches(line) # {} /\ way[s][w].dirty]
        /\ UNCHANGED <<clock, stats>>

\* CacheLevel::resetStats
ResetStats ==
    /\ stats' = [hits |-> 0, misses |-> 0, writebacks |-> 0]
    /\ UNCHANGED <<way, clock, answer>>

Next ==
    \/ \E line \in Lines, type \in AccessType : AccessLine(line, type)
    \/ \E line \in Lines : Invalidate(line)
    \/ ResetStats

Spec == Init /\ [][Next]_vars

-----------------------------------------------------------------------------
(***************************************************************************)
(* The refinement mapping: a line's rank counts the valid ways of its set   *)
(* stamped at or after the way that holds it.                               *)
(***************************************************************************)
Holders(line) == {w \in Ways : /\ way[SetOf(line)][w].valid
                               /\ way[SetOf(line)][w].tag = TagOf(line)}

RankOf(line) ==
    IF Holders(line) = {} THEN 0
    ELSE LET s == SetOf(line)
             h == First(Holders(line))
         IN  Cardinality({w \in Ways : /\ way[s][w].valid
                                       /\ way[s][w].stamp >= way[s][h].stamp})

LevelOf ==
    [rank  |-> [l \in Lines |-> RankOf(l)],
     dirty |-> {l \in Lines : \E w \in Holders(l) : way[SetOf(l)][w].dirty}]

Abstract == INSTANCE LruCache WITH level <- LevelOf

(***************************************************************************)
(* Ways and stamps implement LRU: every call answers (hit, written-back     *)
(* line) as the abstract level does, and evicts the line it would evict.    *)
(***************************************************************************)
ImplementsLru == Abstract!Spec
=============================================================================
