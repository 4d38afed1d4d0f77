------------------------------ MODULE LruLevel ------------------------------
(***************************************************************************)
(* One writeback, write-allocate, true-LRU cache level as a value, and what *)
(* an access to it returns (CacheLevel in cache_model.hpp).  Way numbers    *)
(* and 64-bit stamps are abstracted to a recency rank: rank[l] = 0 when     *)
(* line l is not resident, otherwise 1 + the number of lines of l's set     *)
(* that were used more recently.  Module CacheLevel keeps the ways and the  *)
(* stamps, and is proved to implement this one.                             *)
(***************************************************************************)
EXTENDS CacheLines, FiniteSets

(***************************************************************************)
(* A geometry is the number of sets and the associativity of a level.       *)
(***************************************************************************)
Geometry == [sets : Nat \ {0}, assoc : Nat \ {0}]

Level == [rank : [Lines -> Nat], dirty : SUBSET Lines]

EmptyLevel == [rank |-> [l \in Lines |-> 0], dirty |-> {}]

Resident(c) == {l \in Lines : c.rank[l] # 0}

\* lineAddr & setMask_, the number of sets being a power of two.
SetIndex(g, line) == line % g.sets

\* The other lines that compete with `line` for the ways of its set.
Peers(g, line) == {l \in Lines \ {line} : SetIndex(g, l) = SetIndex(g, line)}

\* What a miss on `line` displaces: the oldest line of a full set.
Victims(g, c, line) ==
    {l \in Peers(g, line) : c.rank[line] = 0 /\ c.rank[l] = g.assoc}

\* The lines that were more recent than `line` and become one step older.
Overtaken(g, c, line) ==
    {l \in Peers(g, line) :
        /\ c.rank[l] # 0
        /\ c.rank[line] = 0 \/ c.rank[l] < c.rank[line]}

RankAfter(g, c, line) ==
    [l \in Lines |->
        IF l = line THEN 1
        ELSE IF l \in Victims(g, c, line) THEN 0
        ELSE IF l \in Overtaken(g, c, line) THEN c.rank[l] + 1
        ELSE c.rank[l]]

\* A hit keeps the dirty bit; a fill sets it from the access type.
DirtyAfter(g, c, line, type) ==
    LET kept == (c.dirty \ Victims(g, c, line)) \
                    (IF c.rank[line] = 0 THEN {line} ELSE {})
    IN  IF type = "write" THEN kept \cup {line} ELSE kept

DirtyVictims(g, c, line) == Victims(g, c, line) \cap c.dirty

(***************************************************************************)
(* CacheLevel::access: the level afterwards, whether the line hit, and the  *)
(* dirty line it wrote back (NoLine when there is none).                    *)
(***************************************************************************)
Access(g, c, line, type) ==
    [level |-> [rank  |-> RankAfter(g, c, line),
                dirty |-> DirtyAfter(g, c, line, type)],
     hit   |-> c.rank[line] # 0,
     wb    |-> IF DirtyVictims(g, c, line) = {} THEN NoLine
               ELSE CHOOSE l \in DirtyVictims(g, c, line) : TRUE]

(***************************************************************************)
(* CacheLevel::invalidate: drop a line, tell whether it was dirty.          *)
(***************************************************************************)
Drop(g, c, line) ==
    [level |-> [rank  |-> [l \in Lines |->
                    IF l = line THEN 0
                    ELSE IF /\ l \in Peers(g, line)
                            /\ c.rank[line] # 0
                            /\ c.rank[l] > c.rank[line]
                         THEN c.rank[l] - 1
                    ELSE c.rank[l]],
                dirty |-> c.dirty \ {line}],
     wasDirty |-> line \in c.dirty]

(***************************************************************************)
(* What every reachable level satisfies.  Two residents of a set never      *)
(* share a rank, so a miss has at most one victim.                          *)
(***************************************************************************)
WellFormed(g, c) ==
    /\ c \in Level
    /\ c.dirty \subseteq Resident(c)
    /\ \A l \in Lines : c.rank[l] <= g.assoc
    /\ \A l, m \in Resident(c) :
           SetIndex(g, l) = SetIndex(g, m) /\ c.rank[l] = c.rank[m] => l = m
=============================================================================
