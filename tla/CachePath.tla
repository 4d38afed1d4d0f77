------------------------------ MODULE CachePath ------------------------------
(***************************************************************************)
(* The path of one line reference through a thread's private L1 and L2 and  *)
(* the shared LLC (cache_hierarchy.hpp).  Stores dirty only L1; the lower   *)
(* levels receive clean read fills and full-line dirty writebacks.          *)
(***************************************************************************)
EXTENDS LruLevel

CONSTANTS GeomL1, GeomL2, GeomLLC

ASSUME GeometryAssumption ==
    GeomL1 \in Geometry /\ GeomL2 \in Geometry /\ GeomLLC \in Geometry

(***************************************************************************)
(* What a reference hands from the private levels to the shared one: the    *)
(* lines L2 wrote back (first while taking L1's victim, then while filling  *)
(* the demanded line) and whether the demand missed.  Initially             *)
(* PrivateResult r = {{true,false,0},{true,false,0},false}.                 *)
(***************************************************************************)
PrivateResult == [eviction : LineOrNone, demand : LineOrNone, miss : BOOLEAN]

NoResult == [eviction |-> NoLine, demand |-> NoLine, miss |-> FALSE]

\* Mutant: the lower level takes a dirty victim as a clean fill.
CleanWriteBack(g, c, wb) ==
    IF wb = NoLine THEN [level |-> c, hit |-> TRUE, wb |-> NoLine]
    ELSE Access(g, c, wb, "read")

\* An access that is made only when there is a line to write back.
WriteBack(g, c, wb) ==
    IF wb = NoLine THEN [level |-> c, hit |-> TRUE, wb |-> NoLine]
    ELSE Access(g, c, wb, "write")

\* Mutant: the demanded line, not L1's victim, is written to L2.
WrongVictim(l1, l2, line, type) ==
    LET first    == Access(GeomL1, l1, line, type)
        eviction == WriteBack(GeomL2, l2, IF first.wb = NoLine THEN NoLine ELSE line)
        demand   == Access(GeomL2, eviction.level, line, "read")
    IN  IF first.hit
        THEN [l1 |-> first.level, l2 |-> l2, r |-> NoResult]
        ELSE [l1 |-> first.level, l2 |-> demand.level,
              r  |-> [eviction |-> eviction.wb, demand |-> demand.wb,
                      miss |-> ~demand.hit]]

(***************************************************************************)
(* accessPrivate: L1; on an L1 miss, L1's dirty victim is written to L2     *)
(* before the demanded line is read from L2.                                *)
(***************************************************************************)
AccessPrivate(l1, l2, line, type) ==
    LET first    == Access(GeomL1, l1, line, type)
        eviction == WriteBack(GeomL2, l2, first.wb)
        demand   == Access(GeomL2, eviction.level, line, "read")
    IN  IF first.hit
        THEN [l1 |-> first.level, l2 |-> l2, r |-> NoResult]
        ELSE [l1 |-> first.level, l2 |-> demand.level,
              r  |-> [eviction |-> eviction.wb, demand |-> demand.wb,
                      miss |-> ~demand.hit]]

(***************************************************************************)
(* accessShared: the two outgoing writebacks, then the demand if L2 missed. *)
(* Each of the three LLC accesses may push a dirty line to memory           *)
(* (record(l, true), in that order); an LLC miss is one memory fill         *)
(* (record(line, false)), recorded after its own victim.                    *)
(***************************************************************************)
AccessShared(llc, line, r) ==
    LET first  == WriteBack(GeomLLC, llc, r.eviction)
        second == WriteBack(GeomLLC, first.level, r.demand)
        fill   == IF r.miss THEN Access(GeomLLC, second.level, line, "read")
                  ELSE [level |-> second.level, hit |-> TRUE, wb |-> NoLine]
    IN  [llc    |-> fill.level,
         writes |-> <<first.wb, second.wb, fill.wb>>,
         fill   |-> IF fill.hit THEN NoLine ELSE line]

=============================================================================
