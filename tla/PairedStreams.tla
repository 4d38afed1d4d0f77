---------------------------- MODULE PairedStreams ----------------------------
(***************************************************************************)
(* The three streams the paired observer keeps over the same interval       *)
(* (paired_observer.hpp): demand accesses, memory fills, and all memory     *)
(* traffic.  A page's mask is the set of its lines.                         *)
(***************************************************************************)
EXTENDS CacheLines

Streams == {"accesses", "fills", "traffic"}

Pair == [epoch : [Streams -> SUBSET Lines], whole : [Streams -> SUBSET Lines],
         epochEvents : [Streams -> Nat], totalEvents : [Streams -> Nat]]

EmptyPair == [epoch |-> [s \in Streams |-> {}], whole |-> [s \in Streams |-> {}],
              epochEvents |-> [s \in Streams |-> 0],
              totalEvents |-> [s \in Streams |-> 0]]

\* PairedObserver::record
PairRecord(p, line, stream) ==
    [epoch       |-> [p.epoch EXCEPT ![stream] = @ \cup {line}],
     whole       |-> [p.whole EXCEPT ![stream] = @ \cup {line}],
     epochEvents |-> PlusOne(p.epochEvents, stream),
     totalEvents |-> PlusOne(p.totalEvents, stream)]

\* PairedObserver::empty
PairIsEmpty(p) == \A s \in Streams : p.epoch[s] = {}

\* Mutant: the fill stream is not reset with the others.
KeepFills(p) ==
    [p EXCEPT !.epoch = [s \in Streams |-> IF s = "fills" THEN @[s] ELSE {}],
              !.epochEvents = [s \in Streams |-> 0]]

\* What PairedObserver::endEpoch leaves; the rows it writes are the caller's.
PairEndEpoch(p) ==
    [p EXCEPT !.epoch = [s \in Streams |-> {}],
              !.epochEvents = [s \in Streams |-> 0]]
=============================================================================
