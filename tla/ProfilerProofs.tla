--------------------------- MODULE ProfilerProofs ---------------------------
(***************************************************************************)
(* The Pin tool's invariants, for every command line, every set of threads  *)
(* and lines, every geometry and every bound.                               *)
(***************************************************************************)
EXTENDS Profiler, CommonProofs

-----------------------------------------------------------------------------
(***************************************************************************)
(* What recording does to an observation.                                   *)
(***************************************************************************)

\* Recording on one stream of the pair touches only that stream.
LEMMA PairRecordFacts ==
    ASSUME NEW p \in Pair, NEW line \in Lines, NEW s \in Streams
    PROVE  /\ PairRecord(p, line, s) \in Pair
           /\ \A u \in Streams :
                /\ PairRecord(p, line, s).epoch[u]
                      = IF u = s THEN p.epoch[u] \cup {line} ELSE p.epoch[u]
                /\ PairRecord(p, line, s).whole[u]
                      = IF u = s THEN p.whole[u] \cup {line} ELSE p.whole[u]
  <1>1. /\ p.epoch \in [Streams -> SUBSET Lines] /\ p.whole \in [Streams -> SUBSET Lines]
        /\ p.epochEvents \in [Streams -> Nat] /\ p.totalEvents \in [Streams -> Nat]
    BY DEF Pair
  <1>2. /\ PlusOne(p.epochEvents, s) \in [Streams -> Nat]
        /\ PlusOne(p.totalEvents, s) \in [Streams -> Nat]
    BY <1>1 DEF PlusOne
  <1> QED
    BY <1>1, <1>2 DEF PairRecord, Pair

\* The stream names are distinct streams.
LEMMA StreamNames ==
    /\ "accesses" \in Streams /\ "fills" \in Streams /\ "traffic" \in Streams
    /\ \A p : PairIsEmpty(p) <=> /\ p.epoch["accesses"] = {}
                                 /\ p.epoch["fills"] = {} /\ p.epoch["traffic"] = {}
  BY DEF Streams, PairIsEmpty

\* The three streams one by one, whichever is recorded on.
LEMMA PairRecordNamed ==
    ASSUME NEW p \in Pair, NEW line \in Lines
    PROVE  /\ PairRecord(p, line, "fills") \in Pair
           /\ PairRecord(p, line, "fills").epoch["accesses"] = p.epoch["accesses"]
           /\ PairRecord(p, line, "fills").whole["accesses"] = p.whole["accesses"]
           /\ PairRecord(p, line, "fills").epoch["traffic"] = p.epoch["traffic"]
           /\ PairRecord(p, line, "fills").epoch["fills"] = p.epoch["fills"] \cup {line}
           /\ PairRecord(p, line, "fills").whole["fills"] = p.whole["fills"] \cup {line}
           /\ PairRecord(p, line, "traffic") \in Pair
           /\ PairRecord(p, line, "traffic").epoch["accesses"] = p.epoch["accesses"]
           /\ PairRecord(p, line, "traffic").whole["accesses"] = p.whole["accesses"]
           /\ PairRecord(p, line, "traffic").epoch["fills"] = p.epoch["fills"]
           /\ PairRecord(p, line, "traffic").whole["fills"] = p.whole["fills"]
           /\ PairRecord(p, line, "traffic").epoch["traffic"]
                 = p.epoch["traffic"] \cup {line}
           /\ PairRecord(p, line, "accesses") \in Pair
           /\ PairRecord(p, line, "accesses").epoch["fills"] = p.epoch["fills"]
           /\ PairRecord(p, line, "accesses").whole["fills"] = p.whole["fills"]
           /\ PairRecord(p, line, "accesses").epoch["traffic"] = p.epoch["traffic"]
           /\ PairRecord(p, line, "accesses").epoch["accesses"]
                 = p.epoch["accesses"] \cup {line}
           /\ PairRecord(p, line, "accesses").whole["accesses"]
                 = p.whole["accesses"] \cup {line}
  <1>1. "accesses" # "fills" /\ "fills" # "traffic" /\ "accesses" # "traffic"
    OBVIOUS
  <1>2. "accesses" \in Streams /\ "fills" \in Streams /\ "traffic" \in Streams
    BY StreamNames
  <1>3. LET x == PairRecord(p, line, "accesses")
        IN  /\ x.epoch["accesses"] = p.epoch["accesses"] \cup {line}
            /\ x.whole["accesses"] = p.whole["accesses"] \cup {line}
            /\ x.epoch["fills"] = p.epoch["fills"]
            /\ x.whole["fills"] = p.whole["fills"]
            /\ x.epoch["traffic"] = p.epoch["traffic"]
            /\ x.whole["traffic"] = p.whole["traffic"]
    BY <1>1, <1>2 DEF PairRecord, Pair
  <1>4. LET x == PairRecord(p, line, "fills")
        IN  /\ x.epoch["accesses"] = p.epoch["accesses"]
            /\ x.whole["accesses"] = p.whole["accesses"]
            /\ x.epoch["fills"] = p.epoch["fills"] \cup {line}
            /\ x.whole["fills"] = p.whole["fills"] \cup {line}
            /\ x.epoch["traffic"] = p.epoch["traffic"]
            /\ x.whole["traffic"] = p.whole["traffic"]
    BY <1>1, <1>2 DEF PairRecord, Pair
  <1>5. LET x == PairRecord(p, line, "traffic")
        IN  /\ x.epoch["accesses"] = p.epoch["accesses"]
            /\ x.whole["accesses"] = p.whole["accesses"]
            /\ x.epoch["fills"] = p.epoch["fills"]
            /\ x.whole["fills"] = p.whole["fills"]
            /\ x.epoch["traffic"] = p.epoch["traffic"] \cup {line}
            /\ x.whole["traffic"] = p.whole["traffic"] \cup {line}
    BY <1>1, <1>2 DEF PairRecord, Pair
  <1> QED
    BY <1>2, <1>3, <1>4, <1>5, PairRecordFacts

\* What a recorded event adds to the fill stream and to the traffic stream.
Filled(line, type) == IF knob.paired /\ line # NoLine /\ type = "read" THEN {line} ELSE {}
Moved(line) == IF knob.paired /\ line # NoLine THEN {line} ELSE {}

(***************************************************************************)
(* recordDram: one more access for a line, nothing for NoLine; the access   *)
(* stream is untouched, and the fill stream grows by a read only.           *)
(***************************************************************************)
RecordedTo(n, o, line, type) ==
    /\ n \in Observation
    /\ n.dram = o.dram + (IF line = NoLine THEN 0 ELSE 1)
    /\ n.counters.total = o.counters.total + (IF line = NoLine THEN 0 ELSE 1)
    /\ n.pair.epoch["accesses"] = o.pair.epoch["accesses"]
    /\ n.pair.whole["accesses"] = o.pair.whole["accesses"]
    /\ n.pair.epoch["fills"] = o.pair.epoch["fills"] \cup Filled(line, type)
    /\ n.pair.whole["fills"] = o.pair.whole["fills"] \cup Filled(line, type)
    /\ n.pair.epoch["traffic"] = o.pair.epoch["traffic"] \cup Moved(line)

LEMMA RecordDramFacts ==
    ASSUME knob \in Knobs, NEW o \in Observation, NEW line \in LineOrNone,
           NEW type \in AccessType
    PROVE  RecordedTo(RecordDram(o, line, type), o, line, type)
  <1> DEFINE n == RecordDram(o, line, type)
             mid == IF type = "read" THEN PairRecord(o.pair, line, "fills") ELSE o.pair
             last == PairRecord(mid, line, "traffic")
  <1>0. o.counters \in Counters /\ o.dram \in Nat /\ o.pair \in Pair
    BY DEF Observation
  <1>1. CASE line = NoLine
    BY <1>0, <1>1 DEF RecordDram, Counters, Filled, Moved, RecordedTo
  <1>2. CASE line # NoLine
    <2>1. line \in Lines
      BY <1>2 DEF LineOrNone
    <2>2. n = [counters |-> CountAccess(o.counters, line, type),
               dram |-> o.dram + 1,
               pair |-> IF ~knob.paired THEN o.pair ELSE last]
      BY <1>2 DEF RecordDram
    <2>3. CountAccess(o.counters, line, type) \in Counters
          /\ CountAccess(o.counters, line, type).total = o.counters.total + 1
      BY <1>0, <2>1, CountAccessFacts
    <2>4. /\ mid \in Pair
          /\ mid.epoch["accesses"] = o.pair.epoch["accesses"]
          /\ mid.whole["accesses"] = o.pair.whole["accesses"]
          /\ mid.epoch["traffic"] = o.pair.epoch["traffic"]
          /\ mid.epoch["fills"] = o.pair.epoch["fills"]
                                    \cup (IF type = "read" THEN {line} ELSE {})
          /\ mid.whole["fills"] = o.pair.whole["fills"]
                                    \cup (IF type = "read" THEN {line} ELSE {})
      BY <1>0, <2>1, PairRecordNamed
    <2> HIDE DEF mid
    <2>5. /\ last \in Pair
          /\ last.epoch["accesses"] = mid.epoch["accesses"]
          /\ last.whole["accesses"] = mid.whole["accesses"]
          /\ last.epoch["fills"] = mid.epoch["fills"]
          /\ last.whole["fills"] = mid.whole["fills"]
          /\ last.epoch["traffic"] = mid.epoch["traffic"] \cup {line}
      BY <2>1, <2>4, PairRecordNamed
    <2> HIDE DEF last
    <2>6. CASE knob.paired
      BY <1>0, <1>2, <2>2, <2>3, <2>4, <2>5, <2>6 DEF Observation, Filled, Moved, RecordedTo
    <2>7. CASE ~knob.paired
      BY <1>0, <1>2, <2>2, <2>3, <2>7 DEF Observation, Filled, Moved, RecordedTo
    <2> QED
      BY <2>6, <2>7
  <1> QED
    BY <1>1, <1>2
-----------------------------------------------------------------------------
(***************************************************************************)
(* One reference's outcome in an observation: up to four accesses, all of   *)
(* them counted, and no fill but the outcome's own.                         *)
(***************************************************************************)
LEMMA RecordOutcomeFacts ==
    ASSUME knob \in Knobs, NEW o \in Observation, NEW s,
           s.writes \in [1..3 -> LineOrNone], s.fill \in LineOrNone
    PROVE  LET n == RecordOutcome(o, s)
           IN  /\ n \in Observation
               /\ o.dram <= n.dram /\ n.dram <= o.dram + 4
               /\ n.counters.total - n.dram = o.counters.total - o.dram
               /\ n.pair.epoch["accesses"] = o.pair.epoch["accesses"]
               /\ n.pair.whole["accesses"] = o.pair.whole["accesses"]
               /\ n.pair.epoch["fills"] = o.pair.epoch["fills"] \cup Moved(s.fill)
               /\ n.pair.whole["fills"] = o.pair.whole["fills"] \cup Moved(s.fill)
               /\ o.pair.epoch["traffic"] \cup Moved(s.fill) \subseteq n.pair.epoch["traffic"]
  <1> DEFINE wb(x, i) == IF knob.countWB THEN RecordDram(x, s.writes[i], "write") ELSE x
             a == wb(o, 1)
             b == wb(a, 2)
             c == wb(b, 3)
             n == RecordDram(c, s.fill, "read")
             Grown(x, y) ==
                 /\ y \in Observation
                 /\ x.dram <= y.dram /\ y.dram <= x.dram + 1
                 /\ y.counters.total - y.dram = x.counters.total - x.dram
                 /\ y.pair.epoch["accesses"] = x.pair.epoch["accesses"]
                 /\ y.pair.whole["accesses"] = x.pair.whole["accesses"]
                 /\ y.pair.epoch["fills"] = x.pair.epoch["fills"]
                 /\ y.pair.whole["fills"] = x.pair.whole["fills"]
                 /\ x.pair.epoch["traffic"] \subseteq y.pair.epoch["traffic"]
  <1>1. \A x \in Observation : x.dram \in Nat /\ x.counters.total \in Nat
    BY DEF Observation, Counters
  <1>2. ASSUME NEW x \in Observation, NEW i \in 1..3
        PROVE  Grown(x, wb(x, i))
    <2>1. s.writes[i] \in LineOrNone /\ "write" \in AccessType /\ "write" # "read"
      BY AccessTypes
    <2>2. CASE knob.countWB
      <3> DEFINE y == RecordDram(x, s.writes[i], "write")
      <3>1. Filled(s.writes[i], "write") = {} /\ wb(x, i) = y
        BY <2>1, <2>2 DEF Filled
      <3>2. RecordedTo(y, x, s.writes[i], "write")
        BY <2>1, RecordDramFacts
      <3> HIDE DEF y, wb
      <3> QED
        BY <1>1, <3>1, <3>2 DEF RecordedTo
    <2>3. CASE ~knob.countWB
      BY <1>1, <2>3
    <2> QED
      BY <2>2, <2>3
  <1>3. \A x \in Observation : \A i \in 1..3 : Grown(x, wb(x, i)) /\ wb(x, i) \in Observation
    <2> TAKE x \in Observation
    <2> TAKE i \in 1..3
    <2>1. Grown(x, wb(x, i))
      BY <1>2
    <2> HIDE DEF wb
    <2> QED
      BY <2>1
  <1>4. /\ a = wb(o, 1) /\ b = wb(a, 2) /\ c = wb(b, 3)
        /\ n = RecordDram(c, s.fill, "read")
    OBVIOUS
  <1>5. /\ Grown(o, a) /\ Grown(a, b) /\ Grown(b, c)
        /\ a \in Observation /\ b \in Observation /\ c \in Observation
    <2> HIDE DEF Grown, wb, a, b, c
    <2> QED
      BY <1>3, <1>4
  <1> HIDE DEF a, b, c, wb
  <1>6. RecordedTo(n, c, s.fill, "read")
    BY <1>5, AccessTypes, RecordDramFacts
  <1>7. Filled(s.fill, "read") = Moved(s.fill)
    BY DEF Filled, Moved
  <1>8. RecordOutcome(o, s) = n
    BY DEF RecordOutcome, a, b, c, wb
  <1> HIDE DEF n
  <1>9. /\ o.dram \in Nat /\ a.dram \in Nat /\ b.dram \in Nat /\ c.dram \in Nat
        /\ o.counters.total \in Nat /\ a.counters.total \in Nat
        /\ b.counters.total \in Nat /\ c.counters.total \in Nat
    BY <1>1, <1>5
  <1>10. /\ o.dram <= n.dram /\ n.dram <= o.dram + 4
         /\ n.counters.total - n.dram = o.counters.total - o.dram
    BY <1>5, <1>6, <1>9 DEF RecordedTo
  <1> QED
    BY <1>5, <1>6, <1>7, <1>8, <1>10 DEF RecordedTo

-----------------------------------------------------------------------------
(***************************************************************************)
(* What finishEpoch does to the open window: it keeps an empty one, and     *)
(* clears any other, once its records and rows are in the files.            *)
(***************************************************************************)
\* What closing the window o adds to pages.bin and epochs.csv.
Emitted(o) ==
    LET pages == TouchedPages(o.counters)
        row == [epoch |-> epochId, pages |-> Cardinality(pages),
                accesses |-> AccessesIn(o.counters)]
    IN  /\ ~knob.paired => o.counters.total # 0
        /\ \E dumped \in SUBSET pages :
             /\ Dump(o.counters, dumped)
             /\ files'.bin = files.bin \cup {<<epochId, p>> : p \in dumped}
             /\ files'.csv = IF Cardinality(pages) = 0 THEN files.csv
                            ELSE Append(files.csv, row)
             /\ files'.capped = (files.capped \/ dumped # Dumpable(o.counters))

Kept(o, n, ph, act) ==
    /\ counters' = o.counters /\ dram' = o.dram /\ pair' = o.pair
    /\ epochRefs' = n /\ epochId' = epochId
    /\ phase' = ph /\ active' = act
    /\ files' = files

Closed(o, ph, act) ==
    /\ counters' = EmptyCounters /\ dram' = 0
    /\ pair' = IF knob.paired THEN PairEndEpoch(o.pair) ELSE o.pair
    /\ epochRefs' = 0 /\ epochId' = epochId + 1
    /\ \/ phase' = ph /\ active' = act
       \/ phase' = "done" /\ active' = 0
    /\ Emitted(o)

LEMMA KeepEpochFacts ==
    ASSUME NEW o, NEW n, NEW ph, NEW act, KeepEpoch(o, n, ph, act)
    PROVE  Kept(o, n, ph, act)
  BY Zenon DEF KeepEpoch, Kept, output

LEMMA FinishEpochFacts ==
    ASSUME NEW o, NEW n, NEW ph, NEW act, FinishEpoch(o, n, ph, act)
    PROVE  \/ Kept(o, n, ph, act) /\ o.counters.total = 0
           \/ Closed(o, ph, act)
  <1>1. CASE o.counters.total = 0 /\ (~knob.paired \/ PairIsEmpty(o.pair))
    BY <1>1, KeepEpochFacts, Zenon DEF FinishEpoch
  <1>2. CASE ~(o.counters.total = 0 /\ (~knob.paired \/ PairIsEmpty(o.pair)))
    <2>1. Emitted(o)
      <3>1. PICK dumped \in SUBSET TouchedPages(o.counters) :
               /\ Dump(o.counters, dumped)
               /\ files' =
                    [csv    |-> IF Cardinality(TouchedPages(o.counters)) = 0 THEN files.csv
                                ELSE Append(files.csv,
                                       [epoch |-> epochId,
                                        pages |-> Cardinality(TouchedPages(o.counters)),
                                        accesses |-> AccessesIn(o.counters)]),
                     bin    |-> files.bin \cup {<<epochId, p>> : p \in dumped},
                     paired |-> IF ~knob.paired THEN files.paired
                                ELSE Append(files.paired, [events |-> o.pair.epochEvents,
                                                           masks |-> o.pair.epoch]),
                     capped |-> files.capped \/ dumped # Dumpable(o.counters)]
        BY <1>2, Zenon DEF FinishEpoch
      <3>2. ~knob.paired => o.counters.total # 0
        BY <1>2
      <3> QED
        BY <3>1, <3>2 DEF Emitted
    <2> QED
      BY <1>2, <2>1, Zenon DEF FinishEpoch, AfterClose, Closed
  <1> QED
    BY <1>1, <1>2

\* The cleared counters and streams are well-typed, and what ends stays whole.
LEMMA ClearedTypes ==
    /\ EmptyCounters \in Counters /\ EmptyCounters.total = 0
    /\ \A p \in Pair : /\ PairEndEpoch(p) \in Pair
                       /\ PairEndEpoch(p).whole = p.whole
                       /\ \A u \in Streams : PairEndEpoch(p).epoch[u] = {}
  <1>1. EmptyCounters \in Counters /\ EmptyCounters.total = 0
    BY CounterAssumption DEF EmptyCounters, Counters
  <1>2. ASSUME NEW p \in Pair
        PROVE  /\ PairEndEpoch(p) \in Pair
               /\ PairEndEpoch(p).whole = p.whole
               /\ \A u \in Streams : PairEndEpoch(p).epoch[u] = {}
    BY DEF PairEndEpoch, Pair
  <1> QED
    BY <1>1, <1>2

\* The types of the window, whichever way a step leaves it.
WindowTypes ==
    /\ counters \in Counters /\ dram \in Nat /\ pair \in Pair
    /\ epochRefs \in Nat /\ epochId \in Nat
    /\ phase \in Phases /\ active \in {0, 1}

LEMMA WindowTyped ==
    ASSUME epochId \in Nat, NEW o \in Observation, NEW n \in Nat, NEW ph \in Phases,
           NEW act \in {0, 1}, Kept(o, n, ph, act) \/ Closed(o, ph, act)
    PROVE  WindowTypes'
  <1>0. o.counters \in Counters /\ o.dram \in Nat /\ o.pair \in Pair
    BY DEF Observation
  <1>1. CASE Kept(o, n, ph, act)
    BY <1>0, <1>1 DEF Kept, WindowTypes
  <1>2. CASE Closed(o, ph, act)
    BY <1>0, <1>2, ClearedTypes DEF Closed, WindowTypes, Phases
  <1> QED
    BY <1>1, <1>2

-----------------------------------------------------------------------------
(***************************************************************************)
(* Types.  TypeOK is inductive together with two facts: only accepted       *)
(* command lines run, and an operand being worked on has a line, and its    *)
(* last line is that one or the next.                                       *)
(***************************************************************************)
OperandKnown ==
    \A t \in Threads : pc[t] \in {"line", "computed"} =>
        /\ op[t].line \in Lines /\ op[t].last \in Lines
        /\ op[t].last \in {op[t].line, op[t].line + 1}

TypeInv == TypeOK /\ Accepted(knob) /\ OperandKnown

\* The private part of t's reference is well-typed ...
LEMMA PrivateTyped ==
    ASSUME TypeInv, NEW t \in Threads, op[t].line \in Lines
    PROVE  LET p == AccessPrivate(l1[t], l2[t], op[t].line, op[t].type)
           IN  /\ WellFormed(GeomL1, p.l1) /\ WellFormed(GeomL2, p.l2)
               /\ p.r \in PrivateResult
  <1>1. /\ WellFormed(GeomL1, l1[t]) /\ WellFormed(GeomL2, l2[t])
        /\ op[t].type \in AccessType
    BY DEF TypeInv, TypeOK, Operand
  <1>2. PICK c1, c2, line, type :
             c1 = l1[t] /\ c2 = l2[t] /\ line = op[t].line /\ type = op[t].type
    OBVIOUS
  <1>3. /\ WellFormed(GeomL1, c1) /\ WellFormed(GeomL2, c2)
        /\ line \in Lines /\ type \in AccessType
    BY <1>1, <1>2
  <1> DEFINE p == AccessPrivate(c1, c2, line, type)
  <1>4. WellFormed(GeomL1, p.l1) /\ WellFormed(GeomL2, p.l2) /\ p.r \in PrivateResult
    <2> HIDE DEF p
    <2>1. p = AccessPrivate(c1, c2, line, type)
      BY DEF p
    <2> QED
      BY <1>3, <2>1, PrivateFacts
  <1> QED
    BY <1>2, <1>4

\* ... wherever it is computed.
LEMMA CachesAfterFacts ==
    ASSUME TypeInv, NEW t \in Threads, op[t].line \in Lines
    PROVE  /\ WellFormed(GeomL1, CachesAfter(t).l1) /\ WellFormed(GeomL2, CachesAfter(t).l2)
           /\ CachesAfter(t).r \in PrivateResult
  <1>1. /\ WellFormed(GeomL1, l1[t]) /\ WellFormed(GeomL2, l2[t])
        /\ op[t].r \in PrivateResult /\ NoResult \in PrivateResult
    BY DEF TypeInv, TypeOK, Operand, NoResult, PrivateResult, LineOrNone
  <1> QED
    BY <1>1, PrivateTyped DEF CachesAfter

\* The observation after t's reference, when it is recorded.
ObservedBy(t) == ObservedAfter(op[t].line, op[t].type, SharedAfter(t))

\* A well-formed window: both counters agree and every filled line was
\* demanded, and moved, in it.
WindowAgrees(o) ==
    /\ o.dram = o.counters.total
    /\ knob.paired => /\ o.pair.epoch["fills"] \subseteq o.pair.epoch["accesses"]
                      /\ o.pair.epoch["fills"] \subseteq o.pair.epoch["traffic"]
                      /\ o.pair.whole["fills"] \subseteq o.pair.whole["accesses"]

\* Recording a demand counts no DRAM access.
LEMMA RecordDemandFacts ==
    ASSUME NEW o \in Observation, NEW line \in Lines
    PROVE  LET n == RecordDemand(o, line)
           IN  /\ n \in Observation /\ n.dram = o.dram /\ n.counters = o.counters
               /\ knob.paired =>
                    /\ n.pair.epoch["accesses"] = o.pair.epoch["accesses"] \cup {line}
                    /\ n.pair.whole["accesses"] = o.pair.whole["accesses"] \cup {line}
                    /\ n.pair.epoch["fills"] = o.pair.epoch["fills"]
                    /\ n.pair.whole["fills"] = o.pair.whole["fills"]
                    /\ n.pair.epoch["traffic"] = o.pair.epoch["traffic"]
               /\ ~knob.paired => n = o
  <1>0. o.counters \in Counters /\ o.dram \in Nat /\ o.pair \in Pair
    BY DEF Observation
  <1> DEFINE q == PairRecord(o.pair, line, "accesses")
  <1>1. /\ q \in Pair
        /\ q.epoch["accesses"] = o.pair.epoch["accesses"] \cup {line}
        /\ q.whole["accesses"] = o.pair.whole["accesses"] \cup {line}
        /\ q.epoch["fills"] = o.pair.epoch["fills"]
        /\ q.whole["fills"] = o.pair.whole["fills"]
        /\ q.epoch["traffic"] = o.pair.epoch["traffic"]
    BY <1>0, PairRecordNamed
  <1>2. knob.paired => RecordDemand(o, line)
                         = [counters |-> o.counters, dram |-> o.dram, pair |-> q]
    BY DEF RecordDemand, Observation
  <1>3. ~knob.paired => RecordDemand(o, line) = o
    BY DEF RecordDemand
  <1> HIDE DEF q
  <1>4. CASE knob.paired
    BY <1>0, <1>1, <1>2, <1>4 DEF Observation
  <1>5. CASE ~knob.paired
    BY <1>0, <1>3, <1>5
  <1> QED
    BY <1>4, <1>5

LEMMA ObservedFacts ==
    ASSUME TypeInv, NEW t \in Threads, op[t].line \in Lines
    PROVE  /\ WellFormed(GeomLLC, SharedAfter(t).llc)
           /\ ObservedBy(t) \in Observation
           /\ dram <= ObservedBy(t).dram /\ ObservedBy(t).dram <= dram + 4
           /\ WindowAgrees(Open) => WindowAgrees(ObservedBy(t))
  <1> DEFINE s == SharedAfter(t)
             line == op[t].line
             d == RecordDemand(Open, line)
  <1>1. /\ knob \in Knobs /\ (knob.paired => knob.useCache)
        /\ WellFormed(GeomLLC, llc)
        /\ op[t].type \in AccessType /\ line \in LineOrNone
        /\ Open \in Observation
        /\ Open.dram = dram /\ dram \in Nat /\ Open.counters = counters
    BY DEF TypeInv, TypeOK, Operand, Accepted, Open, Observation, LineOrNone
  <1>2. CachesAfter(t).r \in PrivateResult
    BY CachesAfterFacts
  <1>3. /\ WellFormed(GeomLLC, s.llc) /\ s.writes \in [1..3 -> LineOrNone]
        /\ s.fill \in {line, NoLine}
    BY <1>1, <1>2, SharedFacts DEF SharedAfter
  <1>4. s.fill \in LineOrNone
    BY <1>3 DEF LineOrNone
  <1> HIDE DEF s
  <1>5. /\ d \in Observation /\ d.dram = dram /\ d.counters = counters
        /\ knob.paired =>
              /\ d.pair.epoch["accesses"] = Open.pair.epoch["accesses"] \cup {line}
              /\ d.pair.whole["accesses"] = Open.pair.whole["accesses"] \cup {line}
              /\ d.pair.epoch["fills"] = Open.pair.epoch["fills"]
              /\ d.pair.whole["fills"] = Open.pair.whole["fills"]
              /\ d.pair.epoch["traffic"] = Open.pair.epoch["traffic"]
    BY <1>1, RecordDemandFacts
  <1> HIDE DEF d
  <1>6. CASE knob.useCache
    <2> DEFINE n == RecordOutcome(d, s)
    <2>1. ObservedBy(t) = n
      BY <1>6 DEF ObservedBy, ObservedAfter, s, d
    <2>2. /\ n \in Observation
          /\ d.dram <= n.dram /\ n.dram <= d.dram + 4
          /\ n.counters.total - n.dram = d.counters.total - d.dram
          /\ n.pair.epoch["accesses"] = d.pair.epoch["accesses"]
          /\ n.pair.whole["accesses"] = d.pair.whole["accesses"]
          /\ n.pair.epoch["fills"] = d.pair.epoch["fills"] \cup Moved(s.fill)
          /\ n.pair.whole["fills"] = d.pair.whole["fills"] \cup Moved(s.fill)
          /\ d.pair.epoch["traffic"] \cup Moved(s.fill) \subseteq n.pair.epoch["traffic"]
      BY <1>1, <1>3, <1>4, <1>5, RecordOutcomeFacts
    <2> HIDE DEF n
    <2>3. Moved(s.fill) \subseteq {line}
      BY <1>3 DEF Moved
    <2>4. n.dram \in Nat /\ n.counters.total \in Nat /\ counters.total \in Nat
      BY <1>1, <2>2 DEF Observation, Counters
    <2>5. WindowAgrees(Open) => WindowAgrees(n)
      BY <1>1, <1>5, <2>2, <2>3, <2>4 DEF WindowAgrees
    <2> QED
      BY <1>1, <1>3, <1>5, <2>1, <2>2, <2>4, <2>5 DEF s
  <1>7. CASE ~knob.useCache
    <2> DEFINE n == RecordDram(d, line, op[t].type)
    <2>1. ObservedBy(t) = n
      BY <1>7 DEF ObservedBy, ObservedAfter, d
    <2>2. RecordedTo(n, d, line, op[t].type)
      BY <1>1, <1>5, RecordDramFacts
    <2> HIDE DEF n
    <2>3. n.dram \in Nat /\ n.counters.total \in Nat /\ counters.total \in Nat
      BY <1>1, <2>2 DEF Observation, Counters, RecordedTo
    <2> QED
      BY <1>1, <1>3, <1>5, <1>7, <2>1, <2>2, <2>3 DEF RecordedTo, WindowAgrees, s
  <1> QED
    BY <1>6, <1>7

LEMMA ReferenceWindowStep ==
    ASSUME TypeInv, NEW t \in Threads, Reference(t)
    PROVE  /\ op[t].line \in Lines
           /\ WindowAfter(t) \in Observation /\ RefsAfter \in Nat
           /\ dram <= WindowAfter(t).dram /\ WindowAfter(t).dram <= dram + 4
           /\ ~Recording => WindowAfter(t).dram = dram
           /\ WindowAgrees(Open) => WindowAgrees(WindowAfter(t))
           /\ \/ /\ Kept(WindowAfter(t), RefsAfter, phase, active)
                 /\ Recording =>
                      \/ ~EpochDue(WindowAfter(t), RefsAfter)
                      \/ WindowAfter(t).counters.total = 0
              \/ Closed(WindowAfter(t), phase, active)
  <1>1. op[t].line \in Lines
    BY DEF Reference, AtLock, TypeInv, OperandKnown
  <1>2. Open \in Observation /\ Open.dram = dram /\ dram \in Nat /\ epochRefs \in Nat
    BY DEF TypeInv, TypeOK, Open, Observation
  <1>3. /\ ObservedBy(t) \in Observation
        /\ dram <= ObservedBy(t).dram /\ ObservedBy(t).dram <= dram + 4
        /\ WindowAgrees(Open) => WindowAgrees(ObservedBy(t))
    BY <1>1, ObservedFacts
  <1>4. IF Recording /\ EpochDue(WindowAfter(t), RefsAfter)
        THEN FinishEpoch(WindowAfter(t), RefsAfter, phase, active)
        ELSE KeepEpoch(WindowAfter(t), RefsAfter, phase, active)
    BY Zenon DEF Reference, WindowAfter, RefsAfter, Recording, ObservedBy, SharedAfter
  <1>5. \/ /\ Kept(WindowAfter(t), RefsAfter, phase, active)
           /\ Recording =>
                \/ ~EpochDue(WindowAfter(t), RefsAfter)
                \/ WindowAfter(t).counters.total = 0
        \/ Closed(WindowAfter(t), phase, active)
    BY <1>4, KeepEpochFacts, FinishEpochFacts, Zenon
  <1>6. /\ WindowAfter(t) \in Observation /\ RefsAfter \in Nat
        /\ dram <= WindowAfter(t).dram /\ WindowAfter(t).dram <= dram + 4
        /\ ~Recording => WindowAfter(t).dram = dram
        /\ WindowAgrees(Open) => WindowAgrees(WindowAfter(t))
    BY <1>2, <1>3 DEF WindowAfter, RefsAfter, ObservedBy
  <1> QED
    BY <1>1, <1>5, <1>6

LEMMA ReferenceTypes ==
    ASSUME TypeInv, NEW t \in Threads, Reference(t)
    PROVE  TypeInv'
  <1>1. op[t].line \in Lines /\ WindowTypes'
    BY ReferenceWindowStep, WindowTyped DEF TypeInv, TypeOK
  <1>2. /\ WellFormed(GeomL1, CachesAfter(t).l1) /\ WellFormed(GeomL2, CachesAfter(t).l2)
        /\ WellFormed(GeomLLC, SharedAfter(t).llc)
    BY <1>1, CachesAfterFacts, ObservedFacts
  <1>3. /\ l1' = [l1 EXCEPT ![t] = CachesAfter(t).l1]
        /\ l2' = [l2 EXCEPT ![t] = CachesAfter(t).l2]
        /\ llc' \in {llc, SharedAfter(t).llc}
        /\ refs' \in {refs, [refs EXCEPT ![t] = @ + 1]}
    BY DEF Reference, SharedAfter
  <1>4. /\ l1' \in [Threads -> Level] /\ l2' \in [Threads -> Level] /\ llc' \in Level
        /\ \A u \in Threads : WellFormed(GeomL1, l1'[u]) /\ WellFormed(GeomL2, l2'[u])
        /\ WellFormed(GeomLLC, llc')
        /\ refs' \in [Threads -> Nat]
    BY <1>2, <1>3 DEF TypeInv, TypeOK, WellFormed
  <1>5. /\ pc' \in [Threads -> {"unborn", "app", "line", "computed"}]
        /\ op' \in [Threads -> Operand] /\ OperandKnown'
    <2>1. /\ pc \in [Threads -> {"unborn", "app", "line", "computed"}]
          /\ op \in [Threads -> Operand] /\ OperandKnown
          /\ op[t].last \in {op[t].line, op[t].line + 1} /\ op[t].last \in Lines
          /\ Advance(t) /\ NoResult \in PrivateResult
      BY DEF TypeInv, TypeOK, OperandKnown, Reference, AtLock, NoResult, PrivateResult,
             LineOrNone
    <2>2. CASE op[t].line = op[t].last
      <3>1. NoOp \in Operand
        BY <2>1 DEF NoOp, Operand, LineOrNone, AccessType
      <3>2. pc' = [pc EXCEPT ![t] = "app"] /\ op' = [op EXCEPT ![t] = NoOp]
        BY <2>1, <2>2 DEF Advance, Leave
      <3> QED
        BY <2>1, <3>1, <3>2 DEF OperandKnown
    <2>3. CASE op[t].line # op[t].last
      <3>1. /\ pc' = [pc EXCEPT ![t] = "line"]
            /\ op' = [op EXCEPT ![t].line = @ + 1, ![t].r = NoResult]
            /\ op[t].line + 1 = op[t].last
        BY <2>1, <2>3 DEF Advance
      <3>2. op[t] \in Operand
        BY <2>1
      <3>3. /\ op'[t] = [line |-> op[t].last, last |-> op[t].last, type |-> op[t].type,
                         r |-> NoResult]
            /\ \A u \in Threads \ {t} : op'[u] = op[u]
            /\ DOMAIN op' = Threads
        BY <2>1, <3>1, <3>2 DEF Operand
      <3>4. op'[t] \in Operand
        BY <2>1, <3>2, <3>3 DEF Operand, LineOrNone
      <3>5. op' \in [Threads -> Operand]
        BY <2>1, <3>1, <3>3, <3>4
      <3> QED
        BY <2>1, <3>1, <3>3, <3>5 DEF OperandKnown
    <2> QED
      BY <2>2, <2>3
  <1>6. seen' \in History
    <2>1. /\ seen \in History /\ dram <= WindowAfter(t).dram /\ dram \in Nat
          /\ WindowAfter(t).dram \in Nat
      BY ReferenceWindowStep DEF TypeInv, TypeOK, Observation
    <2> DEFINE i == IF WindowAfter(t).dram > dram
                    THEN seen.intervals \cup {seen.interval} ELSE seen.intervals
    <2>2. seen' = [seen EXCEPT !.recorded = @ + (WindowAfter(t).dram - dram),
                               !.intervals = Intervals(i)]
      BY Zenon DEF Reference, WindowAfter, Recording, ObservedBy, SharedAfter
    <2>3. Intervals(i) \in SUBSET Nat
      BY <2>1 DEF Intervals, History
    <2> HIDE DEF i
    <2>4. seen.recorded + (WindowAfter(t).dram - dram) \in Nat
      BY <2>1 DEF History
    <2>5. seen' = [recorded |-> seen.recorded + (WindowAfter(t).dram - dram),
                   interval |-> seen.interval, intervals |-> Intervals(i),
                   skipped |-> seen.skipped]
      BY <2>1, <2>2 DEF History
    <2> QED
      BY <2>1, <2>3, <2>4, <2>5 DEF History
  <1>7. UNCHANGED <<knob, roiEnabled, clock, instructions, summary, operands>>
    BY DEF Reference
  <1> QED
    BY <1>1, <1>4, <1>5, <1>6, <1>7 DEF TypeInv, TypeOK, WindowTypes, clock, Running

(***************************************************************************)
(* The steps that may close an epoch without recording anything: a basic    *)
(* block, an ROI exit and the program's exit.  They hand the open window to *)
(* finishEpoch, or keep it, with a phase and a gate that stay consistent.   *)
(***************************************************************************)
Gate(ph, act, roi) ==
    /\ ph \in {"warmup", "profile"} /\ roi => act = 1
    /\ ph = "done" => act = 0

Boundary ==
    /\ \E ph \in Phases, act \in {0, 1} :
          /\ Kept(Open, epochRefs, ph, act) \/ Closed(Open, ph, act)
          /\ phase = "done" => ph = "done"
          /\ Gate(phase, active, roiEnabled) => Gate(ph, act, roiEnabled')
    /\ Running /\ roiEnabled' \in BOOLEAN
    /\ (Running => insCount \in Nat)'
    /\ profileStart' \in Nat /\ epochStart' \in Nat
    /\ seen' = [seen EXCEPT !.intervals = Intervals(@)]
    /\ UNCHANGED <<knob, caches, pc, op, refs, instructions, operands>>

LEMMA CountBblBoundary ==
    ASSUME TypeInv, NEW n \in BblSizes, CountBbl(n)
    PROVE  Boundary /\ UNCHANGED <<roiEnabled, summary>>
  <1> DEFINE now == insCount + n
             open == IF roiEnabled \/ knob.warmOutside THEN 1 ELSE 0
             next == IF knob.warmup # 0 THEN "warmup" ELSE "profile"
             Window == \E ph \in Phases, act \in {0, 1} :
                         /\ Kept(Open, epochRefs, ph, act) \/ Closed(Open, ph, act)
                         /\ phase = "done" => ph = "done"
                         /\ Gate(phase, active, roiEnabled) => Gate(ph, act, roiEnabled')
  <1>1. /\ phase \in Phases /\ active \in {0, 1} /\ roiEnabled \in BOOLEAN
        /\ insCount \in Nat /\ profileStart \in Nat /\ epochStart \in Nat /\ n \in Nat
    BY BoundAssumption DEF TypeInv, TypeOK, CountBbl
  <1>2. /\ insCount' = now /\ now \in Nat /\ Running
        /\ seen' = [seen EXCEPT !.intervals = Intervals(@)]
        /\ UNCHANGED <<knob, roiEnabled, caches, pc, op, refs, instructions,
                       summary, operands>>
    BY <1>1 DEF CountBbl
  <1>3. ASSUME NEW ph \in Phases, NEW act \in {0, 1},
               \/ KeepEpoch(Open, epochRefs, ph, act)
               \/ FinishEpoch(Open, epochRefs, ph, act),
               phase = "done" => ph = "done",
               Gate(phase, active, roiEnabled) => Gate(ph, act, roiEnabled)
        PROVE  Window
    <2>1. Kept(Open, epochRefs, ph, act) \/ Closed(Open, ph, act)
      BY <1>3, KeepEpochFacts, FinishEpochFacts
    <2>2. roiEnabled' = roiEnabled
      BY <1>2
    <2> QED
      BY <1>3, <2>1, <2>2, Zenon
  <1> HIDE DEF Window
  <1>4. CASE EndFastForward(now)
    <2>1. /\ phase = "fastforward" /\ profileStart' = now /\ epochStart' = now
          /\ KeepEpoch(Open, epochRefs, next, open)
      BY <1>4 DEF EndFastForward
    <2>2. next \in Phases /\ open \in {0, 1} /\ Gate(next, open, roiEnabled)
      BY DEF Phases, Gate
    <2> HIDE DEF next, open
    <2>3. Window
      BY <1>3, <2>1, <2>2
    <2> QED
      BY <1>1, <1>2, <2>1, <2>3 DEF Boundary, Window
  <1>5. CASE EndWarmup(now)
    <2>1. /\ phase = "warmup" /\ profileStart' = now /\ epochStart' = now
          /\ KeepEpoch(Open, epochRefs, "profile", active)
      BY <1>5 DEF EndWarmup
    <2>2. /\ "profile" \in Phases
          /\ Gate(phase, active, roiEnabled) => Gate("profile", active, roiEnabled)
      BY <2>1 DEF Phases, Gate
    <2>3. Window
      BY <1>1, <1>3, <2>1, <2>2
    <2> QED
      BY <1>1, <1>2, <2>1, <2>3 DEF Boundary, Window
  <1>6. CASE StopAtLength(now)
    <2>1. /\ UNCHANGED <<profileStart, epochStart>>
          /\ KeepEpoch(Open, epochRefs, "done", 0)
      BY <1>6 DEF StopAtLength
    <2>2. "done" \in Phases /\ 0 \in {0, 1} /\ Gate("done", 0, roiEnabled)
      BY DEF Phases, Gate
    <2>3. Window
      BY <1>3, <2>1, <2>2
    <2> QED
      BY <1>1, <1>2, <2>1, <2>3 DEF Boundary, Window
  <1>7. CASE CloseByInstructions(now)
    <2>1. /\ epochStart' = now /\ profileStart' = profileStart
          /\ FinishEpoch(Open, epochRefs, phase, active)
      BY <1>7 DEF CloseByInstructions
    <2>2. Window
      BY <1>1, <1>3, <2>1
    <2> QED
      BY <1>1, <1>2, <2>1, <2>2 DEF Boundary, Window
  <1>8. CASE OnlyCount(now)
    <2>1. /\ UNCHANGED <<profileStart, epochStart>>
          /\ KeepEpoch(Open, epochRefs, phase, active)
      BY <1>8 DEF OnlyCount
    <2>2. Window
      BY <1>1, <1>3, <2>1
    <2> QED
      BY <1>1, <1>2, <2>1, <2>2 DEF Boundary, Window
  <1> QED
    BY <1>4, <1>5, <1>6, <1>7, <1>8 DEF CountBbl

LEMMA RoiExitBoundary ==
    ASSUME TypeInv, NEW t \in Threads, RoiExit(t)
    PROVE  Boundary /\ roiEnabled' = FALSE /\ UNCHANGED summary
  <1>1. \/ FinishEpoch(Open, epochRefs, phase, GateOutside)
        \/ KeepEpoch(Open, epochRefs, phase, GateOutside)
    BY Zenon DEF RoiExit
  <1>2. Kept(Open, epochRefs, phase, GateOutside) \/ Closed(Open, phase, GateOutside)
    BY <1>1, KeepEpochFacts, FinishEpochFacts, Zenon
  <1>3. phase \in Phases /\ GateOutside \in {0, 1} /\ Gate(phase, GateOutside, FALSE)
    BY DEF TypeInv, TypeOK, Gate, GateOutside
  <1>4. /\ roiEnabled' = FALSE /\ seen' = [seen EXCEPT !.intervals = Intervals(@)]
        /\ Running
        /\ UNCHANGED <<knob, clock, caches, pc, op, refs, instructions, summary, operands>>
    BY DEF RoiExit
  <1>5. insCount' \in Nat /\ profileStart' \in Nat /\ epochStart' \in Nat
    BY <1>4 DEF TypeInv, TypeOK, clock, RoiExit
  <1> QED
    BY <1>2, <1>3, <1>4, <1>5 DEF Boundary

LEMMA OnFiniBoundary ==
    ASSUME TypeInv, NEW code, OnFini(code)
    PROVE  Boundary /\ roiEnabled' = roiEnabled
  <1>1. \/ FinishEpoch(Open, epochRefs, phase, active)
        \/ KeepEpoch(Open, epochRefs, phase, active)
    BY Zenon DEF OnFini
  <1>2. Kept(Open, epochRefs, phase, active) \/ Closed(Open, phase, active)
    BY <1>1, KeepEpochFacts, FinishEpochFacts, Zenon
  <1>3. phase \in Phases /\ active \in {0, 1} /\ roiEnabled \in BOOLEAN
        /\ profileStart \in Nat /\ epochStart \in Nat
    BY DEF TypeInv, TypeOK
  <1>4. /\ seen' = [seen EXCEPT !.intervals = Intervals(@)] /\ Running
        /\ UNCHANGED <<knob, roiEnabled, profileStart, epochStart, caches, pc, op, refs,
                       instructions, operands>>
    BY DEF OnFini
  <1>5. ~Running'
    <2>1. summary'.status # "running"
      BY DEF OnFini, Summary
    <2> QED
      BY <2>1 DEF Running, NoSummary
  <1> QED
    BY <1>2, <1>3, <1>4, <1>5 DEF Boundary

LEMMA BoundaryTypes ==
    ASSUME TypeInv, Boundary
    PROVE  TypeInv'
  <1>1. Open \in Observation /\ epochRefs \in Nat /\ epochId \in Nat
    BY DEF TypeInv, TypeOK, Open, Observation
  <1>2. WindowTypes'
    BY <1>1, WindowTyped DEF Boundary
  <1>3. seen' \in History
    <2>1. /\ seen \in History /\ Intervals(seen.intervals) \in SUBSET Nat
          /\ seen' = [seen EXCEPT !.intervals = Intervals(seen.intervals)]
      BY DEF TypeInv, TypeOK, Boundary, Intervals, History
    <2>2. seen' = [recorded |-> seen.recorded, interval |-> seen.interval,
                   intervals |-> Intervals(seen.intervals), skipped |-> seen.skipped]
      BY <2>1 DEF History
    <2> QED
      BY <2>1, <2>2 DEF History
  <1>4. /\ roiEnabled' \in BOOLEAN /\ (Running => insCount \in Nat)'
        /\ profileStart' \in Nat /\ epochStart' \in Nat
        /\ UNCHANGED <<knob, l1, l2, llc, pc, op, refs, instructions, operands>>
    BY DEF Boundary, caches
  <1> QED
    BY <1>2, <1>3, <1>4 DEF TypeInv, TypeOK, WindowTypes, OperandKnown

(***************************************************************************)
(* The steps that leave the window and the control state alone.  They may   *)
(* turn an operand away, behind a shut gate or after the end, or end the    *)
(* process without a summary.                                               *)
(***************************************************************************)
Still ==
    /\ UNCHANGED <<knob, control, window, output>>
    /\ UNCHANGED summary \/ summary' = Killed
    /\ \/ seen' = seen
       \/ /\ active = 0 \/ phase = "done"
          /\ seen' = [seen EXCEPT !.skipped = @ \cup {<<phase, roiEnabled>>}]

\* roiEnter opens the gate once the phases allow it.
Entered ==
    /\ roiEnabled' = TRUE
    /\ active' = IF phase \in {"warmup", "profile"} THEN 1 ELSE active
    /\ UNCHANGED <<knob, phase, refs, window, output, summary>>
    /\ seen' = [seen EXCEPT !.interval = IF roiEnabled THEN @ ELSE @ + 1]

\* An operand enters, has its private part computed, or is dropped.
LEMMA OperandSteps ==
    ASSUME TypeInv, NEW t \in Threads,
           \/ OnThreadStart(t) \/ SkipOperand(t) \/ ComputePrivate(t) \/ LateReference(t)
           \/ \E first \in Lines, type \in AccessType :
                 \E last \in {first, first + 1} \cap Lines : PassGate(t, first, last, type)
           \/ \E n \in BblSizes : CountBblLocal(t, n)
    PROVE  Still /\ refs' = refs /\ TypeInv'
  <1>0. /\ knob \in Knobs /\ Accepted(knob)
        /\ WindowTypes /\ roiEnabled \in BOOLEAN /\ seen \in History
        /\ Running => insCount \in Nat
        /\ profileStart \in Nat /\ epochStart \in Nat
        /\ l1 \in [Threads -> Level] /\ l2 \in [Threads -> Level] /\ llc \in Level
        /\ \A u \in Threads : WellFormed(GeomL1, l1[u]) /\ WellFormed(GeomL2, l2[u])
        /\ WellFormed(GeomLLC, llc)
        /\ pc \in [Threads -> {"unborn", "app", "line", "computed"}]
        /\ op \in [Threads -> Operand] /\ refs \in [Threads -> Nat]
        /\ instructions \in [Threads -> Nat] /\ operands \in Nat /\ OperandKnown
    BY DEF TypeInv, TypeOK, WindowTypes
  <1> DEFINE Same == UNCHANGED <<knob, control, clock, window, output, summary, refs>>
             more == seen.skipped \cup {<<phase, roiEnabled>>}
             Turned == [seen EXCEPT !.skipped = more]
  <1>1. Turned \in History
    <2>1. seen \in History /\ more \in SUBSET (Phases \X BOOLEAN)
      BY <1>0 DEF WindowTypes, History
    <2> HIDE DEF more
    <2> QED
      BY <2>1 DEF History
  <1>2. NoOp \in Operand /\ NoResult \in PrivateResult
    BY DEF NoOp, NoResult, Operand, LineOrNone, AccessType, PrivateResult
  <1> HIDE DEF Turned, more
  <1>3. ASSUME Same, seen' \in History,
               l1' \in [Threads -> Level], l2' \in [Threads -> Level], llc' = llc,
               \A u \in Threads : WellFormed(GeomL1, l1'[u]) /\ WellFormed(GeomL2, l2'[u]),
               pc' \in [Threads -> {"unborn", "app", "line", "computed"}],
               op' \in [Threads -> Operand], OperandKnown',
               instructions' \in [Threads -> Nat], operands' \in Nat
        PROVE  TypeInv'
    BY <1>0, <1>3 DEF TypeInv, TypeOK, WindowTypes, control, clock, window, output, Running
  <1>4. CASE OnThreadStart(t)
    <2>1. /\ Same /\ seen' = seen /\ pc' = [pc EXCEPT ![t] = "app"]
          /\ UNCHANGED <<l1, l2, llc, op, instructions, operands>>
      BY <1>4 DEF OnThreadStart, caches
    <2>2. OperandKnown'
      BY <1>0, <2>1 DEF OperandKnown
    <2> QED
      BY <1>0, <1>3, <2>1, <2>2 DEF Still
  <1>5. CASE SkipOperand(t)
    <2>1. /\ Same /\ seen' = Turned /\ active = 0 /\ operands' = operands + 1
          /\ UNCHANGED <<l1, l2, llc, pc, op, instructions>>
      BY <1>5 DEF SkipOperand, caches, Turned, more
    <2>2. OperandKnown'
      BY <1>0, <2>1 DEF OperandKnown
    <2> QED
      BY <1>0, <1>1, <1>3, <2>1, <2>2 DEF Still, Turned, more
  <1>6. CASE ComputePrivate(t)
    <2> DEFINE p == AccessPrivate(l1[t], l2[t], op[t].line, op[t].type)
    <2>1. /\ Same /\ seen' = seen /\ pc[t] = "line"
          /\ l1' = [l1 EXCEPT ![t] = p.l1] /\ l2' = [l2 EXCEPT ![t] = p.l2]
          /\ op' = [op EXCEPT ![t].r = p.r]
          /\ pc' = [pc EXCEPT ![t] = "computed"]
          /\ UNCHANGED <<llc, instructions, operands>>
      BY <1>6 DEF ComputePrivate
    <2>2. op[t].line \in Lines /\ op[t].type \in AccessType /\ op[t] \in Operand
      BY <1>0, <2>1 DEF OperandKnown, Operand
    <2>3. WellFormed(GeomL1, p.l1) /\ WellFormed(GeomL2, p.l2) /\ p.r \in PrivateResult
      BY <2>2, PrivateTyped
    <2> HIDE DEF p
    <2>4. p.l1 \in Level /\ p.l2 \in Level
      BY <2>3 DEF WellFormed
    <2>5. /\ op'[t] = [line |-> op[t].line, last |-> op[t].last, type |-> op[t].type, r |-> p.r]
          /\ \A u \in Threads \ {t} : op'[u] = op[u]
          /\ DOMAIN op' = Threads
      BY <1>0, <2>1, <2>2 DEF Operand
    <2>6. op'[t] \in Operand
      BY <2>2, <2>3, <2>5 DEF Operand
    <2>7. op' \in [Threads -> Operand]
      BY <1>0, <2>1, <2>5, <2>6
    <2>8. OperandKnown'
      <3>1. op'[t].line = op[t].line /\ op'[t].last = op[t].last
        BY <2>5
      <3> QED
        BY <1>0, <2>1, <2>5, <3>1 DEF OperandKnown
    <2> QED
      BY <1>0, <1>3, <2>1, <2>3, <2>4, <2>7, <2>8 DEF Still
  <1>7. CASE LateReference(t)
    <2>1. /\ Same /\ seen' = Turned /\ phase = "done"
          /\ pc' = [pc EXCEPT ![t] = "app"] /\ op' = [op EXCEPT ![t] = NoOp]
          /\ UNCHANGED <<l1, l2, llc, instructions, operands>>
      BY <1>7 DEF LateReference, Leave, caches, Turned, more
    <2>2. OperandKnown'
      BY <1>0, <2>1 DEF OperandKnown
    <2> QED
      BY <1>0, <1>1, <1>2, <1>3, <2>1, <2>2 DEF Still, Turned, more
  <1>8. CASE \E first \in Lines, type \in AccessType :
               \E last \in {first, first + 1} \cap Lines : PassGate(t, first, last, type)
    <2>0. PICK first \in Lines, type \in AccessType :
             \E last \in {first, first + 1} \cap Lines : PassGate(t, first, last, type)
      BY <1>8
    <2>1. PICK last \in {first, first + 1} \cap Lines : PassGate(t, first, last, type)
      BY <2>0
    <2> DEFINE new == [line |-> first, last |-> last, type |-> type, r |-> NoResult]
    <2>2. /\ Same /\ seen' = seen /\ operands' = operands + 1
          /\ pc' = [pc EXCEPT ![t] = "line"] /\ op' = [op EXCEPT ![t] = new]
          /\ UNCHANGED <<l1, l2, llc, instructions>>
      BY <2>1 DEF PassGate, caches
    <2>3. new \in Operand /\ new.line = first /\ new.last = last
      BY <1>2 DEF Operand, LineOrNone
    <2> HIDE DEF new
    <2>4. OperandKnown'
      BY <1>0, <2>2, <2>3 DEF OperandKnown
    <2> QED
      BY <1>0, <1>3, <2>2, <2>3, <2>4 DEF Still
  <1>9. CASE \E n \in BblSizes : CountBblLocal(t, n)
    <2>1. PICK n \in BblSizes : CountBblLocal(t, n)
      BY <1>9
    <2>2. /\ Same /\ seen' = seen /\ n \in Nat
          /\ instructions' = [instructions EXCEPT ![t] = @ + n]
          /\ UNCHANGED <<l1, l2, llc, pc, op, operands>>
      BY <2>1, BoundAssumption DEF CountBblLocal, caches
    <2>3. OperandKnown' /\ instructions' \in [Threads -> Nat]
      BY <1>0, <2>2 DEF OperandKnown
    <2> QED
      BY <1>0, <1>3, <2>2, <2>3 DEF Still
  <1> QED
    BY <1>4, <1>5, <1>6, <1>7, <1>8, <1>9

LEMMA RoiEnterStep ==
    ASSUME TypeInv, NEW t \in Threads, RoiEnter(t)
    PROVE  Entered /\ TypeInv'
  <1> DEFINE v == IF roiEnabled THEN seen.interval ELSE seen.interval + 1
  <1>1. /\ roiEnabled' = TRUE /\ epochStart' = insCount /\ insCount \in Nat
        /\ active' = IF phase \in {"warmup", "profile"} THEN 1 ELSE active
        /\ seen' = [seen EXCEPT !.interval = v]
        /\ UNCHANGED <<knob, phase, insCount, profileStart, caches, pc, op, refs,
                       instructions, window, output, summary, operands>>
    BY DEF RoiEnter, TypeInv, TypeOK
  <1>2. seen \in History /\ v \in Nat
    BY DEF TypeInv, TypeOK, History
  <1> HIDE DEF v
  <1>3. seen' \in History
    BY <1>1, <1>2 DEF History
  <1>4. TypeInv'
    BY <1>1, <1>3 DEF TypeInv, TypeOK, OperandKnown, caches, window, output, Running
  <1>5. seen' = [seen EXCEPT !.interval = IF roiEnabled THEN @ ELSE @ + 1]
    BY DEF RoiEnter
  <1> QED
    BY <1>1, <1>4, <1>5 DEF Entered

\* Every step is one of four kinds, and keeps the types.
Exits == \E code : OnFini(code)

LEMMA StepKinds ==
    ASSUME TypeInv, [Next]_vars
    PROVE  /\ TypeInv'
           /\ \/ Still /\ refs' = refs
              \/ Entered
              \/ /\ Boundary /\ (UNCHANGED summary \/ Exits)
                 /\ roiEnabled' = roiEnabled \/ \E t \in Threads : RoiExit(t)
              \/ \E t \in Threads : Reference(t)
  <1>1. CASE UNCHANGED vars
    <2>1. TypeInv'
      BY <1>1 DEF TypeInv, TypeOK, OperandKnown, vars, control, clock, caches, window,
                  output, Running
    <2>2. Still /\ refs' = refs
      BY <1>1 DEF Still, vars
    <2> QED
      BY <2>1, <2>2
  <1>2. ASSUME NEW t \in Threads,
               \/ OnThreadStart(t) \/ SkipOperand(t) \/ ComputePrivate(t) \/ LateReference(t)
               \/ \E first \in Lines, type \in AccessType :
                     \E last \in {first, first + 1} \cap Lines :
                        PassGate(t, first, last, type)
               \/ \E n \in BblSizes : CountBblLocal(t, n)
        PROVE  Still /\ refs' = refs /\ TypeInv'
    BY <1>2, OperandSteps
  <1>3. ASSUME NEW t \in Threads, Reference(t)
        PROVE  TypeInv'
    BY <1>3, ReferenceTypes
  <1>4. ASSUME NEW t \in Threads, RoiEnter(t)
        PROVE  Entered /\ TypeInv'
    BY <1>4, RoiEnterStep
  <1>5. ASSUME NEW t \in Threads, RoiExit(t)
        PROVE  Boundary /\ UNCHANGED summary /\ TypeInv'
    BY <1>5, RoiExitBoundary, BoundaryTypes
  <1>6. ASSUME NEW n \in BblSizes, CountBbl(n)
        PROVE  Boundary /\ UNCHANGED <<summary, roiEnabled>> /\ TypeInv'
    BY <1>6, CountBblBoundary, BoundaryTypes
  <1>7. ASSUME NEW code, OnFini(code)
        PROVE  Boundary /\ Exits /\ roiEnabled' = roiEnabled /\ TypeInv'
    BY <1>7, OnFiniBoundary, BoundaryTypes DEF Exits
  <1>8. ASSUME NEW t \in Threads, UnsupportedVector(t)
        PROVE  Still /\ refs' = refs /\ TypeInv'
    <2>1. /\ UNCHANGED <<knob, control, clock, caches, pc, op, refs, instructions, window,
                         output, operands, seen>>
          /\ summary' = Killed /\ Running
      BY <1>8 DEF UnsupportedVector
    <2> QED
      BY <2>1 DEF Still, TypeInv, TypeOK, OperandKnown, control, clock, caches, window,
                  output, Running
  <1> QED
    BY <1>1, <1>2, <1>3, <1>4, <1>5, <1>6, <1>7, <1>8, Zenon DEF Next

LEMMA InitTypes == Init => TypeInv
  <1> SUFFICES ASSUME Init PROVE TypeInv
    OBVIOUS
  <1>1. knob \in Knobs /\ Accepted(knob)
    BY ConfigAssumption DEF Init
  <1>2. /\ WellFormed(GeomL1, EmptyLevel) /\ WellFormed(GeomL2, EmptyLevel)
        /\ WellFormed(GeomLLC, EmptyLevel) /\ EmptyLevel \in Level
    BY EmptyWellFormed, GeometryAssumption DEF WellFormed
  <1>3. NoOp \in Operand
    BY DEF NoOp, NoResult, Operand, LineOrNone, AccessType, PrivateResult
  <1>4. EmptyPair \in Pair /\ EmptyCounters \in Counters
    BY ClearedTypes DEF EmptyPair, Pair
  <1>5. seen \in History
    BY DEF Init, History
  <1>6. phase \in Phases /\ active \in {0, 1} /\ roiEnabled \in BOOLEAN
    BY DEF Init, Phases
  <1> QED
    BY <1>1, <1>2, <1>3, <1>4, <1>5, <1>6 DEF Init, TypeInv, TypeOK, OperandKnown

LEMMA TypesHold == Spec => []TypeInv
  <1>1. Init => TypeInv
    BY InitTypes
  <1>2. TypeInv /\ [Next]_vars => TypeInv'
    BY StepKinds
  <1> QED
    BY <1>1, <1>2, PTL DEF Spec

(***************************************************************************)
(* The tool's state keeps its types (TypeOK), with well-formed cache        *)
(* levels, whatever the threads, the geometry and the command line.         *)
(***************************************************************************)
THEOREM ToolTypes == Spec => []TypeOK
  <1>1. TypeInv => TypeOK
    BY DEF TypeInv
  <1> QED
    BY <1>1, TypesHold, PTL

-----------------------------------------------------------------------------
(***************************************************************************)
(* The window.  WindowBound and FillsWithinAccesses are not inductive       *)
(* without the agreement of the two DRAM counters: finishEpoch decides by   *)
(* the page counters whether there is anything to close, analyzeMemRef by   *)
(* the DRAM counter whether the window is due.                              *)
(***************************************************************************)
WindowInv == WindowAgrees(Open) /\ WindowBound

\* A window kept or closed agrees if the value handed over does.
LEMMA WindowCarried ==
    ASSUME knob \in Knobs, NEW o \in Observation, NEW n, NEW ph, NEW act, WindowAgrees(o),
           knob' = knob,
           Kept(o, n, ph, act) \/ Closed(o, ph, act)
    PROVE  WindowAgrees(Open)' /\ dram' \in {0, o.dram}
  <1>0. o.pair \in Pair
    BY DEF Observation
  <1>1. CASE Kept(o, n, ph, act)
    BY <1>1 DEF Kept, WindowAgrees, Open
  <1>2. CASE Closed(o, ph, act)
    <2>1. /\ EmptyCounters.total = 0
          /\ PairEndEpoch(o.pair).whole = o.pair.whole
          /\ PairEndEpoch(o.pair).epoch["fills"] = {}
      BY <1>0, ClearedTypes, StreamNames
    <2>2. /\ counters' = EmptyCounters /\ dram' = 0
          /\ knob.paired => pair' = PairEndEpoch(o.pair)
      BY <1>2 DEF Closed
    <2>3. Open'.dram = Open'.counters.total
      BY <2>1, <2>2 DEF Open
    <2>4. ASSUME knob'.paired
          PROVE  /\ Open'.pair.epoch["fills"] \subseteq Open'.pair.epoch["accesses"]
                 /\ Open'.pair.epoch["fills"] \subseteq Open'.pair.epoch["traffic"]
                 /\ Open'.pair.whole["fills"] \subseteq Open'.pair.whole["accesses"]
      <3>1. knob.paired
        BY <2>4
      <3>2. Open'.pair = PairEndEpoch(o.pair)
        BY <2>2, <3>1 DEF Open
      <3>3. o.pair.whole["fills"] \subseteq o.pair.whole["accesses"]
        BY <3>1 DEF WindowAgrees
      <3> QED
        BY <2>1, <3>2, <3>3
    <2> QED
      BY <2>2, <2>3, <2>4 DEF WindowAgrees
  <1> QED
    BY <1>1, <1>2

LEMMA WindowStep ==
    ASSUME TypeInv, WindowInv, [Next]_vars
    PROVE  /\ WindowInv'
           /\ EpochTarget # 0 /\ epochId' # epochId =>
                  dram + (seen'.recorded - seen.recorded) <= EpochTarget + 3
  <1>1. /\ Open \in Observation /\ Open.dram = dram /\ dram \in Nat
        /\ seen \in History /\ seen.recorded \in Nat
        /\ EpochTarget \in Nat
    BY DEF TypeInv, TypeOK, Open, Observation, History, EpochTarget, Knobs
  <1>2. ASSUME knob' = knob, dram' \in {0, dram}, seen'.recorded = seen.recorded,
               WindowAgrees(Open)'
        PROVE  /\ WindowInv'
               /\ EpochTarget # 0 => dram + (seen'.recorded - seen.recorded) <= EpochTarget + 3
    <2>1. EpochTarget' = EpochTarget
      BY <1>2 DEF EpochTarget
    <2> QED
      BY <1>1, <1>2, <2>1 DEF WindowInv, WindowBound
  <1>3. CASE Still
    <2>1. /\ knob' = knob /\ dram' = dram /\ counters' = counters /\ pair' = pair
          /\ seen'.recorded = seen.recorded
      BY <1>1, <1>3 DEF Still, window, History
    <2>2. WindowAgrees(Open)'
      BY <2>1 DEF WindowInv, WindowAgrees, Open
    <2> QED
      BY <1>2, <2>1, <2>2
  <1>4. CASE Entered
    <2>1. /\ knob' = knob /\ dram' = dram /\ counters' = counters /\ pair' = pair
          /\ seen'.recorded = seen.recorded
      BY <1>1, <1>4 DEF Entered, window, History
    <2>2. WindowAgrees(Open)'
      BY <2>1 DEF WindowInv, WindowAgrees, Open
    <2> QED
      BY <1>2, <2>1, <2>2
  <1>5. CASE Boundary
    <2>1. knob' = knob /\ seen'.recorded = seen.recorded
      BY <1>1, <1>5 DEF Boundary, History
    <2>2. WindowAgrees(Open)' /\ dram' \in {0, dram}
      BY <1>1, <1>5, <2>1, WindowCarried DEF Boundary, WindowInv, TypeInv, TypeOK
    <2> QED
      BY <1>2, <2>1, <2>2
  <1>6. ASSUME NEW t \in Threads, Reference(t)
        PROVE  /\ WindowInv'
               /\ EpochTarget # 0 =>
                      dram + (seen'.recorded - seen.recorded) <= EpochTarget + 3
    <2> DEFINE o == WindowAfter(t)
    <2>1. /\ o \in Observation /\ dram <= o.dram /\ o.dram <= dram + 4
          /\ ~Recording => o.dram = dram
          /\ WindowAgrees(o)
          /\ \/ /\ Kept(o, RefsAfter, phase, active)
                /\ Recording => ~EpochDue(o, RefsAfter) \/ o.counters.total = 0
             \/ Closed(o, phase, active)
      BY <1>6, ReferenceWindowStep DEF WindowInv
    <2>2. knob' = knob /\ seen'.recorded = seen.recorded + (o.dram - dram)
      BY <1>1, <1>6 DEF Reference, History, WindowAfter, Recording, ObservedBy, SharedAfter
    <2> HIDE DEF o
    <2>3. WindowAgrees(Open)' /\ o.dram \in Nat /\ EpochTarget' = EpochTarget
      BY <2>1, <2>2, WindowCarried DEF Observation, EpochTarget, TypeInv, TypeOK
    <2>4. EpochTarget # 0 => dram < EpochTarget
      BY DEF WindowInv, WindowBound
    <2>5. EpochTarget # 0 => dram + (seen'.recorded - seen.recorded) <= EpochTarget + 3
      BY <1>1, <2>1, <2>2, <2>3, <2>4
    <2>6. CASE Closed(o, phase, active)
      BY <1>1, <2>3, <2>5, <2>6 DEF Closed, WindowInv, WindowBound
    <2>7. CASE Kept(o, RefsAfter, phase, active) /\ ~Recording
      BY <1>1, <2>1, <2>3, <2>4, <2>5, <2>7 DEF Kept, WindowInv, WindowBound
    <2>8. CASE Kept(o, RefsAfter, phase, active) /\ ~EpochDue(o, RefsAfter)
      BY <1>1, <2>3, <2>5, <2>8 DEF Kept, EpochDue, WindowInv, WindowBound
    <2>9. CASE Kept(o, RefsAfter, phase, active) /\ o.counters.total = 0
      BY <1>1, <2>1, <2>3, <2>5, <2>9 DEF Kept, WindowAgrees, WindowInv, WindowBound
    <2> QED
      BY <2>1, <2>6, <2>7, <2>8, <2>9
  <1> QED
    BY <1>2, <1>3, <1>4, <1>5, <1>6, StepKinds

LEMMA WindowHolds == Spec => []WindowInv
  <1>1. Init => WindowInv
    BY ConfigAssumption, ClearedTypes
       DEF Init, WindowInv, WindowAgrees, WindowBound, Open, EmptyPair, EpochTarget, Knobs,
           Streams
  <1>2. TypeInv /\ WindowInv /\ [Next]_vars => WindowInv'
    BY WindowStep
  <1> QED
    BY <1>1, <1>2, TypesHold, PTL DEF Spec

(***************************************************************************)
(* No DRAM-access window stays open at its target (WindowBound): the check  *)
(* in analyzeMemRef's locked section suffices for every number of threads.  *)
(***************************************************************************)
THEOREM WindowsClose == Spec => []WindowBound
  <1>1. WindowInv => WindowBound
    BY DEF WindowInv
  <1> QED
    BY <1>1, WindowHolds, PTL

\* A closed window overshoots its target by at most three accesses (Overshoot).
THEOREM WindowsOvershoot == Spec => Overshoot
  <1>1. TypeInv /\ WindowInv /\ [Next]_vars =>
            [EpochTarget # 0 /\ epochId' # epochId =>
                dram + (seen'.recorded - seen.recorded) <= EpochTarget + 3]_vars
    BY WindowStep
  <1> QED
    BY <1>1, TypesHold, WindowHolds, PTL DEF Spec, Overshoot

(***************************************************************************)
(* Every filled line of a paired window was demanded, and moved, in that    *)
(* window (FillsWithinAccesses), and over the run.                          *)
(***************************************************************************)
THEOREM FillsAreDemanded == Spec => []FillsWithinAccesses
  <1>1. WindowInv => FillsWithinAccesses
    BY DEF WindowInv, WindowAgrees, Open, FillsWithinAccesses
  <1> QED
    BY <1>1, WindowHolds, PTL

-----------------------------------------------------------------------------
(***************************************************************************)
(* The gate.  `active` is written at six places under the lock and read     *)
(* without it; what makes that sound is its relation to the phase and to    *)
(* the ROI flag, and what the operands turned away so far say of the phase. *)
(***************************************************************************)
SkipsExplained ==
    /\ <<"profile", TRUE>> \notin seen.skipped
    /\ \A b \in BOOLEAN : <<"done", b>> \in seen.skipped => phase = "done"
    /\ summary.status = "complete" => phase # "done"

GateInv == Gate(phase, active, roiEnabled) /\ SkipsExplained

\* Keeping or closing a window hands over the phase and the gate, or ends.
LEMMA HandedOver ==
    ASSUME NEW o, NEW n, NEW ph, NEW act, NEW roi, Kept(o, n, ph, act) \/ Closed(o, ph, act)
    PROVE  /\ Gate(ph, act, roi) => Gate(phase', active', roi)
           /\ phase' \in {ph, "done"}
  BY DEF Kept, Closed, Gate

LEMMA GateStep ==
    ASSUME TypeInv, GateInv, [Next]_vars
    PROVE  /\ GateInv'
           /\ phase = "done" => /\ phase' = "done" /\ active' = 0
                                /\ seen'.recorded = seen.recorded /\ refs' = refs
  <1>1. /\ seen \in History /\ roiEnabled \in BOOLEAN /\ phase \in Phases
        /\ active \in {0, 1}
    BY DEF TypeInv, TypeOK
  <1>2. CASE Still /\ refs' = refs
    <2>1. /\ UNCHANGED <<phase, active, roiEnabled, refs>>
          /\ UNCHANGED summary \/ summary'.status = "killed"
          /\ seen'.recorded = seen.recorded
          /\ \/ seen'.skipped = seen.skipped
             \/ /\ active = 0 \/ phase = "done"
                /\ seen'.skipped = seen.skipped \cup {<<phase, roiEnabled>>}
      BY <1>1, <1>2 DEF Still, control, History, Killed
    <2>2. <<"profile", TRUE>> \notin seen'.skipped
      <3>1. <<"profile", TRUE>> = <<phase, roiEnabled>> => phase = "profile" /\ roiEnabled
        BY Zenon
      <3>2. phase = "profile" /\ roiEnabled => active = 1 /\ phase # "done"
        BY DEF GateInv, Gate
      <3>3. <<"profile", TRUE>> \notin seen.skipped
        BY DEF GateInv, SkipsExplained
      <3>4. CASE seen'.skipped = seen.skipped
        BY <3>3, <3>4
      <3>5. CASE /\ active = 0 \/ phase = "done"
                 /\ seen'.skipped = seen.skipped \cup {<<phase, roiEnabled>>}
        <4>1. ~(phase = "profile" /\ roiEnabled)
          BY <3>2, <3>5
        <4>2. <<"profile", TRUE>> # <<phase, roiEnabled>>
          BY <3>1, <4>1, Zenon
        <4> QED
          BY <3>3, <3>5, <4>2, Zenon
      <3> QED
        BY <2>1, <3>4, <3>5
    <2>3. \A b \in BOOLEAN : <<"done", b>> \in seen'.skipped => phase = "done"
      BY <2>1 DEF GateInv, SkipsExplained
    <2> QED
      BY <2>1, <2>2, <2>3 DEF GateInv, SkipsExplained, Gate
  <1>3. CASE Entered
    <2>1. /\ UNCHANGED <<phase, summary, refs>> /\ roiEnabled' = TRUE
          /\ active' = IF phase \in {"warmup", "profile"} THEN 1 ELSE active
          /\ seen'.recorded = seen.recorded /\ seen'.skipped = seen.skipped
      BY <1>1, <1>3 DEF Entered, History
    <2> QED
      BY <2>1 DEF GateInv, SkipsExplained, Gate
  <1>4. CASE Boundary /\ (UNCHANGED summary \/ Exits)
    <2>1. /\ seen'.recorded = seen.recorded /\ seen'.skipped = seen.skipped
          /\ refs' = refs /\ Running
      BY <1>1, <1>4 DEF Boundary, History
    <2>2. PICK ph \in Phases, act \in {0, 1} :
            /\ Kept(Open, epochRefs, ph, act) \/ Closed(Open, ph, act)
            /\ phase = "done" => ph = "done"
            /\ Gate(ph, act, roiEnabled')
      BY <1>4 DEF Boundary, GateInv
    <2>3. Gate(phase', active', roiEnabled') /\ phase' \in {ph, "done"}
      BY <2>2, HandedOver
    <2>4. summary'.status = "complete" => phase' # "done"
      <3>1. CASE UNCHANGED summary
        BY <2>1, <3>1 DEF Running, NoSummary
      <3>2. CASE Exits
        <4>1. PICK code : summary' = Summary(code)
          BY <3>2 DEF Exits, OnFini
        <4>2. phase' = "done" => summary'.status \in {"no data", "application_failed", "limited"}
          BY <4>1 DEF Summary
        <4> QED
          BY <4>2
      <3> QED
        BY <1>4, <3>1, <3>2
    <2>5. Gate(phase, active, roiEnabled)' /\ (phase = "done" => phase' = "done")
      BY <2>2, <2>3
    <2> QED
      BY <2>1, <2>4, <2>5 DEF GateInv, SkipsExplained, Gate
  <1>5. ASSUME NEW t \in Threads, Reference(t)
        PROVE  GateInv' /\ phase # "done"
    <2>1. /\ phase # "done" /\ Running /\ UNCHANGED <<roiEnabled, summary>>
          /\ seen'.skipped = seen.skipped
      BY <1>1, <1>5 DEF Reference, History
    <2>2. \/ Kept(WindowAfter(t), RefsAfter, phase, active)
          \/ Closed(WindowAfter(t), phase, active)
      BY <1>5, ReferenceWindowStep
    <2>3. Gate(phase', active', roiEnabled)
      BY <2>2, HandedOver DEF GateInv
    <2>4. summary'.status = "running"
      BY <2>1 DEF Running, NoSummary
    <2> QED
      BY <2>1, <2>3, <2>4 DEF GateInv, SkipsExplained, Gate
  <1> QED
    BY <1>2, <1>3, <1>4, <1>5, StepKinds

LEMMA GateHolds == Spec => []GateInv
  <1>1. Init => GateInv
    BY DEF Init, GateInv, Gate, SkipsExplained, NoSummary
  <1>2. TypeInv /\ GateInv /\ [Next]_vars => GateInv'
    BY GateStep
  <1> QED
    BY <1>1, <1>2, TypesHold, PTL DEF Spec

(***************************************************************************)
(* No operand executed inside the ROI in the profile phase is turned away,  *)
(* and none at all by the end of the collection in a complete run           *)
(* (NothingMissed).                                                         *)
(***************************************************************************)
THEOREM GateMissesNothing == Spec => []NothingMissed
  <1>1. GateInv => NothingMissed
    BY DEF GateInv, SkipsExplained, NothingMissed
  <1> QED
    BY <1>1, GateHolds, PTL

(***************************************************************************)
(* A collection that has stopped stays stopped and records nothing, for any *)
(* number of threads past the gate (StoppedForGood).                        *)
(***************************************************************************)
THEOREM StopIsFinal == Spec => StoppedForGood
  <1>1. TypeInv /\ GateInv /\ [Next]_vars =>
            [phase = "done" => /\ phase' = "done" /\ active' = 0
                                /\ seen'.recorded = seen.recorded /\ refs' = refs]_vars
    BY GateStep
  <1> QED
    BY <1>1, TypesHold, GateHolds, PTL DEF Spec, StoppedForGood

-----------------------------------------------------------------------------
(***************************************************************************)
(* What the observers of one window have in common.                         *)
(***************************************************************************)
\* The window o of n references, as its observers see it.
Exact(o, n) ==
    /\ Whole(o.counters)
    /\ knob.paired =>
         /\ o.pair.epochEvents["traffic"] = o.dram
         /\ o.pair.epoch["traffic"] = Touched(o.counters)
         /\ o.pair.epochEvents["accesses"] = n

\* Recording on one stream counts one event there and none elsewhere.
LEMMA PairRecordEvents ==
    ASSUME NEW p \in Pair, NEW line \in Lines
    PROVE  /\ PairRecord(p, line, "fills").epochEvents["traffic"] = p.epochEvents["traffic"]
           /\ PairRecord(p, line, "fills").epochEvents["accesses"] = p.epochEvents["accesses"]
           /\ PairRecord(p, line, "traffic").epochEvents["traffic"]
                 = p.epochEvents["traffic"] + 1
           /\ PairRecord(p, line, "traffic").epochEvents["accesses"] = p.epochEvents["accesses"]
           /\ PairRecord(p, line, "accesses").epochEvents["traffic"] = p.epochEvents["traffic"]
           /\ PairRecord(p, line, "accesses").epochEvents["accesses"]
                 = p.epochEvents["accesses"] + 1
  <1>1. p.epochEvents \in [Streams -> Nat]
    BY DEF Pair
  <1>2. \A s \in Streams : PairRecord(p, line, s).epochEvents
                              = [p.epochEvents EXCEPT ![s] = @ + 1]
    BY DEF PairRecord, PlusOne
  <1>3. "accesses" # "fills" /\ "fills" # "traffic" /\ "accesses" # "traffic"
    OBVIOUS
  <1> QED
    BY <1>1, <1>2, <1>3, StreamNames

\* recordDram is seen by every observer of DRAM traffic, and by no other.
LEMMA RecordDramExact ==
    ASSUME knob \in Knobs, NEW o \in Observation, NEW line \in LineOrNone,
           NEW type \in AccessType, NEW n, Exact(o, n)
    PROVE  Exact(RecordDram(o, line, type), n)
  <1> DEFINE mid == IF type = "read" THEN PairRecord(o.pair, line, "fills") ELSE o.pair
             last == PairRecord(mid, line, "traffic")
             counted == CountAccess(o.counters, line, type)
  <1>0. o.counters \in Counters /\ o.dram \in Nat /\ o.pair \in Pair
    BY DEF Observation
  <1>1. CASE line = NoLine
    BY <1>1 DEF RecordDram
  <1>2. CASE line # NoLine
    <2>1. line \in Lines
      BY <1>2 DEF LineOrNone
    <2>2. RecordDram(o, line, type)
             = [counters |-> counted, dram |-> o.dram + 1,
                pair |-> IF ~knob.paired THEN o.pair ELSE last]
      BY <1>2 DEF RecordDram
    <2>3. Whole(counted) /\ Touched(counted) = Touched(o.counters) \cup {line}
      BY <1>0, <2>1, CountAccessFacts, CountAccessWhole DEF Exact
    <2>4. /\ mid \in Pair
          /\ mid.epochEvents["traffic"] = o.pair.epochEvents["traffic"]
          /\ mid.epochEvents["accesses"] = o.pair.epochEvents["accesses"]
          /\ mid.epoch["traffic"] = o.pair.epoch["traffic"]
      BY <1>0, <2>1, PairRecordNamed, PairRecordEvents
    <2> HIDE DEF mid, counted
    <2>5. /\ last.epochEvents["traffic"] = mid.epochEvents["traffic"] + 1
          /\ last.epochEvents["accesses"] = mid.epochEvents["accesses"]
          /\ last.epoch["traffic"] = mid.epoch["traffic"] \cup {line}
      BY <2>1, <2>4, PairRecordNamed, PairRecordEvents
    <2> HIDE DEF last
    <2> DEFINE w == RecordDram(o, line, type)
    <2>6. /\ w.counters = counted /\ w.dram = o.dram + 1
          /\ knob.paired => w.pair = last
      BY <2>2
    <2> HIDE DEF w
    <2>7. Exact(w, n)
      BY <2>3, <2>4, <2>5, <2>6 DEF Exact
    <2> QED
      BY <2>7 DEF w
  <1> QED
    BY <1>1, <1>2

\* The same for all the accesses of one reference.
LEMMA RecordOutcomeExact ==
    ASSUME knob \in Knobs, NEW o \in Observation, NEW s,
           s.writes \in [1..3 -> LineOrNone], s.fill \in LineOrNone,
           NEW n, Exact(o, n)
    PROVE  Exact(RecordOutcome(o, s), n)
  <1> DEFINE wb(x, i) == IF knob.countWB THEN RecordDram(x, s.writes[i], "write") ELSE x
             a == wb(o, 1)
             b == wb(a, 2)
             c == wb(b, 3)
  <1>1. ASSUME NEW x \in Observation, NEW i \in 1..3, Exact(x, n)
        PROVE  wb(x, i) \in Observation /\ Exact(wb(x, i), n)
    <2>1. s.writes[i] \in LineOrNone /\ "write" \in AccessType
      BY AccessTypes
    <2> DEFINE y == RecordDram(x, s.writes[i], "write")
    <2>2. Exact(y, n)
      BY <1>1, <2>1, RecordDramExact
    <2>3. RecordedTo(y, x, s.writes[i], "write")
      BY <2>1, RecordDramFacts
    <2>4. wb(x, i) = IF knob.countWB THEN y ELSE x
      OBVIOUS
    <2> HIDE DEF y, wb
    <2> QED
      BY <1>1, <2>2, <2>3, <2>4 DEF RecordedTo
  <1>2. a = wb(o, 1) /\ b = wb(a, 2) /\ c = wb(b, 3)
    OBVIOUS
  <1>3. RecordOutcome(o, s) = RecordDram(c, s.fill, "read")
    BY DEF RecordOutcome
  <1> HIDE DEF wb, a, b, c
  <1>4. a \in Observation /\ Exact(a, n)
    BY <1>1, <1>2
  <1>5. b \in Observation /\ Exact(b, n)
    BY <1>1, <1>2, <1>4
  <1>6. c \in Observation /\ Exact(c, n)
    BY <1>1, <1>2, <1>5
  <1>7. Exact(RecordDram(c, s.fill, "read"), n)
    BY <1>6, AccessTypes, RecordDramExact
  <1> QED
    BY <1>3, <1>7

\* A demanded line is one more reference of the window.
LEMMA RecordDemandExact ==
    ASSUME NEW o \in Observation, NEW line \in Lines, NEW n, Exact(o, n)
    PROVE  Exact(RecordDemand(o, line), n + 1)
  <1> DEFINE q == PairRecord(o.pair, line, "accesses")
  <1>0. o.pair \in Pair
    BY DEF Observation
  <1>1. /\ q.epochEvents["traffic"] = o.pair.epochEvents["traffic"]
        /\ q.epochEvents["accesses"] = o.pair.epochEvents["accesses"] + 1
        /\ q.epoch["traffic"] = o.pair.epoch["traffic"]
    BY <1>0, PairRecordNamed, PairRecordEvents
  <1>2. knob.paired => RecordDemand(o, line)
                         = [counters |-> o.counters, dram |-> o.dram, pair |-> q]
    BY DEF RecordDemand, Observation
  <1>3. ~knob.paired => RecordDemand(o, line) = o
    BY DEF RecordDemand
  <1> HIDE DEF q
  <1> QED
    BY <1>1, <1>2, <1>3 DEF Exact

\* What a reference hands over is exact, whatever other threads did meanwhile.
LEMMA ReferenceExact ==
    ASSUME TypeInv, NEW t \in Threads, Reference(t), Exact(Open, epochRefs)
    PROVE  Exact(WindowAfter(t), RefsAfter)
  <1> DEFINE s == SharedAfter(t)
             line == op[t].line
             d == RecordDemand(Open, line)
  <1>1. /\ knob \in Knobs /\ (knob.paired => knob.useCache)
        /\ WellFormed(GeomLLC, llc)
        /\ op[t].type \in AccessType /\ Open \in Observation
    BY DEF TypeInv, TypeOK, Operand, Accepted, Open, Observation
  <1>2. line \in Lines
    BY ReferenceWindowStep
  <1>3. CachesAfter(t).r \in PrivateResult
    BY <1>2, CachesAfterFacts
  <1>4. s.writes \in [1..3 -> LineOrNone] /\ s.fill \in {line, NoLine}
    BY <1>1, <1>2, <1>3, SharedFacts DEF SharedAfter
  <1>5. s.fill \in LineOrNone /\ line \in LineOrNone
    BY <1>2, <1>4 DEF LineOrNone
  <1>6. d \in Observation /\ Exact(d, epochRefs + 1)
    BY <1>1, <1>2, RecordDemandFacts, RecordDemandExact
  <1> HIDE DEF s, d
  <1>7. ASSUME Recording
        PROVE  Exact(WindowAfter(t), epochRefs + 1)
    <2>1. CASE knob.useCache
      <3>1. WindowAfter(t) = RecordOutcome(d, s)
        BY <1>7, <2>1 DEF WindowAfter, ObservedAfter, s, d
      <3> QED
        BY <1>1, <1>4, <1>5, <1>6, <3>1, RecordOutcomeExact
    <2>2. CASE ~knob.useCache
      <3>1. WindowAfter(t) = RecordDram(d, line, op[t].type)
        BY <1>7, <2>2 DEF WindowAfter, ObservedAfter, d
      <3> QED
        BY <1>1, <1>5, <1>6, <3>1, RecordDramExact
    <2> QED
      BY <2>1, <2>2
  <1> QED
    BY <1>7 DEF WindowAfter, RefsAfter

-----------------------------------------------------------------------------
(***************************************************************************)
(* What the observers and the files say.  The raw dump covers the epochs    *)
(* because a window is closed only if the page counters saw an access: then *)
(* some word is touched, and its page is dumped if it has an access.        *)
(***************************************************************************)
DumpCovers ==
    /\ \E S : files.csv \in Seq(S)
    /\ ~knob.paired /\ ~files.capped /\ knob.dumpMin <= 1 =>
        /\ {r[1] : r \in files.bin} = 0..(epochId - 1)
        /\ {files.csv[i].epoch : i \in DOMAIN files.csv} = 0..(epochId - 1)

ObserverInv == Exact(Open, epochRefs) /\ DumpCovers

\* An exact window is handed on exactly, or closed and empty.
LEMMA ExactCarried ==
    ASSUME NEW o \in Observation, NEW n, NEW ph, NEW act, Exact(o, n), knob' = knob,
           Kept(o, n, ph, act) \/ Closed(o, ph, act)
    PROVE  Exact(Open, epochRefs)'
  <1>1. CASE Kept(o, n, ph, act)
    <2>1. counters' = o.counters /\ dram' = o.dram /\ pair' = o.pair /\ epochRefs' = n
      BY <1>1 DEF Kept
    <2> QED
      BY <2>1 DEF Exact, Open
  <1>2. CASE Closed(o, ph, act)
    <2>1. /\ counters' = EmptyCounters /\ dram' = 0 /\ epochRefs' = 0
          /\ knob.paired => pair' = PairEndEpoch(o.pair)
      BY <1>2 DEF Closed
    <2>2. Whole(EmptyCounters) /\ Touched(EmptyCounters) = {}
      BY EmptyWhole
    <2>5. /\ PairEndEpoch(o.pair).epoch["traffic"] = {}
          /\ PairEndEpoch(o.pair).epochEvents["traffic"] = 0
          /\ PairEndEpoch(o.pair).epochEvents["accesses"] = 0
      BY StreamNames DEF PairEndEpoch, Observation, Pair
    <2> QED
      BY <2>1, <2>2, <2>5 DEF Exact, Open
  <1> QED
    BY <1>1, <1>2

\* What is written for a closed window makes the dump cover it.
LEMMA DumpCarried ==
    ASSUME TypeInv, NEW o \in Observation, NEW n, NEW ph, NEW act, Exact(o, n), knob' = knob,
           DumpCovers, Kept(o, n, ph, act) \/ Closed(o, ph, act)
    PROVE  DumpCovers'
  <1>0. epochId \in Nat /\ knob \in Knobs /\ knob.dumpMin \in Nat
    BY DEF TypeInv, TypeOK, Knobs
  <1>1. CASE Kept(o, n, ph, act)
    BY <1>1 DEF Kept, DumpCovers
  <1>2. CASE Closed(o, ph, act)
    <2> DEFINE pages == TouchedPages(o.counters)
               row == [epoch |-> epochId, pages |-> Cardinality(pages),
                       accesses |-> AccessesIn(o.counters)]
    <2>1. epochId' = epochId + 1 /\ Emitted(o)
      BY <1>2 DEF Closed
    <2>2. PICK dumped \in SUBSET pages :
             /\ Dump(o.counters, dumped)
             /\ files'.bin = files.bin \cup {<<epochId, p>> : p \in dumped}
             /\ files'.csv = IF Cardinality(pages) = 0 THEN files.csv
                             ELSE Append(files.csv, row)
             /\ files'.capped = (files.capped \/ dumped # Dumpable(o.counters))
      BY <2>1 DEF Emitted
    <2>3. ~knob.paired => o.counters.total # 0
      BY <2>1 DEF Emitted
    <2>4. row.epoch = epochId
      OBVIOUS
    <2> HIDE DEF row
    <2>5. PICK S : files.csv \in Seq(S)
      BY DEF DumpCovers
    <2>6. /\ files.csv \in Seq(S \cup {row})
          /\ Append(files.csv, row) \in Seq(S \cup {row})
          /\ {Append(files.csv, row)[i].epoch : i \in DOMAIN Append(files.csv, row)}
                = {files.csv[i].epoch : i \in DOMAIN files.csv} \cup {epochId}
      <3>1. files.csv \in Seq(S \cup {row})
        BY <2>5
      <3>2. /\ Append(files.csv, row) \in Seq(S \cup {row})
            /\ DOMAIN files.csv = 1..Len(files.csv) /\ Len(files.csv) \in Nat
            /\ DOMAIN Append(files.csv, row) = 1..(Len(files.csv) + 1)
            /\ \A i \in 1..Len(files.csv) : Append(files.csv, row)[i] = files.csv[i]
            /\ Append(files.csv, row)[Len(files.csv) + 1] = row
        BY <3>1
      <3> QED
        BY <2>4, <3>1, <3>2
    <2>7. \E R : files'.csv \in Seq(R)
      BY <2>2, <2>6
    <2>8. ASSUME ~knob.paired, ~files'.capped, knob.dumpMin <= 1
          PROVE  /\ {r[1] : r \in files'.bin} = 0..(epochId' - 1)
                 /\ {files'.csv[i].epoch : i \in DOMAIN files'.csv} = 0..(epochId' - 1)
      <3>1. ~files.capped /\ dumped = Dumpable(o.counters)
        BY <2>2, <2>8
      <3>2. /\ Whole(o.counters) /\ IsFiniteSet(pages)
            /\ \A p \in Pages : PageTotals(o.counters)[p] # 0 <=> p \in pages
        BY DEF Exact, Whole
      <3>3. PICK page \in pages : page \in Pages
        BY <2>3, <2>8, <3>2, UntouchedIsEmpty DEF TouchedPages
      <3>4. PageTotal(o.counters, page) \in Nat /\ PageTotal(o.counters, page) # 0
        BY <3>2, <3>3 DEF PageTotal, PageTotals, Observation, Counters
      <3>5. page \in dumped
        BY <1>0, <2>8, <3>1, <3>3, <3>4 DEF Dumpable
      <3>6. {r[1] : r \in files'.bin} = {r[1] : r \in files.bin} \cup {epochId}
        <4> DEFINE more == {<<epochId, p>> : p \in dumped}
        <4>1. files'.bin = files.bin \cup more
          BY <2>2
        <4>2. <<epochId, page>> \in more /\ \A r \in more : r[1] = epochId
          BY <3>5
        <4> HIDE DEF more
        <4>3. \E r \in more : r[1] = epochId
          BY <4>2
        <4> QED
          BY <4>1, <4>2, <4>3
      <3>7. Cardinality(pages) # 0
        BY <3>2, <3>3, FS_EmptySet
      <3>8. {files'.csv[i].epoch : i \in DOMAIN files'.csv}
               = {files.csv[i].epoch : i \in DOMAIN files.csv} \cup {epochId}
        BY <2>2, <2>6, <3>7
      <3>9. /\ {r[1] : r \in files.bin} = 0..(epochId - 1)
            /\ {files.csv[i].epoch : i \in DOMAIN files.csv} = 0..(epochId - 1)
        BY <2>8, <3>1 DEF DumpCovers
      <3>10. (0..(epochId - 1)) \cup {epochId} = 0..(epochId' - 1)
        BY <1>0, <2>1
      <3> QED
        BY <3>6, <3>8, <3>9, <3>10, Zenon
    <2> QED
      BY <2>7, <2>8 DEF DumpCovers
  <1> QED
    BY <1>1, <1>2

LEMMA ObserverStep ==
    ASSUME TypeInv, ObserverInv, [Next]_vars
    PROVE  ObserverInv'
  <1>1. Open \in Observation
    BY DEF TypeInv, TypeOK, Open, Observation
  <1>2. ASSUME UNCHANGED <<knob, window, output>>
        PROVE  ObserverInv'
    <2>1. DumpCovers'
      BY <1>2 DEF output, ObserverInv, DumpCovers
    <2>2. Exact(Open, epochRefs)'
      BY <1>2 DEF window, ObserverInv, Exact, Open
    <2> QED
      BY <2>1, <2>2 DEF ObserverInv
  <1>3. CASE Still
    BY <1>2, <1>3 DEF Still
  <1>4. CASE Entered
    BY <1>2, <1>4 DEF Entered
  <1>5. CASE Boundary
    <2>1. /\ knob' = knob
          /\ \E ph \in Phases, act \in {0, 1} :
                Kept(Open, epochRefs, ph, act) \/ Closed(Open, ph, act)
      BY <1>5 DEF Boundary
    <2> QED
      BY <1>1, <2>1, ExactCarried, DumpCarried DEF ObserverInv
  <1>6. ASSUME NEW t \in Threads, Reference(t)
        PROVE  ObserverInv'
    <2>1. /\ WindowAfter(t) \in Observation
          /\ \/ Kept(WindowAfter(t), RefsAfter, phase, active)
             \/ Closed(WindowAfter(t), phase, active)
      BY <1>6, ReferenceWindowStep
    <2>2. Exact(WindowAfter(t), RefsAfter)
      BY <1>6, ReferenceExact DEF ObserverInv
    <2>3. knob' = knob
      BY <1>6 DEF Reference
    <2> QED
      BY <2>1, <2>2, <2>3, ExactCarried, DumpCarried DEF ObserverInv
  <1> QED
    BY <1>3, <1>4, <1>5, <1>6, StepKinds

LEMMA ObserversHold == Spec => []ObserverInv
  <1>1. Init => ObserverInv
    <2> SUFFICES ASSUME Init PROVE ObserverInv
      OBVIOUS
    <2>1. /\ counters = EmptyCounters /\ dram = 0 /\ pair = EmptyPair /\ epochRefs = 0
          /\ epochId = 0 /\ files.csv = <<>> /\ files.bin = {}
      BY DEF Init
    <2>2. Whole(EmptyCounters) /\ Touched(EmptyCounters) = {}
      BY EmptyWhole
    <2>4. /\ EmptyPair.epoch["traffic"] = {} /\ EmptyPair.epochEvents["traffic"] = 0
          /\ EmptyPair.epochEvents["accesses"] = 0
      BY StreamNames DEF EmptyPair
    <2>5. DumpCovers
      <3>1. files.csv \in Seq({}) /\ DOMAIN files.csv = {}
        BY <2>1
      <3> QED
        BY <2>1, <3>1 DEF DumpCovers
    <2> QED
      BY <2>1, <2>2, <2>4, <2>5 DEF ObserverInv, Exact, Open
  <1>2. TypeInv /\ ObserverInv /\ [Next]_vars => ObserverInv'
    BY ObserverStep
  <1> QED
    BY <1>1, <1>2, TypesHold, PTL DEF Spec

(***************************************************************************)
(* The DRAM counter, the page counters and the traffic stream count the     *)
(* same accesses and mark the same words, and the access stream counts the  *)
(* window's references (ObserversAgree), for any number of threads.         *)
(***************************************************************************)
THEOREM ObserversNeverDisagree == Spec => []ObserversAgree
  <1>1. WindowInv /\ ObserverInv => ObserversAgree
    BY DEF WindowInv, WindowAgrees, ObserverInv, Exact, Open, Touched, ObserversAgree
  <1> QED
    BY <1>1, WindowHolds, ObserversHold, PTL

(***************************************************************************)
(* Of an unpaired run, an uncapped and unfiltered raw dump has a page       *)
(* record and an epoch row for every epoch id, and for no other             *)
(* (RawCoversEpochs).                                                       *)
(***************************************************************************)
THEOREM RawDumpsAreWhole == Spec => []RawCoversEpochs
  <1>1. ObserverInv => RawCoversEpochs
    BY DEF ObserverInv, DumpCovers, RawCoversEpochs
  <1> QED
    BY <1>1, ObserversHold, PTL

-----------------------------------------------------------------------------
(***************************************************************************)
(* With -roi_epoch an open window is fed by the current invocation of the   *)
(* region, and by none once the region was left.                            *)
(***************************************************************************)
RoiInv ==
    knob.roiEpoch => /\ seen.intervals \subseteq {seen.interval}
                     /\ ~roiEnabled => seen.intervals = {}

\* Leaving the region closes what is open, if anything is.
LEMMA RoiExitEmpties ==
    ASSUME TypeInv, WindowInv, NEW t \in Threads, RoiExit(t), knob.roiEpoch
    PROVE  dram' = 0
  <1>1. dram \in Nat /\ dram = counters.total /\ Open.dram = dram /\ Open.counters = counters
    BY DEF TypeInv, TypeOK, WindowInv, WindowAgrees, Open
  <1>2. CASE Pending
    <2>1. FinishEpoch(Open, epochRefs, phase, GateOutside)
      BY <1>2, Zenon DEF RoiExit
    <2>2. \/ Kept(Open, epochRefs, phase, GateOutside) /\ Open.counters.total = 0
          \/ Closed(Open, phase, GateOutside)
      BY <2>1, FinishEpochFacts
    <2> QED
      BY <1>1, <2>2 DEF Kept, Closed
  <1>3. CASE ~Pending
    <2>1. KeepEpoch(Open, epochRefs, phase, GateOutside)
      BY <1>3, Zenon DEF RoiExit
    <2> QED
      BY <1>1, <1>3, <2>1 DEF KeepEpoch, Pending
  <1> QED
    BY <1>2, <1>3

LEMMA RoiStep ==
    ASSUME TypeInv, WindowInv, RoiInv, [Next]_vars
    PROVE  RoiInv'
  <1>1. seen \in History /\ roiEnabled \in BOOLEAN /\ dram \in Nat
    BY DEF TypeInv, TypeOK
  <1>2. CASE Still
    <2>1. UNCHANGED <<knob, roiEnabled>>
      BY <1>2 DEF Still, control
    <2>2. seen'.interval = seen.interval /\ seen'.intervals = seen.intervals
      BY <1>1, <1>2 DEF Still, History
    <2> QED
      BY <2>1, <2>2 DEF RoiInv
  <1>3. CASE Entered
    <2>1. /\ knob' = knob /\ roiEnabled' = TRUE /\ seen'.intervals = seen.intervals
          /\ roiEnabled => seen'.interval = seen.interval
      BY <1>1, <1>3 DEF Entered, History
    <2> QED
      BY <2>1 DEF RoiInv
  <1>4. CASE Boundary /\ roiEnabled' = roiEnabled
    <2>1. /\ knob' = knob /\ seen'.interval = seen.interval
          /\ seen'.intervals = Intervals(seen.intervals)
      BY <1>1, <1>4 DEF Boundary, History
    <2> QED
      BY <1>4, <2>1 DEF RoiInv, Intervals
  <1>5. ASSUME NEW t \in Threads, RoiExit(t), Boundary
        PROVE  RoiInv'
    <2>1. /\ knob' = knob /\ seen'.interval = seen.interval
          /\ seen'.intervals = Intervals(seen.intervals)
      BY <1>1, <1>5 DEF Boundary, History
    <2>2. knob.roiEpoch => seen'.intervals = {}
      BY <1>5, <2>1, RoiExitEmpties DEF Intervals
    <2> QED
      BY <2>1, <2>2 DEF RoiInv
  <1>6. ASSUME NEW t \in Threads, Reference(t)
        PROVE  RoiInv'
    <2> DEFINE o == WindowAfter(t)
    <2>1. /\ UNCHANGED <<knob, roiEnabled>> /\ seen'.interval = seen.interval
          /\ seen'.intervals = Intervals(IF o.dram > dram
                                         THEN seen.intervals \cup {seen.interval}
                                         ELSE seen.intervals)
      BY <1>1, <1>6, Zenon DEF Reference, History
    <2>2. ~roiEnabled => o.dram = dram
      BY <1>6, ReferenceWindowStep DEF Recording
    <2> HIDE DEF o
    <2> QED
      BY <1>1, <2>1, <2>2 DEF RoiInv, Intervals
  <1> QED
    BY <1>2, <1>3, <1>4, <1>5, <1>6, StepKinds

(***************************************************************************)
(* With -roi_epoch no two invocations of the region feed one epoch          *)
(* (OneInvocation), however many there are and whichever thread leaves.     *)
(***************************************************************************)
THEOREM InvocationsApart == Spec => []OneInvocation
  <1>1. Init => RoiInv
    BY DEF Init, RoiInv
  <1>2. TypeInv /\ WindowInv /\ RoiInv /\ [Next]_vars => RoiInv'
    BY RoiStep
  <1>3. RoiInv => OneInvocation
    <2> SUFFICES ASSUME RoiInv, knob.roiEpoch
                 PROVE  Cardinality(seen.intervals) <= 1
      BY DEF OneInvocation
    <2>1. seen.intervals = {} \/ seen.intervals = {seen.interval}
      BY DEF RoiInv
    <2>2. Cardinality({}) = 0
      BY FS_EmptySet
    <2>3. Cardinality({seen.interval}) = 1
      BY FS_Singleton
    <2>4. CASE seen.intervals = {}
      BY <2>2, <2>4
    <2>5. CASE seen.intervals = {seen.interval}
      BY <2>3, <2>5
    <2> QED
      BY <2>1, <2>4, <2>5
  <1> QED
    BY <1>1, <1>2, <1>3, TypesHold, WindowHolds, PTL DEF Spec

-----------------------------------------------------------------------------
(***************************************************************************)
(* The books.  What every observer counted is in the closed epochs, whose   *)
(* rows are in the files, or in the open window.                            *)
(***************************************************************************)
\* What the epoch rows and the paired rows count, in order.
CsvCounts == [i \in DOMAIN files.csv |-> files.csv[i].accesses]
PairedCounts == [i \in DOMAIN files.paired |-> files.paired[i].events["accesses"]]

\* A paired observer whose closed epochs counted base.
Steady(p, base) ==
    \A s \in Streams : /\ p.totalEvents[s] = base[s] + p.epochEvents[s]
                       /\ p.epoch[s] = {} => p.epochEvents[s] = 0

\* The books with the window o of n references open, of m references and r
\* recorded accesses in all.
Ledger(o, n, base, m, r) ==
    /\ totals.accesses \in Nat /\ totals.accesses + o.dram = r
    /\ \E S : files.csv \in Seq(S)
    /\ CsvCounts \in Seq(Nat) /\ SumFunction(CsvCounts) = totals.accesses
    /\ knob.paired =>
         /\ \E S : files.paired \in Seq(S)
         /\ PairedCounts \in Seq(Nat) /\ SumFunction(PairedCounts) = base["accesses"]
         /\ Steady(o.pair, base)
         /\ base["traffic"] = totals.accesses
         /\ base["accesses"] + n = m

Ledgered(m, r) == \E base \in [Streams -> Nat] : Ledger(Open, epochRefs, base, m, r)

\* At exit the open window holds nothing, and the summary has the totals.
Final ==
    ~Running /\ summary # Killed =>
        /\ dram = 0 /\ summary.dram = totals.accesses
        /\ knob.paired => epochRefs = 0 /\ summary.memRefs = SumOver(refs)

\* A thread that has not started has no references.
ThreadsKnown ==
    /\ IsFiniteSet(Started)
    /\ \A t \in Threads : pc[t] = "unborn" => refs[t] = 0

BooksInv == ThreadsKnown /\ Ledgered(SumOver(refs), seen.recorded) /\ Final

LEMMA SteadyRecord ==
    ASSUME NEW p \in Pair, NEW base \in [Streams -> Nat], Steady(p, base),
           NEW line \in Lines, NEW s \in Streams
    PROVE  Steady(PairRecord(p, line, s), base) /\ PairRecord(p, line, s) \in Pair
  <1> DEFINE q == PairRecord(p, line, s)
  <1>1. /\ p.epochEvents \in [Streams -> Nat] /\ p.totalEvents \in [Streams -> Nat]
        /\ p.epoch \in [Streams -> SUBSET Lines]
    BY DEF Pair
  <1>2. /\ q.epochEvents = [p.epochEvents EXCEPT ![s] = @ + 1]
        /\ q.totalEvents = [p.totalEvents EXCEPT ![s] = @ + 1]
        /\ q.epoch = [p.epoch EXCEPT ![s] = @ \cup {line}]
    BY DEF PairRecord, PlusOne
  <1>3. q \in Pair
    BY PairRecordFacts
  <1> HIDE DEF q
  <1>4. ASSUME NEW u \in Streams
        PROVE  /\ q.totalEvents[u] = base[u] + q.epochEvents[u]
               /\ q.epoch[u] = {} => q.epochEvents[u] = 0
    <2>1. p.totalEvents[u] = base[u] + p.epochEvents[u] /\ base[u] \in Nat
          /\ (p.epoch[u] = {} => p.epochEvents[u] = 0)
      BY DEF Steady
    <2>2. p.epochEvents[u] \in Nat /\ p.totalEvents[u] \in Nat
      BY <1>1
    <2>3. CASE u = s
      <3>1. /\ q.epochEvents[u] = p.epochEvents[u] + 1
            /\ q.totalEvents[u] = p.totalEvents[u] + 1
            /\ q.epoch[u] # {}
        BY <1>1, <1>2, <2>3
      <3> QED
        BY <2>1, <2>2, <3>1
    <2>4. CASE u # s
      BY <1>1, <1>2, <2>1, <2>4
    <2> QED
      BY <2>3, <2>4
  <1> QED
    BY <1>3, <1>4 DEF Steady, q

LEMMA SteadyDram ==
    ASSUME NEW o \in Observation, NEW base \in [Streams -> Nat],
           knob.paired => Steady(o.pair, base),
           NEW line \in LineOrNone, NEW type \in AccessType
    PROVE  knob.paired => Steady(RecordDram(o, line, type).pair, base)
  <1> SUFFICES ASSUME knob.paired PROVE Steady(RecordDram(o, line, type).pair, base)
    OBVIOUS
  <1>1. o.pair \in Pair /\ Steady(o.pair, base)
    BY DEF Observation
  <1>2. CASE line = NoLine
    BY <1>1, <1>2 DEF RecordDram
  <1>3. CASE line # NoLine
    <2> DEFINE mid == IF type = "read" THEN PairRecord(o.pair, line, "fills") ELSE o.pair
               last == PairRecord(mid, line, "traffic")
    <2>1. line \in Lines
      BY <1>3 DEF LineOrNone
    <2>2. mid \in Pair /\ Steady(mid, base)
      BY <1>1, <2>1, SteadyRecord, StreamNames
    <2>3. RecordDram(o, line, type).pair = last
      BY <1>3 DEF RecordDram
    <2> HIDE DEF mid
    <2>4. Steady(last, base)
      BY <2>1, <2>2, SteadyRecord, StreamNames
    <2> QED
      BY <2>3, <2>4
  <1> QED
    BY <1>2, <1>3

LEMMA SteadyOutcome ==
    ASSUME knob \in Knobs, NEW o \in Observation, NEW base \in [Streams -> Nat],
           knob.paired => Steady(o.pair, base),
           NEW s, s.writes \in [1..3 -> LineOrNone], s.fill \in LineOrNone
    PROVE  knob.paired => Steady(RecordOutcome(o, s).pair, base)
  <1> DEFINE wb(x, i) == IF knob.countWB THEN RecordDram(x, s.writes[i], "write") ELSE x
             a == wb(o, 1)
             b == wb(a, 2)
             c == wb(b, 3)
             Fine(x) == x \in Observation /\ (knob.paired => Steady(x.pair, base))
  <1>1. ASSUME NEW x, Fine(x), NEW i \in 1..3
        PROVE  Fine(wb(x, i))
    <2>1. s.writes[i] \in LineOrNone /\ "write" \in AccessType
      BY AccessTypes
    <2> DEFINE y == RecordDram(x, s.writes[i], "write")
    <2>2. knob.paired => Steady(y.pair, base)
      BY <1>1, <2>1, SteadyDram
    <2>3. RecordedTo(y, x, s.writes[i], "write")
      BY <1>1, <2>1, RecordDramFacts
    <2>4. wb(x, i) = IF knob.countWB THEN y ELSE x
      OBVIOUS
    <2> HIDE DEF y, wb
    <2> QED
      BY <1>1, <2>2, <2>3, <2>4 DEF RecordedTo
  <1>2. a = wb(o, 1) /\ b = wb(a, 2) /\ c = wb(b, 3)
    OBVIOUS
  <1>3. RecordOutcome(o, s) = RecordDram(c, s.fill, "read")
    BY DEF RecordOutcome
  <1>4. Fine(o)
    OBVIOUS
  <1> HIDE DEF wb, a, b, c, Fine
  <1>5. Fine(a)
    BY <1>1, <1>2, <1>4
  <1>6. Fine(b)
    BY <1>1, <1>2, <1>5
  <1>7. Fine(c)
    BY <1>1, <1>2, <1>6
  <1>8. knob.paired => Steady(RecordDram(c, s.fill, "read").pair, base)
    BY <1>7, AccessTypes, SteadyDram DEF Fine
  <1> QED
    BY <1>3, <1>8

\* The books before a reference that is recorded, and after it.
LEMMA ReferenceSteady ==
    ASSUME TypeInv, NEW t \in Threads, Reference(t), NEW base \in [Streams -> Nat],
           knob.paired => Steady(pair, base)
    PROVE  knob.paired => Steady(WindowAfter(t).pair, base)
  <1> DEFINE s == SharedAfter(t)
             line == op[t].line
             d == RecordDemand(Open, line)
  <1>0. SUFFICES ASSUME knob.paired PROVE Steady(WindowAfter(t).pair, base)
    OBVIOUS
  <1>1. /\ knob \in Knobs /\ knob.useCache
        /\ WellFormed(GeomLLC, llc) /\ pair \in Pair
        /\ Open \in Observation /\ Open.pair = pair
    BY <1>0 DEF TypeInv, TypeOK, Accepted, Open, Observation
  <1>2. line \in Lines
    BY ReferenceWindowStep
  <1>3. CachesAfter(t).r \in PrivateResult
    BY <1>2, CachesAfterFacts
  <1>4. s.writes \in [1..3 -> LineOrNone] /\ s.fill \in {line, NoLine}
    BY <1>1, <1>2, <1>3, SharedFacts DEF SharedAfter
  <1>5. s.fill \in LineOrNone
    BY <1>2, <1>4 DEF LineOrNone
  <1>6. d \in Observation
    BY <1>1, <1>2, RecordDemandFacts
  <1>7. d.pair = PairRecord(pair, line, "accesses")
    BY <1>0 DEF RecordDemand, Open
  <1>8. Steady(d.pair, base)
    BY <1>0, <1>1, <1>2, <1>7, SteadyRecord, StreamNames
  <1> HIDE DEF s, d
  <1>9. CASE Recording
    <2>1. WindowAfter(t) = RecordOutcome(d, s)
      BY <1>1, <1>9 DEF WindowAfter, ObservedAfter, s, d
    <2> QED
      BY <1>0, <1>1, <1>4, <1>5, <1>6, <1>8, <2>1, SteadyOutcome
  <1>10. CASE ~Recording
    BY <1>0, <1>1, <1>10 DEF WindowAfter
  <1> QED
    BY <1>9, <1>10

-----------------------------------------------------------------------------
\* What finishEpoch writes when it closes the window o.
Filed(o) ==
    /\ counters' = EmptyCounters /\ dram' = 0 /\ epochRefs' = 0
    /\ pair' = IF knob.paired THEN PairEndEpoch(o.pair) ELSE o.pair
    /\ totals'.accesses = totals.accesses + AccessesIn(o.counters)
    /\ \/ files'.csv = files.csv /\ Cardinality(TouchedPages(o.counters)) = 0
       \/ \E row : row.accesses = AccessesIn(o.counters) /\ files'.csv = Append(files.csv, row)
    /\ knob.paired => \E row : /\ row.events = o.pair.epochEvents
                               /\ files'.paired = Append(files.paired, row)

LEMMA FinishSplit ==
    ASSUME NEW o, NEW n, NEW ph, NEW act, FinishEpoch(o, n, ph, act)
    PROVE  \/ /\ KeepEpoch(o, n, ph, act)
              /\ o.counters.total = 0 /\ (~knob.paired \/ PairIsEmpty(o.pair))
           \/ Filed(o)
  <1>1. CASE o.counters.total = 0 /\ (~knob.paired \/ PairIsEmpty(o.pair))
    BY <1>1, Zenon DEF FinishEpoch
  <1>2. CASE ~(o.counters.total = 0 /\ (~knob.paired \/ PairIsEmpty(o.pair)))
    <2>1. PICK dumped \in SUBSET TouchedPages(o.counters) :
             /\ Dump(o.counters, dumped)
             /\ files' =
                  [csv    |-> IF Cardinality(TouchedPages(o.counters)) = 0 THEN files.csv
                              ELSE Append(files.csv,
                                     [epoch |-> epochId,
                                      pages |-> Cardinality(TouchedPages(o.counters)),
                                      accesses |-> AccessesIn(o.counters)]),
                   bin    |-> files.bin \cup {<<epochId, p>> : p \in dumped},
                   paired |-> IF ~knob.paired THEN files.paired
                              ELSE Append(files.paired, [events |-> o.pair.epochEvents,
                                                         masks |-> o.pair.epoch]),
                   capped |-> files.capped \/ dumped # Dumpable(o.counters)]
      BY <1>2, Zenon DEF FinishEpoch
    <2>2. /\ counters' = EmptyCounters /\ dram' = 0 /\ epochRefs' = 0
          /\ pair' = IF knob.paired THEN PairEndEpoch(o.pair) ELSE o.pair
          /\ totals' = [pages       |-> totals.pages + Cardinality(TouchedPages(o.counters)),
                        accesses    |-> totals.accesses + AccessesIn(o.counters),
                        histogram   |-> [i \in Bins |-> totals.histogram[i]
                                                          + PagesWith(o.counters, i)],
                        saturations |-> totals.saturations + o.counters.saturations]
      BY <1>2, Zenon DEF FinishEpoch
    <2> DEFINE row == [epoch |-> epochId, pages |-> Cardinality(TouchedPages(o.counters)),
                       accesses |-> AccessesIn(o.counters)]
               prow == [events |-> o.pair.epochEvents, masks |-> o.pair.epoch]
    <2>3. row.accesses = AccessesIn(o.counters) /\ prow.events = o.pair.epochEvents
      OBVIOUS
    <2>4. files'.csv = (IF Cardinality(TouchedPages(o.counters)) = 0 THEN files.csv
                        ELSE Append(files.csv, row))
          /\ files'.paired = (IF ~knob.paired THEN files.paired ELSE Append(files.paired, prow))
      BY <2>1
    <2> HIDE DEF row, prow
    <2>5. totals'.accesses = totals.accesses + AccessesIn(o.counters)
      BY <2>2
    <2> QED
      BY <2>2, <2>3, <2>4, <2>5, Zenon DEF Filed
  <1> QED
    BY <1>1, <1>2

\* A window that is kept keeps the books.
LEMMA KeptBooks ==
    ASSUME NEW o, NEW n, NEW ph, NEW act, NEW base \in [Streams -> Nat], NEW m, NEW r,
           Ledger(o, n, base, m, r), KeepEpoch(o, n, ph, act), knob' = knob
    PROVE  Ledgered(m, r)'
  <1>1. /\ dram' = o.dram /\ pair' = o.pair /\ epochRefs' = n
        /\ totals' = totals /\ files' = files
    BY Zenon DEF KeepEpoch, output
  <1>2. CsvCounts' = CsvCounts /\ PairedCounts' = PairedCounts
    BY <1>1 DEF CsvCounts, PairedCounts
  <1>3. Ledger(Open, epochRefs, base, m, r)'
    BY <1>1, <1>2 DEF Ledger, Open
  <1> QED
    BY <1>3 DEF Ledgered

\* A window that is closed moves what it counted into the files.
LEMMA FiledBooks ==
    ASSUME NEW o \in Observation, NEW n \in Nat, NEW base \in [Streams -> Nat], NEW m, NEW r,
           Ledger(o, n, base, m, r), Exact(o, n), o.dram = o.counters.total,
           Filed(o), knob' = knob
    PROVE  Ledgered(m, r)'
  <1>0. o.counters \in Counters /\ o.dram \in Nat /\ o.pair \in Pair /\ totals.accesses \in Nat
    BY DEF Observation, Ledger
  <1>1. /\ Whole(o.counters) /\ AccessesIn(o.counters) = o.dram
        /\ IsFiniteSet(TouchedPages(o.counters))
    BY DEF Exact, Whole
  <1>2. /\ totals'.accesses = totals.accesses + o.dram /\ totals'.accesses \in Nat
        /\ dram' = 0 /\ epochRefs' = 0
    BY <1>0, <1>1 DEF Filed
  <1>3. totals'.accesses + dram' = r
    BY <1>0, <1>2 DEF Ledger
  <1>4. /\ (\E S : files.csv \in Seq(S))'
        /\ CsvCounts' \in Seq(Nat) /\ SumFunction(CsvCounts') = totals'.accesses
    <2>1. CASE files'.csv = files.csv /\ Cardinality(TouchedPages(o.counters)) = 0
      <3>1. o.dram = 0
        BY <1>1, <2>1, UntouchedIsEmpty, FS_EmptySet
      <3>2. CsvCounts' = CsvCounts
        BY <2>1 DEF CsvCounts
      <3> QED
        BY <1>0, <1>2, <2>1, <3>1, <3>2 DEF Ledger
    <2>2. ASSUME NEW row, row.accesses = AccessesIn(o.counters),
                 files'.csv = Append(files.csv, row)
          PROVE  /\ (\E S : files.csv \in Seq(S))'
                 /\ CsvCounts' \in Seq(Nat) /\ SumFunction(CsvCounts') = totals'.accesses
      <3>1. PICK S : files.csv \in Seq(S)
        BY DEF Ledger
      <3>2. PICK s, c : s = files.csv /\ c = CsvCounts
        OBVIOUS
      <3>3. /\ s \in Seq(S) /\ c \in Seq(Nat) /\ DOMAIN c = DOMAIN s
            /\ \A i \in DOMAIN s : c[i] = s[i].accesses
            /\ SumFunction(c) = totals.accesses
        BY <3>1, <3>2 DEF Ledger, CsvCounts
      <3>4. PICK t, d : t = Append(s, row) /\ d = Append(c, o.dram)
        OBVIOUS
      <3>5. OneLonger(s, t, row, c, d, o.dram)
        BY <1>0, <3>3, <3>4, CountsGrow
      <3>6. files'.csv = t
        BY <2>2, <3>2, <3>4
      <3>7. CsvCounts' = d
        <4>1. CsvCounts' = [i \in DOMAIN t |-> t[i].accesses]
          BY <3>6 DEF CsvCounts
        <4>2. \A i \in DOMAIN t : t[i].accesses = d[i]
          BY <1>1, <2>2, <3>3, <3>5 DEF OneLonger
        <4> QED
          BY <3>5, <4>1, <4>2 DEF OneLonger
      <3> QED
        BY <1>2, <3>3, <3>5, <3>6, <3>7 DEF OneLonger
    <2> QED
      BY <2>1, <2>2 DEF Filed
  <1>5. ASSUME knob.paired
        PROVE  \E b \in [Streams -> Nat] :
                 /\ (\E S : files.paired \in Seq(S))'
                 /\ PairedCounts' \in Seq(Nat) /\ SumFunction(PairedCounts') = b["accesses"]
                 /\ Steady(pair', b)
                 /\ b["traffic"] = totals'.accesses
                 /\ b["accesses"] + epochRefs' = m
    <2>1. /\ o.pair.epochEvents \in [Streams -> Nat] /\ o.pair.totalEvents \in [Streams -> Nat]
          /\ o.pair.epochEvents["accesses"] = n /\ o.pair.epochEvents["traffic"] = o.dram
      BY <1>0, <1>5 DEF Exact, Pair
    <2>2. PICK b : b = o.pair.totalEvents
      OBVIOUS
    <2>3. /\ b \in [Streams -> Nat]
          /\ \A s \in Streams : b[s] = base[s] + o.pair.epochEvents[s]
      BY <1>5, <2>1, <2>2 DEF Ledger, Steady
    <2>4. /\ b["accesses"] = base["accesses"] + n /\ b["traffic"] = base["traffic"] + o.dram
          /\ base["accesses"] \in Nat /\ base["traffic"] = totals.accesses
          /\ base["accesses"] + n = m
      BY <1>5, <2>1, <2>3, StreamNames DEF Ledger
    <2>5. pair' = [o.pair EXCEPT !.epoch = [s \in Streams |-> {}],
                                 !.epochEvents = [s \in Streams |-> 0]]
      BY <1>5 DEF Filed, PairEndEpoch
    <2>6. /\ pair'.totalEvents = b
          /\ \A s \in Streams : pair'.epochEvents[s] = 0
      BY <1>0, <2>2, <2>5 DEF Pair
    <2>7. Steady(pair', b)
      BY <2>3, <2>6 DEF Steady
    <2>8. PICK row : row.events = o.pair.epochEvents /\ files'.paired = Append(files.paired, row)
      BY <1>5 DEF Filed
    <2>9. PICK S : files.paired \in Seq(S)
      BY <1>5 DEF Ledger
    <2>10. PICK s, c : s = files.paired /\ c = PairedCounts
      OBVIOUS
    <2>11. /\ s \in Seq(S) /\ c \in Seq(Nat) /\ DOMAIN c = DOMAIN s
           /\ \A i \in DOMAIN s : c[i] = s[i].events["accesses"]
           /\ SumFunction(c) = base["accesses"]
      BY <1>5, <2>9, <2>10 DEF Ledger, PairedCounts
    <2>12. PICK t, d : t = Append(s, row) /\ d = Append(c, n)
      OBVIOUS
    <2>16. OneLonger(s, t, row, c, d, n)
      BY <2>11, <2>12, CountsGrow
    <2>17. files'.paired = t
      BY <2>8, <2>10, <2>12
    <2>13. PairedCounts' = d
      <3>1. PairedCounts' = [i \in DOMAIN t |-> t[i].events["accesses"]]
        BY <2>17 DEF PairedCounts
      <3>2. \A i \in DOMAIN t : t[i].events["accesses"] = d[i]
        BY <2>1, <2>8, <2>11, <2>16 DEF OneLonger
      <3> QED
        BY <2>16, <3>1, <3>2 DEF OneLonger
    <2>14. b["accesses"] + epochRefs' = m /\ b["traffic"] = totals'.accesses
      BY <1>0, <1>2, <2>4
    <2>15. /\ (\E S1 : files.paired \in Seq(S1))'
           /\ PairedCounts' \in Seq(Nat) /\ SumFunction(PairedCounts') = b["accesses"]
      BY <2>4, <2>11, <2>13, <2>16, <2>17 DEF OneLonger
    <2> QED
      BY <2>3, <2>7, <2>14, <2>15
  <1>6. CASE knob.paired
    <2>1. PICK b \in [Streams -> Nat] :
                 /\ (\E S : files.paired \in Seq(S))'
                 /\ PairedCounts' \in Seq(Nat) /\ SumFunction(PairedCounts') = b["accesses"]
                 /\ Steady(pair', b)
                 /\ b["traffic"] = totals'.accesses
                 /\ b["accesses"] + epochRefs' = m
      BY <1>5, <1>6
    <2>2. Ledger(Open, epochRefs, b, m, r)'
      BY <1>2, <1>3, <1>4, <2>1 DEF Ledger, Open
    <2> QED
      BY <2>2 DEF Ledgered
  <1>7. CASE ~knob.paired
    <2>1. Ledger(Open, epochRefs, base, m, r)'
      BY <1>2, <1>3, <1>4, <1>7 DEF Ledger, Open
    <2> QED
      BY <2>1 DEF Ledgered
  <1> QED
    BY <1>6, <1>7

-----------------------------------------------------------------------------
\* A thread at work has started, and stays so.
LEMMA StartedStays ==
    ASSUME TypeInv, NEW t \in Threads, pc[t] # "unborn", NEW v, v # "unborn",
           pc' = [pc EXCEPT ![t] = v]
    PROVE  Started' = Started /\ (ThreadsKnown /\ refs' = refs => ThreadsKnown')
  <1>1. pc \in [Threads -> {"unborn", "app", "line", "computed"}]
    BY DEF TypeInv, TypeOK
  <1>2. \A u \in Threads : pc'[u] # "unborn" <=> pc[u] # "unborn"
    BY <1>1
  <1>3. Started' = Started
    BY <1>2 DEF Started
  <1> QED
    BY <1>2, <1>3 DEF ThreadsKnown

\* A thread that starts has no references yet.
LEMMA StartCounts ==
    ASSUME TypeInv, ThreadsKnown, NEW t \in Threads, OnThreadStart(t)
    PROVE  ThreadsKnown' /\ SumOver(refs)' = SumOver(refs)
  <1>1. /\ pc \in [Threads -> {"unborn", "app", "line", "computed"}]
        /\ refs \in [Threads -> Nat] /\ refs' = refs
        /\ pc[t] = "unborn" /\ pc' = [pc EXCEPT ![t] = "app"]
    BY DEF TypeInv, TypeOK, OnThreadStart
  <1>2. \A u \in Threads : pc'[u] # "unborn" <=> pc[u] # "unborn" \/ u = t
    BY <1>1
  <1>3. Started' = Started \cup {t} /\ t \notin Started
    BY <1>1, <1>2 DEF Started
  <1>4. IsFiniteSet(Started) /\ IsFiniteSet(Started') /\ refs[t] = 0
    BY <1>1, <1>3, FS_AddElement DEF ThreadsKnown
  <1>5. ThreadsKnown'
    BY <1>1, <1>2, <1>4 DEF ThreadsKnown
  <1>6. SumFunctionOnSet(refs, Started \cup {t}) = SumFunctionOnSet(refs, Started) + refs[t]
    <2>1. PICK S, f : S = Started /\ f = refs
      OBVIOUS
    <2>2. IsFiniteSet(S) /\ t \notin S /\ f[t] \in Nat /\ \A u \in S : f[u] \in Nat
      BY <1>1, <1>3, <1>4, <2>1 DEF Started
    <2>3. SumFunctionOnSet(f, S \cup {t}) = SumFunctionOnSet(f, S) + f[t]
      BY <2>2, SumWith
    <2> QED
      BY <2>1, <2>3
  <1>7. SumOver(refs) \in Nat
    <2>1. \A u \in Started : refs[u] \in Nat
      BY <1>1 DEF Started
    <2> QED
      BY <1>4, <2>1, SumInNat DEF SumOver
  <1> QED
    BY <1>1, <1>3, <1>4, <1>5, <1>6, <1>7 DEF SumOver

\* One more reference of one started thread is one more reference in all.
LEMMA ReferenceCounts ==
    ASSUME TypeInv, ThreadsKnown, NEW t \in Threads, pc[t] # "unborn",
           NEW v, v # "unborn", pc' = [pc EXCEPT ![t] = v],
           refs' = [refs EXCEPT ![t] = @ + 1]
    PROVE  ThreadsKnown' /\ SumOver(refs)' = SumOver(refs) + 1
  <1>1. refs \in [Threads -> Nat] /\ Started' = Started
        /\ pc \in [Threads -> {"unborn", "app", "line", "computed"}]
    BY StartedStays DEF TypeInv, TypeOK
  <1>2. ThreadsKnown'
    <2>1. \A u \in Threads : pc'[u] = "unborn" => u # t /\ pc[u] = "unborn"
      BY <1>1
    <2> QED
      BY <1>1, <2>1 DEF ThreadsKnown
  <1>3. PICK S, f, g : S = Started /\ f = refs /\ g = refs'
    OBVIOUS
  <1>4. /\ IsFiniteSet(S) /\ t \in S
        /\ \A u \in S : f[u] \in Nat
        /\ \A u \in S \ {t} : g[u] = f[u]
        /\ g[t] = f[t] + 1
    BY <1>1, <1>3 DEF ThreadsKnown, Started
  <1>5. SumFunctionOnSet(g, S) = SumFunctionOnSet(f, S) + 1
    BY <1>4, SumChanged
  <1> QED
    BY <1>1, <1>2, <1>3, <1>5 DEF SumOver

\* After the exit nothing moves.
LEMMA ExitIsLast == ~Running /\ [Next]_vars => UNCHANGED vars
  BY DEF Next, OnThreadStart, SkipOperand, PassGate, ComputePrivate, LateReference,
         Reference, CountBblLocal, RoiEnter, RoiExit, UnsupportedVector, CountBbl, OnFini

\* The books carried over by a step that leaves window and files alone.
LEMMA BooksAlone ==
    ASSUME NEW m, NEW r, Ledgered(m, r), UNCHANGED <<knob, window, output>>
    PROVE  Ledgered(m, r)'
  <1>1. CsvCounts' = CsvCounts /\ PairedCounts' = PairedCounts
    BY DEF output, CsvCounts, PairedCounts
  <1>2. PICK base \in [Streams -> Nat] : Ledger(Open, epochRefs, base, m, r)
    BY DEF Ledgered
  <1>3. Ledger(Open, epochRefs, base, m, r)'
    BY <1>1, <1>2 DEF Ledger, Open, window, output
  <1> QED
    BY <1>3 DEF Ledgered

\* The books carried over by a step that keeps the open window or closes it.
LEMMA BooksCarried ==
    ASSUME TypeInv, ObserverInv, WindowInv, NEW ph, NEW act, NEW m, NEW r,
           Ledgered(m, r), knob' = knob,
           KeepEpoch(Open, epochRefs, ph, act) \/ FinishEpoch(Open, epochRefs, ph, act)
    PROVE  Ledgered(m, r)'
  <1>1. PICK base \in [Streams -> Nat] : Ledger(Open, epochRefs, base, m, r)
    BY DEF Ledgered
  <1>2. PICK o, n : o = Open /\ n = epochRefs
    OBVIOUS
  <1>3. /\ o \in Observation /\ n \in Nat /\ Exact(o, n) /\ o.dram = o.counters.total
        /\ Ledger(o, n, base, m, r)
    BY <1>1, <1>2 DEF TypeInv, TypeOK, Open, Observation, ObserverInv, WindowInv, WindowAgrees
  <1>4. KeepEpoch(o, n, ph, act) \/ Filed(o)
    BY <1>2, FinishSplit
  <1> QED
    BY <1>3, <1>4, KeptBooks, FiledBooks

\* The books after a locked section.
LEMMA ReferenceBooks ==
    ASSUME TypeInv, ObserverInv, WindowInv, BooksInv, NEW t \in Threads, Reference(t)
    PROVE  ThreadsKnown' /\ Ledgered(SumOver(refs), seen.recorded)'
  <1>1. PICK o, n : o = WindowAfter(t) /\ n = RefsAfter
    OBVIOUS
  <1>2. /\ o \in Observation /\ n \in Nat /\ o.dram = o.counters.total
        /\ Exact(o, n)
    BY <1>1, ReferenceWindowStep, ReferenceExact DEF WindowInv, WindowAgrees, ObserverInv
  <1>3. KeepEpoch(o, n, phase, active) \/ FinishEpoch(o, n, phase, active)
    BY <1>1, Zenon DEF Reference
  <1>4. knob' = knob /\ seen'.recorded = seen.recorded + (o.dram - dram)
    <2>1. seen' = [seen EXCEPT !.recorded = @ + (o.dram - dram),
                               !.intervals = Intervals(IF o.dram > dram
                                                       THEN @ \cup {seen.interval} ELSE @)]
      BY <1>1, Zenon DEF Reference
    <2> QED
      BY <2>1 DEF Reference, TypeInv, TypeOK, History
  <1>5. pc[t] # "unborn" /\ \E v : v # "unborn" /\ pc' = [pc EXCEPT ![t] = v]
    <2>1. \E v \in {"app", "line"} : pc' = [pc EXCEPT ![t] = v]
      BY DEF Reference, Advance, Leave
    <2>2. pc[t] # "unborn"
      BY DEF Reference, AtLock
    <2> QED
      BY <2>1, <2>2
  <1>6. PICK v : v # "unborn" /\ pc' = [pc EXCEPT ![t] = v]
    BY <1>5
  <1>7. PICK m, r : m = SumOver(refs) /\ r = seen.recorded
    OBVIOUS
  <1>8. PICK base \in [Streams -> Nat] : Ledger(Open, epochRefs, base, m, r)
    BY <1>7 DEF BooksInv, Ledgered
  <1>9. knob.paired => Steady(o.pair, base)
    BY <1>1, <1>8, ReferenceSteady DEF Ledger, Open
  <1>10. PICK m1, r1 : m1 = SumOver(refs)' /\ r1 = seen'.recorded
    OBVIOUS
  <1>11. /\ totals.accesses \in Nat /\ totals.accesses + o.dram = r1
         /\ dram \in Nat /\ epochRefs \in Nat
    BY <1>2, <1>4, <1>7, <1>8, <1>10 DEF Ledger, Open, Observation, TypeInv, TypeOK
  <1>12. CASE Recording
    <2>1. refs' = [refs EXCEPT ![t] = @ + 1] /\ n = epochRefs + 1
      BY <1>1, <1>12 DEF Reference, RefsAfter
    <2>2. ThreadsKnown' /\ SumOver(refs)' = SumOver(refs) + 1
      BY <1>5, <1>6, <2>1, ReferenceCounts DEF BooksInv
    <2>3. knob.paired => base["accesses"] + n = m1
      BY <1>7, <1>8, <1>10, <1>11, <2>1, <2>2, StreamNames DEF Ledger
    <2>4. Ledger(o, n, base, m1, r1)
      BY <1>8, <1>9, <1>11, <2>3 DEF Ledger
    <2>5. Ledgered(m1, r1)'
      BY <1>2, <1>3, <1>4, <2>4, FinishSplit, KeptBooks, FiledBooks
    <2> QED
      BY <1>10, <2>2, <2>5
  <1>13. CASE ~Recording
    <2>1. refs' = refs /\ n = epochRefs
      BY <1>1, <1>13 DEF Reference, RefsAfter
    <2>2. ThreadsKnown' /\ SumOver(refs)' = SumOver(refs)
      BY <1>5, <1>6, <2>1, StartedStays DEF BooksInv, SumOver
    <2>3. Ledger(o, n, base, m1, r1)
      BY <1>7, <1>8, <1>9, <1>10, <1>11, <2>1, <2>2 DEF Ledger
    <2>4. Ledgered(m1, r1)'
      BY <1>2, <1>3, <1>4, <2>3, FinishSplit, KeptBooks, FiledBooks
    <2> QED
      BY <1>10, <2>2, <2>4
  <1> QED
    BY <1>12, <1>13

\* What the exit leaves: an empty window, whatever is open when it comes.
LEMMA ExitEmpties ==
    ASSUME TypeInv, ObserverInv, WindowInv, BooksInv, NEW code, OnFini(code)
    PROVE  Final'
  <1>1. /\ dram \in Nat /\ epochRefs \in Nat /\ dram = counters.total
        /\ knob.paired => pair.epochEvents["accesses"] = epochRefs
    BY DEF TypeInv, TypeOK, WindowInv, WindowAgrees, ObserverInv, Exact, Open
  <1>2. /\ knob' = knob /\ refs' = refs /\ pc' = pc
        /\ summary'.dram = totals'.accesses /\ summary'.memRefs = SumOver(refs)
    BY DEF OnFini, Summary
  <1>3. SumOver(refs)' = SumOver(refs)
    BY <1>2 DEF SumOver, Started
  <1>4. \/ Filed(Open)
        \/ /\ KeepEpoch(Open, epochRefs, phase, active)
           /\ dram = 0 /\ (~knob.paired \/ PairIsEmpty(pair))
    <2>1. CASE Pending \/ epochId = 0
      <3>1. FinishEpoch(Open, epochRefs, phase, active)
        BY <2>1, Zenon DEF OnFini
      <3>2. PICK o, n : o = Open /\ n = epochRefs
        OBVIOUS
      <3>3. \/ /\ KeepEpoch(o, n, phase, active)
               /\ o.counters.total = 0 /\ (~knob.paired \/ PairIsEmpty(o.pair))
            \/ Filed(o)
        BY <3>1, <3>2, FinishSplit
      <3>4. o.counters.total = dram /\ o.pair = pair
        BY <1>1, <3>2 DEF Open
      <3> QED
        BY <3>2, <3>3, <3>4
    <2>2. CASE ~(Pending \/ epochId = 0)
      <3>1. KeepEpoch(Open, epochRefs, phase, active)
        BY <2>2, Zenon DEF OnFini
      <3>2. dram = 0 /\ (~knob.paired \/ PairIsEmpty(pair))
        BY <1>1, <2>2 DEF Pending
      <3> QED
        BY <3>1, <3>2
    <2> QED
      BY <2>1, <2>2
  <1>5. dram' = 0 /\ (knob.paired => epochRefs' = 0)
    <2>1. CASE Filed(Open)
      BY <2>1 DEF Filed
    <2>2. CASE /\ KeepEpoch(Open, epochRefs, phase, active)
               /\ dram = 0 /\ (~knob.paired \/ PairIsEmpty(pair))
      <3>1. dram' = 0 /\ epochRefs' = epochRefs
        BY <2>2, Zenon DEF KeepEpoch, Open
      <3>2. knob.paired => pair.epochEvents["accesses"] = 0
        BY <2>2, StreamNames DEF BooksInv, Ledgered, Ledger, Steady, Open
      <3> QED
        BY <1>1, <3>1, <3>2
    <2> QED
      BY <1>4, <2>1, <2>2
  <1> QED
    BY <1>2, <1>3, <1>5 DEF Final

LEMMA BooksStep ==
    ASSUME TypeInv, ObserverInv, WindowInv, BooksInv, [Next]_vars
    PROVE  BooksInv'
  <1>0. PICK m, r : m = SumOver(refs) /\ r = seen.recorded
    OBVIOUS
  <1>1. ThreadsKnown /\ Ledgered(m, r)
    BY <1>0 DEF BooksInv
  <1>2. ASSUME Ledgered(m, r)', SumOver(refs)' = SumOver(refs),
               seen'.recorded = seen.recorded, ThreadsKnown', Final'
        PROVE  BooksInv'
    <2>1. SumOver(refs)' = m /\ seen'.recorded = r
      BY <1>0, <1>2
    <2> QED
      BY <1>2, <2>1 DEF BooksInv
  <1>3. CASE UNCHANGED vars
    <2>1. /\ UNCHANGED <<knob, window, output>>
          /\ UNCHANGED <<pc, refs, summary, seen, dram, totals, epochRefs>>
      BY <1>3 DEF vars, window, output
    <2>2. Ledgered(m, r)'
      BY <1>1, <2>1, BooksAlone
    <2>3. Started' = Started /\ SumOver(refs)' = SumOver(refs)
      BY <2>1 DEF Started, SumOver
    <2>4. ThreadsKnown' /\ Final'
      BY <1>1, <2>1, <2>3 DEF ThreadsKnown, Final, Running, BooksInv
    <2> QED
      BY <1>2, <2>1, <2>2, <2>3, <2>4
  <1>4. CASE ~Running
    BY <1>3, <1>4, ExitIsLast
  <1>5. ASSUME Running, summary' = summary \/ summary' = Killed PROVE Final'
    BY <1>5 DEF Final, Running
  <1>6. ASSUME Running, NEW t \in Threads, NEW v, v # "unborn", pc[t] # "unborn",
               pc' = [pc EXCEPT ![t] = v] \/ pc' = pc,
               UNCHANGED <<knob, refs, window, output>>,
               summary' = summary \/ summary' = Killed, seen'.recorded = seen.recorded
        PROVE  BooksInv'
    <2>1. Ledgered(m, r)'
      BY <1>1, <1>6, BooksAlone
    <2>2. Started' = Started /\ ThreadsKnown'
      <3>1. CASE pc' = pc
        BY <1>1, <1>6, <3>1 DEF Started, ThreadsKnown
      <3>2. CASE pc' = [pc EXCEPT ![t] = v]
        BY <1>1, <1>6, <3>2, StartedStays
      <3> QED
        BY <1>6, <3>1, <3>2
    <2>3. SumOver(refs)' = SumOver(refs)
      BY <1>6, <2>2 DEF SumOver
    <2> QED
      BY <1>2, <1>5, <1>6, <2>1, <2>2, <2>3
  <1>7. ASSUME NEW t \in Threads, OnThreadStart(t)
        PROVE  BooksInv'
    <2>1. /\ UNCHANGED <<knob, window, output>> /\ summary' = summary /\ seen' = seen
          /\ Running
      BY <1>7 DEF OnThreadStart
    <2>2. Ledgered(m, r)'
      BY <1>1, <2>1, BooksAlone
    <2> QED
      BY <1>1, <1>2, <1>5, <1>7, <2>1, <2>2, StartCounts
  <1>8. ASSUME NEW t \in Threads,
               SkipOperand(t) \/ LateReference(t) \/ ComputePrivate(t)
        PROVE  BooksInv'
    <2>1. /\ UNCHANGED <<knob, refs, window, output>> /\ summary' = summary /\ Running
          /\ pc[t] # "unborn"
          /\ \E v \in {"app", "computed"} : pc' = [pc EXCEPT ![t] = v] \/ pc' = pc
      BY <1>8 DEF SkipOperand, LateReference, ComputePrivate, AtLock, Leave
    <2>2. seen'.recorded = seen.recorded
      BY <1>8 DEF SkipOperand, LateReference, ComputePrivate, TypeInv, TypeOK, History
    <2> QED
      BY <1>6, <2>1, <2>2
  <1>9. ASSUME NEW t \in Threads, NEW first, NEW last, NEW type,
               PassGate(t, first, last, type)
        PROVE  BooksInv'
    <2>1. /\ UNCHANGED <<knob, refs, window, output>> /\ summary' = summary /\ Running
          /\ pc[t] # "unborn" /\ pc' = [pc EXCEPT ![t] = "line"] /\ seen' = seen
      BY <1>9 DEF PassGate
    <2> QED
      BY <1>6, <2>1
  <1>10. ASSUME NEW t \in Threads, NEW n, CountBblLocal(t, n)
         PROVE  BooksInv'
    <2>1. /\ UNCHANGED <<knob, refs, window, output>> /\ summary' = summary /\ Running
          /\ pc[t] # "unborn" /\ pc' = pc /\ seen' = seen
      BY <1>10 DEF CountBblLocal
    <2> QED
      BY <1>6, <2>1
  <1>11. ASSUME NEW t \in Threads, RoiEnter(t)
         PROVE  BooksInv'
    <2>1. /\ UNCHANGED <<knob, refs, window, output>> /\ summary' = summary /\ Running
          /\ pc[t] # "unborn" /\ pc' = pc
      BY <1>11 DEF RoiEnter
    <2>2. seen'.recorded = seen.recorded
      BY <1>11 DEF RoiEnter, TypeInv, TypeOK, History
    <2> QED
      BY <1>6, <2>1, <2>2
  <1>12. ASSUME NEW t \in Threads, UnsupportedVector(t)
         PROVE  BooksInv'
    <2>1. /\ UNCHANGED <<knob, refs, window, output>> /\ summary' = Killed /\ Running
          /\ pc[t] # "unborn" /\ pc' = pc /\ seen' = seen
      BY <1>12 DEF UnsupportedVector
    <2> QED
      BY <1>6, <2>1
  <1>13. ASSUME Final', UNCHANGED <<knob, pc, refs>>,
                seen' = [seen EXCEPT !.intervals = Intervals(@)],
                NEW ph, NEW act,
                \/ KeepEpoch(Open, epochRefs, ph, act)
                \/ FinishEpoch(Open, epochRefs, ph, act)
         PROVE  BooksInv'
    <2>1. Ledgered(m, r)'
      BY <1>1, <1>13, BooksCarried
    <2>2. Started' = Started /\ SumOver(refs)' = SumOver(refs)
      BY <1>13 DEF Started, SumOver
    <2>3. ThreadsKnown'
      BY <1>1, <1>13, <2>2 DEF ThreadsKnown
    <2>4. seen'.recorded = seen.recorded
      BY <1>13 DEF TypeInv, TypeOK, History
    <2> QED
      BY <1>2, <1>13, <2>1, <2>2, <2>3, <2>4
  <1>14. ASSUME NEW t \in Threads, RoiExit(t)
         PROVE  BooksInv'
    <2>1. /\ UNCHANGED <<knob, pc, refs>> /\ summary' = summary /\ Running
          /\ seen' = [seen EXCEPT !.intervals = Intervals(@)]
      BY <1>14 DEF RoiExit
    <2>2. \/ KeepEpoch(Open, epochRefs, phase, GateOutside)
          \/ FinishEpoch(Open, epochRefs, phase, GateOutside)
      BY <1>14, Zenon DEF RoiExit
    <2> QED
      BY <1>5, <1>13, <2>1, <2>2
  <1>15. ASSUME NEW n \in BblSizes, CountBbl(n)
         PROVE  BooksInv'
    <2>1. /\ UNCHANGED <<knob, pc, refs>> /\ summary' = summary /\ Running
          /\ seen' = [seen EXCEPT !.intervals = Intervals(@)]
      BY <1>15 DEF CountBbl
    <2>2. \E ph, act : \/ KeepEpoch(Open, epochRefs, ph, act)
                       \/ FinishEpoch(Open, epochRefs, ph, act)
      BY <1>15, Zenon DEF CountBbl, EndFastForward, EndWarmup, StopAtLength,
                          CloseByInstructions, OnlyCount
    <2> QED
      BY <1>5, <1>13, <2>1, <2>2
  <1>16. ASSUME NEW code, OnFini(code)
         PROVE  BooksInv'
    <2>1. /\ UNCHANGED <<knob, pc, refs>>
          /\ seen' = [seen EXCEPT !.intervals = Intervals(@)]
      BY <1>16 DEF OnFini
    <2>2. \/ KeepEpoch(Open, epochRefs, phase, active)
          \/ FinishEpoch(Open, epochRefs, phase, active)
      BY <1>16, Zenon DEF OnFini
    <2>3. Final'
      BY <1>16, ExitEmpties
    <2> QED
      BY <1>13, <2>1, <2>2, <2>3
  <1>17. ASSUME NEW t \in Threads, Reference(t)
         PROVE  BooksInv'
    <2>1. Running /\ summary' = summary
      BY <1>17 DEF Reference
    <2> QED
      BY <1>5, <1>17, <2>1, ReferenceBooks DEF BooksInv
  <1> QED
    BY <1>3, <1>7, <1>8, <1>9, <1>10, <1>11, <1>12, <1>14, <1>15, <1>16, <1>17, Zenon DEF Next

LEMMA BooksHold == Spec => []BooksInv
  <1>1. Init => BooksInv
    <2> SUFFICES ASSUME Init PROVE BooksInv
      OBVIOUS
    <2>1. ThreadsKnown /\ Started = {}
      <3>1. Started = {} /\ \A t \in Threads : refs[t] = 0
        BY DEF Init, Started
      <3> QED
        BY <3>1, FS_EmptySet DEF ThreadsKnown
    <2>2. SumOver(refs) = 0 /\ seen.recorded = 0
      BY <2>1, SumOfNone DEF SumOver, Init
    <2>3. /\ <<>> \in Seq(Nat) /\ <<>> \in Seq({}) /\ SumFunction(<<>>) = 0 /\ DOMAIN <<>> = {}
      <3>1. <<>> \in Seq(Nat) /\ <<>> \in Seq({}) /\ Len(<<>>) = 0
        BY EmptySeq
      <3>2. DOMAIN <<>> = {}
        BY <3>1, LenProperties
      <3> QED
        BY <3>1, <3>2, SumOfNone DEF SumFunction
    <2>4. CsvCounts = <<>> /\ PairedCounts = <<>>
      <3>1. /\ CsvCounts = [i \in {} |-> files.csv[i].accesses]
            /\ PairedCounts = [i \in {} |-> files.paired[i].events["accesses"]]
        BY <2>3 DEF Init, CsvCounts, PairedCounts
      <3>2. /\ [i \in {} |-> files.csv[i].accesses] = <<>>
            /\ [i \in {} |-> files.paired[i].events["accesses"]] = <<>>
        BY <2>3
      <3> QED
        BY <3>1, <3>2
    <2>5. PICK base : base = [s \in Streams |-> 0]
      OBVIOUS
    <2>6. /\ base \in [Streams -> Nat] /\ base["accesses"] = 0 /\ base["traffic"] = 0
          /\ Steady(EmptyPair, base)
      BY <2>5, StreamNames DEF Steady, EmptyPair
    <2>7. Ledger(Open, epochRefs, base, 0, 0)
      BY <2>3, <2>4, <2>6 DEF Init, Ledger, Open
    <2>8. Running
      BY DEF Init, Running
    <2> QED
      BY <2>1, <2>2, <2>6, <2>7, <2>8 DEF BooksInv, Ledgered, Final
  <1>2. TypeInv /\ ObserverInv /\ WindowInv /\ BooksInv /\ [Next]_vars => BooksInv'
    BY BooksStep
  <1> QED
    BY <1>1, <1>2, TypesHold, ObserversHold, WindowHolds, PTL DEF Spec

(***************************************************************************)
(* No DRAM access is lost or counted twice between the open epoch, the      *)
(* aggregates, the files and the summary (recordDram, finishEpoch, onFini), *)
(* for any number of threads, any interleaving of their locked sections and *)
(* every way an epoch can close.  The pages an epoch touched carry all of   *)
(* its accesses, and the paired observer's running totals are those of the  *)
(* closed epochs plus what is open.                                         *)
(***************************************************************************)
THEOREM NoAccessLost == Spec => []NothingLost
  <1>1. ObserverInv /\ BooksInv => NothingLost
    <2> SUFFICES ASSUME ObserverInv, BooksInv PROVE NothingLost
      OBVIOUS
    <2>1. PICK base \in [Streams -> Nat] :
              Ledger(Open, epochRefs, base, SumOver(refs), seen.recorded)
      BY DEF BooksInv, Ledgered
    <2>2. totals.accesses \in Nat /\ totals.accesses + dram = seen.recorded
          /\ SumFunction(CsvCounts) = totals.accesses
      BY <2>1 DEF Ledger, Open
    <2>3. ASSUME ~Running, summary # Killed
          PROVE  /\ dram = 0 /\ summary.dram = seen.recorded
                 /\ summary.dram = SumFunction(CsvCounts)
                 /\ knob.paired =>
                      /\ summary.memRefs = pair.totalEvents["accesses"]
                      /\ summary.memRefs = SumFunction(PairedCounts)
                      /\ pair.totalEvents["traffic"] = summary.dram
      <3>1. /\ dram = 0 /\ summary.dram = totals.accesses
            /\ knob.paired => epochRefs = 0 /\ summary.memRefs = SumOver(refs)
        BY <2>3 DEF BooksInv, Final
      <3>2. ASSUME knob.paired
            PROVE  /\ summary.memRefs = pair.totalEvents["accesses"]
                   /\ summary.memRefs = SumFunction(PairedCounts)
                   /\ pair.totalEvents["traffic"] = summary.dram
        <4>1. /\ SumFunction(PairedCounts) = base["accesses"]
              /\ base["traffic"] = totals.accesses
              /\ base["accesses"] + epochRefs = SumOver(refs)
              /\ pair.totalEvents["accesses"] = base["accesses"] + pair.epochEvents["accesses"]
              /\ pair.totalEvents["traffic"] = base["traffic"] + pair.epochEvents["traffic"]
          BY <2>1, <3>2, StreamNames DEF Ledger, Steady, Open
        <4>2. /\ pair.epochEvents["accesses"] = epochRefs
              /\ pair.epochEvents["traffic"] = dram
          BY <3>2 DEF ObserverInv, Exact, Open
        <4>3. base["accesses"] \in Nat /\ base["traffic"] \in Nat
          BY StreamNames
        <4> QED
          BY <3>1, <3>2, <4>1, <4>2, <4>3
      <3> QED
        BY <2>2, <3>1, <3>2
    <2> QED
      BY <2>2, <2>3 DEF NothingLost, CsvCounts, PairedCounts
  <1> QED
    BY <1>1, ObserversHold, BooksHold, PTL

=============================================================================
