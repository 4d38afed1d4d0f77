------------------------------ MODULE Profiler ------------------------------
(***************************************************************************)
(* The Pin tool (hotskew.cpp): application threads whose memory operands    *)
(* pass an unlocked gate, go through the cache path and are recorded under  *)
(* one lock; basic blocks that drive the phases; ROI markers; epochs that   *)
(* close on a DRAM-access, reference or instruction count; and the summary  *)
(* written at exit.  Each locked section is one step.                       *)
(***************************************************************************)
EXTENDS CachePath, PairedAudit, Sequences

CONSTANTS Threads,
          Configs,          \* command lines to consider (records of knobs)
          BblSizes,         \* instructions per basic block
          ExitCodes,        \* how the application may exit
          Bounds(_)         \* bounds per command line: threads started, memory
                            \* operands and the lines they touch,
                            \* instructions and ROI intervals

ASSUME BoundAssumption == BblSizes \subseteq Nat /\ ExitCodes \subseteq Nat

Phases == {"fastforward", "warmup", "profile", "done"}

Knobs == [useCache : BOOLEAN, countWB : BOOLEAN, paired : BOOLEAN,
          privateParallel : BOOLEAN, localBbl : BOOLEAN,
          ff : Nat, warmup : Nat, len : Nat,
          epoch : Nat, epochIns : Nat, epochRefs : Nat, maxEpochs : Nat,
          roi : {"none", "named", "endOnly"},   \* -roi_rtn or -roi_begin given?
          roiEpoch : BOOLEAN, warmOutside : BOOLEAN,
          dumpMin : Nat, dumpCap : Nat]         \* -dump_max_mb, in records

ASSUME ConfigAssumption == Configs \subseteq Knobs

\* The combinations main() does not refuse.
Accepted(k) ==
    /\ k.paired => k.useCache /\ k.countWB
    /\ k.localBbl => k.ff = 0 /\ k.warmup = 0 /\ k.len = 0 /\ k.epochIns = 0
    /\ k.epochRefs = 0 \/ k.epochIns = 0

VARIABLES
    knob,                   \* the command line
    phase, active, roiEnabled,          \* g_phase, g_active (0 or 1), g_roiEnabled
    insCount, profileStart, epochStart, \* g_insCount and its two marks
    l1, l2, llc,            \* per-thread private levels, g_llc
    pc, op,                 \* where each thread is, and the operand it works on
    refs, instructions,     \* ThreadState.refs, ThreadState.instructions
    counters, dram,         \* g_counters, g_dramAccesses
    pair,                   \* g_pair
    epochRefs, epochId,     \* g_epochRefs, g_epochId
    totals,                 \* the aggregates over closed epochs
    files,                  \* epochs.csv, pages.bin, paired.csv
    summary,                \* summary.txt; NoSummary while the program runs
    operands,               \* bound: operands executed
    seen                    \* history the properties refer to

control == <<phase, active, roiEnabled>>
clock == <<insCount, profileStart, epochStart>>
caches == <<l1, l2, llc>>
window == <<counters, dram, pair, epochRefs>>
output == <<epochId, totals, files>>
vars == <<knob, control, clock, caches, pc, op, refs, instructions, window,
          output, summary, operands, seen>>

EpochTarget == IF knob.epochRefs # 0 \/ knob.epochIns # 0 THEN 0 ELSE knob.epoch

NoSummary == [status |-> "running"]
Killed == [status |-> "killed"]
Running == summary = NoSummary
NoOp == [line |-> NoLine, last |-> NoLine, type |-> "read", r |-> NoResult]

Init ==
    /\ knob \in {k \in Configs : Accepted(k)}
    /\ roiEnabled = (knob.roi # "named")
    /\ phase = IF knob.ff # 0 THEN "fastforward"
               ELSE IF knob.warmup # 0 THEN "warmup" ELSE "profile"
    /\ active = IF phase # "fastforward" /\ (roiEnabled \/ knob.warmOutside)
                THEN 1 ELSE 0
    /\ insCount = 0 /\ profileStart = 0 /\ epochStart = 0
    /\ l1 = [t \in Threads |-> EmptyLevel]
    /\ l2 = [t \in Threads |-> EmptyLevel]
    /\ llc = EmptyLevel
    /\ pc = [t \in Threads |-> "unborn"]
    /\ op = [t \in Threads |-> NoOp]
    /\ refs = [t \in Threads |-> 0]
    /\ instructions = [t \in Threads |-> 0]
    /\ counters = EmptyCounters /\ dram = 0 /\ pair = EmptyPair
    /\ epochRefs = 0 /\ epochId = 0
    /\ totals = [pages |-> 0, accesses |-> 0, histogram |-> [n \in Bins |-> 0],
                 saturations |-> 0]
    /\ files = [csv |-> <<>>, bin |-> {}, paired |-> <<>>, capped |-> FALSE]
    /\ summary = NoSummary
    /\ operands = 0
    /\ seen = [recorded |-> 0, interval |-> IF knob.roi = "named" THEN 0 ELSE 1,
               intervals |-> {}, skipped |-> {}]

-----------------------------------------------------------------------------
(***************************************************************************)
(* The observation of one epoch, as a value: [counters, dram, pair].        *)
(***************************************************************************)
Open == [counters |-> counters, dram |-> dram, pair |-> pair]

\* Mutant: a memory read is a fill but no traffic.
RecordApart(o, line, type) ==
    IF line = NoLine THEN o
    ELSE [counters |-> CountAccess(o.counters, line, type),
          dram     |-> o.dram + 1,
          pair     |-> IF ~knob.paired THEN o.pair
                       ELSE PairRecord(o.pair, line,
                                       IF type = "read" THEN "fills" ELSE "traffic")]

\* recordDram; nothing to record for NoLine, which stands for "no such event".
RecordDram(o, line, type) ==
    IF line = NoLine THEN o
    ELSE [counters |-> CountAccess(o.counters, line, type),
          dram     |-> o.dram + 1,
          pair     |-> IF ~knob.paired THEN o.pair
                       ELSE PairRecord(IF type = "read"
                                       THEN PairRecord(o.pair, line, "fills")
                                       ELSE o.pair, line, "traffic")]

\* The callback analyzeMemRef gives accessShared, over the outcome s.
RecordOutcome(o, s) ==
    LET wb(x, i) == IF knob.countWB THEN RecordDram(x, s.writes[i], "write") ELSE x
    IN  RecordDram(wb(wb(wb(o, 1), 2), 3), s.fill, "read")

RecordDemand(o, line) ==
    IF knob.paired THEN [o EXCEPT !.pair = PairRecord(@, line, "accesses")] ELSE o

KeepEpoch(o, refsNow, ph, act) ==
    /\ counters' = o.counters /\ dram' = o.dram /\ pair' = o.pair
    /\ epochRefs' = refsNow
    /\ phase' = ph /\ active' = act
    /\ UNCHANGED output

\* Mutant: pages at the dump threshold are left out.
DumpableAbove(c) == {p \in TouchedPages(c) : PageTotal(c, p) > knob.dumpMin}

\* The pages.bin records of an epoch: any that fit under the cap, in the
\* hash map's order.
Dumpable(c) == {p \in TouchedPages(c) : PageTotal(c, p) >= knob.dumpMin}

Dump(c, pages) ==
    LET room == knob.dumpCap - Cardinality(files.bin)
    IN  /\ pages \subseteq Dumpable(c)
        /\ IF knob.dumpCap = 0 \/ Cardinality(Dumpable(c)) <= room
           THEN pages = Dumpable(c)
           ELSE Cardinality(pages) = room

\* Whether the epoch now closing is the last one -max_epochs allows.
LimitReached == knob.maxEpochs # 0 /\ epochId + 1 >= knob.maxEpochs

AfterClose(ph, act) ==
    /\ phase' = IF LimitReached THEN "done" ELSE ph
    /\ active' = IF LimitReached THEN 0 ELSE act

(***************************************************************************)
(* finishEpoch: fold the open epoch into the aggregates and the files, then *)
(* clear it; with -max_epochs, the last epoch ends the collection.  An      *)
(* epoch in which nothing was observed is left open.                        *)
(***************************************************************************)
FinishEpoch(o, refsNow, ph, act) ==
    IF o.counters.total = 0 /\ (~knob.paired \/ PairIsEmpty(o.pair))
    THEN KeepEpoch(o, refsNow, ph, act)
    ELSE LET c     == o.counters
             pages == Cardinality(TouchedPages(c))
         IN  /\ totals' = [pages       |-> totals.pages + pages,
                           accesses    |-> totals.accesses + AccessesIn(c),
                           histogram   |-> [n \in Bins |-> totals.histogram[n] + PagesWith(c, n)],
                           saturations |-> totals.saturations + c.saturations]
             /\ \E dumped \in SUBSET TouchedPages(c) :
                  /\ Dump(c, dumped)
                  /\ files' =
                       [csv    |-> IF pages = 0 THEN files.csv
                                   ELSE Append(files.csv,
                                          [epoch |-> epochId, pages |-> pages,
                                           accesses |-> AccessesIn(c)]),
                        bin    |-> files.bin \cup {<<epochId, p>> : p \in dumped},
                        paired |-> IF ~knob.paired THEN files.paired
                                   ELSE Append(files.paired, [events |-> o.pair.epochEvents,
                                                              masks |-> o.pair.epoch]),
                        capped |-> files.capped \/ dumped # Dumpable(c)]
             /\ counters' = EmptyCounters
             /\ dram' = 0
             /\ pair' = IF knob.paired THEN PairEndEpoch(o.pair) ELSE o.pair
             /\ epochRefs' = 0
             /\ epochId' = epochId + 1
             /\ AfterClose(ph, act)

\* Mutant: a window of one access is not worth closing.
PendingSeveral == dram > 1 \/ (knob.paired /\ ~PairIsEmpty(pair))

\* Something was observed since the last epoch closed.
Pending == dram > 0 \/ (knob.paired /\ ~PairIsEmpty(pair))

\* An epoch that closes forgets which ROI intervals fed it.
Intervals(before) == IF dram' = 0 THEN {} ELSE before

-----------------------------------------------------------------------------
\* g_threads: the threads that have a ThreadState.
Started == {t \in Threads : pc[t] # "unborn"}

OnThreadStart(t) ==
    /\ Running /\ pc[t] = "unborn"
    /\ Cardinality(Started) < Bounds(knob).threads
    /\ pc' = [pc EXCEPT ![t] = "app"]
    /\ UNCHANGED <<knob, control, clock, caches, op, refs, instructions, window,
                   output, summary, operands, seen>>

\* isActive returned 0: analyzeMemRef is not called.
SkipOperand(t) ==
    /\ Running /\ pc[t] = "app" /\ active = 0
    /\ operands < Bounds(knob).operands
    /\ operands' = operands + 1
    /\ seen' = [seen EXCEPT !.skipped = @ \cup {<<phase, roiEnabled>>}]
    /\ UNCHANGED <<knob, control, clock, caches, pc, op, refs, instructions,
                   window, output, summary>>

\* isActive, read without the lock, returned 1: analyzeMemRef starts on an
\* operand of one line or, straddling, two.
PassGate(t, first, last, type) ==
    /\ Running /\ pc[t] = "app" /\ active = 1
    /\ operands < Bounds(knob).operands /\ {first, last} \subseteq Bounds(knob).lines
    /\ operands' = operands + 1
    /\ pc' = [pc EXCEPT ![t] = "line"]
    /\ op' = [op EXCEPT ![t] = [line |-> first, last |-> last, type |-> type,
                                r |-> NoResult]]
    /\ UNCHANGED <<knob, control, clock, caches, refs, instructions, window,
                   output, summary, seen>>

\* private_parallel: the private levels, before the lock.
ComputePrivate(t) ==
    LET p == AccessPrivate(l1[t], l2[t], op[t].line, op[t].type)
    IN  /\ Running /\ pc[t] = "line"
        /\ knob.privateParallel /\ knob.useCache
        /\ l1' = [l1 EXCEPT ![t] = p.l1]
        /\ l2' = [l2 EXCEPT ![t] = p.l2]
        /\ op' = [op EXCEPT ![t].r = p.r]
        /\ pc' = [pc EXCEPT ![t] = "computed"]
        /\ UNCHANGED <<knob, control, clock, llc, refs, instructions, window,
                       output, summary, operands, seen>>

AtLock(t) ==
    IF knob.privateParallel /\ knob.useCache THEN pc[t] = "computed" ELSE pc[t] = "line"

Leave(t) ==
    /\ pc' = [pc EXCEPT ![t] = "app"]
    /\ op' = [op EXCEPT ![t] = NoOp]

\* The next line of a straddling operand, or back to the application.
Advance(t) ==
    IF op[t].line = op[t].last THEN Leave(t)
    ELSE /\ pc' = [pc EXCEPT ![t] = "line"]
         /\ op' = [op EXCEPT ![t].line = @ + 1, ![t].r = NoResult]

\* The locked section finds the collection over and returns at once.
LateReference(t) ==
    /\ Running /\ AtLock(t) /\ phase = "done"
    /\ Leave(t)
    /\ seen' = [seen EXCEPT !.skipped = @ \cup {<<phase, roiEnabled>>}]
    /\ UNCHANGED <<knob, control, clock, caches, refs, instructions, window,
                   output, summary, operands>>

\* The private outcome is either the one computed before the lock or, in the
\* default mode, computed here.
CachesAfter(t) ==
    IF ~knob.useCache THEN [l1 |-> l1[t], l2 |-> l2[t], r |-> NoResult]
    ELSE IF knob.privateParallel THEN [l1 |-> l1[t], l2 |-> l2[t], r |-> op[t].r]
    ELSE AccessPrivate(l1[t], l2[t], op[t].line, op[t].type)

ObservedAfter(line, type, s) ==
    IF knob.useCache THEN RecordOutcome(RecordDemand(Open, line), s)
    ELSE RecordDram(RecordDemand(Open, line), line, type)

\* Mutant: a window that passes its target is not met again.
EpochExact(o, refsNow) ==
    \/ EpochTarget # 0 /\ o.dram = EpochTarget
    \/ knob.epochRefs # 0 /\ refsNow = knob.epochRefs

EpochDue(o, refsNow) ==
    \/ EpochTarget # 0 /\ o.dram >= EpochTarget
    \/ knob.epochRefs # 0 /\ refsNow >= knob.epochRefs

Recording == phase = "profile" /\ roiEnabled

SharedAfter(t) == AccessShared(llc, op[t].line, CachesAfter(t).r)

\* The open window, and its reference count, after t's locked section.
WindowAfter(t) ==
    IF Recording THEN ObservedAfter(op[t].line, op[t].type, SharedAfter(t)) ELSE Open

RefsAfter == IF Recording THEN epochRefs + 1 ELSE epochRefs

\* The locked section of analyzeMemRef for one line.
Reference(t) ==
    LET p == CachesAfter(t)
        o == WindowAfter(t)
    IN  /\ Running /\ AtLock(t) /\ phase # "done"
        /\ l1' = [l1 EXCEPT ![t] = p.l1]
        /\ l2' = [l2 EXCEPT ![t] = p.l2]
        /\ llc' = IF knob.useCache THEN SharedAfter(t).llc ELSE llc
        /\ refs' = IF Recording THEN [refs EXCEPT ![t] = @ + 1] ELSE refs
        /\ IF Recording /\ EpochDue(o, RefsAfter)
           THEN FinishEpoch(o, RefsAfter, phase, active)
           ELSE KeepEpoch(o, RefsAfter, phase, active)
        /\ Advance(t)
        /\ seen' = [seen EXCEPT
                      !.recorded = @ + (o.dram - dram),
                      !.intervals = Intervals(IF o.dram > dram
                                              THEN @ \cup {seen.interval} ELSE @)]
        /\ UNCHANGED <<knob, roiEnabled, clock, instructions, summary, operands>>

(***************************************************************************)
(* countBbl: the instruction counter drives the phases and -epoch_ins.      *)
(* `now` is the counter after this block.                                   *)
(***************************************************************************)
\* Mutant: the gate stays shut when fast-forward ends.
EndFastForwardShut(now) ==
    /\ phase = "fastforward" /\ now >= knob.ff
    /\ profileStart' = now /\ epochStart' = now
    /\ KeepEpoch(Open, epochRefs, IF knob.warmup # 0 THEN "warmup" ELSE "profile", active)

EndFastForward(now) ==
    /\ phase = "fastforward" /\ now >= knob.ff
    /\ profileStart' = now /\ epochStart' = now
    /\ KeepEpoch(Open, epochRefs, IF knob.warmup # 0 THEN "warmup" ELSE "profile",
                 IF roiEnabled \/ knob.warmOutside THEN 1 ELSE 0)

EndWarmup(now) ==
    /\ phase = "warmup" /\ now >= knob.ff + knob.warmup
    /\ profileStart' = now /\ epochStart' = now
    /\ KeepEpoch(Open, epochRefs, "profile", active)

LengthReached(now) ==
    phase = "profile" /\ knob.len # 0 /\ now - profileStart >= knob.len

StopAtLength(now) ==
    /\ LengthReached(now)
    /\ KeepEpoch(Open, epochRefs, "done", 0)
    /\ UNCHANGED <<profileStart, epochStart>>

InstructionEpochDue(now) ==
    /\ phase = "profile" /\ ~LengthReached(now)
    /\ knob.epochIns # 0 /\ roiEnabled /\ now - epochStart >= knob.epochIns

CloseByInstructions(now) ==
    /\ InstructionEpochDue(now)
    /\ epochStart' = now
    /\ FinishEpoch(Open, epochRefs, phase, active)
    /\ UNCHANGED profileStart

OnlyCount(now) ==
    /\ phase = "fastforward" => now < knob.ff
    /\ phase = "warmup" => now < knob.ff + knob.warmup
    /\ ~LengthReached(now) /\ ~InstructionEpochDue(now)
    /\ KeepEpoch(Open, epochRefs, phase, active)
    /\ UNCHANGED <<profileStart, epochStart>>

CountBbl(n) ==
    LET now == insCount + n
    IN  /\ Running /\ ~knob.localBbl /\ now <= Bounds(knob).ins
        /\ \E t \in Threads : pc[t] = "app"
        /\ insCount' = now
        /\ \/ EndFastForward(now) \/ EndWarmup(now) \/ StopAtLength(now)
           \/ CloseByInstructions(now) \/ OnlyCount(now)
        /\ seen' = [seen EXCEPT !.intervals = Intervals(@)]
        /\ UNCHANGED <<knob, roiEnabled, caches, pc, op, refs, instructions,
                       summary, operands>>

\* countBblLocal: with -local_bbl instructions are only totalled, per thread.
CountBblLocal(t, n) ==
    /\ Running /\ knob.localBbl /\ pc[t] = "app"
    /\ instructions[t] + n <= Bounds(knob).ins
    /\ instructions' = [instructions EXCEPT ![t] = @ + n]
    /\ UNCHANGED <<knob, control, clock, caches, pc, op, refs, window, output,
                   summary, operands, seen>>

\* roiEnter
RoiEnter(t) ==
    /\ Running /\ pc[t] = "app" /\ knob.roi = "named"
    /\ roiEnabled \/ seen.interval < Bounds(knob).roi
    /\ roiEnabled' = TRUE
    /\ epochStart' = insCount
    /\ active' = IF phase \in {"warmup", "profile"} THEN 1 ELSE active
    /\ seen' = [seen EXCEPT !.interval = IF roiEnabled THEN @ ELSE @ + 1]
    /\ UNCHANGED <<knob, phase, insCount, profileStart, caches, pc, op, refs,
                   instructions, window, output, summary, operands>>

\* Mutant: the gate reopens for warming even after the end.
WarmsAlways == IF knob.warmOutside THEN 1 ELSE 0

\* The gate outside the region.
GateOutside == IF knob.warmOutside /\ phase # "done" THEN 1 ELSE 0

\* roiExit
RoiExit(t) ==
    /\ Running /\ pc[t] = "app" /\ knob.roi # "none"
    /\ roiEnabled' = FALSE
    /\ IF knob.roiEpoch /\ Pending
       THEN FinishEpoch(Open, epochRefs, phase, GateOutside)
       ELSE KeepEpoch(Open, epochRefs, phase, GateOutside)
    /\ seen' = [seen EXCEPT !.intervals = Intervals(@)]
    /\ UNCHANGED <<knob, clock, caches, pc, op, refs, instructions, summary,
                   operands>>

SumOver(f) == SumFunctionOnSet(f, Started)

\* What writeSummary prints, from the values onFini leaves.
Summary(code) ==
    [status   |-> IF totals'.pages = 0 THEN "no data"
                  ELSE IF code # 0 THEN "application_failed"
                  ELSE IF phase' = "done" THEN "limited" ELSE "complete",
     epochs   |-> epochId',
     memRefs  |-> SumOver(refs),
     dram     |-> totals'.accesses,
     pages    |-> totals'.pages,
     histogram |-> totals'.histogram,
     capped   |-> files'.capped]

\* onFini, when the application exits with `code`.
OnFini(code) ==
    /\ Running
    /\ insCount' = IF knob.localBbl THEN SumOver(instructions) ELSE insCount
    /\ IF Pending \/ epochId = 0
       THEN FinishEpoch(Open, epochRefs, phase, active)
       ELSE KeepEpoch(Open, epochRefs, phase, active)
    /\ summary' = Summary(code)
    /\ seen' = [seen EXCEPT !.intervals = Intervals(@)]
    /\ UNCHANGED <<knob, roiEnabled, profileStart, epochStart, caches, pc, op,
                   refs, instructions, operands>>

\* unsupportedMemoryVector: a gather or scatter behind the gate ends the
\* process at once; PIN_ExitProcess runs no fini callback, so no summary.
UnsupportedVector(t) ==
    /\ Running /\ pc[t] = "app" /\ active = 1
    /\ summary' = Killed
    /\ UNCHANGED <<knob, control, clock, caches, pc, op, refs, instructions, window,
                   output, operands, seen>>

Next ==
    \/ \E t \in Threads :
          \/ OnThreadStart(t) \/ SkipOperand(t)
          \/ \E first \in Lines, type \in AccessType :
                \E last \in {first, first + 1} \cap Lines : PassGate(t, first, last, type)
          \/ ComputePrivate(t) \/ LateReference(t) \/ Reference(t)
          \/ \E n \in BblSizes : CountBblLocal(t, n)
          \/ RoiEnter(t) \/ RoiExit(t)
          \/ UnsupportedVector(t)
    \/ \E n \in BblSizes : CountBbl(n)
    \/ \E code \in ExitCodes : OnFini(code)

Spec == Init /\ [][Next]_vars

-----------------------------------------------------------------------------
Observation == [counters : Counters, dram : Nat, pair : Pair]
Operand == [line : LineOrNone, last : LineOrNone, type : AccessType, r : PrivateResult]
History == [recorded : Nat, interval : Nat, intervals : SUBSET Nat,
            skipped : SUBSET (Phases \X BOOLEAN)]

\* The types of the tool's state, with well-formed cache levels.
TypeOK ==
    /\ knob \in Knobs
    /\ phase \in Phases /\ active \in {0, 1} /\ roiEnabled \in BOOLEAN
    /\ Running => insCount \in Nat
    /\ profileStart \in Nat /\ epochStart \in Nat
    /\ l1 \in [Threads -> Level] /\ l2 \in [Threads -> Level] /\ llc \in Level
    /\ \A t \in Threads : WellFormed(GeomL1, l1[t]) /\ WellFormed(GeomL2, l2[t])
    /\ WellFormed(GeomLLC, llc)
    /\ pc \in [Threads -> {"unborn", "app", "line", "computed"}]
    /\ op \in [Threads -> Operand]
    /\ refs \in [Threads -> Nat] /\ instructions \in [Threads -> Nat]
    /\ counters \in Counters /\ dram \in Nat /\ pair \in Pair
    /\ epochRefs \in Nat /\ epochId \in Nat
    /\ operands \in Nat
    /\ seen \in History

(***************************************************************************)
(* The gate is read without the lock and set at six places; still no        *)
(* operand executed inside the ROI in the profile phase is turned away, and *)
(* a collection reported complete turned none away because it was over.     *)
(***************************************************************************)
NothingMissed ==
    /\ <<"profile", TRUE>> \notin seen.skipped
    /\ summary.status = "complete" =>
           seen.skipped \cap {<<"done", b>> : b \in BOOLEAN} = {}

(***************************************************************************)
(* A collection that has stopped (-len, -max_epochs) stays stopped: later   *)
(* ROI markers do not reopen the gate, and a thread that passed the gate    *)
(* before the stop records nothing after it.                                *)
(***************************************************************************)
StoppedForGood ==
    [][phase = "done" => /\ phase' = "done" /\ active' = 0
                         /\ seen'.recorded = seen.recorded /\ refs' = refs]_vars

(***************************************************************************)
(* A DRAM-access window never stays open at or past its target, although    *)
(* one reference can add four accesses ...                                  *)
(***************************************************************************)
WindowBound == EpochTarget # 0 => dram < EpochTarget

(***************************************************************************)
(* ... so the window a step closes exceeds the target by at most three.     *)
(***************************************************************************)
Overshoot ==
    [][EpochTarget # 0 /\ epochId' # epochId =>
           dram + (seen'.recorded - seen.recorded) <= EpochTarget + 3]_vars

(***************************************************************************)
(* The independent observers of one window agree: the DRAM counter, the     *)
(* page counters and the traffic stream count the same accesses and mark    *)
(* the same words, and the access stream counts the window's references.    *)
(***************************************************************************)
ObserversAgree ==
    /\ dram = counters.total
    /\ knob.paired =>
         /\ pair.epochEvents["traffic"] = dram
         /\ pair.epoch["traffic"] = {l \in Lines : counters.word[l] # 0}
         /\ pair.epochEvents["accesses"] = epochRefs

(***************************************************************************)
(* In every paired window the filled lines are among the lines demanded in  *)
(* that same window, and among its traffic: a fill is never charged to the  *)
(* window after its reference, even when that reference closes the window.  *)
(***************************************************************************)
FillsWithinAccesses ==
    knob.paired =>
        /\ pair.epoch["fills"] \subseteq pair.epoch["accesses"]
        /\ pair.epoch["fills"] \subseteq pair.epoch["traffic"]
        /\ pair.whole["fills"] \subseteq pair.whole["accesses"]

(***************************************************************************)
(* With -roi_epoch, DRAM accesses of two ROI invocations never share an     *)
(* epoch.                                                                   *)
(***************************************************************************)
OneInvocation == knob.roiEpoch => Cardinality(seen.intervals) <= 1

(***************************************************************************)
(* No DRAM access is lost or counted twice between the open epoch and the   *)
(* aggregates, whichever of the five places closes the epoch; at exit the   *)
(* open epoch is empty and the summary, the epoch rows and the paired rows  *)
(* tell the same totals.                                                    *)
(***************************************************************************)
NothingLost ==
    /\ totals.accesses + dram = seen.recorded
    /\ ~Running /\ summary # Killed =>
         /\ dram = 0 /\ summary.dram = seen.recorded
         /\ summary.dram = SumFunction([i \in DOMAIN files.csv |-> files.csv[i].accesses])
         /\ knob.paired =>
              /\ summary.memRefs = pair.totalEvents["accesses"]
              /\ summary.memRefs = SumFunction([i \in DOMAIN files.paired |->
                                                 files.paired[i].events["accesses"]])
              /\ pair.totalEvents["traffic"] = summary.dram

(***************************************************************************)
(* A complete paired collection from cold caches passes the audits: the     *)
(* histograms of its epochs, of the whole run and of the summary, and its   *)
(* event counts, fit together as compare_reproduction.py and                *)
(* audit_results.py demand of every run they publish.                       *)
(***************************************************************************)
AuditHolds ==
    knob.paired /\ ~knob.warmOutside /\ knob.warmup = 0 /\ summary.status = "complete" =>
        /\ CheckedHistograms(files.paired, pair.whole, pair.totalEvents, summary, TRUE)
        /\ AuditResults(files.paired, pair.whole, pair.totalEvents, summary, TRUE)
OneThread == Cardinality(Started) = 1
AuditsPass == knob.roi = "none" \/ OneThread => AuditHolds

(***************************************************************************)
(* The audits assert so much with regions and several threads too, which    *)
(* does not hold: a thread that passed the gate before its region was left  *)
(* fills the caches unrecorded, and what it left there is hit, or written   *)
(* back, in the next region.                                                *)
(***************************************************************************)
RegionsAudited == AuditHolds

(***************************************************************************)
(* The raw dump covers the summary: unless it was capped or filtered, every *)
(* epoch id below the reported count has a page record (and an epoch row),  *)
(* and no other has.  revalidate_extensions.py refuses a dump that does not.*)
(* (With -paired it may not: CompleteDumpAnalysable.)                       *)
(***************************************************************************)
RawCoversEpochs ==
    ~knob.paired /\ ~files.capped /\ knob.dumpMin <= 1 =>
        /\ {r[1] : r \in files.bin} = 0..(epochId - 1)
        /\ {files.csv[i].epoch : i \in DOMAIN files.csv} = 0..(epochId - 1)

\* What revalidate_extensions.analyse() requires of a complete, uncapped run:
\* as many epochs in the raw records as the summary reports, from 0 on.
CompleteDumpAnalysable ==
    summary.status = "complete" /\ ~files.capped /\ knob.dumpMin <= 1 =>
        {r[1] : r \in files.bin} = 0..(summary.epochs - 1)

\* -epoch_refs: a window never holds its target of references and stays open.
ReferenceWindow == knob.epochRefs # 0 => epochRefs < knob.epochRefs
=============================================================================
