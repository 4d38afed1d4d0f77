------------------------------- MODULE Probe -------------------------------
(***************************************************************************)
(* The simulator probe (hotskew_probe.hpp): memory requests counted exactly *)
(* and fed to trackers of several budgets, epochs that close after a number *)
(* of accesses, by hand or at exit and score the trackers, and a summary    *)
(* that is rewritten after every epoch.  The simulator calls the probe from *)
(* one event loop and may be killed at any moment.                          *)
(***************************************************************************)
EXTENDS PageCounters, Sequences

CONSTANTS Hash(_, _), RefreshInterval,
          Depth,            \* cmDepth
          Budgets,          \* trackerBudgets
          ProbeConfigs,     \* the other settings to consider
          Requests,         \* requests a simulator may make
          MaxAccesses       \* bound: lines requested

Keys == Lines \cup Pages
Slots == DOMAIN Budgets

ProbeConfig == [topK : Nat \ {0}, useCountMin : BOOLEAN, trackWords : BOOLEAN,
                epochAccesses : Nat, autoWrite : BOOLEAN]

ASSUME ProbeAssumption ==
    /\ \A key \in Keys, row \in 1..Depth : Hash(key, row) \in Nat
    /\ RefreshInterval \in Nat \ {0} /\ Depth \in Nat \ {0}
    /\ Budgets \in Seq(Nat \ {0})
    /\ ProbeConfigs \subseteq ProbeConfig
    /\ \A r \in Requests : /\ r.first \in Nat /\ r.last \in Nat /\ r.first <= r.last
                           /\ r.first..r.last \subseteq Lines /\ r.type \in AccessType
    /\ MaxAccesses \in Nat

INSTANCE SpaceSavingHeap
INSTANCE CountMinTopK

\* A slot of budget n spends it on entries or on rows of n / depth counters.
WidthOf(n) == IF n \div Depth = 0 THEN 1 ELSE n \div Depth

VARIABLES config,           \* cfg_ and autoWrite_
          counters,         \* counters_
          hpt, hwt,         \* slots_[i].hpt and .hwt
          hptCM, hwtCM,     \* slots_[i].hptCM and .hwtCM
          sinceEpoch,       \* sinceEpoch_
          results,          \* results_; epoch_ is its length
          request,          \* the lines left of the request being counted
          stage,            \* of the run: running, closing, flushing, ended, killed
          writing,          \* of writeSummary: no, torn (under way), whole (closed)
          disk,             \* the summary and the temporary file
          accesses          \* history and bound: lines counted

trackers == <<hpt, hwt, hptCM, hwtCM>>
memory == <<counters, trackers, sinceEpoch, results>>
vars == <<config, memory, request, stage, writing, disk, accesses>>

NoRequest == <<>>
NoFile == [whole |-> FALSE, epochs |-> 0]

EmptyTrackers == [i \in Slots |-> EmptyTracker]
EmptySketches == [i \in Slots |-> EmptySketch(Depth, WidthOf(Budgets[i]))]

Init ==
    /\ config \in ProbeConfigs
    /\ counters = EmptyCounters
    /\ hpt = EmptyTrackers /\ hwt = EmptyTrackers
    /\ hptCM = EmptySketches /\ hwtCM = EmptySketches
    /\ sinceEpoch = 0 /\ results = <<>>
    /\ request = NoRequest
    /\ stage = "running" /\ writing = "no"
    /\ disk = [summary |-> NoFile, tmp |-> NoFile]
    /\ accesses = 0

-----------------------------------------------------------------------------
\* The trackers after an access to `line`; only one algorithm is fed, and the
\* word trackers only if wanted.
Fed(ts, key, wanted) ==
    IF wanted THEN [i \in Slots |-> TrackAccess(ts[i], Budgets[i], key)] ELSE ts
FedCM(ss, key, wanted) ==
    IF wanted THEN [i \in Slots |-> SketchAccess(ss[i], config.topK, key)] ELSE ss

After(line, type) ==
    LET cm == config.useCountMin
        words == config.trackWords
    IN  [counters |-> CountAccess(counters, line, type),
         hpt   |-> Fed(hpt, PageOf(line), ~cm),
         hwt   |-> Fed(hwt, line, ~cm /\ words),
         hptCM |-> FedCM(hptCM, PageOf(line), cm),
         hwtCM |-> FedCM(hwtCM, line, cm /\ words)]

Now == [counters |-> counters, hpt |-> hpt, hwt |-> hwt, hptCM |-> hptCM, hwtCM |-> hwtCM]

\* The exact counts a tracker is scored against.
ExactPages(c) == [p \in TouchedPages(c) |-> PageTotal(c, p)]
ExactWords(c) == [l \in {k \in Lines : c.word[k] # 0} |-> c.word[l]]

\* Any choice of the k keys that count most (partial_sort leaves ties open).
Best(counts, k) ==
    LET keys == DOMAIN counts
        n == Min({k, Cardinality(keys)})
    IN  {S \in kSubset(n, keys) :
            \A a \in S, b \in keys \ S : counts[a] >= counts[b]}

Sum(counts, S) == SumFunctionOnSet(counts, S \cap DOMAIN counts)

\* scoreTopK: what the picked keys count, and what the best keys count.
Score(picked, exact, k) ==
    [picked |-> Sum(exact, picked), ideal |-> Sum(exact, CHOOSE S \in Best(exact, k) : TRUE)]

\* Mutant: an entry is ranked by its error.
RankedErrors(t) == [key \in KeysHeld(t) |-> EntryOf(t, key).error]

\* The counts a tracker ranks its keys by when it is asked for its top keys.
RankedEntries(t) == [key \in KeysHeld(t) |-> EntryOf(t, key).count]
RankedCam(s) == [key \in CamKeys(s) |-> Estimate(s, key)]

NoScore == [picked |-> 0, ideal |-> 0]

\* The scores one slot may get in an epoch.
PageScores(o, i) ==
    {Score(S, ExactPages(o.counters), config.topK) :
        S \in Best(IF config.useCountMin THEN RankedCam(o.hptCM[i])
                   ELSE RankedEntries(o.hpt[i]), config.topK)}
WordScores(o, i) ==
    IF ~config.trackWords THEN {NoScore}
    ELSE {Score(S, ExactWords(o.counters), config.topK) :
             S \in Best(IF config.useCountMin THEN RankedCam(o.hwtCM[i])
                        ELSE RankedEntries(o.hwt[i]), config.topK)}

\* One score per slot, each from the scores that slot may get.
OnePerSlot(scores(_)) ==
    {f \in [Slots -> UNION {scores(i) : i \in Slots}] : \A i \in Slots : f[i] \in scores(i)}

Keep(o, since) ==
    /\ counters' = o.counters /\ sinceEpoch' = since
    /\ hpt' = o.hpt /\ hwt' = o.hwt /\ hptCM' = o.hptCM /\ hwtCM' = o.hwtCM
    /\ UNCHANGED <<results, writing, disk>>

\* Mutant: the summary itself is truncated and written.
WriteInPlace(n) ==
    /\ writing' = "torn"
    /\ disk' = [disk EXCEPT !.tmp = [whole |-> FALSE, epochs |-> n],
                            !.summary = [whole |-> FALSE, epochs |-> n]]

\* writeSummary begins: the temporary file is created, or truncated.
BeginWrite(n) ==
    /\ writing' = "torn"
    /\ disk' = [disk EXCEPT !.tmp = [whole |-> FALSE, epochs |-> n]]

EpochResult(o, hptRatio, hwtRatio) ==
    [pages    |-> Cardinality(TouchedPages(o.counters)),
     accesses |-> AccessesIn(o.counters),
     words    |-> UniqueWordsIn(o.counters),
     hpt      |-> hptRatio,
     hwt      |-> hwtRatio]

(***************************************************************************)
(* endEpoch on what is open: score, forget and, with setAutoWrite, begin to *)
(* write the summary.  The counters are reset after the write, which does   *)
(* not look at them.                                                        *)
(***************************************************************************)
EndEpoch(o, since) ==
    IF TouchedPages(o.counters) = {} THEN Keep(o, since)
    ELSE /\ \E hptRatio \in OnePerSlot(LAMBDA i : PageScores(o, i)),
               hwtRatio \in OnePerSlot(LAMBDA i : WordScores(o, i)) :
                results' = Append(results, EpochResult(o, hptRatio, hwtRatio))
         /\ hpt' = EmptyTrackers /\ hwt' = EmptyTrackers
         /\ hptCM' = EmptySketches /\ hwtCM' = EmptySketches
         /\ IF config.autoWrite THEN BeginWrite(Len(results'))
            ELSE UNCHANGED <<writing, disk>>
         /\ counters' = EmptyCounters
         /\ sinceEpoch' = 0

-----------------------------------------------------------------------------
Idle == stage = "running" /\ writing = "no"

\* onRequest; one that crosses a line is counted once on every line it touches.
OnRequest(r) ==
    /\ Idle /\ request = NoRequest
    /\ accesses + (r.last - r.first + 1) <= MaxAccesses
    /\ request' = [i \in 1..(r.last - r.first + 1) |->
                      [line |-> r.first + (i - 1), type |-> r.type]]
    /\ UNCHANGED <<config, memory, stage, writing, disk, accesses>>

\* Mutant: one access too many before an epoch closes.
EpochLate == config.epochAccesses # 0 /\ sinceEpoch >= config.epochAccesses

\* Whether this access is the one that fills an automatic epoch.
EpochFull == config.epochAccesses # 0 /\ sinceEpoch + 1 >= config.epochAccesses

Since == IF config.epochAccesses # 0 THEN sinceEpoch + 1 ELSE sinceEpoch

OnLine ==
    /\ Idle /\ request # NoRequest
    /\ LET o == After(Head(request).line, Head(request).type)
       IN  IF EpochFull THEN EndEpoch(o, Since) ELSE Keep(o, Since)
    /\ request' = Tail(request)
    /\ accesses' = accesses + 1
    /\ UNCHANGED <<config, stage>>

\* endEpoch called by the simulator, between two requests.
CloseByHand ==
    /\ Idle /\ request = NoRequest
    /\ EndEpoch(Now, sinceEpoch)
    /\ UNCHANGED <<config, request, stage, accesses>>

\* The exit callback: endEpoch, then writeSummary.
Exit ==
    /\ Idle /\ request = NoRequest
    /\ EndEpoch(Now, sinceEpoch)
    /\ stage' = "closing"
    /\ UNCHANGED <<config, request, accesses>>

Flush ==
    /\ stage = "closing" /\ writing = "no"
    /\ BeginWrite(Len(results))
    /\ stage' = "flushing"
    /\ UNCHANGED <<config, memory, request, accesses>>

\* The temporary file is complete and closed.
Complete ==
    /\ writing = "torn"
    /\ writing' = "whole"
    /\ disk' = [disk EXCEPT !.tmp.whole = TRUE]
    /\ UNCHANGED <<config, memory, request, stage, accesses>>

\* std::rename puts it in the place of the old summary.
Rename ==
    /\ writing = "whole"
    /\ writing' = "no"
    /\ disk' = [summary |-> disk.tmp, tmp |-> NoFile]
    /\ stage' = IF stage = "flushing" THEN "ended" ELSE stage
    /\ UNCHANGED <<config, memory, request, accesses>>

\* The simulator is killed; only the disk survives.
Kill ==
    /\ stage \notin {"ended", "killed"}
    /\ stage' = "killed" /\ writing' = "no"
    /\ UNCHANGED <<config, memory, request, disk, accesses>>

Next ==
    \/ \E r \in Requests : OnRequest(r)
    \/ OnLine \/ CloseByHand \/ Exit \/ Flush \/ Complete \/ Rename \/ Kill

Spec == Init /\ [][Next]_vars

-----------------------------------------------------------------------------
Closed == SumFunction([e \in DOMAIN results |-> results[e].accesses])

(***************************************************************************)
(* Every line of every request is in exactly one epoch or still open, also  *)
(* when an epoch closes in the middle of a request that crosses a line, and *)
(* at the end nothing is open.  An automatic epoch is exactly as long as    *)
(* configured, also after one that was closed by hand: what it counts       *)
(* towards its end is what it holds.                                        *)
(***************************************************************************)
EpochsAreWhole ==
    /\ Closed + counters.total = accesses
    /\ stage \in {"closing", "flushing", "ended"} => counters.total = 0
    /\ config.epochAccesses # 0 =>
          /\ sinceEpoch = counters.total
          /\ sinceEpoch < config.epochAccesses
          /\ \A e \in DOMAIN results : results[e].accesses <= config.epochAccesses

(***************************************************************************)
(* A page that received more than its share, one part in N of the epoch's   *)
(* accesses, is in every Space-Saving tracker of N entries.                 *)
(***************************************************************************)
HeavyHittersKept ==
    ~config.useCountMin =>
        \A i \in Slots, p \in Pages :
            PageTotal(counters, p) * Budgets[i] > counters.total => p \in KeysHeld(hpt[i])

Ratio(score) == score.picked <= score.ideal

(***************************************************************************)
(* No tracker scores better than the best choice of k keys, and Space-      *)
(* Saving scores exactly as well when all the epoch's keys had room ("1.0   *)
(* means the tracker picked a set as hot as the best possible", tracker.hpp *)
(* line 341).                                                               *)
(***************************************************************************)
ScoresFair ==
    \A e \in DOMAIN results, i \in Slots :
        LET r == results[e]
        IN  /\ Ratio(r.hpt[i]) /\ Ratio(r.hwt[i])
            /\ ~config.useCountMin /\ r.pages <= Budgets[i] =>
                   r.hpt[i].picked = r.hpt[i].ideal
            /\ ~config.useCountMin /\ r.words <= Budgets[i] =>
                   r.hwt[i].picked = r.hwt[i].ideal

(***************************************************************************)
(* The sketch over-counts on collisions and never under-counts              *)
(* (tracker.hpp:173), for the exact counts of the open epoch.               *)
(***************************************************************************)
NeverUnderestimates ==
    config.useCountMin =>
        \A i \in Slots :
            /\ \A p \in Pages : PageTotal(counters, p) <= Estimate(hptCM[i], p)
            /\ config.trackWords =>
                   \A l \in Lines : counters.word[l] <= Estimate(hwtCM[i], l)

Honest(s) ==
    /\ \A j \in DOMAIN s.cam : s.cam[j].est <= Estimate(s, s.cam[j].key)
    /\ \A j, m \in DOMAIN s.cam : s.cam[j].key = s.cam[m].key => j = m

(***************************************************************************)
(* The CAM holds no key twice and no cached estimate runs ahead of the      *)
(* sketch: a key is never kept for accesses it did not have.                *)
(***************************************************************************)
CamHonest == \A i \in Slots : Honest(hptCM[i]) /\ Honest(hwtCM[i])

(***************************************************************************)
(* Whatever leaves the CAM within an epoch leaves it to a key the sketch    *)
(* then estimates higher, by counts sampled at the same instant             *)
(* (tracker.hpp:181-198).                                                   *)
(***************************************************************************)
Outranked(s, t) ==
    CamKeys(t) # {} =>
        \A old \in CamKeys(s) \ CamKeys(t) :
            \A new \in CamKeys(t) \ CamKeys(s) : Estimate(t, new) > Estimate(t, old)

NewcomersHotter ==
    [][\A i \in Slots : Outranked(hptCM[i], hptCM'[i]) /\ Outranked(hwtCM[i], hwtCM'[i])]_vars

(***************************************************************************)
(* Wherever the simulator is killed, the summary on disk is whole and       *)
(* misses at most the epoch whose summary was being written; without a kill *)
(* it has every epoch.                                                      *)
(***************************************************************************)
SummarySurvives ==
    /\ disk.summary # NoFile => disk.summary.whole
    /\ config.autoWrite => disk.summary.epochs >= Len(results) - 1
    /\ config.autoWrite /\ writing = "no" /\ stage # "killed" =>
           disk.summary.epochs = Len(results)
    /\ stage = "ended" => disk.summary = [whole |-> TRUE, epochs |-> Len(results)]

Unfed(keys) == [k \in keys |-> 0]

\* What each Space-Saving tracker is promised to do with the stream it is fed.
PageTracker(i) == INSTANCE SpaceSaving WITH
    Keys <- Pages, Capacity <- Budgets[i], entries <- Entries(hpt[i]),
    truth <- IF config.useCountMin THEN Unfed(Pages)
             ELSE [p \in Pages |-> PageTotal(counters, p)]
WordTracker(i) == INSTANCE SpaceSaving WITH
    Keys <- Lines, Capacity <- Budgets[i], entries <- Entries(hwt[i]),
    truth <- IF config.useCountMin \/ ~config.trackWords THEN Unfed(Lines)
             ELSE counters.word

(***************************************************************************)
(* Every heap of every slot does what Space-Saving promises for the exact   *)
(* stream of its epoch (as long as no word counter saturates).              *)
(***************************************************************************)
ImplementsSpaceSaving ==
    /\ \A i \in Slots : PageTracker(i)!Init /\ WordTracker(i)!Init
    /\ [][\A i \in Slots : /\ [PageTracker(i)!Next]_(PageTracker(i)!vars)
                           /\ [WordTracker(i)!Next]_(WordTracker(i)!vars)]_vars
=============================================================================
