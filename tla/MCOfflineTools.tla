---------------------------- MODULE MCOfflineTools ----------------------------
(***************************************************************************)
(* Dumps of two words per page whose counters saturate at 2: all dumps of   *)
(* two windows of up to three pages and many of three windows of up to two, *)
(* and one dump of three windows with every single defect: a record that is *)
(* missing, repeated, replaced, swapped or altered, a torn end, a cap, a    *)
(* collection that is not complete, a tracker's score that is no ratio.     *)
(***************************************************************************)
EXTENDS OfflineTools, SequencesExt

Records == INSTANCE BatchAnalyses

Everything == {"migration", "analysis", "studies", "inputs", "guest"}

\* The counts of the two words and the accesses that no word counted.
Kinds == {<<1, 0, 0>>, <<1, 1, 0>>, <<2, 1, 1>>}
FewKinds == {<<1, 0, 0>>, <<0, 1, 0>>, <<2, 1, 1>>}

RecordOf(e, p, k) ==
  [epoch |-> e, page |-> p, acc |-> k[1] + k[2] + k[3],
   mask |-> {w \in 0 .. 1 : k[w + 1] # 0}, words |-> [w \in 0 .. 1 |-> k[w + 1]]]

\* The records of a window are written from the highest page down.
WindowOf(e, pages) ==
  LET order == SetToSortSeq(DOMAIN pages, LAMBDA a, b : a > b)
  IN  [i \in DOMAIN order |-> RecordOf(e, order[i], pages[order[i]])]

Complete(s) ==
  [recs |-> s, cut |-> FALSE, ratios |-> TRUE,
   summary |-> [complete |-> TRUE, capped |-> FALSE, observations |-> Len(s),
                accesses |-> Records!Accesses(Records!SetOf(s)),
                epochs |-> Cardinality({s[i].epoch : i \in DOMAIN s}),
                histogram |-> Records!Histogram(Records!Merged(Records!SetOf(s), 1))]]

Windows(pages, kinds) == UNION {[s -> kinds] : s \in SUBSET pages \ {{}}}

TwoWindows ==
  {Complete(WindowOf(0, a) \o WindowOf(1, b)) :
     a \in Windows(0 .. 2, Kinds), b \in Windows(0 .. 2, Kinds)}
ThreeWindows ==
  {Complete(WindowOf(0, a) \o WindowOf(1, b) \o WindowOf(2, c)) :
     a \in Windows(0 .. 1, Kinds), b \in Windows(0 .. 1, FewKinds), c \in Windows(0 .. 1, FewKinds)}

Sound == WindowOf(0, <<<<1, 0, 0>>, <<1, 1, 0>>>>) \o WindowOf(1, <<<<1, 1, 0>>, <<2, 1, 1>>>>)
           \o WindowOf(2, <<<<1, 0, 0>>>>)
SoundOnes == DOMAIN Sound

Altered ==
  {RemoveAt(Sound, i) : i \in SoundOnes} \cup {<<>>}
  \cup {InsertAt(Sound, i, Sound[j]) : i, j \in SoundOnes}
  \cup {ReplaceAt(Sound, i, Sound[j]) : i, j \in SoundOnes}
  \cup {[Sound EXCEPT ![i] = Sound[j], ![j] = Sound[i]] : i, j \in SoundOnes}
  \cup {[Sound EXCEPT ![i].epoch = e] : i \in SoundOnes, e \in 0 .. 3}
  \cup {[Sound EXCEPT ![i].acc = n] : i \in SoundOnes, n \in 1 .. 4}
  \cup {[Sound EXCEPT ![i].mask = m] : i \in SoundOnes, m \in SUBSET (0 .. 1)}

Defective ==
  {[Complete(Sound) EXCEPT !.recs = s] : s \in Altered}
  \cup {[Complete(Sound) EXCEPT !.cut = TRUE], [Complete(Sound) EXCEPT !.summary.capped = TRUE],
        [Complete(Sound) EXCEPT !.summary.complete = FALSE],
        [Complete(Sound) EXCEPT !.ratios = FALSE], Complete(<<>>)}

SomeDumps == TwoWindows \cup ThreeWindows \cup Defective

\* The second candidate is within a tolerance of 1 and the last one measured.
ErrorsOfCandidates == <<2, 1, 3>>
=============================================================================
