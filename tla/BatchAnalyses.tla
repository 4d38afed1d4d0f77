---------------------------- MODULE BatchAnalyses ----------------------------
(***************************************************************************)
(* The analyses that load all records at once: load_pages of hotskew.py,    *)
(* evaluate of latency_model.py and placement_study.py, analyse of          *)
(* hotset_turnover.py; and those that read the summary alone.               *)
(***************************************************************************)
EXTENDS RawRecords, Sequences

\* A dump is its records in the order they were written, whether the file ends
\* within one, the summary of the collection, and whether the scores of its
\* trackers are between 0 and 1.
SetOf(s) == {s[i] : i \in DOMAIN s}

\* load_pages(require_complete) of records whose pages differ in each window.
Loads(dump) ==
  /\ ~dump.cut
  /\ ~dump.summary.capped
  /\ Len(dump.recs) = dump.summary.observations
  /\ Accesses(SetOf(dump.recs)) = dump.summary.accesses
  /\ dump.summary.complete

\* Figure 4: observations with at most n words, from the records and from the
\* histogram of the summary.
AtMost(R, n) == Cardinality({r \in R : Touched(r) <= n})
AtMostOf(histogram, n) == MapThenSumSet(LAMBDA i : histogram[i], 0 .. n)

\* wasted_migration_bytes: words of the observed pages that nothing touched.
Wasted(R) == Words * Cardinality(R) - MapThenSumSet(Touched, R)

\* validated_histogram of compare_simulator_m5.py: observations of touched pages,
\* each word of which cost an access.
ValidHistogram(summary) ==
  /\ summary.observations > 0 /\ summary.epochs >= 1
  /\ summary.histogram[0] = 0
  /\ AtMostOf(summary.histogram, Words) = summary.observations
  /\ MapThenSumSet(LAMBDA i : i * summary.histogram[i], 0 .. Words) <= summary.accesses

\* Windows are compared with the next one there is.
First(R) == Window(R, Min(Epochs(R)))
Later(R) == Epochs(R) \ {Min(Epochs(R))}
Before(R, e) == Window(R, Max({d \in Epochs(R) : d < e}))

\* What a policy has in the fast memory in window e.
Chosen(R, divisor, policy, e) ==
  LET capacity == Capacity(First(R), divisor)
  IN  IF e = Min(Epochs(R)) THEN {}
      ELSE IF policy = "oracle" THEN Choice(AccessesOf(Window(R, e)), capacity)
      ELSE Candidates(Before(R, e), capacity)[policy]

\* evaluate: accesses to the fast memory, and pages promoted to it.
Evaluated(R, divisor, policy) ==
  LET chosen(e) == Chosen(R, divisor, policy, e)
      promoted(e) == chosen(e) \ chosen(Max({d \in Epochs(R) : d < e}))
  IN  [fast |-> MapThenSumSet(LAMBDA e : Landing(Window(R, e), chosen(e)), Later(R)),
       new |-> MapThenSumSet(LAMBDA e : Cardinality(promoted(e)), Later(R))]

\* analyse: means over the transitions, each of which counts the same whatever the
\* traffic; a window without accesses has no share.  Fewer than two windows are
\* reported as insufficient.  Left out are the least retention and the quotient of
\* coverage and concentration (staleness).
Transitions(R, k) == [e \in Later(R) |-> Transition(Before(R, e), Window(R, e), k)]

Turnover(R, k) ==
  LET of == Transitions(R, k)
      busy == {e \in Later(R) : of[e].total # 0}
  IN  [retention |-> Mean([e \in Later(R) |-> <<of[e].kept, of[e].of>>]),
       jaccard |-> Mean([e \in Later(R) |-> <<of[e].kept, of[e].either>>]),
       coverage |-> Mean([e \in busy |-> <<of[e].late, of[e].total>>]),
       concentration |-> Mean([e \in busy |-> <<of[e].own, of[e].total>>])]
=============================================================================
