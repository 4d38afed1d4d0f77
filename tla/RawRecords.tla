----------------------------- MODULE RawRecords -----------------------------
(***************************************************************************)
(* The raw records of a collection and what the analyses make of those of   *)
(* one observation window: hotskew.py, hotset_turnover.py,                  *)
(* causal_placement.py, granularity_sweep.py, window_fit.py.  A window is a *)
(* set of records with different pages.  Shares are pairs of a numerator    *)
(* and a denominator, or the numerator where the denominator is known.      *)
(***************************************************************************)
EXTENDS Integers, FiniteSetsExt

CONSTANTS
  Words,       \* 64-byte words of a page (64)
  Saturated,   \* where the 16-bit counter of a word stops (65535)
  PageSizes,   \* in pages of 4 KiB
  WordSizes,   \* in words
  HotWords     \* the word-driven policy's budget of words per fast page (8)

WordIds == 0 .. Words - 1

\* acc: reads and writes; mask: the words touched; words: their counts.
RawRecord == [epoch : Nat, page : Nat, acc : Nat, mask : SUBSET WordIds,
              words : [WordIds -> 0 .. Saturated]]

Touched(r) == Cardinality(r.mask)
SumOfWords(r) == SumFunctionOnSet(r.words, WordIds)
IsSaturated(R) == \E r \in R : \E w \in WordIds : r.words[w] = Saturated
Accesses(R) == MapThenSumSet(LAMBDA r : r.acc, R)
Window(R, e) == {r \in R : r.epoch = e}
Epochs(R) == {r.epoch : r \in R}

\* How many observations touched n words.
Histogram(masks) == [n \in 0 .. Words |-> Cardinality({m \in masks : Cardinality(m[2]) = n})]

AccessesOf(R) == [r \in R |-> r.acc]
PagesOf(R) == [r \in R |-> r.page]

\* The k with the highest scores, the lowest keys where they are equal.
Best(score, key, k) ==
  LET Before(y, x) == score[y] > score[x] \/ (score[y] = score[x] /\ key[y] < key[x])
  IN  {x \in DOMAIN score : Cardinality({y \in DOMAIN score : Before(y, x)}) < k}

\* top_k_of_epoch
TopK(R, k) == {r.page : r \in Best(AccessesOf(R), PagesOf(R), k)}

\* choose: pages without a score are not chosen.
Choice(score, capacity) ==
  LET scored == {r \in DOMAIN score : score[r] > 0}
  IN  {r.page : r \in Best([r \in scored |-> score[r]], PagesOf(scored), capacity)}

\* The hottest words of all pages, at most so many, and how many are in a page.
HottestWords(R, budget) ==
  LET counted == {x \in R \X WordIds : x[1].words[x[2]] > 0}
  IN  Best([x \in counted |-> x[1].words[x[2]]],
           [x \in counted |-> x[1].page * Words + x[2]], budget)
InPage(hot, r) == Cardinality({x \in hot : x[1] = r})

Policies == {"count-only", "hpt-driven", "hwt-driven"}

\* candidates: selected from one window for the next.
Candidates(prev, capacity) ==
  LET hot == HottestWords(prev, capacity * HotWords)
      hpt == Choice(AccessesOf(prev), capacity)
  IN  [p \in Policies |->
         CASE p = "count-only" -> hpt
           [] p = "hpt-driven" ->
                Choice([r \in prev |-> IF r.page \in hpt THEN InPage(hot, r) ELSE 0], capacity)
           [] p = "hwt-driven" -> Choice([r \in prev |-> InPage(hot, r)], capacity)]

\* fixed_capacity: a share of the first window's pages, at least one.
Capacity(first, divisor) ==
  LET share == Cardinality(first) \div divisor IN IF share > 1 THEN share ELSE 1

\* The accesses of a window that land in the chosen pages.
Landing(R, chosen) == Accesses({r \in R : r.page \in chosen})

\* What became of the k hottest pages of a window in the next: how many are still
\* among its k hottest, and the accesses that land in the former and the latter.
Transition(prev, R, k) ==
  LET was == TopK(prev, k)
      is == TopK(R, k)
  IN  [kept |-> Cardinality(was \cap is), of |-> Cardinality(was),
       either |-> Cardinality(was \cup is),
       late |-> Landing(R, was), own |-> Landing(R, is), total |-> Accesses(R)]

AddShares(a, b) == <<a[1] * b[2] + b[1] * a[2], a[2] * b[2]>>
SameShare(a, b) == a[1] * b[2] = b[1] * a[2]

\* np.mean: every share counts the same; 0 of 0 where there is none.
Mean(shares) ==
  LET sum == FoldFunction(AddShares, <<0, 1>>, shares)
  IN  <<sum[1], sum[2] * Cardinality(DOMAIN shares)>>

Sizes == {x \in PageSizes \X WordSizes : x[2] < x[1] * Words}

\* sweep_records: observations of pages of another size, the coarser words they
\* touched, and how many touched at most a quarter of theirs.
Sweep(R) ==
  [x \in Sizes |->
     LET coarse(S) == UNION {{r} \X {w \div x[2] : w \in r.mask} : r \in S}
         regions == {<<r.epoch, r.page \div x[1]>> : r \in R}
         within(g) == {r \in R : r.epoch = g[1] /\ r.page \div x[1] = g[2]}
     IN  [pages |-> Cardinality(regions),
          touched |-> Cardinality(coarse(R)),
          sparse |-> Cardinality({g \in regions :
                       4 * Cardinality(coarse(within(g))) <= (x[1] * Words) \div x[2]})]]

\* cdf_at_merge: the masks of m consecutive windows are united page by page.
Merged(R, m) ==
  {<<k, UNION {r.mask : r \in {r \in R : r.epoch \div m = k[1] /\ r.page = k[2]}}>> :
     k \in {<<r.epoch \div m, r.page>> : r \in R}}
=============================================================================
