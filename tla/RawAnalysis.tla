----------------------------- MODULE RawAnalysis -----------------------------
(***************************************************************************)
(* revalidate_extensions.py: the records of a collection are read in blocks *)
(* and analysed window by window, which the campaign takes for the proof    *)
(* that the collection is complete.  Any exception is the verdict "error".  *)
(***************************************************************************)
EXTENDS BatchAnalyses, SequencesExt

CONSTANTS
  Dumps,       \* the dumps analysed
  BlockSizes,  \* records read at a time (32768)
  Ks,          \* sizes of the hot set (128, 10000, 128000)
  Divisors     \* 1 / fractions of fast memory (10, 4, 2)

VARIABLES
  dump,      \* the dump analysed
  block,     \* records per read
  reader,    \* the generator: records read, those not yet yielded, the last
             \* window yielded, the end of the file
  sums,      \* the totals so far
  prev,      \* the window before
  placed,    \* per fraction and policy: totals and pages in fast memory
  verdict

readVars == <<dump, block, reader, sums, prev, placed, verdict>>

AllPolicies == Policies \cup {"oracle"}
NoSums == [observed |-> 0, events |-> 0, count |-> 0, saturated |-> FALSE,
           histogram |-> [n \in 0 .. Words |-> 0],
           sweep |-> [x \in Sizes |-> [pages |-> 0, touched |-> 0, sparse |-> 0]],
           turnover |-> [k \in Ks |-> <<>>],
           capacity |-> [d \in Divisors |-> 0]]
Nowhere == [fast |-> 0, new |-> 0, rounds |-> 0, resident |-> {}]

Fresh ==
  /\ reader = [pos |-> 0, pending |-> <<>>, last |-> -1, eof |-> FALSE]
  /\ sums = NoSums /\ prev = {}
  /\ placed = [d \in Divisors |-> [p \in AllPolicies |-> Nowhere]]

\* An incomplete collection or a capped dump is refused at once.
Open(d) ==
  /\ dump = d /\ block \in BlockSizes
  /\ Fresh
  /\ verdict = IF d.summary.complete /\ ~d.summary.capped THEN "none" ELSE "error"

Init == \E d \in Dumps : Open(d)

Boundaries(s) == {i \in 1 .. Len(s) - 1 : s[i].epoch # s[i + 1].epoch}

\* A window is whole when the next one has begun, or at the end of the file.
WindowEnd == IF Boundaries(reader.pending) # {} THEN Min(Boundaries(reader.pending))
             ELSE Len(reader.pending)
\* Mutant: what a block holds is yielded, be the window whole or not.
YieldsBlock == reader.pending # <<>>

Yields == reader.pending # <<>> /\ (reader.eof \/ Boundaries(reader.pending) # {})

Read ==
  /\ verdict = "none" /\ ~Yields /\ ~reader.eof
  /\ LET left == Len(dump.recs) - reader.pos
         n == IF left < block THEN left ELSE block
     IN  IF dump.cut /\ left < block
         THEN verdict' = "error" /\ UNCHANGED reader
         ELSE /\ reader' = [reader EXCEPT !.pos = @ + n, !.eof = n = 0,
                              !.pending = @ \o SubSeq(dump.recs, reader.pos + 1, reader.pos + n)]
              /\ UNCHANGED verdict
  /\ UNCHANGED <<dump, block, sums, prev, placed>>

\* The checks on one window; a saturated word excuses all of it.
CountsAgree(R) ==
  /\ \A r \in R : Touched(r) = Cardinality({w \in WordIds : r.words[w] # 0})
  /\ IsSaturated(R) \/ \A r \in R : SumOfWords(r) = r.acc

Consistent(s) ==
  /\ \A i, j \in DOMAIN s : s[i].page = s[j].page => i = j
  /\ CountsAgree(SetOf(s))

\* Sums over two windows.
AddSweep(a, b) ==
  [x \in Sizes |-> [pages |-> a[x].pages + b[x].pages, touched |-> a[x].touched + b[x].touched,
                    sparse |-> a[x].sparse + b[x].sparse]]

Counted(R) ==
  [observed |-> sums.observed + Cardinality(R), events |-> sums.events + Accesses(R),
   count |-> sums.count + 1, saturated |-> sums.saturated \/ IsSaturated(R),
   histogram |-> [n \in 0 .. Words |->
                    sums.histogram[n] + Cardinality({r \in R : Touched(r) = n})],
   sweep |-> AddSweep(sums.sweep, Sweep(R)),
   turnover |-> IF prev = {} THEN sums.turnover
                ELSE [k \in Ks |-> Append(sums.turnover[k], Transition(prev, R, k))],
   capacity |-> IF prev = {} THEN [d \in Divisors |-> Capacity(R, d)] ELSE sums.capacity]

\* Mutant: the oracle sees no more than the others.
OracleLate(R, capacity) == Choice(AccessesOf(prev), capacity)

Oracle(R, capacity) == Choice(AccessesOf(R), capacity)

\* Words of a saturated window rank nothing: only counts and the oracle do then.
Selections(R, capacity) ==
  LET candidates == Candidates(prev, capacity)
  IN  [p \in {"count-only", "oracle"} \cup (IF IsSaturated(prev) THEN {} ELSE Policies) |->
         IF p = "oracle" THEN Oracle(R, capacity) ELSE candidates[p]]

\* Mutant: what is in fast memory already is promoted again.
RoundAnew(was, R, chosen) ==
  [fast |-> was.fast + Landing(R, chosen), new |-> was.new + Cardinality(chosen),
   rounds |-> was.rounds + 1, resident |-> chosen]

Round(was, R, chosen) ==
  [fast |-> was.fast + Landing(R, chosen), new |-> was.new + Cardinality(chosen \ was.resident),
   rounds |-> was.rounds + 1, resident |-> chosen]

Place(R) ==
  IF prev = {} THEN placed
  ELSE [d \in Divisors |->
          LET selections == Selections(R, sums.capacity[d])
          IN  [p \in AllPolicies |-> IF p \in DOMAIN selections
                                     THEN Round(placed[d][p], R, selections[p])
                                     ELSE placed[d][p]]]

Yield ==
  /\ verdict = "none" /\ Yields
  /\ LET s == SubSeq(reader.pending, 1, WindowEnd)
         R == SetOf(s)
     IN  IF s[1].epoch = reader.last + 1 /\ Consistent(s)
         THEN /\ reader' = [reader EXCEPT !.last = @ + 1,
                              !.pending = SubSeq(@, WindowEnd + 1, Len(@))]
              /\ sums' = Counted(R)
              /\ placed' = Place(R)
              /\ prev' = R
              /\ UNCHANGED verdict
         ELSE verdict' = "error" /\ UNCHANGED <<reader, sums, placed, prev>>
  /\ UNCHANGED <<dump, block>>

\* The totals must be those of the summary, the trackers' scores ratios.
Conclude ==
  /\ verdict = "none" /\ reader.eof /\ reader.pending = <<>>
  /\ verdict' = IF /\ sums.observed = dump.summary.observations
                   /\ sums.events = dump.summary.accesses
                   /\ sums.count = dump.summary.epochs
                   /\ sums.histogram = dump.summary.histogram
                   /\ dump.ratios
                THEN "validated" ELSE "error"
  /\ UNCHANGED <<dump, block, reader, sums, prev, placed>>

Next == Read \/ Yield \/ Conclude

\* The turnover it reports when there is a transition: the retention is a mean, but
\* the shares of the accesses are weighted by the traffic of their windows.  (Left
\* out is their quotient, lag_ratio.)
TurnoverReport(k) ==
  LET rows == sums.turnover[k]
      all == SumFunction([i \in DOMAIN rows |-> rows[i].total])
  IN  [transitions |-> Len(rows),
       retention |-> Mean([i \in DOMAIN rows |-> <<rows[i].kept, rows[i].of>>]),
       coverage |-> <<SumFunction([i \in DOMAIN rows |-> rows[i].late]), all>>,
       oracle |-> <<SumFunction([i \in DOMAIN rows |-> rows[i].own]), all>>]

\* Only policies that were placed in every window but the first are reported.
Reported(p) == \A d \in Divisors : placed[d][p].rounds = sums.count - 1

--------------------------------------------------------------------------------
(* Properties.                                                                *)

\* A well-formed dump of a complete collection, whatever the blocks: its windows
\* are numbered from 0 on without a gap.
WellFormed(d) ==
  LET s == d.recs
      epochs == {s[i].epoch : i \in DOMAIN s}
  IN  /\ ~d.cut /\ d.summary.complete /\ ~d.summary.capped /\ d.ratios
      /\ epochs = 0 .. Cardinality(epochs) - 1
      /\ \A i, j \in DOMAIN s : i <= j => s[i].epoch <= s[j].epoch
      /\ \A i, j \in DOMAIN s : s[i].epoch = s[j].epoch /\ s[i].page = s[j].page => i = j
      /\ \A e \in epochs : CountsAgree(Window(SetOf(s), e))
      /\ Len(s) = d.summary.observations
      /\ Accesses(SetOf(s)) = d.summary.accesses
      /\ Cardinality(epochs) = d.summary.epochs
      /\ Histogram(Merged(SetOf(s), 1)) = d.summary.histogram

(***************************************************************************)
(* A dump is validated exactly if it is well-formed as above: no block      *)
(* boundary splits, joins or loses a window, and no record missing,         *)
(* repeated, out of order or torn at the end goes unnoticed.  Well-formed   *)
(* are the dumps whose windows have consecutive numbers: a complete paired  *)
(* collection can write another (raw_coverage), which is refused.           *)
(***************************************************************************)
ValidatedIsWhole == verdict # "none" => ((verdict = "validated") <=> WellFormed(dump))

\* The transitions are the same, and the retention.  The shares of the accesses are
\* too if all later windows have as many accesses; if not (a shorter last window),
\* one program reports a mean of shares and the other a share of the sums.
SameTurnover(R, k) ==
  LET batch == Turnover(R, k)
      stream == TurnoverReport(k)
  IN  /\ sums.turnover[k] = Transitions(R, k)
      /\ stream.transitions = Cardinality(Epochs(R)) - 1
      /\ stream.retention = batch.retention
      /\ (\A d, e \in Later(R) : Accesses(Window(R, d)) = Accesses(Window(R, e))) =>
           /\ SameShare(stream.coverage, batch.coverage)
           /\ SameShare(stream.oracle, batch.concentration)

(***************************************************************************)
(* What is streamed window by window is what the analyses compute that load *)
(* all records: the other page and word sizes, the migrated words that go   *)
(* untouched, the turnover of every transition and as far as stated above   *)
(* what is reported of it, and, unless a counter saturated, every policy's  *)
(* hits and promotions.  Who reads the summary alone draws the same Figure  *)
(* 4, and accepts it as a population of touched pages.                      *)
(***************************************************************************)
ModelsAgree ==
  verdict = "validated" =>
    LET R == SetOf(dump.recs)
    IN  /\ Loads(dump)
        /\ sums.sweep = Sweep(R)
        /\ <<1, 1>> \in Sizes =>
             Wasted(R) = Words * sums.sweep[<<1, 1>>].pages - sums.sweep[<<1, 1>>].touched
        /\ \A n \in 0 .. Words : AtMostOf(dump.summary.histogram, n) = AtMost(R, n)
        /\ R # {} => ValidHistogram(dump.summary)
        /\ R # {} => \A k \in Ks : SameTurnover(R, k)
        /\ R # {} /\ ~sums.saturated =>
             \A d \in Divisors, p \in AllPolicies :
                /\ Reported(p)
                /\ [fast |-> placed[d][p].fast, new |-> placed[d][p].new] = Evaluated(R, d, p)

(***************************************************************************)
(* No policy that sees the previous window does better than the oracle that *)
(* sees the current one, in no prefix of the records, though they choose by *)
(* other scores; in no window does the hot set of the one before cover more *)
(* than its own; and what is in fast memory fits.                           *)
(***************************************************************************)
OracleIsBest ==
  /\ \A k \in Ks : \A i \in DOMAIN sums.turnover[k] :
        sums.turnover[k][i].late <= sums.turnover[k][i].own
  /\ \A d \in Divisors, p \in AllPolicies :
        /\ placed[d][p].fast <= placed[d]["oracle"].fast
        /\ Cardinality(placed[d][p].resident) <= sums.capacity[d]
=============================================================================
