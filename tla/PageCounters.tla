---------------------------- MODULE PageCounters ----------------------------
(***************************************************************************)
(* The exact per-word and per-page counters of one epoch as a value         *)
(* (CounterTable in counter_table.hpp): a saturating counter per 64-byte    *)
(* word, reads and writes per page, and the two running totals.  The        *)
(* region map and its one-entry cache only say where a page is kept, and    *)
(* are left out; touchedMask is the set of words with a non-zero counter.   *)
(***************************************************************************)
EXTENDS CacheLines, FiniteSets, FiniteSetsExt

CONSTANTS WordsPerPage,     \* kWordsPerPage
          WordMax           \* where a word counter saturates (0xFFFF)

ASSUME CounterAssumption == WordsPerPage \in Nat \ {0} /\ WordMax \in Nat \ {0}

PageOf(line) == line \div WordsPerPage
Pages == {PageOf(l) : l \in Lines}

Counters == [word : [Lines -> 0..WordMax],
             reads : [Pages -> Nat], writes : [Pages -> Nat],
             total : Nat, saturations : Nat]

EmptyCounters == [word |-> [l \in Lines |-> 0],
                  reads |-> [p \in Pages |-> 0], writes |-> [p \in Pages |-> 0],
                  total |-> 0, saturations |-> 0]

\* CounterTable::record
CountAccess(c, line, type) ==
    LET full == c.word[line] = WordMax
        page == PageOf(line)
    IN  [word        |-> IF full THEN c.word ELSE PlusOne(c.word, line),
         reads       |-> IF type = "read" THEN PlusOne(c.reads, page) ELSE c.reads,
         writes      |-> IF type = "write" THEN PlusOne(c.writes, page) ELSE c.writes,
         total       |-> c.total + 1,
         saturations |-> IF full THEN c.saturations + 1 ELSE c.saturations]

WordsTouched(c, page) == {l \in Lines : PageOf(l) = page /\ c.word[l] # 0}

\* Mutant: pages that were only written are not visited.
PagesRead(c) == {p \in Pages : c.reads[p] # 0}

\* forEachTouchedPage
TouchedPages(c) == {p \in Pages : WordsTouched(c, p) # {}}

PageTotal(c, page) == c.reads[page] + c.writes[page]

\* The sums finishEpoch forms over the touched pages.
AccessesIn(c) == SumFunction([p \in TouchedPages(c) |-> PageTotal(c, p)])
UniqueWordsIn(c) == SumFunction([p \in TouchedPages(c) |-> Cardinality(WordsTouched(c, p))])
PagesWith(c, n) == Cardinality({p \in TouchedPages(c) : Cardinality(WordsTouched(c, p)) = n})
=============================================================================
