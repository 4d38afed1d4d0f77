----------------------------- MODULE PairedAudit -----------------------------
(***************************************************************************)
(* The histograms of a paired collection and the audits they must pass      *)
(* before they are used: checked_histograms of compare_reproduction.py and  *)
(* the assertions of audit_results.py.  A page's words are its lines.       *)
(***************************************************************************)
EXTENDS PageCounters, PairedStreams

Bins == 0 .. WordsPerPage

\* PairedObserver::histograms: how many of the pages have n words in the masks
\* of one stream.  The population is the pages of that stream, or of another.
Histogram(masks, stream, pages) ==
    [n \in Bins |-> Cardinality({p \in pages :
                       Cardinality({l \in masks[stream] : PageOf(l) = p}) = n})]
PagesOf(masks, stream) == {PageOf(l) : l \in masks[stream]}

\* Mutant: the pages of the other streams are counted too, with no word.
OwnAll(masks, stream) == Histogram(masks, stream, UNION {PagesOf(masks, s) : s \in Streams})

Own(masks, stream) == Histogram(masks, stream, PagesOf(masks, stream))
OfFilled(masks, stream) == Histogram(masks, stream, PagesOf(masks, "fills"))

\* The pooled histogram adds those of the epochs, bin by bin.
Pooled(histograms) ==
    [n \in Bins |-> SumFunction([i \in DOMAIN histograms |-> histograms[i][n]])]

UpTo(h, n) == SumFunctionOnSet(h, 0 .. n)
AllPages(h) == UpTo(h, WordsPerPage)

\* rows: one per epoch; whole and events: of all the collection.
PooledOwn(rows, s) == Pooled([i \in DOMAIN rows |-> Own(rows[i].masks, s)])

\* What both audits assert.  A cold start has the caches follow the streams from
\* the first access on.
Consistent(rows, whole, events, summary, cold) ==
    LET access == Pooled([i \in DOMAIN rows |-> OfFilled(rows[i].masks, "accesses")])
        fills == Pooled([i \in DOMAIN rows |-> OfFilled(rows[i].masks, "fills")])
    IN  /\ events["accesses"] = summary.memRefs
        /\ events["traffic"] = summary.dram
        /\ PooledOwn(rows, "traffic") = summary.histogram
        /\ AllPages(access) = AllPages(fills)
        /\ \A n \in Bins : UpTo(access, n) <= UpTo(fills, n)
        /\ cold => \A s \in {"fills", "traffic"} : Own(whole, s) = Own(whole, "accesses")

\* compare_reproduction.py: nothing is empty, nothing costs more than three transfers.
CheckedHistograms(rows, whole, events, summary, cold) ==
    /\ \A s \in Streams : AllPages(PooledOwn(rows, s)) > 0 /\ AllPages(Own(whole, s)) > 0
    /\ events["fills"] <= events["traffic"]
    /\ events["traffic"] <= 3 * events["accesses"]
    /\ Consistent(rows, whole, events, summary, cold)

\* audit_results.py: no page was seen that is in no epoch.
AuditResults(rows, whole, events, summary, cold) ==
    /\ \A s \in Streams : AllPages(Own(whole, s)) <= AllPages(PooledOwn(rows, s))
    /\ Consistent(rows, whole, events, summary, cold)
=============================================================================
