--------------------------- MODULE CacheHierarchy ---------------------------
(***************************************************************************)
(* Threads referencing lines through their private levels and one shared    *)
(* LLC, as analyzeMemRef does it (hotskew.cpp).  With private_parallel the  *)
(* private part of a reference runs before the lock is taken, so another    *)
(* thread's shared transaction may fall between the two parts; without it   *)
(* both parts are one locked step.  No line is invalidated across threads.  *)
(***************************************************************************)
EXTENDS CachePath

CONSTANTS Threads,
          Modes             \* the values of -private_parallel to consider

ASSUME ModeAssumption == Modes \subseteq BOOLEAN

NoJob == [line |-> NoLine, r |-> NoResult]

VARIABLES privateParallel,  \* the -private_parallel knob
          l1, l2,           \* per-thread private levels
          llc,              \* g_llc
          job,              \* a reference between its private and shared parts
          demanded,         \* history: lines whose shared part has run
          filled,           \* history: lines memory has been read for
          last              \* history: what the last shared part sent to memory

vars == <<privateParallel, l1, l2, llc, job, demanded, filled, last>>

Quiet == [writes |-> <<NoLine, NoLine, NoLine>>, fill |-> NoLine]

Init ==
    /\ privateParallel \in Modes
    /\ l1 = [t \in Threads |-> EmptyLevel]
    /\ l2 = [t \in Threads |-> EmptyLevel]
    /\ llc = EmptyLevel
    /\ job = [t \in Threads |-> NoJob]
    /\ demanded = {}
    /\ filled = {}
    /\ last = Quiet

\* accessPrivate on the thread's own levels.
PrivatePart(t, line, type) ==
    LET p == AccessPrivate(l1[t], l2[t], line, type)
    IN  /\ l1' = [l1 EXCEPT ![t] = p.l1]
        /\ l2' = [l2 EXCEPT ![t] = p.l2]

\* accessShared on g_llc; memory sees the writes and the fill it returns.
SharedPart(line, r) ==
    LET s == AccessShared(llc, line, r)
    IN  /\ llc' = s.llc
        /\ last' = [writes |-> s.writes, fill |-> s.fill]
        /\ demanded' = demanded \cup {line}
        /\ filled' = filled \cup ({s.fill} \ {NoLine})

\* Default mode: both parts under the lock.
Reference(t, line, type) ==
    /\ ~privateParallel
    /\ PrivatePart(t, line, type)
    /\ SharedPart(line, AccessPrivate(l1[t], l2[t], line, type).r)
    /\ UNCHANGED <<privateParallel, job>>

\* Mutant: a thread starts its next reference before the last one is applied.
ComputeAhead(t, line, type) ==
    /\ privateParallel
    /\ PrivatePart(t, line, type)
    /\ job' = [job EXCEPT ![t] =
                 [line |-> line, r |-> AccessPrivate(l1[t], l2[t], line, type).r]]
    /\ last' = Quiet
    /\ UNCHANGED <<privateParallel, llc, demanded, filled>>

\* private_parallel: the outcome is computed before the lock is taken ...
ComputePrivate(t, line, type) ==
    /\ privateParallel
    /\ job[t] = NoJob
    /\ PrivatePart(t, line, type)
    /\ job' = [job EXCEPT ![t] =
                 [line |-> line, r |-> AccessPrivate(l1[t], l2[t], line, type).r]]
    /\ last' = Quiet
    /\ UNCHANGED <<privateParallel, llc, demanded, filled>>

\* ... and applied to the shared level under it.
ApplyShared(t) ==
    /\ job[t] # NoJob
    /\ SharedPart(job[t].line, job[t].r)
    /\ job' = [job EXCEPT ![t] = NoJob]
    /\ UNCHANGED <<privateParallel, l1, l2>>

Next == \E t \in Threads :
            \/ \E line \in Lines, type \in AccessType :
                   Reference(t, line, type) \/ ComputePrivate(t, line, type)
            \/ ApplyShared(t)

Spec == Init /\ [][Next]_vars

-----------------------------------------------------------------------------
\* Without private_parallel no reference is ever between its two parts.
OneStepOnly == privateParallel \/ \A t \in Threads : job[t] = NoJob

\* The types of the hierarchy's state: every level is a well-formed LRU level.
TypeOK ==
    /\ l1 \in [Threads -> Level] /\ l2 \in [Threads -> Level] /\ llc \in Level
    /\ \A t \in Threads : WellFormed(GeomL1, l1[t]) /\ WellFormed(GeomL2, l2[t])
    /\ WellFormed(GeomLLC, llc)
    /\ job \in [Threads -> [line : LineOrNone, r : PrivateResult]]
    /\ privateParallel \in BOOLEAN /\ OneStepOnly
    /\ demanded \subseteq Lines /\ filled \subseteq Lines
    /\ last \in [writes : [1..3 -> LineOrNone], fill : LineOrNone]

\* The lines on their way from t's private levels to the LLC.
Outgoing(t) == {job[t].r.eviction, job[t].r.demand} \ {NoLine}

Held(t) == l1[t].dirty \cup l2[t].dirty \cup Outgoing(t)

\* Lines with a copy newer than memory: dirty somewhere, or on the way to LLC.
Unwritten == {l \in Lines : l \in llc.dirty \/ \E t \in Threads : l \in Held(t)}

WrittenNow == {last.writes[i] : i \in 1..3} \ {NoLine}

(***************************************************************************)
(* No store is lost and none is invented: a line stops being newer than     *)
(* memory only in a step that writes it to memory, and only such lines are  *)
(* ever written -- across evictions at three levels, writeback misses that  *)
(* allocate, and private outcomes waiting for the lock.                     *)
(***************************************************************************)
WritebackConservation ==
    [][/\ Unwritten \ Unwritten' \subseteq WrittenNow'
       /\ WrittenNow' \subseteq Unwritten]_vars

(***************************************************************************)
(* Every line a thread keeps, and every line the LLC keeps, was read from   *)
(* memory before, or is the thread's reference now waiting for the lock: no *)
(* level can satisfy a demand with data nothing ever fetched.               *)
(***************************************************************************)
NothingFromNowhere ==
    /\ \A t \in Threads :
           Resident(l1[t]) \cup Resident(l2[t]) \subseteq filled \cup {job[t].line}
    /\ Resident(llc) \subseteq filled

(***************************************************************************)
(* With cold caches the lines that have been demanded are exactly the lines *)
(* that have been filled, whatever the interleaving of private and shared   *)
(* parts (docs/methodology.md: with cold caches every first demand touch    *)
(* causes a fill).                                                          *)
(***************************************************************************)
FirstTouchFills == demanded = filled
=============================================================================
