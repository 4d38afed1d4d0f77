------------------------ MODULE CacheHierarchyProofs ------------------------
(***************************************************************************)
(* The hierarchy's invariants and the conservation of stores, for every set *)
(* of threads and lines, every geometry and both locking modes.             *)
(***************************************************************************)
EXTENDS CacheHierarchy, CommonProofs

(***************************************************************************)
(* NothingFromNowhere is not inductive by itself: a private outcome that    *)
(* waits for the lock must carry only lines memory has already supplied,    *)
(* and a waiting hit must be on such a line.                                *)
(***************************************************************************)
WaitingKnown ==
    \A t \in Threads :
        /\ job[t] = NoJob \/ job[t].line \in Lines
        /\ {job[t].r.eviction, job[t].r.demand} \ {NoLine} \subseteq filled
        /\ job[t] # NoJob /\ ~job[t].r.miss => job[t].line \in filled

IndInv == TypeOK /\ NothingFromNowhere /\ WaitingKnown /\ FirstTouchFills

\* The private part of a reference by t, from a state with no reference waiting.
LEMMA PrivateStep ==
    ASSUME IndInv, NEW t \in Threads, NEW line \in Lines, NEW type \in AccessType,
           job[t] = NoJob
    PROVE  LET p == AccessPrivate(l1[t], l2[t], line, type)
           IN  /\ WellFormed(GeomL1, p.l1) /\ WellFormed(GeomL2, p.l2)
               /\ p.l1 \in Level /\ p.l2 \in Level /\ p.r \in PrivateResult
               /\ Resident(p.l1) \cup Resident(p.l2) \subseteq filled \cup {line}
               /\ {p.r.eviction, p.r.demand} \ {NoLine} \subseteq filled
               /\ ~p.r.miss => line \in filled
  <1> DEFINE p == AccessPrivate(l1[t], l2[t], line, type)
  <1>1. WellFormed(GeomL1, l1[t]) /\ WellFormed(GeomL2, l2[t])
    BY DEF IndInv, TypeOK
  <1>2. Resident(l1[t]) \cup Resident(l2[t]) \subseteq filled
    <2>1. Resident(l1[t]) \cup Resident(l2[t]) \subseteq filled \cup {NoLine}
      BY DEF IndInv, NothingFromNowhere, NoJob
    <2>2. NoLine \notin Resident(l1[t]) \cup Resident(l2[t])
      BY LinesAssumption DEF Resident, NoLine
    <2> QED
      BY <2>1, <2>2
  <1>3. /\ WellFormed(GeomL1, p.l1) /\ WellFormed(GeomL2, p.l2)
        /\ p.r \in PrivateResult
        /\ Resident(p.l1) \subseteq Resident(l1[t]) \cup {line}
        /\ Resident(p.l2) \subseteq Resident(l1[t]) \cup Resident(l2[t]) \cup {line}
        /\ {p.r.eviction, p.r.demand} \ {NoLine}
              \subseteq Resident(l1[t]) \cup Resident(l2[t])
        /\ ~p.r.miss => line \in Resident(l1[t]) \cup Resident(l2[t])
    BY <1>1, PrivateFacts
  <1>4. p.l1 \in Level /\ p.l2 \in Level
    BY <1>3 DEF WellFormed
  <1> HIDE DEF p
  <1> QED
    BY <1>2, <1>3, <1>4 DEF p

\* The shared part of a reference whose private outcome r is known.
LEMMA SharedStep ==
    ASSUME IndInv, NEW line \in Lines, NEW r \in PrivateResult,
           {r.eviction, r.demand} \ {NoLine} \subseteq filled,
           ~r.miss => line \in filled,
           SharedPart(line, r)
    PROVE  /\ llc' \in Level /\ WellFormed(GeomLLC, llc')
           /\ demanded' \subseteq Lines /\ filled' \subseteq Lines
           /\ filled \subseteq filled' /\ line \in filled'
           /\ last' \in [writes : [1..3 -> LineOrNone], fill : LineOrNone]
           /\ Resident(llc') \subseteq filled'
           /\ demanded' = filled'
  <1> DEFINE s == AccessShared(llc, line, r)
             in == {r.eviction, r.demand} \ {NoLine}
  <1>1. /\ llc' = s.llc
        /\ last' = [writes |-> s.writes, fill |-> s.fill]
        /\ demanded' = demanded \cup {line}
        /\ filled' = filled \cup ({s.fill} \ {NoLine})
    BY DEF SharedPart
  <1>2. WellFormed(GeomLLC, llc) /\ Resident(llc) \subseteq filled
        /\ demanded = filled /\ filled \subseteq Lines
    BY DEF IndInv, TypeOK, NothingFromNowhere, FirstTouchFills
  <1>3. /\ WellFormed(GeomLLC, s.llc)
        /\ Resident(s.llc) \subseteq Resident(llc) \cup in
                                \cup (IF r.miss THEN {line} ELSE {})
        /\ s.writes \in [1..3 -> LineOrNone]
        /\ s.fill \in {line, NoLine}
        /\ s.fill = line => r.miss
        /\ s.fill = NoLine /\ r.miss => line \in Resident(llc) \cup in
    BY <1>2, SharedFacts
  <1>4. line # NoLine /\ r.miss \in BOOLEAN
    BY LinesAssumption DEF NoLine, PrivateResult
  <1>5. s.llc \in Level
    BY <1>3 DEF WellFormed
  <1> HIDE DEF s
  <1>6. line \in filled' /\ filled' = filled \cup {line}
    <2>1. CASE s.fill = line
      BY <1>1, <1>4, <2>1
    <2>2. CASE s.fill = NoLine
      BY <1>1, <1>2, <1>3, <1>4, <2>2
    <2> QED
      BY <1>3, <2>1, <2>2
  <1>7. last' \in [writes : [1..3 -> LineOrNone], fill : LineOrNone]
    BY <1>1, <1>3 DEF LineOrNone
  <1> QED
    BY <1>1, <1>2, <1>3, <1>5, <1>6, <1>7

\* Every step of the hierarchy preserves the inductive invariant.
LEMMA NextPreserves == IndInv /\ [Next]_vars => IndInv'
  <1> SUFFICES ASSUME IndInv, [Next]_vars PROVE IndInv'
    OBVIOUS
  <1> USE DEF IndInv
  <1>0. /\ l1 \in [Threads -> Level] /\ l2 \in [Threads -> Level]
        /\ job \in [Threads -> [line : LineOrNone, r : PrivateResult]]
        /\ NoJob.line = NoLine /\ NoJob.r = NoResult
        /\ NoResult.eviction = NoLine /\ NoResult.demand = NoLine
        /\ NoLine \notin Lines
    BY LinesAssumption DEF TypeOK, NoJob, NoResult, NoLine
  <1>1. ASSUME NEW t \in Threads, NEW line \in Lines, NEW type \in AccessType,
               Reference(t, line, type)
        PROVE  IndInv'
    <2> DEFINE p == AccessPrivate(l1[t], l2[t], line, type)
    <2>0. job[t] = NoJob
      BY <1>1 DEF Reference, TypeOK, OneStepOnly
    <2>1. /\ l1' = [l1 EXCEPT ![t] = p.l1] /\ l2' = [l2 EXCEPT ![t] = p.l2]
          /\ SharedPart(line, p.r) /\ job' = job
          /\ privateParallel' = privateParallel
      BY <1>1 DEF Reference, PrivatePart
    <2>2. /\ WellFormed(GeomL1, p.l1) /\ WellFormed(GeomL2, p.l2)
          /\ p.l1 \in Level /\ p.l2 \in Level /\ p.r \in PrivateResult
          /\ Resident(p.l1) \cup Resident(p.l2) \subseteq filled \cup {line}
          /\ {p.r.eviction, p.r.demand} \ {NoLine} \subseteq filled
          /\ ~p.r.miss => line \in filled
      BY <2>0, PrivateStep
    <2> HIDE DEF p
    <2>3. /\ llc' \in Level /\ WellFormed(GeomLLC, llc')
          /\ demanded' \subseteq Lines /\ filled' \subseteq Lines
          /\ filled \subseteq filled' /\ line \in filled'
          /\ last' \in [writes : [1..3 -> LineOrNone], fill : LineOrNone]
          /\ Resident(llc') \subseteq filled' /\ demanded' = filled'
      BY <2>1, <2>2, SharedStep
    <2>4. \A u \in Threads : /\ l1'[u] = IF u = t THEN p.l1 ELSE l1[u]
                             /\ l2'[u] = IF u = t THEN p.l2 ELSE l2[u]
      BY <2>1, <1>0
    <2>5. TypeOK'
      BY <2>1, <2>2, <2>3, <2>4, <1>0 DEF TypeOK, OneStepOnly
    <2>6. NothingFromNowhere'
      BY <2>1, <2>2, <2>3, <2>4 DEF NothingFromNowhere
    <2>7. WaitingKnown'
      BY <2>1, <2>3 DEF WaitingKnown
    <2> QED
      BY <2>3, <2>5, <2>6, <2>7 DEF FirstTouchFills
  <1>2. ASSUME NEW t \in Threads, NEW line \in Lines, NEW type \in AccessType,
               ComputePrivate(t, line, type)
        PROVE  IndInv'
    <2> DEFINE p == AccessPrivate(l1[t], l2[t], line, type)
    <2>1. /\ l1' = [l1 EXCEPT ![t] = p.l1] /\ l2' = [l2 EXCEPT ![t] = p.l2]
          /\ job[t] = NoJob /\ job' = [job EXCEPT ![t] = [line |-> line, r |-> p.r]]
          /\ last' = Quiet /\ llc' = llc /\ demanded' = demanded /\ filled' = filled
          /\ privateParallel /\ privateParallel' = privateParallel
      BY <1>2 DEF ComputePrivate, PrivatePart
    <2>2. /\ WellFormed(GeomL1, p.l1) /\ WellFormed(GeomL2, p.l2)
          /\ p.l1 \in Level /\ p.l2 \in Level /\ p.r \in PrivateResult
          /\ Resident(p.l1) \cup Resident(p.l2) \subseteq filled \cup {line}
          /\ {p.r.eviction, p.r.demand} \ {NoLine} \subseteq filled
          /\ ~p.r.miss => line \in filled
      BY <2>1, PrivateStep
    <2> HIDE DEF p
    <2>3. \A u \in Threads : /\ l1'[u] = IF u = t THEN p.l1 ELSE l1[u]
                             /\ l2'[u] = IF u = t THEN p.l2 ELSE l2[u]
                             /\ job'[u] = IF u = t THEN [line |-> line, r |-> p.r]
                                          ELSE job[u]
      BY <2>1, <1>0
    <2>4. Quiet \in [writes : [1..3 -> LineOrNone], fill : LineOrNone]
      BY DEF Quiet, LineOrNone
    <2>5. [line |-> line, r |-> p.r] \in [line : LineOrNone, r : PrivateResult]
      BY <2>2 DEF LineOrNone
    <2>6. TypeOK'
      BY <2>1, <2>2, <2>3, <2>4, <2>5, <1>0 DEF TypeOK, OneStepOnly
    <2>7. NothingFromNowhere'
      BY <2>1, <2>2, <2>3 DEF NothingFromNowhere
    <2>8. WaitingKnown'
      BY <2>1, <2>2, <2>3 DEF WaitingKnown
    <2> QED
      BY <2>1, <2>6, <2>7, <2>8 DEF FirstTouchFills
  <1>3. ASSUME NEW t \in Threads, ApplyShared(t)
        PROVE  IndInv'
    <2>1. /\ job[t] # NoJob /\ SharedPart(job[t].line, job[t].r)
          /\ job' = [job EXCEPT ![t] = NoJob] /\ l1' = l1 /\ l2' = l2
          /\ privateParallel' = privateParallel
      BY <1>3 DEF ApplyShared
    <2>2. /\ job[t].line \in Lines /\ job[t].r \in PrivateResult
          /\ {job[t].r.eviction, job[t].r.demand} \ {NoLine} \subseteq filled
          /\ ~job[t].r.miss => job[t].line \in filled
      BY <2>1, <1>0 DEF WaitingKnown
    <2>3. /\ llc' \in Level /\ WellFormed(GeomLLC, llc')
          /\ demanded' \subseteq Lines /\ filled' \subseteq Lines
          /\ filled \subseteq filled' /\ job[t].line \in filled'
          /\ last' \in [writes : [1..3 -> LineOrNone], fill : LineOrNone]
          /\ Resident(llc') \subseteq filled' /\ demanded' = filled'
      BY <2>1, <2>2, SharedStep
    <2>4. \A u \in Threads : job'[u] = IF u = t THEN NoJob ELSE job[u]
      BY <2>1, <1>0
    <2>5. NoJob \in [line : LineOrNone, r : PrivateResult]
      BY DEF NoJob, NoResult, LineOrNone, PrivateResult
    <2>6. TypeOK'
      BY <2>1, <2>3, <2>4, <2>5, <1>0 DEF TypeOK, OneStepOnly
    <2>7. NothingFromNowhere'
      BY <2>1, <2>3, <2>4 DEF NothingFromNowhere
    <2>8. WaitingKnown'
      BY <2>3, <2>4, <1>0 DEF WaitingKnown
    <2> QED
      BY <2>3, <2>6, <2>7, <2>8 DEF FirstTouchFills
  <1>4. CASE UNCHANGED vars
    BY <1>4 DEF vars, TypeOK, OneStepOnly, NothingFromNowhere, WaitingKnown, FirstTouchFills
  <1> QED
    BY <1>1, <1>2, <1>3, <1>4 DEF Next

\* The initial state satisfies the inductive invariant.
LEMMA InitIndInv == Init => IndInv
  <1> SUFFICES ASSUME Init PROVE IndInv
    OBVIOUS
  <1>1. /\ WellFormed(GeomL1, EmptyLevel) /\ WellFormed(GeomL2, EmptyLevel)
        /\ WellFormed(GeomLLC, EmptyLevel) /\ Resident(EmptyLevel) = {}
    BY EmptyWellFormed, GeometryAssumption
  <1>2. EmptyLevel \in Level
    BY <1>1 DEF WellFormed
  <1>3. /\ NoJob \in [line : LineOrNone, r : PrivateResult]
        /\ NoJob.r.eviction = NoLine /\ NoJob.r.demand = NoLine
        /\ Quiet \in [writes : [1..3 -> LineOrNone], fill : LineOrNone]
    BY DEF NoJob, NoResult, LineOrNone, PrivateResult, Quiet
  <1>4. TypeOK
    BY <1>1, <1>2, <1>3, ModeAssumption DEF Init, TypeOK, OneStepOnly
  <1> QED
    BY <1>1, <1>3, <1>4
       DEF Init, IndInv, NothingFromNowhere, WaitingKnown, FirstTouchFills

(***************************************************************************)
(* The inductive invariant holds throughout, and with it the three stated   *)
(* properties of the hierarchy.                                             *)
(***************************************************************************)
THEOREM HierarchyInvariant == Spec => []IndInv
  BY InitIndInv, NextPreserves, PTL DEF Spec

\* Every level stays a well-formed LRU level.
THEOREM HierarchyTypes == Spec => []TypeOK
  BY HierarchyInvariant, PTL DEF IndInv

\* With cold caches, demanded lines and filled lines are the same set.
THEOREM FirstTouch == Spec => []FirstTouchFills
  BY HierarchyInvariant, PTL DEF IndInv

\* No level ever holds a line that was not read from memory.
THEOREM NoPhantomLines == Spec => []NothingFromNowhere
  BY HierarchyInvariant, PTL DEF IndInv
-----------------------------------------------------------------------------
ConservationStep ==
    /\ Unwritten \ Unwritten' \subseteq WrittenNow'
    /\ WrittenNow' \subseteq Unwritten

\* Only lines are ever dirty or on their way down.
LEMMA HeldAreLines ==
    ASSUME TypeOK
    PROVE  llc.dirty \subseteq Lines /\ \A t \in Threads : Held(t) \subseteq Lines
  <1>1. llc.dirty \subseteq Lines
        /\ \A t \in Threads : l1[t].dirty \subseteq Lines /\ l2[t].dirty \subseteq Lines
    BY DEF TypeOK, Level
  <1>2. \A t \in Threads : Outgoing(t) \subseteq Lines
    BY DEF TypeOK, PrivateResult, LineOrNone, Outgoing
  <1> QED
    BY <1>1, <1>2 DEF Held

\* Each step hands every dirty line on, or writes it to memory.
LEMMA StepConserves == IndInv /\ IndInv' /\ Next => ConservationStep
  <1> SUFFICES ASSUME IndInv, IndInv', Next PROVE ConservationStep
    OBVIOUS
  <1>0. /\ l1 \in [Threads -> Level] /\ l2 \in [Threads -> Level]
        /\ job \in [Threads -> [line : LineOrNone, r : PrivateResult]]
        /\ NoJob.r.eviction = NoLine /\ NoJob.r.demand = NoLine
        /\ \A u \in Threads : WellFormed(GeomL1, l1[u]) /\ WellFormed(GeomL2, l2[u])
        /\ WellFormed(GeomLLC, llc)
    BY DEF IndInv, TypeOK, NoJob, NoResult
  <1>1. \A l : l \in Unwritten <=> l \in llc.dirty \/ \E t \in Threads : l \in Held(t)
    BY HeldAreLines DEF IndInv, Unwritten
  <1>3. \A l \in Lines : l \in Unwritten' <=>
               l \in llc'.dirty \/ \E t \in Threads : l \in Held(t)'
    BY DEF Unwritten
  <1>4. ASSUME NEW t \in Threads, NEW line \in Lines, NEW type \in AccessType,
               Reference(t, line, type)
        PROVE  ConservationStep
    <2> DEFINE p == AccessPrivate(l1[t], l2[t], line, type)
               s == AccessShared(llc, line, p.r)
               out == {p.r.eviction, p.r.demand} \ {NoLine}
    <2>1. /\ l1' = [l1 EXCEPT ![t] = p.l1] /\ l2' = [l2 EXCEPT ![t] = p.l2]
          /\ llc' = s.llc /\ last' = [writes |-> s.writes, fill |-> s.fill]
          /\ job' = job
      BY <1>4 DEF Reference, PrivatePart, SharedPart
    <2>2. /\ p.r \in PrivateResult
          /\ l1[t].dirty \cup l2[t].dirty \subseteq p.l1.dirty \cup p.l2.dirty \cup out
          /\ out \subseteq l1[t].dirty \cup l2[t].dirty
      BY <1>0, PrivateFacts
    <2> HIDE DEF p
    <2>3. LET mem == {s.writes[i] : i \in 1..3} \ {NoLine}
          IN  /\ llc.dirty \cup out \subseteq s.llc.dirty \cup mem
              /\ mem \subseteq llc.dirty \cup out
      <3>1. WellFormed(GeomLLC, llc) /\ p.r \in PrivateResult
        BY <1>0, <2>2
      <3> QED
        BY <3>1, SharedFacts
    <2>4. WrittenNow' = {s.writes[i] : i \in 1..3} \ {NoLine}
      BY <2>1 DEF WrittenNow
    <2> HIDE DEF s
    <2>5. \A u \in Threads :
              /\ l1'[u].dirty = IF u = t THEN p.l1.dirty ELSE l1[u].dirty
              /\ l2'[u].dirty = IF u = t THEN p.l2.dirty ELSE l2[u].dirty
              /\ Outgoing(u)' = Outgoing(u)
      BY <1>0, <2>1 DEF Outgoing
    <2>6. WrittenNow' \subseteq Unwritten
      BY <1>1, <2>2, <2>3, <2>4 DEF Held
    <2>7. ASSUME NEW l \in Unwritten, l \in Lines, l \notin Unwritten' PROVE l \in WrittenNow'
      <3>1. l \in llc.dirty \cup out => l \in WrittenNow'
        BY <1>3, <2>1, <2>3, <2>4, <2>7
      <3>2. \A u \in Threads : l \in Held(u) => u = t /\ l \in l1[t].dirty \cup l2[t].dirty
        BY <1>3, <2>5, <2>7 DEF Held
      <3>3. l \notin p.l1.dirty \cup p.l2.dirty
        BY <1>3, <2>5, <2>7 DEF Held
      <3> QED
        BY <1>1, <2>2, <2>7, <3>1, <3>2, <3>3
    <2> QED
      BY <2>6, <2>7 DEF ConservationStep, Unwritten
  <1>5. ASSUME NEW t \in Threads, NEW line \in Lines, NEW type \in AccessType,
               ComputePrivate(t, line, type)
        PROVE  ConservationStep
    <2> DEFINE p == AccessPrivate(l1[t], l2[t], line, type)
               out == {p.r.eviction, p.r.demand} \ {NoLine}
    <2>1. /\ l1' = [l1 EXCEPT ![t] = p.l1] /\ l2' = [l2 EXCEPT ![t] = p.l2]
          /\ job[t] = NoJob /\ job' = [job EXCEPT ![t] = [line |-> line, r |-> p.r]]
          /\ last' = Quiet /\ llc' = llc
      BY <1>5 DEF ComputePrivate, PrivatePart
    <2>2. l1[t].dirty \cup l2[t].dirty \subseteq p.l1.dirty \cup p.l2.dirty \cup out
      BY <1>0, PrivateFacts
    <2> HIDE DEF p
    <2>3. WrittenNow' = {}
      BY <2>1 DEF WrittenNow, Quiet
    <2>4. \A u \in Threads :
              /\ l1'[u].dirty = IF u = t THEN p.l1.dirty ELSE l1[u].dirty
              /\ l2'[u].dirty = IF u = t THEN p.l2.dirty ELSE l2[u].dirty
              /\ Outgoing(u)' = IF u = t THEN out ELSE Outgoing(u)
      BY <1>0, <2>1 DEF Outgoing
    <2>5. Outgoing(t) = {}
      BY <1>0, <2>1 DEF Outgoing
    <2>6. \A u \in Threads : Held(u) \subseteq Held(u)'
      BY <2>2, <2>4, <2>5 DEF Held
    <2>7. Unwritten \subseteq Unwritten'
      BY <1>1, <1>3, <2>1, <2>6 DEF Unwritten
    <2> QED
      BY <2>3, <2>7 DEF ConservationStep
  <1>6. ASSUME NEW t \in Threads, ApplyShared(t)
        PROVE  ConservationStep
    <2> DEFINE s == AccessShared(llc, job[t].line, job[t].r)
    <2>1. /\ job[t] # NoJob /\ job' = [job EXCEPT ![t] = NoJob]
          /\ l1' = l1 /\ l2' = l2 /\ llc' = s.llc
          /\ last' = [writes |-> s.writes, fill |-> s.fill]
      BY <1>6 DEF ApplyShared, SharedPart
    <2>2. job[t].line \in Lines /\ job[t].r \in PrivateResult
      BY <1>0, <2>1 DEF IndInv, WaitingKnown
    <2>3. LET mem == {s.writes[i] : i \in 1..3} \ {NoLine}
          IN  /\ llc.dirty \cup Outgoing(t) \subseteq s.llc.dirty \cup mem
              /\ mem \subseteq llc.dirty \cup Outgoing(t)
      BY <1>0, <2>2, SharedFacts DEF Outgoing
    <2>4. WrittenNow' = {s.writes[i] : i \in 1..3} \ {NoLine}
      BY <2>1 DEF WrittenNow
    <2> HIDE DEF s
    <2>5. \A u \in Threads : Outgoing(u)' = IF u = t THEN {} ELSE Outgoing(u)
      BY <1>0, <2>1 DEF Outgoing
    <2>6. WrittenNow' \subseteq Unwritten
      BY <1>1, <2>3, <2>4 DEF Held
    <2>7. ASSUME NEW l \in Unwritten, l \in Lines, l \notin Unwritten' PROVE l \in WrittenNow'
      <3>1. l \in llc.dirty \cup Outgoing(t) => l \in WrittenNow'
        BY <1>3, <2>1, <2>3, <2>4, <2>7
      <3>2. \A u \in Threads : l \in Held(u) => u = t /\ l \in Outgoing(t)
        BY <1>3, <2>1, <2>5, <2>7 DEF Held
      <3> QED
        BY <1>1, <2>7, <3>1, <3>2
    <2> QED
      BY <2>6, <2>7 DEF ConservationStep, Unwritten
  <1> QED
    BY <1>4, <1>5, <1>6 DEF Next

(***************************************************************************)
(* Stores are conserved on every path from L1 to memory: nothing newer than *)
(* memory disappears without a writeback, and nothing else is written back. *)
(***************************************************************************)
THEOREM StoresConserved == Spec => WritebackConservation
  <1>1. IndInv /\ IndInv' /\ [Next]_vars => [ConservationStep]_vars
    BY StepConserves
  <1> QED
    BY <1>1, HierarchyInvariant, PTL DEF Spec, WritebackConservation, ConservationStep
=============================================================================
