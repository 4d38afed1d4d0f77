-------------------------- MODULE CacheLevelProofs --------------------------
(***************************************************************************)
(* Ways and stamps implement true LRU (CacheLevel in cache_model.hpp), for  *)
(* every geometry init() accepts and every stream of accesses.  The lemmas  *)
(* are about the ways of one set, as a function f; ranks are cardinalities. *)
(***************************************************************************)
EXTENDS CacheLevel, FiniteSetTheorems, WellFoundedInduction, TLAPS

Way == [tag : Nat, stamp : Nat, valid : BOOLEAN, dirty : BOOLEAN]

\* The ways that hold a tag, and those stamped at or after way h.
Holding(f, tag) == {w \in Ways : f[w].valid /\ f[w].tag = tag}
Newer(f, h) == {w \in Ways : f[w].valid /\ f[w].stamp >= f[h].stamp}

\* The refinement mapping, for the ways of one set and for all of them.
RankIn(f, tag) ==
    IF Holding(f, tag) = {} THEN 0 ELSE Cardinality(Newer(f, First(Holding(f, tag))))
DirtyIn(f, tag) == \E w \in Holding(f, tag) : f[w].dirty
LevelIn(a) ==
    [rank  |-> [l \in Lines |-> RankIn(a[SetOf(l)], TagOf(l))],
     dirty |-> {l \in Lines : DirtyIn(a[SetOf(l)], TagOf(l))}]

\* A set whose valid ways hold different lines of it, stamped at different times.
Named(s, tag) == \E l \in Lines : SetOf(l) = s /\ TagOf(l) = tag
Ordered(f, s, now) ==
    /\ f \in [Ways -> Way]
    /\ \A w \in Ways : f[w].valid => f[w].stamp < now /\ Named(s, f[w].tag)
    /\ \A w, v \in Ways : /\ f[w].valid /\ f[v].valid
                          /\ f[w].stamp = f[v].stamp \/ f[w].tag = f[v].tag
                          => w = v

AllOrdered(a, now) ==
    /\ a \in [Sets -> [Ways -> Way]]
    /\ \A s \in Sets : Ordered(a[s], s, now)

-----------------------------------------------------------------------------
\* The geometry: a line is its set and its tag.
LEMMA GeometryFacts ==
    /\ NumSets \in Nat \ {0} /\ Assoc \in Nat \ {0}
    /\ Ways \subseteq Nat /\ IsFiniteSet(Ways) /\ Cardinality(Ways) = Assoc
    /\ 0 \in Ways
    /\ \A l \in Lines : /\ SetOf(l) \in Sets /\ TagOf(l) \in Nat
                        /\ LineOf(SetOf(l), TagOf(l)) = l
  <1>1. /\ SizeBytes \in Nat /\ Assoc \in Nat \ {0} /\ LineBytes \in Nat \ {0}
        /\ SizeBytes \div (LineBytes * Assoc) # 0
    BY GeometryAssumption DEF Representable
  <1>2. LineBytes * Assoc \in Nat \ {0}
    BY <1>1
  <1>3. NumSets \in Nat \ {0}
    BY <1>1, <1>2 DEF NumSets
  <1>4. IsFiniteSet(Ways) /\ Cardinality(Ways) = Assoc
    <2>1. 0 \in Int /\ Assoc - 1 \in Int /\ ~ (0 > Assoc - 1) /\ (Assoc - 1) - 0 + 1 = Assoc
      BY <1>1
    <2> QED
      BY <2>1, FS_Interval DEF Ways
  <1>5. ASSUME NEW n \in Nat, NEW l \in Nat, n # 0
        PROVE  /\ l % n \in 0..(n - 1) /\ l \div n \in Nat
               /\ (l \div n) * n + (l % n) = l
    BY <1>5
  <1>6. \A l \in Lines : /\ SetOf(l) \in Sets /\ TagOf(l) \in Nat
                         /\ LineOf(SetOf(l), TagOf(l)) = l
    BY <1>3, <1>5, LinesAssumption DEF SetOf, TagOf, LineOf, Sets
  <1>7. Ways \subseteq Nat /\ 0 \in Ways
    BY <1>1 DEF Ways
  <1> QED
    BY <1>1, <1>3, <1>4, <1>6, <1>7

\* A set of natural numbers that is not empty has a first one.
LEMMA FirstOfNat ==
    ASSUME NEW S, S \subseteq Nat, S # {}
    PROVE  First(S) \in S /\ \A x \in S : First(S) <= x
  <1>1. PICK m \in S : \A y \in S : ~ (<<y, m>> \in OpToRel(<, Nat))
    BY NatLessThanWellFounded, WFMin
  <1>2. ASSUME NEW y \in S PROVE m <= y
    <2>1. y \in Nat /\ m \in Nat
      OBVIOUS
    <2>2. <<y, m>> \in Nat \X Nat /\ <<y, m>>[1] = y /\ <<y, m>>[2] = m
      BY <2>1
    <2>3. y < m => <<y, m>> \in OpToRel(<, Nat)
      BY <2>2, Zenon DEF OpToRel
    <2>4. ~ (y < m)
      BY <1>1, <2>3, Zenon
    <2> QED
      BY <2>1, <2>4
  <1> QED
    BY <1>2 DEF First

\* A tag that is held is held by one way, and no way is older than itself.
LEMMA HeldOnce ==
    ASSUME NEW s, NEW now, NEW f, Ordered(f, s, now), NEW w \in Ways, f[w].valid
    PROVE  /\ Holding(f, f[w].tag) = {w} /\ First({w}) = w
           /\ Newer(f, w) \subseteq Ways /\ w \in Newer(f, w)
  <1>1. Holding(f, f[w].tag) = {w}
    BY DEF Holding, Ordered
  <1>2. First({w}) = w
    BY GeometryFacts, FirstOfNat
  <1>3. f[w].stamp \in Nat
    BY DEF Ordered, Way
  <1>4. Newer(f, w) \subseteq Ways /\ w \in Newer(f, w)
    BY <1>3 DEF Newer
  <1> QED
    BY <1>1, <1>2, <1>4

\* The rank of a tag that is held is the number of ways at least as new.
LEMMA RankFacts ==
    ASSUME NEW s, NEW now, NEW f, Ordered(f, s, now), NEW w \in Ways, f[w].valid
    PROVE  /\ RankIn(f, f[w].tag) = Cardinality(Newer(f, w))
           /\ IsFiniteSet(Newer(f, w)) /\ Cardinality(Newer(f, w)) \in 1..Assoc
  <1>1. /\ IsFiniteSet(Newer(f, w)) /\ Cardinality(Newer(f, w)) <= Assoc
        /\ Cardinality(Newer(f, w)) \in Nat
    <2>1. Newer(f, w) \in SUBSET Ways
      BY HeldOnce
    <2>2. IsFiniteSet(Newer(f, w)) /\ Cardinality(Newer(f, w)) <= Cardinality(Ways)
      BY <2>1, GeometryFacts, FS_Subset
    <2>3. Cardinality(Newer(f, w)) \in Nat
      BY <2>2, FS_CardinalityType
    <2> QED
      BY <2>2, <2>3, GeometryFacts
  <1>2. Cardinality(Newer(f, w)) # 0
    BY <1>1, HeldOnce, FS_EmptySet
  <1>3. RankIn(f, f[w].tag) = Cardinality(Newer(f, w))
    <2>1. Holding(f, f[w].tag) = {w}
      BY DEF Holding, Ordered
    <2>2. First({w}) = w
      BY HeldOnce
    <2> QED
      BY <2>1, <2>2 DEF RankIn
  <1> QED
    BY <1>1, <1>2, <1>3, GeometryFacts

\* Only the oldest way of a full set has the last rank.
LEMMA RankNotLast ==
    ASSUME NEW s, NEW now, NEW f, Ordered(f, s, now), NEW w \in Ways, f[w].valid,
           NEW v \in Ways, v \notin Newer(f, w)
    PROVE  Cardinality(Newer(f, w)) < Assoc
  <1>1. Newer(f, w) \subseteq Ways /\ Newer(f, w) # Ways
    BY HeldOnce
  <1>2. /\ Cardinality(Newer(f, w)) <= Assoc
        /\ Cardinality(Ways) # Cardinality(Newer(f, w))
    BY <1>1, GeometryFacts, FS_Subset
  <1>3. Cardinality(Newer(f, w)) \in Nat
    BY <1>1, GeometryFacts, FS_Subset, FS_CardinalityType
  <1> QED
    BY <1>2, <1>3, GeometryFacts

\* Ranks order the valid ways as their stamps do, the newest first.
LEMMA RankOrder ==
    ASSUME NEW s, NEW now, NEW f, Ordered(f, s, now), NEW w \in Ways, NEW v \in Ways,
           f[w].valid, f[v].valid, w # v
    PROVE  /\ w \notin Newer(f, v) <=> Cardinality(Newer(f, v)) < Cardinality(Newer(f, w))
           /\ w \in Newer(f, v) <=> Cardinality(Newer(f, w)) < Cardinality(Newer(f, v))
  <1>1. \A x \in Ways : f[x].stamp \in Nat
    BY DEF Ordered, Way
  <1>2. f[w].stamp # f[v].stamp
    BY DEF Ordered
  <1>3. ASSUME NEW x \in Ways, NEW y \in Ways, f[x].valid, f[y].valid, f[x].stamp < f[y].stamp
        PROVE  Cardinality(Newer(f, y)) < Cardinality(Newer(f, x))
    <2>1. Newer(f, y) \subseteq Newer(f, x) /\ x \in Newer(f, x) /\ x \notin Newer(f, y)
      BY <1>1, <1>3 DEF Newer
    <2>2. IsFiniteSet(Newer(f, x)) /\ IsFiniteSet(Newer(f, y))
      BY <1>3, RankFacts
    <2>3. /\ Cardinality(Newer(f, y)) <= Cardinality(Newer(f, x))
          /\ Cardinality(Newer(f, y)) # Cardinality(Newer(f, x))
      BY <2>1, <2>2, FS_Subset
    <2>4. Cardinality(Newer(f, x)) \in Nat /\ Cardinality(Newer(f, y)) \in Nat
      BY <2>2, FS_CardinalityType
    <2> QED
      BY <2>3, <2>4
  <1>4. w \in Newer(f, v) <=> f[v].stamp < f[w].stamp
    BY <1>1, <1>2 DEF Newer
  <1>5. f[v].stamp < f[w].stamp \/ f[w].stamp < f[v].stamp
    BY <1>1, <1>2
  <1>6. Cardinality(Newer(f, w)) \in 1..Assoc /\ Cardinality(Newer(f, v)) \in 1..Assoc
    BY RankFacts
  <1> QED
    BY <1>1, <1>3, <1>4, <1>5, <1>6, GeometryFacts

\* Way w of f has been given a tag and the current stamp, and f is now g.
Touched(f, w, tag, now, g) ==
    /\ w \in Ways /\ f \in [Ways -> Way] /\ g \in [Ways -> Way]
    /\ g[w].valid /\ g[w].tag = tag /\ g[w].stamp = now
    /\ \A v \in Ways \ {w} : g[v] = f[v] /\ (f[v].valid => f[v].tag # tag)

\* Way w of f has been made invalid, and f is now g.
Dropped(f, w, g) ==
    /\ w \in Ways /\ f \in [Ways -> Way] /\ g \in [Ways -> Way]
    /\ ~ g[w].valid
    /\ \A v \in Ways \ {w} : g[v] = f[v]

\* A way that is touched leaves its set ordered and is its newest.
LEMMA TouchedSet ==
    ASSUME NEW s, NEW now \in Nat, NEW f, Ordered(f, s, now), NEW w, NEW tag,
           Named(s, tag), NEW g, Touched(f, w, tag, now, g)
    PROVE  /\ Ordered(g, s, now + 1)
           /\ Holding(g, tag) = {w} /\ Newer(g, w) = {w}
  <1>1. /\ w \in Ways /\ g \in [Ways -> Way] /\ f \in [Ways -> Way]
        /\ g[w].valid /\ g[w].tag = tag /\ g[w].stamp = now
        /\ \A v \in Ways \ {w} : g[v] = f[v] /\ (f[v].valid => f[v].tag # tag)
    BY DEF Touched
  <1>2. \A v \in Ways : f[v].stamp \in Nat /\ f[v].valid \in BOOLEAN
    BY <1>1 DEF Way
  <1>3. \A v \in Ways : f[v].valid => f[v].stamp < now /\ Named(s, f[v].tag)
    BY DEF Ordered
  <1>4. \A v \in Ways : g[v].valid => g[v].stamp < now + 1 /\ Named(s, g[v].tag)
    BY <1>1, <1>2, <1>3
  <1>5. ASSUME NEW x \in Ways, NEW y \in Ways, g[x].valid, g[y].valid,
               g[x].stamp = g[y].stamp \/ g[x].tag = g[y].tag
        PROVE  x = y
    <2>1. CASE x # w /\ y # w
      BY <1>1, <1>5, <2>1 DEF Ordered
    <2>2. CASE x = w /\ y # w
      BY <1>1, <1>2, <1>3, <1>5, <2>2
    <2>3. CASE x # w /\ y = w
      BY <1>1, <1>2, <1>3, <1>5, <2>3
    <2> QED
      BY <2>1, <2>2, <2>3
  <1>6. Ordered(g, s, now + 1)
    BY <1>1, <1>4, <1>5 DEF Ordered
  <1>7. Holding(g, tag) = {w}
    BY <1>1 DEF Holding
  <1>8. Newer(g, w) = {w}
    BY <1>1, <1>2, <1>3 DEF Newer
  <1> QED
    BY <1>6, <1>7, <1>8

\* It becomes newer than every other way, and no other order changes.
LEMMA TouchedNewer ==
    ASSUME NEW s, NEW now \in Nat, NEW f, Ordered(f, s, now), NEW w, NEW tag,
           NEW g, Touched(f, w, tag, now, g),
           NEW v \in Ways \ {w}, NEW held, v \in Holding(f, held)
    PROVE  Newer(g, v) = Newer(f, v) \cup {w}
  <1>1. /\ w \in Ways /\ g[w].valid /\ g[w].stamp = now
        /\ \A x \in Ways \ {w} : g[x] = f[x]
    BY DEF Touched
  <1>2. f[v].valid /\ f[v].stamp \in Nat /\ f[v].stamp < now
    BY DEF Ordered, Holding, Way
  <1> QED
    BY <1>1, <1>2 DEF Newer

\* It has the first rank.
LEMMA TouchedFirst ==
    ASSUME NEW s, NEW now \in Nat, NEW f, Ordered(f, s, now), NEW w, NEW tag,
           Named(s, tag), NEW g, Touched(f, w, tag, now, g)
    PROVE  RankIn(g, tag) = 1
  <1>1. Ordered(g, s, now + 1) /\ Newer(g, w) = {w}
    BY TouchedSet
  <1>2. w \in Ways /\ g[w].valid /\ g[w].tag = tag
    BY DEF Touched
  <1>3. RankIn(g, g[w].tag) = Cardinality(Newer(g, w))
    BY <1>1, <1>2, RankFacts
  <1>4. Cardinality({w}) = 1
    BY FS_Singleton
  <1> QED
    BY <1>1, <1>2, <1>3, <1>4

\* Every other way is one older, unless the way touched was already newer.
LEMMA TouchedRank ==
    ASSUME NEW s, NEW now \in Nat, NEW f, Ordered(f, s, now), NEW w, NEW tag,
           Named(s, tag), NEW g, Touched(f, w, tag, now, g),
           NEW v \in Ways \ {w}, NEW held, v \in Holding(f, held)
    PROVE  RankIn(g, held) = RankIn(f, held) + (IF w \in Newer(f, v) THEN 0 ELSE 1)
  <1>0. f[v].valid /\ f[v].tag = held
    BY DEF Holding
  <1>1. Ordered(g, s, now + 1) /\ Newer(g, v) = Newer(f, v) \cup {w}
    BY TouchedSet, TouchedNewer
  <1>2. g[v] = f[v]
    BY DEF Touched
  <1>3. g[v].valid /\ g[v].tag = held
    BY <1>0, <1>2
  <1>4. RankIn(g, g[v].tag) = Cardinality(Newer(g, v))
    BY <1>1, <1>3, RankFacts
  <1>5. /\ RankIn(f, f[v].tag) = Cardinality(Newer(f, v))
        /\ IsFiniteSet(Newer(f, v)) /\ Cardinality(Newer(f, v)) \in 1..Assoc
    BY <1>0, RankFacts
  <1>6. Cardinality(Newer(f, v) \cup {w}) =
           IF w \in Newer(f, v) THEN Cardinality(Newer(f, v)) ELSE Cardinality(Newer(f, v)) + 1
    BY <1>5, FS_AddElement
  <1>7. Cardinality(Newer(f, v)) \in Nat
    BY <1>5, GeometryFacts
  <1> QED
    BY <1>0, <1>1, <1>3, <1>4, <1>5, <1>6, <1>7

\* A way that is dropped leaves its set ordered.
LEMMA DroppedSet ==
    ASSUME NEW s, NEW now, NEW f, Ordered(f, s, now), NEW w, NEW g, Dropped(f, w, g)
    PROVE  /\ Ordered(g, s, now)
           /\ \A v \in Ways \ {w} : Newer(g, v) = Newer(f, v) \ {w}
  <1>1. /\ w \in Ways /\ g \in [Ways -> Way] /\ ~ g[w].valid
        /\ \A v \in Ways \ {w} : g[v] = f[v]
    BY DEF Dropped
  <1>2. \A x \in Ways : g[x].valid => x # w /\ g[x] = f[x]
    BY <1>1
  <1>3. Ordered(g, s, now)
    BY <1>1, <1>2 DEF Ordered
  <1>4. \A v \in Ways \ {w} : Newer(g, v) = Newer(f, v) \ {w}
    BY <1>1 DEF Newer
  <1> QED
    BY <1>3, <1>4

\* The ways older than it are one step newer.
LEMMA DroppedRank ==
    ASSUME NEW s, NEW now, NEW f, Ordered(f, s, now), NEW w, NEW g, Dropped(f, w, g),
           NEW v \in Ways \ {w}, NEW held, v \in Holding(f, held)
    PROVE  RankIn(g, held) = RankIn(f, held) - (IF w \in Newer(f, v) THEN 1 ELSE 0)
  <1>0. f[v].valid /\ f[v].tag = held
    BY DEF Holding
  <1>1. Ordered(g, s, now) /\ Newer(g, v) = Newer(f, v) \ {w}
    BY DroppedSet
  <1>2. g[v] = f[v]
    BY DEF Dropped
  <1>3. g[v].valid /\ g[v].tag = held
    BY <1>0, <1>2
  <1>4. RankIn(g, g[v].tag) = Cardinality(Newer(g, v))
    BY <1>1, <1>3, RankFacts
  <1>5. /\ RankIn(f, f[v].tag) = Cardinality(Newer(f, v))
        /\ IsFiniteSet(Newer(f, v)) /\ Cardinality(Newer(f, v)) \in 1..Assoc
    BY <1>0, RankFacts
  <1>6. Cardinality(Newer(f, v) \ {w}) =
           IF w \in Newer(f, v) THEN Cardinality(Newer(f, v)) - 1 ELSE Cardinality(Newer(f, v))
    BY <1>5, FS_RemoveElement
  <1>7. Cardinality(Newer(f, v)) \in Nat
    BY <1>5, GeometryFacts
  <1> QED
    BY <1>0, <1>1, <1>3, <1>4, <1>5, <1>6, <1>7

\* A tag that no other way holds is held by this one or not at all.
LEMMA HeldElsewhere ==
    ASSUME NEW f, NEW g, NEW w \in Ways, \A v \in Ways \ {w} : g[v] = f[v],
           NEW tag, ~ (g[w].valid /\ g[w].tag = tag)
    PROVE  Holding(g, tag) = Holding(f, tag) \ {w}
  BY DEF Holding

-----------------------------------------------------------------------------
\* A line's rank and dirty bit, by the way that holds it.
LEMMA LineFacts ==
    ASSUME NEW now, NEW a, AllOrdered(a, now), NEW l \in Lines
    PROVE  /\ Holding(a[SetOf(l)], TagOf(l)) = {} =>
                 LevelIn(a).rank[l] = 0 /\ l \notin LevelIn(a).dirty
           /\ \A v \in Ways : a[SetOf(l)][v].valid /\ a[SetOf(l)][v].tag = TagOf(l) =>
                 /\ LevelIn(a).rank[l] = Cardinality(Newer(a[SetOf(l)], v))
                 /\ LevelIn(a).rank[l] \in 1..Assoc
                 /\ l \in LevelIn(a).dirty <=> a[SetOf(l)][v].dirty
  <1> DEFINE f == a[SetOf(l)]
  <1>1. /\ LevelIn(a).rank[l] = RankIn(f, TagOf(l))
        /\ l \in LevelIn(a).dirty <=> DirtyIn(f, TagOf(l))
    BY DEF LevelIn
  <1>2. Ordered(f, SetOf(l), now)
    BY GeometryFacts DEF AllOrdered
  <1> HIDE DEF f
  <1>3. Holding(f, TagOf(l)) = {} => RankIn(f, TagOf(l)) = 0 /\ ~ DirtyIn(f, TagOf(l))
    BY DEF RankIn, DirtyIn
  <1>4. ASSUME NEW v \in Ways, f[v].valid, f[v].tag = TagOf(l)
        PROVE  /\ RankIn(f, TagOf(l)) = Cardinality(Newer(f, v))
               /\ RankIn(f, TagOf(l)) \in 1..Assoc
               /\ DirtyIn(f, TagOf(l)) <=> f[v].dirty
    <2>1. RankIn(f, f[v].tag) = Cardinality(Newer(f, v)) /\ Cardinality(Newer(f, v)) \in 1..Assoc
      BY <1>2, <1>4, RankFacts
    <2>2. Holding(f, TagOf(l)) = {v}
      BY <1>2, <1>4 DEF Holding, Ordered
    <2> QED
      BY <1>4, <2>1, <2>2 DEF DirtyIn
  <1> QED
    BY <1>1, <1>3, <1>4 DEF f

\* What the abstract level calls a line's set and its peers.
LEMMA AbstractPeers ==
    ASSUME NEW line \in Lines
    PROVE  \A l : l \in Abstract!Peers(Abstract!Geom, line) <=>
                    l \in Lines /\ l # line /\ SetOf(l) = SetOf(line)
  BY DEF Abstract!Peers, Abstract!SetIndex, Abstract!Geom, SetOf

-----------------------------------------------------------------------------
\* The way an access takes: the line's own, a free one, or the oldest of a full set.
Taken(f, w, tag) ==
    \/ f[w].valid /\ f[w].tag = tag
    \/ Holding(f, tag) = {} /\ ~ f[w].valid
    \/ /\ Holding(f, tag) = {}
       /\ \A v \in Ways : f[v].valid /\ f[w].stamp <= f[v].stamp

\* The other line that was in the way, if any.
Displaced(f, w, line) ==
    {l \in Lines : SetOf(l) = SetOf(line) /\ l # line /\ f[w].valid /\ f[w].tag = TagOf(l)}

\* A line is told by its set and its tag.
LEMMA OneLine ==
    ASSUME NEW l \in Lines, NEW m \in Lines, SetOf(l) = SetOf(m), TagOf(l) = TagOf(m)
    PROVE  l = m
  BY GeometryFacts

\* The abstract level overtakes the lines that were newer than the way taken.
LEMMA OvertakenAre ==
    ASSUME NEW now, NEW a, AllOrdered(a, now), NEW line \in Lines, NEW w \in Ways,
           Taken(a[SetOf(line)], w, TagOf(line)),
           NEW l \in Lines, l # line, SetOf(l) = SetOf(line), NEW v \in Ways \ {w},
           a[SetOf(line)][v].valid, a[SetOf(line)][v].tag = TagOf(l)
    PROVE  l \in Abstract!Overtaken(Abstract!Geom, LevelIn(a), line)
              <=> w \notin Newer(a[SetOf(line)], v)
  <1> DEFINE f == a[SetOf(line)]
             c == LevelIn(a)
  <1> SUFFICES l \in Abstract!Overtaken(Abstract!Geom, c, line) <=> w \notin Newer(f, v)
    OBVIOUS
  <1>1. Ordered(f, SetOf(line), now)
    BY GeometryFacts DEF AllOrdered
  <1>2. /\ c.rank[l] = Cardinality(Newer(f, v)) /\ c.rank[l] \in 1..Assoc
        /\ Holding(f, TagOf(line)) = {} => c.rank[line] = 0
        /\ f[w].valid /\ f[w].tag = TagOf(line) =>
              c.rank[line] = Cardinality(Newer(f, w)) /\ c.rank[line] \in 1..Assoc
    BY LineFacts
  <1>3. l \in Abstract!Overtaken(Abstract!Geom, c, line) <=>
            c.rank[l] # 0 /\ (c.rank[line] = 0 \/ c.rank[l] < c.rank[line])
    BY AbstractPeers DEF Abstract!Overtaken
  <1> HIDE DEF c
  <1>4. f \in [Ways -> Way] /\ f[v].valid /\ f[v] \in Way /\ f[w] \in Way
    BY <1>1 DEF Ordered
  <1>8. c.rank[l] \in Nat \ {0}
    BY <1>2, GeometryFacts
  <1> HIDE DEF f
  <1>5. CASE f[w].valid /\ f[w].tag = TagOf(line)
    <2>1. w \notin Newer(f, v) <=> Cardinality(Newer(f, v)) < Cardinality(Newer(f, w))
      BY <1>1, <1>4, <1>5, RankOrder
    <2>2. c.rank[line] = Cardinality(Newer(f, w)) /\ c.rank[line] \in Nat \ {0}
      BY <1>2, <1>5, GeometryFacts
    <2> QED
      BY <1>2, <1>3, <1>8, <2>1, <2>2
  <1>6. CASE Holding(f, TagOf(line)) = {} /\ ~ f[w].valid
    <2>1. w \notin Newer(f, v)
      BY <1>6 DEF Newer
    <2> QED
      BY <1>2, <1>3, <1>6, <1>8, <2>1
  <1>7. CASE /\ Holding(f, TagOf(line)) = {}
             /\ \A x \in Ways : f[x].valid /\ f[w].stamp <= f[x].stamp
    <2>1. f[w].stamp \in Nat /\ f[v].stamp \in Nat /\ f[w].stamp # f[v].stamp
      BY <1>1, <1>4, <1>7 DEF Ordered, Way
    <2>2. w \notin Newer(f, v)
      BY <1>7, <2>1 DEF Newer
    <2> QED
      BY <1>2, <1>3, <1>7, <1>8, <2>2
  <1> QED
    BY <1>5, <1>6, <1>7 DEF Taken, f, c

\* What the abstract level displaces is what was in the way taken.
LEMMA VictimsAre ==
    ASSUME NEW now, NEW a, AllOrdered(a, now), NEW line \in Lines, NEW w \in Ways,
           Taken(a[SetOf(line)], w, TagOf(line))
    PROVE  Abstract!Victims(Abstract!Geom, LevelIn(a), line)
              = Displaced(a[SetOf(line)], w, line)
  <1> DEFINE f == a[SetOf(line)]
             c == LevelIn(a)
             vs == Abstract!Victims(Abstract!Geom, c, line)
  <1>1. Ordered(f, SetOf(line), now)
    BY GeometryFacts DEF AllOrdered
  <1>2. \A l : l \in vs <=> /\ l \in Lines /\ l # line /\ SetOf(l) = SetOf(line)
                            /\ c.rank[line] = 0 /\ c.rank[l] = Assoc
    BY AbstractPeers DEF Abstract!Victims, Abstract!Geom
  <1>3. /\ Holding(f, TagOf(line)) = {} => c.rank[line] = 0
        /\ f[w].valid /\ f[w].tag = TagOf(line) => c.rank[line] \in 1..Assoc
    BY LineFacts
  <1>4. ASSUME NEW l \in Lines, SetOf(l) = SetOf(line)
        PROVE  /\ Holding(f, TagOf(l)) = {} => c.rank[l] = 0
               /\ \A v \in Ways : f[v].valid /\ f[v].tag = TagOf(l) =>
                     c.rank[l] = Cardinality(Newer(f, v))
    BY <1>4, LineFacts
  <1>5. f \in [Ways -> Way] /\ \A v \in Ways : f[v] \in Way
    BY <1>1 DEF Ordered
  <1>6. ASSUME NEW l \in vs PROVE l \in Displaced(f, w, line)
    <2>1. /\ l \in Lines /\ l # line /\ SetOf(l) = SetOf(line)
          /\ c.rank[line] = 0 /\ c.rank[l] = Assoc
      BY <1>2
    <2>2. PICK v \in Ways : f[v].valid /\ f[v].tag = TagOf(l)
      BY <1>4, <2>1, GeometryFacts DEF Holding
    <2>3. Cardinality(Newer(f, v)) = Assoc
      BY <1>4, <2>1, <2>2
    <2>4. w \in Newer(f, v)
      BY <1>1, <2>2, <2>3, RankNotLast, GeometryFacts
    <2>5. f[w].valid /\ f[w].stamp >= f[v].stamp
      BY <2>4 DEF Newer
    <2>6. ~ (f[w].valid /\ f[w].tag = TagOf(line))
      BY <1>3, <2>1
    <2>7. f[w].stamp <= f[v].stamp
      BY <2>5, <2>6 DEF Taken
    <2>8. f[w].stamp \in Nat /\ f[v].stamp \in Nat
      BY <1>5 DEF Way
    <2>9. w = v
      BY <1>1, <2>2, <2>5, <2>7, <2>8 DEF Ordered
    <2> QED
      BY <2>1, <2>2, <2>9 DEF Displaced
  <1>7. ASSUME NEW l \in Displaced(f, w, line) PROVE l \in vs
    <2>1. /\ l \in Lines /\ l # line /\ SetOf(l) = SetOf(line)
          /\ f[w].valid /\ f[w].tag = TagOf(l)
      BY DEF Displaced
    <2>2. TagOf(l) # TagOf(line)
      BY <2>1, OneLine
    <2>3. /\ Holding(f, TagOf(line)) = {}
          /\ \A v \in Ways : f[v].valid /\ f[w].stamp <= f[v].stamp
      BY <2>1, <2>2 DEF Taken
    <2>4. Newer(f, w) = Ways
      BY <1>5, <2>3 DEF Newer, Way
    <2>5. c.rank[l] = Assoc
      BY <1>4, <2>1, <2>4, GeometryFacts
    <2> QED
      BY <1>2, <1>3, <2>1, <2>3, <2>5
  <1> QED
    BY <1>6, <1>7

-----------------------------------------------------------------------------
\* Only set s of level a changes, to b.
Changes(a, b, s) ==
    /\ a \in [Sets -> [Ways -> Way]] /\ b \in [Sets -> [Ways -> Way]]
    /\ \A t \in Sets \ {s} : b[t] = a[t]

\* A level whose changed set is ordered is ordered.
LEMMA ChangeKeepsOrder ==
    ASSUME NEW now \in Nat, NEW later \in Nat, now <= later, NEW a, AllOrdered(a, now),
           NEW s \in Sets, NEW b, Changes(a, b, s), Ordered(b[s], s, later)
    PROVE  AllOrdered(b, later)
  <1>1. ASSUME NEW t \in Sets PROVE Ordered(a[t], t, later)
    <2>1. Ordered(a[t], t, now)
      BY DEF AllOrdered
    <2>2. \A v \in Ways : a[t][v].stamp \in Nat
      BY <2>1 DEF Ordered, Way
    <2>3. \A v \in Ways : a[t][v].valid => a[t][v].stamp < later
      BY <2>1, <2>2 DEF Ordered
    <2> QED
      BY <2>1, <2>3 DEF Ordered
  <1>2. \A t \in Sets : t = s \/ b[t] = a[t]
    BY DEF Changes
  <1>3. \A t \in Sets : Ordered(b[t], t, later)
    BY <1>1, <1>2
  <1> QED
    BY <1>3 DEF AllOrdered, Changes

\* The level a after an access to a line that takes way w is b.
Accessed(a, b, line, w, now) ==
    /\ Changes(a, b, SetOf(line))
    /\ Taken(a[SetOf(line)], w, TagOf(line))
    /\ Touched(a[SetOf(line)], w, TagOf(line), now, b[SetOf(line)])

LEMMA AccessKeepsOrder ==
    ASSUME NEW now \in Nat, NEW a, AllOrdered(a, now), NEW line \in Lines, NEW w,
           NEW b, Accessed(a, b, line, w, now)
    PROVE  AllOrdered(b, now + 1)
  <1>1. SetOf(line) \in Sets /\ Ordered(a[SetOf(line)], SetOf(line), now)
    BY GeometryFacts DEF AllOrdered
  <1>2. Named(SetOf(line), TagOf(line))
    BY DEF Named
  <1>3. Touched(a[SetOf(line)], w, TagOf(line), now, b[SetOf(line)]) /\ Changes(a, b, SetOf(line))
    BY DEF Accessed
  <1>4. Ordered(b[SetOf(line)], SetOf(line), now + 1)
    BY <1>1, <1>2, <1>3, TouchedSet
  <1> QED
    BY <1>1, <1>3, <1>4, ChangeKeepsOrder

\* The ranks after an access are those the abstract level gives.
LEMMA AccessRanks ==
    ASSUME NEW now \in Nat, NEW a, AllOrdered(a, now), NEW line \in Lines, NEW w,
           NEW b, Accessed(a, b, line, w, now)
    PROVE  LevelIn(b).rank = Abstract!RankAfter(Abstract!Geom, LevelIn(a), line)
  <1> DEFINE f == a[SetOf(line)]
             g == b[SetOf(line)]
             c == LevelIn(a)
             vs == Abstract!Victims(Abstract!Geom, c, line)
             ov == Abstract!Overtaken(Abstract!Geom, c, line)
  <1> SUFFICES ASSUME NEW l \in Lines
               PROVE  RankIn(b[SetOf(l)], TagOf(l)) =
                          IF l = line THEN 1
                          ELSE IF l \in vs THEN 0
                          ELSE IF l \in ov THEN c.rank[l] + 1
                          ELSE c.rank[l]
    BY DEF LevelIn, Abstract!RankAfter
  <1>1. Ordered(f, SetOf(line), now) /\ Named(SetOf(line), TagOf(line))
    BY GeometryFacts DEF AllOrdered, Named
  <1>2. Taken(f, w, TagOf(line)) /\ Touched(f, w, TagOf(line), now, g)
    BY DEF Accessed
  <1>3. /\ w \in Ways /\ g[w].valid /\ g[w].tag = TagOf(line)
        /\ \A v \in Ways \ {w} : g[v] = f[v]
    BY <1>2 DEF Touched
  <1>4. c.rank[l] = RankIn(a[SetOf(l)], TagOf(l))
    BY DEF LevelIn
  <1>5. vs = Displaced(f, w, line)
    BY <1>2, <1>3, VictimsAre
  <1>6. SetOf(l) \in Sets
    BY GeometryFacts
  <1>7. SetOf(l) # SetOf(line) => b[SetOf(l)] = a[SetOf(l)]
    BY <1>6 DEF Accessed, Changes
  <1>8. \A x : x \in ov => x # line /\ SetOf(x) = SetOf(line) /\ c.rank[x] # 0
    BY AbstractPeers DEF Abstract!Overtaken
  <1>9. \A v \in Holding(f, TagOf(l)) \ {w} : l # line /\ SetOf(l) = SetOf(line)
            => (l \in ov <=> w \notin Newer(f, v))
    BY <1>2, <1>3, OvertakenAre DEF Holding
  <1>10. CASE l = line
    <2>1. RankIn(g, TagOf(line)) = 1
      BY <1>1, <1>2, TouchedFirst
    <2> QED
      BY <1>10, <2>1
  <1>11. CASE SetOf(l) # SetOf(line)
    <2>1. l \notin vs /\ l \notin ov /\ l # line
      BY <1>5, <1>8, <1>11 DEF Displaced
    <2> QED
      BY <1>4, <1>7, <1>11, <2>1
  <1>12. CASE l # line /\ SetOf(l) = SetOf(line)
    <2>1. TagOf(l) # TagOf(line)
      BY <1>12, OneLine
    <2>2. b[SetOf(l)] = g /\ c.rank[l] = RankIn(f, TagOf(l))
      BY <1>4, <1>12
    <2>3. Holding(g, TagOf(l)) = Holding(f, TagOf(l)) \ {w}
      BY <1>3, <2>1, HeldElsewhere
    <2>4. l \in vs <=> w \in Holding(f, TagOf(l))
      BY <1>3, <1>5, <1>12 DEF Displaced, Holding
    <2> HIDE DEF f, g, c, vs, ov
    <2>5. CASE w \in Holding(f, TagOf(l))
      <3>1. Holding(f, TagOf(l)) = {w}
        BY <1>1, <2>5 DEF Holding, Ordered
      <3>2. RankIn(g, TagOf(l)) = 0
        BY <2>3, <3>1 DEF RankIn
      <3> QED
        BY <1>12, <2>2, <2>4, <2>5, <3>2
    <2>6. CASE Holding(f, TagOf(l)) = {}
      <3>1. RankIn(g, TagOf(l)) = 0 /\ RankIn(f, TagOf(l)) = 0
        BY <2>3, <2>6 DEF RankIn
      <3>2. l \notin ov
        BY <1>8, <2>2, <3>1
      <3> QED
        BY <1>12, <2>2, <2>4, <2>6, <3>1, <3>2
    <2>7. ASSUME NEW v \in Ways \ {w}, v \in Holding(f, TagOf(l))
          PROVE  RankIn(g, TagOf(l)) = IF l \in ov THEN c.rank[l] + 1 ELSE c.rank[l]
      <3>1. RankIn(g, TagOf(l)) = RankIn(f, TagOf(l)) + (IF w \in Newer(f, v) THEN 0 ELSE 1)
        BY <1>1, <1>2, <2>7, TouchedRank
      <3>2. f[v].valid /\ f[v].tag = TagOf(l)
        BY <2>7 DEF Holding
      <3>3. RankIn(f, f[v].tag) = Cardinality(Newer(f, v)) /\ Cardinality(Newer(f, v)) \in 1..Assoc
        BY <1>1, <3>2, RankFacts
      <3>4. RankIn(f, TagOf(l)) \in Nat
        BY <3>2, <3>3, GeometryFacts
      <3>5. l \in ov <=> w \notin Newer(f, v)
        BY <1>9, <1>12, <2>7
      <3> QED
        BY <2>2, <3>1, <3>4, <3>5
    <2>8. CASE w \notin Holding(f, TagOf(l)) /\ Holding(f, TagOf(l)) # {}
      <3>1. PICK v \in Ways \ {w} : v \in Holding(f, TagOf(l))
        BY <2>8 DEF Holding
      <3> QED
        BY <1>12, <2>2, <2>4, <2>7, <2>8, <3>1
    <2> QED
      BY <2>5, <2>6, <2>8
  <1> QED
    BY <1>10, <1>11, <1>12

\* A line is resident if a way holds it, and dirty if that way is.
LEMMA ResidentFacts ==
    ASSUME NEW now, NEW a, AllOrdered(a, now), NEW line \in Lines
    PROVE  /\ LevelIn(a).rank[line] # 0 <=> Holding(a[SetOf(line)], TagOf(line)) # {}
           /\ \A w \in Holding(a[SetOf(line)], TagOf(line)) :
                 line \in LevelIn(a).dirty <=> a[SetOf(line)][w].dirty
           /\ Holding(a[SetOf(line)], TagOf(line)) = {} => line \notin LevelIn(a).dirty
  <1> DEFINE f == a[SetOf(line)]
             c == LevelIn(a)
  <1>1. /\ Holding(f, TagOf(line)) = {} => c.rank[line] = 0 /\ line \notin c.dirty
        /\ \A v \in Ways : f[v].valid /\ f[v].tag = TagOf(line) =>
              /\ c.rank[line] \in 1..Assoc
              /\ line \in c.dirty <=> f[v].dirty
    BY LineFacts
  <1> SUFFICES /\ c.rank[line] # 0 <=> Holding(f, TagOf(line)) # {}
               /\ \A w \in Holding(f, TagOf(line)) : line \in c.dirty <=> f[w].dirty
               /\ Holding(f, TagOf(line)) = {} => line \notin c.dirty
    OBVIOUS
  <1> HIDE DEF f, c
  <1>2. ASSUME NEW v \in Holding(f, TagOf(line))
        PROVE  c.rank[line] # 0 /\ (line \in c.dirty <=> f[v].dirty)
    <2>1. v \in Ways /\ f[v].valid /\ f[v].tag = TagOf(line)
      BY DEF Holding
    <2>2. c.rank[line] \in 1..Assoc /\ (line \in c.dirty <=> f[v].dirty)
      BY <1>1, <2>1
    <2> QED
      BY <2>2, GeometryFacts
  <1> QED
    BY <1>1, <1>2

\* The dirty lines after an access are those the abstract level gives.
LEMMA AccessDirty ==
    ASSUME NEW now \in Nat, NEW a, AllOrdered(a, now), NEW line \in Lines, NEW w,
           NEW b, Accessed(a, b, line, w, now), NEW type,
           b[SetOf(line)][w].dirty <=>
               \/ type = "write"
               \/ w \in Holding(a[SetOf(line)], TagOf(line)) /\ a[SetOf(line)][w].dirty
    PROVE  LevelIn(b).dirty = Abstract!DirtyAfter(Abstract!Geom, LevelIn(a), line, type)
  <1> DEFINE f == a[SetOf(line)]
             g == b[SetOf(line)]
             c == LevelIn(a)
             vs == Abstract!Victims(Abstract!Geom, c, line)
             after == Abstract!DirtyAfter(Abstract!Geom, c, line, type)
  <1>1. g[w].dirty <=> type = "write" \/ (w \in Holding(f, TagOf(line)) /\ f[w].dirty)
    OBVIOUS
  <1>2. /\ \A l : l \in LevelIn(b).dirty <=> l \in Lines /\ DirtyIn(b[SetOf(l)], TagOf(l))
        /\ \A l : l \in c.dirty <=> l \in Lines /\ DirtyIn(a[SetOf(l)], TagOf(l))
    BY DEF LevelIn
  <1>3. \A l : l \in after <=>
            \/ type = "write" /\ l = line
            \/ l \in c.dirty /\ l \notin vs /\ (l = line => c.rank[line] # 0)
    BY DEF Abstract!DirtyAfter
  <1>4. Ordered(f, SetOf(line), now) /\ Named(SetOf(line), TagOf(line))
    BY GeometryFacts DEF AllOrdered, Named
  <1>5. Taken(f, w, TagOf(line)) /\ Touched(f, w, TagOf(line), now, g)
    BY DEF Accessed
  <1>6. /\ w \in Ways /\ g[w].valid /\ g[w].tag = TagOf(line)
        /\ \A v \in Ways \ {w} : g[v] = f[v]
    BY <1>5 DEF Touched
  <1>7. vs = Displaced(f, w, line)
    BY <1>5, <1>6, VictimsAre
  <1>8. /\ c.rank[line] # 0 <=> Holding(f, TagOf(line)) # {}
        /\ \A v \in Holding(f, TagOf(line)) : line \in c.dirty <=> f[v].dirty
        /\ Holding(f, TagOf(line)) = {} => line \notin c.dirty
    BY ResidentFacts
  <1>9. Holding(g, TagOf(line)) = {w}
    BY <1>4, <1>5, TouchedSet
  <1>10. w \in Holding(f, TagOf(line)) <=> Holding(f, TagOf(line)) # {}
    BY <1>5, <1>6 DEF Taken, Holding
  <1>11. ASSUME NEW l \in Lines PROVE DirtyIn(b[SetOf(l)], TagOf(l)) <=> l \in after
    <2>1. SetOf(l) \in Sets
      BY GeometryFacts
    <2>2. CASE l = line
      <3>1. DirtyIn(g, TagOf(line)) <=> g[w].dirty
        BY <1>9 DEF DirtyIn
      <3>2. line \notin vs
        BY <1>7 DEF Displaced
      <3> QED
        BY <1>1, <1>3, <1>8, <1>10, <2>2, <3>1, <3>2
    <2>3. CASE SetOf(l) # SetOf(line)
      <3>1. b[SetOf(l)] = a[SetOf(l)]
        BY <2>1, <2>3 DEF Accessed, Changes
      <3>2. l \notin vs /\ l # line
        BY <1>7, <2>3 DEF Displaced
      <3> QED
        BY <1>2, <1>3, <3>1, <3>2
    <2>4. CASE l # line /\ SetOf(l) = SetOf(line)
      <3>1. TagOf(l) # TagOf(line)
        BY <2>4, OneLine
      <3>2. b[SetOf(l)] = g /\ (l \in c.dirty <=> DirtyIn(f, TagOf(l)))
        BY <1>2, <2>4
      <3>3. Holding(g, TagOf(l)) = Holding(f, TagOf(l)) \ {w}
        BY <1>6, <3>1 DEF Holding
      <3>4. l \in vs <=> w \in Holding(f, TagOf(l))
        BY <1>6, <1>7, <2>4 DEF Displaced, Holding
      <3>5. \A v \in Holding(f, TagOf(l)) \ {w} : g[v] = f[v]
        BY <1>6 DEF Holding
      <3>6. l \in after <=> l \in c.dirty /\ l \notin vs
        BY <1>3, <2>4
      <3>7. w \in Holding(f, TagOf(l)) => Holding(f, TagOf(l)) = {w}
        BY <1>4 DEF Holding, Ordered
      <3> HIDE DEF f, g, c, vs, after
      <3>8. DirtyIn(g, TagOf(l)) <=> DirtyIn(f, TagOf(l)) /\ w \notin Holding(f, TagOf(l))
        BY <3>3, <3>5, <3>7 DEF DirtyIn
      <3> QED
        BY <3>2, <3>4, <3>6, <3>8
    <2> QED
      BY <2>2, <2>3, <2>4
  <1>12. \A l : l \in after => l \in Lines
    BY <1>2, <1>3
  <1> QED
    BY <1>2, <1>11, <1>12

\* What the abstract level writes back is the dirty line of the way taken.
LEMMA AccessWritesBack ==
    ASSUME NEW now \in Nat, NEW a, AllOrdered(a, now), NEW line \in Lines, NEW w \in Ways,
           Taken(a[SetOf(line)], w, TagOf(line)), NEW type
    PROVE  LET o == Abstract!Access(Abstract!Geom, LevelIn(a), line, type)
               f == a[SetOf(line)]
           IN  /\ o.hit = (Holding(f, TagOf(line)) # {})
               /\ o.wb = IF Holding(f, TagOf(line)) = {} /\ f[w].valid /\ f[w].dirty
                         THEN LineOf(SetOf(line), f[w].tag) ELSE NoLine
  <1> DEFINE f == a[SetOf(line)]
             c == LevelIn(a)
             dv == Abstract!DirtyVictims(Abstract!Geom, c, line)
             o == Abstract!Access(Abstract!Geom, c, line, type)
             gone == LineOf(SetOf(line), f[w].tag)
  <1>1. o.hit = (c.rank[line] # 0) /\ o.wb = IF dv = {} THEN NoLine ELSE CHOOSE l \in dv : TRUE
    BY DEF Abstract!Access, Abstract!NoLine, NoLine
  <1>2. c.rank[line] # 0 <=> Holding(f, TagOf(line)) # {}
    BY ResidentFacts
  <1>3. Abstract!Victims(Abstract!Geom, c, line) = Displaced(f, w, line)
    BY VictimsAre
  <1>4. Ordered(f, SetOf(line), now)
    BY GeometryFacts DEF AllOrdered
  <1>5. ASSUME NEW l \in Lines, SetOf(l) = SetOf(line), f[w].valid, f[w].tag = TagOf(l)
        PROVE  l = gone /\ (l \in c.dirty <=> f[w].dirty)
    <2>1. w \in Holding(a[SetOf(l)], TagOf(l))
      BY <1>5 DEF Holding
    <2>2. l \in c.dirty <=> a[SetOf(l)][w].dirty
      BY <2>1, ResidentFacts
    <2> QED
      BY <1>5, <2>2, GeometryFacts
  <1>6. f[w].valid => \E l \in Lines : SetOf(l) = SetOf(line) /\ f[w].tag = TagOf(l)
    BY <1>4 DEF Ordered, Named
  <1>7. w \in Holding(f, TagOf(line)) <=> Holding(f, TagOf(line)) # {}
    BY DEF Taken, Holding
  <1>8. \A l : l \in dv <=> /\ l \in Lines /\ SetOf(l) = SetOf(line) /\ l # line
                            /\ f[w].valid /\ f[w].tag = TagOf(l) /\ l \in c.dirty
    BY <1>3 DEF Abstract!DirtyVictims, Displaced
  <1> SUFFICES /\ o.hit = (Holding(f, TagOf(line)) # {})
               /\ o.wb = IF Holding(f, TagOf(line)) = {} /\ f[w].valid /\ f[w].dirty
                         THEN gone ELSE NoLine
    OBVIOUS
  <1> HIDE DEF f, c, dv, o, gone
  <1>9. CASE Holding(f, TagOf(line)) = {} /\ f[w].valid /\ f[w].dirty
    <2>1. PICK l \in Lines : SetOf(l) = SetOf(line) /\ f[w].tag = TagOf(l)
      BY <1>6, <1>9
    <2>2. l # line
      BY <1>9, <2>1 DEF Holding
    <2>3. l \in dv
      BY <1>5, <1>8, <1>9, <2>1, <2>2
    <2>4. dv = {gone}
      BY <1>5, <1>8, <2>3
    <2> QED
      BY <1>1, <1>2, <1>9, <2>4
  <1>10. CASE ~ (Holding(f, TagOf(line)) = {} /\ f[w].valid /\ f[w].dirty)
    <2>1. ASSUME NEW l \in dv PROVE FALSE
      <3>1. /\ l \in Lines /\ SetOf(l) = SetOf(line) /\ l # line
            /\ f[w].valid /\ f[w].tag = TagOf(l) /\ l \in c.dirty
        BY <1>8
      <3>2. f[w].dirty
        BY <1>5, <3>1
      <3>3. w \in Holding(f, TagOf(line))
        BY <1>7, <1>10, <3>1, <3>2
      <3>4. TagOf(l) = TagOf(line)
        BY <3>1, <3>3 DEF Holding
      <3> QED
        BY <3>1, <3>4, OneLine
    <2> QED
      BY <1>1, <1>2, <1>10, <2>1
  <1> QED
    BY <1>9, <1>10

\* Dropping a resident line leaves the level the abstract one has then.
LEMMA DropRanks ==
    ASSUME NEW now \in Nat, NEW a, AllOrdered(a, now), NEW line \in Lines,
           NEW w \in Holding(a[SetOf(line)], TagOf(line)),
           NEW b, Changes(a, b, SetOf(line)), Dropped(a[SetOf(line)], w, b[SetOf(line)])
    PROVE  LevelIn(b) = Abstract!Drop(Abstract!Geom, LevelIn(a), line).level
  <1> DEFINE f == a[SetOf(line)]
             g == b[SetOf(line)]
             c == LevelIn(a)
             d == Abstract!Drop(Abstract!Geom, c, line).level
  <1>1. Ordered(f, SetOf(line), now) /\ Dropped(f, w, g)
    BY GeometryFacts DEF AllOrdered
  <1>2. /\ w \in Ways /\ f[w].valid /\ f[w].tag = TagOf(line) /\ ~ g[w].valid
        /\ \A v \in Ways \ {w} : g[v] = f[v]
    BY <1>1 DEF Dropped, Holding
  <1>3. c.rank[line] = Cardinality(Newer(f, w)) /\ c.rank[line] \in 1..Assoc
    BY <1>2, LineFacts
  <1>4. Holding(f, TagOf(line)) = {w}
    BY <1>1, <1>2 DEF Holding, Ordered
  <1>5. ASSUME NEW l \in Lines
        PROVE  /\ d.rank[l] = IF l = line THEN 0
                              ELSE IF SetOf(l) = SetOf(line) /\ c.rank[l] > c.rank[line]
                              THEN c.rank[l] - 1 ELSE c.rank[l]
               /\ l \in d.dirty <=> l \in c.dirty /\ l # line
    <2>1. d.rank[l] = IF l = line THEN 0
                      ELSE IF l \in Abstract!Peers(Abstract!Geom, line)
                              /\ c.rank[line] # 0 /\ c.rank[l] > c.rank[line]
                      THEN c.rank[l] - 1 ELSE c.rank[l]
      BY DEF Abstract!Drop
    <2>2. l \in Abstract!Peers(Abstract!Geom, line) <=> l # line /\ SetOf(l) = SetOf(line)
      BY AbstractPeers
    <2>3. c.rank[line] # 0
      BY <1>3, GeometryFacts
    <2>4. l \in d.dirty <=> l \in c.dirty /\ l # line
      BY DEF Abstract!Drop
    <2> HIDE DEF c, d
    <2> QED
      BY <2>1, <2>2, <2>3, <2>4
  <1>6. ASSUME NEW l \in Lines
        PROVE  /\ c.rank[l] = RankIn(a[SetOf(l)], TagOf(l))
               /\ l \in c.dirty <=> DirtyIn(a[SetOf(l)], TagOf(l))
    BY DEF LevelIn
  <1>7. ASSUME NEW l \in Lines
        PROVE  /\ RankIn(b[SetOf(l)], TagOf(l)) = d.rank[l]
               /\ DirtyIn(b[SetOf(l)], TagOf(l)) <=> l \in d.dirty
    <2>1. CASE l = line
      <3>1. Holding(g, TagOf(line)) = {}
        BY <1>2, <1>4 DEF Holding
      <3>2. RankIn(g, TagOf(line)) = 0 /\ ~ DirtyIn(g, TagOf(line))
        BY <3>1 DEF RankIn, DirtyIn
      <3> QED
        BY <1>5, <2>1, <3>2
    <2>2. CASE SetOf(l) # SetOf(line)
      <3>1. b[SetOf(l)] = a[SetOf(l)]
        BY <2>2, GeometryFacts DEF Changes
      <3> HIDE DEF d, c
      <3> QED
        BY <1>5, <1>6, <2>2, <3>1
    <2>3. CASE l # line /\ SetOf(l) = SetOf(line)
      <3>1. b[SetOf(l)] = g /\ a[SetOf(l)] = f
        BY <2>3
      <3>2. TagOf(l) # TagOf(line)
        BY <2>3, OneLine
      <3>3. w \notin Holding(f, TagOf(l))
        BY <1>2, <3>2 DEF Holding
      <3>4. Holding(g, TagOf(l)) = Holding(f, TagOf(l))
        BY <1>2, <3>3 DEF Holding
      <3>5. \A v \in Holding(f, TagOf(l)) : v \in Ways \ {w} /\ g[v] = f[v]
        BY <1>2, <3>3 DEF Holding
      <3>6. /\ c.rank[l] = RankIn(f, TagOf(l))
            /\ l \in c.dirty <=> DirtyIn(f, TagOf(l))
        BY <1>6, <3>1
      <3> HIDE DEF f, g, c, d
      <3>7. DirtyIn(g, TagOf(l)) <=> DirtyIn(f, TagOf(l))
        BY <3>4, <3>5 DEF DirtyIn
      <3>8. CASE Holding(f, TagOf(l)) = {}
        <4>1. RankIn(f, TagOf(l)) = 0 /\ RankIn(g, TagOf(l)) = 0
          BY <3>4, <3>8 DEF RankIn
        <4>2. ~ (c.rank[l] > c.rank[line])
          BY <1>3, <3>6, <4>1, GeometryFacts
        <4> QED
          BY <1>5, <2>3, <3>1, <3>6, <3>7, <4>1, <4>2
      <3>9. ASSUME NEW v \in Holding(f, TagOf(l))
            PROVE  RankIn(g, TagOf(l)) = IF c.rank[l] > c.rank[line] THEN c.rank[l] - 1
                                         ELSE c.rank[l]
        <4>1. v \in Ways \ {w} /\ f[v].valid /\ f[v].tag = TagOf(l)
          BY <3>5 DEF Holding
        <4>2. RankIn(g, TagOf(l)) = RankIn(f, TagOf(l)) - (IF w \in Newer(f, v) THEN 1 ELSE 0)
          BY <1>1, <4>1, DroppedRank
        <4>3. /\ RankIn(f, f[v].tag) = Cardinality(Newer(f, v))
              /\ Cardinality(Newer(f, v)) \in 1..Assoc
          BY <1>1, <4>1, RankFacts
        <4>4. w \in Newer(f, v) <=> Cardinality(Newer(f, w)) < Cardinality(Newer(f, v))
          BY <1>1, <1>2, <4>1, RankOrder
        <4>5. c.rank[l] = Cardinality(Newer(f, v)) /\ c.rank[l] \in Nat
          BY <3>6, <4>1, <4>3, GeometryFacts
        <4>6. c.rank[line] \in Nat
          BY <1>3, GeometryFacts
        <4> QED
          BY <1>3, <3>6, <4>2, <4>4, <4>5, <4>6
      <3> QED
        BY <1>5, <2>3, <3>1, <3>6, <3>7, <3>8, <3>9
    <2> QED
      BY <2>1, <2>2, <2>3
  <1>8. LevelIn(b).rank = d.rank /\ LevelIn(b).dirty = d.dirty
    <2>1. /\ LevelIn(b).rank = [l \in Lines |-> RankIn(b[SetOf(l)], TagOf(l))]
          /\ \A l : l \in LevelIn(b).dirty <=> l \in Lines /\ DirtyIn(b[SetOf(l)], TagOf(l))
      BY DEF LevelIn
    <2>2. d.rank = [l \in Lines |-> d.rank[l]]
      BY DEF Abstract!Drop
    <2>3. \A l : l \in d.dirty => l \in Lines
      BY DEF Abstract!Drop, LevelIn
    <2> HIDE DEF d
    <2> QED
      BY <1>7, <2>1, <2>2, <2>3
  <1>9. LevelIn(b) = [rank |-> LevelIn(b).rank, dirty |-> LevelIn(b).dirty]
    BY DEF LevelIn
  <1>10. d = [rank |-> d.rank, dirty |-> d.dirty]
    BY DEF Abstract!Drop
  <1> HIDE DEF d
  <1>11. LevelIn(b) = d
    BY <1>8, <1>9, <1>10
  <1> QED
    BY <1>11 DEF d

\* Dropping a line that is not resident changes nothing.
LEMMA DropNothing ==
    ASSUME NEW now \in Nat, NEW a, AllOrdered(a, now), NEW line \in Lines,
           Holding(a[SetOf(line)], TagOf(line)) = {}
    PROVE  Abstract!Drop(Abstract!Geom, LevelIn(a), line).level = LevelIn(a)
  <1> DEFINE c == LevelIn(a)
             d == Abstract!Drop(Abstract!Geom, c, line).level
  <1>1. c.rank[line] = 0 /\ line \notin c.dirty
    BY LineFacts
  <1>2. /\ c = [rank |-> c.rank, dirty |-> c.dirty] /\ c.rank = [l \in Lines |-> c.rank[l]]
    BY DEF LevelIn
  <1>3. d.rank = [l \in Lines |-> IF l = line THEN 0 ELSE c.rank[l]]
    BY <1>1 DEF Abstract!Drop
  <1>4. d.dirty = c.dirty
    BY <1>1 DEF Abstract!Drop
  <1>5. d = [rank |-> d.rank, dirty |-> d.dirty]
    BY DEF Abstract!Drop
  <1> HIDE DEF c, d
  <1>6. d.rank = c.rank
    BY <1>1, <1>2, <1>3
  <1>7. d = c
    BY <1>2, <1>4, <1>5, <1>6
  <1> QED
    BY <1>7 DEF c, d
-----------------------------------------------------------------------------
\* The oldest way of a set whose stamps are numbers.
LEMMA OldestFacts ==
    ASSUME NEW f \in [Ways -> Way],
           NEW w, w = First({x \in Ways : \A v \in Ways : f[x].stamp <= f[v].stamp})
    PROVE  w \in Ways /\ \A v \in Ways : f[w].stamp <= f[v].stamp
  <1> DEFINE stamps == {f[x].stamp : x \in Ways}
             oldest == {x \in Ways : \A v \in Ways : f[x].stamp <= f[v].stamp}
  <1>1. stamps \subseteq Nat
    BY DEF Way
  <1>2. f[0].stamp \in stamps
    BY GeometryFacts
  <1>3. First(stamps) \in stamps /\ \A x \in stamps : First(stamps) <= x
    <2> HIDE DEF stamps
    <2> QED
      BY <1>1, <1>2, FirstOfNat
  <1>4. PICK x \in Ways : f[x].stamp = First(stamps)
    BY <1>3
  <1>5. x \in oldest
    BY <1>3, <1>4
  <1>6. oldest \subseteq Nat
    BY GeometryFacts
  <1>7. First(oldest) \in oldest
    <2> HIDE DEF oldest
    <2> QED
      BY <1>5, <1>6, FirstOfNat
  <1> QED
    BY <1>7

\* A hit writes the way that holds the line.
LEMMA HitTakes ==
    ASSUME clock \in Nat, AllOrdered(way, clock), NEW line \in Lines, NEW type,
           Hit(line, type)
    PROVE  \E w \in Ways :
             /\ Accessed(way, way', line, w, clock)
             /\ way'[SetOf(line)][w].dirty <=>
                    \/ type = "write"
                    \/ /\ w \in Holding(way[SetOf(line)], TagOf(line))
                       /\ way[SetOf(line)][w].dirty
             /\ answer' = [op |-> "access", line |-> line, hit |-> TRUE, wb |-> NoLine]
             /\ Holding(way[SetOf(line)], TagOf(line)) # {}
  <1>1. PICK a, n, s : a = way /\ n = clock /\ s = SetOf(line)
    OBVIOUS
  <1> DEFINE f == a[s]
             ws == Holding(f, TagOf(line))
             w == First(ws)
             e == [tag |-> f[w].tag, stamp |-> n, valid |-> f[w].valid,
                   dirty |-> f[w].dirty \/ type = "write"]
  <1>2. Matches(line) = ws
    BY <1>1 DEF Matches, Holding
  <1>3. /\ ws # {}
        /\ way' = [a EXCEPT ![s][w].stamp = n, ![s][w].dirty = @ \/ type = "write"]
        /\ answer' = [op |-> "access", line |-> line, hit |-> TRUE, wb |-> NoLine]
    BY <1>1, <1>2 DEF Hit
  <1>4. a \in [Sets -> [Ways -> Way]] /\ s \in Sets /\ Ordered(f, s, n) /\ n \in Nat
    BY <1>1, GeometryFacts DEF AllOrdered
  <1>5. ws \subseteq Nat
    BY GeometryFacts DEF Holding
  <1>6. w \in ws
    <2> HIDE DEF ws
    <2> QED
      BY <1>3, <1>5, FirstOfNat
  <1> HIDE DEF w
  <1>7. w \in Ways /\ f[w].valid /\ f[w].tag = TagOf(line) /\ f[w] \in Way
    BY <1>4, <1>6 DEF Holding
  <1>8. e \in Way
    BY <1>4, <1>7 DEF Way
  <1>9. way' = [a EXCEPT ![s][w] = e]
    <2>1. PICK b : b = [a EXCEPT ![s][w].stamp = n]
      OBVIOUS
    <2>2. way' = [b EXCEPT ![s][w].dirty = @ \/ type = "write"]
      BY <1>3, <2>1
    <2>3. b = [a EXCEPT ![s][w] = [f[w] EXCEPT !.stamp = n]]
      BY <1>4, <1>7, <2>1
    <2>4. b[s][w] = [f[w] EXCEPT !.stamp = n] /\ b \in [Sets -> [Ways -> Way]]
      BY <1>4, <1>7, <2>3 DEF Way
    <2>5. [b[s][w] EXCEPT !.dirty = @ \/ type = "write"] = e
      <3>1. PICK h, d : h = f[w] /\ d = (f[w].dirty \/ type = "write")
        OBVIOUS
      <3>2. h = [tag |-> h.tag, stamp |-> h.stamp, valid |-> h.valid, dirty |-> h.dirty]
        BY <1>7, <3>1 DEF Way
      <3>3. b[s][w] = [tag |-> h.tag, stamp |-> n, valid |-> h.valid, dirty |-> h.dirty]
        BY <2>4, <3>1, <3>2
      <3>4. e = [tag |-> h.tag, stamp |-> n, valid |-> h.valid, dirty |-> d]
        BY <3>1
      <3>5. (b[s][w].dirty \/ type = "write") = d
        BY <3>1, <3>3
      <3> QED
        BY <3>3, <3>4, <3>5
    <2>6. way' = [b EXCEPT ![s][w] = e]
      BY <1>4, <1>7, <2>2, <2>4, <2>5
    <2> HIDE DEF e
    <2> QED
      BY <1>4, <1>7, <2>3, <2>6
  <1>10. /\ Changes(a, way', s)
         /\ way'[s] \in [Ways -> Way] /\ way'[s][w] = e
         /\ \A v \in Ways \ {w} : way'[s][v] = f[v]
    <2> HIDE DEF e
    <2> QED
      BY <1>4, <1>7, <1>8, <1>9 DEF Changes
  <1>11. \A v \in Ways \ {w} : f[v].valid => f[v].tag # TagOf(line)
    BY <1>4, <1>7 DEF Ordered
  <1>12. Touched(f, w, TagOf(line), n, way'[s])
    BY <1>4, <1>7, <1>10, <1>11 DEF Touched
  <1>13. Accessed(a, way', line, w, n)
    BY <1>1, <1>7, <1>10, <1>12 DEF Accessed, Taken
  <1>14. way'[s][w].dirty <=> type = "write" \/ (w \in ws /\ f[w].dirty)
    <2>1. e.dirty = (f[w].dirty \/ type = "write")
      OBVIOUS
    <2>2. way'[s][w].dirty = (f[w].dirty \/ type = "write")
      BY <1>10, <2>1
    <2> QED
      BY <1>6, <2>2, Zenon
  <1> QED
    BY <1>1, <1>3, <1>7, <1>13, <1>14

\* A miss takes a free way, or the oldest of a full set.
LEMMA MissTakes ==
    ASSUME clock \in Nat, AllOrdered(way, clock), NEW line \in Lines, NEW type,
           Miss(line, type)
    PROVE  \E w \in Ways :
             /\ Accessed(way, way', line, w, clock)
             /\ way'[SetOf(line)][w].dirty <=>
                    \/ type = "write"
                    \/ /\ w \in Holding(way[SetOf(line)], TagOf(line))
                       /\ way[SetOf(line)][w].dirty
             /\ answer' = [op |-> "access", line |-> line, hit |-> FALSE,
                           wb |-> IF way[SetOf(line)][w].valid /\ way[SetOf(line)][w].dirty
                                  THEN LineOf(SetOf(line), way[SetOf(line)][w].tag)
                                  ELSE NoLine]
             /\ Holding(way[SetOf(line)], TagOf(line)) = {}
  <1>1. PICK a, n, s : a = way /\ n = clock /\ s = SetOf(line)
    OBVIOUS
  <1> DEFINE f == a[s]
             free == {x \in Ways : ~ f[x].valid}
             old == First({x \in Ways : \A v \in Ways : f[x].stamp <= f[v].stamp})
             w == IF free # {} THEN First(free) ELSE old
             e == [tag |-> TagOf(line), stamp |-> n, valid |-> TRUE, dirty |-> type = "write"]
  <1>2. Matches(line) = Holding(f, TagOf(line)) /\ Free(s) = free /\ Oldest(s) = old
    BY <1>1 DEF Matches, Holding, Free, Oldest
  <1>3. /\ Holding(f, TagOf(line)) = {}
        /\ way' = [a EXCEPT ![s][w] = e]
        /\ answer' = [op |-> "access", line |-> line, hit |-> FALSE,
                      wb |-> IF free = {} /\ f[w].dirty THEN LineOf(s, f[w].tag) ELSE NoLine]
    <2> HIDE DEF free, old
    <2> QED
      BY <1>1, <1>2 DEF Miss
  <1>4. a \in [Sets -> [Ways -> Way]] /\ s \in Sets /\ Ordered(f, s, n) /\ n \in Nat
    BY <1>1, GeometryFacts DEF AllOrdered
  <1>5. free # {} => w \in Ways /\ ~ f[w].valid
    <2>1. free \subseteq Nat
      BY GeometryFacts
    <2>2. free # {} => First(free) \in free
      <3> HIDE DEF free
      <3> QED
        BY <2>1, FirstOfNat
    <2> QED
      BY <2>2
  <1>6. free = {} => /\ w \in Ways
                     /\ \A v \in Ways : f[v].valid /\ f[w].stamp <= f[v].stamp
    <2>1. f \in [Ways -> Way]
      BY <1>4
    <2>2. old \in Ways /\ \A v \in Ways : f[old].stamp <= f[v].stamp
      <3> HIDE DEF f
      <3> QED
        BY <2>1, OldestFacts
    <2> HIDE DEF old
    <2> QED
      BY <2>2
  <1> HIDE DEF w
  <1>7. w \in Ways /\ (free = {} <=> f[w].valid)
    BY <1>5, <1>6
  <1>8. e \in Way
    BY <1>4, GeometryFacts DEF Way
  <1>9. /\ Changes(a, way', s)
        /\ way'[s] \in [Ways -> Way] /\ way'[s][w] = e
        /\ \A v \in Ways \ {w} : way'[s][v] = f[v]
    <2> HIDE DEF e
    <2> QED
      BY <1>3, <1>4, <1>7, <1>8 DEF Changes
  <1>10. \A v \in Ways \ {w} : f[v].valid => f[v].tag # TagOf(line)
    BY <1>3 DEF Holding
  <1>11. Touched(f, w, TagOf(line), n, way'[s])
    BY <1>4, <1>7, <1>9, <1>10 DEF Touched
  <1>12. Taken(f, w, TagOf(line))
    BY <1>3, <1>5, <1>6 DEF Taken
  <1>13. Accessed(a, way', line, w, n)
    BY <1>1, <1>9, <1>11, <1>12 DEF Accessed
  <1>14. way'[s][w].dirty <=> type = "write" \/ (w \in Holding(f, TagOf(line)) /\ f[w].dirty)
    <2>1. e.dirty = (type = "write")
      OBVIOUS
    <2>2. way'[s][w].dirty = (type = "write")
      BY <1>9, <2>1
    <2>3. w \notin Holding(f, TagOf(line))
      BY <1>3
    <2> QED
      BY <2>2, <2>3, Zenon
  <1> QED
    BY <1>1, <1>3, <1>7, <1>13, <1>14
-----------------------------------------------------------------------------
\* The inductive invariant: no stamp is ahead of the clock, and the ways are ordered.
LevelInv == clock \in Nat /\ AllOrdered(way, clock)

\* The mapping of the specification, by the operators of this module.
LEMMA LevelIsMapped == LevelOf = LevelIn(way) /\ LevelOf' = LevelIn(way')
  BY DEF LevelOf, RankOf, Holders, LevelIn, RankIn, DirtyIn, Holding, Newer

LEMMA LevelInit == Init => LevelInv /\ Abstract!Init
  <1> SUFFICES ASSUME Init PROVE LevelInv /\ Abstract!Init
    OBVIOUS
  <1> DEFINE none == [tag |-> 0, stamp |-> 0, valid |-> FALSE, dirty |-> FALSE]
  <1>1. PICK a : a = way
    OBVIOUS
  <1>2. /\ a = [s \in Sets |-> [w \in Ways |-> none]] /\ clock = 1
        /\ answer = [op |-> "none"]
    BY <1>1 DEF Init
  <1>3. none \in Way
    BY DEF Way
  <1>4. a \in [Sets -> [Ways -> Way]] /\ \A s \in Sets, w \in Ways : ~ a[s][w].valid
    BY <1>2, <1>3
  <1>5. AllOrdered(a, 1)
    BY <1>4 DEF AllOrdered, Ordered
  <1>6. ASSUME NEW l \in Lines
        PROVE  RankIn(a[SetOf(l)], TagOf(l)) = 0 /\ ~ DirtyIn(a[SetOf(l)], TagOf(l))
    <2>1. Holding(a[SetOf(l)], TagOf(l)) = {}
      BY <1>4, GeometryFacts DEF Holding
    <2> QED
      BY <2>1 DEF RankIn, DirtyIn
  <1>7. LevelIn(a) = Abstract!EmptyLevel
    BY <1>6 DEF LevelIn, Abstract!EmptyLevel
  <1> QED
    BY <1>1, <1>2, <1>5, <1>7, LevelIsMapped DEF LevelInv, Abstract!Init

LEMMA AccessStep ==
    ASSUME LevelInv, NEW line \in Lines, NEW type \in AccessType, AccessLine(line, type)
    PROVE  LevelInv' /\ Abstract!AccessLine(LevelOf, line, type)
  <1>1. clock \in Nat /\ AllOrdered(way, clock) /\ clock' = clock + 1
    BY DEF LevelInv, AccessLine
  <1>2. PICK w \in Ways :
          /\ Accessed(way, way', line, w, clock)
          /\ way'[SetOf(line)][w].dirty <=>
                 \/ type = "write"
                 \/ /\ w \in Holding(way[SetOf(line)], TagOf(line))
                    /\ way[SetOf(line)][w].dirty
          /\ answer' = [op |-> "access", line |-> line,
                hit |-> Holding(way[SetOf(line)], TagOf(line)) # {},
                wb  |-> IF /\ Holding(way[SetOf(line)], TagOf(line)) = {}
                           /\ way[SetOf(line)][w].valid /\ way[SetOf(line)][w].dirty
                        THEN LineOf(SetOf(line), way[SetOf(line)][w].tag) ELSE NoLine]
    <2>1. CASE Hit(line, type)
      BY <1>1, <2>1, HitTakes
    <2>2. CASE Miss(line, type)
      BY <1>1, <2>2, MissTakes
    <2> QED
      BY <2>1, <2>2 DEF AccessLine
  <1> DEFINE o == Abstract!Access(Abstract!Geom, LevelIn(way), line, type)
  <1>3. AllOrdered(way', clock + 1)
    BY <1>1, <1>2, AccessKeepsOrder
  <1>4. LevelIn(way').rank = Abstract!RankAfter(Abstract!Geom, LevelIn(way), line)
    BY <1>1, <1>2, AccessRanks
  <1>5. LevelIn(way').dirty = Abstract!DirtyAfter(Abstract!Geom, LevelIn(way), line, type)
    BY <1>1, <1>2, AccessDirty
  <1>6. LevelIn(way') = [rank |-> LevelIn(way').rank, dirty |-> LevelIn(way').dirty]
    BY DEF LevelIn
  <1>7. o.level = [rank  |-> Abstract!RankAfter(Abstract!Geom, LevelIn(way), line),
                   dirty |-> Abstract!DirtyAfter(Abstract!Geom, LevelIn(way), line, type)]
    BY DEF Abstract!Access
  <1>8. /\ o.hit = (Holding(way[SetOf(line)], TagOf(line)) # {})
        /\ o.wb = IF /\ Holding(way[SetOf(line)], TagOf(line)) = {}
                     /\ way[SetOf(line)][w].valid /\ way[SetOf(line)][w].dirty
                  THEN LineOf(SetOf(line), way[SetOf(line)][w].tag) ELSE NoLine
    <2>1. Taken(way[SetOf(line)], w, TagOf(line))
      BY <1>2 DEF Accessed
    <2> QED
      BY <1>1, <2>1, AccessWritesBack
  <1> HIDE DEF o
  <1>9. answer' = [op |-> "access", line |-> line, hit |-> o.hit, wb |-> o.wb]
    BY <1>2, <1>8
  <1>10. LevelIn(way') = o.level
    BY <1>4, <1>5, <1>6, <1>7
  <1>11. LevelInv'
    BY <1>1, <1>3 DEF LevelInv
  <1> QED
    BY <1>9, <1>10, <1>11, LevelIsMapped DEF Abstract!AccessLine, o

LEMMA InvalidateStep ==
    ASSUME LevelInv, NEW line \in Lines, Invalidate(line)
    PROVE  LevelInv' /\ Abstract!Invalidate(LevelOf, line)
  <1>1. PICK a, n, s : a = way /\ n = clock /\ s = SetOf(line)
    OBVIOUS
  <1> DEFINE f == a[s]
             ws == Holding(f, TagOf(line))
             w == First(ws)
             d == Abstract!Drop(Abstract!Geom, LevelIn(a), line)
  <1>2. Matches(line) = ws
    BY <1>1 DEF Matches, Holding
  <1>3. /\ IF ws = {} THEN way' = a
           ELSE way' = [a EXCEPT ![s][w].valid = FALSE, ![s][w].dirty = FALSE]
        /\ answer' = [op |-> "invalidate", line |-> line, dirty |-> ws # {} /\ f[w].dirty]
        /\ clock' = n
    BY <1>1, <1>2 DEF Invalidate
  <1>4. /\ n \in Nat /\ AllOrdered(a, n) /\ a \in [Sets -> [Ways -> Way]]
        /\ s \in Sets /\ Ordered(f, s, n)
    BY <1>1, GeometryFacts DEF LevelInv, AllOrdered
  <1>5. d.wasDirty = (line \in LevelIn(a).dirty)
    BY DEF Abstract!Drop
  <1>6. CASE ws = {}
    <2>1. way' = a /\ LevelIn(a) = d.level
      BY <1>1, <1>3, <1>4, <1>6, DropNothing
    <2>2. line \notin LevelIn(a).dirty
      BY <1>1, <1>4, <1>6, ResidentFacts
    <2>3. answer' = [op |-> "invalidate", line |-> line, dirty |-> d.wasDirty]
      BY <1>3, <1>5, <1>6, <2>2
    <2> HIDE DEF d
    <2>4. LevelInv'
      BY <1>3, <1>4, <2>1 DEF LevelInv
    <2> QED
      BY <1>1, <2>1, <2>3, <2>4, LevelIsMapped DEF Abstract!Invalidate, d
  <1>7. CASE ws # {}
    <2>1. ws \subseteq Nat
      BY GeometryFacts DEF Holding
    <2>2. w \in ws
      <3> HIDE DEF ws
      <3> QED
        BY <1>7, <2>1, FirstOfNat
    <2> HIDE DEF w
    <2>3. w \in Ways /\ f[w] \in Way
      BY <1>4, <2>2 DEF Holding
    <2>4. PICK b : b = [a EXCEPT ![s][w].valid = FALSE]
      OBVIOUS
    <2>5. way' = [b EXCEPT ![s][w].dirty = FALSE]
      BY <1>3, <1>7, <2>4
    <2>6. b \in [Sets -> [Ways -> Way]] /\ b[s][w].valid = FALSE
          /\ \A t \in Sets, v \in Ways : t # s \/ v # w => b[t][v] = a[t][v]
      BY <1>4, <2>3, <2>4 DEF Way
    <2>7. way' \in [Sets -> [Ways -> Way]] /\ way'[s][w].valid = FALSE
          /\ \A t \in Sets, v \in Ways : t # s \/ v # w => way'[t][v] = b[t][v]
      <3>1. PICK e : e = [b[s][w] EXCEPT !.dirty = FALSE]
        OBVIOUS
      <3>2. e \in Way /\ e.valid = FALSE
        <4>1. PICK h : h = b[s][w]
          OBVIOUS
        <4>2. h \in Way /\ h.valid = FALSE
          BY <1>4, <2>3, <2>6, <4>1
        <4>3. e = [h EXCEPT !.dirty = FALSE]
          BY <3>1, <4>1
        <4> QED
          BY <4>2, <4>3 DEF Way
      <3>3. way' = [b EXCEPT ![s][w] = e]
        BY <1>4, <2>3, <2>5, <2>6, <3>1
      <3> QED
        BY <1>4, <2>3, <2>6, <3>2, <3>3
    <2>8. \A t \in Sets \ {s} : way'[t] = a[t]
      BY <1>4, <2>6, <2>7
    <2>9. Changes(a, way', s) /\ Dropped(f, w, way'[s])
      BY <1>4, <2>3, <2>6, <2>7, <2>8 DEF Changes, Dropped
    <2>10. LevelIn(way') = d.level
      BY <1>1, <1>4, <2>2, <2>9, DropRanks
    <2>11. Ordered(way'[s], s, n)
      BY <1>4, <2>9, DroppedSet
    <2>12. AllOrdered(way', n)
      BY <1>4, <2>9, <2>11, ChangeKeepsOrder
    <2>13. line \in LevelIn(a).dirty <=> f[w].dirty
      BY <1>1, <1>4, <2>2, ResidentFacts
    <2>14. f[w].dirty \in BOOLEAN
      BY <2>3 DEF Way
    <2>15. answer' = [op |-> "invalidate", line |-> line, dirty |-> d.wasDirty]
      BY <1>3, <1>5, <1>7, <2>13, <2>14
    <2> HIDE DEF d
    <2>16. LevelInv'
      BY <1>3, <1>4, <2>12 DEF LevelInv
    <2> QED
      BY <1>1, <2>10, <2>15, <2>16, LevelIsMapped DEF Abstract!Invalidate, d
  <1> QED
    BY <1>6, <1>7

\* Every step of a level is a step of the abstract one, or changes nothing of it.
LEMMA LevelStep ==
    ASSUME LevelInv, [Next]_vars
    PROVE  LevelInv' /\ [Abstract!Next]_(Abstract!vars)
  <1>1. CASE \E line \in Lines, type \in AccessType : AccessLine(line, type)
    <2>1. PICK line \in Lines, type \in AccessType : AccessLine(line, type)
      BY <1>1
    <2> QED
      BY <2>1, AccessStep DEF Abstract!Next, Abstract!AccessType, AccessType
  <1>2. CASE \E line \in Lines : Invalidate(line)
    <2>1. PICK line \in Lines : Invalidate(line)
      BY <1>2
    <2> QED
      BY <2>1, InvalidateStep DEF Abstract!Next
  <1>3. CASE ResetStats \/ UNCHANGED vars
    <2>1. way' = way /\ clock' = clock /\ answer' = answer
      BY <1>3 DEF ResetStats, vars
    <2>2. LevelOf' = LevelOf
      BY <2>1, LevelIsMapped
    <2> QED
      BY <2>1, <2>2 DEF LevelInv, Abstract!vars
  <1> QED
    BY <1>1, <1>2, <1>3 DEF Next

\* No way is stamped in the future, and in no set do two valid ways share a tag
\* or a stamp, so the oldest way is one way (CacheLevel::access).
THEOREM WaysAreOrdered == Spec => []LevelInv
  <1>1. LevelInv /\ [Next]_vars => LevelInv'
    BY LevelStep
  <1> QED
    BY <1>1, LevelInit, PTL DEF Spec

\* Ways and stamps implement true LRU: every access and every invalidation
\* answers as a level that only knows how recently each line was used, for
\* every geometry that init() accepts (CacheLevel in cache_model.hpp).
THEOREM WaysImplementLru == Spec => ImplementsLru
  <1>1. LevelInv /\ [Next]_vars => LevelInv' /\ [Abstract!Next]_(Abstract!vars)
    BY LevelStep
  <1> QED
    BY <1>1, LevelInit, PTL DEF Spec, ImplementsLru, Abstract!Spec
=============================================================================
