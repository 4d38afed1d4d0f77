---------------------------- MODULE ProbeProofs ----------------------------
(***************************************************************************)
(* The trackers, their scores, the epochs and the summary on disk, for      *)
(* every hash, depth, capacity, budget, stream of requests and moment of a  *)
(* kill.                                                                    *)
(***************************************************************************)
EXTENDS Probe, CommonProofs

CamEntry == [key : Keys, est : Nat]

\* The sketch of a slot whose rows have w counters.
Shape(s, w) ==
    /\ s = [width |-> s.width, rows |-> s.rows, cam |-> s.cam, since |-> s.since]
    /\ s.width = w /\ s.since \in Nat
    /\ s.rows \in [1..Depth -> [0..(w - 1) -> Nat]]
    /\ s.cam \in Seq(CamEntry)

\* What a key has in a row.
Cell(s, r, key) == s.rows[r][Place(s, r, key)]

\* Every row has counted at least the truth.
Covers(s, truth) == \A key \in DOMAIN truth, r \in 1..Depth : truth[key] <= Cell(s, r, key)

\* Honest, said row by row.
RowHonest(s) ==
    /\ \A j \in DOMAIN s.cam, r \in 1..Depth : s.cam[j].est <= Cell(s, r, s.cam[j].key)
    /\ \A j, m \in DOMAIN s.cam : s.cam[j].key = s.cam[m].key => j = m

-----------------------------------------------------------------------------
\* A set of natural numbers that is not empty has a minimum.
LEMMA MinOfNat ==
    ASSUME NEW S, S \subseteq Nat, S # {}
    PROVE  Min(S) \in S /\ \A x \in S : Min(S) <= x
  BY LeastOfNat DEF Min

\* Every key has one place in every row.
LEMMA PlaceInRow ==
    ASSUME NEW w \in Nat \ {0}, NEW s, Shape(s, w), NEW key \in Keys, NEW r \in 1..Depth
    PROVE  Place(s, r, key) \in 0..(w - 1) /\ Cell(s, r, key) \in Nat
  <1>1. Hash(key, r) \in Nat
    BY ProbeAssumption
  <1>2. Place(s, r, key) \in 0..(w - 1)
    BY <1>1 DEF Place, Shape
  <1> QED
    BY <1>2 DEF Shape, Cell

\* An estimate is one of the key's cells and no larger than any of them.
LEMMA EstimateIsLeast ==
    ASSUME NEW w \in Nat \ {0}, NEW s, Shape(s, w), NEW key \in Keys
    PROVE  /\ Estimate(s, key) \in Nat
           /\ \E r \in 1..Depth : Estimate(s, key) = Cell(s, r, key)
           /\ \A r \in 1..Depth : Estimate(s, key) <= Cell(s, r, key)
  <1>1. DOMAIN s.rows = 1..Depth /\ 1 \in 1..Depth
    BY ProbeAssumption DEF Shape
  <1>2. Cells(s, key) = {Cell(s, r, key) : r \in 1..Depth}
    BY <1>1 DEF Cells, Cell
  <1>5. \A r \in 1..Depth : Cell(s, r, key) \in Nat
    BY PlaceInRow
  <1>3. Cells(s, key) \subseteq Nat /\ Cells(s, key) # {}
    BY <1>1, <1>2, <1>5
  <1>4. /\ Estimate(s, key) \in Cells(s, key)
        /\ \A x \in Cells(s, key) : Estimate(s, key) <= x
    BY <1>3, LeastOfNat DEF Estimate, Min
  <1> QED
    BY <1>2, <1>3, <1>4

\* Counting adds one in every row at the key's place and takes nothing away.
LEMMA CountStep ==
    ASSUME NEW w \in Nat \ {0}, NEW s, Shape(s, w), NEW key \in Keys
    PROVE  /\ Shape(Count(s, key), w)
           /\ Count(s, key).cam = s.cam
           /\ \A q \in Keys, r \in 1..Depth :
                 /\ Cell(s, r, q) <= Cell(Count(s, key), r, q)
                 /\ q = key => Cell(Count(s, key), r, q) = Cell(s, r, q) + 1
  <1> DEFINE t == Count(s, key)
  <1>1. /\ t.width = s.width /\ t.cam = s.cam /\ t.since = s.since
        /\ t = [width |-> t.width, rows |-> t.rows, cam |-> t.cam, since |-> t.since]
        /\ t.rows = [r \in 1..Depth |-> [s.rows[r] EXCEPT ![Place(s, r, key)] = @ + 1]]
    BY DEF Count, Shape
  <1>2. t.rows \in [1..Depth -> [0..(w - 1) -> Nat]]
    <2>1. ASSUME NEW r \in 1..Depth
          PROVE  [s.rows[r] EXCEPT ![Place(s, r, key)] = @ + 1] \in [0..(w - 1) -> Nat]
      <3>1. s.rows[r] \in [0..(w - 1) -> Nat]
        BY DEF Shape
      <3>2. Place(s, r, key) \in 0..(w - 1)
        BY PlaceInRow
      <3> DEFINE row == s.rows[r]
                 place == Place(s, r, key)
      <3>3. row \in [0..(w - 1) -> Nat] /\ place \in 0..(w - 1)
        BY <3>1, <3>2
      <3> HIDE DEF row, place
      <3>4. [row EXCEPT ![place] = @ + 1] \in [0..(w - 1) -> Nat]
        BY <3>3
      <3> QED
        BY <3>4 DEF row, place
    <2> QED
      BY <1>1, <2>1
  <1>3. Shape(t, w)
    BY <1>1, <1>2 DEF Shape
  <1>4. ASSUME NEW q \in Keys, NEW r \in 1..Depth
        PROVE  Cell(t, r, q) = IF Place(s, r, q) = Place(s, r, key)
                               THEN Cell(s, r, q) + 1 ELSE Cell(s, r, q)
    <2>1. Place(t, r, q) = Place(s, r, q)
      BY <1>1 DEF Place
    <2>2. Place(s, r, q) \in 0..(w - 1) /\ Place(s, r, key) \in 0..(w - 1)
      BY PlaceInRow
    <2>3. s.rows[r] \in [0..(w - 1) -> Nat]
      BY DEF Shape
    <2> QED
      BY <1>1, <2>1, <2>2, <2>3 DEF Cell
  <1>5. \A q \in Keys, r \in 1..Depth : Cell(s, r, q) \in Nat
    BY PlaceInRow
  <1> QED
    BY <1>1, <1>3, <1>4, <1>5

\* A refresh writes the current estimates into the CAM and leaves the rest.
LEMMA RefreshStep ==
    ASSUME NEW w \in Nat \ {0}, NEW s, Shape(s, w), RowHonest(s)
    PROVE  /\ Shape(Aged(s), w) /\ RowHonest(Aged(s))
           /\ Aged(s).rows = s.rows /\ CamKeys(Aged(s)) = CamKeys(s)
  <1> DEFINE t == Aged(s)
             fresh == [i \in DOMAIN s.cam |->
                         [key |-> s.cam[i].key, est |-> Estimate(s, s.cam[i].key)]]
  <1>1. /\ t.width = s.width /\ t.rows = s.rows /\ t.since \in Nat
        /\ t = [width |-> t.width, rows |-> t.rows, cam |-> t.cam, since |-> t.since]
        /\ t.cam = s.cam \/ t.cam = fresh
    <2> DEFINE named == [width |-> s.width, rows |-> s.rows, cam |-> s.cam, since |-> s.since]
    <2>1. s = named /\ s.since \in Nat
      BY DEF Shape
    <2>2. CASE RefreshDue(s)
      <3>1. t = [RefreshCam(s) EXCEPT !.since = 0]
        BY <2>2 DEF Aged
      <3>2. RefreshCam(s) = [s EXCEPT !.cam = fresh]
        BY <2>1 DEF RefreshCam
      <3>3. t = [width |-> s.width, rows |-> s.rows, cam |-> fresh, since |-> 0]
        BY <2>1, <3>1, <3>2
      <3> QED
        BY <3>3
    <2>3. CASE ~ RefreshDue(s)
      <3>1. t = [s EXCEPT !.since = @ + 1]
        BY <2>3 DEF Aged
      <3>2. t = [width |-> s.width, rows |-> s.rows, cam |-> s.cam, since |-> s.since + 1]
        BY <2>1, <3>1
      <3> QED
        BY <2>1, <3>2
    <2> QED
      BY <2>2, <2>3
  <1>2. /\ Len(s.cam) \in Nat /\ DOMAIN s.cam = 1..Len(s.cam)
        /\ \A i \in DOMAIN s.cam : s.cam[i].key \in Keys /\ s.cam[i].est \in Nat
    <2>1. s.cam \in Seq(CamEntry)
      BY DEF Shape
    <2>2. /\ Len(s.cam) \in Nat /\ DOMAIN s.cam = 1..Len(s.cam)
          /\ \A i \in DOMAIN s.cam : s.cam[i] \in CamEntry
      BY <2>1, LenProperties, ElementOfSeq
    <2> QED
      BY <2>2 DEF CamEntry
  <1>3. \A i \in DOMAIN s.cam : fresh[i] \in CamEntry
    BY <1>2, EstimateIsLeast DEF CamEntry
  <1>4. fresh \in Seq(CamEntry) /\ DOMAIN fresh = DOMAIN s.cam
    <2>1. fresh \in [1..Len(s.cam) -> CamEntry]
      BY <1>2, <1>3
    <2> HIDE DEF fresh
    <2> QED
      BY <1>2, <2>1, SeqDef
  <1>5. Shape(t, w)
    BY <1>1, <1>4 DEF Shape
  <1>6. \A r, q : Cell(t, r, q) = Cell(s, r, q)
    BY <1>1 DEF Cell, Place
  <1>7. \A j \in DOMAIN s.cam, r \in 1..Depth : fresh[j].est <= Cell(s, r, fresh[j].key)
    BY <1>2, EstimateIsLeast
  <1>8. RowHonest(t)
    BY <1>1, <1>2, <1>6, <1>7 DEF RowHonest
  <1>9. CamKeys(t) = CamKeys(s)
    <2>1. DOMAIN t.cam = DOMAIN s.cam /\ \A i \in DOMAIN s.cam : t.cam[i].key = s.cam[i].key
      BY <1>1, <1>4
    <2> HIDE DEF t
    <2> QED
      BY <2>1 DEF CamKeys
  <1> QED
    BY <1>1, <1>5, <1>8, <1>9

-----------------------------------------------------------------------------
\* What a CAM is made of.
LEMMA CamFacts ==
    ASSUME NEW w, NEW s, Shape(s, w)
    PROVE  /\ s.cam \in Seq(CamEntry)
           /\ Len(s.cam) \in Nat /\ DOMAIN s.cam = 1..Len(s.cam)
           /\ \A i \in DOMAIN s.cam : /\ s.cam[i] \in CamEntry
                                      /\ s.cam[i].key \in Keys /\ s.cam[i].est \in Nat
  <1>1. s.cam \in Seq(CamEntry)
    BY DEF Shape
  <1>2. /\ Len(s.cam) \in Nat /\ DOMAIN s.cam = 1..Len(s.cam)
        /\ \A i \in DOMAIN s.cam : s.cam[i] \in CamEntry
    BY <1>1, LenProperties, ElementOfSeq
  <1> QED
    BY <1>1, <1>2 DEF CamEntry

\* The place of the smallest cached estimate is a place of the CAM.
LEMMA MinPlaceInCam ==
    ASSUME NEW w, NEW s, Shape(s, w), s.cam # <<>>
    PROVE  MinPlace(s) \in DOMAIN s.cam
  <1> DEFINE ests == {s.cam[i].est : i \in DOMAIN s.cam}
             least == {i \in DOMAIN s.cam : \A j \in DOMAIN s.cam : s.cam[i].est <= s.cam[j].est}
  <1>1. Len(s.cam) \in Nat \ {0}
    BY EmptySeq, CamFacts
  <1>2. ests \subseteq Nat /\ ests # {}
    <2>1. 1 \in DOMAIN s.cam
      BY <1>1, CamFacts
    <2> QED
      BY <2>1, CamFacts
  <1>3. PICK i \in DOMAIN s.cam : s.cam[i].est = Min(ests)
    <2>1. Min(ests) \in ests
      BY <1>2, MinOfNat
    <2> QED
      BY <2>1
  <1>4. \A x \in ests : Min(ests) <= x
    BY <1>2, MinOfNat
  <1>5. i \in least
    BY <1>3, <1>4
  <1>6. least \subseteq Nat
    BY CamFacts
  <1>7. Min(least) \in least
    BY <1>5, <1>6, MinOfNat
  <1> QED
    BY <1>7 DEF MinPlace

\* The sketch with another entry at one place of its CAM.
Replaced(s, m, key, est) ==
    [width |-> s.width, rows |-> s.rows,
     cam |-> [s.cam EXCEPT ![m] = [key |-> key, est |-> est]], since |-> s.since]

\* A CAM changed in one place for a key that is new to it, or kept there.
LEMMA CamChanged ==
    ASSUME NEW w, NEW s, Shape(s, w), RowHonest(s),
           NEW m \in DOMAIN s.cam, NEW key \in Keys, NEW est \in Nat,
           \A r \in 1..Depth : est <= Cell(s, r, key),
           \A j \in DOMAIN s.cam : s.cam[j].key = key => j = m
    PROVE  LET t == Replaced(s, m, key, est)
           IN  /\ Shape(t, w) /\ RowHonest(t) /\ t.rows = s.rows /\ t.width = s.width
               /\ key \in CamKeys(t) /\ CamKeys(t) \ CamKeys(s) \subseteq {key}
               /\ CamKeys(s) \ CamKeys(t) \subseteq {s.cam[m].key}
  <1> DEFINE t == Replaced(s, m, key, est)
             e == [key |-> key, est |-> est]
  <1> SUFFICES /\ Shape(t, w) /\ RowHonest(t) /\ t.rows = s.rows /\ t.width = s.width
               /\ key \in CamKeys(t) /\ CamKeys(t) \ CamKeys(s) \subseteq {key}
               /\ CamKeys(s) \ CamKeys(t) \subseteq {s.cam[m].key}
    OBVIOUS
  <1>0. /\ t.cam = [s.cam EXCEPT ![m] = e]
        /\ t.rows = s.rows /\ t.width = s.width /\ t.since = s.since
        /\ t = [width |-> t.width, rows |-> t.rows, cam |-> t.cam, since |-> t.since]
    BY DEF Replaced
  <1> HIDE DEF t
  <1>1. e \in CamEntry
    BY DEF CamEntry
  <1>2. m \in 1..Len(s.cam)
    BY CamFacts
  <1>3. /\ t.cam \in Seq(CamEntry) /\ Len(t.cam) = Len(s.cam)
        /\ \A j \in 1..Len(s.cam) : t.cam[j] = IF j = m THEN e ELSE s.cam[j]
    <2> HIDE DEF e
    <2> QED
      BY <1>0, <1>1, <1>2, CamFacts, ExceptSeq
  <1>4. Shape(t, w)
    BY <1>0, <1>3 DEF Shape
  <1>5. \A r, q : Cell(t, r, q) = Cell(s, r, q)
    BY <1>0 DEF Cell, Place
  <1>6. DOMAIN t.cam = DOMAIN s.cam /\ DOMAIN s.cam = 1..Len(s.cam)
    BY <1>3, <1>4, CamFacts
  <1>7. ASSUME NEW j \in DOMAIN t.cam, NEW r \in 1..Depth
        PROVE  t.cam[j].est <= Cell(t, r, t.cam[j].key)
    BY <1>3, <1>5, <1>6 DEF RowHonest
  <1>8. ASSUME NEW j \in DOMAIN t.cam, NEW n \in DOMAIN t.cam, t.cam[j].key = t.cam[n].key
        PROVE  j = n
    <2>1. \A i \in DOMAIN t.cam : t.cam[i].key = IF i = m THEN key ELSE s.cam[i].key
      BY <1>3, <1>6
    <2>2. \A i, o \in DOMAIN s.cam : s.cam[i].key = s.cam[o].key => i = o
      BY DEF RowHonest
    <2> QED
      BY <1>6, <1>8, <2>1, <2>2
  <1>9. RowHonest(t)
    BY <1>7, <1>8 DEF RowHonest
  <1>10. /\ key \in CamKeys(t) /\ CamKeys(t) \ CamKeys(s) \subseteq {key}
         /\ CamKeys(s) \ CamKeys(t) \subseteq {s.cam[m].key}
    <2>1. \A i \in DOMAIN s.cam : t.cam[i].key = IF i = m THEN key ELSE s.cam[i].key
      BY <1>3, <1>6
    <2> QED
      BY <1>6, <2>1 DEF CamKeys
  <1> QED
    BY <1>0, <1>4, <1>9, <1>10

\* What an offer may do to the keys of a CAM: only the key offered enters, and
\* what leaves for it is estimated lower.
Yields(s, t, key, est) ==
    /\ CamKeys(t) \ CamKeys(s) \subseteq {key}
    /\ \A old \in CamKeys(s) \ CamKeys(t) : est > Estimate(s, old)

\* Offering a key with an estimate that is no more than its cells.
LEMMA OfferStep ==
    ASSUME NEW w \in Nat \ {0}, NEW s, Shape(s, w), RowHonest(s),
           NEW k \in Nat \ {0}, NEW key \in Keys, NEW est \in Nat,
           \A r \in 1..Depth : est <= Cell(s, r, key)
    PROVE  LET t == OfferToCam(s, k, key, est)
           IN  /\ Shape(t, w) /\ RowHonest(t) /\ t.rows = s.rows /\ t.width = s.width
               /\ Yields(s, t, key, est)
  <1> DEFINE t == OfferToCam(s, k, key, est)
             e == [key |-> key, est |-> est]
             places == CamPlaces(s, key)
  <1> SUFFICES /\ Shape(t, w) /\ RowHonest(t) /\ t.rows = s.rows /\ t.width = s.width
               /\ Yields(s, t, key, est)
    OBVIOUS
  <1>1. s = [width |-> s.width, rows |-> s.rows, cam |-> s.cam, since |-> s.since]
    BY DEF Shape
  <1>2. CASE places # {}
    <2> DEFINE m == Min(places)
    <2>1. places \subseteq Nat
      BY CamFacts DEF CamPlaces
    <2>2. m \in places
      BY <1>2, <2>1, MinOfNat
    <2>3. m \in DOMAIN s.cam /\ s.cam[m].key = key
      BY <2>2 DEF CamPlaces
    <2>4. \A j \in DOMAIN s.cam : s.cam[j].key = key => j = m
      BY <2>3 DEF RowHonest
    <2>5. t = [s EXCEPT !.cam = [i \in DOMAIN s.cam |-> IF i = m THEN e ELSE s.cam[i]]]
      BY <1>2, <1>1 DEF OfferToCam
    <2>6. [i \in DOMAIN s.cam |-> IF i = m THEN e ELSE s.cam[i]] = [s.cam EXCEPT ![m] = e]
      <3> HIDE DEF e, m
      <3> QED
        BY <2>3, CamFacts
    <2>7. t = [s EXCEPT !.cam = [s.cam EXCEPT ![m] = e]]
      BY <2>5, <2>6
    <2>8. t = Replaced(s, m, key, est)
      <3> HIDE DEF m, t
      <3> QED
        BY <1>1, <2>7 DEF Replaced
    <2> HIDE DEF m, t
    <2>9. /\ Shape(t, w) /\ RowHonest(t) /\ t.rows = s.rows /\ t.width = s.width
          /\ key \in CamKeys(t) /\ CamKeys(t) \ CamKeys(s) \subseteq {key}
          /\ CamKeys(s) \ CamKeys(t) \subseteq {key}
      BY <2>3, <2>4, <2>8, CamChanged
    <2> QED
      BY <2>9 DEF Yields
  <1>3. CASE places = {} /\ Len(s.cam) < k
    <2>1. t = [s EXCEPT !.cam = Append(s.cam, e)]
      BY <1>3, <1>1 DEF OfferToCam
    <2>2. t = [width |-> s.width, rows |-> s.rows, since |-> s.since,
               cam |-> Append(s.cam, e)]
      <3> HIDE DEF e, t
      <3> QED
        BY <1>1, <2>1
    <2>3. e \in CamEntry
      BY DEF CamEntry
    <2>4. /\ t.cam \in Seq(CamEntry) /\ Len(t.cam) = Len(s.cam) + 1
          /\ \A j \in 1..Len(s.cam) : t.cam[j] = s.cam[j]
          /\ t.cam[Len(s.cam) + 1] = e
      <3>1. t.cam = Append(s.cam, e)
        BY <2>2
      <3> HIDE DEF e, t
      <3> QED
        BY <2>3, <3>1, CamFacts, AppendProperties
    <2>5. Shape(t, w)
      <3> HIDE DEF e, t
      <3> QED
        BY <2>2, <2>4 DEF Shape
    <2>6. \A r, q : Cell(t, r, q) = Cell(s, r, q)
      <3> HIDE DEF e, t
      <3> QED
        BY <2>2 DEF Cell, Place
    <2>7. /\ DOMAIN t.cam = 1..(Len(s.cam) + 1)
          /\ DOMAIN s.cam = 1..Len(s.cam) /\ Len(s.cam) \in Nat
      BY <2>4, <2>5, CamFacts
    <2>8. \A j \in DOMAIN s.cam : s.cam[j].key # key
      BY <1>3 DEF CamPlaces
    <2>9. \A j \in DOMAIN t.cam : \/ j \in DOMAIN s.cam /\ t.cam[j] = s.cam[j]
                                  \/ j = Len(s.cam) + 1 /\ t.cam[j] = e
      <3> HIDE DEF e, t
      <3> QED
        BY <2>4, <2>7
    <2>10. RowHonest(t)
      <3> HIDE DEF t
      <3> QED
        BY <2>6, <2>8, <2>9 DEF RowHonest
    <2>11. Yields(s, t, key, est)
      <3>1. \A j \in DOMAIN t.cam : t.cam[j].key = key \/ t.cam[j].key \in CamKeys(s)
        BY <2>9 DEF CamKeys
      <3>2. \A j \in DOMAIN s.cam : j \in DOMAIN t.cam /\ t.cam[j].key = s.cam[j].key
        <4> HIDE DEF e, t
        <4> QED
          BY <2>4, <2>7
      <3> HIDE DEF e, t
      <3>3. CamKeys(t) \ CamKeys(s) \subseteq {key} /\ CamKeys(s) \subseteq CamKeys(t)
        BY <3>1, <3>2 DEF CamKeys
      <3> QED
        BY <3>3 DEF Yields
    <2> QED
      BY <2>2, <2>5, <2>10, <2>11
  <1>4. CASE places = {} /\ ~ (Len(s.cam) < k)
    <2> DEFINE m == MinPlace(s)
               incumbent == Estimate(s, s.cam[m].key)
    <2>1. s.cam # <<>>
      BY <1>4, EmptySeq, CamFacts
    <2>2. m \in DOMAIN s.cam
      BY <2>1, MinPlaceInCam
    <2>3. t = IF est > incumbent THEN [s EXCEPT !.cam[m] = e]
              ELSE [s EXCEPT !.cam[m].est = incumbent]
      BY <1>4 DEF OfferToCam, Challenge
    <2>4. CASE est > incumbent
      <3>1. t = Replaced(s, m, key, est)
        <4> HIDE DEF t, m, incumbent
        <4> QED
          BY <1>1, <2>3, <2>4 DEF Replaced
      <3>2. \A j \in DOMAIN s.cam : s.cam[j].key = key => j = m
        BY <1>4 DEF CamPlaces
      <3> HIDE DEF t, m
      <3>3. /\ Shape(t, w) /\ RowHonest(t) /\ t.rows = s.rows /\ t.width = s.width
            /\ CamKeys(t) \ CamKeys(s) \subseteq {key}
            /\ CamKeys(s) \ CamKeys(t) \subseteq {s.cam[m].key}
        BY <2>2, <3>1, <3>2, CamChanged
      <3> QED
        BY <2>4, <3>3 DEF Yields
    <2>5. CASE ~ (est > incumbent)
      <3>1. /\ s.cam[m] = [key |-> s.cam[m].key, est |-> s.cam[m].est]
            /\ s.cam[m].key \in Keys
        <4> HIDE DEF m
        <4> QED
          BY <2>2, CamFacts DEF CamEntry
      <3>2. /\ incumbent \in Nat
            /\ \A r \in 1..Depth : incumbent <= Cell(s, r, s.cam[m].key)
        <4> HIDE DEF m
        <4> QED
          BY <3>1, EstimateIsLeast
      <3>3. t = Replaced(s, m, s.cam[m].key, incumbent)
        <4>1. t = [s EXCEPT !.cam[m].est = incumbent]
          <5> HIDE DEF t, m, incumbent
          <5> QED
            BY <2>3, <2>5
        <4>2. t = [s EXCEPT !.cam = [s.cam EXCEPT ![m] = [s.cam[m] EXCEPT !.est = incumbent]]]
          <5> HIDE DEF t, m, incumbent
          <5> QED
            BY <1>1, <2>2, <4>1
        <4>3. [s.cam[m] EXCEPT !.est = incumbent] = [key |-> s.cam[m].key, est |-> incumbent]
          <5> HIDE DEF m, incumbent
          <5> QED
            BY <3>1
        <4> HIDE DEF t, m, incumbent
        <4> QED
          BY <1>1, <4>2, <4>3 DEF Replaced
      <3>4. \A j \in DOMAIN s.cam : s.cam[j].key = s.cam[m].key => j = m
        BY <2>2 DEF RowHonest
      <3> HIDE DEF t, m, incumbent
      <3>5. /\ Shape(t, w) /\ RowHonest(t) /\ t.rows = s.rows /\ t.width = s.width
            /\ s.cam[m].key \in CamKeys(t)
            /\ CamKeys(t) \ CamKeys(s) \subseteq {s.cam[m].key}
            /\ CamKeys(s) \ CamKeys(t) \subseteq {s.cam[m].key}
        BY <2>2, <3>1, <3>2, <3>3, <3>4, CamChanged
      <3>6. s.cam[m].key \in CamKeys(s)
        BY <2>2 DEF CamKeys
      <3> QED
        BY <3>5, <3>6 DEF Yields
    <2> QED
      BY <2>4, <2>5
  <1> QED
    BY <1>2, <1>3, <1>4

\* What holds of a sketch whatever it has counted.
Kept(s, w) == Shape(s, w) /\ RowHonest(s)

\* An access keeps a sketch honest, counts its key in every row, and lets a key
\* out of the CAM for a hotter one only.
LEMMA SketchStep ==
    ASSUME NEW w \in Nat \ {0}, NEW s, Kept(s, w), NEW k \in Nat \ {0}, NEW key \in Keys
    PROVE  LET t == SketchAccess(s, k, key)
           IN  /\ Kept(t, w) /\ Outranked(s, t)
               /\ \A q \in Keys, r \in 1..Depth :
                     /\ Cell(s, r, q) \in Nat /\ Cell(t, r, q) \in Nat
                     /\ Cell(s, r, q) <= Cell(t, r, q)
                     /\ q = key => Cell(t, r, q) = Cell(s, r, q) + 1
  <1> DEFINE c == Count(s, key)
             a == Aged(c)
             est == Estimate(c, key)
             t == OfferToCam(a, k, key, est)
  <1>1. Shape(s, w) /\ RowHonest(s)
    BY DEF Kept
  <1>2. /\ Shape(c, w) /\ c.cam = s.cam
        /\ \A q \in Keys, r \in 1..Depth :
              /\ Cell(s, r, q) <= Cell(c, r, q)
              /\ q = key => Cell(c, r, q) = Cell(s, r, q) + 1
    BY <1>1, CountStep
  <1> HIDE DEF c
  <1>3. RowHonest(c)
    <2>1. \A j \in DOMAIN s.cam : s.cam[j].key \in Keys /\ s.cam[j].est \in Nat
      BY <1>1, CamFacts
    <2>2. \A j \in DOMAIN s.cam, r \in 1..Depth :
              /\ Cell(s, r, s.cam[j].key) \in Nat
              /\ Cell(c, r, s.cam[j].key) \in Nat
      BY <1>1, <1>2, <2>1, PlaceInRow
    <2> QED
      BY <1>1, <1>2, <2>1, <2>2 DEF RowHonest
  <1>4. Shape(a, w) /\ RowHonest(a) /\ a.rows = c.rows /\ CamKeys(a) = CamKeys(c)
    BY <1>2, <1>3, RefreshStep
  <1>5. a.width = w /\ c.width = w
    BY <1>2, <1>4 DEF Shape
  <1>6. est \in Nat /\ \A r \in 1..Depth : est <= Cell(c, r, key)
    BY <1>2, EstimateIsLeast
  <1> HIDE DEF a
  <1>12. \A q : /\ a.rows = c.rows /\ a.width = c.width => Estimate(a, q) = Estimate(c, q)
                /\ t.rows = a.rows /\ t.width = a.width => Estimate(t, q) = Estimate(a, q)
    <2> HIDE DEF t
    <2> QED
      BY DEF Estimate, Cells, Place
  <1>13. est = Estimate(c, key)
    OBVIOUS
  <1> HIDE DEF est
  <1>7. \A r, q : Cell(a, r, q) = Cell(c, r, q)
    BY <1>4, <1>5 DEF Cell, Place
  <1>8. /\ Shape(t, w) /\ RowHonest(t) /\ t.rows = a.rows /\ t.width = a.width
        /\ Yields(a, t, key, est)
    BY <1>4, <1>6, <1>7, OfferStep
  <1> HIDE DEF t
  <1>9. \A r, q : Cell(t, r, q) = Cell(c, r, q)
    BY <1>4, <1>5, <1>8 DEF Cell, Place
  <1>10. \A q \in Keys, r \in 1..Depth : Cell(s, r, q) \in Nat /\ Cell(c, r, q) \in Nat
    BY <1>1, <1>2, PlaceInRow
  <1>11. SketchAccess(s, k, key) = t
    BY DEF SketchAccess, t, a, est, c
  <1>14. Outranked(s, t)
    <2>1. CamKeys(a) = CamKeys(s)
      BY <1>2, <1>4 DEF CamKeys
    <2>2. \A q : Estimate(t, q) = Estimate(a, q) /\ Estimate(a, q) = Estimate(c, q)
      BY <1>4, <1>5, <1>8, <1>12
    <2> QED
      BY <1>8, <1>13, <2>1, <2>2 DEF Yields, Outranked
  <1> QED
    BY <1>2, <1>8, <1>9, <1>10, <1>11, <1>14 DEF Kept

\* An access raises no counter but those of its key, and those by one.
LEMMA CoversStep ==
    ASSUME NEW w \in Nat \ {0}, NEW s, Kept(s, w), NEW k \in Nat \ {0}, NEW key \in Keys,
           NEW K, K \subseteq Keys, NEW old \in [K -> Nat], NEW new \in [K -> Nat],
           \A q \in K : new[q] <= old[q] + (IF q = key THEN 1 ELSE 0),
           Covers(s, old)
    PROVE  Covers(SketchAccess(s, k, key), new)
  <1> DEFINE t == SketchAccess(s, k, key)
  <1>1. \A q \in Keys, r \in 1..Depth :
            /\ Cell(s, r, q) \in Nat /\ Cell(t, r, q) \in Nat
            /\ Cell(s, r, q) <= Cell(t, r, q)
            /\ q = key => Cell(t, r, q) = Cell(s, r, q) + 1
    BY SketchStep
  <1> HIDE DEF t
  <1>2. \A q \in K, r \in 1..Depth : old[q] <= Cell(s, r, q)
    BY DEF Covers
  <1>3. \A q \in K, r \in 1..Depth : new[q] <= Cell(t, r, q)
    BY <1>1, <1>2
  <1> QED
    BY <1>3 DEF Covers, t

\* A new sketch counts nothing and keeps nothing.
LEMMA EmptyKept ==
    ASSUME NEW w \in Nat \ {0}
    PROVE  /\ Kept(EmptySketch(Depth, w), w)
           /\ CamKeys(EmptySketch(Depth, w)) = {}
           /\ \A q \in Keys, r \in 1..Depth : Cell(EmptySketch(Depth, w), r, q) = 0
  <1> DEFINE s == EmptySketch(Depth, w)
  <1>1. /\ s = [width |-> s.width, rows |-> s.rows, cam |-> s.cam, since |-> s.since]
        /\ s.width = w /\ s.since = 0 /\ s.cam = <<>>
        /\ s.rows = [r \in 1..Depth |-> [c \in 0..(w - 1) |-> 0]]
    BY DEF EmptySketch
  <1> HIDE DEF s
  <1>2. <<>> \in Seq(CamEntry) /\ DOMAIN <<>> = {}
    BY EmptySeq
  <1>3. Shape(s, w)
    BY <1>1, <1>2 DEF Shape
  <1>4. RowHonest(s)
    BY <1>1, <1>2 DEF RowHonest
  <1>5. \A q \in Keys, r \in 1..Depth : Cell(s, r, q) = 0
    <2>1. \A q \in Keys, r \in 1..Depth : Place(s, r, q) \in 0..(w - 1)
      BY <1>3, PlaceInRow
    <2> QED
      BY <1>1, <2>1 DEF Cell
  <1>6. CamKeys(s) = {}
    BY <1>1, <1>2 DEF CamKeys
  <1> QED
    BY <1>3, <1>4, <1>5, <1>6 DEF Kept, s

-----------------------------------------------------------------------------
(***************************************************************************)
(* The invariant of the sketches: each is well formed and honest, and, if   *)
(* it is fed, has counted in every row at least what the exact counters of  *)
(* the open epoch have.                                                     *)
(***************************************************************************)
LineAccess == [line : Lines, type : AccessType]

ProbeTypes ==
    /\ config \in ProbeConfigs
    /\ counters \in Counters
    /\ request \in Seq(LineAccess)

SketchesKept ==
    \A i \in Slots : /\ Kept(hptCM[i], WidthOf(Budgets[i]))
                     /\ Kept(hwtCM[i], WidthOf(Budgets[i]))

SketchesCover ==
    config.useCountMin =>
        \A i \in Slots :
            /\ Covers(hptCM[i], PageTotals(counters))
            /\ config.trackWords => Covers(hwtCM[i], counters.word)

SketchInv == ProbeTypes /\ SketchesKept /\ SketchesCover

sketches == <<config, counters, request, hptCM, hwtCM>>

\* A slot's sketch has at least one counter per row.
LEMMA WidthPositive == \A i \in Slots : WidthOf(Budgets[i]) \in Nat \ {0}
  <1> TAKE i \in Slots
  <1>1. Budgets[i] \in Nat \ {0}
    BY ProbeAssumption, LenProperties, ElementOfSeq DEF Slots
  <1>2. Depth \in Nat \ {0}
    BY ProbeAssumption
  <1>3. Budgets[i] \div Depth \in Nat
    BY <1>1, <1>2
  <1> QED
    BY <1>3 DEF WidthOf

\* The keys the two kinds of tracker are given.
LEMMA KeysOf == Lines \subseteq Keys /\ Pages \subseteq Keys
  BY DEF Keys

\* The settings a probe can have.
LEMMA ConfigTyped ==
    config \in ProbeConfigs => /\ config.topK \in Nat \ {0}
                               /\ config.useCountMin \in BOOLEAN
                               /\ config.trackWords \in BOOLEAN
  BY ProbeAssumption DEF ProbeConfig

\* Counters and sketches that have been cleared.
LEMMA ClearedInv ==
    ASSUME config \in ProbeConfigs, config' = config, request' \in Seq(LineAccess),
           counters' = EmptyCounters, hptCM' = EmptySketches, hwtCM' = EmptySketches
    PROVE  SketchInv'
  <1>1. EmptyCounters \in Counters
    BY CounterAssumption DEF EmptyCounters, Counters
  <1>2. ProbeTypes'
    BY <1>1 DEF ProbeTypes
  <1>3. ASSUME NEW i \in Slots
        PROVE  /\ Kept(EmptySketches[i], WidthOf(Budgets[i]))
               /\ \A q \in Keys, r \in 1..Depth : Cell(EmptySketches[i], r, q) = 0
    <2>1. EmptySketches[i] = EmptySketch(Depth, WidthOf(Budgets[i]))
      BY DEF EmptySketches
    <2> QED
      BY <2>1, WidthPositive, EmptyKept
  <1>4. SketchesKept'
    BY <1>3 DEF SketchesKept
  <1>5. /\ DOMAIN PageTotals(EmptyCounters) = Pages
        /\ \A p \in Pages : PageTotals(EmptyCounters)[p] = 0
        /\ DOMAIN EmptyCounters.word = Lines
        /\ \A l \in Lines : EmptyCounters.word[l] = 0
    BY DEF PageTotals, PageTotal, EmptyCounters
  <1>6. \A i \in Slots : /\ Covers(EmptySketches[i], PageTotals(EmptyCounters))
                         /\ Covers(EmptySketches[i], EmptyCounters.word)
    BY <1>3, <1>5, KeysOf DEF Covers
  <1>7. SketchesCover'
    BY <1>6 DEF SketchesCover
  <1> QED
    BY <1>2, <1>4, <1>7 DEF SketchInv

\* An access that closes no epoch.
LEMMA AccessInv ==
    ASSUME SketchInv, NEW line \in Lines, NEW type \in AccessType,
           config' = config, request' \in Seq(LineAccess),
           counters' = After(line, type).counters,
           hptCM' = After(line, type).hptCM, hwtCM' = After(line, type).hwtCM
    PROVE  SketchInv'
  <1>1. /\ counters \in Counters /\ config \in ProbeConfigs
        /\ config.topK \in Nat \ {0}
        /\ config.useCountMin \in BOOLEAN /\ config.trackWords \in BOOLEAN
    BY ConfigTyped DEF SketchInv, ProbeTypes
  <1>2. /\ counters' = CountAccess(counters, line, type)
        /\ hptCM' = FedCM(hptCM, PageOf(line), config.useCountMin)
        /\ hwtCM' = FedCM(hwtCM, line, config.useCountMin /\ config.trackWords)
    BY DEF After
  <1>3. /\ counters' \in Counters
        /\ PageOf(line) \in Pages
        /\ PageTotals(counters) \in [Pages -> Nat] /\ PageTotals(counters') \in [Pages -> Nat]
        /\ \A p \in Pages : PageTotals(counters')[p]
                               <= PageTotals(counters)[p] + (IF p = PageOf(line) THEN 1 ELSE 0)
        /\ counters.word \in [Lines -> Nat] /\ counters'.word \in [Lines -> Nat]
        /\ \A l \in Lines : counters'.word[l] <= counters.word[l] + (IF l = line THEN 1 ELSE 0)
    <2> DEFINE n == CountAccess(counters, line, type)
    <2>1. /\ n \in Counters
          /\ PageTotals(counters) \in [Pages -> Nat] /\ PageTotals(n) \in [Pages -> Nat]
          /\ \A p \in Pages : PageTotals(n)[p]
                                 = PageTotals(counters)[p] + (IF p = PageOf(line) THEN 1 ELSE 0)
          /\ counters.word \in [Lines -> Nat] /\ n.word \in [Lines -> Nat]
          /\ \A l \in Lines : n.word[l] <= counters.word[l] + (IF l = line THEN 1 ELSE 0)
      BY <1>1, CountAccessFacts
    <2>2. counters' = n
      BY <1>2
    <2> HIDE DEF n
    <2>3. \A p \in Pages : PageTotals(n)[p]
                             <= PageTotals(counters)[p] + (IF p = PageOf(line) THEN 1 ELSE 0)
      BY <2>1
    <2> QED
      BY <2>1, <2>2, <2>3, PageOfLine
  <1>4. ProbeTypes'
    BY <1>1, <1>3 DEF ProbeTypes
  <1>5. /\ config.useCountMin =>
              \A i \in Slots : hptCM'[i] = SketchAccess(hptCM[i], config.topK, PageOf(line))
        /\ ~ config.useCountMin => hptCM' = hptCM
        /\ config.useCountMin /\ config.trackWords =>
              \A i \in Slots : hwtCM'[i] = SketchAccess(hwtCM[i], config.topK, line)
        /\ ~ (config.useCountMin /\ config.trackWords) => hwtCM' = hwtCM
    BY <1>2 DEF FedCM
  <1>6. PageOf(line) \in Keys /\ line \in Keys
    BY <1>3, KeysOf
  <1>7. SketchesKept'
    <2> SUFFICES ASSUME NEW i \in Slots
                 PROVE  /\ Kept(hptCM'[i], WidthOf(Budgets[i]))
                        /\ Kept(hwtCM'[i], WidthOf(Budgets[i]))
      BY DEF SketchesKept
    <2>1. /\ Kept(hptCM[i], WidthOf(Budgets[i])) /\ Kept(hwtCM[i], WidthOf(Budgets[i]))
          /\ WidthOf(Budgets[i]) \in Nat \ {0}
      BY WidthPositive DEF SketchInv, SketchesKept
    <2>2. Kept(hptCM'[i], WidthOf(Budgets[i]))
      BY <1>1, <1>5, <1>6, <2>1, SketchStep
    <2>3. Kept(hwtCM'[i], WidthOf(Budgets[i]))
      BY <1>1, <1>5, <1>6, <2>1, SketchStep
    <2> QED
      BY <2>2, <2>3
  <1>8. SketchesCover'
    <2> SUFFICES ASSUME config.useCountMin, NEW i \in Slots
                 PROVE  /\ Covers(hptCM'[i], PageTotals(counters'))
                        /\ config.trackWords => Covers(hwtCM'[i], counters'.word)
      BY DEF SketchesCover
    <2>1. /\ Kept(hptCM[i], WidthOf(Budgets[i])) /\ Kept(hwtCM[i], WidthOf(Budgets[i]))
          /\ WidthOf(Budgets[i]) \in Nat \ {0}
          /\ Covers(hptCM[i], PageTotals(counters))
          /\ config.trackWords => Covers(hwtCM[i], counters.word)
      BY WidthPositive DEF SketchInv, SketchesKept, SketchesCover
    <2>2. Covers(SketchAccess(hptCM[i], config.topK, PageOf(line)), PageTotals(counters'))
      <3> DEFINE old == PageTotals(counters)
                 new == PageTotals(counters')
                 page == PageOf(line)
      <3>1. /\ old \in [Pages -> Nat] /\ new \in [Pages -> Nat] /\ Covers(hptCM[i], old)
            /\ \A p \in Pages : new[p] <= old[p] + (IF p = page THEN 1 ELSE 0)
            /\ Pages \subseteq Keys /\ page \in Keys
        BY <1>3, <1>6, <2>1, KeysOf
      <3> HIDE DEF old, new, page
      <3>2. Covers(SketchAccess(hptCM[i], config.topK, page), new)
        BY <1>1, <2>1, <3>1, CoversStep
      <3> QED
        BY <3>2 DEF new, page
    <2>3. config.trackWords =>
              Covers(SketchAccess(hwtCM[i], config.topK, line), counters'.word)
      <3> DEFINE old == counters.word
                 new == counters'.word
      <3>1. /\ old \in [Lines -> Nat] /\ new \in [Lines -> Nat]
            /\ config.trackWords => Covers(hwtCM[i], old)
            /\ \A l \in Lines : new[l] <= old[l] + (IF l = line THEN 1 ELSE 0)
            /\ Lines \subseteq Keys /\ line \in Keys
        BY <1>3, <1>6, <2>1, KeysOf
      <3> HIDE DEF old, new
      <3>2. config.trackWords => Covers(SketchAccess(hwtCM[i], config.topK, line), new)
        BY <1>1, <2>1, <3>1, CoversStep
      <3> QED
        BY <3>2 DEF new
    <2> QED
      BY <1>5, <2>2, <2>3
  <1> QED
    BY <1>4, <1>7, <1>8 DEF SketchInv

\* Closing an epoch on what is open clears it, or leaves it open if nothing was touched.
LEMMA EndEpochFacts ==
    ASSUME NEW o, NEW since, EndEpoch(o, since)
    PROVE  \/ counters' = EmptyCounters /\ hptCM' = EmptySketches /\ hwtCM' = EmptySketches
           \/ counters' = o.counters /\ hptCM' = o.hptCM /\ hwtCM' = o.hwtCM
  BY DEF EndEpoch, Keep

\* Steps that leave the sketches and what they are measured by alone.
LEMMA SketchesAlone ==
    ASSUME SketchInv, UNCHANGED <<config, counters, hptCM, hwtCM>>, request' \in Seq(LineAccess)
    PROVE  SketchInv'
  BY DEF SketchInv, ProbeTypes, SketchesKept, SketchesCover

\* A request is split into the lines it touches.
LEMMA RequestLines ==
    ASSUME NEW r \in Requests, OnRequest(r)
    PROVE  request' \in Seq(LineAccess)
  <1> DEFINE n == r.last - r.first + 1
             split == [i \in 1..n |-> [line |-> r.first + (i - 1), type |-> r.type]]
  <1>1. /\ r.first \in Nat /\ r.last \in Nat /\ r.first <= r.last
        /\ r.first..r.last \subseteq Lines /\ r.type \in AccessType
    BY ProbeAssumption
  <1>2. \A i \in 1..n : r.first + (i - 1) \in Lines
    BY <1>1
  <1>3. \A i \in 1..n : [line |-> r.first + (i - 1), type |-> r.type] \in LineAccess
    BY <1>1, <1>2 DEF LineAccess
  <1>4. n \in Nat
    BY <1>1
  <1>5. split \in [1..n -> LineAccess]
    BY <1>3
  <1>6. request' = split
    BY DEF OnRequest
  <1> HIDE DEF split, n
  <1> QED
    BY <1>4, <1>5, <1>6, SeqDef

\* Every step keeps the invariant of the sketches.
LEMMA SketchStepInv == SketchInv /\ [Next]_vars => SketchInv'
  <1> SUFFICES ASSUME SketchInv, [Next]_vars PROVE SketchInv'
    OBVIOUS
  <1>1. request \in Seq(LineAccess) /\ config \in ProbeConfigs
    BY DEF SketchInv, ProbeTypes
  <1>2. ASSUME NEW r \in Requests, OnRequest(r) PROVE SketchInv'
    <2>1. UNCHANGED <<config, counters, hptCM, hwtCM>>
      BY <1>2 DEF OnRequest, memory, trackers
    <2> QED
      BY <1>2, <2>1, RequestLines, SketchesAlone
  <1>3. CASE OnLine
    <2> DEFINE line == Head(request).line
               type == Head(request).type
    <2>1. request # <<>>
      BY <1>3 DEF OnLine, NoRequest
    <2>2. Head(request) \in LineAccess /\ Tail(request) \in Seq(LineAccess)
      BY <1>1, <2>1, HeadTailProperties
    <2>3. line \in Lines /\ type \in AccessType
      BY <2>2 DEF LineAccess
    <2>4. config' = config /\ request' \in Seq(LineAccess)
      BY <1>3, <2>2 DEF OnLine
    <2>5. \/ counters' = EmptyCounters /\ hptCM' = EmptySketches /\ hwtCM' = EmptySketches
          \/ /\ counters' = After(line, type).counters
             /\ hptCM' = After(line, type).hptCM /\ hwtCM' = After(line, type).hwtCM
      BY <1>3, EndEpochFacts DEF OnLine, Keep
    <2> HIDE DEF line, type
    <2> QED
      BY <1>1, <2>3, <2>4, <2>5, ClearedInv, AccessInv
  <1>4. ASSUME EndEpoch(Now, sinceEpoch), UNCHANGED <<config, request>>
        PROVE  SketchInv'
    <2>1. \/ counters' = EmptyCounters /\ hptCM' = EmptySketches /\ hwtCM' = EmptySketches
          \/ UNCHANGED <<config, counters, hptCM, hwtCM>>
      BY <1>4, EndEpochFacts DEF Now
    <2>2. request' \in Seq(LineAccess) /\ config' = config
      BY <1>1, <1>4
    <2> QED
      BY <1>1, <2>1, <2>2, ClearedInv, SketchesAlone
  <1>5. CASE CloseByHand
    BY <1>4, <1>5 DEF CloseByHand
  <1>6. CASE Exit
    BY <1>4, <1>6 DEF Exit
  <1>7. ASSUME UNCHANGED <<config, counters, request, hptCM, hwtCM>> PROVE SketchInv'
    BY <1>1, <1>7, SketchesAlone
  <1>8. CASE Flush
    BY <1>7, <1>8 DEF Flush, memory, trackers
  <1>9. CASE Complete
    BY <1>7, <1>9 DEF Complete, memory, trackers
  <1>10. CASE Rename
    BY <1>7, <1>10 DEF Rename, memory, trackers
  <1>11. CASE Kill
    BY <1>7, <1>11 DEF Kill, memory, trackers
  <1>12. CASE UNCHANGED vars
    BY <1>7, <1>12 DEF vars, memory, trackers
  <1> QED
    BY <1>2, <1>3, <1>5, <1>6, <1>8, <1>9, <1>10, <1>11, <1>12 DEF Next

\* The probe starts with nothing counted.
LEMMA SketchInitInv == Init => SketchInv
  <1> SUFFICES ASSUME Init PROVE SketchInv
    OBVIOUS
  <1>1. EmptyCounters \in Counters
    BY CounterAssumption DEF EmptyCounters, Counters
  <1>2. ProbeTypes
    BY <1>1, EmptySeq DEF Init, ProbeTypes, NoRequest
  <1>3. ASSUME NEW i \in Slots
        PROVE  /\ Kept(EmptySketches[i], WidthOf(Budgets[i]))
               /\ \A q \in Keys, r \in 1..Depth : Cell(EmptySketches[i], r, q) = 0
    <2>1. EmptySketches[i] = EmptySketch(Depth, WidthOf(Budgets[i]))
      BY DEF EmptySketches
    <2> QED
      BY <2>1, WidthPositive, EmptyKept
  <1>4. SketchesKept
    BY <1>3 DEF Init, SketchesKept
  <1>5. /\ DOMAIN PageTotals(EmptyCounters) = Pages
        /\ \A p \in Pages : PageTotals(EmptyCounters)[p] = 0
        /\ DOMAIN EmptyCounters.word = Lines
        /\ \A l \in Lines : EmptyCounters.word[l] = 0
    BY DEF PageTotals, PageTotal, EmptyCounters
  <1>6. \A i \in Slots : /\ Covers(EmptySketches[i], PageTotals(EmptyCounters))
                         /\ Covers(EmptySketches[i], EmptyCounters.word)
    BY <1>3, <1>5, KeysOf DEF Covers
  <1>7. SketchesCover
    BY <1>6 DEF Init, SketchesCover
  <1> QED
    BY <1>2, <1>4, <1>7 DEF SketchInv

\* The sketches' invariant holds throughout.
LEMMA SketchesHold == Spec => []SketchInv
  <1> QED
    BY SketchInitInv, SketchStepInv, PTL DEF Spec

(***************************************************************************)
(* Whatever the hash, the depth, the budget and the stream, a sketch never  *)
(* counts less for a page or a line than the exact counters of the epoch    *)
(* (CountMinTopK::access and estimate, tracker.hpp).                        *)
(***************************************************************************)
THEOREM SketchesNeverUnderestimate == Spec => []NeverUnderestimates
  <1>1. SketchInv => NeverUnderestimates
    <2> SUFFICES ASSUME SketchInv, config.useCountMin, NEW i \in Slots
                 PROVE  /\ \A p \in Pages : PageTotal(counters, p) <= Estimate(hptCM[i], p)
                        /\ config.trackWords =>
                              \A l \in Lines : counters.word[l] <= Estimate(hwtCM[i], l)
      BY DEF NeverUnderestimates
    <2>1. /\ Shape(hptCM[i], WidthOf(Budgets[i])) /\ Shape(hwtCM[i], WidthOf(Budgets[i]))
          /\ WidthOf(Budgets[i]) \in Nat \ {0}
          /\ Covers(hptCM[i], PageTotals(counters))
          /\ config.trackWords => Covers(hwtCM[i], counters.word)
      BY WidthPositive DEF SketchInv, SketchesKept, SketchesCover, Kept
    <2>2. \A key \in Keys : /\ \E r \in 1..Depth : Estimate(hptCM[i], key) = Cell(hptCM[i], r, key)
                            /\ \E r \in 1..Depth : Estimate(hwtCM[i], key) = Cell(hwtCM[i], r, key)
      BY <2>1, EstimateIsLeast
    <2>3. ASSUME NEW p \in Pages PROVE PageTotal(counters, p) <= Estimate(hptCM[i], p)
      <3>1. \A r \in 1..Depth : PageTotal(counters, p) <= Cell(hptCM[i], r, p)
        BY <2>1 DEF Covers, PageTotals
      <3> QED
        BY <2>2, <3>1, KeysOf
    <2>4. ASSUME config.trackWords, NEW l \in Lines
          PROVE  counters.word[l] <= Estimate(hwtCM[i], l)
      <3>1. DOMAIN counters.word = Lines
        BY DEF SketchInv, ProbeTypes, Counters
      <3>2. \A r \in 1..Depth : counters.word[l] <= Cell(hwtCM[i], r, l)
        BY <2>1, <2>4, <3>1 DEF Covers
      <3> QED
        BY <2>2, <3>2, KeysOf
    <2> QED
      BY <2>3, <2>4
  <1> QED
    BY <1>1, SketchesHold, PTL

(***************************************************************************)
(* No CAM ever holds a key twice, and no estimate cached in it is ahead of  *)
(* the sketch, between two refreshes too (CountMinTopK::offerToCam).        *)
(***************************************************************************)
THEOREM CamsStayHonest == Spec => []CamHonest
  <1>1. ASSUME NEW w \in Nat \ {0}, NEW s, Kept(s, w) PROVE Honest(s)
    <2>1. \A j \in DOMAIN s.cam : s.cam[j].key \in Keys
      BY <1>1, CamFacts DEF Kept
    <2>2. \A j \in DOMAIN s.cam :
              \E r \in 1..Depth : Estimate(s, s.cam[j].key) = Cell(s, r, s.cam[j].key)
      BY <1>1, <2>1, EstimateIsLeast DEF Kept
    <2> QED
      BY <1>1, <2>2 DEF Honest, Kept, RowHonest
  <1>2. SketchInv => CamHonest
    BY <1>1, WidthPositive DEF SketchInv, SketchesKept, CamHonest
  <1> QED
    BY <1>2, SketchesHold, PTL

\* A sketch whose CAM keeps its keys lets none out.
LEMMA NothingOut ==
    ASSUME NEW s, NEW t, t = s \/ CamKeys(t) = {}
    PROVE  Outranked(s, t)
  BY DEF Outranked

\* Every slot's CAM after an access that closes no epoch.
LEMMA AccessOutranks ==
    ASSUME SketchInv, NEW line \in Lines, NEW type, NEW i \in Slots
    PROVE  LET o == After(line, type)
           IN  Outranked(hptCM[i], o.hptCM[i]) /\ Outranked(hwtCM[i], o.hwtCM[i])
  <1>1. /\ config.topK \in Nat \ {0}
        /\ Kept(hptCM[i], WidthOf(Budgets[i])) /\ Kept(hwtCM[i], WidthOf(Budgets[i]))
        /\ WidthOf(Budgets[i]) \in Nat \ {0}
        /\ line \in Keys /\ PageOf(line) \in Keys
    BY ConfigTyped, WidthPositive, KeysOf DEF SketchInv, ProbeTypes, SketchesKept, Pages
  <1>2. /\ Outranked(hptCM[i], SketchAccess(hptCM[i], config.topK, PageOf(line)))
        /\ Outranked(hwtCM[i], SketchAccess(hwtCM[i], config.topK, line))
    BY <1>1, SketchStep
  <1>3. Outranked(hptCM[i], hptCM[i]) /\ Outranked(hwtCM[i], hwtCM[i])
    BY NothingOut
  <1>4. /\ After(line, type).hptCM[i] \in
               {hptCM[i], SketchAccess(hptCM[i], config.topK, PageOf(line))}
        /\ After(line, type).hwtCM[i] \in
               {hwtCM[i], SketchAccess(hwtCM[i], config.topK, line)}
    BY DEF After, FedCM
  <1> QED
    BY <1>2, <1>3, <1>4

(***************************************************************************)
(* Whatever the hash, the budget and the stream, a key that leaves a CAM    *)
(* within an epoch leaves it to one that the sketch then estimates higher   *)
(* (CountMinTopK::offerToCam reads the incumbent's count again before it    *)
(* lets it go).                                                             *)
(***************************************************************************)
THEOREM EvictedForHotter == Spec => NewcomersHotter
  <1> DEFINE Hotter == \A i \in Slots : /\ Outranked(hptCM[i], hptCM'[i])
                                        /\ Outranked(hwtCM[i], hwtCM'[i])
  <1>1. ASSUME hptCM' = EmptySketches, hwtCM' = EmptySketches PROVE Hotter
    <2>1. \A i \in Slots : CamKeys(EmptySketches[i]) = {}
      BY WidthPositive, EmptyKept DEF EmptySketches
    <2> QED
      BY <1>1, <2>1, NothingOut
  <1>2. ASSUME UNCHANGED <<hptCM, hwtCM>> PROVE Hotter
    BY <1>2, NothingOut
  <1>3. ASSUME SketchInv, OnLine PROVE Hotter
    <2> DEFINE o == After(Head(request).line, Head(request).type)
    <2>1. request # <<>> /\ request \in Seq(LineAccess)
      BY <1>3 DEF OnLine, NoRequest, SketchInv, ProbeTypes
    <2>2. Head(request).line \in Lines
      <3>1. Head(request) \in LineAccess
        BY <2>1, HeadTailProperties
      <3> QED
        BY <3>1 DEF LineAccess
    <2>3. \A i \in Slots : Outranked(hptCM[i], o.hptCM[i]) /\ Outranked(hwtCM[i], o.hwtCM[i])
      BY <1>3, <2>2, AccessOutranks
    <2>4. \/ hptCM' = EmptySketches /\ hwtCM' = EmptySketches
          \/ hptCM' = o.hptCM /\ hwtCM' = o.hwtCM
      BY <1>3, EndEpochFacts DEF OnLine, Keep
    <2> HIDE DEF o
    <2> QED
      BY <1>1, <2>3, <2>4
  <1>4. ASSUME EndEpoch(Now, sinceEpoch) PROVE Hotter
    BY <1>1, <1>2, <1>4, EndEpochFacts DEF Now
  <1>5. SketchInv /\ [Next]_vars => Hotter
    BY <1>2, <1>3, <1>4
       DEF Next, OnRequest, CloseByHand, Exit, Flush, Complete, Rename, Kill,
           vars, memory, trackers
  <1>6. SketchInv /\ [Next]_vars =>
            [\A i \in Slots : Outranked(hptCM[i], hptCM'[i]) /\ Outranked(hwtCM[i], hwtCM'[i])]_vars
    BY <1>5
  <1> QED
    BY <1>6, SketchesHold, PTL DEF Spec, NewcomersHotter

-----------------------------------------------------------------------------
(***************************************************************************)
(* The invariant of the summary: a write in progress holds the epochs kept  *)
(* in memory, it is renamed only when it is whole, and with setAutoWrite no *)
(* epoch closes before the summary of the last one is in place.             *)
(***************************************************************************)
File == [whole : BOOLEAN, epochs : Nat]

ResultsListed == \E S : results \in Seq(S)

DiskTypes ==
    /\ ResultsListed
    /\ disk \in [summary : File, tmp : File]
    /\ writing \in {"no", "torn", "whole"}
    /\ stage \in {"running", "closing", "flushing", "ended", "killed"}

WriteInv ==
    /\ writing # "no" => disk.tmp.epochs = Len(results)
    /\ writing = "whole" => disk.tmp.whole
    /\ stage = "flushing" => writing # "no"
    /\ stage \in {"ended", "killed"} => writing = "no"

DiskInv == DiskTypes /\ WriteInv /\ SummarySurvives

\* The list of results has a length, and one more once a result is appended.
LEMMA ResultsGrow ==
    ASSUME ResultsListed
    PROVE  /\ Len(results) \in Nat
           /\ \A e : results' = Append(results, e) =>
                 ResultsListed' /\ Len(results') = Len(results) + 1
           /\ results' = results => ResultsListed'
  <1>1. PICK S : results \in Seq(S)
    BY DEF ResultsListed
  <1>2. ASSUME NEW e, results' = Append(results, e)
        PROVE  ResultsListed' /\ Len(results') = Len(results) + 1
    <2>1. results \in Seq(S \cup {e})
      BY <1>1, SeqMonotonic
    <2>2. /\ Append(results, e) \in Seq(S \cup {e})
          /\ Len(Append(results, e)) = Len(results) + 1
      BY <2>1, AppendProperties
    <2> QED
      BY <1>2, <2>2 DEF ResultsListed
  <1>3. Len(results) \in Nat
    BY <1>1, LenProperties
  <1> QED
    BY <1>1, <1>2, <1>3 DEF ResultsListed

\* The parts of the disk.
LEMMA DiskNamed ==
    ASSUME DiskTypes
    PROVE  /\ disk = [summary |-> disk.summary, tmp |-> disk.tmp]
           /\ disk.summary \in File /\ disk.tmp \in File
           /\ disk.tmp = [whole |-> disk.tmp.whole, epochs |-> disk.tmp.epochs]
           /\ disk.tmp.whole \in BOOLEAN /\ disk.tmp.epochs \in Nat
           /\ disk.summary.whole \in BOOLEAN /\ disk.summary.epochs \in Nat
  BY DEF DiskTypes, File

\* Closing an epoch, from a run that is not writing.
LEMMA EndEpochDisk ==
    ASSUME DiskInv, Idle, NEW o, NEW since, EndEpoch(o, since),
           config \in ProbeConfig, config' = config, stage' \in {"running", "closing"}
    PROVE  DiskInv'
  <1>1. /\ writing = "no" /\ stage = "running"
        /\ disk.summary # NoFile => disk.summary.whole
        /\ config.autoWrite => disk.summary.epochs = Len(results)
        /\ config.autoWrite \in BOOLEAN
    BY DEF Idle, DiskInv, SummarySurvives, ProbeConfig
  <1>2. DiskTypes /\ ResultsListed /\ Len(results) \in Nat
    BY ResultsGrow DEF DiskInv, DiskTypes
  <1>3. CASE UNCHANGED <<results, writing, disk>>
    <2>1. DiskTypes'
      BY <1>2, <1>3, ResultsGrow DEF DiskTypes
    <2>2. WriteInv'
      BY <1>1, <1>3 DEF WriteInv
    <2>3. SummarySurvives'
      BY <1>1, <1>2, <1>3 DEF SummarySurvives
    <2> QED
      BY <2>1, <2>2, <2>3 DEF DiskInv
  <1>4. CASE /\ \E e : results' = Append(results, e)
             /\ IF config.autoWrite THEN BeginWrite(Len(results'))
                ELSE UNCHANGED <<writing, disk>>
    <2>1. ResultsListed' /\ Len(results') = Len(results) + 1
      BY <1>2, <1>4, ResultsGrow
    <2>2. CASE config.autoWrite
      <3>1. /\ writing' = "torn"
            /\ disk' = [disk EXCEPT !.tmp = [whole |-> FALSE, epochs |-> Len(results')]]
        BY <1>4, <2>2 DEF BeginWrite
      <3>2. disk' = [summary |-> disk.summary,
                     tmp |-> [whole |-> FALSE, epochs |-> Len(results')]]
        BY <1>2, <3>1, DiskNamed
      <3>3. DiskTypes'
        <4>1. Len(results') \in Nat /\ disk.summary \in File
          BY <1>2, <2>1, DiskNamed
        <4>2. disk' \in [summary : File, tmp : File]
          BY <3>2, <4>1 DEF File
        <4>3. stage' \in {"running", "closing", "flushing", "ended", "killed"}
          OBVIOUS
        <4> QED
          BY <2>1, <3>1, <4>2, <4>3 DEF DiskTypes
      <3>4. WriteInv'
        BY <3>1, <3>2 DEF WriteInv
      <3>5. SummarySurvives'
        BY <1>1, <1>2, <2>1, <2>2, <3>1, <3>2 DEF SummarySurvives
      <3> QED
        BY <3>3, <3>4, <3>5 DEF DiskInv
    <2>3. CASE ~ config.autoWrite
      <3>1. writing' = "no" /\ disk' = disk
        BY <1>1, <1>4, <2>3
      <3>2. DiskTypes'
        BY <1>2, <2>1, <3>1 DEF DiskTypes
      <3>3. WriteInv'
        BY <3>1 DEF WriteInv
      <3>4. SummarySurvives'
        BY <1>1, <2>3, <3>1 DEF SummarySurvives
      <3> QED
        BY <3>2, <3>3, <3>4 DEF DiskInv
    <2> QED
      BY <2>2, <2>3
  <1> QED
    BY <1>3, <1>4 DEF EndEpoch, Keep

\* Steps that leave the results and the disk alone.
LEMMA DiskAlone ==
    ASSUME DiskInv, UNCHANGED <<config, results, disk, writing, stage>>
    PROVE  DiskInv'
  <1>1. ResultsListed'
    BY ResultsGrow DEF DiskInv, DiskTypes
  <1> QED
    BY <1>1 DEF DiskInv, DiskTypes, WriteInv, SummarySurvives

\* Every step keeps the invariant of the summary.
LEMMA DiskStepInv == config \in ProbeConfig /\ DiskInv /\ [Next]_vars => DiskInv'
  <1> SUFFICES ASSUME config \in ProbeConfig, DiskInv, [Next]_vars PROVE DiskInv'
    OBVIOUS
  <1>1. /\ DiskTypes /\ ResultsListed /\ Len(results) \in Nat
        /\ results' = results => ResultsListed'
        /\ config.autoWrite \in BOOLEAN
    BY ResultsGrow DEF DiskInv, DiskTypes, ProbeConfig
  <1>2. ASSUME NEW r \in Requests, OnRequest(r) PROVE DiskInv'
    BY <1>2, DiskAlone DEF OnRequest, memory
  <1>3. CASE OnLine
    <2>1. CASE EpochFull
      <3>1. EndEpoch(After(Head(request).line, Head(request).type), Since)
        BY <1>3, <2>1 DEF OnLine
      <3> QED
        BY <1>3, <3>1, EndEpochDisk DEF OnLine, Idle
    <2>2. CASE ~ EpochFull
      <3>1. UNCHANGED <<config, results, disk, writing, stage>>
        BY <1>3, <2>2 DEF OnLine, Keep
      <3> QED
        BY <3>1, DiskAlone
    <2> QED
      BY <2>1, <2>2
  <1>4. CASE CloseByHand
    BY <1>4, EndEpochDisk DEF CloseByHand, Idle
  <1>5. CASE Exit
    BY <1>5, EndEpochDisk DEF Exit
  <1>6. CASE Flush
    <2>1. /\ stage = "closing" /\ writing = "no" /\ stage' = "flushing" /\ writing' = "torn"
          /\ results' = results /\ config' = config
          /\ disk' = [summary |-> disk.summary,
                      tmp |-> [whole |-> FALSE, epochs |-> Len(results)]]
      BY <1>1, <1>6, DiskNamed DEF Flush, BeginWrite, memory
    <2>2. DiskTypes'
      BY <1>1, <2>1, DiskNamed DEF DiskTypes, File
    <2>3. WriteInv'
      BY <2>1 DEF WriteInv
    <2>4. SummarySurvives'
      BY <1>1, <2>1 DEF SummarySurvives, DiskInv
    <2> QED
      BY <2>2, <2>3, <2>4 DEF DiskInv
  <1>7. CASE Complete
    <2>1. /\ writing = "torn" /\ writing' = "whole" /\ stage' = stage
          /\ results' = results /\ config' = config
          /\ disk' = [summary |-> disk.summary,
                      tmp |-> [whole |-> TRUE, epochs |-> disk.tmp.epochs]]
      <3>1. disk' = [disk EXCEPT !.tmp.whole = TRUE]
        BY <1>7 DEF Complete
      <3> QED
        BY <1>1, <1>7, <3>1, DiskNamed DEF Complete, memory
    <2>2. DiskTypes'
      BY <1>1, <2>1, DiskNamed DEF DiskTypes, File
    <2>3. WriteInv'
      BY <2>1 DEF WriteInv, DiskInv
    <2>4. SummarySurvives'
      BY <2>1 DEF SummarySurvives, DiskInv, WriteInv
    <2> QED
      BY <2>2, <2>3, <2>4 DEF DiskInv
  <1>8. CASE Rename
    <2>1. /\ writing = "whole" /\ writing' = "no"
          /\ results' = results /\ config' = config
          /\ disk' = [summary |-> disk.tmp, tmp |-> NoFile]
          /\ stage' = IF stage = "flushing" THEN "ended" ELSE stage
      BY <1>8 DEF Rename, memory
    <2>2. /\ disk.tmp.epochs = Len(results) /\ disk.tmp.whole = TRUE
          /\ disk.tmp = [whole |-> TRUE, epochs |-> Len(results)]
          /\ stage \notin {"ended", "killed"}
      BY <1>1, <2>1, DiskNamed DEF DiskInv, WriteInv
    <2>3. DiskTypes'
      BY <1>1, <2>1, DiskNamed DEF DiskTypes, File, NoFile
    <2>4. WriteInv'
      BY <2>1, <2>2 DEF WriteInv
    <2>5. SummarySurvives'
      BY <1>1, <2>1, <2>2 DEF SummarySurvives
    <2> QED
      BY <2>3, <2>4, <2>5 DEF DiskInv
  <1>9. CASE Kill
    <2>1. /\ stage' = "killed" /\ writing' = "no"
          /\ disk' = disk /\ results' = results /\ config' = config
      BY <1>9 DEF Kill, memory
    <2>2. DiskTypes'
      BY <1>1, <2>1 DEF DiskTypes
    <2>3. WriteInv'
      BY <2>1 DEF WriteInv
    <2>4. SummarySurvives'
      BY <2>1 DEF SummarySurvives, DiskInv
    <2> QED
      BY <2>2, <2>3, <2>4 DEF DiskInv
  <1>10. CASE UNCHANGED vars
    BY <1>10, DiskAlone DEF vars, memory
  <1> QED
    BY <1>2, <1>3, <1>4, <1>5, <1>6, <1>7, <1>8, <1>9, <1>10 DEF Next

(***************************************************************************)
(* Wherever the simulator is killed, the summary that is left is whole and  *)
(* misses at most one epoch (writeSummary's temporary file and rename), for *)
(* every configuration and every stream.                                    *)
(***************************************************************************)
THEOREM SummaryIsWhole == Spec => []SummarySurvives
  <1>1. Init => DiskInv
    <2> SUFFICES ASSUME Init PROVE DiskInv
      OBVIOUS
    <2>1. <<>> \in Seq({}) /\ Len(<<>>) = 0
      BY EmptySeq
    <2>2. DiskTypes
      BY <2>1 DEF Init, DiskTypes, ResultsListed, File, NoFile
    <2>3. WriteInv
      BY DEF Init, WriteInv
    <2>4. SummarySurvives
      BY <2>1 DEF Init, SummarySurvives, NoFile
    <2> QED
      BY <2>2, <2>3, <2>4 DEF DiskInv
  <1>2. SketchInv => config \in ProbeConfig
    BY ProbeAssumption DEF SketchInv, ProbeTypes
  <1>3. DiskInv => SummarySurvives
    BY DEF DiskInv
  <1> QED
    BY <1>1, <1>2, <1>3, DiskStepInv, SketchesHold, PTL DEF Spec
-----------------------------------------------------------------------------
(***************************************************************************)
(* Epochs.  The counters of the open epoch fit together, and what each      *)
(* closed epoch reports is a number.                                        *)
(***************************************************************************)
\* What the closed epochs counted, in order.
ClosedCounts == [e \in DOMAIN results |-> results[e].accesses]

EpochInv ==
    /\ config \in ProbeConfigs /\ request \in Seq(LineAccess)
    /\ Whole(counters)
    /\ sinceEpoch \in Nat /\ accesses \in Nat
    /\ ResultsListed /\ ClosedCounts \in Seq(Nat)
    /\ EpochsAreWhole

LEMMA EpochTyped ==
    ASSUME EpochInv
    PROVE  /\ counters.total \in Nat /\ Closed \in Nat /\ config.epochAccesses \in Nat
           /\ Closed = SumFunction(ClosedCounts)
  <1>1. counters.total \in Nat
    BY UntouchedIsEmpty DEF EpochInv
  <1>2. Closed = SumFunction(ClosedCounts)
    BY DEF Closed, ClosedCounts
  <1>3. SumFunction(ClosedCounts) \in Nat
    BY SumAppend DEF EpochInv
  <1>4. config.epochAccesses \in Nat
    BY ProbeAssumption DEF EpochInv, ProbeConfig
  <1> QED
    BY <1>1, <1>2, <1>3, <1>4

\* A result that is appended adds its accesses to those of the closed epochs.
LEMMA ResultCounted ==
    ASSUME EpochInv, NEW e, e.accesses \in Nat, results' = Append(results, e)
    PROVE  /\ ResultsListed' /\ ClosedCounts' \in Seq(Nat)
           /\ Closed' = Closed + e.accesses
           /\ \A n : (\A i \in DOMAIN results : results[i].accesses <= n) /\ e.accesses <= n
                         => \A i \in DOMAIN results' : results'[i].accesses <= n
  <1>1. PICK S : results \in Seq(S)
    BY DEF EpochInv, ResultsListed
  <1>2. results \in Seq(S \cup {e})
    BY <1>1, SeqMonotonic
  <1> DEFINE m == Len(results)
  <1>3. /\ m \in Nat /\ DOMAIN results = 1..m
        /\ DOMAIN results' = 1..(m + 1) /\ results'[m + 1] = e
        /\ \A i \in 1..m : results'[i] = results[i]
    BY <1>2, LenProperties, AppendProperties
  <1>4. ResultsListed'
    BY ResultsGrow DEF EpochInv
  <1> HIDE DEF m
  <1>5. /\ ClosedCounts \in Seq(Nat) /\ DOMAIN ClosedCounts = 1..m
        /\ \A i \in 1..m : ClosedCounts[i] = results[i].accesses
    BY <1>3 DEF EpochInv, ClosedCounts
  <1>6. Len(ClosedCounts) = m
    BY <1>3, <1>5, LenProperties
  <1>7. PICK t : t = Append(ClosedCounts, e.accesses)
    OBVIOUS
  <1>8. /\ t \in Seq(Nat) /\ DOMAIN t = 1..(m + 1) /\ t[m + 1] = e.accesses
        /\ \A i \in 1..m : t[i] = ClosedCounts[i]
    BY <1>5, <1>6, <1>7, AppendProperties, LenProperties
  <1>9. ClosedCounts' = t
    <2>1. ClosedCounts' = [i \in 1..(m + 1) |-> results'[i].accesses]
      BY <1>3 DEF ClosedCounts
    <2>2. \A i \in 1..(m + 1) : i \in 1..m \/ i = m + 1
      BY <1>3
    <2>3. \A i \in 1..(m + 1) : results'[i].accesses = t[i]
      BY <1>3, <1>5, <1>8, <2>2
    <2>4. t = [i \in DOMAIN t |-> t[i]]
      BY <1>8
    <2> QED
      BY <1>8, <2>1, <2>3, <2>4
  <1>10. Closed' = Closed + e.accesses
    <2>1. Closed' = SumFunction(ClosedCounts')
      BY DEF Closed, ClosedCounts
    <2>2. Closed = SumFunction(ClosedCounts)
      BY DEF Closed, ClosedCounts
    <2>3. SumFunction(t) = SumFunction(ClosedCounts) + e.accesses
      BY <1>5, <1>7, SumAppend
    <2> QED
      BY <1>9, <2>1, <2>2, <2>3
  <1> QED
    BY <1>3, <1>4, <1>8, <1>9, <1>10

\* What closing an epoch does with its accesses.
LEMMA EndEpochCounts ==
    ASSUME NEW o, Whole(o.counters), NEW since, EndEpoch(o, since)
    PROVE  \/ /\ o.counters.total = 0
              /\ counters' = o.counters /\ sinceEpoch' = since /\ results' = results
           \/ /\ counters' = EmptyCounters /\ sinceEpoch' = 0
              /\ \E e : e.accesses = o.counters.total /\ results' = Append(results, e)
  <1>1. CASE TouchedPages(o.counters) = {}
    BY <1>1, UntouchedIsEmpty DEF EndEpoch, Keep
  <1>2. CASE TouchedPages(o.counters) # {}
    <2>1. /\ counters' = EmptyCounters /\ sinceEpoch' = 0
          /\ \E h, w : results' = Append(results, EpochResult(o, h, w))
      BY <1>2 DEF EndEpoch
    <2>2. PICK h, w : results' = Append(results, EpochResult(o, h, w))
      BY <2>1
    <2>3. EpochResult(o, h, w).accesses = o.counters.total
      BY DEF EpochResult, Whole
    <2> QED
      BY <2>1, <2>2, <2>3
  <1> QED
    BY <1>1, <1>2

\* The part of the invariant that closing an epoch changes: n lines counted in all.
Told(n) ==
    /\ Whole(counters) /\ sinceEpoch \in Nat
    /\ ResultsListed /\ ClosedCounts \in Seq(Nat)
    /\ Closed + counters.total = n
    /\ config.epochAccesses # 0 =>
          /\ sinceEpoch = counters.total
          /\ sinceEpoch < config.epochAccesses
          /\ \A e \in DOMAIN results : results[e].accesses <= config.epochAccesses

LEMMA ToldIs ==
    EpochInv <=> /\ config \in ProbeConfigs /\ request \in Seq(LineAccess)
                 /\ accesses \in Nat /\ Told(accesses)
                 /\ stage \in {"closing", "flushing", "ended"} => counters.total = 0
  BY DEF EpochInv, Told, EpochsAreWhole

\* An epoch that is closed on the counters o, the since-th access of it counted.
LEMMA EndEpochTold ==
    ASSUME EpochInv, config' = config, NEW o, Whole(o.counters), NEW since \in Nat,
           EndEpoch(o, since),
           config.epochAccesses # 0 =>
               since = o.counters.total /\ since <= config.epochAccesses
    PROVE  /\ \E n : n = Closed + o.counters.total /\ Told(n)'
           /\ counters'.total = 0
  <1>0. PICK n : n = Closed + o.counters.total
    OBVIOUS
  <1>1. /\ counters.total \in Nat /\ Closed \in Nat /\ config.epochAccesses \in Nat
        /\ o.counters.total \in Nat
    BY EpochTyped, UntouchedIsEmpty
  <1>2. CASE /\ o.counters.total = 0
             /\ counters' = o.counters /\ sinceEpoch' = since /\ results' = results
    <2>1. Closed' = Closed /\ ClosedCounts' = ClosedCounts /\ (ResultsListed <=> ResultsListed')
      BY <1>2 DEF Closed, ClosedCounts, ResultsListed
    <2>2. Told(n)'
      <3>1. /\ Whole(counters') /\ sinceEpoch' \in Nat /\ counters'.total = 0
            /\ ResultsListed' /\ (ClosedCounts \in Seq(Nat))'
        BY <1>2, <2>1 DEF EpochInv
      <3>2. Closed' + counters'.total = n
        BY <1>0, <1>2, <2>1
      <3>3. (config.epochAccesses # 0 =>
                /\ sinceEpoch = counters.total
                /\ sinceEpoch < config.epochAccesses
                /\ \A e \in DOMAIN results : results[e].accesses <= config.epochAccesses)'
        BY <1>1, <1>2 DEF EpochInv, EpochsAreWhole
      <3> QED
        BY <3>1, <3>2, <3>3 DEF Told
    <2> QED
      BY <1>0, <1>2, <2>2
  <1>3. CASE /\ counters' = EmptyCounters /\ sinceEpoch' = 0
             /\ \E e : e.accesses = o.counters.total /\ results' = Append(results, e)
    <2>1. PICK e : e.accesses = o.counters.total /\ results' = Append(results, e)
      BY <1>3
    <2>2. e.accesses \in Nat
      BY <1>1, <2>1
    <2>3. /\ ResultsListed' /\ ClosedCounts' \in Seq(Nat)
          /\ Closed' = Closed + e.accesses
          /\ \A k : (\A i \in DOMAIN results : results[i].accesses <= k) /\ e.accesses <= k
                        => \A i \in DOMAIN results' : results'[i].accesses <= k
      BY <2>1, <2>2, ResultCounted
    <2>4. Whole(counters') /\ counters'.total = 0
      BY <1>3, EmptyWhole
    <2>5. config.epochAccesses # 0 =>
             /\ e.accesses <= config.epochAccesses
             /\ \A i \in DOMAIN results' : results'[i].accesses <= config.epochAccesses
      BY <2>1, <2>3 DEF EpochInv, EpochsAreWhole
    <2>6. Closed' + counters'.total = n
      BY <1>0, <1>1, <2>1, <2>3, <2>4
    <2>7. (config.epochAccesses # 0 =>
              /\ sinceEpoch = counters.total
              /\ sinceEpoch < config.epochAccesses
              /\ \A i \in DOMAIN results : results[i].accesses <= config.epochAccesses)'
      BY <1>1, <1>3, <2>4, <2>5
    <2>8. Told(n)'
      BY <1>3, <2>3, <2>4, <2>6, <2>7 DEF Told
    <2> QED
      BY <1>0, <2>4, <2>8
  <1> QED
    BY <1>2, <1>3, EndEpochCounts

\* A line that leaves its epoch open.
LEMMA KeepTold ==
    ASSUME EpochInv, config' = config, NEW o, Whole(o.counters), NEW since \in Nat,
           Keep(o, since),
           config.epochAccesses # 0 =>
               since = o.counters.total /\ since < config.epochAccesses
    PROVE  \E n : n = Closed + o.counters.total /\ Told(n)'
  <1>0. PICK n : n = Closed + o.counters.total
    OBVIOUS
  <1>1. counters' = o.counters /\ sinceEpoch' = since /\ results' = results
    BY DEF Keep
  <1>2. Closed' = Closed /\ ClosedCounts' = ClosedCounts /\ (ResultsListed <=> ResultsListed')
    BY <1>1 DEF Closed, ClosedCounts, ResultsListed
  <1>3. /\ Whole(counters') /\ sinceEpoch' \in Nat
        /\ ResultsListed' /\ (ClosedCounts \in Seq(Nat))'
    BY <1>1, <1>2 DEF EpochInv
  <1>4. Closed' + counters'.total = n
    BY <1>0, <1>1, <1>2
  <1>5. (config.epochAccesses # 0 =>
            /\ sinceEpoch = counters.total
            /\ sinceEpoch < config.epochAccesses
            /\ \A e \in DOMAIN results : results[e].accesses <= config.epochAccesses)'
    BY <1>1 DEF EpochInv, EpochsAreWhole
  <1>6. Told(n)'
    BY <1>3, <1>4, <1>5 DEF Told
  <1> QED
    BY <1>0, <1>6

\* What a step that counts nothing leaves as it was.
LEMMA EpochAlone ==
    ASSUME EpochInv, UNCHANGED <<config, counters, sinceEpoch, results, accesses>>,
           request' \in Seq(LineAccess),
           stage' \in {"closing", "flushing", "ended"} => stage \in {"closing", "flushing", "ended"}
    PROVE  EpochInv'
  <1>1. Closed' = Closed /\ ClosedCounts' = ClosedCounts /\ (ResultsListed <=> ResultsListed')
    BY DEF Closed, ClosedCounts, ResultsListed
  <1>2. EpochsAreWhole'
    BY <1>1 DEF EpochInv, EpochsAreWhole
  <1> QED
    BY <1>1, <1>2 DEF EpochInv

\* A line that is counted, in an epoch that it fills or does not fill.
LEMMA LineTold ==
    ASSUME EpochInv, OnLine
    PROVE  EpochInv'
  <1>1. /\ config' = config /\ stage' = stage /\ stage = "running"
        /\ accesses' = accesses + 1 /\ accesses \in Nat /\ config \in ProbeConfigs
        /\ request \in Seq(LineAccess) /\ request # <<>> /\ request' = Tail(request)
    BY DEF OnLine, Idle, EpochInv, NoRequest
  <1>2. Head(request) \in LineAccess /\ request' \in Seq(LineAccess)
    BY <1>1, HeadTailProperties
  <1>3. PICK line \in Lines, type \in AccessType :
            line = Head(request).line /\ type = Head(request).type
    BY <1>2 DEF LineAccess
  <1>4. PICK o : o = After(line, type)
    OBVIOUS
  <1>5. o.counters = CountAccess(counters, line, type)
    BY <1>4 DEF After
  <1>6. Whole(o.counters)
    BY <1>5, CountAccessWhole DEF EpochInv
  <1>7. /\ counters.total \in Nat /\ Closed \in Nat /\ config.epochAccesses \in Nat
        /\ sinceEpoch \in Nat
    BY EpochTyped DEF EpochInv
  <1>8. o.counters.total = counters.total + 1
    BY <1>5 DEF CountAccess
  <1>9. PICK since : since = Since
    OBVIOUS
  <1>10. /\ since \in Nat
         /\ config.epochAccesses # 0 =>
                since = o.counters.total /\ since <= config.epochAccesses
         /\ ~EpochFull => (config.epochAccesses # 0 => since < config.epochAccesses)
    BY <1>7, <1>8, <1>9 DEF Since, EpochFull, EpochInv, EpochsAreWhole
  <1>11. IF EpochFull THEN EndEpoch(o, since) ELSE Keep(o, since)
    BY <1>3, <1>4, <1>9 DEF OnLine
  <1>12. \E n : n = Closed + o.counters.total /\ Told(n)'
    <2>1. CASE EpochFull
      BY <1>1, <1>6, <1>10, <1>11, <2>1, EndEpochTold
    <2>2. CASE ~EpochFull
      BY <1>1, <1>6, <1>10, <1>11, <2>2, KeepTold
    <2> QED
      BY <2>1, <2>2
  <1>13. Closed + o.counters.total = accesses'
    BY <1>1, <1>7, <1>8 DEF EpochInv, EpochsAreWhole
  <1>14. PICK n : n = accesses' /\ Told(n)'
    BY <1>12, <1>13
  <1>15. EpochsAreWhole'
    BY <1>1, <1>14 DEF Told, EpochsAreWhole
  <1> QED
    BY <1>1, <1>2, <1>14, <1>15 DEF Told, EpochInv

\* An epoch closed by hand or at exit, after which nothing is open.
LEMMA CloseTold ==
    ASSUME EpochInv, EndEpoch(Now, sinceEpoch), UNCHANGED <<config, request, accesses>>
    PROVE  EpochInv'
  <1>1. PICK o : o = Now
    OBVIOUS
  <1>2. o.counters = counters /\ Whole(o.counters)
    BY <1>1 DEF Now, EpochInv
  <1>3. /\ sinceEpoch \in Nat
        /\ config.epochAccesses # 0 =>
               sinceEpoch = o.counters.total /\ sinceEpoch <= config.epochAccesses
    BY <1>2, EpochTyped DEF EpochInv, EpochsAreWhole
  <1>4. /\ \E n : n = Closed + o.counters.total /\ Told(n)'
        /\ counters'.total = 0
    BY <1>1, <1>2, <1>3, EndEpochTold
  <1>5. PICK n : n = accesses' /\ Told(n)'
    BY <1>2, <1>4 DEF EpochInv, EpochsAreWhole
  <1>6. EpochsAreWhole'
    BY <1>4, <1>5 DEF Told, EpochsAreWhole
  <1> QED
    BY <1>5, <1>6 DEF Told, EpochInv

LEMMA EpochStep == EpochInv /\ [Next]_vars => EpochInv'
  <1> SUFFICES ASSUME EpochInv, [Next]_vars PROVE EpochInv'
    OBVIOUS
  <1>0. request \in Seq(LineAccess)
    BY DEF EpochInv
  <1>1. CASE UNCHANGED vars
    BY <1>0, <1>1, EpochAlone DEF vars, memory
  <1>2. ASSUME NEW r \in Requests, OnRequest(r) PROVE EpochInv'
    <2>1. request' \in Seq(LineAccess)
      BY <1>2, RequestLines
    <2> QED
      BY <1>2, <2>1, EpochAlone DEF OnRequest, memory
  <1>3. CASE OnLine
    BY <1>3, LineTold
  <1>4. CASE CloseByHand
    BY <1>4, CloseTold DEF CloseByHand
  <1>5. CASE Exit
    BY <1>5, CloseTold DEF Exit
  <1>6. CASE Flush
    BY <1>0, <1>6, EpochAlone DEF Flush, memory
  <1>7. CASE Complete
    BY <1>0, <1>7, EpochAlone DEF Complete, memory
  <1>8. CASE Rename
    BY <1>0, <1>8, EpochAlone DEF Rename, memory
  <1>9. CASE Kill
    BY <1>0, <1>9, EpochAlone DEF Kill, memory
  <1> QED
    BY <1>1, <1>2, <1>3, <1>4, <1>5, <1>6, <1>7, <1>8, <1>9 DEF Next

(***************************************************************************)
(* Every line counted is in exactly one epoch, closed or open, and an       *)
(* automatic epoch never outgrows its length (onRequest, countLine and      *)
(* endEpoch): for every configuration, every stream of requests and every   *)
(* mix of epochs closed by hand and by length.  What makes it inductive is  *)
(* that the open epoch's total is the sum over the pages it touched, which  *)
(* is what endEpoch reports.                                                *)
(***************************************************************************)
THEOREM LinesAreInOneEpoch == Spec => []EpochsAreWhole
  <1>1. Init => EpochInv
    <2> SUFFICES ASSUME Init PROVE EpochInv
      OBVIOUS
    <2>0. <<>> \in Seq(LineAccess) /\ <<>> \in Seq(Nat) /\ <<>> \in Seq({}) /\ Len(<<>>) = 0
      BY EmptySeq
    <2>1. /\ <<>> \in Seq(LineAccess) /\ <<>> \in Seq(Nat)
          /\ <<>> \in Seq({}) /\ DOMAIN <<>> = {}
      BY <2>0, LenProperties
    <2>2. ClosedCounts = [e \in {} |-> results[e].accesses]
      BY <2>1 DEF Init, ClosedCounts
    <2>3. <<>> = [e \in {} |-> results[e].accesses]
      BY <2>1
    <2>4. ClosedCounts \in Seq(Nat) /\ ResultsListed
      BY <2>1, <2>2, <2>3 DEF Init, ResultsListed
    <2>5. Closed = 0
      <3>1. PICK f : f = ClosedCounts
        OBVIOUS
      <3>2. DOMAIN f = {} /\ Closed = SumFunction(f)
        BY <2>2, <3>1 DEF Closed, ClosedCounts
      <3> QED
        BY <3>2, SumOfNone DEF SumFunction
    <2>6. Whole(counters) /\ counters.total = 0
      BY EmptyWhole DEF Init
    <2>7. config \in ProbeConfigs /\ config.epochAccesses \in Nat
      BY ProbeAssumption DEF Init, ProbeConfig
    <2>8. EpochsAreWhole
      BY <2>1, <2>5, <2>6, <2>7 DEF Init, EpochsAreWhole
    <2> QED
      BY <2>1, <2>4, <2>6, <2>7, <2>8 DEF Init, EpochInv, NoRequest
  <1>2. EpochInv => EpochsAreWhole
    BY DEF EpochInv
  <1> QED
    BY <1>1, <1>2, EpochStep, PTL DEF Spec

-----------------------------------------------------------------------------
(***************************************************************************)
(* A loop as a recursive function: from x it goes on with step[x] until it  *)
(* is in stop, and answers with out.                                        *)
(***************************************************************************)
Loop(f, D, stop, step, out) ==
    f = [x \in D |-> IF x \in stop THEN out[x] ELSE f[step[x]]]

\* There is such a function: what x can reach and is in stop is the same
\* before and after a step, whether the loop ends or not.
LEMMA LoopExists ==
    ASSUME NEW D, NEW stop \in SUBSET D, NEW step \in [D -> D], NEW out
    PROVE  \E f : Loop(f, D, stop, step, out)
  <1> DEFINE Closed0(S) == \A z \in S \ stop : step[z] \in S
             Ends(x) == {y \in stop : \A S \in SUBSET D : x \in S /\ Closed0(S) => y \in S}
             End(x) == CHOOSE y : y \in Ends(x)
             f == [x \in D |-> out[End(x)]]
  <1>1. ASSUME NEW x \in stop PROVE Ends(x) = {x}
    <2>1. Closed0({x})
      BY <1>1
    <2> QED
      BY <1>1, <2>1
  <1>2. ASSUME NEW x \in D \ stop PROVE Ends(x) = Ends(step[x])
    <2>1. ASSUME NEW y \in Ends(x) PROVE y \in Ends(step[x])
      <3> SUFFICES ASSUME NEW S \in SUBSET D, step[x] \in S, Closed0(S) PROVE y \in S
        BY <2>1
      <3>1. Closed0(S \cup {x}) /\ S \cup {x} \in SUBSET D
        OBVIOUS
      <3>2. y \in S \cup {x} /\ y # x
        BY <1>2, <2>1, <3>1
      <3> QED
        BY <3>2
    <2>2. ASSUME NEW y \in Ends(step[x]) PROVE y \in Ends(x)
      BY <1>2, <2>2
    <2> QED
      BY <2>1, <2>2
  <1>3. /\ \A x \in stop : End(x) = x
        /\ \A x \in D \ stop : step[x] \in D /\ End(x) = End(step[x])
    <2> HIDE DEF Ends
    <2> QED
      BY <1>1, <1>2
  <1> HIDE DEF End
  <1>4. \A x \in D : f[x] = IF x \in stop THEN out[x] ELSE f[step[x]]
    BY <1>3
  <1>5. f = [x \in D |-> f[x]]
    OBVIOUS
  <1> HIDE DEF f
  <1>6. Loop(f, D, stop, step, out)
    BY <1>4, <1>5 DEF Loop
  <1> QED
    BY <1>6

\* What every step keeps holds where the loop ends, and it ends where every
\* step brings it nearer.
LEMMA LoopEnds ==
    ASSUME NEW D, NEW stop \in SUBSET D, NEW step \in [D -> D], NEW out,
           NEW f, Loop(f, D, stop, step, out),
           NEW left \in [D -> Nat], \A x \in D \ stop : left[step[x]] < left[x],
           NEW P \in SUBSET D, \A x \in P \ stop : step[x] \in P,
           NEW x \in P
    PROVE  \E y \in P \cap stop : f[x] = out[y]
  <1> DEFINE Bad == {z \in P : ~ \E y \in P \cap stop : f[z] = out[y]}
             Far == {left[z] : z \in Bad}
  <1> SUFFICES ASSUME Bad # {} PROVE FALSE
    OBVIOUS
  <1>1. Far \subseteq Nat /\ Far # {}
    OBVIOUS
  <1>2. PICK m \in Far : \A n \in Far : m <= n
    <2> HIDE DEF Far
    <2> QED
      BY <1>1, LeastOfNat
  <1>3. PICK z \in Bad : m = left[z]
    BY <1>2
  <1>4. f[z] = IF z \in stop THEN out[z] ELSE f[step[z]]
    BY DEF Loop
  <1>5. z \notin stop
    BY <1>3, <1>4
  <1>6. step[z] \in P /\ left[step[z]] < m /\ f[z] = f[step[z]]
    BY <1>3, <1>4, <1>5
  <1>7. step[z] \notin Bad
    <2> SUFFICES ASSUME step[z] \in Bad PROVE FALSE
      OBVIOUS
    <2>1. left[step[z]] \in Far /\ left[step[z]] \in Nat /\ m \in Nat
      BY <1>1, <1>2, <1>6
    <2>2. m <= left[step[z]]
      BY <1>2, <2>1
    <2> QED
      BY <1>6, <2>1, <2>2
  <1> QED
    BY <1>3, <1>6, <1>7

-----------------------------------------------------------------------------
(***************************************************************************)
(* The heap of a Space-Saving tracker.                                      *)
(***************************************************************************)
\* No entry counts less than its parent.
Ordered(h) == \A j \in 2..Len(h) : h[j \div 2].count <= h[j].count

\* Only the entry at i may count more than its children, which count no less
\* than its parent.
DownFrom(h, i) ==
    /\ \A j \in 2..Len(h) : j \div 2 # i => h[j \div 2].count <= h[j].count
    /\ i >= 2 => \A j \in 2..Len(h) : j \div 2 = i => h[i \div 2].count <= h[j].count

\* Only the entry at i may count less than its parent, which counts no more
\* than the children of i.
UpFrom(h, i) ==
    /\ \A j \in 2..Len(h) : j # i => h[j \div 2].count <= h[j].count
    /\ i >= 2 => \A j \in 2..Len(h) : j \div 2 = i => h[i \div 2].count <= h[j].count

\* The map knows the place of every entry, and of no other key.
MapKept(t) ==
    /\ t \in Tracker
    /\ \A i \in DOMAIN t.heap : t.pos[t.heap[i].key] = i
    /\ \A k \in Keys : t.pos[k] # 0 => t.pos[k] \in DOMAIN t.heap /\ t.heap[t.pos[k]].key = k

LEMMA HeapTyped ==
    ASSUME NEW h \in Seq(Entry)
    PROVE  /\ Len(h) \in Nat /\ DOMAIN h = 1..Len(h)
           /\ \A i \in 1..Len(h) : /\ h[i] \in Entry /\ h[i].key \in Keys
                                   /\ h[i].count \in Nat /\ h[i].error \in Nat
  <1>1. Len(h) \in Nat /\ DOMAIN h = 1..Len(h) /\ \A i \in 1..Len(h) : h[i] \in Entry
    OBVIOUS
  <1> QED
    BY <1>1 DEF Entry

LEMMA TrackerTyped ==
    ASSUME NEW t \in Tracker
    PROVE  /\ t = [heap |-> t.heap, pos |-> t.pos, evictions |-> t.evictions]
           /\ t.heap \in Seq(Entry) /\ Len(t.heap) \in Nat /\ DOMAIN t.heap = 1..Len(t.heap)
           /\ t.pos \in [Keys -> Nat] /\ t.evictions \in Nat
           /\ \A i \in DOMAIN t.heap : /\ t.heap[i] \in Entry /\ t.heap[i].key \in Keys
                                       /\ t.heap[i].count \in Nat /\ t.heap[i].error \in Nat
  <1>1. /\ t = [heap |-> t.heap, pos |-> t.pos, evictions |-> t.evictions]
        /\ t.heap \in Seq(Entry) /\ t.pos \in [Keys -> Nat] /\ t.evictions \in Nat
    BY DEF Tracker
  <1>2. PICK h : h = t.heap
    OBVIOUS
  <1> QED
    BY <1>1, <1>2, HeapTyped

\* The root of an ordered heap has the smallest count.
LEMMA RootIsLeast ==
    ASSUME NEW h \in Seq(Entry), Ordered(h), NEW i \in 1..Len(h)
    PROVE  h[1].count <= h[i].count
  <1> DEFINE Less == {j \in 1..Len(h) : ~ (h[1].count <= h[j].count)}
  <1>1. Len(h) \in Nat /\ \A j \in 1..Len(h) : h[j].count \in Nat
    BY HeapTyped
  <1> SUFFICES ASSUME Less # {} PROVE FALSE
    OBVIOUS
  <1>2. PICK m \in Less : \A j \in Less : m <= j
    <2>1. Less \subseteq Nat
      BY <1>1
    <2> HIDE DEF Less
    <2> QED
      BY <2>1, LeastOfNat
  <1>3. PICK p : p = m \div 2
    OBVIOUS
  <1>4. m \in 2..Len(h) /\ p \in 1..Len(h) /\ p < m
    BY <1>1, <1>2, <1>3
  <1>5. h[p].count <= h[m].count
    BY <1>3, <1>4 DEF Ordered
  <1>6. h[1].count <= h[p].count
    <2>1. p \notin Less
      BY <1>2, <1>4
    <2> QED
      BY <1>4, <2>1
  <1>7. h[1].count \in Nat /\ h[p].count \in Nat /\ h[m].count \in Nat
    BY <1>1, <1>4
  <1> QED
    BY <1>2, <1>5, <1>6, <1>7

\* Of a place and its children.
LEMMA SmallestIs ==
    ASSUME NEW h \in Seq(Entry), NEW i \in 1..Len(h)
    PROVE  LET m == Smallest(h, i)
           IN  /\ m \in 1..Len(h) /\ m \in {i, 2 * i, 2 * i + 1}
               /\ \A j \in {i, 2 * i, 2 * i + 1} : j <= Len(h) => h[m].count <= h[j].count
               /\ m # i => i < m /\ m \div 2 = i /\ h[m].count < h[i].count
  <1> DEFINE family == {j \in {i, 2 * i, 2 * i + 1} : j <= Len(h)}
             Before(j, m) == h[j].count < h[m].count \/ (h[j].count = h[m].count /\ j <= m)
             First(j) == \A m \in family : Before(j, m)
  <1>1. /\ i \in 1..Len(h) /\ Len(h) \in Nat /\ i \in Nat
        /\ \A j \in 1..Len(h) : h[j].count \in Nat
    BY HeapTyped
  <1>2. family \subseteq 1..Len(h) /\ i \in family
    BY <1>1
  <1>3. \A j, m \in family : Before(j, m) \/ Before(m, j)
    BY <1>1, <1>2
  <1>4. \A j, m, l \in family : Before(j, m) /\ Before(m, l) => Before(j, l)
    BY <1>1, <1>2
  <1>5. \E j \in family : First(j)
    <2> DEFINE a == i
               b == 2 * i
               c == 2 * i + 1
    <2>1. family \subseteq {a, b, c}
      OBVIOUS
    <2> HIDE DEF a, b, c, Before, family
    <2> QED
      BY <1>2, <1>3, <1>4, <2>1, SMTT(30)
  <1> DEFINE m == Smallest(h, i)
  <1>6. m \in family /\ First(m)
    <2>1. m = CHOOSE j \in family : First(j)
      BY DEF Smallest
    <2> HIDE DEF family, First, m
    <2> QED
      BY <1>5, <2>1
  <1> HIDE DEF m
  <1>7. m \in 1..Len(h) /\ m \in {i, 2 * i, 2 * i + 1} /\ m \in Nat
    BY <1>1, <1>2, <1>6
  <1>8. \A j \in family : h[m].count <= h[j].count
    BY <1>1, <1>2, <1>6, <1>7
  <1>9. m # i => i < m /\ m \div 2 = i /\ h[m].count < h[i].count
    <2> SUFFICES ASSUME m # i PROVE i < m /\ m \div 2 = i /\ h[m].count < h[i].count
      OBVIOUS
    <2>1. i < m /\ m \div 2 = i
      BY <1>1, <1>7
    <2>2. h[m].count < h[i].count \/ (h[m].count = h[i].count /\ m <= i)
      BY <1>2, <1>6
    <2>3. h[m].count \in Nat /\ h[i].count \in Nat
      BY <1>1, <1>7
    <2> QED
      BY <1>1, <1>7, <2>1, <2>2, <2>3
  <1>10. \A j \in {i, 2 * i, 2 * i + 1} : j <= Len(h) => h[m].count <= h[j].count
    BY <1>8
  <1> QED
    BY <1>7, <1>9, <1>10 DEF m

\* g is h with the entries at i and m swapped.
Swapped(h, g, i, m) ==
    /\ g \in Seq(Entry) /\ Len(g) = Len(h)
    /\ g[i] = h[m] /\ g[m] = h[i]
    /\ \A j \in 1..Len(h) : j # i /\ j # m => g[j] = h[j]

\* A parent, and whose parent a place is.
LEMMA Parents ==
    ASSUME NEW j \in Nat, NEW i \in Nat
    PROVE  /\ j >= 2 => j \div 2 \in 1..(j - 1)
           /\ j \div 2 = i <=> j = 2 * i \/ j = 2 * i + 1
  OBVIOUS

\* The entry at i goes below its smallest child m.
LEMMA SwapDown ==
    ASSUME NEW h \in Seq(Entry), NEW g, NEW i \in 1..Len(h), NEW m \in 1..Len(h),
           Swapped(h, g, i, m), DownFrom(h, i), i < m, m \div 2 = i, h[m].count < h[i].count,
           \A j \in {2 * i, 2 * i + 1} : j <= Len(h) => h[m].count <= h[j].count
    PROVE  DownFrom(g, m)
  <1>1. /\ Len(h) \in Nat /\ g \in Seq(Entry) /\ Len(g) = Len(h)
        /\ \A j \in 1..Len(h) : h[j].count \in Nat /\ g[j].count \in Nat
    BY HeapTyped DEF Swapped
  <1>2. /\ g[i].count = h[m].count /\ g[m].count = h[i].count
        /\ \A j \in 1..Len(h) : j # i /\ j # m => g[j].count = h[j].count
    BY DEF Swapped
  <1>3. ASSUME NEW j \in 2..Len(g), j \div 2 # m
        PROVE  g[j \div 2].count <= g[j].count
    <2>1. PICK p : p = j \div 2
      OBVIOUS
    <2>2. j \in 2..Len(h) /\ p \in 1..Len(h) /\ p < j /\ p # m
      BY <1>1, <1>3, <2>1, Parents
    <2>3. CASE p = i
      <3>0. i \in Nat /\ j \in Nat /\ j \div 2 = i /\ i < j
        BY <1>1, <2>1, <2>2, <2>3
      <3>1. j \in {2 * i, 2 * i + 1} /\ j # i
        BY <3>0, Parents
      <3>2. h[m].count <= h[j].count
        BY <3>1, <2>2
      <3>3. j # m => g[j].count = h[j].count
        BY <1>2, <2>2, <3>1
      <3> QED
        BY <1>1, <1>2, <2>1, <2>2, <2>3, <3>2, <3>3
    <2>4. CASE p # i /\ j = i
      <3>1. h[p].count <= h[m].count
        BY <2>1, <2>2, <2>4, <1>1 DEF DownFrom
      <3> QED
        BY <1>2, <2>1, <2>2, <2>4, <3>1
    <2>5. CASE p # i /\ j # i
      <3>1. j # m
        BY <2>1, <2>5
      <3>2. h[p].count <= h[j].count
        BY <2>1, <2>2, <2>5 DEF DownFrom
      <3> QED
        BY <1>1, <1>2, <2>1, <2>2, <2>5, <3>1, <3>2
    <2> QED
      BY <2>3, <2>4, <2>5
  <1>4. ASSUME NEW j \in 2..Len(g), j \div 2 = m
        PROVE  g[m \div 2].count <= g[j].count
    <2>1. j \in 2..Len(h) /\ j # i /\ j # m /\ m # i
      BY <1>1, <1>4, Parents
    <2>2. h[m].count <= h[j].count
      BY <1>4, <2>1 DEF DownFrom
    <2>3. g[i].count <= g[j].count
      BY <1>1, <1>2, <2>1, <2>2
    <2> QED
      BY <2>3
  <1> QED
    BY <1>3, <1>4 DEF DownFrom

\* The entry at i goes above its parent p.
LEMMA SwapUp ==
    ASSUME NEW h \in Seq(Entry), NEW g, NEW i \in 2..Len(h), NEW p \in 1..Len(h),
           p = i \div 2, Swapped(h, g, i, p), UpFrom(h, i), h[i].count < h[p].count
    PROVE  UpFrom(g, p)
  <1>1. /\ Len(h) \in Nat /\ g \in Seq(Entry) /\ Len(g) = Len(h)
        /\ \A j \in 1..Len(h) : h[j].count \in Nat /\ g[j].count \in Nat
    BY HeapTyped DEF Swapped
  <1>2. /\ g[i].count = h[p].count /\ g[p].count = h[i].count /\ p < i
        /\ \A j \in 1..Len(h) : j # i /\ j # p => g[j].count = h[j].count
    BY <1>1, Parents DEF Swapped
  <1>3. ASSUME NEW j \in 2..Len(g), j # p
        PROVE  g[j \div 2].count <= g[j].count
    <2>1. PICK q : q = j \div 2
      OBVIOUS
    <2>2. j \in 2..Len(h) /\ q \in 1..Len(h) /\ q < j
      BY <1>1, <2>1, Parents
    <2>3. CASE j = i
      BY <1>1, <1>2, <2>1, <2>3
    <2>4. CASE j # i /\ q = i
      <3>1. h[p].count <= h[j].count
        BY <2>1, <2>2, <2>4 DEF UpFrom
      <3> QED
        BY <1>2, <1>3, <2>1, <2>2, <2>4, <3>1
    <2>5. CASE j # i /\ q # i
      <3>1. h[q].count <= h[j].count
        BY <2>1, <2>2, <2>5 DEF UpFrom
      <3>2. g[j].count = h[j].count
        BY <1>2, <1>3, <2>2, <2>5
      <3>3. CASE q = p
        BY <1>1, <1>2, <2>1, <2>2, <3>1, <3>2, <3>3
      <3>4. CASE q # p
        BY <1>2, <2>1, <2>2, <2>5, <3>1, <3>2, <3>4
      <3> QED
        BY <3>3, <3>4
    <2> QED
      BY <2>3, <2>4, <2>5
  <1>4. ASSUME p >= 2, NEW j \in 2..Len(g), j \div 2 = p
        PROVE  g[p \div 2].count <= g[j].count
    <2>1. PICK q : q = p \div 2
      OBVIOUS
    <2>2. j \in 2..Len(h) /\ q \in 1..Len(h) /\ q < p /\ p < j /\ p \in 2..Len(h)
      BY <1>1, <1>4, <2>1, Parents
    <2>3. h[q].count <= h[p].count /\ g[q].count = h[q].count
      BY <1>2, <2>1, <2>2 DEF UpFrom
    <2>4. CASE j = i
      BY <1>2, <2>1, <2>3, <2>4
    <2>5. CASE j # i
      <3>1. h[p].count <= h[j].count /\ g[j].count = h[j].count
        BY <1>2, <1>4, <2>2, <2>5 DEF UpFrom
      <3> QED
        BY <1>1, <2>1, <2>2, <2>3, <3>1
    <2> QED
      BY <2>4, <2>5
  <1> QED
    BY <1>3, <1>4 DEF UpFrom

-----------------------------------------------------------------------------
\* What the map knows, by key.
LEMMA HeldAre ==
    ASSUME NEW t, MapKept(t)
    PROVE  /\ KeysHeld(t) = {k \in Keys : t.pos[k] # 0}
           /\ DOMAIN Entries(t) = KeysHeld(t)
           /\ \A k \in KeysHeld(t) :
                 /\ t.pos[k] \in DOMAIN t.heap /\ t.heap[t.pos[k]].key = k
                 /\ Entries(t)[k] = [count |-> t.heap[t.pos[k]].count,
                                     error |-> t.heap[t.pos[k]].error]
  <1>1. /\ t \in Tracker /\ DOMAIN t.heap = 1..Len(t.heap) /\ Len(t.heap) \in Nat
        /\ \A i \in DOMAIN t.heap : t.heap[i].key \in Keys
    BY TrackerTyped DEF MapKept
  <1>2. KeysHeld(t) = {k \in Keys : t.pos[k] # 0}
    BY <1>1 DEF MapKept, KeysHeld
  <1>3. ASSUME NEW k \in KeysHeld(t)
        PROVE  /\ t.pos[k] \in DOMAIN t.heap /\ t.heap[t.pos[k]].key = k
               /\ EntryOf(t, k) = t.heap[t.pos[k]]
    <2>1. k \in Keys /\ t.pos[k] \in DOMAIN t.heap /\ t.heap[t.pos[k]].key = k
      BY <1>2, <1>3 DEF MapKept
    <2>2. \A i \in DOMAIN t.heap : t.heap[i].key = k => i = t.pos[k]
      BY DEF MapKept
    <2>3. (CHOOSE i \in DOMAIN t.heap : t.heap[i].key = k) = t.pos[k]
      BY <2>1, <2>2
    <2> QED
      BY <2>1, <2>3 DEF EntryOf
  <1> QED
    BY <1>2, <1>3 DEF Entries

\* As many keys are held as there are places.
LEMMA PlacesCount ==
    ASSUME NEW t, MapKept(t)
    PROVE  IsFiniteSet(KeysHeld(t)) /\ Cardinality(KeysHeld(t)) = Len(t.heap)
  <1> DEFINE n == Len(t.heap)
             f == [i \in 1..n |-> t.heap[i].key]
  <1>1. n \in Nat /\ DOMAIN t.heap = 1..n
    BY TrackerTyped DEF MapKept
  <1>2. f \in Bijection(1..n, KeysHeld(t))
    <2>1. f \in [1..n -> KeysHeld(t)]
      BY <1>1 DEF KeysHeld
    <2>2. \A i, j \in 1..n : f[i] = f[j] => i = j
      BY <1>1 DEF MapKept
    <2>3. \A k \in KeysHeld(t) : \E i \in 1..n : f[i] = k
      BY <1>1 DEF KeysHeld
    <2> QED
      BY <2>1, <2>2, <2>3 DEF Bijection, Injection, Surjection, IsInjective
  <1> HIDE DEF f, n
  <1>3. IsFiniteSet(1..n) /\ Cardinality(1..n) = n
    BY <1>1, FS_Interval
  <1>4. IsFiniteSet(KeysHeld(t)) /\ Cardinality(KeysHeld(t)) = Cardinality(1..n)
    BY <1>2, <1>3, FS_Bijection DEF ExistsBijection
  <1> QED
    BY <1>3, <1>4 DEF n

\* The same entries, in some order.
Alike(t, u) == Entries(u) = Entries(t) /\ Len(u.heap) = Len(t.heap)

LEMMA SwapTyped ==
    ASSUME NEW t \in Tracker, NEW i \in DOMAIN t.heap, NEW j \in DOMAIN t.heap, i # j
    PROVE  LET u == SwapAt(t, i, j)
           IN  /\ u \in Tracker /\ Swapped(t.heap, u.heap, i, j)
               /\ u.pos = [t.pos EXCEPT ![t.heap[j].key] = i, ![t.heap[i].key] = j]
  <1> DEFINE u == SwapAt(t, i, j)
  <1>1. /\ t.heap \in Seq(Entry) /\ Len(t.heap) \in Nat /\ DOMAIN t.heap = 1..Len(t.heap)
        /\ t.pos \in [Keys -> Nat] /\ t.evictions \in Nat
        /\ t.heap[i] \in Entry /\ t.heap[j] \in Entry
        /\ t.heap[i].key \in Keys /\ t.heap[j].key \in Keys /\ i \in Nat /\ j \in Nat
    BY TrackerTyped
  <1>2. PICK h : h = t.heap
    OBVIOUS
  <1>3. PICK p : p = t.pos
    OBVIOUS
  <1>4. PICK g : g = [h EXCEPT ![i] = h[j], ![j] = h[i]]
    OBVIOUS
  <1>5. PICK q : q = [p EXCEPT ![h[j].key] = i, ![h[i].key] = j]
    OBVIOUS
  <1>6. u = [heap |-> g, pos |-> q, evictions |-> t.evictions]
    <2>1. u = [t EXCEPT !.heap = g, !.pos = q]
      BY <1>2, <1>3, <1>4, <1>5 DEF SwapAt, Tracker
    <2> HIDE DEF u
    <2> QED
      BY <2>1 DEF Tracker
  <1>7. /\ g \in Seq(Entry) /\ Len(g) = Len(h) /\ g[i] = h[j] /\ g[j] = h[i]
        /\ \A l \in 1..Len(h) : l # i /\ l # j => g[l] = h[l]
    BY <1>1, <1>2, <1>4
  <1>8. q \in [Keys -> Nat]
    BY <1>1, <1>2, <1>3, <1>5
  <1>9. u \in Tracker
    BY <1>1, <1>6, <1>7, <1>8 DEF Tracker
  <1> QED
    BY <1>2, <1>3, <1>5, <1>6, <1>7, <1>9 DEF Swapped

LEMMA SwapKeeps ==
    ASSUME NEW t, MapKept(t), NEW i \in DOMAIN t.heap, NEW j \in DOMAIN t.heap, i # j
    PROVE  LET u == SwapAt(t, i, j) IN MapKept(u) /\ Alike(t, u)
  <1>0. PICK u : u = SwapAt(t, i, j)
    OBVIOUS
  <1>1. /\ t \in Tracker /\ t.heap \in Seq(Entry)
        /\ Len(t.heap) \in Nat /\ DOMAIN t.heap = 1..Len(t.heap)
        /\ t.pos \in [Keys -> Nat]
        /\ t.heap[i].key \in Keys /\ t.heap[j].key \in Keys /\ i \in Nat /\ j \in Nat
        /\ \A l \in DOMAIN t.heap : t.heap[l].key \in Keys
    BY TrackerTyped DEF MapKept
  <1>2. /\ u \in Tracker /\ Swapped(t.heap, u.heap, i, j)
        /\ u.pos = [t.pos EXCEPT ![t.heap[j].key] = i, ![t.heap[i].key] = j]
    BY <1>0, <1>1, SwapTyped
  <1>3. PICK a : a = t.heap[i].key
    OBVIOUS
  <1>4. PICK b : b = t.heap[j].key
    OBVIOUS
  <1>5. a \in Keys /\ b \in Keys /\ a # b /\ t.pos[a] = i /\ t.pos[b] = j
    BY <1>1, <1>3, <1>4 DEF MapKept
  <1>6. /\ u.pos[a] = j /\ u.pos[b] = i
        /\ \A k \in Keys : k # a /\ k # b => u.pos[k] = t.pos[k]
    BY <1>1, <1>2, <1>3, <1>4, <1>5
  <1>7. /\ u.heap[i] = t.heap[j] /\ u.heap[j] = t.heap[i] /\ Len(u.heap) = Len(t.heap)
        /\ DOMAIN u.heap = DOMAIN t.heap
        /\ \A l \in DOMAIN t.heap : l # i /\ l # j => u.heap[l] = t.heap[l]
    BY <1>1, <1>2 DEF Swapped
  <1>8. ASSUME NEW l \in DOMAIN u.heap PROVE u.pos[u.heap[l].key] = l
    <2>1. CASE l = i
      BY <1>4, <1>6, <1>7, <2>1
    <2>2. CASE l = j
      BY <1>3, <1>6, <1>7, <2>2
    <2>3. CASE l # i /\ l # j
      <3>1. l \in DOMAIN t.heap /\ u.heap[l] = t.heap[l]
        BY <1>7, <2>3
      <3>2. PICK k : k = t.heap[l].key
        OBVIOUS
      <3>3. k \in Keys /\ t.pos[k] = l
        BY <1>1, <3>1, <3>2 DEF MapKept
      <3>4. k # a /\ k # b
        BY <1>5, <2>3, <3>3
      <3> QED
        BY <1>6, <3>1, <3>2, <3>3, <3>4
    <2> QED
      BY <2>1, <2>2, <2>3
  <1>9. ASSUME NEW k \in Keys
        PROVE  /\ (u.pos[k] # 0 <=> t.pos[k] # 0)
               /\ t.pos[k] # 0 => /\ u.pos[k] \in DOMAIN u.heap
                                  /\ u.heap[u.pos[k]] = t.heap[t.pos[k]]
                                  /\ u.heap[u.pos[k]].key = k
    <2>1. CASE k = a
      BY <1>1, <1>3, <1>5, <1>6, <1>7, <2>1
    <2>2. CASE k = b
      BY <1>1, <1>4, <1>5, <1>6, <1>7, <2>2
    <2>3. CASE k # a /\ k # b
      <3>1. u.pos[k] = t.pos[k]
        BY <1>6, <2>3
      <3>2. t.pos[k] # 0 => t.pos[k] \in DOMAIN t.heap /\ t.heap[t.pos[k]].key = k
        BY DEF MapKept
      <3>3. t.pos[k] # 0 => t.pos[k] # i /\ t.pos[k] # j
        BY <1>3, <1>4, <2>3, <3>2
      <3> QED
        BY <1>7, <3>1, <3>2, <3>3
    <2> QED
      BY <2>1, <2>2, <2>3
  <1>10. MapKept(u)
    BY <1>2, <1>8, <1>9 DEF MapKept
  <1>11. Entries(u) = Entries(t)
    <2>1. KeysHeld(u) = KeysHeld(t)
      <3>1. KeysHeld(u) = {k \in Keys : u.pos[k] # 0}
        BY <1>10, HeldAre
      <3>2. KeysHeld(t) = {k \in Keys : t.pos[k] # 0}
        BY HeldAre
      <3> QED
        BY <1>9, <3>1, <3>2
    <2>2. ASSUME NEW k \in KeysHeld(t) PROVE Entries(u)[k] = Entries(t)[k]
      <3>1. k \in Keys /\ t.pos[k] # 0
        BY HeldAre
      <3>2. Entries(t)[k] = [count |-> t.heap[t.pos[k]].count, error |-> t.heap[t.pos[k]].error]
        BY HeldAre
      <3>3. Entries(u)[k] = [count |-> u.heap[u.pos[k]].count, error |-> u.heap[u.pos[k]].error]
        BY <1>10, <2>1, HeldAre
      <3> QED
        BY <1>9, <3>1, <3>2, <3>3
    <2>3. /\ Entries(u) = [k \in KeysHeld(u) |-> Entries(u)[k]]
          /\ Entries(t) = [k \in KeysHeld(t) |-> Entries(t)[k]]
      BY DEF Entries
    <2> QED
      BY <2>1, <2>2, <2>3
  <1> QED
    BY <1>0, <1>7, <1>10, <1>11 DEF Alike

-----------------------------------------------------------------------------
LEMMA PositionIs ==
    ASSUME NEW x \in Position
    PROVE  /\ x = <<x[1], x[2]>> /\ x[1] \in Tracker /\ x[2] \in Nat
           /\ x[2] \in DOMAIN x[1].heap /\ x[2] \in 1..Len(x[1].heap)
           /\ x[1].heap \in Seq(Entry) /\ Len(x[1].heap) \in Nat
  <1>1. /\ x = <<x[1], x[2]>> /\ x[1] \in Tracker /\ x[2] \in Nat
        /\ x[2] \in DOMAIN x[1].heap
    BY DEF Position
  <1>2. PICK t : t = x[1]
    OBVIOUS
  <1> QED
    BY <1>1, <1>2, TrackerTyped

\* A step of a sift from i to m leaves an entry to look at.
LEMMA SiftStep ==
    ASSUME NEW t \in Tracker, NEW i \in DOMAIN t.heap, NEW m \in DOMAIN t.heap, i # m
    PROVE  <<SwapAt(t, i, m), m>> \in Position
  <1>1. PICK u : u = SwapAt(t, i, m)
    OBVIOUS
  <1>2. u \in Tracker /\ Swapped(t.heap, u.heap, i, m)
    BY <1>1, SwapTyped
  <1>3. m \in Nat /\ m \in DOMAIN u.heap
    BY <1>2, TrackerTyped DEF Swapped
  <1> QED
    BY <1>1, <1>2, <1>3 DEF Position

\* Where siftDown stops, and what one turn of it does.
DownStop == {x \in Position : Smallest(x[1].heap, x[2]) = x[2]}
DownTurn(x) == <<SwapAt(x[1], x[2], Smallest(x[1].heap, x[2])), Smallest(x[1].heap, x[2])>>
DownStep == [x \in Position |-> IF x \in DownStop THEN x ELSE DownTurn(x)]

UpStop == {x \in Position : \/ x[2] \div 2 = 0
                            \/ x[1].heap[x[2] \div 2].count <= x[1].heap[x[2]].count}
UpTurn(x) == <<SwapAt(x[1], x[2], x[2] \div 2), x[2] \div 2>>
UpStep == [x \in Position |-> IF x \in UpStop THEN x ELSE UpTurn(x)]

Result == [x \in Position |-> x[1]]

\* One turn of siftDown swaps an entry with a smaller child, its smallest.
LEMMA DownTurnIs ==
    ASSUME NEW x \in Position, x \notin DownStop
    PROVE  /\ DownTurn(x) \in Position /\ DownStep[x] = DownTurn(x)
           /\ \E m \in DOMAIN x[1].heap :
                 /\ DownTurn(x) = <<SwapAt(x[1], x[2], m), m>>
                 /\ x[2] < m /\ m \div 2 = x[2] /\ x[1].heap[m].count < x[1].heap[x[2]].count
                 /\ \A j \in {2 * x[2], 2 * x[2] + 1} :
                       j <= Len(x[1].heap) => x[1].heap[m].count <= x[1].heap[j].count
  <1>1. PICK t : t = x[1]
    OBVIOUS
  <1>2. PICK h : h = t.heap
    OBVIOUS
  <1>3. PICK i : i = x[2]
    OBVIOUS
  <1>4. /\ t \in Tracker /\ i \in DOMAIN t.heap /\ i \in 1..Len(h) /\ h \in Seq(Entry)
        /\ i \in Nat /\ DOMAIN h = 1..Len(h) /\ Len(h) \in Nat
    BY <1>1, <1>2, <1>3, PositionIs, TrackerTyped
  <1>5. PICK m : m = Smallest(h, i)
    OBVIOUS
  <1>6. m # i
    BY <1>1, <1>2, <1>3, <1>5 DEF DownStop
  <1>7. /\ m \in 1..Len(h) /\ i < m /\ m \div 2 = i /\ h[m].count < h[i].count
        /\ \A j \in {i, 2 * i, 2 * i + 1} : j <= Len(h) => h[m].count <= h[j].count
    BY <1>4, <1>5, <1>6, SmallestIs
  <1>8. DownTurn(x) = <<SwapAt(t, i, m), m>>
    BY <1>1, <1>2, <1>3, <1>5 DEF DownTurn
  <1>9. DownTurn(x) \in Position
    BY <1>2, <1>4, <1>6, <1>7, <1>8, SiftStep
  <1>10. DownStep[x] = DownTurn(x)
    BY DEF DownStep
  <1> QED
    BY <1>1, <1>2, <1>3, <1>4, <1>7, <1>8, <1>9, <1>10

LEMMA SiftDownLoops == Loop(SiftDown, Position, DownStop, DownStep, Result)
  <1>1. DownStep \in [Position -> Position]
    BY DownTurnIs DEF DownStep
  <1>2. PICK f : Loop(f, Position, DownStop, DownStep, Result)
    BY <1>1, LoopExists DEF DownStop
  <1> DEFINE Again(g, x) == LET t == x[1]
                                m == Smallest(t.heap, x[2])
                            IN  IF m = x[2] THEN t ELSE g[<<SwapAt(t, x[2], m), m>>]
  <1>3. ASSUME NEW g, NEW x \in Position
        PROVE  Again(g, x) = IF x \in DownStop THEN Result[x] ELSE g[DownStep[x]]
    <2>1. CASE x \in DownStop
      BY <2>1 DEF DownStop, Result
    <2>2. CASE x \notin DownStop
      <3>1. DownStep[x] = DownTurn(x)
        BY <2>2, DownTurnIs
      <3> QED
        BY <2>2, <3>1 DEF DownStop, DownTurn
    <2> QED
      BY <2>1, <2>2
  <1>4. SiftDown = CHOOSE g : g = [x \in Position |-> Again(g, x)]
    BY DEF SiftDown
  <1> HIDE DEF Again
  <1>5. ASSUME NEW g
        PROVE  [x \in Position |-> Again(g, x)]
                   = [x \in Position |-> IF x \in DownStop THEN Result[x] ELSE g[DownStep[x]]]
    BY <1>3
  <1>6. f = [x \in Position |-> Again(f, x)]
    BY <1>2, <1>5 DEF Loop
  <1>7. SiftDown = [x \in Position |-> Again(SiftDown, x)]
    BY <1>4, <1>6
  <1> QED
    BY <1>5, <1>7 DEF Loop

\* siftDown restores the order below the entry it begins at, and keeps the rest.
LEMMA SiftDownKeeps ==
    ASSUME NEW t, MapKept(t), NEW i \in DOMAIN t.heap, DownFrom(t.heap, i)
    PROVE  LET u == SiftDown[<<t, i>>]
           IN  MapKept(u) /\ Ordered(u.heap) /\ Alike(t, u)
  <1> DEFINE P == {x \in Position : /\ MapKept(x[1]) /\ Alike(t, x[1])
                                    /\ DownFrom(x[1].heap, x[2])}
             left == [x \in Position |-> Len(x[1].heap) - x[2]]
  <1>1. DownStep \in [Position -> Position] /\ DownStop \subseteq Position
    BY DownTurnIs DEF DownStep, DownStop
  <1>2. ASSUME NEW x \in Position, x \notin DownStop
        PROVE  left[DownStep[x]] < left[x]
    <2>1. PICK m \in DOMAIN x[1].heap :
             DownStep[x] = <<SwapAt(x[1], x[2], m), m>> /\ x[2] < m
      BY <1>2, DownTurnIs
    <2>2. PICK u : u = SwapAt(x[1], x[2], m)
      OBVIOUS
    <2>3. PICK s : s = x[1]
      OBVIOUS
    <2>4. PICK k : k = x[2]
      OBVIOUS
    <2>5. s \in Tracker /\ k \in DOMAIN s.heap /\ k \in Nat /\ k # m /\ m \in Nat
      BY <2>1, <2>3, <2>4, PositionIs, TrackerTyped
    <2>6. Len(u.heap) = Len(s.heap) /\ Len(s.heap) \in Nat
      <3>1. u = SwapAt(s, k, m) /\ m \in DOMAIN s.heap
        BY <2>1, <2>2, <2>3, <2>4
      <3>2. Swapped(s.heap, u.heap, k, m)
        BY <2>5, <3>1, SwapTyped
      <3> QED
        BY <2>5, <3>2, TrackerTyped DEF Swapped
    <2>7. DownStep[x] \in Position /\ DownStep[x] = <<u, m>>
      BY <1>1, <2>1, <2>2
    <2>8. left[DownStep[x]] = Len(u.heap) - m /\ left[x] = Len(s.heap) - k
      BY <2>3, <2>4, <2>7
    <2> QED
      BY <2>1, <2>4, <2>5, <2>6, <2>8
  <1>3. left \in [Position -> Nat]
    <2>1. ASSUME NEW x \in Position PROVE Len(x[1].heap) - x[2] \in Nat
      BY PositionIs
    <2> QED
      BY <2>1
  <1>4. ASSUME NEW x \in P, x \notin DownStop PROVE DownStep[x] \in P
    <2>1. PICK m \in DOMAIN x[1].heap :
             /\ DownStep[x] = <<SwapAt(x[1], x[2], m), m>>
             /\ x[2] < m /\ m \div 2 = x[2] /\ x[1].heap[m].count < x[1].heap[x[2]].count
             /\ \A j \in {2 * x[2], 2 * x[2] + 1} :
                   j <= Len(x[1].heap) => x[1].heap[m].count <= x[1].heap[j].count
      BY <1>4, DownTurnIs
    <2>2. PICK s : s = x[1]
      OBVIOUS
    <2>3. PICK k : k = x[2]
      OBVIOUS
    <2>4. PICK u : u = SwapAt(s, k, m)
      OBVIOUS
    <2>5. PICK h : h = s.heap
      OBVIOUS
    <2>6. /\ MapKept(s) /\ Alike(t, s) /\ DownFrom(h, k) /\ s \in Tracker
          /\ k \in DOMAIN s.heap /\ m \in DOMAIN s.heap /\ k # m
          /\ h \in Seq(Entry) /\ k \in 1..Len(h) /\ m \in 1..Len(h)
      <3>1. x \in Position /\ MapKept(x[1]) /\ Alike(t, x[1]) /\ DownFrom(x[1].heap, x[2])
        OBVIOUS
      <3>2. /\ s \in Tracker /\ k \in DOMAIN s.heap /\ k \in Nat
            /\ h \in Seq(Entry) /\ k \in 1..Len(h) /\ Len(h) \in Nat /\ DOMAIN s.heap = 1..Len(h)
        BY <2>2, <2>3, <2>5, <3>1, PositionIs, TrackerTyped
      <3>3. m \in DOMAIN s.heap /\ k # m
        BY <2>1, <2>2, <2>3, <3>2
      <3> QED
        BY <2>2, <2>3, <2>5, <3>1, <3>2, <3>3
    <2>7. MapKept(u) /\ Alike(s, u) /\ Swapped(h, u.heap, k, m)
      BY <2>4, <2>5, <2>6, SwapKeeps, SwapTyped
    <2>8. DownFrom(u.heap, m)
      BY <2>1, <2>2, <2>3, <2>5, <2>6, <2>7, SwapDown
    <2>9. DownStep[x] \in Position /\ DownStep[x] = <<u, m>>
      BY <1>1, <2>1, <2>2, <2>3, <2>4
    <2> QED
      BY <2>6, <2>7, <2>8, <2>9 DEF Alike
  <1>5. <<t, i>> \in P
    <2>1. t \in Tracker /\ i \in Nat
      BY TrackerTyped DEF MapKept
    <2> QED
      BY <2>1 DEF Position, Alike
  <1>6. P \in SUBSET Position /\ DownStop \in SUBSET Position
    BY <1>1
  <1>7. PICK y \in P \cap DownStop : SiftDown[<<t, i>>] = Result[y]
    <2> HIDE DEF P, left
    <2> QED
      BY <1>1, <1>2, <1>3, <1>4, <1>5, <1>6, SiftDownLoops, LoopEnds
  <1>8. PICK u : u = y[1]
    OBVIOUS
  <1>9. PICK k : k = y[2]
    OBVIOUS
  <1>10. /\ MapKept(u) /\ Alike(t, u) /\ DownFrom(u.heap, k) /\ Smallest(u.heap, k) = k
         /\ u.heap \in Seq(Entry) /\ k \in 1..Len(u.heap)
         /\ SiftDown[<<t, i>>] = u
    BY <1>7, <1>8, <1>9, PositionIs DEF DownStop, Result
  <1>11. \A j \in {k, 2 * k, 2 * k + 1} :
            j <= Len(u.heap) => u.heap[k].count <= u.heap[j].count
    <2>1. PICK h : h = u.heap
      OBVIOUS
    <2> QED
      BY <1>10, <2>1, SmallestIs
  <1>12. Ordered(u.heap)
    <2> SUFFICES ASSUME NEW j \in 2..Len(u.heap) PROVE u.heap[j \div 2].count <= u.heap[j].count
      BY DEF Ordered
    <2>1. CASE j \div 2 = k
      <3>1. j \in {2 * k, 2 * k + 1}
        BY <1>10, <2>1, Parents, HeapTyped
      <3>2. u.heap[k].count <= u.heap[j].count
        BY <1>11, <3>1, <1>10, HeapTyped
      <3> QED
        BY <2>1, <3>2
    <2>2. CASE j \div 2 # k
      BY <1>10, <2>2 DEF DownFrom
    <2> QED
      BY <2>1, <2>2
  <1> QED
    BY <1>10, <1>12

\* One turn of siftUp swaps an entry with its parent, which is larger.
LEMMA UpTurnIs ==
    ASSUME NEW x \in Position, x \notin UpStop
    PROVE  /\ UpTurn(x) \in Position /\ UpStep[x] = UpTurn(x)
           /\ \E p \in DOMAIN x[1].heap :
                 /\ UpTurn(x) = <<SwapAt(x[1], x[2], p), p>>
                 /\ p < x[2] /\ p = x[2] \div 2 /\ x[2] \in 2..Len(x[1].heap)
                 /\ x[1].heap[x[2]].count < x[1].heap[p].count
  <1>1. PICK t : t = x[1]
    OBVIOUS
  <1>2. PICK h : h = t.heap
    OBVIOUS
  <1>3. PICK i : i = x[2]
    OBVIOUS
  <1>4. /\ t \in Tracker /\ i \in DOMAIN t.heap /\ i \in 1..Len(h) /\ h \in Seq(Entry)
        /\ i \in Nat /\ DOMAIN h = 1..Len(h) /\ Len(h) \in Nat
    BY <1>1, <1>2, <1>3, PositionIs, TrackerTyped
  <1>5. PICK p : p = i \div 2
    OBVIOUS
  <1>6. p # 0 /\ ~ (h[p].count <= h[i].count)
    BY <1>1, <1>2, <1>3, <1>5 DEF UpStop
  <1>7. p \in 1..Len(h) /\ p < i /\ i \in 2..Len(h)
    BY <1>4, <1>5, <1>6
  <1>8. h[i].count < h[p].count
    <2>1. h[i].count \in Nat /\ h[p].count \in Nat
      BY <1>4, <1>7, HeapTyped
    <2> QED
      BY <1>6, <2>1
  <1>9. UpTurn(x) = <<SwapAt(t, i, p), p>>
    BY <1>1, <1>3, <1>5 DEF UpTurn
  <1>10. UpTurn(x) \in Position
    <2>1. p \in DOMAIN t.heap /\ i # p
      BY <1>2, <1>4, <1>7
    <2> QED
      BY <1>4, <1>9, <2>1, SiftStep
  <1>11. UpStep[x] = UpTurn(x)
    BY DEF UpStep
  <1> QED
    BY <1>1, <1>2, <1>3, <1>4, <1>5, <1>7, <1>8, <1>9, <1>10, <1>11

LEMMA SiftUpLoops == Loop(SiftUp, Position, UpStop, UpStep, Result)
  <1>1. UpStep \in [Position -> Position]
    BY UpTurnIs DEF UpStep
  <1>2. PICK f : Loop(f, Position, UpStop, UpStep, Result)
    BY <1>1, LoopExists DEF UpStop
  <1> DEFINE Again(g, x) == LET t == x[1]
                                p == x[2] \div 2
                            IN  IF p = 0 \/ t.heap[p].count <= t.heap[x[2]].count THEN t
                                ELSE g[<<SwapAt(t, x[2], p), p>>]
  <1>3. ASSUME NEW g, NEW x \in Position
        PROVE  Again(g, x) = IF x \in UpStop THEN Result[x] ELSE g[UpStep[x]]
    <2>1. CASE x \in UpStop
      BY <2>1 DEF UpStop, Result
    <2>2. CASE x \notin UpStop
      <3>1. UpStep[x] = UpTurn(x)
        BY <2>2, UpTurnIs
      <3> QED
        BY <2>2, <3>1 DEF UpStop, UpTurn
    <2> QED
      BY <2>1, <2>2
  <1>4. SiftUp = CHOOSE g : g = [x \in Position |-> Again(g, x)]
    BY DEF SiftUp
  <1> HIDE DEF Again
  <1>5. ASSUME NEW g
        PROVE  [x \in Position |-> Again(g, x)]
                   = [x \in Position |-> IF x \in UpStop THEN Result[x] ELSE g[UpStep[x]]]
    BY <1>3
  <1>6. f = [x \in Position |-> Again(f, x)]
    BY <1>2, <1>5 DEF Loop
  <1>7. SiftUp = [x \in Position |-> Again(SiftUp, x)]
    BY <1>4, <1>6
  <1> QED
    BY <1>5, <1>7 DEF Loop

\* siftUp restores the order above the entry it begins at, and keeps the rest.
LEMMA SiftUpKeeps ==
    ASSUME NEW t, MapKept(t), NEW i \in DOMAIN t.heap, UpFrom(t.heap, i)
    PROVE  LET u == SiftUp[<<t, i>>]
           IN  MapKept(u) /\ Ordered(u.heap) /\ Alike(t, u)
  <1> DEFINE P == {x \in Position : /\ MapKept(x[1]) /\ Alike(t, x[1])
                                    /\ UpFrom(x[1].heap, x[2])}
             left == [x \in Position |-> x[2]]
  <1>1. UpStep \in [Position -> Position] /\ UpStop \in SUBSET Position
    BY UpTurnIs DEF UpStep, UpStop
  <1>2. ASSUME NEW x \in Position, x \notin UpStop
        PROVE  left[UpStep[x]] < left[x]
    <2>1. PICK p \in DOMAIN x[1].heap :
             UpStep[x] = <<SwapAt(x[1], x[2], p), p>> /\ p < x[2]
      BY <1>2, UpTurnIs
    <2>2. UpStep[x] \in Position
      BY <1>1
    <2> QED
      BY <2>1, <2>2
  <1>3. left \in [Position -> Nat]
    BY PositionIs
  <1>4. ASSUME NEW x \in P, x \notin UpStop PROVE UpStep[x] \in P
    <2>1. PICK p \in DOMAIN x[1].heap :
             /\ UpStep[x] = <<SwapAt(x[1], x[2], p), p>>
             /\ p < x[2] /\ p = x[2] \div 2 /\ x[2] \in 2..Len(x[1].heap)
             /\ x[1].heap[x[2]].count < x[1].heap[p].count
      BY <1>4, UpTurnIs
    <2>2. PICK s : s = x[1]
      OBVIOUS
    <2>3. PICK k : k = x[2]
      OBVIOUS
    <2>4. PICK u : u = SwapAt(s, k, p)
      OBVIOUS
    <2>5. PICK h : h = s.heap
      OBVIOUS
    <2>6. /\ MapKept(s) /\ Alike(t, s) /\ UpFrom(h, k) /\ s \in Tracker
          /\ k \in DOMAIN s.heap /\ p \in DOMAIN s.heap /\ k # p
          /\ h \in Seq(Entry) /\ k \in 2..Len(h) /\ p \in 1..Len(h)
      <3>1. x \in Position /\ MapKept(x[1]) /\ Alike(t, x[1]) /\ UpFrom(x[1].heap, x[2])
        OBVIOUS
      <3>2. /\ s \in Tracker /\ k \in DOMAIN s.heap /\ k \in Nat
            /\ h \in Seq(Entry) /\ Len(h) \in Nat /\ DOMAIN s.heap = 1..Len(h)
        BY <2>2, <2>3, <2>5, <3>1, PositionIs, TrackerTyped
      <3>3. p \in DOMAIN s.heap /\ k # p /\ k \in 2..Len(h)
        BY <2>1, <2>2, <2>3, <2>5, <3>2
      <3> QED
        BY <2>2, <2>3, <2>5, <3>1, <3>2, <3>3
    <2>7. MapKept(u) /\ Alike(s, u) /\ Swapped(h, u.heap, k, p)
      BY <2>4, <2>5, <2>6, SwapKeeps, SwapTyped
    <2>8. UpFrom(u.heap, p)
      BY <2>1, <2>2, <2>3, <2>5, <2>6, <2>7, SwapUp
    <2>9. UpStep[x] \in Position /\ UpStep[x] = <<u, p>>
      BY <1>1, <2>1, <2>2, <2>3, <2>4
    <2> QED
      BY <2>6, <2>7, <2>8, <2>9 DEF Alike
  <1>5. <<t, i>> \in P
    <2>1. t \in Tracker /\ i \in Nat
      BY TrackerTyped DEF MapKept
    <2> QED
      BY <2>1 DEF Position, Alike
  <1>6. P \in SUBSET Position
    OBVIOUS
  <1>7. PICK y \in P \cap UpStop : SiftUp[<<t, i>>] = Result[y]
    <2> HIDE DEF P, left
    <2> QED
      BY <1>1, <1>2, <1>3, <1>4, <1>5, <1>6, SiftUpLoops, LoopEnds
  <1>8. PICK u : u = y[1]
    OBVIOUS
  <1>9. PICK k : k = y[2]
    OBVIOUS
  <1>10. /\ MapKept(u) /\ Alike(t, u) /\ UpFrom(u.heap, k)
         /\ k \div 2 = 0 \/ u.heap[k \div 2].count <= u.heap[k].count
         /\ Len(u.heap) \in Nat /\ k \in 1..Len(u.heap)
         /\ SiftUp[<<t, i>>] = u
    BY <1>7, <1>8, <1>9, PositionIs DEF UpStop, Result
  <1>11. Ordered(u.heap)
    <2> SUFFICES ASSUME NEW j \in 2..Len(u.heap) PROVE u.heap[j \div 2].count <= u.heap[j].count
      BY DEF Ordered
    <2>1. CASE j = k
      <3>1. k \div 2 # 0
        BY <1>10, <2>1
      <3> QED
        BY <1>10, <2>1, <3>1
    <2>2. CASE j # k
      BY <1>10, <2>2 DEF UpFrom
    <2> QED
      BY <2>1, <2>2
  <1> QED
    BY <1>10, <1>11

-----------------------------------------------------------------------------
(***************************************************************************)
(* An access of the tracker, seen as a map from keys to entries: a hit, a   *)
(* newcomer with room, or one that takes the place of a key of the smallest *)
(* count.                                                                   *)
(***************************************************************************)
HitEntries(e, key) == [e EXCEPT ![key].count = @ + 1]
MoreEntries(e, key) ==
    [k \in DOMAIN e \cup {key} |-> IF k = key THEN [count |-> 1, error |-> 0] ELSE e[k]]
OtherEntries(e, key, victim) ==
    [k \in (DOMAIN e \ {victim}) \cup {key} |->
        IF k = key THEN [count |-> e[victim].count + 1, error |-> e[victim].count] ELSE e[k]]
Smaller(e, victim) == \A k \in DOMAIN e : e[victim].count <= e[k].count

Hits(e, key, f) == key \in DOMAIN e /\ f = HitEntries(e, key)
Inserts(e, cap, key, f) ==
    key \notin DOMAIN e /\ ~ (Cardinality(DOMAIN e) >= cap) /\ f = MoreEntries(e, key)
Evicts(e, cap, key, victim, f) ==
    /\ key \notin DOMAIN e /\ Cardinality(DOMAIN e) >= cap
    /\ Smaller(e, victim) /\ f = OtherEntries(e, key, victim)
Accesses(e, cap, key, f) ==
    \/ Hits(e, key, f) \/ Inserts(e, cap, key, f)
    \/ \E victim \in DOMAIN e : Evicts(e, cap, key, victim, f)

HeapInv(t, cap) == MapKept(t) /\ Ordered(t.heap) /\ Len(t.heap) <= cap

\* Two trackers of the same keys have the same entries if each key has.
LEMMA EntriesBy ==
    ASSUME NEW t, MapKept(t), NEW e, e = [k \in DOMAIN e |-> e[k]], DOMAIN e = KeysHeld(t),
           \A k \in KeysHeld(t) : e[k] = [count |-> t.heap[t.pos[k]].count,
                                          error |-> t.heap[t.pos[k]].error]
    PROVE  Entries(t) = e
  <1>1. Entries(t) = [k \in KeysHeld(t) |-> Entries(t)[k]]
    BY DEF Entries
  <1>2. \A k \in KeysHeld(t) : Entries(t)[k] = e[k]
    BY HeldAre
  <1> QED
    BY <1>1, <1>2

LEMMA HitKeepsHeap ==
    ASSUME NEW t, NEW cap, HeapInv(t, cap), NEW key \in KeysHeld(t)
    PROVE  LET u == HitAt(t, t.pos[key])
           IN  HeapInv(u, cap) /\ Hits(Entries(t), key, Entries(u))
  <1>1. /\ MapKept(t) /\ Ordered(t.heap) /\ Len(t.heap) <= cap /\ t \in Tracker
    BY DEF HeapInv, MapKept
  <1>2. PICK h : h = t.heap
    OBVIOUS
  <1>3. PICK i : i = t.pos[key]
    OBVIOUS
  <1>4. /\ key \in Keys /\ i \in 1..Len(h) /\ i \in DOMAIN t.heap /\ h[i].key = key
        /\ h \in Seq(Entry) /\ Len(h) \in Nat /\ t.pos \in [Keys -> Nat] /\ t.evictions \in Nat
        /\ DOMAIN h = 1..Len(h)
        /\ \A j \in 1..Len(h) : h[j] \in Entry /\ h[j].count \in Nat
    <2>1. key \in Keys /\ i \in DOMAIN t.heap /\ t.heap[i].key = key
      BY <1>1, <1>3, HeldAre DEF MapKept
    <2>2. /\ h \in Seq(Entry) /\ t.pos \in [Keys -> Nat] /\ t.evictions \in Nat
          /\ DOMAIN t.heap = 1..Len(h)
      BY <1>1, <1>2, TrackerTyped
    <2> QED
      BY <1>2, <2>1, <2>2, HeapTyped
  <1>5. PICK g : g = [h EXCEPT ![i].count = @ + 1]
    OBVIOUS
  <1>6. PICK s : s = [t EXCEPT !.heap[i].count = @ + 1]
    OBVIOUS
  <1>7. s = [heap |-> g, pos |-> t.pos, evictions |-> t.evictions]
    <2>1. s = [t EXCEPT !.heap = g]
      BY <1>1, <1>2, <1>5, <1>6 DEF Tracker
    <2> QED
      BY <1>1, <2>1 DEF Tracker
  <1>8. g[i] = [h[i] EXCEPT !.count = @ + 1] /\ \A j \in 1..Len(h) : j # i => g[j] = h[j]
    BY <1>4, <1>5
  <1>9. /\ g[i].key = key /\ g[i].count = h[i].count + 1 /\ g[i].error = h[i].error
        /\ g[i] \in Entry
    <2>1. PICK r : r = h[i]
      OBVIOUS
    <2>2. r \in Entry /\ g[i] = [r EXCEPT !.count = @ + 1]
      BY <1>4, <1>8, <2>1
    <2>3. r.key = key /\ r.count \in Nat /\ r.error \in Nat
      BY <1>4, <2>1, <2>2 DEF Entry
    <2>4. g[i] = [key |-> key, count |-> r.count + 1, error |-> r.error]
      BY <2>2, <2>3 DEF Entry
    <2> QED
      BY <1>4, <2>1, <2>3, <2>4 DEF Entry
  <1>10. g \in Seq(Entry) /\ Len(g) = Len(h) /\ DOMAIN g = DOMAIN h
    BY <1>4, <1>5, <1>9
  <1>11. s \in Tracker
    BY <1>4, <1>7, <1>10 DEF Tracker
  <1>12. \A j \in 1..Len(h) : g[j].key = h[j].key
    BY <1>4, <1>8, <1>9
  <1>13. MapKept(s)
    BY <1>1, <1>2, <1>4, <1>7, <1>10, <1>11, <1>12 DEF MapKept
  <1>14. DownFrom(g, i)
    <2>1. ASSUME NEW j \in 2..Len(g), j \div 2 # i PROVE g[j \div 2].count <= g[j].count
      <3>1. PICK p : p = j \div 2
        OBVIOUS
      <3>2. j \in 1..Len(h) /\ p \in 1..Len(h) /\ p # i
        BY <1>4, <1>10, <2>1, <3>1
      <3>3. h[p].count <= h[j].count
        BY <1>1, <1>2, <1>10, <3>1 DEF Ordered
      <3>4. h[j].count \in Nat /\ h[p].count \in Nat /\ h[j].count <= g[j].count
        <4>1. CASE j = i
          BY <1>4, <1>9, <3>2, <4>1
        <4>2. CASE j # i
          BY <1>4, <1>8, <3>2, <4>2
        <4> QED
          BY <4>1, <4>2
      <3>5. g[p].count = h[p].count /\ g[j].count \in Nat
        <4>1. g[p] = h[p]
          BY <1>8, <3>2
        <4> QED
          BY <4>1, <1>10, <3>2, HeapTyped
      <3> QED
        BY <3>1, <3>3, <3>4, <3>5
    <2>2. ASSUME i >= 2, NEW j \in 2..Len(g), j \div 2 = i
          PROVE  g[i \div 2].count <= g[j].count
      <3>1. PICK p : p = i \div 2
        OBVIOUS
      <3>2. /\ j \in 1..Len(h) /\ p \in 1..Len(h) /\ p # i /\ j # i
            /\ i \in 2..Len(h) /\ j \in 2..Len(h)
        BY <1>4, <1>10, <2>2, <3>1
      <3>3. h[p].count <= h[i].count /\ h[i].count <= h[j].count
        BY <1>1, <1>2, <2>2, <3>1, <3>2 DEF Ordered
      <3>4. h[j].count \in Nat /\ h[p].count \in Nat /\ h[i].count \in Nat
        BY <1>4, <3>2
      <3>5. g[p] = h[p] /\ g[j] = h[j]
        BY <1>8, <3>2
      <3> QED
        BY <3>1, <3>3, <3>4, <3>5
    <2> QED
      BY <2>1, <2>2 DEF DownFrom
  <1>15. PICK u : u = SiftDown[<<s, i>>]
    OBVIOUS
  <1>16. MapKept(u) /\ Ordered(u.heap) /\ Alike(s, u) /\ u = HitAt(t, t.pos[key])
    <2>1. i \in DOMAIN s.heap /\ DownFrom(s.heap, i)
      BY <1>4, <1>7, <1>10, <1>14
    <2>2. MapKept(u) /\ Ordered(u.heap) /\ Alike(s, u)
      BY <1>13, <1>15, <2>1, SiftDownKeeps
    <2>3. u = HitAt(t, t.pos[key])
      BY <1>3, <1>6, <1>15 DEF HitAt
    <2> QED
      BY <2>2, <2>3
  <1>17. HeapInv(u, cap)
    BY <1>1, <1>2, <1>7, <1>10, <1>16 DEF HeapInv, Alike
  <1>18. Entries(s) = HitEntries(Entries(t), key)
    <2>1. KeysHeld(s) = KeysHeld(t)
      <3>1. KeysHeld(s) = {k \in Keys : s.pos[k] # 0} /\ KeysHeld(t) = {k \in Keys : t.pos[k] # 0}
        BY <1>1, <1>13, HeldAre
      <3> QED
        BY <1>7, <3>1
    <2>2. PICK e : e = Entries(t)
      OBVIOUS
    <2>3. /\ DOMAIN e = KeysHeld(t)
          /\ \A k \in KeysHeld(t) :
                /\ t.pos[k] \in 1..Len(h) /\ h[t.pos[k]].key = k
                /\ e[k] = [count |-> h[t.pos[k]].count, error |-> h[t.pos[k]].error]
      BY <1>1, <1>2, <1>4, <2>2, HeldAre
    <2>4. PICK f : f = HitEntries(e, key)
      OBVIOUS
    <2>5. DOMAIN f = KeysHeld(t) /\ f = [k \in DOMAIN f |-> f[k]]
      BY <2>2, <2>3, <2>4 DEF HitEntries, Entries
    <2>6. ASSUME NEW k \in KeysHeld(t)
          PROVE  f[k] = [count |-> g[t.pos[k]].count, error |-> g[t.pos[k]].error]
      <3>1. CASE k = key
        BY <1>3, <1>9, <2>3, <2>4, <3>1 DEF HitEntries
      <3>2. CASE k # key
        <4>1. t.pos[k] # i
          BY <1>4, <2>3, <3>2
        <4> QED
          BY <1>8, <2>3, <2>4, <3>2, <4>1 DEF HitEntries
      <3> QED
        BY <3>1, <3>2
    <2>7. Entries(s) = f
      BY <1>7, <1>13, <2>1, <2>5, <2>6, EntriesBy
    <2> QED
      BY <2>2, <2>4, <2>7
  <1>19. Hits(Entries(t), key, Entries(u))
    BY <1>1, <1>16, <1>18, HeldAre DEF Hits, Alike
  <1> QED
    BY <1>16, <1>17, <1>19

LEMMA InsertKeepsHeap ==
    ASSUME NEW t, NEW cap \in Nat, HeapInv(t, cap), NEW key \in Keys, key \notin KeysHeld(t),
           Len(t.heap) < cap
    PROVE  LET u == InsertLast(t, key)
           IN  HeapInv(u, cap) /\ Inserts(Entries(t), cap, key, Entries(u))
  <1>1. /\ MapKept(t) /\ Ordered(t.heap) /\ t \in Tracker
    BY DEF HeapInv, MapKept
  <1>2. PICK h : h = t.heap
    OBVIOUS
  <1>3. PICK last : last = Len(h) + 1
    OBVIOUS
  <1>4. PICK r : r = [key |-> key, count |-> 1, error |-> 0]
    OBVIOUS
  <1>5. /\ h \in Seq(Entry) /\ Len(h) \in Nat /\ t.pos \in [Keys -> Nat] /\ t.evictions \in Nat
        /\ DOMAIN h = 1..Len(h) /\ last \in Nat /\ last # 0
        /\ \A j \in 1..Len(h) : h[j] \in Entry /\ h[j].count \in Nat /\ h[j].key \in Keys
    BY <1>1, <1>2, <1>3, HeapTyped, TrackerTyped
  <1>6. r \in Entry
    BY <1>4 DEF Entry
  <1>7. PICK g : g = Append(h, r)
    OBVIOUS
  <1>8. PICK q : q = [t.pos EXCEPT ![key] = last]
    OBVIOUS
  <1>9. PICK s : s = [t EXCEPT !.heap = Append(@, r), !.pos[key] = last]
    OBVIOUS
  <1>10. s = [heap |-> g, pos |-> q, evictions |-> t.evictions]
    <2>1. s = [t EXCEPT !.heap = g, !.pos = q]
      BY <1>1, <1>2, <1>7, <1>8, <1>9 DEF Tracker
    <2> QED
      BY <1>1, <2>1 DEF Tracker
  <1>11. /\ g \in Seq(Entry) /\ Len(g) = last /\ DOMAIN g = 1..last
         /\ g[last] = r /\ \A j \in 1..Len(h) : g[j] = h[j]
    BY <1>3, <1>5, <1>6, <1>7
  <1>12. /\ q \in [Keys -> Nat] /\ q[key] = last
         /\ \A k \in Keys : k # key => q[k] = t.pos[k]
    BY <1>5, <1>8
  <1>13. t.pos[key] = 0
    BY <1>1, HeldAre
  <1>14. MapKept(s)
    <2>1. s \in Tracker
      BY <1>5, <1>10, <1>11, <1>12 DEF Tracker
    <2>2. ASSUME NEW j \in 1..last PROVE q[g[j].key] = j
      <3>1. CASE j = last
        BY <1>4, <1>11, <1>12, <3>1
      <3>2. CASE j # last
        <4>1. j \in 1..Len(h) /\ j # 0
          BY <1>3, <1>5, <3>2
        <4>2. t.pos[h[j].key] = j /\ h[j].key \in Keys
          BY <1>1, <1>2, <1>5, <4>1 DEF MapKept
        <4>3. h[j].key # key
          BY <1>13, <4>1, <4>2
        <4> QED
          BY <1>11, <1>12, <4>1, <4>2, <4>3
      <3> QED
        BY <3>1, <3>2
    <2>3. ASSUME NEW k \in Keys, q[k] # 0 PROVE q[k] \in 1..last /\ g[q[k]].key = k
      <3>1. CASE k = key
        BY <1>3, <1>4, <1>5, <1>11, <1>12, <3>1
      <3>2. CASE k # key
        <4>1. t.pos[k] \in 1..Len(h) /\ h[t.pos[k]].key = k
          BY <1>1, <1>2, <1>5, <1>12, <2>3, <3>2 DEF MapKept
        <4> QED
          BY <1>3, <1>5, <1>11, <1>12, <3>2, <4>1
      <3> QED
        BY <3>1, <3>2
    <2> QED
      BY <1>10, <1>11, <2>1, <2>2, <2>3 DEF MapKept
  <1>15. UpFrom(g, last)
    <2>1. ASSUME NEW j \in 2..Len(g), j # last PROVE g[j \div 2].count <= g[j].count
      <3>1. PICK p : p = j \div 2
        OBVIOUS
      <3>2. j \in 2..Len(h) /\ j \in 1..Len(h) /\ p \in 1..Len(h)
        BY <1>3, <1>5, <1>11, <2>1, <3>1
      <3>3. h[p].count <= h[j].count
        BY <1>1, <1>2, <3>1, <3>2 DEF Ordered
      <3> QED
        BY <1>11, <3>1, <3>2, <3>3
    <2>2. \A j \in 2..Len(g) : j \div 2 # last
      BY <1>3, <1>5, <1>11
    <2> QED
      BY <2>1, <2>2 DEF UpFrom
  <1>16. PICK u : u = SiftUp[<<s, last>>]
    OBVIOUS
  <1>17. MapKept(u) /\ Ordered(u.heap) /\ Alike(s, u)
    <2>1. last \in DOMAIN s.heap /\ UpFrom(s.heap, last)
      BY <1>3, <1>5, <1>10, <1>11, <1>15
    <2> QED
      BY <1>14, <1>16, <2>1, SiftUpKeeps
  <1>18. u = InsertLast(t, key)
    BY <1>2, <1>3, <1>4, <1>9, <1>16 DEF InsertLast
  <1>19. HeapInv(u, cap)
    BY <1>2, <1>3, <1>5, <1>10, <1>11, <1>17 DEF HeapInv, Alike
  <1>20. PICK e : e = Entries(t)
    OBVIOUS
  <1>21. /\ DOMAIN e = KeysHeld(t) /\ Cardinality(DOMAIN e) = Len(h)
         /\ \A k \in KeysHeld(t) :
               /\ k \in Keys /\ t.pos[k] \in 1..Len(h)
               /\ e[k] = [count |-> h[t.pos[k]].count, error |-> h[t.pos[k]].error]
    <2>1. Cardinality(KeysHeld(t)) = Len(h)
      BY <1>1, <1>2, PlacesCount
    <2>2. KeysHeld(t) = {k \in Keys : t.pos[k] # 0}
      BY <1>1, HeldAre
    <2> QED
      BY <1>1, <1>2, <1>5, <1>20, <2>1, <2>2, HeldAre
  <1>22. Entries(s) = MoreEntries(e, key)
    <2>1. KeysHeld(s) = KeysHeld(t) \cup {key}
      <3>1. KeysHeld(s) = {k \in Keys : s.pos[k] # 0} /\ KeysHeld(t) = {k \in Keys : t.pos[k] # 0}
        BY <1>1, <1>14, HeldAre
      <3>2. s.pos = q
        BY <1>10
      <3> QED
        BY <1>5, <1>12, <3>1, <3>2
    <2>2. PICK f : f = MoreEntries(e, key)
      OBVIOUS
    <2>3. DOMAIN f = KeysHeld(s) /\ f = [k \in DOMAIN f |-> f[k]]
      BY <1>21, <2>1, <2>2 DEF MoreEntries
    <2>4. ASSUME NEW k \in KeysHeld(s)
          PROVE  f[k] = [count |-> g[q[k]].count, error |-> g[q[k]].error]
      <3>1. CASE k = key
        BY <1>4, <1>11, <1>12, <1>21, <2>1, <2>2, <3>1 DEF MoreEntries
      <3>2. CASE k # key
        <4>1. k \in KeysHeld(t) /\ k \in Keys /\ t.pos[k] \in 1..Len(h)
          BY <1>21, <2>1, <3>2
        <4>2. q[k] = t.pos[k] /\ g[q[k]] = h[t.pos[k]]
          BY <1>11, <1>12, <3>2, <4>1
        <4>3. f[k] = e[k]
          BY <1>21, <2>1, <2>2, <3>2, <4>1 DEF MoreEntries
        <4> QED
          BY <1>21, <4>1, <4>2, <4>3
      <3> QED
        BY <3>1, <3>2
    <2>5. Entries(s) = f
      BY <1>10, <1>14, <2>3, <2>4, EntriesBy
    <2> QED
      BY <2>2, <2>5
  <1>23. Inserts(e, cap, key, Entries(u))
    BY <1>2, <1>5, <1>17, <1>21, <1>22 DEF Inserts, Alike
  <1> QED
    BY <1>18, <1>19, <1>20, <1>23

LEMMA EvictKeepsHeap ==
    ASSUME NEW t, NEW cap \in Nat \ {0}, HeapInv(t, cap), NEW key \in Keys, key \notin KeysHeld(t),
           ~ (Len(t.heap) < cap)
    PROVE  LET u == ReplaceRoot(t, key)
           IN  /\ HeapInv(u, cap)
               /\ \E victim \in DOMAIN Entries(t) :
                     Evicts(Entries(t), cap, key, victim, Entries(u))
  <1>1. /\ MapKept(t) /\ Ordered(t.heap) /\ Len(t.heap) <= cap /\ t \in Tracker
    BY DEF HeapInv, MapKept
  <1>2. PICK h : h = t.heap
    OBVIOUS
  <1>3. PICK victim : victim = h[1].key
    OBVIOUS
  <1>4. PICK least : least = h[1].count
    OBVIOUS
  <1>5. PICK r : r = [key |-> key, count |-> least + 1, error |-> least]
    OBVIOUS
  <1>6. /\ h \in Seq(Entry) /\ Len(h) \in Nat /\ t.pos \in [Keys -> Nat] /\ t.evictions \in Nat
        /\ DOMAIN h = 1..Len(h) /\ 1 \in 1..Len(h) /\ Len(h) = cap
        /\ \A j \in 1..Len(h) : h[j] \in Entry /\ h[j].count \in Nat /\ h[j].key \in Keys
    BY <1>1, <1>2, HeapTyped, TrackerTyped
  <1>7. victim \in Keys /\ t.pos[victim] = 1 /\ victim \in KeysHeld(t) /\ least \in Nat
    <2>1. victim \in Keys /\ least \in Nat /\ t.pos[victim] = 1
      BY <1>1, <1>2, <1>3, <1>4, <1>6 DEF MapKept
    <2> QED
      BY <1>1, <2>1, HeldAre
  <1>8. r \in Entry /\ victim # key
    BY <1>5, <1>7 DEF Entry
  <1>9. PICK g : g = [h EXCEPT ![1] = r]
    OBVIOUS
  <1>10. PICK q : q = [t.pos EXCEPT ![victim] = 0, ![key] = 1]
    OBVIOUS
  <1>11. PICK s : s = [heap |-> g, pos |-> q, evictions |-> t.evictions + 1]
    OBVIOUS
  <1>12. /\ g \in Seq(Entry) /\ Len(g) = Len(h) /\ DOMAIN g = 1..Len(h)
         /\ g[1] = r /\ \A j \in 1..Len(h) : j # 1 => g[j] = h[j]
    BY <1>6, <1>8, <1>9
  <1>13. /\ q \in [Keys -> Nat] /\ q[key] = 1 /\ q[victim] = 0
         /\ \A k \in Keys : k # key /\ k # victim => q[k] = t.pos[k]
    BY <1>6, <1>7, <1>8, <1>10
  <1>14. t.pos[key] = 0
    BY <1>1, HeldAre
  <1>15. MapKept(s)
    <2>1. s \in Tracker
      BY <1>6, <1>11, <1>12, <1>13 DEF Tracker
    <2>2. ASSUME NEW j \in 1..Len(h) PROVE q[g[j].key] = j
      <3>1. CASE j = 1
        BY <1>5, <1>12, <1>13, <3>1
      <3>2. CASE j # 1
        <4>1. t.pos[h[j].key] = j /\ h[j].key \in Keys /\ j # 0
          BY <1>1, <1>2, <1>6 DEF MapKept
        <4>2. h[j].key # key /\ h[j].key # victim
          BY <1>7, <1>14, <3>2, <4>1
        <4> QED
          BY <1>12, <1>13, <3>2, <4>1, <4>2
      <3> QED
        BY <3>1, <3>2
    <2>3. ASSUME NEW k \in Keys, q[k] # 0 PROVE q[k] \in 1..Len(h) /\ g[q[k]].key = k
      <3>1. CASE k = key
        BY <1>5, <1>6, <1>12, <1>13, <3>1
      <3>2. CASE k # key
        <4>1. k # victim /\ q[k] = t.pos[k]
          BY <1>13, <2>3, <3>2
        <4>2. t.pos[k] \in 1..Len(h) /\ h[t.pos[k]].key = k
          BY <1>1, <1>2, <1>6, <2>3, <4>1 DEF MapKept
        <4>3. t.pos[k] # 1
          BY <1>3, <4>1, <4>2
        <4> QED
          BY <1>12, <4>1, <4>2, <4>3
      <3> QED
        BY <3>1, <3>2
    <2> QED
      BY <1>11, <1>12, <2>1, <2>2, <2>3 DEF MapKept
  <1>16. DownFrom(g, 1)
    <2>1. ASSUME NEW j \in 2..Len(g), j \div 2 # 1 PROVE g[j \div 2].count <= g[j].count
      <3>1. PICK p : p = j \div 2
        OBVIOUS
      <3>2. j \in 2..Len(h) /\ j \in 1..Len(h) /\ j # 1 /\ p \in 1..Len(h) /\ p # 1
        BY <1>6, <1>12, <2>1, <3>1
      <3>3. h[p].count <= h[j].count
        BY <1>1, <1>2, <3>1, <3>2 DEF Ordered
      <3> QED
        BY <1>12, <3>1, <3>2, <3>3
    <2> QED
      BY <2>1 DEF DownFrom
  <1>17. PICK u : u = SiftDown[<<s, 1>>]
    OBVIOUS
  <1>18. MapKept(u) /\ Ordered(u.heap) /\ Alike(s, u)
    <2>1. 1 \in DOMAIN s.heap /\ DownFrom(s.heap, 1)
      BY <1>6, <1>11, <1>12, <1>16
    <2> QED
      BY <1>15, <1>17, <2>1, SiftDownKeeps
  <1>19. u = ReplaceRoot(t, key)
    BY <1>2, <1>3, <1>4, <1>5, <1>9, <1>10, <1>11, <1>17 DEF ReplaceRoot
  <1>20. HeapInv(u, cap)
    BY <1>1, <1>2, <1>11, <1>12, <1>18 DEF HeapInv, Alike
  <1>21. PICK e : e = Entries(t)
    OBVIOUS
  <1>22. /\ DOMAIN e = KeysHeld(t) /\ Cardinality(DOMAIN e) = Len(h)
         /\ \A k \in KeysHeld(t) :
               /\ k \in Keys /\ t.pos[k] \in 1..Len(h) /\ h[t.pos[k]].key = k
               /\ e[k] = [count |-> h[t.pos[k]].count, error |-> h[t.pos[k]].error]
    <2>1. Cardinality(KeysHeld(t)) = Len(h)
      BY <1>1, <1>2, PlacesCount
    <2>2. KeysHeld(t) = {k \in Keys : t.pos[k] # 0}
      BY <1>1, HeldAre
    <2>3. /\ DOMAIN e = KeysHeld(t)
          /\ \A k \in KeysHeld(t) :
                /\ t.pos[k] \in DOMAIN t.heap /\ t.heap[t.pos[k]].key = k
                /\ e[k] = [count |-> t.heap[t.pos[k]].count, error |-> t.heap[t.pos[k]].error]
      BY <1>1, <1>21, HeldAre
    <2> QED
      BY <1>2, <1>6, <2>1, <2>2, <2>3
  <1>23. Smaller(e, victim) /\ e[victim].count = least
    <2>1. e[victim].count = least
      BY <1>4, <1>7, <1>22
    <2>2. ASSUME NEW k \in KeysHeld(t) PROVE least <= e[k].count
      <3>1. PICK j : j = t.pos[k]
        OBVIOUS
      <3>2. j \in 1..Len(h) /\ e[k].count = h[j].count
        BY <1>22, <3>1
      <3> QED
        BY <1>1, <1>2, <1>4, <1>6, <3>2, RootIsLeast
    <2> QED
      BY <1>22, <2>1, <2>2 DEF Smaller
  <1>24. Entries(s) = OtherEntries(e, key, victim)
    <2>1. KeysHeld(s) = (KeysHeld(t) \ {victim}) \cup {key}
      <3>1. KeysHeld(s) = {k \in Keys : s.pos[k] # 0} /\ KeysHeld(t) = {k \in Keys : t.pos[k] # 0}
        BY <1>1, <1>15, HeldAre
      <3>2. s.pos = q
        BY <1>11
      <3> QED
        BY <1>8, <1>13, <3>1, <3>2
    <2>2. PICK f : f = OtherEntries(e, key, victim)
      OBVIOUS
    <2>3. DOMAIN f = KeysHeld(s) /\ f = [k \in DOMAIN f |-> f[k]]
      BY <1>22, <2>1, <2>2 DEF OtherEntries
    <2>4. ASSUME NEW k \in KeysHeld(s)
          PROVE  f[k] = [count |-> g[q[k]].count, error |-> g[q[k]].error]
      <3>1. CASE k = key
        BY <1>5, <1>12, <1>13, <1>22, <1>23, <2>1, <2>2, <3>1 DEF OtherEntries
      <3>2. CASE k # key
        <4>1. k \in KeysHeld(t) /\ k # victim /\ k \in Keys /\ t.pos[k] \in 1..Len(h)
          BY <1>22, <2>1, <3>2
        <4>2. t.pos[k] # 1
          BY <1>3, <1>22, <4>1
        <4>3. q[k] = t.pos[k] /\ g[q[k]] = h[t.pos[k]]
          BY <1>12, <1>13, <3>2, <4>1, <4>2
        <4>4. f[k] = e[k]
          BY <1>22, <2>1, <2>2, <3>2, <4>1 DEF OtherEntries
        <4> QED
          BY <1>22, <4>1, <4>3, <4>4
      <3> QED
        BY <3>1, <3>2
    <2>5. Entries(s) = f
      BY <1>11, <1>15, <2>3, <2>4, EntriesBy
    <2> QED
      BY <2>2, <2>5
  <1>25. victim \in DOMAIN e /\ Evicts(e, cap, key, victim, Entries(u))
    BY <1>6, <1>7, <1>18, <1>22, <1>23, <1>24 DEF Evicts, Alike
  <1> QED
    BY <1>19, <1>20, <1>21, <1>25

\* SpaceSaving::access keeps heap and map, and does to the entries what is promised.
LEMMA AccessKeepsHeap ==
    ASSUME NEW t, NEW cap \in Nat \ {0}, HeapInv(t, cap), NEW key \in Keys
    PROVE  LET u == TrackAccess(t, cap, key)
           IN  HeapInv(u, cap) /\ Accesses(Entries(t), cap, key, Entries(u))
  <1>1. KeysHeld(t) = {k \in Keys : t.pos[k] # 0}
    BY HeldAre DEF HeapInv
  <1>2. CASE t.pos[key] # 0
    BY <1>1, <1>2, HitKeepsHeap DEF TrackAccess, Accesses
  <1>3. CASE t.pos[key] = 0 /\ Len(t.heap) < cap
    BY <1>1, <1>3, InsertKeepsHeap DEF TrackAccess, Accesses
  <1>4. CASE t.pos[key] = 0 /\ ~ (Len(t.heap) < cap)
    BY <1>1, <1>4, EvictKeepsHeap DEF TrackAccess, Accesses
  <1> QED
    BY <1>2, <1>3, <1>4

\* An empty tracker.
LEMMA EmptyHeap ==
    ASSUME NEW cap \in Nat
    PROVE  /\ HeapInv(EmptyTracker, cap)
           /\ Entries(EmptyTracker) = [k \in {} |-> [count |-> 0, error |-> 0]]
  <1> DEFINE t == EmptyTracker
  <1>1. /\ t.heap = <<>> /\ t.pos = [k \in Keys |-> 0] /\ t.evictions = 0
        /\ t = [heap |-> <<>>, pos |-> [k \in Keys |-> 0], evictions |-> 0]
    BY DEF EmptyTracker
  <1> HIDE DEF t
  <1>2. t \in Tracker /\ Len(t.heap) = 0 /\ DOMAIN t.heap = {}
    BY <1>1 DEF Tracker
  <1>3. HeapInv(t, cap)
    BY <1>1, <1>2 DEF HeapInv, MapKept, Ordered
  <1>4. KeysHeld(t) = {}
    BY <1>2 DEF KeysHeld
  <1>5. Entries(t) = [k \in {} |-> [count |-> 0, error |-> 0]]
    BY <1>4 DEF Entries
  <1> QED
    BY <1>3, <1>5 DEF t
-----------------------------------------------------------------------------
(***************************************************************************)
(* What the accesses keep, for every set K of keys, capacity and stream.    *)
(***************************************************************************)
Counts(e) == [k \in DOMAIN e |-> e[k].count]
CountsAll(e) == SumFunctionOnSet(Counts(e), DOMAIN e)

EntriesOf(K, e, o) ==
    /\ DOMAIN e \subseteq K /\ IsFiniteSet(DOMAIN e)
    /\ e \in [DOMAIN e -> [count : Nat, error : Nat]]
    /\ o \in [K -> Nat]
Bounded(e, o) ==
    \A k \in DOMAIN e : o[k] <= e[k].count /\ e[k].count <= o[k] + e[k].error
MissedCold(K, e, cap, o) ==
    \A k \in K \ DOMAIN e :
        \/ o[k] = 0
        \/ Cardinality(DOMAIN e) >= cap /\ \A m \in DOMAIN e : o[k] <= e[m].count
Promised(K, e, cap, o) == EntriesOf(K, e, o) /\ Bounded(e, o) /\ MissedCold(K, e, cap, o)

\* A hit only raises one count, together with the truth.
LEMMA HitPromised ==
    ASSUME NEW K, NEW e, NEW cap, NEW o, NEW key \in K, NEW f,
           Promised(K, e, cap, o), Hits(e, key, f)
    PROVE  /\ Promised(K, f, cap, PlusOne(o, key))
           /\ CountsAll(f) = CountsAll(e) + 1
  <1>t. PICK o2 : o2 = PlusOne(o, key)
    OBVIOUS
  <1>1. /\ DOMAIN e \subseteq K /\ IsFiniteSet(DOMAIN e) /\ key \in DOMAIN e
        /\ e \in [DOMAIN e -> [count : Nat, error : Nat]] /\ o \in [K -> Nat]
        /\ f = [e EXCEPT ![key].count = @ + 1]
    BY DEF Promised, EntriesOf, Hits, HitEntries
  <1>2. /\ DOMAIN f = DOMAIN e /\ key \in DOMAIN e
        /\ \A k \in DOMAIN e :
              /\ f[k].count = IF k = key THEN e[k].count + 1 ELSE e[k].count
              /\ f[k].error = e[k].error
              /\ f[k] \in [count : Nat, error : Nat]
              /\ e[k].count \in Nat /\ e[k].error \in Nat
        /\ f \in [DOMAIN e -> [count : Nat, error : Nat]]
    BY <1>1
  <1>3. /\ o2 \in [K -> Nat]
        /\ \A k \in K : o2[k] = IF k = key THEN o[k] + 1 ELSE o[k]
    BY <1>1, <1>t DEF PlusOne
  <1>4. EntriesOf(K, f, o2)
    BY <1>1, <1>2, <1>3 DEF EntriesOf
  <1>5. Bounded(f, o2)
    BY <1>1, <1>2, <1>3 DEF Promised, Bounded
  <1>6. MissedCold(K, f, cap, o2)
    BY <1>1, <1>2, <1>3 DEF Promised, MissedCold
  <1>7. CountsAll(f) = CountsAll(e) + 1
    <2>1. PICK S : S = DOMAIN e
      OBVIOUS
    <2>2. PICK a : a = Counts(e)
      OBVIOUS
    <2>3. PICK b : b = Counts(f)
      OBVIOUS
    <2>4. /\ \A k \in S : a[k] \in Nat /\ (k # key => b[k] = a[k])
          /\ b[key] = a[key] + 1 /\ key \in S /\ IsFiniteSet(S)
      BY <1>1, <1>2, <2>1, <2>2, <2>3 DEF Counts
    <2>5. SumFunctionOnSet(b, S) = SumFunctionOnSet(a, S) + 1
      BY <2>4, SumChanged
    <2> QED
      BY <1>2, <2>1, <2>2, <2>3, <2>5 DEF CountsAll
  <1> QED
    BY <1>t, <1>2, <1>4, <1>5, <1>6, <1>7 DEF Promised

\* While there is room, a key that is not tracked has not occurred.
LEMMA InsertPromised ==
    ASSUME NEW K, NEW e, NEW cap, NEW o, NEW key \in K, NEW f,
           Promised(K, e, cap, o), Inserts(e, cap, key, f)
    PROVE  /\ Promised(K, f, cap, PlusOne(o, key))
           /\ CountsAll(f) = CountsAll(e) + 1
  <1>t. PICK o2 : o2 = PlusOne(o, key)
    OBVIOUS
  <1>1. /\ DOMAIN e \subseteq K /\ IsFiniteSet(DOMAIN e) /\ key \notin DOMAIN e
        /\ e \in [DOMAIN e -> [count : Nat, error : Nat]] /\ o \in [K -> Nat]
        /\ ~ (Cardinality(DOMAIN e) >= cap) /\ f = MoreEntries(e, key)
    BY DEF Promised, EntriesOf, Inserts
  <1>2. /\ DOMAIN f = DOMAIN e \cup {key}
        /\ f[key] = [count |-> 1, error |-> 0]
        /\ \A k \in DOMAIN e : /\ f[k] = e[k] /\ f[k] \in [count : Nat, error : Nat]
                               /\ e[k].count \in Nat
        /\ f \in [DOMAIN f -> [count : Nat, error : Nat]]
    BY <1>1 DEF MoreEntries
  <1>3. /\ o2 \in [K -> Nat]
        /\ \A k \in K : o2[k] = IF k = key THEN o[k] + 1 ELSE o[k]
    BY <1>1, <1>t DEF PlusOne
  <1>4. \A k \in K \ DOMAIN e : o[k] = 0
    BY <1>1 DEF Promised, MissedCold
  <1>5. IsFiniteSet(DOMAIN f) /\ Cardinality(DOMAIN f) = Cardinality(DOMAIN e) + 1
    BY <1>1, <1>2, FS_AddElement
  <1>6. EntriesOf(K, f, o2)
    BY <1>1, <1>2, <1>3, <1>5 DEF EntriesOf
  <1>7. Bounded(f, o2)
    <2>1. ASSUME NEW k \in DOMAIN f
          PROVE  o2[k] <= f[k].count /\ f[k].count <= o2[k] + f[k].error
      <3>1. CASE k = key
        BY <1>1, <1>2, <1>3, <1>4, <3>1
      <3>2. CASE k # key
        BY <1>1, <1>2, <1>3, <3>2 DEF Promised, Bounded
      <3> QED
        BY <3>1, <3>2
    <2> QED
      BY <2>1 DEF Bounded
  <1>8. MissedCold(K, f, cap, o2)
    BY <1>2, <1>3, <1>4 DEF MissedCold
  <1>9. CountsAll(f) = CountsAll(e) + 1
    <2>1. PICK S : S = DOMAIN e
      OBVIOUS
    <2>2. PICK a : a = Counts(e)
      OBVIOUS
    <2>3. PICK b : b = Counts(f)
      OBVIOUS
    <2>4. /\ \A k \in S : a[k] \in Nat /\ b[k] = a[k]
          /\ b[key] = 1 /\ key \notin S /\ IsFiniteSet(S) /\ S \cup {key} = DOMAIN f
      BY <1>1, <1>2, <2>1, <2>2, <2>3 DEF Counts
    <2>5. SumFunctionOnSet(b, S \cup {key}) = SumFunctionOnSet(b, S) + 1
      BY <2>4, SumWith
    <2>6. SumFunctionOnSet(a, S) = SumFunctionOnSet(b, S)
      BY <2>4, SumSame
    <2> QED
      BY <2>1, <2>2, <2>3, <2>4, <2>5, <2>6 DEF CountsAll
  <1> QED
    BY <1>t, <1>2, <1>5, <1>6, <1>7, <1>8, <1>9 DEF Promised

\* An eviction leaves as many keys as it found.
LEMMA SwapCardinality ==
    ASSUME NEW S, IsFiniteSet(S), NEW v \in S, NEW k, k \notin S
    PROVE  /\ IsFiniteSet((S \ {v}) \cup {k})
           /\ Cardinality((S \ {v}) \cup {k}) = Cardinality(S)
  <1>1. IsFiniteSet(S \ {v}) /\ Cardinality(S \ {v}) = Cardinality(S) - 1
    BY FS_RemoveElement
  <1>2. /\ IsFiniteSet((S \ {v}) \cup {k})
        /\ Cardinality((S \ {v}) \cup {k}) = Cardinality(S \ {v}) + 1
    BY <1>1, FS_AddElement
  <1>3. Cardinality(S) \in Nat
    BY FS_CardinalityType
  <1> QED
    BY <1>1, <1>2, <1>3

\* The newcomer inherits the smallest count, and the victim had no more.
LEMMA EvictPromised ==
    ASSUME NEW K, NEW e, NEW cap, NEW o, NEW key \in K, NEW victim \in DOMAIN e, NEW f,
           Promised(K, e, cap, o), Evicts(e, cap, key, victim, f)
    PROVE  /\ Promised(K, f, cap, PlusOne(o, key))
           /\ CountsAll(f) = CountsAll(e) + 1
  <1>t. PICK o2 : o2 = PlusOne(o, key)
    OBVIOUS
  <1>0. PICK least : least = e[victim].count
    OBVIOUS
  <1>1. /\ DOMAIN e \subseteq K /\ IsFiniteSet(DOMAIN e) /\ key \notin DOMAIN e
        /\ e \in [DOMAIN e -> [count : Nat, error : Nat]] /\ o \in [K -> Nat]
        /\ Cardinality(DOMAIN e) >= cap /\ Smaller(e, victim) /\ f = OtherEntries(e, key, victim)
    BY DEF Promised, EntriesOf, Evicts
  <1>2. least \in Nat /\ \A k \in DOMAIN e : least <= e[k].count /\ e[k].count \in Nat
    BY <1>0, <1>1 DEF Smaller
  <1>3. /\ DOMAIN f = (DOMAIN e \ {victim}) \cup {key}
        /\ f[key] = [count |-> least + 1, error |-> least]
        /\ \A k \in DOMAIN e \ {victim} : f[k] = e[k] /\ f[k] \in [count : Nat, error : Nat]
        /\ f \in [DOMAIN f -> [count : Nat, error : Nat]]
    BY <1>0, <1>1, <1>2 DEF OtherEntries
  <1>4. /\ o2 \in [K -> Nat]
        /\ \A k \in K : o2[k] = IF k = key THEN o[k] + 1 ELSE o[k]
    BY <1>1, <1>t DEF PlusOne
  <1>5. IsFiniteSet(DOMAIN f) /\ Cardinality(DOMAIN f) = Cardinality(DOMAIN e)
    BY <1>1, <1>3, SwapCardinality
  <1>6. EntriesOf(K, f, o2)
    BY <1>1, <1>3, <1>4, <1>5 DEF EntriesOf
  <1>7. o[key] \in Nat /\ o[key] <= least
    BY <1>0, <1>1, <1>2 DEF Promised, MissedCold
  <1>8. Bounded(f, o2)
    <2>1. ASSUME NEW k \in DOMAIN f
          PROVE  o2[k] <= f[k].count /\ f[k].count <= o2[k] + f[k].error
      <3>1. CASE k = key
        BY <1>2, <1>3, <1>4, <1>7, <3>1
      <3>2. CASE k # key
        BY <1>1, <1>3, <1>4, <3>2 DEF Promised, Bounded
      <3> QED
        BY <3>1, <3>2
    <2> QED
      BY <2>1 DEF Bounded
  <1>9. \A m \in DOMAIN f : f[m].count \in Nat /\ least <= f[m].count
    BY <1>2, <1>3
  <1>10. o[victim] <= least
    BY <1>0 DEF Promised, Bounded
  <1>11. ASSUME NEW k \in K \ DOMAIN f PROVE o2[k] \in Nat /\ (o2[k] = 0 \/ o2[k] <= least)
    <2>1. k # key /\ o2[k] = o[k] /\ o[k] \in Nat
      BY <1>1, <1>3, <1>4
    <2>2. CASE k = victim
      BY <1>10, <2>1, <2>2
    <2>3. CASE k # victim
      <3>1. k \in K \ DOMAIN e
        BY <1>3, <2>3
      <3>2. o[k] = 0 \/ o[k] <= least
        BY <1>0, <3>1 DEF Promised, MissedCold
      <3> QED
        BY <2>1, <3>2
    <2> QED
      BY <2>2, <2>3
  <1>12. MissedCold(K, f, cap, o2)
    BY <1>1, <1>2, <1>5, <1>9, <1>11 DEF MissedCold
  <1>13. CountsAll(f) = CountsAll(e) + 1
    <2>1. PICK S : S = DOMAIN e
      OBVIOUS
    <2>2. PICK a : a = Counts(e)
      OBVIOUS
    <2>3. PICK b : b = Counts(f)
      OBVIOUS
    <2>4. PICK R : R = S \ {victim}
      OBVIOUS
    <2>5. /\ \A k \in S : a[k] \in Nat
          /\ \A k \in R : b[k] = a[k] /\ b[k] \in Nat
          /\ a[victim] = least /\ b[key] = least + 1 /\ victim \in S
          /\ key \notin R /\ IsFiniteSet(S) /\ IsFiniteSet(R) /\ R \cup {key} = DOMAIN f
      BY <1>0, <1>1, <1>2, <1>3, <2>1, <2>2, <2>3, <2>4, FS_RemoveElement DEF Counts
    <2>6. SumFunctionOnSet(b, R \cup {key}) = SumFunctionOnSet(b, R) + (least + 1)
      BY <1>2, <2>5, SumWith
    <2>7. SumFunctionOnSet(a, R) = SumFunctionOnSet(b, R) /\ SumFunctionOnSet(a, R) \in Nat
      BY <2>4, <2>5, SumSame, SumInNat
    <2>8. SumFunctionOnSet(a, S) = least + SumFunctionOnSet(a, R)
      BY <2>4, <2>5, SumTakesAny
    <2> QED
      BY <1>2, <2>1, <2>2, <2>3, <2>5, <2>6, <2>7, <2>8 DEF CountsAll
  <1> QED
    BY <1>t, <1>3, <1>5, <1>6, <1>8, <1>12, <1>13 DEF Promised

-----------------------------------------------------------------------------
\* The keys of a stream, and what a tracker with room for all of them holds.
Occurred(K, o) == {k \in K : o[k] # 0}
RoomForAll(K, e, cap, o) ==
    /\ IsFiniteSet(Occurred(K, o)) /\ DOMAIN e \subseteq Occurred(K, o)
    /\ Cardinality(Occurred(K, o)) <= cap =>
           DOMAIN e = Occurred(K, o) /\ \A k \in DOMAIN e : e[k].count = o[k]

\* What a tracker of cap entries holds after n accesses, o of each key.
Summarised(K, e, cap, o, n) ==
    Promised(K, e, cap, o) /\ RoomForAll(K, e, cap, o) /\ CountsAll(e) = n

LEMMA AccessSummarised ==
    ASSUME NEW K, NEW e, NEW cap \in Nat, NEW o, NEW n \in Nat, NEW key \in K, NEW f,
           Summarised(K, e, cap, o, n), Accesses(e, cap, key, f)
    PROVE  Summarised(K, f, cap, PlusOne(o, key), n + 1)
  <1>0. Promised(K, e, cap, o) /\ CountsAll(e) = n
    BY DEF Summarised
  <1>1. PICK p : p = PlusOne(o, key)
    OBVIOUS
  <1>2. /\ Promised(K, e, cap, o) /\ CountsAll(e) = n /\ o \in [K -> Nat]
        /\ IsFiniteSet(Occurred(K, o)) /\ DOMAIN e \subseteq Occurred(K, o)
        /\ IsFiniteSet(DOMAIN e) /\ e \in [DOMAIN e -> [count : Nat, error : Nat]]
    BY DEF Summarised, RoomForAll, Promised, EntriesOf
  <1>3. p \in [K -> Nat] /\ \A k \in K : p[k] = IF k = key THEN o[k] + 1 ELSE o[k]
    BY <1>1, <1>2 DEF PlusOne
  <1>4. PICK T : T = Occurred(K, o)
    OBVIOUS
  <1>5. PICK U : U = Occurred(K, p)
    OBVIOUS
  <1>6. U = T \cup {key}
    BY <1>2, <1>3, <1>4, <1>5 DEF Occurred
  <1>7. /\ IsFiniteSet(T) /\ IsFiniteSet(U) /\ Cardinality(T) \in Nat /\ Cardinality(U) \in Nat
        /\ Cardinality(T) <= Cardinality(U) /\ DOMAIN e \subseteq T
        /\ Cardinality(T) <= cap => DOMAIN e = T /\ \A k \in DOMAIN e : e[k].count = o[k]
    <2>1. IsFiniteSet(T) /\ DOMAIN e \subseteq T
      BY <1>2, <1>4
    <2>2. IsFiniteSet(U)
      BY <1>6, <2>1, FS_AddElement
    <2>3. Cardinality(T) <= Cardinality(U)
      BY <1>6, <2>2, FS_Subset
    <2> QED
      BY <1>4, <2>1, <2>2, <2>3, FS_CardinalityType DEF Summarised, RoomForAll
  <1>8. CASE Hits(e, key, f)
    <2>1. Promised(K, f, cap, p) /\ CountsAll(f) = n + 1 /\ DOMAIN f = DOMAIN e
      <3>1. Promised(K, f, cap, PlusOne(o, key)) /\ CountsAll(f) = CountsAll(e) + 1
        BY <1>0, <1>8, HitPromised
      <3> QED
        BY <1>0, <1>1, <1>8, <3>1 DEF Hits, HitEntries
    <2>2. key \in DOMAIN e /\ U = T
      BY <1>6, <1>7, <1>8 DEF Hits
    <2>3. \A k \in DOMAIN e : f[k].count = IF k = key THEN e[k].count + 1 ELSE e[k].count
      BY <1>2, <1>8 DEF Hits, HitEntries
    <2>4. Cardinality(U) <= cap => DOMAIN f = U /\ \A k \in DOMAIN f : f[k].count = p[k]
      <3>1. T \subseteq K
        BY <1>4 DEF Occurred
      <3>2. \A k \in DOMAIN e : p[k] = IF k = key THEN o[k] + 1 ELSE o[k]
        BY <1>3, <1>7, <3>1
      <3> QED
        BY <1>7, <2>1, <2>2, <2>3, <3>2
    <2>5. RoomForAll(K, f, cap, p)
      BY <1>5, <1>7, <2>1, <2>2, <2>4 DEF RoomForAll
    <2> QED
      BY <1>1, <2>1, <2>5 DEF Summarised
  <1>9. CASE Inserts(e, cap, key, f)
    <2>1. Promised(K, f, cap, p) /\ CountsAll(f) = n + 1 /\ DOMAIN f = DOMAIN e \cup {key}
      <3>1. /\ Promised(K, f, cap, PlusOne(o, key))
            /\ CountsAll(f) = CountsAll(e) + 1
        BY <1>0, <1>9, InsertPromised
      <3> QED
        BY <1>0, <1>1, <1>9, <3>1 DEF Inserts, MoreEntries
    <2>2. /\ key \notin DOMAIN e /\ f[key].count = 1
          /\ \A k \in DOMAIN e : f[k] = e[k]
      BY <1>9 DEF Inserts, MoreEntries
    <2>3. ASSUME Cardinality(U) <= cap
          PROVE  DOMAIN f = U /\ \A k \in DOMAIN f : f[k].count = p[k]
      <3>1. Cardinality(T) <= cap
        BY <1>7, <2>3
      <3>2. DOMAIN e = T /\ \A k \in DOMAIN e : e[k].count = o[k]
        BY <1>7, <3>1
      <3>3. o[key] = 0
        BY <1>4, <2>2, <3>2 DEF Occurred
      <3>4. T \subseteq K
        BY <1>4 DEF Occurred
      <3> QED
        BY <1>3, <1>6, <2>1, <2>2, <3>2, <3>3, <3>4
    <2>4. RoomForAll(K, f, cap, p)
      BY <1>5, <1>6, <1>7, <2>1, <2>3 DEF RoomForAll
    <2> QED
      BY <1>1, <2>1, <2>4 DEF Summarised
  <1>10. CASE \E victim \in DOMAIN e : Evicts(e, cap, key, victim, f)
    <2>1. PICK victim \in DOMAIN e : Evicts(e, cap, key, victim, f)
      BY <1>10
    <2>2. /\ Promised(K, f, cap, p) /\ CountsAll(f) = n + 1
          /\ DOMAIN f = (DOMAIN e \ {victim}) \cup {key}
      <3>1. /\ Promised(K, f, cap, PlusOne(o, key))
            /\ CountsAll(f) = CountsAll(e) + 1
        BY <1>0, <2>1, EvictPromised
      <3> QED
        BY <1>0, <1>1, <2>1, <3>1 DEF Evicts, OtherEntries
    <2>3. key \notin DOMAIN e /\ Cardinality(DOMAIN e) >= cap
      BY <2>1 DEF Evicts
    <2>4. ~ (Cardinality(U) <= cap)
      <3>1. /\ IsFiniteSet(DOMAIN e \cup {key})
            /\ Cardinality(DOMAIN e \cup {key}) = Cardinality(DOMAIN e) + 1
        BY <1>2, <2>3, FS_AddElement
      <3>2. DOMAIN e \cup {key} \subseteq U
        BY <1>6, <1>7
      <3>3. Cardinality(DOMAIN e \cup {key}) <= Cardinality(U)
        BY <1>7, <3>2, FS_Subset
      <3>4. Cardinality(DOMAIN e) \in Nat
        BY <1>2, FS_CardinalityType
      <3> QED
        BY <1>7, <2>3, <3>1, <3>3, <3>4
    <2>5. RoomForAll(K, f, cap, p)
      BY <1>5, <1>6, <1>7, <2>2, <2>4 DEF RoomForAll
    <2> QED
      BY <1>1, <2>2, <2>5 DEF Summarised
  <1> QED
    BY <1>1, <1>8, <1>9, <1>10 DEF Accesses

LEMMA EmptySummarised ==
    ASSUME NEW K, NEW cap, NEW e, e = [k \in {} |-> [count |-> 0, error |-> 0]],
           NEW o, o = [k \in K |-> 0]
    PROVE  Summarised(K, e, cap, o, 0)
  <1>1. DOMAIN e = {} /\ IsFiniteSet({}) /\ e \in [DOMAIN e -> [count : Nat, error : Nat]]
    BY FS_EmptySet
  <1>2. o \in [K -> Nat] /\ Occurred(K, o) = {} /\ \A k \in K : o[k] = 0
    BY DEF Occurred
  <1>3. Promised(K, e, cap, o)
    BY <1>1, <1>2 DEF Promised, EntriesOf, Bounded, MissedCold
  <1>4. RoomForAll(K, e, cap, o)
    BY <1>1, <1>2 DEF RoomForAll
  <1>5. CountsAll(e) = 0
    BY <1>1, SumOfNone DEF CountsAll
  <1> QED
    BY <1>3, <1>4, <1>5 DEF Summarised

\* A key with more than one part in cap of the accesses is held.
LEMMA HotIsHeld ==
    ASSUME NEW K, NEW e, NEW cap \in Nat, NEW o, NEW n \in Nat, Summarised(K, e, cap, o, n),
           NEW key \in K, o[key] * cap > n
    PROVE  key \in DOMAIN e
  <1> SUFFICES ASSUME key \notin DOMAIN e PROVE FALSE
    OBVIOUS
  <1>1. /\ o[key] \in Nat /\ IsFiniteSet(DOMAIN e)
        /\ e \in [DOMAIN e -> [count : Nat, error : Nat]]
        /\ \/ o[key] = 0
           \/ Cardinality(DOMAIN e) >= cap /\ \A m \in DOMAIN e : o[key] <= e[m].count
    BY DEF Summarised, Promised, EntriesOf, MissedCold
  <1>2. PICK m : m = o[key]
    OBVIOUS
  <1>3. m # 0
    BY <1>1, <1>2
  <1>4. PICK S : S = DOMAIN e
    OBVIOUS
  <1>5. PICK c : c = Counts(e)
    OBVIOUS
  <1>6. IsFiniteSet(S) /\ \A k \in S : c[k] \in Nat /\ m <= c[k]
    BY <1>1, <1>2, <1>3, <1>4, <1>5 DEF Counts
  <1>7. m * Cardinality(S) <= SumFunctionOnSet(c, S)
    BY <1>1, <1>2, <1>6, SumAtLeast
  <1>8. PICK d : d = Cardinality(S)
    OBVIOUS
  <1>9. d \in Nat /\ d >= cap /\ m \in Nat
    BY <1>1, <1>2, <1>3, <1>4, <1>6, <1>8, FS_CardinalityType
  <1>10. m * cap <= m * d
    BY <1>9
  <1>11. m * d <= n
    BY <1>4, <1>5, <1>7, <1>8 DEF Summarised, CountsAll
  <1>12. m * cap \in Nat /\ m * d \in Nat
    BY <1>9
  <1> QED
    BY <1>2, <1>10, <1>11, <1>12

-----------------------------------------------------------------------------
(***************************************************************************)
(* The Space-Saving trackers of the probe: every heap is kept, and what it  *)
(* holds summarises the accesses of the open epoch.  Of the words it        *)
(* summarises the accesses themselves, which the exact counters lose when   *)
(* they saturate.                                                           *)
(***************************************************************************)
HeapFed(t, cap, K, o, n) == HeapInv(t, cap) /\ Summarised(K, Entries(t), cap, o, n)

\* The counter of a word that was accessed w times.
Saturated(w) == IF w <= WordMax THEN w ELSE WordMax
Records(c, w) == w \in [Lines -> Nat] /\ \A l \in Lines : c.word[l] = Saturated(w[l])

HeapsKept(o) == \A i \in Slots : HeapInv(o.hpt[i], Budgets[i]) /\ HeapInv(o.hwt[i], Budgets[i])
PagesFed(o) ==
    \A i \in Slots : HeapFed(o.hpt[i], Budgets[i], Pages, PageTotals(o.counters), o.counters.total)
WordsFed(o, w) ==
    /\ Records(o.counters, w)
    /\ \A i \in Slots : HeapFed(o.hwt[i], Budgets[i], Lines, w, o.counters.total)

Summing(o, c) ==
    /\ Whole(o.counters) /\ HeapsKept(o)
    /\ ~c.useCountMin => PagesFed(o)
    /\ ~c.useCountMin /\ c.trackWords => \E w : WordsFed(o, w)

LEMMA BudgetPositive == \A i \in Slots : Budgets[i] \in Nat \ {0}
  BY ProbeAssumption, LenProperties, ElementOfSeq DEF Slots

LEMMA FedHeap ==
    ASSUME NEW t, NEW cap \in Nat \ {0}, NEW K, K \subseteq Keys, NEW o, NEW n \in Nat,
           NEW key \in K, HeapFed(t, cap, K, o, n)
    PROVE  HeapFed(TrackAccess(t, cap, key), cap, K, PlusOne(o, key), n + 1)
  <1>1. PICK u : u = TrackAccess(t, cap, key)
    OBVIOUS
  <1>2. HeapInv(u, cap) /\ Accesses(Entries(t), cap, key, Entries(u))
    BY <1>1, AccessKeepsHeap DEF HeapFed
  <1>3. Summarised(K, Entries(u), cap, PlusOne(o, key), n + 1)
    <2>1. PICK e : e = Entries(t)
      OBVIOUS
    <2>2. PICK f : f = Entries(u)
      OBVIOUS
    <2>3. Summarised(K, e, cap, o, n) /\ Accesses(e, cap, key, f) /\ cap \in Nat
      BY <1>2, <2>1, <2>2 DEF HeapFed
    <2>4. Summarised(K, f, cap, PlusOne(o, key), n + 1)
      BY <2>3, AccessSummarised
    <2> QED
      BY <2>2, <2>4
  <1> QED
    BY <1>1, <1>2, <1>3 DEF HeapFed

LEMMA EmptyFed ==
    ASSUME NEW cap \in Nat \ {0}, NEW K, NEW o, o = [k \in K |-> 0]
    PROVE  HeapFed(EmptyTracker, cap, K, o, 0)
  <1>1. PICK e : e = Entries(EmptyTracker)
    OBVIOUS
  <1>2. HeapInv(EmptyTracker, cap) /\ e = [k \in {} |-> [count |-> 0, error |-> 0]]
    BY <1>1, EmptyHeap
  <1>3. Summarised(K, e, cap, o, 0)
    BY <1>2, EmptySummarised
  <1> QED
    BY <1>1, <1>2, <1>3 DEF HeapFed

\* What the exact counters record of an access.
LEMMA PageCounted ==
    ASSUME NEW c \in Counters, NEW line \in Lines, NEW type \in AccessType
    PROVE  PageTotals(CountAccess(c, line, type)) = PlusOne(PageTotals(c), PageOf(line))
  <1>1. PICK f : f = PageTotals(c)
    OBVIOUS
  <1>2. PICK g : g = PageTotals(CountAccess(c, line, type))
    OBVIOUS
  <1>3. PICK q : q = PageOf(line)
    OBVIOUS
  <1>4. /\ f \in [Pages -> Nat] /\ g \in [Pages -> Nat] /\ q \in Pages
        /\ \A p \in Pages : g[p] = f[p] + (IF p = q THEN 1 ELSE 0)
    BY <1>1, <1>2, <1>3, CountAccessFacts, PageOfLine
  <1>5. g = PlusOne(f, q)
    BY <1>4 DEF PlusOne
  <1> QED
    BY <1>1, <1>2, <1>3, <1>5

LEMMA WordCounted ==
    ASSUME NEW c \in Counters, NEW line \in Lines, NEW type \in AccessType,
           NEW w, Records(c, w)
    PROVE  Records(CountAccess(c, line, type), PlusOne(w, line))
  <1>1. PICK f : f = c.word
    OBVIOUS
  <1>2. PICK g : g = CountAccess(c, line, type).word
    OBVIOUS
  <1>3. PICK v : v = PlusOne(w, line)
    OBVIOUS
  <1>4. /\ f \in [Lines -> 0..WordMax] /\ WordMax \in Nat
        /\ w \in [Lines -> Nat] /\ \A l \in Lines : f[l] = Saturated(w[l])
    BY <1>1, CounterAssumption DEF Records, Counters
  <1>5. g = IF f[line] = WordMax THEN f ELSE PlusOne(f, line)
    BY <1>1, <1>2 DEF CountAccess
  <1>6. v \in [Lines -> Nat] /\ \A l \in Lines : v[l] = IF l = line THEN w[l] + 1 ELSE w[l]
    BY <1>3, <1>4 DEF PlusOne
  <1>7. \A l \in Lines : g[l] = IF l = line /\ f[l] # WordMax THEN f[l] + 1 ELSE f[l]
    BY <1>4, <1>5 DEF PlusOne
  <1>8. ASSUME NEW l \in Lines PROVE g[l] = Saturated(v[l])
    <2>1. PICK m \in Nat : m = w[l]
      BY <1>4
    <2>2. PICK x \in 0..WordMax : x = f[l]
      BY <1>4
    <2>3. x = IF m <= WordMax THEN m ELSE WordMax
      BY <1>4, <2>1, <2>2 DEF Saturated
    <2>4. g[l] = IF l = line /\ x # WordMax THEN x + 1 ELSE x
      BY <1>7, <2>2
    <2>5. v[l] = IF l = line THEN m + 1 ELSE m
      BY <1>6, <2>1
    <2>6. CASE l = line
      BY <1>4, <2>3, <2>4, <2>5, <2>6 DEF Saturated
    <2> QED
      BY <1>4, <2>3, <2>4, <2>5, <2>6 DEF Saturated
  <1> QED
    BY <1>2, <1>3, <1>6, <1>8 DEF Records

\* An access keeps the trackers and what they summarise.
LEMMA AccessSumming ==
    ASSUME NEW line \in Lines, NEW type \in AccessType, Summing(Now, config)
    PROVE  Summing(After(line, type), config)
  <1>1. PICK o : o = After(line, type)
    OBVIOUS
  <1>2. PICK page : page = PageOf(line)
    OBVIOUS
  <1>3. PICK cm : cm = config.useCountMin
    OBVIOUS
  <1>4. PICK words : words = config.trackWords
    OBVIOUS
  <1>5. /\ o.counters = CountAccess(counters, line, type)
        /\ o.hpt = Fed(hpt, page, ~cm) /\ o.hwt = Fed(hwt, line, ~cm /\ words)
    BY <1>1, <1>2, <1>3, <1>4 DEF After
  <1>6. /\ Whole(counters) /\ counters \in Counters /\ counters.total \in Nat
        /\ \A i \in Slots : HeapInv(hpt[i], Budgets[i]) /\ HeapInv(hwt[i], Budgets[i])
        /\ ~cm => \A i \in Slots :
               HeapFed(hpt[i], Budgets[i], Pages, PageTotals(counters), counters.total)
        /\ ~cm /\ words => \E w :
               /\ Records(counters, w)
               /\ \A i \in Slots : HeapFed(hwt[i], Budgets[i], Lines, w, counters.total)
    BY <1>3, <1>4, UntouchedIsEmpty DEF Summing, Now, HeapsKept, PagesFed, WordsFed, Whole
  <1>7. page \in Pages /\ page \in Keys /\ line \in Keys /\ Pages \subseteq Keys /\ Lines \subseteq Keys
    BY <1>2, PageOfLine, KeysOf
  <1>8. Whole(o.counters) /\ o.counters.total = counters.total + 1
    BY <1>5, <1>6, CountAccessWhole, CountAccessFacts
  <1>9. /\ ~cm => \A i \in Slots : o.hpt[i] = TrackAccess(hpt[i], Budgets[i], page)
        /\ cm => o.hpt = hpt
        /\ ~cm /\ words => \A i \in Slots : o.hwt[i] = TrackAccess(hwt[i], Budgets[i], line)
        /\ ~(~cm /\ words) => o.hwt = hwt
    BY <1>5 DEF Fed
  <1>10. HeapsKept(o)
    <2> SUFFICES ASSUME NEW i \in Slots
                 PROVE  HeapInv(o.hpt[i], Budgets[i]) /\ HeapInv(o.hwt[i], Budgets[i])
      BY DEF HeapsKept
    <2>1. Budgets[i] \in Nat \ {0}
      BY BudgetPositive
    <2>2. HeapInv(TrackAccess(hpt[i], Budgets[i], page), Budgets[i])
      BY <1>6, <1>7, <2>1, AccessKeepsHeap
    <2>3. HeapInv(TrackAccess(hwt[i], Budgets[i], line), Budgets[i])
      BY <1>6, <1>7, <2>1, AccessKeepsHeap
    <2> QED
      BY <1>6, <1>9, <2>2, <2>3
  <1>11. ASSUME ~cm PROVE PagesFed(o)
    <2> SUFFICES ASSUME NEW i \in Slots
                 PROVE  HeapFed(o.hpt[i], Budgets[i], Pages, PageTotals(o.counters),
                                o.counters.total)
      BY DEF PagesFed
    <2>1. Budgets[i] \in Nat \ {0}
      BY BudgetPositive
    <2>2. HeapFed(hpt[i], Budgets[i], Pages, PageTotals(counters), counters.total)
      BY <1>6, <1>11
    <2>3. HeapFed(TrackAccess(hpt[i], Budgets[i], page), Budgets[i], Pages,
                  PlusOne(PageTotals(counters), page), counters.total + 1)
      BY <1>6, <1>7, <2>1, <2>2, FedHeap
    <2>4. PageTotals(o.counters) = PlusOne(PageTotals(counters), page)
      BY <1>2, <1>5, <1>6, PageCounted
    <2> QED
      BY <1>8, <1>9, <1>11, <2>3, <2>4
  <1>12. ASSUME ~cm /\ words PROVE \E w : WordsFed(o, w)
    <2>1. PICK w : /\ Records(counters, w)
                   /\ \A i \in Slots : HeapFed(hwt[i], Budgets[i], Lines, w, counters.total)
      BY <1>6, <1>12
    <2>2. Records(o.counters, PlusOne(w, line))
      BY <1>5, <1>6, <2>1, WordCounted
    <2>3. ASSUME NEW i \in Slots
          PROVE  HeapFed(o.hwt[i], Budgets[i], Lines, PlusOne(w, line), o.counters.total)
      <3>1. Budgets[i] \in Nat \ {0}
        BY BudgetPositive
      <3>2. HeapFed(TrackAccess(hwt[i], Budgets[i], line), Budgets[i], Lines,
                    PlusOne(w, line), counters.total + 1)
        BY <1>6, <1>7, <2>1, <3>1, FedHeap
      <3> QED
        BY <1>8, <1>9, <1>12, <3>2
    <2> QED
      BY <2>2, <2>3 DEF WordsFed
  <1> QED
    BY <1>1, <1>3, <1>4, <1>8, <1>10, <1>11, <1>12 DEF Summing

\* Trackers and counters that have been cleared.
LEMMA ClearedSumming ==
    ASSUME NEW o, NEW c, o.counters = EmptyCounters, o.hpt = EmptyTrackers, o.hwt = EmptyTrackers
    PROVE  Summing(o, c)
  <1>1. PICK f : f = PageTotals(EmptyCounters)
    OBVIOUS
  <1>2. PICK w : w = EmptyCounters.word
    OBVIOUS
  <1>3. Whole(o.counters) /\ o.counters.total = 0
    BY EmptyWhole
  <1>4. f = [p \in Pages |-> 0]
    BY <1>1 DEF PageTotals, PageTotal, EmptyCounters
  <1>5. w = [l \in Lines |-> 0]
    BY <1>2 DEF EmptyCounters
  <1>6. ASSUME NEW i \in Slots
        PROVE  /\ EmptyTrackers[i] = EmptyTracker
               /\ HeapFed(EmptyTracker, Budgets[i], Pages, f, 0)
               /\ HeapFed(EmptyTracker, Budgets[i], Lines, w, 0)
    <2>1. EmptyTrackers[i] = EmptyTracker
      BY DEF EmptyTrackers
    <2>2. HeapFed(EmptyTracker, Budgets[i], Pages, f, 0)
      BY <1>4, BudgetPositive, EmptyFed
    <2>3. HeapFed(EmptyTracker, Budgets[i], Lines, w, 0)
      BY <1>5, BudgetPositive, EmptyFed
    <2> QED
      BY <2>1, <2>2, <2>3
  <1>7. HeapsKept(o)
    BY <1>6 DEF HeapsKept, HeapFed
  <1>8. PagesFed(o)
    BY <1>1, <1>3, <1>6 DEF PagesFed
  <1>9. Records(o.counters, w)
    BY <1>2, <1>5, CounterAssumption DEF Records, Saturated
  <1>10. WordsFed(o, w)
    BY <1>3, <1>6, <1>9 DEF WordsFed
  <1> QED
    BY <1>3, <1>7, <1>8, <1>10 DEF Summing

\* Only counters and trackers matter.
LEMMA SameSumming ==
    ASSUME NEW o, NEW n, NEW c, Summing(o, c),
           n.counters = o.counters, n.hpt = o.hpt, n.hwt = o.hwt
    PROVE  Summing(n, c)
  BY DEF Summing, HeapsKept, PagesFed, WordsFed

HeapsInv ==
    config \in ProbeConfigs /\ request \in Seq(LineAccess) /\ Summing(Now, config)

LEMMA HeapsAlone ==
    ASSUME HeapsInv, UNCHANGED <<config, counters, hpt, hwt>>, request' \in Seq(LineAccess)
    PROVE  HeapsInv'
  <1>1. PICK n : n = Now'
    OBVIOUS
  <1>2. PICK o : o = Now
    OBVIOUS
  <1>3. n.counters = o.counters /\ n.hpt = o.hpt /\ n.hwt = o.hwt
    BY <1>1, <1>2 DEF Now
  <1>4. Summing(n, config)
    BY <1>2, <1>3, SameSumming DEF HeapsInv
  <1>5. Summing(Now, config)'
    BY <1>1, <1>4
  <1> QED
    BY <1>5 DEF HeapsInv

LEMMA EndEpochHeaps ==
    ASSUME NEW o, Summing(o, config), NEW since, EndEpoch(o, since) \/ Keep(o, since),
           config' = config, config \in ProbeConfigs, request' \in Seq(LineAccess)
    PROVE  HeapsInv'
  <1>1. PICK n : n = Now'
    OBVIOUS
  <1>2. n.counters = counters' /\ n.hpt = hpt' /\ n.hwt = hwt'
    BY <1>1 DEF Now
  <1>3. \/ counters' = EmptyCounters /\ hpt' = EmptyTrackers /\ hwt' = EmptyTrackers
        \/ counters' = o.counters /\ hpt' = o.hpt /\ hwt' = o.hwt
    BY DEF EndEpoch, Keep
  <1>4. Summing(n, config)
    BY <1>2, <1>3, ClearedSumming, SameSumming
  <1>5. Summing(Now, config)'
    BY <1>1, <1>4
  <1> QED
    BY <1>5 DEF HeapsInv

\* What an access is given.
LEMMA LineOf ==
    ASSUME OnLine, request \in Seq(LineAccess)
    PROVE  /\ Head(request).line \in Lines /\ Head(request).type \in AccessType
           /\ request' \in Seq(LineAccess)
  <1>1. request # <<>> /\ request' = Tail(request)
    BY DEF OnLine, NoRequest
  <1>2. Head(request) \in LineAccess /\ request' \in Seq(LineAccess)
    BY <1>1, HeadTailProperties
  <1> QED
    BY <1>2 DEF LineAccess

LEMMA HeapsStep == HeapsInv /\ [Next]_vars => HeapsInv'
  <1> SUFFICES ASSUME HeapsInv, [Next]_vars PROVE HeapsInv'
    OBVIOUS
  <1>0. request \in Seq(LineAccess) /\ config \in ProbeConfigs /\ Summing(Now, config)
    BY DEF HeapsInv
  <1>1. CASE UNCHANGED vars
    BY <1>0, <1>1, HeapsAlone DEF vars, memory, trackers
  <1>2. ASSUME NEW r \in Requests, OnRequest(r) PROVE HeapsInv'
    <2>1. request' \in Seq(LineAccess)
      BY <1>2, RequestLines
    <2> QED
      BY <1>2, <2>1, HeapsAlone DEF OnRequest, memory, trackers
  <1>3. CASE OnLine
    <2>1. PICK line \in Lines, type \in AccessType :
              line = Head(request).line /\ type = Head(request).type
      BY <1>0, <1>3, LineOf
    <2>2. PICK o : o = After(line, type)
      OBVIOUS
    <2>3. Summing(o, config)
      BY <1>0, <2>2, AccessSumming
    <2>4. config' = config /\ (EndEpoch(o, Since) \/ Keep(o, Since))
      BY <1>3, <2>1, <2>2 DEF OnLine
    <2>5. request' \in Seq(LineAccess)
      BY <1>0, <1>3, LineOf
    <2> QED
      BY <1>0, <2>3, <2>4, <2>5, EndEpochHeaps
  <1>4. ASSUME EndEpoch(Now, sinceEpoch), UNCHANGED <<config, request>>
        PROVE  HeapsInv'
    BY <1>0, <1>4, EndEpochHeaps
  <1>5. CASE CloseByHand
    BY <1>4, <1>5 DEF CloseByHand
  <1>6. CASE Exit
    BY <1>4, <1>6 DEF Exit
  <1>7. CASE Flush
    BY <1>0, <1>7, HeapsAlone DEF Flush, memory, trackers
  <1>8. CASE Complete
    BY <1>0, <1>8, HeapsAlone DEF Complete, memory, trackers
  <1>9. CASE Rename
    BY <1>0, <1>9, HeapsAlone DEF Rename, memory, trackers
  <1>10. CASE Kill
    BY <1>0, <1>10, HeapsAlone DEF Kill, memory, trackers
  <1> QED
    BY <1>1, <1>2, <1>3, <1>5, <1>6, <1>7, <1>8, <1>9, <1>10 DEF Next

LEMMA HeapsInit == Init => HeapsInv
  <1> SUFFICES ASSUME Init PROVE HeapsInv
    OBVIOUS
  <1>1. PICK o : o = Now
    OBVIOUS
  <1>2. o.counters = EmptyCounters /\ o.hpt = EmptyTrackers /\ o.hwt = EmptyTrackers
    BY <1>1 DEF Now, Init
  <1>3. Summing(Now, config)
    BY <1>1, <1>2, ClearedSumming
  <1> QED
    BY <1>3, EmptySeq DEF Init, HeapsInv, NoRequest

LEMMA HeapsHold == Spec => []HeapsInv
  BY HeapsInit, HeapsStep, PTL DEF Spec

(***************************************************************************)
(* A page with more than one part in N of the open epoch's accesses is in   *)
(* every Space-Saving tracker of N entries.                                 *)
(***************************************************************************)
THEOREM HeavyHittersAreKept == Spec => []HeavyHittersKept
  <1>1. HeapsInv => HeavyHittersKept
    <2> SUFFICES ASSUME HeapsInv, ~config.useCountMin, NEW i \in Slots, NEW p \in Pages,
                        PageTotal(counters, p) * Budgets[i] > counters.total
                 PROVE  p \in KeysHeld(hpt[i])
      BY DEF HeavyHittersKept
    <2>1. /\ Whole(counters)
          /\ HeapFed(hpt[i], Budgets[i], Pages, PageTotals(counters), counters.total)
      BY DEF HeapsInv, Summing, Now, PagesFed
    <2>2. PICK e : e = Entries(hpt[i])
      OBVIOUS
    <2>3. PICK f : f = PageTotals(counters)
      OBVIOUS
    <2>4. Summarised(Pages, e, Budgets[i], f, counters.total) /\ DOMAIN e = KeysHeld(hpt[i])
      BY <2>1, <2>2, <2>3 DEF HeapFed, Entries
    <2>5. f[p] * Budgets[i] > counters.total
      BY <2>3 DEF PageTotals
    <2>6. Budgets[i] \in Nat /\ counters.total \in Nat
      BY <2>1, BudgetPositive, UntouchedIsEmpty
    <2>7. p \in DOMAIN e
      BY <2>4, <2>5, <2>6, HotIsHeld
    <2> QED
      BY <2>4, <2>7
  <1> QED
    BY <1>1, HeapsHold, PTL

-----------------------------------------------------------------------------
(***************************************************************************)
(* The refinement: an access of the heap is one of the abstract tracker's   *)
(* steps for the key, a closed epoch is its reset, and everything else is a *)
(* stutter.                                                                 *)
(***************************************************************************)
PageTruth == IF config.useCountMin THEN Unfed(Pages) ELSE [p \in Pages |-> PageTotal(counters, p)]
WordTruth == IF config.useCountMin \/ ~config.trackWords THEN Unfed(Lines) ELSE counters.word

LEMMA PageSets == \A i, S : PageTracker(i)!Cardinality(S) = Cardinality(S)
  BY DEF PageTracker!Cardinality, Cardinality

LEMMA WordSets == \A i, S : WordTracker(i)!Cardinality(S) = Cardinality(S)
  BY DEF WordTracker!Cardinality, Cardinality

LEMMA PageAccessed ==
    ASSUME NEW i \in Slots, NEW key \in Pages,
           Accesses(Entries(hpt[i]), Budgets[i], key, Entries(hpt'[i])),
           PageTruth' = PlusOne(PageTruth, key)
    PROVE  PageTracker(i)!Next
  <1>1. PageTracker(i)!Seen(key)
    BY DEF PageTracker!Seen, PageTruth, PlusOne
  <1>2. PICK e : e = Entries(hpt[i])
    OBVIOUS
  <1>3. PICK f : f = Entries(hpt'[i])
    OBVIOUS
  <1>4. PageTracker(i)!Tracked = DOMAIN e
    BY <1>2 DEF PageTracker!Tracked
  <1>5. PageTracker(i)!Full <=> Cardinality(DOMAIN e) >= Budgets[i]
    BY <1>4, PageSets DEF PageTracker!Full
  <1>6. CASE Hits(e, key, f)
    BY <1>1, <1>2, <1>3, <1>4, <1>6
       DEF Hits, HitEntries, PageTracker!Next, PageTracker!Hit
  <1>7. CASE Inserts(e, Budgets[i], key, f)
    BY <1>1, <1>2, <1>3, <1>4, <1>5, <1>7
       DEF Inserts, MoreEntries, PageTracker!Next, PageTracker!Insert
  <1>8. CASE \E victim \in DOMAIN e : Evicts(e, Budgets[i], key, victim, f)
    <2>1. PICK victim \in DOMAIN e : Evicts(e, Budgets[i], key, victim, f)
      BY <1>8
    <2>2. victim \in PageTracker(i)!Coldest
      BY <1>2, <1>4, <2>1 DEF Evicts, Smaller, PageTracker!Coldest
    <2>3. PageTracker(i)!Evict(key, victim)
      BY <1>1, <1>2, <1>3, <1>4, <1>5, <2>1, <2>2 DEF Evicts, OtherEntries, PageTracker!Evict
    <2> QED
      BY <1>4, <2>3 DEF PageTracker!Next
  <1> QED
    BY <1>2, <1>3, <1>6, <1>7, <1>8 DEF Accesses

LEMMA WordAccessed ==
    ASSUME NEW i \in Slots, NEW key \in Lines,
           Accesses(Entries(hwt[i]), Budgets[i], key, Entries(hwt'[i])),
           WordTruth' = PlusOne(WordTruth, key)
    PROVE  WordTracker(i)!Next
  <1>1. WordTracker(i)!Seen(key)
    BY DEF WordTracker!Seen, WordTruth, PlusOne
  <1>2. PICK e : e = Entries(hwt[i])
    OBVIOUS
  <1>3. PICK f : f = Entries(hwt'[i])
    OBVIOUS
  <1>4. WordTracker(i)!Tracked = DOMAIN e
    BY <1>2 DEF WordTracker!Tracked
  <1>5. WordTracker(i)!Full <=> Cardinality(DOMAIN e) >= Budgets[i]
    BY <1>4, WordSets DEF WordTracker!Full
  <1>6. CASE Hits(e, key, f)
    BY <1>1, <1>2, <1>3, <1>4, <1>6
       DEF Hits, HitEntries, WordTracker!Next, WordTracker!Hit
  <1>7. CASE Inserts(e, Budgets[i], key, f)
    BY <1>1, <1>2, <1>3, <1>4, <1>5, <1>7
       DEF Inserts, MoreEntries, WordTracker!Next, WordTracker!Insert
  <1>8. CASE \E victim \in DOMAIN e : Evicts(e, Budgets[i], key, victim, f)
    <2>1. PICK victim \in DOMAIN e : Evicts(e, Budgets[i], key, victim, f)
      BY <1>8
    <2>2. victim \in WordTracker(i)!Coldest
      BY <1>2, <1>4, <2>1 DEF Evicts, Smaller, WordTracker!Coldest
    <2>3. WordTracker(i)!Evict(key, victim)
      BY <1>1, <1>2, <1>3, <1>4, <1>5, <2>1, <2>2 DEF Evicts, OtherEntries, WordTracker!Evict
    <2> QED
      BY <1>4, <2>3 DEF WordTracker!Next
  <1> QED
    BY <1>2, <1>3, <1>6, <1>7, <1>8 DEF Accesses

Steps ==
    \A i \in Slots : /\ [PageTracker(i)!Next]_(PageTracker(i)!vars)
                     /\ [WordTracker(i)!Next]_(WordTracker(i)!vars)

\* Cleared trackers are reset ones.
LEMMA ClearedSteps ==
    ASSUME counters' = EmptyCounters, hpt' = EmptyTrackers, hwt' = EmptyTrackers
    PROVE  Steps
  <1> SUFFICES ASSUME NEW i \in Slots
               PROVE  PageTracker(i)!Reset /\ WordTracker(i)!Reset
    BY DEF Steps, PageTracker!Next, WordTracker!Next
  <1>1. hpt'[i] = EmptyTracker /\ hwt'[i] = EmptyTracker
    BY DEF EmptyTrackers
  <1>2. Entries(EmptyTracker) = [k \in {} |-> [count |-> 0, error |-> 0]]
    BY BudgetPositive, EmptyHeap
  <1>3. Entries(hpt'[i]) = [k \in {} |-> [count |-> 0, error |-> 0]]
    BY <1>1, <1>2
  <1>4. Entries(hwt'[i]) = [k \in {} |-> [count |-> 0, error |-> 0]]
    BY <1>1, <1>2
  <1>5. PageTruth' = [p \in Pages |-> 0]
    BY DEF PageTruth, PageTotal, Unfed, EmptyCounters
  <1>6. WordTruth' = [l \in Lines |-> 0]
    BY DEF WordTruth, Unfed, EmptyCounters
  <1>7. PageTracker(i)!Reset
    BY <1>3, <1>5 DEF PageTracker!Reset, PageTruth
  <1>8. WordTracker(i)!Reset
    BY <1>4, <1>6 DEF WordTracker!Reset, WordTruth
  <1> QED
    BY <1>7, <1>8

\* Trackers that are left alone stutter.
LEMMA StutterSteps ==
    ASSUME UNCHANGED <<config, counters, hpt, hwt>>
    PROVE  Steps
  BY DEF Steps, PageTracker!vars, WordTracker!vars

\* An access that closes no epoch and saturates no counter.
LEMMA AccessSteps ==
    ASSUME HeapsInv, NEW line \in Lines, NEW type \in AccessType, NEW since,
           Keep(After(line, type), since), config' = config, counters'.saturations = 0
    PROVE  Steps
  <1>1. PICK page : page = PageOf(line)
    OBVIOUS
  <1>2. PICK cm : cm = config.useCountMin
    OBVIOUS
  <1>3. PICK words : words = config.trackWords
    OBVIOUS
  <1>4. /\ counters' = CountAccess(counters, line, type)
        /\ hpt' = Fed(hpt, page, ~cm) /\ hwt' = Fed(hwt, line, ~cm /\ words)
    BY <1>1, <1>2, <1>3 DEF After, Keep
  <1>5. /\ ~cm => \A i \in Slots : hpt'[i] = TrackAccess(hpt[i], Budgets[i], page)
        /\ cm => hpt' = hpt
        /\ ~cm /\ words => \A i \in Slots : hwt'[i] = TrackAccess(hwt[i], Budgets[i], line)
        /\ ~(~cm /\ words) => hwt' = hwt
    BY <1>4 DEF Fed
  <1>6. /\ counters \in Counters
        /\ \A i \in Slots : HeapInv(hpt[i], Budgets[i]) /\ HeapInv(hwt[i], Budgets[i])
    BY DEF HeapsInv, Summing, Now, HeapsKept, Whole
  <1>7. page \in Pages /\ page \in Keys /\ line \in Keys
    BY <1>1, PageOfLine, KeysOf
  <1>8. counters'.word = PlusOne(counters.word, line)
    <2>1. counters.saturations \in Nat
      BY <1>6 DEF Counters
    <2>2. counters.word[line] # WordMax
      BY <1>4, <2>1 DEF CountAccess
    <2> QED
      BY <1>4, <2>2 DEF CountAccess
  <1>9. PageTotals(counters') = PlusOne(PageTotals(counters), page)
    BY <1>1, <1>4, <1>6, PageCounted
  <1> SUFFICES ASSUME NEW i \in Slots
               PROVE  /\ [PageTracker(i)!Next]_(PageTracker(i)!vars)
                      /\ [WordTracker(i)!Next]_(WordTracker(i)!vars)
    BY DEF Steps
  <1>10. Budgets[i] \in Nat \ {0}
    BY BudgetPositive
  <1>11. CASE cm
    <2>1. PageTruth' = PageTruth /\ WordTruth' = WordTruth /\ hpt' = hpt /\ hwt' = hwt
      BY <1>2, <1>5, <1>11 DEF PageTruth, WordTruth
    <2> QED
      BY <2>1 DEF PageTracker!vars, WordTracker!vars, PageTruth, WordTruth
  <1>12. CASE ~cm
    <2>1. Accesses(Entries(hpt[i]), Budgets[i], page, Entries(hpt'[i]))
      BY <1>5, <1>6, <1>7, <1>10, <1>12, AccessKeepsHeap
    <2>2. PageTruth' = PlusOne(PageTruth, page)
      BY <1>2, <1>9, <1>12 DEF PageTruth, PageTotals
    <2>3. PageTracker(i)!Next
      BY <1>7, <2>1, <2>2, PageAccessed
    <2>4. CASE words
      <3>1. Accesses(Entries(hwt[i]), Budgets[i], line, Entries(hwt'[i]))
        BY <1>5, <1>6, <1>7, <1>10, <1>12, <2>4, AccessKeepsHeap
      <3>2. WordTruth' = PlusOne(WordTruth, line)
        BY <1>2, <1>3, <1>8, <1>12, <2>4 DEF WordTruth
      <3>3. WordTracker(i)!Next
        BY <3>1, <3>2, WordAccessed
      <3> QED
        BY <2>3, <3>3
    <2>5. CASE ~words
      <3>1. WordTruth' = WordTruth /\ hwt' = hwt
        BY <1>2, <1>3, <1>5, <1>12, <2>5 DEF WordTruth
      <3> QED
        BY <2>3, <3>1 DEF WordTracker!vars, WordTruth
    <2> QED
      BY <2>4, <2>5
  <1> QED
    BY <1>11, <1>12

LEMMA RefinementStep ==
    HeapsInv /\ [Next]_vars /\ counters'.saturations = 0 => [Steps]_vars
  <1> SUFFICES ASSUME HeapsInv, [Next]_vars, counters'.saturations = 0 PROVE [Steps]_vars
    OBVIOUS
  <1>0. request \in Seq(LineAccess)
    BY DEF HeapsInv
  <1>1. CASE UNCHANGED vars
    BY <1>1
  <1>2. ASSUME NEW r \in Requests, OnRequest(r) PROVE Steps
    BY <1>2, StutterSteps DEF OnRequest, memory, trackers
  <1>3. CASE OnLine
    <2>1. PICK line \in Lines, type \in AccessType :
              line = Head(request).line /\ type = Head(request).type
      BY <1>0, <1>3, LineOf
    <2>2. config' = config /\ (EndEpoch(After(line, type), Since) \/ Keep(After(line, type), Since))
      BY <1>3, <2>1 DEF OnLine
    <2>3. \/ counters' = EmptyCounters /\ hpt' = EmptyTrackers /\ hwt' = EmptyTrackers
          \/ Keep(After(line, type), Since)
      BY <2>2 DEF EndEpoch
    <2> QED
      BY <2>2, <2>3, ClearedSteps, AccessSteps
  <1>4. ASSUME EndEpoch(Now, sinceEpoch), UNCHANGED <<config, request>>
        PROVE  Steps
    <2>1. \/ counters' = EmptyCounters /\ hpt' = EmptyTrackers /\ hwt' = EmptyTrackers
          \/ UNCHANGED <<config, counters, hpt, hwt>>
      BY <1>4 DEF EndEpoch, Keep, Now
    <2> QED
      BY <2>1, ClearedSteps, StutterSteps
  <1>5. CASE CloseByHand
    BY <1>4, <1>5 DEF CloseByHand
  <1>6. CASE Exit
    BY <1>4, <1>6 DEF Exit
  <1>7. CASE Flush
    BY <1>7, StutterSteps DEF Flush, memory, trackers
  <1>8. CASE Complete
    BY <1>8, StutterSteps DEF Complete, memory, trackers
  <1>9. CASE Rename
    BY <1>9, StutterSteps DEF Rename, memory, trackers
  <1>10. CASE Kill
    BY <1>10, StutterSteps DEF Kill, memory, trackers
  <1> QED
    BY <1>1, <1>2, <1>3, <1>5, <1>6, <1>7, <1>8, <1>9, <1>10 DEF Next

LEMMA RefinementInit == Init => \A i \in Slots : PageTracker(i)!Init /\ WordTracker(i)!Init
  <1> SUFFICES ASSUME Init, NEW i \in Slots PROVE PageTracker(i)!Init /\ WordTracker(i)!Init
    OBVIOUS
  <1>1. hpt[i] = EmptyTracker /\ hwt[i] = EmptyTracker /\ counters = EmptyCounters
    BY DEF Init, EmptyTrackers
  <1>2. Entries(EmptyTracker) = [k \in {} |-> [count |-> 0, error |-> 0]]
    BY BudgetPositive, EmptyHeap
  <1>3. PageTruth = [p \in Pages |-> 0]
    BY <1>1 DEF PageTruth, PageTotal, Unfed, EmptyCounters
  <1>4. WordTruth = [l \in Lines |-> 0]
    BY <1>1 DEF WordTruth, Unfed, EmptyCounters
  <1>5. PageTracker(i)!Init
    BY <1>1, <1>2, <1>3 DEF PageTracker!Init, PageTruth
  <1>6. WordTracker(i)!Init
    BY <1>1, <1>2, <1>4 DEF WordTracker!Init, WordTruth
  <1> QED
    BY <1>5, <1>6

(***************************************************************************)
(* Every heap of every slot implements Space-Saving for the exact stream of *)
(* its epoch, as long as no word counter saturates: the counters the words  *)
(* are compared with stop at WordMax.                                       *)
(***************************************************************************)
THEOREM HeapsImplementSpaceSaving ==
    Spec /\ [](counters.saturations = 0) => ImplementsSpaceSaving
  <1>1. HeapsInv /\ [Next]_vars /\ (counters.saturations = 0)' => [Steps]_vars
    BY RefinementStep
  <1>2. ImplementsSpaceSaving <=>
            (\A i \in Slots : PageTracker(i)!Init /\ WordTracker(i)!Init) /\ [][Steps]_vars
    BY DEF ImplementsSpaceSaving, Steps
  <1> QED
    BY <1>1, <1>2, RefinementInit, HeapsHold, PTL DEF Spec

-----------------------------------------------------------------------------
(***************************************************************************)
(* The best choices of k keys.  No set of at most k keys counts more, by    *)
(* exchange: what a best choice leaves out is no larger than anything it    *)
(* takes.                                                                   *)
(***************************************************************************)
CountsOf(c) == IsFiniteSet(DOMAIN c) /\ \A x \in DOMAIN c : c[x] \in Nat

LEMMA BestAre ==
    ASSUME NEW c, CountsOf(c), NEW k \in Nat, NEW S \in Best(c, k)
    PROVE  /\ S \subseteq DOMAIN c /\ IsFiniteSet(S) /\ Cardinality(S) <= k
           /\ Cardinality(S) = k \/ Cardinality(S) = Cardinality(DOMAIN c)
           /\ Cardinality(S) <= Cardinality(DOMAIN c)
           /\ \A a \in S, b \in DOMAIN c \ S : c[a] >= c[b]
  <1>1. PICK d : d = Cardinality(DOMAIN c)
    OBVIOUS
  <1>2. d \in Nat
    BY <1>1, FS_CardinalityType DEF CountsOf
  <1>3. PICK n : n = Min({k, d})
    OBVIOUS
  <1>4. n \in {k, d} /\ n <= k /\ n <= d
    BY <1>2, <1>3, MinOfNat
  <1>5. S \in kSubset(n, DOMAIN c) /\ \A a \in S, b \in DOMAIN c \ S : c[a] >= c[b]
    BY <1>1, <1>3 DEF Best
  <1>6. S \subseteq DOMAIN c /\ Cardinality(S) = n
    BY <1>5 DEF kSubset
  <1>7. IsFiniteSet(S)
    BY <1>6, FS_Subset DEF CountsOf
  <1> QED
    BY <1>1, <1>4, <1>5, <1>6, <1>7

LEMMA BestCountsMost ==
    ASSUME NEW c, CountsOf(c), NEW k \in Nat, NEW S \in Best(c, k),
           NEW T, T \subseteq DOMAIN c, Cardinality(T) <= k
    PROVE  SumFunctionOnSet(c, T) <= SumFunctionOnSet(c, S)
  <1> DEFINE Sm(s) == SumFunctionOnSet(c, s)
  <1>1. /\ S \subseteq DOMAIN c /\ IsFiniteSet(S) /\ IsFiniteSet(T)
        /\ Cardinality(S) = k \/ Cardinality(S) = Cardinality(DOMAIN c)
        /\ \A a \in S, b \in DOMAIN c \ S : c[a] >= c[b]
        /\ \A x \in DOMAIN c : c[x] \in Nat
    BY BestAre, FS_Subset DEF CountsOf
  <1>2. PICK A : A = S \ T
    OBVIOUS
  <1>3. PICK B : B = T \ S
    OBVIOUS
  <1>4. PICK C : C = S \cap T
    OBVIOUS
  <1>5. /\ S = C \cup A /\ T = C \cup B /\ C \cap A = {} /\ C \cap B = {}
        /\ A \subseteq DOMAIN c /\ B \subseteq DOMAIN c /\ C \subseteq DOMAIN c
        /\ A \subseteq S /\ B \subseteq DOMAIN c \ S /\ B \subseteq T /\ C \subseteq S
    BY <1>1, <1>2, <1>3, <1>4
  <1>6. IsFiniteSet(A) /\ IsFiniteSet(B) /\ IsFiniteSet(C)
    BY <1>1, <1>5, FS_Subset
  <1>7. PICK na \in Nat : na = Cardinality(A)
    BY <1>6, FS_CardinalityType
  <1>8. PICK nb \in Nat : nb = Cardinality(B)
    BY <1>6, FS_CardinalityType
  <1>9. nb <= na
    <2>1. PICK nc \in Nat : nc = Cardinality(C)
      BY <1>6, FS_CardinalityType
    <2>2. Cardinality(S) = nc + na
      <3>1. Cardinality(C \cup A) = Cardinality(C) + Cardinality(A) - Cardinality(C \cap A)
        BY <1>6, FS_Union
      <3>2. Cardinality(C \cap A) = 0
        BY <1>5, FS_EmptySet
      <3> QED
        BY <1>5, <1>7, <2>1, <3>1, <3>2
    <2>3. Cardinality(T) = nc + nb
      <3>1. Cardinality(C \cup B) = Cardinality(C) + Cardinality(B) - Cardinality(C \cap B)
        BY <1>6, FS_Union
      <3>2. Cardinality(C \cap B) = 0
        BY <1>5, FS_EmptySet
      <3> QED
        BY <1>5, <1>8, <2>1, <3>1, <3>2
    <2>4. Cardinality(T) <= Cardinality(DOMAIN c)
      BY FS_Subset DEF CountsOf
    <2>5. Cardinality(T) <= Cardinality(S)
      BY <1>1, <2>4
    <2> QED
      BY <2>1, <2>2, <2>3, <2>5
  <1>10. Sm(A) \in Nat /\ Sm(B) \in Nat /\ Sm(C) \in Nat
    BY <1>1, <1>5, <1>6, SumInNat
  <1>11. Sm(S) = Sm(C) + Sm(A)
    BY <1>1, <1>5, <1>6, SumOfUnion
  <1>12. Sm(T) = Sm(C) + Sm(B)
    BY <1>1, <1>5, <1>6, SumOfUnion
  <1>13. Sm(B) <= Sm(A)
    <2>1. CASE A = {}
      <3>1. B = {}
        BY <1>6, <1>7, <1>8, <1>9, <2>1, FS_EmptySet
      <3> QED
        BY <1>10, <2>1, <3>1
    <2>2. CASE A # {}
      <3>1. PICK a \in A : \A x \in A : c[a] <= c[x]
        <4> DEFINE N == {c[x] : x \in A}
        <4>1. N \subseteq Nat /\ N # {}
          BY <1>1, <1>5, <2>2
        <4>2. \E m \in N : \A x \in N : m <= x
          BY <4>1, LeastOfNat
        <4> QED
          BY <4>2
      <3>2. PICK m \in Nat : m = c[a]
        BY <1>1, <1>5, <3>1
      <3>3. \A x \in A : c[x] \in Nat /\ m <= c[x]
        BY <1>1, <1>5, <3>1, <3>2
      <3>4. \A x \in B : c[x] \in Nat /\ c[x] <= m
        BY <1>1, <1>5, <3>1, <3>2
      <3>5. m * na <= Sm(A)
        BY <1>6, <1>7, <3>3, SumAtLeast
      <3>6. Sm(B) <= m * nb
        BY <1>6, <1>8, <3>4, SumAtMost
      <3>7. m * nb <= m * na
        BY <1>9
      <3>8. m * nb \in Nat /\ m * na \in Nat
        OBVIOUS
      <3> QED
        BY <1>10, <3>5, <3>6, <3>7, <3>8
    <2> QED
      BY <2>1, <2>2
  <1> HIDE DEF Sm
  <1>14. Sm(T) <= Sm(S)
    BY <1>10, <1>11, <1>12, <1>13
  <1> QED
    BY <1>14 DEF Sm

\* A finite set has subsets of every smaller size.
LEMMA SubsetsOfSize ==
    ASSUME NEW S, IsFiniteSet(S), NEW n \in Nat, n <= Cardinality(S)
    PROVE  \E T \in SUBSET S : Cardinality(T) = n
  <1> DEFINE F == {T \in SUBSET S : n <= Cardinality(T)}
  <1>1. S \in F /\ \A T \in F : IsFiniteSet(T)
    BY FS_Subset
  <1>2. PICK T \in F : \A U \in F : Cardinality(T) <= Cardinality(U)
    BY <1>1, SmallestMember
  <1>3. PICK d \in Nat : d = Cardinality(T)
    BY <1>1, FS_CardinalityType
  <1>4. n <= d /\ T \subseteq S /\ IsFiniteSet(T)
    BY <1>1, <1>3
  <1>5. ASSUME n # d PROVE FALSE
    <2>1. T # {}
      BY <1>3, <1>4, <1>5, FS_EmptySet
    <2>2. PICK x \in T : TRUE
      BY <2>1
    <2>3. Cardinality(T \ {x}) = d - 1
      BY <1>3, <1>4, FS_RemoveElement
    <2>4. T \ {x} \in F
      BY <1>3, <1>4, <1>5, <2>3
    <2>5. d <= d - 1
      BY <1>2, <1>3, <2>3, <2>4
    <2> QED
      BY <2>5
  <1> QED
    BY <1>3, <1>4, <1>5

\* There is a best choice: of the choices, one that counts most.
LEMMA BestExists ==
    ASSUME NEW c, CountsOf(c), NEW k \in Nat
    PROVE  Best(c, k) # {}
  <1> DEFINE Sm(s) == SumFunctionOnSet(c, s)
  <1>1. PICK D : D = DOMAIN c
    OBVIOUS
  <1>2. IsFiniteSet(D) /\ \A x \in D : c[x] \in Nat
    BY <1>1 DEF CountsOf
  <1>3. PICK n : n = Min({k, Cardinality(D)})
    OBVIOUS
  <1>4. n \in Nat /\ n <= Cardinality(D)
    BY <1>2, <1>3, MinOfNat, FS_CardinalityType
  <1>5. PICK P : P = {T \in SUBSET D : Cardinality(T) = n}
    OBVIOUS
  <1>6. P # {}
    BY <1>2, <1>4, <1>5, SubsetsOfSize
  <1>7. \A T \in P : T \subseteq D /\ IsFiniteSet(T) /\ Sm(T) \in Nat
    <2> SUFFICES ASSUME NEW T \in P PROVE T \subseteq D /\ IsFiniteSet(T) /\ Sm(T) \in Nat
      OBVIOUS
    <2>1. T \subseteq D /\ IsFiniteSet(T)
      BY <1>2, <1>5, FS_Subset
    <2> QED
      BY <1>2, <2>1, SumInNat
  <1>8. PICK all \in Nat : all = Sm(D)
    BY <1>2, SumInNat
  <1>9. ASSUME NEW T \in P PROVE Sm(T) <= all
    <2>1. IsFiniteSet(D \ T) /\ IsFiniteSet(T) /\ T \subseteq D /\ Sm(T) \in Nat
      BY <1>2, <1>7, FS_Subset
    <2>2. Sm(D \ T) \in Nat
      BY <1>2, <2>1, SumInNat
    <2>3. D = T \cup (D \ T) /\ T \cap (D \ T) = {}
      BY <2>1
    <2>4. Sm(T \cup (D \ T)) = Sm(T) + Sm(D \ T)
      BY <1>2, <2>1, <2>3, SumOfUnion
    <2>5. all = Sm(T) + Sm(D \ T)
      BY <1>8, <2>3, <2>4
    <2> HIDE DEF Sm
    <2> QED
      BY <2>1, <2>2, <2>5
  <1>10. PICK S \in P : \A T \in P : Sm(T) <= Sm(S)
    <2> HIDE DEF Sm
    <2> DEFINE N == {all - Sm(T) : T \in P}
    <2>1. N \subseteq Nat /\ N # {}
      BY <1>6, <1>7, <1>9
    <2>2. PICK m \in N : \A x \in N : m <= x
      BY <2>1, LeastOfNat
    <2>3. PICK S \in P : m = all - Sm(S)
      BY <2>2
    <2>4. ASSUME NEW T \in P PROVE Sm(T) <= Sm(S)
      <3>1. all - Sm(S) <= all - Sm(T)
        BY <2>2, <2>3
      <3>2. Sm(S) \in Nat /\ Sm(T) \in Nat
        BY <1>7
      <3> QED
        BY <3>1, <3>2
    <2> QED
      BY <2>4
  <1>11. ASSUME NEW a \in S, NEW b \in D \ S, ~ (c[a] >= c[b]) PROVE FALSE
    <2>1. PICK T : T = (S \ {a}) \cup {b}
      OBVIOUS
    <2>2. S \subseteq D /\ IsFiniteSet(S) /\ b \notin S
      BY <1>7, <1>10, <1>11
    <2>3. Cardinality(T) = Cardinality(S)
      <3>1. Cardinality((S \ {a}) \cup {b}) = Cardinality(S)
        BY <2>2, SwapCardinality
      <3> QED
        BY <2>1, <3>1
    <2>4. T \in P
      BY <1>5, <1>10, <2>1, <2>2, <2>3
    <2>5. PICK R : R = S \ {a}
      OBVIOUS
    <2>6. IsFiniteSet(R) /\ R \subseteq D /\ b \notin R /\ T = R \cup {b}
      BY <2>1, <2>2, <2>5, FS_Subset
    <2>7. Sm(R) \in Nat
      BY <1>2, <2>6, SumInNat
    <2>8. Sm(S) = c[a] + Sm(R)
      BY <1>2, <2>2, <2>5, SumTakesAny
    <2>9. Sm(T) = Sm(R) + c[b]
      BY <1>2, <2>6, SumWith
    <2>10. c[a] \in Nat /\ c[b] \in Nat
      BY <1>2, <2>2
    <2> HIDE DEF Sm
    <2>11. Sm(T) <= Sm(S)
      BY <1>10, <2>4
    <2> QED
      BY <1>11, <2>7, <2>8, <2>9, <2>10, <2>11
  <1>12. S \in kSubset(n, D)
    BY <1>5, <1>10 DEF kSubset
  <1>13. S \in Best(c, k)
    BY <1>1, <1>3, <1>11, <1>12 DEF Best
  <1> QED
    BY <1>13

\* Whatever was picked as the best by some ranking scores no better than the ideal.
LEMMA ScoreIsRatio ==
    ASSUME NEW exact, CountsOf(exact), NEW ranked, CountsOf(ranked), NEW k \in Nat,
           NEW S \in Best(ranked, k)
    PROVE  /\ Ratio(Score(S, exact, k))
           /\ S \in Best(exact, k) => Score(S, exact, k).picked = Score(S, exact, k).ideal
  <1>1. PICK D : D = DOMAIN exact
    OBVIOUS
  <1>2. PICK I : I = CHOOSE X \in Best(exact, k) : TRUE
    OBVIOUS
  <1>3. I \in Best(exact, k)
    BY <1>2, BestExists
  <1>4. I \subseteq D
    BY <1>1, <1>3, BestAre
  <1>5. I \cap D = I
    BY <1>4
  <1>6. Score(S, exact, k).picked = SumFunctionOnSet(exact, S \cap D)
    BY <1>1 DEF Score, Sum
  <1>7. Score(S, exact, k).ideal = SumFunctionOnSet(exact, I)
    BY <1>1, <1>2, <1>5 DEF Score, Sum
  <1>8. PICK T : T = S \cap D
    OBVIOUS
  <1>9. T \subseteq D /\ Cardinality(T) <= k
    <2>1. IsFiniteSet(S) /\ Cardinality(S) <= k
      BY BestAre
    <2>2. T \subseteq S
      BY <1>8
    <2>3. IsFiniteSet(T) /\ Cardinality(T) <= Cardinality(S)
      BY <2>1, <2>2, FS_Subset
    <2>4. Cardinality(T) \in Nat /\ Cardinality(S) \in Nat
      BY <2>1, <2>3, FS_CardinalityType
    <2> QED
      BY <1>8, <2>1, <2>3, <2>4
  <1>10. SumFunctionOnSet(exact, T) <= SumFunctionOnSet(exact, I)
    BY <1>1, <1>3, <1>9, BestCountsMost
  <1>11. Ratio(Score(S, exact, k))
    BY <1>6, <1>7, <1>8, <1>10 DEF Ratio
  <1>12. ASSUME S \in Best(exact, k)
         PROVE  SumFunctionOnSet(exact, T) = SumFunctionOnSet(exact, I)
    <2>1. S \subseteq D
      BY <1>1, <1>12, BestAre
    <2>2. T = S
      BY <1>8, <2>1
    <2>3. IsFiniteSet(I) /\ Cardinality(I) <= k
      BY <1>3, BestAre
    <2>4. SumFunctionOnSet(exact, I) <= SumFunctionOnSet(exact, S)
      BY <1>1, <1>4, <1>12, <2>3, BestCountsMost
    <2>5. SumFunctionOnSet(exact, I) \in Nat /\ SumFunctionOnSet(exact, T) \in Nat
      <3>1. /\ \A x \in I : exact[x] \in Nat
            /\ \A x \in T : exact[x] \in Nat
        BY <1>1, <1>4, <1>9 DEF CountsOf
      <3>2. IsFiniteSet(T) /\ IsFiniteSet(I)
        BY <1>1, <1>9, <2>3, FS_Subset DEF CountsOf
      <3> QED
        BY <3>1, <3>2, SumInNat
    <2> QED
      BY <1>10, <2>2, <2>4, <2>5
  <1> QED
    BY <1>6, <1>7, <1>8, <1>11, <1>12

\* A ranking that orders the keys as the exact counts do picks a best choice.
LEMMA SameBest ==
    ASSUME NEW exact, NEW ranked, DOMAIN ranked = DOMAIN exact, NEW k,
           \A a, b \in DOMAIN exact : ranked[a] >= ranked[b] => exact[a] >= exact[b],
           NEW S \in Best(ranked, k)
    PROVE  S \in Best(exact, k)
  <1>1. PICK D : D = DOMAIN exact /\ D = DOMAIN ranked
    OBVIOUS
  <1>2. PICK n : n = Min({k, Cardinality(D)})
    OBVIOUS
  <1>3. S \in kSubset(n, D) /\ \A a \in S, b \in D \ S : ranked[a] >= ranked[b]
    BY <1>1, <1>2 DEF Best
  <1>4. S \subseteq D
    BY <1>3 DEF kSubset
  <1>5. \A a \in S, b \in D \ S : exact[a] >= exact[b]
    BY <1>1, <1>3, <1>4
  <1> QED
    BY <1>1, <1>2, <1>3, <1>5 DEF Best

\* The words of the touched pages are the touched words.
LEMMA WordsSum ==
    ASSUME NEW c, IsFiniteSet(Touched(c))
    PROVE  UniqueWordsIn(c) = Cardinality(Touched(c))
  <1> DEFINE W(p) == {l \in Touched(c) : PageOf(l) = p}
             In(P) == {l \in Touched(c) : PageOf(l) \in P}
  <1>1. \A p : WordsTouched(c, p) = W(p)
    BY DEF WordsTouched, Touched
  <1>2. PICK T : T = TouchedPages(c)
    OBVIOUS
  <1>3. PICK f : f = [p \in T |-> Cardinality(W(p))]
    OBVIOUS
  <1>4. UniqueWordsIn(c) = SumFunctionOnSet(f, T)
    <2>1. UniqueWordsIn(c) = SumFunction(f)
      BY <1>1, <1>2, <1>3 DEF UniqueWordsIn
    <2>2. DOMAIN f = T
      BY <1>3
    <2> QED
      BY <2>1, <2>2 DEF SumFunction
  <1>5. T = {PageOf(l) : l \in Touched(c)}
    BY <1>2, PagesOfWords, PageOfLine DEF Touched
  <1>6. IsFiniteSet(T)
    <2>1. PICK g : g = [l \in Touched(c) |-> PageOf(l)]
      OBVIOUS
    <2>2. T = {g[l] : l \in Touched(c)}
      BY <1>5, <2>1
    <2> QED
      BY <2>2, FiniteImage
  <1>7. \A P : IsFiniteSet(In(P))
    BY FS_Subset
  <1>8. \A p : IsFiniteSet(W(p)) /\ Cardinality(W(p)) \in Nat
    BY FS_Subset, FS_CardinalityType
  <1>9. \A p \in T : f[p] = Cardinality(W(p)) /\ f[p] \in Nat
    BY <1>3, <1>8
  <1> DEFINE Bad == {P \in SUBSET T : SumFunctionOnSet(f, P) # Cardinality(In(P))}
  <1>10. ASSUME Bad # {} PROVE FALSE
    <2>1. \A P \in Bad : IsFiniteSet(P)
      BY <1>6, FS_Subset
    <2>2. PICK P \in Bad : \A Q \in Bad : Cardinality(P) <= Cardinality(Q)
      BY <1>10, <2>1, SmallestMember
    <2>3. P # {}
      <3>1. In({}) = {}
        OBVIOUS
      <3>2. Cardinality(In({})) = 0
        BY <3>1, FS_EmptySet
      <3> QED
        BY <3>2, SumOfNone
    <2>4. PICK p \in P : TRUE
      BY <2>3
    <2>5. PICK Q : Q = P \ {p}
      OBVIOUS
    <2>6. /\ Cardinality(Q) = Cardinality(P) - 1 /\ Cardinality(P) \in Nat
          /\ IsFiniteSet(P) /\ P \subseteq T /\ Q \subseteq T
      BY <2>1, <2>5, FS_RemoveElement, FS_CardinalityType
    <2>7. SumFunctionOnSet(f, Q) = Cardinality(In(Q))
      BY <2>2, <2>6
    <2>8. SumFunctionOnSet(f, P) = f[p] + SumFunctionOnSet(f, Q)
      <3>1. \A q \in P : f[q] \in Nat
        BY <1>9, <2>6
      <3> QED
        BY <2>5, <2>6, <3>1, SumTakesAny
    <2>9. In(P) = In(Q) \cup W(p) /\ In(Q) \cap W(p) = {}
      BY <2>4, <2>5
    <2> HIDE DEF In, W
    <2>10. Cardinality(In(Q) \cup W(p))
               = Cardinality(In(Q)) + Cardinality(W(p)) - Cardinality(In(Q) \cap W(p))
      BY <1>7, <1>8, FS_Union
    <2>11. Cardinality(In(Q) \cap W(p)) = 0
      BY <2>9, FS_EmptySet
    <2>12. Cardinality(In(Q)) \in Nat /\ Cardinality(W(p)) \in Nat
      BY <1>7, <1>8, FS_CardinalityType
    <2>13. f[p] = Cardinality(W(p))
      BY <1>9, <2>4, <2>6
    <2>14. SumFunctionOnSet(f, P) = Cardinality(In(P))
      BY <2>7, <2>8, <2>9, <2>10, <2>11, <2>12, <2>13
    <2> QED
      BY <2>2, <2>14
  <1>11. SumFunctionOnSet(f, T) = Cardinality(In(T))
    BY <1>10
  <1>12. In(T) = Touched(c)
    BY <1>5
  <1> QED
    BY <1>4, <1>11, <1>12

-----------------------------------------------------------------------------
\* What a slot is ranked by, in either kind of tracker.
LEMMA EntriesRank ==
    ASSUME NEW t, NEW cap, HeapInv(t, cap)
    PROVE  RankedEntries(t) = Counts(Entries(t)) /\ CountsOf(RankedEntries(t))
  <1>1. MapKept(t)
    BY DEF HeapInv
  <1>2. RankedEntries(t) = Counts(Entries(t))
    BY DEF RankedEntries, Counts, Entries
  <1>3. IsFiniteSet(KeysHeld(t)) /\ DOMAIN RankedEntries(t) = KeysHeld(t)
    BY <1>1, PlacesCount DEF RankedEntries
  <1>4. ASSUME NEW k \in KeysHeld(t) PROVE RankedEntries(t)[k] \in Nat
    <2>1. /\ t.pos[k] \in DOMAIN t.heap
          /\ Entries(t)[k] = [count |-> t.heap[t.pos[k]].count,
                              error |-> t.heap[t.pos[k]].error]
      BY <1>1, HeldAre
    <2>2. t.heap[t.pos[k]] \in Entry
      BY <1>1, <2>1, TrackerTyped DEF MapKept
    <2>3. Entries(t)[k].count \in Nat
      BY <2>1, <2>2 DEF Entry
    <2>4. RankedEntries(t)[k] = Entries(t)[k].count
      BY DEF RankedEntries, Entries
    <2> QED
      BY <2>3, <2>4
  <1> QED
    BY <1>2, <1>3, <1>4 DEF CountsOf

LEMMA CamRanks ==
    ASSUME NEW s, NEW w \in Nat \ {0}, Kept(s, w)
    PROVE  CountsOf(RankedCam(s))
  <1>1. Shape(s, w)
    BY DEF Kept
  <1>2. /\ Len(s.cam) \in Nat /\ DOMAIN s.cam = 1..Len(s.cam)
        /\ \A i \in DOMAIN s.cam : s.cam[i].key \in Keys
    BY <1>1, CamFacts
  <1>3. IsFiniteSet(DOMAIN s.cam)
    <2>1. PICK n \in Nat : n = Len(s.cam)
      BY <1>2
    <2>2. IsFiniteSet(1..n)
      BY FS_Interval
    <2> QED
      BY <1>2, <2>1, <2>2
  <1>4. IsFiniteSet(CamKeys(s))
    <2>1. PICK g : g = [i \in DOMAIN s.cam |-> s.cam[i].key]
      OBVIOUS
    <2>2. CamKeys(s) = {g[i] : i \in DOMAIN s.cam}
      BY <2>1 DEF CamKeys
    <2> QED
      BY <1>3, <2>2, FiniteImage
  <1>5. CamKeys(s) \subseteq Keys
    BY <1>2 DEF CamKeys
  <1>6. \A k \in CamKeys(s) : Estimate(s, k) \in Nat
    BY <1>1, <1>5, EstimateIsLeast
  <1> QED
    BY <1>4, <1>6 DEF CountsOf, RankedCam

LEMMA ExactCounts ==
    ASSUME NEW c, Whole(c), IsFiniteSet(Touched(c))
    PROVE  CountsOf(ExactPages(c)) /\ CountsOf(ExactWords(c))
  <1>1. /\ c.word \in [Lines -> 0..WordMax] /\ c.reads \in [Pages -> Nat]
        /\ c.writes \in [Pages -> Nat] /\ IsFiniteSet(TouchedPages(c)) /\ WordMax \in Nat
    BY CounterAssumption DEF Whole, Counters
  <1>2. TouchedPages(c) \subseteq Pages
    BY DEF TouchedPages
  <1>3. CountsOf(ExactPages(c))
    BY <1>1, <1>2 DEF CountsOf, ExactPages, PageTotal
  <1>4. CountsOf(ExactWords(c))
    <2>1. DOMAIN ExactWords(c) = Touched(c)
      BY DEF ExactWords, Touched
    <2>2. \A l \in Touched(c) : ExactWords(c)[l] = c.word[l] /\ l \in Lines
      BY DEF ExactWords, Touched
    <2>3. \A l \in Lines : c.word[l] \in Nat
      BY <1>1
    <2> QED
      BY <2>1, <2>2, <2>3 DEF CountsOf
  <1> QED
    BY <1>3, <1>4

\* What may be scored: counters and trackers of either kind, whole.
SketchesOf(o) ==
    \A i \in Slots : /\ Kept(o.hptCM[i], WidthOf(Budgets[i]))
                     /\ Kept(o.hwtCM[i], WidthOf(Budgets[i]))
Scorable(o, c) ==
    Summing(o, c) /\ SketchesOf(o) /\ IsFiniteSet(Touched(o.counters))

\* What a score of a slot promises, if all the keys had room.
FairPages(c, r, i) ==
    /\ Ratio(r.hpt[i])
    /\ ~c.useCountMin /\ r.pages <= Budgets[i] => r.hpt[i].picked = r.hpt[i].ideal
FairWords(c, r, i) ==
    /\ Ratio(r.hwt[i])
    /\ ~c.useCountMin /\ r.words <= Budgets[i] => r.hwt[i].picked = r.hwt[i].ideal

LEMMA PageScoresFair ==
    ASSUME config \in ProbeConfigs, NEW o, Scorable(o, config), NEW i \in Slots,
           NEW s \in PageScores(o, i)
    PROVE  /\ Ratio(s)
           /\ ~config.useCountMin /\ Cardinality(TouchedPages(o.counters)) <= Budgets[i]
                  => s.picked = s.ideal
  <1>0. PICK exact : exact = ExactPages(o.counters)
    OBVIOUS
  <1>1. PICK k : k = config.topK
    OBVIOUS
  <1>2. PICK ranked : ranked = IF config.useCountMin THEN RankedCam(o.hptCM[i])
                               ELSE RankedEntries(o.hpt[i])
    OBVIOUS
  <1>3. PICK S \in Best(ranked, k) : s = Score(S, exact, k)
    BY <1>0, <1>1, <1>2 DEF PageScores
  <1>4. k \in Nat /\ Whole(o.counters) /\ HeapInv(o.hpt[i], Budgets[i])
    BY <1>1, ConfigTyped DEF Scorable, Summing, HeapsKept
  <1>5. CountsOf(exact)
    BY <1>0, <1>4, ExactCounts DEF Scorable
  <1>6. CountsOf(ranked)
    <2>1. CountsOf(RankedCam(o.hptCM[i]))
      BY WidthPositive, CamRanks DEF Scorable, SketchesOf
    <2>2. CountsOf(RankedEntries(o.hpt[i]))
      BY <1>4, EntriesRank
    <2> QED
      BY <1>2, <2>1, <2>2
  <1>7. /\ Ratio(s)
        /\ S \in Best(exact, k) => s.picked = s.ideal
    BY <1>3, <1>4, <1>5, <1>6, ScoreIsRatio
  <1>8. ASSUME ~config.useCountMin, Cardinality(TouchedPages(o.counters)) <= Budgets[i]
        PROVE  S \in Best(exact, k)
    <2>1. PICK e : e = Entries(o.hpt[i])
      OBVIOUS
    <2>2. PICK f : f = PageTotals(o.counters)
      OBVIOUS
    <2>3. PICK T : T = TouchedPages(o.counters)
      OBVIOUS
    <2>4. RoomForAll(Pages, e, Budgets[i], f)
      BY <1>8, <2>1, <2>2 DEF Scorable, Summing, PagesFed, HeapFed, Summarised
    <2>5. T \subseteq Pages /\ \A p \in Pages : f[p] # 0 <=> p \in T
      BY <1>4, <2>2, <2>3 DEF Whole, TouchedPages
    <2>6. Occurred(Pages, f) = T
      BY <2>5 DEF Occurred
    <2>7. DOMAIN e = T /\ \A p \in T : e[p].count = f[p]
      BY <1>8, <2>3, <2>4, <2>6 DEF RoomForAll
    <2>8. ranked = Counts(e)
      BY <1>2, <1>4, <1>8, <2>1, EntriesRank
    <2>9. DOMAIN ranked = T /\ \A p \in T : ranked[p] = f[p]
      BY <2>7, <2>8 DEF Counts
    <2>10. DOMAIN exact = T /\ \A p \in T : exact[p] = f[p]
      BY <1>0, <2>2, <2>3, <2>5 DEF ExactPages, PageTotals
    <2>11. DOMAIN ranked = DOMAIN exact
      BY <2>9, <2>10
    <2>12. \A a, b \in DOMAIN exact : ranked[a] >= ranked[b] => exact[a] >= exact[b]
      BY <2>9, <2>10
    <2> QED
      BY <2>11, <2>12, SameBest
  <1> QED
    BY <1>7, <1>8

LEMMA WordScoresFair ==
    ASSUME config \in ProbeConfigs, NEW o, Scorable(o, config), NEW i \in Slots,
           NEW s \in WordScores(o, i)
    PROVE  /\ Ratio(s)
           /\ ~config.useCountMin /\ UniqueWordsIn(o.counters) <= Budgets[i]
                  => s.picked = s.ideal
  <1>a. CASE ~config.trackWords
    BY <1>a DEF WordScores, NoScore, Ratio
  <1>b. CASE config.trackWords
    <2>0. PICK exact : exact = ExactWords(o.counters)
      OBVIOUS
    <2>1. PICK k : k = config.topK
      OBVIOUS
    <2>2. PICK ranked : ranked = IF config.useCountMin THEN RankedCam(o.hwtCM[i])
                                 ELSE RankedEntries(o.hwt[i])
      OBVIOUS
    <2>3. PICK S \in Best(ranked, k) : s = Score(S, exact, k)
      BY <1>b, <2>0, <2>1, <2>2 DEF WordScores
    <2>4. k \in Nat /\ Whole(o.counters) /\ HeapInv(o.hwt[i], Budgets[i])
      BY <2>1, ConfigTyped DEF Scorable, Summing, HeapsKept
    <2>5. CountsOf(exact)
      BY <2>0, <2>4, ExactCounts DEF Scorable
    <2>6. CountsOf(ranked)
      <3>1. CountsOf(RankedCam(o.hwtCM[i]))
        BY WidthPositive, CamRanks DEF Scorable, SketchesOf
      <3>2. CountsOf(RankedEntries(o.hwt[i]))
        BY <2>4, EntriesRank
      <3> QED
        BY <2>2, <3>1, <3>2
    <2>7. /\ Ratio(s)
          /\ S \in Best(exact, k) => s.picked = s.ideal
      BY <2>3, <2>4, <2>5, <2>6, ScoreIsRatio
    <2>8. ASSUME ~config.useCountMin, UniqueWordsIn(o.counters) <= Budgets[i]
          PROVE  S \in Best(exact, k)
      <3>1. PICK e : e = Entries(o.hwt[i])
        OBVIOUS
      <3>2. PICK w : WordsFed(o, w)
        BY <1>b, <2>8 DEF Scorable, Summing
      <3>3. PICK T : T = Touched(o.counters)
        OBVIOUS
      <3>4. RoomForAll(Lines, e, Budgets[i], w)
        BY <3>1, <3>2 DEF WordsFed, HeapFed, Summarised
      <3>5. /\ w \in [Lines -> Nat] /\ WordMax \in Nat \ {0}
            /\ \A l \in Lines : o.counters.word[l] = Saturated(w[l])
        BY <3>2, CounterAssumption DEF WordsFed, Records
      <3>6. T \subseteq Lines /\ Occurred(Lines, w) = T
        <4>1. ASSUME NEW l \in Lines PROVE o.counters.word[l] # 0 <=> w[l] # 0
          <5>1. PICK m \in Nat : m = w[l]
            BY <3>5
          <5>2. o.counters.word[l] = IF m <= WordMax THEN m ELSE WordMax
            BY <3>5, <5>1 DEF Saturated
          <5> QED
            BY <3>5, <5>1, <5>2
        <4>2. Touched(o.counters) = {l \in Lines : w[l] # 0}
          BY <4>1 DEF Touched
        <4> QED
          BY <3>3, <4>2 DEF Occurred
      <3>7. Cardinality(T) <= Budgets[i]
        BY <2>8, <3>3, WordsSum DEF Scorable
      <3>8. DOMAIN e = T /\ \A l \in T : e[l].count = w[l]
        BY <3>4, <3>6, <3>7 DEF RoomForAll
      <3>9. ranked = Counts(e)
        BY <2>2, <2>4, <2>8, <3>1, EntriesRank
      <3>10. DOMAIN ranked = T /\ \A l \in T : ranked[l] = w[l]
        BY <3>8, <3>9 DEF Counts
      <3>11. DOMAIN exact = T /\ \A l \in T : exact[l] = Saturated(w[l])
        BY <2>0, <3>3, <3>5, <3>6 DEF ExactWords, Touched
      <3>12. \A a, b \in Nat : a >= b => Saturated(a) >= Saturated(b)
        BY <3>5 DEF Saturated
      <3>13. DOMAIN ranked = DOMAIN exact
        BY <3>10, <3>11
      <3>14. \A a, b \in DOMAIN exact : ranked[a] >= ranked[b] => exact[a] >= exact[b]
        BY <3>5, <3>6, <3>10, <3>11, <3>12
      <3> QED
        BY <3>13, <3>14, SameBest
    <2> QED
      BY <2>7, <2>8
  <1> QED
    BY <1>a, <1>b

FairInv ==
    /\ SketchInv /\ HeapsInv /\ IsFiniteSet(Touched(counters))
    /\ ResultsListed /\ ScoresFair

FairResult(c, r) == \A i \in Slots : FairPages(c, r, i) /\ FairWords(c, r, i)

LEMMA FairIs == ScoresFair <=> \A e \in DOMAIN results : FairResult(config, results[e])
  BY DEF ScoresFair, FairResult, FairPages, FairWords

\* An epoch that is closed adds a result that is fair.
LEMMA EndEpochFair ==
    ASSUME config \in ProbeConfigs, NEW o, Scorable(o, config), NEW since, EndEpoch(o, since)
    PROVE  \/ results' = results /\ counters' = o.counters
           \/ /\ counters' = EmptyCounters
              /\ \E r : FairResult(config, r) /\ results' = Append(results, r)
  <1>1. CASE TouchedPages(o.counters) = {}
    BY <1>1 DEF EndEpoch, Keep
  <1>2. CASE TouchedPages(o.counters) # {}
    <2>1. PICK h, w : /\ h \in OnePerSlot(LAMBDA i : PageScores(o, i))
                      /\ w \in OnePerSlot(LAMBDA i : WordScores(o, i))
                      /\ results' = Append(results, EpochResult(o, h, w))
      BY <1>2 DEF EndEpoch
    <2>2. \A i \in Slots : h[i] \in PageScores(o, i) /\ w[i] \in WordScores(o, i)
      BY <2>1 DEF OnePerSlot
    <2>3. PICK r : r = EpochResult(o, h, w)
      OBVIOUS
    <2>4. /\ r.pages = Cardinality(TouchedPages(o.counters)) /\ r.hpt = h /\ r.hwt = w
          /\ r.words = UniqueWordsIn(o.counters)
      BY <2>3 DEF EpochResult
    <2>5. ASSUME NEW i \in Slots PROVE FairPages(config, r, i)
      BY <2>2, <2>4, PageScoresFair DEF FairPages
    <2>6. ASSUME NEW i \in Slots PROVE FairWords(config, r, i)
      BY <2>2, <2>4, WordScoresFair DEF FairWords
    <2>7. FairResult(config, r)
      BY <2>5, <2>6 DEF FairResult
    <2>8. counters' = EmptyCounters
      BY <1>2 DEF EndEpoch
    <2> QED
      BY <2>1, <2>3, <2>7, <2>8
  <1> QED
    BY <1>1, <1>2

\* One more fair result.
LEMMA FairAppended ==
    ASSUME ResultsListed, ScoresFair, config' = config, NEW r, FairResult(config, r),
           results' = Append(results, r)
    PROVE  ResultsListed' /\ ScoresFair'
  <1>1. PICK S : results \in Seq(S)
    BY DEF ResultsListed
  <1>2. results \in Seq(S \cup {r})
    BY <1>1, SeqMonotonic
  <1> DEFINE m == Len(results)
  <1>3. /\ m \in Nat /\ DOMAIN results = 1..m
        /\ DOMAIN results' = 1..(m + 1) /\ results'[m + 1] = r
        /\ \A i \in 1..m : results'[i] = results[i]
    BY <1>2, LenProperties, AppendProperties
  <1> HIDE DEF m
  <1>4. \A e \in 1..(m + 1) : e \in 1..m \/ e = m + 1
    BY <1>3
  <1>5. \A e \in DOMAIN results : FairResult(config, results[e])
    BY FairIs
  <1>6. \A e \in DOMAIN results' : FairResult(config, results'[e])
    BY <1>3, <1>4, <1>5
  <1>7. ScoresFair'
    BY <1>6 DEF ScoresFair, FairResult, FairPages, FairWords
  <1> QED
    BY <1>7, ResultsGrow

\* What leaves results and counters alone leaves the scores fair.
LEMMA FairAlone ==
    ASSUME FairInv, UNCHANGED <<config, results>>
    PROVE  ResultsListed' /\ ScoresFair'
  BY DEF FairInv, ResultsListed, ScoresFair

LEMMA NowScorable == FairInv => Scorable(Now, config)
  <1> SUFFICES ASSUME FairInv PROVE Scorable(Now, config)
    OBVIOUS
  <1>1. SketchesOf(Now)
    BY DEF FairInv, SketchInv, SketchesKept, SketchesOf, Now
  <1>2. Summing(Now, config) /\ IsFiniteSet(Touched(Now.counters))
    BY DEF FairInv, HeapsInv, Now
  <1> QED
    BY <1>1, <1>2 DEF Scorable

LEMMA AfterScorable ==
    ASSUME FairInv, NEW line \in Lines, NEW type \in AccessType
    PROVE  Scorable(After(line, type), config)
  <1>1. PICK o : o = After(line, type)
    OBVIOUS
  <1>2. Summing(o, config)
    BY <1>1, AccessSumming DEF FairInv, HeapsInv
  <1>3. PICK page : page = PageOf(line)
    OBVIOUS
  <1>4. PICK cm : cm = config.useCountMin
    OBVIOUS
  <1>5. PICK words : words = config.trackWords
    OBVIOUS
  <1>6. /\ o.counters = CountAccess(counters, line, type)
        /\ o.hptCM = FedCM(hptCM, page, cm) /\ o.hwtCM = FedCM(hwtCM, line, cm /\ words)
    BY <1>1, <1>3, <1>4, <1>5 DEF After
  <1>7. page \in Keys /\ line \in Keys /\ config.topK \in Nat \ {0}
    BY <1>3, PageOfLine, KeysOf, ConfigTyped DEF FairInv, HeapsInv
  <1>8. ASSUME NEW i \in Slots
        PROVE  Kept(o.hptCM[i], WidthOf(Budgets[i])) /\ Kept(o.hwtCM[i], WidthOf(Budgets[i]))
    <2>1. PICK n \in Nat \ {0} : n = WidthOf(Budgets[i])
      BY WidthPositive
    <2>2. Kept(hptCM[i], n) /\ Kept(hwtCM[i], n)
      BY <2>1 DEF FairInv, SketchInv, SketchesKept
    <2>3. Kept(SketchAccess(hptCM[i], config.topK, page), n)
      BY <1>7, <2>2, SketchStep
    <2>4. Kept(SketchAccess(hwtCM[i], config.topK, line), n)
      BY <1>7, <2>2, SketchStep
    <2>5. o.hptCM[i] = IF cm THEN SketchAccess(hptCM[i], config.topK, page) ELSE hptCM[i]
      BY <1>6 DEF FedCM
    <2>6. o.hwtCM[i] = IF cm /\ words THEN SketchAccess(hwtCM[i], config.topK, line) ELSE hwtCM[i]
      BY <1>6 DEF FedCM
    <2> QED
      BY <2>1, <2>2, <2>3, <2>4, <2>5, <2>6
  <1>9. IsFiniteSet(Touched(o.counters))
    <2>1. counters \in Counters /\ IsFiniteSet(Touched(counters))
      BY DEF FairInv, SketchInv, ProbeTypes
    <2>2. Touched(o.counters) = Touched(counters) \cup {line}
      BY <1>6, <2>1, CountAccessFacts
    <2> QED
      BY <2>1, <2>2, FS_AddElement
  <1> QED
    BY <1>1, <1>2, <1>8, <1>9 DEF Scorable, SketchesOf

\* Closing an epoch, or leaving it open, on something that may be scored.
LEMMA CloseFair ==
    ASSUME FairInv, config' = config, NEW o, Scorable(o, config), NEW since,
           EndEpoch(o, since) \/ Keep(o, since)
    PROVE  ResultsListed' /\ ScoresFair' /\ IsFiniteSet(Touched(counters'))
  <1>1. config \in ProbeConfigs /\ ResultsListed /\ ScoresFair
    BY DEF FairInv, HeapsInv
  <1>2. CASE results' = results /\ counters' = o.counters
    BY <1>2, FairAlone DEF Scorable
  <1>3. CASE /\ counters' = EmptyCounters
             /\ \E r : FairResult(config, r) /\ results' = Append(results, r)
    <2>1. ResultsListed' /\ ScoresFair'
      BY <1>1, <1>3, FairAppended
    <2>2. IsFiniteSet(Touched(counters'))
      BY <1>3, EmptyWhole, FS_EmptySet
    <2> QED
      BY <2>1, <2>2
  <1> QED
    BY <1>1, <1>2, <1>3, EndEpochFair DEF Keep

LEMMA FairStep == FairInv /\ [Next]_vars => FairInv'
  <1> SUFFICES ASSUME FairInv, [Next]_vars PROVE FairInv'
    OBVIOUS
  <1>0. SketchInv' /\ HeapsInv' /\ request \in Seq(LineAccess)
    BY SketchStepInv, HeapsStep DEF FairInv, HeapsInv
  <1>a. ASSUME UNCHANGED <<config, counters, results>> PROVE FairInv'
    BY <1>0, <1>a, FairAlone DEF FairInv
  <1>1. CASE UNCHANGED vars
    BY <1>1, <1>a DEF vars, memory
  <1>2. ASSUME NEW r \in Requests, OnRequest(r) PROVE FairInv'
    BY <1>2, <1>a DEF OnRequest, memory
  <1>3. CASE OnLine
    <2>1. PICK line \in Lines, type \in AccessType :
              line = Head(request).line /\ type = Head(request).type
      BY <1>0, <1>3, LineOf
    <2>2. PICK o : o = After(line, type)
      OBVIOUS
    <2>3. Scorable(o, config)
      BY <2>2, AfterScorable
    <2>4. config' = config /\ (EndEpoch(o, Since) \/ Keep(o, Since))
      BY <1>3, <2>1, <2>2 DEF OnLine
    <2> QED
      BY <1>0, <2>3, <2>4, CloseFair DEF FairInv
  <1>4. ASSUME EndEpoch(Now, sinceEpoch), config' = config PROVE FairInv'
    BY <1>0, <1>4, NowScorable, CloseFair DEF FairInv
  <1>5. CASE CloseByHand
    BY <1>4, <1>5 DEF CloseByHand
  <1>6. CASE Exit
    BY <1>4, <1>6 DEF Exit
  <1>7. CASE Flush
    BY <1>7, <1>a DEF Flush, memory
  <1>8. CASE Complete
    BY <1>8, <1>a DEF Complete, memory
  <1>9. CASE Rename
    BY <1>9, <1>a DEF Rename, memory
  <1>10. CASE Kill
    BY <1>10, <1>a DEF Kill, memory
  <1> QED
    BY <1>1, <1>2, <1>3, <1>5, <1>6, <1>7, <1>8, <1>9, <1>10 DEF Next

(***************************************************************************)
(* No tracker scores better than the best choice of k keys, and a Space-    *)
(* Saving tracker that had room for all the keys of its epoch scores as     *)
(* well (scoreTopK), for every configuration, every stream and every choice *)
(* among keys that count the same.  The words' tracker keeps counting where *)
(* the exact counter saturates, which changes no order.                     *)
(***************************************************************************)
THEOREM ScoresAreFair == Spec => []ScoresFair
  <1>1. Init => FairInv
    <2> SUFFICES ASSUME Init PROVE FairInv
      OBVIOUS
    <2>1. SketchInv /\ HeapsInv
      BY SketchInitInv, HeapsInit
    <2>2. IsFiniteSet(Touched(counters))
      BY EmptyWhole, FS_EmptySet DEF Init
    <2>3. results = <<>> /\ <<>> \in Seq({}) /\ DOMAIN <<>> = {}
      BY EmptySeq, LenProperties DEF Init
    <2>4. ResultsListed /\ ScoresFair
      BY <2>3 DEF ResultsListed, ScoresFair
    <2> QED
      BY <2>1, <2>2, <2>4 DEF FairInv
  <1>2. FairInv => ScoresFair
    BY DEF FairInv
  <1> QED
    BY <1>1, <1>2, FairStep, PTL DEF Spec

-----------------------------------------------------------------------------
(***************************************************************************)
(* Space-Saving alone, for every set of keys, every capacity and every      *)
(* stream (SpaceSaving in tracker.hpp).  The two properties need each       *)
(* other: the newcomer of an eviction inherits the smallest count, and only *)
(* MissedAreCold says that this covers what the newcomer may already have   *)
(* had.                                                                     *)
(***************************************************************************)
CONSTANTS TrackedKeys, Capacity

VARIABLES entries, occurred     \* what a tracker holds, and the stream as counts

SS == INSTANCE SpaceSaving WITH Keys <- TrackedKeys, truth <- occurred

TrackerInv == SS!TypeOK /\ SS!EstimateBounds /\ SS!MissedAreCold

\* The instance counts as this module does.
LEMMA SameSets == \A S : /\ SS!IsFiniteSet(S) <=> IsFiniteSet(S)
                         /\ SS!Cardinality(S) = Cardinality(S)
  BY DEF SS!IsFiniteSet, IsFiniteSet, SS!Cardinality, Cardinality

\* Types and properties, as the laws of the accesses state them.
LEMMA TrackerInvIs == TrackerInv <=> Promised(TrackedKeys, entries, Capacity, occurred)
  BY SameSets DEF TrackerInv, SS!TypeOK, SS!EstimateBounds, SS!MissedAreCold, SS!Tracked, SS!Full,
                  Promised, EntriesOf, Bounded, MissedCold

\* A step of the tracker with some key is an access of that key.
LEMMA TrackerSteps ==
    ASSUME NEW key \in TrackedKeys, TrackerInv,
           SS!Hit(key) \/ SS!Insert(key) \/ \E victim \in SS!Tracked : SS!Evict(key, victim)
    PROVE  TrackerInv'
  <1>1. Promised(TrackedKeys, entries, Capacity, occurred)
    BY TrackerInvIs
  <1>2. PICK o : o = PlusOne(occurred, key)
    OBVIOUS
  <1>t. SS!Seen(key) => occurred' = o
    BY <1>2 DEF SS!Seen, PlusOne
  <1>3. SUFFICES Promised(TrackedKeys, entries', Capacity, o) /\ occurred' = o
    BY SameSets DEF TrackerInv, SS!TypeOK, SS!EstimateBounds, SS!MissedAreCold, SS!Tracked, SS!Full,
                    Promised, EntriesOf, Bounded, MissedCold
  <1>4. CASE SS!Hit(key)
    BY <1>1, <1>2, <1>t, <1>4, HitPromised DEF SS!Hit, SS!Tracked, Hits, HitEntries
  <1>5. CASE SS!Insert(key)
    BY <1>1, <1>2, <1>t, <1>5, SameSets, InsertPromised
       DEF SS!Insert, SS!Tracked, SS!Full, Inserts, MoreEntries
  <1>6. CASE \E victim \in SS!Tracked : SS!Evict(key, victim)
    <2>1. PICK victim \in DOMAIN entries : SS!Evict(key, victim)
      BY <1>6 DEF SS!Tracked
    <2>2. Evicts(entries, Capacity, key, victim, entries') /\ occurred' = o
      BY <1>t, <2>1, SameSets
         DEF SS!Evict, SS!Tracked, SS!Full, SS!Coldest, Evicts, Smaller, OtherEntries
    <2> QED
      BY <1>1, <1>2, <2>2, EvictPromised
  <1> QED
    BY <1>4, <1>5, <1>6

\* A reset, like the initial state, has nothing to bound.
LEMMA EmptyIsFine ==
    ASSUME NEW e, NEW t, e = [k \in {} |-> [count |-> 0, error |-> 0]],
           t = [k \in TrackedKeys |-> 0]
    PROVE  /\ DOMAIN e = {} /\ IsFiniteSet(DOMAIN e)
           /\ e \in [DOMAIN e -> [count : Nat, error : Nat]]
           /\ t \in [TrackedKeys -> Nat] /\ \A k \in TrackedKeys : t[k] = 0
  BY FS_EmptySet

(***************************************************************************)
(* Types, bounds and the coldness of the missed keys hold throughout.       *)
(***************************************************************************)
THEOREM TrackerInvariant == SS!Spec => []TrackerInv
  <1>1. SS!Init => TrackerInv
    BY EmptyIsFine, SameSets
       DEF SS!Init, TrackerInv, SS!TypeOK, SS!EstimateBounds, SS!MissedAreCold, SS!Tracked
  <1>2. TrackerInv /\ [SS!Next]_(SS!vars) => TrackerInv'
    <2> SUFFICES ASSUME TrackerInv, [SS!Next]_(SS!vars) PROVE TrackerInv'
      OBVIOUS
    <2>1. CASE SS!Reset
      BY <2>1, EmptyIsFine, SameSets
         DEF SS!Reset, TrackerInv, SS!TypeOK, SS!EstimateBounds, SS!MissedAreCold, SS!Tracked
    <2>2. CASE UNCHANGED SS!vars
      BY <2>2
         DEF SS!vars, TrackerInv, SS!TypeOK, SS!EstimateBounds, SS!MissedAreCold, SS!Tracked, SS!Full
    <2> QED
      BY <2>1, <2>2, TrackerSteps DEF SS!Next
  <1> QED
    BY <1>1, <1>2, PTL DEF SS!Spec

\* "A key's true count is in [count-error, count]" (tracker.hpp:53).
THEOREM CountsAreBounded == SS!Spec => []SS!EstimateBounds
  BY TrackerInvariant, PTL DEF TrackerInv

\* What the tracker does not hold is no hotter than what it holds.
THEOREM MissedKeysAreCold == SS!Spec => []SS!MissedAreCold
  BY TrackerInvariant, PTL DEF TrackerInv
=============================================================================
