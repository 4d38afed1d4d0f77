---------------------------- MODULE CountMinTopK ----------------------------
(***************************************************************************)
(* The Count-Min tracker as a value (CountMinTopK in tracker.hpp): rows of  *)
(* counters that every access increments at one place per row, and a CAM of *)
(* keys with the estimate each had when it was last looked at.  The code    *)
(* calls the CAM's estimates a cache of the sketch; they lag behind it      *)
(* between refreshes.                                                       *)
(***************************************************************************)
EXTENDS Naturals, Sequences, FiniteSetsExt

CONSTANTS Hash(_, _),       \* the salted mixer: key, row
          RefreshInterval   \* accesses between two refreshes of the CAM

EmptySketch(depth, width) ==
    [width |-> width,
     rows  |-> [r \in 1..depth |-> [c \in 0..(width - 1) |-> 0]],
     cam   |-> <<>>,
     since |-> 0]

Place(s, r, key) == Hash(key, r) % s.width

Cells(s, key) == {s.rows[r][Place(s, r, key)] : r \in DOMAIN s.rows}

Estimate(s, key) == Min(Cells(s, key))

\* Mutant: only the first row counts.
CountFirstRow(s, key) ==
    [s EXCEPT !.rows[1][Place(s, 1, key)] = @ + 1]

Count(s, key) ==
    [s EXCEPT !.rows = [r \in DOMAIN @ |->
                           [s.rows[r] EXCEPT ![Place(s, r, key)] = @ + 1]]]

RefreshCam(s) ==
    [s EXCEPT !.cam = [i \in DOMAIN @ |->
                          [key |-> s.cam[i].key, est |-> Estimate(s, s.cam[i].key)]]]

RefreshDue(s) == s.since + 1 >= RefreshInterval

Aged(s) == IF RefreshDue(s) THEN [RefreshCam(s) EXCEPT !.since = 0]
           ELSE [s EXCEPT !.since = @ + 1]

CamPlaces(s, key) == {i \in DOMAIN s.cam : s.cam[i].key = key}

\* The place in the CAM whose cached estimate is the smallest, the first of them.
MinPlace(s) ==
    Min({i \in DOMAIN s.cam : \A j \in DOMAIN s.cam : s.cam[i].est <= s.cam[j].est})

\* Mutant: the incumbent is judged by its cached estimate.
ChallengeCached(s, key, est) ==
    LET m == MinPlace(s)
    IN  IF est > s.cam[m].est THEN [s EXCEPT !.cam[m] = [key |-> key, est |-> est]]
        ELSE s

\* A full CAM: the newcomer against the incumbent, whose count is read again.
Challenge(s, key, est) ==
    LET m == MinPlace(s)
        incumbent == Estimate(s, s.cam[m].key)
    IN  IF est > incumbent THEN [s EXCEPT !.cam[m] = [key |-> key, est |-> est]]
        ELSE [s EXCEPT !.cam[m].est = incumbent]

OfferToCam(s, k, key, est) ==
    IF CamPlaces(s, key) # {}
    THEN [s EXCEPT !.cam = [i \in DOMAIN @ |->
                               IF i = Min(CamPlaces(s, key)) THEN [key |-> key, est |-> est]
                               ELSE s.cam[i]]]
    ELSE IF Len(s.cam) < k
    THEN [s EXCEPT !.cam = Append(@, [key |-> key, est |-> est])]
    ELSE Challenge(s, key, est)

\* CountMinTopK::access on a tracker whose CAM holds k keys.
SketchAccess(s, k, key) ==
    LET counted == Count(s, key)
    IN  OfferToCam(Aged(counted), k, key, Estimate(counted, key))

CamKeys(s) == {s.cam[i].key : i \in DOMAIN s.cam}
=============================================================================
