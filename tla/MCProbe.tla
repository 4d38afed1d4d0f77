------------------------------ MODULE MCProbe ------------------------------
(***************************************************************************)
(* Four pages and five lines, trackers of three and of four entries: the    *)
(* smaller loses pages and words, the larger words only.  The hash lets     *)
(* some keys collide in one row and others in both.                         *)
(***************************************************************************)
EXTENDS Probe

FiveLines == {0, 1, 2, 4, 6}
ThreeAndFour == <<3, 4>>

MixedHash(key, row) == IF row = 1 THEN key ELSE key \div 2

Read(l) == [first |-> l, last |-> l, type |-> "read"]
SomeRequests == {Read(0), Read(2), Read(4), Read(6), [first |-> 0, last |-> 1, type |-> "write"]}

SpaceSavingDefault == [topK |-> 1, useCountMin |-> FALSE, trackWords |-> TRUE,
                       epochAccesses |-> 4, autoWrite |-> FALSE]

SomeConfigs ==
    {[SpaceSavingDefault EXCEPT !.topK = k, !.epochAccesses = e, !.useCountMin = cm] :
        k \in {1, 2}, e \in {0, 4}, cm \in BOOLEAN} \cup
    {[SpaceSavingDefault EXCEPT !.epochAccesses = e, !.autoWrite = TRUE] : e \in {0, 4}} \cup
    {[SpaceSavingDefault EXCEPT !.useCountMin = TRUE, !.trackWords = FALSE]}
=============================================================================
