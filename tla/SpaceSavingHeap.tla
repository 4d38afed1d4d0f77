-------------------------- MODULE SpaceSavingHeap --------------------------
(***************************************************************************)
(* The Space-Saving tracker as the code keeps it (SpaceSaving in            *)
(* tracker.hpp): a binary min-heap of entries ordered by count, here a      *)
(* sequence counted from 1, and a map from each tracked key to its place.   *)
(* A place of 0 stands for a key the map does not have.                     *)
(***************************************************************************)
EXTENDS Naturals, Sequences

CONSTANT Keys               \* pages or lines

Entry == [key : Keys, count : Nat, error : Nat]
Tracker == [heap : Seq(Entry), pos : [Keys -> Nat], evictions : Nat]

EmptyTracker == [heap |-> <<>>, pos |-> [k \in Keys |-> 0], evictions |-> 0]

SwapAt(t, i, j) ==
    [t EXCEPT !.heap = [@ EXCEPT ![i] = t.heap[j], ![j] = t.heap[i]],
              !.pos  = [@ EXCEPT ![t.heap[j].key] = i, ![t.heap[i].key] = j]]

\* Mutant: the heap keeps its largest entry at the root.
LargestChild(h, i) ==
    LET family == {j \in {i, 2 * i, 2 * i + 1} : j <= Len(h)}
    IN  CHOOSE j \in family : \A m \in family :
            h[j].count > h[m].count \/ (h[j].count = h[m].count /\ j <= m)

\* Of a place and its children, the one of the smallest count; a parent goes
\* before a child and a left child before a right one.
Smallest(h, i) ==
    LET family == {j \in {i, 2 * i, 2 * i + 1} : j <= Len(h)}
    IN  CHOOSE j \in family : \A m \in family :
            h[j].count < h[m].count \/ (h[j].count = h[m].count /\ j <= m)

\* A tracker and the place of the one entry that may be out of order.
Position == {x \in Tracker \X Nat : x[2] \in DOMAIN x[1].heap}

SiftDown[x \in Position] ==
    LET t == x[1]
        m == Smallest(t.heap, x[2])
    IN  IF m = x[2] THEN t ELSE SiftDown[<<SwapAt(t, x[2], m), m>>]

SiftUp[x \in Position] ==
    LET t == x[1]
        p == x[2] \div 2
    IN  IF p = 0 \/ t.heap[p].count <= t.heap[x[2]].count THEN t
        ELSE SiftUp[<<SwapAt(t, x[2], p), p>>]

HitAt(t, i) == SiftDown[<<[t EXCEPT !.heap[i].count = @ + 1], i>>]

InsertLast(t, key) ==
    LET last == Len(t.heap) + 1
    IN  SiftUp[<<[t EXCEPT !.heap = Append(@, [key |-> key, count |-> 1, error |-> 0]),
                           !.pos[key] = last], last>>]

\* Mutant: the newcomer starts from one.
ReplaceAsNew(t, key) ==
    LET root == t.heap[1]
    IN  SiftDown[<<[heap |-> [t.heap EXCEPT ![1] = [key |-> key, count |-> 1, error |-> 0]],
                    pos |-> [t.pos EXCEPT ![root.key] = 0, ![key] = 1],
                    evictions |-> t.evictions + 1], 1>>]

\* Full: the newcomer takes the root's place and inherits its count.
ReplaceRoot(t, key) ==
    LET root == t.heap[1]
    IN  SiftDown[<<[heap |-> [t.heap EXCEPT ![1] = [key |-> key, count |-> root.count + 1,
                                                    error |-> root.count]],
                    pos |-> [t.pos EXCEPT ![root.key] = 0, ![key] = 1],
                    evictions |-> t.evictions + 1], 1>>]

\* SpaceSaving::access on a tracker of `cap` entries.
TrackAccess(t, cap, key) ==
    IF t.pos[key] # 0 THEN HitAt(t, t.pos[key])
    ELSE IF Len(t.heap) < cap THEN InsertLast(t, key)
    ELSE ReplaceRoot(t, key)

KeysHeld(t) == {t.heap[i].key : i \in DOMAIN t.heap}

\* The tracker as a map from its keys to what is kept of them.
EntryOf(t, key) == t.heap[CHOOSE i \in DOMAIN t.heap : t.heap[i].key = key]
Entries(t) == [k \in KeysHeld(t) |->
                  [count |-> EntryOf(t, k).count, error |-> EntryOf(t, k).error]]

=============================================================================
