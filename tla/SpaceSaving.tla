---------------------------- MODULE SpaceSaving ----------------------------
(***************************************************************************)
(* What the Space-Saving tracker promises (SpaceSaving in tracker.hpp),     *)
(* whatever its heap looks like: at most Capacity keys, each with a count   *)
(* and the error the count may contain; a key that comes to a full tracker  *)
(* takes the place of one with the smallest count.  `truth` is how often    *)
(* each key really occurred since the tracker was reset.                    *)
(***************************************************************************)
EXTENDS Naturals, FiniteSets

CONSTANTS Keys, Capacity

VARIABLES entries,          \* tracked keys -> [count, error]
          truth             \* the stream so far, as counts

vars == <<entries, truth>>

Tracked == DOMAIN entries
Full == Cardinality(Tracked) >= Capacity

Init ==
    /\ entries = [k \in {} |-> [count |-> 0, error |-> 0]]
    /\ truth = [k \in Keys |-> 0]

Seen(key) == truth' = [truth EXCEPT ![key] = @ + 1]

Hit(key) ==
    /\ key \in Tracked
    /\ entries' = [entries EXCEPT ![key].count = @ + 1]
    /\ Seen(key)

Insert(key) ==
    /\ key \notin Tracked /\ ~Full
    /\ entries' = [k \in Tracked \cup {key} |->
                      IF k = key THEN [count |-> 1, error |-> 0] ELSE entries[k]]
    /\ Seen(key)

\* The entries that may give way: those of the smallest count.
Coldest == {v \in Tracked : \A k \in Tracked : entries[v].count <= entries[k].count}

Evict(key, victim) ==
    /\ key \notin Tracked /\ Full
    /\ victim \in Coldest
    /\ entries' = [k \in (Tracked \ {victim}) \cup {key} |->
                      IF k = key THEN [count |-> entries[victim].count + 1,
                                       error |-> entries[victim].count]
                      ELSE entries[k]]
    /\ Seen(key)

Reset ==
    /\ entries' = [k \in {} |-> [count |-> 0, error |-> 0]]
    /\ truth' = [k \in Keys |-> 0]

Next ==
    \/ \E key \in Keys :
           Hit(key) \/ Insert(key) \/ \E victim \in Tracked : Evict(key, victim)
    \/ Reset

Spec == Init /\ [][Next]_vars

-----------------------------------------------------------------------------
TypeOK ==
    /\ Tracked \subseteq Keys /\ IsFiniteSet(Tracked)
    /\ entries \in [Tracked -> [count : Nat, error : Nat]]
    /\ truth \in [Keys -> Nat]

(***************************************************************************)
(* The over-estimate is bounded by the recorded error ("a key's true count  *)
(* is in [count-error, count]", tracker.hpp:53).                            *)
(***************************************************************************)
EstimateBounds ==
    \A k \in Tracked : /\ truth[k] <= entries[k].count
                       /\ entries[k].count <= truth[k] + entries[k].error

(***************************************************************************)
(* A key that is not tracked never occurred more often than the estimate of *)
(* any key that is, and never occurred at all while there was room.         *)
(***************************************************************************)
MissedAreCold ==
    \A k \in Keys \ Tracked :
        \/ truth[k] = 0
        \/ Full /\ \A m \in Tracked : truth[k] <= entries[m].count
=============================================================================
