-------------------------- MODULE MCCacheHierarchy --------------------------
(***************************************************************************)
(* Three lines, one way in L1 and the LLC and two in L2, so that a third    *)
(* line always evicts; two threads, with and without private_parallel.      *)
(***************************************************************************)
EXTENDS CacheHierarchy, TLC

const_Lines == 0..2
OneLine == [sets |-> 1, assoc |-> 1]
TwoWay == [sets |-> 1, assoc |-> 2]

ThreadSymmetry == Permutations(Threads)
=============================================================================
