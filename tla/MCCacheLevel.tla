---------------------------- MODULE MCCacheLevel ----------------------------
(***************************************************************************)
(* CacheLevel on two sets of two ways: lines 0, 2, 4 compete for set 0, one *)
(* more than fit, and lines 1, 3 share set 1.                               *)
(***************************************************************************)
EXTENDS CacheLevel

const_Lines == {0, 1, 2, 4}
=============================================================================
