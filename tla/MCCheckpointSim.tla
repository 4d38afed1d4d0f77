---------------------------- MODULE MCCheckpointSim ----------------------------
(***************************************************************************)
(* Instances of the checkpoint supervisor for TLC.                         *)
(***************************************************************************)
EXTENDS CheckpointSim

\* Every position, and every one but that between the move of the old image
\* and the rewriting of latest.json.
Anywhere == Positions
NotAfterMove == Positions \ {"moved"}
================================================================================
