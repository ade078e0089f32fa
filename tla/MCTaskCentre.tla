---------------------------- MODULE MCTaskCentre ----------------------------
(* TLC instance of TaskCentre: commands are interchangeable. *)
EXTENDS TaskCentre, TLC

CommandSymmetry == Permutations(Commands)
=============================================================================
