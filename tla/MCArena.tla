------------------------------- MODULE MCArena -------------------------------
(* The arena for TLC: four slots, each used twice before it is retired, so   *)
(* that a handle, a list and the cached numbering can all name a slot that   *)
(* holds another node by now.  Lists of at most two nodes.                   *)
EXTENDS Arena
==============================================================================
