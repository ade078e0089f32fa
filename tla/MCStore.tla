------------------------------ MODULE MCStore ------------------------------
(* Store for TLC: the callers, and the settings, are interchangeable.        *)
EXTENDS Store, TLC

StoreSymmetry == Permutations(Callers) \cup Permutations(Keys)
=============================================================================
