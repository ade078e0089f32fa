------------------------------ MODULE MCDeploy ------------------------------
(* TLC instances of Deploy: processes and projects are interchangeable.      *)
EXTENDS Deploy, TLC

DeploySymmetry == Permutations(Processes) \cup Permutations(Targets)
=============================================================================
