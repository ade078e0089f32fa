---------------------------- MODULE MCPlanApply ----------------------------
(* TLC instances of PlanApply: an asset, a patch and LoadFolders.xml; a     *)
(* design with backups and the dry apply, and a removal.                    *)
EXTENDS PlanApply, TLC

MCFiles == 1..3
MCKind == <<"gate", "patch", "copy">>
MCRequests == {[remove |-> FALSE, backup |-> TRUE, dry |-> TRUE],
               [remove |-> TRUE, backup |-> FALSE, dry |-> FALSE]}
JobSymmetry == Permutations(Jobs)
=============================================================================
