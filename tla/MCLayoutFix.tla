---- MODULE MCLayoutFix ----
(* Two projects for the layout fix. Gated: a missing folder, two Combat Extended patches outside   *)
(* the gate and no LoadFolders.xml. Legacy: an older Combat Extended folder that LoadFolders.xml   *)
(* does not gate and a patch outside it, so one apply edits the file twice and moves a folder into *)
(* which it has moved a file.                                                                      *)
EXTENDS LayoutFix

It(kind, from, to, requires) == [kind |-> kind, from |-> from, to |-> to, requires |-> requires]

GatedTree == (<<"Patches">> :> Folder) @@ (<<"Patches", "a">> :> "a") @@ (<<"Patches", "b">> :> "b")
GatedText == {}
GatedPlan == <<It("create-folder", <<>>, <<"Sounds">>, {}),
               It("gate", <<>>, <<"Compat", "CE">>, {}),
               It("move-file", <<"Patches", "a">>, <<"Compat", "CE", "a">>, {2}),
               It("move-file", <<"Patches", "b">>, <<"Compat", "CE", "b">>, {2})>>
GatedIntruded == {<<"Patches", "a">>, <<"Sounds">>, <<"Sounds", "own">>, <<"Compat", "CE", "b">>}

LegacyTree == (<<"CE">> :> Folder) @@ (<<"CE", "a">> :> "a") @@ (<<"b">> :> "b")
LegacyText == {{<<>>}}
LegacyPlan == <<It("gate", <<>>, <<"CE">>, {}),
                It("move-file", <<"b">>, <<"CE", "Patches", "b">>, {1}),
                It("move-folder", <<"CE">>, <<"Compat", "CE">>, {4}),
                It("rename-entry", <<"CE">>, <<"Compat", "CE">>, {3})>>
LegacyIntruded == {<<"b">>, <<"CE", "new">>, <<"Compat">>}

BothProjects ==
    {[plan |-> GatedPlan, tree |-> GatedTree, text |-> GatedText, intruded |-> GatedIntruded],
     [plan |-> LegacyPlan, tree |-> LegacyTree, text |-> LegacyText, intruded |-> LegacyIntruded]}

\* Both plans are such as the planner makes.
ASSUME PlannerAssumption == PlannerPromise
\* No property says anything of a state in which an undo has run beside the apply and another program has
\* changed something, and no later state is another: such states are left out.
Explored == ~(concurrent /\ foreign > 0)
====
