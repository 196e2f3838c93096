------------------------- MODULE MCBindingWorkflow -------------------------
(* Three interface packages, of which geo and nav use std.                    *)
EXTENDS BindingWorkflow, TLC

CONSTANTS a, b, geo, nav, std

MCDeps == [p \in Pkg |-> IF p = std THEN {} ELSE {std}]

\* nav's edit renames a file; those of geo and std change the text.
MCSum == [p \in Pkg |-> [v \in Version |-> IF p = nav THEN 0 ELSE v]]

Names(ofA, ofB) == a :> ofA @@ b :> ofB

\* a has the workspace to itself; or nothing fails, but b runs at the same time and
\* has in its first round what a reaches in its second.
MCHabits ==
    {[runs |-> {a}, direct |-> Names({geo, nav}, {}),
      events |-> {"edit", "live edit", "clean", "fail", "kill"}],
     [runs |-> {a, b}, direct |-> Names({nav}, {nav, std}), events |-> {"edit"}]}

MCFailing ==
    {[runs |-> {a}, direct |-> Names({geo, nav}, {}), events |-> {"fail"}]}
=============================================================================
