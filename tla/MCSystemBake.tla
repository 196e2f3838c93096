---------------------------- MODULE MCSystemBake ----------------------------
(* talker is a Cargo package with two deploy blocks, and its own bringup    *)
(* until a bringup wires it; motor is C++.                                  *)
EXTENDS SystemBake

CONSTANTS talker, motor, demo, left, arm, robot, a, b, r1, r2

MCIdent == [n \in {talker, left, arm} |-> n]

Member(role, nodes, deploy, system, launch) ==
    [role |-> role, nodes |-> nodes, deploy |-> deploy, system |-> system, launch |-> launch]
Node(key, name) == [key |-> key, name |-> name]
Deploys == <<[target |-> a, domain |-> 1], [target |-> b, domain |-> 2]>>
Talker(deploy) == Member("node", <<Node(talker, Missing)>>, deploy, Missing, {})

Comp(pkg, name) == [pkg |-> pkg, name |-> name]
TheSystem(domain, comps, deploy) == [domain |-> domain, comps |-> comps, deploy |-> deploy]
Arms == TheSystem(3, <<Comp(motor, arm), Comp(motor, left)>>, <<>>)
Robot ==
    TheSystem(4, <<Comp(talker, talker), Comp(motor, left)>>,
              <<[target |-> a, launch |-> {}], [target |-> b, launch |-> {b}]>>)

Workspace(default, member, dir) ==
    [old |-> FALSE, default |-> default, member |-> member, dir |-> dir]
Only(n, x) == [m \in {n} |-> x]

OwnBringup == Workspace(talker, Only(talker, Talker(Deploys)), <<>>)
WithDemo ==
    Workspace(demo,
              [m \in {talker, demo} |->
                  IF m = talker THEN Talker(Deploys)
                  ELSE Member("none", <<>>, <<>>, Arms, {System})], <<>>)
WithRobot ==
    Workspace(demo,
              [m \in {talker, demo} |->
                  IF m = talker THEN Talker(Deploys)
                  ELSE Member("none", <<>>, <<>>, Arms, {System})],
              Only(robot, [system |-> Robot, launch |-> {System, b}]))
BrokenTable ==
    [WithDemo EXCEPT !.member = [@ EXCEPT ![talker].role = "two shapes"]]

MCWorkspaces == {OwnBringup, WithDemo, WithRobot, BrokenTable}

Request(hint, target, mode) == [hint |-> hint, target |-> target, file |-> {}, mode |-> mode]
MCRequests ==
    {Request(Missing, a, "none"), Request(demo, Missing, "px4"), Request(robot, b, "pio")}

\* Two of the four files of a module.
MCModuleParts == <<"Kconfig", "cpp">>
MCHabits == {{"edit", "stop"}, {"edit", "stuck"}, {"overlap"}}
=============================================================================
