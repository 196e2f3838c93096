------------------------------ MODULE MCDeploy ------------------------------
(* What happens on the host around a deploy, each command in behaviours of   *)
(* its own: setup, the deploy runner, the detached launcher.                 *)
(*                                                                           *)
(* Setup: boardA needs a prebuilt tool, a submodule source and a gated SDK,  *)
(* boardB a tool no recipe provides after one that installs.  Of the tools   *)
(* gccNew has a bin/.                                                        *)
(* Deploy: one deploy again and again; a crate of one or two files.        *)
(* Launcher: two launches of a bringup with two components, two stops, three *)
(* pids.                                                                     *)
(* Layout: nav with one manifest of each form and cam without a Cargo.toml;  *)
(* the same where cam's Cargo.toml does not parse; and one of two systems.   *)
EXTENDS NrosSetup, Deploy, DetachedLaunch, WorkspaceLayout

CONSTANTS a, gcc, gccNew, qemu, west, px4, gatedSdk, here,
          r1, l1, l2, s1, s2, p1, p2, p3,
          nav, cam, arm, demo, other, mcu, fresh

VARIABLE part

MCScratch == {"gcc", "qemu", "west"}
MCScratchOf == [p \in Prefix |-> CASE p \in {gcc, gccNew} -> "gcc" [] p = qemu -> "qemu"
                                   [] p = west -> "west"]
MCToolOf == [p \in Prefix |-> CASE p \in {gcc, gccNew} -> "gcc" [] p = qemu -> "qemu"
                                [] p = west -> "west"]
MCRecipe == [p \in Prefix |-> CASE p \in {gcc, gccNew} -> "prebuilt"
                                [] p = qemu -> "source" [] p = west -> "none"]
MCBuildSteps == [p \in Prefix |-> IF p = qemu THEN {"install"} ELSE {}]
MCMode == [s \in Source |-> IF s = px4 THEN "submodule" ELSE "clone"]
MCShallow == Source
MCRecursive == {px4} \cap Source

given(kind, list, cwd) == [kind |-> kind, list |-> list, cwd |-> cwd]

\* One command after the other in one workspace.
WorkAlone == [q \in Proc |-> Prefix]
CommandsAlone == [q \in Proc |->
    { given("setup", <<gcc, px4, gatedSdk>>, here),
      given("setup", <<gccNew, west>>, here),
      given("auto", <<west, qemu, gccNew, px4>>, here),
      given("tool", <<qemu>>, here),
      given("source", <<px4>>, here) }]

module(system) ==
    [kind |-> "vendor-module", triple |-> TRUE, steps |-> TRUE, vendor |-> FALSE,
     code |-> mcu, system |-> system]
described(x) ==
    CASE x = nav -> {<<"component_nros.toml", "a">>, <<"nros/components", "b">>}
      [] x = cam -> {<<"nros/components", "c">>, <<"nros/components", "d">>}
      [] OTHER -> {}
depending(x) ==
    CASE x = nav -> [marked |-> FALSE, depends |-> {<<"depend", cam>>, <<"test", cam>>, <<"buildtool", arm>>}]
      [] x = cam -> [marked |-> FALSE, depends |-> {<<"exec", nav>>}]
      [] OTHER -> Absent
two == [config |-> [systems |-> 1, components |-> <<nav, cam>>, launch |-> TRUE, deploy |-> mcu :> module(FALSE)],
        manifest |-> [x \in Pkg |-> described(x)],
        cargo |-> [x \in Pkg |-> IF x = nav THEN [named |-> TRUE, nodes |-> {}, ament |-> {}] ELSE Absent],
        packageXml |-> [x \in Pkg |-> depending(x)],
        root |-> Absent,
        glue |-> [t \in Target |-> IF t = mcu THEN "user" ELSE "none"]]
MCShape == {two,
    [two EXCEPT !.cargo[cam] = Garbled, !.config.launch = FALSE,
                !.root = [members |-> {nav}, exclude |-> {}, system |-> Absent]],
    [two EXCEPT !.config.systems = 2, !.config.deploy[mcu] = module(TRUE), !.root = Garbled]}
MCNode == {"a", "b", "c", "d"} \cup Pkg
MCComponentLists == {{nav}, {nav, cam}}

HostInit ==
    /\ part \in {"setup", "deploy", "detach", "layout"}
    /\ part # "layout" => shape = two
    /\ SetupInit /\ DpInit /\ DlInit /\ WlInit
    /\ part # "setup" => \A s \in Source : dest[s] = "absent"
    /\ part # "detach" => \A p \in Pid : runs[p] = Free

HostNext ==
    /\ UNCHANGED part
    /\ \/ part = "setup" /\ SetupNext /\ UNCHANGED <<dpVars, dlVars, wlVars>>
       \/ part = "deploy" /\ DpNext /\ UNCHANGED <<setupVars, dlVars, wlVars>>
       \/ part = "detach" /\ DlNext /\ UNCHANGED <<setupVars, dpVars, wlVars>>
       \/ part = "layout" /\ WlNext /\ UNCHANGED <<setupVars, dpVars, dlVars>>

HostSpec == HostInit /\ [][HostNext]_<<part, setupVars, dpVars, dlVars, wlVars>>
=============================================================================
