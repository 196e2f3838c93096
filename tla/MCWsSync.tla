------------------------------ MODULE MCWsSync ------------------------------
(* entry uses comp by path over three crates outside the colcon workspace,   *)
(* the longest chain a sync of entry alone follows; that it also names comp, *)
(* in a table of more lines, no sync sees.  comp needs std of the            *)
(* installation, which needs time, and for some time geo of the workspace.   *)
(* The manifest of entry has a [patch] table of its own.                     *)
EXTENDS WsSync

CONSTANTS geo, comp, near, mid, far, entry, std, time, core, mine, ws

MCPathDeps ==
    [p \in Pkg |-> CASE p = entry -> {near, comp} [] p = near -> {mid} [] p = mid -> {far}
                     [] p = far -> {comp} [] OTHER -> {}]
MCUnseen == [p \in Pkg |-> IF p = entry THEN {comp} ELSE {}]
MCDepChoices ==
    [p \in Pkg \cup Ament |->
        CASE p = geo -> {{std}} [] p = std -> {{time}}
          [] p = comp -> {{std}, {geo, std}} [] OTHER -> {{}}]
MCUses ==
    [i \in Iface |-> [v \in Version |->
        CASE i = geo -> {std, time}
          [] i = std -> {time} [] OTHER -> {}]]
MCSorted == <<geo, std, time>>
MCRuntime == <<core>>

Own(key) == Row(key, <<"own">>)
Bare == <<Table("package"), Own("name")>>
MCManifests ==
    [f \in Rust |->
        IF f = entry
        THEN Bare \o <<Patch, Comment("note"), Own(std), Own(mine), Table("lib"), Own("path")>>
        ELSE Bare]
MCUserLines ==
    [f \in Rust |-> IF f = entry THEN {Own(core), Table("profile")} ELSE {}]

\* What the user does to manifests, and what happens to generated crates.
MCHabits ==
    {{"insert", "remove", "kill save"},
     {"edit", "delete", "depend", "fail", "kill", "kill clean"}}
MCEdits == {{"edit"}}
=============================================================================
