------------------------------ MODULE MCLaunch -------------------------------
(* The planner, the foreground launcher and the three readers of a package's *)
(* launch side, each in behaviours of its own: they share no state.         *)
EXTENDS ForegroundLaunch, LaunchParser, PackageIndex, LaunchResolution, MCPlanning

CONSTANTS p1, p2, p3

VARIABLE part

Text(lit) == [verb |-> "text", lit |-> lit]
Rel(seg) == [abs |-> FALSE, segs |-> <<seg>>]
Abs(seg) == [abs |-> TRUE, segs |-> <<seg>>]
Var(n) == [verb |-> "var", of |-> n]

Plainly(on, tag, name) == [on |-> on, tag |-> tag, name |-> name,
                           values |-> {}, defaults |-> {}, ns |-> {}, file |-> {}]
Arg(on, v, d) == [Plainly(on, "arg", "x") EXCEPT !.values = v, !.defaults = d]
Node(on, pkg, ns) == [Plainly(on, "node", pkg) EXCEPT !.ns = ns]
Group(ns) == [Plainly("start", "group", "") EXCEPT !.ns = ns]
Include(on, path) == [Plainly(on, "include", "") EXCEPT !.file = {path}]

(* Three launch files in one directory: the one the caller names, one it   *)
(* may include and one that only exists to be included.                    *)
X == {<<Var("x")>>}
MCFiles == {"a", "b", "c"}
MCStarts ==
    {Arg("empty", {}, {<<Text(Rel("d"))>>}), Arg("empty", {<<Text(Rel("v"))>>}, {}),
     Arg("start", {<<Text(Rel("v"))>>}, {}),
     Node("empty", "p", {}), Node("empty", "q", X), Node("start", "q", {<<Text(Abs("n"))>>}),
     [Plainly("empty", "param", "") EXCEPT !.values = X],
     Plainly("empty", "remap", ""),
     Group({<<Text(Rel("g"))>>}), Group({<<[verb |-> "env", of |-> "SET"]>>}),
     Include("empty", <<Text(Rel("b"))>>), Include("start", <<Text(Rel("b"))>>),
     Include("empty", <<[verb |-> "find", of |-> "pkg"], Text(Rel("c"))>>),
     Include("empty", <<[verb |-> "find", of |-> "gone"], Text(Rel("c"))>>),
     Include("empty", <<Text(Rel("a"))>>), Plainly("empty", "executable", "")}
MCOverrides == {Unset, [n \in {"x"} |-> {Rel("o")}]}
MCIndex == [p \in {"pkg"} |-> [abs |-> TRUE, segs |-> <<>>]]
MCEnv == [n \in {"SET"} |-> {Rel("e")}]
MCPathOf == [l \in {Rel("a"), Rel("b"), Abs("c")} |-> {l.segs[1]}]

(* home/ws with packages a and v/b: the root's markers may be on either.    *)
(* No two files have the same mtime.                                       *)
MCDirs == {"home", "ws", "a", "v", "b"}
MCParent == [d \in MCDirs |-> CASE d = "home" -> {} [] d = "ws" -> {"home"}
                                [] d = "b" -> {"v"} [] OTHER -> {"ws"}]
MCTrees ==
    {[xml |-> [d \in MCDirs |-> CASE d = "a" -> {[name |-> d, mtime |-> 0]}
                                [] d = "b" -> {[name |-> d, mtime |-> MaxEdits + 1]}
                                [] OTHER -> {}],
      marks |-> [k \in {"colcon", "cargo", "git"} |-> IF k = "git" THEN {r} ELSE {}],
      override |-> o] : r \in {"home", "ws"}, o \in {{}, {"home"}}}

Toml(ok, name, bins) == {[ok |-> ok, name |-> name, bins |-> bins]}
MCManifests == {{}, Toml(FALSE, {}, <<>>), Toml(TRUE, {"p"}, <<>>), Toml(TRUE, {"q"}, <<"b">>),
                Toml(TRUE, {"p"}, <<"b", "p">>), Toml(TRUE, {}, <<>>)}
MCCMakes == {{}, {[project |-> {"q"}, execs |-> <<"b">>]}, {[project |-> {}, execs |-> <<>>]},
             {[project |-> {"q"}, execs |-> <<"b", "q">>]}}

(* Two components and three pids: one may be another program's from the     *)
(* start, and a pid a child leaves may become another program's.            *)
OneStubborn == {1}
AnyTime == Phases \ Ended

Init ==
    /\ part \in {"run", "parse", "index", "resolve", "plan"}
    /\ FgInit /\ LpInit /\ PiInit /\ LrInit /\ PnInit
    /\ part # "run" => \A p \in Pid : proc[p] = "free"
    /\ part # "parse" => called = Unset
    /\ part # "index" => override = {} /\ marks["git"] = {"ws"}
    /\ part # "resolve" => cargo = {} /\ cmake = {} /\ launch = {} /\ deploy = {}

Next ==
    /\ UNCHANGED part
    /\ \/ part = "run" /\ FgNext /\ UNCHANGED <<lpVars, piVars, lrVars, pnVars>>
       \/ part = "parse" /\ LpNext /\ UNCHANGED <<fgVars, piVars, lrVars, pnVars>>
       \/ part = "index" /\ PiNext /\ UNCHANGED <<fgVars, lpVars, lrVars, pnVars>>
       \/ part = "resolve" /\ LrNext /\ UNCHANGED <<fgVars, lpVars, piVars, pnVars>>
       \/ part = "plan" /\ PnNext /\ UNCHANGED <<fgVars, lpVars, piVars, lrVars>>

\* FairFgSpec, in the behaviours where the launcher runs, and PnSpec.
Spec ==
    /\ Init /\ [][Next]_<<part, fgVars, lpVars, piVars, lrVars, pnVars>>
    /\ WF_fgVars(part = "run" /\ Launcher) /\ WF_fgVars(part = "run" /\ Deadline)
    /\ WF_fgVars(part = "run" /\ SignalActs) /\ WF_pnVars(part = "plan" /\ Metadata)
=============================================================================
