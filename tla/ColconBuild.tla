---------------------------- MODULE ColconBuild ----------------------------
(***************************************************************************)
(* The colcon plug-in: building and testing a workspace with colcon.       *)
(*                                                                         *)
(* A colcon process runs one task per package.  Tasks are coroutines of    *)
(* one event loop: they alternate only where they await a command, while   *)
(* the commands themselves (cargo, cmake, west, nros) run in parallel.     *)
(* The first ament_cargo task generates the bindings of every interface    *)
(* package, behind a lock file; the first nros task runs nros              *)
(* generate-rust, behind a flag of the process.  After its commands a task *)
(* installs its package.  Colcon's executor itself is external.            *)
(***************************************************************************)
EXTENDS Naturals, FiniteSets, Sequences

CONSTANTS
    Pkg,        \* packages with a Cargo.toml or an nros type
    Workspaces, \* sets of packages that make up a workspace
    Kind,       \* Kind[p]: "ament", "rust", "cmake" or "zephyr"
    After,      \* After[p]: the packages colcon builds before p
    Member,     \* packages that belong to a Cargo workspace with one target/
    Iface,      \* interface packages
    Underlay,   \* those of them the ament index finds
    IDeps,      \* IDeps[i]: interface packages i depends on
    Uses,       \* Uses[p]: interface packages p's package.xml names
    Late,       \* <<p, i>>: a dependency the user may add later
    CargoArgs,  \* what --cargo-args may say: nothing, --release, -r
    MaxEdits,   \* bound on the edits of packages
    MaxFaults,  \* bound on what goes wrong
    MaxRetests, \* bound on --retest-until-pass and --retest-until-fail
    None,       \* no interface package
    Faults      \* what may go wrong

ASSUME ColconConstants ==
    /\ Kind \in [Pkg -> {"ament", "rust", "cmake", "zephyr"}]
    /\ After \in [Pkg -> SUBSET Pkg]
    /\ Underlay \subseteq Iface
    /\ IDeps \in [Iface -> SUBSET Iface]
    /\ Uses \in [Pkg -> SUBSET Iface]
    /\ Late \in Pkg \X Iface
    /\ Member \subseteq Pkg
    /\ Workspaces \subseteq SUBSET Pkg
    /\ {MaxEdits, MaxFaults, MaxRetests} \subseteq Nat
    /\ CargoArgs \subseteq {"none", "--release", "-r"}
    /\ None \notin Iface
    /\ Faults \subseteq {"fail", "kill", "edit", "declare"}

VARIABLES
    ws,       \* the packages of the workspace
    locked,   \* build/.colcon/bindgen.lock exists
    binding,  \* build/<i>/rosidl_cargo/<i>: "none", "partial", "raw", "fixed"
    config,   \* build/ros2_cargo_config.toml: "none", "torn", or its patches
    old,      \* interface packages changed since their binding was generated
    late,     \* the user has added the dependency Late
    src,      \* edits of each package so far
    target,   \* each package's target directory: the edit a profile was built from
    inst,     \* the edit each installed item of a package is of
    proc,     \* the colcon process: how it was called and what its tasks share
    pc,       \* where each of its tasks is
    reruns,   \* `rerun` of each test task
    trouble,  \* what has gone wrong since build/ was last removed
    count     \* what has gone wrong so far, counted

build == <<locked, binding, config>>
sources == <<ws, old, late, src>>
faults == <<trouble, count>>
cbVars == <<build, sources, target, inst, proc, pc, reruns, faults>>

Absent == MaxEdits + 1
Edits == 0..MaxEdits
Item == {"env", "markers", "src", "bin", "xml", "extra", "dsv"}

\* Where cargo puts what it builds, and where the task looks: -r is not known.
CargoProfile(args) == IF args = "none" THEN "debug" ELSE "release"
DetectProfile(args) == IF args = "--release" THEN "release" ELSE "debug"

Off == [on |-> FALSE, verb |-> "build", args |-> "none", persist |-> FALSE,
        untilPass |-> 0, untilFail |-> 0,
        flag |-> FALSE, todo |-> {}, want |-> {}, making |-> None, cwd |-> None]
NewTasks == [p \in Pkg |-> "new"]
NoReruns == [p \in Pkg |-> 0]

\* Between two awaits a task has the event loop for itself.
Holding == {"check", "lock", "gen", "config", "ready", "install"}
Awaiting == {"ngen", "cmd1", "cmd2", "cmd3", "test"}
Ended == {"ok", "failed"}

CbInit ==
    /\ locked = FALSE
    /\ binding = [i \in Iface |-> "none"]
    /\ config = [made |-> "none", patches |-> {}]
    /\ ws \in Workspaces
    /\ old = {} /\ late = FALSE
    /\ src = [p \in Pkg |-> 0]
    /\ target = [p \in Pkg |-> [d \in {"debug", "release"} |-> Absent]]
    /\ inst = [p \in Pkg |-> [x \in Item |-> Absent]]
    /\ proc = Off
    /\ pc = NewTasks
    /\ reruns = NoReruns
    /\ trouble = {}
    /\ count = 0

Goes(wrong) ==
    /\ wrong \subseteq Faults /\ count < MaxFaults
    /\ trouble' = trouble \cup wrong
    /\ count' = count + 1
To(p, step) == pc' = [pc EXCEPT ![p] = step]
Quiet == ~proc.on
LoopFree == \A p \in Pkg : pc[p] \notin Holding

-----------------------------------------------------------------------------
(* What _discover_ros_packages finds.                                      *)

Deps(p) == Uses[p] \cup (IF late /\ p = Late[1] THEN {Late[2]} ELSE {})

\* What a search from i reaches that follows the packages in `readable`: it does
\* not leave a set that is closed.
Closed(S, readable) == \A i \in S \cap readable : IDeps[i] \subseteq S
Reach(i, readable) ==
    {j \in Iface : \A S \in SUBSET Iface : i \in S /\ Closed(S, readable) => j \in S}

ByIndex == {[from |-> i, to |-> Reach(i, Underlay)] : i \in Iface}
ByAll == {[from |-> i, to |-> Reach(i, Iface)] : i \in Iface}
Reached(pkgs, searches) == UNION {s.to : s \in {t \in searches : t.from \in pkgs}}

\* _resolve_transitive_dependencies: only installed package.xml files are read.
Resolve(pkgs) == Reached(pkgs, ByIndex)

Declared == UNION {Deps(p) : p \in {q \in ws : Kind[q] # "cmake"}}

\* Mutant: transitive dependencies are left to cargo.
DirectOnly == Declared

Discovered ==
    LET required == Resolve(Declared)
        workspace == required \ Underlay
        more == Resolve(required \cup UNION {IDeps[i] : i \in workspace})
    IN  workspace \cup (more \cap Underlay)

\* All that compiling p takes: the generated crates depend on each other as their
\* interface packages do.
Needed(p) == Reached(Deps(p), ByAll)

Usable(p) ==
    /\ config.made = "whole"
    /\ \A i \in Needed(p) : i \in config.patches /\ binding[i] = "fixed"

-----------------------------------------------------------------------------
(* colcon: a process begins, starts tasks in dependency order, ends.       *)

Begin(verb, args, persist, pass, fail) ==
    /\ ~proc.on
    /\ proc' = [Off EXCEPT !.on = TRUE, !.verb = verb, !.args = args, !.persist = persist,
                             !.untilPass = pass, !.untilFail = fail]
    /\ UNCHANGED <<build, sources, target, inst, pc, reruns, faults>>

Startable(p) ==
    /\ pc[p] = "new" /\ p \in ws
    /\ \A q \in After[p] \cap ws : pc[q] = "ok"
    /\ proc.persist \/ \A q \in Pkg : pc[q] # "failed"

\* The process gets to the end when nothing runs and nothing can start.
Finish ==
    /\ proc.on
    /\ \A p \in Pkg : pc[p] \in {"new"} \cup Ended /\ ~Startable(p)
    /\ proc' = Off
    /\ pc' = NewTasks
    /\ reruns' = NoReruns
    /\ UNCHANGED <<build, sources, target, inst, faults>>

\* After a failure colcon cancels the tasks that await something.
Cancel(p) ==
    /\ proc.on /\ ~proc.persist
    /\ \E q \in Pkg : pc[q] = "failed"
    /\ LoopFree /\ pc[p] \in Awaiting
    /\ To(p, "failed")
    /\ UNCHANGED <<build, sources, target, inst, proc, reruns, faults>>

Kill ==
    /\ proc.on
    /\ Goes({"kill"})
    /\ proc' = Off
    /\ pc' = NewTasks
    /\ reruns' = NoReruns
    /\ UNCHANGED <<build, sources, target, inst>>

Fails(p) == Goes({"fail"}) /\ To(p, "failed")

Start(p) ==
    /\ proc.on /\ LoopFree /\ Startable(p)
    /\ To(p, IF proc.verb = "test" THEN "test"
             ELSE IF Kind[p] = "ament" THEN "check" ELSE "ready")
    /\ UNCHANGED <<build, sources, target, inst, proc, reruns, faults>>

-----------------------------------------------------------------------------
(* AmentCargoBuildTask: bindings first, without an await in between.       *)

\* should_generate, first half: the lock is there, and stays for good.
CheckLock(p) ==
    /\ pc[p] = "check"
    /\ To(p, IF locked THEN "ready" ELSE "lock")
    /\ UNCHANGED <<build, sources, target, inst, proc, reruns, faults>>

\* should_generate, second half, and the discovery.
CreateLock(p) ==
    /\ pc[p] = "lock"
    /\ locked' = TRUE
    /\ proc' = [proc EXCEPT !.todo = Discovered, !.want = Discovered]
    /\ To(p, "gen")
    /\ UNCHANGED <<binding, config, sources, target, inst, reruns, faults>>

\* A directory that exists counts as done, whatever is in it.
SkipBinding(p, i) ==
    /\ pc[p] = "gen" /\ proc.making = None
    /\ i \in proc.todo /\ binding[i] # "none"
    /\ proc' = [proc EXCEPT !.todo = @ \ {i}]
    /\ UNCHANGED <<build, sources, target, inst, pc, reruns, faults>>

BeginBinding(p, i) ==
    /\ pc[p] = "gen" /\ proc.making = None
    /\ i \in proc.todo /\ binding[i] = "none"
    /\ binding' = [binding EXCEPT ![i] = "partial"]
    /\ proc' = [proc EXCEPT !.todo = @ \ {i}, !.making = i]
    /\ UNCHANGED <<locked, config, sources, target, inst, pc, reruns, faults>>

\* generate_package writes Cargo.toml last, with path dependencies.
WriteBinding(p) ==
    /\ pc[p] = "gen" /\ proc.making # None
    /\ binding[proc.making] = "partial"
    /\ binding' = [binding EXCEPT ![proc.making] = "raw"]
    /\ UNCHANGED <<locked, config, sources, target, inst, proc, pc, reruns, faults>>

\* A RuntimeError of the generator is a warning: the package is skipped.
BindgenFails(p) ==
    /\ pc[p] = "gen" /\ proc.making # None
    /\ binding[proc.making] = "partial"
    /\ Goes({"fail"})
    /\ proc' = [proc EXCEPT !.making = None]
    /\ UNCHANGED <<build, sources, target, inst, pc, reruns>>

\* _fixup_generated_cargo_toml: path dependencies become "*".
FixUp(p) ==
    /\ pc[p] = "gen" /\ proc.making # None
    /\ binding[proc.making] = "raw"
    /\ binding' = [binding EXCEPT ![proc.making] = "fixed"]
    /\ proc' = [proc EXCEPT !.making = None]
    /\ UNCHANGED <<locked, config, sources, target, inst, pc, reruns, faults>>

\* Any other exception ends the task with 1; the lock is left behind.
GenerationFails(p) ==
    /\ pc[p] \in {"gen", "config"}
    /\ Fails(p)
    /\ proc' = [proc EXCEPT !.todo = {}, !.want = {}, !.making = None]
    /\ UNCHANGED <<build, sources, target, inst, reruns>>

OpenConfig(p) ==
    /\ pc[p] = "gen" /\ proc.todo = {} /\ proc.making = None
    /\ config' = [made |-> "torn", patches |-> {}]
    /\ To(p, "config")
    /\ UNCHANGED <<locked, binding, sources, target, inst, proc, reruns, faults>>

\* A patch for every binding that has a Cargo.toml.
WriteConfig(p) ==
    /\ pc[p] = "config"
    /\ config' = [made |-> "whole",
                  patches |-> {i \in proc.want : binding[i] \in {"raw", "fixed"}}]
    /\ proc' = [proc EXCEPT !.want = {}]
    /\ To(p, "ready")
    /\ UNCHANGED <<locked, binding, sources, target, inst, reruns, faults>>

-----------------------------------------------------------------------------
(* The commands of a task.                                                 *)

Commands(p) == IF Kind[p] = "cmake" THEN 3 ELSE 1
Command(n) == CASE n = 1 -> "cmd1" [] n = 2 -> "cmd2" [] n = 3 -> "cmd3"

\* NrosBuildTask._generate_bindings: the flag is set before the await, so the
\* tasks that come meanwhile go on without waiting for the bindings.
EnterNros(p) ==
    /\ pc[p] = "ready" /\ Kind[p] # "ament"
    /\ To(p, IF proc.flag \/ Declared = {} THEN "cmd1" ELSE "ngen")
    /\ proc' = [proc EXCEPT !.flag = TRUE]
    /\ UNCHANGED <<build, sources, target, inst, reruns, faults>>

NrosGenerated(p) ==
    /\ pc[p] = "ngen" /\ LoopFree
    /\ To(p, "cmd1")
    /\ proc' = [proc EXCEPT !.flag = TRUE]
    /\ UNCHANGED <<build, sources, target, inst, reruns, faults>>

\* The environment scripts, then cargo build --config.
StartCargo(p) ==
    /\ pc[p] = "ready" /\ Kind[p] = "ament"
    /\ inst' = [inst EXCEPT ![p].env = src[p]]
    /\ To(p, "cmd1")
    /\ UNCHANGED <<build, sources, target, proc, reruns, faults>>

\* Mutant: the package is installed while its command still runs.
InstallAtOnce(p, n) ==
    /\ pc[p] = Command(n) /\ LoopFree
    /\ To(p, "install")
    /\ UNCHANGED <<build, sources, target, inst, proc, reruns, faults>>

CommandOk(p, n) ==
    /\ pc[p] = Command(n) /\ LoopFree
    /\ Kind[p] = "ament" => Usable(p)
    /\ target' = [target EXCEPT ![p][IF Kind[p] = "ament" THEN CargoProfile(proc.args)
                                     ELSE "release"] = src[p]]
    \* cmake --install is the last command of a C or C++ package.
    /\ inst' = IF Kind[p] = "cmake" /\ n = 3
               THEN [inst EXCEPT ![p].bin = src[p]] ELSE inst
    /\ To(p, IF n < Commands(p) THEN Command(n + 1) ELSE "install")
    /\ UNCHANGED <<build, sources, proc, reruns, faults>>

\* A command fails of itself, or cargo because of the bindings.
CommandFails(p) ==
    /\ pc[p] \in Awaiting \ {"test"} /\ LoopFree
    /\ \/ Fails(p)
       \/ /\ pc[p] = "cmd1" /\ Kind[p] = "ament" /\ ~Usable(p)
          /\ To(p, "failed") /\ UNCHANGED faults
    /\ UNCHANGED <<build, sources, target, inst, proc, reruns>>

-----------------------------------------------------------------------------
(* Installing a package.                                                   *)

\* AmentInstaller::install: the markers come before what they announce.
\* "extra" is what [package.metadata.ros] lists.
AmentSteps == <<"markers", "src", "bin", "xml", "extra", "dsv">>

\* What a task writes after its commands, in order.
Steps(p) ==
    CASE Kind[p] = "ament" -> AmentSteps
      [] Kind[p] = "cmake" -> <<"xml", "markers", "env">>
      [] OTHER -> <<"bin", "xml", "markers", "env">>

\* The binary in the profile's directory.  _find_rust_binaries looks in the
\* package's own target/, which a member of a Cargo workspace has not.
Built(p) ==
    IF Kind[p] = "ament" THEN target[p][DetectProfile(proc.args)]
    ELSE IF p \in Member THEN Absent ELSE target[p].release

Installs(p, x) ==
    CASE x = "bin" -> IF Built(p) = Absent THEN inst[p].bin ELSE Built(p)
      [] x = "xml" /\ Kind[p] = "cmake" ->
            IF inst[p].xml = Absent THEN src[p] ELSE inst[p].xml
      [] OTHER -> src[p]

Written(p, steps) ==
    [inst EXCEPT ![p] = [x \in Item |->
        IF \E k \in steps : Steps(p)[k] = x THEN Installs(p, x) ELSE @[x]]]

\* install_to_ament changes the directory of the whole process, and the path
\* of the package is relative: wherever it is stuck, no other is found.
Found(p) == Kind[p] = "ament" => proc.cwd = None

Install(p) ==
    /\ pc[p] = "install" /\ Found(p)
    /\ inst' = Written(p, DOMAIN Steps(p))
    /\ To(p, "ok")
    /\ UNCHANGED <<build, sources, target, proc, reruns, faults>>

\* An error leaves what is written so far.
InstallFails(p, k) ==
    /\ pc[p] = "install" /\ Found(p)
    /\ inst' = Written(p, 1..k)
    /\ Fails(p)
    /\ UNCHANGED <<build, sources, target, proc, reruns>>

\* cargo metadata fails after set_current_dir, which nobody takes back.
MetadataFails(p) ==
    /\ pc[p] = "install" /\ Kind[p] = "ament" /\ Found(p)
    /\ Fails(p)
    /\ proc' = [proc EXCEPT !.cwd = p]
    /\ UNCHANGED <<build, sources, target, inst, reruns>>

NotFound(p) ==
    /\ pc[p] = "install" /\ ~Found(p)
    /\ To(p, "failed")
    /\ UNCHANGED <<build, sources, target, inst, proc, reruns, faults>>

-----------------------------------------------------------------------------
(* Test tasks always return 0.                                             *)

Retests(p, passed) ==
    reruns[p] < (IF passed THEN proc.untilFail ELSE proc.untilPass)

\* Mutant: the run that is repeated is not counted.
RetestUncounted(p, passed) ==
    /\ pc[p] = "test" /\ LoopFree /\ Kind[p] = "ament" /\ Retests(p, passed)
    /\ UNCHANGED cbVars

\* One counter bounds both --retest-until-pass and --retest-until-fail.
Retest(p, passed) ==
    /\ pc[p] = "test" /\ LoopFree /\ Kind[p] = "ament" /\ Retests(p, passed)
    /\ reruns' = [reruns EXCEPT ![p] = @ + 1]
    /\ UNCHANGED <<build, sources, target, inst, proc, pc, faults>>

TestEnds(p, passed) ==
    /\ pc[p] = "test" /\ LoopFree /\ Kind[p] = "ament" /\ ~Retests(p, passed)
    /\ To(p, "ok")
    /\ UNCHANGED <<build, sources, target, inst, proc, reruns, faults>>

\* An nros package runs what is installed once, with a timeout.
NrosTestEnds(p) ==
    /\ pc[p] = "test" /\ LoopFree /\ Kind[p] # "ament"
    /\ To(p, "ok")
    /\ UNCHANGED <<build, sources, target, inst, proc, reruns, faults>>

-----------------------------------------------------------------------------
(* The user, between two runs.                                             *)

Edit(p) ==
    /\ Quiet /\ p \in ws /\ \A q \in Pkg \ {p} : src[q] = 0
    /\ src[p] < MaxEdits
    /\ src' = [src EXCEPT ![p] = @ + 1]
    /\ UNCHANGED <<build, ws, old, late, target, inst, proc, pc, reruns, faults>>

\* An interface package is edited or upgraded, or a dependency is added.
EditIface(i) ==
    /\ Quiet /\ binding[i] # "none" /\ i \notin old
    /\ Goes({"edit"})
    /\ old' = old \cup {i}
    /\ UNCHANGED <<build, ws, late, src, target, inst, proc, pc, reruns>>

Declare ==
    /\ Quiet /\ ~late
    /\ Goes({"declare"})
    /\ late' = TRUE
    /\ UNCHANGED <<build, ws, old, src, target, inst, proc, pc, reruns>>

RemoveBuild ==
    /\ Quiet /\ locked
    /\ locked' = FALSE
    /\ binding' = [i \in Iface |-> "none"]
    /\ config' = [made |-> "none", patches |-> {}]
    /\ old' = {} /\ trouble' = {}
    /\ UNCHANGED <<ws, late, src, target, inst, proc, pc, reruns, count>>

\* Only the lock, for a dependency that was added: the next run looks for
\* dependencies again, and generates the bindings that have no directory yet.
RemoveLock ==
    /\ Quiet /\ locked /\ "declare" \in trouble
    /\ locked' = FALSE
    /\ trouble' = trouble \ {"declare"}
    /\ UNCHANGED <<binding, config, sources, target, inst, proc, pc, reruns, count>>

Task(p) ==
    \/ Start(p) \/ CheckLock(p) \/ CreateLock(p)
    \/ \E i \in Iface : SkipBinding(p, i) \/ BeginBinding(p, i)
    \/ WriteBinding(p) \/ BindgenFails(p) \/ FixUp(p)
    \/ GenerationFails(p) \/ OpenConfig(p) \/ WriteConfig(p)
    \/ EnterNros(p) \/ NrosGenerated(p) \/ StartCargo(p)
    \/ \E n \in 1..3 : CommandOk(p, n)
    \/ CommandFails(p)
    \/ Install(p) \/ MetadataFails(p) \/ NotFound(p)
    \/ \E k \in 0..(Len(Steps(p)) - 1) : InstallFails(p, k)
    \/ \E passed \in BOOLEAN : Retest(p, passed) \/ TestEnds(p, passed)
    \/ NrosTestEnds(p)

User ==
    \/ \E p \in Pkg : Edit(p)
    \/ \E i \in Iface : EditIface(i)
    \/ Declare \/ RemoveBuild \/ RemoveLock

\* Only ament tasks look at --cargo-args and at the retest options.
Call ==
    LET ament == \E p \in ws : Kind[p] = "ament" IN
    \/ \E args \in (IF ament THEN CargoArgs ELSE {"none"}), persist \in BOOLEAN :
            Begin("build", args, persist, 0, 0)
    \/ \E pass, fail \in (IF ament THEN 0..MaxRetests ELSE {0}) :
            Begin("test", "none", TRUE, pass, fail)

CbNext ==
    \/ Call \/ Finish \/ Kill
    \/ \E p \in Pkg : Task(p) \/ Cancel(p)
    \/ User

\* The event loop goes on as long as a task can, and commands end.
CbSpec == CbInit /\ [][CbNext]_cbVars /\ WF_cbVars(Finish \/ \E p \in Pkg : Task(p))

-----------------------------------------------------------------------------
(* Properties.                                                             *)

\* Cargo is started for p, and nothing went wrong since build/ was removed, or a
\* dependency was added and then the lock removed.
Compiling(p) == pc[p] = "cmd1" /\ Kind[p] = "ament" /\ trouble = {}

\* Whichever task came first and however many runs there were, a cargo build finds
\* every binding it needs, generated from the interfaces as they are
\* (workspace_bindgen.py: generated once, before any package is built), if each
\* interface package it needs is installed or named by some package of the workspace.
BuildsSeeBindings ==
    \A p \in Pkg :
        Compiling(p) /\ Needed(p) \subseteq Underlay \cup Declared
            => Usable(p) /\ Needed(p) \cap old = {}

\* "Also discovers their dependencies to ensure complete binding generation"
\* (_find_workspace_interface_packages): cargo finds every binding, also of what only
\* an interface package of the workspace names.
BindingsAreComplete == \A p \in Pkg : Compiling(p) => Usable(p)

\* A task that returns 0 has installed its package as it is now, whatever an
\* earlier run left: everything but package.xml with cmake, and the binary if
\* its directory is the one the task looks in.
OkIsInstalled ==
    \A p \in Pkg :
        pc[p] = "ok" /\ proc.verb = "build" =>
            \A x \in {Steps(p)[k] : k \in DOMAIN Steps(p)} \cup {"env"} :
                \/ inst[p][x] = src[p]
                \/ x = "xml" /\ Kind[p] = "cmake" /\ inst[p].xml # Absent
                \/ x = "bin" /\ (p \in Member \/ proc.args = "-r")

\* Every colcon run comes to an end, with retests and after failures.
RunsEnd == proc.on ~> ~proc.on
=============================================================================
