-------------------------- MODULE BindingWorkflow --------------------------
(***************************************************************************)
(* The binding workflow of cargo-nano-ros: workflow.rs over cache.rs,      *)
(* config_patcher.rs and dependency_parser.rs.  A run finds the interface  *)
(* packages a project depends on, generates the stale ones (several at a   *)
(* time, one thread each), records their checksums in the cache file,      *)
(* follows their dependencies, and patches .cargo/config.toml at the end.  *)
(* Runs of several projects share the workspace's bindings and cache file. *)
(***************************************************************************)
EXTENDS Naturals

CONSTANTS
    Project,      \* projects, each with its own Cargo.toml and config.toml
    Pkg,          \* interface packages of the ament index
    Deps,         \* package -> the packages its generated Cargo.toml names
    MaxVersion,   \* bound on the edits of a package's interface files
    Sum,          \* package -> version -> the first version with the same text (its checksum)
    Habits,       \* which projects run, what their Cargo.toml names, and what else happens
    None,         \* no such file or directory
    Partial       \* a file or directory somebody began to write

Version == 0..MaxVersion

ASSUME WorkflowConstants ==
    /\ Deps \in [Pkg -> SUBSET Pkg]
    /\ MaxVersion \in Nat
    /\ Sum \in [Pkg -> [Version -> Version]]
    /\ Habits \subseteq [runs : SUBSET Project, direct : [Project -> SUBSET Pkg],
                         events : SUBSET {"edit", "undo", "live edit", "clean", "fail", "kill"}]
    /\ None \notin Version /\ Partial \notin Version /\ None # Partial

VARIABLES
    source,   \* version of a package's interface files
    out,      \* the bindings under output_dir: of which version
    cache,    \* entries of .ros2_bindgen_cache: the checksums they hold
    torn,     \* the cache file is truncated and not yet written again
    config,   \* packages [patch.crates-io] of a project's config.toml names
    pc,       \* what the project's run does next
    deps,     \* `dependencies`: the packages this round checks
    seen,     \* `seen_packages`
    gen,      \* `all_generated`
    at,       \* what a generating thread does next
    using,    \* the version the thread's bindgen has read
    mem,      \* the cache a thread loaded, with its own entry inserted
    outcome,  \* how the last run ended, unless files changed since
    habit,    \* one of Habits
    events    \* what has happened so far

files == <<source, out, cache, torn, config>>
threads == <<at, using, mem>>
wfVars == <<source, out, cache, torn, config, pc, deps, seen, gen, at, using, mem, outcome, habit, events>>

Phases == {"out", "check", "generate", "patch", "patching"}
ThreadSteps == {"none", "start", "writing", "made", "loaded", "truncated", "done", "failed"}
Cache == [Pkg -> Version \cup {None}]
EmptyCache == [p \in Pkg |-> None]
NothingLoaded == [p \in Pkg |-> EmptyCache]
Idle == [p \in Pkg |-> "none"]

WfInit ==
    /\ source = [p \in Pkg |-> 0]
    /\ out = [p \in Pkg |-> None]
    /\ cache = EmptyCache
    /\ torn = FALSE
    /\ config = [q \in Project |-> {}]
    /\ pc = [q \in Project |-> "out"]
    /\ deps = [q \in Project |-> {}]
    /\ seen = [q \in Project |-> {}]
    /\ gen = [q \in Project |-> {}]
    /\ at = [q \in Project |-> Idle]
    /\ using = [q \in Project |-> [p \in Pkg |-> None]]
    /\ mem = [q \in Project |-> NothingLoaded]
    /\ outcome = [q \in Project |-> "none"]
    /\ habit \in Habits
    /\ events = {}

Happens(event) ==
    /\ event \in habit.events
    /\ events' = events \cup {event}
    /\ UNCHANGED habit

\* Sets of packages that have all their packages need.
Closed(S) == \A p \in S : Deps[p] \subseteq S

\* A set of packages with all they need, directly or not.
Closure ==
    [P \in SUBSET Pkg |-> {p \in Pkg : \A S \in SUBSET Pkg : P \subseteq S /\ Closed(S) => p \in S}]

\* The packages the project's own Cargo.toml names.
Direct(q) == habit.direct[q]

Goto(q, phase) == pc' = [pc EXCEPT ![q] = phase]

ThreadTo(q, p, step) == at' = [at EXCEPT ![q][p] = step]

\* run returns, and what it held in memory is gone.
Ends(q, result) ==
    /\ Goto(q, "out")
    /\ deps' = [deps EXCEPT ![q] = {}]
    /\ seen' = [seen EXCEPT ![q] = {}]
    /\ gen' = [gen EXCEPT ![q] = {}]
    /\ at' = [at EXCEPT ![q] = Idle]
    /\ using' = [using EXCEPT ![q] = [p \in Pkg |-> None]]
    /\ mem' = [mem EXCEPT ![q] = NothingLoaded]
    /\ outcome' = [outcome EXCEPT ![q] = result]

-----------------------------------------------------------------------------
\* cargo metadata gives the whole graph once the patched crates are there;
\* before that it fails, and Cargo.toml itself names the direct ones.
Resolvable(q) ==
    /\ Direct(q) \subseteq config[q]
    /\ \A p \in Closure[Direct(q)] : out[p] # None

Discover(q) ==
    /\ q \in habit.runs
    /\ pc[q] = "out"
    /\ outcome' = [outcome EXCEPT ![q] = "none"]
    /\ deps' = [deps EXCEPT ![q] = IF Resolvable(q) THEN Closure[Direct(q)] ELSE Direct(q)]
    /\ Goto(q, "check")
    /\ UNCHANGED <<files, seen, gen, threads, habit, events>>

\* calculate_package_checksum hashes the contents of the files one after the other,
\* without their names or where one ends: a file that is renamed, or text that moves
\* to the next file, leaves it as it was.
Checksum(p) == Sum[p][source[p]]

\* Mutant: the output directory is not looked at.
ValidWithoutOutput(p) == cache[p] = Checksum(p)

\* Cache::is_valid: the checksum matches and the output directory exists.
Valid(p) == cache[p] = Checksum(p) /\ out[p] # None

\* Mutant: a package that is in the cache counts as valid.
CheckPresence(q) ==
    /\ pc[q] = "check"
    /\ LET stale == {p \in deps[q] : cache[p] = None \/ out[p] = None} IN
          IF torn THEN Ends(q, "err")
          ELSE /\ at' = [at EXCEPT ![q] = [p \in Pkg |-> IF p \in stale THEN "start" ELSE "none"]]
               /\ Goto(q, IF stale = {} THEN "patch" ELSE "generate")
               /\ UNCHANGED <<deps, seen, gen, using, mem, outcome>>
    /\ UNCHANGED <<files, habit, events>>

\* check_cache; a file that does not parse is an error.
CheckCache(q) ==
    /\ pc[q] = "check"
    /\ LET stale == {p \in deps[q] : ~Valid(p)} IN
          IF torn THEN Ends(q, "err")
          ELSE /\ at' = [at EXCEPT ![q] = [p \in Pkg |-> IF p \in stale THEN "start" ELSE "none"]]
               /\ Goto(q, IF stale = {} THEN "patch" ELSE "generate")
               /\ UNCHANGED <<deps, seen, gen, using, mem, outcome>>
    /\ UNCHANGED <<files, habit, events>>

-----------------------------------------------------------------------------
(* One thread per stale package.                                           *)

Running(q, p, step) == pc[q] = "generate" /\ at[q][p] = step

\* Another bindgen writes the same directory.
Contended(q, p) == \E r \in Project \ {q} : at[r][p] = "writing"

\* rosidl-bindgen reads the interface files and rewrites what differs.
Generate(q, p) ==
    /\ Running(q, p, "start")
    /\ using' = [using EXCEPT ![q][p] = source[p]]
    /\ out' = [out EXCEPT ![p] = IF @ = source[p] THEN @ ELSE Partial]
    /\ ThreadTo(q, p, "writing")
    /\ UNCHANGED <<source, cache, torn, config, pc, deps, seen, gen, mem, outcome, habit, events>>

Generated(q, p) ==
    /\ Running(q, p, "writing")
    /\ out' = [out EXCEPT ![p] =
                 IF Contended(q, p) /\ @ # using[q][p] THEN Partial ELSE using[q][p]]
    /\ ThreadTo(q, p, "made")
    /\ UNCHANGED <<source, cache, torn, config, pc, deps, seen, gen, using, mem, outcome, habit, events>>

\* A file that does not parse, a full disk: what was written stays.
GenerateFails(q, p) ==
    /\ Happens("fail")
    /\ Running(q, p, "writing")
    /\ ThreadTo(q, p, "failed")
    /\ UNCHANGED <<files, pc, deps, seen, gen, using, mem, outcome>>

\* Mutant: CACHE_LOCK is not taken.
LoadUnlocked(q, p) ==
    /\ Running(q, p, "made")
    /\ IF torn THEN ThreadTo(q, p, "failed") /\ UNCHANGED mem
       ELSE /\ mem' = [mem EXCEPT ![q][p] = [cache EXCEPT ![p] = Checksum(p)]]
            /\ ThreadTo(q, p, "loaded")
    /\ UNCHANGED <<files, pc, deps, seen, gen, using, outcome, habit, events>>

\* update_cache, update_cache_threadsafe: under CACHE_LOCK, load the file and
\* insert the checksum the interface files have by now.
Load(q, p) ==
    /\ Running(q, p, "made")
    /\ \A r \in Pkg : at[q][r] \notin {"loaded", "truncated"}
    /\ IF torn THEN ThreadTo(q, p, "failed") /\ UNCHANGED mem
       ELSE /\ mem' = [mem EXCEPT ![q][p] = [cache EXCEPT ![p] = Checksum(p)]]
            /\ ThreadTo(q, p, "loaded")
    /\ UNCHANGED <<files, pc, deps, seen, gen, using, outcome, habit, events>>

\* Cache::save is fs::write: truncate, then the content.
Truncate(q, p) ==
    /\ Running(q, p, "loaded")
    /\ torn' = TRUE
    /\ ThreadTo(q, p, "truncated")
    /\ UNCHANGED <<source, out, cache, config, pc, deps, seen, gen, using, mem, outcome, habit, events>>

Save(q, p) ==
    /\ Running(q, p, "truncated")
    /\ cache' = mem[q][p]
    /\ torn' = FALSE
    /\ mem' = [mem EXCEPT ![q][p] = EmptyCache]
    /\ ThreadTo(q, p, "done")
    /\ UNCHANGED <<source, out, config, pc, deps, seen, gen, using, outcome, habit, events>>

Thread(q, p) ==
    \/ Generate(q, p) \/ Generated(q, p)
    \/ Load(q, p) \/ Truncate(q, p) \/ Save(q, p)

-----------------------------------------------------------------------------
Todo(q) == {p \in Pkg : at[q][p] # "none"}

\* Mutant: the round is over only when every package was generated.
JoinSuccessesOnly(q) ==
    /\ pc[q] = "generate"
    /\ \A p \in Todo(q) : at[q][p] = "done"
    /\ Goto(q, "patch")
    /\ gen' = [gen EXCEPT ![q] = @ \cup Todo(q)]
    /\ at' = [at EXCEPT ![q] = Idle]
    /\ UNCHANGED <<files, deps, seen, using, mem, outcome, habit, events>>

\* Mutant: the generated packages' own dependencies are not followed.
JoinDirectOnly(q) ==
    /\ pc[q] = "generate"
    /\ \A p \in Todo(q) : at[q][p] \in {"done", "failed"}
    /\ IF \E p \in Todo(q) : at[q][p] = "failed" THEN Ends(q, "err")
       ELSE /\ gen' = [gen EXCEPT ![q] = @ \cup Todo(q)]
            /\ at' = [at EXCEPT ![q] = Idle]
            /\ Goto(q, "patch")
            /\ UNCHANGED <<deps, seen, using, mem, outcome>>
    /\ UNCHANGED <<files, habit, events>>

\* All threads are done: an error of one ends the run, else the dependencies
\* the generated crates name are the next round's.
Join(q) ==
    /\ pc[q] = "generate"
    /\ \A p \in Todo(q) : at[q][p] \in {"done", "failed"}
    /\ IF \E p \in Todo(q) : at[q][p] = "failed" THEN Ends(q, "err")
       ELSE LET new == (UNION {Deps[p] : p \in Todo(q)}) \ (seen[q] \cup Todo(q)) IN
            /\ gen' = [gen EXCEPT ![q] = @ \cup Todo(q)]
            /\ seen' = [seen EXCEPT ![q] = @ \cup Todo(q) \cup new]
            /\ deps' = [deps EXCEPT ![q] = new]
            /\ at' = [at EXCEPT ![q] = Idle]
            /\ Goto(q, IF new = {} THEN "patch" ELSE "check")
            /\ UNCHANGED <<using, mem, outcome>>
    /\ UNCHANGED <<files, habit, events>>

\* patch_cargo_config, if this run generated anything: load, add, truncate ...
Patch(q) ==
    /\ pc[q] = "patch"
    /\ IF gen[q] = {}
       THEN Ends(q, "ok") /\ UNCHANGED config
       ELSE /\ config' = [config EXCEPT ![q] = {}]
            /\ gen' = [gen EXCEPT ![q] = @ \cup config[q]]
            /\ Goto(q, "patching")
            /\ UNCHANGED <<deps, seen, threads, outcome>>
    /\ UNCHANGED <<source, out, cache, torn, habit, events>>

\* ... and write.
Patched(q) ==
    /\ pc[q] = "patching"
    /\ config' = [config EXCEPT ![q] = gen[q]]
    /\ Ends(q, "ok")
    /\ UNCHANGED <<source, out, cache, torn, habit, events>>

Kill(q) ==
    /\ pc[q] # "out"
    /\ Happens("kill")
    /\ Ends(q, "killed")
    /\ UNCHANGED files

-----------------------------------------------------------------------------
Quiet == \A q \in Project : pc[q] = "out"

\* What the last runs reported was about files that are changed now.
Outdated == outcome' = [q \in Project |-> "none"]

\* The next version has a text the package had before, but not just now.
ComesBack(p) ==
    /\ Sum[p][source[p] + 1] # Sum[p][source[p]]
    /\ \E v \in Version : v < source[p] /\ Sum[p][v] = Sum[p][source[p] + 1]

\* Somebody edits a package's interface files, renames one, or updates it with apt.
Edit(p) ==
    /\ source[p] < MaxVersion
    /\ Happens(IF ~Quiet THEN "live edit" ELSE IF ComesBack(p) THEN "undo" ELSE "edit")
    /\ source' = [source EXCEPT ![p] = @ + 1]
    /\ Outdated
    /\ UNCHANGED <<out, cache, torn, config, pc, deps, seen, gen, threads>>

\* cargo clean removes target/ with the bindings; the cache file is not there.
Clean ==
    /\ Quiet
    /\ Happens("clean")
    /\ out' = [p \in Pkg |-> None]
    /\ Outdated
    /\ UNCHANGED <<source, cache, torn, config, pc, deps, seen, gen, threads>>

Step(q) ==
    \/ Discover(q) \/ CheckCache(q) \/ Join(q) \/ Patch(q) \/ Patched(q)
    \/ \E p \in Pkg : Thread(q, p)

WfNext ==
    \/ \E q \in Project : Step(q) \/ Kill(q) \/ \E p \in Pkg : GenerateFails(q, p)
    \/ \E p \in Pkg : Edit(p)
    \/ Clean

WfSpec == WfInit /\ [][WfNext]_wfVars

\* A run that was started goes on; nothing makes anybody start one.
FairWfSpec ==
    WfSpec /\ \A q \in Project : WF_wfVars(Step(q) /\ pc[q] # "out")

-----------------------------------------------------------------------------
\* One project has the workspace to itself.
Alone == \E q \in Project : habit.runs = {q}

\* The bindings are those of the interface files as they are or, which no checksum
\* tells apart, of an earlier version with the same text under other file names.
MadeOf(p) == out[p] \in Version /\ Sum[p][out[p]] = Checksum(p)

\* What the cache takes for valid is not generated again, so it must be the
\* bindings of the interface files' text as it is, unless a bindgen is at work:
\* whatever is edited between runs, and whatever fails or is killed in a project
\* that has the workspace to itself and whose bindings nobody removed, as long as
\* nobody edits during a run or brings an earlier text back (its checksum may still
\* be recorded, over bindings that were begun for the text in between).
ValidIsFresh ==
    /\ events \cap {"live edit", "undo"} = {}
    /\ events \cap {"fail", "kill"} # {} => Alone /\ "clean" \notin events
    => \A p \in Pkg :
          Valid(p) => MadeOf(p) \/ \E q \in Project : at[q][p] = "writing"

\* A run that returned Ok leaves every package the project needs generated from
\* the current interface files' text and patched into its config.
OkMeansComplete ==
    \A q \in Project :
        outcome[q] = "ok" =>
            \A p \in Closure[Direct(q)] : MadeOf(p) /\ p \in config[q]

\* The same for a project that has the workspace to itself and no run of which failed,
\* was killed or saw an edit: neither edits between runs nor a cargo clean make it
\* less complete.
CompleteUnlessInterrupted ==
    Alone /\ events \subseteq {"edit", "clean"} => OkMeansComplete

\* The cache says the truth after every step, and the parallel updates of one run lose
\* none of each other's entries.
CacheIsTrue ==
    [][ValidIsFresh' /\ (Alone => \A p \in Pkg : cache[p] # None => cache'[p] # None)]_wfVars

\* Every run comes to an end.
RunEnds == \A q \in Project : pc[q] # "out" ~> pc[q] = "out"
=============================================================================
