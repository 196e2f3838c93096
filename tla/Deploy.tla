------------------------------- MODULE Deploy -------------------------------
(***************************************************************************)
(* nros deploy (cmd/deploy.rs) over build_generated_package                *)
(* (orchestration/build.rs): write the plan, stamp it with domains and     *)
(* bridges, regenerate the entry crate unless its build stamp says it is   *)
(* fresh, compile it, run the target's build and package steps.            *)
(*                                                                         *)
(* Every deploy of one target works in the same build/<name>/nros.  How    *)
(* metadata is collected and tools are installed are models of their own;  *)
(* here each of them only succeeds or fails, and metadata is of a version  *)
(* of the components' sources.                                             *)
(***************************************************************************)
EXTENDS Naturals

CONSTANTS
    Run,          \* invocations of nros deploy <name>
    MaxVersion,   \* bound on the versions of the configuration, the sources and the boards
    Files,        \* number of files generate_package may write
    Extra,        \* configurations whose board also takes the last of them
    Profiled,     \* configurations whose [build] sets a profile other than debug
    None,         \* no such file
    Events        \* what may happen besides one deploy after the other

Version == 0..MaxVersion
File == 1..Files
PlanFile == [cfg : Version, meta : Version, stamps : 0..2]
Rendered == [plan : PlanFile, board : Version]
NoTree == [f \in File |-> None]

ASSUME DeployConstants ==
    /\ MaxVersion \in Nat
    /\ Files \in Nat \ {0, 1}
    /\ Extra \subseteq Version /\ Profiled \subseteq Version
    /\ Events \subseteq {"fail", "revert", "drop", "board", "source", "overlap", "stale"}
    /\ None \notin Version \cup PlanFile \cup Rendered \cup {"ok"}

VARIABLES
    cfg,    \* version of nros.toml and launch file, by content
    source, \* version of the components' sources
    meta,   \* of which of them the components' metadata was made
    board,  \* version of the boards' nros-board.toml
    plan,   \* nros-plan.json: of which configuration and metadata, how many stamps applied
    crate,  \* the generated crate: what each file was rendered from
    stamp,  \* .nros-build-stamp: the plan it is the fingerprint of
    lib,    \* the staticlib {entry_lib} names: the crate and the sources it was compiled from
    image,  \* what the package steps have packaged
    doing,     \* a deploy
    seen,   \* configuration a deploy has loaded
    key,    \* `plan_bytes`
    gen,    \* what generate_package has loaded, the plan and the boards
    next,   \* file generate_package writes next
    last,   \* how the deploy that ended last did so, unless inputs changed since
    events  \* what has happened so far

artifacts == <<plan, crate, stamp, lib, image>>
locals == <<seen, key, gen, next>>
inputs == <<cfg, source, board>>
dpVars == <<inputs, meta, artifacts, doing, locals, last, events>>

DeploySteps == {"new", "metadata", "plan", "domains", "bridges", "emit", "build", "load", "write",
          "stamp", "cargo", "package"}

DpInit ==
    /\ cfg = 0 /\ source = 0 /\ board = 0 /\ meta = None
    /\ plan = None /\ crate = NoTree /\ stamp = None /\ lib = None /\ image = None
    /\ doing = [r \in Run |-> "new"]
    /\ seen = [r \in Run |-> None]
    /\ key = [r \in Run |-> None]
    /\ gen = [r \in Run |-> None]
    /\ next = [r \in Run |-> 1]
    /\ last = None
    /\ events = {}

Happens(new) == new \subseteq Events /\ events' = events \cup new

To(r, step) == doing' = [doing EXCEPT ![r] = step]

Quiet == \A r \in Run : doing[r] = "new"

\* deploy::run returns; a later invocation of nros is the same run again.
Returns(r, result) ==
    /\ To(r, "new")
    /\ seen' = [seen EXCEPT ![r] = None]
    /\ key' = [key EXCEPT ![r] = None]
    /\ gen' = [gen EXCEPT ![r] = None]
    /\ next' = [next EXCEPT ![r] = 1]
    /\ last' = result

-----------------------------------------------------------------------------
\* Load nros.toml, find the vendor's pinned directory, install the tools.
Begin(r) ==
    /\ doing[r] = "new"
    /\ Happens(IF Quiet THEN {} ELSE {"overlap"})
    /\ seen' = [seen EXCEPT ![r] = cfg]
    /\ To(r, "metadata")
    /\ last' = None
    /\ UNCHANGED <<inputs, meta, artifacts, key, gen, next>>

\* nros metadata --build: components that have no metadata are compiled and run to
\* write it.  Metadata that is there is not looked into.
MakeMetadata(r) ==
    /\ doing[r] = "metadata"
    /\ meta' = IF meta = None THEN source ELSE meta
    /\ To(r, "plan")
    /\ UNCHANGED <<inputs, artifacts, locals, last, events>>

\* nros plan: nros-plan.json is written anew.
WritePlan(r) ==
    /\ doing[r] = "plan"
    /\ plan' = [cfg |-> seen[r], meta |-> meta, stamps |-> 0]
    /\ To(r, "domains")
    /\ UNCHANGED <<inputs, meta, crate, stamp, lib, image, locals, last, events>>

\* apply_domain_groups: read, change, write.
ApplyDomains(r) ==
    /\ doing[r] = "domains"
    /\ plan' = [plan EXCEPT !.stamps = 1]
    /\ To(r, "bridges")
    /\ UNCHANGED <<inputs, meta, crate, stamp, lib, image, locals, last, events>>

\* Mutant: the bridges are left for after the build.
BridgesLeftOut(r) ==
    /\ doing[r] = "bridges"
    /\ To(r, "emit")
    /\ UNCHANGED <<inputs, meta, artifacts, locals, last, events>>

\* apply_bridges: read, change, write.
ApplyBridges(r) ==
    /\ doing[r] = "bridges"
    /\ plan' = [plan EXCEPT !.stamps = 2]
    /\ To(r, "emit")
    /\ UNCHANGED <<inputs, meta, crate, stamp, lib, image, locals, last, events>>

\* EmitForm::Compiled goes through the stamp, EmitForm::Source straight to
\* generate_package.
EmitCompiled(r) ==
    /\ doing[r] = "emit"
    /\ To(r, "build")
    /\ UNCHANGED <<inputs, meta, artifacts, locals, last, events>>

EmitSource(r) ==
    /\ doing[r] = "emit"
    /\ Happens({"source"})
    /\ To(r, "load")
    /\ UNCHANGED <<inputs, meta, artifacts, locals, last>>

-----------------------------------------------------------------------------
\* generation_is_fresh: Cargo.toml is there and the stamp is the fingerprint's.
Fresh(k) == crate[1] # None /\ stamp = k

\* build_generated_package reads the plan and decides.
ReadPlan(r) ==
    /\ doing[r] = "build"
    /\ key' = [key EXCEPT ![r] = plan]
    /\ To(r, IF Fresh(plan) THEN "cargo" ELSE "load")
    /\ UNCHANGED <<inputs, meta, artifacts, seen, gen, next, last, events>>

\* generate_package reads the plan again, and the board descriptors.
LoadInputs(r) ==
    /\ doing[r] = "load"
    /\ gen' = [gen EXCEPT ![r] = [plan |-> plan, board |-> board]]
    /\ To(r, "write")
    /\ UNCHANGED <<inputs, meta, artifacts, seen, key, next, last, events>>

\* The files of a configuration: only some boards have a .cargo/config.toml, a
\* rust-toolchain.toml or a nuttx-net.defconfig, and none is ever removed.
LastFile(c) == IF c \in Extra THEN Files ELSE Files - 1

\* write_if_changed, file after file, Cargo.toml first.
WriteFile(r) ==
    /\ doing[r] = "write"
    /\ crate' = [crate EXCEPT ![next[r]] = gen[r]]
    /\ IF next[r] < LastFile(gen[r].plan.cfg)
       THEN next' = [next EXCEPT ![r] = @ + 1] /\ UNCHANGED doing
       ELSE /\ next' = [next EXCEPT ![r] = 1]
            /\ To(r, IF key[r] = None THEN "package" ELSE "stamp")
    /\ UNCHANGED <<inputs, meta, plan, stamp, lib, image, seen, key, gen, last, events>>

WriteStamp(r) ==
    /\ doing[r] = "stamp"
    /\ stamp' = key[r]
    /\ To(r, "cargo")
    /\ UNCHANGED <<inputs, meta, plan, crate, lib, image, locals, last, events>>

Compiled == [crate |-> crate, source |-> source]

\* cargo build compiles the crate with the components' sources; the library of another
\* profile goes to another directory than the one {entry_lib} names.
Cargo(r) ==
    /\ doing[r] = "cargo"
    /\ lib' = IF key[r].cfg \in Profiled THEN lib ELSE Compiled
    /\ To(r, "package")
    /\ UNCHANGED <<inputs, meta, plan, crate, stamp, image, locals, last, events>>

\* run_phase, build then package: a vendor's build compiles the source itself, the
\* steps of the other form take {entry_lib}.
RunPackage(r) ==
    /\ doing[r] = "package"
    /\ image' = IF key[r] = None THEN Compiled ELSE IF lib = None THEN image ELSE lib
    /\ Returns(r, IF key[r] # None /\ lib = None THEN "err" ELSE "ok")
    /\ UNCHANGED <<inputs, meta, plan, crate, stamp, lib, events>>

\* A step fails and the `?` after it ends the deploy, or the process is killed.
Fails(r) ==
    /\ doing[r] # "new"
    /\ Happens({"fail"})
    /\ Returns(r, "err")
    /\ UNCHANGED <<inputs, meta, artifacts>>

-----------------------------------------------------------------------------
\* The user edits the configuration, forward or back to what it was, and may
\* drop a board that takes the extra file.
Edit ==
    /\ Quiet
    /\ cfg' \in Version \ {cfg}
    /\ Happens((IF cfg' > cfg THEN {} ELSE {"revert"})
               \cup (IF cfg \in Extra /\ cfg' \notin Extra THEN {"drop"} ELSE {}))
    /\ last' = None
    /\ UNCHANGED <<source, meta, board, artifacts, doing, locals>>

\* The user edits a component.
EditSource ==
    /\ Quiet
    /\ source < MaxVersion
    /\ source' = source + 1
    /\ Happens(IF meta = None THEN {} ELSE {"stale"})
    /\ last' = None
    /\ UNCHANGED <<cfg, meta, board, artifacts, doing, locals>>

\* The user removes the metadata, and the next deploy makes it anew.
DropMetadata ==
    /\ Quiet
    /\ meta # None
    /\ meta' = None
    /\ events' = events \ {"stale"}
    /\ last' = None
    /\ UNCHANGED <<inputs, artifacts, doing, locals>>

\* A board descriptor of the nano-ros workspace changes.
EditBoard ==
    /\ Quiet
    /\ board < MaxVersion
    /\ board' = board + 1
    /\ Happens({"board"})
    /\ last' = None
    /\ UNCHANGED <<cfg, source, meta, artifacts, doing, locals>>

DeployStep(r) ==
    \/ Begin(r) \/ MakeMetadata(r) \/ WritePlan(r) \/ ApplyDomains(r) \/ ApplyBridges(r)
    \/ EmitCompiled(r) \/ EmitSource(r) \/ ReadPlan(r) \/ LoadInputs(r)
    \/ WriteFile(r) \/ WriteStamp(r) \/ Cargo(r) \/ RunPackage(r)

DpNext ==
    \/ \E r \in Run : DeployStep(r) \/ Fails(r)
    \/ Edit \/ EditSource \/ DropMetadata \/ EditBoard

DpSpec == DpInit /\ [][DpNext]_dpVars

-----------------------------------------------------------------------------
\* What the configuration, the metadata and the boards as they are generate.
Wanted ==
    [f \in File |->
        IF f > LastFile(cfg) THEN None
        ELSE [plan |-> [cfg |-> cfg, meta |-> meta, stamps |-> 2], board |-> board]]

\* No configuration came back after an interrupted or a source-form generation.
StampsInOrder == "revert" \in events => events \cap {"fail", "source"} = {}

\* A deploy that returned Ok has packaged what the present configuration and
\* boards generate, with the domains and bridges applied, compiled with the present
\* sources, whatever failed or was killed before and in whichever form it emits,
\* as long as deploys do not overlap, no board changes its descriptor or its extra
\* file, and the configuration keeps to the debug profile.  The metadata in it is of
\* the present sources, too, unless they were edited after it was made.
ImageIsCurrent ==
    StampsInOrder /\ events \cap {"board", "drop", "overlap"} = {} /\ cfg \notin Profiled =>
        (last = "ok" =>
            /\ image = [crate |-> Wanted, source |-> source]
            /\ "stale" \notin events => meta = source)
=============================================================================
