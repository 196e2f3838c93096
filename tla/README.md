# Verification of nros-cli

TLA+ modules, TLC runs and TLAPS proofs about the `nros` and `cargo nano-ros` command line
tools. Paths below are relative to `src/packages/`; `core` is `nros-cli-core/src`.

## 1. The system

nros-cli is a set of one-shot commands around directories on disk. No server runs and
almost nothing is locked: what makes the tools hard to get right is that a command is a
long list of file operations and child processes, that any of them may fail or be cut
short, that the next command reads what is left, and that two commands may work on one
directory at once. Most tests run one command once, on a fresh directory, to its end.

| Part | Code | State it keeps | What must hold |
|---|---|---|---|
| SDK store | core/orchestration/sdk_store.rs | `$NROS_HOME/sdk/<tool>/<version>` trees, provenance markers, downloads and clones beside them; shared by all workspaces | a marker stands for a whole, verified tool; a retry heals whatever was left |
| Source provisioning | same file, `provision_source` | clones and submodules in a workspace | what is reported as provisioned is whole and at its pinned commit; a contributor's tree is not touched |
| Setup | core/cmd/setup.rs | `nros-sdk.lock` | the lock names installed tools, all of the board's |
| Binding workflow | cargo-nano-ros/src/{workflow,cache,config_patcher,dependency_parser}.rs | generated bindings, a checksum cache, `.cargo/config.toml`; generating threads | what the cache calls valid is current; an Ok is complete |
| Planner, metadata, check | core/cmd/{plan,metadata,check}.rs, core/orchestration/{planner,plan,workspace}.rs | metadata files of the packages, their copies, `nros-plan.json` | a plan that is written passes the check, and says what the launch file and the metadata say |
| Deploy and package build | core/cmd/deploy.rs, core/orchestration/build.rs | plan, generated crate, build stamp, static library, image | an Ok deploy packaged the present configuration |
| Host launcher | core/cmd/launch.rs | child processes, a pidfile, a signal flag | no component outlives its launcher or becomes unstoppable; no foreign process is killed |
| Launch files | nros-build/src, core/orchestration/launch_synth.rs | a package index in a build script's OUT_DIR | a file means what it says; the index is the tree's; which file is used does not change unsaid |
| Generated program | core/orchestration/generate.rs | what the program keeps: sessions, nodes, registrations, state cells, ticks, forwarded samples | the program is the plan's, stops when told, and bridges reach every session once |
| `nros ws sync` | core/cmd/ws.rs | augmented manifests, a `[patch]` block | a fixed point is reached; nothing of the user's is lost |
| Interface parsers and generators | rosidl-parser, rosidl-codegen, nros-msg-to-idl | none | one file means one thing; languages agree on names, sizes and bytes |
| Bindings of a closure | cargo-nano-ros/src/lib.rs, rosidl-bindgen, core/cmd/{generate,codegen}.rs | generated crates and headers | the bindings are of the files as they are, and cargo and the compiler find what they name |
| colcon plug-in, ament install | colcon-cargo-ros2, cargo-nano-ros/src/ament_installer.rs | a lock file, a cargo config, a once-per-process flag, install space | every package is built with the bindings it needs; Ok means installed |
| Scaffolding and migration | core/cmd/{migrate,emit_package_xml,new,new_system,scaffold_deploy,bringup}.rs | the manifests of a workspace | no node is lost on the way, what is written passes the check |
| System code generation for C/C++ | core/cmd/codegen_system.rs, core/orchestration/{nros_config,cargo_metadata_schema}.rs | the bake tree and the vendor's files under `--out` | after an Ok the files are those of the request and the workspace; which system a name means does not change unsaid |
| Schemas, reports, argument parsing | core/orchestration/{sdk_index,...}.rs, core/cmd/{doctor,explain,...}.rs, nros-cli | none | |

How they interact:

* `nros setup` and the lazy setup of `build`/`deploy` call the store and the provisioning
  for each package of a board and keep the lock. Different workspaces meet in the store.
* `cargo nano-ros` runs the binding workflow; several projects of a workspace share the
  bindings and the cache file, and one run has a thread per stale package.
* `nros metadata` fills the metadata files and copies; `nros plan` reads both and the
  launch file; `nros check` reads the plan; `nros deploy` calls plan, stamps domains and
  bridges into the file, generates, compiles and packages. `nros launch` starts what was
  built. They meet in the files of `build/<system>/nros`.
* colcon runs one task per package; the first to come generates the bindings of every interface
  package for all of them, through the library calls that `nros generate` makes.
* What `nros new` and `nros migrate` write is what the planner, `nros check` and colcon read.

`PROJECT.json` lists every part with its sources and, under `hazards`, every place where the
code is exposed to an order, a failure or a leftover that a test would hardly produce.

## 2. What is modelled

Each component has its module; the `MC` module of the same name gives its constants values
for TLC, and each run has a `.cfg`. Mutants are operators beside the definition they replace:
each is a plausible bug of that code that breaks exactly the property it is listed for.

**SdkStore** (`AtomicStore`). A process runs `plan_install` (`Plan`) and `execute`: for a
prebuilt tool `Download`, `Verify`, `Unpack`, `Unlink`; for a source recipe `Wipe`, `Clone`,
`Configure`, `Install` (the recipe may leave out either); last `Mark`. What takes time (curl, tar, git, the install step, the
two halves of `fs::write`) is two actions with others in between, each may fail, and `Crash`
ends the process at any of them. A directory or file is abstracted to *which* pinned artifact
it is the whole of, `Nothing`, or `Bad`. `ScratchOf` is what `Path::with_extension` does to a
prefix: it replaces what follows the last dot of the *version*. `AtomicStore` is what callers
believe: a prefix holds nothing or its artifact, and filling it is one step.

**SourceProvision**. The three ways `provision_source` fetches, git command by git command:
plain clone, submodule with the shallow fast path and its fallback, none. `Git` says how a
command succeeds, `GitFails` what a failing one leaves behind, `Kill` what a killed one does.

**NrosSetup** composes both. A command walks its package list (`AtPackage`), takes a tool
(`TakeTool`, then the store's own actions through `RunStore`), a source (`TakeSource`,
`RunGit`) or passes a gated one; then saves the lock in two steps. The four callers differ
as in the code: `run` stops at the first failure and re-records what is present,
`ensure_tools` warns, goes on and collects the PATH, `install_single_tool` loads the lock after
the install and leaves it alone for a `--prefix` placement, `provision_named_sources` has no lock.

**BindingWorkflow**. `Discover` (cargo metadata, or Cargo.toml itself as long as the patches
are not there), `CheckCache`, one `Thread` per stale package (write, wait for CACHE_LOCK, load,
insert, truncate, save), `Join`, the next round with the dependencies the generated crates
name, `Patch`. CACHE_LOCK is a static of a process: it excludes threads of one run and not
another run. `source` and `out` hold versions, the cache their checksums: `Sum` says which versions
the checksum, taken over the files' contents one after the other, cannot tell apart. A behaviour has one of several
`Habits`: which projects run, what they depend on directly, and what may happen besides.

**PlanGraph** is the planner as operators over a launch record and a list of metadata
artifacts: matching, instances and their names, containers, entities and callbacks, links by
resolved name, scheduling contexts, groups, data-flow edges and chains, diagnostics, and
`ValidatePlan`, the check. Metadata have their nodes' entities or, in the old form, flat arrays of
them; of parameters the names are kept. **Planning** is its state machine: the user edits, cleans and
removes packages; `nros metadata` builds what is missing and copies; `nros plan` reads files,
copies and Cargo.toml tables and writes the plan. A killed writer leaves the file torn.

**ForegroundLaunch**. One launcher over the kernel's process table: spawn loop, handler, flag
reset, poll loop, SIGTERM loop, grace, SIGKILL loop, reap loop. A pid is held until the
launcher has reaped it and may be any other program's afterwards.

**DetachedLaunch**. Several `--detach` and `--stop` commands of one bringup over one pidfile,
with the truncating write, components that crash and pids that are used again.

**Deploy**. Deploys of one target in one directory: plan, the two stamps, the staleness gate
with its second reading of the plan, the crate written file by file, the stamp, cargo, the
package step. Content is abstracted to the plan, the board version and the sources it came from.
A plan is of a version of the configuration and one of the components' metadata, which
`MakeMetadata` makes only where there is none: an edit of the sources after that (event "stale")
leaves it behind until the user removes it (`DropMetadata`). A configuration in `Profiled` builds
into another directory than the one `{entry_lib}` names.

**PatchBlock** is what ws.rs does to the text of a Cargo.toml, line by line: finding the markers,
stripping the managed block, taking a `[patch.crates-io]` table of the user's apart, and splicing
the new block in. **WsSync** is the commands around it. `StartSync` scans (the colcon workspace, or
one package with the path dependencies that a scan by lines sees, `Seen`), augments the
dependencies in four passes and picks an order
of the needed interface packages; for each, `CodeBegins`/`CodeEnds` and `TomlBegins`/`TomlEnds`
generate what differs; then `WriteBegins` and `WriteEnds` read, splice and write the manifests one
by one. `StartClean` and `Wipe` remove the crates, then the blocks. `UpToDate` is what `--check` and
`status` compute. The user edits and deletes interface files, `<depend>` rows and lines of the
manifest in between; a generation may fail, and a command be killed between steps (`Kill`), in the
middle of a manifest (`KillSave`) or of the removal (`KillWipe`).

**ColconBuild**. Tasks are coroutines: an action is what a task does up to its next await, and
the commands it awaits (cargo, cmake, nros) end on their own (`CommandOk`, `CommandFails`).
`CheckLock` to `WriteConfig` are the first ament task's generation behind its lock file, interface
package by interface package; `EnterNros` and `NrosGenerated` the nros tasks' behind the class
flag; then come the build, `Install` (bins, libraries, sources, ament markers, or a prefix of these)
and the tests. `Call` is the user's next colcon command, `Kill` ends it; edits happen in between.

**RosInterface**. A file is a sequence of lines of words; `ParseItem`, `Separator` and `EndOfFile`
are the parser's loop over the tokens. `Generated` is what each of the nine generators (message,
service, action in Rust, C and C++) writes: structs, constants, schema helpers, and where they
look for other structs. `Send` and `Receive` run the generated CDR code of two languages against
each other, struct room and buffer sizes included; a node of ROS 2 (`RosType`) sends too, and more
than a program of nano-ros has room for. A read that goes wrong ends as the code has it: refused,
written past the room of C, or a panic of the C++ glue (`Wrecked`). `IdlLine` is the second parser.

**BindingGeneration**. `nros generate rust|c|all` and resolve-deps with the CMake build: index,
closure, one file after the other, renames, the cargo config. Between runs files are edited;
a run may be killed between two files or fail at one that does not parse. A rename replaces text
(`Fixed`): names behind an odd `'` stay as they are (`Quoted`), and of a name that ends in a renamed
one the end is replaced (`Rewritten`, in the order of a HashMap), which leaves a name nobody has.

**GeneratedSystem** is the program that the renderers write, not the renderer: an operator for
each rule by which a table or an entry is rendered (`FindCallbackEntity`, `Served`, ...) and an
action for each call of the program: opening sessions, building nodes, registering callbacks, binding
scheduling contexts, the loop with its ticks and service calls, halt. **BridgeForwarding** is the
relay among its sessions.

**LaunchParser** is the event loop of the launch reader, with the file chosen while it is read;
**PackageIndex** the walk and its cache; **LaunchResolution** which file a command takes.

**SystemBake** is `nros codegen-system`. `Loads`, `DeclaredSystems`, `SelfBringups` and
`ResolveBringup` are the loading of the Cargo workspace: members with a system.toml, directories with
one and no Cargo.toml, and packages that are their own bringup; the launch file is resolved by
`LaunchResolution`. A command reads all of that in `Start` and then comes to the files of `--out` in
order: `Skip` one that is as wanted, `Create` and `Write` another (two steps, so that it is empty in
between), `RemoveStale` for the Cargo.toml of a system without Rust packages. `Stop` ends a command
anywhere; others may work under the same `--out`, and the user edits the workspace. `SystemMain` is
the entry function that was baked: the hooks it calls and whether it comes to spin.

**WorkspaceLayout**. `Migrate` computes a plan from what it finds, and `MigrateStep` does the
plan's next write or deletion; the other three commands likewise. `CutShort` ends any of them
between two steps or in the middle of one. `LintBringup` and `DiscoverBringups` are what
`nros check` says of the result.

Some runs put several components into behaviours of their own: a variable `part` of the MC module
is chosen at the start and says whose actions are taken. They share no state; a deadlock of one is
a deadlock of the run.

State variables of the form `events`, `shown` or `last` record what has happened. They are not
in the program; they let a property say "unless X has happened", so that one run shows both
what the code survives and, by removing the condition, what it does not.

## 3. The runs

| Run | States | What it shows |
|---|---|---|
| `store` | 87 000 | Two processes, four prefixes (a prebuilt tool, a source recipe with both steps, one without an install step, one without recipe); failures and kills everywhere. Markers are honest, the store implements `AtomicStore`, retries succeed. Two processes and a source of each mode: `TreesAreWhole`. |
| `sdk_versions` (violation) | | Two processes install 1.7.2 and 1.7.3: they share the archive name, and one unpacks the other's download after its own checksum passed. |
| `wf` | 777 000 | One project with three packages, edits (also during a run; one package's renames a file), clean, failing bindgens and kills; and two projects at once with edits, nothing failing. |
| `wf_retry` (violation) | | A bindgen of a round fails: the repeated run is Ok and incomplete. |
| `launch` | 139 000 | A foreground launch of two components, one deaf to SIGTERM, signals at any step, three pids other programs may take. Launch files of three elements; a package index over two edits; three edits and commands of launch resolution. Metadata and plans of three launch files over three packages and two Cargo.toml tables, with edits, deletions, removals and kills. |
| `deploy` | 2 774 000 | Setup commands of all four kinds. Deploys in both forms, failing, with edits, reverts and boards that change. Two launches and two stops over three pids. Migration and scaffolding over three workspaces. |
| `ws` | 1 542 000 | Syncs and cleans of a colcon workspace and of one package, with two edits, failures or kills. The user's lines survive, an Ok sync can be built where all it needs is in sight (`InSight`), what is called fresh is current. |
| `ws_check` (violation) | | An interface file is edited and the workspace synced: the check still calls the package stale, however often sync is run. |
| `colcon` | 852 000 | Two ament packages; a CMake package after a Rust one; two Rust packages; interface packages of the workspace and of the underlay; one edit, one fault, one repeated test. |
| `colcon_deps` (violation) | | A package names an interface package of the workspace that uses another one no package names: cargo is started without the second one's binding. |
| `codegen` | 366 000 | Interface files, sent from three languages and from ROS 2 to three; generation runs over six packages, with renames that meet quotes and longer names; programs on one or two domains; bridges between four sessions; system bakes of four workspaces in three modes, with edits, errors and overlapping commands. |
| `borrow` (violation) | | A tick that calls a service spins the executor while it holds its state: a callback of the same instance borrows the cell again and the program panics. |

Why these bounds are enough to be worth something:

* Two processes show every pairwise interference; the properties are about one process and what
  another did to it, and the third would only be a second other.
* Two versions (of a source, a configuration, a tool) are what staleness needs; edits only go
  forward except where `revert` is the point.
* In `wf` one project has two direct dependencies with one shared transitive one: the least in which a
  round has two threads and a second round exists.
* `launch`: the launcher has one component more than the loops' first iteration and one pid more
  than components, so that recycling and running out of pids both happen. `MaxDepth` 2 stands for the
  depth 16 of includes; `MaxEvents` 3 elements over three files give an include in an include, an
  argument that shadows another, and a group around either.
* `launch`, plans: the workspace was chosen so that every kind of match, a name clash between two
  metadata files, a declared path the scan does not visit, metadata of either form, a data-flow cycle,
  several chains, same-named containers and each problem the check can find in a written plan do
  occur, but for a node id listed twice, which only the theorem covers.
* `ws`: five packages in a chain of path dependencies, as long as the passes reach, with the middle
  three outside the workspace; one path dependency the scan does not see; one
  interface package of the workspace and two installed ones, one needing the other: so that
  augmentation, both scan modes and a table of the user's with a row the block takes over all
  occur. `Budget` 2 allows a second accident on what the first one left; the two habits separate
  edits of manifests from what happens to crates, which meet in no file.
* `deploy`, deploys: two versions of configuration, sources and boards and a crate of one or two
  files are enough for a mixed crate, a file left behind, a stamp that outlives its crate, a
  configuration that comes back and metadata that is left behind. The version that takes the second
  file is the one in the debug profile, so the property bites where all of that happens.
* `deploy`, layout: two packages, one with a manifest of each of the three places they may be in,
  two bringup directories, two targets. `MaxCommands` 3 and `MaxCuts` 1: a cut command, the same
  again, and one more.
* `colcon`: `MaxFaults` 1, since each fault already ends a build; what it leaves is met by the next
  build of the same directory. `RemoveLock` is tried after a dependency was added, the case it helps.
* `codegen`: `MaxI64` 1000 and `MaxU64` 2000 stand for the ranges of the types; the catalogue has a
  line of every form the parser tells apart, in every pair; `MaxRuns` 3 is a run, the run that
  meets what it left, and one after that; `MaxWait` 2 for 200 passes of a service call and `MaxSeen` 2
  tell no, one and several. Three bridges are the least that can form a ring. In the bakes two
  commands share one `--out`, four workspaces make the talker its own bringup, a node wired by one
  or two bringups, or fail to load; a PX4 module is stood for by two of its four files, and an end in
  the middle, a file that cannot be removed and an overlap happen once each, not all in one behaviour.

Every property of a passing run has a mutant: an operator beside the definition it replaces, a
plausible bug of that code that makes the run violate the property.

CHECK_DEADLOCK is off in `launch` (parses and commands end, and a workspace whose packages have all
left has nothing more to do) and in `codegen` (programs end).

## 4. Fairness

* `store`: the caller asks again for each tool (SF on `Plan`), a process that was not killed
  goes on (WF), and from some day on nothing fails of itself (`<>[]` calm). Without the last
  there is no retry that must succeed. A runner asks again for each submodule source (SF), and git
  commands come to their end (WF).
* `wf`: WF on a command's own next step; nothing makes a user start one, and no command waits
  for another.
* `launch`: WF on the launcher, on the clock and on the end of a child that obeys SIGTERM or got
  SIGKILL. A component that is deaf and was not killed is under no fairness.
  For the plans: a user who runs `nros metadata --build` again and again gets it to end (WF).
* `colcon`: colcon's event loop goes on while a task can, and commands end (WF).
* `codegen`: the program's one thread keeps running (WF on its loop). Answers to service calls
  need not come.

## 5. What is proved

Eight modules hold proofs, checked for every value of the constants the ASSUMEs allow. A
theorem's further hypotheses are named here, with why they are not ASSUMEs.

*NrosSetupProofs*, first of the store by itself. `StoreTypes` needs nothing. `MarkersAreHonest` and
`StoreRefinesAtomicStore` assume `Apart`: no two processes install prefixes with one scratch
name, and so never one prefix. The code does not ensure it, and without it the facts fail: the
run `sdk_versions` is the counterexample. `MarkerHonest` is not inductive, since the step that
writes a marker only looks at its own program counter. The invariant `IInv` adds `StepFacts`,
what each counter value may rely on: at `unpack` the archive is the pinned one, while tar or an
install step runs its input is the pinned artifact, at `configure` the clone is, from `unlink` on
the tree is whole (where a step of the recipe fills it, `Filled`), and a prefix that is being installed carries no marker. That no other
process undoes such a fact is where `Apart` enters (`BusyApart`). The refinement maps a
prefix to its tree when it is marked and to nothing otherwise; `Marked` is the only step that is
not a stutter.

Then of the setup commands, under `Apart` again. `SetupUsesTheStore`: every behaviour of the setup
commands is, for the store's variables, one of `SdkStore`, so its theorems hold of the
whole system. `LocksNameInstalledTools` needs the strengthening (`RecordInv`) that what a
command has in memory and on its PATH is installed too, and (`ListInv`) that a package being
installed is the head of the command's list; it rests on markers being permanent.

`OkSetupIsUsable` takes two hypotheses more: two processes that may work in one directory are one
(`OwnLock`; otherwise they overwrite each other's records, see section 6), and no list names two
versions of a tool (`OneVersion`; a board's packages are names of one index, which has one). Its
invariant (`AccountInv`) is an account, per command, of every tool it was given: still to come, or in
the copy of the lock that is going to be saved (`SetupAccount`), or on the PATH, when it has a
`bin` directory to be put there (`AutoAccount`, `HasBin`).

*WorkspaceProofs*, of source provisioning. `ProvisionedIsWhole`, without further hypotheses, for any processes in the
three modes on one dest. A report says something of a tree that others go on working in; it stays
true since no command takes anything from a whole tree, except a failing `git clone`, which has
its dest for itself (`Cloning`), and since nobody works in a contributor's checkout (`UserAlone`).

Then of `nros ws`. `WsTypesHold` needs that the scan reaches packages of the workspace only;
`Reach` is a function over a number of steps, and the induction over it is done with sets (a set
of numbers with 0 and all successors is Nat, from the well-foundedness of <). `UpToDateIsCurrent`:
the check sees a Cargo.toml and file times; it is right because the Cargo.toml is touched when the code
is settled (`Settled`), and code is only taken apart where the Cargo.toml is missing or older.

*BindingWorkflowProofs.* `SpecCacheIsTrue`: whatever is recorded, in the cache file or in what a
thread is about to save, was made whole and stays so until the text changes (`Truthful`); an edit that
brings no earlier text back gives either the checksum of just now or one nobody has (`NotNewer`). After a
failure or a kill this needs the other half, `Guarded`: nobody has recorded the package of a bindgen that
was cut short, since it was stale when the run looked and the run was alone. `SpecComplete`
follows the rounds of a run (`Round`): what is there is current or checked next, and needs only what is
there or checked next; so when nothing is stale, what is there is closed under dependencies.
`Closure` is the least closed set, which holds for cyclic dependencies too.

*DeployProofs.* `DeployedIsCurrent`, for any number of versions and files. The core is what a
stamp stands for (`Stamps`): the stamp of the present configuration stands for its crate, and
any other names the crate that is there, a configuration that does not come back, or metadata older
than what the next deploy plans with (`Due`: the metadata there is, or what the sources would give).
`MetadataKnown` is what holds of metadata and sources whatever else happens; the rest (`DpState`)
under the conditions of `ImageIsCurrent` (`NothingHidden`).

Then of the detached launcher. `LeftCanBeStopped` and `StopsSignalOwnOnly`, for any number of launches,
stops, components and pids; what users must not do is in the properties themselves (`shown`), so
nothing else is assumed. `DlBase` holds whatever anybody does: launches of one bringup take turns,
a launcher's zombies last as long as it, and whoever has a pid is in its launch's `pids`. While
users keep the order (`OrderInv`), a stop and a launch are never under way together, the pidfile
is missing until a launch truncates it and empty until it is written (`FileWhile`), and what runs
and has not been signalled is in the file, or in what the stop has still to signal (`Found`,
`Unsignalled`): that second half is what survives the removal of the file. While components do
not crash (`CalmInv`), what the file or a stop names are components that run.

Then of migration and scaffolding. `MigrationKeepsNodes` and `OkIsDone` share `WlInv`: a package
is as it was or has been moved, and only a moved one loses manifests (`Kept`); a migration has
moved the packages behind it (`Progress`); each command finds what its earlier steps left
(`MigrateFacts`, `SystemFacts`, `DeployFacts`); and what one cut may do to a target's glue (`Spoilt`).
The old shape is assumed to list a package once (`OldShape`): `build_plan` goes through the listed
components as they come, and for one that is listed twice its second rewrite of Cargo.toml finds the
manifest gone, so that a kill then loses the nodes.

*ColconBuildProofs.* `OkInstalls`, without further hypotheses: the directory the command wrote to
holds today's build (`InstFacts`), the scripts of an ament package are written before cargo starts, and
what is looked for elsewhere is what the property excepts. `CargoSeesBindings` has none either; what the
property asks of a package's needs is what `SearchFinds` takes: the search goes on from what is installed, and
from what is named once, so nothing that is one or the other escapes it. Then: the
event loop is held by one task at a time, and an ament task that has passed the lock comes
after the generation (`HoldInv`); until something fails, what the generation has dealt with is complete,
and after it all that was discovered is (`BindFacts`).

*LaunchProofs*, of the foreground launcher. `OkLeavesNoChild` and `KillsOnlyStragglers`, for any number of
components. `FgInv` says who owns which pid (`Owned`, `Distinct`, `Held`), what the loop counter
means in each phase (`Spawned`, `AllTermed`, `AllReaped`) and that the kill loop
is only entered when the grace period is over (`Overdue`). `Held`, that a pid not reaped is still
the child's, is what makes the SIGKILL safe.

Then of the package index. `IndexStaysCurrent`, for any tree, markers and edits: what the cache
says of a package.xml was true when it was written (`TimesTell`, `CachedWell`), so where path and
time are the same, so is the content. That the walk found nothing else is counting: as many
entries as files and each file with its own, an injection between sets of one size is onto. The
model assumes (`IndexAssumption`) that files of one time have one content; section 6 has what happens
otherwise.

And of launch resolution. `NeverSwitchesSilently` has no invariant but that the launch directory is
finite: a command that takes the only file there took it before, or that file is gone.

*PlanningProofs.* `PlInv` says what a plan is (`PlanMade`): made in one step, of a launch record and
of artifacts that some file or table said. From there both theorems are about the pure planner,
for every record and metadata. Neither needs a hypothesis. `PlansPassCheck` does not say that every
plan passes, which is false: it says that what `validate_plan` finds in a written plan can be shown in
the metadata or the launch file (`ProblemOfInput` lists how). The argument goes down
`validate_plan`: what `schema_instance` makes of what it is given (`Made`), and that an id it gives
twice it was given twice (the `Repeated` lemmas); a table has one row for each name, the one at its
first place (`TableIsSound`); and instances of one executable are told apart by how many there were
before.

*CodegenProofs*, of system bakes. `BakesStayTrue` and `OwnFilesDecideAll`: a command that is alone
leaves nothing behind it that is not current (`AloneIsCurrent`), and when the files are known to be of a
request, every command at work has that request (`BakedIsKnown`), so whatever it writes is what was
there. The components of a system have different C identifiers (`WorkspaceConstants`), which the
code does not check: otherwise one overwrites the other's module directory (section 6). That all
files of a concatenation of lists are come to is an induction over `FlattenSeq`, by least number.

Then of the generated program. `StartsAsPlanned`: nodes and handles are, at any time, a beginning
of what the plan gives (`NodesAsPlanned`, `HandlesAsPlanned`), and the entity found for a callback is the
exact match where there is one, whatever its name hints at. Node names differ, as the property says.

Then of bridges. `BridgesAlwaysDeliver`: what one end of a bridge saw the others saw, or it is on
its way to them (`Relayed`), so when nothing is under way all that is linked has seen the
sample. Where bridges form no cycle nobody sees it twice: `Forest` counts joints, parts, sessions and
bridges; a map of joints and parts onto sessions and bridges is then one to one, and so there is a
tree below the session of the component (`ForestIsTree`), which the sample comes down (`ComesDown`);
what goes back up is dropped. No two bridges have one name (`BridgeNamesDiffer`), which
`validate_bridges` does not ask: a sample that came over one is dropped by the other, as an echo.

Then of bindings. `BindingsStayCurrent`: while a generation runs nothing was edited and it holds what the
index has (`AsLoaded`); the crates made so far are of their packages' files, whether under the old name
or already under the new one (`CratesSoFar`, `InPlace`), and so are the headers (`HeadersSoFar`). An edit in
between ends the claim, a kill or a file that does not parse ends the run without an Ok. Hypothesis:
`RenamesApart`, no package has the name another is renamed to and no two are renamed alike, which TLC
evaluates on the run's instance. The code does not check it: `apply_package_renames` removes
what it finds under the new name (lib.rs:319). The theorem is of files and headers, not of the names in
them: that crates resolve after renames is `NamesResolve`, model-checked. For CMake, whatever queue the hash maps' order makes, Kahn's
algorithm places a package after all it depends on (`ResolveOrders`), and the build follows
that order (`BuildGoesOn`). So that this can be proved, `Inserted` and `Orders` are recursive functions,
and `Sorted` gives each element its rank: TLC's SortSeq means nothing to the provers.

Only model-checked, and why:

* Every liveness property, `TornCopiesHeal` among them, and the refinement under fairness: the
  provers do neither.
* `ParsedAsWritten` of the launch reader and, in `codegen`, `InterfacesParsed`, `ValuesTravel` and
  `NamesResolve`: LaunchParser and RosInterface use RECURSIVE operators over data.
* `ChainsFollowData`: chains come out of a fold whose accumulator is the work list.
* `UserTextKept` and `SyncedBuilds` of `WsSync`: the first is about text, line by line, through
  operators that fold over it; the second holds for what four augmentation passes reach, so that
  a theorem would have to speak of the depth of dependencies.

## 6. Where code and text disagree

Five runs end in a violation and are listed under `findings` with the lines they contradict.
The following were met while modelling. They are hazards of the code that no text of the
repository contradicts, or that a property states with the exception it needs; where a comment of
the repository promises what the exception denies, it is quoted here and at the property.

Store and setup:
* A source recipe may leave out its install step (sdk_store.rs:242): `execute` then creates an empty
  prefix, marks it as installed, and every later command skips it. `MarkerHonest` and the rest speak
  of the other recipes (`Filled`).
* A tool whose artifact has no `bin/` at its top stays off the PATH of an auto-setup that ends Ok
  (setup.rs:369), without a word; `OkIsUsable` speaks of those that have one (`HasBin`).
* A clone killed after `git init` leaves a directory that the next setup takes for a
  contributor's checkout (sdk_store.rs:413).
* `nros setup` that fails at a later package drops the lock records of the earlier ones
  (setup.rs:169, :188); the next successful setup records them again (`OkIsUsable`). Two setups
  at once in one directory overwrite each other's records.

Binding workflow:
* A checksum is taken after bindgen has read the files (workflow.rs:342): an edit in between
  is recorded as generated. `CacheIsTrue` excludes live edits.
* The checksum is of the concatenated contents (cache.rs:138): a file that is renamed, or text moved
  to the next file, leaves the package valid and its bindings under the old names, though "interface
  files haven't changed" (cache.rs:3) is not so. In `wf` the edit of one package is of this kind;
  `ValidIsFresh` and the two completeness properties ask for bindings of the same text (`MadeOf`).
* An edit whose generation fails, taken back: the first checksum is still recorded and the directory
  there, half rewritten, so the package is valid. `ValidIsFresh` excludes texts that come back
  (`undo`).
* A cache file cut short by a kill does not parse and fails every later run (:335).
* `is_valid` accepts an output directory that exists (cache.rs:102): after a `cargo clean`,
  half of a failed generation counts. Two runs race on the config patch (workflow.rs:473).

Launcher:
* A binary that is missing, or a signal before the handler is there, ends the launcher and leaves
  the components it already started (launch.rs:454, :460); a signal between `libc::signal` and the
  flag reset is forgotten (:555).
* SIGTERM is sent to children that may have been reaped (:494); SIGKILL is not
  (`KillIsLastResort`).
* A detached launch that fails has no pidfile for what it started (:596); a second launch
  overwrites the pidfile of the first (:607); a stop removes whatever pidfile is there when it
  ends (:667) and signals pids that other programs may have by then (:662).

Deploy:
* Board descriptors are not in the fingerprint (build.rs:197); files only some boards need are
  never removed (generate.rs:151); a source-form deploy rewrites the crate and leaves the stamp
  (deploy.rs:342); deploys of one target that overlap mix their files (build.rs:41).
* A generation is killed and the configuration taken back: the stamp of the earlier plan then
  vouches for a mixed crate (build.rs:209, :76).
* `{entry_lib}` of a package step is always the debug directory's library (deploy.rs:264), whatever
  profile the plan builds with; under another profile the step packages what the debug directory
  last held, or fails. `ImageIsCurrent` leaves such configurations (`Profiled`) out.
* Metadata is made when it is missing and never looked into again (deploy.rs:303-313,
  metadata.rs:97-100): after an edit of a component an Ok deploy compiles the new sources and plans
  with the old metadata. `ImageIsCurrent` says so: its last line excepts edits since the metadata
  was made (event "stale").

Planner:
* Chains and groups list a callback's own name, instances its qualified id (planner.rs:1360-1590,
  plan.rs:359, :373): callbacks of two instances with one name are one there.
* A node whose launch entry has a namespace gets that namespace twice: /a/a/cam.
* `nros plan` writes plans that `nros check` rejects (`ProblemOfInput` names exactly these): a
  component that is not called like its executable and a stock container lack their component
  (`missing-component-reference`); an id given twice in the metadata, or two packages that
  `sanitize_id` makes one, are never refused; an interface may be a message in one package and a service
  in another; and parameters of a component whose `nodes` is an empty list go to a node called "node"
  that the plan does not have (planner.rs:326, :1276).
* An entity of the flat arrays is given to a node "node" by the launch's names and loses its callback,
  whatever node the same file lists (planner.rs:2151-2213).
* Launch parameters go to the first node of a component. A composable node whose target is no
  full name of the launch is put in a container of that last name, in any namespace.
* Copies outlive their package: a removed package's copy still matches, and its torn copy fails
  every later plan (`TornCopiesHeal` excepts it). Two files of one name overwrite each other's
  copy. `nros metadata --build` rebuilds only what is missing (metadata.rs:98).

Workspace sync (ws.rs):
* `fs::write` of the user's Cargo.toml, killed midway, loses what was not yet written (:859). A
  BEGIN without its END is no block for the next sync, which leaves the rows after it to the
  preceding table; the one after that cuts from it up to the new END. `UserTextKept` only speaks of
  manifests with whole markers.
* The hand-written row that a managed one replaces is not put back by `clean`; a comment above a
  section that follows the user's patch table moves into the table.
* "The patch authority for the Entry pkg then carries every msg patch the transitive build needs"
  (:308) is not so where `SyncedBuilds` asks for more (`InSight`). A package synced alone loses what is
  five path dependencies away (four passes, :655), what its manifests name over several lines, in a
  target's table or through a crate without package.xml (:695-734), and interface packages of the
  workspace it is in; a workspace loses what its members reach outside src/. In the run the chain
  is four long, and entry, synced with the workspace, is out of sight.
* Run for a single package, `clean` strips the manifests of path dependencies too, and `sync`
  writes a member's manifest, whose `[patch]` cargo ignores when it is in a cargo workspace.
* Freshness is by time of files that exist: one that was deleted, or edited while a sync ran, is
  called fresh (`FreshMeansCurrent` excepts the first, and the model has no edit during a sync), and
  so is a package whose generated Cargo.toml was cut short by a kill; `--check`, documented to fail
  when a patch block is missing, looks at no patch block.
* A generated crate is named after its directory, the patch row after `<name>`; a later prefix of
  AMENT_PREFIX_PATH overrides an earlier one; an installed package that is not found is
  skipped without a word; path dependencies in a cycle make the scan recurse for ever (:541,
  excluded by `WsConstants`).

colcon:
* The lock file of a generation is never removed (workspace_bindgen.py): after a failed or killed one,
  and for any interface that is added or edited later, no build generates again until build/ is
  removed, or the lock (`RemoveLock`: then what has no directory yet is generated, and only that). Two colcon processes at once: the second builds without bindings.
* An interface package of the workspace that only another one names is missed (run `colcon_deps`), though
  the docstring says "Also discovers their dependencies to ensure complete binding generation"
  (workspace_bindgen.py:223): `BuildsSeeBindings` is about packages whose needs are each installed or named
  by a package. In isolated installs install/ itself is
  put on AMENT_PREFIX_PATH, so that workspace packages are never found there; in a merged install
  the workspace root is taken one level too high.
* A failed generation of `nros` packages reaches only the task that ran it; the others build while it
  runs. `-r` and `--target` are not recognised by `_detect_cargo_profile`; nothing is installed of a
  member of a Cargo workspace, and that is Ok; cmake keeps an old package.xml.
* Ament markers are written before the files they announce; source files that are gone stay
  installed; a failing `cargo metadata` leaves the process in another directory.

Interface files:
* C sequences of strings are `char data[256][64]`, the dimensions swapped (types.rs:989 and :962); for
  `string<=10[<=20]` the code writes past the rows (step "overrun").
* An unquoted string constant takes the first words of the next line, and loses what is no word to the
  lexer, although parser.rs:301 says "until we hit end of line": `LineByLine` speaks of files without such
  lines (`Apart`, `Alone`). What follows the last section is ignored.
* The constants of a service's request and response stand side by side in one Rust module without a
  prefix (service_nros.rs.jinja:15, :185), unlike those of actions: one name in both does not compile.
* The C++ publish buffer counts 512 bytes for any nested message and 256 for any text in a
  sequence, though types.rs:1238 calls it the maximum size: a larger message is refused. C++ cuts texts
  that are too long, which C and Rust refuse; N characters fit in Rust, N-1 in C and C++. The C++ glue of
  a message that nests an empty one calls a function that does not exist, and that of a string<=0 takes
  1 from a length of 0 and does not compile.
* C and Rust refuse a sequence that is longer than its room. C++ does not look: it sets the size to what
  the wire says and panics at the first element without room, within an extern "C" function, which ends
  the program (message_cpp_ffi.rs.jinja:93-111). `SameValueArrives` allows this outcome to C++ and to
  such sequences only. A program of nano-ros does not send them, a node of ROS 2 may: an unbounded
  sequence has room for 64.
* The inline mode, which nothing calls, has schema paths that do not fit its type paths.
* Words like float or long are types to one parser and message names to the other, duration and time
  types of the other only (nros-msg-to-idl/parser.rs:10; it then writes `::msg::time`, which no package
  has); `TwoParsersAgree` is about the other words (`AliasFree`). `bool[0]` is
  refused by one; nros-msg-to-idl refuses constants and defaults; hexadecimal u64 beyond i64 fail.
* Names that snake_case makes equal share a file. The .idl front end is reached by no command.

Bindings:
* `nros generate all` makes no C on its first run (cmd/generate.rs:19 against lib.rs:937).
* A later prefix of AMENT_PREFIX_PATH replaces an earlier one; a package without interfaces ends the
  walk, so that what is behind it is missing.
* Renames change the renamed crates only, and the cargo config keeps the names of before; stale patches
  stay. In a renamed crate too names are missed, though lib.rs:295-300 says that dependencies and Rust
  references are updated: `replace_outside_strings` takes every ' for the quote of a char
  (lib.rs:447-454), so what stands between a `&'static` of a string constant and the next ', or after
  the "upstream's" of the action template's comment, keeps its old name (`Missed`); an action's
  envelopes always do. And `old::` or `old = {` is replaced where it ends a longer name
  (lib.rs:349-363, 402-405; `Mangled`). The model takes it that no package is named as the end of what
  the templates themselves write (core, heapless, nros_core).
* Without --force C skips directories that a failed run left and reports success; a package with only
  .idl files gets a header that includes one never written; resolve-deps silently drops packages
  on a cycle.

Launch files:
* An include inside a group is never read (launch_parser.rs:13 against :241). An element written
  `<arg ..></arg>` always fails. A nested group loses its remaps, and an `<arg>` within `<include>` sets
  the including file's argument.
* The comment at launch_parser.rs:311-313 says an `<arg>` inside a `<node>` or `<group>` is rejected; the
  code at :326 takes it for an argument of the file. `ParsedAsWritten` states the comment's rule and
  leaves such files out (`ArgIsMisplaced`); without that the launch run refutes it with
  `<group><arg ../></group>`.
* The package index stays when an ignore marker hides one package while another is added, or when a
  package.xml is replaced by one of equal time. Parser and index have no caller but the tests.
* `nros plan` ignores the `launch =` that codegen-system honours. `[[bin]]` beside src/main.rs is not
  noticed to be ambiguous.

Generated program:
* `forward` replaces the origin of a sample: three bridges in a ring carry it round for ever though
  generate.rs:2311 promises loop suppression. `BridgesDeliver` speaks of topics without a cycle.
* C ABI and Zephyr entries open one session even for a plan of several domains; Zephyr never ticks
  no_std actions (generate.rs:1670); an action server without a callback makes the shim import a
  function that is not written; of two entities that share a callback the second is never registered.
* Nodes of one name in two domains: the first is found. An unmatched callback ends the start-up.
* A reply that comes after its call timed out answers the next call.

System bakes:
* `domain_id_override` of a deploy block is read by nothing (docs/workspace-metadata-schema-v0.1.md:35),
  and a package that is its own bringup gets the header of its first deploy block whatever
  `--target` is (nros_config.rs:495).
* `c_ident` maps different component names to one module directory, whose files the later component
  overwrites (codegen_system.rs:620, :782).

Migration and scaffolding:
* A migration cut short after it removed a manifest can never be finished, or, when a package has
  several manifests, loses the nodes that were moved before: the table is written from what is left
  (migrate.rs:447). Cut short between nros.toml and the root Cargo.toml it says "nothing to migrate"
  for ever. `NodesKept` excepts a rerun after that.
* `--force`, "re-run on an already-migrated tree", always fails, since nros.toml is gone (a test
  asserts the failure).
* Lost in a migration: descriptions, licenses, maintainers, buildtool dependencies, deploy targets
  without kind and target, overlays, domains, bridges, scheduling.
* With `--bringup-name` the package.xml keeps the default name; a rerun with another name leaves
  the launch file behind; two manifests with one component name are one table.
* `nros new --component` writes a manifest that migrate does not find, and after a migration
  `nros new --deploy` only looks at the deleted nros.toml; in a workspace of several systems no
  target can be added.
* Manifests are rewritten in place; a glue file torn by a kill stays until `--force`.

## 7. Not modelled

The parts listed as `not_modelled` in `PROJECT.json`, each with its reason, and what `partly` says of
others. In the modelled parts: the bytes of files, messages on the terminal, `--dry-run`, `--list`
and other options that change nothing, the environment of started components; in the planner,
parameters, the build block and its transport rules, shared state and lifecycle; in the interface
generators the rclrs backend and the inline mode, which no command reaches, comments and the
spelling of names; in the generated program the build files around it and parameters; in the
launch reader the XML syntax below quick-xml's events; rows of a patch table that go over several lines;
`--bringup` of codegen-system as a path, which is one more name of a package. `try_wait` errors are not reached as long as
nobody ignores SIGCHLD for nros.

## 8. Plan

Done, in this order: SdkStore, SourceProvision, NrosSetup, BindingWorkflow, ForegroundLaunch,
DetachedLaunch, Deploy, PlanGraph and Planning, PatchBlock and WsSync, ColconBuild, RosInterface,
BindingGeneration, LaunchParser, PackageIndex, LaunchResolution, GeneratedSystem and
BridgeForwarding, WorkspaceLayout, SystemBake.

What is left, the most stateful first:

1. The Cyclone descriptors, a table of what RosInterface parses.
2. The build files of the generated package (manifest, features, linker scripts per board) and board
   metadata, against what a board needs.
3. `scaffold_package` and the schemas of nros.toml, as the source of the workspaces that
   WorkspaceLayout starts from.

Theorems next: `UserTextKept`, under the premise that a block holds rows only; `CratesResolve`, the
half of `NamesResolve` that BindingGeneration states, for which `Closure` has to be shown closed;
`SyncedBuilds`.
