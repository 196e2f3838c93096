------------------------- MODULE BindingGeneration -------------------------
(***************************************************************************)
(* nros generate and nros codegen: message bindings for everything a       *)
(* package.xml reaches (cargo-nano-ros/src/lib.rs over rosidl-bindgen).    *)
(* The package index is AMENT_PREFIX_PATH over the bundled interfaces.     *)
(* Rust crates and C headers of `nros generate` go to one directory, file  *)
(* by file; CMake has the packages resolved into a script and generates    *)
(* one after the other in the script's order.  Files are edited, package   *)
(* manifests too, and a run can be killed between two files.               *)
(***************************************************************************)
EXTENDS Integers, FiniteSets, Sequences, FiniteSetsExt, SequencesExt, Functions

CONSTANTS
    Pkg,        \* packages: a package is its place in the alphabet
    NewName,    \* names packages are renamed to
    File,       \* interface files, messages before services before actions
    Kind,       \* file -> "msg", "srv" or "action"
    Text,       \* contents of interface files
    Broken,     \* the content that does not parse
    Uses,       \* content -> packages its fields name
    Injected,   \* packages every action's envelope structs name
    Quoted,     \* file, content -> packages its Rust source names behind an odd number of '
    Worlds,     \* the installed packages, the project and its habits
    MaxEdits,   \* bound on edits
    MaxKills,   \* bound on killed runs
    MaxRuns,    \* bound on the runs started
    None        \* no such file or directory; a name no package has

Dir == Pkg \cup NewName
Ask == [langs : {<<"rust">>, <<"c">>, <<"rust", "c">>}, force : BOOLEAN, config : BOOLEAN]
NoAsk == [langs |-> <<>>, force |-> FALSE, config |-> FALSE]

\* A package's share directory: what its package.xml depends on (None if there is
\* none that parses), whether it has .idl files, its other interface files.
ShareDir == [deps : {None} \cup SUBSET Pkg, idl : BOOLEAN, text : [File -> Text \cup {None}]]

\* What is generated of a package: modules, module lists and Cargo.toml of the crate,
\* headers with the umbrella that includes them and others' umbrellas, the Rust glue
\* of C++ headers and its mod.rs.
GlueParts == File \X {"msg", "request", "response", "goal", "result", "feedback"}
Umbrellas == [files : SUBSET File, deps : SUBSET Pkg]
Headers == [h : [File -> Text \cup {None}], umbrella : {None} \cup Umbrellas,
            glue : SUBSET GlueParts, mods : {None} \cup SUBSET GlueParts]
Names == Dir \cup {None}
Modules == [text : Text, refs : SUBSET Names]
Crates == [rs : [File -> {None} \cup Modules], mods : {None} \cup SUBSET File,
           cargo : {None} \cup [name : Dir, deps : SUBSET (Names \X Dir)], c : Headers]

ASSUME GenerationConstants ==
    /\ Pkg \subseteq Nat /\ IsFiniteSet(Pkg) /\ File \subseteq Nat /\ IsFiniteSet(File)
    /\ Broken \in Text /\ None \notin Text \cup Umbrellas \cup Crates
    /\ Kind \in [File -> {"msg", "srv", "action"}]
    /\ Uses \in [Text -> SUBSET Pkg] /\ Injected \subseteq Pkg
    /\ Quoted \in [File -> [Text -> SUBSET Pkg]]
    /\ \A w \in Worlds :
          /\ IsFiniteSet(DOMAIN w.share) /\ 0 \in DOMAIN w.share
          /\ DOMAIN w.share = 0..(Cardinality(DOMAIN w.share) - 1)
          /\ w.share \in [DOMAIN w.share -> [Pkg -> {None} \cup ShareDir]]
          /\ w.needs \subseteq Pkg
          /\ DOMAIN w.renames \subseteq Pkg /\ \A p \in DOMAIN w.renames : w.renames[p] \in NewName
          /\ w.tails \in [Dir -> SUBSET Pkg]
          /\ w.asks \subseteq Ask /\ w.single \subseteq Pkg /\ w.cmake \subseteq {"c", "cpp"}
          /\ w.edits \subseteq Pkg \X File \X (Text \cup {None}) /\ w.xmlEdits \subseteq Pkg \X Pkg

VARIABLES
    share,    \* i-th prefix of AMENT_PREFIX_PATH, 0 the bundled ones: its share directories
    world,    \* one of Worlds: what the project needs, renames and asks for
    gen,      \* `generated`: a directory per package
    patches,  \* [patch.crates-io] of .cargo/config.toml
    script,   \* the resolved packages in the CMake script
    built,    \* the headers and glue CMake had generated
    run,      \* the run in progress
    outcome,  \* how the last one ended
    fresh,    \* nothing was edited since it began
    counts    \* edits, kills and runs so far

bgVars == <<share, world, gen, patches, script, built, run, outcome, fresh, counts>>

NoFiles == [f \in File |-> None]
NoHeaders == [h |-> NoFiles, umbrella |-> None, glue |-> {}, mods |-> None]
EmptyDir == [rs |-> NoFiles, mods |-> None, cargo |-> None, c |-> NoHeaders]
NoPlaces == [p \in Pkg |-> None]
NoListing == [p \in Pkg |-> {}]
Idle == [phase |-> "idle", ask |-> NoAsk, langs |-> <<>>, iface |-> {}, at |-> NoPlaces,
         listed |-> NoListing, todo |-> <<>>, left |-> <<>>, deps |-> {}, olds |-> {}, anew |-> TRUE]
NoOutcome == [result |-> "none", ask |-> NoAsk, iface |-> {}, anew |-> TRUE]

BgInit ==
    /\ world \in Worlds
    /\ share = world.share
    /\ gen = [d \in Dir |-> None]
    /\ patches = {}
    /\ script = None
    /\ built = [p \in Pkg |-> NoHeaders]
    /\ run = Idle
    /\ outcome = NoOutcome
    /\ fresh = TRUE
    /\ counts = [edits |-> 0, kills |-> 0, runs |-> 0]

-----------------------------------------------------------------------------
(* The package index.                                                      *)

Listed(dir) == {f \in File : dir.text[f] # None}

HasInterfaces(dir) == IF dir = None THEN FALSE ELSE dir.idl \/ Listed(dir) # {}

Places(p) == {i \in DOMAIN share : HasInterfaces(share[i][p])}

Found(p) == Places(p) # {}

\* from_path_string lets a later prefix replace an earlier one's package, and
\* merge lets the bundled ones fill the gaps only.
Place(p) == IF Found(p) THEN Max(Places(p)) ELSE None

At(p) == share[Place(p)][p]

\* Packages without interface files are not in the index: nothing follows them.
DependenciesOf(p) == IF ~Found(p) THEN {} ELSE IF At(p).deps = None THEN {} ELSE At(p).deps

\* Mutant: only what the project's package.xml itself names.
DirectOnly(S) == S

\* resolve_transitive_dependencies
Closure(S) ==
    LET reach[n \in 0..Cardinality(Pkg)] ==
            IF n = 0 THEN S
            ELSE LET r == reach[n - 1] IN r \cup UNION {DependenciesOf(p) : p \in r}
    IN  reach[Cardinality(Pkg)]

\* filter_interface_packages
InterfacePackages == {p \in Pkg : p \in Closure(world.needs) /\ Found(p)}

\* The i-th of a set of numbers is the one that i of them are up to.
Sorted(S) == [i \in 1..Cardinality(S) |-> CHOOSE x \in S : Cardinality({y \in S : y <= x}) = i]

-----------------------------------------------------------------------------
(* A run goes through its languages, and through the packages of each.     *)

Keeps == UNCHANGED <<share, world, fresh, counts>>
NoBuild == UNCHANGED <<script, built>>
Output == <<gen, patches, script, built>>

\* The index as a run loads it.
Loaded(r, S) ==
    [r EXCEPT !.iface = S, !.todo = Sorted(S),
              !.at = [p \in Pkg |-> IF p \in S THEN Place(p) ELSE None],
              !.listed = [p \in Pkg |-> IF p \in S THEN Listed(At(p)) ELSE {}]]

\* The first of the languages left; a project without interfaces is done with it.
Enter(r) ==
    [Loaded(r, InterfacePackages) EXCEPT
        !.phase = IF InterfacePackages = {} THEN "end" ELSE Head(r.langs),
        !.anew = \A p \in InterfacePackages : gen[p] = None]

Begins(r) ==
    /\ run = Idle
    /\ counts.runs < MaxRuns
    /\ counts' = [counts EXCEPT !.runs = @ + 1]
    /\ run' = r
    /\ fresh' = TRUE
    /\ outcome' = NoOutcome
    /\ UNCHANGED <<share, world, Output>>

Ends(result) ==
    /\ run' = Idle
    /\ outcome' = [result |-> result, ask |-> run.ask, iface |-> run.iface, anew |-> run.anew]

\* nros generate rust | c | all
Generate(ask) ==
    /\ ask \in world.asks
    /\ Begins(Enter([Idle EXCEPT !.ask = ask, !.langs = ask.langs]))

\* generate_bindings: one package, into the same layout; colcon's entry point.
GenerateOne(p) ==
    /\ p \in world.single /\ Found(p)
    /\ Begins([Loaded(Idle, {p}) EXCEPT !.phase = "rust"])

NextLanguage ==
    /\ run.phase = "end"
    /\ IF Len(run.langs) > 1
       THEN run' = Enter([run EXCEPT !.langs = Tail(@)]) /\ UNCHANGED outcome
       ELSE Ends("ok")
    /\ UNCHANGED Output /\ Keeps

Current == Head(run.todo)

\* What the next file to read holds now.
Content == share[run.at[Current]][Current].text[Head(run.left)]

Reading(phase) == run.phase = phase /\ run.left # <<>>

ReadOk == Content \notin {None, Broken}

\* A file that is gone or does not parse ends the run; what was written stays.
ReadFails ==
    /\ run.phase \in {"rs files", "c files", "cmake files"}
    /\ run.left # <<>>
    /\ ~ReadOk
    /\ Ends("err")
    /\ UNCHANGED Output /\ Keeps

-----------------------------------------------------------------------------
(* Rust: generate_package                                                  *)

OpenCrate ==
    /\ run.phase = "rust"
    /\ run.todo # <<>>
    /\ LET p == Current IN
       /\ gen' = [gen EXCEPT ![p] = IF @ = None THEN EmptyDir ELSE @]
       /\ run' = [run EXCEPT !.phase = "rs files", !.left = Sorted(run.listed[p]),
                     !.deps = IF \E f \in run.listed[p] : Kind[f] = "action" THEN Injected ELSE {}]
    /\ UNCHANGED <<outcome, patches>> /\ NoBuild /\ Keeps

\* What the envelope structs of an action name.
Enveloped(f) == IF Kind[f] = "action" THEN Injected ELSE {}

\* The module of a file, and the crates it refers to by name.
RustOf(p, f, text) == [text |-> text, refs |-> (Uses[text] \ {p}) \cup Enveloped(f)]

RustFile ==
    /\ Reading("rs files") /\ ReadOk
    /\ LET p == Current f == Head(run.left) IN
       /\ gen' = [gen EXCEPT ![p].rs[f] = RustOf(p, f, Content)]
       /\ run' = [run EXCEPT !.left = Tail(@), !.deps = @ \cup Uses[Content]]
    /\ UNCHANGED <<outcome, patches>> /\ NoBuild /\ Keeps

\* Mutant: the module lists are left as they are if there are some.
ModulesOnce ==
    /\ run.phase = "rs files" /\ run.left = <<>>
    /\ gen' = [gen EXCEPT ![Current].mods = IF @ = None THEN run.listed[Current] ELSE @]
    /\ run' = [run EXCEPT !.phase = "rs cargo"]
    /\ UNCHANGED <<outcome, patches>> /\ NoBuild /\ Keeps

\* The mod.rs files and lib.rs name what the index listed.
RustModules ==
    /\ run.phase = "rs files" /\ run.left = <<>>
    /\ gen' = [gen EXCEPT ![Current].mods = run.listed[Current]]
    /\ run' = [run EXCEPT !.phase = "rs cargo"]
    /\ UNCHANGED <<outcome, patches>> /\ NoBuild /\ Keeps

\* Cargo.toml, the last file: a path dependency per package the fields name.
CargoToml ==
    /\ run.phase = "rs cargo"
    /\ LET p == Current IN
       gen' = [gen EXCEPT ![p].cargo = [name |-> p, deps |-> {<<d, d>> : d \in run.deps \ {p}}]]
    /\ run' = [run EXCEPT !.phase = "rust", !.todo = Tail(@), !.deps = {}]
    /\ UNCHANGED <<outcome, patches>> /\ NoBuild /\ Keeps

\* All crates are there: renames, if there are any, then the config.
RustDone ==
    /\ run.phase = "rust" /\ run.todo = <<>>
    /\ run' = [run EXCEPT
                 !.olds = IF run.ask = NoAsk THEN {} ELSE DOMAIN world.renames,
                 !.phase = IF run.ask # NoAsk /\ DOMAIN world.renames # {} THEN "rename"
                           ELSE IF run.ask.config THEN "config" ELSE "end"]
    /\ UNCHANGED <<outcome, Output>> /\ Keeps

-----------------------------------------------------------------------------
(* apply_package_renames                                                   *)

NewOf(d) == IF d \in DOMAIN world.renames THEN world.renames[d] ELSE d

\* Directories first, in the order of the HashMap.
RenameDir(old) ==
    /\ run.phase = "rename" /\ old \in run.olds
    /\ gen' = IF gen[old] = None THEN gen
              ELSE [gen EXCEPT ![NewOf(old)] = gen[old], ![old] = None]
    /\ run' = [run EXCEPT
                 !.olds = IF run.olds = {old} THEN DOMAIN world.renames ELSE @ \ {old},
                 !.phase = IF run.olds = {old} THEN "fix" ELSE @]
    /\ UNCHANGED <<outcome, patches>> /\ NoBuild /\ Keeps

\* An order a HashMap goes through the renames in: each one's rank.
Ranks == Injection(DOMAIN world.renames, 1..Cardinality(DOMAIN world.renames))

\* What becomes of a name when one rename after the other replaces its old name's
\* text.  The text is found in a longer name too: of one that ends in an old name,
\* before or after its own rename, the end alone is replaced.
Rewritten(rank, d) ==
    LET hit(x) == world.tails[x] \cap DOMAIN rank
    IN  CASE d = None -> None
          [] d # None /\ d \notin DOMAIN rank -> IF hit(d) = {} THEN d ELSE None
          [] d # None /\ d \in DOMAIN rank ->
               IF \/ \E q \in hit(d) : rank[q] < rank[d]
                  \/ \E q \in hit(NewOf(d)) : rank[q] > rank[d]
               THEN None ELSE NewOf(d)

\* The package's name and the paths stand between quotes and become the new ones.  The
\* keys of the dependencies and the paths of the sources are found by their ends, and
\* in a source a lifetime counts as the quote of a char: nothing is replaced from the
\* ' of a &'static up to the next '.
Fixed(crate, toml, rs) ==
    [crate EXCEPT
        !.cargo = IF @ = None THEN None
                  ELSE [name |-> NewOf(@.name),
                        deps |-> {<<Rewritten(toml, d[1]), NewOf(d[2])>> : d \in @.deps}],
        !.rs = [f \in File |->
                  IF crate.rs[f] = None THEN None
                  ELSE LET quoted == Quoted[f][crate.rs[f].text]
                       IN  [crate.rs[f] EXCEPT
                              !.refs = (@ \cap quoted) \cup {Rewritten(rs, d) : d \in @ \ quoted}]]]

\* Then the crates that have a new name, and no others.
FixCrate(old) ==
    /\ run.phase = "fix" /\ old \in run.olds
    /\ LET d == NewOf(old) IN
       \E toml \in Ranks, rs \in Ranks :
          gen' = IF gen[d] = None THEN gen ELSE [gen EXCEPT ![d] = Fixed(gen[d], toml, rs)]
    /\ run' = [run EXCEPT
                 !.olds = @ \ {old},
                 !.phase = IF run.olds # {old} THEN @ ELSE IF run.ask.config THEN "config" ELSE "end"]
    /\ UNCHANGED <<outcome, patches>> /\ NoBuild /\ Keeps

\* generate_cargo_config: the names and places the crates were generated with.
WriteConfig ==
    /\ run.phase = "config"
    /\ patches' = patches \cup {<<p, p>> : p \in run.iface}
    /\ run' = [run EXCEPT !.phase = "end"]
    /\ UNCHANGED <<outcome, gen>> /\ NoBuild /\ Keeps

-----------------------------------------------------------------------------
(* C: generate_c_from_package_xml                                          *)

Skipped(p) == gen[p] # None /\ ~run.ask.force

\* A directory that exists is taken as it is, whoever made it.
OpenHeaders ==
    /\ run.phase = "c"
    /\ IF run.todo = <<>>
       THEN run' = [run EXCEPT !.phase = "end"] /\ UNCHANGED gen
       ELSE LET p == Current
                files == Listed(share[run.at[p]][p])
            IN  IF Skipped(p) \/ files = {}
                THEN run' = [run EXCEPT !.todo = Tail(@)] /\ UNCHANGED gen
                ELSE /\ gen' = [gen EXCEPT ![p] = IF @ = None THEN EmptyDir ELSE @]
                     /\ run' = [run EXCEPT !.phase = "c files", !.left = Sorted(files),
                                           !.listed[p] = files]
    /\ UNCHANGED <<outcome, patches>> /\ NoBuild /\ Keeps

HeaderFile ==
    /\ Reading("c files") /\ ReadOk
    /\ gen' = [gen EXCEPT ![Current].c.h[Head(run.left)] = Content]
    /\ run' = [run EXCEPT !.left = Tail(@)]
    /\ UNCHANGED <<outcome, patches>> /\ NoBuild /\ Keeps

\* The umbrella header: the headers just written, and the dependencies' umbrellas.
Umbrella ==
    /\ run.phase = "c files" /\ run.left = <<>>
    /\ LET p == Current IN
       gen' = [gen EXCEPT ![p].c.umbrella =
                 [files |-> run.listed[p], deps |-> DependenciesOf(p) \cap run.iface]]
    /\ run' = [run EXCEPT !.phase = "c", !.todo = Tail(@)]
    /\ UNCHANGED <<outcome, patches>> /\ NoBuild /\ Keeps

-----------------------------------------------------------------------------
(* CMake: resolve-deps, then codegen --args-file per package.              *)

Directs(S) == [p \in S |-> DependenciesOf(p) \cap S]

\* Where queue.insert may put a package: partition_point is defined by the order
\* of a descending queue, and the first queue is ascending.
Positions(queue, p) ==
    LET bigger == {i \in DOMAIN queue : queue[i] > p} IN
    IF \A i \in bigger : \A j \in 1..i : j \in bigger THEN {Cardinality(bigger)}
    ELSE 0..Len(queue)

\* The queues that come of inserting S, one after the other.
Inserted(queue, S) ==
    LET grown[n \in 0..Cardinality(S)] ==
            IF n = 0 THEN {queue}
            ELSE UNION {UNION {{InsertAt(q, i + 1, p) : i \in Positions(q, p)} :
                                 p \in S \ ToSet(q)} : q \in grown[n - 1]}
    IN  grown[Cardinality(S)]

\* in_degree 0: all its dependencies are placed.
Ready(p, placed, directs) == directs[p] \subseteq ToSet(placed)

\* The last of the queue is placed, and its dependents that are ready now come in
\* the HashMap's order.
Popped(x, directs) ==
    IF x.queue = <<>> THEN {x}
    ELSE LET p == Last(x.queue)
             placed == Append(x.placed, p)
             ready == {q \in DOMAIN directs :
                         p \in directs[q] /\ q \notin ToSet(placed) /\ Ready(q, placed, directs)}
         IN  {[queue |-> q, placed |-> placed] : q \in Inserted(Front(x.queue), ready)}

FirstQueue(directs) == Sorted({p \in DOMAIN directs : directs[p] = {}})

\* Kahn's algorithm over the packages' direct dependencies.  Packages on a cycle stay out.
Orders(directs) ==
    LET stage[n \in 0..Cardinality(DOMAIN directs)] ==
            IF n = 0 THEN {[queue |-> FirstQueue(directs), placed |-> <<>>]}
            ELSE UNION {Popped(x, directs) : x \in stage[n - 1]}
    IN  {x.placed : x \in stage[Cardinality(DOMAIN directs)]}

Resolve ==
    /\ world.cmake # {}
    /\ run = Idle /\ counts.runs < MaxRuns
    /\ LET directs == Directs(InterfacePackages) IN
       \E order \in Orders(directs) :
          script' = [order |-> order, directs |-> directs,
                     files |-> [p \in InterfacePackages |-> Listed(At(p))],
                     at |-> [p \in InterfacePackages |-> Place(p)]]
    /\ counts' = [counts EXCEPT !.runs = @ + 1]
    /\ fresh' = TRUE
    /\ outcome' = NoOutcome
    /\ UNCHANGED <<share, world, gen, patches, built, run>>

\* The build that includes the script calls nros codegen once per package.
Build ==
    /\ world.cmake # {} /\ script # None
    /\ run = Idle /\ counts.runs < MaxRuns
    /\ counts' = [counts EXCEPT !.runs = @ + 1]
    /\ run' = [Idle EXCEPT !.phase = "cmake", !.todo = script.order, !.iface = ToSet(script.order),
                  !.at = [p \in Pkg |-> IF p \in DOMAIN script.at THEN script.at[p] ELSE None]]
    /\ outcome' = NoOutcome
    /\ UNCHANGED <<share, world, fresh, Output>>

CodegenPackage ==
    /\ run.phase = "cmake"
    /\ IF run.todo = <<>> THEN Ends("ok")
       ELSE /\ run' = [run EXCEPT !.phase = "cmake files", !.left = Sorted(script.files[Current])]
            /\ UNCHANGED outcome
    /\ UNCHANGED Output /\ Keeps

\* The Rust glue of a C++ header: one module per message type of the file.
Parts(f) ==
    {f} \X (CASE Kind[f] = "msg" -> {"msg"}
              [] Kind[f] = "srv" -> {"request", "response"}
              [] Kind[f] = "action" -> {"goal", "result", "feedback"})

CodegenFile ==
    /\ Reading("cmake files") /\ ReadOk
    /\ LET p == Current f == Head(run.left) IN
       /\ built' = [built EXCEPT ![p].h[f] = Content,
                       ![p].glue = IF "cpp" \in world.cmake THEN @ \cup Parts(f) ELSE @]
       /\ run' = [run EXCEPT !.left = Tail(@)]
    /\ UNCHANGED <<outcome, gen, patches, script>> /\ Keeps

\* The umbrella header, and for C++ the mod.rs of the glue.
CodegenUmbrella ==
    /\ run.phase = "cmake files" /\ run.left = <<>>
    /\ LET p == Current IN
       built' = [built EXCEPT
           ![p].umbrella = [files |-> script.files[p], deps |-> script.directs[p]],
           ![p].mods = IF "cpp" \in world.cmake THEN UNION {Parts(f) : f \in script.files[p]} ELSE @]
    /\ run' = [run EXCEPT !.phase = "cmake", !.todo = Tail(@)]
    /\ UNCHANGED <<outcome, gen, patches, script>> /\ Keeps

-----------------------------------------------------------------------------
Kill ==
    /\ run # Idle /\ counts.kills < MaxKills
    /\ Ends("killed")
    /\ counts' = [counts EXCEPT !.kills = @ + 1]
    /\ UNCHANGED <<share, world, fresh, Output>>

\* Nobody edits in the middle of a run: what such a run finds is covered by a
\* killed one and by the stale list of a script.
Changed ==
    /\ run = Idle
    /\ counts.edits < MaxEdits
    /\ counts' = [counts EXCEPT !.edits = @ + 1]
    /\ fresh' = FALSE
    /\ UNCHANGED <<world, Output, run, outcome>>

\* A developer changes, adds or removes an interface file ...
EditFile(p, f, text) ==
    /\ Found(p) /\ At(p).text[f] # text
    /\ share' = [share EXCEPT ![Place(p)][p].text[f] = text]
    /\ Changed

\* ... or drops or adds a dependency in a package.xml.
EditXml(p, d) ==
    /\ Found(p) /\ At(p).deps # None /\ d # p
    /\ share' = [share EXCEPT ![Place(p)][p].deps = IF d \in @ THEN @ \ {d} ELSE @ \cup {d}]
    /\ Changed

RunStep ==
    \/ NextLanguage \/ ReadFails
    \/ OpenCrate \/ RustFile \/ RustModules \/ CargoToml \/ RustDone
    \/ \E old \in DOMAIN world.renames : RenameDir(old) \/ FixCrate(old)
    \/ WriteConfig
    \/ OpenHeaders \/ HeaderFile \/ Umbrella
    \/ CodegenPackage \/ CodegenFile \/ CodegenUmbrella

BgNext ==
    \/ \E ask \in world.asks : Generate(ask)
    \/ \E p \in world.single : GenerateOne(p)
    \/ Resolve \/ Build
    \/ RunStep \/ Kill
    \/ \E e \in world.edits : EditFile(e[1], e[2], e[3])
    \/ \E e \in world.xmlEdits : EditXml(e[1], e[2])

BgSpec == BgInit /\ [][BgNext]_bgVars

\* No package has a name that packages are renamed to, and no two are renamed alike:
\* apply_package_renames removes what it finds under a new name.
RenamesApart ==
    /\ Pkg \cap NewName = {}
    /\ \A w \in Worlds : \A p, q \in DOMAIN w.renames : w.renames[p] = w.renames[q] => p = q

-----------------------------------------------------------------------------
Did(lang) ==
    outcome.result = "ok" /\ lang \in ToSet(outcome.ask.langs) /\ fresh

FilesOf(p) == Listed(At(p))

\* What the packages' fields and actions name, and all a package needs generated.
NamedBy(p) == UNION {(Uses[At(p).text[f]] \ {p}) \cup Enveloped(f) : f \in FilesOf(p)}

\* A crate cargo can build against its neighbours: the dependency keys are the
\* names of the crates at their paths, and the sources use these keys.
Resolves(d) ==
    /\ gen[d] # None /\ gen[d].cargo # None /\ gen[d].cargo.name = d
    /\ \A dep \in gen[d].cargo.deps :
          /\ gen[dep[2]] # None /\ gen[dep[2]].cargo # None
          /\ gen[dep[2]].cargo.name = dep[1]
    /\ \A f \in gen[d].mods :
          gen[d].rs[f].refs \subseteq {dep[1] : dep \in gen[d].cargo.deps}

\* Packages a renamed crate goes on calling by their old names, for they stand behind
\* a quote: what an action's envelopes name does, and all a file names after an odd
\* number of string constants.
Missed(p) ==
    {d \in NamedBy(p) \cap DOMAIN world.renames :
        \E f \in FilesOf(p) : d \in Quoted[f][At(p).text[f]]}

\* Packages whose names, old or new, end in another renamed package's.
Mangled(p) ==
    {d \in NamedBy(p) : \E x \in {d, NewOf(d)} : (world.tails[x] \ {d}) \cap DOMAIN world.renames # {}}

\* After a Rust generation that returned Ok, with no edit since it began, each package's
\* crate resolves, provided every package.xml names the packages its files name, these
\* are installed, and a rename of a package comes with renames of those that use it:
\* whatever was killed or failed before.  A renamed crate does so only if the text of
\* the renames is found where the names are and nowhere else: what it calls by an old
\* name is not there any more, although lib.rs:300 has these references updated.
CratesResolve ==
    /\ Did("rust")
    /\ \A p \in outcome.iface : NamedBy(p) \subseteq (DependenciesOf(p) \cap {d \in Pkg : Found(d)}) \ {p}
    /\ \A p \in outcome.iface :
          NamedBy(p) \cap DOMAIN world.renames # {} => p \in DOMAIN world.renames
    => \A p \in outcome.iface :
          /\ p \notin DOMAIN world.renames \/ Missed(p) \cup Mangled(p) = {} => Resolves(NewOf(p))
          /\ Missed(p) # {} => ~Resolves(NewOf(p))

\* And it is of the files as they are, of the installation the index gives preference:
\* files that are gone are not in the modules even though their old sources stay.
RustIsCurrent ==
    Did("rust") =>
        \A p \in outcome.iface :
            /\ gen[NewOf(p)].mods = FilesOf(p)
            /\ \A f \in FilesOf(p) : gen[NewOf(p)].rs[f].text = At(p).text[f]

HeadersCurrent(p) ==
    FilesOf(p) # {} =>
        /\ gen[p] # None /\ gen[p].c.umbrella # None
        /\ gen[p].c.umbrella.files = FilesOf(p)
        /\ \A f \in FilesOf(p) : gen[p].c.h[f] = At(p).text[f]
        /\ \A d \in gen[p].c.umbrella.deps : FilesOf(d) # {} => gen[d].c.umbrella # None

\* The C headers of a run that returned Ok, if it was forced or found no directory
\* of its packages, whatever earlier runs left half done.
HeadersAreCurrent ==
    Did("c") /\ (outcome.ask.force \/ outcome.anew) => \A p \in outcome.iface : HeadersCurrent(p)

\* In CMake's build no umbrella header is written before those it includes, and
\* mod.rs names no glue that is not there, in whatever order resolve-deps put them.
HeadersFirst ==
    \A p \in Pkg : built[p].umbrella # None =>
        /\ \A d \in built[p].umbrella.deps : built[d].umbrella # None
        /\ \A f \in built[p].umbrella.files : built[p].h[f] # None
        /\ built[p].mods # None => built[p].mods \subseteq built[p].glue

\* Generated bindings are of the files as they are, and what they include is there.
BindingsAreCurrent == RustIsCurrent /\ HeadersAreCurrent /\ HeadersFirst

=============================================================================
