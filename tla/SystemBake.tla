----------------------------- MODULE SystemBake -----------------------------
(***************************************************************************)
(* nros codegen-system (cmd/codegen_system.rs): load the Cargo workspace   *)
(* (NrosConfig::from_cargo_metadata), find the bringup package and its     *)
(* launch file, write the bake tree that a vendor's build compiles, and    *)
(* the vendor's own files beside it; and the entry function baked.         *)
(*                                                                         *)
(* A content is what its file is rendered from.  Commands given the same   *)
(* --out share its files; nothing is locked.                               *)
(***************************************************************************)
EXTENDS Naturals, Sequences, SequencesExt, FiniteSets

CONSTANTS
    Run,         \* invocations of the command with one --out
    Workspaces,  \* what the user's workspace may be
    Requests,    \* the arguments given: [hint, target, file, mode]
    Ident,       \* of a component's name: the C identifier c_ident makes of it
    System,      \* "system", whose launch file is a convention
    Missing,     \* absent
    Torn,        \* a file that was created and has not been written
    ModuleParts, \* the files of a PX4 module, in order; the code has four
    Habits       \* sets of events that may happen besides one command after the other

ASSUME BakeConstants ==
    /\ Habits \subseteq SUBSET {"edit", "stop", "stuck", "overlap"}
    /\ \A w \in Workspaces : w.default # Missing => w.default \in DOMAIN w.member \cup DOMAIN w.dir
    /\ \A req \in Requests : req.mode \in {"none", "pio", "px4"}
    /\ ModuleParts \in Seq(ToSet(ModuleParts)) /\ Missing # Torn

VARIABLES
    ws,      \* the user's workspace
    disk,    \* content of each file under --out
    doing,   \* where a command is
    job,     \* what it has read
    todo,    \* the files it has yet to come to
    alone,   \* the command at work, while no other started and nothing was edited
    baked,   \* the request whose bake the files should be, Missing when nobody can say
    events   \* what has happened so far

command == <<doing, job, todo>>
sbVars == <<ws, disk, command, alone, baked, events>>

-----------------------------------------------------------------------------
(* The workspace: [old, default, member, dir], where old says that it has  *)
(* an nros.toml, member[n] is the Cargo package n with [role, nodes,       *)
(* deploy, system, launch], and dir[n] a directory with package.xml and    *)
(* system.toml but no Cargo.toml: [system, launch].  A system's domain     *)
(* stands for its whole [system] table: name, rmw, domain and locator.     *)

\* A table of both spellings or of two shapes fails the whole load.
Loads(w) == ~w.old /\ \A n \in DOMAIN w.member : w.member[n].role # "two shapes"

ComponentPackages(w) == {n \in DOMAIN w.member : w.member[n].role # "none"}

WithSystemToml(w) ==
    {n \in DOMAIN w.member : w.member[n].role = "none" /\ w.member[n].system # Missing}

\* The members are loaded first; a directory of the same name is passed over.
DeclaredSystems(w) ==
    [n \in WithSystemToml(w) \cup DOMAIN w.dir |->
        IF n \in WithSystemToml(w) THEN w.member[n].system ELSE w.dir[n].system]

Wired(w) ==
    UNION {{c.pkg : c \in ToSet(DeclaredSystems(w)[n].comps)} : n \in DOMAIN DeclaredSystems(w)}

SelfBringups(w) ==
    {n \in ComponentPackages(w) \ (Wired(w) \cup DOMAIN DeclaredSystems(w)) :
        w.member[n].role # "entry" /\ w.member[n].deploy # <<>>}

\* synthesise_self_bringup: the header is that of the first deploy block.
Synthesised(n, m) ==
    [domain |-> IF m.deploy[1].domain # Missing THEN m.deploy[1].domain ELSE 0,
     comps |-> [i \in DOMAIN m.nodes |->
                   [pkg |-> n, name |-> IF m.nodes[i].name # Missing THEN m.nodes[i].name
                                        ELSE m.nodes[i].key]],
     deploy |-> [i \in DOMAIN m.deploy |-> [target |-> m.deploy[i].target, launch |-> {}]]]

BringupPackages(w) ==
    [n \in DOMAIN DeclaredSystems(w) \cup SelfBringups(w) |->
        IF n \in DOMAIN DeclaredSystems(w) THEN DeclaredSystems(w)[n] ELSE Synthesised(n, w.member[n])]

\* Mutant: default_system is taken for a name that is not found.
ResolveOrDefault(w, hint) ==
    LET all == DOMAIN BringupPackages(w)
    IN  IF hint \in all THEN {hint} ELSE {w.default} \cap all

ResolveBringup(w, hint) ==
    LET name == IF hint = Missing THEN w.default ELSE hint
    IN  {name} \cap DOMAIN BringupPackages(w)

-----------------------------------------------------------------------------
\* What --bringup or default_system may name: packages and directories there
\* are, and systems whose components are told apart by their C identifiers,
\* which name the modules and hooks.  No code checks the latter.
ASSUME WorkspaceConstants ==
    \A w \in Workspaces :
        /\ \A n \in DOMAIN w.member : w.member[n] # Missing
        /\ \A n \in DOMAIN w.dir : w.dir[n] # Missing
        /\ \A n \in DOMAIN BringupPackages(w) :
              LET comps == BringupPackages(w)[n].comps
              IN  /\ comps \in Seq(ToSet(comps))
                  /\ \A c \in ToSet(comps) :
                        /\ c # Missing /\ c.name \in DOMAIN Ident /\ Ident[c.name] # Missing
                        /\ \A d \in ToSet(comps) : Ident[c.name] = Ident[d.name] => c = d

HasManifest(w, n) == n \in WithSystemToml(w) \cup SelfBringups(w)

LaunchFiles(w, n) ==
    IF n \notin DOMAIN BringupPackages(w) THEN {}
    ELSE IF HasManifest(w, n) THEN w.member[n].launch ELSE w.dir[n].launch

DeployLaunch(s, target) ==
    UNION {s.deploy[i].launch : i \in {j \in DOMAIN s.deploy : s.deploy[j].target = target}}

InPackage(w, n) ==
    INSTANCE LaunchResolution WITH
        Names <- LaunchFiles(w, n) \cup {n, System}, DirName <- n, Manifests <- {},
        CMakes <- {}, MaxSteps <- 0, cmake <- {}, launch <- LaunchFiles(w, n), deploy <- {},
        cargo <- IF HasManifest(w, n) THEN {[ok |-> TRUE, name |-> {n}, bins |-> <<>>]} ELSE {},
        query <- Missing, chosen <- Missing, steps <- 0

ResolvedLaunch(w, n, req) ==
    InPackage(w, n)!ResolveLaunch(
        IF req.file # {} THEN req.file
        ELSE DeployLaunch(BringupPackages(w)[n], req.target), {})

\* What the command has read of the workspace when it begins to write.
JobOf(w, n, req) ==
    LET launch == ResolvedLaunch(w, n, req)
        system == BringupPackages(w)[n]
    IN  [req |-> req, name |-> n, target |-> req.target, mode |-> req.mode, system |-> system,
         rust |-> {c.pkg : c \in ToSet(system.comps)} \cap ComponentPackages(w),
         launch |-> IF launch.is = "file" THEN {launch.file} ELSE {}]

-----------------------------------------------------------------------------
PlainNames ==
    {"system_config.h", "system_main.c", "Cargo.toml", "nros-plan.json",
     "library.json", "px4 nros-plan.json", "vendor_hint.json"}

BakeFile ==
    ({Missing} \X PlainNames)
        \cup ({Ident[c] : c \in DOMAIN Ident} \X ToSet(ModuleParts))

Config == <<Missing, "system_config.h">>
Main == <<Missing, "system_main.c">>
Stub == <<Missing, "Cargo.toml">>

\* Files in the order they are come to; those of a module with its component.
PlainFiles(names) ==
    [i \in DOMAIN names |-> [file |-> <<Missing, names[i]>>, of |-> Missing, text |-> Missing]]

ModuleOf(c) ==
    [i \in DOMAIN ModuleParts |->
        [file |-> <<Ident[c.name], ModuleParts[i]>>, of |-> c, text |-> Missing]]

AheadOfVendor(j) ==
    CASE j.mode = "none" -> <<>>
      [] j.mode = "pio" -> PlainFiles(<<"library.json", "vendor_hint.json">>)
      [] j.mode = "px4" ->
            FlattenSeq([i \in DOMAIN j.system.comps |-> ModuleOf(j.system.comps[i])])
                \o PlainFiles(<<"px4 nros-plan.json", "vendor_hint.json">>)

BakeFiles(j) ==
    PlainFiles(<<"system_config.h", "system_main.c", "Cargo.toml", "nros-plan.json">>)
        \o AheadOfVendor(j)

-----------------------------------------------------------------------------
ConfigHeader(j) == [domain |-> j.system.domain, comps |-> j.system.comps]

\* The hooks the entry function calls, in this order.
MainC(j) == [i \in DOMAIN j.system.comps |-> Ident[j.system.comps[i].name]]

\* The launch file used; else the first that any deploy block names; else the
\* conventional one, if it is there by now.
PlanJson(j, used, rust, target, w) ==
    LET named == {i \in DOMAIN j.system.deploy : j.system.deploy[i].launch # {}}
        first == CHOOSE i \in named : \A k \in named : i <= k
    IN  [bringup |-> j.name, header |-> ConfigHeader(j), target |-> target,
         rust |-> {i \in DOMAIN j.system.comps : j.system.comps[i].pkg \in rust},
         launch |-> IF used # {} THEN used
                    ELSE IF named # {} THEN j.system.deploy[first].launch
                    ELSE {System} \cap LaunchFiles(w, j.name)]

\* Mutant: what a hook returns is not looked at.
CallAll(main, rc) == [called |-> main, spins |-> TRUE]

\* nros_system_main: the hooks it calls when each c returns rc[c], and whether
\* it comes to spin.
SystemMain(main, rc) ==
    LET failing == {i \in DOMAIN main : rc[main[i]] # 0}
        first == CHOOSE i \in failing : \A k \in failing : i <= k
    IN  [called |-> IF failing = {} THEN main ELSE SubSeq(main, 1, first),
         spins |-> failing = {}]

VendorHint(j) ==
    [mode |-> j.mode, bringup |-> j.name, system |-> j.system.domain,
     comps |-> {c.name : c \in ToSet(j.system.comps)}]

\* emit_px4: of a module's files only Kconfig says which bringup it comes of.
ModuleFile(j, step) ==
    IF step.file[2] = "Kconfig" THEN [of |-> step.of, bringup |-> j.name] ELSE step.of

Rendered(j, step, w) ==
    CASE step.of # Missing -> ModuleFile(j, step)
      [] step.file = Config -> ConfigHeader(j)
      [] step.file = Main -> MainC(j)
      [] step.file = Stub -> IF j.rust = {} THEN Missing ELSE j.rust
      [] step.file[2] = "nros-plan.json" -> PlanJson(j, j.launch, j.rust, j.target, w)
      [] step.file[2] = "px4 nros-plan.json" -> PlanJson(j, {}, {}, "px4", w)
      [] step.file[2] = "library.json" -> [bringup |-> j.name, system |-> j.system.domain]
      [] step.file[2] = "vendor_hint.json" -> VendorHint(j)

-----------------------------------------------------------------------------
SbInit ==
    /\ ws \in Workspaces
    /\ disk = [f \in BakeFile |-> Missing]
    /\ doing = [r \in Run |-> "idle"]
    /\ job = [r \in Run |-> Missing]
    /\ todo = [r \in Run |-> <<>>]
    /\ alone = {} /\ baked = Missing /\ events = {}

\* A bound: all but edits happen once.
Happens(new) ==
    /\ events' = events \cup new
    /\ new \cap events \subseteq {"edit"}
    /\ new # {} => \E h \in Habits : events' \subseteq h

Quiet == \A r \in Run : doing[r] = "idle"

\* Everything the files depend on: the workspace is that of now.
Start(r, req) ==
    /\ doing[r] = "idle" /\ Loads(ws)
    /\ Happens(IF Quiet THEN {} ELSE {"overlap"})
    /\ \E n \in ResolveBringup(ws, req.hint) :
          /\ ResolvedLaunch(ws, n, req).is # "error"
          /\ job' = [job EXCEPT ![r] = JobOf(ws, n, req)]
          /\ todo' = [todo EXCEPT ![r] = BakeFiles(JobOf(ws, n, req))]
    /\ doing' = [doing EXCEPT ![r] = "next"]
    /\ alone' = IF Quiet THEN {r} ELSE {}
    /\ baked' = IF baked = req THEN baked ELSE Missing
    /\ UNCHANGED <<ws, disk>>

Goes(r, step) == doing' = [doing EXCEPT ![r] = step] /\ UNCHANGED <<ws, job, alone, baked>>

Wanted(r) == Rendered(job[r], Head(todo[r]), ws)

\* Cargo.toml of a system without a Rust package is removed, if it can be.
RemoveStub(j, step) == step.file = Stub /\ j.rust = {}

\* write_if_changed, in two steps: BakeFile::create and write_all.
Skip(r) ==
    /\ doing[r] = "next" /\ todo[r] # <<>>
    /\ disk[Head(todo[r]).file] = Wanted(r)
    /\ todo' = [todo EXCEPT ![r] = Tail(@)]
    /\ Goes(r, "next")
    /\ UNCHANGED <<disk, events>>

\* Mutant: a file that is there is left as it is.
CreateMissing(r) ==
    /\ doing[r] = "next" /\ todo[r] # <<>>
    /\ ~RemoveStub(job[r], Head(todo[r]))
    /\ disk' = [disk EXCEPT ![Head(todo[r]).file] = IF @ = Missing THEN Torn ELSE @]
    /\ IF disk[Head(todo[r]).file] = Missing
       THEN Goes(r, "write") /\ todo' = [todo EXCEPT ![r][1].text = Wanted(r)]
       ELSE Goes(r, "next") /\ todo' = [todo EXCEPT ![r] = Tail(@)]
    /\ UNCHANGED events

Create(r) ==
    /\ doing[r] = "next" /\ todo[r] # <<>>
    /\ ~RemoveStub(job[r], Head(todo[r]))
    /\ disk[Head(todo[r]).file] # Wanted(r)
    /\ disk' = [disk EXCEPT ![Head(todo[r]).file] = Torn]
    /\ todo' = [todo EXCEPT ![r][1].text = Wanted(r)]
    /\ Goes(r, "write")
    /\ UNCHANGED events

Write(r) ==
    /\ doing[r] = "write"
    /\ disk' = [disk EXCEPT ![Head(todo[r]).file] = Head(todo[r]).text]
    /\ todo' = [todo EXCEPT ![r] = Tail(@)]
    /\ Goes(r, "next")
    /\ UNCHANGED events

RemoveStale(r) ==
    /\ doing[r] = "next" /\ todo[r] # <<>>
    /\ RemoveStub(job[r], Head(todo[r])) /\ disk[Stub] # Missing
    /\ \/ disk' = [disk EXCEPT ![Stub] = Missing] /\ UNCHANGED events
       \/ Happens({"stuck"}) /\ UNCHANGED disk
    /\ todo' = [todo EXCEPT ![r] = Tail(@)]
    /\ Goes(r, "next")

\* An error of create or write, or a kill.
Stop(r) ==
    /\ doing[r] # "idle" /\ Happens({"stop"})
    /\ doing' = [doing EXCEPT ![r] = "idle"]
    /\ todo' = [todo EXCEPT ![r] = <<>>]
    /\ job' = [job EXCEPT ![r] = Missing]
    /\ alone' = alone \ {r}
    /\ UNCHANGED <<ws, disk, baked>>

Finish(r) ==
    /\ doing[r] = "next" /\ todo[r] = <<>>
    /\ doing' = [doing EXCEPT ![r] = "idle"]
    /\ job' = [job EXCEPT ![r] = Missing]
    /\ baked' = IF r \in alone THEN job[r].req ELSE baked
    /\ alone' = alone \ {r}
    /\ UNCHANGED <<ws, disk, todo, events>>

Edit ==
    /\ Happens({"edit"})
    /\ ws' \in Workspaces \ {ws}
    /\ alone' = {} /\ baked' = Missing
    /\ UNCHANGED <<disk, command>>

SbNext ==
    \/ \E r \in Run, req \in Requests : Start(r, req)
    \/ \E r \in Run : Skip(r) \/ Create(r) \/ Write(r) \/ RemoveStale(r) \/ Stop(r) \/ Finish(r)
    \/ Edit

SbSpec == SbInit /\ [][SbNext]_sbVars

-----------------------------------------------------------------------------
(* Once the command has ended Ok and until the workspace is edited or      *)
(* another request is given, the files are what that request generates     *)
(* from the workspace: after any history of other systems, modes, kills    *)
(* and errors, and all the while the same command runs again, so that a    *)
(* build may read them meanwhile.  Only a Cargo.toml that could not be     *)
(* removed is left.                                                        *)
BakeStaysCurrent ==
    baked # Missing =>
        \A n \in ResolveBringup(ws, baked.hint) :
            LET j == JobOf(ws, n, baked)
            IN  \A step \in ToSet(BakeFiles(j)) :
                    \/ disk[step.file] = Rendered(j, step, ws)
                    \/ RemoveStub(j, step) /\ "stuck" \in events

(* Flashed from such a bake, the program spins only when the hook of every *)
(* component that the header counts and the plan lists was called and      *)
(* returned 0, each in its place.                                          *)
SpinsWithAll ==
    baked # Missing =>
        \A rc \in [{Ident[c] : c \in DOMAIN Ident} -> {0, 1}] :
            LET ran == SystemMain(disk[Main], rc)
                comps == disk[Config].comps
            IN  ran.spins =>
                    /\ disk[<<Missing, "nros-plan.json">>].header.comps = comps
                    /\ Len(ran.called) = Len(comps)
                    /\ \A i \in DOMAIN comps :
                          /\ ran.called[i] = Ident[comps[i].name]
                          /\ rc[ran.called[i]] = 0

\* The files under --out are of today's request, and the program made of them spins with all.
BakesAreTrue == BakeStaysCurrent /\ SpinsWithAll

\* All there is of a name.
OwnFiles(w, n) ==
    <<IF n \in DOMAIN w.member THEN w.member[n] ELSE Missing,
      IF n \in DOMAIN w.dir THEN w.dir[n] ELSE Missing>>

(* An edit may make a request fail, but never makes it mean another        *)
(* system: what --bringup, or default_system without it, names stays what  *)
(* it was as long as the package and directory of that very name stay as   *)
(* they are, whatever else is put into the workspace.                      *)
OwnFilesDecide ==
    [][ws' # ws =>
        \A hint \in {req.hint : req \in Requests} :
        \A n \in ResolveBringup(ws, hint), m \in ResolveBringup(ws', hint) :
            \/ n = m /\ BringupPackages(ws)[n] = BringupPackages(ws')[m]
            \/ hint = Missing /\ ws.default # ws'.default
            \/ LET named == IF hint = Missing THEN ws.default ELSE hint
               IN  OwnFiles(ws, named) # OwnFiles(ws', named)]_ws

=============================================================================
