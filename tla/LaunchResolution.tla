-------------------------- MODULE LaunchResolution --------------------------
(***************************************************************************)
(* Which launch file a command uses for a package directory, and the       *)
(* launch description made up for a package that has none                  *)
(* (orchestration/launch_synth.rs, with the two commands that act on the   *)
(* chosen: nros plan and nros codegen-system).                             *)
(*                                                                         *)
(* Between two commands the user adds and removes launch files and edits   *)
(* Cargo.toml and CMakeLists.txt.                                          *)
(***************************************************************************)
EXTENDS Naturals, Sequences, FiniteSets

CONSTANTS
    Names,       \* names of packages, binaries and of launch files (n.launch.xml)
    DirName,     \* the directory's own name
    System,      \* "system", whose launch file is a convention
    Manifests,   \* what Cargo.toml may be: [ok, name, bins], or {} for none
    CMakes,      \* what CMakeLists.txt may be: [project, execs], or {} for none
    MaxSteps     \* bound: edits and commands together

ASSUME ResolutionAssumption ==
    /\ MaxSteps \in Nat /\ System \in Names /\ DirName \in Names

VARIABLES
    cargo,   \* set of at most one manifest
    cmake,   \* set of at most one
    launch,  \* names of the *.launch.xml files under launch/
    deploy,  \* the `launch = ` of the deploy target codegen-system is given
    query,   \* the arguments of the last command: [verb, file, exec]
    chosen,  \* its answer: [is |-> "file" | "synth" | "error" | "none", ...]
    steps

lrVars == <<cargo, cmake, launch, deploy, query, chosen, steps>>

LaunchFile(f) == [is |-> "file", file |-> f]
Synth(pkg, exec) == [is |-> "synth", pkg |-> pkg, exec |-> exec]
Error(why) == [is |-> "error", why |-> why]
NotAsked == [is |-> "none"]

(* Cargo.toml's name, else CMakeLists.txt's project; a Cargo.toml that     *)
(* cannot be read ends the search, and the caller takes the directory's.   *)
DiscoverPkgName ==
    IF \E c \in cargo : ~c.ok THEN {}
    ELSE LET named == UNION {c.name : c \in cargo}
         IN  IF named # {} THEN named ELSE UNION {m.project : m \in cmake}

PkgName == IF DiscoverPkgName = {} THEN DirName ELSE CHOOSE n \in DiscoverPkgName : TRUE

OnlyOne(execs, why) == IF Len(execs) = 1 THEN [ok |-> TRUE, exec |-> execs[1]]
                       ELSE [ok |-> FALSE, why |-> why]

(* The single [[bin]], the package's name when there is none; without a    *)
(* Cargo.toml the single add_executable.                                   *)
DiscoverExecTarget ==
    CASE \E c \in cargo : ~c.ok -> [ok |-> FALSE, why |-> "manifest"]
      [] \E c \in cargo : c.ok ->
            LET bins == (CHOOSE c \in cargo : TRUE).bins
            IN  IF bins = <<>> THEN [ok |-> TRUE, exec |-> PkgName]
                ELSE OnlyOne(bins, "ambiguous exec")
      [] OTHER ->
            LET execs == (CHOOSE m \in cmake : TRUE).execs
            IN  IF execs = <<>> THEN [ok |-> FALSE, why |-> "unknown exec"]
                ELSE OnlyOne(execs, "ambiguous exec")

IsSelfBringupEligible == cargo \cup cmake # {}

SynthOr(exec) ==
    IF ~IsSelfBringupEligible THEN Error("bringup without launch")
    ELSE IF exec # {} THEN Synth(PkgName, CHOOSE e \in exec : TRUE)
    ELSE IF DiscoverExecTarget.ok THEN Synth(PkgName, DiscoverExecTarget.exec)
    ELSE Error(DiscoverExecTarget.why)

(* resolve_launch's six steps. *)
ResolveTakingFirst(file, exec) ==
    IF file # {} THEN (IF file \subseteq launch THEN LaunchFile(CHOOSE f \in file : TRUE)
                       ELSE Error("file"))
    ELSE IF PkgName \in launch THEN LaunchFile(PkgName)
    ELSE IF System \in launch THEN LaunchFile(System)
    ELSE IF launch = {} THEN SynthOr(exec)
    ELSE LaunchFile(CHOOSE f \in launch : TRUE)

ResolveLaunch(file, exec) ==
    IF file # {} THEN (IF file \subseteq launch THEN LaunchFile(CHOOSE f \in file : TRUE)
                       ELSE Error("file"))
    ELSE IF PkgName \in launch THEN LaunchFile(PkgName)
    ELSE IF System \in launch THEN LaunchFile(System)
    ELSE CASE Cardinality(launch) = 0 -> SynthOr(exec)
           [] Cardinality(launch) = 1 -> LaunchFile(CHOOSE f \in launch : TRUE)
           [] OTHER -> Error("ambiguous launch")

Decide(verb, file, exec) ==
    /\ steps < MaxSteps /\ steps' = steps + 1
    /\ query' = [verb |-> verb, file |-> file, exec |-> exec]
    /\ UNCHANGED <<cargo, cmake, launch, deploy>>

(* nros plan on a directory. *)
Plan(file, exec) ==
    /\ Decide("plan", file, exec)
    /\ chosen' = ResolveLaunch(file, exec)

(* nros codegen-system: the target's own launch file comes before the      *)
(* conventions, --file before both.                                        *)
CodegenSystem(file, exec) ==
    LET effective == IF file # {} THEN file ELSE deploy
    IN  /\ Decide("codegen", effective, exec)
        /\ chosen' = ResolveLaunch(effective, exec)

Edit == steps < MaxSteps /\ steps' = steps + 1 /\ UNCHANGED <<query, chosen, deploy>>

ToggleLaunch(f) ==
    /\ Edit
    /\ launch' = IF f \in launch THEN launch \ {f} ELSE launch \cup {f}
    /\ UNCHANGED <<cargo, cmake>>

EditManifest(c) == Edit /\ cargo' = c /\ UNCHANGED <<cmake, launch>>
EditCMake(m) == Edit /\ cmake' = m /\ UNCHANGED <<cargo, launch>>

LrInit ==
    /\ cargo \in Manifests /\ cmake \in CMakes
    /\ launch \in {{}, {DirName}} /\ deploy \in {{}, {System}}
    /\ query = [verb |-> "none", file |-> {}, exec |-> {}] /\ chosen = NotAsked
    /\ steps = 0

LrNext ==
    \/ \E file \in {{}} \cup {{n} : n \in Names}, exec \in {{}, {System}} :
          Plan(file, exec) \/ CodegenSystem(file, exec)
    \/ \E f \in Names : ToggleLaunch(f)
    \/ \E c \in Manifests : EditManifest(c)
    \/ \E m \in CMakes : EditCMake(m)

LrSpec == LrInit /\ [][LrNext]_lrVars

(* Two commands without --file that take different files, while the first  *)
(* file is still there: the second file has a conventional name, the       *)
(* package's or `system`.  A package never changes its launch file because *)
(* some other file was put next to it; it gets an error instead.           *)
NoSilentSwitch ==
    [][chosen.is = "file" /\ chosen'.is = "file" /\ query.file = {} /\ query'.file = {} =>
          \/ chosen'.file = chosen.file
          \/ chosen.file \notin launch
          \/ chosen'.file \in {PkgName, System}]_lrVars

=============================================================================
