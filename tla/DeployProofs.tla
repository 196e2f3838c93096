--------------------------- MODULE DeployProofs ---------------------------
(***************************************************************************)
(* Theorems about three of the modules the run deploy composes: the deploy *)
(* runner, the detached launcher, and the commands that give a workspace   *)
(* its shape.                                                              *)
(*                                                                         *)
(* Deploy.  For any versions of the configuration, any number of files and *)
(* whatever fails or is killed: a deploy that returned Ok has packaged     *)
(* what the present configuration and sources make.  What carries the      *)
(* proof is what the stamp stands for (Stamps): it names the crate that is *)
(* there, a configuration that no longer comes back, or older metadata.    *)
(*                                                                         *)
(* Detached launcher.  For any number of detached launches, stops,         *)
(* components and pids: what a launch that returned Ok left running can be *)
(* stopped, and --stop signals no other program, as long as users keep to  *)
(* one command at a time (and, for the second, components do not crash and *)
(* files can be written).  Neither property is inductive.  Both rest on    *)
(* who is under way (Turns), on whose components the pids are (PidsKept,   *)
(* Dead, Alive), and on what the pidfile means at each step: FileWhile for *)
(* the launches, Found for the stops, Unsignalled for what a stop has      *)
(* still to do.                                                            *)
(*                                                                         *)
(* Layout.  For any packages, nodes, bringups, targets and workspaces, any *)
(* number of commands and of kills: a migration loses no node, and what    *)
(* migrate, new system and new --deploy answer Ok for is done.  A package  *)
(* whose manifests have begun to go has been moved (Kept); from the step a *)
(* migration is at follows which packages are over (Progress); and while a *)
(* command runs it finds what its earlier steps left (MigrateFacts,        *)
(* SystemFacts, DeployFacts), whatever earlier cuts spoilt (Spoilt).       *)
(***************************************************************************)
EXTENDS Deploy, DetachedLaunch, WorkspaceLayout, TLAPS

-----------------------------------------------------------------------------
(* The deploy runner.                                                      *)

Fully(c, m) == [cfg |-> c, meta |-> m, stamps |-> 2]
FileOf(c, m) == [plan |-> Fully(c, m), board |-> 0]

\* The crate of a configuration and metadata, and nothing else in its directory.
CrateOf(c, m) == [f \in File |-> IF f > LastFile(c) THEN None ELSE FileOf(c, m)]

\* The metadata the next deploy plans with.
Due == IF meta = None THEN source ELSE meta

FullPlan == Fully(cfg, Due)
FileNow == FileOf(cfg, Due)
CrateNow == CrateOf(cfg, Due)
Built == [crate |-> CrateNow, source |-> source]

Planned == {"domains", "bridges", "emit", "build", "load", "write", "stamp", "cargo", "package"}
Complete == {"emit", "build", "load", "write", "stamp", "cargo", "package"}
Tree == [File -> Rendered \cup {None}]
Library == [crate : Tree, source : Version]

DpTypes ==
    /\ cfg \in Version /\ source \in Version /\ board \in Version
    /\ meta \in Version \cup {None}
    /\ plan \in PlanFile \cup {None}
    /\ crate \in Tree
    /\ stamp \in PlanFile \cup {None}
    /\ lib \in Library \cup {None} /\ image \in Library \cup {None}
    /\ doing \in [Run -> DeploySteps]
    /\ seen \in [Run -> Version \cup {None}]
    /\ key \in [Run -> PlanFile \cup {None}]
    /\ gen \in [Run -> Rendered \cup {None}]
    /\ next \in [Run -> File]
    /\ last \in {None, "ok", "err"}
    /\ events \subseteq Events

\* What a step reads has been read or written before.
Arguments ==
    \A r \in Run :
        /\ doing[r] \in {"metadata", "plan"} => seen[r] \in Version
        /\ doing[r] \notin {"new", "metadata"} => meta \in Version
        /\ doing[r] \in Planned => plan \in PlanFile
        /\ doing[r] = "write" => gen[r] \in Rendered

\* Metadata is never ahead of the sources, and behind them only after an edit.
MetadataKnown ==
    /\ meta # None => meta <= source
    /\ "stale" \notin events => meta \in {None, source}

-----------------------------------------------------------------------------
\* The condition of ImageIsCurrent.
NothingHidden ==
    /\ "board" \notin events /\ "drop" \notin events /\ "overlap" \notin events
    /\ "revert" \in events => "fail" \notin events /\ "source" \notin events

OneDeploy == \A r, t \in Run : doing[r] # "new" /\ doing[t] # "new" => r = t

\* The plan on disk is the present configuration's, as far as the deploy has come.
Plans(r) ==
    /\ doing[r] # "new" => seen[r] = cfg
    /\ doing[r] = "domains" => plan = [cfg |-> cfg, meta |-> Due, stamps |-> 0]
    /\ doing[r] = "bridges" => plan = [cfg |-> cfg, meta |-> Due, stamps |-> 1]
    /\ doing[r] \in Complete => plan = FullPlan

\* plan_bytes are this plan's, or the deploy emits the source.
Keys(r) ==
    /\ doing[r] \notin {"load", "write", "stamp", "cargo", "package"} => key[r] = None
    /\ doing[r] \in {"load", "write", "package"} =>
          key[r] = FullPlan \/ (key[r] = None /\ "source" \in events)
    /\ doing[r] \in {"stamp", "cargo"} => key[r] = FullPlan

\* The files so far are this plan's.
Writes(r) ==
    /\ doing[r] # "write" => next[r] = 1
    /\ doing[r] = "write" =>
          /\ gen[r] = FileNow
          /\ next[r] <= LastFile(cfg)
          /\ \A f \in File : f < next[r] => crate[f] = FileNow

Builds(r) ==
    /\ doing[r] \in {"stamp", "cargo", "package"} => crate = CrateNow
    /\ doing[r] \in {"cargo", "package"} /\ key[r] # None => stamp = FullPlan
    /\ doing[r] = "package" /\ key[r] # None /\ cfg \notin Profiled => lib = Built

\* A file that the present configuration does not have was never written.
NothingExtra == \A f \in File : f > LastFile(cfg) => crate[f] = None

\* The stamp of the present configuration stands for its crate; the others' do so
\* between deploys, or are of configurations that do not come back.
Stamps ==
    /\ stamp = FullPlan => crate = CrateNow
    /\ "revert" \notin events => \A c, m \in Version : stamp = Fully(c, m) => c <= cfg
    /\ \A c, m \in Version : stamp = Fully(c, m) => m <= Due
    /\ Quiet /\ "fail" \notin events /\ "source" \notin events =>
          \A c, m \in Version : stamp = Fully(c, m) => crate = CrateOf(c, m)

Packaged == last = "ok" => meta # None /\ (cfg \notin Profiled => image = Built)

DpState ==
    /\ board = 0
    /\ OneDeploy
    /\ \A r \in Run : Plans(r) /\ Keys(r) /\ Writes(r) /\ Builds(r)
    /\ NothingExtra
    /\ Stamps
    /\ Packaged

DpInv == DpTypes /\ Arguments /\ MetadataKnown /\ (NothingHidden => DpState)

-----------------------------------------------------------------------------
(* Types.                                                                   *)

LEMMA Numbers ==
    /\ MaxVersion \in Nat /\ 0 \in Version
    /\ Files \in Nat /\ Files >= 2 /\ 1 \in File
    /\ \A c \in Version : c \in Nat
<1>1. MaxVersion \in Nat /\ Files \in Nat \ {0, 1}
  BY DeployConstants
<1> QED
  BY <1>1 DEF Version, File

\* None is no file of any kind.
LEMMA NoneIsNothing ==
    None \notin Version /\ None \notin PlanFile /\ None \notin Rendered /\ None # "ok"
BY DeployConstants

LEMMA FilesOfVersions ==
    ASSUME NEW c \in Version, NEW m \in Version
    PROVE  /\ Fully(c, m) \in PlanFile /\ FileOf(c, m) \in Rendered
           /\ CrateOf(c, m) \in Tree
           /\ LastFile(c) \in File
<1>1. Fully(c, m) \in PlanFile
  BY DEF Fully, PlanFile
<1>2. FileOf(c, m) \in Rendered
  BY <1>1, Numbers DEF FileOf, Rendered
<1>3. LastFile(c) \in File
  BY Numbers DEF LastFile, File
<1> QED
  BY <1>1, <1>2, <1>3 DEF CrateOf, Tree

LEMMA ReturnsTypes ==
    ASSUME DpTypes, NEW r \in Run, NEW result \in {"ok", "err"}, Returns(r, result)
    PROVE  /\ doing' \in [Run -> DeploySteps]
           /\ seen' \in [Run -> Version \cup {None}]
           /\ key' \in [Run -> PlanFile \cup {None}]
           /\ gen' \in [Run -> Rendered \cup {None}]
           /\ next' \in [Run -> File]
           /\ last' \in {None, "ok", "err"}
           /\ doing'[r] = "new"
           /\ \A t \in Run : t # r => doing'[t] = doing[t] /\ seen'[t] = seen[t] /\ gen'[t] = gen[t]
<1>1. doing' \in [Run -> DeploySteps]
  BY DEF DpTypes, Returns, To, DeploySteps
<1>2. next' \in [Run -> File]
  BY Numbers DEF DpTypes, Returns
<1> QED
  BY <1>1, <1>2 DEF DpTypes, Returns, To

LEMMA NowTypes ==
    ASSUME DpTypes
    PROVE  /\ cfg \in Version /\ Due \in Version
           /\ FullPlan \in PlanFile /\ FullPlan # None
           /\ FileNow \in Rendered /\ CrateNow \in Tree /\ Built \in Library
           /\ LastFile(cfg) \in File
<1>1. cfg \in Version /\ Due \in Version /\ source \in Version
  BY DEF DpTypes, Due
<1> QED
  BY <1>1, FilesOfVersions, NoneIsNothing DEF FullPlan, FileNow, CrateNow, Built, Library

\* What is to be built changes with the inputs only.
LEMMA NowStays ==
    ASSUME cfg' = cfg, source' = source, Due' = Due
    PROVE  /\ FullPlan' = FullPlan /\ FileNow' = FileNow /\ CrateNow' = CrateNow /\ Built' = Built
           /\ LastFile(cfg)' = LastFile(cfg) /\ Version' = Version /\ File' = File
           /\ \A c, m \in Version : Fully(c, m)' = Fully(c, m) /\ CrateOf(c, m)' = CrateOf(c, m)
BY DEF FullPlan, FileNow, CrateNow, Built, CrateOf, FileOf, Fully, LastFile, File, Version

LEMMA DueStays == ASSUME source' = source, meta' = meta PROVE Due' = Due
BY DEF Due

\* Where a deploy is, place by place.
LEMMA ToMoves ==
    ASSUME DpTypes, NEW r \in Run, NEW step \in DeploySteps, To(r, step)
    PROVE  /\ doing' \in [Run -> DeploySteps]
           /\ doing'[r] = step
           /\ \A t \in Run : t # r => doing'[t] = doing[t]
BY DEF DpTypes, To

LEMMA DeployTypes ==
    ASSUME DpTypes, Arguments, NEW r \in Run, DeployStep(r) \/ Fails(r)
    PROVE  DpTypes' /\ Arguments'
<1> USE DEF DeploySteps
<1>1. CASE Begin(r)
  <2>1. /\ doing' \in [Run -> DeploySteps] /\ doing'[r] = "metadata"
        /\ \A t \in Run : t # r => doing'[t] = doing[t]
    BY <1>1, ToMoves DEF Begin
  <2>2. seen' \in [Run -> Version \cup {None}] /\ seen'[r] \in Version
        /\ \A t \in Run : t # r => seen'[t] = seen[t]
    BY <1>1 DEF Begin, DpTypes
  <2>3. events' \subseteq Events /\ last' = None
    BY <1>1 DEF Begin, DpTypes, Happens
  <2>4. DpTypes'
    BY <1>1, <2>1, <2>2, <2>3 DEF Begin, DpTypes, artifacts, inputs, Tree
  <2>5. Arguments'
    BY <1>1, <2>1, <2>2 DEF Begin, Arguments, artifacts, Planned, DpTypes
  <2> QED
    BY <2>4, <2>5
<1>2. CASE WritePlan(r) \/ ApplyDomains(r) \/ ApplyBridges(r)
  <2>1. PICK step \in {"domains", "bridges", "emit"} : To(r, step)
    BY <1>2 DEF WritePlan, ApplyDomains, ApplyBridges
  <2>2. /\ doing' \in [Run -> DeploySteps] /\ doing'[r] = step
        /\ \A t \in Run : t # r => doing'[t] = doing[t]
    BY <2>1, ToMoves
  <2>3. UNCHANGED <<cfg, source, board, meta, crate, stamp, lib, image, locals, last, events>>
    BY <1>2 DEF WritePlan, ApplyDomains, ApplyBridges, inputs
  <2>4. plan' \in PlanFile
    <3>1. CASE WritePlan(r)
      BY <3>1 DEF WritePlan, Arguments, PlanFile
    <3>2. CASE ApplyDomains(r)
      BY <3>2 DEF ApplyDomains, Arguments, Planned, PlanFile
    <3>3. CASE ApplyBridges(r)
      BY <3>3 DEF ApplyBridges, Arguments, Planned, PlanFile
    <3> QED
      BY <1>2, <3>1, <3>2, <3>3
  <2>5. DpTypes'
    BY <2>2, <2>3, <2>4 DEF DpTypes, locals, Tree
  <2>7. meta \in Version
    BY <1>2 DEF WritePlan, ApplyDomains, ApplyBridges, Arguments
  <2>6. Arguments'
    BY <2>2, <2>3, <2>4, <2>7 DEF Arguments, locals, Planned
  <2> QED
    BY <2>5, <2>6
<1>3. CASE EmitCompiled(r) \/ EmitSource(r)
  <2>1. PICK step \in {"build", "load"} : To(r, step)
    BY <1>3 DEF EmitCompiled, EmitSource
  <2>2. /\ doing[r] = "emit"
        /\ doing' \in [Run -> DeploySteps] /\ doing'[r] = step
        /\ \A t \in Run : t # r => doing'[t] = doing[t]
    BY <1>3, <2>1, ToMoves DEF EmitCompiled, EmitSource
  <2>3. UNCHANGED <<cfg, source, board, meta, artifacts, locals, last>> /\ events' \subseteq Events
    BY <1>3 DEF EmitCompiled, EmitSource, Happens, DpTypes, inputs
  <2>4. DpTypes'
    BY <2>2, <2>3 DEF DpTypes, locals, artifacts, Tree
  <2>5. Arguments'
    BY <2>2, <2>3 DEF Arguments, locals, artifacts, Planned
  <2> QED
    BY <2>4, <2>5
<1>4. CASE ReadPlan(r)
  <2>1. PICK step \in {"cargo", "load"} : To(r, step)
    BY <1>4 DEF ReadPlan
  <2>2. /\ doing[r] = "build"
        /\ doing' \in [Run -> DeploySteps] /\ doing'[r] = step
        /\ \A t \in Run : t # r => doing'[t] = doing[t]
    BY <1>4, <2>1, ToMoves DEF ReadPlan
  <2>3. UNCHANGED <<cfg, source, board, meta, artifacts, seen, gen, next, last, events>>
    BY <1>4 DEF ReadPlan, inputs
  <2>4. key' \in [Run -> PlanFile \cup {None}]
    BY <1>4 DEF ReadPlan, DpTypes
  <2>5. DpTypes'
    BY <2>2, <2>3, <2>4 DEF DpTypes, artifacts, Tree
  <2>6. Arguments'
    BY <2>2, <2>3 DEF Arguments, artifacts, Planned
  <2> QED
    BY <2>5, <2>6
<1>5. CASE LoadInputs(r)
  <2>1. /\ doing[r] = "load"
        /\ doing' \in [Run -> DeploySteps] /\ doing'[r] = "write"
        /\ \A t \in Run : t # r => doing'[t] = doing[t]
    BY <1>5, ToMoves DEF LoadInputs
  <2>2. UNCHANGED <<cfg, source, board, meta, artifacts, seen, key, next, last, events>>
    BY <1>5 DEF LoadInputs, inputs
  <2>3. [plan |-> plan, board |-> board] \in Rendered
    BY <2>1 DEF Arguments, Planned, DpTypes, Rendered
  <2>4. /\ gen' \in [Run -> Rendered \cup {None}] /\ gen'[r] \in Rendered
        /\ \A t \in Run : t # r => gen'[t] = gen[t]
    BY <1>5, <2>3 DEF LoadInputs, DpTypes
  <2>5. DpTypes'
    BY <2>1, <2>2, <2>4 DEF DpTypes, artifacts, Tree
  <2>6. Arguments'
    BY <2>1, <2>2, <2>4 DEF Arguments, artifacts, Planned
  <2> QED
    BY <2>5, <2>6
<1>6. CASE WriteFile(r)
  <2>1. doing[r] = "write" /\ gen[r] \in Rendered /\ next[r] \in File
    BY <1>6 DEF WriteFile, Arguments, DpTypes
  <2>2. UNCHANGED <<cfg, source, board, meta, plan, stamp, lib, image, seen, key, gen, last, events>>
    BY <1>6 DEF WriteFile, inputs
  <2>3. crate' \in Tree
    BY <1>6, <2>1 DEF WriteFile, DpTypes, Tree
  <2>4. next' \in [Run -> File]
    <3>1. CASE next[r] < LastFile(gen[r].plan.cfg)
      <4>1. gen[r].plan.cfg \in Version
        BY <2>1 DEF Rendered, PlanFile
      <4>2. next[r] + 1 \in File
        BY <2>1, <3>1, <4>1, FilesOfVersions, Numbers DEF File
      <4> QED
        BY <1>6, <3>1, <4>2 DEF WriteFile, DpTypes
    <3>2. CASE next' = [next EXCEPT ![r] = 1]
      BY <3>2, Numbers DEF DpTypes
    <3> QED
      BY <1>6, <3>1, <3>2 DEF WriteFile
  <2>5. /\ doing' \in [Run -> DeploySteps] /\ doing'[r] \in {"write", "package", "stamp"}
        /\ \A t \in Run : t # r => doing'[t] = doing[t]
    <3>1. CASE doing' = doing
      BY <2>1, <3>1 DEF DpTypes
    <3>2. CASE To(r, IF key[r] = None THEN "package" ELSE "stamp")
      BY <3>2 DEF DpTypes, To
    <3> QED
      BY <1>6, <3>1, <3>2 DEF WriteFile
  <2>6. DpTypes'
    BY <2>2, <2>3, <2>4, <2>5 DEF DpTypes, Tree
  <2>7. Arguments'
    BY <2>1, <2>2, <2>5 DEF Arguments, Planned
  <2> QED
    BY <2>6, <2>7
<1>7. CASE WriteStamp(r) \/ Cargo(r)
  <2>1. PICK step \in {"cargo", "package"} : To(r, step)
    BY <1>7 DEF WriteStamp, Cargo
  <2>2. /\ doing[r] \in {"stamp", "cargo"}
        /\ doing' \in [Run -> DeploySteps] /\ doing'[r] = step
        /\ \A t \in Run : t # r => doing'[t] = doing[t]
    BY <1>7, <2>1, ToMoves DEF WriteStamp, Cargo
  <2>3. UNCHANGED <<cfg, source, board, meta, plan, crate, image, locals, last, events>>
    BY <1>7 DEF WriteStamp, Cargo, inputs
  <2>4. stamp' \in PlanFile \cup {None} /\ lib' \in Library \cup {None}
    BY <1>7 DEF WriteStamp, Cargo, DpTypes, Compiled, Library
  <2>5. DpTypes'
    BY <2>2, <2>3, <2>4 DEF DpTypes, locals, Tree
  <2>6. Arguments'
    BY <2>2, <2>3 DEF Arguments, locals, Planned
  <2> QED
    BY <2>5, <2>6
<1>8. CASE RunPackage(r) \/ Fails(r)
  <2>1. PICK result \in {"ok", "err"} : Returns(r, result)
    BY <1>8 DEF RunPackage, Fails
  <2>2. UNCHANGED <<cfg, source, board, meta, plan, crate, stamp, lib>> /\ events' \subseteq Events
    BY <1>8 DEF RunPackage, Fails, Happens, DpTypes, artifacts, inputs
  <2>3. image' \in Library \cup {None}
    BY <1>8 DEF RunPackage, Fails, DpTypes, artifacts, Compiled, Library
  <2>4. DpTypes'
    BY <2>1, <2>2, <2>3, ReturnsTypes DEF DpTypes, Tree
  <2>5. Arguments'
    BY <2>1, <2>2, ReturnsTypes DEF Arguments, Planned
  <2> QED
    BY <2>4, <2>5
<1>9. CASE MakeMetadata(r)
  <2>1. /\ doing[r] = "metadata" /\ doing' \in [Run -> DeploySteps] /\ doing'[r] = "plan"
        /\ \A t \in Run : t # r => doing'[t] = doing[t]
    BY <1>9, ToMoves DEF MakeMetadata
  <2>2. UNCHANGED <<cfg, source, board, artifacts, locals, last, events>>
    BY <1>9 DEF MakeMetadata, inputs
  <2>3. meta' \in Version /\ (meta \in Version => meta' = meta)
    BY <1>9, NoneIsNothing DEF MakeMetadata, DpTypes
  <2>4. DpTypes'
    BY <2>1, <2>2, <2>3 DEF DpTypes, artifacts, locals, Tree
  <2>5. Arguments'
    BY <2>1, <2>2, <2>3 DEF Arguments, artifacts, locals, Planned
  <2> QED
    BY <2>4, <2>5
<1> QED
  BY <1>1, <1>2, <1>3, <1>4, <1>5, <1>6, <1>7, <1>8, <1>9 DEF DeployStep

LEMMA TypesStep == DpTypes /\ Arguments /\ [DpNext]_dpVars => DpTypes' /\ Arguments'
<1> SUFFICES ASSUME DpTypes, Arguments, [DpNext]_dpVars PROVE DpTypes' /\ Arguments'
  OBVIOUS
<1>1. CASE Edit
  <2>1. cfg' \in Version /\ events' \subseteq Events
    BY <1>1 DEF Edit, Happens, DpTypes
  <2> QED
    BY <1>1, <2>1 DEF Edit, DpTypes, Arguments, artifacts, locals, Tree, Quiet, Planned
<1>2. CASE EditBoard
  <2>1. board' \in Version
    <3>1. board \in 0..MaxVersion /\ board < MaxVersion /\ MaxVersion \in Nat
      BY <1>2, Numbers DEF EditBoard, DpTypes, Version
    <3> QED
      BY <1>2, <3>1 DEF EditBoard, Version
  <2>2. events' \subseteq Events
    BY <1>2 DEF EditBoard, Happens, DpTypes
  <2> QED
    BY <1>2, <2>1, <2>2 DEF EditBoard, DpTypes, Arguments, artifacts, locals, Tree, Quiet, Planned
<1>3. CASE UNCHANGED dpVars
  BY <1>3 DEF dpVars, inputs, artifacts, locals, DpTypes, Arguments, Tree
<1>4. CASE EditSource
  <2>1. source' \in Version
    <3>1. source \in 0..MaxVersion /\ source < MaxVersion /\ MaxVersion \in Nat
      BY <1>4, Numbers DEF EditSource, DpTypes, Version
    <3> QED
      BY <1>4, <3>1 DEF EditSource, Version
  <2>2. events' \subseteq Events
    BY <1>4 DEF EditSource, Happens, DpTypes
  <2> QED
    BY <1>4, <2>1, <2>2 DEF EditSource, DpTypes, Arguments, artifacts, locals, Tree, Quiet, Planned
<1>5. CASE DropMetadata
  <2>1. /\ meta' = None /\ events' \subseteq Events /\ last' = None
        /\ UNCHANGED <<cfg, source, board, artifacts, doing, locals>>
    BY <1>5 DEF DropMetadata, inputs, DpTypes
  <2>2. \A r \in Run : doing'[r] = "new"
    BY <1>5 DEF DropMetadata, Quiet
  <2> QED
    BY <2>1, <2>2 DEF DpTypes, Arguments, artifacts, locals, Tree, Planned
<1> QED
  BY <1>1, <1>2, <1>3, <1>4, <1>5, DeployTypes DEF DpNext

\* No step but an edit of the sources leaves metadata behind.
LEMMA MetadataStep == DpTypes /\ MetadataKnown /\ [DpNext]_dpVars => MetadataKnown'
<1> SUFFICES ASSUME DpTypes, MetadataKnown, [DpNext]_dpVars PROVE MetadataKnown'
  OBVIOUS
<1>1. source \in Nat /\ (meta # None => meta \in Nat)
  BY Numbers DEF DpTypes
<1>2. CASE EditSource
  BY <1>1, <1>2 DEF EditSource, MetadataKnown, Happens
<1>3. CASE DropMetadata
  BY <1>3 DEF DropMetadata, MetadataKnown
<1>4. ASSUME NEW r \in Run, MakeMetadata(r) PROVE MetadataKnown'
  BY <1>1, <1>4 DEF MakeMetadata, MetadataKnown, inputs
<1>5. ASSUME NEW r \in Run, (DeployStep(r) /\ ~MakeMetadata(r)) \/ Fails(r)
      PROVE  UNCHANGED <<source, meta>> /\ events \subseteq events'
  BY <1>5 DEF DeployStep, Begin, WritePlan, ApplyDomains, ApplyBridges, EmitCompiled, EmitSource,
     ReadPlan, LoadInputs, WriteFile, WriteStamp, Cargo, RunPackage, Fails, Happens, inputs, locals
<1>6. CASE Edit \/ EditBoard \/ UNCHANGED dpVars
  <2>1. UNCHANGED <<source, meta>> /\ events \subseteq events'
    BY <1>6 DEF Edit, EditBoard, Happens, dpVars, inputs
  <2> QED
    BY <2>1 DEF MetadataKnown
<1>7. ASSUME NEW r \in Run, DeployStep(r) \/ Fails(r) PROVE MetadataKnown'
  <2>1. CASE MakeMetadata(r)
    BY <1>4, <2>1
  <2>2. CASE ~MakeMetadata(r)
    BY <1>5, <1>7, <2>2 DEF MetadataKnown
  <2> QED
    BY <2>1, <2>2
<1> QED
  BY <1>2, <1>3, <1>6, <1>7 DEF DpNext

-----------------------------------------------------------------------------
(* One deploy after the other.                                              *)

LEMMA FullyIsInjective ==
    \A c, d, m, n \in Version : Fully(c, m) = Fully(d, n) => c = d /\ m = n
BY DEF Fully

\* A tree that has every file of a configuration and no other is its crate.
LEMMA CrateByFiles ==
    ASSUME NEW tree \in Tree,
           \A f \in File : tree[f] = IF f > LastFile(cfg) THEN None ELSE FileNow
    PROVE  tree = CrateNow
BY DEF CrateNow, FileNow, CrateOf, Tree

\* What a step must show of the one deploy that takes it.
LEMMA OfOne ==
    ASSUME DpTypes, DpState, NEW r \in Run, doing[r] # "new" \/ Quiet, board' = board,
           \A t \in Run : t # r => doing'[t] = doing[t] /\ key'[t] = key[t] /\ next'[t] = next[t],
           Plans(r)' /\ Keys(r)' /\ Writes(r)' /\ Builds(r)',
           NothingExtra', Stamps', Packaged'
    PROVE  DpState'
<1>1. ASSUME NEW t \in Run, t # r PROVE doing[t] = "new" /\ doing'[t] = "new"
  BY <1>1 DEF DpState, OneDeploy, Quiet
<1>2. OneDeploy'
  BY <1>1 DEF OneDeploy
<1>3. ASSUME NEW t \in Run, t # r PROVE Plans(t)' /\ Keys(t)' /\ Writes(t)' /\ Builds(t)'
  <2>1. key'[t] = None /\ next'[t] = 1
    BY <1>1, <1>3 DEF DpState, Keys, Writes
  <2> QED
    BY <1>1, <1>3, <2>1 DEF Plans, Keys, Writes, Builds, Complete
<1>4. \A t \in Run : Plans(t)' /\ Keys(t)' /\ Writes(t)' /\ Builds(t)'
  BY <1>3
<1> QED
  BY <1>2, <1>4 DEF DpState

\* A step that leaves crate and stamp alone and does not end the deploy.
LEMMA StampsStay ==
    ASSUME Stamps, NEW r \in Run, doing'[r] # "new", UNCHANGED <<cfg, source, crate, stamp>>,
           Due' = Due, "revert" \in events => "revert" \in events'
    PROVE  Stamps'
<1>1. ~Quiet'
  BY DEF Quiet
<1> QED
  BY <1>1, NowStays DEF Stamps

LEMMA PlanningKeeps ==
    ASSUME DpTypes, Arguments, DpState, NothingHidden', NEW r \in Run,
           Begin(r) \/ MakeMetadata(r) \/ WritePlan(r) \/ ApplyDomains(r) \/ ApplyBridges(r)
    PROVE  DpState'
<1>1. /\ UNCHANGED <<cfg, source, board, crate, stamp, lib, image, key, gen, next>>
      /\ last' = "ok" => last = "ok"
      /\ doing[r] \in {"new", "metadata", "plan", "domains", "bridges"}
      /\ events \subseteq events'
  BY NoneIsNothing DEF Begin, MakeMetadata, WritePlan, ApplyDomains, ApplyBridges, locals, artifacts,
     inputs, Happens
<1>9. meta' # None \/ meta' = meta
  BY NoneIsNothing DEF Begin, MakeMetadata, WritePlan, ApplyDomains, ApplyBridges, DpTypes
<1>10. Due' = Due
  BY NoneIsNothing DEF Due, DpTypes, Begin, MakeMetadata, WritePlan, ApplyDomains, ApplyBridges, inputs
<1>11. /\ FullPlan' = FullPlan /\ FileNow' = FileNow /\ CrateNow' = CrateNow /\ Built' = Built
       /\ LastFile(cfg)' = LastFile(cfg) /\ File' = File
  BY <1>1, <1>10, NowStays
<1>2. doing[r] # "new" \/ Quiet
  BY DEF Begin, MakeMetadata, WritePlan, ApplyDomains, ApplyBridges, Happens, NothingHidden
<1>3. PICK step \in {"metadata", "plan", "domains", "bridges", "emit"} : To(r, step)
  BY DEF Begin, MakeMetadata, WritePlan, ApplyDomains, ApplyBridges
<1>4. doing'[r] = step /\ \A t \in Run : t # r => doing'[t] = doing[t]
  BY <1>3, ToMoves DEF DeploySteps
<1>5. Keys(r)' /\ Writes(r)' /\ Builds(r)'
  BY <1>1, <1>3, <1>4 DEF DpState, Keys, Writes, Builds
<1>6. Plans(r)'
  <2>1. CASE Begin(r)
    <3>1. step = "metadata" /\ seen'[r] = cfg
      BY <1>4, <2>1, ToMoves DEF Begin, DpTypes, DeploySteps
    <3> QED
      BY <1>1, <1>4, <3>1 DEF Plans, Complete
  <2>5. CASE MakeMetadata(r)
    <3>1. step = "plan" /\ seen'[r] = cfg
      BY <1>4, <2>5, ToMoves DEF MakeMetadata, DeploySteps, locals, DpState, Plans
    <3> QED
      BY <1>1, <1>4, <3>1 DEF Plans, Complete
  <2>2. CASE WritePlan(r)
    <3>1. meta = Due
      BY <2>2, NoneIsNothing DEF WritePlan, Arguments, Due
    <3>2. /\ step = "domains" /\ seen'[r] = cfg
          /\ plan' = [cfg |-> cfg, meta |-> Due, stamps |-> 0]
      BY <1>4, <2>2, <3>1, ToMoves DEF WritePlan, DeploySteps, locals, DpState, Plans
    <3> QED
      BY <1>1, <1>4, <1>10, <3>2 DEF Plans, Complete
  <2>3. CASE ApplyDomains(r)
    <3>1. /\ step = "bridges" /\ seen'[r] = cfg
          /\ plan' = [cfg |-> cfg, meta |-> Due, stamps |-> 1]
      BY <1>4, <2>3, ToMoves DEF ApplyDomains, DeploySteps, locals, DpState, Plans
    <3> QED
      BY <1>1, <1>4, <1>10, <3>1 DEF Plans, Complete
  <2>4. CASE ApplyBridges(r)
    <3>1. step = "emit" /\ seen'[r] = cfg /\ plan' = FullPlan
      BY <1>4, <2>4, ToMoves DEF ApplyBridges, DeploySteps, locals, DpState, Plans, FullPlan, Fully
    <3> QED
      BY <1>1, <1>4, <1>11, <3>1 DEF Plans
  <2> QED
    BY <2>1, <2>2, <2>3, <2>4, <2>5
<1>7. Stamps'
  BY <1>1, <1>3, <1>4, <1>10, StampsStay DEF DpState
<1>8. NothingExtra' /\ Packaged'
  BY <1>1, <1>9, <1>11 DEF DpState, NothingExtra, Packaged
<1> QED
  BY <1>1, <1>2, <1>4, <1>5, <1>6, <1>7, <1>8, OfOne

LEMMA ReadingKeeps ==
    ASSUME DpTypes, Arguments, DpState, NEW r \in Run,
           EmitCompiled(r) \/ EmitSource(r) \/ ReadPlan(r) \/ LoadInputs(r)
    PROVE  DpState'
<1>1. /\ UNCHANGED <<cfg, source, board, meta, artifacts, seen, next, last>>
      /\ doing[r] \in {"emit", "build", "load"}
      /\ events \subseteq events'
  BY DEF EmitCompiled, EmitSource, ReadPlan, LoadInputs, inputs, locals, Happens
<1>11. /\ FullPlan' = FullPlan /\ FileNow' = FileNow /\ CrateNow' = CrateNow /\ Built' = Built
       /\ LastFile(cfg)' = LastFile(cfg) /\ File' = File /\ Due' = Due
  BY <1>1, NowStays, DueStays
<1>2. PICK step \in {"build", "load", "cargo", "write"} : To(r, step)
  BY DEF EmitCompiled, EmitSource, ReadPlan, LoadInputs
<1>3. doing'[r] = step /\ \A t \in Run : t # r => doing'[t] = doing[t]
  BY <1>2, ToMoves DEF DeploySteps
<1>4. plan = FullPlan /\ seen[r] = cfg /\ cfg \in Version
  BY <1>1 DEF DpState, Plans, Complete, DpTypes
<1>5. Plans(r)'
  BY <1>1, <1>2, <1>3, <1>4, <1>11 DEF Plans, artifacts
<1>6. \A t \in Run : t # r => key'[t] = key[t]
  BY DEF EmitCompiled, EmitSource, ReadPlan, LoadInputs, locals, DpTypes
<1>7. FullPlan # None
  BY NowTypes
<1>8. Keys(r)' /\ Writes(r)' /\ Builds(r)'
  <2>1. next[r] = 1 /\ 1 <= LastFile(cfg) /\ \A f \in File : ~ f < 1
    <3>1. Files \in Nat /\ Files >= 2
      BY Numbers
    <3> QED
      BY <1>1, <3>1 DEF DpState, Writes, LastFile, File
  <2>2. CASE EmitCompiled(r)
    <3>1. step = "build" /\ key'[r] = None
      BY <1>1, <1>3, <2>2, ToMoves DEF EmitCompiled, DeploySteps, locals, DpState, Keys
    <3> QED
      BY <1>1, <1>3, <2>1, <3>1 DEF Keys, Writes, Builds
  <2>3. CASE EmitSource(r)
    <3>1. step = "load" /\ key'[r] = None /\ "source" \in events'
      BY <1>1, <1>3, <2>3, ToMoves DEF EmitSource, DeploySteps, locals, DpState, Keys, Happens
    <3> QED
      BY <1>1, <1>3, <2>1, <3>1 DEF Keys, Writes, Builds
  <2>4. CASE ReadPlan(r)
    <3>1. key'[r] = FullPlan /\ doing'[r] = IF Fresh(plan) THEN "cargo" ELSE "load"
      BY <1>4, <2>4 DEF ReadPlan, To, DpTypes
    <3>2. CASE Fresh(plan)
      <4>1. stamp = FullPlan /\ crate = CrateNow
        BY <1>4, <3>2 DEF Fresh, DpState, Stamps
      <4>2. stamp' = FullPlan' /\ crate' = CrateNow' /\ key'[r] = FullPlan'
        BY <1>1, <1>11, <3>1, <4>1 DEF artifacts
      <4> QED
        BY <1>1, <2>1, <3>1, <3>2, <4>2 DEF Keys, Writes, Builds
    <3>3. CASE ~Fresh(plan)
      <4>1. key'[r] = FullPlan'
        BY <1>11, <3>1
      <4> QED
        BY <1>1, <2>1, <3>1, <3>3, <4>1 DEF Keys, Writes, Builds
    <3> QED
      BY <3>2, <3>3
  <2>5. CASE LoadInputs(r)
    <3>1. step = "write" /\ key'[r] = key[r] /\ doing[r] = "load" /\ events' = events
      BY <1>3, <2>5, ToMoves DEF LoadInputs, DeploySteps
    <3>2. gen'[r] = FileNow
      BY <1>4, <2>5 DEF LoadInputs, DpTypes, DpState, FileNow, FullPlan, FileOf
    <3>3. Keys(r)'
      BY <1>1, <1>3, <1>11, <3>1 DEF DpState, Keys
    <3>4. Writes(r)'
      BY <1>1, <1>3, <1>11, <2>1, <3>1, <3>2 DEF Writes
    <3> QED
      BY <1>3, <3>1, <3>3, <3>4 DEF Builds
  <2> QED
    BY <2>2, <2>3, <2>4, <2>5
<1>9. Stamps'
  BY <1>1, <1>2, <1>3, <1>11, StampsStay DEF DpState, artifacts
<1>10. NothingExtra' /\ Packaged'
  BY <1>1, <1>11 DEF DpState, NothingExtra, Packaged, artifacts
<1> QED
  BY <1>1, <1>3, <1>5, <1>6, <1>8, <1>9, <1>10, OfOne

LEMMA WriteFileKeeps ==
    ASSUME DpTypes, Arguments, DpState, NEW r \in Run, WriteFile(r)
    PROVE  DpState'
<1>1. /\ UNCHANGED <<cfg, source, board, meta, plan, stamp, lib, image, seen, key, gen, last, events>>
      /\ doing[r] = "write" /\ crate' = [crate EXCEPT ![next[r]] = gen[r]]
  BY DEF WriteFile, inputs
<1>2. /\ gen[r] = FileNow /\ next[r] <= LastFile(cfg) /\ next[r] \in File
      /\ \A f \in File : f < next[r] => crate[f] = FileNow
      /\ plan = FullPlan /\ seen[r] = cfg /\ cfg \in Version
      /\ key[r] = FullPlan \/ (key[r] = None /\ "source" \in events)
  BY <1>1 DEF DpState, Writes, Plans, Keys, Complete, DpTypes
<1>3. gen[r].plan.cfg = cfg
  BY <1>2 DEF FileNow, FileOf, Fully
<1>4. \A f \in File : crate'[f] = IF f = next[r] THEN FileNow ELSE crate[f]
  BY <1>1, <1>2 DEF DpTypes, Tree
<1>5. /\ FullPlan' = FullPlan /\ FileNow' = FileNow /\ CrateNow' = CrateNow /\ Built' = Built
      /\ LastFile(cfg)' = LastFile(cfg) /\ Version' = Version /\ File' = File /\ Due' = Due
      /\ \A c, m \in Version : Fully(c, m)' = Fully(c, m) /\ CrateOf(c, m)' = CrateOf(c, m)
  BY <1>1, NowStays, DueStays
<1>6. \A f \in File, n \in File : f \in Nat /\ n \in Nat /\ LastFile(cfg) \in Nat
  BY <1>2, NowTypes, Numbers DEF File
<1>7. NothingExtra'
  BY <1>1, <1>2, <1>4, <1>5, <1>6 DEF DpState, NothingExtra
<1>8. \A t \in Run : t # r => doing'[t] = doing[t] /\ key'[t] = key[t] /\ next'[t] = next[t]
  BY <1>1 DEF WriteFile, To, DpTypes
<1>9. stamp = FullPlan => crate' = CrateNow
  <2> SUFFICES ASSUME stamp = FullPlan PROVE crate' = CrateNow
    OBVIOUS
  <2>1. \A f \in File : crate[f] = IF f > LastFile(cfg) THEN None ELSE FileNow
    BY DEF DpState, Stamps, CrateNow, CrateOf, FileNow
  <2>2. crate' \in Tree
    BY TypesStep DEF DpNext, DeployStep, DpTypes
  <2>3. \A f \in File : crate'[f] = IF f > LastFile(cfg) THEN None ELSE FileNow
    BY <1>2, <1>4, <1>6, <2>1
  <2> QED
    BY <1>2, <2>2, <2>3, CrateByFiles
<1>10. doing'[r] # "new"
  BY <1>1, <1>2, <1>3 DEF WriteFile, To, DpTypes
<1>11. Stamps'
  BY <1>1, <1>5, <1>9, <1>10 DEF DpState, Stamps, Quiet
<1>12. Plans(r)'
  <2>1. doing'[r] \in {"write", "package", "stamp"}
    BY <1>1, <1>2, <1>3 DEF WriteFile, To, DpTypes
  <2> QED
    BY <1>1, <1>2, <1>5, <2>1 DEF Plans
<1>13. CASE next[r] < LastFile(cfg)
  <2>1. doing' = doing /\ next'[r] = next[r] + 1
    BY <1>3, <1>13 DEF WriteFile, DpTypes
  <2>2. next'[r] <= LastFile(cfg)
    BY <1>2, <1>6, <1>13, <2>1
  <2>3. \A f \in File : f < next'[r] => crate'[f] = FileNow
    BY <1>2, <1>4, <1>6, <2>1
  <2>4. Writes(r)'
    BY <1>1, <1>2, <1>5, <2>1, <2>2, <2>3 DEF Writes
  <2>5. Keys(r)' /\ Builds(r)'
    BY <1>1, <1>2, <1>5, <2>1 DEF Keys, Builds
  <2> QED
    BY <1>1, <1>5, <1>7, <1>8, <1>11, <1>12, <2>4, <2>5, OfOne DEF DpState, Packaged
<1>14. CASE ~(next[r] < LastFile(cfg))
  <2>1. next'[r] = 1 /\ doing'[r] = IF key[r] = None THEN "package" ELSE "stamp"
    BY <1>3, <1>14 DEF WriteFile, To, DpTypes
  <2>2. FullPlan # None
    BY NowTypes
  <2>3. crate' = CrateNow
    <3>1. crate' \in Tree
      BY TypesStep DEF DpNext, DeployStep, DpTypes
    <3>2. \A f \in File : crate'[f] = IF f > LastFile(cfg) THEN None ELSE FileNow
      BY <1>2, <1>4, <1>6, <1>14 DEF DpState, NothingExtra
    <3> QED
      BY <1>2, <3>1, <3>2, CrateByFiles
  <2>4. Keys(r)' /\ Writes(r)' /\ Builds(r)'
    BY <1>1, <1>2, <1>5, <2>1, <2>2, <2>3 DEF Keys, Writes, Builds
  <2> QED
    BY <1>1, <1>5, <1>7, <1>8, <1>11, <1>12, <2>4, OfOne DEF DpState, Packaged
<1> QED
  BY <1>13, <1>14

LEMMA BuildingKeeps ==
    ASSUME DpTypes, Arguments, DpState, NEW r \in Run, WriteStamp(r) \/ Cargo(r)
    PROVE  DpState'
<1>1. /\ UNCHANGED <<cfg, source, board, meta, plan, crate, image, seen, key, gen, next, last, events>>
      /\ doing[r] \in {"stamp", "cargo"}
  BY DEF WriteStamp, Cargo, locals, inputs
<1>2. PICK step \in {"cargo", "package"} : To(r, step)
  BY DEF WriteStamp, Cargo
<1>3. doing'[r] = step /\ \A t \in Run : t # r => doing'[t] = doing[t]
  BY <1>2, ToMoves DEF DeploySteps
<1>4. /\ key[r] = FullPlan /\ crate = CrateNow /\ cfg \in Version
      /\ plan = FullPlan /\ seen[r] = cfg /\ next[r] = 1
  BY <1>1 DEF DpState, Keys, Builds, Plans, Complete, Writes, DpTypes
<1>5. /\ FullPlan' = FullPlan /\ FileNow' = FileNow /\ CrateNow' = CrateNow /\ Built' = Built
      /\ LastFile(cfg)' = LastFile(cfg) /\ Version' = Version /\ File' = File /\ Due' = Due
      /\ \A c, m \in Version : Fully(c, m)' = Fully(c, m) /\ CrateOf(c, m)' = CrateOf(c, m)
  BY <1>1, NowStays, DueStays
<1>11. FullPlan # None /\ Due \in Version /\ FullPlan = Fully(cfg, Due)
  BY NowTypes DEF FullPlan
<1>12. key[r].cfg = cfg
  BY <1>4 DEF FullPlan, Fully
<1>6. stamp' = FullPlan
  BY <1>1, <1>4, <1>11 DEF WriteStamp, Cargo, DpState, Builds
<1>7. step = "package" /\ cfg \notin Profiled => lib' = Built
  BY <1>3, <1>4, <1>12, ToMoves DEF WriteStamp, Cargo, DeploySteps, Compiled, Built
<1>8. Plans(r)' /\ Keys(r)' /\ Writes(r)' /\ Builds(r)'
  BY <1>1, <1>2, <1>3, <1>4, <1>5, <1>6, <1>7 DEF Plans, Keys, Writes, Builds
<1>9. Stamps'
  <2>1. ASSUME NEW c \in Version, NEW m \in Version, stamp' = Fully(c, m)
        PROVE  c <= cfg /\ m <= Due
    <3>1. Fully(c, m) = Fully(cfg, Due)
      BY <1>6, <1>11, <2>1
    <3>2. c = cfg /\ m = Due
      BY <1>4, <1>11, <3>1, FullyIsInjective
    <3> QED
      BY <1>4, <1>11, <3>2, Numbers
  <2> QED
    BY <1>1, <1>2, <1>3, <1>4, <1>5, <2>1 DEF Stamps, Quiet
<1>10. NothingExtra' /\ Packaged'
  BY <1>1, <1>5 DEF DpState, NothingExtra, Packaged
<1> QED
  BY <1>1, <1>3, <1>8, <1>9, <1>10, OfOne

LEMMA EndingKeeps ==
    ASSUME DpTypes, Arguments, DpState, NEW r \in Run, RunPackage(r) \/ Fails(r)
    PROVE  DpState'
<1>1. /\ UNCHANGED <<cfg, source, board, meta, plan, crate, stamp, lib>> /\ doing[r] # "new"
      /\ events \subseteq events'
  BY DEF RunPackage, Fails, artifacts, Happens, inputs
<1>2. PICK result \in {"ok", "err"} :
         Returns(r, result) /\ (Fails(r) => result = "err")
  BY DEF RunPackage, Fails
<1>3. /\ doing'[r] = "new" /\ key'[r] = None /\ next'[r] = 1 /\ last' = result
      /\ \A t \in Run : t # r => doing'[t] = doing[t] /\ key'[t] = key[t] /\ next'[t] = next[t]
  BY <1>2 DEF Returns, To, DpTypes
<1>4. Plans(r)' /\ Keys(r)' /\ Writes(r)' /\ Builds(r)'
  BY <1>3 DEF Plans, Keys, Writes, Builds, Complete
<1>5. /\ FullPlan' = FullPlan /\ FileNow' = FileNow /\ CrateNow' = CrateNow /\ Built' = Built
      /\ LastFile(cfg)' = LastFile(cfg) /\ Version' = Version /\ File' = File /\ Due' = Due
      /\ \A c, m \in Version : Fully(c, m)' = Fully(c, m) /\ CrateOf(c, m)' = CrateOf(c, m)
  BY <1>1, NowStays, DueStays
<1>11. /\ FullPlan # None /\ cfg \in Version /\ Due \in Version
       /\ FullPlan = Fully(cfg, Due) /\ CrateNow = CrateOf(cfg, Due)
  BY NowTypes DEF FullPlan, CrateNow
<1>6. RunPackage(r) => /\ doing[r] = "package" /\ events' = events
                       /\ key[r] = None => image' = Compiled
                       /\ key[r] # None /\ last' = "ok" => image' = lib
  BY <1>3 DEF RunPackage, Returns
<1>7. Packaged'
  <2> SUFFICES ASSUME last' = "ok" PROVE meta # None /\ (cfg \notin Profiled => image' = Built)
    BY <1>1, <1>5 DEF Packaged
  <2>1. RunPackage(r) /\ doing[r] = "package"
    BY <1>2, <1>3, <1>6
  <2>2. meta # None
    BY <2>1, NoneIsNothing DEF Arguments
  <2>3. crate = CrateNow /\ (key[r] # None /\ cfg \notin Profiled => lib = Built)
    BY <2>1 DEF DpState, Builds
  <2> QED
    BY <1>6, <2>1, <2>2, <2>3 DEF Compiled, Built
<1>8. "fail" \notin events' /\ "source" \notin events' =>
         \A c, m \in Version : stamp = Fully(c, m) => crate = CrateOf(c, m)
  <2> SUFFICES ASSUME "fail" \notin events', "source" \notin events'
               PROVE  stamp = FullPlan /\ crate = CrateNow
    BY <1>11, FullyIsInjective
  <2>1. RunPackage(r)
    BY DEF Fails, Happens
  <2>2. doing[r] = "package" /\ key[r] # None
    BY <1>6, <1>11, <2>1 DEF DpState, Keys
  <2> QED
    BY <2>2 DEF DpState, Builds
<1>9. Stamps'
  <2>1. stamp' = FullPlan' => crate' = CrateNow'
    BY <1>1, <1>5 DEF DpState, Stamps
  <2>2. "revert" \notin events' => \A c, m \in Version : stamp' = Fully(c, m) => c <= cfg'
    BY <1>1 DEF DpState, Stamps
  <2>3. \A c, m \in Version : stamp' = Fully(c, m) => m <= Due
    BY <1>1 DEF DpState, Stamps
  <2> QED
    BY <1>1, <1>5, <1>8, <2>1, <2>2, <2>3 DEF Stamps
<1>10. NothingExtra'
  BY <1>1, <1>5 DEF DpState, NothingExtra
<1> QED
  BY <1>1, <1>3, <1>4, <1>5, <1>7, <1>9, <1>10, OfOne

LEMMA EditKeeps ==
    ASSUME DpTypes, DpState, NothingHidden', Edit
    PROVE  DpState'
<1>1. /\ UNCHANGED <<board, artifacts, doing, locals>> /\ last' = None
      /\ Quiet /\ cfg' \in Version /\ cfg \in Version
      /\ ~(cfg' > cfg) => "revert" \in events'
      /\ cfg \in Extra /\ cfg' \notin Extra => "drop" \in events'
      /\ events \subseteq events'
      /\ "fail" \in events => "fail" \in events'
      /\ "source" \in events => "source" \in events'
  BY DEF Edit, Happens, DpTypes
<1>7. UNCHANGED <<source, meta>> /\ Due' = Due
  BY DueStays DEF Edit
<1>2. OneDeploy'
  BY <1>1 DEF DpState, OneDeploy
<1>3. ASSUME NEW r \in Run PROVE Plans(r)' /\ Keys(r)' /\ Writes(r)' /\ Builds(r)'
  <2>1. doing'[r] = "new" /\ key'[r] = None /\ next'[r] = 1
    BY <1>1 DEF Quiet, locals, DpState, Keys, Writes
  <2> QED
    BY <2>1 DEF Plans, Keys, Writes, Builds, Complete
<1>4. NothingExtra'
  <2>1. cfg \in Extra => cfg' \in Extra
    BY <1>1 DEF NothingHidden
  <2>2. \A f \in File : f > LastFile(cfg') => f > LastFile(cfg)
    <3>1. \A f \in File : f \in Nat
      BY Numbers DEF File
    <3> QED
      BY <2>1, <3>1, Numbers DEF LastFile
  <2>3. crate' = crate /\ LastFile(cfg)' = LastFile(cfg')
    BY <1>1 DEF artifacts, LastFile
  <2> QED
    BY <2>2, <2>3 DEF DpState, NothingExtra, File
<1>5. Stamps'
  <2>1. \A c \in Version : c \in Nat
    BY Numbers
  <2>2. UNCHANGED <<crate, stamp>>
    BY <1>1 DEF artifacts
  <2>3. "revert" \notin events' =>
           \A c, m \in Version : stamp = Fully(c, m) => c <= cfg' /\ c # cfg'
    BY <1>1, <2>1 DEF DpState, Stamps
  <2>4. "fail" \notin events' /\ "source" \notin events' =>
           \A c, m \in Version : stamp = Fully(c, m) => crate = CrateOf(c, m)
    BY <1>1 DEF DpState, Stamps
  <2>5. stamp = Fully(cfg', Due) => crate = CrateOf(cfg', Due)
    BY <1>1, <2>3, <2>4, NowTypes DEF NothingHidden
  <2>6. /\ \A c, m \in Version : Fully(c, m)' = Fully(c, m) /\ CrateOf(c, m)' = CrateOf(c, m)
        /\ FullPlan' = Fully(cfg', Due) /\ CrateNow' = CrateOf(cfg', Due)
        /\ Version' = Version
    BY <1>7 DEF FullPlan, CrateNow, CrateOf, LastFile, FileOf, Fully, File, Version
  <2>7. \A c, m \in Version : stamp = Fully(c, m) => m <= Due
    BY DEF DpState, Stamps
  <2> QED
    BY <1>7, <2>2, <2>3, <2>4, <2>5, <2>6, <2>7 DEF Stamps
<1>6. Packaged' /\ board' = 0
  BY <1>1, NoneIsNothing DEF DpState, Packaged
<1> QED
  BY <1>2, <1>3, <1>4, <1>5, <1>6 DEF DpState

\* What would be planned with next stays what it is, or is newer than any stamp.
LEMMA MetadataKeeps ==
    ASSUME DpTypes, Arguments, MetadataKnown, DpState, EditSource \/ DropMetadata
    PROVE  DpState'
<1>1. /\ UNCHANGED <<cfg, board, artifacts, doing, locals>> /\ last' = None /\ Quiet
      /\ cfg \in Version /\ source \in Nat /\ source' \in Nat
      /\ \A e : e # "stale" => (e \in events <=> e \in events')
  BY Numbers DEF EditSource, DropMetadata, DpTypes, inputs, Happens
<1>2. Due \in Version /\ Due \in Nat /\ Due' \in Nat /\ (Due' = Due \/ Due' > Due)
  <2>1. Due \in Version /\ Due \in Nat
    BY NowTypes, Numbers
  <2>2. CASE EditSource
    BY <1>1, <2>1, <2>2 DEF EditSource, Due
  <2>3. CASE DropMetadata
    BY <1>1, <2>1, <2>3, NoneIsNothing DEF DropMetadata, Due, MetadataKnown, inputs
  <2> QED
    BY <2>1, <2>2, <2>3
<1>3. OneDeploy'
  BY <1>1 DEF DpState, OneDeploy
<1>4. ASSUME NEW r \in Run PROVE Plans(r)' /\ Keys(r)' /\ Writes(r)' /\ Builds(r)'
  <2>1. doing'[r] = "new" /\ key'[r] = None /\ next'[r] = 1
    BY <1>1 DEF Quiet, locals, DpState, Keys, Writes
  <2> QED
    BY <2>1 DEF Plans, Keys, Writes, Builds, Complete
<1>5. NothingExtra'
  BY <1>1 DEF DpState, NothingExtra, LastFile, File, artifacts
<1>6. Stamps'
  <2>1. UNCHANGED <<crate, stamp>>
    BY <1>1 DEF artifacts
  <2>2. \A m \in Version : m \in Nat
    BY Numbers
  <2>3. \A c, m \in Version : stamp = Fully(c, m) => m <= Due
    BY DEF DpState, Stamps
  <2>4. FullPlan' = Fully(cfg, Due') /\ CrateNow' = CrateOf(cfg, Due') /\ Version' = Version
        /\ \A c, m \in Version : Fully(c, m)' = Fully(c, m) /\ CrateOf(c, m)' = CrateOf(c, m)
    BY <1>1 DEF FullPlan, CrateNow, CrateOf, LastFile, FileOf, Fully, File, Version
  <2>5. stamp = Fully(cfg, Due') => crate = CrateOf(cfg, Due')
    <3>1. CASE Due' = Due
      BY <3>1 DEF DpState, Stamps, FullPlan, CrateNow
    <3>2. CASE Due' > Due /\ Due' \in Version
      BY <1>1, <1>2, <2>3, <3>2
    <3>3. Due' \in Version
      <4>1. DpTypes'
        BY TypesStep DEF DpNext
      <4> QED
        BY <4>1, <2>4 DEF DpTypes, Due
    <3> QED
      BY <1>2, <3>1, <3>2, <3>3
  <2> QED
    BY <1>1, <1>2, <2>1, <2>2, <2>3, <2>4, <2>5 DEF DpState, Stamps, Quiet
<1>7. Packaged' /\ board' = 0
  BY <1>1, NoneIsNothing DEF DpState, Packaged
<1> QED
  BY <1>3, <1>4, <1>5, <1>6, <1>7 DEF DpState

LEMMA DpStep == DpInv /\ [DpNext]_dpVars => DpInv'
<1> SUFFICES ASSUME DpInv, [DpNext]_dpVars PROVE DpInv'
  OBVIOUS
<1>1. /\ DpTypes /\ Arguments /\ DpTypes' /\ Arguments'
      /\ MetadataKnown /\ MetadataKnown'
  BY TypesStep, MetadataStep DEF DpInv
<1>2. events \subseteq events' \cup {"stale"}
  <2>1. CASE DropMetadata
    BY <2>1 DEF DropMetadata
  <2> QED
    BY <2>1 DEF DpNext, DeployStep, Begin, MakeMetadata, WritePlan, ApplyDomains, ApplyBridges,
       EmitCompiled, EmitSource, ReadPlan, LoadInputs, WriteFile, WriteStamp, Cargo, RunPackage,
       Fails, Edit, EditSource, EditBoard, Happens, dpVars
<1>3. ASSUME NothingHidden' PROVE DpState'
  <2>1. NothingHidden
    BY <1>2, <1>3 DEF NothingHidden
  <2>2. DpState
    BY <2>1 DEF DpInv
  <2>3. ASSUME NEW r \in Run, DeployStep(r) \/ Fails(r) PROVE DpState'
    BY <1>1, <1>3, <2>2, <2>3, PlanningKeeps, ReadingKeeps, WriteFileKeeps, BuildingKeeps,
       EndingKeeps DEF DeployStep
  <2>4. CASE Edit
    BY <1>1, <1>3, <2>2, <2>4, EditKeeps
  <2>5. ~EditBoard
    BY <1>3 DEF EditBoard, Happens, NothingHidden
  <2>6. CASE UNCHANGED dpVars
    <3>1. UNCHANGED <<cfg, source, board, meta, plan, crate, stamp, lib, image, doing, seen, key,
                      gen, next, last, events>>
      BY <2>6 DEF dpVars, inputs, artifacts, locals
    <3>5. /\ FullPlan' = FullPlan /\ FileNow' = FileNow /\ CrateNow' = CrateNow /\ Built' = Built
          /\ LastFile(cfg)' = LastFile(cfg) /\ Version' = Version /\ File' = File /\ Due' = Due
          /\ \A c, m \in Version : Fully(c, m)' = Fully(c, m) /\ CrateOf(c, m)' = CrateOf(c, m)
      BY <3>1, NowStays, DueStays
    <3>2. ASSUME NEW r \in Run PROVE Plans(r)' /\ Keys(r)' /\ Writes(r)' /\ Builds(r)'
      BY <2>2, <3>1, <3>5 DEF DpState, Plans, Keys, Writes, Builds
    <3>3. Stamps'
      BY <2>2, <3>1, <3>5 DEF DpState, Stamps, Quiet
    <3>4. NothingExtra' /\ OneDeploy' /\ Packaged'
      BY <2>2, <3>1, <3>5 DEF DpState, NothingExtra, OneDeploy, Packaged
    <3> QED
      BY <2>2, <3>1, <3>2, <3>3, <3>4 DEF DpState
  <2>7. CASE EditSource \/ DropMetadata
    BY <1>1, <2>2, <2>7, MetadataKeeps
  <2> QED
    BY <2>3, <2>4, <2>5, <2>6, <2>7 DEF DpNext
<1> QED
  BY <1>1, <1>3 DEF DpInv

LEMMA DpInitially == DpInit => DpInv
<1> SUFFICES ASSUME DpInit PROVE DpInv
  OBVIOUS
<1>1. DpTypes
  BY Numbers DEF DpInit, DpTypes, NoTree, Tree, DeploySteps
<1>2. Arguments /\ MetadataKnown
  <2>1. meta = None /\ \A r \in Run : doing[r] = "new"
    BY DEF DpInit
  <2>2. \A r \in Run : doing[r] \notin Planned /\ doing[r] \notin {"write", "plan", "metadata"}
    BY <2>1 DEF Planned
  <2> QED
    BY <2>1, <2>2 DEF Arguments, MetadataKnown
<1>3. \A r \in Run : Plans(r) /\ Keys(r) /\ Writes(r) /\ Builds(r)
  <2> SUFFICES ASSUME NEW r \in Run PROVE Plans(r) /\ Keys(r) /\ Writes(r) /\ Builds(r)
    OBVIOUS
  <2>1. doing[r] = "new" /\ key[r] = None /\ next[r] = 1
    BY DEF DpInit
  <2> QED
    BY <2>1 DEF Plans, Keys, Writes, Builds, Complete
<1>4. (\A c, m \in Version : stamp # Fully(c, m)) /\ stamp # FullPlan
  BY <1>1, FilesOfVersions, NowTypes, NoneIsNothing DEF DpInit
<1>5. Stamps
  BY <1>1, <1>4 DEF Stamps, DpTypes
<1>6. NothingExtra /\ OneDeploy /\ board = 0 /\ Packaged
  BY NoneIsNothing DEF DpInit, NothingExtra, OneDeploy, NoTree, Packaged
<1> QED
  BY <1>1, <1>2, <1>3, <1>5, <1>6 DEF DpInv, DpState

\* A deploy that returned Ok has packaged what the present configuration, boards and
\* sources make, and with metadata of these sources unless they were edited since it was
\* made (deploy.rs's run over the stamp of build.rs): for any number of versions and files,
\* under the conditions ImageIsCurrent states.
THEOREM DeployedIsCurrent == DpSpec => []ImageIsCurrent
<1>1. DpInv => ImageIsCurrent
  <2> SUFFICES ASSUME DpInv, StampsInOrder, events \cap {"board", "drop", "overlap"} = {},
                      cfg \notin Profiled, last = "ok"
               PROVE  /\ image = [crate |-> Wanted, source |-> source]
                      /\ "stale" \notin events => meta = source
    BY DEF ImageIsCurrent
  <2>1. "board" \notin events /\ "drop" \notin events /\ "overlap" \notin events
    OBVIOUS
  <2>2. "revert" \in events => "fail" \notin events /\ "source" \notin events
    BY DEF StampsInOrder
  <2>3. DpState
    BY <2>1, <2>2 DEF DpInv, NothingHidden
  <2>4. meta # None /\ Due = meta /\ image = Built
    BY <2>3 DEF DpState, Packaged, Due
  <2>5. Built = [crate |-> Wanted, source |-> source]
    BY <2>3, <2>4 DEF Built, CrateNow, CrateOf, FileOf, Fully, Wanted, DpState
  <2> QED
    BY <2>4, <2>5 DEF DpInv, MetadataKnown
<1> QED
  BY <1>1, DpInitially, DpStep, PTL DEF DpSpec

-----------------------------------------------------------------------------
(* The detached launcher.                                                  *)

Going == {"spawn", "truncate", "write"}
Stopping == {"signal", "remove"}

DlTypes ==
    /\ runs \in [Pid -> Launch \cup {Free, Stranger}]
    /\ zombies \subseteq Pid /\ asked \subseteq Pid
    /\ file \in (SUBSET Pid) \cup {NoFile}
    /\ lpc \in [Launch -> {"new", "ok", "err"} \cup Going]
    /\ pids \in [Launch -> SUBSET Pid]
    /\ spc \in [Stop -> {"new", "ok", "err"} \cup Stopping]
    /\ todo \in [Stop -> SUBSET Pid]

\* Launches of one bringup take turns, whatever the users do: StartLaunch.
OneLaunch == \A k, l \in Launch : lpc[k] \in Going /\ lpc[l] \in Going => k = l

PidsKept ==
    /\ \A p \in Pid, l \in Launch : runs[p] = l => p \in pids[l]
    /\ \A l \in Launch : lpc[l] = "new" => pids[l] = {}

\* A zombie waits for a launcher that has not exited.
Dead == \A p \in zombies : runs[p] \in Launch /\ lpc[runs[p]] \in Going

\* Who got a SIGTERM and is not gone runs.
Alive == \A p \in asked : runs[p] \in Launch /\ p \notin zombies

TodoWhileSignalling == \A s \in Stop : todo[s] # {} => spc[s] = "signal"

\* What holds whatever users and components do.
DlBase ==
    /\ DlTypes
    /\ OneLaunch
    /\ PidsKept
    /\ Dead
    /\ Alive
    /\ TodoWhileSignalling

-----------------------------------------------------------------------------
\* One command at a time.
Turns ==
    /\ \A s \in Stop, l \in Launch : ~(spc[s] \in Stopping /\ lpc[l] \in Going)
    /\ \A s, t \in Stop : spc[s] \in Stopping /\ spc[t] \in Stopping => s = t

\* A launch finds no pidfile, and leaves an empty one while it writes.
FileWhile ==
    \A l \in Launch :
        /\ lpc[l] \in {"spawn", "truncate"} => file = NoFile
        /\ lpc[l] = "write" => file = {}

Left(p) == runs[p] \in Launch /\ lpc[runs[p]] = "ok" /\ p \notin asked

\* What runs and has no SIGTERM yet is named by the pidfile, and while a stop
\* is under way by what it has still to signal.
Found == \A p \in Pid : Left(p) => (file # NoFile /\ p \in file) \/ \E s \in Stop : p \in todo[s]
Unsignalled == \A p \in Pid, s \in Stop : Left(p) /\ spc[s] \in Stopping => p \in todo[s]

InOrder == shown \cap {"relaunch", "overlap"} = {}
OrderInv == InOrder => Turns /\ FileWhile /\ Found /\ Unsignalled

-----------------------------------------------------------------------------
\* Nobody crashes, and the pidfile can be written and removed.
Calm == shown \cap {"crash", "overlap", "readonly"} = {}

Runs(p) == runs[p] \in Launch /\ p \notin asked

NoZombies == zombies = {}
\* What a launch has spawned, what the pidfile names when no stop has read it,
\* and what a stop has still to signal are components that run.
SpawnedRun == \A l \in Launch : lpc[l] \in Going => \A p \in pids[l] : runs[p] = l /\ Runs(p)
FileRuns ==
    (\A s \in Stop : spc[s] \notin Stopping) /\ file # NoFile => \A p \in file : Runs(p)
TodoRuns == \A s \in Stop : \A p \in todo[s] : Runs(p)

CalmInv == Calm => Turns /\ NoZombies /\ SpawnedRun /\ FileRuns /\ TodoRuns

DlInv == DlBase /\ OrderInv /\ CalmInv

-----------------------------------------------------------------------------
LEMMA DlInitially == DlInit => DlInv
  <1> SUFFICES ASSUME DlInit PROVE DlInv
    OBVIOUS
  <1>1. DlTypes
    <2>1. runs \in [Pid -> Launch \cup {Free, Stranger}]
      BY DEF DlInit
    <2>2. lpc \in [Launch -> {"new", "ok", "err"} \cup Going] /\ pids \in [Launch -> SUBSET Pid]
      BY DEF DlInit
    <2>3. spc \in [Stop -> {"new", "ok", "err"} \cup Stopping] /\ todo \in [Stop -> SUBSET Pid]
      BY DEF DlInit
    <2> QED
      BY <2>1, <2>2, <2>3 DEF DlInit, DlTypes
  <1>2. \A p \in Pid : runs[p] \notin Launch
    BY DetachedConstants DEF DlInit
  <1>3. DlBase
    BY <1>1, <1>2
    DEF DlBase, DlInit, OneLaunch, PidsKept, Dead, Alive, TodoWhileSignalling, Going
  <1>4. OrderInv
    BY DEF OrderInv, DlInit, Turns, FileWhile, Found, Unsignalled, Left, Stopping
  <1>5. CalmInv
    BY DEF CalmInv, DlInit, Turns, NoZombies, SpawnedRun, FileRuns, TodoRuns, Stopping
  <1> QED
    BY <1>3, <1>4, <1>5 DEF DlInv

-----------------------------------------------------------------------------
(* The launches' actions.                                                  *)

LEMMA StartLaunchKeeps == ASSUME NEW l \in Launch, DlInv, StartLaunch(l) PROVE DlInv'
  <1> USE DEF DlInv, DlBase, DlTypes
  <1>1. DlTypes'
    BY DEF StartLaunch, LaunchTo, procs, Going
  <1>2. OneLaunch' /\ PidsKept'
    BY DEF StartLaunch, NoLaunchGoing, LaunchTo, procs, OneLaunch, PidsKept, Going
  <1>3. Dead' /\ Alive' /\ TodoWhileSignalling'
    BY DEF StartLaunch, LaunchTo, procs, Dead, Alive, TodoWhileSignalling, Going
  <1>4. OrderInv'
    <2> SUFFICES ASSUME InOrder' PROVE (Turns /\ FileWhile /\ Found /\ Unsignalled)'
      BY DEF OrderInv
    <2>1. InOrder /\ Turns /\ FileWhile /\ Found /\ Unsignalled
      BY DEF StartLaunch, Shows, InOrder, OrderInv
    <2>2. Turns'
      BY DEF StartLaunch, NoStopGoing, Shows, InOrder, Turns, Stopping
    <2>3. FileWhile'
      BY DEF StartLaunch, NoLaunchGoing, Shows, LaunchTo, InOrder, FileWhile
    <2>4. Found' /\ Unsignalled'
      BY <2>1 DEF StartLaunch, LaunchTo, procs, Found, Unsignalled, Left
    <2> QED
      BY <2>2, <2>3, <2>4
  <1>5. CalmInv'
    <2> SUFFICES ASSUME Calm' PROVE (Turns /\ NoZombies /\ SpawnedRun /\ FileRuns /\ TodoRuns)'
      BY DEF CalmInv
    <2>1. Calm /\ Turns /\ NoZombies /\ SpawnedRun /\ FileRuns /\ TodoRuns
      BY DEF StartLaunch, Shows, Calm, CalmInv
    <2>2. Turns' /\ NoZombies'
      BY <2>1 DEF StartLaunch, NoStopGoing, Shows, procs, Calm, Turns, NoZombies, Stopping
    <2>3. SpawnedRun'
      BY DEF StartLaunch, NoLaunchGoing, LaunchTo, SpawnedRun, PidsKept, Going
    <2>4. FileRuns' /\ TodoRuns'
      BY <2>1 DEF StartLaunch, procs, Runs, FileRuns, TodoRuns
    <2> QED
      BY <2>2, <2>3, <2>4
  <1> QED
    BY <1>1, <1>2, <1>3, <1>4, <1>5

LEMMA SpawnOneKeeps == ASSUME NEW l \in Launch, DlInv, SpawnOne(l) PROVE DlInv'
  <1> USE DEF DlInv, DlBase, DlTypes
  <1>1. DlTypes'
    BY DEF SpawnOne, LaunchTo, Going, Stopping
  <1>2. OneLaunch' /\ PidsKept'
    BY DEF SpawnOne, LaunchTo, OneLaunch, PidsKept
  <1>3. Dead' /\ Alive' /\ TodoWhileSignalling'
    BY DEF SpawnOne, LaunchTo, Dead, Alive, TodoWhileSignalling, Going
  <1>4. OrderInv'
    <2> SUFFICES ASSUME InOrder' PROVE (Turns /\ FileWhile /\ Found /\ Unsignalled)'
      BY DEF OrderInv
    <2>1. InOrder /\ Turns /\ FileWhile /\ Found /\ Unsignalled
      BY DEF SpawnOne, LaunchTo, InOrder, OrderInv
    <2>2. Turns'
      BY <2>1 DEF SpawnOne, Turns
    <2>3. FileWhile'
      BY <2>1 DEF SpawnOne, LaunchTo, FileWhile
    <2>4. Found' /\ Unsignalled'
      BY <2>1 DEF SpawnOne, LaunchTo, Found, Unsignalled, Left
    <2> QED
      BY <2>2, <2>3, <2>4
  <1>5. CalmInv'
    <2> SUFFICES ASSUME Calm' PROVE (Turns /\ NoZombies /\ SpawnedRun /\ FileRuns /\ TodoRuns)'
      BY DEF CalmInv
    <2>1. Calm /\ Turns /\ NoZombies /\ SpawnedRun /\ FileRuns /\ TodoRuns
      BY DEF SpawnOne, LaunchTo, Calm, CalmInv
    <2>2. Turns' /\ NoZombies'
      BY <2>1 DEF SpawnOne, Turns, NoZombies
    <2>3. SpawnedRun'
      BY <2>1, DetachedConstants DEF SpawnOne, LaunchTo, Runs, SpawnedRun, Alive
    <2>4. FileRuns' /\ TodoRuns'
      BY <2>1 DEF SpawnOne, Runs, FileRuns, TodoRuns
    <2> QED
      BY <2>2, <2>3, <2>4
  <1> QED
    BY <1>1, <1>2, <1>3, <1>4, <1>5

LEMMA SpawnFailsKeeps == ASSUME NEW l \in Launch, DlInv, SpawnFails(l) PROVE DlInv'
  <1> USE DEF DlInv, DlBase, DlTypes
  <1>1. DlTypes'
    BY DEF SpawnFails, LaunchTo, Leaves
  <1>2. OneLaunch' /\ PidsKept'
    BY DetachedConstants DEF SpawnFails, LaunchTo, Leaves, OneLaunch, PidsKept
  <1>3. Dead' /\ Alive' /\ TodoWhileSignalling'
    BY DEF SpawnFails, LaunchTo, Leaves, Dead, Alive, TodoWhileSignalling
  <1>4. OrderInv'
    <2> SUFFICES ASSUME InOrder' PROVE (Turns /\ FileWhile /\ Found /\ Unsignalled)'
      BY DEF OrderInv
    <2>1. InOrder /\ Turns /\ FileWhile /\ Found /\ Unsignalled
      BY DEF SpawnFails, Shows, InOrder, OrderInv
    <2>2. Turns'
      BY <2>1 DEF SpawnFails, Turns
    <2>3. FileWhile'
      BY DEF SpawnFails, LaunchTo, FileWhile, OneLaunch
    <2>4. Found' /\ Unsignalled'
      BY <2>1, DetachedConstants DEF SpawnFails, LaunchTo, Leaves, Found, Unsignalled, Left
    <2> QED
      BY <2>2, <2>3, <2>4
  <1>5. CalmInv'
    <2> SUFFICES ASSUME Calm' PROVE (Turns /\ NoZombies /\ SpawnedRun /\ FileRuns /\ TodoRuns)'
      BY DEF CalmInv
    <2>1. Calm /\ Turns /\ NoZombies /\ SpawnedRun /\ FileRuns /\ TodoRuns
      BY DEF SpawnFails, Shows, Calm, CalmInv
    <2>2. Turns' /\ NoZombies'
      BY <2>1 DEF SpawnFails, Leaves, Turns, NoZombies
    <2>3. SpawnedRun'
      BY DEF SpawnFails, LaunchTo, SpawnedRun, OneLaunch, Going
    <2>4. FileRuns' /\ TodoRuns'
      BY <2>1 DEF SpawnFails, Leaves, Runs, FileRuns, TodoRuns, NoZombies
    <2> QED
      BY <2>2, <2>3, <2>4
  <1> QED
    BY <1>1, <1>2, <1>3, <1>4, <1>5

LEMMA TruncateFileKeeps == ASSUME NEW l \in Launch, DlInv, TruncateFile(l) PROVE DlInv'
  <1> USE DEF DlInv, DlBase, DlTypes
  <1>1. DlTypes'
    BY DEF TruncateFile, LaunchTo, procs, Going, Stopping
  <1>2. OneLaunch' /\ PidsKept'
    BY DEF TruncateFile, LaunchTo, procs, OneLaunch, PidsKept
  <1>3. Dead' /\ Alive' /\ TodoWhileSignalling'
    BY DEF TruncateFile, LaunchTo, procs, Dead, Alive, TodoWhileSignalling, Going
  <1>4. OrderInv'
    <2> SUFFICES ASSUME InOrder' PROVE (Turns /\ FileWhile /\ Found /\ Unsignalled)'
      BY DEF OrderInv
    <2>1. InOrder /\ Turns /\ FileWhile /\ Found /\ Unsignalled
      BY DEF TruncateFile, InOrder, OrderInv
    <2>2. Turns'
      BY <2>1 DEF TruncateFile, Turns
    <2>3. FileWhile'
      BY DEF TruncateFile, LaunchTo, FileWhile, OneLaunch
    <2>4. Found' /\ Unsignalled'
      BY <2>1 DEF TruncateFile, LaunchTo, procs, Found, Unsignalled, Left, FileWhile
    <2> QED
      BY <2>2, <2>3, <2>4
  <1>5. CalmInv'
    <2> SUFFICES ASSUME Calm' PROVE (Turns /\ NoZombies /\ SpawnedRun /\ FileRuns /\ TodoRuns)'
      BY DEF CalmInv
    <2>1. Calm /\ Turns /\ NoZombies /\ SpawnedRun /\ FileRuns /\ TodoRuns
      BY DEF TruncateFile, LaunchTo, procs, Calm, CalmInv
    <2>2. Turns' /\ NoZombies'
      BY <2>1 DEF TruncateFile, procs, Turns, NoZombies
    <2>3. SpawnedRun'
      BY <2>1 DEF TruncateFile, LaunchTo, procs, Runs, SpawnedRun
    <2>4. FileRuns' /\ TodoRuns'
      BY <2>1 DEF TruncateFile, FileRuns, TodoRuns, Turns, TodoWhileSignalling
    <2> QED
      BY <2>2, <2>3, <2>4
  <1> QED
    BY <1>1, <1>2, <1>3, <1>4, <1>5

LEMMA WritePidfileKeeps == ASSUME NEW l \in Launch, DlInv, WritePidfile(l) PROVE DlInv'
  <1> USE DEF DlInv, DlBase, DlTypes
  <1>1. DlTypes'
    BY DEF WritePidfile, LaunchTo, Leaves, Going, Stopping
  <1>2. OneLaunch' /\ PidsKept'
    BY DetachedConstants DEF WritePidfile, LaunchTo, Leaves, OneLaunch, PidsKept
  <1>3. Dead' /\ Alive' /\ TodoWhileSignalling'
    BY DEF WritePidfile, LaunchTo, Leaves, Dead, Alive, TodoWhileSignalling
  <1>4. OrderInv'
    <2> SUFFICES ASSUME InOrder' PROVE (Turns /\ FileWhile /\ Found /\ Unsignalled)'
      BY DEF OrderInv
    <2>1. InOrder /\ Turns /\ FileWhile /\ Found /\ Unsignalled
      BY DEF WritePidfile, InOrder, OrderInv
    <2>2. Turns'
      BY <2>1 DEF WritePidfile, Turns
    <2>3. FileWhile'
      BY DEF WritePidfile, LaunchTo, FileWhile, OneLaunch
    <2>4. Found' /\ Unsignalled'
      BY <2>1, DetachedConstants
         DEF WritePidfile, LaunchTo, Leaves, Found, Unsignalled, Left, FileWhile, Turns,
             PidsKept
    <2> QED
      BY <2>2, <2>3, <2>4
  <1>5. CalmInv'
    <2> SUFFICES ASSUME Calm' PROVE (Turns /\ NoZombies /\ SpawnedRun /\ FileRuns /\ TodoRuns)'
      BY DEF CalmInv
    <2>1. Calm /\ Turns /\ NoZombies /\ SpawnedRun /\ FileRuns /\ TodoRuns
      BY DEF WritePidfile, LaunchTo, Leaves, Calm, CalmInv
    <2>2. Turns' /\ NoZombies'
      BY <2>1 DEF WritePidfile, Leaves, Turns, NoZombies
    <2>3. SpawnedRun'
      BY DEF WritePidfile, LaunchTo, SpawnedRun, OneLaunch, Going
    <2>4. FileRuns' /\ TodoRuns'
      BY <2>1 DEF WritePidfile, Leaves, Runs, SpawnedRun, FileRuns, TodoRuns, NoZombies
    <2> QED
      BY <2>2, <2>3, <2>4
  <1> QED
    BY <1>1, <1>2, <1>3, <1>4, <1>5

LEMMA WriteFailsKeeps == ASSUME NEW l \in Launch, DlInv, WriteFails(l) PROVE DlInv'
  <1> USE DEF DlInv, DlBase, DlTypes
  <1>1. DlTypes'
    BY DEF WriteFails, LaunchTo, Leaves
  <1>2. OneLaunch' /\ PidsKept'
    BY DetachedConstants DEF WriteFails, LaunchTo, Leaves, OneLaunch, PidsKept
  <1>3. Dead' /\ Alive' /\ TodoWhileSignalling'
    BY DEF WriteFails, LaunchTo, Leaves, Dead, Alive, TodoWhileSignalling
  <1>4. OrderInv'
    <2> SUFFICES ASSUME InOrder' PROVE (Turns /\ FileWhile /\ Found /\ Unsignalled)'
      BY DEF OrderInv
    <2>1. InOrder /\ Turns /\ FileWhile /\ Found /\ Unsignalled
      BY DEF WriteFails, Shows, InOrder, OrderInv
    <2>2. Turns'
      BY <2>1 DEF WriteFails, Turns
    <2>3. FileWhile'
      BY DEF WriteFails, LaunchTo, FileWhile, OneLaunch
    <2>4. Found' /\ Unsignalled'
      BY <2>1, DetachedConstants DEF WriteFails, LaunchTo, Leaves, Found, Unsignalled, Left
    <2> QED
      BY <2>2, <2>3, <2>4
  <1>5. CalmInv'
    <2> SUFFICES ASSUME Calm' PROVE (Turns /\ NoZombies /\ SpawnedRun /\ FileRuns /\ TodoRuns)'
      BY DEF CalmInv
    <2>1. Calm /\ Turns /\ NoZombies /\ SpawnedRun /\ FileRuns /\ TodoRuns
      BY DEF WriteFails, Shows, Calm
    <2>2. Turns' /\ NoZombies'
      BY DEF WriteFails, Shows, Calm
    <2>3. SpawnedRun'
      BY DEF WriteFails, LaunchTo, SpawnedRun, OneLaunch, Going
    <2>4. FileRuns' /\ TodoRuns'
      BY <2>1 DEF WriteFails, Leaves, Runs, FileRuns, TodoRuns, NoZombies
    <2> QED
      BY <2>2, <2>3, <2>4
  <1> QED
    BY <1>1, <1>2, <1>3, <1>4, <1>5

-----------------------------------------------------------------------------
(* The stops' actions.                                                     *)

LEMMA ReadFileKeeps == ASSUME NEW s \in Stop, DlInv, ReadFile(s) PROVE DlInv'
  <1> USE DEF DlInv, DlBase, DlTypes
  <1>1. DlTypes'
    BY DEF ReadFile, StopTo, procs, Stopping
  <1>2. OneLaunch' /\ PidsKept'
    BY DEF ReadFile, procs, OneLaunch, PidsKept
  <1>3. Dead' /\ Alive' /\ TodoWhileSignalling'
    BY DEF ReadFile, StopTo, procs, Dead, Alive, TodoWhileSignalling
  <1>4. OrderInv'
    <2> SUFFICES ASSUME InOrder' PROVE (Turns /\ FileWhile /\ Found /\ Unsignalled)'
      BY DEF OrderInv
    <2>1. InOrder /\ Turns /\ FileWhile /\ Found /\ Unsignalled
      BY DEF ReadFile, Shows, InOrder, OrderInv
    <2>2. Turns'
      BY 
         DEF ReadFile, NoLaunchGoing, NoStopGoing, Shows, StopTo, InOrder, Turns, Going,
             Stopping
    <2>3. FileWhile'
      BY DEF ReadFile, NoLaunchGoing, Shows, InOrder, FileWhile
    <2>4. NoStopGoing
      BY <2>1 DEF ReadFile, Shows, InOrder
    <2>5. \A t \in Stop : todo[t] = {}
      BY <2>4 DEF NoStopGoing, TodoWhileSignalling
    <2>6. CASE file \in {NoFile, {}}
      <3>1. spc' = [spc EXCEPT ![s] = "err"] /\ UNCHANGED <<runs, asked, file, lpc, todo>>
        BY <2>6 DEF ReadFile, StopTo, procs
      <3>2. Found'
        BY <2>1, <3>1 DEF Found, Left
      <3>3. \A t \in Stop : spc'[t] \notin Stopping
        BY <2>4, <3>1 DEF NoStopGoing, Stopping
      <3> QED
        BY <2>2, <2>3, <3>2, <3>3 DEF Stopping, Unsignalled
    <2>7. CASE file \notin {NoFile, {}}
      <3>1. todo' = [todo EXCEPT ![s] = file] /\ spc' = [spc EXCEPT ![s] = "signal"]
            /\ UNCHANGED <<runs, asked, file, lpc>>
        BY <2>7 DEF ReadFile, StopTo, procs
      <3>2. \A p \in Pid : Left(p)' => p \in file
        BY <2>1, <2>5, <3>1 DEF Found, Left
      <3>3. todo'[s] = file' /\ file' # NoFile
        BY <2>7, <3>1
      <3>4. \A t \in Stop : spc'[t] \in Stopping => t = s
        BY <2>4, <3>1 DEF NoStopGoing, Stopping
      <3> QED
        BY <2>2, <2>3, <3>1, <3>2, <3>4 DEF Found, Unsignalled
    <2> QED
      BY <2>2, <2>3, <2>6, <2>7
  <1>5. CalmInv'
    <2> SUFFICES ASSUME Calm' PROVE (Turns /\ NoZombies /\ SpawnedRun /\ FileRuns /\ TodoRuns)'
      BY DEF CalmInv
    <2>1. Calm /\ Turns /\ NoZombies /\ SpawnedRun /\ FileRuns /\ TodoRuns
      BY DEF ReadFile, Shows, Calm, CalmInv
    <2>2. Turns' /\ NoZombies'
      BY <2>1
         DEF ReadFile, NoLaunchGoing, NoStopGoing, Shows, StopTo, procs, Calm, Turns,
             NoZombies, Going, Stopping
    <2>3. SpawnedRun'
      BY <2>1 DEF ReadFile, procs, Runs, SpawnedRun
    <2>4. NoStopGoing
      BY <2>1 DEF ReadFile, Shows, Calm
    <2>5. CASE file \in {NoFile, {}}
      <3>1. spc' = [spc EXCEPT ![s] = "err"] /\ UNCHANGED <<runs, asked, file, todo>>
        BY <2>5 DEF ReadFile, StopTo, procs
      <3>2. file # NoFile => \A p \in file : Runs(p)
        BY <2>1, <2>4 DEF FileRuns, NoStopGoing, Stopping
      <3> QED
        BY <2>1, <2>2, <2>3, <3>1, <3>2 DEF Runs, FileRuns, TodoRuns
    <2>6. CASE file \notin {NoFile, {}}
      <3>1. todo' = [todo EXCEPT ![s] = file] /\ spc' = [spc EXCEPT ![s] = "signal"]
            /\ UNCHANGED <<runs, asked, file>>
        BY <2>6 DEF ReadFile, StopTo, procs
      <3>2. \A p \in file : Runs(p)
        BY <2>1, <2>4, <2>6 DEF FileRuns, NoStopGoing, Stopping
      <3>3. spc'[s] \in Stopping /\ \A t \in Stop : todo'[t] = IF t = s THEN file ELSE todo[t]
        BY <3>1 DEF Stopping
      <3> QED
        BY <2>1, <2>2, <2>3, <3>1, <3>2 DEF Runs, FileRuns, TodoRuns
    <2> QED
      BY <2>2, <2>3, <2>5, <2>6
  <1> QED
    BY <1>1, <1>2, <1>3, <1>4, <1>5

LEMMA SignalKeeps == ASSUME NEW s \in Stop, DlInv, Signal(s) PROVE DlInv'
  <1> USE DEF DlInv, DlBase, DlTypes
  <1>1. DlTypes'
    BY DEF Signal, StopTo, Going, Stopping
  <1>2. OneLaunch' /\ PidsKept'
    BY DEF Signal, OneLaunch, PidsKept
  <1>3. Dead' /\ Alive' /\ TodoWhileSignalling'
    BY DEF Signal, StopTo, Dead, Alive, TodoWhileSignalling
  <1>4. OrderInv'
    <2> SUFFICES ASSUME InOrder' PROVE (Turns /\ FileWhile /\ Found /\ Unsignalled)'
      BY DEF OrderInv
    <2>1. InOrder /\ Turns /\ FileWhile /\ Found /\ Unsignalled
      BY DEF Signal, StopTo, InOrder, OrderInv
    <2>2. Turns'
      BY <2>1 DEF Signal, StopTo, Turns
    <2>3. FileWhile'
      BY <2>1 DEF Signal, FileWhile
    <2>4. Found' /\ Unsignalled'
      BY <2>1 DEF Signal, StopTo, Found, Unsignalled, Left, Dead, Going
    <2> QED
      BY <2>2, <2>3, <2>4
  <1>5. CalmInv'
    <2> SUFFICES ASSUME Calm' PROVE (Turns /\ NoZombies /\ SpawnedRun /\ FileRuns /\ TodoRuns)'
      BY DEF CalmInv
    <2>1. Calm /\ Turns /\ NoZombies /\ SpawnedRun /\ FileRuns /\ TodoRuns
      BY DEF Signal, StopTo, Calm, CalmInv
    <2>2. Turns' /\ NoZombies'
      BY <2>1 DEF Signal, StopTo, Turns, NoZombies
    <2>3. SpawnedRun'
      BY <2>1 DEF Signal, SpawnedRun, Turns
    <2>4. FileRuns' /\ TodoRuns'
      BY <2>1 DEF Signal, StopTo, Runs, FileRuns, TodoRuns, Turns, TodoWhileSignalling, Stopping
    <2> QED
      BY <2>2, <2>3, <2>4
  <1> QED
    BY <1>1, <1>2, <1>3, <1>4, <1>5

LEMMA RemoveFileKeeps == ASSUME NEW s \in Stop, DlInv, RemoveFile(s) PROVE DlInv'
  <1> USE DEF DlInv, DlBase, DlTypes
  <1>1. DlTypes'
    BY DEF RemoveFile, StopTo, procs, Going, Stopping
  <1>2. OneLaunch' /\ PidsKept'
    BY DEF RemoveFile, procs, OneLaunch, PidsKept
  <1>3. Dead' /\ Alive' /\ TodoWhileSignalling'
    BY DEF RemoveFile, StopTo, procs, Dead, Alive, TodoWhileSignalling
  <1>4. OrderInv'
    <2> SUFFICES ASSUME InOrder' PROVE (Turns /\ FileWhile /\ Found /\ Unsignalled)'
      BY DEF OrderInv
    <2>1. InOrder /\ Turns /\ FileWhile /\ Found /\ Unsignalled
      BY DEF RemoveFile, StopTo, procs, InOrder, OrderInv
    <2>2. Turns'
      BY <2>1 DEF RemoveFile, StopTo, Turns
    <2>3. FileWhile'
      BY <2>1 DEF RemoveFile, FileWhile, Turns
    <2>4. Found' /\ Unsignalled'
      BY <2>1 DEF RemoveFile, procs, Found, Unsignalled, Left, TodoWhileSignalling
    <2> QED
      BY <2>2, <2>3, <2>4
  <1>5. CalmInv'
    <2> SUFFICES ASSUME Calm' PROVE (Turns /\ NoZombies /\ SpawnedRun /\ FileRuns /\ TodoRuns)'
      BY DEF CalmInv
    <2>1. Calm /\ Turns /\ NoZombies /\ SpawnedRun /\ FileRuns /\ TodoRuns
      BY DEF RemoveFile, StopTo, procs, Calm, CalmInv
    <2>2. Turns' /\ NoZombies'
      BY <2>1 DEF RemoveFile, StopTo, procs, Turns, NoZombies
    <2>3. SpawnedRun'
      BY <2>1 DEF RemoveFile, SpawnedRun, Turns
    <2>4. FileRuns' /\ TodoRuns'
      BY <2>1 DEF RemoveFile, FileRuns, TodoRuns, Turns, TodoWhileSignalling
    <2> QED
      BY <2>2, <2>3, <2>4
  <1> QED
    BY <1>1, <1>2, <1>3, <1>4, <1>5

LEMMA RemoveFailsKeeps == ASSUME NEW s \in Stop, DlInv, RemoveFails(s) PROVE DlInv'
  <1> USE DEF DlInv, DlBase, DlTypes
  <1>1. DlTypes'
    BY DEF RemoveFails, StopTo, procs
  <1>2. OneLaunch' /\ PidsKept'
    BY DEF RemoveFails, procs, OneLaunch, PidsKept
  <1>3. Dead' /\ Alive' /\ TodoWhileSignalling'
    BY DEF RemoveFails, StopTo, procs, Dead, Alive, TodoWhileSignalling
  <1>4. OrderInv'
    <2> SUFFICES ASSUME InOrder' PROVE (Turns /\ FileWhile /\ Found /\ Unsignalled)'
      BY DEF OrderInv
    <2>1. InOrder /\ Turns /\ FileWhile /\ Found /\ Unsignalled
      BY DEF RemoveFails, Shows, InOrder, OrderInv
    <2>2. Turns'
      BY <2>1 DEF RemoveFails, StopTo, Turns
    <2>3. FileWhile'
      BY <2>1 DEF RemoveFails, FileWhile
    <2>4. Found' /\ Unsignalled'
      BY <2>1 DEF RemoveFails, procs, Found, Unsignalled, Left, TodoWhileSignalling
    <2> QED
      BY <2>2, <2>3, <2>4
  <1>5. CalmInv'
    BY DEF RemoveFails, Shows, Calm, CalmInv
  <1> QED
    BY <1>1, <1>2, <1>3, <1>4, <1>5

-----------------------------------------------------------------------------
(* Components and other programs.                                          *)

LEMMA ComponentEndsKeeps == ASSUME NEW q \in Pid, DlInv, ComponentEnds(q) PROVE DlInv'
  <1> USE DEF DlInv, DlBase, DlTypes
  <1>1. DlTypes'
    BY DEF ComponentEnds, Shows, Going, Stopping
  <1>2. OneLaunch' /\ PidsKept'
    BY DetachedConstants DEF ComponentEnds, OneLaunch, PidsKept
  <1>3. Dead' /\ Alive' /\ TodoWhileSignalling'
    BY DEF ComponentEnds, PidsKept, Dead, Alive, TodoWhileSignalling
  <1>4. OrderInv'
    <2> SUFFICES ASSUME InOrder' PROVE (Turns /\ FileWhile /\ Found /\ Unsignalled)'
      BY DEF OrderInv
    <2>1. InOrder /\ Turns /\ FileWhile /\ Found /\ Unsignalled
      BY DEF ComponentEnds, Shows, InOrder, OrderInv
    <2>2. Turns'
      BY <2>1 DEF ComponentEnds, Turns
    <2>3. FileWhile'
      BY <2>1 DEF ComponentEnds, FileWhile
    <2>4. Found' /\ Unsignalled'
      BY <2>1, DetachedConstants DEF ComponentEnds, Found, Unsignalled, Left
    <2> QED
      BY <2>2, <2>3, <2>4
  <1>5. CalmInv'
    <2> SUFFICES ASSUME Calm' PROVE (Turns /\ NoZombies /\ SpawnedRun /\ FileRuns /\ TodoRuns)'
      BY DEF CalmInv
    <2>1. Calm /\ Turns /\ NoZombies /\ SpawnedRun /\ FileRuns /\ TodoRuns
      BY DEF ComponentEnds, Shows, Calm, CalmInv
    <2>2. q \in asked /\ runs[q] \in Launch
      BY DEF ComponentEnds, Shows, Calm
    <2>3. lpc[runs[q]] \in {"ok", "err"}
      BY <2>1, <2>2 DEF PidsKept, SpawnedRun, Runs
    <2>4. /\ runs' = [runs EXCEPT ![q] = Free] /\ asked' = asked \ {q}
          /\ UNCHANGED <<zombies, file, lpc, pids, spc, todo>>
      BY <2>3 DEF ComponentEnds
    <2>5. Turns' /\ NoZombies'
      BY <2>1, <2>4 DEF Turns, NoZombies
    <2>6. \A p : Runs(p) => p # q
      BY <2>2 DEF Runs
    <2>7. SpawnedRun' /\ FileRuns' /\ TodoRuns'
      BY <2>1, <2>4, <2>6 DEF Runs, SpawnedRun, FileRuns, TodoRuns
    <2> QED
      BY <2>5, <2>7
  <1> QED
    BY <1>1, <1>2, <1>3, <1>4, <1>5

LEMMA OtherProgramKeeps == ASSUME NEW q \in Pid, DlInv, OtherProgram(q) PROVE DlInv'
  <1> USE DEF DlInv, DlBase, DlTypes
  <1>1. DlTypes'
    BY DEF OtherProgram, Going, Stopping
  <1>2. OneLaunch' /\ PidsKept'
    BY DetachedConstants DEF OtherProgram, OneLaunch, PidsKept
  <1>3. Dead' /\ Alive' /\ TodoWhileSignalling'
    BY DetachedConstants DEF OtherProgram, Dead, Alive, TodoWhileSignalling
  <1>4. OrderInv'
    <2> SUFFICES ASSUME InOrder' PROVE (Turns /\ FileWhile /\ Found /\ Unsignalled)'
      BY DEF OrderInv
    <2>1. InOrder /\ Turns /\ FileWhile /\ Found /\ Unsignalled
      BY DEF OtherProgram, InOrder, OrderInv
    <2>2. Turns'
      BY <2>1 DEF OtherProgram, Turns
    <2>3. FileWhile'
      BY <2>1 DEF OtherProgram, FileWhile
    <2>4. Found' /\ Unsignalled'
      BY <2>1, DetachedConstants DEF OtherProgram, Found, Unsignalled, Left
    <2> QED
      BY <2>2, <2>3, <2>4
  <1>5. CalmInv'
    <2> SUFFICES ASSUME Calm' PROVE (Turns /\ NoZombies /\ SpawnedRun /\ FileRuns /\ TodoRuns)'
      BY DEF CalmInv
    <2>1. Calm /\ Turns /\ NoZombies /\ SpawnedRun /\ FileRuns /\ TodoRuns
      BY DEF OtherProgram, Calm, CalmInv
    <2>2. Turns' /\ NoZombies'
      BY <2>1 DEF OtherProgram, Turns, NoZombies
    <2>3. SpawnedRun'
      BY <2>1, DetachedConstants DEF OtherProgram, Runs, SpawnedRun
    <2>4. FileRuns' /\ TodoRuns'
      BY <2>1, DetachedConstants DEF OtherProgram, Runs, FileRuns, TodoRuns
    <2> QED
      BY <2>2, <2>3, <2>4
  <1> QED
    BY <1>1, <1>2, <1>3, <1>4, <1>5

-----------------------------------------------------------------------------
LEMMA DlStutters == ASSUME DlInv, UNCHANGED dlVars PROVE DlInv'
  BY DEF dlVars, DlInv, DlBase, DlTypes, OneLaunch, PidsKept, Dead, Alive, TodoWhileSignalling,
         OrderInv, InOrder, Turns, FileWhile, Found, Unsignalled, Left,
         CalmInv, Calm, NoZombies, SpawnedRun, FileRuns, TodoRuns, Runs

LEMMA DlStep == DlInv /\ [DlNext]_dlVars => DlInv'
  <1> SUFFICES ASSUME DlInv, [DlNext]_dlVars PROVE DlInv'
    OBVIOUS
  <1>1. ASSUME NEW l \in Launch,
               \/ StartLaunch(l) \/ SpawnOne(l) \/ SpawnFails(l)
               \/ TruncateFile(l) \/ WritePidfile(l) \/ WriteFails(l)
        PROVE DlInv'
    BY <1>1, StartLaunchKeeps, SpawnOneKeeps, SpawnFailsKeeps, TruncateFileKeeps,
       WritePidfileKeeps, WriteFailsKeeps
  <1>2. ASSUME NEW s \in Stop, ReadFile(s) \/ Signal(s) \/ RemoveFile(s) \/ RemoveFails(s)
        PROVE DlInv'
    BY <1>2, ReadFileKeeps, SignalKeeps, RemoveFileKeeps, RemoveFailsKeeps
  <1>3. ASSUME NEW p \in Pid, ComponentEnds(p) \/ OtherProgram(p)
        PROVE DlInv'
    BY <1>3, ComponentEndsKeeps, OtherProgramKeeps
  <1>4. CASE UNCHANGED dlVars
    BY <1>4, DlStutters
  <1> QED
    BY <1>1, <1>2, <1>3, <1>4 DEF DlNext

LEMMA DlInvariant == DlSpec => []DlInv
  BY DlInitially, DlStep, PTL DEF DlSpec

-----------------------------------------------------------------------------
\* What a detached launch that returned Ok left running is named by the pidfile
\* or is being stopped, for any number of launches, stops and components, as
\* long as nobody launches the bringup again before stopping it and no command
\* runs beside a stop (launch.rs run_detached, run_stop).
THEOREM LeftCanBeStopped == DlSpec => []Stoppable
  <1>1. DlInv => Stoppable
    BY DEF DlInv, OrderInv, InOrder, Found, Left, Stoppable, Reachable
  <1> QED
    BY <1>1, DlInvariant, PTL

\* A stop signals components only: what it has read are components that run,
\* as long as they end only when stopped, stops come one after the other and
\* the pidfile can be written and removed.
THEOREM StopsSignalOwnOnly == DlSpec => SignalsOwnOnly
  <1>1. DlInv /\ [DlNext]_dlVars =>
          [shown' \cap {"crash", "overlap", "readonly"} = {} =>
             \A s \in Stop : \A p \in todo[s] \ todo'[s] : runs[p] # Stranger]_dlVars
    <2> SUFFICES ASSUME DlInv, DlNext, shown' \cap {"crash", "overlap", "readonly"} = {},
                        NEW s \in Stop, NEW p \in todo[s]
                 PROVE runs[p] # Stranger
      OBVIOUS
    <2>1. shown \subseteq shown'
      BY DEF DlNext, StartLaunch, SpawnOne, SpawnFails, TruncateFile, WritePidfile, WriteFails,
             ReadFile, Signal, RemoveFile, RemoveFails, ComponentEnds, OtherProgram, Shows
    <2>2. Runs(p)
      BY <2>1 DEF DlInv, CalmInv, Calm, TodoRuns
    <2> QED
      BY <2>2, DetachedConstants DEF Runs
  <1> QED
    BY <1>1, DlInvariant, PTL DEF DlSpec, SignalsOwnOnly

-----------------------------------------------------------------------------
(* The layout of a workspace.                                              *)

MigrateCmd ==
    [verb : {"migrate"},
     step : {"system", "copy", "unlink", "patch", "manifests", "metadata", "package.xml",
             "bringup", "nros.toml", "root"},
     bringup : Bringup, pkgs : SUBSET Pkg, todo : Seq(Pkg),
     found : [Pkg -> SUBSET (LegacyForm \X Node)],
     launch : BOOLEAN, deploy : SUBSET Target]
SystemCmd ==
    [verb : {"system"}, step : {"wipe", "xml", "toml", "launch", "exclude"},
     bringup : Bringup, pkgs : SUBSET Pkg]
DeployCmd ==
    [verb : {"deploy"}, step : {"table", "glue"}, target : Target, table : DeployTable,
     force : BOOLEAN]
ComponentCmd == [verb : {"component"}, step : {"xml", "cargo", "manifest"}, pkg : Pkg]
Cmd == MigrateCmd \cup SystemCmd \cup DeployCmd \cup ComponentCmd

WlTypes ==
    /\ shape \in Shape
    /\ config \in ConfigFile \cup {Absent, Garbled}
    /\ manifest \in [Pkg -> SUBSET Manifest]
    /\ cargo \in [Pkg -> CargoToml \cup {Absent, Garbled}]
    /\ packageXml \in [Pkg -> PackageXml \cup {Absent}]
    /\ recorded \in [Pkg -> BOOLEAN] /\ launchFile \in BOOLEAN
    /\ bringup \in [Bringup -> BringupDir \cup {Absent}]
    /\ root \in RootToml \cup {Absent, Garbled}
    /\ glue \in [Target -> {"none", "stub", "user", "part"}]
    /\ cmd \in Cmd \cup {NothingRuns}
    /\ report \in [verb : {"none", "already", "migrate", "system", "deploy", "component"},
                   bringup : Bringup \cup {Absent}, target : Target \cup {Absent}]
    /\ cuts \in Nat /\ rerun \in BOOLEAN

-----------------------------------------------------------------------------
\* While a command runs nothing is reported; it finds what its earlier steps left.
MigrateFacts ==
    cmd.verb = "migrate" =>
        LET b == bringup[cmd.bringup] IN
        /\ cmd.step \in ToSet(PackageSteps) => cmd.todo # <<>>
        /\ cmd.step \in {"manifests", "metadata", "package.xml"} =>
              cargo[Head(cmd.todo)] \in CargoToml
        /\ cmd.step # "system" => b \in BringupDir /\ b.system \in SystemToml
        /\ cmd.launch /\ cmd.step \notin {"system", "copy"} => b.launch = "whole"
        /\ cmd.step \in {"nros.toml", "root"} => b.xml = {r[1] : r \in b.system.rows}
SystemFacts ==
    cmd.verb = "system" =>
        LET b == bringup[cmd.bringup] IN
        /\ cmd.step \notin {"wipe", "xml"} => b \in BringupDir /\ b.xml = cmd.pkgs
        /\ cmd.step \in {"launch", "exclude"} =>
              b.system \in SystemToml /\ {r[1] : r \in b.system.rows} = cmd.pkgs
        /\ cmd.step = "exclude" => b.launch = "whole"
DeployFacts ==
    cmd.verb = "deploy" =>
        /\ config \in ConfigFile
        /\ OwnCode(cmd.target, cmd.table)
        /\ cmd.step = "table" =>
              /\ Valid(WithTarget(cmd.target, cmd.table))
              /\ cmd.target \in DOMAIN config.deploy => cmd.force
        /\ cmd.step = "glue" =>
              /\ Valid(config) /\ cmd.target \in DOMAIN config.deploy
              /\ config.deploy[cmd.target] = cmd.table
              /\ glue[cmd.target] = "part" => cmd.force \/ cuts > 1
Silent == cmd # NothingRuns => report = NoReport
TargetReported == report.target # Absent => config \in ConfigFile

\* A code directory belongs to its target.
Tables ==
    config \in ConfigFile =>
        /\ config.components = shape.config.components
        /\ \A t \in DOMAIN config.deploy : OwnCode(t, config.deploy[t])
\* One cut spoils the glue of a target or loses the target.
Spoilt ==
    /\ cuts = 0 => config # Garbled /\ \A t \in Target : glue[t] # "part"
    /\ cuts = 1 => \A t \in Target : glue[t] = "part" =>
          config # Garbled /\ (config \in ConfigFile => t \in DOMAIN config.deploy)

-----------------------------------------------------------------------------
Components == ToSet(shape.config.components)
Same(p) == manifest[p] = shape.manifest[p]
\* Its Cargo.toml has what its manifests and package.xml had.
Moved(p) ==
    /\ cargo[p] \in CargoToml
    /\ cargo[p].nodes = NodesIn(shape.manifest[p])
    /\ cargo[p].ament = AmentOf(shape.packageXml[p])
Migrated(p) ==
    /\ shape.manifest[p] # {} /\ manifest[p] = {} /\ ~recorded[p] /\ Moved(p)
    /\ packageXml[p] = [marked |-> TRUE, depends |-> AmentOf(shape.packageXml[p])]

\* A package whose manifests have begun to go has been moved.
Kept(p) ==
    /\ shape.manifest[p] = {} => \A m \in manifest[p] : m[1] = "nros.toml"
    /\ shape.manifest[p] # {} =>
          /\ manifest[p] \subseteq shape.manifest[p]
          /\ Same(p) => packageXml[p] = shape.packageXml[p]
          /\ ~Same(p) => Moved(p)

\* How far a migration is.
Progress ==
    cmd.verb = "migrate" =>
        /\ cmd.pkgs = Components /\ cmd.launch = shape.config.launch
        /\ \A p \in Components : shape.manifest[p] # {} /\ cmd.found[p] = shape.manifest[p]
        /\ ToSet(cmd.todo) \subseteq Components /\ IsInjective(cmd.todo)
        /\ \A p \in Components \ ToSet(cmd.todo) : Migrated(p)
        /\ cmd.step \notin ToSet(PackageSteps) => \A p \in ToSet(cmd.todo) : Same(p)
        /\ cmd.step \in ToSet(PackageSteps) =>
              /\ \A p \in ToSet(Tail(cmd.todo)) : Same(p)
              /\ LET p == Head(cmd.todo) IN
                 /\ cmd.step = "patch" => Same(p)
                 /\ cmd.step # "patch" => Moved(p)
                 /\ cmd.step \in {"metadata", "package.xml"} => manifest[p] = {}
                 /\ cmd.step = "package.xml" => ~recorded[p]
        /\ cmd.step \in {"bringup", "nros.toml", "root"} => cmd.todo = <<>>
        /\ cmd.step = "root" => config = Absent
        /\ ~AlreadyMigrated
NewPackage == cmd.verb = "component" => shape.manifest[cmd.pkg] = {}

\* What the root Cargo.toml is read for.
Over ==
    AlreadyMigrated =>
        /\ config = Absent /\ root.system \in root.exclude
        /\ \A p \in Components : Migrated(p) /\ p \in root.members
Reported ==
    /\ report.verb \in {"migrate", "already"} => AlreadyMigrated
    /\ report.verb = "migrate" =>
          /\ report.bringup \in Bringup
          /\ shape.config.launch => bringup[report.bringup].launch = "whole"

MigrationInv == (\A p \in Pkg : Kept(p)) /\ Progress /\ NewPackage /\ Over /\ Reported

RunFacts ==
    /\ MigrateFacts /\ SystemFacts /\ DeployFacts
    /\ Silent /\ TargetReported /\ Tables /\ Spoilt
WlInv == WlTypes /\ RunFacts /\ OkPasses /\ (~rerun => MigrationInv)

-----------------------------------------------------------------------------
(* Types.                                                                   *)

LEMMA OldShapes == WlTypes => OldShape(shape)
BY LayoutConstants DEF WlTypes

LEMMA EmptyBringup ==
    ASSUME NEW system \in SystemToml
    PROVE  [system |-> system, xml |-> Absent, launch |-> "none"] \in BringupDir
BY DEF BringupDir

LEMMA CmdByVerb ==
    ASSUME cmd \in Cmd \cup {NothingRuns}
    PROVE  /\ cmd.verb = "migrate" => cmd \in MigrateCmd
           /\ cmd.verb = "system" => cmd \in SystemCmd
           /\ cmd.verb = "deploy" => cmd \in DeployCmd
           /\ cmd.verb = "component" => cmd \in ComponentCmd
           /\ cmd # NothingRuns => cmd.verb \in {"migrate", "system", "deploy", "component"}
           /\ cmd = NothingRuns => cmd.verb = "none"
BY DEF Cmd, MigrateCmd, SystemCmd, DeployCmd, ComponentCmd, NothingRuns

LEMMA DoneTypes ==
    ASSUME WlTypes, NEW what, Done(what),
           what \in [verb : {"none", "already", "migrate", "system", "deploy", "component"},
                     bringup : Bringup \cup {Absent}, target : Target \cup {Absent}]
    PROVE  /\ cmd' \in Cmd \cup {NothingRuns}
           /\ report' \in [verb : {"none", "already", "migrate", "system", "deploy", "component"},
                           bringup : Bringup \cup {Absent}, target : Target \cup {Absent}]
BY DEF Done

LEMMA NoReportType ==
    NoReport \in [verb : {"none", "already", "migrate", "system", "deploy", "component"},
                  bringup : Bringup \cup {Absent}, target : Target \cup {Absent}]
BY DEF NoReport

LEMMA SequenceFacts ==
    ASSUME NEW S, NEW s \in Seq(S), s # <<>>
    PROVE  /\ Head(s) \in S /\ Tail(s) \in Seq(S)
           /\ ToSet(s) = {Head(s)} \cup ToSet(Tail(s))
           /\ IsInjective(s) => IsInjective(Tail(s)) /\ Head(s) \notin ToSet(Tail(s))
<1>1. /\ Len(s) \in Nat \ {0} /\ DOMAIN s = 1 .. Len(s) /\ Head(s) = s[1]
      /\ Tail(s) \in Seq(S) /\ DOMAIN Tail(s) = 1 .. Len(s) - 1
      /\ \A i \in 1 .. Len(s) - 1 : Tail(s)[i] = s[i + 1]
  OBVIOUS
<1>2. Head(s) \in S
  BY <1>1
<1>3. ToSet(s) = {Head(s)} \cup ToSet(Tail(s))
  <2>1. ASSUME NEW i \in DOMAIN s PROVE s[i] \in {Head(s)} \cup ToSet(Tail(s))
    <3>1. CASE i = 1
      BY <1>1, <3>1
    <3>2. CASE i # 1
      <4>1. i - 1 \in DOMAIN Tail(s) /\ Tail(s)[i - 1] = s[i]
        BY <1>1, <3>2
      <4> QED
        BY <4>1 DEF ToSet
    <3> QED
      BY <3>1, <3>2
  <2>2. ASSUME NEW i \in DOMAIN Tail(s) PROVE Tail(s)[i] \in ToSet(s)
    <3>1. i + 1 \in DOMAIN s /\ Tail(s)[i] = s[i + 1]
      BY <1>1
    <3> QED
      BY <3>1 DEF ToSet
  <2>3. Head(s) \in ToSet(s)
    BY <1>1 DEF ToSet
  <2> QED
    BY <2>1, <2>2, <2>3 DEF ToSet
<1>4. ASSUME IsInjective(s) PROVE IsInjective(Tail(s)) /\ Head(s) \notin ToSet(Tail(s))
  <2>1. \A i, j \in DOMAIN s : s[i] = s[j] => i = j
    BY <1>4 DEF IsInjective
  <2>2. ASSUME NEW i \in DOMAIN Tail(s), NEW j \in DOMAIN Tail(s), Tail(s)[i] = Tail(s)[j]
        PROVE  i = j
    BY <1>1, <2>1, <2>2
  <2>3. ASSUME NEW i \in DOMAIN Tail(s) PROVE Tail(s)[i] # Head(s)
    BY <1>1, <2>1
  <2> QED
    BY <2>2, <2>3 DEF IsInjective, ToSet
<1> QED
  BY <1>1, <1>2, <1>3, <1>4

LEMMA NodesTyped ==
    ASSUME NEW ms \in SUBSET Manifest PROVE NodesIn(ms) \subseteq Node
BY DEF NodesIn, Manifest

LEMMA AmentTyped ==
    ASSUME NEW xml \in PackageXml \cup {Absent}
    PROVE  AmentOf(xml) \subseteq Dependency
<1>1. CASE xml = Absent
  BY <1>1 DEF AmentOf
<1>2. CASE xml \in PackageXml /\ xml # Absent
  <2>1. xml.depends \subseteq Dependency
    BY <1>2 DEF PackageXml
  <2>2. ASSUME NEW d \in Dependency
        PROVE  d[2] \in Pkg /\ {<<"build", d[2]>>, <<"exec", d[2]>>} \subseteq Dependency
    BY DEF Dependency
  <2>3. ASSUME NEW d \in xml.depends
        PROVE  (CASE d[1] \in {"build", "exec", "test"} -> {d}
                  [] d[1] = "depend" -> {<<"build", d[2]>>, <<"exec", d[2]>>}
                  [] OTHER -> {}) \subseteq Dependency
    BY <2>1, <2>2
  <2> QED
    BY <1>2, <2>3 DEF AmentOf
<1> QED
  BY <1>1, <1>2

LEMMA PlanTyped ==
    ASSUME WlTypes, NEW b \in Bringup, config \in ConfigFile
    PROVE  MigrationPlan(b) \in MigrateCmd
<1>1. ToSet(config.components) \subseteq Pkg /\ config.components \in Seq(Pkg)
  BY DEF ConfigFile, ToSet
<1>2. [p \in Pkg |-> Discover(p)] \in [Pkg -> SUBSET (LegacyForm \X Node)]
  BY DEF WlTypes, Discover, Manifest, LegacyForm
<1>3. Converted(config.deploy) \subseteq Target
  BY DEF Converted, ConfigFile
<1> QED
  BY <1>1, <1>2, <1>3 DEF MigrationPlan, MigrateCmd, WlTypes

LEMMA TargetTyped ==
    ASSUME config \in ConfigFile, NEW t \in Target, NEW d \in DeployTable
    PROVE  /\ WithTarget(t, d) \in ConfigFile
           /\ DOMAIN WithTarget(t, d).deploy = DOMAIN config.deploy \cup {t}
           /\ WithTarget(t, d).deploy[t] = d
           /\ \A u \in DOMAIN config.deploy : u # t => WithTarget(t, d).deploy[u] = config.deploy[u]
           /\ WithTarget(t, d).components = config.components
<1>1. PICK some \in SUBSET Target : config.deploy \in [some -> DeployTable]
  BY DEF ConfigFile
<1> DEFINE more == [u \in DOMAIN config.deploy \cup {t} |-> IF u = t THEN d ELSE config.deploy[u]]
           Deploys == UNION {[some2 -> DeployTable] : some2 \in SUBSET Target}
<1>2. more \in [some \cup {t} -> DeployTable]
  BY <1>1
<1>3. more \in Deploys
  BY <1>2
<1>4. /\ DOMAIN more = DOMAIN config.deploy \cup {t} /\ more[t] = d
      /\ \A u \in DOMAIN config.deploy : u # t => more[u] = config.deploy[u]
  OBVIOUS
<1>5. WithTarget(t, d) = [config EXCEPT !.deploy = more]
  BY DEF WithTarget
<1> HIDE DEF more
<1>6. config \in [systems : Nat, components : Seq(Pkg), launch : BOOLEAN, deploy : Deploys]
  BY DEF ConfigFile
<1> HIDE DEF Deploys
<1>7. /\ [config EXCEPT !.deploy = more] \in
           [systems : Nat, components : Seq(Pkg), launch : BOOLEAN, deploy : Deploys]
      /\ [config EXCEPT !.deploy = more].deploy = more
      /\ [config EXCEPT !.deploy = more].components = config.components
  BY <1>3, <1>6
<1> QED
  BY <1>4, <1>5, <1>7 DEF ConfigFile, Deploys

LEMMA NewTableTyped ==
    ASSUME config \in ConfigFile, Tables, NEW t \in Target,
           NEW kind \in {"self", "vendor-lib", "vendor-module"},
           NEW from \in Target \cup {Absent}, from # Absent => from \in DOMAIN config.deploy,
           NEW d, d = IF from = Absent THEN FreshTarget(t, kind) ELSE Forked(t, config.deploy[from])
    PROVE  d \in DeployTable /\ OwnCode(t, d)
<1>1. CASE from = Absent
  BY <1>1 DEF FreshTarget, DeployTable, OwnCode
<1>2. CASE from # Absent
  <2>1. config.deploy[from] \in DeployTable /\ OwnCode(from, config.deploy[from])
    BY <1>2 DEF ConfigFile, Tables
  <2> QED
    BY <1>2, <2>1 DEF Forked, DeployTable, OwnCode
<1> QED
  BY <1>1, <1>2

LEMMA TypesInit == WlInit => WlTypes
<1> SUFFICES ASSUME WlInit PROVE WlTypes
  OBVIOUS
<1>1. OldShape(shape)
  BY LayoutConstants DEF WlInit
<1>2. \A p \in Pkg : shape.manifest[p] \subseteq Manifest
  BY <1>1 DEF OldShape, Manifest, LegacyForm
<1>3. shape.manifest \in [Pkg -> SUBSET Manifest] /\ shape.config.launch \in BOOLEAN
  BY <1>1, <1>2 DEF OldShape, ConfigFile
<1> QED
  BY <1>1, <1>3, NoReportType DEF WlInit, WlTypes, OldShape

LEMMA TypesBegin ==
    ASSUME WlTypes, NEW c \in Cmd, Begins(c), rerun' \in BOOLEAN,
           UNCHANGED <<tomls, dirs, shape, cuts>>
    PROVE  WlTypes'
BY NoReportType DEF WlTypes, Begins, tomls, dirs

LEMMA TypesGive ==
    ASSUME WlTypes, RunFacts, GiveCommand
    PROVE  WlTypes'
<1>1. CASE AnswerMigrated
  <2>1. [verb |-> "already", bringup |-> Absent, target |-> Absent] \in
           [verb : {"none", "already", "migrate", "system", "deploy", "component"},
            bringup : Bringup \cup {Absent}, target : Target \cup {Absent}]
    OBVIOUS
  <2> QED
    BY <1>1, <2>1, DoneTypes DEF AnswerMigrated, WlTypes, tomls, dirs
<1>2. ASSUME NEW b \in Bringup, NEW force \in BOOLEAN, Migrate(b, force)
      PROVE  WlTypes'
  <2>1. config \in ConfigFile
    BY <1>2 DEF Migrate, CanMigrate, There, WlTypes
  <2>2. MigrationPlan(b) \in Cmd
    BY <2>1, PlanTyped DEF Cmd
  <2> QED
    BY <1>2, <2>2, TypesBegin DEF Migrate, WlTypes
<1>3. ASSUME NEW b \in Bringup, NEW force \in BOOLEAN, NEW pkgs \in ComponentLists,
             NewSystem(b, pkgs, force)
      PROVE  WlTypes'
  <2>1. pkgs \in SUBSET Pkg
    BY LayoutConstants
  <2>2. [verb |-> "system", step |-> "wipe", bringup |-> b, pkgs |-> pkgs] \in SystemCmd
    BY <2>1 DEF SystemCmd
  <2> QED
    BY <1>3, <2>2, TypesBegin DEF NewSystem, WlTypes, Cmd
<1>4. ASSUME NEW t \in Target, NEW force \in BOOLEAN,
             NEW kind \in {"self", "vendor-lib", "vendor-module"}, NEW from \in Target \cup {Absent},
             NewDeploy(t, kind, from, force)
      PROVE  WlTypes'
  <2> DEFINE d == IF from = Absent THEN FreshTarget(t, kind) ELSE Forked(t, config.deploy[from])
  <2>1. config \in ConfigFile /\ (from # Absent => from \in DOMAIN config.deploy)
    BY <1>4 DEF NewDeploy, There, WlTypes
  <2>2. d \in DeployTable
    BY <2>1, NewTableTyped DEF RunFacts
  <2>3. [verb |-> "deploy", step |-> "table", target |-> t, table |-> d, force |-> force]
           \in DeployCmd
    BY <2>2 DEF DeployCmd
  <2> QED
    BY <1>4, <2>3, TypesBegin DEF NewDeploy, WlTypes, Cmd
<1>5. ASSUME NEW p \in Pkg, NewComponent(p)
      PROVE  WlTypes'
  <2>1. [verb |-> "component", step |-> "xml", pkg |-> p] \in ComponentCmd
    BY DEF ComponentCmd
  <2> QED
    BY <1>5, <2>1, TypesBegin DEF NewComponent, WlTypes, Cmd
<1> QED
  BY <1>1, <1>2, <1>3, <1>4, <1>5 DEF GiveCommand

\* StepTaken on in a migration.
LEMMA StepTypes ==
    ASSUME cmd \in MigrateCmd, NEW step \in {"copy", "unlink", "patch", "manifests", "metadata",
                                             "package.xml", "bringup", "nros.toml", "root"}
    PROVE  [cmd EXCEPT !.step = step] \in MigrateCmd
BY DEF MigrateCmd

LEMMA GoesOnTypes ==
    ASSUME cmd \in MigrateCmd, cmd.step \in ToSet(PackageSteps), cmd.todo # <<>>, GoesOn
    PROVE  cmd' \in MigrateCmd
<1>1. PackageSteps = <<"patch", "manifests", "metadata", "package.xml">>
  BY DEF PackageSteps
<1>2. CASE cmd.step = Last(PackageSteps)
  <2>1. Tail(cmd.todo) \in Seq(Pkg)
    BY SequenceFacts DEF MigrateCmd
  <2>2. FirstStep(Tail(cmd.todo)) \in {"bringup", "patch"}
    BY DEF FirstStep, PackageSteps
  <2> QED
    BY <1>2, <2>1, <2>2 DEF GoesOn, MigrateCmd
<1>3. CASE cmd.step # Last(PackageSteps)
  <2>1. PICK k \in 1 .. 3 : cmd' = [cmd EXCEPT !.step = PackageSteps[k + 1]]
    BY <1>3 DEF GoesOn
  <2>2. PackageSteps[k + 1] \in {"manifests", "metadata", "package.xml"}
    BY <1>1
  <2> QED
    BY <2>1, <2>2, StepTypes
<1> QED
  BY <1>2, <1>3

\* What every command leaves alone keeps its type.
LEMMA FirstStepIs ==
    ASSUME NEW pkgs PROVE FirstStep(pkgs) \in {"patch", "bringup"}
BY DEF FirstStep, PackageSteps

\* The steps of a migration that write more than one field.
LEMMA SystemWritten ==
    ASSUME WlTypes, cmd \in MigrateCmd, WriteSystem
    PROVE  /\ bringup' \in [Bringup -> BringupDir \cup {Absent}]
           /\ bringup'[cmd.bringup] \in BringupDir
           /\ bringup'[cmd.bringup].system \in SystemToml
           /\ bringup[cmd.bringup] # Absent =>
                 bringup'[cmd.bringup].launch = bringup[cmd.bringup].launch
           /\ \A b \in Bringup : b # cmd.bringup => bringup'[b] = bringup[b]
<1> DEFINE rows == UNION {{<<q, n>> : n \in NodesIn(cmd.found[q])} : q \in cmd.pkgs}
           b == bringup[cmd.bringup]
           new == [system |-> [rows |-> rows, deploy |-> cmd.deploy],
                   xml |-> IF b = Absent THEN Absent ELSE b.xml,
                   launch |-> IF b = Absent THEN "none" ELSE b.launch]
<1>1. cmd.bringup \in Bringup /\ \A q \in cmd.pkgs : q \in Pkg /\ NodesIn(cmd.found[q]) \subseteq Node
  BY DEF MigrateCmd, NodesIn
<1>2. [rows |-> rows, deploy |-> cmd.deploy] \in SystemToml
  BY <1>1 DEF SystemToml, MigrateCmd
<1>3. new \in BringupDir
  <2>1. CASE b = Absent
    <3>1. new = [system |-> [rows |-> rows, deploy |-> cmd.deploy], xml |-> Absent, launch |-> "none"]
      BY <2>1
    <3> QED
      BY <1>2, <3>1, EmptyBringup
  <2>2. CASE b # Absent
    <3>1. b \in BringupDir
      BY <1>1, <2>2 DEF WlTypes
    <3>2. new = [system |-> [rows |-> rows, deploy |-> cmd.deploy], xml |-> b.xml,
                 launch |-> b.launch]
      BY <2>2
    <3> HIDE DEF new, b
    <3> QED
      BY <1>2, <3>1, <3>2 DEF BringupDir
  <2> QED
    BY <2>1, <2>2
<1>4. new.system = [rows |-> rows, deploy |-> cmd.deploy] /\ (b # Absent => new.launch = b.launch)
  OBVIOUS
<1>5. bringup' = [bringup EXCEPT ![cmd.bringup] = new]
  BY DEF WriteSystem
<1> HIDE DEF new
<1> QED
  BY <1>1, <1>2, <1>3, <1>4, <1>5 DEF WlTypes

LEMMA PackagePatched ==
    ASSUME WlTypes, cmd \in MigrateCmd, PatchPackage, cmd.todo # <<>>,
           cargo[Head(cmd.todo)] # Garbled
    PROVE  /\ cargo' \in [Pkg -> CargoToml \cup {Absent, Garbled}]
           /\ cargo'[Head(cmd.todo)] \in CargoToml
           /\ cargo'[Head(cmd.todo)].nodes = NodesIn(cmd.found[Head(cmd.todo)])
           /\ cargo'[Head(cmd.todo)].ament = AmentOf(packageXml[Head(cmd.todo)])
           /\ \A q \in Pkg : q # Head(cmd.todo) => cargo'[q] = cargo[q]
           /\ GoesOn /\ report' = report
<1> DEFINE p == Head(cmd.todo)
           new == [named |-> cargo[p] = Absent \/ cargo[p].named, nodes |-> NodesIn(cmd.found[p]),
                   ament |-> AmentOf(packageXml[p])]
<1>1. p \in Pkg
  BY SequenceFacts DEF MigrateCmd
<1>2. /\ NodesIn(cmd.found[p]) \subseteq Node
      /\ AmentOf(packageXml[p]) \subseteq Dependency
  BY <1>1, AmentTyped DEF MigrateCmd, NodesIn, WlTypes
<1>3. new \in CargoToml
  BY <1>1, <1>2 DEF CargoToml, WlTypes
<1>4. new.nodes = NodesIn(cmd.found[p]) /\ new.ament = AmentOf(packageXml[p])
  OBVIOUS
<1>5. cargo' = [cargo EXCEPT ![p] = new] /\ GoesOn /\ report' = report
  BY DEF PatchPackage
<1> HIDE DEF new
<1> QED
  BY <1>1, <1>3, <1>4, <1>5 DEF WlTypes

LEMMA RootPatched ==
    ASSUME WlTypes, cmd \in MigrateCmd, PatchRoot, root # Garbled
    PROVE  /\ root' \in RootToml /\ root'.system = cmd.bringup
           /\ cmd.bringup \in root'.exclude /\ cmd.pkgs \subseteq root'.members
           /\ cmd' = NothingRuns
           /\ report' = [verb |-> "migrate", bringup |-> cmd.bringup, target |-> Absent]
<1> DEFINE old == IF root = Absent THEN [members |-> {}, exclude |-> {}] ELSE root
<1>1. cmd.bringup \in Bringup /\ cmd.pkgs \subseteq Pkg
  BY DEF MigrateCmd
<1>2. old.members \subseteq Pkg /\ old.exclude \subseteq Bringup
  BY DEF WlTypes, RootToml
<1>3. root' = [members |-> old.members \cup cmd.pkgs, exclude |-> old.exclude \cup {cmd.bringup},
               system |-> cmd.bringup]
  BY DEF PatchRoot
<1> HIDE DEF old
<1>4. root' \in RootToml /\ root'.system = cmd.bringup
      /\ cmd.bringup \in root'.exclude /\ cmd.pkgs \subseteq root'.members
  BY <1>1, <1>2, <1>3 DEF RootToml
<1> QED
  BY <1>4 DEF PatchRoot, Done

LEMMA TypesMigrate ==
    ASSUME WlTypes, RunFacts, MigrateStep
    PROVE  WlTypes' /\ cmd \in MigrateCmd
<1> DEFINE p == Head(cmd.todo)
<1>1. cmd \in MigrateCmd
  BY CmdByVerb DEF MigrateStep, WriteSystem, CopyLaunch, RemoveLaunch, PatchPackage, RemoveManifest,
       RemoveMetadata, RegenerateXml, WriteBringupXml, RemoveConfig, PatchRoot, WlTypes
<1>2. cmd.verb = "migrate" /\ cmd.bringup \in Bringup /\ cmd.todo \in Seq(Pkg)
  BY <1>1 DEF MigrateCmd
<1>3. cmd.step \in ToSet(PackageSteps) => cmd.todo # <<>> /\ p \in Pkg
  BY <1>2, SequenceFacts DEF RunFacts, MigrateFacts
<1>4. ToSet(PackageSteps) = {"patch", "manifests", "metadata", "package.xml"}
  <2>1. PackageSteps = <<"patch", "manifests", "metadata", "package.xml">>
    BY DEF PackageSteps
  <2> QED
    BY <2>1 DEF ToSet
<1>5. GoesOn /\ cmd.step \in ToSet(PackageSteps) => cmd' \in MigrateCmd
  BY <1>1, <1>3, GoesOnTypes
<1>6. ASSUME NEW step \in {"copy", "unlink", "patch", "bringup", "nros.toml", "root"}, Goes(step)
      PROVE  cmd' \in MigrateCmd /\ report' = report
  BY <1>1, <1>6, StepTypes DEF Goes
<1>7. CASE WriteSystem
  <2>4. bringup' \in [Bringup -> BringupDir \cup {Absent}]
    BY <1>1, <1>7, SystemWritten
  <2>5. cmd' \in MigrateCmd /\ report' = report
    BY <1>6, <1>7, FirstStepIs DEF WriteSystem
  <2> QED
    BY <1>1, <1>7, <2>4, <2>5 DEF WriteSystem, WlTypes, tomls, counts, Cmd
<1>8. CASE CopyLaunch
  <2>1. bringup[cmd.bringup] \in BringupDir
    BY <1>2, <1>8 DEF RunFacts, MigrateFacts, CopyLaunch
  <2>2. [bringup[cmd.bringup] EXCEPT !.launch = "whole"] \in BringupDir
    BY <2>1 DEF BringupDir
  <2>3. bringup' \in [Bringup -> BringupDir \cup {Absent}]
    BY <1>2, <1>8, <2>2 DEF CopyLaunch, WlTypes
  <2>4. cmd' \in MigrateCmd /\ report' = report
    BY <1>6, <1>8 DEF CopyLaunch
  <2> QED
    BY <1>1, <1>8, <2>3, <2>4 DEF CopyLaunch, WlTypes, tomls, counts, Cmd
<1>9. CASE RemoveLaunch
  <2>1. cmd' \in MigrateCmd /\ report' = report
    BY <1>6, <1>9, FirstStepIs DEF RemoveLaunch
  <2> QED
    BY <1>1, <1>9, <2>1 DEF RemoveLaunch, WlTypes, dirs, counts, Cmd
<1>10. CASE PatchPackage
  <2>1. p \in Pkg /\ cmd.step \in ToSet(PackageSteps)
    BY <1>3, <1>4, <1>10 DEF PatchPackage
  <2>4. cargo' \in [Pkg -> CargoToml \cup {Absent, Garbled}]
    <3>1. CASE cargo[p] = Garbled
      BY <1>10, <3>1 DEF PatchPackage, WlTypes
    <3>2. CASE cargo[p] # Garbled
      BY <1>1, <1>10, <2>1, <1>3, <3>2, PackagePatched
    <3> QED
      BY <3>1, <3>2
  <2>5. /\ cmd' \in Cmd \cup {NothingRuns}
        /\ report' \in [verb : {"none", "already", "migrate", "system", "deploy", "component"},
                        bringup : Bringup \cup {Absent}, target : Target \cup {Absent}]
    BY <1>5, <1>10, <2>1, NoReportType DEF PatchPackage, Err, Done, Cmd, WlTypes
  <2> QED
    BY <1>1, <1>10, <2>4, <2>5 DEF PatchPackage, WlTypes, dirs, counts
<1>11. CASE RemoveManifest
  <2>1. p \in Pkg /\ cmd.step \in ToSet(PackageSteps)
    BY <1>3, <1>4, <1>11 DEF RemoveManifest
  <2>2. manifest' \in [Pkg -> SUBSET Manifest]
    BY <1>11, <2>1 DEF RemoveManifest, WlTypes
  <2>3. cmd' \in MigrateCmd
    BY <1>1, <1>5, <1>11, <2>1 DEF RemoveManifest
  <2> QED
    BY <1>1, <1>11, <2>2, <2>3 DEF RemoveManifest, WlTypes, dirs, counts, Cmd
<1>12. CASE RemoveMetadata
  <2>1. p \in Pkg /\ cmd.step \in ToSet(PackageSteps)
    BY <1>3, <1>4, <1>12 DEF RemoveMetadata
  <2>2. recorded' \in [Pkg -> BOOLEAN]
    BY <1>12, <2>1 DEF RemoveMetadata, WlTypes
  <2>3. cmd' \in MigrateCmd
    BY <1>5, <1>12, <2>1 DEF RemoveMetadata
  <2> QED
    BY <1>1, <1>12, <2>2, <2>3 DEF RemoveMetadata, WlTypes, dirs, counts, Cmd
<1>13. CASE RegenerateXml
  <2>1. p \in Pkg /\ cmd.step \in ToSet(PackageSteps)
    BY <1>3, <1>4, <1>13 DEF RegenerateXml
  <2>2. cargo[p] \in CargoToml
    BY <1>2, <1>13 DEF RegenerateXml, RunFacts, MigrateFacts
  <2>3. [marked |-> TRUE, depends |-> cargo[p].ament] \in PackageXml
    BY <2>2 DEF CargoToml, PackageXml
  <2>4. packageXml' \in [Pkg -> PackageXml \cup {Absent}]
    BY <1>13, <2>1, <2>3 DEF RegenerateXml, WlTypes
  <2>5. /\ cmd' \in Cmd \cup {NothingRuns}
        /\ report' \in [verb : {"none", "already", "migrate", "system", "deploy", "component"},
                        bringup : Bringup \cup {Absent}, target : Target \cup {Absent}]
    BY <1>5, <1>13, <2>1, NoReportType DEF RegenerateXml, Err, Done, Cmd, WlTypes
  <2> QED
    BY <1>1, <1>13, <2>4, <2>5 DEF RegenerateXml, WlTypes, dirs, counts
<1>14. CASE WriteBringupXml
  <2>1. bringup[cmd.bringup] \in BringupDir /\ bringup[cmd.bringup].system \in SystemToml
    BY <1>2, <1>14 DEF RunFacts, MigrateFacts, WriteBringupXml
  <2>2. {r[1] : r \in bringup[cmd.bringup].system.rows} \subseteq Pkg
    BY <2>1 DEF SystemToml
  <2>3. [bringup[cmd.bringup] EXCEPT !.xml = {r[1] : r \in bringup[cmd.bringup].system.rows}]
           \in BringupDir
    BY <2>1, <2>2 DEF BringupDir
  <2>4. bringup' \in [Bringup -> BringupDir \cup {Absent}]
    BY <1>2, <1>14, <2>3 DEF WriteBringupXml, WlTypes
  <2>5. cmd' \in MigrateCmd /\ report' = report
    BY <1>6, <1>14 DEF WriteBringupXml
  <2> QED
    BY <1>1, <1>14, <2>4, <2>5 DEF WriteBringupXml, WlTypes, tomls, counts, Cmd
<1>15. CASE RemoveConfig
  <2>1. cmd' \in MigrateCmd /\ report' = report
    BY <1>6, <1>15 DEF RemoveConfig
  <2> QED
    BY <1>1, <1>15, <2>1 DEF RemoveConfig, WlTypes, dirs, counts, Cmd
<1>16. CASE PatchRoot
  <2>1. cmd.pkgs \subseteq Pkg
    BY <1>1 DEF MigrateCmd
  <2>6. root' \in RootToml \cup {Absent, Garbled}
    <3>1. CASE root = Garbled
      BY <1>16, <3>1 DEF PatchRoot
    <3>2. CASE root # Garbled
      BY <1>1, <1>16, <3>2, RootPatched
    <3> QED
      BY <3>1, <3>2
  <2>4. [verb |-> "migrate", bringup |-> cmd.bringup, target |-> Absent] \in
           [verb : {"none", "already", "migrate", "system", "deploy", "component"},
            bringup : Bringup \cup {Absent}, target : Target \cup {Absent}]
    BY <1>2
  <2>5. /\ cmd' \in Cmd \cup {NothingRuns}
        /\ report' \in [verb : {"none", "already", "migrate", "system", "deploy", "component"},
                        bringup : Bringup \cup {Absent}, target : Target \cup {Absent}]
    BY <1>16, <2>4, NoReportType DEF PatchRoot, Err, Done
  <2> QED
    BY <1>1, <1>16, <2>5, <2>6 DEF PatchRoot, WlTypes, tomls, counts
<1> QED
  BY <1>1, <1>7, <1>8, <1>9, <1>10, <1>11, <1>12, <1>13, <1>14, <1>15, <1>16 DEF MigrateStep

LEMMA TypesScaffold ==
    ASSUME WlTypes, RunFacts, ScaffoldStep
    PROVE  WlTypes' /\ cmd \in SystemCmd
<1> DEFINE b == bringup[cmd.bringup]
<1>1. cmd \in SystemCmd /\ cmd.verb = "system" /\ cmd.bringup \in Bringup /\ cmd.pkgs \subseteq Pkg
  BY CmdByVerb DEF ScaffoldStep, WlTypes, SystemCmd
<1>2. cmd.step \in {"wipe", "xml", "toml", "launch"}
  BY <1>1 DEF ScaffoldStep, SystemCmd
<1>3. ASSUME NEW step \in {"xml", "toml", "launch", "exclude"}
      PROVE  [cmd EXCEPT !.step = step] \in SystemCmd
  BY <1>1 DEF SystemCmd
<1>4. cmd' \in SystemCmd /\ report' = report
  BY <1>2, <1>3 DEF ScaffoldStep, Goes
<1>5. bringup' \in [Bringup -> BringupDir \cup {Absent}]
  <2>1. CASE cmd.step = "wipe"
    BY <1>1, <2>1 DEF ScaffoldStep, WlTypes
  <2>2. CASE cmd.step = "xml"
    <3>1. [system |-> Absent, xml |-> cmd.pkgs, launch |-> "none"] \in BringupDir
      BY <1>1 DEF BringupDir
    <3> QED
      BY <1>1, <2>2, <3>1 DEF ScaffoldStep, WlTypes
  <2>3. CASE cmd.step = "toml"
    <3>1. b \in BringupDir
      BY <1>1, <2>3 DEF RunFacts, SystemFacts
    <3>2. [rows |-> {<<p, p>> : p \in cmd.pkgs}, deploy |-> {"native"}] \in SystemToml
      BY <1>1, LayoutConstants DEF SystemToml
    <3>3. [b EXCEPT !.system = [rows |-> {<<p, p>> : p \in cmd.pkgs}, deploy |-> {"native"}]]
             \in BringupDir
      BY <3>1, <3>2 DEF BringupDir
    <3> QED
      BY <1>1, <2>3, <3>3 DEF ScaffoldStep, WlTypes
  <2>4. CASE cmd.step = "launch"
    <3>1. b \in BringupDir
      BY <1>1, <2>4 DEF RunFacts, SystemFacts
    <3>2. [b EXCEPT !.launch = "whole"] \in BringupDir
      BY <3>1 DEF BringupDir
    <3> QED
      BY <1>1, <2>4, <3>2 DEF ScaffoldStep, WlTypes
  <2> QED
    BY <1>2, <2>1, <2>2, <2>3, <2>4
<1> QED
  BY <1>1, <1>4, <1>5 DEF ScaffoldStep, WlTypes, tomls, counts, Cmd

LEMMA TypesRest ==
    ASSUME WlTypes, RunFacts, AddToExclude \/ WriteTable \/ WriteGlue \/ ComponentStep
    PROVE  WlTypes'
<1>1. CASE AddToExclude
  <2>1. cmd.bringup \in Bringup
    BY <1>1, CmdByVerb DEF AddToExclude, WlTypes, SystemCmd
  <2>2. [verb |-> "system", bringup |-> cmd.bringup, target |-> Absent] \in
           [verb : {"none", "already", "migrate", "system", "deploy", "component"},
            bringup : Bringup \cup {Absent}, target : Target \cup {Absent}]
    BY <2>1
  <2>3. /\ cmd' \in Cmd \cup {NothingRuns}
        /\ report' \in [verb : {"none", "already", "migrate", "system", "deploy", "component"},
                        bringup : Bringup \cup {Absent}, target : Target \cup {Absent}]
    BY <1>1, <2>2, NoReportType DEF AddToExclude, Err, Done
  <2>4. root \in RootToml => [root EXCEPT !.exclude = root.exclude \cup {cmd.bringup}] \in RootToml
    BY <2>1 DEF RootToml
  <2>5. root' \in RootToml \cup {Absent, Garbled}
    BY <1>1, <2>4 DEF AddToExclude, WlTypes
  <2> QED
    BY <1>1, <2>3, <2>5 DEF AddToExclude, WlTypes, tomls, counts
<1>2. CASE WriteTable
  <2>1. cmd \in DeployCmd /\ config \in ConfigFile
    BY <1>2, CmdByVerb DEF WriteTable, WlTypes, RunFacts, DeployFacts
  <2>2. cmd.target \in Target /\ cmd.table \in DeployTable
    BY <2>1 DEF DeployCmd
  <2>3. config' \in ConfigFile
    BY <1>2, <2>1, <2>2, TargetTyped DEF WriteTable
  <2>4. [verb |-> "deploy", bringup |-> Absent, target |-> cmd.target] \in
           [verb : {"none", "already", "migrate", "system", "deploy", "component"},
            bringup : Bringup \cup {Absent}, target : Target \cup {Absent}]
    BY <2>2
  <2>5. [cmd EXCEPT !.step = "glue"] \in DeployCmd
    BY <2>1 DEF DeployCmd
  <2>6. /\ cmd' \in Cmd \cup {NothingRuns}
        /\ report' \in [verb : {"none", "already", "migrate", "system", "deploy", "component"},
                        bringup : Bringup \cup {Absent}, target : Target \cup {Absent}]
    BY <1>2, <2>4, <2>5 DEF WriteTable, Goes, Done, Cmd, WlTypes
  <2> QED
    BY <1>2, <2>3, <2>6 DEF WriteTable, WlTypes, dirs, counts
<1>3. CASE WriteGlue
  <2>1. cmd.target \in Target
    BY <1>3, CmdByVerb DEF WriteGlue, WlTypes, DeployCmd
  <2>2. [verb |-> "deploy", bringup |-> Absent, target |-> cmd.target] \in
           [verb : {"none", "already", "migrate", "system", "deploy", "component"},
            bringup : Bringup \cup {Absent}, target : Target \cup {Absent}]
    BY <2>1
  <2>3. glue' \in [Target -> {"none", "stub", "user", "part"}]
    BY <1>3, <2>1 DEF WriteGlue, WlTypes
  <2> QED
    BY <1>3, <2>2, <2>3, DoneTypes DEF WriteGlue, WlTypes, tomls, counts
<1>4. CASE ComponentStep
  <2>1. cmd \in ComponentCmd /\ cmd.pkg \in Pkg /\ cmd.pkg \in Node
    BY <1>4, CmdByVerb, LayoutConstants DEF ComponentStep, WlTypes, ComponentCmd
  <2>2. [verb |-> "component", bringup |-> Absent, target |-> Absent] \in
           [verb : {"none", "already", "migrate", "system", "deploy", "component"},
            bringup : Bringup \cup {Absent}, target : Target \cup {Absent}]
    OBVIOUS
  <2>3. ASSUME NEW step \in {"cargo", "manifest"} PROVE [cmd EXCEPT !.step = step] \in ComponentCmd
    BY <2>1 DEF ComponentCmd
  <2>4. /\ [marked |-> FALSE, depends |-> {}] \in PackageXml
        /\ [named |-> TRUE, nodes |-> {}, ament |-> {}] \in CargoToml
        /\ {<<"nros.toml", cmd.pkg>>} \subseteq Manifest
    BY <2>1 DEF PackageXml, CargoToml, Manifest
  <2>5. /\ packageXml' \in [Pkg -> PackageXml \cup {Absent}]
        /\ cargo' \in [Pkg -> CargoToml \cup {Absent, Garbled}]
        /\ manifest' \in [Pkg -> SUBSET Manifest]
    BY <1>4, <2>1, <2>4 DEF ComponentStep, WlTypes
  <2>6. /\ cmd' \in Cmd \cup {NothingRuns}
        /\ report' \in [verb : {"none", "already", "migrate", "system", "deploy", "component"},
                        bringup : Bringup \cup {Absent}, target : Target \cup {Absent}]
    BY <1>4, <2>2, <2>3, DoneTypes DEF ComponentStep, Goes, Done, Cmd, WlTypes
  <2> QED
    BY <1>4, <2>5, <2>6 DEF ComponentStep, WlTypes, dirs, counts
<1> QED
  BY <1>1, <1>2, <1>3, <1>4

LEMMA TornTypes ==
    ASSUME WlTypes, RunFacts, cmd # NothingRuns, cmd.verb \in {"migrate", "system"},
           NEW b \in TornBringup(cmd.bringup)
    PROVE  b \in BringupDir /\ cmd.bringup \in Bringup
<1> DEFINE now == bringup[cmd.bringup]
<1>1. cmd \in MigrateCmd \/ cmd \in SystemCmd
  BY CmdByVerb DEF WlTypes
<1>2. cmd.bringup \in Bringup /\ now \in BringupDir \cup {Absent}
  BY <1>1 DEF MigrateCmd, SystemCmd, WlTypes
<1>3. /\ cmd.step \in {"toml", "launch"} => now \in BringupDir
      /\ cmd.step \in {"copy", "bringup"} => now \in BringupDir
  BY <1>1 DEF RunFacts, SystemFacts, MigrateFacts, MigrateCmd, SystemCmd
<1>4. now \in BringupDir =>
        /\ now.system \in SystemToml \cup {Absent, Garbled}
        /\ now.xml \in {Absent} \cup SUBSET Pkg /\ now.launch \in {"none", "torn", "whole"}
        /\ [now EXCEPT !.system = Garbled] \in BringupDir
        /\ [now EXCEPT !.launch = "torn"] \in BringupDir
        /\ [now EXCEPT !.xml = {}] \in BringupDir
  BY DEF BringupDir
<1>5. b \in BringupDir
  <2>1. CASE cmd.step = "wipe" /\ now # Absent
    <3>1. PICK f \in {Absent, now.system}, g \in {Absent, now.xml}, h \in {"none", now.launch} :
             b = [system |-> f, xml |-> g, launch |-> h]
      BY <2>1 DEF TornBringup
    <3>2. now \in BringupDir
      BY <1>2, <2>1
    <3>3. f \in SystemToml \cup {Absent, Garbled} /\ g \in {Absent} \cup SUBSET Pkg
          /\ h \in {"none", "torn", "whole"}
      BY <1>4, <3>2
    <3> QED
      BY <3>1, <3>3 DEF BringupDir
  <2>2. CASE cmd.step = "system"
    <3>1. b = IF now = Absent THEN [system |-> Garbled, xml |-> Absent, launch |-> "none"]
              ELSE [now EXCEPT !.system = Garbled]
      BY <2>2 DEF TornBringup
    <3>2. [system |-> Garbled, xml |-> Absent, launch |-> "none"] \in BringupDir
      BY DEF BringupDir
    <3> QED
      BY <1>2, <1>4, <3>1, <3>2
  <2>3. CASE cmd.step \in {"toml", "copy", "launch", "bringup"}
    BY <1>3, <1>4, <2>3 DEF TornBringup
  <2>4. CASE cmd.step = "xml"
    <3>1. b = [system |-> Absent, xml |-> {}, launch |-> "none"]
      BY <2>4 DEF TornBringup
    <3> QED
      BY <3>1 DEF BringupDir
  <2>5. TornBringup(cmd.bringup) # {}
    OBVIOUS
  <2> QED
    BY <2>1, <2>2, <2>3, <2>4, <2>5 DEF TornBringup
<1> QED
  BY <1>2, <1>5

LEMMA TornConfigFacts ==
    ASSUME config \in ConfigFile, NEW c \in TornConfig
    PROVE  \/ c = Garbled
           \/ /\ c \in ConfigFile /\ c.components = config.components
              /\ DOMAIN c.deploy \subseteq DOMAIN config.deploy
              /\ \A t \in DOMAIN c.deploy : c.deploy[t] = config.deploy[t]
<1> SUFFICES ASSUME c # Garbled
             PROVE  /\ c \in ConfigFile /\ c.components = config.components
                    /\ DOMAIN c.deploy \subseteq DOMAIN config.deploy
                    /\ \A t \in DOMAIN c.deploy : c.deploy[t] = config.deploy[t]
  OBVIOUS
<1>1. PICK kept \in SUBSET DOMAIN config.deploy :
         c = [config EXCEPT !.deploy = [t \in kept |-> config.deploy[t]]]
  BY DEF TornConfig
<1>2. PICK some \in SUBSET Target : config.deploy \in [some -> DeployTable]
  BY DEF ConfigFile
<1> DEFINE less == [t \in kept |-> config.deploy[t]]
           Deploys == UNION {[some2 -> DeployTable] : some2 \in SUBSET Target}
<1>3. less \in [kept -> DeployTable] /\ kept \in SUBSET Target
  BY <1>2
<1>4. less \in Deploys /\ DOMAIN less = kept /\ \A t \in kept : less[t] = config.deploy[t]
  BY <1>3
<1>5. config \in [systems : Nat, components : Seq(Pkg), launch : BOOLEAN, deploy : Deploys]
  BY DEF ConfigFile
<1>6. c = [config EXCEPT !.deploy = less]
  BY <1>1
<1> HIDE DEF less, Deploys
<1>7. /\ c \in [systems : Nat, components : Seq(Pkg), launch : BOOLEAN, deploy : Deploys]
      /\ c.deploy = less /\ c.components = config.components
  BY <1>4, <1>5, <1>6
<1> QED
  BY <1>4, <1>7 DEF ConfigFile, Deploys

LEMMA TypesCut ==
    ASSUME WlTypes, RunFacts, CutShort
    PROVE  WlTypes'
<1>1. /\ cmd' \in Cmd \cup {NothingRuns}
      /\ report' \in [verb : {"none", "already", "migrate", "system", "deploy", "component"},
                      bringup : Bringup \cup {Absent}, target : Target \cup {Absent}]
      /\ cuts' \in Nat /\ cmd # NothingRuns
  BY NoReportType DEF CutShort, Err, Done, WlTypes
<1>2. CASE UNCHANGED <<tomls, dirs>>
  BY <1>1, <1>2 DEF CutShort, WlTypes, tomls, dirs
<1>3. ASSUME cmd.step = "patch" \/ cmd.step = "package.xml"
      PROVE  Head(cmd.todo) \in Pkg
  <2>1. cmd \in MigrateCmd /\ cmd.verb = "migrate"
    BY <1>1, <1>3, CmdByVerb DEF WlTypes, MigrateCmd, SystemCmd, DeployCmd, ComponentCmd
  <2>2. ToSet(PackageSteps) = {"patch", "manifests", "metadata", "package.xml"}
    BY DEF PackageSteps, ToSet
  <2>3. cmd.todo # <<>> /\ cmd.todo \in Seq(Pkg)
    BY <1>3, <2>1, <2>2 DEF RunFacts, MigrateFacts, MigrateCmd
  <2> QED
    BY <2>3, SequenceFacts
<1>4. CASE /\ cmd.step = "patch"
           /\ \E c \in TornCargo : cargo' = [cargo EXCEPT ![Head(cmd.todo)] = c]
           /\ UNCHANGED <<config, manifest, packageXml, recorded, launchFile, dirs>>
  <2>1. TornCargo \subseteq CargoToml \cup {Garbled}
    BY DEF TornCargo, CargoToml
  <2>2. cargo' \in [Pkg -> CargoToml \cup {Absent, Garbled}]
    BY <1>3, <1>4, <2>1 DEF WlTypes
  <2> QED
    BY <1>1, <1>4, <2>2 DEF CutShort, WlTypes, dirs
<1>5. CASE /\ cmd.step = "package.xml"
           /\ \E x \in TornXml : packageXml' = [packageXml EXCEPT ![Head(cmd.todo)] = x]
           /\ UNCHANGED <<config, manifest, cargo, recorded, launchFile, dirs>>
  <2>1. TornXml \subseteq PackageXml
    BY DEF TornXml, PackageXml
  <2>2. packageXml' \in [Pkg -> PackageXml \cup {Absent}]
    BY <1>3, <1>5, <2>1 DEF WlTypes
  <2> QED
    BY <1>1, <1>5, <2>2 DEF CutShort, WlTypes, dirs
<1>6. CASE /\ cmd.step = "table"
           /\ config' \in TornConfig
           /\ UNCHANGED <<manifest, cargo, packageXml, recorded, launchFile, dirs>>
  <2>1. cmd.verb = "deploy"
    BY <1>1, <1>6, CmdByVerb DEF WlTypes, MigrateCmd, SystemCmd, DeployCmd, ComponentCmd
  <2>2. config' \in ConfigFile \cup {Absent, Garbled}
    BY <1>6, <2>1, TornConfigFacts DEF RunFacts, DeployFacts
  <2> QED
    BY <1>1, <1>6, <2>2 DEF CutShort, WlTypes, dirs
<1>7. CASE /\ cmd.verb \in {"migrate", "system"}
           /\ \E b \in TornBringup(cmd.bringup) : bringup' = [bringup EXCEPT ![cmd.bringup] = b]
           /\ UNCHANGED <<tomls, root, glue>>
  <2>1. bringup' \in [Bringup -> BringupDir \cup {Absent}]
    BY <1>1, <1>7, TornTypes DEF WlTypes
  <2> QED
    BY <1>1, <1>7, <2>1 DEF CutShort, WlTypes, tomls
<1>8. CASE root' \in TornRoot /\ UNCHANGED <<tomls, bringup, glue>>
  <2>1. TornRoot \subseteq RootToml \cup {Garbled}
    BY DEF TornRoot, RootToml
  <2> QED
    BY <1>1, <1>8, <2>1 DEF CutShort, WlTypes, tomls
<1>9. CASE /\ glue' = [glue EXCEPT ![cmd.target] = "part"]
           /\ UNCHANGED <<tomls, bringup, root>>
  BY <1>1, <1>9 DEF CutShort, WlTypes, tomls
<1> QED
  BY <1>2, <1>4, <1>5, <1>6, <1>7, <1>8, <1>9 DEF CutShort

LEMMA TypesUser ==
    ASSUME WlTypes, Repair \/ \E t \in Target : FillGlue(t)
    PROVE  WlTypes'
<1>1. CASE Repair
  <2>1. OldShape(shape)
    BY OldShapes
  <2>2. /\ cargo' \in [Pkg -> CargoToml \cup {Absent, Garbled}]
        /\ root' \in RootToml \cup {Absent, Garbled}
        /\ config' \in ConfigFile \cup {Absent, Garbled}
    BY <1>1, <2>1 DEF Repair, WlTypes, OldShape, There
  <2> QED
    BY <1>1, <2>2 DEF Repair, WlTypes, counts
<1>2. ASSUME NEW t \in Target, FillGlue(t) PROVE WlTypes'
  BY <1>2 DEF FillGlue, WlTypes, tomls, counts
<1> QED
  BY <1>1, <1>2

LEMMA TypesNext ==
    ASSUME WlTypes, RunFacts, [WlNext]_wlVars
    PROVE  WlTypes'
<1>1. CASE UNCHANGED wlVars
  BY <1>1 DEF WlTypes, wlVars, tomls, dirs, counts
<1>2. CASE WlNext
  BY <1>1, <1>2, TypesGive, TypesMigrate, TypesScaffold, TypesRest, TypesCut, TypesUser DEF WlNext
<1> QED
  BY <1>1, <1>2

-----------------------------------------------------------------------------
(* What a command finds, and what it reports.                              *)

LEMMA PackageStepSet ==
    /\ PackageSteps = <<"patch", "manifests", "metadata", "package.xml">>
    /\ ToSet(PackageSteps) = {"patch", "manifests", "metadata", "package.xml"}
    /\ Last(PackageSteps) = "package.xml" /\ Head(PackageSteps) = "patch"
<1>1. PackageSteps = <<"patch", "manifests", "metadata", "package.xml">>
  BY DEF PackageSteps
<1> QED
  BY <1>1 DEF ToSet, Last

LEMMA GoingOn ==
    ASSUME cmd \in MigrateCmd, cmd.step \in ToSet(PackageSteps), cmd.todo # <<>>, GoesOn
    PROVE  /\ cmd'.verb = "migrate" /\ cmd'.bringup = cmd.bringup /\ cmd'.pkgs = cmd.pkgs
           /\ cmd'.found = cmd.found /\ cmd'.launch = cmd.launch
           /\ \/ cmd.step = "patch" /\ cmd'.step = "manifests" /\ cmd'.todo = cmd.todo
              \/ cmd.step = "manifests" /\ cmd'.step = "metadata" /\ cmd'.todo = cmd.todo
              \/ cmd.step = "metadata" /\ cmd'.step = "package.xml" /\ cmd'.todo = cmd.todo
              \/ /\ cmd.step = "package.xml" /\ cmd'.todo = Tail(cmd.todo)
                 /\ cmd'.step = IF Tail(cmd.todo) = <<>> THEN "bringup" ELSE "patch"
<1>1. CASE cmd.step = "package.xml"
  <2>1. cmd' = [cmd EXCEPT !.todo = Tail(cmd.todo), !.step = FirstStep(Tail(cmd.todo))]
    BY <1>1, PackageStepSet DEF GoesOn
  <2>2. FirstStep(Tail(cmd.todo)) = IF Tail(cmd.todo) = <<>> THEN "bringup" ELSE "patch"
    BY PackageStepSet DEF FirstStep
  <2> QED
    BY <1>1, <2>1, <2>2 DEF MigrateCmd
<1>2. CASE cmd.step # "package.xml"
  <2>1. PICK k \in 1 .. 3 : /\ PackageSteps[k] = cmd.step
                            /\ cmd' = [cmd EXCEPT !.step = PackageSteps[k + 1]]
    BY <1>2, PackageStepSet DEF GoesOn
  <2>2. /\ k = 1 => PackageSteps[k] = "patch" /\ PackageSteps[k + 1] = "manifests"
        /\ k = 2 => PackageSteps[k] = "manifests" /\ PackageSteps[k + 1] = "metadata"
        /\ k = 3 => PackageSteps[k] = "metadata" /\ PackageSteps[k + 1] = "package.xml"
    BY PackageStepSet
  <2> QED
    BY <2>1, <2>2 DEF MigrateCmd
<1> QED
  BY <1>1, <1>2

LEMMA StepTaken ==
    ASSUME cmd \in MigrateCmd, NEW step, Goes(step)
    PROVE  /\ cmd'.verb = "migrate" /\ cmd'.bringup = cmd.bringup /\ cmd'.pkgs = cmd.pkgs
           /\ cmd'.found = cmd.found /\ cmd'.launch = cmd.launch
           /\ cmd'.todo = cmd.todo /\ cmd'.step = step /\ report' = report
BY DEF Goes, MigrateCmd

LEMMA Stopped ==
    ASSUME cmd' = NothingRuns
    PROVE  MigrateFacts' /\ SystemFacts' /\ DeployFacts' /\ Silent'
BY DEF NothingRuns, MigrateFacts, SystemFacts, DeployFacts, Silent

LEMMA NothingSaid ==
    ASSUME report' = NoReport
    PROVE  OkPasses' /\ Silent' /\ TargetReported' /\ Reported'
BY DEF NoReport, OkPasses, Silent, TargetReported, Reported

LEMMA TablesStay ==
    ASSUME RunFacts, UNCHANGED <<config, shape, glue, cuts>>
    PROVE  Tables' /\ Spoilt'
BY DEF RunFacts, Tables, Spoilt

LEMMA FactsGive ==
    ASSUME WlTypes, RunFacts, OkPasses, GiveCommand
    PROVE  RunFacts' /\ OkPasses'
<1>1. CASE AnswerMigrated
  <2>1. cmd' = NothingRuns /\ report'.bringup = Absent /\ report'.target = Absent
    BY <1>1 DEF AnswerMigrated, Done
  <2>2. OkPasses' /\ TargetReported'
    BY <2>1 DEF OkPasses, TargetReported
  <2>3. Tables' /\ Spoilt'
    BY <1>1, TablesStay DEF AnswerMigrated, tomls, dirs
  <2> QED
    BY <2>1, <2>2, <2>3, Stopped DEF RunFacts
<1>2. ASSUME NEW b \in Bringup, NEW force \in BOOLEAN, Migrate(b, force)
      PROVE  RunFacts' /\ OkPasses'
  <2>1. cmd' = MigrationPlan(b) /\ report' = NoReport
    BY <1>2 DEF Migrate, Begins
  <2>2. cmd'.verb = "migrate" /\ cmd'.step = "system"
    BY <2>1 DEF MigrationPlan
  <2>3. MigrateFacts' /\ SystemFacts' /\ DeployFacts'
    BY <2>2, PackageStepSet DEF MigrateFacts, SystemFacts, DeployFacts
  <2> QED
    BY <1>2, <2>1, <2>3, NothingSaid, TablesStay DEF Migrate, RunFacts, tomls, dirs
<1>3. ASSUME NEW b \in Bringup, NEW force \in BOOLEAN, NEW pkgs \in ComponentLists,
             NewSystem(b, pkgs, force)
      PROVE  RunFacts' /\ OkPasses'
  <2>1. cmd'.verb = "system" /\ cmd'.step = "wipe" /\ report' = NoReport
    BY <1>3 DEF NewSystem, Begins
  <2>2. MigrateFacts' /\ SystemFacts' /\ DeployFacts'
    BY <2>1 DEF MigrateFacts, SystemFacts, DeployFacts
  <2> QED
    BY <1>3, <2>1, <2>2, NothingSaid, TablesStay DEF NewSystem, RunFacts, tomls, dirs
<1>4. ASSUME NEW t \in Target, NEW force \in BOOLEAN,
             NEW kind \in {"self", "vendor-lib", "vendor-module"}, NEW from \in Target \cup {Absent},
             NewDeploy(t, kind, from, force)
      PROVE  RunFacts' /\ OkPasses'
  <2> DEFINE d == IF from = Absent THEN FreshTarget(t, kind) ELSE Forked(t, config.deploy[from])
  <2>1. config \in ConfigFile /\ (from # Absent => from \in DOMAIN config.deploy)
    BY <1>4 DEF NewDeploy, There, WlTypes
  <2>2. OwnCode(t, d)
    BY <2>1, NewTableTyped DEF RunFacts
  <2>3. /\ cmd' = [verb |-> "deploy", step |-> "table", target |-> t, table |-> d, force |-> force]
        /\ report' = NoReport /\ UNCHANGED <<config, shape, glue, cuts>>
        /\ Valid(WithTarget(t, d))
        /\ force \/ t \notin DOMAIN config.deploy
    BY <1>4 DEF NewDeploy, Begins, tomls, dirs
  <2> HIDE DEF d
  <2>4. /\ cmd'.verb = "deploy" /\ cmd'.step = "table" /\ cmd'.target = t /\ cmd'.table = d
        /\ cmd'.force = force
    BY <2>3
  <2>5. WithTarget(cmd.target, cmd.table)' = WithTarget(t, d)
    BY <2>3, <2>4 DEF WithTarget
  <2>6. DeployFacts'
    <3>1. Valid(WithTarget(cmd.target, cmd.table))'
      BY <2>3, <2>5 DEF Valid
    <3>2. OwnCode(cmd.target, cmd.table)'
      BY <2>2, <2>4 DEF OwnCode
    <3> QED
      BY <2>1, <2>3, <2>4, <3>1, <3>2 DEF DeployFacts
  <2>7. MigrateFacts' /\ SystemFacts'
    BY <2>4 DEF MigrateFacts, SystemFacts
  <2> QED
    BY <2>3, <2>6, <2>7, NothingSaid, TablesStay DEF RunFacts
<1>5. ASSUME NEW p \in Pkg, NewComponent(p)
      PROVE  RunFacts' /\ OkPasses'
  <2>1. cmd'.verb = "component" /\ report' = NoReport
    BY <1>5 DEF NewComponent, Begins
  <2>2. MigrateFacts' /\ SystemFacts' /\ DeployFacts'
    BY <2>1 DEF MigrateFacts, SystemFacts, DeployFacts
  <2> QED
    BY <1>5, <2>1, <2>2, NothingSaid, TablesStay DEF NewComponent, RunFacts, tomls, dirs
<1> QED
  BY <1>1, <1>2, <1>3, <1>4, <1>5 DEF GiveCommand

LEMMA MigrationGoes ==
    ASSUME RunFacts, cmd.verb = "migrate", cmd'.verb = "migrate", report' = report, MigrateFacts',
           UNCHANGED <<config, shape, glue, cuts>>
    PROVE  RunFacts' /\ OkPasses'
<1>1. cmd # NothingRuns
  BY DEF NothingRuns
<1>2. report' = NoReport
  BY <1>1 DEF RunFacts, Silent
<1>3. SystemFacts' /\ DeployFacts'
  BY DEF SystemFacts, DeployFacts
<1> QED
  BY <1>2, <1>3, NothingSaid, TablesStay DEF RunFacts

LEMMA MigrationFails ==
    ASSUME RunFacts, Err, UNCHANGED <<config, shape, glue, cuts>>
    PROVE  RunFacts' /\ OkPasses'
BY Stopped, NothingSaid, TablesStay DEF Err, Done, RunFacts

LEMMA FirstStepKind == FirstStep(cmd.todo) = IF cmd.todo = <<>> THEN "bringup" ELSE "patch"
BY PackageStepSet DEF FirstStep

LEMMA FactsMigrate ==
    ASSUME WlTypes, RunFacts, OkPasses, MigrateStep
    PROVE  RunFacts' /\ OkPasses'
<1> DEFINE b == bringup[cmd.bringup]
<1>1. cmd.verb = "migrate" /\ cmd \in MigrateCmd
  BY CmdByVerb DEF WlTypes, MigrateStep, WriteSystem, CopyLaunch, RemoveLaunch, PatchPackage,
     RemoveManifest, RemoveMetadata, RegenerateXml, WriteBringupXml, RemoveConfig, PatchRoot
<1>2. /\ cmd.bringup \in Bringup /\ cmd.pkgs \subseteq Pkg
      /\ cmd.todo \in Seq(Pkg) /\ bringup \in [Bringup -> BringupDir \cup {Absent}]
  BY <1>1 DEF MigrateCmd, WlTypes
<1>3. /\ cmd.step \in ToSet(PackageSteps) => cmd.todo # <<>>
      /\ cmd.step \in {"manifests", "metadata", "package.xml"} =>
            cargo[Head(cmd.todo)] \in CargoToml
      /\ cmd.step # "system" => b \in BringupDir /\ b.system \in SystemToml
      /\ cmd.launch /\ cmd.step \notin {"system", "copy"} => b.launch = "whole"
      /\ cmd.step \in {"nros.toml", "root"} => b.xml = {r[1] : r \in b.system.rows}
  BY <1>1 DEF RunFacts, MigrateFacts
<1>4. CASE WriteSystem
  <2>1. WlTypes'
    BY <1>4, TypesNext DEF WlNext, MigrateStep
  <2>2. /\ Goes(IF cmd.launch THEN "copy" ELSE FirstStep(cmd.todo))
        /\ UNCHANGED <<config, shape, glue, cuts>>
    BY <1>4 DEF WriteSystem, tomls, counts
  <2>4. bringup'[cmd.bringup] \in BringupDir /\ bringup'[cmd.bringup].system \in SystemToml
    BY <1>1, <1>4, SystemWritten
  <2>5. MigrateFacts'
    BY <1>1, <2>2, <2>4, StepTaken, FirstStepKind, PackageStepSet DEF MigrateFacts
  <2> QED
    BY <1>1, <2>2, <2>5, StepTaken, MigrationGoes
<1>5. CASE CopyLaunch
  <2>1. Goes("unlink") /\ UNCHANGED <<config, shape, glue, cuts>>
    BY <1>5 DEF CopyLaunch, tomls, counts
  <2>2. bringup' = [bringup EXCEPT ![cmd.bringup].launch = "whole"] /\ cmd.step = "copy"
    BY <1>5 DEF CopyLaunch
  <2>3. /\ bringup'[cmd.bringup] \in BringupDir /\ bringup'[cmd.bringup].launch = "whole"
        /\ bringup'[cmd.bringup].system = b.system
    BY <1>2, <1>3, <2>2 DEF BringupDir
  <2>4. MigrateFacts'
    BY <1>1, <1>3, <2>1, <2>2, <2>3, StepTaken, PackageStepSet DEF MigrateFacts
  <2> QED
    BY <1>1, <2>1, <2>4, StepTaken, MigrationGoes
<1>6. CASE RemoveLaunch
  <2>1. Goes(FirstStep(cmd.todo)) /\ UNCHANGED <<config, shape, glue, cuts, bringup>>
    BY <1>6 DEF RemoveLaunch, dirs, counts
  <2>2. cmd.step = "unlink"
    BY <1>6 DEF RemoveLaunch
  <2>3. MigrateFacts'
    BY <1>1, <1>3, <2>1, <2>2, StepTaken, FirstStepKind, PackageStepSet DEF MigrateFacts
  <2> QED
    BY <1>1, <2>1, <2>3, StepTaken, MigrationGoes
<1>7. ASSUME cmd.step \in ToSet(PackageSteps), GoesOn, report' = report,
             UNCHANGED <<config, shape, glue, cuts, bringup>>,
             cmd.step # "package.xml" => cargo'[Head(cmd.todo)] \in CargoToml
      PROVE  RunFacts' /\ OkPasses'
  <2>1. MigrateFacts'
    BY <1>1, <1>3, <1>7, GoingOn, PackageStepSet DEF MigrateFacts
  <2> QED
    BY <1>1, <1>3, <1>7, <2>1, GoingOn, MigrationGoes
<1>8. CASE PatchPackage
  <2>1. UNCHANGED <<config, shape, glue, cuts, bringup>> /\ cmd.step = "patch"
    BY <1>8 DEF PatchPackage, dirs, counts
  <2>2. CASE cargo[Head(cmd.todo)] = Garbled
    BY <1>8, <2>1, <2>2, MigrationFails DEF PatchPackage
  <2>3. CASE cargo[Head(cmd.todo)] # Garbled
    BY <1>1, <1>3, <1>7, <1>8, <2>1, <2>3, PackagePatched, PackageStepSet
  <2> QED
    BY <2>2, <2>3
<1>9. CASE RemoveManifest
  <2>1. UNCHANGED <<config, shape, glue, cuts, bringup, cargo, report>> /\ cmd.step = "manifests"
    BY <1>9 DEF RemoveManifest, dirs, counts
  <2>2. CASE GoesOn
    BY <1>3, <1>7, <2>1, <2>2, PackageStepSet
  <2>3. CASE cmd' = cmd
    <3>1. MigrateFacts'
      BY <2>1, <2>3 DEF MigrateFacts, RunFacts
    <3> QED
      BY <1>1, <2>1, <2>3, <3>1, MigrationGoes
  <2> QED
    BY <1>9, <2>2, <2>3 DEF RemoveManifest
<1>10. CASE RemoveMetadata
  <2>1. UNCHANGED <<config, shape, glue, cuts, bringup, cargo, report>> /\ cmd.step = "metadata" /\ GoesOn
    BY <1>10 DEF RemoveMetadata, dirs, counts
  <2> QED
    BY <1>3, <1>7, <2>1, PackageStepSet
<1>11. CASE RegenerateXml
  <2>1. UNCHANGED <<config, shape, glue, cuts, bringup, cargo>> /\ cmd.step = "package.xml"
    BY <1>11 DEF RegenerateXml, dirs, counts
  <2>2. CASE Err
    BY <2>1, <2>2, MigrationFails
  <2>3. CASE GoesOn /\ report' = report
    BY <1>7, <2>1, <2>3, PackageStepSet
  <2> QED
    BY <1>11, <2>2, <2>3 DEF RegenerateXml
<1>12. CASE WriteBringupXml
  <2>1. Goes("nros.toml") /\ UNCHANGED <<config, shape, glue, cuts>> /\ cmd.step = "bringup"
    BY <1>12 DEF WriteBringupXml, tomls, counts
  <2>2. bringup' = [bringup EXCEPT ![cmd.bringup].xml = {r[1] : r \in b.system.rows}]
    BY <1>12 DEF WriteBringupXml
  <2>3. {r[1] : r \in b.system.rows} \in SUBSET Pkg
    BY <1>3, <2>1 DEF SystemToml
  <2>4. /\ bringup'[cmd.bringup] \in BringupDir
        /\ bringup'[cmd.bringup].xml = {r[1] : r \in b.system.rows}
        /\ bringup'[cmd.bringup].system = b.system /\ bringup'[cmd.bringup].launch = b.launch
    BY <1>2, <1>3, <2>1, <2>2, <2>3 DEF BringupDir
  <2>5. MigrateFacts'
    BY <1>1, <1>3, <2>1, <2>4, StepTaken, PackageStepSet DEF MigrateFacts
  <2> QED
    BY <1>1, <2>1, <2>5, StepTaken, MigrationGoes
<1>13. CASE RemoveConfig
  <2>1. /\ Goes("root") /\ config' = Absent /\ UNCHANGED <<shape, glue, cuts, bringup>>
        /\ cmd.step = "nros.toml"
    BY <1>13 DEF RemoveConfig, dirs, counts
  <2>2. MigrateFacts' /\ SystemFacts' /\ DeployFacts'
    BY <1>1, <1>3, <2>1, StepTaken, PackageStepSet DEF MigrateFacts, SystemFacts, DeployFacts
  <2>3. Tables' /\ Spoilt'
    BY <2>1, LayoutConstants DEF RunFacts, Tables, Spoilt
  <2>4. report' = NoReport
    <3>1. cmd # NothingRuns
      BY <1>1 DEF NothingRuns
    <3> QED
      BY <1>1, <2>1, <3>1, StepTaken DEF RunFacts, Silent
  <2> QED
    BY <2>2, <2>3, <2>4, NothingSaid DEF RunFacts
<1>14. CASE PatchRoot
  <2>1. UNCHANGED <<config, shape, glue, cuts, bringup>> /\ cmd.step = "root"
    BY <1>14 DEF PatchRoot, tomls, counts
  <2>2. CASE root = Garbled
    BY <1>14, <2>1, <2>2, MigrationFails DEF PatchRoot
  <2>3. CASE root # Garbled
    <3>1. PICK c \in Bringup : c = cmd.bringup
      BY <1>2
    <3>2. /\ cmd' = NothingRuns /\ root' \in RootToml
          /\ report' = [verb |-> "migrate", bringup |-> c, target |-> Absent]
      BY <1>1, <1>14, <2>3, <3>1, RootPatched
    <3>3. root' # Garbled /\ c \notin root'.members
      BY <3>2, LayoutConstants DEF RootToml
    <3>4. /\ bringup[c] # Absent /\ bringup[c].xml # Absent /\ There(bringup[c].system)
          /\ bringup[c].xml = {r[1] : r \in bringup[c].system.rows}
      <4>1. {r[1] : r \in b.system.rows} \in SUBSET Pkg
        BY <1>3, <2>1 DEF SystemToml
      <4> QED
        BY <1>3, <2>1, <3>1, <4>1, LayoutConstants DEF There
    <3>5. OkPasses' /\ TargetReported'
      <4>1. LintBringup(c)' /\ (c \in DiscoverBringups)'
        BY <2>1, <3>3, <3>4 DEF LintBringup, DiscoverBringups, There
      <4>2. report'.bringup = c /\ report'.target = Absent /\ report'.verb # "system"
        BY <3>2
      <4> QED
        BY <4>1, <4>2 DEF OkPasses, LintBringup, TargetReported
    <3> QED
      BY <2>1, <3>2, <3>5, Stopped, TablesStay DEF RunFacts
  <2> QED
    BY <2>2, <2>3
<1> QED
  BY <1>4, <1>5, <1>6, <1>8, <1>9, <1>10, <1>11, <1>12, <1>13, <1>14 DEF MigrateStep

\* The steps of nros new system.
LEMMA Scaffolded ==
    ASSUME WlTypes, RunFacts, ScaffoldStep
    PROVE  /\ cmd \in SystemCmd /\ cmd # NothingRuns /\ report' = report
           /\ cmd'.verb = "system" /\ cmd'.bringup = cmd.bringup /\ cmd'.pkgs = cmd.pkgs
           /\ \/ cmd.step = "wipe" /\ cmd'.step = "xml"
              \/ cmd.step = "xml" /\ cmd'.step = "toml"
              \/ cmd.step = "toml" /\ cmd'.step = "launch"
              \/ cmd.step = "launch" /\ cmd'.step = "exclude"
           /\ cmd.bringup \in Bringup
           /\ \A c \in Bringup : c # cmd.bringup => bringup'[c] = bringup[c]
           /\ SystemFacts'
<1> DEFINE b == bringup[cmd.bringup]
<1>1. cmd \in SystemCmd /\ cmd.verb = "system" /\ cmd.bringup \in Bringup /\ cmd.pkgs \subseteq Pkg
  BY CmdByVerb DEF ScaffoldStep, WlTypes, SystemCmd
<1>2. /\ cmd # NothingRuns /\ report' = report
      /\ cmd'.verb = "system" /\ cmd'.bringup = cmd.bringup /\ cmd'.pkgs = cmd.pkgs
  BY <1>1 DEF NothingRuns, ScaffoldStep, Goes, SystemCmd
<1>3. \/ cmd.step = "wipe" /\ cmd'.step = "xml"
      \/ cmd.step = "xml" /\ cmd'.step = "toml"
      \/ cmd.step = "toml" /\ cmd'.step = "launch"
      \/ cmd.step = "launch" /\ cmd'.step = "exclude"
  <2>1. cmd.step \in {"wipe", "xml", "toml", "launch"}
    BY <1>1 DEF ScaffoldStep, SystemCmd
  <2> QED
    BY <1>1, <2>1 DEF ScaffoldStep, Goes, SystemCmd
<1>4. \A c \in Bringup : c # cmd.bringup => bringup'[c] = bringup[c]
  BY DEF ScaffoldStep, WlTypes
<1>5. SystemFacts'
  <2>1. CASE cmd.step = "wipe"
    BY <1>2, <1>3, <2>1 DEF SystemFacts
  <2>2. CASE cmd.step = "xml"
    <3>1. bringup'[cmd.bringup] = [system |-> Absent, xml |-> cmd.pkgs, launch |-> "none"]
      BY <1>1, <2>2 DEF ScaffoldStep, WlTypes
    <3>2. bringup'[cmd.bringup] \in BringupDir /\ bringup'[cmd.bringup].xml = cmd.pkgs
      BY <1>1, <3>1 DEF BringupDir
    <3> QED
      BY <1>2, <1>3, <2>2, <3>2 DEF SystemFacts
  <2>3. CASE cmd.step = "toml"
    <3> DEFINE new == [rows |-> {<<p, p>> : p \in cmd.pkgs}, deploy |-> {"native"}]
    <3>1. new \in SystemToml /\ {r[1] : r \in new.rows} = cmd.pkgs
      <4>1. new \in SystemToml
        BY <1>1, LayoutConstants DEF SystemToml
      <4>2. ASSUME NEW q PROVE q \in {r[1] : r \in new.rows} <=> q \in cmd.pkgs
        <5>1. \A p \in cmd.pkgs : <<p, p>> \in new.rows /\ <<p, p>>[1] = p
          OBVIOUS
        <5>2. \A r \in new.rows : \E p \in cmd.pkgs : r = <<p, p>> /\ r[1] = p
          OBVIOUS
        <5> HIDE DEF new
        <5> QED
          BY <5>1, <5>2
      <4> HIDE DEF new
      <4> QED
        BY <4>1, <4>2
    <3>2. bringup'[cmd.bringup] = [b EXCEPT !.system = new]
      BY <1>1, <2>3 DEF ScaffoldStep, WlTypes
    <3>3. b \in BringupDir /\ b.xml = cmd.pkgs
      BY <1>1, <2>3 DEF RunFacts, SystemFacts
    <3> HIDE DEF new
    <3>4. /\ bringup'[cmd.bringup] \in BringupDir /\ bringup'[cmd.bringup].xml = cmd.pkgs
          /\ bringup'[cmd.bringup].system = new
      BY <3>1, <3>2, <3>3 DEF BringupDir
    <3> QED
      BY <1>2, <1>3, <2>3, <3>1, <3>4 DEF SystemFacts
  <2>4. CASE cmd.step = "launch"
    <3>1. bringup'[cmd.bringup] = [b EXCEPT !.launch = "whole"]
      BY <1>1, <2>4 DEF ScaffoldStep, WlTypes
    <3>2. /\ b \in BringupDir /\ b.xml = cmd.pkgs /\ b.system \in SystemToml
          /\ {r[1] : r \in b.system.rows} = cmd.pkgs
      BY <1>1, <2>4 DEF RunFacts, SystemFacts
    <3>3. /\ bringup'[cmd.bringup] \in BringupDir /\ bringup'[cmd.bringup].xml = cmd.pkgs
          /\ bringup'[cmd.bringup].system = b.system /\ bringup'[cmd.bringup].launch = "whole"
      BY <3>1, <3>2 DEF BringupDir
    <3> QED
      BY <1>2, <1>3, <2>4, <3>2, <3>3 DEF SystemFacts
  <2> QED
    BY <1>3, <2>1, <2>2, <2>3, <2>4
<1> QED
  BY <1>1, <1>2, <1>3, <1>4, <1>5

LEMMA FactsScaffold ==
    ASSUME WlTypes, RunFacts, OkPasses, ScaffoldStep
    PROVE  RunFacts' /\ OkPasses'
<1>1. SystemFacts' /\ cmd'.verb = "system" /\ cmd # NothingRuns /\ report' = report
  BY Scaffolded
<1>2. MigrateFacts' /\ DeployFacts'
  BY <1>1 DEF MigrateFacts, DeployFacts
<1>3. report' = NoReport
  BY <1>1 DEF RunFacts, Silent
<1>4. UNCHANGED <<config, shape, glue, cuts>>
  BY DEF ScaffoldStep, tomls, counts
<1> QED
  BY <1>1, <1>2, <1>3, <1>4, NothingSaid, TablesStay DEF RunFacts

LEMMA CodeApart ==
    ASSUME config \in ConfigFile, Tables
    PROVE  \A t, u \in DOMAIN config.deploy :
              t # u => config.deploy[t].code = Absent \/ config.deploy[t].code # config.deploy[u].code
BY LayoutConstants DEF Tables, OwnCode

LEMMA FactsExclude ==
    ASSUME WlTypes, RunFacts, OkPasses, AddToExclude
    PROVE  RunFacts' /\ OkPasses'
<1>1. PICK c \in Bringup : c = cmd.bringup
  BY CmdByVerb DEF AddToExclude, WlTypes, SystemCmd
<1>2. UNCHANGED <<config, shape, glue, cuts, bringup>> /\ cmd \in SystemCmd
  BY CmdByVerb DEF AddToExclude, tomls, counts, WlTypes
<1>3. CASE root = Garbled
  BY <1>2, <1>3, MigrationFails DEF AddToExclude
<1>4. CASE root # Garbled
  <2>1. /\ cmd' = NothingRuns
        /\ report' = [verb |-> "system", bringup |-> c, target |-> Absent]
    BY <1>1, <1>4 DEF AddToExclude, Done
  <2>2. root' \in RootToml \cup {Absent}
    <3>1. root \in RootToml => [root EXCEPT !.exclude = root.exclude \cup {c}] \in RootToml
      BY DEF RootToml
    <3> QED
      BY <1>1, <1>4, <3>1 DEF AddToExclude, WlTypes
  <2>3. root' # Garbled /\ (There(root') => c \notin root'.members)
    BY <2>2, LayoutConstants DEF RootToml, There
  <2>4. /\ bringup[c] \in BringupDir /\ bringup[c].xml = cmd.pkgs
        /\ bringup[c].system \in SystemToml /\ {r[1] : r \in bringup[c].system.rows} = cmd.pkgs
        /\ bringup[c].launch = "whole" /\ cmd.pkgs \in SUBSET Pkg
    BY <1>1, <1>2 DEF AddToExclude, RunFacts, SystemFacts, SystemCmd
  <2>5. /\ bringup[c] # Absent /\ bringup[c].xml # Absent /\ There(bringup[c].system)
        /\ bringup[c].xml = {r[1] : r \in bringup[c].system.rows}
    BY <2>4, LayoutConstants DEF There
  <2>6. LintBringup(c)' /\ (c \in DiscoverBringups)'
    BY <1>2, <2>3, <2>5 DEF LintBringup, DiscoverBringups, There
  <2>7. report'.bringup = c /\ report'.target = Absent
    BY <2>1
  <2>8. OkPasses' /\ TargetReported'
    BY <1>2, <2>4, <2>6, <2>7 DEF OkPasses, LintBringup, TargetReported
  <2> QED
    BY <1>2, <2>1, <2>8, Stopped, TablesStay DEF RunFacts
<1> QED
  BY <1>3, <1>4

LEMMA FactsTable ==
    ASSUME WlTypes, RunFacts, OkPasses, WriteTable
    PROVE  RunFacts' /\ OkPasses'
<1>1. PICK t \in Target, d \in DeployTable : t = cmd.target /\ d = cmd.table
  BY CmdByVerb DEF WriteTable, WlTypes, DeployCmd
<1>2. /\ cmd \in DeployCmd /\ cmd # NothingRuns /\ config \in ConfigFile /\ OwnCode(t, d)
      /\ Valid(WithTarget(t, d)) /\ (t \in DOMAIN config.deploy => cmd.force)
  BY <1>1, CmdByVerb DEF WriteTable, WlTypes, RunFacts, DeployFacts, NothingRuns
<1>3. config' = WithTarget(t, d) /\ UNCHANGED <<shape, glue, cuts>>
  BY <1>1 DEF WriteTable, dirs, counts
<1>4. /\ config' \in ConfigFile /\ DOMAIN config'.deploy = DOMAIN config.deploy \cup {t}
      /\ config'.deploy[t] = d /\ config'.components = config.components
      /\ \A u \in DOMAIN config.deploy : u # t => config'.deploy[u] = config.deploy[u]
      /\ Valid(config')
  BY <1>2, <1>3, TargetTyped
<1>5. Tables'
  BY <1>2, <1>3, <1>4 DEF RunFacts, Tables, OwnCode
<1>6. Spoilt'
  BY <1>2, <1>3, <1>4, LayoutConstants DEF RunFacts, Spoilt
<1>7. CASE d.kind = "self"
  <2>1. cmd' = NothingRuns /\ report' = [verb |-> "deploy", bringup |-> Absent, target |-> t]
    BY <1>1, <1>7 DEF WriteTable, Done
  <2>2. \A u, v \in DOMAIN config'.deploy :
              u # v => config'.deploy[u].code = Absent \/ config'.deploy[u].code # config'.deploy[v].code
    BY <1>4, <1>5, LayoutConstants DEF Tables, OwnCode
  <2>3. d.code = Absent
    BY <1>2, <1>7 DEF OwnCode
  <2>4. Valid(config)'
    BY <1>4 DEF Valid
  <2>5. report'.target = t /\ report'.bringup = Absent
    BY <2>1
  <2>6. OkPasses' /\ TargetReported'
    BY <1>4, <2>2, <2>3, <2>4, <2>5 DEF OkPasses, TargetReported
  <2> QED
    BY <1>5, <1>6, <2>1, <2>6, Stopped DEF RunFacts
<1>8. CASE d.kind # "self"
  <2>1. /\ cmd'.verb = "deploy" /\ cmd'.step = "glue" /\ cmd'.target = t /\ cmd'.table = d
        /\ cmd'.force = cmd.force /\ report' = report
    BY <1>1, <1>2, <1>8 DEF WriteTable, Goes, DeployCmd
  <2>2. report' = NoReport
    BY <1>2, <2>1 DEF RunFacts, Silent
  <2>3. glue[t] = "part" => cmd.force \/ cuts > 1
    BY <1>2 DEF RunFacts, Spoilt, WlTypes
  <2>4. DeployFacts'
    <3>1. Valid(config)' /\ OwnCode(cmd.target, cmd.table)'
      BY <1>2, <1>4, <2>1 DEF Valid, OwnCode
    <3> QED
      BY <1>3, <1>4, <2>1, <2>3, <3>1 DEF DeployFacts
  <2>5. MigrateFacts' /\ SystemFacts'
    BY <2>1 DEF MigrateFacts, SystemFacts
  <2> QED
    BY <1>5, <1>6, <2>2, <2>4, <2>5, NothingSaid DEF RunFacts
<1> QED
  BY <1>7, <1>8

LEMMA FactsGlue ==
    ASSUME WlTypes, RunFacts, OkPasses, WriteGlue
    PROVE  RunFacts' /\ OkPasses'
<1>1. PICK t \in Target : t = cmd.target
  BY CmdByVerb DEF WriteGlue, WlTypes, DeployCmd
<1>2. /\ config \in ConfigFile /\ Valid(config) /\ t \in DOMAIN config.deploy
      /\ (glue[t] = "part" => cmd.force \/ cuts > 1)
  BY <1>1 DEF WriteGlue, RunFacts, DeployFacts
<1>3. /\ cmd' = NothingRuns /\ report' = [verb |-> "deploy", bringup |-> Absent, target |-> t]
      /\ UNCHANGED <<config, shape, cuts>>
      /\ glue' = [glue EXCEPT ![t] = IF @ = "none" \/ cmd.force THEN "stub" ELSE @]
  BY <1>1 DEF WriteGlue, Done, tomls, counts
<1>4. /\ glue'[t] \in {"stub", "user"} \/ cuts > 1
      /\ \A u \in Target : glue'[u] = "part" => glue[u] = "part"
  BY <1>2, <1>3 DEF WlTypes
<1>5. Tables' /\ Spoilt'
  BY <1>3, <1>4 DEF RunFacts, Tables, Spoilt
<1>6. report'.target = t /\ report'.bringup = Absent
  BY <1>3
<1>7. Valid(config)'
  BY <1>2, <1>3 DEF Valid
<1>8. OkPasses' /\ TargetReported'
  BY <1>2, <1>3, <1>4, <1>6, <1>7, CodeApart DEF OkPasses, TargetReported, RunFacts
<1> QED
  BY <1>3, <1>5, <1>8, Stopped DEF RunFacts

LEMMA FactsComponent ==
    ASSUME WlTypes, RunFacts, OkPasses, ComponentStep
    PROVE  RunFacts' /\ OkPasses'
<1>1. cmd \in ComponentCmd /\ cmd # NothingRuns
  BY CmdByVerb DEF ComponentStep, WlTypes, NothingRuns
<1>2. UNCHANGED <<config, shape, glue, cuts>>
  BY DEF ComponentStep, dirs, counts
<1>3. CASE cmd'.verb = "component" /\ report' = report
  <2>1. MigrateFacts' /\ SystemFacts' /\ DeployFacts'
    BY <1>3 DEF MigrateFacts, SystemFacts, DeployFacts
  <2>2. report' = NoReport
    BY <1>1, <1>3 DEF RunFacts, Silent
  <2> QED
    BY <1>2, <2>1, <2>2, NothingSaid, TablesStay DEF RunFacts
<1>4. CASE Done([verb |-> "component", bringup |-> Absent, target |-> Absent])
  <2>1. cmd' = NothingRuns /\ report'.bringup = Absent /\ report'.target = Absent
    BY <1>4 DEF Done
  <2>2. OkPasses' /\ TargetReported'
    BY <2>1 DEF OkPasses, TargetReported
  <2> QED
    BY <1>2, <2>1, <2>2, Stopped, TablesStay DEF RunFacts
<1>5. \/ cmd'.verb = "component" /\ report' = report
      \/ Done([verb |-> "component", bringup |-> Absent, target |-> Absent])
  BY <1>1 DEF ComponentStep, Goes, ComponentCmd
<1> QED
  BY <1>3, <1>4, <1>5

LEMMA FactsCut ==
    ASSUME WlTypes, RunFacts, OkPasses, CutShort
    PROVE  RunFacts' /\ OkPasses'
<1>1. /\ cmd' = NothingRuns /\ report' = NoReport /\ cuts' = cuts + 1 /\ cuts \in Nat
      /\ shape' = shape /\ cmd # NothingRuns
  BY DEF CutShort, Err, Done, WlTypes
<1>2. ASSUME Tables', Spoilt' PROVE RunFacts' /\ OkPasses'
  BY <1>1, <1>2, Stopped, NothingSaid DEF RunFacts
<1>3. CASE UNCHANGED <<config, glue>>
  BY <1>1, <1>2, <1>3 DEF RunFacts, Tables, Spoilt
<1>4. CASE cmd.step = "table" /\ config' \in TornConfig /\ glue' = glue
  <2>1. cmd.verb = "deploy"
    BY <1>1, <1>4, CmdByVerb DEF WlTypes, MigrateCmd, SystemCmd, DeployCmd, ComponentCmd
  <2>2. config \in ConfigFile
    BY <2>1 DEF RunFacts, DeployFacts
  <2>3. \/ config' = Garbled
        \/ /\ config' \in ConfigFile /\ config'.components = config.components
           /\ DOMAIN config'.deploy \subseteq DOMAIN config.deploy
           /\ \A t \in DOMAIN config'.deploy : config'.deploy[t] = config.deploy[t]
    BY <1>4, <2>2, TornConfigFacts
  <2>4. Tables'
    BY <1>1, <2>2, <2>3, LayoutConstants DEF RunFacts, Tables, OwnCode
  <2>5. Spoilt'
    BY <1>1, <1>4 DEF RunFacts, Spoilt
  <2> QED
    BY <1>2, <2>4, <2>5
<1>5. CASE /\ cmd.step = "glue" /\ glue' = [glue EXCEPT ![cmd.target] = "part"]
           /\ config' = config
  <2>1. cmd.verb = "deploy"
    BY <1>1, <1>5, CmdByVerb DEF WlTypes, MigrateCmd, SystemCmd, DeployCmd, ComponentCmd
  <2>2. config \in ConfigFile /\ cmd.target \in DOMAIN config.deploy
    BY <1>5, <2>1 DEF RunFacts, DeployFacts
  <2>3. Tables'
    BY <1>1, <1>5 DEF RunFacts, Tables
  <2>4. \A t \in Target : glue'[t] = "part" => glue[t] = "part" \/ t = cmd.target
    BY <1>5 DEF WlTypes
  <2>5. Spoilt'
    BY <1>1, <1>5, <2>2, <2>4, LayoutConstants DEF RunFacts, Spoilt
  <2> QED
    BY <1>2, <2>3, <2>5
<1> QED
  BY <1>3, <1>4, <1>5 DEF CutShort, tomls, dirs

LEMMA FactsUser ==
    ASSUME WlTypes, RunFacts, OkPasses, Repair \/ \E t \in Target : FillGlue(t)
    PROVE  RunFacts' /\ OkPasses'
<1>1. CASE Repair
  <2>1. /\ cmd' = NothingRuns /\ UNCHANGED <<report, shape, glue, cuts, bringup>>
        /\ cmd = NothingRuns
    BY <1>1 DEF Repair, counts
  <2>2. CASE config' = config
    <3>1. report.bringup # Absent => root' = root
      BY <1>1 DEF Repair, OkPasses, DiscoverBringups
    <3>2. OkPasses'
      BY <2>1, <2>2, <3>1 DEF OkPasses, LintBringup, DiscoverBringups, Valid
    <3> QED
      BY <2>1, <2>2, <3>2, Stopped, TablesStay DEF RunFacts, TargetReported
  <2>3. CASE config = Garbled /\ config' = shape.config /\ root' = root
    <3>1. config' \in ConfigFile /\ OldShape(shape)
      BY <2>3, OldShapes DEF OldShape
    <3>2. Tables'
      BY <2>1, <2>3, <3>1 DEF Tables, OldShape
    <3>3. report.target = Absent
      BY <2>3, LayoutConstants DEF RunFacts, TargetReported
    <3>4. Spoilt'
      BY <2>1, <2>3, <3>1, LayoutConstants DEF RunFacts, Spoilt
    <3>5. OkPasses' /\ TargetReported'
      BY <2>1, <2>3, <3>3 DEF OkPasses, LintBringup, DiscoverBringups, TargetReported
    <3> QED
      BY <2>1, <3>2, <3>4, <3>5, Stopped DEF RunFacts
  <2> QED
    BY <1>1, <2>2, <2>3 DEF Repair
<1>2. ASSUME NEW t \in Target, FillGlue(t)
      PROVE  RunFacts' /\ OkPasses'
  <2>1. /\ cmd' = NothingRuns /\ UNCHANGED <<report, config, shape, cuts, bringup, root>>
        /\ glue' = [glue EXCEPT ![t] = "user"]
    BY <1>2 DEF FillGlue, tomls, counts
  <2>2. \A u \in Target : (glue'[u] = "part" => glue[u] = "part")
                          /\ (glue[u] \in {"stub", "user"} => glue'[u] \in {"stub", "user"})
    BY <2>1 DEF WlTypes
  <2>3. Tables' /\ Spoilt' /\ TargetReported'
    BY <2>1, <2>2 DEF RunFacts, Tables, Spoilt, TargetReported
  <2>4. report.target \in Target \cup {Absent}
    BY DEF WlTypes
  <2>5. OkPasses'
    BY <2>1, <2>2, <2>4 DEF OkPasses, LintBringup, DiscoverBringups, Valid
  <2>6. Silent'
    BY <2>1 DEF Silent
  <2> QED
    BY <2>1, <2>3, <2>5, <2>6, Stopped DEF RunFacts
<1> QED
  BY <1>1, <1>2

LEMMA FactsNext ==
    ASSUME WlTypes, RunFacts, OkPasses, [WlNext]_wlVars
    PROVE  RunFacts' /\ OkPasses'
<1>1. CASE UNCHANGED wlVars
  <2>1. UNCHANGED <<config, cargo, bringup, root, glue, cmd, report, shape, cuts>>
    BY <1>1 DEF wlVars, tomls, dirs, counts
  <2>2. MigrateFacts' /\ SystemFacts'
    BY <2>1 DEF RunFacts, MigrateFacts, SystemFacts
  <2>3. DeployFacts'
    <3>1. WithTarget(cmd.target, cmd.table)' = WithTarget(cmd.target, cmd.table)
      BY <2>1 DEF WithTarget
    <3>2. Valid(config)' = Valid(config)
      BY <2>1 DEF Valid
    <3>3. Valid(WithTarget(cmd.target, cmd.table))' = Valid(WithTarget(cmd.target, cmd.table))
      BY <3>1 DEF Valid
    <3> QED
      BY <2>1, <3>2, <3>3 DEF RunFacts, DeployFacts, OwnCode
  <2>4. Silent' /\ TargetReported' /\ Tables' /\ Spoilt'
    BY <2>1 DEF RunFacts, Silent, TargetReported, Tables, Spoilt, OwnCode
  <2>5. OkPasses'
    BY <2>1 DEF OkPasses, LintBringup, DiscoverBringups, Valid
  <2> QED
    BY <2>2, <2>3, <2>4, <2>5 DEF RunFacts
<1>2. CASE WlNext
  BY <1>1, <1>2, FactsGive, FactsMigrate, FactsScaffold, FactsExclude, FactsTable, FactsGlue,
     FactsComponent, FactsCut, FactsUser DEF WlNext
<1> QED
  BY <1>1, <1>2

-----------------------------------------------------------------------------
(* The migration.                                                          *)

LEMMA ComponentFacts ==
    ASSUME WlTypes
    PROVE  /\ Components \subseteq Pkg
           /\ shape.manifest \in [Pkg -> SUBSET (LegacyForm \X Node)]
           /\ IsInjective(shape.config.components) /\ shape.config.components \in Seq(Pkg)
           /\ shape.packageXml \in [Pkg -> PackageXml \cup {Absent}]
BY OldShapes DEF Components, OldShape, ConfigFile, ToSet

LEMMA PackageStays ==
    ASSUME NEW p \in Pkg, shape' = shape, manifest'[p] = manifest[p], cargo'[p] = cargo[p],
           packageXml'[p] = packageXml[p], recorded'[p] = recorded[p]
    PROVE  /\ Same(p)' <=> Same(p)
           /\ Moved(p)' <=> Moved(p)
           /\ Migrated(p)' <=> Migrated(p)
           /\ Kept(p)' <=> Kept(p)
BY DEF Same, Moved, Migrated, Kept

LEMMA OthersStay ==
    ASSUME Progress, cmd.verb = "migrate", cmd.todo \in Seq(Pkg), cmd.todo # <<>>
    PROVE  /\ Head(cmd.todo) \in Components
           /\ ToSet(Tail(cmd.todo)) \subseteq Components
           /\ Head(cmd.todo) \notin ToSet(Tail(cmd.todo))
           /\ IsInjective(Tail(cmd.todo)) /\ Tail(cmd.todo) \in Seq(Pkg)
           /\ Components \ ToSet(Tail(cmd.todo)) = (Components \ ToSet(cmd.todo)) \cup {Head(cmd.todo)}
BY SequenceFacts DEF Progress

LEMMA Migrating ==
    ASSUME RunFacts, MigrationInv, cmd.verb = "migrate", cmd'.verb = "migrate",
           report' = report, root' = root, Progress', \A p \in Pkg : Kept(p)'
    PROVE  MigrationInv'
<1>1. report' = NoReport
  BY DEF RunFacts, Silent, NothingRuns
<1>2. ~AlreadyMigrated /\ ~AlreadyMigrated'
  BY DEF MigrationInv, Progress, AlreadyMigrated, There
<1>3. NewPackage' /\ Over'
  BY <1>2 DEF NewPackage, Over
<1> QED
  BY <1>1, <1>3, NothingSaid DEF MigrationInv

LEMMA MigrationEnds ==
    ASSUME cmd' = NothingRuns, report' = NoReport, Over', \A p \in Pkg : Kept(p)'
    PROVE  MigrationInv'
BY NothingSaid DEF MigrationInv, Progress, NewPackage, NothingRuns

\* A step that leaves the packages alone.
LEMMA MigrationWaits ==
    ASSUME WlTypes, RunFacts, MigrationInv, cmd.verb = "migrate",
           UNCHANGED <<shape, manifest, cargo, packageXml, recorded, root>>
    PROVE  /\ Err => MigrationInv'
           /\ \A step : /\ Goes(step) /\ config' = config
                         /\ cmd.step \in {"system", "copy", "unlink"}
                         /\ step \in {"copy", "unlink", FirstStep(cmd.todo)}
                         => MigrationInv'
           /\ \A step : /\ Goes(step) /\ cmd.step \in {"bringup", "nros.toml"}
                         /\ step \in {"nros.toml", "root"} /\ (step = "root" => config' = Absent)
                         => MigrationInv'
<1>1. Components \subseteq Pkg /\ Components' = Components /\ cmd \in MigrateCmd
  BY ComponentFacts, CmdByVerb DEF Components, WlTypes
<1>2. \A p \in Pkg : Kept(p)'
  BY PackageStays DEF MigrationInv
<1>3. ~AlreadyMigrated'
  BY DEF MigrationInv, Progress, AlreadyMigrated, There
<1>4. ASSUME Err PROVE MigrationInv'
  BY <1>2, <1>3, <1>4, MigrationEnds DEF Err, Done, Over
<1>5. cmd.todo \in Seq(Pkg)
  BY <1>1 DEF MigrateCmd
<1>6. ASSUME NEW step, Goes(step), config' = config,
             cmd.step \in {"system", "copy", "unlink"},
             step \in {"copy", "unlink", FirstStep(cmd.todo)}
      PROVE  MigrationInv'
  <2>1. step \in {"copy", "unlink", "patch", "bringup"} /\ (step = "patch" => cmd.todo # <<>>)
        /\ (step = "bringup" => cmd.todo = <<>>)
    BY <1>6, FirstStepKind
  <2>2. /\ cmd.pkgs = Components /\ cmd.launch = shape.config.launch
        /\ \A p \in Components : shape.manifest[p] # {} /\ cmd.found[p] = shape.manifest[p]
        /\ ToSet(cmd.todo) \subseteq Components /\ IsInjective(cmd.todo)
        /\ \A p \in Components \ ToSet(cmd.todo) : Migrated(p)
        /\ \A p \in ToSet(cmd.todo) : Same(p)
    BY <1>6, PackageStepSet DEF MigrationInv, Progress
  <2>3. /\ \A p \in Components \ ToSet(cmd.todo) : Migrated(p)'
        /\ \A p \in ToSet(cmd.todo) : Same(p)'
    BY <1>1, <2>2, PackageStays
  <2>4. cmd.todo # <<>> => /\ Head(cmd.todo) \in ToSet(cmd.todo)
                           /\ ToSet(Tail(cmd.todo)) \subseteq ToSet(cmd.todo)
    BY <1>5, SequenceFacts
  <2>5. Progress'
    BY <1>1, <1>3, <1>6, <2>1, <2>2, <2>3, <2>4, StepTaken, PackageStepSet DEF Progress
  <2> QED
    BY <1>1, <1>2, <1>6, <2>5, StepTaken, Migrating
<1>7. ASSUME NEW step, Goes(step), cmd.step \in {"bringup", "nros.toml"},
             step \in {"nros.toml", "root"}, step = "root" => config' = Absent
      PROVE  MigrationInv'
  <2>1. /\ cmd.pkgs = Components /\ cmd.launch = shape.config.launch
        /\ \A p \in Components : shape.manifest[p] # {} /\ cmd.found[p] = shape.manifest[p]
        /\ ToSet(cmd.todo) \subseteq Components /\ IsInjective(cmd.todo)
        /\ \A p \in Components \ ToSet(cmd.todo) : Migrated(p)
        /\ \A p \in ToSet(cmd.todo) : Same(p)
        /\ cmd.todo = <<>>
    BY <1>7, PackageStepSet DEF MigrationInv, Progress
  <2>2. /\ \A p \in Components \ ToSet(cmd.todo) : Migrated(p)'
        /\ \A p \in ToSet(cmd.todo) : Same(p)'
    BY <1>1, <2>1, PackageStays
  <2>3. Progress'
    BY <1>1, <1>3, <1>7, <2>1, <2>2, StepTaken, PackageStepSet DEF Progress
  <2> QED
    BY <1>1, <1>2, <1>7, <2>3, StepTaken, Migrating
<1> QED
  BY <1>4, <1>6, <1>7

\* A step that does its part for the package in hand.
LEMMA MigrationGoesOn ==
    ASSUME WlTypes, RunFacts, MigrationInv, cmd.verb = "migrate",
           cmd.step \in ToSet(PackageSteps), GoesOn, UNCHANGED <<shape, root, report>>,
           NEW p \in Pkg, p = Head(cmd.todo),
           \A q \in Pkg \ {p} : /\ manifest'[q] = manifest[q] /\ cargo'[q] = cargo[q]
                                /\ packageXml'[q] = packageXml[q] /\ recorded'[q] = recorded[q],
           Kept(p)', Moved(p)',
           cmd.step \in {"manifests", "metadata"} => manifest'[p] = {},
           cmd.step = "metadata" => ~recorded'[p],
           cmd.step = "package.xml" => Migrated(p)'
    PROVE  MigrationInv'
<1>1. Components \subseteq Pkg /\ Components' = Components /\ cmd \in MigrateCmd
  BY ComponentFacts, CmdByVerb DEF Components, WlTypes
<1>2. cmd.todo \in Seq(Pkg) /\ cmd.todo # <<>>
  BY <1>1 DEF MigrateCmd, RunFacts, MigrateFacts
<1>3. \A q \in Pkg : Kept(q)'
  BY PackageStays DEF MigrationInv
<1>4. ~AlreadyMigrated'
  BY DEF MigrationInv, Progress, AlreadyMigrated, There
<1>5. /\ p \in Components /\ ToSet(Tail(cmd.todo)) \subseteq Components
      /\ p \notin ToSet(Tail(cmd.todo))
      /\ IsInjective(Tail(cmd.todo)) /\ Tail(cmd.todo) \in Seq(Pkg)
      /\ Components \ ToSet(Tail(cmd.todo)) = (Components \ ToSet(cmd.todo)) \cup {p}
      /\ p \in ToSet(cmd.todo)
  BY <1>2, OthersStay, SequenceFacts DEF MigrationInv
<1>6. /\ cmd.pkgs = Components /\ cmd.launch = shape.config.launch
      /\ \A q \in Components : shape.manifest[q] # {} /\ cmd.found[q] = shape.manifest[q]
      /\ ToSet(cmd.todo) \subseteq Components /\ IsInjective(cmd.todo)
      /\ \A q \in Components \ ToSet(cmd.todo) : Migrated(q)
      /\ \A q \in ToSet(Tail(cmd.todo)) : Same(q)
  BY DEF MigrationInv, Progress
<1>7. /\ \A q \in Components \ ToSet(cmd.todo) : Migrated(q)'
      /\ \A q \in ToSet(Tail(cmd.todo)) : Same(q)'
  BY <1>1, <1>5, <1>6, PackageStays
<1>8. /\ cmd'.verb = "migrate" /\ cmd'.pkgs = cmd.pkgs /\ cmd'.found = cmd.found
      /\ cmd'.launch = cmd.launch
      /\ \/ cmd.step = "patch" /\ cmd'.step = "manifests" /\ cmd'.todo = cmd.todo
         \/ cmd.step = "manifests" /\ cmd'.step = "metadata" /\ cmd'.todo = cmd.todo
         \/ cmd.step = "metadata" /\ cmd'.step = "package.xml" /\ cmd'.todo = cmd.todo
         \/ /\ cmd.step = "package.xml" /\ cmd'.todo = Tail(cmd.todo)
            /\ cmd'.step = IF Tail(cmd.todo) = <<>> THEN "bringup" ELSE "patch"
  BY <1>1, <1>2, GoingOn
<1>9. Progress'
  <2>1. CASE cmd.step # "package.xml"
    BY <1>1, <1>4, <1>6, <1>7, <1>8, <2>1, PackageStepSet DEF Progress
  <2>2. CASE cmd.step = "package.xml"
    <3>1. cmd'.todo = Tail(cmd.todo)
      BY <1>8, <2>2
    <3>2. \A q \in Components \ ToSet(cmd'.todo) : Migrated(q)'
      BY <1>5, <1>7, <2>2, <3>1
    <3>3. cmd'.todo # <<>> => /\ Head(cmd'.todo) \in ToSet(cmd'.todo)
                              /\ ToSet(Tail(cmd'.todo)) \subseteq ToSet(cmd'.todo)
      <4> DEFINE left == Tail(cmd.todo)
      <4>1. left \in Seq(Pkg)
        BY <1>5
      <4> HIDE DEF left
      <4>2. left # <<>> => ToSet(left) = {Head(left)} \cup ToSet(Tail(left))
        BY <4>1, SequenceFacts
      <4>3. cmd'.todo = left
        BY <3>1 DEF left
      <4> QED
        BY <4>2, <4>3
    <3> QED
      BY <1>1, <1>4, <1>5, <1>6, <1>7, <1>8, <2>2, <3>1, <3>2, <3>3, PackageStepSet DEF Progress
  <2> QED
    BY <2>1, <2>2
<1> QED
  BY <1>3, <1>8, <1>9, Migrating

LEMMA MigrationMigrate ==
    ASSUME WlTypes, RunFacts, MigrationInv, MigrateStep
    PROVE  MigrationInv'
<1> DEFINE p == Head(cmd.todo)
<1>1. cmd.verb = "migrate" /\ cmd \in MigrateCmd
  BY CmdByVerb DEF WlTypes, MigrateStep, WriteSystem, CopyLaunch, RemoveLaunch, PatchPackage,
     RemoveManifest, RemoveMetadata, RegenerateXml, WriteBringupXml, RemoveConfig, PatchRoot
<1>2. cmd.step \in ToSet(PackageSteps) =>
         /\ cmd.todo # <<>> /\ p \in Pkg /\ p \in Components
         /\ shape.manifest[p] # {} /\ cmd.found[p] = shape.manifest[p]
         /\ p \notin ToSet(Tail(cmd.todo))
  BY <1>1, SequenceFacts, OthersStay DEF RunFacts, MigrateFacts, MigrateCmd, MigrationInv, Progress
<1>3. /\ cmd.step = "patch" => Same(p)
      /\ cmd.step \in {"manifests", "metadata", "package.xml"} => Moved(p)
      /\ cmd.step \in {"metadata", "package.xml"} => manifest[p] = {}
      /\ cmd.step = "package.xml" => ~recorded[p]
  BY <1>1, PackageStepSet DEF MigrationInv, Progress
<1>4. p \in Pkg => Kept(p)
  BY DEF MigrationInv
<1>5. CASE WriteSystem
  BY <1>1, <1>5, MigrationWaits DEF WriteSystem, tomls, counts
<1>6. CASE CopyLaunch
  BY <1>1, <1>6, MigrationWaits DEF CopyLaunch, tomls, counts
<1>7. CASE RemoveLaunch
  BY <1>1, <1>7, MigrationWaits DEF RemoveLaunch, dirs, counts
<1>8. CASE PatchPackage
  <2>1. UNCHANGED <<shape, root, manifest, packageXml, recorded>> /\ cmd.step = "patch"
    BY <1>8 DEF PatchPackage, dirs, counts
  <2>2. CASE cargo[p] = Garbled
    BY <1>1, <1>8, <2>1, <2>2, MigrationWaits DEF PatchPackage
  <2>3. CASE cargo[p] # Garbled
    <3>1. /\ p \in Pkg /\ Same(p) /\ packageXml[p] = shape.packageXml[p]
          /\ cmd.found[p] = shape.manifest[p] /\ cmd.todo # <<>>
      BY <1>2, <1>3, <1>4, <2>1, PackageStepSet DEF Kept
    <3>2. /\ cargo'[p] \in CargoToml /\ cargo'[p].nodes = NodesIn(cmd.found[p])
          /\ cargo'[p].ament = AmentOf(packageXml[p]) /\ GoesOn /\ report' = report
          /\ \A q \in Pkg : q # p => cargo'[q] = cargo[q]
      BY <1>1, <1>8, <2>3, <3>1, PackagePatched
    <3> HIDE DEF p
    <3>3. PICK q \in Pkg : q = p
      BY <3>1
    <3>4. Moved(q)' /\ Same(q)' /\ packageXml'[q] = shape'.packageXml[q]
      BY <2>1, <3>1, <3>2, <3>3 DEF Moved, Same
    <3>5. Kept(q)'
      BY <1>4, <2>1, <3>1, <3>3, <3>4 DEF Kept, Same
    <3> QED
      BY <1>1, <2>1, <3>2, <3>3, <3>4, <3>5, PackageStepSet, MigrationGoesOn DEF p
  <2> QED
    BY <2>2, <2>3
<1>9. CASE RemoveManifest
  <2>1. UNCHANGED <<shape, root, cargo, packageXml, recorded, report>> /\ cmd.step = "manifests"
    BY <1>9 DEF RemoveManifest, dirs, counts
  <2>2. /\ p \in Pkg /\ Moved(p) /\ cmd.found[p] = shape.manifest[p] /\ shape.manifest[p] # {}
        /\ manifest[p] \subseteq shape.manifest[p] /\ Kept(p)
    BY <1>2, <1>3, <1>4, <2>1, PackageStepSet DEF Kept
  <2>3. PICK q \in Pkg : q = p
    BY <2>2
  <2>4. CASE manifest[p] \cap cmd.found[p] = {}
    <3>1. GoesOn /\ manifest' = manifest /\ manifest[p] = {}
      BY <1>9, <2>2, <2>4 DEF RemoveManifest
    <3> HIDE DEF p
    <3>2. Moved(q)' /\ Kept(q)'
      BY <2>1, <2>2, <2>3, <3>1, PackageStays
    <3> QED
      BY <1>1, <2>1, <2>2, <2>3, <3>1, <3>2, PackageStepSet, MigrationGoesOn DEF p
  <2>5. CASE manifest[p] \cap cmd.found[p] # {}
    <3>1. PICK m \in manifest[p] \cap cmd.found[p] : manifest' = [manifest EXCEPT ![p] = @ \ {m}]
      BY <1>9, <2>5 DEF RemoveManifest
    <3>2. cmd' = cmd
      BY <1>9, <2>5 DEF RemoveManifest
    <3> HIDE DEF p
    <3>3. /\ manifest'[q] \subseteq shape.manifest[q] /\ m \in shape.manifest[q] /\ m \notin manifest'[q]
          /\ \A r \in Pkg \ {q} : manifest'[r] = manifest[r]
      BY <2>2, <2>3, <3>1 DEF WlTypes
    <3>4. Moved(q)'
      BY <2>1, <2>2, <2>3 DEF Moved
    <3>5. Kept(q)'
      BY <2>1, <2>2, <2>3, <3>3, <3>4 DEF Kept, Same
    <3>6. \A r \in Pkg : Kept(r)'
      BY <2>1, <3>3, <3>5, PackageStays DEF MigrationInv
    <3>7. Components \subseteq Pkg /\ Components' = Components
      BY <2>1, ComponentFacts DEF Components
    <3>8. ToSet(Tail(cmd.todo)) \subseteq Components /\ q \in ToSet(cmd.todo)
          /\ q \notin ToSet(Tail(cmd.todo))
      BY <1>1, <1>2, <2>1, <2>3, OthersStay, SequenceFacts, PackageStepSet
         DEF MigrationInv, MigrateCmd, p
    <3>9. /\ \A r \in Components \ ToSet(cmd.todo) : Migrated(r)
          /\ \A r \in ToSet(Tail(cmd.todo)) : Same(r)
      BY <1>1, <2>1, PackageStepSet DEF MigrationInv, Progress
    <3>10. /\ \A r \in Components \ ToSet(cmd.todo) : Migrated(r)'
           /\ \A r \in ToSet(Tail(cmd.todo)) : Same(r)'
      BY <2>1, <3>3, <3>7, <3>8, <3>9, PackageStays
    <3>11. AlreadyMigrated' <=> AlreadyMigrated
      BY <2>1 DEF AlreadyMigrated, There
    <3>12. Progress'
      BY <1>1, <2>1, <2>3, <3>2, <3>4, <3>7, <3>10, <3>11, PackageStepSet DEF MigrationInv, Progress, p
    <3> QED
      BY <1>1, <2>1, <3>2, <3>6, <3>12, Migrating
  <2> QED
    BY <2>4, <2>5
<1>10. CASE RemoveMetadata
  <2>1. /\ UNCHANGED <<shape, root, cargo, packageXml, manifest, report>> /\ cmd.step = "metadata"
        /\ recorded' = [recorded EXCEPT ![p] = FALSE] /\ GoesOn
    BY <1>10 DEF RemoveMetadata, dirs, counts
  <2>2. p \in Pkg /\ Moved(p) /\ manifest[p] = {} /\ Kept(p)
    BY <1>2, <1>3, <1>4, <2>1, PackageStepSet
  <2> HIDE DEF p
  <2>3. PICK q \in Pkg : q = p
    BY <2>2
  <2>4. ~recorded'[q] /\ \A r \in Pkg \ {q} : recorded'[r] = recorded[r]
    BY <2>1, <2>3 DEF WlTypes
  <2>5. Moved(q)' /\ Kept(q)'
    BY <2>1, <2>2, <2>3 DEF Moved, Kept, Same
  <2> QED
    BY <1>1, <2>1, <2>2, <2>3, <2>4, <2>5, PackageStepSet, MigrationGoesOn DEF p
<1>11. CASE RegenerateXml
  <2>1. UNCHANGED <<shape, root, cargo, recorded, manifest>> /\ cmd.step = "package.xml"
    BY <1>11 DEF RegenerateXml, dirs, counts
  <2>2. CASE ~cargo[p].named
    BY <1>1, <1>11, <2>1, <2>2, MigrationWaits DEF RegenerateXml
  <2>3. CASE cargo[p].named
    <3>1. /\ packageXml' = [packageXml EXCEPT ![p] = [marked |-> TRUE, depends |-> cargo[p].ament]]
          /\ GoesOn /\ report' = report
      BY <1>11, <2>3 DEF RegenerateXml
    <3>2. /\ p \in Pkg /\ Moved(p) /\ manifest[p] = {} /\ ~recorded[p] /\ Kept(p)
          /\ shape.manifest[p] # {}
      BY <1>2, <1>3, <1>4, <2>1, PackageStepSet
    <3> HIDE DEF p
    <3>3. PICK q \in Pkg : q = p
      BY <3>2
    <3>4. /\ packageXml'[q] = [marked |-> TRUE, depends |-> AmentOf(shape.packageXml[q])]
          /\ \A r \in Pkg \ {q} : packageXml'[r] = packageXml[r]
      BY <3>1, <3>2, <3>3 DEF WlTypes, Moved
    <3>5. Moved(q)' /\ AmentOf(shape.packageXml[q])' = AmentOf(shape.packageXml[q])
      BY <2>1, <3>2, <3>3 DEF Moved, AmentOf
    <3>6. Migrated(q)'
      BY <2>1, <3>2, <3>3, <3>4, <3>5 DEF Migrated
    <3>7. Kept(q)'
      BY <2>1, <3>2, <3>3, <3>5 DEF Kept, Same
    <3> QED
      BY <1>1, <2>1, <3>1, <3>2, <3>3, <3>4, <3>5, <3>6, <3>7, PackageStepSet, MigrationGoesOn DEF p
  <2> QED
    BY <2>2, <2>3
<1>12. CASE WriteBringupXml
  BY <1>1, <1>12, MigrationWaits DEF WriteBringupXml, tomls, counts
<1>13. CASE RemoveConfig
  BY <1>1, <1>13, MigrationWaits DEF RemoveConfig, dirs, counts
<1>14. CASE PatchRoot
  <2>1. UNCHANGED <<shape, cargo, packageXml, recorded, manifest, config, bringup>> /\ cmd.step = "root"
    BY <1>14 DEF PatchRoot, tomls, counts
  <2>2. CASE root = Garbled
    BY <1>1, <1>14, <2>1, <2>2, MigrationWaits DEF PatchRoot
  <2>3. CASE root # Garbled
    <3>1. PICK c \in Bringup : c = cmd.bringup
      BY <1>1 DEF MigrateCmd
    <3>2. /\ root' \in RootToml /\ root'.system = c /\ c \in root'.exclude
          /\ cmd.pkgs \subseteq root'.members /\ cmd' = NothingRuns
          /\ report' = [verb |-> "migrate", bringup |-> c, target |-> Absent]
      BY <1>1, <1>14, <2>3, <3>1, RootPatched
    <3>3. /\ cmd.pkgs = Components /\ cmd.launch = shape.config.launch /\ config = Absent
          /\ \A q \in Components : Migrated(q)
      <4>1. cmd.todo = <<>> /\ ToSet(cmd.todo) = {}
        BY <1>1, <2>1 DEF MigrationInv, Progress, ToSet
      <4> QED
        BY <1>1, <2>1, <4>1 DEF MigrationInv, Progress
    <3>4. Components \subseteq Pkg /\ Components' = Components
      BY <2>1, ComponentFacts DEF Components
    <3>5. /\ \A q \in Components : Migrated(q)'
          /\ \A q \in Pkg : Kept(q)'
      BY <2>1, <3>3, <3>4, PackageStays DEF MigrationInv
    <3>6. Over' /\ AlreadyMigrated'
      BY <2>1, <3>2, <3>3, <3>4, <3>5, LayoutConstants DEF Over, AlreadyMigrated, There
    <3>7. shape.config.launch => bringup[c].launch = "whole"
      BY <1>1, <2>1, <3>1, <3>3 DEF RunFacts, MigrateFacts
    <3>8. Reported'
      BY <2>1, <3>2, <3>6, <3>7 DEF Reported
    <3>9. Progress' /\ NewPackage'
      BY <3>2 DEF Progress, NewPackage, NothingRuns
    <3> QED
      BY <3>5, <3>6, <3>8, <3>9 DEF MigrationInv
  <2> QED
    BY <2>2, <2>3
<1> QED
  BY <1>5, <1>6, <1>7, <1>8, <1>9, <1>10, <1>11, <1>12, <1>13, <1>14 DEF MigrateStep

LEMMA MigrationGive ==
    ASSUME WlTypes, RunFacts, MigrationInv, GiveCommand, ~rerun'
    PROVE  MigrationInv'
<1>1. UNCHANGED <<tomls, dirs, shape>> /\ cmd = NothingRuns
  BY DEF GiveCommand, AnswerMigrated, Migrate, NewSystem, NewDeploy, NewComponent, Given
<1>2. UNCHANGED <<config, manifest, cargo, packageXml, recorded, launchFile, bringup, root, glue>>
  BY <1>1 DEF tomls, dirs
<1>3. Components \subseteq Pkg /\ Components' = Components
  BY <1>1, ComponentFacts DEF Components
<1>4. (\A p \in Pkg : Kept(p)) /\ Over /\ Reported
  BY DEF MigrationInv
<1>5. (AlreadyMigrated' <=> AlreadyMigrated) /\ Over' /\ \A p \in Pkg : Kept(p)'
  BY <1>1, <1>2, <1>3, <1>4, PackageStays DEF Over, AlreadyMigrated, There
<1>6. CASE AnswerMigrated
  <2>1. cmd' = NothingRuns /\ report'.verb = "already" /\ AlreadyMigrated
    BY <1>6 DEF AnswerMigrated, Done
  <2>2. Reported'
    BY <1>5, <2>1 DEF Reported
  <2> QED
    BY <1>5, <2>1, <2>2 DEF MigrationInv, Progress, NewPackage, NothingRuns
<1>7. ASSUME NEW b \in Bringup, NEW force \in BOOLEAN, Migrate(b, force)
      PROVE  MigrationInv'
  <2>1. /\ cmd' = MigrationPlan(b) /\ report' = NoReport
        /\ CanMigrate /\ config \in ConfigFile
        /\ launchFile = shape.config.launch
        /\ \A p \in Pkg : shape.manifest[p] \subseteq manifest[p]
    BY <1>7 DEF Migrate, Begins, CanMigrate, There, WlTypes
  <2>2. config.components = shape.config.components /\ Components = ToSet(config.components)
    BY <2>1 DEF RunFacts, Tables, Components
  <2>3. ASSUME NEW p \in Components
        PROVE  shape.manifest[p] # {} /\ Discover(p) = shape.manifest[p] /\ Same(p)
    <3>1. p \in Pkg /\ Discover(p) # {} /\ Kept(p)
      BY <1>3, <1>4, <2>1, <2>2 DEF CanMigrate
    <3>2. shape.manifest[p] # {}
      BY <3>1 DEF Kept, Discover
    <3>3. manifest[p] = shape.manifest[p]
      BY <2>1, <3>1, <3>2 DEF Kept
    <3>4. \A m \in manifest[p] : m[1] \in {"component_nros.toml", "nros/components"}
      BY <3>1, <3>3, ComponentFacts DEF LegacyForm
    <3> QED
      BY <3>2, <3>3, <3>4 DEF Discover, Same
  <2>4. /\ cmd'.verb = "migrate" /\ cmd'.step = "system" /\ cmd'.pkgs = Components
        /\ cmd'.todo = shape.config.components /\ ToSet(cmd'.todo) = Components
        /\ \A p \in Pkg : cmd'.found[p] = Discover(p)
        /\ cmd'.launch = shape.config.launch
    BY <2>1, <2>2 DEF MigrationPlan
  <2>5. \A p \in Components : Same(p)'
    BY <1>1, <1>2, <1>3, <2>3 DEF Same
  <2>6. ~AlreadyMigrated'
    BY <1>4, <1>5, <2>1, LayoutConstants DEF Over
  <2>7. IsInjective(cmd'.todo)
    BY <2>4, ComponentFacts
  <2>8. Progress'
    BY <1>1, <1>3, <2>3, <2>4, <2>5, <2>6, <2>7, PackageStepSet DEF Progress
  <2>9. NewPackage'
    BY <2>4 DEF NewPackage
  <2> QED
    BY <1>5, <2>1, <2>8, <2>9, NothingSaid DEF MigrationInv
<1>8. ASSUME report' = NoReport, cmd'.verb # "migrate", NewPackage'
      PROVE  MigrationInv'
  BY <1>5, <1>8, NothingSaid DEF MigrationInv, Progress
<1>9. ASSUME NEW b \in Bringup, NEW force \in BOOLEAN, NEW pkgs \in ComponentLists,
             NewSystem(b, pkgs, force)
      PROVE  MigrationInv'
  BY <1>8, <1>9 DEF NewSystem, Begins, NewPackage
<1>10. ASSUME NEW t \in Target, NEW force \in BOOLEAN, NEW kind, NEW from,
              NewDeploy(t, kind, from, force)
       PROVE  MigrationInv'
  <2>1. report' = NoReport /\ cmd'.verb = "deploy"
    BY <1>10 DEF NewDeploy, Begins
  <2> QED
    BY <1>8, <2>1 DEF NewPackage
<1>11. ASSUME NEW p \in Pkg, NewComponent(p)
       PROVE  MigrationInv'
  <2>1. cmd'.verb = "component" /\ cmd'.pkg = p /\ report' = NoReport
    BY <1>11 DEF NewComponent, Begins
  <2>2. shape.manifest[p] = {}
    <3>1. manifest[p] = {} /\ cargo[p] \notin CargoToml
      BY <1>11, LayoutConstants DEF NewComponent
    <3> QED
      BY <1>4, <3>1 DEF Kept, Same, Moved
  <2> QED
    BY <1>1, <1>8, <2>1, <2>2 DEF NewPackage
<1> QED
  BY <1>6, <1>7, <1>9, <1>10, <1>11 DEF GiveCommand

LEMMA MigrationRest ==
    ASSUME WlTypes, RunFacts, MigrationInv,
           ScaffoldStep \/ AddToExclude \/ WriteTable \/ WriteGlue \/ ComponentStep
    PROVE  MigrationInv'
<1>1. Components \subseteq Pkg /\ (shape' = shape => Components' = Components)
  BY ComponentFacts DEF Components
<1>2. (\A p \in Pkg : Kept(p)) /\ Over /\ Reported /\ NewPackage
  BY DEF MigrationInv
<1>3. CASE ScaffoldStep
  <2>1. cmd'.verb = "system" /\ cmd # NothingRuns /\ report' = report
    BY <1>3, Scaffolded
  <2>2. UNCHANGED <<shape, config, manifest, cargo, packageXml, recorded, root>>
    BY <1>3 DEF ScaffoldStep, tomls, counts
  <2>3. \A p \in Pkg : (Kept(p)' <=> Kept(p)) /\ (Migrated(p)' <=> Migrated(p))
    BY <2>2, PackageStays
  <2>4. Over'
    BY <1>1, <1>2, <2>2, <2>3 DEF Over, AlreadyMigrated, There
  <2>5. report' = NoReport /\ Progress' /\ NewPackage'
    BY <2>1 DEF RunFacts, Silent, Progress, NewPackage
  <2> QED
    BY <1>2, <2>3, <2>4, <2>5, NothingSaid DEF MigrationInv
<1>4. CASE AddToExclude
  <2>1. UNCHANGED <<shape, config, manifest, cargo, packageXml, recorded>>
    BY <1>4 DEF AddToExclude, tomls, counts
  <2>2. cmd' = NothingRuns /\ report'.verb \in {"none", "system"}
    BY <1>4 DEF AddToExclude, Err, Done, NoReport
  <2>3. \A p \in Pkg : (Kept(p)' <=> Kept(p)) /\ (Migrated(p)' <=> Migrated(p))
    BY <2>1, PackageStays
  <2>4. AlreadyMigrated' =>
           /\ AlreadyMigrated /\ root'.system = root.system /\ root'.members = root.members
           /\ root.exclude \subseteq root'.exclude
    <3>1. CASE root = Garbled \/ root = Absent
      BY <1>4, <3>1 DEF AddToExclude, AlreadyMigrated, There
    <3>2. CASE root \in RootToml
      <4>1. root # Garbled /\ root # Absent
        BY <3>2, LayoutConstants
      <4>2. root' = [root EXCEPT !.exclude = root.exclude \cup {cmd.bringup}]
        BY <1>4, <4>1 DEF AddToExclude
      <4>3. /\ root'.system = root.system /\ root'.members = root.members
            /\ root'.exclude = root.exclude \cup {cmd.bringup}
        BY <3>2, <4>2 DEF RootToml
      <4> QED
        BY <4>1, <4>3 DEF AlreadyMigrated, There
    <3> QED
      BY <3>1, <3>2 DEF WlTypes
  <2>5. Over'
    BY <1>1, <1>2, <2>1, <2>3, <2>4 DEF Over
  <2>6. Reported' /\ Progress' /\ NewPackage'
    BY <2>2 DEF Reported, Progress, NewPackage, NothingRuns
  <2> QED
    BY <1>2, <2>3, <2>5, <2>6 DEF MigrationInv
<1>5. CASE WriteTable
  <2>1. UNCHANGED <<shape, root, manifest, cargo, packageXml, recorded>>
    BY <1>5 DEF WriteTable, dirs, counts
  <2>2. \A p \in Pkg : Kept(p)'
    BY <1>2, <2>1, PackageStays
  <2>3. ~AlreadyMigrated
    BY <1>2, <1>5, LayoutConstants DEF WriteTable, RunFacts, DeployFacts, Over
  <2>4. Over'
    BY <2>1, <2>3 DEF Over, AlreadyMigrated, There
  <2>5. cmd'.verb \in {"none", "deploy"} /\ report'.verb \in {"none", "deploy"}
    <3>1. cmd \in DeployCmd /\ report = NoReport
      BY <1>5, CmdByVerb DEF WriteTable, WlTypes, RunFacts, Silent, NothingRuns
    <3> QED
      BY <1>5, <3>1 DEF WriteTable, Goes, Done, NothingRuns, NoReport, DeployCmd
  <2>6. Reported' /\ Progress' /\ NewPackage'
    BY <2>5 DEF Reported, Progress, NewPackage
  <2> QED
    BY <2>2, <2>4, <2>6 DEF MigrationInv
<1>6. CASE WriteGlue
  <2>1. UNCHANGED <<shape, config, root, manifest, cargo, packageXml, recorded>>
    BY <1>6 DEF WriteGlue, tomls, counts
  <2>2. cmd' = NothingRuns /\ report'.verb = "deploy"
    BY <1>6 DEF WriteGlue, Done
  <2>3. \A p \in Pkg : (Kept(p)' <=> Kept(p)) /\ (Migrated(p)' <=> Migrated(p))
    BY <2>1, PackageStays
  <2>4. Over'
    BY <1>1, <1>2, <2>1, <2>3 DEF Over, AlreadyMigrated, There
  <2>5. Reported' /\ Progress' /\ NewPackage'
    BY <2>2 DEF Reported, Progress, NewPackage, NothingRuns
  <2> QED
    BY <1>2, <2>3, <2>4, <2>5 DEF MigrationInv
<1>7. CASE ComponentStep
  <2>1. /\ cmd \in ComponentCmd /\ cmd # NothingRuns /\ cmd.verb = "component"
        /\ UNCHANGED <<shape, config, recorded, root>>
    BY <1>7, CmdByVerb DEF ComponentStep, WlTypes, NothingRuns, dirs, counts
  <2>2. PICK p \in Pkg : p = cmd.pkg
    BY <2>1 DEF ComponentCmd
  <2>3. shape.manifest[p] = {} /\ report = NoReport
    BY <1>2, <2>1, <2>2 DEF NewPackage, RunFacts, Silent
  <2>4. /\ \A q \in Pkg \ {p} : /\ manifest'[q] = manifest[q] /\ cargo'[q] = cargo[q]
                                /\ packageXml'[q] = packageXml[q] /\ recorded'[q] = recorded[q]
        /\ manifest'[p] \in {manifest[p], {<<"nros.toml", p>>}}
    BY <1>7, <2>1, <2>2 DEF ComponentStep, WlTypes
  <2>5. Kept(p)'
    BY <1>2, <2>1, <2>3, <2>4 DEF Kept
  <2>6. \A q \in Pkg : Kept(q)'
    BY <1>2, <2>1, <2>4, <2>5, PackageStays
  <2>7. ASSUME NEW q \in Components, Migrated(q) PROVE Migrated(q)'
    <3>1. q # p /\ q \in Pkg
      BY <1>1, <2>3, <2>7 DEF Migrated
    <3> QED
      BY <2>1, <2>4, <2>7, <3>1, PackageStays
  <2>8. Over'
    BY <1>1, <1>2, <2>1, <2>7 DEF Over, AlreadyMigrated, There
  <2>9. \/ cmd'.verb = "component" /\ cmd'.pkg = p /\ report' = report
        \/ cmd' = NothingRuns /\ report'.verb = "component"
    BY <1>7, <2>1, <2>2 DEF ComponentStep, Goes, Done, ComponentCmd
  <2>10. Reported' /\ Progress' /\ NewPackage'
    BY <2>1, <2>3, <2>9 DEF Reported, Progress, NewPackage, NothingRuns, NoReport
  <2> QED
    BY <2>6, <2>8, <2>10 DEF MigrationInv
<1> QED
  BY <1>3, <1>4, <1>5, <1>6, <1>7

LEMMA MigrationCut ==
    ASSUME WlTypes, RunFacts, MigrationInv, CutShort
    PROVE  MigrationInv'
<1>1. cmd' = NothingRuns /\ report' = NoReport /\ shape' = shape /\ cmd # NothingRuns
  BY DEF CutShort, Err, Done
<1>2. Components \subseteq Pkg /\ Components' = Components
  BY <1>1, ComponentFacts DEF Components
<1>3. (\A p \in Pkg : Kept(p)) /\ Over
  BY DEF MigrationInv
<1>4. cmd.step \in {"patch", "package.xml", "root"} => cmd.verb = "migrate" /\ cmd \in MigrateCmd
  BY <1>1, CmdByVerb DEF WlTypes, MigrateCmd, SystemCmd, DeployCmd, ComponentCmd
<1>5. cmd.verb = "migrate" => ~AlreadyMigrated
  BY DEF MigrationInv, Progress
<1>6. cmd.step \in {"patch", "package.xml"} =>
         /\ Head(cmd.todo) \in Pkg /\ shape.manifest[Head(cmd.todo)] # {}
         /\ cmd.step = "patch" => Same(Head(cmd.todo))
         /\ cmd.step = "package.xml" => ~Same(Head(cmd.todo))
  <2>1. ASSUME cmd.step \in {"patch", "package.xml"}
        PROVE  cmd.todo # <<>> /\ cmd.todo \in Seq(Pkg) /\ Progress
    BY <1>4, <2>1, PackageStepSet DEF RunFacts, MigrateFacts, MigrateCmd, MigrationInv
  <2>2. ASSUME cmd.step \in {"patch", "package.xml"}
        PROVE  Head(cmd.todo) \in Components
    BY <1>4, <2>1, <2>2, OthersStay
  <2> QED
    BY <1>2, <1>4, <2>1, <2>2, PackageStepSet DEF Progress, Same
<1>7. CASE UNCHANGED <<config, manifest, cargo, packageXml, recorded, root>>
  <2>1. \A p \in Pkg : (Kept(p)' <=> Kept(p)) /\ (Migrated(p)' <=> Migrated(p))
    BY <1>1, <1>7, PackageStays
  <2>2. Over'
    BY <1>2, <1>3, <1>7, <2>1 DEF Over, AlreadyMigrated, There
  <2> QED
    BY <1>1, <1>3, <2>1, <2>2, MigrationEnds
<1>8. CASE /\ cmd.step = "patch"
           /\ \E c \in TornCargo : cargo' = [cargo EXCEPT ![Head(cmd.todo)] = c]
           /\ UNCHANGED <<config, manifest, packageXml, recorded, launchFile, dirs>>
  <2>1. PICK p \in Pkg : p = Head(cmd.todo)
    BY <1>6, <1>8
  <2>2. UNCHANGED <<manifest, packageXml, recorded, root>> /\ Same(p) /\ shape.manifest[p] # {}
    BY <1>6, <1>8, <2>1 DEF dirs
  <2>3. \A q \in Pkg \ {p} : cargo'[q] = cargo[q]
    BY <1>8, <2>1 DEF WlTypes
  <2>4. Kept(p)'
    BY <1>1, <1>3, <2>2 DEF Kept, Same
  <2>5. \A q \in Pkg : Kept(q)'
    BY <1>1, <1>3, <2>2, <2>3, <2>4, PackageStays
  <2>6. Over'
    BY <1>4, <1>5, <1>8, <2>2 DEF Over, AlreadyMigrated, There
  <2> QED
    BY <1>1, <2>5, <2>6, MigrationEnds
<1>9. CASE /\ cmd.step = "package.xml"
           /\ \E x \in TornXml : packageXml' = [packageXml EXCEPT ![Head(cmd.todo)] = x]
           /\ UNCHANGED <<config, manifest, cargo, recorded, launchFile, dirs>>
  <2>1. PICK p \in Pkg : p = Head(cmd.todo)
    BY <1>6, <1>9
  <2>2. UNCHANGED <<manifest, cargo, recorded, root>> /\ ~Same(p) /\ shape.manifest[p] # {}
    BY <1>6, <1>9, <2>1 DEF dirs
  <2>3. \A q \in Pkg \ {p} : packageXml'[q] = packageXml[q]
    BY <1>9, <2>1 DEF WlTypes
  <2>4. Moved(p)'
    BY <1>1, <1>3, <2>2 DEF Kept, Moved
  <2>5. Kept(p)'
    BY <1>1, <1>3, <2>2, <2>4 DEF Kept, Same
  <2>6. \A q \in Pkg : Kept(q)'
    BY <1>1, <1>3, <2>2, <2>3, <2>5, PackageStays
  <2>7. Over'
    BY <1>4, <1>5, <1>9, <2>2 DEF Over, AlreadyMigrated, There
  <2> QED
    BY <1>1, <2>6, <2>7, MigrationEnds
<1>10. CASE cmd.step = "table" /\ UNCHANGED <<manifest, cargo, packageXml, recorded, root>>
  <2>1. cmd.verb = "deploy"
    BY <1>1, <1>10, CmdByVerb DEF WlTypes, MigrateCmd, SystemCmd, DeployCmd, ComponentCmd
  <2>2. ~AlreadyMigrated
    BY <1>3, <2>1, LayoutConstants DEF RunFacts, DeployFacts, Over
  <2>3. Over'
    BY <1>10, <2>2 DEF Over, AlreadyMigrated, There
  <2>4. \A p \in Pkg : Kept(p)'
    BY <1>1, <1>3, <1>10, PackageStays
  <2> QED
    BY <1>1, <2>3, <2>4, MigrationEnds
<1>11. CASE root' \in TornRoot /\ UNCHANGED <<manifest, cargo, packageXml, recorded>>
  <2>1. ~AlreadyMigrated'
    BY <1>11 DEF TornRoot, AlreadyMigrated, There
  <2>2. \A p \in Pkg : Kept(p)'
    BY <1>1, <1>3, <1>11, PackageStays
  <2> QED
    BY <1>1, <2>1, <2>2, MigrationEnds DEF Over
<1> QED
  BY <1>7, <1>8, <1>9, <1>10, <1>11 DEF CutShort, tomls, dirs

LEMMA MigrationUser ==
    ASSUME WlTypes, RunFacts, MigrationInv, Repair \/ \E t \in Target : FillGlue(t)
    PROVE  MigrationInv'
<1>1. /\ cmd' = NothingRuns
      /\ UNCHANGED <<shape, report, manifest, packageXml, recorded, launchFile, bringup>>
  BY DEF Repair, FillGlue, tomls, counts
<1>2. Components \subseteq Pkg /\ Components' = Components
  BY <1>1, ComponentFacts DEF Components
<1>3. (\A p \in Pkg : Kept(p)) /\ Over /\ Reported
  BY DEF MigrationInv
<1>4. ASSUME \A p \in Pkg : Kept(p)', Over', AlreadyMigrated => AlreadyMigrated'
      PROVE  MigrationInv'
  <2>1. Reported'
    BY <1>1, <1>3, <1>4 DEF Reported
  <2>2. Progress' /\ NewPackage'
    BY <1>1 DEF Progress, NewPackage, NothingRuns
  <2> QED
    BY <1>4, <2>1, <2>2 DEF MigrationInv
<1>5. CASE UNCHANGED <<config, cargo, root>>
  <2>1. \A p \in Pkg : (Kept(p)' <=> Kept(p)) /\ (Migrated(p)' <=> Migrated(p))
    BY <1>1, <1>5, PackageStays
  <2>2. Over' /\ (AlreadyMigrated => AlreadyMigrated')
    BY <1>2, <1>3, <1>5, <2>1 DEF Over, AlreadyMigrated, There
  <2> QED
    BY <1>3, <1>4, <2>1, <2>2
<1>6. CASE Repair
  <2>1. ASSUME NEW p \in Pkg, cargo[p] = Garbled, UNCHANGED <<config, root>>,
               cargo' = [cargo EXCEPT ![p] = IF There(shape.cargo[p]) THEN shape.cargo[p] ELSE Absent]
        PROVE  MigrationInv'
    <3>1. \A q \in Pkg \ {p} : cargo'[q] = cargo[q]
      BY <2>1 DEF WlTypes
    <3>2. ~Moved(p)
      BY <2>1, LayoutConstants DEF Moved
    <3>3. Kept(p)'
      BY <1>1, <1>3, <3>2 DEF Kept, Same
    <3>4. \A q \in Pkg : Kept(q)'
      BY <1>1, <1>3, <3>1, <3>3, PackageStays
    <3>5. ASSUME NEW q \in Pkg, Migrated(q) PROVE Migrated(q)'
      BY <1>1, <3>1, <3>2, <3>5, PackageStays DEF Migrated
    <3>6. Over' /\ (AlreadyMigrated => AlreadyMigrated')
      BY <1>2, <1>3, <2>1, <3>5 DEF Over, AlreadyMigrated, There
    <3> QED
      BY <1>4, <3>4, <3>6
  <2>2. CASE /\ root = Garbled /\ root' = IF shape.root = Garbled THEN Absent ELSE shape.root
             /\ UNCHANGED <<config, cargo>>
    <3>1. \A p \in Pkg : Kept(p)'
      BY <1>1, <1>3, <2>2, PackageStays
    <3>2. ~AlreadyMigrated /\ ~AlreadyMigrated'
      BY <2>2, OldShapes DEF AlreadyMigrated, There, OldShape
    <3> QED
      BY <1>4, <3>1, <3>2 DEF Over
  <2>3. CASE config = Garbled /\ UNCHANGED <<cargo, root>>
    <3>1. \A p \in Pkg : Kept(p)'
      BY <1>1, <1>3, <2>3, PackageStays
    <3>2. ~AlreadyMigrated /\ ~AlreadyMigrated'
      BY <1>3, <2>3, LayoutConstants DEF Over, AlreadyMigrated, There
    <3> QED
      BY <1>4, <3>1, <3>2 DEF Over
  <2> QED
    BY <1>6, <2>1, <2>2, <2>3 DEF Repair
<1> QED
  BY <1>5, <1>6 DEF FillGlue, tomls

-----------------------------------------------------------------------------
(* The theorems.                                                           *)

LEMMA InvInit == WlInit => WlInv
<1> SUFFICES ASSUME WlInit PROVE WlInv
  OBVIOUS
<1>1. WlTypes
  BY TypesInit
<1>2. OldShape(shape) /\ config \in ConfigFile /\ config = shape.config
  BY <1>1, OldShapes DEF WlInit, OldShape
<1>3. /\ cmd = NothingRuns /\ report = NoReport /\ cuts = 0
      /\ \A t \in Target : glue[t] # "part"
  BY <1>2 DEF WlInit, OldShape
<1>4. RunFacts
  BY <1>2, <1>3, LayoutConstants DEF RunFacts, MigrateFacts, SystemFacts, DeployFacts, Silent,
     TargetReported, Tables, Spoilt, NothingRuns, NoReport, OldShape
<1>5. OkPasses
  BY <1>3 DEF OkPasses, NoReport
<1>6. ~AlreadyMigrated
  BY <1>1, <1>2 DEF WlInit, WlTypes, OldShape, AlreadyMigrated, There
<1>7. \A p \in Pkg : Kept(p)
  BY DEF WlInit, Kept, Same
<1>8. MigrationInv
  BY <1>3, <1>6, <1>7 DEF MigrationInv, Progress, NewPackage, Over, Reported, NothingRuns, NoReport
<1> QED
  BY <1>1, <1>4, <1>5, <1>8 DEF WlInv

LEMMA InvNext == WlInv /\ [WlNext]_wlVars => WlInv'
<1> SUFFICES ASSUME WlInv, [WlNext]_wlVars PROVE WlInv'
  OBVIOUS
<1>1. WlTypes /\ RunFacts /\ OkPasses
  BY DEF WlInv
<1>2. WlTypes' /\ RunFacts' /\ OkPasses'
  BY <1>1, TypesNext, FactsNext
<1>3. ASSUME ~rerun' PROVE MigrationInv'
  <2>1. CASE UNCHANGED wlVars
    <3>1. /\ UNCHANGED <<shape, config, manifest, cargo, packageXml, recorded, root, bringup>>
          /\ UNCHANGED <<cmd, report, rerun>>
      BY <2>1 DEF wlVars, tomls, dirs, counts
    <3>2. MigrationInv /\ Components \subseteq Pkg /\ Components' = Components
      BY <1>1, <1>3, <3>1, ComponentFacts DEF WlInv, Components
    <3>3. \A p \in Pkg : /\ Same(p)' <=> Same(p)
                         /\ Moved(p)' <=> Moved(p)
                         /\ Migrated(p)' <=> Migrated(p)
                         /\ Kept(p)' <=> Kept(p)
      BY <3>1, PackageStays
    <3>4. AlreadyMigrated' <=> AlreadyMigrated
      BY <3>1 DEF AlreadyMigrated, There
    <3>5. Over' /\ Reported' /\ NewPackage' /\ \A p \in Pkg : Kept(p)'
      BY <3>1, <3>2, <3>3, <3>4 DEF MigrationInv, Over, Reported, NewPackage
    <3>6. Progress'
      <4>1. CASE cmd.verb # "migrate"
        BY <3>1, <4>1 DEF Progress
      <4>2. CASE cmd.verb = "migrate"
        <5>1. cmd \in MigrateCmd
          BY <1>1, <4>2, CmdByVerb DEF WlTypes
        <5>2. cmd.step \in ToSet(PackageSteps) =>
                 /\ Head(cmd.todo) \in Pkg /\ ToSet(Tail(cmd.todo)) \subseteq Pkg
          BY <1>1, <3>2, <4>2, <5>1, OthersStay
             DEF RunFacts, MigrateFacts, MigrationInv, MigrateCmd
        <5>3. ToSet(cmd.todo) \subseteq Pkg
          BY <3>2, <4>2 DEF MigrationInv, Progress
        <5> QED
          BY <3>1, <3>2, <3>3, <3>4, <5>2, <5>3 DEF MigrationInv, Progress
      <4> QED
        BY <4>1, <4>2
    <3> QED
      BY <3>5, <3>6 DEF MigrationInv
  <2>2. CASE WlNext
    <3>1. CASE GiveCommand
      <4>1. ~rerun
        BY <1>3, <3>1 DEF GiveCommand, AnswerMigrated, Migrate, NewSystem, NewDeploy, NewComponent
      <4> QED
        BY <1>1, <1>3, <3>1, <4>1, MigrationGive DEF WlInv
    <3>2. CASE MigrateStep
      <4>1. ~rerun
        BY <1>3, <3>2 DEF MigrateStep, WriteSystem, CopyLaunch, RemoveLaunch, PatchPackage,
           RemoveManifest, RemoveMetadata, RegenerateXml, WriteBringupXml, RemoveConfig, PatchRoot
      <4> QED
        BY <1>1, <3>2, <4>1, MigrationMigrate DEF WlInv
    <3>3. CASE ScaffoldStep \/ AddToExclude \/ WriteTable \/ WriteGlue \/ ComponentStep
      <4>1. ~rerun
        BY <1>3, <3>3 DEF ScaffoldStep, AddToExclude, WriteTable, WriteGlue, ComponentStep
      <4> QED
        BY <1>1, <3>3, <4>1, MigrationRest DEF WlInv
    <3>4. CASE CutShort
      BY <1>1, <1>3, <3>4, MigrationCut DEF WlInv, CutShort
    <3>5. CASE Repair \/ \E t \in Target : FillGlue(t)
      <4>1. ~rerun
        BY <1>3, <3>5 DEF Repair, FillGlue
      <4> QED
        BY <1>1, <3>5, <4>1, MigrationUser DEF WlInv
    <3> QED
      BY <2>1, <2>2, <3>1, <3>2, <3>3, <3>4, <3>5 DEF WlNext
  <2> QED
    BY <2>1, <2>2
<1> QED
  BY <1>2, <1>3 DEF WlInv

\* AmentOf by what it answers.
LEMMA AmentSays ==
    ASSUME NEW xml \in PackageXml \cup {Absent}, NEW use \in {"build", "exec", "test"}, NEW q \in Pkg
    PROVE  <<use, q>> \in AmentOf(xml) <=>
              /\ xml # Absent
              /\ \/ <<use, q>> \in xml.depends
                 \/ use # "test" /\ <<"depend", q>> \in xml.depends
<1>1. CASE xml = Absent
  BY <1>1 DEF AmentOf
<1>2. CASE xml # Absent
  <2> DEFINE of(d) == CASE d[1] \in {"build", "exec", "test"} -> {d}
                        [] d[1] = "depend" -> {<<"build", d[2]>>, <<"exec", d[2]>>}
                        [] OTHER -> {}
  <2>1. AmentOf(xml) = UNION {of(d) : d \in xml.depends} /\ xml.depends \subseteq Dependency
    BY <1>2 DEF AmentOf, PackageXml
  <2>2. ASSUME NEW d \in Dependency
        PROVE  <<use, q>> \in of(d) <=>
                  d = <<use, q>> \/ (use # "test" /\ d = <<"depend", q>>)
    <3>1. PICK tag \in {"build", "exec", "test", "depend", "buildtool"}, r \in Pkg : d = <<tag, r>>
      BY DEF Dependency
    <3> QED
      BY <3>1
  <2> HIDE DEF of
  <2> QED
    BY <1>2, <2>1, <2>2
<1> QED
  BY <1>1, <1>2

LEMMA InvAlways == WlSpec => []WlInv
<1> QED
  BY InvInit, InvNext, PTL DEF WlSpec

\* Wherever a migration is killed and however often it is given again from the start, each
\* node is still in a manifest of its package or in the tables of its Cargo.toml: the
\* Cargo.toml is written before a manifest goes (apply_plan).
THEOREM MigrationKeepsNodes == WlSpec => []NodesKept
<1>1. WlInv => NodesKept
  <2> SUFFICES ASSUME WlInv, ~rerun, NEW p \in Pkg, NEW n \in NodesIn(shape.manifest[p])
               PROVE  n \in NodesIn(manifest[p]) \/ (There(cargo[p]) /\ n \in cargo[p].nodes)
    BY DEF NodesKept
  <2>1. Kept(p) /\ shape.manifest[p] # {}
    BY DEF WlInv, MigrationInv, NodesIn
  <2> QED
    BY <2>1, LayoutConstants DEF Kept, Same, Moved, There
<1> QED
  BY <1>1, InvAlways, PTL

\* What nros migrate workspace, nros new system and nros new --deploy answer Ok for is done:
\* the workspace has the new shape, the bringup passes nros check and is found by nros plan,
\* the deploy target is valid and has the glue its table names.
THEOREM OkIsDone == WlSpec => []OkMeansDone
<1>1. WlInv => OkIsMigrated
  <2> SUFFICES ASSUME WlInv, report.verb \in {"migrate", "already"}, ~rerun
               PROVE  /\ config = Absent
                      /\ root.system # Absent /\ root.system \in root.exclude
                      /\ report.verb = "migrate" /\ shape.config.launch =>
                            bringup[report.bringup].launch = "whole"
                      /\ \A p \in Components :
                            /\ manifest[p] = {} /\ ~recorded[p] /\ ~Drifted(p) /\ p \in root.members
                            /\ cargo[p].nodes = NodesIn(shape.manifest[p])
                            /\ \A use \in {"build", "exec", "test"}, q \in Pkg :
                                  <<use, q>> \in packageXml[p].depends <=>
                                      /\ shape.packageXml[p] # Absent
                                      /\ \/ <<use, q>> \in shape.packageXml[p].depends
                                         \/ use # "test" /\ <<"depend", q>> \in shape.packageXml[p].depends
    BY DEF OkIsMigrated, Components
  <2>1. AlreadyMigrated /\ Over /\ Reported /\ WlTypes
    BY DEF WlInv, MigrationInv, Reported
  <2>2. config = Absent /\ root.system # Absent /\ root.system \in root.exclude
    BY <2>1 DEF Over, AlreadyMigrated
  <2>3. report.verb = "migrate" /\ shape.config.launch => bringup[report.bringup].launch = "whole"
    BY <2>1 DEF Reported
  <2>4. ASSUME NEW p \in Components
        PROVE  /\ manifest[p] = {} /\ ~recorded[p] /\ ~Drifted(p) /\ p \in root.members
               /\ cargo[p].nodes = NodesIn(shape.manifest[p])
               /\ packageXml[p].depends = AmentOf(shape.packageXml[p])
               /\ shape.packageXml[p] \in PackageXml \cup {Absent}
    <3>1. Migrated(p) /\ p \in root.members /\ p \in Pkg
      BY <2>1, ComponentFacts DEF Over
    <3>2. packageXml[p].depends = AmentOf(shape.packageXml[p])
      BY <3>1 DEF Migrated
    <3> QED
      BY <2>1, <3>1, <3>2, ComponentFacts DEF Migrated, Moved, Drifted
  <2> QED
    BY <2>2, <2>3, <2>4, AmentSays
<1>2. WlInv => OkPasses
  BY DEF WlInv
<1> QED
  BY <1>1, <1>2, InvAlways, PTL DEF OkMeansDone
=============================================================================
