------------------------- MODULE ColconBuildProofs -------------------------
(***************************************************************************)
(* For any packages, kinds and dependencies: a task that returns 0 has     *)
(* installed its package (OkIsInstalled), and cargo finds the bindings it  *)
(* needs (BuildsSeeBindings).                                              *)
(***************************************************************************)
EXTENDS ColconBuild, TLAPS

Phase == {"new"} \cup Holding \cup Awaiting \cup Ended

Process ==
    [on : BOOLEAN, verb : {"build", "test"}, args : {"none", "--release", "-r"},
     persist : BOOLEAN, untilPass : Nat, untilFail : Nat, flag : BOOLEAN,
     todo : SUBSET Iface, want : SUBSET Iface, making : Iface \cup {None}, cwd : Pkg \cup {None}]

\* The types; between two colcon processes there is no task.
CbTypes ==
    /\ ws \subseteq Pkg
    /\ locked \in BOOLEAN
    /\ binding \in [Iface -> {"none", "partial", "raw", "fixed"}]
    /\ config \in [made : {"none", "torn", "whole"}, patches : SUBSET Iface]
    /\ old \subseteq Iface /\ late \in BOOLEAN
    /\ src \in [Pkg -> Edits]
    /\ target \in [Pkg -> [{"debug", "release"} -> 0..Absent]]
    /\ inst \in [Pkg -> [Item -> 0..Absent]]
    /\ proc \in Process
    /\ pc \in [Pkg -> Phase]
    /\ reruns \in [Pkg -> Nat]
    /\ trouble \subseteq {"fail", "kill", "edit", "declare"}
    /\ count \in Nat
    /\ ~proc.on => proc = Off /\ pc = NewTasks

-----------------------------------------------------------------------------
LEMMA StepsAreItems == ASSUME NEW p \in Pkg, NEW k \in DOMAIN Steps(p) PROVE Steps(p)[k] \in Item
<1> USE DEF Steps, AmentSteps, Item
<1>1. CASE Kind[p] = "ament"
  <2>1. k \in 1..6 BY <1>1
  <2> QED BY <1>1, <2>1
<1>2. CASE Kind[p] = "cmake"
  <2>1. k \in 1..3 BY <1>2
  <2> QED BY <1>2, <2>1
<1>3. CASE Kind[p] \notin {"ament", "cmake"}
  <2>1. k \in 1..4 BY <1>3
  <2> QED BY <1>3, <2>1
<1> QED BY <1>1, <1>2, <1>3

LEMMA InstalledNumbers == ASSUME CbTypes, NEW p \in Pkg, NEW x \in Item
                          PROVE  Installs(p, x) \in 0..Absent
<1>1. src[p] \in 0..Absent BY ColconConstants DEF CbTypes, Edits, Absent
<1>2. Built(p) \in 0..Absent
  BY ColconConstants DEF CbTypes, Built, DetectProfile, Absent
<1>3. inst[p].bin \in 0..Absent /\ inst[p].xml \in 0..Absent BY DEF CbTypes, Item
<1> QED BY <1>1, <1>2, <1>3 DEF Installs

LEMMA WrittenTypes == ASSUME CbTypes, NEW p \in Pkg, NEW steps
                      PROVE  Written(p, steps) \in [Pkg -> [Item -> 0..Absent]]
BY InstalledNumbers DEF Written, CbTypes

LEMMA TypesInit == CbInit => CbTypes
<1> SUFFICES ASSUME CbInit PROVE CbTypes OBVIOUS
<1> USE ColconConstants DEF CbInit, CbTypes
<1>1. ws \subseteq Pkg OBVIOUS
<1>2. src \in [Pkg -> Edits] BY DEF Edits
<1>3. target \in [Pkg -> [{"debug", "release"} -> 0..Absent]] BY DEF Absent
<1>4. inst \in [Pkg -> [Item -> 0..Absent]] BY DEF Absent
<1>5. proc \in Process BY DEF Off, Process
<1>6. pc \in [Pkg -> Phase] BY DEF NewTasks, Phase
<1>7. reruns \in [Pkg -> Nat] BY DEF NoReruns
<1> QED BY <1>1, <1>2, <1>3, <1>4, <1>5, <1>6, <1>7

\* Tasks exist only while colcon runs.
LEMMA TaskMeansOn == ASSUME CbTypes, NEW p \in Pkg, Task(p) PROVE proc.on
<1> SUFFICES ASSUME ~proc.on PROVE FALSE OBVIOUS
<1>1. pc[p] = "new" BY DEF CbTypes, NewTasks
<1> QED
  BY <1>1 DEF Task, Start, CheckLock, CreateLock, SkipBinding, BeginBinding, WriteBinding,
     BindgenFails, FixUp, GenerationFails, OpenConfig, WriteConfig, EnterNros, NrosGenerated,
     StartCargo, CommandOk, Command, CommandFails, Awaiting, Install, MetadataFails, NotFound,
     InstallFails, Retest, TestEnds, NrosTestEnds

LEMMA GoesTypes == ASSUME CbTypes, NEW wrong, Goes(wrong)
                   PROVE  /\ trouble' \subseteq {"fail", "kill", "edit", "declare"}
                          /\ count' \in Nat
BY ColconConstants DEF CbTypes, Goes

\* What a step gives to a task and to the process.
LEMMA ToTypes == ASSUME CbTypes, NEW p \in Pkg, NEW step \in Phase, To(p, step)
                 PROVE  pc' \in [Pkg -> Phase]
BY DEF CbTypes, To

LEMMA TypesTask == ASSUME CbTypes, NEW p \in Pkg, Task(p) PROVE CbTypes'
<1>0. proc.on BY TaskMeansOn
<1>a. src[p] \in 0..Absent BY ColconConstants DEF CbTypes, Edits, Absent
<1>b. {"env", "bin"} \subseteq Item BY DEF Item
<1> USE <1>0, ColconConstants
    DEF CbTypes, build, sources, faults, To, Phase, Process, Holding, Awaiting, Ended, Fails
<1>1. CASE Start(p) BY <1>1 DEF Start
<1>2. CASE CheckLock(p) BY <1>2 DEF CheckLock
<1>3. CASE CreateLock(p)
  <2>1. Discovered \subseteq Iface BY DEF Discovered, Resolve, Reached, ByIndex, Reach
  <2> QED BY <1>3, <2>1 DEF CreateLock
<1>4. ASSUME NEW i \in Iface, SkipBinding(p, i) PROVE CbTypes' BY <1>4 DEF SkipBinding
<1>5. ASSUME NEW i \in Iface, BeginBinding(p, i) PROVE CbTypes' BY <1>5 DEF BeginBinding
<1>6. CASE WriteBinding(p) BY <1>6 DEF WriteBinding
<1>7. CASE BindgenFails(p) BY <1>7, GoesTypes DEF BindgenFails
<1>8. CASE FixUp(p) BY <1>8 DEF FixUp
<1>9. CASE GenerationFails(p) BY <1>9, GoesTypes DEF GenerationFails
<1>10. CASE OpenConfig(p) BY <1>10 DEF OpenConfig
<1>11. CASE WriteConfig(p) BY <1>11 DEF WriteConfig
<1>12. CASE EnterNros(p) BY <1>12 DEF EnterNros
<1>13. CASE NrosGenerated(p) BY <1>13 DEF NrosGenerated
<1>14. CASE StartCargo(p)
  <2>1. inst' \in [Pkg -> [Item -> 0..Absent]] BY <1>14, <1>a, <1>b DEF StartCargo
  <2> QED BY <1>14, <2>1 DEF StartCargo
<1>15. ASSUME NEW n \in 1..3, CommandOk(p, n) PROVE CbTypes'
  <2>1. inst' \in [Pkg -> [Item -> 0..Absent]] BY <1>15, <1>a, <1>b DEF CommandOk
  <2>2. CargoProfile(proc.args) \in {"debug", "release"} BY DEF CargoProfile
  <2>3. target' \in [Pkg -> [{"debug", "release"} -> 0..Absent]]
    BY <1>15, <2>2, <1>a DEF CommandOk
  <2>4. Command(2) \in Phase /\ Command(3) \in Phase BY DEF Command
  <2>5. (IF n < Commands(p) THEN Command(n + 1) ELSE "install") \in Phase
    BY <2>4 DEF Commands
  <2>6. pc' \in [Pkg -> Phase] BY <1>15, <2>5, ToTypes DEF CommandOk
  <2> QED BY <1>15, <2>1, <2>3, <2>6 DEF CommandOk
<1>16. CASE CommandFails(p)
  <2>1. CASE Fails(p) BY <1>16, <2>1, GoesTypes DEF CommandFails
  <2>2. CASE To(p, "failed") /\ UNCHANGED faults BY <1>16, <2>2 DEF CommandFails
  <2> QED BY <1>16, <2>1, <2>2 DEF CommandFails
<1>17. CASE Install(p) BY <1>17, WrittenTypes DEF Install
<1>18. CASE MetadataFails(p) BY <1>18, GoesTypes DEF MetadataFails
<1>19. CASE NotFound(p) BY <1>19 DEF NotFound
<1>20. ASSUME NEW k \in 0..(Len(Steps(p)) - 1), InstallFails(p, k) PROVE CbTypes'
  <2>1. inst' \in [Pkg -> [Item -> 0..Absent]] BY <1>20, WrittenTypes DEF InstallFails
  <2>2. Goes({"fail"}) /\ To(p, "failed") BY <1>20 DEF InstallFails
  <2>3. pc' \in [Pkg -> Phase] BY <2>2, ToTypes
  <2>4. UNCHANGED <<build, sources, target, proc, reruns>> BY <1>20 DEF InstallFails
  <2>5. trouble' \subseteq {"fail", "kill", "edit", "declare"} /\ count' \in Nat
    BY <2>2, GoesTypes
  <2> QED BY <2>1, <2>3, <2>4, <2>5
<1>21. ASSUME NEW passed \in BOOLEAN, Retest(p, passed) PROVE CbTypes' BY <1>21 DEF Retest
<1>22. ASSUME NEW passed \in BOOLEAN, TestEnds(p, passed) PROVE CbTypes' BY <1>22 DEF TestEnds
<1>23. CASE NrosTestEnds(p) BY <1>23 DEF NrosTestEnds
<1> QED
  BY <1>1, <1>2, <1>3, <1>4, <1>5, <1>6, <1>7, <1>8, <1>9, <1>10, <1>11, <1>12, <1>13, <1>14,
     <1>15, <1>16, <1>17, <1>18, <1>19, <1>20, <1>21, <1>22, <1>23 DEF Task

LEMMA BeginTypes ==
    ASSUME CbTypes, NEW verb \in {"build", "test"}, NEW args \in {"none", "--release", "-r"},
           NEW persist \in BOOLEAN, NEW pass \in Nat, NEW fail \in Nat,
           Begin(verb, args, persist, pass, fail)
    PROVE  CbTypes'
BY DEF CbTypes, Begin, Off, Process, build, sources, faults

LEMMA CallTypes == ASSUME CbTypes, Call PROVE CbTypes'
<1> DEFINE ament == \E p \in ws : Kind[p] = "ament"
           Calls == IF ament THEN CargoArgs ELSE {"none"}
           Bounds == IF ament THEN 0..MaxRetests ELSE {0}
<1>1. Calls \subseteq {"none", "--release", "-r"} BY ColconConstants
<1>2. Bounds \subseteq Nat BY ColconConstants
<1>3. \/ \E args \in Calls, persist \in BOOLEAN : Begin("build", args, persist, 0, 0)
      \/ \E pass, fail \in Bounds : Begin("test", "none", TRUE, pass, fail)
  BY DEF Call
<1> HIDE DEF Calls, Bounds
<1>4. ASSUME NEW args \in Calls, NEW persist \in BOOLEAN, Begin("build", args, persist, 0, 0)
      PROVE  CbTypes'
  <2>1. args \in {"none", "--release", "-r"} BY <1>1
  <2> QED BY <1>4, <2>1, BeginTypes
<1>5. ASSUME NEW pass \in Bounds, NEW fail \in Bounds, Begin("test", "none", TRUE, pass, fail)
      PROVE  CbTypes'
  <2>1. pass \in Nat /\ fail \in Nat BY <1>2
  <2> QED BY <1>5, <2>1, BeginTypes
<1> QED BY <1>3, <1>4, <1>5

LEMMA TypesNext == ASSUME CbTypes, [CbNext]_cbVars PROVE CbTypes'
<1> USE ColconConstants
    DEF CbTypes, build, sources, faults, To, Phase, Process, Holding, Awaiting, Ended, Goes, Quiet
<1>0. CASE UNCHANGED cbVars BY <1>0 DEF cbVars
<1>1. CASE Call BY <1>1, CallTypes
<1>2. CASE Finish BY <1>2 DEF Finish, Off, NewTasks, NoReruns
<1>3. CASE Kill BY <1>3 DEF Kill, Off, NewTasks, NoReruns
<1>4. ASSUME NEW p \in Pkg, Task(p) PROVE CbTypes' BY <1>4, TypesTask
<1>5. ASSUME NEW p \in Pkg, Cancel(p) PROVE CbTypes' BY <1>5 DEF Cancel
<1>6. ASSUME NEW p \in Pkg, Edit(p) PROVE CbTypes' BY <1>6 DEF Edit, Edits
<1>7. ASSUME NEW i \in Iface, EditIface(i) PROVE CbTypes' BY <1>7 DEF EditIface
<1>8. CASE Declare BY <1>8 DEF Declare
<1>9. CASE RemoveBuild BY <1>9 DEF RemoveBuild
<1>10. CASE RemoveLock BY <1>10 DEF RemoveLock
<1> QED
  BY <1>0, <1>1, <1>2, <1>3, <1>4, <1>5, <1>6, <1>7, <1>8, <1>9, <1>10 DEF CbNext, User

THEOREM ColconTypes == CbSpec => []CbTypes
<1>1. CbInit => CbTypes BY TypesInit
<1>2. CbTypes /\ [CbNext]_cbVars => CbTypes' BY TypesNext
<1> QED BY <1>1, <1>2, PTL DEF CbSpec

-----------------------------------------------------------------------------
(* What a step of one task leaves alone.                                   *)

Footprint(p) ==
    /\ UNCHANGED sources
    /\ proc'.on = proc.on /\ proc'.verb = proc.verb /\ proc'.args = proc.args
    /\ trouble \subseteq trouble'
    /\ \A q \in Pkg \ {p} : pc'[q] = pc[q] /\ inst'[q] = inst[q] /\ target'[q] = target[q]

LEMMA TaskFootprint == ASSUME CbTypes, NEW p \in Pkg, Task(p) PROVE Footprint(p)
<1> USE DEF CbTypes, Footprint, Process, To, build, faults, Goes, Fails
<1>1. CASE Start(p) BY <1>1 DEF Start
<1>2. CASE CheckLock(p) BY <1>2 DEF CheckLock
<1>3. CASE CreateLock(p) BY <1>3 DEF CreateLock
<1>4. ASSUME NEW i \in Iface, SkipBinding(p, i) PROVE Footprint(p) BY <1>4 DEF SkipBinding
<1>5. ASSUME NEW i \in Iface, BeginBinding(p, i) PROVE Footprint(p) BY <1>5 DEF BeginBinding
<1>6. CASE WriteBinding(p) BY <1>6 DEF WriteBinding
<1>7. CASE BindgenFails(p) BY <1>7 DEF BindgenFails
<1>8. CASE FixUp(p) BY <1>8 DEF FixUp
<1>9. CASE GenerationFails(p) BY <1>9 DEF GenerationFails
<1>10. CASE OpenConfig(p) BY <1>10 DEF OpenConfig
<1>11. CASE WriteConfig(p) BY <1>11 DEF WriteConfig
<1>12. CASE EnterNros(p) BY <1>12 DEF EnterNros
<1>13. CASE NrosGenerated(p) BY <1>13 DEF NrosGenerated
<1>14. CASE StartCargo(p) BY <1>14 DEF StartCargo
<1>15. ASSUME NEW n \in 1..3, CommandOk(p, n) PROVE Footprint(p) BY <1>15 DEF CommandOk
<1>16. CASE CommandFails(p) BY <1>16 DEF CommandFails
<1>17. CASE Install(p) BY <1>17 DEF Install, Written
<1>18. CASE MetadataFails(p) BY <1>18 DEF MetadataFails
<1>19. CASE NotFound(p) BY <1>19 DEF NotFound
<1>20. ASSUME NEW k \in 0..(Len(Steps(p)) - 1), InstallFails(p, k) PROVE Footprint(p)
  BY <1>20 DEF InstallFails, Written
<1>21. ASSUME NEW passed \in BOOLEAN, Retest(p, passed) PROVE Footprint(p) BY <1>21 DEF Retest
<1>22. ASSUME NEW passed \in BOOLEAN, TestEnds(p, passed) PROVE Footprint(p) BY <1>22 DEF TestEnds
<1>23. CASE NrosTestEnds(p) BY <1>23 DEF NrosTestEnds
<1> QED
  BY <1>1, <1>2, <1>3, <1>4, <1>5, <1>6, <1>7, <1>8, <1>9, <1>10, <1>11, <1>12, <1>13, <1>14,
     <1>15, <1>16, <1>17, <1>18, <1>19, <1>20, <1>21, <1>22, <1>23 DEF Task

-----------------------------------------------------------------------------
(* What a task that returns 0 has installed.                               *)

Dir(p) == IF Kind[p] = "ament" THEN CargoProfile(proc.args) ELSE "release"

Current(p, x) ==
    \/ inst[p][x] = src[p]
    \/ x = "xml" /\ Kind[p] = "cmake" /\ inst[p].xml # Absent
    \/ x = "bin" /\ (p \in Member \/ proc.args = "-r")

Outcome(p) == \A x \in {Steps(p)[k] : k \in DOMAIN Steps(p)} \cup {"env"} : Current(p, x)

\* OkIsInstalled looks at the last step only.  Before it, the scripts of an ament
\* package are of today from the start of cargo, and the directory that the
\* command wrote to holds today's build.
InstFacts(p) ==
    /\ pc[p] = "ngen" => Kind[p] # "ament"
    /\ pc[p] \in {"cmd2", "cmd3"} => Kind[p] = "cmake"
    /\ pc[p] = "test" => proc.verb = "test"
    /\ proc.verb = "build" =>
         /\ Kind[p] = "ament" /\ pc[p] \in {"cmd1", "install"} => inst[p].env = src[p]
         /\ pc[p] = "install" => target[p][Dir(p)] = src[p]
         /\ pc[p] = "ok" => Outcome(p)

InstInv == \A p \in Pkg : InstFacts(p)

LEMMA InstKept ==
    ASSUME NEW q \in Pkg, InstFacts(q), src' = src, inst'[q] = inst[q], target'[q] = target[q],
           proc'.verb = proc.verb, proc'.args = proc.args, pc'[q] = pc[q]
    PROVE  InstFacts(q)'
BY DEF InstFacts, Dir, CargoProfile, Outcome, Current, Steps

LEMMA NotThere ==
    ASSUME NEW q \in Pkg, pc'[q] \notin {"ngen", "test", "cmd1", "cmd2", "cmd3", "install", "ok"}
    PROVE  InstFacts(q)'
BY DEF InstFacts

\* What Install writes: all of the list, each item as it is today.
LEMMA InstallWrites ==
    ASSUME CbTypes, NEW p \in Pkg, InstFacts(p), Install(p), proc.verb = "build"
    PROVE  Outcome(p)'
<1> DEFINE L == {Steps(p)[k] : k \in DOMAIN Steps(p)}
<1>1. L \subseteq Item BY StepsAreItems
<1>2. /\ src' = src /\ proc' = proc
      /\ inst' = Written(p, DOMAIN Steps(p)) /\ pc[p] = "install"
  BY DEF Install, sources
<1>3. src[p] \in 0..MaxEdits /\ Absent \notin 0..MaxEdits /\ MaxEdits \in Nat
  BY ColconConstants DEF CbTypes, Edits, Absent
<1>4. \A x \in Item : inst'[p][x] = IF x \in L THEN Installs(p, x) ELSE inst[p][x]
  BY <1>2 DEF Written, CbTypes
<1>5. target[p][Dir(p)] = src[p] BY <1>2 DEF InstFacts
<1>6. ASSUME NEW x \in L PROVE Current(p, x)'
  <2>1. inst'[p][x] = Installs(p, x) BY <1>1, <1>4
  <2>2. CASE x = "bin"
    <3>1. CASE p \in Member \/ proc.args = "-r" BY <1>2, <2>2, <3>1 DEF Current
    <3>2. CASE p \notin Member /\ proc.args # "-r"
      <4>1. Built(p) = target[p][Dir(p)]
        BY <3>2 DEF Built, Dir, DetectProfile, CargoProfile, CbTypes, Process
      <4>2. Installs(p, "bin") = src[p] BY <4>1, <1>5, <1>3 DEF Installs
      <4> QED BY <4>2, <2>1, <2>2, <1>2 DEF Current
    <3> QED BY <3>1, <3>2
  <2>3. CASE x = "xml" /\ Kind[p] = "cmake"
    <3>1. Installs(p, "xml") = src[p] \/ (Installs(p, "xml") = inst[p].xml /\ inst[p].xml # Absent)
      BY <2>3 DEF Installs
    <3> QED BY <3>1, <2>1, <2>3, <1>2, <1>3 DEF Current, Absent
  <2>4. CASE x # "bin" /\ ~(x = "xml" /\ Kind[p] = "cmake")
    <3>1. Installs(p, x) = src[p] BY <2>4 DEF Installs
    <3> QED BY <3>1, <2>1, <1>2 DEF Current
  <2> QED BY <2>2, <2>3, <2>4
<1>7. Current(p, "env")'
  <2>1. CASE "env" \in L BY <2>1, <1>6
  <2>2. CASE "env" \notin L
    <3>1. Kind[p] = "ament"
      <4>1. ASSUME Kind[p] = "cmake" PROVE Steps(p)[3] = "env" /\ 3 \in DOMAIN Steps(p)
        BY <4>1 DEF Steps
      <4>2. ASSUME Kind[p] \notin {"ament", "cmake"}
            PROVE  Steps(p)[4] = "env" /\ 4 \in DOMAIN Steps(p)
        BY <4>2 DEF Steps
      <4> QED BY <2>2, <4>1, <4>2
    <3>2. inst[p].env = src[p] BY <3>1, <1>2 DEF InstFacts
    <3>3. inst'[p]["env"] = inst[p]["env"] BY <2>2, <1>4 DEF Item
    <3> QED BY <3>2, <3>3, <1>2 DEF Current
  <2> QED BY <2>1, <2>2
<1>8. \A x \in L \cup {"env"} : Current(p, x)' BY <1>6, <1>7
<1> QED BY <1>8 DEF Outcome, Steps

\* The steps that take a task to where InstFacts says something.
LEMMA InstOwn == ASSUME CbTypes, NEW p \in Pkg, InstFacts(p), Task(p) PROVE InstFacts(p)'
<1>0. Footprint(p) BY TaskFootprint
<1>1. src' = src /\ proc'.verb = proc.verb /\ proc'.args = proc.args
  BY <1>0 DEF Footprint, sources
<1> USE DEF To, build, faults, Goes, Fails
<1>2. CASE Start(p)
  <2>1. pc'[p] = (IF proc.verb = "test" THEN "test"
                  ELSE IF Kind[p] = "ament" THEN "check" ELSE "ready")
    BY <1>2 DEF Start, CbTypes
  <2> QED BY <2>1, <1>1 DEF InstFacts
<1>3. CASE CheckLock(p)
  <2>1. pc'[p] \in {"ready", "lock"} BY <1>3 DEF CheckLock, CbTypes
  <2> QED BY <2>1, NotThere
<1>4. CASE CreateLock(p)
  <2>1. pc'[p] = "gen" BY <1>4 DEF CreateLock, CbTypes
  <2> QED BY <2>1, NotThere
<1>5. ASSUME NEW i \in Iface, SkipBinding(p, i) \/ BeginBinding(p, i) PROVE InstFacts(p)'
  <2>1. pc'[p] = "gen" BY <1>5 DEF SkipBinding, BeginBinding
  <2> QED BY <2>1, NotThere
<1>6. CASE WriteBinding(p) \/ BindgenFails(p) \/ FixUp(p)
  <2>1. pc'[p] = "gen" BY <1>6 DEF WriteBinding, BindgenFails, FixUp
  <2> QED BY <2>1, NotThere
<1>7. CASE GenerationFails(p) \/ OpenConfig(p) \/ WriteConfig(p)
  <2>1. pc'[p] \in {"failed", "config", "ready"}
    BY <1>7 DEF GenerationFails, OpenConfig, WriteConfig, CbTypes
  <2> QED BY <2>1, NotThere
<1>8. CASE EnterNros(p)
  <2>1. pc'[p] \in {"cmd1", "ngen"} /\ Kind[p] # "ament" BY <1>8 DEF EnterNros, CbTypes
  <2> QED BY <2>1 DEF InstFacts
<1>9. CASE NrosGenerated(p)
  <2>1. pc'[p] = "cmd1" /\ Kind[p] # "ament" BY <1>9 DEF NrosGenerated, CbTypes, InstFacts
  <2> QED BY <2>1 DEF InstFacts
<1>10. CASE StartCargo(p)
  <2>1. pc'[p] = "cmd1" /\ inst'[p].env = src[p] BY <1>10 DEF StartCargo, CbTypes, Item
  <2> QED BY <2>1, <1>1 DEF InstFacts
<1>11. ASSUME NEW n \in 1..3, CommandOk(p, n) PROVE InstFacts(p)'
  <2>1. pc'[p] \in {"cmd2", "cmd3", "install"}
    BY <1>11 DEF CommandOk, CbTypes, Commands, Command
  <2>2. target'[p][Dir(p)] = src[p]
    BY <1>11, ColconConstants DEF CommandOk, CbTypes, Process, Dir, CargoProfile
  <2>3. Dir(p)' = Dir(p) BY <1>1 DEF Dir, CargoProfile
  <2>4. Kind[p] = "ament" => pc[p] = "cmd1" /\ inst'[p].env = inst[p].env
    <3>1. pc[p] \in {"cmd1", "cmd2", "cmd3"} BY <1>11 DEF CommandOk, Command
    <3> QED BY <1>11, <3>1 DEF CommandOk, CbTypes, InstFacts
  <2>5. pc'[p] \in {"cmd2", "cmd3"} => Kind[p] = "cmake"
    BY <1>11 DEF CommandOk, CbTypes, Commands
  <2> QED BY <2>1, <2>2, <2>3, <2>4, <2>5, <1>1 DEF InstFacts
<1>12. CASE CommandFails(p) \/ MetadataFails(p) \/ NotFound(p)
  <2>1. pc'[p] = "failed" BY <1>12 DEF CommandFails, MetadataFails, NotFound, CbTypes
  <2> QED BY <2>1, NotThere
<1>13. CASE Install(p)
  <2>1. pc'[p] = "ok" BY <1>13 DEF Install, CbTypes
  <2>2. proc.verb = "build" => Outcome(p)' BY <1>13, InstallWrites
  <2> QED BY <2>1, <2>2, <1>1 DEF InstFacts
<1>14. ASSUME NEW k \in 0..(Len(Steps(p)) - 1), InstallFails(p, k) PROVE InstFacts(p)'
  <2>1. pc'[p] = "failed" BY <1>14 DEF InstallFails, CbTypes
  <2> QED BY <2>1, NotThere
<1>15. ASSUME NEW passed \in BOOLEAN, Retest(p, passed) \/ TestEnds(p, passed)
       PROVE InstFacts(p)'
  <2>1. pc[p] = "test" /\ pc'[p] \in {"test", "ok"} BY <1>15 DEF Retest, TestEnds, CbTypes
  <2> QED BY <2>1, <1>1 DEF InstFacts
<1>16. CASE NrosTestEnds(p)
  <2>1. pc[p] = "test" /\ pc'[p] = "ok" BY <1>16 DEF NrosTestEnds, CbTypes
  <2> QED BY <2>1, <1>1 DEF InstFacts
<1> QED
  BY <1>2, <1>3, <1>4, <1>5, <1>6, <1>7, <1>8, <1>9, <1>10, <1>11, <1>12, <1>13, <1>14, <1>15,
     <1>16 DEF Task

LEMMA InstNext == ASSUME CbTypes, InstInv, [CbNext]_cbVars PROVE InstInv'
<1> SUFFICES ASSUME NEW q \in Pkg PROVE InstFacts(q)' BY DEF InstInv
<1>0. InstFacts(q) BY DEF InstInv
<1>1. CASE UNCHANGED cbVars
  BY <1>0, <1>1, InstKept DEF cbVars, sources
<1>2. CASE Call
  <2>1. pc' = pc /\ ~proc.on BY <1>2 DEF Call, Begin
  <2>2. pc'[q] = "new" BY <2>1 DEF CbTypes, NewTasks
  <2> QED BY <2>2, NotThere
<1>3. CASE Finish \/ Kill
  <2>1. pc'[q] = "new" BY <1>3 DEF Finish, Kill, NewTasks
  <2> QED BY <2>1, NotThere
<1>4. ASSUME NEW p \in Pkg, Task(p) PROVE InstFacts(q)'
  <2>1. CASE q = p BY <1>0, <1>4, <2>1, InstOwn
  <2>2. CASE q # p
    <3>1. Footprint(p) BY <1>4, TaskFootprint
    <3> QED BY <1>0, <2>2, <3>1, InstKept DEF Footprint, sources
  <2> QED BY <2>1, <2>2
<1>5. ASSUME NEW p \in Pkg, Cancel(p) PROVE InstFacts(q)'
  <2>1. CASE q = p
    <3>1. pc'[q] = "failed" BY <1>5, <2>1 DEF Cancel, To, CbTypes
    <3> QED BY <3>1, NotThere
  <2>2. CASE q # p
    <3>1. pc'[q] = pc[q] BY <1>5, <2>2 DEF Cancel, To, CbTypes
    <3>2. UNCHANGED <<sources, target, inst, proc>> BY <1>5 DEF Cancel
    <3> QED BY <1>0, <3>1, <3>2, InstKept DEF sources
  <2> QED BY <2>1, <2>2
<1>6. CASE User
  <2>1. pc' = pc /\ ~proc.on
    BY <1>6 DEF User, Edit, EditIface, Declare, RemoveBuild, RemoveLock, Quiet
  <2>2. pc'[q] = "new" BY <2>1 DEF CbTypes, NewTasks
  <2> QED BY <2>2, NotThere
<1> QED BY <1>1, <1>2, <1>3, <1>4, <1>5, <1>6 DEF CbNext

\* Whatever failed, was killed or edited in earlier runs, and whatever other tasks do: a build
\* task that returns 0 has installed every item as the package is now, for any packages,
\* kinds and arguments (task/ament_cargo/build.py, task/nros/build.py, ament_installer.rs).
THEOREM OkInstalls == CbSpec => []OkIsInstalled
<1>1. CbInit => InstInv
  <2> SUFFICES ASSUME CbInit, NEW p \in Pkg PROVE InstFacts(p) BY DEF InstInv
  <2>1. pc[p] = "new" BY DEF CbInit, NewTasks
  <2> QED BY <2>1 DEF InstFacts
<1>2. CbTypes /\ InstInv /\ [CbNext]_cbVars => InstInv' BY InstNext
<1>3. InstInv => OkIsInstalled BY DEF InstInv, InstFacts, OkIsInstalled, Outcome, Current
<1> QED BY <1>1, <1>2, <1>3, ColconTypes, PTL DEF CbSpec

-----------------------------------------------------------------------------
(* The searches: what _discover_ros_packages finds is what cargo needs.    *)

LEMMA ReachFacts ==
    ASSUME NEW i \in Iface, NEW readable
    PROVE  /\ i \in Reach(i, readable) /\ Reach(i, readable) \subseteq Iface
           /\ \A j \in Reach(i, readable) \cap readable : IDeps[j] \subseteq Reach(i, readable)
           /\ \A S \in SUBSET Iface : i \in S /\ Closed(S, readable) => Reach(i, readable) \subseteq S
<1>1. i \in Reach(i, readable) /\ Reach(i, readable) \subseteq Iface BY DEF Reach
<1>2. ASSUME NEW j \in Reach(i, readable) \cap readable, NEW k \in IDeps[j]
      PROVE  k \in Reach(i, readable)
  <2>1. k \in Iface BY <1>1, <1>2, ColconConstants
  <2>2. ASSUME NEW S \in SUBSET Iface, i \in S, Closed(S, readable) PROVE k \in S
    <3>1. j \in S BY <2>2 DEF Reach
    <3> QED BY <1>2, <2>2, <3>1 DEF Closed
  <2> QED BY <2>1, <2>2 DEF Reach
<1>3. \A S \in SUBSET Iface : i \in S /\ Closed(S, readable) => Reach(i, readable) \subseteq S
  BY DEF Reach
<1> QED BY <1>1, <1>2, <1>3

LEMMA ReachedIs ==
    ASSUME NEW pkgs \in SUBSET Iface
    PROVE  /\ Resolve(pkgs) = UNION {Reach(i, Underlay) : i \in pkgs}
           /\ Reached(pkgs, ByAll) = UNION {Reach(i, Iface) : i \in pkgs}
<1>1. ASSUME NEW readable
      PROVE  Reached(pkgs, {[from |-> i, to |-> Reach(i, readable)] : i \in Iface})
                = UNION {Reach(i, readable) : i \in pkgs}
  <2> DEFINE searches == {[from |-> i, to |-> Reach(i, readable)] : i \in Iface}
  <2>1. \A s \in searches : s.to = Reach(s.from, readable) OBVIOUS
  <2>2. ASSUME NEW i \in pkgs PROVE \E s \in searches : s.from = i
    <3>1. [from |-> i, to |-> Reach(i, readable)] \in searches OBVIOUS
    <3> HIDE DEF searches
    <3> QED BY <3>1
  <2> HIDE DEF searches
  <2>3. {s.to : s \in {t \in searches : t.from \in pkgs}} = {Reach(i, readable) : i \in pkgs}
    BY <2>1, <2>2
  <2>4. Reached(pkgs, searches) = UNION {Reach(i, readable) : i \in pkgs} BY <2>3 DEF Reached
  <2> QED BY <2>4 DEF searches
<1> QED BY <1>1 DEF Resolve, ByIndex, ByAll

LEMMA ResolveFacts ==
    ASSUME NEW pkgs \in SUBSET Iface
    PROVE  /\ pkgs \subseteq Resolve(pkgs) /\ Resolve(pkgs) \subseteq Iface
           /\ \A j \in Resolve(pkgs) \cap Underlay : IDeps[j] \subseteq Resolve(pkgs)
           /\ \A S \in SUBSET Iface :
                  pkgs \subseteq S /\ Closed(S, Underlay) => Resolve(pkgs) \subseteq S
<1>1. Resolve(pkgs) = UNION {Reach(i, Underlay) : i \in pkgs} BY ReachedIs
<1>2. \A i \in pkgs : /\ i \in Reach(i, Underlay) /\ Reach(i, Underlay) \subseteq Iface
                     /\ \A j \in Reach(i, Underlay) \cap Underlay :
                            IDeps[j] \subseteq Reach(i, Underlay)
                     /\ \A S \in SUBSET Iface :
                            i \in S /\ Closed(S, Underlay) => Reach(i, Underlay) \subseteq S
  BY ReachFacts
<1>3. pkgs \subseteq Resolve(pkgs) /\ Resolve(pkgs) \subseteq Iface BY <1>1, <1>2
<1>4. ASSUME NEW j \in Resolve(pkgs) \cap Underlay PROVE IDeps[j] \subseteq Resolve(pkgs)
  <2>1. PICK i \in pkgs : j \in Reach(i, Underlay) BY <1>1
  <2>2. IDeps[j] \subseteq Reach(i, Underlay) BY <1>2, <1>4, <2>1
  <2> QED BY <1>1, <2>2
<1>5. ASSUME NEW S \in SUBSET Iface, pkgs \subseteq S, Closed(S, Underlay)
      PROVE  Resolve(pkgs) \subseteq S
  <2>1. \A i \in pkgs : Reach(i, Underlay) \subseteq S BY <1>5, ReachFacts
  <2> QED BY <1>1, <2>1
<1> QED BY <1>3, <1>4, <1>5

LEMMA DeclaredTypes == CbTypes => Declared \subseteq Iface /\ Discovered \subseteq Iface
<1> SUFFICES ASSUME CbTypes PROVE Declared \subseteq Iface /\ Discovered \subseteq Iface OBVIOUS
<1>1. \A p \in Pkg : Deps(p) \subseteq Iface BY ColconConstants DEF Deps
<1>2. Declared \subseteq Iface BY <1>1 DEF Declared, CbTypes
<1>3. Discovered \subseteq Iface BY DEF Discovered, Resolve, Reached, ByIndex, Reach
<1> QED BY <1>2, <1>3

\* The search finds all that compiling a package of the workspace takes: it goes from
\* what is named, and follows what is installed and, once, what is not.
LEMMA SearchFinds ==
    ASSUME CbTypes, NEW p \in ws, Kind[p] # "cmake",
           Needed(p) \subseteq Underlay \cup Declared
    PROVE  Needed(p) \subseteq Discovered
<1> DEFINE N == Needed(p)
           R == Resolve(Declared)
           W == R \ Underlay
           M == UNION {IDeps[i] : i \in W}
           All == Resolve(R \cup M)
<1>1. Declared \in SUBSET Iface /\ Underlay \subseteq Iface BY DeclaredTypes, ColconConstants
<1>2. Declared \subseteq R /\ R \subseteq Iface BY <1>1, ResolveFacts
<1>3. M \subseteq Iface BY <1>2, ColconConstants
<1>4. R \cup M \in SUBSET Iface BY <1>2, <1>3
<1>5. /\ R \cup M \subseteq All /\ All \subseteq Iface
      /\ \A j \in All \cap Underlay : IDeps[j] \subseteq All
  <2> HIDE DEF R, M
  <2> QED BY <1>4, ResolveFacts
<1>6. Discovered = W \cup (All \cap Underlay) BY DEF Discovered
<1>7. Deps(p) \subseteq Declared /\ Deps(p) \in SUBSET Iface
  <2>1. Deps(p) \subseteq Declared BY DEF Declared
  <2> QED BY <2>1, <1>1
<1>8. N = UNION {Reach(i, Iface) : i \in Deps(p)}
  BY <1>7, ReachedIs DEF Needed
<1>9. ASSUME NEW i \in Deps(p) PROVE Reach(i, Iface) \subseteq All
  <2> DEFINE T == Reach(i, Iface) \cap All
  <2>1. i \in Iface /\ i \in All BY <1>2, <1>5, <1>7
  <2>2. /\ i \in Reach(i, Iface) /\ Reach(i, Iface) \subseteq Iface
        /\ \A j \in Reach(i, Iface) : IDeps[j] \subseteq Reach(i, Iface)
        /\ \A S \in SUBSET Iface : i \in S /\ Closed(S, Iface) => Reach(i, Iface) \subseteq S
    <3> HIDE DEF All
    <3> QED BY <2>1, ReachFacts
  <2>3. ASSUME NEW j \in T PROVE IDeps[j] \subseteq T
    <3>1. IDeps[j] \subseteq Reach(i, Iface) BY <2>2
    <3>2. j \in Underlay \cup Declared BY <1>8
    <3>3. CASE j \in Underlay
      <4> HIDE DEF All
      <4> QED BY <1>5, <3>1, <3>3
    <3>4. CASE j \in Declared \ Underlay
      <4>1. j \in W BY <1>2, <3>4
      <4>2. IDeps[j] \subseteq M BY <4>1
      <4> HIDE DEF All, M
      <4> QED BY <1>5, <3>1, <4>2
    <3> QED BY <3>2, <3>3, <3>4
  <2>4. T \in SUBSET Iface /\ i \in T BY <2>1, <2>2
  <2>5. Closed(T, Iface) BY <2>3 DEF Closed
  <2>6. Reach(i, Iface) \subseteq T
    <3> HIDE DEF T
    <3> QED BY <2>2, <2>4, <2>5
  <2> QED BY <2>6
<1>10. N \subseteq All
  <2> HIDE DEF All
  <2> QED BY <1>8, <1>9
<1>11. ASSUME NEW j \in N PROVE j \in Discovered
  <2>1. CASE j \in Underlay BY <1>6, <1>10, <2>1
  <2>2. CASE j \in Declared \ Underlay
    <3>1. j \in W BY <1>2, <2>2
    <3> QED BY <1>6, <3>1
  <2> QED BY <2>1, <2>2
<1> QED BY <1>11

-----------------------------------------------------------------------------
(* Who generates, and what is there when cargo starts.                     *)

Making == {"gen", "config"}
NobodyMakes == \A q \in Pkg : pc[q] \notin Making

\* The event loop is held by one task at a time; the lock is looked for and made
\* without letting go; and an ament task that has passed it comes after the generation.
HoldInv ==
    /\ \A p, q \in Pkg : pc[p] \in Holding /\ pc[q] \in Holding => p = q
    /\ \A p \in Pkg : pc[p] = "lock" => ~locked
    /\ \A p \in Pkg : pc[p] \in Making => locked
    /\ \A p \in Pkg : Kind[p] = "ament" /\ pc[p] \in {"ready", "cmd1"} => locked /\ NobodyMakes
    /\ proc.making # None => \E p \in Pkg : pc[p] = "gen"

Done(i) == binding[i] = "fixed"

\* Until something fails, is killed or is edited: what the generation has dealt with is
\* generated to the end, and after it everything that was discovered is.
BindFacts ==
    /\ old = {}
    /\ \A i \in Iface : binding[i] = "none" \/ Done(i) \/ i = proc.making
    /\ proc.making # None => binding[proc.making] \in {"partial", "raw"}
    /\ \A p \in Pkg : pc[p] = "gen" =>
          /\ proc.want = Discovered
          /\ \A i \in Discovered : i \in proc.todo \/ i = proc.making \/ Done(i)
    /\ \A p \in Pkg : pc[p] = "config" =>
          proc.want = Discovered /\ \A i \in Discovered : Done(i)
    /\ trouble = {} /\ locked /\ NobodyMakes =>
          config.made = "whole" /\ \A i \in Discovered : i \in config.patches /\ Done(i)

BindInv == trouble \subseteq {"declare"} => BindFacts

\* The steps of a task around and after the generation.
Aside(p) ==
    /\ UNCHANGED <<build, sources>>
    /\ proc'.todo = proc.todo /\ proc'.want = proc.want /\ proc'.making = proc.making
    /\ trouble \subseteq trouble'
    /\ \A q \in Pkg \ {p} : pc'[q] = pc[q]
    /\ pc[p] \notin {"lock"} \cup Making /\ pc'[p] \notin Making
    /\ pc'[p] = "lock" => pc[p] = "check" /\ ~locked
    /\ pc'[p] = "ready" /\ Kind[p] = "ament" => pc[p] = "check" /\ locked
    /\ pc'[p] = "cmd1" /\ Kind[p] = "ament" => pc[p] = "ready"
    /\ pc'[p] \in Holding => pc[p] \in Holding \/ LoopFree

Generates(p) ==
    \/ CreateLock(p)
    \/ \E i \in Iface : SkipBinding(p, i) \/ BeginBinding(p, i)
    \/ WriteBinding(p) \/ BindgenFails(p) \/ FixUp(p)
    \/ GenerationFails(p) \/ OpenConfig(p) \/ WriteConfig(p)

LEMMA TaskAside == ASSUME CbTypes, NEW p \in Pkg, InstFacts(p), Task(p) PROVE Aside(p) \/ Generates(p)
<1>0. Footprint(p) BY TaskFootprint
<1>a. /\ UNCHANGED sources /\ trouble \subseteq trouble'
      /\ \A q \in Pkg \ {p} : pc'[q] = pc[q]
  BY <1>0 DEF Footprint
<1>b. DOMAIN pc = Pkg /\ proc \in Process BY DEF CbTypes
<1> USE <1>a, <1>b DEF Aside, Making, To, Holding, Process
<1>1. CASE Start(p) BY <1>1 DEF Start, Startable
<1>2. CASE CheckLock(p) BY <1>2 DEF CheckLock
<1>3. CASE EnterNros(p) BY <1>3 DEF EnterNros
<1>4. CASE NrosGenerated(p) BY <1>4 DEF NrosGenerated, InstFacts
<1>5. CASE StartCargo(p) BY <1>5 DEF StartCargo
<1>6. ASSUME NEW n \in 1..3, CommandOk(p, n) PROVE Aside(p)
  <2>1. pc'[p] \in {"cmd2", "cmd3", "install"} BY <1>6 DEF CommandOk, Commands, Command
  <2>2. pc[p] \in {"cmd1", "cmd2", "cmd3"} BY <1>6 DEF CommandOk, Command
  <2> QED BY <1>6, <2>1, <2>2 DEF CommandOk
<1>7. CASE CommandFails(p) BY <1>7 DEF CommandFails, Fails, Awaiting
<1>8. CASE Install(p) BY <1>8 DEF Install
<1>9. CASE MetadataFails(p) BY <1>9 DEF MetadataFails, Fails
<1>10. CASE NotFound(p) BY <1>10 DEF NotFound
<1>11. ASSUME NEW k \in 0..(Len(Steps(p)) - 1), InstallFails(p, k) PROVE Aside(p)
  BY <1>11 DEF InstallFails, Fails
<1>12. ASSUME NEW passed \in BOOLEAN, Retest(p, passed) PROVE Aside(p) BY <1>12 DEF Retest
<1>13. ASSUME NEW passed \in BOOLEAN, TestEnds(p, passed) PROVE Aside(p) BY <1>13 DEF TestEnds
<1>14. CASE NrosTestEnds(p) BY <1>14 DEF NrosTestEnds
<1> HIDE DEF Aside
<1> QED
  BY <1>1, <1>2, <1>3, <1>4, <1>5, <1>6, <1>7, <1>8, <1>9, <1>10, <1>11, <1>12, <1>13, <1>14
  DEF Task, Generates

LEMMA DiscoveredKept == UNCHANGED <<ws, late>> => Discovered' = Discovered
BY DEF Discovered, Declared, Deps, Resolve, Reached, ByIndex, Reach, Closed

LEMMA AsideHold == ASSUME CbTypes, HoldInv, NEW p \in Pkg, Aside(p) PROVE HoldInv'
<1> USE DEF Aside, Making
<1>0. locked' = locked /\ proc'.making = proc.making BY DEF build
<1>1. \A q \in Pkg : q # p => pc'[q] = pc[q] OBVIOUS
<1>2. \A q \in Pkg : pc'[q] \in Making => q # p /\ pc[q] \in Making BY <1>1
<1>3. \A r, q \in Pkg : pc'[r] \in Holding /\ pc'[q] \in Holding => r = q
  BY <1>1 DEF HoldInv, LoopFree
<1>4. \A q \in Pkg : pc'[q] = "lock" => ~locked' BY <1>0, <1>1 DEF HoldInv
<1>5. \A q \in Pkg : pc'[q] \in Making => locked' BY <1>0, <1>2 DEF HoldInv
<1>6. ASSUME NEW q \in Pkg, Kind[q] = "ament", pc'[q] \in {"ready", "cmd1"}
      PROVE  locked' /\ NobodyMakes'
  <2>1. CASE q # p \/ pc'[q] = "cmd1"
    BY <1>0, <1>1, <1>2, <1>6, <2>1 DEF HoldInv, NobodyMakes
  <2>2. CASE q = p /\ pc'[q] = "ready"
    <3>1. pc[p] = "check" /\ locked BY <1>6, <2>2
    <3>2. \A r \in Pkg : r # p => pc[r] \notin Making BY <3>1 DEF HoldInv, Holding
    <3> QED BY <3>1, <3>2, <1>0, <1>2 DEF NobodyMakes
  <2> QED BY <1>6, <2>1, <2>2
<1>7. proc'.making # None => \E q \in Pkg : pc'[q] = "gen"
  <2> SUFFICES ASSUME proc.making # None PROVE \E q \in Pkg : pc'[q] = "gen" BY <1>0
  <2>1. PICK q \in Pkg : pc[q] = "gen" BY DEF HoldInv
  <2> QED BY <2>1, <1>1
<1> QED BY <1>3, <1>4, <1>5, <1>6, <1>7 DEF HoldInv

LEMMA AsideBind == ASSUME CbTypes, BindInv, NEW p \in Pkg, Aside(p) PROVE BindInv'
<1> SUFFICES ASSUME trouble' \subseteq {"declare"} PROVE BindFacts' BY DEF BindInv
<1>1. BindFacts BY DEF BindInv, Aside
<1>2. Discovered' = Discovered BY DiscoveredKept DEF Aside, sources
<1>3. /\ locked' = locked /\ binding' = binding /\ config' = config /\ old' = old
      /\ proc'.todo = proc.todo /\ proc'.want = proc.want /\ proc'.making = proc.making
      /\ trouble' = {} => trouble = {}
  BY DEF Aside, build, sources
<1>4. \A q \in Pkg : pc'[q] \in Making => pc'[q] = pc[q] BY DEF Aside
<1>5. NobodyMakes' => NobodyMakes BY DEF NobodyMakes, Aside
<1> QED BY <1>1, <1>2, <1>3, <1>4, <1>5 DEF BindFacts, Done, Making

\* Only the task that holds the event loop moves, from one of these places to another.
LEMMA GeneratesMoves ==
    ASSUME CbTypes, NEW p \in Pkg, Generates(p)
    PROVE  /\ \A q \in Pkg : q # p => pc'[q] = pc[q]
           /\ \/ pc[p] = "lock" /\ pc'[p] = "gen" /\ locked' /\ proc'.making = proc.making
              \/ pc[p] = "gen" /\ pc'[p] = "gen" /\ locked' = locked
              \/ /\ pc[p] \in Making /\ pc'[p] \in {"failed", "config", "ready"}
                 /\ locked' = locked /\ proc'.making = None
              \/ /\ pc[p] = "config" /\ pc'[p] = "ready"
                 /\ locked' = locked /\ proc'.making = proc.making
<1> USE DEF CbTypes, To, Process, Making, build, Fails
<1>1. CASE CreateLock(p) BY <1>1 DEF CreateLock
<1>2. CASE \E i \in Iface : SkipBinding(p, i) \/ BeginBinding(p, i)
  BY <1>2 DEF SkipBinding, BeginBinding
<1>3. CASE WriteBinding(p) \/ BindgenFails(p) \/ FixUp(p)
  BY <1>3 DEF WriteBinding, BindgenFails, FixUp
<1>4. CASE GenerationFails(p) BY <1>4 DEF GenerationFails
<1>5. CASE OpenConfig(p) BY <1>5 DEF OpenConfig
<1>6. CASE WriteConfig(p) BY <1>6 DEF WriteConfig
<1> QED BY <1>1, <1>2, <1>3, <1>4, <1>5, <1>6 DEF Generates

LEMMA GeneratesHold == ASSUME CbTypes, HoldInv, NEW p \in Pkg, Generates(p) PROVE HoldInv'
<1>0. \A q \in Pkg : q # p => pc'[q] = pc[q] BY GeneratesMoves
<1>1. pc[p] \in Holding \ {"check", "ready", "install"} /\ pc'[p] # "lock"
  BY GeneratesMoves DEF Making, Holding
<1>2. \A q \in Pkg : q # p => pc'[q] \notin Holding BY <1>0, <1>1 DEF HoldInv
<1>3. \A r, q \in Pkg : pc'[r] \in Holding /\ pc'[q] \in Holding => r = q BY <1>2
<1>4. \A q \in Pkg : pc'[q] = "lock" => ~locked' BY <1>1, <1>2 DEF Holding
<1>5. locked' \in BOOLEAN /\ locked'
  BY GeneratesMoves DEF HoldInv, CbTypes, Making
<1>6. ASSUME NEW q \in Pkg, Kind[q] = "ament", pc'[q] \in {"ready", "cmd1"}
      PROVE  locked' /\ NobodyMakes'
  <2>1. CASE pc'[p] \notin Making BY <1>2, <1>5, <2>1 DEF NobodyMakes, Making, Holding
  <2>2. CASE pc'[p] \in Making
    <3>1. q # p BY <1>6, <2>2 DEF Making
    <3>2. pc[q] \in {"ready", "cmd1"} BY <1>0, <1>6, <3>1
    <3>3. locked /\ pc[p] \notin Making BY <1>6, <3>2 DEF HoldInv, NobodyMakes
    <3> QED BY <3>3, <1>1 DEF HoldInv, Making, Holding
  <2> QED BY <2>1, <2>2
<1>7. proc'.making # None => \E q \in Pkg : pc'[q] = "gen"
  <2> SUFFICES ASSUME proc'.making # None PROVE pc'[p] = "gen" OBVIOUS
  <2>1. CASE pc[p] = "config" /\ pc'[p] = "ready" /\ proc'.making = proc.making
    <3>1. PICK q \in Pkg : pc[q] = "gen" BY <2>1 DEF HoldInv
    <3>2. q = p BY <3>1, <1>1 DEF HoldInv, Holding
    <3> QED BY <2>1, <3>1, <3>2
  <2> QED BY <2>1, GeneratesMoves
<1> QED BY <1>3, <1>4, <1>5, <1>6, <1>7 DEF HoldInv

\* While somebody generates, only what it has done needs to be looked at.
LEMMA GenFacts ==
    ASSUME NEW p \in Pkg, pc'[p] = "gen", \A q \in Pkg : q # p => pc'[q] \notin Making,
           old' = {},
           \A i \in Iface : binding'[i] = "none" \/ Done(i)' \/ i = proc'.making,
           proc'.making # None => binding'[proc'.making] \in {"partial", "raw"},
           proc'.want = Discovered',
           \A i \in Discovered' : i \in proc'.todo \/ i = proc'.making \/ Done(i)'
    PROVE  BindFacts'
<1>1. ~NobodyMakes' BY DEF NobodyMakes, Making
<1>2. \A q \in Pkg : pc'[q] # "config" BY DEF Making
<1>3. \A q \in Pkg : pc'[q] = "gen" => q = p BY DEF Making
<1> QED BY <1>1, <1>2, <1>3 DEF BindFacts

LEMMA GeneratesBind ==
    ASSUME CbTypes, CbTypes', HoldInv, BindInv, NEW p \in Pkg, Footprint(p), Generates(p)
    PROVE  BindInv'
<1> SUFFICES ASSUME trouble' \subseteq {"declare"} PROVE BindFacts' BY DEF BindInv
<1>1. trouble \subseteq {"declare"} /\ BindFacts BY DEF BindInv, Footprint
<1>2. Discovered' = Discovered /\ old' = {}
  BY <1>1, DiscoveredKept DEF Footprint, sources, BindFacts
<1>3. \A q \in Pkg : q # p => pc[q] \notin Making /\ pc'[q] \notin Making
  BY GeneratesMoves DEF HoldInv, Holding, Making
<1>4. Discovered \subseteq Iface /\ None \notin Iface BY DeclaredTypes, ColconConstants
<1> USE DEF To, Process, Done
<1>5. CASE CreateLock(p)
  <2>1. proc.making = None
    <3> SUFFICES ASSUME proc.making # None PROVE FALSE OBVIOUS
    <3>1. PICK q \in Pkg : pc[q] = "gen" BY DEF HoldInv
    <3> QED BY <3>1, <1>3, <1>5 DEF CreateLock, Making
  <2>2. /\ pc'[p] = "gen" /\ proc'.want = Discovered /\ proc'.todo = Discovered
        /\ proc'.making = None /\ binding' = binding
    BY <1>5, <2>1 DEF CreateLock, CbTypes
  <2> QED BY <1>1, <1>2, <1>3, <2>1, <2>2, GenFacts DEF BindFacts
<1>6. ASSUME NEW i \in Iface, SkipBinding(p, i) PROVE BindFacts'
  <2>1. /\ pc'[p] = "gen" /\ pc[p] = "gen" /\ proc'.want = proc.want
        /\ proc'.todo = proc.todo \ {i} /\ proc'.making = None /\ proc.making = None
        /\ binding' = binding /\ binding[i] # "none"
    BY <1>6 DEF SkipBinding, CbTypes, build
  <2>2. Done(i) BY <1>1, <1>4, <2>1 DEF BindFacts
  <2> QED BY <1>1, <1>2, <1>3, <1>4, <2>1, <2>2, GenFacts DEF BindFacts
<1>7. ASSUME NEW i \in Iface, BeginBinding(p, i) PROVE BindFacts'
  <2>1. /\ pc'[p] = "gen" /\ pc[p] = "gen" /\ proc'.want = proc.want
        /\ proc'.todo = proc.todo \ {i} /\ proc'.making = i /\ proc.making = None
        /\ binding'[i] = "partial" /\ \A j \in Iface : j # i => binding'[j] = binding[j]
    BY <1>7 DEF BeginBinding, CbTypes
  <2> QED BY <1>1, <1>2, <1>3, <1>4, <2>1, GenFacts DEF BindFacts
<1>8. CASE WriteBinding(p)
  <2>1. /\ pc'[p] = "gen" /\ pc[p] = "gen" /\ proc' = proc /\ proc.making \in Iface
        /\ binding'[proc.making] = "raw"
        /\ \A j \in Iface : j # proc.making => binding'[j] = binding[j]
    BY <1>8 DEF WriteBinding, CbTypes
  <2> QED BY <1>1, <1>2, <1>3, <1>4, <2>1, GenFacts DEF BindFacts
<1>9. CASE BindgenFails(p) \/ GenerationFails(p)
  <2>1. "fail" \in trouble' BY <1>9 DEF BindgenFails, GenerationFails, Fails, Goes
  <2> QED BY <2>1
<1>10. CASE FixUp(p)
  <2>1. /\ pc'[p] = "gen" /\ pc[p] = "gen" /\ proc'.want = proc.want /\ proc'.todo = proc.todo
        /\ proc'.making = None /\ proc.making \in Iface /\ binding'[proc.making] = "fixed"
        /\ \A j \in Iface : j # proc.making => binding'[j] = binding[j]
    BY <1>10 DEF FixUp, CbTypes
  <2> QED BY <1>1, <1>2, <1>3, <1>4, <2>1, GenFacts DEF BindFacts
<1>11. CASE OpenConfig(p)
  <2>1. /\ pc'[p] = "config" /\ pc[p] = "gen" /\ proc' = proc /\ proc.todo = {}
        /\ proc.making = None /\ binding' = binding
    BY <1>11 DEF OpenConfig, CbTypes
  <2>2. ~NobodyMakes' BY <2>1 DEF NobodyMakes, Making
  <2>3. \A q \in Pkg : pc'[q] # "gen" BY <1>3, <2>1 DEF Making
  <2>4. proc.want = Discovered /\ \A i \in Discovered : Done(i) BY <1>1, <1>4, <2>1 DEF BindFacts
  <2> QED BY <1>1, <1>2, <2>1, <2>2, <2>3, <2>4 DEF BindFacts
<1>12. CASE WriteConfig(p)
  <2>1. /\ pc'[p] = "ready" /\ pc[p] = "config" /\ proc'.making = proc.making
        /\ binding' = binding /\ config'.made = "whole"
        /\ config'.patches = {i \in proc.want : binding[i] \in {"raw", "fixed"}}
    BY <1>12 DEF WriteConfig, CbTypes
  <2>2. \A q \in Pkg : pc'[q] \notin Making BY <1>3, <2>1 DEF Making
  <2>3. proc.want = Discovered /\ \A i \in Discovered : Done(i) BY <1>1, <2>1 DEF BindFacts
  <2>4. \A i \in Discovered : i \in config'.patches BY <2>1, <2>3
  <2> QED BY <1>1, <1>2, <2>1, <2>2, <2>3, <2>4 DEF BindFacts, Making
<1> QED
  BY <1>5, <1>6, <1>7, <1>8, <1>9, <1>10, <1>11, <1>12 DEF Generates

LEMMA CancelAside == ASSUME CbTypes, NEW p \in Pkg, Cancel(p) PROVE Aside(p)
BY DEF CbTypes, Cancel, Aside, To, Awaiting, Making, Holding, faults

LEMMA HoldNext ==
    ASSUME CbTypes, InstInv, HoldInv, [CbNext]_cbVars PROVE HoldInv'
<1>1. CASE UNCHANGED cbVars BY <1>1 DEF cbVars, build, HoldInv, NobodyMakes
<1>2. CASE Call
  <2>1. pc' = pc /\ ~proc.on /\ proc'.making = None BY <1>2 DEF Call, Begin, Off
  <2>2. \A p \in Pkg : pc'[p] = "new" BY <2>1 DEF CbTypes, NewTasks
  <2> QED BY <2>1, <2>2 DEF HoldInv, Holding, Making
<1>3. CASE Finish \/ Kill
  <2>1. pc' = NewTasks /\ proc' = Off BY <1>3 DEF Finish, Kill
  <2>2. (\A p \in Pkg : pc'[p] = "new") /\ proc'.making = None BY <2>1 DEF NewTasks, Off
  <2> QED BY <2>2 DEF HoldInv, Holding, Making
<1>4. ASSUME NEW p \in Pkg, Task(p) PROVE HoldInv'
  <2>1. Aside(p) \/ Generates(p) BY <1>4, TaskAside DEF InstInv
  <2> QED BY <2>1, AsideHold, GeneratesHold
<1>5. ASSUME NEW p \in Pkg, Cancel(p) PROVE HoldInv'
  <2>1. Aside(p) BY <1>5, CancelAside
  <2> QED BY <2>1, AsideHold
<1>6. CASE User
  <2>1. pc' = pc /\ proc' = proc /\ ~proc.on
    BY <1>6 DEF User, Edit, EditIface, Declare, RemoveBuild, RemoveLock, Quiet
  <2>2. (\A p \in Pkg : pc'[p] = "new") /\ proc'.making = None
    BY <2>1 DEF CbTypes, NewTasks, Off
  <2> QED BY <2>2 DEF HoldInv, Holding, Making
<1> QED BY <1>1, <1>2, <1>3, <1>4, <1>5, <1>6 DEF CbNext

LEMMA BindNext ==
    ASSUME CbTypes, CbTypes', InstInv, HoldInv, BindInv, [CbNext]_cbVars PROVE BindInv'
<1> SUFFICES ASSUME trouble' \subseteq {"declare"} PROVE BindFacts' BY DEF BindInv
<1>1. CASE UNCHANGED cbVars
  <2>1. Discovered' = Discovered BY <1>1, DiscoveredKept DEF cbVars, sources
  <2> QED BY <1>1, <2>1 DEF cbVars, build, sources, faults, BindInv, BindFacts, NobodyMakes, Done
<1>2. CASE Call \/ Finish
  <2>1. /\ UNCHANGED <<build, sources, faults>> /\ proc'.making = None
        /\ \A p \in Pkg : pc'[p] \notin Making
        /\ NobodyMakes /\ proc.making = None
    <3>1. CASE Call
      <4>1. pc' = pc /\ ~proc.on /\ proc'.making = None /\ UNCHANGED <<build, sources, faults>>
        BY <3>1 DEF Call, Begin, Off
      <4>2. \A p \in Pkg : pc[p] = "new" BY <4>1 DEF CbTypes, NewTasks
      <4>3. proc.making = None BY <4>1 DEF CbTypes, Off
      <4> QED BY <4>1, <4>2, <4>3 DEF NobodyMakes, Making
    <3>2. CASE Finish
      <4>1. /\ pc' = NewTasks /\ proc' = Off /\ UNCHANGED <<build, sources, faults>>
            /\ \A p \in Pkg : pc[p] \notin Making
        BY <3>2 DEF Finish, Ended, Making
      <4>2. proc.making = None BY <4>1 DEF HoldInv, Making
      <4>3. \A p \in Pkg : pc'[p] \notin Making BY <4>1 DEF NewTasks, Making
      <4> QED BY <4>1, <4>2, <4>3 DEF NobodyMakes, Off
    <3> QED BY <1>2, <3>1, <3>2
  <2>2. BindFacts BY <2>1 DEF BindInv, faults
  <2>3. Discovered' = Discovered BY <2>1, DiscoveredKept DEF sources
  <2> QED BY <2>1, <2>2, <2>3 DEF BindFacts, Done, Making, build, sources, faults
<1>3. CASE Kill
  <2>1. "kill" \in trouble' BY <1>3 DEF Kill, Goes
  <2> QED BY <2>1
<1>4. ASSUME NEW p \in Pkg, Task(p) PROVE BindFacts'
  <2>1. Aside(p) \/ Generates(p) BY <1>4, TaskAside DEF InstInv
  <2>2. Footprint(p) BY <1>4, TaskFootprint
  <2>3. BindInv' BY <2>1, <2>2, AsideBind, GeneratesBind
  <2> QED BY <2>3 DEF BindInv
<1>5. ASSUME NEW p \in Pkg, Cancel(p) PROVE BindFacts'
  <2>1. Aside(p) BY <1>5, CancelAside
  <2>2. BindInv' BY <2>1, AsideBind
  <2> QED BY <2>2 DEF BindInv
<1>6. CASE User
  <2>1. pc' = pc /\ proc' = proc /\ ~proc.on
    BY <1>6 DEF User, Edit, EditIface, Declare, RemoveBuild, RemoveLock, Quiet
  <2>2. \A p \in Pkg : pc'[p] = "new" BY <2>1 DEF CbTypes, NewTasks
  <2>3. proc.making = None /\ proc'.making = None BY <2>1 DEF CbTypes, Off
  <2>4. NobodyMakes BY <2>1, <2>2 DEF NobodyMakes, Making
  <2> USE <2>2, <2>3, <2>4 DEF BindFacts, Done, build
  <2>5. ASSUME NEW p \in Pkg, Edit(p) PROVE BindFacts'
    <3>1. UNCHANGED <<build, ws, old, late, faults>> BY <2>5 DEF Edit
    <3>2. Discovered' = Discovered BY <3>1, DiscoveredKept
    <3> QED BY <3>1, <3>2 DEF BindInv, faults
  <2>6. ASSUME NEW i \in Iface, EditIface(i) PROVE BindFacts'
    <3>1. "edit" \in trouble' BY <2>6 DEF EditIface, Goes
    <3> QED BY <3>1
  <2>7. CASE Declare
    <3>1. UNCHANGED <<build, old>> /\ trouble' = trouble \cup {"declare"}
      BY <2>7 DEF Declare, Goes
    <3> QED BY <3>1 DEF BindInv
  <2>8. CASE RemoveBuild
    <3>1. old' = {} /\ ~locked' /\ binding' = [i \in Iface |-> "none"] BY <2>8 DEF RemoveBuild
    <3> QED BY <3>1
  <2>9. CASE RemoveLock
    <3>1. UNCHANGED <<binding, config, old>> /\ ~locked' /\ trouble \subseteq trouble' \cup {"declare"}
      BY <2>9 DEF RemoveLock, sources
    <3> QED BY <3>1 DEF BindInv
  <2> QED BY <1>6, <2>5, <2>6, <2>7, <2>8, <2>9 DEF User
<1> QED BY <1>1, <1>2, <1>3, <1>4, <1>5, <1>6 DEF CbNext

\* Only packages of the workspace have tasks.
OwnTasks == \A p \in Pkg : pc[p] # "new" => p \in ws

LEMMA OwnNext == ASSUME CbTypes, OwnTasks, [CbNext]_cbVars PROVE OwnTasks'
<1>1. CASE UNCHANGED cbVars BY <1>1 DEF cbVars, sources, OwnTasks
<1>2. CASE Call \/ User
  <2>1. pc' = pc /\ ws' = ws
    BY <1>2 DEF Call, Begin, User, Edit, EditIface, Declare, RemoveBuild, RemoveLock, sources
  <2> QED BY <2>1 DEF OwnTasks
<1>3. CASE Finish \/ Kill
  <2>1. pc' = NewTasks BY <1>3 DEF Finish, Kill
  <2> QED BY <2>1 DEF OwnTasks, NewTasks
<1>4. ASSUME NEW p \in Pkg, Task(p) PROVE OwnTasks'
  <2>1. ws' = ws /\ \A q \in Pkg \ {p} : pc'[q] = pc[q]
    BY <1>4, TaskFootprint DEF Footprint, sources
  <2>2. ASSUME pc[p] = "new" PROVE Start(p)
    BY <1>4, <2>2 DEF Task, CheckLock, CreateLock, SkipBinding,
       BeginBinding, WriteBinding, BindgenFails, FixUp, GenerationFails, OpenConfig, WriteConfig,
       EnterNros, NrosGenerated, StartCargo, CommandOk, Command, CommandFails, Awaiting, Install,
       MetadataFails, NotFound, InstallFails, Retest, TestEnds, NrosTestEnds
  <2>3. p \in ws BY <2>2 DEF OwnTasks, Start, Startable
  <2> QED BY <2>1, <2>3 DEF OwnTasks
<1>5. ASSUME NEW p \in Pkg, Cancel(p) PROVE OwnTasks'
  BY <1>5 DEF Cancel, Awaiting, To, CbTypes, sources, OwnTasks
<1> QED BY <1>1, <1>2, <1>3, <1>4, <1>5 DEF CbNext

\* Whichever task came first, however many runs there were and whatever was edited, until
\* something fails or is killed: when cargo is started for a package, the bindings of all it
\* needs are generated, from the interfaces as they are, and in the configuration it is given
\* (workspace_bindgen.py), for any packages and interface packages: only one of the workspace
\* that no package names, and another interface package needs, is not promised.
THEOREM CargoSeesBindings == CbSpec => []BuildsSeeBindings
<1>1. CbInit => InstInv
  <2> SUFFICES ASSUME CbInit, NEW p \in Pkg PROVE InstFacts(p) BY DEF InstInv
  <2>1. pc[p] = "new" BY DEF CbInit, NewTasks
  <2> QED BY <2>1 DEF InstFacts
<1>2. CbInit => HoldInv BY DEF CbInit, HoldInv, NewTasks, Off, Holding, Making
<1>3. CbInit => BindInv
  BY DEF CbInit, BindInv, BindFacts, NewTasks, Off, Done
<1>4. CbTypes /\ InstInv /\ [CbNext]_cbVars => InstInv' BY InstNext
<1>5. CbTypes /\ InstInv /\ HoldInv /\ [CbNext]_cbVars => HoldInv' BY HoldNext
<1>6. CbTypes /\ CbTypes' /\ InstInv /\ HoldInv /\ BindInv /\ [CbNext]_cbVars => BindInv'
  BY BindNext
<1>7. CbTypes /\ OwnTasks /\ HoldInv /\ BindInv => BuildsSeeBindings
  <2> SUFFICES ASSUME CbTypes, OwnTasks, HoldInv, BindInv, NEW p \in Pkg,
                      Compiling(p), Needed(p) \subseteq Underlay \cup Declared
               PROVE  Usable(p) /\ Needed(p) \cap old = {}
    BY DEF BuildsSeeBindings
  <2>1. locked /\ NobodyMakes BY DEF HoldInv, Compiling
  <2>2. BindFacts BY DEF BindInv, Compiling
  <2>3. old = {} /\ config.made = "whole" /\ \A i \in Discovered : i \in config.patches /\ Done(i)
    BY <2>1, <2>2 DEF BindFacts, Compiling
  <2>4. p \in ws /\ Kind[p] # "cmake" BY DEF OwnTasks, Compiling
  <2>5. Needed(p) \subseteq Discovered BY <2>4, SearchFinds
  <2> QED BY <2>3, <2>5 DEF Usable, Done
<1>8. CbInit => OwnTasks BY DEF CbInit, OwnTasks, NewTasks
<1>9. CbTypes /\ OwnTasks /\ [CbNext]_cbVars => OwnTasks' BY OwnNext
<1> QED
  BY <1>1, <1>2, <1>3, <1>4, <1>5, <1>6, <1>7, <1>8, <1>9, ColconTypes, PTL DEF CbSpec

=============================================================================
