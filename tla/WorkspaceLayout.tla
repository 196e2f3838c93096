-------------------------- MODULE WorkspaceLayout --------------------------
(***************************************************************************)
(* The commands that give a workspace its shape: nros migrate workspace    *)
(* (cmd/migrate.rs, cmd/emit_package_xml.rs), nros new system, nros new    *)
(* --deploy and nros new --component, and what nros check says of a        *)
(* bringup package.  Each writes its files one after the other and may be  *)
(* cut short between two of them or in the middle of one.                  *)
(*                                                                         *)
(* A node is described by a manifest of its package before the migration   *)
(* and by a table of the package's Cargo.toml after it.  What a table says *)
(* of a node, and the class of a component row, which both writers derive  *)
(* from its package, are left out.                                         *)
(***************************************************************************)
EXTENDS Naturals, SequencesExt

CONSTANTS
    Pkg,         \* component packages, directories of src/
    Node,        \* names of nodes
    Bringup,     \* directories of bringup packages
    ComponentLists, \* what --components may be given
    Target,      \* names of deploy targets
    Shape,       \* workspaces before the first command
    Absent,      \* no such file
    Garbled,     \* a file that does not parse
    MaxCommands, \* bound on the commands given
    MaxCuts      \* bound on the commands that are cut short

-----------------------------------------------------------------------------
(* The files, as far as a command reads or writes them.                    *)

LegacyForm == {"component_nros.toml", "nros/components"}
Manifest == (LegacyForm \cup {"nros.toml"}) \X Node
Dependency == {"build", "exec", "test", "depend", "buildtool"} \X Pkg
PackageXml == [marked : BOOLEAN, depends : SUBSET Dependency]
CargoToml == [named : BOOLEAN, nodes : SUBSET Node, ament : SUBSET Dependency]
DeployTable ==
    [kind : {"self", "vendor-lib", "vendor-module"}, triple : BOOLEAN, steps : BOOLEAN,
     vendor : BOOLEAN, code : Target \cup {Absent}, system : BOOLEAN]
ConfigFile ==
    [systems : Nat, components : Seq(Pkg), launch : BOOLEAN,
     deploy : UNION {[some -> DeployTable] : some \in SUBSET Target}]
RootToml == [members : SUBSET Pkg, exclude : SUBSET Bringup, system : Bringup \cup {Absent}]
SystemToml == [rows : SUBSET (Pkg \X Node), deploy : SUBSET (Target \cup {"native"})]
BringupDir ==
    [system : SystemToml \cup {Absent, Garbled}, xml : {Absent} \cup SUBSET Pkg,
     launch : {"none", "torn", "whole"}]

OwnCode(t, d) == d.code \in {Absent, t} /\ (d.kind = "self" => d.code = Absent)

\* A workspace of the old shape: no command has been given in it; its system lists a package
\* once; no two deploy targets share a code directory.
OldShape(s) ==
    /\ s.config \in ConfigFile
    /\ s.manifest \in [Pkg -> SUBSET (LegacyForm \X Node)]
    /\ s.cargo \in [Pkg -> CargoToml \cup {Absent, Garbled}]
    /\ s.packageXml \in [Pkg -> PackageXml \cup {Absent}]
    /\ s.root \in RootToml \cup {Absent, Garbled}
    /\ s.root \in RootToml => s.root.system = Absent
    /\ s.glue \in [Target -> {"none", "user"}]
    /\ IsInjective(s.config.components)
    /\ \A t \in DOMAIN s.config.deploy : OwnCode(t, s.config.deploy[t])

ASSUME LayoutConstants ==
    /\ \A s \in Shape : OldShape(s)
    /\ ComponentLists \subseteq SUBSET Pkg
    /\ Pkg \subseteq Node /\ Bringup \cap Pkg = {}
    /\ Absent # Garbled
    /\ \A f \in {Absent, Garbled} :
          /\ f \notin Bringup /\ f \notin Target
          /\ f \notin ConfigFile /\ f \notin CargoToml /\ f \notin PackageXml
          /\ f \notin RootToml /\ f \notin SystemToml /\ f \notin BringupDir
          /\ \A pkgs \in SUBSET Pkg : f # pkgs

VARIABLES
    config,     \* nros.toml: the systems, their components and deploy targets
    manifest,   \* package -> <<file, node>> of its component manifests
    cargo,      \* package -> its Cargo.toml
    packageXml, \* package -> its package.xml: the dependencies by their tags
    recorded,   \* package -> is metadata/ there?
    launchFile, \* is the launch file still with the first package?
    bringup,    \* bringup directory -> system.toml, package.xml and launch/
    root,       \* the workspace's Cargo.toml
    glue,       \* target -> who wrote deploy/<target>/: "none", "stub", "user"
    cmd,        \* the command that runs
    report,     \* how the last one ended, until the next begins
    shape,      \* the workspace as it was
    commands, cuts, \* how many there were
    rerun       \* has a migration begun with what an earlier one had left?

tomls == <<config, manifest, cargo, packageXml, recorded, launchFile>>
dirs == <<bringup, root, glue>>
counts == <<shape, commands, cuts>>
wlVars == <<tomls, dirs, cmd, report, counts, rerun>>

NothingRuns == [verb |-> "none"]
NoReport == [verb |-> "none", bringup |-> Absent, target |-> Absent]
There(f) == f # Absent /\ f # Garbled

WlInit ==
    /\ shape \in Shape
    /\ config = shape.config /\ manifest = shape.manifest /\ cargo = shape.cargo
    /\ packageXml = shape.packageXml /\ recorded = [p \in Pkg |-> manifest[p] # {}]
    /\ launchFile = config.launch
    /\ bringup = [b \in Bringup |-> Absent] /\ root = shape.root
    /\ glue = shape.glue
    /\ cmd = NothingRuns /\ report = NoReport
    /\ commands = 0 /\ cuts = 0 /\ rerun = FALSE

\* A command is given; those that refuse to run change nothing.
Given == cmd = NothingRuns /\ commands < MaxCommands /\ commands' = commands + 1
Begins(c) == cmd' = c /\ report' = NoReport
Done(what) == cmd' = NothingRuns /\ report' = what
Err == Done(NoReport)
Goes(step) == cmd' = [cmd EXCEPT !.step = step] /\ UNCHANGED report

-----------------------------------------------------------------------------
DiscoverOneForm(p) ==
    LET folded == {m \in manifest[p] : m[1] = "component_nros.toml"}
    IN IF folded # {} THEN folded ELSE {m \in manifest[p] : m[1] = "nros/components"}
\* discover_components_for_pkg: component_nros.toml and nros/components/*.toml.  The
\* nros.toml that nros new --component writes is not among them.
Discover(p) == {m \in manifest[p] : m[1] \in {"component_nros.toml", "nros/components"}}
NodesIn(ms) == {m[2] : m \in ms}

\* convert_deploy: a target without a kind or a target triple is dropped.
Converted(deploy) == {t \in DOMAIN deploy : deploy[t].triple}

AlreadyMigrated == There(root) /\ root.system # Absent

\* build_plan looks everything up before the first step.
CanMigrate ==
    /\ There(config) /\ config.systems = 1
    /\ \A p \in ToSet(config.components) : Discover(p) # {}
MigrationPlan(b) ==
    [verb |-> "migrate", step |-> "system", bringup |-> b, pkgs |-> ToSet(config.components),
     todo |-> config.components, found |-> [p \in Pkg |-> Discover(p)],
     launch |-> launchFile, deploy |-> Converted(config.deploy)]

\* nros migrate workspace [--bringup-name <b>]
Migrate(b, force) ==
    /\ Given
    /\ CanMigrate /\ (force \/ ~AlreadyMigrated)
    /\ Begins(MigrationPlan(b))
    /\ rerun' = \/ rerun
                \/ \E p \in Pkg : ~ shape.manifest[p] \subseteq manifest[p]
                \/ launchFile # shape.config.launch
    /\ UNCHANGED <<tomls, dirs, shape, cuts>>
\* It answers Ok as well when it finds that it has nothing to do.
AnswerMigrated ==
    /\ Given
    /\ AlreadyMigrated
    /\ Done([verb |-> "already", bringup |-> Absent, target |-> Absent])
    /\ UNCHANGED <<tomls, dirs, shape, cuts, rerun>>

\* apply_plan, for each package.  Its Cargo.toml is written before its manifests go.
ManifestsFirst == <<"manifests", "patch", "metadata", "package.xml">>
PackageSteps == <<"patch", "manifests", "metadata", "package.xml">>
FirstStep(pkgs) == IF pkgs = <<>> THEN "bringup" ELSE Head(PackageSteps)
GoesOn ==
    IF cmd.step = Last(PackageSteps)
    THEN cmd' = [cmd EXCEPT !.todo = Tail(@), !.step = FirstStep(Tail(cmd.todo))]
    ELSE \E k \in 1 .. 3 : /\ PackageSteps[k] = cmd.step
                           /\ cmd' = [cmd EXCEPT !.step = PackageSteps[k + 1]]

WriteSystem ==
    /\ cmd.verb = "migrate" /\ cmd.step = "system"
    /\ bringup' = [bringup EXCEPT ![cmd.bringup] =
          [system |-> [rows |-> UNION {{<<p, n>> : n \in NodesIn(cmd.found[p])} : p \in cmd.pkgs},
                       deploy |-> cmd.deploy],
           xml |-> IF @ = Absent THEN Absent ELSE @.xml,
           launch |-> IF @ = Absent THEN "none" ELSE @.launch]]
    /\ Goes(IF cmd.launch THEN "copy" ELSE FirstStep(cmd.todo))
    /\ UNCHANGED <<tomls, root, glue, counts, rerun>>
CopyLaunch ==
    /\ cmd.verb = "migrate" /\ cmd.step = "copy"
    /\ bringup' = [bringup EXCEPT ![cmd.bringup].launch = "whole"]
    /\ Goes("unlink")
    /\ UNCHANGED <<tomls, root, glue, counts, rerun>>
RemoveLaunch ==
    /\ cmd.verb = "migrate" /\ cmd.step = "unlink"
    /\ launchFile' = FALSE
    /\ Goes(FirstStep(cmd.todo))
    /\ UNCHANGED <<config, manifest, cargo, packageXml, recorded, dirs, counts, rerun>>

\* extract_ament_from_package_xml: <depend> is for building and running, other tags are lost.
AmentOf(xml) ==
    IF xml = Absent THEN {}
    ELSE UNION {CASE d[1] \in {"build", "exec", "test"} -> {d}
                  [] d[1] = "depend" -> {<<"build", d[2]>>, <<"exec", d[2]>>}
                  [] OTHER -> {} : d \in xml.depends}
PatchPackage ==
    /\ cmd.verb = "migrate" /\ cmd.step = "patch"
    /\ LET p == Head(cmd.todo) IN
       IF cargo[p] = Garbled THEN Err /\ UNCHANGED cargo
       ELSE /\ cargo' = [cargo EXCEPT ![p] =
                   [named |-> @ = Absent \/ @.named, nodes |-> NodesIn(cmd.found[p]),
                    ament |-> AmentOf(packageXml[p])]]
            /\ GoesOn /\ UNCHANGED report
    /\ UNCHANGED <<config, manifest, packageXml, recorded, launchFile, dirs, counts, rerun>>
\* Their order makes no difference.
RemoveManifest ==
    /\ cmd.verb = "migrate" /\ cmd.step = "manifests"
    /\ LET p == Head(cmd.todo) rest == manifest[p] \cap cmd.found[p] IN
       IF rest = {} THEN GoesOn /\ UNCHANGED manifest
       ELSE /\ \E m \in rest : manifest' = [manifest EXCEPT ![p] = @ \ {m}]
            /\ UNCHANGED cmd
    /\ UNCHANGED <<config, cargo, packageXml, recorded, launchFile, dirs, report, counts, rerun>>
RemoveMetadata ==
    /\ cmd.verb = "migrate" /\ cmd.step = "metadata"
    /\ recorded' = [recorded EXCEPT ![Head(cmd.todo)] = FALSE]
    /\ GoesOn /\ UNCHANGED report
    /\ UNCHANGED <<config, manifest, cargo, packageXml, launchFile, dirs, counts, rerun>>
\* render_component: a Cargo.toml without a package name cannot be rendered.
RegenerateXml ==
    /\ cmd.verb = "migrate" /\ cmd.step = "package.xml"
    /\ LET p == Head(cmd.todo) IN
       IF ~cargo[p].named THEN Err /\ UNCHANGED packageXml
       ELSE /\ packageXml' = [packageXml EXCEPT ![p] = [marked |-> TRUE, depends |-> cargo[p].ament]]
            /\ GoesOn /\ UNCHANGED report
    /\ UNCHANGED <<config, manifest, cargo, recorded, launchFile, dirs, counts, rerun>>
\* render_bringup, from the system.toml just written.
WriteBringupXml ==
    /\ cmd.verb = "migrate" /\ cmd.step = "bringup"
    /\ bringup' = [bringup EXCEPT ![cmd.bringup].xml =
                     {r[1] : r \in bringup[cmd.bringup].system.rows}]
    /\ Goes("nros.toml")
    /\ UNCHANGED <<tomls, root, glue, counts, rerun>>
RemoveConfig ==
    /\ cmd.verb = "migrate" /\ cmd.step = "nros.toml"
    /\ config' = Absent
    /\ Goes("root")
    /\ UNCHANGED <<manifest, cargo, packageXml, recorded, launchFile, dirs, counts, rerun>>
PatchRoot ==
    /\ cmd.verb = "migrate" /\ cmd.step = "root"
    /\ IF root = Garbled THEN Err /\ UNCHANGED root
       ELSE LET old == IF root = Absent THEN [members |-> {}, exclude |-> {}] ELSE root
            IN /\ root' = [members |-> old.members \cup cmd.pkgs,
                           exclude |-> old.exclude \cup {cmd.bringup}, system |-> cmd.bringup]
               /\ Done([verb |-> "migrate", bringup |-> cmd.bringup, target |-> Absent])
    /\ UNCHANGED <<tomls, bringup, glue, counts, rerun>>

-----------------------------------------------------------------------------
\* nros new system <b> --components ...
NewSystem(b, pkgs, force) ==
    /\ Given
    /\ force \/ bringup[b] = Absent
    /\ Begins([verb |-> "system", step |-> "wipe", bringup |-> b, pkgs |-> pkgs])
    /\ UNCHANGED <<tomls, dirs, shape, cuts, rerun>>
\* scaffold_bringup: package.xml, system.toml, launch file, in an empty directory.
ScaffoldStep ==
    /\ cmd.verb = "system" /\ cmd.step # "exclude"
    /\ bringup' = [bringup EXCEPT ![cmd.bringup] =
         CASE cmd.step = "wipe" -> Absent
           [] cmd.step = "xml" -> [system |-> Absent, xml |-> cmd.pkgs, launch |-> "none"]
           [] cmd.step = "toml" -> [@ EXCEPT !.system = [rows |-> {<<p, p>> : p \in cmd.pkgs},
                                                         deploy |-> {"native"}]]
           [] cmd.step = "launch" -> [@ EXCEPT !.launch = "whole"]]
    /\ Goes(CASE cmd.step = "wipe" -> "xml" [] cmd.step = "xml" -> "toml"
              [] cmd.step = "toml" -> "launch" [] cmd.step = "launch" -> "exclude")
    /\ UNCHANGED <<tomls, root, glue, counts, rerun>>
\* add_bringup_to_workspace_exclude, where there is a Cargo.toml.
AddToExclude ==
    /\ cmd.verb = "system" /\ cmd.step = "exclude"
    /\ IF root = Garbled THEN Err /\ UNCHANGED root
       ELSE /\ root' = IF root = Absent THEN Absent
                       ELSE [root EXCEPT !.exclude = @ \cup {cmd.bringup}]
            /\ Done([verb |-> "system", bringup |-> cmd.bringup, target |-> Absent])
    /\ UNCHANGED <<tomls, bringup, glue, counts, rerun>>

-----------------------------------------------------------------------------
\* write_deploy_table.
FreshTarget(t, kind) ==
    [kind |-> kind, triple |-> TRUE, steps |-> kind # "self", vendor |-> kind = "vendor-lib",
     code |-> IF kind = "self" THEN Absent ELSE t, system |-> FALSE]
ForkedWhole(t, base) == base
\* clone_profile: a fork has a code directory of its own.
Forked(t, base) == [base EXCEPT !.code = IF base.kind = "self" THEN @ ELSE t]

\* WorkspaceConfig::validate, over the deploy targets.
Valid(c) ==
    \A t \in DOMAIN c.deploy :
        LET d == c.deploy[t] IN
        /\ IF c.systems = 1 THEN ~d.system ELSE d.system
        /\ IF d.kind = "self" THEN ~d.vendor ELSE d.steps
        /\ d.kind = "vendor-module" => d.code # Absent

WithTarget(t, d) ==
    [config EXCEPT !.deploy = [u \in DOMAIN @ \cup {t} |-> IF u = t THEN d ELSE @[u]]]
\* nros new --deploy <t> [--from-profile <from>]: the root file is validated, then written.
NewDeploy(t, kind, from, force) ==
    /\ Given
    /\ There(config) /\ (force \/ t \notin DOMAIN config.deploy)
    /\ from # Absent => from \in DOMAIN config.deploy
    /\ LET d == IF from = Absent THEN FreshTarget(t, kind) ELSE Forked(t, config.deploy[from])
       IN /\ Valid(WithTarget(t, d))
          /\ Begins([verb |-> "deploy", step |-> "table", target |-> t, table |-> d, force |-> force])
    /\ UNCHANGED <<tomls, dirs, shape, cuts, rerun>>
WriteTable ==
    /\ cmd.verb = "deploy" /\ cmd.step = "table"
    /\ config' = WithTarget(cmd.target, cmd.table)
    /\ IF cmd.table.kind = "self"
       THEN Done([verb |-> "deploy", bringup |-> Absent, target |-> cmd.target])
       ELSE Goes("glue")
    /\ UNCHANGED <<manifest, cargo, packageXml, recorded, launchFile, dirs, counts, rerun>>
\* scaffold_dir: what is there is only overwritten with --force.
WriteGlue ==
    /\ cmd.verb = "deploy" /\ cmd.step = "glue"
    /\ glue' = [glue EXCEPT ![cmd.target] = IF @ = "none" \/ cmd.force THEN "stub" ELSE @]
    /\ Done([verb |-> "deploy", bringup |-> Absent, target |-> cmd.target])
    /\ UNCHANGED <<tomls, bringup, root, counts, rerun>>

\* nros new --component <p>, in a directory of its own: the manifest is folded into
\* nros.toml.  What a kill leaves of one of the new files is not told apart.
NewComponent(p) ==
    /\ Given
    /\ manifest[p] = {} /\ cargo[p] = Absent /\ packageXml[p] = Absent
    /\ Begins([verb |-> "component", step |-> "xml", pkg |-> p])
    /\ UNCHANGED <<tomls, dirs, shape, cuts, rerun>>
ComponentStep ==
    /\ cmd.verb = "component"
    /\ LET p == cmd.pkg IN
       \/ /\ cmd.step = "xml"
          /\ packageXml' = [packageXml EXCEPT ![p] = [marked |-> FALSE, depends |-> {}]]
          /\ Goes("cargo") /\ UNCHANGED <<cargo, manifest>>
       \/ /\ cmd.step = "cargo"
          /\ cargo' = [cargo EXCEPT ![p] = [named |-> TRUE, nodes |-> {}, ament |-> {}]]
          /\ Goes("manifest") /\ UNCHANGED <<packageXml, manifest>>
       \/ /\ cmd.step = "manifest"
          /\ manifest' = [manifest EXCEPT ![p] = {<<"nros.toml", p>>}]
          /\ Done([verb |-> "component", bringup |-> Absent, target |-> Absent])
          /\ UNCHANGED <<packageXml, cargo>>
    /\ UNCHANGED <<config, recorded, launchFile, dirs, counts, rerun>>

-----------------------------------------------------------------------------
\* What a kill in the middle of writing a file leaves of it: a prefix, which may or may
\* not parse.
TornCargo == {Garbled} \cup {[named |-> n, nodes |-> {}, ament |-> {}] : n \in BOOLEAN}
TornRoot == {Garbled, [members |-> {}, exclude |-> {}, system |-> Absent]}
TornXml == {[marked |-> m, depends |-> {}] : m \in BOOLEAN}
TornConfig == {Garbled} \cup
    {[config EXCEPT !.deploy = [t \in kept |-> @[t]]] : kept \in SUBSET DOMAIN config.deploy}
TornBringup(b) ==
    LET now == bringup[b] IN
    CASE cmd.step = "wipe" /\ now # Absent ->
              {[system |-> f, xml |-> g, launch |-> h] :
                 f \in {Absent, now.system}, g \in {Absent, now.xml}, h \in {"none", now.launch}}
      [] cmd.step = "system" ->
              {IF now = Absent THEN [system |-> Garbled, xml |-> Absent, launch |-> "none"]
               ELSE [now EXCEPT !.system = Garbled]}
      [] cmd.step = "toml" -> {[now EXCEPT !.system = Garbled]}
      [] cmd.step \in {"copy", "launch"} -> {[now EXCEPT !.launch = "torn"]}
      [] cmd.step = "bringup" -> {[now EXCEPT !.xml = {}]}
      [] cmd.step = "xml" -> {[system |-> Absent, xml |-> {}, launch |-> "none"]}
      [] OTHER -> {}

\* The command is killed, between two steps or in the middle of one.
CutShort ==
    /\ cmd # NothingRuns /\ cuts < MaxCuts
    /\ cuts' = cuts + 1
    /\ Err
    /\ \/ UNCHANGED <<tomls, dirs>>
       \/ /\ cmd.step = "patch"
          /\ \E c \in TornCargo : cargo' = [cargo EXCEPT ![Head(cmd.todo)] = c]
          /\ UNCHANGED <<config, manifest, packageXml, recorded, launchFile, dirs>>
       \/ /\ cmd.step = "package.xml"
          /\ \E x \in TornXml : packageXml' = [packageXml EXCEPT ![Head(cmd.todo)] = x]
          /\ UNCHANGED <<config, manifest, cargo, recorded, launchFile, dirs>>
       \/ /\ cmd.step = "table"
          /\ config' \in TornConfig
          /\ UNCHANGED <<manifest, cargo, packageXml, recorded, launchFile, dirs>>
       \/ /\ cmd.verb \in {"migrate", "system"}
          /\ \E b \in TornBringup(cmd.bringup) : bringup' = [bringup EXCEPT ![cmd.bringup] = b]
          /\ UNCHANGED <<tomls, root, glue>>
       \/ /\ cmd.step = "root" \/ (cmd.step = "exclude" /\ root # Absent)
          /\ root' \in TornRoot
          /\ UNCHANGED <<tomls, bringup, glue>>
       \/ /\ cmd.step = "glue" /\ (cmd.force \/ glue[cmd.target] = "none")
          /\ glue' = [glue EXCEPT ![cmd.target] = "part"]
          /\ UNCHANGED <<tomls, bringup, root>>
    /\ UNCHANGED <<shape, commands, rerun>>

\* The user takes a file that does not parse back from version control.
Repair ==
    /\ cmd = NothingRuns
    /\ \/ \E p \in Pkg :
             /\ cargo[p] = Garbled
             /\ cargo' = [cargo EXCEPT ![p] = IF There(shape.cargo[p]) THEN shape.cargo[p] ELSE Absent]
          /\ UNCHANGED <<config, root>>
       \/ /\ root = Garbled
          /\ root' = IF shape.root = Garbled THEN Absent ELSE shape.root
          /\ UNCHANGED <<config, cargo>>
       \/ /\ config = Garbled
          /\ config' = shape.config
          /\ UNCHANGED <<cargo, root>>
    /\ UNCHANGED <<manifest, packageXml, recorded, launchFile, bringup, glue, cmd, report, counts, rerun>>

\* The user fills a target's stubs in.
FillGlue(t) ==
    /\ cmd = NothingRuns /\ glue[t] = "stub"
    /\ glue' = [glue EXCEPT ![t] = "user"]
    /\ UNCHANGED <<tomls, bringup, root, cmd, report, counts, rerun>>

-----------------------------------------------------------------------------
MigrateStep ==
    \/ WriteSystem \/ CopyLaunch \/ RemoveLaunch \/ PatchPackage \/ RemoveManifest
    \/ RemoveMetadata \/ RegenerateXml \/ WriteBringupXml \/ RemoveConfig \/ PatchRoot
GiveCommand ==
    \/ AnswerMigrated
    \/ \E b \in Bringup, force \in BOOLEAN :
          \/ Migrate(b, force)
          \/ \E pkgs \in ComponentLists : NewSystem(b, pkgs, force)
    \/ \E t \in Target, force \in BOOLEAN :
          \E kind \in {"self", "vendor-lib", "vendor-module"}, from \in Target \cup {Absent} :
             NewDeploy(t, kind, from, force)
    \/ \E p \in Pkg : NewComponent(p)
WlNext ==
    \/ GiveCommand
    \/ MigrateStep \/ ScaffoldStep \/ AddToExclude \/ WriteTable \/ WriteGlue \/ ComponentStep
    \/ CutShort \/ Repair \/ \E t \in Target : FillGlue(t)
    \/ cmd = NothingRuns /\ UNCHANGED wlVars \* the user leaves it at that

-----------------------------------------------------------------------------
\* nros check --bringup: the package is whole and its package.xml names the packages of
\* its components, no more and no fewer.
LintBringup(b) ==
    /\ bringup[b] # Absent /\ bringup[b].xml # Absent /\ There(bringup[b].system)
    /\ bringup[b].xml = {r[1] : r \in bringup[b].system.rows}
\* discover_bringups, by which nros plan finds the bringup of a workspace.
DiscoverBringups ==
    {b \in Bringup : /\ root # Garbled
                     /\ There(root) => b \notin root.members
                     /\ bringup[b] # Absent
                     /\ bringup[b].xml # Absent /\ bringup[b].system # Absent}
\* nros check --package-xml-drift
Drifted(p) ==
    There(packageXml[p]) /\ packageXml[p].marked /\ cargo[p].ament # packageXml[p].depends

\* A migration never loses a node, wherever it is killed and however often it is given
\* again from the start: each is still in a manifest of its package or in the tables of
\* its Cargo.toml (apply_plan).
NodesKept ==
    ~rerun => \A p \in Pkg : \A n \in NodesIn(shape.manifest[p]) :
        n \in NodesIn(manifest[p]) \/ (There(cargo[p]) /\ n \in cargo[p].nodes)

\* When nros migrate workspace answers Ok, be it that there is nothing left to do, all of
\* the workspace has the new shape: no manifest and no recorded metadata is left, every
\* Cargo.toml has its package's nodes and its dependencies for building, running and
\* testing, package.xml says the same, and the root names packages and bringup.
OkIsMigrated ==
    report.verb \in {"migrate", "already"} /\ ~rerun =>
        /\ config = Absent
        /\ root.system # Absent /\ root.system \in root.exclude
        /\ report.verb = "migrate" /\ shape.config.launch =>
              bringup[report.bringup].launch = "whole"
        /\ \A p \in ToSet(shape.config.components) :
              /\ manifest[p] = {} /\ ~recorded[p] /\ ~Drifted(p) /\ p \in root.members
              /\ cargo[p].nodes = NodesIn(shape.manifest[p])
              /\ \A use \in {"build", "exec", "test"}, q \in Pkg :
                    <<use, q>> \in packageXml[p].depends <=>
                        /\ shape.packageXml[p] # Absent
                        /\ \/ <<use, q>> \in shape.packageXml[p].depends
                           \/ use # "test" /\ <<"depend", q>> \in shape.packageXml[p].depends

\* What nros new and nros migrate answer Ok for passes nros check and is found: the
\* bringup has a whole launch file when it was scaffolded, and of the deploy targets every
\* one with a code directory has its own, with the glue in it.  Glue that was cut short is
\* there to stay when the target was lost to another cut, of the table.
OkPasses ==
    /\ report.bringup # Absent =>
          /\ LintBringup(report.bringup) /\ report.bringup \in DiscoverBringups
          /\ report.verb = "system" => bringup[report.bringup].launch = "whole"
    /\ report.target # Absent =>
          LET d == config.deploy IN
          /\ Valid(config)
          /\ d[report.target].code # Absent =>
                glue[report.target] \in {"stub", "user"} \/ cuts > 1
          /\ \A t, u \in DOMAIN d : t # u => d[t].code = Absent \/ d[t].code # d[u].code

\* What nros new and nros migrate answer Ok for is done, and passes the checks of the other
\* commands.
OkMeansDone == OkIsMigrated /\ OkPasses

WlSpec == WlInit /\ [][WlNext]_wlVars
=============================================================================
