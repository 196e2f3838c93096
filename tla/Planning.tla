------------------------------ MODULE Planning ------------------------------
(***************************************************************************)
(* `nros metadata` (cmd/metadata.rs) and `nros plan` (plan_system of       *)
(* orchestration/planner.rs) over the files of a workspace: the components *)
(* a user edits, the source-metadata JSON in each package, the copies the  *)
(* commands keep in build/<system>/nros/metadata, and nros-plan.json.      *)
(* Either command may be killed at any of its writes, which leaves the     *)
(* file it was writing torn; the commands of one system do not overlap.    *)
(***************************************************************************)
EXTENDS PlanGraph

CONSTANTS
    Component,   \* the declared components, in the order of the package scan
    Unvisited,   \* those whose source_metadata path the scan does not visit
    FileName,    \* component -> name of its metadata file
    Version,     \* component -> the versions its source goes through
    Artifact,    \* component -> version -> what its metadata says
    Synthetic,   \* artifacts made from Cargo.toml tables, path <<"Cargo.toml", package>>
    Launch,      \* launch files
    Record,      \* launch file -> its record
    Manifest,    \* launch file -> endpoints its manifests require
    Torn         \* content of a file whose writer was killed

VARIABLES
    source,      \* component -> version of its code, None when the package is gone
    file,        \* component -> version its metadata file describes, None, or Torn
    copies,      \* file name -> <<component, version>>, None, or Torn
    plan         \* nros-plan.json: Nothing yet is None

pnVars == <<source, file, copies, plan>>

Declared == ToSet(Component)
Scanned == Declared \ Unvisited
FileNames == {FileName[c] : c \in Declared}

ASSUME PlanningConstants ==
    /\ IsList(Component) /\ Len(Component) = Cardinality(Declared) /\ Unvisited \subseteq Declared
    /\ DOMAIN FileName = Declared /\ IsFiniteSet(FileNames) /\ DOMAIN Version = Declared
    /\ \A c \in Declared :
          IsList(Version[c]) /\ Version[c] # <<>> /\ {None, Torn} \cap ToSet(Version[c]) = {}
    /\ IsList(Synthetic) /\ None # Torn
    /\ \A l \in Launch : /\ IsList(Record[l].container) /\ IsList(Record[l].node)
                          /\ IsList(Record[l].load_node)

\* What a package's own file, a copy of it or a Cargo.toml table can say.
Artifacts ==
    ToSet(Synthetic) \cup UNION {{Artifact[c][v] : v \in ToSet(Version[c])} : c \in Declared}

ASSUME ArtifactShape ==
    \A a \in Artifacts :
        /\ DOMAIN a = {"path", "package", "component", "executable",
                       "nodes", "entities", "callbacks", "params"}
        /\ a.nodes = None \/ IsList(a.nodes)
        /\ IsList(a.entities) /\ IsList(a.callbacks)
        /\ \A e \in ToSet(a.entities) :
              /\ DOMAIN e = {"of", "role", "id", "name", "interface", "callback"}
              /\ e.of = 0 \/ (a.nodes # None /\ e.of \in DOMAIN a.nodes)

PnInit ==
    /\ source = [c \in Declared |-> Head(Version[c])]
    /\ file = [c \in Declared |-> None]
    /\ copies = [f \in FileNames |-> None]
    /\ plan = None

-----------------------------------------------------------------------------
(* The user's side. *)

\* The component's code moves on to its next version.
MoveOn(c) ==
    /\ \E k \in 1 .. (Len(Version[c]) - 1) :
          /\ source[c] = Version[c][k]
          /\ source' = [source EXCEPT ![c] = Version[c][k + 1]]
    /\ UNCHANGED <<file, copies, plan>>

\* The metadata file is deleted, as cargo clean does to target/nros.
Clean(c) ==
    /\ file[c] # None
    /\ file' = [file EXCEPT ![c] = None]
    /\ UNCHANGED <<source, copies, plan>>

\* The package leaves the workspace, its files with it.
Leave(c) ==
    /\ source[c] # None
    /\ source' = [source EXCEPT ![c] = None]
    /\ file' = [file EXCEPT ![c] = None]
    /\ UNCHANGED <<copies, plan>>

-----------------------------------------------------------------------------
(* Writing a list of <<component, version>> under their file names, the     *)
(* first k of them, and the next one torn when the writer is killed in it.  *)

Written(k, list) ==
    [f \in FileNames |->
        LET hits == {i \in 1 .. k : FileName[list[i][1]] = f}
        IN  IF hits = {} THEN copies[f] ELSE list[Max(hits)]]

TornAt(k, list, content) ==
    IF k < Len(list) THEN [content EXCEPT ![FileName[list[k + 1][1]]] = Torn] ELSE content

\* Copies after a killed writer: whole or torn at the file it was at.
Cut(list) ==
    \E k \in 0 .. Len(list) :
        copies' \in {Written(k, list), TornAt(k, list, Written(k, list))}

-----------------------------------------------------------------------------
(* nros metadata *)

Lacking == {c \in Declared : source[c] # None /\ file[c] = None}
ToBuild == Only(Component, Lacking)

\* --build compiles and runs what has no file; a harness may fail or be killed.
BuildStops ==
    /\ \E missing \in {ToBuild} : \E k \in 1 .. Len(missing) : \E left \in {None, Torn} :
          file' = [c \in Declared |->
                     IF \E i \in 1 .. (k - 1) : missing[i] = c THEN source[c]
                     ELSE IF c = missing[k] THEN left ELSE file[c]]
    /\ UNCHANGED <<source, copies, plan>>

Built == [c \in Declared |-> IF c \in Lacking THEN source[c] ELSE file[c]]

\* Mutant of Inputs: only what was built is collected.
InputsBuiltOnly == [i \in DOMAIN ToBuild |-> <<ToBuild[i], Built[ToBuild[i]]>>]

\* What is collected: what was just built, or else what the scan finds.
Inputs ==
    LET list == IF Lacking # {} THEN ToBuild
                ELSE Only(Component, {c \in Scanned : file[c] # None})
    IN  [i \in DOMAIN list |-> <<list[i], Built[list[i]]>>]

Unreadable(list) == {i \in DOMAIN list : list[i][2] = Torn}

\* Collecting goes on to the first file that does not parse.
Parsed(list) == IF Unreadable(list) = {} THEN Len(list) ELSE Min(Unreadable(list)) - 1

\* Without --build a missing file ends the command before anything is written.
Metadata ==
    /\ UNCHANGED <<source, plan>>
    /\ file' = Built
    /\ \E inputs \in {Inputs} : copies' = Written(Parsed(inputs), inputs)

MetadataKilled ==
    /\ file' = Built
    /\ \E inputs \in {Inputs} : Cut(SubSeq(inputs, 1, Parsed(inputs)))
    /\ UNCHANGED <<source, plan>>

-----------------------------------------------------------------------------
(* nros plan *)

InPackage ==
    LET list == Only(Component, {c \in Scanned : file[c] # None})
    IN  [i \in DOMAIN list |-> <<list[i], file[list[i]]>>]

KeptNames == SetToSeq({f \in FileNames : copies[f] # None})

\* Every file that is found must parse.
Readable ==
    /\ Unreadable(InPackage) = {}
    /\ \A f \in FileNames : copies[f] # Torn

At(path, artifact) == [artifact EXCEPT !.path = path]

\* The Cargo.toml tables of the packages that are there.
Tables ==
    Only(Synthetic, {a \in ToSet(Synthetic) :
                       a.path[2] \in Declared => source[a.path[2]] # None})

\* The packages' own files, then the copies, then the Cargo.toml tables.
Loaded ==
    LET mine == InPackage
        kept == KeptNames
    IN  [i \in DOMAIN mine |->
            At(<<"package", mine[i][1]>>, Artifact[mine[i][1]][mine[i][2]])]
        \o [i \in DOMAIN kept |->
            At(<<"copy", kept[i]>>, Artifact[copies[kept[i]][1]][copies[kept[i]][2]])]
        \o Tables

\* preserve_metadata: the files of the packages are copied before anything is checked.
Preserve == \E mine \in {InPackage} : copies' = Written(Len(mine), mine)

CanPlan(l) == Plannable(Launched(Record[l]), Loaded, Manifest[l])

PlanSystem(l) ==
    /\ Readable /\ CanPlan(l)
    /\ Preserve
    /\ plan' = SchemaPlan(l, Record[l], Loaded)
    /\ UNCHANGED <<source, file>>

\* An error diagnostic, or a [build] or [[transport]] that is refused.
PlanFails ==
    /\ Readable
    /\ Preserve
    /\ UNCHANGED <<source, file, plan>>

PlanKilled ==
    /\ Readable
    /\ \/ (\E mine \in {InPackage} : Cut(mine)) /\ plan' = plan
       \/ (\E l \in Launch : CanPlan(l)) /\ Preserve /\ plan' = Torn
    /\ UNCHANGED <<source, file>>

PnNext ==
    \/ \E c \in Declared : MoveOn(c) \/ Clean(c) \/ Leave(c)
    \/ BuildStops \/ Metadata \/ MetadataKilled
    \/ (\E l \in Launch : PlanSystem(l)) \/ PlanFails \/ PlanKilled

\* A user who runs `nros metadata --build` again and again gets it to end.
PnSpec == PnInit /\ [][PnNext]_pnVars /\ WF_pnVars(Metadata)
-----------------------------------------------------------------------------
IsPlan(p) == p \notin {None, Torn}

\* A launch entry some metadata matches that gives its component another name.
OtherwiseNamed(entry) ==
    \E artifact \in Artifacts :
        /\ MetadataMatches(artifact, entry)
        /\ ComponentId(artifact) # <<entry.package, entry.executable>>

\* An id the list gives to two of its members.
TwiceIn(list, id) == \E j, k \in DOMAIN list : j # k /\ list[j].id = id /\ list[k].id = id

NodeIds(a) == IF a.nodes = None THEN {} ELSE {a.nodes[n].id : n \in DOMAIN a.nodes}
NodeTwice(a, id) == a.nodes # None /\ TwiceIn(a.nodes, id)

InterfacesSaid(entry) ==
    UNION {{e.interface : e \in ToSet(a.entities)} \ {None} :
              a \in {a \in Artifacts : MetadataMatches(a, entry)}}

\* The problem is one the metadata or the launch file had before the planner saw it:
\* a container without metadata or a component that is not called like its executable;
\* an id given twice; parameters for a component whose list of nodes is empty; an
\* interface that is a message here and a service there; two names that are one when
\* they are sanitised.
ProblemOfInput(p, launched, instances) ==
    \E i \in DOMAIN launched :
        LET under(id) == Append(instances[i].id, id)
        IN  \/ /\ p = Problem("missing-component-reference", instances[i].id)
               /\ \/ OtherwiseNamed(launched[i])
                  \/ launched[i].kind = "container" /\ instances[i].source = None
            \/ \E a \in {a \in Artifacts : MetadataMatches(a, launched[i])} :
                  \/ /\ a.nodes = <<>>
                     /\ p = Problem("missing-parameter-node", under("node"))
                  \/ \E n \in NodeIds(a) : /\ NodeTwice(a, n)
                                           /\ p = Problem("duplicate-node-id", under(n))
                  \/ \E e \in ToSet(a.entities) :
                        /\ TwiceIn(a.entities, e.id) \/ \E n \in NodeIds(a) : NodeTwice(a, n)
                        /\ p = Problem("duplicate-entity-id", under(e.id))
                  \/ \E c \in ToSet(a.callbacks) :
                        /\ TwiceIn(a.callbacks, c.id)
                        /\ p = Problem("duplicate-callback-id", under(c.id))
            \/ \E j \in DOMAIN launched :
                  \/ /\ p.code = "interface-ref-mismatch"
                     /\ \E x \in InterfacesSaid(launched[i]), y \in InterfacesSaid(launched[j]) :
                           x # y /\ InterfaceId(x) = InterfaceId(y)
                  \/ /\ p = Problem("duplicate-instance-id", instances[i].id)
                     /\ instances[j].id = instances[i].id
                     /\ <<launched[i].package, launched[i].executable>>
                          # <<launched[j].package, launched[j].executable>>

\* What `nros check` finds wrong with a plan `nros plan` wrote (validate_plan) is wrong
\* with its input: whatever mix of packages' files, stale copies and Cargo.toml tables
\* the plan was made of, the planner itself gives nothing an id twice and refers to
\* nothing it leaves out.
PlannedPassesCheck ==
    IsPlan(plan) =>
        \A p \in ValidatePlan(plan) :
            ProblemOfInput(p, Launched(Record[plan.launch]), plan.instances)

\* A composable node whose target is the full name of a container of the launch
\* belongs to that container, whatever containers of other namespaces are called
\* (build_instances).
ChildrenInTheirContainers ==
    IsPlan(plan) =>
        LET launched == Launched(Record[plan.launch])
            named(i) == {j \in DOMAIN launched :
                           /\ launched[j].kind = "container"
                           /\ launched[i].target = Named("absolute", LaunchName(launched[j]))}
        IN  \A i \in {i \in DOMAIN launched : launched[i].kind = "load_node"} :
                launched[i].target # None /\ named(i) # {} =>
                    plan.instances[i].container \in {plan.instances[j].id : j \in named(i)}

\* Chains follow the data (infer_callback_chains): a callback is in one chain at most,
\* callbacks between which data flows share one, no chain can be cut in two without
\* cutting a flow, and where no flow returns nobody comes before who feeds it.
ChainsFollowData ==
    IsPlan(plan) =>
        LET edges == ChainEdges(plan.instances)
            members(chain) == ToSet(chain.callbacks)
            place(chain, cb) == CHOOSE k \in DOMAIN chain.callbacks : chain.callbacks[k] = cb
            closed(S) == \E e \in edges : e.from \in S /\ e.to \notin S
            loops(S) == S # {} /\ \A cb \in S : \E e \in edges : e.to = cb /\ e.from \in S
        IN  /\ \A e \in edges : \E chain \in plan.chains :
                  e.from \in members(chain) /\ e.to \in members(chain)
            /\ \A c, d \in plan.chains : c # d => members(c) \cap members(d) = {}
            /\ \A chain \in plan.chains :
                  /\ Len(chain.callbacks) = Cardinality(members(chain))
                  /\ \A S \in SUBSET members(chain) \ {{}, members(chain)} :
                        closed(S) \/ closed(members(chain) \ S)
                  /\ (\A S \in SUBSET members(chain) : ~loops(S)) =>
                        \A e \in {e \in edges : e.from \in members(chain)} :
                            place(chain, e.from) < place(chain, e.to)

\* A torn copy makes every later plan fail; once the user leaves the files alone,
\* running `nros metadata` again repairs it, unless the package is gone or some
\* package's file is itself torn (metadata.rs collects everything the scan finds).
TornCopiesHeal ==
    <>[][~\E c \in Declared : MoveOn(c) \/ Clean(c) \/ Leave(c)]_pnVars =>
        \A c \in Scanned :
            copies[FileName[c]] = Torn
              ~> \/ copies[FileName[c]] # Torn
                 \/ source[c] = None
                 \/ \E d \in Declared : file[d] = Torn
=============================================================================
