----------------------------- MODULE PlanGraph -----------------------------
(***************************************************************************)
(* The pure half of orchestration/planner.rs: how source metadata and a    *)
(* launch record become a plan (build_instances, schema_plan_json), and    *)
(* what `nros check` accepts (validate_plan).                              *)
(*                                                                         *)
(* A ROS name is its form and its path; an id made by joining strings is   *)
(* the tuple of the joined parts.  An artifact (one source-metadata JSON)  *)
(* lists its nodes, None when it has no "nodes" key, and its entities in   *)
(* the order they are collected: `of` is the place of the node an entity   *)
(* is listed under, 0 when it is in one of the legacy flat arrays.  Of     *)
(* parameters only the names are kept.  Environment, QoS, remaps' wire     *)
(* form and the build block pass through the planner untouched.            *)
(***************************************************************************)
EXTENDS Integers, Sequences, FiniteSets, SequencesExt

CONSTANTS
    None,          \* an absent optional field
    Sanitize,      \* name -> the name with every other character an underscore
    Tier,          \* ids of the declared [[scheduling.contexts]]
    DefaultTier,   \* "default_executor"
    Rank           \* name -> its place in alphabetical order

Named(form, path) == [form |-> form, path |-> path]

IsList(s) == s \in Seq(ToSet(s))

\* The members of a list that are in S, in their order.
Only(list, S) ==
    LET upTo[k \in 0 .. Len(list)] ==
            IF k = 0 THEN <<>>
            ELSE IF list[k] \in S THEN Append(upTo[k - 1], list[k]) ELSE upTo[k - 1]
    IN  upTo[Len(list)]

-----------------------------------------------------------------------------
(* names.rs *)

NodeFqn(namespace, name, fallback) ==
    namespace \o (IF name = None THEN <<fallback>> ELSE name)

\* The first remap that fits is the one that counts.
Remapped(name, remaps) ==
    LET hits == {i \in DOMAIN remaps : remaps[i].from = name}
    IN  IF hits = {} THEN name ELSE remaps[Min(hits)].to

ResolveName(namespace, node, name, remaps) ==
    LET effective == Remapped(name, remaps)
    IN  CASE effective.form = "absolute" -> effective.path
          [] effective.form = "relative" -> namespace \o effective.path
          [] effective.form = "private" -> namespace \o node \o effective.path

-----------------------------------------------------------------------------
(* build_instances: the launch record, in the order its entries are taken. *)

HasPackage(entry) == entry.package # None

InPackages(list) == Only(list, {entry \in ToSet(list) : HasPackage(entry)})

Launched(record) ==
    InPackages(record.container) \o InPackages(record.node) \o record.load_node

Before(launched, i) ==
    {j \in 1 .. (i - 1) : /\ launched[j].package = launched[i].package
                          /\ launched[j].executable = launched[i].executable}

InstanceId(launched, i) ==
    <<Sanitize[launched[i].package], Sanitize[launched[i].executable],
      Cardinality(Before(launched, i))>>

\* <executable> entries become spawn entries of their own.
Executables(record) ==
    LET plain == Only(record.node, {e \in ToSet(record.node) : ~HasPackage(e)})
        same(i) == {j \in 1 .. (i - 1) :
                      Sanitize[plain[j].executable] = Sanitize[plain[i].executable]}
    IN  {<<Sanitize[plain[i].executable], Cardinality(same(i))>> : i \in DOMAIN plain}

LaunchName(entry) == NodeFqn(entry.namespace, entry.name, entry.executable)

\* A container is found by its full name and by its bare name.
ContainerKeys(entry) ==
    {Named("absolute", LaunchName(entry))}
      \cup (IF entry.name = None THEN {} ELSE {Named("relative", entry.name)})

ContainersAt(launched, key) ==
    {j \in DOMAIN launched :
        launched[j].kind = "container" /\ key \in ContainerKeys(launched[j])}

\* Mutant of TargetSpellings: the bare name is tried first.
TailFirst(target) ==
    <<Named("relative", <<Last(target.path)>>), target, Named("relative", target.path)>>

\* The spellings of the target that are tried, in order.
TargetSpellings(target) ==
    <<target, Named("relative", target.path), Named("relative", <<Last(target.path)>>)>>

ContainerOf(launched, i) ==
    IF launched[i].kind # "load_node" \/ launched[i].target = None THEN None
    ELSE LET spellings == TargetSpellings(launched[i].target)
             hits == {k \in DOMAIN spellings : ContainersAt(launched, spellings[k]) # {}}
         IN  IF hits = {} THEN None
             ELSE InstanceId(launched, Max(ContainersAt(launched, spellings[Min(hits)])))

-----------------------------------------------------------------------------
(* Source metadata: the first artifact that fits is the one that counts. *)

Claims(artifact) ==
    IF artifact.executable # None THEN artifact.executable ELSE artifact.component

MetadataMatches(artifact, entry) ==
    /\ artifact.package \in {None, entry.package}
    /\ Claims(artifact) \in {None, entry.executable}

FindMetadata(artifacts, entry) ==
    LET hits == {k \in DOMAIN artifacts : MetadataMatches(artifacts[k], entry)}
    IN  IF hits = {} THEN None ELSE artifacts[Min(hits)]

NamespaceOf(node, entry) ==
    IF node.namespace = None THEN entry.namespace ELSE node.namespace

SourceNodes(artifact, entry) ==
    LET launchName == LaunchName(entry)
        resolved(node) ==
            IF Len(artifact.nodes) = 1 THEN entry.namespace \o launchName
            ELSE NamespaceOf(node, entry) \o node.name
    IN  IF artifact = None THEN <<[id |-> "node", resolved |-> launchName]>>
        ELSE IF artifact.nodes = None
        THEN <<[id |-> "node", resolved |-> entry.namespace \o launchName]>>
        ELSE [n \in DOMAIN artifact.nodes |->
                [id |-> artifact.nodes[n].id, resolved |-> resolved(artifact.nodes[n])]]

\* A flat entity is said to be of a node called "node", by the launch's names, and loses
\* its callback; one that is listed under a node goes by that node's.
SourceEntity(artifact, entry, e) ==
    LET node == artifact.nodes[e.of]
        known == IF Len(artifact.nodes) = 1 THEN LaunchName(entry) ELSE node.name
    IN  IF e.of = 0
        THEN [e EXCEPT !.of = "node", !.callback = None,
                 !.name = ResolveName(entry.namespace, LaunchName(entry), e.name, entry.remaps)]
        ELSE [e EXCEPT !.of = node.id,
                 !.name = IF e.role = "timer" THEN None
                          ELSE ResolveName(NamespaceOf(node, entry), known, e.name, entry.remaps)]

SourceEntities(artifact, entry) ==
    IF artifact = None THEN <<>>
    ELSE [k \in DOMAIN artifact.entities |-> SourceEntity(artifact, entry, artifact.entities[k])]

SourceCallbacks(artifact) == IF artifact = None THEN <<>> ELSE artifact.callbacks

EntitiesOf(nodes) == UNION {{nodes[n].entities[k] : k \in DOMAIN nodes[n].entities} :
                              n \in DOMAIN nodes}

\* The launch's parameters (with those of nros.toml) over the metadata's.
EffectiveParameters(artifact, entry) ==
    entry.params \cup (IF artifact = None THEN {} ELSE artifact.params)

LinksHold(artifact) ==
    LET callbacks == {artifact.callbacks[k].id : k \in DOMAIN artifact.callbacks}
        entities == ToSet(artifact.entities)
    IN  /\ \A e \in entities : e.callback \in callbacks \cup {None}
        /\ \A k \in DOMAIN artifact.callbacks :
              artifact.callbacks[k].effects \subseteq {e.id : e \in entities}

-----------------------------------------------------------------------------
(* Launch manifests: every endpoint they name exists, and none other does. *)

EndpointRoles ==
    {"publisher", "subscriber", "service_server", "service_client", "action_server", "action_client"}

Fits(entry, e, requirement) ==
    /\ requirement.node \in {None, LaunchName(entry)}
    /\ e.role = requirement.role /\ e.name = requirement.name
    /\ requirement.interface \in {None, <<e.interface.package, e.interface.name>>}

Endpoints(launched, artifacts) ==
    UNION {{<<launched[i], e>> :
              e \in {x \in ToSet(SourceEntities(FindMetadata(artifacts, launched[i]), launched[i])) :
                       x.role \in EndpointRoles}} : i \in DOMAIN launched}

ManifestsHold(launched, artifacts, manifests) ==
    manifests # {} =>
        /\ \A m \in manifests : \E x \in Endpoints(launched, artifacts) : Fits(x[1], x[2], m)
        /\ \A x \in Endpoints(launched, artifacts) : \E m \in manifests : Fits(x[1], x[2], m)

\* No diagnostic of severity "error"; a stock container needs no metadata.
Plannable(launched, artifacts, manifests) ==
    /\ \A i \in DOMAIN launched :
          LET artifact == FindMetadata(artifacts, launched[i])
          IN  IF artifact = None THEN launched[i].kind = "container" ELSE LinksHold(artifact)
    /\ ManifestsHold(launched, artifacts, manifests)

-----------------------------------------------------------------------------
(* schema_plan_json *)

ComponentId(artifact) ==
    <<artifact.package,
      IF artifact.component # None THEN artifact.component ELSE artifact.executable>>

\* Mutant of SchemaComponents: one component per artifact.
EveryArtifact(artifacts) ==
    {[id |-> ComponentId(artifacts[k]), source |-> artifacts[k].path] : k \in DOMAIN artifacts}

\* One component per id: the first artifact that has it.
SchemaComponents(artifacts) ==
    {[id |-> ComponentId(artifacts[k]), source |-> artifacts[k].path] :
       k \in {k \in DOMAIN artifacts :
                \A j \in 1 .. (k - 1) : ComponentId(artifacts[j]) # ComponentId(artifacts[k])}}

SchemaCallback(id, callback) ==
    [id |-> Append(id, callback.id), source |-> callback.id,
     context |-> IF callback.group \in Tier THEN callback.group ELSE DefaultTier]

\* The node gets what is said to be of a node of its id: timers, and endpoints that have
\* an interface.
SchemaNode(id, node, entities) ==
    LET kept == Only(entities,
                     {e \in ToSet(entities) :
                        /\ e.of = node.id
                        /\ e.role = "timer" \/ (e.role \in EndpointRoles /\ e.interface # None)})
    IN  [id |-> Append(id, node.id), resolved |-> node.resolved,
         entities |-> [k \in DOMAIN kept |-> [kept[k] EXCEPT !.id = Append(id, kept[k].id)]]]

SchemaInstance(launched, i, artifacts) ==
    LET entry == launched[i]
        id == InstanceId(launched, i)
        artifact == FindMetadata(artifacts, entry)
        nodes == SourceNodes(artifact, entry)
        entities == SourceEntities(artifact, entry)
        callbacks == SourceCallbacks(artifact)
        first == IF nodes = <<>> THEN "node" ELSE nodes[1].id
    IN  [id |-> id, component |-> <<entry.package, entry.executable>>, kind |-> entry.kind,
         container |-> ContainerOf(launched, i), launch_name |-> LaunchName(entry),
         nodes |-> [n \in DOMAIN nodes |-> SchemaNode(id, nodes[n], entities)],
         parameters |-> {[node |-> Append(id, first), name |-> name] :
                           name \in EffectiveParameters(artifact, entry)},
         callbacks |-> [k \in DOMAIN callbacks |-> SchemaCallback(id, callbacks[k])],
         source |-> IF artifact = None THEN None ELSE artifact.path]

\* Where the entities of a plan are: instance, node, entity, in this order.
Places(instances) ==
    UNION {UNION {{<<i, n, k>> : k \in DOMAIN instances[i].nodes[n].entities} :
                     n \in DOMAIN instances[i].nodes} : i \in DOMAIN instances}

EntityAt(instances, p) == instances[p[1]].nodes[p[2]].entities[p[3]]

Earlier(p, q) ==
    p[1] < q[1] \/ (p[1] = q[1] /\ (p[2] < q[2] \/ (p[2] = q[2] /\ p[3] < q[3])))

InterfaceId(interface) == <<interface.package, interface.name>>

InterfacesIn(nodes) == {e.interface : e \in EntitiesOf(nodes)} \ {None}

\* One row per package and name: the interface of its first user, and its users.
SchemaInterfaces(instances) ==
    LET typed == {p \in Places(instances) : EntityAt(instances, p).interface # None}
        at(p) == EntityAt(instances, p).interface
        users(p) == {q \in typed : InterfaceId(at(q)) = InterfaceId(at(p))}
    IN  {[id |-> InterfaceId(at(p)), interface |-> at(p),
          used_by |-> {EntityAt(instances, q).id : q \in users(p)}] :
            p \in {p \in typed : \A q \in users(p) : ~Earlier(q, p)}}

CallbacksOf(instances) ==
    UNION {{instances[i].callbacks[k] : k \in DOMAIN instances[i].callbacks} : i \in DOMAIN instances}

\* The declared tiers, and the implicit one where it is needed.
SchedContexts(instances) ==
    IF Tier = {} \/ \E c \in CallbacksOf(instances) : c.context = DefaultTier
    THEN Tier \cup {DefaultTier} ELSE Tier

-----------------------------------------------------------------------------
(* infer_callback_chains, infer_callback_groups *)

InstanceEntities(instance) == EntitiesOf(instance.nodes)

Publishes(instance) == {e.name : e \in {e \in InstanceEntities(instance) : e.role = "publisher"}}

Subscribers(instance) ==
    {e \in InstanceEntities(instance) : e.role = "subscriber" /\ e.callback # None}

Producing(instance) ==
    {e.callback : e \in {e \in InstanceEntities(instance) :
                           e.role \in {"subscriber", "timer"} /\ e.callback # None}}

\* Every producing callback of a publishing instance, to every subscriber of the topic.
ChainEdges(instances) ==
    LET heard(i) == {e \in UNION {Subscribers(instances[j]) : j \in DOMAIN instances} :
                       e.name \in Publishes(instances[i])}
        edges(i, e) == {[from |-> cb, to |-> e.callback, topic |-> e.name] :
                          cb \in Producing(instances[i]) \ {e.callback}}
    IN  UNION {UNION {edges(i, e) : e \in heard(i)} : i \in DOMAIN instances}

EndsOf(edges) == {e.from : e \in edges} \cup {e.to : e \in edges}

\* What union-find leaves: the weakly connected blocks.
JoinBlocks(blocks, edge) ==
    LET met == {b \in blocks : edge.from \in b \/ edge.to \in b}
    IN  (blocks \ met) \cup {UNION met}

Blocks(edges) ==
    FoldSet(LAMBDA edge, blocks : JoinBlocks(blocks, edge), {{n} : n \in EndsOf(edges)}, edges)

Alphabetical(S) == SetToSortSeq(S, LAMBDA a, b : Rank[a] < Rank[b])

\* Mutant of TakeReady: a callback is ready as soon as one who feeds it has run.
TakeAny(edges, state) ==
    IF state.queue = <<>> THEN state
    ELSE LET order == Append(state.order, Head(state.queue))
             free == {e.to : e \in {e \in edges : e.from = Head(state.queue)}}
                       \ ToSet(order \o Tail(state.queue))
         IN  [order |-> order, queue |-> Tail(state.queue) \o Alphabetical(free)]

\* One turn of Kahn's loop: the head of the queue is taken, and what waited for it alone joins.
TakeReady(edges, state) ==
    IF state.queue = <<>> THEN state
    ELSE LET order == Append(state.order, Head(state.queue))
             free == {n \in {e.to : e \in {e \in edges : e.from = Head(state.queue)}} :
                        \A e \in edges : e.to = n => e.from \in ToSet(order)}
         IN  [order |-> order, queue |-> Tail(state.queue) \o Alphabetical(free)]

\* What a cycle keeps out of the queue is listed at the end.
ChainOrder(block, edges) ==
    LET start == [order |-> <<>>,
                  queue |-> Alphabetical({n \in block : \A e \in edges : e.to # n})]
        done == FoldLeftDomain(LAMBDA state, turn : TakeReady(edges, state), start,
                               [turn \in 1 .. Cardinality(block) |-> turn])
    IN  done.order \o Alphabetical(block \ ToSet(done.order))

CallbackChains(instances) ==
    LET edges == ChainEdges(instances)
        within(block) == {e \in edges : e.from \in block}
    IN  {[callbacks |-> ChainOrder(block, within(block)), links |-> within(block)] :
           block \in Blocks(edges)}

\* Chains name callbacks as the source does (<<cb>>), instances by their full id.
CallbackGroups(instances, chains) ==
    {[kind |-> "mutually_exclusive",
      callbacks |-> {<<cb>> : cb \in ToSet(chain.callbacks)}] : chain \in chains}
    \cup
    {[kind |-> "reentrant", callbacks |-> {c.id}] :
        c \in {c \in CallbacksOf(instances) :
                 \A chain \in chains : c.id \notin {<<cb>> : cb \in ToSet(chain.callbacks)}}}

SchemaPlan(launch, record, artifacts) ==
    LET launched == Launched(record)
        instances == [i \in DOMAIN launched |-> SchemaInstance(launched, i, artifacts)]
        chains == CallbackChains(instances)
    IN  [launch |-> launch,
         components |-> SchemaComponents(artifacts), instances |-> instances,
         executables |-> Executables(record),
         interfaces |-> SchemaInterfaces(instances), contexts |-> SchedContexts(instances),
         chains |-> chains, groups |-> CallbackGroups(instances, chains)]

-----------------------------------------------------------------------------
(* validate_plan: what `nros check` finds wrong, each with what it is about. *)
(* The bindings repeat each callback with its context and are left out.      *)

Repeats(s) == {s[i] : i \in {i \in DOMAIN s : \E j \in 1 .. (i - 1) : s[j] = s[i]}}

\* The ids of entities that an earlier entity has, too.
RepeatedEntities(instances) ==
    {EntityAt(instances, p).id :
        p \in {p \in Places(instances) :
                 \E q \in Places(instances) :
                    Earlier(q, p) /\ EntityAt(instances, q).id = EntityAt(instances, p).id}}

Problem(code, about) == [code |-> code, about |-> about]

TableProblems(plan) ==
    {Problem("duplicate-component-id", c.id) :
        c \in {c \in plan.components : \E d \in plan.components : d # c /\ d.id = c.id}}
    \cup {Problem("duplicate-interface-id", f.id) :
        f \in {f \in plan.interfaces : \E g \in plan.interfaces : g # f /\ g.id = f.id}}
    \cup {Problem("duplicate-instance-id", id) :
        id \in Repeats([i \in DOMAIN plan.instances |-> plan.instances[i].id])}

InstanceProblems(plan, instance) ==
    {Problem("missing-component-reference", instance.id) :
        x \in {instance.component} \ {c.id : c \in plan.components}}
    \cup {Problem("duplicate-node-id", id) :
        id \in Repeats([n \in DOMAIN instance.nodes |-> instance.nodes[n].id])}
    \cup {Problem("duplicate-entity-id", id) : id \in RepeatedEntities(<<instance>>)}
    \cup {Problem("duplicate-callback-id", id) :
        id \in Repeats([k \in DOMAIN instance.callbacks |-> instance.callbacks[k].id])}
    \cup {Problem("missing-sched-context", c.id) :
        c \in {c \in CallbacksOf(<<instance>>) : c.context \notin plan.contexts}}
    \cup {Problem("missing-parameter-node", x.node) :
        x \in {x \in instance.parameters :
                 x.node \notin {instance.nodes[n].id : n \in DOMAIN instance.nodes}}}

InterfaceProblems(plan) ==
    LET entities == UNION {InstanceEntities(plan.instances[i]) : i \in DOMAIN plan.instances}
        typed == {e \in entities : e.interface # None}
        rows(e) == {f \in plan.interfaces : f.id = InterfaceId(e.interface)}
    IN  {Problem("missing-interface-entity", f.id) :
            f \in {f \in plan.interfaces : ~(f.used_by \subseteq {e.id : e \in entities})}}
        \cup {Problem("missing-interface-ref", e.id) : e \in {e \in typed : rows(e) = {}}}
        \cup {Problem("interface-ref-mismatch", e.id) :
            e \in {e \in typed : \E f \in rows(e) : f.interface # e.interface}}
        \cup {Problem("missing-interface-usage", e.id) :
            e \in {e \in typed : \A f \in rows(e) : e.id \notin f.used_by}}

ValidatePlan(plan) ==
    TableProblems(plan) \cup InterfaceProblems(plan)
      \cup UNION {InstanceProblems(plan, plan.instances[i]) : i \in DOMAIN plan.instances}
=============================================================================
