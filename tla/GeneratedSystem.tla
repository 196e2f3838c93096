--------------------------- MODULE GeneratedSystem ---------------------------
(***************************************************************************)
(* The program that render_generated_tables and the entry renderers write  *)
(* for a plan: it opens a session per ROS domain, builds the planned nodes *)
(* of every instance, registers its callbacks, binds them to scheduling    *)
(* contexts, and spins.                                                    *)
(*                                                                         *)
(* A std program runs the callbacks of an instance and its tick on one     *)
(* state cell; a tick may call a service, and the call spins the executor  *)
(* until the answer comes or MaxWait passes are over.  A no_std program    *)
(* has a state per callback and ticks the callbacks of action servers.     *)
(***************************************************************************)
EXTENDS Naturals, Sequences, SequencesExt, FiniteSets, FiniteSetsExt

CONSTANTS
    Plans,    \* [std, entry, transports, sched, instances], see below
    MaxWait,  \* bound: passes of a service call (200 in the code)
    MaxCalls  \* bound: service calls of one tick

(* plan.entry is "main" (the start-up shim), "c_abi" (nros_<sys>_* of the   *)
(* library) or "zephyr"; plan.sched the ids of its scheduling contexts.  An *)
(* instance is [rust, clients, nodes, callbacks], a node [id, source, name, *)
(* domain, entities], with its namespace in its name; an entity [kind, id,  *)
(* callback, words] and a callback [id, source, tokens, sched]: tokens are   *)
(* the words of its name, "subscriber" for message or sub, and words those   *)
(* of its tokens an entity's names contain.  domain, callback: at most one.  *)

List(s) == s \in Seq(Range(s))

ASSUME SystemAssumption ==
    /\ MaxWait \in Nat \ {0} /\ MaxCalls \in Nat
    /\ \A p \in Plans :
          /\ List(p.sched) /\ List(p.instances)
          /\ \A inst \in Range(p.instances) :
                /\ List(inst.callbacks) /\ List(inst.nodes)
                /\ \A node \in Range(inst.nodes) : List(node.entities)

VARIABLES
    plan,
    stage,     \* "closed" | "building" | "binding" | "spinning" |
               \* "refused" | "ended" | "panicked"
    sessions,  \* the domains of the opened sessions, or <<>>
    nodes,     \* the executor's nodes, in order: [name, session]
    handles,   \* registered callbacks, in order: [entity, node, cell, sched]
    at,        \* in the loop: "top" | "spin" | "tick" | "inside" | "calling"
    batch,     \* callbacks the running spin_once still dispatches
    ready,     \* callbacks whose event has come
    turn,      \* the tick entry that is next or running
    calls,     \* service calls of the running tick
    waits,     \* passes of the running service call
    halted     \* somebody asked the executor to halt

gsVars == <<plan, stage, sessions, nodes, handles, at, batch, ready, turn, calls, waits, halted>>
loopVars == <<at, batch, ready, turn, calls, waits, halted>>

-----------------------------------------------------------------------------
(* Sessions and nodes                                                      *)

DomainOf(node) == IF node.domain = {} THEN 0 ELSE CHOOSE d \in node.domain : TRUE
PlanNodes == FlattenSeq([i \in DOMAIN plan.instances |-> plan.instances[i].nodes])
Domains == {DomainOf(node) : node \in Range(PlanNodes)}

IsBridge == plan.transports >= 2
MultiDomain == ~IsBridge /\ Cardinality(Domains) > 1

InOrder(S) ==
    [k \in 1..Cardinality(S) |-> CHOOSE d \in S : Cardinality({e \in S : e < d}) = k - 1]

(* SESSION_SPECS: one session per domain, in order, or per transport. *)
SessionSpecs ==
    IF MultiDomain THEN InOrder(Domains)
    ELSE [t \in 1..plan.transports |-> 0]

(* Only the start-up shims know build_executor_bridge. *)
OpenExecutor ==
    /\ stage = "closed"
    /\ stage' = "building"
    /\ sessions' = IF plan.entry = "main" /\ (IsBridge \/ MultiDomain)
                   THEN SessionSpecs ELSE <<0>>
    /\ UNCHANGED <<plan, nodes, handles, loopVars>>

SessionIdx(node) ==
    IF MultiDomain THEN SelectInSeq(SessionSpecs, LAMBDA d : d = DomainOf(node)) ELSE 1

(* register_component declares the component's nodes; each gets the name   *)
(* and the session of the plan.  A session that was not opened is refused. *)
BuildComponentNode ==
    LET node == PlanNodes[Len(nodes) + 1]
    IN  /\ stage = "building" /\ Len(nodes) < Len(PlanNodes)
        /\ IF SessionIdx(node) \in DOMAIN sessions
           THEN /\ nodes' = Append(nodes, [name |-> node.name, session |-> SessionIdx(node)])
                /\ UNCHANGED stage
           ELSE stage' = "refused" /\ UNCHANGED nodes
        /\ UNCHANGED <<plan, sessions, handles, loopVars>>

-----------------------------------------------------------------------------
(* Callbacks                                                               *)

Callbacks ==
    FlattenSeq([i \in DOMAIN plan.instances |->
        [k \in DOMAIN plan.instances[i].callbacks |->
            [inst |-> i, cb |-> plan.instances[i].callbacks[k]]]])

Served == {"timer", "subscriber", "service", "action"}

Callback(entity) == IF entity.callback = {} THEN entity.id ELSE CHOOSE c \in entity.callback : TRUE

(* The entities of an instance, each with its planned node; and which of  *)
(* them call back.                                                         *)
Entities(i) ==
    FlattenSeq([n \in DOMAIN plan.instances[i].nodes |->
        [e \in DOMAIN plan.instances[i].nodes[n].entities |->
            [node |-> plan.instances[i].nodes[n],
             entity |-> plan.instances[i].nodes[n].entities[e]]]])

Callable(i) == {k \in DOMAIN Entities(i) : Entities(i)[k].entity.kind \in Served}

FirstOf(s, those) == IF those = {} THEN {} ELSE {s[Min(those)]}

Exactly(c, cb) == Callback(c.entity) \in {cb.id, cb.source}
Hinted(c, cb) == c.entity.kind \in {"timer", "subscriber"} /\ c.entity.kind \in cb.tokens
Wordy(c, cb) == c.entity.words \cap cb.tokens # {}

FirstNonEmpty(answers) ==
    LET k == SelectInSeq(answers, LAMBDA a : a # {}) IN IF k = 0 THEN {} ELSE answers[k]

Named(i, cb) == FirstOf(Entities(i), {k \in Callable(i) : Exactly(Entities(i)[k], cb)})

Guesses(i, cb) ==
    LET s == Entities(i)
        hinted == {k \in Callable(i) : Hinted(s[k], cb)}
    IN  <<FirstOf(s, {k \in hinted : s[k].entity.kind = "timer"}),
          FirstOf(s, hinted),
          FirstOf(s, {k \in Callable(i) : Wordy(s[k], cb)}),
          IF Cardinality(Callable(i)) = 1 THEN FirstOf(s, Callable(i)) ELSE {}>>

GuessFirst(i, cb) == FirstNonEmpty(Guesses(i, cb) \o <<Named(i, cb)>>)

(* By the callback's name; else by what its name hints at; else the only.  *)
FindCallbackEntity(i, cb) == FirstNonEmpty(<<Named(i, cb)>> \o Guesses(i, cb))

NodeIdByName(name) == SelectInSeq(nodes, LAMBDA n : n.name = name)

(* A std component's callbacks share their instance's cell; a no_std        *)
(* callback owns its state.                                                *)
SharedCell(i) == <<"instance", i>>
OwnCell(k) == <<"callback", k>>
Cell(i, k) ==
    IF ~plan.instances[i].rust THEN {} ELSE IF plan.std THEN {SharedCell(i)} ELSE {OwnCell(k)}

RegisterCallback ==
    LET k == Len(handles) + 1
        i == Callbacks[k].inst
        found == FindCallbackEntity(i, Callbacks[k].cb)
        node(c) == IF c.entity.kind = "timer" THEN 1   \* the executor's, not a node's
                   ELSE NodeIdByName(c.node.name)
    IN  /\ stage = "building"
        /\ Len(nodes) = Len(PlanNodes) /\ Len(handles) < Len(Callbacks)
        /\ IF \E c \in found : node(c) # 0
           THEN /\ handles' = Append(handles, [entity |-> (CHOOSE c \in found : TRUE).entity,
                                               node |-> node(CHOOSE c \in found : TRUE),
                                               cell |-> Cell(i, k), sched |-> 0])
                /\ UNCHANGED stage
           ELSE stage' = "refused" /\ UNCHANGED handles
        /\ UNCHANGED <<plan, sessions, nodes, loopVars>>

(* CALLBACK_BINDINGS: 0 is the executor's own context, the plan's follow. *)
SchedContext(id) == SelectInSeq(plan.sched, LAMBDA s : s = id)

BindAll ==
    /\ stage = "building" /\ Len(nodes) = Len(PlanNodes) /\ Len(handles) = Len(Callbacks)
    /\ handles' = [k \in DOMAIN handles |->
                      [handles[k] EXCEPT !.sched = SchedContext(Callbacks[k].cb.sched)]]
    /\ stage' = "spinning" /\ at' = "top"
    /\ UNCHANGED <<plan, sessions, nodes, batch, ready, turn, calls, waits, halted>>

-----------------------------------------------------------------------------
(* The loop                                                                *)

HasCallable(i) ==
    \E k \in DOMAIN Callbacks : Callbacks[k].inst = i /\ FindCallbackEntity(i, Callbacks[k].cb) # {}

(* TICK_ENTRIES of a std program: every instance that can be called back. *)
InstanceTickers ==
    SelectSeq([i \in DOMAIN plan.instances |-> i],
              LAMBDA i : plan.instances[i].rust /\ HasCallable(i))

(* The tick_<k> of a no_std program; Zephyr's rust_main spins without them. *)
ActionTickers ==
    IF plan.entry = "zephyr" THEN <<>>
    ELSE SelectSeq([k \in DOMAIN handles |-> k],
                   LAMBDA k : handles[k].cell # {} /\ handles[k].entity.kind = "action")

Tickers == IF plan.std THEN InstanceTickers ELSE ActionTickers

Borrowed ==
    IF plan.std /\ at \in {"inside", "calling"} THEN {SharedCell(Tickers[turn])} ELSE {}

(* A message, a request or a timer's period.  *)
Arrive(k) ==
    /\ stage = "spinning" /\ k \in DOMAIN handles \ ready
    /\ ready' = ready \cup {k}
    /\ UNCHANGED <<plan, stage, sessions, nodes, handles, at, batch, turn, calls, waits, halted>>

Halt ==
    /\ stage = "spinning" /\ ~halted
    /\ halted' = TRUE
    /\ UNCHANGED <<plan, stage, sessions, nodes, handles, at, batch, ready, turn, calls, waits>>

(* Only a std executor can be halted. *)
LoopTop ==
    /\ stage = "spinning" /\ at = "top"
    /\ IF plan.std /\ halted
       THEN stage' = "ended" /\ UNCHANGED <<at, batch, ready, turn>>
       ELSE /\ at' = "spin" /\ batch' = ready /\ ready' = {} /\ turn' = 1
            /\ UNCHANGED stage
    /\ UNCHANGED <<plan, sessions, nodes, handles, calls, waits, halted>>

(* A callback borrows its cell mutably while it runs. *)
Dispatch ==
    /\ stage = "spinning" /\ at \in {"spin", "calling"} /\ batch # {}
    /\ LET k == Min(batch)
       IN  /\ batch' = batch \ {k}
           /\ stage' = IF handles[k].cell \cap Borrowed # {} THEN "panicked" ELSE stage
    /\ UNCHANGED <<plan, sessions, nodes, handles, at, ready, turn, calls, waits, halted>>

SpinDone ==
    /\ stage = "spinning" /\ at = "spin" /\ batch = {}
    /\ at' = "tick"
    /\ UNCHANGED <<plan, stage, sessions, nodes, handles, batch, ready, turn, calls, waits, halted>>

Tick ==
    /\ stage = "spinning" /\ at = "tick"
    /\ at' = IF turn \in DOMAIN Tickers THEN "inside" ELSE "top"
    /\ calls' = 0
    /\ UNCHANGED <<plan, stage, sessions, nodes, handles, batch, ready, turn, waits, halted>>

TickReturns ==
    /\ stage = "spinning" /\ at = "inside"
    /\ at' = "tick" /\ turn' = turn + 1
    /\ UNCHANGED <<plan, stage, sessions, nodes, handles, batch, ready, calls, waits, halted>>

(* call_raw: the request is sent, then the executor is spun for the answer *)
(* with the tick's cell still borrowed.  A no_std tick has no client.      *)
CallRaw ==
    /\ stage = "spinning" /\ at = "inside" /\ plan.std
    /\ plan.instances[Tickers[turn]].clients /\ calls < MaxCalls
    /\ at' = "calling" /\ calls' = calls + 1 /\ waits' = 0
    /\ batch' = ready /\ ready' = {}
    /\ UNCHANGED <<plan, stage, sessions, nodes, handles, turn, halted>>

Unbounded(passes) == TRUE
WaitsOn(passes) == passes < MaxWait

(* After each pass the answer is there, or the next pass begins, or the    *)
(* call fails.                                                             *)
CallPass ==
    /\ stage = "spinning" /\ at = "calling" /\ batch = {}
    /\ \/ at' = "inside" /\ UNCHANGED <<batch, ready, waits>>
       \/ /\ WaitsOn(waits + 1)
          /\ waits' = Min({waits + 1, MaxWait}) /\ batch' = ready /\ ready' = {}
          /\ UNCHANGED at
    /\ UNCHANGED <<plan, stage, sessions, nodes, handles, turn, calls, halted>>

GsInit ==
    /\ plan \in Plans
    /\ stage = "closed" /\ sessions = <<>> /\ nodes = <<>> /\ handles = <<>>
    /\ at = "top" /\ batch = {} /\ ready = {} /\ turn = 1 /\ calls = 0 /\ waits = 0
    /\ halted = FALSE

LoopStep == LoopTop \/ Dispatch \/ SpinDone \/ Tick \/ TickReturns \/ CallRaw \/ CallPass

GsNext ==
    \/ OpenExecutor \/ BuildComponentNode \/ RegisterCallback \/ BindAll
    \/ \E k \in DOMAIN handles : Arrive(k)
    \/ Halt \/ LoopStep

(* The program's one thread keeps running. *)
GsFairness == WF_gsVars(LoopStep)

GsSpec == GsInit /\ [][GsNext]_gsVars /\ GsFairness

-----------------------------------------------------------------------------
(* The plan's own reading of callback k: the only entity that names it. *)
Meant(k) ==
    LET c == Callbacks[k]
        callable == {Entities(c.inst)[e] : e \in Callable(c.inst)}
    IN  {x \in callable : Exactly(x, c.cb)}

NamesDiffer == \A m, n \in DOMAIN PlanNodes : m # n => PlanNodes[m].name # PlanNodes[n].name

(* A started program does what its plan says: each callback an entity      *)
(* names is that entity's, on the entity's node, in the session of that    *)
(* node's domain and in its own scheduling context.                        *)
StartedAsPlanned ==
    stage = "spinning" /\ plan.entry = "main" /\ NamesDiffer =>
        \A k \in DOMAIN handles : \A x \in Meant(k) :
            LET h == handles[k]
                id == Callbacks[k].cb.sched
            IN  Meant(k) = {x} =>
                /\ h.entity = x.entity
                /\ x.entity.kind # "timer" =>
                      /\ nodes[h.node].name = x.node.name
                      /\ MultiDomain => sessions[nodes[h.node].session] = DomainOf(x.node)
                /\ IF id \in Range(plan.sched)
                   THEN h.sched # 0 /\ plan.sched[h.sched] = id
                   ELSE h.sched = 0

(* A std program that is asked to halt stops spinning, whatever its ticks  *)
(* wait for.                                                               *)
HaltEnds == (halted /\ plan.std) ~> stage \in {"ended", "panicked"}

(* The renderer of the cells: "the executor spins single-threaded, so the  *)
(* borrows never overlap".                                                 *)
BorrowsNeverOverlap == stage # "panicked"

=============================================================================
