-------------------------- MODULE BridgeForwarding --------------------------
(***************************************************************************)
(* The topic relay of a generated system (register_bridges, written by     *)
(* render_register_bridges_fn): a build with two or more transports opens  *)
(* one session per transport, and each [[bridge]] of the plan forwards its *)
(* topics between its sessions.                                            *)
(*                                                                         *)
(* A bridge has, per topic and ordered pair of its endpoints (i, j), one   *)
(* subscription on the session of i that publishes on the session of j     *)
(* what it receives.  A forwarded sample carries the bridge's name as its  *)
(* origin, in place of the origin it came with.                            *)
(***************************************************************************)
EXTENDS Naturals, Sequences, SequencesExt, FiniteSets, FiniteSetsExt

CONSTANTS
    Builds,   \* plans: [rmw, transports, bridges], the fields the relay reads
    Canonical,\* spelling of an rmw -> set of at most one canonical name
    Declared, \* topics some component of the plan publishes or subscribes
    MaxSeen   \* bound: appearances counted per session

ASSUME BridgeAssumption ==
    /\ MaxSeen \in Nat \ {0}
    /\ \A w \in Builds :
          /\ w.transports \in Seq(Range(w.transports)) /\ IsFiniteSet(Range(w.bridges))
          /\ \A b \in Range(w.bridges) : b.connect \in Seq(Range(b.connect))

VARIABLES
    build,   \* the plan
    relay,   \* "checking" | "refused" | "running"
    pairs,   \* the subscriptions: [bridge, topic, from, to]
    flying,  \* samples not yet delivered: [to: a subscription, origin]
    seen,    \* session -> how often a sample appeared on it
    published   \* {} or {<<session, topic>>}: the one sample a component publishes

bfVars == <<build, relay, pairs, flying, seen, published>>

Sessions == DOMAIN build.transports

NormalizeRmw(rmw) == IF Canonical[rmw] = {} THEN rmw ELSE CHOOSE c \in Canonical[rmw] : TRUE

(* The first transport with the endpoint's rmw, domain and locator. *)
EndpointSession(ep) ==
    LET own(t) == IF t.rmw = {} THEN build.rmw ELSE CHOOSE r \in t.rmw : TRUE
        domain(t) == IF t.domain = {} THEN 0 ELSE CHOOSE d \in t.domain : TRUE
    IN  {s \in Sessions :
            /\ NormalizeRmw(own(build.transports[s])) = NormalizeRmw(ep.rmw)
            /\ domain(build.transports[s]) = ep.domain
            /\ build.transports[s].locator = ep.locator}

SessionOf(ep) == Min(EndpointSession(ep))

(* Every bridge has two endpoints, each a session that is opened, and      *)
(* forwards topics whose type some component declares.                     *)
BridgesValid ==
    \A b \in Range(build.bridges) :
        /\ Len(b.connect) >= 2
        /\ \A ep \in Range(b.connect) : EndpointSession(ep) # {}
        /\ b.topics \subseteq Declared

PairsOf(b) ==
    {[bridge |-> b.name, topic |-> t,
      from |-> SessionOf(b.connect[ij[1]]), to |-> SessionOf(b.connect[ij[2]])] :
        t \in b.topics,
        ij \in {x \in (DOMAIN b.connect) \X (DOMAIN b.connect) : x[1] # x[2]}}

ValidateBridges ==
    /\ relay = "checking"
    /\ IF BridgesValid
       THEN relay' = "running" /\ pairs' = UNION {PairsOf(b) : b \in Range(build.bridges)}
       ELSE relay' = "refused" /\ UNCHANGED pairs
    /\ UNCHANGED <<build, flying, seen, published>>

(* A sample on session s reaches every subscription there, the ones of     *)
(* this very program included.                                             *)
Copies(s, topic, origin) ==
    {[to |-> p, origin |-> origin] : p \in {q \in pairs : q.from = s /\ q.topic = topic}}

Appears(s) == [seen EXCEPT ![s] = Min({MaxSeen, @ + 1})]

Publish(s, topic) ==
    /\ relay = "running" /\ published = {}
    /\ published' = {<<s, topic>>}
    /\ seen' = Appears(s)
    /\ flying' = flying \cup Copies(s, topic, {})
    /\ UNCHANGED <<build, relay, pairs>>

DropNothing(sample) == FALSE

(* Echo suppression: a bridge drops what it forwarded itself. *)
Drop(sample) == sample.origin = {sample.to.bridge}

Forward(sample) ==
    LET p == sample.to
    IN  IF Drop(sample)
        THEN flying' = flying \ {sample} /\ UNCHANGED seen
        ELSE /\ flying' = (flying \ {sample}) \cup Copies(p.to, p.topic, {p.bridge})
             /\ seen' = Appears(p.to)

Deliver ==
    /\ \E sample \in flying : Forward(sample)
    /\ UNCHANGED <<build, relay, pairs, published>>

BfInit ==
    /\ build \in Builds
    /\ relay = "checking" /\ pairs = {} /\ flying = {} /\ published = {}
    /\ seen = [s \in Sessions |-> 0]

Topics == UNION {b.topics : b \in Range(build.bridges)}

BfNext ==
    \/ ValidateBridges
    \/ \E s \in Sessions, t \in Topics : Publish(s, t)
    \/ Deliver

BfSpec == BfInit /\ [][BfNext]_bfVars

-----------------------------------------------------------------------------
(* The bridges of a topic, and the sessions they connect.                  *)

BridgesOf(t) == {b \in Range(build.bridges) : t \in b.topics}
EndsOf(b) == {SessionOf(ep) : ep \in Range(b.connect)}

Linked(t, s) ==
    LET reach[n \in 0..Cardinality(BridgesOf(t))] ==
            IF n = 0 THEN {s}
            ELSE LET r == reach[n - 1]
                 IN  r \cup UNION {EndsOf(b) : b \in {c \in BridgesOf(t) : EndsOf(c) \cap r # {}}}
    IN  reach[Cardinality(BridgesOf(t))]

(* Sessions and bridges form a forest: as many joints as sessions and      *)
(* bridges, less one per connected part; and no bridge names a session     *)
(* twice.                                                                  *)
Forest(t) ==
    LET parts == {Linked(t, s) : s \in Sessions}
        joints == {x \in BridgesOf(t) \X Sessions : x[2] \in EndsOf(x[1])}
    IN  /\ \A b \in BridgesOf(t) : Cardinality(EndsOf(b)) = Len(b.connect)
        /\ Cardinality(joints) + Cardinality(parts)
              = Cardinality(Sessions) + Cardinality(BridgesOf(t))

(* Where the bridges of a topic form no cycle, no session sees a sample    *)
(* twice, however many bridges it crosses.                                 *)
OncePerSession ==
    \A x \in published : (\E s \in Sessions : seen[s] > 1) => ~Forest(x[2])

(* Once nothing is under way any more, the sample has reached every        *)
(* session its topic's bridges lead to, over several bridges if need be.   *)
ReachesAll ==
    flying = {} => \A x \in published : \A s \in Linked(x[2], x[1]) : seen[s] >= 1

(* A sample gets everywhere its topic's bridges lead, and nowhere twice    *)
(* unless they form a cycle.                                               *)
BridgesDeliver == OncePerSession /\ ReachesAll
=============================================================================
