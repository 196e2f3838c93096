------------------------------ MODULE MCProgram ------------------------------
(* The generated program and its topic relay, each in behaviours of its     *)
(* own: the relay runs in the executor's callbacks but shares none of the   *)
(* state modelled here.                                                     *)
EXTENDS BridgeForwarding, GeneratedSystem

(* Four transports: the build's own rmw, the same under its other spelling *)
(* on domain 7, and two others, one of them unknown to normalize_rmw.      *)
Transport(rmw, dom) == [rmw |-> rmw, domain |-> dom, locator |-> {}]
End(rmw, dom) == [rmw |-> rmw, domain |-> dom, locator |-> {}]
Bridge(name, connect, topics) == [name |-> name, connect |-> connect, topics |-> topics]

MCCanonical ==
    [r \in {"zenoh", "rmw-zenoh", "xrce", "dds"} |->
        CASE r \in {"zenoh", "rmw-zenoh"} -> {"zenoh"} [] r = "xrce" -> {"xrce"} [] OTHER -> {}]
Four == <<Transport({}, {}), Transport({"zenoh"}, {7}), Transport({"xrce"}, {}), Transport({"dds"}, {})>>
Ends4 == <<End("rmw-zenoh", 0), End("zenoh", 7), End("xrce", 0), End("dds", 0)>>
Link(i, j) == <<Ends4[i], Ends4[j]>>
Connects == {Link(1, 2), Link(2, 3), Link(1, 3), <<Ends4[3], Ends4[4], Ends4[2]>>,
             <<Ends4[4], End("rmw-zenoh", 0)>>, Link(1, 1), <<Ends4[1]>>, <<Ends4[1], End("xrce", 7)>>}
Topic == {"chatter"}
MCBuilds ==
    {[rmw |-> "rmw-zenoh", transports |-> Four, bridges |-> bs] : bs \in
        {<<Bridge("b1", c, t)>> : c \in Connects, t \in {Topic, {"undeclared"}}}
        \cup {<<Bridge("b1", c, Topic), Bridge("b2", d, t)>> :
                  c \in {Link(1, 2), Link(2, 3)}, d \in Connects, t \in {Topic, {"scan"}}}
        \cup {<<Bridge("b1", Ends4, Topic)>>,
              <<Bridge("b1", Link(1, 2), Topic), Bridge("b2", Link(2, 3), Topic),
                Bridge("b3", Link(3, 4), Topic)>>}}

(* Components with a timer, a subscription whose callback is called after   *)
(* the timer, an action server and a service client, alone or on two nodes  *)
(* in two domains, with callbacks that are named, hinted at or unknown.     *)
Entity(kind, id, cb, words) == [kind |-> kind, id |-> id, callback |-> cb, words |-> words]
Cb(source, tokens, ctx) == [id |-> <<"plan", source>>, source |-> source, tokens |-> tokens, sched |-> ctx]
PlanNode(name, dom, es) == [name |-> name, domain |-> dom, entities |-> es]
Inst(rust, clients, ns, cbs) == [rust |-> rust, clients |-> clients, nodes |-> ns, callbacks |-> cbs]

Timer == Entity("timer", "t1", {"cb_timer"}, {"timer"})
Sub == Entity("subscriber", "s1", {"on_timer_reset"}, {"chatter", "sub"})
Act == Entity("action", "a1", {}, {"dock"})
Client == Entity("client", "c1", {}, {"dock"})
NodeLists ==
    {<<PlanNode("n", {}, <<Timer, Sub>>)>>, <<PlanNode("n", {}, <<Client, Sub>>), PlanNode("m", {7}, <<Timer>>)>>,
     <<PlanNode("n", {3}, <<Act>>)>>, <<PlanNode("n", {3}, <<Act>>), PlanNode("m", {7}, <<Sub>>)>>}
CallbackLists ==
    {<<Cb("cb_timer", {"timer"}, "hi")>>,
     <<Cb("on_timer_reset", {"timer", "reset"}, "lo"), Cb("cb_timer", {"timer"}, "none")>>,
     <<Cb("a1", {}, "lo")>>, <<Cb("go", {"dock", "chatter"}, "hi")>>}
Insts == {Inst(r, c, ns, cbs) : r \in BOOLEAN, c \in BOOLEAN, ns \in NodeLists, cbs \in CallbackLists}
SameName == Inst(TRUE, TRUE, <<PlanNode("n", {}, <<Sub>>)>>, <<Cb("on_timer_reset", {}, "lo")>>)
Native == [SameName EXCEPT !.nodes[1].name = "k", !.rust = FALSE]
MCPlans ==
    {[std |-> b[1], entry |-> b[2], transports |-> t, sched |-> <<"hi", "lo">>, instances |-> is] :
        b \in {<<TRUE, "main">>, <<TRUE, "c_abi">>, <<FALSE, "main">>, <<FALSE, "zephyr">>},
        t \in {1, 2},
        is \in {<<i>> : i \in Insts}
               \cup {<<i, o>> : i \in {j \in Insts : j.rust /\ j.clients}, o \in {SameName, Native}}}

=============================================================================
