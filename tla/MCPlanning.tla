----------------------------- MODULE MCPlanning -----------------------------
(* A workspace for TLC: a camera whose first metadata have the flat form, and *)
(* with it some ids twice and an interface that is a message elsewhere, and   *)
(* whose second version also listens; a filter whose metadata file has the    *)
(* camera's file name and which has a parameter but no node yet; a mixer of   *)
(* two nodes whose file the scan does not visit; and a container declared in  *)
(* Cargo.toml.                                                                *)
EXTENDS Planning

CONSTANTS launches

rel(x) == Named("relative", <<x>>)
image == [package |-> "msgs", name |-> "Image", kind |-> "message"]
reset == [package |-> "msgs", name |-> "Reset", kind |-> "service"]

ent(role, id, name, interface, callback) ==
    [of |-> 1, role |-> role, id |-> id, name |-> name, interface |-> interface, callback |-> callback]
pub(id, name) == ent("publisher", id, name, image, None)
sub(id, name, cb) == ent("subscriber", id, name, image, cb)
timer(cb) == ent("timer", "timer", None, None, cb)
cbk(id, group) == [id |-> id, group |-> group, effects |-> {}]
of(n, e) == [e EXCEPT !.of = n]
node(id, namespace, name) == [id |-> id, namespace |-> namespace, name |-> name]
meta(package, component, executable, nodes, entities, callbacks) ==
    [path |-> None, package |-> package, component |-> component, executable |-> executable,
     nodes |-> nodes, entities |-> entities, callbacks |-> callbacks, params |-> {}]
table(package) ==
    [meta(package, package, package, None, <<>>, <<>>) EXCEPT !.path = <<"Cargo.toml", package>>]

MCComponent == <<"camera", "filter", "mixer">>
MCFileName == [c \in {"camera", "filter", "mixer"} |-> IF c = "mixer" THEN "mixer" ELSE "metadata"]
MCVersion == [c \in {"camera", "filter", "mixer"} |-> IF c = "camera" THEN <<"v1", "v2">> ELSE <<"v1">>]

camera1 == meta("my-camera", "cam", "cam",
    None,
    <<of(0, pub("out", rel("image"))), of(0, pub("out", rel("image"))),
      of(0, ent("service_server", "shot", rel("shot"), [image EXCEPT !.kind = "service"], None)),
      of(0, ent("action", "act", rel("act"), image, None))>>,
    <<cbk("tick", "fast"), cbk("tick", "slow")>>)
camera2 == meta("my-camera", "cam", "cam",
    <<node("n", None, <<"cam">>)>>,
    <<pub("out", rel("image")), pub("state", Named("private", <<"state">>)),
      sub("ctl", rel("ctl"), "on_ctl"), timer("tick")>>,
    <<cbk("tick", "fast"), cbk("on_ctl", "slow")>>)
filter1 == [meta("filter", "filter", None, <<>>, <<>>, <<>>) EXCEPT !.params = {"gain"}]
mixer1 == meta("mixer", "mixer_node", "mixer",
    <<node("left", <<"side">>, <<"left">>), node("right", None, <<"right">>)>>,
    <<pub("l", rel("mixed")), sub("a", Named("absolute", <<"image">>), "on_a"),
      of(2, sub("b", rel("raw"), "on_b")), of(2, sub("b2", rel("image"), "on_b")),
      of(2, sub("c", Named("absolute", <<"side", "mixed">>), "on_c")), of(2, pub("out", rel("clean"))),
      of(2, ent("service_server", "reset", rel("reset"), reset, "on_reset")),
      of(0, ent("service_client", "old", rel("reset"), reset, None))>>,
    <<cbk("on_a", "slow"), cbk("on_b", "fast"), cbk("on_c", "slow"),
      [cbk("on_reset", "slow") EXCEPT !.effects = {"out"}]>>)

MCArtifact == [c \in {"camera", "filter", "mixer"} |->
    CASE c = "camera" -> ("v1" :> camera1 @@ "v2" :> camera2)
      [] c = "filter" -> ("v1" :> filter1)
      [] c = "mixer" -> ("v1" :> mixer1)]
MCSynthetic == <<table("box"), table("filter")>>

MCSanitize == [x \in {"my-camera", "cam", "filter", "mixer", "box", "stock-box", "stock_box",
                      "component_container", "echo"} |->
                 CASE x = "my-camera" -> "my_camera" [] x = "stock-box" -> "stock_box" [] OTHER -> x]
MCTier == {"fast"}
MCRank == [x \in {"on_a", "on_b", "on_c", "on_ctl", "on_reset", "tick"} |->
             CASE x = "on_a" -> 1 [] x = "on_b" -> 2 [] x = "on_c" -> 3
               [] x = "on_ctl" -> 4 [] x = "on_reset" -> 5 [] x = "tick" -> 6]

run(kind, package, executable, name, namespace, remaps, target) ==
    [kind |-> kind, package |-> package, executable |-> executable, name |-> name,
     namespace |-> namespace, remaps |-> remaps, target |-> target, params |-> {}]
launched(package, executable, namespace, remaps) ==
    run("node", package, executable, None, namespace, remaps, None)
load(package, executable, target) ==
    run("load_node", package, executable, <<executable>>, <<>>, <<>>, target)
stock(package) == run("container", package, "component_container", None, <<>>, <<>>, None)
boxIn(namespace) == run("container", "box", "box", <<"box">>, namespace, <<>>, None)
record(containers, nodes, loads) ==
    [container |-> containers, node |-> nodes, load_node |-> loads]
to(x, y) == [from |-> x, to |-> y]

MCLaunches == launches
MCRecord == [l \in {"pipeline", "ring", "boxes"} |->
    CASE l = "pipeline" ->
          record(<<>>, <<launched("my-camera", "cam", <<"a">>, <<>>),
                         launched("mixer", "mixer", <<"a">>, <<>>),
                         launched(None, "echo", <<>>, <<>>)>>, <<>>)
      [] l = "ring" ->
          record(<<>>, <<launched("my-camera", "cam", <<>>, <<to(rel("ctl"), rel("clean"))>>),
                         launched("mixer", "mixer", <<>>, <<to(rel("raw"), rel("clean"))>>)>>, <<>>)
      [] l = "boxes" ->
          record(<<[stock("stock-box") EXCEPT !.params = {"gain"}], stock("stock_box"),
                   boxIn(<<"a">>), boxIn(<<"b">>)>>,
                 <<launched("mixer", "mixer", <<>>, <<>>), launched("filter", "filter", <<"a">>, <<>>)>>,
                 <<load("my-camera", "cam", Named("absolute", <<"a", "box">>)),
                   load("filter", "filter", Named("absolute", <<"b", "box">>)),
                   load("my-camera", "cam", rel("box"))>>)]
\* The pipeline's manifest names the endpoints of the second camera and of the mixer.
req(role, name, interface, n) == [role |-> role, name |-> name, interface |-> interface, node |-> n]
MCManifest == [l \in {"pipeline", "ring", "boxes"} |->
    IF l # "pipeline" THEN {}
    ELSE {req("publisher", <<"a", "image">>, <<"msgs", "Image">>, <<"a", "cam">>)}
         \cup {req("publisher", x, None, None) :
                 x \in {<<"a", "a", "cam", "state">>, <<"side", "mixed">>, <<"a", "clean">>}}
         \cup {req("subscriber", x, <<"msgs", "Image">>, None) :
                 x \in {<<"a", "ctl">>, <<"image">>, <<"a", "raw">>, <<"a", "image">>, <<"side", "mixed">>}}
         \cup {req(x, <<"a", "reset">>, None, None) : x \in {"service_server", "service_client"}}]
=============================================================================
