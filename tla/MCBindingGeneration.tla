------------------------ MODULE MCBindingGeneration ------------------------
(***************************************************************************)
(* Six packages in alphabetical order: actions (an action that names       *)
(* builtin), builtin, common (no interface files of its own), drive, geo   *)
(* and std.  Files are a message, a service and an action.                 *)
(***************************************************************************)
EXTENDS BindingGeneration

CONSTANTS plain, ofGeo, ofStd, labelled, bad, newGeo, newStd

actions == 1
builtin == 2
common == 3
drive == 4
geo == 5
std == 6

MCPkg == 1..6
MCNewName == {newGeo, newStd}
MCFile == 1..3
MCKind == <<"msg", "srv", "action">>
MCUses == [t \in Text |-> IF t = ofGeo THEN {geo} ELSE IF t \in {ofStd, labelled} THEN {std} ELSE {}]
MCInjected == {builtin}
\* labelled has a string constant before its fields, and an action's template has the
\* ' of a comment before the envelopes.
MCQuoted == [f \in MCFile |-> [t \in Text |->
               IF t = labelled THEN {std} ELSE IF f = 3 THEN MCInjected ELSE {}]]

Msgs(deps, text) == [deps |-> deps, idl |-> FALSE, text |-> <<text, None, None>>]
Empty(deps) == [deps |-> deps, idl |-> FALSE, text |-> <<None, None, None>>]

Nothing == [p \in MCPkg |-> None]
Bundled == [Nothing EXCEPT ![builtin] = Msgs({}, plain), ![std] = Msgs({builtin}, plain)]

\* An overlay with its own std in front of an underlay.
Ros ==
    [i \in 0..2 |->
       IF i = 0 THEN Bundled
       ELSE IF i = 1 THEN [Nothing EXCEPT ![std] = Msgs({geo}, ofGeo)]
       ELSE [Nothing EXCEPT
               ![std] = Msgs({}, plain),
               ![geo] = Msgs({std}, ofStd),
               ![common] = Empty({std}),
               ![drive] = [deps |-> {geo}, idl |-> FALSE, text |-> <<ofGeo, plain, None>>]]]

\* geo and drive need std; actions needs nothing; std and builtin are ready first.
Ways ==
    [i \in 0..1 |->
       IF i = 0 THEN Bundled
       ELSE [Nothing EXCEPT
               ![actions] = Msgs({std}, ofStd), ![common] = Msgs({}, plain),
               ![drive] = [deps |-> {std, geo}, idl |-> TRUE, text |-> <<ofGeo, plain, plain>>],
               ![geo] = Msgs({std}, ofStd)]]

Ask1(langs, force, config) == [langs |-> langs, force |-> force, config |-> config]

NoRename == [p \in {} |-> None]
\* As nros_geo ends in geo.
NoTails == [d \in MCPkg \cup MCNewName |-> IF d = newGeo THEN {geo} ELSE {}]

\* A message of geo breaks, one of std is gone, geo gets a service that names nobody,
\* drive's service starts to name std or is gone.
Edits == {<<geo, 1, bad>>, <<std, 1, None>>, <<geo, 2, plain>>, <<drive, 2, ofStd>>, <<drive, 2, None>>}
XmlEdits == {<<geo, std>>, <<drive, std>>}

World(places, needs, asks) ==
    [share |-> places, needs |-> needs, renames |-> NoRename, tails |-> NoTails, asks |-> asks,
     single |-> {}, cmake |-> {}, edits |-> Edits, xmlEdits |-> XmlEdits]

Rust == Ask1(<<"rust">>, FALSE, TRUE)
C(force) == Ask1(<<"c">>, force, FALSE)
Both(force) == Ask1(<<"rust", "c">>, force, FALSE)

OnlyActions ==
    [i \in {0} |-> [Bundled EXCEPT
       ![actions] = [deps |-> {builtin}, idl |-> TRUE, text |-> <<None, None, plain>>]]]

MCWorlds ==
    {World(Ros, {drive, common}, {Rust, C(FALSE), C(TRUE)}),
     [World(Ros, {geo}, {Rust, Both(TRUE)}) EXCEPT
        !.renames = [p \in {geo, std} |-> IF p = geo THEN newGeo ELSE newStd], !.single = {geo}],
     [World(Ros, {geo}, {Rust}) EXCEPT !.renames = [p \in {std} |-> newStd]],
     World(OnlyActions, {actions}, {Both(FALSE)}),
     \* What the renames miss and what they hit: an action's envelopes, the fields behind a
     \* string constant, and std if its name ends in geo's.
     [World(OnlyActions, {actions}, {Rust}) EXCEPT
        !.renames = [p \in {actions, builtin} |-> IF p = actions THEN newGeo ELSE newStd]],
     [World([Ros EXCEPT ![2][geo] = Msgs({std}, labelled)], {geo}, {Rust}) EXCEPT
        !.renames = [p \in {geo, std} |-> IF p = geo THEN newGeo ELSE newStd]],
     [World([Ros EXCEPT ![1][std] = Msgs({}, plain)], {geo}, {Rust}) EXCEPT
        !.renames = [p \in {geo, std} |-> IF p = geo THEN newGeo ELSE newStd], !.tails[std] = {geo}],
     [World(Ways, {actions, common, drive, builtin}, {}) EXCEPT !.cmake = {"cpp"}]}
=============================================================================
