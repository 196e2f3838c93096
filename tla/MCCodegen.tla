------------------------------ MODULE MCCodegen ------------------------------
(* What nros generates code from and what the generated code does, each in   *)
(* behaviours of its own: interface files (iface), the bindings of a set of  *)
(* packages (bindings), the bake tree of a C system (bake), a system's       *)
(* program (program) and its topic relay (relay), which runs in the          *)
(* executor's callbacks and shares no state with the rest.                   *)
EXTENDS MCRosInterface, MCBindingGeneration, MCProgram, MCSystemBake

VARIABLE part

vars == <<part, riVars, bgVars, gsVars, bfVars, sbVars>>

Init ==
    /\ part \in {"iface", "bindings", "program", "relay", "bake"}
    /\ part # "iface" => kind = "msg" /\ file = <<>>
    /\ part # "bindings" => world = CHOOSE w \in Worlds : TRUE
    /\ part # "program" => plan = CHOOSE p \in Plans : TRUE
    /\ part # "relay" => build = CHOOSE any \in Builds : TRUE
    /\ part # "bake" => ws = OwnBringup
    /\ SbInit /\ RiInit /\ BgInit /\ GsInit /\ BfInit

Next ==
    /\ UNCHANGED part
    /\ \/ part = "iface" /\ RiNext /\ UNCHANGED <<bgVars, gsVars, bfVars, sbVars>>
       \/ part = "bindings" /\ BgNext /\ UNCHANGED <<riVars, gsVars, bfVars, sbVars>>
       \/ part = "program" /\ GsNext /\ UNCHANGED <<riVars, bgVars, bfVars, sbVars>>
       \/ part = "relay" /\ BfNext /\ UNCHANGED <<riVars, bgVars, gsVars, sbVars>>
       \/ part = "bake" /\ SbNext /\ UNCHANGED <<riVars, bgVars, gsVars, bfVars>>

Spec == Init /\ [][Next]_vars /\ GsFairness

\* These projects rename no package to another's name, and no two alike.
ASSUME RenamesApart

-----------------------------------------------------------------------------
\* What is generated for a message carries its values from language to language,
\* through the buffer it is published from.
ValuesTravel == SameValueArrives /\ FlatFits

\* Both parsers read what an interface file says, and the same.
InterfacesParsed == LineByLine /\ TwoParsersAgree

\* Every name generated code refers to is declared by its crate, and is a crate there is.
NamesResolve == NamesAreDeclared /\ CratesResolve
=============================================================================
