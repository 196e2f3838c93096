------------------------------ MODULE MCStore -------------------------------
(* The store and the sources for TLC, each in behaviours of its own: they   *)
(* share the processes but no state.  gccA and gccB are two versions of one *)
(* tool that differ after the last dot (1.7.2, 1.7.3); qemu builds from     *)
(* source, sim from a recipe without an install step; west has no recipe    *)
(* for this host.  There is one source per way of fetching: a shallow and a *)
(* full clone, a shallow submodule, and one without a fetch step.           *)
EXTENDS SdkStore, SourceProvision

CONSTANTS a, b, c, gccA, gccB, qemu, sim, west, zephyr, lvgl, px4, local

VARIABLE part

MCScratch == {"gcc", "qemu", "sim", "west"}
MCScratchOf == [p \in Prefix |-> CASE p \in {gccA, gccB} -> "gcc"
                                   [] p = qemu -> "qemu"
                                   [] p = sim -> "sim"
                                   [] p = west -> "west"]
MCRecipe == [p \in Prefix |-> CASE p \in {gccA, gccB} -> "prebuilt"
                                [] p \in {qemu, sim} -> "source"
                                [] p = west -> "none"]
MCBuildSteps == [p \in Prefix |-> CASE p = qemu -> {"configure", "install"}
                                    [] p = sim -> {"configure"}
                                    [] OTHER -> {}]

\* Nobody else touches a scratch name of mine.
WorkApart == [q \in Proc |-> IF q = a THEN {gccA, sim} ELSE {qemu, west}]
\* Two workspaces pin two versions of one tool.
WorkVersions == [q \in Proc |-> IF q = a THEN {gccA} ELSE {gccB}]

MCMode == [s \in Source |-> CASE s \in {zephyr, lvgl} -> "clone"
                              [] s = px4 -> "submodule"
                              [] OTHER -> "none"]
MCShallow == {zephyr, px4} \cap Source
MCRecursive == {zephyr, px4} \cap Source

vars == <<part, storeVars, provVars>>

BothInit ==
    /\ part \in {"tools", "sources"}
    /\ Init /\ SpInit
    /\ part = "tools" => \A s \in Source : dest[s] = "absent"

BothNext ==
    /\ UNCHANGED part
    /\ \/ part = "tools" /\ Next /\ UNCHANGED provVars
       \/ part = "sources" /\ SpNext /\ UNCHANGED storeVars

\* The callers ask again for every tool and every submodule, and from some day
\* on nothing fails and nobody kills nros.
Eventually ==
    /\ <>[][part = "tools" => CalmNext]_vars
    /\ <>[][part = "sources" => SpCalmNext]_vars
    /\ \A q \in Proc :
          /\ WF_vars(part = "tools" /\ (Progress(q) \/ BrokenByOthers(q) \/ Return(q)) /\ UNCHANGED <<part, provVars>>)
          /\ WF_vars(part = "sources" /\ (Git(q) \/ Take(q)) /\ UNCHANGED <<part, storeVars>>)
          /\ \A p \in Work[q] :
                SF_vars(part = "tools" /\ Plan(q, p) /\ UNCHANGED <<part, provVars>>)
    /\ \A s \in Source : Mode[s] = "submodule" =>
          SF_vars(part = "sources" /\ (\E q \in Runner : Begin(q, s)) /\ UNCHANGED <<part, storeVars>>)

FairBoth == BothInit /\ [][BothNext]_vars /\ Eventually

CalmBoth ==
    /\ BothInit /\ part = "tools"
    /\ [][CalmNext /\ UNCHANGED <<part, provVars>>]_vars

\* Whatever a failed or killed run leaves behind, retrying installs the tool
\* (RetrySucceeds) and repairs a submodule (SubmoduleHeals).
RetriesHeal ==
    /\ part = "tools" => RetrySucceeds
    /\ part = "sources" => SubmoduleHeals
=============================================================================
