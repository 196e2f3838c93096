------------------------------- MODULE WsSync -------------------------------
(***************************************************************************)
(* `nros ws sync`, `nros ws clean` and the freshness check (cmd/ws.rs): a  *)
(* command scans a colcon workspace or one package with its path           *)
(* dependencies, generates a crate for each interface package they need    *)
(* (rosidl-bindgen's generate_package) and writes the block of [patch]     *)
(* rows into the manifests cargo reads.  Between commands the user edits   *)
(* interface files, package.xml files and the manifests.                   *)
(***************************************************************************)
EXTENDS PatchBlock

CONSTANTS
    Pkg,          \* packages with a package.xml
    Msg,          \* those with interface files
    Rust,         \* those with a Cargo.toml
    Ament,        \* interface packages installed under AMENT_PREFIX_PATH
    Members,      \* packages in src/ of the colcon workspace
    PathDeps,     \* package -> packages its Cargo.toml has path dependencies on
    Unseen,       \* package -> those of them not written on one line of a table
                  \* of dependencies, or only reached by crates without package.xml
    DepChoices,   \* package -> what its <depend> rows may name; at first, all of it
    Uses,         \* interface package -> version -> packages its files name
    Root,         \* where the commands are run: Top, or a package
    Top,          \* the colcon workspace
    Workspace,    \* manifests with a [workspace] table
    Sorted,       \* the interface packages in the order of their names
    Runtime,      \* the runtime crates found in the nano-ros tree
    Manifests,    \* manifest -> its text at first
    UserLines,    \* manifest -> lines a user may add to it
    MaxVersion,   \* bound on the edits of a package's interface files
    Budget,       \* bound on edits, failures and kills together
    Habits,       \* sets of these that may happen in one behaviour
    None,         \* no such file
    Partial       \* a file or directory somebody began to write

Iface == Msg \cup Ament
Version == 0 .. MaxVersion
File == DOMAIN Manifests

\* What can be reached from P along `next` in at most n steps.
Reach(P, next, n) ==
    LET more[k \in 0 .. n] ==
            IF k = 0 THEN P
            ELSE LET last == more[k - 1] IN last \cup UNION {next[p] : p \in last}
    IN  more[n]

Far == Cardinality(Pkg \cup Ament)

\* Path dependencies that form a cycle make the scan recurse for ever.
ASSUME WsConstants ==
    /\ Msg \subseteq Pkg /\ Rust \subseteq Pkg /\ Members \subseteq Pkg
    /\ IsFiniteSet(Pkg \cup Ament) /\ Pkg \cap Ament = {}
    /\ PathDeps \in [Pkg -> SUBSET Pkg]
    /\ \A p \in Pkg : /\ PathDeps[p] # {} => p \in Rust
                      /\ p \notin Reach(PathDeps[p], PathDeps, Far)
                      /\ Unseen[p] \subseteq PathDeps[p]
    /\ DepChoices \in [Pkg \cup Ament -> SUBSET SUBSET (Pkg \cup Ament)]
    /\ \A p \in Pkg \cup Ament : UNION DepChoices[p] \in DepChoices[p]
    /\ Uses \in [Iface -> [Version -> SUBSET Iface]]
    /\ Root \subseteq Pkg \cup {Top} /\ Top \notin Pkg
    /\ Rust \subseteq File /\ File \subseteq Rust \cup {Top}
    /\ Workspace \subseteq File
    /\ ToSet(Sorted) = Iface /\ Len(Sorted) = Cardinality(Iface)
    /\ MaxVersion \in Nat /\ Budget \in Nat
    /\ UNION Habits \subseteq {"edit", "delete", "depend", "insert", "remove", "fail",
                                "kill", "kill save", "kill clean"}

VARIABLES
    version,   \* version of a package's interface files
    deps,      \* the <depend> rows of its package.xml
    gen,       \* the crates under a root's generated/: code and Cargo.toml
    newer,     \* some interface file is younger than the generated Cargo.toml
    manifest,  \* texts of the Cargo.toml files
    cmd,       \* the command that runs
    pc,        \* what it does next
    root,      \* where it runs
    todo,      \* packages not yet generated, in order
    files,     \* manifests not yet written
    file,      \* the manifest being written
    body,      \* its text as it was read
    text,      \* the text being written, of a manifest or a generated Cargo.toml
    synced,    \* the root of the last sync, if it was Ok and nothing changed since
    habit,     \* what may happen besides the commands
    events,    \* what has happened so far
    spent      \* how often

source == <<version, deps>>
target == <<files, file, body>>
command == <<cmd, pc, root, todo, target, text>>
record == <<habit, events, spent>>
wsVars == <<source, gen, newer, manifest, command, synced, record>>

Crate == [code : Version \cup {None, Partial}, toml : Seq(Iface) \cup {None, Partial}]
NoCrate == [code |-> None, toml |-> None]

WsInit ==
    /\ version = [i \in Iface |-> 0]
    /\ deps = [p \in Pkg \cup Ament |-> UNION DepChoices[p]]
    /\ gen = [r \in Root |-> [i \in Iface |-> NoCrate]]
    /\ newer = [r \in Root |-> [i \in Iface |-> FALSE]]
    /\ manifest = Manifests
    /\ cmd = "none" /\ pc = "out" /\ root = None
    /\ todo = <<>> /\ files = {}
    /\ file = None /\ body = <<>> /\ text = <<>>
    /\ habit \in Habits
    /\ synced = None /\ events = {} /\ spent = 0

Happens(event) ==
    /\ event \in habit /\ events' = events \cup {event}
    /\ spent < Budget /\ spent' = spent + 1
    /\ synced' = None
    /\ UNCHANGED habit

-----------------------------------------------------------------------------
(* What a command finds in the workspace.                                  *)

\* extract_cargo_path_deps goes by lines.
Seen == [p \in Pkg |-> PathDeps[p] \ Unseen[p]]

\* scan_workspace; scan_one_pkg_dir with what it reaches by path.
Scan == [r \in Root |-> IF r = Top THEN Members ELSE Reach({r}, Seen, Far)]

\* Each pass adds to a package what the packages it has by path had before it.
Passed(r, n) ==
    LET found[k \in 0 .. n] ==
            IF k = 0 THEN [p \in Scan[r] |-> deps[p]]
            ELSE LET last == found[k - 1]
                 IN  [p \in Scan[r] |->
                        last[p] \cup UNION {last[q] : q \in Seen[p] \cap Scan[r]}]
    IN  found[n]

\* Mutant: one pass fewer.
PassesOneFewer(r) == Passed(r, 3)

\* augment_rust_consumer_deps_via_path_deps stops after four passes.
Augmented(r) == Passed(r, 4)

\* topo_sort_msg_pkgs finds an order.
Sortable(r) ==
    \A S \in SUBSET (Scan[r] \cap Msg) \ {{}} : \E p \in S : Augmented(r)[p] \cap S = {}

\* codegen_ament_deps_for: what is installed, with what that depends on.
Installed(r, P) ==
    LET known == Ament \ Scan[r]
    IN  Reach(P \cap known, [p \in Pkg \cup Ament |-> deps[p] \cap known], Far)

\* Packages whose manifest is for cargo to start from.
Consumers(r) == {p \in Scan[r] \cap (Rust \ Msg) : r = Top \/ p = r}

\* All that a sync generates.
Emitted(r) ==
    LET msgs == Scan[r] \cap Msg
    IN  msgs \cup Installed(r, UNION {Augmented(r)[p] : p \in msgs \cup Consumers(r)})

\* The orders it generates them in: a package of the workspace after what it needs,
\* an installed one after one that needs it if nothing in the workspace does; what
\* only consumers need comes last.
Orders(r) ==
    LET all == Augmented(r)
        msgs == Scan[r] \cap Msg
        needs == [m \in msgs |-> (all[m] \cap msgs) \cup Installed(r, all[m])]
        Precedes(order, i, j) ==
            \E a, b \in DOMAIN order : a < b /\ order[a] = i /\ order[b] = j
        direct == UNION {all[p] : p \in Scan[r]}
    IN  {order \in SetToSeqs(Emitted(r)) :
            /\ \A m \in msgs :
                  /\ \A i \in needs[m] : Precedes(order, i, m)
                  /\ \A i \in Emitted(r) \ UNION {needs[n] \cup {n} : n \in msgs} :
                        Precedes(order, m, i)
            /\ \A i \in (Emitted(r) \ msgs) \ direct :
                  \E j \in Ament : i \in deps[j] /\ Precedes(order, j, i)}

\* find_patch_authority, for packages directly under src/: a [workspace] of its own,
\* or that of the directory the command runs in.
Authority(r, p) == IF p \notin Workspace /\ r \in Workspace THEN r ELSE p

\* render_patch_block.
Managed(r) ==
    LET crates == SelectSeq(Sorted, LAMBDA i : i \in Emitted(r))
    IN  [k \in DOMAIN crates |-> Row(crates[k], <<r, crates[k]>>)]
          \o [k \in DOMAIN Runtime |-> Row(Runtime[k], <<Runtime[k]>>)]

-----------------------------------------------------------------------------
(* The commands.                                                           *)

Ends(ok) ==
    /\ cmd' = "none" /\ pc' = "out" /\ root' = None
    /\ todo' = <<>> /\ files' = {}
    /\ file' = None /\ body' = <<>> /\ text' = <<>>
    /\ synced' = IF ok /\ cmd = "sync" THEN root ELSE None

StartSync(r) ==
    /\ cmd = "none" /\ Sortable(r)
    /\ cmd' = "sync" /\ pc' = "generate" /\ root' = r
    /\ todo' \in Orders(r)
    /\ synced' = None
    /\ UNCHANGED <<source, gen, newer, manifest, target, text, record>>

\* The package whose crate is next.
Current == Head(todo)
CurrentText == SetToSeqs(Uses[Current][version[Current]])

\* Mutant: the Cargo.toml is written first.
TomlFirst ==
    /\ pc = "generate" /\ todo # <<>>
    /\ IF gen[root][Current].code = version[Current]
       THEN pc' = "toml" /\ UNCHANGED <<gen, newer>>
       ELSE /\ pc' = "code"
            /\ gen' = [gen EXCEPT ![root][Current] =
                          [code |-> Partial, toml |-> CHOOSE s \in CurrentText : TRUE]]
            /\ newer' = [newer EXCEPT ![root][Current] = FALSE]
    /\ UNCHANGED <<source, manifest, cmd, root, todo, target, text, synced, record>>

\* generate_package writes the files of the interfaces that differ ...
CodeBegins ==
    /\ pc = "generate" /\ todo # <<>>
    /\ IF gen[root][Current].code = version[Current]
       THEN pc' = "toml" /\ UNCHANGED gen
       ELSE pc' = "code" /\ gen' = [gen EXCEPT ![root][Current].code = Partial]
    /\ UNCHANGED <<source, newer, manifest, cmd, root, todo, target, text, synced, record>>

CodeEnds ==
    /\ pc = "code" /\ pc' = "toml"
    /\ gen' = [gen EXCEPT ![root][Current].code = version[Current]]
    /\ UNCHANGED <<source, newer, manifest, cmd, root, todo, target, text, synced, record>>

\* ... then the Cargo.toml, if its text differs; its dependencies come out of a
\* HashSet in any order.
TomlBegins ==
    /\ pc = "toml"
    /\ \E order \in CurrentText :
          IF gen[root][Current].toml = order
          THEN pc' = "generate" /\ todo' = Tail(todo) /\ UNCHANGED <<gen, newer, text>>
          ELSE /\ pc' = "toml save" /\ text' = order
               /\ gen' = [gen EXCEPT ![root][Current].toml = Partial]
               /\ newer' = [newer EXCEPT ![root][Current] = FALSE]
               /\ UNCHANGED todo
    /\ UNCHANGED <<source, manifest, cmd, root, target, synced, record>>

TomlEnds ==
    /\ pc = "toml save" /\ pc' = "generate"
    /\ gen' = [gen EXCEPT ![root][Current].toml = text]
    /\ todo' = Tail(todo) /\ text' = <<>>
    /\ UNCHANGED <<source, newer, manifest, cmd, root, target, synced, record>>

\* An interface file that does not parse, a full disk.
GenerateFails ==
    /\ pc = "code" /\ Happens("fail")
    /\ Ends(FALSE)
    /\ UNCHANGED <<source, gen, newer, manifest>>

\* Everything is generated: the manifests are next, if there is a consumer.
AllGenerated ==
    /\ pc = "generate" /\ todo = <<>>
    /\ IF Consumers(root) = {} THEN Ends(TRUE)
       ELSE /\ pc' = "patch"
            /\ files' = {Authority(root, c) : c \in Consumers(root)}
            /\ UNCHANGED <<cmd, root, todo, file, body, text, synced>>
    /\ UNCHANGED <<source, gen, newer, manifest, record>>

StartClean(r) ==
    /\ cmd = "none"
    /\ cmd' = "clean" /\ pc' = "wipe" /\ root' = r
    /\ synced' = None
    /\ UNCHANGED <<source, gen, newer, manifest, todo, target, text, record>>

HasBlock(f) == Has(manifest[f], BeginMark) /\ Has(manifest[f], EndMark)

\* generated/ goes, then the blocks of the Rust packages' manifests that have one.
Wipe ==
    /\ pc = "wipe"
    /\ gen' = [gen EXCEPT ![root] = [i \in Iface |-> NoCrate]]
    /\ newer' = [newer EXCEPT ![root] = [i \in Iface |-> FALSE]]
    /\ LET blocks == {f \in {Authority(root, p) : p \in Scan[root] \cap Rust} : HasBlock(f)} IN
          IF blocks = {} THEN Ends(TRUE)
          ELSE /\ pc' = "patch" /\ files' = blocks
               /\ UNCHANGED <<cmd, root, todo, file, body, text, synced>>
    /\ UNCHANGED <<source, manifest, record>>

\* What is left to do when a manifest is done.
FileDone(f) ==
    IF files = {f} THEN Ends(TRUE)
    ELSE /\ files' = files \ {f} /\ pc' = "patch" /\ file' = None
         /\ body' = <<>> /\ text' = <<>>
         /\ UNCHANGED <<cmd, root, todo, synced>>

\* write_patch_block, run_clean: fs::write truncates the file it has read ...
WriteBegins(f) ==
    /\ pc = "patch" /\ f \in files
    /\ file' = f /\ body' = manifest[f] /\ pc' = "save"
    /\ text' = IF cmd = "sync" THEN Splice(manifest[f], Managed(root))
               ELSE Unsplice(manifest[f])
    /\ manifest' = [manifest EXCEPT ![f] = <<>>]
    /\ UNCHANGED <<cmd, root, todo, files, synced, source, gen, newer, record>>

\* ... and then writes it.
WriteEnds ==
    /\ pc = "save"
    /\ manifest' = [manifest EXCEPT ![file] = text]
    /\ FileDone(file)
    /\ UNCHANGED <<source, gen, newer, record>>

\* The command is interrupted between writes of the user's manifests ...
Kill ==
    /\ cmd # "none" /\ pc \notin {"wipe", "save"} /\ Happens("kill")
    /\ Ends(FALSE)
    /\ UNCHANGED <<source, gen, newer, manifest>>

\* ... or in one: the manifest keeps the lines that were written.
KillSave ==
    /\ pc = "save" /\ Happens("kill save")
    /\ \E n \in 0 .. Len(text) : manifest' = [manifest EXCEPT ![file] = SubSeq(text, 1, n)]
    /\ Ends(FALSE)
    /\ UNCHANGED <<source, gen, newer>>

\* remove_dir_all is interrupted: some crates are gone, and half of one.
KillWipe ==
    /\ pc = "wipe" /\ Happens("kill clean")
    /\ \E left \in SUBSET Iface, half \in Iface, code, toml \in BOOLEAN :
          gen' = [gen EXCEPT ![root] =
                    [i \in Iface |->
                       IF i \in left THEN @[i]
                       ELSE [code |-> IF i # half \/ @[i].code = None THEN None
                                      ELSE IF code THEN @[i].code ELSE Partial,
                             toml |-> IF i = half /\ toml THEN @[i].toml ELSE None]]]
    /\ Ends(FALSE)
    /\ UNCHANGED <<source, newer, manifest>>

-----------------------------------------------------------------------------
(* The user, between commands.                                             *)

Quiet == cmd = "none"

Edit(m) ==
    /\ Quiet /\ Happens("edit")
    /\ version[m] < MaxVersion
    /\ version' = [version EXCEPT ![m] = @ + 1]
    /\ newer' = [r \in Root |-> [newer[r] EXCEPT ![m] = TRUE]]
    /\ UNCHANGED <<deps, gen, manifest, command>>

\* A deleted file leaves the others as old as they are.
Delete(m) ==
    /\ Quiet /\ Happens("delete")
    /\ version[m] < MaxVersion
    /\ version' = [version EXCEPT ![m] = @ + 1]
    /\ UNCHANGED <<deps, gen, newer, manifest, command>>

EditDeps(p) ==
    /\ Quiet /\ Happens("depend")
    /\ \E d \in DepChoices[p] \ {deps[p]} : deps' = [deps EXCEPT ![p] = d]
    /\ UNCHANGED <<version, gen, newer, manifest, command>>

\* The manifests the user edits are edited outside the block, as its first lines ask.
Insert(f) ==
    /\ Quiet /\ Happens("insert")
    /\ \E line \in UserLines[f], i \in Outside(manifest[f]) \cup {Len(manifest[f]) + 1} :
          manifest' = [manifest EXCEPT ![f] = InsertAt(@, i, line)]
    /\ UNCHANGED <<source, gen, newer, command>>

Withdraw(f) ==
    /\ Quiet /\ UserLines[f] # {} /\ Happens("remove")
    /\ \E i \in Outside(manifest[f]) :
          manifest' = [manifest EXCEPT ![f] = RemoveAt(@, i)]
    /\ UNCHANGED <<source, gen, newer, command>>

Command ==
    \/ CodeBegins \/ CodeEnds \/ TomlBegins \/ TomlEnds \/ AllGenerated \/ Wipe
    \/ \E f \in File : WriteBegins(f)
    \/ WriteEnds

WsNext ==
    \/ \E r \in Root : StartSync(r) \/ StartClean(r)
    \/ Command
    \/ GenerateFails \/ Kill \/ KillSave \/ KillWipe
    \/ \E m \in Msg : Edit(m) \/ Delete(m)
    \/ \E p \in Pkg : EditDeps(p)
    \/ \E f \in File : Insert(f) \/ Withdraw(f)

WsSpec == WsInit /\ [][WsNext]_wsVars

-----------------------------------------------------------------------------
\* Whatever the user wrote outside the block is in the manifest that is being
\* written: rows in their tables, comments above their rows, except the [patch] rows
\* for crates a sync now manages.  It still parses, the block has what the sync
\* manages, a sync of it would change nothing, and a clean leaves no block.
UserTextKept ==
    pc = "save" /\ WellMarked(body) /\ Parses(body) =>
        LET managed == IF cmd = "sync" THEN Managed(root) ELSE <<>>
            names == {line.key : line \in ToSet(managed)}
            Stays(table, line) == table # "patch" \/ line.key \notin names
        IN  /\ Parses(text)
            /\ OwnRows(text) = {x \in OwnRows(body) : Stays(x[1], x[2])}
            /\ \A n \in OwnNotes(body) : n \in OwnNotes(text) \/ n[2].key \in names
            /\ IF cmd = "sync"
               THEN /\ WellMarked(text) /\ Has(text, BeginMark)
                    /\ RowsOf(text) \ OwnRows(text) =
                          {<<"patch", x>> : x \in ToSet(managed)}
                    /\ Splice(text, managed) = text
               ELSE RowsOf(text) = OwnRows(text) /\ ~Has(text, BeginMark)

\* All crates cargo builds for a package.
Built(c) == Reach({c}, PathDeps, Far)

\* The interface packages those need, and what they need in turn.
Needed(c) ==
    LET theirs == UNION {deps[p] : p \in Built(c)}
    IN  Reach(theirs \cap Iface, [p \in Pkg \cup Ament |-> deps[p] \cap Iface], Far)

\* Where a sync can find all of them: the crates are in the workspace or, for a
\* package alone, no further than four path dependencies that the scan reads; and
\* the interface packages are installed or next to the consumer.
InSight(r, c) ==
    /\ IF r = Top THEN Built(c) \subseteq Scan[r] ELSE Built(c) = Reach({c}, Seen, 4)
    /\ Needed(c) \subseteq Ament \cup Scan[r]

\* "The patch authority for the Entry pkg then carries every msg patch the transitive
\* build needs" (run_sync).  After a sync that returned Ok, whatever came before it,
\* cargo finds every interface package a consumer needs, if all of it is in sight: the
\* manifest patches it to a crate of the current interface files, whose own
\* dependencies are generated next to it.
SyncedBuilds ==
    synced # None =>
        \A c \in {c \in Consumers(synced) : InSight(synced, c)} :
            LET lines == manifest[Authority(synced, c)] IN
            Parses(lines) =>
                \A i \in Needed(c) :
                    /\ <<"patch", Row(i, <<synced, i>>)>> \in RowsOf(lines)
                    /\ gen[synced][i].code = version[i]
                    /\ gen[synced][i].toml \in SetToSeqs(Uses[i][version[i]])
                    /\ \A d \in Uses[i][version[i]] :
                          gen[synced][d].toml \notin {None, Partial}

\* check_freshness, run_status: what they call up to date.
UpToDate(r, m) == gen[r][m].toml # None /\ ~newer[r][m]

\* A package that is called up to date has code of the current interface files,
\* also between the steps of a sync and after one that was cut short, unless an
\* interface file was deleted or a clean interrupted.
FreshMeansCurrent ==
    events \cap {"delete", "kill clean"} = {} =>
        \A r \in Root : \A m \in Scan[r] \cap Msg :
            UpToDate(r, m) => gen[r][m].code = version[m]

\* "some pkgs stale - run `nros ws sync` first": after a sync nothing is stale.
CheckPassesAfterSync ==
    synced # None => \A m \in Scan[synced] \cap Msg : UpToDate(synced, m)
=============================================================================
