---------------------------- MODULE PackageIndex ----------------------------
(***************************************************************************)
(* nros-build's index of a workspace's packages: where the workspace root  *)
(* is (detect_workspace_root), the walk that finds every package.xml below *)
(* it, and the copy of the result a build script keeps in its OUT_DIR and  *)
(* reuses while it looks fresh (build_pkg_index, load_cache_if_fresh).     *)
(*                                                                         *)
(* Between two builds users edit, move and remove package.xml files, add   *)
(* and remove ignore markers, and move the markers of the root.            *)
(***************************************************************************)
EXTENDS Naturals, FiniteSets, FiniteSetsExt, Functions

CONSTANTS
    Dirs,       \* directories of the file system the walk can meet
    Parent,     \* directory -> set of its parent (empty at the top)
    XmlNames,      \* package names; "" is a package.xml without a name
    Scripts,     \* directories a build script may run in
    Trees,       \* what the first build may find: [xml, marks, override]
    MaxEdits    \* bound: edits of the tree

(* A directory has one package.xml at most; no two writes have one time.  *)
ASSUME IndexAssumption ==
    /\ MaxEdits \in Nat /\ Scripts \subseteq Dirs /\ IsFiniteSet(Dirs)
    /\ \A tree \in Trees :
          /\ DOMAIN tree.xml = Dirs
          /\ \A d \in Dirs : \A x \in tree.xml[d] :
                /\ tree.xml[d] = {x} /\ x.mtime \notin 1..MaxEdits
                /\ \A e \in Dirs : \A y \in tree.xml[e] : x.mtime = y.mtime => x.name = y.name

VARIABLES
    xml,      \* directory -> set of at most one [name, mtime]
    ignored,  \* directories with COLCON_IGNORE or .nros-ignore
    marks,    \* kind of root marker -> directories that carry it
    override, \* NROS_WORKSPACE_ROOT: a set of at most one directory
    cache,    \* build script -> set of at most one [root, entries] in OUT_DIR
    found,    \* build script -> what its last call returned, {} after an edit
    edits     \* edits made; also the clock of the mtimes

piVars == <<xml, ignored, marks, override, cache, found, edits>>

Ancestors(d) ==
    LET up[n \in 0..Cardinality(Dirs)] ==
            IF n = 0 THEN {d} ELSE up[n - 1] \cup UNION {Parent[p] : p \in up[n - 1]}
    IN  up[Cardinality(Dirs)]

(* The nearest ancestor that carries a marker, the walk's first hit. *)
WalkAncestors(d, kind) ==
    {a \in Ancestors(d) \cap marks[kind] :
        \A b \in Ancestors(d) \cap marks[kind] : a \in Ancestors(b)  => a = b}

(* The override, else one pass over all ancestors for each kind of marker  *)
(* in turn; {} when there is none.                                         *)
DetectWorkspaceRoot(d) ==
    LET colcon == WalkAncestors(d, "colcon")
        cargo == WalkAncestors(d, "cargo")
    IN  IF override # {} THEN override
        ELSE IF colcon # {} THEN colcon
        ELSE IF cargo # {} THEN cargo
        ELSE WalkAncestors(d, "git")

(* The directories of package.xml files the walk meets: no directory       *)
(* between the root, which is never ignored itself, and the file is.       *)
PackageXmls(root) ==
    {d \in Dirs : /\ xml[d] # {} /\ root \in Ancestors(d)
                  /\ \A a \in Ancestors(d) \ Ancestors(root) : a \notin ignored}

NameOf(d) == (CHOOSE x \in xml[d] : TRUE).name
MtimeOf(d) == (CHOOSE x \in xml[d] : TRUE).mtime

(* A package.xml without a name or a name used twice fails the build. *)
Buildable(root) ==
    LET ds == PackageXmls(root)
    IN  \A d \in ds : NameOf(d) # "" /\ \A e \in ds : NameOf(d) = NameOf(e) => d = e

Entries(root) == {[name |-> NameOf(d), dir |-> d] : d \in PackageXmls(root)}
Stamped(root) ==
    {[name |-> NameOf(d), dir |-> d, mtime |-> MtimeOf(d)] : d \in PackageXmls(root)}

(* Same root, as many entries as files found, and the file of each entry   *)
(* still there with its mtime; that the walk still meets it is not asked.  *)
FreshUncounted(kept, root) ==
    /\ kept.root = root
    /\ \A e \in kept.entries : xml[e.dir] # {} /\ MtimeOf(e.dir) = e.mtime

LoadCacheIfFresh(kept, root) ==
    /\ kept.root = root
    /\ Cardinality(kept.entries) = Cardinality(PackageXmls(root))
    /\ \A e \in kept.entries : xml[e.dir] # {} /\ MtimeOf(e.dir) = e.mtime

Returned(s, answer) == found' = [found EXCEPT ![s] = {answer}]
Unchanged == UNCHANGED <<xml, ignored, marks, override, edits>>

(* A build script in s asks for the index, with its OUT_DIR. *)
BuildPkgIndex(s) ==
    /\ \E root \in DetectWorkspaceRoot(s) :
          LET fresh == {c \in cache[s] : LoadCacheIfFresh(c, root)}
          IN  IF fresh # {}
              THEN /\ \E c \in fresh : Returned(s, [ok |-> TRUE, root |-> root,
                             entries |-> {[name |-> e.name, dir |-> e.dir] : e \in c.entries}])
                   /\ UNCHANGED cache
              ELSE IF ~Buildable(root)
              THEN Returned(s, [ok |-> FALSE, root |-> root, entries |-> {}])
                   /\ UNCHANGED cache
              ELSE /\ Returned(s, [ok |-> TRUE, root |-> root, entries |-> Entries(root)])
                   /\ cache' = [cache EXCEPT ![s] = {[root |-> root, entries |-> Stamped(root)]}]
    /\ Unchanged

NoWorkspaceRoot(s) ==
    /\ DetectWorkspaceRoot(s) = {}
    /\ Returned(s, [ok |-> FALSE, root |-> s, entries |-> {}])
    /\ UNCHANGED cache /\ Unchanged

Editing ==
    /\ edits < MaxEdits /\ edits' = edits + 1
    /\ found' = [s \in Scripts |-> {}]
    /\ UNCHANGED cache

WriteXml(d, name) ==
    /\ Editing
    /\ xml' = [xml EXCEPT ![d] = {[name |-> name, mtime |-> edits + 1]}]
    /\ UNCHANGED <<ignored, marks, override>>

(* mv keeps the mtime. *)
MoveXml(d, e) ==
    /\ Editing /\ xml[d] # {}
    /\ xml' = [xml EXCEPT ![d] = {}, ![e] = xml[d]]
    /\ UNCHANGED <<ignored, marks, override>>

RemoveXml(d) ==
    /\ Editing /\ xml[d] # {}
    /\ xml' = [xml EXCEPT ![d] = {}]
    /\ UNCHANGED <<ignored, marks, override>>

ToggleIgnore(d) ==
    /\ Editing
    /\ ignored' = IF d \in ignored THEN ignored \ {d} ELSE ignored \cup {d}
    /\ UNCHANGED <<xml, marks, override>>

ToggleMark(kind, d) ==
    /\ Editing
    /\ marks' = [marks EXCEPT ![kind] = IF d \in @ THEN @ \ {d} ELSE @ \cup {d}]
    /\ UNCHANGED <<xml, ignored, override>>

PiInit ==
    /\ \E tree \in Trees : xml = tree.xml /\ marks = tree.marks /\ override = tree.override
    /\ ignored = {} /\ edits = 0
    /\ cache = [s \in Scripts |-> {}] /\ found = [s \in Scripts |-> {}]

PiNext ==
    \/ \E s \in Scripts : BuildPkgIndex(s) \/ NoWorkspaceRoot(s)
    \/ \E d \in Dirs :
          \/ \E n \in XmlNames : WriteXml(d, n)
          \/ \E e \in Dirs \ {d} : MoveXml(d, e)
          \/ RemoveXml(d) \/ ToggleIgnore(d)
          \/ \E kind \in DOMAIN marks : ToggleMark(kind, d)

PiSpec == PiInit /\ [][PiNext]_piVars

(* An entry of the cache that the walk would no longer meet. *)
Hidden(s) ==
    \E c \in cache[s], e \in UNION {k.entries : k \in cache[s]} :
        e.dir \notin PackageXmls(c.root)

(* An index a build script gets is the one a walk would give now, and it   *)
(* is refused exactly when that walk would refuse it, whatever was moved,  *)
(* renamed, added or removed since the copy in OUT_DIR was written; except *)
(* after a package it lists was hidden by an ignore marker, which neither  *)
(* changes an mtime nor, when another package came, the count.             *)
IndexIsCurrent ==
    \A s \in Scripts : \A a \in found[s] :
        Hidden(s) \/
        /\ a.ok => a.entries = Entries(a.root) /\ Buildable(a.root)
        /\ ~a.ok => DetectWorkspaceRoot(s) = {} \/ ~Buildable(a.root)

=============================================================================
