------------------------------ MODULE SdkStore ------------------------------
(***************************************************************************)
(* The shared SDK store of nros-cli-core/src/orchestration/sdk_store.rs:   *)
(* plan_install decides what a prefix needs, execute downloads, verifies   *)
(* and unpacks a prebuilt archive (or clones, configures and installs a    *)
(* source recipe) and writes the provenance marker last.  Nothing locks    *)
(* the store, so any number of nros processes run these steps at once;     *)
(* each shelled-out command may fail and each process may be killed.       *)
(***************************************************************************)
CONSTANTS
    Proc,        \* nros processes that install tools
    Prefix,      \* store prefixes $NROS_HOME/sdk/<tool>/<version>; a prefix
                 \* also names the artifact the index pins for it
    Scratch,     \* the names prefix.with_extension(..) can produce
    ScratchOf,   \* prefix -> scratch name: the extension of the VERSION is
                 \* replaced, so "1.7.2" and "1.7.3" both give "1.7.download"
    Recipe,      \* prefix -> how the index provides the tool on this host
    BuildSteps,  \* prefix -> the steps its source recipe states: both are
                 \* optional
    Work,        \* process -> the prefixes its package lists name
    Nothing,     \* no such file or directory
    Bad          \* content that is not a whole pinned artifact

ASSUME StoreConstants ==
    /\ ScratchOf \in [Prefix -> Scratch]
    /\ Recipe \in [Prefix -> {"prebuilt", "source", "none"}]
    /\ BuildSteps \in [Prefix -> SUBSET {"configure", "install"}]
    /\ Work \in [Proc -> SUBSET Prefix]
    /\ Nothing \notin Prefix
    /\ Bad \notin Prefix
    /\ Nothing # Bad

VARIABLES
    archive,     \* <stem>.download: content of the file
    writing,     \* processes whose curl has the current <stem>.download open
    srcdir,      \* <stem>.src: the clone a source recipe builds in
    tree,        \* what is unpacked or installed under the prefix
    marker,      \* <prefix>/.nros-provenance
    pc,          \* where in execute a process is
    job,         \* the prefix it installs
    read         \* the content its running tar / install step reads

diskVars == <<archive, writing, srcdir, tree, marker>>
procVars == <<pc, job, read>>
storeVars == <<archive, writing, srcdir, tree, marker, pc, job, read>>

Content == Prefix \cup {Nothing, Bad}

\* The steps of execute, named for what the process does next.
Steps == {"present", "download", "downloading", "verify", "unpack",
          "unpacking", "unlink", "mark", "marking", "wipe", "clone",
          "cloning", "configure", "install", "installing"}

\* What execute returned to its caller.
Results == {"ok", "failed", "unavailable"}

-----------------------------------------------------------------------------
Init ==
    /\ archive = [s \in Scratch |-> Nothing]
    /\ writing = [s \in Scratch |-> {}]
    /\ srcdir = [s \in Scratch |-> Nothing]
    /\ tree = [p \in Prefix |-> Nothing]
    /\ marker = [p \in Prefix |-> Nothing]
    /\ pc = [q \in Proc |-> "idle"]
    /\ job = [q \in Proc |-> Nothing]
    /\ read = [q \in Proc |-> Nothing]

Stem(q) == ScratchOf[job[q]]

\* Provenance::read: an absent marker and one that does not parse are the same.
Present(p) == marker[p] \in Prefix

Goto(q, to) == pc' = [pc EXCEPT ![q] = to]

At(q, here) == pc[q] = here

\* Any `sh` step that exits non-zero: execute returns Err, what it wrote stays.
Fail(q) == Goto(q, "failed") /\ UNCHANGED <<job, read>>

-----------------------------------------------------------------------------
(* plan_install: one look at the marker, then the index.                   *)

\* Mutant: the marker is not consulted.
PlanUnconditionally(q, p) ==
    /\ At(q, "idle")
    /\ Goto(q, CASE Recipe[p] = "prebuilt" -> "download"
                 [] Recipe[p] = "source" -> "wipe"
                 [] OTHER -> "unavailable")
    /\ job' = [job EXCEPT ![q] = p]
    /\ UNCHANGED <<read, diskVars>>

Plan(q, p) ==
    /\ At(q, "idle")
    /\ Goto(q, IF Present(p) THEN "present"
               ELSE IF Recipe[p] = "prebuilt" THEN "download"
               ELSE IF Recipe[p] = "source" THEN "wipe"
               ELSE "unavailable")
    /\ job' = [job EXCEPT ![q] = p]
    /\ UNCHANGED <<read, diskVars>>

\* InstallAction::Present reads the marker again.
ReadPresent(q) ==
    /\ At(q, "present")
    /\ Goto(q, IF Present(job[q]) THEN "ok" ELSE "failed")
    /\ UNCHANGED <<job, read, diskVars>>

\* ensure_tools and `setup --tool` do not execute what is present.
SkipPresent(q) ==
    /\ At(q, "present")
    /\ Goto(q, "idle")
    /\ job' = [job EXCEPT ![q] = Nothing]
    /\ UNCHANGED <<read, diskVars>>

-----------------------------------------------------------------------------
(* Prebuilt: curl -o, sha256sum, tar, rm.                                  *)

\* create_dir_all(prefix), then curl -o creates or truncates the archive.
Download(q) ==
    /\ At(q, "download")
    /\ tree' = [tree EXCEPT ![job[q]] = IF @ = Nothing THEN Bad ELSE @]
    /\ archive' = [archive EXCEPT ![Stem(q)] = Bad]
    /\ writing' = [writing EXCEPT ![Stem(q)] = @ \cup {q}]
    /\ Goto(q, "downloading")
    /\ UNCHANGED <<srcdir, marker, job, read>>

\* curl wrote its last byte.  A file another process unlinked meanwhile is not
\* the one at this path any more.
Received(q, bytes) ==
    /\ At(q, "downloading")
    /\ archive' = [archive EXCEPT ![Stem(q)] =
                     IF q \in writing[Stem(q)] THEN bytes ELSE @]
    /\ writing' = [writing EXCEPT ![Stem(q)] = @ \ {q}]
    /\ Goto(q, "verify")
    /\ UNCHANGED <<srcdir, tree, marker, job, read>>

Downloaded(q) == Received(q, job[q])

\* The server sent other bytes than the pinned ones.
DownloadedOther(q) == Received(q, Bad)

DownloadFails(q) ==
    /\ At(q, "downloading")
    /\ writing' = [writing EXCEPT ![Stem(q)] = @ \ {q}]
    /\ Fail(q)
    /\ UNCHANGED <<archive, srcdir, tree, marker>>

\* verify_sha256: the file at the path, as it is now, against the pinned sum.
Verify(q) ==
    /\ At(q, "verify")
    /\ Goto(q, IF archive[Stem(q)] = job[q] THEN "unpack" ELSE "failed")
    /\ UNCHANGED <<job, read, diskVars>>

\* tar opens the path again; a missing archive fails before it writes.
Unpack(q) ==
    /\ At(q, "unpack")
    /\ IF archive[Stem(q)] = Nothing
       THEN Fail(q) /\ UNCHANGED tree
       ELSE /\ read' = [read EXCEPT ![q] = archive[Stem(q)]]
            /\ tree' = [tree EXCEPT ![job[q]] = Bad]
            /\ Goto(q, "unpacking")
            /\ UNCHANGED job
    /\ UNCHANGED <<archive, writing, srcdir, marker>>

\* Somebody else is rewriting the same prefix.
Contended(q) ==
    \E r \in Proc \ {q} :
        job[r] = job[q] /\ pc[r] \in {"unpacking", "installing"}

\* The command that fills the prefix is done.  Files another process is
\* still rewriting are not whole before that one is done too.
Populate(q, next) ==
    /\ tree' = [tree EXCEPT ![job[q]] = IF Contended(q) THEN Bad ELSE read[q]]
    /\ read' = [read EXCEPT ![q] = Nothing]
    /\ Goto(q, next)
    /\ UNCHANGED <<archive, writing, srcdir, marker, job>>

Unpacked(q) ==
    /\ At(q, "unpacking")
    /\ read[q] \in Prefix
    /\ Populate(q, "unlink")

\* Mutant: the exit status of tar or of the install step is ignored.
PopulateFailureIgnored(q) ==
    /\ pc[q] \in {"unpacking", "installing"}
    /\ read' = [read EXCEPT ![q] = Nothing]
    /\ Goto(q, "mark")
    /\ UNCHANGED <<job, diskVars>>

\* A truncated archive, a full disk: the prefix keeps what was written so far.
PopulateFails(q) ==
    /\ pc[q] \in {"unpacking", "installing"}
    /\ read' = [read EXCEPT ![q] = Nothing]
    /\ Goto(q, "failed")
    /\ UNCHANGED <<job, diskVars>>

\* let _ = remove_file(archive)
Unlink(q) ==
    /\ At(q, "unlink")
    /\ archive' = [archive EXCEPT ![Stem(q)] = Nothing]
    /\ writing' = [writing EXCEPT ![Stem(q)] = {}]
    /\ Goto(q, "mark")
    /\ UNCHANGED <<srcdir, tree, marker, job, read>>

-----------------------------------------------------------------------------
(* Source: rm -rf, git clone, configure, install.                          *)

\* Mutant: the clone of an earlier attempt is left in place.
WipeSkipped(q) == At(q, "wipe") /\ Goto(q, "clone") /\ UNCHANGED <<job, read, diskVars>>

Wipe(q) ==
    /\ At(q, "wipe")
    /\ srcdir' = [srcdir EXCEPT ![Stem(q)] = Nothing]
    /\ Goto(q, "clone")
    /\ UNCHANGED <<archive, writing, tree, marker, job, read>>

\* git clone refuses a destination that is not empty.
Clone(q) ==
    /\ At(q, "clone")
    /\ IF srcdir[Stem(q)] = Nothing
       THEN /\ srcdir' = [srcdir EXCEPT ![Stem(q)] = Bad]
            /\ Goto(q, "cloning")
            /\ UNCHANGED <<job, read>>
       ELSE Fail(q) /\ UNCHANGED srcdir
    /\ UNCHANGED <<archive, writing, tree, marker>>

\* The directory is still there and nobody else clones into it.
CloneUndisturbed(q) ==
    /\ srcdir[Stem(q)] = Bad
    /\ \A r \in Proc \ {q} : ~(At(r, "cloning") /\ Stem(r) = Stem(q))

Cloned(q) ==
    /\ At(q, "cloning")
    /\ CloneUndisturbed(q)
    /\ srcdir' = [srcdir EXCEPT ![Stem(q)] = job[q]]
    /\ Goto(q, "configure")
    /\ UNCHANGED <<archive, writing, tree, marker, job, read>>

\* A failed clone may or may not clean up after itself.
CloneFails(q) ==
    /\ At(q, "cloning")
    /\ \E left \in {Nothing, srcdir[Stem(q)]} :
          srcdir' = [srcdir EXCEPT ![Stem(q)] = left]
    /\ Fail(q)
    /\ UNCHANGED <<archive, writing, tree, marker>>

HasStep(q, step) == step \in BuildSteps[job[q]]

\* A step the recipe leaves out is skipped: without an install step the marker
\* is what comes next.
Configure(q) ==
    /\ At(q, "configure")
    /\ IF HasStep(q, "configure") /\ srcdir[Stem(q)] \notin Prefix
       THEN Fail(q)
       ELSE /\ Goto(q, IF HasStep(q, "install") THEN "install" ELSE "mark")
            /\ UNCHANGED <<job, read>>
    /\ UNCHANGED diskVars

ConfigureFails(q) ==
    /\ At(q, "configure") /\ HasStep(q, "configure")
    /\ Fail(q)
    /\ UNCHANGED diskVars

Install(q) ==
    /\ At(q, "install")
    /\ IF srcdir[Stem(q)] \in Prefix
       THEN /\ read' = [read EXCEPT ![q] = srcdir[Stem(q)]]
            /\ tree' = [tree EXCEPT ![job[q]] = Bad]
            /\ Goto(q, "installing")
            /\ UNCHANGED job
       ELSE Fail(q) /\ UNCHANGED tree
    /\ UNCHANGED <<archive, writing, srcdir, marker>>

Installed(q) == At(q, "installing") /\ Populate(q, "mark")

-----------------------------------------------------------------------------
(* Provenance::write: create_dir_all(prefix), then std::fs::write, which    *)
(* truncates before it writes the content.                                 *)

Mark(q) ==
    /\ At(q, "mark")
    /\ tree' = [tree EXCEPT ![job[q]] = IF @ = Nothing THEN Bad ELSE @]
    /\ marker' = [marker EXCEPT ![job[q]] = Bad]
    /\ Goto(q, "marking")
    /\ UNCHANGED <<archive, writing, srcdir, job, read>>

Marked(q) ==
    /\ At(q, "marking")
    /\ marker' = [marker EXCEPT ![job[q]] = job[q]]
    /\ Goto(q, "ok")
    /\ UNCHANGED <<archive, writing, srcdir, tree, job, read>>

-----------------------------------------------------------------------------
\* execute's result reaches its caller, which takes up its next package.
Return(q) ==
    /\ pc[q] \in Results
    /\ Goto(q, "idle")
    /\ job' = [job EXCEPT ![q] = Nothing]
    /\ UNCHANGED <<read, diskVars>>

\* Ctrl-C, a kill, a power cut: the process and the command it runs are gone.
Crash(q) ==
    /\ pc[q] \in Steps
    /\ writing' = [s \in Scratch |-> writing[s] \ {q}]
    /\ Goto(q, "idle")
    /\ job' = [job EXCEPT ![q] = Nothing]
    /\ read' = [read EXCEPT ![q] = Nothing]
    /\ UNCHANGED <<archive, srcdir, tree, marker>>

Fetch(q) == Download(q) \/ Downloaded(q) \/ Verify(q) \/ Unpack(q) \/ Unpacked(q)
            \/ Unlink(q)

Build(q) == Wipe(q) \/ Clone(q) \/ Cloned(q) \/ Configure(q) \/ Install(q)
            \/ Installed(q)

Progress(q) == ReadPresent(q) \/ Fetch(q) \/ Build(q) \/ Mark(q) \/ Marked(q)

CommandFails(q) == DownloadedOther(q) \/ DownloadFails(q) \/ PopulateFails(q)
                   \/ CloneFails(q) \/ ConfigureFails(q)

Execute(q) == Progress(q) \/ CommandFails(q)

Next ==
    \E q \in Proc :
        \/ \E p \in Work[q] : Plan(q, p)
        \/ Execute(q)
        \/ SkipPresent(q)
        \/ Return(q)
        \/ Crash(q)

Spec == Init /\ [][Next]_storeVars

\* A day on which no command fails of its own and nobody is killed: what still
\* fails is what another process broke.
BrokenByOthers(q) ==
    \/ pc[q] = "unpacking" /\ read[q] \notin Prefix /\ PopulateFails(q)
    \/ pc[q] = "cloning" /\ ~CloneUndisturbed(q) /\ CloneFails(q)

CalmNext ==
    \E q \in Proc :
        \/ \E p \in Work[q] : Plan(q, p)
        \/ Progress(q)
        \/ BrokenByOthers(q)
        \/ Return(q)

-----------------------------------------------------------------------------
\* Every variable keeps the shape the code gives it.
TypeOK ==
    /\ archive \in [Scratch -> Content]
    /\ writing \in [Scratch -> SUBSET Proc]
    /\ srcdir \in [Scratch -> Content]
    /\ tree \in [Prefix -> Content]
    /\ marker \in [Prefix -> Content]
    /\ pc \in [Proc -> Steps \cup Results \cup {"idle"}]
    /\ job \in [Proc -> Prefix \cup {Nothing}]
    /\ read \in [Proc -> Content]
    /\ \A q \in Proc : job[q] = Nothing <=> pc[q] = "idle"

\* The prefixes something is put under: a source recipe that states no install
\* step ends in a marker over an empty directory.
Filled == {p \in Prefix : Recipe[p] = "source" => "install" \in BuildSteps[p]}

Whole(p) == p \in Filled => tree[p] = p

\* A prefix that carries a provenance marker holds the artifact the marker
\* names, whole: plan_install skips on the marker alone, so a marker over a
\* half-written or foreign tree would never be repaired.
MarkerHonest == \A p \in Prefix : Present(p) => Whole(p)

\* The store a caller believes in: a prefix holds nothing or its artifact, and
\* installing it is one step that is never undone.
Atomic == INSTANCE AtomicStore
             WITH Prefix <- Filled,
                  content <- [p \in Filled |->
                                IF Present(p) THEN tree[p] ELSE Nothing]
ImplementsAtomicStore == Atomic!Spec

\* What tar is given to unpack is what was verified: no other process's
\* download may slip between sha256sum and tar.
UnpacksVerified ==
    \A q \in Proc : pc[q] = "unpacking" => read[q] = job[q]

\* Whatever a failed or killed run leaves behind (half an archive, a stale
\* clone, a dirty prefix, an empty marker), retrying installs the tool.
RetrySucceeds ==
    \A p \in UNION {Work[q] : q \in Proc} :
        Recipe[p] # "none" => <>(Present(p) /\ Whole(p))
=============================================================================
