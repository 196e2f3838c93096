-------------------------- MODULE SourceProvision --------------------------
(***************************************************************************)
(* provision_source of nros-cli-core/src/orchestration/sdk_store.rs: how   *)
(* `nros setup`, and the auto-setup of `nros build` and `nros deploy`,     *)
(* bring a [source.*] package to its dest with a sequence of git commands. *)
(* Each command may fail, each process may be killed, and several nros     *)
(* processes may work on one dest; what they leave is found by the next.   *)
(***************************************************************************)
CONSTANTS
    Runner,      \* nros processes
    Source,      \* [source.*] entries, each with its own dest
    Mode,        \* SourcePackage::provision: "none", "submodule", "clone"
    Shallow,     \* sources fetched with --depth 1 (index, --full, --shallow)
    Recursive,   \* sources whose nested submodules are fetched too
    NoSource     \* the source of an idle process

ASSUME ProvisionConstants ==
    /\ Mode \in [Source -> {"none", "submodule", "clone"}]
    /\ Shallow \subseteq Source
    /\ Recursive \subseteq Source
    /\ NoSource \notin Source

VARIABLES
    dest,        \* how far the tree at a source's dest has come
    at,          \* the git command a process runs next, or its result
    src          \* the source it provisions

provVars == <<dest, at, src>>

\* absent: missing or empty directory.  init: .git only.  remote: .git with a
\* remote.  fetched: the pinned commit is fetched, no file is checked out.
\* cloning: a clone under way or killed.  tip: the default branch.  pinned: the
\* pinned commit, nested submodules missing.  whole: all of it.  user: a
\* contributor's own checkout.
Stages == {"absent", "init", "remote", "fetched", "cloning", "tip", "pinned",
           "whole", "user"}

GitSteps == {"init", "remote add", "fetch", "checkout", "clone", "cloning",
             "checkout ref", "nested", "update", "ls-tree", "fetch sha",
             "checkout sha", "nested sha"}

Provisioned == "provisioned"
AlreadyPresent == "already present"
NoFetch == "no fetch"
Dispositions == {Provisioned, AlreadyPresent, NoFetch}

SpInit ==
    /\ dest \in [Source -> {"absent", "user"}]
    /\ \A s \in Source : Mode[s] # "clone" => dest[s] = "absent"
    /\ at = [q \in Runner |-> "idle"]
    /\ src = [q \in Runner |-> NoSource]

Tree(q) == dest[src[q]]

Go(q, to) == at' = [at EXCEPT ![q] = to]

\* The command q is at runs and leaves `stage` at dest; q goes on to `to`.
Leaves(q, here, stage, to) ==
    /\ at[q] = here
    /\ dest' = [dest EXCEPT ![src[q]] = stage]
    /\ Go(q, to)
    /\ UNCHANGED src

Err(q) == Go(q, "err") /\ UNCHANGED <<dest, src>>

-----------------------------------------------------------------------------
(* The match on SourceProvision.                                           *)

\* Clone mode: a dest with anything in it is left as it is.
BeginClone(q, s) ==
    /\ Go(q, IF dest[s] # "absent" THEN AlreadyPresent
             ELSE IF s \in Shallow THEN "init" ELSE "clone")
    /\ UNCHANGED dest

\* Mutant: submodule mode, too, takes a dest with anything in it for present.
BeginSkipsPopulated(q, s) ==
    /\ at[q] = "idle"
    /\ src' = [src EXCEPT ![q] = s]
    /\ \/ Mode[s] = "none" /\ Go(q, NoFetch) /\ UNCHANGED dest
       \/ /\ Mode[s] = "submodule"
          /\ Go(q, IF dest[s] = "absent" THEN "update" ELSE AlreadyPresent)
          /\ UNCHANGED dest
       \/ Mode[s] = "clone" /\ BeginClone(q, s)

Begin(q, s) ==
    /\ at[q] = "idle"
    /\ src' = [src EXCEPT ![q] = s]
    /\ \/ Mode[s] = "none" /\ Go(q, NoFetch) /\ UNCHANGED dest
       \/ Mode[s] = "submodule" /\ Go(q, "update") /\ UNCHANGED dest
       \/ Mode[s] = "clone" /\ BeginClone(q, s)

-----------------------------------------------------------------------------
(* Shallow clone: git init, remote add, fetch the ref, checkout FETCH_HEAD. *)

\* Re-initialising a repository is harmless; a foreign tree gets a .git.
GitInit(q) ==
    Leaves(q, "init", IF Tree(q) = "absent" THEN "init" ELSE Tree(q),
           "remote add")

\* origin may exist by now, if another process provisions the same dest.
RemoteAdd(q) ==
    /\ at[q] = "remote add"
    /\ CASE Tree(q) = "init" -> Leaves(q, "remote add", "remote", "fetch")
         [] Tree(q) = "user" -> Leaves(q, "remote add", "user", "fetch")
         [] OTHER -> Err(q)

GitFetch(q) ==
    Leaves(q, "fetch", IF Tree(q) = "remote" THEN "fetched" ELSE Tree(q),
           "checkout")

\* The pinned commit is in the work tree; nested submodules come next, if any.
CheckedOut(q, here, nested) ==
    IF src[q] \in Recursive
    THEN Leaves(q, here, IF Tree(q) = "whole" THEN "whole" ELSE "pinned", nested)
    ELSE Leaves(q, here, "whole", Provisioned)

Checkout(q) == CheckedOut(q, "checkout", "nested")

Nested(q) == Leaves(q, "nested", "whole", Provisioned)

(* Full clone: git clone, checkout the ref.                                 *)

CloneStart(q) ==
    /\ at[q] = "clone"
    /\ IF Tree(q) = "absent" THEN Leaves(q, "clone", "cloning", "cloning") ELSE Err(q)

CloneDone(q) == Leaves(q, "cloning", "tip", "checkout ref")

\* git removes what it cloned when it fails itself.
GitCloneFails(q) == Leaves(q, "cloning", "absent", "err")

CheckoutRef(q) == CheckedOut(q, "checkout ref", "nested")

-----------------------------------------------------------------------------
(* Submodule mode: submodule update, else fetch the gitlink's sha.          *)

\* Fast path.
SubmoduleUpdate(q) == Leaves(q, "update", "whole", Provisioned)

\* What a failing `submodule update` leaves: with --depth 1 a pin that lags its
\* branch tip is not checked out, but gitdir and work tree are there.
AfterFailedUpdate(q) == {Tree(q)} \cup (IF Tree(q) = "absent" THEN {"fetched"} ELSE {})

\* Mutant: the error of the fast path is not looked at.
UpdateErrorDropped(q) ==
    /\ at[q] = "update"
    /\ \E stage \in AfterFailedUpdate(q) : Leaves(q, "update", stage, Provisioned)

\* With --depth 1 the fallback fetches the gitlink's sha; else that was all.
UpdateFails(q) ==
    /\ at[q] = "update"
    /\ \E stage \in AfterFailedUpdate(q) :
          Leaves(q, "update", stage, IF src[q] \in Shallow THEN "ls-tree" ELSE "err")

LsTree(q) == at[q] = "ls-tree" /\ Go(q, "fetch sha") /\ UNCHANGED <<dest, src>>

\* In a dest that was never initialised git -C runs in the superproject.
FetchSha(q) ==
    /\ at[q] = "fetch sha"
    /\ IF Tree(q) = "absent" THEN Err(q) ELSE Leaves(q, "fetch sha", Tree(q), "checkout sha")

CheckoutSha(q) == CheckedOut(q, "checkout sha", "nested sha")

NestedSha(q) == Leaves(q, "nested sha", "whole", Provisioned)

-----------------------------------------------------------------------------
Git(q) ==
    \/ GitInit(q) \/ RemoteAdd(q) \/ GitFetch(q) \/ Checkout(q) \/ Nested(q)
    \/ CloneStart(q) \/ CloneDone(q) \/ CheckoutRef(q)
    \/ SubmoduleUpdate(q) \/ LsTree(q) \/ FetchSha(q) \/ CheckoutSha(q)
    \/ NestedSha(q)

\* Any other git command that exits non-zero: the `?` returns its error.
GitFails(q) == at[q] \in GitSteps \ {"cloning", "update"} /\ Err(q)

Fails(q) == GitCloneFails(q) \/ UpdateFails(q) \/ GitFails(q)

\* The caller looks at the disposition or the error.
Take(q) ==
    /\ at[q] \in Dispositions \cup {"err"}
    /\ Go(q, "idle")
    /\ src' = [src EXCEPT ![q] = NoSource]
    /\ UNCHANGED dest

Killed(q) ==
    /\ at[q] \in GitSteps
    /\ Go(q, "idle")
    /\ src' = [src EXCEPT ![q] = NoSource]
    /\ UNCHANGED dest

SpNext ==
    \E q \in Runner :
        \/ \E s \in Source : Begin(q, s)
        \/ Git(q)
        \/ Fails(q)
        \/ Take(q)
        \/ Killed(q)

\* A day on which git succeeds and nobody is killed.
SpCalmNext == \E q \in Runner : (\E s \in Source : Begin(q, s)) \/ Git(q) \/ Take(q)

-----------------------------------------------------------------------------
\* A source that a step reports as provisioned is there with its nested submodules,
\* also when its fast path failed half-way and the fallback finished the job; and
\* no step of clone mode touches a contributor's checkout.
TreesAreWhole ==
    [][/\ \A q \in Runner : at'[q] = Provisioned => (Tree(q) = "whole")'
       /\ \A s \in Source : Mode[s] = "clone" /\ dest[s] = "user" => dest'[s] = "user"]_provVars

\* Submodule mode repairs what an interrupted attempt left: the source is
\* there in the end.
SubmoduleHeals == \A s \in Source : Mode[s] = "submodule" => <>(dest[s] = "whole")
=============================================================================
