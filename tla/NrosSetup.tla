----------------------------- MODULE NrosSetup -----------------------------
(***************************************************************************)
(* nros-cli-core/src/cmd/setup.rs over the SDK store and the source        *)
(* provisioning: `nros setup <board>` (run), `nros setup --tool`           *)
(* (install_single_tool), `nros setup --source` (provision_named_sources)  *)
(* and the lazy auto-setup of `nros build` and `nros deploy`               *)
(* (ensure_tools).  A command walks its package list, keeps the lock in    *)
(* memory and writes nros-sdk.lock of its working directory at the end.    *)
(***************************************************************************)
EXTENDS SdkStore, Naturals, Sequences

CONSTANTS
    ToolOf,      \* prefix -> tool name, the key of the lock's table
    Local,       \* prefixes given with --prefix: outside the shared store
    HasBin,      \* tools whose artifact has a bin/ at its top
    Source, Mode, Shallow, Recursive, NoSource,   \* see SourceProvision
    Gated,       \* license-gated and unknown packages: only reported
    Cwd,         \* working directories, each with its nros-sdk.lock
    Command      \* process -> the command lines it may run

VARIABLES
    dest, at, src,   \* SourceProvision
    lock,            \* nros-sdk.lock: the prefixes it records
    cur,             \* the command a process runs, or ran last
    phase,           \* what the command does next
    rest,            \* packages it has not come to yet
    mem,             \* its copy of the lock
    dirty,           \* `installed`: something to lock
    bins,            \* bin_dirs: prefixes ensure_tools puts on PATH
    outcome          \* how its last command ended

Prov == INSTANCE SourceProvision WITH Runner <- Proc

provVars == <<dest, at, src>>
cmdVars == <<lock, cur, phase, rest, mem, dirty, bins, outcome>>
setupVars == <<archive, writing, srcdir, tree, marker, pc, job, read,
               dest, at, src, lock, cur, phase, rest, mem, dirty, bins, outcome>>

Package == Prefix \cup Source \cup Gated
Kinds == {"setup", "auto", "tool", "source"}

ASSUME SetupConstants ==
    /\ Local \subseteq Prefix /\ HasBin \subseteq Filled /\ Cwd # {}
    /\ Prefix \cap Source = {} /\ Prefix \cap Gated = {} /\ Source \cap Gated = {}
    /\ \A q \in Proc : \A c \in Command[q] :
          /\ c \in [kind : Kinds, list : Seq(Package), cwd : Cwd]
          /\ \A i \in DOMAIN c.list : c.list[i] \in Prefix => c.list[i] \in Work[q]
    /\ DOMAIN ToolOf = Prefix

NoCommand == [kind |-> "none", list |-> <<>>, cwd |-> CHOOSE w \in Cwd : TRUE]

SetupInit ==
    /\ Init
    /\ Prov!SpInit
    /\ lock = [w \in Cwd |-> {}]
    /\ cur = [q \in Proc |-> NoCommand]
    /\ phase = [q \in Proc |-> "out"]
    /\ rest = [q \in Proc |-> <<>>]
    /\ mem = [q \in Proc |-> {}]
    /\ dirty = [q \in Proc |-> FALSE]
    /\ bins = [q \in Proc |-> {}]
    /\ outcome = [q \in Proc |-> "none"]

Kind(q) == cur[q].kind
MyLock(q) == lock[cur[q].cwd]

\* SdkLock::record: a tool has one entry, the version installed last.
Record(entries, p) == {e \in entries : ToolOf[e] # ToolOf[p]} \cup {p}

\* At the head of the package list, and not inside execute or provision_source.
AtPackage(q, kinds) ==
    /\ phase[q] = "list" /\ rest[q] # <<>>
    /\ pc[q] = "idle" /\ at[q] = "idle"
    /\ Head(rest[q]) \in kinds

NextPackage(q) == rest' = [rest EXCEPT ![q] = Tail(@)]

\* The process exits, and what it held in memory is gone.
Ends(q, result) ==
    /\ phase' = [phase EXCEPT ![q] = "out"]
    /\ rest' = [rest EXCEPT ![q] = <<>>]
    /\ mem' = [mem EXCEPT ![q] = {}]
    /\ dirty' = [dirty EXCEPT ![q] = FALSE]
    /\ outcome' = [outcome EXCEPT ![q] = result]

-----------------------------------------------------------------------------
\* A command line is parsed; run and ensure_tools load the lock up front.
Start(q, c) ==
    /\ phase[q] = "out"
    /\ cur' = [cur EXCEPT ![q] = c]
    /\ phase' = [phase EXCEPT ![q] = "list"]
    /\ rest' = [rest EXCEPT ![q] = c.list]
    /\ mem' = [mem EXCEPT ![q] = IF c.kind \in {"setup", "auto"} THEN lock[c.cwd] ELSE {}]
    /\ dirty' = [dirty EXCEPT ![q] = FALSE]
    /\ bins' = [bins EXCEPT ![q] = {}]
    /\ outcome' = [outcome EXCEPT ![q] = "none"]
    /\ UNCHANGED <<storeVars, provVars, lock>>

\* Mutant: the lock is told of a tool before it is installed.
TakeToolRecording(q) ==
    /\ AtPackage(q, Prefix)
    /\ Plan(q, Head(rest[q]))
    /\ mem' = [mem EXCEPT ![q] = Record(@, Head(rest[q]))]
    /\ dirty' = [dirty EXCEPT ![q] = TRUE]
    /\ UNCHANGED <<provVars, lock, cur, phase, rest, bins, outcome>>

\* A [tool.*] package: plan_install.
TakeTool(q) ==
    /\ AtPackage(q, Prefix)
    /\ Plan(q, Head(rest[q]))
    /\ UNCHANGED <<provVars, cmdVars>>

\* What `bin.is_dir()` may say of <prefix>/bin: a tree that is being rewritten
\* or is not the pinned one may have the directory or not.
BinIsDir(p, there) ==
    /\ tree[p] = p => (there <=> p \in HasBin)
    /\ tree[p] = Nothing \/ p \notin Filled => ~there

\* ensure_tools puts <prefix>/bin on the PATH if it is a directory.
BinAdded(q) ==
    \E there \in BOOLEAN :
        /\ BinIsDir(job[q], there)
        /\ bins' = [bins EXCEPT ![q] =
                      IF Kind(q) = "auto" /\ there THEN @ \cup {job[q]} ELSE @]

\* Mutant: ensure_tools goes on to the next package before the PATH.
PassOverOffPath(q) ==
    /\ Kind(q) \in {"auto", "tool"}
    /\ SkipPresent(q)
    /\ NextPackage(q)
    /\ UNCHANGED <<provVars, lock, cur, phase, mem, dirty, bins, outcome>>

\* Present is executed by run (which reads the marker and records it again)
\* and passed over by ensure_tools and install_single_tool.
PassOver(q) ==
    /\ Kind(q) \in {"auto", "tool"}
    /\ SkipPresent(q)
    /\ BinAdded(q)
    /\ NextPackage(q)
    /\ UNCHANGED <<provVars, lock, cur, phase, mem, dirty, outcome>>

\* A step inside execute.
RunStore(q) ==
    /\ pc[q] = "present" => Kind(q) = "setup"
    /\ Execute(q)
    /\ UNCHANGED <<provVars, cmdVars>>

\* execute returned Ok to run or ensure_tools: lock.record.
ToolInstalled(q) ==
    /\ pc[q] = "ok" /\ Kind(q) # "tool"
    /\ Return(q)
    /\ mem' = [mem EXCEPT ![q] = Record(@, job[q])]
    /\ dirty' = [dirty EXCEPT ![q] = TRUE]
    /\ BinAdded(q) /\ NextPackage(q)
    /\ UNCHANGED <<provVars, lock, cur, phase, outcome>>

\* ... to install_single_tool, which loads the lock only now, and leaves it
\* alone for a --prefix placement.
SingleToolInstalled(q) ==
    /\ pc[q] = "ok" /\ Kind(q) = "tool"
    /\ Return(q)
    /\ IF job[q] \in Local
       THEN Ends(q, "ok")
       ELSE /\ mem' = [mem EXCEPT ![q] = Record(MyLock(q), job[q])]
            /\ phase' = [phase EXCEPT ![q] = "truncate"]
            /\ UNCHANGED <<rest, dirty, outcome>>
    /\ UNCHANGED <<provVars, lock, cur, bins>>

\* execute returned Err: every command gives up, its records are dropped.
ToolFailed(q) ==
    /\ pc[q] = "failed"
    /\ Return(q)
    /\ Ends(q, "err")
    /\ UNCHANGED <<provVars, lock, cur, bins>>

\* InstallAction::Unavailable: setup bails, ensure_tools warns.
ToolUnavailable(q) ==
    /\ pc[q] = "unavailable"
    /\ Return(q)
    /\ IF Kind(q) = "auto"
       THEN NextPackage(q) /\ UNCHANGED <<phase, mem, dirty, outcome>>
       ELSE Ends(q, "err")
    /\ UNCHANGED <<provVars, lock, cur, bins>>

\* A [source.*] package: provision_source.
TakeSource(q) ==
    /\ AtPackage(q, Source)
    /\ Prov!Begin(q, Head(rest[q]))
    /\ UNCHANGED <<storeVars, cmdVars>>

RunGit(q) == (Prov!Git(q) \/ Prov!Fails(q)) /\ UNCHANGED <<storeVars, cmdVars>>

SourceDone(q) ==
    /\ at[q] \in Prov!Dispositions
    /\ Prov!Take(q)
    /\ dirty' = [dirty EXCEPT ![q] = @ \/ at[q] = Prov!Provisioned]
    /\ NextPackage(q)
    /\ UNCHANGED <<storeVars, lock, cur, phase, mem, bins, outcome>>

\* ensure_tools only warns about a source it could not fetch.
SourceFailed(q) ==
    /\ at[q] = "err"
    /\ Prov!Take(q)
    /\ IF Kind(q) = "auto"
       THEN NextPackage(q) /\ UNCHANGED <<phase, mem, dirty, outcome>>
       ELSE Ends(q, "err")
    /\ UNCHANGED <<storeVars, lock, cur, bins>>

\* License-gated, or not in the index at all: a line of output.
PassGated(q) ==
    /\ AtPackage(q, Gated)
    /\ NextPackage(q)
    /\ UNCHANGED <<storeVars, provVars, lock, cur, phase, mem, dirty, bins, outcome>>

\* The list is done: run and ensure_tools save the lock if they installed.
Finish(q) ==
    /\ phase[q] = "list" /\ rest[q] = <<>>
    /\ pc[q] = "idle" /\ at[q] = "idle"
    /\ IF dirty[q] /\ Kind(q) \in {"setup", "auto"}
       THEN /\ phase' = [phase EXCEPT ![q] = "truncate"]
            /\ UNCHANGED <<rest, mem, dirty, outcome>>
       ELSE Ends(q, "ok")
    /\ UNCHANGED <<storeVars, provVars, lock, cur, bins>>

\* SdkLock::save is std::fs::write; an empty file loads as an empty lock.
Truncate(q) ==
    /\ phase[q] = "truncate"
    /\ lock' = [lock EXCEPT ![cur[q].cwd] = {}]
    /\ phase' = [phase EXCEPT ![q] = "write"]
    /\ UNCHANGED <<storeVars, provVars, cur, rest, mem, dirty, bins, outcome>>

Write(q) ==
    /\ phase[q] = "write"
    /\ lock' = [lock EXCEPT ![cur[q].cwd] = mem[q]]
    /\ Ends(q, "ok")
    /\ UNCHANGED <<storeVars, provVars, cur, bins>>

\* The process is killed, wherever it is.
Kill(q) ==
    /\ phase[q] # "out"
    /\ \/ Crash(q) /\ UNCHANGED provVars
       \/ Prov!Killed(q) /\ UNCHANGED storeVars
       \/ pc[q] = "idle" /\ at[q] = "idle" /\ UNCHANGED <<storeVars, provVars>>
    /\ Ends(q, "killed")
    /\ UNCHANGED <<lock, cur, bins>>

Step(q) ==
    \/ TakeTool(q) \/ PassOver(q) \/ RunStore(q)
    \/ ToolInstalled(q) \/ SingleToolInstalled(q) \/ ToolFailed(q) \/ ToolUnavailable(q)
    \/ TakeSource(q) \/ RunGit(q) \/ SourceDone(q) \/ SourceFailed(q)
    \/ PassGated(q) \/ Finish(q) \/ Truncate(q) \/ Write(q)

SetupNext ==
    \E q \in Proc :
        \/ \E c \in Command[q] : Start(q, c)
        \/ Step(q)
        \/ Kill(q)

SetupSpec == SetupInit /\ [][SetupNext]_setupVars

-----------------------------------------------------------------------------
\* What nros-sdk.lock pins is installed: whatever failed or was killed on the
\* way, an entry names a prefix whose marker, and so whose tree, is whole.
LockedAreInstalled == \A w \in Cwd : \A p \in lock[w] : Present(p) /\ Whole(p)

ToolsOf(q) == {p \in Prefix \ Local : \E i \in DOMAIN cur[q].list : cur[q].list[i] = p}

\* A `nros setup <board>` that succeeded leaves every tool of the board in the
\* lock, those an earlier, failed run installed included; the PATH that
\* ensure_tools builds for another command names whole tools only, and all of
\* them that have a bin/ (the others stay off it without a word).
OkIsUsable ==
    \A q \in Proc :
        /\ outcome[q] = "ok" /\ Kind(q) = "setup" => ToolsOf(q) \subseteq MyLock(q)
        /\ \A p \in bins[q] : Present(p) /\ tree[p] = p
        /\ outcome[q] = "ok" /\ Kind(q) = "auto" =>
              {p \in ToolsOf(q) \cap HasBin : Recipe[p] # "none"} \subseteq bins[q]

=============================================================================
