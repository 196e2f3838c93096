--------------------------- MODULE DetachedLaunch ---------------------------
(***************************************************************************)
(* nros launch --detach and nros launch --stop (cmd/launch.rs): detached   *)
(* launches of one bringup leave their components running and their pids   *)
(* in one pidfile; stops read it, signal what it names and remove it.      *)
(***************************************************************************)
EXTENDS Naturals, FiniteSets

CONSTANTS
    Launch,      \* invocations of nros launch --detach <bringup>
    Stop,        \* invocations of nros launch --stop <its pidfile>
    N,           \* number of [[component]] entries
    Pid,         \* process ids the kernel hands out
    Free,        \* a pid no process has
    Stranger,    \* a pid another program has
    NoFile,      \* the pidfile is not there
    Habits       \* what users and components do besides launching, then stopping

ASSUME DetachedConstants ==
    /\ N \in Nat \ {0}
    /\ Free \notin Launch /\ Stranger \notin Launch /\ Free # Stranger
    /\ \A P \in SUBSET Pid : NoFile # P
    /\ Habits \subseteq {"relaunch", "overlap", "crash", "missing", "readonly"}

VARIABLES
    runs,     \* the launch whose component has the pid, Stranger or Free
    zombies,  \* components that have ended before their launcher did
    asked,    \* running components that got SIGTERM
    file,     \* pids the pidfile names; a truncated file names none
    lpc,      \* a launch
    pids,     \* `pids`: what a launch has spawned
    spc,      \* a stop
    todo,     \* pids a stop has read and not signalled yet
    shown     \* the habits that have come up so far

dlVars == <<runs, zombies, asked, file, lpc, pids, spc, todo, shown>>
procs == <<runs, zombies, asked>>

DlInit ==
    /\ runs \in [Pid -> {Free, Stranger}]
    /\ zombies = {} /\ asked = {}
    /\ file = NoFile
    /\ lpc = [l \in Launch |-> "new"]
    /\ pids = [l \in Launch |-> {}]
    /\ spc = [s \in Stop |-> "new"]
    /\ todo = [s \in Stop |-> {}]
    /\ shown = {}

Shows(habits) == habits \subseteq Habits /\ shown' = shown \cup habits

LaunchTo(l, step) == lpc' = [lpc EXCEPT ![l] = step]
StopTo(s, step) == spc' = [spc EXCEPT ![s] = step]

NoLaunchGoing == \A l \in Launch : lpc[l] \in {"new", "ok", "err"}
NoStopGoing == \A s \in Stop : spc[s] \in {"new", "ok", "err"}

\* A launcher exits: init reaps the components that ended before.
Leaves(l) ==
    /\ zombies' = {p \in zombies : runs[p] # l}
    /\ runs' = [p \in Pid |-> IF p \in zombies /\ runs[p] = l THEN Free ELSE runs[p]]
    /\ UNCHANGED asked

-----------------------------------------------------------------------------
StartLaunch(l) ==
    /\ lpc[l] = "new" /\ NoLaunchGoing
    /\ Shows((IF NoStopGoing THEN {} ELSE {"overlap"})
             \cup (IF file = NoFile THEN {} ELSE {"relaunch"}))
    /\ LaunchTo(l, "spawn")
    /\ UNCHANGED <<procs, file, pids, spc, todo>>

\* spawn_one, then pids.push.
SpawnOne(l) ==
    /\ lpc[l] = "spawn"
    /\ \E p \in Pid :
          /\ runs[p] = Free
          /\ runs' = [runs EXCEPT ![p] = l]
          /\ pids' = [pids EXCEPT ![l] = @ \cup {p}]
          /\ LaunchTo(l, IF Cardinality(pids'[l]) = N THEN "truncate" ELSE "spawn")
    /\ UNCHANGED <<zombies, asked, file, spc, todo, shown>>

\* The binary is not built, or no pid is left: `?` returns.
SpawnFails(l) ==
    /\ lpc[l] = "spawn"
    /\ Shows(IF \E p \in Pid : runs[p] = Free THEN {"missing"} ELSE {})
    /\ LaunchTo(l, "err")
    /\ Leaves(l)
    /\ UNCHANGED <<file, pids, spc, todo>>

\* fs::write truncates the pidfile of an earlier launch ...
TruncateFile(l) ==
    /\ lpc[l] = "truncate"
    /\ file' = {}
    /\ LaunchTo(l, "write")
    /\ UNCHANGED <<procs, pids, spc, todo, shown>>

\* ... and writes; mem::forget leaves the components alone.
WritePidfile(l) ==
    /\ lpc[l] = "write"
    /\ file' = pids[l]
    /\ LaunchTo(l, "ok")
    /\ Leaves(l)
    /\ UNCHANGED <<pids, spc, todo, shown>>

\* The pidfile cannot be opened, or not be written: an error, after everything
\* was spawned.
WriteFails(l) ==
    /\ lpc[l] \in {"truncate", "write"}
    /\ Shows({"readonly"})
    /\ LaunchTo(l, "err")
    /\ Leaves(l)
    /\ UNCHANGED <<file, pids, spc, todo>>

-----------------------------------------------------------------------------
\* read_to_string, parse_pidfile; without pids it is an error.
ReadFile(s) ==
    /\ spc[s] = "new"
    /\ Shows(IF NoStopGoing /\ NoLaunchGoing THEN {} ELSE {"overlap"})
    /\ IF file \in {NoFile, {}}
       THEN StopTo(s, "err") /\ UNCHANGED todo
       ELSE StopTo(s, "signal") /\ todo' = [todo EXCEPT ![s] = file]
    /\ UNCHANGED <<procs, file, lpc, pids>>

\* Mutant: a component that is gone already ends the loop.
SignalUntilError(s) ==
    /\ spc[s] = "signal"
    /\ \E p \in todo[s] :
          /\ todo' = [todo EXCEPT ![s] = IF runs[p] = Free THEN {} ELSE @ \ {p}]
          /\ asked' = IF runs[p] \in Launch /\ p \notin zombies THEN asked \cup {p} ELSE asked
          /\ StopTo(s, IF todo'[s] = {} THEN "remove" ELSE "signal")
    /\ UNCHANGED <<runs, zombies, file, lpc, pids, shown>>

\* send_sigterm to the next pid; an error of kill is ignored.
Signal(s) ==
    /\ spc[s] = "signal"
    /\ \E p \in todo[s] :
          /\ todo' = [todo EXCEPT ![s] = @ \ {p}]
          /\ asked' = IF runs[p] \in Launch /\ p \notin zombies THEN asked \cup {p} ELSE asked
          /\ StopTo(s, IF todo'[s] = {} THEN "remove" ELSE "signal")
    /\ UNCHANGED <<runs, zombies, file, lpc, pids, shown>>

\* Mutant: the pidfile stays.
KeepFile(s) ==
    /\ spc[s] = "remove"
    /\ StopTo(s, "ok")
    /\ UNCHANGED <<procs, file, lpc, pids, todo, shown>>

\* remove_file; if that fails, a warning.
RemoveFile(s) ==
    /\ spc[s] = "remove"
    /\ file' = NoFile
    /\ StopTo(s, "ok")
    /\ UNCHANGED <<procs, lpc, pids, todo, shown>>

RemoveFails(s) ==
    /\ spc[s] = "remove"
    /\ Shows({"readonly"})
    /\ StopTo(s, "ok")
    /\ UNCHANGED <<procs, file, lpc, pids, todo>>

-----------------------------------------------------------------------------
\* A component ends: after its SIGTERM, or because it crashes.
ComponentEnds(p) ==
    /\ runs[p] \in Launch /\ p \notin zombies
    /\ Shows(IF p \in asked THEN {} ELSE {"crash"})
    /\ asked' = asked \ {p}
    /\ IF lpc[runs[p]] \in {"ok", "err"}
       THEN runs' = [runs EXCEPT ![p] = Free] /\ UNCHANGED zombies
       ELSE zombies' = zombies \cup {p} /\ UNCHANGED runs
    /\ UNCHANGED <<file, lpc, pids, spc, todo>>

\* Another program starts with a pid that is free, or ends.
OtherProgram(p) ==
    /\ \/ runs[p] = Free /\ runs' = [runs EXCEPT ![p] = Stranger]
       \/ runs[p] = Stranger /\ runs' = [runs EXCEPT ![p] = Free]
    /\ UNCHANGED <<zombies, asked, file, lpc, pids, spc, todo, shown>>

DlNext ==
    \/ \E l \in Launch :
          \/ StartLaunch(l) \/ SpawnOne(l) \/ SpawnFails(l)
          \/ TruncateFile(l) \/ WritePidfile(l) \/ WriteFails(l)
    \/ \E s \in Stop : ReadFile(s) \/ Signal(s) \/ RemoveFile(s) \/ RemoveFails(s)
    \/ \E p \in Pid : ComponentEnds(p) \/ OtherProgram(p)

DlSpec == DlInit /\ [][DlNext]_dlVars

-----------------------------------------------------------------------------
\* The pidfile names p, or a stop has just read it there, or p had its SIGTERM.
Reachable(p) ==
    \/ file # NoFile /\ p \in file
    \/ p \in asked
    \/ \E s \in Stop : p \in todo[s]

\* Every component of a launch that returned Ok and that still runs can be
\* stopped by --stop on the pidfile, or is being stopped, whatever is missing,
\* read-only or crashes, as long as nobody launches the bringup again before
\* stopping it and no command runs beside a stop.
Stoppable ==
    shown \cap {"relaunch", "overlap"} = {} =>
        \A l \in Launch : lpc[l] = "ok" =>
            \A p \in Pid : runs[p] = l => Reachable(p)

\* --stop signals components only, never a program that got a pid since, as long
\* as components end only when they are stopped, stops come one after the other
\* and a pidfile can be removed.
SignalsOwnOnly ==
    [][shown' \cap {"crash", "overlap", "readonly"} = {} =>
          \A s \in Stop : \A p \in todo[s] \ todo'[s] : runs[p] # Stranger]_dlVars
=============================================================================
