-------------------------- MODULE ForegroundLaunch --------------------------
(***************************************************************************)
(* nros launch in foreground mode (cmd/launch.rs): one host process per    *)
(* [[component]], a poll loop that ends when a child exits or a signal     *)
(* arrives, then SIGTERM to all, a grace period, SIGKILL for stragglers.   *)
(*                                                                         *)
(* The kernel's part is explicit: a pid is held by a child until the       *)
(* launcher has reaped it, and may be any other program's afterwards.      *)
(* waitpid on a child not yet reaped does not fail (SIGCHLD is not ignored *)
(* by whoever starts nros), so try_wait's Err arms are not reached.        *)
(***************************************************************************)
EXTENDS Naturals

CONSTANTS
    N,            \* number of [[component]] entries, each one prepared command
    Pid,          \* process ids the kernel hands out
    NoPid,        \* not spawned yet
    Missing,      \* commands whose binary is not there
    Stubborn,     \* commands whose process ignores SIGTERM
    SignalsWhen   \* phases of the launcher in which somebody interrupts it

Command == 1..N
Phases == {"spawn", "install", "reset", "poll", "terminate", "grace",
           "escalate", "kill", "reap", "ok", "err", "dead"}
Ended == {"ok", "err", "dead"}

ASSUME ForegroundConstants ==
    /\ N \in Nat \ {0}
    /\ NoPid \notin Pid
    /\ Missing \subseteq Command /\ Stubborn \subseteq Command
    /\ SignalsWhen \subseteq Phases \ Ended

VARIABLES
    proc,      \* what a pid is: "free", "child", "zombie" or "stranger"
    children,  \* Child::id of each spawned command
    reaped,    \* children whose exit status the launcher has
    pc,        \* the launcher
    i,         \* the command the current loop is at
    flag,      \* SIGNAL_FLAG
    asked,     \* somebody has interrupted the launcher
    late,      \* the grace period is over
    termed,    \* commands send_sigterm was called for
    killed     \* commands send_sigkill was called for

fgVars == <<proc, children, reaped, pc, i, flag, asked, late, termed, killed>>
kernel == <<proc, reaped>>
signals == <<flag, asked, late>>

FgInit ==
    /\ proc \in [Pid -> {"free", "stranger"}]
    /\ children = [c \in Command |-> NoPid]
    /\ reaped = {}
    /\ pc = "spawn" /\ i = 1
    /\ flag = FALSE /\ asked = FALSE /\ late = FALSE
    /\ termed = {} /\ killed = {}

\* try_wait has not been told the child's end yet, and waitpid would not tell.
Runs(c) == c \notin reaped /\ children[c] # NoPid /\ proc[children[c]] = "child"
Exited(c) == c \notin reaped /\ children[c] # NoPid /\ proc[children[c]] = "zombie"

\* The launcher is gone: what it did not reap, init does.
Orphaned == [p \in Pid |-> IF proc[p] = "zombie" THEN "free" ELSE proc[p]]

\* The next command of a `for child in ...` loop, or the phase after it.
Loop(phase) ==
    IF i < N THEN i' = i + 1 /\ UNCHANGED pc ELSE i' = 1 /\ pc' = phase

-----------------------------------------------------------------------------
\* spawn_one and the push; `?` returns from the middle of the loop, also when
\* the kernel has no pid to give.
Spawn ==
    /\ pc = "spawn"
    /\ IF i \in Missing \/ ~\E p \in Pid : proc[p] = "free"
       THEN /\ pc' = "err"
            /\ proc' = Orphaned
            /\ UNCHANGED <<children, i>>
       ELSE /\ \E p \in Pid :
                  /\ proc[p] = "free"
                  /\ proc' = [proc EXCEPT ![p] = "child"]
                  /\ children' = [children EXCEPT ![i] = p]
            /\ Loop("install")
    /\ UNCHANGED <<reaped, signals, termed, killed>>

\* install_signal_handler: libc::signal ...
InstallHandler ==
    /\ pc = "install"
    /\ pc' = "reset"
    /\ UNCHANGED <<kernel, children, i, signals, termed, killed>>

\* ... and then flag.store(false).
ResetFlag ==
    /\ pc = "reset"
    /\ pc' = "poll"
    /\ flag' = FALSE
    /\ UNCHANGED <<kernel, children, i, asked, late, termed, killed>>

PollFlag ==
    /\ pc = "poll" /\ flag
    /\ pc' = "terminate"
    /\ UNCHANGED <<kernel, children, i, signals, termed, killed>>

\* The first try_wait that returns Some leaves the loop.
PollChild ==
    /\ pc = "poll"
    /\ \E c \in Command :
          /\ Exited(c)
          /\ proc' = [proc EXCEPT ![children[c]] = "free"]
          /\ reaped' = reaped \cup {c}
    /\ pc' = "terminate"
    /\ UNCHANGED <<children, i, signals, termed, killed>>

\* send_sigterm(child.id()), whether the child has been reaped or not.
Terminate ==
    /\ pc = "terminate"
    /\ termed' = termed \cup {i}
    /\ Loop("grace")
    /\ UNCHANGED <<kernel, children, signals, killed>>

Reaps(C) ==
    /\ reaped' = reaped \cup C
    /\ proc' = [p \in Pid |-> IF \E c \in C : children[c] = p THEN "free" ELSE proc[p]]

\* Mutant: the stragglers are not given any time.
NoGrace ==
    /\ pc = "grace"
    /\ Reaps({c \in Command : Exited(c)})
    /\ pc' = "escalate"
    /\ UNCHANGED <<children, i, signals, termed, killed>>

\* One pass of the grace loop; an ended child stays ended, so that the pass
\* takes no time makes no difference.
Grace ==
    /\ pc = "grace"
    /\ Reaps({c \in Command : Exited(c)})
    /\ pc' = IF late \/ ~\E c \in Command : Runs(c) THEN "escalate" ELSE "grace"
    /\ UNCHANGED <<children, i, signals, termed, killed>>

\* try_wait before the SIGKILL ...
Escalate ==
    /\ pc = "escalate"
    /\ IF Runs(i)
       THEN pc' = "kill" /\ UNCHANGED i
       ELSE Loop("reap")
    /\ Reaps({c \in {i} : Exited(c)})
    /\ UNCHANGED <<children, signals, termed, killed>>

\* Mutant: the stragglers are sent another SIGTERM.
TermAgain ==
    /\ pc = "kill"
    /\ termed' = termed \cup {i}
    /\ IF i < N THEN i' = i + 1 /\ pc' = "escalate" ELSE i' = 1 /\ pc' = "reap"
    /\ UNCHANGED <<kernel, children, signals, killed>>

\* ... and the SIGKILL.
Kill ==
    /\ pc = "kill"
    /\ killed' = killed \cup {i}
    /\ IF i < N THEN i' = i + 1 /\ pc' = "escalate" ELSE i' = 1 /\ pc' = "reap"
    /\ UNCHANGED <<kernel, children, signals, termed>>

\* Mutant: the final wait is a try_wait.
ReapWithoutWaiting ==
    /\ pc = "reap"
    /\ Reaps({c \in {i} : Exited(c)})
    /\ Loop("ok")
    /\ UNCHANGED <<children, signals, termed, killed>>

\* child.wait() blocks until the child has ended.
Reap ==
    /\ pc = "reap"
    /\ ~Runs(i)
    /\ Reaps({c \in {i} : Exited(c)})
    /\ Loop("ok")
    /\ UNCHANGED <<children, signals, termed, killed>>

Launcher ==
    \/ Spawn \/ InstallHandler \/ ResetFlag \/ PollFlag \/ PollChild
    \/ Terminate \/ Grace \/ Escalate \/ Kill \/ Reap

-----------------------------------------------------------------------------
\* Instant::now() >= deadline.
Deadline ==
    /\ pc = "grace" /\ ~late
    /\ late' = TRUE
    /\ UNCHANGED <<kernel, children, pc, i, flag, asked, termed, killed>>

\* SIGINT or SIGTERM for the launcher: its handler, or the default action.
Interrupt ==
    /\ pc \in SignalsWhen
    /\ asked' = TRUE
    /\ IF pc \in {"spawn", "install"}
       THEN pc' = "dead" /\ proc' = Orphaned /\ UNCHANGED flag
       ELSE flag' = TRUE /\ UNCHANGED <<pc, proc>>
    /\ UNCHANGED <<reaped, children, i, late, termed, killed>>

\* A process ends: a child becomes a zombie of a launcher that is there.
Exit(p) ==
    /\ proc[p] \in {"child", "stranger"}
    /\ proc' = [proc EXCEPT ![p] =
                  IF @ = "child" /\ pc \notin Ended THEN "zombie" ELSE "free"]
    /\ UNCHANGED <<reaped, children, pc, i, signals, termed, killed>>

\* Another program gets the pid.
Recycle(p) ==
    /\ proc[p] = "free"
    /\ proc' = [proc EXCEPT ![p] = "stranger"]
    /\ UNCHANGED <<reaped, children, pc, i, signals, termed, killed>>

FgNext ==
    \/ Launcher \/ Deadline \/ Interrupt
    \/ \E p \in Pid : Exit(p) \/ Recycle(p)

FgSpec == FgInit /\ [][FgNext]_fgVars

\* A child that obeys SIGTERM, and any child that got SIGKILL.
Doomed(c) ==
    Runs(c) /\ (c \in killed \/ c \in termed \ Stubborn)

\* A signal acts: one of the doomed exits.
SignalActs == \E c \in Command : Doomed(c) /\ Exit(children[c])

\* The scheduler runs the launcher, the clock goes on, and signals act.
FairFgSpec ==
    FgSpec /\ WF_fgVars(Launcher) /\ WF_fgVars(Deadline) /\ WF_fgVars(SignalActs)

-----------------------------------------------------------------------------
\* Every variable keeps the shape the code gives it.
FgTypeOK ==
    /\ proc \in [Pid -> {"free", "child", "zombie", "stranger"}]
    /\ children \in [Command -> Pid \cup {NoPid}]
    /\ reaped \subseteq Command
    /\ pc \in Phases
    /\ i \in Command
    /\ flag \in BOOLEAN /\ asked \in BOOLEAN /\ late \in BOOLEAN
    /\ termed \subseteq Command /\ killed \subseteq Command

\* spawn_foreground returns Ok only when no process it spawned is left.
OkMeansAllGone == pc = "ok" => ~\E p \in Pid : proc[p] \in {"child", "zombie"}

\* A SIGKILL goes to a child not reaped yet, never to a program that got its
\* pid, and only after the child had its SIGTERM and the whole grace period.
KillIsLastResort ==
    [][\A c \in killed' \ killed :
          /\ proc[children[c]] \in {"child", "zombie"}
          /\ c \in termed /\ late]_fgVars

\* Once the launcher polls, a signal it has been told of or the exit of one
\* component makes it end with Ok, and so with no component left, however its
\* components take SIGTERM and whatever signals follow.
StopEnds ==
    (pc = "poll" /\ (flag \/ \E c \in Command : Exited(c))) ~> pc = "ok"
=============================================================================
