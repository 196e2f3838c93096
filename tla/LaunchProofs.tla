----------------------------- MODULE LaunchProofs ----------------------------
(***************************************************************************)
(* The foreground launcher.  For any number of components and any pids: a  *)
(* launch that returns Ok leaves no child, and SIGKILL reaches only its    *)
(* own children, after their SIGTERM and the grace period.  Neither        *)
(* property is inductive.  Both rest on who holds a pid: a child that was  *)
(* not reaped keeps its pid (Held), nobody shares it (Distinct), and       *)
(* whatever is a child or a zombie is in `children` (Owned); and on how    *)
(* far each of the launcher's loops has come (the remaining parts).        *)
(*                                                                         *)
(* The launch file of a package.  A resolution that was not told which     *)
(* file to take takes one with a conventional name or the only one         *)
(* (TakenFile); a launch directory has finitely many files, so "the only   *)
(* one" is one file.                                                       *)
(*                                                                         *)
(* The package index.  A time stands for one content wherever it is met,   *)
(* on disk or in a cache (TimesTell), and a cache was an index when it was *)
(* written (CachedWell).  A cache with as many entries as the walk finds   *)
(* files, each of them met by the walk, maps one to one into the files and *)
(* therefore onto them (FreshIsCurrent).                                   *)
(***************************************************************************)
EXTENDS ForegroundLaunch, LaunchResolution, PackageIndex, FiniteSetTheorems, TLAPS

-----------------------------------------------------------------------------
(* The foreground launcher.                                                *)


Unreaped(c) == c \notin reaped /\ children[c] # NoPid

Owned == \A p \in Pid : proc[p] \in {"child", "zombie"} =>
            \E c \in Command : Unreaped(c) /\ children[c] = p

Distinct == \A c, d \in Command :
                Unreaped(c) /\ Unreaped(d) /\ children[c] = children[d] => c = d

Held == pc \notin Ended =>
            \A c \in Command : Unreaped(c) => proc[children[c]] \in {"child", "zombie"}

Spawned ==
    /\ pc = "spawn" => reaped = {} /\ \A c \in Command : c < i <=> children[c] # NoPid
    /\ pc \notin {"spawn", "err", "dead"} => \A c \in Command : children[c] # NoPid

AllTermed ==
    /\ pc = "terminate" => \A c \in Command : c < i => c \in termed
    /\ pc \in {"grace", "escalate", "kill", "reap"} => termed = Command

Overdue ==
    /\ pc = "escalate" => late \/ \A c \in Command : ~Runs(c)
    /\ pc = "kill" => late /\ Unreaped(i)

AllReaped ==
    /\ pc = "reap" => \A c \in Command : c < i => c \in reaped
    /\ pc = "ok" => reaped = Command

\* Outside its loops the launcher's index is at the first command.
AtFirst == pc \in {"install", "reset", "poll", "grace"} => i = 1

\* The inductive invariant.
FgInv ==
    /\ FgTypeOK
    /\ Owned
    /\ Distinct
    /\ Held
    /\ Spawned
    /\ AllTermed
    /\ Overdue
    /\ AllReaped
    /\ AtFirst

-----------------------------------------------------------------------------
\* The loops run over the commands, from the first to the last.
LEMMA LoopBounds ==
    /\ 1 \in Command
    /\ \A k \in Command : k < N => k + 1 \in Command
    /\ \A k, c \in Command : ~(k < N) /\ c # k => c < k
    /\ \A k, c \in Command : c < k + 1 <=> (c < k \/ c = k)
  BY ForegroundConstants DEF Command

LEMMA FgInitially == FgInit => FgInv
  <1>1. SUFFICES ASSUME FgInit PROVE FgInv
    OBVIOUS
  <1>2. FgTypeOK
    BY <1>1, LoopBounds DEF FgInit, FgTypeOK, Phases
  <1>3. Owned /\ Distinct /\ Held
    BY <1>1 DEF FgInit, Owned, Distinct, Held, Unreaped
  <1>4. Spawned
    BY <1>1 DEF FgInit, Spawned, Command
  <1>5. AllTermed /\ Overdue /\ AllReaped /\ AtFirst
    BY <1>1 DEF FgInit, AllTermed, Overdue, AllReaped, AtFirst
  <1> QED
    BY <1>2, <1>3, <1>4, <1>5 DEF FgInv

-----------------------------------------------------------------------------
(* One lemma per action or group of actions alike.                         *)

LEMMA SpawnKeeps == ASSUME FgInv, Spawn PROVE FgInv'
  <1> USE DEF FgInv, FgTypeOK
  <1>1. CASE i \in Missing \/ ~\E p \in Pid : proc[p] = "free"
    <2>1. /\ pc = "spawn" /\ pc' = "err" /\ proc' = Orphaned
          /\ UNCHANGED <<children, i, reaped, flag, asked, late, termed, killed>>
      BY <1>1 DEF Spawn, signals
    <2>2. FgTypeOK'
      BY <2>1 DEF Orphaned, Phases
    <2>3. Owned'
      BY <2>1 DEF Owned, Orphaned, Unreaped
    <2>4. Distinct'
      BY <2>1 DEF Distinct, Unreaped
    <2>5. Held' /\ Spawned' /\ AllTermed' /\ Overdue' /\ AllReaped' /\ AtFirst'
      BY <2>1 DEF Held, Ended, Spawned, AllTermed, Overdue, AllReaped, AtFirst
    <2> QED
      BY <2>2, <2>3, <2>4, <2>5
  <1>2. CASE ~(i \in Missing \/ ~\E p \in Pid : proc[p] = "free")
    <2>1. PICK p \in Pid :
             /\ proc[p] = "free"
             /\ proc' = [proc EXCEPT ![p] = "child"]
             /\ children' = [children EXCEPT ![i] = p]
      BY <1>2 DEF Spawn
    <2>2. /\ pc = "spawn" /\ reaped = {} /\ Loop("install")
          /\ UNCHANGED <<reaped, flag, asked, late, termed, killed>>
      BY <1>2 DEF Spawn, signals, Spawned
    <2>3. pc' \in {"spawn", "install"} /\ i' \in Command
      BY <2>2, LoopBounds DEF Loop
    <2>4. FgTypeOK'
      BY <2>1, <2>2, <2>3 DEF Phases
    <2>5. p # NoPid /\ \A c \in Command : Unreaped(c) => children[c] # p
      BY <2>1, <2>2, ForegroundConstants DEF Held, Ended
    <2>6. children[i] = NoPid
      BY <2>2, ForegroundConstants DEF Spawned, Command
    <2>7. PICK k \in Command : k = i
      OBVIOUS
    <2>8. \A c \in Command : c # k => (Unreaped(c)' <=> Unreaped(c)) /\ children'[c] = children[c]
      BY <2>1, <2>2, <2>7 DEF Unreaped
    <2>9. ~Unreaped(k) /\ Unreaped(k)' /\ children'[k] = p
      BY <2>1, <2>2, <2>5, <2>6, <2>7 DEF Unreaped
    <2>10. Owned'
      BY <2>1, <2>8, <2>9 DEF Owned
    <2>11. Distinct'
      BY <2>5, <2>8, <2>9 DEF Distinct
    <2>12. Held'
      BY <2>1, <2>2, <2>5, <2>8, <2>9 DEF Held, Ended, Unreaped
    <2>13. Spawned'
      <3>1. CASE i < N
        BY <3>1, <2>1, <2>2, <2>5, LoopBounds DEF Spawned, Loop
      <3>2. CASE ~(i < N)
        BY <3>2, <2>1, <2>2, <2>5, LoopBounds DEF Spawned, Loop
      <3> QED
        BY <3>1, <3>2
    <2>14. AllTermed' /\ Overdue' /\ AllReaped' /\ AtFirst'
      BY <2>2, <2>3 DEF AllTermed, Overdue, AllReaped, AtFirst, Loop
    <2> QED
      BY <2>4, <2>10, <2>11, <2>12, <2>13, <2>14
  <1> QED
    BY <1>1, <1>2

\* Steps that leave the processes alone: who holds what pid stays.
LEMMA ProcessesStay ==
    ASSUME FgInv, UNCHANGED <<proc, children, reaped>>, pc' \in Ended => pc \in Ended
    PROVE  Owned' /\ Distinct' /\ (pc \notin Ended => Held')
  BY DEF FgInv, Owned, Distinct, Held, Unreaped

LEMMA HandlerKeeps ==
    ASSUME FgInv, InstallHandler \/ ResetFlag \/ PollFlag PROVE FgInv'
  <1> USE DEF FgInv, FgTypeOK
  <1>1. /\ pc \in {"install", "reset", "poll"}
        /\ pc' \in {"reset", "poll", "terminate"}
        /\ flag' \in BOOLEAN
        /\ UNCHANGED <<proc, reaped, children, i, asked, late, termed, killed>>
    BY DEF InstallHandler, ResetFlag, PollFlag, kernel, signals
  <1>2. i = 1
    BY <1>1 DEF AtFirst
  <1>3. FgTypeOK'
    BY <1>1 DEF Phases
  <1>4. Owned' /\ Distinct' /\ Held'
    BY <1>1, ProcessesStay DEF Ended
  <1>5. Spawned' /\ AllReaped'
    BY <1>1 DEF Spawned, AllReaped
  <1>6. AllTermed' /\ Overdue' /\ AtFirst'
    BY <1>1, <1>2 DEF AllTermed, Overdue, AtFirst, Command
  <1> QED
    BY <1>3, <1>4, <1>5, <1>6

\* What Reaps does to the pids: only exited children's become free.
LEMMA ReapingKeeps ==
    ASSUME FgInv, NEW C \in SUBSET Command, \A c \in C : Exited(c), Reaps(C),
           UNCHANGED children, pc \notin Ended, pc' \in Phases
    PROVE  /\ proc' \in [Pid -> {"free", "child", "zombie", "stranger"}]
           /\ reaped' \subseteq Command
           /\ Owned' /\ Distinct' /\ Held'
           /\ \A c \in Command : Runs(c)' => Runs(c)
           /\ \A c \in Command : Runs(c) => Runs(c)'
  <1> USE DEF FgInv, FgTypeOK
  <1>1. /\ reaped' = reaped \cup C
        /\ proc' = [p \in Pid |-> IF \E c \in C : children[c] = p THEN "free" ELSE proc[p]]
    BY DEF Reaps
  <1>2. \A c \in C : Unreaped(c) /\ proc[children[c]] = "zombie"
    BY DEF Exited, Unreaped
  <1>3. \A c \in Command : Unreaped(c)' <=> Unreaped(c) /\ c \notin C
    BY <1>1 DEF Unreaped
  <1>4. \A c \in Command : Unreaped(c)' => children[c] \in Pid /\ proc'[children[c]] = proc[children[c]]
    BY <1>1, <1>2, <1>3 DEF Distinct, Unreaped
  <1>5. proc' \in [Pid -> {"free", "child", "zombie", "stranger"}] /\ reaped' \subseteq Command
    BY <1>1
  <1>6. Owned'
    <2>1. SUFFICES ASSUME NEW p \in Pid, proc'[p] \in {"child", "zombie"}
                   PROVE  \E c \in Command : Unreaped(c)' /\ children'[c] = p
      BY DEF Owned
    <2>2. proc[p] = proc'[p] /\ \A c \in C : children[c] # p
      BY <1>1, <2>1
    <2>3. PICK c \in Command : Unreaped(c) /\ children[c] = p
      BY <2>1, <2>2 DEF Owned
    <2> QED
      BY <2>2, <2>3, <1>3
  <1>7. Distinct'
    BY <1>3 DEF Distinct
  <1>8. Held'
    BY <1>3, <1>4 DEF Held
  <1>9. \A c \in Command : Runs(c)' => Runs(c)
    BY <1>3, <1>4 DEF Runs, Unreaped
  <1>10. \A c \in Command : Runs(c) => Runs(c)'
    BY <1>2, <1>3, <1>4 DEF Runs, Unreaped
  <1> QED
    BY <1>5, <1>6, <1>7, <1>8, <1>9, <1>10

-----------------------------------------------------------------------------
\* PollChild reaps one exited child, as Reaps does.
LEMMA PollReaps ==
    ASSUME FgInv, PollChild
    PROVE  \E c \in Command : Exited(c) /\ Reaps({c})
  <1>1. PICK c \in Command :
           /\ Exited(c)
           /\ proc' = [proc EXCEPT ![children[c]] = "free"]
           /\ reaped' = reaped \cup {c}
    BY DEF PollChild
  <1>2. children[c] \in Pid
    BY <1>1 DEF Exited, FgInv, FgTypeOK
  <1>3. proc' = [p \in Pid |-> IF \E d \in {c} : children[d] = p THEN "free" ELSE proc[p]]
    BY <1>1, <1>2 DEF FgInv, FgTypeOK
  <1> QED
    BY <1>1, <1>3 DEF Reaps

LEMMA PollKeeps == ASSUME FgInv, PollChild PROVE FgInv'
  <1> USE DEF FgInv, FgTypeOK
  <1>1. PICK c \in Command : Exited(c) /\ Reaps({c})
    BY PollReaps
  <1>2. /\ pc = "poll" /\ pc' = "terminate"
        /\ UNCHANGED <<children, i, flag, asked, late, termed, killed>>
    BY DEF PollChild, signals
  <1>3. /\ proc' \in [Pid -> {"free", "child", "zombie", "stranger"}]
        /\ reaped' \subseteq Command
        /\ Owned' /\ Distinct' /\ Held'
    BY <1>1, <1>2, ReapingKeeps DEF Ended, Phases
  <1>4. FgTypeOK'
    BY <1>2, <1>3 DEF Phases
  <1>5. Spawned' /\ AllReaped' /\ Overdue' /\ AtFirst'
    BY <1>2 DEF Spawned, AllReaped, Overdue, AtFirst
  <1>6. AllTermed'
    BY <1>2 DEF AllTermed, AtFirst, Command
  <1> QED
    BY <1>3, <1>4, <1>5, <1>6

LEMMA TerminateKeeps == ASSUME FgInv, Terminate PROVE FgInv'
  <1> USE DEF FgInv, FgTypeOK
  <1>1. /\ pc = "terminate" /\ termed' = termed \cup {i} /\ Loop("grace")
        /\ UNCHANGED <<proc, reaped, children, flag, asked, late, killed>>
    BY DEF Terminate, kernel, signals
  <1>2. pc' \in {"terminate", "grace"} /\ i' \in Command
    BY <1>1, LoopBounds DEF Loop
  <1>3. FgTypeOK'
    BY <1>1, <1>2 DEF Phases
  <1>4. Owned' /\ Distinct' /\ Held'
    BY <1>1, <1>2, ProcessesStay DEF Ended
  <1>5. Spawned' /\ AllReaped' /\ Overdue'
    BY <1>1, <1>2 DEF Spawned, AllReaped, Overdue
  <1>6. AllTermed' /\ AtFirst'
    <2>1. CASE i < N
      BY <2>1, <1>1, LoopBounds DEF AllTermed, AtFirst, Loop
    <2>2. CASE ~(i < N)
      <3>1. i' = 1 /\ pc' = "grace"
        BY <2>2, <1>1 DEF Loop
      <3>2. \A c \in Command : c \in termed'
        BY <2>2, <1>1, LoopBounds DEF AllTermed
      <3> QED
        BY <3>1, <3>2, <1>3 DEF AllTermed, AtFirst
    <2> QED
      BY <2>1, <2>2
  <1> QED
    BY <1>3, <1>4, <1>5, <1>6

LEMMA GraceKeeps == ASSUME FgInv, Grace PROVE FgInv'
  <1> USE DEF FgInv, FgTypeOK
  <1> DEFINE C == {c \in Command : Exited(c)}
  <1>1. /\ pc = "grace" /\ Reaps(C)
        /\ pc' = IF late \/ ~\E c \in Command : Runs(c) THEN "escalate" ELSE "grace"
        /\ UNCHANGED <<children, i, flag, asked, late, termed, killed>>
    BY DEF Grace, signals
  <1>2. /\ proc' \in [Pid -> {"free", "child", "zombie", "stranger"}]
        /\ reaped' \subseteq Command
        /\ Owned' /\ Distinct' /\ Held'
        /\ \A c \in Command : Runs(c)' => Runs(c)
    BY <1>1, ReapingKeeps DEF Ended, Phases
  <1>3. FgTypeOK'
    BY <1>1, <1>2 DEF Phases
  <1>4. Spawned' /\ AllReaped' /\ AllTermed' /\ AtFirst'
    BY <1>1 DEF Spawned, AllReaped, AllTermed, AtFirst
  <1>5. Overdue'
    BY <1>1, <1>2 DEF Overdue
  <1> QED
    BY <1>2, <1>3, <1>4, <1>5

LEMMA EscalateKeeps == ASSUME FgInv, Escalate PROVE FgInv'
  <1> USE DEF FgInv, FgTypeOK
  <1> DEFINE C == {c \in {i} : Exited(c)}
  <1>1. /\ pc = "escalate" /\ Reaps(C)
        /\ IF Runs(i) THEN pc' = "kill" /\ UNCHANGED i ELSE Loop("reap")
        /\ UNCHANGED <<children, flag, asked, late, termed, killed>>
    BY DEF Escalate, signals
  <1>2. pc' \in {"escalate", "kill", "reap"} /\ i' \in Command
    BY <1>1, LoopBounds DEF Loop
  <1>3. /\ proc' \in [Pid -> {"free", "child", "zombie", "stranger"}]
        /\ reaped' \subseteq Command
        /\ Owned' /\ Distinct' /\ Held'
        /\ \A c \in Command : Runs(c)' => Runs(c)
        /\ \A c \in Command : Runs(c) => Runs(c)'
    <2>1. C \in SUBSET Command /\ \A c \in C : Exited(c)
      OBVIOUS
    <2> QED
      BY <2>1, <1>1, <1>2, ReapingKeeps DEF Ended, Phases
  <1>4. FgTypeOK'
    BY <1>1, <1>2, <1>3 DEF Phases
  <1>5. Spawned' /\ AllTermed' /\ AtFirst'
    BY <1>1, <1>2 DEF Spawned, AllTermed, AtFirst
  <1>6. AllReaped' /\ (pc' # "kill" => Overdue')
    BY <1>1, <1>2, <1>3 DEF AllReaped, Overdue, Loop, Command
  <1>7. pc' = "kill" => Overdue'
    <2>1. SUFFICES ASSUME pc' = "kill" PROVE Overdue'
      OBVIOUS
    <2>2. Runs(i) /\ i' = i
      BY <1>1, <2>1 DEF Loop
    <2>3. PICK k \in Command : k = i
      OBVIOUS
    <2>4. late /\ Runs(k)'
      BY <1>1, <1>3, <2>2, <2>3 DEF Overdue
    <2> QED
      BY <1>1, <2>1, <2>2, <2>3, <2>4 DEF Overdue, Runs, Unreaped
  <1> QED
    BY <1>3, <1>4, <1>5, <1>6, <1>7

LEMMA KillKeeps == ASSUME FgInv, Kill PROVE FgInv'
  <1> USE DEF FgInv, FgTypeOK
  <1>1. /\ pc = "kill" /\ killed' = killed \cup {i}
        /\ IF i < N THEN i' = i + 1 /\ pc' = "escalate" ELSE i' = 1 /\ pc' = "reap"
        /\ UNCHANGED <<proc, reaped, children, flag, asked, late, termed>>
    BY DEF Kill, kernel, signals
  <1>2. FgTypeOK'
    BY <1>1, LoopBounds DEF Phases
  <1>3. Owned' /\ Distinct' /\ Held'
    BY <1>1, ProcessesStay DEF Ended
  <1>4. Spawned' /\ AllTermed' /\ AtFirst' /\ Overdue'
    BY <1>1 DEF Spawned, AllTermed, AtFirst, Overdue
  <1>5. AllReaped'
    BY <1>1 DEF AllReaped, Command
  <1> QED
    BY <1>2, <1>3, <1>4, <1>5

LEMMA ReapKeeps == ASSUME FgInv, Reap PROVE FgInv'
  <1> USE DEF FgInv, FgTypeOK
  <1> DEFINE C == {c \in {i} : Exited(c)}
  <1>1. /\ pc = "reap" /\ ~Runs(i) /\ Reaps(C) /\ Loop("ok")
        /\ UNCHANGED <<children, flag, asked, late, termed, killed>>
    BY DEF Reap, signals
  <1>2. pc' \in {"reap", "ok"} /\ i' \in Command
    BY <1>1, LoopBounds DEF Loop
  <1>3. /\ proc' \in [Pid -> {"free", "child", "zombie", "stranger"}]
        /\ reaped' \subseteq Command
        /\ Owned' /\ Distinct' /\ Held'
    <2>1. C \in SUBSET Command /\ \A c \in C : Exited(c)
      OBVIOUS
    <2> QED
      BY <2>1, <1>1, <1>2, ReapingKeeps DEF Ended, Phases
  <1>4. FgTypeOK'
    BY <1>1, <1>2, <1>3 DEF Phases
  <1>5. Spawned' /\ AllTermed' /\ AtFirst' /\ Overdue'
    BY <1>1, <1>2 DEF Spawned, AllTermed, AtFirst, Overdue
  <1>6. AllReaped'
    <2>1. i \in reaped \/ Exited(i)
      BY <1>1 DEF Spawned, Held, Ended, Unreaped, Runs, Exited
    <2>2. reaped' = reaped \cup C /\ i \in reaped'
      BY <1>1, <2>1 DEF Reaps
    <2>3. CASE i < N
      BY <2>2, <2>3, <1>1, LoopBounds DEF AllReaped, Loop
    <2>4. CASE ~(i < N)
      <3>1. \A c \in Command : c \in reaped'
        BY <2>2, <2>4, <1>1, LoopBounds DEF AllReaped
      <3> QED
        BY <3>1, <2>4, <1>1, <1>3 DEF AllReaped, Loop
    <2> QED
      BY <2>3, <2>4
  <1> QED
    BY <1>3, <1>4, <1>5, <1>6

-----------------------------------------------------------------------------
LEMMA DeadlineKeeps == ASSUME FgInv, Deadline PROVE FgInv'
  <1> USE DEF FgInv, FgTypeOK
  <1>1. /\ pc = "grace" /\ late' = TRUE
        /\ UNCHANGED <<proc, reaped, children, pc, i, flag, asked, termed, killed>>
    BY DEF Deadline, kernel
  <1>2. FgTypeOK'
    BY <1>1
  <1>3. Owned' /\ Distinct' /\ Held'
    BY <1>1, ProcessesStay DEF Ended
  <1>4. Spawned' /\ AllTermed' /\ AtFirst' /\ Overdue' /\ AllReaped'
    BY <1>1 DEF Spawned, AllTermed, AtFirst, Overdue, AllReaped
  <1> QED
    BY <1>2, <1>3, <1>4

LEMMA InterruptKeeps == ASSUME FgInv, Interrupt PROVE FgInv'
  <1> USE DEF FgInv, FgTypeOK
  <1>1. asked' = TRUE /\ UNCHANGED <<reaped, children, i, late, termed, killed>>
    BY DEF Interrupt
  <1>2. CASE pc \in {"spawn", "install"}
    <2>1. pc' = "dead" /\ proc' = Orphaned /\ UNCHANGED flag
      BY <1>2 DEF Interrupt
    <2>2. FgTypeOK'
      BY <1>1, <2>1 DEF Orphaned, Phases
    <2>3. Owned'
      BY <1>1, <2>1 DEF Owned, Orphaned, Unreaped
    <2>4. Distinct'
      BY <1>1 DEF Distinct, Unreaped
    <2>5. Held' /\ Spawned' /\ AllTermed' /\ Overdue' /\ AllReaped' /\ AtFirst'
      BY <2>1 DEF Held, Ended, Spawned, AllTermed, Overdue, AllReaped, AtFirst
    <2> QED
      BY <2>2, <2>3, <2>4, <2>5
  <1>3. CASE pc \notin {"spawn", "install"}
    <2>1. pc \notin Ended /\ flag' = TRUE /\ UNCHANGED <<pc, proc>>
      BY <1>3, ForegroundConstants DEF Interrupt
    <2>2. FgTypeOK'
      BY <1>1, <2>1
    <2>3. Owned' /\ Distinct' /\ Held'
      BY <1>1, <2>1, ProcessesStay
    <2>4. Spawned' /\ AllTermed' /\ Overdue' /\ AllReaped' /\ AtFirst'
      BY <1>1, <2>1 DEF Spawned, AllTermed, Overdue, AllReaped, AtFirst, Runs, Unreaped
    <2> QED
      BY <2>2, <2>3, <2>4
  <1> QED
    BY <1>2, <1>3

\* Processes end and pids are given away: no unreaped child loses its pid.
LEMMA KernelKeeps ==
    ASSUME FgInv, NEW p \in Pid, Exit(p) \/ Recycle(p) PROVE FgInv'
  <1> USE DEF FgInv, FgTypeOK
  <1>1. UNCHANGED <<reaped, children, pc, i, flag, asked, late, termed, killed>>
    BY DEF Exit, Recycle, signals
  <1>2. PICK w \in {"zombie", "free", "stranger"} :
           /\ proc' = [proc EXCEPT ![p] = w]
           /\ w = "zombie" => proc[p] = "child"
           /\ pc \notin Ended /\ proc[p] \in {"child", "zombie"} => w = "zombie"
    <2>1. CASE Exit(p)
      BY <2>1 DEF Exit
    <2>2. CASE Recycle(p)
      BY <2>2 DEF Recycle
    <2> QED
      BY <2>1, <2>2
  <1>3. FgTypeOK'
    BY <1>1, <1>2
  <1>4. Owned'
    BY <1>1, <1>2 DEF Owned, Unreaped
  <1>5. Distinct' /\ Spawned' /\ AllTermed' /\ AllReaped' /\ AtFirst'
    BY <1>1 DEF Distinct, Unreaped, Spawned, AllTermed, AllReaped, AtFirst
  <1>6. Held'
    BY <1>1, <1>2 DEF Held, Unreaped
  <1>7. \A c \in Command : Runs(c)' => Runs(c)
    BY <1>1, <1>2 DEF Runs
  <1>8. Overdue'
    BY <1>1, <1>7 DEF Overdue, Unreaped
  <1> QED
    BY <1>3, <1>4, <1>5, <1>6, <1>8

LEMMA FgStutters == ASSUME FgInv, UNCHANGED fgVars PROVE FgInv'
  BY DEF fgVars, FgInv, FgTypeOK, Owned, Distinct, Held, Spawned, AllTermed,
         Overdue, AllReaped, AtFirst, Unreaped, Runs

LEMMA FgStep == ASSUME FgInv, [FgNext]_fgVars PROVE FgInv'
  <1>1. CASE Spawn
    BY <1>1, SpawnKeeps
  <1>2. CASE InstallHandler \/ ResetFlag \/ PollFlag
    BY <1>2, HandlerKeeps
  <1>3. CASE PollChild
    BY <1>3, PollKeeps
  <1>4. CASE Terminate
    BY <1>4, TerminateKeeps
  <1>5. CASE Grace
    BY <1>5, GraceKeeps
  <1>6. CASE Escalate
    BY <1>6, EscalateKeeps
  <1>7. CASE Kill
    BY <1>7, KillKeeps
  <1>8. CASE Reap
    BY <1>8, ReapKeeps
  <1>9. CASE Deadline
    BY <1>9, DeadlineKeeps
  <1>10. CASE Interrupt
    BY <1>10, InterruptKeeps
  <1>11. CASE \E p \in Pid : Exit(p) \/ Recycle(p)
    BY <1>11, KernelKeeps
  <1>12. CASE UNCHANGED fgVars
    BY <1>12, FgStutters
  <1> QED
    BY <1>1, <1>2, <1>3, <1>4, <1>5, <1>6, <1>7, <1>8, <1>9, <1>10, <1>11, <1>12
    DEF FgNext, Launcher

\* The inductive invariant holds in every state of a foreground launch.
THEOREM ForegroundInvariant == FgSpec => []FgInv
  <1>1. FgInit => FgInv
    BY FgInitially
  <1>2. FgInv /\ [FgNext]_fgVars => FgInv'
    BY FgStep
  <1> QED
    BY <1>1, <1>2, PTL DEF FgSpec

\* spawn_foreground returns Ok only when every process it spawned has ended and
\* has been reaped, for any number of components and whatever they do.
THEOREM OkLeavesNoChild == FgSpec => []OkMeansAllGone
  <1>1. FgInv => OkMeansAllGone
    BY DEF FgInv, Owned, AllReaped, OkMeansAllGone, Unreaped
  <1> QED
    BY <1>1, ForegroundInvariant, PTL

\* send_sigkill never reaches a process that is not the launcher's child, nor a
\* child that has not had its SIGTERM and the whole grace period.
THEOREM KillsOnlyStragglers == FgSpec => KillIsLastResort
  <1> DEFINE LastResort ==
         \A c \in killed' \ killed :
            /\ proc[children[c]] \in {"child", "zombie"}
            /\ c \in termed /\ late
  <1>1. ASSUME FgInv, [FgNext]_fgVars PROVE LastResort
    <2>1. CASE Kill
      <3>1. killed' \ killed \subseteq {i} /\ pc = "kill"
        BY <2>1 DEF Kill
      <3>2. late /\ Unreaped(i) /\ i \in Command /\ termed = Command
        BY <1>1, <3>1 DEF FgInv, FgTypeOK, Overdue, AllTermed
      <3> QED
        BY <1>1, <3>1, <3>2 DEF FgInv, Held, Ended
    <2>2. CASE ~Kill
      <3>1. killed' = killed
        BY <1>1, <2>2 DEF FgNext, Launcher, fgVars, Spawn, InstallHandler, ResetFlag,
               PollFlag, PollChild, Terminate, Grace, Escalate, Reap, Deadline,
               Interrupt, Exit, Recycle
      <3> QED
        BY <3>1
    <2> QED
      BY <2>1, <2>2
  <1>2. FgSpec => [][FgNext]_fgVars
    BY DEF FgSpec
  <1>3. FgInv /\ [FgNext]_fgVars => [LastResort]_fgVars
    BY <1>1
  <1> QED
    BY <1>2, <1>3, ForegroundInvariant, PTL DEF KillIsLastResort

-----------------------------------------------------------------------------
(* The launch file of a package.                                           *)

LEMMA LaunchesFinite == LrSpec => []IsFiniteSet(launch)
<1>1. LrInit => IsFiniteSet(launch)
  <2>1. LrInit => launch = {} \/ launch = {DirName}
    BY DEF LrInit
  <2> QED
    BY <2>1, FS_EmptySet, FS_Singleton
<1>2. IsFiniteSet(launch) /\ [LrNext]_lrVars => IsFiniteSet(launch)'
  <2> SUFFICES ASSUME IsFiniteSet(launch), [LrNext]_lrVars PROVE IsFiniteSet(launch')
    OBVIOUS
  <2>1. ASSUME NEW f \in Names, ToggleLaunch(f) PROVE IsFiniteSet(launch')
    BY <2>1, FS_AddElement, FS_RemoveElement DEF ToggleLaunch
  <2>2. \/ launch' = launch
        \/ \E f \in Names : ToggleLaunch(f)
    BY DEF LrNext, lrVars, Plan, CodegenSystem, Decide, EditManifest, EditCMake
  <2> QED
    BY <2>1, <2>2
<1> QED
  BY <1>1, <1>2, PTL DEF LrSpec

\* Without --file a launch file has a conventional name or is the only one.
LEMMA TakenFile ==
    ASSUME IsFiniteSet(launch), NEW exec, ResolveLaunch({}, exec).is = "file"
    PROVE  LET f == ResolveLaunch({}, exec).file
           IN  f \in {PkgName, System} \/ launch = {f}
<1>1. CASE PkgName \in launch \/ System \in launch
  BY <1>1 DEF ResolveLaunch, LaunchFile
<1>2. CASE PkgName \notin launch /\ System \notin launch
  <2>1. SynthOr(exec).is # "file"
    BY DEF SynthOr, Error, Synth
  <2>2. Cardinality(launch) = 1 /\ ResolveLaunch({}, exec) = LaunchFile(CHOOSE f \in launch : TRUE)
    <3>1. ResolveLaunch({}, exec) =
             CASE Cardinality(launch) = 0 -> SynthOr(exec)
               [] Cardinality(launch) = 1 -> LaunchFile(CHOOSE f \in launch : TRUE)
               [] OTHER -> Error("ambiguous launch")
      BY <1>2 DEF ResolveLaunch
    <3>2. CASE Cardinality(launch) = 1
      BY <3>1, <3>2
    <3>3. CASE Cardinality(launch) = 0
      BY <2>1, <3>1, <3>3
    <3>4. CASE Cardinality(launch) # 0 /\ Cardinality(launch) # 1
      <4>1. ResolveLaunch({}, exec) = Error("ambiguous launch")
        BY <3>1, <3>4
      <4>2. Error("ambiguous launch").is # "file"
        BY DEF Error
      <4> QED
        BY <4>1, <4>2
    <3> QED
      BY <3>2, <3>3, <3>4
  <2>3. PICK f : launch = {f}
    BY <2>2, FS_Singleton
  <2>4. (CHOOSE g \in launch : TRUE) = f
    BY <2>3
  <2> QED
    BY <2>2, <2>3, <2>4 DEF LaunchFile
<1> QED
  BY <1>1, <1>2

\* However many files are put next to the launch file a package used, and
\* whatever Cargo.toml and CMakeLists.txt become: the next command takes that
\* file, one with a conventional name, or none.
THEOREM NeverSwitchesSilently == LrSpec => NoSilentSwitch
<1> DEFINE P == chosen.is = "file" /\ chosen'.is = "file" /\ query.file = {} /\ query'.file = {} =>
          \/ chosen'.file = chosen.file
          \/ chosen.file \notin launch
          \/ chosen'.file \in {PkgName, System}
<1>1. IsFiniteSet(launch) /\ [LrNext]_lrVars => P
  <2> SUFFICES ASSUME IsFiniteSet(launch), [LrNext]_lrVars,
                      chosen'.is = "file", query'.file = {}, chosen.file \in launch, chosen' # chosen
               PROVE  chosen'.file = chosen.file \/ chosen'.file \in {PkgName, System}
    OBVIOUS
  <2>1. PICK exec : chosen' = ResolveLaunch({}, exec)
    BY DEF LrNext, lrVars, Plan, CodegenSystem, Decide, ToggleLaunch, EditManifest, EditCMake, Edit
  <2>2. chosen'.file \in {PkgName, System} \/ launch = {chosen'.file}
    BY <2>1, TakenFile
  <2> QED
    BY <2>2
<1> QED
  BY <1>1, LaunchesFinite, PTL DEF NoSilentSwitch, LrSpec

-----------------------------------------------------------------------------
(* The package index.                                                      *)

\* What is known of contents and times, from the files and from the caches.
OnDisk(name, time) ==
    \E d \in Dirs : \E x \in xml[d] : x.name = name /\ x.mtime = time

InCache(name, time) ==
    \E s \in Scripts : \E c \in cache[s] : \E e \in c.entries : e.name = name /\ e.mtime = time

Known(name, time) == OnDisk(name, time) \/ InCache(name, time)

IndexTypes ==
    /\ DOMAIN xml = Dirs /\ DOMAIN cache = Scripts /\ DOMAIN found = Scripts /\ edits \in Nat
    /\ \A d \in Dirs : \A x \in xml[d] : xml[d] = {x}

\* A time stands for one content, and edits to come have times of their own.
TimesTell ==
    /\ \A name, time : Known(name, time) => time \notin (edits + 1)..MaxEdits
    /\ \A m, n, time : Known(m, time) /\ Known(n, time) => m = n

\* A cache was an index when it was written.
CachedWell ==
    \A s \in Scripts : \A c \in cache[s] :
        \A e \in c.entries :
            e.name # "" /\ \A f \in c.entries : e.name = f.name \/ e.dir = f.dir => e = f

Index(c) == {[name |-> e.name, dir |-> e.dir] : e \in c.entries}

\* An answer is of the files as they are, or of a cache that looks fresh.
Answered ==
    \A s \in Scripts : \A a \in found[s] :
        \/ a.ok /\ a.entries = Entries(a.root) /\ Buildable(a.root)
        \/ a.ok /\ \E c \in cache[s] : LoadCacheIfFresh(c, a.root) /\ a.entries = Index(c)
        \/ ~a.ok /\ (DetectWorkspaceRoot(s) = {} \/ ~Buildable(a.root))

PiInv == IndexTypes /\ TimesTell /\ CachedWell /\ Answered

\* A package.xml has the name its mtime is known for.
LEMMA OneFile ==
    ASSUME PiInv, NEW d \in Dirs, xml[d] # {}
    PROVE  \E x : xml[d] = {x} /\ NameOf(d) = x.name /\ MtimeOf(d) = x.mtime
                  /\ OnDisk(NameOf(d), MtimeOf(d))
<1>1. PICK x \in xml[d] : xml[d] = {x}
  BY DEF PiInv, IndexTypes
<1>2. (CHOOSE y \in xml[d] : TRUE) = x
  BY <1>1
<1> QED
  BY <1>1, <1>2 DEF NameOf, MtimeOf, OnDisk

\* A cache that looks fresh and hides nothing is the index of the files.
LEMMA FreshIsCurrent ==
    ASSUME PiInv, NEW s \in Scripts, NEW c \in cache[s], NEW root, LoadCacheIfFresh(c, root),
           \A e \in c.entries : e.dir \in PackageXmls(root)
    PROVE  Index(c) = Entries(root) /\ Buildable(root)
<1> DEFINE D == PackageXmls(root)
           at == [e \in c.entries |-> e.dir]
<1>1. IsFiniteSet(D) /\ D \subseteq Dirs /\ \A d \in D : xml[d] # {}
  <2>1. D \in SUBSET Dirs /\ IsFiniteSet(Dirs)
    BY IndexAssumption DEF PackageXmls
  <2>2. IsFiniteSet(D)
    BY <2>1, FS_Subset
  <2> QED
    BY <2>1, <2>2 DEF PackageXmls
<1>2. \A e \in c.entries : xml[e.dir] # {} /\ MtimeOf(e.dir) = e.mtime
  BY DEF LoadCacheIfFresh
<1>3. \A e, f \in c.entries : e.dir = f.dir => e = f
  BY DEF PiInv, CachedWell
<1>4. \A d \in D : \E e \in c.entries : e.dir = d
  <2> HIDE DEF D
  <2>1. at \in Injection(c.entries, D)
    <3>1. \A e \in c.entries : at[e] \in D
      BY DEF D
    <3>2. at \in [c.entries -> D]
      BY <3>1
    <3>3. \A e, f \in c.entries : at[e] = at[f] => e = f
      BY <1>3
    <3> HIDE DEF at
    <3> QED
      BY <3>2, <3>3 DEF Injection, IsInjective
  <2>2. Cardinality(c.entries) = Cardinality(D)
    BY DEF LoadCacheIfFresh, D
  <2>3. at \in Surjection(c.entries, D)
    BY <1>1, <2>1, <2>2, FS_Injection
  <2> QED
    BY <2>3 DEF Surjection
<1>5. ASSUME NEW e \in c.entries PROVE e.dir \in D /\ NameOf(e.dir) = e.name
  <2>1. e.dir \in D /\ e.dir \in Dirs /\ xml[e.dir] # {}
    BY <1>1
  <2>2. OnDisk(NameOf(e.dir), e.mtime)
    BY <1>2, <2>1, OneFile
  <2>3. InCache(e.name, e.mtime)
    BY DEF InCache
  <2> QED
    BY <2>1, <2>2, <2>3 DEF PiInv, TimesTell, Known
<1> HIDE DEF D
<1>6. Index(c) = {[name |-> NameOf(d), dir |-> d] : d \in D}
  BY <1>4, <1>5 DEF Index
<1>7. ASSUME NEW d \in D
      PROVE  NameOf(d) # "" /\ \A e \in D : NameOf(d) = NameOf(e) => d = e
  <2>1. \A e \in c.entries : e.name # "" /\ \A f \in c.entries : e.name = f.name => e = f
    BY DEF PiInv, CachedWell
  <2>2. PICK k \in c.entries : k.dir = d
    BY <1>4
  <2>3. NameOf(d) = k.name /\ k.name # ""
    BY <1>5, <2>1, <2>2
  <2>4. ASSUME NEW e \in D, NameOf(d) = NameOf(e) PROVE d = e
    <3>1. PICK f \in c.entries : f.dir = e
      BY <1>4
    <3>2. f.name = NameOf(e)
      BY <1>5, <3>1
    <3>3. k = f
      BY <2>1, <2>3, <2>4, <3>2
    <3> QED
      BY <2>2, <3>1, <3>3
  <2> QED
    BY <2>3, <2>4
<1> QED
  BY <1>6, <1>7 DEF Entries, Buildable, D

LEMMA IndexFromInv == PiInv => IndexIsCurrent
<1> SUFFICES ASSUME PiInv, NEW s \in Scripts, NEW a \in found[s], ~Hidden(s)
             PROVE  /\ a.ok => a.entries = Entries(a.root) /\ Buildable(a.root)
                    /\ ~a.ok => DetectWorkspaceRoot(s) = {} \/ ~Buildable(a.root)
  BY DEF IndexIsCurrent
<1>1. CASE a.ok /\ \E c \in cache[s] : LoadCacheIfFresh(c, a.root) /\ a.entries = Index(c)
  <2>1. PICK c \in cache[s] : LoadCacheIfFresh(c, a.root) /\ a.entries = Index(c)
    BY <1>1
  <2>2. \A e \in c.entries : e.dir \in PackageXmls(a.root)
    BY <2>1 DEF Hidden, LoadCacheIfFresh
  <2> QED
    BY <1>1, <2>1, <2>2, FreshIsCurrent
<1> QED
  BY <1>1 DEF PiInv, Answered

LEMMA PiInitInv == PiInit => PiInv
<1> SUFFICES ASSUME PiInit PROVE PiInv
  OBVIOUS
<1>1. PICK tree \in Trees : xml = tree.xml
  BY DEF PiInit
<1>2. /\ DOMAIN xml = Dirs
      /\ \A d \in Dirs : \A x \in xml[d] :
            /\ xml[d] = {x} /\ x.mtime \notin 1..MaxEdits
            /\ \A e \in Dirs : \A y \in xml[e] : x.mtime = y.mtime => x.name = y.name
  BY <1>1, IndexAssumption
<1>3. \A s \in Scripts : cache[s] = {} /\ found[s] = {}
  BY DEF PiInit
<1>4. edits = 0 /\ DOMAIN cache = Scripts /\ DOMAIN found = Scripts
  BY DEF PiInit
<1>5. \A name, time : Known(name, time) => OnDisk(name, time)
  BY <1>3 DEF Known, InCache
<1>6. TimesTell
  BY <1>2, <1>4, <1>5 DEF TimesTell, OnDisk
<1> QED
  BY <1>2, <1>3, <1>4, <1>6 DEF PiInv, IndexTypes, CachedWell, Answered

\* An edit: what is known afterwards was known, or is the file it wrote.
LEMMA EditingKeeps ==
    ASSUME PiInv, Editing, DOMAIN xml' = Dirs,
           \A d \in Dirs : \A x \in xml'[d] : xml'[d] = {x},
           NEW name,
           \A d \in Dirs : \A x \in xml'[d] :
              OnDisk(x.name, x.mtime) \/ (x.name = name /\ x.mtime = edits + 1)
    PROVE  PiInv'
<1>1. /\ edits \in Nat /\ edits < MaxEdits /\ edits' = edits + 1 /\ cache' = cache
      /\ found' = [s \in Scripts |-> {}]
  BY DEF Editing, PiInv, IndexTypes
<1>2. \A n, time : Known(n, time)' => Known(n, time) \/ (n = name /\ time = edits + 1)
  BY <1>1 DEF Known, OnDisk, InCache
<1>3. \A n, time : Known(n, time) => time # edits + 1 /\ time \notin (edits + 2)..MaxEdits
  BY <1>1, IndexAssumption DEF PiInv, TimesTell
<1>4. TimesTell'
  <2>1. \A n, time : Known(n, time)' => time \notin (edits' + 1)..MaxEdits
    BY <1>1, <1>2, <1>3, IndexAssumption
  <2>2. \A m, n, time : Known(m, time) /\ Known(n, time) => m = n
    BY DEF PiInv, TimesTell
  <2>3. \A m, n, time : Known(m, time)' /\ Known(n, time)' => m = n
    BY <1>2, <1>3, <2>2
  <2> QED
    BY <2>1, <2>3 DEF TimesTell
<1>5. IndexTypes'
  BY <1>1 DEF PiInv, IndexTypes
<1>6. CachedWell'
  BY <1>1 DEF PiInv, CachedWell
<1>7. Answered'
  BY <1>1 DEF Answered
<1> QED
  BY <1>4, <1>5, <1>6, <1>7 DEF PiInv

\* What an answer is about stays while files and caches do.
LEMMA IndexStays ==
    ASSUME UNCHANGED <<xml, ignored, marks, override>>
    PROVE  /\ \A s : DetectWorkspaceRoot(s)' = DetectWorkspaceRoot(s)
           /\ \A r : Buildable(r)' = Buildable(r) /\ Entries(r)' = Entries(r)
           /\ \A c, r : LoadCacheIfFresh(c, r)' = LoadCacheIfFresh(c, r)
<1>1. \A s, kind : WalkAncestors(s, kind)' = WalkAncestors(s, kind)
  BY DEF WalkAncestors
<1>2. \A s : DetectWorkspaceRoot(s)' = DetectWorkspaceRoot(s)
  BY <1>1 DEF DetectWorkspaceRoot
<1>3. \A r : PackageXmls(r)' = PackageXmls(r)
  BY DEF PackageXmls
<1>4. \A d : NameOf(d)' = NameOf(d) /\ MtimeOf(d)' = MtimeOf(d)
  BY DEF NameOf, MtimeOf
<1> QED
  BY <1>2, <1>3, <1>4 DEF Buildable, Entries, LoadCacheIfFresh

\* An answer, or nothing at all.
LEMMA AnswerKeeps ==
    ASSUME PiInv, UNCHANGED <<xml, ignored, marks, override, edits, cache>>,
           \/ found' = found
           \/ \E s \in Scripts : \E a :
                 /\ Returned(s, a)
                 /\ \/ a.ok /\ a.entries = Entries(a.root) /\ Buildable(a.root)
                    \/ a.ok /\ \E c \in cache[s] : LoadCacheIfFresh(c, a.root) /\ a.entries = Index(c)
                    \/ ~a.ok /\ (DetectWorkspaceRoot(s) = {} \/ ~Buildable(a.root))
    PROVE  PiInv'
<1>1. IndexTypes'
  BY DEF PiInv, IndexTypes, Returned
<1>2. TimesTell'
  BY DEF PiInv, TimesTell, Known, OnDisk, InCache
<1>3. CachedWell'
  BY DEF PiInv, CachedWell
<1>4. Answered'
  <2>1. \A t \in Scripts : \A a \in found'[t] : a \in found[t] \/
           \/ a.ok /\ a.entries = Entries(a.root) /\ Buildable(a.root)
           \/ a.ok /\ \E c \in cache[t] : LoadCacheIfFresh(c, a.root) /\ a.entries = Index(c)
           \/ ~a.ok /\ (DetectWorkspaceRoot(t) = {} \/ ~Buildable(a.root))
    BY DEF PiInv, IndexTypes, Returned
  <2> QED
    BY <2>1, IndexStays DEF PiInv, Answered
<1> QED
  BY <1>1, <1>2, <1>3, <1>4 DEF PiInv

LEMMA BuildIndexKeeps ==
    ASSUME PiInv, NEW s \in Scripts, BuildPkgIndex(s)
    PROVE  PiInv'
<1>1. PICK root \in DetectWorkspaceRoot(s) :
        LET fresh == {c \in cache[s] : LoadCacheIfFresh(c, root)}
        IN  IF fresh # {}
            THEN /\ \E c \in fresh : Returned(s, [ok |-> TRUE, root |-> root,
                           entries |-> {[name |-> e.name, dir |-> e.dir] : e \in c.entries}])
                 /\ UNCHANGED cache
            ELSE IF ~Buildable(root)
            THEN Returned(s, [ok |-> FALSE, root |-> root, entries |-> {}])
                 /\ UNCHANGED cache
            ELSE /\ Returned(s, [ok |-> TRUE, root |-> root, entries |-> Entries(root)])
                 /\ cache' = [cache EXCEPT ![s] = {[root |-> root, entries |-> Stamped(root)]}]
  BY DEF BuildPkgIndex
<1>2. UNCHANGED <<xml, ignored, marks, override, edits>>
  BY DEF BuildPkgIndex, Unchanged
<1>3. /\ \A t \in Scripts : DetectWorkspaceRoot(t)' = DetectWorkspaceRoot(t)
      /\ \A r : Buildable(r)' = Buildable(r) /\ Entries(r)' = Entries(r)
      /\ \A c, r : LoadCacheIfFresh(c, r)' = LoadCacheIfFresh(c, r)
  BY <1>2, IndexStays
<1>4. CASE UNCHANGED cache
  <2>1. CASE \E c \in cache[s] :
                /\ LoadCacheIfFresh(c, root)
                /\ Returned(s, [ok |-> TRUE, root |-> root, entries |-> Index(c)])
    <3>1. PICK c \in cache[s] :
             /\ LoadCacheIfFresh(c, root)
             /\ Returned(s, [ok |-> TRUE, root |-> root, entries |-> Index(c)])
      BY <2>1
    <3>2. PICK a : a = [ok |-> TRUE, root |-> root, entries |-> Index(c)]
      OBVIOUS
    <3>3. a.ok /\ a.root = root /\ a.entries = Index(c)
      BY <3>2
    <3> QED
      BY <1>2, <1>4, <3>1, <3>2, <3>3, AnswerKeeps
  <2>2. CASE Buildable(root) /\ Returned(s, [ok |-> TRUE, root |-> root, entries |-> Entries(root)])
    <3>1. PICK a : a = [ok |-> TRUE, root |-> root, entries |-> Entries(root)]
      OBVIOUS
    <3>2. a.ok /\ a.root = root /\ a.entries = Entries(root)
      BY <3>1
    <3> QED
      BY <1>2, <1>4, <2>2, <3>1, <3>2, AnswerKeeps
  <2>3. CASE ~Buildable(root) /\ Returned(s, [ok |-> FALSE, root |-> root, entries |-> {}])
    <3>1. PICK a : a = [ok |-> FALSE, root |-> root, entries |-> {}]
      OBVIOUS
    <3>2. ~a.ok /\ a.root = root
      BY <3>1
    <3> QED
      BY <1>2, <1>4, <2>3, <3>1, <3>2, AnswerKeeps
  <2> QED
    BY <1>1, <2>1, <2>2, <2>3 DEF Index
<1>5. CASE /\ Returned(s, [ok |-> TRUE, root |-> root, entries |-> Entries(root)])
           /\ cache' = [cache EXCEPT ![s] = {[root |-> root, entries |-> Stamped(root)]}]
           /\ Buildable(root)
  <2>1. \A d \in PackageXmls(root) : d \in Dirs /\ xml[d] # {}
    BY DEF PackageXmls
  <2>2. ASSUME NEW e \in Stamped(root)
        PROVE  OnDisk(e.name, e.mtime) /\ e.name # ""
    <3>1. PICK d \in PackageXmls(root) : e = [name |-> NameOf(d), dir |-> d, mtime |-> MtimeOf(d)]
      BY DEF Stamped
    <3>2. OnDisk(NameOf(d), MtimeOf(d)) /\ NameOf(d) # ""
      BY <1>5, <2>1, OneFile DEF Buildable
    <3> QED
      BY <3>1, <3>2
  <2>3. ASSUME NEW e \in Stamped(root), NEW f \in Stamped(root), e.name = f.name \/ e.dir = f.dir
        PROVE  e = f
    <3>1. PICK d \in PackageXmls(root) : e = [name |-> NameOf(d), dir |-> d, mtime |-> MtimeOf(d)]
      BY DEF Stamped
    <3>2. PICK g \in PackageXmls(root) : f = [name |-> NameOf(g), dir |-> g, mtime |-> MtimeOf(g)]
      BY DEF Stamped
    <3>3. NameOf(d) = NameOf(g) \/ d = g
      BY <2>3, <3>1, <3>2
    <3>4. d = g
      BY <1>5, <3>3 DEF Buildable
    <3> QED
      BY <3>1, <3>2, <3>4
  <2> DEFINE c == [root |-> root, entries |-> Stamped(root)]
             a == [ok |-> TRUE, root |-> root, entries |-> Entries(root)]
  <2>4. /\ cache'[s] = {c} /\ \A t \in Scripts : t # s => cache'[t] = cache[t]
        /\ found'[s] = {a} /\ \A t \in Scripts : t # s => found'[t] = found[t]
        /\ DOMAIN cache' = Scripts /\ DOMAIN found' = Scripts
    BY <1>5 DEF PiInv, IndexTypes, Returned
  <2>5. c.entries = Stamped(root) /\ a.ok /\ a.entries = Entries(root) /\ a.root = root
    OBVIOUS
  <2> HIDE DEF c, a
  <2>6. \A name, time : Known(name, time)' => Known(name, time)
    <3> SUFFICES ASSUME NEW name, NEW time, InCache(name, time)' PROVE Known(name, time)
      BY <1>2 DEF Known, OnDisk
    <3>1. PICK t \in Scripts : \E k \in cache'[t] : \E e \in k.entries : e.name = name /\ e.mtime = time
      BY DEF InCache
    <3>2. CASE t = s
      <4>1. \E e \in Stamped(root) : e.name = name /\ e.mtime = time
        BY <2>4, <2>5, <3>1, <3>2
      <4>2. \A e \in Stamped(root) : OnDisk(e.name, e.mtime)
        BY <2>2
      <4>3. OnDisk(name, time)
        BY <4>1, <4>2
      <4> QED
        BY <4>3 DEF Known
    <3>3. CASE t # s
      BY <2>4, <3>1, <3>3 DEF Known, InCache
    <3> QED
      BY <3>2, <3>3
  <2>7. TimesTell'
    BY <1>2, <2>6 DEF PiInv, TimesTell
  <2>8. CachedWell'
    <3> SUFFICES ASSUME NEW t \in Scripts, NEW k \in cache'[t], NEW e \in k.entries
                 PROVE  e.name # "" /\ \A f \in k.entries : e.name = f.name \/ e.dir = f.dir => e = f
      BY DEF CachedWell
    <3>1. CASE t = s
      <4>1. k.entries = Stamped(root)
        BY <2>4, <2>5, <3>1
      <4>2. \A f, g \in Stamped(root) : f.name = g.name \/ f.dir = g.dir => f = g
        BY <2>3
      <4> QED
        BY <2>2, <4>1, <4>2
    <3>2. CASE t # s
      BY <2>4, <3>2 DEF PiInv, CachedWell
    <3> QED
      BY <3>1, <3>2
  <2>9. Answered'
    BY <1>3, <1>5, <2>4, <2>5 DEF PiInv, Answered
  <2> QED
    BY <1>2, <2>4, <2>7, <2>8, <2>9 DEF PiInv, IndexTypes
<1> QED
  BY <1>1, <1>4, <1>5

LEMMA PiStep == PiInv /\ [PiNext]_piVars => PiInv'
<1> SUFFICES ASSUME PiInv, [PiNext]_piVars PROVE PiInv'
  OBVIOUS
<1> USE DEF PiInv, IndexTypes
<1>1. ASSUME NEW s \in Scripts, BuildPkgIndex(s) PROVE PiInv'
  BY <1>1, BuildIndexKeeps
<1>2. ASSUME NEW s \in Scripts, NoWorkspaceRoot(s) PROVE PiInv'
  <2>1. /\ DetectWorkspaceRoot(s) = {} /\ Returned(s, [ok |-> FALSE, root |-> s, entries |-> {}])
        /\ UNCHANGED <<xml, ignored, marks, override, cache, edits>>
    BY <1>2 DEF NoWorkspaceRoot, Unchanged
  <2>2. PICK a : a = [ok |-> FALSE, root |-> s, entries |-> {}]
    OBVIOUS
  <2>3. ~a.ok
    BY <2>2
  <2> QED
    BY <2>1, <2>2, <2>3, AnswerKeeps
<1>3. ASSUME NEW d \in Dirs, NEW n \in XmlNames, WriteXml(d, n) PROVE PiInv'
  <2>1. Editing /\ xml' = [xml EXCEPT ![d] = {[name |-> n, mtime |-> edits + 1]}]
    BY <1>3 DEF WriteXml
  <2>2. ASSUME NEW e \in Dirs, NEW x \in xml'[e]
        PROVE  xml'[e] = {x} /\ (OnDisk(x.name, x.mtime) \/ (x.name = n /\ x.mtime = edits + 1))
    BY <2>1, <2>2 DEF OnDisk
  <2> QED
    BY <2>1, <2>2, EditingKeeps
<1>4. ASSUME NEW d \in Dirs, NEW e \in Dirs \ {d}, MoveXml(d, e) PROVE PiInv'
  <2>1. Editing /\ xml' = [xml EXCEPT ![d] = {}, ![e] = xml[d]]
    BY <1>4 DEF MoveXml
  <2>2. ASSUME NEW f \in Dirs, NEW x \in xml'[f] PROVE xml'[f] = {x} /\ OnDisk(x.name, x.mtime)
    BY <2>1, <2>2 DEF OnDisk
  <2> QED
    BY <2>1, <2>2, EditingKeeps
<1>5. ASSUME NEW d \in Dirs, RemoveXml(d) PROVE PiInv'
  <2>1. Editing /\ xml' = [xml EXCEPT ![d] = {}]
    BY <1>5 DEF RemoveXml
  <2>2. ASSUME NEW f \in Dirs, NEW x \in xml'[f] PROVE xml'[f] = {x} /\ OnDisk(x.name, x.mtime)
    BY <2>1, <2>2 DEF OnDisk
  <2> QED
    BY <2>1, <2>2, EditingKeeps
<1>6. ASSUME Editing, xml' = xml PROVE PiInv'
  <2>1. \A f \in Dirs : \A x \in xml'[f] : xml'[f] = {x} /\ OnDisk(x.name, x.mtime)
    BY <1>6 DEF OnDisk
  <2> QED
    BY <1>6, <2>1, EditingKeeps
<1>7. CASE UNCHANGED piVars
  BY <1>7, AnswerKeeps DEF piVars
<1> QED
  BY <1>1, <1>2, <1>3, <1>4, <1>5, <1>6, <1>7 DEF PiNext, ToggleIgnore, ToggleMark

\* Whatever is moved, renamed, added, removed or ignored, and wherever the root
\* comes to be: the index a build script gets from its OUT_DIR or from a walk is
\* that of the files as they are, unless it lists a package that is ignored.
THEOREM IndexStaysCurrent == PiSpec => []IndexIsCurrent
BY PiInitInv, PiStep, IndexFromInv, PTL DEF PiSpec
=============================================================================
