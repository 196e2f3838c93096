------------------------ MODULE BindingWorkflowProofs ------------------------
(***************************************************************************)
(* For any projects, packages and dependencies: what the cache takes for   *)
(* valid is current, the parallel threads of a run lose none of each       *)
(* other's entries, and a run that ends well leaves all that its project   *)
(* needs, current and patched in.                                          *)
(*                                                                         *)
(* Two arguments carry the first two.  Whatever is recorded was made whole *)
(* and stays so until the sources change (Truthful); and when a bindgen is *)
(* cut short, nobody has recorded its package: it was stale when the run   *)
(* looked, and the run is alone (Guarded).  The third follows the rounds   *)
(* of a run: what is there needs only what is there or what comes next     *)
(* (Rounds).                                                               *)
(***************************************************************************)
EXTENDS BindingWorkflow, TLAPS

Saving == {"loaded", "truncated"}
Outcomes == {"none", "ok", "err", "killed"}

WfTypes ==
    /\ source \in [Pkg -> Version]
    /\ out \in [Pkg -> Version \cup {None, Partial}]
    /\ cache \in Cache
    /\ torn \in BOOLEAN
    /\ config \in [Project -> SUBSET Pkg]
    /\ pc \in [Project -> Phases]
    /\ deps \in [Project -> SUBSET Pkg]
    /\ seen \in [Project -> SUBSET Pkg]
    /\ gen \in [Project -> SUBSET Pkg]
    /\ at \in [Project -> [Pkg -> ThreadSteps]]
    /\ using \in [Project -> [Pkg -> Version \cup {None}]]
    /\ mem \in [Project -> [Pkg -> Cache]]
    /\ outcome \in [Project -> Outcomes]
    /\ habit \in Habits
    /\ events \subseteq habit.events

\* Threads and what they hold belong to the generating phase of a run that may be.
Local ==
    /\ \A q \in Project : q \notin habit.runs => pc[q] = "out"
    /\ \A q \in Project, p \in Pkg : pc[q] # "generate" => at[q][p] = "none"
    /\ \A q \in Project, p \in Pkg : at[q][p] \notin Saving => mem[q][p] = EmptyCache
    /\ \A q \in Project, p \in Pkg : at[q][p] = "writing" => using[q][p] \in Version
    /\ \A q \in Project, p, r \in Pkg : at[q][p] \in Saving /\ at[q][r] \in Saving => p = r

Had(p, sum) == \E v \in Version : v <= source[p] /\ sum = Sum[p][v]

\* Nothing holds a checksum of files to come.
NotNewer ==
    \A p \in Pkg :
        /\ cache[p] # None => Had(p, cache[p])
        /\ \A q \in Project, r \in Pkg : mem[q][r][p] # None => Had(p, mem[q][r][p])

-----------------------------------------------------------------------------
Same(p) == out[p] \in Version /\ Sum[p][out[p]] = Sum[p][source[p]]

Made(p) == Same(p) \/ \E q \in Project : at[q][p] = "writing"

\* No edit during a run, and none that brings a text back; and a run that was cut short was alone.
Scope ==
    /\ events \cap {"live edit", "undo"} = {}
    /\ events \cap {"fail", "kill"} # {} => Alone /\ "clean" \notin events

WritesCurrent ==
    \A q \in Project, p \in Pkg : at[q][p] = "writing" => using[q][p] = source[p]

MadeWhole ==
    \A q \in Project, p \in Pkg : at[q][p] \in {"made"} \cup Saving => Made(p)

CacheTruthful == \A p \in Pkg : cache[p] = Sum[p][source[p]] => out[p] = None \/ Made(p)

SavedTruthful ==
    \A q \in Project, r, p \in Pkg :
        at[q][r] \in Saving /\ mem[q][r][p] = Sum[p][source[p]] => out[p] = None \/ Made(p)

\* A recorded checksum that is current stands for bindings that are there.
Truthful == Scope => WritesCurrent /\ MadeWhole /\ CacheTruthful /\ SavedTruthful

\* As long as nobody removes bindings, nothing is recorded of what is not there.
NothingOfNothing ==
    "clean" \notin events =>
        \A p \in Pkg : out[p] = None =>
            /\ cache[p] = None
            /\ \A q \in Project : at[q][p] \in {"none", "start"}
            /\ \A q \in Project, r \in Pkg : mem[q][r][p] = None

Steady == events \cap {"live edit", "undo", "clean"} = {}

\* Nobody has recorded a package that the only run is about to make.
Guarded ==
    Alone /\ Steady =>
        \A q \in Project, p \in Pkg : at[q][p] \in {"start", "writing"} =>
            /\ cache[p] # Sum[p][source[p]]
            /\ \A r \in Pkg : mem[q][r][p] # Sum[p][source[p]]

\* A thread that is about to save has all that is saved.
NothingLost ==
    Alone => \A q \in Project, r, p \in Pkg :
                at[q][r] \in Saving /\ cache[p] # None => mem[q][r][p] # None

-----------------------------------------------------------------------------
\* A project that has the workspace to itself, and all its runs went to the end.
Calm(q) == habit.runs = {q} /\ events \subseteq {"edit", "clean"}

Have == {p \in Pkg : out[p] # None}
All(q) == Closure[Direct(q)]
Current(p) == out[p] = None \/ Same(p)

\* Between runs there is nothing, or all of it.
BetweenRuns(q) ==
    pc[q] = "out" => seen[q] = {} /\ gen[q] = {} /\ (Have = {} \/ All(q) \subseteq Have)

\* Before a round: what is there is current or checked next, and needs only what is
\* there or checked next.
BeforeRound(q) ==
    pc[q] = "check" =>
        /\ \A p \in Pkg : Current(p) \/ p \in deps[q]
        /\ Direct(q) \subseteq Have \cup deps[q]
        /\ \A p \in Have : Deps[p] \subseteq Have \cup deps[q]
        /\ seen[q] \subseteq Have \cup deps[q]

\* In a round: the same of what is being made.
InRound(q) ==
    pc[q] = "generate" =>
        /\ \A p \in Pkg : Current(p) \/ at[q][p] \in {"start", "writing"}
        /\ \A p \in Pkg : at[q][p] \notin {"none", "start", "writing"} => p \in Have
        /\ Direct(q) \subseteq Have \cup Todo(q)
        /\ \A p \in Have \ Todo(q) : Deps[p] \subseteq Have \cup Todo(q)
        /\ seen[q] \subseteq Have \cup Todo(q)

AfterRounds(q) ==
    pc[q] \in {"patch", "patching"} =>
        /\ \A p \in Pkg : Current(p)
        /\ Direct(q) \subseteq Have
        /\ Closed(Have)

\* No thread fails: what is torn, one of them is about to write.
AllWell(q) ==
    /\ torn => \E p \in Pkg : at[q][p] = "truncated"
    /\ \A p \in Pkg : at[q][p] # "failed"

Needed(q) == Have \cup deps[q] \cup Todo(q) \subseteq All(q)

\* What is there is patched in, or will be.
PatchedIn(q) ==
    /\ Have \subseteq config[q] \cup gen[q] \cup Todo(q)
    /\ pc[q] = "patching" => Have \subseteq gen[q]

Complete(q) == \A p \in All(q) : Same(p) /\ p \in config[q]

Round(q) ==
    /\ BetweenRuns(q) /\ BeforeRound(q) /\ InRound(q) /\ AfterRounds(q)
    /\ AllWell(q) /\ Needed(q) /\ PatchedIn(q)
    /\ outcome[q] = "ok" => pc[q] = "out" /\ Complete(q)

Rounds == \A q \in Project : Calm(q) => Round(q)

Reporters == \A q \in Project : outcome[q] # "none" => q \in habit.runs

CacheInv == Local /\ NotNewer /\ Truthful /\ NothingOfNothing /\ Guarded /\ NothingLost

WfInv == WfTypes /\ CacheInv /\ Rounds /\ Reporters

-----------------------------------------------------------------------------
(* The start.                                                               *)

LEMMA ZeroIsVersion == 0 \in Version
<1>1. MaxVersion \in Nat
  BY WorkflowConstants
<1> QED
  BY <1>1 DEF Version

LEMMA VersionsAreNot ==
    /\ None \notin Version /\ Partial \notin Version /\ None # Partial
    /\ \A p \in Pkg : EmptyCache[p] = None
    /\ \A p \in Pkg, v \in Version : Sum[p][v] \in Version
BY WorkflowConstants DEF EmptyCache

LEMMA WfInitially == WfInit => WfInv
<1> SUFFICES ASSUME WfInit PROVE WfInv
  OBVIOUS
<1> USE WorkflowConstants
<1>1. WfTypes
  <2>1. EmptyCache \in Cache /\ Idle \in [Pkg -> ThreadSteps]
    BY DEF EmptyCache, Cache, Idle, ThreadSteps
  <2>2. mem \in [Project -> [Pkg -> Cache]] /\ at \in [Project -> [Pkg -> ThreadSteps]]
    BY <2>1 DEF WfInit, NothingLoaded
  <2>3. 0 \in Version
    BY ZeroIsVersion
  <2> QED
    BY <2>1, <2>2, <2>3 DEF WfInit, WfTypes, Phases, Outcomes
<1>2. /\ \A q \in Project : pc[q] = "out" /\ outcome[q] = "none"
      /\ \A q \in Project, p \in Pkg : at[q][p] = "none" /\ mem[q][p] = EmptyCache
      /\ \A p \in Pkg : cache[p] = None /\ out[p] = None /\ source[p] = 0
      /\ torn = FALSE
  BY DEF WfInit, Idle, NothingLoaded, EmptyCache
<1>3. \A p \in Pkg : EmptyCache[p] = None /\ 0 # None
  BY ZeroIsVersion DEF EmptyCache
<1>4. CacheInv
  <2>1. Local
    BY <1>2 DEF Local, Saving
  <2>2. NotNewer /\ NothingOfNothing
    BY <1>2, <1>3 DEF NotNewer, Had, NothingOfNothing
  <2>3. Truthful /\ Guarded /\ NothingLost
    BY <1>2, <1>3 DEF Truthful, WritesCurrent, MadeWhole, CacheTruthful, SavedTruthful, Guarded,
       NothingLost, Saving
  <2> QED
    BY <2>1, <2>2, <2>3 DEF CacheInv
<1>5. Have = {} /\ \A q \in Project : Todo(q) = {} /\ deps[q] = {}
  BY <1>2 DEF Have, Todo, WfInit
<1>6. Rounds
  <2> SUFFICES ASSUME NEW q \in Project PROVE Round(q)
    BY DEF Rounds
  <2>1. pc[q] = "out" /\ seen[q] = {} /\ gen[q] = {}
    BY DEF WfInit
  <2>2. BetweenRuns(q) /\ BeforeRound(q) /\ InRound(q) /\ AfterRounds(q)
    BY <1>5, <2>1 DEF BetweenRuns, BeforeRound, InRound, AfterRounds
  <2>3. AllWell(q) /\ Needed(q) /\ PatchedIn(q)
    BY <1>2, <1>5, <2>1 DEF AllWell, Needed, PatchedIn
  <2> QED
    BY <1>2, <2>2, <2>3 DEF Round
<1>7. Reporters
  BY <1>2 DEF Reporters
<1> QED
  BY <1>1, <1>4, <1>6, <1>7 DEF WfInv

-----------------------------------------------------------------------------
(* Types.                                                                   *)

LEMMA NeededTypes ==
    ASSUME WfTypes, NEW q \in Project
    PROVE  Direct(q) \in SUBSET Pkg /\ All(q) \in SUBSET Pkg
<1>1. habit.direct \in [Project -> SUBSET Pkg]
  BY WorkflowConstants DEF WfTypes
<1> QED
  BY <1>1 DEF Direct, All, Closure

LEMMA EndsTypes ==
    ASSUME WfTypes, NEW q \in Project, NEW result \in Outcomes, Ends(q, result)
    PROVE  /\ pc' \in [Project -> Phases]
           /\ deps' \in [Project -> SUBSET Pkg]
           /\ seen' \in [Project -> SUBSET Pkg]
           /\ gen' \in [Project -> SUBSET Pkg]
           /\ at' \in [Project -> [Pkg -> ThreadSteps]]
           /\ using' \in [Project -> [Pkg -> Version \cup {None}]]
           /\ mem' \in [Project -> [Pkg -> Cache]]
           /\ outcome' \in [Project -> Outcomes]
<1>1. NothingLoaded \in [Pkg -> Cache] /\ Idle \in [Pkg -> ThreadSteps]
  BY DEF NothingLoaded, EmptyCache, Cache, Idle, ThreadSteps
<1> QED
  BY <1>1 DEF WfTypes, Ends, Goto, Phases, Outcomes

LEMMA ThreadTypes ==
    ASSUME WfTypes, NEW q \in Project, NEW p \in Pkg, NEW step \in ThreadSteps, ThreadTo(q, p, step)
    PROVE  at' \in [Project -> [Pkg -> ThreadSteps]]
BY DEF WfTypes, ThreadTo

LEMMA HappensTypes ==
    ASSUME WfTypes, NEW event, Happens(event)
    PROVE  habit' \in Habits /\ events' \subseteq habit'.events
BY DEF WfTypes, Happens

LEMMA TypesStep == WfTypes /\ [WfNext]_wfVars => WfTypes'
<1> SUFFICES ASSUME WfTypes, [WfNext]_wfVars PROVE WfTypes'
  OBVIOUS
<1>1. ASSUME NEW q \in Project, Discover(q) PROVE WfTypes'
  BY <1>1, NeededTypes DEF Discover, WfTypes, files, threads, Goto, Phases, Outcomes, All
<1>2. ASSUME NEW q \in Project, CheckCache(q) PROVE WfTypes'
  <2>1. CASE Ends(q, "err")
    BY <1>2, <2>1, EndsTypes DEF CheckCache, WfTypes, files, Outcomes
  <2>2. CASE ~torn
    <3> DEFINE stale == {p \in deps[q] : ~Valid(p)}
               next == [p \in Pkg |-> IF p \in stale THEN "start" ELSE "none"]
    <3>1. at' = [at EXCEPT ![q] = next]
      BY <1>2, <2>2 DEF CheckCache
    <3>2. next \in [Pkg -> ThreadSteps]
      BY DEF ThreadSteps
    <3>3. pc' = [pc EXCEPT ![q] = IF stale = {} THEN "patch" ELSE "generate"]
      BY <1>2, <2>2 DEF CheckCache, Goto
    <3>4. UNCHANGED <<files, deps, seen, gen, using, mem, outcome, habit, events>>
      BY <1>2, <2>2 DEF CheckCache
    <3> HIDE DEF next, stale
    <3> QED
      BY <3>1, <3>2, <3>3, <3>4 DEF WfTypes, files, Phases
  <2> QED
    BY <1>2, <2>1, <2>2 DEF CheckCache
<1>3. ASSUME NEW q \in Project, NEW p \in Pkg, Generate(q, p) PROVE WfTypes'
  BY <1>3, ThreadTypes DEF Generate, WfTypes, ThreadSteps
<1>4. ASSUME NEW q \in Project, NEW p \in Pkg, Generated(q, p) PROVE WfTypes'
  <2>1. at' \in [Project -> [Pkg -> ThreadSteps]]
    BY <1>4, ThreadTypes DEF Generated, ThreadSteps
  <2>2. using[q][p] \in Version \cup {None}
    BY DEF WfTypes
  <2> QED
    BY <1>4, <2>1, <2>2 DEF Generated, WfTypes
<1>5. ASSUME NEW q \in Project, NEW p \in Pkg, GenerateFails(q, p) PROVE WfTypes'
  BY <1>5, ThreadTypes, HappensTypes DEF GenerateFails, WfTypes, files, ThreadSteps
<1>6. ASSUME NEW q \in Project, NEW p \in Pkg, Load(q, p) PROVE WfTypes'
  <2>1. at' \in [Project -> [Pkg -> ThreadSteps]]
    BY <1>6, ThreadTypes DEF Load, ThreadSteps
  <2>2. [cache EXCEPT ![p] = Checksum(p)] \in Cache
    BY VersionsAreNot DEF WfTypes, Cache, Checksum
  <2>3. mem \in [Project -> [Pkg -> Cache]]
    BY DEF WfTypes
  <2>4. \/ mem' = mem
        \/ mem' = [mem EXCEPT ![q][p] = [cache EXCEPT ![p] = Checksum(p)]]
    BY <1>6 DEF Load
  <2>5. mem' \in [Project -> [Pkg -> Cache]]
    BY <2>2, <2>3, <2>4
  <2> QED
    BY <1>6, <2>1, <2>5 DEF Load, WfTypes, files
<1>7. ASSUME NEW q \in Project, NEW p \in Pkg, Truncate(q, p) PROVE WfTypes'
  BY <1>7, ThreadTypes DEF Truncate, WfTypes, ThreadSteps
<1>8. ASSUME NEW q \in Project, NEW p \in Pkg, Save(q, p) PROVE WfTypes'
  <2>1. at' \in [Project -> [Pkg -> ThreadSteps]]
    BY <1>8, ThreadTypes DEF Save, ThreadSteps
  <2>2. EmptyCache \in Cache /\ mem[q][p] \in Cache
    BY DEF WfTypes, Cache, EmptyCache
  <2>3. mem' \in [Project -> [Pkg -> Cache]] /\ cache' \in Cache /\ torn' \in BOOLEAN
    BY <1>8, <2>2 DEF Save, WfTypes
  <2> QED
    BY <1>8, <2>1, <2>3 DEF Save, WfTypes
<1>9. ASSUME NEW q \in Project, Join(q) PROVE WfTypes'
  <2>1. CASE Ends(q, "err")
    BY <1>9, <2>1, EndsTypes DEF Join, WfTypes, files, Outcomes
  <2>2. CASE ~ \E p \in Todo(q) : at[q][p] = "failed"
    <3> DEFINE new == (UNION {Deps[p] : p \in Todo(q)}) \ (seen[q] \cup Todo(q))
    <3>1. /\ gen' = [gen EXCEPT ![q] = @ \cup Todo(q)]
          /\ seen' = [seen EXCEPT ![q] = @ \cup Todo(q) \cup new]
          /\ deps' = [deps EXCEPT ![q] = new]
          /\ at' = [at EXCEPT ![q] = Idle]
          /\ pc' = [pc EXCEPT ![q] = IF new = {} THEN "patch" ELSE "check"]
      BY <1>9, <2>2 DEF Join, Goto
    <3>2. UNCHANGED <<files, using, mem, outcome, habit, events>>
      BY <1>9, <2>2 DEF Join
    <3>3. Todo(q) \in SUBSET Pkg /\ new \in SUBSET Pkg
      <4>1. \A r \in Pkg : Deps[r] \subseteq Pkg
        BY WorkflowConstants
      <4> QED
        BY <4>1 DEF Todo
    <3>4. Idle \in [Pkg -> ThreadSteps]
      BY DEF Idle, ThreadSteps
    <3> HIDE DEF new
    <3> QED
      BY <3>1, <3>2, <3>3, <3>4 DEF WfTypes, files, Phases
  <2> QED
    BY <1>9, <2>1, <2>2 DEF Join
<1>10. ASSUME NEW q \in Project, Patch(q) PROVE WfTypes'
  <2>1. CASE Ends(q, "ok") /\ UNCHANGED config
    BY <1>10, <2>1, EndsTypes DEF Patch, WfTypes, Outcomes
  <2>2. CASE gen[q] # {}
    <3>1. /\ gen' = [gen EXCEPT ![q] = gen[q] \cup config[q]]
          /\ config' = [config EXCEPT ![q] = {}]
          /\ pc' = [pc EXCEPT ![q] = "patching"]
          /\ UNCHANGED <<source, out, cache, torn, deps, seen, threads, outcome, habit, events>>
      BY <1>10, <2>2 DEF Patch, Goto
    <3>2. gen[q] \cup config[q] \in SUBSET Pkg
      BY DEF WfTypes
    <3> QED
      BY <3>1, <3>2 DEF WfTypes, threads, Phases
  <2> QED
    BY <1>10, <2>1, <2>2 DEF Patch
<1>11. ASSUME NEW q \in Project, Patched(q) PROVE WfTypes'
  <2>1. config' \in [Project -> SUBSET Pkg]
    BY <1>11 DEF Patched, WfTypes
  <2> QED
    BY <1>11, <2>1, EndsTypes DEF Patched, WfTypes, Outcomes
<1>12. ASSUME NEW q \in Project, Kill(q) PROVE WfTypes'
  BY <1>12, EndsTypes, HappensTypes DEF Kill, WfTypes, files, Outcomes
<1>13. ASSUME NEW p \in Pkg, Edit(p) PROVE WfTypes'
  <2>1. source' \in [Pkg -> Version]
    <3>1. source[p] \in 0..MaxVersion /\ source[p] < MaxVersion /\ MaxVersion \in Nat
      BY <1>13, WorkflowConstants DEF Edit, WfTypes, Version
    <3>2. source[p] + 1 \in Version
      BY <3>1 DEF Version
    <3> QED
      BY <1>13, <3>2 DEF Edit, WfTypes
  <2>2. outcome' \in [Project -> Outcomes]
    BY <1>13 DEF Edit, Outdated, Outcomes
  <2> QED
    BY <1>13, <2>1, <2>2, HappensTypes DEF Edit, WfTypes, threads
<1>14. ASSUME Clean PROVE WfTypes'
  <2>1. outcome' \in [Project -> Outcomes]
    BY <1>14 DEF Clean, Outdated, Outcomes
  <2> QED
    BY <1>14, <2>1, HappensTypes DEF Clean, WfTypes, threads
<1>15. CASE UNCHANGED wfVars
  BY <1>15 DEF wfVars, WfTypes
<1> QED
  BY <1>1, <1>2, <1>3, <1>4, <1>5, <1>6, <1>7, <1>8, <1>9, <1>10, <1>11, <1>12, <1>13, <1>14,
     <1>15 DEF WfNext, Step, Thread

-----------------------------------------------------------------------------
(* What a step changes, place by place.                                     *)

LEMMA ThreadMoves ==
    ASSUME WfTypes, NEW q \in Project, NEW p \in Pkg, NEW step, ThreadTo(q, p, step)
    PROVE  /\ at'[q][p] = step
           /\ \A r \in Project, s \in Pkg : r # q \/ s # p => at'[r][s] = at[r][s]
BY DEF WfTypes, ThreadTo

LEMMA EndsMoves ==
    ASSUME WfTypes, NEW q \in Project, NEW result, Ends(q, result)
    PROVE  /\ pc'[q] = "out" /\ deps'[q] = {} /\ seen'[q] = {} /\ gen'[q] = {}
           /\ outcome'[q] = result
           /\ \A p \in Pkg : at'[q][p] = "none" /\ mem'[q][p] = EmptyCache
           /\ \A r \in Project : r # q =>
                 /\ pc'[r] = pc[r] /\ at'[r] = at[r] /\ mem'[r] = mem[r] /\ using'[r] = using[r]
                 /\ deps'[r] = deps[r] /\ seen'[r] = seen[r] /\ gen'[r] = gen[r]
                 /\ outcome'[r] = outcome[r]
<1>1. /\ deps'[q] = {} /\ seen'[q] = {} /\ gen'[q] = {}
      /\ pc'[q] = "out" /\ outcome'[q] = result
  BY DEF WfTypes, Ends, Goto
<1>2. \A p \in Pkg : at'[q][p] = "none" /\ mem'[q][p] = EmptyCache
  BY DEF WfTypes, Ends, Idle, NothingLoaded
<1> QED
  BY <1>1, <1>2 DEF WfTypes, Ends, Goto

\* In a project that is alone nothing happens elsewhere.
LEMMA OthersIdle ==
    Local /\ Alone =>
        \A q, r \in Project :
            pc[q] # "out" /\ r # q => pc[r] = "out" /\ \A p \in Pkg : at[r][p] = "none"
<1> SUFFICES ASSUME Local, Alone, NEW q \in Project, NEW r \in Project, pc[q] # "out", r # q
             PROVE  pc[r] = "out" /\ \A p \in Pkg : at[r][p] = "none"
  OBVIOUS
<1>1. r \notin habit.runs
  BY DEF Local, Alone
<1>2. pc[r] = "out"
  BY <1>1 DEF Local
<1> QED
  BY <1>2 DEF Local

LEMMA HadOfNow == WfTypes => \A p \in Pkg : Had(p, Sum[p][source[p]])
<1>1. MaxVersion \in Nat
  BY WorkflowConstants
<1> QED
  BY <1>1 DEF WfTypes, Had, Version

-----------------------------------------------------------------------------
(* The cache and the bindings.                                              *)

\* A step of the run itself: it reads and decides, and its threads have ended, or are
\* yet to begin.
LEMMA CoordinatorKeeps ==
    ASSUME WfTypes, CacheInv, NEW q \in Project, q \in habit.runs, habit' = habit,
           source' = source, out' = out, cache' = cache,
           \A r \in Project : r # q =>
              pc'[r] = pc[r] /\ at'[r] = at[r] /\ mem'[r] = mem[r] /\ using'[r] = using[r],
           \A p \in Pkg : mem'[q][p] = EmptyCache,
           \A p \in Pkg : \/ at'[q][p] = "none"
                          \/ at'[q][p] = "start" /\ pc'[q] = "generate" /\ ~Valid(p),
           events \subseteq events',
           events' \subseteq events \cup {"kill"},
           (\E p \in Pkg : at[q][p] = "writing") => "kill" \in events'
    PROVE  CacheInv'
<1>1. Local /\ NotNewer /\ Truthful /\ NothingOfNothing /\ Guarded /\ NothingLost
  BY DEF CacheInv
<1>2. \A p \in Pkg : at'[q][p] \in {"none", "start"}
  OBVIOUS
<1>3. \A p, s \in Pkg : mem'[q][s][p] = None
  BY VersionsAreNot
<1>4. \A p \in Pkg : Sum[p][source[p]] # None
  BY VersionsAreNot DEF WfTypes
<1>5. Local'
  <2>1. \A r \in Project : r \notin habit'.runs => pc'[r] = "out"
    BY <1>1 DEF Local
  <2>2. ASSUME NEW r \in Project, NEW p \in Pkg
        PROVE  /\ pc'[r] # "generate" => at'[r][p] = "none"
               /\ at'[r][p] \notin Saving => mem'[r][p] = EmptyCache
    <3>1. CASE r = q
      BY <3>1
    <3>2. CASE r # q
      <4>1. pc'[r] = pc[r] /\ at'[r] = at[r] /\ mem'[r] = mem[r]
        BY <3>2
      <4>2. /\ pc[r] # "generate" => at[r][p] = "none"
            /\ at[r][p] \notin Saving => mem[r][p] = EmptyCache
        BY <1>1 DEF Local
      <4> QED
        BY <4>1, <4>2
    <3> QED
      BY <3>1, <3>2
  <2>3. \A r \in Project, p \in Pkg : at'[r][p] = "writing" => using'[r][p] \in Version
    BY <1>1, <1>2 DEF Local
  <2>4. \A r \in Project, p, s \in Pkg : at'[r][p] \in Saving /\ at'[r][s] \in Saving => p = s
    BY <1>1, <1>2 DEF Local, Saving
  <2>5. EmptyCache' = EmptyCache /\ Version' = Version
    BY DEF EmptyCache, Version
  <2> QED
    BY <2>1, <2>2, <2>3, <2>4, <2>5 DEF Local
<1>6. NotNewer'
  <2> SUFFICES ASSUME NEW p \in Pkg
               PROVE  /\ cache'[p] # None => Had(p, cache[p])'
                      /\ \A r \in Project, s \in Pkg : mem'[r][s][p] # None => Had(p, mem[r][s][p])'
    BY DEF NotNewer, Had
  <2>1. cache'[p] # None => Had(p, cache[p])'
    BY <1>1 DEF NotNewer, Had
  <2>2. ASSUME NEW r \in Project, NEW s \in Pkg, mem'[r][s][p] # None
        PROVE  Had(p, mem[r][s][p])'
    <3>1. r # q
      BY <1>3, <2>2
    <3> QED
      BY <1>1, <2>2, <3>1 DEF NotNewer, Had
  <2> QED
    BY <2>1, <2>2
<1>7. Scope' => Scope
  BY DEF Scope, Alone
<1>8. ASSUME NEW p \in Pkg, at[q][p] = "writing", Scope'
      PROVE  /\ Alone /\ Steady
             /\ \A r \in Project : r # q => \A s \in Pkg : at[r][s] = "none"
             /\ cache[p] # Sum[p][source[p]]
  <2>1. Alone /\ Steady
    BY <1>8 DEF Steady, Scope, Alone
  <2>2. pc[q] = "generate"
    BY <1>1, <1>8 DEF Local
  <2>3. cache[p] # Sum[p][source[p]]
    BY <1>1, <1>8, <2>1 DEF Guarded
  <2>4. \A r \in Project : r # q => \A s \in Pkg : at[r][s] = "none"
    <3>1. ASSUME NEW r \in Project, r # q PROVE r \notin habit.runs
      BY <2>1, <3>1 DEF Alone
    <3>2. ASSUME NEW r \in Project, r \notin habit.runs, NEW s \in Pkg PROVE at[r][s] = "none"
      BY <1>1, <3>2 DEF Local
    <3> QED
      BY <3>1, <3>2
  <2> QED
    BY <2>1, <2>3, <2>4
<1>9. ASSUME NEW p \in Pkg, Made(p), at[q][p] # "writing" PROVE Made(p)'
  BY <1>9 DEF Made, Same
<1>10. Truthful'
  <2> SUFFICES ASSUME Scope'
               PROVE  WritesCurrent' /\ MadeWhole' /\ CacheTruthful' /\ SavedTruthful'
    BY DEF Truthful
  <2>1. WritesCurrent /\ MadeWhole /\ CacheTruthful /\ SavedTruthful
    BY <1>1, <1>7 DEF Truthful
  <2>2. \A r \in Project, p \in Pkg : at'[r][p] = "writing" => using'[r][p] = source'[p]
    BY <1>2, <2>1 DEF WritesCurrent
  <2>3. ASSUME NEW r \in Project, NEW p \in Pkg, at'[r][p] \in {"made"} \cup Saving
        PROVE  Made(p)'
    <3>1. r # q /\ at[r][p] \in {"made"} \cup Saving
      BY <1>2, <2>3 DEF Saving
    <3>2. Made(p)
      BY <2>1, <3>1 DEF MadeWhole
    <3>3. at[q][p] # "writing"
      BY <1>8, <3>1 DEF Saving
    <3> QED
      BY <1>9, <3>2, <3>3
  <2>4. ASSUME NEW p \in Pkg, cache'[p] = Sum[p][source'[p]] PROVE out'[p] = None \/ Made(p)'
    <3>1. out[p] = None \/ Made(p)
      BY <2>1, <2>4 DEF CacheTruthful
    <3>2. at[q][p] # "writing"
      BY <1>8, <2>4
    <3> QED
      BY <1>9, <3>1, <3>2
  <2>5. ASSUME NEW r \in Project, NEW s \in Pkg, NEW p \in Pkg,
               at'[r][s] \in Saving, mem'[r][s][p] = Sum[p][source'[p]]
        PROVE  out'[p] = None \/ Made(p)'
    <3>1. r # q /\ at[r][s] \in Saving /\ mem[r][s][p] = Sum[p][source[p]]
      BY <1>2, <2>5 DEF Saving
    <3>2. out[p] = None \/ Made(p)
      BY <2>1, <3>1 DEF SavedTruthful
    <3>3. at[q][p] # "writing"
      BY <1>8, <3>1 DEF Saving
    <3> QED
      BY <1>9, <3>2, <3>3
  <2>6. Saving' = Saving
    BY DEF Saving
  <2> QED
    BY <2>2, <2>3, <2>4, <2>5, <2>6 DEF WritesCurrent, MadeWhole, CacheTruthful, SavedTruthful
<1>11. NothingOfNothing'
  <2> SUFFICES ASSUME "clean" \notin events', NEW p \in Pkg, out'[p] = None
               PROVE  /\ cache'[p] = None
                      /\ \A r \in Project : at'[r][p] \in {"none", "start"}
                      /\ \A r \in Project, s \in Pkg : mem'[r][s][p] = None
    BY DEF NothingOfNothing
  <2>1. /\ cache[p] = None
        /\ \A r \in Project : at[r][p] \in {"none", "start"}
        /\ \A r \in Project, s \in Pkg : mem[r][s][p] = None
    BY <1>1 DEF NothingOfNothing
  <2>2. ASSUME NEW r \in Project
        PROVE  at'[r][p] \in {"none", "start"} /\ \A s \in Pkg : mem'[r][s][p] = None
    <3>1. CASE r = q
      BY <1>2, <1>3, <3>1
    <3>2. CASE r # q
      BY <2>1, <3>2
    <3> QED
      BY <3>1, <3>2
  <2> QED
    BY <2>1, <2>2
<1>12. Guarded'
  <2> SUFFICES ASSUME Alone', Steady',
                      NEW r \in Project, NEW p \in Pkg, at'[r][p] \in {"start", "writing"}
               PROVE  cache'[p] # Sum[p][source'[p]] /\ \A s \in Pkg : mem'[r][s][p] # Sum[p][source'[p]]
    BY DEF Guarded
  <2>1. Alone /\ Steady
    BY DEF Steady, Alone
  <2>2. CASE r # q
    <3>1. at[r][p] \in {"start", "writing"}
      BY <2>2
    <3>2. cache[p] # Sum[p][source[p]] /\ \A s \in Pkg : mem[r][s][p] # Sum[p][source[p]]
      BY <1>1, <2>1, <3>1 DEF Guarded
    <3> QED
      BY <2>2, <3>2
  <2>3. CASE r = q
    <3>1. cache[p] # Sum[p][source[p]] \/ out[p] = None
      BY <1>2, <2>3 DEF Valid, Checksum
    <3>2. out[p] = None => cache[p] = None
      BY <1>1, <2>1 DEF Steady, NothingOfNothing
    <3>3. cache[p] # Sum[p][source[p]]
      BY <1>4, <3>1, <3>2
    <3> QED
      BY <1>3, <1>4, <2>3, <3>3
  <2> QED
    BY <2>2, <2>3
<1>13. NothingLost'
  <2> SUFFICES ASSUME Alone', NEW r \in Project, NEW s \in Pkg, NEW p \in Pkg,
                      at'[r][s] \in Saving, cache'[p] # None
               PROVE  mem'[r][s][p] # None
    BY DEF NothingLost
  <2>1. Alone /\ r # q /\ at[r][s] \in Saving
    BY <1>2 DEF Alone, Saving
  <2> QED
    BY <1>1, <2>1 DEF NothingLost
<1> QED
  BY <1>5, <1>6, <1>10, <1>11, <1>12, <1>13 DEF CacheInv

LEMMA GenerateKeeps ==
    ASSUME WfTypes, CacheInv, NEW q \in Project, NEW p \in Pkg, Generate(q, p)
    PROVE  CacheInv'
<1>1. Local /\ NotNewer /\ Truthful /\ NothingOfNothing /\ Guarded /\ NothingLost
  BY DEF CacheInv
<1>2. /\ at[q][p] = "start" /\ at'[q][p] = "writing"
      /\ \A r \in Project, s \in Pkg : r # q \/ s # p => at'[r][s] = at[r][s]
      /\ pc[q] = "generate"
  BY ThreadMoves DEF Generate, Running
<1>3. /\ using'[q][p] = source[p]
      /\ \A r \in Project, s \in Pkg : r # q \/ s # p => using'[r][s] = using[r][s]
      /\ out'[p] \in {source[p], Partial}
      /\ \A s \in Pkg : s # p => out'[s] = out[s]
  BY DEF Generate, WfTypes
<1>4. UNCHANGED <<source, cache, pc, mem, habit, events>>
  BY DEF Generate
<1>5. out'[p] # None /\ source[p] \in Version
  BY <1>3, VersionsAreNot DEF WfTypes
<1>6. \A r \in Project, s \in Pkg : at'[r][s] \in {"made"} \cup Saving => at[r][s] = at'[r][s]
  BY <1>2 DEF Saving
<1>7. Local'
  BY <1>1, <1>2, <1>3, <1>4, <1>5, <1>6 DEF Local, Saving, EmptyCache, Version
<1>8. NotNewer'
  BY <1>1, <1>4 DEF NotNewer, Had
<1>9. \A s \in Pkg : Made(s) \/ s = p => Made(s)'
  BY <1>2, <1>3, <1>4 DEF Made, Same
<1>10. Truthful'
  <2> SUFFICES ASSUME Scope'
               PROVE  WritesCurrent' /\ MadeWhole' /\ CacheTruthful' /\ SavedTruthful'
    BY DEF Truthful
  <2>1. WritesCurrent /\ MadeWhole /\ CacheTruthful /\ SavedTruthful
    BY <1>1, <1>4 DEF Truthful, Scope, Alone
  <2>2. WritesCurrent'
    BY <1>2, <1>3, <1>4, <2>1 DEF WritesCurrent
  <2>3. MadeWhole'
    BY <1>6, <1>9, <2>1 DEF MadeWhole, Saving
  <2>4. CacheTruthful'
    BY <1>3, <1>4, <1>9, <2>1 DEF CacheTruthful
  <2>5. SavedTruthful'
    BY <1>3, <1>4, <1>6, <1>9, <2>1 DEF SavedTruthful, Saving
  <2> QED
    BY <2>2, <2>3, <2>4, <2>5
<1>11. NothingOfNothing'
  BY <1>1, <1>2, <1>3, <1>4, <1>5 DEF NothingOfNothing
<1>12. Guarded'
  <2> SUFFICES ASSUME Alone', Steady',
                      NEW r \in Project, NEW s \in Pkg, at'[r][s] \in {"start", "writing"}
               PROVE  cache'[s] # Sum[s][source'[s]] /\ \A t \in Pkg : mem'[r][t][s] # Sum[s][source'[s]]
    BY DEF Guarded
  <2>1. Alone /\ Steady
    BY <1>4 DEF Steady, Alone
  <2>2. at[r][s] \in {"start", "writing"}
    BY <1>2
  <2> QED
    BY <1>1, <1>4, <2>1, <2>2 DEF Guarded
<1>13. NothingLost'
  BY <1>1, <1>4, <1>6 DEF NothingLost, Alone, Saving
<1> QED
  BY <1>7, <1>8, <1>10, <1>11, <1>12, <1>13 DEF CacheInv

LEMMA GeneratedKeeps ==
    ASSUME WfTypes, CacheInv, NEW q \in Project, NEW p \in Pkg, Generated(q, p)
    PROVE  CacheInv'
<1>1. Local /\ NotNewer /\ Truthful /\ NothingOfNothing /\ Guarded /\ NothingLost
  BY DEF CacheInv
<1>2. /\ at[q][p] = "writing" /\ at'[q][p] = "made"
      /\ \A r \in Project, s \in Pkg : r # q \/ s # p => at'[r][s] = at[r][s]
      /\ pc[q] = "generate"
  BY ThreadMoves DEF Generated, Running
<1>3. /\ out'[p] \in {using[q][p], Partial}
      /\ out'[p] # using[q][p] => Contended(q, p)
      /\ \A s \in Pkg : s # p => out'[s] = out[s]
  BY DEF Generated, WfTypes
<1>4. UNCHANGED <<source, cache, pc, mem, using, habit, events>>
  BY DEF Generated
<1>5. out'[p] # None
  BY <1>1, <1>2, <1>3, VersionsAreNot DEF Local
<1>6. \A r \in Project, s \in Pkg : at'[r][s] \in Saving => at[r][s] = at'[r][s]
  BY <1>2 DEF Saving
<1>7. Local'
  BY <1>1, <1>2, <1>4, <1>6 DEF Local, Saving, EmptyCache, Version
<1>8. NotNewer'
  BY <1>1, <1>4 DEF NotNewer, Had
<1>9. Truthful'
  <2> SUFFICES ASSUME Scope'
               PROVE  WritesCurrent' /\ MadeWhole' /\ CacheTruthful' /\ SavedTruthful'
    BY DEF Truthful
  <2>1. WritesCurrent /\ MadeWhole /\ CacheTruthful /\ SavedTruthful
    BY <1>1, <1>4 DEF Truthful, Scope, Alone
  <2>2. WritesCurrent'
    BY <1>2, <1>4, <2>1 DEF WritesCurrent
  <2>3. Made(p)'
    <3>1. CASE out'[p] = using[q][p]
      BY <1>2, <1>4, <2>1, <3>1 DEF WfTypes, Made, Same, WritesCurrent
    <3>2. CASE Contended(q, p)
      BY <1>2, <3>2 DEF Contended, Made, Same
    <3> QED
      BY <1>3, <3>1, <3>2
  <2>4. ASSUME NEW s \in Pkg, Made(s) PROVE Made(s)'
    <3>1. CASE s # p
      BY <1>2, <1>3, <1>4, <2>4, <3>1 DEF Made, Same
    <3> QED
      BY <2>3, <3>1
  <2>5. MadeWhole'
    BY <1>2, <2>1, <2>3, <2>4 DEF MadeWhole, Saving
  <2>6. CacheTruthful'
    BY <1>3, <1>4, <2>1, <2>3, <2>4 DEF CacheTruthful
  <2>7. SavedTruthful'
    BY <1>3, <1>4, <1>6, <2>1, <2>3, <2>4 DEF SavedTruthful, Saving
  <2> QED
    BY <2>2, <2>5, <2>6, <2>7
<1>10. NothingOfNothing'
  BY <1>1, <1>2, <1>3, <1>4, <1>5 DEF NothingOfNothing
<1>11. Guarded'
  <2>1. \A r \in Project, s \in Pkg : at'[r][s] \in {"start", "writing"} => at[r][s] = at'[r][s]
    BY <1>2
  <2>2. Steady' = Steady /\ Alone' = Alone
    BY <1>4 DEF Steady, Alone
  <2> QED
    BY <1>1, <1>4, <2>1, <2>2 DEF Guarded
<1>12. NothingLost'
  BY <1>1, <1>4, <1>6 DEF NothingLost, Alone, Saving
<1> QED
  BY <1>7, <1>8, <1>9, <1>10, <1>11, <1>12 DEF CacheInv

LEMMA GenerateFailsKeeps ==
    ASSUME WfTypes, CacheInv, NEW q \in Project, NEW p \in Pkg, GenerateFails(q, p)
    PROVE  CacheInv'
<1>1. Local /\ NotNewer /\ Truthful /\ NothingOfNothing /\ Guarded /\ NothingLost
  BY DEF CacheInv
<1>2. /\ at[q][p] = "writing" /\ at'[q][p] = "failed"
      /\ \A r \in Project, s \in Pkg : r # q \/ s # p => at'[r][s] = at[r][s]
      /\ pc[q] = "generate"
  BY ThreadMoves DEF GenerateFails, Running
<1>3. /\ UNCHANGED <<source, cache, out, pc, mem, using, habit>>
      /\ events' = events \cup {"fail"}
  BY DEF GenerateFails, Happens, files
<1>4. \A r \in Project, s \in Pkg :
         at'[r][s] \notin {"none", "failed"} => at[r][s] = at'[r][s] /\ (r # q \/ s # p)
  BY <1>2
<1>5. Local'
  BY <1>1, <1>2, <1>3, <1>4 DEF Local, Saving, EmptyCache, Version
<1>6. NotNewer'
  BY <1>1, <1>3 DEF NotNewer, Had
<1>7. Truthful'
  <2> SUFFICES ASSUME Scope'
               PROVE  WritesCurrent' /\ MadeWhole' /\ CacheTruthful' /\ SavedTruthful'
    BY DEF Truthful
  <2>1. Scope /\ Alone /\ Steady
    BY <1>3 DEF Scope, Alone, Steady
  <2>2. WritesCurrent /\ MadeWhole /\ CacheTruthful /\ SavedTruthful
    BY <1>1, <2>1 DEF Truthful
  <2>3. cache[p] # Sum[p][source[p]] /\ \A r \in Pkg : mem[q][r][p] # Sum[p][source[p]]
    BY <1>1, <1>2, <2>1 DEF Steady, Guarded
  <2>4. ASSUME NEW r \in Project, r # q, NEW s \in Pkg PROVE at[r][s] = "none"
    <3>1. pc[q] # "out"
      BY <1>2
    <3>2. Local /\ Alone
      BY <1>1, <2>1
    <3> QED
      BY <2>4, <3>1, <3>2, OthersIdle
  <2>5. ASSUME NEW s \in Pkg, s # p, Made(s) PROVE Made(s)'
    BY <1>2, <1>3, <2>5 DEF Made, Same
  <2>6. WritesCurrent'
    BY <1>3, <1>4, <2>2 DEF WritesCurrent
  <2>7. MadeWhole'
    <3> SUFFICES ASSUME NEW r \in Project, NEW s \in Pkg, at'[r][s] \in {"made"} \cup Saving
                 PROVE  Made(s)'
      BY DEF MadeWhole, Saving
    <3>1. at[r][s] \in {"made"} \cup Saving /\ (r # q \/ s # p)
      BY <1>4 DEF Saving
    <3>2. r = q
      BY <2>4, <3>1 DEF Saving
    <3> QED
      BY <2>2, <2>5, <3>1, <3>2 DEF MadeWhole
  <2>8. CacheTruthful'
    BY <1>3, <2>2, <2>3, <2>5 DEF CacheTruthful
  <2>9. SavedTruthful'
    <3> SUFFICES ASSUME NEW r \in Project, NEW t \in Pkg, NEW s \in Pkg,
                        at'[r][t] \in Saving, mem'[r][t][s] = Sum[s][source'[s]]
                 PROVE  out'[s] = None \/ Made(s)'
      BY DEF SavedTruthful, Saving
    <3>1. at[r][t] \in Saving /\ mem[r][t][s] = Sum[s][source[s]]
      BY <1>3, <1>4 DEF Saving
    <3>2. r = q
      BY <2>4, <3>1 DEF Saving
    <3>3. s # p
      BY <2>3, <3>1, <3>2
    <3> QED
      BY <1>3, <2>2, <2>5, <3>1, <3>3 DEF SavedTruthful
  <2> QED
    BY <2>6, <2>7, <2>8, <2>9
<1>8. NothingOfNothing'
  BY <1>1, <1>2, <1>3 DEF NothingOfNothing
<1>9. Guarded'
  <2> SUFFICES ASSUME Alone', Steady',
                      NEW r \in Project, NEW s \in Pkg, at'[r][s] \in {"start", "writing"}
               PROVE  cache'[s] # Sum[s][source'[s]] /\ \A t \in Pkg : mem'[r][t][s] # Sum[s][source'[s]]
    BY DEF Guarded
  <2>1. Alone /\ Steady
    BY <1>3 DEF Steady, Alone
  <2>2. at[r][s] \in {"start", "writing"}
    BY <1>4
  <2> QED
    BY <1>1, <1>3, <2>1, <2>2 DEF Guarded
<1>10. NothingLost'
  BY <1>1, <1>3, <1>4 DEF NothingLost, Alone, Saving
<1> QED
  BY <1>5, <1>6, <1>7, <1>8, <1>9, <1>10 DEF CacheInv

LEMMA LoadKeeps ==
    ASSUME WfTypes, CacheInv, NEW q \in Project, NEW p \in Pkg, Load(q, p)
    PROVE  CacheInv'
<1>1. Local /\ NotNewer /\ Truthful /\ NothingOfNothing /\ Guarded /\ NothingLost
  BY DEF CacheInv
<1>2. PICK step \in {"loaded", "failed"} : ThreadTo(q, p, step)
  BY DEF Load
<1>3. /\ at[q][p] = "made" /\ at'[q][p] = step
      /\ \A r \in Project, s \in Pkg : r # q \/ s # p => at'[r][s] = at[r][s]
      /\ pc[q] = "generate" /\ \A r \in Pkg : at[q][r] \notin Saving
  BY <1>2, ThreadMoves DEF Load, Running, Saving
<1>4. UNCHANGED <<source, cache, out, pc, using, habit, events>>
  BY DEF Load, files
<1>5. \/ mem' = mem /\ step = "failed"
      \/ mem' = [mem EXCEPT ![q][p] = [cache EXCEPT ![p] = Checksum(p)]]
  BY <1>3 DEF Load, ThreadTo, WfTypes
<1>6. \A r \in Project, t \in Pkg : r # q \/ t # p => mem'[r][t] = mem[r][t]
  <2>1. mem \in [Project -> [Pkg -> Cache]]
    BY DEF WfTypes
  <2> QED
    BY <1>5, <2>1
<1>7. step = "loaded" => mem'[q][p] = [cache EXCEPT ![p] = Checksum(p)]
  <2>1. mem \in [Project -> [Pkg -> Cache]]
    BY DEF WfTypes
  <2> QED
    BY <1>5, <2>1
<1>8. /\ step = "loaded" => mem'[q][p][p] = Sum[p][source[p]]
      /\ step = "loaded" => \A s \in Pkg : s # p => mem'[q][p][s] = cache[s]
  BY <1>7 DEF Checksum, WfTypes, Cache
<1>9. step = "failed" => mem'[q][p] = EmptyCache
  <2>1. mem' = mem \/ step # "failed"
    BY <1>2, <1>3 DEF Load, ThreadTo, WfTypes
  <2>2. mem[q][p] = EmptyCache
    BY <1>1, <1>3 DEF Local, Saving
  <2> QED
    BY <2>1, <2>2
<1>10. Sum[p][source[p]] \in Version
  BY VersionsAreNot DEF WfTypes
<1>11. \A r \in Project, s \in Pkg :
         at'[r][s] \notin {"loaded", "failed"} => at[r][s] = at'[r][s] /\ (r # q \/ s # p)
  BY <1>3
<1>12. Local'
  <2>1. \A r \in Project : r \notin habit'.runs => pc'[r] = "out"
    BY <1>1, <1>4 DEF Local
  <2>2. \A r \in Project, s \in Pkg : pc'[r] # "generate" => at'[r][s] = "none"
    BY <1>1, <1>3, <1>4 DEF Local
  <2>3. \A r \in Project, s \in Pkg : at'[r][s] \notin Saving => mem'[r][s] = EmptyCache
    BY <1>1, <1>2, <1>3, <1>6, <1>9 DEF Local, Saving
  <2>4. \A r \in Project, s \in Pkg : at'[r][s] = "writing" => using'[r][s] \in Version
    BY <1>1, <1>4, <1>11 DEF Local
  <2>5. \A r \in Project, s, t \in Pkg : at'[r][s] \in Saving /\ at'[r][t] \in Saving => s = t
    BY <1>1, <1>3 DEF Local, Saving
  <2> QED
    BY <2>1, <2>2, <2>3, <2>4, <2>5 DEF Local, Saving, EmptyCache, Version
<1>13. NotNewer'
  <2>1. \A s \in Pkg : mem'[q][p][s] # None => mem'[q][p][s] \in {cache[s], Sum[s][source[s]]}
    BY <1>2, <1>8, <1>9, VersionsAreNot
  <2>2. \A s \in Pkg : Had(s, Sum[s][source[s]])
    BY HadOfNow
  <2>3. ASSUME NEW s \in Pkg, mem'[q][p][s] # None PROVE Had(s, mem'[q][p][s])
    BY <1>1, <2>1, <2>2, <2>3 DEF NotNewer, Had
  <2>4. ASSUME NEW r \in Project, NEW t \in Pkg, NEW s \in Pkg, mem'[r][t][s] # None
        PROVE  Had(s, mem'[r][t][s])
    <3>1. CASE r # q \/ t # p
      BY <1>1, <1>6, <2>4, <3>1 DEF NotNewer, Had
    <3> QED
      BY <2>3, <2>4, <3>1
  <2> QED
    BY <1>1, <1>4, <2>4 DEF NotNewer, Had
<1>14. Truthful'
  <2> SUFFICES ASSUME Scope'
               PROVE  WritesCurrent' /\ MadeWhole' /\ CacheTruthful' /\ SavedTruthful'
    BY DEF Truthful
  <2>1. WritesCurrent /\ MadeWhole /\ CacheTruthful /\ SavedTruthful
    BY <1>1, <1>4 DEF Truthful, Scope, Alone
  <2>2. \A s \in Pkg : Made(s) => Made(s)'
    BY <1>3, <1>4 DEF Made, Same
  <2>3. Made(p)
    BY <1>3, <2>1 DEF MadeWhole
  <2>4. WritesCurrent'
    BY <1>4, <1>11, <2>1 DEF WritesCurrent
  <2>5. MadeWhole'
    <3> SUFFICES ASSUME NEW r \in Project, NEW s \in Pkg, at'[r][s] \in {"made"} \cup Saving
                 PROVE  Made(s)'
      BY DEF MadeWhole, Saving
    <3>1. CASE r # q \/ s # p
      BY <1>3, <2>1, <2>2, <3>1 DEF MadeWhole
    <3> QED
      BY <2>2, <2>3, <3>1
  <2>6. CacheTruthful'
    BY <1>4, <2>1, <2>2 DEF CacheTruthful
  <2>7. SavedTruthful'
    <3> SUFFICES ASSUME NEW r \in Project, NEW t \in Pkg, NEW s \in Pkg,
                        at'[r][t] \in Saving, mem'[r][t][s] = Sum[s][source'[s]]
                 PROVE  out'[s] = None \/ Made(s)'
      BY DEF SavedTruthful, Saving
    <3>1. CASE r # q \/ t # p
      <4>1. at[r][t] \in Saving /\ mem[r][t][s] = Sum[s][source[s]]
        BY <1>3, <1>4, <1>6, <3>1
      <4> QED
        BY <1>4, <2>1, <2>2, <4>1 DEF SavedTruthful
    <3>2. CASE r = q /\ t = p /\ s = p
      BY <2>2, <2>3, <3>2
    <3>3. CASE r = q /\ t = p /\ s # p
      <4>1. step = "loaded"
        BY <1>2, <1>3, <3>3 DEF Saving
      <4>2. cache[s] = Sum[s][source[s]]
        BY <1>4, <1>8, <3>3, <4>1
      <4> QED
        BY <1>4, <2>1, <2>2, <4>2 DEF CacheTruthful
    <3> QED
      BY <3>1, <3>2, <3>3
  <2> QED
    BY <2>4, <2>5, <2>6, <2>7
<1>15. NothingOfNothing'
  <2> SUFFICES ASSUME "clean" \notin events', NEW s \in Pkg, out'[s] = None
               PROVE  /\ cache'[s] = None
                      /\ \A r \in Project : at'[r][s] \in {"none", "start"}
                      /\ \A r \in Project, t \in Pkg : mem'[r][t][s] = None
    BY DEF NothingOfNothing
  <2>1. /\ cache[s] = None
        /\ \A r \in Project : at[r][s] \in {"none", "start"}
        /\ \A r \in Project, t \in Pkg : mem[r][t][s] = None
    BY <1>1, <1>4 DEF NothingOfNothing
  <2>2. s # p
    BY <1>3, <2>1
  <2>3. mem'[q][p][s] = None
    BY <1>2, <1>8, <1>9, <2>1, <2>2, VersionsAreNot
  <2>4. \A r \in Project, t \in Pkg : mem'[r][t][s] = None
    BY <1>6, <2>1, <2>3
  <2> QED
    BY <1>3, <1>4, <2>1, <2>2, <2>4
<1>16. Guarded'
  <2> SUFFICES ASSUME Alone', Steady',
                      NEW r \in Project, NEW s \in Pkg, at'[r][s] \in {"start", "writing"}
               PROVE  cache'[s] # Sum[s][source'[s]] /\ \A t \in Pkg : mem'[r][t][s] # Sum[s][source'[s]]
    BY DEF Guarded
  <2>1. at[r][s] \in {"start", "writing"} /\ (r # q \/ s # p)
    BY <1>11
  <2>2. cache[s] # Sum[s][source[s]] /\ \A t \in Pkg : mem[r][t][s] # Sum[s][source[s]]
    BY <1>1, <1>4, <2>1 DEF Steady, Guarded, Alone
  <2>3. ASSUME r = q PROVE mem'[q][p][s] # Sum[s][source[s]]
    <3>1. mem'[q][p][s] = cache[s] \/ mem'[q][p][s] = None
      BY <1>2, <1>8, <1>9, <2>1, <2>3, VersionsAreNot
    <3>2. Sum[s][source[s]] \in Version
      BY VersionsAreNot DEF WfTypes
    <3> QED
      BY <2>2, <3>1, <3>2, VersionsAreNot
  <2>4. \A t \in Pkg : mem'[r][t][s] # Sum[s][source[s]]
    BY <1>6, <2>2, <2>3
  <2> QED
    BY <1>4, <2>2, <2>4
<1>17. NothingLost'
  <2> SUFFICES ASSUME Alone', NEW r \in Project, NEW t \in Pkg, NEW s \in Pkg,
                      at'[r][t] \in Saving, cache'[s] # None
               PROVE  mem'[r][t][s] # None
    BY DEF NothingLost
  <2>1. CASE r # q \/ t # p
    BY <1>1, <1>3, <1>4, <1>6, <2>1 DEF NothingLost, Alone
  <2>2. CASE r = q /\ t = p
    <3>1. step = "loaded"
      BY <1>2, <1>3, <2>2 DEF Saving
    <3> QED
      BY <1>4, <1>8, <1>10, <2>2, <3>1, VersionsAreNot
  <2> QED
    BY <2>1, <2>2
<1> QED
  BY <1>12, <1>13, <1>14, <1>15, <1>16, <1>17 DEF CacheInv

LEMMA TruncateKeeps ==
    ASSUME WfTypes, CacheInv, NEW q \in Project, NEW p \in Pkg, Truncate(q, p)
    PROVE  CacheInv'
<1>1. Local /\ NotNewer /\ Truthful /\ NothingOfNothing /\ Guarded /\ NothingLost
  BY DEF CacheInv
<1>2. /\ at[q][p] = "loaded" /\ at'[q][p] = "truncated"
      /\ \A r \in Project, s \in Pkg : r # q \/ s # p => at'[r][s] = at[r][s]
      /\ pc[q] = "generate"
  BY ThreadMoves DEF Truncate, Running
<1>3. UNCHANGED <<source, cache, out, pc, mem, using, habit, events>>
  BY DEF Truncate
<1>4. \A r \in Project, s \in Pkg :
         /\ at'[r][s] \in Saving <=> at[r][s] \in Saving
         /\ at'[r][s] \notin Saving => at'[r][s] = at[r][s]
  BY <1>2 DEF Saving
<1>5. Local'
  BY <1>1, <1>2, <1>3, <1>4 DEF Local, Saving, EmptyCache, Version
<1>6. NotNewer'
  BY <1>1, <1>3 DEF NotNewer, Had
<1>7. Truthful'
  <2> SUFFICES ASSUME Scope'
               PROVE  WritesCurrent' /\ MadeWhole' /\ CacheTruthful' /\ SavedTruthful'
    BY DEF Truthful
  <2>1. WritesCurrent /\ MadeWhole /\ CacheTruthful /\ SavedTruthful
    BY <1>1, <1>3 DEF Truthful, Scope, Alone
  <2>2. \A s \in Pkg : Made(s) => Made(s)'
    BY <1>2, <1>3 DEF Made, Same
  <2>3. WritesCurrent'
    BY <1>2, <1>3, <2>1 DEF WritesCurrent
  <2>4. MadeWhole'
    BY <1>2, <2>1, <2>2 DEF MadeWhole, Saving
  <2>5. CacheTruthful'
    BY <1>3, <2>1, <2>2 DEF CacheTruthful
  <2>6. SavedTruthful'
    BY <1>3, <1>4, <2>1, <2>2 DEF SavedTruthful, Saving
  <2> QED
    BY <2>3, <2>4, <2>5, <2>6
<1>8. NothingOfNothing'
  BY <1>1, <1>2, <1>3 DEF NothingOfNothing
<1>9. Guarded'
  <2> SUFFICES ASSUME Alone', Steady',
                      NEW r \in Project, NEW s \in Pkg, at'[r][s] \in {"start", "writing"}
               PROVE  cache'[s] # Sum[s][source'[s]] /\ \A t \in Pkg : mem'[r][t][s] # Sum[s][source'[s]]
    BY DEF Guarded
  <2>1. Alone /\ Steady
    BY <1>3 DEF Steady, Alone
  <2>2. at[r][s] \in {"start", "writing"}
    BY <1>2
  <2> QED
    BY <1>1, <1>3, <2>1, <2>2 DEF Guarded
<1>10. NothingLost'
  BY <1>1, <1>3, <1>4 DEF NothingLost, Alone, Saving
<1> QED
  BY <1>5, <1>6, <1>7, <1>8, <1>9, <1>10 DEF CacheInv

LEMMA SaveKeeps ==
    ASSUME WfTypes, CacheInv, NEW q \in Project, NEW p \in Pkg, Save(q, p)
    PROVE  CacheInv'
<1>1. Local /\ NotNewer /\ Truthful /\ NothingOfNothing /\ Guarded /\ NothingLost
  BY DEF CacheInv
<1>2. /\ at[q][p] = "truncated" /\ at'[q][p] = "done"
      /\ \A r \in Project, s \in Pkg : r # q \/ s # p => at'[r][s] = at[r][s]
      /\ pc[q] = "generate"
  BY ThreadMoves DEF Save, Running
<1>3. UNCHANGED <<source, out, pc, using, habit, events>> /\ cache' = mem[q][p]
  BY DEF Save
<1>4. /\ mem'[q][p] = EmptyCache
      /\ \A r \in Project, t \in Pkg : r # q \/ t # p => mem'[r][t] = mem[r][t]
  <2>1. mem \in [Project -> [Pkg -> Cache]]
    BY DEF WfTypes
  <2> QED
    BY <2>1 DEF Save
<1>5. \A r \in Project, s \in Pkg :
         at'[r][s] # "done" => at[r][s] = at'[r][s] /\ (r # q \/ s # p)
  BY <1>2
<1>6. \A s \in Pkg : Sum[s][source[s]] \in Version
  BY VersionsAreNot DEF WfTypes
<1>7. Local'
  BY <1>1, <1>2, <1>3, <1>4, <1>5 DEF Local, Saving, EmptyCache, Version
<1>8. NotNewer'
  <2>1. ASSUME NEW s \in Pkg, cache'[s] # None PROVE Had(s, cache'[s])
    BY <1>1, <1>3, <2>1 DEF NotNewer, Had
  <2>2. ASSUME NEW r \in Project, NEW t \in Pkg, NEW s \in Pkg, mem'[r][t][s] # None
        PROVE  Had(s, mem'[r][t][s])
    <3>1. r # q \/ t # p
      BY <1>4, <2>2, VersionsAreNot
    <3> QED
      BY <1>1, <1>4, <2>2, <3>1 DEF NotNewer, Had
  <2> QED
    BY <1>3, <2>1, <2>2 DEF NotNewer, Had
<1>9. Truthful'
  <2> SUFFICES ASSUME Scope'
               PROVE  WritesCurrent' /\ MadeWhole' /\ CacheTruthful' /\ SavedTruthful'
    BY DEF Truthful
  <2>1. WritesCurrent /\ MadeWhole /\ CacheTruthful /\ SavedTruthful
    BY <1>1, <1>3 DEF Truthful, Scope, Alone
  <2>2. \A s \in Pkg : Made(s) => Made(s)'
    BY <1>2, <1>3 DEF Made, Same
  <2>3. WritesCurrent'
    BY <1>2, <1>3, <2>1 DEF WritesCurrent
  <2>4. MadeWhole'
    BY <1>2, <2>1, <2>2 DEF MadeWhole, Saving
  <2>5. CacheTruthful'
    BY <1>2, <1>3, <2>1, <2>2 DEF CacheTruthful, SavedTruthful, Saving
  <2>6. SavedTruthful'
    <3> SUFFICES ASSUME NEW r \in Project, NEW t \in Pkg, NEW s \in Pkg,
                        at'[r][t] \in Saving, mem'[r][t][s] = Sum[s][source'[s]]
                 PROVE  out'[s] = None \/ Made(s)'
      BY DEF SavedTruthful, Saving
    <3>1. r # q \/ t # p
      BY <1>2 DEF Saving
    <3>2. at[r][t] \in Saving /\ mem[r][t][s] = Sum[s][source[s]]
      BY <1>2, <1>3, <1>4, <3>1
    <3> QED
      BY <1>3, <2>1, <2>2, <3>2 DEF SavedTruthful
  <2> QED
    BY <2>3, <2>4, <2>5, <2>6
<1>10. NothingOfNothing'
  <2> SUFFICES ASSUME "clean" \notin events', NEW s \in Pkg, out'[s] = None
               PROVE  /\ cache'[s] = None
                      /\ \A r \in Project : at'[r][s] \in {"none", "start"}
                      /\ \A r \in Project, t \in Pkg : mem'[r][t][s] = None
    BY DEF NothingOfNothing
  <2>1. /\ \A r \in Project : at[r][s] \in {"none", "start"}
        /\ \A r \in Project, t \in Pkg : mem[r][t][s] = None
    BY <1>1, <1>3 DEF NothingOfNothing
  <2>2. s # p
    BY <1>2, <2>1
  <2>3. \A r \in Project, t \in Pkg : mem'[r][t][s] = None
    BY <1>4, <2>1, VersionsAreNot
  <2> QED
    BY <1>2, <1>3, <2>1, <2>2, <2>3
<1>11. Guarded'
  <2> SUFFICES ASSUME Alone', Steady',
                      NEW r \in Project, NEW s \in Pkg, at'[r][s] \in {"start", "writing"}
               PROVE  cache'[s] # Sum[s][source'[s]] /\ \A t \in Pkg : mem'[r][t][s] # Sum[s][source'[s]]
    BY DEF Guarded
  <2>1. Alone /\ Steady
    BY <1>3 DEF Steady, Alone
  <2>2. at[r][s] \in {"start", "writing"}
    BY <1>5
  <2>3. r = q
    <3>1. pc[q] # "out"
      BY <1>2
    <3>2. Local /\ Alone
      BY <1>1, <2>1
    <3> QED
      BY <2>2, <3>1, <3>2, OthersIdle
  <2>4. \A t \in Pkg : mem[r][t][s] # Sum[s][source[s]]
    BY <1>1, <2>1, <2>2 DEF Guarded
  <2>5. \A t \in Pkg : mem'[r][t][s] # Sum[s][source[s]]
    BY <1>4, <1>6, <2>4, VersionsAreNot
  <2> QED
    BY <1>3, <2>3, <2>4, <2>5
<1>12. NothingLost'
  <2> SUFFICES ASSUME Alone', NEW r \in Project, NEW t \in Pkg, at'[r][t] \in Saving
               PROVE  FALSE
    BY DEF NothingLost, Saving
  <2>1. at[r][t] \in Saving /\ (r # q \/ t # p)
    BY <1>5 DEF Saving
  <2>2. r = q
    <3>1. pc[q] # "out" /\ at[r][t] # "none"
      BY <1>2, <2>1 DEF Saving
    <3>2. Local /\ Alone
      BY <1>1, <1>3 DEF Alone
    <3> QED
      BY <3>1, <3>2, OthersIdle
  <2> QED
    BY <1>1, <1>2, <2>1, <2>2 DEF Local, Saving
<1> QED
  BY <1>7, <1>8, <1>9, <1>10, <1>11, <1>12 DEF CacheInv

LEMMA EditKeeps ==
    ASSUME WfTypes, CacheInv, NEW p \in Pkg, Edit(p)
    PROVE  CacheInv'
<1>1. Local /\ NotNewer /\ Truthful /\ NothingOfNothing /\ Guarded /\ NothingLost
  BY DEF CacheInv
<1>2. /\ UNCHANGED <<out, cache, pc, at, using, mem, habit>>
      /\ events \subseteq events'
      /\ Quiet \/ "live edit" \in events'
      /\ ComesBack(p) => events' \cap {"live edit", "undo"} # {}
      /\ "clean" \in events' => "clean" \in events
  BY DEF Edit, Happens, threads
<1>3. /\ source'[p] = source[p] + 1
      /\ \A s \in Pkg : s # p => source'[s] = source[s]
  BY DEF Edit, WfTypes
<1>4. MaxVersion \in Nat
  BY WorkflowConstants
<1>5. \A s \in Pkg : source[s] \in Nat
  <2>1. \A s \in Pkg : source[s] \in 0..MaxVersion
    BY DEF WfTypes, Version
  <2> QED
    BY <1>4, <2>1
<1>6. ASSUME Quiet PROVE \A r \in Project, s \in Pkg : at'[r][s] = "none"
  BY <1>1, <1>2, <1>6 DEF Quiet, Local
<1>7. Local'
  BY <1>1, <1>2 DEF Local, EmptyCache, Saving, Version
<1>8. ASSUME NEW v \in Version, NEW s \in Pkg, v <= source[s] PROVE v <= source'[s]
  <2>1. v \in 0..MaxVersion
    BY DEF Version
  <2>2. v \in Nat
    BY <1>4, <2>1
  <2> QED
    BY <1>3, <1>5, <1>8, <2>2
<1>9. NotNewer'
  <2>1. ASSUME NEW s \in Pkg, cache[s] # None PROVE Had(s, cache[s])'
    <3>1. Had(s, cache[s])
      BY <1>1, <2>1 DEF NotNewer
    <3> QED
      BY <1>2, <1>8, <3>1 DEF Had, Version
  <2>2. ASSUME NEW r \in Project, NEW t \in Pkg, NEW s \in Pkg, mem[r][t][s] # None
        PROVE  Had(s, mem[r][t][s])'
    <3>1. Had(s, mem[r][t][s])
      BY <1>1, <2>2 DEF NotNewer
    <3> QED
      BY <1>2, <1>8, <3>1 DEF Had, Version
  <2> QED
    BY <1>2, <2>1, <2>2 DEF NotNewer
<1>10. Truthful'
  <2> SUFFICES ASSUME Scope'
               PROVE  WritesCurrent' /\ MadeWhole' /\ CacheTruthful' /\ SavedTruthful'
    BY DEF Truthful
  <2>1. Quiet /\ Scope
    BY <1>2 DEF Scope, Alone
  <2>2. WritesCurrent' /\ MadeWhole' /\ SavedTruthful'
    BY <1>6, <2>1 DEF WritesCurrent, MadeWhole, SavedTruthful, Saving
  <2>3. ASSUME NEW s \in Pkg, cache[s] = Sum[s][source'[s]]
        PROVE  cache[s] = Sum[s][source[s]]
    <3>1. source'[s] \in Version
      BY TypesStep DEF WfNext, WfTypes
    <3>2. PICK v \in Version : v <= source[s] /\ cache[s] = Sum[s][v]
      BY <1>1, <2>3, <3>1, VersionsAreNot DEF NotNewer, Had, Had
    <3>3. CASE s # p
      BY <1>3, <2>3, <3>3
    <3>4. CASE s = p
      <4>1. ~ComesBack(p)
        BY <1>2 DEF Scope
      <4>2. v \in Nat
        BY <1>4 DEF Version
      <4>3. v < source[p] \/ v = source[p]
        BY <1>5, <3>2, <3>4, <4>2
      <4> QED
        BY <1>3, <2>3, <3>2, <3>4, <4>1, <4>3 DEF ComesBack
    <3> QED
      BY <3>3, <3>4
  <2>4. ASSUME NEW s \in Pkg, cache[s] = Sum[s][source'[s]]
        PROVE  out[s] = None \/ Same(s)'
    <3>1. CacheTruthful
      BY <1>1, <2>1 DEF Truthful
    <3>2. \A r \in Project : at[r][s] # "writing"
      BY <1>2, <1>6, <2>1
    <3>3. out[s] = None \/ Same(s)
      BY <2>3, <2>4, <3>1, <3>2 DEF CacheTruthful, Made
    <3>4. Sum[s][source'[s]] = Sum[s][source[s]]
      BY <2>3, <2>4
    <3> QED
      BY <1>2, <3>3, <3>4 DEF Same
  <2>5. CacheTruthful'
    BY <1>2, <2>4 DEF CacheTruthful, Made
  <2> QED
    BY <2>2, <2>5
<1>11. NothingOfNothing'
  BY <1>1, <1>2 DEF NothingOfNothing
<1>12. Guarded'
  BY <1>2, <1>6 DEF Steady, Guarded
<1>13. NothingLost'
  BY <1>1, <1>2 DEF NothingLost, Alone, Saving
<1> QED
  BY <1>7, <1>9, <1>10, <1>11, <1>12, <1>13 DEF CacheInv

LEMMA CleanKeeps == WfTypes /\ CacheInv /\ Clean => CacheInv'
<1> SUFFICES ASSUME WfTypes, CacheInv, Clean PROVE CacheInv'
  OBVIOUS
<1>1. Local /\ NotNewer /\ Truthful /\ NothingOfNothing /\ Guarded /\ NothingLost
  BY DEF CacheInv
<1>2. /\ UNCHANGED <<source, cache, pc, at, using, mem, habit>>
      /\ Quiet /\ "clean" \in events'
      /\ \A s \in Pkg : out'[s] = None
  BY DEF Clean, Happens, threads
<1>3. \A r \in Project, s \in Pkg : at'[r][s] = "none"
  BY <1>1, <1>2 DEF Quiet, Local
<1>4. Local'
  BY <1>1, <1>2 DEF Local, EmptyCache, Saving, Version
<1>5. NotNewer'
  BY <1>1, <1>2 DEF NotNewer, Had
<1>6. Truthful'
  <2>1. WritesCurrent' /\ MadeWhole' /\ SavedTruthful'
    BY <1>3 DEF WritesCurrent, MadeWhole, SavedTruthful, Saving
  <2>2. CacheTruthful'
    BY <1>2 DEF CacheTruthful
  <2> QED
    BY <2>1, <2>2 DEF Truthful
<1>7. NothingOfNothing' /\ Guarded' /\ NothingLost'
  BY <1>2, <1>3 DEF NothingOfNothing, Guarded, NothingLost, Saving
<1> QED
  BY <1>4, <1>5, <1>6, <1>7 DEF CacheInv

\* What the run holds outside its generating phase.
LEMMA NothingAtWork ==
    ASSUME Local, NEW q \in Project, pc[q] # "generate"
    PROVE  \A p \in Pkg : at[q][p] = "none" /\ mem[q][p] = EmptyCache
BY DEF Local, Saving

LEMMA RunKeeps ==
    ASSUME WfTypes, CacheInv, NEW q \in Project,
           Discover(q) \/ CheckCache(q) \/ Join(q) \/ Patch(q) \/ Patched(q) \/ Kill(q)
    PROVE  CacheInv'
<1>1. Local
  BY DEF CacheInv
<1>2. ASSUME NEW result, Ends(q, result)
      PROVE  /\ \A r \in Project : r # q =>
                   pc'[r] = pc[r] /\ at'[r] = at[r] /\ mem'[r] = mem[r] /\ using'[r] = using[r]
             /\ \A p \in Pkg : mem'[q][p] = EmptyCache /\ at'[q][p] = "none"
  BY <1>2, EndsMoves
<1>3. CASE Discover(q)
  <2>1. /\ UNCHANGED <<source, out, cache, at, mem, using, habit, events>>
        /\ q \in habit.runs /\ pc[q] = "out"
        /\ \A r \in Project : r # q => pc'[r] = pc[r]
    BY <1>3 DEF Discover, files, threads, Goto, WfTypes
  <2>2. \A p \in Pkg : at[q][p] = "none" /\ mem[q][p] = EmptyCache
    BY <1>1, <2>1, NothingAtWork
  <2> QED
    BY <2>1, <2>2, CoordinatorKeeps
<1>4. CASE CheckCache(q)
  <2>1. UNCHANGED <<source, out, cache, habit, events>> /\ pc[q] = "check"
    BY <1>4 DEF CheckCache, files
  <2>2. q \in habit.runs
    BY <1>1, <2>1 DEF Local
  <2>3. \A p \in Pkg : at[q][p] = "none" /\ mem[q][p] = EmptyCache
    BY <1>1, <2>1, NothingAtWork
  <2>4. CASE Ends(q, "err")
    BY <1>2, <2>1, <2>2, <2>3, <2>4, CoordinatorKeeps
  <2>5. CASE ~torn
    <3> DEFINE stale == {p \in deps[q] : ~Valid(p)}
    <3>1. /\ at' = [at EXCEPT ![q] = [p \in Pkg |-> IF p \in stale THEN "start" ELSE "none"]]
          /\ pc' = [pc EXCEPT ![q] = IF stale = {} THEN "patch" ELSE "generate"]
          /\ mem' = mem /\ using' = using
      BY <1>4, <2>5 DEF CheckCache, Goto
    <3>2. \A p \in Pkg : at'[q][p] = IF p \in stale THEN "start" ELSE "none"
      BY <3>1 DEF WfTypes
    <3>3. \A r \in Project : r # q => pc'[r] = pc[r] /\ at'[r] = at[r]
      BY <3>1 DEF WfTypes
    <3>4. stale # {} => pc'[q] = "generate"
      BY <3>1 DEF WfTypes
    <3>5. \A p \in Pkg : \/ at'[q][p] = "none"
                         \/ at'[q][p] = "start" /\ pc'[q] = "generate" /\ ~Valid(p)
      BY <3>2, <3>4
    <3> HIDE DEF stale
    <3> QED
      BY <2>1, <2>2, <2>3, <3>1, <3>3, <3>5, CoordinatorKeeps
  <2> QED
    BY <1>4, <2>4, <2>5 DEF CheckCache
<1>5. CASE Join(q)
  <2>1. UNCHANGED <<source, out, cache, habit, events>> /\ pc[q] = "generate"
    BY <1>5 DEF Join, files
  <2>2. q \in habit.runs
    BY <1>1, <2>1 DEF Local
  <2>3. \A p \in Pkg : at[q][p] \in {"none", "done", "failed"}
    BY <1>5 DEF Join, Todo
  <2>4. \A p \in Pkg : at[q][p] # "writing" /\ mem[q][p] = EmptyCache
    BY <1>1, <2>3 DEF Local, Saving
  <2>5. CASE Ends(q, "err")
    BY <1>2, <2>1, <2>2, <2>4, <2>5, CoordinatorKeeps
  <2>6. CASE ~ \E p \in Todo(q) : at[q][p] = "failed"
    <3>1. /\ at' = [at EXCEPT ![q] = Idle] /\ mem' = mem /\ using' = using
          /\ \E phase : pc' = [pc EXCEPT ![q] = phase]
      BY <1>5, <2>6 DEF Join, Goto
    <3>2. \A p \in Pkg : at'[q][p] = "none"
      BY <3>1 DEF WfTypes, Idle
    <3>3. \A r \in Project : r # q => pc'[r] = pc[r] /\ at'[r] = at[r]
      BY <3>1 DEF WfTypes
    <3> QED
      BY <2>1, <2>2, <2>4, <3>1, <3>2, <3>3, CoordinatorKeeps
  <2> QED
    BY <1>5, <2>5, <2>6 DEF Join
<1>6. CASE Patch(q)
  <2>1. UNCHANGED <<source, out, cache, habit, events>> /\ pc[q] = "patch"
    BY <1>6 DEF Patch
  <2>2. q \in habit.runs
    BY <1>1, <2>1 DEF Local
  <2>3. \A p \in Pkg : at[q][p] = "none" /\ mem[q][p] = EmptyCache
    BY <1>1, <2>1, NothingAtWork
  <2>4. CASE Ends(q, "ok")
    BY <1>2, <2>1, <2>2, <2>3, <2>4, CoordinatorKeeps
  <2>5. CASE gen[q] # {}
    <3>1. UNCHANGED <<at, mem, using>> /\ \A r \in Project : r # q => pc'[r] = pc[r]
      BY <1>6, <2>5 DEF Patch, Goto, threads, WfTypes
    <3> QED
      BY <2>1, <2>2, <2>3, <3>1, CoordinatorKeeps
  <2> QED
    BY <1>6, <2>4, <2>5 DEF Patch
<1>7. CASE Patched(q)
  <2>1. UNCHANGED <<source, out, cache, habit, events>> /\ pc[q] = "patching" /\ Ends(q, "ok")
    BY <1>7 DEF Patched
  <2>2. q \in habit.runs
    BY <1>1, <2>1 DEF Local
  <2>3. \A p \in Pkg : at[q][p] = "none" /\ mem[q][p] = EmptyCache
    BY <1>1, <2>1, NothingAtWork
  <2> QED
    BY <1>2, <2>1, <2>2, <2>3, CoordinatorKeeps
<1>8. CASE Kill(q)
  <2>1. /\ UNCHANGED <<source, out, cache, habit>> /\ pc[q] # "out" /\ Ends(q, "killed")
        /\ events' = events \cup {"kill"}
    BY <1>8 DEF Kill, Happens, files
  <2>2. q \in habit.runs
    BY <1>1, <2>1 DEF Local
  <2> QED
    BY <1>2, <2>1, <2>2, CoordinatorKeeps
<1> QED
  BY <1>3, <1>4, <1>5, <1>6, <1>7, <1>8

LEMMA CacheStep == WfTypes /\ CacheInv /\ [WfNext]_wfVars => CacheInv'
<1> SUFFICES ASSUME WfTypes, CacheInv, [WfNext]_wfVars PROVE CacheInv'
  OBVIOUS
<1>1. ASSUME NEW q \in Project, Step(q) \/ Kill(q) PROVE CacheInv'
  BY <1>1, RunKeeps, GenerateKeeps, GeneratedKeeps, LoadKeeps, TruncateKeeps, SaveKeeps
     DEF Step, Thread
<1>2. ASSUME NEW q \in Project, NEW p \in Pkg, GenerateFails(q, p) PROVE CacheInv'
  BY <1>2, GenerateFailsKeeps
<1>3. ASSUME NEW p \in Pkg, Edit(p) PROVE CacheInv'
  BY <1>3, EditKeeps
<1>4. CASE Clean
  BY <1>4, CleanKeeps
<1>5. CASE UNCHANGED wfVars
  <2>1. UNCHANGED <<source, out, cache, pc, at, using, mem, habit, events>>
    BY <1>5 DEF wfVars
  <2>2. Local' /\ NotNewer'
    BY <2>1 DEF CacheInv, Local, NotNewer, Had, Saving, EmptyCache, Version
  <2>3. /\ WritesCurrent' = WritesCurrent /\ MadeWhole' = MadeWhole
        /\ CacheTruthful' = CacheTruthful /\ SavedTruthful' = SavedTruthful
        /\ Scope' = Scope /\ Steady' = Steady /\ Alone' = Alone
    BY <2>1 DEF WritesCurrent, MadeWhole, CacheTruthful, SavedTruthful, Made, Same, Scope, Steady,
       Alone, Saving
  <2>4. Truthful'
    BY <2>3 DEF CacheInv, Truthful
  <2>5. NothingOfNothing' /\ Guarded' /\ NothingLost'
    BY <2>1, <2>3 DEF CacheInv, NothingOfNothing, Guarded, NothingLost, Saving
  <2> QED
    BY <2>2, <2>4, <2>5 DEF CacheInv
<1> QED
  BY <1>1, <1>2, <1>3, <1>4, <1>5 DEF WfNext

\* The second half of the action property: what is in the cache file stays there.
LEMMA EntriesStay ==
    ASSUME WfTypes, CacheInv, [WfNext]_wfVars, Alone, NEW s \in Pkg, cache[s] # None
    PROVE  cache'[s] # None
<1>1. ASSUME NEW q \in Project, NEW p \in Pkg, Save(q, p) PROVE cache'[s] # None
  <2>1. at[q][p] \in Saving /\ cache' = mem[q][p]
    BY <1>1 DEF Save, Running, Saving
  <2> QED
    BY <2>1 DEF CacheInv, NothingLost
<1>2. (\E q \in Project, p \in Pkg : Save(q, p)) \/ cache' = cache
  BY DEF WfNext, Step, Thread, Discover, CheckCache, Generate, Generated, GenerateFails, Load, Truncate,
     Join, Patch, Patched, Kill, Edit, Clean, files, wfVars
<1> QED
  BY <1>1, <1>2

\* What the cache takes for valid is current, and parallel updates lose no entries
\* (workflow.rs's check_cache and update_cache_threadsafe): for any packages, any
\* projects and any of the events, under the conditions ValidIsFresh states.
THEOREM SpecCacheIsTrue == WfSpec => CacheIsTrue
<1>1. WfInit => WfTypes /\ CacheInv
  BY WfInitially DEF WfInv
<1>2. WfTypes /\ CacheInv /\ [WfNext]_wfVars => (WfTypes /\ CacheInv)'
  BY TypesStep, CacheStep
<1>3. WfTypes /\ CacheInv => ValidIsFresh
  <2> SUFFICES ASSUME WfTypes, CacheInv, Scope, NEW p \in Pkg, Valid(p) PROVE Made(p)
    BY DEF ValidIsFresh, Scope, Made, Same, MadeOf, Checksum
  <2>1. CacheTruthful
    BY DEF CacheInv, Truthful
  <2> QED
    BY <2>1 DEF CacheTruthful, Valid, Checksum
<1>4. WfTypes /\ CacheInv /\ (WfTypes /\ CacheInv)' /\ [WfNext]_wfVars =>
        [ValidIsFresh' /\ (Alone => \A p \in Pkg : cache[p] # None => cache'[p] # None)]_wfVars
  <2>1. (WfTypes /\ CacheInv)' => ValidIsFresh'
    BY <1>3, PTL
  <2> QED
    BY <2>1, EntriesStay
<1> QED
  BY <1>1, <1>2, <1>4, PTL DEF WfSpec, CacheIsTrue

-----------------------------------------------------------------------------
(* Rounds.                                                                  *)

LEMMA ClosureContains ==
    ASSUME NEW P \in SUBSET Pkg
    PROVE  P \subseteq Closure[P] /\ Closure[P] \subseteq Pkg
BY DEF Closure

LEMMA ClosureIsClosed ==
    ASSUME NEW P \in SUBSET Pkg
    PROVE  Closed(Closure[P])
<1> SUFFICES ASSUME NEW p \in Closure[P], NEW d \in Deps[p] PROVE d \in Closure[P]
  BY DEF Closed
<1>1. p \in Pkg /\ d \in Pkg
  BY WorkflowConstants DEF Closure
<1>2. ASSUME NEW S \in SUBSET Pkg, P \subseteq S, Closed(S) PROVE d \in S
  <2>1. p \in S
    BY <1>2 DEF Closure
  <2> QED
    BY <1>2, <2>1 DEF Closed
<1> QED
  BY <1>1, <1>2 DEF Closure

LEMMA ClosureIsLeast ==
    ASSUME NEW P \in SUBSET Pkg, NEW S \in SUBSET Pkg, P \subseteq S, Closed(S)
    PROVE  Closure[P] \subseteq S
BY DEF Closure

LEMMA AllIsNeeded ==
    ASSUME WfTypes, NEW q \in Project
    PROVE  /\ Direct(q) \subseteq All(q)
           /\ \A p \in All(q) : Deps[p] \subseteq All(q)
           /\ Closed(Have) /\ Direct(q) \subseteq Have => All(q) \subseteq Have
<1>1. Direct(q) \in SUBSET Pkg
  BY NeededTypes
<1>2. Have \in SUBSET Pkg
  BY DEF Have
<1> QED
  BY <1>1, <1>2, ClosureContains, ClosureIsClosed, ClosureIsLeast DEF All, Closed

LEMMA DiscoverRound ==
    ASSUME WfTypes, CacheInv, NEW q \in Project, Round(q), Discover(q)
    PROVE  Round(q)'
<1>1. /\ pc[q] = "out" /\ pc'[q] = "check" /\ outcome'[q] = "none"
      /\ deps'[q] = IF Resolvable(q) THEN All(q) ELSE Direct(q)
      /\ UNCHANGED <<source, out, torn, config, seen, gen, at, habit>>
  BY DEF Discover, Goto, files, threads, All, WfTypes
<1>2. Have' = Have /\ All(q)' = All(q) /\ Direct(q)' = Direct(q) /\ Todo(q)' = Todo(q)
  BY <1>1 DEF Have, All, Direct, Todo
<1>3. Todo(q) = {}
  BY <1>1 DEF Todo, CacheInv, Local
<1>4. Direct(q) \subseteq All(q) /\ \A p \in All(q) : Deps[p] \subseteq All(q)
  BY AllIsNeeded
<1>5. /\ seen[q] = {} /\ gen[q] = {} /\ (Have = {} \/ All(q) \subseteq Have)
      /\ Have \subseteq All(q) /\ Have \subseteq config[q]
  BY <1>1, <1>3 DEF Round, BetweenRuns, Needed, PatchedIn
<1>6. Have = {} \/ Resolvable(q)
  BY <1>4, <1>5 DEF Resolvable, All, Have
<1>7. Direct(q) \subseteq deps'[q] /\ deps'[q] \subseteq All(q)
  BY <1>1, <1>4
<1>8. BeforeRound(q)'
  <2>1. \A p \in Pkg : Current(p)' \/ p \in deps'[q]
    <3> SUFFICES ASSUME NEW p \in Pkg, out[p] # None PROVE p \in deps'[q]
      BY <1>1 DEF Current, Same
    <3>1. p \in Have
      BY DEF Have
    <3> QED
      BY <1>1, <1>5, <1>6, <3>1
  <2>2. \A p \in Have : Deps[p] \subseteq deps'[q]
    BY <1>1, <1>4, <1>5, <1>6
  <2> QED
    BY <1>1, <1>2, <1>5, <1>7, <2>1, <2>2 DEF BeforeRound
<1>9. AllWell(q)' /\ Needed(q)' /\ PatchedIn(q)'
  BY <1>1, <1>2, <1>3, <1>5, <1>7 DEF Round, AllWell, Needed, PatchedIn
<1> QED
  BY <1>1, <1>8, <1>9 DEF Round, BetweenRuns, InRound, AfterRounds

LEMMA CheckCacheRound ==
    ASSUME WfTypes, CacheInv, NEW q \in Project, Calm(q), Round(q), CheckCache(q)
    PROVE  Round(q)'
<1> DEFINE stale == {p \in deps[q] : ~Valid(p)}
<1>1. pc[q] = "check"
  BY DEF CheckCache
<1>2. \A r \in Project, p \in Pkg : at[r][p] = "none"
  <2>1. \A r \in Project : r # q => pc[r] = "out"
    BY DEF Calm, CacheInv, Local
  <2> QED
    BY <1>1, <2>1 DEF CacheInv, Local
<1>3. ~torn
  BY <1>2 DEF Round, AllWell
<1>4. /\ \A p \in Pkg : at'[q][p] = IF p \in stale THEN "start" ELSE "none"
      /\ pc'[q] = IF stale = {} THEN "patch" ELSE "generate"
      /\ UNCHANGED <<source, out, torn, config, deps, seen, gen, outcome, habit>>
  BY <1>3 DEF CheckCache, Goto, files, WfTypes
<1>5. stale \subseteq deps[q] /\ deps[q] \subseteq Pkg
  BY DEF WfTypes
<1>6. Have' = Have /\ All(q)' = All(q) /\ Direct(q)' = Direct(q) /\ Todo(q)' = stale /\ Todo(q) = {}
  <2>1. Todo(q)' = stale
    BY <1>4, <1>5 DEF Todo
  <2> QED
    BY <1>2, <1>4, <2>1 DEF Have, All, Direct, Todo
<1>7. /\ \A p \in Pkg : Current(p) \/ p \in deps[q]
      /\ Direct(q) \subseteq Have \cup deps[q]
      /\ \A p \in Have : Deps[p] \subseteq Have \cup deps[q]
      /\ seen[q] \subseteq Have \cup deps[q]
  BY <1>1 DEF Round, BeforeRound
<1>8. ASSUME NEW p \in deps[q], p \notin stale PROVE p \in Have /\ Current(p)
  <2>1. p \in Pkg /\ Valid(p)
    BY <1>5, <1>8
  <2>2. Scope
    BY DEF Calm, Scope, Alone
  <2>3. Made(p)
    BY <2>1, <2>2 DEF CacheInv, Truthful, CacheTruthful, Valid, Checksum
  <2>4. Same(p)
    BY <1>2, <2>1, <2>3 DEF Made, Same
  <2> QED
    BY <2>1, <2>4 DEF Have, Valid, Checksum, Current, Same
<1>9. Have \cup deps[q] = Have \cup stale
  BY <1>5, <1>8
<1>10. \A p \in Pkg : Current(p)' \/ p \in stale
  BY <1>4, <1>7, <1>8 DEF Current, Same
<1> HIDE DEF stale
<1>11. InRound(q)'
  <2>1. \A p \in Pkg : Current(p)' \/ at'[q][p] \in {"start", "writing"}
    BY <1>4, <1>10
  <2>2. \A p \in Pkg : at'[q][p] \in {"none", "start", "writing"}
    BY <1>4
  <2> QED
    BY <1>4, <1>6, <1>7, <1>9, <2>1, <2>2 DEF InRound
<1>12. AfterRounds(q)'
  BY <1>4, <1>6, <1>7, <1>9, <1>10 DEF AfterRounds, Closed
<1>13. AllWell(q)' /\ Needed(q)' /\ PatchedIn(q)'
  BY <1>3, <1>4, <1>5, <1>6 DEF Round, AllWell, Needed, PatchedIn
<1>14. outcome[q] # "ok"
  BY <1>1 DEF Round
<1> QED
  BY <1>4, <1>11, <1>12, <1>13, <1>14 DEF Round, BetweenRuns, BeforeRound

\* Generate and Generated: one package more is there.
LEMMA MakingRound ==
    ASSUME WfTypes, CacheInv, NEW q \in Project, NEW p \in Pkg, Calm(q), Round(q),
           Generate(q, p) \/ Generated(q, p)
    PROVE  Round(q)'
<1>1. /\ pc[q] = "generate" /\ at[q][p] \in {"start", "writing"}
      /\ UNCHANGED <<source, torn, config, pc, deps, seen, gen, outcome, habit>>
  BY DEF Generate, Generated, Running
<1>2. PICK step \in {"writing", "made"} : ThreadTo(q, p, step)
  BY DEF Generate, Generated
<1>3. at'[q][p] = step /\ \A s \in Pkg : s # p => at'[q][s] = at[q][s]
  BY <1>2, ThreadMoves
<1>4. out'[p] # None /\ \A s \in Pkg : s # p => out'[s] = out[s]
  <2>1. source[p] \in Version /\ (at[q][p] = "writing" => using[q][p] \in Version)
    BY DEF CacheInv, Local, WfTypes
  <2>2. at[q][p] = "start" => out' = [out EXCEPT ![p] = IF @ = source[p] THEN @ ELSE Partial]
    BY DEF Generate, Generated, Running
  <2>3. at[q][p] = "writing" =>
          out' = [out EXCEPT ![p] =
                     IF Contended(q, p) /\ @ # using[q][p] THEN Partial ELSE using[q][p]]
    BY DEF Generate, Generated, Running
  <2> QED
    BY <1>1, <2>1, <2>2, <2>3, VersionsAreNot DEF WfTypes
<1>5. step = "made" => Same(p)'
  <2> SUFFICES ASSUME step = "made" PROVE Same(p)'
    OBVIOUS
  <2>1. Generated(q, p) /\ at[q][p] = "writing"
    BY <1>3, ThreadMoves DEF Generate, Generated, Running
  <2>2. \A r \in Project : r # q => pc[r] = "out"
    BY DEF Calm, CacheInv, Local
  <2>3. ~Contended(q, p)
    BY <2>2 DEF Contended, CacheInv, Local
  <2>4. out'[p] = using[q][p]
    BY <2>1, <2>3 DEF Generated, WfTypes
  <2>5. Scope
    BY DEF Calm, Scope, Alone
  <2> QED
    BY <1>1, <2>1, <2>4, <2>5 DEF CacheInv, Truthful, WritesCurrent, Same, WfTypes
<1>6. Have' = Have \cup {p} /\ All(q)' = All(q) /\ Direct(q)' = Direct(q)
  BY <1>1, <1>4 DEF Have, All, Direct
<1>7. Todo(q)' = Todo(q) /\ p \in Todo(q)
  BY <1>1, <1>2, <1>3 DEF Todo
<1>8. /\ \A s \in Pkg : Current(s) \/ at[q][s] \in {"start", "writing"}
      /\ \A s \in Pkg : at[q][s] \notin {"none", "start", "writing"} => s \in Have
      /\ Direct(q) \subseteq Have \cup Todo(q)
      /\ \A s \in Have \ Todo(q) : Deps[s] \subseteq Have \cup Todo(q)
      /\ seen[q] \subseteq Have \cup Todo(q)
  BY <1>1 DEF Round, InRound
<1>9. InRound(q)'
  <2>1. \A s \in Pkg : Current(s)' \/ at'[q][s] \in {"start", "writing"}
    BY <1>1, <1>2, <1>3, <1>4, <1>5, <1>8 DEF Current, Same
  <2>2. \A s \in Pkg : at'[q][s] \notin {"none", "start", "writing"} => s \in Have'
    BY <1>3, <1>6, <1>8
  <2> QED
    BY <1>1, <1>6, <1>7, <1>8, <2>1, <2>2 DEF InRound
<1>10. AllWell(q)'
  <2>1. torn => \E s \in Pkg : at[q][s] = "truncated" /\ s # p
    BY <1>1 DEF Round, AllWell
  <2> QED
    BY <1>1, <1>2, <1>3, <2>1 DEF Round, AllWell
<1>11. Needed(q)' /\ PatchedIn(q)'
  BY <1>1, <1>6, <1>7 DEF Round, Needed, PatchedIn
<1> QED
  BY <1>1, <1>9, <1>10, <1>11 DEF Round, BetweenRuns, BeforeRound, AfterRounds

\* Load, Truncate and Save: the bindings stay as they are.
LEMMA RecordingRound ==
    ASSUME WfTypes, CacheInv, NEW q \in Project, NEW p \in Pkg, Calm(q), Round(q),
           Load(q, p) \/ Truncate(q, p) \/ Save(q, p)
    PROVE  Round(q)'
<1>1. /\ pc[q] = "generate" /\ at[q][p] \in {"made", "loaded", "truncated"}
      /\ UNCHANGED <<source, out, config, pc, deps, seen, gen, outcome, habit>>
  BY DEF Load, Truncate, Save, Running, files
<1>2. AllWell(q)
  BY DEF Round
<1>3. PICK step \in {"loaded", "truncated", "done"} : ThreadTo(q, p, step)
  <2>1. Load(q, p) => ~torn
    BY <1>2 DEF AllWell, Load
  <2> QED
    BY <2>1 DEF Load, Truncate, Save
<1>4. at'[q][p] = step /\ \A s \in Pkg : s # p => at'[q][s] = at[q][s]
  BY <1>3, ThreadMoves
<1>5. torn' => step = "truncated" \/ \E s \in Pkg : at[q][s] = "truncated" /\ s # p
  <2>1. Load(q, p) => ~torn'
    BY <1>2 DEF AllWell, Load, files
  <2>2. Truncate(q, p) => step = "truncated"
    BY <1>4, ThreadMoves DEF Truncate
  <2>3. Save(q, p) => ~torn'
    BY DEF Save
  <2> QED
    BY <2>1, <2>2, <2>3
<1>6. Have' = Have /\ All(q)' = All(q) /\ Direct(q)' = Direct(q)
  BY <1>1 DEF Have, All, Direct
<1>7. Todo(q)' = Todo(q)
  BY <1>1, <1>3, <1>4 DEF Todo
<1>8. InRound(q)'
  <2>1. /\ \A s \in Pkg : Current(s) \/ at[q][s] \in {"start", "writing"}
        /\ \A s \in Pkg : at[q][s] \notin {"none", "start", "writing"} => s \in Have
    BY <1>1 DEF Round, InRound
  <2>2. \A s \in Pkg : Current(s)' \/ at'[q][s] \in {"start", "writing"}
    BY <1>1, <1>4, <2>1 DEF Current, Same
  <2>3. \A s \in Pkg : at'[q][s] \notin {"none", "start", "writing"} => s \in Have'
    BY <1>1, <1>4, <1>6, <2>1
  <2> QED
    BY <1>1, <1>6, <1>7, <2>2, <2>3 DEF Round, InRound
<1>9. AllWell(q)'
  BY <1>2, <1>3, <1>4, <1>5 DEF AllWell
<1>10. Needed(q)' /\ PatchedIn(q)'
  BY <1>1, <1>6, <1>7 DEF Round, Needed, PatchedIn
<1> QED
  BY <1>1, <1>8, <1>9, <1>10 DEF Round, BetweenRuns, BeforeRound, AfterRounds

LEMMA JoinRound ==
    ASSUME WfTypes, CacheInv, NEW q \in Project, Calm(q), Round(q), Join(q)
    PROVE  Round(q)'
<1> DEFINE new == (UNION {Deps[p] : p \in Todo(q)}) \ (seen[q] \cup Todo(q))
<1>1. pc[q] = "generate" /\ \A p \in Pkg : at[q][p] \in {"none", "done"}
  BY DEF Join, Todo, Round, AllWell
<1>2. /\ UNCHANGED <<source, out, torn, config, outcome, habit>>
      /\ \A p \in Pkg : at'[q][p] = "none"
      /\ pc'[q] = IF new = {} THEN "patch" ELSE "check"
      /\ gen'[q] = gen[q] \cup Todo(q)
      /\ seen'[q] = seen[q] \cup Todo(q) \cup new
      /\ deps'[q] = new
  <2>1. ~ \E p \in Todo(q) : at[q][p] = "failed"
    BY <1>1 DEF Todo
  <2>2. /\ UNCHANGED <<source, out, torn, config, outcome, habit>>
        /\ gen' = [gen EXCEPT ![q] = @ \cup Todo(q)]
        /\ seen' = [seen EXCEPT ![q] = @ \cup Todo(q) \cup new]
        /\ deps' = [deps EXCEPT ![q] = new]
        /\ at' = [at EXCEPT ![q] = Idle]
        /\ pc' = [pc EXCEPT ![q] = IF new = {} THEN "patch" ELSE "check"]
    BY <2>1 DEF Join, Goto, files
  <2> HIDE DEF new
  <2> QED
    BY <2>2 DEF Idle, WfTypes
<1>3. Have' = Have /\ All(q)' = All(q) /\ Direct(q)' = Direct(q) /\ Todo(q)' = {}
  BY <1>2 DEF Have, All, Direct, Todo
<1>4. Todo(q) \subseteq Have
  BY <1>1 DEF Round, InRound, Todo
<1>5. /\ \A p \in Pkg : Current(p)
      /\ Direct(q) \subseteq Have
      /\ \A p \in Have \ Todo(q) : Deps[p] \subseteq Have
      /\ seen[q] \subseteq Have
  BY <1>1, <1>4 DEF Round, InRound
<1>6. \A p \in Todo(q) : Deps[p] \subseteq Have \cup new
  BY <1>4, <1>5
<1>7. new \subseteq All(q)
  <2>1. \A p \in All(q) : Deps[p] \subseteq All(q)
    BY AllIsNeeded
  <2> QED
    BY <2>1 DEF Round, Needed
<1>8. outcome[q] # "ok"
  BY <1>1 DEF Round
<1> HIDE DEF new
<1>9. \A p \in Pkg : Current(p)'
  BY <1>2, <1>5 DEF Current, Same
<1>10. \A p \in Have : Deps[p] \subseteq Have \cup new
  BY <1>5, <1>6
<1>11. BeforeRound(q)'
  BY <1>2, <1>3, <1>4, <1>5, <1>9, <1>10 DEF BeforeRound
<1>12. AfterRounds(q)'
  BY <1>2, <1>3, <1>5, <1>9, <1>10 DEF AfterRounds, Closed
<1>13. AllWell(q)'
  BY <1>1, <1>2 DEF Round, AllWell
<1>14. Needed(q)' /\ PatchedIn(q)'
  BY <1>2, <1>3, <1>7 DEF Round, Needed, PatchedIn
<1> QED
  BY <1>2, <1>8, <1>11, <1>12, <1>13, <1>14 DEF Round, BetweenRuns, InRound

\* The end of a run that patched, or had nothing to patch.
LEMMA OkRound ==
    ASSUME WfTypes, CacheInv, NEW q \in Project, Round(q), pc[q] \in {"patch", "patching"},
           Ends(q, "ok"), UNCHANGED <<source, out, torn, habit>>, Have \subseteq config'[q]
    PROVE  Round(q)'
<1>1. /\ pc'[q] = "out" /\ deps'[q] = {} /\ seen'[q] = {} /\ gen'[q] = {}
      /\ outcome'[q] = "ok"
      /\ \A p \in Pkg : at'[q][p] = "none"
  BY EndsMoves
<1>2. Have' = Have /\ All(q)' = All(q) /\ Todo(q)' = {}
  BY <1>1 DEF Have, All, Direct, Todo
<1>3. All(q) \subseteq Have /\ \A p \in Pkg : Current(p)
  BY AllIsNeeded DEF Round, AfterRounds
<1>4. All(q) \subseteq Pkg
  BY NeededTypes
<1>5. ~torn
  BY DEF Round, AllWell, CacheInv, Local
<1>6. Complete(q)'
  BY <1>2, <1>3, <1>4 DEF Complete, Current, Have, Same
<1>7. BetweenRuns(q)'
  BY <1>1, <1>2, <1>3 DEF BetweenRuns
<1>8. AllWell(q)' /\ Needed(q)' /\ PatchedIn(q)'
  BY <1>1, <1>2, <1>5 DEF Round, AllWell, Needed, PatchedIn
<1> QED
  BY <1>1, <1>6, <1>7, <1>8 DEF Round, BeforeRound, InRound, AfterRounds

LEMMA PatchRound ==
    ASSUME WfTypes, CacheInv, NEW q \in Project, Round(q), Patch(q) \/ Patched(q)
    PROVE  Round(q)'
<1>1. CASE Patch(q) /\ gen[q] = {}
  <2>1. /\ pc[q] = "patch" /\ Ends(q, "ok") /\ UNCHANGED <<source, out, torn, habit, config>>
    BY <1>1 DEF Patch
  <2>2. Todo(q) = {}
    BY <2>1 DEF Todo, CacheInv, Local
  <2>3. Have \subseteq config[q]
    BY <1>1, <2>2 DEF Round, PatchedIn
  <2> QED
    BY <2>1, <2>3, OkRound
<1>2. CASE Patch(q) /\ gen[q] # {}
  <2>1. /\ pc[q] = "patch" /\ pc'[q] = "patching"
        /\ config'[q] = {} /\ gen'[q] = gen[q] \cup config[q]
        /\ UNCHANGED <<source, out, torn, deps, seen, at, outcome, habit>>
    BY <1>2 DEF Patch, Goto, threads, WfTypes
  <2>2. /\ Have' = Have /\ All(q)' = All(q) /\ Direct(q)' = Direct(q) /\ Todo(q)' = Todo(q)
        /\ \A p \in Pkg : Current(p)' = Current(p)
    BY <2>1 DEF Have, All, Direct, Todo, Current, Same
  <2>3. Todo(q) = {}
    BY <2>1 DEF Todo, CacheInv, Local
  <2>4. AllWell(q)' /\ Needed(q)' /\ PatchedIn(q)'
    BY <2>1, <2>2, <2>3 DEF Round, AllWell, Needed, PatchedIn
  <2>5. AfterRounds(q)'
    BY <2>1, <2>2 DEF Round, AfterRounds, Closed
  <2>6. outcome[q] # "ok"
    BY <2>1 DEF Round
  <2> QED
    BY <2>1, <2>4, <2>5, <2>6 DEF Round, BetweenRuns, BeforeRound, InRound
<1>3. CASE Patched(q)
  <2>1. /\ pc[q] = "patching" /\ Ends(q, "ok") /\ UNCHANGED <<source, out, torn, habit>>
        /\ config'[q] = gen[q]
    BY <1>3 DEF Patched, WfTypes
  <2>2. Have \subseteq config'[q]
    BY <2>1 DEF Round, PatchedIn
  <2> QED
    BY <2>1, <2>2, OkRound
<1> QED
  BY <1>1, <1>2, <1>3

\* An edit or a clean while nothing runs.
LEMMA QuietRound ==
    ASSUME WfTypes, CacheInv, NEW q \in Project, Round(q), pc[q] = "out",
           Clean \/ \E p \in Pkg : Edit(p)
    PROVE  Round(q)'
<1>1. /\ UNCHANGED <<torn, config, pc, deps, seen, gen, at, habit>> /\ outcome'[q] = "none"
  BY DEF Clean, Edit, Outdated, Happens, threads
<1>2. Have' = Have \/ Have' = {}
  BY DEF Clean, Edit, Have
<1>3. All(q)' = All(q) /\ Todo(q)' = Todo(q)
  BY <1>1 DEF All, Direct, Todo
<1>4. BetweenRuns(q)'
  BY <1>1, <1>2, <1>3 DEF Round, BetweenRuns
<1>5. AllWell(q)' /\ Needed(q)' /\ PatchedIn(q)'
  BY <1>1, <1>2, <1>3 DEF Round, AllWell, Needed, PatchedIn
<1> QED
  BY <1>1, <1>4, <1>5 DEF Round, BeforeRound, InRound, AfterRounds

\* In a project that is alone all steps are its own.
LEMMA RoundsStep == WfTypes /\ CacheInv /\ Rounds /\ [WfNext]_wfVars => Rounds'
<1> SUFFICES ASSUME WfTypes, CacheInv, Rounds, [WfNext]_wfVars, NEW q \in Project, Calm(q)'
             PROVE  Round(q)'
  BY DEF Rounds
<1>1. habit' = habit /\ events \subseteq events'
  BY DEF WfNext, Step, Thread, Discover, CheckCache, Generate, Generated, GenerateFails, Load, Truncate,
     Save, Join, Patch, Patched, Kill, Edit, Clean, Happens, wfVars
<1>2. Calm(q)
  BY <1>1 DEF Calm
<1>3. Round(q)
  BY <1>2 DEF Rounds
<1>4. \A r \in Project : pc[r] # "out" => r = q
  BY <1>2 DEF Calm, CacheInv, Local
<1>5. ASSUME NEW r \in Project, Discover(r) \/ CheckCache(r) \/ Join(r) \/ Patch(r) \/ Patched(r)
      PROVE  Round(q)'
  <2>1. r = q
    BY <1>2, <1>4, <1>5 DEF Discover, CheckCache, Join, Patch, Patched, Calm
  <2> QED
    BY <1>2, <1>3, <1>5, <2>1, DiscoverRound, CheckCacheRound, JoinRound, PatchRound
<1>6. ASSUME NEW r \in Project, NEW p \in Pkg, Thread(r, p) PROVE Round(q)'
  <2>1. pc[r] = "generate"
    BY <1>6 DEF Thread, Generate, Generated, Load, Truncate, Save, Running
  <2>2. r = q
    BY <1>4, <2>1
  <2> QED
    BY <1>2, <1>3, <1>6, <2>2, MakingRound, RecordingRound DEF Thread
<1>7. ASSUME NEW r \in Project, Kill(r) \/ \E p \in Pkg : GenerateFails(r, p) PROVE FALSE
  <2>1. "kill" \in events' \/ "fail" \in events'
    BY <1>7 DEF Kill, GenerateFails, Happens
  <2> QED
    BY <2>1 DEF Calm
<1>8. CASE Clean \/ \E p \in Pkg : Edit(p)
  <2>1. Quiet \/ "live edit" \in events'
    BY <1>8 DEF Clean, Edit, Happens
  <2>2. pc[q] = "out"
    BY <2>1 DEF Calm, Quiet
  <2> QED
    BY <1>3, <1>8, <2>2, QuietRound
<1>9. CASE UNCHANGED wfVars
  <2>1. /\ UNCHANGED <<source, out, torn, config, pc, deps, seen, gen, at, outcome, habit>>
    BY <1>9 DEF wfVars
  <2>2. /\ Have' = Have /\ All(q)' = All(q) /\ Direct(q)' = Direct(q) /\ Todo(q)' = Todo(q)
        /\ \A p \in Pkg : Current(p)' = Current(p)
    BY <2>1 DEF Have, All, Direct, Todo, Current, Same
  <2>3. BetweenRuns(q)' /\ BeforeRound(q)' /\ InRound(q)' /\ AfterRounds(q)'
    BY <1>3, <2>1, <2>2 DEF Round, BetweenRuns, BeforeRound, InRound, AfterRounds, Closed
  <2>4. AllWell(q)' /\ Needed(q)' /\ PatchedIn(q)'
    BY <1>3, <2>1, <2>2 DEF Round, AllWell, Needed, PatchedIn
  <2> QED
    BY <1>3, <2>1, <2>2, <2>3, <2>4 DEF Round, Complete, Same
<1> QED
  BY <1>5, <1>6, <1>7, <1>8, <1>9 DEF WfNext, Step

LEMMA ReportersStep == WfTypes /\ CacheInv /\ Reporters /\ [WfNext]_wfVars => Reporters'
<1> SUFFICES ASSUME WfTypes, CacheInv, Reporters, [WfNext]_wfVars,
                    NEW q \in Project, outcome'[q] # "none"
             PROVE  q \in habit'.runs
  BY DEF Reporters
<1>1. habit' = habit
  BY DEF WfNext, Step, Thread, Discover, CheckCache, Generate, Generated, GenerateFails, Load, Truncate,
     Save, Join, Patch, Patched, Kill, Edit, Clean, Happens, wfVars
<1>2. ASSUME NEW r \in Project, NEW result, Ends(r, result), pc[r] # "out" PROVE q \in habit.runs
  BY <1>2, EndsMoves DEF Reporters, CacheInv, Local
<1>3. \/ outcome'[q] = outcome[q]
      \/ \E r \in Project, result \in Outcomes : Ends(r, result) /\ pc[r] # "out"
  <2>1. ASSUME NEW r \in Project, Discover(r) PROVE outcome'[q] \in {"none", outcome[q]}
    BY <2>1 DEF Discover, WfTypes
  <2> QED
    BY <2>1 DEF WfNext, Step, Thread, CheckCache, Generate, Generated, GenerateFails, Load, Truncate,
       Save, Join, Patch, Patched, Kill, Edit, Clean, Outdated, Outcomes, wfVars
<1> QED
  BY <1>1, <1>2, <1>3 DEF Reporters

\* A run of a project that is alone, and whose runs all went to the end, leaves every
\* package it needs, current and patched in (WorkflowContext::run's Ok): for any
\* packages and dependencies between them.
THEOREM SpecComplete == WfSpec => []CompleteUnlessInterrupted
<1>1. WfInit => WfInv
  BY WfInitially
<1>2. WfInv /\ [WfNext]_wfVars => WfInv'
  BY TypesStep, CacheStep, RoundsStep, ReportersStep DEF WfInv
<1>3. WfInv => CompleteUnlessInterrupted
  <2> SUFFICES ASSUME WfInv, Alone, events \subseteq {"edit", "clean"},
                      NEW q \in Project, outcome[q] = "ok"
               PROVE  \A p \in Closure[Direct(q)] : MadeOf(p) /\ p \in config[q]
    BY DEF CompleteUnlessInterrupted, OkMeansComplete
  <2>1. q \in habit.runs
    BY DEF WfInv, Reporters
  <2>2. Calm(q)
    BY <2>1 DEF Calm, Alone
  <2> QED
    BY <2>2 DEF WfInv, Rounds, Round, Complete, All, Same, MadeOf, Checksum
<1> QED
  BY <1>1, <1>2, <1>3, PTL DEF WfSpec
=============================================================================
