--------------------------- MODULE CodegenProofs ---------------------------
(***************************************************************************)
(* Theorems about four of the modules the run codegen composes: the bake   *)
(* of nros codegen-system, the program that is generated for a plan with   *)
(* its bridges, and the bindings generated for interface packages.         *)
(*                                                                         *)
(* Bake.  For any workspaces, requests, runs and kills: files that are     *)
(* known to be of a request are what the present workspace renders for it, *)
(* and only a system's own files decide what a request means.  A command   *)
(* that is alone with the workspace it has read leaves nothing behind it   *)
(* that is not current (AloneIsCurrent); once the files are known to be of *)
(* a request, every command at work repeats it (BakedIsKnown).             *)
(*                                                                         *)
(* Program.  For any plans, a program that spins does what its plan says   *)
(* of the callbacks, nodes, sessions and scheduling contexts.  What is     *)
(* declared so far is a beginning of the plan's nodes, and what is         *)
(* registered one of its callbacks (NodesAsPlanned, HandlesAsPlanned).     *)
(*                                                                         *)
(* Bridges.  For any sessions, bridges and topics, where no two bridges    *)
(* share a name, a sample gets everywhere its topic's bridges lead, and    *)
(* nowhere twice unless they form a cycle.  The first half is proved over  *)
(* the samples that fly: what one end of a bridge saw, every other end saw *)
(* too, or one that the bridge will not take for its own echo is on its    *)
(* way there (Relayed).  For the other half the count that Forest makes is *)
(* turned into a tree below the session of the component (ForestIsTree),   *)
(* and what flies comes down that tree or is dropped (ComesDown).          *)
(*                                                                         *)
(* Bindings.  For any installations, projects, runs, kills and edits,      *)
(* where no package has the name another is renamed to: what a run that    *)
(* returned Ok has generated is of the interface files as they are, and    *)
(* CMake writes no umbrella header before those it includes.  While a run  *)
(* generates nothing was edited and it holds what the index has            *)
(* (AsLoaded); the crates it has made are of their packages' files, under  *)
(* the old or the new name (CratesSoFar), and so are the headers           *)
(* (HeadersSoFar).  Whatever order the hash maps give, resolve-deps puts   *)
(* dependencies first (ResolveOrders, ScriptOrdered), and the build goes   *)
(* on in that order (BuildGoesOn).                                         *)
(*                                                                         *)
(* Bake and program are built with FlattenSeq; what it does for every      *)
(* input is proved first, by the least position where it would go wrong.   *)
(***************************************************************************)
EXTENDS SystemBake, GeneratedSystem, BridgeForwarding, BindingGeneration,
        FiniteSetTheorems, WellFoundedInduction, TLAPS

-----------------------------------------------------------------------------
(* Induction over the natural numbers, for sets.                           *)

Below == {pair \in Nat \X Nat : pair[1] < pair[2]}

LEMMA BelowWellFounded == IsWellFoundedOn(Below, Nat)
BY NatLessThanWellFounded DEF Below, OpToRel

\* A set of numbers that is not empty has a least one.
LEMMA LeastNumber ==
    ASSUME NEW T \in SUBSET Nat, T # {}
    PROVE  \E n \in T : \A m \in T : n <= m
<1>1. PICK n \in T : \A m \in T : ~(<<m, n>> \in Below)
  BY BelowWellFounded, WFMin
<1>2. ASSUME NEW m \in T PROVE n <= m
  <2>1. m \in Nat /\ n \in Nat
    OBVIOUS
  <2>2. m < n => <<m, n>> \in Below
    BY <2>1 DEF Below
  <2> QED
    BY <1>1, <2>1, <2>2
<1> QED
  BY <1>2

\* f is the concatenations of the first n sequences of seqs
Flattens(f, seqs, n) ==
    f = [i \in 1..n |-> IF i = 1 THEN seqs[i] ELSE f[i - 1] \o seqs[i]]

LEMMA FlattenByParts ==
    ASSUME NEW seqs, Len(seqs) # 0
    PROVE  FlattenSeq(seqs) = (CHOOSE f : Flattens(f, seqs, Len(seqs)))[Len(seqs)]
BY DEF FlattenSeq, Flattens

\* such an f there is
LEMMA PartsExist ==
    ASSUME NEW seqs, NEW n \in Nat
    PROVE  \E f : Flattens(f, seqs, n)
<1> DEFINE Bad == {m \in Nat : ~(\E f : Flattens(f, seqs, m))}
<1> SUFFICES ASSUME Bad # {} PROVE FALSE
  OBVIOUS
<1>1. PICK m \in Bad : \A k \in Bad : m <= k
  BY LeastNumber
<1>2. CASE m = 0
  <2>1. Flattens([i \in 1..0 |-> i], seqs, 0)
    BY DEF Flattens
  <2> QED
    BY <1>2, <2>1
<1>3. CASE m # 0
  <2>1. m - 1 \in Nat /\ m - 1 \notin Bad
    BY <1>1, <1>3
  <2>2. PICK f : Flattens(f, seqs, m - 1)
    BY <2>1
  <2> DEFINE g == [i \in 1..m |-> IF i = 1 THEN seqs[i] ELSE f[i - 1] \o seqs[i]]
  <2>3. ASSUME NEW i \in 1..(m - 1) PROVE f[i] = g[i]
    <3>1. i \in 1..m
      BY <2>1
    <3>2. f[i] = IF i = 1 THEN seqs[i] ELSE f[i - 1] \o seqs[i]
      BY <2>2 DEF Flattens
    <3> QED
      BY <3>1, <3>2
  <2>4. \A i \in 1..m : i # 1 => i - 1 \in 1..(m - 1)
    OBVIOUS
  <2>5. g = [i \in 1..m |-> IF i = 1 THEN seqs[i] ELSE g[i - 1] \o seqs[i]]
    BY <2>3, <2>4
  <2>6. Flattens(g, seqs, m)
    BY <2>5 DEF Flattens
  <2> QED
    BY <2>6
<1> QED
  BY <1>2, <1>3

LEMMA AppendIs ==
    ASSUME NEW S, NEW s \in Seq(S), NEW e \in S
    PROVE  /\ Append(s, e) \in Seq(S) /\ Len(Append(s, e)) = Len(s) + 1
           /\ DOMAIN Append(s, e) = 1..(Len(s) + 1)
           /\ \A k \in DOMAIN Append(s, e) :
                 \/ k \in DOMAIN s /\ Append(s, e)[k] = s[k]
                 \/ k = Len(s) + 1 /\ Append(s, e)[k] = e
OBVIOUS

LEMMA InSeq ==
    ASSUME NEW S, NEW s \in Seq(S)
    PROVE  /\ \A x \in ToSet(s) : x \in S
           /\ DOMAIN s = 1..Len(s) /\ Len(s) \in Nat
           /\ \A i \in 1..Len(s) : s[i] \in S /\ s[i] \in ToSet(s)
BY DEF ToSet

LEMMA SeqOver ==
    ASSUME NEW S, NEW s \in Seq(S), NEW T, \A x \in ToSet(s) : x \in T
    PROVE  s \in Seq(T)
<1>1. \A i \in 1..Len(s) : s[i] \in T
  BY InSeq
<1> QED
  BY <1>1

LEMMA JoinType ==
    ASSUME NEW S, NEW s \in Seq(S), NEW t \in Seq(S)
    PROVE  /\ s \o t \in Seq(S)
           /\ \A i \in 1..Len(s) : i \in DOMAIN (s \o t) /\ (s \o t)[i] = s[i]
OBVIOUS

LEMMA JoinHas ==
    ASSUME NEW S, NEW s \in Seq(S), NEW t \in Seq(S), NEW x \in ToSet(s) \cup ToSet(t)
    PROVE  x \in ToSet(s \o t)
<1>1. CASE x \in ToSet(s)
  BY <1>1, JoinType DEF ToSet
<1>2. CASE x \in ToSet(t)
  <2>1. PICK i \in 1..Len(t) : x = t[i]
    BY <1>2 DEF ToSet
  <2>2. Len(s) + i \in DOMAIN (s \o t) /\ (s \o t)[Len(s) + i] = t[i]
    BY <2>1
  <2> QED
    BY <2>1, <2>2 DEF ToSet
<1> QED
  BY <1>1, <1>2

\* FlattenSeq is the last of its concatenations, and all of these are over S
LEMMA FlattenParts ==
    ASSUME NEW S, NEW seqs \in Seq(Seq(S)), Len(seqs) # 0
    PROVE  \E f : /\ Flattens(f, seqs, Len(seqs)) /\ FlattenSeq(seqs) = f[Len(seqs)]
                  /\ \A i \in 1..Len(seqs) : f[i] \in Seq(S)
<1> DEFINE n == Len(seqs)
<1>1. n \in Nat /\ n # 0 /\ \A i \in 1..n : seqs[i] \in Seq(S)
  OBVIOUS
<1>2. PICK f : f = (CHOOSE g : Flattens(g, seqs, n))
  OBVIOUS
<1>3. Flattens(f, seqs, n)
  BY <1>1, <1>2, PartsExist
<1> DEFINE Bad == {i \in 1..n : f[i] \notin Seq(S)}
<1>4. Bad = {}
  <2> SUFFICES ASSUME Bad # {} PROVE FALSE
    OBVIOUS
  <2>1. Bad \in SUBSET Nat
    BY <1>1
  <2> HIDE DEF Bad
  <2>2. PICK m \in Bad : \A k \in Bad : m <= k
    BY <2>1, LeastNumber
  <2> USE DEF Bad
  <2>3. m \in 1..n /\ f[m] \notin Seq(S)
    OBVIOUS
  <2>4. f[m] = IF m = 1 THEN seqs[m] ELSE f[m - 1] \o seqs[m]
    BY <1>3, <2>3 DEF Flattens
  <2>5. m # 1
    BY <1>1, <2>3, <2>4
  <2>6. f[m - 1] \in Seq(S)
    BY <1>1, <2>2, <2>3, <2>5
  <2> QED
    BY <1>1, <2>3, <2>4, <2>5, <2>6
<1>5. FlattenSeq(seqs) = f[n]
  BY <1>2, FlattenByParts
<1> QED
  BY <1>3, <1>4, <1>5

\* FlattenSeq of sequences over S is a sequence over S
LEMMA FlattenType ==
    ASSUME NEW S, NEW seqs \in Seq(Seq(S))
    PROVE  FlattenSeq(seqs) \in Seq(S)
<1>1. CASE Len(seqs) = 0
  <2>1. seqs = <<>>
    BY <1>1
  <2>2. FlattenSeq(seqs) = seqs
    BY <1>1 DEF FlattenSeq
  <2>3. <<>> \in Seq(S)
    OBVIOUS
  <2> QED
    BY <2>1, <2>2, <2>3
<1>2. CASE Len(seqs) # 0
  <2>1. Len(seqs) \in 1..Len(seqs)
    BY <1>2
  <2> QED
    BY <1>2, <2>1, FlattenParts
<1> QED
  BY <1>1, <1>2

\* that has every element of those sequences
LEMMA FlattenHas ==
    ASSUME NEW S, NEW seqs \in Seq(Seq(S)), NEW i \in DOMAIN seqs, NEW x \in ToSet(seqs[i])
    PROVE  x \in ToSet(FlattenSeq(seqs))
<1> DEFINE n == Len(seqs)
<1>1. n \in Nat /\ n # 0 /\ i \in 1..n /\ \A m \in 1..n : seqs[m] \in Seq(S)
  OBVIOUS
<1>2. PICK f : /\ Flattens(f, seqs, n) /\ FlattenSeq(seqs) = f[n]
               /\ \A m \in 1..n : f[m] \in Seq(S)
  BY <1>1, FlattenParts
<1>3. ASSUME NEW m \in 1..n
      PROVE  f[m] = IF m = 1 THEN seqs[m] ELSE f[m - 1] \o seqs[m]
  BY <1>2 DEF Flattens
<1> DEFINE Bad == {m \in i..n : x \notin ToSet(f[m])}
<1>4. Bad = {}
  <2> SUFFICES ASSUME Bad # {} PROVE FALSE
    OBVIOUS
  <2>1. Bad \in SUBSET Nat
    BY <1>1
  <2> HIDE DEF Bad
  <2>2. PICK m \in Bad : \A k \in Bad : m <= k
    BY <2>1, LeastNumber
  <2>3. m \in i..n /\ m \in 1..n /\ x \notin ToSet(f[m])
    BY <1>1 DEF Bad
  <2>4. CASE m = i
    <3>1. CASE m = 1
      BY <1>3, <2>3, <2>4, <3>1
    <3>2. CASE m # 1
      <4>1. f[m] = f[m - 1] \o seqs[m] /\ f[m - 1] \in Seq(S) /\ seqs[m] \in Seq(S)
        <5>1. m - 1 \in 1..n
          BY <1>1, <2>3, <3>2
        <5> QED
          BY <1>1, <1>2, <1>3, <2>3, <3>2, <5>1
      <4>2. x \in ToSet(f[m])
        BY <2>4, <4>1, JoinHas
      <4> QED
        BY <2>3, <4>2
    <3> QED
      BY <3>1, <3>2
  <2>5. CASE m # i
    <3>1. m - 1 \in i..n /\ m - 1 \in 1..n /\ m # 1
      BY <1>1, <2>3, <2>5
    <3>2. m - 1 \notin Bad
      BY <1>1, <2>2, <2>3, <3>1
    <3>3. x \in ToSet(f[m - 1])
      BY <3>1, <3>2 DEF Bad
    <3>4. f[m] = f[m - 1] \o seqs[m] /\ f[m - 1] \in Seq(S) /\ seqs[m] \in Seq(S)
      BY <1>1, <1>2, <1>3, <2>3, <3>1
    <3>5. x \in ToSet(f[m])
      BY <3>3, <3>4, JoinHas
    <3> QED
      BY <2>3, <3>5
  <2> QED
    BY <2>4, <2>5
<1>5. n \in i..n
  BY <1>1
<1> QED
  BY <1>2, <1>4, <1>5

-----------------------------------------------------------------------------
(* The bake tree of nros codegen-system.                                   *)

\* What a command may have read.
JobsOf(w, req) == {JobOf(w, n, req) : n \in ResolveBringup(w, req.hint)}
Jobs == UNION {JobsOf(w, req) : w \in Workspaces, req \in Requests}

\* What a command may come to, of a component or of none, and what it writes there.
PlaceOf(j) == [file : BakeFile, of : {Missing} \cup ToSet(j.system.comps), text : {Missing}]
Texts(j) == {Rendered(j, s, w) : s \in ToSet(BakeFiles(j)), w \in Workspaces}
Step(j) ==
    [file : BakeFile, of : {Missing} \cup ToSet(j.system.comps), text : {Missing} \cup Texts(j)]

SameStep(p, s) == p.file = s.file /\ p.of = s.of

Ahead(r, f) == \E i \in DOMAIN todo[r] : todo[r][i].file = f

CurrentFor(j, step) ==
    \/ disk[step.file] = Rendered(j, step, ws)
    \/ RemoveStub(j, step) /\ "stuck" \in events

SbTypes ==
    /\ ws \in Workspaces
    /\ DOMAIN disk = BakeFile /\ DOMAIN job = Run /\ DOMAIN todo = Run
    /\ doing \in [Run -> {"idle", "next", "write"}]
    /\ alone \subseteq Run

\* A command at work goes through steps of its job.
JobsGoOn ==
    \A r \in Run : doing[r] # "idle" =>
        /\ job[r] \in Jobs /\ todo[r] \in Seq(Step(job[r]))
        /\ doing[r] = "write" => todo[r] # <<>>
        /\ \A i \in DOMAIN todo[r] :
              \E s \in ToSet(BakeFiles(job[r])) : SameStep(todo[r][i], s)

\* A command alone with the workspace it has read leaves nothing behind it that
\* is not current.
AloneIsCurrent ==
    \A r \in alone :
        /\ doing[r] # "idle" /\ \A q \in Run \ {r} : doing[q] = "idle"
        /\ \E n \in ResolveBringup(ws, job[r].req.hint) : job[r] = JobOf(ws, n, job[r].req)
        /\ \A s \in ToSet(BakeFiles(job[r])) : CurrentFor(job[r], s) \/ Ahead(r, s.file)
        /\ doing[r] = "write" => Head(todo[r]).text = Rendered(job[r], Head(todo[r]), ws)

\* When the files are known to be of a request, every command at work has it.
BakedIsKnown ==
    baked # Missing => baked \in Requests /\
        \E n \in ResolveBringup(ws, baked.hint) :
            /\ \A s \in ToSet(BakeFiles(JobOf(ws, n, baked))) : CurrentFor(JobOf(ws, n, baked), s)
            /\ \A r \in Run : doing[r] # "idle" => doing[r] = "next" /\ job[r] = JobOf(ws, n, baked)

SbInv == SbTypes /\ JobsGoOn /\ AloneIsCurrent /\ BakedIsKnown

-----------------------------------------------------------------------------
(* The files of a job.                                                     *)

\* The job of a request is named by the workspace, and its components are told apart.
LEMMA JobFacts ==
    ASSUME NEW j \in Jobs
    PROVE  /\ j.mode \in {"none", "pio", "px4"}
           /\ j.system.comps \in Seq(ToSet(j.system.comps))
           /\ \A c \in ToSet(j.system.comps) :
                 /\ c # Missing /\ c.name \in DOMAIN Ident /\ Ident[c.name] # Missing
                 /\ \A d \in ToSet(j.system.comps) : Ident[c.name] = Ident[d.name] => c = d
<1>1. PICK w \in Workspaces, req \in Requests :
         j \in JobsOf(w, req)
  BY DEF Jobs
<1>2. PICK n \in ResolveBringup(w, req.hint) : j = JobOf(w, n, req)
  BY <1>1 DEF JobsOf
<1>3. n \in DOMAIN BringupPackages(w)
  BY DEF ResolveBringup
<1>4. j.mode = req.mode /\ j.system = BringupPackages(w)[n]
  BY <1>2 DEF JobOf
<1> QED
  BY <1>3, <1>4, BakeConstants, WorkspaceConstants

\* The files that are no component's.
LEMMA PlainIsPlaced ==
    ASSUME NEW j, NEW names \in Seq(PlainNames)
    PROVE  /\ PlainFiles(names) \in Seq(PlaceOf(j))
           /\ \A s \in ToSet(PlainFiles(names)) : s.of = Missing /\ s.file[1] = Missing
<1> DEFINE plain == PlainFiles(names)
<1>1. DOMAIN names = 1..Len(names) /\ Len(names) \in Nat /\ \A i \in 1..Len(names) : names[i] \in PlainNames
  OBVIOUS
<1>2. plain = [i \in 1..Len(names) |-> [file |-> <<Missing, names[i]>>, of |-> Missing, text |-> Missing]]
  BY <1>1 DEF PlainFiles
<1>3. ASSUME NEW i \in 1..Len(names) PROVE plain[i] \in PlaceOf(j)
  <2>1. <<Missing, names[i]>> \in BakeFile
    BY <1>1 DEF BakeFile
  <2>2. plain[i] = [file |-> <<Missing, names[i]>>, of |-> Missing, text |-> Missing]
    BY <1>2
  <2> QED
    BY <2>1, <2>2 DEF PlaceOf
<1>4. \A i \in 1..Len(names) : plain[i].of = Missing /\ plain[i].file[1] = Missing
  BY <1>2
<1>5. DOMAIN plain = 1..Len(names)
  BY <1>2
<1> HIDE DEF plain
<1>6. plain \in [1..Len(names) -> PlaceOf(j)]
  BY <1>2, <1>3
<1>7. plain \in Seq(PlaceOf(j))
  BY <1>1, <1>6
<1>8. \A s \in ToSet(plain) : s.of = Missing /\ s.file[1] = Missing
  BY <1>4, <1>5 DEF ToSet
<1> QED
  BY <1>7, <1>8 DEF plain

\* The files of a PX4 module.
LEMMA ModuleIsPlaced ==
    ASSUME NEW j \in Jobs, NEW c \in ToSet(j.system.comps)
    PROVE  ModuleOf(c) \in Seq({s \in PlaceOf(j) : s.of = c /\ s.file[1] = Ident[c.name]})
<1> DEFINE Mine == {s \in PlaceOf(j) : s.of = c /\ s.file[1] = Ident[c.name]}
           module == ModuleOf(c)
           n == Len(ModuleParts)
<1>1. ModuleParts \in Seq(ToSet(ModuleParts)) /\ n \in Nat /\ DOMAIN ModuleParts = 1..n
  BY BakeConstants
<1>2. module = [i \in 1..n |-> [file |-> <<Ident[c.name], ModuleParts[i]>>, of |-> c, text |-> Missing]]
  BY <1>1 DEF ModuleOf
<1>3. ASSUME NEW i \in 1..n PROVE module[i] \in Mine
  <2>1. <<Ident[c.name], ModuleParts[i]>> \in BakeFile
    BY <1>1, JobFacts DEF BakeFile, ToSet
  <2>2. module[i] = [file |-> <<Ident[c.name], ModuleParts[i]>>, of |-> c, text |-> Missing]
    BY <1>2
  <2>3. module[i] \in PlaceOf(j)
    BY <2>1, <2>2 DEF PlaceOf
  <2> QED
    BY <2>2, <2>3
<1>4. module \in [1..n -> Mine]
  BY <1>2, <1>3
<1> HIDE DEF Mine, module
<1>5. module \in Seq(Mine)
  BY <1>1, <1>4
<1> QED
  BY <1>5 DEF Mine, module

\* Every step of a job is at a place; a file of a component is of that component alone.
Ownly(s) == s.of = Missing <=> s.file[1] = Missing
Owned(j, s) == s.of # Missing => s.of \in ToSet(j.system.comps) /\ s.file[1] = Ident[s.of.name]

LEMMA BakeFilesPlaced ==
    ASSUME NEW j \in Jobs
    PROVE  /\ BakeFiles(j) \in Seq({s \in PlaceOf(j) : Ownly(s) /\ Owned(j, s)})
           /\ AheadOfVendor(j) \in Seq({s \in PlaceOf(j) : Ownly(s) /\ Owned(j, s)})
<1> DEFINE Good == {s \in PlaceOf(j) : Ownly(s) /\ Owned(j, s)}
           comps == j.system.comps
           modules == [i \in DOMAIN comps |-> ModuleOf(comps[i])]
<1>1. ASSUME NEW names \in Seq(PlainNames) PROVE PlainFiles(names) \in Seq(Good)
  <2>1. PlainFiles(names) \in Seq(PlaceOf(j))
    BY PlainIsPlaced
  <2>2. ASSUME NEW s \in ToSet(PlainFiles(names)) PROVE s \in Good
    <3>1. s \in PlaceOf(j)
      BY <2>1, InSeq
    <3>2. s.of = Missing /\ s.file[1] = Missing
      BY PlainIsPlaced
    <3> QED
      BY <3>1, <3>2 DEF Ownly, Owned
  <2> HIDE DEF Good
  <2> QED
    BY <2>1, <2>2, SeqOver
<1>2. ASSUME NEW c \in ToSet(comps) PROVE ModuleOf(c) \in Seq(Good)
  <2> DEFINE Mine == {s \in PlaceOf(j) : s.of = c /\ s.file[1] = Ident[c.name]}
  <2>1. ModuleOf(c) \in Seq(Mine)
    BY ModuleIsPlaced
  <2>2. ASSUME NEW s \in Mine PROVE s \in Good
    <3>1. c # Missing /\ Ident[c.name] # Missing
      BY JobFacts
    <3> QED
      BY <3>1 DEF Ownly, Owned
  <2> HIDE DEF Good, Mine
  <2> QED
    BY <2>1, <2>2, InSeq, SeqOver
<1>3. comps \in Seq(ToSet(comps)) /\ j.mode \in {"none", "pio", "px4"}
  BY JobFacts
<1> HIDE DEF Good
<1>4. FlattenSeq(modules) \in Seq(Good)
  <2>1. modules \in [1..Len(comps) -> Seq(Good)]
    BY <1>2, <1>3 DEF ToSet
  <2> HIDE DEF modules
  <2>2. modules \in Seq(Seq(Good))
    BY <1>3, <2>1
  <2> QED
    BY <2>2, FlattenType
<1>5. PlainFiles(<<"library.json", "vendor_hint.json">>) \in Seq(Good)
  <2>1. <<"library.json", "vendor_hint.json">> \in Seq(PlainNames)
    BY DEF PlainNames
  <2> QED
    BY <1>1, <2>1
<1>6. PlainFiles(<<"px4 nros-plan.json", "vendor_hint.json">>) \in Seq(Good)
  <2>1. <<"px4 nros-plan.json", "vendor_hint.json">> \in Seq(PlainNames)
    BY DEF PlainNames
  <2> QED
    BY <1>1, <2>1
<1>7. PlainFiles(<<"system_config.h", "system_main.c", "Cargo.toml", "nros-plan.json">>) \in Seq(Good)
  <2>1. <<"system_config.h", "system_main.c", "Cargo.toml", "nros-plan.json">> \in Seq(PlainNames)
    BY DEF PlainNames
  <2> QED
    BY <1>1, <2>1
<1>8. AheadOfVendor(j) \in Seq(Good)
  <2>1. CASE j.mode = "none"
    BY <2>1 DEF AheadOfVendor
  <2>2. CASE j.mode = "pio"
    BY <2>2, <1>5 DEF AheadOfVendor
  <2>3. CASE j.mode = "px4"
    <3>1. AheadOfVendor(j) = FlattenSeq(modules) \o PlainFiles(<<"px4 nros-plan.json", "vendor_hint.json">>)
      BY <2>3 DEF AheadOfVendor
    <3> QED
      BY <3>1, <1>4, <1>6, JoinType
  <2> QED
    BY <1>3, <2>1, <2>2, <2>3
<1>9. BakeFiles(j) \in Seq(Good)
  BY <1>7, <1>8 DEF BakeFiles
<1> QED
  BY <1>8, <1>9 DEF Good

\* What a file is rendered from is told by the file and its component.
LEMMA SameRendered ==
    ASSUME NEW j, NEW w, NEW p, NEW s, SameStep(p, s)
    PROVE  Rendered(j, p, w) = Rendered(j, s, w)
BY DEF Rendered, ModuleFile, SameStep

\* No two steps of a job want different things of one file.
LEMMA OneContent ==
    ASSUME NEW j \in Jobs, NEW w, NEW p \in ToSet(BakeFiles(j)), NEW s \in ToSet(BakeFiles(j)),
           p.file = s.file
    PROVE  SameStep(p, s) /\ Rendered(j, p, w) = Rendered(j, s, w)
<1> DEFINE Good == {q \in PlaceOf(j) : Ownly(q) /\ Owned(j, q)}
<1>1. BakeFiles(j) \in Seq(Good)
  BY BakeFilesPlaced
<1>2. ASSUME NEW q \in ToSet(BakeFiles(j)) PROVE Ownly(q) /\ Owned(j, q)
  <2> HIDE DEF Good
  <2>1. q \in Good
    BY <1>1, InSeq
  <2> QED
    BY <2>1 DEF Good
<1>3. p.of = s.of
  <2>1. p.of = Missing <=> s.of = Missing
    BY <1>2 DEF Ownly
  <2>2. p.of # Missing => Ident[p.of.name] = Ident[s.of.name]
    BY <1>2, <2>1 DEF Owned
  <2> QED
    BY <1>2, <2>1, <2>2, JobFacts DEF Owned
<1> QED
  BY <1>3, SameRendered DEF SameStep

LEMMA StepFacts ==
    ASSUME NEW j \in Jobs, NEW s \in ToSet(BakeFiles(j))
    PROVE  s \in PlaceOf(j) /\ s \in Step(j) /\ Ownly(s)
<1> DEFINE Good == {q \in PlaceOf(j) : Ownly(q) /\ Owned(j, q)}
<1>1. BakeFiles(j) \in Seq(Good)
  BY BakeFilesPlaced
<1> HIDE DEF Good
<1>2. s \in Good
  BY <1>1, InSeq
<1>3. s \in PlaceOf(j) /\ Ownly(s)
  BY <1>2 DEF Good
<1> QED
  BY <1>3 DEF PlaceOf, Step

\* A Cargo.toml that is to go is rendered as absent.
LEMMA StubGoes ==
    ASSUME NEW j \in Jobs, NEW s \in ToSet(BakeFiles(j)), NEW w, RemoveStub(j, s)
    PROVE  Rendered(j, s, w) = Missing
<1>1. s.of = Missing
  BY StepFacts DEF Ownly, RemoveStub, Stub
<1> QED
  BY <1>1 DEF RemoveStub, Rendered, Stub, Config, Main

\* --bringup or default_system names one system.
LEMMA OneBringup ==
    ASSUME NEW w, NEW hint, NEW n \in ResolveBringup(w, hint), NEW m \in ResolveBringup(w, hint)
    PROVE  n = m
BY DEF ResolveBringup

LEMMA TailOf ==
    ASSUME NEW S, NEW s \in Seq(S), s # <<>>
    PROVE  /\ Tail(s) \in Seq(S) /\ 1 \in DOMAIN s /\ Head(s) = s[1] /\ Head(s) \in S
           /\ \A i \in DOMAIN Tail(s) : i + 1 \in DOMAIN s /\ Tail(s)[i] = s[i + 1]
           /\ \A i \in DOMAIN s : i # 1 => i - 1 \in DOMAIN Tail(s) /\ Tail(s)[i - 1] = s[i]
OBVIOUS

-----------------------------------------------------------------------------
(* The invariant of the bake.                                              *)

\* What stands at the head of a command's steps.
LEMMA AtHead ==
    ASSUME SbInv, NEW r \in Run, doing[r] # "idle", todo[r] # <<>>
    PROVE  /\ job[r] \in Jobs /\ Head(todo[r]) \in Step(job[r]) /\ Head(todo[r]).file \in BakeFile
           /\ \E s \in ToSet(BakeFiles(job[r])) : SameStep(Head(todo[r]), s)
           /\ \A s \in ToSet(BakeFiles(job[r])) : s.file = Head(todo[r]).file =>
                 /\ SameStep(Head(todo[r]), s)
                 /\ \A w : Rendered(job[r], Head(todo[r]), w) = Rendered(job[r], s, w)
<1>1. job[r] \in Jobs /\ todo[r] \in Seq(Step(job[r]))
  BY DEF SbInv, JobsGoOn
<1>2. 1 \in DOMAIN todo[r] /\ Head(todo[r]) = todo[r][1] /\ Head(todo[r]) \in Step(job[r])
  BY <1>1, TailOf
<1>3. PICK p \in ToSet(BakeFiles(job[r])) : SameStep(Head(todo[r]), p)
  BY <1>2 DEF SbInv, JobsGoOn
<1>4. ASSUME NEW s \in ToSet(BakeFiles(job[r])), s.file = Head(todo[r]).file
      PROVE  /\ SameStep(Head(todo[r]), s)
             /\ \A w : Rendered(job[r], Head(todo[r]), w) = Rendered(job[r], s, w)
  <2>1. p.file = s.file
    BY <1>3, <1>4 DEF SameStep
  <2>2. SameStep(p, s)
    BY <1>1, <2>1, OneContent
  <2>3. SameStep(Head(todo[r]), s)
    BY <1>3, <2>2 DEF SameStep
  <2> QED
    BY <2>3, SameRendered
<1>5. Head(todo[r]).file \in BakeFile
  BY <1>2 DEF Step
<1> QED
  BY <1>1, <1>2, <1>3, <1>4, <1>5

\* A command that passes on from a file that is current then.
LEMMA PassedOn ==
    ASSUME SbInv, NEW r \in Run, doing[r] # "idle", todo[r] # <<>>,
           todo' = [todo EXCEPT ![r] = Tail(@)], doing' = [doing EXCEPT ![r] = "next"],
           UNCHANGED <<ws, job, alone, baked>>,
           DOMAIN disk' = BakeFile, events \subseteq events',
           \A f \in BakeFile : f # Head(todo[r]).file => disk'[f] = disk[f],
           r \in alone \/ baked # Missing =>
               \A s \in ToSet(BakeFiles(job[r])) : s.file = Head(todo[r]).file =>
                   \/ disk'[s.file] = Rendered(job[r], s, ws)
                   \/ RemoveStub(job[r], s) /\ "stuck" \in events'
    PROVE  SbInv'
<1> DEFINE j == job[r]
<1>1. j \in Jobs /\ todo[r] \in Seq(Step(j))
  BY DEF SbInv, JobsGoOn
<1>2. /\ Tail(todo[r]) \in Seq(Step(j)) /\ Head(todo[r]) = todo[r][1]
      /\ \A i \in DOMAIN Tail(todo[r]) : i + 1 \in DOMAIN todo[r] /\ Tail(todo[r])[i] = todo[r][i + 1]
      /\ \A i \in DOMAIN todo[r] : i # 1 =>
            i - 1 \in DOMAIN Tail(todo[r]) /\ Tail(todo[r])[i - 1] = todo[r][i]
  BY <1>1, TailOf
<1>3. /\ todo'[r] = Tail(todo[r]) /\ \A q \in Run : q # r => todo'[q] = todo[q]
      /\ doing'[r] = "next" /\ \A q \in Run : q # r => doing'[q] = doing[q]
  BY DEF SbInv, SbTypes
<1>4. SbTypes'
  BY DEF SbInv, SbTypes
<1>5. JobsGoOn'
  <2> SUFFICES ASSUME NEW q \in Run, doing'[q] # "idle"
               PROVE  /\ job[q] \in Jobs /\ todo'[q] \in Seq(Step(job[q]))
                      /\ doing'[q] = "write" => todo'[q] # <<>>
                      /\ \A i \in DOMAIN todo'[q] :
                            \E s \in ToSet(BakeFiles(job[q])) : SameStep(todo'[q][i], s)
    BY DEF JobsGoOn
  <2>1. CASE q = r
    <3>1. \A i \in DOMAIN todo[r] : \E s \in ToSet(BakeFiles(j)) : SameStep(todo[r][i], s)
      BY DEF SbInv, JobsGoOn
    <3> QED
      BY <1>1, <1>2, <1>3, <2>1, <3>1
  <2>2. CASE q # r
    BY <1>3, <2>2 DEF SbInv, JobsGoOn
  <2> QED
    BY <2>1, <2>2
\* a step of the job whose file was current or ahead
<1>6. ASSUME NEW s \in ToSet(BakeFiles(j)), r \in alone \/ baked # Missing,
             CurrentFor(j, s) \/ Ahead(r, s.file)
      PROVE  CurrentFor(j, s)' \/ Ahead(r, s.file)'
  <2>1. s.file \in BakeFile
    BY <1>1, StepFacts DEF PlaceOf
  <2>2. CASE s.file = Head(todo[r]).file
    BY <1>6, <2>2 DEF CurrentFor
  <2>3. CASE s.file # Head(todo[r]).file
    <3>1. CurrentFor(j, s) => CurrentFor(j, s)'
      BY <2>1, <2>3 DEF CurrentFor
    <3>2. Ahead(r, s.file) => Ahead(r, s.file)'
      <4> SUFFICES ASSUME NEW i \in DOMAIN todo[r], todo[r][i].file = s.file
                   PROVE  \E k \in DOMAIN Tail(todo[r]) : Tail(todo[r])[k].file = s.file
        BY <1>3 DEF Ahead
      <4>1. i # 1
        BY <1>2, <2>3
      <4> QED
        BY <1>2, <4>1
    <3> QED
      BY <1>6, <3>1, <3>2
  <2> QED
    BY <2>2, <2>3
<1>7. AloneIsCurrent'
  <2> SUFFICES ASSUME NEW q \in alone
               PROVE  /\ doing'[q] # "idle" /\ \A o \in Run \ {q} : doing'[o] = "idle"
                      /\ \E n \in ResolveBringup(ws, job[q].req.hint) : job[q] = JobOf(ws, n, job[q].req)
                      /\ \A s \in ToSet(BakeFiles(job[q])) : CurrentFor(job[q], s)' \/ Ahead(q, s.file)'
                      /\ doing'[q] = "write" => Head(todo'[q]).text = Rendered(job[q], Head(todo'[q]), ws)
    BY DEF AloneIsCurrent
  <2>1. q = r
    BY DEF SbInv, AloneIsCurrent, SbTypes
  <2>2. doing'[r] = "next" /\ \A o \in Run \ {r} : doing'[o] = "idle"
    BY <1>3, <2>1 DEF SbInv, AloneIsCurrent
  <2>3. \E n \in ResolveBringup(ws, j.req.hint) : j = JobOf(ws, n, j.req)
    BY <2>1 DEF SbInv, AloneIsCurrent
  <2>4. \A s \in ToSet(BakeFiles(j)) : CurrentFor(j, s)' \/ Ahead(r, s.file)'
    BY <1>6, <2>1 DEF SbInv, AloneIsCurrent
  <2> QED
    BY <2>1, <2>2, <2>3, <2>4
<1>8. BakedIsKnown'
  <2> SUFFICES ASSUME baked # Missing PROVE BakedIsKnown'
    BY DEF BakedIsKnown
  <2>1. PICK n \in ResolveBringup(ws, baked.hint) :
            /\ \A s \in ToSet(BakeFiles(JobOf(ws, n, baked))) : CurrentFor(JobOf(ws, n, baked), s)
            /\ \A q \in Run : doing[q] # "idle" => doing[q] = "next" /\ job[q] = JobOf(ws, n, baked)
    BY DEF SbInv, BakedIsKnown
  <2>2. j = JobOf(ws, n, baked)
    BY <2>1
  <2>3. ASSUME NEW s \in ToSet(BakeFiles(j)) PROVE CurrentFor(j, s)'
    <3>1. s.file \in BakeFile
      BY <1>1, StepFacts DEF PlaceOf
    <3>2. CASE s.file = Head(todo[r]).file
      BY <3>2 DEF CurrentFor
    <3>3. CASE s.file # Head(todo[r]).file
      BY <2>1, <2>2, <3>1, <3>3 DEF CurrentFor
    <3> QED
      BY <3>2, <3>3
  <2>4. \A q \in Run : doing'[q] # "idle" => doing'[q] = "next" /\ job[q] = j
    BY <1>3, <2>1, <2>2
  <2>5. baked \in Requests
    BY DEF SbInv, BakedIsKnown
  <2> QED
    BY <2>2, <2>3, <2>4, <2>5 DEF BakedIsKnown
<1> QED
  BY <1>4, <1>5, <1>7, <1>8 DEF SbInv

LEMMA SbInitInv == SbInit => SbInv
<1> SUFFICES ASSUME SbInit PROVE SbInv
  OBVIOUS
<1>1. \A r \in Run : doing[r] = "idle"
  BY DEF SbInit
<1> QED
  BY <1>1 DEF SbInit, SbInv, SbTypes, JobsGoOn, AloneIsCurrent, BakedIsKnown

LEMMA StartKeeps ==
    ASSUME SbInv, NEW r \in Run, NEW req \in Requests, Start(r, req)
    PROVE  SbInv'
<1>1. PICK n \in ResolveBringup(ws, req.hint) :
         /\ job' = [job EXCEPT ![r] = JobOf(ws, n, req)]
         /\ todo' = [todo EXCEPT ![r] = BakeFiles(JobOf(ws, n, req))]
  BY DEF Start
<1>2. PICK j : j = JobOf(ws, n, req)
  OBVIOUS
<1>3. j \in Jobs /\ j.req = req
  <2>1. j \in JobsOf(ws, req) /\ ws \in Workspaces
    BY <1>2 DEF SbInv, SbTypes, JobsOf
  <2>2. j.req = req
    BY <1>2 DEF JobOf
  <2> QED
    BY <2>1, <2>2 DEF Jobs
<1>4. BakeFiles(j) \in Seq(Step(j))
  <2> DEFINE Good == {q \in PlaceOf(j) : Ownly(q) /\ Owned(j, q)}
  <2>1. BakeFiles(j) \in Seq(Good)
    BY <1>3, BakeFilesPlaced
  <2> HIDE DEF Good
  <2> QED
    BY <1>3, <2>1, StepFacts, SeqOver
<1>5. /\ doing[r] = "idle" /\ doing' = [doing EXCEPT ![r] = "next"]
      /\ alone' = IF Quiet THEN {r} ELSE {}
      /\ baked' = IF baked = req THEN baked ELSE Missing
      /\ ws' = ws /\ disk' = disk /\ events \subseteq events'
  BY DEF Start, Happens
<1>6. /\ job'[r] = j /\ todo'[r] = BakeFiles(j) /\ doing'[r] = "next"
      /\ \A q \in Run : q # r => job'[q] = job[q] /\ todo'[q] = todo[q] /\ doing'[q] = doing[q]
  BY <1>2, <1>1, <1>5 DEF SbInv, SbTypes
<1>7. SbTypes'
  BY <1>1, <1>5 DEF SbInv, SbTypes
<1>8. JobsGoOn'
  <2> SUFFICES ASSUME NEW q \in Run, doing'[q] # "idle"
               PROVE  /\ job'[q] \in Jobs /\ todo'[q] \in Seq(Step(job'[q]))
                      /\ doing'[q] = "write" => todo'[q] # <<>>
                      /\ \A i \in DOMAIN todo'[q] :
                            \E s \in ToSet(BakeFiles(job'[q])) : SameStep(todo'[q][i], s)
    BY DEF JobsGoOn
  <2>1. CASE q = r
    <3>1. \A i \in DOMAIN BakeFiles(j) : BakeFiles(j)[i] \in ToSet(BakeFiles(j))
      BY DEF ToSet
    <3>2. \A i \in DOMAIN BakeFiles(j) : \E s \in ToSet(BakeFiles(j)) : SameStep(BakeFiles(j)[i], s)
      BY <3>1 DEF SameStep
    <3> QED
      BY <1>3, <1>4, <1>6, <2>1, <3>2
  <2>2. CASE q # r
    BY <1>6, <2>2 DEF SbInv, JobsGoOn
  <2> QED
    BY <2>1, <2>2
<1>9. AloneIsCurrent'
  <2> SUFFICES ASSUME Quiet
               PROVE  /\ \A q \in Run \ {r} : doing'[q] = "idle"
                      /\ n \in ResolveBringup(ws, j.req.hint) /\ j = JobOf(ws, n, j.req)
                      /\ \A s \in ToSet(BakeFiles(j)) : Ahead(r, s.file)'
    BY <1>5, <1>6 DEF AloneIsCurrent
  <2>1. \A s \in ToSet(BakeFiles(j)) : Ahead(r, s.file)'
    BY <1>6 DEF Ahead, ToSet
  <2> QED
    BY <1>2, <1>3, <1>6, <2>1 DEF Quiet
<1>10. BakedIsKnown'
  <2> SUFFICES ASSUME baked = req, baked # Missing, baked' = req PROVE BakedIsKnown'
    BY <1>5 DEF BakedIsKnown
  <2>1. PICK m \in ResolveBringup(ws, baked.hint) :
            /\ \A s \in ToSet(BakeFiles(JobOf(ws, m, baked))) : CurrentFor(JobOf(ws, m, baked), s)
            /\ \A q \in Run : doing[q] # "idle" => doing[q] = "next" /\ job[q] = JobOf(ws, m, baked)
    BY DEF SbInv, BakedIsKnown
  <2>2. JobOf(ws, m, baked) = j
    BY <1>2, <2>1, OneBringup
  <2>3. \A s \in ToSet(BakeFiles(j)) : CurrentFor(j, s)
    BY <2>1, <2>2
  <2>4. \A s \in ToSet(BakeFiles(j)) : CurrentFor(j, s)'
    BY <1>5, <2>3 DEF CurrentFor
  <2>5. \A q \in Run : doing'[q] # "idle" => doing'[q] = "next" /\ job'[q] = j
    BY <1>6, <2>1, <2>2
  <2>6. n \in ResolveBringup(ws', baked'.hint) /\ j = JobOf(ws, n, baked)'
    BY <1>2, <1>5
  <2> QED
    BY <2>4, <2>5, <2>6 DEF BakedIsKnown
<1> QED
  BY <1>7, <1>8, <1>9, <1>10 DEF SbInv

LEMMA SkipKeeps ==
    ASSUME SbInv, NEW r \in Run, Skip(r)
    PROVE  SbInv'
<1>1. /\ doing[r] = "next" /\ todo[r] # <<>> /\ disk[Head(todo[r]).file] = Wanted(r)
      /\ todo' = [todo EXCEPT ![r] = Tail(@)] /\ doing' = [doing EXCEPT ![r] = "next"]
      /\ UNCHANGED <<ws, job, alone, baked>> /\ disk' = disk /\ events' = events
  BY DEF Skip, Goes
<1>2. \A s \in ToSet(BakeFiles(job[r])) : s.file = Head(todo[r]).file =>
          disk'[s.file] = Rendered(job[r], s, ws)
  BY <1>1, AtHead DEF Wanted
<1>3. DOMAIN disk' = BakeFile
  BY <1>1 DEF SbInv, SbTypes
<1> QED
  BY <1>1, <1>2, <1>3, PassedOn

LEMMA WriteKeeps ==
    ASSUME SbInv, NEW r \in Run, Write(r)
    PROVE  SbInv'
<1>1. /\ doing[r] = "write"
      /\ disk' = [disk EXCEPT ![Head(todo[r]).file] = Head(todo[r]).text]
      /\ todo' = [todo EXCEPT ![r] = Tail(@)] /\ doing' = [doing EXCEPT ![r] = "next"]
      /\ UNCHANGED <<ws, job, alone, baked>> /\ events' = events
  BY DEF Write, Goes
<1>2. todo[r] # <<>> /\ DOMAIN disk = BakeFile
  BY <1>1 DEF SbInv, SbTypes, JobsGoOn
<1>3. baked = Missing
  BY <1>1 DEF SbInv, BakedIsKnown
<1>4. Head(todo[r]).file \in BakeFile
  BY <1>1, <1>2, AtHead
<1>5. ASSUME r \in alone
      PROVE  \A s \in ToSet(BakeFiles(job[r])) : s.file = Head(todo[r]).file =>
                 disk'[s.file] = Rendered(job[r], s, ws)
  <2>1. Head(todo[r]).text = Rendered(job[r], Head(todo[r]), ws)
    BY <1>1, <1>5 DEF SbInv, AloneIsCurrent
  <2>2. disk'[Head(todo[r]).file] = Head(todo[r]).text
    BY <1>1, <1>2, <1>4
  <2> QED
    BY <1>1, <1>2, <2>1, <2>2, AtHead
<1>6. DOMAIN disk' = BakeFile /\ \A f \in BakeFile : f # Head(todo[r]).file => disk'[f] = disk[f]
  BY <1>1, <1>2
<1> QED
  BY <1>1, <1>2, <1>3, <1>5, <1>6, PassedOn

LEMMA RemoveStaleKeeps ==
    ASSUME SbInv, NEW r \in Run, RemoveStale(r)
    PROVE  SbInv'
<1>1. /\ doing[r] = "next" /\ todo[r] # <<>> /\ RemoveStub(job[r], Head(todo[r]))
      /\ \/ disk' = [disk EXCEPT ![Stub] = Missing] /\ events' = events
         \/ disk' = disk /\ events' = events \cup {"stuck"}
      /\ todo' = [todo EXCEPT ![r] = Tail(@)] /\ doing' = [doing EXCEPT ![r] = "next"]
      /\ UNCHANGED <<ws, job, alone, baked>>
  BY DEF RemoveStale, Goes, Happens
<1>2. DOMAIN disk = BakeFile /\ Head(todo[r]).file = Stub /\ Stub \in BakeFile
  BY <1>1, AtHead DEF SbInv, SbTypes, RemoveStub
<1>3. job[r] \in Jobs
  BY <1>1, AtHead
<1>4. ASSUME NEW s \in ToSet(BakeFiles(job[r])), s.file = Head(todo[r]).file
      PROVE  \/ disk'[s.file] = Rendered(job[r], s, ws)
             \/ RemoveStub(job[r], s) /\ "stuck" \in events'
  <2>1. RemoveStub(job[r], s)
    BY <1>1, <1>4 DEF RemoveStub
  <2>2. Rendered(job[r], s, ws) = Missing
    BY <1>3, <2>1, StubGoes
  <2> QED
    BY <1>1, <1>2, <1>4, <2>1, <2>2
<1>5. DOMAIN disk' = BakeFile /\ \A f \in BakeFile : f # Head(todo[r]).file => disk'[f] = disk[f]
  BY <1>1, <1>2
<1>6. events \subseteq events'
  BY <1>1
<1> QED
  BY <1>1, <1>4, <1>5, <1>6, PassedOn

LEMMA CreateKeeps ==
    ASSUME SbInv, NEW r \in Run, Create(r)
    PROVE  SbInv'
<1> DEFINE j == job[r]
           head == Head(todo[r])
<1>1. /\ doing[r] = "next" /\ todo[r] # <<>>
      /\ ~RemoveStub(j, head) /\ disk[head.file] # Wanted(r)
      /\ disk' = [disk EXCEPT ![head.file] = Torn]
      /\ todo' = [todo EXCEPT ![r][1].text = Wanted(r)]
      /\ doing' = [doing EXCEPT ![r] = "write"]
      /\ UNCHANGED <<ws, job, alone, baked>> /\ events' = events
  BY DEF Create, Goes
<1>2. j \in Jobs /\ todo[r] \in Seq(Step(j)) /\ head \in Step(j) /\ head.file \in BakeFile
  BY <1>1, AtHead DEF SbInv, JobsGoOn
<1>3. 1 \in DOMAIN todo[r] /\ head = todo[r][1]
  BY <1>1, <1>2, TailOf
<1>4. PICK p \in ToSet(BakeFiles(j)) :
         p.file = head.file /\ Wanted(r) = Rendered(j, p, ws)
  BY <1>1, AtHead DEF Wanted, SameStep
\* The head of the steps from now on: with the text that is to be written.
<1>5. PICK new : new = [head EXCEPT !.text = Wanted(r)]
  OBVIOUS
<1>6. new \in Step(j) /\ new.text = Wanted(r) /\ new.file = head.file /\ new.of = head.of
  <2>1. Wanted(r) \in Texts(j)
    BY <1>4 DEF Texts, SbInv, SbTypes
  <2> QED
    BY <1>2, <1>5, <2>1 DEF Step
<1>7. PICK steps : steps = [todo[r] EXCEPT ![1] = new]
  OBVIOUS
<1>8. /\ steps \in Seq(Step(j)) /\ DOMAIN steps = DOMAIN todo[r] /\ steps # <<>>
      /\ steps[1] = new /\ Head(steps) = new
      /\ \A i \in DOMAIN todo[r] : i # 1 => steps[i] = todo[r][i]
  BY <1>1, <1>2, <1>3, <1>6, <1>7
<1>9. todo' = [todo EXCEPT ![r] = steps]
  BY <1>1, <1>3, <1>5, <1>7 DEF SbInv, SbTypes
<1>10. /\ todo'[r] = steps /\ \A q \in Run : q # r => todo'[q] = todo[q]
       /\ doing'[r] = "write" /\ \A q \in Run : q # r => doing'[q] = doing[q]
  BY <1>1, <1>9 DEF SbInv, SbTypes
<1>11. /\ DOMAIN disk' = BakeFile
       /\ \A f \in BakeFile : f # head.file => disk'[f] = disk[f]
  BY <1>1 DEF SbInv, SbTypes
<1>12. SbTypes'
  BY <1>1, <1>9, <1>11 DEF SbInv, SbTypes
<1>13. \A i \in DOMAIN steps : SameStep(steps[i], todo[r][i])
  BY <1>3, <1>6, <1>8 DEF SameStep
<1>14. JobsGoOn'
  <2> SUFFICES ASSUME NEW q \in Run, doing'[q] # "idle"
               PROVE  /\ job[q] \in Jobs /\ todo'[q] \in Seq(Step(job[q]))
                      /\ doing'[q] = "write" => todo'[q] # <<>>
                      /\ \A i \in DOMAIN todo'[q] :
                            \E s \in ToSet(BakeFiles(job[q])) : SameStep(todo'[q][i], s)
    BY <1>1 DEF JobsGoOn
  <2>1. CASE q = r
    <3>1. \A i \in DOMAIN todo[r] : \E s \in ToSet(BakeFiles(j)) : SameStep(todo[r][i], s)
      BY <1>1 DEF SbInv, JobsGoOn
    <3>2. \A i \in DOMAIN steps : \E s \in ToSet(BakeFiles(j)) : SameStep(steps[i], s)
      BY <1>8, <1>13, <3>1 DEF SameStep
    <3> QED
      BY <1>2, <1>8, <1>10, <2>1, <3>2
  <2>2. CASE q # r
    BY <1>10, <2>2 DEF SbInv, JobsGoOn
  <2> QED
    BY <2>1, <2>2
<1>15. AloneIsCurrent'
  <2> SUFFICES ASSUME NEW q \in alone
               PROVE  /\ doing'[q] # "idle" /\ \A o \in Run \ {q} : doing'[o] = "idle"
                      /\ \E n \in ResolveBringup(ws, job[q].req.hint) : job[q] = JobOf(ws, n, job[q].req)
                      /\ \A s \in ToSet(BakeFiles(job[q])) : CurrentFor(job[q], s)' \/ Ahead(q, s.file)'
                      /\ doing'[q] = "write" => Head(todo'[q]).text = Rendered(job[q], Head(todo'[q]), ws)
    BY <1>1 DEF AloneIsCurrent
  <2>1. q = r
    BY <1>1 DEF SbInv, AloneIsCurrent, SbTypes
  <2>2. doing'[r] = "write" /\ \A o \in Run \ {r} : doing'[o] = "idle"
    BY <1>10, <2>1 DEF SbInv, AloneIsCurrent
  <2>3. \E n \in ResolveBringup(ws, j.req.hint) : j = JobOf(ws, n, j.req)
    BY <2>1 DEF SbInv, AloneIsCurrent
  <2>4. ASSUME NEW s \in ToSet(BakeFiles(j)) PROVE CurrentFor(j, s)' \/ Ahead(r, s.file)'
    <3>1. s.file \in BakeFile
      BY <1>2, StepFacts DEF PlaceOf
    <3>2. CASE s.file = head.file
      <4>1. steps[1].file = s.file /\ 1 \in DOMAIN steps
        BY <1>3, <1>6, <1>8, <3>2
      <4> QED
        BY <1>10, <4>1 DEF Ahead
    <3>3. CASE s.file # head.file
      <4>1. CurrentFor(j, s) => CurrentFor(j, s)'
        BY <1>1, <1>11, <3>1, <3>3 DEF CurrentFor
      <4>2. \A i \in DOMAIN todo[r] : steps[i].file = todo[r][i].file
        BY <1>8, <1>13 DEF SameStep
      <4>3. Ahead(r, s.file) => Ahead(r, s.file)'
        BY <1>8, <1>10, <4>2 DEF Ahead
      <4> QED
        BY <2>1, <4>1, <4>3 DEF SbInv, AloneIsCurrent
    <3> QED
      BY <3>2, <3>3
  <2>5. Head(todo'[r]).text = Rendered(j, Head(todo'[r]), ws)
    <3>1. Rendered(j, new, ws) = Rendered(j, head, ws)
      BY <1>6, SameRendered DEF SameStep
    <3> QED
      BY <1>6, <1>8, <1>10, <3>1 DEF Wanted
  <2> QED
    BY <2>1, <2>2, <2>3, <2>4, <2>5
\* The files of a known request are as they should be, or the Cargo.toml is stuck.
<1>16. baked = Missing
  <2> SUFFICES ASSUME baked # Missing PROVE FALSE
    OBVIOUS
  <2>1. CurrentFor(j, p)
    BY <1>1 DEF SbInv, BakedIsKnown
  <2> QED
    BY <1>1, <1>4, <2>1 DEF CurrentFor, RemoveStub
<1> QED
  BY <1>1, <1>12, <1>14, <1>15, <1>16 DEF SbInv, BakedIsKnown

LEMMA StopKeeps ==
    ASSUME SbInv, NEW r \in Run, Stop(r)
    PROVE  SbInv'
<1>1. /\ doing' = [doing EXCEPT ![r] = "idle"] /\ todo' = [todo EXCEPT ![r] = <<>>]
      /\ job' = [job EXCEPT ![r] = Missing] /\ alone' = alone \ {r}
      /\ ws' = ws /\ disk' = disk /\ baked' = baked /\ events \subseteq events'
  BY DEF Stop, Happens
<1>2. /\ doing'[r] = "idle"
      /\ \A q \in Run : q # r => doing'[q] = doing[q] /\ todo'[q] = todo[q] /\ job'[q] = job[q]
  BY <1>1 DEF SbInv, SbTypes
<1>3. SbTypes'
  BY <1>1 DEF SbInv, SbTypes
<1>4. JobsGoOn'
  BY <1>2 DEF SbInv, JobsGoOn
<1>5. AloneIsCurrent'
  <2>1. \A j, s : CurrentFor(j, s) => CurrentFor(j, s)'
    BY <1>1 DEF CurrentFor
  <2>2. \A q \in alone' : q \in Run /\ q # r /\ q \in alone
    BY <1>1 DEF SbInv, SbTypes
  <2> SUFFICES ASSUME NEW q \in alone, q # r, q \in Run
               PROVE  /\ doing[q] # "idle" /\ \A o \in Run \ {q} : doing'[o] = "idle"
                      /\ \E n \in ResolveBringup(ws, job[q].req.hint) : job[q] = JobOf(ws, n, job[q].req)
                      /\ \A s \in ToSet(BakeFiles(job[q])) : CurrentFor(job[q], s) \/ Ahead(q, s.file)
                      /\ doing[q] = "write" => Head(todo[q]).text = Rendered(job[q], Head(todo[q]), ws)
    BY <1>1, <1>2, <2>1, <2>2 DEF AloneIsCurrent, Ahead, CurrentFor
  <2> QED
    BY <1>2 DEF SbInv, AloneIsCurrent
<1>6. BakedIsKnown'
  BY <1>1, <1>2 DEF SbInv, BakedIsKnown, CurrentFor
<1> QED
  BY <1>3, <1>4, <1>5, <1>6 DEF SbInv

LEMMA FinishKeeps ==
    ASSUME SbInv, NEW r \in Run, Finish(r)
    PROVE  SbInv'
<1>1. /\ doing[r] = "next" /\ todo[r] = <<>>
      /\ doing' = [doing EXCEPT ![r] = "idle"] /\ job' = [job EXCEPT ![r] = Missing]
      /\ baked' = IF r \in alone THEN job[r].req ELSE baked
      /\ alone' = alone \ {r}
      /\ UNCHANGED <<ws, disk, todo, events>>
  BY DEF Finish
<1>2. /\ doing'[r] = "idle"
      /\ \A q \in Run : q # r => doing'[q] = doing[q] /\ job'[q] = job[q]
  BY <1>1 DEF SbInv, SbTypes
<1>3. SbTypes'
  BY <1>1 DEF SbInv, SbTypes
<1>4. JobsGoOn'
  BY <1>1, <1>2 DEF SbInv, JobsGoOn
<1>5. AloneIsCurrent'
  <2>1. \A q \in alone' : q \in Run /\ q # r /\ q \in alone
    BY <1>1 DEF SbInv, SbTypes
  <2>2. alone' = {}
    BY <1>1, <2>1 DEF SbInv, AloneIsCurrent
  <2> QED
    BY <2>2 DEF AloneIsCurrent
<1>6. CASE r \in alone
  <2>1. PICK n \in ResolveBringup(ws, job[r].req.hint) : job[r] = JobOf(ws, n, job[r].req)
    BY <1>6 DEF SbInv, AloneIsCurrent
  <2>2. \A s \in ToSet(BakeFiles(job[r])) : CurrentFor(job[r], s)
    BY <1>1, <1>6 DEF SbInv, AloneIsCurrent, Ahead
  <2>3. PICK j : j = job[r]
    OBVIOUS
  <2>4. j = JobOf(ws, n, baked)' /\ n \in ResolveBringup(ws', baked'.hint)
    BY <1>1, <1>6, <2>1, <2>3
  <2>5. \A s \in ToSet(BakeFiles(j)) : CurrentFor(j, s)'
    BY <1>1, <2>2, <2>3 DEF CurrentFor
  <2>6. \A q \in Run : doing'[q] = "idle"
    BY <1>2, <1>6 DEF SbInv, AloneIsCurrent
  <2>7. baked' \in Requests
    <3>1. j \in Jobs
      BY <1>1, <2>3 DEF SbInv, JobsGoOn
    <3>2. \A k \in Jobs : k.req \in Requests
      BY DEF Jobs, JobsOf, JobOf
    <3> QED
      BY <1>1, <1>6, <2>3, <3>1, <3>2
  <2>8. BakedIsKnown'
    BY <2>4, <2>5, <2>6, <2>7 DEF BakedIsKnown
  <2> QED
    BY <1>3, <1>4, <1>5, <2>8 DEF SbInv
<1>7. CASE r \notin alone
  <2>1. BakedIsKnown'
    BY <1>1, <1>2, <1>7 DEF SbInv, BakedIsKnown, CurrentFor
  <2> QED
    BY <1>3, <1>4, <1>5, <2>1 DEF SbInv
<1> QED
  BY <1>6, <1>7

LEMMA EditKeeps ==
    ASSUME SbInv, Edit
    PROVE  SbInv'
<1>1. /\ ws' \in Workspaces /\ alone' = {} /\ baked' = Missing
      /\ disk' = disk /\ doing' = doing /\ job' = job /\ todo' = todo
  BY DEF Edit, command
<1> QED
  BY <1>1 DEF SbInv, SbTypes, JobsGoOn, AloneIsCurrent, BakedIsKnown

LEMMA SbStep == SbInv /\ [SbNext]_sbVars => SbInv'
<1> SUFFICES ASSUME SbInv, [SbNext]_sbVars PROVE SbInv'
  OBVIOUS
<1>1. ASSUME NEW r \in Run, NEW req \in Requests, Start(r, req) PROVE SbInv'
  BY <1>1, StartKeeps
<1>2. ASSUME NEW r \in Run, Skip(r) PROVE SbInv'
  BY <1>2, SkipKeeps
<1>3. ASSUME NEW r \in Run, Create(r) PROVE SbInv'
  BY <1>3, CreateKeeps
<1>4. ASSUME NEW r \in Run, Write(r) PROVE SbInv'
  BY <1>4, WriteKeeps
<1>5. ASSUME NEW r \in Run, RemoveStale(r) PROVE SbInv'
  BY <1>5, RemoveStaleKeeps
<1>6. ASSUME NEW r \in Run, Stop(r) PROVE SbInv'
  BY <1>6, StopKeeps
<1>7. ASSUME NEW r \in Run, Finish(r) PROVE SbInv'
  BY <1>7, FinishKeeps
<1>8. CASE Edit
  BY <1>8, EditKeeps
<1>9. CASE UNCHANGED sbVars
  BY <1>9 DEF sbVars, command, SbInv, SbTypes, JobsGoOn, AloneIsCurrent, BakedIsKnown, CurrentFor, Ahead
<1> QED
  BY <1>1, <1>2, <1>3, <1>4, <1>5, <1>6, <1>7, <1>8, <1>9 DEF SbNext

LEMMA SbHolds == SbSpec => []SbInv
<1> QED
  BY SbInitInv, SbStep, PTL DEF SbSpec

\* The files every bake has.
LEMMA AlwaysBaked ==
    ASSUME NEW j \in Jobs, NEW name \in {"system_config.h", "system_main.c", "nros-plan.json"}
    PROVE  [file |-> <<Missing, name>>, of |-> Missing, text |-> Missing] \in ToSet(BakeFiles(j))
<1> DEFINE names == <<"system_config.h", "system_main.c", "Cargo.toml", "nros-plan.json">>
           plain == PlainFiles(names)
           step == [file |-> <<Missing, name>>, of |-> Missing, text |-> Missing]
<1>1. Len(plain) = 4 /\ \E i \in 1..4 : plain[i] = step
  BY DEF PlainFiles
<1>2. plain \in Seq(PlaceOf(j))
  <2>1. names \in Seq(PlainNames)
    BY DEF PlainNames
  <2> QED
    BY <2>1, PlainIsPlaced
<1> HIDE DEF plain, step
<1>3. BakeFiles(j) = plain \o AheadOfVendor(j)
  BY DEF BakeFiles, plain
<1>4. AheadOfVendor(j) \in Seq(PlaceOf(j))
  <2> DEFINE Good == {s \in PlaceOf(j) : Ownly(s) /\ Owned(j, s)}
  <2>1. AheadOfVendor(j) \in Seq(Good) /\ \A s \in Good : s \in PlaceOf(j)
    BY BakeFilesPlaced
  <2> HIDE DEF Good
  <2> QED
    BY <2>1, InSeq, SeqOver
<1>5. \A i \in 1..4 : i \in DOMAIN BakeFiles(j) /\ BakeFiles(j)[i] = plain[i]
  <2>1. \A i \in 1..Len(plain) :
            i \in DOMAIN (plain \o AheadOfVendor(j)) /\ (plain \o AheadOfVendor(j))[i] = plain[i]
    BY <1>2, <1>4, JoinType
  <2> QED
    BY <1>1, <1>3, <2>1
<1> QED
  BY <1>1, <1>5 DEF ToSet, step

\* Once nros codegen-system has ended Ok, and until the workspace or the request
\* changes, all it wrote is of that workspace and request, and the program made
\* of it spins only when every component's hook was called and returned 0: for
\* any workspaces, requests and number of commands with one --out.
THEOREM BakesStayTrue == SbSpec => []BakesAreTrue
<1>1. SbInv => BakesAreTrue
  <2> SUFFICES ASSUME SbInv, baked # Missing PROVE BakesAreTrue
    BY DEF BakesAreTrue, BakeStaysCurrent, SpinsWithAll
  <2>1. PICK n \in ResolveBringup(ws, baked.hint) :
            \A s \in ToSet(BakeFiles(JobOf(ws, n, baked))) : CurrentFor(JobOf(ws, n, baked), s)
    BY DEF SbInv, BakedIsKnown
  <2>2. BakeStaysCurrent
    BY <2>1, OneBringup DEF BakeStaysCurrent, CurrentFor
  <2> DEFINE j == JobOf(ws, n, baked)
             comps == j.system.comps
             fileOf(name) == [file |-> <<Missing, name>>, of |-> Missing, text |-> Missing]
  <2>3. j \in Jobs
    <3>1. j \in JobsOf(ws, baked)
      BY DEF JobsOf
    <3>2. baked \in Requests /\ ws \in Workspaces
      BY DEF SbInv, SbTypes, BakedIsKnown
    <3> HIDE DEF j
    <3> QED
      BY <3>1, <3>2 DEF Jobs
  <2> HIDE DEF j
  <2>4. ASSUME NEW name \in {"system_config.h", "system_main.c", "nros-plan.json"}
        PROVE  disk[<<Missing, name>>] = Rendered(j, fileOf(name), ws)
    BY <2>1, <2>3, AlwaysBaked DEF CurrentFor, RemoveStub, Stub, j
  <2>5. disk[Config] = ConfigHeader(j) /\ disk[Main] = MainC(j)
    <3>1. Rendered(j, fileOf("system_config.h"), ws) = ConfigHeader(j)
      BY DEF Rendered, Config, Main, Stub
    <3>2. Rendered(j, fileOf("system_main.c"), ws) = MainC(j)
      BY DEF Rendered, Config, Main, Stub
    <3> HIDE DEF fileOf
    <3> QED
      BY <2>4, <3>1, <3>2 DEF Config, Main
  <2>6. disk[<<Missing, "nros-plan.json">>].header = ConfigHeader(j)
    BY <2>4 DEF Rendered, Config, Main, Stub, PlanJson
  <2>7. comps \in Seq(ToSet(comps))
    BY <2>3, JobFacts
  <2>8. ASSUME NEW rc \in [{Ident[c] : c \in DOMAIN Ident} -> {0, 1}],
               SystemMain(MainC(j), rc).spins
        PROVE  LET ran == SystemMain(MainC(j), rc)
               IN  /\ Len(ran.called) = Len(comps)
                   /\ \A i \in DOMAIN comps :
                         ran.called[i] = Ident[comps[i].name] /\ rc[ran.called[i]] = 0
    <3> DEFINE main == MainC(j)
    <3>1. main = [i \in 1..Len(comps) |-> Ident[comps[i].name]] /\ Len(comps) \in Nat
      BY <2>7 DEF MainC
    <3>2. Len(main) = Len(comps) /\ DOMAIN main = 1..Len(comps)
      BY <3>1
    <3> HIDE DEF main
    <3>3. {i \in DOMAIN main : rc[main[i]] # 0} = {}
      BY <2>8 DEF SystemMain, main
    <3>4. SystemMain(main, rc).called = main
      BY <3>3 DEF SystemMain
    <3>5. DOMAIN comps = 1..Len(comps)
      BY <2>7
    <3>6. \A i \in DOMAIN comps : main[i] = Ident[comps[i].name] /\ rc[main[i]] = 0
      BY <3>1, <3>2, <3>3, <3>5
    <3> QED
      BY <3>2, <3>4, <3>6 DEF main
  <2>9. SpinsWithAll
    BY <2>5, <2>6, <2>8 DEF SpinsWithAll, ConfigHeader
  <2> QED
    BY <2>2, <2>9 DEF BakesAreTrue
<1> QED
  BY <1>1, SbHolds, PTL

\* Whatever an edit puts into the workspace, a request does not come to mean
\* another system while the package and directory it names stay as they are.
THEOREM OwnFilesDecideAll == SbSpec => OwnFilesDecide
<1> DEFINE P == ws' # ws =>
        \A hint \in {req.hint : req \in Requests} :
        \A n \in ResolveBringup(ws, hint), m \in ResolveBringup(ws', hint) :
            \/ n = m /\ BringupPackages(ws)[n] = BringupPackages(ws')[m]
            \/ hint = Missing /\ ws.default # ws'.default
            \/ LET named == IF hint = Missing THEN ws.default ELSE hint
               IN  OwnFiles(ws, named) # OwnFiles(ws', named)
<1>1. ASSUME NEW v \in Workspaces, NEW w \in Workspaces, NEW n \in DOMAIN BringupPackages(v),
             n \in DOMAIN BringupPackages(w), OwnFiles(v, n) = OwnFiles(w, n)
      PROVE  BringupPackages(v)[n] = BringupPackages(w)[n]
  <2>1. n \in DOMAIN v.member <=> n \in DOMAIN w.member
    BY <1>1, WorkspaceConstants DEF OwnFiles
  <2>2. n \in DOMAIN v.member => v.member[n] = w.member[n]
    BY <1>1, <2>1 DEF OwnFiles
  <2>3. n \in DOMAIN v.dir <=> n \in DOMAIN w.dir
    BY <1>1, WorkspaceConstants DEF OwnFiles
  <2>4. n \in DOMAIN v.dir => v.dir[n] = w.dir[n]
    BY <1>1, <2>3 DEF OwnFiles
  <2>5. n \in WithSystemToml(v) <=> n \in WithSystemToml(w)
    BY <2>1, <2>2 DEF WithSystemToml
  <2>6. n \in WithSystemToml(v) => n \in DOMAIN v.member
    BY DEF WithSystemToml
  <2>7. n \in DOMAIN DeclaredSystems(v) <=> n \in DOMAIN DeclaredSystems(w)
    BY <2>3, <2>5 DEF DeclaredSystems
  <2>8. CASE n \in DOMAIN DeclaredSystems(v)
    <3>1. DeclaredSystems(v)[n] = DeclaredSystems(w)[n]
      BY <2>2, <2>3, <2>4, <2>5, <2>6, <2>7, <2>8 DEF DeclaredSystems
    <3> QED
      BY <1>1, <2>7, <2>8, <3>1 DEF BringupPackages
  <2>9. CASE n \notin DOMAIN DeclaredSystems(v)
    <3>1. n \in SelfBringups(v)
      BY <2>9 DEF BringupPackages
    <3>2. n \in DOMAIN v.member
      BY <3>1 DEF SelfBringups, ComponentPackages
    <3> QED
      BY <1>1, <2>2, <2>7, <2>9, <3>2 DEF BringupPackages
  <2> QED
    BY <2>8, <2>9
<1>2. SbInv /\ SbInv' => P
  <2> SUFFICES ASSUME ws \in Workspaces, ws' \in Workspaces, NEW hint,
                      NEW n \in ResolveBringup(ws, hint), NEW m \in ResolveBringup(ws', hint),
                      ~(hint = Missing /\ ws.default # ws'.default),
                      LET named == IF hint = Missing THEN ws.default ELSE hint
                      IN  OwnFiles(ws, named) = OwnFiles(ws', named)
               PROVE  n = m /\ BringupPackages(ws)[n] = BringupPackages(ws')[m]
    BY DEF SbInv, SbTypes
  <2>1. /\ n = IF hint = Missing THEN ws.default ELSE hint
        /\ m = IF hint = Missing THEN ws'.default ELSE hint
        /\ n \in DOMAIN BringupPackages(ws) /\ m \in DOMAIN BringupPackages(ws')
    BY DEF ResolveBringup
  <2>2. n = m
    BY <2>1
  <2>3. OwnFiles(ws, n) = OwnFiles(ws', n)
    BY <2>1
  <2> QED
    BY <1>1, <2>1, <2>2, <2>3
<1> QED
  BY <1>2, SbHolds, PTL DEF OwnFilesDecide

-----------------------------------------------------------------------------
(* The program made for a plan.                                            *)

\* The node that the plan has at m, once it is declared.
BuiltNode(m) == [name |-> PlanNodes[m].name, session |-> SessionIdx(PlanNodes[m])]

\* Which entity callback k is registered for, and where.
FoundFor(k) == FindCallbackEntity(Callbacks[k].inst, Callbacks[k].cb)
NodeOf(c) == IF c.entity.kind = "timer" THEN 1 ELSE NodeIdByName(c.node.name)
Handle(k, context) ==
    [entity |-> (CHOOSE c \in FoundFor(k) : TRUE).entity, node |-> NodeOf(CHOOSE c \in FoundFor(k) : TRUE),
     cell |-> Cell(Callbacks[k].inst, k), sched |-> context]

Context(k) ==
    IF stage \in {"closed", "building", "refused"} THEN 0 ELSE SchedContext(Callbacks[k].cb.sched)

\* The sessions of a start-up shim are those of the plan's domains.
SessionsAsPlanned ==
    stage # "closed" /\ plan.entry = "main" /\ MultiDomain => sessions = SessionSpecs

\* The nodes are the plan's, in its order, each in a session there is.
NodesAsPlanned ==
    /\ nodes \in Seq({BuiltNode(m) : m \in DOMAIN PlanNodes}) /\ Len(nodes) <= Len(PlanNodes)
    /\ \A m \in DOMAIN nodes : nodes[m] = BuiltNode(m) /\ nodes[m].session \in DOMAIN sessions
    /\ stage = "closed" => nodes = <<>>

\* The callbacks are the plan's, in its order; the first comes after the last node.
HandlesAsPlanned ==
    /\ handles \in Seq({Handle(k, Context(k)) : k \in DOMAIN Callbacks})
    /\ Len(handles) <= Len(Callbacks)
    /\ \A k \in DOMAIN handles :
          handles[k] = Handle(k, Context(k)) /\ \E c \in FoundFor(k) : NodeOf(c) # 0
    /\ handles # <<>> => Len(nodes) = Len(PlanNodes)

GsInv ==
    /\ plan \in Plans
    /\ SessionsAsPlanned /\ NodesAsPlanned /\ HandlesAsPlanned

-----------------------------------------------------------------------------
(* What the plan's lists are made of.                                      *)

LEMMA LeastMember ==
    ASSUME NEW T \in SUBSET Nat, T # {}
    PROVE  Min(T) \in T /\ \A m \in T : Min(T) <= m
BY LeastNumber DEF Min

LEMMA PlanLists ==
    ASSUME plan \in Plans
    PROVE  /\ List(plan.sched) /\ List(plan.instances)
           /\ \A i \in DOMAIN plan.instances :
                 /\ List(plan.instances[i].callbacks) /\ List(plan.instances[i].nodes)
                 /\ \A n \in DOMAIN plan.instances[i].nodes : List(plan.instances[i].nodes[n].entities)
<1>1. \A inst \in Range(plan.instances) :
         /\ List(inst.callbacks) /\ List(inst.nodes)
         /\ \A node \in Range(inst.nodes) : List(node.entities)
  BY SystemAssumption
<1>2. ASSUME NEW i \in DOMAIN plan.instances PROVE plan.instances[i] \in Range(plan.instances)
  BY DEF Range
<1>3. ASSUME NEW i \in DOMAIN plan.instances, NEW n \in DOMAIN plan.instances[i].nodes
      PROVE  plan.instances[i].nodes[n] \in Range(plan.instances[i].nodes)
  BY DEF Range
<1>4. List(plan.sched) /\ List(plan.instances)
  BY SystemAssumption
<1> QED
  BY <1>1, <1>2, <1>3, <1>4

LEMMA ListIs ==
    ASSUME NEW s, List(s)
    PROVE  Len(s) \in Nat /\ DOMAIN s = 1..Len(s) /\ \A i \in DOMAIN s : s[i] \in Range(s)
BY DEF List, Range

\* The nodes of the plan are those of its instances.
LEMMA NodesOfPlan ==
    ASSUME plan \in Plans
    PROVE  /\ Len(PlanNodes) \in Nat /\ DOMAIN PlanNodes = 1..Len(PlanNodes)
           /\ \A i \in DOMAIN plan.instances : \A n \in DOMAIN plan.instances[i].nodes :
                 \E m \in DOMAIN PlanNodes : PlanNodes[m] = plan.instances[i].nodes[n]
<1> DEFINE lists == [i \in DOMAIN plan.instances |-> plan.instances[i].nodes]
           All == UNION {Range(plan.instances[i].nodes) : i \in DOMAIN plan.instances}
<1>1. /\ Len(plan.instances) \in Nat /\ DOMAIN plan.instances = 1..Len(plan.instances)
      /\ \A i \in DOMAIN plan.instances : List(plan.instances[i].nodes)
  BY PlanLists, ListIs
<1>2. ASSUME NEW i \in DOMAIN plan.instances PROVE plan.instances[i].nodes \in Seq(All)
  <2>1. \A x \in Range(plan.instances[i].nodes) : x \in All
    OBVIOUS
  <2> HIDE DEF All
  <2> QED
    <3>1. PICK s : s = plan.instances[i].nodes
      OBVIOUS
    <3>2. s \in Seq(Range(s)) /\ \A x \in ToSet(s) : x \in All
      BY <1>1, <2>1, <3>1 DEF List, Range, ToSet
    <3> QED
      BY <3>1, <3>2, SeqOver
<1> HIDE DEF All
<1>3. lists \in [1..Len(plan.instances) -> Seq(All)]
  BY <1>1, <1>2
<1>4. lists \in Seq(Seq(All))
  BY <1>1, <1>3
<1>5. PlanNodes \in Seq(All)
  BY <1>4, FlattenType DEF PlanNodes
<1>6. ASSUME NEW i \in DOMAIN plan.instances, NEW n \in DOMAIN plan.instances[i].nodes
      PROVE  \E m \in DOMAIN PlanNodes : PlanNodes[m] = plan.instances[i].nodes[n]
  <2>1. i \in DOMAIN lists /\ plan.instances[i].nodes[n] \in ToSet(lists[i])
    BY DEF ToSet
  <2>2. plan.instances[i].nodes[n] \in ToSet(FlattenSeq(lists))
    BY <1>4, <2>1, FlattenHas
  <2> QED
    BY <2>2 DEF PlanNodes, ToSet
<1> QED
  BY <1>5, <1>6

LEMMA CallbacksOfPlan ==
    ASSUME plan \in Plans
    PROVE  /\ Len(Callbacks) \in Nat /\ DOMAIN Callbacks = 1..Len(Callbacks)
           /\ \A k \in DOMAIN Callbacks : Callbacks[k].inst \in DOMAIN plan.instances
<1> DEFINE list(i) == [k \in DOMAIN plan.instances[i].callbacks |->
                          [inst |-> i, cb |-> plan.instances[i].callbacks[k]]]
           lists == [i \in DOMAIN plan.instances |-> list(i)]
           Of(i) == {[inst |-> i, cb |-> c] : c \in Range(plan.instances[i].callbacks)}
           All == UNION {Of(i) : i \in DOMAIN plan.instances}
<1>1. /\ Len(plan.instances) \in Nat /\ DOMAIN plan.instances = 1..Len(plan.instances)
      /\ \A i \in DOMAIN plan.instances : List(plan.instances[i].callbacks)
  BY PlanLists, ListIs
<1>2. ASSUME NEW i \in DOMAIN plan.instances PROVE list(i) \in Seq(All)
  <2>1. \A k \in DOMAIN plan.instances[i].callbacks : list(i)[k] \in Of(i)
    BY DEF Range
  <2>2. \A x \in Of(i) : x \in All
    OBVIOUS
  <2>3. /\ Len(plan.instances[i].callbacks) \in Nat
        /\ DOMAIN plan.instances[i].callbacks = 1..Len(plan.instances[i].callbacks)
    BY <1>1, ListIs
  <2> HIDE DEF Of, All
  <2>4. list(i) \in [1..Len(plan.instances[i].callbacks) -> All]
    BY <2>1, <2>2, <2>3
  <2> QED
    BY <2>3, <2>4
<1>3. \A x \in All : x.inst \in DOMAIN plan.instances
  OBVIOUS
<1> HIDE DEF All, list
<1>4. lists \in [1..Len(plan.instances) -> Seq(All)]
  BY <1>1, <1>2
<1>5. lists \in Seq(Seq(All))
  BY <1>1, <1>4
<1>6. Callbacks \in Seq(All)
  BY <1>5, FlattenType DEF Callbacks, list
<1> QED
  BY <1>3, <1>6

\* An entity is at a node of its instance.
LEMMA EntitiesOfPlan ==
    ASSUME plan \in Plans, NEW i \in DOMAIN plan.instances
    PROVE  /\ DOMAIN Entities(i) \in SUBSET Nat
           /\ \A e \in DOMAIN Entities(i) :
                 \E n \in DOMAIN plan.instances[i].nodes : Entities(i)[e].node = plan.instances[i].nodes[n]
<1> DEFINE planned == plan.instances[i].nodes
           list(n) == [e \in DOMAIN planned[n].entities |->
                          [node |-> planned[n], entity |-> planned[n].entities[e]]]
           lists == [n \in DOMAIN planned |-> list(n)]
           Of(n) == {[node |-> planned[n], entity |-> x] : x \in Range(planned[n].entities)}
           All == UNION {Of(n) : n \in DOMAIN planned}
<1>1. /\ Len(planned) \in Nat /\ DOMAIN planned = 1..Len(planned)
      /\ \A n \in DOMAIN planned : List(planned[n].entities)
  BY PlanLists, ListIs
<1>2. ASSUME NEW n \in DOMAIN planned PROVE list(n) \in Seq(All)
  <2>1. \A e \in DOMAIN planned[n].entities : list(n)[e] \in Of(n)
    BY DEF Range
  <2>2. \A x \in Of(n) : x \in All
    OBVIOUS
  <2>3. /\ Len(planned[n].entities) \in Nat
        /\ DOMAIN planned[n].entities = 1..Len(planned[n].entities)
    BY <1>1, ListIs
  <2> HIDE DEF Of, All
  <2>4. list(n) \in [1..Len(planned[n].entities) -> All]
    BY <2>1, <2>2, <2>3
  <2> QED
    BY <2>3, <2>4
<1>3. \A x \in All : \E n \in DOMAIN planned : x.node = planned[n]
  OBVIOUS
<1> HIDE DEF All, list
<1>4. lists \in [1..Len(planned) -> Seq(All)]
  BY <1>1, <1>2
<1>5. lists \in Seq(Seq(All))
  BY <1>1, <1>4
<1>6. Entities(i) \in Seq(All)
  BY <1>5, FlattenType DEF Entities, list
<1>7. DOMAIN Entities(i) = 1..Len(Entities(i)) /\ \A e \in DOMAIN Entities(i) : Entities(i)[e] \in All
  BY <1>6
<1> QED
  BY <1>3, <1>7

\* What is read off the plan does not change, as the plan does not.
LEMMA PlanStays ==
    ASSUME plan' = plan
    PROVE  /\ PlanNodes' = PlanNodes /\ Callbacks' = Callbacks
           /\ (MultiDomain <=> MultiDomain') /\ SessionSpecs' = SessionSpecs
           /\ \A node : SessionIdx(node)' = SessionIdx(node)
           /\ \A m : BuiltNode(m)' = BuiltNode(m)
           /\ \A k : FoundFor(k)' = FoundFor(k)
           /\ \A id : SchedContext(id)' = SchedContext(id)
           /\ \A i, k : Cell(i, k)' = Cell(i, k)
<1>1. PlanNodes' = PlanNodes
  BY DEF PlanNodes
<1>2. Callbacks' = Callbacks
  BY DEF Callbacks
<1>3. Domains' = Domains
  BY <1>1 DEF Domains
<1>4. MultiDomain <=> MultiDomain'
  BY <1>3 DEF MultiDomain, IsBridge
<1>5. SessionSpecs' = SessionSpecs
  BY <1>3, <1>4 DEF SessionSpecs
<1>6. \A node : SessionIdx(node)' = SessionIdx(node)
  BY <1>4, <1>5 DEF SessionIdx, SelectInSeq
<1>7. \A m : BuiltNode(m)' = BuiltNode(m)
  BY <1>1, <1>6 DEF BuiltNode
<1>8. \A i : Entities(i)' = Entities(i)
  BY DEF Entities
<1>9. \A i : Callable(i)' = Callable(i)
  BY <1>8 DEF Callable
<1>10. \A i, cb : FindCallbackEntity(i, cb)' = FindCallbackEntity(i, cb)
  <2>1. \A i, cb : Named(i, cb)' = Named(i, cb)
    BY <1>8, <1>9 DEF Named
  <2>2. \A i, cb : Guesses(i, cb)' = Guesses(i, cb)
    BY <1>8, <1>9 DEF Guesses
  <2> QED
    BY <2>1, <2>2 DEF FindCallbackEntity
<1>11. \A k : FoundFor(k)' = FoundFor(k)
  BY <1>2, <1>10 DEF FoundFor
<1>12. \A id : SchedContext(id)' = SchedContext(id)
  BY DEF SchedContext, SelectInSeq
<1>13. \A i, k : Cell(i, k)' = Cell(i, k)
  BY DEF Cell
<1> QED
  BY <1>1, <1>2, <1>4, <1>5, <1>6, <1>7, <1>11, <1>12, <1>13

LEMMA HandleStays ==
    ASSUME plan' = plan, nodes' = nodes
    PROVE  /\ \A c : NodeOf(c)' = NodeOf(c)
           /\ \A k, context : Handle(k, context)' = Handle(k, context)
<1>1. \A c : NodeOf(c)' = NodeOf(c)
  BY DEF NodeOf, NodeIdByName, SelectInSeq
<1>2. ASSUME NEW k, NEW context PROVE Handle(k, context)' = Handle(k, context)
  <2>1. PICK it : it = CHOOSE c \in FoundFor(k) : TRUE
    OBVIOUS
  <2>2. PICK where : where = Cell(Callbacks[k].inst, k)
    OBVIOUS
  <2>3. Handle(k, context) = [entity |-> it.entity, node |-> NodeOf(it), cell |-> where, sched |-> context]
    BY <2>1, <2>2 DEF Handle
  <2>4. it = (CHOOSE c \in FoundFor(k)' : TRUE)
    BY <2>1, PlanStays
  <2>5. where = Cell(Callbacks[k].inst, k)'
    <3>1. PICK i : i = Callbacks[k].inst
      OBVIOUS
    <3>2. Callbacks' = Callbacks
      BY PlanStays
    <3> QED
      BY <2>2, <3>1, <3>2, PlanStays
  <2>6. Handle(k, context)' = [entity |-> it.entity, node |-> NodeOf(it)', cell |-> where, sched |-> context]
    BY <2>4, <2>5 DEF Handle
  <2> QED
    BY <1>1, <2>3, <2>6
<1> QED
  BY <1>1, <1>2

-----------------------------------------------------------------------------
(* The invariant of the program.                                           *)

LEMMA GsInitInv == GsInit => GsInv
BY DEF GsInit, GsInv, SessionsAsPlanned, NodesAsPlanned, HandlesAsPlanned

\* A step that declares and registers nothing, as those of the loop.
LEMMA RestStays ==
    ASSUME GsInv, UNCHANGED <<plan, sessions, nodes, handles>>,
           \/ stage' = stage
           \/ stage = "spinning" /\ stage' \in {"ended", "panicked"}
           \/ stage = "building" /\ stage' = "refused"
    PROVE  GsInv'
<1>1. plan \in Plans /\ plan' \in Plans
  BY DEF GsInv
<1>2. PlanNodes' = PlanNodes /\ Callbacks' = Callbacks /\ \A m : BuiltNode(m)' = BuiltNode(m)
  BY PlanStays
<1>3. SessionsAsPlanned'
  <2>1. SessionSpecs' = SessionSpecs /\ (MultiDomain <=> MultiDomain')
    BY PlanStays
  <2> QED
    BY <2>1 DEF GsInv, SessionsAsPlanned
<1>4. NodesAsPlanned'
  BY <1>2 DEF GsInv, NodesAsPlanned
<1>5. \A k : Context(k)' = Context(k)
  <2>1. \A k : SchedContext(Callbacks[k].cb.sched)' = SchedContext(Callbacks[k].cb.sched)
    <3> SUFFICES ASSUME NEW k
                 PROVE  SchedContext(Callbacks[k].cb.sched)' = SchedContext(Callbacks[k].cb.sched)
      OBVIOUS
    <3>1. PICK id : id = Callbacks[k].cb.sched
      OBVIOUS
    <3> QED
      BY <1>2, <3>1, PlanStays
  <2> QED
    BY <2>1 DEF Context
<1>6. \A k : Handle(k, Context(k))' = Handle(k, Context(k))
  <2> SUFFICES ASSUME NEW k PROVE Handle(k, Context(k))' = Handle(k, Context(k))
    OBVIOUS
  <2>1. PICK context : context = Context(k)
    OBVIOUS
  <2> QED
    BY <1>5, <2>1, HandleStays
<1>7. HandlesAsPlanned'
  <2>1. \A k : (\E c \in FoundFor(k) : NodeOf(c) # 0) <=> (\E c \in FoundFor(k) : NodeOf(c) # 0)'
    BY PlanStays, HandleStays
  <2> QED
    BY <1>2, <1>6, <2>1 DEF GsInv, HandlesAsPlanned
<1> QED
  BY <1>1, <1>3, <1>4, <1>7 DEF GsInv

LEMMA OpenKeeps == GsInv /\ OpenExecutor => GsInv'
<1> SUFFICES ASSUME GsInv, OpenExecutor PROVE GsInv'
  OBVIOUS
<1>1. /\ stage = "closed" /\ stage' = "building" /\ UNCHANGED <<plan, nodes, handles>>
      /\ sessions' = IF plan.entry = "main" /\ (IsBridge \/ MultiDomain) THEN SessionSpecs ELSE <<0>>
  BY DEF OpenExecutor
<1>2. /\ PlanNodes' = PlanNodes /\ Callbacks' = Callbacks /\ \A m : BuiltNode(m)' = BuiltNode(m)
      /\ SessionSpecs' = SessionSpecs /\ (MultiDomain <=> MultiDomain')
  BY <1>1, PlanStays
<1>3. SessionsAsPlanned'
  BY <1>1, <1>2 DEF SessionsAsPlanned
<1>4. nodes = <<>>
  BY <1>1 DEF GsInv, NodesAsPlanned
<1>5. NodesAsPlanned'
  BY <1>1, <1>2, <1>4 DEF GsInv, NodesAsPlanned
<1>6. \A k : Context(k) = 0 /\ Context(k)' = 0
  BY <1>1 DEF Context
<1>7. \A k : Handle(k, Context(k))' = Handle(k, Context(k))
  BY <1>1, <1>6, HandleStays
<1>8. \A k : (\E c \in FoundFor(k) : NodeOf(c) # 0) <=> (\E c \in FoundFor(k) : NodeOf(c) # 0)'
  BY <1>1, PlanStays, HandleStays
<1>9. HandlesAsPlanned'
  BY <1>1, <1>2, <1>7, <1>8 DEF GsInv, HandlesAsPlanned
<1> QED
  BY <1>1, <1>3, <1>5, <1>9 DEF GsInv

LEMMA BuildKeeps == GsInv /\ BuildComponentNode => GsInv'
<1> SUFFICES ASSUME GsInv, BuildComponentNode PROVE GsInv'
  OBVIOUS
<1> DEFINE m == Len(nodes) + 1
           node == PlanNodes[m]
<1>1. /\ stage = "building" /\ Len(nodes) < Len(PlanNodes)
      /\ \/ /\ SessionIdx(node) \in DOMAIN sessions
            /\ nodes' = Append(nodes, [name |-> node.name, session |-> SessionIdx(node)])
            /\ stage' = stage
         \/ stage' = "refused" /\ nodes' = nodes
      /\ UNCHANGED <<plan, sessions, handles>>
  BY DEF BuildComponentNode
<1>2. CASE nodes' = nodes /\ stage' = "refused"
  BY <1>1, <1>2, RestStays
<1>3. CASE /\ SessionIdx(node) \in DOMAIN sessions
           /\ nodes' = Append(nodes, [name |-> node.name, session |-> SessionIdx(node)])
           /\ stage' = stage
  <2>1. /\ PlanNodes' = PlanNodes /\ Callbacks' = Callbacks /\ \A n : BuiltNode(n)' = BuiltNode(n)
        /\ SessionSpecs' = SessionSpecs /\ (MultiDomain <=> MultiDomain')
    BY <1>1, PlanStays
  <2>2. plan \in Plans /\ Len(PlanNodes) \in Nat /\ DOMAIN PlanNodes = 1..Len(PlanNodes)
    BY NodesOfPlan DEF GsInv
  <2> DEFINE All == {BuiltNode(n) : n \in DOMAIN PlanNodes}
  <2>3. nodes \in Seq(All) /\ Len(nodes) \in Nat
    BY DEF GsInv, NodesAsPlanned
  <2>4. m \in DOMAIN PlanNodes
    BY <1>1, <2>2, <2>3
  <2>5. BuiltNode(m) \in All
    BY <2>4
  <2>6. nodes' = Append(nodes, BuiltNode(m)) /\ BuiltNode(m).session \in DOMAIN sessions
    BY <1>3 DEF BuiltNode
  <2>7. All' = All
    BY <2>1
  <2> HIDE DEF All
  <2>8. /\ nodes' \in Seq(All) /\ Len(nodes') = Len(nodes) + 1
        /\ \A n \in DOMAIN nodes' :
              \/ n \in DOMAIN nodes /\ nodes'[n] = nodes[n]
              \/ n = m /\ nodes'[n] = BuiltNode(m)
    <3>1. PICK new : new = BuiltNode(m)
      OBVIOUS
    <3>2. PICK longer : longer = Append(nodes, new)
      OBVIOUS
    <3>3. /\ longer \in Seq(All) /\ Len(longer) = Len(nodes) + 1
          /\ \A n \in DOMAIN longer :
                \/ n \in DOMAIN nodes /\ longer[n] = nodes[n]
                \/ n = Len(nodes) + 1 /\ longer[n] = new
      BY <2>3, <2>5, <3>1, <3>2, AppendIs
    <3>4. nodes' = longer
      BY <2>6, <3>1, <3>2
    <3> QED
      BY <3>1, <3>3, <3>4
  <2>9. NodesAsPlanned'
    <3>1. \A n \in DOMAIN nodes' : nodes'[n] = BuiltNode(n) /\ nodes'[n].session \in DOMAIN sessions
      BY <2>6, <2>8 DEF GsInv, NodesAsPlanned
    <3>2. Len(nodes') <= Len(PlanNodes)
      BY <1>1, <2>2, <2>3, <2>8
    <3> QED
      BY <1>1, <1>3, <2>1, <2>7, <2>8, <3>1, <3>2 DEF NodesAsPlanned, All
  \* Nothing is registered as yet.
  <2>10. handles = <<>> /\ handles' = <<>>
    BY <1>1, <2>2, <2>3 DEF GsInv, HandlesAsPlanned
  <2>11. HandlesAsPlanned'
    <3>1. Len(Callbacks) \in Nat
      BY <2>2, CallbacksOfPlan
    <3>2. Len(handles') = 0 /\ DOMAIN handles' = {} /\ \A S : handles' \in Seq(S)
      BY <2>10
    <3> QED
      BY <2>1, <2>10, <3>1, <3>2 DEF HandlesAsPlanned
  <2>12. SessionsAsPlanned'
    BY <1>1, <1>3, <2>1 DEF GsInv, SessionsAsPlanned
  <2> QED
    BY <1>1, <2>2, <2>9, <2>11, <2>12 DEF GsInv
<1> QED
  BY <1>1, <1>2, <1>3

LEMMA RegisterKeeps == GsInv /\ RegisterCallback => GsInv'
<1> SUFFICES ASSUME GsInv, RegisterCallback PROVE GsInv'
  OBVIOUS
<1> DEFINE k == Len(handles) + 1
<1>1. /\ stage = "building" /\ Len(nodes) = Len(PlanNodes) /\ Len(handles) < Len(Callbacks)
      /\ \/ /\ \E c \in FoundFor(k) : NodeOf(c) # 0
            /\ handles' = Append(handles, Handle(k, 0))
            /\ stage' = stage
         \/ stage' = "refused" /\ handles' = handles
      /\ UNCHANGED <<plan, sessions, nodes>>
  BY DEF RegisterCallback, Handle, FoundFor, NodeOf
<1>2. CASE stage' = "refused" /\ handles' = handles
  BY <1>1, <1>2, RestStays
<1>3. CASE /\ \E c \in FoundFor(k) : NodeOf(c) # 0
           /\ handles' = Append(handles, Handle(k, 0))
           /\ stage' = stage
  <2>1. /\ PlanNodes' = PlanNodes /\ Callbacks' = Callbacks /\ \A m : BuiltNode(m)' = BuiltNode(m)
        /\ SessionSpecs' = SessionSpecs /\ (MultiDomain <=> MultiDomain')
    BY <1>1, PlanStays
  <2>2. plan \in Plans /\ Len(Callbacks) \in Nat /\ DOMAIN Callbacks = 1..Len(Callbacks)
    BY CallbacksOfPlan DEF GsInv
  <2>3. \A j : Context(j) = 0 /\ Context(j)' = 0
    BY <1>1, <1>3 DEF Context
  <2> DEFINE All == {Handle(j, 0) : j \in DOMAIN Callbacks}
  <2>4. /\ handles \in Seq(All) /\ Len(handles) \in Nat
        /\ \A j \in DOMAIN handles : handles[j] = Handle(j, 0) /\ \E c \in FoundFor(j) : NodeOf(c) # 0
    BY <2>3 DEF GsInv, HandlesAsPlanned
  <2>5. k \in DOMAIN Callbacks
    BY <1>1, <2>2, <2>4
  <2>6. Handle(k, 0) \in All
    BY <2>5
  <2>7. \A j : Handle(j, 0)' = Handle(j, 0)
    BY <1>1, HandleStays
  <2>8. All' = All
    BY <2>1, <2>7
  <2> HIDE DEF All
  <2>9. /\ handles' \in Seq(All) /\ Len(handles') = Len(handles) + 1
        /\ \A j \in DOMAIN handles' :
              \/ j \in DOMAIN handles /\ handles'[j] = handles[j]
              \/ j = k /\ handles'[j] = Handle(k, 0)
    <3>1. PICK new : new = Handle(k, 0)
      OBVIOUS
    <3>2. PICK longer : longer = Append(handles, new)
      OBVIOUS
    <3>3. /\ longer \in Seq(All) /\ Len(longer) = Len(handles) + 1
          /\ \A j \in DOMAIN longer :
                \/ j \in DOMAIN handles /\ longer[j] = handles[j]
                \/ j = Len(handles) + 1 /\ longer[j] = new
      BY <2>4, <2>6, <3>1, <3>2, AppendIs
    <3>4. handles' = longer
      BY <1>3, <3>1, <3>2
    <3> QED
      BY <3>1, <3>3, <3>4
  <2>10. HandlesAsPlanned'
    <3>1. \A j \in DOMAIN handles' : handles'[j] = Handle(j, 0) /\ \E c \in FoundFor(j) : NodeOf(c) # 0
      BY <1>3, <2>4, <2>9
    <3>2. \A j : (\E c \in FoundFor(j) : NodeOf(c) # 0) => (\E c \in FoundFor(j) : NodeOf(c) # 0)'
      BY <1>1, PlanStays, HandleStays
    <3>3. Len(handles') <= Len(Callbacks)
      BY <1>1, <2>2, <2>4, <2>9
    <3>4. Len(nodes)' = Len(PlanNodes)'
      BY <1>1, <2>1
    <3>5. handles' \in Seq({Handle(j, Context(j)) : j \in DOMAIN Callbacks}')
      BY <2>1, <2>3, <2>8, <2>9 DEF All
    <3>6. \A j \in DOMAIN handles' :
             handles'[j] = Handle(j, Context(j))' /\ (\E c \in FoundFor(j) : NodeOf(c) # 0)'
      BY <2>3, <2>7, <3>1, <3>2
    <3> QED
      BY <2>1, <3>3, <3>4, <3>5, <3>6 DEF HandlesAsPlanned
  <2>11. SessionsAsPlanned' /\ NodesAsPlanned'
    BY <1>1, <1>3, <2>1 DEF GsInv, SessionsAsPlanned, NodesAsPlanned
  <2> QED
    BY <1>1, <2>2, <2>10, <2>11 DEF GsInv
<1> QED
  BY <1>1, <1>2, <1>3

LEMMA BindKeeps == GsInv /\ BindAll => GsInv'
<1> SUFFICES ASSUME GsInv, BindAll PROVE GsInv'
  OBVIOUS
<1>1. /\ stage = "building" /\ stage' = "spinning"
      /\ Len(nodes) = Len(PlanNodes) /\ Len(handles) = Len(Callbacks)
      /\ handles' = [k \in DOMAIN handles |->
                        [handles[k] EXCEPT !.sched = SchedContext(Callbacks[k].cb.sched)]]
      /\ UNCHANGED <<plan, sessions, nodes>>
  BY DEF BindAll
<1>2. /\ PlanNodes' = PlanNodes /\ Callbacks' = Callbacks /\ \A m : BuiltNode(m)' = BuiltNode(m)
      /\ SessionSpecs' = SessionSpecs /\ (MultiDomain <=> MultiDomain')
  BY <1>1, PlanStays
<1>3. plan \in Plans /\ Len(Callbacks) \in Nat /\ DOMAIN Callbacks = 1..Len(Callbacks)
  BY CallbacksOfPlan DEF GsInv
<1>4. \A k : Context(k) = 0
  BY <1>1 DEF Context
<1>5. /\ handles \in Seq({Handle(k, 0) : k \in DOMAIN Callbacks})
      /\ \A k \in DOMAIN handles : handles[k] = Handle(k, 0) /\ \E c \in FoundFor(k) : NodeOf(c) # 0
  BY <1>4 DEF GsInv, HandlesAsPlanned
<1> DEFINE context(k) == SchedContext(Callbacks[k].cb.sched)
<1>6. \A k : context(k)' = context(k) /\ Context(k)' = context(k)
  <2> SUFFICES ASSUME NEW k PROVE context(k)' = context(k) /\ Context(k)' = context(k)
    OBVIOUS
  <2>1. PICK id : id = Callbacks[k].cb.sched
    OBVIOUS
  <2>2. context(k)' = context(k)
    BY <1>1, <1>2, <2>1, PlanStays
  <2> QED
    BY <1>1, <2>2 DEF Context
<1> HIDE DEF context
<1>7. \A k : Handle(k, Context(k))' = Handle(k, context(k))
  <2> SUFFICES ASSUME NEW k PROVE Handle(k, Context(k))' = Handle(k, context(k))
    OBVIOUS
  <2>1. PICK id : id = context(k)
    OBVIOUS
  <2>2. Handle(k, Context(k))' = Handle(k, id)'
    BY <1>6, <2>1 DEF Handle
  <2> QED
    BY <1>1, <2>1, <2>2, HandleStays
<1>8. \A k \in DOMAIN handles : handles'[k] = Handle(k, context(k))
  <2> SUFFICES ASSUME NEW k \in DOMAIN handles PROVE handles'[k] = Handle(k, context(k))
    OBVIOUS
  <2>1. handles'[k] = [handles[k] EXCEPT !.sched = context(k)]
    BY <1>1 DEF context
  <2>2. handles[k] = Handle(k, 0)
    BY <1>5
  <2> QED
    BY <2>1, <2>2 DEF Handle
<1>9. DOMAIN handles' = 1..Len(Callbacks) /\ DOMAIN handles = 1..Len(Callbacks)
  BY <1>1, <1>5
<1>10. HandlesAsPlanned'
  <2> DEFINE All == {Handle(k, Context(k)) : k \in DOMAIN Callbacks}'
  <2>1. \A k \in DOMAIN handles' : handles'[k] = Handle(k, Context(k))'
    BY <1>7, <1>8, <1>9
  <2>2. \A k \in DOMAIN handles' : handles'[k] \in All
    BY <1>2, <1>3, <1>9, <2>1
  <2> HIDE DEF All
  <2>3. handles' \in Seq(All) /\ Len(handles') = Len(Callbacks)
    <3>1. handles' = [k \in 1..Len(Callbacks) |-> handles'[k]]
      BY <1>1, <1>9
    <3>2. handles' \in [1..Len(Callbacks) -> All]
      BY <1>9, <2>2, <3>1
    <3> QED
      BY <1>3, <3>2
  <2>4. \A k \in DOMAIN handles' : (\E c \in FoundFor(k) : NodeOf(c) # 0)'
    BY <1>1, <1>5, <1>9, PlanStays, HandleStays
  <2> QED
    BY <1>1, <1>2, <1>3, <2>1, <2>3, <2>4 DEF HandlesAsPlanned, All
<1>11. SessionsAsPlanned' /\ NodesAsPlanned'
  BY <1>1, <1>2 DEF GsInv, SessionsAsPlanned, NodesAsPlanned
<1> QED
  BY <1>1, <1>3, <1>10, <1>11 DEF GsInv

LEMMA GsStep == GsInv /\ [GsNext]_gsVars => GsInv'
<1> SUFFICES ASSUME GsInv, [GsNext]_gsVars PROVE GsInv'
  OBVIOUS
<1>1. CASE OpenExecutor
  BY <1>1, OpenKeeps
<1>2. CASE BuildComponentNode
  BY <1>2, BuildKeeps
<1>3. CASE RegisterCallback
  BY <1>3, RegisterKeeps
<1>4. CASE BindAll
  BY <1>4, BindKeeps
<1>5. CASE \E k \in DOMAIN handles : Arrive(k)
  BY <1>5, RestStays DEF Arrive
<1>6. CASE Halt
  BY <1>6, RestStays DEF Halt
<1>7. CASE LoopStep
  <2>1. /\ UNCHANGED <<plan, sessions, nodes, handles>>
        /\ \/ stage' = stage
           \/ stage = "spinning" /\ stage' \in {"ended", "panicked"}
    BY <1>7 DEF LoopStep, LoopTop, Dispatch, SpinDone, Tick, TickReturns, CallRaw, CallPass
  <2> QED
    BY <2>1, RestStays
<1>8. CASE UNCHANGED gsVars
  BY <1>8, RestStays DEF gsVars
<1> QED
  BY <1>1, <1>2, <1>3, <1>4, <1>5, <1>6, <1>7, <1>8 DEF GsNext

LEMMA GsHolds == GsSpec => []GsInv
BY GsInitInv, GsStep, PTL DEF GsSpec

-----------------------------------------------------------------------------
(* What a started program does.                                            *)

\* The position that SelectInSeq answers, I being those that pass its test.
LEMMA SelectIs ==
    ASSUME NEW n, NEW I \in SUBSET (1..n), NEW k, k = IF I # {} THEN Min(I) ELSE 0
    PROVE  (k # 0 <=> I # {}) /\ (k # 0 => k \in I /\ k \in 1..n)
<1>1. I \in SUBSET Nat /\ 0 \notin I
  OBVIOUS
<1>2. CASE I # {}
  BY <1>1, <1>2, LeastMember
<1> QED
  BY <1>2

LEMMA NodeFound ==
    ASSUME NEW name, NodeIdByName(name) # 0
    PROVE  NodeIdByName(name) \in 1..Len(nodes) /\ nodes[NodeIdByName(name)].name = name
<1> DEFINE I == {m \in 1..Len(nodes) : nodes[m].name = name}
<1>1. NodeIdByName(name) = IF I # {} THEN Min(I) ELSE 0
  BY DEF NodeIdByName, SelectInSeq
<1>2. NodeIdByName(name) \in I /\ NodeIdByName(name) \in 1..Len(nodes)
  BY <1>1, SelectIs
<1> QED
  BY <1>2

LEMMA SessionFound ==
    ASSUME NEW node, MultiDomain, SessionIdx(node) # 0
    PROVE  SessionSpecs[SessionIdx(node)] = DomainOf(node)
<1> DEFINE I == {s \in 1..Len(SessionSpecs) : SessionSpecs[s] = DomainOf(node)}
<1>1. SessionIdx(node) = IF I # {} THEN Min(I) ELSE 0
  BY DEF SessionIdx, SelectInSeq
<1>2. SessionIdx(node) \in I
  BY <1>1, SelectIs
<1> QED
  BY <1>2

LEMMA SchedFound ==
    ASSUME plan \in Plans, NEW id
    PROVE  IF id \in Range(plan.sched)
           THEN SchedContext(id) # 0 /\ plan.sched[SchedContext(id)] = id
           ELSE SchedContext(id) = 0
<1> DEFINE I == {s \in 1..Len(plan.sched) : plan.sched[s] = id}
<1>1. SchedContext(id) = IF I # {} THEN Min(I) ELSE 0
  BY DEF SchedContext, SelectInSeq
<1>2. (SchedContext(id) # 0 <=> I # {}) /\ (SchedContext(id) # 0 => SchedContext(id) \in I)
  BY <1>1, SelectIs
<1>3. DOMAIN plan.sched = 1..Len(plan.sched)
  BY PlanLists, ListIs
<1>4. id \in Range(plan.sched) <=> I # {}
  BY <1>3 DEF Range
<1> QED
  BY <1>2, <1>4

\* A name's own entity comes before every guess.
LEMMA NamedIsFound ==
    ASSUME NEW i, NEW cb, Named(i, cb) # {}
    PROVE  FindCallbackEntity(i, cb) = Named(i, cb)
<1> DEFINE answers == <<Named(i, cb)>> \o Guesses(i, cb)
           I == {k \in 1..Len(answers) : answers[k] # {}}
<1>1. Len(answers) = 5 /\ answers[1] = Named(i, cb)
  BY DEF Guesses
<1>2. PICK k : k = IF I # {} THEN Min(I) ELSE 0
  OBVIOUS
<1>3. FindCallbackEntity(i, cb) = IF k = 0 THEN {} ELSE answers[k]
  BY <1>2 DEF FindCallbackEntity, FirstNonEmpty, SelectInSeq
<1>4. 1 \in I /\ I \in SUBSET Nat /\ 0 \notin I
  BY <1>1
<1> HIDE DEF I
<1>5. k = 1
  <2>1. k = Min(I)
    BY <1>2, <1>4
  <2>2. k \in I /\ k <= 1
    BY <1>4, <2>1, LeastMember
  <2>3. k \in Nat /\ k # 0
    BY <1>4, <2>2
  <2> QED
    BY <2>2, <2>3
<1> QED
  BY <1>1, <1>3, <1>5

\* The entity that alone names a callback is the one that is found for it.
LEMMA MeantIsFound ==
    ASSUME plan \in Plans, NEW k \in DOMAIN Callbacks, NEW x, Meant(k) = {x}
    PROVE  /\ FoundFor(k) = {x}
           /\ \E m \in DOMAIN PlanNodes : PlanNodes[m] = x.node
<1> DEFINE i == Callbacks[k].inst
           cb == Callbacks[k].cb
           T == {e \in Callable(i) : Exactly(Entities(i)[e], cb)}
<1>1. i \in DOMAIN plan.instances
  BY CallbacksOfPlan
<1>2. /\ DOMAIN Entities(i) \in SUBSET Nat
      /\ \A e \in DOMAIN Entities(i) :
            \E n \in DOMAIN plan.instances[i].nodes : Entities(i)[e].node = plan.instances[i].nodes[n]
  BY <1>1, EntitiesOfPlan
<1>3. T \in SUBSET Nat /\ T \in SUBSET DOMAIN Entities(i)
  BY <1>2 DEF Callable
<1>4. Meant(k) = {Entities(i)[e] : e \in T}
  BY DEF Meant
<1>5. T # {} /\ \A e \in T : Entities(i)[e] = x
  BY <1>4
<1>6. Named(i, cb) = {x}
  BY <1>3, <1>5, LeastMember DEF Named, FirstOf
<1>7. FoundFor(k) = {x}
  BY <1>6, NamedIsFound DEF FoundFor
<1>8. PICK n \in DOMAIN plan.instances[i].nodes : x.node = plan.instances[i].nodes[n]
  BY <1>2, <1>3, <1>5
<1>9. \E m \in DOMAIN PlanNodes : PlanNodes[m] = x.node
  BY <1>1, <1>8, NodesOfPlan
<1> QED
  BY <1>7, <1>9

\* A started program does what its plan says: a callback that one entity names
\* is that entity's, on the entity's node, in the session of the node's domain
\* and in its own scheduling context, whatever other entities its name hints at.
THEOREM StartsAsPlanned == GsSpec => []StartedAsPlanned
<1>1. ASSUME GsInv PROVE StartedAsPlanned
  <2> SUFFICES ASSUME stage = "spinning", plan.entry = "main", NamesDiffer,
                      NEW k \in DOMAIN handles, NEW x \in Meant(k), Meant(k) = {x}
               PROVE  /\ handles[k].entity = x.entity
                      /\ x.entity.kind # "timer" =>
                            /\ nodes[handles[k].node].name = x.node.name
                            /\ MultiDomain =>
                                  sessions[nodes[handles[k].node].session] = DomainOf(x.node)
                      /\ IF Callbacks[k].cb.sched \in Range(plan.sched)
                         THEN handles[k].sched # 0 /\ plan.sched[handles[k].sched] = Callbacks[k].cb.sched
                         ELSE handles[k].sched = 0
    BY DEF StartedAsPlanned
  <2>1. plan \in Plans
    BY <1>1 DEF GsInv
  <2>2. /\ handles[k] = Handle(k, Context(k))
        /\ \E c \in FoundFor(k) : NodeOf(c) # 0
    BY <1>1 DEF GsInv, HandlesAsPlanned
  <2>3. k \in DOMAIN Callbacks
    <3>1. handles \in Seq({Handle(j, Context(j)) : j \in DOMAIN Callbacks}) /\ Len(handles) <= Len(Callbacks)
      BY <1>1 DEF GsInv, HandlesAsPlanned
    <3>2. DOMAIN handles = 1..Len(handles) /\ Len(handles) \in Nat
      BY <3>1
    <3> QED
      BY <2>1, <3>1, <3>2, CallbacksOfPlan
  <2>4. FoundFor(k) = {x} /\ \E m \in DOMAIN PlanNodes : PlanNodes[m] = x.node
    BY <2>1, <2>3, MeantIsFound
  <2>5. (CHOOSE c \in FoundFor(k) : TRUE) = x
    BY <2>4
  <2>6. /\ handles[k].entity = x.entity
        /\ handles[k].node = NodeOf(x)
        /\ handles[k].sched = SchedContext(Callbacks[k].cb.sched)
    <3>1. Context(k) = SchedContext(Callbacks[k].cb.sched)
      BY DEF Context
    <3>2. PICK context : context = Context(k)
      OBVIOUS
    <3>3. PICK cell : cell = Cell(Callbacks[k].inst, k)
      OBVIOUS
    <3>4. Handle(k, context) =
             [entity |-> x.entity, node |-> NodeOf(x), cell |-> cell, sched |-> context]
      BY <2>5, <3>3, Zenon DEF Handle
    <3> QED
      BY <2>2, <3>1, <3>2, <3>4
  <2>7. ASSUME x.entity.kind # "timer"
        PROVE  /\ nodes[handles[k].node].name = x.node.name
               /\ MultiDomain => sessions[nodes[handles[k].node].session] = DomainOf(x.node)
    <3> DEFINE m == NodeIdByName(x.node.name)
    <3>1. handles[k].node = m /\ m # 0
      BY <2>2, <2>4, <2>6, <2>7 DEF NodeOf
    <3>2. m \in 1..Len(nodes) /\ nodes[m].name = x.node.name
      BY <3>1, NodeFound
    <3> HIDE DEF m
    <3>3. nodes \in Seq({BuiltNode(j) : j \in DOMAIN PlanNodes}) /\ Len(nodes) <= Len(PlanNodes)
      BY <1>1 DEF GsInv, NodesAsPlanned
    <3>4. DOMAIN nodes = 1..Len(nodes) /\ Len(nodes) \in Nat
      BY <3>3
    <3>5. m \in DOMAIN nodes /\ m \in DOMAIN PlanNodes
      BY <2>1, <3>2, <3>3, <3>4, NodesOfPlan
    <3>6. nodes[m] = BuiltNode(m) /\ nodes[m].session \in DOMAIN sessions
      BY <1>1, <3>5 DEF GsInv, NodesAsPlanned
    <3>7. nodes[m].name = PlanNodes[m].name /\ nodes[m].session = SessionIdx(PlanNodes[m])
      BY <3>6 DEF BuiltNode
    <3>8. PlanNodes[m] = x.node
      BY <2>4, <3>2, <3>5, <3>7 DEF NamesDiffer
    <3>9. ASSUME MultiDomain PROVE sessions[nodes[m].session] = DomainOf(x.node)
      <4>1. sessions = SessionSpecs
        BY <1>1, <3>9 DEF GsInv, SessionsAsPlanned
      <4>2. DOMAIN sessions = 1..Cardinality(Domains)
        BY <3>9, <4>1 DEF SessionSpecs, InOrder
      <4>3. SessionIdx(x.node) # 0
        BY <3>6, <3>7, <3>8, <4>2
      <4> QED
        BY <3>7, <3>8, <3>9, <4>1, <4>3, SessionFound
    <3> QED
      BY <3>1, <3>2, <3>9
  <2>8. IF Callbacks[k].cb.sched \in Range(plan.sched)
        THEN handles[k].sched # 0 /\ plan.sched[handles[k].sched] = Callbacks[k].cb.sched
        ELSE handles[k].sched = 0
    BY <2>1, <2>6, SchedFound
  <2> QED
    BY <2>6, <2>7, <2>8
<1> QED
  BY <1>1, GsHolds, PTL
-----------------------------------------------------------------------------
(* The bridges.                                                            *)

\* What validate_bridges does not ask: no two bridges have one name.
BridgeNamesDiffer == \A w \in Builds : \A b, c \in Range(w.bridges) : b.name = c.name => b = c

BfTypes ==
    /\ build \in Builds
    /\ DOMAIN seen = Sessions /\ \A s \in Sessions : seen[s] \in Nat
    /\ relay = "running" =>
          BridgesValid /\ pairs = UNION {PairsOf(b) : b \in Range(build.bridges)}
    /\ published # {} => relay = "running"
    /\ published = {} => flying = {} /\ \A s \in Sessions : seen[s] = 0

\* What flies carries the sample's topic, from a session that saw it.
UnderWay ==
    \A x \in published :
        /\ x[1] \in Sessions /\ seen[x[1]] >= 1
        /\ \A f \in flying : f.to \in pairs /\ f.to.topic = x[2] /\ seen[f.to.from] >= 1

\* A sample bridge b will forward to session e is on its way.
ToCome(b, e) == \E f \in flying : f.to.bridge = b.name /\ f.to.to = e /\ f.origin # {b.name}

\* What one end of a bridge saw, the others saw or will see.
Relayed ==
    \A x \in published : \A b \in BridgesOf(x[2]) : \A s, e \in EndsOf(b) :
        seen[s] >= 1 => seen[e] >= 1 \/ ToCome(b, e)

BfInv == BfTypes /\ UnderWay /\ Relayed

LEMMA EndsAreSessions ==
    ASSUME build \in Builds, BridgesValid, NEW b \in Range(build.bridges)
    PROVE  EndsOf(b) \subseteq Sessions
<1> SUFFICES ASSUME NEW ep \in Range(b.connect) PROVE SessionOf(ep) \in Sessions
  BY DEF EndsOf
<1>1. EndpointSession(ep) # {}
  BY DEF BridgesValid
<1>2. EndpointSession(ep) \subseteq Sessions
  BY DEF EndpointSession
<1>3. Sessions \subseteq Nat
  BY BridgeAssumption DEF Sessions, BfTypes
<1>4. EndpointSession(ep) \in SUBSET Nat
  BY <1>2, <1>3
<1>5. Min(EndpointSession(ep)) \in EndpointSession(ep)
  BY <1>1, <1>4, LeastMember
<1> QED
  BY <1>2, <1>5 DEF SessionOf

\* A subscription belongs to a bridge of its topic, between two ends of it; and
\* for every bridge and two ends that differ there is one.
LEMMA PairsAre ==
    ASSUME BfTypes, relay = "running"
    PROVE  /\ \A p \in pairs : \E b \in Range(build.bridges) :
                 /\ p.bridge = b.name /\ p.topic \in b.topics
                 /\ p.from \in EndsOf(b) /\ p.to \in EndsOf(b)
           /\ \A t : \A b \in BridgesOf(t) : \A s, e \in EndsOf(b) :
                 s # e => [bridge |-> b.name, topic |-> t, from |-> s, to |-> e] \in pairs
<1>1. pairs = UNION {PairsOf(b) : b \in Range(build.bridges)}
  BY DEF BfTypes
<1>2. ASSUME NEW b \in Range(build.bridges), NEW i \in DOMAIN b.connect
      PROVE  SessionOf(b.connect[i]) \in EndsOf(b)
  BY DEF EndsOf, Range
<1>3. ASSUME NEW p \in pairs
      PROVE  \E b \in Range(build.bridges) :
                 /\ p.bridge = b.name /\ p.topic \in b.topics
                 /\ p.from \in EndsOf(b) /\ p.to \in EndsOf(b)
  <2>1. PICK b \in Range(build.bridges) : p \in PairsOf(b)
    BY <1>1
  <2>2. PICK t \in b.topics, i \in DOMAIN b.connect, j \in DOMAIN b.connect :
           p = [bridge |-> b.name, topic |-> t,
                from |-> SessionOf(b.connect[i]), to |-> SessionOf(b.connect[j])]
    BY <2>1 DEF PairsOf
  <2>3. p.bridge = b.name /\ p.topic = t
        /\ p.from = SessionOf(b.connect[i]) /\ p.to = SessionOf(b.connect[j])
    BY <2>2
  <2> QED
    BY <1>2, <2>3
<1>4. ASSUME NEW t, NEW b \in BridgesOf(t), NEW s \in EndsOf(b), NEW e \in EndsOf(b), s # e
      PROVE  [bridge |-> b.name, topic |-> t, from |-> s, to |-> e] \in pairs
  <2>1. b \in Range(build.bridges) /\ t \in b.topics
    BY DEF BridgesOf
  <2>2. PICK i \in DOMAIN b.connect : s = SessionOf(b.connect[i])
    BY DEF EndsOf, Range
  <2>3. PICK j \in DOMAIN b.connect : e = SessionOf(b.connect[j])
    BY DEF EndsOf, Range
  <2>4. PICK ij : ij = <<i, j>>
    OBVIOUS
  <2>5. ij \in {x \in (DOMAIN b.connect) \X (DOMAIN b.connect) : x[1] # x[2]}
        /\ ij[1] = i /\ ij[2] = j
    BY <1>4, <2>2, <2>3, <2>4
  <2>6. [bridge |-> b.name, topic |-> t, from |-> s, to |-> e] \in PairsOf(b)
    BY <2>1, <2>2, <2>3, <2>5 DEF PairsOf
  <2> QED
    BY <1>1, <2>1, <2>6
<1> QED
  BY <1>3, <1>4

LEMMA AppearsIs ==
    ASSUME BfTypes, NEW s \in Sessions
    PROVE  /\ DOMAIN Appears(s) = Sessions
           /\ Appears(s)[s] >= 1 /\ Appears(s)[s] <= seen[s] + 1
           /\ \A e \in Sessions : Appears(s)[e] \in Nat /\ (e # s => Appears(s)[e] = seen[e])
<1>1. {MaxSeen, seen[s] + 1} \in SUBSET (Nat \ {0})
  BY BridgeAssumption DEF BfTypes
<1>2. Min({MaxSeen, seen[s] + 1}) \in {MaxSeen, seen[s] + 1}
  BY <1>1, LeastMember
<1>3. Min({MaxSeen, seen[s] + 1}) \in Nat \ {0} /\ Min({MaxSeen, seen[s] + 1}) <= seen[s] + 1
  BY <1>1, <1>2, LeastMember
<1>4. PICK n : n = Min({MaxSeen, seen[s] + 1})
  OBVIOUS
<1>5. Appears(s) = [seen EXCEPT ![s] = n]
  BY <1>4 DEF Appears
<1>6. n \in Nat /\ n >= 1 /\ n <= seen[s] + 1
  BY <1>3, <1>4
<1> QED
  BY <1>5, <1>6 DEF BfTypes

\* The plan and its subscriptions stay once the relay runs.
LEMMA BridgesStay ==
    ASSUME UNCHANGED build
    PROVE  /\ Sessions' = Sessions /\ BridgesValid' = BridgesValid
           /\ \A t : BridgesOf(t)' = BridgesOf(t)
           /\ \A b : EndsOf(b)' = EndsOf(b) /\ PairsOf(b)' = PairsOf(b)
<1>1. Sessions' = Sessions
  BY DEF Sessions
<1>2. \A ep : EndpointSession(ep)' = EndpointSession(ep)
  BY <1>1 DEF EndpointSession
<1>3. \A ep : SessionOf(ep)' = SessionOf(ep)
  BY <1>2 DEF SessionOf
<1> QED
  BY <1>1, <1>2, <1>3 DEF BridgesValid, BridgesOf, EndsOf, PairsOf

LEMMA ValidateKeeps == ASSUME BfInv, ValidateBridges PROVE BfInv'
<1>1. published = {} /\ UNCHANGED <<build, flying, seen, published>>
  BY DEF BfInv, BfTypes, ValidateBridges
<1>2. BfTypes'
  BY <1>1, BridgesStay DEF BfInv, BfTypes, ValidateBridges
<1> QED
  BY <1>1, <1>2 DEF BfInv, UnderWay, Relayed

LEMMA PublishKeeps ==
    ASSUME BfInv, NEW s \in Sessions, NEW t \in Topics, Publish(s, t)
    PROVE  BfInv'
<1>1. /\ relay = "running" /\ published = {} /\ published' = {<<s, t>>}
      /\ seen' = Appears(s) /\ UNCHANGED <<build, relay, pairs>>
      /\ flying' = flying \cup Copies(s, t, {})
  BY DEF Publish
<1>2. flying = {} /\ \A e \in Sessions : seen[e] = 0
  BY <1>1 DEF BfInv, BfTypes
<1>3. /\ DOMAIN seen' = Sessions /\ seen'[s] >= 1
      /\ \A e \in Sessions : seen'[e] \in Nat /\ (e # s => seen'[e] = 0)
  BY <1>1, <1>2, AppearsIs DEF BfInv
<1>4. BfTypes'
  BY <1>1, <1>3, BridgesStay DEF BfInv, BfTypes
<1>5. ASSUME NEW f \in flying' PROVE f.to \in pairs /\ f.to.from = s /\ f.to.topic = t
  BY <1>1, <1>2 DEF Copies
<1>6. UnderWay'
  BY <1>1, <1>3, <1>5, BridgesStay DEF UnderWay
<1>7. ASSUME NEW b \in BridgesOf(t), NEW r \in EndsOf(b), NEW e \in EndsOf(b), seen'[r] >= 1, ~(seen'[e] >= 1)
      PROVE  ToCome(b, e)'
  <2>1. b \in Range(build.bridges) /\ EndsOf(b) \subseteq Sessions
    BY <1>1, EndsAreSessions DEF BridgesOf, BfInv, BfTypes
  <2>2. r = s /\ e # s
    BY <1>3, <1>7, <2>1
  <2>3. PICK p : p = [bridge |-> b.name, topic |-> t, from |-> s, to |-> e]
    OBVIOUS
  <2>4. p \in pairs /\ p.bridge = b.name /\ p.topic = t /\ p.from = s /\ p.to = e
    BY <1>1, <2>2, <2>3, PairsAre DEF BfInv
  <2>5. PICK f : f = [to |-> p, origin |-> {}]
    OBVIOUS
  <2>6. f \in flying'
    BY <1>1, <2>4, <2>5 DEF Copies
  <2>7. f.to = p /\ f.origin # {b.name}
    BY <2>5
  <2> QED
    BY <2>4, <2>6, <2>7 DEF ToCome
<1>8. Relayed'
  BY <1>1, <1>7, BridgesStay DEF Relayed
<1> QED
  BY <1>4, <1>6, <1>8 DEF BfInv

LEMMA DeliverKeeps == ASSUME BridgeNamesDiffer, BfInv, Deliver PROVE BfInv'
<1>1. PICK f \in flying : Forward(f)
  BY DEF Deliver
<1>2. UNCHANGED <<build, relay, pairs, published>>
  BY DEF Deliver
<1>3. published # {} /\ relay = "running"
  BY <1>1 DEF BfInv, BfTypes
<1>4. PICK x \in published : TRUE
  BY <1>3
<1>5. \A y \in published : f.to \in pairs /\ f.to.topic = y[2] /\ seen[f.to.from] >= 1
  BY <1>1 DEF BfInv, UnderWay
<1>6. PICK c \in Range(build.bridges) :
          /\ f.to.bridge = c.name /\ f.to.topic \in c.topics
          /\ f.to.from \in EndsOf(c) /\ f.to.to \in EndsOf(c)
  BY <1>3, <1>4, <1>5, PairsAre DEF BfInv
<1>7. CASE Drop(f)
  <2>1. flying' = flying \ {f} /\ seen' = seen /\ f.origin = {f.to.bridge}
    BY <1>1, <1>7 DEF Forward, Drop
  <2>2. BfTypes'
    BY <1>2, <1>3, <2>1, BridgesStay DEF BfInv, BfTypes
  <2>3. UnderWay'
    BY <1>2, <2>1, BridgesStay DEF BfInv, UnderWay
  <2>4. ASSUME NEW b, NEW e, ToCome(b, e) PROVE ToCome(b, e)'
    BY <2>1, <2>4 DEF ToCome
  <2>5. Relayed'
    BY <1>2, <2>1, <2>4, BridgesStay DEF BfInv, Relayed
  <2> QED
    BY <2>2, <2>3, <2>5 DEF BfInv
<1>8. CASE ~Drop(f)
  <2> DEFINE p == f.to
  <2>1. /\ flying' = (flying \ {f}) \cup Copies(p.to, p.topic, {p.bridge})
        /\ seen' = Appears(p.to)
    BY <1>1, <1>8 DEF Forward
  <2>2. EndsOf(c) \subseteq Sessions
    BY <1>3, EndsAreSessions DEF BfInv, BfTypes
  <2>3. /\ DOMAIN seen' = Sessions /\ seen'[p.to] >= 1
        /\ \A e \in Sessions : seen'[e] \in Nat /\ (e # p.to => seen'[e] = seen[e])
    BY <1>6, <2>1, <2>2, AppearsIs DEF BfInv
  <2>4. \A e \in Sessions : seen[e] >= 1 => seen'[e] >= 1
    BY <2>3
  <2>5. BfTypes'
    BY <1>2, <1>3, <2>3, BridgesStay DEF BfInv, BfTypes
  <2>6. ASSUME NEW g \in flying', NEW y \in published
        PROVE  g.to \in pairs /\ g.to.topic = y[2] /\ seen'[g.to.from] >= 1
    <3>1. CASE g \in flying
      <4>1. g.to \in pairs /\ g.to.topic = y[2] /\ seen[g.to.from] >= 1
        BY <3>1 DEF BfInv, UnderWay
      <4>2. PICK b \in Range(build.bridges) : g.to.from \in EndsOf(b)
        BY <1>3, <4>1, PairsAre DEF BfInv
      <4>3. g.to.from \in Sessions
        BY <1>3, <4>2, EndsAreSessions DEF BfInv, BfTypes
      <4> QED
        BY <2>4, <4>1, <4>3
    <3>2. CASE g \in Copies(p.to, p.topic, {p.bridge})
      <4>1. g.to \in pairs /\ g.to.from = p.to /\ g.to.topic = p.topic
        BY <3>2 DEF Copies
      <4> QED
        BY <1>5, <2>3, <4>1
    <3> QED
      BY <2>1, <3>1, <3>2
  <2>7. UnderWay'
    BY <1>2, <2>4, <2>6, BridgesStay DEF BfInv, UnderWay
  <2>8. ASSUME NEW y \in published, NEW b \in BridgesOf(y[2]), NEW s \in EndsOf(b), NEW e \in EndsOf(b),
               seen'[s] >= 1, ~(seen'[e] >= 1)
        PROVE  ToCome(b, e)'
    <3>1. b \in Range(build.bridges) /\ EndsOf(b) \subseteq Sessions
      BY <1>3, EndsAreSessions DEF BridgesOf, BfInv, BfTypes
    <3>2. e # p.to /\ ~(seen[e] >= 1)
      BY <2>3, <2>4, <2>8, <3>1
    <3>3. ASSUME ToCome(b, e) PROVE ToCome(b, e)'
      <4>1. PICK g \in flying : g.to.bridge = b.name /\ g.to.to = e /\ g.origin # {b.name}
        BY <3>3 DEF ToCome
      <4>2. g \in flying'
        BY <2>1, <3>2, <4>1
      <4> QED
        BY <4>1, <4>2 DEF ToCome
    <3>4. ASSUME NEW r \in EndsOf(b), seen[r] >= 1 PROVE ToCome(b, e)
      BY <3>2, <3>4 DEF BfInv, Relayed
    <3>5. CASE s # p.to
      BY <2>3, <2>8, <3>1, <3>3, <3>4, <3>5
    <3>6. CASE s = p.to /\ b.name = p.bridge
      <4>1. b = c
        BY <1>6, <3>1, <3>6 DEF BridgeNamesDiffer, BfInv, BfTypes
      <4> QED
        BY <1>5, <1>6, <3>3, <3>4, <4>1
    <3>7. CASE s = p.to /\ b.name # p.bridge
      <4>1. PICK q : q = [bridge |-> b.name, topic |-> y[2], from |-> s, to |-> e]
        OBVIOUS
      <4>2. q \in pairs /\ q.bridge = b.name /\ q.topic = p.topic /\ q.from = p.to /\ q.to = e
        BY <1>3, <1>5, <3>2, <3>7, <4>1, PairsAre DEF BfInv
      <4>3. PICK g : g = [to |-> q, origin |-> {p.bridge}]
        OBVIOUS
      <4>4. g \in flying'
        BY <2>1, <4>2, <4>3 DEF Copies
      <4>5. g.to = q /\ g.origin # {b.name}
        BY <3>7, <4>3
      <4> QED
        BY <4>2, <4>4, <4>5 DEF ToCome
    <3> QED
      BY <3>5, <3>6, <3>7
  <2>9. Relayed'
    BY <1>2, <2>8, BridgesStay DEF Relayed
  <2> QED
    BY <2>5, <2>7, <2>9 DEF BfInv
<1> QED
  BY <1>7, <1>8

LEMMA BfStutters == ASSUME BfInv, UNCHANGED bfVars PROVE BfInv'
<1>1. UNCHANGED <<build, relay, pairs, flying, seen, published>>
  BY DEF bfVars
<1>2. \A b, e : ToCome(b, e)' = ToCome(b, e)
  BY <1>1 DEF ToCome
<1> QED
  BY <1>1, <1>2, BridgesStay DEF BfInv, BfTypes, UnderWay, Relayed

LEMMA BfHolds == ASSUME BridgeNamesDiffer PROVE BfSpec => []BfInv
<1>1. BfInit => BfInv
  <2> SUFFICES ASSUME BfInit PROVE BfInv
    OBVIOUS
  <2> QED
    BY DEF BfInit, BfInv, BfTypes, UnderWay, Relayed
<1>2. BfInv /\ [BfNext]_bfVars => BfInv'
  BY ValidateKeeps, PublishKeeps, DeliverKeeps, BfStutters DEF BfNext
<1> QED
  BY <1>1, <1>2, PTL DEF BfSpec

\* The sessions that are one bridge of the topic further on.
Onward(t, r) == r \cup UNION {EndsOf(b) : b \in {c \in BridgesOf(t) : EndsOf(c) \cap r # {}}}

IsReach(g, t, s, m) == g = [n \in 0..m |-> IF n = 0 THEN {s} ELSE Onward(t, g[n - 1])]

Joined(t) == Cardinality(BridgesOf(t))
ReachOf(t, s) == CHOOSE g : IsReach(g, t, s, Joined(t))

\* What is linked to a session is what as many steps reach as the topic has bridges.
LEMMA LinkedSteps ==
    ASSUME build \in Builds, NEW t, NEW s
    PROVE  /\ Joined(t) \in Nat /\ Linked(t, s) = ReachOf(t, s)[Joined(t)]
           /\ \A n \in 0..Joined(t) :
                 ReachOf(t, s)[n] = IF n = 0 THEN {s} ELSE Onward(t, ReachOf(t, s)[n - 1])
<1>1. Joined(t) \in Nat
  <2>1. BridgesOf(t) \in SUBSET Range(build.bridges) /\ IsFiniteSet(Range(build.bridges))
    BY BridgeAssumption DEF BridgesOf
  <2>2. IsFiniteSet(BridgesOf(t))
    BY <2>1, FS_Subset
  <2> QED
    BY <2>2, FS_CardinalityType DEF Joined
<1>2. Linked(t, s) = ReachOf(t, s)[Joined(t)]
  BY DEF Linked, ReachOf, IsReach, Onward, Joined
<1>3. \E g : IsReach(g, t, s, Joined(t))
  <2> DEFINE Bad == {m \in Nat : ~(\E g : IsReach(g, t, s, m))}
  <2> SUFFICES ASSUME Bad # {} PROVE FALSE
    BY <1>1
  <2>1. PICK m \in Bad : \A k \in Bad : m <= k
    BY LeastNumber
  <2>2. CASE m = 0
    <3>1. IsReach([n \in 0..0 |-> {s}], t, s, 0)
      BY DEF IsReach
    <3> QED
      BY <2>2, <3>1
  <2>3. CASE m # 0
    <3>1. m - 1 \in Nat /\ m - 1 \notin Bad
      BY <2>1, <2>3
    <3>2. PICK g : IsReach(g, t, s, m - 1)
      BY <3>1
    <3> DEFINE h == [n \in 0..m |-> IF n = 0 THEN {s} ELSE Onward(t, g[n - 1])]
    <3>3. ASSUME NEW n \in 0..(m - 1) PROVE g[n] = h[n]
      <4>1. n \in 0..m
        BY <3>1
      <4>2. g[n] = IF n = 0 THEN {s} ELSE Onward(t, g[n - 1])
        BY <3>2 DEF IsReach
      <4> QED
        BY <4>1, <4>2
    <3>4. \A n \in 0..m : n # 0 => n - 1 \in 0..(m - 1)
      OBVIOUS
    <3>5. h = [n \in 0..m |-> IF n = 0 THEN {s} ELSE Onward(t, h[n - 1])]
      BY <3>3, <3>4
    <3> HIDE DEF h
    <3>6. IsReach(h, t, s, m)
      BY <3>5 DEF IsReach
    <3> QED
      BY <3>6
  <2> QED
    BY <2>2, <2>3
<1>4. IsReach(ReachOf(t, s), t, s, Joined(t))
  BY <1>3 DEF ReachOf
<1>5. \A n \in 0..Joined(t) :
          ReachOf(t, s)[n] = IF n = 0 THEN {s} ELSE Onward(t, ReachOf(t, s)[n - 1])
  BY <1>4 DEF IsReach
<1> QED
  BY <1>1, <1>2, <1>5

\* A set of sessions that no bridge of the topic leads out of has all that is
\* linked to one of its members.
LEMMA LinkedStays ==
    ASSUME build \in Builds, NEW t, NEW S, NEW s \in S,
           \A b \in BridgesOf(t) : EndsOf(b) \cap S # {} => EndsOf(b) \subseteq S
    PROVE  Linked(t, s) \subseteq S
<1> DEFINE N == Joined(t)
           reach == ReachOf(t, s)
<1>1. /\ N \in Nat /\ Linked(t, s) = reach[N]
      /\ \A n \in 0..N : reach[n] = IF n = 0 THEN {s} ELSE Onward(t, reach[n - 1])
  BY LinkedSteps
<1> HIDE DEF N, reach
<1>2. ASSUME NEW r, r \subseteq S PROVE Onward(t, r) \subseteq S
  BY <1>2 DEF Onward
<1> DEFINE Out == {n \in Nat : n <= N /\ ~(reach[n] \subseteq S)}
<1>3. Out = {}
  <2> SUFFICES ASSUME Out # {} PROVE FALSE
    OBVIOUS
  <2>1. PICK n \in Out : \A k \in Out : n <= k
    BY LeastNumber
  <2>2. n # 0
    BY <1>1, <2>1
  <2>3. n - 1 \in Nat /\ n - 1 <= N /\ n - 1 \notin Out
    BY <1>1, <2>1, <2>2
  <2>4. reach[n] = Onward(t, reach[n - 1])
    BY <1>1, <2>1, <2>2
  <2> QED
    BY <1>2, <2>3, <2>4
<1> QED
  BY <1>1, <1>3

\* A session is linked to itself.
LEMMA LinkedToItself ==
    ASSUME build \in Builds, NEW t, NEW s
    PROVE  s \in Linked(t, s)
<1> DEFINE N == Joined(t)
           reach == ReachOf(t, s)
<1>1. /\ N \in Nat /\ Linked(t, s) = reach[N]
      /\ \A n \in 0..N : reach[n] = IF n = 0 THEN {s} ELSE Onward(t, reach[n - 1])
  BY LinkedSteps
<1> HIDE DEF N, reach
<1> DEFINE Out == {n \in Nat : n <= N /\ s \notin reach[n]}
<1>2. Out = {}
  <2> SUFFICES ASSUME Out # {} PROVE FALSE
    OBVIOUS
  <2>1. PICK n \in Out : \A k \in Out : n <= k
    BY LeastNumber
  <2>2. n # 0
    BY <1>1, <2>1
  <2>3. n - 1 \in Nat /\ n - 1 <= N /\ n - 1 \notin Out
    BY <1>1, <2>1, <2>2
  <2>4. reach[n] = Onward(t, reach[n - 1])
    BY <1>1, <2>1, <2>2
  <2> QED
    BY <2>1, <2>3, <2>4 DEF Onward
<1> QED
  BY <1>1, <1>2

\* When every session is linked to one of the roots, sessions have a distance from
\* the roots: all but roots are an end of a bridge whose other end is nearer.
LEMMA Distances ==
    ASSUME build \in Builds, NEW t, NEW roots,
           \A b \in BridgesOf(t) : EndsOf(b) \subseteq Sessions,
           \A s \in Sessions : \E r \in roots : s \in Linked(t, r)
    PROVE  \E level :
             /\ \A s \in Sessions : level[s] \in Nat
             /\ \A s \in Sessions \ roots : \E b \in BridgesOf(t) :
                   s \in EndsOf(b) /\ \E e \in EndsOf(b) : level[e] < level[s]
<1> DEFINE N == Joined(t)
           Lengths(s) == {n \in 0..N : \E r \in roots : s \in ReachOf(t, r)[n]}
           level == [s \in Sessions |-> CHOOSE n \in Lengths(s) : \A m \in Lengths(s) : n <= m]
<1>9. N \in Nat
  BY LinkedSteps
<1>1. ASSUME NEW r \in roots
      PROVE  /\ Linked(t, r) = ReachOf(t, r)[N]
             /\ \A n \in 0..N :
                   ReachOf(t, r)[n] = IF n = 0 THEN {r} ELSE Onward(t, ReachOf(t, r)[n - 1])
  BY LinkedSteps
<1> HIDE DEF N
<1>2. ASSUME NEW s \in Sessions
      PROVE  /\ level[s] \in Lengths(s) /\ \A m \in Lengths(s) : level[s] <= m
             /\ Lengths(s) \in SUBSET Nat
  <2>1. PICK r \in roots : s \in Linked(t, r)
    OBVIOUS
  <2>2. N \in Lengths(s) /\ Lengths(s) \in SUBSET Nat
    <3>1. s \in ReachOf(t, r)[N]
      BY <1>1, <2>1
    <3>2. N \in 0..N /\ 0..N \subseteq Nat
      BY <1>9
    <3> QED
      BY <3>1, <3>2
  <2> HIDE DEF Lengths
  <2>3. \E n \in Lengths(s) : \A m \in Lengths(s) : n <= m
    BY <2>2, LeastNumber
  <2> QED
    BY <2>2, <2>3
<1>3. ASSUME NEW s \in Sessions \ roots
      PROVE  \E b \in BridgesOf(t) :
               s \in EndsOf(b) /\ \E e \in EndsOf(b) : level[e] < level[s]
  <2>1. PICK n : n = level[s]
    OBVIOUS
  <2>2. n \in 0..N /\ n \in Nat /\ \A m \in Lengths(s) : n <= m
    BY <1>2, <2>1
  <2>3. PICK r \in roots : s \in ReachOf(t, r)[n]
    BY <1>2, <2>1
  <2>4. n # 0
    BY <1>1, <2>2, <2>3
  <2>5. n - 1 \in 0..N /\ n - 1 < n
    BY <1>9, <2>2, <2>4
  <2>6. ReachOf(t, r)[n] = Onward(t, ReachOf(t, r)[n - 1])
    BY <1>1, <2>2, <2>4
  <2>7. s \notin ReachOf(t, r)[n - 1]
    <3> SUFFICES ASSUME s \in ReachOf(t, r)[n - 1] PROVE FALSE
      OBVIOUS
    <3>1. n - 1 \in Lengths(s)
      BY <2>5
    <3> QED
      BY <2>2, <2>5, <3>1
  <2>8. PICK b \in BridgesOf(t) : EndsOf(b) \cap ReachOf(t, r)[n - 1] # {} /\ s \in EndsOf(b)
    BY <2>3, <2>6, <2>7 DEF Onward
  <2>9. PICK e \in EndsOf(b) : e \in ReachOf(t, r)[n - 1]
    BY <2>8
  <2>10. level[e] < level[s]
    <3>1. n - 1 \in Lengths(e) /\ e \in Sessions
      BY <2>5, <2>9
    <3>2. level[e] <= n - 1 /\ level[e] \in Nat
      BY <1>2, <3>1
    <3> QED
      BY <2>1, <2>2, <3>2
  <2> QED
    BY <2>8, <2>10
<1>4. \A s \in Sessions : level[s] \in Nat
  BY <1>2
<1> HIDE DEF level
<1> QED
  BY <1>3, <1>4

-----------------------------------------------------------------------------
(* Where the bridges of a topic form no cycle.                             *)

\* down are the ends a bridge leads down to from r: it comes down to all of its ends
\* but one, to no session a second bridge comes down to, and to r none.
IsTree(t, r, down) ==
    /\ \A b \in BridgesOf(t) : \A s : <<b, s>> \in down => s \in EndsOf(b) /\ s # r
    /\ \A b \in BridgesOf(t) : \A s, e \in EndsOf(b) :
          <<b, s>> \notin down /\ <<b, e>> \notin down => s = e
    /\ \A b, c \in BridgesOf(t) : \A s : <<b, s>> \in down /\ <<c, s>> \in down => b = c
    /\ \A b \in BridgesOf(t) : \A i, j \in DOMAIN b.connect :
          SessionOf(b.connect[i]) = SessionOf(b.connect[j]) => i = j

\* Tagging does not change the size of a set.
LEMMA Tagged ==
    ASSUME NEW S, IsFiniteSet(S), NEW tag
    PROVE  IsFiniteSet({tag} \X S) /\ Cardinality({tag} \X S) = Cardinality(S)
<1>1. IsFiniteSet({tag}) /\ Cardinality({tag}) = 1
  BY FS_Singleton
<1>2. Cardinality(S) \in Nat
  BY FS_CardinalityType
<1>3. IsFiniteSet({tag} \X S) /\ Cardinality({tag} \X S) = 1 * Cardinality(S)
  BY <1>1, FS_Product
<1> QED
  BY <1>2, <1>3

LEMMA TwoKinds ==
    ASSUME NEW S, IsFiniteSet(S), NEW T, IsFiniteSet(T)
    PROVE  LET both == ({1} \X S) \cup ({2} \X T)
           IN  IsFiniteSet(both) /\ Cardinality(both) = Cardinality(S) + Cardinality(T)
<1> DEFINE A == {1} \X S
           B == {2} \X T
<1>1. IsFiniteSet(A) /\ Cardinality(A) = Cardinality(S)
  BY Tagged
<1>2. IsFiniteSet(B) /\ Cardinality(B) = Cardinality(T)
  BY Tagged
<1>3. A \cap B = {}
  OBVIOUS
<1> HIDE DEF A, B
<1>4. IsFiniteSet(A \cup B) /\ Cardinality(A \cup B) = Cardinality(A) + Cardinality(B) - Cardinality({})
  BY <1>1, <1>2, <1>3, FS_Union
<1>5. Cardinality({}) = 0 /\ Cardinality(S) \in Nat /\ Cardinality(T) \in Nat
  BY FS_EmptySet, FS_CardinalityType
<1>6. IsFiniteSet(A \cup B) /\ Cardinality(A \cup B) = Cardinality(S) + Cardinality(T)
  BY <1>1, <1>2, <1>4, <1>5
<1> QED
  BY <1>6 DEF A, B

LEMMA SessionsFinite == ASSUME build \in Builds PROVE IsFiniteSet(Sessions) /\ Sessions \subseteq Nat
<1>1. Sessions = 1..Len(build.transports) /\ Len(build.transports) \in Nat
  BY BridgeAssumption DEF Sessions
<1>2. IsFiniteSet(1..Len(build.transports))
  BY <1>1, FS_Interval
<1> QED
  BY <1>1, <1>2

\* A bridge that names as many sessions as it has endpoints names none twice.
LEMMA EndsDiffer ==
    ASSUME build \in Builds, NEW b \in Range(build.bridges),
           Cardinality(EndsOf(b)) = Len(b.connect)
    PROVE  \A i, j \in DOMAIN b.connect :
              SessionOf(b.connect[i]) = SessionOf(b.connect[j]) => i = j
<1> DEFINE D == 1..Len(b.connect)
           g == [i \in D |-> SessionOf(b.connect[i])]
<1>1. DOMAIN b.connect = D /\ Len(b.connect) \in Nat
  BY BridgeAssumption
<1>2. IsFiniteSet(D) /\ Cardinality(D) = Len(b.connect)
  <2>1. PICK n \in Nat : n = Len(b.connect)
    BY <1>1
  <2>2. IsFiniteSet(1..n) /\ Cardinality(1..n) = IF 1 > n THEN 0 ELSE n - 1 + 1
    BY FS_Interval
  <2>3. Cardinality(1..n) = n
    BY <2>2
  <2> QED
    BY <2>1, <2>2, <2>3
<1>3. g \in Surjection(D, EndsOf(b))
  <2>1. \A i \in D : b.connect[i] \in Range(b.connect)
    BY <1>1 DEF Range
  <2>2. g \in [D -> EndsOf(b)]
    BY <2>1 DEF EndsOf
  <2>3. \A s \in EndsOf(b) : \E i \in D : g[i] = s
    BY <1>1 DEF EndsOf, Range
  <2> QED
    BY <2>2, <2>3 DEF Surjection
<1> HIDE DEF D
<1>4. g \in Injection(D, EndsOf(b))
  <2> HIDE DEF g
  <2> QED
    BY <1>2, <1>3, FS_SurjSameCardinalityImpliesInj
<1>5. \A i, j \in D : g[i] = g[j] => i = j
  <2>1. g \in [D -> EndsOf(b)] /\ IsInjective(g)
    BY <1>4 DEF Injection
  <2> HIDE DEF g
  <2> QED
    BY <2>1 DEF IsInjective
<1> QED
  BY <1>1, <1>5

\* What a joint of a forest tells: a bridge's nearest end stands for the bridge, any
\* other for itself, and the parts for their roots.  So many joints and parts for so many
\* sessions and bridges leave each of these to be told once.
LEMMA ForestIsTree ==
    ASSUME BfTypes, relay = "running", NEW t, NEW r \in Sessions, Forest(t)
    PROVE  \E down : IsTree(t, r, down)
<1> DEFINE parts == {Linked(t, s) : s \in Sessions}
           Root(P) == IF P = Linked(t, r) THEN r ELSE CHOOSE s \in Sessions : P = Linked(t, s)
           roots == {Root(P) : P \in parts}
           joints == {x \in BridgesOf(t) \X Sessions : x[2] \in EndsOf(x[1])}
<1>1. build \in Builds /\ BridgesValid /\ BridgesOf(t) \subseteq Range(build.bridges)
  BY DEF BfTypes, BridgesOf
<1>2. ASSUME NEW b \in BridgesOf(t)
      PROVE  EndsOf(b) \subseteq Sessions /\ EndsOf(b) # {}
  <2>1. EndsOf(b) \subseteq Sessions
    BY <1>1, EndsAreSessions
  <2>2. b.connect \in Seq(Range(b.connect)) /\ Len(b.connect) >= 2
    BY <1>1, BridgeAssumption DEF BridgesValid
  <2>3. 1 \in DOMAIN b.connect
    BY <2>2
  <2>4. b.connect[1] \in Range(b.connect)
    BY <2>3 DEF Range
  <2> QED
    BY <2>1, <2>4 DEF EndsOf
<1>3. ASSUME NEW P \in parts PROVE Root(P) \in Sessions /\ Linked(t, Root(P)) = P
  <2> DEFINE L(s) == Linked(t, s)
  <2>1. PICK s \in Sessions : P = L(s)
    OBVIOUS
  <2> QED
    BY <2>1
<1>4. \A s \in Sessions : \E x \in roots : s \in Linked(t, x)
  <2> TAKE s \in Sessions
  <2>1. Linked(t, s) \in parts /\ s \in Linked(t, s)
    BY <1>1, LinkedToItself
  <2>2. Root(Linked(t, s)) \in roots
    BY <2>1
  <2> QED
    BY <1>3, <2>1, <2>2
<1>5. PICK level :
         /\ \A s \in Sessions : level[s] \in Nat
         /\ \A s \in Sessions \ roots : \E b \in BridgesOf(t) :
               s \in EndsOf(b) /\ \E e \in EndsOf(b) : level[e] < level[s]
  <2> HIDE DEF roots
  <2> QED
    BY <1>1, <1>2, <1>4, Distances
<1>6. Linked(t, r) \in parts /\ Root(Linked(t, r)) = r
  OBVIOUS
<1>7. IsFiniteSet(Sessions) /\ Sessions \subseteq Nat
  BY <1>1, SessionsFinite
<1>8. IsFiniteSet(BridgesOf(t))
  <2>1. IsFiniteSet(Range(build.bridges))
    BY <1>1, BridgeAssumption
  <2> QED
    BY <1>1, <2>1, FS_Subset
<1>9. IsFiniteSet(joints)
  <2>1. IsFiniteSet(BridgesOf(t) \X Sessions)
    BY <1>7, <1>8, FS_Product
  <2>2. joints \in SUBSET (BridgesOf(t) \X Sessions)
    OBVIOUS
  <2> QED
    BY <2>1, <2>2, FS_Subset
<1>10. IsFiniteSet(parts)
  <2> DEFINE g == [s \in Sessions |-> Linked(t, s)]
  <2>1. g \in Surjection(Sessions, parts)
    BY DEF Surjection
  <2> HIDE DEF g, parts
  <2> QED
    BY <1>7, <2>1, FS_Surjection
<1>11. Cardinality(joints) + Cardinality(parts) = Cardinality(Sessions) + Cardinality(BridgesOf(t))
  BY DEF Forest
<1> DEFINE Near(b, s) == \A e \in EndsOf(b) : level[s] <= level[e]
           from == ({1} \X joints) \cup ({2} \X parts)
           to == ({1} \X Sessions) \cup ({2} \X BridgesOf(t))
           tells == [x \in from |->
                        IF x[1] = 2 THEN <<1, Root(x[2])>>
                        ELSE IF Near(x[2][1], x[2][2]) THEN <<2, x[2][1]>> ELSE <<1, x[2][2]>>]
           down == {x \in joints : ~Near(x[1], x[2])}
<1>12. ASSUME NEW b \in BridgesOf(t), NEW s \in EndsOf(b)
       PROVE  /\ <<b, s>> \in joints /\ <<1, <<b, s>>>> \in from
              /\ tells[<<1, <<b, s>>>>] = IF Near(b, s) THEN <<2, b>> ELSE <<1, s>>
  <2>1. <<b, s>> \in joints
    BY <1>2
  <2> HIDE DEF joints, Near, Root, parts
  <2>2. <<1, <<b, s>>>> \in from
    BY <2>1
  <2> QED
    BY <2>1, <2>2
<1>13. ASSUME NEW P \in parts PROVE <<2, P>> \in from /\ tells[<<2, P>>] = <<1, Root(P)>>
  <2> HIDE DEF joints, Near, Root, parts
  <2>1. <<2, P>> \in from
    OBVIOUS
  <2> QED
    BY <2>1
<1>14. tells \in [from -> to]
  <2> SUFFICES ASSUME NEW x \in from PROVE tells[x] \in to
    OBVIOUS
  <2>1. CASE \E P \in parts : x = <<2, P>>
    BY <1>3, <1>13, <2>1
  <2>2. CASE \E y \in joints : x = <<1, y>>
    <3>1. PICK b \in BridgesOf(t), s \in Sessions : s \in EndsOf(b) /\ x = <<1, <<b, s>>>>
      BY <2>2
    <3> HIDE DEF tells, from, Near
    <3>2. tells[x] = <<2, b>> \/ tells[x] = <<1, s>>
      BY <1>12, <3>1
    <3> QED
      BY <3>2
  <2> QED
    BY <2>1, <2>2
<1> HIDE DEF tells
<1>15. ASSUME NEW y \in to PROVE \E x \in from : tells[x] = y
  <2>1. CASE \E s \in Sessions : y = <<1, s>>
    <3>1. PICK s \in Sessions : y = <<1, s>>
      BY <2>1
    <3>2. CASE s \in roots
      <4>1. PICK P \in parts : s = Root(P)
        BY <3>2
      <4> HIDE DEF Root, parts, from
      <4> QED
        BY <1>13, <3>1, <4>1
    <3>3. CASE s \notin roots
      <4>1. PICK b \in BridgesOf(t) :
              s \in EndsOf(b) /\ \E e \in EndsOf(b) : level[e] < level[s]
        <5> HIDE DEF roots
        <5> QED
          BY <1>5, <3>3
      <4>2. ~Near(b, s)
        BY <1>2, <1>5, <4>1
      <4> HIDE DEF from, Near
      <4> QED
        BY <1>12, <3>1, <4>1, <4>2
    <3> QED
      BY <3>2, <3>3
  <2>2. CASE \E b \in BridgesOf(t) : y = <<2, b>>
    <3>1. PICK b \in BridgesOf(t) : y = <<2, b>>
      BY <2>2
    <3> DEFINE heights == {level[e] : e \in EndsOf(b)}
    <3>2. heights \in SUBSET Nat /\ heights # {}
      BY <1>2, <1>5
    <3>3. PICK n \in heights : \A m \in heights : n <= m
      <4> HIDE DEF heights
      <4> QED
        BY <3>2, LeastNumber
    <3>4. PICK s \in EndsOf(b) : Near(b, s)
      BY <3>3
    <3> HIDE DEF from, Near
    <3> QED
      BY <1>12, <3>1, <3>4
  <2> QED
    BY <2>1, <2>2
<1>16. \A x, y \in from : tells[x] = tells[y] => x = y
  <2>1. IsFiniteSet(from) /\ Cardinality(from) = Cardinality(joints) + Cardinality(parts)
    <3> HIDE DEF joints, parts
    <3> QED
      BY <1>9, <1>10, TwoKinds
  <2>2. Cardinality(to) = Cardinality(Sessions) + Cardinality(BridgesOf(t))
    BY <1>7, <1>8, TwoKinds
  <2> HIDE DEF from, to
  <2>3. tells \in Surjection(from, to)
    BY <1>14, <1>15 DEF Surjection
  <2>4. tells \in Injection(from, to)
    BY <1>11, <2>1, <2>2, <2>3, FS_SurjSameCardinalityImpliesInj
  <2> QED
    BY <2>4 DEF Injection, IsInjective
<1>17. ASSUME NEW b \in BridgesOf(t), NEW s, <<b, s>> \in down
       PROVE  s \in EndsOf(b) /\ ~Near(b, s) /\ tells[<<1, <<b, s>>>>] = <<1, s>> /\ <<1, <<b, s>>>> \in from
  <2>1. <<b, s>> \in joints /\ ~Near(b, s)
    <3> HIDE DEF joints, Near
    <3> QED
      BY <1>17
  <2>2. s \in EndsOf(b)
    BY <2>1
  <2> HIDE DEF from, Near
  <2> QED
    BY <1>12, <2>1, <2>2
<1>18. \A b \in BridgesOf(t) : \A s : <<b, s>> \in down => s \in EndsOf(b) /\ s # r
  <2> SUFFICES ASSUME NEW b \in BridgesOf(t), NEW s, <<b, s>> \in down, s = r PROVE FALSE
    BY <1>17
  <2>1. tells[<<1, <<b, s>>>>] = tells[<<2, Linked(t, r)>>]
    <3> HIDE DEF Root, parts, down, Near
    <3> QED
      BY <1>6, <1>13, <1>17
  <2>2. <<1, <<b, s>>>> \in from /\ <<2, Linked(t, r)>> \in from
    BY <1>6, <1>13, <1>17
  <2>3. <<1, <<b, s>>>> = <<2, Linked(t, r)>>
    <3> HIDE DEF from
    <3> QED
      BY <1>16, <2>1, <2>2
  <2> QED
    BY <2>3
<1>19. ASSUME NEW b \in BridgesOf(t), NEW s \in EndsOf(b), NEW e \in EndsOf(b),
              <<b, s>> \notin down, <<b, e>> \notin down
       PROVE  s = e
  <2>1. <<b, s>> \in joints /\ <<b, e>> \in joints
    BY <1>12
  <2>2. Near(b, s) /\ Near(b, e)
    <3> HIDE DEF joints, Near
    <3> QED
      BY <1>19, <2>1
  <2> HIDE DEF from, Near, joints
  <2>3. /\ tells[<<1, <<b, s>>>>] = <<2, b>> /\ <<1, <<b, s>>>> \in from
        /\ tells[<<1, <<b, e>>>>] = <<2, b>> /\ <<1, <<b, e>>>> \in from
    BY <1>12, <2>2
  <2>4. <<1, <<b, s>>>> = <<1, <<b, e>>>>
    BY <1>16, <2>3
  <2> QED
    BY <2>4
<1>20. ASSUME NEW b \in BridgesOf(t), NEW c \in BridgesOf(t), NEW s, <<b, s>> \in down, <<c, s>> \in down
       PROVE  b = c
  <2> HIDE DEF from, Near, joints, down
  <2>1. /\ tells[<<1, <<b, s>>>>] = <<1, s>> /\ <<1, <<b, s>>>> \in from
        /\ tells[<<1, <<c, s>>>>] = <<1, s>> /\ <<1, <<c, s>>>> \in from
    BY <1>17, <1>20
  <2>2. <<1, <<b, s>>>> = <<1, <<c, s>>>>
    BY <1>16, <2>1
  <2> QED
    BY <2>2
<1>21. ASSUME NEW b \in BridgesOf(t), NEW i \in DOMAIN b.connect, NEW j \in DOMAIN b.connect,
              SessionOf(b.connect[i]) = SessionOf(b.connect[j])
       PROVE  i = j
  <2>1. Cardinality(EndsOf(b)) = Len(b.connect)
    BY DEF Forest
  <2> QED
    BY <1>1, <1>21, <2>1, EndsDiffer
<1> HIDE DEF down
<1>22. IsTree(t, r, down)
  BY <1>18, <1>19, <1>20, <1>21 DEF IsTree
<1> QED
  BY <1>22
-----------------------------------------------------------------------------
(* The sample comes down the tree.                                         *)

Above(t, down, s) == {c.name : c \in {c \in BridgesOf(t) : <<c, s>> \in down}}

\* The sample of t that bridge b is to bring from s to e.
Copy(t, down, b, s, e) ==
    [to |-> [bridge |-> b.name, topic |-> t, from |-> s, to |-> e], origin |-> Above(t, down, s)]

\* No session saw the sample twice; one that saw it has it from above; and what is
\* on its way down comes to a session that has not seen it.
ComesDown(t, r, down) ==
    /\ \A s \in Sessions : seen[s] <= 1
    /\ \A b \in BridgesOf(t) : \A s \in EndsOf(b) :
          <<b, s>> \in down /\ seen[s] = 1 => \E e \in EndsOf(b) : <<b, e>> \notin down /\ seen[e] = 1
    /\ \A f \in flying : \E b \in BridgesOf(t) : \E s, e \in EndsOf(b) :
          s # e /\ f = Copy(t, down, b, s, e) /\ (<<b, s>> \notin down => seen[e] = 0)

FlowsDown ==
    \A x \in published : \A down : IsTree(x[2], x[1], down) => ComesDown(x[2], x[1], down)

LEMMA CopiesComeDown ==
    ASSUME BfTypes, relay = "running", NEW t, NEW r, NEW down, IsTree(t, r, down),
           NEW s, NEW f \in Copies(s, t, Above(t, down, s))
    PROVE  \E b \in BridgesOf(t) : \E e \in EndsOf(b) :
              s \in EndsOf(b) /\ s # e /\ f = Copy(t, down, b, s, e)
<1>1. PICK p \in pairs : p.from = s /\ p.topic = t /\ f = [to |-> p, origin |-> Above(t, down, s)]
  BY DEF Copies
<1>2. PICK b \in Range(build.bridges) : p \in PairsOf(b)
  BY <1>1 DEF BfTypes
<1>3. PICK u \in b.topics, ij \in {x \in (DOMAIN b.connect) \X (DOMAIN b.connect) : x[1] # x[2]} :
         p = [bridge |-> b.name, topic |-> u,
              from |-> SessionOf(b.connect[ij[1]]), to |-> SessionOf(b.connect[ij[2]])]
  BY <1>2 DEF PairsOf
<1>4. PICK i \in DOMAIN b.connect, j \in DOMAIN b.connect :
         i # j /\ p = [bridge |-> b.name, topic |-> u,
                       from |-> SessionOf(b.connect[i]), to |-> SessionOf(b.connect[j])]
  BY <1>3
<1>5. u = t /\ SessionOf(b.connect[i]) = s /\ b \in BridgesOf(t)
  BY <1>1, <1>4 DEF BridgesOf
<1>6. PICK e : e = SessionOf(b.connect[j])
  OBVIOUS
<1>7. s \in EndsOf(b) /\ e \in EndsOf(b)
  BY <1>4, <1>5, <1>6 DEF EndsOf, Range
<1>8. s # e
  BY <1>4, <1>5, <1>6 DEF IsTree
<1>9. f = Copy(t, down, b, s, e)
  BY <1>1, <1>4, <1>5, <1>6 DEF Copy
<1> QED
  BY <1>5, <1>7, <1>8, <1>9

LEMMA TreeStays ==
    ASSUME UNCHANGED build
    PROVE  /\ \A t, r, down : IsTree(t, r, down)' = IsTree(t, r, down)
           /\ \A t, down, b, s, e : Copy(t, down, b, s, e)' = Copy(t, down, b, s, e)
<1>1. /\ \A t : BridgesOf(t)' = BridgesOf(t)
      /\ \A b : EndsOf(b)' = EndsOf(b)
  BY BridgesStay
<1>2. \A ep : SessionOf(ep)' = SessionOf(ep)
  BY DEF SessionOf, EndpointSession, Sessions
<1>3. \A t, down, s : Above(t, down, s)' = Above(t, down, s)
  BY <1>1 DEF Above
<1> QED
  BY <1>1, <1>2, <1>3 DEF IsTree, Copy

LEMMA PublishFlows ==
    ASSUME BfInv, NEW s \in Sessions, NEW t \in Topics, Publish(s, t)
    PROVE  FlowsDown'
<1>1. /\ relay = "running" /\ published = {} /\ published' = {<<s, t>>}
      /\ seen' = Appears(s) /\ UNCHANGED <<build, relay, pairs>>
      /\ flying' = flying \cup Copies(s, t, {})
  BY DEF Publish
<1>2. flying = {} /\ \A e \in Sessions : seen[e] = 0
  BY <1>1 DEF BfInv, BfTypes
<1>3. /\ seen'[s] = 1
      /\ \A e \in Sessions : e # s => seen'[e] = 0
  BY <1>1, <1>2, AppearsIs DEF BfInv
<1>4. SUFFICES ASSUME NEW down, IsTree(t, s, down)' PROVE ComesDown(t, s, down)'
  BY <1>1 DEF FlowsDown
<1>5. IsTree(t, s, down)
  BY <1>1, <1>4, TreeStays
<1>6. Above(t, down, s) = {}
  BY <1>5 DEF Above, IsTree
<1>7. \A b \in BridgesOf(t) : EndsOf(b) \subseteq Sessions
  BY <1>1, EndsAreSessions DEF BridgesOf, BfInv, BfTypes
<1>8. \A e \in Sessions : seen'[e] <= 1
  BY <1>3
<1>9. ASSUME NEW b \in BridgesOf(t), NEW e \in EndsOf(b), <<b, e>> \in down PROVE seen'[e] = 0
  BY <1>3, <1>5, <1>7, <1>9 DEF IsTree
<1>10. ASSUME NEW f \in flying'
       PROVE  \E b \in BridgesOf(t) : \E u, e \in EndsOf(b) :
                u # e /\ f = Copy(t, down, b, u, e) /\ (<<b, u>> \notin down => seen'[e] = 0)
  <2>1. f \in Copies(s, t, Above(t, down, s))
    BY <1>1, <1>2, <1>6
  <2>2. PICK b \in BridgesOf(t) : \E e \in EndsOf(b) :
              s \in EndsOf(b) /\ s # e /\ f = Copy(t, down, b, s, e)
    BY <1>1, <1>5, <2>1, CopiesComeDown DEF BfInv
  <2>3. PICK e \in EndsOf(b) : s \in EndsOf(b) /\ s # e /\ f = Copy(t, down, b, s, e)
    BY <2>2
  <2>4. seen'[e] = 0
    BY <1>3, <1>7, <2>3
  <2> QED
    BY <2>3, <2>4
<1> QED
  BY <1>1, <1>8, <1>9, <1>10, BridgesStay, TreeStays DEF ComesDown

LEMMA DeliverFlows ==
    ASSUME BridgeNamesDiffer, BfInv, FlowsDown, Deliver
    PROVE  FlowsDown'
<1>1. UNCHANGED <<build, relay, pairs, published>>
  BY DEF Deliver
<1>2. SUFFICES ASSUME NEW x \in published, NEW down, IsTree(x[2], x[1], down)'
               PROVE  ComesDown(x[2], x[1], down)'
  BY <1>1 DEF FlowsDown
<1>3. PICK f \in flying : Forward(f)
  BY DEF Deliver
<1>4. PICK t, r : t = x[2] /\ r = x[1]
  OBVIOUS
<1>5. IsTree(t, r, down) /\ ComesDown(t, r, down) /\ relay = "running"
  BY <1>1, <1>2, <1>4, TreeStays DEF FlowsDown, BfInv, BfTypes
<1>6. PICK b \in BridgesOf(t) : \E s, e \in EndsOf(b) :
         s # e /\ f = Copy(t, down, b, s, e) /\ (<<b, s>> \notin down => seen[e] = 0)
  BY <1>3, <1>5 DEF ComesDown
<1>7. PICK s \in EndsOf(b), e \in EndsOf(b) :
         s # e /\ f = Copy(t, down, b, s, e) /\ (<<b, s>> \notin down => seen[e] = 0)
  BY <1>6
<1>8. \A c \in BridgesOf(t) : EndsOf(c) \subseteq Sessions
  BY <1>5, EndsAreSessions DEF BridgesOf, BfInv, BfTypes
<1>9. /\ f.to.bridge = b.name /\ f.to.topic = t /\ f.to.from = s /\ f.to.to = e
      /\ f.origin = Above(t, down, s)
  BY <1>7 DEF Copy
<1>10. CASE Drop(f)
  <2>1. flying' = flying \ {f} /\ seen' = seen
    BY <1>3, <1>10 DEF Forward
  <2>2. \A g \in flying' : \E c \in BridgesOf(t) : \E u, v \in EndsOf(c) :
           u # v /\ g = Copy(t, down, c, u, v) /\ (<<c, u>> \notin down => seen'[v] = 0)
    BY <1>5, <2>1 DEF ComesDown
  <2>3. /\ \A u \in Sessions : seen'[u] <= 1
        /\ \A c \in BridgesOf(t) : \A u \in EndsOf(c) :
              <<c, u>> \in down /\ seen'[u] = 1 => \E v \in EndsOf(c) : <<c, v>> \notin down /\ seen'[v] = 1
    BY <1>5, <2>1 DEF ComesDown
  <2>4. ComesDown(t, r, down)'
    BY <1>1, <2>2, <2>3, BridgesStay, TreeStays DEF ComesDown
  <2> QED
    BY <1>4, <2>4
<1>11. CASE ~Drop(f)
  <2>1. /\ flying' = (flying \ {f}) \cup Copies(e, t, {b.name})
        /\ seen' = Appears(e)
    BY <1>3, <1>9, <1>11 DEF Forward
  <2>2. <<b, s>> \notin down /\ seen[e] = 0
    <3> SUFFICES ASSUME <<b, s>> \in down PROVE FALSE
      BY <1>7
    <3>1. \A c \in BridgesOf(t) : <<c, s>> \in down => c = b
      BY <1>5 DEF IsTree
    <3>2. Above(t, down, s) = {b.name}
      BY <3>1 DEF Above
    <3> QED
      BY <1>9, <1>11, <3>2 DEF Drop
  <2>3. <<b, e>> \in down
    BY <1>5, <1>7, <2>2 DEF IsTree
  <2>4. seen'[e] = 1 /\ \A u \in Sessions : u # e => seen'[u] = seen[u]
    <3>1. /\ seen'[e] \in Nat /\ seen'[e] >= 1 /\ seen'[e] <= seen[e] + 1
          /\ \A u \in Sessions : u # e => seen'[u] = seen[u]
      BY <1>8, <2>1, AppearsIs DEF BfInv
    <3> QED
      BY <2>2, <3>1
  <2>5. \A u \in Sessions : seen'[u] <= 1
    BY <1>5, <2>4 DEF ComesDown
  <2>6. Above(t, down, e) = {b.name}
    <3>1. \A c \in BridgesOf(t) : <<c, e>> \in down => c = b
      BY <1>5, <2>3 DEF IsTree
    <3> QED
      BY <2>3, <3>1 DEF Above
  <2>7. seen[s] = 1
    <3>1. f.to \in pairs /\ seen[f.to.from] >= 1
      BY <1>3 DEF BfInv, UnderWay
    <3>2. seen[s] \in Nat /\ seen[s] <= 1
      BY <1>5, <1>8 DEF ComesDown, BfInv, BfTypes
    <3> QED
      BY <1>9, <3>1, <3>2
  <2>8. ASSUME NEW c \in BridgesOf(t), NEW u \in EndsOf(c), <<c, u>> \in down, seen'[u] = 1
        PROVE  \E v \in EndsOf(c) : <<c, v>> \notin down /\ seen'[v] = 1
    <3>1. CASE u = e
      <4>1. c = b
        BY <1>5, <2>3, <2>8, <3>1 DEF IsTree
      <4>2. seen'[s] = 1
        BY <1>7, <1>8, <2>4, <2>7
      <4> QED
        BY <2>2, <4>1, <4>2
    <3>2. CASE u # e
      <4>1. seen[u] = 1
        BY <1>8, <2>4, <2>8, <3>2
      <4>2. PICK v \in EndsOf(c) : <<c, v>> \notin down /\ seen[v] = 1
        BY <1>5, <2>8, <4>1 DEF ComesDown
      <4>3. seen'[v] = 1
        BY <1>8, <2>2, <2>4, <4>2
      <4> QED
        BY <4>2, <4>3
    <3> QED
      BY <3>1, <3>2
  <2>9. ASSUME NEW g \in flying'
        PROVE  \E c \in BridgesOf(t) : \E u, v \in EndsOf(c) :
                 u # v /\ g = Copy(t, down, c, u, v) /\ (<<c, u>> \notin down => seen'[v] = 0)
    <3>1. CASE g \in flying /\ g # f
      <4>1. PICK c \in BridgesOf(t) : \E u, v \in EndsOf(c) :
               u # v /\ g = Copy(t, down, c, u, v) /\ (<<c, u>> \notin down => seen[v] = 0)
        BY <1>5, <3>1 DEF ComesDown
      <4>2. PICK u \in EndsOf(c), v \in EndsOf(c) :
               u # v /\ g = Copy(t, down, c, u, v) /\ (<<c, u>> \notin down => seen[v] = 0)
        BY <4>1
      <4>3. ASSUME <<c, u>> \notin down PROVE v # e
        <5> SUFFICES ASSUME v = e PROVE FALSE
          OBVIOUS
        <5>1. <<c, v>> \in down
          BY <1>5, <4>2, <4>3 DEF IsTree
        <5>2. c = b
          BY <1>5, <2>3, <5>1 DEF IsTree
        <5>3. u = s
          BY <1>5, <2>2, <4>3, <5>2 DEF IsTree
        <5> QED
          BY <1>7, <3>1, <4>2, <5>2, <5>3
      <4>4. <<c, u>> \notin down => seen'[v] = 0
        BY <1>8, <2>4, <4>2, <4>3
      <4> QED
        BY <4>2, <4>4
    <3>2. CASE g \in Copies(e, t, {b.name})
      <4>1. PICK c \in BridgesOf(t) : \E v \in EndsOf(c) :
               e \in EndsOf(c) /\ e # v /\ g = Copy(t, down, c, e, v)
        BY <1>5, <2>6, <3>2, CopiesComeDown DEF BfInv
      <4>2. PICK v \in EndsOf(c) : e \in EndsOf(c) /\ e # v /\ g = Copy(t, down, c, e, v)
        BY <4>1
      <4>3. ASSUME <<c, e>> \notin down PROVE seen'[v] = 0
        <5>1. <<c, v>> \in down
          BY <1>5, <4>2, <4>3 DEF IsTree
        <5>2. seen[v] # 1
          <6> SUFFICES ASSUME seen[v] = 1 PROVE FALSE
            OBVIOUS
          <6>1. PICK w \in EndsOf(c) : <<c, w>> \notin down /\ seen[w] = 1
            BY <1>5, <5>1 DEF ComesDown
          <6>2. w = e
            BY <1>5, <4>2, <4>3, <6>1 DEF IsTree
          <6> QED
            BY <2>2, <6>1, <6>2
        <5>3. seen[v] \in Nat /\ seen[v] <= 1 /\ v \in Sessions
          BY <1>5, <1>8 DEF ComesDown, BfInv, BfTypes
        <5> QED
          BY <2>4, <4>2, <5>2, <5>3
      <4> QED
        BY <4>2, <4>3
    <3> QED
      BY <2>1, <3>1, <3>2
  <2>10. ComesDown(t, r, down)'
    BY <1>1, <2>5, <2>8, <2>9, BridgesStay, TreeStays DEF ComesDown
  <2> QED
    BY <1>4, <2>10
<1> QED
  BY <1>10, <1>11

LEMMA FlowsDownAlways == ASSUME BridgeNamesDiffer PROVE BfSpec => []FlowsDown
<1>1. BfInit => FlowsDown
  BY DEF BfInit, FlowsDown
<1>2. ASSUME BfInv, FlowsDown, ValidateBridges PROVE FlowsDown'
  <2>1. published' = {}
    BY <1>2 DEF BfInv, BfTypes, ValidateBridges
  <2> QED
    BY <2>1 DEF FlowsDown
<1>3. ASSUME FlowsDown, UNCHANGED bfVars PROVE FlowsDown'
  <2>1. UNCHANGED <<build, relay, pairs, flying, seen, published>>
    BY <1>3 DEF bfVars
  <2>2. \A t, r, down : ComesDown(t, r, down)' = ComesDown(t, r, down)
    BY <2>1, BridgesStay, TreeStays DEF ComesDown
  <2> QED
    BY <1>3, <2>1, <2>2, TreeStays DEF FlowsDown
<1>4. BfInv /\ FlowsDown /\ [BfNext]_bfVars => FlowsDown'
  BY <1>2, <1>3, PublishFlows, DeliverFlows DEF BfNext
<1> QED
  BY <1>1, <1>4, BfHolds, PTL DEF BfSpec

\* For any sessions, bridges and topics, where no two bridges share a name: a sample that a
\* component published gets to every session that its topic's bridges lead to, and to
\* none twice unless they form a cycle.
THEOREM BridgesAlwaysDeliver == ASSUME BridgeNamesDiffer PROVE BfSpec => []BridgesDeliver
<1>1. BfInv => ReachesAll
  <2> SUFFICES ASSUME BfInv, flying = {}, NEW x \in published, NEW s \in Linked(x[2], x[1])
               PROVE  seen[s] >= 1
    BY DEF ReachesAll
  <2> DEFINE S == {r \in Sessions : seen[r] >= 1}
  <2>1. x[1] \in S /\ build \in Builds /\ relay = "running"
    BY DEF BfInv, BfTypes, UnderWay
  <2>2. ASSUME NEW b \in BridgesOf(x[2]), EndsOf(b) \cap S # {} PROVE EndsOf(b) \subseteq S
    <3>1. \A r, e \in EndsOf(b) : seen[r] >= 1 => seen[e] >= 1
      BY DEF BfInv, Relayed, ToCome
    <3>2. EndsOf(b) \subseteq Sessions
      BY <2>1, EndsAreSessions DEF BridgesOf, BfInv, BfTypes
    <3> QED
      BY <2>2, <3>1, <3>2
  <2> HIDE DEF S
  <2>3. Linked(x[2], x[1]) \subseteq S
    BY <2>1, <2>2, LinkedStays
  <2> QED
    BY <2>3 DEF S
<1>2. BfInv /\ FlowsDown => OncePerSession
  <2> SUFFICES ASSUME BfInv, FlowsDown, NEW x \in published, NEW s \in Sessions, seen[s] > 1,
                      Forest(x[2])
               PROVE  FALSE
    BY DEF OncePerSession
  <2>1. x[1] \in Sessions /\ relay = "running"
    BY DEF BfInv, BfTypes, UnderWay
  <2>2. PICK down : IsTree(x[2], x[1], down)
    BY <2>1, ForestIsTree DEF BfInv
  <2>3. seen[s] <= 1 /\ seen[s] \in Nat
    BY <2>2 DEF FlowsDown, ComesDown, BfInv, BfTypes
  <2> QED
    BY <2>3
<1>3. BfInv /\ FlowsDown => BridgesDeliver
  BY <1>1, <1>2 DEF BridgesDeliver
<1> QED
  BY <1>3, BfHolds, FlowsDownAlways, PTL

-----------------------------------------------------------------------------
(* Bindings: the invariant.                                                *)

RustSteps == {"rust", "rs files", "rs cargo"}
FileSteps == {"rs files", "c files", "cmake files"}
CSteps == {"c", "c files"}
CMakeSteps == {"cmake", "cmake files"}
Steps == RustSteps \cup {"rename", "fix", "config"}
Asks == Ask \cup {NoAsk}
LangSeqs == Seq({"rust", "c"})

Runs ==
    [phase : Steps \cup CSteps \cup CMakeSteps \cup {"idle", "end"}, ask : Asks, langs : LangSeqs,
     iface : SUBSET Pkg, at : [Pkg -> Nat \cup {None}], listed : [Pkg -> SUBSET File],
     todo : Seq(Pkg), left : Seq(File), deps : SUBSET Pkg, olds : SUBSET Pkg, anew : BOOLEAN]

BgTypes ==
    /\ world \in Worlds
    /\ share \in [DOMAIN world.share -> [Pkg -> {None} \cup ShareDir]]
    /\ gen \in [Dir -> {None} \cup Crates]
    /\ built \in [Pkg -> Headers]
    /\ run \in Runs
    /\ outcome \in [result : {"none", "ok", "err", "killed"}, ask : Asks, iface : SUBSET Pkg,
                    anew : BOOLEAN]

\* The package is installed at the i-th prefix.
Stored(p, i) == i \in DOMAIN share /\ share[i][p] \in ShareDir

\* What a run reads is installed, the package it is at is one, and it keeps its outcome for the end.
RunReads ==
    /\ run.phase = "idle" => run = Idle
    /\ run.phase # "idle" => outcome = NoOutcome
    /\ run.phase \in FileSteps \cup {"rs cargo"} => run.todo # <<>>
    /\ run.phase \in {"rs files", "rs cargo", "c files"} => gen[Current] \in Crates
    /\ \A i \in DOMAIN run.todo : Stored(run.todo[i], run.at[run.todo[i]])
    /\ run.phase \in {"rename", "fix"} => run.olds \subseteq DOMAIN world.renames

Generating == run.ask # NoAsk

\* Nothing was edited since nros generate began, and it has what the index has.
AsLoaded ==
    Generating =>
        /\ fresh /\ run.ask \in Ask
        /\ run.phase \in Steps \cup CSteps \cup {"end"}
        /\ run.iface = InterfacePackages
        /\ \A p \in run.iface : run.at[p] = Place(p) /\ run.listed[p] = FilesOf(p)
        /\ run.langs = run.ask.langs \/ (run.ask.langs = <<"rust", "c">> /\ run.langs = <<"c">>)
        /\ run.phase \in Steps => Head(run.langs) = "rust"
        /\ run.phase \in CSteps => Head(run.langs) = "c"
        /\ ToSet(run.todo) \subseteq run.iface

\* The sources of the package's crate are of its files.
Made(p, d) ==
    /\ gen[d] \in Crates /\ gen[d].mods = FilesOf(p)
    /\ \A f \in FilesOf(p) : gen[d].rs[f] \in Modules /\ gen[d].rs[f].text = At(p).text[f]

\* Packages whose crates this run has made, and where these are now.
Crated == IF run.phase \in RustSteps THEN run.iface \ ToSet(run.todo) ELSE run.iface
InPlace(p) ==
    IF run.phase \in RustSteps \/ (run.phase = "rename" /\ p \in run.olds) THEN p ELSE NewOf(p)

CratesSoFar ==
    Generating /\ Head(run.ask.langs) = "rust" =>
        /\ \A p \in Crated : Made(p, InPlace(p))
        /\ run.phase = "rs files" =>
              /\ \A f \in FilesOf(Current) \ ToSet(run.left) :
                    /\ gen[Current].rs[f] \in Modules
                    /\ gen[Current].rs[f].text = At(Current).text[f]
        /\ run.phase = "rs cargo" => Made(Current, Current)

\* The package's headers are of its files, and include those of packages of this run.
Headed(p, iface) ==
    FilesOf(p) # {} =>
        /\ gen[p] \in Crates /\ gen[p].c.umbrella \in Umbrellas
        /\ gen[p].c.umbrella.files = FilesOf(p)
        /\ \A f \in FilesOf(p) : gen[p].c.h[f] = At(p).text[f]
        /\ gen[p].c.umbrella.deps \subseteq iface

Untouched(p) == run.ask.force \/ gen[p] = None

HeadersSoFar ==
    Generating /\ (run.ask.force \/ run.anew) =>
        /\ run.phase = "c" =>
              /\ IsInjective(run.todo)
              /\ \A p \in run.iface \ ToSet(run.todo) : Headed(p, run.iface)
              /\ \A p \in ToSet(run.todo) : Untouched(p)
        /\ run.phase = "c files" =>
              /\ IsInjective(run.todo)
              /\ \A p \in run.iface \ ToSet(run.todo) : Headed(p, run.iface)
              /\ \A p \in ToSet(Tail(run.todo)) : Untouched(p)
              /\ \A f \in FilesOf(Current) \ ToSet(run.left) :
                    gen[Current].c.h[f] = At(Current).text[f]
        /\ run.phase = "end" /\ run.langs = <<"c">> =>
              \A p \in run.iface : Headed(p, run.iface)

\* Every dependency is before the packages that need it, or done.
Ordered(order, directs, done) ==
    \A i \in DOMAIN order : \A d \in directs[order[i]] :
        d \in done \/ \E j \in 1..(i - 1) : order[j] = d

Umbrellaed == {p \in Pkg : built[p].umbrella # None}

ScriptOrdered ==
    script # None =>
        /\ DOMAIN script.directs \subseteq Pkg
        /\ script.order \in Seq(DOMAIN script.directs)
        /\ script.directs \in [DOMAIN script.directs -> SUBSET DOMAIN script.directs]
        /\ script.files \in [DOMAIN script.directs -> SUBSET File]
        /\ script.at \in [DOMAIN script.directs -> Nat]
        /\ \A p \in DOMAIN script.directs : Stored(p, script.at[p])
        /\ Ordered(script.order, script.directs, {})

BuildGoesOn ==
    /\ \A p \in Pkg :
          /\ built[p].umbrella # None =>
                /\ \A d \in built[p].umbrella.deps : built[d].umbrella # None
                /\ \A f \in built[p].umbrella.files : built[p].h[f] # None
          /\ built[p].mods # None => built[p].mods \subseteq built[p].glue
    /\ run.phase \in CMakeSteps =>
          /\ script # None
          /\ ToSet(run.todo) \subseteq DOMAIN script.directs
          /\ Ordered(run.todo, script.directs, Umbrellaed)
    /\ run.phase = "cmake files" =>
          \A f \in script.files[Current] \ ToSet(run.left) :
             /\ built[Current].h[f] # None
             /\ "cpp" \in world.cmake => Parts(f) \subseteq built[Current].glue

BgInv ==
    /\ BgTypes /\ RunReads /\ AsLoaded
    /\ CratesSoFar /\ HeadersSoFar /\ RustIsCurrent /\ HeadersAreCurrent
    /\ ScriptOrdered /\ BuildGoesOn

-----------------------------------------------------------------------------
(* Sets in order, and the operators of the index.                          *)

LEMMA SortedIs ==
    ASSUME NEW S \in SUBSET Nat, IsFiniteSet(S)
    PROVE  Sorted(S) \in Seq(S) /\ IsInjective(Sorted(S)) /\ ToSet(Sorted(S)) = S
<1> DEFINE upTo(x) == {y \in S : y <= x}
           rank == [x \in S |-> Cardinality(upTo(x))]
<1>1. PICK n \in Nat : n = Cardinality(S)
  BY FS_CardinalityType
<1>2. ASSUME NEW x \in S PROVE IsFiniteSet(upTo(x)) /\ rank[x] \in 1..n
  <2>1. IsFiniteSet(upTo(x)) /\ Cardinality(upTo(x)) <= n /\ Cardinality(upTo(x)) \in Nat
    BY <1>1, FS_Subset, FS_CardinalityType
  <2>2. x \in upTo(x)
    OBVIOUS
  <2>3. Cardinality(upTo(x)) # 0
    BY <2>1, <2>2, FS_EmptySet
  <2> QED
    BY <2>1, <2>3
<1>3. ASSUME NEW x \in S, NEW y \in S, x < y PROVE rank[x] < rank[y]
  <2>1. /\ \A z \in S : z \in Nat /\ (z <= x => z <= y)
        /\ ~(y <= x)
    BY <1>3
  <2>2. upTo(x) \in SUBSET upTo(y) /\ y \notin upTo(x)
    BY <2>1
  <2>3. y \in upTo(y)
    BY <2>1
  <2>4. Cardinality(upTo(x)) <= Cardinality(upTo(y)) /\ Cardinality(upTo(x)) # Cardinality(upTo(y))
    BY <2>2, <2>3, <1>2, FS_Subset
  <2> QED
    BY <2>4, <1>2
<1>4. rank \in Injection(S, 1..n)
  <2>1. \A x, y \in S : rank[x] = rank[y] => x = y
    <3> SUFFICES ASSUME NEW x \in S, NEW y \in S, rank[x] = rank[y], x # y PROVE FALSE
      OBVIOUS
    <3>1. x < y \/ y < x
      OBVIOUS
    <3>2. rank[x] \in Nat /\ rank[y] \in Nat
      BY <1>2
    <3> HIDE DEF rank
    <3> QED
      BY <1>3, <3>1, <3>2
  <2> QED
    BY <1>2, <2>1 DEF Injection, IsInjective
<1>5. rank \in Surjection(S, 1..n)
  <2>1. IsFiniteSet(1..n) /\ Cardinality(1..n) = n
    BY FS_Interval
  <2> HIDE DEF rank
  <2> QED
    BY <1>1, <1>4, <2>1, FS_Injection
<1>6. \A x \in S : rank[x] = Cardinality({y \in S : y <= x})
  OBVIOUS
<1> DEFINE s == Sorted(S)
<1> HIDE DEF rank
<1>7. ASSUME NEW i \in 1..n PROVE s[i] \in S /\ rank[s[i]] = i
  <2>1. \E x \in S : rank[x] = i
    BY <1>5 DEF Surjection
  <2>2. \E x \in S : Cardinality({y \in S : y <= x}) = i
    BY <2>1, <1>6
  <2>3. s[i] = CHOOSE x \in S : Cardinality({y \in S : y <= x}) = i
    BY <1>1 DEF Sorted
  <2> HIDE DEF s
  <2> QED
    BY <2>2, <2>3, <1>6
<1>8. DOMAIN s = 1..n /\ s = [i \in 1..n |-> s[i]]
  BY <1>1 DEF Sorted
<1> HIDE DEF s
<1>9. s \in Seq(S)
  BY <1>7, <1>8
<1>10. IsInjective(s)
  <2> QED
    BY <1>7, <1>8 DEF IsInjective
<1>11. ASSUME NEW x \in S PROVE x \in ToSet(s)
  <2>1. rank[x] \in 1..n /\ s[rank[x]] \in S /\ rank[s[rank[x]]] = rank[x]
    BY <1>2, <1>7
  <2>2. s[rank[x]] = x
    <3> HIDE DEF rank
    <3> QED
      BY <2>1, <1>4 DEF Injection, IsInjective
  <2> HIDE DEF rank
  <2> QED
    BY <2>1, <2>2, <1>8 DEF ToSet
<1>12. ToSet(s) \subseteq S
  BY <1>7, <1>8 DEF ToSet
<1> QED
  BY <1>9, <1>10, <1>11, <1>12 DEF s

IsIterated(g, from, step, m) == g = [n \in 0..m |-> IF n = 0 THEN from ELSE step[g[n - 1]]]

\* What goes on step by step, in the sets of U, there is.
LEMMA Iterated ==
    ASSUME NEW U, NEW step \in [SUBSET U -> SUBSET U], NEW from \in SUBSET U, NEW N \in Nat
    PROVE  \E g \in [0..N -> SUBSET U] : IsIterated(g, from, step, N)
<1> USE DEF IsIterated
<1> DEFINE Bad == {m \in Nat : ~(\E g \in [0..m -> SUBSET U] : IsIterated(g, from, step, m))}
<1> SUFFICES ASSUME Bad # {} PROVE FALSE
  OBVIOUS
<1>1. PICK m \in Bad : \A k \in Bad : m <= k
  BY LeastNumber
<1>2. CASE m = 0
  <2>1. [n \in 0..0 |-> from] \in [0..0 -> SUBSET U] /\ IsIterated([n \in 0..0 |-> from], from, step, 0)
    OBVIOUS
  <2> QED
    BY <1>2, <2>1
<1>3. CASE m # 0
  <2>a. m \in Nat /\ m - 1 \in Nat /\ ~(m <= m - 1)
    BY <1>1, <1>3
  <2>1. m - 1 \notin Bad
    <3> HIDE DEF Bad
    <3> QED
      BY <1>1, <2>a
  <2>2. PICK g \in [0..(m - 1) -> SUBSET U] : IsIterated(g, from, step, m - 1)
    BY <2>1, <2>a
  <2> DEFINE h == [n \in 0..m |-> IF n = 0 THEN from ELSE step[g[n - 1]]]
  <2>3. \A n \in 0..m : n # 0 => n - 1 \in 0..(m - 1)
    OBVIOUS
  <2>4. ASSUME NEW n \in 0..(m - 1) PROVE g[n] = h[n]
    <3>1. n \in 0..m
      BY <2>a
    <3>2. g[n] = IF n = 0 THEN from ELSE step[g[n - 1]]
      BY <2>2
    <3> QED
      BY <3>1, <3>2
  <2>5. IsIterated(h, from, step, m)
    BY <2>3, <2>4
  <2>6. h \in [0..m -> SUBSET U]
    BY <2>2, <2>3
  <2> HIDE DEF h
  <2> QED
    BY <2>5, <2>6
<1> QED
  BY <1>2, <1>3

LEMMA StaysWithin ==
    ASSUME NEW U, NEW g, NEW N \in Nat, g[0] \subseteq U,
           \A n \in 1..N : g[n - 1] \subseteq U => g[n] \subseteq U
    PROVE  \A n \in 0..N : g[n] \subseteq U
<1> DEFINE Out == {n \in Nat : n <= N /\ ~(g[n] \subseteq U)}
<1> SUFFICES ASSUME Out # {} PROVE FALSE
  OBVIOUS
<1>1. PICK n \in Out : \A k \in Out : n <= k
  BY LeastNumber
<1>2. n # 0
  BY <1>1
<1>3. n - 1 \in Nat /\ n - 1 <= N /\ n - 1 \notin Out /\ n \in 1..N
  BY <1>1, <1>2
<1> QED
  BY <1>1, <1>3

LEMMA PlacesInQueue ==
    ASSUME NEW T, NEW q \in Seq(T), NEW p \in T, NEW i \in Positions(q, p)
    PROVE  InsertAt(q, i + 1, p) \in Seq(T)
<1>1. i \in 0..Len(q)
  <2> DEFINE bigger == {k \in DOMAIN q : q[k] > p}
  <2>1. bigger \in SUBSET (1..Len(q))
    OBVIOUS
  <2>2. IsFiniteSet(1..Len(q)) /\ Cardinality(1..Len(q)) = Len(q)
    <3>1. Len(q) \in Nat /\ 1 \in Int /\ Len(q) \in Int
      OBVIOUS
    <3> QED
      BY <3>1, FS_Interval
  <2>3. Cardinality(bigger) \in 0..Len(q)
    BY <2>1, <2>2, FS_Subset, FS_CardinalityType
  <2> QED
    BY <2>3 DEF Positions
<1>2. SubSeq(q, 1, i) \in Seq(T) /\ SubSeq(q, i + 1, Len(q)) \in Seq(T)
  BY <1>1
<1>3. InsertAt(q, i + 1, p) = SubSeq(q, 1, i) \o <<p>> \o SubSeq(q, i + 1, Len(q))
  <2>1. (i + 1) - 1 = i
    BY <1>1
  <2> QED
    BY <2>1 DEF InsertAt
<1>4. <<p>> \in Seq(T)
  OBVIOUS
<1>5. \A a, b, c \in Seq(T) : a \o b \o c \in Seq(T)
  OBVIOUS
<1> QED
  BY <1>2, <1>3, <1>4, <1>5

Grow(S, queues) ==
    UNION {UNION {{InsertAt(q, i + 1, p) : i \in Positions(q, p)} : p \in S \ ToSet(q)} : q \in queues}
IsGrown(g, queue, S, m) == g = [n \in 0..m |-> IF n = 0 THEN {queue} ELSE Grow(S, g[n - 1])]

\* Inserting packages into a queue leaves nothing but them and what was there.
LEMMA InsertedAre ==
    ASSUME NEW D, NEW queue \in Seq(D), NEW S, IsFiniteSet(S)
    PROVE  \A q \in Inserted(queue, S) : q \in Seq(ToSet(queue) \cup S)
<1> DEFINE T == ToSet(queue) \cup S
           U == Seq(T)
<1>1. PICK N \in Nat : N = Cardinality(S)
  BY FS_CardinalityType
<1>2. {queue} \in SUBSET U
  <2>1. \A x \in ToSet(queue) : x \in T
    OBVIOUS
  <2> QED
    BY <2>1, SeqOver
<1>3. ASSUME NEW X \in SUBSET U PROVE Grow(S, X) \in SUBSET U
  <2> SUFFICES ASSUME NEW q \in X, NEW p \in S, NEW i \in Positions(q, p)
               PROVE  InsertAt(q, i + 1, p) \in U
    BY DEF Grow
  <2>1. q \in Seq(T) /\ p \in T
    OBVIOUS
  <2> HIDE DEF T
  <2> QED
    BY <2>1, PlacesInQueue
<1> HIDE DEF U
<1>4. \E g : IsGrown(g, queue, S, N)
  <2> DEFINE step == [X \in SUBSET U |-> Grow(S, X)]
  <2>1. step \in [SUBSET U -> SUBSET U]
    BY <1>3
  <2> HIDE DEF step
  <2>2. PICK from : from = {queue}
    OBVIOUS
  <2>a. PICK g \in [0..N -> SUBSET U] : IsIterated(g, from, step, N)
    <3>1. from \in SUBSET U
      BY <1>2, <2>2
    <3> QED
      BY <3>1, <2>1, Iterated
  <2>3. \A n \in 0..N : n # 0 => g[n - 1] \in SUBSET U
    <3>1. \A n \in 0..N : n # 0 => n - 1 \in 0..N
      OBVIOUS
    <3> QED
      BY <3>1
  <2>4. \A n \in 0..N : n # 0 => step[g[n - 1]] = Grow(S, g[n - 1])
    BY <2>3 DEF step
  <2>5. IsGrown(g, queue, S, N)
    BY <2>2, <2>a, <2>4 DEF IsGrown, IsIterated
  <2> QED
    BY <2>5
<1> DEFINE grown == CHOOSE g : IsGrown(g, queue, S, N)
<1>5. IsGrown(grown, queue, S, N)
  BY <1>4
<1>6. Inserted(queue, S) = grown[N]
  BY <1>1 DEF Inserted, IsGrown, Grow
<1> HIDE DEF grown
<1>7. grown[0] = {queue} /\ \A n \in 1..N : grown[n] = Grow(S, grown[n - 1])
  BY <1>5 DEF IsGrown
<1>8. \A n \in 0..N : grown[n] \subseteq U
  <2>1. grown[0] \subseteq U
    BY <1>2, <1>7
  <2>2. \A n \in 1..N : grown[n - 1] \subseteq U => grown[n] \subseteq U
    BY <1>3, <1>7
  <2> QED
    BY <2>1, <2>2, StaysWithin
<1> QED
  BY <1>6, <1>8 DEF U

Popping(directs, states) == UNION {Popped(x, directs) : x \in states}
IsStaged(g, directs, m) ==
    g = [n \in 0..m |-> IF n = 0 THEN {[queue |-> FirstQueue(directs), placed |-> <<>>]}
                        ELSE Popping(directs, g[n - 1])]

\* Placed in order, and all the dependencies of what is in the queue are placed.
Queues(D, directs) ==
    {x \in [queue : Seq(D), placed : Seq(D)] :
        /\ Ordered(x.placed, directs, {})
        /\ \A p \in ToSet(x.queue) : directs[p] \subseteq ToSet(x.placed)}

LEMMA PoppedInOrder ==
    ASSUME NEW D, IsFiniteSet(D), NEW directs \in [D -> SUBSET D],
           NEW x \in Queues(D, directs), NEW y \in Popped(x, directs)
    PROVE  y \in Queues(D, directs)
<1>1. CASE x.queue = <<>>
  BY <1>1 DEF Popped
<1>2. CASE x.queue # <<>>
  <2> DEFINE p == Last(x.queue)
             placed == Append(x.placed, p)
             freed == {q \in DOMAIN directs :
                         p \in directs[q] /\ q \notin ToSet(placed) /\ Ready(q, placed, directs)}
  <2>1. PICK q \in Inserted(Front(x.queue), freed) : y = [queue |-> q, placed |-> placed]
    BY <1>2 DEF Popped
  <2>2. x.queue \in Seq(D) /\ x.placed \in Seq(D)
    BY DEF Queues
  <2>3. /\ Front(x.queue) \in Seq(D) /\ p \in D /\ p \in ToSet(x.queue)
        /\ \A d \in ToSet(Front(x.queue)) : d \in ToSet(x.queue)
    BY <1>2, <2>2 DEF Front, Last, ToSet
  <2>4. IsFiniteSet(freed) /\ freed \subseteq D
    <3>1. freed \in SUBSET D
      OBVIOUS
    <3> QED
      BY <3>1, FS_Subset
  <2>5. q \in Seq(ToSet(Front(x.queue)) \cup freed)
    <3> HIDE DEF freed
    <3> QED
      BY <2>1, <2>3, <2>4, InsertedAre
  <2>6. /\ placed \in Seq(D) /\ Len(placed) = Len(x.placed) + 1 /\ Len(x.placed) \in Nat
        /\ DOMAIN placed = 1..(Len(x.placed) + 1) /\ DOMAIN x.placed = 1..Len(x.placed)
        /\ \A i \in DOMAIN x.placed : placed[i] = x.placed[i]
        /\ placed[Len(x.placed) + 1] = p
    BY <2>2, <2>3
  <2>7. \A d \in ToSet(x.placed) : \E i \in 1..Len(x.placed) : placed[i] = d
    BY <2>6 DEF ToSet
  <2>8. \A d \in ToSet(x.placed) : d \in ToSet(placed)
    BY <2>6, <2>7 DEF ToSet
  <2> HIDE DEF p, placed
  <2>9. Ordered(placed, directs, {})
    <3> SUFFICES ASSUME NEW i \in DOMAIN placed, NEW d \in directs[placed[i]]
                 PROVE  \E j \in 1..(i - 1) : placed[j] = d
      BY DEF Ordered
    <3>1. CASE i = Len(x.placed) + 1
      <4>1. d \in ToSet(x.placed)
        BY <2>3, <2>6, <3>1 DEF Queues
      <4>2. i - 1 = Len(x.placed)
        BY <2>6, <3>1
      <4> QED
        BY <2>7, <4>1, <4>2
    <3>2. CASE i # Len(x.placed) + 1
      <4>1. i \in DOMAIN x.placed /\ placed[i] = x.placed[i]
        BY <2>6, <3>2
      <4>2. PICK j \in 1..(i - 1) : x.placed[j] = d
        BY <4>1 DEF Queues, Ordered
      <4>3. j \in DOMAIN x.placed
        BY <2>6, <4>1
      <4> QED
        BY <2>6, <4>2, <4>3
    <3> QED
      BY <3>1, <3>2
  <2>10. ASSUME NEW d \in ToSet(q) PROVE d \in D /\ directs[d] \subseteq ToSet(placed)
    <3>1. d \in ToSet(Front(x.queue)) \cup freed
      <4> HIDE DEF freed
      <4> QED
        BY <2>5 DEF ToSet
    <3>2. CASE d \in freed
      BY <3>2 DEF Ready
    <3>3. CASE d \in ToSet(Front(x.queue))
      <4>1. d \in ToSet(x.queue)
        BY <2>3, <3>3
      <4>2. directs[d] \subseteq ToSet(x.placed)
        BY <4>1 DEF Queues
      <4>3. d \in D
        BY <2>2, <4>1 DEF ToSet
      <4> QED
        BY <2>8, <4>2, <4>3
    <3> QED
      BY <3>1, <3>2, <3>3
  <2>11. q \in Seq(D)
    <3> HIDE DEF freed
    <3> QED
      BY <2>5, <2>10, SeqOver
  <2> QED
    BY <2>1, <2>6, <2>9, <2>10, <2>11 DEF Queues
<1> QED
  BY <1>1, <1>2

\* Whatever the order dependents come in, dependencies are placed first.
LEMMA OrdersInOrder ==
    ASSUME NEW D \in SUBSET Nat, IsFiniteSet(D), NEW directs \in [D -> SUBSET D],
           NEW order \in Orders(directs)
    PROVE  order \in Seq(D) /\ Ordered(order, directs, {})
<1> DEFINE U == Queues(D, directs)
           first == {[queue |-> FirstQueue(directs), placed |-> <<>>]}
<1>1. PICK N \in Nat : N = Cardinality(DOMAIN directs)
  BY FS_CardinalityType
<1>2. first \in SUBSET U
  <2> DEFINE free == {p \in DOMAIN directs : directs[p] = {}}
  <2>1. free \in SUBSET Nat /\ IsFiniteSet(free)
    <3>1. free \in SUBSET D
      OBVIOUS
    <3> QED
      BY <3>1, FS_Subset
  <2>2. Sorted(free) \in Seq(free) /\ ToSet(Sorted(free)) = free
    <3> HIDE DEF free
    <3> QED
      BY <2>1, SortedIs
  <2>3. FirstQueue(directs) = Sorted(free)
    BY DEF FirstQueue
  <2>4. Sorted(free) \in Seq(D)
    <3>1. \A p \in ToSet(Sorted(free)) : p \in D
      BY <2>2
    <3> HIDE DEF free
    <3> QED
      BY <2>2, <3>1, SeqOver
  <2>5. \A p \in ToSet(Sorted(free)) : directs[p] \subseteq ToSet(<<>>)
    BY <2>2
  <2>6. Ordered(<<>>, directs, {})
    BY DEF Ordered
  <2> HIDE DEF free
  <2> QED
    BY <2>3, <2>4, <2>5, <2>6 DEF Queues
<1>3. ASSUME NEW X \in SUBSET U PROVE Popping(directs, X) \in SUBSET U
  <2> SUFFICES ASSUME NEW x \in X, NEW y \in Popped(x, directs) PROVE y \in U
    BY DEF Popping
  <2> QED
    BY PoppedInOrder
<1> HIDE DEF U
<1>4. \E g : IsStaged(g, directs, N)
  <2> DEFINE step == [X \in SUBSET U |-> Popping(directs, X)]
  <2>1. step \in [SUBSET U -> SUBSET U]
    BY <1>3
  <2> HIDE DEF step
  <2>2. PICK from : from = first
    OBVIOUS
  <2>3. PICK g \in [0..N -> SUBSET U] : IsIterated(g, from, step, N)
    <3>1. from \in SUBSET U
      BY <1>2, <2>2
    <3> QED
      BY <3>1, <2>1, Iterated
  <2>4. \A n \in 0..N : n # 0 => g[n - 1] \in SUBSET U
    <3>1. \A n \in 0..N : n # 0 => n - 1 \in 0..N
      OBVIOUS
    <3> QED
      BY <3>1
  <2>5. \A n \in 0..N : n # 0 => step[g[n - 1]] = Popping(directs, g[n - 1])
    BY <2>4 DEF step
  <2>6. IsStaged(g, directs, N)
    BY <2>2, <2>3, <2>5 DEF IsStaged, IsIterated
  <2> QED
    BY <2>6
<1> DEFINE stages == CHOOSE g : IsStaged(g, directs, N)
<1>5. IsStaged(stages, directs, N)
  BY <1>4
<1>6. Orders(directs) = {x.placed : x \in stages[N]}
  BY <1>1 DEF Orders, IsStaged, Popping
<1> HIDE DEF stages
<1>7. stages[0] = first /\ \A n \in 1..N : stages[n] = Popping(directs, stages[n - 1])
  <2>1. stages = [n \in 0..N |-> IF n = 0 THEN first ELSE Popping(directs, stages[n - 1])]
    BY <1>5 DEF IsStaged
  <2>2. 0 \in 0..N /\ \A n \in 1..N : n \in 0..N /\ n # 0
    OBVIOUS
  <2> HIDE DEF first
  <2> QED
    BY <2>1, <2>2
<1>8. \A n \in 0..N : stages[n] \subseteq U
  <2>1. stages[0] \subseteq U
    BY <1>2, <1>7
  <2>2. \A n \in 1..N : stages[n - 1] \subseteq U => stages[n] \subseteq U
    BY <1>3, <1>7
  <2> QED
    BY <2>1, <2>2, StaysWithin
<1>9. PICK x \in stages[N] : order = x.placed
  BY <1>6
<1>10. x \in U
  BY <1>8, <1>9
<1> QED
  BY <1>9, <1>10 DEF U, Queues

-----------------------------------------------------------------------------
(* Types, and what a run may read.                                         *)

LEMMA WorldIs ==
    ASSUME world \in Worlds
    PROVE  /\ 0 \in DOMAIN world.share
           /\ \E n \in Nat : DOMAIN world.share = 0..n
           /\ world.share \in [DOMAIN world.share -> [Pkg -> {None} \cup ShareDir]]
           /\ DOMAIN world.renames \subseteq Pkg
           /\ \A p \in DOMAIN world.renames : world.renames[p] \in NewName
           /\ world.asks \subseteq Ask /\ world.single \subseteq Pkg
           /\ \A e \in world.edits : e[1] \in Pkg /\ e[2] \in File /\ e[3] \in Text \cup {None}
           /\ \A e \in world.xmlEdits : e[1] \in Pkg /\ e[2] \in Pkg
<1>1. Cardinality(DOMAIN world.share) \in Nat
  BY GenerationConstants, FS_CardinalityType
<1>2. PICK n : n = Cardinality(DOMAIN world.share) - 1
  OBVIOUS
<1>3. n \in Int /\ DOMAIN world.share = 0..n /\ 0 \in DOMAIN world.share
  BY <1>1, <1>2, GenerationConstants
<1>4. n \in Nat
  BY <1>3
<1>5. world.edits \subseteq Pkg \X File \X (Text \cup {None}) /\ world.xmlEdits \subseteq Pkg \X Pkg
  BY GenerationConstants
<1>6. /\ \A e \in world.edits : e[1] \in Pkg /\ e[2] \in File /\ e[3] \in Text \cup {None}
      /\ \A e \in world.xmlEdits : e[1] \in Pkg /\ e[2] \in Pkg
  BY <1>5
<1> QED
  BY <1>3, <1>4, <1>6, GenerationConstants

LEMMA GreatestUpTo ==
    ASSUME NEW n \in Nat, NEW T \in SUBSET (0..n), T # {}
    PROVE  Max(T) \in T
<1> DEFINE bounds == {b \in Nat : \A m \in T : m <= b}
<1>1. n \in bounds /\ bounds \in SUBSET Nat
  OBVIOUS
<1>2. PICK b \in bounds : \A c \in bounds : b <= c
  BY <1>1, LeastNumber
<1>3. b \in Nat /\ \A m \in T : m \in Nat /\ m <= b
  BY <1>2
<1>4. b \in T
  <2> SUFFICES ASSUME b \notin T PROVE FALSE
    OBVIOUS
  <2>1. ASSUME NEW m \in T PROVE m <= b - 1
    <3>1. m # b
      OBVIOUS
    <3> QED
      BY <1>3, <3>1
  <2>2. b # 0
    <3>1. PICK m \in T : TRUE
      OBVIOUS
    <3> QED
      BY <1>3, <2>1, <3>1
  <2>3. b - 1 \in bounds
    BY <2>1, <2>2, <1>3
  <2> QED
    BY <1>2, <1>3, <2>3
<1>5. \E k \in T : \A m \in T : k >= m
  BY <1>3, <1>4
<1>6. Max(T) = CHOOSE k \in T : \A m \in T : k >= m
  BY DEF Max
<1> QED
  BY <1>5, <1>6

\* The place of a package that is found is an installation of it.
LEMMA PlaceIs ==
    ASSUME BgTypes, NEW p \in Pkg, Found(p)
    PROVE  Place(p) \in Nat /\ Stored(p, Place(p)) /\ At(p) \in ShareDir
<1>1. PICK n \in Nat : DOMAIN world.share = 0..n
  BY WorldIs DEF BgTypes
<1>2. DOMAIN share = 0..n
  BY <1>1 DEF BgTypes
<1>3. Places(p) \in SUBSET (0..n) /\ Places(p) # {}
  BY <1>2 DEF Places, Found
<1>4. Max(Places(p)) \in Places(p)
  BY <1>3, GreatestUpTo
<1>5. Place(p) \in Places(p)
  BY <1>4 DEF Place
<1>6. Place(p) \in 0..n /\ HasInterfaces(share[Place(p)][p])
  BY <1>2, <1>5 DEF Places
<1>7. share[Place(p)][p] # None
  BY <1>6 DEF HasInterfaces
<1>8. share[Place(p)][p] \in ShareDir
  BY <1>1, <1>6, <1>7 DEF BgTypes
<1> QED
  BY <1>2, <1>6, <1>8 DEF Stored, At

\* What is found follows the share directories and nothing else.
LEMMA IndexStays ==
    ASSUME share' = share, world' = world
    PROVE  /\ \A p : (Found(p)' <=> Found(p)) /\ Place(p)' = Place(p) /\ At(p)' = At(p)
           /\ \A p : FilesOf(p)' = FilesOf(p) /\ NewOf(p)' = NewOf(p)
           /\ \A p, i : Stored(p, i)' <=> Stored(p, i)
           /\ InterfacePackages' = InterfacePackages
<1>1. /\ \A p : (Found(p)' <=> Found(p)) /\ Place(p)' = Place(p) /\ At(p)' = At(p)
      /\ \A p : FilesOf(p)' = FilesOf(p) /\ NewOf(p)' = NewOf(p)
  BY DEF Found, Places, Place, At, FilesOf, NewOf
<1>2. \A p, i : Stored(p, i)' <=> Stored(p, i)
  BY DEF Stored
<1>3. InterfacePackages' = InterfacePackages
  BY DEF InterfacePackages, Closure, DependenciesOf, Found, Places, Place, At
<1> QED
  BY <1>1, <1>2, <1>3

LEMMA ListedIs == \A dir : Listed(dir) \in SUBSET File
BY DEF Listed

LEMMA HeadOrTail ==
    ASSUME NEW S, NEW s \in Seq(S), s # <<>>
    PROVE  \A i \in DOMAIN s : s[i] = Head(s) \/ s[i] \in ToSet(Tail(s))
<1> SUFFICES ASSUME NEW i \in DOMAIN s, i # 1 PROVE s[i] \in ToSet(Tail(s))
  BY TailOf
<1>1. i - 1 \in DOMAIN Tail(s) /\ Tail(s)[i - 1] = s[i]
  BY TailOf
<1>2. Tail(s)[i - 1] \in ToSet(Tail(s))
  BY <1>1 DEF ToSet
<1> QED
  BY <1>1, <1>2

\* The index as it is loaded into a run.
LEMMA LoadedIs ==
    ASSUME BgTypes, NEW r \in Runs, NEW S \in SUBSET Pkg, \A p \in S : Found(p)
    PROVE  LET l == Loaded(r, S) IN
           /\ l \in Runs /\ l.iface = S /\ ToSet(l.todo) = S /\ IsInjective(l.todo)
           /\ \A p \in S : l.at[p] = Place(p) /\ l.listed[p] = FilesOf(p)
           /\ \A i \in DOMAIN l.todo : Stored(l.todo[i], l.at[l.todo[i]])
           /\ l.phase = r.phase /\ l.ask = r.ask /\ l.langs = r.langs /\ l.left = r.left
           /\ l.deps = r.deps /\ l.olds = r.olds /\ l.anew = r.anew
<1> DEFINE l == Loaded(r, S)
           places == [p \in Pkg |-> IF p \in S THEN Place(p) ELSE None]
           listed == [p \in Pkg |-> IF p \in S THEN Listed(At(p)) ELSE {}]
<1>1. S \in SUBSET Nat /\ IsFiniteSet(S)
  BY GenerationConstants, FS_Subset
<1>2. Sorted(S) \in Seq(S) /\ IsInjective(Sorted(S)) /\ ToSet(Sorted(S)) = S
  BY <1>1, SortedIs
<1>3. Sorted(S) \in Seq(Pkg)
  <2>1. \A p \in ToSet(Sorted(S)) : p \in Pkg
    BY <1>2
  <2> QED
    BY <1>2, <2>1, SeqOver
<1>4. places \in [Pkg -> Nat \cup {None}]
  BY PlaceIs
<1>5. listed \in [Pkg -> SUBSET File]
  BY ListedIs
<1>6. l = [r EXCEPT !.iface = S, !.todo = Sorted(S), !.at = places, !.listed = listed]
  BY DEF Loaded
<1>7. \A p \in S : places[p] = Place(p) /\ listed[p] = FilesOf(p)
  BY DEF FilesOf
<1>8. \A p \in S : Stored(p, places[p])
  BY <1>7, PlaceIs
<1> HIDE DEF l, places, listed
<1>9. /\ l.iface = S /\ l.todo = Sorted(S) /\ l.at = places /\ l.listed = listed
      /\ l.phase = r.phase /\ l.ask = r.ask /\ l.langs = r.langs /\ l.left = r.left
      /\ l.deps = r.deps /\ l.olds = r.olds /\ l.anew = r.anew
  BY <1>6 DEF Runs
<1>10. l \in Runs
  BY <1>3, <1>4, <1>5, <1>6 DEF Runs
<1>11. \A i \in DOMAIN l.todo : Stored(l.todo[i], l.at[l.todo[i]])
  BY <1>2, <1>8, <1>9, InSeq
<1> QED
  BY <1>2, <1>7, <1>9, <1>10, <1>11 DEF l

LEMMA SortedFiles ==
    ASSUME NEW files \in SUBSET File
    PROVE  Sorted(files) \in Seq(File) /\ ToSet(Sorted(files)) = files
<1>1. files \in SUBSET Nat /\ IsFiniteSet(files)
  BY GenerationConstants, FS_Subset
<1>2. Sorted(files) \in Seq(files) /\ ToSet(Sorted(files)) = files
  BY <1>1, SortedIs
<1>3. \A f \in ToSet(Sorted(files)) : f \in File
  BY <1>2
<1> QED
  BY <1>2, <1>3, SeqOver

LEMMA EnterIs ==
    ASSUME BgTypes, NEW r \in Runs, r.langs # <<>>
    PROVE  LET e == Enter(r) I == InterfacePackages IN
           /\ e \in Runs /\ e.iface = I /\ ToSet(e.todo) = I /\ IsInjective(e.todo)
           /\ \A p \in I : e.at[p] = Place(p) /\ e.listed[p] = FilesOf(p)
           /\ \A i \in DOMAIN e.todo : Stored(e.todo[i], e.at[e.todo[i]])
           /\ e.ask = r.ask /\ e.langs = r.langs
           /\ e.phase = IF I = {} THEN "end" ELSE Head(r.langs)
           /\ e.phase \in {"rust", "c", "end"}
           /\ e.anew = \A p \in I : gen[p] = None
<1> DEFINE I == InterfacePackages
           l == Loaded(r, I)
           phase == IF I = {} THEN "end" ELSE Head(r.langs)
           anew == \A p \in I : gen[p] = None
<1>1. I \in SUBSET Pkg /\ \A p \in I : Found(p)
  BY DEF InterfacePackages
<1>2. /\ l \in Runs /\ l.iface = I /\ ToSet(l.todo) = I /\ IsInjective(l.todo)
      /\ \A p \in I : l.at[p] = Place(p) /\ l.listed[p] = FilesOf(p)
      /\ \A i \in DOMAIN l.todo : Stored(l.todo[i], l.at[l.todo[i]])
      /\ l.phase = r.phase /\ l.ask = r.ask /\ l.langs = r.langs
  BY <1>1, LoadedIs
<1>3. Enter(r) = [l EXCEPT !.phase = phase, !.anew = anew]
  BY DEF Enter
<1>4. phase \in {"rust", "c", "end"} /\ anew \in BOOLEAN
  <2>1. r.langs \in Seq({"rust", "c"})
    BY DEF Runs, LangSeqs
  <2> QED
    BY <2>1
<1> HIDE DEF l, phase, anew, I
<1>5. PICK e : e = Enter(r)
  OBVIOUS
<1>6. /\ e.iface = l.iface /\ e.todo = l.todo /\ e.at = l.at /\ e.listed = l.listed
      /\ e.ask = l.ask /\ e.langs = l.langs /\ e.phase = phase /\ e.anew = anew
  BY <1>2, <1>3, <1>5 DEF Runs
<1>7. e \in Runs
  BY <1>2, <1>3, <1>4, <1>5 DEF Runs, Steps, RustSteps, CSteps
<1> QED
  BY <1>2, <1>4, <1>5, <1>6, <1>7 DEF phase, anew, I

\* A run that goes on with the packages it has.
LEMMA GoesOn ==
    ASSUME BgTypes, RunReads, run.phase # "idle", UNCHANGED <<share, world, outcome>>,
           gen' \in [Dir -> {None} \cup Crates], built' \in [Pkg -> Headers],
           run' \in Runs, run'.phase # "idle", run'.at = run.at,
           run'.todo = run.todo \/ (run.todo # <<>> /\ run'.todo = Tail(run.todo)),
           run'.phase \in FileSteps \cup {"rs cargo"} => run'.todo # <<>>,
           run'.phase \in {"rs files", "rs cargo", "c files"} => gen'[Head(run'.todo)] \in Crates,
           run'.phase \in {"rename", "fix"} => run'.olds \subseteq DOMAIN world.renames
    PROVE  BgTypes' /\ RunReads'
<1>1. BgTypes'
  BY DEF BgTypes
<1>2. ASSUME NEW i \in DOMAIN run'.todo PROVE Stored(run'.todo[i], run'.at[run'.todo[i]])
  <2>1. run.todo \in Seq(Pkg)
    BY DEF BgTypes, Runs
  <2>2. CASE run'.todo = run.todo
    BY <2>2 DEF RunReads
  <2>3. CASE run.todo # <<>> /\ run'.todo = Tail(run.todo)
    <3>0. PICK queue : queue = run.todo
      OBVIOUS
    <3>a. \A k \in DOMAIN Tail(queue) : k + 1 \in DOMAIN queue /\ Tail(queue)[k] = queue[k + 1]
      BY <3>0, <2>1, <2>3, TailOf
    <3>1. i + 1 \in DOMAIN run.todo /\ run'.todo[i] = run.todo[i + 1]
      BY <3>0, <3>a, <2>3
    <3> QED
      BY <3>1 DEF RunReads
  <2> QED
    BY <2>2, <2>3
<1>3. (\A i \in DOMAIN run.todo : Stored(run.todo[i], run.at[run.todo[i]]))'
  BY <1>2 DEF Stored
<1>4. RunReads'
  BY <1>3 DEF RunReads, Current
<1> QED
  BY <1>1, <1>4

LEMMA RunEnded ==
    ASSUME BgTypes, run.phase # "idle", NEW result \in {"ok", "err", "killed"}, Ends(result),
           UNCHANGED <<share, world, gen, built>>
    PROVE  BgTypes' /\ RunReads'
<1>1. run' = Idle
  BY DEF Ends
<1>2. /\ Idle \in Runs /\ Idle.phase = "idle" /\ Idle.todo = <<>>
  BY DEF Idle, Runs, Asks, NoAsk, LangSeqs, NoPlaces, NoListing
<1>3. outcome' \in [result : {"none", "ok", "err", "killed"}, ask : Asks, iface : SUBSET Pkg,
                    anew : BOOLEAN]
  BY DEF Ends, BgTypes, Runs
<1>4. BgTypes'
  BY <1>1, <1>2, <1>3 DEF BgTypes
<1>5. RunReads'
  BY <1>1, <1>2 DEF RunReads, FileSteps
<1> QED
  BY <1>4, <1>5

LEMMA RunBegins ==
    ASSUME BgTypes, UNCHANGED <<share, world, gen, built>>, outcome' = NoOutcome,
           run' \in Runs, run'.phase \in {"rust", "c", "end", "cmake"},
           \A i \in DOMAIN run'.todo : Stored(run'.todo[i], run'.at[run'.todo[i]])
    PROVE  BgTypes' /\ RunReads'
<1>1. NoOutcome \in [result : {"none", "ok", "err", "killed"}, ask : Asks, iface : SUBSET Pkg,
                     anew : BOOLEAN]
  BY DEF NoOutcome, Asks, NoAsk
<1>2. BgTypes'
  BY <1>1 DEF BgTypes
<1>3. (\A i \in DOMAIN run.todo : Stored(run.todo[i], run.at[run.todo[i]]))'
  BY DEF Stored
<1>4. RunReads'
  BY <1>3 DEF RunReads, FileSteps
<1> QED
  BY <1>2, <1>4

\* What a run reads of a file.
LEMMA ContentIs ==
    ASSUME BgTypes, RunReads, run.phase \in FileSteps, run.left # <<>>
    PROVE  /\ Current \in Pkg /\ Current = run.todo[1] /\ Current \in ToSet(run.todo)
           /\ Head(run.left) \in File /\ Tail(run.left) \in Seq(File)
           /\ ReadOk => Content \in Text
<1>1. run.todo \in Seq(Pkg) /\ run.left \in Seq(File)
  BY DEF BgTypes, Runs
<1>2. 1 \in DOMAIN run.todo /\ Current = run.todo[1] /\ Current \in Pkg
  BY <1>1, TailOf DEF RunReads, Current
<1>3. Head(run.left) \in File /\ Tail(run.left) \in Seq(File)
  BY <1>1
<1>4. Stored(Current, run.at[Current])
  BY <1>2 DEF RunReads
<1>5. Content \in Text \cup {None}
  BY <1>3, <1>4 DEF Stored, Content, ShareDir
<1> QED
  BY <1>1, <1>2, <1>3, <1>5, InSeq DEF ReadOk

-----------------------------------------------------------------------------
(* What a step writes.                                                     *)

LEMMA NothingYet == EmptyDir \in Crates /\ NoHeaders \in Headers
<1>1. NoFiles \in [File -> Text \cup {None}] /\ NoFiles \in [File -> {None} \cup Modules]
  BY DEF NoFiles
<1>2. NoHeaders \in Headers
  BY <1>1 DEF NoHeaders, Headers
<1> QED
  BY <1>1, <1>2 DEF EmptyDir, Crates

Cargos == [name : Dir, deps : SUBSET (Names \X Dir)]

\* One file of a crate is written.
LEMMA CrateWith ==
    ASSUME NEW c \in Crates
    PROVE  /\ \A f \in File, m \in Modules :
                 LET d == [c EXCEPT !.rs[f] = m] IN
                 d \in Crates /\ d.rs = [c.rs EXCEPT ![f] = m] /\ d.mods = c.mods /\ d.c = c.c
           /\ \A S \in SUBSET File :
                 LET d == [c EXCEPT !.mods = S] IN
                 d \in Crates /\ d.rs = c.rs /\ d.mods = S /\ d.c = c.c
           /\ \A t \in Cargos :
                 LET d == [c EXCEPT !.cargo = t] IN
                 d \in Crates /\ d.rs = c.rs /\ d.mods = c.mods /\ d.c = c.c
<1>1. /\ c.rs \in [File -> {None} \cup Modules] /\ c.c \in Headers
      /\ c.mods \in {None} \cup SUBSET File /\ c.cargo \in {None} \cup Cargos
  BY DEF Crates, Cargos
<1>2. Crates = [rs : [File -> {None} \cup Modules], mods : {None} \cup SUBSET File,
                cargo : {None} \cup Cargos, c : Headers]
  BY DEF Crates, Cargos
<1>3. ASSUME NEW f \in File, NEW m \in Modules
      PROVE  LET d == [c EXCEPT !.rs[f] = m] IN
             d \in Crates /\ d.rs = [c.rs EXCEPT ![f] = m] /\ d.mods = c.mods /\ d.c = c.c
  <2>1. [c.rs EXCEPT ![f] = m] \in [File -> {None} \cup Modules]
    BY <1>1
  <2> QED
    BY <1>1, <1>2, <2>1
<1>4. ASSUME NEW S \in SUBSET File
      PROVE  LET d == [c EXCEPT !.mods = S] IN
             d \in Crates /\ d.rs = c.rs /\ d.mods = S /\ d.c = c.c
  BY <1>1, <1>2
<1>5. ASSUME NEW t \in Cargos
      PROVE  LET d == [c EXCEPT !.cargo = t] IN
             d \in Crates /\ d.rs = c.rs /\ d.mods = c.mods /\ d.c = c.c
  BY <1>1, <1>2
<1> QED
  BY <1>3, <1>4, <1>5

LEMMA HeadersWith ==
    ASSUME NEW c \in Crates
    PROVE  /\ \A f \in File, t \in Text :
                 LET d == [c EXCEPT !.c.h[f] = t] IN
                 /\ d \in Crates /\ d.rs = c.rs /\ d.mods = c.mods
                 /\ d.c.h = [c.c.h EXCEPT ![f] = t] /\ d.c.umbrella = c.c.umbrella
           /\ \A u \in Umbrellas :
                 LET d == [c EXCEPT !.c.umbrella = u] IN
                 /\ d \in Crates /\ d.rs = c.rs /\ d.mods = c.mods
                 /\ d.c.h = c.c.h /\ d.c.umbrella = u
<1>1. /\ c.rs \in [File -> {None} \cup Modules] /\ c.c \in Headers
      /\ c.mods \in {None} \cup SUBSET File /\ c.cargo \in {None} \cup Cargos
  BY DEF Crates, Cargos
<1>2. Crates = [rs : [File -> {None} \cup Modules], mods : {None} \cup SUBSET File,
                cargo : {None} \cup Cargos, c : Headers]
  BY DEF Crates, Cargos
<1>3. c.c.h \in [File -> Text \cup {None}]
  BY <1>1 DEF Headers
<1>4. ASSUME NEW f \in File, NEW t \in Text
      PROVE  LET d == [c EXCEPT !.c.h[f] = t] IN
             /\ d \in Crates /\ d.rs = c.rs /\ d.mods = c.mods
             /\ d.c.h = [c.c.h EXCEPT ![f] = t] /\ d.c.umbrella = c.c.umbrella
  <2> DEFINE h == [c.c EXCEPT !.h[f] = t]
             d == [c EXCEPT !.c.h[f] = t]
  <2>1. [c.c.h EXCEPT ![f] = t] \in [File -> Text \cup {None}]
    BY <1>3
  <2>2. h \in Headers /\ h.h = [c.c.h EXCEPT ![f] = t] /\ h.umbrella = c.c.umbrella
    BY <1>1, <2>1 DEF Headers
  <2>3. d = [c EXCEPT !.c = h]
    BY <1>1, <1>2
  <2> HIDE DEF h, d
  <2>4. d.c = h /\ d.rs = c.rs /\ d.mods = c.mods /\ d \in Crates
    BY <1>1, <1>2, <2>2, <2>3
  <2> QED
    BY <2>2, <2>4 DEF d
<1>5. ASSUME NEW u \in Umbrellas
      PROVE  LET d == [c EXCEPT !.c.umbrella = u] IN
             /\ d \in Crates /\ d.rs = c.rs /\ d.mods = c.mods
             /\ d.c.h = c.c.h /\ d.c.umbrella = u
  <2> DEFINE h == [c.c EXCEPT !.umbrella = u]
             d == [c EXCEPT !.c.umbrella = u]
  <2>1. h \in Headers /\ h.h = c.c.h /\ h.umbrella = u
    BY <1>1 DEF Headers
  <2>2. d = [c EXCEPT !.c = h]
    BY <1>1, <1>2
  <2> HIDE DEF h, d
  <2>3. d.c = h /\ d.rs = c.rs /\ d.mods = c.mods /\ d \in Crates
    BY <1>1, <1>2, <2>1, <2>2
  <2> QED
    BY <2>1, <2>3 DEF d
<1> QED
  BY <1>4, <1>5

LEMMA NewOfIs ==
    ASSUME BgTypes
    PROVE  \A d \in Dir : NewOf(d) \in Dir
BY WorldIs DEF NewOf, Dir, BgTypes

LEMMA RewrittenIs ==
    ASSUME BgTypes, NEW rank
    PROVE  \A d \in Names : Rewritten(rank, d) \in Names
<1> SUFFICES ASSUME NEW d \in Names PROVE Rewritten(rank, d) \in Names
  OBVIOUS
<1>1. CASE d = None
  BY <1>1 DEF Rewritten
<1>2. CASE d # None /\ d \notin DOMAIN rank
  <2>1. Rewritten(rank, d) \in {d, None}
    BY <1>2 DEF Rewritten
  <2> QED
    BY <2>1 DEF Names
<1>3. CASE d # None /\ d \in DOMAIN rank
  <2>1. Rewritten(rank, d) \in {NewOf(d), None}
    BY <1>3 DEF Rewritten
  <2>2. NewOf(d) \in Dir
    BY <1>3, NewOfIs DEF Names
  <2> QED
    BY <2>1, <2>2 DEF Names
<1> QED
  BY <1>1, <1>2, <1>3

\* Renaming in a crate changes names only.
LEMMA FixedIs ==
    ASSUME BgTypes, NEW c \in Crates, NEW toml, NEW ranks
    PROVE  LET d == Fixed(c, toml, ranks) IN
           /\ d \in Crates /\ d.mods = c.mods /\ d.c = c.c
           /\ \A f \in File : c.rs[f] \in Modules =>
                 d.rs[f] \in Modules /\ d.rs[f].text = c.rs[f].text
<1>1. /\ c.rs \in [File -> {None} \cup Modules] /\ c.c \in Headers
      /\ c.mods \in {None} \cup SUBSET File /\ c.cargo \in {None} \cup Cargos
  BY DEF Crates, Cargos
<1>2. Crates = [rs : [File -> {None} \cup Modules], mods : {None} \cup SUBSET File,
                cargo : {None} \cup Cargos, c : Headers]
  BY DEF Crates, Cargos
<1> DEFINE cargo == IF c.cargo = None THEN None
                    ELSE [name |-> NewOf(c.cargo.name),
                          deps |-> {<<Rewritten(toml, d[1]), NewOf(d[2])>> : d \in c.cargo.deps}]
           Reach(refs, quoted) == (refs \cap quoted) \cup {Rewritten(ranks, d) : d \in refs \ quoted}
           rs == [f \in File |-> IF c.rs[f] = None THEN None
                                 ELSE [c.rs[f] EXCEPT !.refs = Reach(@, Quoted[f][c.rs[f].text])]]
<1>3. Fixed(c, toml, ranks) = [c EXCEPT !.cargo = cargo, !.rs = rs]
  BY DEF Fixed
<1>4. cargo \in {None} \cup Cargos
  <2> SUFFICES ASSUME c.cargo # None
               PROVE  [name |-> NewOf(c.cargo.name),
                       deps |-> {<<Rewritten(toml, d[1]), NewOf(d[2])>> : d \in c.cargo.deps}] \in Cargos
    OBVIOUS
  <2>1. c.cargo.name \in Dir /\ c.cargo.deps \subseteq Names \X Dir
    BY <1>1 DEF Cargos
  <2>2. \A d \in c.cargo.deps : <<Rewritten(toml, d[1]), NewOf(d[2])>> \in Names \X Dir
    BY <2>1, NewOfIs, RewrittenIs
  <2> QED
    BY <2>1, <2>2, NewOfIs DEF Cargos
<1>5. ASSUME NEW f \in File, c.rs[f] \in Modules
      PROVE  LET m == [c.rs[f] EXCEPT !.refs = Reach(@, Quoted[f][c.rs[f].text])] IN
             m \in Modules /\ m.text = c.rs[f].text
  <2>1. c.rs[f].text \in Text /\ c.rs[f].refs \subseteq Names
    BY <1>5 DEF Modules
  <2>2. \A quoted : Reach(c.rs[f].refs, quoted) \in SUBSET Names
    BY <2>1, RewrittenIs
  <2> HIDE DEF Reach
  <2> QED
    BY <1>5, <2>1, <2>2 DEF Modules
<1>6. ASSUME NEW f \in File
      PROVE  /\ rs[f] \in {None} \cup Modules
             /\ c.rs[f] \in Modules => rs[f] \in Modules /\ rs[f].text = c.rs[f].text
  BY <1>1, <1>5
<1>7. rs = [f \in File |-> rs[f]]
  OBVIOUS
<1> HIDE DEF cargo, rs
<1>8. rs \in [File -> {None} \cup Modules]
  BY <1>6, <1>7
<1>9. PICK e : e = Fixed(c, toml, ranks)
  OBVIOUS
<1>10. e \in Crates /\ e.mods = c.mods /\ e.c = c.c /\ e.rs = rs
  BY <1>1, <1>2, <1>3, <1>4, <1>8, <1>9
<1> QED
  BY <1>6, <1>9, <1>10

LEMMA AtCurrent ==
    ASSUME BgTypes, RunReads, run.todo # <<>>
    PROVE  /\ Current \in Pkg /\ Current \in Dir /\ Current = run.todo[1]
           /\ Current \in ToSet(run.todo) /\ Stored(Current, run.at[Current])
           /\ Tail(run.todo) \in Seq(Pkg)
           /\ ToSet(run.todo) = {Current} \cup ToSet(Tail(run.todo))
           /\ IsInjective(run.todo) => Current \notin ToSet(Tail(run.todo)) /\ IsInjective(Tail(run.todo))
<1>1. run.todo \in Seq(Pkg)
  BY DEF BgTypes, Runs
<1>2. PICK queue : queue = run.todo
  OBVIOUS
<1>3. /\ Tail(queue) \in Seq(Pkg) /\ 1 \in DOMAIN queue /\ Head(queue) = queue[1] /\ Head(queue) \in Pkg
      /\ \A i \in DOMAIN Tail(queue) : i + 1 \in DOMAIN queue /\ Tail(queue)[i] = queue[i + 1]
      /\ \A i \in DOMAIN queue : i # 1 => i - 1 \in DOMAIN Tail(queue) /\ Tail(queue)[i - 1] = queue[i]
  BY <1>1, <1>2, TailOf
<1>4. ToSet(queue) = {Head(queue)} \cup ToSet(Tail(queue))
  <2>1. ASSUME NEW i \in DOMAIN queue PROVE queue[i] \in {Head(queue)} \cup ToSet(Tail(queue))
    <3>1. CASE i = 1
      BY <1>3, <3>1
    <3>2. CASE i # 1
      <4>1. i - 1 \in DOMAIN Tail(queue) /\ Tail(queue)[i - 1] = queue[i]
        BY <1>3, <3>2
      <4>2. Tail(queue)[i - 1] \in ToSet(Tail(queue))
        BY <4>1 DEF ToSet
      <4> QED
        BY <4>1, <4>2
    <3> QED
      BY <3>1, <3>2
  <2>2. ASSUME NEW i \in DOMAIN Tail(queue) PROVE Tail(queue)[i] \in ToSet(queue)
    <3>1. i + 1 \in DOMAIN queue /\ Tail(queue)[i] = queue[i + 1]
      BY <1>3
    <3> QED
      BY <3>1 DEF ToSet
  <2>3. Head(queue) \in ToSet(queue)
    BY <1>3 DEF ToSet
  <2> QED
    BY <2>1, <2>2, <2>3 DEF ToSet
<1>5. ASSUME IsInjective(queue)
      PROVE  Head(queue) \notin ToSet(Tail(queue)) /\ IsInjective(Tail(queue))
  <2>1. DOMAIN Tail(queue) \subseteq Nat /\ \A i \in DOMAIN Tail(queue) : i + 1 # 1
    BY <1>3
  <2>2. Head(queue) \notin ToSet(Tail(queue))
    BY <1>3, <1>5, <2>1 DEF ToSet, IsInjective
  <2>3. IsInjective(Tail(queue))
    <3> SUFFICES ASSUME NEW i \in DOMAIN Tail(queue), NEW j \in DOMAIN Tail(queue),
                        Tail(queue)[i] = Tail(queue)[j]
                 PROVE  i = j
      BY DEF IsInjective
    <3>1. i + 1 = j + 1
      BY <1>3, <1>5 DEF IsInjective
    <3> QED
      BY <2>1, <3>1
  <2> QED
    BY <2>2, <2>3
<1>6. Stored(queue[1], run.at[queue[1]])
  BY <1>2, <1>3 DEF RunReads
<1> QED
  BY <1>2, <1>3, <1>4, <1>5, <1>6 DEF Current, Dir

Wrote(p, c) == c \in Crates /\ gen' = [gen EXCEPT ![p] = c]

LEMMA WroteIs ==
    ASSUME BgTypes, NEW p \in Dir, NEW c, Wrote(p, c)
    PROVE  /\ gen' \in [Dir -> {None} \cup Crates] /\ gen'[p] = c
           /\ \A d : d # p => gen'[d] = gen[d]
BY DEF BgTypes, Wrote

LEMMA OpenCrateWrites ==
    ASSUME BgTypes, RunReads, OpenCrate
    PROVE  \E c : Wrote(Current, c) /\ run.todo # <<>>
<1>1. run.todo # <<>> /\ gen' = [gen EXCEPT ![Current] = IF @ = None THEN EmptyDir ELSE @]
  BY DEF OpenCrate
<1>2. Current \in Dir
  BY <1>1, AtCurrent
<1>3. (IF gen[Current] = None THEN EmptyDir ELSE gen[Current]) \in Crates
  BY <1>2, NothingYet DEF BgTypes
<1> QED
  BY <1>1, <1>3 DEF Wrote

LEMMA RustFileWrites ==
    ASSUME BgTypes, RunReads, RustFile
    PROVE  /\ run.left # <<>> /\ Head(run.left) \in File /\ Tail(run.left) \in Seq(File)
           /\ RustOf(Current, Head(run.left), Content) \in Modules /\ Content \in Text
           /\ \E c : /\ Wrote(Current, c) /\ c.mods = gen[Current].mods /\ c.c = gen[Current].c
                     /\ c.rs = [gen[Current].rs EXCEPT
                                  ![Head(run.left)] = RustOf(Current, Head(run.left), Content)]
<1>1. /\ run.phase = "rs files" /\ run.left # <<>> /\ ReadOk
      /\ gen' = [gen EXCEPT ![Current].rs[Head(run.left)] = RustOf(Current, Head(run.left), Content)]
  BY DEF RustFile, Reading
<1>2. Head(run.left) \in File /\ Tail(run.left) \in Seq(File) /\ Content \in Text
  BY <1>1, ContentIs DEF FileSteps
<1>3. RustOf(Current, Head(run.left), Content) \in Modules
  <2>1. (Uses[Content] \ {Current}) \cup Enveloped(Head(run.left)) \in SUBSET Names
    BY <1>2, GenerationConstants DEF Names, Dir, Enveloped
  <2> QED
    BY <1>2, <2>1 DEF RustOf, Modules
<1>4. gen[Current] \in Crates
  BY <1>1 DEF RunReads
<1>5. PICK c : c = [gen[Current] EXCEPT !.rs[Head(run.left)] = RustOf(Current, Head(run.left), Content)]
  OBVIOUS
<1>6. gen' = [gen EXCEPT ![Current] = c]
  BY <1>1, <1>5
<1>7. /\ c \in Crates
      /\ c.rs = [gen[Current].rs EXCEPT ![Head(run.left)] = RustOf(Current, Head(run.left), Content)]
      /\ c.mods = gen[Current].mods /\ c.c = gen[Current].c
  BY <1>2, <1>3, <1>4, <1>5, CrateWith
<1> QED
  BY <1>1, <1>2, <1>3, <1>6, <1>7 DEF Wrote

LEMMA RustModulesWrites ==
    ASSUME BgTypes, RunReads, RustModules
    PROVE  \E c : /\ Wrote(Current, c) /\ c.rs = gen[Current].rs /\ c.c = gen[Current].c
                  /\ c.mods = run.listed[Current]
<1>1. run.phase = "rs files" /\ gen' = [gen EXCEPT ![Current].mods = run.listed[Current]]
  BY DEF RustModules
<1>2. gen[Current] \in Crates /\ Current \in Pkg
  BY <1>1, AtCurrent DEF RunReads, FileSteps
<1>3. run.listed[Current] \in SUBSET File
  BY <1>2 DEF BgTypes, Runs
<1>4. PICK c : c = [gen[Current] EXCEPT !.mods = run.listed[Current]]
  OBVIOUS
<1>5. gen' = [gen EXCEPT ![Current] = c]
  BY <1>1, <1>4
<1>6. /\ c \in Crates /\ c.rs = gen[Current].rs /\ c.c = gen[Current].c
      /\ c.mods = run.listed[Current]
  BY <1>2, <1>3, <1>4, CrateWith
<1> QED
  BY <1>5, <1>6 DEF Wrote

LEMMA CargoTomlWrites ==
    ASSUME BgTypes, RunReads, CargoToml
    PROVE  \E c : /\ Wrote(Current, c) /\ c.rs = gen[Current].rs /\ c.c = gen[Current].c
                  /\ c.mods = gen[Current].mods
<1> DEFINE t == [name |-> Current, deps |-> {<<d, d>> : d \in run.deps \ {Current}}]
<1>1. run.phase = "rs cargo" /\ gen' = [gen EXCEPT ![Current].cargo = t]
  BY DEF CargoToml
<1>2. gen[Current] \in Crates /\ Current \in Dir
  BY <1>1, AtCurrent DEF RunReads, FileSteps
<1>3. t \in Cargos
  <2>1. run.deps \subseteq Dir
    BY DEF BgTypes, Runs, Dir
  <2>2. \A d \in run.deps : <<d, d>> \in Names \X Dir
    BY <2>1 DEF Names
  <2>3. t.deps \subseteq Names \X Dir
    BY <2>2
  <2>4. t = [name |-> Current, deps |-> t.deps]
    OBVIOUS
  <2> HIDE DEF t
  <2> QED
    BY <1>2, <2>3, <2>4 DEF Cargos
<1>4. PICK c : c = [gen[Current] EXCEPT !.cargo = t]
  OBVIOUS
<1>5. gen' = [gen EXCEPT ![Current] = c]
  BY <1>1, <1>4
<1> HIDE DEF t
<1>6. /\ c \in Crates /\ c.rs = gen[Current].rs /\ c.c = gen[Current].c /\ c.mods = gen[Current].mods
  BY <1>2, <1>3, <1>4, CrateWith
<1> QED
  BY <1>5, <1>6 DEF Wrote

LEMMA HeaderFileWrites ==
    ASSUME BgTypes, RunReads, HeaderFile
    PROVE  /\ run.left # <<>> /\ Head(run.left) \in File /\ Tail(run.left) \in Seq(File)
           /\ \E c : /\ Wrote(Current, c) /\ c.mods = gen[Current].mods /\ c.rs = gen[Current].rs
                     /\ c.c.h = [gen[Current].c.h EXCEPT ![Head(run.left)] = Content]
<1>1. /\ run.phase = "c files" /\ run.left # <<>> /\ ReadOk
      /\ gen' = [gen EXCEPT ![Current].c.h[Head(run.left)] = Content]
  BY DEF HeaderFile, Reading
<1>2. Head(run.left) \in File /\ Tail(run.left) \in Seq(File) /\ Content \in Text
  BY <1>1, ContentIs DEF FileSteps
<1>3. gen[Current] \in Crates
  BY <1>1 DEF RunReads
<1>4. PICK c : c = [gen[Current] EXCEPT !.c.h[Head(run.left)] = Content]
  OBVIOUS
<1>5. gen' = [gen EXCEPT ![Current] = c]
  BY <1>1, <1>4
<1>a. PICK f \in File : f = Head(run.left)
  BY <1>2
<1>b. PICK t \in Text : t = Content
  BY <1>2
<1>c. PICK g \in Crates : g = gen[Current]
  BY <1>3
<1>d. LET d == [g EXCEPT !.c.h[f] = t] IN
      /\ d \in Crates /\ d.rs = g.rs /\ d.mods = g.mods /\ d.c.h = [g.c.h EXCEPT ![f] = t]
  BY HeadersWith
<1>e. c = [g EXCEPT !.c.h[f] = t]
  BY <1>4, <1>a, <1>b, <1>c
<1>6. /\ c \in Crates /\ c.mods = gen[Current].mods /\ c.rs = gen[Current].rs
      /\ c.c.h = [gen[Current].c.h EXCEPT ![Head(run.left)] = Content]
  BY <1>a, <1>b, <1>c, <1>d, <1>e
<1> QED
  BY <1>1, <1>2, <1>5, <1>6 DEF Wrote

LEMMA UmbrellaWrites ==
    ASSUME BgTypes, RunReads, Umbrella
    PROVE  \E c, u : /\ Wrote(Current, c) /\ c.mods = gen[Current].mods /\ c.rs = gen[Current].rs
                     /\ c.c.h = gen[Current].c.h /\ c.c.umbrella = u /\ u \in Umbrellas
                     /\ u.files = run.listed[Current] /\ u.deps \subseteq run.iface
<1>1. PICK u : u = [files |-> run.listed[Current], deps |-> DependenciesOf(Current) \cap run.iface]
  OBVIOUS
<1>2. run.phase = "c files" /\ gen' = [gen EXCEPT ![Current].c.umbrella = u]
  BY <1>1 DEF Umbrella
<1>3. gen[Current] \in Crates /\ Current \in Pkg
  BY <1>2, AtCurrent DEF RunReads, FileSteps
<1>4. run.listed[Current] \in SUBSET File /\ run.iface \subseteq Pkg
  BY <1>3 DEF BgTypes, Runs
<1>5. u \in Umbrellas /\ u.files = run.listed[Current] /\ u.deps \subseteq run.iface
  BY <1>1, <1>4 DEF Umbrellas
<1>6. PICK c : c = [gen[Current] EXCEPT !.c.umbrella = u]
  OBVIOUS
<1>7. gen' = [gen EXCEPT ![Current] = c]
  BY <1>2, <1>6
<1>8. /\ c \in Crates /\ c.mods = gen[Current].mods /\ c.rs = gen[Current].rs
      /\ c.c.h = gen[Current].c.h /\ c.c.umbrella = u
  BY <1>3, <1>5, <1>6, HeadersWith
<1> QED
  BY <1>5, <1>7, <1>8 DEF Wrote

-----------------------------------------------------------------------------
(* Types and reads, step by step.                                          *)

LEMMA BgInitTypes == ASSUME BgInit PROVE BgTypes /\ RunReads
<1>1. world \in Worlds /\ share = world.share
  BY DEF BgInit
<1>2. share \in [DOMAIN world.share -> [Pkg -> {None} \cup ShareDir]]
  BY <1>1, WorldIs
<1>3. /\ Idle \in Runs /\ Idle.phase = "idle" /\ Idle.todo = <<>>
  BY DEF Idle, Runs, Asks, NoAsk, LangSeqs, NoPlaces, NoListing
<1>4. NoOutcome \in [result : {"none", "ok", "err", "killed"}, ask : Asks, iface : SUBSET Pkg,
                     anew : BOOLEAN]
  BY DEF NoOutcome, Asks, NoAsk
<1>5. gen \in [Dir -> {None} \cup Crates] /\ built \in [Pkg -> Headers] /\ run = Idle
  BY NothingYet DEF BgInit
<1>6. outcome = NoOutcome
  BY DEF BgInit
<1>7. BgTypes
  BY <1>1, <1>2, <1>3, <1>4, <1>5, <1>6 DEF BgTypes
<1>8. DOMAIN run.todo = {} /\ run.phase = "idle" /\ run = Idle
  BY <1>3, <1>5
<1>9. RunReads
  BY <1>8 DEF RunReads, FileSteps
<1> QED
  BY <1>7, <1>9

\* The languages nros generate is asked for.
LEMMA LangsAre ==
    ASSUME NEW ask \in Ask
    PROVE  /\ ask.langs \in Seq({"rust", "c"}) /\ ask.langs # <<>>
           /\ ask.langs \in {<<"rust">>, <<"c">>, <<"rust", "c">>}
<1>1. ask.langs \in {<<"rust">>, <<"c">>, <<"rust", "c">>}
  BY DEF Ask
<1>2. \A l \in {<<"rust">>, <<"c">>, <<"rust", "c">>} : l \in Seq({"rust", "c"}) /\ l # <<>>
  <2>1. <<"rust">> \in Seq({"rust", "c"}) /\ <<"rust">> # <<>>
    OBVIOUS
  <2>2. <<"c">> \in Seq({"rust", "c"}) /\ <<"c">> # <<>>
    OBVIOUS
  <2>3. <<"rust", "c">> \in Seq({"rust", "c"}) /\ <<"rust", "c">> # <<>>
    OBVIOUS
  <2> QED
    BY <2>1, <2>2, <2>3
<1> QED
  BY <1>1, <1>2

LEMMA TailLong ==
    ASSUME NEW S, NEW s \in Seq(S), Len(s) > 1
    PROVE  Tail(s) \in Seq(S) /\ Tail(s) # <<>>
<1>1. s # <<>>
  OBVIOUS
<1>2. Tail(s) \in Seq(S) /\ Len(Tail(s)) = Len(s) - 1
  BY <1>1
<1>3. Len(<<>>) = 0 /\ Len(s) \in Nat
  OBVIOUS
<1>4. Tail(s) # <<>>
  <2> SUFFICES ASSUME Tail(s) = <<>> PROVE FALSE
    OBVIOUS
  <2>1. PICK n \in Nat : n = Len(s)
    BY <1>3
  <2>2. n > 1 /\ n - 1 = 0
    BY <1>2, <1>3, <2>1
  <2> QED
    BY <2>2
<1> QED
  BY <1>2, <1>4

LEMMA GenerateKeeps ==
    ASSUME BgInv, NEW ask, Generate(ask)
    PROVE  BgTypes' /\ RunReads' /\ run' = Enter([Idle EXCEPT !.ask = ask, !.langs = ask.langs])
           /\ ask \in Ask /\ ask # NoAsk
<1>1. BgTypes /\ world \in Worlds
  BY DEF BgInv, BgTypes
<1>2. ask \in Ask
  BY <1>1, WorldIs DEF Generate
<1>3. ask.langs \in Seq({"rust", "c"}) /\ ask.langs # <<>>
  BY <1>2, LangsAre
<1>4. PICK r : r = [Idle EXCEPT !.ask = ask, !.langs = ask.langs]
  OBVIOUS
<1>5. Idle \in Runs
  BY DEF Idle, Runs, Asks, NoAsk, LangSeqs, NoPlaces, NoListing
<1>6. r \in Runs /\ r.langs = ask.langs
  BY <1>2, <1>3, <1>4, <1>5 DEF Runs, Asks, LangSeqs
<1>7. run' = Enter(r) /\ outcome' = NoOutcome /\ UNCHANGED <<share, world, gen, built>>
  BY <1>4 DEF Generate, Begins, Output
<1>8. /\ Enter(r) \in Runs /\ Enter(r).phase \in {"rust", "c", "end"}
      /\ \A i \in DOMAIN Enter(r).todo : Stored(Enter(r).todo[i], Enter(r).at[Enter(r).todo[i]])
  BY <1>1, <1>3, <1>6, EnterIs
<1>9. BgTypes' /\ RunReads'
  BY <1>1, <1>7, <1>8, RunBegins
<1>10. ask # NoAsk
  BY <1>3 DEF NoAsk
<1> QED
  BY <1>2, <1>4, <1>7, <1>9, <1>10

LEMMA GenerateOneKeeps ==
    ASSUME BgInv, NEW p, GenerateOne(p)
    PROVE  BgTypes' /\ RunReads' /\ run'.ask = NoAsk /\ run'.phase = "rust"
<1>1. BgTypes /\ world \in Worlds
  BY DEF BgInv, BgTypes
<1>2. p \in Pkg /\ Found(p)
  BY <1>1, WorldIs DEF GenerateOne
<1>3. Idle \in Runs /\ Idle.ask = NoAsk
  BY DEF Idle, Runs, Asks, NoAsk, LangSeqs, NoPlaces, NoListing
<1>4. PICK l : l = Loaded(Idle, {p})
  OBVIOUS
<1>5. /\ l \in Runs /\ l.ask = NoAsk
      /\ \A i \in DOMAIN l.todo : Stored(l.todo[i], l.at[l.todo[i]])
  <2>1. {p} \in SUBSET Pkg /\ \A q \in {p} : Found(q)
    BY <1>2
  <2> QED
    BY <1>1, <1>3, <1>4, <2>1, LoadedIs
<1>6. PICK r : r = [l EXCEPT !.phase = "rust"]
  OBVIOUS
<1>7. /\ r \in Runs /\ r.phase = "rust" /\ r.ask = NoAsk /\ r.todo = l.todo /\ r.at = l.at
  BY <1>5, <1>6 DEF Runs, Steps, RustSteps
<1>8. run' = r /\ outcome' = NoOutcome /\ UNCHANGED <<share, world, gen, built>>
  BY <1>4, <1>6 DEF GenerateOne, Begins, Output
<1>9. BgTypes' /\ RunReads'
  BY <1>1, <1>5, <1>7, <1>8, RunBegins
<1> QED
  BY <1>7, <1>8, <1>9

LEMMA NextLanguageKeeps ==
    ASSUME BgInv, NextLanguage
    PROVE  BgTypes' /\ RunReads'
<1>1. /\ BgTypes /\ RunReads /\ run.phase = "end" /\ run \in Runs
      /\ UNCHANGED <<share, world, gen, built>>
  BY DEF BgInv, NextLanguage, Output, Keeps, BgTypes
<1>2. CASE Len(run.langs) > 1
  <2>1. PICK r : r = [run EXCEPT !.langs = Tail(@)]
    OBVIOUS
  <2>2. run' = Enter(r) /\ UNCHANGED outcome
    BY <1>2, <2>1 DEF NextLanguage
  <2>3. run.langs \in Seq({"rust", "c"})
    BY <1>1 DEF Runs, LangSeqs
  <2>4. Tail(run.langs) \in Seq({"rust", "c"}) /\ Tail(run.langs) # <<>>
    BY <1>2, <2>3, TailLong
  <2>5. r \in Runs /\ r.langs # <<>>
    BY <1>1, <2>1, <2>4 DEF Runs, LangSeqs
  <2>6. /\ Enter(r) \in Runs /\ Enter(r).phase \in {"rust", "c", "end"}
        /\ \A i \in DOMAIN Enter(r).todo : Stored(Enter(r).todo[i], Enter(r).at[Enter(r).todo[i]])
    BY <1>1, <2>5, EnterIs
  <2>7. outcome' = NoOutcome
    BY <1>1, <2>2 DEF RunReads
  <2> QED
    BY <1>1, <2>2, <2>6, <2>7, RunBegins
<1>3. CASE ~(Len(run.langs) > 1)
  <2>1. Ends("ok")
    BY <1>3 DEF NextLanguage
  <2> QED
    BY <1>1, <2>1, RunEnded
<1> QED
  BY <1>2, <1>3

LEMMA EndKeeps ==
    ASSUME BgInv, ReadFails \/ Kill
    PROVE  BgTypes' /\ RunReads' /\ outcome'.result # "ok" /\ run' = Idle
<1>1. BgTypes /\ RunReads /\ run.phase # "idle"
  BY DEF BgInv, ReadFails, Kill, RunReads
<1>2. UNCHANGED <<share, world, gen, built>>
  BY DEF ReadFails, Kill, Keeps, Output
<1>3. Ends("err") \/ Ends("killed")
  BY DEF ReadFails, Kill
<1>4. BgTypes' /\ RunReads'
  BY <1>1, <1>2, <1>3, RunEnded
<1> QED
  BY <1>3, <1>4 DEF Ends

LEMMA OpenCrateKeeps ==
    ASSUME BgInv, OpenCrate
    PROVE  BgTypes' /\ RunReads'
<1>1. BgTypes /\ RunReads /\ run \in Runs /\ run.phase = "rust"
  BY DEF BgInv, OpenCrate, BgTypes
<1>2. PICK c : Wrote(Current, c) /\ run.todo # <<>>
  BY <1>1, OpenCrateWrites
<1>3. Current \in Pkg /\ Current \in Dir
  BY <1>1, <1>2, AtCurrent
<1>4. gen' \in [Dir -> {None} \cup Crates] /\ gen'[Current] \in Crates
  BY <1>1, <1>2, <1>3, WroteIs DEF Wrote
<1>5. Sorted(run.listed[Current]) \in Seq(File)
  <2>1. run.listed[Current] \in SUBSET File
    BY <1>1, <1>3 DEF Runs
  <2> QED
    BY <2>1, SortedFiles
<1>6. PICK deps \in SUBSET Pkg :
         run' = [run EXCEPT !.phase = "rs files", !.left = Sorted(run.listed[Current]), !.deps = deps]
  <2>1. (IF \E f \in run.listed[Current] : Kind[f] = "action" THEN Injected ELSE {}) \in SUBSET Pkg
    BY GenerationConstants
  <2> QED
    BY <2>1 DEF OpenCrate
<1>7. /\ run' \in Runs /\ run'.phase = "rs files" /\ run'.at = run.at /\ run'.todo = run.todo
  BY <1>1, <1>5, <1>6 DEF Runs, Steps, RustSteps
<1>8. UNCHANGED <<share, world, outcome>> /\ built' \in [Pkg -> Headers]
  BY <1>1 DEF OpenCrate, Keeps, NoBuild, BgTypes
<1> QED
  BY <1>1, <1>2, <1>4, <1>7, <1>8, GoesOn DEF Current

LEMMA RustFileKeeps ==
    ASSUME BgInv, RustFile
    PROVE  BgTypes' /\ RunReads'
<1>1. BgTypes /\ RunReads /\ run \in Runs /\ run.phase = "rs files" /\ run.todo # <<>>
  BY DEF BgInv, RustFile, Reading, BgTypes, RunReads, FileSteps
<1>2. Tail(run.left) \in Seq(File) /\ Content \in Text /\ \E c : Wrote(Current, c)
  BY <1>1, RustFileWrites
<1>3. Current \in Dir
  BY <1>1, AtCurrent
<1>4. gen' \in [Dir -> {None} \cup Crates] /\ gen'[Current] \in Crates
  BY <1>1, <1>2, <1>3, WroteIs DEF Wrote
<1>5. PICK deps \in SUBSET Pkg : run' = [run EXCEPT !.left = Tail(@), !.deps = deps]
  <2>1. run.deps \cup Uses[Content] \in SUBSET Pkg
    BY <1>1, <1>2, GenerationConstants DEF Runs
  <2> QED
    BY <2>1 DEF RustFile
<1>6. /\ run' \in Runs /\ run'.phase = "rs files" /\ run'.at = run.at /\ run'.todo = run.todo
  BY <1>1, <1>2, <1>5 DEF Runs
<1>7. UNCHANGED <<share, world, outcome>> /\ built' \in [Pkg -> Headers]
  BY <1>1 DEF RustFile, Keeps, NoBuild, BgTypes
<1> QED
  BY <1>1, <1>4, <1>6, <1>7, GoesOn DEF Current

LEMMA RustModulesKeeps ==
    ASSUME BgInv, RustModules
    PROVE  BgTypes' /\ RunReads'
<1>1. BgTypes /\ RunReads /\ run \in Runs /\ run.phase = "rs files" /\ run.todo # <<>>
  BY DEF BgInv, RustModules, BgTypes, RunReads, FileSteps
<1>2. Current \in Dir /\ \E c : Wrote(Current, c)
  BY <1>1, AtCurrent, RustModulesWrites
<1>3. gen' \in [Dir -> {None} \cup Crates] /\ gen'[Current] \in Crates
  BY <1>1, <1>2, WroteIs DEF Wrote
<1>4. run' = [run EXCEPT !.phase = "rs cargo"]
  BY DEF RustModules
<1>5. /\ run' \in Runs /\ run'.phase = "rs cargo" /\ run'.at = run.at /\ run'.todo = run.todo
  BY <1>1, <1>4 DEF Runs, Steps, RustSteps
<1>6. UNCHANGED <<share, world, outcome>> /\ built' \in [Pkg -> Headers]
  BY <1>1 DEF RustModules, Keeps, NoBuild, BgTypes
<1> QED
  BY <1>1, <1>3, <1>5, <1>6, GoesOn DEF Current

LEMMA CargoTomlKeeps ==
    ASSUME BgInv, CargoToml
    PROVE  BgTypes' /\ RunReads'
<1>1. BgTypes /\ RunReads /\ run \in Runs /\ run.phase = "rs cargo" /\ run.todo # <<>>
  BY DEF BgInv, CargoToml, BgTypes, RunReads, FileSteps
<1>2. Current \in Dir /\ Tail(run.todo) \in Seq(Pkg) /\ \E c : Wrote(Current, c)
  BY <1>1, AtCurrent, CargoTomlWrites
<1>3. gen' \in [Dir -> {None} \cup Crates]
  BY <1>1, <1>2, WroteIs
<1>4. run' = [run EXCEPT !.phase = "rust", !.todo = Tail(@), !.deps = {}]
  BY DEF CargoToml
<1>5. /\ run' \in Runs /\ run'.phase = "rust" /\ run'.at = run.at /\ run'.todo = Tail(run.todo)
  BY <1>1, <1>2, <1>4 DEF Runs, Steps, RustSteps
<1>6. UNCHANGED <<share, world, outcome>> /\ built' \in [Pkg -> Headers]
  BY <1>1 DEF CargoToml, Keeps, NoBuild, BgTypes
<1> QED
  BY <1>1, <1>3, <1>5, <1>6, GoesOn DEF FileSteps

LEMMA RustDoneKeeps ==
    ASSUME BgInv, RustDone
    PROVE  BgTypes' /\ RunReads'
<1>1. BgTypes /\ RunReads /\ run \in Runs /\ run.phase = "rust" /\ world \in Worlds
  BY DEF BgInv, RustDone, BgTypes
<1>2. PICK olds, phase :
         /\ run' = [run EXCEPT !.olds = olds, !.phase = phase]
         /\ olds \subseteq DOMAIN world.renames /\ phase \in {"rename", "config", "end"}
  <2> DEFINE olds == IF run.ask = NoAsk THEN {} ELSE DOMAIN world.renames
             phase == IF run.ask # NoAsk /\ DOMAIN world.renames # {} THEN "rename"
                      ELSE IF run.ask.config THEN "config" ELSE "end"
  <2>1. run' = [run EXCEPT !.olds = olds, !.phase = phase]
    BY DEF RustDone
  <2>2. olds \subseteq DOMAIN world.renames /\ phase \in {"rename", "config", "end"}
    OBVIOUS
  <2> QED
    BY <2>1, <2>2
<1>3. olds \subseteq Pkg
  BY <1>1, <1>2, WorldIs
<1>4. /\ run' \in Runs /\ run'.phase = phase /\ run'.olds = olds /\ run'.at = run.at
      /\ run'.todo = run.todo
  BY <1>1, <1>2, <1>3 DEF Runs, Steps
<1>5. /\ UNCHANGED <<share, world, outcome>> /\ built' \in [Pkg -> Headers]
      /\ gen' \in [Dir -> {None} \cup Crates]
  BY <1>1 DEF RustDone, Keeps, Output, BgTypes
<1> QED
  BY <1>1, <1>2, <1>4, <1>5, GoesOn DEF FileSteps

LEMMA RenameDirWrites ==
    ASSUME BgTypes, RunReads, NEW old, RenameDir(old)
    PROVE  /\ old \in DOMAIN world.renames /\ old \in Pkg /\ NewOf(old) = world.renames[old]
           /\ NewOf(old) \in NewName
           /\ gen' = IF gen[old] = None THEN gen
                     ELSE [[gen EXCEPT ![NewOf(old)] = gen[old]] EXCEPT ![old] = None]
           /\ gen' \in [Dir -> {None} \cup Crates]
<1>1. old \in DOMAIN world.renames /\ world \in Worlds
  BY DEF RenameDir, RunReads, BgTypes
<1>2. old \in Pkg /\ NewOf(old) = world.renames[old] /\ NewOf(old) \in NewName
  BY <1>1, WorldIs DEF NewOf
<1>3. gen' = IF gen[old] = None THEN gen
             ELSE [[gen EXCEPT ![NewOf(old)] = gen[old]] EXCEPT ![old] = None]
  BY DEF RenameDir
<1>4. gen' \in [Dir -> {None} \cup Crates]
  BY <1>2, <1>3 DEF BgTypes, Dir
<1> QED
  BY <1>1, <1>2, <1>3, <1>4

LEMMA RenameDirKeeps ==
    ASSUME BgInv, NEW old, RenameDir(old)
    PROVE  BgTypes' /\ RunReads'
<1>1. BgTypes /\ RunReads /\ run \in Runs /\ run.phase = "rename" /\ world \in Worlds
  BY DEF BgInv, RenameDir, BgTypes
<1>2. gen' \in [Dir -> {None} \cup Crates]
  BY <1>1, RenameDirWrites
<1>3. PICK olds, phase :
         /\ run' = [run EXCEPT !.olds = olds, !.phase = phase]
         /\ olds \subseteq DOMAIN world.renames /\ phase \in {"rename", "fix"}
  <2> DEFINE olds == IF run.olds = {old} THEN DOMAIN world.renames ELSE run.olds \ {old}
             phase == IF run.olds = {old} THEN "fix" ELSE run.phase
  <2>1. run' = [run EXCEPT !.olds = olds, !.phase = phase]
    BY DEF RenameDir
  <2>2. olds \subseteq DOMAIN world.renames /\ phase \in {"rename", "fix"}
    BY <1>1 DEF RunReads
  <2> QED
    BY <2>1, <2>2
<1>4. olds \subseteq Pkg
  BY <1>1, <1>3, WorldIs
<1>5. /\ run' \in Runs /\ run'.phase = phase /\ run'.olds = olds /\ run'.at = run.at
      /\ run'.todo = run.todo
  BY <1>1, <1>3, <1>4 DEF Runs, Steps
<1>6. UNCHANGED <<share, world, outcome>> /\ built' \in [Pkg -> Headers]
  BY <1>1 DEF RenameDir, Keeps, NoBuild, BgTypes
<1> QED
  BY <1>1, <1>2, <1>3, <1>5, <1>6, GoesOn DEF FileSteps

LEMMA FixCrateWrites ==
    ASSUME BgTypes, RunReads, NEW old, FixCrate(old)
    PROVE  /\ gen' \in [Dir -> {None} \cup Crates]
           /\ \A d \in Dir :
                 \/ gen'[d] = gen[d]
                 \/ gen[d] \in Crates /\ \E toml, ranks : gen'[d] = Fixed(gen[d], toml, ranks)
<1>1. old \in DOMAIN world.renames /\ world \in Worlds
  BY DEF FixCrate, RunReads, BgTypes
<1>2. PICK d : d = NewOf(old)
  OBVIOUS
<1>3. d \in Dir
  BY <1>1, <1>2, WorldIs DEF NewOf, Dir
<1>4. PICK toml, ranks :
         gen' = IF gen[d] = None THEN gen ELSE [gen EXCEPT ![d] = Fixed(gen[d], toml, ranks)]
  BY <1>2 DEF FixCrate
<1>5. gen[d] # None => gen[d] \in Crates /\ Fixed(gen[d], toml, ranks) \in Crates
  BY <1>3, FixedIs DEF BgTypes
<1>6. gen \in [Dir -> {None} \cup Crates]
  BY DEF BgTypes
<1> QED
  BY <1>3, <1>4, <1>5, <1>6

LEMMA FixCrateKeeps ==
    ASSUME BgInv, NEW old, FixCrate(old)
    PROVE  BgTypes' /\ RunReads'
<1>1. BgTypes /\ RunReads /\ run \in Runs /\ run.phase = "fix" /\ world \in Worlds
  BY DEF BgInv, FixCrate, BgTypes
<1>2. gen' \in [Dir -> {None} \cup Crates]
  BY <1>1, FixCrateWrites
<1>3. PICK olds, phase :
         /\ run' = [run EXCEPT !.olds = olds, !.phase = phase]
         /\ olds \subseteq DOMAIN world.renames /\ phase \in {"fix", "config", "end"}
  <2> DEFINE olds == run.olds \ {old}
             phase == IF run.olds # {old} THEN run.phase ELSE IF run.ask.config THEN "config" ELSE "end"
  <2>1. run' = [run EXCEPT !.olds = olds, !.phase = phase]
    BY DEF FixCrate
  <2>2. olds \subseteq DOMAIN world.renames /\ phase \in {"fix", "config", "end"}
    BY <1>1 DEF RunReads
  <2> QED
    BY <2>1, <2>2
<1>4. olds \subseteq Pkg
  BY <1>1, <1>3, WorldIs
<1>5. /\ run' \in Runs /\ run'.phase = phase /\ run'.olds = olds /\ run'.at = run.at
      /\ run'.todo = run.todo
  BY <1>1, <1>3, <1>4 DEF Runs, Steps
<1>6. UNCHANGED <<share, world, outcome>> /\ built' \in [Pkg -> Headers]
  BY <1>1 DEF FixCrate, Keeps, NoBuild, BgTypes
<1> QED
  BY <1>1, <1>2, <1>3, <1>5, <1>6, GoesOn DEF FileSteps

LEMMA WriteConfigKeeps ==
    ASSUME BgInv, WriteConfig
    PROVE  BgTypes' /\ RunReads'
<1>1. BgTypes /\ RunReads /\ run \in Runs /\ run.phase = "config"
  BY DEF BgInv, WriteConfig, BgTypes
<1>2. run' = [run EXCEPT !.phase = "end"]
  BY DEF WriteConfig
<1>3. run' \in Runs /\ run'.phase = "end" /\ run'.at = run.at /\ run'.todo = run.todo
  BY <1>1, <1>2 DEF Runs
<1>4. /\ UNCHANGED <<share, world, outcome>> /\ built' \in [Pkg -> Headers]
      /\ gen' \in [Dir -> {None} \cup Crates]
  BY <1>1 DEF WriteConfig, Keeps, NoBuild, BgTypes
<1> QED
  BY <1>1, <1>3, <1>4, GoesOn DEF FileSteps

\* The three ways a package's headers begin.
LEMMA OpenHeadersIs ==
    ASSUME BgTypes, RunReads, OpenHeaders
    PROVE  \/ /\ run.todo = <<>> /\ run' = [run EXCEPT !.phase = "end"] /\ gen' = gen
           \/ /\ run.todo # <<>> /\ gen' = gen
              /\ Skipped(Current) \/ Listed(share[run.at[Current]][Current]) = {}
              /\ run' = [run EXCEPT !.todo = Tail(@)]
           \/ /\ run.todo # <<>>
              /\ ~Skipped(Current) /\ Listed(share[run.at[Current]][Current]) # {}
              /\ \E c : /\ Wrote(Current, c)
                        /\ gen[Current] # None => c = gen[Current]
              /\ run' = [run EXCEPT !.phase = "c files",
                            !.left = Sorted(Listed(share[run.at[Current]][Current])),
                            !.listed[Current] = Listed(share[run.at[Current]][Current])]
<1>1. CASE run.todo = <<>>
  BY <1>1 DEF OpenHeaders
<1>2. CASE run.todo # <<>>
  <2> DEFINE files == Listed(share[run.at[Current]][Current])
  <2>1. CASE Skipped(Current) \/ files = {}
    BY <1>2, <2>1 DEF OpenHeaders
  <2>2. CASE ~(Skipped(Current) \/ files = {})
    <3>1. /\ gen' = [gen EXCEPT ![Current] = IF @ = None THEN EmptyDir ELSE @]
          /\ run' = [run EXCEPT !.phase = "c files", !.left = Sorted(files), !.listed[Current] = files]
      BY <1>2, <2>2 DEF OpenHeaders
    <3>2. PICK c : c = IF gen[Current] = None THEN EmptyDir ELSE gen[Current]
      OBVIOUS
    <3>3. Current \in Dir
      BY <1>2, AtCurrent
    <3>4. c \in Crates
      BY <3>2, <3>3, NothingYet DEF BgTypes
    <3>5. Wrote(Current, c)
      BY <3>1, <3>2, <3>4 DEF Wrote
    <3> QED
      BY <1>2, <2>2, <3>1, <3>2, <3>5
  <2> QED
    BY <2>1, <2>2
<1> QED
  BY <1>1, <1>2

LEMMA OpenHeadersKeeps ==
    ASSUME BgInv, OpenHeaders
    PROVE  BgTypes' /\ RunReads'
<1>1. BgTypes /\ RunReads /\ run \in Runs /\ run.phase = "c"
  BY DEF BgInv, OpenHeaders, BgTypes
<1>2. UNCHANGED <<share, world, outcome>> /\ built' \in [Pkg -> Headers]
  BY <1>1 DEF OpenHeaders, Keeps, NoBuild, BgTypes
<1>3. gen \in [Dir -> {None} \cup Crates]
  BY <1>1 DEF BgTypes
<1>4. CASE run.todo = <<>> /\ run' = [run EXCEPT !.phase = "end"] /\ gen' = gen
  <2>1. run' \in Runs /\ run'.phase = "end" /\ run'.at = run.at /\ run'.todo = run.todo
    BY <1>1, <1>4 DEF Runs
  <2> QED
    BY <1>1, <1>2, <1>3, <1>4, <2>1, GoesOn DEF FileSteps
<1>5. CASE run.todo # <<>> /\ run' = [run EXCEPT !.todo = Tail(@)] /\ gen' = gen
  <2>1. Tail(run.todo) \in Seq(Pkg)
    BY <1>1, <1>5, AtCurrent
  <2>2. run' \in Runs /\ run'.phase = "c" /\ run'.at = run.at /\ run'.todo = Tail(run.todo)
    BY <1>1, <1>5, <2>1 DEF Runs
  <2> QED
    BY <1>1, <1>2, <1>3, <1>5, <2>2, GoesOn DEF FileSteps
<1>6. ASSUME run.todo # <<>>, NEW c, Wrote(Current, c),
             run' = [run EXCEPT !.phase = "c files",
                         !.left = Sorted(Listed(share[run.at[Current]][Current])),
                         !.listed[Current] = Listed(share[run.at[Current]][Current])]
      PROVE  BgTypes' /\ RunReads'
  <2>1. Current \in Pkg /\ Current \in Dir
    BY <1>1, <1>6, AtCurrent
  <2>2. gen' \in [Dir -> {None} \cup Crates] /\ gen'[Current] \in Crates
    BY <1>1, <1>6, <2>1, WroteIs DEF Wrote
  <2>3. PICK files : files = Listed(share[run.at[Current]][Current])
    OBVIOUS
  <2>4. files \in SUBSET File
    BY <2>3, ListedIs
  <2>5. Sorted(files) \in Seq(File)
    BY <2>4, SortedFiles
  <2>6. run' = [run EXCEPT !.phase = "c files", !.left = Sorted(files), !.listed[Current] = files]
    BY <1>6, <2>3
  <2>7. /\ run' \in Runs /\ run'.phase = "c files" /\ run'.at = run.at /\ run'.todo = run.todo
    BY <1>1, <2>1, <2>4, <2>5, <2>6 DEF Runs, CSteps
  <2> QED
    BY <1>1, <1>2, <1>6, <2>2, <2>7, GoesOn DEF Current
<1> QED
  BY <1>1, <1>4, <1>5, <1>6, OpenHeadersIs

LEMMA HeaderFileKeeps ==
    ASSUME BgInv, HeaderFile
    PROVE  BgTypes' /\ RunReads'
<1>1. BgTypes /\ RunReads /\ run \in Runs /\ run.phase = "c files" /\ run.todo # <<>>
  BY DEF BgInv, HeaderFile, Reading, BgTypes, RunReads, FileSteps
<1>2. Tail(run.left) \in Seq(File) /\ \E c : Wrote(Current, c)
  BY <1>1, HeaderFileWrites
<1>3. Current \in Dir
  BY <1>1, AtCurrent
<1>4. gen' \in [Dir -> {None} \cup Crates] /\ gen'[Current] \in Crates
  BY <1>1, <1>2, <1>3, WroteIs DEF Wrote
<1>5. run' = [run EXCEPT !.left = Tail(@)]
  BY DEF HeaderFile
<1>6. /\ run' \in Runs /\ run'.phase = "c files" /\ run'.at = run.at /\ run'.todo = run.todo
  BY <1>1, <1>2, <1>5 DEF Runs
<1>7. UNCHANGED <<share, world, outcome>> /\ built' \in [Pkg -> Headers]
  BY <1>1 DEF HeaderFile, Keeps, NoBuild, BgTypes
<1> QED
  BY <1>1, <1>4, <1>6, <1>7, GoesOn DEF Current

LEMMA UmbrellaKeeps ==
    ASSUME BgInv, Umbrella
    PROVE  BgTypes' /\ RunReads'
<1>1. BgTypes /\ RunReads /\ run \in Runs /\ run.phase = "c files" /\ run.todo # <<>>
  BY DEF BgInv, Umbrella, BgTypes, RunReads, FileSteps
<1>2. Current \in Dir /\ Tail(run.todo) \in Seq(Pkg) /\ \E c : Wrote(Current, c)
  BY <1>1, AtCurrent, UmbrellaWrites
<1>3. gen' \in [Dir -> {None} \cup Crates]
  BY <1>1, <1>2, WroteIs
<1>4. run' = [run EXCEPT !.phase = "c", !.todo = Tail(@)]
  BY DEF Umbrella
<1>5. /\ run' \in Runs /\ run'.phase = "c" /\ run'.at = run.at /\ run'.todo = Tail(run.todo)
  BY <1>1, <1>2, <1>4 DEF Runs, CSteps
<1>6. UNCHANGED <<share, world, outcome>> /\ built' \in [Pkg -> Headers]
  BY <1>1 DEF Umbrella, Keeps, NoBuild, BgTypes
<1> QED
  BY <1>1, <1>3, <1>5, <1>6, GoesOn DEF FileSteps

LEMMA ResolveKeeps ==
    ASSUME BgInv, Resolve
    PROVE  BgTypes' /\ RunReads' /\ run' = Idle
<1>1. BgTypes /\ RunReads /\ run' = run /\ run = Idle /\ outcome' = NoOutcome
  BY DEF BgInv, Resolve
<1>2. UNCHANGED <<share, world, gen, built>>
  BY DEF Resolve
<1>3. NoOutcome \in [result : {"none", "ok", "err", "killed"}, ask : Asks, iface : SUBSET Pkg,
                     anew : BOOLEAN]
  BY DEF NoOutcome, Asks, NoAsk
<1>4. run.phase = "idle" /\ DOMAIN run.todo = {}
  BY <1>1 DEF Idle
<1>5. BgTypes'
  BY <1>1, <1>2, <1>3 DEF BgTypes
<1>6. RunReads'
  BY <1>1, <1>4 DEF RunReads, FileSteps
<1> QED
  BY <1>1, <1>5, <1>6

LEMMA CMakeBegins ==
    ASSUME BgInv, Build
    PROVE  /\ BgTypes' /\ RunReads'
           /\ script # None /\ run'.phase = "cmake" /\ run'.todo = script.order /\ run'.ask = NoAsk
<1>1. BgTypes /\ ScriptOrdered /\ script # None
  BY DEF BgInv, Build
<1> DEFINE D == DOMAIN script.directs
           places == [p \in Pkg |-> IF p \in DOMAIN script.at THEN script.at[p] ELSE None]
<1>2. /\ D \subseteq Pkg /\ script.order \in Seq(D) /\ script.at \in [D -> Nat]
      /\ \A p \in D : Stored(p, script.at[p])
  BY <1>1 DEF ScriptOrdered
<1>3. places \in [Pkg -> Nat \cup {None}]
  BY <1>2
<1>4. /\ script.order \in Seq(Pkg) /\ ToSet(script.order) \in SUBSET Pkg
      /\ \A i \in DOMAIN script.order : script.order[i] \in D
  <2> HIDE DEF D
  <2>1. \A p \in ToSet(script.order) : p \in D
    BY <1>2, InSeq
  <2>2. \A i \in DOMAIN script.order : script.order[i] \in D
    BY <1>2
  <2> QED
    BY <1>2, <2>1, <2>2, SeqOver
<1>5. Idle \in Runs
  BY DEF Idle, Runs, Asks, NoAsk, LangSeqs, NoPlaces, NoListing
<1>6. run' = [Idle EXCEPT !.phase = "cmake", !.todo = script.order, !.iface = ToSet(script.order),
                  !.at = places]
  BY DEF Build
<1>7. \A i \in DOMAIN script.order : Stored(script.order[i], places[script.order[i]])
  BY <1>2, <1>4
<1> HIDE DEF places, D
<1>8. /\ run' \in Runs /\ run'.phase = "cmake" /\ run'.todo = script.order /\ run'.at = places
      /\ run'.ask = NoAsk
  <2>1. Idle.ask = NoAsk
    BY DEF Idle
  <2> QED
    BY <1>3, <1>4, <1>5, <1>6, <2>1 DEF Runs, CMakeSteps
<1>9. outcome' = NoOutcome /\ UNCHANGED <<share, world, gen, built>>
  BY DEF Build, Output
<1>10. BgTypes' /\ RunReads'
  BY <1>1, <1>7, <1>8, <1>9, RunBegins
<1> QED
  BY <1>1, <1>8, <1>10

LEMMA CodegenPackageIs ==
    ASSUME BgInv, CodegenPackage
    PROVE  /\ BgTypes' /\ RunReads' /\ UNCHANGED <<built, script>>
           /\ \/ run.todo = <<>> /\ Ends("ok") /\ run' = Idle
              \/ /\ run.todo # <<>> /\ UNCHANGED outcome
                 /\ run'.phase = "cmake files" /\ run'.todo = run.todo /\ run'.ask = run.ask
                 /\ run'.left = Sorted(script.files[Current])
                 /\ script # None /\ Current \in DOMAIN script.directs /\ script.files[Current] \in SUBSET File
<1>1. /\ BgTypes /\ RunReads /\ run \in Runs /\ run.phase = "cmake" /\ BuildGoesOn /\ ScriptOrdered
      /\ UNCHANGED <<share, world, gen, built, script>>
  BY DEF BgInv, CodegenPackage, BgTypes, Output, Keeps
<1>2. CASE run.todo = <<>>
  <2>1. Ends("ok")
    BY <1>2 DEF CodegenPackage
  <2> QED
    BY <1>1, <1>2, <2>1, RunEnded DEF Ends
<1>3. CASE run.todo # <<>>
  <2>1. run' = [run EXCEPT !.phase = "cmake files", !.left = Sorted(script.files[Current])]
    BY <1>3 DEF CodegenPackage
  <2>2. script # None /\ Current \in DOMAIN script.directs
    BY <1>1, <1>3, AtCurrent DEF BuildGoesOn, CMakeSteps
  <2>3. script.files[Current] \in SUBSET File
    BY <1>1, <2>2 DEF ScriptOrdered
  <2>4. Sorted(script.files[Current]) \in Seq(File)
    BY <2>3, SortedFiles
  <2>5. /\ run' \in Runs /\ run'.phase = "cmake files" /\ run'.at = run.at /\ run'.todo = run.todo
        /\ run'.ask = run.ask /\ run'.left = Sorted(script.files[Current])
    BY <1>1, <2>1, <2>4 DEF Runs, CMakeSteps
  <2>6. UNCHANGED outcome
    BY <1>3 DEF CodegenPackage
  <2>7. gen' \in [Dir -> {None} \cup Crates] /\ built' \in [Pkg -> Headers]
    BY <1>1 DEF BgTypes
  <2> QED
    BY <1>1, <1>3, <2>2, <2>3, <2>5, <2>6, <2>7, GoesOn
<1> QED
  BY <1>2, <1>3

LEMMA EditsKeep ==
    ASSUME BgInv, \/ \E e \in world.edits : EditFile(e[1], e[2], e[3])
                  \/ \E e \in world.xmlEdits : EditXml(e[1], e[2])
    PROVE  /\ BgTypes' /\ RunReads' /\ run' = Idle /\ UNCHANGED <<script, built>>
           /\ \A p \in Pkg : \A i : Stored(p, i) => Stored(p, i)'
           /\ fresh' = FALSE
<1>1. BgTypes /\ RunReads /\ world \in Worlds
  BY DEF BgInv, BgTypes
<1>2. /\ UNCHANGED <<world, gen, script, built, run, outcome>> /\ run = Idle /\ fresh' = FALSE
  BY DEF EditFile, EditXml, Changed, Output
<1>3. ASSUME NEW p \in Pkg, Found(p), NEW dir \in ShareDir,
             share' = [share EXCEPT ![Place(p)][p] = dir]
      PROVE  /\ share' \in [DOMAIN world.share -> [Pkg -> {None} \cup ShareDir]]
             /\ \A q \in Pkg : \A i : Stored(q, i) => Stored(q, i)'
  <2>1. Place(p) \in DOMAIN share
    BY <1>1, <1>3, PlaceIs DEF Stored
  <2>2. share \in [DOMAIN world.share -> [Pkg -> {None} \cup ShareDir]]
    BY <1>1 DEF BgTypes
  <2>3. PICK place \in DOMAIN world.share : place = Place(p)
    BY <2>1, <2>2
  <2>4. share' = [share EXCEPT ![place][p] = dir]
    BY <1>3, <2>3
  <2>5. share' \in [DOMAIN world.share -> [Pkg -> {None} \cup ShareDir]]
    BY <2>2, <2>4
  <2>6. \A q \in Pkg, i \in DOMAIN world.share : share'[i][q] = share[i][q] \/ share'[i][q] = dir
    BY <2>2, <2>4
  <2> QED
    BY <2>2, <2>5, <2>6 DEF Stored
<1>4. \E p \in Pkg : Found(p) /\ \E dir \in ShareDir : share' = [share EXCEPT ![Place(p)][p] = dir]
  <2>1. ASSUME NEW e \in world.edits, EditFile(e[1], e[2], e[3])
        PROVE  \E p \in Pkg : Found(p) /\ \E dir \in ShareDir :
                  share' = [share EXCEPT ![Place(p)][p] = dir]
    <3>1. e[1] \in Pkg /\ e[2] \in File /\ e[3] \in Text \cup {None} /\ Found(e[1])
      BY <1>1, <2>1, WorldIs DEF EditFile
    <3>2. At(e[1]) \in ShareDir
      BY <1>1, <3>1, PlaceIs
    <3>3. PICK dir : dir = [At(e[1]) EXCEPT !.text[e[2]] = e[3]]
      OBVIOUS
    <3>4. dir \in ShareDir
      <4>1. [At(e[1]).text EXCEPT ![e[2]] = e[3]] \in [File -> Text \cup {None}]
        BY <3>1, <3>2 DEF ShareDir
      <4> QED
        BY <3>2, <3>3, <4>1 DEF ShareDir
    <3>5. share' = [share EXCEPT ![Place(e[1])][e[1]] = dir]
      BY <2>1, <3>3 DEF EditFile, At
    <3> QED
      BY <3>1, <3>4, <3>5
  <2>2. ASSUME NEW e \in world.xmlEdits, EditXml(e[1], e[2])
        PROVE  \E p \in Pkg : Found(p) /\ \E dir \in ShareDir :
                  share' = [share EXCEPT ![Place(p)][p] = dir]
    <3>1. e[1] \in Pkg /\ e[2] \in Pkg /\ Found(e[1]) /\ At(e[1]).deps # None
      BY <1>1, <2>2, WorldIs DEF EditXml
    <3>2. At(e[1]) \in ShareDir
      BY <1>1, <3>1, PlaceIs
    <3>3. PICK deps : deps = IF e[2] \in At(e[1]).deps THEN At(e[1]).deps \ {e[2]}
                                                        ELSE At(e[1]).deps \cup {e[2]}
      OBVIOUS
    <3>4. PICK dir : dir = [At(e[1]) EXCEPT !.deps = deps]
      OBVIOUS
    <3>5. deps \in SUBSET Pkg
      BY <3>1, <3>2, <3>3 DEF ShareDir
    <3>6. dir \in ShareDir
      BY <3>2, <3>4, <3>5 DEF ShareDir
    <3>7. share' = [share EXCEPT ![Place(e[1])][e[1]] = dir]
      BY <2>2, <3>3, <3>4 DEF EditXml, At
    <3> QED
      BY <3>1, <3>6, <3>7
  <2> QED
    BY <2>1, <2>2
<1>5. /\ share' \in [DOMAIN world.share -> [Pkg -> {None} \cup ShareDir]]
      /\ \A q \in Pkg : \A i : Stored(q, i) => Stored(q, i)'
  BY <1>3, <1>4
<1>6. BgTypes'
  BY <1>1, <1>2, <1>5 DEF BgTypes
<1>7. run.phase = "idle" /\ DOMAIN run.todo = {}
  BY <1>2 DEF Idle
<1>8. RunReads'
  BY <1>2, <1>7 DEF RunReads, FileSteps
<1> QED
  BY <1>2, <1>5, <1>6, <1>8

LEMMA PartsAre == \A f \in File : Parts(f) \in SUBSET GlueParts
<1> SUFFICES ASSUME NEW f \in File PROVE Parts(f) \in SUBSET GlueParts
  OBVIOUS
<1>1. Kind[f] \in {"msg", "srv", "action"}
  BY GenerationConstants
<1>2. CASE Kind[f] = "msg"
  BY <1>2 DEF Parts, GlueParts
<1>3. CASE Kind[f] = "srv"
  BY <1>3 DEF Parts, GlueParts
<1>4. CASE Kind[f] = "action"
  BY <1>4 DEF Parts, GlueParts
<1> QED
  BY <1>1, <1>2, <1>3, <1>4

LEMMA CodegenFileWrites ==
    ASSUME BgInv, CodegenFile
    PROVE  /\ BgTypes' /\ RunReads' /\ Current \in Pkg /\ UNCHANGED <<script, world>>
           /\ run'.phase = "cmake files" /\ run'.todo = run.todo /\ run'.ask = run.ask
           /\ run.left # <<>> /\ run'.left = Tail(run.left)
           /\ \A p \in Pkg : p # Current => built'[p] = built[p]
           /\ built'[Current].umbrella = built[Current].umbrella
           /\ built'[Current].mods = built[Current].mods
           /\ built[Current].glue \subseteq built'[Current].glue
           /\ "cpp" \in world.cmake => Parts(Head(run.left)) \subseteq built'[Current].glue
           /\ built'[Current].h[Head(run.left)] # None
           /\ \A f \in File : built[Current].h[f] # None => built'[Current].h[f] # None
<1>1. /\ BgTypes /\ RunReads /\ run \in Runs /\ run.phase = "cmake files" /\ run.todo # <<>>
      /\ run.left # <<>> /\ ReadOk
  BY DEF BgInv, CodegenFile, Reading, BgTypes, RunReads, FileSteps
<1>2. PICK f \in File : f = Head(run.left)
  BY <1>1, ContentIs DEF FileSteps
<1>3. PICK t \in Text : t = Content
  BY <1>1, ContentIs DEF FileSteps
<1>4. PICK p \in Pkg : p = Current
  BY <1>1, ContentIs DEF FileSteps
<1>5. t # None
  BY <1>3, GenerationConstants
<1>6. PICK glue : glue = IF "cpp" \in world.cmake THEN built[p].glue \cup Parts(f) ELSE built[p].glue
  OBVIOUS
<1>7. /\ built \in [Pkg -> Headers] /\ built[p] \in Headers
      /\ built[p].h \in [File -> Text \cup {None}] /\ built[p].glue \subseteq GlueParts
  BY <1>1 DEF BgTypes, Headers
<1>8. glue \subseteq GlueParts /\ built[p].glue \subseteq glue
      /\ ("cpp" \in world.cmake => Parts(f) \subseteq glue)
  BY <1>6, <1>7, PartsAre
<1>9. PICK w : w = [built[p] EXCEPT !.h[f] = t, !.glue = glue]
  OBVIOUS
<1>10. built' = [built EXCEPT ![p] = w]
  <2>1. built' = [built EXCEPT ![p].h[f] = t, ![p].glue = IF "cpp" \in world.cmake THEN @ \cup Parts(f) ELSE @]
    BY <1>2, <1>3, <1>4 DEF CodegenFile
  <2> QED
    BY <2>1, <1>6, <1>7, <1>9 DEF Headers
<1>11. PICK h : h = [built[p].h EXCEPT ![f] = t]
  OBVIOUS
<1>12. h \in [File -> Text \cup {None}] /\ h[f] = t /\ \A g \in File : g # f => h[g] = built[p].h[g]
  BY <1>7, <1>11
<1>13. w = [built[p] EXCEPT !.h = h, !.glue = glue]
  BY <1>7, <1>9, <1>11 DEF Headers
<1>14. /\ w \in Headers /\ w.h = h /\ w.glue = glue /\ w.umbrella = built[p].umbrella
       /\ w.mods = built[p].mods
  BY <1>7, <1>8, <1>12, <1>13 DEF Headers
<1>15. built' \in [Pkg -> Headers] /\ built'[p] = w /\ \A q \in Pkg : q # p => built'[q] = built[q]
  BY <1>7, <1>10, <1>14
<1>16. run' = [run EXCEPT !.left = Tail(@)] /\ Tail(run.left) \in Seq(File)
  BY <1>1, ContentIs DEF CodegenFile, FileSteps
<1>17. /\ run' \in Runs /\ run'.phase = "cmake files" /\ run'.at = run.at /\ run'.todo = run.todo
       /\ run'.ask = run.ask /\ run'.left = Tail(run.left)
  BY <1>1, <1>16 DEF Runs
<1>18. UNCHANGED <<share, world, outcome, script>> /\ gen' \in [Dir -> {None} \cup Crates]
  BY <1>1 DEF CodegenFile, Keeps, BgTypes
<1>19. BgTypes' /\ RunReads'
  BY <1>1, <1>15, <1>17, <1>18, GoesOn
<1>20. \A g \in File : built[p].h[g] # None => h[g] # None
  BY <1>5, <1>12
<1> QED
  BY <1>1, <1>2, <1>4, <1>5, <1>8, <1>12, <1>14, <1>15, <1>17, <1>18, <1>19, <1>20

LEMMA CodegenUmbrellaWrites ==
    ASSUME BgInv, CodegenUmbrella
    PROVE  /\ BgTypes' /\ RunReads' /\ Current \in Pkg /\ UNCHANGED <<script, world>>
           /\ script # None /\ Current \in DOMAIN script.directs
           /\ run'.phase = "cmake" /\ run'.todo = Tail(run.todo) /\ run'.ask = run.ask
           /\ run.phase = "cmake files" /\ run.left = <<>> /\ run.todo # <<>>
           /\ \A p \in Pkg : p # Current => built'[p] = built[p]
           /\ built'[Current].umbrella # None
           /\ built'[Current].umbrella.files = script.files[Current]
           /\ built'[Current].umbrella.deps = script.directs[Current]
           /\ built'[Current].h = built[Current].h /\ built'[Current].glue = built[Current].glue
           /\ \/ built'[Current].mods = built[Current].mods
              \/ /\ "cpp" \in world.cmake
                 /\ built'[Current].mods = UNION {Parts(f) : f \in script.files[Current]}
<1>1. /\ BgTypes /\ RunReads /\ run \in Runs /\ run.phase = "cmake files" /\ run.todo # <<>>
      /\ run.left = <<>> /\ BuildGoesOn /\ ScriptOrdered
  BY DEF BgInv, CodegenUmbrella, Reading, BgTypes, RunReads, FileSteps
<1>2. PICK p \in Pkg : p = Current
  BY <1>1, AtCurrent
<1>3. script # None /\ p \in DOMAIN script.directs
  BY <1>1, <1>2, AtCurrent DEF BuildGoesOn, CMakeSteps
<1>4. script.files[p] \in SUBSET File /\ script.directs[p] \in SUBSET Pkg
  BY <1>1, <1>3 DEF ScriptOrdered
<1>5. PICK u : u = [files |-> script.files[p], deps |-> script.directs[p]]
  OBVIOUS
<1>6. u \in Umbrellas /\ u.files = script.files[p] /\ u.deps = script.directs[p] /\ u # None
  BY <1>4, <1>5, GenerationConstants DEF Umbrellas
<1>7. PICK mods : mods = IF "cpp" \in world.cmake THEN UNION {Parts(f) : f \in script.files[p]}
                          ELSE built[p].mods
  OBVIOUS
<1>8. /\ built \in [Pkg -> Headers] /\ built[p] \in Headers
      /\ built[p].mods \in {None} \cup SUBSET GlueParts
  BY <1>1 DEF BgTypes, Headers
<1>9. mods \in {None} \cup SUBSET GlueParts
  BY <1>4, <1>7, <1>8, PartsAre
<1>10. PICK w : w = [built[p] EXCEPT !.umbrella = u, !.mods = mods]
  OBVIOUS
<1>11. built' = [built EXCEPT ![p] = w]
  <2>1. built' = [built EXCEPT ![p].umbrella = u,
                    ![p].mods = IF "cpp" \in world.cmake
                                THEN UNION {Parts(f) : f \in script.files[p]} ELSE @]
    BY <1>2, <1>5 DEF CodegenUmbrella
  <2> QED
    BY <2>1, <1>7, <1>8, <1>10 DEF Headers
<1>12. /\ w \in Headers /\ w.h = built[p].h /\ w.glue = built[p].glue /\ w.umbrella = u
       /\ w.mods = mods
  BY <1>6, <1>8, <1>9, <1>10 DEF Headers
<1>13. built' \in [Pkg -> Headers] /\ built'[p] = w /\ \A q \in Pkg : q # p => built'[q] = built[q]
  BY <1>8, <1>11, <1>12
<1>14. run' = [run EXCEPT !.phase = "cmake", !.todo = Tail(@)] /\ Tail(run.todo) \in Seq(Pkg)
  BY <1>1, AtCurrent DEF CodegenUmbrella
<1>15. /\ run' \in Runs /\ run'.phase = "cmake" /\ run'.at = run.at /\ run'.todo = Tail(run.todo)
       /\ run'.ask = run.ask
  BY <1>1, <1>14 DEF Runs, CMakeSteps
<1>16. UNCHANGED <<share, world, outcome, script>> /\ gen' \in [Dir -> {None} \cup Crates]
  BY <1>1 DEF CodegenUmbrella, Keeps, BgTypes
<1>17. BgTypes' /\ RunReads'
  BY <1>1, <1>13, <1>15, <1>16, GoesOn DEF FileSteps
<1> QED
  BY <1>1, <1>2, <1>3, <1>6, <1>7, <1>12, <1>13, <1>15, <1>16, <1>17

-----------------------------------------------------------------------------
(* CMake's build goes in the script's order.                               *)

LEMMA ScriptStays ==
    ASSUME ScriptOrdered, script' = script, \A p \in Pkg : \A i : Stored(p, i) => Stored(p, i)'
    PROVE  ScriptOrdered'
<1> SUFFICES ASSUME script # None PROVE ScriptOrdered'
  BY DEF ScriptOrdered
<1>1. /\ DOMAIN script.directs \subseteq Pkg
      /\ \A p \in DOMAIN script.directs : Stored(p, script.at[p])
  BY DEF ScriptOrdered
<1>2. \A p \in DOMAIN script.directs : Stored(p, script.at[p])'
  <2> SUFFICES ASSUME NEW p \in DOMAIN script.directs PROVE Stored(p, script.at[p])'
    OBVIOUS
  <2>1. PICK i : i = script.at[p]
    OBVIOUS
  <2>2. Stored(p, i) /\ p \in Pkg
    BY <1>1, <2>1
  <2>3. Stored(p, i)'
    BY <2>2
  <2> QED
    BY <2>1, <2>3 DEF Stored
<1> QED
  BY <1>2 DEF ScriptOrdered, Ordered

LEMMA ResolveOrders ==
    ASSUME BgInv, Resolve
    PROVE  ScriptOrdered' /\ BuildGoesOn'
<1>1. BgTypes /\ BuildGoesOn /\ UNCHANGED <<share, world, built>>
  BY DEF BgInv, Resolve
<1>a. PICK I : I = InterfacePackages
  OBVIOUS
<1>b. PICK directs, files, places :
         /\ directs = Directs(I)
         /\ files = [p \in I |-> Listed(At(p))]
         /\ places = [p \in I |-> Place(p)]
  OBVIOUS
<1>2. I \in SUBSET Pkg /\ \A p \in I : Found(p)
  BY <1>a DEF InterfacePackages
<1>3. I \in SUBSET Nat /\ IsFiniteSet(I)
  BY <1>2, GenerationConstants, FS_Subset
<1>4. directs \in [I -> SUBSET I] /\ DOMAIN directs = I
  BY <1>b DEF Directs
<1>5. files \in [I -> SUBSET File]
  BY <1>b, ListedIs
<1>6. places \in [I -> Nat] /\ \A p \in I : places[p] = Place(p) /\ Stored(p, places[p])
  BY <1>1, <1>2, <1>b, PlaceIs
<1>7. PICK order \in Orders(directs) :
         script' = [order |-> order, directs |-> directs, files |-> files, at |-> places]
  BY <1>a, <1>b DEF Resolve
<1>8. order \in Seq(I) /\ Ordered(order, directs, {})
  BY <1>3, <1>4, <1>7, OrdersInOrder
<1>9. \A p \in I : Stored(p, places[p])'
  <2> SUFFICES ASSUME NEW p \in I PROVE Stored(p, places[p])'
    OBVIOUS
  <2>1. PICK i : i = places[p]
    OBVIOUS
  <2>2. Stored(p, i)
    BY <1>6, <2>1
  <2>3. i \in DOMAIN share /\ share[i][p] \in ShareDir
    BY <2>2 DEF Stored
  <2> QED
    BY <1>1, <1>7, <2>1, <2>3 DEF Stored
<1>10. /\ script'.order = order /\ script'.directs = directs /\ script'.files = files
       /\ script'.at = places
  BY <1>7
<1>11. ScriptOrdered'
  BY <1>2, <1>4, <1>5, <1>6, <1>8, <1>9, <1>10 DEF ScriptOrdered, Ordered
<1>12. run' = Idle
  BY DEF Resolve
<1>13. BuildGoesOn'
  BY <1>1, <1>12 DEF BuildGoesOn, Idle, CMakeSteps
<1> QED
  BY <1>11, <1>13

\* Other steps leave CMake's build alone.
LEMMA BuildStays ==
    ASSUME BuildGoesOn, built' = built, run'.phase \notin CMakeSteps
    PROVE  BuildGoesOn'
BY DEF BuildGoesOn, CMakeSteps

LEMMA BuildBegins ==
    ASSUME BgInv, Build
    PROVE  BuildGoesOn'
<1>1. /\ BuildGoesOn /\ ScriptOrdered /\ script # None /\ UNCHANGED <<built, script, world>>
      /\ run'.phase = "cmake" /\ run'.todo = script.order
  BY CMakeBegins DEF BgInv, Build, Output
<1>2. script.order \in Seq(DOMAIN script.directs) /\ Ordered(script.order, script.directs, {})
  BY <1>1 DEF ScriptOrdered
<1>3. ToSet(script.order) \subseteq DOMAIN script.directs
  BY <1>2, InSeq
<1>4. Ordered(script.order, script.directs, Umbrellaed)
  BY <1>2 DEF Ordered
<1>5. /\ script' # None /\ ToSet(run'.todo) \subseteq DOMAIN script'.directs
      /\ Ordered(run'.todo, script'.directs, Umbrellaed')
  BY <1>1, <1>3, <1>4 DEF Umbrellaed
<1> QED
  BY <1>1, <1>5 DEF BuildGoesOn, CMakeSteps, Ordered

LEMMA PackageGoesOn ==
    ASSUME BgInv, CodegenPackage
    PROVE  BuildGoesOn'
<1>1. BuildGoesOn /\ UNCHANGED <<built, script, world>> /\ run.phase = "cmake"
  BY DEF BgInv, CodegenPackage, Output, Keeps
<1>2. CASE run' = Idle
  BY <1>1, <1>2, BuildStays DEF Idle, CMakeSteps
<1>3. CASE /\ run'.phase = "cmake files" /\ run'.todo = run.todo
           /\ run'.left = Sorted(script.files[Current])
           /\ script.files[Current] \in SUBSET File
  <2>1. ToSet(run'.left) = script.files[Current] /\ Current' = Current
    BY <1>3, SortedFiles DEF Current
  <2>2. \A f \in script'.files[Current'] \ ToSet(run'.left) : FALSE
    BY <1>1, <2>1
  <2>3. /\ script # None /\ ToSet(run.todo) \subseteq DOMAIN script.directs
        /\ Ordered(run.todo, script.directs, Umbrellaed)
    BY <1>1 DEF BuildGoesOn, CMakeSteps
  <2>4. /\ script' # None /\ ToSet(run'.todo) \subseteq DOMAIN script'.directs
        /\ Ordered(run'.todo, script'.directs, Umbrellaed')
    BY <1>1, <1>3, <2>3 DEF Umbrellaed
  <2> QED
    BY <1>1, <1>3, <2>2, <2>4 DEF BuildGoesOn, CMakeSteps, Ordered
<1> QED
  BY <1>2, <1>3, CodegenPackageIs

LEMMA FileGoesOn ==
    ASSUME BgInv, CodegenFile
    PROVE  BuildGoesOn'
<1>1. BgTypes /\ BuildGoesOn /\ ScriptOrdered /\ run.phase = "cmake files" /\ run.todo # <<>> /\ run \in Runs
  BY DEF BgInv, CodegenFile, Reading, RunReads, FileSteps, BgTypes
<1>2. PICK p \in Pkg : p = Current
  BY CodegenFileWrites
<1>3. /\ UNCHANGED <<script, world>>
      /\ run'.phase = "cmake files" /\ run'.todo = run.todo
      /\ run.left # <<>> /\ run'.left = Tail(run.left)
      /\ \A q \in Pkg : q # p => built'[q] = built[q]
      /\ built'[p].umbrella = built[p].umbrella /\ built'[p].mods = built[p].mods
      /\ built[p].glue \subseteq built'[p].glue
      /\ "cpp" \in world.cmake => Parts(Head(run.left)) \subseteq built'[p].glue
      /\ built'[p].h[Head(run.left)] # None
      /\ \A f \in File : built[p].h[f] # None => built'[p].h[f] # None
  BY <1>2, CodegenFileWrites
<1>4. \A q \in Pkg : built'[q].umbrella = built[q].umbrella /\ built'[q].mods = built[q].mods
  BY <1>3
<1>5. /\ \A q \in Pkg, f \in File : built[q].h[f] # None => built'[q].h[f] # None
      /\ \A q \in Pkg : built[q].glue \subseteq built'[q].glue
  BY <1>3
<1>6. Umbrellaed' = Umbrellaed /\ Current' = p
  BY <1>2, <1>3, <1>4 DEF Umbrellaed, Current
<1>7. ASSUME NEW q \in Pkg
      PROVE  /\ built'[q].umbrella # None =>
                   /\ \A d \in built'[q].umbrella.deps : built'[d].umbrella # None
                   /\ \A f \in built'[q].umbrella.files : built'[q].h[f] # None
             /\ built'[q].mods # None => built'[q].mods \subseteq built'[q].glue
  <2>1. built[q].umbrella \in {None} \cup Umbrellas
    BY <1>1 DEF BgTypes, Headers
  <2>2. built[q].umbrella # None => built[q].umbrella.deps \subseteq Pkg /\ built[q].umbrella.files \subseteq File
    BY <2>1 DEF Umbrellas
  <2>3. /\ built[q].umbrella # None =>
              /\ \A d \in built[q].umbrella.deps : built[d].umbrella # None
              /\ \A f \in built[q].umbrella.files : built[q].h[f] # None
        /\ built[q].mods # None => built[q].mods \subseteq built[q].glue
    BY <1>1 DEF BuildGoesOn
  <2> QED
    BY <1>4, <1>5, <2>2, <2>3
<1>8. ASSUME NEW f \in script.files[p] \ ToSet(Tail(run.left))
      PROVE  built'[p].h[f] # None /\ ("cpp" \in world.cmake => Parts(f) \subseteq built'[p].glue)
  <2>1. CASE f = Head(run.left)
    BY <1>3, <2>1
  <2>2. CASE f # Head(run.left)
    <3>1. f \notin ToSet(run.left)
      <4>1. run.left \in Seq(File)
        BY <1>1 DEF Runs
      <4>2. \A i \in DOMAIN run.left : run.left[i] = Head(run.left) \/ run.left[i] \in ToSet(Tail(run.left))
        BY <4>1, <1>3, HeadOrTail
      <4> QED
        BY <1>8, <2>2, <4>2 DEF ToSet
    <3>2. /\ built[p].h[f] # None
          /\ "cpp" \in world.cmake => Parts(f) \subseteq built[p].glue
      BY <1>1, <1>2, <1>8, <3>1 DEF BuildGoesOn
    <3>3. f \in File
      <4>1. p \in DOMAIN script.directs /\ script # None
        BY <1>1, <1>2, AtCurrent DEF BgInv, BuildGoesOn, CMakeSteps
      <4>2. script.files[p] \in SUBSET File
        BY <1>1, <4>1 DEF ScriptOrdered
      <4> QED
        BY <1>8, <4>2
    <3> QED
      BY <1>5, <3>2, <3>3
  <2> QED
    BY <2>1, <2>2
<1>9. /\ script # None /\ ToSet(run.todo) \subseteq DOMAIN script.directs
      /\ Ordered(run.todo, script.directs, Umbrellaed)
  BY <1>1 DEF BuildGoesOn, CMakeSteps
<1>10. Ordered(run'.todo, script'.directs, Umbrellaed')
  BY <1>3, <1>6, <1>9
<1> QED
  BY <1>3, <1>6, <1>7, <1>8, <1>9, <1>10 DEF BuildGoesOn, CMakeSteps, Ordered

LEMMA UmbrellaGoesOn ==
    ASSUME BgInv, CodegenUmbrella
    PROVE  BuildGoesOn'
<1>1. BgTypes /\ RunReads /\ BuildGoesOn /\ ScriptOrdered
  BY DEF BgInv
<1>2. PICK p \in Pkg : p = Current
  BY CodegenUmbrellaWrites
<1>3. /\ UNCHANGED <<script, world>> /\ script # None /\ p \in DOMAIN script.directs
      /\ run'.phase = "cmake" /\ run'.todo = Tail(run.todo)
      /\ run.phase = "cmake files" /\ run.left = <<>> /\ run.todo # <<>>
      /\ \A q \in Pkg : q # p => built'[q] = built[q]
      /\ built'[p].umbrella # None
      /\ built'[p].umbrella.files = script.files[p] /\ built'[p].umbrella.deps = script.directs[p]
      /\ built'[p].h = built[p].h /\ built'[p].glue = built[p].glue
      /\ \/ built'[p].mods = built[p].mods
         \/ /\ "cpp" \in world.cmake
            /\ built'[p].mods = UNION {Parts(f) : f \in script.files[p]}
  BY <1>2, CodegenUmbrellaWrites
<1>4. /\ ToSet(run.todo) \subseteq DOMAIN script.directs
      /\ Ordered(run.todo, script.directs, Umbrellaed)
      /\ \A f \in script.files[p] \ ToSet(run.left) :
            /\ built[p].h[f] # None
            /\ "cpp" \in world.cmake => Parts(f) \subseteq built[p].glue
  BY <1>1, <1>2, <1>3 DEF BuildGoesOn, CMakeSteps
<1>5. ToSet(run.left) = {}
  <2>1. run.left = <<>>
    BY <1>3
  <2>2. DOMAIN run.left = {}
    BY <2>1
  <2> QED
    BY <2>2 DEF ToSet
<1>6. \A f \in script.files[p] : /\ built'[p].h[f] # None
                                 /\ "cpp" \in world.cmake => Parts(f) \subseteq built'[p].glue
  BY <1>3, <1>4, <1>5
<1>7. \A q \in Pkg : built[q].umbrella # None => built'[q].umbrella # None
  BY <1>3
<1>8. Current = run.todo[1] /\ run.todo \in Seq(Pkg) /\ 1 \in DOMAIN run.todo
  BY <1>1, <1>3, AtCurrent, TailOf DEF BgTypes, Runs
<1>9. \A d \in script.directs[p] : built[d].umbrella # None
  <2> SUFFICES ASSUME NEW d \in script.directs[p] PROVE built[d].umbrella # None
    OBVIOUS
  <2>1. d \in Umbrellaed \/ \E j \in 1..(1 - 1) : run.todo[j] = d
    BY <1>2, <1>4, <1>8 DEF Ordered
  <2> QED
    BY <2>1 DEF Umbrellaed
<1>10. ASSUME NEW q \in Pkg
       PROVE  /\ built'[q].umbrella # None =>
                    /\ \A d \in built'[q].umbrella.deps : built'[d].umbrella # None
                    /\ \A f \in built'[q].umbrella.files : built'[q].h[f] # None
              /\ built'[q].mods # None => built'[q].mods \subseteq built'[q].glue
  <2>1. CASE q = p
    <3>1. script.directs[p] \subseteq Pkg
      BY <1>1, <1>3 DEF ScriptOrdered
    <3>2. built[p].mods # None => built[p].mods \subseteq built[p].glue
      BY <1>1 DEF BuildGoesOn
    <3>3. \A d \in script.directs[p] : built'[d].umbrella # None
      BY <1>7, <1>9, <1>3, <3>1
    <3>4. built'[p].mods # None => built'[p].mods \subseteq built'[p].glue
      <4>1. CASE built'[p].mods = built[p].mods
        BY <1>3, <3>2, <4>1
      <4>2. CASE /\ "cpp" \in world.cmake
                 /\ built'[p].mods = UNION {Parts(f) : f \in script.files[p]}
        BY <1>6, <4>2
      <4> QED
        BY <1>3, <4>1, <4>2
    <3> QED
      BY <1>3, <1>6, <2>1, <3>3, <3>4
  <2>2. CASE q # p
    <3>1. built[q].umbrella \in {None} \cup Umbrellas
      BY <1>1 DEF BgTypes, Headers
    <3>2. built[q].umbrella # None => built[q].umbrella.deps \subseteq Pkg
      BY <3>1 DEF Umbrellas
    <3>3. /\ built[q].umbrella # None =>
                /\ \A d \in built[q].umbrella.deps : built[d].umbrella # None
                /\ \A f \in built[q].umbrella.files : built[q].h[f] # None
          /\ built[q].mods # None => built[q].mods \subseteq built[q].glue
      BY <1>1 DEF BuildGoesOn
    <3> QED
      BY <1>3, <1>7, <2>2, <3>2, <3>3
  <2> QED
    BY <2>1, <2>2
<1>11. p \in Umbrellaed' /\ Umbrellaed \subseteq Umbrellaed'
  BY <1>3, <1>7 DEF Umbrellaed
<1>12. PICK queue \in Seq(Pkg) : queue = run.todo
  BY <1>8
<1>13. /\ \A i \in DOMAIN Tail(queue) : i + 1 \in DOMAIN queue /\ Tail(queue)[i] = queue[i + 1]
       /\ \A i \in DOMAIN queue : i # 1 => i - 1 \in DOMAIN Tail(queue) /\ Tail(queue)[i - 1] = queue[i]
       /\ DOMAIN Tail(queue) \subseteq Nat
  <2>1. /\ Tail(queue) \in Seq(Pkg)
        /\ \A i \in DOMAIN Tail(queue) : i + 1 \in DOMAIN queue /\ Tail(queue)[i] = queue[i + 1]
        /\ \A i \in DOMAIN queue : i # 1 => i - 1 \in DOMAIN Tail(queue) /\ Tail(queue)[i - 1] = queue[i]
    <3>1. run.todo # <<>>
      BY <1>3
    <3>2. queue # <<>>
      BY <1>12, <3>1
    <3> QED
      BY <3>2, TailOf
  <2>2. DOMAIN Tail(queue) = 1..Len(Tail(queue))
    BY <2>1, InSeq
  <2> QED
    BY <2>1, <2>2
<1>14. Ordered(Tail(queue), script.directs, Umbrellaed')
  <2> SUFFICES ASSUME NEW i \in DOMAIN Tail(queue), NEW d \in script.directs[Tail(queue)[i]]
               PROVE  d \in Umbrellaed' \/ \E j \in 1..(i - 1) : Tail(queue)[j] = d
    BY DEF Ordered
  <2>1. i \in Nat /\ i + 1 \in DOMAIN queue /\ Tail(queue)[i] = queue[i + 1]
    BY <1>13
  <2>2. d \in Umbrellaed \/ \E j \in 1..((i + 1) - 1) : queue[j] = d
    BY <1>4, <1>12, <2>1 DEF Ordered
  <2>3. ASSUME NEW j \in 1..((i + 1) - 1), queue[j] = d
        PROVE  d \in Umbrellaed' \/ \E k \in 1..(i - 1) : Tail(queue)[k] = d
    <3>1. CASE j = 1
      BY <1>2, <1>8, <1>11, <1>12, <2>3, <3>1
    <3>2. CASE j # 1
      <4>1. j \in DOMAIN queue
        BY <2>1, <1>12
      <4>2. j - 1 \in DOMAIN Tail(queue) /\ Tail(queue)[j - 1] = d
        BY <1>13, <2>3, <3>2, <4>1
      <4>3. j - 1 \in 1..(i - 1)
        BY <2>1, <3>2
      <4> QED
        BY <4>2, <4>3
    <3> QED
      BY <3>1, <3>2
  <2> QED
    BY <1>11, <2>2, <2>3
<1>15. ToSet(Tail(run.todo)) \subseteq DOMAIN script.directs
  BY <1>1, <1>3, <1>4, AtCurrent
<1>16. Ordered(run'.todo, script'.directs, Umbrellaed')
  BY <1>3, <1>12, <1>14
<1> QED
  BY <1>3, <1>10, <1>15, <1>16 DEF BuildGoesOn, CMakeSteps, Ordered

-----------------------------------------------------------------------------
(* What nros generate keeps from step to step.                             *)

Going ==
    /\ run'.ask = run.ask /\ run'.langs = run.langs /\ run'.iface = run.iface
    /\ run'.at = run.at /\ run'.anew = run.anew
    /\ UNCHANGED <<share, world, fresh, outcome, script, built>>

\* A run goes on within its language, with the packages it has not done.
WithinSteps(steps) ==
    /\ Going /\ run.phase \in steps /\ run'.phase \in steps \cup {"end"}
    /\ run'.todo = run.todo \/ (run.todo # <<>> /\ run'.todo = Tail(run.todo))

LEMMA RustGoes ==
    ASSUME BgInv, \/ OpenCrate \/ RustFile \/ RustModules \/ CargoToml \/ RustDone \/ WriteConfig
                  \/ \E old \in DOMAIN world.renames : RenameDir(old) \/ FixCrate(old)
    PROVE  WithinSteps(Steps) /\ run'.listed = run.listed
<1>1. run \in Runs /\ BgTypes /\ RunReads
  BY DEF BgInv, BgTypes
<1> USE DEF WithinSteps, Going, Keeps, NoBuild, Output, Steps, RustSteps
<1>2. CASE OpenCrate
  <2>1. /\ run.phase = "rust"
        /\ \E left, deps : run' = [run EXCEPT !.phase = "rs files", !.left = left, !.deps = deps]
        /\ UNCHANGED <<share, world, fresh, outcome, script, built>>
    BY <1>2 DEF OpenCrate
  <2> QED
    BY <1>1, <2>1 DEF Runs
<1>3. CASE RustFile
  <2>1. /\ run.phase = "rs files"
        /\ \E deps : run' = [run EXCEPT !.left = Tail(@), !.deps = deps]
        /\ UNCHANGED <<share, world, fresh, outcome, script, built>>
    BY <1>3 DEF RustFile, Reading
  <2> QED
    BY <1>1, <2>1 DEF Runs
<1>4. CASE RustModules
  <2>1. /\ run.phase = "rs files" /\ run' = [run EXCEPT !.phase = "rs cargo"]
        /\ UNCHANGED <<share, world, fresh, outcome, script, built>>
    BY <1>4 DEF RustModules
  <2> QED
    BY <1>1, <2>1 DEF Runs
<1>5. CASE CargoToml
  <2>1. /\ run.phase = "rs cargo" /\ run' = [run EXCEPT !.phase = "rust", !.todo = Tail(@), !.deps = {}]
        /\ UNCHANGED <<share, world, fresh, outcome, script, built>>
    BY <1>5 DEF CargoToml
  <2>2. run.todo # <<>>
    BY <1>1, <2>1 DEF RunReads
  <2> QED
    BY <1>1, <2>1, <2>2 DEF Runs
<1>6. CASE RustDone
  <2>1. /\ run.phase = "rust"
        /\ \E olds, phase : /\ run' = [run EXCEPT !.olds = olds, !.phase = phase]
                            /\ phase \in {"rename", "config", "end"}
        /\ UNCHANGED <<share, world, fresh, outcome, script, built>>
    BY <1>6 DEF RustDone
  <2> QED
    BY <1>1, <2>1 DEF Runs
<1>7. CASE WriteConfig
  <2>1. /\ run.phase = "config" /\ run' = [run EXCEPT !.phase = "end"]
        /\ UNCHANGED <<share, world, fresh, outcome, script, built>>
    BY <1>7 DEF WriteConfig
  <2> QED
    BY <1>1, <2>1 DEF Runs
<1>8. ASSUME NEW old, RenameDir(old) PROVE WithinSteps(Steps) /\ run'.listed = run.listed
  <2>1. /\ run.phase = "rename"
        /\ \E olds, phase : /\ run' = [run EXCEPT !.olds = olds, !.phase = phase]
                            /\ phase \in {"rename", "fix"}
        /\ UNCHANGED <<share, world, fresh, outcome, script, built>>
    BY <1>8 DEF RenameDir
  <2> QED
    BY <1>1, <2>1 DEF Runs
<1>9. ASSUME NEW old, FixCrate(old) PROVE WithinSteps(Steps) /\ run'.listed = run.listed
  <2>1. /\ run.phase = "fix"
        /\ \E olds, phase : /\ run' = [run EXCEPT !.olds = olds, !.phase = phase]
                            /\ phase \in {"fix", "config", "end"}
        /\ UNCHANGED <<share, world, fresh, outcome, script, built>>
    BY <1>9 DEF FixCrate
  <2> QED
    BY <1>1, <2>1 DEF Runs
<1> QED
  BY <1>2, <1>3, <1>4, <1>5, <1>6, <1>7, <1>8, <1>9

\* Where the index puts the files of a package of this run.
LEMMA AsIndexed ==
    ASSUME BgInv, Generating, NEW p, p \in run.iface
    PROVE  /\ p \in Pkg /\ Found(p) /\ run.at[p] = Place(p) /\ run.listed[p] = FilesOf(p)
           /\ share[run.at[p]][p] = At(p) /\ FilesOf(p) \in SUBSET File
           /\ Listed(share[run.at[p]][p]) = FilesOf(p)
<1>1. run.iface = InterfacePackages /\ run.at[p] = Place(p) /\ run.listed[p] = FilesOf(p)
  BY DEF BgInv, AsLoaded
<1>2. p \in Pkg /\ Found(p)
  BY <1>1 DEF InterfacePackages
<1> QED
  BY <1>1, <1>2, ListedIs DEF At, FilesOf

LEMMA CGoes ==
    ASSUME BgInv, OpenHeaders \/ HeaderFile \/ Umbrella
    PROVE  /\ WithinSteps(CSteps)
           /\ Generating => \A p \in run.iface : run'.listed[p] = run.listed[p]
<1>1. run \in Runs /\ BgTypes /\ RunReads
  BY DEF BgInv, BgTypes
<1> USE DEF WithinSteps, Going, Keeps, NoBuild, CSteps
<1>2. CASE HeaderFile
  <2>1. /\ run.phase = "c files" /\ run' = [run EXCEPT !.left = Tail(@)]
        /\ UNCHANGED <<share, world, fresh, outcome, script, built>>
    BY <1>2 DEF HeaderFile, Reading
  <2> QED
    BY <1>1, <2>1 DEF Runs
<1>3. CASE Umbrella
  <2>1. /\ run.phase = "c files" /\ run' = [run EXCEPT !.phase = "c", !.todo = Tail(@)]
        /\ UNCHANGED <<share, world, fresh, outcome, script, built>>
    BY <1>3 DEF Umbrella
  <2>2. run.todo # <<>>
    BY <1>1, <2>1 DEF RunReads, FileSteps
  <2> QED
    BY <1>1, <2>1, <2>2 DEF Runs
<1>4. CASE OpenHeaders
  <2>0. run.phase = "c" /\ UNCHANGED <<share, world, fresh, outcome, script, built>>
    BY <1>4 DEF OpenHeaders
  <2>1. CASE run' = [run EXCEPT !.phase = "end"]
    BY <1>1, <2>0, <2>1 DEF Runs
  <2>2. CASE run.todo # <<>> /\ run' = [run EXCEPT !.todo = Tail(@)]
    BY <1>1, <2>0, <2>2 DEF Runs
  <2>3. ASSUME run.todo # <<>>, NEW files, files = Listed(share[run.at[Current]][Current]),
               run' = [run EXCEPT !.phase = "c files", !.left = Sorted(files), !.listed[Current] = files]
        PROVE  /\ WithinSteps(CSteps)
               /\ Generating => \A p \in run.iface : run'.listed[p] = run.listed[p]
    <3>1. run.listed \in [Pkg -> SUBSET File]
      BY <1>1 DEF Runs
    <3>2. run'.listed = [run.listed EXCEPT ![Current] = files]
      BY <1>1, <2>3 DEF Runs
    <3>3. ASSUME Generating, NEW p \in run.iface PROVE run'.listed[p] = run.listed[p]
      <4>1. p \in Pkg /\ run.listed[p] = FilesOf(p) /\ Listed(share[run.at[p]][p]) = FilesOf(p)
        BY <3>3, AsIndexed
      <4> QED
        BY <2>3, <3>1, <3>2, <4>1
    <3>4. WithinSteps(CSteps)
      BY <1>1, <2>0, <2>3 DEF Runs
    <3> QED
      BY <3>3, <3>4
  <2> QED
    BY <1>1, <1>4, <2>1, <2>2, <2>3, OpenHeadersIs
<1> QED
  BY <1>2, <1>3, <1>4

\* Without nros generate there is nothing to keep.
LEMMA NotGenerating ==
    ASSUME run'.ask = NoAsk, outcome'.result # "ok" \/ outcome'.ask = NoAsk \/ fresh' = FALSE
    PROVE  AsLoaded' /\ CratesSoFar' /\ HeadersSoFar' /\ RustIsCurrent' /\ HeadersAreCurrent'
<1>1. NoAsk.langs = <<>> /\ ToSet(<<>>) = {}
  BY DEF NoAsk, ToSet
<1>2. RustIsCurrent' /\ HeadersAreCurrent'
  BY <1>1 DEF RustIsCurrent, HeadersAreCurrent, Did
<1> QED
  BY <1>2 DEF AsLoaded, CratesSoFar, HeadersSoFar, Generating

LEMMA LoadedStays ==
    ASSUME BgInv, Generating, WithinSteps(Steps) \/ WithinSteps(CSteps),
           \A p \in run.iface : run'.listed[p] = run.listed[p]
    PROVE  AsLoaded' /\ RustIsCurrent' /\ HeadersAreCurrent'
<1>1. /\ BgTypes /\ RunReads /\ fresh /\ run.ask \in Ask /\ run.iface = InterfacePackages
      /\ \A p \in run.iface : run.at[p] = Place(p) /\ run.listed[p] = FilesOf(p)
      /\ run.langs = run.ask.langs \/ (run.ask.langs = <<"rust", "c">> /\ run.langs = <<"c">>)
      /\ run.phase \in Steps => Head(run.langs) = "rust"
      /\ run.phase \in CSteps => Head(run.langs) = "c"
      /\ ToSet(run.todo) \subseteq run.iface
  BY DEF BgInv, AsLoaded
<1>2. Going /\ run.phase # "idle"
  BY DEF WithinSteps, Steps, RustSteps, CSteps
<1>3. ToSet(run'.todo) \subseteq ToSet(run.todo)
  <2>1. CASE run.todo # <<>> /\ run'.todo = Tail(run.todo)
    BY <1>1, <2>1, AtCurrent
  <2> QED
    BY <2>1 DEF WithinSteps
<1>4. /\ run'.phase \in Steps \cup CSteps \cup {"end"}
      /\ run'.phase \in Steps => Head(run'.langs) = "rust"
      /\ run'.phase \in CSteps => Head(run'.langs) = "c"
  BY <1>1, <1>2 DEF WithinSteps, Going, Steps, RustSteps, CSteps
<1>5. InterfacePackages' = InterfacePackages /\ \A p : Place(p)' = Place(p) /\ FilesOf(p)' = FilesOf(p)
  BY <1>2, IndexStays DEF Going
<1>6. \A p \in run'.iface : run'.at[p] = Place(p)' /\ run'.listed[p] = FilesOf(p)'
  BY <1>1, <1>2, <1>5 DEF Going
<1>7. AsLoaded'
  BY <1>1, <1>2, <1>3, <1>4, <1>5, <1>6 DEF AsLoaded, Going
<1>8. outcome'.result # "ok"
  <2>1. outcome' = NoOutcome
    BY <1>1, <1>2 DEF RunReads, Going
  <2> QED
    BY <2>1 DEF NoOutcome
<1> QED
  BY <1>7, <1>8 DEF RustIsCurrent, HeadersAreCurrent, Did

\* No step of nros generate touches CMake's build.
LEMMA BuildUntouched ==
    ASSUME BgInv, UNCHANGED <<share, world, script, built>>, run'.phase \notin CMakeSteps
    PROVE  ScriptOrdered' /\ BuildGoesOn'
<1>1. \A p \in Pkg : \A i : Stored(p, i) => Stored(p, i)'
  BY IndexStays
<1>2. ScriptOrdered'
  BY <1>1, ScriptStays DEF BgInv
<1>3. BuildGoesOn'
  BY BuildStays DEF BgInv
<1> QED
  BY <1>2, <1>3

-----------------------------------------------------------------------------
(* The crates made so far.                                                 *)

RustFirst == Generating /\ Head(run.ask.langs) = "rust"

LEMMA MadeStays ==
    ASSUME NEW p, NEW d, Made(p, d), UNCHANGED <<share, world>>,
           gen'[d] \in Crates, gen'[d].mods = gen[d].mods, gen'[d].rs = gen[d].rs
    PROVE  Made(p, d)'
<1>1. FilesOf(p)' = FilesOf(p) /\ At(p)' = At(p)
  BY IndexStays
<1> QED
  BY <1>1 DEF Made

\* While one crate is written the others are left alone.
LEMMA OthersMade ==
    ASSUME BgInv, RustFirst, WithinSteps(Steps), run.phase \in RustSteps, run'.phase \in RustSteps,
           run.todo # <<>>, NEW c, Wrote(Current, c)
    PROVE  /\ Current \in run.iface
           /\ \A p \in run.iface \ ToSet(run.todo) : Made(p, p)'
           /\ Crated' = run.iface \ ToSet(run'.todo)
           /\ \A p : InPlace(p)' = p
<1>1. BgTypes /\ RunReads /\ AsLoaded /\ CratesSoFar /\ Generating /\ Going
  BY DEF BgInv, RustFirst, WithinSteps
<1>2. PICK q \in Pkg : q = Current
  BY <1>1, AtCurrent
<1>3. q \in ToSet(run.todo) /\ q \in run.iface
  BY <1>1, <1>2, AtCurrent DEF AsLoaded
<1>4. q \in Dir /\ Wrote(q, c)
  BY <1>2 DEF Dir
<1>5. \A d : d # q => gen'[d] = gen[d]
  BY <1>1, <1>4, WroteIs
<1>6. ASSUME NEW p \in run.iface \ ToSet(run.todo) PROVE Made(p, p)'
  <2>1. p # q
    BY <1>3
  <2>2. Made(p, p)
    BY <1>1 DEF CratesSoFar, RustFirst, Crated, InPlace
  <2>3. gen'[p] = gen[p]
    BY <1>5, <2>1
  <2>4. gen[p] \in Crates
    BY <2>2 DEF Made
  <2> QED
    BY <1>1, <2>2, <2>3, <2>4, MadeStays DEF Going
<1>7. Crated' = run.iface \ ToSet(run'.todo) /\ \A p : InPlace(p)' = p
  BY <1>1 DEF Crated, InPlace, Going
<1> QED
  BY <1>2, <1>3, <1>6, <1>7

LEMMA OpenCrateMakes ==
    ASSUME BgInv, RustFirst, OpenCrate
    PROVE  CratesSoFar'
<1>1. /\ BgTypes /\ RunReads /\ WithinSteps(Steps) /\ run.phase = "rust" /\ run \in Runs
  BY RustGoes DEF BgInv, OpenCrate, BgTypes
<1>2. PICK c : Wrote(Current, c) /\ run.todo # <<>>
  BY <1>1, OpenCrateWrites
<1>3. PICK q \in Pkg : q = Current
  BY <1>1, <1>2, AtCurrent
<1>4. /\ run'.phase = "rs files" /\ run'.left = Sorted(run.listed[q]) /\ run'.todo = run.todo
  <2>1. \E deps : run' = [run EXCEPT !.phase = "rs files", !.left = Sorted(run.listed[q]), !.deps = deps]
    BY <1>3 DEF OpenCrate
  <2> QED
    BY <1>1, <2>1 DEF Runs
<1>5. /\ q \in run.iface
      /\ \A p \in run.iface \ ToSet(run.todo) : Made(p, p)'
      /\ Crated' = run.iface \ ToSet(run'.todo)
      /\ \A p : InPlace(p)' = p
  BY <1>1, <1>2, <1>3, <1>4, OthersMade DEF RustSteps
<1>6. run.listed[q] = FilesOf(q) /\ FilesOf(q) \in SUBSET File
  BY <1>5, AsIndexed DEF RustFirst
<1>7. ToSet(run'.left) = FilesOf(q)
  BY <1>4, <1>6, SortedFiles
<1>8. FilesOf(q)' = FilesOf(q) /\ Current' = q
  BY <1>1, <1>3, <1>4, IndexStays DEF WithinSteps, Going, Current
<1>9. \A p \in Crated' : Made(p, InPlace(p))'
  <2>1. \A p \in Crated' : Made(p, p)'
    BY <1>4, <1>5
  <2> QED
    BY <2>1, <1>5 DEF Made
<1>10. FilesOf(Current)' \ ToSet(run'.left) = {}
  BY <1>7, <1>8
<1> QED
  BY <1>4, <1>9, <1>10 DEF CratesSoFar

\* Of the files read, all but those left are in the crate.
LEMMA ReadSoFar ==
    ASSUME NEW files, NEW left \in Seq(File), left # <<>>, NEW f \in files \ ToSet(Tail(left)), f # Head(left)
    PROVE  f \in files \ ToSet(left)
<1>1. \A i \in DOMAIN left : left[i] = Head(left) \/ left[i] \in ToSet(Tail(left))
  BY HeadOrTail
<1> QED
  BY <1>1 DEF ToSet

LEMMA RustFileMakes ==
    ASSUME BgInv, RustFirst, RustFile
    PROVE  CratesSoFar'
<1>1. /\ BgTypes /\ RunReads /\ WithinSteps(Steps) /\ run.phase = "rs files" /\ run \in Runs
      /\ run.todo # <<>> /\ run.left # <<>> /\ CratesSoFar
  BY RustGoes DEF BgInv, RustFile, Reading, BgTypes, RunReads, FileSteps
<1>2. PICK q \in Pkg : q = Current
  BY <1>1, AtCurrent
<1>3. PICK h \in File : h = Head(run.left)
  BY <1>1, RustFileWrites
<1>4. PICK t \in Text : t = Content
  BY <1>1, RustFileWrites
<1>5. PICK m \in Modules : m = RustOf(q, h, t)
  BY <1>1, <1>2, <1>3, <1>4, RustFileWrites
<1>6. PICK c : /\ Wrote(q, c) /\ c.mods = gen[q].mods /\ c.rs = [gen[q].rs EXCEPT ![h] = m]
  BY <1>1, <1>2, <1>3, <1>4, <1>5, RustFileWrites
<1>7. PICK left \in Seq(File) : left = run.left
  BY <1>1 DEF Runs
<1>8. run'.phase = "rs files" /\ run'.todo = run.todo /\ run'.left = Tail(left)
  <2>1. \E deps : run' = [run EXCEPT !.left = Tail(@), !.deps = deps]
    BY DEF RustFile
  <2> QED
    BY <1>1, <1>7, <2>1 DEF Runs
<1>9. /\ q \in run.iface
      /\ \A p \in run.iface \ ToSet(run.todo) : Made(p, p)'
      /\ Crated' = run.iface \ ToSet(run'.todo)
      /\ \A p : InPlace(p)' = p
  BY <1>1, <1>2, <1>6, <1>8, OthersMade DEF RustSteps
<1>10. /\ share[run.at[q]][q] = At(q) /\ FilesOf(q) \in SUBSET File
  BY <1>9, AsIndexed DEF RustFirst
<1>11. FilesOf(q)' = FilesOf(q) /\ At(q)' = At(q) /\ Current' = q
  BY <1>1, <1>2, <1>8, IndexStays DEF WithinSteps, Going, Current
<1>12. m.text = At(q).text[h]
  BY <1>2, <1>3, <1>4, <1>5, <1>10 DEF RustOf, Content
<1>13. gen'[q] = c /\ gen[q] \in Crates /\ gen[q].rs \in [File -> {None} \cup Modules]
  BY <1>1, <1>2, <1>6, WroteIs DEF RunReads, Dir, Crates
<1>14. ASSUME NEW f \in FilesOf(q) \ ToSet(Tail(left))
       PROVE  gen'[q].rs[f] \in Modules /\ gen'[q].rs[f].text = At(q).text[f]
  <2>1. CASE f = h
    BY <1>6, <1>12, <1>13, <2>1
  <2>2. CASE f # h
    <3>1. f \in FilesOf(q) \ ToSet(left)
      <4>1. left # <<>> /\ h = Head(left)
        BY <1>1, <1>3, <1>7
      <4> QED
        BY <2>2, <4>1, ReadSoFar
    <3>2. gen[q].rs[f] \in Modules /\ gen[q].rs[f].text = At(q).text[f]
      BY <1>1, <1>2, <1>7, <3>1 DEF CratesSoFar, RustFirst
    <3>3. gen'[q].rs[f] = gen[q].rs[f]
      BY <1>6, <1>10, <1>13, <2>2
    <3> QED
      BY <3>2, <3>3
  <2> QED
    BY <2>1, <2>2
<1>15. \A p \in Crated' : Made(p, InPlace(p))'
  <2>1. \A p \in Crated' : Made(p, p)'
    BY <1>8, <1>9
  <2> QED
    BY <2>1, <1>9 DEF Made
<1>16. \A f \in FilesOf(Current)' \ ToSet(run'.left) :
          gen'[Current'].rs[f] \in Modules /\ gen'[Current'].rs[f].text = At(Current)'.text[f]
  BY <1>8, <1>11, <1>14 DEF FilesOf, At
<1> QED
  BY <1>8, <1>15, <1>16 DEF CratesSoFar

LEMMA RustModulesMakes ==
    ASSUME BgInv, RustFirst, RustModules
    PROVE  CratesSoFar'
<1>1. /\ BgTypes /\ RunReads /\ WithinSteps(Steps) /\ run.phase = "rs files" /\ run \in Runs
      /\ run.todo # <<>> /\ run.left = <<>> /\ CratesSoFar
  BY RustGoes DEF BgInv, RustModules, BgTypes, RunReads, FileSteps
<1>2. PICK q \in Pkg : q = Current
  BY <1>1, AtCurrent
<1>3. PICK c : Wrote(q, c) /\ c.rs = gen[q].rs /\ c.mods = run.listed[q]
  BY <1>1, <1>2, RustModulesWrites
<1>4. run'.phase = "rs cargo" /\ run'.todo = run.todo
  <2>1. run' = [run EXCEPT !.phase = "rs cargo"]
    BY DEF RustModules
  <2> QED
    BY <1>1, <2>1 DEF Runs
<1>5. /\ q \in run.iface
      /\ \A p \in run.iface \ ToSet(run.todo) : Made(p, p)'
      /\ Crated' = run.iface \ ToSet(run'.todo)
      /\ \A p : InPlace(p)' = p
  BY <1>1, <1>2, <1>3, <1>4, OthersMade DEF RustSteps
<1>6. run.listed[q] = FilesOf(q)
  BY <1>5, AsIndexed DEF RustFirst
<1>7. FilesOf(q)' = FilesOf(q) /\ At(q)' = At(q) /\ Current' = q
  BY <1>1, <1>2, <1>4, IndexStays DEF WithinSteps, Going, Current
<1>8. ToSet(run.left) = {}
  <2>1. run.left = <<>>
    BY <1>1
  <2>2. DOMAIN run.left = {}
    BY <2>1
  <2> QED
    BY <2>2 DEF ToSet
<1>9. \A f \in FilesOf(q) : gen[q].rs[f] \in Modules /\ gen[q].rs[f].text = At(q).text[f]
  BY <1>1, <1>2, <1>8 DEF CratesSoFar, RustFirst
<1>10. gen'[q] = c /\ c \in Crates
  BY <1>1, <1>3, WroteIs DEF Dir, Wrote
<1>11. Made(q, q)'
  BY <1>3, <1>6, <1>7, <1>9, <1>10 DEF Made
<1>12. Made(Current, Current)'
  BY <1>7, <1>11 DEF Made, FilesOf, At
<1>13. \A p \in Crated' : Made(p, InPlace(p))'
  <2>1. \A p \in Crated' : Made(p, p)'
    BY <1>4, <1>5
  <2> QED
    BY <2>1, <1>5 DEF Made
<1> QED
  BY <1>4, <1>12, <1>13 DEF CratesSoFar

LEMMA CargoTomlMakes ==
    ASSUME BgInv, RustFirst, CargoToml
    PROVE  CratesSoFar'
<1>1. /\ BgTypes /\ RunReads /\ WithinSteps(Steps) /\ run.phase = "rs cargo" /\ run \in Runs
      /\ run.todo # <<>> /\ CratesSoFar
  BY RustGoes DEF BgInv, CargoToml, BgTypes, RunReads, FileSteps
<1>2. PICK q \in Pkg : q = Current
  BY <1>1, AtCurrent
<1>3. PICK c : Wrote(q, c) /\ c.rs = gen[q].rs /\ c.mods = gen[q].mods
  BY <1>1, <1>2, CargoTomlWrites
<1>4. run'.phase = "rust" /\ run'.todo = Tail(run.todo)
  <2>1. run' = [run EXCEPT !.phase = "rust", !.todo = Tail(@), !.deps = {}]
    BY DEF CargoToml
  <2> QED
    BY <1>1, <2>1 DEF Runs
<1>5. /\ q \in run.iface
      /\ \A p \in run.iface \ ToSet(run.todo) : Made(p, p)'
      /\ Crated' = run.iface \ ToSet(run'.todo)
      /\ \A p : InPlace(p)' = p
  BY <1>1, <1>2, <1>3, <1>4, OthersMade DEF RustSteps
<1>6. Made(q, q)
  BY <1>1, <1>2 DEF CratesSoFar, RustFirst
<1>7. gen'[q] = c /\ c \in Crates
  BY <1>1, <1>3, WroteIs DEF Dir, Wrote
<1>8. Made(q, q)'
  BY <1>1, <1>3, <1>6, <1>7, MadeStays DEF WithinSteps, Going
<1>9. ToSet(run.todo) = {q} \cup ToSet(Tail(run.todo))
  BY <1>1, <1>2, AtCurrent
<1>10. \A p \in Crated' : Made(p, p)'
  BY <1>4, <1>5, <1>8, <1>9
<1>11. \A p \in Crated' : Made(p, InPlace(p))'
  BY <1>5, <1>10 DEF Made
<1> QED
  BY <1>4, <1>11 DEF CratesSoFar

LEMMA RustDoneMakes ==
    ASSUME BgInv, RustFirst, RustDone
    PROVE  CratesSoFar'
<1>1. /\ WithinSteps(Steps) /\ run.phase = "rust" /\ run \in Runs /\ CratesSoFar /\ run.todo = <<>>
      /\ run.ask # NoAsk /\ gen' = gen
  BY RustGoes DEF BgInv, RustDone, BgTypes, RustFirst, Generating, Output
<1>2. ToSet(run.todo) = {}
  <2>1. run.todo = <<>>
    BY <1>1
  <2>2. DOMAIN run.todo = {}
    BY <2>1
  <2> QED
    BY <2>2 DEF ToSet
<1>3. \A p \in run.iface : Made(p, p)
  BY <1>1, <1>2 DEF CratesSoFar, RustFirst, Crated, InPlace, RustSteps
<1>4. \/ run'.phase = "rename" /\ run'.olds = DOMAIN world.renames
      \/ run'.phase \in {"config", "end"} /\ DOMAIN world.renames = {}
  <2>1. PICK olds, phase :
           /\ olds = DOMAIN world.renames
           /\ \/ phase = "rename"
              \/ phase \in {"config", "end"} /\ DOMAIN world.renames = {}
           /\ run' = [run EXCEPT !.olds = olds, !.phase = phase]
    BY <1>1 DEF RustDone
  <2> QED
    BY <1>1, <2>1 DEF Runs
<1>5. \A p : InPlace(p)' = p
  BY <1>1, <1>4 DEF InPlace, NewOf, RustSteps, WithinSteps, Going
<1>6. \A p \in Crated' : Made(p, p)
  BY <1>1, <1>3, <1>4 DEF Crated, RustSteps, WithinSteps, Going
<1>7. \A p \in Crated' : Made(p, p)'
  <2> SUFFICES ASSUME NEW p \in Crated' PROVE Made(p, p)'
    OBVIOUS
  <2>1. Made(p, p) /\ gen[p] \in Crates
    BY <1>6 DEF Made
  <2> QED
    BY <1>1, <2>1, MadeStays DEF WithinSteps, Going
<1>8. \A p \in Crated' : Made(p, InPlace(p))'
  BY <1>5, <1>7 DEF Made
<1> QED
  BY <1>4, <1>8 DEF CratesSoFar

LEMMA RenameDirMakes ==
    ASSUME RenamesApart, BgInv, RustFirst, NEW old, RenameDir(old)
    PROVE  CratesSoFar'
<1>1. /\ BgTypes /\ RunReads /\ WithinSteps(Steps) /\ run.phase = "rename" /\ run \in Runs /\ CratesSoFar
      /\ AsLoaded /\ world \in Worlds /\ old \in run.olds
  BY RustGoes DEF BgInv, RenameDir, BgTypes, RunReads
<1>2. PICK d : d = NewOf(old)
  OBVIOUS
<1>3. /\ old \in DOMAIN world.renames /\ old \in Pkg /\ d \in NewName /\ d = world.renames[old]
      /\ gen' = IF gen[old] = None THEN gen ELSE [[gen EXCEPT ![d] = gen[old]] EXCEPT ![old] = None]
      /\ gen \in [Dir -> {None} \cup Crates]
  BY <1>1, <1>2, RenameDirWrites DEF BgTypes
<1>4. d # old /\ d \in Dir /\ old \in Dir
  BY <1>3 DEF RenamesApart, Dir
<1>5. \/ run'.phase = "rename" /\ run'.olds = run.olds \ {old}
      \/ run'.phase = "fix" /\ run.olds = {old}
  <2>1. CASE run.olds = {old}
    <3>1. run' = [run EXCEPT !.olds = DOMAIN world.renames, !.phase = "fix"]
      BY <2>1 DEF RenameDir
    <3> QED
      BY <1>1, <2>1, <3>1 DEF Runs
  <2>2. CASE run.olds # {old}
    <3>1. run' = [run EXCEPT !.olds = run.olds \ {old}, !.phase = run.phase]
      BY <2>2 DEF RenameDir
    <3> QED
      BY <1>1, <3>1 DEF Runs
  <2> QED
    BY <2>1, <2>2
<1>6. \A p : InPlace(p) = IF p \in run.olds THEN p ELSE NewOf(p)
  BY <1>1 DEF InPlace, RustSteps
<1>7. \A p : InPlace(p)' = IF p \in run.olds \ {old} THEN p ELSE NewOf(p)
  BY <1>1, <1>5 DEF InPlace, RustSteps, NewOf, WithinSteps, Going
<1>8. Crated = run.iface /\ Crated' = run.iface
  BY <1>1, <1>5 DEF Crated, RustSteps, WithinSteps, Going
<1>9. ASSUME NEW p \in run.iface PROVE Made(p, InPlace(p))'
  <2>1. PICK a, b : a = InPlace(p) /\ b = InPlace(p)'
    OBVIOUS
  <2>2. p \in Pkg
    BY <1>1 DEF Runs
  <2>3. Made(p, a) /\ gen[a] \in Crates
    BY <1>1, <1>8, <2>1 DEF CratesSoFar, RustFirst, Made
  <2>4. gen[a] # None
    BY <2>3, GenerationConstants
  <2>5. CASE p = old
    <3>1. a = old /\ b = d
      BY <1>1, <1>2, <1>6, <1>7, <2>1, <2>5
    <3>2. gen'[b] = gen[a]
      BY <1>3, <1>4, <2>4, <3>1
    <3>3. Made(p, b)'
      <4>1. FilesOf(p)' = FilesOf(p) /\ At(p)' = At(p)
        BY <1>1, IndexStays DEF WithinSteps, Going
      <4> QED
        BY <2>3, <3>2, <4>1 DEF Made
    <3> QED
      BY <2>1, <3>3 DEF Made
  <2>6. CASE p # old
    <3>1. a = b
      BY <1>6, <1>7, <2>1, <2>6
    <3>2. a # old
      <4>1. CASE p \in run.olds \/ p \notin DOMAIN world.renames
        BY <1>6, <2>1, <2>6, <4>1 DEF NewOf
      <4>2. CASE p \notin run.olds /\ p \in DOMAIN world.renames
        <5>1. a = world.renames[p] /\ a \in NewName
          BY <1>1, <1>6, <2>1, <4>2, WorldIs DEF NewOf
        <5> QED
          BY <1>3, <5>1 DEF RenamesApart
      <4> QED
        BY <4>1, <4>2
    <3>3. a # d
      <4>1. CASE p \in run.olds \/ p \notin DOMAIN world.renames
        <5>1. a = p
          BY <1>6, <2>1, <4>1 DEF NewOf
        <5> QED
          BY <1>3, <2>2, <5>1 DEF RenamesApart
      <4>2. CASE p \notin run.olds /\ p \in DOMAIN world.renames
        <5>1. a = world.renames[p]
          BY <1>6, <2>1, <4>2 DEF NewOf
        <5> QED
          BY <1>1, <1>3, <2>6, <4>2, <5>1 DEF RenamesApart
      <4> QED
        BY <4>1, <4>2
    <3>a. a \in Dir
      BY <1>1, <1>6, <2>1, <2>2, NewOfIs DEF Dir
    <3>4. gen'[a] = gen[a]
      BY <1>3, <1>4, <3>2, <3>3, <3>a
    <3>5. Made(p, a)'
      BY <1>1, <2>3, <3>4, MadeStays DEF WithinSteps, Going
    <3> QED
      BY <2>1, <3>1, <3>5 DEF Made
  <2> QED
    BY <2>5, <2>6
<1> QED
  BY <1>5, <1>8, <1>9 DEF CratesSoFar

LEMMA FixCrateMakes ==
    ASSUME BgInv, RustFirst, NEW old, FixCrate(old)
    PROVE  CratesSoFar'
<1>1. /\ BgTypes /\ RunReads /\ WithinSteps(Steps) /\ run.phase = "fix" /\ run \in Runs /\ CratesSoFar
  BY RustGoes DEF BgInv, FixCrate, BgTypes, RunReads
<1>2. \A d \in Dir : \/ gen'[d] = gen[d]
                     \/ gen[d] \in Crates /\ \E toml, ranks : gen'[d] = Fixed(gen[d], toml, ranks)
  BY <1>1, FixCrateWrites
<1>3. run'.phase \in {"fix", "config", "end"}
  <2>1. \E olds, phase : /\ run' = [run EXCEPT !.olds = olds, !.phase = phase]
                         /\ phase \in {"fix", "config", "end"}
    BY <1>1 DEF FixCrate
  <2> QED
    BY <1>1, <2>1 DEF Runs
<1>4. /\ Crated = run.iface /\ Crated' = run.iface
      /\ \A p : InPlace(p) = NewOf(p) /\ InPlace(p)' = NewOf(p)
  BY <1>1, <1>3 DEF Crated, InPlace, NewOf, RustSteps, WithinSteps, Going
<1>5. ASSUME NEW p \in run.iface PROVE Made(p, InPlace(p))'
  <2>1. PICK a : a = NewOf(p)
    OBVIOUS
  <2>2. p \in Pkg
    BY <1>1 DEF Runs
  <2>3. a \in Dir
    BY <1>1, <2>1, <2>2, NewOfIs DEF Dir
  <2>4. Made(p, a)
    BY <1>1, <1>4, <2>1 DEF CratesSoFar, RustFirst
  <2>5. FilesOf(p)' = FilesOf(p) /\ At(p)' = At(p) /\ FilesOf(p) \in SUBSET File
    BY <1>1, IndexStays, ListedIs DEF WithinSteps, Going, FilesOf
  <2>6. Made(p, a)'
    <3>1. CASE gen'[a] = gen[a]
      BY <2>4, <2>5, <3>1 DEF Made
    <3>2. CASE gen[a] \in Crates /\ \E toml, ranks : gen'[a] = Fixed(gen[a], toml, ranks)
      <4>1. PICK c \in Crates : c = gen[a]
        BY <3>2
      <4>2. PICK toml, ranks, e : e = Fixed(c, toml, ranks) /\ gen'[a] = e
        BY <3>2, <4>1
      <4>3. /\ e \in Crates /\ e.mods = c.mods
            /\ \A f \in File : c.rs[f] \in Modules => e.rs[f] \in Modules /\ e.rs[f].text = c.rs[f].text
        BY <1>1, <4>1, <4>2, FixedIs
      <4>4. gen'[a] = e
        BY <4>2
      <4>5. c.mods = FilesOf(p) /\ \A f \in FilesOf(p) : c.rs[f] \in Modules /\ c.rs[f].text = At(p).text[f]
        BY <2>4, <4>1 DEF Made
      <4> QED
        BY <2>5, <4>3, <4>4, <4>5 DEF Made
    <3> QED
      BY <1>2, <2>3, <3>1, <3>2
  <2>7. InPlace(p)' = a
    BY <1>4, <2>1
  <2> QED
    BY <2>6, <2>7 DEF Made
<1> QED
  BY <1>3, <1>4, <1>5 DEF CratesSoFar

\* Steps that leave the crates of all directories as they are.
LEMMA CratesStay ==
    ASSUME BgInv, RustFirst, Going, run.phase \notin RustSteps \cup {"rename"},
           run'.phase \notin RustSteps \cup {"rename"},
           \A d : gen[d] \in Crates => /\ gen'[d] \in Crates
                                       /\ gen'[d].mods = gen[d].mods /\ gen'[d].rs = gen[d].rs
    PROVE  CratesSoFar'
<1>1. BgTypes /\ CratesSoFar
  BY DEF BgInv
<1>2. /\ Crated = run.iface /\ Crated' = run.iface
      /\ \A p : InPlace(p) = NewOf(p) /\ InPlace(p)' = NewOf(p)
  BY DEF Crated, InPlace, NewOf, Going
<1>3. ASSUME NEW p \in run.iface PROVE Made(p, InPlace(p))'
  <2>1. PICK a : a = NewOf(p)
    OBVIOUS
  <2>2. Made(p, a) /\ gen[a] \in Crates
    BY <1>1, <1>2, <2>1 DEF CratesSoFar, RustFirst, Made
  <2>3. Made(p, a)'
    BY <2>2, MadeStays DEF Going
  <2>4. InPlace(p)' = a
    BY <1>2, <2>1
  <2> QED
    BY <2>3, <2>4 DEF Made
<1> QED
  BY <1>2, <1>3 DEF CratesSoFar, RustSteps

LEMMA CMakes ==
    ASSUME BgInv, RustFirst, OpenHeaders \/ HeaderFile \/ Umbrella
    PROVE  CratesSoFar'
<1>1. /\ BgTypes /\ RunReads /\ WithinSteps(CSteps) /\ gen \in [Dir -> {None} \cup Crates]
  BY CGoes DEF BgInv, BgTypes
<1>2. ASSUME NEW c, Wrote(Current, c), run.todo # <<>>,
             gen[Current] \in Crates => c.mods = gen[Current].mods /\ c.rs = gen[Current].rs
      PROVE  \A d : gen[d] \in Crates => /\ gen'[d] \in Crates
                                         /\ gen'[d].mods = gen[d].mods /\ gen'[d].rs = gen[d].rs
  <2>1. PICK q \in Pkg : q = Current
    BY <1>1, <1>2, AtCurrent
  <2>2. gen'[q] = c /\ c \in Crates /\ \A d : d # q => gen'[d] = gen[d]
    BY <1>1, <1>2, <2>1, WroteIs DEF Dir, Wrote
  <2> QED
    BY <1>2, <2>1, <2>2
<1>3. \A d : gen[d] \in Crates => /\ gen'[d] \in Crates
                                  /\ gen'[d].mods = gen[d].mods /\ gen'[d].rs = gen[d].rs
  <2>1. CASE OpenHeaders
    <3>1. CASE gen' = gen
      BY <3>1
    <3>2. CASE run.todo # <<>> /\ \E c : Wrote(Current, c) /\ (gen[Current] # None => c = gen[Current])
      <4>1. PICK c : Wrote(Current, c) /\ (gen[Current] # None => c = gen[Current])
        BY <3>2
      <4>2. gen[Current] \in Crates => c = gen[Current]
        BY <4>1, GenerationConstants
      <4> QED
        BY <1>2, <3>2, <4>1, <4>2
    <3> QED
      BY <1>1, <2>1, <3>1, <3>2, OpenHeadersIs
  <2>2. CASE HeaderFile
    <3>1. run.todo # <<>>
      BY <1>1, <2>2 DEF HeaderFile, Reading, RunReads, FileSteps
    <3>2. PICK c : Wrote(Current, c) /\ c.mods = gen[Current].mods /\ c.rs = gen[Current].rs
      BY <1>1, <2>2, HeaderFileWrites
    <3> QED
      BY <1>2, <3>1, <3>2
  <2>3. CASE Umbrella
    <3>1. run.todo # <<>>
      BY <1>1, <2>3 DEF Umbrella, RunReads, FileSteps
    <3>2. PICK c : Wrote(Current, c) /\ c.mods = gen[Current].mods /\ c.rs = gen[Current].rs
      BY <1>1, <2>3, UmbrellaWrites
    <3> QED
      BY <1>2, <3>1, <3>2
  <2> QED
    BY <2>1, <2>2, <2>3
<1>4. /\ Going /\ run.phase \notin RustSteps \cup {"rename"} /\ run'.phase \notin RustSteps \cup {"rename"}
  BY <1>1 DEF WithinSteps, CSteps, RustSteps
<1> QED
  BY <1>3, <1>4, CratesStay

LEMMA WriteConfigMakes ==
    ASSUME BgInv, RustFirst, WriteConfig
    PROVE  CratesSoFar'
<1>1. WithinSteps(Steps) /\ run.phase = "config" /\ run \in Runs /\ gen' = gen
  BY RustGoes DEF BgInv, WriteConfig, BgTypes
<1>2. run'.phase = "end"
  BY <1>1 DEF WriteConfig, Runs
<1>3. /\ Going /\ run.phase \notin RustSteps \cup {"rename"} /\ run'.phase \notin RustSteps \cup {"rename"}
  BY <1>1, <1>2 DEF WithinSteps, RustSteps
<1> QED
  BY <1>1, <1>3, CratesStay

-----------------------------------------------------------------------------
(* The headers made so far.                                                *)

LEMMA HeadedStays ==
    ASSUME NEW p, NEW S, Headed(p, S), UNCHANGED <<share, world>>, gen'[p] = gen[p]
    PROVE  Headed(p, S)'
<1>1. FilesOf(p)' = FilesOf(p) /\ At(p)' = At(p)
  BY IndexStays
<1> QED
  BY <1>1 DEF Headed

\* Rust comes first: until the run is at C there is nothing to say of its headers.
LEMMA HeadersLater ==
    ASSUME BgInv, Generating, WithinSteps(Steps)
    PROVE  HeadersSoFar'
<1>1. Head(run.langs) = "rust" /\ Head(<<"c">>) = "c"
  BY DEF BgInv, AsLoaded, WithinSteps
<1>2. run'.langs # <<"c">> /\ run'.phase \notin CSteps
  BY <1>1 DEF WithinSteps, Going, Steps, RustSteps, CSteps
<1> QED
  BY <1>2 DEF HeadersSoFar, CSteps

\* While the headers of one package are written those of the others are left alone.
LEMMA OthersHeaded ==
    ASSUME BgInv, Generating, WithinSteps(CSteps), run.ask.force \/ run.anew, run.todo # <<>>,
           NEW S, S = run.iface, NEW q, q = Current,
           gen' = gen \/ \E c : Wrote(q, c)
    PROVE  /\ q \in S /\ IsInjective(Tail(run.todo))
           /\ \A p \in S \ ToSet(run.todo) : Headed(p, S)'
           /\ \A p \in ToSet(Tail(run.todo)) : Untouched(p)'
           /\ S \ ToSet(Tail(run.todo)) = (S \ ToSet(run.todo)) \cup {q}
<1>1. /\ BgTypes /\ RunReads /\ AsLoaded /\ Going /\ HeadersSoFar
      /\ run.phase = "c" \/ run.phase = "c files"
  BY DEF BgInv, WithinSteps, CSteps
<1>2. /\ IsInjective(run.todo)
      /\ \A p \in S \ ToSet(run.todo) : Headed(p, S)
  BY <1>1 DEF HeadersSoFar
<1>3. /\ q \in Pkg /\ q \in ToSet(run.todo) /\ ToSet(run.todo) = {q} \cup ToSet(Tail(run.todo))
      /\ q \notin ToSet(Tail(run.todo)) /\ IsInjective(Tail(run.todo))
  BY <1>1, <1>2, AtCurrent
<1>4. q \in S
  BY <1>1, <1>3 DEF AsLoaded
<1>5. \A d : d # q => gen'[d] = gen[d]
  <2>1. CASE \E c : Wrote(q, c)
    BY <1>1, <1>3, <2>1, WroteIs DEF Dir
  <2> QED
    BY <2>1
<1>6. ASSUME NEW p \in S \ ToSet(run.todo) PROVE Headed(p, S)'
  <2>1. p # q /\ Headed(p, S)
    BY <1>2, <1>3
  <2> QED
    BY <1>1, <1>5, <2>1, HeadedStays DEF Going
<1>7. \A p \in ToSet(Tail(run.todo)) : Untouched(p)
  BY <1>1, <1>3 DEF HeadersSoFar
<1>8. \A p \in ToSet(Tail(run.todo)) : Untouched(p)'
  BY <1>1, <1>3, <1>5, <1>7 DEF Untouched, Going
<1> QED
  BY <1>3, <1>4, <1>6, <1>8

LEMMA OpenHeadersMakes ==
    ASSUME BgInv, Generating, run.ask.force \/ run.anew, OpenHeaders
    PROVE  HeadersSoFar'
<1>1. /\ BgTypes /\ RunReads /\ WithinSteps(CSteps) /\ run \in Runs /\ run.phase = "c" /\ HeadersSoFar
      /\ AsLoaded /\ Going
  BY CGoes DEF BgInv, BgTypes, OpenHeaders, WithinSteps
<1>a. PICK S : S = run.iface
  OBVIOUS
<1>2. /\ IsInjective(run.todo)
      /\ \A p \in S \ ToSet(run.todo) : Headed(p, S)
      /\ \A p \in ToSet(run.todo) : Untouched(p)
  BY <1>1, <1>a DEF HeadersSoFar
<1>b. run'.iface = S
  BY <1>1, <1>a DEF Going
<1>3. CASE run.todo = <<>> /\ run' = [run EXCEPT !.phase = "end"] /\ gen' = gen
  <2>1. ToSet(run.todo) = {}
    <3>1. run.todo = <<>>
      BY <1>3
    <3>2. DOMAIN run.todo = {}
      BY <3>1
    <3> QED
      BY <3>2 DEF ToSet
  <2>2. run'.phase = "end"
    BY <1>1, <1>3 DEF Runs
  <2>3. ASSUME NEW p \in S PROVE Headed(p, S)'
    <3>1. Headed(p, S)
      BY <1>2, <2>1
    <3> QED
      BY <1>1, <1>3, <3>1, HeadedStays DEF Going
  <2> QED
    BY <1>b, <2>2, <2>3 DEF HeadersSoFar, Headed
<1>c. ASSUME run.todo # <<>>
      PROVE  \E q \in Pkg : q = Current /\ q \in ToSet(run.todo)
  BY <1>1, <1>c, AtCurrent
<1>4. CASE /\ run.todo # <<>> /\ gen' = gen
           /\ Skipped(Current) \/ Listed(share[run.at[Current]][Current]) = {}
           /\ run' = [run EXCEPT !.todo = Tail(@)]
  <2>1. PICK q \in Pkg : q = Current /\ q \in ToSet(run.todo)
    BY <1>4, <1>c
  <2>2. /\ q \in S /\ IsInjective(Tail(run.todo))
        /\ \A p \in S \ ToSet(run.todo) : Headed(p, S)'
        /\ \A p \in ToSet(Tail(run.todo)) : Untouched(p)'
        /\ S \ ToSet(Tail(run.todo)) = (S \ ToSet(run.todo)) \cup {q}
    BY <1>1, <1>4, <1>a, <2>1, OthersHeaded
  <2>3. ~Skipped(q)
    <3>1. Untouched(q)
      BY <1>2, <2>1
    <3> QED
      BY <3>1 DEF Untouched, Skipped
  <2>4. FilesOf(q) = {}
    <3>1. Listed(share[run.at[q]][q]) = FilesOf(q)
      BY <1>a, <2>2, AsIndexed
    <3> QED
      BY <1>4, <2>1, <2>3, <3>1
  <2>5. FilesOf(q)' = {}
    BY <1>1, <2>4, IndexStays DEF Going
  <2>6. Headed(q, S)'
    BY <2>5 DEF Headed
  <2>7. run'.phase = "c" /\ run'.todo = Tail(run.todo)
    BY <1>1, <1>4 DEF Runs
  <2>8. \A p \in S \ ToSet(Tail(run.todo)) : Headed(p, S)'
    BY <2>2, <2>6
  <2> QED
    BY <1>b, <2>2, <2>7, <2>8 DEF HeadersSoFar, Headed, Untouched
<1>5. ASSUME run.todo # <<>>, NEW c, Wrote(Current, c), NEW files,
             files = Listed(share[run.at[Current]][Current]),
             run' = [run EXCEPT !.phase = "c files", !.left = Sorted(files), !.listed[Current] = files]
      PROVE  HeadersSoFar'
  <2>1. PICK q \in Pkg : q = Current
    BY <1>5, <1>c
  <2>2. /\ q \in S /\ IsInjective(Tail(run.todo))
        /\ \A p \in S \ ToSet(run.todo) : Headed(p, S)'
        /\ \A p \in ToSet(Tail(run.todo)) : Untouched(p)'
    BY <1>1, <1>5, <1>a, <2>1, OthersHeaded
  <2>3. files = FilesOf(q) /\ files \in SUBSET File
    BY <1>5, <1>a, <2>1, <2>2, AsIndexed
  <2>4. run'.phase = "c files" /\ run'.todo = run.todo /\ run'.left = Sorted(files)
    BY <1>1, <1>5 DEF Runs
  <2>5. ToSet(run'.left) = files
    BY <2>3, <2>4, SortedFiles
  <2>6. FilesOf(Current)' \ ToSet(run'.left) = {}
    <3>1. FilesOf(q)' = FilesOf(q) /\ Current' = q
      BY <1>1, <2>1, <2>4, IndexStays DEF Going, Current
    <3> QED
      BY <2>3, <2>5, <3>1 DEF FilesOf, At
  <2> QED
    BY <1>2, <1>b, <2>2, <2>4, <2>6 DEF HeadersSoFar, Headed, Untouched
<1> QED
  BY <1>1, <1>3, <1>4, <1>5, OpenHeadersIs

LEMMA HeaderFileMakes ==
    ASSUME BgInv, Generating, run.ask.force \/ run.anew, HeaderFile
    PROVE  HeadersSoFar'
<1>1. /\ BgTypes /\ RunReads /\ WithinSteps(CSteps) /\ run \in Runs /\ run.phase = "c files" /\ HeadersSoFar
      /\ Going /\ run.todo # <<>> /\ run.left # <<>>
  BY CGoes DEF BgInv, BgTypes, HeaderFile, Reading, WithinSteps, RunReads, FileSteps
<1>a. PICK S : S = run.iface
  OBVIOUS
<1>b. run'.iface = S
  BY <1>1, <1>a DEF Going
<1>2. PICK q \in Pkg : q = Current
  BY <1>1, AtCurrent
<1>3. PICK h \in File : h = Head(run.left)
  BY <1>1, HeaderFileWrites
<1>4. PICK t : t = Content
  OBVIOUS
<1>5. PICK c : /\ Wrote(q, c) /\ c.c.h = [gen[q].c.h EXCEPT ![h] = t]
  BY <1>1, <1>2, <1>3, <1>4, HeaderFileWrites
<1>6. PICK left \in Seq(File) : left = run.left
  BY <1>1 DEF Runs
<1>7. run'.phase = "c files" /\ run'.todo = run.todo /\ run'.left = Tail(left)
  <2>1. run' = [run EXCEPT !.left = Tail(@)]
    BY DEF HeaderFile
  <2> QED
    BY <1>1, <1>6, <2>1 DEF Runs
<1>8. /\ q \in S /\ IsInjective(run.todo)
      /\ \A p \in S \ ToSet(run.todo) : Headed(p, S)'
      /\ \A p \in ToSet(Tail(run.todo)) : Untouched(p)'
  BY <1>1, <1>a, <1>2, <1>5, OthersHeaded DEF HeadersSoFar
<1>9. share[run.at[q]][q] = At(q) /\ FilesOf(q) \in SUBSET File
  BY <1>a, <1>8, AsIndexed
<1>10. FilesOf(q)' = FilesOf(q) /\ At(q)' = At(q) /\ Current' = q
  BY <1>1, <1>2, <1>7, IndexStays DEF Going, Current
<1>11. t = At(q).text[h]
  BY <1>2, <1>3, <1>4, <1>9 DEF Content
<1>12. gen'[q] = c /\ gen[q] \in Crates
  BY <1>1, <1>2, <1>5, WroteIs DEF RunReads, Dir
<1>13. gen[q].c.h \in [File -> Text \cup {None}]
  BY <1>12 DEF Crates, Headers
<1>14. ASSUME NEW f \in FilesOf(q) \ ToSet(Tail(left))
       PROVE  gen'[q].c.h[f] = At(q).text[f]
  <2>1. CASE f = h
    BY <1>5, <1>11, <1>12, <1>13, <2>1
  <2>2. CASE f # h
    <3>1. f \in FilesOf(q) \ ToSet(left)
      <4>1. left # <<>> /\ h = Head(left)
        BY <1>1, <1>3, <1>6
      <4> QED
        BY <2>2, <4>1, ReadSoFar
    <3>2. gen[q].c.h[f] = At(q).text[f]
      BY <1>1, <1>2, <1>6, <3>1 DEF HeadersSoFar
    <3>3. gen'[q].c.h[f] = gen[q].c.h[f]
      BY <1>5, <1>9, <1>12, <1>13, <2>2
    <3> QED
      BY <3>2, <3>3
  <2> QED
    BY <2>1, <2>2
<1>15. \A f \in FilesOf(Current)' \ ToSet(run'.left) : gen'[Current'].c.h[f] = At(Current)'.text[f]
  BY <1>7, <1>10, <1>14 DEF FilesOf, At
<1> QED
  BY <1>b, <1>7, <1>8, <1>15 DEF HeadersSoFar, Headed, Untouched

LEMMA UmbrellaMakes ==
    ASSUME BgInv, Generating, run.ask.force \/ run.anew, Umbrella
    PROVE  HeadersSoFar'
<1>1. /\ BgTypes /\ RunReads /\ WithinSteps(CSteps) /\ run \in Runs /\ run.phase = "c files" /\ HeadersSoFar
      /\ Going /\ run.todo # <<>> /\ run.left = <<>>
  BY CGoes DEF BgInv, BgTypes, Umbrella, WithinSteps, RunReads, FileSteps
<1>a. PICK S : S = run.iface
  OBVIOUS
<1>b. run'.iface = S
  BY <1>1, <1>a DEF Going
<1>2. PICK q \in Pkg : q = Current
  BY <1>1, AtCurrent
<1>3. PICK c, u : /\ Wrote(q, c) /\ c.c.h = gen[q].c.h /\ c.c.umbrella = u /\ u \in Umbrellas
                  /\ u.files = run.listed[q] /\ u.deps \subseteq S
  BY <1>1, <1>a, <1>2, UmbrellaWrites
<1>4. run'.phase = "c" /\ run'.todo = Tail(run.todo)
  <2>1. run' = [run EXCEPT !.phase = "c", !.todo = Tail(@)]
    BY DEF Umbrella
  <2> QED
    BY <1>1, <2>1 DEF Runs
<1>5. /\ q \in S /\ IsInjective(Tail(run.todo))
      /\ \A p \in S \ ToSet(run.todo) : Headed(p, S)'
      /\ \A p \in ToSet(Tail(run.todo)) : Untouched(p)'
      /\ S \ ToSet(Tail(run.todo)) = (S \ ToSet(run.todo)) \cup {q}
  BY <1>1, <1>a, <1>2, <1>3, OthersHeaded
<1>6. run.listed[q] = FilesOf(q)
  BY <1>a, <1>5, AsIndexed
<1>7. FilesOf(q)' = FilesOf(q) /\ At(q)' = At(q)
  BY <1>1, IndexStays DEF Going
<1>8. ToSet(run.left) = {}
  <2>1. run.left = <<>>
    BY <1>1
  <2>2. DOMAIN run.left = {}
    BY <2>1
  <2> QED
    BY <2>2 DEF ToSet
<1>9. \A f \in FilesOf(q) : gen[q].c.h[f] = At(q).text[f]
  BY <1>1, <1>2, <1>8 DEF HeadersSoFar
<1>10. gen'[q] = c /\ c \in Crates
  BY <1>1, <1>3, WroteIs DEF Dir, Wrote
<1>11. Headed(q, S)'
  BY <1>3, <1>6, <1>7, <1>9, <1>10 DEF Headed
<1>12. \A p \in S \ ToSet(Tail(run.todo)) : Headed(p, S)'
  BY <1>5, <1>11
<1> QED
  BY <1>b, <1>4, <1>5, <1>12 DEF HeadersSoFar, Headed, Untouched

-----------------------------------------------------------------------------
(* Runs begin and end, and the theorem.                                    *)

\* A language begins with the whole index and nothing of it done.
LEMMA Entered ==
    ASSUME BgTypes, NEW r \in Runs, r.langs # <<>>, r.ask \in Ask, r.ask # NoAsk,
           r.langs = r.ask.langs \/ (r.ask.langs = <<"rust", "c">> /\ r.langs = <<"c">>),
           run' = Enter(r), UNCHANGED <<share, world, gen, script, built>>, fresh', outcome' = NoOutcome,
           r.langs # r.ask.langs => \A p \in InterfacePackages : Made(p, NewOf(p))
    PROVE  /\ AsLoaded' /\ CratesSoFar' /\ HeadersSoFar' /\ RustIsCurrent' /\ HeadersAreCurrent'
           /\ run'.phase \notin CMakeSteps
<1>1. PICK I : I = InterfacePackages
  OBVIOUS
<1>2. /\ run'.iface = I /\ ToSet(run'.todo) = I /\ IsInjective(run'.todo)
      /\ \A p \in I : run'.at[p] = Place(p) /\ run'.listed[p] = FilesOf(p)
      /\ run'.ask = r.ask /\ run'.langs = r.langs
      /\ run'.phase = IF I = {} THEN "end" ELSE Head(r.langs)
      /\ run'.phase \in {"rust", "c", "end"}
      /\ run'.anew = \A p \in I : gen[p] = None
  BY <1>1, EnterIs
<1>3. /\ \A p : Place(p)' = Place(p) /\ At(p)' = At(p) /\ FilesOf(p)' = FilesOf(p)
      /\ \A p : NewOf(p)' = NewOf(p)
      /\ InterfacePackages' = I
  BY <1>1, IndexStays
<1>4. /\ run'.phase = "rust" => Head(run'.langs) = "rust"
      /\ run'.phase = "c" => Head(run'.langs) = "c"
  BY <1>2
<1>5. AsLoaded'
  BY <1>2, <1>3, <1>4 DEF AsLoaded, Generating, Steps, RustSteps, CSteps
<1>6. outcome'.result # "ok"
  BY DEF NoOutcome
<1>7. RustIsCurrent' /\ HeadersAreCurrent'
  BY <1>6 DEF RustIsCurrent, HeadersAreCurrent, Did
<1>8. CASE run'.phase = "rust" \/ I = {}
  <2>1. Crated' = {}
    BY <1>2, <1>8 DEF Crated, RustSteps
  <2>2. CratesSoFar'
    BY <1>2, <2>1 DEF CratesSoFar
  <2>3. HeadersSoFar'
    <3>1. run'.phase \in {"rust", "end"} /\ (run'.phase = "end" => I = {})
      BY <1>2, <1>8
    <3> QED
      BY <1>2, <3>1 DEF HeadersSoFar
  <2> QED
    BY <1>2, <1>5, <1>7, <2>2, <2>3 DEF CMakeSteps
<1>9. CASE run'.phase = "c"
  <2>1. ASSUME Head(r.ask.langs) = "rust", NEW p \in I PROVE Made(p, InPlace(p))'
    <3>1. r.langs # r.ask.langs
      BY <1>2, <1>4, <1>9, <2>1
    <3>2. PICK d : d = NewOf(p)
      OBVIOUS
    <3>3. Made(p, d)
      BY <1>1, <2>1, <3>1, <3>2
    <3>4. Made(p, d)'
      BY <1>3, <3>3 DEF Made
    <3>5. InPlace(p)' = d
      BY <1>3, <1>9, <3>2 DEF InPlace, RustSteps
    <3> QED
      BY <3>4, <3>5 DEF Made
  <2>2. Crated' = I
    BY <1>2, <1>9 DEF Crated, RustSteps
  <2>3. CratesSoFar'
    BY <1>2, <1>9, <2>1, <2>2 DEF CratesSoFar
  <2>4. HeadersSoFar'
    <3>1. ASSUME run'.ask.force \/ run'.anew, NEW p \in ToSet(run'.todo) PROVE Untouched(p)'
      BY <1>2, <3>1 DEF Untouched
    <3> QED
      BY <1>2, <1>9, <3>1 DEF HeadersSoFar
  <2> QED
    BY <1>2, <1>5, <1>7, <1>9, <2>3, <2>4 DEF CMakeSteps
<1>10. I # {} => run'.phase \in {"rust", "c"}
  <2>1. r.langs \in Seq({"rust", "c"})
    BY DEF Runs, LangSeqs
  <2> QED
    BY <1>2, <2>1
<1> QED
  BY <1>8, <1>9, <1>10

BgLater ==
    /\ AsLoaded' /\ CratesSoFar' /\ HeadersSoFar' /\ RustIsCurrent' /\ HeadersAreCurrent'
    /\ ScriptOrdered' /\ BuildGoesOn'

LEMMA GenerateLater ==
    ASSUME BgInv, NEW ask, Generate(ask)
    PROVE  BgLater
<1>1. /\ BgTypes /\ ask \in Ask /\ ask # NoAsk
      /\ run' = Enter([Idle EXCEPT !.ask = ask, !.langs = ask.langs])
  BY GenerateKeeps DEF BgInv
<1>2. UNCHANGED <<share, world, gen, script, built>> /\ fresh' /\ outcome' = NoOutcome
  BY DEF Generate, Begins, Output
<1>3. ask.langs \in Seq({"rust", "c"}) /\ ask.langs # <<>>
  BY <1>1, LangsAre
<1>4. PICK r : r = [Idle EXCEPT !.ask = ask, !.langs = ask.langs]
  OBVIOUS
<1>5. Idle \in Runs
  BY DEF Idle, Runs, Asks, NoAsk, LangSeqs, NoPlaces, NoListing
<1>6. r \in Runs /\ r.langs = ask.langs /\ r.ask = ask
  BY <1>1, <1>3, <1>4, <1>5 DEF Runs, Asks, LangSeqs
<1>7. /\ AsLoaded' /\ CratesSoFar' /\ HeadersSoFar' /\ RustIsCurrent' /\ HeadersAreCurrent'
      /\ run'.phase \notin CMakeSteps
  <2>1. run' = Enter(r)
    BY <1>1, <1>4
  <2> QED
    BY <1>1, <1>2, <1>3, <1>6, <2>1, Entered
<1> QED
  BY <1>2, <1>7, BuildUntouched DEF BgLater

LEMMA GenerateOneLater ==
    ASSUME BgInv, NEW p, GenerateOne(p)
    PROVE  BgLater
<1>1. run'.ask = NoAsk /\ run'.phase = "rust"
  BY GenerateOneKeeps
<1>2. UNCHANGED <<share, world, script, built>> /\ outcome' = NoOutcome
  BY DEF GenerateOne, Begins, Output
<1>3. outcome'.ask = NoAsk
  BY <1>2 DEF NoOutcome
<1>4. ScriptOrdered' /\ BuildGoesOn'
  BY <1>1, <1>2, BuildUntouched DEF CMakeSteps
<1> QED
  BY <1>1, <1>3, <1>4, NotGenerating DEF BgLater

\* What is headed for a run is current when it is done.
LEMMA HeadedIsCurrent ==
    ASSUME NEW S, \A p \in S : Headed(p, S)
    PROVE  \A p \in S : HeadersCurrent(p)
<1> SUFFICES ASSUME NEW p \in S, FilesOf(p) # {} PROVE HeadersCurrent(p)
  BY DEF HeadersCurrent
<1>1. /\ gen[p] \in Crates /\ gen[p].c.umbrella \in Umbrellas /\ gen[p].c.umbrella.files = FilesOf(p)
      /\ \A f \in FilesOf(p) : gen[p].c.h[f] = At(p).text[f]
      /\ gen[p].c.umbrella.deps \subseteq S
  BY DEF Headed
<1>2. \A d \in S : FilesOf(d) # {} => gen[d].c.umbrella \in Umbrellas
  BY DEF Headed
<1>3. None \notin Umbrellas /\ None \notin Crates
  BY GenerationConstants
<1> QED
  BY <1>1, <1>2, <1>3 DEF HeadersCurrent

LEMMA EndedCurrent ==
    ASSUME BgInv, Generating, run.phase = "end", ~(Len(run.langs) > 1), Ends("ok"),
           UNCHANGED <<share, world, gen>>
    PROVE  RustIsCurrent' /\ HeadersAreCurrent'
<1>1. /\ run \in Runs /\ AsLoaded /\ CratesSoFar /\ HeadersSoFar /\ run.ask \in Ask
      /\ outcome'.ask = run.ask /\ outcome'.iface = run.iface /\ outcome'.anew = run.anew
  BY DEF BgInv, BgTypes, AsLoaded, Ends
<1>2. PICK ask, S : ask \in Ask /\ ask = run.ask /\ S = run.iface
  BY <1>1
<1>3. ask.langs \in {<<"rust">>, <<"c">>, <<"rust", "c">>}
  BY <1>2, LangsAre
<1>4. /\ \A p : At(p)' = At(p) /\ FilesOf(p)' = FilesOf(p) /\ NewOf(p)' = NewOf(p)
      /\ outcome'.ask = ask /\ outcome'.iface = S
  BY <1>1, <1>2, IndexStays
<1>5. RustIsCurrent'
  <2> SUFFICES ASSUME "rust" \in ToSet(ask.langs), NEW p \in S
               PROVE  /\ gen[NewOf(p)].mods = FilesOf(p)
                      /\ \A f \in FilesOf(p) : gen[NewOf(p)].rs[f].text = At(p).text[f]
    BY <1>4 DEF RustIsCurrent, Did
  <2>1. Head(ask.langs) = "rust"
    <3>1. ToSet(<<"c">>) = {"c"} /\ Head(<<"rust">>) = "rust" /\ Head(<<"rust", "c">>) = "rust"
      BY DEF ToSet
    <3> QED
      BY <1>3, <3>1
  <2>2. p \in Crated /\ InPlace(p) = NewOf(p)
    BY <1>2 DEF Crated, InPlace, RustSteps
  <2>3. Made(p, NewOf(p))
    BY <1>1, <1>2, <2>1, <2>2 DEF CratesSoFar
  <2> QED
    BY <2>3 DEF Made
<1>6. HeadersAreCurrent'
  <2> SUFFICES ASSUME "c" \in ToSet(ask.langs), ask.force \/ run.anew, NEW p \in S
               PROVE  HeadersCurrent(p)'
    BY <1>1, <1>4 DEF HeadersAreCurrent, Did
  <2>1. run.langs = <<"c">>
    <3>1. ToSet(<<"rust">>) = {"rust"} /\ Len(<<"rust", "c">>) > 1
      BY DEF ToSet
    <3> QED
      BY <1>1, <1>2, <1>3, <3>1 DEF AsLoaded
  <2>2. \A q \in S : Headed(q, S)
    BY <1>1, <1>2, <2>1 DEF HeadersSoFar
  <2>3. HeadersCurrent(p)
    BY <2>2, HeadedIsCurrent
  <2> QED
    BY <1>4, <2>3 DEF HeadersCurrent
<1> QED
  BY <1>5, <1>6

LEMMA NextLanguageLater ==
    ASSUME BgInv, NextLanguage
    PROVE  BgLater
<1>1. /\ BgTypes /\ RunReads /\ run.phase = "end" /\ run \in Runs
      /\ UNCHANGED <<share, world, gen, script, built, fresh>>
  BY DEF BgInv, NextLanguage, Output, Keeps, BgTypes
<1>2. CASE Len(run.langs) > 1
  <2>1. run.langs \in Seq({"rust", "c"})
    BY <1>1 DEF Runs, LangSeqs
  <2>2. Tail(run.langs) \in Seq({"rust", "c"}) /\ Tail(run.langs) # <<>>
    BY <1>2, <2>1, TailLong
  <2>3. PICK r : r = [run EXCEPT !.langs = Tail(@)]
    OBVIOUS
  <2>4. r \in Runs /\ r.langs = Tail(run.langs) /\ r.ask = run.ask
    BY <1>1, <2>2, <2>3 DEF Runs, LangSeqs
  <2>5. run' = Enter(r) /\ UNCHANGED outcome
    BY <1>2, <2>3 DEF NextLanguage
  <2>6. outcome' = NoOutcome
    BY <1>1, <2>5 DEF RunReads
  <2>7. CASE run.ask = NoAsk
    <3>1. r.langs # <<>>
      BY <2>2, <2>4
    <3>2. run'.ask = NoAsk /\ run'.phase \in {"rust", "c", "end"}
      BY <1>1, <2>4, <2>5, <2>7, <3>1, EnterIs
    <3>3. outcome'.ask = NoAsk
      BY <2>6 DEF NoOutcome
    <3>4. ScriptOrdered' /\ BuildGoesOn'
      BY <1>1, <3>2, BuildUntouched DEF CMakeSteps
    <3> QED
      BY <3>2, <3>3, <3>4, NotGenerating DEF BgLater
  <2>8. CASE run.ask # NoAsk
    <3>1. /\ fresh /\ run.ask \in Ask /\ run.iface = InterfacePackages /\ CratesSoFar
          /\ run.langs = run.ask.langs \/ (run.ask.langs = <<"rust", "c">> /\ run.langs = <<"c">>)
      BY <2>8 DEF BgInv, AsLoaded, Generating
    <3>2. run.langs = <<"rust", "c">> /\ run.ask.langs = <<"rust", "c">>
      <4>1. ~(Len(<<"c">>) > 1) /\ ~(Len(<<"rust">>) > 1)
        OBVIOUS
      <4>2. run.ask.langs \in {<<"rust">>, <<"c">>, <<"rust", "c">>}
        BY <3>1, LangsAre
      <4> QED
        BY <1>2, <3>1, <4>1, <4>2
    <3>3. r.langs = <<"c">> /\ r.langs # <<>> /\ r.langs # r.ask.langs
      <4>1. Tail(<<"rust", "c">>) = <<"c">> /\ <<"c">> # <<"rust", "c">> /\ <<"c">> # <<>>
        OBVIOUS
      <4> QED
        BY <2>4, <3>2, <4>1
    <3>4. \A p \in InterfacePackages : Made(p, NewOf(p))
      <4>1. Head(run.ask.langs) = "rust"
        BY <3>2
      <4>2. \A p \in InterfacePackages : p \in Crated /\ InPlace(p) = NewOf(p)
        BY <1>1, <3>1 DEF Crated, InPlace, RustSteps
      <4> QED
        BY <2>8, <3>1, <4>1, <4>2 DEF CratesSoFar, Generating, Made
    <3>5. /\ AsLoaded' /\ CratesSoFar' /\ HeadersSoFar' /\ RustIsCurrent' /\ HeadersAreCurrent'
          /\ run'.phase \notin CMakeSteps
      <4>1. fresh' /\ r.ask \in Ask /\ r.ask # NoAsk /\ r.ask.langs = <<"rust", "c">>
        BY <1>1, <2>4, <2>8, <3>1, <3>2
      <4> QED
        BY <1>1, <2>4, <2>5, <2>6, <3>3, <3>4, <4>1, Entered
    <3> QED
      BY <1>1, <3>5, BuildUntouched DEF BgLater
  <2> QED
    BY <2>7, <2>8
<1>3. CASE ~(Len(run.langs) > 1)
  <2>1. Ends("ok")
    BY <1>3 DEF NextLanguage
  <2>2. run' = Idle /\ run'.ask = NoAsk /\ run'.phase = "idle"
    BY <2>1 DEF Ends, Idle
  <2>3. ScriptOrdered' /\ BuildGoesOn'
    BY <1>1, <2>2, BuildUntouched DEF CMakeSteps
  <2>4. CASE run.ask = NoAsk
    <3>1. outcome'.ask = NoAsk
      BY <2>1, <2>4 DEF Ends
    <3> QED
      BY <2>2, <2>3, <3>1, NotGenerating DEF BgLater
  <2>5. CASE run.ask # NoAsk
    <3>1. RustIsCurrent' /\ HeadersAreCurrent'
      BY <1>1, <1>3, <2>1, <2>5, EndedCurrent DEF Generating
    <3>2. AsLoaded' /\ CratesSoFar' /\ HeadersSoFar'
      BY <2>2 DEF AsLoaded, CratesSoFar, HeadersSoFar, Generating
    <3> QED
      BY <2>3, <3>1, <3>2 DEF BgLater
  <2> QED
    BY <2>4, <2>5
<1> QED
  BY <1>2, <1>3

LEMMA RustLater ==
    ASSUME RenamesApart, BgInv,
           \/ OpenCrate \/ RustFile \/ RustModules \/ CargoToml \/ RustDone \/ WriteConfig
           \/ \E old \in DOMAIN world.renames : RenameDir(old) \/ FixCrate(old)
    PROVE  BgLater
<1>1. WithinSteps(Steps) /\ run'.listed = run.listed
  BY RustGoes
<1>2. Going /\ run'.phase \notin CMakeSteps /\ run.phase # "idle"
  BY <1>1 DEF WithinSteps, Steps, RustSteps, CMakeSteps
<1>3. ScriptOrdered' /\ BuildGoesOn'
  BY <1>2, BuildUntouched DEF Going
<1>4. CASE ~Generating
  <2>1. run'.ask = NoAsk /\ outcome' = NoOutcome
    BY <1>2, <1>4 DEF Generating, Going, BgInv, RunReads
  <2>2. outcome'.ask = NoAsk
    BY <2>1 DEF NoOutcome
  <2> QED
    BY <1>3, <2>1, <2>2, NotGenerating DEF BgLater
<1>5. CASE Generating
  <2>1. AsLoaded' /\ RustIsCurrent' /\ HeadersAreCurrent'
    BY <1>1, <1>5, LoadedStays
  <2>2. HeadersSoFar'
    BY <1>1, <1>5, HeadersLater
  <2>3. CratesSoFar'
    <3>1. CASE RustFirst
      BY <3>1, OpenCrateMakes, RustFileMakes, RustModulesMakes, CargoTomlMakes, RustDoneMakes,
         WriteConfigMakes, RenameDirMakes, FixCrateMakes
    <3>2. CASE ~RustFirst
      BY <1>2, <1>5, <3>2 DEF CratesSoFar, RustFirst, Going
    <3> QED
      BY <3>1, <3>2
  <2> QED
    BY <1>3, <2>1, <2>2, <2>3 DEF BgLater
<1> QED
  BY <1>4, <1>5

LEMMA CLater ==
    ASSUME BgInv, OpenHeaders \/ HeaderFile \/ Umbrella
    PROVE  BgLater
<1>1. WithinSteps(CSteps) /\ (Generating => \A p \in run.iface : run'.listed[p] = run.listed[p])
  BY CGoes
<1>2. Going /\ run'.phase \notin CMakeSteps /\ run.phase # "idle"
  BY <1>1 DEF WithinSteps, CSteps, CMakeSteps
<1>3. ScriptOrdered' /\ BuildGoesOn'
  BY <1>2, BuildUntouched DEF Going
<1>4. CASE ~Generating
  <2>1. run'.ask = NoAsk /\ outcome' = NoOutcome
    BY <1>2, <1>4 DEF Generating, Going, BgInv, RunReads
  <2>2. outcome'.ask = NoAsk
    BY <2>1 DEF NoOutcome
  <2> QED
    BY <1>3, <2>1, <2>2, NotGenerating DEF BgLater
<1>5. CASE Generating
  <2>1. AsLoaded' /\ RustIsCurrent' /\ HeadersAreCurrent'
    BY <1>1, <1>5, LoadedStays
  <2>2. CratesSoFar'
    <3>1. CASE RustFirst
      BY <3>1, CMakes
    <3>2. CASE ~RustFirst
      BY <1>2, <1>5, <3>2 DEF CratesSoFar, RustFirst, Going
    <3> QED
      BY <3>1, <3>2
  <2>3. HeadersSoFar'
    <3>1. CASE run.ask.force \/ run.anew
      BY <1>5, <3>1, OpenHeadersMakes, HeaderFileMakes, UmbrellaMakes
    <3>2. CASE ~(run.ask.force \/ run.anew)
      BY <1>2, <3>2 DEF HeadersSoFar, Going
    <3> QED
      BY <3>1, <3>2
  <2> QED
    BY <1>3, <2>1, <2>2, <2>3 DEF BgLater
<1> QED
  BY <1>4, <1>5

\* A run that ends without success, and what happens between runs.
LEMMA EndLater ==
    ASSUME BgInv, ReadFails \/ Kill
    PROVE  BgLater
<1>1. outcome'.result # "ok" /\ run' = Idle
  BY EndKeeps
<1>2. UNCHANGED <<share, world, script, built>>
  BY DEF ReadFails, Kill, Keeps, Output
<1>3. run'.ask = NoAsk /\ run'.phase = "idle"
  BY <1>1 DEF Idle
<1>4. ScriptOrdered' /\ BuildGoesOn'
  BY <1>2, <1>3, BuildUntouched DEF CMakeSteps
<1> QED
  BY <1>1, <1>3, <1>4, NotGenerating DEF BgLater

LEMMA EditLater ==
    ASSUME BgInv, \/ \E e \in world.edits : EditFile(e[1], e[2], e[3])
                  \/ \E e \in world.xmlEdits : EditXml(e[1], e[2])
    PROVE  BgLater
<1>1. /\ run' = Idle /\ UNCHANGED <<script, built>> /\ fresh' = FALSE
      /\ \A p \in Pkg : \A i : Stored(p, i) => Stored(p, i)'
  BY EditsKeep
<1>2. run'.ask = NoAsk /\ run'.phase = "idle"
  BY <1>1 DEF Idle
<1>3. ScriptOrdered' /\ BuildGoesOn'
  BY <1>1, <1>2, ScriptStays, BuildStays DEF BgInv, CMakeSteps
<1> QED
  BY <1>1, <1>2, <1>3, NotGenerating DEF BgLater

LEMMA CMakeLater ==
    ASSUME BgInv, Resolve \/ Build \/ CodegenPackage \/ CodegenFile \/ CodegenUmbrella
    PROVE  BgLater
<1>1. CASE Resolve
  <2>1. run'.ask = NoAsk /\ outcome'.ask = NoAsk
    <3>1. run' = Idle /\ outcome' = NoOutcome
      BY <1>1, ResolveKeeps DEF Resolve
    <3> QED
      BY <3>1 DEF Idle, NoOutcome
  <2> QED
    BY <1>1, <2>1, ResolveOrders, NotGenerating DEF BgLater
<1>2. CASE Build
  <2>1. run'.ask = NoAsk /\ outcome' = NoOutcome /\ UNCHANGED <<share, script>>
    BY <1>2, CMakeBegins DEF Build, Output
  <2>2. outcome'.ask = NoAsk
    BY <2>1 DEF NoOutcome
  <2>3. \A p \in Pkg : \A i : Stored(p, i) => Stored(p, i)'
    BY <2>1 DEF Stored
  <2>4. ScriptOrdered' /\ BuildGoesOn'
    BY <1>2, <2>1, <2>3, BuildBegins, ScriptStays DEF BgInv
  <2> QED
    BY <2>1, <2>2, <2>4, NotGenerating DEF BgLater
<1>3. CASE CodegenPackage \/ CodegenFile \/ CodegenUmbrella
  <2>1. run.phase \in CMakeSteps /\ UNCHANGED <<share, script>>
    BY <1>3 DEF CodegenPackage, CodegenFile, CodegenUmbrella, Reading, CMakeSteps, Keeps, Output
  <2>2. run.ask = NoAsk
    BY <2>1 DEF BgInv, AsLoaded, Generating, CMakeSteps, Steps, RustSteps, CSteps
  <2>3. run.phase # "idle"
    BY <2>1 DEF CMakeSteps
  <2>4. outcome = NoOutcome
    BY <2>3 DEF BgInv, RunReads
  <2>5. run'.ask = NoAsk /\ outcome'.ask = NoAsk
    <3>1. CASE CodegenPackage
      <4>1. CASE run.todo = <<>> /\ Ends("ok") /\ run' = Idle
        BY <2>2, <4>1 DEF Ends, Idle
      <4>2. CASE UNCHANGED outcome /\ run'.ask = run.ask
        BY <2>2, <2>4, <4>2 DEF NoOutcome
      <4> QED
        BY <3>1, <4>1, <4>2, CodegenPackageIs
    <3>2. CASE CodegenFile
      BY <2>2, <2>4, <3>2, CodegenFileWrites DEF CodegenFile, NoOutcome
    <3>3. CASE CodegenUmbrella
      BY <2>2, <2>4, <3>3, CodegenUmbrellaWrites DEF CodegenUmbrella, NoOutcome
    <3> QED
      BY <1>3, <3>1, <3>2, <3>3
  <2>6. \A p \in Pkg : \A i : Stored(p, i) => Stored(p, i)'
    BY <2>1 DEF Stored
  <2>7. ScriptOrdered'
    BY <2>1, <2>6, ScriptStays DEF BgInv
  <2>8. BuildGoesOn'
    BY <1>3, PackageGoesOn, FileGoesOn, UmbrellaGoesOn
  <2> QED
    BY <2>5, <2>7, <2>8, NotGenerating DEF BgLater
<1> QED
  BY <1>1, <1>2, <1>3

LEMMA BgTypesStep ==
    ASSUME BgInv, BgNext
    PROVE  BgTypes' /\ RunReads'
<1>1. CASE \E ask \in world.asks : Generate(ask)
  BY <1>1, GenerateKeeps
<1>2. CASE \E p \in world.single : GenerateOne(p)
  BY <1>2, GenerateOneKeeps
<1>3. CASE Resolve \/ Build
  BY <1>3, ResolveKeeps, CMakeBegins
<1>4. CASE NextLanguage \/ ReadFails \/ Kill
  BY <1>4, NextLanguageKeeps, EndKeeps
<1>5. CASE OpenCrate \/ RustFile \/ RustModules \/ CargoToml \/ RustDone \/ WriteConfig
  BY <1>5, OpenCrateKeeps, RustFileKeeps, RustModulesKeeps, CargoTomlKeeps, RustDoneKeeps, WriteConfigKeeps
<1>6. CASE \E old \in DOMAIN world.renames : RenameDir(old) \/ FixCrate(old)
  BY <1>6, RenameDirKeeps, FixCrateKeeps
<1>7. CASE OpenHeaders \/ HeaderFile \/ Umbrella
  BY <1>7, OpenHeadersKeeps, HeaderFileKeeps, UmbrellaKeeps
<1>8. CASE CodegenPackage \/ CodegenFile \/ CodegenUmbrella
  BY <1>8, CodegenPackageIs, CodegenFileWrites, CodegenUmbrellaWrites
<1>9. CASE \/ \E e \in world.edits : EditFile(e[1], e[2], e[3])
           \/ \E e \in world.xmlEdits : EditXml(e[1], e[2])
  BY <1>9, EditsKeep
<1> QED
  BY <1>1, <1>2, <1>3, <1>4, <1>5, <1>6, <1>7, <1>8, <1>9 DEF BgNext, RunStep

LEMMA BgStep ==
    ASSUME RenamesApart, BgInv, BgNext
    PROVE  BgInv'
<1>1. BgTypes' /\ RunReads'
  BY BgTypesStep
<1>2. BgLater
  <2>1. CASE \E ask \in world.asks : Generate(ask)
    BY <2>1, GenerateLater
  <2>2. CASE \E p \in world.single : GenerateOne(p)
    BY <2>2, GenerateOneLater
  <2>3. CASE Resolve \/ Build \/ CodegenPackage \/ CodegenFile \/ CodegenUmbrella
    BY <2>3, CMakeLater
  <2>4. CASE NextLanguage
    BY <2>4, NextLanguageLater
  <2>5. CASE ReadFails \/ Kill
    BY <2>5, EndLater
  <2>6. CASE \/ OpenCrate \/ RustFile \/ RustModules \/ CargoToml \/ RustDone \/ WriteConfig
             \/ \E old \in DOMAIN world.renames : RenameDir(old) \/ FixCrate(old)
    BY <2>6, RustLater
  <2>7. CASE OpenHeaders \/ HeaderFile \/ Umbrella
    BY <2>7, CLater
  <2>8. CASE \/ \E e \in world.edits : EditFile(e[1], e[2], e[3])
             \/ \E e \in world.xmlEdits : EditXml(e[1], e[2])
    BY <2>8, EditLater
  <2> QED
    BY <2>1, <2>2, <2>3, <2>4, <2>5, <2>6, <2>7, <2>8 DEF BgNext, RunStep
<1> QED
  BY <1>1, <1>2 DEF BgLater, BgInv

LEMMA BgBegins == ASSUME BgInit PROVE BgInv
<1>1. BgTypes /\ RunReads
  BY BgInitTypes
<1>2. /\ run.ask = NoAsk /\ run.phase = "idle" /\ outcome.result = "none" /\ script = None
      /\ built = [p \in Pkg |-> NoHeaders]
  BY DEF BgInit, Idle, NoOutcome
<1>3. AsLoaded /\ CratesSoFar /\ HeadersSoFar /\ ScriptOrdered
  BY <1>2 DEF AsLoaded, CratesSoFar, HeadersSoFar, ScriptOrdered, Generating
<1>4. RustIsCurrent /\ HeadersAreCurrent
  BY <1>2 DEF RustIsCurrent, HeadersAreCurrent, Did
<1>5. BuildGoesOn
  BY <1>2 DEF BuildGoesOn, NoHeaders, CMakeSteps
<1> QED
  BY <1>1, <1>3, <1>4, <1>5 DEF BgInv

LEMMA BgRests == ASSUME BgInv, UNCHANGED bgVars PROVE BgInv'
<1>1. UNCHANGED <<share, world, gen, script, built, run, outcome, fresh>>
  BY DEF bgVars
<1>2. \A p, i : Stored(p, i)' <=> Stored(p, i)
  BY <1>1 DEF Stored
<1>3. BgTypes'
  BY <1>1 DEF BgInv, BgTypes
<1>4. RunReads'
  BY <1>1 DEF BgInv, RunReads, Current, Stored
<1>5. /\ \A p : Place(p)' = Place(p) /\ At(p)' = At(p) /\ FilesOf(p)' = FilesOf(p)
      /\ \A p : NewOf(p)' = NewOf(p)
      /\ InterfacePackages' = InterfacePackages
  BY <1>1, IndexStays
<1>6. AsLoaded'
  BY <1>1, <1>5 DEF BgInv, AsLoaded, Generating
<1>7. CratesSoFar'
  BY <1>1, <1>5 DEF BgInv, CratesSoFar, Generating, Crated, InPlace, Made, Current
<1>8. HeadersSoFar'
  BY <1>1, <1>5 DEF BgInv, HeadersSoFar, Generating, Headed, Untouched, Current
<1>9. RustIsCurrent' /\ HeadersAreCurrent'
  BY <1>1, <1>5 DEF BgInv, RustIsCurrent, HeadersAreCurrent, Did, HeadersCurrent
<1>10. ScriptOrdered'
  BY <1>1, <1>2, ScriptStays DEF BgInv
<1>11. BuildGoesOn'
  BY <1>1 DEF BgInv, BuildGoesOn, Ordered, Umbrellaed, Current
<1> QED
  BY <1>3, <1>4, <1>6, <1>7, <1>8, <1>9, <1>10, <1>11 DEF BgInv

LEMMA BgHolds == ASSUME RenamesApart PROVE BgSpec => []BgInv
<1>1. BgInit => BgInv
  BY BgBegins
<1>2. BgInv /\ [BgNext]_bgVars => BgInv'
  BY BgStep, BgRests
<1> QED
  BY <1>1, <1>2, PTL DEF BgSpec

\* Whatever was killed, failed or edited before, generated bindings are current.
THEOREM BindingsStayCurrent == ASSUME RenamesApart PROVE BgSpec => []BindingsAreCurrent
<1>1. BgInv => BindingsAreCurrent
  <2> SUFFICES ASSUME BgInv PROVE HeadersFirst
    BY DEF BgInv, BindingsAreCurrent
  <2> QED
    BY DEF BgInv, BuildGoesOn, HeadersFirst
<1> QED
  BY <1>1, BgHolds, PTL

=============================================================================
