-------------------------- MODULE WorkspaceProofs --------------------------
(***************************************************************************)
(* Theorems about the two commands that fill a workspace: the provisioning *)
(* of its sources, and the generation of its interface packages.           *)
(*                                                                         *)
(* Sources.  For any processes and sources, a source that a step reports   *)
(* as provisioned is there with its nested submodules, and clone mode      *)
(* leaves a contributor's checkout alone.  A report lasts while other      *)
(* processes work on the same dest: no command takes anything away from a  *)
(* whole tree, and the one that could, a git clone that fails and removes  *)
(* what it cloned, has the dest for itself (Cloning).                      *)
(*                                                                         *)
(* Interface packages.  For any packages, versions, dependencies and       *)
(* interruptions, what the freshness check calls up to date has code of    *)
(* the current interface files.  The check only sees the generated         *)
(* Cargo.toml and the file times, so the argument is about the order       *)
(* generate_package writes in: by the time it touches the Cargo.toml, the  *)
(* code is that of the current files (Settled), and nobody edits them      *)
(* while a command runs; and code is only taken apart where the Cargo.toml *)
(* is missing or older than some interface file.  What the scan reaches is *)
(* typed first, by induction over the steps of Reach.                      *)
(***************************************************************************)
EXTENDS SourceProvision, WsSync, FiniteSetTheorems, WellFoundedInduction, TLAPS

-----------------------------------------------------------------------------
(* The provisioning of sources.                                            *)

ShallowSteps == {"init", "remote add", "fetch", "checkout"}
FullSteps == {"clone", "cloning", "checkout ref"}
SubmoduleSteps == {"update", "ls-tree", "fetch sha", "checkout sha", "nested sha"}

SpTypes ==
    /\ dest \in [Source -> Stages]
    /\ at \in [Runner -> GitSteps \cup Dispositions \cup {"idle", "err"}]
    /\ src \in [Runner -> Source \cup {NoSource}]

\* Each process is in the commands of its source's mode.
InMode ==
    \A q \in Runner :
        /\ at[q] # "idle" => src[q] \in Source
        /\ at[q] \in ShallowSteps => Mode[src[q]] = "clone" /\ src[q] \in Shallow
        /\ at[q] \in FullSteps => Mode[src[q]] = "clone" /\ src[q] \notin Shallow
        /\ at[q] = "nested" => Mode[src[q]] = "clone"
        /\ at[q] \in SubmoduleSteps => Mode[src[q]] = "submodule"

\* A git clone is the only process in its dest, and what comes after one finds
\* what it cloned.
Cloning ==
    /\ \A q \in Runner : at[q] = "cloning" => dest[src[q]] = "cloning"
    /\ \A q, r \in Runner : at[q] = "cloning" /\ at[r] = "cloning" /\ src[q] = src[r] => q = r
    /\ \A q \in Runner : at[q] = "checkout ref" => dest[src[q]] \in {"tip", "pinned", "whole"}
    /\ \A q \in Runner : at[q] = "nested" => dest[src[q]] \in {"pinned", "whole"}

Reported == \A q \in Runner : at[q] = Provisioned => dest[src[q]] = "whole"

\* Nobody works in a contributor's checkout.
UserAlone ==
    \A q \in Runner, s \in Source :
        dest[s] = "user" /\ Mode[s] = "clone" /\ src[q] = s => at[q] \notin GitSteps

SpInv ==
    /\ SpTypes
    /\ InMode
    /\ Cloning
    /\ Reported
    /\ UserAlone

SpSpec == SpInit /\ [][SpNext]_provVars

-----------------------------------------------------------------------------
(* The initial states.                                                      *)

LEMMA SpInitially == SpInit => SpInv
<1> SUFFICES ASSUME SpInit PROVE SpInv
  OBVIOUS
<1>1. SpTypes
  BY DEF SpInit, SpTypes, Stages
<1>2. \A q \in Runner : at[q] = "idle"
  BY DEF SpInit
<1>3. InMode
  BY <1>2 DEF InMode, ShallowSteps, FullSteps, SubmoduleSteps
<1>4. Cloning /\ Reported /\ UserAlone
  BY <1>2 DEF Cloning, Reported, UserAlone, Provisioned, GitSteps
<1> QED
  BY <1>1, <1>3, <1>4 DEF SpInv

-----------------------------------------------------------------------------
(* What a git command must see to, so that the invariant stays true.        *)

\* `to` is a command of the source's mode, or the end of the sequence.
Follows(s, to) ==
    /\ to \in GitSteps \cup {Provisioned, "err"}
    /\ to \in ShallowSteps => Mode[s] = "clone" /\ s \in Shallow
    /\ to \in FullSteps => Mode[s] = "clone" /\ s \notin Shallow
    /\ to = "nested" => Mode[s] = "clone"
    /\ to \in SubmoduleSteps => Mode[s] = "submodule"

\* What the next command, or the report, relies on is there.
Prepares(stage, to) ==
    /\ to = "cloning" => stage = "cloning"
    /\ to = "checkout ref" => stage \in {"tip", "pinned", "whole"}
    /\ to = "nested" => stage \in {"pinned", "whole"}
    /\ to = Provisioned => stage = "whole"

\* No other process loses what it relies on.
TakesNothing(s, stage) ==
    /\ stage \in Stages
    /\ dest[s] \in {"tip", "pinned", "whole"} => stage \in {"tip", "pinned", "whole"}
    /\ dest[s] \in {"pinned", "whole"} => stage \in {"pinned", "whole"}
    /\ dest[s] = "whole" => stage = "whole"
    /\ stage = "user" => dest[s] = "user"

\* No other process clones into the dest.
ClonesAlone(q) == \A r \in Runner : at[r] = "cloning" /\ src[r] = src[q] => r = q

LEMMA CommandKeeps ==
    ASSUME SpInv, NEW q \in Runner, NEW here \in GitSteps, NEW stage, NEW to,
           Leaves(q, here, stage, to), Follows(src[q], to), Prepares(stage, to),
           TakesNothing(src[q], stage), ClonesAlone(q)
    PROVE  SpInv'
<1>1. /\ at[q] = here
      /\ dest' = [dest EXCEPT ![src[q]] = stage]
      /\ at' = [at EXCEPT ![q] = to]
      /\ src' = src
  BY DEF Leaves, Go
<1>2. here # "idle" /\ src[q] \in Source
  BY <1>1 DEF SpInv, InMode, GitSteps
<1>3. /\ at'[q] = to
      /\ \A r \in Runner \ {q} : at'[r] = at[r]
      /\ dest'[src[q]] = stage
      /\ \A s \in Source \ {src[q]} : dest'[s] = dest[s]
  BY <1>1, <1>2 DEF SpInv, SpTypes
<1>4. SpTypes'
  BY <1>1 DEF SpInv, SpTypes, Follows, TakesNothing, Dispositions
<1>5. InMode'
  BY <1>1, <1>2, <1>3
     DEF SpInv, InMode, Follows, ShallowSteps, FullSteps, SubmoduleSteps
<1>6. \A r \in Runner : at[r] # "idle" => src[r] \in Source
  BY DEF SpInv, InMode
<1>7. Cloning'
  <2>1. \A r \in Runner : at'[r] = "cloning" => dest'[src'[r]] = "cloning"
    BY <1>1, <1>3, <1>6 DEF SpInv, Cloning, Prepares, ClonesAlone
  <2>2. \A r, t \in Runner :
           at'[r] = "cloning" /\ at'[t] = "cloning" /\ src'[r] = src'[t] => r = t
    BY <1>1, <1>3 DEF SpInv, Cloning, ClonesAlone
  <2>3. ASSUME NEW r \in Runner, at'[r] = "checkout ref"
        PROVE  dest'[src'[r]] \in {"tip", "pinned", "whole"}
    <3>1. CASE r = q
      BY <1>1, <1>2, <1>3, <2>3, <3>1 DEF Prepares
    <3>2. CASE r # q
      <4>1. src[r] \in Source /\ dest[src[r]] \in {"tip", "pinned", "whole"}
        BY <1>3, <1>6, <2>3, <3>2 DEF SpInv, Cloning
      <4> QED
        BY <1>1, <1>3, <4>1 DEF TakesNothing
    <3> QED
      BY <3>1, <3>2
  <2>4. \A r \in Runner : at'[r] = "nested" => dest'[src'[r]] \in {"pinned", "whole"}
    <3>1. to = "nested" => stage \in {"pinned", "whole"}
      BY DEF Prepares
    <3>2. \A r \in Runner : at[r] = "nested" => dest[src[r]] \in {"pinned", "whole"}
      BY DEF SpInv, Cloning
    <3>3. dest[src[q]] \in {"pinned", "whole"} => stage \in {"pinned", "whole"}
      BY DEF TakesNothing
    <3> QED
      BY <1>1, <1>3, <1>6, <3>1, <3>2, <3>3
  <2> QED
    BY <2>1, <2>2, <2>3, <2>4 DEF Cloning
<1>8. Reported'
  BY <1>1, <1>3, <1>6
     DEF SpInv, Reported, Prepares, TakesNothing, Provisioned
<1>9. UserAlone'
  BY <1>1, <1>2, <1>3 DEF SpInv, UserAlone, TakesNothing
<1> QED
  BY <1>4, <1>5, <1>7, <1>8, <1>9 DEF SpInv

\* A step that leaves every dest as it is and moves one process out of the
\* commands, or on to a command of its source's mode.
LEMMA MoveKeeps ==
    ASSUME SpInv, NEW q \in Runner, NEW to, Go(q, to), dest' = dest,
           src' \in [Runner -> Source \cup {NoSource}],
           \A r \in Runner \ {q} : src'[r] = src[r],
           to \in GitSteps \cup Dispositions \cup {"idle", "err"},
           to # "idle" => src'[q] \in Source,
           to \notin {"cloning", "checkout ref", "nested", Provisioned},
           to \in GitSteps => /\ Follows(src'[q], to)
                              /\ ~(dest[src'[q]] = "user" /\ Mode[src'[q]] = "clone")
    PROVE  SpInv'
<1>1. /\ at'[q] = to
      /\ \A r \in Runner \ {q} : at'[r] = at[r] /\ src'[r] = src[r]
  BY DEF Go, SpInv, SpTypes
<1>2. SpTypes'
  BY DEF SpInv, SpTypes, Go
<1>3. InMode'
  BY <1>1 DEF SpInv, InMode, Follows, ShallowSteps, FullSteps, SubmoduleSteps, GitSteps
<1>4. Cloning'
  <2>1. \A r \in Runner : at'[r] \in {"cloning", "checkout ref", "nested"} =>
           r # q /\ at'[r] = at[r] /\ src'[r] = src[r]
    BY <1>1
  <2>2. /\ \A r \in Runner : at'[r] = "cloning" => dest[src'[r]] = "cloning"
        /\ \A r \in Runner :
              at'[r] = "checkout ref" => dest[src'[r]] \in {"tip", "pinned", "whole"}
        /\ \A r \in Runner : at'[r] = "nested" => dest[src'[r]] \in {"pinned", "whole"}
    BY <2>1 DEF SpInv, Cloning
  <2>3. \A r, t \in Runner :
           at'[r] = "cloning" /\ at'[t] = "cloning" /\ src'[r] = src'[t] => r = t
    <3>1. \A r, t \in Runner :
             at[r] = "cloning" /\ at[t] = "cloning" /\ src[r] = src[t] => r = t
      BY DEF SpInv, Cloning
    <3> QED
      BY <2>1, <3>1
  <2> QED
    BY <2>2, <2>3 DEF Cloning
<1>5. Reported'
  BY <1>1 DEF SpInv, Reported
<1>6. UserAlone'
  BY <1>1 DEF SpInv, UserAlone
<1> QED
  BY <1>2, <1>3, <1>4, <1>5, <1>6 DEF SpInv

-----------------------------------------------------------------------------
(* The actions.                                                             *)

LEMMA BeginKeeps ==
    ASSUME SpInv, NEW q \in Runner, NEW s \in Source, Begin(q, s) PROVE SpInv'
<1>1. /\ at[q] = "idle"
      /\ src' = [src EXCEPT ![q] = s]
      /\ dest' = dest
  BY DEF Begin, BeginClone
<1>2. /\ src' \in [Runner -> Source \cup {NoSource}]
      /\ src'[q] = s
      /\ \A r \in Runner \ {q} : src'[r] = src[r]
  BY <1>1 DEF SpInv, SpTypes
<1>3. CASE Mode[s] = "none" /\ Go(q, NoFetch)
  BY <1>1, <1>2, <1>3, MoveKeeps DEF NoFetch, Dispositions, GitSteps, Provisioned
<1>4. CASE Mode[s] = "submodule" /\ Go(q, "update")
  BY <1>1, <1>2, <1>4, MoveKeeps
     DEF GitSteps, Provisioned, Follows, ShallowSteps, FullSteps, SubmoduleSteps
<1>5. CASE Mode[s] = "clone" /\ dest[s] # "absent" /\ Go(q, AlreadyPresent)
  BY <1>1, <1>2, <1>5, MoveKeeps DEF AlreadyPresent, Dispositions, GitSteps, Provisioned
<1>6. CASE Mode[s] = "clone" /\ dest[s] = "absent" /\ s \in Shallow /\ Go(q, "init")
  BY <1>1, <1>2, <1>6, MoveKeeps
     DEF GitSteps, Provisioned, Follows, ShallowSteps, FullSteps, SubmoduleSteps
<1>7. CASE Mode[s] = "clone" /\ dest[s] = "absent" /\ s \notin Shallow /\ Go(q, "clone")
  BY <1>1, <1>2, <1>7, MoveKeeps
     DEF GitSteps, Provisioned, Follows, ShallowSteps, FullSteps, SubmoduleSteps
<1> QED
  BY <1>3, <1>4, <1>5, <1>6, <1>7 DEF Begin, BeginClone

\* What a process in the middle of a sequence may count on.
LEMMA AtCommand ==
    ASSUME SpInv, NEW q \in Runner, at[q] \in GitSteps
    PROVE  /\ src[q] \in Source
           /\ dest[src[q]] \in Stages
           /\ ~(dest[src[q]] = "user" /\ Mode[src[q]] = "clone")
           /\ (\A r \in Runner : at[r] = "cloning" /\ src[r] = src[q] => r = q)
              \/ /\ dest[src[q]] = "cloning"
                 /\ at[q] # "cloning"
                 /\ src[q] \notin Shallow
                 /\ Mode[src[q]] = "clone"
<1>1. src[q] \in Source
  BY DEF SpInv, InMode, GitSteps
<1>2. \A r \in Runner : at[r] = "cloning" =>
         dest[src[r]] = "cloning" /\ src[r] \notin Shallow /\ Mode[src[r]] = "clone"
  BY DEF SpInv, InMode, Cloning, FullSteps
<1>3. dest[src[q]] \in Stages /\ ~(dest[src[q]] = "user" /\ Mode[src[q]] = "clone")
  BY <1>1 DEF SpInv, SpTypes, UserAlone
<1> QED
  BY <1>1, <1>2, <1>3 DEF SpInv, Cloning

LEMMA ErrKeeps ==
    ASSUME SpInv, NEW q \in Runner, at[q] \in GitSteps, Err(q) PROVE SpInv'
<1>1. Go(q, "err") /\ dest' = dest /\ src' = src
  BY DEF Err
<1>2. src[q] \in Source
  BY AtCommand
<1>3. src' \in [Runner -> Source \cup {NoSource}]
  BY <1>1 DEF SpInv, SpTypes
<1> QED
  BY <1>1, <1>2, <1>3, MoveKeeps DEF GitSteps, Provisioned

\* Shallow clone.
LEMMA ShallowKeeps ==
    ASSUME SpInv, NEW q \in Runner, GitInit(q) \/ RemoteAdd(q) \/ GitFetch(q) PROVE SpInv'
<1>1. at[q] \in ShallowSteps /\ at[q] \in GitSteps
  BY DEF GitInit, RemoteAdd, GitFetch, Leaves, ShallowSteps, GitSteps
<1>2. /\ Mode[src[q]] = "clone"
      /\ src[q] \in Shallow
  BY <1>1 DEF SpInv, InMode
<1>3. ClonesAlone(q) /\ dest[src[q]] \in Stages
  BY <1>1, <1>2, AtCommand DEF ClonesAlone
<1>4. \A to \in {"remote add", "fetch", "checkout"} :
         Follows(src[q], to) /\ \A stage : Prepares(stage, to)
  BY <1>2 DEF Follows, Prepares, GitSteps, Provisioned, ShallowSteps, FullSteps,
              SubmoduleSteps
<1>5. \A stage \in {"init", "remote", "fetched"} :
         dest[src[q]] \in {"absent", "init", "remote"} => TakesNothing(src[q], stage)
  BY DEF TakesNothing, Stages
<1>6. TakesNothing(src[q], dest[src[q]])
  BY <1>3 DEF TakesNothing
<1>7. CASE GitInit(q)
  <2>1. Leaves(q, "init", IF Tree(q) = "absent" THEN "init" ELSE Tree(q), "remote add")
    BY <1>7 DEF GitInit
  <2>2. TakesNothing(src[q], IF Tree(q) = "absent" THEN "init" ELSE Tree(q))
    BY <1>5, <1>6 DEF Tree
  <2> QED
    BY <1>3, <1>4, <2>1, <2>2, CommandKeeps DEF GitSteps
<1>8. CASE RemoteAdd(q)
  <2>1. CASE Tree(q) = "init" /\ Leaves(q, "remote add", "remote", "fetch")
    BY <1>3, <1>4, <1>5, <2>1, CommandKeeps DEF GitSteps, Tree
  <2>2. CASE Tree(q) = "user" /\ Leaves(q, "remote add", "user", "fetch")
    BY <1>1, <1>2, <2>2, AtCommand DEF Tree
  <2>3. CASE Err(q)
    BY <1>1, <2>3, ErrKeeps
  <2> QED
    BY <1>8, <2>1, <2>2, <2>3 DEF RemoteAdd
<1>9. CASE GitFetch(q)
  <2>1. Leaves(q, "fetch", IF Tree(q) = "remote" THEN "fetched" ELSE Tree(q), "checkout")
    BY <1>9 DEF GitFetch
  <2>2. TakesNothing(src[q], IF Tree(q) = "remote" THEN "fetched" ELSE Tree(q))
    BY <1>5, <1>6 DEF Tree
  <2> QED
    BY <1>3, <1>4, <2>1, <2>2, CommandKeeps DEF GitSteps
<1> QED
  BY <1>7, <1>8, <1>9

\* The commands that bring a source, or its nested submodules, to the end.
LEMMA CheckedOutKeeps ==
    ASSUME SpInv, NEW q \in Runner, NEW here \in GitSteps, NEW nested,
           CheckedOut(q, here, nested), nested \in {"nested", "nested sha"},
           Follows(src[q], nested), ClonesAlone(q)
    PROVE  SpInv'
<1>1. Follows(src[q], Provisioned)
  BY DEF Follows, Provisioned, ShallowSteps, FullSteps, SubmoduleSteps
<1>2. \A stage \in {"whole", "pinned"} :
         (dest[src[q]] = "whole" => stage = "whole") => TakesNothing(src[q], stage)
  BY DEF TakesNothing, Stages
<1>3. CASE src[q] \in Recursive
  <2> DEFINE stage == IF Tree(q) = "whole" THEN "whole" ELSE "pinned"
  <2>1. Leaves(q, here, stage, nested)
    BY <1>3 DEF CheckedOut
  <2>2. TakesNothing(src[q], stage)
    BY <1>2 DEF Tree
  <2>3. Prepares(stage, nested)
    BY DEF Prepares, Provisioned
  <2> HIDE DEF stage
  <2> QED
    BY <2>1, <2>2, <2>3, CommandKeeps
<1>4. CASE src[q] \notin Recursive
  <2>1. Leaves(q, here, "whole", Provisioned)
    BY <1>4 DEF CheckedOut
  <2>2. Prepares("whole", Provisioned)
    BY DEF Prepares, Provisioned
  <2> QED
    BY <1>1, <1>2, <2>1, <2>2, CommandKeeps
<1> QED
  BY <1>3, <1>4

LEMMA WholeKeeps ==
    ASSUME SpInv, NEW q \in Runner, NEW here \in GitSteps, ClonesAlone(q),
           Leaves(q, here, "whole", Provisioned)
    PROVE  SpInv'
<1>1. Follows(src[q], Provisioned)
  BY DEF Follows, Provisioned, ShallowSteps, FullSteps, SubmoduleSteps
<1>2. TakesNothing(src[q], "whole") /\ Prepares("whole", Provisioned)
  BY DEF TakesNothing, Stages, Prepares, Provisioned
<1> QED
  BY <1>1, <1>2, CommandKeeps

\* A process that finds what a clone leaves, or is in submodule mode, or in a
\* shallow clone, has no clone beside it.
LEMMA NoCloneBeside ==
    ASSUME SpInv, NEW q \in Runner,
           at[q] \in ShallowSteps \cup SubmoduleSteps \cup {"cloning", "checkout ref", "nested"}
    PROVE  ClonesAlone(q)
<1>1. at[q] \in GitSteps
  BY DEF ShallowSteps, SubmoduleSteps, GitSteps
<1>2. at[q] \in {"checkout ref", "nested"} => dest[src[q]] # "cloning"
  BY DEF SpInv, Cloning
<1>3. /\ at[q] \in ShallowSteps => src[q] \in Shallow
      /\ at[q] \in SubmoduleSteps => Mode[src[q]] = "submodule"
  BY DEF SpInv, InMode
<1> QED
  BY <1>1, <1>2, <1>3, AtCommand DEF ClonesAlone

LEMMA CheckoutKeeps ==
    ASSUME SpInv, NEW q \in Runner, Checkout(q) \/ CheckoutRef(q) PROVE SpInv'
<1>1. \E here \in {"checkout", "checkout ref"} :
         CheckedOut(q, here, "nested") /\ at[q] = here
  BY DEF Checkout, CheckoutRef, CheckedOut, Leaves
<1>2. PICK here \in {"checkout", "checkout ref"} :
         CheckedOut(q, here, "nested") /\ at[q] = here
  BY <1>1
<1>3. Follows(src[q], "nested")
  BY <1>2 DEF SpInv, InMode, Follows, ShallowSteps, FullSteps, SubmoduleSteps, GitSteps,
              Provisioned
<1>4. ClonesAlone(q)
  BY <1>2, NoCloneBeside DEF ShallowSteps
<1> QED
  BY <1>2, <1>3, <1>4, CheckedOutKeeps DEF GitSteps

LEMMA NestedKeeps ==
    ASSUME SpInv, NEW q \in Runner, Nested(q) \/ NestedSha(q) \/ SubmoduleUpdate(q) PROVE SpInv'
<1>1. PICK here \in {"nested", "nested sha", "update"} :
         Leaves(q, here, "whole", Provisioned) /\ at[q] = here
  BY DEF Nested, NestedSha, SubmoduleUpdate, Leaves
<1>2. ClonesAlone(q)
  BY <1>1, NoCloneBeside DEF SubmoduleSteps
<1> QED
  BY <1>1, <1>2, WholeKeeps DEF GitSteps

\* Full clone.
LEMMA CloneKeeps ==
    ASSUME SpInv, NEW q \in Runner, CloneStart(q) \/ CloneDone(q) \/ GitCloneFails(q) PROVE SpInv'
<1>1. at[q] \in {"clone", "cloning"} /\ at[q] \in GitSteps
  BY DEF CloneStart, CloneDone, GitCloneFails, Leaves, GitSteps
<1>2. Mode[src[q]] = "clone" /\ src[q] \notin Shallow
  BY <1>1 DEF SpInv, InMode, FullSteps
<1>3. \A to \in {"cloning", "checkout ref", "err"} : Follows(src[q], to)
  BY <1>2 DEF Follows, GitSteps, ShallowSteps, FullSteps, SubmoduleSteps
<1>4. CASE CloneStart(q)
  <2>1. CASE Tree(q) = "absent" /\ Leaves(q, "clone", "cloning", "cloning")
    <3>1. ClonesAlone(q)
      BY <1>1, <2>1, AtCommand DEF ClonesAlone, Tree
    <3>2. TakesNothing(src[q], "cloning")
      BY <2>1 DEF TakesNothing, Stages, Tree
    <3>3. Prepares("cloning", "cloning")
      BY DEF Prepares, Provisioned
    <3> QED
      BY <1>3, <2>1, <3>1, <3>2, <3>3, CommandKeeps DEF GitSteps
  <2>2. CASE Err(q)
    BY <1>1, <2>2, ErrKeeps
  <2> QED
    BY <1>4, <2>1, <2>2 DEF CloneStart
<1>5. CASE at[q] = "cloning"
  <2>1. ClonesAlone(q)
    BY <1>5, NoCloneBeside
  <2>2. dest[src[q]] = "cloning"
    BY <1>5 DEF SpInv, Cloning
  <2>3. \A stage \in {"tip", "absent"} : TakesNothing(src[q], stage)
    BY <2>2 DEF TakesNothing, Stages
  <2>4. Prepares("tip", "checkout ref") /\ Prepares("absent", "err")
    BY DEF Prepares, Provisioned
  <2>5. CASE Leaves(q, "cloning", "tip", "checkout ref")
    BY <1>3, <2>1, <2>3, <2>4, <2>5, CommandKeeps DEF GitSteps
  <2>6. CASE Leaves(q, "cloning", "absent", "err")
    BY <1>3, <2>1, <2>3, <2>4, <2>6, CommandKeeps DEF GitSteps
  <2>7. ~CloneStart(q)
    BY <1>5 DEF CloneStart
  <2> QED
    BY <2>5, <2>6, <2>7 DEF CloneDone, GitCloneFails
<1> QED
  BY <1>4, <1>5 DEF CloneDone, GitCloneFails, Leaves

\* Submodule mode.
LEMMA SubmoduleKeeps ==
    ASSUME SpInv, NEW q \in Runner,
           UpdateFails(q) \/ LsTree(q) \/ FetchSha(q) \/ CheckoutSha(q)
    PROVE  SpInv'
<1>1. at[q] \in SubmoduleSteps /\ at[q] \in GitSteps
  BY DEF UpdateFails, LsTree, FetchSha, CheckoutSha, CheckedOut, Leaves,
         SubmoduleSteps, GitSteps
<1>2. Mode[src[q]] = "submodule"
  BY <1>1 DEF SpInv, InMode
<1>3. /\ ClonesAlone(q)
      /\ src[q] \in Source
      /\ dest[src[q]] \in Stages
  BY <1>1, NoCloneBeside, AtCommand
<1>4. \A to \in {"ls-tree", "fetch sha", "checkout sha", "nested sha", "err"} :
         Follows(src[q], to) /\ \A stage : Prepares(stage, to)
  BY <1>2 DEF Follows, Prepares, GitSteps, Provisioned, ShallowSteps, FullSteps,
              SubmoduleSteps
<1>5. TakesNothing(src[q], dest[src[q]])
  BY <1>3 DEF TakesNothing
<1>6. CASE UpdateFails(q)
  <2>1. PICK stage \in AfterFailedUpdate(q) :
           Leaves(q, "update", stage, IF src[q] \in Shallow THEN "ls-tree" ELSE "err")
    BY <1>6 DEF UpdateFails
  <2>2. TakesNothing(src[q], stage)
    BY <1>5, <2>1 DEF AfterFailedUpdate, Tree, TakesNothing, Stages
  <2>3. PICK to \in {"ls-tree", "err"} : Leaves(q, "update", stage, to)
    BY <2>1
  <2> QED
    BY <1>3, <1>4, <2>2, <2>3, CommandKeeps DEF GitSteps
<1>7. CASE LsTree(q)
  <2>1. Go(q, "fetch sha") /\ dest' = dest /\ src' = src
    BY <1>7 DEF LsTree
  <2>2. src' \in [Runner -> Source \cup {NoSource}]
    BY <2>1 DEF SpInv, SpTypes
  <2> QED
    BY <1>2, <1>3, <1>4, <2>1, <2>2, MoveKeeps DEF GitSteps, Provisioned
<1>8. CASE FetchSha(q)
  <2>1. CASE Err(q)
    BY <1>1, <2>1, ErrKeeps
  <2>2. CASE Leaves(q, "fetch sha", Tree(q), "checkout sha")
    BY <1>3, <1>4, <1>5, <2>2, CommandKeeps DEF GitSteps, Tree
  <2> QED
    BY <1>8, <2>1, <2>2 DEF FetchSha
<1>9. CASE CheckoutSha(q)
  BY <1>3, <1>4, <1>9, CheckedOutKeeps DEF CheckoutSha, GitSteps
<1> QED
  BY <1>6, <1>7, <1>8, <1>9

LEMMA EndKeeps ==
    ASSUME SpInv, NEW q \in Runner, Take(q) \/ Killed(q) PROVE SpInv'
<1>1. Go(q, "idle") /\ src' = [src EXCEPT ![q] = NoSource] /\ dest' = dest
  BY DEF Take, Killed
<1>2. /\ src' \in [Runner -> Source \cup {NoSource}]
      /\ \A r \in Runner \ {q} : src'[r] = src[r]
  BY <1>1 DEF SpInv, SpTypes
<1> QED
  BY <1>1, <1>2, MoveKeeps DEF GitSteps, Provisioned

LEMMA SpStep == SpInv /\ [SpNext]_provVars => SpInv'
<1> SUFFICES ASSUME SpInv, [SpNext]_provVars PROVE SpInv'
  OBVIOUS
<1>1. CASE UNCHANGED provVars
  BY <1>1 DEF provVars, SpInv, SpTypes, InMode, Cloning, Reported, UserAlone
<1>2. ASSUME NEW q \in Runner, NEW s \in Source, Begin(q, s) PROVE SpInv'
  BY <1>2, BeginKeeps
<1>3. ASSUME NEW q \in Runner, Git(q) PROVE SpInv'
  BY <1>3, ShallowKeeps, CheckoutKeeps, NestedKeeps, CloneKeeps, SubmoduleKeeps DEF Git
<1>4. ASSUME NEW q \in Runner, Fails(q) PROVE SpInv'
  BY <1>4, CloneKeeps, SubmoduleKeeps, ErrKeeps DEF Fails, GitFails
<1>5. ASSUME NEW q \in Runner, Take(q) \/ Killed(q) PROVE SpInv'
  BY <1>5, EndKeeps
<1> QED
  BY <1>1, <1>2, <1>3, <1>4, <1>5 DEF SpNext

LEMMA SpInvariant == SpSpec => []SpInv
<1> QED
  BY SpInitially, SpStep, PTL DEF SpSpec

-----------------------------------------------------------------------------
\* Every step that changes a dest is a git command of a process that works there.
LEMMA OnlyCommandsChange ==
    ASSUME SpInv, SpNext
    PROVE  \/ dest' = dest
           \/ \E q \in Runner : /\ at[q] \in GitSteps
                                /\ \A s \in Source \ {src[q]} : dest'[s] = dest[s]
<1>1. ASSUME NEW q \in Runner, NEW here \in GitSteps, NEW stage, NEW to,
             Leaves(q, here, stage, to)
      PROVE  at[q] \in GitSteps /\ \A s \in Source \ {src[q]} : dest'[s] = dest[s]
  BY <1>1 DEF Leaves, SpInv, SpTypes
<1>2. ASSUME NEW q \in Runner, Git(q) \/ Fails(q)
      PROVE  \/ dest' = dest
             \/ \E here \in GitSteps : \E stage, to : Leaves(q, here, stage, to)
  BY <1>2
     DEF Git, Fails, GitSteps, GitInit, RemoteAdd, GitFetch, Checkout, Nested, CloneStart,
         CloneDone, CheckoutRef, SubmoduleUpdate, LsTree, FetchSha, CheckoutSha, NestedSha,
         CheckedOut, GitCloneFails, UpdateFails, GitFails, Err
<1>3. ASSUME NEW q \in Runner, (\E s \in Source : Begin(q, s)) \/ Take(q) \/ Killed(q)
      PROVE  dest' = dest
  BY <1>3 DEF Begin, BeginClone, Take, Killed
<1> QED
  BY <1>1, <1>2, <1>3 DEF SpNext

\* For any processes and sources: what a step reports as provisioned is there with
\* its nested submodules, whatever the other processes do meanwhile; and no step of
\* clone mode touches a contributor's checkout.
THEOREM ProvisionedIsWhole == SpSpec => TreesAreWhole
<1>1. SpInv /\ SpInv' /\ [SpNext]_provVars =>
         [/\ \A q \in Runner : at'[q] = Provisioned => (Tree(q) = "whole")'
          /\ \A s \in Source : Mode[s] = "clone" /\ dest[s] = "user" => dest'[s] = "user"]_provVars
  <2> SUFFICES ASSUME SpInv, SpInv', SpNext
               PROVE  /\ \A q \in Runner : at'[q] = Provisioned => (Tree(q) = "whole")'
                      /\ \A s \in Source : Mode[s] = "clone" /\ dest[s] = "user"
                                              => dest'[s] = "user"
    OBVIOUS
  <2>1. \A q \in Runner : at'[q] = Provisioned => (Tree(q) = "whole")'
    BY DEF SpInv, Reported, Tree, Provisioned
  <2>2. ASSUME NEW s \in Source, Mode[s] = "clone", dest[s] = "user" PROVE dest'[s] = "user"
    BY <2>2, OnlyCommandsChange DEF SpInv, UserAlone
  <2> QED
    BY <2>1, <2>2
<1> QED
  BY <1>1, SpInvariant, PTL DEF SpSpec, TreesAreWhole



-----------------------------------------------------------------------------
(* Induction over the natural numbers, for sets.                           *)

Smaller == {pair \in Nat \X Nat : pair[1] < pair[2]}

LEMMA SmallerWellFounded == IsWellFoundedOn(Smaller, Nat)
BY NatLessThanWellFounded DEF Smaller, OpToRel

\* A set of numbers that is not empty has a least one.
LEMMA Least ==
    ASSUME NEW T \in SUBSET Nat, T # {}
    PROVE  \E x \in T : \A y \in T : x <= y
<1>1. PICK x \in T : \A y \in T : ~(<<y, x>> \in Smaller)
  BY SmallerWellFounded, WFMin
<1>2. ASSUME NEW y \in T PROVE x <= y
  <2>1. x \in Nat /\ y \in Nat
    OBVIOUS
  <2>2. y < x => <<y, x>> \in Smaller
    BY <2>1 DEF Smaller
  <2>3. ~(y < x)
    BY <1>1, <2>2
  <2> QED
    BY <2>1, <2>3
<1> QED
  BY <1>2

\* A set with 0 and the successor of each of its members has every number.
LEMMA Induction ==
    ASSUME NEW T \in SUBSET Nat, 0 \in T, \A n \in T : n + 1 \in T
    PROVE  T = Nat
<1> SUFFICES ASSUME Nat \ T # {} PROVE FALSE
  OBVIOUS
<1>1. PICK x \in Nat \ T : \A y \in Nat \ T : x <= y
  BY Least
<1>2. x - 1 \in T
  BY <1>1
<1> QED
  BY <1>1, <1>2

-----------------------------------------------------------------------------
(* What the scan finds.                                                    *)

\* Reach stays in a set that holds where it starts and where it can go from there
\* (the recursion of scan_one_pkg_dir_inner, the worklist of codegen_ament_deps_for).
LEMMA ReachStays ==
    ASSUME NEW S, NEW P \in SUBSET S, NEW next, NEW n \in Nat,
           \A p \in S : next[p] \subseteq S
    PROVE  Reach(P, next, n) \subseteq S
<1> DEFINE Step(g, k) == IF k = 0 THEN P
                         ELSE g[k - 1] \cup UNION {next[p] : p \in g[k - 1]}
           Is(g, m) == g = [k \in 0 .. m |-> Step(g, k)]
           T == {m \in Nat : \E g : Is(g, m)}
\* The recursive definition has a solution, for every number of steps.
<1>1. 0 \in T
  <2> DEFINE g == [k \in 0 .. 0 |-> P]
  <2>1. Is(g, 0)
    OBVIOUS
  <2> QED
    BY <2>1
<1>2. ASSUME NEW m \in T PROVE m + 1 \in T
  <2>1. PICK g : Is(g, m)
    OBVIOUS
  <2> DEFINE h == [k \in 0 .. m + 1 |-> Step(g, k)]
  <2>2. \A k \in 0 .. m : g[k] = Step(g, k)
    BY <2>1
  <2>3. \A k \in 0 .. m : k \in 0 .. m + 1
    OBVIOUS
  <2>4. \A k \in 0 .. m : h[k] = g[k]
    BY <2>2, <2>3
  <2>5. ASSUME NEW k \in 0 .. m + 1 PROVE h[k] = Step(h, k)
    <3>1. CASE k = 0
      BY <3>1
    <3>2. CASE k # 0
      <4>1. h[k - 1] = g[k - 1]
        <5>1. k - 1 \in 0 .. m
          BY <3>2
        <5> HIDE DEF h
        <5> QED
          BY <5>1, <2>4
      <4>2. h[k] = g[k - 1] \cup UNION {next[p] : p \in g[k - 1]}
        BY <3>2
      <4> QED
        BY <3>2, <4>1, <4>2
    <3> QED
      BY <3>1, <3>2
  <2>6. h = [k \in 0 .. m + 1 |-> h[k]]
    OBVIOUS
  <2> HIDE DEF h
  <2>7. Is(h, m + 1)
    BY <2>5, <2>6
  <2> QED
    BY <2>7
<1>3. n \in T
  BY <1>1, <1>2, Induction
<1> DEFINE more == CHOOSE g : Is(g, n)
<1>4. Is(more, n)
  BY <1>3
<1>5. Reach(P, next, n) = more[n]
  BY DEF Reach
\* And each of its steps stays in S.
<1> DEFINE U == {m \in Nat : m <= n => more[m] \subseteq S}
<1> HIDE DEF more
<1>6. more[0] = P
  BY <1>4
<1>7. ASSUME NEW m \in U PROVE m + 1 \in U
  <2> SUFFICES ASSUME m + 1 <= n PROVE more[m + 1] \subseteq S
    OBVIOUS
  <2>1. more[m + 1] = more[m] \cup UNION {next[p] : p \in more[m]}
    BY <1>4
  <2>2. more[m] \subseteq S
    OBVIOUS
  <2> QED
    BY <2>1, <2>2
<1>8. U = Nat
  BY <1>6, <1>7, Induction
<1> QED
  BY <1>5, <1>8

LEMMA Finite == IsFiniteSet(Iface) /\ Far \in Nat
<1>1. Iface \subseteq Pkg \cup Ament
  BY WsConstants DEF Iface
<1> QED
  BY <1>1, WsConstants, FS_Subset, FS_CardinalityType DEF Far

\* Only interface packages are generated.
LEMMA EmittedAreIfaces == ASSUME NEW r PROVE Emitted(r) \subseteq Iface
<1>1. ASSUME NEW P PROVE Installed(r, P) \subseteq Ament
  <2> DEFINE known == Ament \ Scan[r]
             next == [p \in Pkg \cup Ament |-> deps[p] \cap known]
  <2>1. \A p \in known : next[p] \subseteq known
    OBVIOUS
  <2>2. P \cap known \in SUBSET known
    OBVIOUS
  <2> HIDE DEF next
  <2>3. Reach(P \cap known, next, Far) \subseteq known
    BY <2>1, <2>2, Finite, ReachStays
  <2>4. Installed(r, P) = Reach(P \cap known, next, Far)
    BY DEF Installed, next
  <2> QED
    BY <2>3, <2>4
<1> QED
  BY <1>1 DEF Emitted, Iface

\* The enumerations of a set of interface packages are sequences of them.
LEMMA EnumerationsAreSequences ==
    ASSUME NEW S \in SUBSET Iface, NEW order \in SetToSeqs(S)
    PROVE  order \in Seq(Iface)
<1>1. Cardinality(S) \in Nat
  BY Finite, FS_Subset, FS_CardinalityType
<1>2. order \in [1 .. Cardinality(S) -> S]
  BY DEF SetToSeqs
<1> QED
  BY <1>1, <1>2

-----------------------------------------------------------------------------
(* The inductive invariant.                                                *)

\* A crate is under generation.
Generating == pc \in {"code", "toml", "toml save"}

WsTypes ==
    /\ version \in [Iface -> Version]
    /\ gen \in [Root -> [Iface -> Crate]]
    /\ newer \in [Root -> [Iface -> BOOLEAN]]
    /\ cmd \in {"none", "sync", "clean"}
    /\ pc \in {"out", "generate", "code", "toml", "toml save", "patch", "save", "wipe"}
    /\ cmd # "none" => root \in Root
    /\ todo \in Seq(Iface)
    /\ pc = "toml save" => text \in Seq(Iface)
    /\ cmd = "none" <=> pc = "out"
    /\ Generating => todo # <<>>

\* The Cargo.toml is touched when the code is that of the current interface files.
Settled == pc \in {"toml", "toml save"} => gen[root][Current].code = version[Current]

\* What the check calls up to date, of every package that is generated.
Fresh == \A r \in Root, i \in Iface : UpToDate(r, i) => gen[r][i].code = version[i]

WsInv ==
    /\ WsTypes
    /\ Settled
    /\ "delete" \notin events /\ "kill clean" \notin events => Fresh

\* What the code of a crate can be.
Codes == Version \cup {None, Partial}

\* Writing the code of one crate.
LEMMA CodeWritten ==
    ASSUME gen \in [Root -> [Iface -> Crate]], NEW r \in Root, NEW i \in Iface,
           NEW code \in Codes,
           gen' = [gen EXCEPT ![r][i].code = code]
    PROVE  /\ gen' \in [Root -> [Iface -> Crate]]
           /\ \A q \in Root, j \in Iface : q # r \/ j # i => gen'[q][j] = gen[q][j]
           /\ gen'[r][i].code = code /\ gen'[r][i].toml = gen[r][i].toml
<1>1. gen[r] \in [Iface -> Crate] /\ gen[r][i] \in Crate
  OBVIOUS
<1> DEFINE crate == [gen[r][i] EXCEPT !.code = code]
<1>2. crate \in Crate /\ crate.code = code /\ crate.toml = gen[r][i].toml
  BY <1>1 DEF Crate, Codes
<1>3. gen'[r][i] = crate
  BY <1>1
<1>4. gen' = [gen EXCEPT ![r] = [gen[r] EXCEPT ![i] = crate]]
  BY <1>1
<1> HIDE DEF crate
<1>5. gen' \in [Root -> [Iface -> Crate]]
  BY <1>1, <1>2, <1>4
<1>6. \A q \in Root, j \in Iface : q # r \/ j # i => gen'[q][j] = gen[q][j]
  BY <1>1, <1>4
<1> QED
  BY <1>2, <1>3, <1>5, <1>6

\* Writing the Cargo.toml of one crate.
LEMMA TomlSaved ==
    ASSUME gen \in [Root -> [Iface -> Crate]], NEW r \in Root, NEW i \in Iface,
           NEW toml \in Seq(Iface) \cup {None, Partial},
           gen' = [gen EXCEPT ![r][i].toml = toml]
    PROVE  /\ gen' \in [Root -> [Iface -> Crate]]
           /\ \A q \in Root, j \in Iface : q # r \/ j # i => gen'[q][j] = gen[q][j]
           /\ gen'[r][i].toml = toml /\ gen'[r][i].code = gen[r][i].code
<1>1. gen[r] \in [Iface -> Crate] /\ gen[r][i] \in Crate
  OBVIOUS
<1> DEFINE crate == [gen[r][i] EXCEPT !.toml = toml]
<1>2. crate \in Crate /\ crate.toml = toml /\ crate.code = gen[r][i].code
  BY <1>1 DEF Crate
<1>3. gen'[r][i] = crate
  BY <1>1
<1>4. gen' = [gen EXCEPT ![r] = [gen[r] EXCEPT ![i] = crate]]
  BY <1>1
<1> HIDE DEF crate
<1>5. gen' \in [Root -> [Iface -> Crate]]
  BY <1>1, <1>2, <1>4
<1>6. \A q \in Root, j \in Iface : q # r \/ j # i => gen'[q][j] = gen[q][j]
  BY <1>1, <1>4
<1> QED
  BY <1>2, <1>3, <1>5, <1>6

\* A crate under generation is one of the root's.
LEMMA CurrentIsIface ==
    ASSUME WsTypes, todo # <<>>
    PROVE  Current \in Iface /\ Tail(todo) \in Seq(Iface) /\ version[Current] \in Version
<1>1. todo \in Seq(Iface) /\ version \in [Iface -> Version]
  BY DEF WsTypes
<1>2. Head(todo) \in Iface /\ Tail(todo) \in Seq(Iface)
  BY <1>1
<1> QED
  BY <1>1, <1>2 DEF Current

\* What the text of a Cargo.toml is.
LEMMA CurrentTexts ==
    ASSUME WsTypes, todo # <<>>, NEW order \in CurrentText
    PROVE  order \in Seq(Iface)
<1>1. Current \in Iface /\ version[Current] \in Version
  BY CurrentIsIface
<1>2. Uses \in [Iface -> [Version -> SUBSET Iface]]
  BY WsConstants
<1>3. Uses[Current][version[Current]] \in SUBSET Iface
  BY <1>1, <1>2
<1> QED
  BY <1>3, EnumerationsAreSequences DEF CurrentText

\* Steps that leave the crates and the interface files alone, and that no generation
\* comes out of.
LEMMA Elsewhere ==
    ASSUME WsInv, WsTypes', UNCHANGED <<version, gen, newer>>, events \subseteq events',
           pc' \notin {"toml", "toml save"}
    PROVE  WsInv'
BY DEF WsInv, Settled, Fresh, UpToDate

LEMMA CodeBeginsKeeps == WsInv /\ CodeBegins => WsInv'
<1> SUFFICES ASSUME WsInv, CodeBegins PROVE WsInv'
  OBVIOUS
<1>1. WsTypes /\ (("delete" \notin events /\ "kill clean" \notin events) => Fresh)
  BY DEF WsInv
<1>2. /\ pc = "generate" /\ todo # <<>> /\ root \in Root
      /\ UNCHANGED <<version, newer, cmd, root, todo, events>>
  BY <1>1 DEF CodeBegins, WsTypes, source, record
<1>3. Current \in Iface /\ Current' = Current
  BY <1>1, <1>2, CurrentIsIface DEF Current
<1>4. CASE gen[root][Current].code = version[Current]
  <2>1. pc' = "toml" /\ gen' = gen
    BY <1>4 DEF CodeBegins
  <2>2. WsTypes'
    BY <1>1, <1>2, <2>1 DEF WsTypes, Generating
  <2>3. Settled'
    BY <1>2, <1>3, <1>4, <2>1 DEF Settled
  <2>4. Fresh => Fresh'
    BY <1>2, <2>1 DEF Fresh, UpToDate
  <2> QED
    BY <1>1, <1>2, <2>2, <2>3, <2>4 DEF WsInv
<1>5. CASE gen[root][Current].code # version[Current]
  <2>1. pc' = "code" /\ gen' = [gen EXCEPT ![root][Current].code = Partial]
    BY <1>5 DEF CodeBegins
  <2>2. gen \in [Root -> [Iface -> Crate]]
    BY <1>1 DEF WsTypes
  <2>3. /\ gen' \in [Root -> [Iface -> Crate]]
        /\ \A r \in Root, i \in Iface :
              r # root \/ i # Current => gen'[r][i] = gen[r][i]
        /\ gen'[root][Current].toml = gen[root][Current].toml
    <3>1. Partial \in Codes
      BY DEF Codes
    <3>2. /\ gen' \in [Root -> [Iface -> Crate]]
          /\ \A r \in Root, i \in Iface :
                r # root \/ i # Current => gen'[r][i] = gen[r][i]
          /\ gen'[root][Current].code = Partial
          /\ gen'[root][Current].toml = gen[root][Current].toml
      BY <1>2, <1>3, <2>1, <2>2, <3>1, CodeWritten
    <3> QED
      BY <3>2
  <2>4. WsTypes'
    BY <1>1, <1>2, <2>1, <2>3 DEF WsTypes, Generating
  <2>5. ASSUME Fresh, NEW r \in Root, NEW i \in Iface, UpToDate(r, i)'
        PROVE  gen'[r][i].code = version'[i]
    <3>1. gen'[r][i].toml = gen[r][i].toml
      BY <2>3
    <3>2. UpToDate(r, i)
      BY <1>2, <2>5, <3>1 DEF UpToDate
    <3>3. gen[r][i].code = version[i]
      BY <2>5, <3>2 DEF Fresh
    <3>4. r # root \/ i # Current
      BY <1>5, <3>3
    <3>5. gen'[r][i] = gen[r][i]
      BY <2>3, <3>4
    <3> QED
      BY <1>2, <3>3, <3>5
  <2>6. Fresh => Fresh'
    BY <2>5 DEF Fresh
  <2> QED
    BY <1>1, <1>2, <2>1, <2>4, <2>6 DEF WsInv, Settled
<1> QED
  BY <1>4, <1>5

LEMMA CodeEndsKeeps == WsInv /\ CodeEnds => WsInv'
<1> SUFFICES ASSUME WsInv, CodeEnds PROVE WsInv'
  OBVIOUS
<1>1. WsTypes /\ (("delete" \notin events /\ "kill clean" \notin events) => Fresh)
  BY DEF WsInv
<1>2. /\ pc = "code" /\ pc' = "toml" /\ todo # <<>> /\ root \in Root
      /\ gen' = [gen EXCEPT ![root][Current].code = version[Current]]
      /\ UNCHANGED <<version, newer, cmd, root, todo, events>>
  BY <1>1 DEF CodeEnds, WsTypes, Generating, source, record
<1>3. Current \in Iface /\ version[Current] \in Version /\ Current' = Current
  BY <1>1, <1>2, CurrentIsIface DEF Current
<1>4. gen \in [Root -> [Iface -> Crate]]
  BY <1>1 DEF WsTypes
<1>5. /\ gen' \in [Root -> [Iface -> Crate]]
      /\ \A r \in Root, i \in Iface : r # root \/ i # Current => gen'[r][i] = gen[r][i]
      /\ gen'[root][Current].code = version[Current]
      /\ gen'[root][Current].toml = gen[root][Current].toml
  <2>1. version[Current] \in Codes
    BY <1>3 DEF Codes
  <2> QED
    BY <1>2, <1>3, <1>4, <2>1, CodeWritten
<1>6. WsTypes'
  BY <1>1, <1>2, <1>5 DEF WsTypes, Generating
<1>7. gen'[root][Current].code = version[Current]
  BY <1>5
<1>8. ASSUME Fresh, NEW r \in Root, NEW i \in Iface, UpToDate(r, i)'
      PROVE  gen'[r][i].code = version'[i]
  <2>1. gen'[r][i].toml = gen[r][i].toml
    BY <1>5
  <2>2. gen[r][i].code = version[i]
    BY <1>2, <1>8, <2>1 DEF UpToDate, Fresh
  <2>3. CASE r = root /\ i = Current
    BY <1>2, <1>7, <2>3
  <2>4. CASE r # root \/ i # Current
    <3>1. gen'[r][i] = gen[r][i]
      BY <1>5, <2>4
    <3> QED
      BY <1>2, <2>2, <3>1
  <2> QED
    BY <2>3, <2>4
<1>9. Fresh => Fresh'
  BY <1>8 DEF Fresh
<1> QED
  BY <1>1, <1>2, <1>3, <1>6, <1>7, <1>9 DEF WsInv, Settled

\* The Cargo.toml is written where the code is current.
LEMMA TomlWritten ==
    ASSUME WsInv, pc \in {"toml", "toml save"}, NEW toml \in Seq(Iface) \cup {Partial},
           gen' = [gen EXCEPT ![root][Current].toml = toml],
           newer' \in [Root -> [Iface -> BOOLEAN]],
           \A r \in Root, i \in Iface : r # root \/ i # Current => newer'[r][i] = newer[r][i],
           version' = version
    PROVE  /\ gen' \in [Root -> [Iface -> Crate]]
           /\ gen'[root][Current].code = version[Current]
           /\ Fresh => Fresh'
<1>1. /\ WsTypes /\ todo # <<>> /\ root \in Root
      /\ gen[root][Current].code = version[Current]
  BY DEF WsInv, Settled, WsTypes, Generating
<1>2. Current \in Iface
  BY <1>1, CurrentIsIface
<1>3. gen \in [Root -> [Iface -> Crate]]
  BY <1>1 DEF WsTypes
<1>4. /\ gen' \in [Root -> [Iface -> Crate]]
      /\ \A r \in Root, i \in Iface : r # root \/ i # Current => gen'[r][i] = gen[r][i]
      /\ gen'[root][Current].code = gen[root][Current].code
  BY <1>1, <1>2, <1>3, TomlSaved
<1>5. gen'[root][Current].code = version[Current]
  BY <1>1, <1>4
<1>6. ASSUME Fresh, NEW r \in Root, NEW i \in Iface, UpToDate(r, i)'
      PROVE  gen'[r][i].code = version'[i]
  <2>1. CASE r = root /\ i = Current
    BY <1>5, <2>1
  <2>2. CASE r # root \/ i # Current
    <3>1. gen'[r][i] = gen[r][i] /\ newer'[r][i] = newer[r][i]
      BY <1>4, <2>2
    <3> QED
      BY <1>6, <3>1 DEF UpToDate, Fresh
  <2> QED
    BY <2>1, <2>2
<1> QED
  BY <1>4, <1>5, <1>6 DEF Fresh

LEMMA TomlBeginsKeeps == WsInv /\ TomlBegins => WsInv'
<1> SUFFICES ASSUME WsInv, TomlBegins PROVE WsInv'
  OBVIOUS
<1>1. WsTypes /\ Settled /\ (("delete" \notin events /\ "kill clean" \notin events) => Fresh)
  BY DEF WsInv
<1>2. /\ pc = "toml" /\ todo # <<>> /\ root \in Root
      /\ UNCHANGED <<version, cmd, root, events>>
  BY <1>1 DEF TomlBegins, WsTypes, Generating, source, record
<1>3. Tail(todo) \in Seq(Iface) /\ Current \in Iface
  BY <1>1, <1>2, CurrentIsIface
<1>4. PICK order \in CurrentText :
          IF gen[root][Current].toml = order
          THEN pc' = "generate" /\ todo' = Tail(todo) /\ UNCHANGED <<gen, newer, text>>
          ELSE /\ pc' = "toml save" /\ text' = order
               /\ gen' = [gen EXCEPT ![root][Current].toml = Partial]
               /\ newer' = [newer EXCEPT ![root][Current] = FALSE]
               /\ UNCHANGED todo
  BY DEF TomlBegins
<1>5. CASE gen[root][Current].toml = order
  <2>1. pc' = "generate" /\ todo' = Tail(todo) /\ UNCHANGED <<gen, newer>>
    BY <1>4, <1>5
  <2>2. WsTypes'
    BY <1>1, <1>2, <1>3, <2>1 DEF WsTypes, Generating
  <2> QED
    BY <1>2, <2>1, <2>2, Elsewhere
<1>6. CASE gen[root][Current].toml # order
  <2>1. /\ pc' = "toml save" /\ text' = order /\ todo' = todo
        /\ gen' = [gen EXCEPT ![root][Current].toml = Partial]
        /\ newer' = [newer EXCEPT ![root][Current] = FALSE]
    BY <1>4, <1>6
  <2>2. newer \in [Root -> [Iface -> BOOLEAN]]
    BY <1>1 DEF WsTypes
  <2>3. /\ newer' \in [Root -> [Iface -> BOOLEAN]]
        /\ \A r \in Root, i \in Iface : r # root \/ i # Current => newer'[r][i] = newer[r][i]
    BY <1>2, <1>3, <2>1, <2>2
  <2>4. /\ gen' \in [Root -> [Iface -> Crate]]
        /\ gen'[root][Current].code = version[Current]
        /\ Fresh => Fresh'
    BY <1>2, <2>1, <2>3, TomlWritten
  <2>5. order \in Seq(Iface)
    BY <1>1, <1>2, CurrentTexts
  <2>6. WsTypes'
    BY <1>1, <1>2, <2>1, <2>3, <2>4, <2>5 DEF WsTypes, Generating
  <2>7. Settled'
    BY <1>2, <2>1, <2>4 DEF Settled, Current
  <2> QED
    BY <1>1, <1>2, <2>4, <2>6, <2>7 DEF WsInv
<1> QED
  BY <1>5, <1>6

LEMMA TomlEndsKeeps == WsInv /\ TomlEnds => WsInv'
<1> SUFFICES ASSUME WsInv, TomlEnds PROVE WsInv'
  OBVIOUS
<1>1. WsTypes /\ Settled /\ (("delete" \notin events /\ "kill clean" \notin events) => Fresh)
  BY DEF WsInv
<1>2. /\ pc = "toml save" /\ pc' = "generate" /\ todo # <<>> /\ text \in Seq(Iface)
      /\ gen' = [gen EXCEPT ![root][Current].toml = text] /\ todo' = Tail(todo)
      /\ UNCHANGED <<version, newer, cmd, root, events>>
  BY <1>1 DEF TomlEnds, WsTypes, Generating, source, record
<1>3. Tail(todo) \in Seq(Iface)
  BY <1>1, <1>2, CurrentIsIface
<1>4. newer' \in [Root -> [Iface -> BOOLEAN]]
  BY <1>1, <1>2 DEF WsTypes
<1>5. gen' \in [Root -> [Iface -> Crate]] /\ (Fresh => Fresh')
  BY <1>2, <1>4, TomlWritten
<1>6. WsTypes'
  BY <1>1, <1>2, <1>3, <1>5 DEF WsTypes, Generating
<1> QED
  BY <1>1, <1>2, <1>5, <1>6 DEF WsInv, Settled

\* The commands besides the generation, and the user's edits outside interface files,
\* leave crates and interface files alone.
Other ==
    \/ \E r \in Root : StartSync(r) \/ StartClean(r)
    \/ AllGenerated \/ (\E f \in File : WriteBegins(f)) \/ WriteEnds
    \/ GenerateFails \/ Kill \/ KillSave
    \/ \E p \in Pkg : EditDeps(p)
    \/ \E f \in File : Insert(f) \/ Withdraw(f)

LEMMA OtherKeeps == WsInv /\ Other => WsInv'
<1> SUFFICES ASSUME WsInv, Other PROVE WsInv'
  OBVIOUS
<1>1. WsTypes
  BY DEF WsInv
<1>2. UNCHANGED <<version, gen, newer>> /\ events \subseteq events'
  BY DEF Other, StartSync, StartClean, AllGenerated, WriteBegins, WriteEnds, GenerateFails,
         Kill, KillSave, EditDeps, Insert, Withdraw, Happens, source, record
<1>3. ASSUME NEW r \in Root, StartSync(r) PROVE WsTypes' /\ pc' = "generate"
  <2>1. PICK order \in SetToSeqs(Emitted(r)) : todo' = order
    BY <1>3 DEF StartSync, Orders
  <2>2. todo' \in Seq(Iface)
    BY <2>1, EmittedAreIfaces, EnumerationsAreSequences
  <2>3. cmd' = "sync" /\ pc' = "generate" /\ root' = r
    BY <1>3 DEF StartSync
  <2> QED
    BY <1>1, <1>2, <2>2, <2>3 DEF WsTypes, Generating
<1>4. ASSUME NEW r \in Root, StartClean(r) PROVE WsTypes' /\ pc' = "wipe"
  BY <1>1, <1>2, <1>4 DEF WsTypes, Generating, StartClean
<1>5. ASSUME NEW ok, Ends(ok) PROVE WsTypes' /\ pc' = "out"
  <2>1. todo' = <<>> /\ cmd' = "none" /\ pc' = "out"
    BY <1>5 DEF Ends
  <2>2. todo' \in Seq(Iface)
    BY <2>1
  <2> QED
    BY <1>1, <1>2, <2>1, <2>2 DEF WsTypes, Generating
<1>6. ASSUME pc \in {"generate", "patch", "save"}, pc' \in {"patch", "save"},
             UNCHANGED <<cmd, root, todo>>
      PROVE  WsTypes' /\ pc' \in {"patch", "save"}
  BY <1>1, <1>2, <1>6 DEF WsTypes, Generating
<1>7. ASSUME NEW f, pc \in {"patch", "save"}, FileDone(f)
      PROVE  WsTypes' /\ pc' \in {"patch", "out"}
  BY <1>5, <1>6, <1>7 DEF FileDone
<1>8. ASSUME AllGenerated PROVE WsTypes' /\ pc' \in {"patch", "out"}
  BY <1>5, <1>6, <1>8 DEF AllGenerated
<1>9. ASSUME NEW f \in File, WriteBegins(f) PROVE WsTypes' /\ pc' \in {"patch", "save", "out"}
  BY <1>6, <1>7, <1>9 DEF WriteBegins
<1>10. ASSUME WriteEnds PROVE WsTypes' /\ pc' \in {"patch", "out"}
  BY <1>7, <1>10 DEF WriteEnds
<1>11. ASSUME GenerateFails \/ Kill \/ KillSave PROVE WsTypes' /\ pc' = "out"
  BY <1>5, <1>11 DEF GenerateFails, Kill, KillSave
<1>12. ASSUME \/ \E p \in Pkg : EditDeps(p)
              \/ \E f \in File : Insert(f) \/ Withdraw(f)
       PROVE  WsTypes' /\ pc' = "out"
  <2>1. cmd = "none" /\ UNCHANGED command
    BY <1>12 DEF EditDeps, Insert, Withdraw, Quiet
  <2> QED
    BY <1>1, <1>2, <2>1 DEF WsTypes, Generating, command
<1>13. WsTypes' /\ pc' \notin {"toml", "toml save"}
  BY <1>3, <1>4, <1>8, <1>9, <1>10, <1>11, <1>12 DEF Other
<1> QED
  BY <1>2, <1>13, Elsewhere

LEMMA WipeKeeps == WsInv /\ Wipe => WsInv'
<1> SUFFICES ASSUME WsInv, Wipe PROVE WsInv'
  OBVIOUS
<1>1. WsTypes /\ (("delete" \notin events /\ "kill clean" \notin events) => Fresh)
  BY DEF WsInv
<1>2. /\ pc = "wipe" /\ root \in Root /\ UNCHANGED <<version, events>>
      /\ gen' = [gen EXCEPT ![root] = [i \in Iface |-> NoCrate]]
      /\ newer' = [newer EXCEPT ![root] = [i \in Iface |-> FALSE]]
  BY <1>1 DEF Wipe, WsTypes, source, record
<1>3. \/ cmd' = "none" /\ pc' = "out" /\ todo' = <<>>
      \/ pc' = "patch" /\ UNCHANGED <<cmd, root, todo>>
  BY DEF Wipe, Ends
<1>4. gen \in [Root -> [Iface -> Crate]] /\ newer \in [Root -> [Iface -> BOOLEAN]]
  BY <1>1 DEF WsTypes
<1>5. NoCrate \in Crate /\ NoCrate.toml = None
  BY DEF NoCrate, Crate
<1>6. gen' \in [Root -> [Iface -> Crate]] /\ newer' \in [Root -> [Iface -> BOOLEAN]]
  BY <1>2, <1>4, <1>5
<1>7. todo' \in Seq(Iface)
  <2>1. <<>> \in Seq(Iface)
    OBVIOUS
  <2>2. todo \in Seq(Iface)
    BY <1>1 DEF WsTypes
  <2> QED
    BY <1>3, <2>1, <2>2
<1>8. WsTypes'
  BY <1>1, <1>2, <1>3, <1>6, <1>7 DEF WsTypes, Generating
<1>9. ASSUME Fresh, NEW r \in Root, NEW i \in Iface, UpToDate(r, i)'
      PROVE  gen'[r][i].code = version'[i]
  <2>1. CASE r = root
    BY <1>2, <1>4, <1>5, <1>9, <2>1 DEF UpToDate
  <2>2. CASE r # root
    <3>1. gen'[r] = gen[r] /\ newer'[r] = newer[r]
      BY <1>2, <1>4, <2>2
    <3> QED
      BY <1>2, <1>9, <3>1 DEF UpToDate, Fresh
  <2> QED
    BY <2>1, <2>2
<1>10. Fresh => Fresh'
  BY <1>9 DEF Fresh
<1> QED
  BY <1>1, <1>2, <1>3, <1>8, <1>10 DEF WsInv, Settled

LEMMA KillWipeKeeps == WsInv /\ KillWipe => WsInv'
<1> SUFFICES ASSUME WsInv, KillWipe PROVE WsInv'
  OBVIOUS
<1>1. WsTypes
  BY DEF WsInv
<1>2. /\ root \in Root /\ UNCHANGED <<version, newer>> /\ "kill clean" \in events'
      /\ cmd' = "none" /\ pc' = "out" /\ todo' = <<>>
  BY <1>1 DEF KillWipe, WsTypes, Ends, Happens, source
<1>3. PICK left \in SUBSET Iface, half \in Iface, code, toml \in BOOLEAN :
          gen' = [gen EXCEPT ![root] =
                    [i \in Iface |->
                       IF i \in left THEN @[i]
                       ELSE [code |-> IF i # half \/ @[i].code = None THEN None
                                      ELSE IF code THEN @[i].code ELSE Partial,
                             toml |-> IF i = half /\ toml THEN @[i].toml ELSE None]]]
  BY DEF KillWipe
<1>4. gen \in [Root -> [Iface -> Crate]]
  BY <1>1 DEF WsTypes
<1>5. \A i \in Iface : gen[root][i] \in Crate
  BY <1>2, <1>4
<1>6. ASSUME NEW i \in Iface
      PROVE  [code |-> IF i # half \/ gen[root][i].code = None THEN None
                       ELSE IF code THEN gen[root][i].code ELSE Partial,
              toml |-> IF i = half /\ toml THEN gen[root][i].toml ELSE None] \in Crate
  BY <1>5 DEF Crate
<1>7. gen' \in [Root -> [Iface -> Crate]]
  BY <1>2, <1>3, <1>4, <1>5, <1>6
<1>8. todo' \in Seq(Iface)
  <2>1. <<>> \in Seq(Iface)
    OBVIOUS
  <2> QED
    BY <1>2, <2>1
<1>9. WsTypes'
  BY <1>1, <1>2, <1>7, <1>8 DEF WsTypes, Generating
<1> QED
  BY <1>2, <1>9 DEF WsInv, Settled

LEMMA InterfacesKeep == WsInv /\ (\E m \in Msg : Edit(m) \/ Delete(m)) => WsInv'
<1> SUFFICES ASSUME WsInv, NEW m \in Msg, Edit(m) \/ Delete(m) PROVE WsInv'
  OBVIOUS
<1>1. WsTypes /\ (("delete" \notin events /\ "kill clean" \notin events) => Fresh)
  BY DEF WsInv
<1>2. /\ cmd = "none" /\ pc = "out" /\ pc' = pc /\ todo' = todo /\ cmd' = cmd
      /\ gen' = gen /\ version[m] < MaxVersion
      /\ version' = [version EXCEPT ![m] = @ + 1] /\ events \subseteq events'
  BY <1>1 DEF Edit, Delete, Quiet, command, Happens, WsTypes
<1>3. version \in [Iface -> Version] /\ newer \in [Root -> [Iface -> BOOLEAN]] /\ m \in Iface
  BY <1>1 DEF WsTypes, Iface
<1>4. version[m] + 1 \in Version
  <2>1. version[m] \in 0 .. MaxVersion /\ MaxVersion \in Nat
    BY <1>3, WsConstants DEF Version
  <2> QED
    BY <1>2, <2>1 DEF Version
<1>5. version' \in [Iface -> Version]
  BY <1>2, <1>3, <1>4
<1>6. CASE Edit(m)
  <2>1. newer' = [r \in Root |-> [newer[r] EXCEPT ![m] = TRUE]]
    BY <1>6 DEF Edit
  <2>2. newer' \in [Root -> [Iface -> BOOLEAN]]
    BY <1>3, <2>1
  <2>3. WsTypes'
    BY <1>1, <1>2, <1>5, <2>2 DEF WsTypes, Generating
  <2>4. ASSUME Fresh, NEW r \in Root, NEW i \in Iface, UpToDate(r, i)'
        PROVE  gen'[r][i].code = version'[i]
    <3>1. i # m /\ newer'[r][i] = newer[r][i]
      BY <1>3, <2>1, <2>4 DEF UpToDate
    <3>2. version'[i] = version[i]
      BY <1>2, <1>3, <3>1
    <3> QED
      BY <1>2, <2>4, <3>1, <3>2 DEF UpToDate, Fresh
  <2>5. Fresh => Fresh'
    BY <2>4 DEF Fresh
  <2> QED
    BY <1>1, <1>2, <2>3, <2>5 DEF WsInv, Settled
<1>7. CASE Delete(m)
  <2>1. "delete" \in events' /\ newer' = newer
    BY <1>7 DEF Delete, Happens
  <2>2. WsTypes'
    BY <1>1, <1>2, <1>5, <2>1 DEF WsTypes, Generating
  <2> QED
    BY <1>2, <2>1, <2>2 DEF WsInv, Settled
<1> QED
  BY <1>6, <1>7

LEMMA WsStep == WsInv /\ [WsNext]_wsVars => WsInv'
<1> SUFFICES ASSUME WsInv, [WsNext]_wsVars PROVE WsInv'
  OBVIOUS
<1>1. CASE WsNext
  BY <1>1, CodeBeginsKeeps, CodeEndsKeeps, TomlBeginsKeeps, TomlEndsKeeps, OtherKeeps,
     WipeKeeps, KillWipeKeeps, InterfacesKeep DEF WsNext, Command, Other
<1>2. CASE UNCHANGED wsVars
  BY <1>2 DEF WsInv, WsTypes, Settled, Fresh, UpToDate, Generating, Current, wsVars, source,
              command, record
<1> QED
  BY <1>1, <1>2

LEMMA WsInitially == WsInit => WsInv
<1> SUFFICES ASSUME WsInit PROVE WsInv
  OBVIOUS
<1>1. NoCrate \in Crate /\ NoCrate.toml = None
  BY DEF NoCrate, Crate
<1>2. 0 \in Version
  <2>1. MaxVersion \in Nat
    BY WsConstants
  <2> QED
    BY <2>1 DEF Version
<1>3. todo \in Seq(Iface)
  BY DEF WsInit
<1>4. WsTypes
  BY <1>1, <1>2, <1>3 DEF WsInit, WsTypes, Generating
<1>5. Fresh
  BY <1>1 DEF WsInit, Fresh, UpToDate
<1> QED
  BY <1>4, <1>5 DEF WsInit, WsInv, Settled

\* The types of the workspace commands (run_sync, run_clean), for any packages.
THEOREM WsTypesHold == WsSpec => []WsTypes
<1>1. WsInv => WsTypes
  BY DEF WsInv
<1> QED
  BY <1>1, WsInitially, WsStep, PTL DEF WsSpec

\* What check_freshness and run_status call up to date has code of the current
\* interface files, for any packages and any edits between commands, failures and
\* kills, under the condition FreshMeansCurrent states.
THEOREM UpToDateIsCurrent == WsSpec => []FreshMeansCurrent
<1>1. WsInv => FreshMeansCurrent
  <2> SUFFICES ASSUME WsInv, events \cap {"delete", "kill clean"} = {},
                      NEW r \in Root, NEW m \in Scan[r] \cap Msg, UpToDate(r, m)
               PROVE  gen[r][m].code = version[m]
    BY DEF FreshMeansCurrent
  <2>1. "delete" \notin events /\ "kill clean" \notin events
    OBVIOUS
  <2>2. m \in Iface
    BY DEF Iface
  <2> QED
    BY <2>1, <2>2 DEF WsInv, Fresh
<1> QED
  BY <1>1, WsInitially, WsStep, PTL DEF WsSpec
=============================================================================
