-------------------------- MODULE NrosSetupProofs --------------------------
(***************************************************************************)
(* Theorems about the store and the setup commands that use it.            *)
(*                                                                         *)
(* First the store by itself: MarkerHonest and the refinement of           *)
(* AtomicStore, for every set of processes, prefixes and     *)
(* recipes, as long as two processes never install under the same scratch  *)
(* name at once.  Then the setup commands as clients of the store: every   *)
(* step of theirs is a step of SdkStore or leaves it alone, so the store's *)
(* theorems hold of the whole system; what the locks name is installed,    *)
(* and what a setup that ended well says is true.                          *)
(***************************************************************************)
EXTENDS NrosSetup, TLAPS

-----------------------------------------------------------------------------
(* The store.                                                              *)

\* No two processes work on prefixes that share <stem>.download or <stem>.src
\* (in particular not on one prefix).
Apart ==
    \A q, r \in Proc : q # r =>
        \A p \in Work[q], w \in Work[r] : ScratchOf[p] # ScratchOf[w]

\* The steps taken after plan_install found no marker, before execute wrote it.
Installing == Steps \ {"present"}

\* What the step process q is at may rely on.
StepFacts(q) ==
    /\ pc[q] # "idle" => job[q] \in Work[q]
    /\ pc[q] = "unpack" => archive[Stem(q)] = job[q]
    /\ pc[q] \in {"unpacking", "installing"} => read[q] = job[q]
    /\ pc[q] \in {"configure", "install"} => srcdir[Stem(q)] = job[q]
    /\ pc[q] \in {"wipe", "clone", "cloning", "configure"} => Recipe[job[q]] = "source"
    /\ pc[q] \in {"unlink", "mark", "marking"} => Whole(job[q])
    /\ pc[q] \in Installing => ~Present(job[q])
    /\ pc[q] \in {"present", "ok"} => Present(job[q])

StepInv == \A q \in Proc : StepFacts(q)

\* MarkerHonest alone is not inductive: that the marker is written over a whole
\* tree needs what the steps before it established.
IInv == TypeOK /\ StepInv /\ MarkerHonest

-----------------------------------------------------------------------------
\* No step breaks the types; this needs no assumption on who runs at once.
LEMMA TypeNext == ASSUME TypeOK, [Next]_storeVars PROVE TypeOK'
<1> USE StoreConstants DEF TypeOK, Content, Steps, Results, Stem
<1>0. CASE UNCHANGED storeVars
  BY <1>0 DEF storeVars
<1>1. ASSUME NEW q \in Proc, NEW p \in Work[q], Plan(q, p) PROVE TypeOK'
  BY <1>1 DEF Plan, diskVars, At, Goto
<1>2. ASSUME NEW q \in Proc, ReadPresent(q) PROVE TypeOK'
  BY <1>2 DEF ReadPresent, diskVars, At, Goto
<1>3. ASSUME NEW q \in Proc, SkipPresent(q) PROVE TypeOK'
  BY <1>3 DEF SkipPresent, diskVars, At, Goto
<1>4. ASSUME NEW q \in Proc, Download(q) PROVE TypeOK'
  BY <1>4 DEF Download, At, Goto
<1>5. ASSUME NEW q \in Proc, NEW bytes \in {job[q], Bad}, Received(q, bytes) PROVE TypeOK'
  BY <1>5 DEF Received, At, Goto
<1>6. ASSUME NEW q \in Proc, DownloadFails(q) PROVE TypeOK'
  BY <1>6 DEF DownloadFails, Fail, At, Goto
<1>7. ASSUME NEW q \in Proc, Verify(q) PROVE TypeOK'
  BY <1>7 DEF Verify, diskVars, At, Goto
<1>8. ASSUME NEW q \in Proc, Unpack(q) PROVE TypeOK'
  BY <1>8 DEF Unpack, Fail, At, Goto
<1>9. ASSUME NEW q \in Proc, Unpacked(q) PROVE TypeOK'
  BY <1>9 DEF Unpacked, Populate, At, Goto
<1>10. ASSUME NEW q \in Proc, PopulateFails(q) PROVE TypeOK'
  BY <1>10 DEF PopulateFails, diskVars, Goto
<1>11. ASSUME NEW q \in Proc, Unlink(q) PROVE TypeOK'
  BY <1>11 DEF Unlink, At, Goto
<1>12. ASSUME NEW q \in Proc, Wipe(q) PROVE TypeOK'
  BY <1>12 DEF Wipe, At, Goto
<1>13. ASSUME NEW q \in Proc, Clone(q) PROVE TypeOK'
  BY <1>13 DEF Clone, Fail, At, Goto
<1>14. ASSUME NEW q \in Proc, Cloned(q) PROVE TypeOK'
  BY <1>14 DEF Cloned, At, Goto
<1>15. ASSUME NEW q \in Proc, CloneFails(q) PROVE TypeOK'
  BY <1>15 DEF CloneFails, Fail, At, Goto
<1>16. ASSUME NEW q \in Proc, Configure(q) PROVE TypeOK'
  BY <1>16 DEF Configure, HasStep, Filled, diskVars, Fail, At, Goto
<1>17. ASSUME NEW q \in Proc, ConfigureFails(q) PROVE TypeOK'
  BY <1>17 DEF ConfigureFails, HasStep, diskVars, Fail, At, Goto
<1>18. ASSUME NEW q \in Proc, Install(q) PROVE TypeOK'
  BY <1>18 DEF Install, Fail, At, Goto
<1>19. ASSUME NEW q \in Proc, Installed(q) PROVE TypeOK'
  BY <1>19 DEF Installed, Populate, At, Goto
<1>20. ASSUME NEW q \in Proc, Mark(q) PROVE TypeOK'
  BY <1>20 DEF Mark, At, Goto
<1>21. ASSUME NEW q \in Proc, Marked(q) PROVE TypeOK'
  BY <1>21 DEF Marked, At, Goto
<1>22. ASSUME NEW q \in Proc, Return(q) PROVE TypeOK'
  BY <1>22 DEF Return, diskVars, Goto
<1>23. ASSUME NEW q \in Proc, Crash(q) PROVE TypeOK'
  BY <1>23 DEF Crash, Goto
<1> QED
  BY <1>0, <1>1, <1>2, <1>3, <1>4, <1>5, <1>6, <1>7, <1>8, <1>9, <1>10, <1>11,
     <1>12, <1>13, <1>14, <1>15, <1>16, <1>17, <1>18, <1>19, <1>20, <1>21, <1>22, <1>23
     DEF Next, Execute, Progress, Fetch, Build, CommandFails, Downloaded, DownloadedOther

\* Two busy processes never share a scratch name, hence never a prefix.
LEMMA BusyApart ==
    ASSUME Apart, TypeOK, StepInv,
           NEW q \in Proc, NEW r \in Proc, q # r, job[q] \in Work[q], pc[r] # "idle"
    PROVE  Stem(q) # Stem(r) /\ job[q] # job[r]
BY DEF Apart, StepInv, StepFacts, Stem

\* A fresh store satisfies the invariant.
LEMMA InitInv == Init => IInv
BY StoreConstants
   DEF Init, IInv, TypeOK, StepInv, StepFacts, MarkerHonest, Present, Content, Steps,
       Results, Installing, Whole

\* plan_install starts work only where there is no marker.
LEMMA PlanInv ==
    ASSUME Apart, IInv, NEW q \in Proc, NEW p \in Work[q], Plan(q, p)
    PROVE  StepInv' /\ MarkerHonest'
<1> USE StoreConstants DEF IInv
<1>0. p \in Prefix
  OBVIOUS
<1>1. StepInv'
  <2> SUFFICES ASSUME NEW r \in Proc PROVE StepFacts(r)'
    BY DEF StepInv
  <2>1. CASE r = q
    BY <1>0, <2>1 DEF TypeOK, StepInv, StepFacts, Whole, Stem, Present, Content, Steps, Results,
                Installing, Plan, diskVars, At, Goto
  <2>2. CASE r # q
    BY <1>0, <2>2, BusyApart DEF TypeOK, StepInv, StepFacts, Whole, Stem, Present, Content, Steps,
                Results, Installing, Plan, diskVars, At, Goto
  <2> QED BY <2>1, <2>2
<1>2. MarkerHonest'
  BY <1>0 DEF TypeOK, StepInv, StepFacts, Whole, MarkerHonest, Stem, Present, Content, Steps,
         Results, Installing, Plan, diskVars, At, Goto
<1> QED BY <1>1, <1>2

\* Reading the marker changes nothing on disk.
LEMMA ReadPresentInv ==
    ASSUME Apart, IInv, NEW q \in Proc, ReadPresent(q)
    PROVE  StepInv' /\ MarkerHonest'
<1> USE StoreConstants DEF IInv
<1>1. StepInv'
  <2> SUFFICES ASSUME NEW r \in Proc PROVE StepFacts(r)'
    BY DEF StepInv
  <2>1. CASE r = q
    BY <2>1 DEF TypeOK, StepInv, StepFacts, Whole, Stem, Present, Content, Steps, Results,
                Installing, ReadPresent, diskVars, At, Goto
  <2>2. CASE r # q
    BY <2>2, BusyApart DEF TypeOK, StepInv, StepFacts, Whole, Stem, Present, Content, Steps,
                Results, Installing, ReadPresent, diskVars, At, Goto
  <2> QED BY <2>1, <2>2
<1>2. MarkerHonest'
  BY DEF TypeOK, StepInv, StepFacts, Whole, MarkerHonest, Stem, Present, Content, Steps,
         Results, Installing, ReadPresent, diskVars, At, Goto
<1> QED BY <1>1, <1>2

\* Passing over a present tool changes nothing on disk.
LEMMA SkipPresentInv ==
    ASSUME Apart, IInv, NEW q \in Proc, SkipPresent(q)
    PROVE  StepInv' /\ MarkerHonest'
<1> USE StoreConstants DEF IInv
<1>1. StepInv'
  <2> SUFFICES ASSUME NEW r \in Proc PROVE StepFacts(r)'
    BY DEF StepInv
  <2>1. CASE r = q
    BY <2>1 DEF TypeOK, StepInv, StepFacts, Whole, Stem, Present, Content, Steps, Results,
                Installing, SkipPresent, diskVars, At, Goto
  <2>2. CASE r # q
    BY <2>2, BusyApart DEF TypeOK, StepInv, StepFacts, Whole, Stem, Present, Content, Steps,
                Results, Installing, SkipPresent, diskVars, At, Goto
  <2> QED BY <2>1, <2>2
<1>2. MarkerHonest'
  BY DEF TypeOK, StepInv, StepFacts, Whole, MarkerHonest, Stem, Present, Content, Steps,
         Results, Installing, SkipPresent, diskVars, At, Goto
<1> QED BY <1>1, <1>2

\* The truncated archive is nobody else's; the tree under an absent marker may be anything.
LEMMA DownloadInv ==
    ASSUME Apart, IInv, NEW q \in Proc, Download(q)
    PROVE  StepInv' /\ MarkerHonest'
<1> USE StoreConstants DEF IInv
<1>1. StepInv'
  <2> SUFFICES ASSUME NEW r \in Proc PROVE StepFacts(r)'
    BY DEF StepInv
  <2>1. CASE r = q
    BY <2>1 DEF TypeOK, StepInv, StepFacts, Whole, Stem, Present, Content, Steps, Results,
                Installing, Download, At, Goto
  <2>2. CASE r # q
    BY <2>2, BusyApart DEF TypeOK, StepInv, StepFacts, Whole, Stem, Present, Content, Steps,
                Results, Installing, Download, At, Goto
  <2> QED BY <2>1, <2>2
<1>2. MarkerHonest'
  BY DEF TypeOK, StepInv, StepFacts, Whole, MarkerHonest, Stem, Present, Content, Steps,
         Results, Installing, Download, At, Goto
<1> QED BY <1>1, <1>2

\* Whatever bytes arrive, only sha256sum leads on to tar.
LEMMA ReceivedInv ==
    ASSUME Apart, IInv, NEW q \in Proc, NEW bytes \in {job[q], Bad}, Received(q, bytes)
    PROVE  StepInv' /\ MarkerHonest'
<1> USE StoreConstants DEF IInv
<1>1. StepInv'
  <2> SUFFICES ASSUME NEW r \in Proc PROVE StepFacts(r)'
    BY DEF StepInv
  <2>1. CASE r = q
    BY <2>1 DEF TypeOK, StepInv, StepFacts, Whole, Stem, Present, Content, Steps, Results,
                Installing, Received, At, Goto
  <2>2. CASE r # q
    BY <2>2, BusyApart DEF TypeOK, StepInv, StepFacts, Whole, Stem, Present, Content, Steps,
                Results, Installing, Received, At, Goto
  <2> QED BY <2>1, <2>2
<1>2. MarkerHonest'
  BY DEF TypeOK, StepInv, StepFacts, Whole, MarkerHonest, Stem, Present, Content, Steps,
         Results, Installing, Received, At, Goto
<1> QED BY <1>1, <1>2

\* A failed download leaves the archive for the next attempt to truncate.
LEMMA DownloadFailsInv ==
    ASSUME Apart, IInv, NEW q \in Proc, DownloadFails(q)
    PROVE  StepInv' /\ MarkerHonest'
<1> USE StoreConstants DEF IInv
<1>1. StepInv'
  <2> SUFFICES ASSUME NEW r \in Proc PROVE StepFacts(r)'
    BY DEF StepInv
  <2>1. CASE r = q
    BY <2>1 DEF TypeOK, StepInv, StepFacts, Whole, Stem, Present, Content, Steps, Results,
                Installing, DownloadFails, Fail, At, Goto
  <2>2. CASE r # q
    BY <2>2, BusyApart DEF TypeOK, StepInv, StepFacts, Whole, Stem, Present, Content, Steps,
                Results, Installing, DownloadFails, Fail, At, Goto
  <2> QED BY <2>1, <2>2
<1>2. MarkerHonest'
  BY DEF TypeOK, StepInv, StepFacts, Whole, MarkerHonest, Stem, Present, Content, Steps,
         Results, Installing, DownloadFails, Fail, At, Goto
<1> QED BY <1>1, <1>2

\* Past this step the archive is the pinned one, and no other process can replace it.
LEMMA VerifyInv ==
    ASSUME Apart, IInv, NEW q \in Proc, Verify(q)
    PROVE  StepInv' /\ MarkerHonest'
<1> USE StoreConstants DEF IInv
<1>1. StepInv'
  <2> SUFFICES ASSUME NEW r \in Proc PROVE StepFacts(r)'
    BY DEF StepInv
  <2>1. CASE r = q
    BY <2>1 DEF TypeOK, StepInv, StepFacts, Whole, Stem, Present, Content, Steps, Results,
                Installing, Verify, diskVars, At, Goto
  <2>2. CASE r # q
    BY <2>2, BusyApart DEF TypeOK, StepInv, StepFacts, Whole, Stem, Present, Content, Steps,
                Results, Installing, Verify, diskVars, At, Goto
  <2> QED BY <2>1, <2>2
<1>2. MarkerHonest'
  BY DEF TypeOK, StepInv, StepFacts, Whole, MarkerHonest, Stem, Present, Content, Steps,
         Results, Installing, Verify, diskVars, At, Goto
<1> QED BY <1>1, <1>2

\* tar reads what was verified.
LEMMA UnpackInv ==
    ASSUME Apart, IInv, NEW q \in Proc, Unpack(q)
    PROVE  StepInv' /\ MarkerHonest'
<1> USE StoreConstants DEF IInv
<1>1. StepInv'
  <2> SUFFICES ASSUME NEW r \in Proc PROVE StepFacts(r)'
    BY DEF StepInv
  <2>1. CASE r = q
    BY <2>1 DEF TypeOK, StepInv, StepFacts, Whole, Stem, Present, Content, Steps, Results,
                Installing, Unpack, Fail, At, Goto
  <2>2. CASE r # q
    BY <2>2, BusyApart DEF TypeOK, StepInv, StepFacts, Whole, Stem, Present, Content, Steps,
                Results, Installing, Unpack, Fail, At, Goto
  <2> QED BY <2>1, <2>2
<1>2. MarkerHonest'
  BY DEF TypeOK, StepInv, StepFacts, Whole, MarkerHonest, Stem, Present, Content, Steps,
         Results, Installing, Unpack, Fail, At, Goto
<1> QED BY <1>1, <1>2

\* The tree is whole once tar is done, since nobody else rewrites the prefix.
LEMMA UnpackedInv ==
    ASSUME Apart, IInv, NEW q \in Proc, Unpacked(q)
    PROVE  StepInv' /\ MarkerHonest'
<1> USE StoreConstants DEF IInv
<1>0. ~Contended(q)
  BY BusyApart DEF Contended, StepInv, StepFacts, Unpacked, At
<1>1. StepInv'
  <2> SUFFICES ASSUME NEW r \in Proc PROVE StepFacts(r)'
    BY DEF StepInv
  <2>1. CASE r = q
    BY <1>0, <2>1 DEF TypeOK, StepInv, StepFacts, Whole, Stem, Present, Content, Steps, Results,
                Installing, Unpacked, Populate, At, Goto
  <2>2. CASE r # q
    BY <1>0, <2>2, BusyApart DEF TypeOK, StepInv, StepFacts, Whole, Stem, Present, Content, Steps,
                Results, Installing, Unpacked, Populate, At, Goto
  <2> QED BY <2>1, <2>2
<1>2. MarkerHonest'
  BY <1>0 DEF TypeOK, StepInv, StepFacts, Whole, MarkerHonest, Stem, Present, Content, Steps,
         Results, Installing, Unpacked, Populate, At, Goto
<1> QED BY <1>1, <1>2

\* A half-written tree has no marker.
LEMMA PopulateFailsInv ==
    ASSUME Apart, IInv, NEW q \in Proc, PopulateFails(q)
    PROVE  StepInv' /\ MarkerHonest'
<1> USE StoreConstants DEF IInv
<1>1. StepInv'
  <2> SUFFICES ASSUME NEW r \in Proc PROVE StepFacts(r)'
    BY DEF StepInv
  <2>1. CASE r = q
    BY <2>1 DEF TypeOK, StepInv, StepFacts, Whole, Stem, Present, Content, Steps, Results,
                Installing, PopulateFails, diskVars, Goto
  <2>2. CASE r # q
    BY <2>2, BusyApart DEF TypeOK, StepInv, StepFacts, Whole, Stem, Present, Content, Steps,
                Results, Installing, PopulateFails, diskVars, Goto
  <2> QED BY <2>1, <2>2
<1>2. MarkerHonest'
  BY DEF TypeOK, StepInv, StepFacts, Whole, MarkerHonest, Stem, Present, Content, Steps,
         Results, Installing, PopulateFails, diskVars, Goto
<1> QED BY <1>1, <1>2

\* The removed archive is this process's own.
LEMMA UnlinkInv ==
    ASSUME Apart, IInv, NEW q \in Proc, Unlink(q)
    PROVE  StepInv' /\ MarkerHonest'
<1> USE StoreConstants DEF IInv
<1>1. StepInv'
  <2> SUFFICES ASSUME NEW r \in Proc PROVE StepFacts(r)'
    BY DEF StepInv
  <2>1. CASE r = q
    BY <2>1 DEF TypeOK, StepInv, StepFacts, Whole, Stem, Present, Content, Steps, Results,
                Installing, Unlink, At, Goto
  <2>2. CASE r # q
    BY <2>2, BusyApart DEF TypeOK, StepInv, StepFacts, Whole, Stem, Present, Content, Steps,
                Results, Installing, Unlink, At, Goto
  <2> QED BY <2>1, <2>2
<1>2. MarkerHonest'
  BY DEF TypeOK, StepInv, StepFacts, Whole, MarkerHonest, Stem, Present, Content, Steps,
         Results, Installing, Unlink, At, Goto
<1> QED BY <1>1, <1>2

\* The removed clone is this process's own.
LEMMA WipeInv ==
    ASSUME Apart, IInv, NEW q \in Proc, Wipe(q)
    PROVE  StepInv' /\ MarkerHonest'
<1> USE StoreConstants DEF IInv
<1>1. StepInv'
  <2> SUFFICES ASSUME NEW r \in Proc PROVE StepFacts(r)'
    BY DEF StepInv
  <2>1. CASE r = q
    BY <2>1 DEF TypeOK, StepInv, StepFacts, Whole, Stem, Present, Content, Steps, Results,
                Installing, Wipe, At, Goto
  <2>2. CASE r # q
    BY <2>2, BusyApart DEF TypeOK, StepInv, StepFacts, Whole, Stem, Present, Content, Steps,
                Results, Installing, Wipe, At, Goto
  <2> QED BY <2>1, <2>2
<1>2. MarkerHonest'
  BY DEF TypeOK, StepInv, StepFacts, Whole, MarkerHonest, Stem, Present, Content, Steps,
         Results, Installing, Wipe, At, Goto
<1> QED BY <1>1, <1>2

\* A clone starts only in an absent directory.
LEMMA CloneInv ==
    ASSUME Apart, IInv, NEW q \in Proc, Clone(q)
    PROVE  StepInv' /\ MarkerHonest'
<1> USE StoreConstants DEF IInv
<1>1. StepInv'
  <2> SUFFICES ASSUME NEW r \in Proc PROVE StepFacts(r)'
    BY DEF StepInv
  <2>1. CASE r = q
    BY <2>1 DEF TypeOK, StepInv, StepFacts, Whole, Stem, Present, Content, Steps, Results,
                Installing, Clone, Fail, At, Goto
  <2>2. CASE r # q
    BY <2>2, BusyApart DEF TypeOK, StepInv, StepFacts, Whole, Stem, Present, Content, Steps,
                Results, Installing, Clone, Fail, At, Goto
  <2> QED BY <2>1, <2>2
<1>2. MarkerHonest'
  BY DEF TypeOK, StepInv, StepFacts, Whole, MarkerHonest, Stem, Present, Content, Steps,
         Results, Installing, Clone, Fail, At, Goto
<1> QED BY <1>1, <1>2

\* A finished clone is the pinned source.
LEMMA ClonedInv ==
    ASSUME Apart, IInv, NEW q \in Proc, Cloned(q)
    PROVE  StepInv' /\ MarkerHonest'
<1> USE StoreConstants DEF IInv
<1>1. StepInv'
  <2> SUFFICES ASSUME NEW r \in Proc PROVE StepFacts(r)'
    BY DEF StepInv
  <2>1. CASE r = q
    BY <2>1 DEF TypeOK, StepInv, StepFacts, Whole, Stem, Present, Content, Steps, Results,
                Installing, Cloned, At, Goto
  <2>2. CASE r # q
    BY <2>2, BusyApart DEF TypeOK, StepInv, StepFacts, Whole, Stem, Present, Content, Steps,
                Results, Installing, Cloned, At, Goto
  <2> QED BY <2>1, <2>2
<1>2. MarkerHonest'
  BY DEF TypeOK, StepInv, StepFacts, Whole, MarkerHonest, Stem, Present, Content, Steps,
         Results, Installing, Cloned, At, Goto
<1> QED BY <1>1, <1>2

\* A failed clone leads to no build.
LEMMA CloneFailsInv ==
    ASSUME Apart, IInv, NEW q \in Proc, CloneFails(q)
    PROVE  StepInv' /\ MarkerHonest'
<1> USE StoreConstants DEF IInv
<1>1. StepInv'
  <2> SUFFICES ASSUME NEW r \in Proc PROVE StepFacts(r)'
    BY DEF StepInv
  <2>1. CASE r = q
    BY <2>1 DEF TypeOK, StepInv, StepFacts, Whole, Stem, Present, Content, Steps, Results,
                Installing, CloneFails, Fail, At, Goto
  <2>2. CASE r # q
    BY <2>2, BusyApart DEF TypeOK, StepInv, StepFacts, Whole, Stem, Present, Content, Steps,
                Results, Installing, CloneFails, Fail, At, Goto
  <2> QED BY <2>1, <2>2
<1>2. MarkerHonest'
  BY DEF TypeOK, StepInv, StepFacts, Whole, MarkerHonest, Stem, Present, Content, Steps,
         Results, Installing, CloneFails, Fail, At, Goto
<1> QED BY <1>1, <1>2

\* Configuring changes the clone's build files only.
LEMMA ConfigureInv ==
    ASSUME Apart, IInv, NEW q \in Proc, Configure(q)
    PROVE  StepInv' /\ MarkerHonest'
<1> USE StoreConstants DEF IInv
<1>1. StepInv'
  <2> SUFFICES ASSUME NEW r \in Proc PROVE StepFacts(r)'
    BY DEF StepInv
  <2>1. CASE r = q
    BY <2>1 DEF TypeOK, StepInv, StepFacts, Whole, Stem, Present, Content, Steps, Results,
                Installing, Configure, HasStep, Filled, diskVars, Fail, At, Goto
  <2>2. CASE r # q
    BY <2>2, BusyApart DEF TypeOK, StepInv, StepFacts, Whole, Stem, Present, Content, Steps,
                Results, Installing, Configure, HasStep, Filled, diskVars, Fail, At, Goto
  <2> QED BY <2>1, <2>2
<1>2. MarkerHonest'
  BY DEF TypeOK, StepInv, StepFacts, Whole, MarkerHonest, Stem, Present, Content, Steps,
         Results, Installing, Configure, HasStep, Filled, diskVars, Fail, At, Goto
<1> QED BY <1>1, <1>2

\* A failed configure step leads to no install.
LEMMA ConfigureFailsInv ==
    ASSUME Apart, IInv, NEW q \in Proc, ConfigureFails(q)
    PROVE  StepInv' /\ MarkerHonest'
<1> USE StoreConstants DEF IInv
<1>1. StepInv'
  <2> SUFFICES ASSUME NEW r \in Proc PROVE StepFacts(r)'
    BY DEF StepInv
  <2>1. CASE r = q
    BY <2>1 DEF TypeOK, StepInv, StepFacts, Whole, Stem, Present, Content, Steps, Results,
                Installing, ConfigureFails, HasStep, diskVars, Fail, At, Goto
  <2>2. CASE r # q
    BY <2>2, BusyApart DEF TypeOK, StepInv, StepFacts, Whole, Stem, Present, Content, Steps,
                Results, Installing, ConfigureFails, HasStep, diskVars, Fail, At, Goto
  <2> QED BY <2>1, <2>2
<1>2. MarkerHonest'
  BY DEF TypeOK, StepInv, StepFacts, Whole, MarkerHonest, Stem, Present, Content, Steps,
         Results, Installing, ConfigureFails, HasStep, diskVars, Fail, At, Goto
<1> QED BY <1>1, <1>2

\* The install step starts from the pinned source.
LEMMA InstallInv ==
    ASSUME Apart, IInv, NEW q \in Proc, Install(q)
    PROVE  StepInv' /\ MarkerHonest'
<1> USE StoreConstants DEF IInv
<1>1. StepInv'
  <2> SUFFICES ASSUME NEW r \in Proc PROVE StepFacts(r)'
    BY DEF StepInv
  <2>1. CASE r = q
    BY <2>1 DEF TypeOK, StepInv, StepFacts, Whole, Stem, Present, Content, Steps, Results,
                Installing, Install, Fail, At, Goto
  <2>2. CASE r # q
    BY <2>2, BusyApart DEF TypeOK, StepInv, StepFacts, Whole, Stem, Present, Content, Steps,
                Results, Installing, Install, Fail, At, Goto
  <2> QED BY <2>1, <2>2
<1>2. MarkerHonest'
  BY DEF TypeOK, StepInv, StepFacts, Whole, MarkerHonest, Stem, Present, Content, Steps,
         Results, Installing, Install, Fail, At, Goto
<1> QED BY <1>1, <1>2

\* The tree is whole once the install step is done.
LEMMA InstalledInv ==
    ASSUME Apart, IInv, NEW q \in Proc, Installed(q)
    PROVE  StepInv' /\ MarkerHonest'
<1> USE StoreConstants DEF IInv
<1>0. ~Contended(q)
  BY BusyApart DEF Contended, StepInv, StepFacts, Installed, At
<1>1. StepInv'
  <2> SUFFICES ASSUME NEW r \in Proc PROVE StepFacts(r)'
    BY DEF StepInv
  <2>1. CASE r = q
    BY <1>0, <2>1 DEF TypeOK, StepInv, StepFacts, Whole, Stem, Present, Content, Steps, Results,
                Installing, Installed, Populate, At, Goto
  <2>2. CASE r # q
    BY <1>0, <2>2, BusyApart DEF TypeOK, StepInv, StepFacts, Whole, Stem, Present, Content, Steps,
                Results, Installing, Installed, Populate, At, Goto
  <2> QED BY <2>1, <2>2
<1>2. MarkerHonest'
  BY <1>0 DEF TypeOK, StepInv, StepFacts, Whole, MarkerHonest, Stem, Present, Content, Steps,
         Results, Installing, Installed, Populate, At, Goto
<1> QED BY <1>1, <1>2

\* A truncated marker counts as none.
LEMMA MarkInv ==
    ASSUME Apart, IInv, NEW q \in Proc, Mark(q)
    PROVE  StepInv' /\ MarkerHonest'
<1> USE StoreConstants DEF IInv
<1>1. StepInv'
  <2> SUFFICES ASSUME NEW r \in Proc PROVE StepFacts(r)'
    BY DEF StepInv
  <2>1. CASE r = q
    BY <2>1 DEF TypeOK, StepInv, StepFacts, Whole, Stem, Present, Content, Steps, Results,
                Installing, Mark, At, Goto
  <2>2. CASE r # q
    BY <2>2, BusyApart DEF TypeOK, StepInv, StepFacts, Whole, Stem, Present, Content, Steps,
                Results, Installing, Mark, At, Goto
  <2> QED BY <2>1, <2>2
<1>2. MarkerHonest'
  BY DEF TypeOK, StepInv, StepFacts, Whole, MarkerHonest, Stem, Present, Content, Steps,
         Results, Installing, Mark, At, Goto
<1> QED BY <1>1, <1>2

\* The marker is written over a whole tree.
LEMMA MarkedInv ==
    ASSUME Apart, IInv, NEW q \in Proc, Marked(q)
    PROVE  StepInv' /\ MarkerHonest'
<1> USE StoreConstants DEF IInv
<1>1. StepInv'
  <2> SUFFICES ASSUME NEW r \in Proc PROVE StepFacts(r)'
    BY DEF StepInv
  <2>1. CASE r = q
    BY <2>1 DEF TypeOK, StepInv, StepFacts, Whole, Stem, Present, Content, Steps, Results,
                Installing, Marked, At, Goto
  <2>2. CASE r # q
    BY <2>2, BusyApart DEF TypeOK, StepInv, StepFacts, Whole, Stem, Present, Content, Steps,
                Results, Installing, Marked, At, Goto
  <2> QED BY <2>1, <2>2
<1>2. MarkerHonest'
  BY DEF TypeOK, StepInv, StepFacts, Whole, MarkerHonest, Stem, Present, Content, Steps,
         Results, Installing, Marked, At, Goto
<1> QED BY <1>1, <1>2

\* The caller's step touches no file.
LEMMA ReturnInv ==
    ASSUME Apart, IInv, NEW q \in Proc, Return(q)
    PROVE  StepInv' /\ MarkerHonest'
<1> USE StoreConstants DEF IInv
<1>1. StepInv'
  <2> SUFFICES ASSUME NEW r \in Proc PROVE StepFacts(r)'
    BY DEF StepInv
  <2>1. CASE r = q
    BY <2>1 DEF TypeOK, StepInv, StepFacts, Whole, Stem, Present, Content, Steps, Results,
                Installing, Return, diskVars, Goto
  <2>2. CASE r # q
    BY <2>2, BusyApart DEF TypeOK, StepInv, StepFacts, Whole, Stem, Present, Content, Steps,
                Results, Installing, Return, diskVars, Goto
  <2> QED BY <2>1, <2>2
<1>2. MarkerHonest'
  BY DEF TypeOK, StepInv, StepFacts, Whole, MarkerHonest, Stem, Present, Content, Steps,
         Results, Installing, Return, diskVars, Goto
<1> QED BY <1>1, <1>2

\* A killed process leaves the prefix without a marker.
LEMMA CrashInv ==
    ASSUME Apart, IInv, NEW q \in Proc, Crash(q)
    PROVE  StepInv' /\ MarkerHonest'
<1> USE StoreConstants DEF IInv
<1>1. StepInv'
  <2> SUFFICES ASSUME NEW r \in Proc PROVE StepFacts(r)'
    BY DEF StepInv
  <2>1. CASE r = q
    BY <2>1 DEF TypeOK, StepInv, StepFacts, Whole, Stem, Present, Content, Steps, Results,
                Installing, Crash, Goto
  <2>2. CASE r # q
    BY <2>2, BusyApart DEF TypeOK, StepInv, StepFacts, Whole, Stem, Present, Content, Steps,
                Results, Installing, Crash, Goto
  <2> QED BY <2>1, <2>2
<1>2. MarkerHonest'
  BY DEF TypeOK, StepInv, StepFacts, Whole, MarkerHonest, Stem, Present, Content, Steps,
         Results, Installing, Crash, Goto
<1> QED BY <1>1, <1>2

-----------------------------------------------------------------------------
\* One step per action of Next.
LEMMA NextInv == ASSUME Apart, IInv, [Next]_storeVars PROVE IInv'
<1> DEFINE Kept == StepInv' /\ MarkerHonest'
<1>0. TypeOK'
  BY TypeNext DEF IInv
<1>1. CASE UNCHANGED storeVars
  BY <1>1, <1>0 DEF storeVars, IInv, TypeOK, StepInv, StepFacts, Whole, MarkerHonest, Stem, Present
<1>2. ASSUME NEW q \in Proc, NEW p \in Work[q], Plan(q, p) PROVE Kept
  BY <1>2, PlanInv
<1>3. ASSUME NEW q \in Proc, Fetch(q) PROVE Kept
  BY <1>3, DownloadInv, ReceivedInv, VerifyInv, UnpackInv, UnpackedInv, UnlinkInv
     DEF Fetch, Downloaded
<1>4. ASSUME NEW q \in Proc, Build(q) PROVE Kept
  BY <1>4, WipeInv, CloneInv, ClonedInv, ConfigureInv, InstallInv, InstalledInv DEF Build
<1>5. ASSUME NEW q \in Proc, CommandFails(q) PROVE Kept
  BY <1>5, ReceivedInv, DownloadFailsInv, PopulateFailsInv, CloneFailsInv,
     ConfigureFailsInv DEF CommandFails, DownloadedOther
<1>6. ASSUME NEW q \in Proc, ReadPresent(q) \/ SkipPresent(q) \/ Mark(q) \/ Marked(q) PROVE Kept
  BY <1>6, ReadPresentInv, SkipPresentInv, MarkInv, MarkedInv
<1>7. ASSUME NEW q \in Proc, Return(q) \/ Crash(q) PROVE Kept
  BY <1>7, ReturnInv, CrashInv
<1> QED
  BY <1>0, <1>1, <1>2, <1>3, <1>4, <1>5, <1>6, <1>7 DEF IInv, Next, Execute, Progress

\* The inductive invariant holds in every reachable state.
THEOREM StoreInvariant == ASSUME Apart PROVE Spec => []IInv
<1>1. Init => IInv
  BY InitInv
<1>2. IInv /\ [Next]_storeVars => IInv'
  BY NextInv
<1> QED BY <1>1, <1>2, PTL DEF Spec

\* TypeOK, for every instance, whoever runs at once: the types, and that a
\* process has a job exactly while execute runs or its result is pending.
THEOREM StoreTypes == Spec => []TypeOK
<1>1. Init => TypeOK
  BY InitInv DEF IInv
<1>2. TypeOK /\ [Next]_storeVars => TypeOK'
  BY TypeNext
<1> QED BY <1>1, <1>2, PTL DEF Spec

\* MarkerHonest: as long as installs keep apart, no crash, failure or
\* interleaving leaves a marker over anything but the whole pinned artifact.
THEOREM MarkersAreHonest == ASSUME Apart PROVE Spec => []MarkerHonest
<1>1. IInv => MarkerHonest
  BY DEF IInv
<1> QED BY <1>1, StoreInvariant, PTL

-----------------------------------------------------------------------------
\* Only Mark and Marked touch a marker, and neither runs over a present tool.
LEMMA MarkerSteps ==
    ASSUME IInv, [Next]_storeVars
    PROVE  \/ marker' = marker
           \/ \E q \in Proc : Mark(q) \/ Marked(q)
BY DEF Next, Execute, Progress, Fetch, Build, CommandFails, Downloaded, DownloadedOther,
       Plan, ReadPresent, SkipPresent, Download, Received, DownloadFails, Verify, Unpack, Unpacked,
       Populate, PopulateFails, Unlink, Wipe, Clone, Cloned, CloneFails, Configure,
       ConfigureFails, Install, Installed, Return, Crash, Fail, diskVars, storeVars

\* A present tool stays present.
LEMMA PresentKept ==
    ASSUME IInv, [Next]_storeVars, NEW p \in Prefix, Present(p)
    PROVE  Present(p)'
<1>1. CASE marker' = marker
  BY <1>1 DEF Present
<1>2. ASSUME NEW q \in Proc, Mark(q) PROVE Present(p)'
  BY <1>2 DEF IInv, TypeOK, StepInv, StepFacts, Installing, Steps, Mark, At, Present
<1>3. ASSUME NEW q \in Proc, Marked(q) PROVE Present(p)'
  BY <1>3 DEF IInv, TypeOK, Marked, Present
<1> QED BY <1>1, <1>2, <1>3, MarkerSteps

\* ImplementsAtomicStore: the steps of execute, with every failure and crash,
\* look from outside like one step per tool, taken once.
THEOREM StoreRefinesAtomicStore == ASSUME Apart PROVE Spec => ImplementsAtomicStore
<1> DEFINE Seen == [p \in Filled |-> IF Present(p) THEN tree[p] ELSE Nothing]
<1>1. Init => Atomic!Init
  BY StoreConstants DEF Init, Present, Filled, Atomic!Init
<1>2. ASSUME IInv, IInv', [Next]_storeVars
      PROVE  [Atomic!Next]_Seen
  <2>1. Seen = [p \in Filled |-> IF Present(p) THEN p ELSE Nothing]
    BY <1>2 DEF IInv, MarkerHonest, Whole, Filled
  <2>2. Seen' = [p \in Filled |-> IF Present(p)' THEN p ELSE Nothing]
    BY <1>2 DEF IInv, MarkerHonest, Whole, Filled
  <2>3. CASE marker' = marker
    BY <2>1, <2>2, <2>3 DEF Present, Filled
  <2>4. ASSUME NEW q \in Proc, Mark(q)
        PROVE  Seen' = Seen
    <3>1. ~Present(job[q]) /\ job[q] \in Prefix
      BY <1>2, <2>4 DEF IInv, TypeOK, StepInv, StepFacts, Installing, Steps, Mark, At
    <3>2. \A p \in Prefix : Present(p)' <=> Present(p)
      BY <1>2, <2>4, <3>1, StoreConstants DEF IInv, TypeOK, Mark, Present
    <3> QED BY <2>1, <2>2, <3>2 DEF Filled
  <2>5. ASSUME NEW q \in Proc, Marked(q)
        PROVE  [Atomic!Next]_Seen
    <3>1. ~Present(job[q]) /\ job[q] \in Prefix
      BY <1>2, <2>5 DEF IInv, TypeOK, StepInv, StepFacts, Installing, Steps, Marked, At
    <3>2. \A p \in Prefix : Present(p)' <=> (p = job[q] \/ Present(p))
      BY <1>2, <2>5, <3>1 DEF IInv, TypeOK, Marked, Present
    <3>3. CASE job[q] \in Filled
      <4>1. Seen[job[q]] = Nothing /\ Seen' = [Seen EXCEPT ![job[q]] = job[q]]
        BY <2>1, <2>2, <3>1, <3>2, <3>3 DEF Filled
      <4> QED BY <3>3, <4>1 DEF Atomic!Next, Atomic!InstallWhole
    <3>4. CASE job[q] \notin Filled
      <4>1. Seen' = Seen
        BY <2>1, <2>2, <3>2, <3>4 DEF Filled
      <4> QED BY <4>1
    <3> QED BY <3>3, <3>4
  <2> QED BY <1>2, MarkerSteps, <2>3, <2>4, <2>5
<1> QED BY <1>1, <1>2, StoreInvariant, PTL DEF Spec, ImplementsAtomicStore, Atomic!Spec

-----------------------------------------------------------------------------
(* The setup commands.                                                     *)

\* Inside execute or provision_source, or about to look at their result.
Busy(q) == pc[q] # "idle" \/ at[q] # "idle"

OneAtATime(q) == pc[q] = "idle" \/ at[q] = "idle"

\* The tools of a package list are of those the process may install.
Within(list, q) == \A i \in DOMAIN list : list[i] \in Prefix => list[i] \in Work[q]

\* A process comes to packages of its own command lines only, and one that
\* installs or provisions does so for the package at the list's head.
ListInv ==
    /\ rest \in [Proc -> Seq(Package)]
    /\ DOMAIN at = Proc /\ DOMAIN phase = Proc
    /\ \A q \in Proc : Within(rest[q], q)
    /\ \A q \in Proc : OneAtATime(q)
    /\ \A q \in Proc : Busy(q) => rest[q] # <<>> /\ phase[q] = "list"

\* Whatever a lock, a command's copy of it or its PATH names is in the store.
Stored == {p \in Prefix : Present(p)}

RecordInv ==
    /\ DOMAIN cur = Proc /\ \A q \in Proc : cur[q].cwd \in Cwd
    /\ lock \in [Cwd -> SUBSET Stored]
    /\ mem \in [Proc -> SUBSET Stored]
    /\ bins \in [Proc -> SUBSET (Stored \cap HasBin)]

SetupInv == IInv /\ ListInv /\ RecordInv

-----------------------------------------------------------------------------
\* The head of a non-empty package list is on it, its tail is a package list.
LEMMA ListHeadTail ==
    ASSUME NEW S, NEW s \in Seq(S), s # <<>>
    PROVE  /\ Head(s) \in S /\ 1 \in DOMAIN s /\ Head(s) = s[1]
           /\ Tail(s) \in Seq(S)
           /\ \A i \in DOMAIN Tail(s) : i + 1 \in DOMAIN s /\ Tail(s)[i] = s[i + 1]
OBVIOUS

\* A step of a setup command is a step of the store, or not the store's affair.
LEMMA StoreStep ==
    ASSUME ListInv, [SetupNext]_setupVars
    PROVE  [Next]_storeVars
<1>1. ASSUME NEW q \in Proc, TakeTool(q) PROVE Next
  <2>1. Head(rest[q]) \in Work[q]
    BY <1>1, ListHeadTail DEF ListInv, Within, TakeTool, AtPackage
  <2> QED BY <1>1, <2>1 DEF TakeTool, Next
<1>2. ASSUME NEW q \in Proc, PassOver(q) \/ RunStore(q) PROVE Next
  BY <1>2 DEF PassOver, RunStore, Next
<1>3. ASSUME NEW q \in Proc,
             ToolInstalled(q) \/ SingleToolInstalled(q) \/ ToolFailed(q) \/ ToolUnavailable(q)
      PROVE  Next
  BY <1>3 DEF ToolInstalled, SingleToolInstalled, ToolFailed, ToolUnavailable, Next
<1>4. ASSUME NEW q \in Proc, NEW c \in Command[q], Start(q, c) PROVE UNCHANGED storeVars
  BY <1>4 DEF Start
<1>5. ASSUME NEW q \in Proc,
             TakeSource(q) \/ RunGit(q) \/ SourceDone(q) \/ SourceFailed(q) \/ PassGated(q)
             \/ Finish(q) \/ Truncate(q) \/ Write(q)
      PROVE  UNCHANGED storeVars
  BY <1>5 DEF TakeSource, RunGit, SourceDone, SourceFailed, PassGated, Finish, Truncate, Write
<1>6. ASSUME NEW q \in Proc, Kill(q) PROVE [Next]_storeVars
  BY <1>6 DEF Kill, Next
<1>7. CASE UNCHANGED setupVars
  BY <1>7 DEF setupVars, storeVars
<1> QED BY <1>1, <1>2, <1>3, <1>4, <1>5, <1>6, <1>7 DEF SetupNext, Step

\* execute moves no process but its own, and not an idle one.
LEMMA ExecuteOwn ==
    ASSUME TypeOK, NEW q \in Proc, Execute(q)
    PROVE  /\ pc[q] # "idle" /\ pc'[q] # "idle"
           /\ \A r \in Proc \ {q} : pc'[r] = pc[r]
BY DEF TypeOK, Execute, Progress, Fetch, Build, CommandFails, Downloaded, DownloadedOther,
       ReadPresent, Download, Received, DownloadFails, Verify, Unpack, Unpacked, Populate,
       PopulateFails, Unlink, Wipe, Clone, Cloned, CloneFails, Configure, ConfigureFails,
       Install, Installed, Mark, Marked, Fail, At, Goto, Results

\* Nor do the git commands of provision_source.
LEMMA GitOwn ==
    ASSUME DOMAIN at = Proc, NEW q \in Proc, Prov!Git(q) \/ Prov!Fails(q)
    PROVE  /\ at[q] # "idle" /\ DOMAIN at' = Proc
           /\ \A r \in Proc \ {q} : at'[r] = at[r]
BY DEF Prov!Git, Prov!Fails, Prov!GitInit, Prov!RemoteAdd, Prov!GitFetch, Prov!Checkout,
       Prov!Nested, Prov!CloneStart, Prov!CloneDone, Prov!CheckoutRef, Prov!SubmoduleUpdate,
       Prov!LsTree, Prov!FetchSha, Prov!CheckoutSha, Prov!NestedSha, Prov!GitCloneFails,
       Prov!UpdateFails, Prov!GitFails, Prov!CheckedOut, Prov!Leaves, Prov!Err, Prov!Go,
       Prov!GitSteps

\* What every step of a command has to show for ListInv: it leaves the other
\* processes alone and its own list within its work.
LEMMA ListKept ==
    ASSUME ListInv, NEW q \in Proc, NEW list \in Seq(Package), Within(list, q),
           rest' = [rest EXCEPT ![q] = list],
           DOMAIN at' = Proc, DOMAIN phase' = Proc,
           \A r \in Proc \ {q} : pc'[r] = pc[r] /\ at'[r] = at[r] /\ phase'[r] = phase[r],
           OneAtATime(q)', Busy(q)' => list # <<>> /\ phase'[q] = "list"
    PROVE  ListInv'
<1>1. rest' \in [Proc -> Seq(Package)]
  BY DEF ListInv
<1>2. \A r \in Proc : Within(rest[r], r)'
  <2> SUFFICES ASSUME NEW r \in Proc PROVE Within(rest'[r], r)
    BY DEF Within
  <2> QED BY DEF ListInv, Within
<1>3. \A r \in Proc : Busy(r)' => rest'[r] # <<>> /\ phase'[r] = "list"
  BY DEF ListInv, Busy
<1>4. \A r \in Proc : OneAtATime(r)'
  BY DEF ListInv, OneAtATime
<1> QED BY <1>1, <1>2, <1>3, <1>4 DEF ListInv

\* The list that is left once its head is dealt with.
LEMMA TailWithin ==
    ASSUME ListInv, NEW q \in Proc, rest[q] # <<>>
    PROVE  Tail(rest[q]) \in Seq(Package) /\ Within(Tail(rest[q]), q)
BY ListHeadTail DEF ListInv, Within

\* Leaving the list as it is.
LEMMA ListSame ==
    ASSUME ListInv, NEW q \in Proc, rest' = rest, DOMAIN at' = Proc, DOMAIN phase' = Proc,
           \A r \in Proc \ {q} : pc'[r] = pc[r] /\ at'[r] = at[r] /\ phase'[r] = phase[r],
           OneAtATime(q)', Busy(q)' => rest[q] # <<>> /\ phase'[q] = "list"
    PROVE  ListInv'
<1>1. rest' = [rest EXCEPT ![q] = rest[q]]
  BY DEF ListInv
<1> QED BY <1>1, ListKept DEF ListInv

\* Going on to the next package, with nothing begun for it.
LEMMA ListNext ==
    ASSUME ListInv, NEW q \in Proc, rest[q] # <<>>, NextPackage(q),
           DOMAIN at' = Proc, DOMAIN phase' = Proc,
           \A r \in Proc \ {q} : pc'[r] = pc[r] /\ at'[r] = at[r] /\ phase'[r] = phase[r],
           ~Busy(q)'
    PROVE  ListInv'
BY TailWithin, ListKept DEF NextPackage, Busy, OneAtATime

\* Ending the command, with nothing left running.
LEMMA ListEnds ==
    ASSUME ListInv, NEW q \in Proc, NEW result, Ends(q, result), DOMAIN at' = Proc,
           \A r \in Proc \ {q} : pc'[r] = pc[r] /\ at'[r] = at[r],
           ~Busy(q)'
    PROVE  ListInv'
<1>1. <<>> \in Seq(Package) /\ Within(<<>>, q)
  BY DEF Within
<1>2. rest' = [rest EXCEPT ![q] = <<>>]
  BY DEF Ends
<1>3. DOMAIN phase' = Proc /\ \A r \in Proc \ {q} : phase'[r] = phase[r]
  BY DEF Ends, ListInv
<1> QED BY <1>1, <1>2, <1>3, ListKept DEF Busy, OneAtATime

\* Commands start on lists within the process's work and only ever shorten them.
LEMMA ListStep ==
    ASSUME TypeOK, ListInv, [SetupNext]_setupVars
    PROVE  ListInv'
<1>0. /\ DOMAIN at = Proc /\ DOMAIN phase = Proc /\ DOMAIN pc = Proc
      /\ \A q \in Proc : Busy(q) => rest[q] # <<>> /\ phase[q] = "list" /\ OneAtATime(q)
  BY DEF TypeOK, ListInv
<1> USE DEF Goto, At, storeVars, provVars, cmdVars
<1>1. ASSUME NEW q \in Proc, NEW c \in Command[q], Start(q, c) PROVE ListInv'
  <2>1. c.list \in Seq(Package) /\ Within(c.list, q)
    BY SetupConstants DEF Within
  <2>2. /\ rest' = [rest EXCEPT ![q] = c.list] /\ pc' = pc /\ at' = at
        /\ phase[q] = "out" /\ phase' = [phase EXCEPT ![q] = "list"]
    BY <1>1 DEF Start
  <2>3. ~Busy(q)' /\ OneAtATime(q)'
    BY <1>0, <2>2 DEF Busy, OneAtATime
  <2> QED BY <1>0, <2>1, <2>2, <2>3, ListKept
<1>2. ASSUME NEW q \in Proc, TakeTool(q) PROVE ListInv'
  <2>1. /\ rest' = rest /\ at' = at /\ phase' = phase
        /\ at[q] = "idle" /\ rest[q] # <<>> /\ phase[q] = "list"
        /\ \A r \in Proc \ {q} : pc'[r] = pc[r]
    BY <1>0, <1>2 DEF TakeTool, AtPackage, Plan
  <2>2. OneAtATime(q)'
    BY <2>1 DEF OneAtATime
  <2> QED BY <1>0, <2>1, <2>2, ListSame
\* What handing on a result of execute has in common.
<1>3. ASSUME NEW q \in Proc, pc[q] # "idle", pc' = [pc EXCEPT ![q] = "idle"], at' = at
      PROVE  /\ rest[q] # <<>> /\ ~Busy(q)'
             /\ \A r \in Proc \ {q} : pc'[r] = pc[r] /\ at'[r] = at[r]
  BY <1>0, <1>3 DEF Busy, OneAtATime
<1>4. ASSUME NEW q \in Proc, PassOver(q) PROVE ListInv'
  <2>1. pc[q] = "present" /\ pc' = [pc EXCEPT ![q] = "idle"] /\ at' = at /\ phase' = phase
        /\ NextPackage(q)
    BY <1>4 DEF PassOver, SkipPresent
  <2> QED BY <1>0, <1>3, <2>1, ListNext
<1>5. ASSUME NEW q \in Proc, RunStore(q) PROVE ListInv'
  <2>1. rest' = rest /\ at' = at /\ phase' = phase /\ Execute(q)
    BY <1>5 DEF RunStore
  <2>2. pc[q] # "idle" /\ \A r \in Proc \ {q} : pc'[r] = pc[r]
    BY <2>1, ExecuteOwn
  <2>3. at[q] = "idle" /\ rest[q] # <<>> /\ phase[q] = "list"
    BY <1>0, <2>2 DEF Busy, OneAtATime
  <2>4. OneAtATime(q)'
    BY <2>1, <2>3 DEF OneAtATime
  <2> QED BY <1>0, <2>1, <2>2, <2>3, <2>4, ListSame
<1>6. ASSUME NEW q \in Proc, Return(q)
      PROVE  pc[q] # "idle" /\ pc' = [pc EXCEPT ![q] = "idle"]
  BY <1>6 DEF Return, Results
<1>7. ASSUME NEW q \in Proc, ToolInstalled(q) PROVE ListInv'
  <2>1. Return(q) /\ at' = at /\ phase' = phase /\ NextPackage(q)
    BY <1>7 DEF ToolInstalled
  <2> QED BY <1>0, <1>3, <1>6, <2>1, ListNext
<1>8. ASSUME NEW q \in Proc, SingleToolInstalled(q) PROVE ListInv'
  <2>1. Return(q) /\ at' = at
    BY <1>8 DEF SingleToolInstalled
  <2>2. CASE Ends(q, "ok")
    BY <1>0, <1>3, <1>6, <2>1, <2>2, ListEnds
  <2>3. CASE rest' = rest /\ phase' = [phase EXCEPT ![q] = "truncate"]
    <3>1. ~Busy(q)' /\ \A r \in Proc \ {q} : pc'[r] = pc[r]
      BY <1>3, <1>6, <2>1
    <3>2. OneAtATime(q)'
      BY <3>1 DEF Busy, OneAtATime
    <3> QED BY <1>0, <2>1, <2>3, <3>1, <3>2, ListSame
  <2> QED BY <1>8, <2>2, <2>3 DEF SingleToolInstalled
<1>9. ASSUME NEW q \in Proc, ToolFailed(q) \/ ToolUnavailable(q) PROVE ListInv'
  <2>1. Return(q) /\ at' = at
    BY <1>9 DEF ToolFailed, ToolUnavailable
  <2>2. CASE Ends(q, "err")
    BY <1>0, <1>3, <1>6, <2>1, <2>2, ListEnds
  <2>3. CASE NextPackage(q) /\ phase' = phase
    BY <1>0, <1>3, <1>6, <2>1, <2>3, ListNext
  <2> QED BY <1>9, <2>2, <2>3 DEF ToolFailed, ToolUnavailable
<1>10. ASSUME NEW q \in Proc, TakeSource(q) PROVE ListInv'
  <2>1. /\ rest' = rest /\ pc' = pc /\ phase' = phase
        /\ pc[q] = "idle" /\ rest[q] # <<>> /\ phase[q] = "list"
        /\ DOMAIN at' = Proc /\ \A r \in Proc \ {q} : at'[r] = at[r]
    BY <1>0, <1>10 DEF TakeSource, AtPackage, Prov!Begin, Prov!BeginClone, Prov!Go
  <2>2. OneAtATime(q)'
    BY <2>1 DEF OneAtATime
  <2> QED BY <1>0, <2>1, <2>2, ListSame
<1>11. ASSUME NEW q \in Proc, RunGit(q) PROVE ListInv'
  <2>1. rest' = rest /\ pc' = pc /\ phase' = phase /\ (Prov!Git(q) \/ Prov!Fails(q))
    BY <1>11 DEF RunGit
  <2>2. at[q] # "idle" /\ DOMAIN at' = Proc /\ \A r \in Proc \ {q} : at'[r] = at[r]
    BY <1>0, <2>1, GitOwn
  <2>3. pc[q] = "idle" /\ rest[q] # <<>> /\ phase[q] = "list"
    BY <1>0, <2>2 DEF Busy, OneAtATime
  <2>4. OneAtATime(q)'
    BY <2>1, <2>3 DEF OneAtATime
  <2> QED BY <1>0, <2>1, <2>2, <2>3, <2>4, ListSame
<1>12. ASSUME NEW q \in Proc, SourceDone(q) \/ SourceFailed(q) PROVE ListInv'
  <2>1. at[q] # "idle" /\ at' = [at EXCEPT ![q] = "idle"] /\ pc' = pc
    BY <1>12 DEF SourceDone, SourceFailed, Prov!Take, Prov!Go, Prov!Dispositions,
                 Prov!Provisioned, Prov!AlreadyPresent, Prov!NoFetch
  <2>2. /\ rest[q] # <<>> /\ ~Busy(q)' /\ DOMAIN at' = Proc
        /\ \A r \in Proc \ {q} : pc'[r] = pc[r] /\ at'[r] = at[r]
    BY <1>0, <2>1 DEF Busy, OneAtATime
  <2>3. CASE NextPackage(q) /\ phase' = phase
    BY <1>0, <2>2, <2>3, ListNext
  <2>4. CASE Ends(q, "err")
    BY <2>2, <2>4, ListEnds
  <2> QED BY <1>12, <2>3, <2>4 DEF SourceDone, SourceFailed
<1>13. ASSUME NEW q \in Proc, PassGated(q) PROVE ListInv'
  <2>1. /\ NextPackage(q) /\ pc' = pc /\ at' = at /\ phase' = phase
        /\ pc[q] = "idle" /\ at[q] = "idle" /\ rest[q] # <<>>
    BY <1>13 DEF PassGated, AtPackage
  <2>2. ~Busy(q)'
    BY <2>1 DEF Busy
  <2> QED BY <1>0, <2>1, <2>2, ListNext
<1>14. ASSUME NEW q \in Proc, Finish(q) PROVE ListInv'
  <2>1. pc' = pc /\ at' = at /\ pc[q] = "idle" /\ at[q] = "idle"
    BY <1>14 DEF Finish
  <2>2. ~Busy(q)' /\ OneAtATime(q)'
    BY <2>1 DEF Busy, OneAtATime
  <2>3. CASE rest' = rest /\ phase' = [phase EXCEPT ![q] = "truncate"]
    BY <1>0, <2>1, <2>2, <2>3, ListSame
  <2>4. CASE Ends(q, "ok")
    BY <1>0, <2>1, <2>2, <2>4, ListEnds
  <2> QED BY <1>14, <2>3, <2>4 DEF Finish
<1>15. ASSUME NEW q \in Proc, Truncate(q) \/ Write(q) PROVE ListInv'
  <2>1. pc' = pc /\ at' = at /\ phase[q] # "list"
    BY <1>15 DEF Truncate, Write
  <2>2. ~Busy(q)' /\ OneAtATime(q)'
    BY <1>0, <2>1 DEF Busy, OneAtATime
  <2>3. CASE Truncate(q)
    BY <1>0, <2>1, <2>2, <2>3, ListSame DEF Truncate
  <2>4. CASE Write(q)
    BY <1>0, <2>1, <2>2, <2>4, ListEnds DEF Write
  <2> QED BY <1>15, <2>3, <2>4
<1>16. ASSUME NEW q \in Proc, Kill(q) PROVE ListInv'
  <2>1. Ends(q, "killed")
    BY <1>16 DEF Kill
  <2>2. CASE Crash(q) /\ UNCHANGED provVars
    <3>1. pc[q] # "idle" /\ pc' = [pc EXCEPT ![q] = "idle"]
      BY <2>2 DEF Crash, Steps
    <3> QED BY <1>0, <1>3, <2>1, <2>2, <3>1, ListEnds
  <2>3. CASE Prov!Killed(q) /\ UNCHANGED storeVars
    <3>1. at[q] # "idle" /\ at' = [at EXCEPT ![q] = "idle"] /\ pc' = pc
      BY <2>3 DEF Prov!Killed, Prov!Go, Prov!GitSteps
    <3>2. ~Busy(q)' /\ DOMAIN at' = Proc /\ \A r \in Proc \ {q} : at'[r] = at[r]
      BY <1>0, <3>1 DEF Busy, OneAtATime
    <3> QED BY <2>1, <3>1, <3>2, ListEnds
  <2>4. CASE pc[q] = "idle" /\ at[q] = "idle" /\ UNCHANGED <<storeVars, provVars>>
    BY <1>0, <2>1, <2>4, ListEnds DEF Busy
  <2> QED BY <1>16, <2>2, <2>3, <2>4 DEF Kill
<1>17. CASE UNCHANGED setupVars
  BY <1>17 DEF setupVars, ListInv, Within, OneAtATime, Busy
<1> QED
  BY <1>1, <1>2, <1>4, <1>5, <1>7, <1>8, <1>9, <1>10, <1>11, <1>12, <1>13, <1>14, <1>15,
     <1>16, <1>17 DEF SetupNext, Step

-----------------------------------------------------------------------------
\* Recording a tool adds it and drops the entry of an older version at most.
LEMMA RecordWithin ==
    ASSUME NEW S, NEW entries \in SUBSET S, NEW p \in S
    PROVE  Record(entries, p) \in SUBSET S
BY DEF Record

\* A function into the subsets of S stays one when one value is replaced.
LEMMA SubsetsExcept ==
    ASSUME NEW A, NEW S, NEW f \in [A -> SUBSET S], NEW a \in A, NEW x \in SUBSET S
    PROVE  [f EXCEPT ![a] = x] \in [A -> SUBSET S]
OBVIOUS

\* What ensure_tools finds under a present tool: its bin/, if the artifact has one.
LEMMA BinFound ==
    ASSUME IInv, NEW q \in Proc, pc[q] # "idle", Present(job[q]), BinAdded(q)
    PROVE  bins' = IF Kind(q) = "auto" /\ job[q] \in HasBin
                   THEN [bins EXCEPT ![q] = @ \cup {job[q]}]
                   ELSE [bins EXCEPT ![q] = @]
<1>1. job[q] \in Prefix
  BY DEF IInv, TypeOK
<1>2. ASSUME NEW there \in BOOLEAN, BinIsDir(job[q], there)
      PROVE  there <=> job[q] \in HasBin
  BY <1>1, <1>2, SetupConstants DEF IInv, MarkerHonest, Whole, BinIsDir
<1>3. PICK there \in BOOLEAN :
        /\ BinIsDir(job[q], there)
        /\ bins' = [bins EXCEPT ![q] =
                      IF Kind(q) = "auto" /\ there THEN @ \cup {job[q]} ELSE @]
  BY DEF BinAdded
<1> QED BY <1>2, <1>3

\* Locks, their copies and the PATHs only ever take in what execute reported,
\* and nothing leaves the store.
LEMMA RecordStep ==
    ASSUME IInv, ListInv, RecordInv, [SetupNext]_setupVars
    PROVE  RecordInv'
<1>1. Stored \subseteq Stored'
  BY StoreStep, PresentKept DEF Stored, Present
<1>2. /\ lock \in [Cwd -> SUBSET Stored'] /\ mem \in [Proc -> SUBSET Stored']
      /\ bins \in [Proc -> SUBSET (Stored' \cap HasBin)]
  BY <1>1 DEF RecordInv
<1>3. \A q \in Proc : pc[q] \in {"present", "ok"} => job[q] \in Stored'
  BY <1>1 DEF IInv, TypeOK, StepInv, StepFacts, Stored
<1>4. DOMAIN cur = Proc /\ \A q \in Proc : cur[q].cwd \in Cwd
  BY DEF RecordInv
<1> DEFINE Kept == lock' = lock /\ cur' = cur
<1>5. ASSUME Kept, mem' \in [Proc -> SUBSET Stored'], bins' \in [Proc -> SUBSET (Stored' \cap HasBin)]
      PROVE  RecordInv'
  BY <1>2, <1>4, <1>5 DEF RecordInv
<1>6. ASSUME NEW q \in Proc, NEW result, Ends(q, result)
      PROVE  mem' \in [Proc -> SUBSET Stored']
  BY <1>2, <1>6, SubsetsExcept DEF Ends
<1>7. ASSUME NEW q \in Proc, pc[q] \in {"present", "ok"}, BinAdded(q)
      PROVE  bins' \in [Proc -> SUBSET (Stored' \cap HasBin)]
  <2>1. Present(job[q]) /\ job[q] \in Stored'
    BY <1>3, <1>7 DEF IInv, StepInv, StepFacts
  <2> QED BY <1>2, <1>7, <2>1, BinFound
<1>8. ASSUME NEW q \in Proc, NEW c \in Command[q], Start(q, c) PROVE RecordInv'
  <2>1. c.cwd \in Cwd
    BY SetupConstants
  <2>2. mem' \in [Proc -> SUBSET Stored'] /\ bins' \in [Proc -> SUBSET (Stored' \cap HasBin)]
    BY <1>2, <1>8, <2>1 DEF Start
  <2>3. DOMAIN cur' = Proc /\ \A r \in Proc : cur'[r].cwd \in Cwd
    BY <1>4, <1>8, <2>1 DEF Start
  <2>4. lock' = lock
    BY <1>8 DEF Start
  <2> QED BY <1>2, <2>2, <2>3, <2>4 DEF RecordInv
<1>9. ASSUME NEW q \in Proc,
             TakeTool(q) \/ RunStore(q) \/ TakeSource(q) \/ RunGit(q) \/ PassGated(q)
      PROVE  RecordInv'
  <2>1. Kept /\ mem' = mem /\ bins' = bins
    BY <1>9 DEF TakeTool, RunStore, TakeSource, RunGit, PassGated, cmdVars
  <2> QED BY <1>2, <1>5, <2>1
<1>10. ASSUME NEW q \in Proc, PassOver(q) PROVE RecordInv'
  <2>1. Kept /\ mem' = mem /\ BinAdded(q) /\ pc[q] = "present"
    BY <1>10 DEF PassOver, SkipPresent, At
  <2> QED BY <1>2, <1>5, <1>7, <2>1
<1>11. ASSUME NEW q \in Proc, ToolInstalled(q) PROVE RecordInv'
  <2>1. Kept /\ BinAdded(q) /\ job[q] \in Stored' /\ pc[q] = "ok"
    BY <1>3, <1>11 DEF ToolInstalled
  <2>2. mem' = [mem EXCEPT ![q] = Record(mem[q], job[q])]
    BY <1>11 DEF ToolInstalled
  <2>3. mem' \in [Proc -> SUBSET Stored']
    BY <1>2, <2>1, <2>2, RecordWithin, SubsetsExcept
  <2> QED BY <1>5, <1>7, <2>1, <2>3
<1>12. ASSUME NEW q \in Proc, SingleToolInstalled(q) PROVE RecordInv'
  <2>1. Kept /\ bins' = bins /\ job[q] \in Stored'
    BY <1>3, <1>12 DEF SingleToolInstalled
  <2>2. CASE Ends(q, "ok")
    BY <1>2, <1>5, <1>6, <2>1, <2>2
  <2>3. CASE mem' = [mem EXCEPT ![q] = Record(MyLock(q), job[q])]
    <3>1. MyLock(q) \in SUBSET Stored'
      BY <1>2, <1>4 DEF MyLock
    <3>2. mem' \in [Proc -> SUBSET Stored']
      BY <1>2, <2>1, <2>3, <3>1, RecordWithin, SubsetsExcept
    <3> QED BY <1>2, <1>5, <2>1, <3>2
  <2> QED BY <1>12, <2>2, <2>3 DEF SingleToolInstalled
<1>13. ASSUME NEW q \in Proc,
              ToolFailed(q) \/ ToolUnavailable(q) \/ SourceDone(q) \/ SourceFailed(q)
              \/ Finish(q) \/ Kill(q)
       PROVE  RecordInv'
  <2>1. Kept /\ bins' = bins /\ (mem' = mem \/ \E result : Ends(q, result))
    BY <1>13 DEF ToolFailed, ToolUnavailable, SourceDone, SourceFailed, Finish, Kill
  <2> QED BY <1>2, <1>5, <1>6, <2>1
<1>14. ASSUME NEW q \in Proc, Truncate(q) PROVE RecordInv'
  BY <1>2, <1>4, <1>14 DEF Truncate, RecordInv
<1>15. ASSUME NEW q \in Proc, Write(q) PROVE RecordInv'
  <2>1. mem[q] \in SUBSET Stored'
    BY <1>2
  <2>2. lock' \in [Cwd -> SUBSET Stored'] /\ cur' = cur /\ bins' = bins
    BY <1>2, <1>4, <1>15, <2>1, SubsetsExcept DEF Write
  <2>3. mem' \in [Proc -> SUBSET Stored']
    BY <1>6, <1>15 DEF Write
  <2> QED BY <1>2, <1>4, <2>2, <2>3 DEF RecordInv
<1>16. CASE UNCHANGED setupVars
  BY <1>2, <1>5, <1>16 DEF setupVars
<1> QED
  BY <1>8, <1>9, <1>10, <1>11, <1>12, <1>13, <1>14, <1>15, <1>16 DEF SetupNext, Step

-----------------------------------------------------------------------------
\* The inductive invariant of the commands over the store: LockedAreInstalled
\* alone says nothing of the copies in memory a later save writes.
THEOREM SetupInvariant == ASSUME Apart PROVE SetupSpec => []SetupInv
<1>1. SetupInit => SetupInv
  <2> SUFFICES ASSUME SetupInit PROVE SetupInv
    OBVIOUS
  <2>1. IInv
    BY InitInv DEF SetupInit
  <2>2. ListInv
    BY DEF SetupInit, Init, Prov!SpInit, ListInv, Within, OneAtATime, Busy
  <2>3. RecordInv
    BY SetupConstants DEF SetupInit, RecordInv, NoCommand
  <2> QED BY <2>1, <2>2, <2>3 DEF SetupInv
<1>2. SetupInv /\ [SetupNext]_setupVars => SetupInv'
  <2> SUFFICES ASSUME SetupInv, [SetupNext]_setupVars PROVE SetupInv'
    OBVIOUS
  <2>1. IInv'
    BY StoreStep, NextInv DEF SetupInv
  <2>2. ListInv'
    BY ListStep DEF SetupInv, IInv
  <2>3. RecordInv'
    BY RecordStep DEF SetupInv
  <2> QED BY <2>1, <2>2, <2>3 DEF SetupInv
<1> QED BY <1>1, <1>2, PTL DEF SetupSpec

\* LockedAreInstalled: whatever fails or is killed in the middle of a setup,
\* nros-sdk.lock names only tools that are in the store, whole.
THEOREM LocksNameInstalledTools == ASSUME Apart PROVE SetupSpec => []LockedAreInstalled
<1>1. SetupInv => LockedAreInstalled
  BY DEF SetupInv, IInv, RecordInv, Stored, MarkerHonest, LockedAreInstalled
<1> QED BY <1>1, SetupInvariant, PTL

\* A setup command is a client of the store and nothing else: what is proved
\* of SdkStore holds of the whole system.
THEOREM SetupUsesTheStore == ASSUME Apart PROVE SetupSpec => Spec
<1>1. SetupInit => Init
  BY DEF SetupInit
<1>2. SetupInv /\ [SetupNext]_setupVars => [Next]_storeVars
  BY StoreStep DEF SetupInv
<1> QED BY <1>1, <1>2, SetupInvariant, PTL DEF SetupSpec, Spec
-----------------------------------------------------------------------------
(* OkIsUsable: what a command that ended Ok has accounted for.              *)

\* Commands of two processes have different working directories, so that a
\* lock is rewritten by one process only.
OwnLock ==
    \A q, r \in Proc : \A c \in Command[q], d \in Command[r] : c.cwd = d.cwd => q = r

\* A board's packages are names of one index, which has one version of a tool.
OneVersion ==
    \A q \in Proc : \A c \in Command[q] : \A i, j \in DOMAIN c.list :
        c.list[i] \in Prefix /\ c.list[j] \in Prefix /\ ToolOf[c.list[i]] = ToolOf[c.list[j]]
            => c.list[i] = c.list[j]

\* The tools ensure_tools can put on the PATH.
Findable(p) == p \in HasBin /\ Recipe[p] # "none"

InList(list, p) == \E i \in DOMAIN list : list[i] = p

\* The tools a command was given, and those it has still to come to.
Listed(q) == {p \in Prefix : InList(cur[q].list, p)}
Left(q) == {p \in Prefix : InList(rest[q], p)}

\* The package being dealt with is the one at the head of the list, and only a
\* tool without a recipe is unavailable.
Underway(q) ==
    /\ \/ cur[q] \in Command[q]
       \/ cur[q] = NoCommand /\ phase[q] = "out"
    /\ Left(q) \subseteq Listed(q)
    /\ pc[q] # "idle" => job[q] = Head(rest[q])
    /\ pc[q] = "unavailable" => Recipe[job[q]] = "none"
    /\ at[q] # "idle" => Head(rest[q]) \in Source

\* Of nros setup: every tool is still to come, or in the copy of the lock that
\* is going to be saved because of it; once it was saved, in the lock.
SetupAccount(q) ==
    /\ phase[q] = "list" => \A p \in Listed(q) \ Left(q) : dirty[q] /\ p \in mem[q]
    /\ phase[q] \in {"truncate", "write"} => Listed(q) \subseteq mem[q]
    /\ outcome[q] = "ok" => Listed(q) \subseteq MyLock(q)

\* Of ensure_tools: every tool there is a recipe for and a bin/ in is still to come, or on the PATH.
AutoAccount(q) ==
    /\ phase[q] = "list" =>
          \A p \in Listed(q) \ Left(q) : Findable(p) => p \in bins[q]
    /\ phase[q] \in {"truncate", "write"} \/ outcome[q] = "ok" =>
          \A p \in Listed(q) : Findable(p) => p \in bins[q]

Accounted(q) ==
    /\ Underway(q)
    /\ phase[q] \in {"out", "list", "truncate", "write"}
    /\ phase[q] # "out" => outcome[q] = "none"
    /\ Kind(q) = "setup" => SetupAccount(q)
    /\ Kind(q) = "auto" => AutoAccount(q)

AccountInv ==
    /\ DOMAIN cur = Proc /\ DOMAIN dirty = Proc /\ DOMAIN outcome = Proc
    /\ DOMAIN mem = Proc /\ DOMAIN bins = Proc /\ DOMAIN lock = Cwd
    /\ \A q \in Proc : Accounted(q)

\* The variables of a command, each for its own process.
Unmoved(r) ==
    /\ cur'[r] = cur[r] /\ phase'[r] = phase[r] /\ rest'[r] = rest[r] /\ mem'[r] = mem[r]
    /\ dirty'[r] = dirty[r] /\ bins'[r] = bins[r] /\ outcome'[r] = outcome[r]
    /\ pc'[r] = pc[r] /\ job'[r] = job[r] /\ at'[r] = at[r]

Domains ==
    /\ DOMAIN cur = Proc /\ DOMAIN dirty = Proc /\ DOMAIN outcome = Proc
    /\ DOMAIN mem = Proc /\ DOMAIN bins = Proc /\ DOMAIN lock = Cwd
    /\ DOMAIN rest = Proc /\ DOMAIN phase = Proc /\ DOMAIN at = Proc
    /\ DOMAIN pc = Proc /\ DOMAIN job = Proc

\* What is accounted for stays so while the process rests and its lock is the same.
LEMMA AccountRests ==
    ASSUME NEW r \in Proc, Accounted(r), Unmoved(r),
           Kind(r) \in {"setup", "auto"} => lock'[cur[r].cwd] = lock[cur[r].cwd]
    PROVE  Accounted(r)'
<1>1. Listed(r)' = Listed(r) /\ Left(r)' = Left(r)
  BY DEF Unmoved, Listed, Left, InList
<1>2. Underway(r)'
  BY <1>1 DEF Unmoved, Accounted, Underway
<1>3. Kind(r) = "setup" => SetupAccount(r)'
  BY <1>1 DEF Unmoved, Accounted, SetupAccount, MyLock
<1>4. Kind(r) = "auto" => AutoAccount(r)'
  BY <1>1 DEF Unmoved, Accounted, AutoAccount
<1> QED BY <1>2, <1>3, <1>4 DEF Unmoved, Accounted, Kind

\* Only its own process rewrites the lock of a command.
LEMMA LockOwn ==
    ASSUME OwnLock, NEW q \in Proc, NEW r \in Proc, q # r, Underway(q), Underway(r),
           phase[q] # "out", Kind(r) \in {"setup", "auto"}
    PROVE  cur[q].cwd # cur[r].cwd
BY DEF OwnLock, Underway, Kind, NoCommand

\* A package list without its head.
LEMMA LeftWithoutHead ==
    ASSUME NEW list \in Seq(Package), list # <<>>, NEW p, p # Head(list), InList(list, p)
    PROVE  InList(Tail(list), p)
<1>1. PICK i \in DOMAIN list : list[i] = p
  BY DEF InList
<1>2. i # 1 /\ i - 1 \in DOMAIN Tail(list) /\ Tail(list)[i - 1] = p
  BY <1>1
<1> QED BY <1>2 DEF InList

LEMMA LeftOfTail ==
    ASSUME NEW list \in Seq(Package), list # <<>>, NEW p, InList(Tail(list), p)
    PROVE  InList(list, p)
BY ListHeadTail DEF InList

\* A step of execute keeps the package in hand and what is said of it.
LEMMA ExecuteKeeps ==
    ASSUME TypeOK, NEW q \in Proc, Execute(q)
    PROVE  job' = job /\ pc[q] # "idle" /\ pc'[q] # "unavailable"
BY DEF TypeOK, Execute, Progress, Fetch, Build, CommandFails, Downloaded, DownloadedOther,
       ReadPresent, Download, Received, DownloadFails, Verify, Unpack, Unpacked, Populate,
       PopulateFails, Unlink, Wipe, Clone, Cloned, CloneFails, Configure, ConfigureFails,
       Install, Installed, Mark, Marked, Fail, At, Goto, Results
\* Going on to the next package, once the one at the head is accounted for.
LEMMA AccountNext ==
    ASSUME ListInv, Domains, NEW q \in Proc, Accounted(q), phase[q] = "list", rest[q] # <<>>,
           NextPackage(q), cur' = cur, phase' = phase, outcome' = outcome, ~Busy(q)',
           Kind(q) = "setup" => \A p \in Listed(q) :
              p = Head(rest[q]) \/ (dirty[q] /\ p \in mem[q]) => dirty'[q] /\ p \in mem'[q],
           Kind(q) = "auto" => \A p \in Listed(q) :
              Findable(p) /\ (p = Head(rest[q]) \/ p \in bins[q]) => p \in bins'[q]
    PROVE  Accounted(q)'
<1>1. rest[q] \in Seq(Package) /\ rest'[q] = Tail(rest[q])
  BY DEF ListInv, NextPackage
<1>2. Listed(q)' = Listed(q) /\ Left(q)' \subseteq Left(q)
  BY <1>1, LeftOfTail DEF Listed, Left
<1>3. \A p \in Listed(q) \ Left(q)' : p = Head(rest[q]) \/ p \notin Left(q)
  BY <1>1, LeftWithoutHead DEF Left, Listed
<1>4. Underway(q)'
  BY <1>2 DEF Accounted, Underway, Busy
<1>5. Kind(q) = "setup" => SetupAccount(q)'
  BY <1>2, <1>3 DEF Accounted, SetupAccount
<1>6. Kind(q) = "auto" => AutoAccount(q)'
  BY <1>2, <1>3 DEF Accounted, AutoAccount
<1> QED BY <1>4, <1>5, <1>6 DEF Accounted, Kind

\* The command ends; if it ends Ok, what it was asked for has been accounted for.
LEMMA AccountEnds ==
    ASSUME Domains, NEW q \in Proc, Accounted(q), NEW result, Ends(q, result),
           cur' = cur, bins' = bins, ~Busy(q)',
           result = "ok" /\ Kind(q) = "setup" => Listed(q) \subseteq MyLock(q)',
           result = "ok" /\ Kind(q) = "auto" =>
              \A p \in Listed(q) : Findable(p) => p \in bins[q]
    PROVE  Accounted(q)'
<1>1. phase'[q] = "out" /\ rest'[q] = <<>> /\ outcome'[q] = result
  BY DEF Ends, Domains
<1>2. Listed(q)' = Listed(q) /\ Left(q)' = {}
  BY <1>1 DEF Listed, Left, InList
<1>3. Underway(q)'
  BY <1>1, <1>2 DEF Accounted, Underway, Busy
<1>4. Kind(q) = "setup" => SetupAccount(q)'
  BY <1>1, <1>2 DEF SetupAccount
<1>5. Kind(q) = "auto" => AutoAccount(q)'
  BY <1>1, <1>2 DEF AutoAccount
<1> QED BY <1>1, <1>3, <1>4, <1>5 DEF Accounted, Kind

\* The package at hand is worked on.
LEMMA AccountWorks ==
    ASSUME NEW q \in Proc, Accounted(q), UNCHANGED cmdVars,
           pc'[q] # "idle" => job'[q] = Head(rest[q]),
           pc'[q] = "unavailable" => Recipe[job'[q]] = "none",
           at'[q] # "idle" => Head(rest[q]) \in Source
    PROVE  Accounted(q)'
<1>1. Listed(q)' = Listed(q) /\ Left(q)' = Left(q)
  BY DEF Listed, Left, InList, cmdVars
<1>2. Underway(q)'
  BY <1>1 DEF Accounted, Underway, cmdVars
<1>3. Kind(q) = "setup" => SetupAccount(q)'
  BY <1>1 DEF Accounted, SetupAccount, MyLock, cmdVars
<1>4. Kind(q) = "auto" => AutoAccount(q)'
  BY <1>1 DEF Accounted, AutoAccount, cmdVars
<1> QED BY <1>2, <1>3, <1>4 DEF Accounted, Kind, cmdVars

\* The lock is about to be saved, with all of the list behind.
LEMMA AccountSaves ==
    ASSUME Domains, NEW q \in Proc, Accounted(q), NEW to \in {"truncate", "write"},
           phase' = [phase EXCEPT ![q] = to], UNCHANGED <<cur, rest, dirty, bins, outcome>>,
           phase[q] # "out", ~Busy(q)',
           Kind(q) = "setup" => Listed(q) \subseteq mem'[q],
           Kind(q) = "auto" => \A p \in Listed(q) : Findable(p) => p \in bins[q]
    PROVE  Accounted(q)'
<1>1. phase'[q] = to /\ outcome'[q] = "none"
  BY DEF Domains, Accounted
<1>2. Listed(q)' = Listed(q) /\ Left(q)' = Left(q)
  BY DEF Listed, Left, InList
<1>3. Underway(q)'
  BY <1>2 DEF Accounted, Underway, Busy
<1>4. Kind(q) = "setup" => SetupAccount(q)'
  BY <1>1, <1>2 DEF SetupAccount
<1>5. Kind(q) = "auto" => AutoAccount(q)'
  BY <1>1, <1>2 DEF AutoAccount
<1> QED BY <1>1, <1>3, <1>4, <1>5 DEF Accounted, Kind

\* Recording a tool of the list takes no other tool of the list from the lock.
LEMMA RecordKeepsListed ==
    ASSUME OneVersion, NEW q \in Proc, Underway(q), NEW entries, NEW p \in Listed(q)
    PROVE  p \in Record(entries, p)
           /\ \A e \in Listed(q) : e \in entries => e \in Record(entries, p)
<1>1. ASSUME NEW e \in Listed(q), ToolOf[e] = ToolOf[p] PROVE e = p
  BY <1>1 DEF OneVersion, Underway, Listed, InList, NoCommand
<1> QED BY <1>1 DEF Record

\* The package at hand is one of the command's.
LEMMA HeadListed ==
    ASSUME ListInv, NEW q \in Proc, Underway(q), rest[q] # <<>>, Head(rest[q]) \in Prefix
    PROVE  Head(rest[q]) \in Listed(q)
<1>1. InList(rest[q], Head(rest[q]))
  BY ListHeadTail DEF ListInv, InList
<1> QED BY <1>1 DEF Underway, Left
\* A process works on its own variables.
LEMMA OthersRest ==
    ASSUME TypeOK, Domains, NEW q \in Proc, NEW r \in Proc, q # r,
           Step(q) \/ Kill(q) \/ \E c \in Command[q] : Start(q, c)
    PROVE  Unmoved(r)
<1> USE DEF storeVars, provVars, cmdVars, Domains, Unmoved
<1>1. ASSUME NEW c \in Command[q], Start(q, c) PROVE Unmoved(r)
  BY <1>1 DEF Start
<1>2. ASSUME NEW result, Ends(q, result)
      PROVE  /\ phase'[r] = phase[r] /\ rest'[r] = rest[r] /\ mem'[r] = mem[r]
             /\ dirty'[r] = dirty[r] /\ outcome'[r] = outcome[r]
  BY <1>2 DEF Ends
<1>3. ASSUME Return(q) \/ SkipPresent(q) \/ Crash(q)
      PROVE  pc'[r] = pc[r] /\ job'[r] = job[r]
  BY <1>3 DEF Return, SkipPresent, Crash, Goto
<1>4. CASE TakeTool(q)
  BY <1>4 DEF TakeTool, Plan, Goto
<1>5. CASE PassOver(q)
  BY <1>3, <1>5 DEF PassOver, BinAdded, NextPackage
<1>6. CASE RunStore(q)
  BY <1>6, ExecuteOwn, ExecuteKeeps DEF RunStore
<1>7. CASE ToolInstalled(q)
  BY <1>3, <1>7 DEF ToolInstalled, BinAdded, NextPackage
<1>8. CASE SingleToolInstalled(q)
  BY <1>2, <1>3, <1>8 DEF SingleToolInstalled
<1>9. CASE ToolFailed(q) \/ ToolUnavailable(q)
  BY <1>2, <1>3, <1>9 DEF ToolFailed, ToolUnavailable, NextPackage
<1>10. CASE TakeSource(q)
  BY <1>10 DEF TakeSource, Prov!Begin, Prov!BeginClone, Prov!Go
<1>11. CASE RunGit(q)
  BY <1>11, GitOwn DEF RunGit
<1>12. CASE SourceDone(q) \/ SourceFailed(q)
  BY <1>2, <1>12 DEF SourceDone, SourceFailed, Prov!Take, Prov!Go, NextPackage
<1>13. CASE PassGated(q)
  BY <1>13 DEF PassGated, NextPackage
<1>14. CASE Finish(q)
  BY <1>2, <1>14 DEF Finish
<1>15. CASE Truncate(q) \/ Write(q)
  BY <1>2, <1>15 DEF Truncate, Write
<1>16. CASE Kill(q)
  BY <1>2, <1>3, <1>16 DEF Kill, Prov!Killed, Prov!Go
<1> QED
  BY <1>1, <1>4, <1>5, <1>6, <1>7, <1>8, <1>9, <1>10, <1>11, <1>12, <1>13, <1>14, <1>15,
     <1>16 DEF Step

\* No step takes a lock from a command that has ended, but one of its own process.
LEMMA LocksRest ==
    ASSUME OwnLock, RecordInv, Domains, NEW q \in Proc, NEW r \in Proc, q # r,
           Accounted(q), Accounted(r), Kind(r) \in {"setup", "auto"},
           Step(q) \/ Kill(q) \/ \E c \in Command[q] : Start(q, c)
    PROVE  lock'[cur[r].cwd] = lock[cur[r].cwd]
<1>1. CASE Truncate(q) \/ Write(q)
  <2>1. cur[q].cwd # cur[r].cwd
    BY <1>1, LockOwn DEF Truncate, Write, Accounted
  <2>2. lock' = [lock EXCEPT ![cur[q].cwd] = lock'[cur[q].cwd]] /\ cur[r].cwd \in Cwd
    BY <1>1 DEF Truncate, Write, Domains, RecordInv
  <2> QED BY <2>1, <2>2 DEF Domains
<1>2. CASE ~(Truncate(q) \/ Write(q))
  BY <1>2 DEF Step, Start, Kill, TakeTool, PassOver, RunStore, ToolInstalled,
     SingleToolInstalled, ToolFailed, ToolUnavailable, TakeSource, RunGit, SourceDone,
     SourceFailed, PassGated, Finish, cmdVars
<1> QED BY <1>1, <1>2

\* The process that takes the step keeps its account.
LEMMA AccountOwn ==
    ASSUME OneVersion, IInv, ListInv, RecordInv, Domains, NEW q \in Proc, Accounted(q),
           Step(q) \/ Kill(q) \/ \E c \in Command[q] : Start(q, c)
    PROVE  Accounted(q)'
<1>0. TypeOK /\ (Busy(q) => rest[q] # <<>> /\ phase[q] = "list" /\ OneAtATime(q))
  BY DEF ListInv, IInv
<1> USE DEF storeVars, provVars, cmdVars
<1>1. ASSUME NEW c \in Command[q], Start(q, c) PROVE Accounted(q)'
  <2>1. /\ cur'[q] = c /\ phase'[q] = "list" /\ rest'[q] = c.list /\ outcome'[q] = "none"
        /\ ~Busy(q)'
    BY <1>0, <1>1 DEF Start, Domains, ListInv, Busy
  <2>2. Left(q)' = Listed(q)'
    BY <2>1 DEF Left, Listed
  <2>3. Underway(q)'
    BY <2>1, <2>2 DEF Underway, Busy
  <2>4. SetupAccount(q)' /\ AutoAccount(q)'
    BY <2>1, <2>2 DEF SetupAccount, AutoAccount
  <2> QED BY <2>1, <2>3, <2>4 DEF Accounted
<1>2. CASE TakeTool(q)
  <2>1. /\ UNCHANGED cmdVars /\ at' = at /\ at[q] = "idle"
        /\ Plan(q, Head(rest[q])) /\ job'[q] = Head(rest[q])
    BY <1>2 DEF TakeTool, AtPackage, Plan, Domains
  <2>2. Head(rest[q]) \in Prefix
    BY <1>2 DEF TakeTool, AtPackage
  <2>3. pc'[q] = "unavailable" => Recipe[Head(rest[q])] = "none"
    BY <2>1, <2>2, StoreConstants DEF Plan, Goto, Domains
  <2> QED BY <2>1, <2>3, AccountWorks
\* What a result of execute finds: the tool at the head of the list.
<1>3. ASSUME pc[q] # "idle"
      PROVE  /\ phase[q] = "list" /\ rest[q] # <<>> /\ at[q] = "idle"
             /\ job[q] = Head(rest[q]) /\ job[q] \in Listed(q)
  <2>1. job[q] = Head(rest[q]) /\ job[q] \in Prefix /\ Underway(q)
    BY <1>0, <1>3 DEF Accounted, Underway, TypeOK
  <2> QED BY <1>0, <1>3, <2>1, HeadListed DEF Busy, OneAtATime
<1>4. ASSUME Return(q) \/ SkipPresent(q), at' = at
      PROVE  pc[q] # "idle" /\ ~Busy(q)'
  <2>1. pc[q] # "idle" /\ pc'[q] = "idle"
    BY <1>4 DEF Return, SkipPresent, At, Goto, Results, Domains
  <2> QED BY <1>3, <1>4, <2>1 DEF Busy
<1>5. CASE PassOver(q)
  <2>1. /\ pc[q] # "idle" /\ ~Busy(q)' /\ NextPackage(q)
        /\ UNCHANGED <<cur, phase, outcome>> /\ Kind(q) \in {"auto", "tool"}
    BY <1>4, <1>5 DEF PassOver
  <2>2. Present(job[q]) /\ BinAdded(q)
    BY <1>5 DEF PassOver, SkipPresent, At, IInv, StepInv, StepFacts
  <2>3. Kind(q) = "auto" /\ job[q] \in HasBin => bins'[q] = bins[q] \cup {job[q]}
    BY <2>1, <2>2, BinFound DEF Domains
  <2>4. bins[q] \subseteq bins'[q]
    BY <2>1, <2>2, BinFound DEF Domains
  <2> QED BY <1>3, <2>1, <2>3, <2>4, AccountNext DEF Findable
<1>6. CASE RunStore(q)
  <2>1. /\ UNCHANGED cmdVars /\ job' = job /\ at' = at
        /\ pc[q] # "idle" /\ pc'[q] # "unavailable"
    BY <1>0, <1>6, ExecuteKeeps DEF RunStore
  <2> QED BY <1>3, <2>1, AccountWorks
<1>7. CASE ToolInstalled(q)
  <2>1. /\ pc[q] # "idle" /\ ~Busy(q)' /\ NextPackage(q)
        /\ UNCHANGED <<cur, phase, outcome>>
    BY <1>4, <1>7 DEF ToolInstalled
  <2>2. dirty'[q] = TRUE /\ mem'[q] = Record(mem[q], job[q])
    BY <1>7 DEF ToolInstalled, Domains
  <2>3. Present(job[q]) /\ BinAdded(q)
    BY <1>7 DEF ToolInstalled, IInv, StepInv, StepFacts
  <2>5. Kind(q) = "auto" /\ job[q] \in HasBin => bins'[q] = bins[q] \cup {job[q]}
    BY <2>1, <2>3, BinFound DEF Domains
  <2>6. bins[q] \subseteq bins'[q]
    BY <2>1, <2>3, BinFound DEF Domains
  <2>4. \A p \in Listed(q) : p = job[q] \/ p \in mem[q] => p \in mem'[q]
    BY <1>3, <2>1, <2>2, RecordKeepsListed DEF Accounted
  <2> QED BY <1>3, <2>1, <2>2, <2>4, <2>5, <2>6, AccountNext DEF Findable
<1>8. CASE SingleToolInstalled(q)
  <2>1. /\ pc[q] # "idle" /\ ~Busy(q)' /\ Kind(q) = "tool"
        /\ cur' = cur /\ bins' = bins
    BY <1>4, <1>8 DEF SingleToolInstalled
  <2>2. CASE Ends(q, "ok")
    BY <2>1, <2>2, AccountEnds
  <2>3. CASE phase' = [phase EXCEPT ![q] = "truncate"] /\ UNCHANGED <<rest, dirty, outcome>>
    BY <1>3, <2>1, <2>3, AccountSaves
  <2> QED BY <1>8, <2>2, <2>3 DEF SingleToolInstalled
<1>9. CASE ToolFailed(q) \/ ToolUnavailable(q)
  <2>1. /\ pc[q] # "idle" /\ ~Busy(q)' /\ cur' = cur /\ bins' = bins
    BY <1>4, <1>9 DEF ToolFailed, ToolUnavailable
  <2>2. CASE Ends(q, "err")
    BY <2>1, <2>2, AccountEnds
  <2>3. CASE /\ pc[q] = "unavailable" /\ Kind(q) = "auto" /\ NextPackage(q)
             /\ UNCHANGED <<phase, mem, dirty, outcome>>
    <3>1. Recipe[Head(rest[q])] = "none"
      BY <1>3, <2>1, <2>3 DEF Accounted, Underway
    <3> QED BY <1>3, <2>1, <2>3, <3>1, AccountNext DEF Findable
  <2> QED BY <1>9, <2>2, <2>3 DEF ToolFailed, ToolUnavailable
<1>10. CASE TakeSource(q)
  <2>1. UNCHANGED cmdVars /\ pc' = pc /\ pc[q] = "idle" /\ Head(rest[q]) \in Source
    BY <1>10 DEF TakeSource, AtPackage
  <2> QED BY <2>1, AccountWorks
<1>11. CASE RunGit(q)
  <2>1. UNCHANGED cmdVars /\ pc' = pc /\ job' = job /\ at[q] # "idle"
    BY <1>11, GitOwn DEF RunGit, Domains
  <2>2. pc[q] = "idle" /\ Head(rest[q]) \in Source
    BY <1>0, <2>1 DEF Busy, OneAtATime, Accounted, Underway
  <2> QED BY <2>1, <2>2, AccountWorks
<1>12. CASE SourceDone(q) \/ SourceFailed(q)
  <2>1. at[q] # "idle" /\ at'[q] = "idle" /\ pc' = pc /\ cur' = cur /\ bins' = bins
    BY <1>12 DEF SourceDone, SourceFailed, Prov!Take, Prov!Go, Prov!Dispositions,
                 Prov!Provisioned, Prov!AlreadyPresent, Prov!NoFetch, Domains
  <2>2. ~Busy(q)' /\ rest[q] # <<>> /\ phase[q] = "list"
    BY <1>0, <2>1 DEF Busy, OneAtATime
  <2>3. Head(rest[q]) \notin Prefix
    BY <2>1, SetupConstants DEF Accounted, Underway
  <2>4. CASE /\ NextPackage(q) /\ phase' = phase /\ outcome' = outcome /\ mem' = mem
             /\ dirty[q] => dirty'[q]
    BY <2>1, <2>2, <2>3, <2>4, AccountNext DEF Listed
  <2>5. CASE Ends(q, "err")
    BY <2>1, <2>2, <2>5, AccountEnds
  <2>6. SourceDone(q) => dirty'[q] = (dirty[q] \/ at[q] = Prov!Provisioned)
    BY DEF SourceDone, Domains
  <2> QED BY <1>12, <2>4, <2>5, <2>6 DEF SourceDone, SourceFailed
<1>13. CASE PassGated(q)
  <2>1. /\ NextPackage(q) /\ ~Busy(q)' /\ phase[q] = "list" /\ rest[q] # <<>>
        /\ UNCHANGED <<cur, phase, outcome, mem, dirty, bins>>
        /\ Head(rest[q]) \notin Prefix
    BY <1>13, SetupConstants DEF PassGated, AtPackage, Busy
  <2> QED BY <2>1, AccountNext DEF Listed
<1>14. CASE Finish(q)
  <2>1. /\ phase[q] = "list" /\ rest[q] = <<>> /\ ~Busy(q)'
        /\ UNCHANGED <<cur, lock, bins>>
    BY <1>14 DEF Finish, Busy
  <2>2. Left(q) = {}
    BY <2>1 DEF Left, InList
  <2>3. Kind(q) = "setup" => \A p \in Listed(q) : dirty[q] /\ p \in mem[q]
    BY <2>1, <2>2 DEF Accounted, SetupAccount
  <2>4. Kind(q) = "auto" => \A p \in Listed(q) : Findable(p) => p \in bins[q]
    BY <2>1, <2>2 DEF Accounted, AutoAccount
  <2>5. CASE phase' = [phase EXCEPT ![q] = "truncate"] /\ UNCHANGED <<rest, mem, dirty, outcome>>
    BY <2>1, <2>3, <2>4, <2>5, AccountSaves
  <2>6. CASE ~(dirty[q] /\ Kind(q) \in {"setup", "auto"}) /\ Ends(q, "ok")
    BY <2>1, <2>3, <2>4, <2>6, AccountEnds
  <2> QED BY <1>14, <2>5, <2>6 DEF Finish
<1>15. CASE Truncate(q)
  <2>1. /\ phase[q] = "truncate" /\ phase' = [phase EXCEPT ![q] = "write"]
        /\ UNCHANGED <<cur, rest, mem, dirty, bins, outcome, pc, at>>
    BY <1>15 DEF Truncate
  <2>2. ~Busy(q)'
    BY <1>0, <2>1 DEF Busy
  <2> QED BY <2>1, <2>2, AccountSaves DEF Accounted, SetupAccount, AutoAccount
<1>16. CASE Write(q)
  <2>1. /\ phase[q] = "write" /\ Ends(q, "ok") /\ UNCHANGED <<cur, bins, pc, at>>
        /\ lock' = [lock EXCEPT ![cur[q].cwd] = mem[q]]
    BY <1>16 DEF Write
  <2>2. MyLock(q)' = mem[q]
    BY <2>1 DEF MyLock, RecordInv
  <2>3. ~Busy(q)'
    BY <1>0, <2>1 DEF Busy
  <2> QED BY <2>1, <2>2, <2>3, AccountEnds DEF Accounted, SetupAccount, AutoAccount
<1>17. CASE Kill(q)
  <2>1. Ends(q, "killed") /\ cur' = cur /\ bins' = bins
    BY <1>17 DEF Kill
  <2>2. ~Busy(q)'
    BY <1>0, <1>17 DEF Kill, Busy, OneAtATime, Crash, Steps, Goto, Prov!Killed, Prov!Go,
                       Prov!GitSteps, Domains
  <2> QED BY <2>1, <2>2, AccountEnds
<1> QED
  BY <1>1, <1>2, <1>5, <1>6, <1>7, <1>8, <1>9, <1>10, <1>11, <1>12, <1>13, <1>14, <1>15,
     <1>16, <1>17 DEF Step

\* So every step keeps all accounts.
LEMMA AccountStep ==
    ASSUME OwnLock, OneVersion, IInv, ListInv, RecordInv, AccountInv, [SetupNext]_setupVars
    PROVE  AccountInv'
<1>1. Domains /\ TypeOK
  BY DEF IInv, TypeOK, ListInv, AccountInv, Domains
<1>2. ASSUME NEW q \in Proc, Step(q) \/ Kill(q) \/ \E c \in Command[q] : Start(q, c)
      PROVE  \A r \in Proc : Accounted(r)'
  <2>1. Accounted(q)'
    BY <1>1, <1>2, AccountOwn DEF AccountInv
  <2>2. ASSUME NEW r \in Proc, r # q PROVE Accounted(r)'
    BY <1>1, <1>2, <2>2, OthersRest, LocksRest, AccountRests DEF AccountInv
  <2> QED BY <2>1, <2>2
<1>3. ASSUME UNCHANGED setupVars PROVE \A r \in Proc : Accounted(r)'
  BY <1>3, AccountRests DEF AccountInv, setupVars, Unmoved
<1>4. \A r \in Proc : Accounted(r)'
  BY <1>2, <1>3 DEF SetupNext
<1>5. DOMAIN cur' = Proc /\ DOMAIN mem' = Proc /\ DOMAIN bins' = Proc /\ DOMAIN lock' = Cwd
      /\ DOMAIN dirty' = Proc /\ DOMAIN outcome' = Proc
  BY <1>1 DEF Domains, SetupNext, setupVars, Step, Start, Kill, TakeTool, PassOver, RunStore,
     ToolInstalled, SingleToolInstalled, ToolFailed, ToolUnavailable, TakeSource, RunGit,
     SourceDone, SourceFailed, PassGated, Finish, Truncate, Write, Ends, BinAdded, cmdVars
<1> QED BY <1>4, <1>5 DEF AccountInv

\* OkIsUsable: a setup of a board that succeeded has all its tools in the lock,
\* whatever failed before it, and the PATH of a lazy setup names whole tools and all.
THEOREM OkSetupIsUsable ==
    ASSUME Apart, OwnLock, OneVersion PROVE SetupSpec => []OkIsUsable
<1>1. SetupInit => AccountInv
  <2> SUFFICES ASSUME SetupInit PROVE AccountInv
    OBVIOUS
  <2>1. \A q \in Proc : Accounted(q)
    BY DEF SetupInit, Init, Prov!SpInit, Accounted, Underway, SetupAccount, AutoAccount,
           Listed, Left, InList, NoCommand, Kind
  <2> QED BY <2>1 DEF SetupInit, AccountInv
<1>2. SetupInv /\ AccountInv /\ [SetupNext]_setupVars => AccountInv'
  BY AccountStep DEF SetupInv
<1>3. SetupInv /\ AccountInv => OkIsUsable
  <2> SUFFICES ASSUME SetupInv, AccountInv, NEW q \in Proc
               PROVE  /\ outcome[q] = "ok" /\ Kind(q) = "setup" => ToolsOf(q) \subseteq MyLock(q)
                      /\ \A p \in bins[q] : Present(p) /\ tree[p] = p
                      /\ outcome[q] = "ok" /\ Kind(q) = "auto" =>
                            {p \in ToolsOf(q) \cap HasBin : Recipe[p] # "none"} \subseteq bins[q]
    BY DEF OkIsUsable
  <2>1. ToolsOf(q) \subseteq Listed(q)
    BY DEF ToolsOf, Listed, InList
  <2>2. Accounted(q)
    BY DEF AccountInv
  <2>3. \A p \in bins[q] : Present(p) /\ tree[p] = p
    BY SetupConstants DEF SetupInv, IInv, RecordInv, Stored, MarkerHonest, Whole
  <2> QED BY <2>1, <2>2, <2>3 DEF Accounted, SetupAccount, AutoAccount, Findable
<1> QED BY <1>1, <1>2, <1>3, SetupInvariant, PTL DEF SetupSpec
=============================================================================
