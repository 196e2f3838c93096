--------------------------- MODULE PlanningProofs ---------------------------
(***************************************************************************)
(* Theorems about `nros metadata` and `nros plan`, for any components,     *)
(* versions, launch files, edits and kills.                                *)
(*                                                                         *)
(* The inductive invariant says what the files hold (PlTypes) and that a   *)
(* whole plan was made, all of it at once, of artifacts that some file or  *)
(* some Cargo.toml table said (PlanMade).  Everything else is about the    *)
(* pure planner on such artifacts: where a composable node goes; what      *)
(* schema_instance makes of the nodes, entities and callbacks it is given  *)
(* (Made), and that an id it gives twice was given twice (Repeated...);    *)
(* that the component table and the interface table have one row for each  *)
(* name, found by the first place where the name is used (ComponentsSound, *)
(* TableIsSound); and that instances of one executable are told apart by   *)
(* how many come before.                                                   *)
(***************************************************************************)
EXTENDS Planning, FiniteSetTheorems, WellFoundedInduction, TLAPS

-----------------------------------------------------------------------------
(* Numbers and lists. *)

Below == {pair \in Nat \X Nat : pair[1] < pair[2]}

LEMMA BelowWellFounded == IsWellFoundedOn(Below, Nat)
BY NatLessThanWellFounded DEF Below, OpToRel

\* Every set of numbers that is not empty has a least one.
LEMMA LeastNumber ==
    ASSUME NEW T \in SUBSET Nat, T # {}
    PROVE  \E n \in T : \A m \in T : n <= m
<1>1. PICK n \in T : \A m \in T : ~(<<m, n>> \in Below)
  BY BelowWellFounded, WFMin
<1>2. ASSUME NEW m \in T PROVE n <= m
  <2>1. m \in Nat /\ n \in Nat
    OBVIOUS
  <2>2. m < n => <<m, n>> \in Below
    BY <2>1 DEF Below
  <2> QED
    BY <1>1, <2>1, <2>2
<1> QED
  BY <1>2

LEMMA LeastMember ==
    ASSUME NEW T \in SUBSET Nat, T # {}
    PROVE  Min(T) \in T /\ \A m \in T : Min(T) <= m
<1>1. \E n \in T : \A m \in T : n <= m
  BY LeastNumber
<1>2. Min(T) = CHOOSE n \in T : \A m \in T : n <= m
  BY DEF Min
<1> QED
  BY <1>1, <1>2

LEMMA GreatestMember ==
    ASSUME NEW n \in Nat, NEW T \in SUBSET (1..n), T # {}
    PROVE  Max(T) \in T /\ \A m \in T : m <= Max(T)
<1> DEFINE bounds == {b \in Nat : \A m \in T : m <= b}
<1>1. n \in bounds /\ bounds \in SUBSET Nat
  OBVIOUS
<1>2. PICK b \in bounds : \A c \in bounds : b <= c
  BY <1>1, LeastNumber
<1>3. b \in Nat /\ \A m \in T : m \in Nat /\ m <= b /\ m >= 1
  BY <1>2
<1>4. b \in T
  <2> SUFFICES ASSUME b \notin T PROVE FALSE
    OBVIOUS
  <2>1. ASSUME NEW m \in T PROVE m <= b - 1
    <3>1. m # b
      OBVIOUS
    <3> QED
      BY <1>3, <3>1
  <2>2. b # 0
    <3>1. PICK m \in T : TRUE
      OBVIOUS
    <3> QED
      BY <1>3, <3>1
  <2>3. b - 1 \in bounds
    BY <2>1, <2>2, <1>3
  <2> QED
    BY <1>2, <1>3, <2>3
<1>5. \E k \in T : \A m \in T : m <= k
  BY <1>3, <1>4
<1>6. Max(T) = CHOOSE k \in T : \A m \in T : k >= m
  BY DEF Max
<1>7. \E k \in T : \A m \in T : k >= m
  BY <1>3, <1>4
<1>8. Max(T) \in T /\ \A m \in T : Max(T) >= m
  BY <1>6, <1>7
<1> QED
  BY <1>3, <1>8

\* g holds what is left of the first m members of the list.
Filters(g, list, S, m) ==
    g = [k \in 0..m |->
            IF k = 0 THEN <<>>
            ELSE IF list[k] \in S THEN Append(g[k - 1], list[k]) ELSE g[k - 1]]

LEMMA OnlyByParts ==
    ASSUME NEW list, NEW S
    PROVE  Only(list, S) = (CHOOSE g : Filters(g, list, S, Len(list)))[Len(list)]
BY DEF Only, Filters

LEMMA FilterExists ==
    ASSUME NEW list, NEW S, NEW n \in Nat
    PROVE  \E g : Filters(g, list, S, n)
<1> DEFINE Bad == {m \in Nat : ~\E g : Filters(g, list, S, m)}
<1> SUFFICES ASSUME Bad # {} PROVE FALSE
  OBVIOUS
<1>1. PICK m \in Bad : \A k \in Bad : m <= k
  BY LeastNumber
<1>2. CASE m = 0
  <2>1. Filters([k \in 0..0 |-> <<>>], list, S, 0)
    BY DEF Filters
  <2> QED
    BY <1>2, <2>1
<1>3. CASE m # 0
  <2>1. m \in Nat /\ m - 1 \in Nat /\ m - 1 \notin Bad
    BY <1>1, <1>3
  <2>2. PICK f : Filters(f, list, S, m - 1)
    BY <2>1
  <2> DEFINE g == [k \in 0..m |->
            IF k = 0 THEN <<>>
            ELSE IF list[k] \in S THEN Append(f[k - 1], list[k]) ELSE f[k - 1]]
  <2>3. ASSUME NEW k \in 0..(m - 1) PROVE f[k] = g[k]
    <3>1. k \in 0..m
      BY <2>1
    <3>2. f[k] = IF k = 0 THEN <<>>
            ELSE IF list[k] \in S THEN Append(f[k - 1], list[k]) ELSE f[k - 1]
      BY <2>2 DEF Filters
    <3> QED
      BY <3>1, <3>2
  <2>4. \A k \in 0..m : k # 0 => k - 1 \in 0..(m - 1)
    BY <2>1
  <2>5. g = [k \in 0..m |->
            IF k = 0 THEN <<>>
            ELSE IF list[k] \in S THEN Append(g[k - 1], list[k]) ELSE g[k - 1]]
    BY <2>3, <2>4
  <2>6. Filters(g, list, S, m)
    BY <2>5 DEF Filters
  <2> QED
    BY <2>6
<1> QED
  BY <1>2, <1>3

\* out is a list of members of S, at growing places of the first m of the list.
Picks(out, list, S, m, at) ==
    /\ out \in Seq(S)
    /\ at \in [1..Len(out) -> 1..m]
    /\ \A k \in 1..Len(out) : out[k] = list[at[k]]
    /\ \A j, k \in 1..Len(out) : at[j] = at[k] => j = k

LEMMA OnlyPicks ==
    ASSUME NEW T, NEW list \in Seq(T), NEW S
    PROVE  \E at : Picks(Only(list, S), list, T \cap S, Len(list), at)
<1>1. PICK n \in Nat : n = Len(list)
  OBVIOUS
<1> DEFINE g == CHOOSE g : Filters(g, list, S, n)
<1>2. Filters(g, list, S, n)
  BY FilterExists
<1>3. Only(list, S) = g[n]
  BY <1>1, OnlyByParts
<1> DEFINE Bad == {m \in 0..n : ~\E at : Picks(g[m], list, T \cap S, m, at)}
<1>4. \A m \in 0..n : g[m] = IF m = 0 THEN <<>>
            ELSE IF list[m] \in S THEN Append(g[m - 1], list[m]) ELSE g[m - 1]
  BY <1>2 DEF Filters
<1> HIDE DEF g
<1> SUFFICES ASSUME ~\E at : Picks(g[n], list, T \cap S, n, at) PROVE FALSE
  BY <1>1, <1>3
<1>13. n \in Bad
  <2>1. n \in 0..n
    OBVIOUS
  <2> QED
    BY <2>1
<1>14. Bad \in SUBSET Nat
  OBVIOUS
<1>5. PICK m \in Bad : \A k \in Bad : m <= k
  BY <1>13, <1>14, LeastNumber
<1>6. m \in 0..n /\ ~\E at : Picks(g[m], list, T \cap S, m, at)
  OBVIOUS
<1>7. CASE m = 0
  <2>1. g[m] = <<>>
    BY <1>4, <1>6, <1>7
  <2>2. Picks(<<>>, list, T \cap S, m, [k \in 1..0 |-> k])
    BY <1>7 DEF Picks
  <2> QED
    BY <1>6, <2>1, <2>2
<1>8. CASE m # 0
  <2>1. m - 1 \in 0..n /\ m - 1 < m /\ m \in 1..n
    BY <1>6, <1>8
  <2>11. m - 1 \notin Bad
    <3> SUFFICES ASSUME m - 1 \in Bad PROVE FALSE
      OBVIOUS
    <3>1. m <= m - 1
      BY <1>5
    <3> QED
      BY <2>1, <1>6, <3>1
  <2>2. PICK at : Picks(g[m - 1], list, T \cap S, m - 1, at)
    BY <2>1, <2>11
  <2>3. list[m] \in T
    BY <1>1, <2>1
  <2>4. CASE list[m] \notin S
    <3>1. g[m] = g[m - 1]
      BY <1>4, <1>6, <1>8, <2>4
    <3>2. Picks(g[m], list, T \cap S, m, at)
      BY <2>1, <2>2, <3>1 DEF Picks
    <3> QED
      BY <1>6, <3>2
  <2>5. CASE list[m] \in S
    <3> DEFINE h == g[m - 1]
               on == [k \in 1..(Len(h) + 1) |-> IF k = Len(h) + 1 THEN m ELSE at[k]]
    <3>1. g[m] = Append(h, list[m])
      BY <1>4, <1>6, <1>8, <2>5
    <3>2. Picks(h, list, T \cap S, m - 1, at)
      BY <2>2
    <3> HIDE DEF h
    <3>3. h \in Seq(T \cap S) /\ Len(h) \in Nat
      BY <3>2 DEF Picks
    <3>4. /\ g[m] \in Seq(T \cap S) /\ Len(g[m]) = Len(h) + 1
          /\ g[m][Len(h) + 1] = list[m]
          /\ \A k \in 1..Len(h) : g[m][k] = h[k]
      BY <2>3, <2>5, <3>1, <3>3
    <3>5. on \in [1..Len(g[m]) -> 1..m]
      <4>1. at \in [1..Len(h) -> 1..(m - 1)]
        BY <3>2 DEF Picks
      <4>2. ASSUME NEW k \in 1..(Len(h) + 1)
            PROVE  (IF k = Len(h) + 1 THEN m ELSE at[k]) \in 1..m
        <5>1. k # Len(h) + 1 => k \in 1..Len(h)
          BY <3>3
        <5> QED
          BY <2>1, <4>1, <5>1
      <4> QED
        BY <3>4, <4>2
    <3>6. \A k \in 1..Len(g[m]) : g[m][k] = list[on[k]]
      BY <3>2, <3>3, <3>4 DEF Picks
    <3>7. \A k \in 1..Len(h) : on[k] = at[k] /\ at[k] \in 1..(m - 1)
      BY <3>2, <3>3 DEF Picks
    <3>8. on[Len(h) + 1] = m
      BY <3>3
    <3>9. ASSUME NEW j \in 1..Len(g[m]), NEW k \in 1..Len(g[m]), on[j] = on[k] PROVE j = k
      <4>1. j \in 1..Len(h) /\ k \in 1..Len(h) => j = k
        BY <3>2, <3>7, <3>9 DEF Picks
      <4>2. j \in 1..Len(h) \/ j = Len(h) + 1
        BY <3>3, <3>4
      <4>3. k \in 1..Len(h) \/ k = Len(h) + 1
        BY <3>3, <3>4
      <4> HIDE DEF on
      <4> QED
        BY <2>1, <3>7, <3>8, <3>9, <4>1, <4>2, <4>3
    <3> HIDE DEF on
    <3>10. Picks(g[m], list, T \cap S, m, on)
      BY <3>4, <3>5, <3>6, <3>9 DEF Picks
    <3> QED
      BY <1>6, <3>10
  <2> QED
    BY <2>4, <2>5
<1> QED
  BY <1>7, <1>8

LEMMA OnlyType ==
    ASSUME NEW T, NEW list \in Seq(T), NEW S
    PROVE  Only(list, S) \in Seq(T \cap S)
BY OnlyPicks DEF Picks

\* A list is a list of whatever its members are.
LEMMA ListOf ==
    ASSUME NEW s, IsList(s), NEW T, \A i \in DOMAIN s : s[i] \in T
    PROVE  s \in Seq(T) /\ Len(s) \in Nat /\ DOMAIN s = 1..Len(s)
<1>1. s \in Seq(ToSet(s))
  BY DEF IsList
<1>2. DOMAIN s = 1..Len(s) /\ Len(s) \in Nat
  BY <1>1
<1>3. s = [i \in 1..Len(s) |-> s[i]]
  BY <1>1
<1> QED
  BY <1>2, <1>3

-----------------------------------------------------------------------------
(* A composable node and its container. *)

LEMMA LaunchedIsList ==
    ASSUME NEW l \in Launch
    PROVE  \E T : Launched(Record[l]) \in Seq(T)
<1> DEFINE T == ToSet(Record[l].container) \cup ToSet(Record[l].node)
                  \cup ToSet(Record[l].load_node)
<1>1. /\ Record[l].container \in Seq(T) /\ Record[l].node \in Seq(T)
      /\ Record[l].load_node \in Seq(T)
  <2>1. /\ Record[l].container \in Seq(ToSet(Record[l].container))
        /\ Record[l].node \in Seq(ToSet(Record[l].node))
        /\ Record[l].load_node \in Seq(ToSet(Record[l].load_node))
    BY PlanningConstants DEF IsList
  <2> QED
    BY <2>1
<1>2. /\ InPackages(Record[l].container) \in Seq(T)
      /\ InPackages(Record[l].node) \in Seq(T)
  <2>1. ASSUME NEW list \in Seq(T) PROVE InPackages(list) \in Seq(T)
    <3> DEFINE S == {entry \in ToSet(list) : HasPackage(entry)}
    <3>1. Only(list, S) \in Seq(T \cap S)
      BY OnlyType
    <3>2. InPackages(list) = Only(list, S)
      BY DEF InPackages
    <3> HIDE DEF S
    <3> QED
      BY <3>1, <3>2
  <2> QED
    BY <1>1, <2>1
<1>3. Launched(Record[l]) \in Seq(T)
  BY <1>1, <1>2 DEF Launched
<1> QED
  BY <1>3

\* A container that has the full name a node asks for has it before every other one.
LEMMA NamedContainerTakes ==
    ASSUME NEW T, NEW launched \in Seq(T), NEW i \in DOMAIN launched,
           launched[i].kind = "load_node", launched[i].target # None,
           NEW j \in DOMAIN launched, launched[j].kind = "container",
           launched[i].target = Named("absolute", LaunchName(launched[j]))
    PROVE  \E m \in DOMAIN launched :
              /\ launched[m].kind = "container"
              /\ launched[i].target = Named("absolute", LaunchName(launched[m]))
              /\ ContainerOf(launched, i) = InstanceId(launched, m)
<1> DEFINE target == launched[i].target
           spellings == TargetSpellings(target)
           hits == {k \in DOMAIN spellings : ContainersAt(launched, spellings[k]) # {}}
           found == ContainersAt(launched, target)
<1>1. /\ found \in SUBSET (1..Len(launched)) /\ Len(launched) \in Nat
      /\ j \in found
  BY DEF ContainersAt, ContainerKeys
<1>2. /\ DOMAIN spellings = 1..3 /\ spellings[1] = target
  BY DEF TargetSpellings
<1> HIDE DEF spellings
<1>3. 1 \in hits /\ hits \in SUBSET Nat
  <2>1. 1 \in DOMAIN spellings
    BY <1>2
  <2>2. ContainersAt(launched, spellings[1]) # {}
    BY <1>1, <1>2
  <2>3. hits \in SUBSET (1..3)
    BY <1>2
  <2> QED
    BY <2>1, <2>2, <2>3
<1>4. Min(hits) = 1
  <2>1. Min(hits) \in hits /\ Min(hits) <= 1
    BY <1>3, LeastMember
  <2>2. hits \in SUBSET (1..3)
    BY <1>2
  <2>3. Min(hits) \in 1..3
    BY <2>1, <2>2
  <2> QED
    BY <2>1, <2>3
<1>5. Max(found) \in found
  <2>1. found # {}
    BY <1>1
  <2> HIDE DEF found
  <2> QED
    BY <1>1, <2>1, GreatestMember
<1>6. ContainerOf(launched, i) = InstanceId(launched, Max(found))
  <2>1. ContainerOf(launched, i) =
          IF hits = {} THEN None
          ELSE InstanceId(launched, Max(ContainersAt(launched, spellings[Min(hits)])))
    BY DEF ContainerOf, spellings
  <2>2. hits # {}
    BY <1>3
  <2> HIDE DEF hits
  <2> QED
    BY <2>1, <2>2, <1>2, <1>4
<1>7. ASSUME NEW m \in found
      PROVE  /\ m \in DOMAIN launched /\ launched[m].kind = "container"
             /\ target = Named("absolute", LaunchName(launched[m]))
  <2>1. target.form = "absolute"
    BY DEF Named
  <2>2. target # Named("relative", launched[m].name)
    BY <2>1 DEF Named
  <2> QED
    BY <1>7, <2>2 DEF ContainersAt, ContainerKeys
<1> HIDE DEF found
<1> QED
  BY <1>5, <1>6, <1>7

LEMMA ChildrenInTheirs ==
    ASSUME NEW l \in Launch, NEW artifacts, NEW p, p = SchemaPlan(l, Record[l], artifacts),
           NEW launched, launched = Launched(Record[l])
    PROVE  /\ p.launch = l
           /\ \A i, j \in DOMAIN launched :
                 /\ launched[i].kind = "load_node" /\ launched[i].target # None
                 /\ launched[j].kind = "container"
                 /\ launched[i].target = Named("absolute", LaunchName(launched[j]))
                 => \E m \in DOMAIN launched :
                       /\ launched[m].kind = "container"
                       /\ launched[i].target = Named("absolute", LaunchName(launched[m]))
                       /\ p.instances[i].container = p.instances[m].id
<1>1. PICK T : launched \in Seq(T)
  BY LaunchedIsList
<1>2. /\ p.launch = l
      /\ p.instances = [i \in DOMAIN launched |-> SchemaInstance(launched, i, artifacts)]
  BY DEF SchemaPlan
<1>4. ASSUME NEW i \in DOMAIN launched
      PROVE  /\ p.instances[i].id = InstanceId(launched, i)
             /\ p.instances[i].container = ContainerOf(launched, i)
  BY <1>2 DEF SchemaInstance
<1>5. ASSUME NEW i \in DOMAIN launched, launched[i].kind = "load_node",
             launched[i].target # None,
             NEW j \in DOMAIN launched, launched[j].kind = "container",
             launched[i].target = Named("absolute", LaunchName(launched[j]))
      PROVE  \E m \in DOMAIN launched :
                /\ launched[m].kind = "container"
                /\ launched[i].target = Named("absolute", LaunchName(launched[m]))
                /\ p.instances[i].container = p.instances[m].id
  BY <1>1, <1>4, <1>5, NamedContainerTakes
<1> QED
  BY <1>2, <1>5

-----------------------------------------------------------------------------
(* The files, and the plan that is made of them. *)

Versions == UNION {ToSet(Version[c]) : c \in Declared}

\* A component in one of its versions.
Told == {x \in Declared \X Versions : x[2] \in ToSet(Version[x[1]])}

PlTypes ==
    /\ DOMAIN source = Declared /\ DOMAIN file = Declared
    /\ \A c \in Declared : /\ source[c] \in ToSet(Version[c]) \cup {None}
                           /\ file[c] \in ToSet(Version[c]) \cup {None, Torn}
    /\ copies \in [FileNames -> Told \cup {None, Torn}]

Paths == ({"package"} \X Declared) \cup ({"copy"} \X FileNames)

\* What the planner can load.
Loads == Artifacts \cup {At(x[1], x[2]) : x \in Paths \X Artifacts}

\* p was made for launch l of artifacts that are on the files.
MadeFor(p, l, artifacts) ==
    /\ artifacts \in Seq(Loads)
    /\ p = SchemaPlan(l, Record[l], artifacts)
    /\ Plannable(Launched(Record[l]), artifacts, Manifest[l])

PlanMade == plan \in {None, Torn} \/ \E l \in Launch : \E artifacts : MadeFor(plan, l, artifacts)

PlInv == PlTypes /\ PlanMade

LEMMA ComponentsListed == Component \in Seq(Declared)
BY PlanningConstants DEF IsList, Declared

LEMMA VersionTold ==
    ASSUME NEW c \in Declared, NEW v \in ToSet(Version[c])
    PROVE  <<c, v>> \in Told
<1>1. v \in Versions
  BY DEF Versions
<1> QED
  BY <1>1 DEF Told

LEMMA InitTypes == PnInit => PlInv
<1> SUFFICES ASSUME PnInit PROVE PlInv
  OBVIOUS
<1>1. ASSUME NEW c \in Declared PROVE Head(Version[c]) \in ToSet(Version[c])
  <2>1. Version[c] \in Seq(ToSet(Version[c])) /\ Version[c] # <<>>
    BY PlanningConstants DEF IsList
  <2> QED
    BY <2>1
<1>2. PlTypes
  BY <1>1 DEF PnInit, PlTypes
<1>3. PlanMade
  BY DEF PnInit, PlanMade
<1> QED
  BY <1>2, <1>3 DEF PlInv

LEMMA WrittenTypes ==
    ASSUME PlTypes, NEW k \in Nat, NEW list, \A i \in 1..k : list[i] \in Told
    PROVE  Written(k, list) \in [FileNames -> Told \cup {None, Torn}]
<1>1. ASSUME NEW f \in FileNames
      PROVE  Written(k, list)[f] \in Told \cup {None, Torn}
  <2> DEFINE hits == {i \in 1..k : FileName[list[i][1]] = f}
  <2>1. Written(k, list)[f] = IF hits = {} THEN copies[f] ELSE list[Max(hits)]
    BY DEF Written
  <2>2. hits \in SUBSET (1..k)
    OBVIOUS
  <2> HIDE DEF hits
  <2>3. hits # {} => Max(hits) \in 1..k
    BY <2>2, GreatestMember
  <2>4. copies[f] \in Told \cup {None, Torn}
    BY DEF PlTypes
  <2> QED
    BY <2>1, <2>3, <2>4
<1>2. DOMAIN Written(k, list) = FileNames
  BY DEF Written
<1>3. Written(k, list) = [f \in FileNames |-> Written(k, list)[f]]
  BY DEF Written
<1> QED
  BY <1>1, <1>3

LEMMA CutTypes ==
    ASSUME PlTypes, NEW list \in Seq(Told), Cut(list)
    PROVE  copies' \in [FileNames -> Told \cup {None, Torn}]
<1>1. PICK k \in 0..Len(list) :
          copies' \in {Written(k, list), TornAt(k, list, Written(k, list))}
  BY DEF Cut
<1>2. k \in Nat /\ \A i \in 1..k : list[i] \in Told
  OBVIOUS
<1>3. PICK content : content = Written(k, list)
  OBVIOUS
<1>4. content \in [FileNames -> Told \cup {None, Torn}]
  BY <1>2, <1>3, WrittenTypes
<1>5. TornAt(k, list, content) \in [FileNames -> Told \cup {None, Torn}]
  BY <1>4 DEF TornAt
<1> QED
  BY <1>1, <1>3, <1>4, <1>5

\* The components of a list, each with what its file will say.
LEMMA InPackageTypes ==
    ASSUME PlTypes, Unreadable(InPackage) = {}
    PROVE  InPackage \in Seq(Told)
<1> DEFINE S == {c \in Scanned : file[c] # None}
<1>1. PICK list : list = Only(Component, S)
  OBVIOUS
<1>2. list \in Seq(Declared \cap S)
  BY <1>1, ComponentsListed, OnlyType
<1>3. InPackage = [i \in DOMAIN list |-> <<list[i], file[list[i]]>>]
  BY <1>1 DEF InPackage
<1>4. DOMAIN list = 1..Len(list) /\ Len(list) \in Nat
  BY <1>2
<1>5. ASSUME NEW i \in 1..Len(list) PROVE <<list[i], file[list[i]]>> \in Told
  <2>1. list[i] \in Declared /\ file[list[i]] # None
    BY <1>2
  <2>2. file[list[i]] # Torn
    BY <1>3, <1>4 DEF Unreadable
  <2>3. file[list[i]] \in ToSet(Version[list[i]])
    BY <2>1, <2>2 DEF PlTypes
  <2> QED
    BY <2>1, <2>3, VersionTold
<1>6. InPackage = [i \in 1..Len(list) |-> <<list[i], file[list[i]]>>]
  BY <1>3, <1>4
<1> QED
  BY <1>4, <1>5, <1>6

LEMMA BuiltTypes ==
    ASSUME PlTypes, NEW c \in Declared
    PROVE  /\ Built[c] \in ToSet(Version[c]) \cup {None, Torn}
           /\ c \in Lacking => Built[c] # None
           /\ c \notin Lacking => Built[c] = file[c]
BY DEF PlTypes, Built, Lacking

LEMMA InputsTypes ==
    ASSUME PlTypes
    PROVE  /\ DOMAIN Inputs = 1..Len(Inputs) /\ Len(Inputs) \in Nat
           /\ \A i \in DOMAIN Inputs : Inputs[i][2] # Torn => Inputs[i] \in Told
           /\ Inputs = [i \in 1..Len(Inputs) |-> Inputs[i]]
<1> DEFINE S == IF Lacking # {} THEN Lacking ELSE {c \in Scanned : file[c] # None}
<1>1. PICK list : list = Only(Component, S)
  OBVIOUS
<1>2. list \in Seq(Declared \cap S)
  BY <1>1, ComponentsListed, OnlyType
<1>3. Inputs = [i \in DOMAIN list |-> <<list[i], Built[list[i]]>>]
  BY <1>1 DEF Inputs, ToBuild
<1>4. DOMAIN list = 1..Len(list) /\ Len(list) \in Nat
  BY <1>2
<1>5. ASSUME NEW i \in 1..Len(list), Built[list[i]] # Torn
      PROVE  <<list[i], Built[list[i]]>> \in Told
  <2>1. list[i] \in Declared /\ list[i] \in S
    BY <1>2
  <2>2. Built[list[i]] # None
    <3>1. CASE Lacking # {}
      BY <2>1, <3>1, BuiltTypes
    <3>2. CASE Lacking = {}
      BY <2>1, <3>2, BuiltTypes
    <3> QED
      BY <3>1, <3>2
  <2>3. Built[list[i]] \in ToSet(Version[list[i]])
    BY <1>5, <2>1, <2>2, BuiltTypes
  <2> QED
    BY <2>1, <2>3, VersionTold
<1>6. Inputs = [i \in 1..Len(list) |-> <<list[i], Built[list[i]]>>]
  BY <1>3, <1>4
<1>7. Len(Inputs) = Len(list)
  BY <1>4, <1>6
<1>8. \A i \in 1..Len(list) : Inputs[i] = <<list[i], Built[list[i]]>>
  BY <1>6
<1> QED
  BY <1>4, <1>5, <1>6, <1>7, <1>8

LEMMA ParsedTypes ==
    ASSUME PlTypes
    PROVE  /\ Parsed(Inputs) \in 0..Len(Inputs)
           /\ \A i \in 1..Parsed(Inputs) : Inputs[i] \in Told
           /\ SubSeq(Inputs, 1, Parsed(Inputs)) \in Seq(Told)
<1>1. PICK inputs : inputs = Inputs
  OBVIOUS
<1>2. /\ DOMAIN inputs = 1..Len(inputs) /\ Len(inputs) \in Nat
      /\ \A i \in DOMAIN inputs : inputs[i][2] # Torn => inputs[i] \in Told
      /\ inputs = [i \in 1..Len(inputs) |-> inputs[i]]
  BY <1>1, InputsTypes
<1> DEFINE bad == Unreadable(inputs)
<1>3. bad \in SUBSET (1..Len(inputs)) /\ \A i \in 1..Len(inputs) : i \notin bad => inputs[i][2] # Torn
  BY <1>2 DEF Unreadable
<1>4. Parsed(inputs) = IF bad = {} THEN Len(inputs) ELSE Min(bad) - 1
  BY DEF Parsed
<1> HIDE DEF bad
<1>5. bad # {} => Min(bad) \in bad /\ \A m \in bad : Min(bad) <= m
  BY <1>3, LeastMember
<1>6. PICK k : k = Parsed(inputs)
  OBVIOUS
<1>7. k \in 0..Len(inputs) /\ \A i \in 1..k : i \notin bad
  <2>1. CASE bad = {}
    BY <1>2, <1>4, <1>6, <2>1
  <2>2. CASE bad # {}
    <3>1. PICK m : m = Min(bad)
      OBVIOUS
    <3>2. m \in 1..Len(inputs) /\ (\A x \in bad : m <= x) /\ k = m - 1
      BY <1>3, <1>4, <1>5, <1>6, <2>2, <3>1
    <3>3. k \in 0..Len(inputs)
      BY <1>2, <3>2
    <3>4. ASSUME NEW i \in 1..k PROVE i \notin bad
      <4>1. i < m
        BY <3>2
      <4> QED
        BY <1>2, <3>2, <4>1
    <3> QED
      BY <3>3, <3>4
  <2> QED
    BY <2>1, <2>2
<1>8. \A i \in 1..k : inputs[i] \in Told
  BY <1>2, <1>3, <1>7
<1>9. SubSeq(inputs, 1, k) = [i \in 1..k |-> inputs[i]]
  BY <1>2, <1>7
<1> QED
  BY <1>1, <1>6, <1>7, <1>8, <1>9

LEMMA SetAsList ==
    ASSUME NEW S, IsFiniteSet(S)
    PROVE  SetToSeq(S) \in Seq(S)
<1>1. PICK n \in Nat : n = Cardinality(S)
  BY FS_CardinalityType
<1>2. ExistsBijection(1..n, S)
  BY <1>1, FS_CardinalityType
<1>3. \E f \in [1..n -> S] : IsInjective(f)
  <2>1. PICK f \in Bijection(1..n, S) : TRUE
    BY <1>2 DEF ExistsBijection
  <2>2. f \in [1..n -> S] /\ IsInjective(f)
    BY <2>1 DEF Bijection, Injection, IsInjective
  <2> QED
    BY <2>2
<1>4. SetToSeq(S) = CHOOSE f \in [1..n -> S] : IsInjective(f)
  BY <1>1 DEF SetToSeq
<1>5. SetToSeq(S) \in [1..n -> S]
  BY <1>3, <1>4
<1> QED
  BY <1>5

LEMMA ToldArtifact ==
    ASSUME NEW x \in Told
    PROVE  Artifact[x[1]][x[2]] \in Artifacts
BY DEF Told, Artifacts

LEMMA LoadedTypes ==
    ASSUME PlTypes, Readable
    PROVE  Loaded \in Seq(Loads)
<1> DEFINE S == {f \in FileNames : copies[f] # None}
           T == {a \in ToSet(Synthetic) : a.path[2] \in Declared => source[a.path[2]] # None}
<1>1. PICK mine : mine = InPackage
  OBVIOUS
<1>2. PICK kept : kept = KeptNames
  OBVIOUS
<1>3. mine \in Seq(Told)
  BY <1>1, InPackageTypes DEF Readable
<1>4. kept \in Seq(S)
  <2>1. IsFiniteSet(S)
    BY PlanningConstants, FS_Subset
  <2> QED
    BY <1>2, <2>1, SetAsList DEF KeptNames
<1>5. Tables \in Seq(Artifacts)
  <2>1. Synthetic \in Seq(ToSet(Synthetic))
    BY PlanningConstants DEF IsList
  <2>2. Only(Synthetic, T) \in Seq(ToSet(Synthetic) \cap T)
    BY <2>1, OnlyType
  <2>3. Tables = Only(Synthetic, T)
    BY DEF Tables
  <2>4. ToSet(Synthetic) \cap T \in SUBSET Artifacts
    BY DEF Artifacts
  <2> HIDE DEF T
  <2> QED
    BY <2>2, <2>3, <2>4
<1>6. ASSUME NEW x \in Paths, NEW a \in Artifacts PROVE At(x, a) \in Loads
  <2>1. <<x, a>> \in Paths \X Artifacts
    OBVIOUS
  <2> QED
    BY <2>1 DEF Loads
<1> DEFINE first == [i \in DOMAIN mine |->
                       At(<<"package", mine[i][1]>>, Artifact[mine[i][1]][mine[i][2]])]
           second == [i \in DOMAIN kept |->
                       At(<<"copy", kept[i]>>, Artifact[copies[kept[i]][1]][copies[kept[i]][2]])]
<1>7. first \in Seq(Loads)
  <2>1. ASSUME NEW i \in DOMAIN mine PROVE first[i] \in Loads
    <3>1. mine[i] \in Told
      BY <1>3
    <3>2. <<"package", mine[i][1]>> \in Paths
      BY <3>1 DEF Told, Paths
    <3> QED
      BY <1>6, <3>1, <3>2, ToldArtifact
  <2>2. DOMAIN mine = 1..Len(mine) /\ Len(mine) \in Nat
    BY <1>3
  <2>3. first \in [1..Len(mine) -> Loads]
    BY <2>1, <2>2
  <2> HIDE DEF first
  <2> QED
    BY <2>2, <2>3
<1>8. second \in Seq(Loads)
  <2>1. ASSUME NEW i \in DOMAIN kept PROVE second[i] \in Loads
    <3>1. kept[i] \in FileNames /\ copies[kept[i]] # None
      BY <1>4
    <3>2. copies[kept[i]] \in Told
      BY <3>1 DEF PlTypes, Readable
    <3>3. <<"copy", kept[i]>> \in Paths
      BY <3>1 DEF Paths
    <3> QED
      BY <1>6, <3>2, <3>3, ToldArtifact
  <2>2. DOMAIN kept = 1..Len(kept) /\ Len(kept) \in Nat
    BY <1>4
  <2>3. second \in [1..Len(kept) -> Loads]
    BY <2>1, <2>2
  <2> HIDE DEF second
  <2> QED
    BY <2>2, <2>3
<1>9. Tables \in Seq(Loads)
  BY <1>5 DEF Loads
<1>10. Loaded = first \o second \o Tables
  BY <1>1, <1>2 DEF Loaded
<1> HIDE DEF first, second
<1> QED
  BY <1>7, <1>8, <1>9, <1>10

-----------------------------------------------------------------------------
(* The invariant, step by step. *)

LEMMA UserKeeps ==
    ASSUME PlInv, NEW c \in Declared, MoveOn(c) \/ Clean(c) \/ Leave(c)
    PROVE  PlInv'
<1>1. PlanMade'
  BY DEF PlInv, PlanMade, MoveOn, Clean, Leave
<1>2. PlTypes'
  <2>1. CASE MoveOn(c)
    <3>1. PICK k \in 1..(Len(Version[c]) - 1) :
              source' = [source EXCEPT ![c] = Version[c][k + 1]]
      BY <2>1 DEF MoveOn
    <3>2. Version[c][k + 1] \in ToSet(Version[c])
      <4>1. Version[c] \in Seq(ToSet(Version[c]))
        BY PlanningConstants DEF IsList
      <4>2. k + 1 \in 1..Len(Version[c])
        BY <4>1
      <4> QED
        BY <4>1, <4>2
    <3>3. UNCHANGED <<file, copies>>
      BY <2>1 DEF MoveOn
    <3> QED
      BY <3>1, <3>2, <3>3 DEF PlInv, PlTypes
  <2>2. CASE Clean(c)
    BY <2>2 DEF PlInv, PlTypes, Clean
  <2>3. CASE Leave(c)
    BY <2>3 DEF PlInv, PlTypes, Leave
  <2> QED
    BY <2>1, <2>2, <2>3
<1> QED
  BY <1>1, <1>2 DEF PlInv

LEMMA MetadataKeeps ==
    ASSUME PlInv, BuildStops \/ Metadata \/ MetadataKilled
    PROVE  PlInv'
<1>1. PlanMade'
  BY DEF PlInv, PlanMade, BuildStops, Metadata, MetadataKilled
<1>2. CASE BuildStops
  <2>1. PICK missing : missing = ToBuild
    OBVIOUS
  <2>2. PICK k \in 1..Len(missing), left \in {None, Torn} :
          file' = [c \in Declared |->
                     IF \E i \in 1..(k - 1) : missing[i] = c THEN source[c]
                     ELSE IF c = missing[k] THEN left ELSE file[c]]
    BY <1>2, <2>1 DEF BuildStops
  <2>3. UNCHANGED <<source, copies>>
    BY <1>2 DEF BuildStops
  <2>4. PlTypes'
    BY <2>2, <2>3 DEF PlInv, PlTypes
  <2> QED
    BY <1>1, <2>4 DEF PlInv
<1>3. CASE Metadata \/ MetadataKilled
  <2>1. PlTypes /\ source' = source /\ file' = Built
    BY <1>3 DEF PlInv, Metadata, MetadataKilled
  <2>2. /\ DOMAIN file' = Declared
        /\ \A c \in Declared : file'[c] \in ToSet(Version[c]) \cup {None, Torn}
    <3>1. DOMAIN Built = Declared
      BY DEF Built
    <3> QED
      BY <2>1, <3>1, BuiltTypes
  <2>3. copies' \in [FileNames -> Told \cup {None, Torn}]
    <3>1. CASE Metadata
      <4>1. copies' = Written(Parsed(Inputs), Inputs)
        BY <3>1 DEF Metadata
      <4>2. Parsed(Inputs) \in Nat
        BY <2>1, ParsedTypes, InputsTypes
      <4> QED
        BY <2>1, <4>1, <4>2, ParsedTypes, WrittenTypes
    <3>2. CASE MetadataKilled
      <4>1. Cut(SubSeq(Inputs, 1, Parsed(Inputs)))
        BY <3>2 DEF MetadataKilled
      <4> QED
        BY <2>1, <4>1, ParsedTypes, CutTypes
    <3> QED
      BY <1>3, <3>1, <3>2
  <2>4. PlTypes'
    BY <2>1, <2>2, <2>3 DEF PlTypes
  <2> QED
    BY <1>1, <2>4 DEF PlInv
<1> QED
  BY <1>2, <1>3

LEMMA PreserveTypes ==
    ASSUME PlTypes, Readable, Preserve
    PROVE  copies' \in [FileNames -> Told \cup {None, Torn}]
<1>1. PICK mine : mine = InPackage
  OBVIOUS
<1>2. mine \in Seq(Told)
  BY <1>1, InPackageTypes DEF Readable
<1>3. copies' = Written(Len(mine), mine)
  BY <1>1 DEF Preserve
<1> QED
  BY <1>2, <1>3, WrittenTypes

LEMMA PlanKeeps ==
    ASSUME PlInv, PlanFails \/ PlanKilled \/ \E l \in Launch : PlanSystem(l)
    PROVE  PlInv'
<1>1. PlTypes /\ Readable /\ UNCHANGED <<source, file>>
  BY DEF PlInv, PlanFails, PlanSystem, PlanKilled
<1>2. copies' \in [FileNames -> Told \cup {None, Torn}]
  <2>1. CASE Preserve
    BY <1>1, <2>1, PreserveTypes
  <2>2. CASE \E mine \in {InPackage} : Cut(mine)
    BY <1>1, <2>2, InPackageTypes, CutTypes DEF Readable
  <2> QED
    BY <2>1, <2>2 DEF PlanFails, PlanSystem, PlanKilled
<1>3. PlTypes'
  BY <1>1, <1>2 DEF PlTypes
<1>4. CASE plan' = plan \/ plan' = Torn
  <2>1. PlanMade'
    BY <1>4 DEF PlInv, PlanMade
  <2> QED
    BY <1>3, <2>1 DEF PlInv
<1>5. ASSUME NEW l \in Launch, PlanSystem(l) PROVE PlInv'
  <2>1. PICK artifacts : artifacts = Loaded
    OBVIOUS
  <2>2. artifacts \in Seq(Loads)
    BY <1>1, <2>1, LoadedTypes
  <2>3. /\ plan' = SchemaPlan(l, Record[l], artifacts)
        /\ Plannable(Launched(Record[l]), artifacts, Manifest[l])
    BY <1>5, <2>1 DEF PlanSystem, CanPlan
  <2>4. MadeFor(plan', l, artifacts)
    BY <2>2, <2>3 DEF MadeFor
  <2>5. PlanMade'
    BY <2>4 DEF PlanMade
  <2> QED
    BY <1>3, <2>5 DEF PlInv
<1> QED
  BY <1>4, <1>5 DEF PlanFails, PlanKilled

LEMMA PlInvHolds == PnSpec => []PlInv
<1>1. PnInit => PlInv
  BY InitTypes
<1>2. ASSUME PlInv, [PnNext]_pnVars PROVE PlInv'
  <2>1. CASE pnVars' = pnVars
    BY <1>2, <2>1 DEF pnVars, PlInv, PlTypes, PlanMade
  <2> QED
    BY <1>2, <2>1, UserKeeps, MetadataKeeps, PlanKeeps DEF PnNext
<1> QED
  BY <1>1, <1>2, PTL DEF PnSpec

\* In every plan, a composable node whose target is the full name of a container of the
\* launch is in that container (build_instances), whatever files the plan was made of.
THEOREM ChildrenStayInTheirs == PnSpec => []ChildrenInTheirContainers
<1>1. PlInv => ChildrenInTheirContainers
  <2> SUFFICES ASSUME PlInv, IsPlan(plan) PROVE ChildrenInTheirContainers
    BY DEF ChildrenInTheirContainers
  <2>0. PICK l \in Launch : \E artifacts : MadeFor(plan, l, artifacts)
    BY DEF PlInv, PlanMade, IsPlan
  <2>1. PICK artifacts : MadeFor(plan, l, artifacts)
    BY <2>0
  <2>2. PICK launched : launched = Launched(Record[l])
    OBVIOUS
  <2>3. PICK p : p = plan
    OBVIOUS
  <2>4. p = SchemaPlan(l, Record[l], artifacts)
    BY <2>1, <2>3 DEF MadeFor
  <2>5. p.launch = l
    BY <2>2, <2>4, ChildrenInTheirs
  <2>6. ASSUME NEW i \in DOMAIN launched,
               launched[i].kind = "load_node" /\ launched[i].target # None,
               NEW j \in DOMAIN launched,
               launched[j].kind = "container"
                 /\ launched[i].target = Named("absolute", LaunchName(launched[j]))
        PROVE  \E m \in DOMAIN launched :
                  /\ launched[m].kind = "container"
                  /\ launched[i].target = Named("absolute", LaunchName(launched[m]))
                  /\ p.instances[i].container = p.instances[m].id
    BY <2>2, <2>4, <2>6, ChildrenInTheirs
  <2> QED
    BY <2>2, <2>3, <2>5, <2>6 DEF ChildrenInTheirContainers
<1> QED
  BY <1>1, PlInvHolds, PTL

-----------------------------------------------------------------------------
(* The nodes, entities and callbacks of an instance. *)

LEMMA ListFromMembers ==
    ASSUME NEW n \in Nat, NEW f, DOMAIN f = 1..n, f = [i \in DOMAIN f |-> f[i]]
    PROVE  IsList(f) /\ Len(f) = n
<1>1. f \in [1..n -> ToSet(f)]
  BY DEF ToSet
<1> QED
  BY <1>1 DEF IsList

LEMMA AppendedApart ==
    ASSUME NEW a, NEW b, NEW c, NEW x, NEW y, Append(<<a, b, c>>, x) = Append(<<a, b, c>>, y)
    PROVE  x = y
<1>1. PICK S : S = {a, b, c, x, y}
  OBVIOUS
<1>2. a \in S /\ b \in S /\ c \in S /\ x \in S /\ y \in S
  BY <1>1
<1>3. PICK s : s = <<a, b, c>>
  OBVIOUS
<1>4. s \in Seq(S) /\ Len(s) \in Nat
  BY <1>2, <1>3
<1>5. ASSUME NEW z \in S PROVE Append(s, z)[Len(s) + 1] = z
  <2>1. Append(s, z) \in Seq(S) /\ Len(Append(s, z)) = Len(s) + 1
    BY <1>4
  <2> QED
    BY <1>4, <2>1
<1>6. Append(s, x)[Len(s) + 1] = Append(s, y)[Len(s) + 1]
  BY <1>3
<1> QED
  BY <1>2, <1>5, <1>6

\* An id that keeps what is appended to it apart.
Parts(id) == \A x, y : Append(id, x) = Append(id, y) => x = y

LEMMA InstanceIdParts ==
    ASSUME NEW launched, NEW i
    PROVE  Parts(InstanceId(launched, i))
<1>1. PICK a, b, c : InstanceId(launched, i) = <<a, b, c>>
  BY DEF InstanceId
<1>2. PICK id : id = <<a, b, c>>
  OBVIOUS
<1>3. ASSUME NEW x, NEW y, Append(<<a, b, c>>, x) = Append(<<a, b, c>>, y) PROVE x = y
  BY <1>3, AppendedApart
<1>4. Parts(id)
  BY <1>2, <1>3 DEF Parts
<1> QED
  BY <1>1, <1>2, <1>4

EntityList(entities) ==
    /\ IsList(entities)
    /\ \A k \in DOMAIN entities :
          DOMAIN entities[k] = {"of", "role", "id", "name", "interface", "callback"}

\* Every entity of new comes from a place of its own in old, where it is said to be of
\* the node, and has its id there under id.
Follows(new, old, of, id, at) ==
    /\ \A k \in DOMAIN new :
          /\ at[k] \in DOMAIN old
          /\ old[at[k]].of = of
          /\ new[k].id = Append(id, old[at[k]].id)
          /\ new[k].interface = old[at[k]].interface
    /\ \A j, k \in DOMAIN new : at[j] = at[k] => j = k

LEMMA SchemaEntities ==
    ASSUME NEW id, NEW node, NEW entities, EntityList(entities),
           NEW new, new = SchemaNode(id, node, entities).entities
    PROVE  DOMAIN new \subseteq Nat /\ \E at : Follows(new, entities, node.id, id, at)
<1> DEFINE S == {e \in ToSet(entities) :
                   /\ e.of = node.id
                   /\ e.role = "timer" \/ (e.role \in EndpointRoles /\ e.interface # None)}
<1>1. PICK kept : kept = Only(entities, S)
  OBVIOUS
<1>2. entities \in Seq(ToSet(entities)) /\ DOMAIN entities = 1..Len(entities)
  BY DEF EntityList, IsList
<1>3. PICK at : Picks(kept, entities, ToSet(entities) \cap S, Len(entities), at)
  BY <1>1, <1>2, OnlyPicks
<1>4. new = [k \in DOMAIN kept |-> [kept[k] EXCEPT !.id = Append(id, kept[k].id)]]
  BY <1>1 DEF SchemaNode
<1>5. DOMAIN kept = 1..Len(kept) /\ Len(kept) \in Nat
  BY <1>3 DEF Picks
<1>6. DOMAIN new = 1..Len(kept)
  BY <1>4, <1>5
<1>7. ASSUME NEW k \in DOMAIN new
      PROVE  /\ at[k] \in DOMAIN entities
             /\ entities[at[k]].of = node.id
             /\ new[k].id = Append(id, entities[at[k]].id)
             /\ new[k].interface = entities[at[k]].interface
  <2>1. at[k] \in DOMAIN entities /\ kept[k] = entities[at[k]] /\ kept[k] \in S
    BY <1>2, <1>3, <1>6 DEF Picks
  <2>2. PICK e : e = entities[at[k]]
    OBVIOUS
  <2>3. DOMAIN e = {"of", "role", "id", "name", "interface", "callback"}
    BY <2>1, <2>2 DEF EntityList
  <2>4. new[k] = [e EXCEPT !.id = Append(id, e.id)]
    BY <1>4, <1>5, <1>6, <2>1, <2>2
  <2>5. PICK x : x = Append(id, e.id)
    OBVIOUS
  <2>6. new[k] = [e EXCEPT !.id = x]
    BY <2>4, <2>5
  <2>7. new[k].id = x /\ new[k].interface = e.interface
    BY <2>3, <2>6
  <2> QED
    BY <2>1, <2>2, <2>5, <2>7
<1>8. \A j, k \in DOMAIN new : at[j] = at[k] => j = k
  BY <1>3, <1>6 DEF Picks
<1>9. Follows(new, entities, node.id, id, at)
  BY <1>7, <1>8 DEF Follows
<1> QED
  BY <1>6, <1>9

Numbered(f) == \E n \in Nat : DOMAIN f = 1..n

\* What schema_instance makes of the nodes, entities and callbacks it is given.
Made(instance, id, nodes, entities, callbacks) ==
    /\ IsList(nodes) /\ DOMAIN instance.nodes = DOMAIN nodes
    /\ \A n \in DOMAIN nodes :
          /\ instance.nodes[n].id = Append(id, nodes[n].id)
          /\ DOMAIN instance.nodes[n].entities \subseteq Nat
          /\ \E at : Follows(instance.nodes[n].entities, entities, nodes[n].id, id, at)
    /\ IsList(callbacks) /\ DOMAIN instance.callbacks = DOMAIN callbacks
    /\ \A k \in DOMAIN callbacks :
          /\ instance.callbacks[k].id = Append(id, callbacks[k].id)
          /\ instance.callbacks[k].context \in Tier \cup {DefaultTier}
    /\ \A x \in instance.parameters :
          x.node = Append(id, IF nodes = <<>> THEN "node" ELSE nodes[1].id)

LEMMA InstanceMade ==
    ASSUME NEW artifacts, NEW launched, NEW i, NEW entry, entry = launched[i],
           NEW artifact, artifact = FindMetadata(artifacts, entry),
           NEW nodes, nodes = SourceNodes(artifact, entry), IsList(nodes),
           NEW entities, entities = SourceEntities(artifact, entry), EntityList(entities),
           NEW callbacks, callbacks = SourceCallbacks(artifact), IsList(callbacks),
           NEW instance, instance = SchemaInstance(launched, i, artifacts)
    PROVE  Made(instance, InstanceId(launched, i), nodes, entities, callbacks)
<1>1. PICK id : id = InstanceId(launched, i)
  OBVIOUS
<1>2. /\ instance.nodes = [n \in DOMAIN nodes |-> SchemaNode(id, nodes[n], entities)]
      /\ instance.callbacks = [k \in DOMAIN callbacks |-> SchemaCallback(id, callbacks[k])]
      /\ instance.parameters =
            {[node |-> Append(id, IF nodes = <<>> THEN "node" ELSE nodes[1].id), name |-> name] :
               name \in EffectiveParameters(artifact, entry)}
  BY <1>1 DEF SchemaInstance
<1>3. PICK out : out = instance.nodes
  OBVIOUS
<1>4. DOMAIN out = DOMAIN nodes /\ \A n \in DOMAIN nodes : out[n] = SchemaNode(id, nodes[n], entities)
  BY <1>2, <1>3
<1>5. ASSUME NEW n \in DOMAIN nodes
      PROVE  /\ out[n].id = Append(id, nodes[n].id)
             /\ DOMAIN out[n].entities \subseteq Nat
             /\ \E at : Follows(out[n].entities, entities, nodes[n].id, id, at)
  <2>1. PICK node : node = nodes[n]
    OBVIOUS
  <2>2. out[n] = SchemaNode(id, node, entities)
    BY <1>4, <2>1
  <2>3. PICK new : new = out[n].entities
    OBVIOUS
  <2>4. DOMAIN new \subseteq Nat /\ \E at : Follows(new, entities, node.id, id, at)
    BY <2>2, <2>3, SchemaEntities
  <2>5. out[n].id = Append(id, node.id)
    BY <2>2 DEF SchemaNode
  <2> QED
    BY <2>1, <2>3, <2>4, <2>5
<1>6. DOMAIN instance.callbacks = DOMAIN callbacks
  BY <1>2
<1>7. ASSUME NEW k \in DOMAIN callbacks
      PROVE  /\ instance.callbacks[k].id = Append(id, callbacks[k].id)
             /\ instance.callbacks[k].context \in Tier \cup {DefaultTier}
  BY <1>2, <1>6 DEF SchemaCallback
<1>8. \A x \in instance.parameters :
          x.node = Append(id, IF nodes = <<>> THEN "node" ELSE nodes[1].id)
  BY <1>2
<1> QED
  BY <1>1, <1>3, <1>4, <1>5, <1>6, <1>7, <1>8 DEF Made

-----------------------------------------------------------------------------
(* What the metadata say of an instance. *)

LEMMA LoadsSay ==
    ASSUME NEW b \in Loads
    PROVE  \E a \in Artifacts :
              /\ b.package = a.package /\ b.component = a.component
              /\ b.executable = a.executable
              /\ b.nodes = a.nodes /\ b.entities = a.entities /\ b.callbacks = a.callbacks
<1>1. CASE b \in Artifacts
  BY <1>1
<1>2. CASE b \notin Artifacts
  <2>1. PICK x \in Paths \X Artifacts : b = At(x[1], x[2])
    BY <1>2 DEF Loads
  <2>2. PICK a \in Artifacts : a = x[2]
    BY <2>1
  <2>3. DOMAIN a = {"path", "package", "component", "executable",
                    "nodes", "entities", "callbacks", "params"}
    BY ArtifactShape
  <2>4. b = [a EXCEPT !.path = x[1]]
    BY <2>1, <2>2 DEF At
  <2> QED
    BY <2>3, <2>4
<1> QED
  BY <1>1, <1>2

LEMMA MetadataFound ==
    ASSUME NEW artifacts \in Seq(Loads), NEW entry, FindMetadata(artifacts, entry) # None
    PROVE  \E k \in DOMAIN artifacts :
              /\ FindMetadata(artifacts, entry) = artifacts[k]
              /\ MetadataMatches(artifacts[k], entry)
<1> DEFINE hits == {k \in DOMAIN artifacts : MetadataMatches(artifacts[k], entry)}
<1>1. FindMetadata(artifacts, entry) = IF hits = {} THEN None ELSE artifacts[Min(hits)]
  BY DEF FindMetadata
<1>2. hits \in SUBSET Nat
  OBVIOUS
<1>3. \A k \in hits : k \in DOMAIN artifacts /\ MetadataMatches(artifacts[k], entry)
  OBVIOUS
<1> HIDE DEF hits
<1>4. hits # {} /\ FindMetadata(artifacts, entry) = artifacts[Min(hits)]
  BY <1>1
<1>5. Min(hits) \in hits
  BY <1>2, <1>4, LeastMember
<1> QED
  BY <1>3, <1>4, <1>5

\* Nodes and entities have the ids and the interfaces the artifact gives them.
Said(a, nodes, entities, callbacks) ==
    /\ IF a.nodes = None THEN DOMAIN nodes = {1}
       ELSE DOMAIN nodes = DOMAIN a.nodes /\ \A n \in DOMAIN nodes : nodes[n].id = a.nodes[n].id
    /\ DOMAIN entities = DOMAIN a.entities
    /\ \A k \in DOMAIN entities : /\ entities[k].id = a.entities[k].id
                                  /\ entities[k].interface = a.entities[k].interface
    /\ callbacks = a.callbacks

Nothing(nodes, entities, callbacks) ==
    DOMAIN nodes = {1} /\ entities = <<>> /\ callbacks = <<>>

LEMMA OneNode ==
    ASSUME NEW node, NEW nodes, nodes = <<node>>
    PROVE  IsList(nodes) /\ DOMAIN nodes = {1}
<1>1. DOMAIN nodes = 1..1 /\ nodes = [i \in DOMAIN nodes |-> nodes[i]]
  OBVIOUS
<1>2. IsList(nodes)
  BY <1>1, ListFromMembers
<1> QED
  BY <1>1, <1>2

LEMMA EmptyList == IsList(<<>>) /\ DOMAIN <<>> = {} /\ EntityList(<<>>)
<1>1. IsList(<<>>) /\ DOMAIN <<>> = {}
  BY DEF IsList
<1> QED
  BY <1>1 DEF EntityList

LEMMA NodesSaid ==
    ASSUME NEW artifact, NEW entry, artifact # None,
           artifact.nodes = None \/ IsList(artifact.nodes),
           NEW nodes, nodes = SourceNodes(artifact, entry)
    PROVE  /\ IsList(nodes)
           /\ IF artifact.nodes = None THEN DOMAIN nodes = {1}
              ELSE DOMAIN nodes = DOMAIN artifact.nodes
                   /\ \A n \in DOMAIN nodes : nodes[n].id = artifact.nodes[n].id
<1>1. CASE artifact.nodes = None
  <2>1. PICK node : nodes = <<node>>
    BY <1>1 DEF SourceNodes
  <2> QED
    BY <1>1, <2>1, OneNode
<1>2. CASE artifact.nodes # None
  <2>1. PICK old : old = artifact.nodes
    OBVIOUS
  <2>2. \E f : nodes = [n \in DOMAIN old |-> [id |-> old[n].id, resolved |-> f[n]]]
    <3> DEFINE launchName == LaunchName(entry)
               resolved(node) == IF Len(artifact.nodes) = 1 THEN entry.namespace \o launchName
                                 ELSE NamespaceOf(node, entry) \o node.name
               f == [n \in DOMAIN old |-> resolved(old[n])]
    <3>1. nodes = [n \in DOMAIN old |-> [id |-> old[n].id, resolved |-> resolved(old[n])]]
      BY <1>2, <2>1 DEF SourceNodes
    <3> HIDE DEF resolved
    <3>2. nodes = [n \in DOMAIN old |-> [id |-> old[n].id, resolved |-> f[n]]]
      BY <3>1
    <3> HIDE DEF f
    <3> QED
      BY <3>2
  <2>3. /\ DOMAIN nodes = DOMAIN old /\ nodes = [n \in DOMAIN nodes |-> nodes[n]]
        /\ \A n \in DOMAIN old : nodes[n].id = old[n].id
    BY <2>2
  <2>4. DOMAIN old = 1..Len(old) /\ Len(old) \in Nat
    BY <1>2, <2>1 DEF IsList
  <2>5. IsList(nodes)
    BY <2>3, <2>4, ListFromMembers
  <2> QED
    BY <1>2, <2>1, <2>3, <2>5
<1> QED
  BY <1>1, <1>2

LEMMA EntityKept ==
    ASSUME NEW artifact, NEW entry, NEW e,
           DOMAIN e = {"of", "role", "id", "name", "interface", "callback"},
           NEW x, x = SourceEntity(artifact, entry, e)
    PROVE  DOMAIN x = DOMAIN e /\ x.id = e.id /\ x.interface = e.interface
<1>1. \E n, o, c : x = [e EXCEPT !.of = o, !.callback = c, !.name = n] \/ x = [e EXCEPT !.of = o, !.name = n]
  BY DEF SourceEntity
<1>2. PICK n, o, c : x = [e EXCEPT !.of = o, !.callback = c, !.name = n] \/ x = [e EXCEPT !.of = o, !.name = n]
  BY <1>1
<1> QED
  BY <1>2

LEMMA EntitiesSaid ==
    ASSUME NEW artifact, NEW entry, artifact # None, EntityList(artifact.entities),
           NEW entities, entities = SourceEntities(artifact, entry)
    PROVE  /\ EntityList(entities) /\ DOMAIN entities = DOMAIN artifact.entities
           /\ \A k \in DOMAIN entities :
                 /\ entities[k].id = artifact.entities[k].id
                 /\ entities[k].interface = artifact.entities[k].interface
<1>1. PICK old : old = artifact.entities
  OBVIOUS
<1>2. entities = [k \in DOMAIN old |-> SourceEntity(artifact, entry, old[k])]
  BY <1>1 DEF SourceEntities
<1>3. DOMAIN entities = DOMAIN old /\ entities = [k \in DOMAIN entities |-> entities[k]]
  BY <1>2
<1>4. ASSUME NEW k \in DOMAIN old
      PROVE  /\ DOMAIN entities[k] = DOMAIN old[k] /\ entities[k].id = old[k].id
             /\ entities[k].interface = old[k].interface
  <2>1. PICK e : e = old[k]
    OBVIOUS
  <2>2. PICK x : x = SourceEntity(artifact, entry, e)
    OBVIOUS
  <2>3. DOMAIN e = {"of", "role", "id", "name", "interface", "callback"}
    BY <1>1, <2>1 DEF EntityList
  <2>4. DOMAIN x = DOMAIN e /\ x.id = e.id /\ x.interface = e.interface
    BY <2>2, <2>3, EntityKept
  <2> QED
    BY <1>2, <2>1, <2>2, <2>4
<1>5. DOMAIN old = 1..Len(old) /\ Len(old) \in Nat
  BY <1>1 DEF EntityList, IsList
<1>6. IsList(entities)
  BY <1>3, <1>5, ListFromMembers
<1> QED
  BY <1>1, <1>3, <1>4, <1>6 DEF EntityList

\* An instance is made of nothing, or of what some artifact that matches says.
LEMMA InputOf ==
    ASSUME NEW artifacts \in Seq(Loads), NEW entry,
           NEW artifact, artifact = FindMetadata(artifacts, entry),
           NEW nodes, nodes = SourceNodes(artifact, entry),
           NEW entities, entities = SourceEntities(artifact, entry),
           NEW callbacks, callbacks = SourceCallbacks(artifact)
    PROVE  /\ IsList(nodes) /\ EntityList(entities) /\ IsList(callbacks)
           /\ IF artifact = None THEN Nothing(nodes, entities, callbacks)
              ELSE \E a \in Artifacts : /\ MetadataMatches(a, entry)
                                        /\ ComponentId(a) = ComponentId(artifact)
                                        /\ Said(a, nodes, entities, callbacks)
<1>1. CASE artifact = None
  <2>1. PICK node : nodes = <<node>>
    BY <1>1 DEF SourceNodes
  <2>2. entities = <<>> /\ callbacks = <<>>
    BY <1>1 DEF SourceEntities, SourceCallbacks
  <2>3. IsList(nodes) /\ DOMAIN nodes = {1}
    BY <2>1, OneNode
  <2> QED
    BY <1>1, <2>2, <2>3, EmptyList DEF Nothing
<1>2. CASE artifact # None
  <2>1. PICK k \in DOMAIN artifacts : artifact = artifacts[k] /\ MetadataMatches(artifacts[k], entry)
    BY <1>2, MetadataFound
  <2>2. artifact \in Loads
    BY <2>1
  <2>3. PICK a \in Artifacts :
              /\ artifact.package = a.package /\ artifact.component = a.component
              /\ artifact.executable = a.executable
              /\ artifact.nodes = a.nodes /\ artifact.entities = a.entities
              /\ artifact.callbacks = a.callbacks
    BY <2>2, LoadsSay
  <2>4. /\ a.nodes = None \/ IsList(a.nodes)
        /\ IsList(a.entities) /\ IsList(a.callbacks)
        /\ \A e \in ToSet(a.entities) :
              DOMAIN e = {"of", "role", "id", "name", "interface", "callback"}
    BY ArtifactShape
  <2>5. EntityList(a.entities)
    BY <2>4 DEF EntityList, ToSet
  <2>6. MetadataMatches(a, entry) /\ ComponentId(a) = ComponentId(artifact)
    BY <2>1, <2>3 DEF MetadataMatches, Claims, ComponentId
  <2>7. /\ IsList(nodes)
        /\ IF a.nodes = None THEN DOMAIN nodes = {1}
           ELSE DOMAIN nodes = DOMAIN a.nodes /\ \A n \in DOMAIN nodes : nodes[n].id = a.nodes[n].id
    BY <1>2, <2>3, <2>4, NodesSaid
  <2>8. EntityList(artifact.entities)
    BY <2>3, <2>5
  <2>9. /\ EntityList(entities) /\ DOMAIN entities = DOMAIN a.entities
        /\ \A j \in DOMAIN entities : /\ entities[j].id = a.entities[j].id
                                      /\ entities[j].interface = a.entities[j].interface
    BY <1>2, <2>3, <2>8, EntitiesSaid
  <2>10. callbacks = a.callbacks
    BY <1>2, <2>3 DEF SourceCallbacks
  <2>11. Said(a, nodes, entities, callbacks)
    BY <2>7, <2>9, <2>10 DEF Said
  <2> QED
    BY <1>2, <2>4, <2>6, <2>7, <2>9, <2>10, <2>11
<1> QED
  BY <1>1, <1>2

-----------------------------------------------------------------------------
(* Ids that are in an instance twice are in the metadata twice. *)

LEMMA RepeatOf ==
    ASSUME NEW s, Numbered(s), NEW x \in Repeats(s)
    PROVE  \E i, j \in DOMAIN s : i # j /\ s[i] = x /\ s[j] = x
<1>1. PICK n \in Nat : DOMAIN s = 1..n
  BY DEF Numbered
<1>2. PICK i \in DOMAIN s : x = s[i] /\ \E j \in 1..(i - 1) : s[j] = s[i]
  BY DEF Repeats
<1>3. PICK j \in 1..(i - 1) : s[j] = s[i]
  BY <1>2
<1>4. j \in DOMAIN s /\ j # i
  BY <1>1
<1> QED
  BY <1>2, <1>3, <1>4

\* What an instance was made of, as far as ids go.
Source(entry, nodes, entities, callbacks) ==
    \/ Nothing(nodes, entities, callbacks)
    \/ \E a \in Artifacts : MetadataMatches(a, entry) /\ Said(a, nodes, entities, callbacks)

NodeSaidTwice(entry, id, x) ==
    \E a \in Artifacts : /\ MetadataMatches(a, entry)
                         /\ \E n \in NodeIds(a) : NodeTwice(a, n) /\ x = Append(id, n)

LEMMA RepeatedNode ==
    ASSUME NEW instance, NEW id, Parts(id), NEW nodes, NEW entities, NEW callbacks,
           Made(instance, id, nodes, entities, callbacks),
           NEW entry, Source(entry, nodes, entities, callbacks),
           NEW s, DOMAIN s = DOMAIN instance.nodes,
           \A n \in DOMAIN s : s[n] = instance.nodes[n].id, NEW x \in Repeats(s)
    PROVE  NodeSaidTwice(entry, id, x)
<1>1. DOMAIN s = DOMAIN nodes /\ \A n \in DOMAIN nodes : s[n] = Append(id, nodes[n].id)
  BY DEF Made
<1>2. Numbered(s)
  BY <1>1 DEF Made, IsList, Numbered
<1>3. PICK i \in DOMAIN nodes, j \in DOMAIN nodes : i # j /\ s[i] = x /\ s[j] = x
  BY <1>1, <1>2, RepeatOf
<1>4. nodes[i].id = nodes[j].id /\ x = Append(id, nodes[i].id)
  BY <1>1, <1>3 DEF Parts
<1>5. DOMAIN nodes # {1}
  BY <1>3
<1>6. PICK a \in Artifacts : MetadataMatches(a, entry) /\ Said(a, nodes, entities, callbacks)
  BY <1>5 DEF Source, Nothing
<1>7. /\ a.nodes # None /\ DOMAIN nodes = DOMAIN a.nodes
      /\ \A n \in DOMAIN nodes : nodes[n].id = a.nodes[n].id
  BY <1>5, <1>6 DEF Said
<1>8. NodeTwice(a, nodes[i].id) /\ nodes[i].id \in NodeIds(a)
  BY <1>3, <1>4, <1>7 DEF NodeTwice, TwiceIn, NodeIds
<1> QED
  BY <1>4, <1>6, <1>8 DEF NodeSaidTwice

LEMMA RepeatedCallback ==
    ASSUME NEW instance, NEW id, Parts(id), NEW nodes, NEW entities, NEW callbacks,
           Made(instance, id, nodes, entities, callbacks),
           NEW entry, Source(entry, nodes, entities, callbacks),
           NEW s, DOMAIN s = DOMAIN instance.callbacks,
           \A k \in DOMAIN s : s[k] = instance.callbacks[k].id, NEW x \in Repeats(s)
    PROVE  \E a \in Artifacts : /\ MetadataMatches(a, entry)
                                /\ \E c \in ToSet(a.callbacks) :
                                      TwiceIn(a.callbacks, c.id) /\ x = Append(id, c.id)
<1>1. DOMAIN s = DOMAIN callbacks /\ \A n \in DOMAIN callbacks : s[n] = Append(id, callbacks[n].id)
  BY DEF Made
<1>2. Numbered(s)
  BY <1>1 DEF Made, IsList, Numbered
<1>3. PICK i \in DOMAIN callbacks, j \in DOMAIN callbacks : i # j /\ s[i] = x /\ s[j] = x
  BY <1>1, <1>2, RepeatOf
<1>4. callbacks[i].id = callbacks[j].id /\ x = Append(id, callbacks[i].id)
  BY <1>1, <1>3 DEF Parts
<1>5. callbacks # <<>>
  BY <1>3, EmptyList
<1>6. PICK a \in Artifacts : MetadataMatches(a, entry) /\ callbacks = a.callbacks
  BY <1>5 DEF Source, Nothing, Said
<1>7. callbacks[i] \in ToSet(a.callbacks) /\ TwiceIn(a.callbacks, callbacks[i].id)
  BY <1>3, <1>4, <1>6 DEF ToSet, TwiceIn
<1> QED
  BY <1>4, <1>6, <1>7

\* Two places of one instance that hold one id.
LEMMA RepeatedPlaces ==
    ASSUME NEW instance, NEW nodes, nodes = instance.nodes, Numbered(nodes),
           \A n \in DOMAIN nodes : DOMAIN nodes[n].entities \subseteq Nat,
           NEW x \in RepeatedEntities(<<instance>>)
    PROVE  \E m, n \in DOMAIN nodes :
              \E j \in DOMAIN nodes[m].entities, k \in DOMAIN nodes[n].entities :
                 /\ m # n \/ j # k
                 /\ nodes[m].entities[j].id = x /\ nodes[n].entities[k].id = x
<1>1. PICK instances : instances = <<instance>>
  OBVIOUS
<1>2. DOMAIN instances = {1} /\ instances[1] = instance
  BY <1>1
<1>3. ASSUME NEW p \in Places(instances)
      PROVE  \E n \in DOMAIN nodes : \E k \in DOMAIN nodes[n].entities :
                /\ p = <<1, n, k>> /\ n \in Nat /\ k \in Nat
                /\ EntityAt(instances, p) = nodes[n].entities[k]
  <2>1. PICK i \in DOMAIN instances :
            \E n \in DOMAIN instances[i].nodes :
               \E k \in DOMAIN instances[i].nodes[n].entities : p = <<i, n, k>>
    BY DEF Places
  <2>2. i = 1 /\ instances[i].nodes = nodes
    BY <1>2
  <2>3. PICK n \in DOMAIN nodes : \E k \in DOMAIN nodes[n].entities : p = <<i, n, k>>
    BY <2>1, <2>2
  <2>4. PICK k \in DOMAIN nodes[n].entities : p = <<i, n, k>>
    BY <2>3
  <2>5. n \in Nat /\ k \in Nat
    BY DEF Numbered
  <2>6. p[1] = 1 /\ p[2] = n /\ p[3] = k
    BY <2>2, <2>4
  <2>7. EntityAt(instances, p) = nodes[n].entities[k]
    BY <2>2, <2>6 DEF EntityAt
  <2> QED
    BY <2>2, <2>4, <2>5, <2>7
<1>4. PICK p \in Places(instances) :
          /\ x = EntityAt(instances, p).id
          /\ \E q \in Places(instances) :
                Earlier(q, p) /\ EntityAt(instances, q).id = EntityAt(instances, p).id
  BY <1>1 DEF RepeatedEntities
<1>5. PICK q \in Places(instances) : Earlier(q, p) /\ EntityAt(instances, q).id = x
  BY <1>4
<1>6. PICK n \in DOMAIN nodes : \E k \in DOMAIN nodes[n].entities :
                /\ p = <<1, n, k>> /\ n \in Nat /\ k \in Nat
                /\ EntityAt(instances, p) = nodes[n].entities[k]
  BY <1>3
<1>7. PICK k \in DOMAIN nodes[n].entities :
                /\ p = <<1, n, k>> /\ n \in Nat /\ k \in Nat
                /\ EntityAt(instances, p) = nodes[n].entities[k]
  BY <1>6
<1>8. PICK m \in DOMAIN nodes : \E j \in DOMAIN nodes[m].entities :
                /\ q = <<1, m, j>> /\ m \in Nat /\ j \in Nat
                /\ EntityAt(instances, q) = nodes[m].entities[j]
  BY <1>3
<1>9. PICK j \in DOMAIN nodes[m].entities :
                /\ q = <<1, m, j>> /\ m \in Nat /\ j \in Nat
                /\ EntityAt(instances, q) = nodes[m].entities[j]
  BY <1>8
<1>10. m # n \/ j # k
  BY <1>5, <1>7, <1>9 DEF Earlier
<1> QED
  BY <1>4, <1>5, <1>7, <1>9, <1>10

\* An id an instance gives to two entities is one the artifact gives to two, or the
\* entity is in two nodes because those have one id.
LEMMA RepeatedEntity ==
    ASSUME NEW instance, NEW id, Parts(id), NEW nodes, NEW entities, NEW callbacks,
           Made(instance, id, nodes, entities, callbacks),
           NEW entry, Source(entry, nodes, entities, callbacks),
           NEW x \in RepeatedEntities(<<instance>>)
    PROVE  \E a \in Artifacts :
              /\ MetadataMatches(a, entry)
              /\ \E e \in ToSet(a.entities) :
                    /\ TwiceIn(a.entities, e.id) \/ \E n \in NodeIds(a) : NodeTwice(a, n)
                    /\ x = Append(id, e.id)
<1>1. PICK out : out = instance.nodes
  OBVIOUS
<1>2. DOMAIN out = DOMAIN nodes /\ Numbered(out)
  BY <1>1 DEF Made, IsList, Numbered
<1>3. ASSUME NEW n \in DOMAIN nodes
      PROVE  /\ DOMAIN out[n].entities \subseteq Nat
             /\ \E at : Follows(out[n].entities, entities, nodes[n].id, id, at)
  BY <1>1 DEF Made
<1>4. PICK m \in DOMAIN nodes, n \in DOMAIN nodes :
              \E j \in DOMAIN out[m].entities, k \in DOMAIN out[n].entities :
                 /\ m # n \/ j # k
                 /\ out[m].entities[j].id = x /\ out[n].entities[k].id = x
  BY <1>1, <1>2, <1>3, RepeatedPlaces
<1>5. PICK j \in DOMAIN out[m].entities, k \in DOMAIN out[n].entities :
                 /\ m # n \/ j # k
                 /\ out[m].entities[j].id = x /\ out[n].entities[k].id = x
  BY <1>4
\* The places in the artifact of the two.
<1>6. \E u, v \in DOMAIN entities :
          /\ x = Append(id, entities[u].id) /\ entities[u].id = entities[v].id
          /\ u # v \/ (m # n /\ nodes[m].id = nodes[n].id)
  <2>1. PICK f : Follows(out[m].entities, entities, nodes[m].id, id, f)
    BY <1>3
  <2>2. /\ f[j] \in DOMAIN entities /\ entities[f[j]].of = nodes[m].id
        /\ x = Append(id, entities[f[j]].id)
    BY <1>5, <2>1 DEF Follows
  <2>3. CASE m = n
    <3>1. /\ f[k] \in DOMAIN entities /\ x = Append(id, entities[f[k]].id) /\ f[j] # f[k]
      BY <1>5, <2>1, <2>3 DEF Follows
    <3>2. entities[f[j]].id = entities[f[k]].id
      BY <2>2, <3>1 DEF Parts
    <3> QED
      BY <2>2, <3>1, <3>2
  <2>4. CASE m # n
    <3>1. PICK g : Follows(out[n].entities, entities, nodes[n].id, id, g)
      BY <1>3
    <3>2. /\ g[k] \in DOMAIN entities /\ entities[g[k]].of = nodes[n].id
          /\ x = Append(id, entities[g[k]].id)
      BY <1>5, <3>1 DEF Follows
    <3>3. entities[f[j]].id = entities[g[k]].id
      BY <2>2, <3>2 DEF Parts
    <3>4. f[j] = g[k] => nodes[m].id = nodes[n].id
      BY <2>2, <3>2
    <3> QED
      BY <2>2, <2>4, <3>2, <3>3, <3>4
  <2> QED
    BY <2>3, <2>4
<1>7. PICK u \in DOMAIN entities, v \in DOMAIN entities :
          /\ x = Append(id, entities[u].id) /\ entities[u].id = entities[v].id
          /\ u # v \/ (m # n /\ nodes[m].id = nodes[n].id)
  BY <1>6
<1>8. entities # <<>>
  BY EmptyList
<1>9. PICK a \in Artifacts : MetadataMatches(a, entry) /\ Said(a, nodes, entities, callbacks)
  BY <1>8 DEF Source, Nothing
<1>10. PICK e : e = a.entities[u]
  OBVIOUS
<1>11. e \in ToSet(a.entities) /\ x = Append(id, e.id)
  BY <1>7, <1>9, <1>10 DEF Said, ToSet
<1>12. u # v => TwiceIn(a.entities, e.id)
  BY <1>7, <1>9, <1>10 DEF Said, TwiceIn
<1>13. m # n /\ nodes[m].id = nodes[n].id => NodeTwice(a, nodes[m].id) /\ nodes[m].id \in NodeIds(a)
  <2> SUFFICES ASSUME m # n, nodes[m].id = nodes[n].id
               PROVE  NodeTwice(a, nodes[m].id) /\ nodes[m].id \in NodeIds(a)
    OBVIOUS
  <2>1. /\ a.nodes # None /\ DOMAIN nodes = DOMAIN a.nodes
        /\ \A y \in DOMAIN nodes : nodes[y].id = a.nodes[y].id
    BY <1>9 DEF Said
  <2> QED
    BY <2>1 DEF NodeTwice, TwiceIn, NodeIds
<1> QED
  BY <1>7, <1>9, <1>11, <1>12, <1>13

\* A parameter is of the first node; only where the list of nodes is there and is empty
\* it is of none.
LEMMA LostParameter ==
    ASSUME NEW instance, NEW id, NEW nodes, NEW entities, NEW callbacks,
           Made(instance, id, nodes, entities, callbacks),
           NEW entry, Source(entry, nodes, entities, callbacks),
           NEW x \in instance.parameters,
           x.node \notin {instance.nodes[n].id : n \in DOMAIN instance.nodes}
    PROVE  \E a \in Artifacts : /\ MetadataMatches(a, entry) /\ a.nodes = <<>>
                                /\ x.node = Append(id, "node")
<1>1. nodes = <<>>
  <2> SUFFICES ASSUME nodes # <<>> PROVE FALSE
    OBVIOUS
  <2>1. 1 \in DOMAIN nodes
    <3>1. nodes \in Seq(ToSet(nodes)) /\ Len(nodes) \in Nat /\ DOMAIN nodes = 1..Len(nodes)
      BY DEF Made, IsList
    <3>2. Len(nodes) # 0
      BY <3>1
    <3> QED
      BY <3>1, <3>2
  <2>2. x.node = Append(id, nodes[1].id)
    BY DEF Made
  <2>3. instance.nodes[1].id = Append(id, nodes[1].id) /\ 1 \in DOMAIN instance.nodes
    BY <2>1 DEF Made
  <2> QED
    BY <2>2, <2>3
<1>2. x.node = Append(id, "node") /\ DOMAIN nodes = {}
  BY <1>1 DEF Made
<1>3. PICK a \in Artifacts : MetadataMatches(a, entry) /\ Said(a, nodes, entities, callbacks)
  BY <1>2 DEF Source, Nothing
<1>4. a.nodes # None /\ DOMAIN a.nodes = {}
  BY <1>2, <1>3 DEF Said
<1>5. a.nodes = <<>>
  <2>1. PICK s, S : s = a.nodes /\ S = ToSet(s)
    OBVIOUS
  <2>2. s \in Seq(S)
    BY <1>4, <2>1, ArtifactShape DEF IsList
  <2>3. Len(s) \in Nat /\ DOMAIN s = 1..Len(s)
    BY <2>2
  <2>4. Len(s) = 0
    <3>1. 1 \notin DOMAIN s
      BY <1>4, <2>1
    <3>2. PICK n \in Nat : n = Len(s) /\ DOMAIN s = 1..n
      BY <2>3
    <3> QED
      BY <3>1, <3>2
  <2> QED
    BY <2>1, <2>2, <2>4
<1> QED
  BY <1>2, <1>3, <1>5

\* What an entity of the instance is of, some matching artifact names.
LEMMA InterfaceSaid ==
    ASSUME NEW instance, NEW id, NEW nodes, NEW entities, NEW callbacks,
           Made(instance, id, nodes, entities, callbacks),
           NEW entry, Source(entry, nodes, entities, callbacks),
           NEW e \in InstanceEntities(instance), e.interface # None
    PROVE  e.interface \in InterfacesSaid(entry)
<1>1. PICK n \in DOMAIN instance.nodes : \E k \in DOMAIN instance.nodes[n].entities :
                                            e = instance.nodes[n].entities[k]
  BY DEF InstanceEntities, EntitiesOf
<1>2. PICK new : new = instance.nodes[n].entities
  OBVIOUS
<1>3. PICK k \in DOMAIN new : e = new[k]
  BY <1>1, <1>2
<1>4. PICK at : Follows(new, entities, nodes[n].id, id, at)
  BY <1>2 DEF Made
<1>5. at[k] \in DOMAIN entities /\ entities[at[k]].interface = e.interface
  BY <1>3, <1>4 DEF Follows
<1>6. entities # <<>>
  BY <1>5, EmptyList
<1>7. PICK a \in Artifacts : MetadataMatches(a, entry) /\ Said(a, nodes, entities, callbacks)
  BY <1>6 DEF Source, Nothing
<1>8. PICK x : x = a.entities[at[k]]
  OBVIOUS
<1>9. x \in ToSet(a.entities) /\ x.interface = e.interface
  BY <1>5, <1>7, <1>8 DEF Said, ToSet
<1>10. e.interface \in {y.interface : y \in ToSet(a.entities)} \ {None}
  BY <1>9
<1> QED
  BY <1>7, <1>10 DEF InterfacesSaid

-----------------------------------------------------------------------------
(* The interface table. *)

LEMMA FirstPlace ==
    ASSUME NEW P \in SUBSET (Nat \X Nat \X Nat), P # {}
    PROVE  \E p \in P : \A q \in P : ~Earlier(q, p)
<1> DEFINE first == {p[1] : p \in P}
<1>1. PICK i \in first : \A j \in first : i <= j
  <2>1. first \in SUBSET Nat /\ first # {}
    OBVIOUS
  <2> HIDE DEF first
  <2> QED
    BY <2>1, LeastNumber
<1> DEFINE second == {p[2] : p \in {q \in P : q[1] = i}}
<1>2. PICK n \in second : \A m \in second : n <= m
  <2>1. second \in SUBSET Nat /\ second # {}
    OBVIOUS
  <2> HIDE DEF second
  <2> QED
    BY <2>1, LeastNumber
<1> DEFINE third == {p[3] : p \in {q \in P : q[1] = i /\ q[2] = n}}
<1>3. PICK k \in third : \A j \in third : k <= j
  <2>1. third \in SUBSET Nat /\ third # {}
    OBVIOUS
  <2> HIDE DEF third
  <2> QED
    BY <2>1, LeastNumber
<1>4. PICK p \in P : p[1] = i /\ p[2] = n /\ p[3] = k
  OBVIOUS
<1>5. ASSUME NEW q \in P, Earlier(q, p) PROVE FALSE
  <2>1. /\ q[1] \in Nat /\ q[2] \in Nat /\ q[3] \in Nat /\ i \in Nat /\ n \in Nat /\ k \in Nat
    <3>1. \A r \in P : r[1] \in Nat /\ r[2] \in Nat /\ r[3] \in Nat
      OBVIOUS
    <3> QED
      BY <1>4, <3>1
  <2>3. i <= q[1]
    <3>1. q[1] \in first
      OBVIOUS
    <3> QED
      BY <1>1, <3>1
  <2>4. q[1] = i => n <= q[2]
    <3>1. q[1] = i => q[2] \in second
      OBVIOUS
    <3> QED
      BY <1>2, <3>1
  <2>5. q[1] = i /\ q[2] = n => k <= q[3]
    <3>1. q[1] = i /\ q[2] = n => q[3] \in third
      OBVIOUS
    <3> QED
      BY <1>3, <3>1
  <2>2. q[1] < i \/ (q[1] = i /\ (q[2] < n \/ (q[2] = n /\ q[3] < k)))
    BY <1>4, <1>5 DEF Earlier
  <2> HIDE DEF first, second, third
  <2> QED
    BY <2>1, <2>2, <2>3, <2>4, <2>5
<1> QED
  BY <1>5

\* Of two places the one is earlier, or they are the same.
LEMMA PlacesInOrder ==
    ASSUME NEW p \in Nat \X Nat \X Nat, NEW q \in Nat \X Nat \X Nat,
           ~Earlier(p, q), ~Earlier(q, p)
    PROVE  p = q
<1>1. p[1] = q[1] /\ p[2] = q[2] /\ p[3] = q[3]
  BY DEF Earlier
<1> QED
  BY <1>1

\* Instances, nodes and entities are numbered.
PlainInstances(instances) ==
    /\ Numbered(instances)
    /\ \A i \in DOMAIN instances :
          /\ Numbered(instances[i].nodes)
          /\ \A n \in DOMAIN instances[i].nodes : DOMAIN instances[i].nodes[n].entities \subseteq Nat

AllEntities(instances) == UNION {InstanceEntities(instances[i]) : i \in DOMAIN instances}

LEMMA PlacesOfEntities ==
    ASSUME NEW instances, PlainInstances(instances)
    PROVE  /\ Places(instances) \in SUBSET (Nat \X Nat \X Nat)
           /\ \A p \in Places(instances) : EntityAt(instances, p) \in AllEntities(instances)
           /\ \A e \in AllEntities(instances) :
                 \E p \in Places(instances) : EntityAt(instances, p) = e
<1>1. ASSUME NEW p \in Places(instances)
      PROVE  p \in Nat \X Nat \X Nat /\ EntityAt(instances, p) \in AllEntities(instances)
  <2>1. PICK i \in DOMAIN instances :
            \E n \in DOMAIN instances[i].nodes :
               \E k \in DOMAIN instances[i].nodes[n].entities : p = <<i, n, k>>
    BY DEF Places
  <2>2. PICK n \in DOMAIN instances[i].nodes :
            \E k \in DOMAIN instances[i].nodes[n].entities : p = <<i, n, k>>
    BY <2>1
  <2>3. PICK k \in DOMAIN instances[i].nodes[n].entities : p = <<i, n, k>>
    BY <2>2
  <2>4. i \in Nat /\ n \in Nat /\ k \in Nat
    BY DEF PlainInstances, Numbered
  <2>5. p[1] = i /\ p[2] = n /\ p[3] = k
    BY <2>3
  <2>6. instances[i].nodes[n].entities[k] \in InstanceEntities(instances[i])
    BY DEF InstanceEntities, EntitiesOf
  <2>7. EntityAt(instances, p) = instances[i].nodes[n].entities[k]
    BY <2>5 DEF EntityAt
  <2> QED
    BY <2>3, <2>4, <2>6, <2>7 DEF AllEntities
<1>2. ASSUME NEW e \in AllEntities(instances)
      PROVE  \E p \in Places(instances) : EntityAt(instances, p) = e
  <2>1. PICK i \in DOMAIN instances : e \in EntitiesOf(instances[i].nodes)
    BY DEF AllEntities, InstanceEntities
  <2>2. PICK n \in DOMAIN instances[i].nodes :
            \E k \in DOMAIN instances[i].nodes[n].entities :
               e = instances[i].nodes[n].entities[k]
    BY <2>1 DEF EntitiesOf
  <2>3. PICK k \in DOMAIN instances[i].nodes[n].entities :
            e = instances[i].nodes[n].entities[k]
    BY <2>2
  <2>4. PICK p : p = <<i, n, k>>
    OBVIOUS
  <2>5. p \in Places(instances)
    BY <2>4 DEF Places
  <2>6. p[1] = i /\ p[2] = n /\ p[3] = k
    BY <2>4
  <2>7. EntityAt(instances, p) = e
    BY <2>3, <2>6 DEF EntityAt
  <2> QED
    BY <2>5, <2>7
<1> QED
  BY <1>1, <1>2

Typed(instances) == {p \in Places(instances) : EntityAt(instances, p).interface # None}

Users(instances, p) ==
    {q \in Typed(instances) : InterfaceId(EntityAt(instances, q).interface)
                                = InterfaceId(EntityAt(instances, p).interface)}

Row(instances, p) ==
    [id |-> InterfaceId(EntityAt(instances, p).interface),
     interface |-> EntityAt(instances, p).interface,
     used_by |-> {EntityAt(instances, q).id : q \in Users(instances, p)}]

FirstOfItsName(instances, p) ==
    p \in Typed(instances) /\ \A q \in Users(instances, p) : ~Earlier(q, p)

LEMMA RowsOfTable ==
    ASSUME NEW instances, NEW f
    PROVE  f \in SchemaInterfaces(instances)
             <=> \E p : FirstOfItsName(instances, p) /\ f = Row(instances, p)
BY DEF SchemaInterfaces, FirstOfItsName, Row, Users, Typed

\* One row per name, of an interface some entity has; every entity that has one of that
\* name is among its users.
LEMMA TableIsSound ==
    ASSUME NEW instances, PlainInstances(instances),
           NEW rows, rows = SchemaInterfaces(instances)
    PROVE  /\ \A f, g \in rows : f.id = g.id => f = g
           /\ \A f \in rows : f.used_by \subseteq {e.id : e \in AllEntities(instances)}
           /\ \A f \in rows : \E e \in AllEntities(instances) :
                 e.interface = f.interface /\ e.interface # None /\ f.id = InterfaceId(e.interface)
           /\ \A e \in AllEntities(instances) : e.interface # None =>
                 \E f \in rows : f.id = InterfaceId(e.interface) /\ e.id \in f.used_by
<1> DEFINE at(p) == EntityAt(instances, p)
           named(p) == InterfaceId(at(p).interface)
<1>1. ASSUME NEW p, NEW f, f = Row(instances, p)
      PROVE  /\ f.id = named(p) /\ f.interface = at(p).interface
             /\ f.used_by = {at(q).id : q \in Users(instances, p)}
  BY <1>1 DEF Row
<1>2. ASSUME NEW p \in Typed(instances), NEW q \in Typed(instances), named(p) = named(q)
      PROVE  Users(instances, p) = Users(instances, q) /\ q \in Users(instances, p)
  BY <1>2 DEF Users
<1>3. Typed(instances) \in SUBSET (Nat \X Nat \X Nat)
  BY PlacesOfEntities DEF Typed
<1>4. ASSUME NEW f \in rows, NEW g \in rows, f.id = g.id PROVE f = g
  <2>1. PICK p : FirstOfItsName(instances, p) /\ f = Row(instances, p)
    BY RowsOfTable
  <2>2. PICK q : FirstOfItsName(instances, q) /\ g = Row(instances, q)
    BY RowsOfTable
  <2>3. p \in Typed(instances) /\ q \in Typed(instances)
    BY <2>1, <2>2 DEF FirstOfItsName
  <2>4. named(p) = named(q)
    BY <1>1, <1>4, <2>1, <2>2
  <2> HIDE DEF named
  <2>5. q \in Users(instances, p) /\ p \in Users(instances, q)
    BY <1>2, <2>3, <2>4
  <2>6. ~Earlier(q, p) /\ ~Earlier(p, q)
    BY <2>1, <2>2, <2>5 DEF FirstOfItsName
  <2>7. p = q
    BY <1>3, <2>3, <2>6, PlacesInOrder
  <2> QED
    BY <2>1, <2>2, <2>7
<1>5. ASSUME NEW f \in rows
      PROVE  /\ f.used_by \subseteq {e.id : e \in AllEntities(instances)}
             /\ \E e \in AllEntities(instances) :
                   e.interface = f.interface /\ e.interface # None /\ f.id = InterfaceId(e.interface)
  <2>1. PICK p : FirstOfItsName(instances, p) /\ f = Row(instances, p)
    BY RowsOfTable
  <2>2. \A q \in Users(instances, p) : at(q) \in AllEntities(instances)
    BY PlacesOfEntities DEF Users, Typed
  <2>3. at(p) \in AllEntities(instances) /\ at(p).interface # None
    BY <2>1, PlacesOfEntities DEF FirstOfItsName, Typed
  <2> QED
    BY <1>1, <2>1, <2>2, <2>3
<1>6. ASSUME NEW e \in AllEntities(instances), e.interface # None
      PROVE  \E f \in rows : f.id = InterfaceId(e.interface) /\ e.id \in f.used_by
  <2>1. PICK q \in Places(instances) : at(q) = e
    BY PlacesOfEntities
  <2>2. q \in Typed(instances)
    BY <1>6, <2>1 DEF Typed
  <2>3. q \in Users(instances, q) /\ Users(instances, q) \in SUBSET (Nat \X Nat \X Nat)
    BY <1>2, <1>3, <2>2 DEF Users
  <2>4. PICK p \in Users(instances, q) : \A r \in Users(instances, q) : ~Earlier(r, p)
    BY <2>3, FirstPlace
  <2>5. p \in Typed(instances) /\ named(p) = named(q)
    BY <2>4 DEF Users
  <2>6. Users(instances, p) = Users(instances, q)
    BY <1>2, <2>2, <2>5
  <2>7. FirstOfItsName(instances, p)
    BY <2>4, <2>5, <2>6 DEF FirstOfItsName
  <2>8. PICK f : f = Row(instances, p)
    OBVIOUS
  <2>9. f \in rows
    BY <2>7, <2>8, RowsOfTable
  <2>10. /\ f.id = named(p) /\ f.interface = at(p).interface
         /\ f.used_by = {at(r).id : r \in Users(instances, p)}
    BY <1>1, <2>8
  <2> QED
    BY <2>1, <2>3, <2>5, <2>6, <2>9, <2>10
<1> QED
  BY <1>4, <1>5, <1>6

-----------------------------------------------------------------------------
(* The other tables, and the check. *)

LEMMA ComponentsSound ==
    ASSUME NEW artifacts \in Seq(Loads), NEW components,
           components = SchemaComponents(artifacts)
    PROVE  /\ \A c, d \in components : c.id = d.id => c = d
           /\ \A k \in DOMAIN artifacts :
                 \E c \in components : c.id = ComponentId(artifacts[k])
<1> DEFINE name(k) == ComponentId(artifacts[k])
           firsts == {k \in DOMAIN artifacts : \A j \in 1..(k - 1) : name(j) # name(k)}
<1>1. components = {[id |-> name(k), source |-> artifacts[k].path] : k \in firsts}
  BY DEF SchemaComponents
<1>2. DOMAIN artifacts = 1..Len(artifacts) /\ Len(artifacts) \in Nat
  OBVIOUS
<1>3. ASSUME NEW j \in firsts, NEW k \in firsts, name(j) = name(k) PROVE j = k
  <2>1. j \in 1..(k - 1) \/ k \in 1..(j - 1) \/ j = k
    BY <1>2
  <2> HIDE DEF name
  <2> QED
    BY <1>3, <2>1
<1>4. ASSUME NEW c \in components, NEW d \in components, c.id = d.id PROVE c = d
  <2>1. PICK j \in firsts : c = [id |-> name(j), source |-> artifacts[j].path]
    BY <1>1
  <2>2. PICK k \in firsts : d = [id |-> name(k), source |-> artifacts[k].path]
    BY <1>1
  <2>3. name(j) = name(k)
    BY <1>4, <2>1, <2>2
  <2> HIDE DEF name, firsts
  <2> QED
    BY <1>3, <2>1, <2>2, <2>3
<1>5. ASSUME NEW k \in DOMAIN artifacts PROVE \E c \in components : c.id = name(k)
  <2> DEFINE same == {j \in DOMAIN artifacts : name(j) = name(k)}
  <2>1. same \in SUBSET Nat /\ same # {}
    BY <1>2
  <2>2. PICK j \in same : \A m \in same : j <= m
    <3> HIDE DEF same
    <3> QED
      BY <2>1, LeastNumber
  <2>3. j \in DOMAIN artifacts /\ name(j) = name(k)
    OBVIOUS
  <2>4. ASSUME NEW m \in 1..(j - 1) PROVE name(m) # name(j)
    <3>1. m \in DOMAIN artifacts /\ m < j
      BY <1>2, <2>3
    <3>2. name(m) = name(k) => j <= m
      BY <2>2, <3>1
    <3> HIDE DEF name
    <3> QED
      BY <1>2, <2>3, <3>1, <3>2
  <2>5. j \in firsts
    BY <2>3, <2>4
  <2>6. PICK c : c = [id |-> name(j), source |-> artifacts[j].path]
    OBVIOUS
  <2>7. c \in components
    BY <1>1, <2>5, <2>6
  <2> QED
    BY <2>3, <2>6, <2>7
<1> QED
  BY <1>4, <1>5

\* Instances of one package and executable are told apart by how many come before.
LEMMA InstancesApart ==
    ASSUME NEW l \in Launch, NEW launched, launched = Launched(Record[l]),
           NEW i \in DOMAIN launched, NEW j \in DOMAIN launched,
           InstanceId(launched, i) = InstanceId(launched, j),
           launched[i].package = launched[j].package,
           launched[i].executable = launched[j].executable
    PROVE  i = j
<1>1. PICK T : launched \in Seq(T)
  BY LaunchedIsList
<1>3. Cardinality(Before(launched, i)) = Cardinality(Before(launched, j))
  BY DEF InstanceId
<1>4. ASSUME NEW x \in DOMAIN launched, NEW y \in DOMAIN launched, x < y,
             launched[x].package = launched[y].package,
             launched[x].executable = launched[y].executable
      PROVE  Cardinality(Before(launched, x)) # Cardinality(Before(launched, y))
  <2>1. x \in Nat /\ y \in Nat /\ x >= 1
    BY <1>1
  <2>2. Before(launched, y) \subseteq 1..(y - 1) /\ IsFiniteSet(1..(y - 1))
    <3>1. PICK n \in Int : n = y - 1
      BY <2>1
    <3>2. IsFiniteSet(1..n)
      BY <3>1, FS_Interval
    <3> QED
      BY <3>1, <3>2 DEF Before
  <2>3. IsFiniteSet(Before(launched, y))
    BY <2>2, FS_Subset
  <2>4. Before(launched, x) \subseteq Before(launched, y)
    BY <1>4, <2>1 DEF Before
  <2>5. x \in Before(launched, y) /\ x \notin Before(launched, x)
    BY <1>4, <2>1 DEF Before
  <2> QED
    BY <2>3, <2>4, <2>5, FS_Subset
<1>5. i \in Nat /\ j \in Nat
  BY <1>1
<1> QED
  BY <1>3, <1>4, <1>5

\* An id the instances have twice is one that sanitising makes of two names.
LEMMA InstancesRepeated ==
    ASSUME NEW l \in Launch, NEW launched, launched = Launched(Record[l]),
           NEW s, DOMAIN s = DOMAIN launched, Numbered(s),
           \A i \in DOMAIN launched : s[i] = InstanceId(launched, i),
           NEW x \in Repeats(s)
    PROVE  \E i, j \in DOMAIN launched :
              /\ s[i] = x /\ s[j] = x
              /\ <<launched[i].package, launched[i].executable>>
                   # <<launched[j].package, launched[j].executable>>
<1>1. PICK i \in DOMAIN launched, j \in DOMAIN launched : i # j /\ s[i] = x /\ s[j] = x
  BY RepeatOf
<1>2. InstanceId(launched, i) = InstanceId(launched, j)
  BY <1>1
<1>3. launched[i].package # launched[j].package \/ launched[i].executable # launched[j].executable
  BY <1>1, <1>2, InstancesApart
<1> QED
  BY <1>1, <1>3

\* What the check finds in a plan is of the input.
LEMMA PlanPasses ==
    ASSUME NEW l \in Launch, NEW artifacts, NEW p, MadeFor(p, l, artifacts),
           NEW launched, launched = Launched(Record[l]),
           NEW problem \in ValidatePlan(p)
    PROVE  ProblemOfInput(problem, launched, p.instances)
<1>1. PICK T : launched \in Seq(T)
  BY LaunchedIsList
<1>2. PICK instances : instances = p.instances
  OBVIOUS
<1>3. /\ artifacts \in Seq(Loads)
      /\ instances = [i \in DOMAIN launched |-> SchemaInstance(launched, i, artifacts)]
      /\ p.components = SchemaComponents(artifacts)
      /\ p.interfaces = SchemaInterfaces(instances)
      /\ p.contexts = SchedContexts(instances)
  BY <1>2 DEF MadeFor, SchemaPlan
<1>4. DOMAIN instances = DOMAIN launched /\ Numbered(instances)
  BY <1>1, <1>3 DEF Numbered
<1>5. ASSUME NEW i \in DOMAIN launched
      PROVE  /\ instances[i].id = InstanceId(launched, i)
             /\ instances[i].component = <<launched[i].package, launched[i].executable>>
             /\ instances[i].source = IF FindMetadata(artifacts, launched[i]) = None THEN None
                                      ELSE FindMetadata(artifacts, launched[i]).path
  BY <1>3 DEF SchemaInstance
\* Each instance is made of what was found for its entry.
<1>6. ASSUME NEW i \in DOMAIN launched
      PROVE  \E nodes, entities, callbacks :
                /\ Made(instances[i], instances[i].id, nodes, entities, callbacks)
                /\ Source(launched[i], nodes, entities, callbacks)
  <2>1. PICK instance, entry, artifact :
          /\ instance = instances[i] /\ entry = launched[i]
          /\ artifact = FindMetadata(artifacts, entry)
    OBVIOUS
  <2>2. PICK nodes, entities, callbacks :
          /\ nodes = SourceNodes(artifact, entry) /\ entities = SourceEntities(artifact, entry)
          /\ callbacks = SourceCallbacks(artifact)
    OBVIOUS
  <2>3. /\ IsList(nodes) /\ EntityList(entities) /\ IsList(callbacks)
        /\ Source(entry, nodes, entities, callbacks)
    BY <1>3, <2>1, <2>2, InputOf DEF Source
  <2>4. instance = SchemaInstance(launched, i, artifacts)
    BY <1>3, <2>1
  <2>5. Made(instance, InstanceId(launched, i), nodes, entities, callbacks)
    BY <2>1, <2>2, <2>3, <2>4, InstanceMade
  <2> QED
    BY <1>5, <2>1, <2>3, <2>5
<1>7. PlainInstances(instances)
  <2>1. ASSUME NEW i \in DOMAIN instances
        PROVE  /\ Numbered(instances[i].nodes)
               /\ \A n \in DOMAIN instances[i].nodes :
                     DOMAIN instances[i].nodes[n].entities \subseteq Nat
    <3>1. PICK nodes, entities, callbacks :
              Made(instances[i], instances[i].id, nodes, entities, callbacks)
      BY <1>4, <1>6
    <3> QED
      BY <3>1 DEF Made, IsList, Numbered
  <2> QED
    BY <1>4, <2>1 DEF PlainInstances
<1>8. PICK rows : rows = SchemaInterfaces(instances)
  OBVIOUS
<1>9. /\ \A f, g \in rows : f.id = g.id => f = g
      /\ \A f \in rows : f.used_by \subseteq {e.id : e \in AllEntities(instances)}
      /\ \A f \in rows : \E e \in AllEntities(instances) :
            e.interface = f.interface /\ e.interface # None /\ f.id = InterfaceId(e.interface)
      /\ \A e \in AllEntities(instances) : e.interface # None =>
            \E f \in rows : f.id = InterfaceId(e.interface) /\ e.id \in f.used_by
  BY <1>7, <1>8, TableIsSound
<1>10. ASSUME problem \in InterfaceProblems(p) PROVE ProblemOfInput(problem, launched, instances)
  <2>1. p.interfaces = rows /\ p.instances = instances
    BY <1>2, <1>3, <1>8
  <2>2. PICK e \in AllEntities(instances), f \in rows :
            /\ problem.code = "interface-ref-mismatch"
            /\ e.interface # None /\ f.id = InterfaceId(e.interface)
            /\ f.interface # e.interface
    <3>1. \/ \E f \in rows : ~(f.used_by \subseteq {e.id : e \in AllEntities(instances)})
          \/ \E e \in AllEntities(instances) :
                /\ e.interface # None
                /\ \/ \A f \in rows : f.id # InterfaceId(e.interface)
                   \/ /\ problem = Problem("interface-ref-mismatch", e.id)
                      /\ \E f \in rows : f.id = InterfaceId(e.interface) /\ f.interface # e.interface
                   \/ \A f \in rows : f.id = InterfaceId(e.interface) => e.id \notin f.used_by
      BY <1>10, <2>1 DEF InterfaceProblems, AllEntities
    <3> QED
      BY <1>9, <3>1 DEF Problem
  <2>3. PICK d \in AllEntities(instances) :
            d.interface = f.interface /\ d.interface # None /\ f.id = InterfaceId(d.interface)
    BY <1>9
  <2>4. ASSUME NEW x \in AllEntities(instances), x.interface # None
        PROVE  \E i \in DOMAIN launched : x.interface \in InterfacesSaid(launched[i])
    <3>1. PICK i \in DOMAIN launched : x \in InstanceEntities(instances[i])
      BY <1>4 DEF AllEntities
    <3>2. PICK nodes, entities, callbacks :
              /\ Made(instances[i], instances[i].id, nodes, entities, callbacks)
              /\ Source(launched[i], nodes, entities, callbacks)
      BY <1>6
    <3>3. PICK instance, entry : instance = instances[i] /\ entry = launched[i]
      OBVIOUS
    <3>4. x.interface \in InterfacesSaid(entry)
      BY <2>4, <3>1, <3>2, <3>3, InterfaceSaid
    <3> QED
      BY <3>3, <3>4
  <2>5. PICK i \in DOMAIN launched : e.interface \in InterfacesSaid(launched[i])
    BY <2>2, <2>4
  <2>6. PICK j \in DOMAIN launched : d.interface \in InterfacesSaid(launched[j])
    BY <2>3, <2>4
  <2>7. e.interface # d.interface /\ InterfaceId(e.interface) = InterfaceId(d.interface)
    BY <2>2, <2>3
  <2> QED
    BY <2>2, <2>5, <2>6, <2>7 DEF ProblemOfInput
<1>11. ASSUME problem \in TableProblems(p) PROVE ProblemOfInput(problem, launched, instances)
  <2>1. \A c, d \in p.components : c.id = d.id => c = d
    BY <1>3, ComponentsSound
  <2>2. \A f, g \in p.interfaces : f.id = g.id => f = g
    BY <1>3, <1>8, <1>9
  <2>3. PICK s : s = [i \in DOMAIN instances |-> instances[i].id]
    OBVIOUS
  <2>4. DOMAIN s = DOMAIN launched /\ \A i \in DOMAIN launched : s[i] = InstanceId(launched, i)
    BY <1>4, <1>5, <2>3
  <2>5. Numbered(s)
    BY <1>4, <2>4 DEF Numbered
  <2>6. PICK x \in Repeats(s) : problem = Problem("duplicate-instance-id", x)
    BY <1>2, <1>11, <2>1, <2>2, <2>3 DEF TableProblems
  <2>7. PICK i \in DOMAIN launched, j \in DOMAIN launched :
            /\ s[i] = x /\ s[j] = x
            /\ <<launched[i].package, launched[i].executable>>
                 # <<launched[j].package, launched[j].executable>>
    BY <2>4, <2>5, InstancesRepeated
  <2>8. instances[i].id = x /\ instances[j].id = x
    BY <1>4, <2>3, <2>7
  <2> QED
    BY <2>6, <2>7, <2>8 DEF ProblemOfInput
<1>12. ASSUME NEW i \in DOMAIN launched, problem \in InstanceProblems(p, instances[i])
       PROVE  ProblemOfInput(problem, launched, instances)
  <2>1. PICK instance, entry, artifact :
          /\ instance = instances[i] /\ entry = launched[i]
          /\ artifact = FindMetadata(artifacts, entry)
    OBVIOUS
  <2>2. PICK id : id = instance.id
    OBVIOUS
  <2>3. Parts(id)
    BY <1>5, <2>1, <2>2, InstanceIdParts
  <2>4. PICK nodes, entities, callbacks :
          Made(instance, id, nodes, entities, callbacks) /\ Source(entry, nodes, entities, callbacks)
    BY <1>6, <2>1, <2>2
  <2>5. \/ /\ problem = Problem("missing-component-reference", id)
           /\ instance.component \notin {c.id : c \in p.components}
        \/ \E x \in Repeats([n \in DOMAIN instance.nodes |-> instance.nodes[n].id]) :
              problem = Problem("duplicate-node-id", x)
        \/ \E x \in RepeatedEntities(<<instance>>) : problem = Problem("duplicate-entity-id", x)
        \/ \E x \in Repeats([k \in DOMAIN instance.callbacks |-> instance.callbacks[k].id]) :
              problem = Problem("duplicate-callback-id", x)
        \/ \E c \in CallbacksOf(<<instance>>) : c.context \notin p.contexts
        \/ \E x \in instance.parameters :
              /\ x.node \notin {instance.nodes[n].id : n \in DOMAIN instance.nodes}
              /\ problem = Problem("missing-parameter-node", x.node)
    BY <1>12, <2>1, <2>2 DEF InstanceProblems
  <2>6. CASE /\ problem = Problem("missing-component-reference", id)
             /\ instance.component \notin {c.id : c \in p.components}
    <3>1. CASE artifact = None
      <4>1. entry.kind = "container"
        BY <2>1, <3>1 DEF MadeFor, Plannable
      <4>2. instance.source = None
        BY <1>5, <2>1, <3>1
      <4> QED
        BY <2>1, <2>2, <2>6, <4>1, <4>2 DEF ProblemOfInput
    <3>2. CASE artifact # None
      <4>1. PICK k \in DOMAIN artifacts :
                artifact = artifacts[k] /\ MetadataMatches(artifacts[k], entry)
        BY <1>3, <2>1, <3>2, MetadataFound
      <4>2. ComponentId(artifact) # <<entry.package, entry.executable>>
        <5>1. \E c \in p.components : c.id = ComponentId(artifact)
          BY <1>3, <4>1, ComponentsSound
        <5>2. instance.component = <<entry.package, entry.executable>>
          BY <1>5, <2>1
        <5> QED
          BY <2>6, <5>1, <5>2
      <4>3. \E a \in Artifacts : MetadataMatches(a, entry) /\ ComponentId(a) = ComponentId(artifact)
        <5>1. PICK x, y, z : /\ x = SourceNodes(artifact, entry) /\ y = SourceEntities(artifact, entry)
                             /\ z = SourceCallbacks(artifact)
          OBVIOUS
        <5> QED
          BY <1>3, <2>1, <3>2, <5>1, InputOf
      <4>4. OtherwiseNamed(entry)
        BY <4>2, <4>3 DEF OtherwiseNamed
      <4> QED
        BY <2>1, <2>2, <2>6, <4>4 DEF ProblemOfInput
    <3> QED
      BY <3>1, <3>2
  <2>7. ASSUME NEW x, x \in Repeats([n \in DOMAIN instance.nodes |-> instance.nodes[n].id]),
               problem = Problem("duplicate-node-id", x)
        PROVE  ProblemOfInput(problem, launched, instances)
    <3>1. PICK s : s = [n \in DOMAIN instance.nodes |-> instance.nodes[n].id]
      OBVIOUS
    <3>2. /\ DOMAIN s = DOMAIN instance.nodes /\ \A n \in DOMAIN s : s[n] = instance.nodes[n].id
          /\ x \in Repeats(s)
      BY <2>7, <3>1
    <3>3. NodeSaidTwice(entry, id, x)
      BY <2>3, <2>4, <3>2, RepeatedNode
    <3> QED
      BY <2>1, <2>2, <2>7, <3>3 DEF ProblemOfInput, NodeSaidTwice
  <2>8. ASSUME NEW x \in RepeatedEntities(<<instance>>), problem = Problem("duplicate-entity-id", x)
        PROVE  ProblemOfInput(problem, launched, instances)
    <3>1. PICK a \in Artifacts :
              /\ MetadataMatches(a, entry)
              /\ \E e \in ToSet(a.entities) :
                    /\ TwiceIn(a.entities, e.id) \/ \E n \in NodeIds(a) : NodeTwice(a, n)
                    /\ x = Append(id, e.id)
      BY <2>3, <2>4, RepeatedEntity
    <3> QED
      BY <2>1, <2>2, <2>8, <3>1 DEF ProblemOfInput
  <2>9. ASSUME NEW x, x \in Repeats([k \in DOMAIN instance.callbacks |-> instance.callbacks[k].id]),
               problem = Problem("duplicate-callback-id", x)
        PROVE  ProblemOfInput(problem, launched, instances)
    <3>1. PICK s : s = [k \in DOMAIN instance.callbacks |-> instance.callbacks[k].id]
      OBVIOUS
    <3>2. /\ DOMAIN s = DOMAIN instance.callbacks /\ \A k \in DOMAIN s : s[k] = instance.callbacks[k].id
          /\ x \in Repeats(s)
      BY <2>9, <3>1
    <3>3. PICK a \in Artifacts : /\ MetadataMatches(a, entry)
                                 /\ \E c \in ToSet(a.callbacks) :
                                       TwiceIn(a.callbacks, c.id) /\ x = Append(id, c.id)
      BY <2>3, <2>4, <3>2, RepeatedCallback
    <3> QED
      BY <2>1, <2>2, <2>9, <3>3 DEF ProblemOfInput
  <2>10. ASSUME NEW c \in CallbacksOf(<<instance>>) PROVE c.context \in p.contexts
    <3>1. PICK k \in DOMAIN instance.callbacks : c = instance.callbacks[k]
      <4>1. PICK single : single = <<instance>>
        OBVIOUS
      <4>2. DOMAIN single = {1} /\ single[1] = instance
        BY <4>1
      <4> QED
        BY <4>1, <4>2 DEF CallbacksOf
    <3>2. c \in CallbacksOf(instances)
      BY <1>4, <2>1, <3>1 DEF CallbacksOf
    <3>3. c.context \in Tier \cup {DefaultTier}
      BY <2>4, <3>1 DEF Made
    <3> QED
      BY <1>3, <3>2, <3>3 DEF SchedContexts
  <2>11. ASSUME NEW x \in instance.parameters,
                x.node \notin {instance.nodes[n].id : n \in DOMAIN instance.nodes},
                problem = Problem("missing-parameter-node", x.node)
         PROVE  ProblemOfInput(problem, launched, instances)
    <3>1. PICK a \in Artifacts : /\ MetadataMatches(a, entry) /\ a.nodes = <<>>
                                 /\ x.node = Append(id, "node")
      BY <2>4, <2>11, LostParameter
    <3> QED
      BY <2>1, <2>2, <2>11, <3>1 DEF ProblemOfInput
  <2> QED
    BY <2>5, <2>6, <2>7, <2>8, <2>9, <2>10, <2>11
<1>13. \/ problem \in TableProblems(p) \/ problem \in InterfaceProblems(p)
       \/ \E i \in DOMAIN launched : problem \in InstanceProblems(p, instances[i])
  BY <1>2, <1>4 DEF ValidatePlan
<1> QED
  BY <1>2, <1>10, <1>11, <1>12, <1>13

\* What `nros check` (validate_plan) finds wrong with what `nros plan` wrote was wrong with
\* its input, whatever mix of packages' files, stale copies and Cargo.toml tables the plan
\* was made of.
THEOREM PlansPassCheck == PnSpec => []PlannedPassesCheck
<1>1. PlInv => PlannedPassesCheck
  <2> SUFFICES ASSUME PlInv, IsPlan(plan) PROVE PlannedPassesCheck
    BY DEF PlannedPassesCheck
  <2>1. PICK l \in Launch : \E artifacts : MadeFor(plan, l, artifacts)
    BY DEF PlInv, PlanMade, IsPlan
  <2>2. PICK artifacts : MadeFor(plan, l, artifacts)
    BY <2>1
  <2>3. PICK launched : launched = Launched(Record[l])
    OBVIOUS
  <2>4. PICK p : p = plan
    OBVIOUS
  <2>5. MadeFor(p, l, artifacts) /\ p.launch = l
    BY <2>2, <2>4 DEF MadeFor, SchemaPlan
  <2>6. ASSUME NEW problem \in ValidatePlan(p)
        PROVE  ProblemOfInput(problem, launched, p.instances)
    BY <2>3, <2>5, PlanPasses
  <2> QED
    BY <2>3, <2>4, <2>5, <2>6 DEF PlannedPassesCheck
<1> QED
  BY <1>1, PlInvHolds, PTL
=============================================================================
