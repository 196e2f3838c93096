---------------------------- MODULE LaunchParser ----------------------------
(***************************************************************************)
(* nros-build's reader of ROS 2 launch files (parse_launch_file): the      *)
(* event loop of quick-xml over one file, the stack of open elements, the  *)
(* scope of launch arguments with its substitutions, and the recursion     *)
(* into included files.                                                    *)
(*                                                                         *)
(* A file is a sequence of XML events.  It is written while it is read:    *)
(* when the parser asks for an event nobody has chosen yet, any event of   *)
(* the catalogue that keeps the file well-formed may come, and a file that *)
(* is included twice reads the same both times.  An attribute value is a   *)
(* sequence of pieces, literal text or a substitution; a literal is a name *)
(* or path, [abs, segs].  An optional attribute is a set of at most one    *)
(* value.                                                                  *)
(***************************************************************************)
EXTENDS Naturals, Sequences, SequencesExt, FiniteSets, FiniteSetsExt

CONSTANTS
    Files,      \* the launch files a path of these modules can name
    Main,       \* the file parse_launch_file is called with
    ArgNames,   \* names of launch arguments
    Starts,     \* the catalogue: start and empty elements a file may hold
    Overrides,  \* the args_override lists a caller may pass
    Index,      \* package name -> directory (a literal), the PkgIndex
    Env,        \* name -> set of at most one literal, the environment
    PathOf,     \* literal -> set of at most one file: what exists on disk
    MaxDepth,   \* MAX_INCLUDE_DEPTH, scaled
    MaxEvents   \* bound: elements chosen for all files together

ASSUME LaunchAssumption ==
    /\ Main \in Files /\ MaxDepth \in Nat \ {0} /\ MaxEvents \in Nat
    /\ \A e \in Starts : e.on \in {"start", "empty"}

VARIABLES
    text,   \* file -> the events it holds as far as they are known
    calls,  \* the parse_file calls that are active, innermost last
    stage,  \* "idle" | "parsing" | "ok" | "failed"
    answer, \* the nodes and groups parse_launch_file returned
    called  \* the args_override of the call

lpVars == <<text, calls, stage, answer, called>>

End(tag) == [on |-> "end", tag |-> tag]
Root == [on |-> "start", tag |-> "launch"]

Chosen(t) == SelectSeq(t, LAMBDA e : e.on # "end" /\ e.tag # "launch")
EventsLeft == MaxEvents - FoldSet(LAMBDA f, n : n + Len(Chosen(text[f])), 0, Files)

(* The elements open after the first n events of t: their positions. *)
OpenAt(t, n) ==
    LET open[k \in 0..n] ==
            IF k = 0 THEN <<>>
            ELSE LET before == open[k - 1]
                 IN  CASE t[k].on = "start" -> Append(before, k)
                       [] t[k].on = "end" -> Front(before)
                       [] OTHER -> before
    IN  open[n]

(* What the reader may return after t: the writer opens with <launch>,     *)
(* closes what it opened in order, stops after </launch>, and puts no      *)
(* node, group or include into a node or an include.                       *)
Nests(tag, e) == tag \in {"launch", "group"} \/ e.tag \notin {"node", "group", "include"}

Continuations(t) ==
    IF t = <<>> THEN {Root}
    ELSE LET open == OpenAt(t, Len(t))
         IN  IF open = <<>> THEN {}
             ELSE LET tag == t[Last(open)].tag
                  IN  {End(tag)} \cup
                      (IF EventsLeft > 0 THEN {e \in Starts : Nests(tag, e)} ELSE {})

-----------------------------------------------------------------------------
(* Arguments and substitutions. *)

Unset == [n \in ArgNames |-> {}]

Lookup(scope, n) == IF scope.over[n] # {} THEN scope.over[n] ELSE scope.vals[n]

(* record_arg: an override beats value=, the last value= beats default=,   *)
(* the first default= beats later ones.                                    *)
RecordArg(scope, arg) ==
    IF scope.over[arg.name] # {} THEN scope
    ELSE IF arg.value # {} THEN [scope EXCEPT !.vals[arg.name] = arg.value]
    ELSE IF scope.vals[arg.name] = {} THEN [scope EXCEPT !.vals[arg.name] = arg.default]
    ELSE scope

Passed(scope, args) ==
    FoldLeft(LAMBDA o, a : [o EXCEPT ![a.name] = {a.value}], scope.over, args)

ChildKeepingValues(scope, args) == [over |-> Passed(scope, args), vals |-> scope.vals]

(* The include's scope: the parent's overrides, then the include's <arg>   *)
(* children over them, and no values.                                      *)
ChildForInclude(scope, args) == [over |-> Passed(scope, args), vals |-> Unset]

ResolveSubstitution(piece, scope) ==
    CASE piece.verb = "text" -> {piece.lit}
      [] piece.verb = "var" -> Lookup(scope, piece.of)
      [] piece.verb = "env" -> Env[piece.of]
      [] piece.verb = "find" -> IF piece.of \in DOMAIN Index THEN {Index[piece.of]} ELSE {}
      [] OTHER -> {}

(* {} when a piece cannot be resolved, a nested or unterminated `$(`       *)
(* included: substitute fails and so does the parse.                       *)
Substitute(value, scope) ==
    FoldLeft(LAMBDA sofar, piece :
                 {[abs |-> IF a.segs = <<>> /\ ~a.abs THEN b.abs ELSE a.abs,
                   segs |-> a.segs \o b.segs] :
                     a \in sofar, b \in ResolveSubstitution(piece, scope)},
             {[abs |-> FALSE, segs |-> <<>>]}, value)

(* An optional attribute: {} when it is absent. *)
SubstituteAll(values, scope) == UNION {Substitute(v, scope) : v \in values}

Attrs(e) == e.values \cup e.defaults \cup e.ns \cup e.file
Resolvable(e, scope) == \A v \in Attrs(e) : Substitute(v, scope) # {}

JoinNamespace(group, child) ==
    IF child = {} THEN group
    ELSE {IF c.abs THEN c ELSE [abs |-> g.abs, segs |-> g.segs \o c.segs] :
             g \in group, c \in child}

(* The file an include names: relative to the directory of the file that   *)
(* includes it, and all of Files are in one directory.                     *)
Included(lit) == PathOf[lit]

-----------------------------------------------------------------------------
(* One parse_file call: the event it is at, its scope, the frames open in  *)
(* it and the description it has built.                                    *)

Call(file, scope) ==
    [file |-> file, at |-> 0, scope |-> scope, walked |-> 0,
     frames |-> <<[is |-> "root"]>>,
     nodes |-> <<>>, groups |-> <<>>, includes |-> <<>>]

Stack == [i \in 1..Len(calls) |-> calls[i].file]
Now == Last(calls)
TopOf(c) == IF c.frames = <<>> THEN [is |-> "none"] ELSE Last(c.frames)
Top == TopOf(Now)
Put(c) == calls' = Append(Front(calls), c)
Fail == /\ stage' = "failed" /\ calls' = <<>> /\ UNCHANGED <<answer, called>>

PopFrame(c) == [c EXCEPT !.frames = Front(c.frames)]
OnTop(c, frame) == [c EXCEPT !.frames = Append(Front(c.frames), frame)]
PushFrame(c, frame) == [c EXCEPT !.frames = Append(c.frames, frame)]

AttachNode(c, n) ==
    LET top == TopOf(c)
    IN  IF top.is = "group" THEN OnTop(c, [top EXCEPT !.nodes = Append(@, n)])
        ELSE [c EXCEPT !.nodes = Append(@, n)]

(* The group's namespace goes before each child's; a nested group gives    *)
(* its nodes to the parent group and is gone, with its remaps and includes.*)
Prefixed(g) ==
    IF g.ns = {} THEN g.nodes
    ELSE [i \in 1..Len(g.nodes) |->
             [g.nodes[i] EXCEPT !.ns = JoinNamespace(g.ns, @)]]

AttachGroup(c, g) ==
    LET top == TopOf(c)
    IN  IF top.is = "group" THEN OnTop(c, [top EXCEPT !.nodes = @ \o Prefixed(g)])
        ELSE [c EXCEPT !.groups = Append(@, [g EXCEPT !.nodes = Prefixed(g)])]

AttachInclude(c, i) ==
    LET top == TopOf(c)
    IN  IF top.is = "group" THEN OnTop(c, [top EXCEPT !.includes = Append(@, i)])
        ELSE [c EXCEPT !.includes = Append(@, i)]

-----------------------------------------------------------------------------
(* The event loop. *)

(* The next event of the current file, known or chosen now. *)
Reading(e) ==
    /\ stage = "parsing" /\ calls # <<>> /\ Now.walked = 0
    /\ LET t == text[Now.file]
       IN  IF Now.at < Len(t)
           THEN e = t[Now.at + 1] /\ UNCHANGED text
           ELSE e \in Continuations(t) /\ text' = [text EXCEPT ![Now.file] = Append(t, e)]

Goes(c) == Put(c) /\ UNCHANGED <<stage, answer, called>>

(* collect_attrs comes first: an attribute that cannot be resolved fails   *)
(* whatever the tag.                                                       *)
Element(tag, e) ==
    /\ e.on # "end" /\ e.tag = tag
    /\ Reading(e)

Next1 == [Now EXCEPT !.at = @ + 1]

LaunchStart ==
    /\ Reading(Root)
    /\ Goes(PushFrame(Next1, [is |-> "launch"]))

Unresolved(e) ==
    /\ e.on # "end" /\ e # Root
    /\ Reading(e)
    /\ ~Resolvable(e, Now.scope)
    /\ Fail

(* Recorded in the scope of the file in every position; inside an include  *)
(* it is also passed on, and needs a value there.                          *)
ArgStart(e) ==
    /\ Element("arg", e)
    /\ Resolvable(e, Now.scope)
    /\ LET arg == [name |-> e.name, value |-> SubstituteAll(e.values, Now.scope),
                   default |-> SubstituteAll(e.defaults, Now.scope)]
           given == IF arg.value # {} THEN arg.value ELSE arg.default
           c == [Next1 EXCEPT !.scope = RecordArg(@, arg)]
       IN  IF Top.is # "include" THEN Goes(c)
           ELSE IF given = {} THEN Fail
           ELSE \E v \in given :
                   Goes(OnTop(c, [Top EXCEPT !.args = Append(@, [name |-> e.name, value |-> v])]))

NodeStart(e) ==
    /\ Element("node", e)
    /\ Resolvable(e, Now.scope)
    /\ LET node == [is |-> "node", pkg |-> e.name, params |-> <<>>, remaps |-> 0,
                    ns |-> SubstituteAll(e.ns, Now.scope)]
       IN  Goes(IF e.on = "empty" THEN AttachNode(Next1, node) ELSE PushFrame(Next1, node))

ParamStart(e) ==
    /\ Element("param", e)
    /\ Resolvable(e, Now.scope)
    /\ IF Top.is = "node"
       THEN \E v \in SubstituteAll(e.values, Now.scope) :
               Goes(OnTop(Next1, [Top EXCEPT !.params = Append(@, v)]))
       ELSE Fail

RemapStart(e) ==
    /\ Element("remap", e)
    /\ Resolvable(e, Now.scope)
    /\ IF Top.is \in {"node", "group"}
       THEN Goes(OnTop(Next1, [Top EXCEPT !.remaps = @ + 1]))
       ELSE Fail

GroupStart(e) ==
    /\ Element("group", e)
    /\ Resolvable(e, Now.scope)
    /\ LET group == [is |-> "group", ns |-> SubstituteAll(e.ns, Now.scope),
                     nodes |-> <<>>, includes |-> <<>>, remaps |-> 0]
       IN  Goes(IF e.on = "empty" THEN AttachGroup(Next1, group) ELSE PushFrame(Next1, group))

IncludeStart(e) ==
    /\ Element("include", e)
    /\ Resolvable(e, Now.scope)
    /\ \E lit \in SubstituteAll(e.file, Now.scope) :
          LET include == [is |-> "include", file |-> lit, args |-> <<>>]
          IN  Goes(IF e.on = "empty" THEN AttachInclude(Next1, include)
                   ELSE PushFrame(Next1, include))

UnknownStart(e) ==
    /\ e.on # "end" /\ e # Root
    /\ e.tag \notin {"arg", "node", "param", "remap", "group", "include"}
    /\ Reading(e)
    /\ Fail

(* handle_end pops a frame for every closing tag, for </arg>, </param> and *)
(* </remap> too, whose opening tags pushed none.                           *)
HandleEnd(e) ==
    /\ e.on = "end"
    /\ Reading(e)
    /\ LET c == PopFrame(Next1)
       IN  IF Now.frames = <<>> THEN Fail
           ELSE IF e.tag \in {"arg", "param", "remap"} THEN Goes(c)
           ELSE IF Top.is # e.tag THEN Fail
           ELSE CASE e.tag = "node" -> Goes(AttachNode(c, Top))
                  [] e.tag = "group" -> Goes(AttachGroup(c, Top))
                  [] e.tag = "include" -> Goes(AttachInclude(c, Top))
                  [] OTHER -> Goes(c)

(* End of file: the includes are walked, with this file still on the stack.*)
Eof ==
    /\ stage = "parsing" /\ calls # <<>> /\ Now.walked = 0
    /\ Now.at = Len(text[Now.file]) /\ Continuations(text[Now.file]) = {}
    /\ Goes([Now EXCEPT !.walked = 1])
    /\ UNCHANGED text

(* parse_file's entry checks: the depth, that the file exists, the cycle. *)
MayEnter(file) == Len(calls) < MaxDepth /\ file # {} /\ \A f \in file : ~Contains(Stack, f)

WalkInclude ==
    /\ stage = "parsing" /\ calls # <<>>
    /\ Now.walked \in 1..Len(Now.includes)
    /\ LET include == Now.includes[Now.walked]
           file == Included(include.file)
       IN  IF ~MayEnter(file) THEN Fail
           ELSE \E f \in file :
                   /\ calls' = Append(calls, Call(f, ChildForInclude(Now.scope, include.args)))
                   /\ UNCHANGED <<stage, answer, called>>
    /\ UNCHANGED text

(* The call returns; its nodes and groups, not its arguments, join the     *)
(* caller's.                                                               *)
Return ==
    /\ stage = "parsing" /\ calls # <<>>
    /\ Now.walked > Len(Now.includes)
    /\ IF Len(calls) = 1
       THEN /\ stage' = "ok" /\ calls' = <<>>
            /\ answer' = [nodes |-> Now.nodes, groups |-> Now.groups]
       ELSE LET up == calls[Len(calls) - 1]
            IN  /\ calls' = Append(Front(Front(calls)),
                               [up EXCEPT !.nodes = @ \o Now.nodes,
                                          !.groups = @ \o Now.groups,
                                          !.walked = @ + 1])
                /\ UNCHANGED <<stage, answer>>
    /\ UNCHANGED <<text, called>>

ParseLaunchFile ==
    /\ stage = "idle"
    /\ stage' = "parsing"
    /\ calls' = <<Call(Main, [over |-> called, vals |-> Unset])>>
    /\ UNCHANGED <<text, answer, called>>

LpInit ==
    /\ text = [f \in Files |-> <<>>]
    /\ calls = <<>> /\ stage = "idle"
    /\ answer = [nodes |-> <<>>, groups |-> <<>>]
    /\ called \in Overrides

Event(e) ==
    \/ Unresolved(e) \/ ArgStart(e) \/ NodeStart(e) \/ ParamStart(e) \/ RemapStart(e)
    \/ GroupStart(e) \/ IncludeStart(e) \/ UnknownStart(e)

EndTags == {"launch", "arg", "node", "param", "remap", "group", "include"}

LpNext ==
    \/ ParseLaunchFile \/ LaunchStart \/ Eof \/ WalkInclude \/ Return
    \/ \E e \in Starts : Event(e)
    \/ \E tag \in EndTags : HandleEnd(End(tag))

-----------------------------------------------------------------------------
(* What a launch file says, read without a parser: positions of elements,  *)
(* the elements around them and the values names have there.               *)

Elements(f, tag) == {i \in 1..Len(text[f]) : text[f][i].on # "end" /\ text[f][i].tag = tag}
Around(f, i) == OpenAt(text[f], i - 1)
ParentTag(f, i) == text[f][Last(Around(f, i))].tag
InGroup(f, i) == \E k \in Range(Around(f, i)) : text[f][k].tag = "group"

(* The value of each argument before position i: the caller's, else the    *)
(* last value= given so far, else the first default=.                      *)
ValuesIn(f, over) ==
    LET env[i \in 1..(Len(text[f]) + 1)] ==
            [n \in ArgNames |->
                LET decls == {k \in Elements(f, "arg") :
                                 k < i /\ text[f][k].name = n /\ ParentTag(f, k) # "include"}
                    given == {k \in decls : text[f][k].values # {}}
                    fallback == {k \in decls : text[f][k].defaults # {}}
                    at(k) == [over |-> Unset, vals |-> env[k]]
                IN  IF over[n] # {} THEN over[n]
                    ELSE IF given # {}
                         THEN SubstituteAll(text[f][Max(given)].values, at(Max(given)))
                    ELSE IF fallback # {}
                         THEN SubstituteAll(text[f][Min(fallback)].defaults, at(Min(fallback)))
                    ELSE {}]
    IN  env

Inside(f, i, tag) ==
    SetToSortSeq({k \in Elements(f, tag) : Around(f, k) # <<>> /\ Last(Around(f, k)) = i}, <)

Attribute(f, env, i, values) == SubstituteAll(values, [over |-> Unset, vals |-> env[i]])

NodeAt(f, env, i) ==
    LET groups == SelectSeq(Around(f, i), LAMBDA k : text[f][k].tag = "group")
        ns(k) == Attribute(f, env, k, text[f][k].ns)
    IN  [is |-> "node", pkg |-> text[f][i].name, remaps |-> Len(Inside(f, i, "remap")),
         params |-> [k \in 1..Len(Inside(f, i, "param")) |->
                        LET p == Inside(f, i, "param")[k]
                        IN  CHOOSE v \in Attribute(f, env, p, text[f][p].values) : TRUE],
         ns |-> FoldRight(LAMBDA k, child : IF ns(k) = {} THEN child
                                            ELSE JoinNamespace(ns(k), child),
                          groups, ns(i))]

Nodes(f, env, where) ==
    LET order == SetToSortSeq(where, <)
    IN  [n \in 1..Len(order) |-> NodeAt(f, env, order[n])]

TopIncludes(f) == {i \in Elements(f, "include") : ~InGroup(f, i)}

IncludeOver(f, env, over, i) ==
    LET given == Inside(f, i, "arg")
        value(k) == LET e == text[f][k]
                    IN  Attribute(f, env, k, IF e.values # {} THEN e.values ELSE e.defaults)
    IN  FoldLeft(LAMBDA o, k : [o EXCEPT ![text[f][k].name] = value(k)], over, given)

IncludeFile(f, env, i) ==
    UNION {Included(lit) : lit \in Attribute(f, env, i, text[f][i].file)}

(* The nodes and groups of a file and of all it includes at its top level, *)
(* its own first, then those of its includes in their order.               *)
RECURSIVE Meaning(_, _, _)
Meaning(f, over, depth) ==
    LET env == ValuesIn(f, over)
        outer == SetToSortSeq({i \in Elements(f, "group") : ~InGroup(f, i)}, <)
        within(i) == {k \in Elements(f, "node") : i \in Range(Around(f, k))}
        own == [nodes |-> Nodes(f, env, {i \in Elements(f, "node") : ~InGroup(f, i)}),
                groups |-> [n \in 1..Len(outer) |-> Nodes(f, env, within(outer[n]))]]
        sub(i) == LET g == CHOOSE g \in IncludeFile(f, env, i) : TRUE
                  IN  Meaning(g, IncludeOver(f, env, over, i), depth + 1)
    IN  FoldLeft(LAMBDA m, i : LET s == sub(i)
                               IN  [nodes |-> m.nodes \o s.nodes,
                                    groups |-> m.groups \o s.groups],
                 own, SetToSortSeq(TopIncludes(f), <))

(* The files the tag set of the module's header allows. *)
Local(f, over) ==
    LET env == ValuesIn(f, over)
        at(i) == [over |-> Unset, vals |-> env[i]]
    IN  \A i \in 1..Len(text[f]) :
           LET e == text[f][i]
           IN  e.on = "end" \/ e = Root \/
               /\ Resolvable(e, at(i))
               /\ e.tag \in {"arg", "node", "param", "remap", "group", "include"}
               /\ e.tag \in {"arg", "param", "remap"} => e.on = "empty"
               /\ e.tag = "param" => ParentTag(f, i) = "node"
               /\ e.tag = "remap" => ParentTag(f, i) \in {"node", "group"}
               /\ e.tag = "arg" => ParentTag(f, i) \in {"launch", "include"}
               /\ e.tag = "arg" /\ ParentTag(f, i) = "include" => e.values \cup e.defaults # {}

RECURSIVE Sound(_, _, _)
Sound(f, over, path) ==
    /\ Len(path) < MaxDepth /\ ~Contains(path, f)
    /\ Local(f, over)
    /\ \A i \in TopIncludes(f) :
          LET env == ValuesIn(f, over)
              file == IncludeFile(f, env, i)
          IN  /\ file # {}
              /\ \A g \in file : Sound(g, IncludeOver(f, env, over, i), Append(path, f))

(* Three things the code does differently: an include inside a group is    *)
(* never walked, the <arg> of an include also changes the scope of the     *)
(* file that includes, and an <arg> inside a node or a group, which the    *)
(* comment in the handler says is rejected, is taken for one of the file.  *)
Uses(v, n) == \E k \in 1..Len(v) : v[k].verb = "var" /\ v[k].of = n
IncludeArgIsUsed(f) ==
    \E i \in Elements(f, "arg") :
        /\ ParentTag(f, i) = "include"
        /\ \E k \in (i + 1)..Len(text[f]) :
              /\ text[f][k].on # "end" /\ text[f][k] # Root
              /\ \E v \in Attrs(text[f][k]) : Uses(v, text[f][i].name)
GroupInclude(f) == \E i \in Elements(f, "include") : InGroup(f, i)
ArgIsMisplaced(f) == \E i \in Elements(f, "arg") : ParentTag(f, i) \in {"node", "group"}
Plain == \A f \in Files : ~IncludeArgIsUsed(f) /\ ~GroupInclude(f) /\ ~ArgIsMisplaced(f)

(* parse_launch_file accepts exactly the files the tag set allows, with    *)
(* every substitution resolvable and every chain of includes acyclic and   *)
(* short enough, and returns the nodes and groups they describe: each once *)
(* per inclusion, in order, under the namespaces of all groups around it,  *)
(* with argument values of its own file only.  Files of the three kinds    *)
(* above are left out.                                                     *)
ParsedAsWritten ==
    stage \in {"ok", "failed"} /\ Plain =>
        /\ (stage = "ok") = Sound(Main, called, <<>>)
        /\ stage = "ok" =>
              [nodes |-> answer.nodes,
               groups |-> [n \in 1..Len(answer.groups) |-> answer.groups[n].nodes]]
                  = Meaning(Main, called, 0)

=============================================================================
