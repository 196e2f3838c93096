---------------------------- MODULE RosInterface ----------------------------
(***************************************************************************)
(* ROS interface definitions (.msg, .srv, .action) from the file to the    *)
(* wire: the lexer and parser of rosidl-parser, the mappings of            *)
(* rosidl-codegen to Rust, C and C++, the schema every generated message   *)
(* carries, and the second, line-based parser of nros-msg-to-idl that      *)
(* feeds the Cyclone DDS descriptors.                                      *)
(*                                                                         *)
(* A line of a file is [type, name, tail], split at its blanks, each a     *)
(* sequence of words.  A word is <<"w", text>>, <<"n", number>>,           *)
(* <<"x", number>> (hexadecimal), <<"q", text>> (quoted), <<"f", text>>    *)
(* (a float) or <<"p", mark>>.  A string value is its length, a sequence   *)
(* value the sequence of its element values.                               *)
(***************************************************************************)
EXTENDS Integers, Sequences, SequencesExt, FiniteSetsExt

CONSTANTS Package,     \* the package the file belongs to
          Interface,   \* the name of the file, without its ending
          Files,       \* the files: <<kind, lines>>
          Library,     \* the fields of the messages that exist: <<pkg, name>> |-> fields
          MaxI64, MaxU64   \* the largest values of i64 and u64

VARIABLES kind,        \* "msg", "srv" or "action"
          file,        \* its lines
          rest,        \* the tokens not parsed yet
          sections,    \* the messages parsed: one, two or three
          step,        \* "parse", "bad", "parsed", "refused", "sent", "got", "lost", "overrun"
                       \* or "panicked"
          route,       \* <<who sends, language of the receiver, the message sent>>
          sent, wire, got

riVars == <<kind, file, rest, sections, step, route, sent, wire, got>>

Languages == {"rust", "c", "cpp"}
\* A node of ROS 2 sends what the interface allows; its sequences have no capacity.
Senders == Languages \cup {"ros2"}
Field(t, n) == [type |-> t, name |-> n]
Message(f, c) == [fields |-> f, constants |-> c]
EmptyMessage == Message(<<>>, <<>>)

-----------------------------------------------------------------------------
(* The lexer and the parser of rosidl-parser.                               *)

Primitives == {"bool", "byte", "char", "int8", "uint8", "int16", "uint16", "int32", "uint32",
               "int64", "uint64", "float32", "float64"}
\* Words that .msg files do not have are taken for IDL's names of the same types.
Aliases == [boolean |-> "bool", octet |-> "byte", short |-> "int16", long |-> "int32",
            float |-> "float32", double |-> "float64"]
PrimitiveWords == [w \in Primitives \cup DOMAIN Aliases |->
                     IF w \in DOMAIN Aliases THEN Aliases[w] ELSE w]

\* The tokens of a word; blanks, newlines and comments leave none.
Token(w) ==
  IF w[1] # "w" THEN w
  ELSE CASE w[2] \in DOMAIN PrimitiveWords -> <<"prim", PrimitiveWords[w[2]]>>
         [] w[2] = "string" -> <<"String">>
         [] w[2] = "wstring" -> <<"WString">>
         [] w[2] \in {"true", "True", "TRUE"} -> <<"bool", TRUE>>
         [] w[2] \in {"false", "False", "FALSE"} -> <<"bool", FALSE>>
         [] OTHER -> <<"id", w[2]>>
Lex(line) == LET words == line.type \o line.name \o line.tail
             IN [i \in DOMAIN words |-> Token(words[i])]
Tokens(lines) == FlattenSeq([i \in DOMAIN lines |-> Lex(lines[i])])

P(mark) == <<"p", mark>>
Numbers == {"n", "x"}
Literals == Numbers \cup {"f", "bool", "q"}

Failed == [ok |-> FALSE]
Parsed(v, s) == [ok |-> TRUE, value |-> v, rest |-> s]
Sees(s, mark) == s # <<>> /\ s[1] = P(mark)
IsKind(s, kinds) == s # <<>> /\ s[1][1] \in kinds
From(s, n) == SubSeq(s, n, Len(s))

\* An i64.  A decimal is read with its sign and may be the least of them, or a u64;
\* the digits after 0x are an i64 before the sign.
FitsInteger(token) == token[2] <= MaxI64
SignedFits(token, minus) ==
  FitsInteger(token) \/ (token[1] = "n" /\ token[2] <= IF minus THEN MaxI64 + 1 ELSE MaxU64)

\* string<=N and wstring<=N: what follows the word.
BoundedText(plain, bounded, s) ==
  IF ~Sees(s, "<=") THEN Parsed(<<plain>>, s)
  ELSE IF Len(s) >= 2 /\ s[2][1] \in Numbers /\ FitsInteger(s[2])
       THEN Parsed(<<bounded, s[2][2]>>, From(s, 3))
       ELSE Failed

BaseType(s) ==
  IF s = <<>> THEN Failed
  ELSE CASE s[1][1] = "prim" -> Parsed(s[1], Tail(s))
         [] s[1][1] = "String" -> BoundedText("String", "BoundedString", Tail(s))
         [] s[1][1] = "WString" -> BoundedText("WString", "BoundedWString", Tail(s))
         [] s[1][1] = "id" /\ ~Sees(Tail(s), "/") -> Parsed(<<"Named", "", s[1][2]>>, Tail(s))
         [] s[1][1] = "id" /\ Sees(Tail(s), "/") /\ Len(s) >= 3 /\ s[3][1] = "id" ->
              Parsed(<<"Named", s[1][2], s[3][2]>>, From(s, 4))
         [] OTHER -> Failed

\* A size at s[i] and the closing bracket.
Sized(tag, elem, s, i) ==
  IF Len(s) > i /\ s[i][1] \in Numbers /\ FitsInteger(s[i]) /\ s[i + 1] = P("]")
  THEN Parsed(<<tag, elem, s[i][2]>>, From(s, i + 2))
  ELSE Failed
Brackets(base, s) ==
  CASE ~base.ok \/ ~Sees(s, "[") -> base
    [] Len(s) >= 2 /\ s[2] = P("]") -> Parsed(<<"Sequence", base.value>>, From(s, 3))
    [] Len(s) >= 2 /\ s[2] = P("<=") -> Sized("BoundedSequence", base.value, s, 3)
    [] OTHER -> Sized("Array", base.value, s, 2)
WithBrackets(base) == IF base.ok THEN Brackets(base, base.rest) ELSE Failed
FieldType(s) == WithBrackets(BaseType(s))

Texts == {"String", "WString", "BoundedString", "BoundedWString"}

\* The words an unquoted string may go on with, on whatever line they are.
GoesOn == {"id"} \cup Numbers
AnyWord(s) ==
  LET stops == {i \in DOMAIN s : i > 1 /\ s[i][1] \notin (GoesOn \cup {"prim"}) /\ s[i] \notin {P("/"), P("-")}}
  IN IF stops = {} THEN Len(s) + 1 ELSE Min(stops)
UnquotedEnd(s) ==
  LET stops == {i \in DOMAIN s : i > 1 /\ s[i][1] \notin GoesOn /\ s[i] \notin {P("/"), P("-")}}
  IN IF stops = {} THEN Len(s) + 1 ELSE Min(stops)

ConstantValue(s0, type) ==
  LET minus == Sees(s0, "-")
      s == IF minus THEN Tail(s0) ELSE s0
      signed(n) == IF minus THEN -n ELSE n
  IN IF s = <<>> THEN Failed
     ELSE CASE s[1][1] \in Numbers /\ SignedFits(s[1], minus) ->
                 Parsed(<<"Integer", signed(s[1][2])>>, Tail(s))
            [] s[1][1] = "f" -> Parsed(<<"Float", minus, s[1][2]>>, Tail(s))
            [] s[1][1] = "bool" /\ ~minus -> Parsed(<<"Bool", s[1][2]>>, Tail(s))
            [] s[1][1] = "q" /\ ~minus -> Parsed(<<"String", <<s[1]>>>>, Tail(s))
            [] s[1][1] \notin Literals /\ type[1] \in Texts /\ ~minus ->
                 Parsed(<<"String", SubSeq(s, 1, UnquotedEnd(s) - 1)>>, From(s, UnquotedEnd(s)))
            [] OTHER -> Failed

\* [a, b, ...] after the bracket: the values are parsed as integers are.
RECURSIVE ArrayValues(_, _)
ArrayValues(s, values) ==
  LET v == ConstantValue(s, <<"prim", "int32">>)
  IN CASE ~v.ok -> Failed
       [] Sees(v.rest, ",") -> ArrayValues(Tail(v.rest), Append(values, v.value))
       [] Sees(v.rest, "]") -> Parsed(<<"Array", Append(values, v.value)>>, Tail(v.rest))
       [] OTHER -> Failed

NoDefault == <<"None">>
DefaultValue(s, type) ==
  CASE Sees(s, "[") -> IF Sees(Tail(s), "]") THEN Parsed(<<"Array", <<>>>>, From(s, 3))
                                              ELSE ArrayValues(Tail(s), <<>>)
    [] IsKind(s, Literals) \/ Sees(s, "-") -> ConstantValue(s, type)
    [] OTHER -> Parsed(NoDefault, s)

\* One field or constant: [constant, type, name, value].
Valued(constant, type, name, v) ==
  IF v.ok THEN Parsed([constant |-> constant, type |-> type, name |-> name, value |-> v.value], v.rest)
  ELSE Failed
NamedItem(type, name, s) ==
  IF Sees(s, "=") THEN Valued(TRUE, type, name, ConstantValue(Tail(s), type))
  ELSE Valued(FALSE, type, name, DefaultValue(s, type))
TypedItem(t) == IF t.ok /\ IsKind(t.rest, {"id"}) THEN NamedItem(t.value, t.rest[1][2], Tail(t.rest)) ELSE Failed
Item(s) == TypedItem(FieldType(s))

\* The fields keep their type and name; the generators for nros drop the defaults.
Add(msg, item) ==
  IF item.constant
  THEN [msg EXCEPT !.constants = Append(@, [type |-> item.type, name |-> item.name, value |-> item.value])]
  ELSE [msg EXCEPT !.fields = Append(@, Field(item.type, item.name))]

SectionsOf == [k \in {"msg", "srv", "action"} |-> CASE k = "msg" -> 1 [] k = "srv" -> 2 [] OTHER -> 3]

Take(item) ==
  IF item.ok
  THEN /\ rest' = item.rest
       /\ sections' = Front(sections) \o <<Add(Last(sections), item.value)>>
       /\ UNCHANGED step
  ELSE step' = "bad" /\ UNCHANGED <<rest, sections>>
ParseItem ==
  /\ step = "parse"
  /\ rest # <<>> /\ ~Sees(rest, "---")
  /\ Take(Item(rest))
  /\ UNCHANGED <<kind, file, route, sent, wire, got>>

Separator ==
  /\ step = "parse"
  /\ Sees(rest, "---") /\ Len(sections) < SectionsOf[kind]
  /\ rest' = Tail(rest)
  /\ sections' = Append(sections, EmptyMessage)
  /\ UNCHANGED <<kind, file, step, route, sent, wire, got>>

\* What follows the last section's own end, a further --- for instance, is not read.
EndOfFile ==
  /\ step = "parse"
  /\ rest = <<>> \/ (Sees(rest, "---") /\ Len(sections) = SectionsOf[kind])
  /\ step' = IF Len(sections) = SectionsOf[kind] THEN "parsed" ELSE "bad"
  /\ UNCHANGED <<kind, file, rest, sections, route, sent, wire, got>>

-----------------------------------------------------------------------------
(* The structs of the three languages.  A type is kept as a primitive, as a  *)
(* text of so many bytes, as so many elements, or as another struct.         *)

STRING_CAPACITY == 256
SEQUENCE_CAPACITY == 64

Variable == {"Sequence", "BoundedSequence"}
Elements == {"Array"} \cup Variable
PackageOf(type) == IF type[2] = "" THEN Package ELSE type[2]
FieldsOf(type) == Library[<<PackageOf(type), type[3]>>]
TypesOf(fields) == [i \in DOMAIN fields |-> fields[i].type]

TextBound(type) == IF type[1] \in {"BoundedString", "BoundedWString"} THEN type[2] ELSE STRING_CAPACITY
Count(type) == IF type[1] = "Sequence" THEN SEQUENCE_CAPACITY ELSE type[3]

TextOf(bytes) == <<"text", bytes>>
Many(elem, count) == <<"many", elem, count>>
Struct(type) == <<"struct", PackageOf(type), type[3]>>

\* heapless::String<N>, [T; N], heapless::Vec<T, N>.
RECURSIVE RustType(_), CType(_), CppType(_)
RustType(type) ==
  CASE type[1] = "prim" -> type
    [] type[1] \in Texts -> TextOf(TextBound(type))
    [] type[1] \in Elements -> Many(RustType(type[2]), Count(type))
    [] OTHER -> Struct(type)

\* char[N], T[N], struct { size; T data[N]; }.  The suffix of an element comes
\* before the count of a sequence: data[text][count] is count-byte texts.
CType(type) ==
  CASE type[1] = "prim" -> type
    [] type[1] \in Texts -> TextOf(TextBound(type))
    [] type[1] \in Variable /\ type[2][1] \in Texts -> Many(TextOf(Count(type)), TextBound(type[2]))
    [] type[1] \in Elements -> Many(CType(type[2]), Count(type))
    [] OTHER -> Struct(type)

\* FixedString<N>, T[N], FixedSequence<T, N>; [u8; N] and so on on the Rust side of it.
CppType(type) ==
  CASE type[1] = "prim" -> type
    [] type[1] \in Texts -> TextOf(TextBound(type))
    [] type[1] \in Elements -> Many(CppType(type[2]), Count(type))
    [] OTHER -> Struct(type)

\* Texts and sequences without a bound may be longer than any capacity; by one here.
RECURSIVE RosType(_)
RosType(type) ==
  CASE type[1] \in {"String", "WString"} -> TextOf(STRING_CAPACITY + 1)
    [] type[1] = "Sequence" -> Many(RosType(type[2]), SEQUENCE_CAPACITY + 1)
    [] type[1] \in {"Array", "BoundedSequence"} -> Many(RosType(type[2]), type[3])
    [] OTHER -> RustType(type)

StructType(lang, type) ==
  CASE lang = "rust" -> RustType(type) [] lang = "c" -> CType(type) [] lang = "cpp" -> CppType(type)
    [] OTHER -> RosType(type)

\* C and C++ end a text with a NUL: string<=0 is no room for that.
Characters(lang, text) == IF lang \in {"c", "cpp"} THEN text[2] - 1 ELSE text[2]

\* Whether a struct of a language has room for a value; nested structs are
\* made from their own fields.
RECURSIVE Holds(_, _, _)
Holds(lang, t, v) ==
  CASE t[1] = "prim" -> TRUE
    [] t[1] = "text" -> v <= Characters(lang, t)
    [] t[1] = "many" -> Len(v) <= t[3] /\ \A i \in DOMAIN v : Holds(lang, t[2], v[i])
    [] OTHER -> LET fields == Library[<<t[2], t[3]>>]
                IN \A i \in DOMAIN v : Holds(lang, StructType(lang, fields[i].type), v[i])

-----------------------------------------------------------------------------
(* The fields as the templates see them, and the code these make of them.    *)

RustMethod == [bool |-> "bool", byte |-> "u8", char |-> "u8", int8 |-> "i8", uint8 |-> "u8",
               int16 |-> "i16", uint16 |-> "u16", int32 |-> "i32", uint32 |-> "u32",
               int64 |-> "i64", uint64 |-> "u64", float32 |-> "f32", float64 |-> "f64"]
\* nros_cdr_write_... and nros_cdr_read_... are two more tables of the same content.
CWriteMethod == RustMethod
CReadMethod == RustMethod

\* is_primitive, is_string, is_array, is_sequence or is_nested, the same of its
\* elements, with the method for a primitive and the room the reading code counts on.
FormOf(type) ==
  CASE type[1] = "prim" -> "primitive" [] type[1] \in Texts -> "string" [] type[1] = "Array" -> "array"
    [] type[1] \in Variable -> "sequence" [] OTHER -> "nested"
NoElement == [form |-> "none"]
RECURSIVE NrosField(_), CField(_), FfiField(_)
NrosField(type) ==
  [form |-> FormOf(type), type |-> type,
   write |-> IF type[1] = "prim" THEN RustMethod[type[2]] ELSE "",
   read |-> IF type[1] = "prim" THEN RustMethod[type[2]] ELSE "",
   room |-> IF type[1] \in Texts THEN RustType(type)[2] ELSE IF type[1] \in Elements THEN RustType(type)[3] ELSE 0,
   elem |-> IF type[1] \in Elements THEN NrosField(type[2]) ELSE NoElement]
\* Texts are read with sizeof of what they are read into.
CField(type) ==
  [form |-> FormOf(type), type |-> type,
   write |-> IF type[1] = "prim" THEN CWriteMethod[type[2]] ELSE "",
   read |-> IF type[1] = "prim" THEN CReadMethod[type[2]] ELSE "",
   room |-> IF type[1] \in Texts THEN CType(type)[2] - 1 ELSE IF type[1] \in Elements THEN Count(type) ELSE 0,
   elem |-> IF type[1] \notin Elements THEN NoElement
            ELSE IF type[2][1] \in Texts THEN [CField(type[2]) EXCEPT !.room = CType(type)[2][2] - 1]
            ELSE CField(type[2])]
FfiField(type) ==
  [form |-> FormOf(type), type |-> type,
   write |-> IF type[1] = "prim" THEN CWriteMethod[type[2]] ELSE "",
   read |-> IF type[1] = "prim" THEN CReadMethod[type[2]] ELSE "",
   room |-> IF type[1] \in Texts THEN TextBound(type) - 1 ELSE IF type[1] \in Elements THEN Count(type) ELSE 0,
   elem |-> IF type[1] \in Elements THEN FfiField(type[2]) ELSE NoElement]
FieldFor(lang, type) ==
  CASE lang = "c" -> CField(type) [] lang = "cpp" -> FfiField(type) [] OTHER -> NrosField(type)
Glue(lang, types) == [i \in DOMAIN types |-> FieldFor(lang, types[i])]
Repeat(elem, n) == [i \in 1..n |-> elem]

\* serialize: the CDR operations the code of a language does for a value.
RECURSIVE Encode(_, _, _)
EncodeAll(lang, glue, values) ==
  FlattenSeq([i \in DOMAIN values |-> Encode(lang, glue[i], values[i])])
Encode(lang, f, v) ==
  CASE f.form = "primitive" -> <<<<f.write, v>>>>
    [] f.form = "string" -> <<<<"string", v>>>>
    [] f.form = "array" -> EncodeAll(lang, Repeat(f.elem, Len(v)), v)
    [] f.form = "sequence" -> <<<<"u32", Len(v)>>>> \o EncodeAll(lang, Repeat(f.elem, Len(v)), v)
    [] OTHER -> EncodeAll(lang, Glue(lang, TypesOf(FieldsOf(f.type))), v)

WithoutNul(lang, f, n) ==
  IF n <= f.room + 1 THEN Parsed(n, <<>>) ELSE IF lang = "cpp" THEN Parsed(f.room + 1, <<>>) ELSE Failed
\* A text that does not fit is an error in Rust and C and is cut in C++.
ReadText(lang, f, n) ==
  IF n <= f.room THEN Parsed(n, <<>>)
  ELSE IF lang = "cpp" THEN Parsed(f.room, <<>>) ELSE Failed
\* A sequence that does not fit is an error in Rust and C.  C counts to its
\* capacity, whatever rows the struct has; C++ does not count and panics at the
\* element after its last.
Wrecked(how) == [ok |-> FALSE, how |-> how]
Spills(lang, f, n) == lang = "c" /\ f.elem.form = "string" /\ n > CType(f.type)[3]

RECURSIVE Decode(_, _, _), DecodeAll(_, _, _, _)
DecodeAll(lang, glue, w, values) ==
  IF glue = <<>> THEN Parsed(values, w)
  ELSE LET d == Decode(lang, Head(glue), w)
       IN IF d.ok THEN DecodeAll(lang, Tail(glue), d.rest, Append(values, d.value)) ELSE d
Decode(lang, f, w) ==
  CASE f.form = "primitive" ->
         IF IsKind(w, {f.read}) THEN Parsed(w[1][2], Tail(w)) ELSE Failed
    [] f.form = "string" ->
         LET t == ReadText(lang, f, w[1][2])
         IN IF IsKind(w, {"string"}) /\ t.ok THEN Parsed(t.value, Tail(w)) ELSE Failed
    [] f.form = "array" -> DecodeAll(lang, Repeat(f.elem, f.room), w, <<>>)
    [] f.form = "sequence" ->
         IF ~IsKind(w, {"u32"}) THEN Failed
         ELSE LET n == w[1][2]
                  d == DecodeAll(lang, Repeat(f.elem, Min({n, f.room})), Tail(w), <<>>)
              IN IF n > f.room THEN IF lang # "cpp" THEN Failed ELSE IF d.ok THEN Wrecked("panicked") ELSE d
                 ELSE IF Spills(lang, f, n) THEN Wrecked("overrun") ELSE d
    [] OTHER -> DecodeAll(lang, Glue(lang, TypesOf(FieldsOf(f.type))), w, <<>>)

\* A value a language can put into its struct, "empty", "small" or "full": a
\* sequence is filled as far as its capacity and its rows allow.
RECURSIVE Value(_, _, _, _)
Value(lang, type, t, size) ==
  CASE t[1] = "prim" -> size
    [] t[1] = "text" -> CASE size = "empty" -> 0 [] size = "small" -> 1 [] OTHER -> Characters(lang, t)
    [] t[1] = "many" ->
         LET n == CASE type[1] = "Array" -> t[3] [] size = "empty" -> 0 [] size = "small" -> 1
                    [] OTHER -> IF lang = "c" THEN Min({t[3], Count(type)}) ELSE t[3]
         IN [i \in 1..n |-> Value(lang, type[2], t[2], size)]
    [] OTHER -> [i \in DOMAIN FieldsOf(type) |->
                   LET f == FieldsOf(type)[i].type IN Value(lang, f, StructType(lang, f), size)]

-----------------------------------------------------------------------------
(* compute_serialized_size_max: the buffer C++ publishes from.               *)

\* Bytes a primitive takes, by its write method.
MethodSize == [bool |-> 1, u8 |-> 1, i8 |-> 1, u16 |-> 2, i16 |-> 2, u32 |-> 4, i32 |-> 4,
               f32 |-> 4, u64 |-> 8, i64 |-> 8, f64 |-> 8]
Padding(n, size) == (-n) % size
\* CDR aligns to the size of what it writes, from the end of its header of 4.
OpSize(op, n) ==
  IF op[1] = "string" THEN Padding(n, 4) + 4 + op[2] + 1
  ELSE Padding(n, MethodSize[op[1]]) + MethodSize[op[1]]
WireSize(w) ==
  LET size[i \in 0..Len(w)] ==
        IF i = 0 THEN 4 ELSE LET n == size[i - 1] IN n + OpSize(w[i], n)
  IN size[Len(w)]

NESTED_ESTIMATE == 512
ElementSizeMax(f) ==
  CASE f.form = "primitive" -> MethodSize[f.write] + 7
    [] f.form = "string" -> 4 + STRING_CAPACITY + 4
    [] OTHER -> NESTED_ESTIMATE
FieldSizeMax(f) ==
  CASE f.form = "string" -> 4 + TextBound(f.type) + 1 + 3
    [] f.form = "array" -> f.room * ElementSizeMax(f.elem)
    [] f.form = "sequence" -> 4 + f.room * ElementSizeMax(f.elem)
    [] OTHER -> ElementSizeMax(f)
SizeMax(glue) == 4 + FoldLeft(LAMBDA n, f : n + FieldSizeMax(f), 0, glue)

-----------------------------------------------------------------------------
(* What the generators write for a file: its structs, the constants and       *)
(* helpers that stand beside them, and where they look for other structs.     *)

NamedTypes(type) == CASE type[1] = "Named" -> {type}
                 [] type[1] \in Elements /\ type[2][1] = "Named" -> {type[2]}
                 [] OTHER -> {}
Nests(fields) == UNION {NamedTypes(f.type) : f \in ToSet(fields)}
NamedIn(msg) == Nests(msg.fields)
FieldsAll(msgs) == FlattenSeq([i \in DOMAIN msgs |-> msgs[i].fields])
ConstantsOf(prefix, msg) == {<<prefix, c.name>> : c \in ToSet(msg.constants)}

\* A struct of the same module by its name, one of the package's messages under
\* crate::msg, another package's in that crate.
RustPath(own, type) ==
  IF type[2] = Package /\ type[3] \in own THEN <<"here", type[3]>>
  ELSE <<IF PackageOf(type) = Package THEN "crate" ELSE type[2], type[3]>>
\* The schema keeps what a field nests and the element of a sequence in constants.
RustStruct(name, prefix, fields, own) ==
  [name |-> name,
   helpers |-> {<<prefix \o "NESTED", f.name>> : f \in {f \in ToSet(fields) : NamedTypes(f.type) # {}}}
          \cup {<<prefix \o "FT", f.name>> : f \in {f \in ToSet(fields) : f.type[1] \in Elements}},
   finds |-> {RustPath(own, t) : t \in Nests(fields)}]

RustMessage(msgs) ==
  [structs |-> <<RustStruct(Interface, "", msgs[1].fields, {})>>,
   constants |-> <<ConstantsOf("", msgs[1])>>]
\* The constants of both halves stand in the module under their own names.
RustService(msgs) ==
  [structs |-> <<RustStruct(Interface \o "Request", "REQ_", msgs[1].fields, {}),
                 RustStruct(Interface \o "Response", "RESP_", msgs[2].fields, {})>>,
   constants |-> [i \in 1..2 |-> ConstantsOf("", msgs[i])]]

UUID == <<"Named", "unique_identifier_msgs", "UUID">>
Time == <<"Named", "builtin_interfaces", "Time">>
\* The five wire structs of an action, its goal, result and feedback beside them.
Envelopes ==
  LET Own(part) == <<"Named", Package, Interface \o part>>
      own == {Interface \o "Goal", Interface \o "Result", Interface \o "Feedback"}
      Wire(name, prefix, fields) == RustStruct(Interface \o name, prefix, fields, own)
  IN <<Wire("_SendGoal_Request", "SG_REQ_", <<Field(UUID, "goal_id"), Field(Own("Goal"), "goal")>>),
       Wire("_SendGoal_Response", "SG_RESP_", <<Field(<<"prim", "bool">>, "accepted"), Field(Time, "stamp")>>),
       Wire("_GetResult_Request", "GR_REQ_", <<Field(UUID, "goal_id")>>),
       Wire("_GetResult_Response", "GR_RESP_", <<Field(<<"prim", "int8">>, "status"), Field(Own("Result"), "result")>>),
       Wire("_FeedbackMessage", "FB_", <<Field(UUID, "goal_id"), Field(Own("Feedback"), "feedback")>>)>>
RustAction(msgs) ==
  [structs |-> <<RustStruct(Interface \o "Goal", "GOAL_", msgs[1].fields, {}),
                 RustStruct(Interface \o "Result", "RESULT_", msgs[2].fields, {}),
                 RustStruct(Interface \o "Feedback", "FEEDBACK_", msgs[3].fields, {})>> \o Envelopes,
   constants |-> <<ConstantsOf("GOAL_", msgs[1]), ConstantsOf("RESULT_", msgs[2]), ConstantsOf("FEEDBACK_", msgs[3])>>]
\* [dependencies] of the crate, without the package itself.
CrateDependencies(k, msgs) ==
  ({t[2] : t \in {t \in Nests(FieldsAll(msgs)) : t[2] # ""}}
     \cup (IF k = "action" THEN {UUID[2], Time[2]} ELSE {})) \ {Package}

\* #include "<pkg>/msg/<header>", or a path to the package's own from where the
\* header with the struct is: the directory msg itself, srv or action.
CInclude(near, type) == <<IF PackageOf(type) = Package THEN near ELSE type[2], type[3]>>
CMessage(msgs) ==
  [structs |-> <<Interface>>, constants |-> <<ConstantsOf("", msgs[1])>>,
   includes |-> {CInclude("", t) : t \in Nests(FieldsAll(msgs))}]
CService(msgs) ==
  [structs |-> <<Interface \o "_request", Interface \o "_response">>,
   constants |-> <<ConstantsOf("REQUEST_", msgs[1]), ConstantsOf("RESPONSE_", msgs[2])>>,
   includes |-> {CInclude("../msg", t) : t \in Nests(FieldsAll(msgs))}]
CAction(msgs) ==
  [structs |-> <<Interface \o "_goal", Interface \o "_result", Interface \o "_feedback">>,
   constants |-> <<ConstantsOf("GOAL_", msgs[1]), ConstantsOf("RESULT_", msgs[2]), ConstantsOf("FEEDBACK_", msgs[3])>>,
   includes |-> {CInclude("../msg", t) : t \in Nests(FieldsAll(msgs))}]

\* "<pkg>.hpp", the package's own too when its name is written out, and
\* "msg/<header>" for the package's own messages.
CppUmbrellas(fields) == {<<t[2], "umbrella">> : t \in {t \in Nests(fields) : t[2] # ""}}
CppIncludes(fields) == {<<"", t[3]>> : t \in {t \in Nests(fields) : t[2] \in {"", Package}}}
CppMessage(msgs) ==
  [structs |-> <<Interface>>, constants |-> <<ConstantsOf(Interface \o "_", msgs[1])>>,
   includes |-> CppUmbrellas(msgs[1].fields) \cup CppIncludes(msgs[1].fields)]
CppService(msgs) ==
  [structs |-> <<Interface \o "_request", Interface \o "_response">>,
   constants |-> <<ConstantsOf("REQUEST_", msgs[1]), ConstantsOf("RESPONSE_", msgs[2])>>,
   includes |-> UNION {CppUmbrellas(msgs[i].fields) \cup CppIncludes(msgs[i].fields) : i \in 1..2}]
CppAction(msgs) ==
  [structs |-> <<Interface \o "_goal", Interface \o "_result", Interface \o "_feedback">>,
   constants |-> <<ConstantsOf("GOAL_", msgs[1]), ConstantsOf("RESULT_", msgs[2]), ConstantsOf("FEEDBACK_", msgs[3])>>,
   includes |-> UNION {CppUmbrellas(msgs[i].fields) \cup CppIncludes(msgs[i].fields) : i \in 1..3}]

Generated(lang, k, msgs) ==
  CASE lang = "rust" -> (CASE k = "msg" -> RustMessage(msgs) [] k = "srv" -> RustService(msgs) [] OTHER -> RustAction(msgs))
    [] lang = "c" -> (CASE k = "msg" -> CMessage(msgs) [] k = "srv" -> CService(msgs) [] OTHER -> CAction(msgs))
    [] OTHER -> (CASE k = "msg" -> CppMessage(msgs) [] k = "srv" -> CppService(msgs) [] OTHER -> CppAction(msgs))

\* A message without fields has no serialize_..._fields in the C++ glue to be
\* called, and N - 1 of a string<=0 is below zero.
TextsIn(type) == {t \in {type} \cup (IF type[1] \in Elements THEN {type[2]} ELSE {}) : t[1] \in Texts}
Compiles(lang, msg) ==
  lang = "cpp" => /\ \A t \in NamedIn(msg) : FieldsOf(t) # <<>>
                  /\ \A f \in ToSet(msg.fields) : \A t \in TextsIn(f.type) : TextBound(t) > 0

-----------------------------------------------------------------------------
(* The schema of a generated message and the IDL of nros-msg-to-idl: two ways *)
(* to one description of the wire.                                           *)

SchemaPrimitive == [bool |-> "Bool", byte |-> "Uint8", char |-> "Uint8", int8 |-> "Int8",
                    uint8 |-> "Uint8", int16 |-> "Int16", uint16 |-> "Uint16", int32 |-> "Int32",
                    uint32 |-> "Uint32", int64 |-> "Int64", uint64 |-> "Uint64",
                    float32 |-> "Float32", float64 |-> "Float64"]
RECURSIVE Schema(_), BoundsDropped(_)
BoundsDropped(type) ==
  CASE type[1] = "prim" -> <<SchemaPrimitive[type[2]]>>
    [] type[1] \in Texts -> <<"String">>
    [] type[1] \in Elements -> <<"Sequence", Schema(type[2])>>
    [] OTHER -> <<"Nested", PackageOf(type), type[3]>>
Schema(type) ==
  CASE type[1] = "prim" -> <<SchemaPrimitive[type[2]]>>
    [] type[1] \in Texts -> type
    [] type[1] = "Sequence" -> <<"Sequence", Schema(type[2])>>
    [] type[1] \in Elements -> <<type[1], Schema(type[2]), type[3]>>
    [] OTHER -> <<"Nested", PackageOf(type), type[3]>>

IdlPrimitive == [bool |-> "boolean", byte |-> "octet", char |-> "uint8", int8 |-> "int8",
                 uint8 |-> "uint8", int16 |-> "int16", uint16 |-> "uint16", int32 |-> "int32",
                 uint32 |-> "uint32", int64 |-> "int64", uint64 |-> "uint64",
                 float32 |-> "float", float64 |-> "double"]
\* What idlc makes of an IDL primitive.
IdlMeans == [boolean |-> "Bool", octet |-> "Uint8", uint8 |-> "Uint8", int8 |-> "Int8",
             int16 |-> "Int16", uint16 |-> "Uint16", int32 |-> "Int32", uint32 |-> "Uint32",
             int64 |-> "Int64", uint64 |-> "Uint64", float |-> "Float32", double |-> "Float64"]

\* duration and time are primitives here, without a package and without a name in IDL.
RosTimes == {"duration", "time"}

\* A bound is a positive decimal.
Bound(word) == word[1] = "n" /\ word[2] > 0
\* One type token without its brackets.
IdlBase(words) ==
  CASE Len(words) = 1 /\ words[1][2] \in Primitives -> Parsed(<<IdlMeans[IdlPrimitive[words[1][2]]]>>, <<>>)
    [] Len(words) = 1 /\ words[1][2] = "string" -> Parsed(<<"String">>, <<>>)
    [] Len(words) = 1 /\ words[1][2] = "wstring" -> Parsed(<<"WString">>, <<>>)
    [] Len(words) = 1 -> Parsed(<<"Nested", IF words[1][2] \in RosTimes THEN "" ELSE Package, words[1][2]>>, <<>>)
    [] Len(words) = 3 /\ words[2] = P("<=") ->
         IF Bound(words[3])
         THEN Parsed(<<IF words[1][2] = "string" THEN "BoundedString" ELSE "BoundedWString", words[3][2]>>, <<>>)
         ELSE Failed
    [] Len(words) = 3 /\ words[2] = P("/") -> Parsed(<<"Nested", words[1][2], words[3][2]>>, <<>>)
    [] OTHER -> Failed
IdlType(words) ==
  LET open == SelectInSeq(words, LAMBDA w : w = P("["))
      base == IdlBase(SubSeq(words, 1, open - 1))
      inner == SubSeq(words, open + 1, Len(words) - 1)
  IN CASE open = 0 -> IdlBase(words)
       [] open # 0 /\ ~base.ok -> Failed
       [] open # 0 /\ base.ok /\ inner = <<>> -> Parsed(<<"Sequence", base.value>>, <<>>)
       [] open # 0 /\ base.ok /\ Len(inner) = 2 /\ inner[1] = P("<=") /\ Bound(inner[2]) ->
            Parsed(<<"BoundedSequence", base.value, inner[2][2]>>, <<>>)
       [] open # 0 /\ base.ok /\ Len(inner) = 1 /\ Bound(inner[1]) ->
            Parsed(<<"Array", base.value, inner[1][2]>>, <<>>)
       [] OTHER -> Failed
\* A line is a type and a name: a constant, a default value or a line of one word is refused.
IdlLine(line) ==
  LET type == IdlType(line.type)
  IN IF Len(line.name) = 1 /\ line.tail = <<>> /\ type.ok
     THEN Parsed([name |-> line.name[1][2], type |-> type.value], <<>>)
     ELSE Failed

-----------------------------------------------------------------------------
(* A program sends a message, another one receives it.                       *)

Send ==
  /\ step = "parsed"
  /\ \E from \in Senders, to \in Languages, i \in DOMAIN sections, size \in {"empty", "small", "full"} :
       LET msg == sections[i]
           types == TypesOf(msg.fields)
           value == [j \in DOMAIN types |-> Value(from, types[j], StructType(from, types[j]), size)]
           ops == EncodeAll(from, Glue(from, types), value)
       IN /\ types # <<>> /\ Compiles(from, msg) /\ Compiles(to, msg)
          /\ \A j \in DOMAIN types : Holds(from, StructType(from, types[j]), value[j])
          /\ route' = <<from, to, i>> /\ sent' = value /\ wire' = ops
          /\ step' = IF from = "cpp" /\ WireSize(ops) > SizeMax(Glue(from, types)) THEN "refused" ELSE "sent"
  /\ UNCHANGED <<kind, file, rest, sections, got>>

Receive ==
  LET types == TypesOf(sections[route[3]].fields)
      d == DecodeAll(route[2], Glue(route[2], types), wire, <<>>)
  IN /\ step = "sent"
     /\ step' = IF d.ok THEN "got" ELSE IF "how" \in DOMAIN d THEN d.how ELSE "lost"
     /\ got' = IF d.ok THEN d.value ELSE <<>>
     /\ UNCHANGED <<kind, file, rest, sections, route, sent, wire>>

RiInit ==
  /\ \E f \in Files : kind = f[1] /\ file = f[2] /\ rest = Tokens(f[2])
  /\ sections = <<EmptyMessage>>
  /\ step = "parse"
  /\ route = <<>> /\ sent = <<>> /\ wire = <<>> /\ got = <<>>

RiNext == ParseItem \/ Separator \/ EndOfFile \/ Send \/ Receive

-----------------------------------------------------------------------------
(* Properties.                                                               *)

\* An unquoted text takes every word up to one that cannot go on with it, so
\* that it takes what the next line begins with, too.
Swallows(line, next) ==
  /\ P("=") \in ToSet(line.tail) /\ Last(line.tail)[1] = "w"
  /\ Token(Head(next.type))[1] \in GoesOn
\* The lines of a section, and what each of them is by itself.
SectionLines(i) ==
  LET marks == {j \in DOMAIN file : file[j].type = <<P("---")>>}
      Start(k) == IF k = 1 THEN 0 ELSE CHOOSE j \in marks : Cardinality({m \in marks : m <= j}) = k - 1
      End(k) == IF k > Cardinality(marks) THEN Len(file) + 1 ELSE Start(k + 1)
  IN SubSeq(file, Start(i) + 1, End(i) - 1)
Whole(item) == item.ok /\ item.rest = <<>>
Alone(line) == Whole(Item(Lex(line)))
\* The message of these items.
IsConstant(item) == item.constant
IsField(item) == ~item.constant
Collected(items) ==
  LET f == SelectSeq(items, IsField)
      c == SelectSeq(items, IsConstant)
  IN Message([i \in DOMAIN f |-> Field(f[i].type, f[i].name)],
             [i \in DOMAIN c |-> [type |-> c[i].type, name |-> c[i].name, value |-> c[i].value]])
Apart(lines) == \A i \in 1..(Len(lines) - 1) : ~Swallows(lines[i], lines[i + 1])

\* The parser reads tokens and sees no end of a line.  Even so a file whose lines
\* are all fields and constants means these and nothing else, section by section
\* and in their order.  Not so where an unquoted text stands before a line that
\* begins with a word: it takes the word, although parser.rs:301 has it end with
\* its line.  (parser.rs parse_message_impl)
Clear(lines) == \A i \in DOMAIN lines : Apart(lines[i]) /\ \A j \in DOMAIN lines[i] : Alone(lines[i][j])
LineByLine ==
  LET lines == [i \in 1..SectionsOf[kind] |-> SectionLines(i)]
  IN /\ step = "bad" /\ Cardinality({j \in DOMAIN file : file[j].type = <<P("---")>>}) = SectionsOf[kind] - 1
          => ~Clear(lines)
     /\ step = "parsed" /\ Clear(lines) =>
          sections = [i \in DOMAIN lines |->
                        Collected([j \in DOMAIN lines[i] |-> Item(Lex(lines[i][j])).value])]

\* What one language's code or a node of ROS 2 writes another's reads, field for
\* field, and nothing is lost that the receiver's struct has room for.  What it
\* has no room for Rust and C refuse whole, except that C counts to the capacity
\* of a sequence where its struct has fewer rows and writes behind it.  C++ never
\* refuses: it cuts a text to its room, and a sequence that is too long, and
\* nothing else, makes it panic behind an extern "C".
\* (message_nros.rs.jinja, message_c.c.jinja, message_cpp_ffi.rs.jinja)
RECURSIVE Cut(_, _, _)
Cut(type, t, v) ==
  CASE t[1] = "prim" -> v
    [] t[1] = "text" -> Min({v, Characters("cpp", t)})
    [] t[1] = "many" -> [i \in DOMAIN v |-> Cut(type[2], t[2], v[i])]
    [] OTHER -> [i \in DOMAIN v |-> LET f == FieldsOf(type)[i].type IN Cut(f, CppType(f), v[i])]
RECURSIVE TooLong(_, _)
TooLong(t, v) ==
  CASE t[1] = "many" -> Len(v) > t[3] \/ \E i \in DOMAIN v : TooLong(t[2], v[i])
    [] t[1] = "struct" -> LET fields == Library[<<t[2], t[3]>>]
                          IN \E i \in DOMAIN v : TooLong(CppType(fields[i].type), v[i])
    [] OTHER -> FALSE
SameValueArrives ==
  step \in {"got", "lost", "overrun", "panicked"} =>
    LET types == TypesOf(sections[route[3]].fields)
        to == route[2]
        fits == \A i \in DOMAIN types : Holds(to, StructType(to, types[i]), sent[i])
    IN /\ fits => step = "got"
       /\ step = "got" =>
            IF to = "cpp" THEN got = [i \in DOMAIN types |-> Cut(types[i], CppType(types[i]), sent[i])]
            ELSE fits /\ got = sent
       /\ step = "overrun" => to = "c" /\ ~fits
       /\ step = "lost" => to # "cpp"
       /\ step = "panicked" => to = "cpp" /\ \E i \in DOMAIN types : TooLong(CppType(types[i]), sent[i])

\* The buffer a C++ program publishes from is large enough for every message of
\* primitives and texts, elements included.  (types.rs compute_serialized_size_max)
FlatFits ==
  step = "refused" =>
    \/ NamedIn(sections[route[3]]) # {}
    \/ \E f \in ToSet(sections[route[3]].fields) :
         f.type[1] \in Elements /\ f.type[2][1] \in Texts /\ TextBound(f.type[2]) > STRING_CAPACITY

\* Two nodes, one with the schema of its generated message and one with the IDL
\* of nros-msg-to-idl, describe the same wire: a file both accept means the same
\* fields of the same types, but for the words one takes for primitives and the
\* other for messages of the package: boolean, octet, short, long, float and
\* double are primitives to rosidl-parser only, duration and time to
\* nros-msg-to-idl only.  (lexer.rs, nros-msg-to-idl/parser.rs)
AliasFree ==
  \A i \in DOMAIN file : \A w \in ToSet(file[i].type) : w[1] = "w" => w[2] \notin DOMAIN Aliases \cup RosTimes
TwoParsersAgree ==
  LET idl == [i \in DOMAIN file |-> IdlLine(file[i])]
  IN step = "parsed" /\ kind = "msg" /\ AliasFree /\ (\A i \in DOMAIN idl : idl[i].ok) =>
       [i \in DOMAIN idl |-> idl[i].value]
         = [i \in DOMAIN sections[1].fields |->
              [name |-> sections[1].fields[i].name, type |-> Schema(sections[1].fields[i].type)]]

\* All that generated code names can be found, and has a name of its own.  A
\* Rust path leads to a struct of its module, of the package's messages or of a
\* crate in [dependencies]; a C or C++ header includes the header of every
\* struct it has by value, by a path that leads there from its own directory.
\* No two structs, schema constants or constants of a module share a name but
\* for the constants of the two halves of a Rust service.
\* (generator/msg.rs, srv.rs, action.rs, cpp.rs)
Directory(k, where) ==
  CASE where = "" -> <<Package, k>> [] where = "../msg" -> <<Package, "msg">> [] OTHER -> <<where, "msg">>
Apart2(sets) == \A i, j \in DOMAIN sets : i # j => sets[i] \cap sets[j] = {}
RustNamesResolve ==
  LET g == Generated("rust", kind, sections)
      names == {g.structs[i].name : i \in DOMAIN g.structs}
      Leads(path) == CASE path[1] = "here" -> path[2] \in names
                       [] path[1] = "crate" -> <<Package, path[2]>> \in DOMAIN Library
                       [] OTHER -> path[1] \in CrateDependencies(kind, sections)
  IN /\ \A i \in DOMAIN g.structs : \A path \in g.structs[i].finds : Leads(path)
     /\ Cardinality(names) = Len(g.structs)
     /\ Apart2([i \in DOMAIN g.structs |-> g.structs[i].helpers])
     /\ kind # "srv" => Apart2(g.constants)
HeadersResolve ==
  \A lang \in {"c", "cpp"} :
    LET g == Generated(lang, kind, sections)
    IN /\ \A t \in Nests(FieldsAll(sections)) :
            \/ lang = "c" /\ \E inc \in g.includes : Directory(kind, inc[1]) = <<PackageOf(t), "msg">> /\ inc[2] = t[3]
            \/ lang = "cpp" /\ PackageOf(t) # Package /\ <<PackageOf(t), "umbrella">> \in g.includes
            \/ lang = "cpp" /\ PackageOf(t) = Package /\ <<"", t[3]>> \in g.includes
       /\ IsInjective(g.structs) /\ Apart2(g.constants)
NamesAreDeclared ==
  step = "parsed" => /\ RustNamesResolve /\ HeadersResolve
                     /\ Package \notin CrateDependencies(kind, sections)
=============================================================================
