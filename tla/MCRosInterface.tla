--------------------------- MODULE MCRosInterface ---------------------------
(***************************************************************************)
(* Files of up to two lines for a message, one line per section for a      *)
(* service and an action, from a catalogue with one line of every form     *)
(* the parser tells apart.                                                  *)
(***************************************************************************)
EXTENDS RosInterface, TLC

W(t) == <<"w", t>>
N(n) == <<"n", n>>
Line(type, name, tail) == [type |-> type, name |-> name, tail |-> tail]
F(words, name) == Line(words, <<W(name)>>, <<>>)

MCPackage == "mine"
MCInterface == "Nav"
MCMaxI64 == 1000
MCMaxU64 == 2000

Plain == {F(<<W("int32")>>, "x"), F(<<W("char")>>, "c"), F(<<W("float")>>, "y"), F(<<W("string")>>, "name")}
TextLines == {F(<<W("string"), P("<="), N(3)>>, "s"), F(<<W("wstring")>>, "w"),
              F(<<W("string"), P("["), P("]")>>, "names"),
              F(<<W("string"), P("<="), N(10), P("["), P("<="), N(20), P("]")>>, "tags"),
              F(<<W("string"), P("<="), N(300), P("["), P("<="), N(2), P("]")>>, "long_names")}
Many2 == {F(<<W("float64"), P("["), N(3), P("]")>>, "a"), F(<<W("uint8"), P("["), P("]")>>, "data"),
          F(<<W("geometry"), P("/"), W("Point"), P("["), P("<="), N(2), P("]")>>, "pts"),
          F(<<W("bool"), P("["), N(0), P("]")>>, "none")}
Nested == {F(<<W("Leaf")>>, "p"), F(<<W("mine"), P("/"), W("Leaf")>>, "l"),
           F(<<W("other"), P("/"), W("Empty")>>, "e"), F(<<W("other"), P("/"), W("Big")>>, "b")}
Constants == {Line(<<W("string")>>, <<W("A")>>, <<P("="), W("foo")>>),
              Line(<<W("string")>>, <<W("B")>>, <<P("="), <<"q", "q">>>>),
              Line(<<W("int64")>>, <<W("LEAST")>>, <<P("="), P("-"), N(1001)>>),
              Line(<<W("uint64")>>, <<W("BIG")>>, <<P("="), N(1500)>>),
              Line(<<W("uint64")>>, <<W("HEX")>>, <<P("="), <<"x", 1500>>>>)}
Defaults == {Line(<<W("int32")>>, <<W("d")>>, <<N(5)>>),
             Line(<<W("int32"), P("["), P("]")>>, <<W("e")>>, <<P("["), N(1), P(","), P("-"), N(2), P("]")>>),
             Line(<<W("bool")>>, <<W("t")>>, <<W("true")>>)}
Wrong == {Line(<<W("int32")>>, <<>>, <<>>), Line(<<W("string"), P("<=")>>, <<W("s")>>, <<>>)}
Catalogue == Plain \cup TextLines \cup Many2 \cup Nested \cup Constants \cup Defaults \cup Wrong
\* Words and bounds of which each has its own trouble, in files of one line.
Odd == {F(<<W("time")>>, "stamp"), F(<<W("string"), P("<="), N(0)>>, "s"),
        Line(<<W("int64")>>, <<W("LOW")>>, <<P("="), P("-"), <<"x", 1001>>>>)}
Few == {F(<<W("int32")>>, "x"), F(<<W("Leaf")>>, "p"), F(<<W("NavGoal"), P("["), P("]")>>, "p"),
        F(<<W("geometry"), P("/"), W("Point")>>, "q"), Line(<<W("string")>>, <<W("A")>>, <<P("="), W("foo")>>)}
Dashes == Line(<<P("---")>>, <<>>, <<>>)

MCFiles ==
  {<<"msg", <<>>>>} \cup {<<"msg", <<a>>>> : a \in Catalogue \cup Odd} \cup {<<"msg", <<a, b>>>> : a, b \in Catalogue}
  \cup {<<"srv", <<a, Dashes, b>>>> : a, b \in Few} \cup {<<"srv", <<a>>>> : a \in Few}
  \cup {<<"srv", <<Dashes, a, Dashes>>>> : a \in Few}
  \cup {<<"action", <<a, Dashes, a, Dashes, b>>>> : a, b \in Few} \cup {<<"action", <<a, Dashes, Dashes>>>> : a \in Few} \cup {<<"action", <<a, Dashes, b>>>> : a, b \in Few}

Doubles(names) == [i \in DOMAIN names |-> Field(<<"prim", "float64">>, names[i])]
MCLibrary == (<<"mine", "Leaf">> :> <<Field(<<"String">>, "label"), Field(<<"prim", "uint8">>, "n")>>)
          @@ (<<"mine", "time">> :> <<Field(<<"prim", "int32">>, "sec")>>)
          @@ (<<"mine", "NavGoal">> :> <<Field(<<"prim", "bool">>, "ready")>>)
          @@ (<<"geometry", "Point">> :> Doubles(<<"x", "y">>))
          @@ (<<"other", "Empty">> :> <<>>)
          @@ (<<"other", "Big">> :> <<Field(<<"String">>, "a"), Field(<<"String">>, "b"), Field(<<"String">>, "c")>>)
=============================================================================
