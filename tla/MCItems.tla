------------------------------- MODULE MCItems -------------------------------
(***************************************************************************)
(* Items for TLC: names and timespans are all texts over a few characters, *)
(* and each column type meets each kind of value, as default and in items. *)
(***************************************************************************)
EXTENDS Items

TypeName == <<"a", "a">>
C == <<"c">>
D == <<"d">>

Texts == { <<>>, <<"a">>, <<"a", Comma>>, <<Quote>>, <<Comma, Quote, Quote>>, <<"a", Newline>>,
           <<"date">>, <<"date", ".", "ms">>, <<"date", Comma, "ms">>, <<"1">>, <<"1", "h">>, <<"1", "d", "1", "h">>,
           <<"{", "}">>, <<"{", Quote, "a", Quote, ":", "1", Comma, Quote, "d", Quote, ":", "1", "}">>, <<"{">>, <<"null">> }

Values == {Str(t) : t \in Texts} \cup {Null, Bool(<<"true">>), Num(0), Num(-3), Num(-Exact - 1), Num(Exact), Num(Exact + 1), Frac(1)}
            \cup {Num(Widest - 1), Num(Widest), Num(-Widest - 2), Num(-Widest - 3)}

ObjectColumn(m) == [object |-> TRUE, keys |-> m]
NoObject == [object |-> FALSE, keys |-> <<>>]
Plain(name, type) == [name |-> Str(name), type |-> Str(<<type>>)]
WithDefault(type, v) == [name |-> Str(C), type |-> Str(<<type>>), defaultValue |-> v]
Optional(type, v) == [name |-> Str(C), type |-> Str(<<type>>), defaultValue |-> v, optional |-> Bool(<<"true">>)]

Input(m, columns) == [object |-> TRUE, keys |-> m, hasColumns |-> TRUE, columns |-> columns]
Named(m) == Input(m, <<ObjectColumn(Plain(C, "string"))>>)
Typed(columns) == Input([name |-> Str(TypeName)], columns)

SomeColumns ==
  LET c == ObjectColumn(Plain(C, "string"))
      d(type) == ObjectColumn(Plain(D, type))
  IN  { <<>>, <<c, d("int")>>, <<c, d("real"), ObjectColumn(Plain(<<"e">>, "timespan"))>>, <<c, d("bool"), c>>,
        <<NoObject>>, <<c, NoObject>>, <<NoObject, c, NoObject>>,
        <<ObjectColumn(Plain(IngestTime, "datetime"))>>, <<c, ObjectColumn([name |-> Num(1)])>>,
        <<ObjectColumn([name |-> Str(C)])>>, <<ObjectColumn([name |-> Str(C), type |-> Str(<<"int">>), optional |-> Num(1)])>>,
        <<ObjectColumn([name |-> Str(C), type |-> Str(<<"int">>), optional |-> Bool(<<"true">>)]), d("string")>> }

MCDefinitionInput ==
  {Named([name |-> Str(n)]) : n \in BoundedSeq({"a", "-", "A"}, 5)}
    \cup {Named([name |-> Str(TypeName), folder |-> v]) : v \in {Null, Num(1), Str(<<"A">>), Str(<<"a", "-", "a">>)}}
    \cup {Named([name |-> Str(TypeName), latencyMinutes |-> v]) : v \in {Null, Num(0), Num(3), Num(-1), Num(Widest), Frac(0), Str(<<"1">>)}}
    \cup {Named([name |-> Str(TypeName), documentation |-> v]) : v \in {Str(<<"a">>), Num(1)}}
    \cup {Named([name |-> v]) : v \in {Num(1), Str(IngestTime)}}
    \cup {[Named([name |-> Str(TypeName)]) EXCEPT !.hasColumns = FALSE], [Named([name |-> Str(TypeName)]) EXCEPT !.object = FALSE]}
    \cup {Typed(columns) : columns \in SomeColumns}
    \cup {Typed(<<ObjectColumn(WithDefault(type, v))>>) : type \in ColumnTypes \cup {"none"}, v \in Values}
    \cup {Typed(<<ObjectColumn(Optional(type, v))>>) : type \in {"int", "string"}, v \in {Num(0), Str(<<"a">>)}}
    \cup {Typed(<<ObjectColumn(Plain(C, type))>>) : type \in ColumnTypes}
    \cup {Typed(<<ObjectColumn(WithDefault("timespan", Str(t)))>>) : t \in BoundedSeq({"1", ".", "d", "h"}, 4)}

Item(type, data) == [keys |-> 1, object |-> TRUE, typeName |-> type, data |-> data]
Empty == <<>>
Of(elements) == [array |-> TRUE, elements |-> elements]

SomeElements ==
  { Item(TypeName, Empty), Item(TypeName, C :> Str(<<"a", Comma>>)), Item(<<"a", "-", "a">>, C :> Str(<<"a">>)),
    [Item(TypeName, Empty) EXCEPT !.keys = 2], [Item(TypeName, Empty) EXCEPT !.object = FALSE] }

MCItemInput ==
  {[array |-> FALSE, elements |-> <<>>], Of(<<>>)}
    \cup {Of(<<Item(TypeName, C :> v)>>) : v \in Values}
    \cup {Of(<<Item(TypeName, (C :> v) @@ (D :> w))>>) :
            v \in {Str(<<Quote>>), Num(0), Str(<<"a", Newline>>)}, w \in {Num(-3), Str(<<Comma, Quote, Quote>>), Frac(1)}}
    \cup {Of(<<e, f, Item(TypeName, C :> Str(<<"a">>))>>) : e \in SomeElements, f \in SomeElements}

=============================================================================
