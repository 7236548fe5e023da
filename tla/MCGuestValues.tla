---------------------------- MODULE MCGuestValues ----------------------------
(* An instance of GuestValues: i32 has 6 bits and i64 has 9, a float is     *)
(* infinite from 1000 on. Texts and specifications are all those of a few   *)
(* characters, with some longer ones.                                       *)
EXTENDS GuestValues

Fl(n) == Float("num", n)
MCFloats == {Fl(n) : n \in {-12345, -150, -99, -5, 0, 4, 6, 25, 100, 999, 1234}}
            \cup {Float(c, 0) : c \in {"inf", "-inf", "nan"}}
MCTxt == {<<>>, <<"a", " ">>, <<"-", "1">>}

MCNumbers ==
    {Value(Bol, b) : b \in BOOLEAN}
    \cup {Value(I32, n) : n \in IntRange(W32)} \cup {Value(I64, n) : n \in IntRange(W64)}
    \cup {Value(t, x) : t \in {F32, F64}, x \in MCFloats} \cup {Value(Txt, t) : t \in MCTxt}

UpTo2(S) == {<<>>} \cup {<<x>> : x \in S} \cup {<<x, y>> : x, y \in S}
MCVectors ==
    {Vector(Bol, d) : d \in UpTo2(BOOLEAN)} \cup {Vector(I32, d) : d \in UpTo2({-32, 0, 31})}
    \cup {Vector(I64, d) : d \in UpTo2({-256, 10, 255})}
    \cup {Vector(F32, d) : d \in UpTo2({Fl(25), Fl(-150), Float("nan", 0)})}
    \cup {Vector(F64, d) : d \in UpTo2({Fl(25), Fl(-12345), Float("inf", 0)})}
    \cup {Vector(Txt, d) : d \in UpTo2(MCTxt)}

Strings(S, n) == UNION {[1 .. k -> S] : k \in 0 .. n}
Words == {True, False, Else, UpperTrue, UpperFalse, NanWord, InfWord, <<"-">> \o InfWord, <<"-">> \o NanWord}
MCSomeTexts ==
    Strings({"-", "0", "3", ".", "e", " "}, 4)
    \cup Words \cup {w \o <<"e">> : w \in Words} \cup {<<"9", "9", "9">> \o w : w \in Words}
    \cup {<<"1", "2">> \o t : t \in Strings({"0", ".", "e", "-", "+"}, 3)}

Column(t, d) == Vector(t, d)
MCKeys == {1, 2, 3}
MCFrames ==
    [headers : UNION {[1 .. n -> MCKeys] : n \in {0, 1, 3, 4}},
     columns : {<<>>,
                <<Column(I64, <<5, 6>>), Column(Nil, <<>>), Column(Txt, <<>>)>>,
                <<Column(Txt, <<True>>), Column(I32, <<1>>), Column(F32, <<Fl(25)>>),
                  Column(Bol, <<TRUE>>), Column(I64, <<7>>)>>}]
MCLookups == 0 .. 4

MCSpecs == Strings({"<", "*", "+", "#", "0", "5", "$", ".", "x"}, 4)
           \cup {<<"*", "^", "+", "#">> \o t : t \in Strings({"0", "5", "$", ".", "x"}, 4)}

Of(tag, S) == {Value(tag, n) : n \in S}
MCIntegers == Of(I32, {-32, -31, -5, 0, 7, 31}) \cup Of(I64, {-256, -32, 255})
MCLogged ==
    [spec : {a \o g \o h \o z \o w \o t :
                a \in {<<>>, <<"<">>, <<"*", "^">>, <<"0", ">">>}, g \in {<<>>, <<"+">>},
                h \in {<<>>, <<"#">>}, z \in {<<>>, <<"0">>},
                w \in {<<>>, <<"5">>, <<"1", "$">>}, t \in {<<>>, <<"x">>, <<"X">>, <<"b">>, <<"o">>}}
            \cup {<<".", "2">>},
     v : MCIntegers, args : {<<>>, <<Value(I64, -1)>>, <<Value(I64, 5 - 64)>>, <<Value(I32, 7)>>}]

MCArguments == {<<>>, <<<<"7">>>>, <<<<"x">>>>}
Df(h, c) == <<[headers |-> h, columns |-> c]>>
MCChoices ==
    {None, Df(<<>>, <<>>), Df(<<1>>, <<Column(I64, <<3, 5, 8>>)>>), Df(<<1>>, <<Column(I64, <<>>)>>),
     Df(<<1>>, <<Column(Txt, <<True>>)>>), Df(<<1>>, <<Column(Nil, <<>>)>>)}
MCNodes ==
    {None, Df(<<>>, <<>>), Df(<<2, 1>>, <<Column(I64, <<40>>), Column(I64, <<-33>>)>>),
     Df(<<1, 2, 3>>, <<Column(I64, <<1, 2>>), Column(I64, <<7>>), Column(Nil, <<>>)>>),
     Df(<<3, 2, 1>>, <<Column(Txt, <<True>>), Column(I64, <<>>), Column(I64, <<7>>)>>),
     Df(<<2, 1>>, <<Column(I32, <<1>>), Column(I64, <<7>>)>>),
     Df(<<1, 2, 1>>, <<Column(I64, <<5>>), Column(I64, <<7>>), Column(Txt, <<True>>)>>)}
MCNeighbors ==
    {None, Df(<<>>, <<>>),
     Df(<<5, 3>>, <<Column(I64, <<5, 6>>), Column(I64, <<70, 80>>)>>),
     Df(<<5, 4, 3>>, <<Column(I64, <<5>>), Column(Txt, <<True>>), Column(I64, <<70, 80>>)>>),
     Df(<<5, 3>>, <<Column(I64, <<5, 6>>), Column(I64, <<70>>)>>),
     Df(<<5, 3>>, <<Column(Txt, <<True>>), Column(I64, <<70>>)>>),
     Df(<<5, 3>>, <<Column(Nil, <<>>), Column(I64, <<70>>)>>),
     Df(<<5, 3>>, <<Column(I64, <<5>>), Column(F64, <<Fl(25)>>)>>),
     Df(<<3, 3, 3>>, <<Column(I64, <<5>>), Column(I64, <<70>>), Column(I64, <<>>)>>),
     Df(<<3>>, <<Column(I64, <<5>>)>>)}
=============================================================================
