------------------------------ MODULE LogFormat ------------------------------
(***************************************************************************)
(* The formatting of a guest's log messages (src/wasm/include/format.hpp   *)
(* and log.hpp): patterns with placeholders such as {}, {0} and            *)
(* {0:*>+8.2$}, resolved at compile time, and the texts they make of       *)
(* numbers, texts, pairs, tuples and containers.                           *)
(*                                                                         *)
(* A pattern is a sequence of characters, a position counts from 0. An     *)
(* argument is a value of TextConversion, or [tag |-> "list", of |-> ...]  *)
(* for a container, "pair" or "tuple", whose elements are values. What a   *)
(* static_assert refuses does not compile: Rejected. Of what compiles it   *)
(* is said which texts may come of it and whether it ends, or may loop or  *)
(* abort instead. Widths and precisions taken from arguments are those of  *)
(* integers. Hexadecimal floats and containers in containers are left out. *)
(***************************************************************************)
EXTENDS TextConversion

CONSTANT MaxText   \* the longest text for which the guest has memory
ASSUME LogAssumption == MaxText \in Nat

Attempt(ends, texts) == [compiles |-> TRUE, ends |-> ends, texts |-> texts]
Texts(set) == Attempt(TRUE, set)
Endless == Attempt(FALSE, {})
Rejected == [compiles |-> FALSE, ends |-> TRUE, texts |-> {}]
Then(x, y) ==
    IF x.compiles /\ y.compiles
    THEN Attempt(x.ends /\ y.ends, {s \o t : s \in x.texts, t \in y.texts})
    ELSE Rejected

\* n copies of a character.
Repeat(n, c) == [i \in 1 .. n |-> c]
From(s, p) == SubSeq(s, p + 1, Len(s))

is_align(c) == c \in {"<", "^", ">"}
is_sign(c) == c \in {"+", "-"}
is_numeral_type(c) == c \in {"x", "X", "b", "o"}

\* The first place of a character from start on, or end.
find(p, c, start, end) ==
    LET at[k \in start .. end] == IF k = end \/ At(p, k) = c THEN k ELSE at[k + 1]
    IN  at[start]

\* The digits from begin to end as a number, of which there are too few to wrap.
as_size_t(p, begin, end) ==
    IF \A k \in begin .. (end - 1) : IsInteger(At(p, k)) THEN <<Number(p, begin, end)>> ELSE <<>>

-----------------------------------------------------------------------------
(* Specifications. mode is the set of parts that are given; WidthArg and   *)
(* PreciArg include Width and Precision.                                   *)

Default == [mode |-> {}, fill |-> " ", align |-> "<", sign |-> "none", type |-> "none",
            width |-> 0, precision |-> 0]

\* The anchors, in the order the parts must have.
Anchors == [Default |-> 0, Align |-> 1, Sign |-> 2, Type |-> 3, Padding |-> 4, Width |-> 5,
            Precision |-> 6]

Has(rest, parts) == rest # <<>> /\ parts \subseteq rest[1].mode
With(rest, parts) == [rest[1] EXCEPT !.mode = @ \cup parts]

\* One part before the rest of a specification, each behind its static_asserts.
AlignPart(anchor, rest, fill, align) ==
    IF anchor < Anchors.Align /\ Has(rest, {"Width"}) /\ ~Has(rest, {"Padding"})
    THEN <<[With(rest, {"Align"}) EXCEPT !.fill = fill, !.align = align]>>
    ELSE <<>>
SignPart(anchor, rest, sign) ==
    IF anchor < Anchors.Sign /\ rest # <<>> THEN <<[With(rest, {"Sign"}) EXCEPT !.sign = sign]>> ELSE <<>>
\* Variant: '#' is accepted without a type.
HashPart_Alone(anchor, rest) == IF anchor < Anchors.Type THEN rest ELSE <<>>
HashPart(anchor, rest) == IF anchor < Anchors.Type /\ Has(rest, {"Type"}) THEN rest ELSE <<>>
PaddingPart(anchor, rest) ==
    IF anchor < Anchors.Padding /\ Has(rest, {"Width"}) THEN <<With(rest, {"Padding"})>> ELSE <<>>
WidthPart(anchor, rest, n, parts) ==
    IF anchor < Anchors.Width /\ rest # <<>> /\ n # <<>>
    THEN <<[With(rest, parts) EXCEPT !.width = n[1]]>> ELSE <<>>
PrecisionPart(anchor, rest, n, parts) ==
    IF anchor < Anchors.Precision /\ rest # <<>> /\ n # <<>>
    THEN <<[With(rest, parts) EXCEPT !.precision = n[1]]>> ELSE <<>>

WidthArg == {"Width", "WidthArg"}
PreciArg == {"Precision", "PreciArg"}

\* The part of the pattern from begin to end, as an option.
as_spec(p, begin, end) ==
    LET spec[b \in begin .. end] == [anchor \in 0 .. 6 |->
            LET c == At(p, b)
                dot == c = "."
                pos == DigitsEnd(p, IF b < end THEN b + 1 ELSE b)
                arg == At(p, pos) = "$"
                parts == IF dot THEN IF arg THEN PreciArg ELSE {"Precision"}
                         ELSE IF arg THEN WidthArg ELSE {"Width"}
                n == as_size_t(p, IF dot THEN b + 1 ELSE b, pos)
                After(k, part) == spec[k][Anchors[part]]
            IN  IF b = end THEN <<Default>>
                ELSE IF b + 1 < end /\ is_align(At(p, b + 1))
                     THEN AlignPart(anchor, After(b + 2, "Align"), c, At(p, b + 1))
                ELSE IF is_align(c) THEN AlignPart(anchor, After(b + 1, "Align"), " ", c)
                ELSE IF is_sign(c) THEN SignPart(anchor, After(b + 1, "Sign"), c)
                ELSE IF c = "#" THEN HashPart(anchor, After(b + 1, "Type"))
                ELSE IF c = "0" /\ At(p, b + 1) # "$"
                     THEN PaddingPart(anchor, After(b + 1, "Padding"))
                ELSE IF IsInteger(c)
                     THEN WidthPart(anchor, After(IF arg THEN pos + 1 ELSE pos, "Width"), n, parts)
                ELSE IF dot /\ b + 1 < end
                     THEN PrecisionPart(anchor, After(IF arg THEN pos + 1 ELSE pos, "Precision"), n, parts)
                ELSE IF is_numeral_type(c) /\ b + 1 = end
                     THEN <<[Default EXCEPT !.mode = {"Type"}, !.type = c]>>
                ELSE <<>>]
    IN  spec[begin][Anchors.Default]

-----------------------------------------------------------------------------
(* Numbers. *)

BaseOf(type) == CASE type \in {"x", "X"} -> 16 [] type = "b" -> 2 [] type = "o" -> 8
LowerLetter == <<"a", "b", "c", "d", "e", "f">>
UpperLetter == <<"A", "B", "C", "D", "E", "F">>
DigitOf(d, type) ==
    IF d < 10 THEN Character[d]
    ELSE IF type = "X" THEN UpperLetter[d - 9] ELSE LowerLetter[d - 9]

\* The loops of integer_to_string: digits until the number is 0.
InBase(n, type) ==
    LET base == BaseOf(type)
        digits[k \in 0 .. n] ==
            (IF k \div base = 0 THEN <<>> ELSE digits[k \div base]) \o <<DigitOf(k % base, type)>>
    IN  digits[n]

\* The least integer has no positive counterpart, which is undefined: num is taken for
\* the number that is not negative, whose digits come out right, or it stays negative
\* and >>= never makes it 0.
IsLeast(v) == v.of = -(2 ^ (Width(v.tag) - 1))
integer_to_string(spec, v) ==
    IF "Precision" \in spec.mode THEN Rejected
    ELSE IF "Type" \notin spec.mode THEN Texts({IntegerText(v.of)})
    ELSE Attempt(~IsLeast(v),
                 {(IF v.of < 0 THEN <<"-", "0">> ELSE <<"0">>)
                  \o <<IF spec.type = "X" THEN "x" ELSE spec.type>>
                  \o InBase(Magnitude(v.of), spec.type)})

\* The conversion of an integer to std::size_t, which has 32 bits on wasm32.
SizeT(n) == n % 2 ^ W32

\* printf's "%.<precision>f": a half may be rounded either way.
FixedTexts(x, precision) ==
    LET unit == 10 ^ precision
        m == Magnitude(x.of) * unit
        Point(t) == IF precision = 0 THEN <<>>
                    ELSE <<".">> \o Repeat(precision - Len(Decimal(t % unit)), "0") \o Decimal(t % unit)
    IN  IF x.cls # "num" THEN FloatTexts(x)
        ELSE {Sign(x.of) \o Decimal(t \div unit) \o Point(t) :
                 t \in {u \in {m \div 100, m \div 100 + 1} : Magnitude(100 * u - m) <= 50}}

\* A buffer of 10 characters, the last of which is a NUL, then resized to the
\* length the text would have had.
Buffer == 10
Resized(t) == [i \in DOMAIN t |-> IF i < Buffer THEN t[i] ELSE "NUL"]

float_to_string(spec, v, args) ==
    LET indirect == "PreciArg" \in spec.mode
        precision == IF indirect THEN SizeT(args[spec.precision + 1].of) ELSE spec.precision
    IN  IF {"Precision", "Type"} \cap spec.mode = {} THEN Texts(FloatTexts(v.of))
        ELSE IF "Type" \in spec.mode \/ (indirect /\ spec.precision >= Len(args)) THEN Rejected
        ELSE IF precision \notin 0 .. MaxText THEN Endless
        ELSE Texts({Resized(t) : t \in FixedTexts(v.of, precision)})

IsNumeral(v) == v.tag \in {I32, I64, F32, F64}
IsNegative(v) == IF v.tag \in {I32, I64} THEN v.of < 0 ELSE v.of.cls = "-inf" \/ v.of.of < 0
IsNan(v) == v.tag \in {F32, F64} /\ v.of.cls = "nan"

\* The width, from an argument if need be.
WidthOf(spec, args) ==
    IF "WidthArg" \in spec.mode THEN SizeT(args[spec.width + 1].of) ELSE spec.width
WidthIn(spec, args) == "WidthArg" \in spec.mode => spec.width < Len(args)

\* Zeros go between the sign or the base and the digits.
\* Variant: the sign is forgotten in the place of the zeros.
Padded_Unsigned(spec, v, width, t) ==
    LET pos == IF "Type" \in spec.mode THEN 2 ELSE 0
    IN  IF Len(t) >= width THEN t
        ELSE SubSeq(t, 1, pos) \o Repeat(width - Len(t), "0") \o From(t, pos)
Padded(spec, v, width, t) ==
    LET has_sign == spec.sign = "+" \/ IsNegative(v)
        signed == IF has_sign /\ ~IsNegative(v) THEN <<"+">> \o t ELSE t
        pos == (IF "Type" \in spec.mode THEN 2 ELSE 0) + (IF has_sign THEN 1 ELSE 0)
    IN  IF Len(signed) >= width THEN signed
        ELSE SubSeq(signed, 1, pos) \o Repeat(width - Len(signed), "0") \o From(signed, pos)

\* A width for which there is no memory ends the guest.
Extended(spec, v, args, result) ==
    LET Signed(t) == IF spec.sign = "+" /\ ~IsNegative(v) /\ ~IsNan(v) THEN <<"+">> \o t ELSE t
        width == WidthOf(spec, args)
    IN  IF ~result.compiles \/ ~WidthIn(spec, args) THEN Rejected
        ELSE IF "Padding" \notin spec.mode THEN Attempt(result.ends, {Signed(t) : t \in result.texts})
        ELSE IF width \notin 0 .. MaxText THEN Endless
        ELSE Attempt(result.ends, {Padded(spec, v, width, t) : t \in result.texts})
numeral_to_string(spec, v, args) ==
    Extended(spec, v, args, IF v.tag \in {I32, I64} THEN integer_to_string(spec, v)
                            ELSE float_to_string(spec, v, args))

-----------------------------------------------------------------------------
(* Texts, pairs, tuples and containers: their elements take no part of the  *)
(* specification.                                                          *)

plain_to_string(v) ==
    IF v.tag = Txt THEN Texts({v.of}) ELSE numeral_to_string(Default, v, <<>>)

\* The elements, a comma between each two.
Listed(vs) ==
    LET upto[n \in 0 .. Len(vs)] ==
            IF n = 0 THEN Texts({<<>>})
            ELSE Then(upto[n - 1],
                      Then(Texts({IF n = 1 THEN <<>> ELSE <<",", " ">>}), plain_to_string(vs[n])))
    IN  upto[Len(vs)]
Enclosed(open, vs, close) == Then(Texts({<<open>>}), Then(Listed(vs), Texts({<<close>>})))

pair_to_string(vs) == Enclosed("(", vs, ")")
tuple_to_string(vs) == Enclosed("(", vs, ")")
\* A string_view is one, too: of the codes of its characters.
container_to_string(vs) == Enclosed("{", vs, "}")

to_string(spec, v, args) ==
    CASE v.tag = Txt -> Texts({v.of})
      [] v.tag = "pair" -> pair_to_string(v.of)
      [] v.tag = "tuple" -> tuple_to_string(v.of)
      [] v.tag = "list" -> container_to_string(v.of)
      [] OTHER -> numeral_to_string(spec, v, args)

\* Filled up to the width.
Aligned(spec, width, t) ==
    LET rest == IF Len(t) < width THEN width - Len(t) ELSE 0
        left == CASE spec.align = "<" -> 0 [] spec.align = "^" -> rest \div 2 [] spec.align = ">" -> rest
    IN  Repeat(left, spec.fill) \o t \o Repeat(rest - left, spec.fill)

Filled(spec, args, result) ==
    IF "Width" \notin spec.mode \/ ~result.compiles THEN result
    ELSE IF ~WidthIn(spec, args) THEN Rejected
    ELSE IF WidthOf(spec, args) \notin 0 .. MaxText THEN Endless
    ELSE Attempt(result.ends, {Aligned(spec, WidthOf(spec, args), t) : t \in result.texts})
as_string(spec, v, args) == Filled(spec, args, to_string(spec, v, args))

-----------------------------------------------------------------------------
(* Patterns. *)

\* The argument at a position, if both are there.
Placed(position, spec, args) ==
    IF position = <<>> \/ spec = <<>> THEN Rejected
    ELSE IF position[1] >= Len(args) THEN Rejected
    ELSE as_string(spec[1], args[position[1] + 1], args)

\* {} takes the arguments in turn; a pattern may go on after a single }.
format_impl(p, args) ==
    LET size == Len(p)
        from[i \in 0 .. size] == [arg_ind \in 0 .. size |->
            LET end_pos == find(p, "}", i + 1, size)
                colon_pos == find(p, ":", i + 1, end_pos)
                pos == find(p, "{", i + 1, size)
            IN  IF i = size THEN Texts({<<>>})
                ELSE IF At(p, i) # "{" THEN Then(Texts({SubSeq(p, i + 1, pos)}), from[pos][arg_ind])
                ELSE IF i + 1 = size THEN Rejected
                ELSE IF At(p, i + 1) = "{" THEN Then(Texts({<<"{">>}), from[i + 2][arg_ind])
                ELSE IF At(p, i + 1) = "}"
                     THEN Then(Placed(<<arg_ind>>, <<Default>>, args), from[i + 2][arg_ind + 1])
                ELSE IF end_pos = size THEN Rejected
                ELSE Then(Placed(as_size_t(p, i + 1, colon_pos),
                                 IF colon_pos < end_pos THEN as_spec(p, colon_pos + 1, end_pos)
                                 ELSE <<Default>>,
                                 args),
                          from[end_pos + 1][arg_ind])]
    IN  from[0][0]

\* What log<pattern>(level, args...) hands to the worker: one of several messages where
\* the outcome may differ, or nothing if it does not come back.
Silence == [level |-> "none", msg |-> <<>>]
log(level, p, args) ==
    LET r == format_impl(p, args)
    IN  {[level |-> level, msg |-> t] : t \in r.texts} \cup {m \in {Silence} : ~r.ends}
=============================================================================
