--------------------------- MODULE TextConversion ---------------------------
(***************************************************************************)
(* Conversions of the guest library (src/wasm/include/conv.hpp): values    *)
(* and vectors into numbers, booleans and texts, and texts back, with the  *)
(* part of fast_float.h that reads a number.                               *)
(*                                                                         *)
(* A text is a sequence of characters. Integers have W32 and W64 bits. A   *)
(* float is "inf", "-inf", "nan" or a number of hundredths: it has one     *)
(* decimal more than std::to_string prints. Rounding to binary fractions   *)
(* is left out. A conversion yields the set of its possible outcomes, which *)
(* has more than one where the program's behaviour is undefined.           *)
(***************************************************************************)
EXTENDS Integers, Sequences

CONSTANTS W32, W64,   \* bits of i32 and i64
          MaxFloat    \* a float is infinite from this power of ten on

ASSUME TextAssumption ==
    /\ W32 \in Nat \ {0}
    /\ W64 \in Nat
    /\ W64 > W32
    /\ MaxFloat \in Nat

Nil == "nil"
Bol == "bol"
I32 == "i32"
I64 == "i64"
F32 == "f32"
F64 == "f64"
Txt == "txt"

Value(tag, of) == [tag |-> tag, of |-> of]
Abort == Value("abort", 0)

Float(cls, of) == [cls |-> cls, of |-> of]
Infinite(neg) == Float(IF neg THEN "-inf" ELSE "inf", 0)

IntRange(w) == -(2 ^ (w - 1)) .. (2 ^ (w - 1) - 1)
Wrap(w, n) == ((n + 2 ^ (w - 1)) % 2 ^ w) - 2 ^ (w - 1)
Width(tag) == IF tag = I32 THEN W32 ELSE W64

-----------------------------------------------------------------------------
(* Reading digits. Positions are those of C: 0 is the first character.     *)

Digits == {"0", "1", "2", "3", "4", "5", "6", "7", "8", "9"}
DigitValue == [c \in Digits |->
                 CASE c = "0" -> 0 [] c = "1" -> 1 [] c = "2" -> 2 [] c = "3" -> 3 [] c = "4" -> 4
                   [] c = "5" -> 5 [] c = "6" -> 6 [] c = "7" -> 7 [] c = "8" -> 8 [] c = "9" -> 9]

At(s, p) == IF p < Len(s) THEN s[p + 1] ELSE "end"
IsInteger(c) == c \in Digits

\* Where the digits from p on end.
DigitsEnd(s, p) ==
    LET end[q \in p .. Len(s)] == IF IsInteger(At(s, q)) THEN end[q + 1] ELSE q
    IN  end[p]

\* The number that the digits from p to q are.
Number(s, p, q) ==
    LET upto[k \in p .. q] == IF k = p THEN 0 ELSE 10 * upto[k - 1] + DigitValue[s[k]]
    IN  upto[q]

Character == [d \in 0 .. 9 |-> CHOOSE c \in Digits : DigitValue[c] = d]

\* The digits of a number that is not negative, without leading zeros.
Decimal(n) ==
    LET text[k \in 0 .. n] ==
            IF k < 10 THEN <<Character[k]>> ELSE Append(text[k \div 10], Character[k % 10])
    IN  text[n]

StartsWith(s, word) == Len(s) >= Len(word) /\ SubSeq(s, 1, Len(word)) = word

\* std::from_chars of an integer: a minus sign and digits, the rest is ignored.
FromChars(s, w) ==
    LET neg == At(s, 0) = "-"
        p == IF neg THEN 1 ELSE 0
        q == DigitsEnd(s, IF p <= Len(s) THEN p ELSE Len(s))
        n == IF neg THEN -Number(s, p, q) ELSE Number(s, p, q)
    IN  IF q = p THEN [ec |-> "invalid", val |-> 0]
        ELSE IF n \in IntRange(w) THEN [ec |-> "ok", val |-> n]
        ELSE [ec |-> "range", val |-> 0]

\* What is read is the value, if reading went well.
Checked(tag, r) == IF r.ec = "ok" THEN Value(tag, r.val) ELSE Abort

\* Variant: a text that is too long for a number is one all the same.
txt2i32_Unchecked(s) == Checked(I32, [ec |-> "ok", val |-> FromChars(s, W32).val])

txt2i32(s) == Checked(I32, FromChars(s, W32))
txt2i64(s) == Checked(I64, FromChars(s, W64))

True == <<"t", "r", "u", "e">>
False == <<"f", "a", "l", "s", "e">>
Else == <<"e", "l", "s", "e">>
UpperTrue == <<"T", "r", "u", "e">>
UpperFalse == <<"F", "a", "l", "s", "e">>

\* A number out of range is no number: only words are left for it.
BolOf(r, s) ==
    IF r.ec = "ok" THEN Value(Bol, r.val # 0)
    ELSE IF StartsWith(s, True) \/ StartsWith(s, UpperTrue) THEN Value(Bol, TRUE)
    ELSE IF StartsWith(s, False) \/ StartsWith(s, UpperFalse) THEN Value(Bol, FALSE)
    ELSE Abort
txt2bol(s) == BolOf(FromChars(s, W64), s)

-----------------------------------------------------------------------------
(* fast_float: a decimal number with an optional fraction and exponent.    *)

Invalid == [valid |-> FALSE, negative |-> FALSE, mantissa |-> 0, exponent |-> 0]

\* A sign must be followed by a digit or the point, an 'e' without digits after it
\* is not part of the number.
parse_number_string(s) ==
    LET neg == At(s, 0) = "-"
        p == IF neg THEN 1 ELSE 0
        signed == ~neg \/ IsInteger(At(s, 1)) \/ At(s, 1) = "."
        q == DigitsEnd(s, p)
        dot == At(s, q) = "."
        r == IF dot THEN DigitsEnd(s, q + 1) ELSE q
        part == IF dot THEN r - q - 1 ELSE 0
        esign == At(s, r + 1) \in {"-", "+"}
        e == IF esign THEN r + 2 ELSE r + 1
        f == IF At(s, r) \in {"e", "E"} /\ IsInteger(At(s, e)) THEN DigitsEnd(s, e) ELSE r
    IN  IF ~signed \/ q - p + part = 0 THEN Invalid
        ELSE [valid |-> TRUE, negative |-> neg,
              mantissa |-> Number(SubSeq(s, p + 1, q) \o SubSeq(s, q + 2, r), 0, q - p + part),
              exponent |-> IF f = r THEN -part
                           ELSE IF At(s, r + 1) = "-" THEN -part - Number(s, e, f)
                           ELSE Number(s, e, f) - part]

\* Upper case is left out of the words.
parse_infnan(s) ==
    LET neg == At(s, 0) = "-"
        t == IF neg THEN SubSeq(s, 2, Len(s)) ELSE s
    IN  IF StartsWith(t, <<"n", "a", "n">>) THEN [ec |-> "ok", val |-> Float("nan", 0)]
        ELSE IF StartsWith(t, <<"i", "n", "f">>) THEN [ec |-> "ok", val |-> Infinite(neg)]
        ELSE [ec |-> "invalid", val |-> 0]

DecimalsOf(n) == IF n = 0 THEN 0 ELSE Len(Decimal(n))

\* mantissa * 10^exponent as a float. There is no range error: what is too large
\* is infinite.
ToFloat(neg, mantissa, exponent) ==
    LET shift == exponent + 2
        unit == IF shift >= 0 THEN mantissa * 10 ^ shift
                ELSE (2 * mantissa + 10 ^ (-shift)) \div (2 * 10 ^ (-shift))
    IN  IF mantissa # 0 /\ DecimalsOf(mantissa) + exponent > MaxFloat THEN Infinite(neg)
        ELSE IF mantissa = 0 \/ DecimalsOf(mantissa) + shift < 0 THEN Float("num", 0)
        ELSE Float("num", IF neg THEN -unit ELSE unit)

from_parts(s, pns) ==
    IF pns.valid
    THEN [ec |-> "ok", val |-> ToFloat(pns.negative, pns.mantissa, pns.exponent)]
    ELSE parse_infnan(s)
from_chars(s) ==
    IF s = <<>> THEN [ec |-> "invalid", val |-> 0] ELSE from_parts(s, parse_number_string(s))

txt2f32(s) == Checked(F32, from_chars(s))
txt2f64(s) == Checked(F64, from_chars(s))

from_txt(tag, s) ==
    CASE tag = Bol -> txt2bol(s)
      [] tag = I32 -> txt2i32(s)
      [] tag = I64 -> txt2i64(s)
      [] tag = F32 -> txt2f32(s)
      [] tag = F64 -> txt2f64(s)

-----------------------------------------------------------------------------
(* Writing. *)

Magnitude(n) == IF n < 0 THEN -n ELSE n
Sign(n) == IF n < 0 THEN <<"-">> ELSE <<>>
IntegerText(n) == Sign(n) \o Decimal(Magnitude(n))

\* One decimal stands for the six of std::to_string, of which the last is rounded.
Rounded(n) == {t \in {n \div 10, n \div 10 + 1} : Magnitude(10 * t - n) <= 5}
FloatTexts(x) ==
    CASE x.cls = "num" ->
            {Sign(x.of) \o Decimal(t \div 10) \o <<".">> \o Decimal(t % 10) :
                t \in Rounded(Magnitude(x.of))}
      [] x.cls = "inf" -> {<<"i", "n", "f">>}
      [] x.cls = "-inf" -> {<<"-", "i", "n", "f">>}
      [] x.cls = "nan" -> {<<"n", "a", "n">>}

-----------------------------------------------------------------------------
(* Conversions of values.                                                  *)

\* static_cast of an integer, and of a float: what the integer type cannot hold
\* becomes any integer.
CastInteger(tag, n) ==
    IF tag \in {I32, I64} THEN {Value(tag, Wrap(Width(tag), n))}
    ELSE {Value(tag, Float("num", 100 * n))}
Truncated(n) == IF n < 0 THEN -(-n \div 100) ELSE n \div 100
CastFloat(tag, x) ==
    IF tag \notin {I32, I64} THEN {Value(tag, x)}
    ELSE IF x.cls = "num" /\ Truncated(x.of) \in IntRange(Width(tag))
         THEN {Value(tag, Truncated(x.of))}
         ELSE {Value(tag, n) : n \in IntRange(Width(tag))}

into_number(tag, v) ==
    CASE v.tag = Bol -> CastInteger(tag, IF v.of THEN 1 ELSE 0)
      [] v.tag \in {I32, I64} -> CastInteger(tag, v.of)
      [] v.tag \in {F32, F64} -> CastFloat(tag, v.of)
      [] v.tag = Txt -> {from_txt(tag, v.of)}
      [] OTHER -> {Abort}

into_boolean(v) ==
    CASE v.tag = Bol -> {v}
      [] v.tag \in {I32, I64} -> {Value(Bol, v.of # 0)}
      [] v.tag \in {F32, F64} -> {Value(Bol, v.of # Float("num", 0))}
      [] v.tag = Txt -> {from_txt(Bol, v.of)}
      [] OTHER -> {Abort}

into_string(v) ==
    CASE v.tag = Bol -> {Value(Txt, IF v.of THEN True ELSE Else)}
      [] v.tag \in {I32, I64} -> {Value(Txt, IntegerText(v.of))}
      [] v.tag \in {F32, F64} -> {Value(Txt, t) : t \in FloatTexts(v.of)}
      [] v.tag = Txt -> {v}
      [] OTHER -> {Abort}

to_type(tag, v) ==
    CASE tag = Bol -> into_boolean(v)
      [] tag = Txt -> into_string(v)
      [] OTHER -> into_number(tag, v)

(* Conversions of vectors: [tag |-> ..., data |-> ...]. One element that    *)
(* does not convert aborts the guest.                                      *)

Vector(tag, data) == [tag |-> tag, data |-> data]
NoVector == Vector("abort", <<>>)

Elements(tag, outcomes) ==
    IF \E i \in DOMAIN outcomes : outcomes[i] = {Abort} THEN {NoVector}
    ELSE {Vector(tag, data) :
            data \in {d \in [DOMAIN outcomes -> UNION {{o.of : o \in outcomes[i]} : i \in DOMAIN outcomes}] :
                        \A i \in DOMAIN outcomes : Value(tag, d[i]) \in outcomes[i]}}

\* Variant: the last element is left out.
into_number_vector_Short(tag, vec) ==
    IF vec.tag = Nil THEN {NoVector}
    ELSE Elements(tag, [i \in 1 .. (Len(vec.data) - 1) |-> into_number(tag, Value(vec.tag, vec.data[i]))])

into_number_vector(tag, vec) ==
    IF vec.tag = Nil THEN {NoVector}
    ELSE Elements(tag, [i \in DOMAIN vec.data |-> into_number(tag, Value(vec.tag, vec.data[i]))])

into_boolean_vector(vec) ==
    IF vec.tag = Nil THEN {NoVector}
    ELSE Elements(Bol, [i \in DOMAIN vec.data |-> into_boolean(Value(vec.tag, vec.data[i]))])

into_string_vector(vec) ==
    IF vec.tag = Nil THEN {NoVector}
    ELSE Elements(Txt, [i \in DOMAIN vec.data |-> into_string(Value(vec.tag, vec.data[i]))])

to_type_vector(tag, vec) ==
    CASE tag = Bol -> into_boolean_vector(vec)
      [] tag = Txt -> into_string_vector(vec)
      [] OTHER -> into_number_vector(tag, vec)
=============================================================================
