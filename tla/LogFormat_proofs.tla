-------------------------- MODULE LogFormat_proofs ---------------------------
(***************************************************************************)
(* Proofs about LogFormat, as guests call it: that the parser of           *)
(* specifications follows its grammar, for patterns of any length, and     *)
(* that what is logged of an integer shows that integer, for integers,     *)
(* specifications and arguments of any size.                               *)
(*                                                                         *)
(* A placeholder's specification is the specification moved by the three   *)
(* places before it; the number that digits show is found digit by digit.  *)
(***************************************************************************)
EXTENDS GuestValues_proofs

-----------------------------------------------------------------------------
(* The parser of specifications, and the grammar it is to follow.          *)

\* A pattern that is closed behind place end.
Closed(p, end) ==
    /\ IsSequence(p) /\ end \in Nat /\ Len(p) = end + 1
    /\ ~IsInteger(At(p, end)) /\ At(p, end) # "$"

\* Where the digits behind a place end.
Behind(p, end, b) == DigitsEnd(p, IF b < end THEN b + 1 ELSE b)

\* What as_spec makes of the parts from place b on, if it knows those that come later.
SpecBody(p, end, f, b, anchor) ==
    LET c == At(p, b)
        dot == c = "."
        pos == Behind(p, end, b)
        arg == At(p, pos) = "$"
        parts == IF dot THEN IF arg THEN PreciArg ELSE {"Precision"}
                 ELSE IF arg THEN WidthArg ELSE {"Width"}
        n == as_size_t(p, IF dot THEN b + 1 ELSE b, pos)
        After(k, part) == f[k][Anchors[part]]
    IN  IF b = end THEN <<Default>>
        ELSE IF b + 1 < end /\ is_align(At(p, b + 1))
             THEN AlignPart(anchor, After(b + 2, "Align"), c, At(p, b + 1))
        ELSE IF is_align(c) THEN AlignPart(anchor, After(b + 1, "Align"), " ", c)
        ELSE IF is_sign(c) THEN SignPart(anchor, After(b + 1, "Sign"), c)
        ELSE IF c = "#" THEN HashPart(anchor, After(b + 1, "Type"))
        ELSE IF c = "0" /\ At(p, b + 1) # "$" THEN PaddingPart(anchor, After(b + 1, "Padding"))
        ELSE IF IsInteger(c)
             THEN WidthPart(anchor, After(IF arg THEN pos + 1 ELSE pos, "Width"), n, parts)
        ELSE IF dot /\ b + 1 < end
             THEN PrecisionPart(anchor, After(IF arg THEN pos + 1 ELSE pos, "Precision"), n, parts)
        ELSE IF is_numeral_type(c) /\ b + 1 = end
             THEN <<[Default EXCEPT !.mode = {"Type"}, !.type = c]>>
        ELSE <<>>

\* Behind a place there are digits, and perhaps a dollar, before the pattern is closed.
LEMMA BehindIs ==
    ASSUME NEW p, NEW end, Closed(p, end), NEW b \in 0 .. end, b # end
    PROVE  LET pos == Behind(p, end, b)
           IN  /\ pos = DigitsEnd(p, b + 1) /\ pos \in b + 1 .. end /\ ~IsInteger(At(p, pos))
               /\ \A k \in b + 1 .. pos - 1 : IsInteger(At(p, k))
               /\ At(p, pos) = "$" => pos < end
<1> DEFINE pos == DigitsEnd(p, b + 1)
<1>1. Behind(p, end, b) = pos
      BY DEF Behind, Closed
<1>2. Len(p) \in Nat /\ b + 1 \in 0 .. Len(p) /\ end \in Nat /\ Len(p) = end + 1
      BY DEF Closed
<1>3. /\ pos \in b + 1 .. Len(p) /\ ~IsInteger(At(p, pos))
      /\ \A k \in b + 1 .. pos - 1 : IsInteger(At(p, k))
      BY <1>2, DigitsEndIs
<1> HIDE DEF pos
<1>4. pos # Len(p)
  <2>1. pos = Len(p) => end \in b + 1 .. pos - 1
        BY <1>2, <1>3
  <2> QED BY <1>3, <2>1 DEF Closed
<1>5. At(p, pos) = "$" => pos # end
      BY DEF Closed
<1> QED BY <1>1, <1>2, <1>3, <1>4, <1>5 DEF pos

\* It looks at later places only.
LEMMA SpecAgrees ==
    ASSUME NEW p, NEW end, Closed(p, end), NEW f, NEW g, NEW b \in 0 .. end, NEW a,
           \A k \in b + 1 .. end : f[k] = g[k]
    PROVE  SpecBody(p, end, f, b, a) = SpecBody(p, end, g, b, a)
<1> DEFINE c == At(p, b)
           pos == Behind(p, end, b)
           k == IF At(p, pos) = "$" THEN pos + 1 ELSE pos
<1>1. CASE b = end
      BY <1>1 DEF SpecBody
<1>2. CASE b # end
  <2>1. end \in Nat /\ b + 1 \in b + 1 .. end /\ k \in b + 1 .. end
    <3>1. pos \in b + 1 .. end /\ (At(p, pos) = "$" => pos < end)
          BY <1>2, BehindIs
    <3> HIDE DEF pos
    <3> QED BY <1>2, <3>1 DEF Closed
  <2> HIDE DEF pos
  <2>2. f[b + 1] = g[b + 1] /\ f[k] = g[k]
        BY <2>1
  <2>3. CASE b + 1 < end /\ is_align(At(p, b + 1))
    <3>1. f[b + 2] = g[b + 2]
          BY <2>1, <2>3
    <3> QED BY <1>2, <2>3, <3>1 DEF SpecBody
  <2>4. CASE ~(b + 1 < end /\ is_align(At(p, b + 1)))
    <3> DEFINE wide == c = "0" /\ At(p, b + 1) # "$"
    <3>1. CASE is_align(c)
          BY <1>2, <2>2, <2>4, <3>1 DEF SpecBody
    <3>2. CASE ~is_align(c) /\ is_sign(c)
          BY <1>2, <2>2, <2>4, <3>2 DEF SpecBody
    <3>3. CASE ~is_align(c) /\ ~is_sign(c) /\ c = "#"
          BY <1>2, <2>2, <2>4, <3>3 DEF SpecBody
    <3>4. CASE ~is_align(c) /\ ~is_sign(c) /\ c # "#" /\ wide
          BY <1>2, <2>2, <2>4, <3>4 DEF SpecBody
    <3>5. CASE ~is_align(c) /\ ~is_sign(c) /\ c # "#" /\ ~wide /\ IsInteger(c)
          BY <1>2, <2>2, <2>4, <3>5 DEF SpecBody, pos
    <3>6. CASE ~is_align(c) /\ ~is_sign(c) /\ c # "#" /\ ~wide /\ ~IsInteger(c)
          BY <1>2, <2>2, <2>4, <3>6 DEF SpecBody, pos
    <3> QED BY <3>1, <3>2, <3>3, <3>4, <3>5, <3>6
  <2> QED BY <2>3, <2>4
<1> QED BY <1>1, <1>2

\* A function f that knows what as_spec makes of every place.
Solves(p, end, f) == \A b \in 0 .. end, a \in 0 .. 6 : f[b][a] = SpecBody(p, end, f, b, a)

\* The recursion of as_spec comes to an end, whatever the pattern.
LEMMA SpecSteps ==
    ASSUME NEW p, NEW end, Closed(p, end)
    PROVE  \E f : as_spec(p, 0, end) = f[0][0] /\ Solves(p, end, f)
<1> DEFINE Made(b, f) == [a \in 0 .. 6 |-> SpecBody(p, end, f, b, a)]
           Body(m, f) == [b \in end - m .. end |-> Made(b, f)]
           Missing == {m \in Nat : m <= end /\ ~\E f : f = Body(m, f)}
<1>1. end \in Nat
      BY DEF Closed
<1>2. ASSUME NEW b \in 0 .. end, NEW f, NEW g, \A k \in b + 1 .. end : f[k] = g[k]
      PROVE  Made(b, f) = Made(b, g)
      BY <1>2, SpecAgrees
<1> HIDE DEF Made
<1>3. Missing = {}
  <2> SUFFICES ASSUME Missing # {} PROVE FALSE
      OBVIOUS
  <2>1. PICK m \in Missing : \A k \in Missing : m <= k
        BY Least
  <2>2. m # 0
    <3> DEFINE f == [b \in end .. end |-> Made(end, <<>>)]
    <3>1. Made(end, f) = Made(end, <<>>)
      <4>1. \A k \in end + 1 .. end : f[k] = <<>>[k]
            BY <1>1
      <4>2. end \in 0 .. end
            BY <1>1
      <4> HIDE DEF f
      <4> QED BY <1>2, <4>1, <4>2
    <3>2. f = Body(0, f)
      <4>1. end - 0 = end /\ \A b \in end .. end : b = end
            BY <1>1
      <4> QED BY <3>1, <4>1
    <3> HIDE DEF f
    <3> QED BY <2>1, <3>2
  <2>3. m - 1 \in Nat /\ m - 1 <= end /\ ~(m <= m - 1) /\ m \in Nat /\ m <= end
        BY <1>1, <2>1, <2>2
  <2>4. PICK f : f = Body(m - 1, f)
        BY <2>1, <2>3
  <2> DEFINE o == end - m
             g == [b \in o .. end |-> IF b = o THEN Made(o, f) ELSE f[b]]
  <2>5. o \in 0 .. end /\ end - (m - 1) = o + 1
        BY <1>1, <2>3
  <2>6. \A b \in o + 1 .. end : f[b] = Made(b, f)
        BY <2>4, <2>5
  <2>7. \A b \in o + 1 .. end : g[b] = f[b]
        BY <2>5
  <2>8. ASSUME NEW b \in o .. end PROVE g[b] = Made(b, g)
    <3>1. Made(b, g) = Made(b, f)
      <4>1. b \in 0 .. end /\ \A k \in b + 1 .. end : g[k] = f[k]
            BY <2>5, <2>7
      <4> HIDE DEF g
      <4> QED BY <1>2, <4>1
    <3>2. g[b] = Made(b, f)
      <4>1. CASE b = o
            BY <4>1
      <4>2. CASE b # o
        <5>1. b \in o + 1 .. end
              BY <2>5, <4>2
        <5> HIDE DEF g
        <5> QED BY <2>6, <2>7, <5>1
      <4> QED BY <4>1, <4>2
    <3> QED BY <3>1, <3>2
  <2>9. g = Body(m, g)
    <3>1. g = [b \in o .. end |-> g[b]]
          OBVIOUS
    <3> HIDE DEF g
    <3> QED BY <2>8, <3>1
  <2> HIDE DEF g
  <2> QED BY <2>1, <2>9
<1>4. \E f : f = Body(end, f)
      BY <1>1, <1>3
<1> DEFINE F == CHOOSE f : f = [b \in 0 .. end |-> Made(b, f)]
<1>5. F = [b \in 0 .. end |-> Made(b, F)]
  <2>1. end - end = 0
        BY <1>1
  <2>2. \E f : f = [b \in 0 .. end |-> Made(b, f)]
        BY <1>4, <2>1
  <2> QED BY <2>2
<1>6. as_spec(p, 0, end) = F[0][0]
      BY DEF as_spec, Made, SpecBody, Behind, Anchors
<1> HIDE DEF F
<1>7. Solves(p, end, F)
  <2> SUFFICES ASSUME NEW b \in 0 .. end, NEW a \in 0 .. 6
               PROVE  F[b][a] = SpecBody(p, end, F, b, a)
      BY DEF Solves
  <2>1. F[b] = Made(b, F)
        BY <1>5
  <2> QED BY <2>1 DEF Made
<1> QED BY <1>6, <1>7

\* Nothing but the first part may have an alignment.
LEMMA NoAlign ==
    ASSUME NEW p, NEW end, Closed(p, end), NEW f, Solves(p, end, f),
           NEW b \in 0 .. end, b # end, is_align(At(p, b)), NEW a \in 1 .. 6
    PROVE  f[b][a] = <<>>
<1>1. a \in 0 .. 6 /\ ~(a < Anchors.Align)
      BY DEF Anchors
<1>2. \A rest, fill, align : AlignPart(a, rest, fill, align) = <<>>
      BY <1>1 DEF AlignPart
<1>3. f[b][a] = SpecBody(p, end, f, b, a)
      BY <1>1 DEF Solves
<1>4. CASE b + 1 < end /\ is_align(At(p, b + 1))
      BY <1>2, <1>3, <1>4 DEF SpecBody
<1>5. CASE ~(b + 1 < end /\ is_align(At(p, b + 1)))
      BY <1>2, <1>3, <1>5 DEF SpecBody
<1> QED BY <1>4, <1>5

\* The other parts.
SpecRest(p, end, f, b, anchor) ==
    LET c == At(p, b)
        dot == c = "."
        pos == Behind(p, end, b)
        arg == At(p, pos) = "$"
        k == IF arg THEN pos + 1 ELSE pos
    IN  IF b = end THEN <<Default>>
        ELSE IF is_sign(c) THEN SignPart(anchor, f[b + 1][2], c)
        ELSE IF c = "#" THEN HashPart(anchor, f[b + 1][3])
        ELSE IF c = "0" /\ At(p, b + 1) # "$" THEN PaddingPart(anchor, f[b + 1][4])
        ELSE IF IsInteger(c)
             THEN WidthPart(anchor, f[k][5], <<Number(p, b, pos)>>,
                            IF arg THEN WidthArg ELSE {"Width"})
        ELSE IF dot /\ b + 1 < end
             THEN PrecisionPart(anchor, f[k][6], <<Number(p, b + 1, pos)>>,
                                IF arg THEN PreciArg ELSE {"Precision"})
        ELSE IF is_numeral_type(c) /\ b + 1 = end
             THEN <<[Default EXCEPT !.mode = {"Type"}, !.type = c]>>
        ELSE <<>>

\* The kinds of characters.
LEMMA Kinds ==
    /\ \A c : is_align(c) => /\ ~is_sign(c) /\ ~IsInteger(c) /\ c \notin {"#", ".", "$"}
                             /\ ~is_numeral_type(c)
    /\ \A c : is_sign(c) => ~IsInteger(c) /\ c \notin {"#", ".", "$"} /\ ~is_numeral_type(c)
    /\ \A c : IsInteger(c) => c \notin {"#", ".", "$"} /\ ~is_numeral_type(c)
    /\ \A c : is_numeral_type(c) => c \notin {"#", ".", "$"}
    /\ "#" # "." /\ "." # "$" /\ "#" # "$" /\ IsInteger("0")
BY DEF is_align, is_sign, IsInteger, Digits, is_numeral_type

\* Where an alignment is looked for in vain, it makes no difference.
LEMMA RestIs ==
    ASSUME NEW p, NEW end, Closed(p, end), NEW f, Solves(p, end, f),
           NEW b \in 0 .. end, NEW a \in 1 .. 6
    PROVE  f[b][a] = SpecRest(p, end, f, b, a)
<1> DEFINE c == At(p, b)
           pos == Behind(p, end, b)
           arg == At(p, pos) = "$"
           k == IF arg THEN pos + 1 ELSE pos
           wide == c = "0" /\ At(p, b + 1) # "$"
<1>1. a \in 0 .. 6 /\ ~(a < Anchors.Align) /\ end \in Nat
      BY DEF Anchors, Closed
<1>2. f[b][a] = SpecBody(p, end, f, b, a)
      BY <1>1 DEF Solves
<1>3. CASE b = end
      BY <1>2, <1>3 DEF SpecBody, SpecRest
<1>4. CASE b # end /\ b + 1 < end /\ is_align(At(p, b + 1))
  <2>1. f[b][a] = <<>>
    <3>1. \A rest, fill, align : AlignPart(a, rest, fill, align) = <<>>
          BY <1>1 DEF AlignPart
    <3> QED BY <1>2, <1>4, <3>1 DEF SpecBody
  <2>2. \A j \in 1 .. 6 : f[b + 1][j] = <<>>
    <3>1. b + 1 \in 0 .. end /\ b + 1 # end
          BY <1>1, <1>4
    <3> QED BY <1>4, <3>1, NoAlign
  <2>3. pos = b + 1 /\ ~arg
    <3>1. /\ pos \in b + 1 .. end /\ \A j \in b + 1 .. pos - 1 : IsInteger(At(p, j))
          BY <1>4, BehindIs
    <3> HIDE DEF pos
    <3>2. ~IsInteger(At(p, b + 1)) /\ At(p, b + 1) # "$"
          BY <1>4, Kinds
    <3>3. pos = b + 1
          BY <1>1, <3>1, <3>2
    <3> QED BY <3>2, <3>3
  <2>4. k = b + 1
        BY <2>3
  <2>5. /\ f[b + 1][2] = <<>> /\ f[b + 1][3] = <<>> /\ f[b + 1][4] = <<>> /\ f[b + 1][5] = <<>>
        /\ f[b + 1][6] = <<>>
        BY <2>2
  <2>6. /\ \A x : SignPart(a, <<>>, x) = <<>>
        /\ HashPart(a, <<>>) = <<>>
        /\ PaddingPart(a, <<>>) = <<>>
        /\ \A x, y : WidthPart(a, <<>>, x, y) = <<>> /\ PrecisionPart(a, <<>>, x, y) = <<>>
        BY DEF SignPart, HashPart, PaddingPart, WidthPart, PrecisionPart, Has
  <2> HIDE DEF pos
  <2>7. SpecRest(p, end, f, b, a) = <<>>
        BY <1>1, <1>4, <2>3, <2>4, <2>5, <2>6 DEF SpecRest, pos
  <2> QED BY <2>1, <2>7
<1>5. CASE b # end /\ ~(b + 1 < end /\ is_align(At(p, b + 1)))
  <2>1. Anchors.Sign = 2 /\ Anchors.Type = 3 /\ Anchors.Padding = 4 /\ Anchors.Width = 5
        /\ Anchors.Precision = 6
        BY DEF Anchors
  <2>2. /\ pos \in b + 1 .. end /\ \A j \in b + 1 .. pos - 1 : IsInteger(At(p, j))
        BY <1>5, BehindIs
  <2> HIDE DEF pos
  <2>3. IsInteger(c) => as_size_t(p, b, pos) = <<Number(p, b, pos)>>
    <3>1. ASSUME IsInteger(c), NEW j \in b .. pos - 1 PROVE IsInteger(At(p, j))
      <4>1. j = b \/ j \in b + 1 .. pos - 1
            BY <2>2
      <4> QED BY <2>2, <3>1, <4>1
    <3> QED BY <3>1 DEF as_size_t
  <2>4. as_size_t(p, b + 1, pos) = <<Number(p, b + 1, pos)>>
        BY <2>2 DEF as_size_t
  <2>5. CASE is_align(c)
    <3>1. f[b][a] = <<>>
          BY <1>5, <2>5, NoAlign
    <3>2. SpecRest(p, end, f, b, a) = <<>>
      <4>1. ~is_sign(c) /\ c # "#" /\ c # "0" /\ ~IsInteger(c) /\ c # "." /\ ~is_numeral_type(c)
            BY <2>5, Kinds
      <4> QED BY <1>5, <4>1 DEF SpecRest
    <3> QED BY <3>1, <3>2
  <2>6. CASE ~is_align(c) /\ is_sign(c)
        BY <1>2, <1>5, <2>1, <2>6 DEF SpecBody, SpecRest
  <2>7. CASE ~is_align(c) /\ ~is_sign(c) /\ c = "#"
        BY <1>2, <1>5, <2>1, <2>7 DEF SpecBody, SpecRest
  <2>8. CASE ~is_align(c) /\ ~is_sign(c) /\ c # "#" /\ wide
        BY <1>2, <1>5, <2>1, <2>8 DEF SpecBody, SpecRest
  <2>9. CASE ~is_align(c) /\ ~is_sign(c) /\ c # "#" /\ ~wide /\ IsInteger(c)
    <3>1. c # "."
          BY <2>9, Kinds
    <3> QED BY <1>2, <1>5, <2>1, <2>3, <2>9, <3>1 DEF SpecBody, SpecRest, pos
  <2>10. CASE ~is_align(c) /\ ~is_sign(c) /\ c # "#" /\ ~wide /\ ~IsInteger(c)
    <3>1. CASE c = "." /\ b + 1 < end
          BY <1>2, <1>5, <2>1, <2>4, <2>10, <3>1 DEF SpecBody, SpecRest, pos
    <3>2. CASE ~(c = "." /\ b + 1 < end)
          BY <1>2, <1>5, <2>1, <2>10, <3>2 DEF SpecBody, SpecRest
    <3> QED BY <3>1, <3>2
  <2> QED BY <2>5, <2>6, <2>7, <2>8, <2>9, <2>10
<1> QED BY <1>3, <1>4, <1>5

\* What each part adds to the meaning of the parts behind it.
Typed(c) == [Default EXCEPT !.mode = {"Type"}, !.type = c]
Precise(n, parts, r) == [With(<<r>>, parts) EXCEPT !.precision = n]
Wide(n, parts, r) == [With(<<r>>, parts) EXCEPT !.width = n]
Signed(c, r) == [With(<<r>>, {"Sign"}) EXCEPT !.sign = c]

\* What is found at a place by its first character, if the parts up to some are over.
Found(p, end, f, b) ==
    LET c == At(p, b)
        pos == Behind(p, end, b)
        arg == At(p, pos) = "$"
        k == IF arg THEN pos + 1 ELSE pos
        zero == c = "0" /\ At(p, b + 1) # "$"
        digits == IsInteger(c) /\ ~zero
    IN  /\ f[b][6] = IF b + 1 = end /\ is_numeral_type(c) THEN <<Typed(c)>> ELSE <<>>
        /\ f[b][5] = IF c = "." /\ b + 1 < end
                     THEN PrecisionPart(5, f[k][6], <<Number(p, b + 1, pos)>>,
                                        IF arg THEN PreciArg ELSE {"Precision"})
                     ELSE f[b][6]
        /\ f[b][4] = IF digits THEN WidthPart(4, f[k][5], <<Number(p, b, pos)>>,
                                              IF arg THEN WidthArg ELSE {"Width"})
                     ELSE f[b][5]
        /\ f[b][3] = IF zero THEN PaddingPart(3, f[b + 1][4]) ELSE f[b][4]
        /\ f[b][2] = IF c = "#" THEN HashPart(2, f[b + 1][3]) ELSE f[b][3]
        /\ f[b][1] = IF is_sign(c) THEN SignPart(1, f[b + 1][2], c) ELSE f[b][2]
        /\ c = "." => f[b][6] = <<>>
        /\ IsInteger(c) => f[b][5] = <<>> /\ f[b][6] = <<>>
        /\ c = "$" => f[b][6] = <<>> /\ f[b][5] = <<>> /\ f[b][4] = <<>>
        /\ zero => f[b][4] = <<>>
        /\ c = "#" => f[b][3] = <<>>
        /\ is_sign(c) => f[b][2] = <<>>

\* That is what as_spec finds.
LEMMA PartsFound ==
    ASSUME NEW p, NEW end, Closed(p, end), NEW f, Solves(p, end, f),
           NEW b \in 0 .. end, b # end
    PROVE  Found(p, end, f, b)
<1> DEFINE c == At(p, b)
           pos == Behind(p, end, b)
           arg == At(p, pos) = "$"
           k == IF arg THEN pos + 1 ELSE pos
           zero == c = "0" /\ At(p, b + 1) # "$"
           digits == IsInteger(c) /\ ~zero
           Prec(a) == PrecisionPart(a, f[k][6], <<Number(p, b + 1, pos)>>,
                                    IF arg THEN PreciArg ELSE {"Precision"})
           Wid(a) == WidthPart(a, f[k][5], <<Number(p, b, pos)>>,
                               IF arg THEN WidthArg ELSE {"Width"})
           Last == IF is_numeral_type(c) /\ b + 1 = end THEN <<Typed(c)>> ELSE <<>>
<1>1. \A a \in 1 .. 6 : f[b][a] = SpecRest(p, end, f, b, a)
      BY RestIs
<1>2. \A a \in 1 .. 6 : f[b][a] =
          IF is_sign(c) THEN SignPart(a, f[b + 1][2], c)
          ELSE IF c = "#" THEN HashPart(a, f[b + 1][3])
          ELSE IF zero THEN PaddingPart(a, f[b + 1][4])
          ELSE IF IsInteger(c) THEN Wid(a)
          ELSE IF c = "." /\ b + 1 < end THEN Prec(a)
          ELSE Last
  <2> SUFFICES ASSUME NEW a \in 1 .. 6
               PROVE  f[b][a] = IF is_sign(c) THEN SignPart(a, f[b + 1][2], c)
                                ELSE IF c = "#" THEN HashPart(a, f[b + 1][3])
                                ELSE IF zero THEN PaddingPart(a, f[b + 1][4])
                                ELSE IF IsInteger(c) THEN Wid(a)
                                ELSE IF c = "." /\ b + 1 < end THEN Prec(a)
                                ELSE Last
      OBVIOUS
  <2>1. f[b][a] = SpecRest(p, end, f, b, a)
        BY <1>1
  <2> QED BY <2>1 DEF SpecRest, Typed
<1>3. /\ \A a \in {2, 3, 4, 5, 6} : \A x, y : SignPart(a, x, y) = <<>>
      /\ \A a \in {3, 4, 5, 6} : \A x : HashPart(a, x) = <<>>
      /\ \A a \in {4, 5, 6} : \A x : PaddingPart(a, x) = <<>>
      /\ \A a \in {5, 6} : \A x, y, z : WidthPart(a, x, y, z) = <<>>
      /\ \A x, y, z : PrecisionPart(6, x, y, z) = <<>>
      BY DEF SignPart, HashPart, PaddingPart, WidthPart, PrecisionPart, Anchors
<1>4. /\ \A x : HashPart(1, x) = HashPart(2, x)
      /\ \A x : PaddingPart(1, x) = PaddingPart(3, x) /\ PaddingPart(2, x) = PaddingPart(3, x)
      /\ \A x, y, z : /\ WidthPart(1, x, y, z) = WidthPart(4, x, y, z)
                      /\ WidthPart(2, x, y, z) = WidthPart(4, x, y, z)
                      /\ WidthPart(3, x, y, z) = WidthPart(4, x, y, z)
      /\ \A a \in 1 .. 4 : \A x, y, z : PrecisionPart(a, x, y, z) = PrecisionPart(5, x, y, z)
      BY DEF SignPart, HashPart, PaddingPart, WidthPart, PrecisionPart, Anchors
<1>5. /\ is_sign(c) => ~IsInteger(c) /\ c # "#" /\ c # "." /\ c # "$" /\ ~is_numeral_type(c)
      /\ IsInteger(c) => c # "#" /\ c # "." /\ c # "$" /\ ~is_numeral_type(c)
      /\ is_numeral_type(c) => c # "#" /\ c # "." /\ c # "$"
      /\ c = "#" => c # "." /\ c # "$"
      /\ c = "." => c # "$"
      /\ zero => IsInteger(c)
      BY Kinds
<1> DEFINE v1 == f[b][1]
           v2 == f[b][2]
           v3 == f[b][3]
           v4 == f[b][4]
           v5 == f[b][5]
           v6 == f[b][6]
           g2 == f[b + 1][2]
           g3 == f[b + 1][3]
           g4 == f[b + 1][4]
<1>6. /\ v6 = IF is_sign(c) \/ c = "#" \/ IsInteger(c) \/ (c = "." /\ b + 1 < end)
              THEN <<>> ELSE Last
      /\ v5 = IF is_sign(c) \/ c = "#" \/ IsInteger(c) THEN <<>>
              ELSE IF c = "." /\ b + 1 < end THEN Prec(5) ELSE Last
      /\ v4 = IF is_sign(c) \/ c = "#" \/ zero THEN <<>>
              ELSE IF IsInteger(c) THEN Wid(4)
              ELSE IF c = "." /\ b + 1 < end THEN Prec(5) ELSE Last
      /\ v3 = IF is_sign(c) \/ c = "#" THEN <<>>
              ELSE IF zero THEN PaddingPart(3, g4)
              ELSE IF IsInteger(c) THEN Wid(4)
              ELSE IF c = "." /\ b + 1 < end THEN Prec(5) ELSE Last
      /\ v2 = IF is_sign(c) THEN <<>>
              ELSE IF c = "#" THEN HashPart(2, g3)
              ELSE IF zero THEN PaddingPart(3, g4)
              ELSE IF IsInteger(c) THEN Wid(4)
              ELSE IF c = "." /\ b + 1 < end THEN Prec(5) ELSE Last
      /\ v1 = IF is_sign(c) THEN SignPart(1, g2, c)
              ELSE IF c = "#" THEN HashPart(2, g3)
              ELSE IF zero THEN PaddingPart(3, g4)
              ELSE IF IsInteger(c) THEN Wid(4)
              ELSE IF c = "." /\ b + 1 < end THEN Prec(5) ELSE Last
  <2> HIDE DEF pos, arg, k, Last
  <2>1. /\ \A a \in {2, 3, 4, 5, 6} : SignPart(a, g2, c) = <<>>
        /\ \A a \in {3, 4, 5, 6} : HashPart(a, g3) = <<>>
        /\ \A a \in {4, 5, 6} : PaddingPart(a, g4) = <<>>
        /\ \A a \in {5, 6} : Wid(a) = <<>>
        /\ Prec(6) = <<>>
        /\ HashPart(1, g3) = HashPart(2, g3)
        /\ PaddingPart(1, g4) = PaddingPart(3, g4) /\ PaddingPart(2, g4) = PaddingPart(3, g4)
        /\ Wid(1) = Wid(4) /\ Wid(2) = Wid(4) /\ Wid(3) = Wid(4)
        /\ Prec(1) = Prec(5) /\ Prec(2) = Prec(5) /\ Prec(3) = Prec(5) /\ Prec(4) = Prec(5)
        BY <1>3, <1>4
  <2> HIDE DEF Wid, Prec, zero, c, g2, g3, g4
  <2>2. v6 = IF is_sign(c) \/ c = "#" \/ IsInteger(c) \/ (c = "." /\ b + 1 < end)
             THEN <<>> ELSE Last
        BY <1>2, <1>5, <2>1 DEF g2, g3, g4
  <2>3. v5 = IF is_sign(c) \/ c = "#" \/ IsInteger(c) THEN <<>>
             ELSE IF c = "." /\ b + 1 < end THEN Prec(5) ELSE Last
        BY <1>2, <1>5, <2>1 DEF g2, g3, g4
  <2>4. v4 = IF is_sign(c) \/ c = "#" \/ zero THEN <<>>
              ELSE IF IsInteger(c) THEN Wid(4)
              ELSE IF c = "." /\ b + 1 < end THEN Prec(5) ELSE Last
        BY <1>2, <1>5, <2>1 DEF g2, g3, g4
  <2>5. v3 = IF is_sign(c) \/ c = "#" THEN <<>>
              ELSE IF zero THEN PaddingPart(3, g4)
              ELSE IF IsInteger(c) THEN Wid(4)
              ELSE IF c = "." /\ b + 1 < end THEN Prec(5) ELSE Last
        BY <1>2, <1>5, <2>1 DEF g2, g3, g4
  <2>6. v2 = IF is_sign(c) THEN <<>>
              ELSE IF c = "#" THEN HashPart(2, g3)
              ELSE IF zero THEN PaddingPart(3, g4)
              ELSE IF IsInteger(c) THEN Wid(4)
              ELSE IF c = "." /\ b + 1 < end THEN Prec(5) ELSE Last
        BY <1>2, <1>5, <2>1 DEF g2, g3, g4
  <2>7. v1 = IF is_sign(c) THEN SignPart(1, g2, c)
              ELSE IF c = "#" THEN HashPart(2, g3)
              ELSE IF zero THEN PaddingPart(3, g4)
              ELSE IF IsInteger(c) THEN Wid(4)
              ELSE IF c = "." /\ b + 1 < end THEN Prec(5) ELSE Last
        BY <1>2, <1>5, <2>1 DEF g2, g3, g4
  <2> HIDE DEF v1, v2, v3, v4, v5, v6
  <2> QED BY <2>2, <2>3, <2>4, <2>5, <2>6, <2>7
<1>7. Last = IF b + 1 = end /\ is_numeral_type(c) THEN <<Typed(c)>> ELSE <<>>
      OBVIOUS
<1> HIDE DEF pos, arg, k, Last, Wid, Prec, zero, c, g2, g3, g4, v1, v2, v3, v4, v5, v6
<1>8. Last # <<>> => is_numeral_type(c)
      BY <1>7
<1>9. /\ v6 = Last
      /\ v5 = IF c = "." /\ b + 1 < end THEN Prec(5) ELSE v6
      /\ v4 = IF digits THEN Wid(4) ELSE v5
      /\ v3 = IF zero THEN PaddingPart(3, g4) ELSE v4
      /\ v2 = IF c = "#" THEN HashPart(2, g3) ELSE v3
      /\ v1 = IF is_sign(c) THEN SignPart(1, g2, c) ELSE v2
      BY <1>5, <1>6, <1>8
<1>10. /\ c = "." => v6 = <<>>
       /\ IsInteger(c) => v5 = <<>> /\ v6 = <<>>
       /\ c = "$" => v6 = <<>> /\ v5 = <<>> /\ v4 = <<>>
       /\ zero => v4 = <<>>
       /\ c = "#" => v3 = <<>>
       /\ is_sign(c) => v2 = <<>>
       BY <1>5, <1>6, <1>8
<1> QED BY <1>7, <1>9, <1>10
        DEF v1, v2, v3, v4, v5, v6, g2, g3, g4, Wid, Prec, zero, c, k, arg, pos, Found

-----------------------------------------------------------------------------
(* What the grammar reads of a pattern, and what each part adds to its meaning. *)

\* A value is there or not, and stands for the well-formed ones of some readings.
Stands(v, readings) ==
    /\ v = <<>> \/ \E m : v = <<m>>
    /\ \A m : v = <<m>> <=> \E x \in readings : WellFormed(x) /\ m = Means(x)

\* The readings of a pattern from a place on that have their type, their precision and
\* so on there, and nothing before.
FromType(p, end, a) ==
    {[align |-> <<>>, sign |-> <<>>, hash |-> <<>>, padding |-> <<>>, width |-> <<>>,
      precision |-> <<>>, type |-> Span(p, a, end)]}
FromPrecision(p, end, a) ==
    UNION {{[y EXCEPT !.precision = Span(p, a, b)] : y \in FromType(p, end, b)} : b \in a .. end}
FromWidth(p, end, a) ==
    UNION {{[y EXCEPT !.width = Span(p, a, b)] : y \in FromPrecision(p, end, b)} : b \in a .. end}
FromPadding(p, end, a) ==
    UNION {{[y EXCEPT !.padding = Span(p, a, b)] : y \in FromWidth(p, end, b)}
           : b \in {k \in a .. end : k <= a + 1}}
FromHash(p, end, a) ==
    UNION {{[y EXCEPT !.hash = Span(p, a, b)] : y \in FromPadding(p, end, b)}
           : b \in {k \in a .. end : k <= a + 1}}
FromSign(p, end, a) ==
    UNION {{[y EXCEPT !.sign = Span(p, a, b)] : y \in FromHash(p, end, b)}
           : b \in {k \in a .. end : k <= a + 1}}
FromAlign(p, end, a) ==
    UNION {{[y EXCEPT !.align = Span(p, a, b)] : y \in FromSign(p, end, b)}
           : b \in {k \in a .. end : k <= a + 2}}

IsReading(x) ==
    x = [align |-> x.align, sign |-> x.sign, hash |-> x.hash, padding |-> x.padding,
         width |-> x.width, precision |-> x.precision, type |-> x.type]

\* One character is a stretch, and so are two.
LEMMA ShortSpans ==
    ASSUME NEW s, IsSequence(s), NEW a \in 0 .. Len(s)
    PROVE  /\ Span(s, a, a) = <<>>
           /\ a + 1 <= Len(s) => Span(s, a, a + 1) = <<At(s, a)>>
           /\ a + 2 <= Len(s) => Span(s, a, a + 2) = <<At(s, a), At(s, a + 1)>>
<1>1. Len(s) \in Nat /\ a \in Nat
      BY SequenceIs
<1>2. Span(s, a, a) = <<>>
      BY <1>1, EmptySpan
<1>3. ASSUME a + 1 <= Len(s) PROVE Span(s, a, a + 1) = <<At(s, a)>>
  <2> DEFINE t == Span(s, a, a + 1)
  <2>1. a + 1 \in a .. Len(s) /\ (a + 1) - a = 1 /\ a + 1 - 1 = a
        BY <1>1, <1>3
  <2>2. IsSequence(t) /\ Len(t) = 1 /\ \A i \in 1 .. 1 : t[i] = At(s, a + i - 1)
    <3>1. /\ IsSequence(t) /\ Len(t) = (a + 1) - a
          /\ \A i \in 1 .. (a + 1) - a : t[i] = At(s, a + i - 1)
          BY <1>1, <2>1, SpanIs
    <3> HIDE DEF t
    <3> QED BY <2>1, <3>1
  <2> HIDE DEF t
  <2>3. t = [i \in 1 .. 1 |-> t[i]] /\ t[1] = At(s, a)
        BY <2>1, <2>2, SequenceIs
  <2>4. t = <<t[1]>>
        BY <2>3
  <2> QED BY <2>3, <2>4 DEF t
<1>4. ASSUME a + 2 <= Len(s) PROVE Span(s, a, a + 2) = <<At(s, a), At(s, a + 1)>>
  <2> DEFINE t == Span(s, a, a + 2)
  <2>1. a + 2 \in a .. Len(s) /\ (a + 2) - a = 2 /\ a + 1 - 1 = a /\ a + 2 - 1 = a + 1
        BY <1>1, <1>4
  <2>2. IsSequence(t) /\ Len(t) = 2 /\ \A i \in 1 .. 2 : t[i] = At(s, a + i - 1)
    <3>1. /\ IsSequence(t) /\ Len(t) = (a + 2) - a
          /\ \A i \in 1 .. (a + 2) - a : t[i] = At(s, a + i - 1)
          BY <1>1, <2>1, SpanIs
    <3> HIDE DEF t
    <3> QED BY <2>1, <3>1
  <2> HIDE DEF t
  <2>3. t = [i \in 1 .. 2 |-> t[i]] /\ t[1] = At(s, a) /\ t[2] = At(s, a + 1)
        BY <2>1, <2>2, SequenceIs
  <2>4. t = <<t[1], t[2]>>
        BY <2>3
  <2> QED BY <2>3, <2>4 DEF t
<1> QED BY <1>2, <1>3, <1>4

\* What a reading from a place on leaves empty.
LEMMA ReadingsFrom ==
    ASSUME NEW p, NEW end, NEW a
    PROVE  /\ \A x \in FromType(p, end, a) :
                 /\ IsReading(x) /\ x.align = <<>> /\ x.sign = <<>> /\ x.hash = <<>>
                 /\ x.padding = <<>> /\ x.width = <<>> /\ x.precision = <<>>
                 /\ x.type = Span(p, a, end)
           /\ \A x \in FromPrecision(p, end, a) :
                 /\ IsReading(x) /\ x.align = <<>> /\ x.sign = <<>> /\ x.hash = <<>>
                 /\ x.padding = <<>> /\ x.width = <<>>
           /\ \A x \in FromWidth(p, end, a) :
                 /\ IsReading(x) /\ x.align = <<>> /\ x.sign = <<>> /\ x.hash = <<>>
                 /\ x.padding = <<>>
           /\ \A x \in FromPadding(p, end, a) :
                 IsReading(x) /\ x.align = <<>> /\ x.sign = <<>> /\ x.hash = <<>>
           /\ \A x \in FromHash(p, end, a) : IsReading(x) /\ x.align = <<>> /\ x.sign = <<>>
           /\ \A x \in FromSign(p, end, a) : IsReading(x) /\ x.align = <<>>
           /\ \A x \in FromAlign(p, end, a) : IsReading(x)
<1>1. \A b : \A x \in FromType(p, end, b) :
                 /\ IsReading(x) /\ x.align = <<>> /\ x.sign = <<>> /\ x.hash = <<>>
                 /\ x.padding = <<>> /\ x.width = <<>> /\ x.precision = <<>>
                 /\ x.type = Span(p, b, end)
      BY DEF FromType, IsReading
<1>2. \A b : \A x \in FromPrecision(p, end, b) :
                 /\ IsReading(x) /\ x.align = <<>> /\ x.sign = <<>> /\ x.hash = <<>>
                 /\ x.padding = <<>> /\ x.width = <<>>
      BY <1>1 DEF FromPrecision, IsReading
<1>3. \A b : \A x \in FromWidth(p, end, b) :
                 /\ IsReading(x) /\ x.align = <<>> /\ x.sign = <<>> /\ x.hash = <<>>
                 /\ x.padding = <<>>
      BY <1>2 DEF FromWidth, IsReading
<1>4. \A b : \A x \in FromPadding(p, end, b) :
                 IsReading(x) /\ x.align = <<>> /\ x.sign = <<>> /\ x.hash = <<>>
      BY <1>3 DEF FromPadding, IsReading
<1>5. \A b : \A x \in FromHash(p, end, b) : IsReading(x) /\ x.align = <<>> /\ x.sign = <<>>
      BY <1>4 DEF FromHash, IsReading
<1>6. \A b : \A x \in FromSign(p, end, b) : IsReading(x) /\ x.align = <<>>
      BY <1>5 DEF FromSign, IsReading
<1>7. \A b : \A x \in FromAlign(p, end, b) : IsReading(x)
      BY <1>6 DEF FromAlign, IsReading
<1> QED BY <1>1, <1>2, <1>3, <1>4, <1>5, <1>6, <1>7

\* A part is empty or it ends behind the place.
LEMMA CutsAre ==
    ASSUME NEW p, NEW end, Closed(p, end), NEW a \in 0 .. end
    PROVE  /\ \A x : x \in FromPrecision(p, end, a) <=>
                 \/ x \in FromType(p, end, a)
                 \/ \E b \in a + 1 .. end : \E y \in FromType(p, end, b) :
                       x = [y EXCEPT !.precision = Span(p, a, b)]
           /\ \A x : x \in FromWidth(p, end, a) <=>
                 \/ x \in FromPrecision(p, end, a)
                 \/ \E b \in a + 1 .. end : \E y \in FromPrecision(p, end, b) :
                       x = [y EXCEPT !.width = Span(p, a, b)]
           /\ \A x : x \in FromPadding(p, end, a) <=>
                 \/ x \in FromWidth(p, end, a)
                 \/ a < end /\ \E y \in FromWidth(p, end, a + 1) :
                       x = [y EXCEPT !.padding = <<At(p, a)>>]
           /\ \A x : x \in FromHash(p, end, a) <=>
                 \/ x \in FromPadding(p, end, a)
                 \/ a < end /\ \E y \in FromPadding(p, end, a + 1) :
                       x = [y EXCEPT !.hash = <<At(p, a)>>]
           /\ \A x : x \in FromSign(p, end, a) <=>
                 \/ x \in FromHash(p, end, a)
                 \/ a < end /\ \E y \in FromHash(p, end, a + 1) :
                       x = [y EXCEPT !.sign = <<At(p, a)>>]
           /\ \A x : x \in FromAlign(p, end, a) <=>
                 \/ x \in FromSign(p, end, a)
                 \/ a < end /\ \E y \in FromSign(p, end, a + 1) :
                       x = [y EXCEPT !.align = <<At(p, a)>>]
                 \/ a + 1 < end /\ \E y \in FromSign(p, end, a + 2) :
                       x = [y EXCEPT !.align = <<At(p, a), At(p, a + 1)>>]
<1>1. /\ end \in Nat /\ Len(p) = end + 1 /\ a \in Nat /\ a \in 0 .. Len(p) /\ IsSequence(p)
      /\ \A b : b \in a .. end <=> b = a \/ b \in a + 1 .. end
      /\ \A b : b \in {k \in a .. end : k <= a + 1} <=> b = a \/ (a < end /\ b = a + 1)
      /\ \A b : b \in {k \in a .. end : k <= a + 2} <=>
                    b = a \/ (a < end /\ b = a + 1) \/ (a + 1 < end /\ b = a + 2)
      BY DEF Closed
<1>2. /\ Span(p, a, a) = <<>>
      /\ a < end => Span(p, a, a + 1) = <<At(p, a)>>
      /\ a + 1 < end => Span(p, a, a + 2) = <<At(p, a), At(p, a + 1)>>
  <2>1. /\ Span(p, a, a) = <<>>
        /\ a + 1 <= Len(p) => Span(p, a, a + 1) = <<At(p, a)>>
        /\ a + 2 <= Len(p) => Span(p, a, a + 2) = <<At(p, a), At(p, a + 1)>>
        BY <1>1, ShortSpans
  <2>2. (a < end => a + 1 <= Len(p)) /\ (a + 1 < end => a + 2 <= Len(p))
        BY <1>1
  <2> QED BY <2>1, <2>2
<1>3. /\ \A y \in FromType(p, end, a) : [y EXCEPT !.precision = <<>>] = y
      /\ \A y \in FromPrecision(p, end, a) : [y EXCEPT !.width = <<>>] = y
      /\ \A y \in FromWidth(p, end, a) : [y EXCEPT !.padding = <<>>] = y
      /\ \A y \in FromPadding(p, end, a) : [y EXCEPT !.hash = <<>>] = y
      /\ \A y \in FromHash(p, end, a) : [y EXCEPT !.sign = <<>>] = y
      /\ \A y \in FromSign(p, end, a) : [y EXCEPT !.align = <<>>] = y
  <2> SUFFICES ASSUME NEW y, IsReading(y)
               PROVE  /\ y.precision = <<>> => [y EXCEPT !.precision = <<>>] = y
                      /\ y.width = <<>> => [y EXCEPT !.width = <<>>] = y
                      /\ y.padding = <<>> => [y EXCEPT !.padding = <<>>] = y
                      /\ y.hash = <<>> => [y EXCEPT !.hash = <<>>] = y
                      /\ y.sign = <<>> => [y EXCEPT !.sign = <<>>] = y
                      /\ y.align = <<>> => [y EXCEPT !.align = <<>>] = y
      BY ReadingsFrom
  <2> DEFINE al == y.align
             si == y.sign
             ha == y.hash
             pa == y.padding
             wi == y.width
             pr == y.precision
             ty == y.type
  <2>1. y = [align |-> al, sign |-> si, hash |-> ha, padding |-> pa, width |-> wi,
             precision |-> pr, type |-> ty]
        BY DEF IsReading
  <2> HIDE DEF al, si, ha, pa, wi, pr, ty
  <2> QED BY <2>1
<1>4. \A x : x \in FromPrecision(p, end, a) <=>
                 \/ x \in FromType(p, end, a)
                 \/ \E b \in a + 1 .. end : \E y \in FromType(p, end, b) :
                       x = [y EXCEPT !.precision = Span(p, a, b)]
  <2>1. \A x : x \in FromPrecision(p, end, a) <=>
            \E b \in a .. end : \E y \in FromType(p, end, b) :
                x = [y EXCEPT !.precision = Span(p, a, b)]
        BY DEF FromPrecision
  <2> QED BY <1>1, <1>2, <1>3, <2>1
<1>5. \A x : x \in FromWidth(p, end, a) <=>
                 \/ x \in FromPrecision(p, end, a)
                 \/ \E b \in a + 1 .. end : \E y \in FromPrecision(p, end, b) :
                       x = [y EXCEPT !.width = Span(p, a, b)]
  <2>1. \A x : x \in FromWidth(p, end, a) <=>
            \E b \in a .. end : \E y \in FromPrecision(p, end, b) :
                x = [y EXCEPT !.width = Span(p, a, b)]
        BY DEF FromWidth
  <2> QED BY <1>1, <1>2, <1>3, <2>1
<1>6. \A x : x \in FromPadding(p, end, a) <=>
                 \/ x \in FromWidth(p, end, a)
                 \/ a < end /\ \E y \in FromWidth(p, end, a + 1) :
                       x = [y EXCEPT !.padding = <<At(p, a)>>]
  <2>1. \A x : x \in FromPadding(p, end, a) <=>
            \E b \in {k \in a .. end : k <= a + 1} : \E y \in FromWidth(p, end, b) :
                x = [y EXCEPT !.padding = Span(p, a, b)]
        BY DEF FromPadding
  <2> QED BY <1>1, <1>2, <1>3, <2>1
<1>7. \A x : x \in FromHash(p, end, a) <=>
                 \/ x \in FromPadding(p, end, a)
                 \/ a < end /\ \E y \in FromPadding(p, end, a + 1) :
                       x = [y EXCEPT !.hash = <<At(p, a)>>]
  <2>1. \A x : x \in FromHash(p, end, a) <=>
            \E b \in {k \in a .. end : k <= a + 1} : \E y \in FromPadding(p, end, b) :
                x = [y EXCEPT !.hash = Span(p, a, b)]
        BY DEF FromHash
  <2> QED BY <1>1, <1>2, <1>3, <2>1
<1>8. \A x : x \in FromSign(p, end, a) <=>
                 \/ x \in FromHash(p, end, a)
                 \/ a < end /\ \E y \in FromHash(p, end, a + 1) :
                       x = [y EXCEPT !.sign = <<At(p, a)>>]
  <2>1. \A x : x \in FromSign(p, end, a) <=>
            \E b \in {k \in a .. end : k <= a + 1} : \E y \in FromHash(p, end, b) :
                x = [y EXCEPT !.sign = Span(p, a, b)]
        BY DEF FromSign
  <2> QED BY <1>1, <1>2, <1>3, <2>1
<1>9. \A x : x \in FromAlign(p, end, a) <=>
                 \/ x \in FromSign(p, end, a)
                 \/ a < end /\ \E y \in FromSign(p, end, a + 1) :
                       x = [y EXCEPT !.align = <<At(p, a)>>]
                 \/ a + 1 < end /\ \E y \in FromSign(p, end, a + 2) :
                       x = [y EXCEPT !.align = <<At(p, a), At(p, a + 1)>>]
  <2>1. \A x : x \in FromAlign(p, end, a) <=>
            \E b \in {k \in a .. end : k <= a + 2} : \E y \in FromSign(p, end, b) :
                x = [y EXCEPT !.align = Span(p, a, b)]
        BY DEF FromAlign
  <2> QED BY <1>1, <1>2, <1>3, <2>1
<1> QED BY <1>4, <1>5, <1>6, <1>7, <1>8, <1>9

\* Nothing is an empty count, which is 0 and refers to no argument.
LEMMA EmptyCount == IsCount(<<>>) /\ ~IsIndirect(<<>>) /\ CountIn(<<>>) = 0
<1>1. DOMAIN <<>> = {} /\ Len(<<>>) = 0
      OBVIOUS
<1>2. IsCount(<<>>) /\ ~IsIndirect(<<>>)
      BY <1>1 DEF IsCount, AreDigits, IsIndirect
<1>3. CountIn(<<>>) = Number(<<>>, 0, 0)
      BY <1>1, <1>2 DEF CountIn
<1>4. Number(<<>>, 0, 0) = 0
      BY NumberSteps
<1> QED BY <1>2, <1>3, <1>4

\* A specification whose parts are set anew.
IsSpecification(r) ==
    r = [mode |-> r.mode, fill |-> r.fill, align |-> r.align, sign |-> r.sign,
         type |-> r.type, width |-> r.width, precision |-> r.precision]
Put(mode, fill, align, sign, type, width, precision) ==
    [mode |-> mode, fill |-> fill, align |-> align, sign |-> sign, type |-> type,
     width |-> width, precision |-> precision]

PutPrecision(w, n) == [w EXCEPT !.precision = n]
PutWidth(w, n) == [w EXCEPT !.width = n]
PutSign(w, n) == [w EXCEPT !.sign = n]
PutAlign(w, fill, align) == [w EXCEPT !.fill = fill, !.align = align]
PutType(w, mode, type) == [w EXCEPT !.mode = mode, !.type = type]

\* One part of it set, or two.
LEMMA Settings ==
    ASSUME NEW mo, NEW fi, NEW al, NEW si, NEW ty, NEW wi, NEW pr,
           NEW w, w = Put(mo, fi, al, si, ty, wi, pr)
    PROVE  /\ \A n : PutPrecision(w, n) = Put(mo, fi, al, si, ty, wi, n)
           /\ \A n : PutWidth(w, n) = Put(mo, fi, al, si, ty, n, pr)
           /\ \A n : PutSign(w, n) = Put(mo, fi, al, n, ty, wi, pr)
           /\ \A k, n : PutAlign(w, k, n) = Put(mo, k, n, si, ty, wi, pr)
           /\ \A k, n : PutType(w, k, n) = Put(k, fi, al, si, n, wi, pr)
<1>1. ASSUME NEW n
      PROVE  /\ PutPrecision(w, n) = Put(mo, fi, al, si, ty, wi, n)
             /\ PutWidth(w, n) = Put(mo, fi, al, si, ty, n, pr)
             /\ PutSign(w, n) = Put(mo, fi, al, n, ty, wi, pr)
      BY DEF Put, PutPrecision, PutWidth, PutSign
<1>2. ASSUME NEW k, NEW n PROVE PutAlign(w, k, n) = Put(mo, k, n, si, ty, wi, pr)
  <2> DEFINE v == [w EXCEPT !.fill = k]
  <2>1. v = Put(mo, k, al, si, ty, wi, pr)
        BY DEF Put
  <2>2. PutAlign(w, k, n) = [v EXCEPT !.align = n]
        BY DEF Put, PutAlign
  <2> HIDE DEF v
  <2>3. [v EXCEPT !.align = n] = Put(mo, k, n, si, ty, wi, pr)
        BY <2>1 DEF Put
  <2> QED BY <2>2, <2>3
<1>3. ASSUME NEW k, NEW n PROVE PutType(w, k, n) = Put(k, fi, al, si, n, wi, pr)
  <2> DEFINE v == [w EXCEPT !.mode = k]
  <2>1. v = Put(k, fi, al, si, ty, wi, pr)
        BY DEF Put
  <2>2. PutType(w, k, n) = [v EXCEPT !.type = n]
        BY DEF Put, PutType
  <2> HIDE DEF v
  <2>3. [v EXCEPT !.type = n] = Put(k, fi, al, si, n, wi, pr)
        BY <2>1 DEF Put
  <2> QED BY <2>2, <2>3
<1> QED BY <1>1, <1>2, <1>3

\* The meaning of a specification with an alignment.
Placing(fill, align, r) == [With(<<r>>, {"Align"}) EXCEPT !.fill = fill, !.align = align]

\* Parts are added to it.
LEMMA WithIs ==
    ASSUME NEW r, IsSpecification(r), NEW parts
    PROVE  With(<<r>>, parts) =
               Put(r.mode \cup parts, r.fill, r.align, r.sign, r.type, r.width, r.precision)
<1> DEFINE m == r.mode \cup parts
<1>1. With(<<r>>, parts) = [r EXCEPT !.mode = m]
  <2>1. <<r>>[1] = r
        OBVIOUS
  <2> QED BY <2>1 DEF With
<1> HIDE DEF m
<1>2. [r EXCEPT !.mode = m] = Put(m, r.fill, r.align, r.sign, r.type, r.width, r.precision)
      BY DEF IsSpecification, Put
<1> QED BY <1>1, <1>2 DEF m

\* What the parts of a specification add to the meaning of the rest, field by field.
LEMMA Adding ==
    ASSUME NEW r, IsSpecification(r)
    PROVE  LET Adds(more) == r.mode \cup more
           IN  /\ \A n, parts : Precise(n, parts, r) =
                     Put(Adds(parts), r.fill, r.align, r.sign, r.type, r.width, n)
               /\ \A n, parts : Wide(n, parts, r) =
                     Put(Adds(parts), r.fill, r.align, r.sign, r.type, n, r.precision)
               /\ \A n : Signed(n, r) =
                     Put(Adds({"Sign"}), r.fill, r.align, n, r.type, r.width, r.precision)
               /\ \A k, n : Placing(k, n, r) =
                     Put(Adds({"Align"}), k, n, r.sign, r.type, r.width, r.precision)
<1>1. \A parts : With(<<r>>, parts) =
          Put(r.mode \cup parts, r.fill, r.align, r.sign, r.type, r.width, r.precision)
      BY WithIs
<1>2. /\ \A n, parts : Precise(n, parts, r) = PutPrecision(With(<<r>>, parts), n)
      /\ \A n, parts : Wide(n, parts, r) = PutWidth(With(<<r>>, parts), n)
      /\ \A n : Signed(n, r) = PutSign(With(<<r>>, {"Sign"}), n)
      /\ \A k, n : Placing(k, n, r) = PutAlign(With(<<r>>, {"Align"}), k, n)
      BY DEF Precise, Wide, Signed, Placing, PutPrecision, PutWidth, PutSign, PutAlign
<1> QED BY <1>1, <1>2, Settings

\* Where there is only a type.
LEMMA TypeAlone ==
    ASSUME NEW y, IsReading(y), y.align = <<>>, y.sign = <<>>, y.hash = <<>>,
           y.padding = <<>>, y.width = <<>>, y.precision = <<>>
    PROVE  /\ WellFormed(y) <=> y.type = <<>> \/ \E c : is_numeral_type(c) /\ y.type = <<c>>
           /\ y.type = <<>> => Means(y) = Default
           /\ \A c : y.type = <<c>> => Means(y) = Typed(c)
<1>1. <<>> # <<"$">> /\ <<>> # <<".">> /\ Len(<<>>) # 2 /\ \A c : <<c>> # <<>> /\ <<c>>[1] = c
      OBVIOUS
<1>2. WellFormed(y) <=> y.type = <<>> \/ \E c : is_numeral_type(c) /\ y.type = <<c>>
      BY <1>1, EmptyCount DEF WellFormed, is_numeral_type
<1>3. y.type = <<>> => Means(y).mode = {}
      BY EmptyCount DEF Means
<1>4. y.type # <<>> => Means(y).mode = {"Type"}
      BY EmptyCount DEF Means
<1>5. Means(y) = [mode |-> Means(y).mode, fill |-> " ", align |-> "<", sign |-> "none",
                  type |-> IF y.type # <<>> THEN y.type[1] ELSE "none", width |-> 0,
                  precision |-> 0]
      BY <1>1, EmptyCount DEF Means
<1>6. y.type = <<>> => Means(y) = Default
      BY <1>3, <1>5 DEF Default
<1>7. ASSUME NEW c, y.type = <<c>> PROVE Means(y) = Typed(c)
  <2>1. Means(y) = [mode |-> {"Type"}, fill |-> " ", align |-> "<", sign |-> "none",
                    type |-> c, width |-> 0, precision |-> 0]
        BY <1>1, <1>4, <1>5, <1>7
  <2> DEFINE sp == " "
             lt == "<"
             no == "none"
             n == 0
  <2>2. Default = Put({}, sp, lt, no, no, n, n)
        BY DEF Default, Put
  <2>3. Typed(c) = PutType(Default, {"Type"}, c)
        BY DEF Typed, PutType
  <2> HIDE DEF sp, lt, no, n
  <2>4. Typed(c) = Put({"Type"}, sp, lt, no, c, n, n)
        BY <2>2, <2>3, Settings
  <2> QED BY <2>1, <2>4 DEF Put, sp, lt, no, n
<1> QED BY <1>2, <1>6, <1>7

\* The meaning is a specification, whose parts are those that are there.
LEMMA MeaningIs ==
    ASSUME NEW x
    PROVE  LET r == Means(x)
           IN  /\ IsSpecification(r)
               /\ {"Width"} \subseteq r.mode <=> x.width # <<>>
               /\ {"Type"} \subseteq r.mode <=> x.type # <<>>
               /\ {"Padding"} \subseteq r.mode <=> x.padding # <<>>
<1>1. DEFINE r == Means(x)
<1>2. IsSpecification(r)
      BY DEF Means, IsSpecification
<1>3. /\ "Width" \in r.mode <=> x.width # <<>>
      /\ "Type" \in r.mode <=> x.type # <<>>
      /\ "Padding" \in r.mode <=> x.padding # <<>>
      BY DEF Means
<1> QED BY <1>2, <1>3

\* A precision before a type.
LEMMA PrecisionAdds ==
    ASSUME NEW y, IsReading(y), y.align = <<>>, y.sign = <<>>, y.hash = <<>>,
           y.padding = <<>>, y.width = <<>>, y.precision = <<>>, NEW w, w # <<>>
    PROVE  LET x == [y EXCEPT !.precision = w]
               parts == IF IsIndirect(w) THEN PreciArg ELSE {"Precision"}
           IN  /\ WellFormed(x) <=> /\ WellFormed(y)
                                    /\ w[1] = "." /\ IsCount(Tail(w))
                                    /\ w = <<".">> => y.type # <<>>
               /\ Means(x) = Precise(CountIn(Tail(w)), parts, Means(y))
<1> DEFINE x == [y EXCEPT !.precision = w]
           parts == IF IsIndirect(w) THEN PreciArg ELSE {"Precision"}
<1>1. /\ x.align = <<>> /\ x.sign = <<>> /\ x.hash = <<>> /\ x.padding = <<>> /\ x.width = <<>>
      /\ x.precision = w /\ x.type = y.type
      BY DEF IsReading
<1> HIDE DEF x
<1>2. <<>> # <<".">>
      OBVIOUS
<1>3. WellFormed(x) <=> /\ WellFormed(y)
                        /\ w[1] = "." /\ IsCount(Tail(w))
                        /\ w = <<".">> => y.type # <<>>
      BY <1>1, <1>2, EmptyCount DEF WellFormed
<1>4. Means(x).mode = Means(y).mode \cup parts
      BY <1>1, EmptyCount DEF Means, PreciArg
<1>5. Means(x) = Put(Means(x).mode, Means(y).fill, Means(y).align, Means(y).sign, Means(y).type,
              Means(y).width, CountIn(Tail(w)))
      BY <1>1 DEF Means, Put
<1>6. Precise(CountIn(Tail(w)), parts, Means(y)) =
          Put(Means(y).mode \cup parts, Means(y).fill, Means(y).align, Means(y).sign, Means(y).type,
              Means(y).width, CountIn(Tail(w)))
  <2> DEFINE r == Means(y)
             n == CountIn(Tail(w))
  <2>1. IsSpecification(r)
        BY MeaningIs
  <2> HIDE DEF r, n, parts
  <2>2. Precise(n, parts, r) = Put(r.mode \cup parts, r.fill, r.align, r.sign, r.type, r.width, n)
        BY <2>1, Adding
  <2> QED BY <2>2 DEF r, n
<1> QED BY <1>3, <1>4, <1>5, <1>6 DEF x

\* A width before those.
LEMMA WidthAdds ==
    ASSUME NEW y, IsReading(y), y.align = <<>>, y.sign = <<>>, y.hash = <<>>,
           y.padding = <<>>, y.width = <<>>, NEW w, w # <<>>
    PROVE  LET x == [y EXCEPT !.width = w]
               parts == IF IsIndirect(w) THEN WidthArg ELSE {"Width"}
           IN  /\ WellFormed(x) <=> /\ WellFormed(y)
                                    /\ IsCount(w) /\ w # <<"$">>
                                    /\ w[1] # "0" \/ w = <<"0", "$">>
               /\ Means(x) = Wide(CountIn(w), parts, Means(y))
<1> DEFINE x == [y EXCEPT !.width = w]
           parts == IF IsIndirect(w) THEN WidthArg ELSE {"Width"}
<1>1. /\ x.align = <<>> /\ x.sign = <<>> /\ x.hash = <<>> /\ x.padding = <<>> /\ x.width = w
      /\ x.precision = y.precision /\ x.type = y.type
      BY DEF IsReading
<1> HIDE DEF x
<1>2. <<>> # <<"$">>
      OBVIOUS
<1>3. WellFormed(x) <=> /\ WellFormed(y)
                        /\ IsCount(w) /\ w # <<"$">>
                        /\ w[1] # "0" \/ w = <<"0", "$">>
      BY <1>1, <1>2, EmptyCount DEF WellFormed
<1>4. Means(x).mode = Means(y).mode \cup parts
      BY <1>1, EmptyCount DEF Means, WidthArg
<1>5. Means(x) = Put(Means(x).mode, Means(y).fill, Means(y).align, Means(y).sign, Means(y).type,
              CountIn(w), Means(y).precision)
      BY <1>1 DEF Means, Put
<1>6. Wide(CountIn(w), parts, Means(y)) =
          Put(Means(y).mode \cup parts, Means(y).fill, Means(y).align, Means(y).sign, Means(y).type,
              CountIn(w), Means(y).precision)
  <2> DEFINE r == Means(y)
             n == CountIn(w)
  <2>1. IsSpecification(r)
        BY MeaningIs
  <2> HIDE DEF r, n, parts
  <2>2. Wide(n, parts, r) = Put(r.mode \cup parts, r.fill, r.align, r.sign, r.type, n, r.precision)
        BY <2>1, Adding
  <2> QED BY <2>2 DEF r, n
<1> QED BY <1>3, <1>4, <1>5, <1>6 DEF x

\* A zero, a # or a sign before those.
LEMMA OneCharacterAdds ==
    ASSUME NEW y, IsReading(y), y.align = <<>>, y.sign = <<>>, y.hash = <<>>, NEW c
    PROVE  /\ y.padding = <<>> =>
                  LET x == [y EXCEPT !.padding = <<c>>]
                  IN  /\ WellFormed(x) <=> WellFormed(y) /\ c = "0" /\ y.width # <<>>
                      /\ Means(x) = With(<<Means(y)>>, {"Padding"})
           /\ LET x == [y EXCEPT !.hash = <<c>>]
              IN  /\ WellFormed(x) <=> WellFormed(y) /\ c = "#" /\ y.type # <<>>
                  /\ Means(x) = Means(y)
<1>1. \A d : <<d>> # <<>> /\ <<d>>[1] = d /\ \A e : <<d>> = <<e>> <=> d = e
      OBVIOUS
<1> DEFINE r == Means(y)
<1>2. IsSpecification(r)
      BY MeaningIs
<1>3. ASSUME y.padding = <<>>
      PROVE  LET x == [y EXCEPT !.padding = <<c>>]
             IN  /\ WellFormed(x) <=> WellFormed(y) /\ c = "0" /\ y.width # <<>>
                 /\ Means(x) = With(<<Means(y)>>, {"Padding"})
  <2> DEFINE x == [y EXCEPT !.padding = <<c>>]
  <2>1. /\ x.align = <<>> /\ x.sign = <<>> /\ x.hash = <<>> /\ x.padding = <<c>>
        /\ x.width = y.width /\ x.precision = y.precision /\ x.type = y.type
        BY DEF IsReading
  <2> HIDE DEF x
  <2>2. WellFormed(x) <=> WellFormed(y) /\ c = "0" /\ y.width # <<>>
        BY <1>1, <1>3, <2>1 DEF WellFormed
  <2>3. Means(x).mode = r.mode \cup {"Padding"}
        BY <1>1, <1>3, <2>1 DEF Means, Put
  <2>4. Means(x) = Put(Means(x).mode, r.fill, r.align, r.sign, r.type, r.width, r.precision)
        BY <1>3, <2>1 DEF Means, Put
  <2> HIDE DEF r
  <2>5. With(<<r>>, {"Padding"}) =
            Put(r.mode \cup {"Padding"}, r.fill, r.align, r.sign, r.type, r.width, r.precision)
        BY <1>2, WithIs
  <2> QED BY <2>2, <2>3, <2>4, <2>5 DEF x, r
<1>4. LET x == [y EXCEPT !.hash = <<c>>]
      IN  /\ WellFormed(x) <=> WellFormed(y) /\ c = "#" /\ y.type # <<>>
          /\ Means(x) = Means(y)
  <2> DEFINE x == [y EXCEPT !.hash = <<c>>]
  <2>1. /\ x.align = <<>> /\ x.sign = <<>> /\ x.hash = <<c>> /\ x.padding = y.padding
        /\ x.width = y.width /\ x.precision = y.precision /\ x.type = y.type
        BY DEF IsReading
  <2> HIDE DEF x
  <2>2. WellFormed(x) <=> WellFormed(y) /\ c = "#" /\ y.type # <<>>
        BY <1>1, <2>1 DEF WellFormed
  <2>3. Means(x).mode = r.mode
        BY <2>1 DEF Means, Put
  <2>4. Means(x) = Put(Means(x).mode, r.fill, r.align, r.sign, r.type, r.width, r.precision)
        BY <2>1 DEF Means, Put
  <2> HIDE DEF r
  <2>5. Means(x) = r
        BY <1>2, <2>3, <2>4 DEF IsSpecification, Put
  <2> QED BY <2>2, <2>5 DEF x, r
<1> QED BY <1>3, <1>4

\* A sign before those.
LEMMA SignAdds ==
    ASSUME NEW y, IsReading(y), y.align = <<>>, y.sign = <<>>, NEW c
    PROVE  LET x == [y EXCEPT !.sign = <<c>>]
           IN  /\ WellFormed(x) <=> WellFormed(y) /\ is_sign(c)
               /\ Means(x) = Signed(c, Means(y))
<1> DEFINE r == Means(y)
           x == [y EXCEPT !.sign = <<c>>]
<1>1. \A d : <<d>> # <<>> /\ <<d>>[1] = d /\ \A e : <<d>> = <<e>> <=> d = e
      OBVIOUS
<1>2. IsSpecification(r)
      BY MeaningIs
<1>3. /\ x.align = <<>> /\ x.sign = <<c>> /\ x.hash = y.hash /\ x.padding = y.padding
      /\ x.width = y.width /\ x.precision = y.precision /\ x.type = y.type
      BY DEF IsReading
<1> HIDE DEF x
<1>4. WellFormed(x) <=> WellFormed(y) /\ is_sign(c)
      BY <1>1, <1>3 DEF WellFormed, is_sign
<1>5. Means(x).mode = r.mode \cup {"Sign"}
      BY <1>1, <1>3 DEF Means, Put
<1>6. Means(x) = Put(Means(x).mode, r.fill, r.align, c, r.type, r.width, r.precision)
      BY <1>1, <1>3 DEF Means, Put
<1> HIDE DEF r
<1>7. Signed(c, r) = Put(r.mode \cup {"Sign"}, r.fill, r.align, c, r.type, r.width, r.precision)
      BY <1>2, Adding
<1> QED BY <1>4, <1>5, <1>6, <1>7 DEF x, r

\* An alignment w of a character d, or of a filler c and d, before those.
WithAlign(y, w, c, d) ==
    LET x == [y EXCEPT !.align = w]
    IN  /\ WellFormed(x) <=> /\ WellFormed(y) /\ is_align(d)
                             /\ y.width # <<>> /\ y.padding = <<>>
        /\ Means(x) = Placing(IF w = <<d>> THEN " " ELSE c, d, Means(y))

\* It adds no more than that.
LEMMA AlignAdds ==
    ASSUME NEW y, IsReading(y), y.align = <<>>, NEW w, NEW c, NEW d, w = <<d>> \/ w = <<c, d>>
    PROVE  WithAlign(y, w, c, d)
<1> DEFINE r == Means(y)
           x == [y EXCEPT !.align = w]
           fill == IF w = <<d>> THEN " " ELSE c
<1>1. /\ w # <<>> /\ w[Len(w)] = d /\ (Len(w) = 2 <=> w # <<d>>) /\ (Len(w) = 2 => w[1] = c)
      /\ Len(<<>>) # 2
  <2>1. CASE w = <<d>>
        BY <2>1
  <2>2. CASE w = <<c, d>>
        BY <2>2
  <2> QED BY <2>1, <2>2
<1>2. IsSpecification(r)
      BY MeaningIs
<1>3. /\ x.align = w /\ x.sign = y.sign /\ x.hash = y.hash /\ x.padding = y.padding
      /\ x.width = y.width /\ x.precision = y.precision /\ x.type = y.type
  <2> HIDE DEF fill
  <2> QED BY DEF IsReading
<1> HIDE DEF x
<1>4. WellFormed(x) <=> WellFormed(y) /\ is_align(d) /\ y.width # <<>> /\ y.padding = <<>>
      BY <1>1, <1>3 DEF WellFormed, is_align
<1>5. Means(x).mode = r.mode \cup {"Align"}
      BY <1>1, <1>3 DEF Means, Put
<1>6. Means(x) = Put(Means(x).mode, fill, d, r.sign, r.type, r.width, r.precision)
      BY <1>1, <1>3 DEF Means, Put
<1> HIDE DEF r, fill
<1>7. Placing(fill, d, r) =
          Put(r.mode \cup {"Align"}, fill, d, r.sign, r.type, r.width, r.precision)
      BY <1>2, Adding
<1> QED BY <1>4, <1>5, <1>6, <1>7 DEF WithAlign, x, r, fill

-----------------------------------------------------------------------------
(* Part by part, the parser stands for the grammar's readings.               *)

\* Where a count from a place on ends.
CountEnd(p, a) == IF At(p, DigitsEnd(p, a)) = "$" THEN DigitsEnd(p, a) + 1 ELSE DigitsEnd(p, a)

\* A count that no digit and no dollar follows is all digits, and a dollar if there is
\* one.
LEMMA CountCut ==
    ASSUME NEW p, NEW end, Closed(p, end), NEW a \in 0 .. end, NEW b \in a .. end,
           ~IsInteger(At(p, b)), At(p, b) # "$"
    PROVE  LET t == Span(p, a, b)
               pos == DigitsEnd(p, a)
           IN  /\ IsCount(t) <=> b = CountEnd(p, a)
               /\ b = CountEnd(p, a) => /\ CountIn(t) = Number(p, a, pos)
                                        /\ IsIndirect(t) <=> At(p, pos) = "$"
<1> DEFINE t == Span(p, a, b)
           pos == DigitsEnd(p, a)
<1>1. /\ IsSequence(p) /\ end \in Nat /\ Len(p) = end + 1 /\ a \in Nat /\ a \in 0 .. Len(p)
      /\ b \in a .. Len(p) /\ b \in Nat
      BY DEF Closed
<1>2. /\ Len(t) = b - a
      /\ t = <<>> <=> a = b
      /\ \A i \in 1 .. b - a : t[i] = At(p, a + i - 1) /\ t[i] = p[a + i]
  <2>1. t = <<>> <=> a = b
        BY <1>1, EmptySpan
  <2>2. /\ Len(t) = b - a
        /\ \A i \in 1 .. b - a : t[i] = At(p, a + i - 1) /\ t[i] = p[a + i]
        BY <1>1, SpanIs
  <2> HIDE DEF t
  <2> QED BY <2>1, <2>2
<1>3. /\ pos \in a .. Len(p) /\ ~IsInteger(At(p, pos))
      /\ \A k \in a .. pos - 1 : IsInteger(At(p, k))
      BY <1>1, DigitsEndIs
<1>4. AreDigits(t) <=> b = pos
  <2>1. AreDigits(t) <=> Digital(p, a, b)
        BY <1>1, SpanDigits
  <2>2. Digital(p, a, b) <=> b <= pos
        BY <1>1, DigitalTo
  <2> HIDE DEF pos
  <2>3. ~(b < pos)
    <3>1. b < pos => b \in a .. pos - 1
          BY <1>1, <1>3
    <3> QED BY <1>3, <3>1
  <2> QED BY <1>1, <1>3, <2>1, <2>2, <2>3
<1>5. Len(t) > 0 => t[Len(t)] = At(p, b - 1)
  <2> HIDE DEF t
  <2>1. Len(t) > 0 => b - a \in 1 .. b - a /\ a + (b - a) - 1 = b - 1
        BY <1>1, <1>2
  <2> QED BY <1>2, <2>1
<1>6. Len(t) > 0 => (AreDigits(SubSeq(t, 1, Len(t) - 1)) <=> b - 1 <= pos)
  <2> SUFFICES ASSUME Len(t) > 0 PROVE AreDigits(SubSeq(t, 1, Len(t) - 1)) <=> b - 1 <= pos
      OBVIOUS
  <2>1. /\ b - 1 \in a .. Len(p) /\ 0 + 1 = 1 /\ Len(t) - 1 = (b - 1) - a
        /\ b - a - 1 \in 0 .. b - a
        /\ a + 0 = a /\ a + (b - a - 1) = b - 1 /\ b - a - 1 = Len(t) - 1
    <3> HIDE DEF t
    <3> QED BY <1>1, <1>2
  <2>2. SubSeq(t, 1, Len(t) - 1) = Span(p, a, b - 1)
    <3>1. Span(t, 0, b - a - 1) = Span(p, a + 0, a + (b - a - 1))
          BY <1>1, <2>1, SpanOfSpan
    <3> HIDE DEF t
    <3> QED BY <2>1, <3>1 DEF Span
  <2>3. AreDigits(Span(p, a, b - 1)) <=> Digital(p, a, b - 1)
        BY <1>1, <2>1, SpanDigits
  <2>4. Digital(p, a, b - 1) <=> b - 1 <= pos
        BY <1>1, <2>1, DigitalTo
  <2> QED BY <2>2, <2>3, <2>4
<1> HIDE DEF t, pos
<1>7. At(p, b - 1) = "$" => ~(b - 1 \in a .. pos - 1)
      BY <1>3, Kinds
<1>8. IsCount(t) <=> b = pos \/ (b = pos + 1 /\ At(p, pos) = "$")
  <2>1. ASSUME Len(t) > 0, t[Len(t)] = "$", AreDigits(SubSeq(t, 1, Len(t) - 1))
        PROVE  b = pos + 1 /\ At(p, pos) = "$"
    <3>1. b - a > 0 /\ At(p, b - 1) = "$" /\ b - 1 <= pos
          BY <1>2, <1>5, <1>6, <2>1
    <3>2. b - 1 = pos
          BY <1>1, <1>3, <1>7, <3>1
    <3>3. b = pos + 1
          BY <1>1, <1>3, <3>2
    <3> QED BY <3>1, <3>2, <3>3
  <2>2. ASSUME b = pos + 1, At(p, pos) = "$"
        PROVE  Len(t) > 0 /\ t[Len(t)] = "$" /\ AreDigits(SubSeq(t, 1, Len(t) - 1))
    <3>1. Len(t) > 0 /\ b - 1 = pos /\ b - 1 <= pos
          BY <1>1, <1>2, <1>3, <2>2
    <3> QED BY <1>5, <1>6, <2>2, <3>1
  <2> QED BY <1>4, <2>1, <2>2 DEF IsCount
<1>9. CountEnd(p, a) = IF At(p, pos) = "$" THEN pos + 1 ELSE pos
      BY DEF CountEnd, pos
<1>10. IsCount(t) <=> b = CountEnd(p, a)
      BY <1>8, <1>9
<1>11. ASSUME b = CountEnd(p, a)
       PROVE  /\ CountIn(t) = Number(p, a, pos)
              /\ IsIndirect(t) <=> At(p, pos) = "$"
  <2>1. IsIndirect(t) <=> At(p, pos) = "$"
    <3>1. CASE At(p, pos) = "$"
      <4>1. b = pos + 1 /\ b - 1 = pos /\ Len(t) > 0 /\ t # <<>>
            BY <1>1, <1>2, <1>3, <1>9, <1>11, <3>1
      <4> QED BY <1>5, <3>1, <4>1 DEF IsIndirect
    <3>2. CASE At(p, pos) # "$"
      <4>1. b = pos
            BY <1>9, <1>11, <3>2
      <4>2. t # <<>> => Len(t) > 0 /\ b - 1 \in a .. pos - 1
            BY <1>1, <1>2, <4>1
      <4> QED BY <1>5, <1>7, <3>2, <4>2 DEF IsIndirect
    <3> QED BY <3>1, <3>2
  <2>2. CountIn(t) = Number(t, 0, pos - a)
    <3>1. CASE At(p, pos) = "$"
      <4>1. b - a - 1 = pos - a
            BY <1>1, <1>3, <1>9, <1>11, <3>1
      <4> QED BY <1>2, <2>1, <3>1, <4>1 DEF CountIn
    <3>2. CASE At(p, pos) # "$"
          BY <1>2, <1>9, <1>11, <2>1, <3>2 DEF CountIn
    <3> QED BY <3>1, <3>2
  <2>3. /\ pos - a \in Nat /\ pos - a <= b - a /\ a \in Int /\ 0 \in Int
        /\ 0 + (pos - a) = pos - a /\ a + (pos - a) = pos
        BY <1>1, <1>3, <1>9, <1>11
  <2>4. Same(t, 0, p, a, pos - a)
    <3> SUFFICES ASSUME NEW i \in 1 .. pos - a PROVE t[0 + i] = p[a + i]
        BY DEF Same
    <3>1. i \in 1 .. b - a /\ 0 + i = i
          BY <1>1, <1>3, <2>3
    <3> QED BY <1>2, <3>1
  <2>5. Number(t, 0, 0 + (pos - a)) = Number(p, a, a + (pos - a))
        BY <2>3, <2>4, SameNumber
  <2> QED BY <2>1, <2>2, <2>3, <2>5
<1> QED BY <1>10, <1>11 DEF t, pos

\* At the end of the pattern every part is left out.
LEMMA AtEnd ==
    ASSUME NEW p, NEW end, Closed(p, end), NEW f, Solves(p, end, f)
    PROVE  \A a \in 0 .. 6 : f[end][a] = <<Default>>
<1>1. end \in 0 .. end
      BY DEF Closed
<1> QED BY <1>1 DEF Solves, SpecBody

\* What follows a part that is there is no digit and no dollar.
LEMMA Follows ==
    ASSUME NEW p, NEW end, Closed(p, end), NEW f, Solves(p, end, f), NEW b \in 0 .. end,
           f[b][5] # <<>> \/ f[b][6] # <<>>
    PROVE  ~IsInteger(At(p, b)) /\ At(p, b) # "$"
<1>1. CASE b = end
      BY <1>1 DEF Closed
<1>2. CASE b # end
  <2>1. Found(p, end, f, b)
        BY <1>2, PartsFound
  <2> QED BY <2>1 DEF Found
<1> QED BY <1>1, <1>2

\* A value that stands for readings stands for more of them if no others are well
\* formed.
LEMMA StandsFor ==
    ASSUME NEW v, NEW S, NEW T, Stands(v, S), S \subseteq T,
           \A x \in T : WellFormed(x) => x \in S
    PROVE  Stands(v, T)
BY DEF Stands

\* The type.
LEMMA TypeStands ==
    ASSUME NEW p, NEW end, Closed(p, end), NEW f, Solves(p, end, f), NEW a \in 0 .. end
    PROVE  Stands(f[a][6], FromType(p, end, a))
<1> DEFINE y == [align |-> <<>>, sign |-> <<>>, hash |-> <<>>, padding |-> <<>>,
                 width |-> <<>>, precision |-> <<>>, type |-> Span(p, a, end)]
<1>1. /\ end \in Nat /\ Len(p) = end + 1 /\ a \in Nat /\ a \in 0 .. Len(p) /\ IsSequence(p)
      /\ end \in a .. Len(p)
      BY DEF Closed
<1>2. FromType(p, end, a) = {y}
      BY DEF FromType
<1>3. IsReading(y) /\ y.type = Span(p, a, end)
      BY DEF IsReading
<1>4. /\ WellFormed(y) <=> y.type = <<>> \/ \E c : is_numeral_type(c) /\ y.type = <<c>>
      /\ y.type = <<>> => Means(y) = Default
      /\ \A c : y.type = <<c>> => Means(y) = Typed(c)
  <2>1. /\ y.align = <<>> /\ y.sign = <<>> /\ y.hash = <<>> /\ y.padding = <<>>
        /\ y.width = <<>> /\ y.precision = <<>>
        OBVIOUS
  <2> HIDE DEF y
  <2> QED BY <1>3, <2>1, TypeAlone
<1> HIDE DEF y
<1>5. CASE a = end
  <2>1. y.type = <<>>
        BY <1>1, <1>3, <1>5, EmptySpan
  <2>2. f[a][6] = <<Default>>
        BY <1>5, AtEnd
  <2> QED BY <1>2, <1>4, <2>1, <2>2 DEF Stands
<1>6. CASE a # end /\ a + 1 = end
  <2>1. y.type = <<At(p, a)>>
    <3>1. a + 1 <= Len(p)
          BY <1>1
    <3> QED BY <1>1, <1>3, <1>6, <3>1, ShortSpans
  <2>2. f[a][6] = IF is_numeral_type(At(p, a)) THEN <<Typed(At(p, a))>> ELSE <<>>
    <3>1. Found(p, end, f, a)
          BY <1>6, PartsFound
    <3> QED BY <1>6, <3>1 DEF Found
  <2>3. WellFormed(y) <=> is_numeral_type(At(p, a))
        BY <1>4, <2>1
  <2>4. Means(y) = Typed(At(p, a))
        BY <1>4, <2>1
  <2> QED BY <1>2, <2>2, <2>3, <2>4 DEF Stands
<1>7. CASE a # end /\ a + 1 # end
  <2>1. f[a][6] = <<>>
    <3>1. Found(p, end, f, a)
          BY <1>7, PartsFound
    <3> QED BY <1>7, <3>1 DEF Found
  <2>2. Len(y.type) = end - a /\ end - a > 1
    <3>1. Len(Span(p, a, end)) = end - a
          BY <1>1, SpanIs
    <3> QED BY <1>1, <1>3, <1>7, <3>1
  <2>3. y.type # <<>> /\ \A c : y.type # <<c>>
    <3>1. Len(<<>>) = 0 /\ \A c : Len(<<c>>) = 1
          OBVIOUS
    <3>2. ASSUME NEW c, y.type = <<c>> PROVE FALSE
      <4> DEFINE t == <<c>>
      <4>1. Len(t) = 1
            OBVIOUS
      <4>2. y.type = t
            BY <3>2
      <4> HIDE DEF t
      <4>3. Len(y.type) = 1
            BY <4>1, <4>2, Zenon
      <4>4. end - a = 1
            BY <2>2, <4>3, Zenon
      <4> QED BY <1>1, <2>2, <4>4
    <3>3. y.type # <<>>
          BY <1>1, <2>2, <3>1
    <3> QED BY <3>2, <3>3
  <2>4. ~WellFormed(y)
        BY <1>4, <2>3
  <2> QED BY <1>2, <2>1, <2>4 DEF Stands
<1> QED BY <1>5, <1>6, <1>7

\* What each part makes of the parts behind it.
LEMMA PartIs ==
    /\ \A n, m : /\ PrecisionPart(5, <<>>, n, m) = <<>>
                 /\ WidthPart(4, <<>>, n, m) = <<>>
                 /\ SignPart(1, <<>>, n) = <<>>
                 /\ AlignPart(0, <<>>, n, m) = <<>>
    /\ PaddingPart(3, <<>>) = <<>> /\ HashPart(2, <<>>) = <<>>
    /\ \A r, n, m : /\ PrecisionPart(5, <<r>>, <<n>>, m) = <<Precise(n, m, r)>>
                    /\ WidthPart(4, <<r>>, <<n>>, m) = <<Wide(n, m, r)>>
                    /\ SignPart(1, <<r>>, n) = <<Signed(n, r)>>
                    /\ AlignPart(0, <<r>>, n, m) =
                          IF {"Width"} \subseteq r.mode /\ ~({"Padding"} \subseteq r.mode)
                          THEN <<Placing(n, m, r)>> ELSE <<>>
    /\ \A r : /\ PaddingPart(3, <<r>>) =
                    IF {"Width"} \subseteq r.mode THEN <<With(<<r>>, {"Padding"})>> ELSE <<>>
              /\ HashPart(2, <<r>>) = IF {"Type"} \subseteq r.mode THEN <<r>> ELSE <<>>
<1>1. \A r : <<r>> # <<>> /\ <<r>>[1] = r
      OBVIOUS
<1>2. /\ \A n, m : /\ PrecisionPart(5, <<>>, n, m) = <<>>
                   /\ WidthPart(4, <<>>, n, m) = <<>>
                   /\ SignPart(1, <<>>, n) = <<>>
                   /\ AlignPart(0, <<>>, n, m) = <<>>
      /\ PaddingPart(3, <<>>) = <<>> /\ HashPart(2, <<>>) = <<>>
      BY DEF PrecisionPart, WidthPart, SignPart, AlignPart, PaddingPart, HashPart, Has
<1>3. /\ 5 < Anchors.Precision /\ 4 < Anchors.Width /\ 3 < Anchors.Padding
      /\ 2 < Anchors.Type /\ 1 < Anchors.Sign /\ 0 < Anchors.Align
      BY DEF Anchors
<1>4. ASSUME NEW r, NEW n, NEW m
      PROVE  /\ PrecisionPart(5, <<r>>, <<n>>, m) = <<Precise(n, m, r)>>
             /\ WidthPart(4, <<r>>, <<n>>, m) = <<Wide(n, m, r)>>
             /\ SignPart(1, <<r>>, n) = <<Signed(n, r)>>
  <2>1. PrecisionPart(5, <<r>>, <<n>>, m) = <<Precise(n, m, r)>>
        BY <1>1, <1>3 DEF PrecisionPart, Precise
  <2>2. WidthPart(4, <<r>>, <<n>>, m) = <<Wide(n, m, r)>>
        BY <1>1, <1>3 DEF WidthPart, Wide
  <2>3. SignPart(1, <<r>>, n) = <<Signed(n, r)>>
        BY <1>1, <1>3 DEF SignPart, Signed
  <2> QED BY <2>1, <2>2, <2>3
<1>5. ASSUME NEW r, NEW n, NEW m
      PROVE  AlignPart(0, <<r>>, n, m) =
                 IF {"Width"} \subseteq r.mode /\ ~({"Padding"} \subseteq r.mode)
                 THEN <<Placing(n, m, r)>> ELSE <<>>
  <2>1. /\ Has(<<r>>, {"Width"}) <=> {"Width"} \subseteq r.mode
        /\ Has(<<r>>, {"Padding"}) <=> {"Padding"} \subseteq r.mode
        BY <1>1 DEF Has
  <2> QED BY <1>3, <2>1 DEF AlignPart, Placing
<1>6. ASSUME NEW r
      PROVE  /\ PaddingPart(3, <<r>>) =
                   IF {"Width"} \subseteq r.mode THEN <<With(<<r>>, {"Padding"})>> ELSE <<>>
             /\ HashPart(2, <<r>>) = IF {"Type"} \subseteq r.mode THEN <<r>> ELSE <<>>
  <2>1. /\ Has(<<r>>, {"Width"}) <=> {"Width"} \subseteq r.mode
        /\ Has(<<r>>, {"Type"}) <=> {"Type"} \subseteq r.mode
        BY <1>1 DEF Has
  <2> QED BY <1>3, <2>1 DEF PaddingPart, HashPart
<1> QED BY <1>2, <1>4, <1>5, <1>6

\* A value v for the readings T of a place, or u without the part there, which S has.
PartFound(v, u, S, T, there) ==
    /\ Stands(u, S) /\ S \subseteq T
    /\ ~there => v = u
    /\ there => u = <<>>
    /\ there => v = <<>> \/ \E m : v = <<m>>
    /\ \A x \in T : WellFormed(x) /\ x \notin S => there /\ v = <<Means(x)>>
    /\ there => \A m : v = <<m>> => \E x \in T : WellFormed(x) /\ m = Means(x)

\* If a part is there nothing is without it, and if not nothing is with it.
LEMMA StandsBy ==
    ASSUME NEW v, NEW u, NEW S, NEW T, NEW there, PartFound(v, u, S, T, there)
    PROVE  Stands(v, T)
<1>1. CASE there
  <2>1. \A x \in S : ~WellFormed(x)
        BY <1>1 DEF Stands, PartFound
  <2>2. \A x \in T : WellFormed(x) => v = <<Means(x)>>
        BY <2>1 DEF PartFound
  <2> QED BY <1>1, <2>2 DEF Stands, PartFound
<1>2. CASE ~there
  <2>1. v = u
        BY <1>2 DEF PartFound
  <2>2. \A x \in T : WellFormed(x) => x \in S
        BY <1>2 DEF PartFound
  <2> QED BY <2>1, <2>2, StandsFor DEF PartFound
<1> QED BY <1>1, <1>2

\* The rest of a stretch behind its first character.
LEMMA SpanTail ==
    ASSUME NEW s, IsSequence(s), NEW a \in Nat, NEW b \in a + 1 .. Len(s)
    PROVE  /\ Span(s, a, b) # <<>> /\ Span(s, a, b)[1] = At(s, a)
           /\ Tail(Span(s, a, b)) = Span(s, a + 1, b)
<1> DEFINE t == Span(s, a, b)
<1>1. /\ Len(s) \in Nat /\ b \in a .. Len(s) /\ a # b /\ 1 \in 1 .. b - a /\ a + 1 - 1 = a
      /\ 1 \in Nat /\ b - a \in 1 .. b - a /\ a + (b - a) = b /\ b - a # 0
      BY SequenceIs
<1>2. /\ t # <<>>
      /\ IsSequence(t) /\ Len(t) = b - a /\ \A i \in 1 .. b - a : t[i] = At(s, a + i - 1)
  <2>1. t # <<>>
        BY <1>1, EmptySpan
  <2>2. IsSequence(t) /\ Len(t) = b - a /\ \A i \in 1 .. b - a : t[i] = At(s, a + i - 1)
        BY <1>1, SpanIs
  <2> QED BY <2>1, <2>2
<1>3. Span(t, 1, b - a) = Span(s, a + 1, a + (b - a))
  <2> DEFINE d == b - a
  <2>1. 1 \in Nat /\ d \in 1 .. b - a /\ a \in Nat /\ b \in a .. Len(s)
        BY <1>1
  <2> HIDE DEF d
  <2>2. Span(Span(s, a, b), 1, d) = Span(s, a + 1, a + d)
        BY <2>1, SpanOfSpan
  <2> QED BY <2>2 DEF d
<1> HIDE DEF t
<1>4. t[1] = At(s, a)
      BY <1>1, <1>2
<1>5. Tail(t) = Span(t, 1, b - a)
  <2>1. t \in Seq({t[i] : i \in 1 .. Len(t)}) /\ t # <<>>
        BY <1>2 DEF IsSequence
  <2> DEFINE T == {t[i] : i \in 1 .. Len(t)}
  <2> HIDE DEF T
  <2>2. t \in Seq(T)
        BY <2>1 DEF T
  <2>3. Tail(t) = SubSeq(t, 2, Len(t))
        BY <2>1, <2>2, TailIsSubSeq
  <2> QED BY <1>2, <2>3 DEF Span
<1> QED BY <1>1, <1>2, <1>3, <1>4, <1>5 DEF t

\* Behind a place that is not the last.
LEMMA CountBehind ==
    ASSUME NEW p, NEW end, Closed(p, end), NEW a \in 0 .. end, a # end
    PROVE  /\ Behind(p, end, a) = DigitsEnd(p, a + 1)
           /\ CountEnd(p, a + 1) \in a + 1 .. end
           /\ CountEnd(p, a + 1) = IF At(p, Behind(p, end, a)) = "$"
                                   THEN Behind(p, end, a) + 1 ELSE Behind(p, end, a)
<1> DEFINE pos == Behind(p, end, a)
<1>1. pos = DigitsEnd(p, a + 1) /\ pos \in a + 1 .. end /\ (At(p, pos) = "$" => pos < end)
      BY BehindIs
<1> HIDE DEF pos
<1>2. CountEnd(p, a + 1) = IF At(p, pos) = "$" THEN pos + 1 ELSE pos
      BY <1>1 DEF CountEnd
<1>3. end \in Nat
      BY DEF Closed
<1>4. CountEnd(p, a + 1) \in a + 1 .. end
      BY <1>1, <1>2, <1>3
<1> QED BY <1>1, <1>2, <1>4 DEF pos

\* The precision.
LEMMA PrecisionStands ==
    ASSUME NEW p, NEW end, Closed(p, end), NEW f, Solves(p, end, f), NEW a \in 0 .. end
    PROVE  Stands(f[a][5], FromPrecision(p, end, a))
<1> DEFINE S(b) == FromType(p, end, b)
           T == FromPrecision(p, end, a)
           w(b) == Span(p, a, b)
<1>1. /\ IsSequence(p) /\ end \in Nat /\ Len(p) = end + 1 /\ a \in Nat
      BY DEF Closed
<1>2. \A b \in 0 .. end : Stands(f[b][6], S(b))
      BY TypeStands
<1>3. \A x : x \in T <=>
          x \in S(a) \/ \E b \in a + 1 .. end : \E y \in S(b) : x = [y EXCEPT !.precision = w(b)]
      BY CutsAre
<1>4. CASE a = end
  <2>1. f[a][5] = f[a][6]
        BY <1>4, AtEnd
  <2>2. a + 1 .. end = {}
        BY <1>1, <1>4
  <2>3. T = S(a)
        BY <1>3, <2>2
  <2> HIDE DEF T, S
  <2> QED BY <1>2, <2>1, <2>3 DEF T
<1>5. CASE a # end
  <2> DEFINE k == CountEnd(p, a + 1)
             pos == DigitsEnd(p, a + 1)
             n == Number(p, a + 1, pos)
             parts == IF At(p, pos) = "$" THEN PreciArg ELSE {"Precision"}
             there == At(p, a) = "." /\ a + 1 < end
  <2>1. /\ Behind(p, end, a) = pos /\ k \in a + 1 .. end /\ k \in 0 .. end /\ a + 1 \in 0 .. end
        /\ k = IF At(p, pos) = "$" THEN pos + 1 ELSE pos
    <3>1. /\ Behind(p, end, a) = pos /\ k \in a + 1 .. end
          /\ k = IF At(p, pos) = "$" THEN pos + 1 ELSE pos
          BY <1>5, CountBehind
    <3> HIDE DEF k, pos
    <3> QED BY <1>1, <1>5, <3>1
  <2>2. Found(p, end, f, a)
        BY <1>5, PartsFound
  <2> HIDE DEF pos, k
  <2>3. /\ f[a][5] = IF there THEN PrecisionPart(5, f[k][6], <<n>>, parts) ELSE f[a][6]
        /\ there => f[a][6] = <<>>
        BY <2>1, <2>2 DEF Found
  <2>4. ASSUME NEW b \in a + 1 .. end, ~IsInteger(At(p, b)), At(p, b) # "$"
        PROVE  /\ w(b)[1] = "." /\ IsCount(Tail(w(b))) <=> At(p, a) = "." /\ b = k
               /\ b = k => CountIn(Tail(w(b))) = n
               /\ b = k /\ At(p, a) = "." => (IsIndirect(w(b)) <=> At(p, pos) = "$")
               /\ w(b) # <<>>
               /\ At(p, a) = "." => (w(b) = <<".">> <=> b = a + 1)
    <3>1. /\ b \in a + 1 .. Len(p) /\ a + 1 \in 0 .. end /\ b \in a .. Len(p) /\ b \in 0 .. end
          BY <1>1, <1>5
    <3>2. w(b) # <<>> /\ w(b)[1] = At(p, a) /\ Tail(w(b)) = Span(p, a + 1, b)
          BY <1>1, <3>1, SpanTail
    <3>3. /\ IsCount(Span(p, a + 1, b)) <=> b = k
          /\ b = k => /\ CountIn(Span(p, a + 1, b)) = n
                      /\ IsIndirect(Span(p, a + 1, b)) <=> At(p, pos) = "$"
          BY <2>4, <3>1, CountCut DEF k, pos
    <3>4. /\ Len(w(b)) = b - a /\ w(b)[b - a] = At(p, b - 1)
          /\ b - a \in Int /\ b - a \in 1 .. b - a
      <4>1. b - a \in 1 .. b - a /\ a + (b - a) - 1 = b - 1
            BY <1>1, <3>1
      <4>2. Len(w(b)) = b - a /\ w(b)[b - a] = At(p, a + (b - a) - 1)
            BY <1>1, <3>1, <4>1, SpanIs
      <4> QED BY <4>1, <4>2
    <3>5. w(b) = <<".">> => b = a + 1
      <4>1. Len(<<".">>) = 1
            OBVIOUS
      <4>2. w(b) = <<".">> => b - a = 1
            BY <3>4, <4>1, Zenon
      <4> QED BY <1>1, <4>2
    <3>6. At(p, a) = "." /\ b = a + 1 => w(b) = <<".">>
          BY <1>1, <3>1, ShortSpans
    <3>7. ASSUME b = k, At(p, a) = "."
          PROVE  IsIndirect(w(b)) <=> At(p, pos) = "$"
      <4>1. IsIndirect(w(b)) <=> At(p, b - 1) = "$"
            BY <3>2, <3>4 DEF IsIndirect
      <4>2. CASE b = a + 1
        <5>1. Span(p, a + 1, b) = <<>>
          <6>1. a + 1 \in Nat /\ b \in a + 1 .. Len(p)
                BY <1>1, <3>1
          <6> QED BY <1>1, <4>2, <6>1, EmptySpan
        <5>2. ~IsIndirect(Span(p, a + 1, b))
              BY <5>1, EmptyCount
        <5>3. b - 1 = a
              BY <1>1, <4>2
        <5> QED BY <3>3, <3>7, <4>1, <5>2, <5>3, Kinds
      <4>3. CASE b # a + 1
        <5>1. /\ a + 1 \in Nat /\ b \in a + 1 .. Len(p) /\ b - (a + 1) \in 1 .. b - (a + 1)
              /\ (a + 1) + (b - (a + 1)) - 1 = b - 1
              BY <1>1, <3>1, <4>3
        <5>2. /\ Span(p, a + 1, b) # <<>>
              /\ Len(Span(p, a + 1, b)) = b - (a + 1)
              /\ Span(p, a + 1, b)[b - (a + 1)] = At(p, (a + 1) + (b - (a + 1)) - 1)
          <6>1. Span(p, a + 1, b) # <<>>
                BY <1>1, <4>3, <5>1, EmptySpan
          <6>2. /\ Len(Span(p, a + 1, b)) = b - (a + 1)
                /\ Span(p, a + 1, b)[b - (a + 1)] = At(p, (a + 1) + (b - (a + 1)) - 1)
                BY <1>1, <5>1, SpanIs
          <6> QED BY <6>1, <6>2
        <5>3. IsIndirect(Span(p, a + 1, b)) <=> At(p, b - 1) = "$"
              BY <5>1, <5>2 DEF IsIndirect
        <5> QED BY <3>3, <3>7, <4>1, <5>3
      <4> QED BY <4>2, <4>3
    <3> HIDE DEF w, n
    <3> QED BY <3>2, <3>3, <3>5, <3>6, <3>7
  <2>5. ASSUME NEW b \in a + 1 .. end, NEW y \in S(b)
        PROVE  LET x == [y EXCEPT !.precision = w(b)]
               IN  /\ WellFormed(x) <=> WellFormed(y) /\ there /\ b = k
                   /\ WellFormed(x) => Means(x) = Precise(n, parts, Means(y))
    <3> DEFINE x == [y EXCEPT !.precision = w(b)]
    <3>1. b \in 0 .. end /\ w(b) # <<>>
      <4>1. b \in 0 .. end /\ b \in a + 1 .. Len(p)
            BY <1>1
      <4>2. w(b) # <<>>
            BY <1>1, <4>1, SpanTail
      <4> QED BY <4>1, <4>2
    <3>2. /\ IsReading(y) /\ y.align = <<>> /\ y.sign = <<>> /\ y.hash = <<>>
          /\ y.padding = <<>> /\ y.width = <<>> /\ y.precision = <<>>
          /\ y.type = Span(p, b, end)
          BY ReadingsFrom
    <3>3. /\ WellFormed(x) <=> /\ WellFormed(y)
                               /\ w(b)[1] = "." /\ IsCount(Tail(w(b)))
                               /\ w(b) = <<".">> => y.type # <<>>
          /\ Means(x) = Precise(CountIn(Tail(w(b))),
                                IF IsIndirect(w(b)) THEN PreciArg ELSE {"Precision"}, Means(y))
      <4> HIDE DEF w, S
      <4> QED BY <3>1, <3>2, PrecisionAdds
    <3> HIDE DEF x
    <3>4. CASE ~WellFormed(y)
          BY <3>3, <3>4 DEF x
    <3>5. CASE WellFormed(y)
      <4>1. f[b][6] = <<Means(y)>>
            BY <1>2, <3>1, <3>5 DEF Stands
      <4>2. f[b][6] # <<>>
            BY <4>1
      <4>3. ~IsInteger(At(p, b)) /\ At(p, b) # "$"
            BY <3>1, <4>2, Follows
      <4>4. y.type # <<>> <=> b # end
        <5>1. end \in b .. Len(p) /\ b \in Nat
              BY <1>1, <3>1
        <5> QED BY <1>1, <3>2, <5>1, EmptySpan
      <4> HIDE DEF w, S
      <4>5. At(p, a) = "." /\ b = k => ((w(b) = <<".">> => y.type # <<>>) <=> a + 1 < end)
            BY <1>1, <1>5, <2>4, <3>1, <4>3, <4>4
      <4>6. WellFormed(x) <=> there /\ b = k
            BY <2>4, <3>3, <3>5, <4>3, <4>5
      <4>7. WellFormed(x) => Means(x) = Precise(n, parts, Means(y))
            BY <2>4, <3>3, <4>3, <4>6
      <4> QED BY <3>5, <4>6, <4>7 DEF x, w
    <3> QED BY <3>4, <3>5
  <2> HIDE DEF T, S, w, n, parts
  <2>6. Stands(f[k][6], S(k)) /\ Stands(f[a][6], S(a)) /\ \A b \in a + 1 .. end : b \in 0 .. end
        BY <1>1, <1>2, <2>1
  <2>7. there => f[a][5] = <<>> \/ \E m : f[a][5] = <<m>>
        BY <2>3, <2>6, PartIs DEF Stands
  <2>8. ASSUME NEW x \in T, WellFormed(x), x \notin S(a)
        PROVE  there /\ f[a][5] = <<Means(x)>>
    <3>1. PICK b \in a + 1 .. end : \E y \in S(b) : x = [y EXCEPT !.precision = w(b)]
          BY <1>3, <2>8
    <3>2. PICK y \in S(b) : x = [y EXCEPT !.precision = w(b)]
          BY <3>1
    <3>3. WellFormed(y) /\ there /\ b = k /\ Means(x) = Precise(n, parts, Means(y))
          BY <2>5, <2>8, <3>2
    <3>4. f[k][6] = <<Means(y)>>
          BY <2>6, <3>3 DEF Stands
    <3> QED BY <2>3, <3>3, <3>4, PartIs
  <2>9. ASSUME there, NEW m, f[a][5] = <<m>>
        PROVE  \E x \in T : WellFormed(x) /\ m = Means(x)
    <3>1. f[a][5] = PrecisionPart(5, f[k][6], <<n>>, parts)
          BY <2>3, <2>9
    <3>2. f[k][6] # <<>>
      <4>1. PrecisionPart(5, <<>>, <<n>>, parts) = <<>>
            BY PartIs
      <4>2. <<m>> # <<>>
            OBVIOUS
      <4> QED BY <2>9, <3>1, <4>1, <4>2
    <3>3. PICK r : f[k][6] = <<r>>
          BY <2>6, <3>2 DEF Stands
    <3>4. m = Precise(n, parts, r)
      <4>1. <<m>> = <<Precise(n, parts, r)>>
            BY <2>9, <3>1, <3>3, PartIs
      <4> QED BY <4>1
    <3>5. PICK y \in S(k) : WellFormed(y) /\ r = Means(y)
          BY <2>6, <3>3 DEF Stands
    <3> DEFINE x == [y EXCEPT !.precision = w(k)]
    <3>6. x \in T
          BY <1>3, <2>1
    <3>7. WellFormed(x) /\ Means(x) = Precise(n, parts, r)
          BY <2>1, <2>5, <2>9, <3>5
    <3> QED BY <3>4, <3>6, <3>7
  <2>10. S(a) \subseteq T
         BY <1>3
  <2> HIDE DEF there
  <2>11. PartFound(f[a][5], f[a][6], S(a), T, there)
         BY <2>3, <2>6, <2>7, <2>8, <2>9, <2>10 DEF PartFound
  <2>12. Stands(f[a][5], T)
         BY <2>11, StandsBy
  <2> QED BY <2>12 DEF T
<1> QED BY <1>4, <1>5

\* A stretch that is there is a width before what is no digit and no dollar if it is
\* the digits at its place, with the dollar behind them, and more than zeros.
LEMMA WidthCut ==
    ASSUME NEW p, NEW end, Closed(p, end), NEW a \in 0 .. end, a # end,
           NEW b \in a + 1 .. end, ~IsInteger(At(p, b)), At(p, b) # "$"
    PROVE  LET w == Span(p, a, b)
               pos == DigitsEnd(p, a + 1)
               zero == At(p, a) = "0" /\ At(p, a + 1) # "$"
               digits == IsInteger(At(p, a)) /\ ~zero
           IN  /\ w # <<>>
               /\ (IsCount(w) /\ w # <<"$">> /\ (w[1] # "0" \/ w = <<"0", "$">>))
                      <=> digits /\ b = CountEnd(p, a + 1)
               /\ digits /\ b = CountEnd(p, a + 1) => /\ CountIn(w) = Number(p, a, pos)
                                                      /\ IsIndirect(w) <=> At(p, pos) = "$"
<1> DEFINE w == Span(p, a, b)
           pos == DigitsEnd(p, a + 1)
           k == CountEnd(p, a + 1)
           zero == At(p, a) = "0" /\ At(p, a + 1) # "$"
<1>1. /\ IsSequence(p) /\ end \in Nat /\ Len(p) = end + 1 /\ a \in Nat /\ a \in 0 .. Len(p)
      /\ b \in a + 1 .. Len(p) /\ b \in a .. Len(p) /\ b \in Nat /\ b \in a .. end
      /\ a + 1 \in 0 .. Len(p)
      BY DEF Closed
<1>2. w # <<>> /\ w[1] = At(p, a)
      BY <1>1, SpanTail
<1>3. /\ IsCount(w) <=> b = CountEnd(p, a)
      /\ b = CountEnd(p, a) => /\ CountIn(w) = Number(p, a, DigitsEnd(p, a))
                               /\ IsIndirect(w) <=> At(p, DigitsEnd(p, a)) = "$"
      BY <1>1, CountCut
<1>4. /\ pos \in a + 1 .. Len(p) /\ ~IsInteger(At(p, pos))
      /\ \A j \in a + 1 .. pos - 1 : IsInteger(At(p, j))
      BY <1>1, DigitsEndIs
<1>5. /\ DigitsEnd(p, a) \in a .. Len(p) /\ ~IsInteger(At(p, DigitsEnd(p, a)))
      /\ \A j \in a .. DigitsEnd(p, a) - 1 : IsInteger(At(p, j))
      BY <1>1, DigitsEndIs
<1>6. IsInteger(At(p, a)) => DigitsEnd(p, a) = pos
  <2> DEFINE d == DigitsEnd(p, a)
  <2> HIDE DEF d, pos
  <2>1. IsInteger(At(p, a)) => d # a
        BY <1>5 DEF d
  <2>2. IsInteger(At(p, a)) => ~(d < pos)
    <3>1. d < pos /\ d # a => d \in a + 1 .. pos - 1
          BY <1>1, <1>4, <1>5 DEF d
    <3> QED BY <1>4, <1>5, <2>1, <3>1 DEF d
  <2>3. ~(pos < d)
    <3>1. pos < d => pos \in a .. d - 1
          BY <1>1, <1>4, <1>5 DEF d
    <3> QED BY <1>4, <1>5, <3>1 DEF d
  <2> QED BY <1>1, <1>4, <1>5, <2>2, <2>3 DEF d
<1>7. CASE ~IsInteger(At(p, a))
  <2>1. DigitsEnd(p, a) = a
    <3>1. DigitsEnd(p, a) # a => a \in a .. DigitsEnd(p, a) - 1
          BY <1>1, <1>5
    <3> QED BY <1>5, <1>7, <3>1
  <2>2. CountEnd(p, a) = IF At(p, a) = "$" THEN a + 1 ELSE a
        BY <2>1 DEF CountEnd
  <2>3. b = CountEnd(p, a) => At(p, a) = "$" /\ b = a + 1
        BY <1>1, <2>2
  <2>4. b = a + 1 => w = <<At(p, a)>>
        BY <1>1, ShortSpans
  <2>5. IsCount(w) => w = <<"$">>
        BY <1>3, <2>3, <2>4
  <2> QED BY <1>2, <1>7, <2>5
<1>8. CASE IsInteger(At(p, a))
  <2>1. CountEnd(p, a) = k
        BY <1>6, <1>8 DEF CountEnd
  <2>2. At(p, a) # "$" /\ <<"$">>[1] = "$" /\ <<"0", "$">>[1] = "0" /\ <<"0", "$">>[2] = "$"
        BY <1>8, Kinds
  <2>3. w # <<"$">>
        BY <1>2, <2>2
  <2>4. ASSUME b = k, At(p, a) = "0" PROVE w = <<"0", "$">> <=> At(p, a + 1) = "$"
    <3>1. ASSUME At(p, a + 1) = "$" PROVE w = <<"0", "$">>
      <4>1. pos = a + 1
        <5>1. pos # a + 1 => a + 1 \in a + 1 .. pos - 1
          <6> HIDE DEF pos
          <6> QED BY <1>1, <1>4
        <5> QED BY <1>4, <3>1, <5>1, Kinds
      <4>2. b = a + 2
        <5>1. k = a + 1 + 1
              BY <3>1, <4>1 DEF CountEnd
        <5> HIDE DEF k
        <5> QED BY <1>1, <2>4, <5>1
      <4> QED BY <1>1, <2>4, <3>1, <4>2, ShortSpans
    <3>2. ASSUME w = <<"0", "$">> PROVE At(p, a + 1) = "$"
      <4>1. Len(<<"0", "$">>) = 2
            OBVIOUS
      <4>2. Len(w) = b - a /\ \A i \in 1 .. b - a : w[i] = At(p, a + i - 1)
            BY <1>1, SpanIs
      <4>3. b - a = 2
            BY <3>2, <4>1, <4>2, Zenon
      <4>4. w[2] = At(p, a + 2 - 1) /\ a + 2 - 1 = a + 1
        <5>1. 2 \in 1 .. b - a /\ a + 2 - 1 = a + 1
              BY <1>1, <4>3
        <5> HIDE DEF w
        <5> QED BY <4>2, <5>1
      <4> QED BY <2>2, <3>2, <4>4, Zenon
    <3> QED BY <3>1, <3>2
  <2> HIDE DEF w, k
  <2>5. (IsCount(w) /\ w # <<"$">> /\ (w[1] # "0" \/ w = <<"0", "$">>)) <=> ~zero /\ b = k
        BY <1>2, <1>3, <2>1, <2>3, <2>4
  <2>6. b = k => /\ CountIn(w) = Number(p, a, pos)
                 /\ IsIndirect(w) <=> At(p, pos) = "$"
        BY <1>3, <1>6, <1>8, <2>1
  <2> QED BY <1>2, <1>8, <2>5, <2>6 DEF w, k
<1> QED BY <1>7, <1>8

\* The width.
LEMMA WidthStands ==
    ASSUME NEW p, NEW end, Closed(p, end), NEW f, Solves(p, end, f), NEW a \in 0 .. end
    PROVE  Stands(f[a][4], FromWidth(p, end, a))
<1> DEFINE S(b) == FromPrecision(p, end, b)
           T == FromWidth(p, end, a)
           w(b) == Span(p, a, b)
<1>1. /\ IsSequence(p) /\ end \in Nat /\ Len(p) = end + 1 /\ a \in Nat
      BY DEF Closed
<1>2. \A b \in 0 .. end : Stands(f[b][5], S(b))
      BY PrecisionStands
<1>3. \A x : x \in T <=>
          x \in S(a) \/ \E b \in a + 1 .. end : \E y \in S(b) : x = [y EXCEPT !.width = w(b)]
      BY CutsAre
<1>4. CASE a = end
  <2>1. f[a][4] = f[a][5]
        BY <1>4, AtEnd
  <2>2. a + 1 .. end = {}
        BY <1>1, <1>4
  <2>3. T = S(a)
        BY <1>3, <2>2
  <2> HIDE DEF T, S
  <2> QED BY <1>2, <2>1, <2>3 DEF T
<1>5. CASE a # end
  <2> DEFINE k == CountEnd(p, a + 1)
             pos == DigitsEnd(p, a + 1)
             n == Number(p, a, pos)
             parts == IF At(p, pos) = "$" THEN WidthArg ELSE {"Width"}
             there == IsInteger(At(p, a)) /\ ~(At(p, a) = "0" /\ At(p, a + 1) # "$")
  <2>1. /\ Behind(p, end, a) = pos /\ k \in a + 1 .. end /\ k \in 0 .. end /\ a + 1 \in 0 .. end
        /\ k = IF At(p, pos) = "$" THEN pos + 1 ELSE pos
    <3>1. /\ Behind(p, end, a) = pos /\ k \in a + 1 .. end
          /\ k = IF At(p, pos) = "$" THEN pos + 1 ELSE pos
          BY <1>5, CountBehind
    <3> HIDE DEF k, pos
    <3> QED BY <1>1, <1>5, <3>1
  <2>2. Found(p, end, f, a)
        BY <1>5, PartsFound
  <2> HIDE DEF pos, k
  <2>3. /\ f[a][4] = IF there THEN WidthPart(4, f[k][5], <<n>>, parts) ELSE f[a][5]
        /\ there => f[a][5] = <<>>
        BY <2>1, <2>2 DEF Found
  <2>4. ASSUME NEW b \in a + 1 .. end, NEW y \in S(b)
        PROVE  LET x == [y EXCEPT !.width = w(b)]
               IN  /\ WellFormed(x) <=> WellFormed(y) /\ there /\ b = k
                   /\ WellFormed(x) => Means(x) = Wide(n, parts, Means(y))
    <3> DEFINE x == [y EXCEPT !.width = w(b)]
    <3>1. b \in 0 .. end /\ w(b) # <<>>
      <4>1. b \in 0 .. end /\ b \in a + 1 .. Len(p)
            BY <1>1
      <4>2. w(b) # <<>>
            BY <1>1, <4>1, SpanTail
      <4> QED BY <4>1, <4>2
    <3>2. /\ IsReading(y) /\ y.align = <<>> /\ y.sign = <<>> /\ y.hash = <<>>
          /\ y.padding = <<>> /\ y.width = <<>>
          BY ReadingsFrom
    <3>3. /\ WellFormed(x) <=> /\ WellFormed(y)
                               /\ IsCount(w(b)) /\ w(b) # <<"$">>
                               /\ w(b)[1] # "0" \/ w(b) = <<"0", "$">>
          /\ Means(x) = Wide(CountIn(w(b)),
                             IF IsIndirect(w(b)) THEN WidthArg ELSE {"Width"}, Means(y))
      <4> HIDE DEF w, S
      <4> QED BY <3>1, <3>2, WidthAdds
    <3> HIDE DEF x
    <3>4. CASE ~WellFormed(y)
          BY <3>3, <3>4 DEF x
    <3>5. CASE WellFormed(y)
      <4>1. f[b][5] = <<Means(y)>>
            BY <1>2, <3>1, <3>5 DEF Stands
      <4>2. f[b][5] # <<>>
            BY <4>1
      <4>3. ~IsInteger(At(p, b)) /\ At(p, b) # "$"
            BY <3>1, <4>2, Follows
      <4>4. /\ (IsCount(w(b)) /\ w(b) # <<"$">> /\ (w(b)[1] # "0" \/ w(b) = <<"0", "$">>))
                  <=> there /\ b = k
            /\ there /\ b = k => /\ CountIn(w(b)) = n
                                 /\ IsIndirect(w(b)) <=> At(p, pos) = "$"
            BY <1>5, <4>3, WidthCut DEF k, pos
      <4> HIDE DEF w, S, there
      <4>5. WellFormed(x) <=> there /\ b = k
            BY <3>3, <3>5, <4>4
      <4>6. WellFormed(x) => Means(x) = Wide(n, parts, Means(y))
            BY <3>3, <4>4, <4>5
      <4> QED BY <3>5, <4>5, <4>6 DEF x, w, there
    <3> QED BY <3>4, <3>5
  <2> HIDE DEF T, S, w, n, parts
  <2>5. Stands(f[k][5], S(k)) /\ Stands(f[a][5], S(a)) /\ \A b \in a + 1 .. end : b \in 0 .. end
        BY <1>1, <1>2, <2>1
  <2>6. there => f[a][4] = <<>> \/ \E m : f[a][4] = <<m>>
        BY <2>3, <2>5, PartIs DEF Stands
  <2>7. ASSUME NEW x \in T, WellFormed(x), x \notin S(a)
        PROVE  there /\ f[a][4] = <<Means(x)>>
    <3>1. PICK b \in a + 1 .. end : \E y \in S(b) : x = [y EXCEPT !.width = w(b)]
          BY <1>3, <2>7
    <3>2. PICK y \in S(b) : x = [y EXCEPT !.width = w(b)]
          BY <3>1
    <3>3. WellFormed(y) /\ there /\ b = k /\ Means(x) = Wide(n, parts, Means(y))
          BY <2>4, <2>7, <3>2
    <3>4. f[k][5] = <<Means(y)>>
          BY <2>5, <3>3 DEF Stands
    <3> QED BY <2>3, <3>3, <3>4, PartIs
  <2>8. ASSUME there, NEW m, f[a][4] = <<m>>
        PROVE  \E x \in T : WellFormed(x) /\ m = Means(x)
    <3>1. f[a][4] = WidthPart(4, f[k][5], <<n>>, parts)
          BY <2>3, <2>8
    <3>2. f[k][5] # <<>>
      <4>1. WidthPart(4, <<>>, <<n>>, parts) = <<>>
            BY PartIs
      <4>2. <<m>> # <<>>
            OBVIOUS
      <4> QED BY <2>8, <3>1, <4>1, <4>2
    <3>3. PICK r : f[k][5] = <<r>>
          BY <2>5, <3>2 DEF Stands
    <3>4. m = Wide(n, parts, r)
      <4>1. <<m>> = <<Wide(n, parts, r)>>
            BY <2>8, <3>1, <3>3, PartIs
      <4> QED BY <4>1
    <3>5. PICK y \in S(k) : WellFormed(y) /\ r = Means(y)
          BY <2>5, <3>3 DEF Stands
    <3> DEFINE x == [y EXCEPT !.width = w(k)]
    <3>6. x \in T
          BY <1>3, <2>1
    <3>7. WellFormed(x) /\ Means(x) = Wide(n, parts, r)
          BY <2>1, <2>4, <2>8, <3>5
    <3> QED BY <3>4, <3>6, <3>7
  <2>9. S(a) \subseteq T
        BY <1>3
  <2> HIDE DEF there
  <2>10. PartFound(f[a][4], f[a][5], S(a), T, there)
         BY <2>3, <2>5, <2>6, <2>7, <2>8, <2>9 DEF PartFound
  <2>11. Stands(f[a][4], T)
         BY <2>10, StandsBy
  <2> QED BY <2>11 DEF T
<1> QED BY <1>4, <1>5

\* The padding.
LEMMA PaddingStands ==
    ASSUME NEW p, NEW end, Closed(p, end), NEW f, Solves(p, end, f), NEW a \in 0 .. end
    PROVE  Stands(f[a][3], FromPadding(p, end, a))
<1> DEFINE S(b) == FromWidth(p, end, b)
           T == FromPadding(p, end, a)
           c == At(p, a)
           there == c = "0" /\ At(p, a + 1) # "$"
           z == f[a + 1][4]
<1>1. /\ end \in Nat /\ a \in Nat /\ (a < end => a + 1 \in 0 .. end) /\ (a < end <=> a # end)
      BY DEF Closed
<1>2. \A b \in 0 .. end : Stands(f[b][4], S(b))
      BY WidthStands
<1>3. \A x : x \in T <=>
          x \in S(a) \/ (a < end /\ \E y \in S(a + 1) : x = [y EXCEPT !.padding = <<c>>])
      BY CutsAre
<1>4. CASE a = end
  <2>1. f[a][3] = f[a][4]
        BY <1>4, AtEnd
  <2>2. T = S(a)
        BY <1>1, <1>3, <1>4
  <2> HIDE DEF T, S
  <2> QED BY <1>2, <2>1, <2>2 DEF T
<1>5. CASE a # end
  <2>1. Found(p, end, f, a)
        BY <1>5, PartsFound
  <2>2. /\ f[a][3] = IF there THEN PaddingPart(3, f[a + 1][4]) ELSE f[a][4]
        /\ there => f[a][4] = <<>>
        BY <2>1 DEF Found
  <2>3. Stands(z, S(a + 1)) /\ Stands(f[a][4], S(a))
        BY <1>1, <1>2, <1>5
  <2>4. z # <<>> => At(p, a + 1) # "$"
    <3>1. CASE a + 1 = end
          BY <3>1 DEF Closed
    <3>2. CASE a + 1 # end
      <4>1. Found(p, end, f, a + 1)
            BY <1>1, <1>5, <3>2, PartsFound
      <4> QED BY <4>1 DEF Found
    <3> QED BY <3>1, <3>2
  <2>5. ASSUME NEW y \in S(a + 1)
        PROVE  LET x == [y EXCEPT !.padding = <<c>>]
               IN  /\ WellFormed(x) <=> WellFormed(y) /\ there /\ y.width # <<>>
                   /\ Means(x) = With(<<Means(y)>>, {"Padding"})
    <3>1. IsReading(y) /\ y.align = <<>> /\ y.sign = <<>> /\ y.hash = <<>> /\ y.padding = <<>>
          BY ReadingsFrom
    <3>2. LET x == [y EXCEPT !.padding = <<c>>]
          IN  /\ WellFormed(x) <=> WellFormed(y) /\ c = "0" /\ y.width # <<>>
              /\ Means(x) = With(<<Means(y)>>, {"Padding"})
      <4> HIDE DEF S, c
      <4> QED BY <3>1, OneCharacterAdds
    <3>3. WellFormed(y) => z # <<>>
          BY <2>3 DEF Stands
    <3> HIDE DEF z, S
    <3> QED BY <2>4, <3>2, <3>3
  <2> HIDE DEF S, T, z
  <2>6. there => f[a][3] = <<>> \/ \E m : f[a][3] = <<m>>
    <3>1. z = <<>> \/ \E r : z = <<r>>
          BY <2>3 DEF Stands
    <3>2. CASE z = <<>>
          BY <2>2, <3>2, PartIs DEF z
    <3>3. CASE \E r : z = <<r>>
      <4>1. PICK r : z = <<r>>
            BY <3>3
      <4>2. there => f[a][3] = PaddingPart(3, <<r>>)
            BY <2>2, <4>1 DEF z
      <4>3. PaddingPart(3, <<r>>) = IF {"Width"} \subseteq r.mode
                                  THEN <<With(<<r>>, {"Padding"})>> ELSE <<>>
            BY PartIs
      <4> QED BY <4>2, <4>3
    <3> QED BY <3>1, <3>2, <3>3
  <2>7. ASSUME NEW x \in T, WellFormed(x), x \notin S(a)
        PROVE  there /\ f[a][3] = <<Means(x)>>
    <3>1. PICK y \in S(a + 1) : x = [y EXCEPT !.padding = <<c>>]
          BY <1>3, <2>7
    <3>2. WellFormed(y) /\ there /\ y.width # <<>> /\ Means(x) = With(<<Means(y)>>, {"Padding"})
          BY <2>5, <2>7, <3>1
    <3>3. z = <<Means(y)>>
          BY <2>3, <3>2 DEF Stands
    <3> QED BY <2>2, <3>2, <3>3, PartIs, MeaningIs DEF z
  <2>8. ASSUME there, NEW m, f[a][3] = <<m>>
        PROVE  \E x \in T : WellFormed(x) /\ m = Means(x)
    <3>1. f[a][3] = PaddingPart(3, z)
          BY <2>2, <2>8 DEF z
    <3>2. z # <<>>
      <4>1. PaddingPart(3, <<>>) = <<>>
            BY PartIs
      <4>2. <<m>> # <<>>
            OBVIOUS
      <4> QED BY <2>8, <3>1, <4>1, <4>2
    <3>3. PICK r : z = <<r>>
          BY <2>3, <3>2 DEF Stands
    <3>4. {"Width"} \subseteq r.mode /\ m = With(<<r>>, {"Padding"})
      <4>1. PaddingPart(3, <<r>>) = IF {"Width"} \subseteq r.mode
                                  THEN <<With(<<r>>, {"Padding"})>> ELSE <<>>
            BY PartIs
      <4>2. {"Width"} \subseteq r.mode /\ <<m>> = <<With(<<r>>, {"Padding"})>>
            BY <2>8, <3>1, <3>3, <4>1
      <4> QED BY <4>2
    <3>5. PICK y \in S(a + 1) : WellFormed(y) /\ r = Means(y)
          BY <2>3, <3>3 DEF Stands
    <3> DEFINE x == [y EXCEPT !.padding = <<c>>]
    <3>6. x \in T
          BY <1>1, <1>3, <1>5
    <3>7. WellFormed(x) /\ Means(x) = With(<<r>>, {"Padding"})
      <4>1. y.width # <<>>
            BY <3>4, <3>5, MeaningIs
      <4> QED BY <2>5, <2>8, <3>5, <4>1
    <3> QED BY <3>4, <3>6, <3>7
  <2>9. S(a) \subseteq T
        BY <1>3
  <2> HIDE DEF there
  <2>10. PartFound(f[a][3], f[a][4], S(a), T, there)
         BY <2>2, <2>3, <2>6, <2>7, <2>8, <2>9 DEF PartFound
  <2>11. Stands(f[a][3], T)
         BY <2>10, StandsBy
  <2> QED BY <2>11 DEF T
<1> QED BY <1>4, <1>5

\* The # before a type.
LEMMA HashStands ==
    ASSUME NEW p, NEW end, Closed(p, end), NEW f, Solves(p, end, f), NEW a \in 0 .. end
    PROVE  Stands(f[a][2], FromHash(p, end, a))
<1> DEFINE S(b) == FromPadding(p, end, b)
           T == FromHash(p, end, a)
           c == At(p, a)
           there == c = "#"
           z == f[a + 1][3]
<1>1. /\ end \in Nat /\ a \in Nat /\ (a < end => a + 1 \in 0 .. end) /\ (a < end <=> a # end)
      BY DEF Closed
<1>2. \A b \in 0 .. end : Stands(f[b][3], S(b))
      BY PaddingStands
<1>3. \A x : x \in T <=>
          x \in S(a) \/ (a < end /\ \E y \in S(a + 1) : x = [y EXCEPT !.hash = <<c>>])
      BY CutsAre
<1>4. CASE a = end
  <2>1. f[a][2] = f[a][3]
        BY <1>4, AtEnd
  <2>2. T = S(a)
        BY <1>1, <1>3, <1>4
  <2> HIDE DEF T, S
  <2> QED BY <1>2, <2>1, <2>2 DEF T
<1>5. CASE a # end
  <2>1. Found(p, end, f, a)
        BY <1>5, PartsFound
  <2>2. /\ f[a][2] = IF there THEN HashPart(2, f[a + 1][3]) ELSE f[a][3]
        /\ there => f[a][3] = <<>>
        BY <2>1 DEF Found
  <2>3. Stands(z, S(a + 1)) /\ Stands(f[a][3], S(a))
        BY <1>1, <1>2, <1>5
  <2>4. ASSUME NEW y \in S(a + 1)
        PROVE  LET x == [y EXCEPT !.hash = <<c>>]
               IN  /\ WellFormed(x) <=> WellFormed(y) /\ there /\ y.type # <<>>
                   /\ Means(x) = Means(y)
    <3>1. IsReading(y) /\ y.align = <<>> /\ y.sign = <<>> /\ y.hash = <<>>
          BY ReadingsFrom
    <3>2. LET x == [y EXCEPT !.hash = <<c>>]
          IN  /\ WellFormed(x) <=> WellFormed(y) /\ there /\ y.type # <<>>
              /\ Means(x) = Means(y)
      <4> HIDE DEF S, c
      <4> QED BY <3>1, OneCharacterAdds
    <3> QED BY <3>2
  <2> HIDE DEF S, T, z
  <2>5. there => f[a][2] = <<>> \/ \E m : f[a][2] = <<m>>
    <3>1. z = <<>> \/ \E r : z = <<r>>
          BY <2>3 DEF Stands
    <3>2. CASE z = <<>>
          BY <2>2, <3>2, PartIs DEF z
    <3>3. CASE \E r : z = <<r>>
      <4>1. PICK r : z = <<r>>
            BY <3>3
      <4>2. there => f[a][2] = HashPart(2, <<r>>)
            BY <2>2, <4>1 DEF z
      <4>3. HashPart(2, <<r>>) = IF {"Type"} \subseteq r.mode THEN <<r>> ELSE <<>>
            BY PartIs
      <4> QED BY <4>2, <4>3
    <3> QED BY <3>1, <3>2, <3>3
  <2>6. ASSUME NEW x \in T, WellFormed(x), x \notin S(a)
        PROVE  there /\ f[a][2] = <<Means(x)>>
    <3>1. PICK y \in S(a + 1) : x = [y EXCEPT !.hash = <<c>>]
          BY <1>3, <2>6
    <3>2. WellFormed(y) /\ there /\ y.type # <<>> /\ Means(x) = Means(y)
          BY <2>4, <2>6, <3>1
    <3>3. z = <<Means(y)>>
          BY <2>3, <3>2 DEF Stands
    <3> QED BY <2>2, <3>2, <3>3, PartIs, MeaningIs DEF z
  <2>7. ASSUME there, NEW m, f[a][2] = <<m>>
        PROVE  \E x \in T : WellFormed(x) /\ m = Means(x)
    <3>1. f[a][2] = HashPart(2, z)
          BY <2>2, <2>7 DEF z
    <3>2. z # <<>>
      <4>1. HashPart(2, <<>>) = <<>>
            BY PartIs
      <4>2. <<m>> # <<>>
            OBVIOUS
      <4> QED BY <2>7, <3>1, <4>1, <4>2
    <3>3. PICK r : z = <<r>>
          BY <2>3, <3>2 DEF Stands
    <3>4. {"Type"} \subseteq r.mode /\ m = r
      <4>1. HashPart(2, <<r>>) = IF {"Type"} \subseteq r.mode THEN <<r>> ELSE <<>>
            BY PartIs
      <4>2. {"Type"} \subseteq r.mode /\ <<m>> = <<r>>
            BY <2>7, <3>1, <3>3, <4>1
      <4> QED BY <4>2
    <3>5. PICK y \in S(a + 1) : WellFormed(y) /\ r = Means(y)
          BY <2>3, <3>3 DEF Stands
    <3> DEFINE x == [y EXCEPT !.hash = <<c>>]
    <3>6. x \in T
          BY <1>1, <1>3, <1>5
    <3>7. WellFormed(x) /\ Means(x) = r
      <4>1. y.type # <<>>
            BY <3>4, <3>5, MeaningIs
      <4> QED BY <2>4, <2>7, <3>5, <4>1
    <3> QED BY <3>4, <3>6, <3>7
  <2>8. S(a) \subseteq T
        BY <1>3
  <2> HIDE DEF there
  <2>9. PartFound(f[a][2], f[a][3], S(a), T, there)
         BY <2>2, <2>3, <2>5, <2>6, <2>7, <2>8 DEF PartFound
  <2>10. Stands(f[a][2], T)
         BY <2>9, StandsBy
  <2> QED BY <2>10 DEF T
<1> QED BY <1>4, <1>5

\* The sign.
LEMMA SignStands ==
    ASSUME NEW p, NEW end, Closed(p, end), NEW f, Solves(p, end, f), NEW a \in 0 .. end
    PROVE  Stands(f[a][1], FromSign(p, end, a))
<1> DEFINE S(b) == FromHash(p, end, b)
           T == FromSign(p, end, a)
           c == At(p, a)
           there == is_sign(c)
           z == f[a + 1][2]
<1>1. /\ end \in Nat /\ a \in Nat /\ (a < end => a + 1 \in 0 .. end) /\ (a < end <=> a # end)
      BY DEF Closed
<1>2. \A b \in 0 .. end : Stands(f[b][2], S(b))
      BY HashStands
<1>3. \A x : x \in T <=>
          x \in S(a) \/ (a < end /\ \E y \in S(a + 1) : x = [y EXCEPT !.sign = <<c>>])
      BY CutsAre
<1>4. CASE a = end
  <2>1. f[a][1] = f[a][2]
        BY <1>4, AtEnd
  <2>2. T = S(a)
        BY <1>1, <1>3, <1>4
  <2> HIDE DEF T, S
  <2> QED BY <1>2, <2>1, <2>2 DEF T
<1>5. CASE a # end
  <2>1. Found(p, end, f, a)
        BY <1>5, PartsFound
  <2>2. /\ f[a][1] = IF there THEN SignPart(1, f[a + 1][2], c) ELSE f[a][2]
        /\ there => f[a][2] = <<>>
        BY <2>1 DEF Found
  <2>3. Stands(z, S(a + 1)) /\ Stands(f[a][2], S(a))
        BY <1>1, <1>2, <1>5
  <2>4. ASSUME NEW y \in S(a + 1)
        PROVE  LET x == [y EXCEPT !.sign = <<c>>]
               IN  /\ WellFormed(x) <=> WellFormed(y) /\ there
                   /\ Means(x) = Signed(c, Means(y))
    <3>1. IsReading(y) /\ y.align = <<>> /\ y.sign = <<>>
          BY ReadingsFrom
    <3>2. LET x == [y EXCEPT !.sign = <<c>>]
          IN  /\ WellFormed(x) <=> WellFormed(y) /\ there
              /\ Means(x) = Signed(c, Means(y))
      <4> HIDE DEF S, c
      <4> QED BY <3>1, SignAdds
    <3> QED BY <3>2
  <2> HIDE DEF S, T, z
  <2>5. there => f[a][1] = <<>> \/ \E m : f[a][1] = <<m>>
    <3>1. z = <<>> \/ \E r : z = <<r>>
          BY <2>3 DEF Stands
    <3>2. CASE z = <<>>
          BY <2>2, <3>2, PartIs DEF z
    <3>3. CASE \E r : z = <<r>>
      <4>1. PICK r : z = <<r>>
            BY <3>3
      <4>2. there => f[a][1] = SignPart(1, <<r>>, c)
            BY <2>2, <4>1 DEF z
      <4>3. SignPart(1, <<r>>, c) = <<Signed(c, r)>>
            BY PartIs
      <4> QED BY <4>2, <4>3
    <3> QED BY <3>1, <3>2, <3>3
  <2>6. ASSUME NEW x \in T, WellFormed(x), x \notin S(a)
        PROVE  there /\ f[a][1] = <<Means(x)>>
    <3>1. PICK y \in S(a + 1) : x = [y EXCEPT !.sign = <<c>>]
          BY <1>3, <2>6
    <3>2. WellFormed(y) /\ there /\ Means(x) = Signed(c, Means(y))
          BY <2>4, <2>6, <3>1
    <3>3. z = <<Means(y)>>
          BY <2>3, <3>2 DEF Stands
    <3> QED BY <2>2, <3>2, <3>3, PartIs, MeaningIs DEF z
  <2>7. ASSUME there, NEW m, f[a][1] = <<m>>
        PROVE  \E x \in T : WellFormed(x) /\ m = Means(x)
    <3>1. f[a][1] = SignPart(1, z, c)
          BY <2>2, <2>7 DEF z
    <3>2. z # <<>>
      <4>1. SignPart(1, <<>>, c) = <<>>
            BY PartIs
      <4>2. <<m>> # <<>>
            OBVIOUS
      <4> QED BY <2>7, <3>1, <4>1, <4>2
    <3>3. PICK r : z = <<r>>
          BY <2>3, <3>2 DEF Stands
    <3>4. m = Signed(c, r)
      <4>1. SignPart(1, <<r>>, c) = <<Signed(c, r)>>
            BY PartIs
      <4>2. <<m>> = <<Signed(c, r)>>
            BY <2>7, <3>1, <3>3, <4>1
      <4> QED BY <4>2
    <3>5. PICK y \in S(a + 1) : WellFormed(y) /\ r = Means(y)
          BY <2>3, <3>3 DEF Stands
    <3> DEFINE x == [y EXCEPT !.sign = <<c>>]
    <3>6. x \in T
          BY <1>1, <1>3, <1>5
    <3>7. WellFormed(x) /\ Means(x) = Signed(c, r)
          BY <2>4, <2>7, <3>5
    <3> QED BY <3>4, <3>6, <3>7
  <2>8. S(a) \subseteq T
        BY <1>3
  <2> HIDE DEF there
  <2>9. PartFound(f[a][1], f[a][2], S(a), T, there)
         BY <2>2, <2>3, <2>5, <2>6, <2>7, <2>8 DEF PartFound
  <2>10. Stands(f[a][1], T)
         BY <2>9, StandsBy
  <2> QED BY <2>10 DEF T
<1> QED BY <1>4, <1>5

\* The readings with an alignment before those of R.
AlignedAll(w, R) == {[y EXCEPT !.align = w] : y \in R}

\* An alignment before the rest of a pattern stands for one before the readings of the rest.
LEMMA AlignedStands ==
    ASSUME NEW z, NEW R, Stands(z, R), \A y \in R : IsReading(y) /\ y.align = <<>>,
           NEW w, NEW c, NEW d, is_align(d), w = <<d>> \/ w = <<c, d>>
    PROVE  Stands(AlignPart(0, z, IF w = <<d>> THEN " " ELSE c, d), AlignedAll(w, R))
<1> DEFINE fill == IF w = <<d>> THEN " " ELSE c
           v == AlignPart(0, z, fill, d)
<1>1. ASSUME NEW y \in R
      PROVE  LET x == [y EXCEPT !.align = w]
             IN  /\ WellFormed(x) <=> WellFormed(y) /\ y.width # <<>> /\ y.padding = <<>>
                 /\ Means(x) = Placing(fill, d, Means(y))
  <2>1. IsReading(y) /\ y.align = <<>>
        OBVIOUS
  <2>2. LET x == [y EXCEPT !.align = w]
        IN  /\ WellFormed(x) <=> /\ WellFormed(y) /\ is_align(d)
                                 /\ y.width # <<>> /\ y.padding = <<>>
            /\ Means(x) = Placing(IF w = <<d>> THEN " " ELSE c, d, Means(y))
    <3>1. WithAlign(y, w, c, d)
          BY <2>1, AlignAdds
    <3> QED BY <3>1 DEF WithAlign
  <2> QED BY <2>2
<1> HIDE DEF fill
<1>2. CASE z = <<>>
  <2>1. v = <<>>
        BY <1>2, PartIs
  <2>2. \A y \in R : ~WellFormed(y)
        BY <1>2 DEF Stands
  <2>3. \A x \in AlignedAll(w, R) : ~WellFormed(x)
        BY <1>1, <2>2 DEF AlignedAll
  <2> HIDE DEF v
  <2>4. Stands(v, AlignedAll(w, R))
        BY <2>1, <2>3 DEF Stands
  <2> QED BY <2>4 DEF v, fill
<1>3. CASE z # <<>>
  <2>1. PICK r : z = <<r>>
        BY <1>3 DEF Stands
  <2>2. PICK o \in R : WellFormed(o) /\ r = Means(o)
        BY <2>1 DEF Stands
  <2>3. \A y \in R : WellFormed(y) => Means(y) = r
    <3>1. ASSUME NEW y \in R, WellFormed(y) PROVE <<r>> = <<Means(y)>>
          BY <2>1, <3>1 DEF Stands
    <3> QED BY <3>1
  <2>4. v = IF {"Width"} \subseteq r.mode /\ ~({"Padding"} \subseteq r.mode)
            THEN <<Placing(fill, d, r)>> ELSE <<>>
        BY <2>1, PartIs
  <2>5. \A y \in R : WellFormed(y) =>
            /\ {"Width"} \subseteq r.mode <=> y.width # <<>>
            /\ {"Padding"} \subseteq r.mode <=> y.padding # <<>>
        BY <2>3, MeaningIs
  <2> HIDE DEF v
  <2>6. ASSUME NEW x \in AlignedAll(w, R), WellFormed(x) PROVE v = <<Means(x)>>
    <3>1. PICK y \in R : x = [y EXCEPT !.align = w]
          BY DEF AlignedAll
    <3>2. WellFormed(y) /\ y.width # <<>> /\ y.padding = <<>> /\ Means(x) = Placing(fill, d, r)
          BY <1>1, <2>3, <2>6, <3>1
    <3> QED BY <2>4, <2>5, <3>2
  <2>7. ASSUME NEW m, v = <<m>> PROVE \E x \in AlignedAll(w, R) : WellFormed(x) /\ m = Means(x)
    <3>1. /\ {"Width"} \subseteq r.mode /\ ~({"Padding"} \subseteq r.mode)
          /\ m = Placing(fill, d, r)
          BY <2>4, <2>7
    <3> DEFINE x == [o EXCEPT !.align = w]
    <3>2. WellFormed(x) /\ Means(x) = m
          BY <1>1, <2>2, <2>5, <3>1
    <3>3. x \in AlignedAll(w, R)
          BY DEF AlignedAll
    <3> HIDE DEF x
    <3> QED BY <3>2, <3>3
  <2>8. v = <<>> \/ \E m : v = <<m>>
        BY <2>4
  <2>9. Stands(v, AlignedAll(w, R))
        BY <2>6, <2>7, <2>8 DEF Stands
  <2> QED BY <2>9 DEF v, fill
<1> QED BY <1>2, <1>3

\* A value that stands for readings stands for others that are well formed where they are.
LEMMA StandsAlike ==
    ASSUME NEW v, NEW S, NEW T, Stands(v, S),
           \A x : x \in S /\ WellFormed(x) <=> x \in T /\ WellFormed(x)
    PROVE  Stands(v, T)
BY DEF Stands

\* Behind a first character that an alignment follows there is none without it.
LEMMA LookedAhead ==
    ASSUME NEW p, NEW end, Closed(p, end), NEW f, Solves(p, end, f)
    PROVE  /\ 0 # end => f[0][0] =
                  IF 1 < end /\ is_align(At(p, 1)) THEN AlignPart(0, f[2][1], At(p, 0), At(p, 1))
                  ELSE IF is_align(At(p, 0)) THEN AlignPart(0, f[1][1], " ", At(p, 0))
                  ELSE f[0][1]
           /\ 1 < end /\ is_align(At(p, 1)) => f[0][1] = <<>> /\ f[1][1] = <<>>
           /\ 0 # end /\ is_align(At(p, 0)) => f[0][1] = <<>>
<1>1. /\ end \in Nat /\ 0 \in 0 .. end /\ 0 \in 0 .. 6 /\ 1 \in 0 .. 6 /\ 1 \in 1 .. 6
      /\ 0 + 1 = 1 /\ 0 + 2 = 2
      BY DEF Closed
<1>2. f[0][0] = SpecBody(p, end, f, 0, 0) /\ f[0][1] = SpecBody(p, end, f, 0, 1)
      BY <1>1 DEF Solves
<1>3. /\ 0 < Anchors.Align /\ ~(1 < Anchors.Align) /\ Anchors.Align = 1
      BY DEF Anchors
<1>4. 0 < Anchors.Sign /\ 1 < Anchors.Sign /\ 0 < Anchors.Type /\ 1 < Anchors.Type
      BY DEF Anchors
<1>5. /\ 0 < Anchors.Padding /\ 1 < Anchors.Padding /\ 0 < Anchors.Width /\ 1 < Anchors.Width
      /\ 0 < Anchors.Precision /\ 1 < Anchors.Precision
      BY DEF Anchors
<1>6. ASSUME 1 < end /\ is_align(At(p, 1)) PROVE f[0][1] = <<>> /\ f[1][1] = <<>>
  <2>1. f[1][1] = <<>>
    <3>1. 1 \in 0 .. end /\ 1 # end
          BY <1>1, <1>6
    <3> QED BY <1>1, <1>6, <3>1, NoAlign
  <2>2. f[0][1] = <<>>
    <3>1. \A rest, fill, align : AlignPart(1, rest, fill, align) = <<>>
          BY <1>3 DEF AlignPart
    <3>2. 0 # end
          BY <1>1, <1>6
    <3> QED BY <1>1, <1>2, <1>6, <3>1, <3>2 DEF SpecBody
  <2> QED BY <2>1, <2>2
<1>7. ASSUME 0 # end, is_align(At(p, 0)) PROVE f[0][1] = <<>>
      BY <1>1, <1>7, NoAlign
<1>8. ASSUME 0 # end
      PROVE  f[0][0] =
                  IF 1 < end /\ is_align(At(p, 1)) THEN AlignPart(0, f[2][1], At(p, 0), At(p, 1))
                  ELSE IF is_align(At(p, 0)) THEN AlignPart(0, f[1][1], " ", At(p, 0))
                  ELSE f[0][1]
  <2>1. CASE 1 < end /\ is_align(At(p, 1))
        BY <1>1, <1>2, <1>3, <1>8, <2>1 DEF SpecBody
  <2>2. CASE ~(1 < end /\ is_align(At(p, 1))) /\ is_align(At(p, 0))
        BY <1>1, <1>2, <1>3, <1>8, <2>2 DEF SpecBody
  <2>3. CASE ~(1 < end /\ is_align(At(p, 1))) /\ ~is_align(At(p, 0))
    <3>1. /\ \A rest, x : SignPart(0, rest, x) = SignPart(1, rest, x)
          /\ \A rest : HashPart(0, rest) = HashPart(1, rest)
          /\ \A rest : PaddingPart(0, rest) = PaddingPart(1, rest)
          /\ \A rest, x, y : WidthPart(0, rest, x, y) = WidthPart(1, rest, x, y)
          /\ \A rest, x, y : PrecisionPart(0, rest, x, y) = PrecisionPart(1, rest, x, y)
          BY <1>4, <1>5 DEF SignPart, HashPart, PaddingPart, WidthPart, PrecisionPart
    <3>2. SpecBody(p, end, f, 0, 0) = SpecBody(p, end, f, 0, 1)
          BY <1>1, <1>8, <2>3, <3>1 DEF SpecBody
    <3> QED BY <1>2, <2>3, <3>2
  <2> QED BY <2>1, <2>2, <2>3
<1> QED BY <1>6, <1>7, <1>8

\* The alignment, which only the whole pattern may begin with.
LEMMA AlignStands ==
    ASSUME NEW p, NEW end, Closed(p, end), NEW f, Solves(p, end, f)
    PROVE  Stands(f[0][0], FromAlign(p, end, 0))
<1> DEFINE S(b) == FromSign(p, end, b)
           T == FromAlign(p, end, 0)
           c == At(p, 0)
           d == At(p, 1)
           ahead == 1 < end /\ is_align(d)
<1>1. /\ end \in Nat /\ 0 \in 0 .. end /\ 0 + 1 = 1 /\ 0 + 2 = 2 /\ (0 < end <=> 0 # end)
      /\ (0 # end => 1 \in 0 .. end) /\ (1 < end => 2 \in 0 .. end /\ 0 # end)
      BY DEF Closed
<1>2. \A b \in 0 .. end : Stands(f[b][1], S(b))
      BY SignStands
<1>3. \A x : x \in T <=>
          \/ x \in S(0)
          \/ 0 # end /\ x \in AlignedAll(<<c>>, S(1))
          \/ 1 < end /\ x \in AlignedAll(<<c, d>>, S(2))
  <2>1. \A x : x \in T <=>
            \/ x \in S(0)
            \/ 0 < end /\ \E y \in S(0 + 1) : x = [y EXCEPT !.align = <<c>>]
            \/ 0 + 1 < end /\ \E y \in S(0 + 2) :
                   x = [y EXCEPT !.align = <<c, At(p, 0 + 1)>>]
        BY <1>1, CutsAre
  <2> HIDE DEF T, S
  <2> QED BY <1>1, <2>1 DEF AlignedAll
<1>4. \A b : \A y \in S(b) : IsReading(y) /\ y.align = <<>>
      BY ReadingsFrom
<1>5. /\ 0 # end => f[0][0] = IF ahead THEN AlignPart(0, f[2][1], c, d)
                              ELSE IF is_align(c) THEN AlignPart(0, f[1][1], " ", c)
                              ELSE f[0][1]
      /\ ahead => f[0][1] = <<>> /\ f[1][1] = <<>>
      /\ 0 # end /\ is_align(c) => f[0][1] = <<>>
      BY LookedAhead
<1>6. \A b \in 0 .. end : f[b][1] = <<>> => \A x \in S(b) : ~WellFormed(x)
  <2> SUFFICES ASSUME NEW b \in 0 .. end, f[b][1] = <<>>, NEW x \in S(b) PROVE ~WellFormed(x)
      BY Zenon
  <2>1. Stands(f[b][1], S(b))
        BY <1>2
  <2> HIDE DEF S
  <2>2. <<>> # <<Means(x)>>
        OBVIOUS
  <2> QED BY <2>1, <2>2 DEF Stands
<1>7. ASSUME NEW b, NEW e, NEW w, w = <<e>> \/ w = <<c, e>>,
             NEW x \in AlignedAll(w, S(b)), WellFormed(x)
      PROVE  is_align(e) /\ \E y \in S(b) : WellFormed(y)
  <2>1. PICK y \in S(b) : x = [y EXCEPT !.align = w]
        BY DEF AlignedAll
  <2>2. IsReading(y) /\ y.align = <<>>
        BY <1>4
  <2> HIDE DEF S, c
  <2>3. LET x1 == [y EXCEPT !.align = w]
        IN  WellFormed(x1) <=> /\ WellFormed(y) /\ is_align(e)
                               /\ y.width # <<>> /\ y.padding = <<>>
    <3>1. WithAlign(y, w, c, e)
          BY <1>7, <2>2, AlignAdds
    <3> QED BY <3>1 DEF WithAlign
  <2> QED BY <1>7, <2>1, <2>3
<1>8. ASSUME NEW x \in AlignedAll(<<c>>, S(1)), WellFormed(x), 0 # end PROVE is_align(c) /\ ~ahead
  <2>1. is_align(c) /\ \E y \in S(1) : WellFormed(y)
    <3> DEFINE w == <<c>>
    <3>1. w = <<c>> /\ x \in AlignedAll(w, S(1))
          OBVIOUS
    <3> HIDE DEF w, S, c
    <3> QED BY <1>7, <1>8, <3>1
  <2>2. f[1][1] # <<>>
        BY <1>1, <1>6, <1>8, <2>1
  <2> QED BY <1>5, <2>1, <2>2
<1>9. ASSUME NEW x \in AlignedAll(<<c, d>>, S(2)), WellFormed(x) PROVE is_align(d)
  <2> DEFINE w == <<c, d>>
  <2>1. w = <<c, d>> /\ x \in AlignedAll(w, S(2))
        OBVIOUS
  <2> HIDE DEF w, S, c, d
  <2> QED BY <1>7, <1>9, <2>1
<1> HIDE DEF S, T, c, d
<1>10. CASE 0 = end
  <2>1. f[0][0] = f[0][1]
        BY <1>1, <1>10, AtEnd
  <2>2. \A x \in T : WellFormed(x) => x \in S(0)
        BY <1>1, <1>3, <1>10
  <2>3. S(0) \subseteq T
        BY <1>3
  <2>4. Stands(f[0][1], S(0))
        BY <1>1, <1>2
  <2>5. Stands(f[0][0], T)
        BY <2>1, <2>2, <2>3, <2>4, StandsFor
  <2> QED BY <2>5 DEF T
<1>11. CASE 0 # end /\ ahead
  <2>1. Stands(f[0][0], AlignedAll(<<c, d>>, S(2)))
    <3> DEFINE w == <<c, d>>
    <3>1. <<c, d>> # <<d>>
          OBVIOUS
    <3>2. Stands(f[2][1], S(2)) /\ \A y \in S(2) : IsReading(y) /\ y.align = <<>>
          BY <1>1, <1>2, <1>4, <1>11
    <3>3. w = <<d>> \/ w = <<c, d>>
          OBVIOUS
    <3> HIDE DEF w
    <3>4. Stands(AlignPart(0, f[2][1], IF w = <<d>> THEN " " ELSE c, d), AlignedAll(w, S(2)))
          BY <1>11, <3>2, <3>3, AlignedStands
    <3>5. (IF w = <<d>> THEN " " ELSE c) = c
          BY <3>1 DEF w
    <3>6. f[0][0] = AlignPart(0, f[2][1], c, d)
          BY <1>5, <1>11
    <3> QED BY <3>4, <3>5, <3>6 DEF w
  <2>2. \A x : x \in AlignedAll(<<c, d>>, S(2)) /\ WellFormed(x) <=> x \in T /\ WellFormed(x)
    <3>1. \A x \in S(0) : ~WellFormed(x)
          BY <1>1, <1>5, <1>6, <1>11
    <3>2. 1 < end
          BY <1>11
    <3> QED BY <1>3, <1>8, <1>11, <3>1, <3>2
  <2>3. Stands(f[0][0], T)
        BY <2>1, <2>2, StandsAlike
  <2> QED BY <2>3 DEF T
<1>12. CASE 0 # end /\ ~ahead /\ is_align(c)
  <2>1. Stands(f[0][0], AlignedAll(<<c>>, S(1)))
    <3> DEFINE w == <<c>>
    <3>2. Stands(f[1][1], S(1)) /\ \A y \in S(1) : IsReading(y) /\ y.align = <<>>
          BY <1>1, <1>2, <1>4, <1>12
    <3>3. w = <<c>>
          OBVIOUS
    <3> HIDE DEF w
    <3>4. Stands(AlignPart(0, f[1][1], IF w = <<c>> THEN " " ELSE c, c), AlignedAll(w, S(1)))
          BY <1>12, <3>2, <3>3, AlignedStands
    <3>5. (IF w = <<c>> THEN " " ELSE c) = " "
          BY <3>3
    <3>6. f[0][0] = AlignPart(0, f[1][1], " ", c)
          BY <1>5, <1>12
    <3> QED BY <3>4, <3>5, <3>6 DEF w
  <2>2. \A x : x \in AlignedAll(<<c>>, S(1)) /\ WellFormed(x) <=> x \in T /\ WellFormed(x)
    <3>1. \A x \in S(0) : ~WellFormed(x)
          BY <1>1, <1>5, <1>6, <1>12
    <3> QED BY <1>3, <1>9, <1>12, <3>1
  <2>3. Stands(f[0][0], T)
        BY <2>1, <2>2, StandsAlike
  <2> QED BY <2>3 DEF T
<1>13. CASE 0 # end /\ ~ahead /\ ~is_align(c)
  <2>1. f[0][0] = f[0][1]
        BY <1>5, <1>13
  <2>2. \A x \in T : WellFormed(x) => x \in S(0)
        BY <1>3, <1>8, <1>9, <1>13
  <2>3. S(0) \subseteq T
        BY <1>3
  <2>4. Stands(f[0][1], S(0))
        BY <1>1, <1>2
  <2>5. Stands(f[0][0], T)
        BY <2>1, <2>2, <2>3, <2>4, StandsFor
  <2> QED BY <2>5 DEF T
<1> QED BY <1>10, <1>11, <1>12, <1>13

-----------------------------------------------------------------------------
(* The readings of a text are the cuts of its pattern.                       *)

\* A reading, part by part, and where the next part may end that has n characters.
Reading(al, si, ha, pa, wi, pr, ty) ==
    [align |-> al, sign |-> si, hash |-> ha, padding |-> pa, width |-> wi, precision |-> pr,
     type |-> ty]
Ends(a, end, n) == {k \in a .. end : k <= a + n}

\* The readings of a pattern from a place on are its cuts.
LEMMA FromCuts ==
    ASSUME NEW p, NEW end
    PROVE  \A o : \A x : x \in FromAlign(p, end, o) <=>
               \E a \in Ends(o, end, 2) : \E b \in Ends(a, end, 1) :
                   \E c \in Ends(b, end, 1) : \E d \in Ends(c, end, 1) :
                       \E e \in d .. end : \E f \in e .. end :
                           x = Reading(Span(p, o, a), Span(p, a, b), Span(p, b, c), Span(p, c, d),
                                       Span(p, d, e), Span(p, e, f), Span(p, f, end))
<1>1. \A al, si, ha, pa, wi, pr, ty, w :
          LET r == Reading(al, si, ha, pa, wi, pr, ty)
          IN  /\ [r EXCEPT !.align = w] = Reading(w, si, ha, pa, wi, pr, ty)
              /\ [r EXCEPT !.sign = w] = Reading(al, w, ha, pa, wi, pr, ty)
              /\ [r EXCEPT !.hash = w] = Reading(al, si, w, pa, wi, pr, ty)
              /\ [r EXCEPT !.padding = w] = Reading(al, si, ha, w, wi, pr, ty)
              /\ [r EXCEPT !.width = w] = Reading(al, si, ha, pa, w, pr, ty)
              /\ [r EXCEPT !.precision = w] = Reading(al, si, ha, pa, wi, w, ty)
      BY DEF Reading
<1>2. \A f : \A x : x \in FromType(p, end, f) <=>
          x = Reading(<<>>, <<>>, <<>>, <<>>, <<>>, <<>>, Span(p, f, end))
      BY DEF FromType, Reading
<1>3. \A e : \A x : x \in FromPrecision(p, end, e) <=>
          \E f \in e .. end :
              x = Reading(<<>>, <<>>, <<>>, <<>>,
                          <<>>, Span(p, e, f), Span(p, f, end))
  <2> SUFFICES ASSUME NEW e, NEW x
               PROVE  x \in FromPrecision(p, end, e) <=>
                          \E f \in e .. end :
                              x = Reading(<<>>, <<>>, <<>>, <<>>,
                                          <<>>, Span(p, e, f), Span(p, f, end))
      OBVIOUS
  <2>1. x \in FromPrecision(p, end, e) <=>
            \E f \in e .. end : \E y \in FromType(p, end, f) :
                x = [y EXCEPT !.precision = Span(p, e, f)]
        BY DEF FromPrecision, Ends
  <2> QED BY <1>1, <1>2, <2>1
<1>4. \A d : \A x : x \in FromWidth(p, end, d) <=>
          \E e \in d .. end : \E f \in e .. end :
              x = Reading(<<>>, <<>>, <<>>, <<>>,
                          Span(p, d, e), Span(p, e, f), Span(p, f, end))
  <2> SUFFICES ASSUME NEW d, NEW x
               PROVE  x \in FromWidth(p, end, d) <=>
                          \E e \in d .. end : \E f \in e .. end :
                              x = Reading(<<>>, <<>>, <<>>, <<>>,
                                          Span(p, d, e), Span(p, e, f), Span(p, f, end))
      OBVIOUS
  <2>1. x \in FromWidth(p, end, d) <=>
            \E e \in d .. end : \E y \in FromPrecision(p, end, e) :
                x = [y EXCEPT !.width = Span(p, d, e)]
        BY DEF FromWidth, Ends
  <2> QED BY <1>1, <1>3, <2>1
<1>5. \A c : \A x : x \in FromPadding(p, end, c) <=>
          \E d \in Ends(c, end, 1) : \E e \in d .. end :
              \E f \in e .. end :
                  x = Reading(<<>>, <<>>, <<>>, Span(p, c, d),
                              Span(p, d, e), Span(p, e, f), Span(p, f, end))
  <2> SUFFICES ASSUME NEW c, NEW x
               PROVE  x \in FromPadding(p, end, c) <=>
                          \E d \in Ends(c, end, 1) : \E e \in d .. end :
                              \E f \in e .. end :
                                  x = Reading(<<>>, <<>>, <<>>, Span(p, c, d),
                                              Span(p, d, e), Span(p, e, f), Span(p, f, end))
      OBVIOUS
  <2>1. x \in FromPadding(p, end, c) <=>
            \E d \in Ends(c, end, 1) : \E y \in FromWidth(p, end, d) :
                x = [y EXCEPT !.padding = Span(p, c, d)]
        BY DEF FromPadding, Ends
  <2> QED BY <1>1, <1>4, <2>1
<1>6. \A b : \A x : x \in FromHash(p, end, b) <=>
          \E c \in Ends(b, end, 1) : \E d \in Ends(c, end, 1) :
              \E e \in d .. end : \E f \in e .. end :
                  x = Reading(<<>>, <<>>, Span(p, b, c), Span(p, c, d),
                              Span(p, d, e), Span(p, e, f), Span(p, f, end))
  <2> SUFFICES ASSUME NEW b, NEW x
               PROVE  x \in FromHash(p, end, b) <=>
                          \E c \in Ends(b, end, 1) : \E d \in Ends(c, end, 1) :
                              \E e \in d .. end : \E f \in e .. end :
                                  x = Reading(<<>>, <<>>, Span(p, b, c), Span(p, c, d),
                                              Span(p, d, e), Span(p, e, f), Span(p, f, end))
      OBVIOUS
  <2>1. x \in FromHash(p, end, b) <=>
            \E c \in Ends(b, end, 1) : \E y \in FromPadding(p, end, c) :
                x = [y EXCEPT !.hash = Span(p, b, c)]
        BY DEF FromHash, Ends
  <2> QED BY <1>1, <1>5, <2>1
<1>7. \A a : \A x : x \in FromSign(p, end, a) <=>
          \E b \in Ends(a, end, 1) : \E c \in Ends(b, end, 1) :
              \E d \in Ends(c, end, 1) : \E e \in d .. end :
                  \E f \in e .. end :
                      x = Reading(<<>>, Span(p, a, b), Span(p, b, c), Span(p, c, d),
                                  Span(p, d, e), Span(p, e, f), Span(p, f, end))
  <2> SUFFICES ASSUME NEW a, NEW x
               PROVE  x \in FromSign(p, end, a) <=>
                          \E b \in Ends(a, end, 1) : \E c \in Ends(b, end, 1) :
                              \E d \in Ends(c, end, 1) : \E e \in d .. end :
                                  \E f \in e .. end :
                                      x = Reading(<<>>, Span(p, a, b), Span(p, b, c), Span(p, c, d),
                                                  Span(p, d, e), Span(p, e, f), Span(p, f, end))
      OBVIOUS
  <2>1. x \in FromSign(p, end, a) <=>
            \E b \in Ends(a, end, 1) : \E y \in FromHash(p, end, b) :
                x = [y EXCEPT !.sign = Span(p, a, b)]
        BY DEF FromSign, Ends
  <2> QED BY <1>1, <1>6, <2>1
<1>8. \A o : \A x : x \in FromAlign(p, end, o) <=>
          \E a \in Ends(o, end, 2) : \E b \in Ends(a, end, 1) :
              \E c \in Ends(b, end, 1) : \E d \in Ends(c, end, 1) :
                  \E e \in d .. end : \E f \in e .. end :
                      x = Reading(Span(p, o, a), Span(p, a, b), Span(p, b, c), Span(p, c, d),
                                  Span(p, d, e), Span(p, e, f), Span(p, f, end))
  <2> SUFFICES ASSUME NEW o, NEW x
               PROVE  x \in FromAlign(p, end, o) <=>
                          \E a \in Ends(o, end, 2) : \E b \in Ends(a, end, 1) :
                              \E c \in Ends(b, end, 1) : \E d \in Ends(c, end, 1) :
                                  \E e \in d .. end : \E f \in e .. end :
                                      x = Reading(Span(p, o, a), Span(p, a, b), Span(p, b, c),
                                                  Span(p, c, d), Span(p, d, e), Span(p, e, f),
                                                  Span(p, f, end))
      OBVIOUS
  <2>1. x \in FromAlign(p, end, o) <=>
            \E a \in Ends(o, end, 2) : \E y \in FromSign(p, end, a) :
                x = [y EXCEPT !.align = Span(p, o, a)]
        BY DEF FromAlign, Ends
  <2> QED BY <1>1, <1>7, <2>1
<1> QED BY <1>8

\* What a sequence is with one more element.
LEMMA OneMore ==
    ASSUME NEW n \in Nat, NEW c, c = [i \in 1 .. n |-> c[i]], NEW k,
           NEW t, t = [i \in 1 .. n + 1 |-> t[i]], t[n + 1] = k, \A i \in 1 .. n : t[i] = c[i]
    PROVE  Append(c, k) = t /\ Len(c) = n
<1>1. Append(c, k) = [i \in 1 .. n + 1 |-> IF i = n + 1 THEN k ELSE c[i]]
      BY AppendIs
<1>2. Len(c) = n
      BY LengthOf
<1>3. \A i \in 1 .. n + 1 : (IF i = n + 1 THEN k ELSE c[i]) = t[i]
  <2>1. \A i \in 1 .. n + 1 : i # n + 1 => i \in 1 .. n
        OBVIOUS
  <2> QED BY <2>1
<1> QED BY <1>1, <1>2, <1>3

\* The cuts of a text, part by part.

Cuts1(o) == <<o>>
Cuts2(o, a) == <<o, a>>
Cuts3(o, a, b) == <<o, a, b>>
Cuts4(o, a, b, c) == <<o, a, b, c>>
Cuts5(o, a, b, c, d) == <<o, a, b, c, d>>
Cuts6(o, a, b, c, d, e) == <<o, a, b, c, d, e>>
Cuts7(o, a, b, c, d, e, f) == <<o, a, b, c, d, e, f>>

\* A sequence t that ends with last, and u that has one more element k.
Grows(t, last, k, u) == t[Len(t)] = last /\ Append(t, k) = u

\* The last cut, and one more.
LEMMA CutsGrow ==
    /\ \A o, k : Grows(Cuts1(o), o, k, Cuts2(o, k))
    /\ \A o, a, k : Grows(Cuts2(o, a), a, k, Cuts3(o, a, k))
    /\ \A o, a, b, k : Grows(Cuts3(o, a, b), b, k, Cuts4(o, a, b, k))
    /\ \A o, a, b, c, k : Grows(Cuts4(o, a, b, c), c, k,
          Cuts5(o, a, b, c, k))
    /\ \A o, a, b, c, d, k : Grows(Cuts5(o, a, b, c, d), d, k,
          Cuts6(o, a, b, c, d, k))
    /\ \A o, a, b, c, d, e, k : Grows(Cuts6(o, a, b, c, d, e), e, k,
          Cuts7(o, a, b, c, d, e, k))
    /\ \A o, a, b, c, d, e, f, k : Grows(Cuts7(o, a, b, c, d, e, f), f, k,
          <<o, a, b, c, d, e, f, k>>)
<1>1. ASSUME NEW o, NEW k
      PROVE  Grows(Cuts1(o), o, k, Cuts2(o, k))
  <2> DEFINE t == Cuts1(o)
             u == Cuts2(o, k)
  <2>1. /\ 1 \in Nat /\ 1 + 1 = 2
        /\ t = [i \in 1 .. 1 |-> t[i]] /\ u = [i \in 1 .. 2 |-> u[i]]
        /\ u[2] = k /\ \A i \in 1 .. 1 : u[i] = t[i]
        BY DEF Cuts1, Cuts2
  <2>2. t[1] = o
        BY DEF Cuts1
  <2> HIDE DEF t, u
  <2>3. Append(t, k) = u /\ Len(t) = 1
        BY <2>1, OneMore
  <2>4. Grows(t, o, k, u)
        BY <2>2, <2>3 DEF Grows
  <2> QED BY <2>4 DEF t, u
<1>2. ASSUME NEW o, NEW a, NEW k
      PROVE  Grows(Cuts2(o, a), a, k, Cuts3(o, a, k))
  <2> DEFINE t == Cuts2(o, a)
             u == Cuts3(o, a, k)
  <2>1. /\ 2 \in Nat /\ 2 + 1 = 3
        /\ t = [i \in 1 .. 2 |-> t[i]] /\ u = [i \in 1 .. 3 |-> u[i]]
        /\ u[3] = k /\ \A i \in 1 .. 2 : u[i] = t[i]
        BY DEF Cuts2, Cuts3
  <2>2. t[2] = a
        BY DEF Cuts2
  <2> HIDE DEF t, u
  <2>3. Append(t, k) = u /\ Len(t) = 2
        BY <2>1, OneMore
  <2>4. Grows(t, a, k, u)
        BY <2>2, <2>3 DEF Grows
  <2> QED BY <2>4 DEF t, u
<1>3. ASSUME NEW o, NEW a, NEW b, NEW k
      PROVE  Grows(Cuts3(o, a, b), b, k, Cuts4(o, a, b, k))
  <2> DEFINE t == Cuts3(o, a, b)
             u == Cuts4(o, a, b, k)
  <2>1. /\ 3 \in Nat /\ 3 + 1 = 4
        /\ t = [i \in 1 .. 3 |-> t[i]] /\ u = [i \in 1 .. 4 |-> u[i]]
        /\ u[4] = k /\ \A i \in 1 .. 3 : u[i] = t[i]
        BY DEF Cuts3, Cuts4
  <2>2. t[3] = b
        BY DEF Cuts3
  <2> HIDE DEF t, u
  <2>3. Append(t, k) = u /\ Len(t) = 3
        BY <2>1, OneMore
  <2>4. Grows(t, b, k, u)
        BY <2>2, <2>3 DEF Grows
  <2> QED BY <2>4 DEF t, u
<1>4. ASSUME NEW o, NEW a, NEW b, NEW c, NEW k
      PROVE  Grows(Cuts4(o, a, b, c), c, k, Cuts5(o, a, b, c, k))
  <2> DEFINE t == Cuts4(o, a, b, c)
             u == Cuts5(o, a, b, c, k)
  <2>1. /\ 4 \in Nat /\ 4 + 1 = 5
        /\ t = [i \in 1 .. 4 |-> t[i]] /\ u = [i \in 1 .. 5 |-> u[i]]
        /\ u[5] = k /\ \A i \in 1 .. 4 : u[i] = t[i]
        BY DEF Cuts4, Cuts5
  <2>2. t[4] = c
        BY DEF Cuts4
  <2> HIDE DEF t, u
  <2>3. Append(t, k) = u /\ Len(t) = 4
        BY <2>1, OneMore
  <2>4. Grows(t, c, k, u)
        BY <2>2, <2>3 DEF Grows
  <2> QED BY <2>4 DEF t, u
<1>5. ASSUME NEW o, NEW a, NEW b, NEW c, NEW d, NEW k
      PROVE  Grows(Cuts5(o, a, b, c, d), d, k, Cuts6(o, a, b, c, d, k))
  <2> DEFINE t == Cuts5(o, a, b, c, d)
             u == Cuts6(o, a, b, c, d, k)
  <2>1. /\ 5 \in Nat /\ 5 + 1 = 6
        /\ t = [i \in 1 .. 5 |-> t[i]] /\ u = [i \in 1 .. 6 |-> u[i]]
        /\ u[6] = k /\ \A i \in 1 .. 5 : u[i] = t[i]
        BY DEF Cuts5, Cuts6
  <2>2. t[5] = d
        BY DEF Cuts5
  <2> HIDE DEF t, u
  <2>3. Append(t, k) = u /\ Len(t) = 5
        BY <2>1, OneMore
  <2>4. Grows(t, d, k, u)
        BY <2>2, <2>3 DEF Grows
  <2> QED BY <2>4 DEF t, u
<1>6. ASSUME NEW o, NEW a, NEW b, NEW c, NEW d, NEW e, NEW k
      PROVE  Grows(Cuts6(o, a, b, c, d, e), e, k, Cuts7(o, a, b, c, d, e, k))
  <2> DEFINE t == Cuts6(o, a, b, c, d, e)
             u == Cuts7(o, a, b, c, d, e, k)
  <2>1. /\ 6 \in Nat /\ 6 + 1 = 7
        /\ t = [i \in 1 .. 6 |-> t[i]] /\ u = [i \in 1 .. 7 |-> u[i]]
        /\ u[7] = k /\ \A i \in 1 .. 6 : u[i] = t[i]
        BY DEF Cuts6, Cuts7
  <2>2. t[6] = e
        BY DEF Cuts6
  <2> HIDE DEF t, u
  <2>3. Append(t, k) = u /\ Len(t) = 6
        BY <2>1, OneMore
  <2>4. Grows(t, e, k, u)
        BY <2>2, <2>3 DEF Grows
  <2> QED BY <2>4 DEF t, u
<1>7. ASSUME NEW o, NEW a, NEW b, NEW c, NEW d, NEW e, NEW f, NEW k
      PROVE  Grows(Cuts7(o, a, b, c, d, e, f), f, k, <<o, a, b, c, d, e, f, k>>)
  <2> DEFINE t == Cuts7(o, a, b, c, d, e, f)
             u == <<o, a, b, c, d, e, f, k>>
  <2>1. /\ 7 \in Nat /\ 7 + 1 = 8
        /\ t = [i \in 1 .. 7 |-> t[i]] /\ u = [i \in 1 .. 8 |-> u[i]]
        /\ u[8] = k /\ \A i \in 1 .. 7 : u[i] = t[i]
        BY DEF Cuts7
  <2>2. t[7] = f
        BY DEF Cuts7
  <2> HIDE DEF t, u
  <2>3. Append(t, k) = u /\ Len(t) = 7
        BY <2>1, OneMore
  <2>4. Grows(t, f, k, u)
        BY <2>2, <2>3 DEF Grows
  <2> QED BY <2>4 DEF t, u
<1> QED BY <1>1, <1>2, <1>3, <1>4, <1>5, <1>6, <1>7

\* The cuts of a text with one more, at most n behind the last.
LongerCuts(s, cuts, n) ==
    UNION {{Append(c, k) : k \in {m \in c[Len(c)] .. Len(s) : m <= c[Len(c)] + n}} : c \in cuts}

\* The readings of a text are its cuts.
LEMMA ReadingsCuts ==
    ASSUME NEW s, NEW end \in Nat, Len(s) = end
    PROVE  \A x : x \in Readings(s) <=>
               \E a \in Ends(0, end, 2) : \E b \in Ends(a, end, 1) :
                   \E c \in Ends(b, end, 1) : \E d \in Ends(c, end, 1) :
                       \E e \in d .. end : \E f \in e .. end :
                           x = Reading(Span(s, 0, a), Span(s, a, b), Span(s, b, c), Span(s, c, d),
                                       Span(s, d, e), Span(s, e, f), Span(s, f, end))
<1> DEFINE C1 == LongerCuts(s, {<<0>>}, 2)
           C2 == LongerCuts(s, C1, 1)
           C3 == LongerCuts(s, C2, 1)
           C4 == LongerCuts(s, C3, 1)
           C5 == LongerCuts(s, C4, end)
           C6 == LongerCuts(s, C5, end)
<1>1. Readings(s) = {Parts(s, Append(c, end)) : c \in C6}
      BY DEF Readings, LongerCuts
<1>2. \A cuts, n : \A x : x \in LongerCuts(s, cuts, n) <=>
          \E c \in cuts : \E k \in Ends(c[Len(c)], end, n) : x = Append(c, k)
      BY DEF LongerCuts, Ends
<1>3. C1 = LongerCuts(s, {Cuts1(0)}, 2) /\ C2 = LongerCuts(s, C1, 1) /\ C3 = LongerCuts(s, C2, 1)
      /\ C4 = LongerCuts(s, C3, 1) /\ C5 = LongerCuts(s, C4, end) /\ C6 = LongerCuts(s, C5, end)
      BY DEF Cuts1
<1> HIDE DEF C1, C2, C3, C4, C5, C6
<1>4. \A x : x \in C1 <=>
          \E a \in Ends(0, end, 2) :
              x = Cuts2(0, a)
  <2>1. C1 = LongerCuts(s, {Cuts1(0)}, 2)
        BY <1>3
  <2>2. \A x : x \in LongerCuts(s, {Cuts1(0)}, 2) <=>
            \E t \in {Cuts1(0)} : \E k \in Ends(t[Len(t)], end, 2) : x = Append(t, k)
        BY <1>2
  <2>3. \A o, k : LET t == Cuts1(o)
            IN  t[Len(t)] = o /\ Append(t, k) = Cuts2(o, k)
        BY CutsGrow DEF Grows
  <2>4. Cuts1(0)[Len(Cuts1(0))] = 0 /\ \A k : Append(Cuts1(0), k) = Cuts2(0, k)
        BY <2>3
  <2>5. ASSUME NEW x \in C1 PROVE \E a \in Ends(0, end, 2) : x = Cuts2(0, a)
    <3>1. PICK t \in {Cuts1(0)} : \E k \in Ends(t[Len(t)], end, 2) : x = Append(t, k)
          BY <2>1, <2>2
    <3>2. t = Cuts1(0)
          OBVIOUS
    <3> QED BY <2>4, <3>1, <3>2
  <2>6. ASSUME NEW a \in Ends(0, end, 2) PROVE Cuts2(0, a) \in C1
    <3>1. Cuts1(0) \in {Cuts1(0)}
          OBVIOUS
    <3> QED BY <2>1, <2>2, <2>4, <3>1
  <2> QED BY <2>5, <2>6
<1>5. \A x : x \in C2 <=>
          \E a \in Ends(0, end, 2) : \E b \in Ends(a, end, 1) :
              x = Cuts3(0, a, b)
  <2>1. C2 = LongerCuts(s, C1, 1)
        BY <1>3
  <2>2. \A x : x \in LongerCuts(s, C1, 1) <=>
            \E t \in C1 : \E k \in Ends(t[Len(t)], end, 1) : x = Append(t, k)
        BY <1>2
  <2>3. \A o, a, k : LET t == Cuts2(o, a)
            IN  t[Len(t)] = a /\ Append(t, k) = Cuts3(o, a, k)
        BY CutsGrow DEF Grows
  <2>4. ASSUME NEW x \in C2
        PROVE  \E a \in Ends(0, end, 2) :
               \E b \in Ends(a, end, 1) :
                   x = Cuts3(0, a, b)
    <3>1. PICK t \in C1 : \E k \in Ends(t[Len(t)], end, 1) : x = Append(t, k)
          BY <2>1, <2>2
    <3>2. PICK a \in Ends(0, end, 2) :
              t = Cuts2(0, a)
          BY <1>4
    <3>3. t[Len(t)] = a /\ \A k : Append(t, k) = Cuts3(0, a, k)
          BY <2>3, <3>2
    <3> QED BY <3>1, <3>3
  <2>5. ASSUME NEW a \in Ends(0, end, 2),
               NEW b \in Ends(a, end, 1)
        PROVE  Cuts3(0, a, b) \in C2
    <3>1. Cuts2(0, a) \in C1
          BY <1>4
    <3>2. Cuts2(0, a)[Len(Cuts2(0, a))] = a /\ Append(Cuts2(0, a), b) = Cuts3(0, a, b)
          BY <2>3
    <3> QED BY <2>1, <2>2, <3>1, <3>2
  <2> QED BY <2>4, <2>5
<1>6. \A x : x \in C3 <=>
          \E a \in Ends(0, end, 2) : \E b \in Ends(a, end, 1) :
              \E c \in Ends(b, end, 1) :
                  x = Cuts4(0, a, b, c)
  <2>1. C3 = LongerCuts(s, C2, 1)
        BY <1>3
  <2>2. \A x : x \in LongerCuts(s, C2, 1) <=>
            \E t \in C2 : \E k \in Ends(t[Len(t)], end, 1) : x = Append(t, k)
        BY <1>2
  <2>3. \A o, a, b, k : LET t == Cuts3(o, a, b)
            IN  t[Len(t)] = b /\ Append(t, k) = Cuts4(o, a, b, k)
        BY CutsGrow DEF Grows
  <2>4. ASSUME NEW x \in C3
        PROVE  \E a \in Ends(0, end, 2) :
               \E b \in Ends(a, end, 1) :
               \E c \in Ends(b, end, 1) :
                   x = Cuts4(0, a, b, c)
    <3>1. PICK t \in C2 : \E k \in Ends(t[Len(t)], end, 1) : x = Append(t, k)
          BY <2>1, <2>2
    <3>2. PICK a \in Ends(0, end, 2) :
              \E b \in Ends(a, end, 1) :
                t = Cuts3(0, a, b)
          BY <1>5
    <3>3. PICK b \in Ends(a, end, 1) :
              t = Cuts3(0, a, b)
          BY <3>2
    <3>4. t[Len(t)] = b /\ \A k : Append(t, k) = Cuts4(0, a, b, k)
          BY <2>3, <3>3
    <3> QED BY <3>1, <3>4
  <2>5. ASSUME NEW a \in Ends(0, end, 2),
               NEW b \in Ends(a, end, 1),
               NEW c \in Ends(b, end, 1)
        PROVE  Cuts4(0, a, b, c) \in C3
    <3>1. Cuts3(0, a, b) \in C2
          BY <1>5
    <3>2. Cuts3(0, a, b)[Len(Cuts3(0, a, b))] = b /\ Append(Cuts3(0, a, b), c) = Cuts4(0, a, b, c)
          BY <2>3
    <3> QED BY <2>1, <2>2, <3>1, <3>2
  <2> QED BY <2>4, <2>5
<1>7. \A x : x \in C4 <=>
          \E a \in Ends(0, end, 2) : \E b \in Ends(a, end, 1) :
              \E c \in Ends(b, end, 1) : \E d \in Ends(c, end, 1) :
                  x = Cuts5(0, a, b, c, d)
  <2>1. C4 = LongerCuts(s, C3, 1)
        BY <1>3
  <2>2. \A x : x \in LongerCuts(s, C3, 1) <=>
            \E t \in C3 : \E k \in Ends(t[Len(t)], end, 1) : x = Append(t, k)
        BY <1>2
  <2>3. \A o, a, b, c, k : LET t == Cuts4(o, a, b, c)
            IN  t[Len(t)] = c /\ Append(t, k) = Cuts5(o, a, b, c, k)
        BY CutsGrow DEF Grows
  <2>4. ASSUME NEW x \in C4
        PROVE  \E a \in Ends(0, end, 2) :
               \E b \in Ends(a, end, 1) :
               \E c \in Ends(b, end, 1) :
               \E d \in Ends(c, end, 1) :
                   x = Cuts5(0, a, b, c, d)
    <3>1. PICK t \in C3 : \E k \in Ends(t[Len(t)], end, 1) : x = Append(t, k)
          BY <2>1, <2>2
    <3>2. PICK a \in Ends(0, end, 2) :
              \E b \in Ends(a, end, 1) :
                \E c \in Ends(b, end, 1) :
                t = Cuts4(0, a, b, c)
          BY <1>6
    <3>3. PICK b \in Ends(a, end, 1) :
              \E c \in Ends(b, end, 1) :
                t = Cuts4(0, a, b, c)
          BY <3>2
    <3>4. PICK c \in Ends(b, end, 1) :
              t = Cuts4(0, a, b, c)
          BY <3>3
    <3>5. t[Len(t)] = c /\ \A k : Append(t, k) = Cuts5(0, a, b, c, k)
          BY <2>3, <3>4
    <3> QED BY <3>1, <3>5
  <2>5. ASSUME NEW a \in Ends(0, end, 2),
               NEW b \in Ends(a, end, 1),
               NEW c \in Ends(b, end, 1),
               NEW d \in Ends(c, end, 1)
        PROVE  Cuts5(0, a, b, c, d) \in C4
    <3>1. Cuts4(0, a, b, c) \in C3
          BY <1>6
    <3>2. LET t == Cuts4(0, a, b, c)
          IN  t[Len(t)] = c /\ Append(t, d) = Cuts5(0, a, b, c, d)
          BY <2>3
    <3> QED BY <2>1, <2>2, <3>1, <3>2
  <2> QED BY <2>4, <2>5
<1>8. \A x : x \in C5 <=>
          \E a \in Ends(0, end, 2) : \E b \in Ends(a, end, 1) :
              \E c \in Ends(b, end, 1) : \E d \in Ends(c, end, 1) :
                  \E e \in Ends(d, end, end) :
                      x = Cuts6(0, a, b, c, d, e)
  <2>1. C5 = LongerCuts(s, C4, end)
        BY <1>3
  <2>2. \A x : x \in LongerCuts(s, C4, end) <=>
            \E t \in C4 : \E k \in Ends(t[Len(t)], end, end) : x = Append(t, k)
        BY <1>2
  <2>3. \A o, a, b, c, d, k : LET t == Cuts5(o, a, b, c, d)
            IN  t[Len(t)] = d /\ Append(t, k) = Cuts6(o, a, b, c, d, k)
        BY CutsGrow DEF Grows
  <2>4. ASSUME NEW x \in C5
        PROVE  \E a \in Ends(0, end, 2) :
               \E b \in Ends(a, end, 1) :
               \E c \in Ends(b, end, 1) :
               \E d \in Ends(c, end, 1) :
               \E e \in Ends(d, end, end) :
                   x = Cuts6(0, a, b, c, d, e)
    <3>1. PICK t \in C4 : \E k \in Ends(t[Len(t)], end, end) : x = Append(t, k)
          BY <2>1, <2>2
    <3>2. PICK a \in Ends(0, end, 2) :
              \E b \in Ends(a, end, 1) :
                \E c \in Ends(b, end, 1) :
                \E d \in Ends(c, end, 1) :
                t = Cuts5(0, a, b, c, d)
          BY <1>7
    <3>3. PICK b \in Ends(a, end, 1) :
              \E c \in Ends(b, end, 1) :
                \E d \in Ends(c, end, 1) :
                t = Cuts5(0, a, b, c, d)
          BY <3>2
    <3>4. PICK c \in Ends(b, end, 1) :
              \E d \in Ends(c, end, 1) :
                t = Cuts5(0, a, b, c, d)
          BY <3>3
    <3>5. PICK d \in Ends(c, end, 1) :
              t = Cuts5(0, a, b, c, d)
          BY <3>4
    <3>6. t[Len(t)] = d /\ \A k : Append(t, k) = Cuts6(0, a, b, c, d, k)
          BY <2>3, <3>5
    <3> QED BY <3>1, <3>6
  <2>5. ASSUME NEW a \in Ends(0, end, 2),
               NEW b \in Ends(a, end, 1),
               NEW c \in Ends(b, end, 1),
               NEW d \in Ends(c, end, 1),
               NEW e \in Ends(d, end, end)
        PROVE  Cuts6(0, a, b, c, d, e) \in C5
    <3>1. Cuts5(0, a, b, c, d) \in C4
          BY <1>7
    <3>2. LET t == Cuts5(0, a, b, c, d)
          IN  t[Len(t)] = d /\ Append(t, e) = Cuts6(0, a, b, c, d, e)
          BY <2>3
    <3> QED BY <2>1, <2>2, <3>1, <3>2
  <2> QED BY <2>4, <2>5
<1>9. \A x : x \in C6 <=>
          \E a \in Ends(0, end, 2) : \E b \in Ends(a, end, 1) :
              \E c \in Ends(b, end, 1) : \E d \in Ends(c, end, 1) :
                  \E e \in Ends(d, end, end) : \E f \in Ends(e, end, end) :
                      x = Cuts7(0, a, b, c, d, e, f)
  <2>1. C6 = LongerCuts(s, C5, end)
        BY <1>3
  <2>2. \A x : x \in LongerCuts(s, C5, end) <=>
            \E t \in C5 : \E k \in Ends(t[Len(t)], end, end) : x = Append(t, k)
        BY <1>2
  <2>3. \A o, a, b, c, d, e, k : LET t == Cuts6(o, a, b, c, d, e)
            IN  t[Len(t)] = e /\ Append(t, k) = Cuts7(o, a, b, c, d, e, k)
        BY CutsGrow DEF Grows
  <2>4. ASSUME NEW x \in C6
        PROVE  \E a \in Ends(0, end, 2) :
               \E b \in Ends(a, end, 1) :
               \E c \in Ends(b, end, 1) :
               \E d \in Ends(c, end, 1) :
               \E e \in Ends(d, end, end) :
               \E f \in Ends(e, end, end) :
                   x = Cuts7(0, a, b, c, d, e, f)
    <3>1. PICK t \in C5 : \E k \in Ends(t[Len(t)], end, end) : x = Append(t, k)
          BY <2>1, <2>2
    <3>2. PICK a \in Ends(0, end, 2) :
              \E b \in Ends(a, end, 1) :
                \E c \in Ends(b, end, 1) :
                \E d \in Ends(c, end, 1) :
                \E e \in Ends(d, end, end) :
                t = Cuts6(0, a, b, c, d, e)
          BY <1>8
    <3>3. PICK b \in Ends(a, end, 1) :
              \E c \in Ends(b, end, 1) :
                \E d \in Ends(c, end, 1) :
                \E e \in Ends(d, end, end) :
                t = Cuts6(0, a, b, c, d, e)
          BY <3>2
    <3>4. PICK c \in Ends(b, end, 1) :
              \E d \in Ends(c, end, 1) :
                \E e \in Ends(d, end, end) :
                t = Cuts6(0, a, b, c, d, e)
          BY <3>3
    <3>5. PICK d \in Ends(c, end, 1) :
              \E e \in Ends(d, end, end) :
                t = Cuts6(0, a, b, c, d, e)
          BY <3>4
    <3>6. PICK e \in Ends(d, end, end) :
              t = Cuts6(0, a, b, c, d, e)
          BY <3>5
    <3>7. t[Len(t)] = e /\ \A k : Append(t, k) = Cuts7(0, a, b, c, d, e, k)
          BY <2>3, <3>6
    <3> QED BY <3>1, <3>7
  <2>5. ASSUME NEW a \in Ends(0, end, 2),
               NEW b \in Ends(a, end, 1),
               NEW c \in Ends(b, end, 1),
               NEW d \in Ends(c, end, 1),
               NEW e \in Ends(d, end, end),
               NEW f \in Ends(e, end, end)
        PROVE  Cuts7(0, a, b, c, d, e, f) \in C6
    <3>1. Cuts6(0, a, b, c, d, e) \in C5
          BY <1>8
    <3>2. LET t == Cuts6(0, a, b, c, d, e)
          IN  t[Len(t)] = e /\ Append(t, f) = Cuts7(0, a, b, c, d, e, f)
          BY <2>3
    <3> QED BY <2>1, <2>2, <3>1, <3>2
  <2> QED BY <2>4, <2>5
<1>10. \A a, b, c, d, e, f : Parts(s, Append(Cuts7(0, a, b, c, d, e, f), end)) =
          Reading(Span(s, 0, a), Span(s, a, b), Span(s, b, c), Span(s, c, d),
                  Span(s, d, e), Span(s, e, f), Span(s, f, end))
  <2> SUFFICES ASSUME NEW a, NEW b, NEW c, NEW d, NEW e, NEW f
               PROVE  Parts(s, Append(Cuts7(0, a, b, c, d, e, f), end)) =
                          Reading(Span(s, 0, a), Span(s, a, b), Span(s, b, c), Span(s, c, d),
                                  Span(s, d, e), Span(s, e, f), Span(s, f, end))
      OBVIOUS
  <2> DEFINE t == <<0, a, b, c, d, e, f, end>>
  <2>1. Append(Cuts7(0, a, b, c, d, e, f), end) = t
    <3>1. Grows(Cuts7(0, a, b, c, d, e, f), f, end, t)
          BY CutsGrow
    <3> HIDE DEF t
    <3> QED BY <3>1 DEF Grows
  <2>2. /\ t[1] = 0 /\ t[2] = a /\ t[3] = b /\ t[4] = c /\ t[5] = d /\ t[6] = e /\ t[7] = f
        /\ t[8] = end
        OBVIOUS
  <2> HIDE DEF t
  <2>3. Parts(s, t) = Reading(Span(s, 0, a), Span(s, a, b), Span(s, b, c), Span(s, c, d),
                              Span(s, d, e), Span(s, e, f), Span(s, f, end))
    <3>1. /\ 1 + 1 = 2 /\ 2 + 1 = 3 /\ 3 + 1 = 4 /\ 4 + 1 = 5 /\ 5 + 1 = 6 /\ 6 + 1 = 7
          /\ 7 + 1 = 8
          OBVIOUS
    <3>2. Parts(s, t) = Reading(SubSeq(s, t[1] + 1, t[2]), SubSeq(s, t[2] + 1, t[3]),
              SubSeq(s, t[3] + 1, t[4]), SubSeq(s, t[4] + 1, t[5]), SubSeq(s, t[5] + 1, t[6]),
              SubSeq(s, t[6] + 1, t[7]), SubSeq(s, t[7] + 1, t[8]))
          BY <3>1 DEF Parts, Reading
    <3> QED BY <2>2, <3>2 DEF Span
  <2> QED BY <2>1, <2>3
<1>11. \A x : x \in Readings(s) <=>
           \E a \in Ends(0, end, 2) : \E b \in Ends(a, end, 1) :
               \E c \in Ends(b, end, 1) : \E d \in Ends(c, end, 1) :
                   \E e \in Ends(d, end, end) : \E f \in Ends(e, end, end) :
                       x = Reading(Span(s, 0, a), Span(s, a, b), Span(s, b, c), Span(s, c, d),
                                   Span(s, d, e), Span(s, e, f), Span(s, f, end))
  <2>1. \A x : x \in Readings(s) <=> \E c \in C6 : x = Parts(s, Append(c, end))
        BY <1>1
  <2> QED BY <1>9, <1>10, <2>1
<1>12. \A a \in Ends(0, end, 2) : a \in Nat
       BY DEF Ends
<1>13. \A a \in Nat : \A b \in Ends(a, end, 1) : b \in Nat
       BY DEF Ends
<1>14. \A a \in Nat : Ends(a, end, end) = a .. end /\ \A b \in a .. end : b \in Nat
       BY DEF Ends
<1> QED BY <1>11, <1>12, <1>13, <1>14

\* A text with a closing brace behind it.
Closing(s) == Append(s, "}")

\* A stretch of a text is one of the text with a closing brace behind it.
LEMMA ClosedSpan ==
    ASSUME NEW s, IsSequence(s)
    PROVE  /\ Closed(Closing(s), Len(s))
           /\ \A a \in Nat : \A b \in a .. Len(s) : Span(s, a, b) = Span(Closing(s), a, b)
<1> DEFINE end == Len(s)
           p == Closing(s)
<1>1. end \in Nat /\ s = [i \in 1 .. end |-> s[i]]
      BY SequenceIs
<1> DEFINE c == "}"
           n == end + 1
<1> HIDE DEF end
<1>2. n \in Nat /\ n = end + 1
      BY <1>1
<1>3. p = [i \in 1 .. n |-> IF i = n THEN c ELSE s[i]]
  <2> HIDE DEF c
  <2>1. Append(s, c) = [i \in 1 .. end + 1 |-> IF i = end + 1 THEN c ELSE s[i]]
        BY <1>1, AppendIs
  <2>2. p = Append(s, c)
        BY DEF Closing, c
  <2> QED BY <2>1, <2>2
<1> HIDE DEF p, c, n
<1>4. IsSequence(p) /\ Len(p) = n
  <2>1. p = [i \in 1 .. n |-> p[i]]
        BY <1>3
  <2> QED BY <1>2, <2>1, LengthOf
<1>5. p[end + 1] = c /\ Len(p) = end + 1 /\ \A i \in 1 .. end : p[i] = s[i]
      BY <1>1, <1>2, <1>3, <1>4
<1>6. Closed(p, end)
  <2>1. At(p, end) = "}"
    <3>1. end < Len(p)
          BY <1>1, <1>5
    <3>2. At(p, end) = c
          BY <1>5, <3>1 DEF At
    <3> QED BY <3>2 DEF c
  <2>2. ~IsInteger("}") /\ "}" # "$"
        BY DEF IsInteger, Digits
  <2> QED BY <1>1, <1>4, <1>5, <2>1, <2>2 DEF Closed
<1>7. ASSUME NEW a \in Nat, NEW b \in a .. end PROVE Span(s, a, b) = Span(p, a, b)
  <2> DEFINE t == Span(s, a, b)
             u == Span(p, a, b)
  <2>1. IsSequence(t) /\ Len(t) = b - a /\ \A i \in 1 .. b - a : t[i] = s[a + i]
    <3>1. b \in a .. Len(s)
          BY DEF end
    <3> QED BY <3>1, SpanIs
  <2>2. IsSequence(u) /\ Len(u) = b - a /\ \A i \in 1 .. b - a : u[i] = p[a + i]
    <3>1. b \in a .. Len(p)
          BY <1>1, <1>5
    <3> QED BY <1>4, <3>1, SpanIs
  <2> HIDE DEF t, u
  <2>3. t = [i \in 1 .. b - a |-> t[i]] /\ u = [i \in 1 .. b - a |-> u[i]]
    <3>1. t = [i \in 1 .. Len(t) |-> t[i]] /\ u = [i \in 1 .. Len(u) |-> u[i]]
          BY <2>1, <2>2, SequenceIs
    <3> QED BY <2>1, <2>2, <3>1
  <2>4. \A i \in 1 .. b - a : a + i \in 1 .. end
        BY <1>1
  <2>5. \A i \in 1 .. b - a : t[i] = u[i]
        BY <1>5, <2>1, <2>2, <2>4
  <2>6. t = u
        BY <2>3, <2>5
  <2> QED BY <2>6 DEF t, u
<1> QED BY <1>6, <1>7 DEF end, p

\* The readings of a text are those of the closed pattern.
LEMMA SameReadings ==
    ASSUME NEW s, IsSequence(s)
    PROVE  Readings(s) = FromAlign(Closing(s), Len(s), 0)
<1> DEFINE end == Len(s)
           p == Closing(s)
           Of(t, a, b, c, d, e, f) ==
               Reading(Span(t, 0, a), Span(t, a, b), Span(t, b, c), Span(t, c, d),
                       Span(t, d, e), Span(t, e, f), Span(t, f, end))
<1>1. end \in Nat
      BY SequenceIs
<1>2. \A a \in Nat : \A b \in a .. end : Span(s, a, b) = Span(p, a, b)
      BY ClosedSpan
<1>3. \A x : x \in Readings(s) <=>
          \E a \in Ends(0, end, 2) : \E b \in Ends(a, end, 1) :
              \E c \in Ends(b, end, 1) : \E d \in Ends(c, end, 1) :
                  \E e \in d .. end : \E f \in e .. end : x = Of(s, a, b, c, d, e, f)
      BY <1>1, ReadingsCuts
<1>4. \A x : x \in FromAlign(p, end, 0) <=>
          \E a \in Ends(0, end, 2) : \E b \in Ends(a, end, 1) :
              \E c \in Ends(b, end, 1) : \E d \in Ends(c, end, 1) :
                  \E e \in d .. end : \E f \in e .. end : x = Of(p, a, b, c, d, e, f)
  <2> HIDE DEF end, p
  <2> QED BY FromCuts
<1>5. ASSUME NEW a \in Ends(0, end, 2), NEW b \in Ends(a, end, 1), NEW c \in Ends(b, end, 1),
             NEW d \in Ends(c, end, 1), NEW e \in d .. end, NEW f \in e .. end
      PROVE  Of(s, a, b, c, d, e, f) = Of(p, a, b, c, d, e, f)
  <2> HIDE DEF end, p
  <2>1. /\ a \in 0 .. end /\ b \in a .. end /\ c \in b .. end /\ d \in c .. end
        BY DEF Ends
  <2>2. /\ 0 \in Nat /\ a \in Nat /\ b \in Nat /\ c \in Nat /\ d \in Nat /\ e \in Nat /\ f \in Nat
        /\ end \in f .. end
        BY <1>1, <2>1
  <2>3. /\ Span(s, 0, a) = Span(p, 0, a) /\ Span(s, a, b) = Span(p, a, b)
        /\ Span(s, b, c) = Span(p, b, c) /\ Span(s, c, d) = Span(p, c, d)
        /\ Span(s, d, e) = Span(p, d, e) /\ Span(s, e, f) = Span(p, e, f)
        /\ Span(s, f, end) = Span(p, f, end)
        BY <1>2, <2>1, <2>2
  <2> QED BY <2>3
<1> HIDE DEF end, p, Of
<1>6. \A x : x \in Readings(s) <=> x \in FromAlign(p, end, 0)
      BY <1>3, <1>4, <1>5
<1>7. \A x : x \in Readings(s) => x \in FromAlign(p, end, 0)
      BY <1>6
<1> QED BY <1>6, <1>7 DEF end, p

\* as_spec makes of a text its only meaning, or nothing if it has none.
LEMMA SpecIs ==
    ASSUME NEW s, IsSequence(s)
    PROVE  LET readings == {Means(x) : x \in {y \in Readings(s) : WellFormed(y)}}
           IN  {as_spec(Append(s, "}"), 0, Len(s))} =
                   IF readings = {} THEN {<<>>} ELSE {<<m>> : m \in readings}
<1> DEFINE p == Closing(s)
           end == Len(s)
           readings == {Means(x) : x \in {y \in Readings(s) : WellFormed(y)}}
           v == as_spec(p, 0, end)
<1>1. Closed(p, end)
      BY ClosedSpan
<1>2. PICK f : v = f[0][0] /\ Solves(p, end, f)
  <2> HIDE DEF p, end
  <2> QED BY <1>1, SpecSteps
<1>3. Stands(v, Readings(s))
  <2>1. Readings(s) = FromAlign(p, end, 0)
        BY SameReadings
  <2> HIDE DEF p, end, v
  <2> QED BY <1>1, <1>2, <2>1, AlignStands
<1> HIDE DEF v
<1>4. \A m : m \in readings <=> \E x \in Readings(s) : WellFormed(x) /\ m = Means(x)
      OBVIOUS
<1> HIDE DEF readings
<1>5. v = <<>> \/ \E m : v = <<m>>
      BY <1>3 DEF Stands
<1>6. \A m : v = <<m>> <=> m \in readings
      BY <1>3, <1>4 DEF Stands
<1>7. CASE v = <<>>
  <2>1. \A m : m \notin readings
        BY <1>6, <1>7
  <2>2. readings = {}
        BY <2>1
  <2> QED BY <1>7, <2>2 DEF v, readings, p, Closing, end
<1>8. CASE v # <<>>
  <2>1. PICK m : v = <<m>>
        BY <1>5, <1>8
  <2>2. m \in readings /\ \A n \in readings : <<m>> = <<n>>
        BY <1>6, <2>1
  <2>3. readings = {m}
        BY <2>2
  <2>4. {<<n>> : n \in readings} = {<<m>>} /\ readings # {}
        BY <2>3
  <2> QED BY <2>1, <2>4 DEF v, readings, p, Closing, end
<1> QED BY <1>7, <1>8

\* SpecIsGrammar for every text: the parser of specifications (format.hpp 508-640), which
\* goes by one or two characters and the kind of the part before, accepts what the
\* grammar derives, in its only reading, and nothing else.
THEOREM SpecGrammar == Spec => []SpecIsGrammar
<1>1. Init => InputOf
      BY DEF Init, InputOf
<1>2. Init => SpecIsGrammar
      BY DEF Init, SpecIsGrammar, Answered
<1>3. InputOf /\ SpecIsGrammar /\ [Next]_vars => SpecIsGrammar'
  <2> SUFFICES ASSUME InputOf, SpecIsGrammar, [Next]_vars PROVE SpecIsGrammar'
      OBVIOUS
  <2>1. CASE UNCHANGED vars
        BY <2>1 DEF SpecIsGrammar, Answered, vars
  <2>2. CASE ParsesSpec
    <3> DEFINE s == input.spec
               readings == {Means(x) : x \in {y \in Readings(s) : WellFormed(y)}}
    <3>1. /\ input.fn = "as_spec" /\ input' = input
          /\ output' = {as_spec(Append(s, "}"), 0, Len(s))}
          BY <2>2 DEF ParsesSpec, Is, Calls
    <3>2. IsSequence(s)
          BY <3>1, ConversionsAssumption DEF InputOf
    <3>3. output' = IF readings = {} THEN {<<>>} ELSE {<<m>> : m \in readings}
      <4>1. {as_spec(Append(s, "}"), 0, Len(s))} =
                IF readings = {} THEN {<<>>} ELSE {<<m>> : m \in readings}
        <5> HIDE DEF s
        <5> QED BY <3>2, SpecIs
      <4> QED BY <3>1, <4>1
    <3> QED BY <3>1, <3>3, Zenon DEF SpecIsGrammar
  <2>3. CASE \/ Converts \/ ConvertsVector \/ Reads \/ FindsInRow \/ FindsInTable \/ Logs
             \/ RunsExample
        BY <2>3 DEF SpecIsGrammar, Answered, Converts, ConvertsVector, Reads, FindsInRow,
                    FindsInTable, Logs, RunsExample, Is, Calls
  <2> QED BY <2>1, <2>2, <2>3 DEF Next
<1> QED BY <1>1, <1>2, <1>3, InputStep, PTL DEF Spec

-----------------------------------------------------------------------------
(* What a pattern makes.                                                   *)

\* find stops at the first character that is sought, or at the end.
LEMMA FindIs ==
    ASSUME NEW p, NEW c, NEW start \in Nat, NEW end \in Nat, start <= end
    PROVE  LET e == find(p, c, start, end)
           IN  /\ e \in start .. end
               /\ e = end \/ At(p, e) = c
               /\ \A k \in start .. e - 1 : At(p, k) # c
<1> DEFINE D == start .. end
           Here(k) == k = end \/ At(p, k) = c
           Hits(q) == {k \in q .. end : Here(k)}
           First(k, q) == k \in Hits(q) /\ \A j \in Hits(q) : k <= j
           Body(f) == [k \in D |-> IF k = end \/ At(p, k) = c THEN k ELSE f[k + 1]]
<1>1. \A q \in D : \E k : First(k, q)
  <2> TAKE q \in D
  <2>1. end \in Hits(q) /\ Hits(q) \subseteq Nat
        OBVIOUS
  <2> QED BY <2>1, Least
<1> DEFINE g == [q \in D |-> CHOOSE k : First(k, q)]
<1>2. \A q \in D : First(g[q], q)
      BY <1>1
<1>3. \A q \in D : g[q] = IF Here(q) THEN q ELSE g[q + 1]
  <2> SUFFICES ASSUME NEW q \in D PROVE g[q] = IF Here(q) THEN q ELSE g[q + 1]
      OBVIOUS
  <2> HIDE DEF g
  <2>1. CASE ~Here(q)
    <3>1. q + 1 \in D
          BY <2>1
    <3>2. First(g[q], q) /\ First(g[q + 1], q + 1)
          BY <1>2, <3>1
    <3>3. \A k \in Int : k \in q .. end <=> k = q \/ k \in q + 1 .. end
          BY <3>1
    <3> HIDE DEF Here
    <3>4. Hits(q + 1) = Hits(q)
          BY <2>1, <3>3
    <3> QED BY <2>1, <3>2, <3>4
  <2>2. CASE Here(q)
    <3>1. q \in Hits(q)
          BY <2>2
    <3> HIDE DEF Here
    <3>2. First(g[q], q)
          BY <1>2
    <3> QED BY <2>2, <3>1, <3>2
  <2> QED BY <2>1, <2>2
<1>4. g = Body(g)
      BY <1>3
<1> HIDE DEF g
<1> DEFINE at == CHOOSE f : f = Body(f)
<1>5. find(p, c, start, end) = at[start]
      BY DEF find
<1> HIDE DEF Body
<1>6. at = Body(at)
      BY <1>4, Zenon
<1>7. \A k \in D : at[k] = IF Here(k) THEN k ELSE at[k + 1]
      BY <1>6 DEF Body
<1> HIDE DEF at
<1>8. PICK e : First(e, start)
      BY <1>1
<1>9. e \in D /\ Here(e) /\ \A k \in start .. e - 1 : ~Here(k)
      BY <1>8
<1> DEFINE P == {m \in 0 .. e - start : at[e - m] # e}
<1>10. P = {}
  <2> SUFFICES ASSUME P # {} PROVE FALSE
      OBVIOUS
  <2> HIDE DEF Here
  <2>1. PICK m \in P : \A k \in P : m <= k
    <3>1. P \subseteq Nat
          BY <1>9
    <3> HIDE DEF P
    <3> QED BY <3>1, Least
  <2>2. m # 0
        BY <1>7, <1>9, <2>1
  <2>3. m - 1 \in 0 .. e - start /\ m - 1 \notin P
        BY <1>9, <2>1, <2>2
  <2>4. e - m \in D /\ ~Here(e - m) /\ e - m + 1 = e - (m - 1)
        BY <1>9, <2>1, <2>2
  <2> QED BY <1>7, <2>1, <2>3, <2>4
<1>11. at[start] = e
  <2>1. e - start \in 0 .. e - start /\ e - (e - start) = start
        BY <1>9
  <2> QED BY <1>10, <2>1
<1> QED BY <1>5, <1>9, <1>11

\* What format_impl makes of a pattern from place i on, if it knows what it makes of
\* later places.
FormatBody(p, args, from, i, arg_ind) ==
    LET size == Len(p)
        end_pos == find(p, "}", i + 1, size)
        colon_pos == find(p, ":", i + 1, end_pos)
        pos == find(p, "{", i + 1, size)
    IN  IF i = size THEN Texts({<<>>})
        ELSE IF At(p, i) # "{" THEN Then(Texts({SubSeq(p, i + 1, pos)}), from[pos][arg_ind])
        ELSE IF i + 1 = size THEN Rejected
        ELSE IF At(p, i + 1) = "{" THEN Then(Texts({<<"{">>}), from[i + 2][arg_ind])
        ELSE IF At(p, i + 1) = "}"
             THEN Then(Placed(<<arg_ind>>, <<Default>>, args), from[i + 2][arg_ind + 1])
        ELSE IF end_pos = size THEN Rejected
        ELSE Then(Placed(as_size_t(p, i + 1, colon_pos),
                         IF colon_pos < end_pos THEN as_spec(p, colon_pos + 1, end_pos)
                         ELSE <<Default>>,
                         args),
                  from[end_pos + 1][arg_ind])

\* It looks at later places only.
LEMMA FormatAgrees ==
    ASSUME NEW p, Len(p) \in Nat, NEW args, NEW f, NEW g, NEW i \in 0 .. Len(p), NEW a,
           \A k \in i + 1 .. Len(p) : f[k] = g[k]
    PROVE  FormatBody(p, args, f, i, a) = FormatBody(p, args, g, i, a)
<1> DEFINE size == Len(p)
           end_pos == find(p, "}", i + 1, size)
           pos == find(p, "{", i + 1, size)
<1>1. CASE i = size
      BY <1>1 DEF FormatBody
<1>2. CASE i # size
  <2>1. i + 1 \in Nat /\ i + 1 <= size /\ size \in Nat
        BY <1>2
  <2>2. pos \in i + 1 .. size /\ end_pos \in i + 1 .. size
        BY <2>1, FindIs
  <2> HIDE DEF pos, end_pos
  <2>3. f[pos] = g[pos]
        BY <2>2
  <2>4. i + 1 # size => f[i + 2] = g[i + 2]
        BY <2>1
  <2>5. end_pos # size => f[end_pos + 1] = g[end_pos + 1]
        BY <2>1, <2>2
  <2> QED BY <1>2, <2>3, <2>4, <2>5, Zenon DEF FormatBody, pos, end_pos
<1> QED BY <1>1, <1>2

\* format_impl makes these steps, from the last place to the first.
LEMMA FormatSteps ==
    ASSUME NEW p, Len(p) \in Nat, NEW args
    PROVE  \E f : /\ format_impl(p, args) = f[0][0]
                  /\ \A i, a \in 0 .. Len(p) : f[i][a] = FormatBody(p, args, f, i, a)
<1>0. PICK end \in Nat : end = Len(p)
      OBVIOUS
<1> DEFINE Made(b, f) == [a \in 0 .. end |-> FormatBody(p, args, f, b, a)]
           Body(m, f) == [b \in end - m .. end |-> Made(b, f)]
           Missing == {m \in Nat : m <= end /\ ~\E f : f = Body(m, f)}
<1>2. ASSUME NEW b \in 0 .. end, NEW f, NEW g, \A k \in b + 1 .. end : f[k] = g[k]
      PROVE  Made(b, f) = Made(b, g)
      BY <1>0, <1>2, FormatAgrees
<1>3. format_impl(p, args) = (CHOOSE f : f = [b \in 0 .. end |-> Made(b, f)])[0][0]
      BY <1>0 DEF format_impl, FormatBody
<1>4. \A b \in 0 .. end : \A f : \A a \in 0 .. end : Made(b, f)[a] = FormatBody(p, args, f, b, a)
      OBVIOUS
<1> HIDE DEF Made
<1>5. Missing = {}
  <2> SUFFICES ASSUME Missing # {} PROVE FALSE
      OBVIOUS
  <2>1. PICK m \in Missing : \A k \in Missing : m <= k
        BY Least
  <2>2. m # 0
    <3> DEFINE f == [b \in end .. end |-> Made(end, <<>>)]
    <3>1. Made(end, f) = Made(end, <<>>)
      <4>1. \A k \in end + 1 .. end : f[k] = <<>>[k]
            OBVIOUS
      <4>2. end \in 0 .. end
            OBVIOUS
      <4> HIDE DEF f
      <4> QED BY <1>2, <4>1, <4>2
    <3>2. f = Body(0, f)
      <4>1. end - 0 = end /\ \A b \in end .. end : b = end
            OBVIOUS
      <4> QED BY <3>1, <4>1
    <3> HIDE DEF f
    <3> QED BY <2>1, <3>2
  <2>3. m - 1 \in Nat /\ m - 1 <= end /\ ~(m <= m - 1) /\ m \in Nat /\ m <= end
        BY <2>1, <2>2
  <2>4. PICK f : f = Body(m - 1, f)
        BY <2>1, <2>3
  <2> DEFINE o == end - m
             g == [b \in o .. end |-> IF b = o THEN Made(o, f) ELSE f[b]]
  <2>5. o \in 0 .. end /\ end - (m - 1) = o + 1
        BY <2>3
  <2>6. \A b \in o + 1 .. end : f[b] = Made(b, f)
        BY <2>4, <2>5
  <2>7. \A b \in o + 1 .. end : g[b] = f[b]
        BY <2>5
  <2>8. ASSUME NEW b \in o .. end PROVE g[b] = Made(b, g)
    <3>1. Made(b, g) = Made(b, f)
      <4>1. b \in 0 .. end /\ \A k \in b + 1 .. end : g[k] = f[k]
            BY <2>5, <2>7
      <4> HIDE DEF g
      <4> QED BY <1>2, <4>1
    <3>2. g[b] = Made(b, f)
      <4>1. CASE b = o
            BY <4>1
      <4>2. CASE b # o
        <5>1. b \in o + 1 .. end
              BY <2>5, <4>2
        <5> HIDE DEF g
        <5> QED BY <2>6, <2>7, <5>1
      <4> QED BY <4>1, <4>2
    <3> QED BY <3>1, <3>2
  <2>9. g = Body(m, g)
    <3>1. g = [b \in o .. end |-> g[b]]
          OBVIOUS
    <3> HIDE DEF g
    <3> QED BY <2>8, <3>1
  <2> HIDE DEF g
  <2> QED BY <2>1, <2>9
<1>6. \E f : f = [b \in 0 .. end |-> Made(b, f)]
  <2>1. \E f : f = Body(end, f)
    <3>1. end \in Nat /\ end <= end /\ end \notin Missing
          BY <1>0, <1>5
    <3> HIDE DEF Body
    <3> QED BY <3>1
  <2>2. end - end = 0
        OBVIOUS
  <2> QED BY <2>1, <2>2
<1> DEFINE F == CHOOSE f : f = [b \in 0 .. end |-> Made(b, f)]
<1>7. F = [b \in 0 .. end |-> Made(b, F)]
      BY <1>6
<1> HIDE DEF F
<1>8. \A i, a \in 0 .. end : F[i][a] = FormatBody(p, args, F, i, a)
  <2> SUFFICES ASSUME NEW i \in 0 .. end, NEW a \in 0 .. end
               PROVE  F[i][a] = FormatBody(p, args, F, i, a)
      OBVIOUS
  <2>1. F[i] = Made(i, F)
        BY <1>7
  <2> QED BY <1>4, <2>1
<1> QED BY <1>0, <1>3, <1>8 DEF F

\* The braces by name.
Open == "{"
Close == "}"

\* They are no other character that the parser looks for.
LEMMA Braces ==
    /\ Open # Close /\ Open # "0" /\ Close # "0" /\ Open # ":" /\ Close # ":"
    /\ Close \notin Digits /\ Close # "$" /\ Close # "end" /\ Open # "end"
BY Zenon DEF Open, Close, Digits

\* One sequence after another.
LEMMA JoinIs ==
    ASSUME NEW C, NEW a \in Seq(C), NEW b \in Seq(C)
    PROVE  /\ a \o b \in Seq(C)
           /\ Len(a \o b) = Len(a) + Len(b)
           /\ \A i \in 1 .. Len(a) : (a \o b)[i] = a[i]
           /\ \A i \in 1 .. Len(b) : (a \o b)[Len(a) + i] = b[i]
OBVIOUS

-----------------------------------------------------------------------------
(* A pattern with one placeholder.                                         *)

\* The pattern with one placeholder, for the first argument.
Placeholder(s) == <<Open, "0", ":">> \o s \o <<Close>>

\* Its characters.
LEMMA PlaceholderIs ==
    ASSUME NEW s, IsSequence(s)
    PROVE  LET p == Placeholder(s)
               n == Len(s)
           IN  /\ IsSequence(p) /\ Len(p) = n + 4 /\ n \in Nat
               /\ p[1] = Open /\ p[2] = "0" /\ p[3] = ":" /\ p[n + 4] = Close
               /\ \A i \in 1 .. n + 1 : p[3 + i] = Closing(s)[i]
<1> DEFINE n == Len(s)
           C == {s[i] : i \in 1 .. n} \cup {Open, "0", ":", Close}
           h == <<Open, "0", ":">>
           e == <<Close>>
           p == Placeholder(s)
<1>1. s \in Seq(C) /\ n \in Nat
  <2>1. n \in Nat /\ DOMAIN s = 1 .. n /\ s = [i \in 1 .. n |-> s[i]]
        BY SequenceIs
  <2>2. s \in [1 .. n -> C]
        BY <2>1
  <2> QED BY <2>1, <2>2
<1>2. h \in Seq(C) /\ e \in Seq(C)
      OBVIOUS
<1>3. /\ Len(h) = 3 /\ h[1] = Open /\ h[2] = "0" /\ h[3] = ":"
      /\ Len(e) = 1 /\ e[1] = Close
      OBVIOUS
<1>4. p = (h \o s) \o e /\ Closing(s) = Append(s, Close)
      BY DEF Placeholder, Closing, Close
<1> DEFINE c == Closing(s)
<1>5. Close \in C /\ e[1] = Close /\ c = Append(s, Close)
      BY <1>4, <1>3
<1> HIDE DEF h, e, C, p, c
<1> DEFINE q == h \o s
<1>10. /\ q \in Seq(C) /\ Len(q) = 3 + n
       /\ \A i \in 1 .. 3 : q[i] = h[i]
       /\ \A i \in 1 .. n : q[3 + i] = s[i]
  <2>1. /\ q \in Seq(C) /\ Len(q) = Len(h) + n
        /\ \A i \in 1 .. Len(h) : q[i] = h[i]
        /\ \A i \in 1 .. n : q[Len(h) + i] = s[i]
        BY <1>1, <1>2, JoinIs
  <2> HIDE DEF q
  <2> QED BY <1>3, <2>1
<1> HIDE DEF q
<1>6. /\ p \in Seq(C) /\ Len(p) = Len(q) + 1
      /\ \A i \in 1 .. Len(q) : p[i] = q[i]
      /\ \A i \in 1 .. 1 : p[Len(q) + i] = e[i]
  <2>1. p = q \o e
        BY <1>4 DEF q
  <2>2. /\ q \o e \in Seq(C) /\ Len(q \o e) = Len(q) + Len(e)
        /\ \A i \in 1 .. Len(q) : (q \o e)[i] = q[i]
        /\ \A i \in 1 .. Len(e) : (q \o e)[Len(q) + i] = e[i]
    <3>1. q \in Seq(C) /\ e \in Seq(C)
          BY <1>2, <1>10
    <3> QED BY <3>1, JoinIs
  <2>3. Len(e) = 1
        BY <1>3
  <2> QED BY <2>1, <2>2, <2>3, Zenon
<1>7. p \in Seq(C) /\ Len(p) = n + 4
      BY <1>1, <1>6, <1>10
<1>8. \A i \in 1 .. n + 3 : p[i] = q[i]
      BY <1>1, <1>6, <1>10
<1>9. p[n + 4] = e[1]
  <2>1. Len(q) + 1 = n + 4 /\ 1 \in 1 .. 1
        BY <1>1, <1>10
  <2> QED BY <1>6, <2>1
<1>11. /\ \A i \in 1 .. n : c[i] = s[i]
       /\ c[n + 1] = Close
      BY <1>1, <1>5
<1>12. IsSequence(p)
  <2>1. p = [i \in 1 .. n + 4 |-> p[i]] /\ n + 4 \in Nat
        BY <1>1, <1>7
  <2> QED BY <2>1, LengthOf
<1>13. p[1] = Open /\ p[2] = "0" /\ p[3] = ":" /\ p[n + 4] = Close
  <2>1. p[1] = h[1] /\ p[2] = h[2] /\ p[3] = h[3]
        BY <1>1, <1>8, <1>10
  <2> QED BY <1>3, <1>9, <2>1
<1>14. \A i \in 1 .. n + 1 : p[3 + i] = c[i]
  <2> TAKE i \in 1 .. n + 1
  <2>1. CASE i = n + 1
    <3>1. 3 + i = n + 4
          BY <1>1, <2>1
    <3> QED BY <1>5, <1>9, <1>11, <2>1, <3>1
  <2>2. CASE i # n + 1
    <3>1. i \in 1 .. n /\ 3 + i \in 1 .. n + 3
          BY <1>1, <2>2
    <3> QED BY <1>8, <1>10, <1>11, <3>1
  <2> QED BY <2>1, <2>2
<1> QED BY <1>1, <1>7, <1>12, <1>13, <1>14 DEF p, c

\* format_impl finds the specification and places the argument.
LEMMA FormatIs ==
    ASSUME NEW s, IsSequence(s), \A i \in 1 .. Len(s) : s[i] # Close, NEW args,
           Len(args) \in Nat, Len(args) >= 1
    PROVE  LET p == Placeholder(s)
               spec == as_spec(p, 3, Len(s) + 3)
           IN  format_impl(p, args) =
                  IF spec = <<>> THEN Rejected
                  ELSE Then(as_string(spec[1], args[1], args), Texts({<<>>}))
<1> DEFINE p == Placeholder(s)
           n == Len(s)
           spec == as_spec(p, 3, n + 3)
<1>1. /\ Len(p) = n + 4 /\ n \in Nat
      /\ p[1] = Open /\ p[2] = "0" /\ p[3] = ":" /\ p[n + 4] = Close
      /\ \A i \in 1 .. n : p[3 + i] = s[i]
  <2>1. \A i \in 1 .. n : Closing(s)[i] = s[i]
    <3>1. n \in Nat /\ s = [i \in 1 .. n |-> s[i]]
          BY SequenceIs
    <3>2. Append(s, Close) = [i \in 1 .. n + 1 |-> IF i = n + 1 THEN Close ELSE s[i]]
          BY <3>1, AppendIs
    <3>3. Closing(s) = Append(s, Close)
          BY DEF Closing, Close
    <3> QED BY <3>1, <3>2, <3>3
  <2>2. n \in Nat /\ \A i \in 1 .. n : i \in 1 .. n + 1
        BY PlaceholderIs
  <2> QED BY <2>1, <2>2, PlaceholderIs
<1> HIDE DEF p
<1>2. /\ At(p, 0) = Open /\ At(p, 1) = "0" /\ At(p, 2) = ":" /\ At(p, n + 3) = Close
  <2>1. 0 < n + 4 /\ 1 < n + 4 /\ 2 < n + 4 /\ n + 3 < n + 4 /\ n + 3 + 1 = n + 4
        BY <1>1
  <2> QED BY <1>1, <2>1 DEF At
<1>3. \A k \in 3 .. n + 2 : At(p, k) = s[k - 2]
  <2> TAKE k \in 3 .. n + 2
  <2>1. k < Len(p) /\ k - 2 \in 1 .. n /\ 3 + (k - 2) = k + 1
        BY <1>1
  <2> QED BY <1>1, <2>1 DEF At
<1>4. find(p, Close, 1, n + 4) = n + 3
  <2> DEFINE e == find(p, Close, 1, n + 4)
  <2>1. /\ e \in 1 .. n + 4 /\ (e = n + 4 \/ At(p, e) = Close)
        /\ \A k \in 1 .. e - 1 : At(p, k) # Close
    <3>1. 1 \in Nat /\ n + 4 \in Nat /\ 1 <= n + 4
          BY <1>1
    <3> QED BY <3>1, FindIs
  <2> HIDE DEF e
  <2>2. n + 3 \notin 1 .. e - 1
        BY <1>2, <2>1
  <2>3. e \notin 1 .. n + 2
    <3>1. \A k \in 1 .. n + 2 : At(p, k) # Close
      <4> TAKE k \in 1 .. n + 2
      <4>1. k = 1 \/ k = 2 \/ (k \in 3 .. n + 2 /\ k - 2 \in 1 .. n)
            BY <1>1
      <4> QED BY <1>2, <1>3, <4>1, Braces
    <3>2. e \in 1 .. n + 2 => e # n + 4
          BY <1>1
    <3> QED BY <2>1, <3>1, <3>2
  <2>4. e = n + 3
        BY <1>1, <2>1, <2>2, <2>3
  <2> QED BY <2>4 DEF e
<1>5. find(p, ":", 1, n + 3) = 2
  <2> DEFINE e == find(p, ":", 1, n + 3)
  <2>1. /\ e \in 1 .. n + 3 /\ (e = n + 3 \/ At(p, e) = ":")
        /\ \A k \in 1 .. e - 1 : At(p, k) # ":"
    <3>1. 1 \in Nat /\ n + 3 \in Nat /\ 1 <= n + 3
          BY <1>1
    <3> QED BY <3>1, FindIs
  <2> HIDE DEF e
  <2>2. 2 \notin 1 .. e - 1
        BY <1>2, <2>1
  <2>3. e # 1
        BY <1>1, <1>2, <2>1
  <2>4. e = 2
        BY <1>1, <2>1, <2>2, <2>3
  <2> QED BY <2>4 DEF e
<1>6. as_size_t(p, 1, 2) = <<0>>
  <2>1. \A k \in 1 .. (2 - 1) : IsInteger(At(p, k))
    <3>1. \A k \in 1 .. (2 - 1) : k = 1
          OBVIOUS
    <3> QED BY <1>2, <3>1 DEF IsInteger, Digits
  <2>2. Number(p, 1, 2) = 10 * Number(p, 1, 1) + DigitValue[p[2]] /\ Number(p, 1, 1) = 0
    <3>1. 1 \in Int /\ 2 \in Int /\ 2 > 1 /\ 2 - 1 = 1
          OBVIOUS
    <3> QED BY <3>1, NumberSteps
  <2>3. DigitValue["0"] = 0
        BY DEF DigitValue, Digits
  <2>4. Number(p, 1, 2) = 0
        BY <1>1, <2>2, <2>3
  <2> QED BY <2>1, <2>4, Zenon DEF as_size_t
<1>7. PICK f : /\ format_impl(p, args) = f[0][0]
               /\ \A i, a \in 0 .. Len(p) : f[i][a] = FormatBody(p, args, f, i, a)
  <2>1. Len(p) \in Nat
        BY <1>1
  <2> QED BY <2>1, FormatSteps
<1>8. f[0][0] = FormatBody(p, args, f, 0, 0) /\ f[n + 4][0] = FormatBody(p, args, f, n + 4, 0)
  <2>1. 0 \in 0 .. Len(p) /\ n + 4 \in 0 .. Len(p)
        BY <1>1
  <2> QED BY <1>7, <2>1
<1>9. f[n + 4][0] = Texts({<<>>})
      BY <1>1, <1>8 DEF FormatBody
<1>10. Placed(<<0>>, spec, args) = IF spec = <<>> THEN Rejected ELSE as_string(spec[1], args[1], args)
  <2>1. <<0>> # <<>> /\ <<0>>[1] = 0 /\ 0 + 1 = 1 /\ ~(0 >= Len(args))
        OBVIOUS
  <2> HIDE DEF spec
  <2> QED BY <2>1 DEF Placed
<1>11. f[0][0] = Then(Placed(<<0>>, spec, args), Texts({<<>>}))
  <2> DEFINE placed == Placed(<<0>>, spec, args)
  <2>1. /\ 0 + 1 = 1 /\ 0 # n + 4 /\ 1 # n + 4 /\ n + 3 # n + 4 /\ 2 < n + 3 /\ 2 + 1 = 3
        /\ n + 3 + 1 = n + 4
        BY <1>1
  <2>2. /\ At(p, 0) = Open /\ At(p, 1) # Open /\ At(p, 1) # Close
        BY <1>2, Braces
  <2>3. FormatBody(p, args, f, 0, 0) = Then(placed, f[n + 4][0])
        BY <1>1, <1>4, <1>5, <1>6, <2>1, <2>2, Zenon DEF FormatBody, Open, Close
  <2> QED BY <1>8, <1>9, <2>3
<1>12. Then(Rejected, Texts({<<>>})) = Rejected
       BY DEF Then, Rejected, Texts
<1> HIDE DEF spec
<1> QED BY <1>7, <1>10, <1>11, <1>12 DEF p, spec

\* One pattern behind place o of another.
Moved(p, q, o, n) ==
    /\ o \in Nat /\ n \in Nat /\ Len(q) = n + 1 /\ Len(p) = o + n + 1
    /\ \A i \in 1 .. n + 1 : p[o + i] = q[i]

\* Characters, digits and numbers are the same there.
LEMMA MovedIs ==
    ASSUME NEW p, NEW q, NEW o, NEW n, Moved(p, q, o, n), NEW a \in 0 .. n + 1
    PROVE  /\ At(p, o + a) = At(q, a)
           /\ DigitsEnd(p, o + a) = o + DigitsEnd(q, a)
           /\ \A b \in a .. n + 1 : as_size_t(p, o + a, o + b) = as_size_t(q, a, b)
<1>1. o \in Nat /\ n \in Nat /\ Len(q) = n + 1 /\ Len(p) = o + n + 1
      BY DEF Moved
<1>2. \A k \in 0 .. n + 1 : At(p, o + k) = At(q, k)
  <2> TAKE k \in 0 .. n + 1
  <2>1. o + k < Len(p) <=> k < Len(q)
        BY <1>1
  <2>2. k < Len(q) => p[o + k + 1] = q[k + 1]
    <3>1. k < Len(q) => k + 1 \in 1 .. n + 1 /\ o + (k + 1) = o + k + 1
          BY <1>1
    <3> QED BY <3>1 DEF Moved
  <2> QED BY <2>1, <2>2 DEF At
<1> DEFINE e == DigitsEnd(q, a)
           d == DigitsEnd(p, o + a)
<1>3. /\ e \in a .. n + 1 /\ ~IsInteger(At(q, e)) /\ \A k \in a .. e - 1 : IsInteger(At(q, k))
  <2>1. Len(q) \in Nat /\ a \in 0 .. Len(q)
        BY <1>1
  <2> QED BY <1>1, <2>1, DigitsEndIs
<1>4. /\ d \in o + a .. o + n + 1 /\ ~IsInteger(At(p, d))
      /\ \A k \in o + a .. d - 1 : IsInteger(At(p, k))
  <2>1. Len(p) \in Nat /\ o + a \in 0 .. Len(p)
        BY <1>1
  <2> QED BY <1>1, <2>1, DigitsEndIs
<1> HIDE DEF e, d
<1>5. d = o + e
  <2>1. d - o \in 0 .. n + 1 /\ o + (d - o) = d /\ e \in 0 .. n + 1
        BY <1>1, <1>3, <1>4
  <2>2. At(p, d) = At(q, d - o) /\ At(p, o + e) = At(q, e)
        BY <1>2, <2>1
  <2>3. d - o \notin a .. e - 1 /\ o + e \notin o + a .. d - 1
        BY <1>3, <1>4, <2>2
  <2> QED BY <1>1, <1>3, <1>4, <2>3
<1>6. ASSUME NEW b \in a .. n + 1
      PROVE  as_size_t(p, o + a, o + b) = as_size_t(q, a, b)
  <2> DEFINE D == \A k \in o + a .. ((o + b) - 1) : IsInteger(At(p, k))
             E == \A k \in a .. (b - 1) : IsInteger(At(q, k))
  <2>1. D <=> E
    <3>1. \A k \in a .. (b - 1) : /\ o + k \in o + a .. ((o + b) - 1)
                                  /\ At(p, o + k) = At(q, k)
          BY <1>1, <1>2
    <3>2. \A k \in o + a .. ((o + b) - 1) : /\ k - o \in a .. (b - 1)
                                          /\ At(p, k) = At(q, k - o)
      <4> TAKE k \in o + a .. ((o + b) - 1)
      <4>1. k - o \in a .. (b - 1) /\ k - o \in 0 .. n + 1 /\ o + (k - o) = k
            BY <1>1
      <4> QED BY <1>2, <4>1
    <3> QED BY <3>1, <3>2
  <2>2. Number(p, o + a, o + b) = Number(q, a, b)
    <3> DEFINE m == b - a
               c == o + a
    <3>1. m \in Nat /\ c \in Int /\ a \in Int /\ c + m = o + b /\ a + m = b
          /\ c = o + a
          BY <1>1
    <3>2. Same(p, c, q, a, m)
      <4> SUFFICES ASSUME NEW i \in 1 .. m PROVE p[c + i] = q[a + i]
          BY DEF Same
      <4>1. a + i \in 1 .. n + 1 /\ c + i = o + (a + i)
            BY <1>1
      <4> QED BY <4>1 DEF Moved
    <3> HIDE DEF m, c
    <3>3. Number(p, c, c + m) = Number(q, a, a + m)
          BY <3>1, <3>2, SameNumber
    <3> QED BY <3>1, <3>3, Zenon
  <2>3. CASE D
    <3>1. as_size_t(p, o + a, o + b) = <<Number(p, o + a, o + b)>>
          BY <2>3 DEF as_size_t
    <3>2. as_size_t(q, a, b) = <<Number(q, a, b)>>
      <4>1. E
            BY <2>1, <2>3
      <4> QED BY <4>1 DEF as_size_t
    <3> QED BY <2>2, <3>1, <3>2
  <2>4. CASE ~D
    <3>1. as_size_t(p, o + a, o + b) = <<>>
          BY <2>4 DEF as_size_t
    <3>2. as_size_t(q, a, b) = <<>>
      <4>1. ~E
            BY <2>1, <2>4
      <4> QED BY <4>1 DEF as_size_t
    <3> QED BY <3>1, <3>2
  <2> QED BY <2>3, <2>4
<1>7. At(p, o + a) = At(q, a)
      BY <1>2
<1> QED BY <1>5, <1>6, <1>7 DEF d, e

\* What as_spec makes of the places, moved.
Alike(o, n, h, f) == \A k \in 0 .. n : \A a \in 0 .. 6 : h[o + k][a] = f[k][a]

\* The choice that as_spec makes between the parts, from what it has seen.
Picked(anchor, more, last, c, d, arg, n, r0, r1, r2, r3, r4, r5, r6) ==
    LET dot == c = "."
        parts == IF dot THEN IF arg THEN PreciArg ELSE {"Precision"}
                 ELSE IF arg THEN WidthArg ELSE {"Width"}
    IN  IF more /\ is_align(d) THEN AlignPart(anchor, r0, c, d)
        ELSE IF is_align(c) THEN AlignPart(anchor, r1, " ", c)
        ELSE IF is_sign(c) THEN SignPart(anchor, r2, c)
        ELSE IF c = "#" THEN HashPart(anchor, r3)
        ELSE IF c = "0" /\ d # "$" THEN PaddingPart(anchor, r4)
        ELSE IF IsInteger(c) THEN WidthPart(anchor, r5, n, parts)
        ELSE IF dot /\ more THEN PrecisionPart(anchor, r6, n, parts)
        ELSE IF is_numeral_type(c) /\ last THEN <<[Default EXCEPT !.mode = {"Type"}, !.type = c]>>
        ELSE <<>>

\* as_spec makes that choice.
LEMMA ChosenIs ==
    ASSUME NEW p, NEW end, NEW f, NEW b, b # end, NEW a
    PROVE  LET c == At(p, b)
               pos == Behind(p, end, b)
               arg == At(p, pos) = "$"
               k == IF arg THEN pos + 1 ELSE pos
           IN  SpecBody(p, end, f, b, a) =
                  Picked(a, b + 1 < end, b + 1 = end, c, At(p, b + 1), arg,
                         as_size_t(p, IF c = "." THEN b + 1 ELSE b, pos),
                         f[b + 2][1], f[b + 1][1], f[b + 1][2], f[b + 1][3], f[b + 1][4],
                         f[k][5], f[k][6])
<1>1. /\ Anchors["Align"] = 1 /\ Anchors["Sign"] = 2 /\ Anchors["Type"] = 3
      /\ Anchors["Padding"] = 4 /\ Anchors["Width"] = 5 /\ Anchors["Precision"] = 6
      BY DEF Anchors
<1> QED BY <1>1, Zenon DEF SpecBody, Picked

\* Where the pattern is moved, so are the steps.
LEMMA MovedBody ==
    ASSUME NEW p, NEW q, NEW o, NEW n, Moved(p, q, o, n), Closed(q, n),
           NEW h, NEW f, Alike(o, n, h, f), NEW b \in 0 .. n, NEW a \in 0 .. 6
    PROVE  SpecBody(p, o + n, h, o + b, a) = SpecBody(q, n, f, b, a)
<1>1. o \in Nat /\ n \in Nat
      BY DEF Moved
<1> DEFINE c == At(q, b)
           d == At(q, b + 1)
           pos == Behind(q, n, b)
           arg == At(q, pos) = "$"
           k == IF arg THEN pos + 1 ELSE pos
           dot == c = "."
           m == IF dot THEN b + 1 ELSE b
<1>2. o + b = o + n <=> b = n
      BY <1>1
<1>3. CASE b = n
      BY <1>2, <1>3 DEF SpecBody
<1>4. CASE b # n
  <2>1. /\ pos = DigitsEnd(q, b + 1) /\ pos \in b + 1 .. n /\ (At(q, pos) = "$" => pos < n)
        /\ b + 1 \in 0 .. n + 1
    <3> HIDE DEF pos
    <3>1. b + 1 \in 0 .. n + 1
          BY <1>1
    <3> QED BY <1>4, <3>1, BehindIs DEF pos
  <2>2. Behind(p, o + n, o + b) = o + pos
    <3>1. o + b < o + n /\ o + b + 1 = o + (b + 1)
          BY <1>1, <1>4
    <3>2. DigitsEnd(p, o + (b + 1)) = o + DigitsEnd(q, b + 1)
          BY <2>1, MovedIs
    <3> QED BY <2>1, <3>1, <3>2 DEF Behind
  <2>3. At(p, o + b) = c /\ At(p, o + b + 1) = d
    <3>1. b \in 0 .. n + 1 /\ o + b + 1 = o + (b + 1)
          BY <1>1
    <3> QED BY <2>1, <3>1, MovedIs
  <2> HIDE DEF pos
  <2>4. At(p, o + pos) = At(q, pos)
    <3>1. pos \in 0 .. n + 1
          BY <1>1, <2>1
    <3> QED BY <3>1, MovedIs
  <2>5. as_size_t(p, o + m, o + pos) = as_size_t(q, m, pos)
    <3>1. m \in 0 .. n + 1 /\ pos \in m .. n + 1
          BY <1>1, <2>1
    <3> QED BY <3>1, MovedIs
  <2>6. /\ (IF dot THEN o + b + 1 ELSE o + b) = o + m
        /\ (IF arg THEN o + pos + 1 ELSE o + pos) = o + k
        BY <1>1, <2>1
  <2>7. /\ \A i \in 0 .. 6 : h[o + b + 1][i] = f[b + 1][i] /\ h[o + k][i] = f[k][i]
        /\ b + 1 < n => \A i \in 0 .. 6 : h[o + b + 2][i] = f[b + 2][i]
    <3>1. /\ b + 1 \in 0 .. n /\ k \in 0 .. n /\ o + b + 1 = o + (b + 1)
          /\ b + 1 < n => b + 2 \in 0 .. n
          /\ o + b + 2 = o + (b + 2)
          BY <1>1, <1>4, <2>1
    <3> QED BY <3>1 DEF Alike
  <2>8. (o + b + 1 < o + n <=> b + 1 < n) /\ (o + b + 1 = o + n <=> b + 1 = n)
        BY <1>1
  <2> DEFINE num == as_size_t(q, m, pos)
  <2> HIDE DEF m, k, c, d, arg, num
  <2>10. SpecBody(q, n, f, b, a) =
            Picked(a, b + 1 < n, b + 1 = n, c, d, arg, num, f[b + 2][1], f[b + 1][1], f[b + 1][2],
                   f[b + 1][3], f[b + 1][4], f[k][5], f[k][6])
         BY <1>4, ChosenIs DEF pos, m, k, c, d, arg, num
  <2>11. SpecBody(p, o + n, h, o + b, a) =
            Picked(a, o + b + 1 < o + n, o + b + 1 = o + n, c, d, arg, num, h[o + b + 2][1],
                   h[o + b + 1][1], h[o + b + 1][2], h[o + b + 1][3], h[o + b + 1][4],
                   h[o + k][5], h[o + k][6])
    <3> DEFINE e == Behind(p, o + n, o + b)
               x == At(p, o + b)
               g == At(p, e) = "$"
               l == IF g THEN e + 1 ELSE e
               w == as_size_t(p, IF x = "." THEN o + b + 1 ELSE o + b, e)
    <3>1. SpecBody(p, o + n, h, o + b, a) =
            Picked(a, o + b + 1 < o + n, o + b + 1 = o + n, x, At(p, o + b + 1), g, w,
                   h[o + b + 2][1], h[o + b + 1][1], h[o + b + 1][2], h[o + b + 1][3],
                   h[o + b + 1][4], h[l][5], h[l][6])
          BY <1>2, <1>4, ChosenIs
    <3>2. x = c /\ At(p, o + b + 1) = d /\ (g <=> arg) /\ e = o + pos
          BY <2>2, <2>3, <2>4 DEF arg
    <3>3. l = o + k
          BY <2>6, <3>2 DEF arg, k
    <3>4. w = num
      <4>1. (IF x = "." THEN o + b + 1 ELSE o + b) = o + m
            BY <2>6, <3>2
      <4> HIDE DEF x, e
      <4> QED BY <2>5, <3>2, <4>1 DEF num
    <3> HIDE DEF x, g, l, w, e
    <3> QED BY <3>1, <3>2, <3>3, <3>4
  <2>12. /\ h[o + b + 1][1] = f[b + 1][1] /\ h[o + b + 1][2] = f[b + 1][2]
         /\ h[o + b + 1][3] = f[b + 1][3] /\ h[o + b + 1][4] = f[b + 1][4]
         /\ h[o + k][5] = f[k][5] /\ h[o + k][6] = f[k][6]
    <3>1. 1 \in 0 .. 6 /\ 2 \in 0 .. 6 /\ 3 \in 0 .. 6 /\ 4 \in 0 .. 6 /\ 5 \in 0 .. 6 /\ 6 \in 0 .. 6
          OBVIOUS
    <3> QED BY <2>7, <3>1
  <2>13. CASE b + 1 < n
    <3>1. h[o + b + 2][1] = f[b + 2][1]
          BY <2>7, <2>13
    <3> QED BY <2>8, <2>10, <2>11, <2>12, <3>1
  <2>14. CASE ~(b + 1 < n)
    <3>1. \A u, v : Picked(a, b + 1 < n, b + 1 = n, c, d, arg, num, u, f[b + 1][1], f[b + 1][2],
                           f[b + 1][3], f[b + 1][4], f[k][5], f[k][6]) =
                    Picked(a, b + 1 < n, b + 1 = n, c, d, arg, num, v, f[b + 1][1], f[b + 1][2],
                           f[b + 1][3], f[b + 1][4], f[k][5], f[k][6])
          BY <2>14, Zenon DEF Picked
    <3> QED BY <2>8, <2>10, <2>11, <2>12, <3>1
  <2> QED BY <2>13, <2>14
<1> QED BY <1>3, <1>4

\* What as_spec makes of a text has the meaning of one of its readings.
LEMMA SpecReads ==
    ASSUME NEW s, IsSequence(s), NEW f, Solves(Closing(s), Len(s), f)
    PROVE  Stands(f[0][0], Readings(s))
<1>1. Closed(Closing(s), Len(s))
      BY ClosedSpan
<1>2. Readings(s) = FromAlign(Closing(s), Len(s), 0)
      BY SameReadings
<1> QED BY <1>1, <1>2, AlignStands

\* It makes the same of it in its placeholder.
LEMMA SpecThere ==
    ASSUME NEW s, IsSequence(s)
    PROVE  LET v == as_spec(Append(s, "}"), 0, Len(s))
           IN  /\ as_spec(Placeholder(s), 3, Len(s) + 3) = v
               /\ v = <<>> \/ \E x \in Readings(s) : WellFormed(x) /\ v = <<Means(x)>>
<1> DEFINE p == Placeholder(s)
           q == Closing(s)
           n == Len(s)
           Made(end, b, f) == [a \in 0 .. 6 |-> SpecBody(p, end, f, b, a)]
           Body(end, f) == [b \in 3 .. end |-> Made(end, b, f)]
           G == CHOOSE f : f = Body(n + 3, f)
<1>1. as_spec(p, 3, n + 3) = G[3][0]
      BY DEF as_spec, SpecBody, Behind, Anchors
<1>2. Closed(q, n) /\ n \in Nat /\ Moved(p, q, 3, n) /\ 3 + n = n + 3
  <2>1. Len(q) = n + 1 /\ n \in Nat /\ Closed(q, n)
        BY ClosedSpan DEF Closed
  <2>2. Len(p) = n + 4 /\ \A i \in 1 .. n + 1 : p[3 + i] = q[i]
        BY PlaceholderIs
  <2> HIDE DEF p, q, n
  <2>3. n + 4 = 3 + n + 1
        BY <2>1
  <2> QED BY <2>1, <2>2, <2>3 DEF Moved
<1>3. PICK f : as_spec(q, 0, n) = f[0][0] /\ Solves(q, n, f)
      BY <1>2, SpecSteps
<1> HIDE DEF p, q, n
<1>4. \A h : Alike(3, n, h, f) => \A b \in 3 .. n + 3 : \A a \in 0 .. 6 :
                 SpecBody(p, n + 3, h, b, a) = f[b - 3][a]
  <2> SUFFICES ASSUME NEW h, Alike(3, n, h, f), NEW b \in 3 .. n + 3, NEW a \in 0 .. 6
               PROVE  SpecBody(p, n + 3, h, b, a) = f[b - 3][a]
      OBVIOUS
  <2>1. b - 3 \in 0 .. n /\ 3 + (b - 3) = b
        BY <1>2
  <2>2. SpecBody(p, 3 + n, h, 3 + (b - 3), a) = SpecBody(q, n, f, b - 3, a)
        BY <1>2, <2>1, MovedBody
  <2>3. SpecBody(q, n, f, b - 3, a) = f[b - 3][a]
        BY <1>3, <2>1 DEF Solves
  <2> QED BY <1>2, <2>1, <2>2, <2>3
<1>5. \E h : h = Body(n + 3, h)
  <2> DEFINE h == [b \in 3 .. n + 3 |-> [a \in 0 .. 6 |-> f[b - 3][a]]]
  <2>1. Alike(3, n, h, f)
    <3> SUFFICES ASSUME NEW k \in 0 .. n, NEW a \in 0 .. 6 PROVE h[3 + k][a] = f[k][a]
        BY DEF Alike
    <3>1. 3 + k \in 3 .. n + 3 /\ (3 + k) - 3 = k
          BY <1>2
    <3> QED BY <3>1
  <2>2. \A b \in 3 .. n + 3 : \A a \in 0 .. 6 : SpecBody(p, n + 3, h, b, a) = f[b - 3][a]
    <3> HIDE DEF h
    <3> QED BY <1>4, <2>1
  <2>3. \A b \in 3 .. n + 3 : h[b] = Made(n + 3, b, h)
    <3> TAKE b \in 3 .. n + 3
    <3>1. h[b] = [a \in 0 .. 6 |-> f[b - 3][a]]
          OBVIOUS
    <3> HIDE DEF h
    <3> QED BY <2>2, <3>1
  <2>4. h = [b \in 3 .. n + 3 |-> h[b]]
        OBVIOUS
  <2> HIDE DEF h, Made
  <2> QED BY <2>3, <2>4
<1>6. G = Body(n + 3, G)
  <2> HIDE DEF Body
  <2> QED BY <1>5, Zenon
<1> HIDE DEF G
<1>7. \A b \in 3 .. n + 3 : \A a \in 0 .. 6 : G[b][a] = SpecBody(p, n + 3, G, b, a)
  <2> TAKE b \in 3 .. n + 3
  <2>1. G[b] = Made(n + 3, b, G)
    <3> HIDE DEF Made
    <3> QED BY <1>6
  <2> QED BY <2>1
<1> DEFINE g == [k \in 0 .. n |-> G[3 + k]]
<1>8. Solves(q, n, g)
  <2> SUFFICES ASSUME NEW b \in 0 .. n, NEW a \in 0 .. 6
               PROVE  g[b][a] = SpecBody(q, n, g, b, a)
      BY DEF Solves
  <2>1. Alike(3, n, G, g)
        BY DEF Alike
  <2>2. g[b][a] = G[3 + b][a]
        OBVIOUS
  <2> HIDE DEF g
  <2>3. 3 + b \in 3 .. n + 3
        BY <1>2
  <2>4. G[3 + b][a] = SpecBody(p, 3 + n, G, 3 + b, a)
        BY <1>2, <1>7, <2>3
  <2>5. SpecBody(p, 3 + n, G, 3 + b, a) = SpecBody(q, n, g, b, a)
        BY <1>2, <2>1, MovedBody
  <2> QED BY <2>2, <2>4, <2>5
<1>9. g[0][0] = G[3][0]
  <2>1. 0 \in 0 .. n /\ 3 + 0 = 3
        BY <1>2
  <2> QED BY <2>1
<1> HIDE DEF g
<1> DEFINE v == f[0][0]
           w == g[0][0]
<1>10. Stands(v, Readings(s)) /\ Stands(w, Readings(s))
       BY <1>3, <1>8, SpecReads DEF q, n
<1> HIDE DEF v, w
<1>11. v = w
  <2>1. \A m : v = <<m>> <=> w = <<m>>
        BY <1>10, Zenon DEF Stands
  <2>2. (v = <<>> \/ \E m : v = <<m>>) /\ (w = <<>> \/ \E m : w = <<m>>)
        BY <1>10, Zenon DEF Stands
  <2>3. \A m : <<>> # <<m>>
        OBVIOUS
  <2> QED BY <2>1, <2>2, <2>3, Zenon
<1>12. v = <<>> \/ \E x \in Readings(s) : WellFormed(x) /\ v = <<Means(x)>>
       BY <1>10 DEF Stands
<1>13. as_spec(Append(s, "}"), 0, Len(s)) = v /\ as_spec(p, 3, Len(s) + 3) = w
       BY <1>1, <1>3, <1>9, Zenon DEF q, n, Closing, v, w
<1> QED BY <1>11, <1>12, <1>13, Zenon DEF p

-----------------------------------------------------------------------------
(* Numbers of a base.                                                       *)

\* The number of the first n characters.
Valued(s, base, type, f, k) == IF k = 0 THEN 0 ELSE f[k - 1] * base + Letter(s[k], type)
ValueTo(s, n, base, type) ==
    LET value[k \in 0 .. n] == Valued(s, base, type, value, k) IN value[n]

\* One character more.
LEMMA ValueSteps ==
    ASSUME NEW s, NEW base, NEW type
    PROVE  /\ ValueTo(s, 0, base, type) = 0
           /\ \A n \in Nat \ {0} : ValueTo(s, n, base, type) =
                 ValueTo(s, n - 1, base, type) * base + Letter(s[n], type)
<1> DEFINE Body(n, f) == [k \in 0 .. n |-> Valued(s, base, type, f, k)]
           Missing == {n \in Nat : ~\E f : f = Body(n, f)}
<1>1. Missing = {}
  <2> SUFFICES ASSUME Missing # {} PROVE FALSE
      OBVIOUS
  <2>1. PICK m \in Missing : \A k \in Missing : m <= k
        BY Least
  <2>2. m # 0
    <3> DEFINE f == [k \in 0 .. 0 |-> 0]
    <3>1. f = Body(0, f)
          BY DEF Valued
    <3> HIDE DEF Body, f
    <3> QED BY <2>1, <3>1
  <2>3. m - 1 \in Nat /\ m - 1 \notin Missing
    <3>1. m - 1 \in Nat /\ ~(m <= m - 1)
          BY <2>1, <2>2
    <3> HIDE DEF Missing
    <3> QED BY <2>1, <3>1
  <2>4. PICK f : f = Body(m - 1, f)
        BY <2>3
  <2> DEFINE g == [k \in 0 .. m |-> IF k = m THEN Valued(s, base, type, f, m) ELSE f[k]]
  <2>5. ASSUME NEW k \in 0 .. m
        PROVE  g[k] = Valued(s, base, type, g, k)
    <3>1. g[k] = Valued(s, base, type, f, k)
      <4>1. CASE k = m
            BY <4>1
      <4>2. CASE k # m
        <5>1. k \in 0 .. m - 1
              BY <2>1, <2>5, <4>2
        <5> QED BY <2>4, <4>2, <5>1
      <4> QED BY <4>1, <4>2
    <3>2. CASE k = 0
          BY <3>1, <3>2 DEF Valued
    <3>3. CASE k # 0
      <4>1. k - 1 \in 0 .. m /\ k - 1 # m
            BY <2>1, <2>5, <3>3
      <4>2. g[k - 1] = f[k - 1]
            BY <4>1
      <4> HIDE DEF g
      <4> QED BY <3>1, <3>3, <4>2 DEF Valued
    <3> QED BY <3>2, <3>3
  <2>6. g = Body(m, g)
    <3> HIDE DEF g
    <3>1. g = [k \in 0 .. m |-> g[k]]
          BY DEF g
    <3> QED BY <2>5, <3>1
  <2> HIDE DEF Body, g
  <2> QED BY <2>1, <2>6
<1> DEFINE value(n) == CHOOSE f : f = Body(n, f)
<1>2. \A n \in Nat : ValueTo(s, n, base, type) = value(n)[n]
      BY DEF ValueTo
<1>3. \A n \in Nat : \A k \in 0 .. n : value(n)[k] = Valued(s, base, type, value(n), k)
  <2> SUFFICES ASSUME NEW n \in Nat, NEW k \in 0 .. n
               PROVE  value(n)[k] = Valued(s, base, type, value(n), k)
      OBVIOUS
  <2>1. \E f : f = Body(n, f)
    <3> HIDE DEF Body
    <3> QED BY <1>1
  <2>2. value(n) = Body(n, value(n))
    <3> HIDE DEF Body
    <3> QED BY <2>1, Zenon
  <2> HIDE DEF value
  <2> QED BY <2>2
<1> HIDE DEF value
<1>4. \A m, n \in Nat : \A k \in Nat : k <= m /\ k <= n => value(m)[k] = value(n)[k]
  <2> SUFFICES ASSUME NEW m \in Nat, NEW n \in Nat, NEW i \in Nat, i <= m, i <= n,
                      value(m)[i] # value(n)[i]
               PROVE  FALSE
      OBVIOUS
  <2> DEFINE P == {k \in Nat : k <= m /\ k <= n /\ value(m)[k] # value(n)[k]}
  <2>1. PICK k \in P : \A j \in P : k <= j
    <3>1. i \in P
          OBVIOUS
    <3> QED BY <3>1, Least
  <2>2. /\ value(m)[k] = Valued(s, base, type, value(m), k)
        /\ value(n)[k] = Valued(s, base, type, value(n), k)
        BY <1>3, <2>1
  <2>3. k # 0
        BY <2>1, <2>2 DEF Valued
  <2>4. k - 1 \in Nat /\ k - 1 <= m /\ k - 1 <= n /\ ~(k <= k - 1)
        BY <2>1, <2>3
  <2>5. value(m)[k - 1] = value(n)[k - 1]
        BY <2>1, <2>4
  <2> QED BY <2>1, <2>2, <2>3, <2>5 DEF Valued
<1>5. ValueTo(s, 0, base, type) = 0
  <2>1. 0 \in Nat /\ 0 \in 0 .. 0
        OBVIOUS
  <2> QED BY <1>2, <1>3, <2>1 DEF Valued
<1>6. ASSUME NEW n \in Nat \ {0}
      PROVE  ValueTo(s, n, base, type) = ValueTo(s, n - 1, base, type) * base + Letter(s[n], type)
  <2>1. n \in Nat /\ n \in 0 .. n /\ n # 0 /\ n - 1 \in Nat /\ n - 1 <= n
        OBVIOUS
  <2>2. value(n)[n] = value(n)[n - 1] * base + Letter(s[n], type)
        BY <1>3, <2>1 DEF Valued
  <2>3. value(n)[n - 1] = value(n - 1)[n - 1]
        BY <1>4, <2>1
  <2> QED BY <1>2, <2>1, <2>2, <2>3
<1> QED BY <1>5, <1>6

\* Zeros before a text.
ZerosBefore(s, z, t, n) ==
    /\ \A i \in 1 .. z : s[i] = "0"
    /\ \A i \in 1 .. n : s[z + i] = t[i]

\* Characters that stand for digits.
Lettered(t, n, type) == \A i \in 1 .. n : Letter(t[i], type) \in Nat

\* They change nothing.
LEMMA ZerosAdd ==
    ASSUME NEW s, NEW t, NEW z \in Nat, NEW n \in Nat, NEW base \in Nat, NEW type,
           ZerosBefore(s, z, t, n),
           Lettered(t, n, type)
    PROVE  /\ ValueTo(s, z + n, base, type) = ValueTo(t, n, base, type)
           /\ ValueTo(t, n, base, type) \in Nat
<1>1. Letter("0", type) = 0
      BY DEF Letter, Digits, DigitValue
<1> DEFINE V(m) == ValueTo(s, m, base, type)
           W(m) == ValueTo(t, m, base, type)
           P == {m \in Nat : m <= z /\ V(m) # 0}
           Q == {m \in Nat : m <= n /\ ~(W(m) \in Nat /\ V(z + m) = W(m))}
<1>2. /\ V(0) = 0 /\ W(0) = 0
      /\ \A m \in Nat \ {0} : /\ V(m) = V(m - 1) * base + Letter(s[m], type)
                              /\ W(m) = W(m - 1) * base + Letter(t[m], type)
  <2>1. V(0) = 0 /\ \A m \in Nat \ {0} : V(m) = V(m - 1) * base + Letter(s[m], type)
        BY ValueSteps
  <2>2. W(0) = 0 /\ \A m \in Nat \ {0} : W(m) = W(m - 1) * base + Letter(t[m], type)
        BY ValueSteps
  <2> HIDE DEF V, W
  <2> QED BY <2>1, <2>2
<1> HIDE DEF V, W
<1>3. P = {}
  <2> SUFFICES ASSUME P # {} PROVE FALSE
      OBVIOUS
  <2>1. PICK m \in P : \A k \in P : m <= k
        BY Least
  <2>2. m # 0 /\ m \in Nat \ {0} /\ m - 1 \in Nat /\ m - 1 <= z /\ ~(m <= m - 1)
        BY <1>2, <2>1
  <2>3. V(m - 1) = 0 /\ s[m] = "0"
        BY <2>1, <2>2 DEF ZerosBefore
  <2> QED BY <1>1, <1>2, <2>1, <2>2, <2>3
<1>4. Q = {}
  <2> SUFFICES ASSUME Q # {} PROVE FALSE
      OBVIOUS
  <2>1. PICK m \in Q : \A k \in Q : m <= k
        BY Least
  <2>2. m # 0
    <3>1. V(z + 0) = 0
      <4>1. z + 0 = z /\ z <= z /\ z \notin P
            BY <1>3
      <4> QED BY <4>1
    <3> QED BY <1>2, <2>1, <3>1
  <2>3. /\ m \in Nat \ {0} /\ m - 1 \in Nat /\ m - 1 <= n /\ ~(m <= m - 1) /\ m \in 1 .. n
        /\ z + m \in Nat \ {0} /\ z + m - 1 = z + (m - 1)
        BY <2>1, <2>2
  <2>4. W(m - 1) \in Nat /\ V(z + (m - 1)) = W(m - 1)
        BY <2>1, <2>3
  <2>5. /\ V(z + m) = V(z + m - 1) * base + Letter(s[z + m], type)
        /\ W(m) = W(m - 1) * base + Letter(t[m], type)
        BY <1>2, <2>3
  <2>6. s[z + m] = t[m] /\ Letter(t[m], type) \in Nat
        BY <2>3 DEF ZerosBefore, Lettered
  <2>7. W(m - 1) * base \in Nat
        BY <2>4
  <2>8. V(z + m) = W(m)
        BY <2>3, <2>4, <2>5, <2>6
  <2>9. W(m) \in Nat
        BY <2>5, <2>6, <2>7
  <2> QED BY <2>1, <2>8, <2>9
<1>5. n \notin Q /\ n <= n
      BY <1>4
<1> QED BY <1>5 DEF V, W

-----------------------------------------------------------------------------
(* The digits of an integer.                                               *)

\* The types of a specification, their bases, and the characters of their digits.
Types == {"x", "X", "b", "o"}
Bases == {2, 8, 16}
Codes == Digits \cup {"a", "b", "c", "d", "e", "f", "A", "B", "C", "D", "E", "F"}

\* The quotient and the last digit, in another base.
LEMMA Quotient ==
    ASSUME NEW base \in Bases, NEW n \in Nat
    PROVE  /\ n \div base \in Nat /\ n % base \in 0 .. base - 1
           /\ n = (n \div base) * base + (n % base)
           /\ n \div base # 0 => n \div base < n
<1>1. CASE base = 2
  <2>1. n \div 2 \in Nat /\ n % 2 \in 0 .. 1
        OBVIOUS
  <2>2. n = (n \div 2) * 2 + (n % 2)
        OBVIOUS
  <2>3. n \div 2 # 0 => n \div 2 < n
        OBVIOUS
  <2> QED BY <1>1, <2>1, <2>2, <2>3
<1>2. CASE base = 8
  <2>1. n \div 8 \in Nat /\ n % 8 \in 0 .. 7
        OBVIOUS
  <2>2. n = (n \div 8) * 8 + (n % 8)
        OBVIOUS
  <2>3. n \div 8 # 0 => n \div 8 < n
        OBVIOUS
  <2> QED BY <1>2, <2>1, <2>2, <2>3
<1>3. CASE base = 16
  <2>1. n \div 16 \in Nat /\ n % 16 \in 0 .. 15
        OBVIOUS
  <2>2. n = (n \div 16) * 16 + (n % 16)
        OBVIOUS
  <2>3. n \div 16 # 0 => n \div 16 < n
        OBVIOUS
  <2> QED BY <1>3, <2>1, <2>2, <2>3
<1> QED BY <1>1, <1>2, <1>3 DEF Bases

\* A type has one of these bases.
LEMMA BaseIs ==
    ASSUME NEW type \in Types
    PROVE  BaseOf(type) \in Bases
BY DEF BaseOf, Bases, Types

\* The character of a digit stands for it.
LEMMA LetterIs ==
    ASSUME NEW type, NEW d \in 0 .. 15
    PROVE  DigitOf(d, type) \in Codes /\ Letter(DigitOf(d, type), type) = d
<1> DEFINE c == DigitOf(d, type)
<1>1. CASE d < 10
  <2>1. d \in 0 .. 9 /\ c = Character[d]
        BY <1>1 DEF DigitOf
  <2>2. Character[d] \in Digits /\ DigitValue[Character[d]] = d
        BY <2>1, CharacterIs
  <2> HIDE DEF c
  <2> QED BY <2>1, <2>2 DEF Letter, Codes, c
<1>2. CASE ~(d < 10)
  <2> DEFINE L(e) == IF type = "X" THEN UpperLetter[e - 9] ELSE LowerLetter[e - 9]
  <2>1. \A e \in 10 .. 15 : DigitOf(e, type) = L(e)
        BY DEF DigitOf
  <2>2. \A e \in 10 .. 15 : e = 10 \/ e = 11 \/ e = 12 \/ e = 13 \/ e = 14 \/ e = 15
        OBVIOUS
  <2>3. /\ UpperLetter[10 - 9] = "A" /\ UpperLetter[11 - 9] = "B" /\ UpperLetter[12 - 9] = "C"
        /\ UpperLetter[13 - 9] = "D" /\ UpperLetter[14 - 9] = "E" /\ UpperLetter[15 - 9] = "F"
        BY DEF UpperLetter
  <2>4. /\ LowerLetter[10 - 9] = "a" /\ LowerLetter[11 - 9] = "b" /\ LowerLetter[12 - 9] = "c"
        /\ LowerLetter[13 - 9] = "d" /\ LowerLetter[14 - 9] = "e" /\ LowerLetter[15 - 9] = "f"
        BY DEF LowerLetter
  <2>5. \A e \in 10 .. 15 : L(e) \in Codes \ Digits
    <3> TAKE e \in 10 .. 15
    <3>1. CASE type = "X"
      <4>1. L(e) \in {"A", "B", "C", "D", "E", "F"}
            BY <2>2, <2>3, <3>1
      <4> HIDE DEF L
      <4> QED BY <4>1 DEF Codes, Digits
    <3>2. CASE type # "X"
      <4>1. L(e) \in {"a", "b", "c", "d", "e", "f"}
            BY <2>2, <2>4, <3>2
      <4> HIDE DEF L
      <4> QED BY <4>1 DEF Codes, Digits
    <3> QED BY <3>1, <3>2
  <2>6. \A e, g \in 10 .. 15 : L(e) = L(g) => e = g
    <3> SUFFICES ASSUME NEW e \in 10 .. 15, NEW g \in 10 .. 15, L(e) = L(g) PROVE e = g
        OBVIOUS
    <3>1. CASE type = "X"
          BY <2>2, <2>3, <3>1
    <3>2. CASE type # "X"
          BY <2>2, <2>4, <3>2
    <3> QED BY <3>1, <3>2
  <2> HIDE DEF L
  <2>7. d \in 10 .. 15
        BY <1>2
  <2>8. c = L(d) /\ c \in Codes \ Digits
        BY <2>1, <2>5, <2>7
  <2> HIDE DEF c
  <2>9. Letter(c, type) = CHOOSE e \in 10 .. 15 : c = DigitOf(e, type)
        BY <2>1, <2>7, <2>8 DEF Letter
  <2>10. \A e \in 10 .. 15 : c = DigitOf(e, type) <=> e = d
        BY <2>1, <2>6, <2>7, <2>8
  <2> DEFINE e == CHOOSE e \in 10 .. 15 : c = DigitOf(e, type)
  <2>11. e \in 10 .. 15 /\ c = DigitOf(e, type)
        BY <2>7, <2>10
  <2> QED BY <2>8, <2>9, <2>10, <2>11 DEF c
<1> QED BY <1>1, <1>2

\* One digit more.
Based(f, base, type, k) ==
    (IF k \div base = 0 THEN <<>> ELSE f[k \div base]) \o <<DigitOf(k % base, type)>>

\* The digits are pushed one behind the other.
LEMMA InBaseSteps ==
    ASSUME NEW type \in Types, NEW n \in Nat
    PROVE  LET base == BaseOf(type)
           IN  InBase(n, type) = (IF n \div base = 0 THEN <<>> ELSE InBase(n \div base, type))
                                     \o <<DigitOf(n % base, type)>>
<1> DEFINE base == BaseOf(type)
           Body(m, f) == [k \in 0 .. m |-> Based(f, base, type, k)]
           Missing == {m \in Nat : ~\E f : f = Body(m, f)}
<1>0. \A m \in Nat : InBase(m, type) = (CHOOSE f : f = Body(m, f))[m]
      BY DEF InBase, Based
<1>a. \A k \in Nat : k \div base \in Nat /\ (k \div base # 0 => k \div base < k)
  <2>1. base \in Bases
        BY BaseIs
  <2> HIDE DEF base
  <2> QED BY <2>1, Quotient
<1> HIDE DEF base
<1>b. ASSUME NEW f, NEW g, NEW k \in Nat, k \div base # 0 => f[k \div base] = g[k \div base]
      PROVE  Based(f, base, type, k) = Based(g, base, type, k)
      BY <1>b DEF Based
<1>1. Missing = {}
  <2> SUFFICES ASSUME Missing # {} PROVE FALSE
      OBVIOUS
  <2>1. PICK m \in Missing : \A k \in Missing : m <= k
        BY Least
  <2>2. m # 0
    <3> DEFINE f == [k \in 0 .. 0 |-> Based(<<>>, base, type, 0)]
    <3>1. f = Body(0, f)
      <4>1. 0 \in Nat /\ 0 \div base = 0
            BY <1>a
      <4>2. Based(f, base, type, 0) = Based(<<>>, base, type, 0)
        <5> HIDE DEF f
        <5> QED BY <1>b, <4>1
      <4>3. \A k \in 0 .. 0 : k = 0
            OBVIOUS
      <4> QED BY <4>2, <4>3
    <3> HIDE DEF Body, f
    <3> QED BY <2>1, <3>1
  <2>3. m - 1 \in Nat /\ m - 1 \notin Missing
    <3>1. m - 1 \in Nat /\ ~(m <= m - 1)
          BY <2>1, <2>2
    <3> HIDE DEF Missing
    <3> QED BY <2>1, <3>1
  <2>4. PICK f : f = Body(m - 1, f)
        BY <2>3
  <2> DEFINE g == [k \in 0 .. m |-> IF k = m THEN Based(f, base, type, m) ELSE f[k]]
  <2>5. ASSUME NEW k \in 0 .. m
        PROVE  g[k] = Based(g, base, type, k)
    <3>1. g[k] = Based(f, base, type, k)
      <4>1. CASE k = m
            BY <4>1
      <4>2. CASE k # m
        <5>1. k \in 0 .. m - 1
              BY <2>1, <2>5, <4>2
        <5> QED BY <2>4, <4>2, <5>1
      <4> QED BY <4>1, <4>2
    <3>2. k \div base # 0 => g[k \div base] = f[k \div base]
      <4>1. k \div base # 0 => k \div base \in 0 .. m /\ k \div base # m
            BY <1>a, <2>1, <2>5
      <4> QED BY <4>1
    <3> HIDE DEF g
    <3>3. Based(g, base, type, k) = Based(f, base, type, k)
      <4>1. k \in Nat
            OBVIOUS
      <4> QED BY <1>b, <3>2, <4>1
    <3> QED BY <3>1, <3>3
  <2>6. g = Body(m, g)
    <3> HIDE DEF g
    <3>1. g = [k \in 0 .. m |-> g[k]]
          BY DEF g
    <3> QED BY <2>5, <3>1
  <2> HIDE DEF Body, g
  <2> QED BY <2>1, <2>6
<1> DEFINE text(m) == CHOOSE f : f = Body(m, f)
<1>3. \A m \in Nat : \A k \in 0 .. m : text(m)[k] = Based(text(m), base, type, k)
  <2> SUFFICES ASSUME NEW m \in Nat, NEW k \in 0 .. m
               PROVE  text(m)[k] = Based(text(m), base, type, k)
      OBVIOUS
  <2>1. \E f : f = Body(m, f)
    <3> HIDE DEF Body
    <3> QED BY <1>1
  <2>2. text(m) = Body(m, text(m))
    <3> HIDE DEF Body
    <3> QED BY <2>1, Zenon
  <2> HIDE DEF text
  <2> QED BY <2>2
<1>2. \A m \in Nat : InBase(m, type) = text(m)[m]
      BY <1>0
<1> HIDE DEF text
<1>4. \A m, l \in Nat : \A k \in Nat : k <= m /\ k <= l => text(m)[k] = text(l)[k]
  <2> SUFFICES ASSUME NEW m \in Nat, NEW l \in Nat, NEW i \in Nat, i <= m, i <= l,
                      text(m)[i] # text(l)[i]
               PROVE  FALSE
      OBVIOUS
  <2> DEFINE P == {k \in Nat : k <= m /\ k <= l /\ text(m)[k] # text(l)[k]}
  <2>1. PICK k \in P : \A j \in P : k <= j
    <3>1. i \in P
          OBVIOUS
    <3> QED BY <3>1, Least
  <2>2. /\ text(m)[k] = Based(text(m), base, type, k)
        /\ text(l)[k] = Based(text(l), base, type, k)
        BY <1>3, <2>1
  <2>3. k \div base # 0 => text(m)[k \div base] = text(l)[k \div base]
    <3>1. k \div base # 0 => k \div base \in Nat /\ k \div base < k
          BY <1>a, <2>1
    <3> QED BY <2>1, <3>1
  <2>4. Based(text(m), base, type, k) = Based(text(l), base, type, k)
        BY <1>b, <2>1, <2>3
  <2> QED BY <2>1, <2>2, <2>4
<1>5. text(n)[n] = Based(text(n), base, type, n)
      BY <1>3
<1>6. n \div base # 0 => text(n)[n \div base] = InBase(n \div base, type)
  <2>1. n \div base # 0 => n \div base \in Nat /\ n \div base <= n
        BY <1>a
  <2> QED BY <1>2, <1>4, <2>1
<1>7. InBase(n, type) = (IF n \div base = 0 THEN <<>> ELSE InBase(n \div base, type))
                            \o <<DigitOf(n % base, type)>>
  <2>1. CASE n \div base = 0
        BY <1>2, <1>5, <2>1 DEF Based
  <2>2. CASE n \div base # 0
        BY <1>2, <1>5, <1>6, <2>2 DEF Based
  <2> QED BY <2>1, <2>2
<1> QED BY <1>7 DEF base

\* Characters below a base.
Below(s, base, type) == \A i \in 1 .. Len(s) : Letter(s[i], type) \in 0 .. base - 1

\* A text that is a number.
IsNumberText(s, n, base, type) ==
    /\ s \in Seq(Codes) /\ Len(s) >= 1
    /\ Below(s, base, type)
    /\ ValueTo(s, Len(s), base, type) = n

\* The number of the characters that two texts share.
LEMMA SharedValue ==
    ASSUME NEW s, NEW t, NEW m \in Nat, NEW base \in Nat, NEW type,
           ZerosBefore(s, 0, t, m), Lettered(t, m, type)
    PROVE  ValueTo(s, m, base, type) = ValueTo(t, m, base, type)
<1> DEFINE z == 0
<1>1. z \in Nat /\ ZerosBefore(s, z, t, m)
      OBVIOUS
<1> HIDE DEF z
<1>2. ValueTo(s, z + m, base, type) = ValueTo(t, m, base, type)
      BY <1>1, ZerosAdd
<1>3. z + m = m
      BY DEF z
<1> QED BY <1>2, <1>3

\* Its last digit.
LEMMA LastLetter ==
    ASSUME NEW t \in Seq(Codes), NEW c \in Codes, NEW base \in Nat, NEW type,
           Letter(c, type) \in 0 .. base - 1,
           Below(t, base, type)
    PROVE  IsNumberText(t \o <<c>>, ValueTo(t, Len(t), base, type) * base + Letter(c, type),
                        base, type)
<1> DEFINE s == t \o <<c>>
           m == Len(t)
<1>1. /\ s \in Seq(Codes) /\ Len(s) = m + 1 /\ m \in Nat /\ s[m + 1] = c
      /\ \A i \in 1 .. m : s[i] = t[i]
      OBVIOUS
<1> HIDE DEF s
<1>2. ValueTo(s, m, base, type) = ValueTo(t, m, base, type)
  <2>1. ZerosBefore(s, 0, t, m)
    <3>1. \A i \in 1 .. m : 0 + i = i
          BY <1>1
    <3> QED BY <1>1, <3>1 DEF ZerosBefore
  <2>2. Lettered(t, m, type)
        BY DEF Lettered, Below
  <2>3. m \in Nat
        BY <1>1
  <2> HIDE DEF m
  <2> QED BY <2>1, <2>2, <2>3, SharedValue
<1>3. ValueTo(s, m + 1, base, type) = ValueTo(s, m, base, type) * base + Letter(s[m + 1], type)
  <2> DEFINE k == m + 1
  <2>1. k \in Nat \ {0} /\ k - 1 = m
        BY <1>1
  <2> HIDE DEF k, m
  <2>2. ValueTo(s, k, base, type) = ValueTo(s, k - 1, base, type) * base + Letter(s[k], type)
        BY ONLY <2>1, ValueSteps
  <2>3. ValueTo(s, k, base, type) = ValueTo(s, m, base, type) * base + Letter(s[k], type)
        BY ONLY <2>1, <2>2
  <2> QED BY <2>3 DEF k
<1>4. \A i \in 1 .. m + 1 : Letter(s[i], type) \in 0 .. base - 1
  <2> TAKE i \in 1 .. m + 1
  <2>1. i = m + 1 \/ i \in 1 .. m
        BY <1>1
  <2> QED BY <1>1, <2>1 DEF Below
<1>5. Len(s) >= 1
      BY <1>1
<1> HIDE DEF m
<1> QED BY <1>1, <1>2, <1>3, <1>4, <1>5 DEF IsNumberText, Below, s, m

\* InBase makes the text of its number, by the least number it does not.
LEMMA InBaseIs ==
    ASSUME NEW type \in Types, NEW n \in Nat
    PROVE  IsNumberText(InBase(n, type), n, BaseOf(type), type)
<1> DEFINE base == BaseOf(type)
           P == {m \in Nat : ~IsNumberText(InBase(m, type), m, base, type)}
<1>1. base \in Bases /\ base \in Nat /\ base <= 16
      BY BaseIs DEF Bases
<1>2. \A m \in Nat : InBase(m, type) =
          (IF m \div base = 0 THEN <<>> ELSE InBase(m \div base, type)) \o <<DigitOf(m % base, type)>>
      BY InBaseSteps
<1> HIDE DEF base
<1>3. P = {}
  <2> SUFFICES ASSUME P # {} PROVE FALSE
      OBVIOUS
  <2>1. PICK m \in P : \A k \in P : m <= k
        BY Least
  <2> DEFINE q == m \div base
             d == m % base
             c == DigitOf(d, type)
             t == IF q = 0 THEN <<>> ELSE InBase(q, type)
  <2>2. q \in Nat /\ d \in 0 .. base - 1 /\ m = q * base + d /\ (q # 0 => q < m)
        BY <1>1, <2>1, Quotient
  <2>3. InBase(m, type) = t \o <<c>>
        BY <1>2, <2>1
  <2> HIDE DEF q, d
  <2>4. c \in Codes /\ Letter(c, type) = d
    <3>1. d \in 0 .. 15
          BY <1>1, <2>2
    <3> QED BY <3>1, LetterIs
  <2>5. /\ t \in Seq(Codes) /\ Below(t, base, type)
        /\ ValueTo(t, Len(t), base, type) = q
    <3>1. CASE q = 0
      <4>1. t = <<>> /\ Len(t) = 0
            BY <3>1
      <4> HIDE DEF t
      <4>2. ValueTo(t, 0, base, type) = 0
            BY ValueSteps
      <4>3. \A i \in 1 .. 0 : FALSE
            OBVIOUS
      <4> QED BY <3>1, <4>1, <4>2, <4>3 DEF Below
    <3>2. CASE q # 0
      <4>1. q \notin P
            BY <2>1, <2>2, <3>2
      <4>2. IsNumberText(InBase(q, type), q, base, type)
            BY <2>2, <4>1
      <4>3. t = InBase(q, type)
            BY <3>2
      <4> QED BY <4>2, <4>3 DEF IsNumberText
    <3> QED BY <3>1, <3>2
  <2> HIDE DEF t, c
  <2>6. IsNumberText(t \o <<c>>, ValueTo(t, Len(t), base, type) * base + Letter(c, type), base, type)
        BY <1>1, <2>2, <2>4, <2>5, LastLetter
  <2>7. IsNumberText(InBase(m, type), m, base, type)
        BY <2>2, <2>3, <2>4, <2>5, <2>6
  <2> QED BY <2>1, <2>7
<1> QED BY <1>3 DEF base

\* And so does Decimal.
LEMMA DecimalText ==
    ASSUME NEW type, NEW n \in Nat
    PROVE  IsNumberText(Decimal(n), n, 10, type)
<1> DEFINE P == {m \in Nat : ~IsNumberText(Decimal(m), m, 10, type)}
<1> SUFFICES ASSUME P # {} PROVE FALSE
    OBVIOUS
<1>1. PICK m \in P : \A k \in P : m <= k
      BY Least
<1> DEFINE q == m \div 10
           d == m % 10
           c == Character[d]
           t == IF m < 10 THEN <<>> ELSE Decimal(q)
<1>2. q \in Nat /\ d \in 0 .. 9 /\ m = q * 10 + d /\ (m >= 10 => q < m) /\ (m < 10 => q = 0)
  <2>1. m = 10 * q + d /\ q \in Nat /\ d \in 0 .. 9 /\ (m >= 10 => q < m)
        BY <1>1, LastDigit
  <2> HIDE DEF q, d
  <2> QED BY <1>1, <2>1
<1>3. Decimal(m) \in Seq(Digits) /\ Decimal(q) \in Seq(Digits)
      BY <1>1, <1>2, DecimalIs
<1> HIDE DEF q, d
<1>4. c \in Codes /\ Letter(c, type) = d
  <2>1. c \in Digits /\ DigitValue[c] = d
        BY <1>2, CharacterIs
  <2> HIDE DEF c
  <2> QED BY <2>1 DEF Letter, Codes
<1>5. Decimal(m) = t \o <<c>>
  <2>1. Decimal(m) = IF m < 10 THEN <<Character[m]>> ELSE Append(Decimal(q), c)
        BY <1>1, DecimalSteps DEF q, d
  <2>2. CASE m < 10
    <3>1. d = m
          BY <1>2, <2>2
    <3>2. t = <<>> /\ Decimal(m) = <<c>>
          BY <2>1, <2>2, <3>1
    <3>3. <<>> \o <<c>> = <<c>>
          OBVIOUS
    <3> QED BY <3>2, <3>3
  <2>3. CASE ~(m < 10)
    <3>1. t = Decimal(q) /\ Decimal(m) = Append(t, c)
          BY <2>1, <2>3
    <3>2. t \in Seq(Digits) /\ c \in Digits
          BY <1>2, <1>3, <3>1, CharacterIs
    <3> HIDE DEF t, c
    <3>3. Append(t, c) = t \o <<c>>
          BY <3>2
    <3> QED BY <3>1, <3>3
  <2> QED BY <2>2, <2>3
<1>6. /\ t \in Seq(Codes) /\ Below(t, 10, type)
      /\ ValueTo(t, Len(t), 10, type) = q
  <2>1. CASE m < 10
    <3>1. t = <<>> /\ Len(t) = 0
          BY <2>1
    <3> HIDE DEF t
    <3>2. ValueTo(t, 0, 10, type) = 0
          BY ValueSteps
    <3>3. \A i \in 1 .. 0 : FALSE
          OBVIOUS
    <3> QED BY <1>2, <2>1, <3>1, <3>2, <3>3 DEF Below
  <2>2. CASE ~(m < 10)
    <3>1. q \notin P
          BY <1>1, <1>2, <2>2
    <3>2. IsNumberText(Decimal(q), q, 10, type)
          BY <1>2, <3>1
    <3>3. t = Decimal(q)
          BY <2>2
    <3> QED BY <3>2, <3>3 DEF IsNumberText
  <2> QED BY <2>1, <2>2
<1> HIDE DEF t, c
<1>7. IsNumberText(t \o <<c>>, ValueTo(t, Len(t), 10, type) * 10 + Letter(c, type), 10, type)
  <2>1. Letter(c, type) \in 0 .. 10 - 1 /\ 10 \in Nat
        BY <1>2, <1>4
  <2> QED BY <1>4, <1>6, <2>1, LastLetter
<1>8. IsNumberText(Decimal(m), m, 10, type)
      BY <1>2, <1>4, <1>5, <1>6, <1>7
<1> QED BY <1>1, <1>8

-----------------------------------------------------------------------------
(* The text of an integer.                                                 *)

\* The text of an integer: its sign, its base, z zeros and its digits.
SignOf(spec, n) == IF n < 0 THEN <<"-">> ELSE IF spec.sign = "+" THEN <<"+">> ELSE <<>>
HeadOf(spec) ==
    IF "Type" \in spec.mode THEN <<"0", IF spec.type = "X" THEN "x" ELSE spec.type>> ELSE <<>>
DigitsOf(spec, n) ==
    IF "Type" \in spec.mode THEN InBase(Magnitude(n), spec.type) ELSE Decimal(Magnitude(n))
Printed(spec, n, z) == SignOf(spec, n) \o (HeadOf(spec) \o (Repeat(z, "0") \o DigitsOf(spec, n)))
Marks == Codes \cup {"+", "-", "x", "X", "b", "o"}
Drawn(u, spec) == u \in Seq(Marks \cup {spec.fill})
TypeNamed(spec) == "Type" \in spec.mode => spec.type \in Types

\* What the parts are.
LEMMA WholeParts ==
    ASSUME NEW spec, TypeNamed(spec), NEW n \in Int, NEW z \in Nat
    PROVE  LET a == SignOf(spec, n)
               h == HeadOf(spec)
               r == Repeat(z, "0") \o DigitsOf(spec, n)
               base == IF "Type" \in spec.mode THEN BaseOf(spec.type) ELSE 10
           IN  /\ a \in Seq(Marks) /\ h \in Seq(Marks) /\ r \in Seq(Codes)
               /\ DigitsOf(spec, n) \in Seq(Codes) /\ Len(DigitsOf(spec, n)) \in Nat \ {0}
               /\ Len(a) = IF n < 0 \/ spec.sign = "+" THEN 1 ELSE 0
               /\ Len(h) = IF "Type" \in spec.mode THEN 2 ELSE 0
               /\ Len(r) = z + Len(DigitsOf(spec, n))
               /\ IsNumberText(r, Magnitude(n), base, spec.type)
<1> DEFINE d == DigitsOf(spec, n)
           m == Magnitude(n)
           base == IF "Type" \in spec.mode THEN BaseOf(spec.type) ELSE 10
           a == SignOf(spec, n)
           h == HeadOf(spec)
           zs == Repeat(z, "0")
           r == zs \o d
<1>1. m \in Nat
      BY DEF Magnitude
<1>2. base \in Nat /\ base >= 2
      BY BaseIs DEF Bases, TypeNamed
<1>3. IsNumberText(d, m, base, spec.type)
  <2> HIDE DEF m
  <2>1. CASE "Type" \in spec.mode
        BY <1>1, <2>1, InBaseIs DEF TypeNamed, DigitsOf, m
  <2>2. CASE "Type" \notin spec.mode
        BY <1>1, <2>2, DecimalText DEF DigitsOf, m
  <2> QED BY <2>1, <2>2
<1>4. a \in Seq(Marks) /\ Len(a) = IF n < 0 \/ spec.sign = "+" THEN 1 ELSE 0
  <2>1. CASE n < 0
        BY <2>1 DEF SignOf, Marks
  <2>2. CASE ~(n < 0) /\ spec.sign = "+"
        BY <2>2 DEF SignOf, Marks
  <2>3. CASE ~(n < 0) /\ spec.sign # "+"
        BY <2>3 DEF SignOf
  <2> QED BY <2>1, <2>2, <2>3
<1>5. h \in Seq(Marks) /\ Len(h) = IF "Type" \in spec.mode THEN 2 ELSE 0
  <2>1. CASE "Type" \in spec.mode
    <3> DEFINE c == IF spec.type = "X" THEN "x" ELSE spec.type
    <3>1. c \in Marks /\ "0" \in Marks /\ h = <<"0", c>>
          BY <2>1 DEF HeadOf, TypeNamed, Types, Marks, Codes, Digits
    <3> HIDE DEF c, h
    <3> QED BY <2>1, <3>1
  <2>2. CASE "Type" \notin spec.mode
        BY <2>2 DEF HeadOf
  <2> QED BY <2>1, <2>2
<1> HIDE DEF base, m, d, a, h
<1>6. d \in Seq(Codes) /\ Len(d) \in Nat \ {0}
      BY <1>3 DEF IsNumberText
<1>7. zs \in Seq(Codes) /\ Len(zs) = z /\ \A i \in 1 .. z : zs[i] = "0"
      BY DEF Repeat, Codes, Digits
<1> HIDE DEF zs
<1>8. /\ r \in Seq(Codes) /\ Len(r) = z + Len(d)
      /\ \A i \in 1 .. z : r[i] = "0"
      /\ \A i \in 1 .. Len(d) : r[z + i] = d[i]
      BY <1>6, <1>7
<1> HIDE DEF r
<1>9. IsNumberText(r, m, base, spec.type)
  <2>1. ZerosBefore(r, z, d, Len(d))
        BY <1>8 DEF ZerosBefore
  <2>2. /\ \A i \in 1 .. Len(d) : Letter(d[i], spec.type) \in 0 .. base - 1
        /\ ValueTo(d, Len(d), base, spec.type) = m
        BY <1>3 DEF IsNumberText, Below
  <2>3. ValueTo(r, z + Len(d), base, spec.type) = m
    <3> DEFINE l == Len(d)
               ty == spec.type
    <3>1. Lettered(d, l, ty) /\ l \in Nat /\ ZerosBefore(r, z, d, l)
          BY <1>6, <2>1, <2>2 DEF Lettered
    <3> HIDE DEF l, ty
    <3>2. ValueTo(r, z + l, base, ty) = ValueTo(d, l, base, ty)
          BY <1>2, <3>1, ZerosAdd
    <3> QED BY <2>2, <3>2 DEF l, ty
  <2>4. Letter("0", spec.type) = 0
        BY DEF Letter, Digits, DigitValue
  <2>5. \A i \in 1 .. Len(r) : Letter(r[i], spec.type) \in 0 .. base - 1
    <3> TAKE i \in 1 .. Len(r)
    <3>1. CASE i <= z
          BY <1>2, <1>8, <2>4, <3>1
    <3>2. CASE ~(i <= z)
      <4>1. i - z \in 1 .. Len(d) /\ z + (i - z) = i
            BY <1>6, <1>8, <3>2
      <4>2. r[i] = d[i - z]
            BY <1>8, <4>1
      <4> QED BY <2>2, <4>1, <4>2
    <3> QED BY <3>1, <3>2
  <2> QED BY <1>6, <1>8, <2>3, <2>5 DEF IsNumberText, Below
<1> QED BY <1>4, <1>5, <1>6, <1>8, <1>9 DEF base, m, d, a, h, r, zs

\* NumberIn is ValueTo.
LEMMA NumberInIs ==
    ASSUME NEW s, NEW base, NEW type
    PROVE  NumberIn(s, base, type) = ValueTo(s, Len(s), base, type)
BY DEF NumberIn, ValueTo, Valued

\* Two sequences in one, cut again.
LEMMA PartsOf ==
    ASSUME NEW S, NEW a \in Seq(S), NEW b \in Seq(S)
    PROVE  /\ SubSeq(a \o b, Len(a) + 1, Len(a \o b)) = b
           /\ SubSeq(a \o b, 1, Len(a)) = a
<1> DEFINE w == a \o b
           m == Len(a)
           n == Len(b)
           x == SubSeq(w, m + 1, Len(w))
           y == SubSeq(w, 1, m)
<1>1. /\ w \in Seq(S) /\ Len(w) = m + n /\ n \in Nat /\ m \in Nat
      /\ \A i \in 1 .. m : w[i] = a[i]
      /\ \A i \in 1 .. n : w[m + i] = b[i]
      OBVIOUS
<1> HIDE DEF w, m
<1>2. x \in Seq(S) /\ Len(x) = n /\ \A i \in 1 .. n : x[i] = w[m + i]
      BY <1>1
<1>3. y \in Seq(S) /\ Len(y) = m /\ \A i \in 1 .. m : y[i] = w[i]
      BY <1>1
<1> HIDE DEF x, y
<1>4. x = b
      BY <1>1, <1>2, SMTT(30)
<1>5. y = a
      BY <1>1, <1>3 DEF m
<1> QED BY <1>4, <1>5 DEF x, y, w, m

\* The tail of a sequence with one thing more before it.
LEMMA Behead ==
    ASSUME NEW S, NEW c \in S, NEW b \in Seq(S)
    PROVE  Tail(<<c>> \o b) = b /\ (<<c>> \o b)[1] = c
OBVIOUS

\* Nothing before a sequence.
LEMMA NoneBefore ==
    ASSUME NEW S, NEW a \in Seq(S), NEW b \in Seq(S), Len(a) = 0
    PROVE  a \o b = b
OBVIOUS

\* That text shows the integer.
LEMMA ShowsIs ==
    ASSUME NEW spec, TypeNamed(spec), NEW n \in Int, NEW z \in Nat
    PROVE  /\ ShowsInteger(Printed(spec, n, z), spec, n)
           /\ Printed(spec, n, z) \in Seq(Marks)
           /\ Len(Printed(spec, n, z)) =
                 ((IF n < 0 \/ spec.sign = "+" THEN 1 ELSE 0)
                  + (IF "Type" \in spec.mode THEN 2 ELSE 0)) + (z + Len(DigitsOf(spec, n)))
           /\ Len(DigitsOf(spec, n)) \in Nat \ {0}
<1> DEFINE a == SignOf(spec, n)
           h == HeadOf(spec)
           r == Repeat(z, "0") \o DigitsOf(spec, n)
           base == IF "Type" \in spec.mode THEN BaseOf(spec.type) ELSE 10
           l == Len(DigitsOf(spec, n))
           s == a \o (h \o r)
           signed == s # <<>> /\ s[1] \in {"+", "-"}
           t == IF signed THEN Tail(s) ELSE s
           typed == "Type" \in spec.mode
           digits == IF typed THEN SubSeq(t, 3, Len(t)) ELSE t
<1>1. /\ a \in Seq(Marks) /\ h \in Seq(Marks) /\ r \in Seq(Codes) /\ l \in Nat \ {0}
      /\ Len(a) = IF n < 0 \/ spec.sign = "+" THEN 1 ELSE 0
      /\ Len(h) = IF typed THEN 2 ELSE 0
      /\ Len(r) = z + l
      /\ IsNumberText(r, Magnitude(n), base, spec.type)
      BY WholeParts
<1>2. typed => h = <<"0", IF spec.type = "X" THEN "x" ELSE spec.type>>
      BY DEF HeadOf
<1>3. (n < 0 => a = <<"-">>) /\ (~(n < 0) /\ spec.sign = "+" => a = <<"+">>)
      BY DEF SignOf
<1>4. r \in Seq(Marks)
  <2>1. Codes \subseteq Marks
        BY DEF Marks
  <2> HIDE DEF r
  <2> QED BY <1>1, <2>1
<1>a. r[1] \notin {"+", "-"}
  <2>1. r[1] \in Codes
        BY <1>1
  <2> HIDE DEF r
  <2> QED BY <2>1 DEF Codes, Digits
<1> HIDE DEF a, h, r, l, base
<1> DEFINE w == h \o r
<1>5. w \in Seq(Marks) /\ w[1] \notin {"+", "-"} /\ Len(w) \in Nat \ {0} /\ Len(w) = Len(h) + Len(r)
  <2>1. /\ w \in Seq(Marks) /\ Len(w) = Len(h) + Len(r) /\ \A i \in 1 .. Len(h) : w[i] = h[i]
        /\ \A i \in 1 .. Len(r) : w[Len(h) + i] = r[i]
    <3>1. h \in Seq(Marks) /\ r \in Seq(Marks)
          BY <1>1, <1>4
    <3> QED BY <3>1, JoinIs
  <2> HIDE DEF w
  <2>2. Len(h) \in Nat /\ Len(r) \in Nat \ {0}
        BY <1>1
  <2>3. CASE typed
    <3>1. w[1] = h[1] /\ h[1] = "0"
          BY <1>1, <1>2, <2>1, <2>3
    <3> QED BY <2>1, <2>2, <3>1
  <2>4. CASE ~typed
    <3>1. Len(h) + 1 = 1 /\ 1 \in 1 .. Len(r)
          BY <1>1, <2>2, <2>4
    <3>2. w[1] = r[1]
          BY <2>1, <3>1
    <3> QED BY <1>a, <2>1, <2>2, <3>2
  <2> QED BY <2>3, <2>4
<1>b. /\ typed => SubSeq(w, 3, Len(w)) = r /\ SubSeq(w, 1, 2) = h
      /\ ~typed => w = r
  <2>1. CASE typed
    <3>1. SubSeq(w, Len(h) + 1, Len(w)) = r /\ SubSeq(w, 1, Len(h)) = h
          BY <1>1, <1>4, PartsOf
    <3> HIDE DEF w
    <3>2. Len(h) = 2 /\ Len(h) + 1 = 3
          BY <1>1, <2>1
    <3> QED BY <2>1, <3>1, <3>2
  <2>2. CASE ~typed
        BY <1>1, <1>4, <2>2, NoneBefore
  <2> QED BY <2>1, <2>2
<1> HIDE DEF w
<1>6. /\ s \in Seq(Marks) /\ Len(s) = Len(a) + (Len(h) + Len(r)) /\ s # <<>>
      /\ signed <=> n < 0 \/ spec.sign = "+"
      /\ signed => (s[1] = "-" <=> n < 0)
      /\ t = w
  <2>0. s = a \o w
        BY DEF w
  <2>1. s \in Seq(Marks) /\ Len(s) = Len(a) + (Len(h) + Len(r)) /\ s # <<>>
    <3>1. a \o w \in Seq(Marks) /\ Len(a \o w) = Len(a) + Len(w)
      <4>1. a \in Seq(Marks) /\ w \in Seq(Marks)
            BY <1>1, <1>5
      <4> QED BY <4>1, JoinIs
    <3> HIDE DEF s
    <3>2. Len(s) # 0
          BY <1>1, <1>5, <2>0, <3>1
    <3> QED BY <1>5, <2>0, <3>1, <3>2
  <2> HIDE DEF s
  <2>2. CASE n < 0 \/ spec.sign = "+"
    <3> DEFINE c == IF n < 0 THEN "-" ELSE "+"
    <3>1. a = <<c>> /\ c \in {"+", "-"} /\ (c = "-" <=> n < 0)
          BY <1>3, <2>2
    <3> HIDE DEF c
    <3>2. s[1] = c /\ Tail(s) = w
      <4>1. c \in Marks
            BY <3>1 DEF Marks
      <4> QED BY <1>5, <2>0, <3>1, <4>1, Behead
    <3> QED BY <2>1, <2>2, <3>1, <3>2
  <2>3. CASE ~(n < 0 \/ spec.sign = "+")
    <3>1. s = w
          BY <1>1, <1>5, <2>0, <2>3, NoneBefore
    <3> QED BY <1>5, <2>1, <2>3, <3>1
  <2> QED BY <2>2, <2>3
<1>7. digits = r /\ (typed => SubSeq(t, 1, 2) = h)
  <2> HIDE DEF t
  <2> QED BY <1>b, <1>6
<1>8. /\ r # <<>>
      /\ \A k \in DOMAIN r : Letter(r[k], spec.type) < base
      /\ NumberIn(r, base, spec.type) = Magnitude(n)
  <2>1. r # <<>> /\ DOMAIN r = 1 .. Len(r)
        BY <1>1
  <2>2. /\ \A k \in 1 .. Len(r) : Letter(r[k], spec.type) \in 0 .. base - 1
        /\ ValueTo(r, Len(r), base, spec.type) = Magnitude(n)
        BY <1>1 DEF IsNumberText, Below
  <2>3. base \in Nat
        BY BaseIs DEF base, Bases, TypeNamed
  <2> QED BY <2>1, <2>2, <2>3, NumberInIs
<1> HIDE DEF s, t, digits, signed
<1>9. ShowsInteger(s, spec, n)
  <2>1. typed => SubSeq(t, 1, 2) = <<"0", IF spec.type = "X" THEN "x" ELSE spec.type>>
        BY <1>2, <1>7
  <2>2. digits # <<>> /\ (\A k \in DOMAIN digits : Letter(digits[k], spec.type) < base)
        /\ NumberIn(digits, base, spec.type) = Magnitude(n)
        BY <1>7, <1>8
  <2>3. (signed <=> n < 0 \/ spec.sign = "+") /\ (signed => (s[1] = "-" <=> n < 0))
        BY <1>6
  <2> QED BY <2>1, <2>2, <2>3, Zenon DEF ShowsInteger, digits, t, signed, base
<1>10. Printed(spec, n, z) = s
       BY DEF Printed, s, a, h, r
<1>11. /\ Len(s) = ((IF n < 0 \/ spec.sign = "+" THEN 1 ELSE 0)
                   + (IF typed THEN 2 ELSE 0)) + (z + l)
       /\ s \in Seq(Marks) /\ l \in Nat \ {0}
  <2>1. Len(s) = Len(a) + (Len(h) + (z + l))
        BY <1>1, <1>6
  <2> QED BY <1>1, <1>6, <2>1
<1> QED BY <1>9, <1>10, <1>11 DEF l

\* Three sequences in one.
LEMMA Associates ==
    ASSUME NEW S, NEW a \in Seq(S), NEW b \in Seq(S), NEW c \in Seq(S)
    PROVE  (a \o b) \o c = a \o (b \o c)
OBVIOUS

\* Two things in one sequence.
LEMMA PairIs ==
    ASSUME NEW S, NEW a \in S, NEW b \in S
    PROVE  <<a>> \o <<b>> = <<a, b>>
<1> DEFINE x == <<a>>
           y == <<b>>
           s == <<a, b>>
<1>1. x \in Seq(S) /\ Len(x) = 1 /\ x[1] = a /\ y \in Seq(S) /\ Len(y) = 1 /\ y[1] = b
      OBVIOUS
<1>2. s \in Seq(S) /\ Len(s) = 2 /\ s[1] = a /\ s[2] = b
      OBVIOUS
<1> HIDE DEF x, y, s
<1>3. /\ x \o y \in Seq(S) /\ Len(x \o y) = Len(x) + Len(y)
      /\ \A i \in 1 .. Len(x) : (x \o y)[i] = x[i]
      /\ \A i \in 1 .. Len(y) : (x \o y)[Len(x) + i] = y[i]
  <2>1. x \in Seq(S) /\ y \in Seq(S)
        BY <1>1
  <2> QED BY <2>1, JoinIs
<1> DEFINE q == x \o y
<1> HIDE DEF q
<1>4. q \in Seq(S) /\ Len(q) = 2 /\ q[1] = a /\ q[2] = b
      BY <1>1, <1>3 DEF q
<1>5. q = s
      BY <1>2, <1>4
<1> QED BY <1>5 DEF q, x, y, s

\* Before the plus sign and the zeros; it ends but for the least integer in another base.
AlwaysEnds(spec, v) == "Type" \in spec.mode => ~IsLeast(v)

LEMMA PlainText ==
    ASSUME NEW spec, TypeNamed(spec), "Precision" \notin spec.mode, NEW v, v.of \in Int
    PROVE  integer_to_string(spec, v) =
               Attempt(AlwaysEnds(spec, v), {Sign(v.of) \o (HeadOf(spec) \o DigitsOf(spec, v.of))})
<1> DEFINE n == v.of
           d == DigitsOf(spec, n)
           h == HeadOf(spec)
           S == Marks
<1>1. d \in Seq(Codes) /\ h \in Seq(S)
  <2>1. 0 \in Nat
        OBVIOUS
  <2> QED BY <2>1, WholeParts
<1>2. d \in Seq(S)
  <2>1. Codes \subseteq S
        BY DEF Marks
  <2> HIDE DEF d, S
  <2> QED BY <1>1, <2>1
<1>3. CASE "Type" \notin spec.mode
  <2>1. integer_to_string(spec, v) = Attempt(TRUE, {Sign(n) \o Decimal(Magnitude(n))})
        BY <1>3 DEF integer_to_string, IntegerText, Texts
  <2>0. AlwaysEnds(spec, v) = TRUE
        BY <1>3 DEF AlwaysEnds
  <2>2. h = <<>> /\ d = Decimal(Magnitude(n))
        BY <1>3 DEF HeadOf, DigitsOf
  <2> HIDE DEF h, d
  <2>3. h \o d = d
    <3>1. Len(h) = 0
          BY <2>2
    <3> QED BY <1>1, <1>2, <3>1, NoneBefore
  <2> QED BY <2>0, <2>1, <2>2, <2>3 DEF h, d
<1>4. CASE "Type" \in spec.mode
  <2> DEFINE c == IF spec.type = "X" THEN "x" ELSE spec.type
             m == IF n < 0 THEN <<"-", "0">> ELSE <<"0">>
             q == Sign(n)
  <2>1. integer_to_string(spec, v) = Attempt(AlwaysEnds(spec, v), {m \o <<c>> \o d})
    <3>1. integer_to_string(spec, v) = Attempt(~IsLeast(v), {m \o <<c>> \o d})
          BY <1>4 DEF integer_to_string, DigitsOf
    <3>2. AlwaysEnds(spec, v) = ~IsLeast(v)
          BY <1>4 DEF AlwaysEnds, IsLeast
    <3> HIDE DEF m, c, d
    <3> QED BY <3>1, <3>2
  <2>2. h = <<"0", c>> /\ c \in S
        BY <1>4 DEF HeadOf, TypeNamed, Types, Marks
  <2>3. q \in Seq(S)
    <3>1. "-" \in S
          BY DEF Marks
    <3> HIDE DEF S
    <3> QED BY <3>1 DEF Sign
  <2>4. m \o <<c>> = q \o h
    <3> HIDE DEF c, h
    <3>1. CASE n < 0
      <4>1. m = <<"-", "0">> /\ q = <<"-">>
            BY <3>1 DEF Sign
      <4>2. <<"-", "0">> \o <<c>> = <<"-">> \o <<"0", c>>
            OBVIOUS
      <4> QED BY <2>2, <4>1, <4>2
    <3>2. CASE ~(n < 0)
      <4>1. m = <<"0">> /\ q = <<>>
            BY <3>2 DEF Sign
      <4>2. <<"0">> \o <<c>> = <<"0", c>>
        <5>1. "0" \in S
              BY DEF Marks, Codes, Digits
        <5> HIDE DEF S
        <5> QED BY <2>2, <5>1, PairIs
      <4>3. <<>> \o h = h
            BY <1>1
      <4> QED BY <2>2, <4>1, <4>2, <4>3
    <3> QED BY <3>1, <3>2
  <2> HIDE DEF h, d, m, q, c, S
  <2>5. (q \o h) \o d = q \o (h \o d)
        BY <1>1, <1>2, <2>3, Associates
  <2>6. m \o <<c>> \o d = q \o (h \o d)
        BY <2>4, <2>5
  <2> QED BY <2>1, <2>6 DEF q, h, d
<1> QED BY <1>3, <1>4

\* With the sign that the specification asks for.
Plus(spec, n, t) == IF spec.sign = "+" /\ ~(n < 0) THEN <<"+">> \o t ELSE t

\* It is the text that is printed without zeros.
LEMMA PlusText ==
    ASSUME NEW spec, TypeNamed(spec), NEW n \in Int
    PROVE  /\ Plus(spec, n, Sign(n) \o (HeadOf(spec) \o DigitsOf(spec, n))) = Printed(spec, n, 0)
           /\ Printed(spec, n, 0) = (SignOf(spec, n) \o HeadOf(spec)) \o DigitsOf(spec, n)
<1> DEFINE a == SignOf(spec, n)
           h == HeadOf(spec)
           d == DigitsOf(spec, n)
           w == h \o d
           zs == Repeat(0, "0")
<1>1. a \in Seq(Marks) /\ h \in Seq(Marks) /\ d \in Seq(Codes)
  <2>1. 0 \in Nat
        OBVIOUS
  <2> QED BY <2>1, WholeParts
<1>2. d \in Seq(Marks)
  <2>1. Codes \subseteq Marks
        BY DEF Marks
  <2> HIDE DEF d
  <2> QED BY <1>1, <2>1
<1>3. zs \o d = d
  <2>1. zs = <<>>
        BY DEF Repeat
  <2>2. <<>> \in Seq(Marks) /\ Len(<<>>) = 0
        OBVIOUS
  <2> HIDE DEF zs, d
  <2> QED BY <1>2, <2>1, <2>2, NoneBefore
<1>4. Printed(spec, n, 0) = a \o w
      BY <1>3 DEF Printed
<1>5. w \in Seq(Marks)
  <2> HIDE DEF h, d
  <2> QED BY <1>1, <1>2, JoinIs
<1>6. a \o w = (a \o h) \o d
  <2> HIDE DEF a, h, d
  <2> QED BY <1>1, <1>2, Associates
<1>7. Plus(spec, n, Sign(n) \o w) = a \o w
  <2> HIDE DEF w
  <2>1. <<>> \o w = w
        BY <1>5
  <2>2. CASE n < 0
        BY <2>2 DEF Plus, SignOf, Sign
  <2>3. CASE ~(n < 0) /\ spec.sign = "+"
        BY <2>1, <2>3 DEF Plus, SignOf, Sign
  <2>4. CASE ~(n < 0) /\ spec.sign # "+"
        BY <2>4 DEF Plus, SignOf, Sign
  <2> QED BY <2>2, <2>3, <2>4
<1>8. Plus(spec, n, Sign(n) \o w) = Printed(spec, n, 0)
  <2> HIDE DEF w
  <2> QED BY <1>4, <1>7
<1>9. Printed(spec, n, 0) = (a \o h) \o d
      BY <1>4, <1>6, Zenon
<1> QED BY <1>8, <1>9

\* With its zeros.
LEMMA PaddedText ==
    ASSUME NEW spec, TypeNamed(spec), NEW v, v.tag \in {I32, I64}, v.of \in Int, NEW width \in Nat
    PROVE  \E z \in Nat : Padded(spec, v, width, Sign(v.of) \o (HeadOf(spec) \o DigitsOf(spec, v.of)))
                              = Printed(spec, v.of, z)
<1> DEFINE n == v.of
           a == SignOf(spec, n)
           h == HeadOf(spec)
           d == DigitsOf(spec, n)
           p == a \o h
           t == Sign(n) \o (h \o d)
           s == p \o d
           z == width - Len(s)
           zs == Repeat(z, "0")
           pos == (IF "Type" \in spec.mode THEN 2 ELSE 0) + (IF spec.sign = "+" \/ n < 0 THEN 1 ELSE 0)
<1>1. Plus(spec, n, t) = s /\ s = Printed(spec, n, 0)
      BY PlusText, Zenon
<1>2. /\ a \in Seq(Marks) /\ h \in Seq(Marks) /\ d \in Seq(Codes) /\ Len(d) \in Nat
      /\ Len(a) = IF n < 0 \/ spec.sign = "+" THEN 1 ELSE 0
      /\ Len(h) = IF "Type" \in spec.mode THEN 2 ELSE 0
  <2>1. 0 \in Nat
        OBVIOUS
  <2> QED BY <2>1, WholeParts
<1>3. d \in Seq(Marks)
  <2>1. Codes \subseteq Marks
        BY DEF Marks
  <2> HIDE DEF d
  <2> QED BY <1>2, <2>1
<1>4. Padded(spec, v, width, t) =
          IF Len(s) >= width THEN s ELSE SubSeq(s, 1, pos) \o zs \o From(s, pos)
  <2> HIDE DEF t, zs, s
  <2>1. IsNegative(v) <=> n < 0
        BY DEF IsNegative
  <2>2. (IF (spec.sign = "+" \/ IsNegative(v)) /\ ~IsNegative(v) THEN <<"+">> \o t ELSE t) = s
        BY <1>1, <2>1 DEF Plus
  <2> QED BY <2>1, <2>2 DEF Padded, zs
<1> HIDE DEF a, h, d, n, t
<1>5. p \in Seq(Marks) /\ Len(p) = pos
  <2>1. p \in Seq(Marks) /\ Len(p) = Len(a) + Len(h)
    <3>1. a \in Seq(Marks) /\ h \in Seq(Marks)
          BY <1>2
    <3> QED BY <3>1, JoinIs
  <2> HIDE DEF p
  <2> QED BY <1>2, <2>1
<1> HIDE DEF p
<1>6. s \in Seq(Marks) /\ Len(s) \in Nat
      BY <1>3, <1>5
<1>7. SubSeq(s, 1, pos) = p /\ From(s, pos) = d
  <2>1. SubSeq(s, Len(p) + 1, Len(s)) = d /\ SubSeq(s, 1, Len(p)) = p
    <3>1. p \in Seq(Marks) /\ d \in Seq(Marks)
          BY <1>3, <1>5
    <3> QED BY <3>1, PartsOf
  <2> HIDE DEF s, pos
  <2> QED BY <1>5, <2>1 DEF From
<1> HIDE DEF s, pos
<1>8. CASE Len(s) >= width
  <2>1. 0 \in Nat
        OBVIOUS
  <2> QED BY <1>1, <1>4, <1>8, <2>1 DEF n, h, d, t
<1>9. CASE ~(Len(s) >= width)
  <2>1. z \in Nat
        BY <1>6, <1>9
  <2>2. zs \in Seq(Marks)
    <3>1. "0" \in Marks
          BY DEF Marks, Codes, Digits
    <3> HIDE DEF z
    <3> QED BY <2>1, <3>1 DEF Repeat
  <2> HIDE DEF z, zs
  <2>3. p \o zs \o d = p \o (zs \o d)
        BY <1>3, <1>5, <2>2, Associates
  <2>4. zs \o d \in Seq(Marks)
        BY <1>3, <2>2, JoinIs
  <2>5. p \o (zs \o d) = a \o (h \o (zs \o d))
    <3> DEFINE x == zs \o d
    <3>1. a \in Seq(Marks) /\ h \in Seq(Marks) /\ x \in Seq(Marks)
          BY <1>2, <2>4
    <3> HIDE DEF x
    <3>2. (a \o h) \o x = a \o (h \o x)
          BY <3>1, Associates
    <3> QED BY <3>2 DEF x, p
  <2>6. Padded(spec, v, width, t) = a \o (h \o (zs \o d))
        BY <1>4, <1>7, <1>9, <2>3, <2>5
  <2>7. Printed(spec, n, z) = a \o (h \o (zs \o d))
        BY DEF Printed, a, h, d, zs
  <2> QED BY <2>1, <2>6, <2>7 DEF n, h, d, t
<1> QED BY <1>8, <1>9

-----------------------------------------------------------------------------
(* What a specification can ask for.                                       *)

\* A count is a number.
LEMMA CountType ==
    ASSUME NEW w, IsSequence(w), IsCount(w)
    PROVE  CountIn(w) \in Nat
<1>1. Len(w) \in Nat /\ DOMAIN w = 1 .. Len(w)
      BY SequenceIs
<1>2. 0 \in Int
      OBVIOUS
<1>3. CASE AreDigits(w)
  <2>1. \A i \in 1 .. Len(w) : w[0 + i] \in Digits
    <3> TAKE i \in 1 .. Len(w)
    <3>1. 0 + i = i
          OBVIOUS
    <3> QED BY <1>1, <1>3, <3>1 DEF AreDigits
  <2>2. ~IsIndirect(w)
    <3>1. w # <<>> => Len(w) \in DOMAIN w
      <4>1. CASE Len(w) = 0
        <5>1. w = [i \in 1 .. 0 |-> w[i]]
              BY <4>1, SequenceIs
        <5>2. w = <<>>
              BY <5>1
        <5> QED BY <5>2
      <4>2. CASE Len(w) # 0
            BY <1>1, <4>2
      <4> QED BY <4>1, <4>2
    <3>2. "$" \notin Digits
          BY DEF Digits
    <3> QED BY <1>3, <3>1, <3>2 DEF IsIndirect, AreDigits
  <2>3. CountIn(w) = Number(w, 0, 0 + Len(w))
    <3>1. 0 + Len(w) = Len(w)
          BY <1>1
    <3> QED BY <2>2, <3>1 DEF CountIn
  <2> QED BY <1>1, <1>2, <2>1, <2>3, NumberType
<1>4. CASE ~AreDigits(w)
  <2> DEFINE t == SubSeq(w, 1, Len(w) - 1)
             m == Len(w) - 1
  <2>1. Len(w) > 0 /\ w[Len(w)] = "$" /\ AreDigits(t)
        BY <1>4 DEF IsCount
  <2>2. DOMAIN t = 1 .. m /\ m \in Nat /\ \A i \in 1 .. m : t[i] = w[i]
    <3>1. m \in Nat /\ m <= Len(w)
          BY <1>1, <2>1
    <3>2. w \in Seq({w[i] : i \in 1 .. Len(w)})
          BY SequenceIs
    <3> QED BY <1>1, <3>1, <3>2
  <2> HIDE DEF t
  <2>3. \A i \in 1 .. m : w[0 + i] \in Digits
    <3> TAKE i \in 1 .. m
    <3>1. 0 + i = i
          OBVIOUS
    <3> QED BY <2>1, <2>2, <3>1 DEF AreDigits
  <2>4. CountIn(w) = Number(w, 0, 0 + m)
    <3>1. IsIndirect(w)
      <4>1. Len(<<>>) = 0
            OBVIOUS
      <4> QED BY <2>1, <4>1 DEF IsIndirect
    <3>2. 0 + m = Len(w) - 1
          BY <1>1
    <3> QED BY <3>1, <3>2 DEF CountIn
  <2> HIDE DEF m
  <2> QED BY <1>2, <2>2, <2>3, <2>4, NumberType
<1> QED BY <1>3, <1>4

\* What a reading takes for the width is a text.
LEMMA WidthRead ==
    ASSUME NEW s, IsSequence(s), NEW x \in Readings(s)
    PROVE  IsSequence(x.width)
<1> DEFINE end == Len(s)
<1>1. end \in Nat
      BY SequenceIs
<1>2. PICK a \in Ends(0, end, 2) : \E b \in Ends(a, end, 1) :
          \E c \in Ends(b, end, 1) : \E d \in Ends(c, end, 1) : \E e \in d .. end :
              \E f \in e .. end :
                  x = Reading(Span(s, 0, a), Span(s, a, b), Span(s, b, c), Span(s, c, d),
                              Span(s, d, e), Span(s, e, f), Span(s, f, end))
      BY <1>1, ReadingsCuts
<1>3. PICK b \in Ends(a, end, 1) : \E c \in Ends(b, end, 1) : \E d \in Ends(c, end, 1) :
          \E e \in d .. end : x.width = Span(s, d, e)
      BY <1>2 DEF Reading
<1>4. PICK c \in Ends(b, end, 1) : \E d \in Ends(c, end, 1) : \E e \in d .. end :
          x.width = Span(s, d, e)
      BY <1>3
<1>5. PICK d \in Ends(c, end, 1) : \E e \in d .. end : x.width = Span(s, d, e)
      BY <1>4
<1>6. d \in Nat
  <2>1. a \in Nat
        BY <1>1, <1>2 DEF Ends
  <2>2. b \in Nat
        BY <1>1, <1>3, <2>1 DEF Ends
  <2>3. c \in Nat
        BY <1>1, <1>4, <2>2 DEF Ends
  <2> QED BY <1>1, <1>5, <2>3 DEF Ends
<1> QED BY <1>5, <1>6, SpanIs

\* What a specification with a meaning can be.
Usable(r) ==
    /\ TypeNamed(r) /\ r.width \in Nat /\ r.align \in {"<", "^", ">"}
    /\ "Padding" \in r.mode \/ "WidthArg" \in r.mode => "Width" \in r.mode

\* A specification that follows the grammar is one.
LEMMA MeaningUsable ==
    ASSUME NEW s, IsSequence(s), NEW x \in Readings(s), WellFormed(x)
    PROVE  Usable(Means(x))
<1> DEFINE r == Means(x)
<1>1. /\ "Width" \in r.mode <=> x.width # <<>>
      /\ "Type" \in r.mode <=> x.type # <<>>
      /\ "Padding" \in r.mode <=> x.padding # <<>>
      /\ "WidthArg" \in r.mode <=> IsIndirect(x.width)
      BY DEF Means
<1>2. /\ r.type = IF x.type # <<>> THEN x.type[1] ELSE "none"
      /\ r.width = CountIn(x.width)
      /\ r.align = IF x.align # <<>> THEN x.align[Len(x.align)] ELSE "<"
      BY Zenon DEF Means
<1> HIDE DEF r
<1>3. r.width \in Nat
      BY <1>2, WidthRead, CountType DEF WellFormed
<1>4. TypeNamed(r)
  <2> SUFFICES ASSUME x.type # <<>> PROVE r.type \in Types
      BY <1>1 DEF TypeNamed
  <2>1. PICK c \in Types : x.type = <<c>>
        BY DEF WellFormed, Types
  <2> QED BY <1>2, <2>1
<1>5. r.align \in {"<", "^", ">"}
      BY <1>2 DEF WellFormed
<1>6. "Padding" \in r.mode \/ "WidthArg" \in r.mode => "Width" \in r.mode
      BY <1>1 DEF WellFormed, IsIndirect
<1> QED BY <1>3, <1>4, <1>5, <1>6 DEF Usable, r

-----------------------------------------------------------------------------
(* The fill of a text.                                                     *)

\* An integer in its fill.
ShownIn(t, spec, n, width) ==
    \E left, right \in 0 .. Len(t) :
        /\ left + right < Len(t)
        /\ ShowsInteger(SubSeq(t, left + 1, Len(t) - right), spec, n)
        /\ \A i \in 1 .. Len(t) : i <= left \/ i > Len(t) - right => t[i] = spec.fill
        /\ left + right > 0 => Len(t) = width
        /\ spec.align = "<" => left = 0
        /\ spec.align = ">" => right = 0
        /\ spec.align = "^" => right - left \in {0, 1}

\* A text between two others.
LEMMA Between ==
    ASSUME NEW S, NEW a \in Seq(S), NEW t \in Seq(S), NEW b \in Seq(S)
    PROVE  LET u == a \o t \o b
           IN  /\ Len(u) = Len(a) + Len(t) + Len(b)
               /\ SubSeq(u, Len(a) + 1, Len(u) - Len(b)) = t
               /\ \A i \in 1 .. Len(u) : /\ i <= Len(a) => u[i] = a[i]
                                         /\ i > Len(u) - Len(b) => u[i] = b[i - (Len(u) - Len(b))]
<1> DEFINE q == a \o t
           u == q \o b
           k == Len(a)
           m == Len(t)
           n == Len(b)
           x == SubSeq(u, k + 1, Len(u) - n)
<1>1. /\ q \in Seq(S) /\ Len(q) = k + m
      /\ \A i \in 1 .. k : q[i] = a[i]
      /\ \A i \in 1 .. m : q[k + i] = t[i]
      BY JoinIs
<1>2. k \in Nat /\ m \in Nat /\ n \in Nat
      OBVIOUS
<1> HIDE DEF q
<1>3. /\ u \in Seq(S) /\ Len(u) = Len(q) + n
      /\ \A i \in 1 .. Len(q) : u[i] = q[i]
      /\ \A i \in 1 .. n : u[Len(q) + i] = b[i]
  <2>1. q \in Seq(S) /\ b \in Seq(S)
        BY <1>1
  <2> QED BY <2>1, JoinIs
<1> HIDE DEF u, k, m, n
<1>4. /\ Len(u) = k + m + n
      /\ \A i \in 1 .. k : u[i] = a[i]
      /\ \A i \in 1 .. m : u[k + i] = t[i]
      /\ \A i \in 1 .. n : u[(k + m) + i] = b[i]
  <2>1. ASSUME NEW i \in 1 .. k PROVE u[i] = a[i]
        BY <1>1, <1>2, <1>3
  <2>2. ASSUME NEW i \in 1 .. m PROVE u[k + i] = t[i]
    <3>1. k + i \in 1 .. Len(q)
          BY <1>1, <1>2
    <3> QED BY <1>1, <1>3, <3>1
  <2>3. ASSUME NEW i \in 1 .. n PROVE u[(k + m) + i] = b[i]
        BY <1>1, <1>3
  <2> QED BY <1>1, <1>2, <1>3, <2>1, <2>2, <2>3
<1>5. x \in Seq(S) /\ Len(x) = m /\ \A i \in 1 .. m : x[i] = u[k + i]
  <2>1. Len(u) - n = k + m
        BY <1>2, <1>4
  <2>2. \A i \in 1 .. m : (k + 1) + i - 1 = k + i
        BY <1>2
  <2> QED BY <1>2, <1>3, <1>4, <2>1, <2>2
<1> HIDE DEF x
<1>6. x = t
      BY <1>4, <1>5 DEF m
<1>7. ASSUME NEW i \in 1 .. Len(u), i > Len(u) - n
      PROVE  u[i] = b[i - (Len(u) - n)]
  <2> DEFINE j == i - (Len(u) - n)
  <2>1. j \in 1 .. n /\ (k + m) + j = i
        BY <1>2, <1>4, <1>7
  <2> QED BY <1>4, <2>1
<1>8. \A i \in 1 .. Len(u) : i <= k => u[i] = a[i]
      BY <1>4
<1> QED BY <1>4, <1>6, <1>7, <1>8 DEF x, u, q, k, m, n

\* A text that is filled up.
LEMMA AlignedIs ==
    ASSUME NEW spec, spec.align \in {"<", "^", ">"}, NEW n, NEW width \in Nat,
           NEW t \in Seq(Marks), Len(t) \in Nat \ {0}, ShowsInteger(t, spec, n)
    PROVE  LET u == Aligned(spec, width, t)
           IN  /\ ShownIn(u, spec, n, width) /\ Len(u) >= width
               /\ Drawn(u, spec)
<1> DEFINE S == Marks \cup {spec.fill}
           rest == IF Len(t) < width THEN width - Len(t) ELSE 0
           left == CASE spec.align = "<" -> 0
                     [] spec.align = "^" -> rest \div 2
                     [] spec.align = ">" -> rest
           right == rest - left
           a == Repeat(left, spec.fill)
           b == Repeat(right, spec.fill)
           u == a \o t \o b
<1>1. Aligned(spec, width, t) = u
      BY DEF Aligned
<1>2. rest \in Nat /\ (rest > 0 => Len(t) + rest = width) /\ Len(t) + rest >= width
      OBVIOUS
<1> HIDE DEF rest
<1>3. /\ left \in Nat /\ right \in Nat /\ left + right = rest
      /\ spec.align = "<" => left = 0
      /\ spec.align = ">" => right = 0
      /\ spec.align = "^" => right - left \in {0, 1}
  <2>1. /\ rest \div 2 \in Nat /\ rest \div 2 <= rest
        /\ rest - rest \div 2 - rest \div 2 \in {0, 1}
        BY <1>2
  <2>2. CASE spec.align = "<"
        BY <1>2, <2>2
  <2>3. CASE spec.align = "^"
    <3>1. left = rest \div 2
          BY <2>3
    <3> QED BY <1>2, <2>1, <2>3, <3>1
  <2>4. CASE spec.align = ">"
    <3>1. left = rest
          BY <2>4
    <3> QED BY <1>2, <2>4, <3>1
  <2> QED BY <2>2, <2>3, <2>4
<1> HIDE DEF left, right
<1>4. /\ a \in Seq(S) /\ Len(a) = left /\ \A i \in 1 .. left : a[i] = spec.fill
      /\ b \in Seq(S) /\ Len(b) = right /\ \A i \in 1 .. right : b[i] = spec.fill
      BY <1>3 DEF Repeat
<1>5. t \in Seq(S)
  <2>1. Marks \subseteq S
        OBVIOUS
  <2> HIDE DEF S
  <2> QED BY <2>1
<1> HIDE DEF S, a, b
<1>6. /\ Len(u) = Len(a) + Len(t) + Len(b)
      /\ SubSeq(u, Len(a) + 1, Len(u) - Len(b)) = t
      /\ \A i \in 1 .. Len(u) : /\ i <= Len(a) => u[i] = a[i]
                                /\ i > Len(u) - Len(b) => u[i] = b[i - (Len(u) - Len(b))]
  <2>1. a \in Seq(S) /\ t \in Seq(S) /\ b \in Seq(S)
        BY <1>4, <1>5
  <2> QED BY <2>1, Between
<1>7. u \in Seq(S)
      BY <1>4, <1>5
<1> HIDE DEF u
<1>8. /\ left \in 0 .. Len(u) /\ right \in 0 .. Len(u) /\ left + right < Len(u)
      /\ SubSeq(u, left + 1, Len(u) - right) = t
      /\ Len(u) = Len(t) + rest /\ Len(u) \in Nat
  <2>1. Len(u) = left + Len(t) + right /\ SubSeq(u, left + 1, Len(u) - right) = t
        BY <1>4, <1>6
  <2> DEFINE k == Len(u)
             m == Len(t)
  <2>2. m \in Nat \ {0} /\ k = left + m + right
        BY <2>1
  <2> HIDE DEF k, m
  <2>3. left \in 0 .. k /\ right \in 0 .. k /\ left + right < k /\ k = m + rest /\ k \in Nat
        BY <1>3, <2>2
  <2> QED BY <2>1, <2>3 DEF k, m
<1>9. ASSUME NEW i \in 1 .. Len(u), i <= left \/ i > Len(u) - right PROVE u[i] = spec.fill
  <2>1. CASE i <= left
        BY <1>3, <1>4, <1>6, <2>1
  <2>2. CASE i > Len(u) - right
    <3>1. i - (Len(u) - right) \in 1 .. right
      <4> DEFINE k == Len(u)
      <4>1. k \in Nat /\ i \in 1 .. k /\ right \in Nat /\ i > k - right
            BY <1>3, <1>8, <2>2
      <4> HIDE DEF k
      <4>2. i - (k - right) \in 1 .. right
            BY <4>1
      <4> QED BY <4>2 DEF k
    <3>2. u[i] = b[i - (Len(u) - right)]
          BY <1>4, <1>6, <2>2
    <3> QED BY <1>4, <3>1, <3>2
  <2> QED BY <1>9, <2>1, <2>2
<1>10. left + right > 0 => Len(u) = width
       BY <1>2, <1>3, <1>8
<1>11. ShownIn(u, spec, n, width)
  <2>1. ShowsInteger(SubSeq(u, left + 1, Len(u) - right), spec, n)
        BY <1>8
  <2> QED BY <1>3, <1>8, <1>9, <1>10, <2>1 DEF ShownIn
<1>12. Len(u) >= width
       BY <1>2, <1>8
<1>13. Drawn(u, spec)
       BY <1>7 DEF Drawn, S
<1> QED BY <1>1, <1>11, <1>12, <1>13

\* One that is not.
LEMMA Unfilled ==
    ASSUME NEW spec, NEW n, NEW width, NEW t \in Seq(Marks),
           Len(t) \in Nat \ {0}, ShowsInteger(t, spec, n)
    PROVE  ShownIn(t, spec, n, width)
<1>1. SubSeq(t, 0 + 1, Len(t) - 0) = t
      OBVIOUS
<1>2. 0 \in 0 .. Len(t) /\ 0 + 0 < Len(t) /\ ~(0 + 0 > 0) /\ 0 - 0 \in {0, 1}
      OBVIOUS
<1>3. \A i \in 1 .. Len(t) : ~(i <= 0 \/ i > Len(t) - 0)
      OBVIOUS
<1> QED BY <1>1, <1>2, <1>3 DEF ShownIn

-----------------------------------------------------------------------------
(* What becomes of one integer.                                            *)

\* The specifications and arguments that do not compile, and those whose width is
\* more than there is memory for.
Refused(spec, args) ==
    \/ "Precision" \in spec.mode
    \/ "WidthArg" \in spec.mode /\ spec.width >= Len(args)
TooWide(spec, args) == "Width" \in spec.mode /\ WidthOf(spec, args) \notin 0 .. MaxText

\* A logged integer and its arguments.
Integral(v, args) ==
    /\ v.tag \in {I32, I64} /\ v.of \in Int
    /\ Len(args) \in Nat /\ \A i \in 1 .. Len(args) : args[i].of \in Int

\* It is turned into a text by these steps.
LEMMA PrintSteps ==
    ASSUME NEW spec, NEW v, NEW args, v.tag \in {I32, I64}
    PROVE  as_string(spec, v, args) = Filled(spec, args, Extended(spec, v, args, integer_to_string(spec, v)))
<1>1. v.tag \notin {Txt, "pair", "tuple", "list"}
      BY DEF I32, I64, Txt
<1>2. to_string(spec, v, args) = numeral_to_string(spec, v, args)
      BY <1>1 DEF to_string
<1>3. numeral_to_string(spec, v, args) = Extended(spec, v, args, integer_to_string(spec, v))
      BY DEF numeral_to_string
<1> QED BY <1>2, <1>3 DEF as_string

\* What is refused stays refused.
LEMMA RefusedText ==
    ASSUME NEW spec, Usable(spec), NEW v, NEW args, Integral(v, args), Refused(spec, args)
    PROVE  as_string(spec, v, args) = Rejected
<1> DEFINE i == integer_to_string(spec, v)
           r == Extended(spec, v, args, i)
<1>1. as_string(spec, v, args) = Filled(spec, args, r)
      BY PrintSteps DEF Integral
<1>2. ~i.compiles \/ ~WidthIn(spec, args)
  <2>1. CASE "Precision" \in spec.mode
        BY <2>1 DEF integer_to_string, Rejected
  <2>2. CASE "WidthArg" \in spec.mode /\ spec.width >= Len(args)
        BY <2>2 DEF WidthIn, Usable, Integral
  <2> QED BY <2>1, <2>2 DEF Refused
<1> HIDE DEF i
<1>3. r = Rejected
      BY <1>2 DEF Extended
<1> HIDE DEF r
<1>4. ~r.compiles
      BY <1>3 DEF Rejected
<1> QED BY <1>1, <1>3, <1>4 DEF Filled

\* A width that does not fit never comes to an end.
LEMMA NoText ==
    ASSUME NEW spec, Usable(spec), NEW v, NEW args, Integral(v, args),
           ~Refused(spec, args), TooWide(spec, args)
    PROVE  as_string(spec, v, args) = Endless
<1> DEFINE i == integer_to_string(spec, v)
           r == Extended(spec, v, args, i)
           width == WidthOf(spec, args)
<1>1. as_string(spec, v, args) = Filled(spec, args, r)
      BY PrintSteps DEF Integral
<1>2. i.compiles
  <2>1. TypeNamed(spec) /\ "Precision" \notin spec.mode /\ v.of \in Int
        BY DEF Usable, Refused, Integral
  <2>2. i = Attempt(AlwaysEnds(spec, v), {Sign(v.of) \o (HeadOf(spec) \o DigitsOf(spec, v.of))})
        BY <2>1, PlainText
  <2> HIDE DEF i
  <2> QED BY <2>2 DEF Attempt
<1>3. WidthIn(spec, args)
      BY DEF WidthIn, Refused, Usable, Integral
<1>4. "Width" \in spec.mode /\ width \notin 0 .. MaxText
      BY DEF TooWide
<1> HIDE DEF i, width
<1>5. r.compiles
      BY <1>2, <1>3, Zenon DEF Extended, Attempt, Endless
<1> HIDE DEF r
<1> QED BY <1>1, <1>3, <1>4, <1>5, Zenon DEF Filled, width

\* Else there is one, which shows the integer.
LEMMA OneText ==
    ASSUME NEW spec, Usable(spec), NEW v, NEW args, Integral(v, args),
           ~Refused(spec, args), ~TooWide(spec, args)
    PROVE  \E u : /\ as_string(spec, v, args) = Attempt(AlwaysEnds(spec, v), {u})
                  /\ ShownIn(u, spec, v.of, WidthOf(spec, args))
                  /\ "Width" \in spec.mode => Len(u) >= WidthOf(spec, args)
                  /\ Drawn(u, spec)
<1> DEFINE n == v.of
           width == WidthOf(spec, args)
           t == Sign(n) \o (HeadOf(spec) \o DigitsOf(spec, n))
           i == integer_to_string(spec, v)
           r == Extended(spec, v, args, i)
           ends == AlwaysEnds(spec, v)
<1>1. as_string(spec, v, args) = Filled(spec, args, r)
      BY PrintSteps DEF Integral
<1>2. i = Attempt(ends, {t})
  <2>1. TypeNamed(spec) /\ "Precision" \notin spec.mode /\ v.of \in Int
        BY DEF Usable, Refused, Integral
  <2> QED BY <2>1, PlainText
<1>3. WidthIn(spec, args)
      BY DEF WidthIn, Refused, Usable, Integral
<1>4. "Width" \in spec.mode => width \in 0 .. MaxText /\ width \in Nat
      BY LogAssumption DEF TooWide, LogAssumption
<1>5. "Padding" \in spec.mode => "Width" \in spec.mode
      BY DEF Usable
<1> HIDE DEF width, t, i, ends
<1>6. \E z \in Nat : r = Attempt(ends, {Printed(spec, n, z)})
  <2>1. CASE "Padding" \notin spec.mode
    <3>1. r = Attempt(ends, {Plus(spec, n, t)})
      <4> DEFINE WithSign(x) == IF spec.sign = "+" /\ ~IsNegative(v) /\ ~IsNan(v)
                              THEN <<"+">> \o x ELSE x
      <4>1. r = Attempt(ends, {WithSign(x) : x \in {t}})
            BY <1>2, <1>3, <2>1 DEF Extended, Attempt
      <4>2. IsNegative(v) <=> n < 0
            BY DEF IsNegative, Integral
      <4>3. ~IsNan(v)
            BY DEF IsNan, Integral, I32, I64, F32, F64
      <4>4. WithSign(t) = Plus(spec, n, t)
            BY <4>2, <4>3 DEF Plus
      <4> HIDE DEF WithSign, r
      <4>5. {WithSign(x) : x \in {t}} = {WithSign(t)}
            OBVIOUS
      <4> QED BY <4>1, <4>4, <4>5
    <3>2. Plus(spec, n, t) = Printed(spec, n, 0)
          BY PlusText DEF t, Usable, Integral
    <3>3. 0 \in Nat
          OBVIOUS
    <3> HIDE DEF r, n
    <3> QED BY <3>1, <3>2, <3>3
  <2>2. CASE "Padding" \in spec.mode
    <3>1. width \in 0 .. MaxText /\ width \in Nat
          BY <1>4, <1>5, <2>2
    <3>2. r = Attempt(ends, {Padded(spec, v, width, t)})
      <4>1. r = Attempt(ends, {Padded(spec, v, width, x) : x \in {t}})
            BY <1>2, <1>3, <2>2, <3>1 DEF Extended, Attempt, width
      <4> HIDE DEF r
      <4>2. {Padded(spec, v, width, x) : x \in {t}} = {Padded(spec, v, width, t)}
            OBVIOUS
      <4> QED BY <4>1, <4>2
    <3>3. \E z \in Nat : Padded(spec, v, width, t) = Printed(spec, n, z)
      <4>1. TypeNamed(spec) /\ v.tag \in {I32, I64} /\ v.of \in Int
            BY DEF Usable, Integral
      <4> QED BY <3>1, <4>1, PaddedText DEF t
    <3> HIDE DEF r, n
    <3> QED BY <3>2, <3>3
  <2> QED BY <2>1, <2>2
<1>7. PICK z \in Nat : r = Attempt(ends, {Printed(spec, n, z)})
      BY <1>6
<1> DEFINE p == Printed(spec, n, z)
<1>8. ShowsInteger(p, spec, n) /\ p \in Seq(Marks) /\ Len(p) \in Nat \ {0}
  <2>1. TypeNamed(spec) /\ n \in Int /\ z \in Nat
        BY <1>7 DEF Usable, Integral
  <2>2. /\ ShowsInteger(p, spec, n) /\ p \in Seq(Marks)
        /\ Len(p) = ((IF n < 0 \/ spec.sign = "+" THEN 1 ELSE 0)
                     + (IF "Type" \in spec.mode THEN 2 ELSE 0)) + (z + Len(DigitsOf(spec, n)))
        /\ Len(DigitsOf(spec, n)) \in Nat \ {0}
        BY <2>1, ShowsIs
  <2> HIDE DEF p, n
  <2> QED BY <2>1, <2>2
<1> HIDE DEF p, r
<1>9. CASE "Width" \notin spec.mode
  <2>1. as_string(spec, v, args) = Attempt(ends, {p})
        BY <1>1, <1>7, <1>9 DEF Filled, p
  <2>2. ShownIn(p, spec, n, width)
        BY <1>8, Unfilled
  <2>3. Drawn(p, spec)
    <3>1. Marks \subseteq Marks \cup {spec.fill}
          OBVIOUS
    <3> QED BY <1>8, <3>1 DEF Drawn
  <2> QED BY <1>9, <2>1, <2>2, <2>3 DEF width, ends
<1>10. CASE "Width" \in spec.mode
  <2> DEFINE u == Aligned(spec, width, p)
  <2>1. width \in 0 .. MaxText /\ width \in Nat
        BY <1>4, <1>10
  <2>2. as_string(spec, v, args) = Attempt(ends, {u})
    <3>1. Filled(spec, args, r) = Attempt(ends, {Aligned(spec, width, x) : x \in {p}})
          BY <1>3, <1>7, <1>10, <2>1 DEF Filled, Attempt, width, p
    <3>2. {Aligned(spec, width, x) : x \in {p}} = {u}
          OBVIOUS
    <3> QED BY <1>1, <3>1, <3>2
  <2>3. ShownIn(u, spec, n, width) /\ Len(u) >= width /\ Drawn(u, spec)
    <3>1. spec.align \in {"<", "^", ">"}
          BY DEF Usable
    <3>2. width \in Nat
          BY <2>1
    <3> QED BY <1>8, <3>1, <3>2, AlignedIs
  <2> HIDE DEF u
  <2> QED BY <2>2, <2>3 DEF width, ends
<1> QED BY <1>9, <1>10

-----------------------------------------------------------------------------
(* What is logged.                                                         *)

\* What may be logged: an integer, with integers for its widths.
Loggable(l) ==
    /\ IsSequence(l.spec) /\ \A i \in 1 .. Len(l.spec) : l.spec[i] # Close
    /\ l.v.tag \in {I32, I64} /\ l.v.of \in Int
    /\ IsSequence(l.args)
    /\ \A i \in 1 .. Len(l.args) : l.args[i].tag \in {I32, I64} /\ l.args[i].of \in Int

\* The arguments of the pattern.
LEMMA ArgumentsAre ==
    ASSUME NEW l, Loggable(l)
    PROVE  /\ Integral(l.v, <<l.v>> \o l.args) /\ (<<l.v>> \o l.args)[1] = l.v
           /\ Len(<<l.v>> \o l.args) >= 1
<1> DEFINE a == <<l.v>>
           b == l.args
           args == a \o b
           S == {l.v} \cup {b[i] : i \in 1 .. Len(b)}
<1>1. /\ a \in Seq(S) /\ Len(a) = 1 /\ a[1] = l.v
      OBVIOUS
<1>2. b \in Seq(S) /\ Len(b) \in Nat
  <2>1. b \in Seq({b[i] : i \in 1 .. Len(b)})
        BY DEF Loggable, IsSequence
  <2>2. {b[i] : i \in 1 .. Len(b)} \subseteq S
        OBVIOUS
  <2> DEFINE T == {b[i] : i \in 1 .. Len(b)}
  <2> HIDE DEF S, T, b
  <2> QED BY <2>1, <2>2 DEF T
<1>3. \A x \in S : x.of \in Int
      BY DEF Loggable
<1> HIDE DEF S, a, b
<1>4. /\ args \in Seq(S) /\ Len(args) = Len(a) + Len(b) /\ \A i \in 1 .. Len(a) : args[i] = a[i]
  <2>1. a \in Seq(S) /\ b \in Seq(S)
        BY <1>1, <1>2
  <2> QED BY <2>1, JoinIs
<1> HIDE DEF args
<1>5. Len(args) \in Nat /\ Len(args) >= 1 /\ args[1] = l.v
      BY <1>1, <1>2, <1>4
<1>6. \A i \in 1 .. Len(args) : args[i].of \in Int
      BY <1>3, <1>4
<1> QED BY <1>5, <1>6 DEF Integral, Loggable, args, a, b

\* What is logged of an integer.
LogSays(l, out) ==
    LET args == <<l.v>> \o l.args
        parsed == as_spec(Append(l.spec, "}"), 0, Len(l.spec))
        spec == parsed[1]
        width == WidthOf(spec, args)
        messages == out \ {Silence}
    IN  IF parsed = <<>> \/ Refused(spec, args) THEN out = {}
        ELSE IF TooWide(spec, args) THEN out = {Silence}
        ELSE /\ messages # {}
             /\ \A o \in messages :
                   /\ ShownIn(o.msg, spec, l.v.of, width)
                   /\ "Width" \in spec.mode => Len(o.msg) >= width
             /\ Silence \in out => "Type" \in spec.mode /\ IsLeast(l.v)

\* What follows an outcome that compiles.
LEMMA ThenIs ==
    ASSUME NEW x, NEW y, x.compiles = TRUE, y.compiles = TRUE
    PROVE  \E texts : /\ Then(x, y) = Attempt(x.ends /\ y.ends, texts)
                      /\ \A t : t \in texts <=> \E a \in x.texts, b \in y.texts : t = a \o b
<1> DEFINE texts == {a \o b : a \in x.texts, b \in y.texts}
<1>1. Then(x, y) = Attempt(x.ends /\ y.ends, texts)
      BY DEF Then
<1>2. \A t : t \in texts <=> \E a \in x.texts, b \in y.texts : t = a \o b
      OBVIOUS
<1> HIDE DEF texts
<1> QED BY <1>1, <1>2

\* log says this, by the pattern with one placeholder.
LEMMA LoggedIs ==
    ASSUME NEW l, Loggable(l)
    PROVE  LogSays(l, log(Info, Placeholder(l.spec), <<l.v>> \o l.args))
<1> DEFINE s == l.spec
           args == <<l.v>> \o l.args
           p == Placeholder(s)
           parsed == as_spec(Append(s, "}"), 0, Len(s))
           spec == parsed[1]
           x == as_string(spec, l.v, args)
           f == format_impl(p, args)
           out == log(Info, p, args)
           width == WidthOf(spec, args)
<1>1. Integral(l.v, args) /\ args[1] = l.v /\ Len(args) \in Nat /\ Len(args) >= 1
      BY ArgumentsAre DEF Integral
<1>2. IsSequence(s) /\ \A i \in 1 .. Len(s) : s[i] # Close
      BY DEF Loggable
<1> HIDE DEF s, args
<1>3. /\ as_spec(p, 3, Len(s) + 3) = parsed
      /\ parsed = <<>> \/ \E y \in Readings(s) : WellFormed(y) /\ parsed = <<Means(y)>>
      BY <1>2, SpecThere, Zenon
<1>4. f = IF as_spec(p, 3, Len(s) + 3) = <<>> THEN Rejected
          ELSE Then(as_string(as_spec(p, 3, Len(s) + 3)[1], args[1], args), Texts({<<>>}))
      BY <1>1, <1>2, FormatIs, Zenon
<1> HIDE DEF p, parsed
<1>5. f = IF parsed = <<>> THEN Rejected ELSE Then(x, Texts({<<>>}))
      BY <1>1, <1>3, <1>4
<1>6. out = {[level |-> Info, msg |-> t] : t \in f.texts} \cup {m \in {Silence} : ~f.ends}
      BY DEF log
<1>7. parsed # <<>> => Usable(spec)
  <2> SUFFICES ASSUME parsed # <<>> PROVE Usable(spec)
      OBVIOUS
  <2>1. PICK y \in Readings(s) : WellFormed(y) /\ parsed = <<Means(y)>>
        BY <1>3
  <2>2. Usable(Means(y))
        BY <1>2, <2>1, MeaningUsable
  <2>3. spec = Means(y)
        BY <2>1
  <2> HIDE DEF spec
  <2> QED BY <2>2, <2>3
<1> HIDE DEF spec, x, f, out
<1>8. CASE parsed = <<>> \/ Refused(spec, args)
  <2>1. f = Rejected
    <3>1. CASE parsed = <<>>
          BY <1>5, <3>1
    <3>2. CASE parsed # <<>> /\ Refused(spec, args)
      <4>1. x = Rejected
            BY <1>1, <1>7, <3>2, RefusedText DEF x
      <4>2. Then(Rejected, Texts({<<>>})) = Rejected
            BY DEF Then, Rejected
      <4> QED BY <1>5, <3>2, <4>1, <4>2
    <3> QED BY <1>8, <3>1, <3>2
  <2>2. out = {}
        BY <1>6, <2>1 DEF Rejected
  <2> QED BY <1>8, <2>2, Zenon DEF LogSays, s, args, p, parsed, spec, out
<1>9. CASE parsed # <<>> /\ ~Refused(spec, args) /\ TooWide(spec, args)
  <2>1. x = Endless
        BY <1>1, <1>7, <1>9, NoText DEF x
  <2>2. f.texts = {} /\ ~f.ends
    <3> DEFINE e == Texts({<<>>})
               n == Endless
    <3>1. n.compiles = TRUE /\ ~n.ends /\ n.texts = {} /\ e.compiles = TRUE
          BY DEF Texts, Attempt, Endless
    <3>2. f = Then(n, e)
          BY <1>5, <1>9, <2>1
    <3> HIDE DEF e, n
    <3>3. PICK texts : /\ f = Attempt(n.ends /\ e.ends, texts)
                       /\ \A t : t \in texts <=> \E a \in n.texts, b \in e.texts : t = a \o b
          BY <3>1, <3>2, ThenIs
    <3>4. texts = {}
          BY <3>1, <3>3
    <3> QED BY <3>1, <3>3, <3>4 DEF Attempt
  <2>3. out = {Silence}
        BY <1>6, <2>2
  <2> QED BY <1>9, <2>3, Zenon DEF LogSays, s, args, p, parsed, spec, out
<1>10. CASE ~(parsed = <<>> \/ Refused(spec, args)) /\ ~TooWide(spec, args)
  <2>1. PICK u : /\ x = Attempt(AlwaysEnds(spec, l.v), {u})
                 /\ ShownIn(u, spec, l.v.of, width)
                 /\ "Width" \in spec.mode => Len(u) >= width
                 /\ Drawn(u, spec)
        BY <1>1, <1>7, <1>10, OneText DEF x
  <2>2. u \o <<>> = u
        BY <2>1 DEF Drawn
  <2>3. f.texts = {u} /\ f.ends = AlwaysEnds(spec, l.v)
    <3>1. f = Then(x, Texts({<<>>}))
          BY <1>5, <1>10
    <3> DEFINE e == Texts({<<>>})
               ends == AlwaysEnds(spec, l.v)
    <3>2. e.compiles = TRUE /\ e.ends = TRUE /\ e.texts = {<<>>}
          BY DEF Texts, Attempt
    <3>3. ends \in BOOLEAN
          BY DEF AlwaysEnds
    <3> HIDE DEF e, ends
    <3>4. x.compiles = TRUE /\ x.ends = ends /\ x.texts = {u}
          BY <2>1 DEF Attempt, ends
    <3>5. PICK texts : /\ Then(x, e) = Attempt(x.ends /\ e.ends, texts)
                       /\ \A t : t \in texts <=> \E a \in x.texts, b \in e.texts : t = a \o b
          BY <3>2, <3>4, ThenIs
    <3>6. (x.ends /\ e.ends) = ends
          BY <3>2, <3>3, <3>4
    <3>7. texts = {u}
          BY <2>2, <3>2, <3>4, <3>5
    <3> QED BY <3>1, <3>5, <3>6, <3>7 DEF Attempt, e, ends
  <2>4. out = {[level |-> Info, msg |-> u]} \cup {m \in {Silence} : ~AlwaysEnds(spec, l.v)}
        BY <1>6, <2>3
  <2>5. [level |-> Info, msg |-> u] # Silence
        BY DEF Silence, Info
  <2>6. out \ {Silence} = {[level |-> Info, msg |-> u]}
        BY <2>4, <2>5
  <2>7. out \ {Silence} # {} /\ \A o \in out \ {Silence} : o.msg = u
    <3> DEFINE m == [level |-> Info, msg |-> u]
    <3>1. m.msg = u
          OBVIOUS
    <3>2. out \ {Silence} = {m}
          BY <2>6
    <3> HIDE DEF m, out
    <3> QED BY <3>1, <3>2
  <2>8. \A o \in out \ {Silence} :
           /\ ShownIn(o.msg, spec, l.v.of, width)
           /\ "Width" \in spec.mode => Len(o.msg) >= width
        BY <2>1, <2>7
  <2>9. Silence \in out => "Type" \in spec.mode /\ IsLeast(l.v)
        BY <2>4, <2>5 DEF AlwaysEnds
  <2> QED BY <1>10, <2>7, <2>8, <2>9, Zenon DEF LogSays, s, args, p, parsed, spec, out
<1> QED BY <1>8, <1>9, <1>10

\* LogShowsNumber asks for this.
LEMMA LogMeaning ==
    LogShowsNumber <=> (Answered("log") => LogSays(input.logged, output))
BY DEF LogShowsNumber, LogSays, ShownIn, Refused, TooWide, WidthOf, SizeT

\* LogShowsNumber for every integer, specification and argument that is logged.
THEOREM LoggedNumbers == Spec => []LogShowsNumber
<1>1. Init => InputOf
      BY DEF Init, InputOf
<1>2. Init => LogShowsNumber
      BY DEF Init, LogShowsNumber, Answered
<1>3. InputOf /\ LogShowsNumber /\ [Next]_vars => LogShowsNumber'
  <2> SUFFICES ASSUME InputOf, LogShowsNumber, [Next]_vars PROVE LogShowsNumber'
      OBVIOUS
  <2>0. LogShowsNumber' <=> (Answered("log")' => LogSays(input.logged', output'))
        BY DEF LogShowsNumber, LogSays, ShownIn, Refused, TooWide, WidthOf, SizeT
  <2>1. CASE UNCHANGED vars
        BY <2>0, <2>1, LogMeaning DEF Answered, vars
  <2>2. CASE Logs
    <3> DEFINE l == input.logged
    <3>1. /\ input.fn = "log" /\ input' = input
          /\ output' = log(Info, <<"{", "0", ":">> \o l.spec \o <<"}">>, <<l.v>> \o l.args)
          BY <2>2 DEF Logs, Is, Calls
    <3>2. Loggable(l)
      <4>1. l \in Logged
            BY <3>1 DEF InputOf
      <4> HIDE DEF l
      <4>2. /\ IsSequence(l.spec) /\ \A i \in 1 .. Len(l.spec) : l.spec[i] # Close
            /\ l.v.tag \in {I32, I64} /\ IsOf(l.v.tag, l.v.of)
            /\ IsSequence(l.args)
            /\ \A i \in 1 .. Len(l.args) : l.args[i].tag \in {I32, I64} /\ l.args[i].of \in Int
            BY <4>1, ConversionsAssumption, Zenon DEF Close
      <4>3. l.v.of \in Int
        <5>1. l.v.of \in IntRange(Width(l.v.tag))
              BY <4>2, Tags DEF IsOf
        <5> QED BY <5>1 DEF IntRange
      <4> QED BY <4>2, <4>3 DEF Loggable
    <3>3. LogSays(l, log(Info, Placeholder(l.spec), <<l.v>> \o l.args))
      <4> HIDE DEF l
      <4> QED BY <3>2, LoggedIs
    <3>4. LogSays(input.logged', output')
          BY <3>1, <3>3, Zenon DEF Placeholder, Open, Close
    <3> QED BY <2>0, <3>4
  <2>3. CASE \/ Converts \/ ConvertsVector \/ Reads \/ FindsInRow \/ FindsInTable \/ ParsesSpec
             \/ RunsExample
        BY <2>3 DEF LogShowsNumber, Answered, Converts, ConvertsVector, Reads, FindsInRow,
                    FindsInTable, ParsesSpec, RunsExample, Is, Calls
  <2> QED BY <2>1, <2>2, <2>3 DEF Next
<1> QED BY <1>1, <1>2, <1>3, InputStep, PTL DEF Spec
=============================================================================
