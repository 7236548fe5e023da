----------------------------- MODULE GuestValues -----------------------------
(***************************************************************************)
(* One call of a guest program to those functions of the guest library     *)
(* that only compute: conversions (TextConversion), lookups in an answer   *)
(* (GuestViews), log messages (LogFormat), and a run of the example        *)
(* program. The results are compared with definitions written from what    *)
(* the functions are for, without the steps they take.                     *)
(***************************************************************************)
EXTENDS ExampleProgram, LogFormat

CONSTANTS Numbers,     \* values that are made into texts and read back
          Vectors,     \* vectors likewise
          SomeTexts,   \* texts that are read
          Frames,      \* data frames of the storage: [headers |-> ..., columns |-> ...]
          Lookups,     \* keys that are looked up in them
          Specs,       \* specifications of placeholders
          Logged,      \* [spec |-> ..., v |-> ..., args |-> ...]: integers that are logged
          Arguments,   \* of the example program: at most one
          Choices, Nodes, Neighbors   \* options of data frames, answered to it

Scalars == {Bol, I32, I64, F32, F64}

IsSequence(s) == s \in Seq({s[i] : i \in 1 .. Len(s)})
IsDataFrame(df) ==
    /\ df.headers \in Seq(Int)
    /\ IsSequence(df.columns)
    /\ \A i \in 1 .. Len(df.columns) : IsSequence(df.columns[i].data)

\* What a variable of a type holds. A finite float is finite in its text, too.
IsOf(tag, x) ==
    CASE tag = Bol -> x \in BOOLEAN
      [] tag \in {I32, I64} -> x \in IntRange(Width(tag))
      [] tag \in {F32, F64} ->
            \/ x \in {Float(cls, 0) : cls \in {"inf", "-inf", "nan"}}
            \/ /\ x.of \in Int
               /\ x = Float("num", x.of)
               /\ \A t \in Rounded(Magnitude(x.of)) : DecimalsOf(t) <= MaxFloat + 1
      [] tag = Txt -> IsSequence(x)
      [] OTHER -> FALSE

ASSUME ConversionsAssumption ==
    /\ \A v \in Numbers : v = Value(v.tag, v.of) /\ IsOf(v.tag, v.of)
    /\ \A vec \in Vectors :
          /\ vec = Vector(vec.tag, vec.data) /\ vec.tag \in Scalars \cup {Txt}
          /\ \A i \in DOMAIN vec.data : IsOf(vec.tag, vec.data[i])
    /\ \A s \in SomeTexts \cup Specs : IsSequence(s)
    /\ \A l \in Logged :
          /\ IsSequence(l.spec) /\ \A i \in 1 .. Len(l.spec) : l.spec[i] # "}"
          /\ l.v.tag \in {I32, I64} /\ IsOf(l.v.tag, l.v.of)
          /\ IsSequence(l.args)
          /\ \A i \in 1 .. Len(l.args) : l.args[i].tag \in {I32, I64} /\ l.args[i].of \in Int

ASSUME AnswersAssumption ==
    /\ Lookups \subseteq Int
    /\ \A df \in Frames : IsDataFrame(df)
    /\ \A answer \in Choices \cup Nodes \cup Neighbors :
          answer = None \/ (answer = Some(answer[1]) /\ IsDataFrame(answer[1]))

VARIABLES input, output, called

vars == <<input, output, called>>

Init ==
    /\ called = FALSE
    /\ output = {}
    /\ \/ input \in [fn : {"to_txt"}, v : Numbers] \cup [fn : {"to_txt_vector"}, v : Vectors]
       \/ input \in [fn : {"from_txt"}, tag : Scalars, text : SomeTexts]
       \/ input \in [fn : {"row", "table"}, df : Frames, key : Lookups]
       \/ input \in [fn : {"as_spec"}, spec : Specs] \cup [fn : {"log"}, logged : Logged]
       \/ input \in [fn : {"main"}, args : Arguments, choice : Choices, nodes : Nodes,
                     neighbors : Neighbors]

Calls(fn, result) ==
    /\ called' = TRUE
    /\ output' = result
    /\ UNCHANGED input
Is(fn) == ~called /\ input.fn = fn

\* A conversion to a text, and back to the type it came from.
Converts ==
    /\ Is("to_txt")
    /\ Calls("to_txt", UNION {to_value(input.v.tag, t) : t \in to_value(Txt, input.v)})
ConvertsVector ==
    /\ Is("to_txt_vector")
    /\ Calls("to_txt_vector", UNION {to_vector(input.v.tag, t) : t \in to_vector(Txt, input.v)})
Reads ==
    /\ Is("from_txt")
    /\ Calls("from_txt", {from_txt(input.tag, input.text)})
FindsInRow ==
    /\ Is("row")
    /\ Calls("row", {row_view(r, input.key) : r \in row(storage_query_nodes(input.df)[1])})
FindsInTable ==
    /\ Is("table")
    /\ Calls("table", {table_view(t, input.key) : t \in table(dump_to_imports_table(input.df))})

\* A specification between '{0:' and '}'.
ParsesSpec ==
    /\ Is("as_spec")
    /\ Calls("as_spec", {as_spec(Append(input.spec, "}"), 0, Len(input.spec))})
Logs ==
    /\ Is("log")
    /\ LET l == input.logged
       IN  Calls("log", log(Info, <<"{", "0", ":">> \o l.spec \o <<"}">>, <<l.v>> \o l.args))

RunsExample ==
    /\ Is("main")
    /\ LET Answer(df, F(_)) == IF df = None THEN None ELSE F(df[1])
       IN  \E enabled \in {{}, {Info}} :
              Calls("main", main(input.args, enabled,
                                 Answer(input.choice, storage_choice_nodes),
                                 Answer(input.nodes, storage_query_nodes),
                                 Answer(input.neighbors, storage_query_neighbors)))

Next == \/ Converts \/ ConvertsVector \/ Reads \/ FindsInRow \/ FindsInTable
        \/ ParsesSpec \/ Logs \/ RunsExample

Spec == Init /\ [][Next]_vars

-----------------------------------------------------------------------------
(* Properties *)

Answered(fn) == called /\ input.fn = fn

\* Two values of a type that differ by no more than the rounding of one text.
Near(x, y) ==
    /\ x.tag = y.tag
    /\ IF x.tag \in {F32, F64}
       THEN x.of.cls = y.of.cls /\ x.of.of - y.of.of \in -5 .. 5
       ELSE x.of = y.of
IsFalse(x) == x.tag = Bol /\ ~x.of

\* to_txt (conv.hpp 155-172 and 292-346) and back (conv.hpp 15-134) gives the value
\* that was there, in a vector at each place, but for FALSE: its text is "else", which
\* is no boolean, and aborts the guest.
TextRoundTrip ==
    /\ Answered("to_txt") =>
          /\ output # {}
          /\ \A x \in output : IF IsFalse(input.v) THEN x = Abort ELSE Near(x, input.v)
    /\ Answered("to_txt_vector") =>
          LET old == input.v
          IN  /\ output # {}
              /\ \A new \in output :
                    IF \E i \in DOMAIN old.data : IsFalse(Value(old.tag, old.data[i]))
                    THEN new = NoVector
                    ELSE /\ DOMAIN new.data = DOMAIN old.data
                         /\ \A i \in DOMAIN new.data :
                               Near(Value(new.tag, new.data[i]), Value(old.tag, old.data[i]))

\* The numerals a text begins with.
AreDigits(s) == \A i \in DOMAIN s : s[i] \in Digits
Prefixes(s) == {SubSeq(s, 1, n) : n \in 0 .. Len(s)}
Unsigned(s) == IF s # <<>> /\ s[1] = "-" THEN Tail(s) ELSE s
IsInt(s) == Unsigned(s) # <<>> /\ AreDigits(Unsigned(s))
IsExponent(s) ==
    \/ s = <<>>
    \/ /\ Len(s) >= 2
       /\ s[1] \in {"e", "E"}
       /\ LET d == IF s[2] \in {"+", "-"} THEN 3 ELSE 2
          IN  d <= Len(s) /\ AreDigits(SubSeq(s, d, Len(s)))
IsMantissa(s) ==
    \/ s # <<>> /\ AreDigits(s)
    \/ \E i \in DOMAIN s : s[i] = "." /\ Len(s) > 1 /\ AreDigits(SubSeq(s, 1, i - 1))
                           /\ AreDigits(SubSeq(s, i + 1, Len(s)))
IsFloat(s) ==
    \E n \in 1 .. Len(Unsigned(s)) :
        /\ IsMantissa(SubSeq(Unsigned(s), 1, n))
        /\ IsExponent(SubSeq(Unsigned(s), n + 1, Len(Unsigned(s))))
Longest(texts) == CHOOSE s \in texts : \A t \in texts : Len(t) <= Len(s)
Leading(s, Kind(_)) == {t \in Prefixes(s) : Kind(t)}

\* What a numeral stands for.
NanWord == <<"n", "a", "n">>
InfWord == <<"i", "n", "f">>
IntOf(s) == LET n == Number(Unsigned(s), 0, Len(Unsigned(s))) IN IF s[1] = "-" THEN -n ELSE n
FloatOf(s) ==
    LET u == Unsigned(s)
        n == CHOOSE n \in 1 .. Len(u) : IsMantissa(SubSeq(u, 1, n)) /\ IsExponent(SubSeq(u, n + 1, Len(u)))
        points == {i \in 1 .. n : u[i] = "."}
        point == CHOOSE i \in points : TRUE
        digits == IF points = {} THEN SubSeq(u, 1, n)
                  ELSE SubSeq(u, 1, point - 1) \o SubSeq(u, point + 1, n)
        fraction == IF points = {} THEN 0 ELSE n - point
        signed == n < Len(u) /\ u[n + 2] \in {"+", "-"}
        power == SubSeq(u, IF signed THEN n + 3 ELSE n + 2, Len(u))
        size == Number(power, 0, Len(power))
    IN  ToFloat(s[1] = "-", Number(digits, 0, Len(digits)),
                (IF signed /\ u[n + 2] = "-" THEN -size ELSE size) - fraction)

\* Reading a number takes the longest numeral the text begins with, and aborts if
\* there is none or if it is too large for an integer (conv.hpp 41-113). A float reads
\* digits, point and exponent, and else "nan" or "inf" (fast_float.h 605-735,
\* 2888-2974). A boolean is a number or else a word (conv.hpp 15-39).
TextIsRead ==
    Answered("from_txt") =>
        LET s == input.text
            tag == input.tag
            ints == Leading(s, IsInt)
            floats == Leading(s, IsFloat)
            Fits(w) == ints # {} /\ IntOf(Longest(ints)) \in IntRange(w)
            IsWord(words) == \E word \in words : StartsWith(s, word)
            expected ==
              CASE tag \in {I32, I64} ->
                     IF Fits(Width(tag)) THEN Value(tag, IntOf(Longest(ints))) ELSE Abort
                [] tag = Bol ->
                     IF Fits(W64) THEN Value(Bol, IntOf(Longest(ints)) # 0)
                     ELSE IF IsWord({True, UpperTrue}) THEN Value(Bol, TRUE)
                     ELSE IF IsWord({False, UpperFalse}) THEN Value(Bol, FALSE)
                     ELSE Abort
                [] OTHER ->
                     IF floats # {} THEN Value(tag, FloatOf(Longest(floats)))
                     ELSE IF \E word \in {NanWord, InfWord} : StartsWith(Unsigned(s), word)
                     THEN Value(tag, IF StartsWith(Unsigned(s), NanWord) THEN Float("nan", 0)
                                     ELSE Infinite(s[1] = "-"))
                     ELSE Abort
        IN  output = {expected}

\* A key is found in a row and in a table whenever the answer has it, with a value it
\* has there, and only then (utils.rs 3-101, view.hpp 199-252 and 226-313).
KeyIsFound ==
    \A kind \in {"row", "table"} : Answered(kind) =>
        LET df == input.df
            places == {i \in DOMAIN df.headers \cap DOMAIN df.columns : df.headers[i] = input.key}
            Found(i) == IF kind = "table" THEN df.columns[i] ELSE FirstValue(df.columns[i])
        IN  IF places = {} THEN output = {None}
            ELSE output # {} /\ output \subseteq {Some(Found(i)) : i \in places}

\* A specification cut into its parts, at places counted from 0.
Parts(s, cuts) ==
    LET Part(n) == SubSeq(s, cuts[n] + 1, cuts[n + 1])
    IN  [align |-> Part(1), sign |-> Part(2), hash |-> Part(3), padding |-> Part(4),
         width |-> Part(5), precision |-> Part(6), type |-> Part(7)]
IsCount(s) ==   \* a number, or the number of an argument
    \/ AreDigits(s)
    \/ Len(s) > 0 /\ s[Len(s)] = "$" /\ AreDigits(SubSeq(s, 1, Len(s) - 1))
IsIndirect(s) == s # <<>> /\ s[Len(s)] = "$"
CountIn(s) == Number(s, 0, IF IsIndirect(s) THEN Len(s) - 1 ELSE Len(s))
WellFormed(x) ==
    /\ x.align # <<>> => x.align[Len(x.align)] \in {"<", "^", ">"}
    /\ x.sign \in {<<>>, <<"+">>, <<"-">>}
    /\ x.hash \in {<<>>, <<"#">>}
    /\ x.padding \in {<<>>, <<"0">>}
    /\ IsCount(x.width) /\ x.width # <<"$">>
    /\ x.width # <<>> => x.width[1] # "0" \/ x.width = <<"0", "$">>
    /\ x.precision # <<>> => x.precision[1] = "." /\ IsCount(Tail(x.precision))
    /\ x.precision = <<".">> => x.type # <<>>
    /\ x.type \in {<<>>} \cup {<<c>> : c \in {"x", "X", "b", "o"}}
    /\ x.align # <<>> => x.width # <<>> /\ x.padding = <<>>
    /\ x.hash # <<>> => x.type # <<>>
    /\ x.padding # <<>> => x.width # <<>>
Means(x) ==
    [mode |-> {part \in {"Align"} : x.align # <<>>} \cup {part \in {"Sign"} : x.sign # <<>>}
              \cup {part \in {"Padding"} : x.padding # <<>>} \cup {part \in {"Type"} : x.type # <<>>}
              \cup {part \in {"Width"} : x.width # <<>>}
              \cup {part \in {"WidthArg"} : IsIndirect(x.width)}
              \cup {part \in {"Precision"} : x.precision # <<>>}
              \cup {part \in {"PreciArg"} : IsIndirect(x.precision)},
     fill |-> IF Len(x.align) = 2 THEN x.align[1] ELSE " ",
     align |-> IF x.align # <<>> THEN x.align[Len(x.align)] ELSE "<",
     sign |-> IF x.sign # <<>> THEN x.sign[1] ELSE "none",
     type |-> IF x.type # <<>> THEN x.type[1] ELSE "none",
     width |-> CountIn(x.width),
     precision |-> IF x.precision = <<>> THEN 0 ELSE CountIn(Tail(x.precision))]
Readings(s) ==
    LET Longer(cuts, n) ==
            UNION {{Append(c, k) : k \in {m \in c[Len(c)] .. Len(s) : m <= c[Len(c)] + n}} : c \in cuts}
        whole == Longer(Longer(Longer(Longer(Longer(Longer({<<0>>}, 2), 1), 1), 1), Len(s)), Len(s))
    IN  {Parts(s, Append(c, Len(s))) : c \in whole}

\* as_spec (format.hpp 508-640) is a parser of the grammar
\*   [[fill]align][sign][#][0][width or n$][.precision or .n$][type]
\* where an alignment needs a width and excludes zeros, # needs a type, zeros
\* need a width, and the point may stand for .0 before a type: it accepts what
\* the grammar derives, in its only reading, and nothing else, though it goes by
\* one or two characters and the kind of the part before.
SpecIsGrammar ==
    Answered("as_spec") =>
        LET readings == {Means(x) : x \in {y \in Readings(input.spec) : WellFormed(y)}}
        IN  output = IF readings = {} THEN {<<>>} ELSE {<<m>> : m \in readings}

\* The number that digits of a base stand for.
Letter(c, type) ==
    IF c \in Digits THEN DigitValue[c]
    ELSE IF \E d \in 10 .. 15 : c = DigitOf(d, type) THEN CHOOSE d \in 10 .. 15 : c = DigitOf(d, type)
    ELSE 16
NumberIn(digits, base, type) ==
    LET value[k \in 0 .. Len(digits)] ==
            IF k = 0 THEN 0 ELSE value[k - 1] * base + Letter(digits[k], type)
    IN  value[Len(digits)]

\* The integer that a text shows, in the base that the specification names.
ShowsInteger(s, spec, n) ==
    LET signed == s # <<>> /\ s[1] \in {"+", "-"}
        t == IF signed THEN Tail(s) ELSE s
        typed == "Type" \in spec.mode
        head == <<"0", IF spec.type = "X" THEN "x" ELSE spec.type>>
        digits == IF typed THEN SubSeq(t, 3, Len(t)) ELSE t
        base == IF typed THEN BaseOf(spec.type) ELSE 10
    IN  /\ digits # <<>>
        /\ typed => SubSeq(t, 1, 2) = head
        /\ \A k \in DOMAIN digits : Letter(digits[k], spec.type) < base
        /\ NumberIn(digits, base, spec.type) = Magnitude(n)
        /\ signed <=> n < 0 \/ spec.sign = "+"
        /\ signed => (s[1] = "-" <=> n < 0)

\* A logged integer is there whole: its sign, its base and digits that stand for it,
\* zeros only before digits, and fill around it up to the width, on the sides the
\* alignment names (format.hpp 237-304, 361-489). There is no message only when a width,
\* taken from its argument modulo 2^32, is longer than any text the guest has memory for,
\* and perhaps when it is the least integer in another base, whose sign cannot be changed.
LogShowsNumber ==
    Answered("log") =>
        LET l == input.logged
            args == <<l.v>> \o l.args
            parsed == as_spec(Append(l.spec, "}"), 0, Len(l.spec))
            spec == parsed[1]
            width == IF "WidthArg" \in spec.mode THEN args[spec.width + 1].of % 2 ^ W32
                     ELSE spec.width
            refused == \/ "Precision" \in spec.mode
                       \/ "WidthArg" \in spec.mode /\ spec.width >= Len(args)
            messages == output \ {Silence}
            Shows(t) ==
                \E left, right \in 0 .. Len(t) :
                    /\ left + right < Len(t)
                    /\ ShowsInteger(SubSeq(t, left + 1, Len(t) - right), spec, l.v.of)
                    /\ \A i \in 1 .. Len(t) : i <= left \/ i > Len(t) - right => t[i] = spec.fill
                    /\ left + right > 0 => Len(t) = width
                    /\ spec.align = "<" => left = 0
                    /\ spec.align = ">" => right = 0
                    /\ spec.align = "^" => right - left \in {0, 1}
        IN  IF parsed = <<>> \/ refused THEN output = {}
            ELSE IF "Width" \in spec.mode /\ width \notin 0 .. MaxText THEN output = {Silence}
            ELSE /\ messages # {}
                 /\ \A o \in messages :
                       Shows(o.msg) /\ ("Width" \in spec.mode => Len(o.msg) >= width)
                 /\ Silence \in output => "Type" \in spec.mode /\ IsLeast(l.v)

\* The columns of a data frame with a key, and those of them that are good for the
\* example program.
ColumnsOf(df, key, from) ==
    {df.columns[i] : i \in {j \in from .. Len(df.headers) : df.headers[j] = key /\ j <= Len(df.columns)}}
Authors(df, key) == {c \in ColumnsOf(df, key, 1) : c.tag = I64 /\ c.data # <<>>}
Stamps(df) == {c \in ColumnsOf(df, TimeStamp, 2) : c.tag = I64}
FirstColumn(df) == df.columns[1]

\* The answers from which the example program can go on, and those from which it must,
\* whichever of the columns of a name it takes.
Nonempty(option) == option # None /\ Len(option[1].headers) > 0 /\ Len(option[1].columns) > 0
Asked(args) == args = <<>> \/ txt2i32(args[1]) # Abort
Chosen(option) == Nonempty(option) /\ FirstColumn(option[1]).tag = I64
Linked(option) ==
    Nonempty(option) /\ LET dst == FirstColumn(option[1]) IN vector_size(dst) > 0 => dst.tag = I64
AuthorsCertain(option) ==
    /\ option # None
    /\ \A key \in {AuthorId, Label} :
          Authors(option[1], key) # {} /\ Authors(option[1], key) = ColumnsOf(option[1], key, 1)
StampsCertain(option) ==
    Linked(option) /\ Stamps(option[1]) # {} /\ Stamps(option[1]) = ColumnsOf(option[1], TimeStamp, 2)

\* The first n values of a column as the client sees them, and the tables made of them.
As(tag, data, n) == [i \in 1 .. n |-> [kind |-> tag, of |-> data[i]]]
NodeTable(ids) ==
    [node_id |-> As(I64, ids.data, Len(ids.data)),
     dummy |-> As(Bol, [i \in DOMAIN ids.data |-> FALSE], Len(ids.data))]
Narrowed(c) == As(I32, <<Wrap(W32, c.data[1])>>, 1)
AuthorTable(id, label) == [author_id |-> Narrowed(id), label |-> Narrowed(label)]
NeighborTable(dst, stamps) ==
    [target |-> As(I64, dst.data, vector_size(dst)),
     time_stamp |-> As(I64, stamps.data, vector_size(dst))]

Complete(o) ==
    LET dst == FirstColumn(input.neighbors[1])
    IN  /\ Asked(input.args) /\ Chosen(input.choice) /\ input.nodes # None /\ Linked(input.neighbors)
        /\ \E id \in Authors(input.nodes[1], AuthorId), label \in Authors(input.nodes[1], Label),
              stamps \in Stamps(input.neighbors[1]) :
                 /\ vector_size(dst) <= Len(stamps.data)
                 /\ o.tables = <<NodeTable(FirstColumn(input.choice[1])), AuthorTable(id, label),
                                 NeighborTable(dst, stamps)>>

\* The example program returns its three tables, with a row for each node, one for the
\* author and one for each neighbour, every column as long as its table and its values
\* those of the storage, the author's wrapped into 32 bits; or it returns nothing, which
\* it must not do when the storage answers with columns of the names and types that are
\* asked for (a.cpp 14-72). When neighbours have too few time stamps it reads beyond the
\* column (a.cpp 68). Of columns with the same name any may be taken.
ExampleRows ==
    Answered("main") =>
        /\ output # {}
        /\ \A o \in output :
              \/ o.end = "ok" /\ Complete(o)
              \/ /\ o.end = "abort" /\ o.tables = <<>>
                 /\ ~(/\ Asked(input.args) /\ Chosen(input.choice)
                      /\ AuthorsCertain(input.nodes) /\ StampsCertain(input.neighbors))
              \/ /\ o.end = "undefined" /\ o.tables = <<>>
                 /\ LET df == input.neighbors[1]
                    IN  \E stamps \in Stamps(df) : vector_size(FirstColumn(df)) > Len(stamps.data)
=============================================================================
