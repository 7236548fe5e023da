-------------------------- MODULE GuestValues_proofs --------------------------
(***************************************************************************)
(* Proofs about the calls of GuestValues: what a guest finds in an answer  *)
(* of the storage, and what the example program makes of such answers, for *)
(* answers of any size, whatever order std::sort gives to equal names; what *)
(* is read from a text, and what becomes of a value that is made into one  *)
(* and read back, for texts of any length and integers of any width.       *)
(*                                                                         *)
(* The recursive definitions (the binary search, the rows pushed one after *)
(* the other, digits and numbers) are handled by their least               *)
(* counterexample: Least.                                                  *)
(***************************************************************************)
EXTENDS GuestValues, SequenceTheorems, FiniteSetTheorems, TLAPS

-----------------------------------------------------------------------------
(* Numbers.                                                                *)

\* A set of natural numbers that is not empty has a least element.
LEMMA Least ==
    ASSUME NEW P, P \subseteq Nat, P # {}
    PROVE  \E m \in P : \A k \in P : m <= k
<1>1. PICK m \in P : \A k \in P : <<k, m>> \notin OpToRel(<, Nat)
      BY NatLessThanWellFounded, WFMin, Zenon
<1>2. \A k \in P : ~(k < m)
      BY <1>1 DEF OpToRel
<1> QED BY <1>2

-----------------------------------------------------------------------------
(* Looking up a key.                                                       *)

\* One step of the search.
Step(f, span, x, r) ==
    LET half == r.count \div 2
    IN  IF r.count = 0 THEN r.first
        ELSE IF lt_imports(span[r.first + half + 1], x)
             THEN f[[first |-> r.first + half + 1, count |-> r.count - half - 1]]
             ELSE f[[first |-> r.first, count |-> half]]

\* A step goes on in a range of the row that is smaller.
LEMMA Halves ==
    ASSUME NEW span, Len(span) \in Nat, NEW r \in Ranges(span), r.count # 0
    PROVE  LET half == r.count \div 2
               low == [first |-> r.first, count |-> half]
               high == [first |-> r.first + half + 1, count |-> r.count - half - 1]
           IN  /\ half \in 0 .. r.count - 1
               /\ r.first + half + 1 \in 1 .. Len(span)
               /\ low \in Ranges(span) /\ low.count < r.count
               /\ high \in Ranges(span) /\ high.count < r.count
<1> DEFINE half == r.count \div 2
<1>1. r.first \in Nat /\ r.count \in Nat \ {0} /\ r.first + r.count <= Len(span)
      BY DEF Ranges
<1>2. half \in Nat /\ half < r.count
      BY <1>1
<1> HIDE DEF half
<1>3. [first |-> r.first, count |-> half] \in Ranges(span)
      BY <1>1, <1>2 DEF Ranges
<1>4. [first |-> r.first + half + 1, count |-> r.count - half - 1] \in Ranges(span)
      BY <1>1, <1>2 DEF Ranges
<1>5. half \in 0 .. r.count - 1 /\ r.first + half + 1 \in 1 .. Len(span)
      BY <1>1, <1>2
<1>6. half < r.count /\ r.count - half - 1 < r.count
      BY <1>1, <1>2
<1> QED BY <1>3, <1>4, <1>5, <1>6, Zenon DEF half

\* The search is a function that makes such steps.
LEMMA BisectionSteps ==
    ASSUME NEW span, Len(span) \in Nat, NEW x
    PROVE  Bisection(span, x) =
               [r \in Ranges(span) |-> Step(Bisection(span, x), span, x, r)]
<1> DEFINE R == Ranges(span)
           Steps(f, m) == /\ f = [r \in R |-> f[r]]
                          /\ \A r \in R : r.count <= m => f[r] = Step(f, span, x, r)
           Missing == {m \in Nat : ~\E f : Steps(f, m)}
<1>1. \A r \in R : r.count \in Nat /\ r.count <= Len(span)
      BY DEF Ranges
<1>2. Missing = {}
  <2> SUFFICES ASSUME Missing # {} PROVE FALSE
      OBVIOUS
  <2>1. PICK m \in Missing : \A k \in Missing : m <= k
    <3> HIDE DEF Steps
    <3> QED BY Least
  <2>2. m # 0
    <3> DEFINE f == [r \in R |-> r.first]
    <3>1. \A r \in R : r.count <= 0 => f[r] = Step(f, span, x, r)
          BY <1>1 DEF Step
    <3>2. Steps(f, 0)
          BY <3>1
    <3> HIDE DEF Steps
    <3> QED BY <2>1, <3>2
  <2>3. m - 1 \in Nat /\ m - 1 \notin Missing
        BY <2>1, <2>2
  <2>4. PICK f : Steps(f, m - 1)
        BY <2>3
  <2> DEFINE g == [r \in R |-> IF r.count = m THEN Step(f, span, x, r) ELSE f[r]]
  <2>5. ASSUME NEW r \in R, r.count <= m
        PROVE  g[r] = Step(g, span, x, r)
    <3>1. g[r] = Step(f, span, x, r)
          BY <1>1, <2>1, <2>4, <2>5
    <3>2. CASE r.count = 0
          BY <3>1, <3>2 DEF Step
    <3>3. CASE r.count # 0
      <4> DEFINE half == r.count \div 2
                 low == [first |-> r.first, count |-> half]
                 high == [first |-> r.first + half + 1, count |-> r.count - half - 1]
      <4>1. low \in R /\ low.count < m /\ high \in R /\ high.count < m
            BY <1>1, <2>1, <2>5, <3>3, Halves
      <4>2. g[low] = f[low] /\ g[high] = f[high]
            BY <4>1, <2>1
      <4> HIDE DEF g, low, high
      <4> QED BY <3>1, <3>3, <4>2 DEF Step, low, high
    <3> QED BY <3>2, <3>3
  <2>6. Steps(g, m)
        BY <2>5
  <2> HIDE DEF Steps
  <2> QED BY <2>1, <2>6
<1>3. PICK f : Steps(f, Len(span))
      BY <1>2
<1>4. f = [r \in R |-> Step(f, span, x, r)]
      BY <1>1, <1>3
<1> DEFINE Body(g) == [r \in R |-> Step(g, span, x, r)]
<1>5. Bisection(span, x) = CHOOSE g : g = Body(g)
      BY DEF Bisection, Step
<1>6. f = Body(f)
      BY <1>4
<1> HIDE DEF Body
<1>7. Bisection(span, x) = Body(Bisection(span, x))
      BY <1>5, <1>6, Zenon
<1> QED BY <1>7 DEF Body

\* A function of the first n numbers is a sequence of length n.
LEMMA LengthOf ==
    ASSUME NEW n \in Nat, NEW s, s = [i \in 1 .. n |-> s[i]]
    PROVE  Len(s) = n /\ IsSequence(s) /\ DOMAIN s = 1 .. n
<1> DEFINE T == {s[i] : i \in 1 .. n}
<1>1. s \in [1 .. n -> T]
      OBVIOUS
<1>2. s \in Seq(T)
      BY <1>1
<1>3. Len(s) \in Nat /\ DOMAIN s = 1 .. Len(s) /\ DOMAIN s = 1 .. n
      BY <1>1, <1>2
<1>4. Len(s) = n
      BY <1>3
<1>5. {s[i] : i \in 1 .. Len(s)} = T
      BY <1>4
<1> QED BY <1>2, <1>3, <1>4, <1>5 DEF IsSequence

\* A sequence has a length, and is one again when its places are filled anew.
LEMMA SequenceIs ==
    ASSUME NEW s, IsSequence(s)
    PROVE  Len(s) \in Nat /\ DOMAIN s = 1 .. Len(s) /\ s = [i \in 1 .. Len(s) |-> s[i]]
BY DEF IsSequence

\* The keys of a sequence of items or of series, and their order.
Keyed(span) == IsSequence(span) /\ \A i \in 1 .. Len(span) : span[i].key \in Int
InOrder(span) == \A i, j \in 1 .. Len(span) : i < j => span[i].key <= span[j].key

\* In a sorted row the search parts the smaller keys from the others.
LEMMA LowerBoundParts ==
    ASSUME NEW span, Keyed(span), InOrder(span), NEW x, x.key \in Int
    PROVE  /\ LowerBound(span, x) \in 0 .. Len(span)
           /\ \A i \in 1 .. Len(span) : i <= LowerBound(span, x) <=> span[i].key < x.key
<1> DEFINE n == Len(span)
           f == Bisection(span, x)
           Less(i) == span[i].key < x.key
           Holds(r) == (\A i \in 1 .. n : /\ i <= r.first => Less(i)
                                          /\ i > r.first + r.count => ~Less(i))
                       => f[r] \in 0 .. n /\ \A i \in 1 .. n : i <= f[r] <=> Less(i)
           P == {m \in Nat : ~\A r \in Ranges(span) : r.count = m => Holds(r)}
<1>1. n \in Nat /\ \A i \in 1 .. n : span[i].key \in Int
      BY SequenceIs DEF Keyed
<1>2. \A i, j \in 1 .. n : i < j /\ Less(j) => Less(i)
      BY <1>1 DEF InOrder
<1>3. \A r \in Ranges(span) : f[r] = Step(f, span, x, r)
      BY <1>1, BisectionSteps
<1>4. \A r \in Ranges(span) : r.first \in 0 .. n /\ r.count \in 0 .. n /\ r.first + r.count <= n
      BY DEF Ranges
<1> HIDE DEF f
<1>5. P = {}
  <2> SUFFICES ASSUME P # {} PROVE FALSE
      OBVIOUS
  <2>1. PICK m \in P : \A k \in P : m <= k
    <3> HIDE DEF Holds
    <3> QED BY Least
  <2>2. PICK r \in Ranges(span) : r.count = m /\ ~Holds(r)
    <3> HIDE DEF Holds
    <3> QED BY <2>1
  <2>3. CASE m = 0
    <3>1. f[r] = r.first
          BY <1>3, <2>2, <2>3 DEF Step
    <3> QED BY <1>1, <1>4, <2>2, <2>3, <3>1
  <2>4. CASE m # 0
    <3> DEFINE half == r.count \div 2
               low == [first |-> r.first, count |-> half]
               high == [first |-> r.first + half + 1, count |-> r.count - half - 1]
    <3>1. /\ half \in 0 .. r.count - 1
          /\ r.first + half + 1 \in 1 .. n
          /\ low \in Ranges(span) /\ low.count < m
          /\ high \in Ranges(span) /\ high.count < m
          BY <1>1, <2>2, <2>4, Halves
    <3>2. Holds(low) /\ Holds(high)
      <4> HIDE DEF Holds, low, high
      <4>1. low.count \in Nat /\ high.count \in Nat
            BY <1>4, <3>1
      <4>2. low.count \notin P /\ high.count \notin P
            BY <2>1, <3>1, <4>1
      <4> QED BY <3>1, <4>1, <4>2
    <3>3. f[r] = IF Less(r.first + half + 1) THEN f[high] ELSE f[low]
          BY <1>3, <2>2, <2>4 DEF Step, lt_imports
    <3> HIDE DEF half
    <3>4. /\ low.first = r.first /\ low.count = half
          /\ high.first = r.first + half + 1
          /\ high.first + high.count = r.first + r.count
      <4>1. high.count = r.count - half - 1 /\ high.first = r.first + half + 1
            OBVIOUS
      <4>2. r.first \in Int /\ r.count \in Int /\ half \in Int
            BY <1>4, <2>2, <3>1
      <4>3. (r.first + half + 1) + (r.count - half - 1) = r.first + r.count
            BY <4>2
      <4> QED BY <4>1, <4>3
    <3> HIDE DEF low, high, Less
    <3>5. CASE Less(r.first + half + 1)
      <4>1. \A i \in 1 .. n : i <= high.first => Less(i)
            BY <1>1, <1>2, <1>4, <3>1, <3>4, <3>5
      <4> QED BY <1>4, <2>2, <3>2, <3>3, <3>4, <3>5, <4>1
    <3>6. CASE ~Less(r.first + half + 1)
      <4>1. \A i \in 1 .. n : i > low.first + low.count => ~Less(i)
            BY <1>1, <1>2, <1>4, <3>1, <3>4, <3>6
      <4> QED BY <1>4, <2>2, <3>2, <3>3, <3>4, <3>6, <4>1
    <3> QED BY <3>5, <3>6
  <2> QED BY <2>1, <2>3, <2>4
<1> DEFINE all == [first |-> 0, count |-> n]
<1>6. all \in Ranges(span) /\ all.first = 0 /\ all.count = n /\ n \in Nat
      BY <1>1 DEF Ranges
<1>7. Holds(all)
  <2> HIDE DEF Holds, all
  <2> QED BY <1>5, <1>6
<1>8. LowerBound(span, x) = f[all]
      BY DEF LowerBound, f
<1> QED BY <1>1, <1>6, <1>7, <1>8

\* What std::sort makes of a row is in order and has the same items.
LEMMA SortedHas ==
    ASSUME NEW span, Keyed(span), NEW s \in Sorted(span)
    PROVE  /\ Keyed(s) /\ InOrder(s) /\ Len(s) = Len(span)
           /\ \A i \in 1 .. Len(s) : \E j \in 1 .. Len(span) : s[i] = span[j]
           /\ \A j \in 1 .. Len(span) : \E i \in 1 .. Len(s) : s[i] = span[j]
<1> DEFINE n == Len(span)
           D == 1 .. n
<1>1. n \in Nat /\ DOMAIN span = D /\ \A i \in D : span[i].key \in Int
      BY SequenceIs DEF Keyed
<1>2. PICK p \in [D -> D] :
          /\ \A i, j \in D : i # j => p[i] # p[j]
          /\ \A i, j \in D : i < j => ~lt_imports(span[p[j]], span[p[i]])
          /\ s = [i \in D |-> span[p[i]]]
  <2> DEFINE Places == {q \in [DOMAIN span -> DOMAIN span] :
                  /\ \A i, j \in DOMAIN span : i # j => q[i] # q[j]
                  /\ \A i, j \in DOMAIN span : i < j => ~lt_imports(span[q[j]], span[q[i]])}
  <2>1. PICK p \in Places : s = [i \in DOMAIN span |-> span[p[i]]]
        BY Zenon DEF Sorted
  <2> QED BY <1>1, <2>1
<1> HIDE DEF D
<1>3. Len(s) = n /\ IsSequence(s)
  <2>1. s = [i \in 1 .. n |-> s[i]]
        BY <1>2 DEF D
  <2> QED BY <1>1, <2>1, LengthOf
<1>4. \A i \in D : s[i] = span[p[i]] /\ p[i] \in D
      BY <1>2
<1>5. \A j \in D : \E i \in D : p[i] = j
  <2>1. p \in Injection(D, D)
        BY <1>2 DEF Injection, IsInjective
  <2>2. IsFiniteSet(D)
        BY <1>1, FS_Interval DEF D
  <2>3. p \in Surjection(D, D)
        BY <2>1, <2>2, FS_Injection
  <2> QED BY <2>3 DEF Surjection
<1>6. Keyed(s)
      BY <1>1, <1>3, <1>4 DEF Keyed, D
<1>7. InOrder(s)
  <2> SUFFICES ASSUME NEW i \in D, NEW j \in D, i < j PROVE s[i].key <= s[j].key
      BY <1>3 DEF InOrder, D
  <2>1. ~(span[p[j]].key < span[p[i]].key)
        BY <1>2 DEF lt_imports
  <2> QED BY <1>1, <1>4, <2>1
<1> QED BY <1>3, <1>4, <1>5, <1>6, <1>7 DEF D

\* Every row can be sorted: an item's place is the number of those before it.
LEMMA SomeSorted ==
    ASSUME NEW span, Keyed(span)
    PROVE  Sorted(span) # {}
<1> DEFINE n == Len(span)
           D == 1 .. n
           Before(i, j) == \/ span[i].key < span[j].key
                           \/ span[i].key = span[j].key /\ i < j
           Below(i) == {j \in D : Before(j, i)}
           place == [i \in D |-> Cardinality(Below(i)) + 1]
<1>1. n \in Nat /\ DOMAIN span = D /\ \A i \in D : span[i].key \in Int
      BY SequenceIs DEF Keyed
<1>2. IsFiniteSet(D) /\ Cardinality(D) = n
      BY <1>1, FS_Interval
<1>3. \A i, j \in D : i # j => Before(i, j) \/ Before(j, i)
      BY <1>1
<1>4. \A i, j, k \in D : Before(i, j) /\ Before(j, k) => Before(i, k)
      BY <1>1
<1>5. \A i \in D : ~Before(i, i)
      BY <1>1
<1> HIDE DEF Before
<1>6. \A i \in D : place[i] \in D
  <2> SUFFICES ASSUME NEW i \in D PROVE place[i] \in D
      OBVIOUS
  <2>1. Below(i) \subseteq D \ {i}
        BY <1>5
  <2>2. IsFiniteSet(D \ {i}) /\ Cardinality(D \ {i}) = n - 1
        BY <1>2, FS_RemoveElement
  <2>3. Cardinality(Below(i)) \in Nat /\ Cardinality(Below(i)) <= n - 1
        BY <2>1, <2>2, FS_Subset, FS_CardinalityType
  <2> QED BY <1>1, <2>3
<1>7. ASSUME NEW i \in D, NEW j \in D, Before(i, j) PROVE place[i] < place[j]
  <2>1. Below(i) \subseteq Below(j) /\ i \in Below(j) /\ i \notin Below(i)
        BY <1>4, <1>5, <1>7
  <2>2. IsFiniteSet(Below(j))
        BY <1>2, FS_Subset
  <2>3. /\ Cardinality(Below(i)) \in Nat /\ Cardinality(Below(j)) \in Nat
        /\ Cardinality(Below(i)) <= Cardinality(Below(j))
        /\ Cardinality(Below(i)) # Cardinality(Below(j))
        BY <2>1, <2>2, FS_Subset, FS_CardinalityType
  <2> QED BY <2>3
<1> HIDE DEF place
<1>8. \A m \in D : \E i \in D : place[i] = m
  <2>1. place \in [D -> D]
        BY <1>6 DEF place
  <2>2. \A i, j \in D : place[i] = place[j] => i = j
        BY <1>1, <1>3, <1>6, <1>7
  <2>3. place \in Injection(D, D)
        BY <2>1, <2>2 DEF Injection, IsInjective
  <2>4. place \in Surjection(D, D)
        BY <1>2, <2>3, FS_Injection
  <2> QED BY <2>4 DEF Surjection
<1> DEFINE q == [m \in D |-> CHOOSE i \in D : place[i] = m]
<1>9. \A m \in D : q[m] \in D /\ place[q[m]] = m
      BY <1>8
<1>10. q \in [D -> D]
      BY <1>9
<1> HIDE DEF q
<1>11. \A i, j \in D : i # j => q[i] # q[j]
      BY <1>9
<1>12. ASSUME NEW i \in D, NEW j \in D, i < j PROVE ~lt_imports(span[q[j]], span[q[i]])
  <2>1. ~Before(q[j], q[i])
        BY <1>1, <1>7, <1>9, <1>12
  <2> QED BY <2>1 DEF Before, lt_imports
<1> QED BY <1>1, <1>10, <1>11, <1>12 DEF Sorted

\* A key is found in a sorted row if the row has it, with a value it has there.
LEMMA ViewFinds ==
    ASSUME NEW span, Keyed(span), NEW key \in Int, NEW s \in Sorted(span)
    PROVE  /\ table_view(s, key) = row_view(s, key)
           /\ IF \E i \in 1 .. Len(span) : span[i].key = key
              THEN \E i \in 1 .. Len(span) : /\ span[i].key = key
                                             /\ row_view(s, key) = Some(span[i].val)
              ELSE row_view(s, key) = None
<1> DEFINE x == [key |-> key]
           n == Len(span)
           it == LowerBound(s, x)
<1>1. n \in Nat /\ \A i \in 1 .. n : span[i].key \in Int
      BY SequenceIs DEF Keyed
<1>2. /\ Keyed(s) /\ InOrder(s) /\ Len(s) = n
      /\ \A i \in 1 .. n : \E j \in 1 .. n : s[i] = span[j]
      /\ \A j \in 1 .. n : \E i \in 1 .. n : s[i] = span[j]
      BY SortedHas
<1>3. it \in 0 .. n /\ \A i \in 1 .. n : i <= it <=> s[i].key < key
  <2>1. x.key = key
        OBVIOUS
  <2> HIDE DEF x
  <2> QED BY <1>2, <2>1, LowerBoundParts
<1>4. row_view(s, key) = IF it < n /\ s[it + 1].key = key THEN Some(s[it + 1].val) ELSE None
      BY <1>2 DEF row_view, eq_imports
<1>5. table_view(s, key) = IF it < n /\ s[it + 1].key = key THEN Some(s[it + 1].val) ELSE None
      BY <1>2 DEF table_view, eq_imports
<1> HIDE DEF it
<1>6. CASE it < n /\ s[it + 1].key = key
  <2>1. it + 1 \in 1 .. n
        BY <1>1, <1>3, <1>6
  <2>2. PICK j \in 1 .. n : s[it + 1] = span[j]
        BY <1>2, <2>1
  <2> QED BY <1>4, <1>5, <1>6, <2>2
<1>7. CASE ~(it < n /\ s[it + 1].key = key)
  <2>1. ASSUME NEW j \in 1 .. n, span[j].key = key PROVE FALSE
    <3>1. PICK i \in 1 .. n : s[i] = span[j]
          BY <1>2
    <3>2. it < i /\ it + 1 \in 1 .. n /\ it + 1 <= i
          BY <1>1, <1>3, <2>1, <3>1
    <3>3. s[it + 1].key \in Int /\ s[it + 1].key >= key
      <4>1. s[it + 1].key \in Int
            BY <1>2, <3>2 DEF Keyed
      <4>2. ~(it + 1 <= it)
            BY <1>3
      <4>3. ~(s[it + 1].key < key)
            BY <1>3, <3>2, <4>2
      <4> QED BY <4>1, <4>3
    <3>4. s[it + 1].key <= s[i].key
      <4>1. CASE it + 1 = i
            BY <3>3, <4>1
      <4>2. CASE it + 1 < i
            BY <1>2, <3>2, <4>2 DEF InOrder
      <4> QED BY <1>3, <3>2, <4>1, <4>2
    <3> QED BY <1>7, <1>3, <2>1, <3>1, <3>2, <3>3, <3>4
  <2> QED BY <1>4, <1>5, <1>7, <2>1
<1> QED BY <1>6, <1>7

-----------------------------------------------------------------------------
(* Calls.                                                                  *)

\* What is converted and read is what there is, what is looked up is a key in a data
\* frame, and the example has answers.
InputOf ==
    /\ called \in BOOLEAN
    /\ input.fn = "to_txt" => input.v \in Numbers
    /\ input.fn = "to_txt_vector" => input.v \in Vectors
    /\ input.fn = "from_txt" => input.tag \in Scalars /\ input.text \in SomeTexts
    /\ input.fn \in {"row", "table"} => input.df \in Frames /\ input.key \in Lookups
    /\ input.fn = "as_spec" => input.spec \in Specs
    /\ input.fn = "log" => input.logged \in Logged
    /\ input.fn = "main" => /\ input.choice \in Choices
                            /\ input.nodes \in Nodes
                            /\ input.neighbors \in Neighbors

\* The columns of an answer, paired with their names, as a row and as a table.
LEMMA AnswerKeyed ==
    ASSUME NEW df, IsDataFrame(df)
    PROVE  LET places == DOMAIN df.headers \cap DOMAIN df.columns
               r == dump_to_imports_row(df)
               t == dump_to_imports_table(df)
           IN  /\ Keyed(r) /\ Keyed(t) /\ 1 .. Len(r) = places /\ 1 .. Len(t) = places
               /\ \A i \in places : /\ r[i].key = df.headers[i]
                                    /\ r[i].val = FirstValue(df.columns[i])
                                    /\ t[i].key = df.headers[i]
                                    /\ t[i].val = df.columns[i]
<1> DEFINE r == dump_to_imports_row(df)
           t == dump_to_imports_table(df)
           places == DOMAIN df.headers \cap DOMAIN df.columns
<1>1. df.headers \in Seq(Int) /\ IsSequence(df.columns)
      BY DEF IsDataFrame
<1>2. PICK n \in Nat : Pairs(df) = 1 .. n /\ places = 1 .. n
  <2>1. Len(df.columns) \in Nat /\ DOMAIN df.columns = 1 .. Len(df.columns)
        BY <1>1, SequenceIs
  <2> QED BY <1>1, <2>1 DEF Pairs
<1>3. \A i \in places : df.headers[i] \in Int
      BY <1>1
<1>4. r = [i \in 1 .. n |-> r[i]] /\ t = [i \in 1 .. n |-> t[i]]
      BY <1>2 DEF dump_to_imports_row, dump_to_imports_table
<1>5. /\ Len(r) = n /\ IsSequence(r)
      /\ Len(t) = n /\ IsSequence(t)
      BY <1>4, LengthOf
<1>6. \A i \in places : /\ r[i].key = df.headers[i] /\ r[i].val = FirstValue(df.columns[i])
                        /\ t[i].key = df.headers[i] /\ t[i].val = df.columns[i]
      BY <1>2 DEF dump_to_imports_row, dump_to_imports_table
<1> HIDE DEF r, t, places
<1>7. Keyed(r) /\ Keyed(t)
      BY <1>2, <1>3, <1>5, <1>6 DEF Keyed
<1> QED BY <1>2, <1>5, <1>6, <1>7 DEF r, t, places

\* Looking up a key in each of the sorted rows that an answer may become.
LEMMA LookupFinds ==
    ASSUME NEW span, Keyed(span), NEW key \in Int,
           NEW found, \/ found = {row_view(s, key) : s \in Sorted(span)}
                      \/ found = {table_view(s, key) : s \in Sorted(span)}
    PROVE  /\ found # {}
           /\ \A o \in found :
                 IF \E i \in 1 .. Len(span) : span[i].key = key
                 THEN \E i \in 1 .. Len(span) : span[i].key = key /\ o = Some(span[i].val)
                 ELSE o = None
<1>1. Sorted(span) # {}
      BY SomeSorted
<1>2. \A s \in Sorted(span) : table_view(s, key) = row_view(s, key)
      BY ViewFinds
<1>3. found = {row_view(s, key) : s \in Sorted(span)}
      BY <1>2
<1> QED BY <1>1, <1>3, ViewFinds

\* A call leaves its input as it is.
LEMMA InputStep == InputOf /\ [Next]_vars => InputOf'
BY DEF InputOf, Next, vars, Converts, ConvertsVector, Reads, FindsInRow, FindsInTable,
       ParsesSpec, Logs, RunsExample, Calls, Is

\* KeyIsFound for every data frame and key: the guest's binary search (view.hpp
\* 199-252) finds in a row, or in a table, what the storage answered for a key.
THEOREM Lookup == Spec => []KeyIsFound
<1>1. Init => InputOf
      BY DEF Init, InputOf
<1>2. Init => KeyIsFound
      BY DEF Init, KeyIsFound, Answered
<1>3. InputOf /\ KeyIsFound /\ [Next]_vars => KeyIsFound'
  <2> SUFFICES ASSUME InputOf, KeyIsFound, [Next]_vars PROVE KeyIsFound'
      OBVIOUS
  <2>1. CASE UNCHANGED vars
        BY <2>1 DEF KeyIsFound, Answered, vars
  <2>2. CASE FindsInRow
    <3> DEFINE df == input.df
               r == dump_to_imports_row(df)
               places == {i \in DOMAIN df.headers \cap DOMAIN df.columns :
                             df.headers[i] = input.key}
    <3>1. IsDataFrame(df) /\ input.key \in Int
          BY <2>2, AnswersAssumption DEF FindsInRow, Is, InputOf
    <3>2. output' = {row_view(s, input.key) : s \in Sorted(r)} /\ input' = input
          BY <2>2 DEF FindsInRow, Calls, row, storage_query_nodes, Some
    <3>3. /\ Keyed(r) /\ 1 .. Len(r) = DOMAIN df.headers \cap DOMAIN df.columns
          /\ \A i \in 1 .. Len(r) : r[i].key = df.headers[i] /\ r[i].val = FirstValue(df.columns[i])
          BY <3>1, AnswerKeyed, Zenon
    <3> HIDE DEF r
    <3>4. /\ places = {} => output' = {None}
          /\ places # {} => /\ output' # {}
                            /\ output' \subseteq {Some(FirstValue(df.columns[i])) : i \in places}
      <4>1. Keyed(r) /\ input.key \in Int
            BY <3>1, <3>3
      <4>2. /\ output' # {}
            /\ \A o \in output' :
                  IF \E i \in 1 .. Len(r) : r[i].key = input.key
                  THEN \E i \in 1 .. Len(r) : r[i].key = input.key /\ o = Some(r[i].val)
                  ELSE o = None
            BY <3>2, <4>1, LookupFinds
      <4> QED BY <3>3, <4>2
    <3> QED BY <2>2, <3>2, <3>4 DEF KeyIsFound, Answered, FindsInRow, Is
  <2>3. CASE FindsInTable
    <3> DEFINE df == input.df
               t == dump_to_imports_table(df)
               places == {i \in DOMAIN df.headers \cap DOMAIN df.columns :
                             df.headers[i] = input.key}
    <3>1. IsDataFrame(df) /\ input.key \in Int
          BY <2>3, AnswersAssumption DEF FindsInTable, Is, InputOf
    <3>2. output' = {table_view(s, input.key) : s \in Sorted(t)} /\ input' = input
          BY <2>3 DEF FindsInTable, Calls, table
    <3>3. /\ Keyed(t) /\ 1 .. Len(t) = DOMAIN df.headers \cap DOMAIN df.columns
          /\ \A i \in 1 .. Len(t) : t[i].key = df.headers[i] /\ t[i].val = df.columns[i]
          BY <3>1, AnswerKeyed, Zenon
    <3> HIDE DEF t
    <3>4. /\ places = {} => output' = {None}
          /\ places # {} => /\ output' # {}
                            /\ output' \subseteq {Some(df.columns[i]) : i \in places}
      <4>1. Keyed(t) /\ input.key \in Int
            BY <3>1, <3>3
      <4>2. /\ output' # {}
            /\ \A o \in output' :
                  IF \E i \in 1 .. Len(t) : t[i].key = input.key
                  THEN \E i \in 1 .. Len(t) : t[i].key = input.key /\ o = Some(t[i].val)
                  ELSE o = None
            BY <3>2, <4>1, LookupFinds
      <4> QED BY <3>3, <4>2
    <3> QED BY <2>3, <3>2, <3>4 DEF KeyIsFound, Answered, FindsInTable, Is
  <2>4. CASE Converts \/ ConvertsVector \/ Reads \/ ParsesSpec \/ Logs \/ RunsExample
        BY <2>4 DEF KeyIsFound, Answered, Converts, ConvertsVector, Reads, ParsesSpec, Logs,
                    RunsExample, Is, Calls
  <2> QED BY <2>1, <2>2, <2>3, <2>4 DEF Next
<1> QED BY <1>1, <1>2, <1>3, InputStep, PTL DEF Spec

-----------------------------------------------------------------------------
(* The tables of the example program.                                      *)

\* What collecting a row of one or of two items yields.
LEMMA CollectedOne ==
    ASSUME NEW k, NEW v
    PROVE  Worker!Collected(<<[key |-> k, val |-> v]>>) = [j \in {k} |-> v]
<1> DEFINE r == <<[key |-> k, val |-> v]>>
           Last(c) == CHOOSE j \in 1 .. Len(r) :
                          r[j].key = c /\ \A h \in 1 .. Len(r) : r[h].key = c => h <= j
<1>1. Len(r) = 1 /\ r[1].key = k /\ r[1].val = v
      OBVIOUS
<1> HIDE DEF r
<1>2. Worker!NamedIn(r) = {k}
      BY <1>1 DEF Worker!NamedIn
<1>3. Last(k) = 1
      BY <1>1
<1> QED BY <1>1, <1>2, <1>3 DEF Worker!Collected, r

\* The same of two items with different names.
LEMMA CollectedTwo ==
    ASSUME NEW k, NEW v, NEW l, NEW w, k # l
    PROVE  Worker!Collected(<<[key |-> k, val |-> v], [key |-> l, val |-> w]>>)
               = [j \in {k, l} |-> IF j = k THEN v ELSE w]
<1> DEFINE r == <<[key |-> k, val |-> v], [key |-> l, val |-> w]>>
           Last(c) == CHOOSE j \in 1 .. Len(r) :
                          r[j].key = c /\ \A h \in 1 .. Len(r) : r[h].key = c => h <= j
<1>1. /\ Len(r) = 2 /\ r[1].key = k /\ r[1].val = v
      /\ r[2].key = l /\ r[2].val = w
      OBVIOUS
<1> HIDE DEF r
<1>2. Worker!NamedIn(r) = {k, l}
      BY <1>1 DEF Worker!NamedIn
<1>3. Last(k) = 1 /\ Last(l) = 2
      BY <1>1
<1> QED BY <1>1, <1>2, <1>3 DEF Worker!Collected, r

\* The value a row gives to a column, or the column's default; a table after the
\* first n of some rows, and how it is returned.
GivenBy(defa, row0, k) ==
    LET data == Worker!Collected(row0) IN IF k \in DOMAIN data THEN data[k] ELSE defa[k]
TableAfter(defa, rows, n) ==
    [defa |-> defa,
     cols |-> [k \in DOMAIN defa |->
                 [kind |-> defa[k].kind, data |-> [i \in 1 .. n |-> GivenBy(defa, rows[i], k)]]]]
Fitting(defa, rows) ==
    \A k \in DOMAIN defa :
        /\ defa[k].kind # "nil"
        /\ \A i \in 1 .. Len(rows) : GivenBy(defa, rows[i], k).kind = defa[k].kind

\* What an element appended to a sequence makes of it.
LEMMA AppendIs ==
    ASSUME NEW n \in Nat, NEW s, s = [i \in 1 .. n |-> s[i]], NEW v
    PROVE  Append(s, v) = [i \in 1 .. n + 1 |-> IF i = n + 1 THEN v ELSE s[i]]
<1>1. Len(s) = n /\ IsSequence(s)
      BY LengthOf
<1> QED BY <1>1 DEF IsSequence

\* A value of the column's kind goes to its end.
LEMMA PushedIs ==
    ASSUME NEW kind, NEW data, NEW v, v.kind = kind, kind # "nil"
    PROVE  Worker!Pushed([kind |-> kind, data |-> data], v)
           = [kind |-> kind, data |-> Append(data, v)]
<1> DEFINE col == [kind |-> kind, data |-> data]
           new == [col EXCEPT !.data = Append(data, v)]
<1>1. Worker!Pushed(col, v) = new
      BY DEF Worker!Pushed
<1>2. DOMAIN new = {"kind", "data"} /\ new = [k \in DOMAIN new |-> new[k]]
      OBVIOUS
<1>3. new["kind"] = kind /\ new["data"] = Append(data, v)
      OBVIOUS
<1> HIDE DEF new
<1>4. new = [kind |-> kind, data |-> Append(data, v)]
      BY <1>2, <1>3
<1> QED BY <1>1, <1>4

\* A row of the right types fills the next place of every column.
LEMMA PushFills ==
    ASSUME NEW defa, NEW rows, IsSequence(rows), Fitting(defa, rows),
           NEW n \in 0 .. Len(rows) - 1
    PROVE  Pushed(TableAfter(defa, rows, n), rows[n + 1]) = TableAfter(defa, rows, n + 1)
<1> DEFINE frame == TableAfter(defa, rows, n)
           V(i, k) == GivenBy(defa, rows[i], k)
<1>1. n \in Nat /\ n + 1 \in 1 .. Len(rows)
      BY SequenceIs
<1>2. frame.defa = defa /\ DOMAIN frame.cols = DOMAIN defa
      BY DEF TableAfter
<1>3. ASSUME NEW k \in DOMAIN defa
      PROVE  Worker!Pushed(frame.cols[k], V(n + 1, k))
             = [kind |-> defa[k].kind, data |-> [i \in 1 .. n + 1 |-> V(i, k)]]
  <2> DEFINE s == [i \in 1 .. n |-> V(i, k)]
  <2>1. frame.cols[k] = [kind |-> defa[k].kind, data |-> s]
        BY DEF TableAfter
  <2>2. V(n + 1, k).kind = defa[k].kind /\ defa[k].kind # "nil"
        BY <1>1 DEF Fitting
  <2> HIDE DEF V
  <2>3. Append(s, V(n + 1, k)) = [i \in 1 .. n + 1 |-> IF i = n + 1 THEN V(n + 1, k) ELSE s[i]]
        BY <1>1, AppendIs
  <2>4. \A i \in 1 .. n + 1 : (IF i = n + 1 THEN V(n + 1, k) ELSE s[i]) = V(i, k)
        BY <1>1
  <2>5. Append(s, V(n + 1, k)) = [i \in 1 .. n + 1 |-> V(i, k)]
        BY <2>3, <2>4
  <2> HIDE DEF s, frame
  <2>6. Worker!Pushed([kind |-> defa[k].kind, data |-> s], V(n + 1, k))
        = [kind |-> defa[k].kind, data |-> Append(s, V(n + 1, k))]
        BY <2>2, PushedIs
  <2> QED BY <2>1, <2>5, <2>6
<1>4. \A k \in DOMAIN defa : Worker!Given(frame, Worker!Collected(rows[n + 1]), k) = V(n + 1, k)
      BY <1>2 DEF Worker!Given, GivenBy
<1>5. Pushed(frame, rows[n + 1]) =
          [frame EXCEPT !.cols = [k \in DOMAIN defa |-> Worker!Pushed(frame.cols[k], V(n + 1, k))]]
      BY <1>2, <1>4 DEF Pushed
<1>6. [k \in DOMAIN defa |-> Worker!Pushed(frame.cols[k], V(n + 1, k))]
      = [k \in DOMAIN defa |->
           [kind |-> defa[k].kind, data |-> [i \in 1 .. n + 1 |-> V(i, k)]]]
      BY <1>3
<1> QED BY <1>5, <1>6 DEF TableAfter

\* Rows of the right types fill the columns, one place each.
LEMMA PushedAllFills ==
    ASSUME NEW defa, NEW rows, IsSequence(rows), Fitting(defa, rows)
    PROVE  PushedAll(TableAfter(defa, rows, 0), rows) = TableAfter(defa, rows, Len(rows))
<1> DEFINE N == 0 .. Len(rows)
           Body(f) == [n \in N |-> IF n = 0 THEN TableAfter(defa, rows, 0)
                                   ELSE Pushed(f[n - 1], rows[n])]
           g == [n \in N |-> TableAfter(defa, rows, n)]
           f == CHOOSE h : h = Body(h)
<1>1. Len(rows) \in Nat
      BY SequenceIs
<1>2. g = Body(g)
  <2>1. ASSUME NEW n \in N, n # 0 PROVE Pushed(g[n - 1], rows[n]) = g[n]
    <3>1. n - 1 \in 0 .. Len(rows) - 1 /\ (n - 1) + 1 = n /\ n - 1 \in N
          BY <1>1, <2>1
    <3>2. Pushed(TableAfter(defa, rows, n - 1), rows[(n - 1) + 1]) =
              TableAfter(defa, rows, (n - 1) + 1)
          BY <3>1, PushFills
    <3> QED BY <3>1, <3>2
  <2> QED BY <2>1
<1> HIDE DEF Body, f
<1>3. f = Body(f)
      BY <1>2, Zenon DEF f
<1>4. PushedAll(TableAfter(defa, rows, 0), rows) = f[Len(rows)]
      BY DEF PushedAll, f, Body
<1>5. \A n \in N : f[n] = TableAfter(defa, rows, n)
  <2> DEFINE P == {n \in N : f[n] # g[n]}
  <2> SUFFICES ASSUME P # {} PROVE FALSE
      OBVIOUS
  <2>1. P \subseteq Nat
        BY <1>1
  <2>2. PICK m \in P : \A k \in P : m <= k
        BY <2>1, Least
  <2>3. CASE m = 0
        BY <1>2, <1>3, <2>2, <2>3 DEF Body
  <2>4. CASE m # 0
    <3>1. m \in N /\ m - 1 \in N /\ m - 1 \notin P
          BY <1>1, <2>2, <2>4
    <3>2. f[m - 1] = g[m - 1]
          BY <3>1
    <3>3. f[m] = Body(f)[m] /\ g[m] = Body(g)[m]
          BY <1>2, <1>3
    <3>4. Body(f)[m] = Body(g)[m]
          BY <2>4, <3>1, <3>2 DEF Body
    <3> QED BY <2>2, <3>3, <3>4
  <2> QED BY <2>3, <2>4
<1> QED BY <1>1, <1>4, <1>5

\* The tables of the example have two columns: their defaults, and what is returned
\* after some rows.
Defaults(a, x, b, y) == [j \in {a, b} |-> IF j = a THEN x ELSE y]

\* A table that was opened has its defaults and no row.
LEMMA OpenedIs ==
    ASSUME NEW a, NEW x, NEW b, NEW y, a # b, NEW rows
    PROVE  Opened(<<[key |-> a, val |-> x], [key |-> b, val |-> y]>>)
           = TableAfter(Defaults(a, x, b, y), rows, 0)
<1> DEFINE row0 == <<[key |-> a, val |-> x], [key |-> b, val |-> y]>>
           defa == Defaults(a, x, b, y)
<1>1. Worker!Collected(row0) = defa
      BY CollectedTwo DEF Defaults
<1> HIDE DEF row0, defa
<1>2. \A k : [i \in 1 .. 0 |-> GivenBy(defa, rows[i], k)] = <<>>
      OBVIOUS
<1>3. [k \in DOMAIN defa |-> Worker!Column(defa[k])]
      = [k \in DOMAIN defa |->
           [kind |-> defa[k].kind, data |-> [i \in 1 .. 0 |-> GivenBy(defa, rows[i], k)]]]
      BY <1>2 DEF Worker!Column
<1>4. Opened(row0) = TableAfter(defa, rows, 0)
      BY <1>1, <1>3 DEF Opened, TableAfter
<1> QED BY <1>4 DEF row0, defa

\* The worker's record of a value.
Held(v) == [kind |-> v.tag, of |-> v.of]

\* What a row gives to the two columns.
LEMMA GivenOne ==
    ASSUME NEW a, NEW x, NEW b, NEW y, a # b, NEW v
    PROVE  /\ GivenBy(Defaults(a, x, b, y), <<Item(a, v)>>, a) = Held(v)
           /\ GivenBy(Defaults(a, x, b, y), <<Item(a, v)>>, b) = y
<1> DEFINE row0 == <<Item(a, v)>>
<1>1. Worker!Collected(row0) = [j \in {a} |-> Held(v)]
      BY CollectedOne DEF Item, Held
<1> HIDE DEF row0
<1>2. /\ GivenBy(Defaults(a, x, b, y), row0, a) = Held(v)
      /\ GivenBy(Defaults(a, x, b, y), row0, b) = y
      BY <1>1 DEF GivenBy, Defaults
<1> QED BY <1>2 DEF row0

\* The same of a row with a value for both.
LEMMA GivenTwo ==
    ASSUME NEW a, NEW x, NEW b, NEW y, a # b, NEW v, NEW w
    PROVE  /\ GivenBy(Defaults(a, x, b, y), <<Item(a, v), Item(b, w)>>, a) = Held(v)
           /\ GivenBy(Defaults(a, x, b, y), <<Item(a, v), Item(b, w)>>, b) = Held(w)
<1> DEFINE row0 == <<Item(a, v), Item(b, w)>>
<1>1. Worker!Collected(row0) = [j \in {a, b} |-> IF j = a THEN Held(v) ELSE Held(w)]
      BY CollectedTwo DEF Item, Held
<1> HIDE DEF row0
<1>2. /\ GivenBy(Defaults(a, x, b, y), row0, a) = Held(v)
      /\ GivenBy(Defaults(a, x, b, y), row0, b) = Held(w)
      BY <1>1 DEF GivenBy
<1> QED BY <1>2 DEF row0

\* Rows that give the values f to one column and g to the other, by themselves or by
\* the columns' defaults, and the table that is returned then.
TwoGiven(a, v, b, w, rows, f, g) ==
    LET defa == Defaults(a, Held(v), b, Held(w))
    IN  /\ a # b /\ v.tag # "nil" /\ w.tag # "nil"
        /\ IsSequence(rows)
        /\ f = [i \in 1 .. Len(rows) |-> f[i]]
        /\ g = [i \in 1 .. Len(rows) |-> g[i]]
        /\ \A i \in 1 .. Len(rows) :
              /\ GivenBy(defa, rows[i], a) = f[i] /\ f[i].kind = v.tag
              /\ GivenBy(defa, rows[i], b) = g[i] /\ g[i].kind = w.tag
TwoShown(shown, a, b, f, g) == shown = [k \in {a, b} |-> shown[k]] /\ shown[a] = f /\ shown[b] = g

\* The table that is returned shows those values, however the rows were pushed.
LEMMA TwoColumns ==
    ASSUME NEW a, NEW v, NEW b, NEW w, NEW rows, NEW f, NEW g,
           TwoGiven(a, v, b, w, rows, f, g),
           NEW opened, opened = Opened(<<Item(a, v), Item(b, w)>>)
    PROVE  /\ TwoShown(Worker!IntoTable(PushedAll(opened, rows)), a, b, f, g)
           /\ Len(rows) = 1 =>
                 TwoShown(Worker!IntoTable(Pushed(opened, rows[1])), a, b, f, g)
           /\ Len(rows) = 0 => TwoShown(Worker!IntoTable(opened), a, b, f, g)
<1> DEFINE defa == Defaults(a, Held(v), b, Held(w))
<1>0. /\ a # b /\ v.tag # "nil" /\ w.tag # "nil"
      /\ IsSequence(rows)
      /\ f = [i \in 1 .. Len(rows) |-> f[i]]
      /\ g = [i \in 1 .. Len(rows) |-> g[i]]
      /\ \A i \in 1 .. Len(rows) :
            /\ GivenBy(defa, rows[i], a) = f[i] /\ f[i].kind = v.tag
            /\ GivenBy(defa, rows[i], b) = g[i] /\ g[i].kind = w.tag
      BY DEF TwoGiven
<1> DEFINE x == Held(v)
           y == Held(w)
<1>1. x.kind = v.tag /\ y.kind = w.tag
      BY DEF Held
<1>2. Item(a, v) = [key |-> a, val |-> x] /\ Item(b, w) = [key |-> b, val |-> y]
      BY DEF Item, Held
<1> HIDE DEF x, y
<1>3. DOMAIN defa = {a, b} /\ defa[a] = x /\ defa[b] = y
      BY <1>0 DEF Defaults, x, y
<1>4. Opened(<<Item(a, v), Item(b, w)>>) = TableAfter(defa, rows, 0)
      BY <1>0, <1>2, OpenedIs DEF x, y
<1> HIDE DEF defa
<1>5. Fitting(defa, rows)
      BY <1>0, <1>1, <1>3 DEF Fitting
<1>6. TwoShown(Worker!IntoTable(TableAfter(defa, rows, Len(rows))), a, b, f, g)
  <2> DEFINE V(k) == [i \in 1 .. Len(rows) |-> GivenBy(defa, rows[i], k)]
             frame == TableAfter(defa, rows, Len(rows))
  <2>1. V(a) = f /\ V(b) = g
    <3>1. /\ V(a) = [i \in 1 .. Len(rows) |-> f[i]]
          /\ V(b) = [i \in 1 .. Len(rows) |-> g[i]]
          BY <1>0
    <3> HIDE DEF V
    <3> QED BY <1>0, <3>1
  <2>2. frame.cols = [k \in {a, b} |-> [kind |-> defa[k].kind, data |-> V(k)]]
        BY <1>3 DEF TableAfter
  <2> HIDE DEF V, frame
  <2>3. \A k \in {a, b} : frame.cols[k].kind # "nil" /\ frame.cols[k].data = V(k)
        BY <1>0, <1>1, <1>3, <2>2
  <2>4. DOMAIN frame.cols = {a, b}
        BY <2>2
  <2>5. Worker!IntoTable(frame) = [k \in {a, b} |-> frame.cols[k].data]
        BY <2>3, <2>4 DEF Worker!IntoTable
  <2>6. TwoShown(Worker!IntoTable(frame), a, b, f, g)
        BY <2>1, <2>3, <2>5 DEF TwoShown
  <2> QED BY <2>6 DEF frame
<1>7. PushedAll(TableAfter(defa, rows, 0), rows) = TableAfter(defa, rows, Len(rows))
      BY <1>0, <1>5, PushedAllFills
<1>8. ASSUME Len(rows) = 1
      PROVE  Pushed(TableAfter(defa, rows, 0), rows[1]) = TableAfter(defa, rows, Len(rows))
  <2> DEFINE n == 0
  <2>1. n \in 0 .. Len(rows) - 1 /\ n + 1 = 1 /\ Len(rows) = 1 /\ n = 0
        BY <1>8
  <2> HIDE DEF n
  <2>2. Pushed(TableAfter(defa, rows, n), rows[n + 1]) = TableAfter(defa, rows, n + 1)
        BY <1>0, <1>5, <2>1, PushFills
  <2> QED BY <2>1, <2>2
<1> QED BY <1>4, <1>6, <1>7, <1>8

\* An answer of the storage: nothing or a data frame.
IsOption(option) == option = None \/ (option = Some(option[1]) /\ IsDataFrame(option[1]))

\* The table of an answer is empty when the answer is.
LEMMA TableOfAnswer ==
    ASSUME NEW option, IsOption(option), option # None
    PROVE  LET df == option[1]
               t == dump_to_imports_table(df)
           IN  /\ t = <<>> <=> ~Nonempty(option)
               /\ t # <<>> => t[1].val = FirstColumn(df)
<1> DEFINE df == option[1]
           t == dump_to_imports_table(df)
<1>1. Len(df.headers) \in Nat /\ Len(df.columns) \in Nat
      BY SequenceIs DEF IsOption, IsDataFrame
<1>2. PICK n \in Nat : Pairs(df) = 1 .. n /\ (n = 0 <=> ~Nonempty(option))
      BY <1>1 DEF Pairs, Nonempty
<1>3. t = [i \in 1 .. n |-> [key |-> df.headers[i], val |-> df.columns[i]]]
      BY <1>2 DEF dump_to_imports_table
<1>4. CASE n = 0
      BY <1>2, <1>3, <1>4
<1>5. CASE n # 0
      BY <1>2, <1>3, <1>5 DEF FirstColumn
<1> QED BY <1>4, <1>5

\* The nodes, with the default of the other column.
LEMMA NodeTableIs ==
    ASSUME NEW ids, IsSequence(ids.data),
           NEW rows,
           rows = [i \in DOMAIN ids.data |-> <<Item("node_id", Value(I64, ids.data[i]))>>],
           NEW opened, opened = Opened(<<Item("node_id", Value(I64, -1)),
                                         Item("dummy", Value(Bol, FALSE))>>)
    PROVE  Worker!IntoTable(PushedAll(opened, rows)) = NodeTable(ids)
<1> DEFINE v == Value(I64, -1)
           w == Value(Bol, FALSE)
           defa == Defaults("node_id", Held(v), "dummy", Held(w))
           n == Len(ids.data)
           f == As(I64, ids.data, n)
           g == As(Bol, [i \in DOMAIN ids.data |-> FALSE], n)
           shown == Worker!IntoTable(PushedAll(opened, rows))
<1>1. n \in Nat /\ DOMAIN ids.data = 1 .. n
      BY SequenceIs
<1>2. Len(rows) = n /\ IsSequence(rows)
      BY <1>1, LengthOf
<1>3. \A i \in 1 .. n : /\ f[i] = Held(Value(I64, ids.data[i])) /\ f[i].kind = I64
                        /\ g[i] = Held(w) /\ g[i].kind = Bol
      BY <1>1 DEF As, Held, Value
<1>4. f = [i \in 1 .. Len(rows) |-> f[i]] /\ g = [i \in 1 .. Len(rows) |-> g[i]]
      BY <1>2 DEF As
<1>5. v.tag = I64 /\ w.tag = Bol /\ I64 # "nil" /\ Bol # "nil" /\ "node_id" # "dummy"
      BY DEF Value, I64, Bol
<1>6. TwoGiven("node_id", v, "dummy", w, rows, f, g)
  <2> HIDE DEF v, w, f, g
  <2>1. ASSUME NEW i \in 1 .. n
        PROVE  GivenBy(defa, rows[i], "node_id") = f[i] /\ GivenBy(defa, rows[i], "dummy") = g[i]
    <3>1. rows[i] = <<Item("node_id", Value(I64, ids.data[i]))>>
          BY <1>1
    <3> QED BY <1>3, <3>1, GivenOne
  <2> QED BY <1>2, <1>3, <1>4, <1>5, <2>1 DEF TwoGiven
<1> HIDE DEF f, g, shown
<1>7. TwoShown(shown, "node_id", "dummy", f, g)
      BY <1>6, TwoColumns DEF shown
<1> QED BY <1>7 DEF TwoShown, NodeTable, f, g, shown

\* The author, cast to the types of the columns.
LEMMA AuthorTableIs ==
    ASSUME NEW id, NEW label,
           NEW row0, row0 = <<Item("author_id", Value(I32, Wrap(W32, id.data[1]))),
                              Item("label", Value(I32, Wrap(W32, label.data[1])))>>,
           NEW opened, opened = Opened(<<Item("author_id", Value(I32, -1)),
                                         Item("label", Value(I32, -1))>>)
    PROVE  Worker!IntoTable(Pushed(opened, row0)) = AuthorTable(id, label)
<1> DEFINE v == Value(I32, -1)
           defa == Defaults("author_id", Held(v), "label", Held(v))
           rows == <<row0>>
           f == Narrowed(id)
           g == Narrowed(label)
           shown == Worker!IntoTable(Pushed(opened, row0))
<1>1. Len(rows) = 1 /\ IsSequence(rows) /\ rows[1] = row0
  <2>1. rows = [i \in 1 .. 1 |-> rows[i]]
        OBVIOUS
  <2> QED BY <2>1, LengthOf
<1>2. /\ f[1] = Held(Value(I32, Wrap(W32, id.data[1]))) /\ f[1].kind = I32
      /\ g[1] = Held(Value(I32, Wrap(W32, label.data[1]))) /\ g[1].kind = I32
      BY DEF Narrowed, As, Held, Value
<1>3. f = [i \in 1 .. 1 |-> f[i]] /\ g = [i \in 1 .. 1 |-> g[i]]
      BY DEF Narrowed, As
<1>4. v.tag = I32 /\ I32 # "nil" /\ "author_id" # "label"
      BY DEF Value, I32
<1> HIDE DEF rows
<1>5. TwoGiven("author_id", v, "label", v, rows, f, g)
  <2> HIDE DEF v, f, g
  <2>1. GivenBy(defa, rows[1], "author_id") = f[1] /\ GivenBy(defa, rows[1], "label") = g[1]
        BY <1>1, <1>2, <1>4, GivenTwo
  <2> QED BY <1>1, <1>2, <1>3, <1>4, <2>1 DEF TwoGiven
<1> HIDE DEF f, g, shown
<1>6. TwoShown(shown, "author_id", "label", f, g)
      BY <1>1, <1>5, TwoColumns DEF shown
<1> QED BY <1>6 DEF TwoShown, AuthorTable, f, g, shown

\* The rows of the neighbours with their time stamps.
NeighborRows(dst, stamps) ==
    [i \in 1 .. vector_size(dst) |-> <<Item("target", Value(I64, dst.data[i])),
                                        Item("time_stamp", Value(I64, stamps.data[i]))>>]
OpenedNeighbors == Opened(<<Item("target", Value(I64, -1)), Item("time_stamp", Value(I64, -1))>>)

\* The table of the neighbours; without any it is the one that was opened.
LEMMA NeighborTableIs ==
    ASSUME NEW dst, NEW stamps, vector_size(dst) \in Nat
    PROVE  /\ Worker!IntoTable(PushedAll(OpenedNeighbors, NeighborRows(dst, stamps)))
              = NeighborTable(dst, stamps)
           /\ vector_size(dst) = 0 => Worker!IntoTable(OpenedNeighbors) = NeighborTable(dst, stamps)
<1> DEFINE v == Value(I64, -1)
           many == vector_size(dst)
           rows == NeighborRows(dst, stamps)
           opened == OpenedNeighbors
           defa == Defaults("target", Held(v), "time_stamp", Held(v))
           f == As(I64, dst.data, many)
           g == As(I64, stamps.data, many)
           shown == Worker!IntoTable(PushedAll(opened, rows))
<1>0. rows = [i \in 1 .. many |-> <<Item("target", Value(I64, dst.data[i])),
                                    Item("time_stamp", Value(I64, stamps.data[i]))>>]
      BY DEF NeighborRows
<1>1. Len(rows) = many /\ IsSequence(rows)
      BY <1>0, LengthOf
<1> HIDE DEF rows
<1>2. \A i \in 1 .. many : /\ f[i] = Held(Value(I64, dst.data[i])) /\ f[i].kind = I64
                           /\ g[i] = Held(Value(I64, stamps.data[i])) /\ g[i].kind = I64
      BY DEF As, Held, Value
<1>3. f = [i \in 1 .. Len(rows) |-> f[i]] /\ g = [i \in 1 .. Len(rows) |-> g[i]]
      BY <1>1 DEF As
<1>4. v.tag = I64 /\ I64 # "nil" /\ "target" # "time_stamp"
      BY DEF Value, I64
<1>5. TwoGiven("target", v, "time_stamp", v, rows, f, g)
  <2> HIDE DEF v, f, g
  <2>1. ASSUME NEW i \in 1 .. many
        PROVE  /\ GivenBy(defa, rows[i], "target") = f[i]
               /\ GivenBy(defa, rows[i], "time_stamp") = g[i]
    <3>1. rows[i] = <<Item("target", Value(I64, dst.data[i])),
                      Item("time_stamp", Value(I64, stamps.data[i]))>>
          BY <1>0
    <3> QED BY <1>2, <1>4, <3>1, GivenTwo
  <2> QED BY <1>1, <1>2, <1>3, <1>4, <2>1 DEF TwoGiven
<1> HIDE DEF f, g
<1>6. TwoShown(shown, "target", "time_stamp", f, g)
      BY <1>5, TwoColumns DEF OpenedNeighbors
<1>7. many = 0 => TwoShown(Worker!IntoTable(opened), "target", "time_stamp", f, g)
      BY <1>1, <1>5, TwoColumns DEF OpenedNeighbors
<1>8. ASSUME NEW t, TwoShown(t, "target", "time_stamp", f, g)
      PROVE  t = NeighborTable(dst, stamps)
      BY <1>8 DEF TwoShown, NeighborTable, f, g
<1> QED BY <1>6, <1>7, <1>8 DEF rows

\* What each part of the example makes of an answer: test_choice_nodes fails, or has a
\* row for each node.
LEMMA ChoiceOutcome ==
    ASSUME NEW option, IsOption(option),
           NEW answer, answer = IF option = None THEN None ELSE storage_choice_nodes(option[1])
    PROVE  \E o : /\ test_choice_nodes(answer) = {o}
                  /\ \/ o.end = "abort" /\ ~Chosen(option)
                     \/ /\ o.end = "ok" /\ Chosen(option)
                        /\ Worker!IntoTable(o.frame) = NodeTable(FirstColumn(option[1]))
<1> DEFINE df == option[1]
           t == dump_to_imports_table(df)
           ids == FirstColumn(df)
           opened == Opened(<<Item("node_id", Value(I64, -1)), Item("dummy", Value(Bol, FALSE))>>)
           rows == [i \in DOMAIN ids.data |-> <<Item("node_id", Value(I64, ids.data[i]))>>]
           aborted == Outcome("abort", opened)
           done == Outcome("ok", PushedAll(opened, rows))
<1>0. aborted.end = "abort" /\ done.end = "ok" /\ done.frame = PushedAll(opened, rows)
      BY DEF Outcome
<1>1. CASE answer = None
  <2>1. ~Chosen(option)
    <3>1. CASE option = None
          BY <3>1 DEF Chosen, Nonempty
    <3>2. CASE option # None
      <4>1. t = <<>>
            BY <1>1, <3>2 DEF storage_choice_nodes, Some, None
      <4> QED BY <3>2, <4>1, TableOfAnswer DEF Chosen
    <3> QED BY <3>1, <3>2
  <2>2. test_choice_nodes(answer) = {aborted}
        BY <1>1 DEF test_choice_nodes
  <2> QED BY <1>0, <2>1, <2>2
<1>2. CASE answer # None
  <2>1. option # None /\ t # <<>> /\ answer[1] = t[1].val
        BY <1>2 DEF storage_choice_nodes, Some
  <2>2. Nonempty(option) /\ answer[1] = ids
        BY <2>1, TableOfAnswer
  <2>3. IsSequence(ids.data)
    <3>1. Len(df.columns) \in Nat /\ Len(df.columns) > 0
          BY <2>2, SequenceIs DEF Nonempty, IsOption, IsDataFrame
    <3> QED BY <2>1, <3>1 DEF IsOption, IsDataFrame, FirstColumn
  <2>4. CASE ids.tag = I64
    <3>1. as_vector(I64, ids) = ids /\ ids # NoVector
          BY <2>4 DEF as_vector, is_type, NoVector, Vector, I64
    <3>2. test_choice_nodes(answer) = {done}
          BY <1>2, <2>2, <3>1 DEF test_choice_nodes
    <3>3. Worker!IntoTable(PushedAll(opened, rows)) = NodeTable(ids)
          BY <2>3, NodeTableIs
    <3> HIDE DEF done
    <3> QED BY <1>0, <2>2, <2>4, <3>2, <3>3 DEF Chosen
  <2>5. CASE ids.tag # I64
    <3>1. as_vector(I64, ids) = NoVector
          BY <2>5 DEF as_vector, is_type
    <3>2. test_choice_nodes(answer) = {aborted}
          BY <1>2, <2>2, <3>1 DEF test_choice_nodes
    <3> QED BY <1>0, <2>5, <3>2 DEF Chosen
  <2> QED BY <2>4, <2>5
<1> QED BY <1>1, <1>2

\* The value found for a name in a row is the first of a column with that name; it is
\* an i64 if the column is good for an author, and is then cast into 32 bits.
LEMMA AuthorFetched ==
    ASSUME NEW df, IsDataFrame(df), NEW key \in Int,
           NEW s \in Sorted(dump_to_imports_row(df)),
           NEW found, found = row_view(s, key)
    PROVE  IF found # None /\ is_type(I64, found[1])
           THEN \E c \in Authors(df, key) :
                   to_value(I32, found[1]) = {Value(I32, Wrap(W32, c.data[1]))}
           ELSE ~(Authors(df, key) # {} /\ Authors(df, key) = ColumnsOf(df, key, 1))
<1> DEFINE r == dump_to_imports_row(df)
           columns == ColumnsOf(df, key, 1)
<1>1. /\ Keyed(r) /\ 1 .. Len(r) = DOMAIN df.headers \cap DOMAIN df.columns
      /\ \A i \in 1 .. Len(r) : r[i].key = df.headers[i] /\ r[i].val = FirstValue(df.columns[i])
      BY AnswerKeyed, Zenon
<1>2. \A i : i \in 1 .. Len(r) <=> i \in 1 .. Len(df.headers) /\ i <= Len(df.columns)
  <2>1. df.headers \in Seq(Int) /\ IsSequence(df.columns)
        BY DEF IsDataFrame
  <2>2. /\ Len(df.headers) \in Nat /\ DOMAIN df.headers = 1 .. Len(df.headers)
        /\ Len(df.columns) \in Nat /\ DOMAIN df.columns = 1 .. Len(df.columns)
        BY <2>1, SequenceIs
  <2> QED BY <1>1, <2>2
<1> HIDE DEF r
<1>3. columns = {df.columns[i] : i \in {j \in 1 .. Len(r) : df.headers[j] = key}}
      BY <1>2 DEF ColumnsOf
<1>4. \/ columns = {} /\ found = None
      \/ \E c \in columns : found = Some(FirstValue(c))
  <2>1. IF \E i \in 1 .. Len(r) : r[i].key = key
        THEN \E i \in 1 .. Len(r) : r[i].key = key /\ row_view(s, key) = Some(r[i].val)
        ELSE row_view(s, key) = None
        BY <1>1, ViewFinds DEF r
  <2>2. CASE \E i \in 1 .. Len(r) : r[i].key = key
        BY <1>1, <1>3, <2>1, <2>2
  <2>3. CASE ~\E i \in 1 .. Len(r) : r[i].key = key
        BY <1>1, <1>3, <2>1, <2>3
  <2> QED BY <2>2, <2>3
<1> HIDE DEF columns
<1>5. CASE columns = {} /\ found = None
      BY <1>5 DEF Authors, columns
<1>6. CASE \E c \in columns : found = Some(FirstValue(c))
  <2>1. PICK c \in columns : found = Some(FirstValue(c))
        BY <1>6
  <2>2. found # None /\ found[1] = FirstValue(c)
        BY <2>1 DEF Some, None
  <2>3. CASE c.tag = I64 /\ c.data # <<>>
    <3>1. FirstValue(c) = Value(I64, c.data[1]) /\ c \in Authors(df, key)
          BY <2>3 DEF FirstValue, Nil, I64, Authors, columns
    <3>2. is_type(I64, found[1])
          BY <2>2, <3>1 DEF is_type, Value
    <3>3. to_value(I32, found[1]) = {Value(I32, Wrap(W32, c.data[1]))}
      <4>1. found[1].tag = I64 /\ found[1].of = c.data[1]
            BY <2>2, <3>1 DEF Value
      <4>2. to_value(I32, found[1]) = into_number(I32, found[1])
            BY DEF to_value, to_type, I32, Bol, Txt
      <4>3. into_number(I32, found[1]) = CastInteger(I32, found[1].of)
            BY <4>1 DEF into_number, I64, I32, Bol, F32, F64, Txt
      <4>4. CastInteger(I32, c.data[1]) = {Value(I32, Wrap(W32, c.data[1]))}
            BY DEF CastInteger, Width
      <4> QED BY <4>1, <4>2, <4>3, <4>4
    <3> QED BY <2>2, <3>1, <3>2, <3>3
  <2>4. CASE ~(c.tag = I64 /\ c.data # <<>>)
    <3>1. ~is_type(I64, found[1])
          BY <2>2, <2>4 DEF is_type, FirstValue, Value, Nil, I64
    <3>2. c \in ColumnsOf(df, key, 1) /\ c \notin Authors(df, key)
          BY <2>4 DEF Authors, columns
    <3> QED BY <3>1, <3>2
  <2> QED BY <2>3, <2>4
<1> QED BY <1>4, <1>5, <1>6

\* test_query_nodes fails, or has the author's row from columns with the two names.
LEMMA NodesOutcome ==
    ASSUME NEW option, IsOption(option),
           NEW answer, answer = IF option = None THEN None ELSE storage_query_nodes(option[1])
    PROVE  /\ test_query_nodes(answer) # {}
           /\ \A o \in test_query_nodes(answer) :
                 \/ o.end = "abort" /\ ~AuthorsCertain(option)
                 \/ /\ o.end = "ok" /\ option # None
                    /\ \E id \in Authors(option[1], AuthorId), label \in Authors(option[1], Label) :
                          Worker!IntoTable(o.frame) = AuthorTable(id, label)
<1> DEFINE df == option[1]
           r == dump_to_imports_row(df)
           opened == Opened(<<Item("author_id", Value(I32, -1)), Item("label", Value(I32, -1))>>)
           aborted == Outcome("abort", opened)
           Done(a, b) == Outcome("ok", Pushed(opened, <<Item("author_id", a), Item("label", b)>>))
           Asserted(s, key) == row_view(s, key) # None /\ is_type(I64, row_view(s, key)[1])
           Cast(s, key) == to_value(I32, row_view(s, key)[1])
           Outcomes(s) == IF ~(Asserted(s, AuthorId) /\ Asserted(s, Label)) THEN {aborted}
                          ELSE {Done(a, b) : a \in Cast(s, AuthorId), b \in Cast(s, Label)}
<1>0. aborted.end = "abort"
      BY DEF Outcome
<1>1. CASE option = None
  <2>1. test_query_nodes(answer) = {aborted}
        BY <1>1 DEF test_query_nodes
  <2> HIDE DEF aborted
  <2> QED BY <1>0, <1>1, <2>1 DEF AuthorsCertain
<1>2. CASE option # None
  <2>1. answer # None /\ answer[1] = r
        BY <1>2 DEF storage_query_nodes, Some, None
  <2>2. test_query_nodes(answer) = UNION {Outcomes(s) : s \in Sorted(r)}
        BY <2>1 DEF test_query_nodes, row
  <2>3. IsDataFrame(df) /\ AuthorId \in Int /\ Label \in Int
        BY <1>2, NamesAssumption DEF IsOption
  <2>4. Sorted(r) # {}
        BY <2>3, AnswerKeyed, SomeSorted, Zenon
  <2>5. ASSUME NEW s \in Sorted(r)
        PROVE  \/ Outcomes(s) = {aborted} /\ ~AuthorsCertain(option)
               \/ \E id \in Authors(df, AuthorId), label \in Authors(df, Label) :
                     Outcomes(s) = {Done(Value(I32, Wrap(W32, id.data[1])),
                                         Value(I32, Wrap(W32, label.data[1])))}
    <3>1. \A key \in {AuthorId, Label} :
              IF Asserted(s, key)
              THEN \E c \in Authors(df, key) : Cast(s, key) = {Value(I32, Wrap(W32, c.data[1]))}
              ELSE ~(Authors(df, key) # {} /\ Authors(df, key) = ColumnsOf(df, key, 1))
      <4> HIDE DEF df
      <4> QED BY <2>3, <2>5, AuthorFetched
    <3> HIDE DEF aborted, Done, Asserted, Cast
    <3>2. CASE Asserted(s, AuthorId) /\ Asserted(s, Label)
      <4>1. PICK id \in Authors(df, AuthorId) :
                Cast(s, AuthorId) = {Value(I32, Wrap(W32, id.data[1]))}
            BY <3>1, <3>2
      <4>2. PICK label \in Authors(df, Label) :
                Cast(s, Label) = {Value(I32, Wrap(W32, label.data[1]))}
            BY <3>1, <3>2
      <4> QED BY <3>2, <4>1, <4>2
    <3>3. CASE ~(Asserted(s, AuthorId) /\ Asserted(s, Label))
          BY <3>1, <3>3 DEF AuthorsCertain
    <3> QED BY <3>2, <3>3
  <2>6. ASSUME NEW id \in Authors(df, AuthorId), NEW label \in Authors(df, Label),
               NEW o, o = Done(Value(I32, Wrap(W32, id.data[1])),
                               Value(I32, Wrap(W32, label.data[1])))
        PROVE  o.end = "ok" /\ Worker!IntoTable(o.frame) = AuthorTable(id, label)
    <3> DEFINE row0 == <<Item("author_id", Value(I32, Wrap(W32, id.data[1]))),
                         Item("label", Value(I32, Wrap(W32, label.data[1])))>>
    <3>1. Worker!IntoTable(Pushed(opened, row0)) = AuthorTable(id, label)
          BY AuthorTableIs
    <3>2. o.end = "ok" /\ o.frame = Pushed(opened, row0)
          BY <2>6 DEF Outcome
    <3> QED BY <3>1, <3>2
  <2> HIDE DEF Outcomes, aborted, Done, df, r
  <2>7. test_query_nodes(answer) # {}
        BY <2>2, <2>4, <2>5
  <2>8. ASSUME NEW o \in test_query_nodes(answer)
        PROVE  \/ o.end = "abort" /\ ~AuthorsCertain(option)
               \/ \E id \in Authors(df, AuthorId), label \in Authors(df, Label) :
                     o.end = "ok" /\ Worker!IntoTable(o.frame) = AuthorTable(id, label)
    <3>1. PICK s \in Sorted(r) : o \in Outcomes(s)
          BY <2>2
    <3> QED BY <1>0, <2>5, <2>6, <3>1
  <2> QED BY <1>2, <2>7, <2>8 DEF df
<1> QED BY <1>1, <1>2

\* The columns of a table with a name.
ColumnsNamed(span, key) == {span[i].val : i \in {j \in 1 .. Len(span) : span[j].key = key}}

\* The table of the neighbours' attributes has the columns after the first.
LEMMA AttributesKeyed ==
    ASSUME NEW df, IsDataFrame(df), NEW t, t = dump_to_imports_table(df), t # <<>>,
           NEW key \in Int
    PROVE  /\ Keyed(Tail(t))
           /\ ColumnsOf(df, key, 2) = ColumnsNamed(Tail(t), key)
<1> DEFINE u == Tail(t)
           n == Len(t)
<1>1. /\ Keyed(t) /\ 1 .. Len(t) = DOMAIN df.headers \cap DOMAIN df.columns
      /\ \A i \in 1 .. Len(t) : t[i].key = df.headers[i] /\ t[i].val = df.columns[i]
      BY AnswerKeyed, Zenon
<1>2. \A i : i \in 1 .. n <=> i \in 1 .. Len(df.headers) /\ i <= Len(df.columns)
  <2>1. df.headers \in Seq(Int) /\ IsSequence(df.columns)
        BY DEF IsDataFrame
  <2>2. /\ Len(df.headers) \in Nat /\ DOMAIN df.headers = 1 .. Len(df.headers)
        /\ Len(df.columns) \in Nat /\ DOMAIN df.columns = 1 .. Len(df.columns)
        BY <2>1, SequenceIs
  <2> QED BY <1>1, <2>2
<1>3. n \in Nat \ {0} /\ t \in Seq({t[i] : i \in 1 .. Len(t)})
      BY <1>1 DEF Keyed, IsSequence
<1>4. \A i \in 1 .. n - 1 : u[i] = t[i + 1]
      BY <1>3
<1>5. Len(u) = n - 1 /\ IsSequence(u)
  <2> DEFINE T == {t[i] : i \in 1 .. Len(t)}
  <2>1. n - 1 \in Nat /\ u \in Seq(T) /\ Len(u) = n - 1
        BY <1>3
  <2> HIDE DEF u, T
  <2>2. u = [i \in 1 .. n - 1 |-> u[i]]
        BY <2>1
  <2> QED BY <2>1, <2>2, LengthOf
<1>6. \A i \in 1 .. n - 1 : /\ i + 1 \in 1 .. n
                            /\ u[i].key = df.headers[i + 1] /\ u[i].val = df.columns[i + 1]
      BY <1>1, <1>3, <1>4
<1> HIDE DEF n, u
<1>7. Keyed(u)
      BY <1>1, <1>5, <1>6 DEF Keyed, n
<1>8. ColumnsOf(df, key, 2) = {u[i].val : i \in {j \in 1 .. Len(u) : u[j].key = key}}
  <2>1. \A j : j \in 2 .. Len(df.headers) /\ j <= Len(df.columns) => j \in 2 .. n
        BY <1>2, <1>3
  <2>2. ASSUME NEW j \in 2 .. n
        PROVE  /\ j - 1 \in 1 .. n - 1 /\ j \in 2 .. Len(df.headers) /\ j <= Len(df.columns)
               /\ u[j - 1].key = df.headers[j] /\ u[j - 1].val = df.columns[j]
    <3>1. j - 1 \in 1 .. n - 1 /\ (j - 1) + 1 = j
          BY <1>3
    <3>2. j \in 1 .. n /\ j \in Int /\ j >= 2
          BY <1>3
    <3> QED BY <1>2, <1>6, <3>1, <3>2
  <2>3. ASSUME NEW i \in 1 .. n - 1 PROVE i + 1 \in 2 .. n
        BY <1>3
  <2>4. ASSUME NEW c \in ColumnsOf(df, key, 2)
        PROVE  c \in {u[i].val : i \in {j \in 1 .. Len(u) : u[j].key = key}}
    <3>1. PICK j \in 2 .. n : df.headers[j] = key /\ c = df.columns[j]
          BY <2>1 DEF ColumnsOf
    <3> QED BY <1>5, <2>2, <3>1
  <2>5. ASSUME NEW i \in 1 .. Len(u), u[i].key = key
        PROVE  u[i].val \in ColumnsOf(df, key, 2)
        BY <1>5, <1>6, <2>2, <2>3, <2>5 DEF ColumnsOf
  <2> QED BY <2>4, <2>5
<1> QED BY <1>7, <1>8 DEF u, ColumnsNamed

\* The time stamps found are one of the columns with that name.
LEMMA StampsFetched ==
    ASSUME NEW df, IsDataFrame(df), NEW t, t = dump_to_imports_table(df), t # <<>>,
           NEW s \in Sorted(Tail(t)),
           NEW found, found = table_view(s, TimeStamp)
    PROVE  IF found # None /\ is_type(I64, found[1])
           THEN /\ found[1] \in Stamps(df) /\ Len(found[1].data) \in Nat
                /\ vector_size(found[1]) = Len(found[1].data)
           ELSE ~(Stamps(df) # {} /\ Stamps(df) = ColumnsOf(df, TimeStamp, 2))
<1> DEFINE u == Tail(t)
           columns == ColumnsOf(df, TimeStamp, 2)
<1>1. /\ Keyed(u) /\ TimeStamp \in Int
      /\ columns = ColumnsNamed(u, TimeStamp)
      BY NamesAssumption, AttributesKeyed
<1> HIDE DEF u
<1>2. IF \E i \in 1 .. Len(u) : u[i].key = TimeStamp
      THEN \E i \in 1 .. Len(u) : u[i].key = TimeStamp /\ found = Some(u[i].val)
      ELSE found = None
  <2>1. s \in Sorted(u)
        BY DEF u
  <2> QED BY <1>1, <2>1, ViewFinds
<1>3. (columns = {} /\ found = None) \/ \E c \in columns : found = Some(c)
      BY <1>1, <1>2 DEF ColumnsNamed
<1>4. \A c \in columns : Len(c.data) \in Nat
  <2>1. /\ Len(df.columns) \in Nat
        /\ \A i \in 1 .. Len(df.columns) : Len(df.columns[i].data) \in Nat
        BY SequenceIs DEF IsDataFrame
  <2>2. df.headers \in Seq(Int)
        BY DEF IsDataFrame
  <2>3. \A j \in 2 .. Len(df.headers) : j <= Len(df.columns) => j \in 1 .. Len(df.columns)
        BY <2>1, <2>2
  <2> QED BY <2>1, <2>3 DEF ColumnsOf
<1> HIDE DEF columns
<1>5. CASE columns = {} /\ found = None
      BY <1>5 DEF Stamps, columns
<1>6. CASE \E c \in columns : found = Some(c)
  <2>1. PICK c \in columns : found = Some(c)
        BY <1>6
  <2>2. found # None /\ found[1] = c
        BY <2>1 DEF Some, None
  <2>3. CASE c.tag = I64
    <3>1. c \in Stamps(df)
          BY <2>3 DEF Stamps, columns
    <3>2. vector_size(c) = Len(c.data)
          BY <2>3 DEF vector_size, I64, Nil
    <3> QED BY <1>4, <2>2, <2>3, <3>1, <3>2 DEF is_type
  <2>4. CASE c.tag # I64
        BY <2>2, <2>4 DEF is_type, Stamps, columns
  <2> QED BY <2>3, <2>4
<1> QED BY <1>3, <1>5, <1>6

\* test_query_neighbors fails, or has a row for each neighbour with the stamp at its
\* place, or reads beyond the stamps.
LEMMA NeighborsOutcome ==
    ASSUME NEW option, IsOption(option),
           NEW answer, answer = IF option = None THEN None ELSE storage_query_neighbors(option[1])
    PROVE  /\ test_query_neighbors(answer) # {}
           /\ \A o \in test_query_neighbors(answer) :
                 LET dst == FirstColumn(option[1])
                 IN  \/ o.end = "abort" /\ ~StampsCertain(option)
                     \/ /\ o.end = "ok" /\ Linked(option)
                        /\ \E stamps \in Stamps(option[1]) :
                              /\ vector_size(dst) <= Len(stamps.data)
                              /\ Worker!IntoTable(o.frame) = NeighborTable(dst, stamps)
                     \/ /\ o.end = "undefined"
                        /\ \E stamps \in Stamps(option[1]) : vector_size(dst) > Len(stamps.data)
<1> DEFINE df == option[1]
           t == dump_to_imports_table(df)
           dst == FirstColumn(df)
           many == vector_size(dst)
           opened == OpenedNeighbors
           aborted == Outcome("abort", opened)
           Rows(d, c) == [i \in DOMAIN d.data |-> <<Item("target", Value(I64, d.data[i])),
                                                     Item("time_stamp", Value(I64, c.data[i]))>>]
           Done(d, c) == Outcome("ok", PushedAll(opened, Rows(d, c)))
           Good(o) == \/ o.end = "abort" /\ ~StampsCertain(option)
                      \/ /\ o.end = "ok" /\ Linked(option)
                         /\ \E stamps \in Stamps(df) :
                               /\ many <= Len(stamps.data)
                               /\ Worker!IntoTable(o.frame) = NeighborTable(dst, stamps)
                      \/ /\ o.end = "undefined"
                         /\ \E stamps \in Stamps(df) : many > Len(stamps.data)
           Of(d, attr) ==
              LET found == table_view(attr, TimeStamp)
              IN  IF found = None THEN aborted
                  ELSE IF ~is_type(I64, found[1]) THEN aborted
                  ELSE IF vector_size(d) = 0 THEN Outcome("ok", opened)
                  ELSE IF as_vector(I64, d) = NoVector THEN aborted
                  ELSE IF vector_size(d) > vector_size(found[1]) THEN Outcome("undefined", opened)
                  ELSE Done(d, found[1])
           All(x) == {Of(x.dst, attr) : attr \in Sorted(x.attr)}
<1>0. aborted.end = "abort"
      BY DEF Outcome
<1>1. CASE answer = None
  <2>1. ~StampsCertain(option)
    <3>1. CASE option = None
          BY <3>1 DEF StampsCertain, Linked, Nonempty
    <3>2. CASE option # None
      <4>1. t = <<>>
            BY <1>1, <3>2 DEF storage_query_neighbors, Some, None
      <4> QED BY <3>2, <4>1, TableOfAnswer DEF StampsCertain, Linked
    <3> QED BY <3>1, <3>2
  <2>2. test_query_neighbors(answer) = {aborted}
        BY <1>1 DEF test_query_neighbors, OpenedNeighbors
  <2> HIDE DEF aborted
  <2>3. Good(aborted)
        BY <1>0, <2>1
  <2> QED BY <2>2, <2>3
<1>2. CASE answer # None
  <2>1. option # None /\ t # <<>> /\ answer[1] = [dst |-> t[1].val, attr |-> Tail(t)]
        BY <1>2 DEF storage_query_neighbors, Some
  <2>2. Nonempty(option) /\ answer[1] = [dst |-> dst, attr |-> Tail(t)] /\ IsDataFrame(df)
        BY <2>1, TableOfAnswer DEF IsOption
  <2>3. many \in Nat /\ IsSequence(dst.data)
    <3>1. Len(df.columns) \in Nat /\ Len(df.columns) > 0
          BY <2>2, SequenceIs DEF Nonempty, IsDataFrame
    <3>2. IsSequence(dst.data)
          BY <2>2, <3>1 DEF IsDataFrame, FirstColumn
    <3> QED BY <3>2, SequenceIs DEF vector_size
  <2>4. test_query_neighbors(answer) = {Of(dst, attr) : attr \in Sorted(Tail(t))}
    <3> DEFINE x == [dst |-> dst, attr |-> Tail(t)]
    <3>1. test_query_neighbors(answer) = IF answer = None THEN {aborted} ELSE All(answer[1])
          BY Zenon DEF test_query_neighbors, table, OpenedNeighbors
    <3>2. x.dst = dst /\ x.attr = Tail(t)
          OBVIOUS
    <3> HIDE DEF x
    <3>3. All(x) = {Of(dst, attr) : attr \in Sorted(Tail(t))}
      <4> HIDE DEF Of
      <4> QED BY <3>2
    <3> HIDE DEF All, aborted
    <3>4. test_query_neighbors(answer) = All(x)
          BY <1>2, <2>2, <3>1 DEF x
    <3> QED BY <3>3, <3>4, Zenon
  <2>5. Sorted(Tail(t)) # {}
        BY <2>1, <2>2, NamesAssumption, AttributesKeyed, SomeSorted
  <2>6. ASSUME NEW s \in Sorted(Tail(t)) PROVE Good(Of(dst, s))
    <3> DEFINE found == table_view(s, TimeStamp)
               c == found[1]
    <3>1. IF found # None /\ is_type(I64, c)
          THEN /\ c \in Stamps(df) /\ Len(c.data) \in Nat
               /\ vector_size(c) = Len(c.data)
          ELSE ~(Stamps(df) # {} /\ Stamps(df) = ColumnsOf(df, TimeStamp, 2))
          BY <2>1, <2>2, <2>6, StampsFetched
    <3>2. Linked(option) <=> (many = 0 \/ dst.tag = I64)
          BY <2>2, <2>3 DEF Linked
    <3>3. StampsCertain(option) =>
             Linked(option) /\ Stamps(df) # {} /\ Stamps(df) = ColumnsOf(df, TimeStamp, 2)
          BY DEF StampsCertain
    <3>4. as_vector(I64, dst) = NoVector <=> dst.tag # I64
          BY DEF as_vector, is_type, NoVector, Vector, I64
    <3> HIDE DEF aborted, Done, df, dst, many, found, opened
    <3>5. CASE ~(found # None /\ is_type(I64, c))
      <4>1. Of(dst, s) = aborted
            BY <3>5 DEF found
      <4> HIDE DEF Of
      <4> QED BY <1>0, <3>1, <3>3, <3>5, <4>1
    <3>6. CASE found # None /\ is_type(I64, c) /\ many = 0
      <4>1. Worker!IntoTable(opened) = NeighborTable(dst, c)
            BY <2>3, <3>6, NeighborTableIs DEF many, opened
      <4>2. Of(dst, s) = Outcome("ok", opened) /\ Of(dst, s).end = "ok" /\ Of(dst, s).frame = opened
            BY <3>6 DEF Outcome, many, found
      <4>3. c \in Stamps(df) /\ many <= Len(c.data)
            BY <3>1, <3>6
      <4> HIDE DEF Of
      <4> QED BY <3>2, <3>6, <4>1, <4>2, <4>3
    <3>7. CASE found # None /\ is_type(I64, c) /\ many # 0 /\ dst.tag # I64
      <4>1. Of(dst, s) = aborted
            BY <3>4, <3>7 DEF many, found
      <4> HIDE DEF Of
      <4> QED BY <1>0, <3>2, <3>3, <3>7, <4>1
    <3>8. CASE /\ found # None /\ is_type(I64, c) /\ many # 0 /\ dst.tag = I64
               /\ many > vector_size(c)
      <4>1. Of(dst, s).end = "undefined"
            BY <3>4, <3>8 DEF Outcome, many, found
      <4> HIDE DEF Of
      <4> QED BY <3>1, <3>8, <4>1
    <3>9. CASE /\ found # None /\ is_type(I64, c) /\ many # 0 /\ dst.tag = I64
               /\ ~(many > vector_size(c))
      <4>1. Of(dst, s) = Done(dst, c)
            BY <3>4, <3>9 DEF many, found
      <4>2. Of(dst, s).end = "ok" /\ Of(dst, s).frame = PushedAll(opened, Rows(dst, c))
        <5> HIDE DEF Of, Rows
        <5> QED BY <4>1 DEF Outcome, Done
      <4>3. many = Len(dst.data) /\ DOMAIN dst.data = 1 .. many
            BY <2>3, <3>9, SequenceIs DEF many, vector_size, I64, Nil
      <4>4. Worker!IntoTable(PushedAll(opened, Rows(dst, c))) = NeighborTable(dst, c)
        <5>1. Rows(dst, c) = NeighborRows(dst, c)
              BY <4>3 DEF many, NeighborRows
        <5> HIDE DEF Rows
        <5> QED BY <2>3, <5>1, NeighborTableIs DEF many, opened
      <4>5. c \in Stamps(df) /\ many <= Len(c.data)
            BY <2>3, <3>1, <3>9
      <4> HIDE DEF Of, Rows
      <4> QED BY <3>2, <3>9, <4>2, <4>4, <4>5
    <3> QED BY <3>5, <3>6, <3>7, <3>8, <3>9
  <2> HIDE DEF Of, Good
  <2>7. /\ test_query_neighbors(answer) # {}
        /\ \A o \in test_query_neighbors(answer) : Good(o)
        BY <2>4, <2>5, <2>6
  <2> QED BY <2>7 DEF Good
<1> QED BY <1>1, <1>2

\* How the example may end with an input.
Ran(i, o) ==
    \/ /\ o.end = "ok"
       /\ Asked(i.args) /\ Chosen(i.choice) /\ i.nodes # None /\ Linked(i.neighbors)
       /\ \E id \in Authors(i.nodes[1], AuthorId), label \in Authors(i.nodes[1], Label),
             stamps \in Stamps(i.neighbors[1]) :
                /\ vector_size(FirstColumn(i.neighbors[1])) <= Len(stamps.data)
                /\ o.tables = <<NodeTable(FirstColumn(i.choice[1])), AuthorTable(id, label),
                                NeighborTable(FirstColumn(i.neighbors[1]), stamps)>>
    \/ /\ o.end = "abort" /\ o.tables = <<>>
       /\ ~(/\ Asked(i.args) /\ Chosen(i.choice)
            /\ AuthorsCertain(i.nodes) /\ StampsCertain(i.neighbors))
    \/ /\ o.end = "undefined" /\ o.tables = <<>>
       /\ \E stamps \in Stamps(i.neighbors[1]) :
             vector_size(FirstColumn(i.neighbors[1])) > Len(stamps.data)

\* main ends with one of its parts, or with the tables of all three.
LEMMA MainOutcome ==
    ASSUME NEW i, IsOption(i.choice), IsOption(i.nodes), IsOption(i.neighbors), NEW enabled,
           NEW c, c = IF i.choice = None THEN None ELSE storage_choice_nodes(i.choice[1]),
           NEW n, n = IF i.nodes = None THEN None ELSE storage_query_nodes(i.nodes[1]),
           NEW b, b = IF i.neighbors = None THEN None ELSE storage_query_neighbors(i.neighbors[1]),
           NEW result, result = main(i.args, enabled, c, n, b)
    PROVE  result # {} /\ \A o \in result : Ran(i, o)
<1> DEFINE args == i.args
           a == IF args = <<>> THEN <<>> ELSE <<txt2i32(args[1])>>
           logged == IF a = <<>> THEN <<>>
                     ELSE Log(Info, ArgsPattern, a) \o Log(Info, ArgsPattern, a)
           failed == [end |-> "abort", log |-> <<>>, tables |-> <<>>]
           Full(x, y, z) == [end |-> "ok", log |-> logged \o test_log(enabled),
                             tables |-> <<Worker!IntoTable(x.frame), Worker!IntoTable(y.frame),
                                          Worker!IntoTable(z.frame)>>]
           Cut(x, y, z) == [end |-> IF "abort" \in {x.end, y.end} THEN "abort" ELSE z.end,
                            log |-> logged, tables |-> <<>>]
           Ended(x, y, z) == IF <<x.end, y.end, z.end>> = <<"ok", "ok", "ok">>
                             THEN Full(x, y, z) ELSE Cut(x, y, z)
           All == {Ended(x, y, z) : x \in test_choice_nodes(c), y \in test_query_nodes(n),
                                    z \in test_query_neighbors(b)}
<1>1. result = IF a = <<Abort>> THEN {failed} ELSE All
  <2>1. main(args, enabled, c, n, b) = IF a = <<Abort>> THEN {failed} ELSE All
        BY SMTT(60) DEF main
  <2> HIDE DEF a, failed, All
  <2> QED BY <2>1
<1>2. Asked(args) <=> a # <<Abort>>
      BY DEF Asked
<1>3. /\ test_choice_nodes(c) # {}
      /\ \A x \in test_choice_nodes(c) :
            \/ x.end = "abort" /\ ~Chosen(i.choice)
            \/ /\ x.end = "ok" /\ Chosen(i.choice)
               /\ Worker!IntoTable(x.frame) = NodeTable(FirstColumn(i.choice[1]))
      BY ChoiceOutcome
<1>4. /\ test_query_nodes(n) # {}
      /\ \A y \in test_query_nodes(n) :
            \/ y.end = "abort" /\ ~AuthorsCertain(i.nodes)
            \/ /\ y.end = "ok" /\ i.nodes # None
               /\ \E id \in Authors(i.nodes[1], AuthorId), label \in Authors(i.nodes[1], Label) :
                     Worker!IntoTable(y.frame) = AuthorTable(id, label)
      BY NodesOutcome
<1> DEFINE dst == FirstColumn(i.neighbors[1])
<1>5. /\ test_query_neighbors(b) # {}
      /\ \A z \in test_query_neighbors(b) :
            \/ z.end = "abort" /\ ~StampsCertain(i.neighbors)
            \/ /\ z.end = "ok" /\ Linked(i.neighbors)
               /\ \E stamps \in Stamps(i.neighbors[1]) :
                     /\ vector_size(dst) <= Len(stamps.data)
                     /\ Worker!IntoTable(z.frame) = NeighborTable(dst, stamps)
            \/ /\ z.end = "undefined"
               /\ \E stamps \in Stamps(i.neighbors[1]) : vector_size(dst) > Len(stamps.data)
      BY NeighborsOutcome
<1>6. CASE ~Asked(args)
  <2>1. failed.end = "abort" /\ failed.tables = <<>>
        OBVIOUS
  <2> HIDE DEF failed
  <2>2. result = {failed}
        BY <1>1, <1>2, <1>6
  <2> QED BY <1>6, <2>1, <2>2 DEF Ran
<1>7. CASE Asked(args)
  <2> HIDE DEF a, logged
  <2>1. result = All
        BY <1>1, <1>2, <1>7
  <2>2. ASSUME NEW x \in test_choice_nodes(c), NEW y \in test_query_nodes(n),
               NEW z \in test_query_neighbors(b)
        PROVE  Ran(i, Ended(x, y, z))
    <3>1. CASE x.end = "ok" /\ y.end = "ok" /\ z.end = "ok"
      <4> DEFINE o == Ended(x, y, z)
      <4>1. /\ o.end = "ok"
            /\ o.tables = <<Worker!IntoTable(x.frame), Worker!IntoTable(y.frame),
                            Worker!IntoTable(z.frame)>>
            BY <3>1
      <4> HIDE DEF o
      <4>2. Chosen(i.choice) /\ Worker!IntoTable(x.frame) = NodeTable(FirstColumn(i.choice[1]))
            BY <1>3, <3>1
      <4>3. PICK id \in Authors(i.nodes[1], AuthorId), label \in Authors(i.nodes[1], Label) :
                i.nodes # None /\ Worker!IntoTable(y.frame) = AuthorTable(id, label)
            BY <1>4, <3>1
      <4>4. PICK stamps \in Stamps(i.neighbors[1]) :
                /\ Linked(i.neighbors) /\ vector_size(dst) <= Len(stamps.data)
                /\ Worker!IntoTable(z.frame) = NeighborTable(dst, stamps)
            BY <1>5, <3>1
      <4>5. o.tables = <<NodeTable(FirstColumn(i.choice[1])), AuthorTable(id, label),
                         NeighborTable(dst, stamps)>>
            BY <4>1, <4>2, <4>3, <4>4
      <4>6. Ran(i, o)
            BY <1>7, <4>1, <4>2, <4>3, <4>4, <4>5 DEF Ran
      <4> QED BY <4>6 DEF o
    <3>2. CASE ~(x.end = "ok" /\ y.end = "ok" /\ z.end = "ok")
      <4> DEFINE o == Ended(x, y, z)
      <4>1. /\ o.end = IF x.end = "abort" \/ y.end = "abort" THEN "abort" ELSE z.end
            /\ o.tables = <<>>
            BY <3>2
      <4> HIDE DEF o
      <4>2. CASE x.end = "abort"
            BY <1>3, <4>1, <4>2 DEF Ran, o
      <4>3. CASE y.end = "abort"
            BY <1>4, <4>1, <4>3 DEF Ran, o
      <4>4. CASE x.end # "abort" /\ y.end # "abort"
        <5>1. z.end # "ok" /\ o.end = z.end
              BY <1>3, <1>4, <3>2, <4>1, <4>4
        <5>2. Ran(i, o)
              BY <1>5, <4>1, <5>1 DEF Ran
        <5> QED BY <5>2 DEF o
      <4> QED BY <4>2, <4>3, <4>4
    <3> QED BY <3>1, <3>2
  <2> HIDE DEF Ended
  <2> QED BY <1>3, <1>4, <1>5, <2>1, <2>2
<1> QED BY <1>6, <1>7

\* ExampleRows for every argument and all answers of the storage: the example program
\* (a.cpp 14-72) returns its three tables whole, with the values of the storage, or
\* nothing, and that only where the storage does not answer what it asks for.
THEOREM Example == Spec => []ExampleRows
<1>1. Init => InputOf
      BY DEF Init, InputOf
<1>2. Init => ExampleRows
      BY DEF Init, ExampleRows, Answered
<1>3. InputOf /\ ExampleRows /\ [Next]_vars => ExampleRows'
  <2> SUFFICES ASSUME InputOf, ExampleRows, [Next]_vars PROVE ExampleRows'
      OBVIOUS
  <2>1. CASE UNCHANGED vars
        BY <2>1 DEF ExampleRows, Answered, Complete, vars
  <2>2. CASE RunsExample
    <3>1. /\ input.fn = "main" /\ input' = input
          /\ \E enabled \in {{}, {Info}} :
                output' = main(input.args, enabled,
                    IF input.choice = None THEN None ELSE storage_choice_nodes(input.choice[1]),
                    IF input.nodes = None THEN None ELSE storage_query_nodes(input.nodes[1]),
                    IF input.neighbors = None THEN None
                    ELSE storage_query_neighbors(input.neighbors[1]))
          BY <2>2 DEF RunsExample, Is, Calls
    <3>2. IsOption(input.choice) /\ IsOption(input.nodes) /\ IsOption(input.neighbors)
          BY <3>1, AnswersAssumption DEF InputOf, IsOption
    <3>3. output' # {} /\ \A o \in output' : Ran(input, o)
          BY <3>1, <3>2, MainOutcome
    <3> QED BY <3>1, <3>3 DEF ExampleRows, Answered, Complete, Ran
  <2>3. CASE \/ Converts \/ ConvertsVector \/ Reads \/ FindsInRow \/ FindsInTable
             \/ ParsesSpec \/ Logs
        BY <2>3 DEF ExampleRows, Answered, Converts, ConvertsVector, Reads, FindsInRow,
                    FindsInTable, ParsesSpec, Logs, Is, Calls
  <2> QED BY <2>1, <2>2, <2>3 DEF Next
<1> QED BY <1>1, <1>2, <1>3, InputStep, PTL DEF Spec

-----------------------------------------------------------------------------
(* Digits: reading and writing numbers.                                    *)

\* The digits of a text end at the first place that has none.
LEMMA DigitsEndIs ==
    ASSUME NEW s, Len(s) \in Nat, NEW p \in 0 .. Len(s)
    PROVE  /\ DigitsEnd(s, p) \in p .. Len(s)
           /\ ~IsInteger(At(s, DigitsEnd(s, p)))
           /\ \A k \in p .. DigitsEnd(s, p) - 1 : IsInteger(At(s, k))
<1> DEFINE D == p .. Len(s)
           Stops(q) == {k \in q .. Len(s) : ~IsInteger(At(s, k))}
           First(k, q) == k \in Stops(q) /\ \A j \in Stops(q) : k <= j
           Body(f) == [q \in D |-> IF IsInteger(At(s, q)) THEN f[q + 1] ELSE q]
<1>1. ~IsInteger(At(s, Len(s)))
      BY DEF IsInteger, At, Digits
<1>2. \A q \in D : \E k : First(k, q)
  <2> TAKE q \in D
  <2>1. Len(s) \in Stops(q) /\ Stops(q) \subseteq Nat
        BY <1>1
  <2> QED BY <2>1, Least
<1> DEFINE g == [q \in D |-> CHOOSE k : First(k, q)]
<1>3. \A q \in D : First(g[q], q)
      BY <1>2
<1>4. \A q \in D : g[q] = IF IsInteger(At(s, q)) THEN g[q + 1] ELSE q
  <2> SUFFICES ASSUME NEW q \in D PROVE g[q] = IF IsInteger(At(s, q)) THEN g[q + 1] ELSE q
      OBVIOUS
  <2> HIDE DEF g
  <2>1. CASE IsInteger(At(s, q))
    <3>1. q # Len(s)
          BY <1>1, <2>1
    <3>2. q + 1 \in D
          BY <3>1
    <3>3. First(g[q], q) /\ First(g[q + 1], q + 1)
          BY <1>3, <3>2
    <3>4. \A k \in Int : k \in q .. Len(s) <=> k = q \/ k \in q + 1 .. Len(s)
          BY <3>2
    <3>5. Stops(q + 1) = Stops(q)
          BY <2>1, <3>4
    <3> QED BY <2>1, <3>3, <3>5
  <2>2. CASE ~IsInteger(At(s, q))
    <3>1. q \in Stops(q)
          BY <2>2
    <3> QED BY <1>3, <2>2, <3>1
  <2> QED BY <2>1, <2>2
<1>5. g = Body(g)
      BY <1>4
<1> HIDE DEF g
<1> DEFINE end == CHOOSE f : f = Body(f)
<1>6. DigitsEnd(s, p) = end[p]
      BY DEF DigitsEnd
<1> HIDE DEF Body
<1>7. end = Body(end)
      BY <1>5, Zenon
<1>8. \A q \in D : end[q] = IF IsInteger(At(s, q)) THEN end[q + 1] ELSE q
      BY <1>7 DEF Body
<1> HIDE DEF end
<1>9. PICK e : First(e, p)
      BY <1>2
<1>10. e \in D /\ ~IsInteger(At(s, e)) /\ \A k \in p .. e - 1 : IsInteger(At(s, k))
      BY <1>9
<1> DEFINE P == {m \in 0 .. e - p : end[e - m] # e}
<1>11. P = {}
  <2> SUFFICES ASSUME P # {} PROVE FALSE
      OBVIOUS
  <2>1. PICK m \in P : \A k \in P : m <= k
    <3>1. P \subseteq Nat
          BY <1>10
    <3> HIDE DEF P
    <3> QED BY <3>1, Least
  <2>2. m # 0
        BY <1>8, <1>10, <2>1
  <2>3. m - 1 \in 0 .. e - p /\ m - 1 \notin P
        BY <1>10, <2>1, <2>2
  <2>4. e - m \in D /\ IsInteger(At(s, e - m)) /\ e - m + 1 = e - (m - 1)
        BY <1>10, <2>1, <2>2
  <2> QED BY <1>8, <2>1, <2>3, <2>4
<1>12. end[p] = e
  <2>1. e - p \in 0 .. e - p /\ e - (e - p) = p
        BY <1>10
  <2> QED BY <1>11, <2>1
<1> QED BY <1>6, <1>10, <1>12

\* The number of some digits: ten times that of those before the last, and the last.
Sum(s, p, f, k) == IF k = p THEN 0 ELSE 10 * f[k - 1] + DigitValue[s[k]]

\* Which is what Number does with each digit.
LEMMA NumberSteps ==
    ASSUME NEW s, NEW p \in Int
    PROVE  /\ Number(s, p, p) = 0
           /\ \A q \in Int : q > p => Number(s, p, q) = 10 * Number(s, p, q - 1) + DigitValue[s[q]]
<1> DEFINE Body(q, f) == [k \in p .. q |-> Sum(s, p, f, k)]
           Missing == {m \in Nat : ~\E f : f = Body(p + m, f)}
<1>1. Missing = {}
  <2> SUFFICES ASSUME Missing # {} PROVE FALSE
      OBVIOUS
  <2>1. PICK m \in Missing : \A k \in Missing : m <= k
        BY Least
  <2>2. m # 0
    <3> DEFINE f == [k \in p .. p |-> 0]
    <3>1. f = Body(p, f)
          BY DEF Sum
    <3> HIDE DEF Body, f
    <3>2. f = Body(p + 0, f)
      <4>1. p + 0 = p
            OBVIOUS
      <4> QED BY <3>1, <4>1
    <3> QED BY <2>1, <3>2
  <2>3. m - 1 \in Nat /\ m - 1 \notin Missing
    <3>1. m - 1 \in Nat /\ ~(m <= m - 1)
          BY <2>1, <2>2
    <3> HIDE DEF Missing
    <3> QED BY <2>1, <3>1
  <2>4. PICK f : f = Body(p + (m - 1), f)
        BY <2>3
  <2> DEFINE q == p + m
             g == [k \in p .. q |-> IF k = q THEN 10 * f[q - 1] + DigitValue[s[q]] ELSE f[k]]
  <2>5. ASSUME NEW k \in p .. q
        PROVE  g[k] = Sum(s, p, g, k)
    <3>1. CASE k = q
      <4>1. k # p /\ q - 1 \in p .. q /\ q - 1 # q
            BY <2>1, <2>2, <3>1
      <4>2. g[q - 1] = f[q - 1]
            BY <4>1
      <4>3. g[q] = 10 * f[q - 1] + DigitValue[s[q]]
            BY <2>5, <3>1
      <4> HIDE DEF g, q
      <4> QED BY <3>1, <4>1, <4>2, <4>3 DEF Sum
    <3>2. CASE k # q
      <4>1. k \in p .. p + (m - 1) /\ g[k] = f[k]
            BY <2>1, <2>2, <2>5, <3>2
      <4>2. f[k] = Sum(s, p, f, k)
            BY <2>4, <4>1
      <4>3. CASE k = p
            BY <4>1, <4>2, <4>3 DEF Sum
      <4>4. CASE k # p
        <5>1. k - 1 \in p .. q /\ k - 1 # q
              BY <2>1, <2>5, <3>2, <4>4
        <5>2. g[k - 1] = f[k - 1]
              BY <5>1
        <5> HIDE DEF g
        <5> QED BY <4>1, <4>2, <4>4, <5>2 DEF Sum
      <4> QED BY <4>3, <4>4
    <3> QED BY <3>1, <3>2
  <2>6. g = Body(q, g)
    <3> HIDE DEF g
    <3>1. g = [k \in p .. q |-> g[k]]
          BY DEF g
    <3> QED BY <2>5, <3>1
  <2> HIDE DEF Body, g
  <2> QED BY <2>1, <2>6
<1> DEFINE upto(q) == CHOOSE f : f = Body(q, f)
<1>2. \A q \in Int : Number(s, p, q) = upto(q)[q]
      BY DEF Number, Sum
<1>3. \A q \in Int : q >= p => \A k \in p .. q : upto(q)[k] = Sum(s, p, upto(q), k)
  <2> SUFFICES ASSUME NEW q \in Int, q >= p, NEW k \in p .. q
               PROVE  upto(q)[k] = Sum(s, p, upto(q), k)
      OBVIOUS
  <2>1. q - p \in Nat /\ p + (q - p) = q
        OBVIOUS
  <2>2. \E f : f = Body(q, f)
    <3> HIDE DEF Body
    <3> QED BY <1>1, <2>1
  <2>3. upto(q) = Body(q, upto(q))
    <3> HIDE DEF Body
    <3> QED BY <2>2, Zenon
  <2> HIDE DEF upto
  <2> QED BY <2>3
<1> HIDE DEF upto
<1>4. \A q \in Int : q > p => \A k \in p .. q - 1 : upto(q)[k] = upto(q - 1)[k]
  <2> SUFFICES ASSUME NEW q \in Int, q > p, NEW i \in p .. q - 1, upto(q)[i] # upto(q - 1)[i]
               PROVE  FALSE
      OBVIOUS
  <2> DEFINE P == {m \in Nat : p + m < q /\ upto(q)[p + m] # upto(q - 1)[p + m]}
  <2>1. i - p \in P
    <3>1. i - p \in Nat /\ p + (i - p) = i /\ i < q
          OBVIOUS
    <3> QED BY <3>1
  <2>2. PICK m \in P : \A k \in P : m <= k
        BY <2>1, Least
  <2> DEFINE j == p + m
  <2>3. /\ j \in p .. q /\ j \in p .. q - 1 /\ q >= p /\ q - 1 >= p
        BY <2>2
  <2>4. /\ upto(q)[j] = Sum(s, p, upto(q), j) /\ upto(q - 1)[j] = Sum(s, p, upto(q - 1), j)
        BY <1>3, <2>3
  <2>5. CASE j = p
        BY <2>2, <2>4, <2>5 DEF Sum
  <2>6. CASE j # p
    <3>1. m - 1 \in Nat /\ p + (m - 1) = j - 1 /\ p + (m - 1) < q /\ m - 1 < m
          BY <2>2, <2>6
    <3>2. upto(q)[j - 1] = upto(q - 1)[j - 1]
          BY <2>2, <3>1
    <3> QED BY <2>2, <2>4, <2>6, <3>2 DEF Sum
  <2> QED BY <2>5, <2>6
<1>5. Number(s, p, p) = 0
  <2>1. p \in p .. p
        OBVIOUS
  <2> QED BY <1>2, <1>3, <2>1 DEF Sum
<1>6. ASSUME NEW q \in Int, q > p
      PROVE  Number(s, p, q) = 10 * Number(s, p, q - 1) + DigitValue[s[q]]
  <2>1. q \in p .. q /\ q # p /\ q - 1 \in p .. q - 1 /\ q - 1 \in Int /\ q >= p
        BY <1>6
  <2>2. upto(q)[q] = 10 * upto(q)[q - 1] + DigitValue[s[q]]
        BY <1>3, <2>1 DEF Sum
  <2>3. upto(q)[q - 1] = upto(q - 1)[q - 1]
        BY <1>4, <1>6, <2>1
  <2> QED BY <1>2, <2>1, <2>2, <2>3
<1> QED BY <1>5, <1>6

\* The same characters behind place p of one text and place q of another.
Same(s, p, t, q, n) == \A i \in 1 .. n : s[p + i] = t[q + i]

\* The same digits elsewhere are the same number.
LEMMA SameNumber ==
    ASSUME NEW s, NEW t, NEW p \in Int, NEW q \in Int, NEW n \in Nat, Same(s, p, t, q, n)
    PROVE  Number(s, p, p + n) = Number(t, q, q + n)
<1> DEFINE P == {m \in Nat : m <= n /\ Number(s, p, p + m) # Number(t, q, q + m)}
<1> SUFFICES ASSUME P # {} PROVE FALSE
    OBVIOUS
<1>1. PICK m \in P : \A k \in P : m <= k
      BY Least
<1>2. m # 0
  <2>1. p + 0 = p /\ q + 0 = q
        OBVIOUS
  <2> QED BY <1>1, <2>1, NumberSteps
<1>3. m - 1 \in Nat /\ m - 1 <= n /\ ~(m <= m - 1)
      BY <1>1, <1>2
<1>4. Number(s, p, p + (m - 1)) = Number(t, q, q + (m - 1))
      BY <1>1, <1>3
<1>5. /\ p + m > p /\ p + m \in Int /\ p + (m - 1) = (p + m) - 1
      /\ q + m > q /\ q + m \in Int /\ q + (m - 1) = (q + m) - 1
      BY <1>1, <1>2
<1>6. Number(s, p, p + m) = 10 * Number(s, p, p + (m - 1)) + DigitValue[s[p + m]]
      BY <1>5, NumberSteps
<1>7. Number(t, q, q + m) = 10 * Number(t, q, q + (m - 1)) + DigitValue[t[q + m]]
      BY <1>5, NumberSteps
<1>8. s[p + m] = t[q + m]
      BY <1>1, <1>2 DEF Same
<1> QED BY <1>1, <1>4, <1>6, <1>7, <1>8

\* Digits are a natural number.
LEMMA NumberType ==
    ASSUME NEW s, NEW p \in Int, NEW n \in Nat, \A i \in 1 .. n : s[p + i] \in Digits
    PROVE  Number(s, p, p + n) \in Nat
<1> DEFINE P == {m \in Nat : m <= n /\ Number(s, p, p + m) \notin Nat}
<1> SUFFICES ASSUME P # {} PROVE FALSE
    OBVIOUS
<1>1. PICK m \in P : \A k \in P : m <= k
      BY Least
<1>2. m # 0
  <2>1. p + 0 = p
        OBVIOUS
  <2> QED BY <1>1, <2>1, NumberSteps
<1>3. m - 1 \in Nat /\ m - 1 <= n /\ ~(m <= m - 1)
      BY <1>1, <1>2
<1>4. Number(s, p, p + (m - 1)) \in Nat
      BY <1>1, <1>3
<1>5. p + m > p /\ p + m \in Int /\ p + (m - 1) = (p + m) - 1
      BY <1>1, <1>2
<1>6. Number(s, p, p + m) = 10 * Number(s, p, p + (m - 1)) + DigitValue[s[p + m]]
      BY <1>5, NumberSteps
<1>7. s[p + m] \in Digits
      BY <1>1, <1>2
<1>8. DigitValue[s[p + m]] \in Nat
      BY <1>7 DEF DigitValue, Digits
<1> QED BY <1>1, <1>4, <1>6, <1>8

\* The character of a digit.
LEMMA CharacterIs ==
    ASSUME NEW d \in 0 .. 9
    PROVE  Character[d] \in Digits /\ DigitValue[Character[d]] = d
<1>1. \E c \in Digits : DigitValue[c] = d
  <2>1. /\ DigitValue["0"] = 0 /\ DigitValue["1"] = 1 /\ DigitValue["2"] = 2
        /\ DigitValue["3"] = 3 /\ DigitValue["4"] = 4
        BY DEF DigitValue, Digits
  <2>2. /\ DigitValue["5"] = 5 /\ DigitValue["6"] = 6
        /\ DigitValue["7"] = 7 /\ DigitValue["8"] = 8 /\ DigitValue["9"] = 9
        BY DEF DigitValue, Digits
  <2>3. d \in {0, 1, 2, 3, 4, 5, 6, 7, 8, 9}
        OBVIOUS
  <2> HIDE DEF DigitValue
  <2> QED BY <2>1, <2>2, <2>3 DEF Digits
<1>2. Character[d] = CHOOSE c \in Digits : DigitValue[c] = d
      BY DEF Character
<1> QED BY <1>1, <1>2

\* The quotient and the last digit.
LEMMA LastDigit ==
    ASSUME NEW n \in Nat
    PROVE  /\ n \div 10 \in Nat /\ n % 10 \in 0 .. 9
           /\ n = 10 * (n \div 10) + (n % 10)
           /\ n >= 10 => n \div 10 < n /\ n \div 10 >= 1
<1>1. n \div 10 \in Nat
      OBVIOUS
<1>2. n % 10 \in 0 .. 9
      OBVIOUS
<1>3. n = 10 * (n \div 10) + (n % 10)
      OBVIOUS
<1>4. n >= 10 => n \div 10 < n
      OBVIOUS
<1>5. n >= 10 => n \div 10 >= 1
      OBVIOUS
<1> QED BY <1>1, <1>2, <1>3, <1>4, <1>5

\* The text of a number: that of the quotient, and the last digit.
Written(f, k) == IF k < 10 THEN <<Character[k]>> ELSE Append(f[k \div 10], Character[k % 10])

\* Which is what Decimal does with each digit.
LEMMA DecimalSteps ==
    ASSUME NEW n \in Nat
    PROVE  Decimal(n) =
              IF n < 10 THEN <<Character[n]>> ELSE Append(Decimal(n \div 10), Character[n % 10])
<1> DEFINE Body(m, f) == [k \in 0 .. m |-> Written(f, k)]
           Missing == {m \in Nat : ~\E f : f = Body(m, f)}
<1>1. Missing = {}
  <2> SUFFICES ASSUME Missing # {} PROVE FALSE
      OBVIOUS
  <2>1. PICK m \in Missing : \A k \in Missing : m <= k
        BY Least
  <2>2. m # 0
    <3> DEFINE f == [k \in 0 .. 0 |-> <<Character[k]>>]
    <3>1. f = Body(0, f)
          BY DEF Written
    <3> HIDE DEF Body, f
    <3> QED BY <2>1, <3>1
  <2>3. m - 1 \in Nat /\ m - 1 \notin Missing
    <3>1. m - 1 \in Nat /\ ~(m <= m - 1)
          BY <2>1, <2>2
    <3> HIDE DEF Missing
    <3> QED BY <2>1, <3>1
  <2>4. PICK f : f = Body(m - 1, f)
        BY <2>3
  <2> DEFINE g == [k \in 0 .. m |-> IF k = m THEN Written(f, m) ELSE f[k]]
  <2>5. ASSUME NEW k \in 0 .. m
        PROVE  g[k] = Written(g, k)
    <3>1. g[k] = Written(f, k)
      <4>1. CASE k = m
            BY <4>1
      <4>2. CASE k # m
        <5>1. k \in 0 .. m - 1
              BY <2>1, <2>5, <4>2
        <5> QED BY <2>4, <4>2, <5>1
      <4> QED BY <4>1, <4>2
    <3>2. CASE k < 10
          BY <3>1, <3>2 DEF Written
    <3>3. CASE ~(k < 10)
      <4>1. k \div 10 \in 0 .. m /\ k \div 10 # m
            BY <2>1, <2>5, <3>3, LastDigit
      <4>2. g[k \div 10] = f[k \div 10]
            BY <4>1
      <4> HIDE DEF g
      <4> QED BY <3>1, <3>3, <4>2 DEF Written
    <3> QED BY <3>2, <3>3
  <2>6. g = Body(m, g)
    <3> HIDE DEF g
    <3>1. g = [k \in 0 .. m |-> g[k]]
          BY DEF g
    <3> QED BY <2>5, <3>1
  <2> HIDE DEF Body, g
  <2> QED BY <2>1, <2>6
<1> DEFINE text(m) == CHOOSE f : f = Body(m, f)
<1>2. \A m \in Nat : Decimal(m) = text(m)[m]
      BY DEF Decimal, Written
<1>3. \A m \in Nat : \A k \in 0 .. m : text(m)[k] = Written(text(m), k)
  <2> SUFFICES ASSUME NEW m \in Nat, NEW k \in 0 .. m PROVE text(m)[k] = Written(text(m), k)
      OBVIOUS
  <2>1. \E f : f = Body(m, f)
    <3> HIDE DEF Body
    <3> QED BY <1>1
  <2>2. text(m) = Body(m, text(m))
    <3> HIDE DEF Body
    <3> QED BY <2>1, Zenon
  <2> HIDE DEF text
  <2> QED BY <2>2
<1> HIDE DEF text
<1>4. \A m, l \in Nat : \A k \in Nat : k <= m /\ k <= l => text(m)[k] = text(l)[k]
  <2> SUFFICES ASSUME NEW m \in Nat, NEW l \in Nat, NEW i \in Nat, i <= m, i <= l,
                      text(m)[i] # text(l)[i]
               PROVE  FALSE
      OBVIOUS
  <2> DEFINE P == {k \in Nat : k <= m /\ k <= l /\ text(m)[k] # text(l)[k]}
  <2>1. PICK k \in P : \A j \in P : k <= j
    <3>1. i \in P
          OBVIOUS
    <3> QED BY <3>1, Least
  <2>2. text(m)[k] = Written(text(m), k) /\ text(l)[k] = Written(text(l), k)
        BY <1>3, <2>1
  <2>3. CASE k < 10
        BY <2>1, <2>2, <2>3 DEF Written
  <2>4. CASE ~(k < 10)
    <3>1. k \div 10 \in Nat /\ k \div 10 < k
          BY <2>1, <2>4, LastDigit
    <3>2. text(m)[k \div 10] = text(l)[k \div 10]
          BY <2>1, <3>1
    <3> QED BY <2>1, <2>2, <2>4, <3>2 DEF Written
  <2> QED BY <2>3, <2>4
<1>5. text(n)[n] = Written(text(n), n)
      BY <1>3
<1>6. CASE n < 10
      BY <1>2, <1>5, <1>6 DEF Written
<1>7. CASE ~(n < 10)
  <2>1. n \div 10 \in Nat /\ n \div 10 <= n
        BY <1>7, LastDigit
  <2>2. text(n)[n \div 10] = Decimal(n \div 10)
        BY <1>2, <1>4, <2>1
  <2> QED BY <1>2, <1>5, <1>7, <2>2 DEF Written
<1> QED BY <1>6, <1>7

\* The text of a number is made of digits, and they are that number.
LEMMA DecimalIs ==
    ASSUME NEW n \in Nat
    PROVE  /\ Decimal(n) \in Seq(Digits)
           /\ Len(Decimal(n)) >= 1
           /\ Number(Decimal(n), 0, Len(Decimal(n))) = n
<1> DEFINE Good(m) == /\ Decimal(m) \in Seq(Digits)
                      /\ Len(Decimal(m)) >= 1
                      /\ Number(Decimal(m), 0, Len(Decimal(m))) = m
           P == {m \in Nat : ~Good(m)}
<1> SUFFICES ASSUME P # {} PROVE FALSE
    OBVIOUS
<1>1. PICK m \in P : \A k \in P : m <= k
  <2> HIDE DEF Good
  <2> QED BY Least
<1> DEFINE s == Decimal(m)
           c == Character[m % 10]
<1>2. CASE m < 10
  <2>1. m \in 0 .. 9
        BY <1>1, <1>2
  <2>2. s = <<Character[m]>>
        BY <1>1, <1>2, DecimalSteps
  <2>3. Character[m] \in Digits /\ DigitValue[Character[m]] = m
        BY <2>1, CharacterIs
  <2>4. s \in Seq(Digits) /\ Len(s) = 1 /\ s[1] = Character[m]
        BY <2>2, <2>3
  <2>5. Number(s, 0, 1) = 10 * Number(s, 0, 0) + DigitValue[s[1]] /\ Number(s, 0, 0) = 0
    <3>1. 1 \in Int /\ 1 > 0 /\ 1 - 1 = 0 /\ 0 \in Int
          OBVIOUS
    <3> QED BY <3>1, NumberSteps
  <2>6. Number(s, 0, 1) = m
        BY <2>1, <2>3, <2>4, <2>5
  <2>7. Number(s, 0, Len(s)) = m /\ Len(s) >= 1
        BY <2>4, <2>6
  <2> QED BY <1>1, <2>4, <2>7
<1>3. CASE ~(m < 10)
  <2> DEFINE t == Decimal(m \div 10)
  <2>1. /\ m \div 10 \in Nat /\ m \div 10 < m /\ m % 10 \in 0 .. 9
        /\ m = 10 * (m \div 10) + (m % 10)
        BY <1>1, <1>3, LastDigit
  <2>2. Good(m \div 10)
    <3>1. ~(m <= m \div 10)
          BY <1>1, <2>1
    <3> HIDE DEF Good
    <3> QED BY <1>1, <2>1, <3>1
  <2>3. s = Append(t, c)
        BY <1>1, <1>3, DecimalSteps
  <2>4. c \in Digits /\ DigitValue[c] = m % 10
        BY <2>1, CharacterIs
  <2>5. /\ s \in Seq(Digits) /\ Len(s) = Len(t) + 1 /\ Len(t) \in Nat /\ s[Len(s)] = c
        /\ \A i \in 1 .. Len(t) : s[i] = t[i]
    <3> HIDE DEF s, t, c
    <3>1. t \in Seq(Digits)
          BY <2>2 DEF t
    <3> QED BY <2>3, <2>4, <3>1
  <2>6. Number(s, 0, Len(t)) = Number(t, 0, Len(t))
    <3>1. Same(s, 0, t, 0, Len(t))
          BY <2>5 DEF Same
    <3>2. 0 + Len(t) = Len(t) /\ Len(t) \in Nat /\ 0 \in Int
          BY <2>5
    <3> HIDE DEF s, t
    <3>3. Number(s, 0, 0 + Len(t)) = Number(t, 0, 0 + Len(t))
          BY <3>1, <3>2, SameNumber
    <3> QED BY <3>2, <3>3
  <2>7. Number(s, 0, Len(s)) = 10 * Number(s, 0, Len(t)) + DigitValue[s[Len(s)]]
    <3>1. Len(s) > 0 /\ Len(s) \in Int /\ Len(s) - 1 = Len(t) /\ 0 \in Int
          BY <2>5
    <3> HIDE DEF s, t
    <3> QED BY <3>1, NumberSteps
  <2>8. Number(s, 0, Len(s)) = m /\ Len(s) >= 1
    <3> HIDE DEF s, c
    <3> QED BY <2>1, <2>2, <2>4, <2>5, <2>6, <2>7
  <2> HIDE DEF s
  <2> QED BY <1>1, <2>5, <2>8 DEF s
<1> QED BY <1>2, <1>3

\* The characters of numbers.
Chars == Digits \cup {"-", "."}

\* A text after a sign.
LEMMA SignedText ==
    ASSUME NEW n \in Int, NEW t \in Seq(Chars), Len(t) >= 1, t[1] # "-"
    PROVE  LET s == Sign(n) \o t
               p == IF n < 0 THEN 1 ELSE 0
           IN  /\ s \in Seq(Chars)
               /\ Len(s) = p + Len(t)
               /\ At(s, 0) = "-" <=> n < 0
               /\ \A i \in 1 .. Len(t) : s[p + i] = t[i]
<1>1. CASE n < 0
  <2> DEFINE s == <<"-">> \o t
  <2>1. /\ s \in Seq(Chars) /\ Len(s) = 1 + Len(t) /\ s[1] = "-"
        /\ \A i \in 1 .. Len(t) : s[1 + i] = t[i]
    <3>1. <<"-">> \in Seq(Chars) /\ Len(<<"-">>) = 1
          BY DEF Chars
    <3>2. s \in Seq(Chars)
          BY <3>1
    <3>3. Len(s) = 1 + Len(t)
          BY <3>1
    <3>4. s[1] = "-"
          BY <3>1
    <3>5. \A i \in 1 .. Len(t) : s[1 + i] = t[i]
          BY <3>1
    <3> QED BY <3>2, <3>3, <3>4, <3>5
  <2>2. Sign(n) \o t = s
        BY <1>1 DEF Sign
  <2>3. At(s, 0) = "-"
        BY <2>1 DEF At
  <2> HIDE DEF s
  <2> QED BY <1>1, <2>1, <2>2, <2>3
<1>2. CASE ~(n < 0)
  <2>1. Sign(n) \o t = t
        BY <1>2 DEF Sign
  <2>2. At(t, 0) # "-"
        BY DEF At
  <2>3. \A i \in 1 .. Len(t) : t[0 + i] = t[i]
        OBVIOUS
  <2> QED BY <1>2, <2>1, <2>2, <2>3
<1> QED BY <1>1, <1>2

\* An integer's text is read back as that integer, if it fits.
LEMMA IntegerRead ==
    ASSUME NEW n \in Int, NEW w, n \in IntRange(w)
    PROVE  FromChars(IntegerText(n), w) = [ec |-> "ok", val |-> n]
<1> DEFINE m == Magnitude(n)
           t == Decimal(m)
           s == IntegerText(n)
           p == IF n < 0 THEN 1 ELSE 0
<1>1. m \in Nat /\ n = IF n < 0 THEN -m ELSE m
      BY DEF Magnitude
<1>2. t \in Seq(Digits) /\ Len(t) >= 1 /\ Number(t, 0, Len(t)) = m
      BY <1>1, DecimalIs
<1>3. t \in Seq(Chars) /\ t[1] # "-" /\ Len(t) \in Nat /\ \A i \in 1 .. Len(t) : t[i] \in Digits
  <2>1. Digits \subseteq Chars /\ "-" \notin Digits
        BY DEF Digits, Chars
  <2>2. \A i \in 1 .. Len(t) : t[i] \in Digits
        BY <1>2
  <2>3. t \in Seq(Chars) /\ Len(t) \in Nat /\ 1 \in 1 .. Len(t)
        BY <1>2, <2>1
  <2> QED BY <2>1, <2>2, <2>3
<1> HIDE DEF m, t
<1>4. s = Sign(n) \o t
      BY DEF IntegerText, m, t
<1> HIDE DEF s
<1>5. /\ s \in Seq(Chars) /\ Len(s) = p + Len(t) /\ (At(s, 0) = "-" <=> n < 0)
      /\ \A i \in 1 .. Len(t) : s[p + i] = t[i]
      BY <1>2, <1>3, <1>4, SignedText
<1>6. DigitsEnd(s, p) = Len(s)
  <2> DEFINE q == DigitsEnd(s, p)
  <2>1. p \in 0 .. Len(s) /\ Len(s) \in Nat
        BY <1>3, <1>5
  <2>2. q \in p .. Len(s) /\ ~IsInteger(At(s, q))
        BY <2>1, DigitsEndIs
  <2>3. \A k \in p .. Len(s) - 1 : IsInteger(At(s, k))
    <3> SUFFICES ASSUME NEW k \in p .. Len(s) - 1 PROVE IsInteger(At(s, k))
        OBVIOUS
    <3>1. k + 1 - p \in 1 .. Len(t) /\ p + (k + 1 - p) = k + 1 /\ k < Len(s)
          BY <1>3, <1>5
    <3>2. s[k + 1] = t[k + 1 - p]
          BY <1>5, <3>1
    <3> QED BY <1>3, <3>1, <3>2 DEF At, IsInteger
  <2> HIDE DEF q, p
  <2> QED BY <2>1, <2>2, <2>3 DEF q
<1>7. Number(s, p, Len(s)) = m
  <2>1. Same(s, p, t, 0, Len(t))
        BY <1>3, <1>5 DEF Same
  <2>2. p \in Int /\ 0 \in Int /\ Len(t) \in Nat /\ 0 + Len(t) = Len(t) /\ p + Len(t) = Len(s)
        BY <1>3, <1>5
  <2> HIDE DEF p
  <2>3. Number(s, p, p + Len(t)) = Number(t, 0, 0 + Len(t))
        BY <2>1, <2>2, SameNumber
  <2>4. Number(s, p, Len(s)) = Number(s, p, p + Len(t))
        BY <2>2
  <2>5. Number(t, 0, 0 + Len(t)) = Number(t, 0, Len(t))
        BY <2>2
  <2> QED BY <1>2, <2>3, <2>4, <2>5
<1>8. p <= Len(s) /\ p # Len(s)
      BY <1>2, <1>3, <1>5
<1>9. CASE n < 0
  <2>1. At(s, 0) = "-" /\ 1 <= Len(s) /\ Len(s) # 1
        BY <1>5, <1>8, <1>9
  <2>2. DigitsEnd(s, 1) = Len(s) /\ Number(s, 1, Len(s)) = m
        BY <1>6, <1>7, <1>9
  <2>3. FromChars(s, w) = [ec |-> "ok", val |-> n]
        BY <1>1, <1>9, <2>1, <2>2 DEF FromChars
  <2> QED BY <2>3 DEF s
<1>10. CASE ~(n < 0)
  <2>1. At(s, 0) # "-" /\ 0 <= Len(s) /\ Len(s) # 0
        BY <1>5, <1>8, <1>10
  <2>2. DigitsEnd(s, 0) = Len(s) /\ Number(s, 0, Len(s)) = m
        BY <1>6, <1>7, <1>10
  <2>3. FromChars(s, w) = [ec |-> "ok", val |-> n]
        BY <1>1, <1>10, <2>1, <2>2 DEF FromChars
  <2> QED BY <2>3 DEF s
<1> QED BY <1>9, <1>10

\* Where digits end is told by the first character that is none.
LEMMA DigitsEndOf ==
    ASSUME NEW s, Len(s) \in Nat, NEW p \in 0 .. Len(s), NEW q \in p .. Len(s),
           \A k \in p .. q - 1 : IsInteger(At(s, k)), ~IsInteger(At(s, q))
    PROVE  DigitsEnd(s, p) = q
<1> DEFINE e == DigitsEnd(s, p)
<1>1. e \in p .. Len(s) /\ ~IsInteger(At(s, e)) /\ \A k \in p .. e - 1 : IsInteger(At(s, k))
      BY DigitsEndIs
<1> HIDE DEF e
<1>2. ~(e < q) /\ ~(q < e)
      BY <1>1
<1> QED BY <1>1, <1>2 DEF e

\* Ten times a number and a digit.
LEMMA OneMoreDigit ==
    ASSUME NEW m \in Nat, NEW c \in Digits, NEW d \in Seq(Digits),
           LET t == Decimal(m) IN
               Len(d) = Len(t) + 1 /\ (\A i \in 1 .. Len(t) : d[i] = t[i]) /\ d[Len(t) + 1] = c
    PROVE  Number(d, 0, Len(Decimal(m)) + 1) = 10 * m + DigitValue[c]
<1> DEFINE t == Decimal(m)
           n == Len(t)
<1>1. t \in Seq(Digits) /\ n \in Nat /\ Number(t, 0, n) = m
      BY DecimalIs
<1>2. n + 1 > 0 /\ n + 1 \in Int /\ (n + 1) - 1 = n /\ 0 \in Int /\ 0 + n = n
      BY <1>1
<1>3. Same(d, 0, t, 0, n)
      BY <1>1 DEF Same
<1>4. d[n + 1] = c
      OBVIOUS
<1> HIDE DEF t, n
<1>5. Number(d, 0, 0 + n) = Number(t, 0, 0 + n)
      BY <1>1, <1>2, <1>3, SameNumber
<1>6. Number(d, 0, n) = m
      BY <1>1, <1>2, <1>5
<1>7. Number(d, 0, n + 1) = 10 * Number(d, 0, n) + DigitValue[d[n + 1]]
      BY <1>2, NumberSteps
<1> QED BY <1>4, <1>6, <1>7 DEF t, n

\* A float's text with one decimal is parsed into its sign, its digits and that decimal.
LEMMA FloatParsed ==
    ASSUME NEW n \in Int, NEW t \in Nat, NEW neg \in BOOLEAN, neg <=> n < 0
    PROVE  LET s == Sign(n) \o Decimal(t \div 10) \o <<".">> \o Decimal(t % 10)
           IN  s # <<>> /\ parse_number_string(s) =
               [valid |-> TRUE, negative |-> neg, mantissa |-> t, exponent |-> -1]
<1> DEFINE a == Decimal(t \div 10)
           c == Character[t % 10]
           l == Len(a)
           p == IF n < 0 THEN 1 ELSE 0
           u == Sign(n) \o a
           s == u \o <<".">> \o <<c>>
           q == p + l
<1>1. t \div 10 \in Nat /\ t % 10 \in 0 .. 9 /\ t = 10 * (t \div 10) + (t % 10)
      BY LastDigit
<1>2. a \in Seq(Digits) /\ a \in Seq(Chars) /\ l \in Nat /\ l >= 1
  <2>1. Digits \subseteq Chars
        BY DEF Chars
  <2>2. a \in Seq(Digits) /\ l >= 1
        BY <1>1, DecimalIs
  <2> HIDE DEF a
  <2> QED BY <2>1, <2>2
<1>3. \A i \in 1 .. l : a[i] \in Digits
  <2> HIDE DEF a
  <2> QED BY <1>2
<1>4. c \in Digits /\ DigitValue[c] = t % 10 /\ c \in Chars
      BY <1>1, CharacterIs DEF Chars
<1>5. Decimal(t % 10) = <<c>>
  <2>1. t % 10 \in Nat /\ t % 10 < 10
        BY <1>1
  <2> QED BY <2>1, DecimalSteps
<1>6. "-" \notin Digits /\ "." \notin Digits
      BY DEF Digits
<1> HIDE DEF a, c
<1>7. /\ u \in Seq(Chars) /\ Len(u) = q /\ (At(u, 0) = "-" <=> n < 0)
      /\ \A i \in 1 .. l : u[p + i] = a[i]
  <2>1. a[1] # "-"
        BY <1>2, <1>3, <1>6
  <2> QED BY <1>2, <2>1, SignedText
<1> HIDE DEF u
<1>8. q \in Nat /\ q - p = l /\ q >= 1 /\ p \in 0 .. 1
      BY <1>2
<1>9. /\ s \in Seq(Chars) /\ Len(s) = q + 2 /\ s[q + 1] = "." /\ s[q + 2] = c
      /\ \A i \in 1 .. q : s[i] = u[i]
  <2>1. <<".">> \in Seq(Chars) /\ <<c>> \in Seq(Chars)
        BY <1>4 DEF Chars
  <2> HIDE DEF p, q
  <2> QED BY <1>7, <1>8, <2>1
<1> HIDE DEF s
<1>10. At(s, 0) = "-" <=> n < 0
      BY <1>7, <1>8, <1>9 DEF At
<1>11. \A k \in p .. q - 1 : At(s, k) \in Digits
  <2> SUFFICES ASSUME NEW k \in p .. q - 1 PROVE At(s, k) \in Digits
      OBVIOUS
  <2>1. k + 1 - p \in 1 .. l /\ p + (k + 1 - p) = k + 1 /\ k < Len(s) /\ k + 1 \in 1 .. q
        BY <1>2, <1>8, <1>9
  <2>2. s[k + 1] = a[k + 1 - p]
        BY <1>7, <1>9, <2>1
  <2> QED BY <1>3, <2>1, <2>2 DEF At
<1>12. At(s, q) = "." /\ At(s, q + 1) = c /\ At(s, q + 2) = "end"
      BY <1>8, <1>9 DEF At
<1> HIDE DEF p
<1>13. DigitsEnd(s, p) = q
  <2>1. Len(s) \in Nat /\ p \in 0 .. Len(s) /\ q \in p .. Len(s)
        BY <1>2, <1>8, <1>9
  <2>2. \A k \in p .. q - 1 : IsInteger(At(s, k))
        BY <1>11 DEF IsInteger
  <2>3. ~IsInteger(At(s, q))
        BY <1>6, <1>12 DEF IsInteger
  <2> HIDE DEF q
  <2> QED BY <2>1, <2>2, <2>3, DigitsEndOf
<1> HIDE DEF q
<1>14. DigitsEnd(s, q + 1) = q + 2
  <2>1. Len(s) \in Nat /\ q + 1 \in 0 .. Len(s) /\ q + 2 \in q + 1 .. Len(s)
        BY <1>8, <1>9
  <2>2. \A k \in q + 1 .. (q + 2) - 1 : IsInteger(At(s, k))
    <3>1. \A k \in q + 1 .. (q + 2) - 1 : k = q + 1
          BY <1>8
    <3> QED BY <1>4, <1>12, <3>1 DEF IsInteger
  <2>3. ~IsInteger(At(s, q + 2))
        BY <1>12 DEF IsInteger, Digits
  <2> QED BY <2>1, <2>2, <2>3, DigitsEndOf
<1> DEFINE d == SubSeq(s, p + 1, q) \o SubSeq(s, q + 2, q + 2)
<1>15. Number(d, 0, l + 1) = t
  <2> DEFINE x == SubSeq(s, p + 1, q)
             y == SubSeq(s, q + 2, q + 2)
  <2>1. x \in Seq(Chars) /\ Len(x) = l /\ \A i \in 1 .. l : x[i] = s[p + i]
        BY <1>2, <1>8, <1>9
  <2>2. y \in Seq(Chars) /\ Len(y) = 1 /\ y[1] = c
        BY <1>8, <1>9
  <2> HIDE DEF x, y
  <2>3. d = x \o y
        BY DEF x, y
  <2>4. /\ d \in Seq(Chars) /\ Len(d) = l + 1 /\ d[l + 1] = c
        /\ \A i \in 1 .. l : d[i] = x[i]
    <3> HIDE DEF d
    <3>1. /\ x \o y \in Seq(Chars)
          /\ Len(x \o y) = Len(x) + Len(y)
          /\ \A i \in 1 .. Len(x) + Len(y) :
                (x \o y)[i] = IF i <= Len(x) THEN x[i] ELSE y[i - Len(x)]
          BY <2>1, <2>2, ConcatProperties
    <3> QED BY <1>2, <2>1, <2>2, <2>3, <3>1
  <2> HIDE DEF d
  <2>5. \A i \in 1 .. l : d[i] = a[i]
    <3> SUFFICES ASSUME NEW i \in 1 .. l PROVE d[i] = a[i]
        OBVIOUS
    <3>1. p + i \in 1 .. q
          BY <1>2, <1>8
    <3> QED BY <1>7, <1>9, <2>1, <2>4, <3>1
  <2>6. d \in Seq(Digits)
    <3>1. \A i \in 1 .. Len(d) : d[i] \in Digits
          BY <1>2, <1>3, <1>4, <2>4, <2>5
    <3> QED BY <2>4, <3>1
  <2>7. Number(d, 0, l + 1) = 10 * (t \div 10) + DigitValue[c]
    <3>1. Len(Decimal(t \div 10)) = l /\ Decimal(t \div 10) = a
          BY DEF a
    <3> QED BY <1>1, <1>4, <2>4, <2>5, <2>6, <3>1, OneMoreDigit
  <2> QED BY <1>1, <1>4, <2>7
<1>16. n < 0 => IsInteger(At(s, 1))
  <2>1. n < 0 => 1 \in p .. q - 1
        BY <1>2, <1>8 DEF p
  <2> QED BY <1>11, <2>1 DEF IsInteger
<1>17. parse_number_string(s) =
           [valid |-> TRUE, negative |-> neg, mantissa |-> t, exponent |-> -1]
  <2>1. q - p + ((q + 2) - q - 1) = l + 1 /\ l + 1 # 0 /\ (q + 2) - q - 1 = 1
        BY <1>2, <1>8
  <2>2. "end" \notin {"e", "E"}
        OBVIOUS
  <2>3. \/ n < 0 /\ p = 1 /\ At(s, 0) = "-" /\ IsInteger(At(s, 1))
        \/ ~(n < 0) /\ p = 0 /\ At(s, 0) # "-"
        BY <1>10, <1>16 DEF p
  <2>4. CASE n < 0
    <3>1. p = 1 /\ At(s, 0) = "-" /\ IsInteger(At(s, 1))
          BY <2>3, <2>4
    <3> QED BY <1>12, <1>13, <1>14, <1>15, <2>1, <2>2, <2>4, <3>1 DEF parse_number_string
  <2>5. CASE ~(n < 0)
    <3>1. p = 0 /\ At(s, 0) # "-"
          BY <2>3, <2>5
    <3>2. /\ DigitsEnd(s, 0) = q /\ q - 0 + ((q + 2) - q - 1) = l + 1
          /\ Number(SubSeq(s, 0 + 1, q) \o SubSeq(s, q + 2, q + 2), 0, l + 1) = t
          BY <1>13, <1>15, <2>1, <3>1
    <3>3. neg = FALSE
          BY <2>5
    <3>4. parse_number_string(s) =
              [valid |-> TRUE, negative |-> FALSE, mantissa |-> t, exponent |-> -1]
          BY <1>12, <1>14, <2>1, <2>2, <3>1, <3>2, <3>3 DEF parse_number_string
    <3> QED BY <3>3, <3>4
  <2> QED BY <2>4, <2>5
<1>18. s # <<>>
      BY <1>8, <1>9
<1> QED BY <1>5, <1>17, <1>18 DEF s, u, a

\* A finite float's text is read back as a float that differs by the rounding.
LEMMA FloatRead ==
    ASSUME NEW n \in Int, NEW t \in Rounded(Magnitude(n)), DecimalsOf(t) <= MaxFloat + 1
    PROVE  LET s == Sign(n) \o Decimal(t \div 10) \o <<".">> \o Decimal(t % 10)
           IN  \E k \in Int : /\ from_chars(s) = [ec |-> "ok", val |-> Float("num", k)]
                              /\ k - n \in -5 .. 5
<1> DEFINE s == Sign(n) \o Decimal(t \div 10) \o <<".">> \o Decimal(t % 10)
           m == Magnitude(n)
           k == IF n < 0 THEN -(10 * t) ELSE 10 * t
<1>1. m \in Nat /\ n = IF n < 0 THEN -m ELSE m
      BY DEF Magnitude
<1>2. t \in Nat /\ 10 * t - m \in -5 .. 5
  <2>1. m \div 10 \in Nat
        BY <1>1, LastDigit
  <2> HIDE DEF m
  <2>2. t \in Nat /\ Magnitude(10 * t - m) <= 5
        BY <2>1 DEF Rounded, m
  <2> QED BY <1>1, <2>2 DEF Magnitude
<1>3. k \in Int /\ k - n \in -5 .. 5 /\ (t = 0 => k = 0)
  <2> HIDE DEF m
  <2> QED BY <1>1, <1>2
<1>4. PICK neg \in BOOLEAN : neg <=> n < 0
  <2>1. CASE n < 0
        BY <2>1
  <2>2. CASE ~(n < 0)
        BY <2>2
  <2> QED BY <2>1, <2>2
<1>5. /\ s # <<>>
      /\ parse_number_string(s) =
             [valid |-> TRUE, negative |-> neg, mantissa |-> t, exponent |-> -1]
      BY <1>2, <1>4, FloatParsed
<1> HIDE DEF s
<1>6. from_chars(s) = [ec |-> "ok", val |-> ToFloat(neg, t, -1)]
      BY <1>5 DEF from_chars, from_parts
<1>7. DecimalsOf(t) \in Nat /\ MaxFloat \in Nat
  <2>1. Decimal(t) \in Seq(Digits)
        BY <1>2, DecimalIs
  <2> QED BY <2>1, TextAssumption DEF DecimalsOf
<1>8. ToFloat(neg, t, -1) = Float("num", k)
  <2>1. -1 + 2 = 1 /\ 10 ^ 1 = 10 /\ 1 >= 0
        OBVIOUS
  <2>2. ~(DecimalsOf(t) + -1 > MaxFloat) /\ ~(DecimalsOf(t) + 1 < 0)
        BY <1>7
  <2>3. CASE t = 0
    <3>1. k = 0
          BY <1>3, <2>3
    <3> QED BY <2>1, <2>2, <2>3, <3>1 DEF ToFloat
  <2>4. CASE t # 0
    <3>1. t * 10 ^ 1 = 10 * t
          BY <1>2, <2>1
    <3> HIDE DEF k
    <3>2. k = IF neg THEN -(10 * t) ELSE 10 * t
          BY <1>4 DEF k
    <3> QED BY <2>1, <2>2, <2>4, <3>1, <3>2 DEF ToFloat
  <2> QED BY <2>3, <2>4
<1> HIDE DEF k
<1> QED BY <1>3, <1>6, <1>8 DEF s

\* What begins with neither a digit nor a sign nor a point is no number.
LEMMA NoNumber ==
    ASSUME NEW s, Len(s) \in Nat, Len(s) >= 1, s[1] \notin Chars, NEW w
    PROVE  /\ FromChars(s, w) = [ec |-> "invalid", val |-> 0]
           /\ parse_number_string(s) = Invalid
<1>1. At(s, 0) = s[1]
      BY DEF At
<1>2. At(s, 0) # "-" /\ At(s, 0) # "." /\ ~IsInteger(At(s, 0))
      BY <1>1 DEF Chars, IsInteger
<1>3. DigitsEnd(s, 0) = 0
  <2>1. 0 \in 0 .. Len(s) /\ \A k \in 0 .. 0 - 1 : IsInteger(At(s, k))
        OBVIOUS
  <2> QED BY <1>2, <2>1, DigitsEndOf
<1>4. FromChars(s, w) = [ec |-> "invalid", val |-> 0]
      BY <1>2, <1>3 DEF FromChars
<1>5. parse_number_string(s) = Invalid
  <2>1. 0 - 0 + 0 = 0
        OBVIOUS
  <2> QED BY <1>2, <1>3, <2>1 DEF parse_number_string
<1> QED BY <1>4, <1>5

\* A text begins with a word if the word's characters are its first.
LEMMA Begins ==
    ASSUME NEW s, IsSequence(s), NEW word, IsSequence(word)
    PROVE  StartsWith(s, word) <=>
               Len(s) >= Len(word) /\ \A i \in 1 .. Len(word) : s[i] = word[i]
<1> DEFINE n == Len(word)
           t == SubSeq(s, 1, n)
           S == {s[i] : i \in 1 .. Len(s)} \cup {word[i] : i \in 1 .. n}
<1>1. Len(s) \in Nat /\ n \in Nat /\ word \in Seq(S)
      BY SequenceIs DEF IsSequence
<1>2. CASE Len(s) >= n
  <2>1. \A i \in 1 .. n : s[i] \in S
        BY <1>1, <1>2
  <2> HIDE DEF S, n
  <2>2. t \in Seq(S) /\ Len(t) = n /\ \A i \in 1 .. n : t[i] = s[i]
        BY <1>1, <2>1, SubSeqProperties
  <2> HIDE DEF t
  <2>3. t = word <=> \A i \in 1 .. n : t[i] = word[i]
        BY <1>1, <2>2, SeqEqual DEF n
  <2> QED BY <1>2, <2>2, <2>3 DEF StartsWith, t, n
<1>3. CASE ~(Len(s) >= n)
      BY <1>3 DEF StartsWith
<1> QED BY <1>2, <1>3

\* Words of three and of four letters.
LEMMA ThreeLetters ==
    ASSUME NEW a, NEW b, NEW c
    PROVE  LET s == <<a, b, c>> IN
           IsSequence(s) /\ Len(s) = 3 /\ s[1] = a /\ s[2] = b /\ s[3] = c
<1> DEFINE s == <<a, b, c>>
<1>1. s = [i \in 1 .. 3 |-> s[i]]
      OBVIOUS
<1> QED BY <1>1, LengthOf

\* Four letters, the first of which is a sign in "-inf".
LEMMA FourLetters ==
    ASSUME NEW a, NEW b, NEW c, NEW d
    PROVE  LET s == <<a, b, c, d>> IN
           /\ IsSequence(s) /\ Len(s) = 4 /\ s[1] = a /\ s[2] = b /\ s[3] = c /\ s[4] = d
           /\ SubSeq(s, 2, 4) = <<b, c, d>>
<1> DEFINE s == <<a, b, c, d>>
           t == SubSeq(s, 2, 4)
           u == <<b, c, d>>
<1>1. s = [i \in 1 .. 4 |-> s[i]]
      OBVIOUS
<1>2. Len(s) = 4 /\ IsSequence(s)
      BY <1>1, LengthOf
<1>3. t = u
  <2>1. \A i \in 2 .. 4 : s[i] \in {b, c, d}
        OBVIOUS
  <2>2. t \in Seq({b, c, d}) /\ Len(t) = 3 /\ \A i \in 1 .. 3 : t[i] = s[i + 1]
        BY <2>1, SubSeqProperties
  <2>3. u \in Seq({b, c, d}) /\ Len(u) = 3 /\ \A i \in 1 .. 3 : u[i] = s[i + 1]
        OBVIOUS
  <2> HIDE DEF t, u
  <2> QED BY <2>2, <2>3, SeqEqual
<1> QED BY <1>2, <1>3

\* Words are read back as what they are, but for the one that FALSE becomes.
LEMMA WordsRead ==
    /\ txt2bol(True) = Value(Bol, TRUE) /\ txt2bol(Else) = Abort
    /\ from_chars(<<"n", "a", "n">>) = [ec |-> "ok", val |-> Float("nan", 0)]
    /\ from_chars(<<"i", "n", "f">>) = [ec |-> "ok", val |-> Float("inf", 0)]
    /\ from_chars(<<"-", "i", "n", "f">>) = [ec |-> "ok", val |-> Float("-inf", 0)]
<1>1. \A c \in {"t", "e", "n", "i"} : c \notin Chars
      BY DEF Chars, Digits
<1>2. txt2bol(True) = Value(Bol, TRUE)
  <2>1. IsSequence(True) /\ Len(True) = 4 /\ True[1] = "t"
        BY FourLetters DEF True
  <2>2. FromChars(True, W64).ec # "ok"
        BY <1>1, <2>1, NoNumber
  <2>3. StartsWith(True, True)
        BY <2>1, Begins
  <2> QED BY <2>2, <2>3 DEF txt2bol, BolOf
<1>3. txt2bol(Else) = Abort
  <2>1. IsSequence(Else) /\ Len(Else) = 4 /\ Else[1] = "e"
        BY FourLetters DEF Else
  <2>2. FromChars(Else, W64).ec # "ok"
        BY <1>1, <2>1, NoNumber
  <2>3. IsSequence(True) /\ Len(True) = 4 /\ True[1] # "e"
        BY FourLetters DEF True
  <2>4. IsSequence(UpperTrue) /\ Len(UpperTrue) = 4 /\ UpperTrue[1] # "e"
        BY FourLetters DEF UpperTrue
  <2>5. Len(False) = 5 /\ Len(UpperFalse) = 5
        BY DEF False, UpperFalse
  <2>6. /\ ~StartsWith(Else, True) /\ ~StartsWith(Else, UpperTrue)
        BY <2>1, <2>3, <2>4, Begins
  <2>7. ~StartsWith(Else, False) /\ ~StartsWith(Else, UpperFalse)
        BY <2>1, <2>5 DEF StartsWith
  <2> QED BY <2>2, <2>6, <2>7 DEF txt2bol, BolOf
<1>4. ASSUME NEW s, IsSequence(s), Len(s) = 3, s[1] \in {"n", "i"}
      PROVE  from_chars(s) = parse_infnan(s) /\ At(s, 0) # "-"
  <2>1. s[1] \notin Chars /\ s # <<>>
        BY <1>1, <1>4
  <2>2. parse_number_string(s) = Invalid
        BY <1>4, <2>1, NoNumber
  <2>3. At(s, 0) # "-"
        BY <1>4 DEF At
  <2> QED BY <2>1, <2>2, <2>3 DEF from_chars, from_parts, Invalid
<1> DEFINE nan == <<"n", "a", "n">>
           inf == <<"i", "n", "f">>
           minus == <<"-", "i", "n", "f">>
<1>5. /\ IsSequence(nan) /\ Len(nan) = 3 /\ nan[1] = "n"
      /\ IsSequence(inf) /\ Len(inf) = 3 /\ inf[1] = "i"
      BY ThreeLetters
<1>6. /\ IsSequence(minus) /\ Len(minus) = 4 /\ minus[1] = "-" /\ minus[2] = "i"
      /\ SubSeq(minus, 2, 4) = inf
      BY FourLetters
<1> HIDE DEF nan, inf, minus
<1>7. StartsWith(nan, nan) /\ StartsWith(inf, inf) /\ ~StartsWith(inf, nan)
      BY <1>5, Begins
<1>8. from_chars(nan) = [ec |-> "ok", val |-> Float("nan", 0)]
      BY <1>4, <1>5, <1>7 DEF parse_infnan, nan
<1>9. from_chars(inf) = [ec |-> "ok", val |-> Float("inf", 0)]
      BY <1>4, <1>5, <1>7 DEF parse_infnan, Infinite, nan, inf
<1>10. from_chars(minus) = [ec |-> "ok", val |-> Float("-inf", 0)]
  <2>1. At(minus, 0) = "-" /\ At(minus, 1) = "i" /\ minus # <<>>
        BY <1>6 DEF At
  <2>2. ~IsInteger(At(minus, 1)) /\ At(minus, 1) # "."
        BY <2>1 DEF IsInteger, Digits
  <2>3. parse_number_string(minus) = Invalid
        BY <2>1, <2>2 DEF parse_number_string
  <2>4. from_chars(minus) = parse_infnan(minus)
        BY <2>1, <2>3 DEF from_chars, from_parts, Invalid
  <2>5. parse_infnan(minus) = [ec |-> "ok", val |-> Float("-inf", 0)]
        BY <1>6, <1>7, <2>1 DEF parse_infnan, Infinite, nan, inf
  <2> QED BY <2>4, <2>5
<1> QED BY <1>2, <1>3, <1>8, <1>9, <1>10 DEF nan, inf, minus

\* Tags tell values apart.
LEMMA Tags ==
    /\ Scalars = {Bol, I32, I64, F32, F64} /\ Txt \notin Scalars /\ Nil \notin Scalars /\ Txt # Nil
    /\ Bol \notin {I32, I64, F32, F64} /\ I32 \notin {F32, F64} /\ I64 \notin {F32, F64}
    /\ I32 # I64 /\ F32 # F64
    /\ Abort.tag \notin Scalars \cup {Txt}
    /\ \A tag, of : Value(tag, of).tag = tag /\ Value(tag, of).of = of
BY DEF Scalars, Bol, I32, I64, F32, F64, Txt, Nil, Abort, Value

\* The texts of a value, and what a value is made of such a text.
LEMMA ValueReadBack ==
    ASSUME NEW tag \in Scalars \cup {Txt}, NEW of, IsOf(tag, of)
    PROVE  LET v == Value(tag, of) IN
           /\ into_string(v) # {}
           /\ \A t \in into_string(v) :
                 /\ t = Value(Txt, t.of)
                 /\ \E x : /\ to_type(tag, t) = {x}
                           /\ IF IsFalse(v) THEN x = Abort ELSE x = Value(tag, x.of) /\ Near(x, v)
<1> DEFINE v == Value(tag, of)
           Back(t) == \E x : /\ to_type(tag, t) = {x}
                             /\ IF IsFalse(v) THEN x = Abort ELSE x = Value(tag, x.of) /\ Near(x, v)
<1>1. v.tag = tag /\ v.of = of
      BY Tags
<1>2. CASE tag = Bol
  <2>1. of = TRUE \/ of = FALSE
        BY <1>2 DEF IsOf
  <2>2. \A s : to_type(Bol, Value(Txt, s)) = {txt2bol(s)}
        BY Tags DEF to_type, into_boolean, from_txt
  <2>3. CASE of = TRUE
    <3>1. into_string(v) = {Value(Txt, True)}
          BY <1>1, <1>2, <2>3, Tags DEF into_string
    <3>2. to_type(tag, Value(Txt, True)) = {v}
          BY <1>2, <2>2, <2>3, WordsRead
    <3>3. Near(v, v) /\ ~IsFalse(v)
          BY <1>1, <1>2, <2>3, Tags DEF Near, IsFalse
    <3> QED BY <1>1, <3>1, <3>2, <3>3, Tags
  <2>4. CASE of = FALSE
    <3>1. into_string(v) = {Value(Txt, Else)}
          BY <1>1, <1>2, <2>4, Tags DEF into_string
    <3>2. to_type(tag, Value(Txt, Else)) = {Abort}
          BY <1>2, <2>2, <2>4, WordsRead
    <3>3. IsFalse(v)
          BY <1>1, <1>2, <2>4 DEF IsFalse
    <3> QED BY <3>1, <3>2, <3>3, Tags
  <2> QED BY <2>1, <2>3, <2>4
<1>3. CASE tag \in {I32, I64}
  <2>1. of \in IntRange(Width(tag)) /\ of \in Int /\ ~IsFalse(v)
        BY <1>1, <1>3, Tags DEF IsOf, IsFalse, IntRange
  <2>2. into_string(v) = {Value(Txt, IntegerText(of))}
        BY <1>1, <1>3, Tags DEF into_string
  <2>3. FromChars(IntegerText(of), Width(tag)) = [ec |-> "ok", val |-> of]
        BY <2>1, IntegerRead
  <2>4. to_type(tag, Value(Txt, IntegerText(of))) = {v}
    <3>1. to_type(tag, Value(Txt, IntegerText(of))) = {from_txt(tag, IntegerText(of))}
          BY <1>3, Tags DEF to_type, into_number
    <3>2. from_txt(tag, IntegerText(of)) = Value(tag, of)
      <4>1. CASE tag = I32
            BY <2>3, <4>1, Tags DEF from_txt, txt2i32, Checked, Width
      <4>2. CASE tag = I64
            BY <2>3, <4>2, Tags DEF from_txt, txt2i64, Checked, Width
      <4> QED BY <1>3, <4>1, <4>2
    <3> QED BY <3>1, <3>2
  <2>5. Near(v, v)
        BY <1>1, <1>3, Tags DEF Near
  <2> QED BY <1>1, <2>1, <2>2, <2>4, <2>5, Tags
<1>4. CASE tag \in {F32, F64}
  <2>1. into_string(v) = {Value(Txt, t) : t \in FloatTexts(of)} /\ ~IsFalse(v)
        BY <1>1, <1>4, Tags DEF into_string, IsFalse
  <2>2. \A s : to_type(tag, Value(Txt, s)) = {Checked(tag, from_chars(s))}
        BY <1>4, Tags DEF to_type, into_number, from_txt, txt2f32, txt2f64
  <2>3. \A s, y : from_chars(s) = [ec |-> "ok", val |-> y] =>
                      to_type(tag, Value(Txt, s)) = {Value(tag, y)}
        BY <2>2 DEF Checked
  <2>4. \A y : Near(Value(tag, y), v) <=> y.cls = of.cls /\ y.of - of.of \in -5 .. 5
        BY <1>1, <1>4, Tags DEF Near
  <2>5. CASE of \in {Float(cls, 0) : cls \in {"inf", "-inf", "nan"}}
    <3>1. PICK s : FloatTexts(of) = {s} /\ from_chars(s) = [ec |-> "ok", val |-> of]
      <4>1. CASE of = Float("inf", 0)
            BY <4>1, WordsRead DEF FloatTexts, Float
      <4>2. CASE of = Float("-inf", 0)
            BY <4>2, WordsRead DEF FloatTexts, Float
      <4>3. CASE of = Float("nan", 0)
            BY <4>3, WordsRead DEF FloatTexts, Float
      <4> QED BY <2>5, <4>1, <4>2, <4>3
    <3>2. into_string(v) = {Value(Txt, s)} /\ to_type(tag, Value(Txt, s)) = {v}
          BY <2>1, <2>3, <3>1
    <3>3. Near(v, v)
      <4>1. of.of = 0
            BY <2>5 DEF Float
      <4> QED BY <2>4, <4>1
    <3> QED BY <1>1, <2>1, <3>2, <3>3, Tags
  <2>6. CASE /\ of.of \in Int
             /\ of = Float("num", of.of)
             /\ \A t \in Rounded(Magnitude(of.of)) : DecimalsOf(t) <= MaxFloat + 1
    <3> DEFINE n == of.of
               Shown(t) == Sign(n) \o Decimal(t \div 10) \o <<".">> \o Decimal(t % 10)
    <3>1. of.cls = "num" /\ n \in Int
          BY <2>6 DEF Float
    <3>2. into_string(v) = {Value(Txt, Shown(t)) : t \in Rounded(Magnitude(n))}
      <4>1. FloatTexts(of) = {Shown(t) : t \in Rounded(Magnitude(n))}
            BY <3>1 DEF FloatTexts
      <4> QED BY <2>1, <4>1
    <3>3. Rounded(Magnitude(n)) # {}
      <4>1. Magnitude(n) \in Nat
            BY <3>1 DEF Magnitude
      <4> DEFINE m == Magnitude(n)
      <4>2. m \div 10 \in Nat /\ m % 10 \in 0 .. 9 /\ m = 10 * (m \div 10) + (m % 10)
            BY <4>1, LastDigit
      <4> HIDE DEF m
      <4>3. \/ Magnitude(10 * (m \div 10) - m) <= 5
            \/ Magnitude(10 * (m \div 10 + 1) - m) <= 5
            BY <4>1, <4>2 DEF Magnitude, m
      <4> QED BY <4>3 DEF Rounded, m
    <3>4. ASSUME NEW t \in Rounded(Magnitude(n))
          PROVE  Back(Value(Txt, Shown(t)))
      <4>1. DecimalsOf(t) <= MaxFloat + 1
            BY <2>6
      <4>2. PICK k \in Int : /\ from_chars(Shown(t)) = [ec |-> "ok", val |-> Float("num", k)]
                             /\ k - n \in -5 .. 5
            BY <3>1, <4>1, FloatRead
      <4> HIDE DEF Shown
      <4>3. to_type(tag, Value(Txt, Shown(t))) = {Value(tag, Float("num", k))}
            BY <2>3, <4>2
      <4>4. Near(Value(tag, Float("num", k)), v)
        <5>1. Float("num", k).cls = "num" /\ Float("num", k).of = k
              BY DEF Float
        <5> QED BY <2>4, <3>1, <4>2, <5>1
      <4> QED BY <2>1, <4>3, <4>4, Tags
    <3> HIDE DEF Back, Shown
    <3>5. into_string(v) # {} /\ \A t \in into_string(v) : t = Value(Txt, t.of) /\ Back(t)
          BY <3>2, <3>3, <3>4, Tags
    <3> QED BY <3>5 DEF Back
  <2> QED BY <1>4, <2>5, <2>6, Tags DEF IsOf
<1>5. CASE tag = Txt
  <2>1. into_string(v) = {v} /\ to_type(tag, v) = {v} /\ ~IsFalse(v)
        BY <1>1, <1>5, Tags DEF into_string, to_type, IsFalse
  <2>2. Near(v, v)
        BY <1>1, <1>5, Tags DEF Near
  <2> QED BY <1>1, <1>5, <2>1, <2>2
<1> QED BY <1>2, <1>3, <1>4, <1>5, Tags

\* Values of a type at each place, none of which aborts.
Possible(tag, outcomes, D) ==
    /\ outcomes = [i \in D |-> outcomes[i]]
    /\ \A i \in D : /\ outcomes[i] # {}
                    /\ \A o \in outcomes[i] : o = Value(tag, o.of) /\ o # Abort

\* The vectors that may be made of them.
LEMMA ElementsOf ==
    ASSUME NEW tag, NEW outcomes, NEW D, Possible(tag, outcomes, D)
    PROVE  /\ Elements(tag, outcomes) # {}
           /\ \A vec \in Elements(tag, outcomes) :
                 /\ vec = Vector(tag, vec.data) /\ DOMAIN vec.data = D
                 /\ \A i \in D : Value(tag, vec.data[i]) \in outcomes[i]
<1> DEFINE All == UNION {{o.of : o \in outcomes[i]} : i \in D}
           Fits(d) == \A i \in D : Value(tag, d[i]) \in outcomes[i]
<1> USE DEF Possible
<1>1. DOMAIN outcomes = D
      OBVIOUS
<1>2. ~\E i \in D : outcomes[i] = {Abort}
      OBVIOUS
<1>3. Elements(tag, outcomes) = {Vector(tag, d) : d \in {x \in [D -> All] : Fits(x)}}
      BY <1>1, <1>2 DEF Elements
<1> DEFINE d == [i \in D |-> (CHOOSE o \in outcomes[i] : TRUE).of]
<1>4. \A i \in D : Value(tag, d[i]) \in outcomes[i] /\ d[i] \in All
  <2> SUFFICES ASSUME NEW i \in D PROVE Value(tag, d[i]) \in outcomes[i] /\ d[i] \in All
      OBVIOUS
  <2> DEFINE o == CHOOSE o \in outcomes[i] : TRUE
  <2>1. o \in outcomes[i]
        OBVIOUS
  <2>2. d[i] = o.of /\ o = Value(tag, o.of)
        BY <2>1
  <2> HIDE DEF o, d
  <2> QED BY <2>1, <2>2
<1>5. d \in [D -> All] /\ Fits(d)
      BY <1>4
<1>6. Elements(tag, outcomes) # {}
  <2> HIDE DEF d, Fits, All
  <2> QED BY <1>3, <1>5
<1>7. ASSUME NEW vec \in Elements(tag, outcomes)
      PROVE  /\ vec = Vector(tag, vec.data) /\ DOMAIN vec.data = D
             /\ \A i \in D : Value(tag, vec.data[i]) \in outcomes[i]
  <2> HIDE DEF All
  <2>1. PICK x \in [D -> All] : Fits(x) /\ vec = Vector(tag, x)
        BY <1>3
  <2>2. vec.data = x
        BY <2>1 DEF Vector
  <2> QED BY <2>1, <2>2
<1> QED BY <1>6, <1>7

\* A vector is converted value by value.
LEMMA VectorOf ==
    ASSUME NEW tag \in Scalars \cup {Txt}, NEW from \in Scalars \cup {Txt}, NEW data
    PROVE  to_vector(tag, Vector(from, data)) =
               Elements(tag, [i \in DOMAIN data |-> to_type(tag, Value(from, data[i]))])
<1> DEFINE vec == Vector(from, data)
<1>1. vec.tag = from /\ vec.data = data /\ from # Nil
      BY Tags DEF Vector
<1>2. CASE tag = Bol
      BY <1>1, <1>2, Tags DEF to_vector, to_type_vector, into_boolean_vector, to_type
<1>3. CASE tag = Txt
      BY <1>1, <1>3, Tags DEF to_vector, to_type_vector, into_string_vector, to_type
<1>4. CASE tag \notin {Bol, Txt}
      BY <1>1, <1>4, Tags DEF to_vector, to_type_vector, into_number_vector, to_type
<1> QED BY <1>2, <1>3, <1>4

\* The vectors that a vector becomes by way of texts.
LEMMA VectorReadBack ==
    ASSUME NEW tag \in Scalars \cup {Txt}, NEW data, \A i \in DOMAIN data : IsOf(tag, data[i])
    PROVE  LET out == UNION {to_vector(tag, t) : t \in to_vector(Txt, Vector(tag, data))} IN
           /\ out # {}
           /\ \A new \in out :
                 IF \E i \in DOMAIN data : IsFalse(Value(tag, data[i]))
                 THEN new = NoVector
                 ELSE /\ new.tag = tag /\ DOMAIN new.data = DOMAIN data
                      /\ \A i \in DOMAIN data : Near(Value(tag, new.data[i]), Value(tag, data[i]))
<1> DEFINE D == DOMAIN data
           old(i) == Value(tag, data[i])
           texts == [i \in D |-> into_string(old(i))]
<1>1. \A i \in D : /\ texts[i] # {}
                   /\ \A t \in texts[i] : t = Value(Txt, t.of) /\ t # Abort
  <2> SUFFICES ASSUME NEW i \in D
               PROVE  /\ texts[i] # {}
                      /\ \A t \in texts[i] : t = Value(Txt, t.of) /\ t # Abort
      OBVIOUS
  <2>1. /\ into_string(old(i)) # {}
        /\ \A t \in into_string(old(i)) : t = Value(Txt, t.of)
        BY ValueReadBack
  <2> QED BY <2>1, Tags
<1>2. to_vector(Txt, Vector(tag, data)) = Elements(Txt, texts)
  <2>1. \A v : to_type(Txt, v) = into_string(v)
        BY Tags DEF to_type
  <2>2. to_vector(Txt, Vector(tag, data)) = Elements(Txt, [i \in D |-> to_type(Txt, old(i))])
        BY VectorOf
  <2> QED BY <2>1, <2>2
<1>3. texts = [i \in D |-> texts[i]]
      OBVIOUS
<1>4. \A i \in D : texts[i] = into_string(old(i))
      OBVIOUS
<1> HIDE DEF texts
<1>5. /\ Elements(Txt, texts) # {}
      /\ \A vec \in Elements(Txt, texts) :
            /\ vec = Vector(Txt, vec.data) /\ DOMAIN vec.data = D
            /\ \A i \in D : Value(Txt, vec.data[i]) \in into_string(old(i))
  <2>1. Possible(Txt, texts, D)
        BY <1>1, <1>3 DEF Possible
  <2> HIDE DEF D, old
  <2> QED BY <1>4, <2>1, ElementsOf
<1> DEFINE Good(new) ==
               IF \E i \in D : IsFalse(old(i))
               THEN new = NoVector
               ELSE /\ new.tag = tag /\ DOMAIN new.data = D
                    /\ \A i \in D : Near(Value(tag, new.data[i]), old(i))
<1>6. ASSUME NEW vec \in Elements(Txt, texts)
      PROVE  to_vector(tag, vec) # {} /\ \A new \in to_vector(tag, vec) : Good(new)
  <2> DEFINE back == [i \in D |-> to_type(tag, Value(Txt, vec.data[i]))]
  <2>1. to_vector(tag, vec) = Elements(tag, back)
        BY <1>5, VectorOf
  <2>2. \A i \in D : \E x : /\ back[i] = {x}
                            /\ IF IsFalse(old(i)) THEN x = Abort
                               ELSE x = Value(tag, x.of) /\ Near(x, old(i))
    <3> SUFFICES ASSUME NEW i \in D
                 PROVE  \E x : /\ back[i] = {x}
                               /\ IF IsFalse(old(i)) THEN x = Abort
                                  ELSE x = Value(tag, x.of) /\ Near(x, old(i))
        OBVIOUS
    <3>1. Value(Txt, vec.data[i]) \in into_string(old(i))
          BY <1>5
    <3>2. back[i] = to_type(tag, Value(Txt, vec.data[i]))
          OBVIOUS
    <3> HIDE DEF back
    <3> QED BY <3>1, <3>2, ValueReadBack
  <2>3. DOMAIN back = D /\ back = [i \in D |-> back[i]]
        OBVIOUS
  <2> HIDE DEF back
  <2>4. CASE \E i \in D : IsFalse(old(i))
    <3>1. \E i \in DOMAIN back : back[i] = {Abort}
          BY <2>2, <2>3, <2>4
    <3>2. Elements(tag, back) = {NoVector}
          BY <3>1 DEF Elements
    <3> QED BY <2>1, <2>4, <3>2
  <2>5. CASE ~\E i \in D : IsFalse(old(i))
    <3>1. \A i \in D : /\ back[i] # {}
                       /\ \A o \in back[i] : o = Value(tag, o.of) /\ o # Abort /\ Near(o, old(i))
      <4> HIDE DEF old
      <4> QED BY <2>2, <2>5, Tags
    <3>2. /\ Elements(tag, back) # {}
          /\ \A new \in Elements(tag, back) :
                /\ new = Vector(tag, new.data) /\ DOMAIN new.data = D
                /\ \A i \in D : Value(tag, new.data[i]) \in back[i]
      <4>1. Possible(tag, back, D)
            BY <2>3, <3>1 DEF Possible
      <4> HIDE DEF old, D
      <4> QED BY <4>1, ElementsOf
    <3>3. \A new \in Elements(tag, back) : new.tag = tag
          BY <3>2 DEF Vector
    <3> QED BY <2>1, <2>5, <3>1, <3>2, <3>3
  <2> QED BY <2>4, <2>5
<1> HIDE DEF Good
<1>7. LET out == UNION {to_vector(tag, t) : t \in Elements(Txt, texts)} IN
      out # {} /\ \A new \in out : Good(new)
      BY <1>5, <1>6
<1> QED BY <1>2, <1>7 DEF Good

\* TextRoundTrip for every value and vector, and integers of any width: the text that a
\* value becomes (conv.hpp 155-172, 292-346) is read back as that value (conv.hpp 15-134),
\* but for FALSE, whose text aborts the guest.
THEOREM RoundTrip == Spec => []TextRoundTrip
<1>1. Init => InputOf
      BY DEF Init, InputOf
<1>2. Init => TextRoundTrip
      BY DEF Init, TextRoundTrip, Answered
<1>3. InputOf /\ TextRoundTrip /\ [Next]_vars => TextRoundTrip'
  <2> SUFFICES ASSUME InputOf, TextRoundTrip, [Next]_vars PROVE TextRoundTrip'
      OBVIOUS
  <2>1. CASE UNCHANGED vars
        BY <2>1 DEF TextRoundTrip, Answered, vars
  <2>2. CASE Converts
    <3> DEFINE v == input.v
    <3>1. /\ input.fn = "to_txt" /\ input' = input
          /\ output' = UNION {to_type(v.tag, t) : t \in to_type(Txt, v)}
          BY <2>2 DEF Converts, Is, Calls, to_value
    <3>2. v \in Numbers
          BY <3>1 DEF InputOf
    <3>3. v = Value(v.tag, v.of) /\ IsOf(v.tag, v.of) /\ v.tag \in Scalars \cup {Txt}
      <4>1. v = Value(v.tag, v.of) /\ IsOf(v.tag, v.of)
            BY <3>2, ConversionsAssumption
      <4> QED BY <4>1, Tags DEF IsOf
    <3>4. to_type(Txt, v) = into_string(v)
          BY Tags DEF to_type
    <3> HIDE DEF v
    <3>5. /\ into_string(v) # {}
          /\ \A t \in into_string(v) :
                \E x : /\ to_type(v.tag, t) = {x}
                       /\ IF IsFalse(v) THEN x = Abort ELSE Near(x, v)
          BY <3>3, ValueReadBack
    <3>6. output' # {} /\ \A x \in output' : IF IsFalse(v) THEN x = Abort ELSE Near(x, v)
          BY <3>1, <3>4, <3>5
    <3> QED BY <3>1, <3>6 DEF TextRoundTrip, Answered, v
  <2>3. CASE ConvertsVector
    <3> DEFINE v == input.v
    <3>1. /\ input.fn = "to_txt_vector" /\ input' = input
          /\ output' = UNION {to_vector(v.tag, t) : t \in to_vector(Txt, v)}
          BY <2>3 DEF ConvertsVector, Is, Calls
    <3>2. v \in Vectors
          BY <3>1 DEF InputOf
    <3>3. /\ v = Vector(v.tag, v.data) /\ v.tag \in Scalars \cup {Txt}
          /\ \A i \in DOMAIN v.data : IsOf(v.tag, v.data[i])
          BY <3>2, ConversionsAssumption
    <3> HIDE DEF v
    <3>4. /\ output' # {}
          /\ \A new \in output' :
                IF \E i \in DOMAIN v.data : IsFalse(Value(v.tag, v.data[i]))
                THEN new = NoVector
                ELSE /\ new.tag = v.tag /\ DOMAIN new.data = DOMAIN v.data
                     /\ \A i \in DOMAIN v.data :
                           Near(Value(v.tag, new.data[i]), Value(v.tag, v.data[i]))
          BY <3>1, <3>3, VectorReadBack
    <3> QED BY <3>1, <3>4 DEF TextRoundTrip, Answered, v
  <2>4. CASE \/ Reads \/ FindsInRow \/ FindsInTable \/ ParsesSpec \/ Logs \/ RunsExample
        BY <2>4 DEF TextRoundTrip, Answered, Reads, FindsInRow, FindsInTable, ParsesSpec,
                    Logs, RunsExample, Is, Calls
  <2> QED BY <2>1, <2>2, <2>3, <2>4 DEF Next
<1> QED BY <1>1, <1>2, <1>3, InputStep, PTL DEF Spec

-----------------------------------------------------------------------------
(* Stretches of a text, and the mantissas and exponents among them.        *)

\* The characters of a text from place a to place b, counted from 0.
Span(s, a, b) == SubSeq(s, a + 1, b)

\* Its length and its characters.
LEMMA SpanIs ==
    ASSUME NEW s, IsSequence(s), NEW a \in Nat, NEW b \in a .. Len(s)
    PROVE  /\ IsSequence(Span(s, a, b)) /\ Len(Span(s, a, b)) = b - a
           /\ DOMAIN Span(s, a, b) = 1 .. b - a
           /\ \A i \in 1 .. b - a : /\ Span(s, a, b)[i] = s[a + i]
                                    /\ Span(s, a, b)[i] = At(s, a + i - 1)
                                    /\ At(Span(s, a, b), i - 1) = At(s, a + i - 1)
<1> DEFINE t == Span(s, a, b)
           S == {s[i] : i \in 1 .. Len(s)}
<1>1. Len(s) \in Nat
      BY SequenceIs
<1>2. \A i \in a + 1 .. b : s[i] \in S
      BY <1>1
<1>3. /\ t \in Seq(S) /\ Len(t) = IF a + 1 <= b THEN b - (a + 1) + 1 ELSE 0
      /\ \A i \in 1 .. b - (a + 1) + 1 : t[i] = s[a + 1 + i - 1]
  <2>1. a + 1 \in Int /\ b \in Int
        BY <1>1
  <2> HIDE DEF S
  <2> QED BY <1>2, <2>1, SubSeqProperties DEF Span
<1> HIDE DEF t, S
<1>4. Len(t) = b - a /\ \A i \in 1 .. b - a : t[i] = s[a + i]
      BY <1>1, <1>3
<1>5. DOMAIN t = 1 .. b - a /\ t = [i \in 1 .. b - a |-> t[i]]
      BY <1>3, <1>4
<1>6. IsSequence(t)
  <2>1. b - a \in Nat
        BY <1>1
  <2> QED BY <1>5, <2>1, LengthOf
<1>7. ASSUME NEW i \in 1 .. b - a
      PROVE  t[i] = At(s, a + i - 1) /\ At(t, i - 1) = At(s, a + i - 1)
  <2>1. a + i - 1 < Len(s) /\ (a + i - 1) + 1 = a + i /\ i - 1 < Len(t) /\ (i - 1) + 1 = i
        BY <1>1, <1>4
  <2> QED BY <1>4, <2>1 DEF At
<1> QED BY <1>4, <1>5, <1>6, <1>7 DEF t

\* A stretch of a stretch.
LEMMA SpanOfSpan ==
    ASSUME NEW s, IsSequence(s), NEW a \in Nat, NEW b \in a .. Len(s),
           NEW c \in Nat, NEW d \in c .. b - a
    PROVE  Span(Span(s, a, b), c, d) = Span(s, a + c, a + d)
<1> DEFINE t == Span(s, a, b)
           x == Span(t, c, d)
           y == Span(s, a + c, a + d)
<1>1. Len(s) \in Nat
      BY SequenceIs
<1>2. IsSequence(t) /\ Len(t) = b - a /\ \A i \in 1 .. b - a : t[i] = s[a + i]
      BY SpanIs
<1>3. IsSequence(x) /\ Len(x) = d - c /\ \A i \in 1 .. d - c : x[i] = t[c + i]
  <2>1. d \in c .. Len(t) /\ IsSequence(t)
        BY <1>2
  <2> HIDE DEF t
  <2>2. /\ IsSequence(Span(t, c, d)) /\ Len(Span(t, c, d)) = d - c
        /\ \A i \in 1 .. d - c : Span(t, c, d)[i] = t[c + i]
        BY <2>1, SpanIs
  <2> QED BY <2>2
<1>4. /\ IsSequence(y) /\ Len(y) = (a + d) - (a + c)
      /\ \A i \in 1 .. (a + d) - (a + c) : y[i] = s[(a + c) + i]
  <2>1. a + c \in Nat /\ a + d \in a + c .. Len(s)
        BY <1>1
  <2> QED BY <2>1, SpanIs
<1>5. d - c \in Nat /\ (a + d) - (a + c) = d - c
      BY <1>1
<1> HIDE DEF t, x, y
<1>6. \A i \in 1 .. d - c : x[i] = y[i]
  <2> TAKE i \in 1 .. d - c
  <2>1. c + i \in 1 .. b - a /\ a + (c + i) = (a + c) + i
        BY <1>1
  <2> QED BY <1>2, <1>3, <1>4, <1>5, <2>1
<1>7. x = [i \in 1 .. d - c |-> x[i]] /\ y = [i \in 1 .. d - c |-> y[i]]
      BY <1>3, <1>4, <1>5, SequenceIs
<1>8. x = y
      BY <1>6, <1>7
<1> QED BY <1>8 DEF t, x, y

\* The characters from place a to place b are digits.
Digital(s, a, b) == \A k \in a .. b - 1 : IsInteger(At(s, k))

\* A stretch is made of digits if there are digits at its place.
LEMMA SpanDigits ==
    ASSUME NEW s, IsSequence(s), NEW a \in Nat, NEW b \in a .. Len(s)
    PROVE  AreDigits(Span(s, a, b)) <=> Digital(s, a, b)
<1> DEFINE t == Span(s, a, b)
<1>1. Len(s) \in Nat
      BY SequenceIs
<1>2. DOMAIN t = 1 .. b - a /\ \A i \in 1 .. b - a : t[i] = At(s, a + i - 1)
      BY SpanIs
<1> HIDE DEF t
<1>3. ASSUME AreDigits(t), NEW k \in a .. b - 1 PROVE IsInteger(At(s, k))
  <2>1. k - a + 1 \in 1 .. b - a /\ a + (k - a + 1) - 1 = k
        BY <1>1
  <2>2. t[k - a + 1] = At(s, k) /\ t[k - a + 1] \in Digits
        BY <1>2, <1>3, <2>1 DEF AreDigits
  <2> QED BY <2>2 DEF IsInteger
<1>4. ASSUME Digital(s, a, b), NEW i \in 1 .. b - a PROVE t[i] \in Digits
  <2>1. a + i - 1 \in a .. b - 1
        BY <1>1
  <2> QED BY <1>2, <1>4, <2>1 DEF Digital, IsInteger
<1>5. AreDigits(t) <=> Digital(s, a, b)
      BY <1>2, <1>3, <1>4 DEF AreDigits, Digital
<1> QED BY <1>5 DEF t

\* A mantissa and an exponent from place a to place b.
Mantissa(s, a, b) ==
    \/ a < b /\ Digital(s, a, b)
    \/ /\ b - a > 1
       /\ \E i \in a .. b - 1 : At(s, i) = "." /\ Digital(s, a, i) /\ Digital(s, i + 1, b)
AfterE(s, a) == IF At(s, a + 1) \in {"+", "-"} THEN a + 2 ELSE a + 1
Exponent(s, a, b) ==
    \/ a = b
    \/ /\ b - a > 1 /\ At(s, a) \in {"e", "E"}
       /\ AfterE(s, a) < b /\ Digital(s, AfterE(s, a), b)

\* A stretch is a mantissa if there is one at its place.
LEMMA SpanMantissa ==
    ASSUME NEW s, IsSequence(s), NEW a \in Nat, NEW b \in a .. Len(s)
    PROVE  IsMantissa(Span(s, a, b)) <=> Mantissa(s, a, b)
<1> DEFINE t == Span(s, a, b)
<1>1. Len(s) \in Nat
      BY SequenceIs
<1>2. /\ IsSequence(t) /\ Len(t) = b - a /\ DOMAIN t = 1 .. b - a
      /\ \A i \in 1 .. b - a : t[i] = At(s, a + i - 1)
      BY SpanIs
<1>3. AreDigits(t) <=> Digital(s, a, b)
      BY SpanDigits
<1>4. t # <<>> <=> a < b
  <2>1. CASE a < b
    <3>1. Len(t) # 0
          BY <1>1, <1>2, <2>1
    <3> QED BY <2>1, <3>1
  <2>2. CASE ~(a < b)
    <3>1. DOMAIN t = {} /\ t = [i \in DOMAIN t |-> t[i]]
          BY <1>1, <1>2, <2>2, SequenceIs
    <3>2. <<>> = [i \in {} |-> t[i]]
          OBVIOUS
    <3> HIDE DEF t
    <3>3. t = [i \in {} |-> t[i]]
          BY <3>1
    <3> QED BY <2>2, <3>2, <3>3
  <2> QED BY <2>1, <2>2
<1>5. ASSUME NEW i \in 1 .. b - a
      PROVE  LET k == a + i - 1 IN
             /\ k \in a .. b - 1 /\ t[i] = At(s, k)
             /\ AreDigits(SubSeq(t, 1, i - 1)) <=> Digital(s, a, k)
             /\ AreDigits(SubSeq(t, i + 1, Len(t))) <=> Digital(s, k + 1, b)
  <2> DEFINE k == a + i - 1
  <2>1. k \in a .. b - 1 /\ i - 1 \in 0 .. b - a /\ b - a \in i .. b - a /\ i \in Nat
        /\ a + (i - 1) = k /\ a + i = k + 1 /\ a + (b - a) = b /\ a + 0 = a
        BY <1>1
  <2>2. SubSeq(t, 1, i - 1) = Span(s, a, k)
    <3>1. SubSeq(t, 1, i - 1) = Span(t, 0, i - 1)
          BY DEF Span
    <3>2. Span(t, 0, i - 1) = Span(s, a + 0, a + (i - 1))
          BY <2>1, SpanOfSpan
    <3> HIDE DEF t, k
    <3> QED BY <2>1, <3>1, <3>2
  <2>3. SubSeq(t, i + 1, Len(t)) = Span(s, k + 1, b)
    <3>1. SubSeq(t, i + 1, Len(t)) = Span(t, i, b - a)
          BY <1>2 DEF Span
    <3>2. Span(t, i, b - a) = Span(s, a + i, a + (b - a))
          BY <2>1, SpanOfSpan
    <3> HIDE DEF t, k
    <3> QED BY <2>1, <3>1, <3>2
  <2>4. AreDigits(Span(s, a, k)) <=> Digital(s, a, k)
    <3>1. k \in a .. Len(s)
          BY <1>1, <2>1
    <3> QED BY <3>1, SpanDigits
  <2>5. AreDigits(Span(s, k + 1, b)) <=> Digital(s, k + 1, b)
    <3>1. k + 1 \in Nat /\ b \in k + 1 .. Len(s)
          BY <1>1, <2>1
    <3> QED BY <3>1, SpanDigits
  <2> HIDE DEF t, k
  <2>6. t[i] = At(s, k)
        BY <1>2 DEF k
  <2> QED BY <2>1, <2>2, <2>3, <2>4, <2>5, <2>6 DEF k
<1> HIDE DEF t
<1>6. Len(t) > 1 <=> b - a > 1
      BY <1>2
<1>7. ASSUME IsMantissa(t) PROVE Mantissa(s, a, b)
  <2>1. CASE t # <<>> /\ AreDigits(t)
        BY <1>3, <1>4, <2>1 DEF Mantissa
  <2>2. CASE \E i \in 1 .. b - a : /\ t[i] = "." /\ Len(t) > 1 /\ AreDigits(SubSeq(t, 1, i - 1))
                                   /\ AreDigits(SubSeq(t, i + 1, Len(t)))
        BY <1>5, <1>6, <2>2 DEF Mantissa
  <2> QED BY <1>2, <1>7, <2>1, <2>2 DEF IsMantissa
<1>8. ASSUME Mantissa(s, a, b) PROVE IsMantissa(t)
  <2>1. CASE a < b /\ Digital(s, a, b)
        BY <1>3, <1>4, <2>1 DEF IsMantissa
  <2>2. ASSUME b - a > 1, NEW k \in a .. b - 1, At(s, k) = ".", Digital(s, a, k),
               Digital(s, k + 1, b)
        PROVE  IsMantissa(t)
    <3> DEFINE i == k - a + 1
    <3>1. i \in 1 .. b - a /\ a + i - 1 = k
          BY <1>1
    <3> HIDE DEF i
    <3>2. t[i] = "." /\ AreDigits(SubSeq(t, 1, i - 1)) /\ AreDigits(SubSeq(t, i + 1, Len(t)))
          BY <1>5, <2>2, <3>1
    <3> QED BY <1>2, <1>6, <2>2, <3>1, <3>2 DEF IsMantissa
  <2> QED BY <1>8, <2>1, <2>2 DEF Mantissa
<1> QED BY <1>7, <1>8 DEF t

\* A stretch is an exponent, or none, if there is one at its place.
LEMMA SpanExponent ==
    ASSUME NEW s, IsSequence(s), NEW a \in Nat, NEW b \in a .. Len(s)
    PROVE  IsExponent(Span(s, a, b)) <=> Exponent(s, a, b)
<1> DEFINE t == Span(s, a, b)
<1>1. Len(s) \in Nat
      BY SequenceIs
<1>2. /\ IsSequence(t) /\ Len(t) = b - a /\ DOMAIN t = 1 .. b - a
      /\ \A i \in 1 .. b - a : t[i] = At(s, a + i - 1)
      BY SpanIs
<1>3. t = <<>> <=> a = b
  <2>1. CASE a # b
    <3>1. Len(t) # 0
          BY <1>1, <1>2, <2>1
    <3> QED BY <2>1, <3>1
  <2>2. CASE a = b
    <3>1. DOMAIN t = {} /\ t = [i \in DOMAIN t |-> t[i]]
          BY <1>1, <1>2, <2>2, SequenceIs
    <3>2. <<>> = [i \in {} |-> t[i]]
          OBVIOUS
    <3> HIDE DEF t
    <3>3. t = [i \in {} |-> t[i]]
          BY <3>1
    <3> QED BY <2>2, <3>2, <3>3
  <2> QED BY <2>1, <2>2
<1>4. CASE b - a > 1
  <2> DEFINE d == IF t[2] \in {"+", "-"} THEN 3 ELSE 2
             e == AfterE(s, a)
  <2>1. Len(t) >= 2 /\ t[1] = At(s, a) /\ t[2] = At(s, a + 1) /\ a # b
    <3>1. a + 1 - 1 = a /\ a + 2 - 1 = a + 1 /\ 1 \in 1 .. b - a /\ 2 \in 1 .. b - a
          BY <1>1, <1>4
    <3> HIDE DEF t
    <3> QED BY <1>1, <1>2, <1>4, <3>1
  <2> HIDE DEF t
  <2>2. e = a + d - 1 /\ d \in 2 .. 3 /\ e \in Nat
        BY <2>1 DEF AfterE
  <2> HIDE DEF d, e
  <2>3. d <= Len(t) <=> e < b
        BY <1>1, <1>2, <2>2
  <2>4. ASSUME e < b PROVE AreDigits(SubSeq(t, d, Len(t))) <=> Digital(s, e, b)
    <3>1. d - 1 \in Nat /\ b - a \in d - 1 .. b - a /\ a + (d - 1) = e /\ a + (b - a) = b
          /\ (d - 1) + 1 = d /\ b \in e .. Len(s)
          BY <1>1, <2>2, <2>4
    <3>2. Span(Span(s, a, b), d - 1, b - a) = Span(s, a + (d - 1), a + (b - a))
          BY <3>1, SpanOfSpan
    <3>3. SubSeq(t, d, Len(t)) = Span(s, e, b)
      <4>1. Span(t, d - 1, b - a) = SubSeq(t, (d - 1) + 1, b - a)
            BY DEF Span
      <4> QED BY <1>2, <3>1, <3>2, <4>1 DEF t
    <3> QED BY <2>2, <3>1, <3>3, SpanDigits
  <2>5. IsExponent(t) <=> /\ t[1] \in {"e", "E"} /\ d <= Len(t) /\ AreDigits(SubSeq(t, d, Len(t)))
        BY <1>3, <2>1 DEF IsExponent, d
  <2>6. Exponent(s, a, b) <=> At(s, a) \in {"e", "E"} /\ e < b /\ Digital(s, e, b)
        BY <1>4, <2>1 DEF Exponent, e
  <2> QED BY <2>1, <2>3, <2>4, <2>5, <2>6 DEF t
<1>5. CASE ~(b - a > 1)
  <2>1. ~(Len(t) >= 2)
        BY <1>1, <1>2, <1>5
  <2> HIDE DEF t
  <2> QED BY <1>3, <1>5, <2>1 DEF IsExponent, Exponent, t
<1> QED BY <1>4, <1>5

\* A stretch is empty when its ends meet.
LEMMA EmptySpan ==
    ASSUME NEW s, IsSequence(s), NEW a \in Nat, NEW b \in a .. Len(s)
    PROVE  Span(s, a, b) = <<>> <=> a = b
<1> DEFINE t == Span(s, a, b)
<1>1. IsSequence(t) /\ Len(t) = b - a /\ DOMAIN t = 1 .. b - a /\ Len(s) \in Nat
      BY SpanIs, SequenceIs
<1>2. CASE a # b
  <2>1. Len(t) # 0
        BY <1>1, <1>2
  <2> QED BY <1>2, <2>1
<1>3. CASE a = b
  <2>1. DOMAIN t = {} /\ t = [i \in DOMAIN t |-> t[i]]
        BY <1>1, <1>3, SequenceIs
  <2>2. <<>> = [i \in {} |-> t[i]]
        OBVIOUS
  <2> HIDE DEF t
  <2>3. t = [i \in {} |-> t[i]]
        BY <2>1
  <2> QED BY <1>3, <2>2, <2>3 DEF t
<1> QED BY <1>2, <1>3

\* The place behind a minus sign.
Start(s) == IF At(s, 0) = "-" THEN 1 ELSE 0

\* It is behind a first character that is a minus sign, and else at the beginning.
LEMMA StartIs ==
    ASSUME NEW s, IsSequence(s)
    PROVE  /\ Start(s) \in 0 .. Len(s) /\ Start(s) \in 0 .. 1
           /\ Start(s) = 1 <=> Len(s) >= 1 /\ s[1] = "-"
<1>1. Len(s) \in Nat
      BY SequenceIs
<1>2. CASE Len(s) = 0
      BY <1>1, <1>2 DEF Start, At
<1>3. CASE Len(s) # 0
  <2>1. At(s, 0) = s[1]
        BY <1>1, <1>3 DEF At
  <2> QED BY <1>1, <1>3, <2>1 DEF Start
<1> QED BY <1>2, <1>3

\* What follows the sign in the first k characters.
LEMMA PrefixUnsigned ==
    ASSUME NEW s, IsSequence(s), NEW k \in 0 .. Len(s)
    PROVE  /\ Unsigned(SubSeq(s, 1, k)) = IF k < Start(s) THEN <<>> ELSE Span(s, Start(s), k)
           /\ Len(SubSeq(s, 1, k)) = k
           /\ k >= 1 => SubSeq(s, 1, k)[1] = s[1]
<1> DEFINE t == Span(s, 0, k)
           p == Start(s)
<1>1. Len(s) \in Nat /\ p \in 0 .. Len(s) /\ p \in 0 .. 1 /\ (p = 1 <=> Len(s) >= 1 /\ s[1] = "-")
      BY SequenceIs, StartIs
<1>2. SubSeq(s, 1, k) = t
      BY DEF Span
<1>3. /\ IsSequence(t) /\ Len(t) = k
      /\ \A i \in 1 .. k : t[i] = s[0 + i]
  <2>1. k - 0 = k /\ 0 \in Nat /\ k \in 0 .. Len(s)
        OBVIOUS
  <2> QED BY <2>1, SpanIs
<1>4. k >= 1 => t[1] = s[1]
  <2>1. k >= 1 => 1 \in 1 .. k /\ 0 + 1 = 1
        OBVIOUS
  <2> QED BY <1>3, <2>1
<1>5. t = <<>> <=> k = 0
      BY EmptySpan
<1> HIDE DEF t, p
<1>6. CASE k < p
  <2>1. k = 0
        BY <1>1, <1>6
  <2> QED BY <1>2, <1>3, <1>4, <1>5, <1>6, <2>1 DEF Unsigned, p
<1>7. CASE ~(k < p) /\ p = 1
  <2>1. k >= 1 /\ t # <<>> /\ t[1] = "-"
        BY <1>1, <1>4, <1>5, <1>7
  <2>2. Tail(t) = SubSeq(t, 2, Len(t))
    <3>1. t \in Seq({t[i] : i \in 1 .. Len(t)})
          BY <1>3 DEF IsSequence
    <3> QED BY <2>1, <3>1, TailIsSubSeq
  <2>3. SubSeq(t, 2, Len(t)) = Span(t, 1, k)
    <3>1. 1 + 1 = 2
          OBVIOUS
    <3> QED BY <1>3, <3>1 DEF Span
  <2>4. Span(t, 1, k) = Span(s, 1, k)
    <3>1. 1 \in Nat /\ k \in 1 .. k - 0 /\ 0 + 1 = 1 /\ 0 + k = k
          BY <2>1
    <3>2. Span(Span(s, 0, k), 1, k) = Span(s, 0 + 1, 0 + k)
          BY <3>1, SpanOfSpan
    <3> QED BY <3>1, <3>2 DEF t
  <2> QED BY <1>2, <1>3, <1>4, <1>7, <2>1, <2>2, <2>3, <2>4 DEF Unsigned, p
<1>8. CASE ~(k < p) /\ p = 0
  <2>1. t # <<>> => t[1] # "-"
        BY <1>1, <1>4, <1>5, <1>8
  <2> QED BY <1>2, <1>3, <1>4, <1>8, <2>1 DEF Unsigned, p, t
<1> QED BY <1>1, <1>6, <1>7, <1>8

\* The longest of some prefixes.
LEMMA LongestIs ==
    ASSUME NEW s, IsSequence(s), NEW texts, texts \subseteq Prefixes(s), NEW n \in 0 .. Len(s),
           SubSeq(s, 1, n) \in texts,
           \A k \in 0 .. Len(s) : SubSeq(s, 1, k) \in texts => k <= n
    PROVE  Longest(texts) = SubSeq(s, 1, n)
<1> DEFINE x == Longest(texts)
           y == SubSeq(s, 1, n)
<1>1. \A t \in texts : \E k \in 0 .. Len(s) : t = SubSeq(s, 1, k) /\ Len(t) = k
      BY PrefixUnsigned DEF Prefixes
<1>2. y \in texts /\ \A t \in texts : Len(t) <= Len(y)
  <2>1. Len(y) = n
        BY PrefixUnsigned
  <2> HIDE DEF y
  <2> QED BY <1>1, <2>1 DEF y
<1>3. x \in texts /\ \A t \in texts : Len(t) <= Len(x)
      BY <1>2 DEF Longest
<1> HIDE DEF x
<1>4. PICK k \in 0 .. Len(s) : x = SubSeq(s, 1, k) /\ Len(x) = k
      BY <1>1, <1>3
<1>5. Len(y) = n
      BY PrefixUnsigned
<1>6. k <= n /\ n <= k
  <2>1. k <= n
        BY <1>3, <1>4
  <2>2. Len(y) <= Len(x)
        BY <1>2, <1>3
  <2> QED BY <1>4, <1>5, <2>1, <2>2
<1>7. k = n
      BY <1>6
<1> QED BY <1>4, <1>7 DEF x

\* Characters are digits as far as the digits go.
LEMMA DigitalTo ==
    ASSUME NEW s, IsSequence(s), NEW p \in 0 .. Len(s), NEW k \in p .. Len(s)
    PROVE  Digital(s, p, k) <=> k <= DigitsEnd(s, p)
<1> DEFINE q == DigitsEnd(s, p)
<1>1. /\ q \in p .. Len(s) /\ ~IsInteger(At(s, q))
      /\ \A j \in p .. q - 1 : IsInteger(At(s, j))
      BY SequenceIs, DigitsEndIs
<1> HIDE DEF q
<1>2. ASSUME k <= q PROVE Digital(s, p, k)
      BY <1>1, <1>2 DEF Digital
<1>3. ASSUME Digital(s, p, k), ~(k <= q) PROVE FALSE
  <2>1. q \in p .. k - 1
        BY <1>1, <1>3
  <2> QED BY <1>1, <1>3, <2>1 DEF Digital
<1> QED BY <1>2, <1>3 DEF q

\* A stretch of digits is the number at its place.
LEMMA SpanNumber ==
    ASSUME NEW s, IsSequence(s), NEW a \in Nat, NEW b \in a .. Len(s)
    PROVE  Number(Span(s, a, b), 0, Len(Span(s, a, b))) = Number(s, a, b)
<1> DEFINE t == Span(s, a, b)
<1>1. /\ Len(t) = b - a /\ b - a \in Nat /\ a \in Int /\ 0 \in Int
      /\ 0 + (b - a) = b - a /\ a + (b - a) = b
      BY SpanIs, SequenceIs
<1>2. Same(t, 0, s, a, b - a)
      BY SpanIs DEF Same
<1> HIDE DEF t
<1>3. Number(t, 0, 0 + (b - a)) = Number(s, a, a + (b - a))
      BY <1>1, <1>2, SameNumber
<1> QED BY <1>1, <1>3 DEF t

\* An integer is read from the longest numeral a text begins with (conv.hpp 15-76).
LEMMA IntegerIs ==
    ASSUME NEW s, IsSequence(s), NEW w
    PROVE  LET ints == Leading(s, IsInt)
               n == IntOf(Longest(ints))
           IN  FromChars(s, w) = IF ints = {} THEN [ec |-> "invalid", val |-> 0]
                                 ELSE IF n \in IntRange(w) THEN [ec |-> "ok", val |-> n]
                                 ELSE [ec |-> "range", val |-> 0]
<1> DEFINE ints == Leading(s, IsInt)
           p == Start(s)
           q == DigitsEnd(s, p)
           t == SubSeq(s, 1, q)
<1>1. Len(s) \in Nat /\ p \in 0 .. Len(s) /\ p \in 0 .. 1 /\ (p = 1 <=> Len(s) >= 1 /\ s[1] = "-")
      BY SequenceIs, StartIs
<1>2. q \in p .. Len(s)
      BY <1>1, DigitsEndIs
<1>3. ASSUME NEW k \in 0 .. Len(s)
      PROVE  IsInt(SubSeq(s, 1, k)) <=> p < k /\ k <= q
  <2>1. Unsigned(SubSeq(s, 1, k)) = IF k < p THEN <<>> ELSE Span(s, p, k)
        BY PrefixUnsigned
  <2>2. CASE k < p
        BY <1>1, <2>1, <2>2 DEF IsInt
  <2>3. CASE ~(k < p)
    <3>1. k \in p .. Len(s) /\ p \in Nat
          BY <1>1, <2>3
    <3>2. /\ Span(s, p, k) = <<>> <=> p = k
          /\ AreDigits(Span(s, p, k)) <=> Digital(s, p, k)
          /\ Digital(s, p, k) <=> k <= q
          BY <1>1, <3>1, EmptySpan, SpanDigits, DigitalTo
    <3> HIDE DEF p, q
    <3> QED BY <1>1, <2>1, <2>3, <3>1, <3>2 DEF IsInt
  <2> QED BY <2>2, <2>3
<1> HIDE DEF q
<1>4. ints = {u \in Prefixes(s) : IsInt(u)}
      BY DEF Leading
<1>5. CASE q = p
  <2>1. ints = {}
    <3> HIDE DEF p, ints
    <3>1. \A k \in 0 .. Len(s) : ~IsInt(SubSeq(s, 1, k))
          BY <1>1, <1>2, <1>3, <1>5
    <3> QED BY <1>4, <3>1 DEF Prefixes
  <2>2. FromChars(s, w) = [ec |-> "invalid", val |-> 0]
        BY <1>1, <1>5 DEF FromChars, Start, q
  <2> QED BY <2>1, <2>2
<1>6. CASE q # p
  <2>1. t \in ints
        BY <1>1, <1>2, <1>3, <1>4, <1>6 DEF Prefixes
  <2>2. Longest(ints) = t
    <3>1. ints \subseteq Prefixes(s) /\ q \in 0 .. Len(s)
          BY <1>1, <1>2, <1>4
    <3>2. \A k \in 0 .. Len(s) : SubSeq(s, 1, k) \in ints => k <= q
          BY <1>3, <1>4
    <3> HIDE DEF ints
    <3> QED BY <2>1, <3>1, <3>2, LongestIs
  <2>3. IntOf(t) = IF p = 1 THEN -Number(s, p, q) ELSE Number(s, p, q)
    <3>1. q \in 0 .. Len(s) /\ q >= 1 /\ ~(q < p)
          BY <1>1, <1>2, <1>6
    <3>2. Unsigned(t) = Span(s, p, q) /\ t[1] = s[1]
          BY <3>1, PrefixUnsigned
    <3>3. Number(Unsigned(t), 0, Len(Unsigned(t))) = Number(s, p, q)
          BY <1>1, <1>2, <3>2, SpanNumber
    <3>4. t[1] = "-" <=> p = 1
          BY <1>1, <1>2, <1>6, <3>2
    <3> HIDE DEF t, p
    <3> QED BY <3>3, <3>4 DEF IntOf
  <2>4. FromChars(s, w) = LET n == IF p = 1 THEN -Number(s, p, q) ELSE Number(s, p, q)
                          IN  IF n \in IntRange(w) THEN [ec |-> "ok", val |-> n]
                              ELSE [ec |-> "range", val |-> 0]
    <3>1. CASE At(s, 0) = "-"
      <4>1. p = 1 /\ 1 <= Len(s) /\ q = DigitsEnd(s, 1)
            BY <1>1, <3>1 DEF Start, q
      <4> HIDE DEF p, q
      <4> QED BY <1>6, <3>1, <4>1 DEF FromChars
    <3>2. CASE At(s, 0) # "-"
      <4>1. p = 0 /\ 0 <= Len(s) /\ q = DigitsEnd(s, 0)
            BY <1>1, <3>2 DEF Start, q
      <4> HIDE DEF p, q
      <4> QED BY <1>6, <3>2, <4>1 DEF FromChars
    <3> QED BY <3>1, <3>2
  <2> HIDE DEF ints, t, p
  <2>5. ints # {}
        BY <2>1
  <2> QED BY <2>2, <2>3, <2>4, <2>5 DEF ints
<1> QED BY <1>5, <1>6

-----------------------------------------------------------------------------
(* The longest numeral of a text, and what is read of it.                  *)

\* The places at which parse_number_string stops: the point or what ends the digits, the
\* end of the mantissa, the end of the numeral; and the number of decimals.
Whole(s) == DigitsEnd(s, Start(s))
Pointed(s) == At(s, Whole(s)) = "."
MantissaEnd(s) == IF Pointed(s) THEN DigitsEnd(s, Whole(s) + 1) ELSE Whole(s)
NumeralEnd(s) ==
    LET r == MantissaEnd(s)
    IN  IF At(s, r) \in {"e", "E"} /\ IsInteger(At(s, AfterE(s, r)))
        THEN DigitsEnd(s, AfterE(s, r)) ELSE r
Decimals(s) == IF Pointed(s) THEN MantissaEnd(s) - Whole(s) - 1 ELSE 0
HasDigits(s) == Whole(s) - Start(s) + Decimals(s) # 0

\* What is at these places, and between them.
LEMMA PlacesAre ==
    ASSUME NEW s, IsSequence(s)
    PROVE  LET p == Start(s)
               q == Whole(s)
               r == MantissaEnd(s)
               f == NumeralEnd(s)
           IN  /\ Len(s) \in Nat /\ p \in 0 .. 1
               /\ q \in p .. Len(s) /\ r \in q .. Len(s) /\ f \in r .. Len(s)
               /\ Digital(s, p, q) /\ ~IsInteger(At(s, q)) /\ ~IsInteger(At(s, r))
               /\ Pointed(s) => q < r /\ Digital(s, q + 1, r)
               /\ ~Pointed(s) => r = q
               /\ f # r => /\ At(s, r) \in {"e", "E"} /\ f - r > 1 /\ AfterE(s, r) < f
                           /\ AfterE(s, r) \in r + 1 .. r + 2
                           /\ Digital(s, AfterE(s, r), f) /\ ~IsInteger(At(s, f))
               /\ f = r => ~(At(s, r) \in {"e", "E"} /\ IsInteger(At(s, AfterE(s, r))))
<1> DEFINE p == Start(s)
           q == Whole(s)
           r == MantissaEnd(s)
           f == NumeralEnd(s)
           e == AfterE(s, r)
<1>1. Len(s) \in Nat /\ p \in 0 .. Len(s) /\ p \in 0 .. 1
      BY SequenceIs, StartIs
<1>2. q \in p .. Len(s) /\ ~IsInteger(At(s, q)) /\ Digital(s, p, q)
      BY <1>1, DigitsEndIs DEF Whole, Digital
<1> HIDE DEF q
<1>3. ASSUME Pointed(s)
      PROVE  r \in q + 1 .. Len(s) /\ ~IsInteger(At(s, r)) /\ Digital(s, q + 1, r)
  <2>1. q < Len(s)
        BY <1>1, <1>2, <1>3 DEF Pointed, At, q
  <2>2. r = DigitsEnd(s, q + 1)
        BY <1>3 DEF MantissaEnd, q
  <2> HIDE DEF r
  <2>3. q + 1 \in 0 .. Len(s)
        BY <1>1, <1>2, <2>1
  <2> QED BY <1>1, <2>2, <2>3, DigitsEndIs DEF Digital
<1>4. ~Pointed(s) => r = q
      BY DEF MantissaEnd, q
<1> HIDE DEF r
<1>5. r \in q .. Len(s) /\ ~IsInteger(At(s, r)) /\ r \in Nat
      BY <1>1, <1>2, <1>3, <1>4
<1>6. e \in r + 1 .. r + 2
      BY <1>5 DEF AfterE
<1> HIDE DEF e
<1>7. ASSUME At(s, r) \in {"e", "E"}, IsInteger(At(s, e))
      PROVE  f \in e + 1 .. Len(s) /\ ~IsInteger(At(s, f)) /\ Digital(s, e, f)
  <2>1. f = DigitsEnd(s, e)
        BY <1>7 DEF NumeralEnd, r, e
  <2> HIDE DEF f
  <2>2. e < Len(s)
        BY <1>1, <1>5, <1>6, <1>7 DEF At, IsInteger, Digits
  <2>3. e \in 0 .. Len(s)
        BY <1>1, <1>5, <1>6, <2>2
  <2>4. f \in e .. Len(s) /\ ~IsInteger(At(s, f)) /\ Digital(s, e, f)
        BY <1>1, <2>1, <2>3, DigitsEndIs DEF Digital
  <2>5. f # e
        BY <1>7, <2>4
  <2> QED BY <1>1, <2>3, <2>4, <2>5
<1>8. ~(At(s, r) \in {"e", "E"} /\ IsInteger(At(s, e))) => f = r
      BY DEF NumeralEnd, r, e
<1> HIDE DEF f, p
<1>9. f \in r .. Len(s)
      BY <1>1, <1>5, <1>6, <1>7, <1>8
<1>10. f # r => /\ At(s, r) \in {"e", "E"} /\ f - r > 1 /\ e < f
                /\ Digital(s, e, f) /\ ~IsInteger(At(s, f))
      BY <1>1, <1>5, <1>6, <1>7, <1>8
<1>11. f = r => ~(At(s, r) \in {"e", "E"} /\ IsInteger(At(s, e)))
      BY <1>5, <1>6, <1>7
<1>12. Pointed(s) => q < r /\ Digital(s, q + 1, r)
      BY <1>1, <1>2, <1>3
<1> QED BY <1>1, <1>2, <1>4, <1>5, <1>6, <1>9, <1>10, <1>11, <1>12 DEF p, q, r, f, e

\* A mantissa goes no further, and there is one if there is a digit.
LEMMA MantissaTo ==
    ASSUME NEW s, IsSequence(s), NEW m \in Start(s) .. Len(s), Mantissa(s, Start(s), m)
    PROVE  m <= MantissaEnd(s) /\ HasDigits(s) /\ m > Start(s)
<1> DEFINE p == Start(s)
           q == Whole(s)
           r == MantissaEnd(s)
<1>1. /\ Len(s) \in Nat /\ p \in 0 .. 1 /\ q \in p .. Len(s) /\ r \in q .. Len(s)
      /\ Digital(s, p, q) /\ ~IsInteger(At(s, q)) /\ ~IsInteger(At(s, r))
      /\ Pointed(s) => q < r /\ Digital(s, q + 1, r)
      /\ ~Pointed(s) => r = q
      BY PlacesAre
<1>2. Decimals(s) = IF Pointed(s) THEN r - q - 1 ELSE 0
      BY DEF Decimals
<1>3. HasDigits(s) <=> q - p + Decimals(s) # 0
      BY DEF HasDigits
<1>4. Pointed(s) <=> At(s, q) = "."
      BY DEF Pointed
<1>5. m \in p .. Len(s) /\ Mantissa(s, p, m)
      OBVIOUS
<1> HIDE DEF p, q, r
<1>6. CASE p < m /\ Digital(s, p, m)
  <2>1. m <= q
    <3>1. ~(q \in p .. m - 1)
          BY <1>1, <1>6 DEF Digital
    <3> QED BY <1>1, <1>5, <3>1
  <2> QED BY <1>1, <1>2, <1>3, <1>5, <1>6, <2>1 DEF p, r
<1>7. ASSUME m - p > 1, NEW i \in p .. m - 1, At(s, i) = ".", Digital(s, p, i), Digital(s, i + 1, m)
      PROVE  m <= r /\ HasDigits(s) /\ m > p
  <2>1. ~IsInteger(At(s, i))
        BY <1>7 DEF IsInteger, Digits
  <2>2. i = q
    <3>1. ~(i < q)
          BY <1>1, <1>7, <2>1 DEF Digital
    <3>2. ~(q < i)
          BY <1>1, <1>7 DEF Digital
    <3> QED BY <1>1, <3>1, <3>2
  <2>3. Pointed(s) /\ q < r /\ Digital(s, q + 1, m)
        BY <1>1, <1>4, <1>7, <2>2
  <2>4. ~(r \in q + 1 .. m - 1)
        BY <1>1, <2>3 DEF Digital
  <2>5. m <= r
        BY <1>1, <1>5, <2>3, <2>4
  <2> QED BY <1>1, <1>2, <1>3, <1>5, <1>7, <2>2, <2>3, <2>5
<1>8. m <= r /\ HasDigits(s) /\ m > p
      BY <1>1, <1>5, <1>6, <1>7 DEF Mantissa, p, r
<1> QED BY <1>8 DEF p, r

\* The mantissa that ends there.
LEMMA MantissaThere ==
    ASSUME NEW s, IsSequence(s), HasDigits(s)
    PROVE  Mantissa(s, Start(s), MantissaEnd(s)) /\ MantissaEnd(s) > Start(s)
<1> DEFINE p == Start(s)
           q == Whole(s)
           r == MantissaEnd(s)
<1>1. /\ Len(s) \in Nat /\ p \in 0 .. 1 /\ q \in p .. Len(s) /\ r \in q .. Len(s)
      /\ Digital(s, p, q)
      /\ Pointed(s) => q < r /\ Digital(s, q + 1, r)
      /\ ~Pointed(s) => r = q
      BY PlacesAre
<1>2. Decimals(s) = IF Pointed(s) THEN r - q - 1 ELSE 0
      BY DEF Decimals
<1>3. q - p + Decimals(s) # 0
      BY DEF HasDigits
<1>4. Pointed(s) <=> At(s, q) = "."
      BY DEF Pointed
<1> HIDE DEF p, q, r
<1>5. CASE Pointed(s)
  <2>1. r - p > 1 /\ q \in p .. r - 1
        BY <1>1, <1>2, <1>3, <1>5
  <2>2. Mantissa(s, p, r)
        BY <1>1, <1>4, <1>5, <2>1 DEF Mantissa
  <2> QED BY <1>1, <2>1, <2>2 DEF p, r
<1>6. CASE ~Pointed(s)
  <2>1. p < r /\ Digital(s, p, r)
        BY <1>1, <1>2, <1>3, <1>6
  <2> QED BY <1>1, <2>1 DEF Mantissa, p, r
<1> QED BY <1>5, <1>6

\* A numeral goes no further, and its mantissa is the longest.
LEMMA NumeralTo ==
    ASSUME NEW s, IsSequence(s), NEW k \in Start(s) .. Len(s), NEW m \in Start(s) .. k,
           Mantissa(s, Start(s), m), Exponent(s, m, k)
    PROVE  k <= NumeralEnd(s) /\ HasDigits(s) /\ (k = NumeralEnd(s) => m = MantissaEnd(s))
<1> DEFINE p == Start(s)
           q == Whole(s)
           r == MantissaEnd(s)
           f == NumeralEnd(s)
           e == AfterE(s, m)
<1>1. /\ Len(s) \in Nat /\ p \in 0 .. 1 /\ q \in p .. Len(s) /\ r \in q .. Len(s)
      /\ f \in r .. Len(s)
      /\ Digital(s, p, q) /\ ~IsInteger(At(s, r))
      /\ Pointed(s) => q < r /\ Digital(s, q + 1, r)
      /\ ~Pointed(s) => r = q
      /\ f # r => /\ At(s, r) \in {"e", "E"} /\ f - r > 1 /\ AfterE(s, r) < f
                  /\ Digital(s, AfterE(s, r), f) /\ ~IsInteger(At(s, f))
      /\ f = r => ~(At(s, r) \in {"e", "E"} /\ IsInteger(At(s, AfterE(s, r))))
      BY PlacesAre
<1>2. m \in p .. Len(s)
      BY <1>1
<1>3. m <= r /\ HasDigits(s) /\ m > p
      BY <1>2, MantissaTo
<1>4. Pointed(s) <=> At(s, q) = "."
      BY DEF Pointed
<1>5. ASSUME m # r PROVE At(s, m) \notin {"e", "E"}
  <2>1. At(s, m) = "." \/ IsInteger(At(s, m))
    <3> HIDE DEF p, q, r
    <3>1. m < r /\ m > p
          BY <1>1, <1>2, <1>3, <1>5 DEF p, r
    <3>2. CASE m < q
          BY <1>1, <1>2, <3>1, <3>2 DEF Digital
    <3>3. CASE m = q
          BY <1>1, <1>4, <3>1, <3>3
    <3>4. CASE m > q
      <4>1. Pointed(s) /\ m \in q + 1 .. r - 1
            BY <1>1, <1>2, <3>1, <3>4
      <4> QED BY <1>1, <4>1 DEF Digital
    <3> QED BY <1>1, <1>2, <3>2, <3>3, <3>4
  <2> QED BY <2>1 DEF IsInteger, Digits
<1>6. e \in m + 1 .. m + 2
      BY <1>1, <1>2 DEF AfterE
<1>7. k \in m .. Len(s) /\ (m = k \/ /\ k - m > 1 /\ At(s, m) \in {"e", "E"}
                                     /\ e < k /\ Digital(s, e, k))
      BY DEF Exponent
<1>8. Mantissa(s, p, r) /\ r > p
      BY <1>3, MantissaThere
<1> HIDE DEF p, q, f, r, e
<1>9. CASE m = k
  <2>1. k <= f
        BY <1>1, <1>2, <1>3, <1>9 DEF r
  <2>2. ASSUME k = f PROVE m = r
        BY <1>1, <1>2, <1>3, <1>9, <2>2 DEF r
  <2> QED BY <1>3, <2>1, <2>2 DEF f, r
<1>10. CASE m # k
  <2>1. m = r /\ At(s, r) \in {"e", "E"} /\ e < k /\ Digital(s, e, k)
        BY <1>5, <1>7, <1>10
  <2>2. e = AfterE(s, r)
        BY <2>1 DEF e
  <2>3. IsInteger(At(s, e))
    <3>1. e \in e .. k - 1
          BY <1>1, <1>2, <1>6, <1>7, <2>1
    <3> QED BY <2>1, <3>1 DEF Digital
  <2>4. f # r /\ ~IsInteger(At(s, f)) /\ e < f
        BY <1>1, <2>1, <2>2, <2>3
  <2>5. k <= f
    <3>1. ~(f \in e .. k - 1)
          BY <2>1, <2>4 DEF Digital
    <3> QED BY <1>1, <1>2, <1>6, <1>7, <2>4, <3>1
  <2> QED BY <1>3, <2>1, <2>5 DEF f, r
<1> QED BY <1>9, <1>10

\* What follows the sign, cut into a mantissa and an exponent.
LEMMA CutAt ==
    ASSUME NEW s, IsSequence(s), NEW a \in Nat, NEW b \in a .. Len(s), NEW n \in 0 .. b - a
    PROVE  LET u == Span(s, a, b)
           IN  /\ SubSeq(u, 1, n) = Span(s, a, a + n)
               /\ SubSeq(u, n + 1, Len(u)) = Span(s, a + n, b)
               /\ IsMantissa(SubSeq(u, 1, n)) <=> Mantissa(s, a, a + n)
               /\ IsExponent(SubSeq(u, n + 1, Len(u))) <=> Exponent(s, a + n, b)
<1> DEFINE u == Span(s, a, b)
<1>1. Len(s) \in Nat /\ Len(u) = b - a
      BY SequenceIs, SpanIs
<1>2. /\ a + 0 = a /\ a + (b - a) = b /\ n \in Nat /\ b - a \in n .. b - a /\ 0 \in Nat
      /\ a + n \in Nat /\ a + n \in a .. Len(s) /\ b \in a + n .. Len(s) /\ 0 + 1 = 1
      BY <1>1
<1>3. SubSeq(u, 1, n) = Span(s, a, a + n)
  <2>1. Span(u, 0, n) = Span(s, a + 0, a + n)
        BY <1>2, SpanOfSpan
  <2> HIDE DEF u
  <2> QED BY <1>2, <2>1 DEF Span
<1>4. SubSeq(u, n + 1, Len(u)) = Span(s, a + n, b)
  <2>1. Span(u, n, b - a) = Span(s, a + n, a + (b - a))
        BY <1>2, SpanOfSpan
  <2>2. Span(u, n, b - a) = SubSeq(u, n + 1, Len(u))
        BY <1>1 DEF Span
  <2> HIDE DEF u
  <2> QED BY <1>2, <2>1, <2>2
<1>5. IsMantissa(Span(s, a, a + n)) <=> Mantissa(s, a, a + n)
      BY <1>2, SpanMantissa
<1>6. IsExponent(Span(s, a + n, b)) <=> Exponent(s, a + n, b)
      BY <1>2, SpanExponent
<1> HIDE DEF u
<1> QED BY <1>3, <1>4, <1>5, <1>6 DEF u

\* The first k characters are a numeral.
LEMMA FloatUpTo ==
    ASSUME NEW s, IsSequence(s), NEW k \in 0 .. Len(s)
    PROVE  IsFloat(SubSeq(s, 1, k))
             <=> /\ k >= Start(s)
                 /\ \E m \in Start(s) .. k : Mantissa(s, Start(s), m) /\ Exponent(s, m, k)
<1> DEFINE p == Start(s)
           u == Span(s, p, k)
           t == SubSeq(s, 1, k)
<1>1. Len(s) \in Nat /\ p \in 0 .. 1
      BY SequenceIs, StartIs
<1>2. Unsigned(t) = IF k < p THEN <<>> ELSE u
      BY PrefixUnsigned
<1>3. CASE k < p
  <2> HIDE DEF p, t, u
  <2>1. Unsigned(t) = <<>> /\ Len(<<>>) = 0 /\ ~(k >= p)
        BY <1>1, <1>2, <1>3
  <2>2. ~IsFloat(t)
        BY <2>1 DEF IsFloat
  <2> QED BY <2>1, <2>2 DEF p, t
<1>4. CASE ~(k < p)
  <2>1. p \in Nat /\ k \in p .. Len(s)
        BY <1>1, <1>4
  <2>2. Unsigned(t) = u /\ Len(u) = k - p
        BY <1>2, <1>4, <2>1, SpanIs
  <2>3. \A n \in 0 .. k - p : /\ IsMantissa(SubSeq(u, 1, n)) <=> Mantissa(s, p, p + n)
                              /\ IsExponent(SubSeq(u, n + 1, Len(u))) <=> Exponent(s, p + n, k)
        BY <2>1, CutAt
  <2> HIDE DEF p, t, u
  <2>4. ASSUME IsFloat(t) PROVE \E m \in p .. k : Mantissa(s, p, m) /\ Exponent(s, m, k)
    <3>1. PICK n \in 1 .. k - p : /\ IsMantissa(SubSeq(u, 1, n))
                                  /\ IsExponent(SubSeq(u, n + 1, Len(u)))
          BY <2>2, <2>4 DEF IsFloat
    <3>2. n \in 0 .. k - p /\ p + n \in p .. k
          BY <1>1
    <3> QED BY <2>3, <3>1, <3>2
  <2>5. ASSUME NEW m \in p .. k, Mantissa(s, p, m), Exponent(s, m, k) PROVE IsFloat(t)
    <3>1. m - p \in 0 .. k - p /\ p + (m - p) = m
          BY <1>1
    <3>2. m - p \in 1 .. k - p
          BY <1>1, <2>5 DEF Mantissa
    <3>3. IsMantissa(SubSeq(u, 1, m - p)) /\ IsExponent(SubSeq(u, (m - p) + 1, Len(u)))
          BY <2>3, <2>5, <3>1
    <3> QED BY <2>2, <3>2, <3>3 DEF IsFloat
  <2>6. k >= p
        BY <1>1, <1>4
  <2> QED BY <2>4, <2>5, <2>6 DEF p, t
<1> QED BY <1>3, <1>4

\* A text begins with a numeral if there is a digit, and the longest ends where
\* parse_number_string stops.
LEMMA LongestFloat ==
    ASSUME NEW s, IsSequence(s)
    PROVE  LET floats == Leading(s, IsFloat)
           IN  IF HasDigits(s) THEN floats # {} /\ Longest(floats) = SubSeq(s, 1, NumeralEnd(s))
               ELSE floats = {}
<1> DEFINE floats == Leading(s, IsFloat)
           p == Start(s)
           r == MantissaEnd(s)
           f == NumeralEnd(s)
<1>1. /\ Len(s) \in Nat /\ p \in 0 .. 1 /\ r \in p .. Len(s) /\ f \in r .. Len(s)
      /\ f # r => /\ At(s, r) \in {"e", "E"} /\ f - r > 1 /\ AfterE(s, r) < f
                  /\ Digital(s, AfterE(s, r), f)
      BY PlacesAre
<1>2. floats = {t \in Prefixes(s) : IsFloat(t)}
      BY DEF Leading
<1>3. ASSUME NEW k \in 0 .. Len(s), IsFloat(SubSeq(s, 1, k))
      PROVE  k <= f /\ HasDigits(s)
  <2>1. k >= p /\ \E m \in p .. k : Mantissa(s, p, m) /\ Exponent(s, m, k)
        BY <1>3, FloatUpTo
  <2>2. k \in p .. Len(s)
        BY <1>1, <2>1
  <2> QED BY <2>1, <2>2, NumeralTo
<1>4. CASE ~HasDigits(s)
  <2> HIDE DEF floats
  <2>1. floats = {}
        BY <1>2, <1>3, <1>4 DEF Prefixes
  <2> QED BY <1>4, <2>1 DEF floats
<1>5. CASE HasDigits(s)
  <2>1. Mantissa(s, p, r)
        BY <1>5, MantissaThere
  <2>2. Exponent(s, r, f)
    <3> HIDE DEF p, r, f
    <3> QED BY <1>1 DEF Exponent
  <2>3. f \in 0 .. Len(s) /\ f >= p /\ r \in p .. f
        BY <1>1
  <2>4. IsFloat(SubSeq(s, 1, f))
        BY <2>1, <2>2, <2>3, FloatUpTo
  <2>5. SubSeq(s, 1, f) \in floats
    <3> HIDE DEF f, floats
    <3> QED BY <1>2, <2>3, <2>4 DEF Prefixes
  <2>6. floats \subseteq Prefixes(s)
        BY <1>2
  <2>7. \A k \in 0 .. Len(s) : SubSeq(s, 1, k) \in floats => k <= f
        BY <1>2, <1>3
  <2>8. Longest(floats) = SubSeq(s, 1, f)
    <3> HIDE DEF f, floats
    <3> QED BY <2>3, <2>5, <2>6, <2>7, LongestIs
  <2> HIDE DEF floats, f
  <2>9. floats # {}
        BY <2>5
  <2> QED BY <1>5, <2>8, <2>9 DEF floats, f
<1> QED BY <1>4, <1>5

\* The digits of the longest numeral as a number, and its power of ten.
Significand(s) ==
    LET p == Start(s)
        q == Whole(s)
    IN  Number(SubSeq(s, p + 1, q) \o SubSeq(s, q + 2, MantissaEnd(s)), 0, q - p + Decimals(s))
PowerOf(s) ==
    LET r == MantissaEnd(s)
        f == NumeralEnd(s)
        size == Number(s, AfterE(s, r), f)
    IN  IF f = r THEN -Decimals(s)
        ELSE IF At(s, r + 1) = "-" THEN -Decimals(s) - size
        ELSE size - Decimals(s)

\* What parse_number_string reads (fast_float.h 605-735).
LEMMA NumeralParsed ==
    ASSUME NEW s, IsSequence(s)
    PROVE  parse_number_string(s) =
               IF HasDigits(s)
               THEN [valid |-> TRUE, negative |-> At(s, 0) = "-",
                     mantissa |-> Significand(s), exponent |-> PowerOf(s)]
               ELSE Invalid
<1> DEFINE p == Start(s)
           q == Whole(s)
           r == MantissaEnd(s)
           f == NumeralEnd(s)
           e == AfterE(s, r)
           part == Decimals(s)
           signed == At(s, 0) # "-" \/ IsInteger(At(s, 1)) \/ At(s, 1) = "."
           parsed == [valid |-> TRUE, negative |-> At(s, 0) = "-",
                      mantissa |-> Significand(s), exponent |-> PowerOf(s)]
<1>1. p = IF At(s, 0) = "-" THEN 1 ELSE 0
      BY DEF Start
<1>2. q = DigitsEnd(s, p)
      BY DEF Whole
<1>3. r = IF At(s, q) = "." THEN DigitsEnd(s, q + 1) ELSE q
      BY DEF MantissaEnd, Pointed
<1>4. part = IF At(s, q) = "." THEN r - q - 1 ELSE 0
      BY DEF Decimals, Pointed
<1>5. e = IF At(s, r + 1) \in {"-", "+"} THEN r + 2 ELSE r + 1
      BY DEF AfterE
<1>6. f = IF At(s, r) \in {"e", "E"} /\ IsInteger(At(s, e)) THEN DigitsEnd(s, e) ELSE r
      BY DEF NumeralEnd
<1>7. Significand(s) = Number(SubSeq(s, p + 1, q) \o SubSeq(s, q + 2, r), 0, q - p + part)
      BY DEF Significand
<1>8. PowerOf(s) = IF f = r THEN -part
                   ELSE IF At(s, r + 1) = "-" THEN -part - Number(s, e, f)
                   ELSE Number(s, e, f) - part
      BY DEF PowerOf
<1>9. HasDigits(s) <=> q - p + part # 0
      BY DEF HasDigits
<1>10. ASSUME ~signed PROVE ~HasDigits(s)
  <2>1. p = 1 /\ ~IsInteger(At(s, p)) /\ At(s, p) # "."
        BY <1>1, <1>10
  <2>2. q \in p .. Len(s) /\ Len(s) \in Nat /\ Digital(s, p, q)
        BY PlacesAre
  <2> HIDE DEF p, q
  <2>3. q = p
    <3>1. ~(p \in p .. q - 1)
          BY <2>1, <2>2 DEF Digital
    <3> QED BY <2>1, <2>2, <3>1
  <2>4. part = 0
        BY <1>4, <2>1, <2>3
  <2> HIDE DEF part
  <2> QED BY <1>9, <2>1, <2>3, <2>4
<1> HIDE DEF p, q, r, f, e, part
<1>11. CASE At(s, 0) = "-"
  <2>1. p = 1
        BY <1>1, <1>11
  <2>2. parse_number_string(s) = IF ~signed \/ q - p + part = 0 THEN Invalid ELSE parsed
    <3>1. parse_number_string(s) =
            IF ~signed \/ q - 1 + part = 0 THEN Invalid
            ELSE [valid |-> TRUE, negative |-> At(s, 0) = "-",
                  mantissa |-> Number(SubSeq(s, 1 + 1, q) \o SubSeq(s, q + 2, r), 0, q - 1 + part),
                  exponent |-> IF f = r THEN -part
                               ELSE IF At(s, r + 1) = "-" THEN -part - Number(s, e, f)
                               ELSE Number(s, e, f) - part]
          BY <1>2, <1>3, <1>4, <1>5, <1>6, <1>11, <2>1, Zenon DEF parse_number_string
    <3> QED BY <1>7, <1>8, <2>1, <3>1
  <2> QED BY <1>9, <1>10, <2>2
<1>12. CASE At(s, 0) # "-"
  <2>1. p = 0
        BY <1>1, <1>12
  <2>2. parse_number_string(s) = IF q - p + part = 0 THEN Invalid ELSE parsed
        BY <1>2, <1>3, <1>4, <1>5, <1>6, <1>7, <1>8, <1>12, <2>1 DEF parse_number_string
  <2> QED BY <1>9, <2>2
<1> QED BY <1>11, <1>12

\* The parts of a numeral that its meaning is made of.
LEMMA NumeralCut ==
    ASSUME NEW s, IsSequence(s), HasDigits(s)
    PROVE  LET p == Start(s)
               r == MantissaEnd(s)
               t == SubSeq(s, 1, NumeralEnd(s))
               u == Unsigned(t)
               l == NumeralEnd(s) - p
               Cut(n) == IsMantissa(SubSeq(u, 1, n)) /\ IsExponent(SubSeq(u, n + 1, Len(u)))
           IN  /\ u = Span(s, p, NumeralEnd(s)) /\ Len(u) = l /\ t[1] = At(s, 0)
               /\ r - p \in 1 .. l
               /\ \A n \in 1 .. l : Cut(n) <=> n = r - p
               /\ \A i \in 1 .. l : u[i] = At(s, p + i - 1)
<1> DEFINE p == Start(s)
           r == MantissaEnd(s)
           f == NumeralEnd(s)
           t == SubSeq(s, 1, f)
           u == Unsigned(t)
           l == f - p
           Cut(n) == IsMantissa(SubSeq(u, 1, n)) /\ IsExponent(SubSeq(u, n + 1, Len(u)))
<1>1. /\ Len(s) \in Nat /\ p \in 0 .. 1 /\ r \in p .. Len(s) /\ f \in r .. Len(s)
      /\ f # r => /\ At(s, r) \in {"e", "E"} /\ f - r > 1 /\ AfterE(s, r) < f
                  /\ Digital(s, AfterE(s, r), f)
      BY PlacesAre
<1>2. Mantissa(s, p, r) /\ r > p
      BY MantissaThere
<1>3. Exponent(s, r, f)
  <2> HIDE DEF p, r, f
  <2> QED BY <1>1 DEF Exponent
<1>4. f \in 0 .. Len(s) /\ ~(f < p) /\ f >= 1 /\ p \in Nat /\ f \in p .. Len(s)
      BY <1>1, <1>2
<1>5. u = Span(s, p, f) /\ t[1] = s[1]
      BY <1>4, PrefixUnsigned
<1>6. t[1] = At(s, 0)
  <2>1. Len(s) >= 1
        BY <1>1, <1>4
  <2>2. At(s, 0) = s[1]
        BY <1>1, <2>1 DEF At
  <2> HIDE DEF t, u
  <2> QED BY <1>5, <2>2
<1>7. Len(u) = l /\ \A i \in 1 .. l : u[i] = At(s, p + i - 1)
  <2> DEFINE v == Span(s, p, f)
  <2>1. Len(v) = f - p /\ \A i \in 1 .. f - p : v[i] = At(s, p + i - 1)
        BY <1>4, SpanIs
  <2>2. u = v
        BY <1>5
  <2> HIDE DEF u, v, f, p
  <2> QED BY <2>1, <2>2
<1>8. \A n \in 0 .. l : Cut(n) <=> Mantissa(s, p, p + n) /\ Exponent(s, p + n, f)
  <2> DEFINE v == Span(s, p, f)
  <2>1. \A n \in 0 .. f - p : /\ IsMantissa(SubSeq(v, 1, n)) <=> Mantissa(s, p, p + n)
                              /\ IsExponent(SubSeq(v, n + 1, Len(v))) <=> Exponent(s, p + n, f)
        BY <1>4, CutAt
  <2>2. u = v
        BY <1>5
  <2> HIDE DEF u, v, f, p
  <2> QED BY <2>1, <2>2
<1>9. \A m \in p .. f : Mantissa(s, p, m) /\ Exponent(s, m, f) => m = r
      BY <1>4, NumeralTo
<1> HIDE DEF p, r, f, t, u
<1>10. r - p \in 1 .. l /\ p + (r - p) = r
      BY <1>1, <1>2
<1>11. ASSUME NEW n \in 1 .. l PROVE Cut(n) <=> n = r - p
  <2>1. n \in 0 .. l /\ p + n \in p .. f
        BY <1>1, <1>4
  <2>2. Cut(n) <=> Mantissa(s, p, p + n) /\ Exponent(s, p + n, f)
        BY <1>8, <2>1
  <2> HIDE DEF Cut
  <2>3. p + n = r <=> n = r - p
        BY <1>1, <1>4, <2>1
  <2> QED BY <1>2, <1>3, <1>9, <2>1, <2>2, <2>3
<1> QED BY <1>5, <1>6, <1>7, <1>10, <1>11 DEF p, r, f, t, u

\* Its digits.
LEMMA NumeralDigits ==
    ASSUME NEW s, IsSequence(s), HasDigits(s)
    PROVE  LET u == Unsigned(SubSeq(s, 1, NumeralEnd(s)))
               n == MantissaEnd(s) - Start(s)
               points == {i \in 1 .. n : u[i] = "."}
               point == CHOOSE i \in points : TRUE
               digits == IF points = {} THEN SubSeq(u, 1, n)
                         ELSE SubSeq(u, 1, point - 1) \o SubSeq(u, point + 1, n)
           IN  /\ Number(digits, 0, Len(digits)) = Significand(s)
               /\ Decimals(s) = IF points = {} THEN 0 ELSE n - point
<1> DEFINE p == Start(s)
           q == Whole(s)
           r == MantissaEnd(s)
           f == NumeralEnd(s)
           u == Unsigned(SubSeq(s, 1, f))
           n == r - p
           points == {i \in 1 .. n : u[i] = "."}
           point == CHOOSE i \in points : TRUE
           digits == IF points = {} THEN SubSeq(u, 1, n)
                     ELSE SubSeq(u, 1, point - 1) \o SubSeq(u, point + 1, n)
<1>1. /\ Len(s) \in Nat /\ p \in 0 .. 1 /\ q \in p .. Len(s) /\ r \in q .. Len(s)
      /\ f \in r .. Len(s) /\ Digital(s, p, q)
      /\ Pointed(s) => q < r /\ Digital(s, q + 1, r)
      /\ ~Pointed(s) => r = q
      BY PlacesAre
<1>2. /\ u = Span(s, p, f) /\ n \in 1 .. f - p
      /\ \A i \in 1 .. f - p : u[i] = At(s, p + i - 1)
      BY NumeralCut
<1>3. ASSUME NEW a \in 0 .. n, NEW b \in a .. n PROVE SubSeq(u, a + 1, b) = Span(s, p + a, p + b)
  <2>1. p \in Nat /\ f \in p .. Len(s) /\ a \in Nat /\ b \in a .. f - p
        BY <1>1, <1>2, <1>3
  <2> DEFINE v == Span(s, p, f)
  <2>2. Span(v, a, b) = Span(s, p + a, p + b)
        BY <2>1, SpanOfSpan
  <2>3. u = v
        BY <1>2
  <2> HIDE DEF u, v
  <2> QED BY <2>2, <2>3 DEF Span
<1>4. Decimals(s) = IF Pointed(s) THEN r - q - 1 ELSE 0
      BY DEF Decimals
<1>5. Pointed(s) <=> At(s, q) = "."
      BY DEF Pointed
<1>6. Significand(s) = Number(Span(s, p, q) \o SubSeq(s, q + 2, r), 0, q - p + Decimals(s))
      BY DEF Significand, Span
<1>7. "." \notin Digits
      BY DEF Digits
<1> HIDE DEF p, q, r, f, u, n
<1>8. n = r - p /\ p + n = r /\ p \in Nat /\ q \in Nat /\ r \in Nat
      BY <1>1 DEF n
<1>9. ASSUME NEW i \in points PROVE Pointed(s) /\ i = q - p + 1
  <2> DEFINE k == p + i - 1
  <2>1. k \in p .. r - 1 /\ At(s, k) = "." /\ ~IsInteger(At(s, k))
    <3>1. i \in 1 .. n /\ i \in 1 .. f - p /\ u[i] = "."
          BY <1>1, <1>2
    <3>2. u[i] = At(s, k)
          BY <1>2, <3>1
    <3>3. k \in p .. r - 1
          BY <1>8, <3>1
    <3> HIDE DEF k
    <3> QED BY <1>7, <3>1, <3>2, <3>3 DEF IsInteger
  <2> HIDE DEF k
  <2>2. ~(k \in p .. q - 1)
        BY <1>1, <2>1 DEF Digital
  <2>3. ~(Pointed(s) /\ k \in q + 1 .. r - 1)
        BY <1>1, <2>1 DEF Digital
  <2>4. k = q
        BY <1>1, <1>8, <2>1, <2>2, <2>3
  <2>5. i \in Int
        OBVIOUS
  <2> QED BY <1>5, <1>8, <2>1, <2>4, <2>5 DEF k
<1>10. CASE Pointed(s)
  <2> DEFINE i == q - p + 1
             x == Span(s, p, q)
             y == Span(s, q + 1, r)
  <2>1. /\ i \in 1 .. n /\ i \in 1 .. f - p /\ i \in Int
        /\ p + i - 1 = q /\ i - 1 = q - p /\ n - i = r - q - 1
        BY <1>1, <1>8, <1>10
  <2>2. u[i] = "."
    <3> HIDE DEF i
    <3>1. u[i] = At(s, p + i - 1)
          BY <1>2, <2>1
    <3> QED BY <1>5, <1>10, <2>1, <3>1
  <2>3. point = i /\ points # {}
    <3>1. i \in points
          BY <2>1, <2>2
    <3>2. point \in points
          BY <3>1
    <3> HIDE DEF points, point
    <3>3. point = i
          BY <1>9, <3>2
    <3> QED BY <3>1, <3>3
  <2>4. SubSeq(u, 1, i - 1) = x
    <3>1. 0 \in 0 .. n /\ i - 1 \in 0 .. n /\ 0 + 1 = 1 /\ p + 0 = p /\ p + (i - 1) = q
          BY <1>8, <2>1
    <3> HIDE DEF i
    <3>2. SubSeq(u, 0 + 1, i - 1) = Span(s, p + 0, p + (i - 1))
          BY <1>3, <3>1
    <3> QED BY <3>1, <3>2
  <2>5. SubSeq(u, i + 1, n) = y
    <3>1. i \in 0 .. n /\ n \in i .. n /\ p + i = q + 1 /\ p + n = r
          BY <1>8, <2>1
    <3> HIDE DEF i
    <3>2. SubSeq(u, i + 1, n) = Span(s, p + i, p + n)
          BY <1>3, <3>1
    <3> QED BY <3>1, <3>2
  <2>6. digits = x \o y
    <3> HIDE DEF points, point, i, x, y
    <3> QED BY <2>3, <2>4, <2>5
  <2>7. Len(x \o y) = q - p + (r - q - 1)
    <3>1. q + 1 \in Nat /\ q \in p .. Len(s) /\ r \in q + 1 .. Len(s)
          BY <1>1, <1>8, <1>10
    <3>2. /\ IsSequence(x) /\ Len(x) = q - p /\ DOMAIN x = 1 .. q - p
          /\ IsSequence(y) /\ Len(y) = r - (q + 1) /\ DOMAIN y = 1 .. r - (q + 1)
          BY <1>8, <3>1, SpanIs
    <3> DEFINE S == {x[j] : j \in 1 .. Len(x)} \cup {y[j] : j \in 1 .. Len(y)}
    <3> HIDE DEF x, y
    <3>3. x \in Seq(S) /\ y \in Seq(S)
      <4>1. x \in Seq({x[j] : j \in 1 .. Len(x)}) /\ y \in Seq({y[j] : j \in 1 .. Len(y)})
            BY <3>2 DEF IsSequence
      <4> QED BY <4>1
    <3> HIDE DEF S
    <3>4. Len(x \o y) = Len(x) + Len(y)
          BY <3>3, ConcatProperties
    <3> QED BY <1>8, <3>2, <3>4
  <2>8. Span(s, p, q) \o SubSeq(s, q + 2, r) = x \o y
    <3>1. (q + 1) + 1 = q + 2
          BY <1>8
    <3> QED BY <3>1 DEF Span
  <2> HIDE DEF x, y, i
  <2>9. Number(digits, 0, Len(digits)) = Significand(s)
    <3> HIDE DEF digits
    <3> QED BY <1>4, <1>6, <1>10, <2>6, <2>7, <2>8
  <2>10. Decimals(s) = IF points = {} THEN 0 ELSE n - point
    <3> HIDE DEF points, point
    <3> QED BY <1>4, <1>10, <2>1, <2>3
  <2> QED BY <2>9, <2>10 DEF u, n, p, r, f
<1>11. CASE ~Pointed(s)
  <2> DEFINE x == Span(s, p, q)
  <2>1. points = {}
        BY <1>9, <1>11
  <2>2. r = q
        BY <1>1, <1>11
  <2>3. digits = x
    <3>1. 0 \in 0 .. n /\ n \in 0 .. n /\ 0 + 1 = 1 /\ p + 0 = p /\ p + n = q
          BY <1>1, <1>2, <1>8, <2>2
    <3>2. SubSeq(u, 0 + 1, n) = Span(s, p + 0, p + n)
          BY <1>3, <3>1
    <3>3. digits = SubSeq(u, 1, n)
          BY <2>1
    <3> HIDE DEF digits, x
    <3> QED BY <3>1, <3>2, <3>3 DEF x
  <2>4. IsSequence(x) /\ Len(x) = q - p
    <3>1. p \in Nat /\ q \in p .. Len(s)
          BY <1>1, <1>8
    <3> QED BY <3>1, SpanIs
  <2>5. Span(s, p, q) \o SubSeq(s, q + 2, r) = x
    <3>1. SubSeq(s, q + 2, r) = <<>>
      <4>1. q + 2 \in Int /\ r \in Int /\ r < q + 2
            BY <1>8, <2>2
      <4> QED BY <4>1, SubSeqEmpty
    <3>2. x \o <<>> = x
      <4> HIDE DEF x
      <4>1. x \in Seq({x[j] : j \in 1 .. Len(x)})
            BY <2>4 DEF IsSequence
      <4> QED BY <4>1, ConcatEmptySeq
    <3> QED BY <3>1, <3>2
  <2> HIDE DEF x
  <2>6. Number(digits, 0, Len(digits)) = Significand(s)
    <3>1. q - p + 0 = q - p
          BY <1>8
    <3> HIDE DEF digits
    <3> QED BY <1>4, <1>6, <1>11, <2>3, <2>4, <2>5, <3>1
  <2>7. Decimals(s) = IF points = {} THEN 0 ELSE n - point
    <3> HIDE DEF points, point
    <3> QED BY <1>4, <1>11, <2>1
  <2> QED BY <2>6, <2>7 DEF u, n, p, r, f
<1> QED BY <1>10, <1>11

\* Its exponent.
LEMMA NumeralPower ==
    ASSUME NEW s, IsSequence(s), HasDigits(s)
    PROVE  LET u == Unsigned(SubSeq(s, 1, NumeralEnd(s)))
               n == MantissaEnd(s) - Start(s)
               signed == n < Len(u) /\ u[n + 2] \in {"+", "-"}
               power == SubSeq(u, IF signed THEN n + 3 ELSE n + 2, Len(u))
               size == Number(power, 0, Len(power))
           IN  PowerOf(s) = (IF signed /\ u[n + 2] = "-" THEN -size ELSE size) - Decimals(s)
<1> DEFINE p == Start(s)
           r == MantissaEnd(s)
           f == NumeralEnd(s)
           e == AfterE(s, r)
           part == Decimals(s)
           u == Unsigned(SubSeq(s, 1, f))
           n == r - p
           signed == n < Len(u) /\ u[n + 2] \in {"+", "-"}
           power == SubSeq(u, IF signed THEN n + 3 ELSE n + 2, Len(u))
           size == Number(power, 0, Len(power))
<1>1. /\ Len(s) \in Nat /\ p \in 0 .. 1 /\ r \in p .. Len(s) /\ f \in r .. Len(s)
      /\ f # r => /\ f - r > 1 /\ e < f /\ e \in r + 1 .. r + 2 /\ Digital(s, e, f)
  <2>1. Whole(s) \in p .. Len(s) /\ r \in Whole(s) .. Len(s) /\ p \in 0 .. 1
        BY PlacesAre
  <2>2. r \in p .. Len(s)
        BY <2>1
  <2> QED BY <2>2, PlacesAre
<1>2. /\ u = Span(s, p, f) /\ n \in 1 .. f - p /\ Len(u) = f - p
      /\ \A i \in 1 .. f - p : u[i] = At(s, p + i - 1)
      BY NumeralCut
<1>3. part \in Int
  <2>1. Whole(s) \in p .. Len(s)
        BY PlacesAre
  <2>2. part = IF Pointed(s) THEN r - Whole(s) - 1 ELSE 0
        BY DEF Decimals
  <2> HIDE DEF part, p, r
  <2> QED BY <1>1, <2>1, <2>2
<1>4. PowerOf(s) = IF f = r THEN -part
                   ELSE IF At(s, r + 1) = "-" THEN -part - Number(s, e, f)
                   ELSE Number(s, e, f) - part
      BY DEF PowerOf
<1>5. e = IF At(s, r + 1) \in {"+", "-"} THEN r + 2 ELSE r + 1
      BY DEF AfterE
<1> HIDE DEF p, r, f, e, part, u, n
<1>6. n = r - p
      BY DEF n
<1>7. CASE f = r
  <2>1. ~signed
        BY <1>1, <1>2, <1>6, <1>7
  <2>2. power = <<>>
    <3>1. power = SubSeq(u, n + 2, Len(u))
          BY <2>1
    <3>2. n + 2 \in Int /\ Len(u) \in Int /\ Len(u) < n + 2
          BY <1>1, <1>2, <1>6, <1>7
    <3> HIDE DEF power
    <3> QED BY <3>1, <3>2, SubSeqEmpty
  <2>3. size = 0
    <3>1. Len(<<>>) = 0
          OBVIOUS
    <3>2. Number(<<>>, 0, 0) = 0
          BY NumberSteps
    <3> HIDE DEF power
    <3> QED BY <2>2, <3>1, <3>2
  <2> HIDE DEF size, signed
  <2>4. PowerOf(s) = (IF signed /\ u[n + 2] = "-" THEN -size ELSE size) - part
        BY <1>3, <1>4, <1>7, <2>1, <2>3
  <2> QED BY <2>4 DEF u, n, r, p, part, f, signed, size, power
<1>8. CASE f # r
  <2>1. n < Len(u) /\ u[n + 2] = At(s, r + 1)
    <3>1. n + 2 \in 1 .. f - p /\ p + (n + 2) - 1 = r + 1
          BY <1>1, <1>6, <1>8
    <3>2. u[n + 2] = At(s, p + (n + 2) - 1)
          BY <1>2, <3>1
    <3>3. n < Len(u)
          BY <1>1, <1>2, <1>6, <1>8
    <3> QED BY <3>1, <3>2, <3>3
  <2>2. signed <=> At(s, r + 1) \in {"+", "-"}
        BY <2>1
  <2>3. power = Span(s, e, f)
    <3>1. power = SubSeq(u, IF signed THEN n + 3 ELSE n + 2, Len(u))
          OBVIOUS
    <3> HIDE DEF power, signed
    <3>2. power = SubSeq(u, e - p + 1, f - p)
      <4>1. (IF signed THEN n + 3 ELSE n + 2) = e - p + 1
            BY <1>1, <1>5, <1>6, <2>2
      <4> QED BY <1>2, <3>1, <4>1
    <3>3. e - p \in Nat /\ p \in Nat /\ f \in p .. Len(s) /\ f - p \in e - p .. f - p
          /\ p + (e - p) = e /\ p + (f - p) = f
          BY <1>1, <1>8
    <3> DEFINE v == Span(s, p, f)
    <3>4. Span(v, e - p, f - p) = Span(s, p + (e - p), p + (f - p))
          BY <3>3, SpanOfSpan
    <3> HIDE DEF v
    <3>5. power = Span(v, e - p, f - p)
      <4>1. u = v
            BY <1>2 DEF v
      <4> QED BY <3>2, <4>1 DEF Span
    <3> QED BY <3>3, <3>4, <3>5
  <2>4. e \in Nat /\ f \in e .. Len(s)
        BY <1>1, <1>8
  <2>5. size = Number(s, e, f)
    <3> HIDE DEF power
    <3> QED BY <2>3, <2>4, SpanNumber
  <2>6. Number(s, e, f) \in Nat
    <3>1. f - e \in Nat /\ e + (f - e) = f /\ e \in Int
          BY <1>1, <2>4
    <3>2. \A i \in 1 .. f - e : s[e + i] \in Digits
      <4> TAKE i \in 1 .. f - e
      <4>1. e + i - 1 \in e .. f - 1 /\ e + i - 1 < Len(s) /\ (e + i - 1) + 1 = e + i
            BY <1>1, <2>4
      <4>2. IsInteger(At(s, e + i - 1))
            BY <1>1, <1>8, <4>1 DEF Digital
      <4> QED BY <4>1, <4>2 DEF At, IsInteger
    <3> QED BY <3>1, <3>2, NumberType
  <2> HIDE DEF size, signed
  <2>7. PowerOf(s) = (IF signed /\ u[n + 2] = "-" THEN -size ELSE size) - part
        BY <1>3, <1>4, <1>8, <2>1, <2>2, <2>5, <2>6
  <2> QED BY <2>7 DEF u, n, r, p, part, f, signed, size, power
<1> QED BY <1>7, <1>8

\* The longest numeral means what parse_number_string reads (fast_float.h 605-735).
LEMMA NumeralMeans ==
    ASSUME NEW s, IsSequence(s), HasDigits(s)
    PROVE  FloatOf(SubSeq(s, 1, NumeralEnd(s))) =
               ToFloat(At(s, 0) = "-", Significand(s), PowerOf(s))
<1> DEFINE t == SubSeq(s, 1, NumeralEnd(s))
           u == Unsigned(t)
           n == MantissaEnd(s) - Start(s)
           points == {i \in 1 .. n : u[i] = "."}
           point == CHOOSE i \in points : TRUE
           digits == IF points = {} THEN SubSeq(u, 1, n)
                     ELSE SubSeq(u, 1, point - 1) \o SubSeq(u, point + 1, n)
           fraction == IF points = {} THEN 0 ELSE n - point
           signed == n < Len(u) /\ u[n + 2] \in {"+", "-"}
           power == SubSeq(u, IF signed THEN n + 3 ELSE n + 2, Len(u))
           size == Number(power, 0, Len(power))
<1>1. t[1] = At(s, 0)
      BY NumeralCut
<1>2. Number(digits, 0, Len(digits)) = Significand(s) /\ Decimals(s) = fraction
      BY NumeralDigits
<1>3. PowerOf(s) = (IF signed /\ u[n + 2] = "-" THEN -size ELSE size) - Decimals(s)
      BY NumeralPower
<1>4. n = CHOOSE m \in 1 .. Len(u) : /\ IsMantissa(SubSeq(u, 1, m))
                                     /\ IsExponent(SubSeq(u, m + 1, Len(u)))
  <2>1. /\ n \in 1 .. Len(u)
        /\ \A m \in 1 .. Len(u) :
              IsMantissa(SubSeq(u, 1, m)) /\ IsExponent(SubSeq(u, m + 1, Len(u))) <=> m = n
        BY NumeralCut
  <2> HIDE DEF n, u
  <2> QED BY <2>1
<1> HIDE DEF n
<1>5. FloatOf(t) = ToFloat(t[1] = "-", Number(digits, 0, Len(digits)),
                           (IF signed /\ u[n + 2] = "-" THEN -size ELSE size) - fraction)
  <2> DEFINE c == CHOOSE m \in 1 .. Len(u) : /\ IsMantissa(SubSeq(u, 1, m))
                                            /\ IsExponent(SubSeq(u, m + 1, Len(u)))
             where(k) == {i \in 1 .. k : u[i] = "."}
             at(k) == CHOOSE i \in where(k) : TRUE
             of(k) == IF where(k) = {} THEN SubSeq(u, 1, k)
                      ELSE SubSeq(u, 1, at(k) - 1) \o SubSeq(u, at(k) + 1, k)
             part(k) == IF where(k) = {} THEN 0 ELSE k - at(k)
             sign(k) == k < Len(u) /\ u[k + 2] \in {"+", "-"}
             exp(k) == SubSeq(u, IF sign(k) THEN k + 3 ELSE k + 2, Len(u))
             num(k) == Number(exp(k), 0, Len(exp(k)))
             F(k) == ToFloat(t[1] = "-", Number(of(k), 0, Len(of(k))),
                             (IF sign(k) /\ u[k + 2] = "-" THEN -num(k) ELSE num(k)) - part(k))
  <2>1. FloatOf(t) = F(c)
        BY DEF FloatOf
  <2>2. F(n) = ToFloat(t[1] = "-", Number(digits, 0, Len(digits)),
                       (IF signed /\ u[n + 2] = "-" THEN -size ELSE size) - fraction)
        OBVIOUS
  <2> HIDE DEF F
  <2>3. F(c) = F(n)
        BY <1>4
  <2> QED BY <2>1, <2>2, <2>3
<1> HIDE DEF t
<1> HIDE DEF u, points, point, digits, fraction, signed, power, size
<1>6. FloatOf(t) = ToFloat(At(s, 0) = "-", Significand(s), PowerOf(s))
      BY <1>1, <1>2, <1>3, <1>5
<1> QED BY <1>6 DEF t

\* A float is read from the longest numeral a text begins with, or else from a word
\* (fast_float.h 605-735, 2888-2974).
LEMMA FloatIs ==
    ASSUME NEW s, IsSequence(s)
    PROVE  LET floats == Leading(s, IsFloat)
           IN  from_chars(s) =
                 IF floats # {} THEN [ec |-> "ok", val |-> FloatOf(Longest(floats))]
                 ELSE IF StartsWith(Unsigned(s), NanWord)
                      THEN [ec |-> "ok", val |-> Float("nan", 0)]
                 ELSE IF StartsWith(Unsigned(s), InfWord)
                      THEN [ec |-> "ok", val |-> Infinite(s[1] = "-")]
                 ELSE [ec |-> "invalid", val |-> 0]
<1> DEFINE floats == Leading(s, IsFloat)
           f == NumeralEnd(s)
<1>1. Len(s) \in Nat
      BY SequenceIs
<1>2. IF HasDigits(s) THEN floats # {} /\ Longest(floats) = SubSeq(s, 1, f) ELSE floats = {}
      BY LongestFloat
<1> HIDE DEF floats
<1>3. s = <<>> <=> Len(s) = 0
  <2>1. CASE Len(s) = 0
    <3>1. DOMAIN s = {} /\ s = [i \in DOMAIN s |-> s[i]]
          BY <2>1, SequenceIs
    <3>2. <<>> = [i \in {} |-> s[i]]
          OBVIOUS
    <3> QED BY <2>1, <3>1, <3>2
  <2>2. CASE Len(s) # 0
    <3>1. Len(<<>>) = 0
          OBVIOUS
    <3> QED BY <2>2, <3>1
  <2> QED BY <2>1, <2>2
<1>4. CASE s = <<>>
  <2>1. ~HasDigits(s)
    <3>1. /\ Start(s) \in 0 .. 1 /\ Whole(s) \in Start(s) .. 0 /\ MantissaEnd(s) \in Whole(s) .. 0
      <4>1. Len(s) = 0
            BY <1>3, <1>4
      <4> QED BY <4>1, PlacesAre
    <3>2. Whole(s) = 0 /\ Start(s) = 0
          BY <3>1
    <3>3. ~Pointed(s)
          BY <1>3, <1>4, <3>2 DEF Pointed, At
    <3> QED BY <3>2, <3>3 DEF HasDigits, Decimals
  <2>2. Unsigned(s) = s /\ Len(s) = 0
        BY <1>3, <1>4 DEF Unsigned
  <2>3. Len(NanWord) = 3 /\ Len(InfWord) = 3
        BY DEF NanWord, InfWord
  <2>4. ~StartsWith(Unsigned(s), NanWord) /\ ~StartsWith(Unsigned(s), InfWord)
        BY <2>2, <2>3 DEF StartsWith
  <2>5. from_chars(s) = [ec |-> "invalid", val |-> 0]
        BY <1>4 DEF from_chars
  <2> QED BY <1>2, <2>1, <2>4, <2>5 DEF floats
<1>5. CASE s # <<>> /\ HasDigits(s)
  <2>1. FloatOf(SubSeq(s, 1, f)) = ToFloat(At(s, 0) = "-", Significand(s), PowerOf(s))
        BY <1>5, NumeralMeans
  <2>2. parse_number_string(s) = [valid |-> TRUE, negative |-> At(s, 0) = "-",
                                  mantissa |-> Significand(s), exponent |-> PowerOf(s)]
        BY <1>5, NumeralParsed
  <2>3. from_chars(s) = from_parts(s, parse_number_string(s))
        BY <1>5 DEF from_chars
  <2>4. from_chars(s) = [ec |-> "ok", val |-> ToFloat(At(s, 0) = "-", Significand(s), PowerOf(s))]
    <3>1. ASSUME NEW neg \in BOOLEAN, neg <=> At(s, 0) = "-"
          PROVE  from_parts(s, parse_number_string(s)) =
                     [ec |-> "ok", val |-> ToFloat(At(s, 0) = "-", Significand(s), PowerOf(s))]
      <4>1. parse_number_string(s) = [valid |-> TRUE, negative |-> neg,
                                      mantissa |-> Significand(s), exponent |-> PowerOf(s)]
            BY <2>2, <3>1
      <4>2. from_parts(s, parse_number_string(s)) =
                [ec |-> "ok", val |-> ToFloat(neg, Significand(s), PowerOf(s))]
            BY <4>1 DEF from_parts
      <4> QED BY <3>1, <4>2
    <3>2. CASE At(s, 0) = "-"
          BY <2>3, <3>1, <3>2
    <3>3. CASE At(s, 0) # "-"
          BY <2>3, <3>1, <3>3
    <3> QED BY <3>2, <3>3
  <2> QED BY <1>2, <1>5, <2>1, <2>4 DEF floats
<1>6. CASE s # <<>> /\ ~HasDigits(s)
  <2>1. from_chars(s) = parse_infnan(s)
    <3>1. parse_number_string(s) = Invalid
          BY <1>6, NumeralParsed
    <3> QED BY <1>6, <3>1 DEF from_chars, from_parts, Invalid
  <2>2. At(s, 0) = s[1]
        BY <1>1, <1>3, <1>6 DEF At
  <2>3. Unsigned(s) = IF s[1] = "-" THEN SubSeq(s, 2, Len(s)) ELSE s
    <3>1. Tail(s) = SubSeq(s, 2, Len(s))
      <4>1. s \in Seq({s[i] : i \in 1 .. Len(s)})
            BY DEF IsSequence
      <4> QED BY <1>6, <4>1, TailIsSubSeq
    <3> QED BY <1>6, <3>1 DEF Unsigned
  <2>4. parse_infnan(s) =
            IF StartsWith(Unsigned(s), NanWord) THEN [ec |-> "ok", val |-> Float("nan", 0)]
            ELSE IF StartsWith(Unsigned(s), InfWord)
                 THEN [ec |-> "ok", val |-> Infinite(s[1] = "-")]
            ELSE [ec |-> "invalid", val |-> 0]
        BY <2>2, <2>3, Zenon DEF parse_infnan, NanWord, InfWord
  <2> QED BY <1>2, <1>6, <2>1, <2>4 DEF floats
<1> QED BY <1>4, <1>5, <1>6

\* A text is read as its type says, whatever it is, and in one way only.
LEMMA TextIs ==
    ASSUME NEW s, IsSequence(s), NEW tag \in Scalars
    PROVE  LET ints == Leading(s, IsInt)
               floats == Leading(s, IsFloat)
               Fits(w) == ints # {} /\ IntOf(Longest(ints)) \in IntRange(w)
               IsWord(words) == \E word \in words : StartsWith(s, word)
           IN  /\ tag \in {I32, I64} =>
                     from_txt(tag, s) = IF Fits(Width(tag)) THEN Value(tag, IntOf(Longest(ints)))
                                        ELSE Abort
               /\ tag = Bol =>
                     from_txt(tag, s) = IF Fits(W64) THEN Value(Bol, IntOf(Longest(ints)) # 0)
                                        ELSE IF IsWord({True, UpperTrue}) THEN Value(Bol, TRUE)
                                        ELSE IF IsWord({False, UpperFalse}) THEN Value(Bol, FALSE)
                                        ELSE Abort
               /\ tag \in {F32, F64} =>
                     from_txt(tag, s) =
                         IF floats # {} THEN Value(tag, FloatOf(Longest(floats)))
                         ELSE IF \E word \in {NanWord, InfWord} : StartsWith(Unsigned(s), word)
                         THEN Value(tag, IF StartsWith(Unsigned(s), NanWord) THEN Float("nan", 0)
                                         ELSE Infinite(s[1] = "-"))
                         ELSE Abort
<1> DEFINE ints == Leading(s, IsInt)
           floats == Leading(s, IsFloat)
           n == IntOf(Longest(ints))
           x == FloatOf(Longest(floats))
           Fits(w) == ints # {} /\ n \in IntRange(w)
           IsWord(words) == \E word \in words : StartsWith(s, word)
<1>1. \A w : FromChars(s, w) = IF ints = {} THEN [ec |-> "invalid", val |-> 0]
                               ELSE IF n \in IntRange(w) THEN [ec |-> "ok", val |-> n]
                               ELSE [ec |-> "range", val |-> 0]
      BY IntegerIs
<1>2. from_chars(s) =
          IF floats # {} THEN [ec |-> "ok", val |-> x]
          ELSE IF StartsWith(Unsigned(s), NanWord) THEN [ec |-> "ok", val |-> Float("nan", 0)]
          ELSE IF StartsWith(Unsigned(s), InfWord) THEN [ec |-> "ok", val |-> Infinite(s[1] = "-")]
          ELSE [ec |-> "invalid", val |-> 0]
      BY FloatIs
<1> HIDE DEF ints, floats, n, x
<1>3. ASSUME NEW w PROVE /\ FromChars(s, w).ec = "ok" <=> Fits(w)
                         /\ Fits(w) => FromChars(s, w).val = n
      BY <1>1
<1>4. ASSUME tag \in {I32, I64}
      PROVE  from_txt(tag, s) = IF Fits(Width(tag)) THEN Value(tag, n) ELSE Abort
  <2>1. from_txt(tag, s) = Checked(tag, FromChars(s, Width(tag)))
    <3>1. CASE tag = I32
          BY <3>1, Tags DEF from_txt, txt2i32, Width
    <3>2. CASE tag = I64
          BY <3>2, Tags DEF from_txt, txt2i64, Width
    <3> QED BY <1>4, <3>1, <3>2
  <2> HIDE DEF Fits
  <2> QED BY <1>3, <2>1 DEF Checked
<1>5. ASSUME tag = Bol
      PROVE  from_txt(tag, s) = IF Fits(W64) THEN Value(Bol, n # 0)
                                ELSE IF IsWord({True, UpperTrue}) THEN Value(Bol, TRUE)
                                ELSE IF IsWord({False, UpperFalse}) THEN Value(Bol, FALSE)
                                ELSE Abort
  <2>1. from_txt(tag, s) = BolOf(FromChars(s, W64), s)
        BY <1>5, Tags DEF from_txt, txt2bol
  <2>2. /\ IsWord({True, UpperTrue}) <=> StartsWith(s, True) \/ StartsWith(s, UpperTrue)
        /\ IsWord({False, UpperFalse}) <=> StartsWith(s, False) \/ StartsWith(s, UpperFalse)
        OBVIOUS
  <2> HIDE DEF Fits, IsWord
  <2>3. CASE Fits(W64)
        BY <1>3, <2>1, <2>3 DEF BolOf
  <2>4. CASE ~Fits(W64)
        BY <1>3, <2>1, <2>2, <2>4 DEF BolOf
  <2> QED BY <2>3, <2>4
<1>6. ASSUME tag \in {F32, F64}
      PROVE  from_txt(tag, s) =
                 IF floats # {} THEN Value(tag, x)
                 ELSE IF \E word \in {NanWord, InfWord} : StartsWith(Unsigned(s), word)
                 THEN Value(tag, IF StartsWith(Unsigned(s), NanWord) THEN Float("nan", 0)
                                 ELSE Infinite(s[1] = "-"))
                 ELSE Abort
  <2>1. from_txt(tag, s) = Checked(tag, from_chars(s))
    <3>1. CASE tag = F32
          BY <3>1, Tags DEF from_txt, txt2f32
    <3>2. CASE tag = F64
          BY <3>2, Tags DEF from_txt, txt2f64
    <3> QED BY <1>6, <3>1, <3>2
  <2>2. (\E word \in {NanWord, InfWord} : StartsWith(Unsigned(s), word))
            <=> StartsWith(Unsigned(s), NanWord) \/ StartsWith(Unsigned(s), InfWord)
        OBVIOUS
  <2>3. CASE floats # {}
        BY <1>2, <2>1, <2>3 DEF Checked
  <2>4. CASE floats = {} /\ StartsWith(Unsigned(s), NanWord)
        BY <1>2, <2>1, <2>2, <2>4 DEF Checked
  <2>5. CASE /\ floats = {} /\ ~StartsWith(Unsigned(s), NanWord)
             /\ StartsWith(Unsigned(s), InfWord)
        BY <1>2, <2>1, <2>2, <2>5 DEF Checked
  <2>6. CASE /\ floats = {} /\ ~StartsWith(Unsigned(s), NanWord)
             /\ ~StartsWith(Unsigned(s), InfWord)
        BY <1>2, <2>1, <2>2, <2>6 DEF Checked
  <2> QED BY <2>3, <2>4, <2>5, <2>6
<1> QED BY <1>4, <1>5, <1>6 DEF ints, floats, n, x

\* Reading a number or a boolean from any text takes the longest numeral the text begins
\* with, or a word, and aborts if there is neither (conv.hpp 15-113).
THEOREM TextRead == Spec => []TextIsRead
<1>1. Init => InputOf
      BY DEF Init, InputOf
<1>2. Init => TextIsRead
      BY DEF Init, TextIsRead, Answered
<1>3. InputOf /\ TextIsRead /\ [Next]_vars => TextIsRead'
  <2> SUFFICES ASSUME InputOf, TextIsRead, [Next]_vars PROVE TextIsRead'
      OBVIOUS
  <2>1. CASE UNCHANGED vars
        BY <2>1 DEF TextIsRead, Answered, vars
  <2>2. CASE Reads
    <3> DEFINE s == input.text
               tag == input.tag
               ints == Leading(s, IsInt)
               floats == Leading(s, IsFloat)
               Fits(w) == ints # {} /\ IntOf(Longest(ints)) \in IntRange(w)
               IsWord(words) == \E word \in words : StartsWith(s, word)
               integer == IF Fits(Width(tag)) THEN Value(tag, IntOf(Longest(ints))) ELSE Abort
               boolean == IF Fits(W64) THEN Value(Bol, IntOf(Longest(ints)) # 0)
                          ELSE IF IsWord({True, UpperTrue}) THEN Value(Bol, TRUE)
                          ELSE IF IsWord({False, UpperFalse}) THEN Value(Bol, FALSE)
                          ELSE Abort
               float == IF floats # {} THEN Value(tag, FloatOf(Longest(floats)))
                        ELSE IF \E word \in {NanWord, InfWord} : StartsWith(Unsigned(s), word)
                        THEN Value(tag, IF StartsWith(Unsigned(s), NanWord) THEN Float("nan", 0)
                                        ELSE Infinite(s[1] = "-"))
                        ELSE Abort
    <3>1. /\ input.fn = "from_txt" /\ input' = input
          /\ output' = {from_txt(tag, s)}
          BY <2>2 DEF Reads, Is, Calls
    <3>2. tag \in Scalars /\ s \in SomeTexts
          BY <3>1 DEF InputOf
    <3>3. IsSequence(s)
          BY <3>2, ConversionsAssumption
    <3>4. /\ tag \in {I32, I64} => from_txt(tag, s) = integer
          /\ tag = Bol => from_txt(tag, s) = boolean
          /\ tag \in {F32, F64} => from_txt(tag, s) = float
      <4> HIDE DEF s, tag
      <4> QED BY <3>2, <3>3, TextIs
    <3> HIDE DEF integer, boolean, float
    <3>5. from_txt(tag, s) = CASE tag \in {I32, I64} -> integer
                               [] tag = Bol -> boolean
                               [] OTHER -> float
      <4> HIDE DEF s, tag
      <4> QED BY <3>2, <3>4, Tags
    <3> QED BY <3>1, <3>5, Zenon DEF TextIsRead, integer, boolean, float
  <2>3. CASE \/ Converts \/ ConvertsVector \/ FindsInRow \/ FindsInTable \/ ParsesSpec \/ Logs
             \/ RunsExample
        BY <2>3 DEF TextIsRead, Answered, Converts, ConvertsVector, FindsInRow, FindsInTable,
                    ParsesSpec, Logs, RunsExample, Is, Calls
  <2> QED BY <2>1, <2>2, <2>3 DEF Next
<1> QED BY <1>1, <1>2, <1>3, InputStep, PTL DEF Spec
=============================================================================
