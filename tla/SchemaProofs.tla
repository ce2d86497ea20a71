---------------------------- MODULE SchemaProofs -----------------------------
(***************************************************************************)
(* Theorems about the schema build.                                        *)
(***************************************************************************)
EXTENDS SchemaProperties, Recursion, FiniteSetTheorems, SequenceTheorems

-----------------------------------------------------------------------------
\* Orders

\* Ascending lists the members of a finite set of numbers.
LEMMA AscendingLists ==
    ASSUME NEW S, IsFiniteSet(S), S \subseteq Int
    PROVE  IsListing(Ascending(S), S)
BY LessListed DEF Ascending, Ordered

-----------------------------------------------------------------------------
\* Lists

\* A list is a function from its positions.
LEMMA ListIsFunction ==
    ASSUME NEW s, IsList(s)
    PROVE  /\ Len(s) \in Nat /\ DOMAIN s = 1 .. Len(s)
           /\ s = [i \in 1 .. Len(s) |-> s[i]]
BY LenProperties DEF IsList

\* And a function from the positions up to some number is a list.
LEMMA FunctionIsList ==
    ASSUME NEW n \in Nat, NEW s, s = [i \in 1 .. n |-> s[i]]
    PROVE  IsList(s) /\ Len(s) = n
<1> DEFINE R == {s[i] : i \in DOMAIN s}
<1>1. s \in [1 .. n -> R]
    OBVIOUS
<1>2. s \in Seq(R)
    <2> HIDE DEF R
    <2>1. \A S : \A k \in Nat : \A g \in [1 .. k -> S] : g \in Seq(S)
        BY SeqDef
    <2>2. QED
        BY <1>1, <2>1
<1>3. Len(s) = n
    <2> HIDE DEF R
    <2>1. Len(s) \in Nat /\ DOMAIN s = 1 .. Len(s) /\ DOMAIN s = 1 .. n
        BY <1>1, <1>2, LenProperties
    <2>2. QED
        BY <2>1
<1>4. QED
    BY <1>2, <1>3 DEF IsList

\* Appending adds one item at the end.
LEMMA ListAppend ==
    ASSUME NEW s, IsList(s), NEW e
    PROVE  /\ IsList(Append(s, e)) /\ Len(Append(s, e)) = Len(s) + 1
           /\ DOMAIN Append(s, e) = (DOMAIN s) \cup {Len(s) + 1}
           /\ \A i \in DOMAIN s : Append(s, e)[i] = s[i]
           /\ Append(s, e)[Len(s) + 1] = e
<1> DEFINE R == {s[i] : i \in DOMAIN s} \cup {e}
<1>1. /\ Len(s) \in Nat /\ DOMAIN s = 1 .. Len(s) /\ s \in Seq(R) /\ e \in R
    BY ListIsFunction, SeqMonotonic DEF IsList
<1>2. PICK n \in Nat : n = Len(s)
    BY <1>1
<1> HIDE DEF R
<1>3. /\ Append(s, e) \in Seq(R) /\ Len(Append(s, e)) = n + 1
      /\ \A i \in 1 .. n : Append(s, e)[i] = s[i]
      /\ Append(s, e)[n + 1] = e
    BY <1>1, <1>2, AppendProperties
<1>4. /\ DOMAIN Append(s, e) = 1 .. (n + 1)
      /\ Append(s, e) = [i \in 1 .. (n + 1) |-> Append(s, e)[i]]
    BY <1>3, LenProperties
<1>5. IsList(Append(s, e))
    BY <1>4, FunctionIsList
<1>6. QED
    BY <1>1, <1>2, <1>3, <1>4, <1>5

\* c begins with s and has the items of u.
Follows(c, s, u) ==
    /\ \A i \in DOMAIN s : i \in DOMAIN c /\ c[i] = s[i]
    /\ \A j \in DOMAIN u : \E i \in DOMAIN c : c[i] = u[j]

\* Two lists, one after the other.
LEMMA ListConcat ==
    ASSUME NEW s, NEW u, IsList(s), IsList(u)
    PROVE  /\ IsList(s \o u) /\ Len(s \o u) = Len(s) + Len(u) /\ Follows(s \o u, s, u)
           /\ \A i \in DOMAIN s : i \in DOMAIN (s \o u) /\ (s \o u)[i] = s[i]
           /\ \A i \in DOMAIN u : Len(s) + i \in DOMAIN (s \o u) /\ (s \o u)[Len(s) + i] = u[i]
           /\ \A i \in DOMAIN (s \o u) :
                 \/ i \in DOMAIN s /\ (s \o u)[i] = s[i]
                 \/ \E j \in DOMAIN u : i = Len(s) + j /\ (s \o u)[i] = u[j]
<1> DEFINE R == {s[i] : i \in DOMAIN s} \cup {u[i] : i \in DOMAIN u}
<1>1. /\ Len(s) \in Nat /\ DOMAIN s = 1 .. Len(s) /\ s \in Seq(R)
      /\ Len(u) \in Nat /\ DOMAIN u = 1 .. Len(u) /\ u \in Seq(R)
    BY ListIsFunction, SeqMonotonic DEF IsList
<1>2. PICK n \in Nat, k \in Nat : n = Len(s) /\ k = Len(u)
    BY <1>1
<1> HIDE DEF R
<1>3. /\ s \o u \in Seq(R) /\ Len(s \o u) = n + k
      /\ \A i \in 1 .. (n + k) : (s \o u)[i] = IF i <= n THEN s[i] ELSE u[i - n]
    BY <1>1, <1>2, ConcatProperties
<1>4. /\ DOMAIN (s \o u) = 1 .. (n + k)
      /\ s \o u = [i \in 1 .. (n + k) |-> (s \o u)[i]]
    BY <1>3, LenProperties
<1>5. IsList(s \o u)
    BY <1>4, FunctionIsList
<1>6. \A i \in 1 .. n : i \in 1 .. (n + k) /\ (s \o u)[i] = s[i]
    BY <1>3
<1>7. \A i \in 1 .. k : n + i \in 1 .. (n + k) /\ (s \o u)[n + i] = u[i]
    <2> SUFFICES ASSUME NEW i \in 1 .. k
                 PROVE  n + i \in 1 .. (n + k) /\ (s \o u)[n + i] = u[i]
        OBVIOUS
    <2>1. n + i \in 1 .. (n + k) /\ ~(n + i <= n) /\ (n + i) - n = i
        OBVIOUS
    <2>2. QED
        BY <1>3, <2>1
<1>8. \A i \in 1 .. (n + k) :
         \/ i \in 1 .. n /\ (s \o u)[i] = s[i]
         \/ \E j \in 1 .. k : i = n + j /\ (s \o u)[i] = u[j]
    <2> SUFFICES ASSUME NEW i \in 1 .. (n + k), i \notin 1 .. n
                 PROVE  \E j \in 1 .. k : i = n + j /\ (s \o u)[i] = u[j]
        BY <1>6
    <2>1. i - n \in 1 .. k /\ i = n + (i - n)
        OBVIOUS
    <2>2. QED
        BY <1>7, <2>1
<1>9. DOMAIN s = 1 .. n /\ DOMAIN u = 1 .. k /\ DOMAIN (s \o u) = 1 .. (n + k)
    BY <1>1, <1>2, <1>4
<1>10. Follows(s \o u, s, u)
    BY <1>6, <1>7, <1>9 DEF Follows
<1>11. QED
    BY <1>2, <1>3, <1>5, <1>6, <1>7, <1>8, <1>9, <1>10

\* Its items are those of the two.
LEMMA ConcatItems ==
    ASSUME NEW s, NEW u, IsList(s), IsList(u), NEW i \in DOMAIN (s \o u)
    PROVE  \/ i \in DOMAIN s /\ (s \o u)[i] = s[i]
           \/ \E j \in DOMAIN u : i = Len(s) + j /\ (s \o u)[i] = u[j]
BY ListConcat

\* What is left of a list without its first item.
LEMMA ListTail ==
    ASSUME NEW s, IsList(s), s # <<>>
    PROVE  /\ IsList(Tail(s)) /\ 1 \in DOMAIN s /\ Head(s) = s[1]
           /\ \A i \in DOMAIN Tail(s) : i + 1 \in DOMAIN s /\ Tail(s)[i] = s[i + 1]
           /\ \A i \in DOMAIN s : i = 1 \/ (i - 1 \in DOMAIN Tail(s) /\ Tail(s)[i - 1] = s[i])
<1> DEFINE R == {s[i] : i \in DOMAIN s}
<1>1. s \in Seq(R)
    BY DEF IsList
<1>2. PICK n \in Nat : n = Len(s) /\ DOMAIN s = 1 .. n
    BY ListIsFunction
<1> HIDE DEF R
<1>3. n # 0
    BY <1>1, <1>2, EmptySeq
<1>4. /\ Tail(s) \in Seq(R) /\ Len(Tail(s)) = n - 1 /\ Head(s) = s[1]
      /\ \A i \in 1 .. (n - 1) : Tail(s)[i] = s[i + 1]
    BY <1>1, <1>2, <1>3, HeadTailProperties
<1>5. n - 1 \in Nat /\ DOMAIN Tail(s) = 1 .. (n - 1)
      /\ Tail(s) = [i \in 1 .. (n - 1) |-> Tail(s)[i]]
    BY <1>3, <1>4, LenProperties
<1>6. IsList(Tail(s))
    BY <1>5, FunctionIsList
<1>7. \A i \in 1 .. n : i = 1 \/ (i - 1 \in 1 .. (n - 1) /\ Tail(s)[i - 1] = s[i])
    <2> SUFFICES ASSUME NEW i \in 1 .. n, i # 1
                 PROVE  i - 1 \in 1 .. (n - 1) /\ Tail(s)[i - 1] = s[i]
        OBVIOUS
    <2>1. i - 1 \in 1 .. (n - 1) /\ (i - 1) + 1 = i
        OBVIOUS
    <2>2. QED
        BY <1>4, <2>1
<1>8. \A i \in 1 .. (n - 1) : i + 1 \in 1 .. n
    OBVIOUS
<1>9. QED
    BY <1>2, <1>3, <1>4, <1>5, <1>6, <1>7, <1>8

\* The empty list, and a list of one.
LEMMA ShortLists ==
    /\ IsList(<<>>) /\ Len(<<>>) = 0 /\ DOMAIN <<>> = {}
    /\ \A e : IsList(<<e>>) /\ Len(<<e>>) = 1 /\ DOMAIN <<e>> = {1}
<1>1. IsList(<<>>) /\ Len(<<>>) = 0 /\ DOMAIN <<>> = {}
    BY FunctionIsList, EmptySeq DEF IsList
<1>2. ASSUME NEW e PROVE IsList(<<e>>) /\ Len(<<e>>) = 1 /\ DOMAIN <<e>> = {1}
    <2>1. 1 .. 1 = {1} /\ DOMAIN <<e>> = 1 .. 1
        OBVIOUS
    <2>2. <<e>> = [i \in 1 .. 1 |-> <<e>>[i]]
        OBVIOUS
    <2>3. QED
        BY <2>1, <2>2, FunctionIsList
<1>3. QED
    BY <1>1, <1>2

\* What is made of each item of a list is a list.
LEMMA EachPlace ==
    ASSUME NEW s, IsList(s), NEW t, DOMAIN t = DOMAIN s, t = [i \in DOMAIN s |-> t[i]]
    PROVE  IsList(t)
BY ListIsFunction, FunctionIsList

\* A part of a list is a list, of the items at the positions picked.
LEMMA PickedLists ==
    ASSUME NEW s, IsList(s), NEW S, S \subseteq DOMAIN s
    PROVE  /\ IsList(Picked(s, S))
           /\ \A n \in DOMAIN Picked(s, S) : \E i \in S : Picked(s, S)[n] = s[i]
           /\ \A i \in S : \E n \in DOMAIN Picked(s, S) : Picked(s, S)[n] = s[i]
           /\ IsListing(Ascending(S), S)
           /\ DOMAIN Picked(s, S) = 1 .. Cardinality(S)
           /\ \A n \in 1 .. Cardinality(S) : Picked(s, S)[n] = s[Ascending(S)[n]]
<1>1. PICK k \in Nat : DOMAIN s = 1 .. k
    BY ListIsFunction
<1>2. IsFiniteSet(S) /\ S \subseteq Int
    BY <1>1, FS_Interval, FS_Subset
<1>3. IsListing(Ascending(S), S)
    BY <1>2, AscendingLists
<1>4. PICK n \in Nat : n = Cardinality(S) /\ Ascending(S) \in [1 .. n -> S]
    BY <1>3 DEF IsListing
<1>5. Picked(s, S) = [m \in 1 .. n |-> s[Ascending(S)[m]]]
    BY <1>4 DEF Picked
<1>6. IsList(Picked(s, S)) /\ DOMAIN Picked(s, S) = 1 .. n
    BY <1>4, <1>5, FunctionIsList
<1>7. \A m \in 1 .. n : Picked(s, S)[m] = s[Ascending(S)[m]] /\ Ascending(S)[m] \in S
    BY <1>4, <1>5
<1>8. \A i \in S : \E m \in 1 .. n : Ascending(S)[m] = i
    BY <1>3, <1>4 DEF IsListing
<1>9. QED
    BY <1>3, <1>4, <1>6, <1>7, <1>8

\* Positions of a list are finitely many numbers.
LEMMA GroupIsFinite ==
    ASSUME NEW items, IsList(items), NEW S, S \subseteq DOMAIN items
    PROVE  IsFiniteSet(S) /\ S \subseteq Nat
<1>1. PICK n \in Nat : DOMAIN items = 1 .. n
    BY ListIsFunction
<1>2. QED
    BY <1>1, FS_Interval, FS_Subset

\* What a finite set is sent to is finite.
LEMMA FiniteImage ==
    ASSUME NEW S, IsFiniteSet(S), NEW f
    PROVE  IsFiniteSet({f[i] : i \in S})
<1> DEFINE g == [i \in S |-> f[i]]
           T == {f[i] : i \in S}
<1>1. g \in Surjection(S, T)
    BY DEF Surjection
<1>2. QED
    BY <1>1, FS_Surjection

\* The least position of some.
LEMMA MinIsMember ==
    ASSUME NEW S, S \subseteq Nat, S # {}
    PROVE  Min(S) \in S /\ \A i \in S : Min(S) <= i
BY LeastOf DEF Min

-----------------------------------------------------------------------------
\* Numbers as names

\* A name with a piece more.
LEMMA NameAppend ==
    ASSUME NEW s \in Names, NEW d \in Pieces
    PROVE  /\ Len(s) \in Nat /\ Append(s, d) \in Names /\ Len(Append(s, d)) = Len(s) + 1
           /\ \A i \in 1 .. Len(s) : Append(s, d)[i] = s[i]
           /\ Append(s, d)[Len(s) + 1] = d
<1>1. s \in Seq(Pieces)
    BY DEF Names
<1>2. QED
    BY <1>1, AppendProperties, LenProperties DEF Names

\* Which piece, and which name, it tells.
LEMMA AppendApart ==
    ASSUME NEW s \in Names, NEW t \in Names, NEW a \in Pieces, NEW b \in Pieces, Append(s, a) = Append(t, b)
    PROVE  s = t /\ a = b
<1>1. PICK m \in Nat, n \in Nat : m = Len(s) /\ n = Len(t)
    BY NameAppend
<1>2. /\ Len(Append(s, a)) = m + 1 /\ \A i \in 1 .. m : Append(s, a)[i] = s[i]
      /\ Append(s, a)[m + 1] = a
    BY <1>1, NameAppend
<1>3. /\ Len(Append(t, b)) = n + 1 /\ \A i \in 1 .. n : Append(t, b)[i] = t[i]
      /\ Append(t, b)[n + 1] = b
    BY <1>1, NameAppend
<1>4. m = n
    BY <1>2, <1>3
<1>5. \A i \in 1 .. m : s[i] = t[i]
    BY <1>2, <1>3, <1>4
<1>6. QED
    BY <1>1, <1>2, <1>3, <1>4, <1>5, SeqEqual DEF Names

\* g spells the numbers up to n.
Spells(g, n) ==
    g = [k \in 0 .. n |-> IF k < 10 THEN <<Digits[k + 1]>>
                          ELSE Append(g[k \div 10], Digits[(k % 10) + 1])]

\* A number of two digits or more without its last one, and that digit.
LEMMA LastDigit ==
    ASSUME NEW k \in Nat
    PROVE  /\ k \div 10 \in Nat /\ k % 10 \in 0 .. 9 /\ k = 10 * (k \div 10) + (k % 10)
           /\ k >= 10 => k \div 10 < k
OBVIOUS

\* The digits are apart.
LEMMA DigitsApart ==
    /\ \A i \in 1 .. 10 : Digits[i] \in Pieces
    /\ \A i, j \in 1 .. 10 : Digits[i] = Digits[j] => i = j
<1>1. /\ Digits[1] = "0" /\ Digits[2] = "1" /\ Digits[3] = "2" /\ Digits[4] = "3" /\ Digits[5] = "4"
      /\ Digits[6] = "5" /\ Digits[7] = "6" /\ Digits[8] = "7" /\ Digits[9] = "8" /\ Digits[10] = "9"
    BY DEF Digits
<1>2. \A i \in 1 .. 10 : \/ i = 1 \/ i = 2 \/ i = 3 \/ i = 4 \/ i = 5
                          \/ i = 6 \/ i = 7 \/ i = 8 \/ i = 9 \/ i = 10
    OBVIOUS
<1>3. \A i, j \in 1 .. 10 : Digits[i] = Digits[j] => i = j
    BY <1>1, <1>2
<1>4. \A i \in 1 .. 10 : Digits[i] \in ToSet(Digits)
    BY DEF Digits, ToSet
<1>5. \A i \in 1 .. 10 : Digits[i] \in Pieces
    BY <1>4, IdentifiersAssumption
<1>6. QED
    BY <1>3, <1>5

\* There is such a function.
LEMMA NumbersSpell ==
    ASSUME NEW m \in Nat
    PROVE  \E g : Spells(g, m)
<1> DEFINE T == {k \in 0 .. m : \E g : Spells(g, k)}
<1>1. 0 \in T
    <2>1. 0 .. 0 = {0}
        OBVIOUS
    <2>2. Spells([n \in 0 .. 0 |-> <<Digits[n + 1]>>], 0)
        BY <2>1 DEF Spells
    <2>3. QED
        BY <2>2
<1>2. ASSUME NEW k \in (0 + 1) .. m, k - 1 \in T PROVE k \in T
    <2>1. PICK g : Spells(g, k - 1)
        BY <1>2
    <2> DEFINE Next1(f, n) == IF n < 10 THEN <<Digits[n + 1]>>
                              ELSE Append(f[n \div 10], Digits[(n % 10) + 1])
               h == [n \in 0 .. k |-> IF n = k THEN Next1(g, n) ELSE g[n]]
    <2>2. ASSUME NEW n \in 0 .. k PROVE h[n] = Next1(h, n)
        <3>1. n >= 10 => n \div 10 \in 0 .. (k - 1) /\ n \div 10 # k
            BY <1>2, <2>2, LastDigit
        <3>2. n >= 10 => h[n \div 10] = g[n \div 10]
            BY <1>2, <3>1
        <3>3. Next1(h, n) = Next1(g, n)
            <4> HIDE DEF h
            <4>1. QED
                BY <3>2
        <3>4. CASE n = k
            BY <3>3, <3>4
        <3>5. CASE n # k
            <4>1. n \in 0 .. (k - 1)
                BY <2>2, <3>5
            <4>2. g[n] = Next1(g, n)
                BY <2>1, <4>1 DEF Spells
            <4>3. QED
                BY <3>3, <3>5, <4>2
        <3>6. QED
            BY <3>4, <3>5
    <2>3. Spells(h, k)
        BY <2>2 DEF Spells
    <2> HIDE DEF h
    <2>4. QED
        BY <1>2, <2>3
<1> HIDE DEF T
<1>3. 0 .. m \subseteq T
    BY <1>1, <1>2, StepByStep
<1>4. QED
    BY <1>3 DEF T

\* Numbers are spelled by names, with one digit where there is no more.
LEMMA SpelledNames ==
    ASSUME NEW n \in Nat, NEW g, Spells(g, n), NEW k \in 0 .. n
    PROVE  /\ g[k] \in Names /\ Len(g[k]) >= 1
           /\ k >= 10 => Len(g[k]) >= 2
<1> DEFINE T == {i \in 0 .. n : g[i] \in Names /\ Len(g[i]) >= 1 /\ (i >= 10 => Len(g[i]) >= 2)}
           D == 0 .. n
           m == [i \in D |-> i]
<1>1. ASSUME NEW i \in D, \A j \in D : m[j] < m[i] => j \in T
      PROVE  i \in T
    <2>1. g[i] = IF i < 10 THEN <<Digits[i + 1]>> ELSE Append(g[i \div 10], Digits[(i % 10) + 1])
        BY <1>1 DEF Spells
    <2>2. CASE i < 10
        <3>1. i + 1 \in 1 .. 10
            BY <1>1, <2>2
        <3>2. PICK d \in Pieces : d = Digits[i + 1]
            BY <3>1, DigitsApart
        <3>3. g[i] = <<d>>
            BY <2>1, <2>2, <3>2
        <3>4. <<d>> \in Names /\ Len(<<d>>) = 1
            BY DEF Names
        <3>5. i \in 0 .. n /\ ~(i >= 10)
            BY <1>1, <2>2
        <3>6. g[i] \in Names /\ Len(g[i]) >= 1
            BY <3>3, <3>4
        <3>7. QED
            BY <3>5, <3>6
    <2>3. CASE i >= 10
        <3>1. i \div 10 \in D /\ i \div 10 < i /\ (i % 10) + 1 \in 1 .. 10
            BY <1>1, <2>3, LastDigit
        <3>2. i \div 10 \in T
            BY <1>1, <3>1
        <3>3. PICK d \in Pieces : d = Digits[(i % 10) + 1]
            BY <3>1, DigitsApart
        <3>4. g[i] = Append(g[i \div 10], d)
            BY <1>1, <2>1, <2>3, <3>3
        <3>5. PICK s \in Names : s = g[i \div 10] /\ Len(s) >= 1
            BY <3>2
        <3>6. Append(s, d) \in Names /\ Len(Append(s, d)) >= 2
            BY <3>5, NameAppend
        <3>7. g[i] \in Names /\ Len(g[i]) >= 2 /\ i \in 0 .. n
            BY <1>1, <3>4, <3>5, <3>6
        <3>8. Len(g[i]) >= 1
            BY <3>4, <3>5, NameAppend
        <3>9. QED
            BY <3>7, <3>8
    <2>4. QED
        BY <1>1, <2>2, <2>3
<1>2. m \in [D -> Nat]
    OBVIOUS
<1> HIDE DEF T, D, m
<1>3. D \subseteq T
    BY <1>1, <1>2, MeasureInduction
<1>4. QED
    BY <1>3 DEF T, D

\* No two numbers are spelled alike.
LEMMA SpelledApart ==
    ASSUME NEW n \in Nat, NEW o \in Nat, NEW g, NEW h, Spells(g, n), Spells(h, o),
           NEW k \in 0 .. n, NEW l \in 0 .. o, g[k] = h[l]
    PROVE  k = l
<1> DEFINE D == 0 .. n
           T == {i \in D : \A j \in 0 .. o : g[i] = h[j] => i = j}
           m == [i \in D |-> i]
<1>1. ASSUME NEW i \in D, \A e \in D : m[e] < m[i] => e \in T
      PROVE  i \in T
    <2> SUFFICES ASSUME NEW j \in 0 .. o, g[i] = h[j] PROVE i = j
        BY <1>1
    <2>1. g[i] = IF i < 10 THEN <<Digits[i + 1]>> ELSE Append(g[i \div 10], Digits[(i % 10) + 1])
        BY <1>1 DEF Spells
    <2>2. h[j] = IF j < 10 THEN <<Digits[j + 1]>> ELSE Append(h[j \div 10], Digits[(j % 10) + 1])
        BY <1>1 DEF Spells
    <2>3. CASE i < 10 /\ j < 10
        <3>0. <<Digits[i + 1]>> = <<Digits[j + 1]>>
            BY <2>1, <2>2, <2>3
        <3>1. Digits[i + 1] = Digits[j + 1] /\ i + 1 \in 1 .. 10 /\ j + 1 \in 1 .. 10
            BY <1>1, <2>3, <3>0
        <3>2. i + 1 = j + 1
            BY <3>1, DigitsApart
        <3>3. QED
            BY <1>1, <3>2
    <2>4. CASE i >= 10 /\ j >= 10
        <3>1. /\ i \div 10 \in D /\ i \div 10 < i /\ (i % 10) + 1 \in 1 .. 10
              /\ j \div 10 \in 0 .. o /\ (j % 10) + 1 \in 1 .. 10
            BY <1>1, <2>4, LastDigit
        <3>2. g[i \div 10] \in Names /\ h[j \div 10] \in Names
            BY <3>1, SpelledNames
        <3>3. Digits[(i % 10) + 1] \in Pieces /\ Digits[(j % 10) + 1] \in Pieces
            BY <3>1, DigitsApart
        <3>4. Append(g[i \div 10], Digits[(i % 10) + 1]) = Append(h[j \div 10], Digits[(j % 10) + 1])
            <4>1. ~(i < 10) /\ ~(j < 10)
                BY <1>1, <2>4
            <4>2. QED
                BY <2>1, <2>2, <4>1
        <3>5. g[i \div 10] = h[j \div 10] /\ Digits[(i % 10) + 1] = Digits[(j % 10) + 1]
            <4> DEFINE s == g[i \div 10]
                       t == h[j \div 10]
                       a == Digits[(i % 10) + 1]
                       b == Digits[(j % 10) + 1]
            <4>1. s \in Names /\ t \in Names /\ a \in Pieces /\ b \in Pieces /\ Append(s, a) = Append(t, b)
                BY <3>2, <3>3, <3>4
            <4> HIDE DEF s, t, a, b
            <4>2. s = t /\ a = b
                BY <4>1, AppendApart
            <4>3. QED
                BY <4>2 DEF s, t, a, b
        <3>6. i \div 10 = j \div 10
            BY <1>1, <3>1, <3>5
        <3>7. (i % 10) + 1 = (j % 10) + 1
            BY <3>1, <3>5, DigitsApart
        <3>8. QED
            BY <1>1, <3>6, <3>7, LastDigit
    <2>5. CASE i < 10 /\ j >= 10
        <3>1. Len(h[j]) >= 2
            BY <2>5, SpelledNames
        <3>2. Len(<<Digits[i + 1]>>) = 1
            OBVIOUS
        <3>3. QED
            BY <2>1, <2>5, <3>1, <3>2
    <2>6. CASE i >= 10 /\ j < 10
        <3>1. Len(g[i]) >= 2
            BY <1>1, <2>6, SpelledNames
        <3>2. Len(<<Digits[j + 1]>>) = 1
            OBVIOUS
        <3>3. QED
            BY <2>2, <2>6, <3>1, <3>2
    <2>7. QED
        BY <1>1, <2>3, <2>4, <2>5, <2>6
<1>2. m \in [D -> Nat]
    OBVIOUS
<1> HIDE DEF T, D, m
<1>3. D \subseteq T
    BY <1>1, <1>2, MeasureInduction
<1>4. QED
    BY <1>3 DEF T, D

\* A decimal is a name, and says which number it is.
LEMMA DecimalsApart ==
    /\ \A n \in Nat : Decimal(n) \in Names
    /\ \A n, o \in Nat : Decimal(n) = Decimal(o) => n = o
<1>1. ASSUME NEW n \in Nat PROVE \E g : Spells(g, n) /\ Decimal(n) = g[n]
    <2> DEFINE g == CHOOSE f : Spells(f, n)
    <2>1. Spells(g, n)
        BY NumbersSpell
    <2>2. Decimal(n) = g[n]
        BY Zenon DEF Decimal, Spells
    <2>3. QED
        BY <2>1, <2>2
<1>2. \A n \in Nat : n \in 0 .. n
    OBVIOUS
<1>3. QED
    BY <1>1, <1>2, SpelledNames, SpelledApart

\* Names side by side are a name.
LEMMA NameConcat ==
    ASSUME NEW s \in Names, NEW t \in Names
    PROVE  s \o t \in Names
<1>1. s \in Seq(Pieces) /\ t \in Seq(Pieces)
    BY DEF Names
<1>2. QED
    BY <1>1, ConcatProperties DEF Names

\* What follows the same is the same.
LEMMA ConcatApart ==
    ASSUME NEW p \in Names, NEW s \in Names, NEW t \in Names, p \o s = p \o t
    PROVE  s = t
<1>1. p \in Seq(Pieces) /\ s \in Seq(Pieces) /\ t \in Seq(Pieces)
    BY DEF Names
<1>2. PICK k \in Nat, m \in Nat, n \in Nat : k = Len(p) /\ m = Len(s) /\ n = Len(t)
    BY <1>1, LenProperties
<1>3. /\ Len(p \o s) = k + m
      /\ \A i \in 1 .. k + m : (p \o s)[i] = IF i <= k THEN p[i] ELSE s[i - k]
    BY <1>1, <1>2, ConcatProperties
<1>4. /\ Len(p \o t) = k + n
      /\ \A i \in 1 .. k + n : (p \o t)[i] = IF i <= k THEN p[i] ELSE t[i - k]
    BY <1>1, <1>2, ConcatProperties
<1>5. m = n
    BY <1>3, <1>4
<1>6. ASSUME NEW i \in 1 .. m PROVE s[i] = t[i]
    <2>1. k + i \in 1 .. k + m /\ ~(k + i <= k) /\ (k + i) - k = i
        OBVIOUS
    <2>2. QED
        BY <1>3, <1>4, <1>5, <2>1
<1>7. QED
    BY <1>1, <1>2, <1>5, <1>6, SeqEqual

\* The pieces that the build itself adds.
LEMMA OwnPieces ==
    /\ <<>> \in Names /\ <<"_">> \in Names /\ <<"case">> \in Names /\ <<"public">> \in Names
    /\ Pascal \in Names /\ Snake \in Names
<1>1. "_" \in Pieces /\ "case" \in Pieces /\ "public" \in Pieces
    BY IdentifiersAssumption
<1>2. \A x \in Pieces : <<x>> \in Seq(Pieces)
    OBVIOUS
<1>3. <<>> \in Seq(Pieces)
    BY EmptySeq
<1>4. QED
    BY <1>1, <1>2, <1>3 DEF Names, Pascal, Snake

\* A name with a number is a name, another one for each number.
LEMMA NumberedApart ==
    ASSUME NEW base \in Names, NEW case \in {Pascal, Snake}
    PROVE  /\ \A n \in Nat : Numbered(base, case, n) \in Names
           /\ \A n, o \in Nat : Numbered(base, case, n) = Numbered(base, case, o) => n = o
<1>1. PICK p \in Names : p = base \o case
    BY NameConcat, OwnPieces
<1>2. \A n \in Nat : Numbered(base, case, n) = p \o Decimal(n) /\ Decimal(n) \in Names
    BY <1>1, DecimalsApart DEF Numbered
<1>3. ASSUME NEW n \in Nat, NEW o \in Nat, Numbered(base, case, n) = Numbered(base, case, o)
      PROVE  n = o
    <2>1. p \o Decimal(n) = p \o Decimal(o) /\ Decimal(n) \in Names /\ Decimal(o) \in Names
        BY <1>2, <1>3
    <2>2. Decimal(n) = Decimal(o)
        BY <2>1, ConcatApart
    <2>3. QED
        BY <2>2, DecimalsApart
<1>4. QED
    BY <1>2, <1>3, NameConcat

\* A fresh name is one that is not used.
LEMMA FreshIsNew ==
    ASSUME NEW base \in Names, NEW case \in {Pascal, Snake}, NEW used, IsFiniteSet(used)
    PROVE  Fresh(base, used, case) \in Names /\ Fresh(base, used, case) \notin used
<1> DEFINE N(n) == Numbered(base, case, n)
<1>1. PICK c \in Nat : c = Cardinality(used)
    BY FS_CardinalityType
<1> DEFINE tried == 2 .. c + 2
           free == {n \in tried : N(n) \notin used}
           f == [n \in tried |-> N(n)]
<1>2. /\ \A n \in tried : N(n) \in Names
      /\ \A n, o \in tried : N(n) = N(o) => n = o
    BY NumberedApart
<1>3. free # {}
    <2> SUFFICES ASSUME free = {} PROVE FALSE
        OBVIOUS
    <2>1. IsFiniteSet(tried) /\ Cardinality(tried) = c + 1
        BY FS_Interval
    <2>2. f \in [tried -> used]
        OBVIOUS
    <2>3. Cardinality(used) < Cardinality(tried)
        BY <1>1, <2>1
    <2> HIDE DEF f, tried
    <2>4. \E x, y \in tried : x # y /\ f[x] = f[y]
        BY <2>1, <2>2, <2>3, FS_PigeonHole
    <2>5. QED
        BY <1>2, <2>4 DEF f
<1>4. Min(free) \in free
    <2>1. free \subseteq Nat
        OBVIOUS
    <2> HIDE DEF free
    <2>2. QED
        BY <1>3, <2>1, MinIsMember
<1>5. Fresh(base, used, case) = IF base \notin used THEN base ELSE N(Min(free))
    BY <1>1 DEF Fresh
<1> HIDE DEF N
<1>6. QED
    BY <1>2, <1>4, <1>5

\* g gives names to the first n in order, one after the other.
Gives(order, base, used, case, g, n) ==
    g = [k \in 0 .. n |->
            IF k = 0 THEN <<>>
            ELSE LET taken == used \cup ToSet(g[k - 1])
                 IN  Append(g[k - 1], Fresh(base[order[k]], taken, case))]

\* There is such a function.
LEMMA NamesGiven ==
    ASSUME NEW order, NEW base, NEW used, NEW case, NEW m \in Nat
    PROVE  \E g : Gives(order, base, used, case, g, m)
<1> DEFINE Fits(g, k) == Gives(order, base, used, case, g, k)
           On(s, k) == Append(s, Fresh(base[order[k]], used \cup ToSet(s), case))
           T == {k \in 0 .. m : \E g : Fits(g, k)}
<1>0. \A g, k : Fits(g, k) <=> g = [n \in 0 .. k |-> IF n = 0 THEN <<>> ELSE On(g[n - 1], n)]
    BY DEF Gives
<1> HIDE DEF Fits, On
<1>1. 0 \in T
    <2>1. 0 .. 0 = {0}
        OBVIOUS
    <2>2. Fits([n \in 0 .. 0 |-> <<>>], 0)
        BY <1>0, <2>1
    <2>3. QED
        BY <2>2
<1>2. ASSUME NEW k \in (0 + 1) .. m, k - 1 \in T PROVE k \in T
    <2>1. PICK g : Fits(g, k - 1)
        BY <1>2
    <2> DEFINE h == [n \in 0 .. k |-> IF n = k THEN On(g[k - 1], k) ELSE g[n]]
    <2>2. \A n \in 0 .. k : h[n] = IF n = 0 THEN <<>> ELSE On(h[n - 1], n)
        <3> SUFFICES ASSUME NEW n \in 0 .. k
                     PROVE  h[n] = IF n = 0 THEN <<>> ELSE On(h[n - 1], n)
            OBVIOUS
        <3>1. CASE n = k
            BY <1>2, <3>1
        <3>2. CASE n # k
            <4>1. n \in 0 .. (k - 1) /\ (n # 0 => n - 1 \in 0 .. (k - 1) /\ n - 1 # k)
                BY <3>2
            <4>2. g[n] = IF n = 0 THEN <<>> ELSE On(g[n - 1], n)
                BY <1>0, <2>1, <4>1
            <4>3. h[n] = g[n] /\ (n # 0 => n - 1 \in 0 .. k /\ h[n - 1] = g[n - 1])
                BY <3>2, <4>1
            <4>4. QED
                BY <4>2, <4>3
        <3>3. QED
            BY <3>1, <3>2
    <2>3. Fits(h, k)
        BY <1>0, <2>2
    <2> HIDE DEF h
    <2>4. QED
        BY <1>2, <2>3
<1> HIDE DEF T
<1>3. 0 .. m \subseteq T
    BY <1>1, <1>2, StepByStep
<1>4. QED
    BY <1>3 DEF T, Fits

\* n names, apart from each other and from those in use.
NewNames(s, used, n) ==
    /\ s \in [1 .. n -> Names] /\ IsList(s)
    /\ \A k \in 1 .. n : s[k] \notin used
    /\ \A k, l \in 1 .. n : s[k] = s[l] => k = l

\* And every name that it gives is new.
LEMMA GivenAreNew ==
    ASSUME NEW m \in Nat, NEW order, NEW base, \A k \in 1 .. m : base[order[k]] \in Names,
           NEW used, IsFiniteSet(used), NEW case \in {Pascal, Snake},
           NEW g, Gives(order, base, used, case, g, m)
    PROVE  NewNames(g[m], used, m)
<1> DEFINE T == {k \in 0 .. m : NewNames(g[k], used, k)}
<1>0. \A k \in 0 .. m :
         g[k] = IF k = 0 THEN <<>>
                ELSE Append(g[k - 1], Fresh(base[order[k]], used \cup ToSet(g[k - 1]), case))
    BY DEF Gives
<1>1. 0 \in T
    <2>0. 0 \in 0 .. m /\ 1 .. 0 = {}
        OBVIOUS
    <2>1. g[0] = <<>> /\ 1 .. 0 = {} /\ 0 \in 0 .. m
        BY <1>0, <2>0
    <2>2. g[0] \in [1 .. 0 -> Names]
        BY <2>1
    <2>3. QED
        BY <2>1, <2>2, ShortLists DEF NewNames
<1>2. ASSUME NEW k \in (0 + 1) .. m, k - 1 \in T PROVE k \in T
    <2>1. PICK n \in Nat : n = k - 1 /\ k = n + 1
        BY <1>2
    <2>2. PICK s : s = g[n]
        OBVIOUS
    <2>3. NewNames(s, used, n)
        BY <1>2, <2>1, <2>2
    <2> DEFINE taken == used \cup ToSet(s)
               q == Fresh(base[order[k]], taken, case)
    <2>4. IsFiniteSet(taken) /\ \A i \in 1 .. n : s[i] \in taken
        <3>1. ToSet(s) = {s[i] : i \in 1 .. n}
            BY <2>3 DEF ToSet, NewNames
        <3>2. s \in Surjection(1 .. n, ToSet(s))
            BY <2>3, <3>1 DEF Surjection, NewNames
        <3>3. IsFiniteSet(ToSet(s))
            BY <3>2, FS_Interval, FS_Surjection
        <3>4. QED
            BY <3>1, <3>3, FS_Union
    <2>5. base[order[k]] \in Names
        BY <2>1, <1>2
    <2>6. q \in Names /\ q \notin taken
        <3> HIDE DEF taken
        <3>1. QED
            BY <2>4, <2>5, FreshIsNew
    <2>7. g[k] = Append(s, q)
        <3>1. k \in 0 .. m /\ k # 0 /\ g[k - 1] = s
            BY <2>1, <2>2
        <3>2. g[k] = Append(g[k - 1], Fresh(base[order[k]], used \cup ToSet(g[k - 1]), case))
            BY <1>0, <3>1
        <3>3. QED
            BY <3>1, <3>2, Zenon
    <2>8. used \subseteq taken
        OBVIOUS
    <2> HIDE DEF q, taken
    <2>9. DOMAIN s = 1 .. n /\ Len(s) = n
        <3>1. DOMAIN s = 1 .. n /\ s = [i \in 1 .. n |-> s[i]]
            BY <2>3 DEF NewNames
        <3>2. QED
            BY <3>1, FunctionIsList
    <2>10. /\ IsList(Append(s, q)) /\ DOMAIN Append(s, q) = (1 .. n) \cup {n + 1}
           /\ \A i \in 1 .. n : Append(s, q)[i] = s[i]
           /\ Append(s, q)[n + 1] = q
        BY <2>3, <2>9, ListAppend DEF NewNames
    <2>11. 1 .. k = (1 .. n) \cup {n + 1} /\ n + 1 \notin 1 .. n
        BY <2>1
    <2>12. \A i \in 1 .. n : s[i] \in Names /\ s[i] \notin used
        BY <2>3 DEF NewNames
    <2>13. /\ \A i \in 1 .. k : Append(s, q)[i] \in Names /\ Append(s, q)[i] \notin used
           /\ \A i, j \in 1 .. k : Append(s, q)[i] = Append(s, q)[j] => i = j
        <3>1. \A i, j \in 1 .. n : s[i] = s[j] => i = j
            BY <2>3 DEF NewNames
        <3>2. \A i \in 1 .. n : s[i] # q
            BY <2>4, <2>6
        <3>3. QED
            BY <2>6, <2>8, <2>10, <2>11, <2>12, <3>1, <3>2
    <2>14. Append(s, q) \in [1 .. k -> Names]
        <3>1. Append(s, q) = [i \in 1 .. k |-> Append(s, q)[i]]
            BY <2>10, <2>11, ListIsFunction
        <3>2. QED
            BY <2>13, <3>1
    <2>15. NewNames(Append(s, q), used, k)
        BY <2>10, <2>13, <2>14 DEF NewNames
    <2>16. k \in 0 .. m
        OBVIOUS
    <2>17. QED
        BY <2>7, <2>15, <2>16
<1> HIDE DEF T
<1>3. 0 .. m \subseteq T
    BY <1>1, <1>2, StepByStep
<1>4. QED
    BY <1>3 DEF T

\* The names that a pass gives out are new, and no two are the same.
LEMMA AssignedApart ==
    ASSUME NEW S, NEW order, IsListing(order, S), NEW base, \A i \in S : base[i] \in Names,
           NEW used, IsFiniteSet(used), NEW case \in {Pascal, Snake}
    PROVE  LET q == Assign(order, base, used, case)
           IN  /\ \A i \in S : q[i] \in Names /\ q[i] \notin used
               /\ \A i, j \in S : q[i] = q[j] => i = j
<1>1. PICK m \in Nat : m = Cardinality(S)
    BY DEF IsListing
<1>2. /\ order \in [1 .. m -> S]
      /\ \A i \in S : \E k \in 1 .. m : order[k] = i
      /\ \A k, l \in 1 .. m : order[k] = order[l] => k = l
    BY <1>1 DEF IsListing
<1>3. Len(order) = m /\ DOMAIN order = 1 .. m
    <2>1. order = [k \in 1 .. m |-> order[k]]
        BY <1>2
    <2>2. QED
        BY <2>1, FunctionIsList
<1> DEFINE g == CHOOSE f : Gives(order, base, used, case, f, Len(order))
<1>4. Gives(order, base, used, case, g, m)
    BY <1>3, NamesGiven
<1> DEFINE at(i) == CHOOSE k \in DOMAIN order : order[k] = i
           q == Assign(order, base, used, case)
<1>5. q = [i \in ToSet(order) |-> g[Len(order)][at(i)]]
    BY Zenon DEF Assign, Gives
<1>6. ToSet(order) = S
    BY <1>2, <1>3 DEF ToSet
<1>7. \A i \in S : at(i) \in 1 .. m /\ order[at(i)] = i
    BY <1>2, <1>3
<1>8. NewNames(g[m], used, m)
    <2> HIDE DEF g
    <2>1. \A k \in 1 .. m : base[order[k]] \in Names
        BY <1>2
    <2>2. QED
        BY <1>4, <2>1, GivenAreNew
<1> HIDE DEF g, at
<1>9. \A i \in S : q[i] = g[m][at(i)]
    BY <1>3, <1>5, <1>6
<1> HIDE DEF q
<1>10. /\ \A i \in S : q[i] \in Names /\ q[i] \notin used
       /\ \A i, j \in S : q[i] = q[j] => i = j
    BY <1>7, <1>8, <1>9 DEF NewNames
<1>11. QED
    BY <1>10 DEF q

\* A rank among finitely many identifiers.
LEMMA RankIsNumber ==
    ASSUME NEW ids, IsFiniteSet(ids), NEW id
    PROVE  Rank(id, ids) \in Nat
<1> DEFINE T == {other \in ids : SortsBefore(other, id)}
<1>1. IsFiniteSet(T)
    BY FS_Subset
<1> HIDE DEF T
<1>2. Cardinality(T) \in Nat
    BY <1>1, FS_CardinalityType
<1>3. QED
    BY <1>2 DEF Rank, T

\* The first position of a key is one.
LEMMA FirstIsNumber ==
    ASSUME NEW S, S \subseteq Nat, NEW key, NEW i \in S
    PROVE  FirstOf(S, key, i) \in Nat
<1> DEFINE T == {j \in S : key[j] = key[i]}
<1>1. T \subseteq Nat /\ T # {}
    OBVIOUS
<1> HIDE DEF T
<1>2. Min(T) \in T
    BY <1>1, MinIsMember
<1>3. QED
    BY <1>1, <1>2 DEF FirstOf, T

\* The members of S have keys. Those of C are renamed, and all who share a key
\* are among them; the keys of the others count as used.
RenamesIn(S, key, C, order, base, used, case, q) ==
    /\ C \subseteq S /\ Colliding(S, key) \subseteq C /\ IsListing(order, C)
    /\ \A i \in C : base[i] \in Names
    /\ IsFiniteSet(used) /\ \A i \in S \ C : key[i] \in used
    /\ case \in {Pascal, Snake}
    /\ \A i \in S : q[i] = IF i \in C THEN Assign(order, base, used, case)[i] ELSE key[i]

\* Then no two are the same, and who is renamed has a name of its own.
LEMMA RenamedApart ==
    ASSUME NEW S, NEW key, NEW C, NEW order, NEW base, NEW used, NEW case, NEW q,
           RenamesIn(S, key, C, order, base, used, case, q)
    PROVE  /\ \A i \in C : q[i] \in Names /\ q[i] \notin used
           /\ \A i, j \in S : q[i] = q[j] => i = j
<1>0. /\ C \subseteq S /\ Colliding(S, key) \subseteq C /\ IsListing(order, C)
      /\ \A i \in C : base[i] \in Names
      /\ IsFiniteSet(used) /\ \A i \in S \ C : key[i] \in used
      /\ case \in {Pascal, Snake}
    BY DEF RenamesIn
<1> DEFINE given == Assign(order, base, used, case)
<1>1. /\ \A i \in C : given[i] \in Names /\ given[i] \notin used
      /\ \A i, j \in C : given[i] = given[j] => i = j
    BY <1>0, AssignedApart
<1>2. \A i \in S : q[i] = IF i \in C THEN given[i] ELSE key[i]
    BY DEF RenamesIn
<1> HIDE DEF given
<1>3. \A i, j \in S \ C : key[i] = key[j] => i = j
    BY <1>0 DEF Colliding
<1>4. QED
    BY <1>0, <1>1, <1>2, <1>3

\* The greatest of some numbers.
LEMMA MaxIsMember ==
    ASSUME NEW S, IsFiniteSet(S), S \subseteq Int, S # {}
    PROVE  Max(S) \in S /\ \A i \in S : Max(S) >= i
<1>1. \E x \in S : \A y \in S : x >= y
    <2> DEFINE Bad == {n \in Nat : \E T \in SUBSET S : T # {} /\ Cardinality(T) = n /\ ~(\E x \in T : \A y \in T : x >= y)}
    <2>1. CASE Bad # {}
        <3>1. Bad \subseteq Nat
            OBVIOUS
        <3>2. PICK n \in Bad : \A k \in Bad : n <= k
            <4> HIDE DEF Bad
            <4>1. QED
                BY <2>1, <3>1, LeastOf
        <3>3. PICK T \in SUBSET S : T # {} /\ Cardinality(T) = n /\ ~(\E x \in T : \A y \in T : x >= y)
            BY <3>2
        <3>4. PICK x \in T : TRUE
            BY <3>3
        <3> DEFINE U == T \ {x}
        <3>5. IsFiniteSet(T)
            BY FS_Subset
        <3>6. IsFiniteSet(U) /\ Cardinality(U) < Cardinality(T) /\ Cardinality(U) \in Nat
            <4>1. IsFiniteSet(U)
                BY <3>5, FS_Subset
            <4>2. QED
                BY <3>4, <3>5, <4>1, FewerMembers, FS_CardinalityType
        <3>7. Cardinality(U) \notin Bad
            <4> HIDE DEF Bad, U
            <4>1. QED
                BY <3>1, <3>2, <3>3, <3>6
        <3>8. CASE U = {}
            BY <3>3, <3>4, <3>8
        <3>9. CASE U # {}
            <4>1. PICK z \in U : \A y \in U : z >= y
                <5>1. U \in SUBSET S
                    OBVIOUS
                <5> HIDE DEF U
                <5>2. QED
                    BY <3>6, <3>7, <3>9, <5>1
            <4>2. x \in Int /\ z \in Int /\ \A y \in T : y = x \/ y \in U
                OBVIOUS
            <4>3. \A y \in U : y \in Int
                OBVIOUS
            <4>4. (\A y \in T : x >= y) \/ (\A y \in T : z >= y)
                <5> HIDE DEF U
                <5>1. QED
                    BY <4>1, <4>2, <4>3
            <4>5. z \in T /\ x \in T
                BY <3>4
            <4>6. QED
                BY <3>3, <4>4, <4>5
        <3>10. QED
            BY <3>8, <3>9
    <2>2. CASE Bad = {}
        <3>1. Cardinality(S) \in Nat
            BY FS_CardinalityType
        <3>2. QED
            BY <2>2, <3>1
    <2>3. QED
        BY <2>1, <2>2
<1>2. QED
    BY <1>1 DEF Max

\* Two names are joined to one.
LEMMA JoinNames ==
    ASSUME NEW a \in Names, NEW b \in Names
    PROVE  Join(a, b) \in Names
BY NameConcat, OwnPieces DEF Join

\* A name is a list of pieces, and a list of pieces is a name.
LEMMA NameIsList ==
    /\ \A id \in Names : IsList(id) /\ \A i \in DOMAIN id : id[i] \in Pieces
    /\ \A id : (IsList(id) /\ \A i \in DOMAIN id : id[i] \in Pieces) => id \in Names
<1>1. ASSUME NEW id \in Names
      PROVE  IsList(id) /\ \A i \in DOMAIN id : id[i] \in Pieces
    <2>1. /\ Len(id) \in Nat /\ DOMAIN id = 1 .. Len(id)
          /\ id = [i \in 1 .. Len(id) |-> id[i]]
        BY LenProperties DEF Names
    <2>2. \A i \in DOMAIN id : id[i] \in Pieces
        BY <2>1, ElementOfSeq DEF Names
    <2>3. QED
        BY <2>1, <2>2, FunctionIsList
<1>2. ASSUME NEW id, IsList(id), \A i \in DOMAIN id : id[i] \in Pieces PROVE id \in Names
    <2>1. PICK n \in Nat : DOMAIN id = 1 .. n /\ id = [i \in 1 .. n |-> id[i]]
        BY <1>2, ListIsFunction
    <2>2. id \in [1 .. n -> Pieces]
        BY <1>2, <2>1
    <2>3. \A S : \A k \in Nat : \A g \in [1 .. k -> S] : g \in Seq(S)
        BY SeqDef
    <2>4. QED
        BY <2>1, <2>2, <2>3 DEF Names
<1>3. QED
    BY <1>1, <1>2

\* The words in capitals are those of the acronyms.
LEMMA CapitalPieces ==
    /\ Capitals \subseteq Pieces /\ DOMAIN Acronyms \subseteq Pieces
    /\ \A word \in DOMAIN Acronyms : Acronyms[word] \in Pieces
    /\ \A piece \in Capitals :
          (CHOOSE word \in DOMAIN Acronyms : Acronyms[word] = piece) \in Pieces
<1>1. Capitals \subseteq Pieces /\ DOMAIN Acronyms \subseteq Pieces
    BY IdentifiersAssumption
<1>2. \A word \in DOMAIN Acronyms : Acronyms[word] \in Pieces
    BY <1>1 DEF Capitals
<1>3. \A piece \in Capitals :
          (CHOOSE word \in DOMAIN Acronyms : Acronyms[word] = piece) \in DOMAIN Acronyms
    BY DEF Capitals
<1>4. QED
    BY <1>1, <1>2, <1>3

\* A name in snake case is a name.
LEMMA SnakeNames ==
    ASSUME NEW id \in Names
    PROVE  SnakeCase(id) \in Names
<1> DEFINE Lost(i) == id[i] = "_" /\ i > 1 /\ i < Len(id)
                      /\ {id[i - 1], id[i + 1]} \subseteq Capitals
           Lower(piece) == IF piece \in Capitals
                           THEN CHOOSE word \in DOMAIN Acronyms : Acronyms[word] = piece ELSE piece
           S == {i \in DOMAIN id : ~Lost(i)}
           kept == Picked(id, S)
           snake == [i \in DOMAIN kept |-> Lower(kept[i])]
<1>1. SnakeCase(id) = snake
    BY DEF SnakeCase
<1>2. IsList(id) /\ S \subseteq DOMAIN id /\ \A i \in S : id[i] \in Pieces
    BY NameIsList
<1> HIDE DEF S
<1>3. IsList(kept) /\ \A n \in DOMAIN kept : kept[n] \in Pieces
    BY <1>2, PickedLists
<1> HIDE DEF kept
<1>4. \A piece \in Pieces : Lower(piece) \in Pieces
    BY CapitalPieces
<1> HIDE DEF Lower
<1>5. /\ DOMAIN snake = DOMAIN kept /\ snake = [i \in DOMAIN kept |-> snake[i]]
      /\ \A i \in DOMAIN snake : snake[i] \in Pieces
    BY <1>3, <1>4
<1> HIDE DEF snake
<1>6. IsList(snake)
    BY <1>3, <1>5, EachPlace
<1>7. QED
    BY <1>1, <1>5, <1>6, NameIsList

\* And a name in Pascal case.
LEMMA PascalNames ==
    ASSUME NEW id \in Names
    PROVE  PascalGo(id) \in Names
<1> DEFINE Whole(i) == /\ i = 1 \/ id[i - 1] = "_"
                       /\ i = Len(id) \/ id[i + 1] = "_"
           Upper(i) == IF id[i] \in DOMAIN Acronyms /\ Whole(i) THEN Acronyms[id[i]] ELSE id[i]
           spelled == [i \in DOMAIN id |-> Upper(i)]
           Lost(i) == id[i] = "_" /\ i < Len(id) /\ id[i + 1] \in ToSet(Digits)
           S == {i \in DOMAIN id : ~Lost(i)}
           pascal == Picked(spelled, S)
<1>1. PascalGo(id) = pascal
    BY DEF PascalGo
<1>2. IsList(id) /\ S \subseteq DOMAIN id /\ \A i \in DOMAIN id : id[i] \in Pieces
    BY NameIsList
<1> HIDE DEF S, Whole
<1>3. \A i \in DOMAIN id : Upper(i) \in Pieces
    BY <1>2, CapitalPieces
<1> HIDE DEF Upper
<1>4. /\ DOMAIN spelled = DOMAIN id /\ spelled = [i \in DOMAIN id |-> spelled[i]]
      /\ \A i \in DOMAIN id : spelled[i] \in Pieces
    BY <1>3
<1> HIDE DEF spelled
<1>5. IsList(spelled)
    BY <1>2, <1>4, EachPlace
<1>6. IsList(pascal) /\ \A n \in DOMAIN pascal : pascal[n] \in Pieces
    BY <1>2, <1>4, <1>5, PickedLists
<1> HIDE DEF pascal
<1>7. QED
    BY <1>1, <1>6, NameIsList

\* g joins the first n names of a path.
Strings(names, g, n) ==
    g = [k \in 1 .. n |-> IF k = 1 THEN names[1] ELSE Join(g[k - 1], names[k])]

\* There is such a function, of names.
LEMMA PathStrings ==
    ASSUME NEW m \in Nat, NEW names, \A k \in 1 .. m : names[k] \in Names
    PROVE  /\ \E g : Strings(names, g, m)
           /\ \A g : Strings(names, g, m) => \A k \in 1 .. m : g[k] \in Names
<1> DEFINE T == {k \in 0 .. m : \E g : Strings(names, g, k)}
<1>1. 0 \in T
    <2>1. 0 \in 0 .. m /\ 1 .. 0 = {}
        OBVIOUS
    <2>2. Strings(names, [k \in 1 .. 0 |-> names[1]], 0)
        BY <2>1 DEF Strings
    <2>3. QED
        BY <2>1, <2>2
<1>2. ASSUME NEW k \in (0 + 1) .. m, k - 1 \in T PROVE k \in T
    <2>1. PICK g : Strings(names, g, k - 1)
        BY <1>2
    <2> DEFINE On(f, n) == IF n = 1 THEN names[1] ELSE Join(f[n - 1], names[n])
               h == [n \in 1 .. k |-> IF n = k THEN On(g, n) ELSE g[n]]
    <2>2. ASSUME NEW n \in 1 .. k PROVE h[n] = On(h, n)
        <3>1. n # 1 => n - 1 \in 1 .. k /\ n - 1 # k
            BY <1>2, <2>2
        <3>2. n # 1 => h[n - 1] = g[n - 1]
            BY <3>1
        <3>3. On(h, n) = On(g, n)
            <4> HIDE DEF h
            <4>1. QED
                BY <3>2
        <3>4. CASE n = k
            BY <3>3, <3>4
        <3>5. CASE n # k
            <4>1. n \in 1 .. (k - 1)
                BY <2>2, <3>5
            <4>2. g[n] = On(g, n)
                BY <2>1, <4>1 DEF Strings
            <4>3. QED
                BY <3>3, <3>5, <4>2
        <3>6. QED
            BY <3>4, <3>5
    <2>3. Strings(names, h, k)
        BY <2>2 DEF Strings
    <2>4. k \in 0 .. m
        OBVIOUS
    <2> HIDE DEF h
    <2>5. QED
        BY <2>3, <2>4
<1> HIDE DEF T
<1>3. 0 .. m \subseteq T
    BY <1>1, <1>2, StepByStep
<1>4. ASSUME NEW g, Strings(names, g, m) PROVE \A k \in 1 .. m : g[k] \in Names
    <2> DEFINE U == {k \in 1 .. m : g[k] \in Names}
    <2>1. CASE m = 0
        BY <2>1
    <2>2. CASE m # 0
        <3>0. 1 \in 1 .. m
            BY <2>2
        <3>1. 1 \in U
            <4>1. g[1] = names[1]
                BY <1>4, <3>0 DEF Strings
            <4>2. QED
                BY <3>0, <4>1
        <3>2. ASSUME NEW k \in (1 + 1) .. m, k - 1 \in U PROVE k \in U
            <4>1. k \in 1 .. m /\ k # 1
                OBVIOUS
            <4>2. g[k] = Join(g[k - 1], names[k])
                BY <1>4, <4>1 DEF Strings
            <4>3. QED
                BY <3>2, <4>1, <4>2, JoinNames
        <3> HIDE DEF U
        <3>3. 1 .. m \subseteq U
            BY <3>1, <3>2, StepByStep
        <3>4. QED
            BY <3>3 DEF U
    <2>3. QED
        BY <2>1, <2>2
<1>5. QED
    BY <1>3, <1>4 DEF T

\* A path has names, which together are one, and the last of them is one.
LEMMA PathNames ==
    ASSUME NEW p, IsPath(p)
    PROVE  Scoped(p) \in Names /\ SimpleName(p) \in Names
<1>1. PICK m \in Nat : m = Len(p) /\ m # 0 /\ \A k \in 1 .. m : p[k] \in Names
    <2>1. p \in Seq(Names) /\ p # <<>>
        BY DEF IsPath
    <2>2. Len(p) \in Nat \ {0}
        BY <2>1, EmptySeq
    <2>3. \A k \in 1 .. Len(p) : p[k] \in Names
        BY <2>1, ElementOfSeq
    <2>4. QED
        BY <2>2, <2>3
<1> DEFINE g == CHOOSE f : Strings(p, f, Len(p))
<1>2. Strings(p, g, m)
    BY <1>1, PathStrings
<1>3. JoinAll(p) = g[Len(p)]
    BY Zenon DEF JoinAll, Strings
<1>4. m \in 1 .. m
    BY <1>1
<1> HIDE DEF g
<1>5. g[m] \in Names
    BY <1>1, <1>2, <1>4, PathStrings
<1>6. QED
    BY <1>1, <1>3, <1>4, <1>5 DEF Scoped, SimpleName, Last

\* A part of a name is one.
LEMMA PartNames ==
    ASSUME NEW id \in Names, NEW m \in Int, NEW n \in Int, m >= 1, n <= Len(id)
    PROVE  SubSeq(id, m, n) \in Names
<1>1. id \in Seq(Pieces)
    BY DEF Names
<1>2. Len(id) \in Nat /\ \A i \in 1 .. Len(id) : id[i] \in Pieces
    BY <1>1, LenProperties
<1>3. \A i \in m .. n : id[i] \in Pieces
    BY <1>2
<1>4. QED
    BY <1>3, SubSeqProperties DEF Names

\* Where the words of a name end.
LEMMA BoundariesOf ==
    ASSUME NEW id \in Names
    PROVE  Len(id) \in Nat /\ Boundaries(id) \subseteq 1 .. Len(id) /\ IsFiniteSet(Boundaries(id))
<1>1. id \in Seq(Pieces)
    BY DEF Names
<1>2. Len(id) \in Nat /\ DOMAIN id = 1 .. Len(id)
    BY <1>1, LenProperties
<1>3. Boundaries(id) \subseteq 1 .. Len(id)
    BY <1>2 DEF Boundaries
<1>4. IsFiniteSet(1 .. Len(id))
    BY <1>2, FS_Interval
<1>5. IsFiniteSet(Boundaries(id))
    BY <1>3, <1>4, FS_Subset
<1>6. QED
    BY <1>2, <1>3, <1>5

\* Without its version a name is one.
LEMMA StrippedNames ==
    ASSUME NEW id \in Names
    PROVE  StripPackageVersion(id) \in Names
<1>1. CASE Boundaries(id) = {}
    BY <1>1 DEF StripPackageVersion
<1>2. CASE Boundaries(id) # {}
    <2> DEFINE k == Max(Boundaries(id))
    <2>1. k \in 1 .. Len(id)
        <3>1. Boundaries(id) \subseteq Int
            BY BoundariesOf
        <3>2. k \in Boundaries(id)
            BY <1>2, <3>1, BoundariesOf, MaxIsMember
        <3> HIDE DEF k
        <3>3. QED
            BY <3>2, BoundariesOf
    <2>2. SubSeq(id, 1, k - 1) \in Names
        <3> HIDE DEF k
        <3>1. k - 1 \in Int /\ k - 1 <= Len(id)
            BY <2>1, BoundariesOf
        <3>2. QED
            BY <3>1, PartNames
    <2>3. QED
        BY <2>2 DEF StripPackageVersion
<1>3. QED
    BY <1>1, <1>2

\* And the domain of a schema is one.
LEMMA DomainNames ==
    ASSUME NEW id \in Names
    PROVE  SchemaDomain(id) \in Names
<1> DEFINE C == {0, Len(id) + 1} \cup Boundaries(id)
           cuts == Ascending(C)
           words == Words(id)
<1>1. PICK n \in Nat : n = Len(id) /\ Boundaries(id) \subseteq 1 .. n /\ IsFiniteSet(Boundaries(id))
    BY BoundariesOf
<1>2. IsFiniteSet(C) /\ C \subseteq 0 .. (n + 1) /\ 0 \in C /\ n + 1 \in C
    <2>1. C \subseteq 0 .. (n + 1)
        BY <1>1
    <2>2. IsFiniteSet(0 .. (n + 1))
        BY FS_Interval
    <2>3. 0 \in C /\ n + 1 \in C
        BY <1>1
    <2> HIDE DEF C
    <2>4. IsFiniteSet(C)
        BY <2>1, <2>2, FS_Subset
    <2>5. QED
        BY <2>1, <2>3, <2>4
<1> HIDE DEF C
<1>3. IsListing(cuts, C)
    <2>1. C \subseteq Int
        BY <1>2
    <2>2. QED
        BY <1>2, <2>1, AscendingLists
<1>4. PICK c \in Nat : c = Cardinality(C)
    BY <1>3 DEF IsListing
<1>5. cuts \in [1 .. c -> C] /\ Len(cuts) = c
    <2>1. cuts \in [1 .. c -> C]
        BY <1>3, <1>4 DEF IsListing
    <2>2. cuts = [k \in 1 .. c |-> cuts[k]]
        BY <2>1
    <2> HIDE DEF cuts
    <2>3. QED
        BY <2>1, <2>2, FunctionIsList
<1>6. c > 1
    <2>1. PICK k \in 1 .. c, l \in 1 .. c : cuts[k] = 0 /\ cuts[l] = n + 1
        BY <1>2, <1>3, <1>4 DEF IsListing
    <2>2. k # l
        BY <2>1
    <2>3. QED
        BY <2>2
<1>7. words = [k \in 1 .. c - 1 |-> SubSeq(id, cuts[k] + 1, cuts[k + 1] - 1)]
    BY <1>5 DEF Words, C
<1>8. \A k \in 1 .. c : cuts[k] \in 0 .. (n + 1)
    BY <1>2, <1>5
<1>9. \A k \in 1 .. c - 1 : words[k] \in Names
    <2> SUFFICES ASSUME NEW k \in 1 .. c - 1 PROVE words[k] \in Names
        OBVIOUS
    <2>1. k \in 1 .. c /\ k + 1 \in 1 .. c
        OBVIOUS
    <2>2. PICK m \in Int, o \in Int : m = cuts[k] + 1 /\ o = cuts[k + 1] - 1 /\ m >= 1 /\ o <= n
        BY <1>8, <2>1
    <2>3. SubSeq(id, m, o) \in Names
        BY <1>1, <2>2, PartNames
    <2> HIDE DEF words
    <2>4. QED
        BY <1>7, <2>2, <2>3
<1> DEFINE keep == {1} \cup {k \in DOMAIN words : ~IsVersion(words[k])}
<1>10. Max(keep) \in 1 .. c - 1
    <2>1. DOMAIN words = 1 .. c - 1
        BY <1>7
    <2>2. 1 \in 1 .. c - 1
        BY <1>6
    <2>3. keep \subseteq 1 .. c - 1 /\ keep # {}
        BY <2>1, <2>2
    <2>4. IsFiniteSet(1 .. c - 1) /\ 1 .. c - 1 \subseteq Int
        BY FS_Interval
    <2> HIDE DEF keep
    <2>5. IsFiniteSet(keep) /\ keep \subseteq Int
        BY <2>3, <2>4, FS_Subset
    <2>6. QED
        BY <2>3, <2>5, MaxIsMember
<1>11. SchemaDomain(id) = words[Max(keep)]
    BY DEF SchemaDomain
<1>12. QED
    BY <1>9, <1>10, <1>11

-----------------------------------------------------------------------------
\* Tables

TableFields == {"db", "schema", "name", "local", "model", "proto", "value", "pk", "columns",
                "indexes", "keys", "external", "unresolved", "many", "parents", "field"}
KeyFields == {"column", "model", "proto", "type", "pattern", "onDelete", "onUpdate", "kind",
              "db", "schema", "table", "target", "why", "relation"}

AreIndexes(xs) == IsList(xs) /\ \A i \in DOMAIN xs : IsIndex(xs[i])
AreKeys(ks) == IsList(ks) /\ \A k \in DOMAIN ks : DOMAIN ks[k] = KeyFields

IsTable(t) ==
    /\ DOMAIN t = TableFields
    /\ t.schema \in Names /\ t.local \in Names /\ t.model \in Names /\ t.proto \in Nat
    /\ AreIndexes(t.indexes) /\ AreKeys(t.keys) /\ AreKeys(t.external) /\ AreKeys(t.unresolved)

\* No key is resolved yet.
Bare(t) == t.external = <<>> /\ t.unresolved = <<>>

\* What one step on a table leaves as it is: whose it is, what is resolved, and
\* the keys it has.
Same(t, u) == /\ u.db = t.db /\ u.schema = t.schema /\ u.proto = t.proto /\ u.value = t.value /\ u.field = t.field
              /\ u.external = t.external /\ u.unresolved = t.unresolved
Grows(t, u) ==
    /\ IsTable(u) /\ Same(t, u)
    /\ \A k \in DOMAIN t.keys : k \in DOMAIN u.keys /\ u.keys[k] = t.keys[k]

\* A table grows by nothing.
LEMMA GrowsSelf ==
    ASSUME NEW t, IsTable(t)
    PROVE  Grows(t, t)
BY DEF Grows, Same

\* Growing adds up.
LEMMA GrowsOn ==
    ASSUME NEW t, NEW u, NEW v, Grows(t, u), Grows(u, v)
    PROVE  Grows(t, v)
BY DEF Grows, Same

\* A new index, and one more.
LEMMA IndexAdded ==
    ASSUME NEW xs, AreIndexes(xs), NEW x, IsIndex(x)
    PROVE  AreIndexes(Append(xs, x))
BY ListAppend DEF AreIndexes

\* An index of given columns.
LEMMA NewIndexIsIndex ==
    ASSUME NEW columns, IsList(columns)
    PROVE  IsIndex(NewIndex(columns)) /\ NewIndex(columns).columns = columns
BY DEF IsIndex, NewIndex

\* Indexes one after the other.
LEMMA IndexesJoined ==
    ASSUME NEW xs, NEW ys, AreIndexes(xs), AreIndexes(ys)
    PROVE  AreIndexes(xs \o ys)
<1>1. IsList(xs) /\ IsList(ys)
    BY DEF AreIndexes
<1>2. IsList(xs \o ys)
    BY <1>1, ListConcat
<1>3. ASSUME NEW i \in DOMAIN (xs \o ys) PROVE IsIndex((xs \o ys)[i])
    <2>1. \/ i \in DOMAIN xs /\ (xs \o ys)[i] = xs[i]
          \/ \E j \in DOMAIN ys : i = Len(xs) + j /\ (xs \o ys)[i] = ys[j]
        BY <1>1, <1>3, ConcatItems
    <2>2. QED
        BY <2>1 DEF AreIndexes
<1>4. QED
    BY <1>2, <1>3 DEF AreIndexes

\* A key as it is written first, and one more.
LEMMA KeyAdded ==
    ASSUME NEW ks, AreKeys(ks), NEW k, DOMAIN k = KeyFields
    PROVE  /\ AreKeys(Append(ks, k))
           /\ \A i \in DOMAIN ks : i \in DOMAIN Append(ks, k) /\ Append(ks, k)[i] = ks[i]
           /\ Len(ks) + 1 \in DOMAIN Append(ks, k) /\ Append(ks, k)[Len(ks) + 1] = k
BY ListAppend DEF AreKeys

\* A table begins without columns and keys.
LEMMA NewTableIsTable ==
    ASSUME NEW db, NEW schema \in Names, NEW name, NEW local \in Names, NEW proto \in Nat
    PROVE  LET t == NewTable(db, schema, name, local, proto)
           IN  /\ IsTable(t) /\ Bare(t) /\ t.keys = <<>> /\ t.columns = <<>>
               /\ t.db = db /\ t.proto = proto
BY ShortLists DEF IsTable, Bare, NewTable, TableFields, AreIndexes, AreKeys

\* Columns, the primary key, the parents and the mark of a value may change.
LEMMA ColumnsChange ==
    ASSUME NEW t, IsTable(t), NEW c, NEW p
    PROVE  /\ Grows(t, [t EXCEPT !.columns = c])
           /\ Grows(t, [t EXCEPT !.pk = p])
           /\ Grows(t, [t EXCEPT !.pk = p, !.columns = c])
           /\ Grows(t, [t EXCEPT !.parents = p])
BY DEF IsTable, Grows, Same, TableFields

\* The standard fields set columns and add indexes.
LEMMA SystemFieldsGrow ==
    ASSUME NEW t, IsTable(t), IsList(t.columns)
    PROVE  Grows(t, ApplyAIPSystemFields(t))
<1> DEFINE S == {i \in DOMAIN t.columns : t.columns[i].name \in {UpdateTime, DeleteTime}}
           timed == Picked(t.columns, S)
           more == [i \in DOMAIN timed |-> NewIndex(<<timed[i].name>>)]
<1>1. PICK n \in Nat : DOMAIN timed = 1 .. n
    BY PickedLists, ListIsFunction
<1>2. AreIndexes(more)
    <2> HIDE DEF timed
    <2>1. IsList(more) /\ DOMAIN more = 1 .. n
        BY <1>1, FunctionIsList
    <2>2. \A i \in 1 .. n : IsIndex(more[i])
        BY <1>1, NewIndexIsIndex, ShortLists
    <2>3. QED
        BY <2>1, <2>2 DEF AreIndexes
<1>3. AreIndexes(t.indexes \o more)
    <2> HIDE DEF more
    <2>1. QED
        BY <1>2, IndexesJoined DEF IsTable
<1>4. ApplyAIPSystemFields(t) =
        [t EXCEPT !.columns = [i \in DOMAIN @ |-> SystemColumn(@[i])], !.indexes = @ \o more]
    BY DEF ApplyAIPSystemFields
<1> DEFINE columns == [i \in DOMAIN t.columns |-> SystemColumn(t.columns[i])]
<1> HIDE DEF more, columns
<1>5. ApplyAIPSystemFields(t) = [t EXCEPT !.columns = columns, !.indexes = t.indexes \o more]
    BY <1>4 DEF columns
<1>6. QED
    BY <1>3, <1>5 DEF IsTable, Grows, Same, TableFields

\* A parent adds a column and a key, or neither.
LEMMA ParentGrows ==
    ASSUME NEW t, IsTable(t), NEW pattern
    PROVE  Grows(t, AddParent(t, pattern))
<1> DEFINE parent == Last(pattern)
           model == PascalGo(parent)
           column == IdColumn(parent)
           owned == [t EXCEPT !.parents = Append(@, parent)]
           key == [NewKey(column, model) EXCEPT !.pattern = pattern, !.onDelete = "CASCADE"]
           columns == Append(t.columns, [NewColumn(column, "ulid") EXCEPT
                                            !.notNull = TRUE, !.model = model])
<1>1. Grows(t, owned)
    BY ColumnsChange
<1>2. DOMAIN key = KeyFields
    BY DEF NewKey, KeyFields
<1>3. owned.columns = t.columns
    BY DEF IsTable, TableFields
<1>4. AddParent(t, pattern) =
        IF HasColumn(t, column) THEN owned
        ELSE [owned EXCEPT !.columns = columns, !.keys = Append(@, key)]
    <2>1. AddParent(t, pattern) =
            IF HasColumn(t, column) THEN owned
            ELSE [owned EXCEPT !.columns = Append(@, [NewColumn(column, "ulid") EXCEPT
                                                          !.notNull = TRUE, !.model = model]),
                               !.keys = Append(@, key)]
        BY DEF AddParent
    <2> HIDE DEF owned, key
    <2>2. QED
        BY <1>3, <2>1
<1> HIDE DEF owned, key, columns
<1>5. Grows(owned, [owned EXCEPT !.columns = columns, !.keys = Append(@, key)])
    <2>1. IsTable(owned)
        BY <1>1 DEF Grows
    <2>2. QED
        BY <1>2, <2>1, KeyAdded, SMTT(30) DEF IsTable, Grows, Same, TableFields
<1>6. QED
    BY <1>1, <1>4, <1>5, GrowsOn

\* And so do all the parents, one after the other.
LEMMA ParentsGrow ==
    ASSUME NEW t, IsTable(t), NEW patterns, IsList(patterns),
           \A i \in DOMAIN patterns : IsList(patterns[i])
    PROVE  Grows(t, MaterializeParents(t, patterns))
<1> DEFINE parents == (Len(patterns[1]) \div 2) - 1
           Upward(n) == SubSeq(patterns[1], 1, 2 * n)
           owned[n \in 0 .. parents] == IF n = 0 THEN t ELSE AddParent(owned[n - 1], Upward(n))
           Fits(f, k) == f = [n \in 0 .. k |-> IF n = 0 THEN t ELSE AddParent(f[n - 1], Upward(n))]
<1>1. MaterializeParents(t, patterns) = IF patterns = <<>> \/ parents < 1 THEN t ELSE owned[parents]
    BY DEF MaterializeParents
<1>2. owned = CHOOSE f : Fits(f, parents)
    OBVIOUS
<1>3. patterns # <<>> => parents \in Int
    <2> SUFFICES ASSUME patterns # <<>> PROVE parents \in Int
        OBVIOUS
    <2>1. 1 \in DOMAIN patterns
        BY ListTail
    <2>2. Len(patterns[1]) \in Nat
        BY <2>1, ListIsFunction
    <2>3. QED
        BY <2>2
<1> HIDE DEF parents, owned, Upward
<1>4. CASE patterns = <<>> \/ parents < 1
    BY <1>1, <1>4, GrowsSelf
<1>5. CASE patterns # <<>> /\ ~(parents < 1)
    <2>1. PICK m \in Nat : m = parents
        BY <1>3, <1>5
    <2> DEFINE T == {k \in 0 .. m : \E f : Fits(f, k)}
    <2>2. 0 \in T
        <3>1. 0 .. 0 = {0}
            OBVIOUS
        <3>2. Fits([n \in 0 .. 0 |-> t], 0)
            BY <3>1
        <3> HIDE DEF Fits
        <3>3. QED
            BY <2>1, <3>2
    <2>3. ASSUME NEW k \in (0 + 1) .. m, k - 1 \in T PROVE k \in T
        <3>1. PICK f : Fits(f, k - 1)
            BY <2>3
        <3> DEFINE g == [n \in 0 .. k |-> IF n = k THEN AddParent(f[k - 1], Upward(k)) ELSE f[n]]
        <3>2. \A n \in 0 .. k : g[n] = IF n = 0 THEN t ELSE AddParent(g[n - 1], Upward(n))
            <4> SUFFICES ASSUME NEW n \in 0 .. k
                         PROVE  g[n] = IF n = 0 THEN t ELSE AddParent(g[n - 1], Upward(n))
                OBVIOUS
            <4>1. CASE n = k
                BY <2>1, <2>3, <4>1
            <4>2. CASE n # k
                <5>1. n \in 0 .. (k - 1) /\ (n # 0 => n - 1 \in 0 .. (k - 1) /\ n - 1 # k)
                    BY <2>1, <4>2
                <5>2. f[n] = IF n = 0 THEN t ELSE AddParent(f[n - 1], Upward(n))
                    BY <3>1, <5>1
                <5>3. g[n] = f[n] /\ (n # 0 => n - 1 \in 0 .. k /\ g[n - 1] = f[n - 1])
                    BY <2>1, <4>2, <5>1
                <5>4. QED
                    BY <5>2, <5>3
            <4>3. QED
                BY <4>1, <4>2
        <3>3. Fits(g, k)
            BY <3>2
        <3> HIDE DEF Fits, g
        <3>4. QED
            BY <2>3, <3>3
    <2> HIDE DEF T
    <2>4. 0 .. m \subseteq T
        BY <2>1, <2>2, <2>3, StepByStep
    <2>5. Fits(owned, m)
        <3> HIDE DEF Fits
        <3>1. \E f : Fits(f, m)
            BY <2>1, <2>4 DEF T
        <3>2. QED
            BY <1>2, <2>1, <3>1
    <2>6. owned[0] = t /\ \A n \in 1 .. m : owned[n] = AddParent(owned[n - 1], Upward(n))
        BY <2>1, <2>5
    <2> DEFINE U == {k \in 0 .. m : Grows(t, owned[k])}
    <2>7. 0 \in U
        BY <2>1, <2>6, GrowsSelf
    <2>8. ASSUME NEW n \in (0 + 1) .. m, n - 1 \in U PROVE n \in U
        <3>1. Grows(t, owned[n - 1]) /\ owned[n] = AddParent(owned[n - 1], Upward(n))
            BY <2>6, <2>8
        <3>2. Grows(owned[n - 1], owned[n])
            BY <3>1, ParentGrows DEF Grows
        <3>3. QED
            BY <2>1, <2>8, <3>1, <3>2, GrowsOn
    <2> HIDE DEF U
    <2>9. 0 .. m \subseteq U
        BY <2>1, <2>7, <2>8, StepByStep
    <2>10. Grows(t, owned[m])
        BY <2>1, <2>9 DEF U
    <2>11. QED
        BY <1>1, <1>5, <2>1, <2>10
<1>6. QED
    BY <1>4, <1>5

-----------------------------------------------------------------------------
\* Tables of messages, and join tables

\* What a build is given, once it has begun.
IsInput(w) ==
    /\ DOMAIN w = {"files", "msgs", "enums", "readers", "layout", "strict"}
    /\ IsList(w.files) /\ \A f \in DOMAIN w.files : w.files[f].pkg \in Names
    /\ IsList(w.enums) /\ \A e \in DOMAIN w.enums : IsEnumOf(w, w.enums[e])
    /\ SaysSchemas(w.layout.datasource)
    /\ IsList(w.readers) /\ \A r \in DOMAIN w.readers : IsReader(w.readers[r])
    /\ IsList(w.msgs) /\ \A m \in DOMAIN w.msgs : IsMessageOf(w, w.msgs[m])
    /\ \A f \in DOMAIN w.files :
          IsList(w.files[f].msgs) /\ \A i \in DOMAIN w.files[f].msgs : w.files[f].msgs[i] \in DOMAIN w.msgs
    /\ \A f, g \in DOMAIN w.files :
          \A i \in DOMAIN w.files[f].msgs, j \in DOMAIN w.files[g].msgs :
             w.files[f].msgs[i] = w.files[g].msgs[j] => f = g /\ i = j

\* An item is in a file, which is in a package, of a domain.
LEMMA DomainOfItem ==
    ASSUME NEW w, IsInput(w), NEW item, InFiles(w, item)
    PROVE  PackageDomain(w, item) \in Names
<1> DEFINE at == CHOOSE i \in DOMAIN w.files : w.files[i].name = item.file
<1>1. \E i \in DOMAIN w.files : w.files[i].name = item.file
    BY DEF InFiles, ToSet
<1>2. at \in DOMAIN w.files
    BY <1>1
<1>3. PackageOf(w, item.file) = w.files[at].pkg
    BY DEF PackageOf
<1> HIDE DEF at
<1>4. PackageOf(w, item.file) \in Names
    BY <1>2, <1>3 DEF IsInput
<1>5. QED
    BY <1>4, DomainNames, PascalNames DEF PackageDomain

\* The schema that the readers, or else the layout, say a file is in.
LEMMA DatasourceNames ==
    ASSUME NEW w, IsInput(w), NEW file
    PROVE  DatasourceOf(w.readers, w.layout, file).schema \in Names
<1> DEFINE answers == DatasourceAnswers(w.readers, file)
           config == AnswerOf(w.layout.datasource, file, NoDatasource)
           deciders == Deciders(answers)
<1>1. DatasourceOf(w.readers, w.layout, file).schema
        = (IF deciders = {} THEN config ELSE answers[Min(deciders)]).schema
    BY DEF DatasourceOf
<1>2. NoDatasource.schema \in Names
    BY OwnPieces DEF NoDatasource, NoName
<1>3. \A said : SaysSchemas(said) => AnswerOf(said, file, NoDatasource).schema \in Names
    BY <1>2 DEF SaysSchemas, AnswerOf
<1>4. config.schema \in Names
    BY <1>3 DEF IsInput
<1>5. PICK n \in Nat : DOMAIN w.readers = 1 .. n
    BY ListIsFunction DEF IsInput
<1>6. answers = [i \in 1 .. n |-> AnswerOf(w.readers[i].datasource, file, NoDatasource)]
    BY <1>5 DEF DatasourceAnswers
<1>7. \A i \in 1 .. n : answers[i].schema \in Names
    BY <1>3, <1>5, <1>6 DEF IsInput, IsReader
<1>8. deciders \subseteq 1 .. n
    BY <1>6 DEF Deciders, Speakers
<1> HIDE DEF answers, config, deciders
<1>9. CASE deciders = {}
    BY <1>1, <1>4, <1>9
<1>10. CASE deciders # {}
    <2>1. deciders \subseteq Nat
        BY <1>8
    <2>2. Min(deciders) \in 1 .. n
        BY <1>8, <1>10, <2>1, MinIsMember
    <2>3. QED
        BY <1>1, <1>7, <1>10, <2>2
<1>11. QED
    BY <1>9, <1>10

\* The schema of a resource.
LEMMA ResourceSchema ==
    ASSUME NEW w, IsInput(w), NEW ds, ds.schema \in Names, NEW m \in DOMAIN w.msgs
    PROVE  SchemaOf(ds, w.msgs[m].resource) \in Names
<1>1. w.msgs[m].resource.host \in Names
    BY DEF IsInput, IsMessageOf
<1>2. QED
    BY <1>1, OwnPieces, StrippedNames DEF SchemaOf

\* And of an embedded message.
LEMMA ValueSchema ==
    ASSUME NEW w, IsInput(w), NEW fallback \in Names, NEW m
    PROVE  ValueObjectSchema(w, fallback, m) \in Names
<1>1. DatasourceOf(w.readers, w.layout, w.msgs[m].file).schema \in Names
    BY DatasourceNames
<1>2. QED
    BY <1>1, StrippedNames DEF ValueObjectSchema

\* What a message is called, alone and with the messages around it.
LEMMA MessageNames ==
    ASSUME NEW w, IsInput(w), NEW m \in DOMAIN w.msgs
    PROVE  /\ m \in Nat /\ SimpleName(w.msgs[m].path) \in Names
           /\ Scoped(w.msgs[m].path) \in Names /\ PackageDomain(w, w.msgs[m]) \in Names
<1>1. PICK n \in Nat : DOMAIN w.msgs = 1 .. n
    BY ListIsFunction DEF IsInput
<1>2. InFiles(w, w.msgs[m])
    BY DEF IsInput, IsMessageOf
<1>3. QED
    BY <1>1, <1>2, PathNames, DomainOfItem DEF InFiles

\* And an enum.
LEMMA EnumNames ==
    ASSUME NEW w, IsInput(w), NEW k \in DOMAIN w.enums
    PROVE  /\ k \in Nat /\ SimpleName(w.enums[k].path) \in Names /\ w.enums[k].oneof \in Names
           /\ Scoped(w.enums[k].path) \in Names /\ PackageDomain(w, w.enums[k]) \in Names
<1>1. PICK n \in Nat : DOMAIN w.enums = 1 .. n
    BY ListIsFunction DEF IsInput
<1>2. IsEnumOf(w, w.enums[k])
    BY DEF IsInput
<1>3. InFiles(w, w.enums[k]) /\ w.enums[k].oneof \in Names
    BY <1>2 DEF IsEnumOf
<1>4. QED
    BY <1>1, <1>3, PathNames, DomainOfItem DEF InFiles

\* The table of a message has a key for every reference.
Reads(w, t) ==
    t.proto # 0 =>
        /\ t.proto \in DOMAIN w.msgs
        /\ \A f \in Kept(w, t.proto) : IsReference(w, t.proto, f) =>
              \E k \in DOMAIN t.keys : t.keys[k].column = ColumnName(w, t.proto, f)

\* Growing keeps it.
LEMMA ReadsGrow ==
    ASSUME NEW w, NEW t, NEW u, Reads(w, t), Grows(t, u)
    PROVE  Reads(w, u)
BY DEF Reads, Grows, Same

\* Its columns and keys come from the fields.
LEMMA PopulateFits ==
    ASSUME NEW w, IsInput(w), NEW t, IsTable(t), t.keys = <<>>, t.proto \in DOMAIN w.msgs
    PROVE  /\ Grows(t, Populate(w, t)) /\ IsList(Populate(w, t).columns)
           /\ Reads(w, Populate(w, t))
<1> DEFINE m == t.proto
           kept == {i \in Kept(w, m) : ~IsEmbed(w, m, i) /\ ~IsJoin(w, m, i)}
           plain == Ascending(kept)
           columns == [k \in DOMAIN plain |-> BuildColumn(w, m, plain[k])]
           R == {i \in kept : IsReference(w, m, i)}
           refs == Ascending(R)
           oneofs == w.msgs[m].oneofs
           cases == [k \in DOMAIN oneofs |-> CaseColumn(w, oneofs[k])]
           primary == SelectSeq(columns, LAMBDA c : c.pk)
           pk == IF primary = <<>> THEN NoName ELSE Head(primary).name
           keys == [k \in DOMAIN refs |-> ReferenceKey(w, m, refs[k])]
<1>1. Populate(w, t) = [t EXCEPT !.columns = columns \o cases, !.pk = pk, !.keys = keys]
    BY DEF Populate
<1>2. IsMessageOf(w, w.msgs[m])
    BY DEF IsInput
<1>3. PICK n \in Nat : DOMAIN w.msgs[m].fields = 1 .. n
    BY <1>2, ListIsFunction DEF IsMessageOf
<1>4. IsFiniteSet(kept) /\ kept \subseteq Int /\ IsFiniteSet(R) /\ R \subseteq Int
    <2>1. kept \subseteq 1 .. n /\ R \subseteq 1 .. n
        BY <1>3 DEF Kept
    <2>2. IsFiniteSet(1 .. n) /\ 1 .. n \subseteq Int
        BY FS_Interval
    <2> HIDE DEF kept, R
    <2>3. QED
        BY <2>1, <2>2, FS_Subset
<1> HIDE DEF kept, pk
<1>5. IsListing(plain, kept) /\ IsListing(refs, R)
    <2> HIDE DEF R
    <2>1. QED
        BY <1>4, AscendingLists
<1>6. PICK p \in Nat, q \in Nat : DOMAIN plain = 1 .. p /\ DOMAIN refs = 1 .. q
    BY <1>5 DEF IsListing
<1> HIDE DEF plain
<1>7. IsList(columns)
    BY <1>6, FunctionIsList
<1>8. IsList(cases)
    <2>1. PICK o \in Nat : DOMAIN oneofs = 1 .. o
        BY <1>2, ListIsFunction DEF IsMessageOf
    <2> HIDE DEF oneofs
    <2>2. QED
        BY <2>1, FunctionIsList
<1> HIDE DEF columns, cases
<1>9. IsList(columns \o cases)
    BY <1>7, <1>8, ListConcat
<1>10. AreKeys(keys)
    <2> HIDE DEF refs
    <2>1. IsList(keys)
        BY <1>6, FunctionIsList
    <2>2. \A f : DOMAIN ReferenceKey(w, m, f) = KeyFields
        BY DEF ReferenceKey, NewKey, KeyFields
    <2>3. QED
        BY <2>1, <2>2 DEF AreKeys
<1>11. \A f \in Kept(w, m) : IsReference(w, m, f) => \E k \in DOMAIN keys : keys[k].column = ColumnName(w, m, f)
    <2> SUFFICES ASSUME NEW f \in Kept(w, m), IsReference(w, m, f)
                 PROVE  \E k \in DOMAIN keys : keys[k].column = ColumnName(w, m, f)
        OBVIOUS
    <2>1. f \in R
        BY DEF IsReference, IsEmbed, IsJoin, kept
    <2>2. PICK k \in DOMAIN refs : refs[k] = f
        <3> HIDE DEF R, refs
        <3>1. QED
            BY <1>5, <2>1 DEF IsListing
    <2>3. k \in DOMAIN keys /\ keys[k].column = ColumnName(w, m, f)
        <3>1. ReferenceKey(w, m, f).column = ColumnName(w, m, f)
            BY DEF ReferenceKey, NewKey
        <3> HIDE DEF refs
        <3>2. QED
            BY <2>2, <3>1
    <2>4. QED
        BY <2>3
<1> HIDE DEF keys, m
<1>12. /\ Populate(w, t).columns = columns \o cases /\ Populate(w, t).keys = keys
       /\ Grows(t, Populate(w, t))
    BY <1>1, <1>10 DEF IsTable, Grows, Same, TableFields
<1>13. QED
    BY <1>9, <1>11, <1>12 DEF Reads, Grows, Same, m

\* The key strategy sets columns and the primary key.
LEMMA StrategyGrows ==
    ASSUME NEW t, IsTable(t), NEW strategy
    PROVE  Grows(t, ApplyIDStrategy(t, strategy))
<1>1. PICK c : ApplyIDStrategy(t, strategy) = IF strategy = "" THEN t ELSE [t EXCEPT !.pk = Id, !.columns = c]
    BY DEF ApplyIDStrategy
<1>2. QED
    BY <1>1, GrowsSelf DEF IsTable, Grows, Same, TableFields

\* A table may be left as it is, or get two columns.
LEMMA TimestampsGrow ==
    ASSUME NEW t, IsTable(t), NEW on
    PROVE  Grows(t, ApplyTimestamps(t, on))
<1>1. PICK c : ApplyTimestamps(t, on) = IF ~on THEN t ELSE [t EXCEPT !.columns = c]
    BY DEF ApplyTimestamps
<1>2. QED
    BY <1>1, GrowsSelf DEF IsTable, Grows, Same, TableFields

\* And a primary key if it has none.
LEMMA KeyEnsured ==
    ASSUME NEW t, IsTable(t)
    PROVE  Grows(t, EnsurePK(t))
BY StrategyGrows, GrowsSelf DEF EnsurePK

\* The indexes that the readers declare.
LEMMA DeclaredIndexes ==
    ASSUME NEW w, IsInput(w), NEW m
    PROVE  AreIndexes(TableOf(w.readers, m).indexes)
<1> DEFINE answers == TableAnswers(w.readers, m)
           speakers == Speakers(answers, "indexes", NoTable)
<1>1. TableOf(w.readers, m).indexes
        = IF speakers = {} THEN NoTable["indexes"] ELSE answers[Min(speakers)]["indexes"]
    BY DEF TableOf, FirstAnswer
<1>2. AreIndexes(NoTable["indexes"])
    BY ShortLists DEF NoTable, AreIndexes
<1>3. PICK n \in Nat : DOMAIN w.readers = 1 .. n
    BY ListIsFunction DEF IsInput
<1>4. answers = [i \in 1 .. n |-> AnswerOf(w.readers[i].table, m, NoTable)]
    BY <1>3 DEF TableAnswers
<1>5. ASSUME NEW i \in 1 .. n PROVE AreIndexes(answers[i]["indexes"])
    <2>1. IsReader(w.readers[i])
        BY <1>3, <1>5 DEF IsInput
    <2>2. answers[i] = IF m \in DOMAIN w.readers[i].table THEN w.readers[i].table[m] ELSE NoTable
        BY <1>4 DEF AnswerOf
    <2> HIDE DEF answers
    <2>3. m \in DOMAIN w.readers[i].table =>
            IsList(w.readers[i].table[m].indexes)
            /\ \A x \in ToSet(w.readers[i].table[m].indexes) : IsIndex(x)
        BY <2>1 DEF IsReader
    <2>4. m \in DOMAIN w.readers[i].table => AreIndexes(w.readers[i].table[m].indexes)
        BY <2>3 DEF AreIndexes, ToSet
    <2>5. QED
        BY <1>2, <2>2, <2>4
<1>6. speakers \subseteq 1 .. n
    BY <1>4 DEF Speakers
<1> HIDE DEF answers, speakers
<1>7. CASE speakers = {}
    BY <1>1, <1>2, <1>7
<1>8. CASE speakers # {}
    <2>1. Min(speakers) \in 1 .. n
        <3>1. speakers \subseteq Nat
            BY <1>6
        <3>2. Min(speakers) \in speakers
            BY <1>8, <3>1, MinIsMember
        <3>3. QED
            BY <1>6, <3>2
    <2>2. QED
        BY <1>1, <1>5, <1>8, <2>1
<1>9. QED
    BY <1>7, <1>8

\* The table of a resource.
LEMMA BuildTableFits ==
    ASSUME NEW w, IsInput(w), NEW db, NEW schema \in Names, NEW m, m \in DOMAIN w.msgs, NEW name
    PROVE  LET t == BuildTable(w, db, schema, m, name)
           IN  IsTable(t) /\ Bare(t) /\ Reads(w, t) /\ t.db = db.name /\ t.proto = m
<1> DEFINE ts == TableOf(w.readers, m)
           t0 == NewTable(db.name, schema, name, SimpleName(w.msgs[m].path), m)
           t1 == Populate(w, t0)
           t2 == ApplyAIPSystemFields(t1)
           patterns == w.msgs[m].resource.patterns
           t3 == MaterializeParents(t2, patterns)
           t4 == ApplyIDStrategy(t3, IdStrategyOf(ts.id, db.provider))
           t5 == ApplyTimestamps(t4, ts.timestamps)
           t6 == [t5 EXCEPT !.indexes = @ \o ts.indexes]
<1>1. BuildTable(w, db, schema, m, name) = t6
    BY DEF BuildTable
<1>2. IsTable(t0) /\ Bare(t0) /\ t0.keys = <<>> /\ t0.db = db.name /\ t0.proto = m
    BY MessageNames, NewTableIsTable
<1>3. AreIndexes(ts.indexes)
    BY DeclaredIndexes
<1>4. IsList(patterns) /\ \A i \in DOMAIN patterns : IsList(patterns[i])
    BY DEF IsInput, IsMessageOf, ToSet
<1> HIDE DEF ts, t0, patterns
<1>5. Grows(t0, t1) /\ IsList(t1.columns) /\ Reads(w, t1)
    BY <1>2, PopulateFits
<1> HIDE DEF t1
<1>6. Grows(t1, t2)
    BY <1>5, SystemFieldsGrow DEF Grows
<1> HIDE DEF t2
<1>7. Grows(t2, t3)
    BY <1>4, <1>6, ParentsGrow DEF Grows
<1> HIDE DEF t3
<1>8. Grows(t3, t4)
    BY <1>7, StrategyGrows DEF Grows
<1> HIDE DEF t4
<1>9. Grows(t4, t5)
    BY <1>8, TimestampsGrow DEF Grows
<1> HIDE DEF t5
<1>10. Grows(t5, t6)
    <2>1. AreIndexes(t5.indexes \o ts.indexes)
        BY <1>3, <1>9, IndexesJoined DEF Grows, IsTable
    <2>2. IsTable(t5)
        BY <1>9 DEF Grows
    <2>3. QED
        BY <2>1, <2>2 DEF IsTable, Grows, Same, TableFields
<1> HIDE DEF t6
<1>11. Grows(t1, t6)
    BY <1>6, <1>7, <1>8, <1>9, <1>10, GrowsOn
<1>12. Reads(w, t6) /\ Grows(t0, t6)
    BY <1>5, <1>11, ReadsGrow, GrowsOn
<1>13. QED
    BY <1>1, <1>2, <1>12 DEF Grows, Same, Bare

\* The table of an embedded message.
LEMMA ValueTableFits ==
    ASSUME NEW w, IsInput(w), NEW db, NEW fallback \in Names, NEW m, m \in DOMAIN w.msgs
    PROVE  LET t == ValueTable(w, db, fallback, m)
           IN  IsTable(t) /\ Bare(t) /\ Reads(w, t) /\ t.db = db /\ t.proto = m
<1> DEFINE ts == TableOf(w.readers, m)
           own == SimpleName(w.msgs[m].path)
           name == IF ts.table # NoName THEN ts.table ELSE SnakePlural(own)
           n == NewTable(db, ValueObjectSchema(w, fallback, m), name, own, m)
           t0 == [n EXCEPT !.value = TRUE]
           t1 == Populate(w, t0)
           t2 == ApplyAIPSystemFields(t1)
           t4 == ApplyIDStrategy(t2, ts.id)
           t5 == ApplyTimestamps(t4, ts.timestamps)
           t6 == [t5 EXCEPT !.indexes = @ \o ts.indexes]
           t7 == EnsurePK(t6)
<1>1. ValueTable(w, db, fallback, m) = t7
    BY DEF ValueTable
<1>2. IsTable(t0) /\ Bare(t0) /\ t0.keys = <<>> /\ t0.db = db /\ t0.proto = m
    <2>1. IsTable(n) /\ Bare(n) /\ n.keys = <<>> /\ n.db = db /\ n.proto = m
        <3>1. ValueObjectSchema(w, fallback, m) \in Names
            BY ValueSchema
        <3>2. own \in Names /\ m \in Nat
            BY MessageNames
        <3> HIDE DEF own, name
        <3>3. QED
            BY <3>1, <3>2, NewTableIsTable
    <2> HIDE DEF n
    <2>2. QED
        BY <2>1 DEF IsTable, Bare, TableFields
<1>3. AreIndexes(ts.indexes)
    BY DeclaredIndexes
<1> HIDE DEF ts, t0
<1>5. Grows(t0, t1) /\ IsList(t1.columns) /\ Reads(w, t1)
    BY <1>2, PopulateFits
<1> HIDE DEF t1
<1>6. Grows(t1, t2)
    BY <1>5, SystemFieldsGrow DEF Grows
<1> HIDE DEF t2
<1>8. Grows(t2, t4)
    BY <1>6, StrategyGrows DEF Grows
<1> HIDE DEF t4
<1>9. Grows(t4, t5)
    BY <1>8, TimestampsGrow DEF Grows
<1> HIDE DEF t5
<1>10. Grows(t5, t6)
    <2>1. AreIndexes(t5.indexes \o ts.indexes)
        BY <1>3, <1>9, IndexesJoined DEF Grows, IsTable
    <2>2. IsTable(t5)
        BY <1>9 DEF Grows
    <2>3. QED
        BY <2>1, <2>2 DEF IsTable, Grows, Same, TableFields
<1> HIDE DEF t6
<1>11. Grows(t6, t7)
    BY <1>10, KeyEnsured DEF Grows
<1> HIDE DEF t7
<1>12. Grows(t1, t7)
    BY <1>6, <1>8, <1>9, <1>10, <1>11, GrowsOn
<1>13. Reads(w, t7) /\ Grows(t0, t7)
    BY <1>5, <1>12, ReadsGrow, GrowsOn
<1>14. QED
    BY <1>1, <1>2, <1>13 DEF Grows, Same, Bare

\* A table has a key that goes to a message.
KeyTo(t, m) == \E k \in DOMAIN t.keys : t.keys[k].proto = m

\* A foreign key column and its key, or neither.
LEMMA ForeignKeyGrows ==
    ASSUME NEW t, IsTable(t), NEW column, NEW ref, NEW notNull, NEW onDelete, NEW onUpdate
    PROVE  /\ Grows(t, AddFKColumn(t, column, ref, notNull, onDelete, onUpdate))
           /\ ~HasColumn(t, column) =>
                 KeyTo(AddFKColumn(t, column, ref, notNull, onDelete, onUpdate), ref.proto)
<1> DEFINE u == AddFKColumn(t, column, ref, notNull, onDelete, onUpdate)
           columns == Append(t.columns, [NewColumn(column, "ulid") EXCEPT
                                            !.notNull = notNull, !.model = ref.model])
           key == [NewKey(column, ref.model) EXCEPT
                      !.proto = ref.proto, !.onDelete = onDelete, !.onUpdate = onUpdate]
<1>1. u = IF HasColumn(t, column) THEN t
          ELSE [t EXCEPT !.columns = columns, !.keys = Append(@, key)]
    BY DEF AddFKColumn
<1>2. DOMAIN key = KeyFields /\ key.proto = ref.proto
    BY DEF NewKey, KeyFields
<1> HIDE DEF columns, key, u
<1>3. CASE HasColumn(t, column)
    BY <1>1, <1>3, GrowsSelf DEF u
<1>4. CASE ~HasColumn(t, column)
    <2> DEFINE keys == Append(t.keys, key)
    <2>1. /\ AreKeys(keys)
          /\ \A i \in DOMAIN t.keys : i \in DOMAIN keys /\ keys[i] = t.keys[i]
          /\ Len(t.keys) + 1 \in DOMAIN keys /\ keys[Len(t.keys) + 1] = key
        BY <1>2, KeyAdded DEF IsTable
    <2>2. u = [t EXCEPT !.columns = columns, !.keys = keys]
        BY <1>1, <1>4
    <2> HIDE DEF keys
    <2>3. Grows(t, u) /\ u.keys = keys
        BY <2>1, <2>2 DEF IsTable, Grows, Same, TableFields
    <2>4. QED
        BY <1>2, <2>1, <2>3 DEF u, KeyTo
<1>5. QED
    BY <1>3, <1>4

\* A join table has a key to its parent.
LEMMA JoinTableFits ==
    ASSUME NEW w, IsInput(w), NEW parent, IsTable(parent), parent.proto \in DOMAIN w.msgs,
           NEW i \in DOMAIN w.msgs[parent.proto].fields, NEW child
    PROVE  LET t == JoinTable(w, parent, i, child)
           IN  /\ IsTable(t) /\ Bare(t) /\ t.db = parent.db /\ t.proto = 0 /\ t.field = i
               /\ KeyTo(t, parent.proto)
<1> DEFINE cs == ColumnOf(w.readers, <<parent.proto, i>>)
           name == Join(SnakeCase(parent.model), Field(w, parent.proto, i).name)
           mine == IdColumn(SnakeCase(parent.model))
           theirs == IdColumn(SnakeCase(child.model))
           n == NewTable(parent.db, parent.schema, name, PascalGo(name), 0)
           t0 == [n EXCEPT !.field = i]
           t1 == AddFKColumn(t0, mine, parent, TRUE, EmbedAction(cs.onDelete, TRUE), cs.onUpdate)
           t2 == AddFKColumn(t1, theirs, child, TRUE, cs.onDelete, cs.onUpdate)
           full == [NewColumn(Join(SnakeCase(child.model), <<"name">>), "text") EXCEPT !.notNull = TRUE]
           t3 == IF child.parents = <<>> THEN t2 ELSE [t2 EXCEPT !.columns = Append(@, full)]
           pair == [NewIndex(<<mine, theirs>>) EXCEPT !.unique = TRUE]
           t4 == [t3 EXCEPT !.indexes = Append(@, pair)]
           t5 == EnsurePK(t4)
<1>1. JoinTable(w, parent, i, child) = t5
    BY DEF JoinTable
<1>2. /\ IsTable(t0) /\ Bare(t0) /\ t0.db = parent.db /\ t0.proto = 0 /\ t0.field = i
      /\ t0.columns = <<>>
    <2>1. IsTable(n) /\ Bare(n) /\ n.columns = <<>> /\ n.db = parent.db /\ n.proto = 0
        <3>1. Field(w, parent.proto, i).name \in Names
            BY DEF IsInput, IsMessageOf, Field, ToSet
        <3>2. SnakeCase(parent.model) \in Names /\ parent.schema \in Names
            BY SnakeNames DEF IsTable
        <3>3. name \in Names
            BY <3>1, <3>2, JoinNames
        <3> HIDE DEF name
        <3>4. PascalGo(name) \in Names
            BY <3>3, PascalNames
        <3>5. QED
            BY <3>2, <3>4, NewTableIsTable
    <2> HIDE DEF n
    <2>2. QED
        BY <2>1 DEF IsTable, Bare, TableFields
<1>3. IsIndex(pair)
    <2>1. IsList(<<mine, theirs>>)
        <3>1. <<mine, theirs>> = [k \in 1 .. 2 |-> <<mine, theirs>>[k]]
            OBVIOUS
        <3>2. QED
            BY <3>1, FunctionIsList
    <2>2. QED
        BY <2>1 DEF IsIndex, NewIndex
<1> HIDE DEF t0, mine, theirs, pair, full
<1>4. ~HasColumn(t0, mine)
    BY <1>2, ShortLists DEF HasColumn
<1>5. Grows(t0, t1) /\ KeyTo(t1, parent.proto)
    <2>1. IsTable(t0)
        BY <1>2
    <2>2. /\ Grows(t0, t1)
          /\ ~HasColumn(t0, mine) => KeyTo(t1, parent.proto)
        BY <2>1, ForeignKeyGrows, Zenon
    <2>3. QED
        BY <1>4, <2>2
<1> HIDE DEF t1
<1>6. Grows(t1, t2)
    <2>1. IsTable(t1)
        BY <1>5 DEF Grows
    <2>2. QED
        BY <2>1, ForeignKeyGrows, Zenon
<1> HIDE DEF t2
<1>7. Grows(t2, t3)
    <2>1. IsTable(t2)
        BY <1>6 DEF Grows
    <2>2. \A c : Grows(t2, [t2 EXCEPT !.columns = c])
        BY <2>1 DEF IsTable, Grows, Same, TableFields
    <2>3. QED
        BY <2>1, <2>2, GrowsSelf
<1> HIDE DEF t3
<1>8. Grows(t3, t4)
    <2>1. IsTable(t3)
        BY <1>7 DEF Grows
    <2>2. AreIndexes(Append(t3.indexes, pair))
        BY <1>3, <2>1, IndexAdded DEF IsTable
    <2>3. QED
        BY <2>1, <2>2 DEF IsTable, Grows, Same, TableFields
<1> HIDE DEF t4
<1>9. Grows(t4, t5)
    BY <1>8, KeyEnsured DEF Grows
<1> HIDE DEF t5
<1>10. Grows(t1, t5)
    BY <1>6, <1>7, <1>8, <1>9, GrowsOn
<1>11. Grows(t0, t5)
    BY <1>5, <1>10, GrowsOn
<1>12. IsTable(t5) /\ Bare(t5) /\ t5.db = parent.db /\ t5.proto = 0 /\ t5.field = i
    BY <1>2, <1>11 DEF Grows, Same, Bare
<1>13. KeyTo(t5, parent.proto)
    BY <1>5, <1>10 DEF Grows, KeyTo
<1>14. QED
    BY <1>1, <1>12, <1>13

-----------------------------------------------------------------------------
\* Enums

EnumFields == {"db", "schema", "proto", "name", "local", "sql", "localSql"}

\* Up to the pass that fits enums, SQL has the name of one in snake case.
IsEnum(w, e) ==
    /\ DOMAIN e = EnumFields /\ e.proto \in DOMAIN w.enums
    /\ e.schema \in Names /\ e.name \in Names /\ e.sql = SnakeCase(e.name)
EnumsFit(w, es) == IsList(es) /\ \A i \in DOMAIN es : IsEnum(w, es[i])

\* The enum of a proto enum, or of a oneof, in a schema.
LEMMA NewEnumIsEnum ==
    ASSUME NEW w, IsInput(w), NEW db, NEW schema \in Names, NEW k \in DOMAIN w.enums
    PROVE  IsEnum(w, NewEnum(w, db, schema, k))
<1> DEFINE own == SimpleName(w.enums[k].path)
           q == IF IsCase(w, k) THEN CaseName(own, w.enums[k].oneof) ELSE own
<1>1. own \in Names /\ w.enums[k].oneof \in Names /\ <<"case">> \in Names
    BY EnumNames, OwnPieces
<1> HIDE DEF own
<1>2. CaseName(own, w.enums[k].oneof) \in Names
    BY <1>1, JoinNames, PascalNames DEF CaseName
<1>3. q \in Names
    BY <1>1, <1>2
<1>4. NewEnum(w, db, schema, k) = [db |-> db, schema |-> schema, proto |-> k, name |-> q,
                                   local |-> q, sql |-> SnakeCase(q), localSql |-> SnakeCase(q)]
    BY DEF NewEnum, own
<1> HIDE DEF q
<1>5. QED
    BY <1>3, <1>4 DEF IsEnum, EnumFields

\* An enum that is spelled anew is one, of the same proto enum and schema.
LEMMA SpelledIsEnum ==
    ASSUME NEW w, NEW e, IsEnum(w, e), NEW q \in Names
    PROVE  /\ IsEnum(w, Spelled(e, q)) /\ Spelled(e, q).local = q
           /\ Spelled(e, q).db = e.db /\ Spelled(e, q).schema = e.schema
           /\ Spelled(e, q).proto = e.proto
BY DEF IsEnum, Spelled, EnumFields

\* What each of some messages or enums is called with those around it.
LEMMA ScopedNames ==
    ASSUME NEW w, NEW S, NEW items,
           \A i \in S : Scoped(items[i].path) \in Names /\ PackageDomain(w, items[i]) \in Names
    PROVE  \A i \in S : ScopedApart(w, S, items)[i] \in Names
<1> DEFINE scoped == [i \in S |-> Scoped(items[i].path)]
<1>1. \A i \in S : ScopedApart(w, S, items)[i]
         = IF i \in Colliding(S, scoped) THEN Join(PackageDomain(w, items[i]), scoped[i]) ELSE scoped[i]
    BY DEF ScopedApart
<1>2. \A i \in S : scoped[i] \in Names
    OBVIOUS
<1> HIDE DEF scoped
<1>3. QED
    BY <1>1, <1>2, JoinNames

\* The enums of one simple name are named together.
LEMMA QualifiedEnums ==
    ASSUME NEW w, IsInput(w), NEW es, EnumsFit(w, es), NEW at
    PROVE  EnumsFit(w, QualifyLocalEnums(w, es, at))
<1> DEFINE simple(i) == SimpleName(w.enums[es[i].proto].path)
           group == {i \in InSchema(es, at) : ~IsCase(w, es[i].proto) /\ simple(i) = simple(at)}
           items == [i \in group |-> w.enums[es[i].proto]]
           base == ScopedApart(w, group, items)
           named == Assign(Ascending(group), base, {}, Pascal)
           us == [i \in DOMAIN es |-> IF i \in group THEN Spelled(es[i], named[i]) ELSE es[i]]
<1>1. QualifyLocalEnums(w, es, at) = IF Cardinality(group) < 2 THEN es ELSE us
    BY DEF QualifyLocalEnums
<1>2. PICK n \in Nat : DOMAIN es = 1 .. n
    BY ListIsFunction DEF EnumsFit
<1>3. group \subseteq 1 .. n
    BY <1>2 DEF InSchema
<1>4. IsFiniteSet(group) /\ group \subseteq Int
    <2> HIDE DEF group
    <2>1. IsFiniteSet(1 .. n)
        BY FS_Interval
    <2>2. IsFiniteSet(group)
        BY <1>3, <2>1, FS_Subset
    <2>3. QED
        BY <1>3, <2>2
<1> HIDE DEF group
<1>5. \A i \in group : Scoped(items[i].path) \in Names /\ PackageDomain(w, items[i]) \in Names
    <2>1. \A i \in group : es[i].proto \in DOMAIN w.enums
        BY <1>2, <1>3 DEF EnumsFit, IsEnum
    <2>2. QED
        BY <2>1, EnumNames
<1> HIDE DEF items
<1>6. \A i \in group : base[i] \in Names
    BY <1>5, ScopedNames
<1> HIDE DEF base
<1>7. IsListing(Ascending(group), group)
    BY <1>4, AscendingLists
<1>8. \A i \in group : named[i] \in Names
    BY <1>6, <1>7, FS_EmptySet, AssignedApart
<1> HIDE DEF named
<1>9. us = [i \in 1 .. n |-> us[i]] /\ \A i \in 1 .. n : IsEnum(w, us[i])
    BY <1>2, <1>8, SpelledIsEnum DEF EnumsFit
<1> HIDE DEF us
<1>10. EnumsFit(w, us)
    BY <1>9, FunctionIsList DEF EnumsFit
<1>11. QED
    BY <1>1, <1>10

\* An enum is there, or is added and the enums of its name are named again.
LEMMA AddedEnumFits ==
    ASSUME NEW w, IsInput(w), NEW db, NEW schema \in Names, NEW es, EnumsFit(w, es),
           NEW k \in DOMAIN w.enums
    PROVE  EnumsFit(w, AddEnum(w, db, schema, es, k))
<1> DEFINE e == NewEnum(w, db, schema, k)
           us == Append(es, e)
<1>1. \/ AddEnum(w, db, schema, es, k) = es
      \/ AddEnum(w, db, schema, es, k) = us
      \/ AddEnum(w, db, schema, es, k) = QualifyLocalEnums(w, us, Len(us))
    BY DEF AddEnum
<1>2. IsEnum(w, e)
    BY NewEnumIsEnum
<1> HIDE DEF e
<1>3. EnumsFit(w, us)
    BY <1>2, ListAppend DEF EnumsFit
<1> HIDE DEF us
<1>4. QED
    BY <1>1, <1>3, QualifiedEnums

\* The enums that the columns of a message use.
LEMMA EnumsUsed ==
    ASSUME NEW w, IsInput(w), NEW m \in DOMAIN w.msgs
    PROVE  /\ Len(EnumsOf(w, m)) \in Nat
           /\ \A k \in 1 .. Len(EnumsOf(w, m)) : EnumsOf(w, m)[k] \in DOMAIN w.enums
<1> DEFINE S == {i \in Kept(w, m) : Field(w, m, i).kind = "enum" /\ ~Field(w, m, i).list}
           fields == Ascending(S)
           oneofs == w.msgs[m].oneofs
           own == [k \in DOMAIN fields |-> Field(w, m, fields[k]).enum]
<1>1. EnumsOf(w, m) = own \o oneofs
    BY DEF EnumsOf
<1>2. IsMessageOf(w, w.msgs[m])
    BY DEF IsInput
<1>3. PICK n \in Nat : DOMAIN w.msgs[m].fields = 1 .. n
    BY <1>2, ListIsFunction DEF IsMessageOf
<1>4. S \subseteq 1 .. n
    BY <1>3 DEF Kept
<1>5. \A i \in S : Field(w, m, i).enum \in DOMAIN w.enums
    <2> SUFFICES ASSUME NEW i \in S PROVE Field(w, m, i).enum \in DOMAIN w.enums
        OBVIOUS
    <2>1. Field(w, m, i) \in ToSet(w.msgs[m].fields) /\ Field(w, m, i).kind = "enum"
        BY DEF Kept, Field, ToSet
    <2>2. QED
        BY <1>2, <2>1 DEF IsMessageOf
<1> HIDE DEF S
<1>6. IsFiniteSet(S) /\ S \subseteq Int
    <2>1. IsFiniteSet(1 .. n)
        BY FS_Interval
    <2>2. IsFiniteSet(S)
        BY <1>4, <2>1, FS_Subset
    <2>3. QED
        BY <1>4, <2>2
<1>7. IsListing(fields, S)
    BY <1>6, AscendingLists
<1> HIDE DEF fields
<1>8. PICK f \in Nat : DOMAIN fields = 1 .. f /\ \A k \in 1 .. f : fields[k] \in S
    BY <1>7 DEF IsListing
<1>9. IsList(own) /\ \A k \in DOMAIN own : own[k] \in DOMAIN w.enums
    BY <1>5, <1>8, FunctionIsList
<1>10. IsList(oneofs) /\ \A k \in DOMAIN oneofs : oneofs[k] \in DOMAIN w.enums
    BY <1>2 DEF IsMessageOf, ToSet
<1> HIDE DEF own, oneofs
<1> DEFINE all == own \o oneofs
<1>11. IsList(all)
    BY <1>9, <1>10, ListConcat
<1>12. PICK l \in Nat : l = Len(all) /\ DOMAIN all = 1 .. l
    BY <1>11, ListIsFunction
<1>13. ASSUME NEW k \in 1 .. l PROVE all[k] \in DOMAIN w.enums
    <2>1. k \in DOMAIN all
        BY <1>12
    <2>2. \/ k \in DOMAIN own /\ all[k] = own[k]
          \/ \E j \in DOMAIN oneofs : k = Len(own) + j /\ all[k] = oneofs[j]
        BY <1>9, <1>10, <2>1, ConcatItems
    <2>3. QED
        BY <1>9, <1>10, <2>2
<1> HIDE DEF all
<1>14. QED
    BY <1>1, <1>12, <1>13 DEF all

\* g knows the first n of the used enums besides those of es.
Knows(w, db, schema, es, used, g, n) ==
    g = [k \in 0 .. n |-> IF k = 0 THEN es ELSE AddEnum(w, db, schema, g[k - 1], used[k])]

\* There is such a function.
LEMMA EnumsKnown ==
    ASSUME NEW w, NEW db, NEW schema, NEW es, NEW used, NEW m \in Nat
    PROVE  \E g : Knows(w, db, schema, es, used, g, m)
<1> DEFINE Fits(g, k) == Knows(w, db, schema, es, used, g, k)
           On(known, k) == AddEnum(w, db, schema, known, used[k])
           T == {k \in 0 .. m : \E g : Fits(g, k)}
<1>0. \A g, k : Fits(g, k) <=> g = [n \in 0 .. k |-> IF n = 0 THEN es ELSE On(g[n - 1], n)]
    BY DEF Knows
<1> HIDE DEF Fits, On
<1>1. 0 \in T
    <2>1. 0 .. 0 = {0}
        OBVIOUS
    <2>2. Fits([n \in 0 .. 0 |-> es], 0)
        BY <1>0, <2>1
    <2>3. QED
        BY <2>2
<1>2. ASSUME NEW k \in (0 + 1) .. m, k - 1 \in T PROVE k \in T
    <2>1. PICK g : Fits(g, k - 1)
        BY <1>2
    <2>2. g = [n \in 0 .. (k - 1) |-> IF n = 0 THEN es ELSE On(g[n - 1], n)]
        BY <1>0, <2>1
    <2> DEFINE h == [n \in 0 .. k |-> IF n = k THEN On(g[k - 1], k) ELSE g[n]]
    <2>3. \A n \in 0 .. k : h[n] = IF n = 0 THEN es ELSE On(h[n - 1], n)
        <3> SUFFICES ASSUME NEW n \in 0 .. k PROVE h[n] = IF n = 0 THEN es ELSE On(h[n - 1], n)
            OBVIOUS
        <3>1. CASE n = k
            BY <1>2, <3>1
        <3>2. CASE n # k
            <4>1. n \in 0 .. (k - 1) /\ (n # 0 => n - 1 \in 0 .. (k - 1) /\ n - 1 # k)
                BY <3>2
            <4>2. g[n] = IF n = 0 THEN es ELSE On(g[n - 1], n)
                BY <2>2, <4>1
            <4>3. h[n] = g[n] /\ (n # 0 => n - 1 \in 0 .. k /\ h[n - 1] = g[n - 1])
                BY <3>2, <4>1
            <4>4. QED
                BY <4>2, <4>3
        <3>3. QED
            BY <3>1, <3>2
    <2>4. Fits(h, k)
        BY <1>0, <2>3
    <2> HIDE DEF h
    <2>5. QED
        BY <1>2, <2>4
<1> HIDE DEF T
<1>3. 0 .. m \subseteq T
    BY <1>1, <1>2, StepByStep
<1>4. QED
    BY <1>3 DEF T, Fits

\* And what it knows are enums.
LEMMA KnownFit ==
    ASSUME NEW w, IsInput(w), NEW db, NEW schema \in Names, NEW es, EnumsFit(w, es),
           NEW m \in Nat, NEW used, \A k \in 1 .. m : used[k] \in DOMAIN w.enums,
           NEW g, Knows(w, db, schema, es, used, g, m)
    PROVE  EnumsFit(w, g[m])
<1> DEFINE T == {k \in 0 .. m : EnumsFit(w, g[k])}
<1>0. \A k \in 0 .. m : g[k] = IF k = 0 THEN es ELSE AddEnum(w, db, schema, g[k - 1], used[k])
    BY DEF Knows
<1>1. 0 \in T
    BY <1>0
<1>2. ASSUME NEW k \in (0 + 1) .. m, k - 1 \in T PROVE k \in T
    <2>1. /\ k \in 0 .. m /\ k # 0 /\ k \in 1 .. m
          /\ EnumsFit(w, g[k - 1])
        BY <1>2
    <2>2. g[k] = AddEnum(w, db, schema, g[k - 1], used[k])
        BY <1>0, <2>1
    <2>3. QED
        BY <2>1, <2>2, AddedEnumFits
<1> HIDE DEF T
<1>3. 0 .. m \subseteq T
    BY <1>1, <1>2, StepByStep
<1>4. QED
    BY <1>3 DEF T

-----------------------------------------------------------------------------
\* Builds

BuildFields == {"dbs", "tables", "enums", "embeds", "joins", "diags", "error"}

TablesFit(w, ts) ==
    IsList(ts) /\ \A i \in DOMAIN ts : IsTable(ts[i]) /\ Bare(ts[i]) /\ Reads(w, ts[i])

\* A request: a table of a message, and a field of it.
IsRequest(w, ts, r) ==
    /\ r = <<r[1], r[2]>> /\ r[1] \in DOMAIN ts
    /\ ts[r[1]].proto \in DOMAIN w.msgs /\ r[2] \in Kept(w, ts[r[1]].proto)
ToEmbed(w, ts, r) == IsRequest(w, ts, r) /\ IsEmbed(w, ts[r[1]].proto, r[2])
ToJoin(w, ts, r) == IsRequest(w, ts, r) /\ IsJoin(w, ts[r[1]].proto, r[2])

\* u joins what the field f of t lists.
JoinsFor(u, t, f) == u.proto = 0 /\ u.field = f /\ u.db = t.db /\ KeyTo(u, t.proto)

RefReported(reports) == \E d \in reports : d[1] = "ref"

\* A repeated reference is a join table, or waits for one, or is reported.
JoinOwed(b, i, f) ==
    \/ \E r \in DOMAIN b.joins : b.joins[r] = <<i, f>>
    \/ \E j \in DOMAIN b.tables : JoinsFor(b.tables[j], b.tables[i], f)
    \/ RefReported(b.diags)

IsBuild(w, b) ==
    /\ DOMAIN b = BuildFields /\ TablesFit(w, b.tables) /\ EnumsFit(w, b.enums)
    /\ IsList(b.embeds) /\ \A r \in DOMAIN b.embeds : ToEmbed(w, b.tables, b.embeds[r])
    /\ IsList(b.joins) /\ \A r \in DOMAIN b.joins : ToJoin(w, b.tables, b.joins[r])
    /\ \A i \in DOMAIN b.tables : b.tables[i].proto # 0 =>
          \A f \in Kept(w, b.tables[i].proto) : IsJoin(w, b.tables[i].proto, f) => JoinOwed(b, i, f)

\* Tables may grow, and more may follow.
AllGrow(ts, us) ==
    /\ IsList(us)
    /\ \A i \in DOMAIN ts : i \in DOMAIN us /\ Grows(ts[i], us[i])

\* What is asked of tables is still asked of them when they have grown.
LEMMA RequestsStay ==
    ASSUME NEW w, NEW ts, NEW us, AllGrow(ts, us), NEW r
    PROVE  /\ ToEmbed(w, ts, r) => ToEmbed(w, us, r)
           /\ ToJoin(w, ts, r) => ToJoin(w, us, r)
BY DEF AllGrow, Grows, Same, IsRequest, ToEmbed, ToJoin

\* A join table stays one.
LEMMA JoinsStay ==
    ASSUME NEW ts, NEW us, AllGrow(ts, us),
           NEW i \in DOMAIN ts, NEW j \in DOMAIN ts, NEW f, JoinsFor(ts[j], ts[i], f)
    PROVE  JoinsFor(us[j], us[i], f)
BY DEF AllGrow, Grows, Same, JoinsFor, KeyTo

\* Growing adds up, over all tables.
LEMMA AllGrowOn ==
    ASSUME NEW ts, NEW us, NEW vs, AllGrow(ts, us), AllGrow(us, vs)
    PROVE  AllGrow(ts, vs)
BY GrowsOn DEF AllGrow

\* A build whose tables have grown is one.
LEMMA GrownFits ==
    ASSUME NEW w, NEW b, NEW c, IsBuild(w, b), AllGrow(b.tables, c.tables),
           DOMAIN c.tables = DOMAIN b.tables, DOMAIN c = BuildFields,
           c.embeds = b.embeds, c.joins = b.joins, b.diags \subseteq c.diags,
           c.enums = b.enums \/ EnumsFit(w, c.enums)
    PROVE  IsBuild(w, c)
<1>1. TablesFit(w, c.tables)
    <2> SUFFICES ASSUME NEW i \in DOMAIN c.tables
                 PROVE  IsTable(c.tables[i]) /\ Bare(c.tables[i]) /\ Reads(w, c.tables[i])
        BY DEF TablesFit, AllGrow
    <2>1. Grows(b.tables[i], c.tables[i]) /\ Bare(b.tables[i]) /\ Reads(w, b.tables[i])
        BY DEF AllGrow, IsBuild, TablesFit
    <2>2. QED
        BY <2>1, ReadsGrow DEF Grows, Same, Bare
<1>2. /\ IsList(c.embeds) /\ \A r \in DOMAIN c.embeds : ToEmbed(w, c.tables, c.embeds[r])
      /\ IsList(c.joins) /\ \A r \in DOMAIN c.joins : ToJoin(w, c.tables, c.joins[r])
    BY RequestsStay DEF IsBuild
<1>3. ASSUME NEW i \in DOMAIN c.tables, c.tables[i].proto # 0,
             NEW f \in Kept(w, c.tables[i].proto), IsJoin(w, c.tables[i].proto, f)
      PROVE  JoinOwed(c, i, f)
    <2>1. c.tables[i].proto = b.tables[i].proto
        BY <1>3 DEF AllGrow, Grows, Same
    <2>2. JoinOwed(b, i, f)
        BY <1>3, <2>1 DEF IsBuild
    <2>3. QED
        BY <1>3, <2>2, JoinsStay DEF JoinOwed, RefReported
<1>4. QED
    BY <1>1, <1>2, <1>3 DEF IsBuild

\* The requests that a message leaves.
LEMMA LeftRequests ==
    ASSUME NEW w, IsInput(w), NEW m \in DOMAIN w.msgs, NEW at
    PROVE  /\ IsList(EmbedsOf(w, at, m)) /\ IsList(JoinsOf(w, at, m))
           /\ \A k \in DOMAIN EmbedsOf(w, at, m) : \E f \in Kept(w, m) :
                 IsEmbed(w, m, f) /\ EmbedsOf(w, at, m)[k] = <<at, f>>
           /\ \A k \in DOMAIN JoinsOf(w, at, m) : \E f \in Kept(w, m) :
                 IsJoin(w, m, f) /\ JoinsOf(w, at, m)[k] = <<at, f>>
           /\ \A f \in Kept(w, m) : IsJoin(w, m, f) =>
                 \E k \in DOMAIN JoinsOf(w, at, m) : JoinsOf(w, at, m)[k] = <<at, f>>
<1> DEFINE E == {i \in Kept(w, m) : IsEmbed(w, m, i)}
           J == {i \in Kept(w, m) : IsJoin(w, m, i)}
           es == Ascending(E)
           js == Ascending(J)
<1>1. PICK n \in Nat : DOMAIN w.msgs[m].fields = 1 .. n
    BY ListIsFunction DEF IsInput, IsMessageOf
<1>2. IsFiniteSet(E) /\ E \subseteq Int /\ IsFiniteSet(J) /\ J \subseteq Int
    <2>1. E \subseteq 1 .. n /\ J \subseteq 1 .. n
        BY <1>1 DEF Kept
    <2>2. IsFiniteSet(1 .. n) /\ 1 .. n \subseteq Int
        BY FS_Interval
    <2> HIDE DEF E, J
    <2>3. QED
        BY <2>1, <2>2, FS_Subset
<1>3. /\ EmbedsOf(w, at, m) = [k \in DOMAIN es |-> <<at, es[k]>>]
      /\ JoinsOf(w, at, m) = [k \in DOMAIN js |-> <<at, js[k]>>]
    BY DEF EmbedsOf, JoinsOf
<1> HIDE DEF E, J
<1>4. IsListing(es, E) /\ IsListing(js, J)
    BY <1>2, AscendingLists
<1> HIDE DEF es, js
<1>5. PICK p \in Nat, q \in Nat : p = Cardinality(E) /\ q = Cardinality(J)
    BY <1>4 DEF IsListing
<1>6. DOMAIN es = 1 .. p /\ DOMAIN js = 1 .. q
    BY <1>4, <1>5 DEF IsListing
<1>7. IsList(EmbedsOf(w, at, m)) /\ IsList(JoinsOf(w, at, m))
    BY <1>3, <1>6, FunctionIsList
<1>8. /\ \A k \in DOMAIN es : es[k] \in E
      /\ \A k \in DOMAIN js : js[k] \in J
      /\ \A f \in J : \E k \in DOMAIN js : js[k] = f
    BY <1>4, <1>5, <1>6 DEF IsListing
<1>9. QED
    BY <1>3, <1>7, <1>8 DEF E, J

\* One more table, of a message of a database.
OneMore(ts, us, db, m) ==
    /\ AllGrow(ts, us) /\ Len(us) = Len(ts) + 1
    /\ DOMAIN us = DOMAIN ts \cup {Len(ts) + 1}
    /\ us[Len(ts) + 1].db = db /\ us[Len(ts) + 1].proto = m

\* Tables that are appended to grow.
LEMMA TableAppended ==
    ASSUME NEW w, NEW ts, TablesFit(w, ts), NEW t, IsTable(t), Bare(t), Reads(w, t)
    PROVE  /\ TablesFit(w, Append(ts, t)) /\ OneMore(ts, Append(ts, t), t.db, t.proto)
           /\ Append(ts, t)[Len(ts) + 1] = t
<1> DEFINE us == Append(ts, t)
<1>1. /\ IsList(us) /\ Len(us) = Len(ts) + 1
      /\ DOMAIN us = DOMAIN ts \cup {Len(ts) + 1}
      /\ \A i \in DOMAIN ts : us[i] = ts[i]
      /\ us[Len(ts) + 1] = t
    BY ListAppend DEF TablesFit
<1> HIDE DEF us
<1>2. AllGrow(ts, us)
    BY <1>1, GrowsSelf DEF AllGrow, TablesFit
<1>3. TablesFit(w, us) /\ OneMore(ts, us, t.db, t.proto) /\ us[Len(ts) + 1] = t
    BY <1>1, <1>2 DEF TablesFit, OneMore
<1>4. QED
    BY <1>3 DEF us

\* A message adds its table and leaves its requests.
LEMMA PopulatedFits ==
    ASSUME NEW w, IsInput(w), NEW b, IsBuild(w, b), NEW t, IsTable(t), Bare(t), Reads(w, t),
           t.proto \in DOMAIN w.msgs, t.proto # 0
    PROVE  LET c == Populated(w, b, t)
           IN  /\ IsBuild(w, c) /\ c.tables = Append(b.tables, t)
               /\ c.dbs = b.dbs /\ c.error = b.error
<1> DEFINE at == Len(b.tables) + 1
           used == EnumsOf(w, t.proto)
           known[n \in 0 .. Len(used)] ==
               IF n = 0 THEN b.enums ELSE AddEnum(w, t.db, t.schema, known[n - 1], used[n])
           kinds == known[Len(used)]
           es == EmbedsOf(w, at, t.proto)
           js == JoinsOf(w, at, t.proto)
           lints == Lints(SawFields(w, t.proto))
           c == Populated(w, b, t)
<1>1. c = [b EXCEPT !.tables = Append(@, t), !.enums = kinds, !.embeds = @ \o es,
                    !.joins = @ \o js, !.diags = @ \cup lints]
    BY DEF Populated
<1>0. EnumsFit(w, kinds)
    <2>1. known = CHOOSE g : Knows(w, t.db, t.schema, b.enums, used, g, Len(used))
        BY DEF Knows
    <2>2. Len(used) \in Nat /\ \A k \in 1 .. Len(used) : used[k] \in DOMAIN w.enums
        BY EnumsUsed
    <2> HIDE DEF used, known
    <2>3. Knows(w, t.db, t.schema, b.enums, used, known, Len(used))
        BY <2>1, <2>2, EnumsKnown
    <2>4. t.schema \in Names /\ EnumsFit(w, b.enums)
        BY DEF IsTable, IsBuild
    <2>5. QED
        BY <2>2, <2>3, <2>4, KnownFit
<1> HIDE DEF used, known, kinds, es, js, lints, c
<1>2. /\ DOMAIN c = BuildFields /\ c.tables = Append(b.tables, t) /\ c.embeds = b.embeds \o es
      /\ c.joins = b.joins \o js /\ c.diags = b.diags \cup lints /\ c.enums = kinds
      /\ c.dbs = b.dbs /\ c.error = b.error
    BY <1>1 DEF IsBuild, BuildFields
<1>3. /\ TablesFit(w, c.tables) /\ AllGrow(b.tables, c.tables) /\ c.tables[at] = t
      /\ DOMAIN c.tables = DOMAIN b.tables \cup {at}
    <2>1. TablesFit(w, b.tables)
        BY DEF IsBuild
    <2>2. TablesFit(w, c.tables) /\ OneMore(b.tables, c.tables, t.db, t.proto) /\ c.tables[at] = t
        BY <1>2, <2>1, TableAppended
    <2>3. QED
        BY <2>2 DEF OneMore
<1> HIDE DEF at
<1>4. /\ IsList(es) /\ IsList(js)
      /\ \A k \in DOMAIN es : \E f \in Kept(w, t.proto) :
            IsEmbed(w, t.proto, f) /\ es[k] = <<at, f>>
      /\ \A k \in DOMAIN js : \E f \in Kept(w, t.proto) :
            IsJoin(w, t.proto, f) /\ js[k] = <<at, f>>
      /\ \A f \in Kept(w, t.proto) : IsJoin(w, t.proto, f) =>
            \E k \in DOMAIN js : js[k] = <<at, f>>
    BY LeftRequests DEF es, js
<1>5. IsList(b.embeds) /\ IsList(b.joins)
    BY DEF IsBuild
<1>6. IsList(c.embeds) /\ IsList(c.joins)
    BY <1>2, <1>4, <1>5, ListConcat
<1>7. ASSUME NEW r \in DOMAIN c.embeds PROVE ToEmbed(w, c.tables, c.embeds[r])
    <2>1. CASE r \in DOMAIN b.embeds /\ c.embeds[r] = b.embeds[r]
        BY <1>3, <2>1, RequestsStay DEF IsBuild
    <2>2. CASE \E k \in DOMAIN es : c.embeds[r] = es[k]
        BY <1>3, <1>4, <2>2 DEF ToEmbed, IsRequest
    <2>3. QED
        BY <1>2, <1>4, <1>5, <1>7, <2>1, <2>2, ConcatItems
<1>8. ASSUME NEW r \in DOMAIN c.joins PROVE ToJoin(w, c.tables, c.joins[r])
    <2>1. CASE r \in DOMAIN b.joins /\ c.joins[r] = b.joins[r]
        BY <1>3, <2>1, RequestsStay DEF IsBuild
    <2>2. CASE \E k \in DOMAIN js : c.joins[r] = js[k]
        BY <1>3, <1>4, <2>2 DEF ToJoin, IsRequest
    <2>3. QED
        BY <1>2, <1>4, <1>5, <1>8, <2>1, <2>2, ConcatItems
<1>9. /\ \A r \in DOMAIN b.joins : r \in DOMAIN c.joins /\ c.joins[r] = b.joins[r]
      /\ \A k \in DOMAIN js : \E r \in DOMAIN c.joins : c.joins[r] = js[k]
    <2>1. Follows(b.joins \o js, b.joins, js)
        BY <1>4, <1>5, ListConcat
    <2>2. QED
        BY <1>2, <2>1 DEF Follows
<1>10. ASSUME NEW i \in DOMAIN c.tables, c.tables[i].proto # 0,
              NEW f \in Kept(w, c.tables[i].proto), IsJoin(w, c.tables[i].proto, f)
       PROVE  JoinOwed(c, i, f)
    <2>1. CASE i \in DOMAIN b.tables
        <3>1. c.tables[i].proto = b.tables[i].proto
            BY <1>3, <2>1 DEF AllGrow, Grows, Same
        <3>2. JoinOwed(b, i, f)
            BY <1>10, <2>1, <3>1 DEF IsBuild
        <3>3. \A j \in DOMAIN b.tables :
                 JoinsFor(b.tables[j], b.tables[i], f) =>
                    j \in DOMAIN c.tables /\ JoinsFor(c.tables[j], c.tables[i], f)
            BY <1>3, <2>1, JoinsStay
        <3>4. QED
            BY <1>2, <1>9, <3>2, <3>3 DEF JoinOwed, RefReported
    <2>2. CASE i = at
        <3>1. \E k \in DOMAIN js : js[k] = <<i, f>>
            BY <1>3, <1>4, <1>10, <2>2
        <3>2. QED
            BY <1>9, <3>1 DEF JoinOwed
    <2>3. QED
        BY <1>3, <2>1, <2>2
<1>11. IsBuild(w, c)
    BY <1>0, <1>2, <1>3, <1>6, <1>7, <1>8, <1>10 DEF IsBuild
<1>12. QED
    BY <1>2, <1>11 DEF c

\* No message has the number 0.
LEMMA MessageNumbers ==
    ASSUME NEW w, IsInput(w)
    PROVE  0 \notin DOMAIN w.msgs /\ IsFiniteSet(DOMAIN w.msgs)
<1>1. PICK n \in Nat : DOMAIN w.msgs = 1 .. n
    BY ListIsFunction DEF IsInput
<1>2. QED
    BY <1>1, FS_Interval

-----------------------------------------------------------------------------
\* Files

\* A message adds its table, or none.
LEMMA AddMessageFits ==
    ASSUME NEW w, IsInput(w), NEW b, IsBuild(w, b), NEW db, NEW ds,
           ds.schema \in Names, NEW m \in DOMAIN w.msgs
    PROVE  LET c == AddMessage(w, db, ds, b, m)
           IN  /\ IsBuild(w, c) /\ c.dbs = b.dbs /\ c.error = b.error
               /\ c.tables = b.tables \/ OneMore(b.tables, c.tables, db.name, m)
<1> DEFINE ts == TableOf(w.readers, m)
           res == w.msgs[m].resource
           lints == Lints(SawTable(w.readers, m))
           seen == [b EXCEPT !.diags = @ \cup lints]
           t == BuildTable(w, db, SchemaOf(ds, res), m, TableName(ts, res))
           c == AddMessage(w, db, ds, b, m)
<1>1. c = IF ts.skip \/ ~IsResource(w, m) THEN seen ELSE Populated(w, seen, t)
    BY DEF AddMessage
<1>2. IsTable(t) /\ Bare(t) /\ Reads(w, t) /\ t.db = db.name /\ t.proto = m
    <2>1. PICK schema \in Names : schema = SchemaOf(ds, res)
        BY ResourceSchema
    <2> DEFINE name == TableName(ts, res)
               u == BuildTable(w, db, schema, m, name)
    <2>2. t = u
        BY <2>1
    <2> HIDE DEF t, name
    <2>3. IsTable(u) /\ Bare(u) /\ Reads(w, u) /\ u.db = db.name /\ u.proto = m
        BY <2>1, BuildTableFits
    <2> HIDE DEF u
    <2>4. QED
        BY <2>2, <2>3
<1> HIDE DEF ts, res, lints, t, c
<1>3. /\ DOMAIN seen = BuildFields /\ seen.tables = b.tables /\ seen.embeds = b.embeds
      /\ seen.joins = b.joins /\ b.diags \subseteq seen.diags /\ seen.enums = b.enums
      /\ seen.dbs = b.dbs /\ seen.error = b.error
    BY DEF IsBuild, BuildFields
<1> HIDE DEF seen
<1>4. AllGrow(b.tables, seen.tables)
    BY <1>3, GrowsSelf DEF AllGrow, IsBuild, TablesFit
<1>5. IsBuild(w, seen)
    BY <1>3, <1>4, GrownFits
<1>6. CASE ts.skip \/ ~IsResource(w, m)
    BY <1>1, <1>3, <1>5, <1>6 DEF c
<1>7. CASE ~(ts.skip \/ ~IsResource(w, m))
    <2>1. t.proto \in DOMAIN w.msgs /\ t.proto # 0
        BY <1>2, MessageNumbers
    <2>2. /\ IsBuild(w, c) /\ c.tables = Append(b.tables, t)
          /\ c.dbs = b.dbs /\ c.error = b.error
        BY <1>1, <1>2, <1>3, <1>5, <1>7, <2>1, PopulatedFits
    <2>3. TablesFit(w, b.tables)
        BY DEF IsBuild
    <2>4. OneMore(b.tables, c.tables, db.name, m)
        BY <1>2, <2>2, <2>3, TableAppended
    <2>5. QED
        BY <2>2, <2>4 DEF c
<1>8. QED
    BY <1>6, <1>7

\* A message of a database has one table.
Once(ts) ==
    \A i, j \in DOMAIN ts :
        ts[i].db = ts[j].db /\ ts[i].proto = ts[j].proto /\ ts[i].proto # 0 => i = j

\* No message of the file has a table.
Untouched(ts, f) == \A i \in DOMAIN ts, k \in DOMAIN f.msgs : ts[i].proto # f.msgs[k]

\* The first n messages of the file have been added.
Filled(w, b, c, name, f, n) ==
    /\ IsBuild(w, c) /\ c.dbs = b.dbs /\ c.error = b.error /\ AllGrow(b.tables, c.tables)
    /\ \A i \in DOMAIN c.tables : i \notin DOMAIN b.tables =>
          c.tables[i].db = name /\ \E k \in 1 .. n : c.tables[i].proto = f.msgs[k]
    /\ Once(b.tables) /\ Untouched(b.tables, f) => Once(c.tables)

IsFile(w, f) ==
    /\ IsList(f.msgs) /\ \A i \in DOMAIN f.msgs : f.msgs[i] \in DOMAIN w.msgs
    /\ \A i, j \in DOMAIN f.msgs : f.msgs[i] = f.msgs[j] => i = j

\* The next one.
LEMMA FilledOn ==
    ASSUME NEW w, IsInput(w), NEW b, NEW c, NEW db, NEW ds, ds.schema \in Names, NEW f, IsFile(w, f),
           NEW n \in Nat, n + 1 \in DOMAIN f.msgs, Filled(w, b, c, db.name, f, n)
    PROVE  Filled(w, b, AddMessage(w, db, ds, c, f.msgs[n + 1]), db.name, f, n + 1)
<1> DEFINE m == f.msgs[n + 1]
           d == AddMessage(w, db, ds, c, m)
<1>1. m \in DOMAIN w.msgs /\ IsBuild(w, c)
    BY DEF IsFile, Filled
<1>2. /\ IsBuild(w, d) /\ d.dbs = c.dbs /\ d.error = c.error
      /\ d.tables = c.tables \/ OneMore(c.tables, d.tables, db.name, m)
    BY <1>1, AddMessageFits
<1> HIDE DEF d, m
<1>3. CASE d.tables = c.tables
    <2>1. \A k \in 1 .. n : k \in 1 .. (n + 1)
        OBVIOUS
    <2>2. QED
        BY <1>2, <1>3, <2>1 DEF Filled, d, m
<1>4. CASE OneMore(c.tables, d.tables, db.name, m)
    <2> DEFINE at == Len(c.tables) + 1
    <2>1. /\ AllGrow(c.tables, d.tables) /\ DOMAIN d.tables = DOMAIN c.tables \cup {at}
          /\ d.tables[at].db = db.name /\ d.tables[at].proto = m
        BY <1>4 DEF OneMore
    <2> HIDE DEF at
    <2>2. AllGrow(b.tables, d.tables)
        BY <2>1, AllGrowOn DEF Filled
    <2>3. \A k \in 1 .. n : k \in 1 .. (n + 1)
        OBVIOUS
    <2>4. n + 1 \in 1 .. (n + 1) /\ m = f.msgs[n + 1]
        BY DEF m
    <2>5. \A i \in DOMAIN c.tables :
             d.tables[i].db = c.tables[i].db /\ d.tables[i].proto = c.tables[i].proto
        BY <2>1 DEF AllGrow, Grows, Same
    <2>6. ASSUME NEW i \in DOMAIN d.tables, i \notin DOMAIN b.tables
          PROVE  d.tables[i].db = db.name /\ \E k \in 1 .. (n + 1) : d.tables[i].proto = f.msgs[k]
        <3>1. CASE i \in DOMAIN c.tables
            BY <2>3, <2>5, <2>6, <3>1 DEF Filled
        <3>2. CASE i = at
            BY <2>1, <2>4, <3>2
        <3>3. QED
            BY <2>1, <3>1, <3>2
    <2>7. ASSUME Once(b.tables), Untouched(b.tables, f)
          PROVE  Once(d.tables)
        <3>1. ASSUME NEW i \in DOMAIN c.tables PROVE c.tables[i].proto # m
            <4>1. CASE i \in DOMAIN b.tables
                <5>1. c.tables[i].proto = b.tables[i].proto
                    BY <4>1 DEF Filled, AllGrow, Grows, Same
                <5>2. QED
                    BY <2>4, <2>7, <4>1, <5>1 DEF Untouched
            <4>2. CASE i \notin DOMAIN b.tables
                <5>1. PICK k \in 1 .. n : c.tables[i].proto = f.msgs[k]
                    BY <3>1, <4>2 DEF Filled
                <5>2. k \in DOMAIN f.msgs /\ k # n + 1
                    <6>1. PICK l \in Nat : DOMAIN f.msgs = 1 .. l
                        BY ListIsFunction DEF IsFile
                    <6>2. QED
                        BY <6>1
                <5>3. QED
                    BY <2>4, <5>1, <5>2 DEF IsFile
            <4>3. QED
                BY <4>1, <4>2
        <3>2. Once(c.tables)
            BY <2>7 DEF Filled
        <3>3. QED
            BY <2>1, <2>5, <3>1, <3>2 DEF Once
    <2>8. QED
        BY <1>2, <2>2, <2>6, <2>7 DEF Filled, d, m
<1>5. QED
    BY <1>2, <1>3, <1>4

\* g adds the first k messages of the file, one after the other.
Adds(w, db, ds, f, seen, g, k) ==
    g = [n \in 0 .. k |-> IF n = 0 THEN seen ELSE AddMessage(w, db, ds, g[n - 1], f.msgs[n])]

\* There is such a function.
LEMMA FileAdds ==
    ASSUME NEW w, NEW db, NEW ds, NEW f, NEW seen, NEW m \in Nat
    PROVE  \E g : Adds(w, db, ds, f, seen, g, m)
<1> DEFINE Fits(g, k) == Adds(w, db, ds, f, seen, g, k)
           T == {k \in 0 .. m : \E g : Fits(g, k)}
<1>1. 0 \in T
    <2>1. 0 .. 0 = {0}
        OBVIOUS
    <2>2. Fits([n \in 0 .. 0 |-> seen], 0)
        BY <2>1 DEF Adds
    <2> HIDE DEF Fits
    <2>3. QED
        BY <2>2
<1>2. ASSUME NEW k \in (0 + 1) .. m, k - 1 \in T PROVE k \in T
    <2>1. PICK g : Fits(g, k - 1)
        BY <1>2
    <2> DEFINE h == [n \in 0 .. k |-> IF n = k THEN AddMessage(w, db, ds, g[k - 1], f.msgs[k]) ELSE g[n]]
    <2>2. \A n \in 0 .. k : h[n] = IF n = 0 THEN seen ELSE AddMessage(w, db, ds, h[n - 1], f.msgs[n])
        <3> SUFFICES ASSUME NEW n \in 0 .. k
                     PROVE  h[n] = IF n = 0 THEN seen ELSE AddMessage(w, db, ds, h[n - 1], f.msgs[n])
            OBVIOUS
        <3>1. CASE n = k
            BY <1>2, <3>1
        <3>2. CASE n # k
            <4>1. n \in 0 .. (k - 1) /\ (n # 0 => n - 1 \in 0 .. (k - 1) /\ n - 1 # k)
                BY <3>2
            <4>2. g[n] = IF n = 0 THEN seen ELSE AddMessage(w, db, ds, g[n - 1], f.msgs[n])
                BY <2>1, <4>1 DEF Adds
            <4>3. h[n] = g[n] /\ (n # 0 => n - 1 \in 0 .. k /\ h[n - 1] = g[n - 1])
                BY <3>2, <4>1
            <4>4. QED
                BY <4>2, <4>3
        <3>3. QED
            BY <3>1, <3>2
    <2>3. Fits(h, k)
        BY <2>2 DEF Adds
    <2> HIDE DEF Fits, h
    <2>4. QED
        BY <1>2, <2>3
<1> HIDE DEF T
<1>3. 0 .. m \subseteq T
    BY <1>1, <1>2, StepByStep
<1>4. QED
    BY <1>3 DEF T

\* And it fills the build.
LEMMA FileFills ==
    ASSUME NEW w, IsInput(w), NEW b, NEW db, NEW ds, ds.schema \in Names, NEW f, IsFile(w, f),
           NEW seen, Filled(w, b, seen, db.name, f, 0),
           NEW filled, Adds(w, db, ds, f, seen, filled, Len(f.msgs))
    PROVE  Filled(w, b, filled[Len(f.msgs)], db.name, f, Len(f.msgs))
<1>1. PICK m \in Nat : m = Len(f.msgs) /\ DOMAIN f.msgs = 1 .. m
    BY ListIsFunction DEF IsFile
<1>2. \A n \in 0 .. m : filled[n] = IF n = 0 THEN seen ELSE AddMessage(w, db, ds, filled[n - 1], f.msgs[n])
    BY <1>1 DEF Adds
<1> DEFINE U == {k \in 0 .. m : Filled(w, b, filled[k], db.name, f, k)}
<1>3. 0 \in U
    BY <1>1, <1>2
<1>4. ASSUME NEW n \in (0 + 1) .. m, n - 1 \in U PROVE n \in U
    <2>1. PICK k \in Nat : k = n - 1 /\ n = k + 1
        BY <1>1
    <2>2. Filled(w, b, filled[k], db.name, f, k)
        BY <1>4, <2>1
    <2>3. k + 1 \in DOMAIN f.msgs
        BY <1>1, <2>1
    <2>4. Filled(w, b, AddMessage(w, db, ds, filled[k], f.msgs[k + 1]), db.name, f, k + 1)
        BY <2>2, <2>3, FilledOn
    <2>5. filled[n] = AddMessage(w, db, ds, filled[k], f.msgs[k + 1])
        BY <1>1, <1>2, <2>1
    <2>6. QED
        BY <1>1, <2>1, <2>4, <2>5
<1> HIDE DEF U
<1>5. 0 .. m \subseteq U
    BY <1>1, <1>3, <1>4, StepByStep
<1>6. m \in U
    BY <1>1, <1>5
<1>7. QED
    BY <1>1, <1>6 DEF U

Providers == {"postgres", "mongodb", "evm"}
IsDatabase(d) == DOMAIN d = {"name", "url", "provider"} /\ d.provider \in Providers

\* Every table is in a database.
DatabasesFit(ds, ts) ==
    /\ IsList(ds) /\ \A d \in DOMAIN ds : IsDatabase(ds[d])
    /\ \A i \in DOMAIN ts : \E d \in DOMAIN ds : ds[d].name = ts[i].db

\* The databases of ds and one of a name.
Houses(p, ds, name) ==
    /\ IsList(p) /\ \A d \in DOMAIN p : IsDatabase(p[d])
    /\ \E d \in DOMAIN p : p[d].name = name
    /\ \A d \in DOMAIN ds : d \in DOMAIN p /\ p[d].name = ds[d].name

\* A database is placed after the others or in the place of one of its name.
LEMMA DatabasePlaced ==
    ASSUME NEW b, IsList(b.dbs), \A d \in DOMAIN b.dbs : IsDatabase(b.dbs[d]),
           NEW db, IsDatabase(db), NEW at, at = {d \in DOMAIN b.dbs : b.dbs[d].name = db.name}
    PROVE  Houses(Place(b, at, db), b.dbs, db.name)
<1> DEFINE p == Place(b, at, db)
<1>1. CASE at = {}
    <2>1. p = Append(b.dbs, db)
        BY <1>1 DEF Place
    <2> HIDE DEF p
    <2>2. /\ IsList(p) /\ DOMAIN p = DOMAIN b.dbs \cup {Len(b.dbs) + 1}
          /\ \A i \in DOMAIN b.dbs : p[i] = b.dbs[i]
          /\ p[Len(b.dbs) + 1] = db
        BY <2>1, ListAppend
    <2>3. QED
        BY <2>2 DEF p, Houses
<1>2. CASE at # {}
    <2>1. PICK n \in Nat : DOMAIN b.dbs = 1 .. n /\ b.dbs = [i \in 1 .. n |-> b.dbs[i]]
        BY ListIsFunction
    <2>2. Min(at) \in at
        <3>1. at \subseteq Nat
            BY <2>1
        <3>2. QED
            BY <1>2, <3>1, MinIsMember
    <2> DEFINE k == Min(at)
    <2>3. k \in DOMAIN b.dbs /\ b.dbs[k].name = db.name
        BY <2>2
    <2>4. p = [b.dbs EXCEPT ![k] = db]
        BY <1>2 DEF Place
    <2> HIDE DEF p, k
    <2>5. p = [i \in 1 .. n |-> p[i]] /\ \A i \in 1 .. n : p[i] = IF i = k THEN db ELSE b.dbs[i]
        BY <2>1, <2>4
    <2>6. IsList(p) /\ DOMAIN p = 1 .. n
        BY <2>5, FunctionIsList
    <2>7. QED
        BY <2>1, <2>3, <2>5, <2>6 DEF p, Houses
<1>3. QED
    BY <1>1, <1>2

\* Nothing has failed.
Going(b) == b.error = ""

\* What merging a file leaves.
MergedFits(w, b, c, f) ==
    /\ IsBuild(w, c) /\ DatabasesFit(c.dbs, c.tables) /\ AllGrow(b.tables, c.tables)
    /\ \A i \in DOMAIN c.tables : i \notin DOMAIN b.tables =>
          \E k \in DOMAIN f.msgs : c.tables[i].proto = f.msgs[k]
    /\ Once(b.tables) /\ Untouched(b.tables, f) => Once(c.tables)
    /\ c.error \in {"", "provider", "provider conflict"}

\* A merged file fits, whether it failed or not.
LEMMA MergeFits ==
    ASSUME NEW w, IsInput(w), NEW b, IsBuild(w, b), DatabasesFit(b.dbs, b.tables), Going(b),
           NEW f, IsFile(w, f)
    PROVE  MergedFits(w, b, Merged(w, b, f), f)
<1> DEFINE ds == DatasourceOf(w.readers, w.layout, f.name)
           name == IF ds.db # NoName THEN ds.db ELSE Last(Words(f.pkg))
           provider == ParseProvider(ds.provider)
           at == {d \in DOMAIN b.dbs : b.dbs[d].name = name}
           fresh == [name |-> name, url |-> ds.url, provider |-> provider]
           old == b.dbs[Min(at)]
           db == IF at = {} THEN fresh ELSE [old EXCEPT !.url = IF @ = "" THEN ds.url ELSE @]
           lints == Lints(SawDatasource(w.readers, f.name))
           seen == [b EXCEPT !.diags = @ \cup lints]
           filled[n \in 0 .. Len(f.msgs)] ==
               IF n = 0 THEN seen ELSE AddMessage(w, db, ds, filled[n - 1], f.msgs[n])
           last == filled[Len(f.msgs)]
           c == Merged(w, b, f)
<1>1. c = IF provider = "unknown" THEN [seen EXCEPT !.error = "provider"]
          ELSE IF at # {} /\ db.provider # provider /\ ds.provider # ""
          THEN [seen EXCEPT !.dbs = Place(b, at, db), !.error = "provider conflict"]
          ELSE Settled(b, last, at, db)
    BY DEF Merged
<1>2. provider \in Providers \cup {"unknown"}
    BY DEF ParseProvider, Providers
<1>3. /\ DOMAIN seen = BuildFields /\ seen.tables = b.tables /\ seen.embeds = b.embeds
      /\ seen.joins = b.joins /\ b.diags \subseteq seen.diags /\ seen.enums = b.enums
      /\ seen.dbs = b.dbs /\ seen.error = b.error
    BY DEF IsBuild, BuildFields
<1>4. AllGrow(b.tables, seen.tables)
    BY <1>3, GrowsSelf DEF AllGrow, IsBuild, TablesFit
<1>5. IsBuild(w, seen)
    BY <1>3, <1>4, GrownFits
<1>6. PICK n \in Nat : n = Len(f.msgs) /\ DOMAIN f.msgs = 1 .. n
    BY ListIsFunction DEF IsFile
<1>7. Filled(w, b, seen, db.name, f, 0)
    BY <1>3, <1>4, <1>5 DEF Filled
<1>8. Filled(w, b, last, db.name, f, Len(f.msgs))
    <2>1. filled = CHOOSE g : Adds(w, db, ds, f, seen, g, Len(f.msgs))
        BY DEF Adds
    <2>4. ds.schema \in Names
        BY DatasourceNames
    <2> HIDE DEF filled, seen, db, ds
    <2>2. Adds(w, db, ds, f, seen, filled, Len(f.msgs))
        BY <1>6, <2>1, FileAdds
    <2>3. QED
        BY <1>7, <2>2, <2>4, FileFills
<1> HIDE DEF last, filled, seen, provider, ds, c, lints
<1>17. PICK size \in Nat : DOMAIN b.dbs = 1 .. size
    BY ListIsFunction DEF DatabasesFit
<1>18. at \subseteq Nat
    <2> SUFFICES ASSUME NEW d \in at PROVE d \in Nat
        OBVIOUS
    <2>1. d \in 1 .. size
        BY <1>17
    <2> HIDE DEF at, db, old, fresh, name
    <2>2. QED
        BY <1>17, <2>1
<1>9. db.name = name
    <2>1. CASE at = {}
        BY <2>1
    <2>2. CASE at # {}
        <3>2. Min(at) \in at
            BY <1>18, <2>2, MinIsMember
        <3>3. old.name = name /\ IsDatabase(old)
            BY <3>2 DEF DatabasesFit
        <3>4. QED
            BY <2>2, <3>3 DEF IsDatabase
    <2>3. QED
        BY <2>1, <2>2
<1>10. provider # "unknown" => IsDatabase(db)
    <2>1. CASE at = {}
        BY <1>2, <2>1 DEF IsDatabase
    <2>2. CASE at # {}
        <3>2. Min(at) \in at
            BY <1>18, <2>2, MinIsMember
        <3>3. IsDatabase(old)
            BY <3>2 DEF DatabasesFit
        <3>4. QED
            BY <2>2, <3>3 DEF IsDatabase
    <2>3. QED
        BY <2>1, <2>2
<1>11. at = {d \in DOMAIN b.dbs : b.dbs[d].name = db.name}
    <2> HIDE DEF db, name
    <2>1. QED
        BY <1>9
<1> HIDE DEF db, at, name
<1> DEFINE places == Place(b, at, db)
<1>12. ASSUME provider # "unknown" PROVE Houses(places, b.dbs, db.name)
    <2>1. IsDatabase(db)
        BY <1>10, <1>12
    <2>2. QED
        BY <1>11, <2>1, DatabasePlaced DEF DatabasesFit
<1> HIDE DEF places
<1>13. CASE provider = "unknown"
    <2>1. c = [seen EXCEPT !.error = "provider"]
        BY <1>1, <1>13
    <2>2. /\ DOMAIN c = BuildFields /\ c.tables = b.tables /\ c.embeds = b.embeds
          /\ c.joins = b.joins /\ b.diags \subseteq c.diags /\ c.dbs = b.dbs /\ c.error = "provider"
          /\ c.enums = b.enums
        BY <1>3, <2>1 DEF BuildFields
    <2>3. AllGrow(b.tables, c.tables)
        BY <1>3, <1>4, <2>2
    <2>4. IsBuild(w, c)
        BY <2>2, <2>3, GrownFits
    <2>5. QED
        BY <2>2, <2>3, <2>4 DEF MergedFits, c
<1>14. CASE /\ provider # "unknown"
            /\ at # {} /\ db.provider # provider /\ ds.provider # ""
    <2>1. c = [seen EXCEPT !.dbs = places, !.error = "provider conflict"]
        BY <1>1, <1>14 DEF places
    <2>2. /\ DOMAIN c = BuildFields /\ c.tables = b.tables /\ c.embeds = b.embeds
          /\ c.joins = b.joins /\ b.diags \subseteq c.diags /\ c.dbs = places
          /\ c.error = "provider conflict" /\ c.enums = b.enums
        BY <1>3, <2>1 DEF BuildFields
    <2>3. AllGrow(b.tables, c.tables)
        BY <1>3, <1>4, <2>2
    <2>4. IsBuild(w, c)
        BY <2>2, <2>3, GrownFits
    <2>5. DatabasesFit(c.dbs, c.tables)
        BY <1>12, <1>14, <2>2 DEF DatabasesFit, Houses
    <2>6. QED
        BY <2>2, <2>3, <2>4, <2>5 DEF MergedFits, c
<1>15. CASE /\ provider # "unknown"
            /\ ~(at # {} /\ db.provider # provider /\ ds.provider # "")
    <2>1. c = Settled(b, last, at, db)
        BY <1>1, <1>15
    <2>2. /\ IsBuild(w, last) /\ last.dbs = b.dbs /\ last.error = "" /\ AllGrow(b.tables, last.tables)
          /\ \A i \in DOMAIN last.tables : i \notin DOMAIN b.tables =>
                last.tables[i].db = db.name /\ \E k \in 1 .. n : last.tables[i].proto = f.msgs[k]
          /\ Once(b.tables) /\ Untouched(b.tables, f) => Once(last.tables)
        BY <1>6, <1>8 DEF Filled, Going
    <2>3. \A i \in DOMAIN b.tables : last.tables[i].db = b.tables[i].db
        BY <2>2 DEF AllGrow, Grows, Same
    <2>4. CASE at = {} /\ Len(last.tables) = Len(b.tables)
        <3>1. c = last
            BY <2>1, <2>4 DEF Settled
        <3>2. DOMAIN last.tables = DOMAIN b.tables
            BY <2>2, <2>4, ListIsFunction DEF IsBuild, TablesFit
        <3>3. DatabasesFit(c.dbs, c.tables)
            <4>1. c.dbs = b.dbs /\ c.tables = last.tables
                BY <2>2, <3>1
            <4>2. ASSUME NEW i \in DOMAIN c.tables PROVE \E d \in DOMAIN c.dbs : c.dbs[d].name = c.tables[i].db
                BY <2>3, <3>2, <4>1, <4>2 DEF DatabasesFit
            <4>3. QED
                BY <4>1, <4>2 DEF DatabasesFit
        <3>4. QED
            BY <1>6, <2>2, <3>1, <3>3 DEF MergedFits, c
    <2>5. CASE ~(at = {} /\ Len(last.tables) = Len(b.tables))
        <3>1. c = [last EXCEPT !.dbs = places]
            BY <2>1, <2>2, <2>5 DEF Settled, Place, places
        <3>2. /\ DOMAIN c = BuildFields /\ c.tables = last.tables /\ c.embeds = last.embeds
              /\ c.joins = last.joins /\ last.diags \subseteq c.diags /\ c.dbs = places
              /\ c.error = "" /\ c.enums = last.enums
            BY <2>2, <3>1 DEF IsBuild, BuildFields
        <3>3. AllGrow(last.tables, c.tables)
            BY <2>2, <3>2, GrowsSelf DEF AllGrow, IsBuild, TablesFit
        <3>4. IsBuild(w, c)
            BY <2>2, <3>2, <3>3, GrownFits
        <3>5. ASSUME NEW i \in DOMAIN c.tables PROVE \E d \in DOMAIN places : places[d].name = c.tables[i].db
            <4>1. CASE i \in DOMAIN b.tables
                <5>1. PICK d \in DOMAIN b.dbs : b.dbs[d].name = b.tables[i].db
                    BY <4>1 DEF DatabasesFit
                <5>2. QED
                    BY <1>12, <1>15, <2>3, <3>2, <4>1, <5>1 DEF Houses
            <4>2. CASE i \notin DOMAIN b.tables
                BY <1>12, <1>15, <2>2, <3>2, <3>5, <4>2 DEF Houses
            <4>3. QED
                BY <4>1, <4>2
        <3>6. DatabasesFit(c.dbs, c.tables)
            BY <1>12, <1>15, <3>2, <3>5 DEF DatabasesFit, Houses
        <3>7. QED
            BY <1>6, <2>2, <3>2, <3>4, <3>6, ZenonT(30) DEF MergedFits, c
    <2>6. QED
        BY <2>4, <2>5
<1>16. QED
    BY <1>13, <1>14, <1>15

-----------------------------------------------------------------------------
\* Embedded messages and join tables

\* One table of several is replaced by what it has grown to.
LEMMA TableReplaced ==
    ASSUME NEW ts, IsList(ts), \A i \in DOMAIN ts : IsTable(ts[i]), NEW k \in DOMAIN ts,
           NEW u, Grows(ts[k], u)
    PROVE  /\ AllGrow(ts, [ts EXCEPT ![k] = u]) /\ DOMAIN [ts EXCEPT ![k] = u] = DOMAIN ts
           /\ Len([ts EXCEPT ![k] = u]) = Len(ts)
<1> DEFINE us == [ts EXCEPT ![k] = u]
<1>1. PICK n \in Nat : n = Len(ts) /\ DOMAIN ts = 1 .. n /\ ts = [i \in 1 .. n |-> ts[i]]
    BY ListIsFunction
<1>2. us = [i \in 1 .. n |-> us[i]] /\ \A i \in 1 .. n : us[i] = IF i = k THEN u ELSE ts[i]
    BY <1>1
<1> HIDE DEF us
<1>3. IsList(us) /\ Len(us) = n /\ DOMAIN us = 1 .. n
    BY <1>2, FunctionIsList
<1>4. AllGrow(ts, us)
    BY <1>1, <1>2, <1>3, GrowsSelf DEF AllGrow
<1>5. QED
    BY <1>1, <1>3, <1>4 DEF us

\* A table that its database did not have.
NewOne(ts, us, db, m) ==
    OneMore(ts, us, db, m) /\ \A i \in DOMAIN ts : ~(ts[i].db = db /\ ts[i].proto = m)

\* The table of an embedded message is there, or is added.
LEMMA MaterializedFits ==
    ASSUME NEW w, IsInput(w), NEW b, IsBuild(w, b), NEW t, t.schema \in Names,
           NEW m \in DOMAIN w.msgs
    PROVE  LET c == Materialized(w, b, t, m).build
               at == Materialized(w, b, t, m).at
           IN  /\ IsBuild(w, c) /\ c.dbs = b.dbs /\ c.error = b.error /\ at \in DOMAIN c.tables
               /\ \/ c.tables = b.tables /\ c.embeds = b.embeds
                  \/ NewOne(b.tables, c.tables, t.db, m)
<1> DEFINE here == {i \in DOMAIN b.tables : b.tables[i].db = t.db /\ b.tables[i].proto = m}
           saw == SawTable(w.readers, m) \cup SawDatasource(w.readers, w.msgs[m].file)
           seen == [b EXCEPT !.diags = @ \cup Lints(saw)]
           u == ValueTable(w, t.db, t.schema, m)
           got == Materialized(w, b, t, m)
           c == Populated(w, seen, u)
<1>1. got = IF here # {} THEN [build |-> b, at |-> Min(here)]
            ELSE [build |-> c, at |-> Len(b.tables) + 1]
    BY DEF Materialized
<1>2. PICK n \in Nat : DOMAIN b.tables = 1 .. n
    BY ListIsFunction DEF IsBuild, TablesFit
<1>3. IsTable(u) /\ Bare(u) /\ Reads(w, u) /\ u.db = t.db /\ u.proto = m
    BY ValueTableFits
<1> HIDE DEF got, saw, u, c
<1>4. /\ DOMAIN seen = BuildFields /\ seen.tables = b.tables /\ seen.embeds = b.embeds
      /\ seen.joins = b.joins /\ b.diags \subseteq seen.diags /\ seen.enums = b.enums
      /\ seen.dbs = b.dbs /\ seen.error = b.error
    BY DEF IsBuild, BuildFields
<1> HIDE DEF seen
<1>5. AllGrow(b.tables, seen.tables)
    BY <1>4, GrowsSelf DEF AllGrow, IsBuild, TablesFit
<1>6. IsBuild(w, seen)
    BY <1>4, <1>5, GrownFits
<1>7. CASE here # {}
    <2>1. here \subseteq 1 .. n
        BY <1>2
    <2> HIDE DEF here
    <2>2. here \subseteq Nat
        BY <1>2, <2>1
    <2>3. Min(here) \in here
        BY <1>7, <2>2, MinIsMember
    <2>4. got.build = b /\ got.at = Min(here)
        BY <1>1, <1>7
    <2>5. QED
        BY <1>2, <2>1, <2>3, <2>4 DEF got
<1>8. CASE here = {}
    <2>1. u.proto \in DOMAIN w.msgs /\ u.proto # 0
        BY <1>3, MessageNumbers
    <2>2. /\ IsBuild(w, c) /\ c.tables = Append(b.tables, u)
          /\ c.dbs = b.dbs /\ c.error = b.error
        BY <1>3, <1>4, <1>6, <2>1, PopulatedFits DEF c
    <2>3. TablesFit(w, b.tables)
        BY DEF IsBuild
    <2>4. OneMore(b.tables, c.tables, t.db, m)
        BY <1>3, <2>2, <2>3, TableAppended
    <2>5. NewOne(b.tables, c.tables, t.db, m)
        BY <1>8, <2>4 DEF NewOne
    <2>6. Len(b.tables) + 1 \in DOMAIN c.tables
        BY <2>4 DEF OneMore
    <2> HIDE DEF here
    <2>7. got.build = c /\ got.at = Len(b.tables) + 1
        BY <1>1, <1>8
    <2>8. QED
        BY <2>2, <2>5, <2>6, <2>7 DEF got
<1>9. QED
    BY <1>7, <1>8

\* What a request to embed leaves.
EmbedFits(w, b, c) ==
    /\ IsBuild(w, c) /\ c.dbs = b.dbs /\ c.error = b.error /\ AllGrow(b.tables, c.tables)
    /\ \/ DOMAIN c.tables = DOMAIN b.tables /\ c.embeds = b.embeds
       \/ \E i \in DOMAIN b.tables, m \in DOMAIN w.msgs : NewOne(b.tables, c.tables, b.tables[i].db, m)

\* A message is embedded in a table.
LEMMA EmbeddedFits ==
    ASSUME NEW w, IsInput(w), NEW b, IsBuild(w, b), NEW request, ToEmbed(w, b.tables, request)
    PROVE  EmbedFits(w, b, Embedded(w, b, request))
<1> DEFINE t == b.tables[request[1]]
           f == Field(w, t.proto, request[2])
           cs == ColumnOf(w.readers, <<t.proto, request[2]>>)
           got == Materialized(w, b, t, f.msg)
           required == f.behavior # ""
           parent == AddFKColumn(got.build.tables[got.at], IdColumn(SnakeCase(t.model)), t, TRUE,
                                 EmbedAction(cs.onDelete, TRUE), cs.onUpdate)
           child == AddFKColumn(got.build.tables[request[1]], IdColumn(f.name), got.build.tables[got.at],
                                required, EmbedAction(cs.onDelete, required), cs.onUpdate)
           c == Embedded(w, b, request)
<1>1. c = IF f.list THEN [got.build EXCEPT !.tables[got.at] = parent]
          ELSE [got.build EXCEPT !.tables[request[1]] = child]
    BY DEF Embedded
<1>2. f.msg \in DOMAIN w.msgs /\ request[1] \in DOMAIN b.tables
    <2>1. /\ t.proto \in DOMAIN w.msgs /\ request[2] \in DOMAIN w.msgs[t.proto].fields
          /\ f.kind = "message" /\ request[1] \in DOMAIN b.tables
        BY DEF ToEmbed, IsRequest, IsEmbed, Kept
    <2>2. IsMessageOf(w, w.msgs[t.proto]) /\ f \in ToSet(w.msgs[t.proto].fields)
        BY <2>1 DEF IsInput, ToSet, Field
    <2>3. QED
        BY <2>1, <2>2 DEF IsMessageOf
<1> DEFINE g == got.build
           at == got.at
<1>3. /\ IsBuild(w, g) /\ g.dbs = b.dbs /\ g.error = b.error /\ at \in DOMAIN g.tables
      /\ \/ g.tables = b.tables /\ g.embeds = b.embeds
         \/ NewOne(b.tables, g.tables, t.db, f.msg)
    <2>1. t.schema \in Names
        BY <1>2 DEF IsBuild, TablesFit, IsTable
    <2> HIDE DEF f, t
    <2>2. QED
        BY <1>2, <2>1, MaterializedFits
<1>4. IsList(g.tables) /\ \A i \in DOMAIN g.tables : IsTable(g.tables[i])
    <2> HIDE DEF got
    <2>1. QED
        BY <1>3 DEF IsBuild, TablesFit
<1>5. AllGrow(b.tables, g.tables)
    <2> HIDE DEF g
    <2>1. CASE g.tables = b.tables
        BY <2>1, GrowsSelf DEF AllGrow, IsBuild, TablesFit
    <2>2. CASE NewOne(b.tables, g.tables, t.db, f.msg)
        BY <2>2 DEF NewOne, OneMore
    <2>3. QED
        BY <1>3, <2>1, <2>2
<1>6. Grows(g.tables[at], parent)
    <2>1. IsTable(g.tables[at])
        BY <1>3, <1>4
    <2> HIDE DEF t, f, cs, got, required
    <2>2. QED
        BY <2>1, ForeignKeyGrows, Zenon
<1>7. request[1] \in DOMAIN g.tables /\ Grows(g.tables[request[1]], child)
    <2>1. request[1] \in DOMAIN g.tables
        BY <1>2, <1>5 DEF AllGrow
    <2>2. IsTable(g.tables[request[1]])
        BY <1>4, <2>1
    <2> HIDE DEF t, f, cs, got, required
    <2>3. QED
        BY <2>1, <2>2, ForeignKeyGrows, Zenon
<1> HIDE DEF c, parent, child, f
<1>8. \E k \in DOMAIN g.tables : \E u : Grows(g.tables[k], u) /\ c = [g EXCEPT !.tables[k] = u]
    BY <1>1, <1>3, <1>6, <1>7
<1> HIDE DEF g, got, at
<1>16. PICK k \in DOMAIN g.tables : \E u : Grows(g.tables[k], u) /\ c = [g EXCEPT !.tables[k] = u]
    BY <1>8
<1>9. PICK u : Grows(g.tables[k], u) /\ c = [g EXCEPT !.tables[k] = u]
    BY <1>16
<1> DEFINE us == [g.tables EXCEPT ![k] = u]
<1>10. AllGrow(g.tables, us) /\ DOMAIN us = DOMAIN g.tables /\ Len(us) = Len(g.tables)
    BY <1>4, <1>9, TableReplaced
<1>11. c = [g EXCEPT !.tables = us]
    BY <1>9
<1> HIDE DEF us
<1>12. /\ DOMAIN c = BuildFields /\ c.tables = us /\ c.embeds = g.embeds /\ c.joins = g.joins
       /\ g.diags \subseteq c.diags /\ c.dbs = b.dbs /\ c.error = b.error /\ c.enums = g.enums
    BY <1>3, <1>11 DEF IsBuild, BuildFields
<1>13. IsBuild(w, c) /\ AllGrow(b.tables, c.tables)
    BY <1>3, <1>5, <1>10, <1>12, GrownFits, AllGrowOn
<1>14. \/ DOMAIN c.tables = DOMAIN b.tables /\ c.embeds = b.embeds
       \/ NewOne(b.tables, c.tables, t.db, f.msg)
    <2>1. CASE g.tables = b.tables /\ g.embeds = b.embeds
        BY <1>10, <1>12, <2>1
    <2>2. CASE NewOne(b.tables, g.tables, t.db, f.msg)
        <3>1. /\ c.tables[Len(b.tables) + 1].db = g.tables[Len(b.tables) + 1].db
              /\ c.tables[Len(b.tables) + 1].proto = g.tables[Len(b.tables) + 1].proto
            BY <1>10, <1>12, <2>2 DEF NewOne, OneMore, AllGrow, Grows, Same
        <3>2. QED
            BY <1>10, <1>12, <1>13, <2>2, <3>1 DEF NewOne, OneMore
    <2>3. QED
        BY <1>3, <2>1, <2>2
<1>15. QED
    BY <1>2, <1>12, <1>13, <1>14 DEF EmbedFits, c

\* What a request to join leaves.
JoinFits(w, b, c) ==
    /\ IsBuild(w, c) /\ c.dbs = b.dbs /\ c.error = b.error /\ AllGrow(b.tables, c.tables)
    /\ c.embeds = b.embeds /\ c.joins = Tail(b.joins)
    /\ \A j \in DOMAIN c.tables : j \notin DOMAIN b.tables =>
          c.tables[j].proto = 0 /\ \E i \in DOMAIN b.tables : c.tables[j].db = b.tables[i].db

\* A repeated reference becomes a join table, or is reported.
LEMMA JoinedFits ==
    ASSUME NEW w, IsInput(w), NEW b, IsBuild(w, b), b.joins # <<>>
    PROVE  JoinFits(w, b, Joined(w, [b EXCEPT !.joins = Tail(@)], Head(b.joins)))
<1> DEFINE a == [b EXCEPT !.joins = Tail(@)]
           request == Head(b.joins)
           t == b.tables[request[1]]
           f == Field(w, t.proto, request[2])
           target == JoinTarget(w, a, t.db, f.refers)
           column == BuildColumn(w, t.proto, request[2])
           u == JoinTable(w, t, request[2], a.tables[target])
           report == <<"ref", "array column", t.proto, column.name>>
           c == Joined(w, a, request)
<1>1. /\ DOMAIN a = BuildFields /\ a.tables = b.tables /\ a.embeds = b.embeds
      /\ a.joins = Tail(b.joins) /\ a.diags = b.diags /\ a.dbs = b.dbs /\ a.error = b.error
      /\ a.enums = b.enums
    BY DEF IsBuild, BuildFields
<1>2. c = IF target # 0 THEN [a EXCEPT !.tables = Append(@, u)]
          ELSE [a EXCEPT !.tables[request[1]].columns = Append(@, column),
                         !.diags = @ \cup {report}]
    BY <1>1 DEF Joined
<1>4. /\ IsList(b.joins) /\ IsList(Tail(b.joins)) /\ 1 \in DOMAIN b.joins /\ request = b.joins[1]
      /\ \A r \in DOMAIN Tail(b.joins) : r + 1 \in DOMAIN b.joins /\ Tail(b.joins)[r] = b.joins[r + 1]
      /\ \A r \in DOMAIN b.joins : r = 1 \/ (r - 1 \in DOMAIN Tail(b.joins) /\ Tail(b.joins)[r - 1] = b.joins[r])
    BY ListTail DEF IsBuild
<1>5. ToJoin(w, b.tables, request)
    BY <1>4 DEF IsBuild
<1>6. request = <<request[1], request[2]>> /\ request[1] \in DOMAIN b.tables
    BY <1>5 DEF ToJoin, IsRequest
<1>7. TablesFit(w, b.tables)
    BY DEF IsBuild
<1>3. /\ IsTable(u) /\ Bare(u) /\ u.db = t.db /\ u.proto = 0 /\ u.field = request[2]
      /\ KeyTo(u, t.proto)
    <2>1. /\ t.proto \in DOMAIN w.msgs /\ request[2] \in DOMAIN w.msgs[t.proto].fields
          /\ IsTable(t)
        BY <1>5, <1>6, <1>7 DEF ToJoin, IsRequest, Kept, TablesFit
    <2> HIDE DEF t, request, a, target
    <2>2. QED
        BY <2>1, JoinTableFits
<1> HIDE DEF a, c, u, target, column
\* Either way the tables have grown, and what was owed is.
<1>8. ASSUME DOMAIN c = BuildFields, c.embeds = b.embeds, c.joins = Tail(b.joins),
             b.diags \subseteq c.diags, c.enums = b.enums, AllGrow(b.tables, c.tables),
             TablesFit(w, c.tables),
             \A i \in DOMAIN c.tables : c.tables[i].proto # 0 =>
                \A g \in Kept(w, c.tables[i].proto) : IsJoin(w, c.tables[i].proto, g) => JoinOwed(c, i, g)
      PROVE  IsBuild(w, c)
    <2>1. \A r \in DOMAIN c.embeds : ToEmbed(w, c.tables, c.embeds[r])
        BY <1>8, RequestsStay DEF IsBuild
    <2>2. \A r \in DOMAIN c.joins : ToJoin(w, c.tables, c.joins[r])
        <3> SUFFICES ASSUME NEW r \in DOMAIN c.joins PROVE ToJoin(w, c.tables, c.joins[r])
            OBVIOUS
        <3>1. r + 1 \in DOMAIN b.joins /\ c.joins[r] = b.joins[r + 1]
            BY <1>4, <1>8
        <3>2. ToJoin(w, b.tables, c.joins[r])
            BY <3>1 DEF IsBuild
        <3>3. QED
            BY <1>8, <3>2, RequestsStay
    <2>3. IsList(c.embeds) /\ IsList(c.joins) /\ EnumsFit(w, c.enums)
        BY <1>4, <1>8 DEF IsBuild
    <2>4. QED
        BY <1>8, <2>1, <2>2, <2>3 DEF IsBuild
<1>9. CASE target # 0
    <2>1. c = [a EXCEPT !.tables = Append(a.tables, u)]
        BY <1>2, <1>9
    <2>2. /\ DOMAIN c = BuildFields /\ c.tables = Append(b.tables, u) /\ c.embeds = b.embeds
          /\ c.joins = Tail(b.joins) /\ c.diags = b.diags /\ c.dbs = b.dbs /\ c.error = b.error
          /\ c.enums = b.enums
        BY <1>1, <2>1 DEF BuildFields
    <2>3. Reads(w, u)
        BY <1>3 DEF Reads
    <2> DEFINE at == Len(b.tables) + 1
    <2>4. /\ TablesFit(w, c.tables) /\ OneMore(b.tables, c.tables, u.db, u.proto)
          /\ c.tables[at] = u
        BY <1>3, <1>7, <2>2, <2>3, TableAppended
    <2>5. AllGrow(b.tables, c.tables) /\ DOMAIN c.tables = DOMAIN b.tables \cup {at}
        BY <2>4 DEF OneMore
    <2> HIDE DEF at
    <2>6. ASSUME NEW i \in DOMAIN c.tables, c.tables[i].proto # 0,
                 NEW g \in Kept(w, c.tables[i].proto), IsJoin(w, c.tables[i].proto, g)
          PROVE  JoinOwed(c, i, g)
        <3>1. i \in DOMAIN b.tables
            BY <1>3, <2>4, <2>5, <2>6
        <3>2. c.tables[i].proto = b.tables[i].proto /\ c.tables[i].db = b.tables[i].db
            BY <2>5, <3>1 DEF AllGrow, Grows, Same
        <3>3. JoinOwed(b, i, g)
            BY <2>6, <3>1, <3>2 DEF IsBuild
        <3>4. CASE RefReported(b.diags)
            BY <2>2, <3>4 DEF JoinOwed
        <3>5. CASE \E j \in DOMAIN b.tables : JoinsFor(b.tables[j], b.tables[i], g)
            BY <2>5, <3>1, <3>5, JoinsStay DEF JoinOwed
        <3>6. CASE \E r \in DOMAIN b.joins : b.joins[r] = <<i, g>>
            <4>1. PICK r \in DOMAIN b.joins : b.joins[r] = <<i, g>>
                BY <3>6
            <4>2. CASE r = 1
                <5>1. request[1] = i /\ request[2] = g
                    BY <1>4, <4>1, <4>2
                <5>2. JoinsFor(c.tables[at], c.tables[i], g)
                    BY <1>3, <2>4, <3>2, <5>1 DEF JoinsFor
                <5>3. QED
                    BY <2>5, <5>2 DEF JoinOwed
            <4>3. CASE r # 1
                <5>1. r - 1 \in DOMAIN Tail(b.joins) /\ Tail(b.joins)[r - 1] = b.joins[r]
                    BY <1>4, <4>3
                <5>2. r - 1 \in DOMAIN c.joins /\ c.joins[r - 1] = <<i, g>>
                    BY <2>2, <4>1, <5>1
                <5>3. QED
                    BY <5>2 DEF JoinOwed
            <4>4. QED
                BY <4>2, <4>3
        <3>7. QED
            BY <3>3, <3>4, <3>5, <3>6 DEF JoinOwed
    <2>7. IsBuild(w, c)
        BY <1>8, <2>2, <2>4, <2>5, <2>6
    <2>8. \A j \in DOMAIN c.tables : j \notin DOMAIN b.tables =>
             c.tables[j].proto = 0 /\ c.tables[j].db = b.tables[request[1]].db
        BY <1>3, <2>4, <2>5
    <2>9. JoinFits(w, b, c)
        BY <1>6, <2>2, <2>5, <2>7, <2>8 DEF JoinFits
    <2>10. QED
        BY <2>9 DEF c, a
<1>10. CASE target = 0
    <2> DEFINE i1 == request[1]
               v == [t EXCEPT !.columns = Append(@, column)]
               us == [b.tables EXCEPT ![i1] = v]
    <2>1. c = [a EXCEPT !.tables = us, !.diags = @ \cup {report}]
        <3>1. c = [a EXCEPT !.tables[request[1]].columns = Append(@, column),
                            !.diags = @ \cup {report}]
            BY <1>2, <1>10
        <3> HIDE DEF report, request
        <3>2. QED
            BY <1>1, <3>1
    <2>2. Grows(t, v)
        <3>1. IsTable(t)
            BY <1>6, <1>7 DEF TablesFit
        <3> HIDE DEF t
        <3>2. QED
            BY <3>1 DEF IsTable, Grows, Same, TableFields
    <2>3. AllGrow(b.tables, us) /\ DOMAIN us = DOMAIN b.tables
        BY <1>6, <1>7, <2>2, TableReplaced DEF TablesFit
    <2> HIDE DEF us
    <2>4. /\ DOMAIN c = BuildFields /\ c.tables = us /\ c.embeds = b.embeds
          /\ c.joins = Tail(b.joins) /\ c.diags = b.diags \cup {report} /\ c.dbs = b.dbs
          /\ c.error = b.error /\ c.enums = b.enums
        BY <1>1, <2>1 DEF BuildFields
    <2>5. report[1] = "ref"
        OBVIOUS
    <2>6. RefReported(c.diags)
        BY <2>4, <2>5 DEF RefReported
    <2>7. TablesFit(w, c.tables)
        <3> SUFFICES ASSUME NEW i \in DOMAIN us PROVE IsTable(us[i]) /\ Bare(us[i]) /\ Reads(w, us[i])
            BY <2>3, <2>4 DEF TablesFit, AllGrow
        <3>1. Grows(b.tables[i], us[i]) /\ Bare(b.tables[i]) /\ Reads(w, b.tables[i])
            BY <1>7, <2>3 DEF AllGrow, TablesFit
        <3>2. QED
            BY <3>1, ReadsGrow DEF Grows, Same, Bare
    <2>8. IsBuild(w, c)
        BY <1>8, <2>3, <2>4, <2>6, <2>7 DEF JoinOwed
    <2>9. JoinFits(w, b, c)
        BY <2>3, <2>4, <2>8 DEF JoinFits
    <2>10. QED
        BY <2>9 DEF c, a
<1>11. QED
    BY <1>9, <1>10

-----------------------------------------------------------------------------
\* What a build is given

\* a comes before b where they first differ.
Lex(n, a, b) == \E d \in 1 .. n : a[d] < b[d] /\ \A k \in 1 .. n : k < d => a[k] = b[k]

\* That is an order.
LEMMA LexIsOrder ==
    ASSUME NEW n \in Nat, NEW a \in [1 .. n -> Nat], NEW b \in [1 .. n -> Nat]
    PROVE  /\ ~Lex(n, a, a) /\ ~(Lex(n, a, b) /\ Lex(n, b, a))
           /\ \A c \in [1 .. n -> Nat] : Lex(n, a, b) /\ Lex(n, b, c) => Lex(n, a, c)
<1>1. ~Lex(n, a, a)
    BY DEF Lex
<1>2. ASSUME NEW c \in [1 .. n -> Nat], Lex(n, a, b), Lex(n, b, c) PROVE Lex(n, a, c)
    <2>1. PICK d \in 1 .. n : a[d] < b[d] /\ \A k \in 1 .. n : k < d => a[k] = b[k]
        BY <1>2 DEF Lex
    <2>2. PICK e \in 1 .. n : b[e] < c[e] /\ \A k \in 1 .. n : k < e => b[k] = c[k]
        BY <1>2 DEF Lex
    <2>3. a[d] \in Nat /\ b[d] \in Nat /\ c[d] \in Nat /\ a[e] \in Nat /\ b[e] \in Nat /\ c[e] \in Nat
        OBVIOUS
    <2>4. CASE d < e
        <3>1. b[d] = c[d] /\ \A k \in 1 .. n : k < d => k < e
            BY <2>2, <2>4
        <3>2. a[d] < c[d] /\ \A k \in 1 .. n : k < d => a[k] = c[k]
            BY <2>1, <2>2, <2>3, <3>1
        <3>3. QED
            BY <3>2 DEF Lex
    <2>5. CASE d = e
        <3>1. a[d] < c[d] /\ \A k \in 1 .. n : k < d => a[k] = c[k]
            BY <2>1, <2>2, <2>3, <2>5
        <3>2. QED
            BY <3>1 DEF Lex
    <2>6. CASE e < d
        <3>1. a[e] = b[e] /\ \A k \in 1 .. n : k < e => k < d
            BY <2>1, <2>6
        <3>2. a[e] < c[e] /\ \A k \in 1 .. n : k < e => a[k] = c[k]
            BY <2>1, <2>2, <2>3, <3>1
        <3>3. QED
            BY <3>2 DEF Lex
    <2>7. QED
        BY <2>4, <2>5, <2>6
<1>3. Lex(n, a, b) /\ Lex(n, b, a) => Lex(n, a, a)
    BY <1>2
<1>4. QED
    BY <1>1, <1>2, <1>3

\* Positions by their ranks, which are compared from the left.
LEMMA InOrderLists ==
    ASSUME NEW S, IsFiniteSet(S), S \subseteq Int, NEW n \in Nat,
           NEW rank, \A i \in S : rank[i] \in [1 .. n -> Nat]
    PROVE  IsListing(InOrder(S, rank), S)
<1> DEFINE Differ(i, j) == {k \in DOMAIN rank[i] : rank[i][k] # rank[j][k]}
           Before(i, j) == IF Differ(i, j) = {} THEN i < j
                           ELSE rank[i][Min(Differ(i, j))] < rank[j][Min(Differ(i, j))]
           R == {p \in S \X S : Before(p[1], p[2])}
           Place2(i) == Cardinality({j \in S : Before(j, i)})
<1>1. InOrder(S, rank) = [k \in 1 .. Cardinality(S) |-> CHOOSE i \in S : Place2(i) = k - 1]
    BY DEF InOrder, Ordered
<1>2. ASSUME NEW i \in S, NEW j \in S
      PROVE  \/ rank[i] = rank[j] /\ (Before(i, j) <=> i < j)
             \/ Before(i, j) /\ Lex(n, rank[i], rank[j])
             \/ ~Before(i, j) /\ Lex(n, rank[j], rank[i])
    <2> DEFINE a == rank[i]
               b == rank[j]
    <2>0. a \in [1 .. n -> Nat] /\ b \in [1 .. n -> Nat]
        BY <1>2
    <2>1. Differ(i, j) = {k \in 1 .. n : a[k] # b[k]}
        BY <2>0
    <2>2. CASE Differ(i, j) = {}
        <3>1. Before(i, j) <=> i < j
            BY <2>2
        <3>2. a = b
            <4> HIDE DEF a, b, Before
            <4>1. a = [k \in 1 .. n |-> a[k]] /\ b = [k \in 1 .. n |-> b[k]]
                BY <2>0
            <4>2. \A k \in 1 .. n : a[k] = b[k]
                BY <2>1, <2>2
            <4> HIDE DEF Differ
            <4>3. [k \in 1 .. n |-> a[k]] = [k \in 1 .. n |-> b[k]]
                BY <4>2
            <4>4. QED
                BY <4>1, <4>3
        <3> HIDE DEF Before
        <3>3. QED
            BY <3>1, <3>2
    <2>3. CASE Differ(i, j) # {}
        <3> DEFINE d == Min(Differ(i, j))
        <3>1. Before(i, j) <=> a[d] < b[d]
            BY <2>3
        <3> HIDE DEF Before, a, b
        <3>2. Differ(i, j) \subseteq Nat /\ Differ(i, j) \subseteq 1 .. n
            BY <2>1
        <3> HIDE DEF Differ
        <3>3. d \in Differ(i, j) /\ \A k \in Differ(i, j) : d <= k
            BY <2>3, <3>2, MinIsMember
        <3> HIDE DEF d
        <3>4. d \in 1 .. n /\ a[d] # b[d]
            BY <2>1, <3>3
        <3>5. \A k \in 1 .. n : k < d => a[k] = b[k] /\ b[k] = a[k]
            BY <2>1, <3>3, <3>4
        <3>6. a[d] \in Nat /\ b[d] \in Nat
            BY <2>0, <3>4
        <3>7. \/ Before(i, j) /\ Lex(n, a, b)
              \/ ~Before(i, j) /\ Lex(n, b, a)
            <4>1. CASE a[d] < b[d]
                BY <3>1, <3>4, <3>5, <4>1 DEF Lex
            <4>2. CASE b[d] < a[d]
                <5>1. ~(a[d] < b[d])
                    BY <3>6, <4>2
                <5>2. QED
                    BY <3>1, <3>4, <3>5, <4>2, <5>1 DEF Lex
            <4>3. QED
                BY <3>4, <3>6, <4>1, <4>2
        <3>8. QED
            BY <3>7 DEF a, b
    <2>4. QED
        BY <2>2, <2>3
<1> HIDE DEF Before
<1>3. \A i, j \in S :
         /\ ~Lex(n, rank[i], rank[i]) /\ ~(Lex(n, rank[i], rank[j]) /\ Lex(n, rank[j], rank[i]))
         /\ \A h \in S : Lex(n, rank[h], rank[i]) /\ Lex(n, rank[i], rank[j]) => Lex(n, rank[h], rank[j])
    BY LexIsOrder
<1>4. \A i \in S : ~Before(i, i)
    BY <1>2, <1>3
<1>5. \A i, j \in S : i # j => Before(i, j) \/ Before(j, i)
    <2> SUFFICES ASSUME NEW i \in S, NEW j \in S, i # j, ~Before(i, j), ~Before(j, i) PROVE FALSE
        OBVIOUS
    <2>1. i \in Int /\ j \in Int /\ (i < j \/ j < i)
        OBVIOUS
    <2>2. QED
        BY <1>2, <1>3, <2>1
<1>6. \A h, i, j \in S : Before(h, i) /\ Before(i, j) => Before(h, j)
    <2> SUFFICES ASSUME NEW h \in S, NEW i \in S, NEW j \in S, Before(h, i), Before(i, j)
                 PROVE  Before(h, j)
        OBVIOUS
    <2>1. \/ rank[h] = rank[i] /\ h < i
          \/ Lex(n, rank[h], rank[i])
        BY <1>2, <1>3
    <2>2. \/ rank[i] = rank[j] /\ i < j
          \/ Lex(n, rank[i], rank[j])
        BY <1>2, <1>3
    <2>3. \/ rank[h] = rank[j] /\ h < j
          \/ Lex(n, rank[h], rank[j])
        <3>1. h \in Int /\ i \in Int /\ j \in Int /\ (h < i /\ i < j => h < j)
            OBVIOUS
        <3>2. QED
            BY <1>3, <2>1, <2>2, <3>1
    <2>4. QED
        BY <1>2, <1>3, <2>3
<1>7. IsOrder(S, R)
    BY <1>4, <1>5, <1>6 DEF IsOrder
<1>8. \A i \in S : RankOf(S, R, i) = Place2(i)
    <2> SUFFICES ASSUME NEW i \in S PROVE RankOf(S, R, i) = Place2(i)
        OBVIOUS
    <2>1. {j \in S : <<j, i>> \in R} = {j \in S : Before(j, i)}
        OBVIOUS
    <2>2. QED
        BY <2>1 DEF RankOf
<1> DEFINE o == InOrder(S, rank)
<1> HIDE DEF R, Place2
<1>9. ASSUME NEW k \in 1 .. Cardinality(S), \E i \in S : RankOf(S, R, i) = k - 1
      PROVE  o[k] \in S /\ RankOf(S, R, o[k]) = k - 1
    <2>1. \E i \in S : Place2(i) = k - 1
        BY <1>8, <1>9
    <2>2. o[k] = CHOOSE i \in S : Place2(i) = k - 1
        BY <1>1
    <2>3. QED
        BY <1>8, <2>1, <2>2
<1>10. o = [k \in 1 .. Cardinality(S) |-> o[k]]
    BY <1>1
<1> HIDE DEF o
<1>11. QED
    BY <1>7, <1>9, <1>10, PlacesList DEF o

\* The readers of a world, in the order of their keys.
LEMMA SortedReaders ==
    ASSUME NEW rs, IsList(rs), \A r \in DOMAIN rs : IsReader(rs[r])
    PROVE  /\ IsList(SortReaders(rs))
           /\ \A n \in DOMAIN SortReaders(rs) : IsReader(SortReaders(rs)[n])
<1> DEFINE S == Registered(rs)
           rank == [i \in S |-> <<rs[i].key>>]
           order == InOrder(S, rank)
           sorted == SortReaders(rs)
<1>1. PICK k \in Nat : DOMAIN rs = 1 .. k
    BY ListIsFunction
<1>2. S \subseteq DOMAIN rs
    BY DEF Registered
<1>3. IsFiniteSet(S) /\ S \subseteq Int
    BY <1>1, <1>2, FS_Interval, FS_Subset
<1>4. \A i \in S : rank[i] \in [1 .. 1 -> Nat]
    <2> SUFFICES ASSUME NEW i \in S PROVE rank[i] \in [1 .. 1 -> Nat]
        OBVIOUS
    <2>1. rs[i].key \in Nat /\ rank[i] = <<rs[i].key>>
        BY <1>2 DEF IsReader
    <2> HIDE DEF rank
    <2>2. QED
        BY <2>1
<1>5. sorted = [n \in DOMAIN order |-> rs[order[n]]]
    BY DEF SortReaders
<1> HIDE DEF S, rank, sorted
<1>6. IsListing(order, S)
    BY <1>3, <1>4, InOrderLists
<1> HIDE DEF order
<1>7. PICK n \in Nat : order \in [1 .. n -> S]
    BY <1>6 DEF IsListing
<1>8. sorted = [i \in 1 .. n |-> sorted[i]] /\ \A i \in 1 .. n : sorted[i] = rs[order[i]]
    BY <1>5, <1>7
<1>9. IsList(sorted) /\ DOMAIN sorted = 1 .. n
    BY <1>8, FunctionIsList
<1>10. QED
    BY <1>2, <1>7, <1>8, <1>9 DEF sorted

-----------------------------------------------------------------------------
\* Names

AreTables(ts) == IsList(ts) /\ \A i \in DOMAIN ts : IsTable(ts[i])

\* Every table has grown, and there are no more.
Passed(ts, us) == AllGrow(ts, us) /\ DOMAIN us = DOMAIN ts /\ AreTables(us)

\* It is enough to see each.
LEMMA EachPasses ==
    ASSUME NEW ts, AreTables(ts), NEW us, us = [i \in DOMAIN ts |-> us[i]],
           \A i \in DOMAIN ts : Grows(ts[i], us[i])
    PROVE  Passed(ts, us)
<1>1. PICK n \in Nat : DOMAIN ts = 1 .. n
    BY ListIsFunction DEF AreTables
<1>2. IsList(us)
    BY <1>1, FunctionIsList
<1>3. QED
    BY <1>2 DEF Passed, AllGrow, AreTables, Grows

\* A table is renamed.
LEMMA RenamedGrows ==
    ASSUME NEW t, IsTable(t), NEW q \in Names
    PROVE  Grows(t, Renamed(t, q)) /\ Renamed(t, q).local = q
<1>1. PICK name : Renamed(t, q) = IF q = t.local THEN t
                                  ELSE [t EXCEPT !.name = name, !.local = q, !.model = q]
    BY DEF Renamed
<1>2. QED
    BY <1>1, GrowsSelf DEF IsTable, Grows, Same, TableFields

\* Names that are cut, in the columns and indexes too.
LEMMA FittedGrows ==
    ASSUME NEW t, IsTable(t)
    PROVE  Grows(t, FitTable(t))
<1> DEFINE Fitted(name) == IF HasColumn(t, name) THEN FitIdentifier(name) ELSE name
           name2 == FitIdentifier(t.name)
           Column(c) == [c EXCEPT !.name = FitIdentifier(@)]
           columns == [i \in DOMAIN t.columns |-> Column(t.columns[i])]
           Cut(x) == [x EXCEPT !.columns = [c \in DOMAIN @ |-> Fitted(@[c])]]
           xs == [k \in DOMAIN t.indexes |-> Cut(t.indexes[k])]
<1>1. FitTable(t) = [t EXCEPT !.name = name2, !.columns = columns, !.indexes = xs]
    BY Zenon DEF FitTable
<1>2. AreIndexes(xs)
    <2>1. AreIndexes(t.indexes)
        BY DEF IsTable
    <2>2. ASSUME NEW x, IsIndex(x) PROVE IsIndex(Cut(x))
        <3> DEFINE cs == [c \in DOMAIN x.columns |-> Fitted(x.columns[c])]
        <3>1. Cut(x) = [x EXCEPT !.columns = cs]
            OBVIOUS
        <3>2. PICK m \in Nat : DOMAIN x.columns = 1 .. m
            BY <2>2, ListIsFunction DEF IsIndex
        <3>3. cs = [c \in 1 .. m |-> cs[c]]
            BY <3>2
        <3> HIDE DEF cs, Cut
        <3>4. IsList(cs)
            BY <3>3, FunctionIsList
        <3>5. DOMAIN x = {"name", "columns", "unique"}
            BY <2>2 DEF IsIndex, NewIndex
        <3>6. QED
            BY <2>2, <3>1, <3>4, <3>5 DEF IsIndex
    <2> HIDE DEF Cut
    <2>3. PICK n \in Nat : DOMAIN t.indexes = 1 .. n
        BY <2>1, ListIsFunction DEF AreIndexes
    <2>4. xs = [k \in 1 .. n |-> xs[k]] /\ \A k \in 1 .. n : xs[k] = Cut(t.indexes[k])
        BY <2>3
    <2> HIDE DEF xs
    <2>5. IsList(xs) /\ DOMAIN xs = 1 .. n
        BY <2>4, FunctionIsList
    <2>6. QED
        BY <2>1, <2>2, <2>3, <2>4, <2>5 DEF AreIndexes
<1> HIDE DEF name2, columns, xs
<1>3. QED
    BY <1>1, <1>2 DEF IsTable, Grows, Same, TableFields

\* Tables of one name in a schema are named anew.
LEMMA DedupedApart ==
    ASSUME NEW ts, AreTables(ts), NEW S, S \subseteq DOMAIN ts
    PROVE  \A i, j \in S : DedupedName(ts, S, i) = DedupedName(ts, S, j) => i = j
<1> DEFINE name == [i \in S |-> ts[i].name]
           shared == Colliding(S, name)
           rank == [i \in shared |-> <<FirstOf(S, name, i), ts[i].proto>>]
           order == InOrder(shared, rank)
           single == [i \in shared |-> SnakeCase(ts[i].local)]
           used == Alone(S, name)
           q == [i \in S |-> DedupedName(ts, S, i)]
<1>0. \A i \in S : DedupedName(ts, S, i) = IF i \in shared THEN Assign(order, single, used, Snake)[i] ELSE name[i]
    BY DEF DedupedName
<1>1. \A i \in S : q[i] = IF i \in shared THEN Assign(order, single, used, Snake)[i] ELSE name[i]
    BY <1>0
<1>2. IsFiniteSet(S) /\ S \subseteq Nat
    BY GroupIsFinite DEF AreTables
<1>3. shared \subseteq S
    BY DEF Colliding
<1>4. used = {name[i] : i \in S \ shared}
    BY DEF Alone
<1>5. \A i \in shared : single[i] \in Names /\ ts[i].proto \in Nat
    BY <1>3, SnakeNames DEF AreTables, IsTable
<1> HIDE DEF name, single, used
<1>6. IsFiniteSet(shared) /\ IsFiniteSet(S \ shared) /\ shared \subseteq Int
    BY <1>2, <1>3, FS_Subset
<1>7. IsFiniteSet(used) /\ \A i \in S \ shared : name[i] \in used
    BY <1>4, <1>6, FiniteImage
<1>8. \A i \in shared : rank[i] \in [1 .. 2 -> Nat]
    <2> SUFFICES ASSUME NEW i \in shared PROVE rank[i] \in [1 .. 2 -> Nat]
        OBVIOUS
    <2>1. FirstOf(S, name, i) \in Nat /\ ts[i].proto \in Nat
        BY <1>2, <1>3, <1>5, FirstIsNumber
    <2>2. rank[i] = <<FirstOf(S, name, i), ts[i].proto>>
        OBVIOUS
    <2> HIDE DEF rank
    <2>3. QED
        BY <2>1, <2>2
<1> HIDE DEF rank
<1>9. IsListing(order, shared)
    BY <1>6, <1>8, InOrderLists
<1> HIDE DEF order, q
<1>10. \A i, j \in S : q[i] = q[j] => i = j
    <2>1. Colliding(S, name) \subseteq shared /\ Snake \in {Pascal, Snake}
        OBVIOUS
    <2> HIDE DEF shared
    <2>2. RenamesIn(S, name, shared, order, single, used, Snake, q)
        BY <1>1, <1>3, <1>5, <1>7, <1>9, <2>1 DEF RenamesIn
    <2>3. QED
        BY <2>2, RenamedApart
<1>11. QED
    BY <1>10 DEF q

\* Models of one name in a database, whatever the schema, are all renamed.
LEMMA QualifiedApart ==
    ASSUME NEW ts, AreTables(ts), NEW S, S \subseteq DOMAIN ts
    PROVE  /\ \A i \in S : QualifiedModel(ts, S, i) \in Names
           /\ \A i, j \in S : QualifiedModel(ts, S, i) = QualifiedModel(ts, S, j) => i = j
<1> DEFINE model == [i \in S |-> ts[i].model]
           shared == Colliding(S, model)
           models == {model[i] : i \in shared}
           schema == [i \in shared |-> ts[i].schema]
           schemas == {ts[i].schema : i \in shared}
           rank == [i \in shared |->
                      <<Rank(model[i], models), Rank(ts[i].schema, schemas), ts[i].proto>>]
           order == InOrder(shared, rank)
           base == [i \in shared |-> Join(PascalGo(SchemaDomain(ts[i].schema)), model[i])]
           used == Alone(S, model)
           q == [i \in S |-> QualifiedModel(ts, S, i)]
<1>0. \A i \in S : QualifiedModel(ts, S, i) = IF i \in shared THEN Assign(order, base, used, Pascal)[i] ELSE model[i]
    BY DEF QualifiedModel
<1>1. \A i \in S : q[i] = IF i \in shared THEN Assign(order, base, used, Pascal)[i] ELSE model[i]
    BY <1>0
<1>2. IsFiniteSet(S) /\ S \subseteq Nat
    BY GroupIsFinite DEF AreTables
<1>3. shared \subseteq S
    BY DEF Colliding
<1>4. used = {model[i] : i \in S \ shared}
    BY DEF Alone
<1>5. /\ \A i \in S : model[i] \in Names /\ ts[i].proto \in Nat /\ ts[i].schema \in Names
      /\ Colliding(S, model) \subseteq shared
    BY DEF AreTables, IsTable
<1>6. schemas = {schema[i] : i \in shared}
    OBVIOUS
<1> HIDE DEF schemas
<1> HIDE DEF model, used, schema, shared
<1>7. \A i \in shared : base[i] \in Names
    <2> SUFFICES ASSUME NEW i \in shared PROVE base[i] \in Names
        OBVIOUS
    <2>1. PascalGo(SchemaDomain(ts[i].schema)) \in Names /\ model[i] \in Names
        BY <1>3, <1>5, DomainNames, PascalNames
    <2>2. QED
        BY <2>1, JoinNames
<1> HIDE DEF base
<1>8. IsFiniteSet(shared) /\ IsFiniteSet(S \ shared) /\ shared \subseteq Int
    BY <1>2, <1>3, FS_Subset
<1>9. IsFiniteSet(used) /\ \A i \in S \ shared : model[i] \in used
    BY <1>4, <1>8, FiniteImage
<1>10. IsFiniteSet(models) /\ IsFiniteSet(schemas)
    BY <1>6, <1>8, FiniteImage
<1> HIDE DEF models
<1>11. \A i \in shared : rank[i] \in [1 .. 3 -> Nat]
    <2> SUFFICES ASSUME NEW i \in shared PROVE rank[i] \in [1 .. 3 -> Nat]
        OBVIOUS
    <2>1. Rank(model[i], models) \in Nat /\ Rank(ts[i].schema, schemas) \in Nat /\ ts[i].proto \in Nat
        BY <1>3, <1>5, <1>10, RankIsNumber
    <2>2. rank[i] = <<Rank(model[i], models), Rank(ts[i].schema, schemas), ts[i].proto>>
        OBVIOUS
    <2> HIDE DEF rank
    <2>3. QED
        BY <2>1, <2>2
<1> HIDE DEF rank
<1>12. IsListing(order, shared)
    BY <1>8, <1>11, InOrderLists
<1> HIDE DEF order, q
<1>13. RenamesIn(S, model, shared, order, base, used, Pascal, q)
    BY <1>1, <1>3, <1>5, <1>7, <1>9, <1>12 DEF RenamesIn
<1>14. \A i \in S : q[i] \in Names
    <2>1. \A i \in shared : q[i] \in Names
        BY <1>13, RenamedApart
    <2>2. \A i \in S \ shared : q[i] = model[i]
        BY <1>1
    <2>3. QED
        BY <1>5, <2>1, <2>2
<1>15. \A i, j \in S : q[i] = q[j] => i = j
    BY <1>13, RenamedApart
<1>16. QED
    BY <1>14, <1>15 DEF q

\* Messages of one simple name in a schema; a join table has no message.
LEMMA LocalsGiven ==
    ASSUME NEW w, IsInput(w), NEW ts, AreTables(ts), NEW S, S \subseteq DOMAIN ts,
           \A i \in S : ts[i].proto # 0 => ts[i].proto \in DOMAIN w.msgs
    PROVE  /\ \A i \in S : LocalName(w, ts, S, i) \in Names
           /\ \A i, j \in S : ts[i].proto # 0 /\ ts[j].proto # 0
                              /\ LocalName(w, ts, S, i) = LocalName(w, ts, S, j) => i = j
<1> DEFINE local == [i \in S |-> ts[i].local]
           messages == {i \in S : ts[i].proto # 0}
           shared == Colliding(messages, local)
           Group(i) == {j \in shared : local[j] = local[i]}
           Base(i) == ScopedApart(w, Group(i), [j \in Group(i) |-> w.msgs[ts[j].proto]])[i]
           alone == {j \in S : Group(j) = {}}
           used == {local[i] : i \in alone}
           rank == [i \in shared |-> <<FirstOf(messages, local, i), ts[i].proto>>]
           order == InOrder(shared, rank)
           base == [i \in shared |-> Base(i)]
           q == [i \in S |-> LocalName(w, ts, S, i)]
<1>0. \A i \in S : LocalName(w, ts, S, i) = IF i \in shared THEN Assign(order, base, used, Pascal)[i] ELSE local[i]
    BY DEF LocalName
<1>1. \A i \in S : q[i] = IF i \in shared THEN Assign(order, base, used, Pascal)[i] ELSE local[i]
    BY <1>0
<1>2. IsFiniteSet(S) /\ S \subseteq Nat
    BY GroupIsFinite DEF AreTables
<1>3. shared \subseteq messages /\ messages \subseteq S /\ alone \subseteq S
    BY DEF Colliding
<1>4. \A i \in S : local[i] \in Names /\ ts[i].proto \in Nat
    BY DEF AreTables, IsTable
<1>5. messages \ shared \subseteq alone
    <2> SUFFICES ASSUME NEW i \in messages, i \notin shared, NEW j \in shared, local[j] = local[i]
                 PROVE  FALSE
        BY <1>3
    <2>1. j \in messages /\ j # i
        BY <1>3
    <2>2. QED
        BY <2>1 DEF Colliding
<1>6. \A i \in shared : base[i] \in Names
    <2> SUFFICES ASSUME NEW i \in shared PROVE Base(i) \in Names
        OBVIOUS
    <2> DEFINE G == Group(i)
               items == [j \in G |-> w.msgs[ts[j].proto]]
    <2>1. \A j \in G : ts[j].proto \in DOMAIN w.msgs
        BY <1>3
    <2>2. i \in G
        OBVIOUS
    <2>3. Base(i) = ScopedApart(w, G, items)[i]
        OBVIOUS
    <2> HIDE DEF Base, G
    <2>4. \A j \in G : Scoped(items[j].path) \in Names /\ PackageDomain(w, items[j]) \in Names
        BY <2>1, MessageNames
    <2> HIDE DEF items
    <2>5. QED
        BY <2>2, <2>3, <2>4, ScopedNames
<1> HIDE DEF base, Base
<1> HIDE DEF alone
<1> HIDE DEF Group, local
<1>7. /\ IsFiniteSet(shared) /\ IsFiniteSet(alone) /\ shared \subseteq Int
      /\ messages \subseteq Nat
    <2> HIDE DEF shared, messages
    <2>1. QED
        BY <1>2, <1>3, FS_Subset
<1>8. IsFiniteSet(used) /\ \A i \in messages \ shared : local[i] \in used
    BY <1>5, <1>7, FiniteImage
<1>9. Colliding(messages, local) \subseteq shared
    OBVIOUS
<1> HIDE DEF used, shared, messages
<1>10. \A i \in shared : rank[i] \in [1 .. 2 -> Nat]
    <2> SUFFICES ASSUME NEW i \in shared PROVE rank[i] \in [1 .. 2 -> Nat]
        OBVIOUS
    <2>1. FirstOf(messages, local, i) \in Nat /\ ts[i].proto \in Nat
        BY <1>3, <1>4, <1>7, FirstIsNumber
    <2>2. rank[i] = <<FirstOf(messages, local, i), ts[i].proto>>
        OBVIOUS
    <2> HIDE DEF rank
    <2>3. QED
        BY <2>1, <2>2
<1> HIDE DEF rank
<1>11. IsListing(order, shared)
    BY <1>7, <1>10, InOrderLists
<1> HIDE DEF order, q
<1>12. RenamesIn(messages, local, shared, order, base, used, Pascal, q)
    BY <1>1, <1>3, <1>6, <1>8, <1>9, <1>11 DEF RenamesIn
<1>13. \A i \in S : q[i] \in Names
    <2>1. \A i \in shared : q[i] \in Names
        BY <1>12, RenamedApart
    <2>2. \A i \in S \ shared : q[i] = local[i]
        BY <1>1
    <2>3. QED
        BY <1>4, <2>1, <2>2
<1>14. \A i, j \in messages : q[i] = q[j] => i = j
    BY <1>12, RenamedApart
<1>15. QED
    BY <1>13, <1>14 DEF q, messages

\* Enums of one name in a database, or of the name of a model, are renamed.
LEMMA EnumsNamedApart ==
    ASSUME NEW w, NEW ts, AreTables(ts), NEW es, EnumsFit(w, es), IsInput(w),
           NEW db, NEW S, S \subseteq DOMAIN es, \A i \in S : es[i].db = db
    PROVE  /\ \A i \in S : /\ QualifiedEnum(ts, es, S, i) \in Names
                            /\ QualifiedEnum(ts, es, S, i) \notin ModelsOf(ts, db)
           /\ \A i, j \in S : QualifiedEnum(ts, es, S, i) = QualifiedEnum(ts, es, S, j) => i = j
<1> DEFINE name == [i \in S |-> es[i].name]
           models == ModelsOf(ts, db)
           meets == {i \in S : name[i] \in models}
           shared == Colliding(S, name) \cup meets
           names == {name[i] : i \in shared}
           schema == [i \in shared |-> es[i].schema]
           schemas == {es[i].schema : i \in shared}
           rank == [i \in shared |->
                      <<Rank(name[i], names), Rank(es[i].schema, schemas), es[i].proto>>]
           order == InOrder(shared, rank)
           base == [i \in shared |-> Join(PascalGo(SchemaDomain(es[i].schema)), name[i])]
           others == {name[i] : i \in S \ shared}
           used == models \cup others
           q == [i \in S |-> QualifiedEnum(ts, es, S, i)]
<1>0. \A i \in S : QualifiedEnum(ts, es, S, i) = IF i \in shared THEN Assign(order, base, used, Pascal)[i] ELSE name[i]
    <2> DEFINE Called(taken, i) ==
                 LET same == Colliding(S, name) \cup {j \in S : name[j] \in taken}
                     called == {name[j] : j \in same}
                     founded == {es[j].schema : j \in same}
                     first == InOrder(same, [j \in same |->
                                <<Rank(name[j], called), Rank(es[j].schema, founded), es[j].proto>>])
                     scoped == [j \in same |-> Join(PascalGo(SchemaDomain(es[j].schema)), name[j])]
                     known == taken \cup {name[j] : j \in S \ same}
                 IN  IF i \in same THEN Assign(first, scoped, known, Pascal)[i] ELSE name[i]
    <2> SUFFICES ASSUME NEW i \in S
                 PROVE  QualifiedEnum(ts, es, S, i)
                          = IF i \in shared THEN Assign(order, base, used, Pascal)[i] ELSE name[i]
        OBVIOUS
    <2>1. QualifiedEnum(ts, es, S, i) = Called(ModelsOf(ts, es[i].db), i)
        BY DEF QualifiedEnum
    <2>2. Called(models, i) = IF i \in shared THEN Assign(order, base, used, Pascal)[i] ELSE name[i]
        OBVIOUS
    <2> HIDE DEF Called
    <2>3. Called(ModelsOf(ts, es[i].db), i) = Called(models, i)
        OBVIOUS
    <2>4. QED
        BY <2>1, <2>2, <2>3
<1>1. \A i \in S : q[i] = IF i \in shared THEN Assign(order, base, used, Pascal)[i] ELSE name[i]
    BY <1>0
<1>2. IsFiniteSet(S) /\ S \subseteq Nat
    BY GroupIsFinite DEF EnumsFit
<1>3. shared \subseteq S /\ Colliding(S, name) \subseteq shared /\ meets \subseteq shared
    BY DEF Colliding
<1>4. \A i \in S : name[i] \in Names /\ es[i].proto \in Nat /\ es[i].schema \in Names
    <2>1. \A i \in S : IsEnum(w, es[i])
        BY DEF EnumsFit
    <2>2. \A k \in DOMAIN w.enums : k \in Nat
        BY EnumNames
    <2>3. QED
        BY <2>1, <2>2 DEF IsEnum
<1>5. schemas = {schema[i] : i \in shared}
    OBVIOUS
<1>6. \A i \in S \ shared : name[i] \notin models
    OBVIOUS
<1>7. IsFiniteSet(models)
    <2> DEFINE T == {j \in DOMAIN ts : ts[j].db = db}
               model == [i \in T |-> ts[i].model]
    <2>1. T \subseteq DOMAIN ts
        OBVIOUS
    <2>2. models = {model[i] : i \in T}
        BY DEF ModelsOf
    <2> HIDE DEF T, model
    <2>3. IsFiniteSet(T)
        BY <2>1, GroupIsFinite DEF AreTables
    <2>4. IsFiniteSet({model[i] : i \in T})
        BY <2>3, FiniteImage
    <2>5. QED
        BY <2>2, <2>4
<1> HIDE DEF schemas, models
<1> HIDE DEF name, schema, shared, meets
<1>8. \A i \in shared : base[i] \in Names
    <2> SUFFICES ASSUME NEW i \in shared PROVE base[i] \in Names
        OBVIOUS
    <2>1. PascalGo(SchemaDomain(es[i].schema)) \in Names /\ name[i] \in Names
        BY <1>3, <1>4, DomainNames, PascalNames
    <2>2. QED
        BY <2>1, JoinNames
<1> HIDE DEF base
<1>9. IsFiniteSet(shared) /\ IsFiniteSet(S \ shared) /\ shared \subseteq Int
    BY <1>2, <1>3, FS_Subset
<1>10. IsFiniteSet(others) /\ \A i \in S \ shared : name[i] \in others
    BY <1>9, FiniteImage
<1>11. IsFiniteSet(names) /\ IsFiniteSet(schemas)
    BY <1>5, <1>9, FiniteImage
<1> HIDE DEF names, others
<1>12. IsFiniteSet(used) /\ models \subseteq used /\ \A i \in S \ shared : name[i] \in used
    BY <1>7, <1>10, FS_Union
<1> HIDE DEF used
<1>13. \A i \in shared : rank[i] \in [1 .. 3 -> Nat]
    <2> SUFFICES ASSUME NEW i \in shared PROVE rank[i] \in [1 .. 3 -> Nat]
        OBVIOUS
    <2>1. Rank(name[i], names) \in Nat /\ Rank(es[i].schema, schemas) \in Nat /\ es[i].proto \in Nat
        BY <1>3, <1>4, <1>11, RankIsNumber
    <2>2. rank[i] = <<Rank(name[i], names), Rank(es[i].schema, schemas), es[i].proto>>
        OBVIOUS
    <2> HIDE DEF rank
    <2>3. QED
        BY <2>1, <2>2
<1> HIDE DEF rank
<1>14. IsListing(order, shared)
    BY <1>9, <1>13, InOrderLists
<1> HIDE DEF order, q
<1>15. RenamesIn(S, name, shared, order, base, used, Pascal, q)
    BY <1>1, <1>3, <1>8, <1>12, <1>14 DEF RenamesIn
<1>16. \A i \in S : q[i] \in Names /\ q[i] \notin models
    <2>1. \A i \in shared : q[i] \in Names /\ q[i] \notin used
        BY <1>15, RenamedApart
    <2>2. \A i \in S \ shared : q[i] = name[i]
        BY <1>1
    <2>3. QED
        BY <1>4, <1>6, <1>12, <2>1, <2>2
<1>17. \A i, j \in S : q[i] = q[j] => i = j
    BY <1>15, RenamedApart
<1>18. QED
    BY <1>16, <1>17 DEF q, models

\* The messages of an enum's schema, by the names they have in it.
LocalsOf(ts, e) == {ts[i].local : i \in {j \in DOMAIN ts : ts[j].db = e.db /\ ts[j].schema = e.schema}}

\* An enum of that schema yields, if its name is among them.
Yielding(w, es, models, acc, i) ==
    LET item   == w.enums[es[i].proto]
        scoped == Scoped(item.path)
        base   == IF scoped = es[i].local \/ scoped \in acc.taken
                  THEN Join(PackageDomain(w, item), scoped) ELSE scoped
        q      == Fresh(base, acc.taken, Pascal)
    IN  IF IsCase(w, es[i].proto) \/ es[i].local \notin models THEN acc
        ELSE [taken |-> acc.taken \cup {q}, name |-> [acc.name EXCEPT ![i] = q]]

\* g goes through the enums in order.
YieldsOn(w, es, models, order, first, g, n) ==
    g = [k \in 0 .. n |-> IF k = 0 THEN first ELSE Yielding(w, es, models, g[k - 1], order[k])]

\* There is such a function.
LEMMA EnumsYieldOn ==
    ASSUME NEW w, NEW es, NEW models, NEW order, NEW first, NEW m \in Nat
    PROVE  \E g : YieldsOn(w, es, models, order, first, g, m)
<1> DEFINE Fits(g, k) == YieldsOn(w, es, models, order, first, g, k)
           On(acc, k) == Yielding(w, es, models, acc, order[k])
           T == {k \in 0 .. m : \E g : Fits(g, k)}
<1>0. \A g, k : Fits(g, k) <=> g = [n \in 0 .. k |-> IF n = 0 THEN first ELSE On(g[n - 1], n)]
    BY DEF YieldsOn
<1> HIDE DEF Fits, On
<1>1. 0 \in T
    <2>1. 0 .. 0 = {0}
        OBVIOUS
    <2>2. Fits([n \in 0 .. 0 |-> first], 0)
        BY <1>0, <2>1
    <2>3. QED
        BY <2>2
<1>2. ASSUME NEW k \in (0 + 1) .. m, k - 1 \in T PROVE k \in T
    <2>1. PICK g : Fits(g, k - 1)
        BY <1>2
    <2>2. g = [n \in 0 .. (k - 1) |-> IF n = 0 THEN first ELSE On(g[n - 1], n)]
        BY <1>0, <2>1
    <2> DEFINE h == [n \in 0 .. k |-> IF n = k THEN On(g[k - 1], k) ELSE g[n]]
    <2>3. \A n \in 0 .. k : h[n] = IF n = 0 THEN first ELSE On(h[n - 1], n)
        <3> SUFFICES ASSUME NEW n \in 0 .. k PROVE h[n] = IF n = 0 THEN first ELSE On(h[n - 1], n)
            OBVIOUS
        <3>1. CASE n = k
            BY <1>2, <3>1
        <3>2. CASE n # k
            <4>1. n \in 0 .. (k - 1) /\ (n # 0 => n - 1 \in 0 .. (k - 1) /\ n - 1 # k)
                BY <3>2
            <4>2. g[n] = IF n = 0 THEN first ELSE On(g[n - 1], n)
                BY <2>2, <4>1
            <4>3. h[n] = g[n] /\ (n # 0 => n - 1 \in 0 .. k /\ h[n - 1] = g[n - 1])
                BY <3>2, <4>1
            <4>4. QED
                BY <4>2, <4>3
        <3>3. QED
            BY <3>1, <3>2
    <2>4. Fits(h, k)
        BY <1>0, <2>3
    <2> HIDE DEF h
    <2>5. QED
        BY <1>2, <2>4
<1> HIDE DEF T
<1>3. 0 .. m \subseteq T
    BY <1>1, <1>2, StepByStep
<1>4. QED
    BY <1>3 DEF T, Fits

\* The first n in order have yielded: a name is the enum's own or a new one.
HaveYielded(w, es, models, order, S, acc, n) ==
    /\ DOMAIN acc = {"taken", "name"} /\ DOMAIN acc.name = S
    /\ IsFiniteSet(acc.taken) /\ models \subseteq acc.taken
    /\ \A i \in S : acc.name[i] = es[i].local \/ (acc.name[i] \in Names /\ acc.name[i] \notin models)
    /\ \A k \in 1 .. n : ~IsCase(w, es[order[k]].proto) => acc.name[order[k]] \notin models

\* So it stays, whoever yields next.
LEMMA YieldedSoFar ==
    ASSUME NEW w, IsInput(w), NEW es, EnumsFit(w, es), NEW models,
           NEW S, S \subseteq DOMAIN es, NEW m \in Nat, NEW order, order \in [1 .. m -> S],
           NEW first, HaveYielded(w, es, models, order, S, first, 0),
           NEW g, YieldsOn(w, es, models, order, first, g, m)
    PROVE  HaveYielded(w, es, models, order, S, g[m], m)
<1> DEFINE T == {k \in 0 .. m : HaveYielded(w, es, models, order, S, g[k], k)}
<1>0. \A k \in 0 .. m : g[k] = IF k = 0 THEN first ELSE Yielding(w, es, models, g[k - 1], order[k])
    BY DEF YieldsOn
<1>1. 0 \in T
    BY <1>0
<1>2. ASSUME NEW k \in (0 + 1) .. m, k - 1 \in T PROVE k \in T
    <2>1. PICK acc : acc = g[k - 1]
        OBVIOUS
    <2>2. HaveYielded(w, es, models, order, S, acc, k - 1)
        BY <1>2, <2>1
    <2>3. PICK i \in S : i = order[k]
        BY <1>2
    <2>4. g[k] = Yielding(w, es, models, acc, i) /\ k \in 0 .. m
        BY <1>0, <1>2, <2>1, <2>3
    <2>5. \A l \in 1 .. k : l = k \/ l \in 1 .. k - 1
        OBVIOUS
    <2> DEFINE item == w.enums[es[i].proto]
               scoped == Scoped(item.path)
               base == IF scoped = es[i].local \/ scoped \in acc.taken
                       THEN Join(PackageDomain(w, item), scoped) ELSE scoped
               q == Fresh(base, acc.taken, Pascal)
               stays == IsCase(w, es[i].proto) \/ es[i].local \notin models
    <2>6. g[k] = IF stays THEN acc
                 ELSE [taken |-> acc.taken \cup {q}, name |-> [acc.name EXCEPT ![i] = q]]
        BY <2>4 DEF Yielding
    <2>7. base \in Names
        <3>1. es[i].proto \in DOMAIN w.enums
            BY DEF EnumsFit, IsEnum
        <3>2. scoped \in Names /\ PackageDomain(w, item) \in Names
            BY <3>1, EnumNames
        <3>3. QED
            BY <3>2, JoinNames
    <2> HIDE DEF base
    <2>8. q \in Names /\ q \notin acc.taken
        BY <2>2, <2>7, FreshIsNew DEF HaveYielded
    <2> HIDE DEF q
    <2>9. HaveYielded(w, es, models, order, S, g[k], k)
        <3>1. CASE stays
            BY <2>2, <2>3, <2>5, <2>6, <3>1 DEF HaveYielded
        <3>2. CASE ~stays
            <4> DEFINE now == [acc.name EXCEPT ![i] = q]
            <4>1. g[k] = [taken |-> acc.taken \cup {q}, name |-> now]
                BY <2>6, <3>2
            <4>2. /\ DOMAIN now = S /\ now[i] = q
                  /\ \A j \in S : j # i => now[j] = acc.name[j]
                BY <2>2 DEF HaveYielded
            <4> HIDE DEF now, stays
            <4>3. IsFiniteSet(acc.taken \cup {q}) /\ models \subseteq acc.taken \cup {q} /\ q \notin models
                BY <2>2, <2>8, FS_AddElement DEF HaveYielded
            <4>4. /\ DOMAIN g[k] = {"taken", "name"} /\ g[k].taken = acc.taken \cup {q} /\ g[k].name = now
                BY <4>1
            <4>5. \A j \in S : now[j] = es[j].local \/ (now[j] \in Names /\ now[j] \notin models)
                BY <2>2, <2>8, <4>2, <4>3 DEF HaveYielded
            <4>6. \A l \in 1 .. k : ~IsCase(w, es[order[l]].proto) => now[order[l]] \notin models
                <5> SUFFICES ASSUME NEW l \in 1 .. k, ~IsCase(w, es[order[l]].proto)
                             PROVE  now[order[l]] \notin models
                    OBVIOUS
                <5>1. CASE order[l] = i
                    BY <4>2, <4>3, <5>1
                <5>2. CASE order[l] # i
                    <6>1. l \in 1 .. k - 1 /\ order[l] \in S
                        BY <1>2, <2>3, <5>2
                    <6>2. QED
                        BY <2>2, <4>2, <5>2, <6>1 DEF HaveYielded
                <5>3. QED
                    BY <5>1, <5>2
            <4>7. QED
                BY <4>2, <4>3, <4>4, <4>5, <4>6 DEF HaveYielded
        <3>3. QED
            BY <3>1, <3>2
    <2>10. QED
        BY <2>4, <2>9
<1> HIDE DEF T
<1>3. 0 .. m \subseteq T
    BY <1>1, <1>2, StepByStep
<1>4. QED
    BY <1>3 DEF T

\* The name of an enum is not that of a message in its schema.
LEMMA EnumHasYielded ==
    ASSUME NEW w, IsInput(w), NEW ts, AreTables(ts), NEW es, EnumsFit(w, es), NEW at \in DOMAIN es
    PROVE  LET q == EnumLocalNames(w, ts, es, at)[at]
           IN  /\ q = es[at].local \/ q \in Names
               /\ ~IsCase(w, es[at].proto) => q \notin LocalsOf(ts, es[at])
<1> DEFINE S == InSchema(es, at)
           models == LocalsOf(ts, es[at])
           own == [i \in S |-> es[i].local]
           owned == {own[i] : i \in S}
           order == Ascending(S)
           first == [taken |-> models \cup owned, name |-> own]
           g == CHOOSE f : YieldsOn(w, es, models, order, first, f, Len(order))
<1>1. EnumLocalNames(w, ts, es, at) = g[Len(order)].name
    BY Zenon DEF EnumLocalNames, YieldsOn, Yielding, LocalsOf
<1>2. S \subseteq DOMAIN es /\ at \in S
    BY DEF InSchema
<1> HIDE DEF S, g
<1>3. IsFiniteSet(S) /\ S \subseteq Int
    BY <1>2, GroupIsFinite DEF EnumsFit
<1>4. IsListing(order, S)
    BY <1>3, AscendingLists
<1> HIDE DEF order
<1>5. PICK m \in Nat : order \in [1 .. m -> S] /\ \A i \in S : \E k \in 1 .. m : order[k] = i
    BY <1>4 DEF IsListing
<1>6. Len(order) = m
    <2>1. order = [k \in 1 .. m |-> order[k]]
        BY <1>5
    <2>2. QED
        BY <2>1, FunctionIsList
<1>7. IsFiniteSet(models)
    <2> DEFINE C == {j \in DOMAIN ts : ts[j].db = es[at].db /\ ts[j].schema = es[at].schema}
               local == [i \in C |-> ts[i].local]
    <2>1. C \subseteq DOMAIN ts
        OBVIOUS
    <2>2. models = {local[i] : i \in C}
        BY DEF LocalsOf
    <2> HIDE DEF C, local, models
    <2>3. IsFiniteSet(C)
        BY <2>1, GroupIsFinite DEF AreTables
    <2>4. QED
        BY <2>2, <2>3, FiniteImage
<1>8. IsFiniteSet(owned) /\ DOMAIN own = S /\ \A i \in S : own[i] = es[i].local
    <2>1. DOMAIN own = S /\ \A i \in S : own[i] = es[i].local
        OBVIOUS
    <2> HIDE DEF own
    <2>2. IsFiniteSet({own[i] : i \in S})
        BY <1>3, FiniteImage
    <2>3. QED
        BY <2>1, <2>2
<1> HIDE DEF models, own
<1>9. HaveYielded(w, es, models, order, S, first, 0)
    <2>1. IsFiniteSet(models \cup owned)
        BY <1>7, <1>8, FS_Union
    <2> HIDE DEF owned
    <2>2. QED
        BY <1>8, <2>1 DEF HaveYielded
<1> HIDE DEF first
<1>10. YieldsOn(w, es, models, order, first, g, m)
    BY <1>6, EnumsYieldOn DEF g
<1>11. HaveYielded(w, es, models, order, S, g[m], m)
    BY <1>2, <1>5, <1>9, <1>10, YieldedSoFar
<1>12. PICK k \in 1 .. m : order[k] = at
    BY <1>2, <1>5
<1>13. QED
    BY <1>1, <1>2, <1>6, <1>11, <1>12 DEF HaveYielded, models

LocalsApart(ts) ==
    \A i, j \in DOMAIN ts :
        /\ ts[i].db = ts[j].db /\ ts[i].schema = ts[j].schema /\ ts[i].local = ts[j].local
        /\ ts[i].proto # 0 /\ ts[j].proto # 0
        => i = j
NamedApart(ts) ==
    \A i, j \in DOMAIN ts :
        ts[i].db = ts[j].db /\ ts[i].schema = ts[j].schema /\ ts[i].name = ts[j].name => i = j
ModelsApart(ts) ==
    \A i, j \in DOMAIN ts : ts[i].db = ts[j].db /\ ts[i].model = ts[j].model => i = j
EnumsYield(w, ts, es) ==
    \A e \in DOMAIN es, i \in DOMAIN ts :
        es[e].db = ts[i].db /\ es[e].schema = ts[i].schema /\ ~IsCase(w, es[e].proto)
        => es[e].local # ts[i].local
EnumsApart(ts, es) ==
    /\ \A e, f \in DOMAIN es : es[e].db = es[f].db /\ es[e].name = es[f].name => e = f
    /\ \A e, f \in DOMAIN es :
          es[e].db = es[f].db /\ es[e].sql = es[f].sql
          => SnakeCase(es[e].name) = SnakeCase(es[f].name)
    /\ \A e \in DOMAIN es, i \in DOMAIN ts : es[e].db = ts[i].db => es[e].name # ts[i].model

\* What a step leaves of them.
KeepsLocals(ts, us) ==
    /\ DOMAIN us = DOMAIN ts
    /\ \A i \in DOMAIN ts : /\ us[i].db = ts[i].db /\ us[i].schema = ts[i].schema
                            /\ us[i].proto = ts[i].proto /\ us[i].local = ts[i].local
KeepsTableNames(ts, us) == \A i \in DOMAIN ts : us[i].name = ts[i].name
KeepsModels(ts, us) == \A i \in DOMAIN ts : us[i].model = ts[i].model

\* Names that nobody changes stay apart.
LEMMA KeptApart ==
    ASSUME NEW ts, NEW us, KeepsLocals(ts, us), NEW w, NEW es
    PROVE  /\ LocalsApart(ts) => LocalsApart(us)
           /\ EnumsYield(w, ts, es) => EnumsYield(w, us, es)
           /\ KeepsTableNames(ts, us) /\ NamedApart(ts) => NamedApart(us)
           /\ KeepsModels(ts, us) /\ ModelsApart(ts) => ModelsApart(us)
           /\ KeepsModels(ts, us) /\ EnumsApart(ts, es) => EnumsApart(us, es)
<1>1. LocalsApart(ts) => LocalsApart(us)
    BY DEF KeepsLocals, LocalsApart
<1>2. EnumsYield(w, ts, es) => EnumsYield(w, us, es)
    BY DEF KeepsLocals, EnumsYield
<1>3. KeepsTableNames(ts, us) /\ NamedApart(ts) => NamedApart(us)
    BY DEF KeepsLocals, KeepsTableNames, NamedApart
<1>4. KeepsModels(ts, us) /\ ModelsApart(ts) => ModelsApart(us)
    BY DEF KeepsLocals, KeepsModels, ModelsApart
<1>5. KeepsModels(ts, us) /\ EnumsApart(ts, es) => EnumsApart(us, es)
    BY DEF KeepsLocals, KeepsModels, EnumsApart
<1>6. QED
    BY <1>1, <1>2, <1>3, <1>4, <1>5

\* The messages of a schema get names of their own.
LEMMA LocalsPass ==
    ASSUME NEW w, IsInput(w), NEW ts, AreTables(ts),
           \A i \in DOMAIN ts : ts[i].proto # 0 => ts[i].proto \in DOMAIN w.msgs
    PROVE  Passed(ts, QualifyLocalModels(w, ts)) /\ LocalsApart(QualifyLocalModels(w, ts))
<1> DEFINE us == QualifyLocalModels(w, ts)
           q(i) == LocalName(w, ts, InSchema(ts, i), i)
<1>1. us = [i \in DOMAIN ts |-> Renamed(ts[i], q(i))]
    BY DEF QualifyLocalModels
<1>2. /\ us = [i \in DOMAIN ts |-> us[i]] /\ DOMAIN us = DOMAIN ts
      /\ \A i \in DOMAIN ts : us[i] = Renamed(ts[i], q(i))
    BY <1>1
<1> HIDE DEF us
<1>3. /\ \A i \in DOMAIN ts : InSchema(ts, i) \subseteq DOMAIN ts /\ i \in InSchema(ts, i)
      /\ \A i, j \in DOMAIN ts : ts[i].db = ts[j].db /\ ts[i].schema = ts[j].schema
                                 => InSchema(ts, i) = InSchema(ts, j)
    BY DEF InSchema
<1>4. \A i \in DOMAIN ts : IsTable(ts[i])
    BY DEF AreTables
<1>5. ASSUME NEW i \in DOMAIN ts PROVE q(i) \in Names
    BY <1>3, LocalsGiven
<1>6. \A i \in DOMAIN ts : Grows(ts[i], us[i]) /\ us[i].local = q(i)
    <2> SUFFICES ASSUME NEW i \in DOMAIN ts PROVE Grows(ts[i], us[i]) /\ us[i].local = q(i)
        OBVIOUS
    <2>1. q(i) \in Names /\ us[i] = Renamed(ts[i], q(i)) /\ IsTable(ts[i])
        BY <1>2, <1>4, <1>5
    <2> HIDE DEF q
    <2>2. QED
        BY <2>1, RenamedGrows
<1>7. Passed(ts, us)
    BY <1>2, <1>6, EachPasses
<1>8. LocalsApart(us)
    <2> SUFFICES ASSUME NEW i \in DOMAIN ts, NEW j \in DOMAIN ts, us[i].db = us[j].db,
                        us[i].schema = us[j].schema, us[i].local = us[j].local,
                        us[i].proto # 0, us[j].proto # 0
                 PROVE  i = j
        BY <1>2 DEF LocalsApart
    <2>1. /\ ts[i].db = ts[j].db /\ ts[i].schema = ts[j].schema /\ ts[i].proto # 0 /\ ts[j].proto # 0
          /\ q(i) = q(j)
        BY <1>6 DEF Grows, Same
    <2>2. PICK S : S = InSchema(ts, i) /\ S = InSchema(ts, j) /\ S \subseteq DOMAIN ts /\ i \in S /\ j \in S
        BY <1>3, <2>1
    <2>3. LocalName(w, ts, S, i) = LocalName(w, ts, S, j)
        BY <2>1, <2>2
    <2>4. QED
        BY <2>1, <2>2, <2>3, LocalsGiven
<1>9. QED
    BY <1>7, <1>8 DEF us

\* The names of tables lose the schema's.
LEMMA DeStutterKeeps ==
    ASSUME NEW ts, AreTables(ts), NEW layout
    PROVE  KeepsLocals(ts, DeStutterTables(layout, ts))
<1> DEFINE us == DeStutterTables(layout, ts)
<1>1. \/ us = ts
      \/ us = [i \in DOMAIN ts |->
                  IF ts[i].schema = <<"public">> THEN ts[i]
                  ELSE [ts[i] EXCEPT !.name = DeStutteredNames(layout, ts, i)[i]]]
    BY DEF DeStutterTables
<1> HIDE DEF us
<1>2. DOMAIN us = DOMAIN ts /\ \A i \in DOMAIN ts :
            \E name : us[i] = ts[i] \/ us[i] = [ts[i] EXCEPT !.name = name]
    BY <1>1
<1>3. QED
    BY <1>2 DEF KeepsLocals, AreTables, IsTable, TableFields, us

\* The tables of a schema are told apart.
LEMMA TableNamesPass ==
    ASSUME NEW ts, AreTables(ts)
    PROVE  KeepsLocals(ts, DedupeTableNames(ts)) /\ NamedApart(DedupeTableNames(ts))
<1> DEFINE us == DedupeTableNames(ts)
           q(i) == DedupedName(ts, InSchema(ts, i), i)
<1>1. us = [i \in DOMAIN ts |-> [ts[i] EXCEPT !.name = q(i)]]
    BY DEF DedupeTableNames
<1>2. DOMAIN us = DOMAIN ts /\ \A i \in DOMAIN ts : us[i] = [ts[i] EXCEPT !.name = q(i)]
    BY <1>1
<1> HIDE DEF us, q
<1>3. KeepsLocals(ts, us) /\ \A i \in DOMAIN ts : us[i].name = q(i)
    BY <1>2 DEF KeepsLocals, AreTables, IsTable, TableFields
<1>4. NamedApart(us)
    <2> SUFFICES ASSUME NEW i \in DOMAIN ts, NEW j \in DOMAIN ts, ts[i].db = ts[j].db,
                        ts[i].schema = ts[j].schema, q(i) = q(j)
                 PROVE  i = j
        BY <1>2, <1>3 DEF NamedApart, KeepsLocals
    <2>1. PICK S : S = InSchema(ts, i) /\ S = InSchema(ts, j) /\ S \subseteq DOMAIN ts /\ i \in S /\ j \in S
        BY DEF InSchema
    <2>2. DedupedName(ts, S, i) = DedupedName(ts, S, j)
        BY <2>1 DEF q
    <2>3. QED
        BY <2>1, <2>2, DedupedApart
<1>5. QED
    BY <1>3, <1>4 DEF us

\* The models of a database are.
LEMMA ModelsPass ==
    ASSUME NEW ts, AreTables(ts)
    PROVE  /\ KeepsLocals(ts, QualifyModels(ts)) /\ KeepsTableNames(ts, QualifyModels(ts))
           /\ ModelsApart(QualifyModels(ts)) /\ Passed(ts, QualifyModels(ts))
<1> DEFINE us == QualifyModels(ts)
           q(i) == QualifiedModel(ts, InDatabase(ts, i), i)
<1>1. us = [i \in DOMAIN ts |-> [ts[i] EXCEPT !.model = q(i)]]
    BY DEF QualifyModels
<1>2. /\ us = [i \in DOMAIN ts |-> us[i]] /\ DOMAIN us = DOMAIN ts
      /\ \A i \in DOMAIN ts : us[i] = [ts[i] EXCEPT !.model = q(i)]
    BY <1>1
<1>3. \A i \in DOMAIN ts : q(i) \in Names
    <2> SUFFICES ASSUME NEW i \in DOMAIN ts PROVE q(i) \in Names
        OBVIOUS
    <2>1. InDatabase(ts, i) \subseteq DOMAIN ts /\ i \in InDatabase(ts, i)
        BY DEF InDatabase
    <2>2. QED
        BY <2>1, QualifiedApart
<1> HIDE DEF us, q
<1>4. /\ KeepsLocals(ts, us) /\ KeepsTableNames(ts, us)
      /\ \A i \in DOMAIN ts : us[i].model = q(i)
    BY <1>2 DEF KeepsLocals, KeepsTableNames, AreTables, IsTable, TableFields
<1>5. ModelsApart(us)
    <2> SUFFICES ASSUME NEW i \in DOMAIN ts, NEW j \in DOMAIN ts, ts[i].db = ts[j].db, q(i) = q(j)
                 PROVE  i = j
        BY <1>2, <1>4 DEF ModelsApart, KeepsLocals
    <2>1. PICK S : S = InDatabase(ts, i) /\ S = InDatabase(ts, j) /\ S \subseteq DOMAIN ts /\ i \in S /\ j \in S
        BY DEF InDatabase
    <2>2. QualifiedModel(ts, S, i) = QualifiedModel(ts, S, j)
        BY <2>1 DEF q
    <2>3. QED
        BY <2>1, <2>2, QualifiedApart
<1>6. \A i \in DOMAIN ts : Grows(ts[i], us[i])
    BY <1>2, <1>3 DEF AreTables, IsTable, Grows, Same, TableFields
<1>7. Passed(ts, us)
    BY <1>2, <1>6, EachPasses
<1>8. QED
    BY <1>4, <1>5, <1>7 DEF us

\* No two of some names are cut to the same.
FitsApart(names) == \A a, b \in names : FitIdentifier(a) = FitIdentifier(b) => a = b

\* Names that are cut stay apart, if no two are cut to the same.
LEMMA FittedApart ==
    ASSUME NEW ts, AreTables(ts), FitsApart({ts[i].name : i \in DOMAIN ts}),
           NEW us, DOMAIN us = DOMAIN ts,
           \A i \in DOMAIN ts : us[i] = [FitTable(ts[i]) EXCEPT !.keys = <<>>]
    PROVE  /\ KeepsLocals(ts, us) /\ KeepsModels(ts, us)
           /\ NamedApart(ts) => NamedApart(us)
<1>1. ASSUME NEW i \in DOMAIN ts
      PROVE  /\ us[i].db = ts[i].db /\ us[i].schema = ts[i].schema
             /\ us[i].proto = ts[i].proto /\ us[i].local = ts[i].local
             /\ us[i].model = ts[i].model /\ us[i].name = FitIdentifier(ts[i].name)
    <2>1. DOMAIN ts[i] = TableFields
        BY DEF AreTables, IsTable
    <2>2. PICK columns, xs :
             FitTable(ts[i]) = [ts[i] EXCEPT !.name = FitIdentifier(ts[i].name), !.columns = columns, !.indexes = xs]
        BY Zenon DEF FitTable
    <2>3. us[i] = [FitTable(ts[i]) EXCEPT !.keys = <<>>]
        OBVIOUS
    <2>4. QED
        BY <2>1, <2>2, <2>3 DEF TableFields
<1>2. KeepsLocals(ts, us) /\ KeepsModels(ts, us)
    BY <1>1 DEF KeepsLocals, KeepsModels
<1>3. NamedApart(ts) => NamedApart(us)
    BY <1>1 DEF FitsApart, NamedApart
<1>4. QED
    BY <1>2, <1>3

\* The enums of the oneofs follow their messages.
LEMMA RenamedCases ==
    ASSUME NEW w, IsInput(w), NEW ts, IsList(ts), NEW us, AreTables(us), DOMAIN us = DOMAIN ts,
           NEW es, EnumsFit(w, es)
    PROVE  EnumsFit(w, RenameOneofCases(w, ts, us, es))
<1> DEFINE Owner(e) == {i \in DOMAIN ts :
                           /\ ts[i].db = e.db /\ ts[i].schema = e.schema
                           /\ IsCase(w, e.proto) /\ ts[i].proto = w.enums[e.proto].msg
                           /\ ts[i].local # us[i].local}
           Recased(e) ==
               IF Owner(e) = {} THEN e
               ELSE Spelled(e, CaseName(us[Min(Owner(e))].local, w.enums[e.proto].oneof))
           named == [k \in DOMAIN es |-> Recased(es[k])]
<1>1. RenameOneofCases(w, ts, us, es) = named
    BY DEF RenameOneofCases
<1>2. ASSUME NEW e, IsEnum(w, e) PROVE IsEnum(w, Recased(e))
    <2>1. Owner(e) \subseteq DOMAIN ts
        OBVIOUS
    <2>2. PICK n \in Nat : DOMAIN ts = 1 .. n
        BY ListIsFunction
    <2> HIDE DEF Owner
    <2>3. CASE Owner(e) = {}
        BY <1>2, <2>3
    <2>4. CASE Owner(e) # {}
        <3> DEFINE at == Min(Owner(e))
                   q == CaseName(us[at].local, w.enums[e.proto].oneof)
        <3>1. Owner(e) \subseteq Nat
            BY <2>1, <2>2
        <3>2. at \in DOMAIN us
            BY <2>1, <2>4, <3>1, MinIsMember
        <3>3. Recased(e) = Spelled(e, q)
            BY <2>4
        <3> HIDE DEF at
        <3>4. us[at].local \in Names
            BY <3>2 DEF AreTables, IsTable
        <3>5. w.enums[e.proto].oneof \in Names /\ <<"case">> \in Names
            BY <1>2, EnumNames, OwnPieces DEF IsEnum
        <3>6. q \in Names
            BY <3>4, <3>5, JoinNames, PascalNames DEF CaseName
        <3> HIDE DEF q, Recased
        <3>7. QED
            BY <1>2, <3>3, <3>6, SpelledIsEnum
    <2>5. QED
        BY <2>3, <2>4
<1> HIDE DEF Recased
<1>3. PICK n \in Nat : DOMAIN es = 1 .. n
    BY ListIsFunction DEF EnumsFit
<1>4. named = [k \in 1 .. n |-> named[k]] /\ \A k \in 1 .. n : IsEnum(w, named[k])
    BY <1>2, <1>3 DEF EnumsFit
<1> HIDE DEF named
<1>5. EnumsFit(w, named)
    BY <1>4, FunctionIsList DEF EnumsFit
<1>6. QED
    BY <1>1, <1>5

\* An enum that is no oneof's has not the name of a message in its schema.
LEMMA YieldedEnums ==
    ASSUME NEW w, IsInput(w), NEW ts, AreTables(ts), NEW es, EnumsFit(w, es)
    PROVE  /\ EnumsFit(w, QualifyEnumsAgainstModels(w, ts, es))
           /\ EnumsYield(w, ts, QualifyEnumsAgainstModels(w, ts, es))
<1> DEFINE q(i) == EnumLocalNames(w, ts, es, i)[i]
           us == [i \in DOMAIN es |-> IF q(i) = es[i].local THEN es[i] ELSE Spelled(es[i], q(i))]
<1>1. QualifyEnumsAgainstModels(w, ts, es) = us
    BY DEF QualifyEnumsAgainstModels
<1>2. PICK n \in Nat : DOMAIN es = 1 .. n
    BY ListIsFunction DEF EnumsFit
<1>3. us = [i \in 1 .. n |-> us[i]] /\ \A i \in 1 .. n :
         us[i] = IF q(i) = es[i].local THEN es[i] ELSE Spelled(es[i], q(i))
    BY <1>2
<1>4. ASSUME NEW i \in 1 .. n
      PROVE  /\ q(i) = es[i].local \/ q(i) \in Names
             /\ ~IsCase(w, es[i].proto) => q(i) \notin LocalsOf(ts, es[i])
    BY <1>2, EnumHasYielded
<1> HIDE DEF us, q
<1>5. \A i \in 1 .. n : /\ IsEnum(w, us[i]) /\ us[i].local = q(i) /\ us[i].db = es[i].db
                        /\ us[i].schema = es[i].schema /\ us[i].proto = es[i].proto
    BY <1>2, <1>3, <1>4, SpelledIsEnum DEF EnumsFit
<1>6. EnumsFit(w, us) /\ DOMAIN us = 1 .. n
    BY <1>3, <1>5, FunctionIsList DEF EnumsFit
<1>7. EnumsYield(w, ts, us)
    <2> SUFFICES ASSUME NEW e \in 1 .. n, NEW i \in DOMAIN ts, us[e].db = ts[i].db,
                        us[e].schema = ts[i].schema, ~IsCase(w, us[e].proto)
                 PROVE  us[e].local # ts[i].local
        BY <1>6 DEF EnumsYield
    <2>1. ts[i].local \in LocalsOf(ts, es[e])
        BY <1>5 DEF LocalsOf
    <2>2. QED
        BY <1>4, <1>5, <2>1
<1>8. QED
    BY <1>1, <1>6, <1>7

\* The enums of a database get names apart from each other's and the models'.
LEMMA EnumsPass ==
    ASSUME NEW w, IsInput(w), NEW ts, AreTables(ts), NEW es, EnumsFit(w, es),
           FitsApart({DedupeEnums(ts, es)[k].sql : k \in DOMAIN DedupeEnums(ts, es)})
    PROVE  LET us == FitEnumNames(DedupeEnums(ts, es))
           IN  /\ EnumsYield(w, ts, es) => EnumsYield(w, ts, us)
               /\ EnumsApart(ts, us)
<1> DEFINE kept == CanonicalEnums(ts, es)
           q(i) == QualifiedEnum(ts, kept, InDatabase(kept, i), i)
           named == DedupeEnums(ts, es)
           us == FitEnumNames(named)
<1>1. PICK S : S \subseteq DOMAIN es /\ kept = Picked(es, S)
    BY DEF CanonicalEnums
<1>2. /\ IsList(kept) /\ IsListing(Ascending(S), S) /\ DOMAIN kept = 1 .. Cardinality(S)
      /\ \A k \in 1 .. Cardinality(S) : kept[k] = es[Ascending(S)[k]]
    BY <1>1, PickedLists DEF EnumsFit
<1>3. \A k \in DOMAIN kept : \E i \in DOMAIN es : kept[k] = es[i]
    BY <1>1, <1>2 DEF IsListing
<1>4. EnumsFit(w, kept)
    BY <1>2, <1>3 DEF EnumsFit
<1>5. /\ named = [i \in DOMAIN kept |-> QualifyEnum(ts, kept, i)]
      /\ us = [i \in DOMAIN named |-> [named[i] EXCEPT !.sql = FitIdentifier(@), !.localSql = FitIdentifier(@)]]
    BY DEF DedupeEnums, FitEnumNames
<1> HIDE DEF kept
<1>6. ASSUME NEW i \in DOMAIN kept
      PROVE  /\ q(i) \in Names /\ q(i) \notin ModelsOf(ts, kept[i].db)
             /\ \A j \in DOMAIN kept : kept[j].db = kept[i].db /\ q(i) = q(j) => i = j
    <2> DEFINE G == InDatabase(kept, i)
    <2>1. G \subseteq DOMAIN kept /\ i \in G /\ \A j \in G : kept[j].db = kept[i].db
        BY DEF InDatabase
    <2>2. ASSUME NEW j \in DOMAIN kept, kept[j].db = kept[i].db
          PROVE  j \in G /\ q(j) = QualifiedEnum(ts, kept, G, j)
        <3>1. InDatabase(kept, j) = G /\ j \in G
            BY <2>2 DEF InDatabase
        <3> HIDE DEF G
        <3>2. QED
            BY <3>1
    <2>3. q(i) = QualifiedEnum(ts, kept, G, i)
        OBVIOUS
    <2> HIDE DEF G, q
    <2>4. PICK db : db = kept[i].db /\ \A j \in G : kept[j].db = db
        BY <2>1
    <2>5. /\ q(i) \in Names /\ q(i) \notin ModelsOf(ts, db)
          /\ \A j \in G : q(i) = QualifiedEnum(ts, kept, G, j) => i = j
        BY <1>4, <2>1, <2>3, <2>4, EnumsNamedApart
    <2>6. QED
        BY <2>2, <2>4, <2>5
<1>7. ASSUME NEW i \in DOMAIN kept
      PROVE  /\ named[i].name = q(i) /\ named[i].sql = SnakeCase(q(i)) /\ DOMAIN named[i] = EnumFields
             /\ named[i].db = kept[i].db /\ named[i].schema = kept[i].schema
             /\ named[i].proto = kept[i].proto /\ named[i].local = kept[i].local
    <2>1. named[i] = IF q(i) = kept[i].name THEN kept[i] ELSE [kept[i] EXCEPT !.name = q(i), !.sql = SnakeCase(q(i))]
        BY <1>5 DEF QualifyEnum
    <2> HIDE DEF q, named
    <2>2. IsEnum(w, kept[i])
        BY <1>4 DEF EnumsFit
    <2>3. QED
        BY <2>1, <2>2 DEF IsEnum, EnumFields
<1>8. DOMAIN named = DOMAIN kept /\ DOMAIN us = DOMAIN kept
    BY <1>5
<1> HIDE DEF named, q
<1>9. ASSUME NEW i \in DOMAIN kept
      PROVE  /\ us[i].name = q(i) /\ us[i].sql = FitIdentifier(SnakeCase(q(i)))
             /\ us[i].db = kept[i].db /\ us[i].schema = kept[i].schema
             /\ us[i].proto = kept[i].proto /\ us[i].local = kept[i].local
    <2>1. us[i] = [named[i] EXCEPT !.sql = FitIdentifier(@), !.localSql = FitIdentifier(@)]
        BY <1>5, <1>8
    <2> HIDE DEF us
    <2>2. QED
        BY <1>7, <2>1 DEF EnumFields
<1> HIDE DEF us
<1>10. \A i, j \in DOMAIN kept :
          FitIdentifier(SnakeCase(q(i))) = FitIdentifier(SnakeCase(q(j))) => SnakeCase(q(i)) = SnakeCase(q(j))
    BY <1>7, <1>8 DEF FitsApart, named
<1>11. EnumsApart(ts, us)
    <2>1. \A i, j \in DOMAIN kept : us[i].db = us[j].db /\ us[i].name = us[j].name => i = j
        BY <1>6, <1>9
    <2>0. \A i, j \in DOMAIN kept : us[i].db = us[j].db /\ us[i].sql = us[j].sql
                                    => SnakeCase(us[i].name) = SnakeCase(us[j].name)
        BY <1>9, <1>10
    <2>2. \A i \in DOMAIN kept, k \in DOMAIN ts : us[i].db = ts[k].db => us[i].name # ts[k].model
        BY <1>6, <1>9 DEF ModelsOf
    <2>3. QED
        BY <1>8, <2>0, <2>1, <2>2 DEF EnumsApart
<1>12. EnumsYield(w, ts, es) => EnumsYield(w, ts, us)
    BY <1>3, <1>8, <1>9 DEF EnumsYield
<1>13. QED
    BY <1>11, <1>12 DEF us, named

\* Every pass leaves each table what it has.
LEMMA PassesPass ==
    ASSUME NEW ts, AreTables(ts), NEW layout
    PROVE  /\ Passed(ts, DeStutterTables(layout, ts))
           /\ Passed(ts, DedupeTableNames(ts)) /\ Passed(ts, QualifyModels(ts))
           /\ Passed(ts, FitTableNames(ts))
<1>0. \A i \in DOMAIN ts : IsTable(ts[i])
    BY DEF AreTables
<1>2. Passed(ts, DeStutterTables(layout, ts))
    <2> DEFINE us == DeStutterTables(layout, ts)
    <2>1. \/ us = ts
          \/ us = [i \in DOMAIN ts |->
                      IF ts[i].schema = <<"public">> THEN ts[i]
                      ELSE [ts[i] EXCEPT !.name = DeStutteredNames(layout, ts, i)[i]]]
        BY DEF DeStutterTables
    <2> HIDE DEF us
    <2>2. CASE us = ts
        <3>1. ts = [i \in DOMAIN ts |-> ts[i]]
            BY ListIsFunction DEF AreTables
        <3>2. QED
            BY <1>0, <2>2, <3>1, GrowsSelf, EachPasses DEF us
    <2>3. CASE us = [i \in DOMAIN ts |->
                      IF ts[i].schema = <<"public">> THEN ts[i]
                      ELSE [ts[i] EXCEPT !.name = DeStutteredNames(layout, ts, i)[i]]]
        <3>1. us = [i \in DOMAIN ts |-> us[i]]
            BY <2>3
        <3>2. \A i \in DOMAIN ts : \E name : us[i] = ts[i] \/ us[i] = [ts[i] EXCEPT !.name = name]
            BY <2>3
        <3>3. \A i \in DOMAIN ts : Grows(ts[i], us[i])
            <4> SUFFICES ASSUME NEW i \in DOMAIN ts PROVE Grows(ts[i], us[i])
                OBVIOUS
            <4>1. PICK name : us[i] = ts[i] \/ us[i] = [ts[i] EXCEPT !.name = name]
                BY <3>2
            <4>2. CASE us[i] = ts[i]
                BY <1>0, <4>2, GrowsSelf
            <4>3. CASE us[i] = [ts[i] EXCEPT !.name = name]
                BY <1>0, <4>3 DEF IsTable, Grows, Same, TableFields
            <4>4. QED
                BY <4>1, <4>2, <4>3
        <3>4. QED
            BY <3>1, <3>3, EachPasses DEF us
    <2>4. QED
        BY <2>1, <2>2, <2>3
<1>3. Passed(ts, DedupeTableNames(ts))
    <2> DEFINE us == DedupeTableNames(ts)
    <2>1. us = [i \in DOMAIN ts |-> [ts[i] EXCEPT !.name = DedupedName(ts, InSchema(ts, i), i)]]
        BY DEF DedupeTableNames
    <2> HIDE DEF us
    <2>2. us = [i \in DOMAIN ts |-> us[i]]
        BY <2>1
    <2>3. \A i \in DOMAIN ts : \E name : us[i] = [ts[i] EXCEPT !.name = name]
        BY <2>1
    <2>4. \A i \in DOMAIN ts : Grows(ts[i], us[i])
        BY <1>0, <2>3, ZenonT(30) DEF IsTable, Grows, Same, TableFields
    <2>5. QED
        BY <2>2, <2>4, EachPasses DEF us
<1>4. Passed(ts, QualifyModels(ts))
    BY ModelsPass
<1>5. Passed(ts, FitTableNames(ts))
    <2> DEFINE us == FitTableNames(ts)
    <2>1. us = [i \in DOMAIN ts |-> FitTable(ts[i])]
        BY DEF FitTableNames
    <2> HIDE DEF us
    <2>2. us = [i \in DOMAIN ts |-> us[i]] /\ \A i \in DOMAIN ts : us[i] = FitTable(ts[i])
        BY <2>1
    <2>3. QED
        BY <1>0, <2>2, FittedGrows, EachPasses DEF us
<1>6. QED
    BY <1>2, <1>3, <1>4, <1>5

-----------------------------------------------------------------------------
\* The invariant

\* The parts of a build in which no key is resolved yet.
Early == {"start", "merge", "enums", "stutter", "tables", "models", "fit"}
Late == {"resolve", "final enums", "facets", "enrich", "finalize"}

\* Files that are still to merge: no message of theirs has a table.
FilesFit(w, ts, fs) ==
    /\ IsList(fs) /\ \A k \in DOMAIN fs : IsFile(w, fs[k]) /\ Untouched(ts, fs[k])
    /\ \A k, l \in DOMAIN fs : \A i \in DOMAIN fs[k].msgs, j \in DOMAIN fs[l].msgs :
          fs[k].msgs[i] = fs[l].msgs[j] => k = l

\* Keys that are still to resolve, each of a table.
PendingFits(ts, ps) ==
    IsList(ps) /\ \A n \in DOMAIN ps : /\ ps[n] = <<ps[n][1], ps[n][2]>>
                                       /\ ps[n][1] \in DOMAIN ts /\ DOMAIN ps[n][2] = KeyFields

\* The keys that a table has, in whatever list, and those that wait.
Waiting(ps, i) == {ps[n][2] : n \in {m \in DOMAIN ps : ps[m][1] = i}}
KeysOf(ts, ps, i) == AllKeys(ts[i]) \cup Waiting(ps, i)

\* The references of the table at i are keys of it, its lists those of join tables.
Owes(w, ts, ps, i) ==
    ts[i].proto # 0 =>
        \A f \in Kept(w, ts[i].proto) :
            /\ IsReference(w, ts[i].proto, f) =>
                  \E key \in KeysOf(ts, ps, i) : key.column = ColumnName(w, ts[i].proto, f)
            /\ IsJoin(w, ts[i].proto, f) =>
                  \E j \in DOMAIN ts :
                      /\ ts[j].proto = 0 /\ ts[j].field = f /\ ts[j].db = ts[i].db
                      /\ \E key \in KeysOf(ts, ps, j) : key.proto = ts[i].proto

\* Unless a reference is reported, none is unresolved and none is lost.
Accounted(w, ts, ps, reports) ==
    RefReported(reports) \/ \A i \in DOMAIN ts : ts[i].unresolved = <<>> /\ Owes(w, ts, ps, i)

\* A column that is no relation has an index of its own.
HasIndex(t, c) == \E x \in DOMAIN t.indexes : t.indexes[x].columns = <<c>>
SoftIndexed(t) ==
    /\ \A k \in DOMAIN t.external : HasIndex(t, t.external[k].column)
    /\ \A k \in DOMAIN t.unresolved : HasIndex(t, t.unresolved[k].column)

\* The table is of the type or the pattern of the key.
AnswersTo(w, t, key) ==
    IF key.type # NoType THEN ResourceType(w, t) = key.type
    ELSE key.pattern \in ToSet(ResourceOf(w, t).patterns)
AnswersIn(w, ts, S, key) == {j \in S : AnswersTo(w, ts[j], key)}

\* One table of S answers to the key, and is on the same server as home.
CertainIn(w, home, b, S, key) ==
    \E ref \in S : /\ AnswersIn(w, b.tables, S, key) = {ref} /\ key.db = b.tables[ref].db
                   /\ Colocated(home, DatabaseOf(b, key.db))

\* A constraint out of the database db has one answer, and never cascades.
Abroadof(ts, db) == {j \in DOMAIN ts : ts[j].db # db}
ExternalFits(w, b, d, db, key) ==
    /\ key.kind \in {"local", "cross database", "discovered"}
    /\ key.kind # "local" => (key.pattern # <<>> => key.onDelete # "CASCADE")
    /\ key.kind = "cross database" =>
          CertainIn(w, DatabaseOf(b, db), b, Abroadof(b.tables, db), key)
    /\ key.kind = "discovered" =>
          CertainIn(w, DatabaseOf(b, db), d, DOMAIN d.tables, key)
ExternalsFit(w, b, d) ==
    \A i \in DOMAIN b.tables : \A k \in DOMAIN b.tables[i].external :
        ExternalFits(w, b, d, b.tables[i].db, b.tables[i].external[k])

Begun == tables = <<>> /\ enums = <<>> /\ dbs = <<>> /\ embeds = <<>> /\ joins = <<>> /\ todo = <<>> /\ pending = <<>>

TablesInv ==
    /\ IsInput(world) /\ pc \in Early \cup Late \cup {"done"}
    /\ AreTables(tables) /\ Once(tables) /\ DatabasesFit(dbs, tables)
    /\ FilesFit(world, tables, todo) /\ PendingFits(tables, pending)
BuildInv ==
    /\ pc = "start" => Begun
    /\ pc \in Early => IsBuild(world, Held)
    /\ pc \in Early \ {"start", "merge"} => embeds = <<>> /\ joins = <<>>
KeysInv ==
    (pc \in Late \/ Finished) =>
        /\ Accounted(world, tables, pending, diags)
        /\ pc # "resolve" => pending = <<>>
        /\ \A i \in DOMAIN tables : SoftIndexed(tables[i]) \/ Finished
        /\ ExternalsFit(world, Run, found) /\ IsList(found.tables)
OutcomeInv ==
    /\ outcome # "" <=> pc = "done"
    /\ outcome = "accepted" => \A d \in diags : ~IsError(world.strict, d[1])

\* What a step on tables leaves as it is: how many there are and whose.
Steady(ts, us) ==
    /\ AreTables(us) /\ DOMAIN us = DOMAIN ts
    /\ \A i \in DOMAIN ts : /\ us[i].db = ts[i].db /\ us[i].proto = ts[i].proto
                            /\ us[i].value = ts[i].value /\ us[i].field = ts[i].field

\* What is known of tables, files and keys is known after such a step.
LEMMA SteadyKeeps ==
    ASSUME NEW w, NEW ts, NEW us, Steady(ts, us), NEW ds, NEW fs, NEW ps
    PROVE  /\ Once(ts) => Once(us)
           /\ DatabasesFit(ds, ts) => DatabasesFit(ds, us)
           /\ FilesFit(w, ts, fs) => FilesFit(w, us, fs)
           /\ PendingFits(ts, ps) => PendingFits(us, ps)
BY DEF Steady, Once, DatabasesFit, FilesFit, Untouched, PendingFits

\* A pass is one.
LEMMA PassIsSteady ==
    ASSUME NEW ts, NEW us, Passed(ts, us)
    PROVE  Steady(ts, us)
BY DEF Passed, AllGrow, Grows, Same, Steady

\* A build is known by its tables, requests and reports.
LEMMA SameBuild ==
    ASSUME NEW w, NEW b, IsBuild(w, b), NEW c, DOMAIN c = BuildFields, c.tables = b.tables,
           c.embeds = b.embeds, c.joins = b.joins, c.diags = b.diags, c.enums = b.enums
    PROVE  IsBuild(w, c)
BY DEF IsBuild, JoinOwed

\* Nothing is a build.
LEMMA EmptyBuild ==
    ASSUME NEW w, NEW b, DOMAIN b = BuildFields, b.tables = <<>>, b.enums = <<>>, b.embeds = <<>>,
           b.joins = <<>>
    PROVE  IsBuild(w, b)
BY ShortLists DEF IsBuild, TablesFit, EnumsFit

\* What a build holds.
LEMMA HeldFields ==
    /\ DOMAIN Held = BuildFields /\ Held.dbs = dbs /\ Held.tables = tables /\ Held.enums = enums
    /\ Held.embeds = embeds /\ Held.joins = joins /\ Held.diags = diags /\ Held.error = ""
BY DEF Held, BuildFields

\* A world whose readers are sorted is one.
LEMMA SortedInput ==
    ASSUME NEW w, IsInput(w)
    PROVE  IsInput([w EXCEPT !.readers = SortReaders(@)])
<1> DEFINE rs == SortReaders(w.readers)
           v == [w EXCEPT !.readers = rs]
<1>1. IsList(rs) /\ \A n \in DOMAIN rs : IsReader(rs[n])
    BY SortedReaders DEF IsInput
<1> HIDE DEF rs
<1>2. /\ DOMAIN v = DOMAIN w /\ v.readers = rs /\ v.files = w.files /\ v.msgs = w.msgs
      /\ v.enums = w.enums /\ v.layout = w.layout
    BY DEF IsInput
<1> HIDE DEF v
<1>3. /\ \A m : IsMessageOf(w, m) => IsMessageOf(v, m)
      /\ \A e : IsEnumOf(w, e) => IsEnumOf(v, e)
    BY <1>2 DEF IsMessageOf, IsEnumOf, InFiles
<1>4. IsInput(v)
    BY <1>1, <1>2, <1>3 DEF IsInput
<1>5. QED
    BY <1>4 DEF v, rs

\* The files of a request that are generated, or not, are files.
LEMMA PickedFiles ==
    ASSUME NEW w, IsInput(w), NEW S, S \subseteq DOMAIN w.files
    PROVE  FilesFit(w, <<>>, Picked(w.files, S))
<1> DEFINE fs == Picked(w.files, S)
           at == Ascending(S)
<1>1. /\ IsList(fs) /\ IsListing(at, S) /\ DOMAIN fs = 1 .. Cardinality(S)
      /\ \A n \in 1 .. Cardinality(S) : fs[n] = w.files[at[n]]
    BY PickedLists DEF IsInput
<1> HIDE DEF fs, at
<1>2. PICK n \in Nat : n = Cardinality(S)
    BY <1>1 DEF IsListing
<1>3. /\ \A k \in 1 .. n : at[k] \in DOMAIN w.files
      /\ \A k, l \in 1 .. n : at[k] = at[l] => k = l
    BY <1>1, <1>2 DEF IsListing
<1>4. \A k \in DOMAIN fs : IsFile(w, fs[k])
    <2> SUFFICES ASSUME NEW k \in DOMAIN fs PROVE IsFile(w, fs[k])
        OBVIOUS
    <2>1. fs[k] = w.files[at[k]] /\ at[k] \in DOMAIN w.files
        BY <1>1, <1>2, <1>3
    <2>2. QED
        BY <2>1 DEF IsInput, IsFile
<1>5. ASSUME NEW k \in DOMAIN fs, NEW l \in DOMAIN fs,
             NEW i \in DOMAIN fs[k].msgs, NEW j \in DOMAIN fs[l].msgs, fs[k].msgs[i] = fs[l].msgs[j]
      PROVE  k = l
    <2>1. fs[k] = w.files[at[k]] /\ at[k] \in DOMAIN w.files /\ fs[l] = w.files[at[l]] /\ at[l] \in DOMAIN w.files
        BY <1>1, <1>2, <1>3
    <2>2. at[k] = at[l]
        BY <1>5, <2>1 DEF IsInput
    <2>3. QED
        BY <1>1, <1>2, <1>3, <2>2
<1>6. \A k \in DOMAIN fs : Untouched(<<>>, fs[k])
    BY DEF Untouched
<1>7. FilesFit(w, <<>>, fs)
    BY <1>1, <1>4, <1>5, <1>6 DEF FilesFit
<1>8. QED
    BY <1>7 DEF fs

-----------------------------------------------------------------------------
\* The steps of the build

\* The readers are sorted and the files picked.
LEMMA BeginStep ==
    ASSUME TablesInv, BuildInv, Begin
    PROVE  TablesInv' /\ BuildInv'
<1>1. /\ tables = <<>> /\ dbs = <<>> /\ embeds = <<>> /\ joins = <<>> /\ todo = <<>> /\ pending = <<>>
      /\ enums = <<>> /\ enums' = enums /\ tables' = tables /\ dbs' = dbs /\ embeds' = embeds /\ joins' = joins /\ pending' = pending
    BY DEF Begin, BuildInv, Begun
<1>2. IsInput(world')
    <2>1. IsInput(world) /\ world' = [world EXCEPT !.readers = SortReaders(@)]
        BY DEF TablesInv, Begin
    <2>2. QED
        BY <2>1, SortedInput
<1>3. pc' \in {"merge", "done"}
    BY DEF Begin, Fail
<1>4. FilesFit(world', tables', todo')
    <2>1. CASE todo' = todo
        BY <1>1, <2>1, ShortLists DEF FilesFit
    <2>2. CASE todo' = Picked(world.files, {i \in DOMAIN world.files : world.files[i].generate})
        <3>1. world'.files = world.files
            BY DEF Begin, TablesInv, IsInput
        <3> DEFINE S == {i \in DOMAIN world.files : world.files[i].generate}
        <3>2. S \subseteq DOMAIN world'.files
            BY <3>1
        <3>3. todo' = Picked(world'.files, S)
            BY <2>2, <3>1
        <3> HIDE DEF S
        <3>4. FilesFit(world', <<>>, Picked(world'.files, S))
            BY <1>2, <3>2, PickedFiles
        <3>5. QED
            BY <1>1, <3>3, <3>4
    <2>3. QED
        BY <2>1, <2>2 DEF Begin
<1>5. IsBuild(world', Held')
    <2>1. /\ DOMAIN Held' = BuildFields /\ Held'.tables = <<>> /\ Held'.enums = <<>>
          /\ Held'.embeds = <<>> /\ Held'.joins = <<>>
        BY <1>1 DEF Held, BuildFields
    <2>2. QED
        BY <2>1, EmptyBuild
<1>6. TablesInv'
    BY <1>1, <1>2, <1>3, <1>4 DEF TablesInv, AreTables, Once, DatabasesFit, PendingFits, Early
<1>7. BuildInv'
    BY <1>3, <1>5 DEF BuildInv, Early
<1>8. QED
    BY <1>6, <1>7

\* What a step on the build as a whole keeps.
LEMMA TakeKeeps ==
    ASSUME NEW c, IsBuild(world, c), Take(c), pc \in Early, world' = world
    PROVE  IsBuild(world', Held') /\ AreTables(tables')
<1>1. /\ tables' = c.tables /\ embeds' = c.embeds /\ joins' = c.joins /\ diags' = c.diags
      /\ enums' = c.enums
    BY DEF Take
<1>2. /\ DOMAIN Held' = BuildFields /\ Held'.tables = c.tables /\ Held'.embeds = c.embeds
      /\ Held'.joins = c.joins /\ Held'.diags = c.diags /\ Held'.enums = c.enums
    BY <1>1 DEF Held, BuildFields
<1>3. IsBuild(world, Held')
    BY <1>2, SameBuild
<1>4. QED
    BY <1>1, <1>3 DEF IsBuild, TablesFit, AreTables

\* The next file is merged.
LEMMA MergeStep ==
    ASSUME TablesInv, BuildInv, MergeFile
    PROVE  /\ TablesInv' /\ BuildInv' /\ AllGrow(tables, tables')
           /\ \/ pc' = pc /\ outcome' = outcome
              \/ pc' = "done" /\ outcome' \in {"provider", "provider conflict"}
<1> DEFINE f == Head(todo)
           c == Merged(world, Held, f)
<1>1. /\ pc = "merge" /\ todo # <<>> /\ Take(c) /\ todo' = Tail(todo) /\ world' = world
      /\ pending' = pending
    BY DEF MergeFile
<1>2. IsBuild(world, Held) /\ Going(Held) /\ DatabasesFit(Held.dbs, Held.tables)
    BY <1>1, HeldFields DEF BuildInv, TablesInv, Early, Going
<1>3. /\ IsList(todo) /\ IsList(Tail(todo)) /\ 1 \in DOMAIN todo /\ f = todo[1]
      /\ \A k \in DOMAIN Tail(todo) : k + 1 \in DOMAIN todo /\ Tail(todo)[k] = todo[k + 1]
    BY <1>1, ListTail DEF TablesInv, FilesFit
<1> HIDE DEF c, f
<1>4. IsFile(world, f) /\ Untouched(tables, f) /\ IsInput(world)
    BY <1>3 DEF TablesInv, FilesFit
<1>5. MergedFits(world, Held, c, f)
    BY <1>2, <1>4, MergeFits DEF c
<1>6. /\ tables' = c.tables /\ dbs' = c.dbs /\ pc' \in {"merge", "done"}
      /\ \/ pc' = pc /\ outcome' = outcome
         \/ pc' = "done" /\ outcome' \in {"provider", "provider conflict"}
    BY <1>1, <1>5 DEF Take, Fail, MergedFits
<1>7. /\ IsBuild(world, c) /\ DatabasesFit(dbs', tables') /\ AllGrow(tables, tables')
      /\ \A i \in DOMAIN tables' : i \notin DOMAIN tables =>
            \E k \in DOMAIN f.msgs : tables'[i].proto = f.msgs[k]
      /\ Once(tables')
    <2>1. Once(tables)
        BY DEF TablesInv
    <2>2. QED
        BY <1>4, <1>5, <1>6, <2>1, HeldFields DEF MergedFits
<1>8. IsBuild(world', Held') /\ AreTables(tables')
    BY <1>1, <1>7, TakeKeeps DEF Early
<1>9. FilesFit(world', tables', todo')
    <2>1. ASSUME NEW k \in DOMAIN Tail(todo) PROVE Untouched(tables', Tail(todo)[k])
        <3>1. k + 1 \in DOMAIN todo /\ Tail(todo)[k] = todo[k + 1] /\ k + 1 # 1
            <4>1. PICK n \in Nat : DOMAIN Tail(todo) = 1 .. n
                BY <1>3, ListIsFunction
            <4>2. QED
                BY <1>3, <4>1
        <3>2. Untouched(tables, todo[k + 1])
            BY <3>1 DEF TablesInv, FilesFit
        <3>3. \A a \in DOMAIN f.msgs, e \in DOMAIN todo[k + 1].msgs : f.msgs[a] # todo[k + 1].msgs[e]
            BY <1>3, <3>1 DEF TablesInv, FilesFit
        <3>4. ASSUME NEW i \in DOMAIN tables', NEW e \in DOMAIN todo[k + 1].msgs
              PROVE  tables'[i].proto # todo[k + 1].msgs[e]
            <4>1. CASE i \in DOMAIN tables
                <5>1. tables'[i].proto = tables[i].proto
                    BY <1>7, <4>1 DEF AllGrow, Grows, Same
                <5>2. QED
                    BY <3>2, <4>1, <5>1 DEF Untouched
            <4>2. CASE i \notin DOMAIN tables
                BY <1>7, <3>3, <4>2
            <4>3. QED
                BY <4>1, <4>2
        <3>5. QED
            BY <3>1, <3>4 DEF Untouched
    <2>2. \A k, l \in DOMAIN Tail(todo) :
             \A i \in DOMAIN Tail(todo)[k].msgs, j \in DOMAIN Tail(todo)[l].msgs :
                Tail(todo)[k].msgs[i] = Tail(todo)[l].msgs[j] => k = l
        <3> SUFFICES ASSUME NEW k \in DOMAIN Tail(todo), NEW l \in DOMAIN Tail(todo),
                            NEW i \in DOMAIN Tail(todo)[k].msgs, NEW j \in DOMAIN Tail(todo)[l].msgs,
                            Tail(todo)[k].msgs[i] = Tail(todo)[l].msgs[j]
                     PROVE  k = l
            OBVIOUS
        <3>1. /\ k + 1 \in DOMAIN todo /\ Tail(todo)[k] = todo[k + 1]
              /\ l + 1 \in DOMAIN todo /\ Tail(todo)[l] = todo[l + 1]
            BY <1>3
        <3>2. k + 1 = l + 1
            BY <3>1 DEF TablesInv, FilesFit
        <3>3. PICK n \in Nat : DOMAIN Tail(todo) = 1 .. n
            BY <1>3, ListIsFunction
        <3>4. QED
            BY <3>2, <3>3
    <2>3. \A k \in DOMAIN Tail(todo) : IsFile(world, Tail(todo)[k])
        BY <1>3 DEF TablesInv, FilesFit
    <2>4. QED
        BY <1>1, <1>3, <2>1, <2>2, <2>3 DEF FilesFit
<1>10. PendingFits(tables', pending')
    BY <1>1, <1>7 DEF TablesInv, PendingFits, AllGrow
<1>11. TablesInv'
    BY <1>1, <1>4, <1>6, <1>7, <1>8, <1>9, <1>10 DEF TablesInv, Early
<1>12. BuildInv'
    BY <1>6, <1>8 DEF BuildInv, Early
<1>13. QED
    BY <1>6, <1>7, <1>11, <1>12

\* The first request to embed is taken from the queue.
LEMMA EmbedTaken ==
    ASSUME NEW w, NEW b, IsBuild(w, b), b.embeds # <<>>,
           NEW a, a = [b EXCEPT !.embeds = Tail(@)]
    PROVE  /\ IsBuild(w, a) /\ ToEmbed(w, a.tables, Head(b.embeds))
           /\ a.dbs = b.dbs /\ a.tables = b.tables /\ a.embeds = Tail(b.embeds)
           /\ a.error = b.error
<1>1. /\ DOMAIN a = BuildFields /\ a.embeds = Tail(b.embeds) /\ a.tables = b.tables
      /\ a.joins = b.joins /\ a.diags = b.diags /\ a.dbs = b.dbs /\ a.error = b.error
      /\ a.enums = b.enums
    BY DEF IsBuild, BuildFields
<1>2. /\ IsList(Tail(b.embeds)) /\ 1 \in DOMAIN b.embeds /\ Head(b.embeds) = b.embeds[1]
      /\ \A r \in DOMAIN Tail(b.embeds) : r + 1 \in DOMAIN b.embeds /\ Tail(b.embeds)[r] = b.embeds[r + 1]
    BY ListTail DEF IsBuild
<1>3. ToEmbed(w, b.tables, b.embeds[1])
    BY <1>2 DEF IsBuild
<1>4. \A r \in DOMAIN a.embeds : ToEmbed(w, a.tables, a.embeds[r])
    BY <1>1, <1>2 DEF IsBuild
<1>5. \A i, f : JoinOwed(b, i, f) => JoinOwed(a, i, f)
    BY <1>1 DEF JoinOwed
<1>6. /\ IsList(a.joins) /\ \A r \in DOMAIN a.joins : ToJoin(w, a.tables, a.joins[r])
      /\ TablesFit(w, a.tables) /\ EnumsFit(w, a.enums)
    BY <1>1 DEF IsBuild
<1>7. \A i \in DOMAIN a.tables : a.tables[i].proto # 0 =>
         \A f \in Kept(w, a.tables[i].proto) : IsJoin(w, a.tables[i].proto, f) => JoinOwed(a, i, f)
    BY <1>1, <1>5 DEF IsBuild
<1>8. IsBuild(w, a)
    BY <1>1, <1>2, <1>4, <1>6, <1>7 DEF IsBuild
<1>9. QED
    BY <1>1, <1>2, <1>3, <1>8

\* Tables of messages stay apart when one is added that was not there.
LEMMA NewOneIsOnce ==
    ASSUME NEW ts, NEW us, Once(ts), AllGrow(ts, us), NEW db, NEW m, NewOne(ts, us, db, m)
    PROVE  Once(us)
<1>1. /\ DOMAIN us = DOMAIN ts \cup {Len(ts) + 1} /\ us[Len(ts) + 1].db = db /\ us[Len(ts) + 1].proto = m
      /\ \A i \in DOMAIN ts : ~(ts[i].db = db /\ ts[i].proto = m)
    BY DEF NewOne, OneMore
<1>2. \A i \in DOMAIN ts : us[i].db = ts[i].db /\ us[i].proto = ts[i].proto
    BY DEF AllGrow, Grows, Same
<1>3. QED
    BY <1>1, <1>2 DEF Once

\* A message that its database had no table of, or a request less.
EmbedDone ==
    \/ DOMAIN tables' = DOMAIN tables /\ embeds' = Tail(embeds)
    \/ \E i \in DOMAIN tables : \E m \in DOMAIN world.msgs :
          NewOne(tables, tables', tables[i].db, m)

\* The next message is embedded.
LEMMA EmbedStep ==
    ASSUME TablesInv, BuildInv, MaterializeEmbed
    PROVE  /\ TablesInv' /\ BuildInv' /\ AllGrow(tables, tables') /\ EmbedDone
           /\ pc' = pc /\ dbs' = dbs /\ outcome' = outcome
<1> DEFINE a == [Held EXCEPT !.embeds = Tail(@)]
           r == Head(embeds)
           c == Embedded(world, a, r)
<1>1. /\ pc = "merge" /\ todo = <<>> /\ embeds # <<>> /\ Take(c) /\ todo' = todo /\ world' = world
      /\ pending' = pending
    BY DEF MaterializeEmbed
<1>2. IsBuild(world, Held)
    BY <1>1 DEF BuildInv, Early
<1>3. /\ IsBuild(world, a) /\ ToEmbed(world, a.tables, r)
      /\ a.dbs = dbs /\ a.tables = tables /\ a.embeds = Tail(embeds) /\ a.error = ""
    BY <1>1, <1>2, HeldFields, EmbedTaken, ZenonT(30)
<1> HIDE DEF a, c, r
<1>4. EmbedFits(world, a, c)
    BY <1>3, EmbeddedFits DEF TablesInv, c
<1>5. /\ IsBuild(world, c) /\ c.dbs = dbs /\ c.error = "" /\ AllGrow(tables, c.tables)
      /\ \/ DOMAIN c.tables = DOMAIN tables /\ c.embeds = Tail(embeds)
         \/ \E i \in DOMAIN tables, m \in DOMAIN world.msgs : NewOne(tables, c.tables, tables[i].db, m)
    BY <1>3, <1>4 DEF EmbedFits
<1>6. /\ tables' = c.tables /\ dbs' = dbs /\ embeds' = c.embeds /\ pc' = pc
      /\ outcome' = outcome
    BY <1>1, <1>5 DEF Take
<1>7. AllGrow(tables, tables') /\ EmbedDone
    BY <1>5, <1>6 DEF EmbedDone
<1>8. IsBuild(world', Held') /\ AreTables(tables')
    BY <1>1, <1>5, TakeKeeps DEF Early
<1>9. \A i \in DOMAIN tables : tables'[i].db = tables[i].db /\ tables'[i].proto = tables[i].proto
    BY <1>7 DEF AllGrow, Grows, Same
<1>10. Once(tables')
    <2>1. CASE DOMAIN tables' = DOMAIN tables
        BY <1>9, <2>1 DEF TablesInv, Once
    <2>2. CASE \E i \in DOMAIN tables : \E m \in DOMAIN world.msgs :
                  NewOne(tables, tables', tables[i].db, m)
        BY <1>7, <2>2, NewOneIsOnce DEF TablesInv
    <2>3. QED
        BY <1>7, <2>1, <2>2 DEF EmbedDone
<1>11. DatabasesFit(dbs', tables')
    <2>1. \A i \in DOMAIN tables' : \E j \in DOMAIN tables : tables'[i].db = tables[j].db
        <3>1. CASE DOMAIN tables' = DOMAIN tables
            BY <1>9, <3>1
        <3>2. CASE \E i \in DOMAIN tables : \E m \in DOMAIN world.msgs :
                      NewOne(tables, tables', tables[i].db, m)
            BY <1>9, <3>2 DEF NewOne, OneMore
        <3>3. QED
            BY <1>7, <3>1, <3>2 DEF EmbedDone
    <2>2. QED
        BY <1>6, <2>1 DEF TablesInv, DatabasesFit
<1>12. FilesFit(world', tables', todo') /\ PendingFits(tables', pending')
    BY <1>1, <1>7, ShortLists DEF TablesInv, PendingFits, AllGrow, FilesFit
<1>13. TablesInv'
    BY <1>1, <1>6, <1>8, <1>10, <1>11, <1>12 DEF TablesInv, Early
<1>14. BuildInv'
    BY <1>1, <1>6, <1>8 DEF BuildInv, Early
<1>15. QED
    BY <1>6, <1>7, <1>13, <1>14

\* The next join table is built, or its list reported.
LEMMA JoinStep ==
    ASSUME TablesInv, BuildInv, BuildJoin
    PROVE  /\ TablesInv' /\ BuildInv' /\ AllGrow(tables, tables')
           /\ \A j \in DOMAIN tables' : j \notin DOMAIN tables => tables'[j].proto = 0
           /\ pc' = pc /\ dbs' = dbs /\ embeds' = embeds /\ joins' = Tail(joins) /\ outcome' = outcome
<1> DEFINE a == [Held EXCEPT !.joins = Tail(@)]
           r == Head(joins)
           c == Joined(world, a, r)
<1>1. /\ pc = "merge" /\ todo = <<>> /\ joins # <<>> /\ Take(c) /\ todo' = todo /\ world' = world
      /\ pending' = pending
    BY DEF BuildJoin
<1>2. IsBuild(world, Held)
    BY <1>1 DEF BuildInv, Early
<1>3. c = Joined(world, [Held EXCEPT !.joins = Tail(@)], Head(Held.joins))
    BY HeldFields
<1> HIDE DEF a, c, r
<1>4. JoinFits(world, Held, c)
    BY <1>1, <1>2, <1>3, HeldFields, JoinedFits DEF TablesInv
<1>5. /\ IsBuild(world, c) /\ c.dbs = dbs /\ c.error = "" /\ AllGrow(tables, c.tables)
      /\ c.embeds = embeds /\ c.joins = Tail(joins)
      /\ \A j \in DOMAIN c.tables : j \notin DOMAIN tables =>
            c.tables[j].proto = 0 /\ \E i \in DOMAIN tables : c.tables[j].db = tables[i].db
    BY <1>4, HeldFields DEF JoinFits
<1>6. /\ tables' = c.tables /\ dbs' = dbs /\ embeds' = embeds /\ joins' = Tail(joins) /\ pc' = pc
      /\ outcome' = outcome
    BY <1>1, <1>5 DEF Take
<1>7. IsBuild(world', Held') /\ AreTables(tables')
    BY <1>1, <1>5, TakeKeeps DEF Early
<1>8. \A i \in DOMAIN tables : tables'[i].db = tables[i].db /\ tables'[i].proto = tables[i].proto
    BY <1>5, <1>6 DEF AllGrow, Grows, Same
<1>9. Once(tables')
    <2> SUFFICES ASSUME NEW i \in DOMAIN tables', NEW j \in DOMAIN tables',
                        tables'[i].db = tables'[j].db, tables'[i].proto = tables'[j].proto,
                        tables'[i].proto # 0
                 PROVE  i = j
        BY DEF Once
    <2>1. i \in DOMAIN tables /\ j \in DOMAIN tables
        BY <1>5, <1>6
    <2>2. Once(tables)
        BY DEF TablesInv
    <2>3. QED
        BY <1>8, <2>1, <2>2 DEF Once
<1>10. DatabasesFit(dbs', tables')
    <2>1. \A i \in DOMAIN tables' : \E j \in DOMAIN tables : tables'[i].db = tables[j].db
        BY <1>5, <1>6, <1>8
    <2>2. QED
        BY <1>6, <2>1 DEF TablesInv, DatabasesFit
<1>11. FilesFit(world', tables', todo') /\ PendingFits(tables', pending')
    BY <1>1, <1>5, <1>6, ShortLists DEF TablesInv, PendingFits, AllGrow, FilesFit
<1>12. TablesInv'
    BY <1>1, <1>6, <1>7, <1>9, <1>10, <1>11 DEF TablesInv, Early
<1>13. BuildInv'
    BY <1>1, <1>6, <1>7 DEF BuildInv, Early
<1>14. QED
    BY <1>5, <1>6, <1>12, <1>13

NamesStep == NameLocalModels \/ NameLocalEnums \/ DeStutter \/ NameTables \/ NameModels

\* Tables and enums get names.
LEMMA NameStep ==
    ASSUME TablesInv, BuildInv, NamesStep
    PROVE  TablesInv' /\ BuildInv' /\ Passed(tables, tables')
<1>0. AreTables(tables) /\ Passed(tables, tables)
    <2>1. AreTables(tables)
        BY DEF TablesInv
    <2>2. QED
        BY <2>1, GrowsSelf DEF Passed, AllGrow, AreTables
<1>1. /\ pc \in Early \ {"start", "fit"} /\ pc' \in Early \ {"start", "merge"}
      /\ embeds = <<>> /\ joins = <<>> /\ diags \subseteq diags'
      /\ world' = world /\ todo' = todo /\ dbs' = dbs /\ embeds' = embeds /\ joins' = joins
      /\ pending' = pending
    BY DEF NamesStep, NameLocalModels, NameLocalEnums, DeStutter, NameTables, NameModels, Renames,
           AllBuilt, BuildInv, Early
<1>2. IsInput(world) /\ EnumsFit(world, enums) /\ TablesFit(world, tables)
    BY <1>1, HeldFields DEF TablesInv, BuildInv, IsBuild
<1>3. Passed(tables, tables') /\ EnumsFit(world, enums')
    <2>1. CASE NameLocalModels
        <3>1. /\ tables' = QualifyLocalModels(world, tables)
              /\ enums' = RenameOneofCases(world, tables, tables', enums)
            BY <2>1 DEF NameLocalModels, Renames
        <3>2. Passed(tables, tables')
            BY <1>0, <1>2, <3>1, LocalsPass DEF TablesFit, Reads
        <3>3. EnumsFit(world, enums')
            BY <1>0, <1>2, <3>1, <3>2, RenamedCases DEF Passed, AreTables
        <3>4. QED
            BY <3>2, <3>3
    <2>2. CASE NameLocalEnums
        BY <1>0, <1>2, <2>2, YieldedEnums DEF NameLocalEnums, Renames
    <2>3. CASE DeStutter
        BY <1>0, <1>2, <2>3, PassesPass DEF DeStutter, Renames
    <2>4. CASE NameTables
        BY <1>0, <1>2, <2>4, PassesPass DEF NameTables, Renames
    <2>5. CASE NameModels
        BY <1>0, <1>2, <2>5, PassesPass DEF NameModels, Renames
    <2>6. QED
        BY <2>1, <2>2, <2>3, <2>4, <2>5 DEF NamesStep
<1>4. IsBuild(world', Held')
    <2>1. IsBuild(world, Held)
        BY <1>1 DEF BuildInv
    <2>2. /\ DOMAIN Held' = BuildFields /\ Held'.tables = tables' /\ Held'.embeds = Held.embeds
          /\ Held'.joins = Held.joins /\ Held.diags \subseteq Held'.diags /\ Held.tables = tables
          /\ Held'.enums = enums'
        BY <1>1 DEF Held, BuildFields
    <2>3. QED
        BY <1>1, <1>3, <2>1, <2>2, GrownFits DEF Passed
<1>5. Steady(tables, tables')
    BY <1>3, PassIsSteady
<1>6. TablesInv'
    BY <1>1, <1>5, SteadyKeeps DEF TablesInv, Steady
<1>7. BuildInv'
    BY <1>1, <1>4 DEF BuildInv
<1>8. QED
    BY <1>3, <1>6, <1>7

-----------------------------------------------------------------------------
\* The keys that wait

\* Lists flattened: a list of what they have.
Flattens(c, ss, n) ==
    /\ IsList(c)
    /\ \A i \in 1 .. n : \A k \in DOMAIN ss[i] : \E m \in DOMAIN c : c[m] = ss[i][k]
    /\ \A m \in DOMAIN c : \E i \in 1 .. n : \E k \in DOMAIN ss[i] : c[m] = ss[i][k]

\* One more list at the end.
LEMMA FlattensOn ==
    ASSUME NEW ss, NEW n \in Nat, NEW c, Flattens(c, ss, n), IsList(ss[n + 1])
    PROVE  Flattens(c \o ss[n + 1], ss, n + 1)
<1> DEFINE u == ss[n + 1]
           d == c \o u
<1>1. IsList(c) /\ IsList(u)
    BY DEF Flattens
<1> HIDE DEF u
<1>2. IsList(d) /\ Follows(d, c, u)
    BY <1>1, ListConcat
<1>7. \A m \in DOMAIN d : \/ m \in DOMAIN c /\ d[m] = c[m]
                          \/ \E j \in DOMAIN u : d[m] = u[j]
    <2> SUFFICES ASSUME NEW m \in DOMAIN d
                 PROVE  (m \in DOMAIN c /\ d[m] = c[m]) \/ \E j \in DOMAIN u : d[m] = u[j]
        OBVIOUS
    <2>1. \/ m \in DOMAIN c /\ d[m] = c[m]
          \/ \E j \in DOMAIN u : m = Len(c) + j /\ d[m] = u[j]
        BY <1>1, ConcatItems
    <2>2. QED
        BY <2>1
<1> HIDE DEF d
<1>8. u = ss[n + 1]
    BY DEF u
<1>3. \A i \in 1 .. (n + 1) : i \in 1 .. n \/ i = n + 1
    OBVIOUS
<1>4. /\ \A i \in 1 .. n : i \in 1 .. (n + 1)
      /\ n + 1 \in 1 .. (n + 1)
    OBVIOUS
<1>5. ASSUME NEW i \in 1 .. (n + 1), NEW k \in DOMAIN ss[i]
      PROVE  \E m \in DOMAIN d : d[m] = ss[i][k]
    <2>1. CASE i \in 1 .. n
        <3>1. PICK m \in DOMAIN c : c[m] = ss[i][k]
            BY <1>5, <2>1 DEF Flattens
        <3>2. QED
            BY <1>2, <3>1 DEF Follows
    <2>2. CASE i = n + 1
        BY <1>2, <1>5, <1>8, <2>2 DEF Follows
    <2>3. QED
        BY <1>3, <2>1, <2>2
<1>6. ASSUME NEW m \in DOMAIN d
      PROVE  \E i \in 1 .. (n + 1) : \E k \in DOMAIN ss[i] : d[m] = ss[i][k]
    <2>1. CASE m \in DOMAIN c /\ d[m] = c[m]
        BY <1>4, <2>1 DEF Flattens
    <2>2. CASE \E j \in DOMAIN u : d[m] = u[j]
        BY <1>4, <1>8, <2>2
    <2>3. QED
        BY <1>6, <1>7, <2>1, <2>2
<1>9. Flattens(d, ss, n + 1)
    BY <1>2, <1>5, <1>6 DEF Flattens
<1>10. QED
    BY <1>9 DEF d, u

Concats(ss, g, n) == g = [i \in 1 .. n |-> IF i = 1 THEN ss[i] ELSE g[i - 1] \o ss[i]]

\* FlattenSeq flattens.
LEMMA FlattenLists ==
    ASSUME NEW ss, IsList(ss), \A i \in DOMAIN ss : IsList(ss[i])
    PROVE  Flattens(FlattenSeq(ss), ss, Len(ss))
<1>1. PICK n \in Nat : n = Len(ss) /\ DOMAIN ss = 1 .. n
    BY ListIsFunction
<1>2. CASE n = 0
    <2>1. FlattenSeq(ss) = ss /\ DOMAIN ss = {}
        BY <1>1, <1>2 DEF FlattenSeq
    <2>2. 1 .. n = {}
        BY <1>2
    <2>3. QED
        BY <1>1, <2>1, <2>2 DEF Flattens
<1>3. CASE n # 0
    <2> DEFINE Items == UNION {{ss[i][k] : k \in DOMAIN ss[i]} : i \in 1 .. n}
               step == [p \in (2 .. n) \X Seq(Items) |-> p[2] \o ss[p[1]]]
               flatten[i \in 1 .. Len(ss)] == IF i = 1 THEN ss[i] ELSE flatten[i - 1] \o ss[i]
    <2>1. FlattenSeq(ss) = flatten[n]
        BY <1>1, <1>3 DEF FlattenSeq
    <2>2. flatten = CHOOSE g : Concats(ss, g, n)
        BY <1>1 DEF Concats
    <2> HIDE DEF flatten
    <2>3. \A i \in 1 .. n : ss[i] \in Seq(Items)
        <3> SUFFICES ASSUME NEW i \in 1 .. n PROVE ss[i] \in Seq(Items)
            OBVIOUS
        <3>1. ss[i] \in Seq({ss[i][k] : k \in DOMAIN ss[i]})
            BY <1>1 DEF IsList
        <3>2. {ss[i][k] : k \in DOMAIN ss[i]} \subseteq Items
            OBVIOUS
        <3> HIDE DEF Items
        <3>3. QED
            BY <3>1, <3>2, SeqMonotonic
    <2>4. step \in [((1 + 1) .. n) \X Seq(Items) -> Seq(Items)]
        <3> HIDE DEF Items
        <3>1. (1 + 1) .. n = 2 .. n
            BY <1>1
        <3>2. \A p \in (2 .. n) \X Seq(Items) : p[2] \o ss[p[1]] \in Seq(Items)
            <4> SUFFICES ASSUME NEW i \in 2 .. n, NEW s \in Seq(Items) PROVE s \o ss[i] \in Seq(Items)
                OBVIOUS
            <4>1. ss[i] \in Seq(Items)
                BY <2>3
            <4>2. QED
                BY <4>1, ConcatProperties
        <3>3. QED
            BY <3>1, <3>2
    <2>5. \E g \in [1 .. n -> Seq(Items)] : IsIteration(g, 1, n, ss[1], step)
        <3>1. ss[1] \in Seq(Items) /\ 1 <= n /\ 1 \in Nat
            BY <1>3, <2>3
        <3> HIDE DEF Items, step
        <3>2. QED
            BY <2>4, <3>1, IterationDefines
    <2>6. \E g : Concats(ss, g, n)
        <3>1. PICK g \in [1 .. n -> Seq(Items)] : IsIteration(g, 1, n, ss[1], step)
            BY <2>5
        <3>2. \A i \in 1 .. n : g[i] = IF i = 1 THEN ss[i] ELSE g[i - 1] \o ss[i]
            <4> SUFFICES ASSUME NEW i \in 1 .. n, i # 1 PROVE g[i] = g[i - 1] \o ss[i]
                BY <3>1 DEF IsIteration
            <4>1. i \in 2 .. n /\ i \in (1 + 1) .. n /\ i - 1 \in 1 .. n
                OBVIOUS
            <4>2. g[i] = step[<<i, g[i - 1]>>] /\ g[i - 1] \in Seq(Items)
                BY <3>1, <4>1 DEF IsIteration
            <4> HIDE DEF Items
            <4>3. step[<<i, g[i - 1]>>] = g[i - 1] \o ss[i]
                BY <4>1, <4>2
            <4>4. QED
                BY <4>2, <4>3
        <3> HIDE DEF Items, step
        <3>3. g = [i \in 1 .. n |-> g[i]]
            BY <3>1
        <3>4. g = [i \in 1 .. n |-> IF i = 1 THEN ss[i] ELSE g[i - 1] \o ss[i]]
            BY <3>2, <3>3
        <3>5. QED
            BY <3>4 DEF Concats
    <2>7. Concats(ss, flatten, n)
        BY <2>2, <2>6
    <2>8. \A i \in 1 .. n : flatten[i] = IF i = 1 THEN ss[i] ELSE flatten[i - 1] \o ss[i]
        BY <2>7 DEF Concats
    <2> DEFINE U == {i \in 1 .. n : Flattens(flatten[i], ss, i)}
    <2>9. 1 \in U
        <3>1. 1 \in 1 .. n /\ flatten[1] = ss[1] /\ IsList(ss[1])
            BY <1>1, <1>3, <2>8
        <3>2. 1 .. 1 = {1}
            OBVIOUS
        <3>3. QED
            BY <3>1, <3>2 DEF Flattens
    <2>10. ASSUME NEW i \in (1 + 1) .. n, i - 1 \in U PROVE i \in U
        <3>1. PICK k \in Nat : k = i - 1 /\ i = k + 1
            BY <1>1
        <3>2. Flattens(flatten[k], ss, k) /\ IsList(ss[k + 1]) /\ i \in 1 .. n
            BY <1>1, <2>10, <3>1
        <3>3. Flattens(flatten[k] \o ss[k + 1], ss, k + 1)
            BY <3>2, FlattensOn
        <3>4. flatten[i] = flatten[k] \o ss[k + 1]
            <4>1. i # 1 /\ i \in 1 .. n
                BY <3>2
            <4>2. flatten[i] = flatten[i - 1] \o ss[i]
                BY <2>8, <4>1
            <4>3. QED
                BY <3>1, <4>2
        <3>5. QED
            BY <3>1, <3>2, <3>3, <3>4
    <2> HIDE DEF U
    <2>11. 1 .. n \subseteq U
        BY <2>9, <2>10, StepByStep
    <2>12. n \in U
        BY <1>3, <2>11
    <2>13. Flattens(flatten[n], ss, n)
        BY <2>12 DEF U
    <2>14. QED
        BY <1>1, <2>1, <2>13
<1>4. QED
    BY <1>2, <1>3

\* A build lists its tables in an order.
LEMMA TablesInOrder ==
    ASSUME NEW b, IsList(b.tables), DatabasesFit(b.dbs, b.tables)
    PROVE  IsListing(BuildOrder(b), DOMAIN b.tables)
<1> DEFINE ts == b.tables
           Placed(i) == CHOOSE d \in DOMAIN b.dbs : b.dbs[d].name = ts[i].db
           founded(i) == SchemaFounded(ts, ts[i])
           rank == [i \in DOMAIN ts |-> <<Placed(i), founded(i)>>]
<1>1. PICK n \in Nat : DOMAIN ts = 1 .. n
    BY ListIsFunction
<1>2. PICK k \in Nat : DOMAIN b.dbs = 1 .. k
    BY ListIsFunction DEF DatabasesFit
<1>3. BuildOrder(b) = InOrder(DOMAIN ts, rank)
    BY DEF BuildOrder
<1>4. ASSUME NEW i \in DOMAIN ts PROVE Placed(i) \in Nat /\ founded(i) \in Nat
    <2>1. \E d \in DOMAIN b.dbs : b.dbs[d].name = ts[i].db
        BY <1>4 DEF DatabasesFit
    <2>2. Placed(i) \in DOMAIN b.dbs
        BY <2>1
    <2> DEFINE S == {j \in DOMAIN ts : ts[j].db = ts[i].db /\ ts[j].schema = ts[i].schema}
    <2>3. S \subseteq Nat /\ i \in S /\ founded(i) = Min(S)
        BY <1>1, <1>4 DEF SchemaFounded
    <2> HIDE DEF S, founded, Placed
    <2>4. founded(i) \in S
        BY <2>3, MinIsMember
    <2>5. founded(i) \in Nat
        BY <2>3, <2>4
    <2>6. Placed(i) \in Nat
        BY <1>2, <2>2
    <2>7. QED
        BY <2>5, <2>6
<1> HIDE DEF Placed, founded
<1>5. ASSUME NEW i \in DOMAIN ts PROVE rank[i] \in [1 .. 2 -> Nat]
    <2>1. \A x, y \in Nat : <<x, y>> \in [1 .. 2 -> Nat]
        OBVIOUS
    <2>2. rank[i] = <<Placed(i), founded(i)>>
        BY <1>5
    <2>3. QED
        BY <1>4, <1>5, <2>1, <2>2
<1> HIDE DEF rank, ts
<1>6. IsFiniteSet(DOMAIN ts) /\ DOMAIN ts \subseteq Int
    BY <1>1, FS_Interval
<1>7. IsListing(InOrder(DOMAIN ts, rank), DOMAIN ts)
    BY <1>5, <1>6, InOrderLists
<1>8. QED
    BY <1>3, <1>7 DEF ts

\* g merges the first k files that are not generated; the failed ones leave no error.
Forgiven(w, b, f) == [Merged(w, b, f) EXCEPT !.error = ""]
Merges(w, others, g, k) ==
    g = [n \in 0 .. k |-> IF n = 0 THEN NoBuild ELSE Forgiven(w, g[n - 1], others[n])]
Discovers(w, b) == IsBuild(w, b) /\ DatabasesFit(b.dbs, b.tables) /\ Going(b)

\* There is such a function.
LEMMA FilesMerge ==
    ASSUME NEW w, NEW others, NEW m \in Nat
    PROVE  \E g : Merges(w, others, g, m)
<1> DEFINE T == {k \in 0 .. m : \E g : Merges(w, others, g, k)}
<1>1. 0 \in T
    <2>1. 0 .. 0 = {0}
        OBVIOUS
    <2>2. Merges(w, others, [n \in 0 .. 0 |-> NoBuild], 0)
        BY <2>1 DEF Merges
    <2>3. QED
        BY <2>2
<1>2. ASSUME NEW k \in (0 + 1) .. m, k - 1 \in T PROVE k \in T
    <2>1. PICK g : Merges(w, others, g, k - 1)
        BY <1>2
    <2> DEFINE h == [n \in 0 .. k |-> IF n = k THEN Forgiven(w, g[k - 1], others[k]) ELSE g[n]]
    <2>2. \A n \in 0 .. k : h[n] = IF n = 0 THEN NoBuild ELSE Forgiven(w, h[n - 1], others[n])
        <3> SUFFICES ASSUME NEW n \in 0 .. k
                     PROVE  h[n] = IF n = 0 THEN NoBuild ELSE Forgiven(w, h[n - 1], others[n])
            OBVIOUS
        <3>1. CASE n = k
            BY <1>2, <3>1
        <3>2. CASE n # k
            <4>1. n \in 0 .. (k - 1) /\ (n # 0 => n - 1 \in 0 .. (k - 1) /\ n - 1 # k)
                BY <3>2
            <4>2. g[n] = IF n = 0 THEN NoBuild ELSE Forgiven(w, g[n - 1], others[n])
                BY <2>1, <4>1 DEF Merges
            <4>3. h[n] = g[n] /\ (n # 0 => n - 1 \in 0 .. k /\ h[n - 1] = g[n - 1])
                BY <3>2, <4>1
            <4>4. QED
                BY <4>2, <4>3
        <3>3. QED
            BY <3>1, <3>2
    <2>3. Merges(w, others, h, k)
        <3>1. h = [n \in 0 .. k |-> h[n]]
            OBVIOUS
        <3> HIDE DEF h
        <3>2. h = [n \in 0 .. k |-> IF n = 0 THEN NoBuild ELSE Forgiven(w, h[n - 1], others[n])]
            BY <2>2, <3>1
        <3>3. QED
            BY <3>2 DEF Merges
    <2> HIDE DEF h
    <2>4. QED
        BY <1>2, <2>3
<1> HIDE DEF T
<1>3. 0 .. m \subseteq T
    BY <1>1, <1>2, StepByStep
<1>4. QED
    BY <1>3 DEF T

\* What discovery finds is a list of tables.
LEMMA DiscoveredFits ==
    ASSUME NEW w, IsInput(w)
    PROVE  AreTables(Discovered(w).tables)
<1> DEFINE S == {i \in DOMAIN w.files : ~w.files[i].generate}
           others == Picked(w.files, S)
           merged[n \in 0 .. Len(others)] ==
               IF n = 0 THEN NoBuild
               ELSE [Merged(w, merged[n - 1], others[n]) EXCEPT !.error = ""]
<1>1. Discovered(w) = LookupOnly(w, merged[Len(others)])
    BY DEF Discovered
<1>2. S \subseteq DOMAIN w.files
    OBVIOUS
<1>3. merged = CHOOSE g : Merges(w, others, g, Len(others))
    BY DEF Merges, Forgiven
<1> HIDE DEF merged, S
<1>4. FilesFit(w, <<>>, others)
    BY <1>2, PickedFiles
<1> HIDE DEF others
<1>5. PICK m \in Nat : m = Len(others) /\ DOMAIN others = 1 .. m
    BY <1>4, ListIsFunction DEF FilesFit
<1>6. Merges(w, others, merged, m)
    BY <1>3, <1>5, FilesMerge
<1>15. \A n \in 0 .. m : merged[n] = IF n = 0 THEN NoBuild ELSE Forgiven(w, merged[n - 1], others[n])
    BY <1>6 DEF Merges
<1> DEFINE U == {k \in 0 .. m : Discovers(w, merged[k])}
<1>7. 0 \in U
    <2>1. merged[0] = NoBuild
        BY <1>15
    <2>2. /\ DOMAIN NoBuild = BuildFields /\ NoBuild.tables = <<>> /\ NoBuild.embeds = <<>>
          /\ NoBuild.joins = <<>> /\ NoBuild.dbs = <<>> /\ NoBuild.error = "" /\ NoBuild.enums = <<>>
        BY DEF NoBuild, BuildFields
    <2>3. IsBuild(w, NoBuild)
        BY <2>2, EmptyBuild
    <2>4. DatabasesFit(NoBuild.dbs, NoBuild.tables)
        BY <2>2, ShortLists DEF DatabasesFit
    <2>5. Discovers(w, NoBuild)
        BY <2>2, <2>3, <2>4 DEF Going, Discovers
    <2>6. 0 \in 0 .. m
        OBVIOUS
    <2>7. QED
        BY <2>1, <2>5, <2>6
<1>8. ASSUME NEW k \in (0 + 1) .. m, k - 1 \in U PROVE k \in U
    <2> DEFINE b == merged[k - 1]
               c == Merged(w, b, others[k])
    <2>1. merged[k] = Forgiven(w, b, others[k]) /\ k \in 0 .. m
        BY <1>8, <1>15
    <2>8. merged[k] = [c EXCEPT !.error = ""]
        BY <2>1 DEF Forgiven
    <2>2. Discovers(w, b) /\ IsFile(w, others[k])
        BY <1>4, <1>5, <1>8 DEF FilesFit
    <2>3. MergedFits(w, b, c, others[k])
        BY <2>2, MergeFits DEF Discovers
    <2> HIDE DEF b, c
    <2>4. IsBuild(w, c) /\ DatabasesFit(c.dbs, c.tables)
        BY <2>3 DEF MergedFits
    <2> DEFINE d == [c EXCEPT !.error = ""]
    <2>5. /\ DOMAIN d = BuildFields /\ d.tables = c.tables /\ d.embeds = c.embeds /\ d.joins = c.joins
          /\ d.diags = c.diags /\ d.dbs = c.dbs /\ d.error = "" /\ d.enums = c.enums
        BY <2>4 DEF IsBuild, BuildFields
    <2> HIDE DEF d
    <2>6. Discovers(w, d)
        BY <2>4, <2>5, SameBuild DEF Going, Discovers
    <2>9. Discovers(w, merged[k])
        BY <2>6, <2>8 DEF d
    <2>7. QED
        BY <2>1, <2>9
<1> HIDE DEF U
<1>9. m \in U
    <2>1. 0 .. m \subseteq U
        BY <1>7, <1>8, StepByStep
    <2>2. QED
        BY <2>1
<1> DEFINE ts == merged[m].tables
<1>10. AreTables(ts)
    BY <1>9 DEF U, Discovers, IsBuild, TablesFit, AreTables
<1>11. Discovered(w).tables = QualifyModels(DeStutterTables(w.layout, ts))
    BY <1>1, <1>5 DEF LookupOnly
<1> HIDE DEF ts
<1>12. AreTables(DeStutterTables(w.layout, ts))
    BY <1>10, PassesPass DEF Passed
<1>13. AreTables(QualifyModels(DeStutterTables(w.layout, ts)))
    BY <1>12, PassesPass DEF Passed
<1>14. QED
    BY <1>11, <1>13

\* The last names are given, and the keys wait, each with its table.
LEMMA FitStep ==
    ASSUME TablesInv, BuildInv, FitNames
    PROVE  TablesInv' /\ BuildInv' /\ KeysInv' /\ Steady(tables, tables')
<1> DEFINE fitted == FitTableNames(tables)
           b == [dbs |-> dbs, tables |-> fitted]
           order == BuildOrder(b)
           Keys(i) == [k \in DOMAIN fitted[i].keys |-> <<i, fitted[i].keys[k]>>]
           ss == [n \in DOMAIN order |-> Keys(order[n])]
<1>1. /\ pc = "fit" /\ pc' = "resolve"
      /\ tables' = [i \in DOMAIN fitted |-> [fitted[i] EXCEPT !.keys = <<>>]]
      /\ pending' = FlattenSeq(ss) /\ found' = Discovered(world)
      /\ world' = world /\ todo' = todo /\ dbs' = dbs /\ embeds' = embeds /\ joins' = joins
      /\ diags' = diags /\ outcome' = outcome
    BY DEF FitNames
<1>2. Passed(tables, fitted) /\ Steady(tables, fitted)
    BY PassesPass, PassIsSteady DEF TablesInv
<1>3. b.tables = fitted /\ b.dbs = dbs
    OBVIOUS
<1> HIDE DEF fitted, b
<1>4. DatabasesFit(dbs, fitted) /\ AreTables(fitted) /\ DOMAIN fitted = DOMAIN tables
      /\ \A i \in DOMAIN tables : Grows(tables[i], fitted[i])
    BY <1>2, SteadyKeeps DEF TablesInv, Steady, Passed, AllGrow
<1>5. IsListing(order, DOMAIN fitted)
    BY <1>3, <1>4, TablesInOrder DEF AreTables
<1> HIDE DEF order
<1>6. PICK n \in Nat : n = Cardinality(DOMAIN fitted) /\ order \in [1 .. n -> DOMAIN fitted]
                       /\ \A i \in DOMAIN fitted : \E k \in 1 .. n : order[k] = i
    BY <1>5 DEF IsListing
<1>7. ASSUME NEW i \in DOMAIN fitted
      PROVE  /\ IsList(Keys(i)) /\ DOMAIN Keys(i) = DOMAIN fitted[i].keys
             /\ \A k \in DOMAIN fitted[i].keys : /\ Keys(i)[k] = <<i, fitted[i].keys[k]>>
                                                 /\ DOMAIN fitted[i].keys[k] = KeyFields
    <2>1. AreKeys(fitted[i].keys)
        BY <1>4 DEF AreTables, IsTable
    <2>2. PICK m \in Nat : DOMAIN fitted[i].keys = 1 .. m
        BY <2>1, ListIsFunction DEF AreKeys
    <2>3. Keys(i) = [k \in 1 .. m |-> Keys(i)[k]]
        BY <2>2
    <2>4. /\ DOMAIN Keys(i) = DOMAIN fitted[i].keys
          /\ \A k \in DOMAIN fitted[i].keys : Keys(i)[k] = <<i, fitted[i].keys[k]>>
        OBVIOUS
    <2> HIDE DEF Keys
    <2>5. IsList(Keys(i))
        BY <2>3, FunctionIsList
    <2>6. QED
        BY <2>1, <2>4, <2>5 DEF AreKeys
<1>8. DOMAIN ss = 1 .. n /\ ss = [k \in 1 .. n |-> ss[k]] /\ \A k \in 1 .. n : ss[k] = Keys(order[k])
    BY <1>6
<1> HIDE DEF Keys, ss
<1>9. IsList(ss) /\ Len(ss) = n /\ \A k \in DOMAIN ss : IsList(ss[k])
    <2>1. IsList(ss) /\ Len(ss) = n
        BY <1>8, FunctionIsList
    <2>2. QED
        BY <1>6, <1>7, <1>8, <2>1
<1>10. Flattens(pending', ss, n)
    BY <1>1, <1>9, FlattenLists
<1>11. PendingFits(fitted, pending')
    <2> SUFFICES ASSUME NEW m \in DOMAIN pending'
                 PROVE  /\ pending'[m] = <<pending'[m][1], pending'[m][2]>>
                        /\ pending'[m][1] \in DOMAIN fitted /\ DOMAIN pending'[m][2] = KeyFields
        BY <1>10 DEF PendingFits, Flattens
    <2>1. PICK k \in 1 .. n : \E l \in DOMAIN ss[k] : pending'[m] = ss[k][l]
        BY <1>10 DEF Flattens
    <2>2. PICK l \in DOMAIN ss[k] : pending'[m] = ss[k][l]
        BY <2>1
    <2>3. ss[k] = Keys(order[k]) /\ order[k] \in DOMAIN fitted
        BY <1>6, <1>8
    <2>4. /\ pending'[m] = <<order[k], fitted[order[k]].keys[l]>>
          /\ DOMAIN fitted[order[k]].keys[l] = KeyFields
        BY <1>7, <2>2, <2>3
    <2>5. QED
        BY <2>3, <2>4
<1>12. ASSUME NEW i \in DOMAIN fitted, NEW l \in DOMAIN fitted[i].keys
       PROVE  fitted[i].keys[l] \in Waiting(pending', i)
    <2>1. PICK k \in 1 .. n : order[k] = i
        BY <1>6
    <2>2. l \in DOMAIN ss[k] /\ ss[k][l] = <<i, fitted[i].keys[l]>>
        BY <1>7, <1>8, <2>1
    <2>3. PICK m \in DOMAIN pending' : pending'[m] = ss[k][l]
        BY <1>10, <2>2 DEF Flattens
    <2>4. pending'[m][1] = i /\ pending'[m][2] = fitted[i].keys[l]
        BY <2>2, <2>3
    <2>5. QED
        BY <2>4 DEF Waiting
<1>13. ASSUME NEW i \in DOMAIN fitted
       PROVE  /\ IsTable(tables'[i]) /\ Bare(tables'[i])
              /\ tables'[i].db = tables[i].db /\ tables'[i].proto = tables[i].proto
              /\ tables'[i].value = tables[i].value /\ tables'[i].field = tables[i].field
    <2>1. Grows(tables[i], fitted[i]) /\ tables'[i] = [fitted[i] EXCEPT !.keys = <<>>]
        BY <1>1, <1>4
    <2>2. Bare(tables[i])
        BY <1>1, <1>4, HeldFields DEF BuildInv, Early, IsBuild, TablesFit
    <2>3. QED
        BY <2>1, <2>2, ShortLists DEF Grows, Same, Bare, IsTable, TableFields, AreKeys
<1>14. AreTables(tables') /\ DOMAIN tables' = DOMAIN tables
    <2>1. PICK k \in Nat : DOMAIN fitted = 1 .. k
        BY <1>4, ListIsFunction DEF AreTables
    <2>2. DOMAIN tables' = 1 .. k /\ tables' = [i \in 1 .. k |-> tables'[i]]
        BY <1>1, <2>1
    <2>3. IsList(tables')
        BY <2>2, FunctionIsList
    <2>4. QED
        BY <1>4, <1>13, <2>1, <2>2, <2>3 DEF AreTables
<1>15. Steady(tables, tables')
    BY <1>4, <1>13, <1>14 DEF Steady
<1>16. TablesInv'
    <2>1. PendingFits(tables', pending')
        BY <1>4, <1>11, <1>14 DEF PendingFits
    <2>2. QED
        BY <1>1, <1>15, <2>1, SteadyKeeps DEF TablesInv, Steady, Late
<1>17. BuildInv'
    BY <1>1 DEF BuildInv, Early
<1>18. ASSUME NEW i \in DOMAIN tables PROVE Owes(world, tables', pending', i) \/ RefReported(diags)
    <2> SUFFICES ASSUME tables'[i].proto # 0, NEW f \in Kept(world, tables'[i].proto), ~RefReported(diags)
                 PROVE  /\ IsReference(world, tables'[i].proto, f) =>
                              \E key \in KeysOf(tables', pending', i) :
                                 key.column = ColumnName(world, tables'[i].proto, f)
                        /\ IsJoin(world, tables'[i].proto, f) =>
                              \E j \in DOMAIN tables' :
                                 /\ tables'[j].proto = 0 /\ tables'[j].field = f /\ tables'[j].db = tables'[i].db
                                 /\ \E key \in KeysOf(tables', pending', j) : key.proto = tables'[i].proto
        BY DEF Owes
    <2>1. /\ IsBuild(world, Held) /\ joins = <<>>
        BY <1>1 DEF BuildInv, Early
    <2>2. tables'[i].proto = tables[i].proto /\ tables'[i].db = tables[i].db
        BY <1>4, <1>13
    <2>3. ASSUME IsReference(world, tables'[i].proto, f)
          PROVE  \E key \in KeysOf(tables', pending', i) : key.column = ColumnName(world, tables'[i].proto, f)
        <3>1. Reads(world, tables[i])
            BY <2>1, HeldFields DEF IsBuild, TablesFit
        <3>2. PICK k \in DOMAIN tables[i].keys : tables[i].keys[k].column = ColumnName(world, tables[i].proto, f)
            BY <2>2, <2>3, <3>1 DEF Reads
        <3>3. k \in DOMAIN fitted[i].keys /\ fitted[i].keys[k] = tables[i].keys[k]
            BY <1>4 DEF Grows
        <3>4. tables[i].keys[k] \in Waiting(pending', i)
            BY <1>4, <1>12, <3>3
        <3>5. QED
            BY <2>2, <3>2, <3>4 DEF KeysOf
    <2>4. ASSUME IsJoin(world, tables'[i].proto, f)
          PROVE  \E j \in DOMAIN tables' :
                    /\ tables'[j].proto = 0 /\ tables'[j].field = f /\ tables'[j].db = tables'[i].db
                    /\ \E key \in KeysOf(tables', pending', j) : key.proto = tables'[i].proto
        <3>1. JoinOwed(Held, i, f)
            BY <2>1, <2>2, <2>4, HeldFields DEF IsBuild
        <3>2. PICK j \in DOMAIN tables : JoinsFor(tables[j], tables[i], f)
            BY <2>1, <3>1, HeldFields, ShortLists DEF JoinOwed
        <3>3. PICK k \in DOMAIN tables[j].keys : tables[j].keys[k].proto = tables[i].proto
            BY <3>2 DEF JoinsFor, KeyTo
        <3>4. k \in DOMAIN fitted[j].keys /\ fitted[j].keys[k] = tables[j].keys[k]
            BY <1>4 DEF Grows
        <3>5. tables[j].keys[k] \in Waiting(pending', j)
            BY <1>4, <1>12, <3>4
        <3>6. /\ j \in DOMAIN tables' /\ tables'[j].proto = 0 /\ tables'[j].field = f
              /\ tables'[j].db = tables'[i].db
            BY <1>4, <1>13, <1>14, <2>2, <3>2 DEF JoinsFor
        <3>7. QED
            BY <2>2, <3>3, <3>5, <3>6 DEF KeysOf
    <2>5. QED
        BY <2>3, <2>4
<1>19. KeysInv'
    <2>1. \A i \in DOMAIN tables' : tables'[i].unresolved = <<>> /\ tables'[i].external = <<>>
        BY <1>4, <1>13, <1>14 DEF Bare
    <2>2. Accounted(world', tables', pending', diags')
        BY <1>1, <1>14, <1>18, <2>1 DEF Accounted
    <2>3. \A i \in DOMAIN tables' : SoftIndexed(tables'[i])
        BY <2>1, ShortLists DEF SoftIndexed
    <2>4. IsList(found'.tables)
        BY <1>1, DiscoveredFits DEF TablesInv, AreTables
    <2>5. ExternalsFit(world', Run', found')
        <3>1. Run'.tables = tables'
            BY DEF Run
        <3>2. QED
            BY <2>1, <3>1, ShortLists DEF ExternalsFit
    <2>6. QED
        BY <1>1, <2>2, <2>3, <2>4, <2>5 DEF KeysInv
<1>20. QED
    BY <1>15, <1>16, <1>17, <1>19

-----------------------------------------------------------------------------
\* Keys that are resolved

\* The names that tables are told apart by stay.
SameNames(t, u) ==
    u.schema = t.schema /\ u.name = t.name /\ u.local = t.local /\ u.model = t.model

\* A table whose keys are resolved further: it keeps the keys it has, and a
\* constraint that is new fits.
Settles(w, b, d, t, u) ==
    /\ IsTable(u) /\ SameNames(t, u)
    /\ u.db = t.db /\ u.proto = t.proto /\ u.value = t.value /\ u.field = t.field
    /\ \A key \in AllKeys(t) : \E new \in AllKeys(u) : new.column = key.column /\ new.proto = key.proto
    /\ SoftIndexed(t) => SoftIndexed(u)
    /\ \A k \in DOMAIN u.external : \/ \E l \in DOMAIN t.external : u.external[k] = t.external[l]
                                    \/ ExternalFits(w, b, d, t.db, u.external[k])

\* It has the key now, under whatever name.
Holds(u, key) == \E new \in AllKeys(u) : new.column = key.column /\ new.proto = key.proto

\* A key is added to the list of those that are constraints, or none at all.
LEMMA KeyListed ==
    ASSUME NEW ks, AreKeys(ks), NEW k, DOMAIN k = KeyFields
    PROVE  /\ AreKeys(Append(ks, k)) /\ k \in ToSet(Append(ks, k))
           /\ ToSet(ks) \subseteq ToSet(Append(ks, k))
           /\ \A i \in DOMAIN Append(ks, k) : \/ Append(ks, k)[i] = k
                                              \/ i \in DOMAIN ks /\ Append(ks, k)[i] = ks[i]
<1>1. /\ AreKeys(Append(ks, k)) /\ DOMAIN Append(ks, k) = DOMAIN ks \cup {Len(ks) + 1}
      /\ \A i \in DOMAIN ks : Append(ks, k)[i] = ks[i]
      /\ Append(ks, k)[Len(ks) + 1] = k
    BY KeyAdded, ListAppend DEF AreKeys
<1> DEFINE c == Append(ks, k)
<1> HIDE DEF c
<1>2. \A s : ToSet(s) = {s[i] : i \in DOMAIN s}
    BY DEF ToSet
<1>3. k \in ToSet(c) /\ ToSet(ks) \subseteq ToSet(c)
    BY <1>1, <1>2 DEF c
<1>4. QED
    BY <1>1, <1>3 DEF c

\* An index of the column is there, and those that were.
LEMMA WithIndexHas ==
    ASSUME NEW t, IsTable(t), NEW column
    PROVE  /\ IsTable(WithIndex(t, column)) /\ HasIndex(WithIndex(t, column), column)
           /\ \A c : HasIndex(t, c) => HasIndex(WithIndex(t, column), c)
           /\ \/ WithIndex(t, column) = t
              \/ \E xs : WithIndex(t, column) = [t EXCEPT !.indexes = xs]
<1>1. CASE \E i \in DOMAIN t.indexes : t.indexes[i].columns = <<column>>
    <2>1. WithIndex(t, column) = t
        BY <1>1 DEF WithIndex
    <2>2. QED
        BY <1>1, <2>1 DEF HasIndex
<1>2. CASE ~(\E i \in DOMAIN t.indexes : t.indexes[i].columns = <<column>>)
    <2> DEFINE x == NewIndex(<<column>>)
               xs == Append(t.indexes, x)
    <2>1. WithIndex(t, column) = [t EXCEPT !.indexes = xs]
        BY <1>2 DEF WithIndex
    <2>2. IsIndex(x) /\ x.columns = <<column>>
        BY NewIndexIsIndex, ShortLists
    <2> HIDE DEF x
    <2>3. /\ AreIndexes(xs) /\ DOMAIN xs = DOMAIN t.indexes \cup {Len(t.indexes) + 1}
          /\ \A i \in DOMAIN t.indexes : xs[i] = t.indexes[i]
          /\ xs[Len(t.indexes) + 1] = x
        BY <2>2, IndexAdded, ListAppend DEF IsTable, AreIndexes
    <2> HIDE DEF xs
    <2>4. IsTable(WithIndex(t, column)) /\ WithIndex(t, column).indexes = xs
        BY <2>1, <2>3 DEF IsTable, TableFields
    <2>5. QED
        BY <2>1, <2>2, <2>3, <2>4 DEF HasIndex
<1>3. QED
    BY <1>1, <1>2

\* A relation: a key of the table.
LEMMA RelateSettles ==
    ASSUME NEW w, NEW b, NEW d, NEW t, IsTable(t), NEW key, DOMAIN key = KeyFields,
           NEW verdict, NEW target
    PROVE  /\ Settles(w, b, d, t, Relate(t, key, verdict, target))
           /\ Holds(Relate(t, key, verdict, target), key)
           /\ Relate(t, key, verdict, target).unresolved = t.unresolved
<1> DEFINE new == Pointed(key, verdict, target)
           u == Relate(t, key, verdict, target)
           keys == Append(t.keys, new)
<1>1. PICK columns : u = [[t EXCEPT !.columns = columns] EXCEPT !.keys = Append(@, new)]
    BY DEF Relate, OnColumn
<1>2. u = [t EXCEPT !.columns = columns, !.keys = keys]
    BY <1>1 DEF IsTable, TableFields
<1>3. DOMAIN new = KeyFields /\ new.column = key.column /\ new.proto = key.proto
    BY DEF Pointed, KeyFields
<1> HIDE DEF new, u
<1>4. AreKeys(keys) /\ new \in ToSet(keys) /\ ToSet(t.keys) \subseteq ToSet(keys)
    BY <1>3, KeyListed DEF IsTable
<1> HIDE DEF keys
<1>5. /\ IsTable(u) /\ u.keys = keys /\ u.external = t.external /\ u.unresolved = t.unresolved
      /\ u.db = t.db /\ u.proto = t.proto /\ u.value = t.value /\ u.field = t.field
      /\ u.indexes = t.indexes /\ SameNames(t, u)
    BY <1>2, <1>4 DEF IsTable, TableFields, SameNames
<1>6. new \in AllKeys(u) /\ AllKeys(t) \subseteq AllKeys(u)
    BY <1>4, <1>5 DEF AllKeys
<1>7. Settles(w, b, d, t, u)
    BY <1>5, <1>6 DEF Settles, SoftIndexed, HasIndex
<1>8. QED
    BY <1>3, <1>5, <1>6, <1>7 DEF Holds, u

\* The key of a constraint.
ConstraintOf(key, verdict, target) ==
    [Pointed(key, verdict, target) EXCEPT !.onDelete = ExternalOnDelete(key)]

\* A constraint: a key of the table that is no relation, with its index.
LEMMA ConstrainSettles ==
    ASSUME NEW w, NEW b, NEW d, NEW t, IsTable(t), NEW key, DOMAIN key = KeyFields,
           NEW verdict, NEW target, ExternalFits(w, b, d, t.db, ConstraintOf(key, verdict, target))
    PROVE  /\ Settles(w, b, d, t, Constrain(t, key, verdict, target))
           /\ Holds(Constrain(t, key, verdict, target), key)
           /\ Constrain(t, key, verdict, target).unresolved = t.unresolved
<1> DEFINE v == Constrain(t, key, verdict, target)
           new == ConstraintOf(key, verdict, target)
           keys == Append(t.external, new)
<1>1. PICK columns : v = WithIndex([[t EXCEPT !.columns = columns] EXCEPT !.external = Append(@, new)],
                                   key.column)
    BY DEF Constrain, OnColumn, ConstraintOf
<1> DEFINE u == [t EXCEPT !.columns = columns, !.external = keys]
<1>2. v = WithIndex(u, key.column)
    BY <1>1 DEF IsTable, TableFields
<1>3. DOMAIN new = KeyFields /\ new.column = key.column /\ new.proto = key.proto
    BY DEF ConstraintOf, Pointed, KeyFields
<1> HIDE DEF v, new
<1>4. /\ AreKeys(keys) /\ new \in ToSet(keys) /\ ToSet(t.external) \subseteq ToSet(keys)
      /\ \A i \in DOMAIN keys : keys[i] = new \/ (i \in DOMAIN t.external /\ keys[i] = t.external[i])
    BY <1>3, KeyListed DEF IsTable
<1> HIDE DEF keys
<1>5. /\ IsTable(u) /\ u.keys = t.keys /\ u.external = keys /\ u.unresolved = t.unresolved
      /\ u.db = t.db /\ u.proto = t.proto /\ u.value = t.value /\ u.field = t.field
      /\ u.indexes = t.indexes /\ SameNames(t, u)
    BY <1>4 DEF IsTable, TableFields, SameNames
<1> HIDE DEF u
<1>6. /\ IsTable(v) /\ HasIndex(v, key.column) /\ \A c : HasIndex(u, c) => HasIndex(v, c)
      /\ v = u \/ \E xs : v = [u EXCEPT !.indexes = xs]
    BY <1>2, <1>5, WithIndexHas
<1>7. /\ v.keys = t.keys /\ v.external = keys /\ v.unresolved = t.unresolved
      /\ v.db = t.db /\ v.proto = t.proto /\ v.value = t.value /\ v.field = t.field
      /\ SameNames(t, v) /\ \A c : HasIndex(t, c) => HasIndex(v, c)
    BY <1>5, <1>6 DEF IsTable, TableFields, HasIndex, SameNames
<1>8. new \in AllKeys(v) /\ AllKeys(t) \subseteq AllKeys(v)
    BY <1>4, <1>7 DEF AllKeys
<1>9. SoftIndexed(t) => SoftIndexed(v)
    BY <1>3, <1>4, <1>6, <1>7 DEF SoftIndexed
<1>10. Settles(w, b, d, t, v)
    BY <1>4, <1>6, <1>7, <1>8, <1>9 DEF Settles, new
<1>11. QED
    BY <1>3, <1>7, <1>8, <1>10 DEF Holds, v

\* A plain column with its index, and the reason recorded.
LEMMA SoftSettles ==
    ASSUME NEW w, NEW b, NEW d, NEW t, IsTable(t), NEW key, DOMAIN key = KeyFields, NEW verdict
    PROVE  Settles(w, b, d, t, SoftFK(t, key, verdict))
<1> DEFINE v == SoftFK(t, key, verdict)
           new == [key EXCEPT !.kind = verdict.kind, !.why = verdict.why]
           keys == Append(t.unresolved, new)
<1>1. PICK columns : v = WithIndex([[t EXCEPT !.columns = columns] EXCEPT !.unresolved = Append(@, new)],
                                   key.column)
    BY DEF SoftFK, OnColumn
<1> DEFINE u == [t EXCEPT !.columns = columns, !.unresolved = keys]
<1>2. v = WithIndex(u, key.column)
    BY <1>1 DEF IsTable, TableFields
<1>3. DOMAIN new = KeyFields /\ new.column = key.column
    BY DEF KeyFields
<1> HIDE DEF v, new
<1>4. /\ AreKeys(keys) /\ ToSet(t.unresolved) \subseteq ToSet(keys)
      /\ \A i \in DOMAIN keys : keys[i] = new \/ (i \in DOMAIN t.unresolved /\ keys[i] = t.unresolved[i])
    BY <1>3, KeyListed DEF IsTable
<1> HIDE DEF keys
<1>5. /\ IsTable(u) /\ u.keys = t.keys /\ u.external = t.external /\ u.unresolved = keys
      /\ u.db = t.db /\ u.proto = t.proto /\ u.value = t.value /\ u.field = t.field
      /\ u.indexes = t.indexes /\ SameNames(t, u)
    BY <1>4 DEF IsTable, TableFields, SameNames
<1> HIDE DEF u
<1>6. /\ IsTable(v) /\ HasIndex(v, key.column) /\ \A c : HasIndex(u, c) => HasIndex(v, c)
      /\ v = u \/ \E xs : v = [u EXCEPT !.indexes = xs]
    BY <1>2, <1>5, WithIndexHas
<1>7. /\ v.keys = t.keys /\ v.external = t.external /\ v.unresolved = keys
      /\ v.db = t.db /\ v.proto = t.proto /\ v.value = t.value /\ v.field = t.field
      /\ SameNames(t, v) /\ \A c : HasIndex(t, c) => HasIndex(v, c)
    BY <1>5, <1>6 DEF IsTable, TableFields, HasIndex, SameNames
<1>8. AllKeys(t) \subseteq AllKeys(v)
    BY <1>4, <1>7 DEF AllKeys
<1>9. SoftIndexed(t) => SoftIndexed(v)
    BY <1>3, <1>4, <1>6, <1>7 DEF SoftIndexed
<1>10. Settles(w, b, d, t, v)
    BY <1>6, <1>7, <1>8, <1>9 DEF Settles
<1>11. QED
    BY <1>10 DEF v

\* The other side of a relation.
LEMMA HasManySettles ==
    ASSUME NEW w, NEW b, NEW d, NEW t, IsTable(t), NEW child, NEW key
    PROVE  /\ Settles(w, b, d, t, HasMany(t, child, key))
           /\ AllKeys(HasMany(t, child, key)) = AllKeys(t)
           /\ HasMany(t, child, key).unresolved = t.unresolved
<1> DEFINE u == HasMany(t, child, key)
<1>1. PICK many : u = [t EXCEPT !.many = many]
    BY DEF HasMany
<1> HIDE DEF u
<1>2. /\ IsTable(u) /\ u.keys = t.keys /\ u.external = t.external /\ u.unresolved = t.unresolved
      /\ u.db = t.db /\ u.proto = t.proto /\ u.value = t.value /\ u.field = t.field
      /\ u.indexes = t.indexes /\ SameNames(t, u)
    BY <1>1 DEF IsTable, TableFields, SameNames
<1>3. AllKeys(u) = AllKeys(t)
    BY <1>2 DEF AllKeys
<1>4. Settles(w, b, d, t, u)
    BY <1>2, <1>3 DEF Settles, SoftIndexed, HasIndex
<1>5. QED
    BY <1>2, <1>3, <1>4 DEF u

\* Settling by nothing, and settling more.
LEMMA SettlesOn ==
    ASSUME NEW w, NEW b, NEW d, NEW t, IsTable(t)
    PROVE  /\ Settles(w, b, d, t, t)
           /\ \A u, v : Settles(w, b, d, t, u) /\ Settles(w, b, d, u, v) => Settles(w, b, d, t, v)
<1>1. Settles(w, b, d, t, t)
    BY DEF Settles, SameNames
<1>2. ASSUME NEW u, NEW v, Settles(w, b, d, t, u), Settles(w, b, d, u, v)
      PROVE  Settles(w, b, d, t, v)
    <2>1. \A key \in AllKeys(t) : \E new \in AllKeys(v) : new.column = key.column /\ new.proto = key.proto
        BY <1>2 DEF Settles
    <2>2. ASSUME NEW k \in DOMAIN v.external
          PROVE  \/ \E l \in DOMAIN t.external : v.external[k] = t.external[l]
                 \/ ExternalFits(w, b, d, t.db, v.external[k])
        BY <1>2 DEF Settles
    <2>3. QED
        BY <1>2, <2>1, <2>2 DEF Settles, SameNames
<1>3. QED
    BY <1>1, <1>2

\* One member, and no more, is all there are.
LEMMA OneHit ==
    ASSUME NEW hits, IsFiniteSet(hits), hits # {}, ~(Cardinality(hits) > 1)
    PROVE  /\ (CHOOSE i \in hits : TRUE) \in hits
           /\ hits = {CHOOSE i \in hits : TRUE}
<1> DEFINE ref == CHOOSE i \in hits : TRUE
<1>1. ref \in hits
    OBVIOUS
<1> HIDE DEF ref
<1>2. \A i \in hits : i = ref
    <2> SUFFICES ASSUME NEW i \in hits, i # ref PROVE FALSE
        OBVIOUS
    <2>1. IsFiniteSet({ref}) /\ Cardinality({ref}) = 1
        BY FS_Singleton
    <2>2. Cardinality({ref} \cup {i}) = 2
        <3>1. i \notin {ref}
            OBVIOUS
        <3>2. Cardinality({ref} \cup {i}) = Cardinality({ref}) + 1
            BY <2>1, <3>1, FS_AddElement
        <3>3. QED
            BY <2>1, <3>2
    <2>3. {ref} \cup {i} \subseteq hits
        BY <1>1
    <2>4. Cardinality({ref} \cup {i}) <= Cardinality(hits) /\ Cardinality(hits) \in Nat
        BY <2>3, FS_Subset, FS_CardinalityType
    <2>5. QED
        BY <2>2, <2>4
<1>3. QED
    BY <1>1, <1>2 DEF ref

\* The tables that answer to a key are those that External finds.
LEMMA AnswersAreHits ==
    ASSUME NEW w, NEW ts, NEW S, NEW key, External(w, ts, S, key) # {},
           NEW new, new.type = key.type, new.pattern = key.pattern
    PROVE  AnswersIn(w, ts, S, new) = External(w, ts, S, key)
<1>1. CASE key.type # NoType
    <2>1. \A t : ResourceType(w, t) = key.type => ResourceOf(w, t) # NoResource
        BY <1>1 DEF ResourceType, NoType, NoResource
    <2>2. External(w, ts, S, key) = {i \in S : ResourceType(w, ts[i]) = key.type}
        BY <1>1, <2>1 DEF External, ByType
    <2>3. AnswersIn(w, ts, S, new) = {i \in S : ResourceType(w, ts[i]) = key.type}
        BY <1>1 DEF AnswersIn, AnswersTo
    <2>4. QED
        BY <2>2, <2>3
<1>2. CASE key.type = NoType
    <2>1. External(w, ts, S, key) = ByPattern(w, ts, S, key)
        BY <1>2 DEF External
    <2>2. key.pattern # <<>>
        BY <2>1 DEF ByPattern
    <2>3. QED
        BY <1>2, <2>1, <2>2 DEF ByPattern, AnswersIn, AnswersTo
<1>3. QED
    BY <1>1, <1>2

\* The fields of a constraint.
LEMMA ConstraintFields ==
    ASSUME NEW key, DOMAIN key = KeyFields, NEW verdict, NEW target,
           NEW new, new = ConstraintOf(key, verdict, target)
    PROVE  /\ new.kind = verdict.kind /\ new.db = target.db /\ new.type = key.type
           /\ new.pattern = key.pattern /\ new.onDelete = ExternalOnDelete(key)
BY DEF ConstraintOf, Pointed, KeyFields

\* What a verdict that is a constraint has found, in the build c: it is the
\* only table there that answers, and on the same server.
Found(w, home, c, S, key, kind, v) ==
    /\ v.kind = kind /\ External(w, c.tables, S, key) = {v.ref} /\ v.ref \in S
    /\ Colocated(home, DatabaseOf(c, c.tables[v.ref].db))

\* A constraint is local, or the only table that answers is found.
LEMMA ConstraintIsFound ==
    ASSUME NEW w, NEW b, IsList(b.tables), NEW d, IsList(d.tables), NEW at \in DOMAIN b.tables,
           NEW key, NEW v, v = Verdict(w, b, d, at, key), v.fate = "constraint"
    PROVE  \/ v.kind = "local"
           \/ Found(w, DatabaseOf(b, b.tables[at].db), b, Abroadof(b.tables, b.tables[at].db), key, "cross database", v)
           \/ Found(w, DatabaseOf(b, b.tables[at].db), d, DOMAIN d.tables, key, "discovered", v)
<1> DEFINE home == DatabaseOf(b, b.tables[at].db)
           others == External(w, b.tables, DOMAIN b.tables \ InDatabase(b.tables, at), key)
           beyond == External(w, d.tables, DOMAIN d.tables, key)
           Judge(build, hits, kind) ==
               LET ref == CHOOSE i \in hits : TRUE
               IN  IF Cardinality(hits) > 1 THEN Soft("ambiguous")
                   ELSE IF ~Colocated(home, DatabaseOf(build, build.tables[ref].db))
                   THEN Soft("other database")
                   ELSE Constrained(build.tables, key, ref, kind)
<1>1. DOMAIN b.tables \ InDatabase(b.tables, at) = Abroadof(b.tables, b.tables[at].db)
    BY DEF InDatabase, Abroadof
<1>2. \A why : Soft(why).fate = "soft"
    BY DEF Soft
<1>3. \A tables1, ref, kind : Constrained(tables1, key, ref, kind).fate = "constraint" =>
          /\ Constrained(tables1, key, ref, kind).kind = kind
          /\ Constrained(tables1, key, ref, kind).ref = ref
    BY <1>2 DEF Constrained
<1>4. ASSUME NEW build, NEW S, S \subseteq DOMAIN build.tables, IsList(build.tables), NEW kind,
             External(w, build.tables, S, key) # {},
             v = Judge(build, External(w, build.tables, S, key), kind)
      PROVE  Found(w, home, build, S, key, kind, v)
    <2> DEFINE hits == External(w, build.tables, S, key)
               ref == CHOOSE i \in hits : TRUE
    <2>1. hits \subseteq S
        BY DEF External, ByType, ByPattern
    <2>2. IsFiniteSet(hits)
        <3>1. PICK n \in Nat : DOMAIN build.tables = 1 .. n
            BY <1>4, ListIsFunction
        <3>2. hits \subseteq 1 .. n
            BY <1>4, <2>1, <3>1
        <3>3. IsFiniteSet(1 .. n)
            BY FS_Interval
        <3> HIDE DEF hits
        <3>4. QED
            BY <3>2, <3>3, FS_Subset
    <2>3. ~(Cardinality(hits) > 1)
        BY <1>2, <1>4
    <2>4. Colocated(home, DatabaseOf(build, build.tables[ref].db))
        BY <1>2, <1>4, <2>3
    <2>5. v = Constrained(build.tables, key, ref, kind)
        BY <1>4, <2>3, <2>4
    <2>6. ref \in hits /\ hits = {ref}
        <3>1. hits # {}
            BY <1>4
        <3> HIDE DEF hits
        <3>2. QED
            BY <2>2, <2>3, <3>1, OneHit
    <2> HIDE DEF hits, ref
    <2>7. v.kind = kind /\ v.ref = ref
        BY <1>3, <2>5
    <2>8. QED
        BY <2>1, <2>4, <2>6, <2>7 DEF Found, hits
<1>5. \/ v.fate = "dropped"
      \/ v = Abroad(w, b, d, at, key)
      \/ \E ref : v = Related(b.tables, key, ref) \/ v = Constrained(b.tables, key, ref, "local")
    BY DEF Verdict, Soft
<1>6. CASE v = Abroad(w, b, d, at, key)
    <2>1. Abroad(w, b, d, at, key) =
            CASE others # {} -> Judge(b, others, "cross database")
              [] others = {} /\ beyond # {} -> Judge(d, beyond, "discovered")
              [] OTHER -> Soft("not found")
        BY Zenon DEF Abroad
    <2>2. CASE others # {}
        <3>1. v = Judge(b, others, "cross database")
            <4> HIDE DEF Judge, others, beyond
            <4>1. QED
                BY <1>6, <2>1, <2>2
        <3>2. Abroadof(b.tables, b.tables[at].db) \subseteq DOMAIN b.tables
            BY DEF Abroadof
        <3> HIDE DEF Judge
        <3>3. Found(w, home, b, DOMAIN b.tables \ InDatabase(b.tables, at), key, "cross database", v)
            BY <1>1, <1>4, <2>2, <3>1, <3>2
        <3>4. QED
            BY <1>1, <3>3
    <2>3. CASE others = {} /\ beyond # {}
        <3>1. v = Judge(d, beyond, "discovered")
            <4> HIDE DEF Judge, others, beyond
            <4>1. QED
                BY <1>6, <2>1, <2>3
        <3> HIDE DEF Judge
        <3>2. QED
            BY <1>4, <2>3, <3>1
    <2>4. CASE others = {} /\ beyond = {}
        <3>1. v = Soft("not found")
            <4> HIDE DEF Judge, others, beyond
            <4>1. QED
                BY <1>6, <2>1, <2>4
        <3>2. QED
            BY <1>2, <3>1
    <2>5. QED
        BY <2>2, <2>3, <2>4
<1>7. \A ref : Related(b.tables, key, ref).fate # "constraint"
    BY <1>2 DEF Related
<1>8. CASE \E ref : v = Constrained(b.tables, key, ref, "local")
    <2>1. PICK ref : v = Constrained(b.tables, key, ref, "local")
        BY <1>8
    <2>2. v.kind = "local"
        BY <1>3, <2>1
    <2>3. QED
        BY <2>2
<1>9. ~(\E ref : v = Related(b.tables, key, ref))
    BY <1>7
<1>10. v.fate # "dropped"
    OBVIOUS
<1>11. QED
    BY <1>5, <1>6, <1>8, <1>9, <1>10

\* So a constraint fits.
LEMMA VerdictFits ==
    ASSUME NEW w, NEW b, IsList(b.tables), NEW d, IsList(d.tables), NEW at \in DOMAIN b.tables,
           NEW key, DOMAIN key = KeyFields,
           NEW v, v = Verdict(w, b, d, at, key), v.fate = "constraint",
           NEW target, target = IF v.kind = "discovered" THEN d.tables[v.ref] ELSE b.tables[v.ref]
    PROVE  ExternalFits(w, b, d, b.tables[at].db, ConstraintOf(key, v, target))
<1> DEFINE new == ConstraintOf(key, v, target)
           home == DatabaseOf(b, b.tables[at].db)
<1>1. /\ new.kind = v.kind /\ new.db = target.db /\ new.type = key.type
      /\ new.pattern = key.pattern /\ new.onDelete = ExternalOnDelete(key)
    BY ConstraintFields
<1> HIDE DEF new
<1>2. new.pattern # <<>> => new.onDelete # "CASCADE"
    BY <1>1 DEF ExternalOnDelete
<1>3. CASE v.kind = "local"
    BY <1>1, <1>3 DEF ExternalFits, new
<1>4. ASSUME NEW c, NEW S, NEW kind, Found(w, home, c, S, key, kind, v), target = c.tables[v.ref]
      PROVE  CertainIn(w, home, c, S, new)
    <2>1. /\ External(w, c.tables, S, key) = {v.ref} /\ v.ref \in S
          /\ Colocated(home, DatabaseOf(c, c.tables[v.ref].db))
        BY <1>4 DEF Found
    <2>2. AnswersIn(w, c.tables, S, new) = {v.ref}
        BY <1>1, <2>1, AnswersAreHits
    <2>3. new.db = c.tables[v.ref].db
        BY <1>1, <1>4
    <2> HIDE DEF home
    <2>4. QED
        BY <2>1, <2>2, <2>3 DEF CertainIn
<1>5. CASE Found(w, home, b, Abroadof(b.tables, b.tables[at].db), key, "cross database", v)
    <2>1. v.kind = "cross database" /\ target = b.tables[v.ref]
        BY <1>5 DEF Found
    <2>2. CertainIn(w, home, b, Abroadof(b.tables, b.tables[at].db), new)
        BY <1>4, <1>5, <2>1
    <2>3. QED
        BY <1>1, <1>2, <2>1, <2>2 DEF ExternalFits, new
<1>6. CASE Found(w, home, d, DOMAIN d.tables, key, "discovered", v)
    <2>1. v.kind = "discovered" /\ target = d.tables[v.ref]
        BY <1>6 DEF Found
    <2>2. CertainIn(w, home, d, DOMAIN d.tables, new)
        BY <1>4, <1>6, <2>1
    <2>3. QED
        BY <1>1, <1>2, <2>1, <2>2 DEF ExternalFits, new
<1>7. QED
    BY <1>3, <1>5, <1>6, ConstraintIsFound

\* A constraint still fits when tables have changed in other ways.
LEMMA ExternalStays ==
    ASSUME NEW w, NEW b, NEW c, Steady(b.tables, c.tables), c.dbs = b.dbs, NEW d, NEW db, NEW key,
           ExternalFits(w, b, d, db, key)
    PROVE  ExternalFits(w, c, d, db, key)
<1>1. \A name : DatabaseOf(c, name) = DatabaseOf(b, name)
    BY DEF DatabaseOf
<1>2. Abroadof(c.tables, db) = Abroadof(b.tables, db) /\ Abroadof(b.tables, db) \subseteq DOMAIN b.tables
    BY DEF Abroadof, Steady
<1>3. \A j \in DOMAIN b.tables : AnswersTo(w, c.tables[j], key) <=> AnswersTo(w, b.tables[j], key)
    <2> SUFFICES ASSUME NEW j \in DOMAIN b.tables
                 PROVE  AnswersTo(w, c.tables[j], key) <=> AnswersTo(w, b.tables[j], key)
        OBVIOUS
    <2>1. ResourceOf(w, c.tables[j]) = ResourceOf(w, b.tables[j])
        BY DEF Steady, ResourceOf
    <2>2. QED
        BY <2>1 DEF AnswersTo, ResourceType
<1> DEFINE S == Abroadof(b.tables, db)
<1>4. AnswersIn(w, c.tables, S, key) = AnswersIn(w, b.tables, S, key)
    BY <1>2, <1>3 DEF AnswersIn
<1> HIDE DEF S
<1>5. \A home : CertainIn(w, home, b, S, key) => CertainIn(w, home, c, S, key)
    <2> SUFFICES ASSUME NEW home, CertainIn(w, home, b, S, key) PROVE CertainIn(w, home, c, S, key)
        OBVIOUS
    <2>1. PICK ref \in S : /\ AnswersIn(w, b.tables, S, key) = {ref} /\ key.db = b.tables[ref].db
                           /\ Colocated(home, DatabaseOf(b, key.db))
        BY DEF CertainIn
    <2>2. c.tables[ref].db = b.tables[ref].db
        BY <1>2 DEF Steady, S
    <2>3. QED
        BY <1>1, <1>4, <2>1, <2>2 DEF CertainIn
<1>6. QED
    BY <1>1, <1>2, <1>5 DEF ExternalFits, S

\* What the four fates of a key have in common.
Resolving ==
    /\ pc = "resolve" /\ pending # <<>> /\ pending' = Tail(pending)
    /\ UNCHANGED <<world, pc, todo, dbs, embeds, joins, found, outcome>>
    /\ diags \subseteq diags' /\ IsList(tables') /\ DOMAIN tables' = DOMAIN tables
    /\ \A i \in DOMAIN tables : Settles(world, Run, found, tables[i], tables'[i])
    /\ \/ RefReported(diags')
       \/ /\ \A i \in DOMAIN tables : tables'[i].unresolved = tables[i].unresolved
          /\ Holds(tables'[At], Key)

\* A key is resolved, or reported.
LEMMA ResolvingKeeps ==
    ASSUME TablesInv, KeysInv, Resolving
    PROVE  TablesInv' /\ BuildInv' /\ KeysInv' /\ Steady(tables, tables')
<1>1. /\ pc = "resolve" /\ pending # <<>> /\ pending' = Tail(pending)
      /\ world' = world /\ pc' = pc /\ todo' = todo /\ dbs' = dbs /\ embeds' = embeds
      /\ joins' = joins /\ found' = found /\ outcome' = outcome
      /\ diags \subseteq diags' /\ IsList(tables') /\ DOMAIN tables' = DOMAIN tables
    BY DEF Resolving
<1>2. \A i \in DOMAIN tables : Settles(world, Run, found, tables[i], tables'[i])
    BY DEF Resolving
<1>3. Steady(tables, tables')
    BY <1>1, <1>2 DEF Steady, AreTables, Settles
<1>4. /\ IsList(pending) /\ IsList(Tail(pending)) /\ 1 \in DOMAIN pending
      /\ \A n \in DOMAIN Tail(pending) : n + 1 \in DOMAIN pending /\ Tail(pending)[n] = pending[n + 1]
      /\ \A n \in DOMAIN pending : n = 1 \/ (n - 1 \in DOMAIN Tail(pending) /\ Tail(pending)[n - 1] = pending[n])
    BY <1>1, ListTail DEF TablesInv, PendingFits
<1>5. PendingFits(tables', pending')
    BY <1>1, <1>4 DEF TablesInv, PendingFits
<1>6. TablesInv'
    BY <1>1, <1>3, <1>5, SteadyKeeps DEF TablesInv, Steady
<1>7. BuildInv'
    BY <1>1 DEF BuildInv, Early
<1>8. ASSUME NEW i \in DOMAIN tables, Holds(tables'[At], Key), NEW key \in KeysOf(tables, pending, i)
      PROVE  \E new \in KeysOf(tables', pending', i) : new.column = key.column /\ new.proto = key.proto
    <2>1. CASE key \in AllKeys(tables[i])
        BY <1>2, <2>1 DEF Settles, KeysOf
    <2>2. CASE key \in Waiting(pending, i)
        <3>1. PICK n \in DOMAIN pending : pending[n][1] = i /\ pending[n][2] = key
            BY <2>2 DEF Waiting
        <3>2. CASE n = 1
            BY <1>8, <3>1, <3>2 DEF Holds, At, Key, KeysOf
        <3>3. CASE n # 1
            <4>1. key \in Waiting(pending', i)
                BY <1>1, <1>4, <3>1, <3>3 DEF Waiting
            <4>2. QED
                BY <4>1 DEF KeysOf
        <3>4. QED
            BY <3>2, <3>3
    <2>3. QED
        BY <1>8, <2>1, <2>2 DEF KeysOf
<1>9. ASSUME NEW i \in DOMAIN tables, Holds(tables'[At], Key), Owes(world, tables, pending, i)
      PROVE  Owes(world, tables', pending', i)
    <2>1. /\ tables'[i].proto = tables[i].proto /\ tables'[i].db = tables[i].db
        BY <1>3 DEF Steady
    <2>2. ASSUME tables[i].proto # 0, NEW f \in Kept(world, tables[i].proto),
                 IsReference(world, tables[i].proto, f)
          PROVE  \E key \in KeysOf(tables', pending', i) : key.column = ColumnName(world, tables[i].proto, f)
        <3>1. PICK key \in KeysOf(tables, pending, i) : key.column = ColumnName(world, tables[i].proto, f)
            BY <1>9, <2>2 DEF Owes
        <3>2. QED
            BY <1>8, <1>9, <3>1
    <2>3. ASSUME tables[i].proto # 0, NEW f \in Kept(world, tables[i].proto),
                 IsJoin(world, tables[i].proto, f)
          PROVE  \E j \in DOMAIN tables' :
                    /\ tables'[j].proto = 0 /\ tables'[j].field = f /\ tables'[j].db = tables'[i].db
                    /\ \E key \in KeysOf(tables', pending', j) : key.proto = tables[i].proto
        <3>1. PICK j \in DOMAIN tables :
                    /\ tables[j].proto = 0 /\ tables[j].field = f /\ tables[j].db = tables[i].db
                    /\ \E key \in KeysOf(tables, pending, j) : key.proto = tables[i].proto
            BY <1>9, <2>3 DEF Owes
        <3>2. PICK key \in KeysOf(tables, pending, j) : key.proto = tables[i].proto
            BY <3>1
        <3>3. \E new \in KeysOf(tables', pending', j) : new.proto = key.proto
            BY <1>8, <1>9, <3>2
        <3>4. /\ j \in DOMAIN tables' /\ tables'[j].proto = 0 /\ tables'[j].field = f
              /\ tables'[j].db = tables'[i].db
            BY <1>1, <1>3, <2>1, <3>1 DEF Steady
        <3>5. QED
            BY <3>2, <3>3, <3>4
    <2>4. QED
        BY <2>1, <2>2, <2>3 DEF Owes
<1>10. /\ Accounted(world, tables, pending, diags) /\ \A i \in DOMAIN tables : SoftIndexed(tables[i]) \/ Finished
       /\ ExternalsFit(world, Run, found) /\ IsList(found.tables)
    BY <1>1 DEF KeysInv, Late
<1>11. Accounted(world', tables', pending', diags')
    <2>1. CASE RefReported(diags')
        BY <2>1 DEF Accounted
    <2>2. CASE ~RefReported(diags')
        <3>1. ~RefReported(diags)
            BY <1>1, <2>2 DEF RefReported
        <3>2. /\ \A i \in DOMAIN tables : tables'[i].unresolved = tables[i].unresolved
              /\ Holds(tables'[At], Key)
            BY <2>2 DEF Resolving
        <3>3. \A i \in DOMAIN tables : tables[i].unresolved = <<>> /\ Owes(world, tables, pending, i)
            BY <1>10, <3>1 DEF Accounted
        <3>4. \A i \in DOMAIN tables' : tables'[i].unresolved = <<>> /\ Owes(world, tables', pending', i)
            BY <1>1, <1>9, <3>2, <3>3
        <3>5. QED
            BY <1>1, <3>4 DEF Accounted
    <2>3. QED
        BY <2>1, <2>2
<1>12. \A i \in DOMAIN tables' : SoftIndexed(tables'[i]) \/ Finished'
    BY <1>1, <1>2, <1>10 DEF Settles, Finished
<1>13. ExternalsFit(world', Run', found')
    <2>1. Run'.tables = tables' /\ Run'.dbs = dbs /\ Run.tables = tables /\ Run.dbs = dbs
        BY <1>1 DEF Run
    <2>2. ASSUME NEW i \in DOMAIN tables', NEW k \in DOMAIN tables'[i].external
          PROVE  ExternalFits(world, Run', found, tables'[i].db, tables'[i].external[k])
        <3>1. tables'[i].db = tables[i].db /\ i \in DOMAIN tables
            BY <1>1, <1>3 DEF Steady
        <3>2. \/ \E l \in DOMAIN tables[i].external : tables'[i].external[k] = tables[i].external[l]
              \/ ExternalFits(world, Run, found, tables[i].db, tables'[i].external[k])
            BY <1>2, <2>2, <3>1 DEF Settles
        <3>3. ExternalFits(world, Run, found, tables[i].db, tables'[i].external[k])
            BY <1>10, <2>1, <3>1, <3>2 DEF ExternalsFit
        <3>4. QED
            BY <1>3, <2>1, <3>1, <3>3, ExternalStays
    <2>3. QED
        BY <1>1, <2>1, <2>2 DEF ExternalsFit
<1>14. KeysInv'
    BY <1>1, <1>10, <1>11, <1>12, <1>13 DEF KeysInv
<1>15. QED
    BY <1>3, <1>6, <1>7, <1>14

ResolveStep == DropKey \/ RelateKey \/ ConstrainKey \/ SoftenKey

\* The table that a key is of.
LEMMA KeyOfTable ==
    ASSUME TablesInv, pending # <<>>
    PROVE  /\ At \in DOMAIN tables /\ DOMAIN Key = KeyFields /\ IsList(tables)
           /\ \A i \in DOMAIN tables : IsTable(tables[i])
<1>1. 1 \in DOMAIN pending
    BY ListTail DEF TablesInv, PendingFits
<1>2. QED
    BY <1>1 DEF TablesInv, PendingFits, AreTables, At, Key

\* A table of a list is replaced.
LEMMA ListReplaced ==
    ASSUME NEW ts, IsList(ts), NEW k, NEW u
    PROVE  /\ IsList([ts EXCEPT ![k] = u]) /\ DOMAIN [ts EXCEPT ![k] = u] = DOMAIN ts
           /\ \A i \in DOMAIN ts : [ts EXCEPT ![k] = u][i] = IF i = k THEN u ELSE ts[i]
<1>1. PICK n \in Nat : DOMAIN ts = 1 .. n /\ ts = [i \in 1 .. n |-> ts[i]]
    BY ListIsFunction
<1> DEFINE us == [ts EXCEPT ![k] = u]
<1>2. us = [i \in 1 .. n |-> us[i]] /\ DOMAIN us = 1 .. n /\ \A i \in 1 .. n : us[i] = IF i = k THEN u ELSE ts[i]
    BY <1>1
<1> HIDE DEF us
<1>3. IsList(us)
    BY <1>2, FunctionIsList
<1>4. QED
    BY <1>1, <1>2, <1>3 DEF us

\* Whatever becomes of a key, it is resolved.
LEMMA ResolvesIsResolving ==
    ASSUME TablesInv, KeysInv, ResolveStep
    PROVE  Resolving
<1>1. /\ pc = "resolve" /\ pending # <<>> /\ pending' = Tail(pending)
      /\ UNCHANGED <<world, pc, todo, dbs, embeds, joins, found, outcome>>
    BY DEF ResolveStep, DropKey, RelateKey, ConstrainKey, SoftenKey, Resolves
<1>2. /\ At \in DOMAIN tables /\ DOMAIN Key = KeyFields /\ IsList(tables)
      /\ \A i \in DOMAIN tables : IsTable(tables[i])
    BY <1>1, KeyOfTable
<1>3. \A i \in DOMAIN tables : Settles(world, Run, found, tables[i], tables[i])
    BY <1>2, SettlesOn
<1>4. ASSUME Reported PROVE diags \subseteq diags' /\ RefReported(diags')
    <2> DEFINE d == <<"ref", Decided.why, tables[At].proto, Key.column>>
    <2>1. diags' = diags \cup {d}
        BY <1>4 DEF Reported
    <2>2. d[1] = "ref"
        OBVIOUS
    <2> HIDE DEF d
    <2>3. QED
        BY <2>1, <2>2 DEF RefReported
<1>5. ASSUME NEW u, Settles(world, Run, found, tables[At], u), NEW us, us = [tables EXCEPT ![At] = u]
      PROVE  /\ IsList(us) /\ DOMAIN us = DOMAIN tables
             /\ \A i \in DOMAIN tables : us[i] = IF i = At THEN u ELSE tables[i]
             /\ \A i \in DOMAIN tables : Settles(world, Run, found, tables[i], us[i])
    <2>1. /\ IsList(us) /\ DOMAIN us = DOMAIN tables
          /\ \A i \in DOMAIN tables : us[i] = IF i = At THEN u ELSE tables[i]
        BY <1>2, <1>5, ListReplaced
    <2>2. QED
        BY <1>3, <1>5, <2>1
<1>6. CASE DropKey
    BY <1>1, <1>2, <1>3, <1>4, <1>6 DEF DropKey, Resolving
<1>7. CASE SoftenKey
    <2> DEFINE u == SoftFK(tables[At], Key, Decided)
    <2>1. tables' = [tables EXCEPT ![At] = u] /\ Reported
        BY <1>7 DEF SoftenKey
    <2>2. Settles(world, Run, found, tables[At], u)
        BY <1>2, SoftSettles
    <2> HIDE DEF u
    <2>3. /\ IsList(tables') /\ DOMAIN tables' = DOMAIN tables
          /\ \A i \in DOMAIN tables : Settles(world, Run, found, tables[i], tables'[i])
        BY <1>5, <2>1, <2>2
    <2>4. QED
        BY <1>1, <1>4, <2>1, <2>3 DEF Resolving
<1>8. CASE ConstrainKey
    <2> DEFINE u == Constrain(tables[At], Key, Decided, Target)
    <2>1. tables' = [tables EXCEPT ![At] = u] /\ diags' = diags /\ Decided.fate = "constraint"
        BY <1>8 DEF ConstrainKey, Resolves
    <2>2. ExternalFits(world, Run, found, tables[At].db, ConstraintOf(Key, Decided, Target))
        <3>1. Run.tables = tables /\ IsList(found.tables)
            BY <1>1 DEF Run, KeysInv, Late
        <3>2. /\ Decided = Verdict(world, Run, found, At, Key)
              /\ Target = IF Decided.kind = "discovered" THEN found.tables[Decided.ref]
                          ELSE Run.tables[Decided.ref]
            BY <3>1 DEF Decided, Target
        <3>3. ExternalFits(world, Run, found, Run.tables[At].db, ConstraintOf(Key, Decided, Target))
            BY <1>2, <2>1, <3>1, <3>2, VerdictFits
        <3>4. QED
            BY <3>1, <3>3
    <2>3. /\ Settles(world, Run, found, tables[At], u) /\ Holds(u, Key)
          /\ u.unresolved = tables[At].unresolved
        BY <1>2, <2>2, ConstrainSettles
    <2> HIDE DEF u
    <2>4. /\ IsList(tables') /\ DOMAIN tables' = DOMAIN tables
          /\ \A i \in DOMAIN tables : tables'[i] = IF i = At THEN u ELSE tables[i]
          /\ \A i \in DOMAIN tables : Settles(world, Run, found, tables[i], tables'[i])
        BY <1>5, <2>1, <2>3
    <2>5. Holds(tables'[At], Key) /\ \A i \in DOMAIN tables : tables'[i].unresolved = tables[i].unresolved
        BY <1>2, <2>3, <2>4
    <2>6. QED
        BY <1>1, <2>1, <2>4, <2>5 DEF Resolving
<1>9. CASE RelateKey
    <2> DEFINE u == Relate(tables[At], Key, Decided, Target)
               us == [tables EXCEPT ![At] = u]
               ref == Decided.ref
               v == HasMany(us[ref], tables[At], Key)
    <2>1. tables' = [us EXCEPT ![ref] = v] /\ diags' = diags
        BY <1>9 DEF RelateKey
    <2>2. /\ Settles(world, Run, found, tables[At], u) /\ Holds(u, Key)
          /\ u.unresolved = tables[At].unresolved
        BY <1>2, RelateSettles
    <2> HIDE DEF u
    <2>3. /\ IsList(us) /\ DOMAIN us = DOMAIN tables
          /\ \A i \in DOMAIN tables : us[i] = IF i = At THEN u ELSE tables[i]
          /\ \A i \in DOMAIN tables : Settles(world, Run, found, tables[i], us[i])
        BY <1>5, <2>2
    <2> HIDE DEF us
    <2>4. \A i \in DOMAIN tables : IsTable(us[i])
        BY <2>3 DEF Settles
    <2>5. ref \in DOMAIN tables => /\ Settles(world, Run, found, us[ref], v)
                                   /\ AllKeys(v) = AllKeys(us[ref])
                                   /\ v.unresolved = us[ref].unresolved
        BY <2>4, HasManySettles
    <2> HIDE DEF v, ref
    <2>6. /\ IsList(tables') /\ DOMAIN tables' = DOMAIN us
          /\ \A i \in DOMAIN us : tables'[i] = IF i = ref THEN v ELSE us[i]
        BY <2>1, <2>3, ListReplaced
    <2>7. \A i \in DOMAIN tables : Settles(world, Run, found, tables[i], tables'[i])
        BY <1>2, <2>3, <2>5, <2>6, SettlesOn
    <2>8. \A i \in DOMAIN tables : tables'[i].unresolved = tables[i].unresolved
        BY <2>2, <2>3, <2>5, <2>6
    <2>9. AllKeys(tables'[At]) = AllKeys(u)
        BY <1>2, <2>3, <2>5, <2>6
    <2>10. Holds(tables'[At], Key)
        BY <2>2, <2>9 DEF Holds
    <2>11. QED
        BY <1>1, <2>1, <2>3, <2>6, <2>7, <2>8, <2>10 DEF Resolving
<1>10. QED
    BY <1>6, <1>7, <1>8, <1>9 DEF ResolveStep

-----------------------------------------------------------------------------
\* Once the keys are resolved

\* A table that keeps its keys, whatever else changes.
Carries(t, u) ==
    /\ IsTable(u) /\ u.db = t.db /\ u.proto = t.proto /\ u.value = t.value /\ u.field = t.field
    /\ SameNames(t, u) /\ u.external = t.external /\ u.unresolved = t.unresolved
    /\ \A k \in DOMAIN t.keys : /\ k \in DOMAIN u.keys /\ u.keys[k].column = t.keys[k].column
                                /\ u.keys[k].proto = t.keys[k].proto

\* So it does with the keys of whatever list.
LEMMA CarriesKeys ==
    ASSUME NEW t, NEW u, Carries(t, u), NEW key \in AllKeys(t)
    PROVE  \E new \in AllKeys(u) : new.column = key.column /\ new.proto = key.proto
<1>1. \A s : ToSet(s) = {s[i] : i \in DOMAIN s}
    BY DEF ToSet
<1>2. CASE key \in ToSet(t.keys)
    <2>1. PICK k \in DOMAIN t.keys : key = t.keys[k]
        BY <1>1, <1>2
    <2>2. u.keys[k] \in ToSet(u.keys)
        BY <1>1 DEF Carries
    <2>3. QED
        BY <2>1, <2>2 DEF Carries, AllKeys
<1>3. CASE key \notin ToSet(t.keys)
    BY <1>3 DEF Carries, AllKeys
<1>4. QED
    BY <1>2, <1>3

\* What the steps after the keys have in common.
Closing ==
    /\ pc \in Late /\ pending = <<>> /\ pc' \in (Late \ {"resolve"}) \cup {"done"}
    /\ UNCHANGED <<world, todo, dbs, pending, found>>
    /\ diags \subseteq diags' /\ IsList(tables') /\ DOMAIN tables' = DOMAIN tables
    /\ \A i \in DOMAIN tables : Carries(tables[i], tables'[i])
    /\ \A i \in DOMAIN tables : SoftIndexed(tables'[i]) \/ Finished'

\* What is known of the keys stays known.
LEMMA ClosingKeeps ==
    ASSUME TablesInv, KeysInv, Closing
    PROVE  TablesInv' /\ BuildInv' /\ KeysInv' /\ Steady(tables, tables')
<1>1. /\ pc \in Late /\ pending = <<>> /\ pc' \in (Late \ {"resolve"}) \cup {"done"}
      /\ world' = world /\ todo' = todo /\ dbs' = dbs /\ pending' = pending /\ found' = found
      /\ diags \subseteq diags' /\ IsList(tables') /\ DOMAIN tables' = DOMAIN tables
    BY DEF Closing
<1>2. \A i \in DOMAIN tables : Carries(tables[i], tables'[i])
    BY DEF Closing
<1>3. Steady(tables, tables')
    BY <1>1, <1>2 DEF Steady, AreTables, Carries
<1>4. TablesInv'
    BY <1>1, <1>3, SteadyKeeps DEF TablesInv, Steady, Late
<1>5. BuildInv'
    BY <1>1 DEF BuildInv, Early, Late
<1>6. /\ Accounted(world, tables, pending, diags) /\ ExternalsFit(world, Run, found)
      /\ IsList(found.tables)
    BY <1>1 DEF KeysInv
<1>7. ASSUME NEW i \in DOMAIN tables, NEW key \in KeysOf(tables, pending, i)
      PROVE  \E new \in KeysOf(tables', pending', i) : new.column = key.column /\ new.proto = key.proto
    <2>1. key \in AllKeys(tables[i])
        BY <1>1, <1>7, ShortLists DEF KeysOf, Waiting
    <2>2. QED
        BY <1>2, <2>1, CarriesKeys DEF KeysOf
<1>8. ASSUME NEW i \in DOMAIN tables, Owes(world, tables, pending, i)
      PROVE  Owes(world, tables', pending', i)
    <2>1. /\ tables'[i].proto = tables[i].proto /\ tables'[i].db = tables[i].db
        BY <1>3 DEF Steady
    <2>2. ASSUME tables[i].proto # 0, NEW f \in Kept(world, tables[i].proto),
                 IsReference(world, tables[i].proto, f)
          PROVE  \E key \in KeysOf(tables', pending', i) : key.column = ColumnName(world, tables[i].proto, f)
        <3>1. PICK key \in KeysOf(tables, pending, i) : key.column = ColumnName(world, tables[i].proto, f)
            BY <1>8, <2>2 DEF Owes
        <3>2. QED
            BY <1>7, <3>1
    <2>3. ASSUME tables[i].proto # 0, NEW f \in Kept(world, tables[i].proto),
                 IsJoin(world, tables[i].proto, f)
          PROVE  \E j \in DOMAIN tables' :
                    /\ tables'[j].proto = 0 /\ tables'[j].field = f /\ tables'[j].db = tables'[i].db
                    /\ \E key \in KeysOf(tables', pending', j) : key.proto = tables[i].proto
        <3>1. PICK j \in DOMAIN tables :
                    /\ tables[j].proto = 0 /\ tables[j].field = f /\ tables[j].db = tables[i].db
                    /\ \E key \in KeysOf(tables, pending, j) : key.proto = tables[i].proto
            BY <1>8, <2>3 DEF Owes
        <3>2. PICK key \in KeysOf(tables, pending, j) : key.proto = tables[i].proto
            BY <3>1
        <3>3. \E new \in KeysOf(tables', pending', j) : new.proto = key.proto
            BY <1>7, <3>2
        <3>4. /\ j \in DOMAIN tables' /\ tables'[j].proto = 0 /\ tables'[j].field = f
              /\ tables'[j].db = tables'[i].db
            BY <1>1, <1>3, <2>1, <3>1 DEF Steady
        <3>5. QED
            BY <3>2, <3>3, <3>4
    <2>4. QED
        BY <2>1, <2>2, <2>3 DEF Owes
<1>9. Accounted(world', tables', pending', diags')
    <2>1. CASE RefReported(diags)
        BY <1>1, <2>1 DEF Accounted, RefReported
    <2>2. CASE ~RefReported(diags)
        <3>1. \A i \in DOMAIN tables : tables[i].unresolved = <<>> /\ Owes(world, tables, pending, i)
            BY <1>6, <2>2 DEF Accounted
        <3>2. \A i \in DOMAIN tables' : tables'[i].unresolved = <<>> /\ Owes(world, tables', pending', i)
            BY <1>1, <1>2, <1>8, <3>1 DEF Carries
        <3>3. QED
            BY <1>1, <3>2 DEF Accounted
    <2>3. QED
        BY <2>1, <2>2
<1>10. ExternalsFit(world', Run', found')
    <2>1. Run'.tables = tables' /\ Run'.dbs = dbs /\ Run.tables = tables /\ Run.dbs = dbs
        BY <1>1 DEF Run
    <2>2. ASSUME NEW i \in DOMAIN tables', NEW k \in DOMAIN tables'[i].external
          PROVE  ExternalFits(world, Run', found, tables'[i].db, tables'[i].external[k])
        <3>1. /\ tables'[i].db = tables[i].db /\ i \in DOMAIN tables
              /\ tables'[i].external = tables[i].external
            BY <1>1, <1>2 DEF Carries
        <3>2. ExternalFits(world, Run, found, tables[i].db, tables'[i].external[k])
            BY <1>6, <2>1, <2>2, <3>1 DEF ExternalsFit
        <3>3. QED
            BY <1>3, <2>1, <3>1, <3>2, ExternalStays
    <2>3. QED
        BY <1>1, <2>1, <2>2 DEF ExternalsFit
<1>11. \A i \in DOMAIN tables' : SoftIndexed(tables'[i]) \/ Finished'
    BY <1>1 DEF Closing
<1>12. KeysInv'
    BY <1>1, <1>6, <1>9, <1>10, <1>11 DEF KeysInv
<1>13. QED
    BY <1>3, <1>4, <1>5, <1>12

\* A table carries its own keys.
LEMMA CarriesSelf ==
    ASSUME NEW t, IsTable(t)
    PROVE  Carries(t, t)
BY DEF Carries, SameNames

\* Relations get names.
LEMMA RelationsCarry ==
    ASSUME NEW ts, AreTables(ts)
    PROVE  /\ IsList(NameRelations(ts)) /\ DOMAIN NameRelations(ts) = DOMAIN ts
           /\ \A i \in DOMAIN ts : /\ Carries(ts[i], NameRelations(ts)[i])
                                   /\ NameRelations(ts)[i].indexes = ts[i].indexes
<1> DEFINE us == NameRelations(ts)
           Key2(i, k) == [ts[i].keys[k] EXCEPT !.relation = RelationName(ts, i, k)]
           Keys2(i) == [k \in DOMAIN ts[i].keys |-> Key2(i, k)]
           Many2(i) == [e \in DOMAIN ts[i].many |-> [ts[i].many[e] EXCEPT !.relation = NameMany(ts, i, e)]]
<1>1. us = [i \in DOMAIN ts |-> [ts[i] EXCEPT !.keys = Keys2(i), !.many = Many2(i)]]
    BY DEF NameRelations
<1>2. PICK n \in Nat : DOMAIN ts = 1 .. n
    BY ListIsFunction DEF AreTables
<1> HIDE DEF us, Many2
<1>3. ASSUME NEW i \in DOMAIN ts
      PROVE  /\ AreKeys(Keys2(i)) /\ DOMAIN Keys2(i) = DOMAIN ts[i].keys
             /\ \A k \in DOMAIN ts[i].keys : /\ Keys2(i)[k].column = ts[i].keys[k].column
                                             /\ Keys2(i)[k].proto = ts[i].keys[k].proto
    <2>1. AreKeys(ts[i].keys)
        BY DEF AreTables, IsTable
    <2>2. PICK m \in Nat : DOMAIN ts[i].keys = 1 .. m
        BY <2>1, ListIsFunction DEF AreKeys
    <2>3. \A k \in DOMAIN ts[i].keys : /\ DOMAIN Key2(i, k) = KeyFields
                                       /\ Key2(i, k).column = ts[i].keys[k].column
                                       /\ Key2(i, k).proto = ts[i].keys[k].proto
        BY <2>1 DEF AreKeys, KeyFields
    <2> HIDE DEF Key2
    <2>4. /\ Keys2(i) = [k \in 1 .. m |-> Keys2(i)[k]] /\ DOMAIN Keys2(i) = 1 .. m
          /\ \A k \in 1 .. m : Keys2(i)[k] = Key2(i, k)
        BY <2>2
    <2> HIDE DEF Keys2
    <2>5. IsList(Keys2(i))
        BY <2>4, FunctionIsList
    <2>6. QED
        BY <2>2, <2>3, <2>4, <2>5 DEF AreKeys
<1> HIDE DEF Keys2
<1>4. us = [i \in 1 .. n |-> us[i]] /\ DOMAIN us = 1 .. n
    BY <1>1, <1>2
<1>5. IsList(us)
    BY <1>4, FunctionIsList
<1>6. ASSUME NEW i \in DOMAIN ts PROVE Carries(ts[i], us[i]) /\ us[i].indexes = ts[i].indexes
    <2>1. us[i] = [ts[i] EXCEPT !.keys = Keys2(i), !.many = Many2(i)]
        BY <1>1
    <2>2. IsTable(ts[i])
        BY DEF AreTables
    <2>3. /\ AreKeys(Keys2(i)) /\ DOMAIN Keys2(i) = DOMAIN ts[i].keys
          /\ \A k \in DOMAIN ts[i].keys : /\ Keys2(i)[k].column = ts[i].keys[k].column
                                          /\ Keys2(i)[k].proto = ts[i].keys[k].proto
        BY <1>3
    <2>4. /\ IsTable(us[i]) /\ us[i].keys = Keys2(i) /\ us[i].external = ts[i].external
          /\ us[i].unresolved = ts[i].unresolved /\ us[i].db = ts[i].db /\ us[i].proto = ts[i].proto
          /\ us[i].value = ts[i].value /\ us[i].field = ts[i].field /\ us[i].indexes = ts[i].indexes
          /\ SameNames(ts[i], us[i])
        BY <2>1, <2>2, <2>3 DEF IsTable, TableFields, SameNames
    <2>5. QED
        BY <2>3, <2>4 DEF Carries
<1>7. QED
    BY <1>2, <1>4, <1>5, <1>6 DEF us

\* Columns are marked unique.
LEMMA EnrichedCarries ==
    ASSUME NEW t, IsTable(t), NEW readers
    PROVE  /\ Carries(t, Enriched(t, readers)) /\ Enriched(t, readers).indexes = t.indexes
<1>1. PICK columns : Enriched(t, readers) = [t EXCEPT !.columns = columns]
    BY DEF Enriched
<1>2. QED
    BY <1>1 DEF Carries, IsTable, TableFields, SameNames

-----------------------------------------------------------------------------
\* Indexes

\* Indexes change, and what leads still does.
Indexed(t, u) ==
    /\ \E xs : AreIndexes(xs) /\ u = [t EXCEPT !.indexes = xs]
    /\ \A c : Leads(t, c) => Leads(u, c)

\* The table carries its keys.
LEMMA IndexedCarries ==
    ASSUME NEW t, IsTable(t), NEW u, u = t \/ Indexed(t, u)
    PROVE  /\ Carries(t, u) /\ u.columns = t.columns /\ u.keys = t.keys
           /\ \A c : Leads(t, c) => Leads(u, c)
BY CarriesSelf DEF Indexed, Carries, IsTable, TableFields, SameNames

\* What leads when columns stay: the indexes decide.
LEMMA LeadsByIndexes ==
    ASSUME NEW t, IsTable(t), NEW xs, NEW u, u = [t EXCEPT !.indexes = xs], NEW c
    PROVE  /\ (\E i \in DOMAIN xs : xs[i].columns # <<>> /\ Head(xs[i].columns) = c) => Leads(u, c)
           /\ Leads(t, c) =>
                 \/ Leads(u, c)
                 \/ \E i \in DOMAIN t.indexes : t.indexes[i].columns # <<>> /\ Head(t.indexes[i].columns) = c
<1>1. u.columns = t.columns /\ u.indexes = xs
    BY DEF IsTable, TableFields
<1>2. QED
    BY <1>1 DEF Leads

\* An index more.
LEMMA IndexAppended ==
    ASSUME NEW t, IsTable(t), NEW x, IsIndex(x), NEW u, u = [t EXCEPT !.indexes = Append(@, x)]
    PROVE  /\ Indexed(t, u)
           /\ x.columns # <<>> => Leads(u, Head(x.columns))
<1> DEFINE xs == Append(t.indexes, x)
<1>1. u = [t EXCEPT !.indexes = xs]
    OBVIOUS
<1>2. /\ AreIndexes(xs) /\ DOMAIN xs = DOMAIN t.indexes \cup {Len(t.indexes) + 1}
      /\ \A i \in DOMAIN t.indexes : xs[i] = t.indexes[i]
      /\ xs[Len(t.indexes) + 1] = x
    BY IndexAdded, ListAppend DEF IsTable, AreIndexes
<1> HIDE DEF xs
<1>3. \A c : Leads(t, c) => Leads(u, c)
    BY <1>1, <1>2, LeadsByIndexes
<1>4. x.columns # <<>> => Leads(u, Head(x.columns))
    BY <1>1, <1>2, LeadsByIndexes
<1>5. QED
    BY <1>1, <1>2, <1>3, <1>4 DEF Indexed

\* A list of two begins with the first.
LEMMA PairLists ==
    \A a, b : IsList(<<a, b>>) /\ <<a, b>> # <<>> /\ Head(<<a, b>>) = a
<1> SUFFICES ASSUME NEW a, NEW b PROVE IsList(<<a, b>>) /\ <<a, b>> # <<>> /\ Head(<<a, b>>) = a
    OBVIOUS
<1>1. <<a, b>> = [i \in 1 .. 2 |-> <<a, b>>[i]]
    OBVIOUS
<1>2. IsList(<<a, b>>)
    BY <1>1, FunctionIsList
<1>3. QED
    BY <1>2

\* A list of one begins with it.
LEMMA SingleLists ==
    \A c : <<c>> # <<>> /\ Head(<<c>>) = c
OBVIOUS

\* The index of the parent gives way to one that the parent leads too.
LEMMA PagingIndexed ==
    ASSUME NEW t, IsTable(t)
    PROVE  IndexParentPaging(t) = t \/ Indexed(t, IndexParentPaging(t))
<1> DEFINE parent == IdColumn(Last(t.parents))
           paging == <<parent, t.pk>>
           others == {i \in DOMAIN t.indexes : LET x == t.indexes[i] IN
                         x.name # NoName \/ x.unique \/ x.columns # <<parent>>}
           kept == Picked(t.indexes, others)
           x == NewIndex(paging)
           xs == Append(kept, x)
           u == [t EXCEPT !.indexes = xs]
<1>1. IndexParentPaging(t) = t \/ IndexParentPaging(t) = u
    BY DEF IndexParentPaging
<1>2. /\ AreIndexes(t.indexes) /\ others \subseteq DOMAIN t.indexes
      /\ \A i \in DOMAIN t.indexes : i \notin others => t.indexes[i].columns = <<parent>>
    BY DEF IsTable
<1> HIDE DEF others
<1>3. /\ IsList(kept) /\ \A n \in DOMAIN kept : \E i \in others : kept[n] = t.indexes[i]
      /\ \A i \in others : \E n \in DOMAIN kept : kept[n] = t.indexes[i]
    BY <1>2, PickedLists DEF AreIndexes
<1> HIDE DEF kept
<1>4. AreIndexes(kept)
    BY <1>2, <1>3 DEF AreIndexes
<1>5. IsIndex(x) /\ x.columns = paging /\ paging # <<>> /\ Head(paging) = parent
    BY PairLists, NewIndexIsIndex
<1> HIDE DEF x, paging
<1>6. /\ AreIndexes(xs) /\ DOMAIN xs = DOMAIN kept \cup {Len(kept) + 1}
      /\ \A i \in DOMAIN kept : xs[i] = kept[i]
      /\ xs[Len(kept) + 1] = x
    BY <1>4, <1>5, IndexAdded, ListAppend DEF AreIndexes
<1> HIDE DEF xs, parent
<1>7. ASSUME NEW c, Leads(t, c) PROVE Leads(u, c)
    <2>1. CASE \E i \in DOMAIN t.indexes : t.indexes[i].columns # <<>> /\ Head(t.indexes[i].columns) = c
        <3>1. PICK i \in DOMAIN t.indexes : t.indexes[i].columns # <<>> /\ Head(t.indexes[i].columns) = c
            BY <2>1
        <3>2. \E n \in DOMAIN xs : xs[n].columns # <<>> /\ Head(xs[n].columns) = c
            <4>1. CASE i \in others
                <5>1. PICK n \in DOMAIN kept : kept[n] = t.indexes[i]
                    BY <1>3, <4>1
                <5>2. QED
                    BY <1>6, <3>1, <5>1
            <4>2. CASE i \notin others
                <5>1. c = parent
                    BY <1>2, <3>1, <4>2, SingleLists
                <5>2. QED
                    BY <1>5, <1>6, <5>1
            <4>3. QED
                BY <4>1, <4>2
        <3>3. QED
            BY <3>2, LeadsByIndexes
    <2>2. QED
        BY <1>7, <2>1, LeadsByIndexes
<1>8. Indexed(t, u)
    BY <1>6, <1>7 DEF Indexed
<1>9. QED
    BY <1>1, <1>8

\* g indexes the first k foreign keys of the table.
Covered(s, column) ==
    IF Leads(s, column) THEN s ELSE [s EXCEPT !.indexes = Append(@, NewIndex(<<column>>))]
Covers(t, g, k) == g = [n \in 0 .. k |-> IF n = 0 THEN t ELSE Covered(g[n - 1], t.keys[n].column)]

\* There is such a function.
LEMMA KeysCover ==
    ASSUME NEW t, NEW m \in Nat
    PROVE  \E g : Covers(t, g, m)
<1> DEFINE T == {k \in 0 .. m : \E g : Covers(t, g, k)}
<1>1. 0 \in T
    <2>1. 0 .. 0 = {0}
        OBVIOUS
    <2>2. Covers(t, [n \in 0 .. 0 |-> t], 0)
        BY <2>1 DEF Covers
    <2>3. QED
        BY <2>2
<1>2. ASSUME NEW k \in (0 + 1) .. m, k - 1 \in T PROVE k \in T
    <2>1. PICK g : Covers(t, g, k - 1)
        BY <1>2
    <2> DEFINE h == [n \in 0 .. k |-> IF n = k THEN Covered(g[k - 1], t.keys[k].column) ELSE g[n]]
    <2>2. \A n \in 0 .. k : h[n] = IF n = 0 THEN t ELSE Covered(h[n - 1], t.keys[n].column)
        <3> SUFFICES ASSUME NEW n \in 0 .. k
                     PROVE  h[n] = IF n = 0 THEN t ELSE Covered(h[n - 1], t.keys[n].column)
            OBVIOUS
        <3>1. CASE n = k
            BY <1>2, <3>1
        <3>2. CASE n # k
            <4>1. n \in 0 .. (k - 1) /\ (n # 0 => n - 1 \in 0 .. (k - 1) /\ n - 1 # k)
                BY <3>2
            <4>2. g[n] = IF n = 0 THEN t ELSE Covered(g[n - 1], t.keys[n].column)
                BY <2>1, <4>1 DEF Covers
            <4>3. h[n] = g[n] /\ (n # 0 => n - 1 \in 0 .. k /\ h[n - 1] = g[n - 1])
                BY <3>2, <4>1
            <4>4. QED
                BY <4>2, <4>3
        <3>3. QED
            BY <3>1, <3>2
    <2>3. Covers(t, h, k)
        <3>1. h = [n \in 0 .. k |-> h[n]]
            OBVIOUS
        <3> HIDE DEF h
        <3>2. h = [n \in 0 .. k |-> IF n = 0 THEN t ELSE Covered(h[n - 1], t.keys[n].column)]
            BY <2>2, <3>1
        <3>3. QED
            BY <3>2 DEF Covers
    <2> HIDE DEF h
    <2>4. QED
        BY <1>2, <2>3
<1> HIDE DEF T
<1>3. 0 .. m \subseteq T
    BY <1>1, <1>2, StepByStep
<1>4. QED
    BY <1>3 DEF T

\* What is known of a table whose first n keys are indexed.
KeysLed(t, s, n) ==
    /\ s = t \/ Indexed(t, s)
    /\ \A k \in 1 .. n : Leads(s, t.keys[k].column)

\* The next one.
LEMMA CoveredOn ==
    ASSUME NEW t, IsTable(t), NEW n \in Nat, NEW s, KeysLed(t, s, n)
    PROVE  KeysLed(t, Covered(s, t.keys[n + 1].column), n + 1)
<1> DEFINE column == t.keys[n + 1].column
           u == Covered(s, column)
<1>1. IsTable(s) /\ \A c : Leads(t, c) => Leads(s, c)
    BY IndexedCarries DEF KeysLed, Carries
<1>2. (s = t \/ \E xs : s = [t EXCEPT !.indexes = xs]) /\ \A k \in 1 .. n : Leads(s, t.keys[k].column)
    BY DEF KeysLed, Indexed
<1>3. \A k \in 1 .. (n + 1) : k \in 1 .. n \/ k = n + 1
    OBVIOUS
<1> HIDE DEF column, u
<1>4. CASE Leads(s, column)
    <2>1. u = s
        BY <1>4 DEF u, Covered
    <2>2. QED
        BY <1>3, <1>4, <2>1 DEF KeysLed, column, u
<1>5. CASE ~Leads(s, column)
    <2> DEFINE x == NewIndex(<<column>>)
    <2>1. u = [s EXCEPT !.indexes = Append(@, x)]
        BY <1>5 DEF u, Covered
    <2>2. IsIndex(x) /\ x.columns # <<>> /\ Head(x.columns) = column
        BY NewIndexIsIndex, ShortLists, SingleLists
    <2> HIDE DEF x
    <2>3. Indexed(s, u) /\ Leads(u, column)
        BY <1>1, <2>1, <2>2, IndexAppended
    <2>4. PICK ys : AreIndexes(ys) /\ u = [s EXCEPT !.indexes = ys]
        BY <2>3 DEF Indexed
    <2>5. u = [t EXCEPT !.indexes = ys]
        BY <1>2, <2>4
    <2>6. \A c : Leads(t, c) => Leads(u, c)
        BY <1>1, <2>3 DEF Indexed
    <2>7. Indexed(t, u)
        BY <2>4, <2>5, <2>6 DEF Indexed
    <2>8. \A k \in 1 .. (n + 1) : Leads(u, t.keys[k].column)
        BY <1>2, <1>3, <2>3 DEF Indexed, column
    <2>9. QED
        BY <2>7, <2>8 DEF KeysLed, u, column
<1>6. QED
    BY <1>4, <1>5

\* Every foreign key is led by an index.
LEMMA ForeignKeysIndexed ==
    ASSUME NEW t, IsTable(t)
    PROVE  KeysLed(t, IndexForeignKeys(t), Len(t.keys))
<1> DEFINE indexed[n \in 0 .. Len(t.keys)] ==
               IF n = 0 THEN t ELSE Covered(indexed[n - 1], t.keys[n].column)
<1>1. IndexForeignKeys(t) = indexed[Len(t.keys)]
    BY DEF IndexForeignKeys, Covered
<1>2. PICK m \in Nat : m = Len(t.keys)
    BY ListIsFunction DEF IsTable, AreKeys
<1>3. indexed = CHOOSE g : Covers(t, g, Len(t.keys))
    BY DEF Covers
<1> HIDE DEF indexed
<1>4. Covers(t, indexed, m)
    BY <1>2, <1>3, KeysCover
<1>5. \A n \in 0 .. m : indexed[n] = IF n = 0 THEN t ELSE Covered(indexed[n - 1], t.keys[n].column)
    BY <1>4 DEF Covers
<1> DEFINE U == {k \in 0 .. m : KeysLed(t, indexed[k], k)}
<1>6. 0 \in U
    BY <1>5 DEF KeysLed
<1>7. ASSUME NEW n \in (0 + 1) .. m, n - 1 \in U PROVE n \in U
    <2>1. PICK k \in Nat : k = n - 1 /\ n = k + 1
        BY <1>7
    <2>2. KeysLed(t, indexed[k], k)
        BY <1>7, <2>1
    <2>3. KeysLed(t, Covered(indexed[k], t.keys[k + 1].column), k + 1)
        BY <2>2, CoveredOn
    <2>4. indexed[n] = Covered(indexed[k], t.keys[k + 1].column)
        BY <1>5, <2>1
    <2>5. QED
        BY <2>1, <2>3, <2>4
<1> HIDE DEF U
<1>8. 0 .. m \subseteq U
    BY <1>6, <1>7, StepByStep
<1>9. m \in U
    BY <1>8
<1>10. QED
    BY <1>1, <1>2, <1>9 DEF U

\* No two indexes are the same.
IndexesApart(xs) == \A k, l \in DOMAIN xs : SameIndex(xs[k], xs[l]) => k = l

\* Of the copies of an index one stays.
LEMMA DedupedIndexes ==
    ASSUME NEW t, IsTable(t)
    PROVE  Indexed(t, DedupeIndexes(t)) /\ IndexesApart(DedupeIndexes(t).indexes)
<1> DEFINE ts == t.indexes
           Copies(i) == {j \in DOMAIN ts : SameIndex(ts[i], ts[j])}
           First(i) == Min(Copies(i))
           Best(i) == LET named == {j \in Copies(i) : ts[j].name # NoName}
                      IN  IF named = {} THEN i ELSE Min(named)
           F == {i \in DOMAIN ts : i = First(i)}
           firsts == Ascending(F)
           xs == [k \in DOMAIN firsts |-> ts[Best(firsts[k])]]
           u == DedupeIndexes(t)
<1>1. u = [t EXCEPT !.indexes = xs]
    BY DEF DedupeIndexes
<1> HIDE DEF u
<1>2. PICK n \in Nat : DOMAIN ts = 1 .. n
    BY ListIsFunction DEF IsTable, AreIndexes
<1>3. ASSUME NEW i \in DOMAIN ts
      PROVE  First(i) \in Copies(i) /\ Best(i) \in Copies(i)
    <2> DEFINE named == {j \in Copies(i) : ts[j].name # NoName}
    <2>1. i \in Copies(i) /\ Copies(i) \subseteq Nat /\ named \subseteq Nat
        BY <1>2, <1>3 DEF SameIndex
    <2>2. First(i) \in Copies(i)
        <3> HIDE DEF Copies
        <3>1. QED
            BY <2>1, MinIsMember
    <2>3. named # {} => Min(named) \in named
        <3> HIDE DEF named
        <3>1. QED
            BY <2>1, MinIsMember
    <2>4. QED
        BY <2>1, <2>2, <2>3
<1>4. ASSUME NEW i \in DOMAIN ts, NEW j \in DOMAIN ts, SameIndex(ts[i], ts[j])
      PROVE  First(i) = First(j)
    <2>1. Copies(i) = Copies(j)
        BY <1>4 DEF SameIndex
    <2> HIDE DEF Copies
    <2>2. QED
        BY <2>1
<1>5. \A i, j : j \in Copies(i) => j \in DOMAIN ts /\ SameIndex(ts[i], ts[j])
    OBVIOUS
<1> HIDE DEF Copies, Best, First
<1>6. F \subseteq DOMAIN ts /\ IsListing(firsts, F)
    <2>1. IsFiniteSet(1 .. n)
        BY FS_Interval
    <2>2. F \subseteq 1 .. n
        BY <1>2
    <2> HIDE DEF F
    <2>3. IsFiniteSet(F)
        BY <2>1, <2>2, FS_Subset
    <2>4. F \subseteq Int
        BY <2>2
    <2>5. QED
        BY <1>2, <2>2, <2>3, <2>4, AscendingLists
<1>7. \A i \in F : i = First(i)
    OBVIOUS
<1>8. ASSUME NEW i \in DOMAIN ts PROVE First(i) \in F
    <2>1. First(i) \in DOMAIN ts /\ SameIndex(ts[i], ts[First(i)])
        BY <1>3, <1>5, <1>8
    <2>2. First(First(i)) = First(i)
        BY <1>4, <1>8, <2>1
    <2>3. QED
        BY <2>1, <2>2
<1> HIDE DEF F, firsts
<1>9. PICK m \in Nat : /\ firsts \in [1 .. m -> F] /\ \A i \in F : \E k \in 1 .. m : firsts[k] = i
                       /\ \A k, l \in 1 .. m : firsts[k] = firsts[l] => k = l
    BY <1>6 DEF IsListing
<1>10. /\ DOMAIN xs = 1 .. m /\ xs = [k \in 1 .. m |-> xs[k]]
       /\ \A k \in 1 .. m : xs[k] = ts[Best(firsts[k])]
    BY <1>9
<1> HIDE DEF xs
<1>11. ASSUME NEW k \in 1 .. m
       PROVE  /\ firsts[k] \in F /\ firsts[k] \in DOMAIN ts /\ Best(firsts[k]) \in DOMAIN ts
              /\ xs[k] = ts[Best(firsts[k])] /\ SameIndex(ts[firsts[k]], xs[k])
    <2>1. firsts[k] \in F /\ firsts[k] \in DOMAIN ts
        BY <1>6, <1>9, <1>11
    <2>2. QED
        BY <1>3, <1>5, <1>10, <1>11, <2>1
<1>12. AreIndexes(xs)
    <2>1. IsList(xs)
        BY <1>10, FunctionIsList
    <2>2. AreIndexes(ts)
        BY DEF IsTable
    <2>3. QED
        BY <1>10, <1>11, <2>1, <2>2 DEF AreIndexes
<1>13. ASSUME NEW c, Leads(t, c) PROVE Leads(u, c)
    <2>1. ASSUME NEW i \in DOMAIN ts, ts[i].columns # <<>>, Head(ts[i].columns) = c
          PROVE  Leads(u, c)
        <3>1. First(i) \in F /\ SameIndex(ts[i], ts[First(i)])
            BY <1>3, <1>5, <1>8, <2>1
        <3>2. PICK k \in 1 .. m : firsts[k] = First(i)
            BY <1>9, <3>1
        <3>3. xs[k].columns = ts[i].columns
            BY <1>11, <3>1, <3>2 DEF SameIndex
        <3>4. \E j \in DOMAIN xs : xs[j].columns # <<>> /\ Head(xs[j].columns) = c
            BY <1>10, <2>1, <3>3
        <3>5. QED
            BY <1>1, <3>4, LeadsByIndexes
    <2>2. QED
        BY <1>1, <1>13, <2>1, LeadsByIndexes
<1>14. ASSUME NEW k \in 1 .. m, NEW l \in 1 .. m, SameIndex(xs[k], xs[l])
       PROVE  k = l
    <2>1. SameIndex(ts[firsts[k]], ts[firsts[l]])
        BY <1>11, <1>14 DEF SameIndex
    <2>2. First(firsts[k]) = First(firsts[l])
        BY <1>4, <1>11, <2>1
    <2>3. QED
        BY <1>7, <1>9, <1>11, <2>2
<1>15. u.indexes = xs
    BY <1>1 DEF IsTable, TableFields
<1>16. QED
    BY <1>1, <1>10, <1>12, <1>13, <1>14, <1>15 DEF Indexed, IndexesApart, u

\* Names change no index.
LEMMA NamedIndexes ==
    ASSUME NEW t, IsTable(t), IndexesApart(t.indexes)
    PROVE  Indexed(t, NameIndexes(t)) /\ IndexesApart(NameIndexes(t).indexes)
<1> DEFINE ts == t.indexes
           Spell(x) == IF x.name # NoName THEN x
                       ELSE [x EXCEPT !.name = JoinAll(<< <<"idx">>, t.name>> \o x.columns)]
           xs == [i \in DOMAIN ts |-> Spell(ts[i])]
           u == NameIndexes(t)
<1>1. u = [t EXCEPT !.indexes = xs]
    BY DEF NameIndexes
<1> HIDE DEF u
<1>2. PICK n \in Nat : DOMAIN ts = 1 .. n
    BY ListIsFunction DEF IsTable, AreIndexes
<1>3. \A x : IsIndex(x) => IsIndex(Spell(x)) /\ SameIndex(x, Spell(x))
    <2> SUFFICES ASSUME NEW x, IsIndex(x) PROVE IsIndex(Spell(x)) /\ SameIndex(x, Spell(x))
        OBVIOUS
    <2>1. DOMAIN x = {"name", "columns", "unique"} /\ IsList(x.columns)
        BY DEF IsIndex, NewIndex
    <2> DEFINE name == JoinAll(<< <<"idx">>, t.name>> \o x.columns)
    <2>2. Spell(x) = x \/ Spell(x) = [x EXCEPT !.name = name]
        OBVIOUS
    <2> HIDE DEF name, Spell
    <2>3. DOMAIN Spell(x) = DOMAIN x /\ Spell(x).columns = x.columns /\ Spell(x).unique = x.unique
        BY <2>1, <2>2
    <2>4. QED
        BY <2>3 DEF IsIndex, SameIndex
<1> HIDE DEF Spell
<1>4. /\ DOMAIN xs = 1 .. n /\ xs = [i \in 1 .. n |-> xs[i]]
      /\ \A i \in 1 .. n : IsIndex(xs[i]) /\ SameIndex(ts[i], xs[i])
    BY <1>2, <1>3 DEF IsTable, AreIndexes
<1> HIDE DEF xs
<1>5. AreIndexes(xs)
    BY <1>4, FunctionIsList DEF AreIndexes
<1>6. ASSUME NEW c, Leads(t, c) PROVE Leads(u, c)
    <2>1. (\E i \in DOMAIN ts : ts[i].columns # <<>> /\ Head(ts[i].columns) = c)
             => \E i \in DOMAIN xs : xs[i].columns # <<>> /\ Head(xs[i].columns) = c
        BY <1>2, <1>4 DEF SameIndex
    <2>2. QED
        BY <1>1, <1>6, <2>1, LeadsByIndexes
<1>7. IndexesApart(xs)
    BY <1>2, <1>4 DEF IndexesApart, SameIndex
<1>8. u.indexes = xs
    BY <1>1 DEF IsTable, TableFields
<1>9. QED
    BY <1>1, <1>5, <1>6, <1>7, <1>8 DEF Indexed, u

\* An index of its own leads.
LEMMA HasIndexLeads ==
    ASSUME NEW t, NEW c, HasIndex(t, c)
    PROVE  Leads(t, c)
BY SingleLists DEF HasIndex, Leads

\* A finished table: every key of it is led by an index, and no index is there
\* twice.
KeysLead(t) == \A key \in AllKeys(t) : Leads(t, key.column)
LEMMA FinalizedTable ==
    ASSUME NEW t, IsTable(t), SoftIndexed(t)
    PROVE  /\ Carries(t, FinalizeTable(t)) /\ KeysLead(FinalizeTable(t))
           /\ IndexesApart(FinalizeTable(t).indexes)
<1> DEFINE a == IndexParentPaging(t)
           b == IndexForeignKeys(a)
           c == DedupeIndexes(b)
           d == NameIndexes(c)
<1>1. d = FinalizeTable(t)
    BY DEF FinalizeTable
<1>2. a = t \/ Indexed(t, a)
    BY PagingIndexed
<1>3. Carries(t, a) /\ a.keys = t.keys /\ \A x : Leads(t, x) => Leads(a, x)
    BY <1>2, IndexedCarries
<1> HIDE DEF a
<1>4. IsTable(a)
    BY <1>3 DEF Carries
<1>5. KeysLed(a, b, Len(a.keys))
    BY <1>4, ForeignKeysIndexed
<1>6. (b = a \/ Indexed(a, b)) /\ \A k \in 1 .. Len(a.keys) : Leads(b, a.keys[k].column)
    BY <1>5 DEF KeysLed
<1> HIDE DEF b
<1>7. Carries(a, b) /\ b.keys = a.keys /\ \A x : Leads(a, x) => Leads(b, x)
    BY <1>4, <1>6, IndexedCarries
<1>8. IsTable(b)
    BY <1>7 DEF Carries
<1>9. Indexed(b, c) /\ IndexesApart(c.indexes)
    BY <1>8, DedupedIndexes
<1> HIDE DEF c
<1>10. Carries(b, c) /\ c.keys = b.keys /\ \A x : Leads(b, x) => Leads(c, x)
    BY <1>8, <1>9, IndexedCarries
<1>11. IsTable(c)
    BY <1>10 DEF Carries
<1>12. Indexed(c, d) /\ IndexesApart(d.indexes)
    BY <1>9, <1>11, NamedIndexes
<1> HIDE DEF d
<1>13. Carries(c, d) /\ d.keys = c.keys /\ \A x : Leads(c, x) => Leads(d, x)
    BY <1>11, <1>12, IndexedCarries
<1>14. IsTable(d) /\ d.keys = t.keys /\ d.external = t.external /\ d.unresolved = t.unresolved
       /\ d.db = t.db /\ d.proto = t.proto /\ d.value = t.value /\ d.field = t.field
       /\ SameNames(t, d)
    BY <1>3, <1>7, <1>10, <1>13 DEF Carries, SameNames
<1>15. Carries(t, d)
    BY <1>14 DEF Carries
<1>16. ASSUME NEW key \in AllKeys(d) PROVE Leads(d, key.column)
    <2>1. \A s : ToSet(s) = {s[i] : i \in DOMAIN s}
        BY DEF ToSet
    <2>2. CASE key \in ToSet(d.keys)
        <3>1. PICK k \in DOMAIN t.keys : key = t.keys[k]
            BY <1>14, <2>1, <2>2
        <3>2. DOMAIN t.keys = 1 .. Len(t.keys)
            BY ListIsFunction DEF IsTable, AreKeys
        <3>3. Leads(b, key.column)
            BY <1>3, <1>6, <3>1, <3>2
        <3>4. QED
            BY <1>10, <1>13, <3>3
    <2>3. CASE key \in ToSet(d.external) \/ key \in ToSet(d.unresolved)
        <3>1. HasIndex(t, key.column)
            BY <1>14, <2>1, <2>3 DEF SoftIndexed
        <3>2. QED
            BY <1>3, <1>7, <1>10, <1>13, <3>1, HasIndexLeads
    <2>4. QED
        BY <1>16, <2>2, <2>3 DEF AllKeys
<1>17. KeysLead(d)
    BY <1>16 DEF KeysLead
<1>18. QED
    BY <1>1, <1>12, <1>15, <1>17

\* The first of a list, as a list.
LEMMA FirstOfList ==
    ASSUME NEW s, NEW c, s[1] = c
    PROVE  SubSeq(s, 1, 1) = <<c>>
<1> DEFINE u == SubSeq(s, 1, 1)
<1>1. \A i \in 1 .. 1 : s[i] \in {c}
    OBVIOUS
<1>2. u \in Seq({c}) /\ Len(u) = 1 /\ u[1] = c
    <2>1. /\ u \in Seq({c}) /\ Len(u) = IF 1 <= 1 THEN 1 - 1 + 1 ELSE 0
          /\ \A i \in 1 .. (1 - 1 + 1) : u[i] = s[1 + i - 1]
        BY <1>1, SubSeqProperties
    <2>2. QED
        BY <2>1
<1> HIDE DEF u
<1>3. u = [i \in 1 .. 1 |-> u[i]]
    BY <1>2, LenProperties
<1>4. <<c>> = [i \in 1 .. 1 |-> <<c>>[i]] /\ <<c>>[1] = c
    OBVIOUS
<1>5. \A i \in 1 .. 1 : u[i] = <<c>>[i]
    BY <1>2, <1>4
<1>6. QED
    BY <1>3, <1>4, <1>5 DEF u

\* A column that leads is a key of its own or the beginning of an index.
LEMMA LeadingColumns ==
    ASSUME NEW t, IsTable(t), NEW column, Leads(t, column)
    PROVE  \/ \E c \in ColumnsNamed(t, column) : c.pk \/ c.unique
           \/ \E x \in ToSet(t.indexes) : IsPrefix(<<column>>, x.columns)
<1>1. \A s : ToSet(s) = {s[i] : i \in DOMAIN s}
    BY DEF ToSet
<1>2. CASE \E i \in DOMAIN t.columns : t.columns[i].name = column /\ (t.columns[i].pk \/ t.columns[i].unique)
    BY <1>1, <1>2 DEF ColumnsNamed
<1>3. CASE \E i \in DOMAIN t.indexes : t.indexes[i].columns # <<>> /\ Head(t.indexes[i].columns) = column
    <2>1. PICK i \in DOMAIN t.indexes : t.indexes[i].columns # <<>> /\ Head(t.indexes[i].columns) = column
        BY <1>3
    <2> DEFINE cs == t.indexes[i].columns
    <2>2. IsList(cs)
        BY DEF IsTable, AreIndexes, IsIndex
    <2> HIDE DEF cs
    <2>3. cs # <<>> /\ Head(cs) = column /\ t.indexes[i].columns = cs /\ t.indexes[i] \in ToSet(t.indexes)
        BY <1>1, <2>1 DEF cs
    <2>4. PICK n \in Nat : n = Len(cs) /\ n > 0 /\ cs[1] = column
        BY <2>2, <2>3, ListTail, ListIsFunction
    <2>6. SubSeq(cs, 1, 1) = <<column>>
        BY <2>4, FirstOfList
    <2>7. SubSeq(<<column>>, 1, 1) = <<column>> /\ Len(<<column>>) = 1
        BY FirstOfList, ShortLists
    <2>8. IsPrefix(<<column>>, cs)
        BY <2>4, <2>6, <2>7 DEF IsPrefix
    <2>9. QED
        BY <2>3, <2>8
<1>4. QED
    BY <1>2, <1>3 DEF Leads

EarlyStep == Begin \/ MergeFile \/ MaterializeEmbed \/ BuildJoin \/ NamesStep
LateStep == NameAllRelations \/ NameEnums \/ CollectFacets \/ Enrich \/ Finish

IndexesInv ==
    Finished => \A i \in DOMAIN tables : KeysLead(tables[i]) /\ IndexesApart(tables[i].indexes)

\* The steps before the keys lead to one another, or the build fails.
LEMMA EarlySteps ==
    ASSUME TablesInv, BuildInv, EarlyStep
    PROVE  /\ TablesInv' /\ BuildInv' /\ pc \in Early
           /\ \/ pc' \in Early /\ outcome' = outcome
              \/ pc' = "done" /\ outcome' \in {"duplicate keys", "provider", "provider conflict"}
<1>1. CASE Begin
    BY <1>1, BeginStep DEF Begin, Fail, Early
<1>2. CASE MergeFile
    <2>1. pc = "merge"
        BY <1>2 DEF MergeFile
    <2>2. QED
        BY <1>2, <2>1, MergeStep DEF Early
<1>3. CASE MaterializeEmbed
    <2>1. pc = "merge"
        BY <1>3 DEF MaterializeEmbed
    <2>2. QED
        BY <1>3, <2>1, EmbedStep DEF Early
<1>4. CASE BuildJoin
    <2>1. pc = "merge"
        BY <1>4 DEF BuildJoin
    <2>2. QED
        BY <1>4, <2>1, JoinStep DEF Early
<1>5. CASE NamesStep
    <2>1. /\ pc \in Early /\ pc' \in Early /\ outcome' = outcome
        BY <1>5 DEF NamesStep, NameLocalModels, NameLocalEnums, DeStutter, NameTables, NameModels,
                    AllBuilt, Renames, Early
    <2>2. QED
        BY <1>5, <2>1, NameStep
<1>6. QED
    BY <1>1, <1>2, <1>3, <1>4, <1>5 DEF EarlyStep

\* The steps after the keys change no key.
LEMMA LateSteps ==
    ASSUME TablesInv, KeysInv, OutcomeInv, LateStep
    PROVE  /\ Closing
           /\ \/ pc' \in Late /\ outcome' = outcome
              \/ pc' = "done" /\ outcome' \in {"facet", "enrichment"}
              \/ Finish /\ pc' = "done" /\ outcome' \in {"accepted", "rejected"}
<1>1. /\ AreTables(tables) /\ IsList(tables) /\ \A i \in DOMAIN tables : IsTable(tables[i])
    BY DEF TablesInv, AreTables
<1>2. pc \in Late /\ pending = <<>> /\ pc # "done"
    BY DEF LateStep, NameAllRelations, NameEnums, CollectFacets, Enrich, Finish, Renames, KeysInv, Late
<1>3. \A i \in DOMAIN tables : SoftIndexed(tables[i])
    BY <1>2 DEF KeysInv, OutcomeInv, Finished
<1>4. \A i \in DOMAIN tables : Carries(tables[i], tables[i])
    BY <1>1, CarriesSelf
<1>5. \A t, u : Carries(t, u) /\ u.indexes = t.indexes /\ SoftIndexed(t) => SoftIndexed(u)
    <2> SUFFICES ASSUME NEW t, NEW u, Carries(t, u), u.indexes = t.indexes, SoftIndexed(t)
                 PROVE  SoftIndexed(u)
        OBVIOUS
    <2>1. \A c : HasIndex(t, c) => HasIndex(u, c)
        BY DEF HasIndex
    <2>2. QED
        BY <2>1 DEF Carries, SoftIndexed
<1>6. CASE NameAllRelations
    <2>1. /\ tables' = NameRelations(tables) /\ pc' = "final enums" /\ diags \subseteq diags'
          /\ UNCHANGED <<world, todo, dbs, pending, found, outcome>>
        BY <1>6 DEF NameAllRelations, Renames
    <2>2. /\ IsList(tables') /\ DOMAIN tables' = DOMAIN tables
          /\ \A i \in DOMAIN tables : Carries(tables[i], tables'[i]) /\ tables'[i].indexes = tables[i].indexes
        BY <1>1, <2>1, RelationsCarry
    <2>3. \A i \in DOMAIN tables : SoftIndexed(tables'[i])
        BY <1>3, <1>5, <2>2
    <2>4. QED
        BY <1>2, <2>1, <2>2, <2>3 DEF Closing, Late
<1>7. CASE NameEnums
    <2>1. /\ tables' = tables /\ pc' = "facets" /\ diags \subseteq diags'
          /\ UNCHANGED <<world, todo, dbs, pending, found, outcome>>
        BY <1>7 DEF NameEnums, Renames
    <2>2. QED
        BY <1>1, <1>2, <1>3, <1>4, <2>1 DEF Closing, Late
<1>8. CASE CollectFacets
    <2>1. /\ tables' = tables /\ diags' = diags
          /\ UNCHANGED <<world, todo, dbs, pending, found>>
          /\ \/ pc' = "enrich" /\ outcome' = outcome
             \/ pc' = "done" /\ outcome' = "facet"
        BY <1>8 DEF CollectFacets, Fail
    <2>2. QED
        BY <1>1, <1>2, <1>3, <1>4, <2>1 DEF Closing, Late
<1>9. CASE Enrich
    <2>1. /\ diags' = diags /\ UNCHANGED <<world, todo, dbs, pending, found>>
          /\ \/ /\ pc' = "finalize" /\ outcome' = outcome
                /\ tables' = [i \in DOMAIN tables |-> Enriched(tables[i], world.readers)]
             \/ pc' = "done" /\ outcome' = "enrichment" /\ tables' = tables
        BY <1>9 DEF Enrich, Fail
    <2>2. CASE tables' = tables
        BY <1>1, <1>2, <1>3, <1>4, <2>1, <2>2 DEF Closing, Late
    <2>3. CASE tables' = [i \in DOMAIN tables |-> Enriched(tables[i], world.readers)]
        <3>1. /\ DOMAIN tables' = DOMAIN tables
              /\ \A i \in DOMAIN tables : tables'[i] = Enriched(tables[i], world.readers)
            BY <2>3
        <3>2. \A i \in DOMAIN tables : /\ Carries(tables[i], tables'[i])
                                       /\ tables'[i].indexes = tables[i].indexes
            BY <1>1, <3>1, EnrichedCarries
        <3>3. IsList(tables')
            <4>1. tables' = [i \in DOMAIN tables |-> tables'[i]]
                BY <2>3
            <4>2. QED
                BY <1>1, <3>1, <4>1, EachPlace
        <3>4. \A i \in DOMAIN tables : SoftIndexed(tables'[i])
            BY <1>3, <1>5, <3>2
        <3>5. QED
            BY <1>2, <2>1, <3>1, <3>2, <3>3, <3>4 DEF Closing, Late
    <2>4. QED
        BY <2>1, <2>2, <2>3
<1>10. CASE Finish
    <2>1. /\ pc' = "done" /\ tables' = [i \in DOMAIN tables |-> FinalizeTable(tables[i])]
          /\ diags \subseteq diags' /\ UNCHANGED <<world, todo, dbs, pending, found>>
          /\ outcome' \in {"accepted", "rejected"}
        BY <1>10 DEF Finish
    <2>2. /\ DOMAIN tables' = DOMAIN tables
          /\ \A i \in DOMAIN tables : tables'[i] = FinalizeTable(tables[i])
        BY <2>1
    <2>3. \A i \in DOMAIN tables : Carries(tables[i], tables'[i])
        BY <1>1, <1>3, <2>2, FinalizedTable
    <2>4. IsList(tables')
        <3>1. tables' = [i \in DOMAIN tables |-> tables'[i]]
            BY <2>1
        <3>2. QED
            BY <1>1, <2>2, <3>1, EachPlace
    <2>5. QED
        BY <1>2, <1>10, <2>1, <2>2, <2>3, <2>4 DEF Closing, Late, Finished
<1>11. QED
    BY <1>6, <1>7, <1>8, <1>9, <1>10 DEF LateStep

\* What holds in every state of a build.
IndInv == TablesInv /\ BuildInv /\ KeysInv /\ OutcomeInv /\ IndexesInv

\* A build begins with nothing.
LEMMA InitHolds ==
    ASSUME Init
    PROVE  IndInv
<1>1. /\ Begun /\ pc = "start" /\ outcome = "" /\ diags = {}
    BY DEF Init, Begun
<1>2. IsInput(world)
    <2>1. \A s : ToSet(s) = {s[i] : i \in DOMAIN s}
        BY DEF ToSet
    <2>2. world \in Worlds
        BY DEF Init
    <2>3. \A f \in DOMAIN world.files :
             /\ IsList(world.files[f].msgs)
             /\ \A i \in DOMAIN world.files[f].msgs : world.files[f].msgs[i] \in DOMAIN world.msgs
        <3> SUFFICES ASSUME NEW f \in DOMAIN world.files, NEW i \in DOMAIN world.files[f].msgs
                     PROVE  world.files[f].msgs[i] \in DOMAIN world.msgs
            BY <2>1, <2>2, WorldsAssumption
        <3>1. ToSet(world.files[f].msgs) \subseteq DOMAIN world.msgs
            BY <2>1, <2>2, WorldsAssumption
        <3>2. QED
            BY <2>1, <3>1
    <2>4. \A r \in DOMAIN world.readers : IsReader(world.readers[r])
        BY <2>1, <2>2, WorldsAssumption
    <2>5. \A m \in DOMAIN world.msgs : IsMessageOf(world, world.msgs[m])
        BY <2>1, <2>2, WorldsAssumption
    <2>6. /\ IsList(world.enums) /\ \A e \in DOMAIN world.enums : IsEnumOf(world, world.enums[e])
          /\ SaysSchemas(world.layout.datasource)
          /\ \A f \in DOMAIN world.files : world.files[f].pkg \in Names
        BY <2>1, <2>2, WorldsAssumption
    <2>7. QED
        BY <2>2, <2>3, <2>4, <2>5, <2>6, WorldsAssumption DEF IsInput
<1>3. TablesInv
    BY <1>1, <1>2, ShortLists
       DEF Begun, TablesInv, AreTables, Once, DatabasesFit, FilesFit, PendingFits, Early
<1>4. IsBuild(world, Held)
    BY <1>1, HeldFields, EmptyBuild DEF Begun
<1>5. BuildInv
    BY <1>1, <1>4 DEF BuildInv
<1>6. ~Finished /\ pc \notin Late
    BY <1>1 DEF Finished, Late
<1>7. KeysInv /\ OutcomeInv /\ IndexesInv
    BY <1>1, <1>6 DEF KeysInv, OutcomeInv, IndexesInv
<1>8. QED
    BY <1>3, <1>5, <1>7 DEF IndInv

\* Before a build ends only Finish accepts or rejects.
LEMMA UnfinishedStep ==
    ASSUME OutcomeInv, pc # "done", outcome' = outcome, pc' # "done"
    PROVE  OutcomeInv' /\ ~Finished' /\ IndexesInv'
BY DEF OutcomeInv, Finished, IndexesInv

\* A build that fails is not finished.
LEMMA FailedStep ==
    ASSUME pc' = "done", outcome' # "", outcome' \notin {"accepted", "rejected"}
    PROVE  OutcomeInv' /\ ~Finished' /\ IndexesInv'
BY DEF OutcomeInv, Finished, IndexesInv

\* Every step of a build keeps it.
LEMMA NextKeeps ==
    ASSUME IndInv, [Next]_vars
    PROVE  IndInv'
<1>1. TablesInv /\ BuildInv /\ KeysInv /\ OutcomeInv /\ IndexesInv
    BY DEF IndInv
<1>2. CASE EarlyStep
    <2>1. /\ TablesInv' /\ BuildInv' /\ pc \in Early
          /\ \/ pc' \in Early /\ outcome' = outcome
             \/ pc' = "done" /\ outcome' \in {"duplicate keys", "provider", "provider conflict"}
        BY <1>1, <1>2, EarlySteps
    <2>2. pc # "done" /\ pc' \notin Late
        BY <2>1 DEF Early, Late
    <2>3. OutcomeInv' /\ ~Finished' /\ IndexesInv'
        <3>1. CASE pc' \in Early /\ outcome' = outcome
            <4>1. pc' # "done"
                BY <3>1 DEF Early
            <4>2. QED
                BY <1>1, <2>2, <3>1, <4>1, UnfinishedStep
        <3>2. CASE pc' = "done" /\ outcome' \in {"duplicate keys", "provider", "provider conflict"}
            BY <3>2, FailedStep
        <3>3. QED
            BY <2>1, <3>1, <3>2
    <2>4. KeysInv'
        BY <2>2, <2>3 DEF KeysInv
    <2>5. QED
        BY <2>1, <2>3, <2>4 DEF IndInv
<1>3. CASE FitNames
    <2>1. TablesInv' /\ BuildInv' /\ KeysInv'
        BY <1>1, <1>3, FitStep
    <2>2. pc = "fit" /\ pc' = "resolve" /\ outcome' = outcome
        BY <1>3 DEF FitNames
    <2>3. QED
        BY <1>1, <2>1, <2>2, UnfinishedStep DEF IndInv
<1>4. CASE ResolveStep
    <2>1. Resolving
        BY <1>1, <1>4, ResolvesIsResolving
    <2>2. TablesInv' /\ BuildInv' /\ KeysInv'
        BY <1>1, <2>1, ResolvingKeeps
    <2>3. pc = "resolve" /\ pc' = pc /\ outcome' = outcome
        BY <2>1 DEF Resolving
    <2>4. QED
        BY <1>1, <2>2, <2>3, UnfinishedStep DEF IndInv
<1>5. CASE LateStep
    <2>1. /\ Closing
          /\ \/ pc' \in Late /\ outcome' = outcome
             \/ pc' = "done" /\ outcome' \in {"facet", "enrichment"}
             \/ Finish /\ pc' = "done" /\ outcome' \in {"accepted", "rejected"}
        BY <1>1, <1>5, LateSteps
    <2>2. TablesInv' /\ BuildInv' /\ KeysInv'
        BY <1>1, <2>1, ClosingKeeps
    <2>3. pc # "done"
        BY <2>1 DEF Closing, Late
    <2>4. CASE pc' \in Late /\ outcome' = outcome
        <3>1. pc' # "done"
            BY <2>4 DEF Late
        <3>2. QED
            BY <1>1, <2>2, <2>3, <2>4, <3>1, UnfinishedStep DEF IndInv
    <2>5. CASE pc' = "done" /\ outcome' \in {"facet", "enrichment"}
        BY <2>2, <2>5, FailedStep DEF IndInv
    <2>6. CASE Finish /\ pc' = "done" /\ outcome' \in {"accepted", "rejected"}
        <3>1. outcome' = "accepted" => \A d \in diags' : ~IsError(world'.strict, d[1])
            <4>1. world' = world /\ outcome' = IF \E d \in diags' : IsError(world.strict, d[1])
                                               THEN "rejected" ELSE "accepted"
                BY <2>6 DEF Finish
            <4>2. QED
                BY <4>1
        <3>2. OutcomeInv'
            BY <2>6, <3>1 DEF OutcomeInv
        <3>3. /\ DOMAIN tables' = DOMAIN tables
              /\ \A i \in DOMAIN tables : tables'[i] = FinalizeTable(tables[i])
            BY <2>6 DEF Finish
        <3>4. \A i \in DOMAIN tables : IsTable(tables[i]) /\ SoftIndexed(tables[i])
            BY <1>1, <2>1, <2>3 DEF TablesInv, AreTables, KeysInv, OutcomeInv, Finished, Closing
        <3>5. IndexesInv'
            BY <3>3, <3>4, FinalizedTable DEF IndexesInv
        <3>6. QED
            BY <2>2, <3>2, <3>5 DEF IndInv
    <2>7. QED
        BY <2>1, <2>4, <2>5, <2>6
<1>6. CASE UNCHANGED vars
    BY <1>1, <1>6 DEF vars, IndInv, TablesInv, BuildInv, KeysInv, OutcomeInv, IndexesInv, Begun, Held,
                      Run, Finished
<1>7. QED
    BY <1>2, <1>3, <1>4, <1>5, <1>6
       DEF Next, EarlyStep, NamesStep, ResolveStep, LateStep, Done

\* A message has one table in a database.
THEOREM OneTableEach == Spec => []OnceEach
<1>1. Init => IndInv
    BY InitHolds
<1>2. IndInv /\ [Next]_vars => IndInv'
    BY NextKeeps
<1>3. IndInv => OnceEach
    BY DEF IndInv, TablesInv, Once, OnceEach, Apart, IsMessage
<1>4. QED
    BY <1>1, <1>2, <1>3, PTL DEF Spec

\* Every foreign key of a finished build is led by an index or a unique column,
\* and no index is there twice.
THEOREM KeysAreIndexed == Spec => []KeysIndexed
<1>1. Init => IndInv
    BY InitHolds
<1>2. IndInv /\ [Next]_vars => IndInv'
    BY NextKeeps
<1>3. IndInv => KeysIndexed
    <2> SUFFICES ASSUME IndInv, Finished, NEW i \in DOMAIN tables
                 PROVE  /\ \A key \in AllKeys(tables[i]) :
                              \/ \E c \in ColumnsNamed(tables[i], key.column) : c.pk \/ c.unique
                              \/ \E x \in ToSet(tables[i].indexes) : IsPrefix(<<key.column>>, x.columns)
                        /\ Apart(tables[i].indexes, SameIndex)
        BY DEF KeysIndexed
    <2>1. IsTable(tables[i]) /\ KeysLead(tables[i]) /\ IndexesApart(tables[i].indexes)
        BY DEF IndInv, TablesInv, AreTables, IndexesInv
    <2>2. ASSUME NEW key \in AllKeys(tables[i])
          PROVE  \/ \E c \in ColumnsNamed(tables[i], key.column) : c.pk \/ c.unique
                 \/ \E x \in ToSet(tables[i].indexes) : IsPrefix(<<key.column>>, x.columns)
        BY <2>1, <2>2, LeadingColumns DEF KeysLead
    <2>3. Apart(tables[i].indexes, SameIndex)
        BY <2>1 DEF IndexesApart, Apart
    <2>4. QED
        BY <2>2, <2>3
<1>4. QED
    BY <1>1, <1>2, <1>3, PTL DEF Spec

\* With references strict, an accepted build has resolved them all.
THEOREM AcceptedMeansResolved == Spec => []StrictMeansResolved
<1>1. Init => IndInv
    BY InitHolds
<1>2. IndInv /\ [Next]_vars => IndInv'
    BY NextKeeps
<1>3. IndInv => StrictMeansResolved
    <2> SUFFICES ASSUME IndInv, outcome = "accepted", IsError(world.strict, "ref"), NEW i \in DOMAIN tables
                 PROVE  /\ tables[i].unresolved = <<>>
                        /\ IsMessage(tables[i]) =>
                              \A f \in Kept(world, tables[i].proto) :
                                  /\ IsReference(world, tables[i].proto, f) => HeldAs(i, f) # {}
                                  /\ IsJoin(world, tables[i].proto, f) => JoinedBy(i, f) # {}
        BY DEF StrictMeansResolved
    <2>1. ~RefReported(diags) /\ Finished
        BY DEF IndInv, OutcomeInv, RefReported, Finished
    <2>2. pc = "done"
        BY DEF IndInv, OutcomeInv
    <2>3. tables[i].unresolved = <<>> /\ Owes(world, tables, pending, i) /\ pending = <<>>
        BY <2>1, <2>2 DEF IndInv, KeysInv, Accounted
    <2>4. \A j, key : key \in KeysOf(tables, pending, j) => key \in AllKeys(tables[j])
        BY <2>3, ShortLists DEF KeysOf, Waiting
    <2>5. \A s : ToSet(s) = {s[k] : k \in DOMAIN s}
        BY DEF ToSet
    <2>6. ASSUME IsMessage(tables[i]), NEW f \in Kept(world, tables[i].proto),
                 IsReference(world, tables[i].proto, f)
          PROVE  HeldAs(i, f) # {}
        <3>1. PICK key \in AllKeys(tables[i]) : key.column = ColumnName(world, tables[i].proto, f)
            BY <2>3, <2>4, <2>6 DEF Owes, IsMessage
        <3>2. PICK list \in {"keys", "external", "unresolved"} : key \in ToSet(tables[i][list])
            BY <3>1 DEF AllKeys
        <3>3. PICK k \in DOMAIN tables[i][list] : tables[i][list][k] = key
            BY <2>5, <3>2
        <3>4. <<list, k>> \in HeldAs(i, f)
            BY <3>1, <3>2, <3>3 DEF HeldAs
        <3>5. QED
            BY <3>4
    <2>7. ASSUME IsMessage(tables[i]), NEW f \in Kept(world, tables[i].proto),
                 IsJoin(world, tables[i].proto, f)
          PROVE  JoinedBy(i, f) # {}
        <3>1. PICK j \in DOMAIN tables :
                  /\ tables[j].proto = 0 /\ tables[j].field = f /\ tables[j].db = tables[i].db
                  /\ \E key \in KeysOf(tables, pending, j) : key.proto = tables[i].proto
            BY <2>3, <2>7 DEF Owes, IsMessage
        <3>2. j \in JoinedBy(i, f)
            BY <2>4, <3>1 DEF JoinedBy
        <3>3. QED
            BY <3>2
    <2>8. QED
        BY <2>3, <2>6, <2>7
<1>4. QED
    BY <1>1, <1>2, <1>3, PTL DEF Spec

\* One table of a list answers to the key, as one position does.
LEMMA OneAnswer ==
    ASSUME NEW w, NEW ts, NEW S, S \subseteq DOMAIN ts, NEW key, NEW ref,
           AnswersIn(w, ts, S, key) = {ref}, NEW scope, scope = {ts[j] : j \in S},
           NEW A, \A u : u \in A <=> u \in scope /\ AnswersTo(w, u, key)
    PROVE  Cardinality(A) = 1
<1>1. \A j \in S : AnswersTo(w, ts[j], key) <=> j = ref
    BY DEF AnswersIn
<1>2. ref \in S
    BY DEF AnswersIn
<1>3. A = {ts[ref]}
    BY <1>1, <1>2
<1>4. Cardinality({ts[ref]}) = 1
    BY FS_Singleton
<1>5. QED
    BY <1>3, <1>4

\* A constraint across databases can hold, and never cascades out of one.
THEOREM ExternalsAreCertain == Spec => []ExternalIsCertain
<1>1. Init => IndInv
    BY InitHolds
<1>2. IndInv /\ [Next]_vars => IndInv'
    BY NextKeeps
<1>3. IndInv => ExternalIsCertain
    <2> SUFFICES ASSUME IndInv, Resolved, NEW i \in DOMAIN tables, NEW key \in ToSet(tables[i].external),
                        key.kind # "local"
                 PROVE  LET scope   == Scope(tables[i], key)
                            answers == {u \in scope : IF key.type # NoType
                                                      THEN ResourceType(world, u) = key.type
                                                      ELSE key.pattern \in ToSet(ResourceOf(world, u).patterns)}
                            build   == IF key.kind = "discovered" THEN found ELSE Run
                            home    == DatabaseOf(Run, tables[i].db)
                            away    == DatabaseOf(build, key.db)
                        IN  /\ Cardinality(answers) = 1
                            /\ home.provider = away.provider /\ home.provider = "postgres"
                            /\ home.url = away.url
                            /\ key.pattern # <<>> => key.onDelete # "CASCADE"
        BY DEF ExternalIsCertain
    <2> DEFINE home == DatabaseOf(Run, tables[i].db)
               answers == {u \in Scope(tables[i], key) : AnswersTo(world, u, key)}
               build == IF key.kind = "discovered" THEN found ELSE Run
               away == DatabaseOf(build, key.db)
    <2>0. SUFFICES /\ Cardinality(answers) = 1 /\ Colocated(home, away) /\ home.provider \in Providers
                   /\ key.pattern # <<>> => key.onDelete # "CASCADE"
        BY DEF Colocated, Providers, AnswersTo
    <2>1. \A s : ToSet(s) = {s[k] : k \in DOMAIN s}
        BY DEF ToSet
    <2>2. ExternalsFit(world, Run, found) /\ DatabasesFit(dbs, tables)
        BY DEF IndInv, KeysInv, TablesInv, Resolved, Late
    <2>3. Run.tables = tables /\ Run.dbs = dbs
        BY DEF Run
    <2>4. ExternalFits(world, Run, found, tables[i].db, key)
        BY <2>1, <2>2, <2>3 DEF ExternalsFit
    <2>5. home.provider \in Providers
        <3>1. \E d \in DOMAIN dbs : dbs[d].name = tables[i].db
            BY <2>2 DEF DatabasesFit
        <3>2. home \in {dbs[d] : d \in DOMAIN dbs}
            BY <2>3, <3>1 DEF DatabaseOf
        <3>3. QED
            BY <2>2, <3>2 DEF DatabasesFit, IsDatabase
    <2> HIDE DEF home
    <2>7. key.pattern # <<>> => key.onDelete # "CASCADE"
        BY <2>4 DEF ExternalFits
    <2>8. CASE key.kind = "cross database"
        <3>1. Scope(tables[i], key) = {tables[j] : j \in Abroadof(tables, tables[i].db)}
            <4>1. Scope(tables[i], key) = {u \in ToSet(tables) : u.db # tables[i].db}
                BY <2>8 DEF Scope
            <4>2. QED
                BY <2>1, <4>1 DEF Abroadof
        <3>2. CertainIn(world, home, Run, Abroadof(tables, tables[i].db), key)
            BY <2>3, <2>4, <2>8 DEF ExternalFits, home
        <3>3. PICK ref \in Abroadof(tables, tables[i].db) :
                  /\ AnswersIn(world, tables, Abroadof(tables, tables[i].db), key) = {ref}
                  /\ Colocated(home, DatabaseOf(Run, key.db))
            BY <2>3, <3>2 DEF CertainIn
        <3>4. Abroadof(tables, tables[i].db) \subseteq DOMAIN tables
            BY DEF Abroadof
        <3>5. Cardinality(answers) = 1
            <4>1. \A u : u \in answers <=> u \in Scope(tables[i], key) /\ AnswersTo(world, u, key)
                OBVIOUS
            <4> HIDE DEF answers
            <4>2. QED
                BY <4>1, <3>1, <3>3, <3>4, OneAnswer
        <3>6. away = DatabaseOf(Run, key.db)
            BY <2>8
        <3> HIDE DEF answers, away
        <3>7. QED
            BY <2>5, <2>7, <3>3, <3>5, <3>6
    <2>9. CASE key.kind = "discovered"
        <3>1. Scope(tables[i], key) = {found.tables[j] : j \in DOMAIN found.tables}
            BY <2>1, <2>9 DEF Scope
        <3>2. CertainIn(world, home, found, DOMAIN found.tables, key)
            BY <2>4, <2>9 DEF ExternalFits, home
        <3>3. PICK ref \in DOMAIN found.tables :
                  /\ AnswersIn(world, found.tables, DOMAIN found.tables, key) = {ref}
                  /\ Colocated(home, DatabaseOf(found, key.db))
            BY <3>2 DEF CertainIn
        <3>4. Cardinality(answers) = 1
            <4>1. \A u : u \in answers <=> u \in Scope(tables[i], key) /\ AnswersTo(world, u, key)
                OBVIOUS
            <4> HIDE DEF answers
            <4>2. QED
                BY <4>1, <3>1, <3>3, OneAnswer
        <3>5. away = DatabaseOf(found, key.db)
            BY <2>9
        <3> HIDE DEF answers, away
        <3>6. QED
            BY <2>5, <2>7, <3>3, <3>4, <3>5
    <2>10. QED
        BY <2>4, <2>8, <2>9 DEF ExternalFits
<1>4. QED
    BY <1>1, <1>2, <1>3, PTL DEF Spec

-----------------------------------------------------------------------------
\* What is left to do

\* The passes after p, and the messages of a database without a table.
Ahead(p) == {n \in DOMAIN Passes : \E q \in 1 .. n - 1 : Passes[q] = p}
Lacking(w, ds, ts) ==
    {dm \in (DOMAIN ds) \X (DOMAIN w.msgs) :
        <<ds[dm[1]].name, dm[2]>> \notin {<<ts[i].db, ts[i].proto>> : i \in DOMAIN ts}}

Later(p, r) == \E q, n \in 1 .. 13 : q < n /\ Passes[q] = p /\ Passes[n] = r

\* A later pass leaves fewer.
LEMMA FewerPasses ==
    ASSUME NEW p, NEW r, Later(p, r)
    PROVE  Cardinality(Ahead(r)) < Cardinality(Ahead(p))
<1>1. DOMAIN Passes = 1 .. 13 /\ \A m, n \in 1 .. 13 : Passes[m] = Passes[n] => m = n
    BY DEF Passes
<1> HIDE DEF Passes
<1>2. PICK q, n \in 1 .. 13 : q < n /\ Passes[q] = p /\ Passes[n] = r
    BY DEF Later
<1>3. Ahead(p) \subseteq 1 .. 13 /\ Ahead(r) \subseteq Ahead(p)
    <2>1. \A k \in Ahead(r) : k > n /\ k \in 1 .. 13
        BY <1>1, <1>2 DEF Ahead
    <2>2. \A k \in 1 .. 13 : k > n => q \in 1 .. k - 1
        BY <1>2
    <2>3. QED
        BY <1>1, <1>2, <2>1, <2>2 DEF Ahead
<1>4. n \in Ahead(p) /\ n \notin Ahead(r)
    <2>1. q \in 1 .. n - 1
        BY <1>2
    <2>2. \A k \in 1 .. n - 1 : k \in 1 .. 13 /\ k # n
        BY <1>2
    <2>3. QED
        BY <1>1, <1>2, <2>1, <2>2 DEF Ahead
<1>5. IsFiniteSet(1 .. 13)
    <2>1. PICK k \in Int : k = 13
        OBVIOUS
    <2>2. IsFiniteSet(1 .. k)
        BY FS_Interval
    <2>3. QED
        BY <2>1, <2>2
<1>6. IsFiniteSet(Ahead(p))
    BY <1>3, <1>5, FS_Subset
<1>7. QED
    BY <1>3, <1>4, <1>6, FewerMembers

\* Messages that lack a table are as many when tables stay whose they are.
LEMMA LackingStays ==
    ASSUME NEW w, IsList(w.msgs), NEW ds, NEW ts, NEW us,
           DOMAIN ts \subseteq DOMAIN us,
           \A i \in DOMAIN ts : us[i].db = ts[i].db /\ us[i].proto = ts[i].proto,
           \A i \in DOMAIN us : i \in DOMAIN ts \/ us[i].proto = 0
    PROVE  Lacking(w, ds, us) = Lacking(w, ds, ts)
<1>1. 0 \notin DOMAIN w.msgs
    BY ListIsFunction
<1> DEFINE Built(vs) == {<<vs[i].db, vs[i].proto>> : i \in DOMAIN vs}
<1>2. Built(ts) \subseteq Built(us)
    OBVIOUS
<1>3. \A db : \A m \in DOMAIN w.msgs : <<db, m>> \in Built(us) => <<db, m>> \in Built(ts)
    BY <1>1
<1> HIDE DEF Built
<1>4. {dm \in (DOMAIN ds) \X (DOMAIN w.msgs) : <<ds[dm[1]].name, dm[2]>> \notin Built(us)}
      = {dm \in (DOMAIN ds) \X (DOMAIN w.msgs) : <<ds[dm[1]].name, dm[2]>> \notin Built(ts)}
    BY <1>2, <1>3
<1>5. QED
    BY <1>4 DEF Lacking, Built

\* A message that gets a table lacks one no more.
LEMMA LackingShrinks ==
    ASSUME NEW w, IsList(w.msgs), NEW ds, IsList(ds), NEW ts, NEW us, NEW d \in DOMAIN ds,
           NEW m \in DOMAIN w.msgs, NewOne(ts, us, ds[d].name, m)
    PROVE  Cardinality(Lacking(w, ds, us)) < Cardinality(Lacking(w, ds, ts))
<1> DEFINE Built(vs) == {<<vs[i].db, vs[i].proto>> : i \in DOMAIN vs}
<1>1. Built(ts) \subseteq Built(us)
    BY DEF NewOne, OneMore, AllGrow, Grows, Same
<1>2. <<ds[d].name, m>> \in Built(us) /\ <<ds[d].name, m>> \notin Built(ts)
    BY DEF NewOne, OneMore
<1> HIDE DEF Built
<1>3. /\ Lacking(w, ds, us) = {dm \in (DOMAIN ds) \X (DOMAIN w.msgs) : <<ds[dm[1]].name, dm[2]>> \notin Built(us)}
      /\ Lacking(w, ds, ts) = {dm \in (DOMAIN ds) \X (DOMAIN w.msgs) : <<ds[dm[1]].name, dm[2]>> \notin Built(ts)}
    BY DEF Lacking, Built
<1>4. Lacking(w, ds, us) \subseteq Lacking(w, ds, ts)
    BY <1>1, <1>3
<1>5. <<d, m>> \in Lacking(w, ds, ts) /\ <<d, m>> \notin Lacking(w, ds, us)
    BY <1>2, <1>3
<1>6. IsFiniteSet(Lacking(w, ds, ts))
    <2>1. IsFiniteSet(DOMAIN ds) /\ IsFiniteSet(DOMAIN w.msgs)
        <3>1. PICK k \in Nat, n \in Nat : DOMAIN ds = 1 .. k /\ DOMAIN w.msgs = 1 .. n
            BY ListIsFunction
        <3>2. IsFiniteSet(1 .. k) /\ IsFiniteSet(1 .. n)
            BY FS_Interval
        <3>3. QED
            BY <3>1, <3>2
    <2>2. IsFiniteSet((DOMAIN ds) \X (DOMAIN w.msgs))
        BY <2>1, FS_Product
    <2>3. Lacking(w, ds, ts) \subseteq (DOMAIN ds) \X (DOMAIN w.msgs)
        BY <1>3
    <2>4. QED
        BY <2>2, <2>3, FS_Subset
<1>7. QED
    BY <1>4, <1>5, <1>6, FewerMembers

\* The first place that differs decides.
LEMMA BelowAt ==
    ASSUME NEW a1, NEW a2, NEW a3, NEW a4, NEW a5, NEW a6,
           NEW b1, NEW b2, NEW b3, NEW b4, NEW b5, NEW b6,
           \/ a1 < b1
           \/ a1 = b1 /\ a2 < b2
           \/ a1 = b1 /\ a2 = b2 /\ a3 < b3
           \/ a1 = b1 /\ a2 = b2 /\ a3 = b3 /\ a4 < b4
           \/ a1 = b1 /\ a2 = b2 /\ a3 = b3 /\ a4 = b4 /\ a5 < b5
           \/ a1 = b1 /\ a2 = b2 /\ a3 = b3 /\ a4 = b4 /\ a5 = b5 /\ a6 < b6
    PROVE  Below(<<a1, a2, a3, a4, a5, a6>>, <<b1, b2, b3, b4, b5, b6>>)
<1> DEFINE a == <<a1, a2, a3, a4, a5, a6>>
           b == <<b1, b2, b3, b4, b5, b6>>
<1>1. /\ DOMAIN a = 1 .. 6 /\ a[1] = a1 /\ a[2] = a2 /\ a[3] = a3 /\ a[4] = a4 /\ a[5] = a5 /\ a[6] = a6
      /\ b[1] = b1 /\ b[2] = b2 /\ b[3] = b3 /\ b[4] = b4 /\ b[5] = b5 /\ b[6] = b6
    OBVIOUS
<1> HIDE DEF a, b
<1>2. \E k \in 1 .. 6 : a[k] < b[k] /\ \A l \in 1 .. k - 1 : a[l] = b[l]
    <2>1. \A l \in 1 .. 0 : a[l] = b[l]
        OBVIOUS
    <2>2. CASE a1 < b1
        BY <1>1, <2>2
    <2>3. CASE a1 = b1 /\ a2 < b2
        BY <1>1, <2>3
    <2>4. CASE a1 = b1 /\ a2 = b2 /\ a3 < b3
        BY <1>1, <2>4
    <2>5. CASE a1 = b1 /\ a2 = b2 /\ a3 = b3 /\ a4 < b4
        BY <1>1, <2>5
    <2>6. CASE a1 = b1 /\ a2 = b2 /\ a3 = b3 /\ a4 = b4 /\ a5 < b5
        BY <1>1, <2>6
    <2>7. CASE a1 = b1 /\ a2 = b2 /\ a3 = b3 /\ a4 = b4 /\ a5 = b5 /\ a6 < b6
        BY <1>1, <2>7
    <2>8. QED
        BY <2>2, <2>3, <2>4, <2>5, <2>6, <2>7
<1>3. QED
    BY <1>1, <1>2 DEF Below, a, b

\* What is left, in terms of the parts of the state.
LEMMA LeftParts ==
    Left = <<Cardinality(Ahead(pc)), Len(todo), Cardinality(Lacking(world, dbs, tables)),
             Len(embeds), Len(joins), Len(pending)>>
BY DEF Left, Ahead, Lacking

\* A shorter queue.
LEMMA TailIsShorter ==
    ASSUME NEW s, IsList(s), s # <<>>
    PROVE  Len(Tail(s)) < Len(s)
<1> DEFINE R == {s[i] : i \in DOMAIN s}
<1>1. s \in Seq(R)
    BY DEF IsList
<1> HIDE DEF R
<1>2. Len(Tail(s)) = Len(s) - 1 /\ Len(s) \in Nat
    BY <1>1, HeadTailProperties, LenProperties
<1>3. QED
    BY <1>2

\* The passes follow one another.
LEMMA PassesFollow ==
    /\ Later("start", "merge") /\ Later("merge", "enums") /\ Later("enums", "stutter")
    /\ Later("stutter", "tables") /\ Later("tables", "models") /\ Later("models", "fit")
    /\ Later("fit", "resolve") /\ Later("resolve", "final enums") /\ Later("final enums", "facets")
    /\ Later("facets", "enrich") /\ Later("enrich", "finalize") /\ Later("finalize", "done")
    /\ Later("start", "done") /\ Later("merge", "done") /\ Later("facets", "done")
    /\ Later("enrich", "done")
<1>1. \A k, l \in 1 .. 13 : k < l => Later(Passes[k], Passes[l])
    BY DEF Later
<1>2. /\ Later(Passes[1], Passes[2]) /\ Later(Passes[2], Passes[3])
      /\ Later(Passes[3], Passes[4]) /\ Later(Passes[4], Passes[5])
      /\ Later(Passes[5], Passes[6]) /\ Later(Passes[6], Passes[7])
    BY <1>1
<1>3. /\ Later(Passes[7], Passes[8]) /\ Later(Passes[8], Passes[9])
      /\ Later(Passes[9], Passes[10]) /\ Later(Passes[10], Passes[11])
      /\ Later(Passes[11], Passes[12]) /\ Later(Passes[12], Passes[13])
    BY <1>1
<1>4. /\ Later(Passes[1], Passes[13]) /\ Later(Passes[2], Passes[13])
      /\ Later(Passes[10], Passes[13]) /\ Later(Passes[11], Passes[13])
    BY <1>1
<1>5. /\ Passes[1] = "start" /\ Passes[2] = "merge" /\ Passes[3] = "enums"
      /\ Passes[4] = "stutter" /\ Passes[5] = "tables" /\ Passes[6] = "models"
      /\ Passes[7] = "fit" /\ Passes[8] = "resolve" /\ Passes[9] = "final enums"
      /\ Passes[10] = "facets" /\ Passes[11] = "enrich" /\ Passes[12] = "finalize"
      /\ Passes[13] = "done"
    BY DEF Passes
<1>6. QED
    BY <1>2, <1>3, <1>4, <1>5

\* A step to a later pass.
LEMMA LaterAdvances ==
    ASSUME Later(pc, pc')
    PROVE  Below(Left', Left)
<1>1. Cardinality(Ahead(pc')) < Cardinality(Ahead(pc))
    BY FewerPasses
<1>2. Left' = <<Cardinality(Ahead(pc')), Len(todo'), Cardinality(Lacking(world', dbs', tables')),
                Len(embeds'), Len(joins'), Len(pending')>>
    BY DEF Left, Ahead, Lacking
<1>3. QED
    BY <1>1, <1>2, LeftParts, BelowAt

\* A step within a pass.
LEMMA QueueAdvances ==
    ASSUME pc' = pc,
           \/ Len(todo') < Len(todo)
           \/ /\ todo' = todo
              /\ Cardinality(Lacking(world', dbs', tables')) < Cardinality(Lacking(world, dbs, tables))
           \/ /\ todo' = todo /\ Lacking(world', dbs', tables') = Lacking(world, dbs, tables)
              /\ \/ Len(embeds') < Len(embeds)
                 \/ embeds' = embeds /\ Len(joins') < Len(joins)
                 \/ embeds' = embeds /\ joins' = joins /\ Len(pending') < Len(pending)
    PROVE  Below(Left', Left)
<1>1. Left' = <<Cardinality(Ahead(pc')), Len(todo'), Cardinality(Lacking(world', dbs', tables')),
                Len(embeds'), Len(joins'), Len(pending')>>
    BY DEF Left, Ahead, Lacking
<1>2. QED
    BY <1>1, LeftParts, BelowAt

\* Every step that is not the end leaves less to do.
LEMMA NextAdvances ==
    ASSUME IndInv, Next, ~Done
    PROVE  Below(Left', Left)
<1>1. TablesInv /\ BuildInv /\ KeysInv /\ OutcomeInv /\ IsList(world.msgs) /\ IsList(dbs)
    BY DEF IndInv, TablesInv, IsInput, DatabasesFit
<1>2. CASE Begin
    <2>1. pc = "start" /\ pc' \in {"merge", "done"}
        BY <1>2 DEF Begin, Fail
    <2>2. QED
        BY <2>1, PassesFollow, LaterAdvances
<1>3. CASE MergeFile
    <2>1. pc = "merge" /\ (pc' = pc \/ pc' = "done") /\ todo # <<>> /\ todo' = Tail(todo)
        BY <1>1, <1>3, MergeStep DEF MergeFile
    <2>2. IsList(todo)
        BY <1>1 DEF TablesInv, FilesFit
    <2>3. QED
        BY <2>1, <2>2, TailIsShorter, PassesFollow, LaterAdvances, QueueAdvances
<1>4. CASE MaterializeEmbed
    <2>1. /\ AllGrow(tables, tables') /\ EmbedDone /\ pc' = pc /\ dbs' = dbs
        BY <1>1, <1>4, EmbedStep
    <2>2. /\ pc = "merge" /\ todo' = todo /\ world' = world /\ embeds # <<>>
        BY <1>4 DEF MaterializeEmbed
    <2>3. IsList(embeds)
        BY <1>1, <2>2, HeldFields DEF BuildInv, Early, IsBuild
    <2>4. CASE DOMAIN tables' = DOMAIN tables /\ embeds' = Tail(embeds)
        <3>1. \A i \in DOMAIN tables : tables'[i].db = tables[i].db /\ tables'[i].proto = tables[i].proto
            BY <2>1 DEF AllGrow, Grows, Same
        <3>2. Lacking(world', dbs', tables') = Lacking(world, dbs, tables)
            BY <1>1, <2>1, <2>2, <2>4, <3>1, LackingStays
        <3>3. QED
            BY <2>1, <2>2, <2>3, <2>4, <3>2, TailIsShorter, QueueAdvances
    <2>5. CASE \E i \in DOMAIN tables : \E m \in DOMAIN world.msgs :
                  NewOne(tables, tables', tables[i].db, m)
        <3>1. PICK i \in DOMAIN tables : \E m \in DOMAIN world.msgs : NewOne(tables, tables', tables[i].db, m)
            BY <2>5
        <3>2. PICK m \in DOMAIN world.msgs : NewOne(tables, tables', tables[i].db, m)
            BY <3>1
        <3>3. PICK d \in DOMAIN dbs : dbs[d].name = tables[i].db
            BY <1>1, <3>1 DEF TablesInv, DatabasesFit
        <3>4. Cardinality(Lacking(world', dbs', tables')) < Cardinality(Lacking(world, dbs, tables))
            BY <1>1, <2>1, <2>2, <3>2, <3>3, LackingShrinks
        <3>5. QED
            BY <2>1, <2>2, <3>4, QueueAdvances
    <2>6. QED
        BY <2>1, <2>4, <2>5 DEF EmbedDone
<1>5. CASE BuildJoin
    <2>1. /\ AllGrow(tables, tables')
          /\ \A j \in DOMAIN tables' : j \notin DOMAIN tables => tables'[j].proto = 0
          /\ pc' = pc /\ dbs' = dbs /\ embeds' = embeds /\ joins' = Tail(joins)
        BY <1>1, <1>5, JoinStep
    <2>2. pc = "merge" /\ todo' = todo /\ world' = world /\ joins # <<>>
        BY <1>5 DEF BuildJoin
    <2>3. IsList(joins)
        BY <1>1, <2>2, HeldFields DEF BuildInv, Early, IsBuild
    <2>4. /\ DOMAIN tables \subseteq DOMAIN tables'
          /\ \A i \in DOMAIN tables : tables'[i].db = tables[i].db /\ tables'[i].proto = tables[i].proto
        BY <2>1 DEF AllGrow, Grows, Same
    <2>5. Lacking(world', dbs', tables') = Lacking(world, dbs, tables)
        BY <1>1, <2>1, <2>2, <2>4, LackingStays
    <2>6. QED
        BY <2>1, <2>2, <2>3, <2>5, TailIsShorter, QueueAdvances
<1>6. CASE NamesStep \/ FitNames
    <2>1. \/ pc = "merge" /\ pc' = "enums"
          \/ pc = "enums" /\ pc' = "stutter"
          \/ pc = "stutter" /\ pc' = "tables"
          \/ pc = "tables" /\ pc' = "models"
          \/ pc = "models" /\ pc' = "fit"
          \/ pc = "fit" /\ pc' = "resolve"
        BY <1>6 DEF NamesStep, NameLocalModels, NameLocalEnums, DeStutter, NameTables, NameModels,
                    Renames, FitNames
    <2>2. QED
        BY <2>1, PassesFollow, LaterAdvances
<1>7. CASE ResolveStep
    <2>1. Resolving
        BY <1>1, <1>7, ResolvesIsResolving
    <2>2. Steady(tables, tables')
        BY <1>1, <2>1, ResolvingKeeps
    <2>3. /\ pc' = pc /\ world' = world /\ todo' = todo /\ dbs' = dbs /\ embeds' = embeds
          /\ joins' = joins /\ pending # <<>> /\ pending' = Tail(pending)
        BY <2>1 DEF Resolving
    <2>4. Lacking(world', dbs', tables') = Lacking(world, dbs, tables)
        BY <1>1, <2>2, <2>3, LackingStays DEF Steady
    <2>5. IsList(pending)
        BY <1>1 DEF TablesInv, PendingFits
    <2>6. QED
        BY <2>3, <2>4, <2>5, TailIsShorter, QueueAdvances
<1>8. CASE LateStep
    <2>1. \/ pc = "resolve" /\ pc' = "final enums"
          \/ pc = "final enums" /\ pc' = "facets"
          \/ pc = "facets" /\ pc' \in {"enrich", "done"}
          \/ pc = "enrich" /\ pc' \in {"finalize", "done"}
          \/ pc = "finalize" /\ pc' = "done"
        BY <1>8 DEF LateStep, NameAllRelations, NameEnums, CollectFacets, Enrich, Finish, Renames, Fail
    <2>2. QED
        BY <2>1, PassesFollow, LaterAdvances
<1>9. QED
    BY <1>2, <1>3, <1>4, <1>5, <1>6, <1>7, <1>8 DEF Next, NamesStep, ResolveStep, LateStep

\* A build ends, whatever embeds what: every step of it leaves less to do.
THEOREM BuildAdvances == Spec => Advances
<1>1. Init => IndInv
    BY InitHolds
<1>2. IndInv /\ [Next]_vars => IndInv'
    BY NextKeeps
<1>3. IndInv /\ [Next]_vars => [Below(Left', Left)]_vars
    BY NextAdvances DEF Done
<1>4. QED
    BY <1>1, <1>2, <1>3, PTL DEF Spec, Advances

-----------------------------------------------------------------------------
\* The names of a build

\* How far the names have got: each pass settles one more of their clashes, and
\* no later step brings one back.
FromEnums == pc \in {"enums", "stutter", "tables", "models", "fit"} \/ Named
FromStutter == pc \in {"stutter", "tables", "models", "fit"} \/ Named
FromModels == pc \in {"models", "fit"} \/ Named
FromFit == pc = "fit" \/ Named
NamesInv ==
    /\ pc \in {"resolve", "final enums"} => EnumsFit(world, enums)
    /\ FromEnums => LocalsApart(tables)
    /\ FromStutter => EnumsYield(world, tables, enums)
    /\ FromModels => NamedApart(tables)
    /\ FromFit => ModelsApart(tables)
    /\ TypesNamed => EnumsApart(tables, enums)

\* No two names that a pass fits to Postgres's limit come out the same: the hash
\* of a cut name tells it from the others.
HashesApart ==
    /\ pc = "fit" => FitsApart({tables[i].name : i \in DOMAIN tables})
    /\ pc = "final enums" =>
          FitsApart({DedupeEnums(tables, enums)[k].sql : k \in DOMAIN DedupeEnums(tables, enums)})

\* Before a build ends it is not finished.
LEMMA NotFinished ==
    ASSUME OutcomeInv, pc # "done"
    PROVE  ~Finished
BY DEF OutcomeInv, Finished

\* Tables that carry their names on keep them apart.
LEMMA SameNamesKeep ==
    ASSUME NEW ts, NEW us, DOMAIN us = DOMAIN ts,
           \A i \in DOMAIN ts : /\ SameNames(ts[i], us[i]) /\ us[i].db = ts[i].db
                                /\ us[i].proto = ts[i].proto
    PROVE  KeepsLocals(ts, us) /\ KeepsTableNames(ts, us) /\ KeepsModels(ts, us)
BY DEF SameNames, KeepsLocals, KeepsTableNames, KeepsModels

\* A pass on names settles its clashes, and keeps those that are settled.
LEMMA NamesStepApart ==
    ASSUME IndInv, NamesInv, NamesStep, IndInv'
    PROVE  NamesInv'
<1>1. /\ AreTables(tables) /\ IsInput(world)
      /\ \A i \in DOMAIN tables : tables[i].proto # 0 => tables[i].proto \in DOMAIN world.msgs
      /\ EnumsFit(world, enums)
    <2>1. pc \in Early
        BY DEF NamesStep, NameLocalModels, NameLocalEnums, DeStutter, NameTables, NameModels, Renames,
               AllBuilt, Early
    <2>2. IsInput(world) /\ EnumsFit(world, enums) /\ TablesFit(world, tables) /\ AreTables(tables)
        BY <2>1, HeldFields DEF IndInv, TablesInv, BuildInv, IsBuild
    <2>3. QED
        BY <2>2 DEF TablesFit, Reads
<1>2. OutcomeInv'
    BY DEF IndInv
<1>3. CASE NameLocalModels
    <2>1. pc' = "enums" /\ tables' = QualifyLocalModels(world, tables)
        BY <1>3 DEF NameLocalModels, Renames
    <2>2. LocalsApart(tables')
        BY <1>1, <2>1, LocalsPass
    <2>3. ~Finished'
        BY <1>2, <2>1 DEF OutcomeInv, Finished
    <2>4. QED
        BY <2>1, <2>2, <2>3
           DEF NamesInv, FromEnums, FromStutter, FromModels, FromFit, Named, Resolved, TypesNamed
<1>4. CASE NameLocalEnums
    <2>1. /\ pc = "enums" /\ pc' = "stutter" /\ tables' = tables /\ world' = world
          /\ enums' = QualifyEnumsAgainstModels(world, tables, enums)
        BY <1>4 DEF NameLocalEnums, Renames
    <2>2. EnumsYield(world', tables', enums')
        BY <1>1, <2>1, YieldedEnums
    <2>3. ~Finished'
        BY <1>2, <2>1 DEF OutcomeInv, Finished
    <2>4. LocalsApart(tables)
        BY <2>1 DEF NamesInv, FromEnums
    <2>5. QED
        BY <2>1, <2>2, <2>3, <2>4
           DEF NamesInv, FromEnums, FromStutter, FromModels, FromFit, Named, Resolved, TypesNamed
<1>5. CASE DeStutter
    <2>1. /\ pc = "stutter" /\ pc' = "tables" /\ enums' = enums /\ world' = world
          /\ tables' = DeStutterTables(world.layout, tables)
        BY <1>5 DEF DeStutter, Renames
    <2>2. KeepsLocals(tables, tables')
        BY <1>1, <2>1, DeStutterKeeps
    <2>3. ~Finished'
        BY <1>2, <2>1 DEF OutcomeInv, Finished
    <2>4. LocalsApart(tables) /\ EnumsYield(world, tables, enums)
        BY <2>1 DEF NamesInv, FromEnums, FromStutter
    <2>5. LocalsApart(tables') /\ EnumsYield(world', tables', enums')
        BY <2>1, <2>2, <2>4, KeptApart
    <2>6. QED
        BY <2>1, <2>3, <2>5
           DEF NamesInv, FromEnums, FromStutter, FromModels, FromFit, Named, Resolved, TypesNamed
<1>6. CASE NameTables
    <2>1. /\ pc = "tables" /\ pc' = "models" /\ enums' = enums /\ world' = world
          /\ tables' = DedupeTableNames(tables)
        BY <1>6 DEF NameTables, Renames
    <2>2. KeepsLocals(tables, tables') /\ NamedApart(tables')
        BY <1>1, <2>1, TableNamesPass
    <2>3. ~Finished'
        BY <1>2, <2>1 DEF OutcomeInv, Finished
    <2>4. LocalsApart(tables) /\ EnumsYield(world, tables, enums)
        BY <2>1 DEF NamesInv, FromEnums, FromStutter
    <2>5. LocalsApart(tables') /\ EnumsYield(world', tables', enums')
        BY <2>1, <2>2, <2>4, KeptApart
    <2>6. QED
        BY <2>1, <2>2, <2>3, <2>5
           DEF NamesInv, FromEnums, FromStutter, FromModels, FromFit, Named, Resolved, TypesNamed
<1>7. CASE NameModels
    <2>1. /\ pc = "models" /\ pc' = "fit" /\ enums' = enums /\ world' = world
          /\ tables' = QualifyModels(tables)
        BY <1>7 DEF NameModels, Renames
    <2>2. KeepsLocals(tables, tables') /\ KeepsTableNames(tables, tables') /\ ModelsApart(tables')
        BY <1>1, <2>1, ModelsPass
    <2>3. ~Finished'
        BY <1>2, <2>1 DEF OutcomeInv, Finished
    <2>4. LocalsApart(tables) /\ EnumsYield(world, tables, enums) /\ NamedApart(tables)
        BY <2>1 DEF NamesInv, FromEnums, FromStutter, FromModels
    <2>5. LocalsApart(tables') /\ EnumsYield(world', tables', enums') /\ NamedApart(tables')
        BY <2>1, <2>2, <2>4, KeptApart
    <2>6. QED
        BY <2>1, <2>2, <2>3, <2>5
           DEF NamesInv, FromEnums, FromStutter, FromModels, FromFit, Named, Resolved, TypesNamed
<1>8. QED
    BY <1>3, <1>4, <1>5, <1>6, <1>7 DEF NamesStep

\* A step that leaves the names of tables and the enums keeps them apart, once
\* the tables are named.
LEMMA LeftApart ==
    ASSUME NamesInv, Named, KeepsLocals(tables, tables'), KeepsTableNames(tables, tables'),
           KeepsModels(tables, tables'), world' = world, enums' = enums
    PROVE  /\ LocalsApart(tables') /\ EnumsYield(world', tables', enums')
           /\ NamedApart(tables') /\ ModelsApart(tables')
           /\ TypesNamed => EnumsApart(tables', enums')
<1>1. /\ LocalsApart(tables) /\ EnumsYield(world, tables, enums)
      /\ NamedApart(tables) /\ ModelsApart(tables)
      /\ TypesNamed => EnumsApart(tables, enums)
    BY DEF NamesInv, FromEnums, FromStutter, FromModels, FromFit
<1>2. QED
    BY <1>1, KeptApart

\* Names that are cut stay apart.
LEMMA FitStepApart ==
    ASSUME IndInv, NamesInv, HashesApart, FitNames, IndInv'
    PROVE  NamesInv'
<1> DEFINE fitted == FitTableNames(tables)
<1>1. /\ pc = "fit" /\ pc' = "resolve" /\ world' = world /\ enums' = enums
      /\ tables' = [i \in DOMAIN fitted |-> [fitted[i] EXCEPT !.keys = <<>>]]
    BY DEF FitNames
<1>2. AreTables(tables) /\ EnumsFit(world, enums) /\ ~Finished'
    BY <1>1, HeldFields DEF IndInv, TablesInv, BuildInv, IsBuild, Early, OutcomeInv, Finished
<1>3. DOMAIN fitted = DOMAIN tables /\ \A i \in DOMAIN tables : fitted[i] = FitTable(tables[i])
    BY DEF FitTableNames
<1> HIDE DEF fitted
<1>4. /\ DOMAIN tables' = DOMAIN tables
      /\ \A i \in DOMAIN tables : tables'[i] = [FitTable(tables[i]) EXCEPT !.keys = <<>>]
    BY <1>1, <1>3
<1>5. FitsApart({tables[i].name : i \in DOMAIN tables})
    BY <1>1 DEF HashesApart
<1>6. /\ KeepsLocals(tables, tables') /\ KeepsModels(tables, tables')
      /\ NamedApart(tables) => NamedApart(tables')
    BY <1>2, <1>4, <1>5, FittedApart
<1>7. /\ LocalsApart(tables) /\ EnumsYield(world, tables, enums)
      /\ NamedApart(tables) /\ ModelsApart(tables)
    BY <1>1 DEF NamesInv, FromEnums, FromStutter, FromModels, FromFit
<1>8. /\ LocalsApart(tables') /\ EnumsYield(world', tables', enums')
      /\ NamedApart(tables') /\ ModelsApart(tables')
    BY <1>1, <1>6, <1>7, KeptApart
<1>9. QED
    BY <1>1, <1>2, <1>8 DEF NamesInv, TypesNamed

\* Enums get their last names, apart from each other's and the models'.
LEMMA EnumsStepApart ==
    ASSUME IndInv, NamesInv, HashesApart, NameEnums
    PROVE  NamesInv'
<1>1. /\ pc = "final enums" /\ pc' = "facets" /\ world' = world /\ tables' = tables
      /\ enums' = FitEnumNames(DedupeEnums(tables, enums))
    BY DEF NameEnums, Renames
<1>2. /\ AreTables(tables) /\ IsInput(world) /\ EnumsFit(world, enums)
      /\ FitsApart({DedupeEnums(tables, enums)[k].sql : k \in DOMAIN DedupeEnums(tables, enums)})
    BY <1>1 DEF IndInv, TablesInv, NamesInv, HashesApart
<1>3. /\ EnumsYield(world, tables, enums) => EnumsYield(world, tables, enums')
      /\ EnumsApart(tables, enums')
    BY <1>1, <1>2, EnumsPass
<1>4. /\ LocalsApart(tables) /\ EnumsYield(world, tables, enums)
      /\ NamedApart(tables) /\ ModelsApart(tables)
    BY <1>1 DEF NamesInv, FromEnums, FromStutter, FromModels, FromFit, Named, Resolved
<1>5. QED
    BY <1>1, <1>3, <1>4 DEF NamesInv

\* Whatever step a build takes, its names stay apart.
LEMMA NamesKept ==
    ASSUME IndInv, NamesInv, HashesApart, [Next]_vars, IndInv'
    PROVE  NamesInv'
<1>1. TablesInv /\ BuildInv /\ KeysInv /\ OutcomeInv /\ OutcomeInv'
    BY DEF IndInv
<1>2. CASE Begin \/ MergeFile \/ MaterializeEmbed \/ BuildJoin
    <2>1. \/ pc' = "merge"
          \/ pc' = "done" /\ outcome' \in {"duplicate keys", "provider", "provider conflict"}
        <3>1. EarlyStep /\ pc \in {"start", "merge"}
            BY <1>2 DEF EarlyStep, Begin, MergeFile, MaterializeEmbed, BuildJoin
        <3>2. \/ pc' \in Early /\ outcome' = outcome
              \/ pc' = "done" /\ outcome' \in {"duplicate keys", "provider", "provider conflict"}
            BY <1>1, <3>1, EarlySteps
        <3>3. pc' = "merge" \/ pc' = "done"
            BY <1>2 DEF Begin, MergeFile, MaterializeEmbed, BuildJoin, Take, Fail
        <3>4. QED
            BY <3>2, <3>3 DEF Early
    <2>2. ~Finished'
        BY <1>1, <2>1 DEF OutcomeInv, Finished
    <2>3. QED
        BY <2>1, <2>2
           DEF NamesInv, FromEnums, FromStutter, FromModels, FromFit, Named, Resolved, TypesNamed
<1>3. CASE NamesStep
    BY <1>3, NamesStepApart
<1>4. CASE FitNames
    BY <1>4, FitStepApart
<1>5. CASE ResolveStep
    <2>1. Resolving /\ enums' = enums
        BY <1>1, <1>5, ResolvesIsResolving
           DEF ResolveStep, DropKey, RelateKey, ConstrainKey, SoftenKey, Resolves
    <2>2. /\ pc = "resolve" /\ pc' = "resolve" /\ world' = world /\ DOMAIN tables' = DOMAIN tables
          /\ \A i \in DOMAIN tables : Settles(world, Run, found, tables[i], tables'[i])
        BY <2>1 DEF Resolving
    <2>3. KeepsLocals(tables, tables') /\ KeepsTableNames(tables, tables') /\ KeepsModels(tables, tables')
        BY <2>2, SameNamesKeep DEF Settles
    <2>4. /\ LocalsApart(tables') /\ EnumsYield(world', tables', enums')
          /\ NamedApart(tables') /\ ModelsApart(tables')
        BY <2>1, <2>2, <2>3, LeftApart DEF Named
    <2>5. ~Finished'
        BY <1>1, <2>2 DEF OutcomeInv, Finished
    <2>6. EnumsFit(world', enums')
        BY <2>1, <2>2 DEF NamesInv
    <2>7. QED
        BY <2>2, <2>4, <2>5, <2>6 DEF NamesInv, TypesNamed
<1>6. CASE NameEnums
    BY <1>6, EnumsStepApart
<1>7. CASE LateStep /\ ~NameEnums
    <2>1. /\ Closing
          /\ \/ pc' \in Late /\ outcome' = outcome
             \/ pc' = "done" /\ outcome' \in {"facet", "enrichment"}
             \/ Finish /\ pc' = "done" /\ outcome' \in {"accepted", "rejected"}
        BY <1>1, <1>7, LateSteps
    <2>2. /\ pc \in Late /\ world' = world /\ DOMAIN tables' = DOMAIN tables
          /\ \A i \in DOMAIN tables : Carries(tables[i], tables'[i])
        BY <2>1 DEF Closing
    <2>3. /\ enums' = enums
          /\ \/ NameAllRelations /\ pc = "resolve" /\ pc' = "final enums"
             \/ pc \in {"facets", "enrich", "finalize"} /\ pc' \in {"enrich", "finalize", "done"}
        BY <1>7 DEF LateStep, NameAllRelations, CollectFacets, Enrich, Finish, Renames, Fail
    <2>4. KeepsLocals(tables, tables') /\ KeepsTableNames(tables, tables') /\ KeepsModels(tables, tables')
        BY <2>2, SameNamesKeep DEF Carries
    <2>5. Named
        BY <2>2 DEF Late, Named, Resolved
    <2>6. /\ LocalsApart(tables') /\ EnumsYield(world', tables', enums')
          /\ NamedApart(tables') /\ ModelsApart(tables')
          /\ TypesNamed => EnumsApart(tables', enums')
        BY <2>2, <2>3, <2>4, <2>5, LeftApart
    <2>7. CASE pc = "resolve" /\ pc' = "final enums"
        <3>1. EnumsFit(world', enums') /\ ~Finished'
            BY <1>1, <2>2, <2>3, <2>7 DEF NamesInv, OutcomeInv, Finished
        <3>2. QED
            BY <2>6, <2>7, <3>1 DEF NamesInv, TypesNamed
    <2>8. CASE pc \in {"facets", "enrich", "finalize"} /\ pc' \in {"enrich", "finalize", "done"}
        <3>1. EnumsApart(tables', enums')
            BY <2>6, <2>8 DEF TypesNamed
        <3>2. QED
            BY <2>6, <2>8, <3>1 DEF NamesInv
    <2>9. QED
        BY <2>3, <2>7, <2>8
<1>8. CASE UNCHANGED vars
    BY <1>8 DEF vars, NamesInv, FromEnums, FromStutter, FromModels, FromFit, Named, Resolved, TypesNamed,
                Finished
<1>9. QED
    BY <1>2, <1>3, <1>4, <1>5, <1>6, <1>7, <1>8 DEF Next, ResolveStep, LateStep, NamesStep, Done

\* Tables, models, messages and enums have names of their own wherever they
\* meet, whatever passes come after, as long as no two names are cut to the same.
THEOREM NamesStayApart == Spec /\ []HashesApart => []NamesApart
<1>1. Init => IndInv /\ NamesInv
    <2> SUFFICES ASSUME Init PROVE IndInv /\ NamesInv
        OBVIOUS
    <2>1. pc = "start" /\ ~Finished
        BY DEF Init, Finished
    <2>2. QED
        BY <2>1, InitHolds
           DEF NamesInv, FromEnums, FromStutter, FromModels, FromFit, Named, Resolved, TypesNamed
<1>2. IndInv /\ NamesInv /\ HashesApart /\ [Next]_vars => IndInv' /\ NamesInv'
    BY NextKeeps, NamesKept
<1>3. IndInv /\ NamesInv => NamesApart
    <2> SUFFICES ASSUME NamesInv PROVE NamesApart
        OBVIOUS
    <2>1. ASSUME Named
          PROVE  /\ LocalsApart(tables) /\ EnumsYield(world, tables, enums)
                 /\ NamedApart(tables) /\ ModelsApart(tables)
        BY <2>1 DEF NamesInv, FromEnums, FromStutter, FromModels, FromFit
    <2>2. TypesNamed => EnumsApart(tables, enums)
        BY DEF NamesInv
    <2>3. ASSUME TypesNamed, NEW e \in ToSet(enums), NEW f \in ToSet(enums), e.db = f.db, e.sql = f.sql
          PROVE  SnakeCase(e.name) = SnakeCase(f.name)
        <3>1. PICK i \in DOMAIN enums : e = enums[i]
            BY DEF ToSet
        <3>2. PICK j \in DOMAIN enums : f = enums[j]
            BY DEF ToSet
        <3>3. QED
            BY <2>2, <2>3, <3>1, <3>2 DEF EnumsApart
    <2>4. QED
        BY <2>1, <2>2, <2>3 DEF NamesApart, Apart, IsMessage, SameSchema, LocalsApart, EnumsYield,
                                NamedApart, ModelsApart, EnumsApart
<1>4. QED
    BY <1>1, <1>2, <1>3, PTL DEF Spec
=============================================================================
