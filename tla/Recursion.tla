----------------------------- MODULE Recursion -------------------------------
(***************************************************************************)
(* That a recursive function exists and has the value its definition says. *)
(* The theorems of the library about that take the body of the definition  *)
(* as an operator; here it is a function, over a finite measure.           *)
(* And that an order on a finite set lists its members.                    *)
(***************************************************************************)
EXTENDS FiniteSetTheorems, WellFoundedInduction, TLAPS

\* A set of positions that is not empty has a first one.
LEMMA LeastOf ==
    ASSUME NEW S, S \subseteq Nat, S # {}
    PROVE  \E i \in S : \A j \in S : i <= j
<1> DEFINE Lower == OpToRel(<, Nat)
<1>1. IsWellFoundedOn(Lower, Nat)
    BY NatLessThanWellFounded
<1>2. PICK i \in S : \A j \in S : <<j, i>> \notin Lower
    <2> HIDE DEF Lower
    <2>1. QED
        BY <1>1, WFMin
<1>3. \A j \in S : ~(j < i)
    BY <1>2 DEF OpToRel
<1>4. QED
    BY <1>3

\* Induction along an interval.
LEMMA StepByStep ==
    ASSUME NEW a \in Nat, NEW n \in Nat, NEW T,
           a \in T, \A i \in (a + 1)..n : i - 1 \in T => i \in T
    PROVE  a..n \subseteq T
<1> DEFINE Left == (a..n) \ T
<1>1. CASE Left # {}
    <2>1. Left \subseteq Nat
        OBVIOUS
    <2>2. PICK i \in Left : \A j \in Left : i <= j
        <3> HIDE DEF Left
        <3>1. QED
            BY <1>1, <2>1, LeastOf
    <2>3. i \in a..n /\ i \notin T /\ i # a
        BY <2>2
    <2>4. i \in (a + 1)..n /\ i - 1 \in a..n /\ ~(i <= i - 1)
        BY <2>3
    <2>5. i - 1 \in T
        BY <2>2, <2>4
    <2>6. QED
        BY <2>3, <2>4, <2>5
<1>2. QED
    BY <1>1

\* Induction over a measure.
LEMMA MeasureInduction ==
    ASSUME NEW D, NEW m \in [D -> Nat], NEW T,
           \A d \in D : (\A e \in D : m[e] < m[d] => e \in T) => d \in T
    PROVE  D \subseteq T
<1> DEFINE Left == {m[d] : d \in D \ T}
<1>1. Left \subseteq Nat
    OBVIOUS
<1>2. CASE Left # {}
    <2>1. PICK k \in Left : \A l \in Left : k <= l
        <3> HIDE DEF Left
        <3>1. QED
            BY <1>1, <1>2, LeastOf
    <2>2. PICK d \in D \ T : k = m[d]
        BY <2>1
    <2>3. \A e \in D : m[e] < m[d] => e \in T
        <3> SUFFICES ASSUME NEW e \in D, m[e] < m[d], e \notin T PROVE FALSE
            OBVIOUS
        <3>1. m[e] \in Left /\ m[e] \in Nat /\ m[d] \in Nat
            OBVIOUS
        <3>2. m[d] <= m[e]
            BY <2>1, <2>2, <3>1
        <3>3. QED
            BY <3>1, <3>2
    <2>4. QED
        BY <2>2, <2>3
<1>3. CASE Left = {}
    BY <1>3
<1>4. QED
    BY <1>2, <1>3

\* A function from D to R is what base says where it does not go on, and else what
\* step makes of its value at next, which measures less.
IsRecursion(D, R, n, m, base, step, goes, next) ==
    /\ n \in Nat /\ m \in [D -> Nat] /\ \A d \in D : m[d] < n
    /\ base \in [D -> R] /\ step \in [D \X R -> R] /\ next \in [D -> D]
    /\ \A d \in goes : d \in D /\ m[next[d]] < m[d]

\* A recursion along which a measure decreases defines a function.
LEMMA RecursionDefines ==
    ASSUME NEW D, NEW R, NEW n, NEW m, NEW base, NEW step, NEW goes, NEW next,
           IsRecursion(D, R, n, m, base, step, goes, next)
    PROVE  \E f \in [D -> R] :
                \A d \in D : f[d] = IF d \in goes THEN step[<<d, f[next[d]]>>] ELSE base[d]
<1> DEFINE Below(k) == {d \in D : m[d] < k}
           Fits(f, k) == \A d \in Below(k) :
                f[d] = IF d \in goes THEN step[<<d, f[next[d]]>>] ELSE base[d]
           Bad == {k \in Nat : ~(\E f \in [Below(k) -> R] : Fits(f, k))}
<1>0. /\ n \in Nat /\ m \in [D -> Nat] /\ \A d \in D : m[d] < n
      /\ base \in [D -> R] /\ step \in [D \X R -> R] /\ next \in [D -> D]
      /\ \A d \in goes : d \in D /\ m[next[d]] < m[d]
    BY DEF IsRecursion
<1> USE <1>0
<1>1. Bad = {}
    <2> SUFFICES ASSUME Bad # {} PROVE FALSE
        OBVIOUS
    <2>1. PICK k \in Bad : \A l \in Bad : k <= l
        <3>1. Bad \subseteq Nat
            OBVIOUS
        <3> HIDE DEF Bad
        <3>2. QED
            BY <3>1, LeastOf
    <2>2. k \in Nat /\ ~(\E f \in [Below(k) -> R] : Fits(f, k))
        BY <2>1
    <2>3. k # 0
        <3> SUFFICES ASSUME k = 0 PROVE FALSE
            OBVIOUS
        <3>1. Below(k) = {}
            OBVIOUS
        <3> DEFINE f == [d \in Below(k) |-> base[d]]
        <3>2. f \in [Below(k) -> R] /\ Fits(f, k)
            BY <3>1
        <3>3. QED
            BY <2>2, <3>2
    <2>4. k - 1 \in Nat /\ k - 1 \notin Bad
        <3> HIDE DEF Bad
        <3>1. QED
            BY <2>1, <2>2, <2>3
    <2>5. PICK f \in [Below(k - 1) -> R] : Fits(f, k - 1)
        BY <2>4
    <2> DEFINE g == [d \in Below(k) |->
                        IF d \in goes THEN step[<<d, f[next[d]]>>] ELSE base[d]]
    <2>6. \A d \in Below(k) \cap goes : next[d] \in Below(k - 1) /\ f[next[d]] \in R
        <3> SUFFICES ASSUME NEW d \in Below(k) \cap goes PROVE next[d] \in Below(k - 1)
            OBVIOUS
        <3>1. next[d] \in D /\ m[next[d]] \in Nat /\ m[d] \in Nat /\ m[next[d]] < m[d] /\ m[d] < k
            OBVIOUS
        <3>2. QED
            BY <2>2, <3>1
    <2>7. \A d \in Below(k - 1) : d \in Below(k)
        BY <2>2
    <2>8. g \in [Below(k) -> R]
        BY <2>6
    <2>9. \A d \in Below(k - 1) : g[d] = f[d]
        BY <2>5, <2>7
    <2>10. Fits(g, k)
        BY <2>6, <2>9
    <2>11. QED
        BY <2>2, <2>8, <2>10
<1>2. PICK f \in [Below(n) -> R] : Fits(f, n)
    BY <1>1
<1>3. Below(n) = D
    OBVIOUS
<1>4. QED
    BY <1>2, <1>3

\* An iteration of n steps: a function that starts with b at a, and whose every
\* other value is what step makes of the one before.
IsIteration(f, a, n, b, step) ==
    f[a] = b /\ \A i \in (a + 1)..n : f[i] = step[<<i, f[i - 1]>>]

\* And so does an iteration.
LEMMA IterationDefines ==
    ASSUME NEW R, NEW a \in Nat, NEW n \in Nat, a <= n, NEW b \in R,
           NEW step \in [((a + 1)..n) \X R -> R]
    PROVE  \E f \in [a..n -> R] : IsIteration(f, a, n, b, step)
<1> DEFINE D == a..n
           m == [i \in D |-> i]
           bound == n + 1
           base == [i \in D |-> b]
           next == [i \in D |-> IF i = a THEN a ELSE i - 1]
           goes == (a + 1)..n
           step1 == [p \in D \X R |-> IF p[1] \in goes THEN step[<<p[1], p[2]>>] ELSE b]
<1>1. /\ m \in [D -> Nat] /\ bound \in Nat /\ \A i \in D : m[i] < bound
      /\ base \in [D -> R] /\ next \in [D -> D]
      /\ \A i \in goes : i \in D /\ next[i] = i - 1 /\ m[next[i]] < m[i]
    OBVIOUS
<1>2. step1 \in [D \X R -> R]
    <2> HIDE DEF goes, D
    <2>1. QED
        BY DEF goes
<1>3. PICK f \in [D -> R] :
        \A i \in D : f[i] = IF i \in goes THEN step1[<<i, f[next[i]]>>] ELSE base[i]
    <2> HIDE DEF D, m, bound, base, next, goes, step1
    <2>1. IsRecursion(D, R, bound, m, base, step1, goes, next)
        BY <1>1, <1>2 DEF IsRecursion
    <2>2. QED
        BY <2>1, RecursionDefines
<1>4. f[a] = b
    <2>1. a \in D /\ a \notin goes /\ base[a] = b
        OBVIOUS
    <2> HIDE DEF D, base, next, goes, step1
    <2>2. f[a] = base[a]
        BY <1>3, <2>1
    <2>3. QED
        BY <2>1, <2>2
<1>5. ASSUME NEW i \in goes PROVE f[i] = step[<<i, f[i - 1]>>]
    <2>1. i \in D /\ next[i] = i - 1 /\ i - 1 \in D
        BY <1>1
    <2>2. f[i - 1] \in R
        BY <1>3, <2>1
    <2> HIDE DEF D, goes, next
    <2>3. step1[<<i, f[i - 1]>>] = step[<<i, f[i - 1]>>]
        BY <1>5, <2>1, <2>2
    <2>4. QED
        BY <1>3, <1>5, <2>1, <2>3
<1>6. QED
    BY <1>4, <1>5 DEF IsIteration

-----------------------------------------------------------------------------
\* Orders

\* A part of a finite set that misses a member has fewer.
LEMMA FewerMembers ==
    ASSUME NEW S, IsFiniteSet(S), NEW T, T \subseteq S, NEW x \in S, x \notin T
    PROVE  Cardinality(T) < Cardinality(S)
<1>1. IsFiniteSet(T) /\ Cardinality(T) <= Cardinality(S) /\ Cardinality(T) # Cardinality(S)
    BY FS_Subset
<1>2. Cardinality(S) \in Nat /\ Cardinality(T) \in Nat
    BY <1>1, FS_CardinalityType
<1>3. PICK m \in Nat, n \in Nat : m = Cardinality(S) /\ n = Cardinality(T)
    BY <1>2
<1>4. QED
    BY <1>1, <1>3

\* A strict total order on a finite set gives each place to one member.
IsOrder(S, R) ==
    /\ \A x \in S : <<x, x>> \notin R
    /\ \A x, y, z \in S : <<x, y>> \in R /\ <<y, z>> \in R => <<x, z>> \in R
    /\ \A x, y \in S : x # y => <<x, y>> \in R \/ <<y, x>> \in R

RankOf(S, R, i) == Cardinality({j \in S : <<j, i>> \in R})

\* The members of an ordered finite set have the ranks from 0 up, each its own.
LEMMA RanksFill ==
    ASSUME NEW S, IsFiniteSet(S), NEW R, IsOrder(S, R),
           NEW r, r = [i \in S |-> RankOf(S, R, i)]
    PROVE  /\ Cardinality(S) \in Nat /\ r \in [S -> 0 .. (Cardinality(S) - 1)]
           /\ \A i, j \in S : r[i] = r[j] => i = j
           /\ \A k \in 1 .. Cardinality(S) : \E i \in S : r[i] = k - 1
<1> DEFINE n == Cardinality(S)
           Lower(i) == {j \in S : <<j, i>> \in R}
           T == 0 .. (n - 1)
<1>0. \A i : RankOf(S, R, i) = Cardinality(Lower(i))
    BY DEF RankOf
<1>1. n \in Nat
    BY FS_CardinalityType
<1>2. \A i \in S : IsFiniteSet(Lower(i)) /\ Cardinality(Lower(i)) \in Nat
                   /\ Cardinality(Lower(i)) < n
    <2> SUFFICES ASSUME NEW i \in S
                 PROVE  IsFiniteSet(Lower(i)) /\ Cardinality(Lower(i)) \in Nat
                        /\ Cardinality(Lower(i)) < n
        OBVIOUS
    <2>1. Lower(i) \subseteq S /\ Lower(i) # S
        BY DEF IsOrder
    <2> HIDE DEF Lower
    <2>2. QED
        BY <2>1, FS_Subset, FS_CardinalityType
<1>3. r \in [S -> T]
    <2> HIDE DEF Lower
    <2>1. \A i \in S : Cardinality(Lower(i)) \in T
        BY <1>1, <1>2
    <2>2. QED
        BY <1>0, <2>1
<1>4. \A i, j \in S : <<i, j>> \in R => Cardinality(Lower(i)) < Cardinality(Lower(j))
    <2> SUFFICES ASSUME NEW i \in S, NEW j \in S, <<i, j>> \in R
                 PROVE  Cardinality(Lower(i)) < Cardinality(Lower(j))
        OBVIOUS
    <2>1. Lower(i) \subseteq Lower(j) /\ i \in Lower(j) /\ i \notin Lower(i)
        BY DEF IsOrder
    <2> HIDE DEF Lower
    <2>2. Lower(i) # Lower(j)
        BY <2>1
    <2>3. QED
        BY <1>2, <2>1, <2>2, FS_Subset
<1>5. \A i, j \in S : r[i] = r[j] => i = j
    <2> SUFFICES ASSUME NEW i \in S, NEW j \in S, r[i] = r[j], i # j PROVE FALSE
        OBVIOUS
    <2>1. <<i, j>> \in R \/ <<j, i>> \in R
        BY DEF IsOrder
    <2>2. Cardinality(Lower(i)) = Cardinality(Lower(j))
        BY <1>0
    <2> HIDE DEF Lower
    <2>3. QED
        BY <1>2, <1>4, <2>1, <2>2
<1>6. IsFiniteSet(T) /\ Cardinality(T) = n
    BY <1>1, FS_Interval, SMTT(30)
<1>7. r \in Surjection(S, T)
    <2> HIDE DEF T, n
    <2>1. r \in Injection(S, T)
        BY <1>3, <1>5 DEF Injection, IsInjective
    <2>2. QED
        BY <1>6, <2>1, FS_Injection DEF n
<1>8. \A k \in 1 .. n : \E i \in S : r[i] = k - 1
    <2> HIDE DEF n
    <2>1. \A t \in T : \E i \in S : r[i] = t
        BY <1>7 DEF Surjection
    <2>2. QED
        BY <1>1, <2>1
<1>9. QED
    BY <1>1, <1>3, <1>5, <1>8

\* What gives each place the member of that rank lists the members, each once.
IsListing(o, S) ==
    /\ Cardinality(S) \in Nat /\ o \in [1 .. Cardinality(S) -> S]
    /\ \A i \in S : \E k \in 1 .. Cardinality(S) : o[k] = i
    /\ \A k, l \in 1 .. Cardinality(S) : o[k] = o[l] => k = l

\* The places of an ordered finite set list it.
LEMMA PlacesList ==
    ASSUME NEW S, IsFiniteSet(S), NEW R, IsOrder(S, R),
           NEW o, o = [k \in 1 .. Cardinality(S) |-> o[k]],
           \A k \in 1 .. Cardinality(S) :
              (\E i \in S : RankOf(S, R, i) = k - 1) => o[k] \in S /\ RankOf(S, R, o[k]) = k - 1
    PROVE  IsListing(o, S)
<1>1. PICK r : r = [i \in S |-> RankOf(S, R, i)]
    OBVIOUS
<1>2. /\ Cardinality(S) \in Nat /\ r \in [S -> 0 .. (Cardinality(S) - 1)]
      /\ \A i, j \in S : r[i] = r[j] => i = j
      /\ \A k \in 1 .. Cardinality(S) : \E i \in S : r[i] = k - 1
    BY <1>1, RanksFill
<1>3. PICK n \in Nat : n = Cardinality(S)
    BY <1>2
<1>4. \A k \in 1 .. n : o[k] \in S /\ r[o[k]] = k - 1
    BY <1>1, <1>2, <1>3
<1>5. o \in [1 .. n -> S]
    BY <1>3, <1>4
<1>6. ASSUME NEW i \in S PROVE \E k \in 1 .. n : o[k] = i
    <2>1. r[i] \in 0 .. (n - 1)
        BY <1>2, <1>3, <1>6
    <2>2. r[i] + 1 \in 1 .. n /\ r[i] = (r[i] + 1) - 1
        BY <1>3, <2>1
    <2>3. QED
        BY <1>2, <1>4, <1>6, <2>2
<1>7. \A k, l \in 1 .. n : o[k] = o[l] => k = l
    BY <1>3, <1>4
<1>8. QED
    BY <1>3, <1>5, <1>6, <1>7 DEF IsListing

\* The members of a finite set of numbers by how many are less.
LEMMA LessListed ==
    ASSUME NEW S, IsFiniteSet(S), S \subseteq Int,
           NEW o, o = [k \in 1 .. Cardinality(S) |->
                        CHOOSE i \in S : Cardinality({j \in S : j < i}) = k - 1]
    PROVE  IsListing(o, S)
<1> DEFINE R == {p \in S \X S : p[1] < p[2]}
           Place2(i) == Cardinality({j \in S : j < i})
<1>1. IsOrder(S, R)
    BY DEF IsOrder
<1>2. \A i \in S : RankOf(S, R, i) = Place2(i)
    <2> SUFFICES ASSUME NEW i \in S PROVE RankOf(S, R, i) = Place2(i)
        OBVIOUS
    <2>1. {j \in S : <<j, i>> \in R} = {j \in S : j < i}
        OBVIOUS
    <2>2. QED
        BY <2>1 DEF RankOf
<1>3. o = [k \in 1 .. Cardinality(S) |-> CHOOSE i \in S : Place2(i) = k - 1]
    OBVIOUS
<1>4. \A k \in 1 .. Cardinality(S) :
         (\E i \in S : RankOf(S, R, i) = k - 1)
         => o[k] \in S /\ RankOf(S, R, o[k]) = k - 1
    <2> SUFFICES ASSUME NEW k \in 1 .. Cardinality(S), \E i \in S : RankOf(S, R, i) = k - 1
                 PROVE  o[k] \in S /\ RankOf(S, R, o[k]) = k - 1
        OBVIOUS
    <2> HIDE DEF R, Place2
    <2>1. \E i \in S : Place2(i) = k - 1
        BY <1>2
    <2>2. o[k] = CHOOSE i \in S : Place2(i) = k - 1
        BY <1>3
    <2>3. QED
        BY <1>2, <2>1, <2>2
<1>5. o = [k \in 1 .. Cardinality(S) |-> o[k]]
    <2> HIDE DEF Place2
    <2>1. QED
        BY <1>3
<1> HIDE DEF R
<1>6. IsFiniteSet(S)
    OBVIOUS
<1>7. QED
    BY ONLY <1>1, <1>4, <1>5, <1>6, PlacesList

\* Numbers that increase are listed as they come.
Increases(e, c) ==
    e \in [1 .. c -> Int] /\ \A k, l \in 1 .. c : k < l => e[k] < e[l]

IsImage(S, e, c) == S = {e[k] : k \in 1 .. c}

ByLess(S) ==
    [k \in 1 .. Cardinality(S) |-> CHOOSE i \in S : Cardinality({j \in S : j < i}) = k - 1]

LEMMA IncreasingListed ==
    ASSUME NEW c \in Nat, NEW e, Increases(e, c), NEW S, IsImage(S, e, c)
    PROVE  Cardinality(S) = c /\ ByLess(S) = e
<1>0. /\ e \in [1 .. c -> Int] /\ \A k, l \in 1 .. c : k < l => e[k] < e[l]
      /\ S = {e[k] : k \in 1 .. c}
    BY DEF Increases, IsImage
<1> USE <1>0
<1>1. ASSUME NEW k \in 0 .. c
      PROVE  Cardinality({e[l] : l \in 1 .. k}) = k
    <2> DEFINE T == {e[l] : l \in 1 .. k}
               g == [l \in 1 .. k |-> e[l]]
    <2>1. \A l, l2 \in 1 .. k : e[l] = e[l2] => l = l2
        <3> SUFFICES ASSUME NEW l \in 1 .. k, NEW l2 \in 1 .. k, e[l] = e[l2], l # l2
                     PROVE  FALSE
            OBVIOUS
        <3>1. /\ l \in 1 .. c /\ l2 \in 1 .. c /\ e[l] \in Int /\ e[l2] \in Int
              /\ l < l2 \/ l2 < l
            BY <1>1
        <3>2. QED
            BY <3>1
    <2>2. g \in Surjection(1 .. k, T) /\ g \in Injection(1 .. k, T)
        BY <2>1 DEF Surjection, Injection, IsInjective
    <2>3. IsFiniteSet(1 .. k) /\ Cardinality(1 .. k) = k
        BY <1>1, FS_Interval, SMTT(30)
    <2> HIDE DEF T, g
    <2>4. Cardinality(T) = k
        BY <2>2, <2>3, FS_Surjection
    <2>5. QED
        BY <2>4 DEF T
<1>2. Cardinality(S) = c
    <2>1. c \in 0 .. c
        OBVIOUS
    <2>2. QED
        BY <1>1, <2>1
<1> DEFINE Below(i) == Cardinality({j \in S : j < i})
<1>3. ASSUME NEW k \in 1 .. c PROVE Below(e[k]) = k - 1
    <2>1. k - 1 \in 0 .. c
        OBVIOUS
    <2>2. {j \in S : j < e[k]} = {e[l] : l \in 1 .. (k - 1)}
        <3>1. ASSUME NEW l \in 1 .. c PROVE e[l] < e[k] <=> l \in 1 .. (k - 1)
            <4>1. e[l] \in Int /\ e[k] \in Int
                OBVIOUS
            <4>2. CASE l < k
                BY <4>1, <4>2
            <4>3. CASE k < l
                <5>1. e[k] < e[l]
                    BY <4>3
                <5>2. QED
                    BY <4>1, <4>3, <5>1
            <4>4. CASE l = k
                BY <4>1, <4>4
            <4>5. QED
                BY <4>2, <4>3, <4>4
        <3>2. \A l \in 1 .. (k - 1) : l \in 1 .. c
            OBVIOUS
        <3>3. QED
            BY <3>1, <3>2
    <2>3. QED
        BY <1>1, <2>1, <2>2
<1>4. ASSUME NEW k \in 1 .. c PROVE e[k] = CHOOSE i \in S : Below(i) = k - 1
    <2>1. e[k] \in S /\ Below(e[k]) = k - 1
        BY <1>3
    <2>2. \A i \in S : \E l \in 1 .. c : i = e[l] /\ Below(i) = l - 1
        BY <1>3
    <2> HIDE DEF Below
    <2>3. PICK i \in S : i = (CHOOSE j \in S : Below(j) = k - 1) /\ Below(i) = k - 1
        BY <2>1
    <2>4. PICK l \in 1 .. c : i = e[l] /\ Below(i) = l - 1
        BY <2>2
    <2>5. l = k
        BY <2>3, <2>4
    <2>6. QED
        BY <2>3, <2>4, <2>5
<1>5. e = [k \in 1 .. c |-> e[k]]
    OBVIOUS
<1> HIDE DEF Below
<1>6. e = [k \in 1 .. c |-> CHOOSE i \in S : Below(i) = k - 1]
    BY <1>4, <1>5
<1>7. QED
    BY <1>2, <1>6 DEF Below, ByLess
=============================================================================
