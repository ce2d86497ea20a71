---------------------------- MODULE RoutesProofs -----------------------------
(***************************************************************************)
(* What the operators of Routes mean, for every two routes: overlapping is *)
(* having a path that both match, and the example shows one; and of routes *)
(* that match one request, being more specific is a strict order in which  *)
(* only routes of the same shape are level.                                *)
(***************************************************************************)
EXTENDS Routes, Recursion, SequenceTheorems

\* A compiled route: its segments are texts, "**" stands at the end only.
WellFormed(r) ==
    /\ Len(r.segs) \in Nat /\ DOMAIN r.segs = 1..Len(r.segs)
    /\ \A i \in 1..Len(r.segs) : r.segs[i] # <<>>
    /\ \A i \in 1..(Len(r.segs) - 1) : r.segs[i] # Multi

\* A request path, as the URL is split at its slashes.
IsPath(path) == Len(path) \in Nat /\ DOMAIN path = 1..Len(path)

\* What is flattened of the first of some sequences, of one more at a time.
IsFlattening(f, S, seqs) ==
    /\ f \in [0..Len(seqs) -> Seq(S)] /\ f[0] = <<>>
    /\ \A i \in 1..Len(seqs) : f[i] = f[i - 1] \o seqs[i]

\* Sequences are flattened one at a time.
LEMMA FlattenGrows ==
    ASSUME NEW S, NEW seqs \in Seq(Seq(S))
    PROVE  \E f : IsFlattening(f, S, seqs) /\ FlattenSeq(seqs) = f[Len(seqs)]
<1> DEFINE n == Len(seqs)
           flatten[i \in 1..Len(seqs)] ==
                IF i = 1 THEN seqs[i] ELSE flatten[i - 1] \o seqs[i]
<1>1. n \in Nat /\ \A i \in 1..n : seqs[i] \in Seq(S)
    OBVIOUS
<1>2. CASE n = 0
    <2>1. FlattenSeq(seqs) = seqs
        BY <1>2 DEF FlattenSeq
    <2>2. seqs = <<>>
        BY <1>2, EmptySeq
    <2> DEFINE f == [i \in 0..0 |-> <<>>]
    <2>3. IsFlattening(f, S, seqs) /\ f[0] = <<>>
        BY <1>2, EmptySeq DEF IsFlattening
    <2> HIDE DEF f
    <2>4. QED
        BY <1>2, <2>1, <2>2, <2>3
<1>3. CASE n # 0
    <2>1. FlattenSeq(seqs) = flatten[n]
        BY <1>3 DEF FlattenSeq
    <2> DEFINE D == 1..n
               R == Seq(S)
               m == [i \in D |-> i]
               bound == n + 1
               base == [i \in D |-> seqs[i]]
               step == [p \in D \X R |-> p[2] \o seqs[p[1]]]
               goes == D \ {1}
               next == [i \in D |-> IF i = 1 THEN 1 ELSE i - 1]
    <2>2. /\ m \in [D -> Nat] /\ base \in [D -> R] /\ next \in [D -> D]
          /\ \A i \in goes : i \in D /\ m[next[i]] < m[i] /\ next[i] = i - 1
          /\ bound \in Nat /\ \A i \in D : m[i] < bound
        BY <1>1
    <2>3. step \in [D \X R -> R]
        <3>1. \A p \in D \X R : p[2] \in R /\ seqs[p[1]] \in R
            BY <1>1
        <3>2. \A x, y \in R : x \o y \in R
            BY ConcatProperties
        <3> HIDE DEF R, D
        <3>3. QED
            BY <3>1, <3>2
    <2>4. PICK f \in [D -> R] :
            \A i \in D : f[i] = IF i \in goes THEN step[<<i, f[next[i]]>>] ELSE base[i]
        <3> HIDE DEF n, flatten, D, R, m, bound, base, step, goes, next
        <3>1. IsRecursion(D, R, bound, m, base, step, goes, next)
            BY <2>2, <2>3 DEF IsRecursion
        <3>2. QED
            BY <3>1, RecursionDefines
    <2>5. \A i \in D : f[i] = IF i = 1 THEN seqs[i] ELSE f[i - 1] \o seqs[i]
        <3> SUFFICES ASSUME NEW i \in D
                     PROVE  f[i] = IF i = 1 THEN seqs[i] ELSE f[i - 1] \o seqs[i]
            OBVIOUS
        <3>1. CASE i = 1
            BY <2>4, <3>1
        <3>2. CASE i # 1
            <4>1. i \in goes /\ next[i] = i - 1 /\ next[i] \in D
                BY <2>2, <3>2
            <4>2. <<i, f[i - 1]>> \in D \X R
                BY <2>4, <4>1
            <4>3. step[<<i, f[i - 1]>>] = f[i - 1] \o seqs[i]
                BY <4>2
            <4>4. f[i] = step[<<i, f[i - 1]>>]
                BY <2>4, <4>1
            <4>5. QED
                BY <3>2, <4>3, <4>4
        <3>3. QED
            BY <3>1, <3>2
    <2>6. f = [i \in 1..Len(seqs) |-> IF i = 1 THEN seqs[i] ELSE f[i - 1] \o seqs[i]]
        BY <2>4, <2>5
    <2>7. flatten = [i \in 1..Len(seqs) |->
                        IF i = 1 THEN seqs[i] ELSE flatten[i - 1] \o seqs[i]]
        BY <2>6
    <2> HIDE DEF flatten
    <2>8. D \subseteq {i \in D : flatten[i] \in R}
        <3> DEFINE T == {i \in D : flatten[i] \in R}
        <3>1. ASSUME NEW i \in D, \A j \in D : m[j] < m[i] => j \in T PROVE i \in T
            <4>1. CASE i = 1
                BY <1>1, <2>7, <4>1
            <4>2. CASE i # 1
                <5>1. i - 1 \in D /\ m[i - 1] < m[i]
                    BY <1>1, <4>2
                <5>2. flatten[i - 1] \in R /\ seqs[i] \in R
                    BY <1>1, <3>1, <5>1
                <5>3. flatten[i] = flatten[i - 1] \o seqs[i]
                    BY <2>7, <4>2
                <5>4. flatten[i] \in R
                    BY <5>2, <5>3, ConcatProperties
                <5>5. QED
                    BY <5>4
            <4>3. QED
                BY <4>1, <4>2
        <3> HIDE DEF T, D, R, m
        <3>2. D \subseteq T
            BY <2>2, <3>1, MeasureInduction, ZenonT(30)
        <3>3. QED
            BY <3>2 DEF T
    <2> DEFINE g == [i \in 0..n |-> IF i = 0 THEN <<>> ELSE flatten[i]]
    <2>9. g \in [0..n -> R] /\ g[0] = <<>> /\ g[n] = flatten[n]
        <3>1. \A i \in 0..n : i # 0 => flatten[i] \in R
            <4>1. \A i \in 0..n : i # 0 => i \in D
                BY <1>1
            <4> HIDE DEF D, R, n
            <4>2. QED
                BY <2>8, <4>1
        <3>2. <<>> \in R
            OBVIOUS
        <3>3. 0 \in 0..n /\ n \in 0..n
            BY <1>1
        <3> HIDE DEF R, n
        <3>4. QED
            BY <1>3, <3>1, <3>2, <3>3
    <2>10. \A i \in 1..n : g[i] = g[i - 1] \o seqs[i]
        <3> SUFFICES ASSUME NEW i \in 1..n PROVE g[i] = g[i - 1] \o seqs[i]
            OBVIOUS
        <3>1. i \in 0..n /\ i - 1 \in 0..n /\ i # 0 /\ (i = 1 <=> i - 1 = 0)
            BY <1>1
        <3>2. flatten[i] = IF i = 1 THEN seqs[i] ELSE flatten[i - 1] \o seqs[i]
            BY <2>7
        <3>3. <<>> \o seqs[i] = seqs[i]
            BY <1>1, ConcatEmptySeq
        <3> HIDE DEF n
        <3>4. QED
            BY <3>1, <3>2, <3>3
    <2> HIDE DEF g
    <2>11. IsFlattening(g, S, seqs)
        BY <2>9, <2>10 DEF IsFlattening
    <2>12. QED
        BY <2>1, <2>9, <2>11
<1>4. QED
    BY <1>2, <1>3

\* What is flattened is a sequence over what its parts are sequences over.
LEMMA FlattenIsSeq ==
    ASSUME NEW S, NEW seqs \in Seq(Seq(S))
    PROVE  FlattenSeq(seqs) \in Seq(S)
<1>1. PICK f : IsFlattening(f, S, seqs) /\ FlattenSeq(seqs) = f[Len(seqs)]
    BY FlattenGrows
<1>2. Len(seqs) \in 0..Len(seqs)
    OBVIOUS
<1>3. QED
    BY <1>1, <1>2 DEF IsFlattening

\* Flattened up to some place, and from there on.
LEMMA FlattenSplits ==
    ASSUME NEW S, NEW seqs \in Seq(Seq(S)), NEW n \in Nat, n = Len(seqs), NEW a \in 0..n
    PROVE  FlattenSeq(seqs) =
                FlattenSeq(SubSeq(seqs, 1, a)) \o FlattenSeq(SubSeq(seqs, a + 1, n))
<1> DEFINE front == SubSeq(seqs, 1, a)
           back  == SubSeq(seqs, a + 1, n)
<1>1. \A i \in 1..n : seqs[i] \in Seq(S)
    BY ElementOfSeq
<1>2. /\ front \in Seq(Seq(S)) /\ Len(front) = a /\ \A i \in 1..a : front[i] = seqs[i]
      /\ back \in Seq(Seq(S)) /\ Len(back) = n - a
      /\ \A i \in 1..(n - a) : back[i] = seqs[a + i]
    <2>1. /\ 1 \in Int /\ a \in Int /\ a + 1 \in Int /\ n \in Int
          /\ \A i \in 1..a : i \in 1..n
          /\ \A i \in (a + 1)..n : i \in 1..n
        OBVIOUS
    <2>2. /\ front \in Seq(Seq(S)) /\ Len(front) = IF 1 <= a THEN a - 1 + 1 ELSE 0
          /\ \A i \in 1..(a - 1 + 1) : front[i] = seqs[1 + i - 1]
        BY <1>1, <2>1, SubSeqProperties
    <2>3. /\ back \in Seq(Seq(S)) /\ Len(back) = IF a + 1 <= n THEN n - (a + 1) + 1 ELSE 0
          /\ \A i \in 1..(n - (a + 1) + 1) : back[i] = seqs[(a + 1) + i - 1]
        BY <1>1, <2>1, SubSeqProperties
    <2> HIDE DEF front, back
    <2>4. a - 1 + 1 = a /\ n - (a + 1) + 1 = n - a /\ \A i \in Int : 1 + i - 1 = i /\ (a + 1) + i - 1 = a + i
        OBVIOUS
    <2>5. QED
        BY <2>2, <2>3, <2>4
<1> HIDE DEF front, back
<1>3. PICK f : IsFlattening(f, S, seqs) /\ FlattenSeq(seqs) = f[n]
    BY FlattenGrows
<1>4. PICK g : IsFlattening(g, S, front) /\ FlattenSeq(front) = g[a]
    BY <1>2, FlattenGrows
<1>5. PICK h : IsFlattening(h, S, back) /\ FlattenSeq(back) = h[n - a]
    BY <1>2, FlattenGrows, SMTT(30)
<1>6. f[a] = g[a]
    <2> DEFINE T == {i \in 0..a : f[i] = g[i]}
    <2>1. 0 \in T
        BY <1>2, <1>3, <1>4 DEF IsFlattening
    <2>2. ASSUME NEW i \in 1..a, i - 1 \in T PROVE i \in T
        <3>1. i \in 1..n /\ i \in 0..a
            OBVIOUS
        <3>2. f[i] = f[i - 1] \o seqs[i] /\ g[i] = g[i - 1] \o seqs[i]
            BY <1>2, <1>3, <1>4, <3>1 DEF IsFlattening
        <3>3. QED
            BY <2>2, <3>1, <3>2
    <2> HIDE DEF T
    <2>3. 0..a \subseteq T
        <3>1. 0 \in Nat /\ a \in Nat /\ 0 + 1 = 1
            OBVIOUS
        <3>2. QED
            BY <2>1, <2>2, <3>1, StepByStep
    <2>4. a \in 0..a
        OBVIOUS
    <2>5. QED
        BY <2>3, <2>4 DEF T
<1>7. f[n] = f[a] \o h[n - a]
    <2> DEFINE T == {i \in 0..(n - a) : f[a + i] = f[a] \o h[i]}
    <2>1. /\ f[a] \in Seq(S) /\ \A i \in 0..(n - a) : h[i] \in Seq(S)
          /\ h[0] = <<>> /\ f[a + 0] = f[a]
        <3>1. a \in 0..n /\ a + 0 = a
            OBVIOUS
        <3>2. f[a] \in Seq(S)
            BY <1>3, <3>1 DEF IsFlattening
        <3>3. (\A i \in 0..(n - a) : h[i] \in Seq(S)) /\ h[0] = <<>>
            BY <1>2, <1>5 DEF IsFlattening
        <3>4. QED
            BY <3>1, <3>2, <3>3
    <2>2. 0 \in T
        <3>1. f[a] \o <<>> = f[a] /\ 0 \in 0..(n - a)
            BY <2>1, ConcatEmptySeq
        <3>2. QED
            BY <2>1, <3>1
    <2>3. ASSUME NEW i \in 1..(n - a), i - 1 \in T PROVE i \in T
        <3>1. /\ i \in 0..(n - a) /\ i - 1 \in 0..(n - a) /\ a + i \in 1..n
              /\ (a + i) - 1 = a + (i - 1)
            OBVIOUS
        <3>2. f[a + i] = f[a + (i - 1)] \o seqs[a + i]
            BY <1>3, <3>1 DEF IsFlattening
        <3>3. h[i] = h[i - 1] \o seqs[a + i]
            BY <1>2, <1>5 DEF IsFlattening
        <3>4. f[a + (i - 1)] = f[a] \o h[i - 1]
            BY <2>3
        <3>5. (f[a] \o h[i - 1]) \o seqs[a + i] = f[a] \o (h[i - 1] \o seqs[a + i])
            <4>1. f[a] \in Seq(S) /\ h[i - 1] \in Seq(S) /\ seqs[a + i] \in Seq(S)
                BY <1>1, <2>1, <3>1
            <4>2. PICK x \in Seq(S), y \in Seq(S), z \in Seq(S) :
                        x = f[a] /\ y = h[i - 1] /\ z = seqs[a + i]
                BY <4>1
            <4>3. (x \o y) \o z = x \o (y \o z)
                BY ONLY x \in Seq(S), y \in Seq(S), z \in Seq(S), ConcatAssociative, SMTT(30)
            <4>4. QED
                BY <4>2, <4>3
        <3>6. QED
            BY <3>1, <3>2, <3>3, <3>4, <3>5
    <2> HIDE DEF T
    <2>4. n - a \in Nat /\ 0 \in Nat /\ 0 + 1 = 1
        OBVIOUS
    <2>5. 0..(n - a) \subseteq T
        BY <2>2, <2>3, <2>4, StepByStep
    <2>6. n - a \in 0..(n - a) /\ a + (n - a) = n
        BY <2>4
    <2>7. QED
        BY <2>5, <2>6 DEF T
<1>8. QED
    BY <1>3, <1>4, <1>5, <1>6, <1>7 DEF front, back

\* One sequence is itself, flattened.
LEMMA FlattenOne ==
    ASSUME NEW S, NEW seqs \in Seq(Seq(S)), Len(seqs) = 1
    PROVE  FlattenSeq(seqs) = seqs[1]
<1>1. PICK f : IsFlattening(f, S, seqs) /\ FlattenSeq(seqs) = f[1]
    BY FlattenGrows
<1>2. f[0] = <<>> /\ f[1] = f[0] \o seqs[1]
    <2>1. 1 \in 1..Len(seqs) /\ 1 - 1 = 0
        OBVIOUS
    <2>2. QED
        BY <1>1, <2>1 DEF IsFlattening
<1>3. seqs[1] \in Seq(S)
    OBVIOUS
<1>4. QED
    BY <1>1, <1>2, <1>3, ConcatEmptySeq

-----------------------------------------------------------------------------
\* What the productions of the parser read

Characters == Content \cup Reserved
Texts == Seq(Characters)

\* A production that does not fail moves on, and its value is of its kind.
Reads(text, i, read, kind) ==
    /\ read.end \in Nat
    /\ read.end # 0 => i < read.end /\ read.end <= Len(text) + 1 /\ read.value \in kind

\* There is no character before a text nor behind it.
LEMMA NothingOutside ==
    ASSUME NEW text \in Texts
    PROVE  /\ Len(text) \in Nat /\ DOMAIN text = 1..Len(text)
           /\ \A i \in Nat : At(text, i) # "" <=> i \in DOMAIN text
<1>1. Len(text) \in Nat /\ DOMAIN text = 1..Len(text) /\ \A i \in DOMAIN text : text[i] \in Characters
    BY DEF Texts
<1>2. "" \notin Characters
    BY CharactersAssumption DEF Characters, Content, Reserved
<1>3. QED
    BY <1>1, <1>2 DEF At

\* A production that failed has read nothing wrong.
LEMMA FailedReads ==
    ASSUME NEW text, NEW i, NEW kind
    PROVE  Reads(text, i, Failed, kind)
BY DEF Reads, Failed, Read

\* The least of a set of positions is one of them.
LEMMA MinIsLeast ==
    ASSUME NEW S, S \subseteq Nat, S # {}
    PROVE  Min(S) \in S /\ \A j \in S : Min(S) <= j
BY LeastOf DEF Min

\* A part of a text between two positions is a text.
LEMMA PartOfText ==
    ASSUME NEW text \in Texts, NEW i \in Nat \ {0}, NEW end \in Nat,
           i < end, end <= Len(text) + 1
    PROVE  SubSeq(text, i, end - 1) \in Texts \ {<<>>}
<1>1. PICK n \in Nat : n = Len(text)
    BY NothingOutside
<1>2. i \in Int /\ end - 1 \in Int /\ i <= end - 1 /\ \A j \in i..(end - 1) : j \in 1..n
    BY <1>1
<1>3. \A j \in i..(end - 1) : text[j] \in Characters
    BY <1>1, <1>2, ElementOfSeq DEF Texts
<1>4. /\ SubSeq(text, i, end - 1) \in Seq(Characters)
      /\ Len(SubSeq(text, i, end - 1)) = IF i <= end - 1 THEN (end - 1) - i + 1 ELSE 0
    BY <1>2, <1>3, SubSeqProperties
<1>5. Len(SubSeq(text, i, end - 1)) # 0
    BY <1>2, <1>4
<1>6. QED
    BY <1>4, <1>5, EmptySeq DEF Texts

\* Arithmetic of the positions in a text.
LEMMA PositionsOf ==
    ASSUME NEW n \in Nat, NEW i \in 1..n
    PROVE  /\ i..(n + 1) \subseteq Nat /\ n + 1 \in i..(n + 1) /\ ~(n + 1 \in 1..n)
           /\ i + 1 \in 1..(n + 1) /\ i + 2 \in 2..(n + 2) /\ i \in Nat /\ i # 0
           /\ \A end \in i..(n + 1) : end # i => i < end /\ end <= n + 1 /\ end \in Nat
OBVIOUS

\* What is behind a position in the text is still one of its positions.
LEMMA BehindOf ==
    ASSUME NEW n \in Nat, NEW j \in 1..(n + 1), NEW e \in 1..n, j < e
    PROVE  e + 1 \in 1..(n + 1) /\ j < e + 1
OBVIOUS

\* A run of characters of one kind is a text.
LEMMA RunReads ==
    ASSUME NEW text \in Texts, NEW i \in Nat \ {0},
           NEW kind, "" \notin kind
    PROVE  Reads(text, i, Run(text, i, kind), Texts \ {<<>>})
<1>1. PICK n \in Nat : n = Len(text) /\ \A j \in Nat : At(text, j) # "" <=> j \in 1..n
    BY NothingOutside
<1>2. CASE At(text, i) \notin kind
    BY <1>2, FailedReads DEF Run
<1>3. CASE At(text, i) \in kind
    <2> DEFINE Ends == {j \in i..(n + 1) : At(text, j) \notin kind}
    <2>0. n \in Nat
        BY <1>1
    <2>1. i \in 1..n
        BY <1>1, <1>3
    <2>2. i..(n + 1) \subseteq Nat /\ n + 1 \in i..(n + 1) /\ ~(n + 1 \in 1..n)
        BY <2>0, <2>1, PositionsOf
    <2>3. n + 1 \in Ends /\ Ends \subseteq Nat
        BY <1>1, <2>2
    <2>4. Min(Ends) \in Ends
        <3> HIDE DEF Ends
        <3>1. QED
            BY <2>3, MinIsLeast
    <2>5. PICK end \in i..(n + 1) : end = Min(Ends) /\ end # i
        BY <1>3, <2>4
    <2>6. i < end /\ end <= n + 1 /\ end \in Nat
        <3> HIDE DEF Ends
        <3>1. QED
            BY <2>0, <2>1, <2>5, PositionsOf
    <2>7. SubSeq(text, i, end - 1) \in Texts \ {<<>>}
        BY <1>1, <2>6, PartOfText
    <2>8. Run(text, i, kind) = Read(end, SubSeq(text, i, end - 1))
        BY <1>1, <1>3, <2>5 DEF Run
    <2>9. Read(end, SubSeq(text, i, end - 1)).end = end
          /\ Read(end, SubSeq(text, i, end - 1)).value = SubSeq(text, i, end - 1)
        BY DEF Read
    <2>10. QED
        BY <1>1, <2>6, <2>7, <2>8, <2>9 DEF Reads
<1>4. QED
    BY <1>2, <1>3

\* A list of one element is a list.
LEMMA OneReads ==
    ASSUME NEW text, NEW V, NEW v \in V, NEW j, NEW e \in Nat, j < e, e <= Len(text) + 1
    PROVE  Reads(text, j, Read(e, <<v>>), Seq(V) \ {<<>>})
<1>1. <<v>> \in Seq(V) \ {<<>>}
    OBVIOUS
<1>2. QED
    BY <1>1 DEF Reads, Read

\* An element before a list makes a list.
LEMMA PrependReads ==
    ASSUME NEW text, NEW V, NEW v \in V, NEW j \in Nat, NEW k \in Nat, j < k, NEW rest,
           rest.end # 0, Reads(text, k, rest, Seq(V) \ {<<>>})
    PROVE  Reads(text, j, Read(rest.end, <<v>> \o rest.value), Seq(V) \ {<<>>})
<1>1. /\ rest.end \in Nat /\ k < rest.end /\ rest.end <= Len(text) + 1
      /\ rest.value \in Seq(V)
    BY DEF Reads
<1>2. <<v>> \in Seq(V) /\ Len(<<v>>) = 1 /\ Len(rest.value) \in Nat
    BY <1>1
<1>3. <<v>> \o rest.value \in Seq(V) /\ Len(<<v>> \o rest.value) = 1 + Len(rest.value)
    BY <1>1, <1>2, ConcatProperties
<1>4. <<v>> \o rest.value # <<>>
    BY <1>2, <1>3, EmptySeq
<1>5. j < rest.end
    BY <1>1
<1>6. QED
    BY <1>1, <1>3, <1>4, <1>5 DEF Reads, Read

\* A list of one element, and an element before a list.
Alone(read) == IF read.end = 0 THEN Failed ELSE Read(read.end, <<read.value>>)
Onward(read, rest) ==
    IF rest.end = 0 THEN Failed ELSE Read(rest.end, <<read.value>> \o rest.value)

Lists(V) == [end : Nat, value : Seq(V)]

\* What is read of a list, alone or with a rest, is a list.
LEMMA ListTypes ==
    ASSUME NEW V, NEW read, read.end \in Nat, read.end # 0 => read.value \in V
    PROVE  /\ Failed \in Lists(V) /\ Alone(read) \in Lists(V)
           /\ read.end # 0 => \A rest \in Lists(V) : Onward(read, rest) \in Lists(V)
<1>1. Failed \in Lists(V)
    BY DEF Failed, Read, Lists
<1>2. read.end # 0 => <<read.value>> \in Seq(V)
    OBVIOUS
<1>3. \A rest \in Lists(V) : rest.end \in Nat /\ rest.value \in Seq(V)
    BY DEF Lists
<1>4. read.end # 0 => \A rest \in Lists(V) : <<read.value>> \o rest.value \in Seq(V)
    BY <1>2, <1>3, ConcatProperties
<1>5. \A e \in Nat, v \in Seq(V) : Read(e, v) \in Lists(V)
    BY DEF Read, Lists
<1>6. QED
    BY <1>1, <1>2, <1>3, <1>4, <1>5 DEF Alone, Onward

\* The positions a list goes on from, and where to.
GoesOn(text, V, one, goes, next) ==
    /\ goes \subseteq 1..(Len(text) + 1)
    /\ \A j \in 1..(Len(text) + 1) : Reads(text, j, one[j], V)
    /\ \A j \in goes : one[j].end # 0 /\ next[j] \in 1..(Len(text) + 1) /\ j < next[j]

\* from[j] is the list that is read from j.
IsList(from, text, one, goes, next) ==
    \A j \in 1..(Len(text) + 1) :
        from[j] = IF j \in goes THEN Onward(one[j], from[next[j]]) ELSE Alone(one[j])

\* The function that reads a list from every position exists.
LEMMA ListIsDefined ==
    ASSUME NEW text \in Texts, NEW V, NEW one, NEW goes, NEW next,
           GoesOn(text, V, one, goes, next)
    PROVE  \E from : /\ from = [j \in 1..(Len(text) + 1) |-> from[j]]
                     /\ IsList(from, text, one, goes, next)
<1> DEFINE D == 1..(Len(text) + 1)
           n == Len(text) + 2
           R == Lists(V)
           m == [j \in D |-> Len(text) + 1 - j]
           onto == [j \in D |-> IF j \in goes THEN next[j] ELSE j]
           base == [j \in D |-> Alone(one[j])]
           step == [p \in D \X R |-> IF p[1] \in goes THEN Onward(one[p[1]], p[2]) ELSE Failed]
<1>1. Len(text) \in Nat
    BY NothingOutside
<1>2. n \in Nat /\ m \in [D -> Nat] /\ \A j \in D : m[j] < n
    BY <1>1
<1>3. /\ onto \in [D -> D]
      /\ \A j \in goes : j \in D /\ onto[j] = next[j] /\ m[onto[j]] < m[j]
    <2>1. \A j \in goes : j \in D /\ next[j] \in D /\ j < next[j]
        BY DEF GoesOn
    <2>2. \A j, k \in D : j < k => m[k] < m[j]
        BY <1>1
    <2> HIDE DEF D, m
    <2>3. QED
        BY <2>1, <2>2
<1>4. /\ \A j \in D : Alone(one[j]) \in R
      /\ \A j \in goes : \A rest \in R : Onward(one[j], rest) \in R
      /\ Failed \in R
    <2>1. /\ \A j \in D : one[j].end \in Nat /\ (one[j].end # 0 => one[j].value \in V)
          /\ \A j \in goes : j \in D /\ one[j].end # 0
        BY DEF GoesOn, Reads
    <2>2. Failed \in Lists(V)
        BY DEF Failed, Read, Lists
    <2> HIDE DEF D
    <2>3. QED
        BY <2>1, <2>2, ListTypes
<1>5. base \in [D -> R]
    BY <1>4
<1>6. step \in [D \X R -> R]
    <2> HIDE DEF D, R
    <2>1. QED
        BY <1>4
<1>7. PICK f \in [D -> R] :
            \A j \in D : f[j] = IF j \in goes THEN step[<<j, f[onto[j]]>>] ELSE base[j]
    <2> HIDE DEF D, n, R, m, onto, base, step
    <2>1. IsRecursion(D, R, n, m, base, step, goes, onto)
        BY <1>2, <1>3, <1>5, <1>6 DEF IsRecursion
    <2>2. QED
        BY <2>1, RecursionDefines
<1>8. ASSUME NEW j \in D
      PROVE  f[j] = IF j \in goes THEN Onward(one[j], f[next[j]]) ELSE Alone(one[j])
    <2>1. base[j] = Alone(one[j])
        OBVIOUS
    <2>2. f[onto[j]] \in R
        BY <1>3, <1>7
    <2>3. <<j, f[onto[j]]>> \in D \X R
        BY <2>2
    <2>4. j \in goes => step[<<j, f[onto[j]]>>] = Onward(one[j], f[onto[j]])
        <3> HIDE DEF D, R, onto
        <3>1. QED
            BY <2>3
    <2> HIDE DEF D, R, m, onto, base, step
    <2>5. QED
        BY <1>3, <1>7, <2>1, <2>4
<1>9. f = [j \in D |-> f[j]]
    BY <1>7
<1>10. IsList(f, text, one, goes, next)
    BY <1>8 DEF IsList
<1>11. QED
    BY <1>9, <1>10

\* What goes on from position to position reads a list, if every step of it reads
\* an element.
LEMMA ListReads ==
    ASSUME NEW text \in Texts, NEW V, NEW one, NEW goes, NEW next, NEW from,
           GoesOn(text, V, one, goes, next), IsList(from, text, one, goes, next)
    PROVE  \A j \in 1..(Len(text) + 1) : Reads(text, j, from[j], Seq(V) \ {<<>>})
<1>0. /\ goes \subseteq 1..(Len(text) + 1)
      /\ \A j \in 1..(Len(text) + 1) : Reads(text, j, one[j], V)
      /\ \A j \in goes : one[j].end # 0 /\ next[j] \in 1..(Len(text) + 1) /\ j < next[j]
      /\ \A j \in 1..(Len(text) + 1) :
            from[j] = IF j \in goes THEN Onward(one[j], from[next[j]]) ELSE Alone(one[j])
    BY DEF GoesOn, IsList
<1> DEFINE D == 1..(Len(text) + 1)
           m == [j \in D |-> Len(text) + 1 - j]
           T == {j \in D : Reads(text, j, from[j], Seq(V) \ {<<>>})}
<1>1. Len(text) \in Nat
    BY NothingOutside
<1>2. m \in [D -> Nat]
    BY <1>1
<1>3. ASSUME NEW j \in D, \A k \in D : m[k] < m[j] => k \in T
      PROVE  Reads(text, j, from[j], Seq(V) \ {<<>>})
    <2>1. CASE j \notin goes
        <3>1. CASE one[j].end = 0
            <4>1. from[j] = Failed
                BY <1>0, <2>1, <3>1 DEF Alone
            <4>2. QED
                BY <4>1, FailedReads
        <3>2. CASE one[j].end # 0
            <4>1. from[j] = Read(one[j].end, <<one[j].value>>)
                BY <1>0, <2>1, <3>2 DEF Alone
            <4>2. /\ one[j].value \in V /\ one[j].end \in Nat
                  /\ j < one[j].end /\ one[j].end <= Len(text) + 1
                BY <1>0, <3>2 DEF Reads
            <4> HIDE DEF D, m, T
            <4>3. QED
                BY <4>1, <4>2, OneReads
        <3>3. QED
            BY <3>1, <3>2
    <2>2. CASE j \in goes
        <3> DEFINE k == next[j]
                   rest == from[next[j]]
        <3>1. k \in D /\ j < k /\ j \in Nat /\ k \in Nat /\ one[j].end # 0
            BY <1>0, <1>1, <2>2
        <3>2. m[k] < m[j]
            BY <1>1, <3>1
        <3>3. Reads(text, k, rest, Seq(V) \ {<<>>})
            BY <1>3, <3>1, <3>2
        <3>4. one[j].value \in V
            BY <1>0, <3>1 DEF Reads
        <3>5. from[j] = IF rest.end = 0 THEN Failed ELSE Read(rest.end, <<one[j].value>> \o rest.value)
            BY <1>0, <2>2 DEF Onward
        <3> HIDE DEF D, m, T, k, rest
        <3>6. CASE rest.end = 0
            <4>1. from[j] = Failed
                BY <3>5, <3>6
            <4>2. QED
                BY <4>1, FailedReads
        <3>7. CASE rest.end # 0
            <4>1. Reads(text, j, Read(rest.end, <<one[j].value>> \o rest.value), Seq(V) \ {<<>>})
                BY <3>1, <3>3, <3>4, <3>7, PrependReads
            <4>2. QED
                BY <3>5, <3>7, <4>1
        <3>8. QED
            BY <3>6, <3>7
    <2>3. QED
        BY <2>1, <2>2
<1>4. \A j \in D : (\A k \in D : m[k] < m[j] => k \in T) => j \in T
    BY <1>3
<1>5. D \subseteq T
    <2> HIDE DEF D, m, T
    <2>1. QED
        BY <1>2, <1>4, MeasureInduction
<1>6. QED
    BY <1>5

\* A production repeated after a separator reads a list that is not empty.
LEMMA SeparatedReads ==
    ASSUME NEW text \in Texts, NEW V, NEW one, NEW separator, separator # "",
           \A j \in 1..(Len(text) + 1) : Reads(text, j, one[j], V),
           NEW i \in 1..(Len(text) + 1)
    PROVE  Reads(text, i, Separated(text, i, one, separator), Seq(V) \ {<<>>})
<1> DEFINE from[j \in 1 .. Len(text) + 1] ==
                LET rest == from[one[j].end + 1]
                IN  IF one[j].end = 0 THEN Failed
                    ELSE IF At(text, one[j].end) # separator
                         THEN Read(one[j].end, <<one[j].value>>)
                    ELSE IF rest.end = 0 THEN Failed
                    ELSE Read(rest.end, <<one[j].value>> \o rest.value)
           Body(g, j) ==
                LET rest == g[one[j].end + 1]
                IN  IF one[j].end = 0 THEN Failed
                    ELSE IF At(text, one[j].end) # separator
                         THEN Read(one[j].end, <<one[j].value>>)
                    ELSE IF rest.end = 0 THEN Failed
                    ELSE Read(rest.end, <<one[j].value>> \o rest.value)
           D == 1..(Len(text) + 1)
           goes == {j \in D : one[j].end # 0 /\ At(text, one[j].end) = separator}
           next == [j \in D |-> one[j].end + 1]
<1>1. Separated(text, i, one, separator) = from[i]
    BY DEF Separated
<1>2. GoesOn(text, V, one, goes, next)
    <2>1. PICK n \in Nat : n = Len(text) /\ \A j \in Nat : At(text, j) # "" <=> j \in 1..n
        BY NothingOutside
    <2>2. ASSUME NEW j \in goes PROVE next[j] \in 1..(Len(text) + 1) /\ j < next[j]
        <3>1. /\ j \in 1..(n + 1) /\ Reads(text, j, one[j], V) /\ one[j].end # 0
              /\ At(text, one[j].end) # "" /\ next[j] = one[j].end + 1
            BY <2>1
        <3> HIDE DEF from, Body, next, goes, D
        <3>2. PICK e \in Nat : e = one[j].end /\ j < e
            BY <3>1 DEF Reads
        <3>3. n \in Nat /\ e \in 1..n
            <4>1. n \in Nat
                BY <2>1
            <4>2. e \in Nat
                BY <3>2
            <4>3. At(text, e) # ""
                BY <3>1, <3>2
            <4>4. QED
                BY <2>1, <4>1, <4>2, <4>3
        <3>4. e + 1 \in 1..(n + 1) /\ j < e + 1
            <4>1. j \in 1..(n + 1) /\ j < e
                BY <3>1, <3>2
            <4>2. QED
                BY <3>3, <4>1, BehindOf
        <3>5. QED
            BY <2>1, <3>1, <3>2, <3>4, Zenon
    <2>3. QED
        BY <2>2 DEF GoesOn
<1>3. \A g : \A j \in D : Body(g, j) = IF j \in goes THEN Onward(one[j], g[next[j]]) ELSE Alone(one[j])
    BY DEF Onward, Alone
<1> HIDE DEF goes, next
<1>4. PICK f : f = [j \in 1..(Len(text) + 1) |-> f[j]] /\ IsList(f, text, one, goes, next)
    <2> HIDE DEF from, Body, D
    <2>1. QED
        BY <1>2, ListIsDefined
<1>5. f = [j \in 1 .. Len(text) + 1 |-> Body(f, j)]
    <2> HIDE DEF Body
    <2>1. \A j \in D : f[j] = Body(f, j)
        BY <1>3, <1>4 DEF IsList
    <2>2. QED
        BY <1>4, <2>1
<1>6. from = [j \in 1 .. Len(text) + 1 |-> Body(from, j)]
    BY <1>5
<1>7. \A j \in D : from[j] = IF j \in goes THEN Onward(one[j], from[next[j]]) ELSE Alone(one[j])
    <2> HIDE DEF from, Body
    <2>1. \A j \in D : from[j] = Body(from, j)
        BY <1>6
    <2>2. QED
        BY <1>3, <2>1
<1>8. \A j \in D : Reads(text, j, from[j], Seq(V) \ {<<>>})
    <2> HIDE DEF from, Body
    <2>1. IsList(from, text, one, goes, next)
        BY <1>7 DEF IsList
    <2>2. QED
        BY <1>2, <2>1, ListReads
<1>9. QED
    BY <1>1, <1>8

\* The wildcards, the empty text and the filler differ.
LEMMA Kinds == Single # Multi /\ Single # <<>> /\ Multi # <<>> /\ Filler # <<>>
BY DEF Single, Multi, Filler

\* What a name, a literal and a verb are made of, and what a segment is.
Words == Texts \ {<<>>}
Parts == [field : Seq(Words), sub : Seq(Words) \ {<<>>}]

\* A position in a text is a number.
LEMMA PlaceIsNat ==
    ASSUME NEW text \in Texts, NEW i \in 1..(Len(text) + 1)
    PROVE  Len(text) \in Nat /\ i \in Nat \ {0}
<1>1. Len(text) \in Nat
    BY DEF Texts
<1>2. QED
    BY <1>1

\* A production that ends further on has read what it says.
LEMMA OfKind ==
    ASSUME NEW text, NEW i, NEW end \in Nat, i < end, end <= Len(text) + 1,
           NEW kind, NEW value \in kind
    PROVE  Reads(text, i, Read(end, value), kind)
BY DEF Reads, Read

\* The wildcards are words.
LEMMA StarsAreWords == Single \in Words /\ Multi \in Words
<1>1. "*" \in Characters
    BY DEF Characters, Reserved
<1>2. Single \in Seq(Characters) /\ Multi \in Seq(Characters)
    BY <1>1 DEF Single, Multi
<1>3. QED
    BY <1>2, Kinds DEF Words, Texts

\* A name, a literal and a verb are words.
LEMMA WordsRead ==
    ASSUME NEW text \in Texts, NEW i \in 1..(Len(text) + 1)
    PROVE  Reads(text, i, Ident(text, i), Words) /\ Reads(text, i, Plain(text, i), Words)
           /\ Reads(text, i, Run(text, i, Content), Words)
<1>1. i \in Nat \ {0}
    BY PlaceIsNat
<1>2. "" \notin Letters \cup Digits /\ "" \notin Content
    BY CharactersAssumption DEF Content
<1>3. /\ Reads(text, i, Run(text, i, Letters \cup Digits), Words)
      /\ Reads(text, i, Run(text, i, Content), Words)
    BY <1>1, <1>2, RunReads DEF Words
<1>4. Reads(text, i, Ident(text, i), Words)
    BY <1>3, FailedReads DEF Ident
<1>5. CASE At(text, i) # "*"
    BY <1>3, <1>4, <1>5 DEF Plain
<1>6. CASE At(text, i) = "*"
    <2>1. PICK n \in Nat : n = Len(text) /\ \A j \in Nat : At(text, j) # "" <=> j \in 1..n
        BY NothingOutside
    <2>2. n \in Nat /\ i \in 1..n
        BY <1>1, <1>6, <2>1
    <2>3. Single \in Words /\ Multi \in Words
        BY StarsAreWords
    <2>4. CASE At(text, i + 1) # "*"
        <3>1. Plain(text, i) = Read(i + 1, Single)
            BY <1>6, <2>4 DEF Plain
        <3>2. i + 1 \in Nat /\ i < i + 1 /\ i + 1 <= n + 1
            BY <2>2
        <3>3. i + 1 <= Len(text) + 1
            BY <2>1, <3>2, Zenon
        <3>4. QED
            BY <1>3, <1>4, <2>3, <3>1, <3>2, <3>3, OfKind
    <2>5. CASE At(text, i + 1) = "*"
        <3>1. Plain(text, i) = Read(i + 2, Multi)
            BY <1>6, <2>5 DEF Plain
        <3>2. i + 1 \in Nat
            BY <2>2
        <3>3. i + 1 \in 1..n
            BY <2>1, <2>5, <3>2
        <3>4. i + 2 \in Nat /\ i < i + 2 /\ i + 2 <= n + 1
            BY <2>2, <3>3
        <3>5. i + 2 <= Len(text) + 1
            BY <2>1, <3>4, Zenon
        <3>6. QED
            BY <1>3, <1>4, <2>3, <3>1, <3>4, <3>5, OfKind
    <2>6. QED
        BY <2>4, <2>5
<1>7. QED
    BY <1>5, <1>6

\* A field path and a sub-template are lists of words, not empty ones.
LEMMA PathsRead ==
    ASSUME NEW text \in Texts, NEW i \in 1..(Len(text) + 1)
    PROVE  /\ Reads(text, i, FieldPath(text, i), Seq(Words) \ {<<>>})
           /\ Reads(text, i, SubSegments(text, i), Seq(Words) \ {<<>>})
<1> DEFINE idents == [j \in 1..(Len(text) + 1) |-> Ident(text, j)]
           plains == [j \in 1..(Len(text) + 1) |-> Plain(text, j)]
<1>1. \A j \in 1..(Len(text) + 1) :
            Reads(text, j, idents[j], Words) /\ Reads(text, j, plains[j], Words)
    BY WordsRead
<1>2. /\ FieldPath(text, i) = Separated(text, i, idents, ".")
      /\ SubSegments(text, i) = Separated(text, i, plains, "/")
    BY DEF FieldPath, SubSegments
<1> HIDE DEF idents, plains
<1>3. "." # "" /\ "/" # ""
    OBVIOUS
<1>4. Reads(text, i, Separated(text, i, idents, "."), Seq(Words) \ {<<>>})
    BY <1>1, <1>3, SeparatedReads
<1>5. Reads(text, i, Separated(text, i, plains, "/"), Seq(Words) \ {<<>>})
    BY <1>1, <1>3, SeparatedReads
<1>6. QED
    BY <1>2, <1>4, <1>5

\* One character further on, what was read was read from here as well.
LEMMA ReadsFurther ==
    ASSUME NEW text, NEW i \in Nat, NEW j \in Nat, i <= j, NEW kind, NEW read,
           Reads(text, j, read, kind)
    PROVE  Reads(text, i, read, kind)
BY DEF Reads

\* A variable has a field path and the segments it expands to.
LEMMA VariableReads ==
    ASSUME NEW text \in Texts, NEW i \in 1..(Len(text) + 1)
    PROVE  Reads(text, i, Variable(text, i), Parts)
<1>1. PICK n \in Nat : n = Len(text) /\ \A j \in Nat : At(text, j) # "" <=> j \in 1..n
    BY NothingOutside
<1>2. PICK field : field = FieldPath(text, i) /\ Reads(text, i, field, Seq(Words) \ {<<>>})
    BY PathsRead
<1>3. PICK sub : sub = IF At(text, field.end) = "=" THEN SubSegments(text, field.end + 1)
                       ELSE Read(field.end, <<Single>>)
    OBVIOUS
<1>4. CASE field.end = 0 \/ sub.end = 0 \/ At(text, sub.end) # "}"
    BY <1>2, <1>3, <1>4, FailedReads DEF Variable
<1>5. CASE ~(field.end = 0 \/ sub.end = 0 \/ At(text, sub.end) # "}")
    <2>0. n \in Nat /\ i \in 1..(n + 1)
        BY <1>1
    <2>1. field.end \in Nat /\ i < field.end /\ field.value \in Seq(Words)
        BY <1>2, <1>5 DEF Reads
    <2>2. sub.end \in Nat /\ field.end <= sub.end /\ sub.value \in Seq(Words) \ {<<>>}
        <3>1. CASE At(text, field.end) = "="
            <4>1. field.end \in 1..n
                BY <1>1, <2>1, <3>1
            <4>2. field.end + 1 \in 1..(n + 1)
                BY <2>0, <4>1, PositionsOf
            <4>3. Reads(text, field.end + 1, sub, Seq(Words) \ {<<>>})
                BY <1>1, <1>3, <3>1, <4>2, PathsRead
            <4>4. sub.end \in Nat /\ field.end + 1 < sub.end /\ sub.value \in Seq(Words) \ {<<>>}
                BY <1>5, <4>3 DEF Reads
            <4>5. QED
                BY <2>1, <4>4
        <3>2. CASE At(text, field.end) # "="
            <4>1. sub = Read(field.end, <<Single>>)
                BY <1>3, <3>2
            <4>2. <<Single>> \in Seq(Words) \ {<<>>}
                BY StarsAreWords
            <4>3. QED
                BY <2>1, <4>1, <4>2 DEF Read
        <3>3. QED
            BY <3>1, <3>2
    <2>3. sub.end \in 1..n
        <3>1. At(text, sub.end) # ""
            BY <1>5
        <3>2. QED
            BY <1>1, <2>2, <3>1
    <2>4. sub.end + 1 \in 1..(n + 1) /\ i < sub.end + 1 /\ sub.end + 1 \in Nat
        BY <2>0, <2>1, <2>2, <2>3
    <2>5. Variable(text, i) = Read(sub.end + 1, [field |-> field.value, sub |-> sub.value])
        BY <1>2, <1>3, <1>5 DEF Variable
    <2>6. [field |-> field.value, sub |-> sub.value] \in Parts
        BY <2>1, <2>2 DEF Parts
    <2>7. sub.end + 1 <= n + 1
        BY <2>0, <2>3
    <2>8. sub.end + 1 <= Len(text) + 1
        BY <1>1, <2>7, Zenon
    <2>9. QED
        BY <2>4, <2>5, <2>6, <2>8, OfKind
<1>6. QED
    BY <1>4, <1>5

\* A segment has words, whichever of the alternatives it is.
LEMMA SegmentReads ==
    ASSUME NEW text \in Texts, NEW i \in 1..(Len(text) + 1)
    PROVE  Reads(text, i, Segment(text, i), Parts)
<1>1. PICK n \in Nat : n = Len(text) /\ \A j \in Nat : At(text, j) # "" <=> j \in 1..n
    BY NothingOutside
<1>2. n \in Nat /\ i \in 1..(n + 1) /\ i \in Nat
    BY <1>1, PlaceIsNat
<1>3. CASE At(text, i) = "{"
    <2>1. i \in 1..n
        BY <1>1, <1>2, <1>3
    <2>2. i + 1 \in 1..(n + 1) /\ i + 1 \in Nat /\ i <= i + 1
        BY <1>2, <2>1
    <2>3. Reads(text, i + 1, Variable(text, i + 1), Parts)
        BY <1>1, <2>2, VariableReads
    <2>4. Reads(text, i, Variable(text, i + 1), Parts)
        BY <1>2, <2>2, <2>3, ReadsFurther
    <2>5. QED
        BY <1>3, <2>4 DEF Segment
<1>4. CASE At(text, i) # "{"
    <2>1. PICK plain : plain = Plain(text, i) /\ Reads(text, i, plain, Words)
        BY WordsRead
    <2>2. CASE plain.end = 0
        <3>1. Segment(text, i) = Failed
            BY <1>4, <2>1, <2>2 DEF Segment
        <3>2. QED
            BY <3>1, FailedReads
    <2>3. CASE plain.end # 0
        <3>1. Segment(text, i) = Read(plain.end, [field |-> <<>>, sub |-> <<plain.value>>])
            BY <1>4, <2>1, <2>3 DEF Segment
        <3>2. plain.value \in Words
            BY <2>1, <2>3 DEF Reads
        <3>3. [field |-> <<>>, sub |-> <<plain.value>>] \in Parts
            BY <3>2 DEF Parts
        <3>4. plain.end \in Nat /\ i < plain.end /\ plain.end <= Len(text) + 1
            BY <2>1, <2>3 DEF Reads
        <3>5. QED
            BY <3>1, <3>3, <3>4, OfKind
    <2>4. QED
        BY <2>2, <2>3
<1>5. QED
    BY <1>3, <1>4

\* A text that is a template is segments behind its first slash, and rule by rule
\* they are valid.
LEMMA ParsedTemplate ==
    ASSUME NEW text \in Texts, Parse(text) # NoTemplate
    PROVE  Parse(text).segments \in Seq(Parts) /\ IsValid(Parse(text).segments)
<1>1. PICK n \in Nat : n = Len(text) /\ \A j \in Nat : At(text, j) # "" <=> j \in 1..n
    BY NothingOutside
<1>2. PICK segments : segments = Segments(text, 2)
    OBVIOUS
<1>3. /\ At(text, 1) = "/" /\ segments.end # 0 /\ IsValid(segments.value)
      /\ Parse(text).segments = segments.value
    BY <1>2 DEF Parse
<1>4. 2 \in 1..(n + 1)
    <2>1. 1 \in 1..n
        BY <1>1, <1>3
    <2>2. n \in Nat
        BY <1>1
    <2>3. QED
        BY <2>1, <2>2
<1> DEFINE ones == [j \in 1..(Len(text) + 1) |-> Segment(text, j)]
<1>5. Segments(text, 2) = Separated(text, 2, ones, "/")
    BY DEF Segments
<1>6. \A j \in 1..(Len(text) + 1) : Reads(text, j, ones[j], Parts)
    BY SegmentReads
<1> HIDE DEF ones
<1>7. Reads(text, 2, segments, Seq(Parts) \ {<<>>})
    <2>1. "/" # "" /\ 2 \in 1..(Len(text) + 1)
        BY <1>1, <1>4
    <2>2. QED
        BY <1>2, <1>5, <1>6, <2>1, SeparatedReads, ZenonT(30)
<1>8. segments.value \in Seq(Parts)
    BY <1>3, <1>7 DEF Reads
<1>9. QED
    BY <1>3, <1>8

\* What is compiled is well-formed: the segments of the variables, expanded, are
\* texts, and "**" is the last of them if it is one.
THEOREM CompiledIsWellFormed ==
    ASSUME NEW text \in Texts, Parse(text) # NoTemplate, NEW method, NEW source
    PROVE  WellFormed(Compile(method, source, Parse(text)))
<1>1. PICK segments \in Seq(Parts) : segments = Parse(text).segments /\ IsValid(segments)
    BY ParsedTemplate
<1>2. [k \in DOMAIN segments |-> segments[k].sub] \in Seq(Seq(Words))
    <2>1. PICK n \in Nat : n = Len(segments) /\ DOMAIN segments = 1..n
        BY <1>1
    <2>2. \A k \in 1..n : segments[k] \in Parts
        BY <1>1, <2>1, ElementOfSeq
    <2>3. \A k \in 1..n : segments[k].sub \in Seq(Words)
        BY <2>2 DEF Parts
    <2>4. [k \in 1..n |-> segments[k].sub] \in Seq(Seq(Words))
        BY <2>1, <2>3
    <2>5. QED
        BY <2>1, <2>4
<1>3. Flat(segments) \in Seq(Words)
    BY <1>2, FlattenIsSeq DEF Flat
<1>4. PICK segs \in Seq(Words) : segs = Flat(segments)
    BY <1>3
<1>5. Len(segs) \in Nat /\ DOMAIN segs = 1..Len(segs)
    BY <1>4
<1>6. \A i \in 1..Len(segs) : segs[i] # <<>>
    BY <1>4, ElementOfSeq DEF Words
<1>7. \A i \in 1..(Len(segs) - 1) : segs[i] # Multi
    BY <1>1, <1>4 DEF IsValid
<1>8. Compile(method, source, Parse(text)).segs = segs
    BY <1>1, <1>4 DEF Compile
<1>9. QED
    BY <1>5, <1>6, <1>7, <1>8 DEF WellFormed

-----------------------------------------------------------------------------
\* Matching

\* The positions a route matches one to one, and the one its "**" is at.
LEMMA FixedLength ==
    ASSUME NEW r, WellFormed(r)
    PROVE  /\ Fixed(r) \in Nat /\ Len(r.segs) \in Nat
           /\ \A i \in 1..Fixed(r) : i \in 1..Len(r.segs) /\ r.segs[i] # Multi
           /\ HasMulti(r) => Len(r.segs) = Fixed(r) + 1 /\ r.segs[Len(r.segs)] = Multi
           /\ ~HasMulti(r) => Len(r.segs) = Fixed(r)
<1>1. CASE HasMulti(r)
    BY <1>1 DEF HasMulti, Fixed, WellFormed
<1>2. CASE ~HasMulti(r)
    <2>1. \A i \in 1..Len(r.segs) : r.segs[i] # Multi
        BY <1>2 DEF HasMulti, WellFormed
    <2>2. QED
        BY <1>2, <2>1 DEF Fixed, WellFormed
<1>3. QED
    BY <1>1, <1>2

-----------------------------------------------------------------------------
\* What a variable captures

\* What each segment expands to.
Subs(segments) == [k \in DOMAIN segments |-> segments[k].sub]

\* The part of the segments from a to b, expanded, is that part of the expansions.
LEMMA FlatOfPart ==
    ASSUME NEW segments \in Seq(Parts), NEW n \in Nat, n = Len(segments),
           NEW a \in Nat, a # 0, NEW b \in 0..n
    PROVE  Subs(segments) \in Seq(Seq(Words)) /\ Len(Subs(segments)) = n
           /\ Flat(SubSeq(segments, a, b)) = FlattenSeq(SubSeq(Subs(segments), a, b))
<1>0. PICK subs : subs = Subs(segments)
    OBVIOUS
<1> DEFINE part == SubSeq(segments, a, b)
           cut  == SubSeq(subs, a, b)
<1>1. DOMAIN segments = 1..n /\ \A k \in 1..n : segments[k] \in Parts
    BY ElementOfSeq
<1>2. \A k \in 1..n : segments[k].sub \in Seq(Words)
    BY <1>1 DEF Parts
<1>3. subs \in [1..n -> Seq(Words)] /\ \A k \in 1..n : subs[k] = segments[k].sub
    BY <1>0, <1>1, <1>2 DEF Subs
<1>4. subs \in Seq(Seq(Words)) /\ Len(subs) = n
    BY <1>3
<1>5. a \in Int /\ b \in Int /\ \A k \in a..b : k \in 1..n
    OBVIOUS
<1>6. /\ part \in Seq(Parts) /\ Len(part) = IF a <= b THEN b - a + 1 ELSE 0
      /\ \A k \in 1..(b - a + 1) : part[k] = segments[a + k - 1]
    BY <1>1, <1>5, SubSeqProperties
<1>7. /\ cut \in Seq(Seq(Words)) /\ Len(cut) = IF a <= b THEN b - a + 1 ELSE 0
      /\ \A k \in 1..(b - a + 1) : cut[k] = subs[a + k - 1]
    BY <1>3, <1>5, SubSeqProperties
<1> HIDE DEF part, cut
<1>8. [k \in DOMAIN part |-> part[k].sub] = cut
    <2> DEFINE m == IF a <= b THEN b - a + 1 ELSE 0
    <2>1. m \in Nat /\ \A k \in 1..m : k \in 1..(b - a + 1) /\ a + k - 1 \in 1..n
        OBVIOUS
    <2>2. DOMAIN part = 1..m /\ DOMAIN cut = 1..m /\ cut = [k \in 1..m |-> cut[k]]
        BY <1>6, <1>7, <2>1
    <2> HIDE DEF m
    <2>3. \A k \in 1..m : part[k].sub = cut[k]
        <3> SUFFICES ASSUME NEW k \in 1..m PROVE part[k].sub = cut[k]
            OBVIOUS
        <3>1. k \in 1..(b - a + 1) /\ a + k - 1 \in 1..n
            BY <2>1
        <3>2. QED
            BY <1>3, <1>6, <1>7, <3>1
    <2>4. QED
        BY <2>2, <2>3
<1>9. QED
    BY <1>0, <1>4, <1>8 DEF Flat, part, cut

\* The segments before one, its own, and those behind it make up the route.
LEMMA FlatSplits ==
    ASSUME NEW segments \in Seq(Parts), NEW n \in Nat, n = Len(segments), NEW s \in 1..n
    PROVE  /\ Flat(SubSeq(segments, s, s)) = segments[s].sub
           /\ Flat(SubSeq(segments, 1, s - 1)) \in Seq(Words)
           /\ Flat(SubSeq(segments, s + 1, n)) \in Seq(Words)
           /\ segments[s].sub \in Seq(Words) \ {<<>>}
           /\ Flat(segments) = (Flat(SubSeq(segments, 1, s - 1)) \o segments[s].sub)
                                 \o Flat(SubSeq(segments, s + 1, n))
<1>1. PICK subs : subs = Subs(segments)
    OBVIOUS
<1>2. /\ s \in Nat /\ s # 0 /\ s \in 0..n /\ s - 1 \in 0..n /\ s + 1 \in Nat /\ s + 1 # 0
      /\ n \in 0..n /\ 1 \in Nat /\ 1 # 0
    OBVIOUS
<1>3. subs \in Seq(Seq(Words)) /\ Len(subs) = n
    BY <1>1, <1>2, FlatOfPart
<1>4. /\ Flat(SubSeq(segments, s, s)) = FlattenSeq(SubSeq(subs, s, s))
      /\ Flat(SubSeq(segments, 1, s - 1)) = FlattenSeq(SubSeq(subs, 1, s - 1))
      /\ Flat(SubSeq(segments, s + 1, n)) = FlattenSeq(SubSeq(subs, s + 1, n))
    BY <1>1, <1>2, FlatOfPart
<1>5. segments[s] \in Parts /\ subs[s] = segments[s].sub
    BY <1>1, <1>2, ElementOfSeq DEF Subs
<1>6. segments[s].sub \in Seq(Words) \ {<<>>}
    BY <1>5 DEF Parts
<1>7. /\ SubSeq(subs, s, s) \in Seq(Seq(Words)) /\ Len(SubSeq(subs, s, s)) = 1
      /\ SubSeq(subs, s, s)[1] = subs[s]
    <2>1. \A i \in s..s : i \in 1..n /\ subs[i] \in Seq(Words)
        BY <1>3, ElementOfSeq
    <2>2. /\ SubSeq(subs, s, s) \in Seq(Seq(Words))
          /\ Len(SubSeq(subs, s, s)) = IF s <= s THEN s - s + 1 ELSE 0
          /\ \A i \in 1..(s - s + 1) : SubSeq(subs, s, s)[i] = subs[s + i - 1]
        BY <1>2, <2>1, SubSeqProperties
    <2>3. s - s + 1 = 1 /\ s <= s /\ s + 1 - 1 = s /\ 1 \in 1..1
        BY <1>2
    <2>4. QED
        BY <2>2, <2>3
<1>8. FlattenSeq(SubSeq(subs, s, s)) = segments[s].sub
    BY <1>5, <1>7, FlattenOne
<1> DEFINE front == SubSeq(subs, 1, s)
<1>9. \A i \in 1..n : subs[i] \in Seq(Words)
    BY <1>3, ElementOfSeq
<1>10. /\ front \in Seq(Seq(Words)) /\ Len(front) = s
       /\ SubSeq(front, 1, s - 1) = SubSeq(subs, 1, s - 1)
       /\ SubSeq(front, (s - 1) + 1, s) = SubSeq(subs, s, s)
    <2>1. /\ front \in Seq(Seq(Words)) /\ Len(front) = IF 1 <= s THEN s - 1 + 1 ELSE 0
          /\ \A i \in 1..(s - 1 + 1) : front[i] = subs[1 + i - 1]
        <3>1. 1 \in Int /\ s \in Int /\ \A i \in 1..s : i \in 1..n
            BY <1>2
        <3>2. QED
            BY <1>9, <3>1, SubSeqProperties
    <2> HIDE DEF front
    <2>2. Len(front) = s /\ \A i \in 1..s : front[i] = subs[i]
        <3>1. 1 <= s /\ s - 1 + 1 = s /\ \A i \in 1..s : 1 + i - 1 = i
            BY <1>2
        <3>2. QED
            BY <2>1, <3>1
    <2>3. \A a \in {1, s}, b \in {s - 1, s} :
            SubSeq(front, a, b) = SubSeq(subs, a, b)
        <3> SUFFICES ASSUME NEW a \in {1, s}, NEW b \in {s - 1, s}
                     PROVE  SubSeq(front, a, b) = SubSeq(subs, a, b)
            OBVIOUS
        <3>1. a \in Int /\ b \in Int /\ \A i \in a..b : i \in 1..s /\ i \in 1..n
            BY <1>2
        <3>2. /\ \A i \in a..b : front[i] \in Seq(Words)
              /\ \A i \in a..b : subs[i] \in Seq(Words)
            BY <1>9, <2>2, <3>1
        <3>3. /\ SubSeq(front, a, b) \in Seq(Seq(Words))
              /\ Len(SubSeq(front, a, b)) = IF a <= b THEN b - a + 1 ELSE 0
              /\ \A i \in 1..(b - a + 1) : SubSeq(front, a, b)[i] = front[a + i - 1]
            BY <3>1, <3>2, SubSeqProperties
        <3>4. /\ SubSeq(subs, a, b) \in Seq(Seq(Words))
              /\ Len(SubSeq(subs, a, b)) = IF a <= b THEN b - a + 1 ELSE 0
              /\ \A i \in 1..(b - a + 1) : SubSeq(subs, a, b)[i] = subs[a + i - 1]
            BY <3>1, <3>2, SubSeqProperties
        <3> DEFINE m == IF a <= b THEN b - a + 1 ELSE 0
        <3>5. m \in Nat
            BY <3>1
        <3>6. \A i \in 1..m : i \in 1..(b - a + 1) /\ a + i - 1 \in 1..s
            BY <3>1, <3>5
        <3>7. \A i \in 1..m : SubSeq(front, a, b)[i] = SubSeq(subs, a, b)[i]
            BY <2>2, <3>3, <3>4, <3>6
        <3>8. QED
            BY <3>3, <3>4, <3>5, <3>7, SeqEqual
    <2>4. (s - 1) + 1 = s
        BY <1>2
    <2>5. QED
        BY <2>1, <2>2, <2>3, <2>4
<1> HIDE DEF front
<1>11. FlattenSeq(subs) = FlattenSeq(front) \o FlattenSeq(SubSeq(subs, s + 1, n))
    BY <1>2, <1>3, FlattenSplits DEF front
<1>12. FlattenSeq(front) = FlattenSeq(SubSeq(subs, 1, s - 1)) \o FlattenSeq(SubSeq(subs, s, s))
    <2>1. s - 1 \in 0..s /\ s \in Nat
        BY <1>2
    <2>2. FlattenSeq(front) =
            FlattenSeq(SubSeq(front, 1, s - 1)) \o FlattenSeq(SubSeq(front, (s - 1) + 1, s))
        BY <1>10, <2>1, FlattenSplits
    <2>3. QED
        BY <1>10, <2>2
<1>13. SubSeq(subs, 1, s - 1) \in Seq(Seq(Words)) /\ SubSeq(subs, s + 1, n) \in Seq(Seq(Words))
    <2>1. /\ 1 \in Int /\ s - 1 \in Int /\ s + 1 \in Int /\ n \in Int
          /\ \A i \in 1..(s - 1) : i \in 1..n
          /\ \A i \in (s + 1)..n : i \in 1..n
        BY <1>2
    <2>2. QED
        BY <1>9, <2>1, SubSeqProperties
<1>14. /\ Flat(SubSeq(segments, 1, s - 1)) \in Seq(Words)
       /\ Flat(SubSeq(segments, s + 1, n)) \in Seq(Words)
    BY <1>4, <1>13, FlattenIsSeq
<1>15. Flat(segments) = FlattenSeq(subs)
    BY <1>1 DEF Flat, Subs
<1>16. QED
    BY <1>4, <1>6, <1>8, <1>11, <1>12, <1>14, <1>15

\* Long enough, and with every segment but "**" matching its component, a path
\* is matched.
LEMMA PathIsMatched ==
    ASSUME NEW r, WellFormed(r), NEW n \in Nat, n = Len(r.segs),
           NEW path, NEW l \in Nat, l = Len(path),
           IF HasMulti(r) THEN l >= n - 1 ELSE l = n,
           \A i \in 1..n : r.segs[i] # Multi => SegmentMatches(r.segs[i], path[i])
    PROVE  Matches(r, r.method, path, r.verb)
<1>1. /\ \A i \in 1..Fixed(r) : i \in 1..n /\ r.segs[i] # Multi
      /\ HasMulti(r) => n = Fixed(r) + 1
      /\ ~HasMulti(r) => n = Fixed(r)
      /\ Fixed(r) \in Nat
    BY FixedLength
<1>2. IF HasMulti(r) THEN l >= Fixed(r) ELSE l = Fixed(r)
    BY <1>1
<1>3. QED
    BY <1>1, <1>2 DEF Matches

\* And the other way round.
LEMMA MatchedPath ==
    ASSUME NEW r, WellFormed(r), NEW n \in Nat, n = Len(r.segs),
           NEW path, NEW l \in Nat, l = Len(path), Matches(r, r.method, path, r.verb)
    PROVE  /\ IF HasMulti(r) THEN l >= n - 1 ELSE l = n
           /\ HasMulti(r) <=> n # 0 /\ r.segs[n] = Multi
           /\ \A i \in 1..n : r.segs[i] = Multi => i = n
           /\ \A i \in 1..n : r.segs[i] # Multi => i <= l /\ SegmentMatches(r.segs[i], path[i])
<1>1. /\ HasMulti(r) => n = Fixed(r) + 1 /\ r.segs[n] = Multi
      /\ ~HasMulti(r) => n = Fixed(r)
      /\ Fixed(r) \in Nat
    BY FixedLength
<1>2. /\ IF HasMulti(r) THEN l >= Fixed(r) ELSE l = Fixed(r)
      /\ \A i \in 1..Fixed(r) : SegmentMatches(r.segs[i], path[i])
    BY DEF Matches
<1>3. HasMulti(r) <=> n # 0 /\ r.segs[n] = Multi
    BY DEF HasMulti
<1>4. \A i \in 1..n : r.segs[i] = Multi => i = n
    BY DEF WellFormed
<1>5. ASSUME NEW i \in 1..n, r.segs[i] # Multi
      PROVE  i <= l /\ SegmentMatches(r.segs[i], path[i])
    <2>1. i \in 1..Fixed(r)
        BY <1>1, <1>5
    <2>2. Fixed(r) <= l
        BY <1>1, <1>2
    <2>3. QED
        BY <1>1, <1>2, <2>1, <2>2
<1>6. QED
    BY <1>1, <1>2, <1>3, <1>4, <1>5

\* A route whose segments are replaced is otherwise the same.
Replaces(r) ==
    \A segs : LET q == [r EXCEPT !.segs = segs]
              IN  q.segs = segs /\ q.method = r.method /\ q.verb = r.verb

\* The positions of three sequences one behind another.
ArePartsOf(A, B, C, a, b, c, segs) ==
    /\ Len(segs) = a + b + c
    /\ \A i \in 1..a : A[i] = segs[i]
    /\ \A i \in 1..b : B[i] = segs[a + i]
    /\ \A i \in 1..c : C[i] = segs[a + b + i]

LEMMA ThreeParts ==
    ASSUME NEW S, NEW A \in Seq(S), NEW B \in Seq(S), NEW C \in Seq(S),
           NEW a \in Nat, a = Len(A), NEW b \in Nat, b = Len(B), NEW c \in Nat, c = Len(C),
           NEW segs, segs = (A \o B) \o C
    PROVE  ArePartsOf(A, B, C, a, b, c, segs)
<1>1. /\ A \o B \in Seq(S) /\ Len(A \o B) = a + b
      /\ \A i \in 1..(a + b) : (A \o B)[i] = IF i <= a THEN A[i] ELSE B[i - a]
    BY ConcatProperties
<1>2. PICK D \in Seq(S) : D = A \o B
    BY <1>1
<1>3. /\ Len(D \o C) = a + b + c
      /\ \A i \in 1..(a + b + c) : (D \o C)[i] = IF i <= a + b THEN D[i] ELSE C[i - (a + b)]
    BY <1>1, <1>2, ConcatProperties
<1>4. /\ Len(segs) = a + b + c
      /\ \A i \in 1..(a + b) : segs[i] = IF i <= a THEN A[i] ELSE B[i - a]
      /\ \A i \in 1..(a + b + c) : i > a + b => segs[i] = C[i - (a + b)]
    BY <1>1, <1>2, <1>3
<1>5. \A i \in 1..a : i \in 1..(a + b)
    OBVIOUS
<1>6. \A i \in 1..b : a + i \in 1..(a + b) /\ ~(a + i <= a) /\ (a + i) - a = i
    OBVIOUS
<1>7. \A i \in 1..c : a + b + i \in 1..(a + b + c) /\ a + b + i > a + b
                      /\ (a + b + i) - (a + b) = i
    OBVIOUS
<1>8. QED
    BY <1>4, <1>5, <1>6, <1>7 DEF ArePartsOf

\* The components of a path from one position on.
LEMMA PartOfPath ==
    ASSUME NEW S, NEW path \in Seq(S), NEW l \in Nat, l = Len(path),
           NEW i \in 0..l, NEW j \in i..l
    PROVE  /\ SubSeq(path, i + 1, j) \in Seq(S) /\ Len(SubSeq(path, i + 1, j)) = j - i
           /\ \A k \in 1..(j - i) : SubSeq(path, i + 1, j)[k] = path[i + k]
<1>1. i + 1 \in Int /\ j \in Int /\ \A k \in (i + 1)..j : path[k] \in S
    BY ElementOfSeq
<1>2. /\ SubSeq(path, i + 1, j) \in Seq(S)
      /\ Len(SubSeq(path, i + 1, j)) = IF i + 1 <= j THEN j - (i + 1) + 1 ELSE 0
      /\ \A k \in 1..(j - (i + 1) + 1) : SubSeq(path, i + 1, j)[k] = path[(i + 1) + k - 1]
    BY <1>1, SubSeqProperties
<1>3. (IF i + 1 <= j THEN j - (i + 1) + 1 ELSE 0) = j - i
    OBVIOUS
<1>4. j - (i + 1) + 1 = j - i /\ \A k \in Int : (i + 1) + k - 1 = i + k
    OBVIOUS
<1>5. PICK part : part = SubSeq(path, i + 1, j)
    OBVIOUS
<1>6. part \in Seq(S) /\ Len(part) = j - i /\ \A k \in 1..(j - i) : part[k] = path[(i + 1) + k - 1]
    BY <1>2, <1>3, <1>4, <1>5
<1>7. ASSUME NEW k \in 1..(j - i) PROVE part[k] = path[i + k]
    <2>1. part[k] = path[(i + 1) + k - 1]
        BY <1>6
    <2>2. k \in Int
        OBVIOUS
    <2>3. (i + 1) + k - 1 = i + k
        BY <1>4, <2>2
    <2>4. QED
        BY <2>1, <2>3
<1>8. QED
    BY <1>5, <1>6, <1>7

\* Texts with a "**" at their end only are the segments of a well-formed route.
LEMMA WordsAreWellFormed ==
    ASSUME NEW X \in Seq(Words), NEW x \in Nat, x = Len(X),
           \A i \in 1..x : X[i] = Multi => i = x, NEW q, q.segs = X
    PROVE  WellFormed(q)
<1>1. \A i \in 1..x : X[i] # <<>>
    BY ElementOfSeq DEF Words
<1>2. \A i \in 1..(x - 1) : X[i] # Multi
    <2>1. \A i \in 1..(x - 1) : i \in 1..x /\ i # x
        OBVIOUS
    <2>2. QED
        BY <2>1
<1>3. DOMAIN X = 1..x
    OBVIOUS
<1>4. QED
    BY <1>1, <1>2, <1>3 DEF WellFormed

\* The end of what the middle of three parts of a route matches.
SpanEnd(A, B, path) == IF Multi \in ToSet(B) THEN Len(path) ELSE Len(A) + Len(B)

\* A path that a route of three parts matches falls into what each part matches.
LEMMA SpanFits ==
    ASSUME NEW r, WellFormed(r), Replaces(r),
           NEW A \in Seq(Words), NEW B \in Seq(Words) \ {<<>>}, NEW C \in Seq(Words),
           r.segs = (A \o B) \o C,
           NEW S, NEW path \in Seq(S), Matches(r, r.method, path, r.verb),
           NEW to, to = SpanEnd(A, B, path)
    PROVE  /\ Len(A) \in 0..Len(path) /\ to \in 0..Len(path) /\ Len(A) <= to
           /\ Matches([r EXCEPT !.segs = A], r.method, SubSeq(path, 1, Len(A)), r.verb)
           /\ Matches([r EXCEPT !.segs = B], r.method, SubSeq(path, Len(A) + 1, to), r.verb)
           /\ Matches([r EXCEPT !.segs = C], r.method, SubSeq(path, to + 1, Len(path)), r.verb)
<1>1. PICK a \in Nat, b \in Nat, c \in Nat, l \in Nat :
            a = Len(A) /\ b = Len(B) /\ c = Len(C) /\ l = Len(path)
    OBVIOUS
<1>2. b # 0
    BY <1>1, EmptySeq
<1>3. /\ Len(r.segs) = a + b + c
      /\ \A i \in 1..a : A[i] = r.segs[i]
      /\ \A i \in 1..b : B[i] = r.segs[a + i]
      /\ \A i \in 1..c : C[i] = r.segs[a + b + i]
    <2>1. ArePartsOf(A, B, C, a, b, c, r.segs)
        BY <1>1, ThreeParts
    <2>2. QED
        BY <2>1 DEF ArePartsOf
<1>4. PICK n \in Nat : n = a + b + c /\ n = Len(r.segs)
    BY <1>3
<1>5. /\ IF HasMulti(r) THEN l >= n - 1 ELSE l = n
      /\ HasMulti(r) <=> n # 0 /\ r.segs[n] = Multi
      /\ \A i \in 1..n : r.segs[i] = Multi => i = n
      /\ \A i \in 1..n : r.segs[i] # Multi => i <= l /\ SegmentMatches(r.segs[i], path[i])
    BY <1>1, <1>4, MatchedPath
<1>6. /\ \A i \in 1..a : i \in 1..n /\ i # n
      /\ \A i \in 1..b : a + i \in 1..n /\ (a + i = n <=> i = b /\ c = 0)
      /\ \A i \in 1..c : a + b + i \in 1..n /\ (a + b + i = n <=> i = c)
    BY <1>2, <1>4
<1>7. /\ \A i \in 1..a : A[i] # Multi
      /\ \A i \in 1..b : B[i] = Multi => i = b /\ c = 0
      /\ \A i \in 1..c : C[i] = Multi => i = c
    BY <1>3, <1>5, <1>6
<1>8. Multi \in ToSet(B) <=> B[b] = Multi
    <2>1. DOMAIN B = 1..b /\ b \in 1..b
        BY <1>1, <1>2
    <2>2. QED
        BY <1>7, <2>1 DEF ToSet
<1>9. c = 0 => (HasMulti(r) <=> B[b] = Multi)
    <2>1. c = 0 => b \in 1..b /\ a + b = n /\ n # 0
        BY <1>2, <1>4
    <2>2. QED
        BY <1>3, <1>5, <2>1
<1>10. c # 0 => (HasMulti(r) <=> C[c] = Multi)
    <2>1. c # 0 => c \in 1..c /\ a + b + c = n /\ n # 0
        BY <1>4
    <2>2. QED
        BY <1>3, <1>5, <2>1
<1>11. B[b] = Multi => c = 0 /\ HasMulti(r)
    <2>1. b \in 1..b
        BY <1>2
    <2>2. QED
        BY <1>7, <1>9, <2>1
<1>12. to = IF B[b] = Multi THEN l ELSE a + b
    BY <1>1, <1>8 DEF SpanEnd
<1>13. to \in Nat /\ a <= to /\ to <= l
    <2>1. CASE B[b] = Multi
        <3>1. l >= n - 1 /\ n = a + b
            BY <1>4, <1>5, <1>11, <2>1
        <3>2. QED
            BY <1>2, <1>12, <2>1, <3>1
    <2>2. CASE B[b] # Multi
        <3>1. l >= a + b
            <4>1. IF HasMulti(r) THEN l >= n - 1 ELSE l = n
                BY <1>5
            <4>2. c = 0 => ~HasMulti(r)
                BY <1>9, <2>2
            <4>3. n = a + b + c
                BY <1>4
            <4>4. QED
                BY <4>1, <4>2, <4>3
        <3>2. QED
            BY <1>12, <2>2, <3>1
    <2>3. QED
        BY <2>1, <2>2
<1> DEFINE first  == SubSeq(path, 1, a)
           second == SubSeq(path, a + 1, to)
           third  == SubSeq(path, to + 1, l)
<1>14. /\ Len(first) = a /\ \A i \in 1..a : first[i] = path[i]
       /\ Len(second) = to - a /\ \A i \in 1..(to - a) : second[i] = path[a + i]
       /\ Len(third) = l - to /\ \A i \in 1..(l - to) : third[i] = path[to + i]
    <2>1. /\ 0 \in 0..l /\ a \in 0..l /\ to \in a..l /\ to \in 0..l /\ l \in to..l
          /\ a - 0 = a /\ 0 + 1 = 1 /\ \A i \in Int : 0 + i = i
        BY <1>13
    <2>2. Len(first) = a - 0 /\ \A i \in 1..(a - 0) : first[i] = path[0 + i]
        BY <1>1, <2>1, PartOfPath
    <2>3. Len(second) = to - a /\ \A i \in 1..(to - a) : second[i] = path[a + i]
        BY <1>1, <2>1, PartOfPath, SMTT(30)
    <2>4. Len(third) = l - to /\ \A i \in 1..(l - to) : third[i] = path[to + i]
        BY <1>1, <2>1, PartOfPath, SMTT(30)
    <2> HIDE DEF first, second, third
    <2>5. QED
        BY <2>1, <2>2, <2>3, <2>4
<1> HIDE DEF first, second, third
<1>15. Matches([r EXCEPT !.segs = A], r.method, first, r.verb)
    <2>1. PICK q : q = [r EXCEPT !.segs = A]
        OBVIOUS
    <2>2. q.segs = A /\ q.method = r.method /\ q.verb = r.verb
        BY <2>1 DEF Replaces
    <2>3. WellFormed(q)
        BY <1>1, <1>7, <2>2, WordsAreWellFormed
    <2>4. ~HasMulti(q)
        BY <1>1, <1>7, <2>2 DEF HasMulti
    <2>5. \A i \in 1..a : q.segs[i] # Multi => SegmentMatches(q.segs[i], first[i])
        BY <1>3, <1>5, <1>6, <1>7, <1>14, <2>2
    <2>6. Matches(q, q.method, first, q.verb)
        BY <1>1, <1>14, <2>2, <2>3, <2>4, <2>5, PathIsMatched
    <2>7. QED
        BY <2>1, <2>2, <2>6
<1>16. Matches([r EXCEPT !.segs = B], r.method, second, r.verb)
    <2>1. PICK q : q = [r EXCEPT !.segs = B]
        OBVIOUS
    <2>2. q.segs = B /\ q.method = r.method /\ q.verb = r.verb
        BY <2>1 DEF Replaces
    <2>3. WellFormed(q)
        BY <1>1, <1>7, <2>2, WordsAreWellFormed
    <2>4. HasMulti(q) <=> B[b] = Multi
        BY <1>1, <1>2, <2>2 DEF HasMulti
    <2>5. IF HasMulti(q) THEN to - a >= b - 1 ELSE to - a = b
        <3>1. B[b] = Multi => to = l /\ l >= n - 1 /\ n = a + b
            BY <1>4, <1>5, <1>11, <1>12
        <3>2. B[b] # Multi => to = a + b
            BY <1>12
        <3>3. QED
            BY <1>13, <2>4, <3>1, <3>2
    <2>6. \A i \in 1..b : q.segs[i] # Multi => SegmentMatches(q.segs[i], second[i])
        <3> SUFFICES ASSUME NEW i \in 1..b, B[i] # Multi
                     PROVE  SegmentMatches(B[i], second[i])
            BY <2>2
        <3>1. a + i <= l /\ SegmentMatches(B[i], path[a + i])
            BY <1>3, <1>5, <1>6
        <3>2. i \in 1..(to - a)
            BY <1>12, <3>1
        <3>3. QED
            BY <1>14, <3>1, <3>2
    <2>7. to - a \in Nat
        BY <1>13
    <2>8. Matches(q, q.method, second, q.verb)
        BY <1>1, <1>14, <2>2, <2>3, <2>5, <2>6, <2>7, PathIsMatched
    <2>9. QED
        BY <2>1, <2>2, <2>8
<1>17. Matches([r EXCEPT !.segs = C], r.method, third, r.verb)
    <2>1. PICK q : q = [r EXCEPT !.segs = C]
        OBVIOUS
    <2>2. q.segs = C /\ q.method = r.method /\ q.verb = r.verb
        BY <2>1 DEF Replaces
    <2>3. WellFormed(q)
        BY <1>1, <1>7, <2>2, WordsAreWellFormed
    <2>4. HasMulti(q) <=> c # 0 /\ C[c] = Multi
        BY <1>1, <2>2 DEF HasMulti
    <2>5. IF HasMulti(q) THEN l - to >= c - 1 ELSE l - to = c
        <3>1. CASE c = 0
            <4>1. l = to
                BY <1>4, <1>5, <1>9, <1>12, <3>1
            <4>2. QED
                BY <1>13, <2>4, <3>1, <4>1
        <3>2. CASE c # 0
            <4>1. to = a + b
                BY <1>11, <1>12, <3>2
            <4>2. QED
                BY <1>4, <1>5, <1>10, <2>4, <3>2, <4>1
        <3>3. QED
            BY <3>1, <3>2
    <2>6. \A i \in 1..c : q.segs[i] # Multi => SegmentMatches(q.segs[i], third[i])
        <3> SUFFICES ASSUME NEW i \in 1..c, C[i] # Multi
                     PROVE  SegmentMatches(C[i], third[i])
            BY <2>2
        <3>1. to = a + b
            BY <1>11, <1>12
        <3>2. a + b + i <= l /\ SegmentMatches(C[i], path[a + b + i])
            BY <1>3, <1>5, <1>6
        <3>3. i \in 1..(l - to) /\ to + i = a + b + i
            BY <3>1, <3>2
        <3>4. QED
            BY <1>14, <3>2, <3>3
    <2>7. l - to \in Nat
        BY <1>13
    <2>8. Matches(q, q.method, third, q.verb)
        BY <1>1, <1>14, <2>2, <2>3, <2>5, <2>6, <2>7, PathIsMatched
    <2>9. QED
        BY <2>1, <2>2, <2>8
<1>18. a \in 0..l /\ to \in 0..l /\ a <= to
    BY <1>13
<1>19. QED
    BY <1>1, <1>15, <1>16, <1>17, <1>18 DEF first, second, third

\* The captures are those of the variables, one each.
LEMMA CapturesOfVariables ==
    ASSUME NEW segments \in Seq(Parts)
    PROVE  /\ DOMAIN Captures(segments) \subseteq Nat
           /\ \A k \in DOMAIN Captures(segments) : \E s \in Variables(segments) :
                Captures(segments)[k] = Capture(segments, s)
<1>1. PICK V : V = Variables(segments)
    OBVIOUS
<1>2. V \subseteq 1..Len(segments) /\ Len(segments) \in Nat
    BY <1>1 DEF Variables
<1>3. IsFiniteSet(V) /\ V \subseteq Int
    <2>1. IsFiniteSet(1..Len(segments))
        BY <1>2, FS_Interval
    <2>2. IsFiniteSet(V)
        BY <1>2, <2>1, FS_Subset
    <2>3. V \subseteq Int
        BY <1>2
    <2>4. QED
        BY <2>2, <2>3
<1>4. IsListing(InOrder(V), V)
    BY <1>3, LessListed DEF InOrder
<1>5. Captures(segments) = [n \in 1 .. Cardinality(V) |-> Capture(segments, InOrder(V)[n])]
    BY <1>1 DEF Captures
<1>6. \A n \in 1 .. Cardinality(V) : InOrder(V)[n] \in V
    BY <1>4 DEF IsListing
<1>7. QED
    BY <1>1, <1>4, <1>5, <1>6 DEF IsListing

-----------------------------------------------------------------------------
\* What joining and decoding keep

\* Two texts of one length with their slashes at the same places.
Alike(x, y) == Len(x) = Len(y) /\ \A i \in 1..Len(x) : x[i] = "/" <=> y[i] = "/"

\* One behind another they still are.
LEMMA ConcatAlike ==
    ASSUME NEW S, NEW x \in Seq(S), NEW y \in Seq(S), NEW u \in Seq(S), NEW v \in Seq(S),
           Alike(x, y), Alike(u, v)
    PROVE  x \o u \in Seq(S) /\ y \o v \in Seq(S) /\ Alike(x \o u, y \o v)
<1>1. PICK m \in Nat, n \in Nat : m = Len(x) /\ m = Len(y) /\ n = Len(u) /\ n = Len(v)
    BY DEF Alike
<1>2. /\ x \o u \in Seq(S) /\ Len(x \o u) = m + n
      /\ \A i \in 1..(m + n) : (x \o u)[i] = IF i <= m THEN x[i] ELSE u[i - m]
    <2>1. /\ x \o u \in Seq(S) /\ Len(x \o u) = Len(x) + Len(u)
          /\ \A i \in 1..(Len(x) + Len(u)) :
                (x \o u)[i] = IF i <= Len(x) THEN x[i] ELSE u[i - Len(x)]
        BY ONLY x \in Seq(S), u \in Seq(S), ConcatProperties
    <2>2. QED
        BY <1>1, <2>1, Zenon
<1>3. /\ y \o v \in Seq(S) /\ Len(y \o v) = m + n
      /\ \A i \in 1..(m + n) : (y \o v)[i] = IF i <= m THEN y[i] ELSE v[i - m]
    <2>1. /\ y \o v \in Seq(S) /\ Len(y \o v) = Len(y) + Len(v)
          /\ \A i \in 1..(Len(y) + Len(v)) :
                (y \o v)[i] = IF i <= Len(y) THEN y[i] ELSE v[i - Len(y)]
        BY ONLY y \in Seq(S), v \in Seq(S), ConcatProperties
    <2>2. QED
        BY <1>1, <2>1, Zenon
<1>4. (\A i \in 1..m : x[i] = "/" <=> y[i] = "/") /\ (\A i \in 1..n : u[i] = "/" <=> v[i] = "/")
    BY <1>1 DEF Alike
<1>5. PICK p, q : p = x \o u /\ q = y \o v
    OBVIOUS
<1>6. ASSUME NEW i \in 1..(m + n) PROVE p[i] = "/" <=> q[i] = "/"
    <2>1. CASE i <= m
        <3>1. i \in 1..m /\ p[i] = x[i] /\ q[i] = y[i]
            BY <1>2, <1>3, <1>5, <2>1
        <3>2. QED
            BY <1>4, <3>1
    <2>2. CASE ~(i <= m)
        <3>1. i - m \in 1..n
            BY <2>2
        <3>2. p[i] = u[i - m] /\ q[i] = v[i - m]
            BY <1>2, <1>3, <1>5, <2>2
        <3>3. QED
            BY <1>4, <3>1, <3>2
    <2>3. QED
        BY <2>1, <2>2
<1>7. QED
    BY <1>2, <1>3, <1>5, <1>6 DEF Alike

\* What is joined of the first of some parts, of one more at a time.
IsJoining(f, S, separator, parts) ==
    /\ f \in [1..Len(parts) -> Seq(S)] /\ f[1] = parts[1]
    /\ \A i \in 2..Len(parts) : f[i] = f[i - 1] \o <<separator>> \o parts[i]

\* Parts are joined one at a time.
LEMMA JoinedGrows ==
    ASSUME NEW S, NEW separator \in S, NEW parts \in Seq(Seq(S)), parts # <<>>,
           NEW n \in Nat, n = Len(parts)
    PROVE  \E f : IsJoining(f, S, separator, parts) /\ Joined(parts, separator) = f[n]
<1> DEFINE joined[i \in 1..Len(parts)] ==
                IF i = 1 THEN parts[1] ELSE joined[i - 1] \o <<separator>> \o parts[i]
           R == Seq(S)
           step == [p \in ((1 + 1)..n) \X R |-> p[2] \o <<separator>> \o parts[p[1]]]
<1>1. n >= 1
    BY EmptySeq
<1>2. \A i \in 1..n : parts[i] \in R
    BY ElementOfSeq
<1>3. step \in [((1 + 1)..n) \X R -> R]
    <2>1. \A p \in ((1 + 1)..n) \X R : p[2] \in R /\ parts[p[1]] \in R
        BY <1>2
    <2>2. \A x, y \in R : x \o <<separator>> \o y \in R
        <3>1. <<separator>> \in R
            OBVIOUS
        <3>2. \A x, y \in R : x \o y \in R
            BY ConcatProperties
        <3> HIDE DEF R
        <3>3. QED
            BY <3>1, <3>2
    <2> HIDE DEF R
    <2>3. QED
        BY <2>1, <2>2
<1>4. parts[1] \in R /\ 1 \in Nat /\ 1 <= n
    BY <1>1, <1>2
<1>5. PICK f \in [1..n -> R] : IsIteration(f, 1, n, parts[1], step)
    <2> HIDE DEF step, R
    <2>1. QED
        BY <1>3, <1>4, IterationDefines
<1>6. f[1] = parts[1]
    BY <1>5 DEF IsIteration
<1>7. ASSUME NEW i \in 2..n PROVE f[i] = f[i - 1] \o <<separator>> \o parts[i]
    <2>1. i \in (1 + 1)..n /\ i - 1 \in 1..n
        OBVIOUS
    <2>2. f[i - 1] \in R
        BY <1>5, <2>1
    <2>3. f[i] = step[<<i, f[i - 1]>>]
        BY <1>5, <2>1 DEF IsIteration
    <2> HIDE DEF R
    <2>4. step[<<i, f[i - 1]>>] = f[i - 1] \o <<separator>> \o parts[i]
        BY <2>1, <2>2
    <2>5. QED
        BY <2>3, <2>4
<1>8. f = [i \in 1..Len(parts) |->
                IF i = 1 THEN parts[1] ELSE f[i - 1] \o <<separator>> \o parts[i]]
    <2>1. \A i \in 1..n : i = 1 \/ i \in 2..n
        OBVIOUS
    <2>2. \A i \in 1..n : f[i] = IF i = 1 THEN parts[1] ELSE f[i - 1] \o <<separator>> \o parts[i]
        <3> SUFFICES ASSUME NEW i \in 1..n
                     PROVE  f[i] = IF i = 1 THEN parts[1]
                                   ELSE f[i - 1] \o <<separator>> \o parts[i]
            OBVIOUS
        <3>1. CASE i = 1
            BY <1>6, <3>1
        <3>2. CASE i # 1
            BY <1>7, <2>1, <3>2
        <3>3. QED
            BY <3>1, <3>2
    <2>3. f = [i \in 1..n |-> f[i]]
        BY <1>5
    <2>4. QED
        BY <2>2, <2>3
<1>9. joined = [i \in 1..Len(parts) |->
                   IF i = 1 THEN parts[1] ELSE joined[i - 1] \o <<separator>> \o parts[i]]
    BY <1>8
<1>10. Joined(parts, separator) = joined[n]
    BY DEF Joined
<1> HIDE DEF joined
<1>11. joined[n] = f[n]
    <2> DEFINE T == {i \in 1..n : joined[i] = f[i]}
    <2>1. 1 \in T
        <3>1. 1 \in 1..n
            BY <1>1
        <3>2. joined[1] = parts[1]
            BY <1>9, <3>1
        <3>3. QED
            BY <1>6, <3>1, <3>2
    <2>2. ASSUME NEW i \in (1 + 1)..n, i - 1 \in T PROVE i \in T
        <3>1. i \in 1..n /\ i # 1 /\ i \in 2..n
            OBVIOUS
        <3>2. joined[i] = joined[i - 1] \o <<separator>> \o parts[i]
            BY <1>9, <3>1
        <3>3. joined[i - 1] = f[i - 1]
            BY <2>2
        <3>4. QED
            BY <1>7, <3>1, <3>2, <3>3
    <2> HIDE DEF T
    <2>3. 1..n \subseteq T
        BY <2>1, <2>2, StepByStep
    <2>4. n \in 1..n
        BY <1>1
    <2>5. QED
        BY <2>3, <2>4 DEF T
<1>12. QED
    BY <1>5, <1>6, <1>7, <1>10, <1>11 DEF IsJoining

\* A function from the positions up to some number is a list.
LEMMA FunctionIsSeq ==
    ASSUME NEW S, NEW n \in Nat, NEW f \in [1..n -> S]
    PROVE  f \in Seq(S) /\ Len(f) = n
OBVIOUS

\* Joined, parts that are alike are alike.
LEMMA JoinedAlike ==
    ASSUME NEW S, "/" \in S, NEW parts \in Seq(Seq(S)), NEW others \in Seq(Seq(S)),
           Len(parts) = Len(others), \A i \in 1..Len(parts) : Alike(parts[i], others[i])
    PROVE  Joined(parts, "/") \in Seq(S) /\ Joined(others, "/") \in Seq(S)
           /\ Alike(Joined(parts, "/"), Joined(others, "/"))
<1>1. PICK n \in Nat : n = Len(parts) /\ n = Len(others)
    OBVIOUS
<1>2. CASE parts = <<>>
    <2>1. others = <<>>
        BY <1>2, EmptySeq
    <2>2. Joined(parts, "/") = <<>> /\ Joined(others, "/") = <<>>
        BY <1>2, <2>1 DEF Joined
    <2>3. <<>> \in Seq(S) /\ Alike(<<>>, <<>>)
        BY DEF Alike
    <2>4. QED
        BY <2>2, <2>3
<1>3. CASE parts # <<>>
    <2>1. others # <<>> /\ n >= 1
        BY <1>1, <1>3, EmptySeq
    <2>2. PICK f \in [1..n -> Seq(S)] :
              /\ f[1] = parts[1] /\ f[n] = Joined(parts, "/")
              /\ \A i \in 2..n : f[i] = f[i - 1] \o <<"/">> \o parts[i]
        <3>1. PICK f : IsJoining(f, S, "/", parts) /\ Joined(parts, "/") = f[n]
            BY <1>1, <1>3, JoinedGrows
        <3>2. QED
            BY <1>1, <3>1 DEF IsJoining
    <2>3. PICK g \in [1..n -> Seq(S)] :
              /\ g[1] = others[1] /\ g[n] = Joined(others, "/")
              /\ \A i \in 2..n : g[i] = g[i - 1] \o <<"/">> \o others[i]
        <3>1. PICK g : IsJoining(g, S, "/", others) /\ Joined(others, "/") = g[n]
            BY <1>1, <2>1, JoinedGrows
        <3>2. QED
            BY <1>1, <3>1 DEF IsJoining
    <2> DEFINE T == {i \in 1..n : Alike(f[i], g[i])}
    <2>4. 1 \in T
        <3>1. 1 \in 1..n
            BY <2>1
        <3>2. QED
            BY <1>1, <2>2, <2>3, <3>1
    <2>5. ASSUME NEW i \in (1 + 1)..n, i - 1 \in T PROVE i \in T
        <3>1. i \in 2..n /\ i \in 1..n /\ i - 1 \in 1..n
            OBVIOUS
        <3>2. PICK x \in Seq(S), y \in Seq(S), u \in Seq(S), v \in Seq(S) :
                    x = f[i - 1] /\ y = g[i - 1] /\ u = parts[i] /\ v = others[i]
            <4>1. parts[i] \in Seq(S) /\ others[i] \in Seq(S)
                BY <1>1, <3>1, ElementOfSeq
            <4>2. f[i - 1] \in Seq(S) /\ g[i - 1] \in Seq(S)
                BY <3>1
            <4>3. QED
                BY <4>1, <4>2
        <3>3. Alike(x, y) /\ Alike(u, v)
            BY <1>1, <2>5, <3>1, <3>2
        <3>4. <<"/">> \in Seq(S) /\ Alike(<<"/">>, <<"/">>)
            BY DEF Alike
        <3>5. /\ x \o <<"/">> \in Seq(S) /\ y \o <<"/">> \in Seq(S)
              /\ Alike(x \o <<"/">>, y \o <<"/">>)
            BY <3>3, <3>4, ConcatAlike
        <3>6. Alike((x \o <<"/">>) \o u, (y \o <<"/">>) \o v)
            BY <3>3, <3>5, ConcatAlike
        <3>7. f[i] = (x \o <<"/">>) \o u /\ g[i] = (y \o <<"/">>) \o v
            BY <2>2, <2>3, <3>1, <3>2
        <3>8. QED
            BY <3>1, <3>6, <3>7
    <2> HIDE DEF T
    <2>6. 1..n \subseteq T
        <3>1. 1 \in Nat
            OBVIOUS
        <3>2. QED
            BY <2>4, <2>5, <3>1, StepByStep
    <2>7. n \in 1..n
        BY <2>1
    <2>8. Alike(f[n], g[n]) /\ f[n] \in Seq(S) /\ g[n] \in Seq(S)
        BY <2>6, <2>7 DEF T
    <2>9. QED
        BY <2>2, <2>3, <2>8
<1>4. QED
    BY <1>2, <1>3

\* Split at their slashes, texts that are alike have as many pieces.
LEMMA SplitAlike ==
    ASSUME NEW S, NEW x \in Seq(S), NEW y \in Seq(S), Alike(x, y)
    PROVE  Len(Split(x, "/")) = Len(Split(y, "/"))
<1>1. DOMAIN x = DOMAIN y /\ DOMAIN x = 1..Len(x) /\ Len(x) \in Nat
    BY DEF Alike
<1>2. PICK cuts : cuts = {i \in DOMAIN x : x[i] = "/"} /\ cuts = {i \in DOMAIN y : y[i] = "/"}
    BY <1>1 DEF Alike
<1>3. IsFiniteSet(cuts)
    <2>1. IsFiniteSet(1..Len(x)) /\ cuts \subseteq 1..Len(x)
        BY <1>1, <1>2, FS_Interval
    <2>2. QED
        BY <2>1, FS_Subset
<1>4. PICK m \in Nat : m = Cardinality(cuts) + 1
    BY <1>3, FS_CardinalityType
<1>5. Split(x, "/") = Pieces(x, cuts) /\ Split(y, "/") = Pieces(y, cuts)
    BY <1>2 DEF Split
<1>6. \A text : Len(Pieces(text, cuts)) = m
    BY <1>4 DEF Pieces
<1>7. QED
    BY <1>5, <1>6

\* Decoding makes no slash and takes none.
LEMMA DecodeAlike ==
    ASSUME NEW S, NEW component \in Seq(S)
    PROVE  DOMAIN Decode(component) = DOMAIN component /\ Alike(component, Decode(component))
<1>1. PICK d : d = Decode(component)
    OBVIOUS
<1>2. "/" \notin DOMAIN Decodes
    BY RoutesAssumption, CharactersAssumption DEF Reserved
<1>3. d = [i \in 1..Len(component) |->
            IF component[i] \in DOMAIN Decodes /\ Decodes[component[i]] # "/"
            THEN Decodes[component[i]] ELSE component[i]]
      /\ Len(component) \in Nat
    BY <1>1 DEF Decode
<1>4. Len(d) = Len(component) /\ DOMAIN d = 1..Len(component)
    BY <1>3
<1>5. \A i \in 1..Len(component) : component[i] = "/" <=> d[i] = "/"
    BY <1>2, <1>3
<1>6. QED
    BY <1>1, <1>4, <1>5 DEF Alike

\* Texts one behind another, however they are grouped.
Regroups(x, y, s, z) == ((x \o y) \o s) \o z = x \o ((y \o s) \o z)

LEMMA ConcatRegroups ==
    ASSUME NEW S, NEW x \in Seq(S), NEW y \in Seq(S), NEW s \in Seq(S), NEW z \in Seq(S)
    PROVE  Regroups(x, y, s, z)
<1>1. (x \o y) \o s = x \o (y \o s)
    BY ConcatAssociative
<1>2. PICK ys \in Seq(S) : ys = y \o s
    BY ConcatProperties
<1>3. (x \o ys) \o z = x \o (ys \o z)
    BY ConcatAssociative, SMTT(60)
<1>4. ((x \o y) \o s) \o z = (x \o ys) \o z
    BY <1>1, <1>2, Zenon
<1>5. QED
    BY <1>2, <1>3, <1>4, Zenon DEF Regroups

\* A separator is a text, and text behind text is.
LEMMA SeparatorIsSeq == ASSUME NEW S, NEW separator \in S PROVE <<separator>> \in Seq(S)
OBVIOUS

LEMMA ConcatIsSeq ==
    ASSUME NEW S, NEW x \in Seq(S), NEW y \in Seq(S) PROVE x \o y \in Seq(S)
BY ConcatProperties

\* Places in a list of which the first a are set apart.
ArePlaces(a, m, n) ==
    /\ n \in Nat /\ a \in 0..n /\ n \in a..n /\ n - a = m /\ a + 1 \in Nat
    /\ (a + 1) - 1 = a /\ 1 \in Nat /\ 1 \in 1..m /\ m \in 1..m /\ a + 1 \in 1..(a + 1)
    /\ \A i \in 1..a : i \in 1..n /\ i \in 1..(a + 1)
    /\ \A i \in (1 + 1)..a : i \in 2..n /\ i \in 2..(a + 1) /\ i \in 1..a
    /\ \A i \in 1..m : a + i \in 1..n
    /\ \A i \in (1 + 1)..m : /\ i \in 2..m /\ i \in 1..m /\ i - 1 \in 1..m
                             /\ a + i \in 2..n /\ (a + i) - 1 = a + (i - 1)
    /\ a # 0 => 1 \in 1..a /\ a \in 1..a /\ a + 1 \in 2..n /\ a + 1 \in 2..(a + 1)

LEMMA PlacesApart ==
    ASSUME NEW a \in Nat, NEW m \in Nat, NEW n, n = a + m, m # 0
    PROVE  ArePlaces(a, m, n)
BY DEF ArePlaces

\* The first of some parts and what the rest joins to, joined, is all of them joined.
LEMMA JoinedTwice ==
    ASSUME NEW S, NEW separator \in S, NEW parts \in Seq(Seq(S)),
           NEW a \in Nat, NEW m \in Nat, m # 0, Len(parts) = a + m,
           NEW rest, rest = Joined(SubSeq(parts, a + 1, Len(parts)), separator),
           NEW shorter \in Seq(Seq(S)), Len(shorter) = a + 1, shorter[a + 1] = rest,
           \A i \in 1..a : shorter[i] = parts[i]
    PROVE  Joined(shorter, separator) = Joined(parts, separator)
<1>1. PICK n : n = a + m /\ n = Len(parts)
    OBVIOUS
<1>2. /\ n \in Nat /\ a \in 0..n /\ n \in a..n /\ n - a = m /\ a + 1 \in Nat
      /\ (a + 1) - 1 = a /\ 1 \in Nat /\ 1 \in 1..m /\ m \in 1..m /\ a + 1 \in 1..(a + 1)
      /\ \A i \in 1..a : i \in 1..n /\ i \in 1..(a + 1)
      /\ \A i \in (1 + 1)..a : i \in 2..n /\ i \in 2..(a + 1) /\ i \in 1..a
      /\ \A i \in 1..m : a + i \in 1..n
      /\ \A i \in (1 + 1)..m : /\ i \in 2..m /\ i \in 1..m /\ i - 1 \in 1..m
                               /\ a + i \in 2..n /\ (a + i) - 1 = a + (i - 1)
      /\ a # 0 => 1 \in 1..a /\ a \in 1..a /\ a + 1 \in 2..n /\ a + 1 \in 2..(a + 1)
    <2>1. ArePlaces(a, m, n)
        BY <1>1, PlacesApart
    <2>2. QED
        BY <2>1, Zenon DEF ArePlaces
<1>3. PICK c : c = SubSeq(parts, a + 1, n)
    OBVIOUS
<1>4. c \in Seq(Seq(S)) /\ Len(c) = m /\ \A i \in 1..m : c[i] = parts[a + i]
    BY <1>1, <1>2, <1>3, PartOfPath
<1>5. c # <<>> /\ parts # <<>> /\ shorter # <<>>
    <2>1. n # 0 /\ a + 1 # 0
        BY <1>1
    <2>2. QED
        BY <1>1, <1>4, <2>1, EmptySeq
<1>6. PICK f : IsJoining(f, S, separator, parts) /\ Joined(parts, separator) = f[n]
    BY <1>1, <1>2, <1>5, JoinedGrows
<1>7. PICK g : IsJoining(g, S, separator, c) /\ Joined(c, separator) = g[m]
    BY <1>4, <1>5, JoinedGrows
<1>8. PICK h : IsJoining(h, S, separator, shorter) /\ Joined(shorter, separator) = h[a + 1]
    BY <1>2, <1>5, JoinedGrows
<1>9. CASE a = 0
    <2>1. c = parts
        BY <1>1, <1>3, <1>9, SubSeqFull
    <2>2. h[1] = rest /\ a + 1 = 1
        BY <1>8, <1>9 DEF IsJoining
    <2>3. QED
        BY <1>1, <1>3, <1>8, <2>1, <2>2
<1>10. CASE a # 0
    <2>1. /\ f[1] = parts[1] /\ \A i \in 1..n : f[i] \in Seq(S)
          /\ \A i \in 2..n : f[i] = f[i - 1] \o <<separator>> \o parts[i]
        BY <1>1, <1>6 DEF IsJoining
    <2>2. /\ g[1] = c[1] /\ \A i \in 1..m : g[i] \in Seq(S)
          /\ \A i \in 2..m : g[i] = g[i - 1] \o <<separator>> \o c[i]
        BY <1>4, <1>7 DEF IsJoining
    <2>3. /\ h[1] = shorter[1]
          /\ \A i \in 2..(a + 1) : h[i] = h[i - 1] \o <<separator>> \o shorter[i]
        BY <1>8 DEF IsJoining
    <2> DEFINE H == {i \in 1..a : h[i] = f[i]}
    <2>4. 1 \in H
        BY <1>2, <1>10, <2>1, <2>3
    <2>5. ASSUME NEW i \in (1 + 1)..a, i - 1 \in H PROVE i \in H
        <3>1. i \in 2..n /\ i \in 2..(a + 1) /\ i \in 1..a
            BY <1>2
        <3>2. h[i - 1] = f[i - 1] /\ shorter[i] = parts[i]
            BY <2>5, <3>1
        <3>3. h[i] = f[i]
            BY <2>1, <2>3, <3>1, <3>2
        <3>4. QED
            BY <3>1, <3>3
    <2>6. a \in H
        <3> HIDE DEF H
        <3>1. QED
            BY <1>2, <1>10, <2>4, <2>5, StepByStep
    <2>7. f[a] \in Seq(S) /\ <<separator>> \in Seq(S)
        BY <1>2, <1>10, <2>1, SeparatorIsSeq
    <2>8. PICK x \in Seq(S) : x = f[a] \o <<separator>>
        BY <2>7, ConcatIsSeq
    <2>9. h[a + 1] = x \o rest
        BY <1>2, <1>10, <2>3, <2>6, <2>8
    <2> DEFINE F == {i \in 1..m : f[a + i] = x \o g[i]}
    <2>10. 1 \in F
        <3>1. f[a + 1] = x \o parts[a + 1]
            BY <1>2, <1>10, <2>1, <2>8
        <3>2. g[1] = parts[a + 1]
            BY <1>2, <1>4, <2>2
        <3>3. QED
            BY <1>2, <3>1, <3>2
    <2>11. ASSUME NEW i \in (1 + 1)..m, i - 1 \in F PROVE i \in F
        <3>1. /\ i \in 2..m /\ i \in 1..m /\ i - 1 \in 1..m /\ a + i \in 2..n /\ a + i \in 1..n
              /\ (a + i) - 1 = a + (i - 1)
            BY <1>2
        <3>2. g[i - 1] \in Seq(S) /\ parts[a + i] \in Seq(S)
            BY <1>1, <2>2, <3>1, ElementOfSeq
        <3>3. f[a + i] = ((x \o g[i - 1]) \o <<separator>>) \o parts[a + i]
            BY <2>1, <2>11, <3>1
        <3>4. g[i] = (g[i - 1] \o <<separator>>) \o parts[a + i]
            BY <1>4, <2>2, <3>1
        <3>5. f[a + i] = x \o g[i]
            <4>1. PICK y \in Seq(S), z \in Seq(S), s \in Seq(S) :
                        y = g[i - 1] /\ z = parts[a + i] /\ s = <<separator>>
                BY <2>7, <3>2
            <4>2. Regroups(x, y, s, z)
                BY ConcatRegroups
            <4>3. QED
                BY <3>3, <3>4, <4>1, <4>2 DEF Regroups
        <3>6. QED
            BY <3>1, <3>5
    <2>12. m \in F
        <3> HIDE DEF F
        <3>0. 1 \in Nat /\ m \in Nat /\ \A i \in (1 + 1)..m : i - 1 \in F => i \in F
            BY <2>11
        <3>1. 1..m \subseteq F
            BY <2>10, <3>0, StepByStep, ZenonT(30)
        <3>2. QED
            BY <1>2, <3>1
    <2>13. QED
        BY <1>1, <1>3, <1>6, <1>7, <1>8, <2>9, <2>12
<1>11. QED
    BY <1>9, <1>10

\* Parts that are not empty do not join to nothing.
LEMMA JoinedIsSomething ==
    ASSUME NEW S, NEW separator \in S, NEW parts \in Seq(Seq(S)), parts # <<>>,
           NEW n \in Nat, n = Len(parts), \A i \in 1..n : parts[i] # <<>>
    PROVE  Joined(parts, separator) \in Seq(S) /\ Joined(parts, separator) # <<>>
<1>1. PICK f : IsJoining(f, S, separator, parts) /\ Joined(parts, separator) = f[n]
    BY JoinedGrows
<1>2. /\ f[1] = parts[1] /\ \A i \in 1..n : f[i] \in Seq(S)
      /\ \A i \in 2..n : f[i] = f[i - 1] \o <<separator>> \o parts[i]
    BY <1>1 DEF IsJoining
<1>3. n # 0
    BY EmptySeq
<1>4. n \in 1..n
    BY <1>3
<1>5. CASE n = 1
    BY <1>1, <1>2, <1>4, <1>5
<1>6. CASE n # 1
    <2>1. n \in 2..n /\ n - 1 \in 1..n
        BY <1>3, <1>6
    <2>2. f[n - 1] \in Seq(S) /\ <<separator>> \in Seq(S) /\ parts[n] \in Seq(S)
        BY <1>2, <1>4, <2>1, ElementOfSeq, SeparatorIsSeq
    <2>3. PICK x \in Seq(S), y \in Seq(S) : x = f[n - 1] \o <<separator>> /\ y = parts[n]
        BY <2>2, ConcatIsSeq
    <2>4. f[n] = x \o y /\ y # <<>>
        BY <1>2, <1>4, <2>1, <2>3
    <2>5. x \o y = <<>> => y = <<>>
        BY ConcatSimplifications
    <2>6. QED
        BY <1>1, <1>2, <1>4, <2>4, <2>5
<1>7. QED
    BY <1>5, <1>6

-----------------------------------------------------------------------------
\* That splitting undoes joining

\* Sums of positive numbers increase, and each number up to the last of them lies
\* between two.
LEMMA SumsIncrease ==
    ASSUME NEW n \in Nat, NEW e \in [0..n -> Int], e[0] = 0,
           \A k \in 1..n : e[k - 1] < e[k]
    PROVE  /\ \A k, l \in 0..n : k < l => e[k] < e[l]
           /\ \A q \in 1..e[n] : \E k \in 1..n : e[k - 1] < q /\ q <= e[k]
<1>1. ASSUME NEW k \in 0..n, NEW l \in 0..n, k < l PROVE e[k] < e[l]
    <2> DEFINE T == {m \in k..n : m = k \/ e[k] < e[m]}
    <2>1. k \in T
        OBVIOUS
    <2>2. ASSUME NEW m \in (k + 1)..n, m - 1 \in T PROVE m \in T
        <3>1. m \in 1..n /\ m - 1 \in 0..n /\ m \in 0..n
            OBVIOUS
        <3>2. e[m - 1] < e[m] /\ e[m - 1] \in Int /\ e[m] \in Int /\ e[k] \in Int
            BY <3>1
        <3>3. m - 1 = k \/ e[k] < e[m - 1]
            BY <2>2
        <3>4. e[k] < e[m]
            <4>1. PICK u \in Int, v \in Int, w \in Int : u = e[k] /\ v = e[m - 1] /\ w = e[m]
                BY <3>2
            <4>2. (m - 1 = k => u = v) /\ v < w /\ (m - 1 = k \/ u < v)
                BY <3>2, <3>3, <4>1
            <4>3. u < w
                BY <4>2
            <4>4. QED
                BY <4>1, <4>3
        <3>5. QED
            BY <3>4
    <2>3. k \in Nat /\ l \in k..n /\ l # k
        BY <1>1
    <2> HIDE DEF T
    <2>4. k..n \subseteq T
        BY <2>1, <2>2, <2>3, StepByStep
    <2>5. l \in T
        BY <2>3, <2>4
    <2>6. QED
        BY <2>3, <2>5 DEF T
<1>2. ASSUME NEW q \in 1..e[n] PROVE \E k \in 1..n : e[k - 1] < q /\ q <= e[k]
    <2> DEFINE T == {i \in 0..n : q <= e[i] => \E k \in 1..n : e[k - 1] < q /\ q <= e[k]}
    <2>1. 0 \in T
        OBVIOUS
    <2>2. ASSUME NEW i \in (0 + 1)..n, i - 1 \in T PROVE i \in T
        <3>1. i \in 1..n /\ i \in 0..n /\ i - 1 \in 0..n
            OBVIOUS
        <3>2. e[i - 1] \in Int /\ q \in Int
            BY <3>1
        <3>3. q <= e[i - 1] \/ e[i - 1] < q
            BY <3>2
        <3>4. q <= e[i - 1] => \E k \in 1..n : e[k - 1] < q /\ q <= e[k]
            BY <2>2
        <3>5. QED
            BY <3>1, <3>3, <3>4
    <2> HIDE DEF T
    <2>3. 0..n \subseteq T
        <3>1. 0 \in Nat
            OBVIOUS
        <3>2. QED
            BY <2>1, <2>2, <3>1, StepByStep
    <2>4. n \in 0..n /\ q <= e[n]
        BY <1>2
    <2>5. QED
        BY <2>3, <2>4 DEF T
<1>3. QED
    BY <1>1, <1>2

\* A text is the first i parts, which end at e, with slashes between them.
IsCutAt(text, e, parts, i) ==
    /\ Len(text) = e[i] - 1
    /\ \A k \in 1..i : \A q \in 1..Len(parts[k]) : text[e[k - 1] + q] = parts[k][q]
    /\ \A k \in 1..(i - 1) : text[e[k]] = "/"

\* Where the parts of a joined text end: at its slashes, and at its own end.
IsEnds(e, parts, n) ==
    /\ e \in [0..n -> Int] /\ e[0] = 0
    /\ \A k \in 1..n : e[k] = e[k - 1] + Len(parts[k]) + 1

\* A text is two others with a separator between them.
IsBetween(z, separator, x, y) ==
    LET d == Len(x) + 1
    IN  /\ Len(z) = d + Len(y) /\ z[d] = separator
        /\ \A q \in 1..Len(x) : z[q] = x[q]
        /\ \A q \in 1..Len(y) : z[d + q] = y[q]

LEMMA SlashBetween ==
    ASSUME NEW S, NEW separator \in S, NEW x \in Seq(S), NEW y \in Seq(S)
    PROVE  IsBetween(x \o <<separator>> \o y, separator, x, y)
<1>1. PICK s, z : s \in Seq(S) /\ s = <<separator>> /\ z = (x \o s) \o y
    BY SeparatorIsSeq
<1>2. PICK a \in Nat, b \in Nat : a = Len(x) /\ b = Len(y)
    OBVIOUS
<1>3. Len(s) = 1 /\ s[1] = separator /\ 1 \in Nat
    BY <1>1
<1>4. /\ Len(z) = a + 1 + b
      /\ \A q \in 1..a : x[q] = z[q]
      /\ \A q \in 1..1 : s[q] = z[a + q]
      /\ \A q \in 1..b : y[q] = z[a + 1 + q]
    <2>1. ArePartsOf(x, s, y, a, 1, b, z)
        BY <1>1, <1>2, <1>3, ThreeParts
    <2>2. QED
        BY <2>1 DEF ArePartsOf
<1>5. z[a + 1] = separator
    BY <1>3, <1>4
<1>6. QED
    BY <1>1, <1>2, <1>4, <1>5 DEF IsBetween

\* A joined text is its parts with slashes between them.
LEMMA JoinedIsCut ==
    ASSUME NEW S, "/" \in S, NEW parts \in Seq(Seq(S)), parts # <<>>,
           NEW n \in Nat, n = Len(parts)
    PROVE  /\ Joined(parts, "/") \in Seq(S)
           /\ \E e : IsEnds(e, parts, n) /\ IsCutAt(Joined(parts, "/"), e, parts, n)
<1>1. PICK f : IsJoining(f, S, "/", parts) /\ Joined(parts, "/") = f[n]
    BY JoinedGrows
<1>2. /\ f[1] = parts[1] /\ \A i \in 1..n : f[i] \in Seq(S)
      /\ \A i \in 2..n : f[i] = f[i - 1] \o <<"/">> \o parts[i]
    BY <1>1 DEF IsJoining
<1>3. n # 0 /\ \A k \in 1..n : parts[k] \in Seq(S) /\ Len(parts[k]) \in Nat
    BY EmptySeq, ElementOfSeq
<1>4. PICK e : e = [i \in 0..n |-> IF i = 0 THEN 0 ELSE Len(f[i]) + 1]
    OBVIOUS
<1>5. /\ e \in [0..n -> Int] /\ e[0] = 0
      /\ \A i \in 1..n : e[i] = Len(f[i]) + 1
    <2>1. \A i \in 1..n : Len(f[i]) \in Nat
        BY <1>2
    <2>2. \A i \in 0..n : i = 0 \/ i \in 1..n
        OBVIOUS
    <2>3. QED
        BY <1>4, <2>1, <2>2
<1>6. ASSUME NEW i \in 2..n
      PROVE  /\ i \in 1..n /\ i - 1 \in 1..n /\ e[i - 1] \in Int /\ Len(f[i]) = e[i - 1] + Len(parts[i])
             /\ Len(f[i - 1]) = e[i - 1] - 1
             /\ \A q \in 1..(e[i - 1] - 1) : f[i][q] = f[i - 1][q]
             /\ f[i][e[i - 1]] = "/"
             /\ \A q \in 1..Len(parts[i]) : f[i][e[i - 1] + q] = parts[i][q]
    <2>1. i \in 1..n /\ i - 1 \in 1..n /\ i - 1 \in 0..n
        OBVIOUS
    <2>2. PICK x \in Seq(S), y \in Seq(S) : x = f[i - 1] /\ y = parts[i]
        BY <1>2, <1>3, <2>1
    <2>3. IsBetween(f[i], "/", x, y)
        BY <1>2, <2>2, SlashBetween
    <2>4. PICK a \in Nat, b \in Nat : a = Len(x) /\ b = Len(y)
        OBVIOUS
    <2>5. PICK d \in Int : d = a + 1 /\ d = e[i - 1] /\ a = d - 1
        <3>1. e[i - 1] = Len(f[i - 1]) + 1
            BY <1>5, <2>1
        <3>2. e[i - 1] = a + 1
            BY <2>2, <2>4, <3>1
        <3>3. a + 1 \in Int /\ a = (a + 1) - 1
            OBVIOUS
        <3>4. QED
            BY <3>2, <3>3
    <2>6. /\ Len(f[i]) = d + b /\ f[i][d] = "/"
          /\ \A q \in 1..a : f[i][q] = x[q]
          /\ \A q \in 1..b : f[i][d + q] = y[q]
        BY <2>3, <2>4, <2>5 DEF IsBetween
    <2>7. QED
        BY <2>1, <2>2, <2>4, <2>5, <2>6
<1>7. IsEnds(e, parts, n)
    <2>1. ASSUME NEW k \in 1..n PROVE e[k] = e[k - 1] + Len(parts[k]) + 1
        <3>1. CASE k = 1
            <4>1. e[k] = Len(parts[1]) + 1 /\ e[k - 1] = 0 /\ Len(parts[1]) \in Nat
                BY <1>2, <1>3, <1>5, <3>1
            <4>2. QED
                BY <3>1, <4>1
        <3>2. CASE k # 1
            <4>1. k \in 2..n
                BY <3>2
            <4>2. QED
                BY <1>5, <1>6, <4>1
        <3>3. QED
            BY <3>1, <3>2
    <2>2. QED
        BY <1>5, <2>1 DEF IsEnds
<1>8. \A k, l \in 0..n : k < l => e[k] < e[l]
    <2>1. \A k \in 1..n : e[k - 1] < e[k]
        <3> SUFFICES ASSUME NEW k \in 1..n PROVE e[k - 1] < e[k]
            OBVIOUS
        <3>1. k - 1 \in 0..n
            OBVIOUS
        <3>2. PICK u \in Int, w \in Nat : u = e[k - 1] /\ w = Len(parts[k])
            BY <1>3, <1>5, <3>1
        <3>3. e[k] = u + w + 1
            BY <1>7, <3>2 DEF IsEnds
        <3>4. u < u + w + 1
            BY <3>2
        <3>5. QED
            BY <3>2, <3>3, <3>4
    <2>2. QED
        BY <1>5, <2>1, SumsIncrease
<1> DEFINE T == {i \in 1..n : IsCutAt(f[i], e, parts, i)}
<1>9. 1 \in T
    <2>1. 1 \in 1..n /\ e[1] = Len(parts[1]) + 1 /\ e[0] = 0 /\ Len(parts[1]) \in Nat
        BY <1>2, <1>3, <1>5
    <2>2. Len(f[1]) = e[1] - 1
        BY <1>2, <2>1
    <2>3. \A k \in 1..1 : \A q \in 1..Len(parts[k]) : f[1][e[k - 1] + q] = parts[k][q]
        <3> SUFFICES ASSUME NEW q \in 1..Len(parts[1]) PROVE f[1][e[0] + q] = parts[1][q]
            OBVIOUS
        <3>1. e[0] + q = q
            BY <2>1
        <3>2. QED
            BY <1>2, <3>1
    <2>4. QED
        BY <2>1, <2>2, <2>3 DEF IsCutAt
<1>10. ASSUME NEW i \in (1 + 1)..n, i - 1 \in T PROVE i \in T
    <2>1. i \in 2..n /\ i \in 1..n /\ i - 1 \in 1..n /\ i - 1 \in 0..n
        OBVIOUS
    <2>2. PICK d \in Int : d = e[i - 1]
        BY <1>5, <2>1
    <2>3. /\ Len(f[i]) = d + Len(parts[i]) /\ f[i][d] = "/"
          /\ \A q \in 1..(d - 1) : f[i][q] = f[i - 1][q]
          /\ \A q \in 1..Len(parts[i]) : f[i][d + q] = parts[i][q]
        BY <1>6, <2>1, <2>2
    <2>4. /\ \A k \in 1..(i - 1) : \A q \in 1..Len(parts[k]) : f[i - 1][e[k - 1] + q] = parts[k][q]
          /\ \A k \in 1..((i - 1) - 1) : f[i - 1][e[k]] = "/"
        BY <1>10 DEF IsCutAt
    <2>5. \A k \in 0..(i - 1) : e[k] \in Int /\ 0 <= e[k] /\ (k # 0 => 0 < e[k])
                              /\ e[k] <= d /\ (k # i - 1 => e[k] < d)
        <3> SUFFICES ASSUME NEW k \in 0..(i - 1)
                     PROVE  /\ e[k] \in Int /\ 0 <= e[k] /\ (k # 0 => 0 < e[k])
                            /\ e[k] <= d /\ (k # i - 1 => e[k] < d)
            OBVIOUS
        <3>1. k \in 0..n /\ 0 \in 0..n /\ (k # 0 => 0 < k) /\ (k # i - 1 => k < i - 1)
            BY <2>1
        <3>2. e[k] \in Int /\ e[0] = 0 /\ (k # 0 => e[0] < e[k]) /\ (k # i - 1 => e[k] < e[i - 1])
            BY <1>5, <1>8, <2>1, <3>1
        <3>3. QED
            BY <2>2, <3>2
    <2>6. Len(f[i]) = e[i] - 1
        <3>1. Len(f[i]) \in Nat /\ e[i] = Len(f[i]) + 1
            BY <1>2, <1>5, <2>1
        <3>2. QED
            BY <3>1
    <2>7. ASSUME NEW k \in 1..i, NEW q \in 1..Len(parts[k])
          PROVE  f[i][e[k - 1] + q] = parts[k][q]
        <3>1. CASE k = i
            BY <2>2, <2>3, <2>7, <3>1
        <3>2. CASE k # i
            <4>1. k \in 1..(i - 1) /\ k \in 1..n /\ k \in 0..(i - 1) /\ k - 1 \in 0..(i - 1)
                BY <2>1, <3>2
            <4>2. PICK u \in Int, v \in Int, w \in Nat :
                        u = e[k - 1] /\ v = e[k] /\ w = Len(parts[k])
                BY <1>3, <2>5, <4>1
            <4>3. v = u + w + 1 /\ 0 <= u /\ v <= d
                BY <1>7, <2>5, <4>1, <4>2 DEF IsEnds
            <4>4. q \in 1..w
                BY <4>2
            <4>5. u + q \in 1..(d - 1)
                BY <4>3, <4>4
            <4>6. f[i][u + q] = f[i - 1][u + q]
                BY <2>3, <4>5
            <4>7. f[i - 1][u + q] = parts[k][q]
                BY <2>4, <4>1, <4>2
            <4>8. QED
                BY <4>2, <4>6, <4>7
        <3>3. QED
            BY <3>1, <3>2
    <2>8. ASSUME NEW k \in 1..(i - 1) PROVE f[i][e[k]] = "/"
        <3>1. CASE k = i - 1
            BY <2>2, <2>3, <3>1
        <3>2. CASE k # i - 1
            <4>1. k \in 1..((i - 1) - 1) /\ k \in 0..(i - 1) /\ k # 0
                BY <3>2
            <4>2. e[k] \in 1..(d - 1)
                BY <2>5, <3>2, <4>1
            <4>3. QED
                BY <2>3, <2>4, <4>1, <4>2
        <3>3. QED
            BY <3>1, <3>2
    <2>9. IsCutAt(f[i], e, parts, i)
        BY <2>6, <2>7, <2>8 DEF IsCutAt
    <2>10. QED
        BY <2>1, <2>9
<1> HIDE DEF T
<1>11. n \in T
    <2>1. 1 \in Nat /\ n \in 1..n
        BY <1>3
    <2>2. 1..n \subseteq T
        BY <1>9, <1>10, <2>1, StepByStep
    <2>3. QED
        BY <2>1, <2>2
<1>12. QED
    BY <1>1, <1>2, <1>7, <1>11 DEF T

\* Numbers between 0 and a last one.
IsFramed(ends, e, c, last) ==
    ends[1] = 0 /\ ends[c + 2] = last /\ \A k \in 1..c : ends[k + 1] = e[k]

LEMMA Framed ==
    ASSUME NEW c \in Nat, NEW e \in [1..c -> Int], NEW last \in Int
    PROVE  IsFramed(<<0>> \o e \o <<last>>, e, c, last)
<1>0. PICK ends : ends = <<0>> \o e \o <<last>>
    OBVIOUS
<1>1. PICK a \in Seq(Int), b \in Seq(Int), d \in Seq(Int) :
          a = <<0>> /\ b = e /\ d = <<last>> /\ ends = (a \o b) \o d
    <2>1. <<0>> \in Seq(Int) /\ <<last>> \in Seq(Int)
        BY SeparatorIsSeq
    <2>2. e \in Seq(Int)
        BY FunctionIsSeq
    <2>3. QED
        BY <1>0, <2>1, <2>2
<1>2. PICK w \in Nat : w = 1
    OBVIOUS
<1>3. w = Len(a) /\ c = Len(b) /\ w = Len(d)
    BY <1>1, <1>2, FunctionIsSeq
<1>4. a[1] = 0 /\ d[1] = last
    BY <1>1
<1>5. ends = (a \o b) \o d
    BY <1>1
<1>6. /\ \A k \in 1..w : a[k] = ends[k]
      /\ \A k \in 1..c : b[k] = ends[w + k]
      /\ \A k \in 1..w : d[k] = ends[w + c + k]
    <2>1. ArePartsOf(a, b, d, w, c, w, ends)
        BY <1>3, <1>5, ThreeParts
    <2>2. QED
        BY <2>1 DEF ArePartsOf
<1>7. w + c + 1 = c + 2 /\ 1 \in 1..w /\ \A k \in 1..c : w + k = k + 1
    BY <1>2
<1>8. ends[1] = 0 /\ ends[c + 2] = last
    BY <1>4, <1>6, <1>7
<1>9. \A k \in 1..c : ends[k + 1] = e[k]
    BY <1>1, <1>6, <1>7
<1>10. QED
    BY <1>0, <1>8, <1>9 DEF IsFramed

\* Joined by slashes, parts that have none come back as they were when split.
LEMMA SplitJoined ==
    ASSUME NEW S, "/" \in S, NEW parts \in Seq(Seq(S)), parts # <<>>,
           NEW n \in Nat, n = Len(parts),
           \A k \in 1..n : \A q \in 1..Len(parts[k]) : parts[k][q] # "/"
    PROVE  Split(Joined(parts, "/"), "/") = parts
<1>1. PICK text \in Seq(S) : text = Joined(parts, "/")
    BY JoinedIsCut
<1>2. PICK e : IsEnds(e, parts, n) /\ IsCutAt(text, e, parts, n)
    BY <1>1, JoinedIsCut
<1>3. n # 0 /\ \A k \in 1..n : parts[k] \in Seq(S) /\ Len(parts[k]) \in Nat
    BY EmptySeq, ElementOfSeq
<1>4. /\ e \in [0..n -> Int] /\ e[0] = 0
      /\ \A k \in 1..n : e[k] = e[k - 1] + Len(parts[k]) + 1
    BY <1>2 DEF IsEnds
<1>5. /\ Len(text) = e[n] - 1
      /\ \A k \in 1..n : \A q \in 1..Len(parts[k]) : text[e[k - 1] + q] = parts[k][q]
      /\ \A k \in 1..(n - 1) : text[e[k]] = "/"
    BY <1>2 DEF IsCutAt
<1>6. \A k \in 1..n : /\ k \in 0..n /\ k - 1 \in 0..n
                      /\ e[k] \in Int /\ e[k - 1] \in Int /\ e[k - 1] < e[k]
    <2> SUFFICES ASSUME NEW k \in 1..n
                 PROVE  /\ k \in 0..n /\ k - 1 \in 0..n
                        /\ e[k] \in Int /\ e[k - 1] \in Int /\ e[k - 1] < e[k]
        OBVIOUS
    <2>1. k \in 0..n /\ k - 1 \in 0..n
        OBVIOUS
    <2>2. PICK u \in Int, w \in Nat : u = e[k - 1] /\ w = Len(parts[k])
        BY <1>3, <1>4, <2>1
    <2>3. e[k] = u + w + 1 /\ u < u + w + 1
        BY <1>4, <2>2
    <2>4. QED
        BY <1>4, <2>1, <2>2, <2>3
<1>7. /\ \A k, l \in 0..n : k < l => e[k] < e[l]
      /\ \A q \in 1..e[n] : \E k \in 1..n : e[k - 1] < q /\ q <= e[k]
    BY <1>4, <1>6, SumsIncrease
<1>8. PICK c \in Nat : c = n - 1
    <2>1. n # 0
        BY <1>3
    <2>2. n - 1 \in Nat
        BY ONLY n \in Nat, <2>1
    <2>3. QED
        BY <2>2
<1>9. PICK l \in Nat : l = Len(text)
    OBVIOUS
<1>10. /\ n = c + 1 /\ \A k \in 1..c : k \in 1..n /\ k \in 0..n /\ k \in 1..(n - 1) /\ 0 < k /\ k < n
       /\ n \in 0..n /\ 0 \in 0..n
    BY <1>8
<1>11. e[n] = l + 1 /\ e[n] \in Int
    BY <1>4, <1>5, <1>9, <1>10
<1>12. PICK cuts : cuts = {q \in DOMAIN text : text[q] = "/"} /\ Split(text, "/") = Pieces(text, cuts)
    BY DEF Split
<1>13. DOMAIN text = 1..l
    BY <1>9
<1> DEFINE slashes == [k \in 1..c |-> e[k]]
<1>14. cuts = {slashes[k] : k \in 1..c}
    <2>1. ASSUME NEW k \in 1..c PROVE e[k] \in cuts
        <3>1. e[k] \in Int /\ e[0] < e[k] /\ e[k] < e[n] /\ text[e[k]] = "/"
            BY <1>4, <1>5, <1>7, <1>10
        <3>2. e[k] \in 1..l
            BY <1>4, <1>11, <3>1
        <3>3. QED
            BY <1>12, <1>13, <3>1, <3>2
    <2>2. ASSUME NEW q \in cuts PROVE \E k \in 1..c : q = e[k]
        <3>1. q \in 1..l /\ text[q] = "/"
            BY <1>12, <1>13
        <3>2. q \in 1..e[n] /\ q # e[n]
            BY <1>11, <3>1
        <3>3. PICK k \in 1..n : e[k - 1] < q /\ q <= e[k]
            BY <1>7, <3>2
        <3>4. q = e[k]
            <4> SUFFICES ASSUME q # e[k] PROVE FALSE
                OBVIOUS
            <4>1. PICK u \in Int, w \in Nat, v \in Int :
                        u = e[k - 1] /\ w = Len(parts[k]) /\ v = e[k]
                BY <1>3, <1>6
            <4>2. v = u + w + 1 /\ u < q /\ q < v /\ q \in Int
                BY <1>4, <3>1, <3>3, <4>1
            <4>3. PICK r \in 1..w : q = u + r
                <5>1. q - u \in 1..w /\ q = u + (q - u)
                    BY <4>2
                <5>2. QED
                    BY <5>1
            <4>4. text[u + r] = parts[k][r] /\ parts[k][r] # "/"
                BY <1>5, <4>1
            <4>5. QED
                BY <3>1, <4>3, <4>4
        <3>5. k # n
            BY <3>2, <3>4
        <3>6. k \in 1..c
            BY <1>10, <3>5
        <3>7. QED
            BY <3>4, <3>6
    <2>3. QED
        BY <2>1, <2>2
<1>15. Cardinality(cuts) = c /\ InOrder(cuts) = slashes
    <2>1. slashes \in [1..c -> Int]
        BY <1>4, <1>10
    <2>2. \A k, k2 \in 1..c : k < k2 => slashes[k] < slashes[k2]
        BY <1>7, <1>10
    <2> HIDE DEF slashes
    <2>3. Increases(slashes, c)
        BY <2>1, <2>2 DEF Increases
    <2>4. IsImage(cuts, slashes, c)
        BY <1>14 DEF IsImage
    <2>5. Cardinality(cuts) = c /\ ByLess(cuts) = slashes
        BY <2>3, <2>4, IncreasingListed
    <2>6. QED
        BY <2>5 DEF InOrder, ByLess
<1>16. PICK ends : ends = <<0>> \o slashes \o <<Len(text) + 1>>
    OBVIOUS
<1>17. \A k \in 1..n : ends[k] = e[k - 1] /\ ends[k + 1] = e[k]
    <2>1. slashes \in [1..c -> Int] /\ \A k \in 1..c : slashes[k] = e[k]
        BY <1>4, <1>10
    <2> HIDE DEF slashes
    <2>2. IsFramed(ends, slashes, c, Len(text) + 1)
        <3>1. Len(text) + 1 \in Int
            BY <1>9
        <3>2. QED
            BY <1>16, <2>1, <3>1, Framed
    <2>3. ends[1] = 0 /\ ends[c + 2] = Len(text) + 1 /\ \A k \in 1..c : ends[k + 1] = slashes[k]
        BY <2>2 DEF IsFramed
    <2>4. c + 2 = n + 1
        BY <1>10
    <2>5. Len(text) + 1 = e[n] /\ e[0] = 0
        BY <1>4, <1>9, <1>11
    <2>6. ends[1] = e[0] /\ ends[n + 1] = e[n] /\ \A k \in 1..c : ends[k + 1] = e[k]
        BY <2>1, <2>3, <2>4, <2>5
    <2>7. ASSUME NEW k \in 1..n PROVE ends[k + 1] = e[k]
        <3>1. k = n \/ k \in 1..c
            BY <1>10
        <3>2. QED
            BY <2>6, <3>1
    <2>8. ASSUME NEW k \in 1..n PROVE ends[k] = e[k - 1]
        <3>1. CASE k = 1
            BY <2>6, <3>1
        <3>2. CASE k # 1
            <4>1. k - 1 \in 1..c /\ (k - 1) + 1 = k
                BY <1>10, <3>2
            <4>2. QED
                BY <2>6, <4>1
        <3>3. QED
            BY <3>1, <3>2
    <2>9. QED
        BY <2>7, <2>8
<1> HIDE DEF slashes
<1>18. Pieces(text, cuts) = [k \in 1..(c + 1) |-> SubSeq(text, ends[k] + 1, ends[k + 1] - 1)]
    BY <1>15, <1>16 DEF Pieces
<1>19. ASSUME NEW k \in 1..n
       PROVE  SubSeq(text, ends[k] + 1, ends[k + 1] - 1) = parts[k]
    <2>1. PICK u \in Nat, w \in Nat, v \in Int : u = e[k - 1] /\ w = Len(parts[k]) /\ v = e[k] - 1
        <3>1. e[k - 1] \in Int /\ e[k] \in Int /\ Len(parts[k]) \in Nat
            BY <1>3, <1>6
        <3>2. k - 1 = 0 \/ (0 < k - 1 /\ k - 1 \in 0..n)
            OBVIOUS
        <3>3. e[k - 1] = 0 \/ 0 < e[k - 1]
            BY <1>4, <1>7, <1>10, <3>2
        <3>4. e[k - 1] \in Nat
            BY <3>1, <3>3
        <3>5. QED
            BY <3>1, <3>4
    <2>2. v = u + w /\ v <= l
        <3>1. e[k] = u + w + 1
            BY <1>4, <2>1
        <3>2. k = n \/ k < n
            OBVIOUS
        <3>3. e[k] = e[n] \/ e[k] < e[n]
            BY <1>6, <1>7, <1>10, <3>2
        <3>4. e[k] \in Int
            BY <1>6
        <3>5. PICK x \in Int : x = e[k]
            BY <3>4
        <3>6. x = u + w + 1 /\ x <= l + 1 /\ v = x - 1
            BY <1>11, <2>1, <3>1, <3>3, <3>5
        <3>7. QED
            BY <3>6
    <2>3. u \in 0..l /\ v \in u..l /\ v - u = w
        BY <2>2
    <2>4. PICK piece : piece = SubSeq(text, u + 1, v)
        OBVIOUS
    <2>5. /\ piece \in Seq(S) /\ Len(piece) = w
          /\ \A q \in 1..w : piece[q] = text[u + q]
        BY <1>9, <2>3, <2>4, PartOfPath, SMTT(30)
    <2>6. \A q \in 1..w : piece[q] = parts[k][q]
        BY <1>5, <2>1, <2>5
    <2>7. parts[k] \in Seq(S) /\ Len(parts[k]) = w
        BY <1>3, <2>1
    <2>8. piece = parts[k]
        BY <2>5, <2>6, <2>7, SeqEqual
    <2>9. QED
        BY <1>17, <2>1, <2>4, <2>8
<1>20. Pieces(text, cuts) = [k \in 1..n |-> parts[k]]
    BY <1>10, <1>18, <1>19
<1>21. parts = [k \in 1..n |-> parts[k]]
    BY <1>3
<1>22. QED
    BY <1>1, <1>12, <1>20, <1>21

-----------------------------------------------------------------------------
\* Overlapping

\* The example is as long as both routes ask for.
LEMMA ExampleIsLongEnough ==
    ASSUME NEW a, NEW b, WellFormed(a), WellFormed(b), LengthsMeet(a, b)
    PROVE  /\ ExampleLength(a, b) \in Nat
           /\ \A r \in {a, b} :
                IF HasMulti(r) THEN ExampleLength(a, b) >= Fixed(r)
                ELSE ExampleLength(a, b) = Fixed(r)
BY FixedLength DEF ExampleLength, LengthsMeet, Greater, Lesser

\* Two routes that overlap both match the example of their overlap.
LEMMA ExampleIsMatched ==
    ASSUME NEW a, NEW b, WellFormed(a), WellFormed(b), Overlaps(a, b)
    PROVE  \A r \in {a, b} : Matches(r, r.method, Example(a, b), r.verb)
<1> DEFINE n == ExampleLength(a, b)
           e == Example(a, b)
<1>1. LengthsMeet(a, b)
    BY DEF Overlaps
<1>2. /\ n \in Nat
      /\ \A r \in {a, b} : IF HasMulti(r) THEN n >= Fixed(r) ELSE n = Fixed(r)
    BY <1>1, ExampleIsLongEnough
<1> HIDE DEF n
<1>3. Len(e) = n /\ DOMAIN e = 1..n
    BY <1>2 DEF Example, n
<1>4. \A i \in 1..n : e[i] = IF LiteralAt(a, i) THEN a.segs[i]
                             ELSE IF LiteralAt(b, i) THEN b.segs[i] ELSE Filler
    BY DEF Example, n
<1> HIDE DEF e
<1>5. ASSUME NEW r \in {a, b}, NEW i \in 1..Fixed(r)
      PROVE  SegmentMatches(r.segs[i], e[i])
    <2>1. i \in 1..n
        BY <1>2, <1>5, FixedLength
    <2>2. \A s \in {a, b} : LiteralAt(s, i) => s.segs[i] # <<>>
        BY <2>1, <1>2, FixedLength DEF LiteralAt, WellFormed
    <2>3. e[i] # <<>>
        BY <2>1, <2>2, <1>4, Kinds
    <2>4. ASSUME IsLiteral(r.segs[i]) PROVE e[i] = r.segs[i]
        <3>1. LiteralAt(r, i)
            BY <2>4, <1>5, FixedLength DEF LiteralAt
        <3>2. CASE r = a
            BY <2>1, <3>1, <3>2, <1>4
        <3>3. CASE r = b /\ ~LiteralAt(a, i)
            BY <2>1, <3>1, <3>3, <1>4
        <3>4. CASE r = b /\ LiteralAt(a, i)
            <4>1. i \in 1..Fixed(a)
                <5>1. i <= Len(a.segs) /\ a.segs[i] # Multi
                    BY <3>4 DEF LiteralAt, IsLiteral
                <5>2. QED
                    BY <2>1, <5>1, FixedLength
            <4>2. i \in 1..Common(a, b)
                BY <1>5, <3>4, <4>1, FixedLength DEF Common, Lesser
            <4>3. a.segs[i] = b.segs[i]
                BY <2>4, <3>4, <4>2 DEF Overlaps, LiteralAt
            <4>4. QED
                BY <2>1, <3>4, <4>3, <1>4
        <3>5. QED
            BY <3>2, <3>3, <3>4
    <2>5. QED
        BY <2>3, <2>4 DEF SegmentMatches
<1>6. QED
    BY <1>2, <1>3, <1>5 DEF Matches, e

\* And two routes that match one request overlap.
LEMMA MatchedIsOverlap ==
    ASSUME NEW a, NEW b, WellFormed(a), WellFormed(b),
           NEW method, NEW path, NEW verb, IsPath(path),
           Matches(a, method, path, verb), Matches(b, method, path, verb)
    PROVE  Overlaps(a, b)
<1>1. LengthsMeet(a, b)
    BY FixedLength DEF Matches, LengthsMeet, IsPath
<1>2. ASSUME NEW i \in 1..Common(a, b), IsLiteral(a.segs[i]), IsLiteral(b.segs[i])
      PROVE  a.segs[i] = b.segs[i]
    <2>1. i \in 1..Fixed(a) /\ i \in 1..Fixed(b)
        BY FixedLength DEF Common, Lesser
    <2>2. QED
        BY <1>2, <2>1 DEF Matches, SegmentMatches
<1>3. QED
    BY <1>1, <1>2 DEF Overlaps, Matches

-----------------------------------------------------------------------------
\* Comparing

\* Overlaps is no approximation: two templates overlap exactly when some request
\* matches both, whatever their length and wherever their wildcards are.
THEOREM OverlapIsSharedRequest ==
    ASSUME NEW a, NEW b, WellFormed(a), WellFormed(b)
    PROVE  Overlaps(a, b) <=>
                \E method, path, verb :
                    /\ IsPath(path)
                    /\ Matches(a, method, path, verb) /\ Matches(b, method, path, verb)
<1>1. ASSUME Overlaps(a, b)
      PROVE  \E method, path, verb :
                /\ IsPath(path)
                /\ Matches(a, method, path, verb) /\ Matches(b, method, path, verb)
    <2>1. /\ Matches(a, a.method, Example(a, b), a.verb)
          /\ Matches(b, a.method, Example(a, b), a.verb)
        BY <1>1, ExampleIsMatched DEF Overlaps
    <2>2. PICK n \in Nat : n = ExampleLength(a, b)
        BY <1>1, ExampleIsLongEnough DEF Overlaps
    <2>3. DOMAIN Example(a, b) = 1..n /\ Len(Example(a, b)) = n
        BY <2>2 DEF Example
    <2>4. IsPath(Example(a, b))
        BY <2>3 DEF IsPath
    <2>5. QED
        BY <2>1, <2>4
<1>2. QED
    BY <1>1, MatchedIsOverlap

\* Overlapping has no direction.
LEMMA OverlapsBothWays ==
    ASSUME NEW a, NEW b, WellFormed(a), WellFormed(b), Overlaps(a, b)
    PROVE  Overlaps(b, a)
<1>1. Fixed(a) \in Nat /\ Fixed(b) \in Nat
    BY FixedLength
<1>2. Common(a, b) = Common(b, a)
    BY <1>1 DEF Common, Lesser
<1>3. LengthsMeet(b, a)
    BY DEF Overlaps, LengthsMeet
<1>4. QED
    BY <1>2, <1>3 DEF Overlaps

\* A kind is one of three, of which "**" is the last.
LEMMA KindRankType == \A seg : KindRank(seg) \in {0, 1, 2} /\ KindRank(Multi) = 2
BY Kinds DEF KindRank

\* Two routes differ in kind at one first shared position, or at none.
SameKinds(a, b, n) == \A i \in 1..n : KindRank(a.segs[i]) = KindRank(b.segs[i])

\* Compare decides at the first difference in kind, or by the shapes.
LEMMA CompareCases ==
    ASSUME NEW a, NEW b, WellFormed(a), WellFormed(b)
    PROVE  \/ /\ SameKinds(a, b, Lesser(Len(a.segs), Len(b.segs)))
              /\ Compare(a, b) = CompareShape(a, b)
           \/ \E i \in 1..Lesser(Len(a.segs), Len(b.segs)) :
                /\ SameKinds(a, b, i - 1)
                /\ \/ /\ KindRank(a.segs[i]) < KindRank(b.segs[i])
                      /\ Compare(a, b) = -1
                   \/ /\ KindRank(b.segs[i]) < KindRank(a.segs[i])
                      /\ Compare(a, b) = 1
<1> DEFINE n == Lesser(Len(a.segs), Len(b.segs))
           Differ == {i \in 1..n : KindRank(a.segs[i]) # KindRank(b.segs[i])}
<1>1. n \in Nat
    BY DEF Lesser, WellFormed
<1> HIDE DEF n
<1>2. CASE Differ = {}
    <2>1. SameKinds(a, b, n)
        BY <1>2 DEF SameKinds
    <2>2. FirstDifference(a, b) = {}
        BY <1>2 DEF FirstDifference, n
    <2>3. QED
        BY <2>1, <2>2 DEF Compare, n
<1>3. CASE Differ # {}
    <2>1. PICK i \in Differ : \A j \in Differ : i <= j
        <3>1. Differ \subseteq Nat
            BY <1>1
        <3> HIDE DEF Differ
        <3>2. QED
            BY <1>3, <3>1, LeastOf
    <2>2. \A j \in 1..(i - 1) : j \in 1..n /\ j \notin Differ
        BY <1>1, <2>1
    <2>3. SameKinds(a, b, i - 1)
        BY <2>2 DEF SameKinds
    <2>4. i \in FirstDifference(a, b)
        BY <2>1, <2>3 DEF FirstDifference, SameKinds, n
    <2>5. \A j \in FirstDifference(a, b) : j = i
        <3> SUFFICES ASSUME NEW j \in FirstDifference(a, b) PROVE j = i
            OBVIOUS
        <3>1. j \in Differ /\ \A k \in 1..(j - 1) : k \notin Differ
            BY <1>1 DEF FirstDifference, n
        <3>2. i <= j /\ i \in Nat /\ j \in Nat /\ ~(i \in 1..(j - 1))
            BY <1>1, <2>1, <3>1
        <3>3. i \in 1..n /\ j \in 1..n
            BY <2>1, <3>1
        <3>4. QED
            BY <1>1, <3>2, <3>3
    <2>6. (CHOOSE j \in FirstDifference(a, b) : TRUE) = i
        BY <2>4, <2>5
    <2>7. Compare(a, b) = IF KindRank(a.segs[i]) < KindRank(b.segs[i]) THEN -1 ELSE 1
        BY <2>4, <2>6 DEF Compare
    <2>8. /\ KindRank(a.segs[i]) # KindRank(b.segs[i])
          /\ KindRank(a.segs[i]) \in Int /\ KindRank(b.segs[i]) \in Int
        BY <2>1, KindRankType
    <2>9. i \in 1..n
        BY <2>1
    <2>10. QED
        BY <2>3, <2>7, <2>8, <2>9 DEF n
<1>4. QED
    BY <1>2, <1>3

\* Compare takes one of three values, and the order of its arguments only turns
\* its sign.
LEMMA CompareIsAntisymmetric ==
    ASSUME NEW a, NEW b, WellFormed(a), WellFormed(b)
    PROVE  /\ Compare(a, b) \in {-1, 0, 1}
           /\ Compare(a, b) = 0 <=> Compare(b, a) = 0
           /\ Compare(a, b) = -1 <=> Compare(b, a) = 1
<1> DEFINE n == Lesser(Len(a.segs), Len(b.segs))
<1>1. n \in Nat /\ Lesser(Len(b.segs), Len(a.segs)) = n
    BY DEF Lesser, WellFormed
<1> HIDE DEF n
<1>2. \A x, y : CompareShape(x, y) \in {-1, 0, 1}
    BY DEF CompareShape
<1>3. /\ CompareShape(a, b) = 0 <=> CompareShape(b, a) = 0
      /\ CompareShape(a, b) = -1 <=> CompareShape(b, a) = 1
    <2>1. Len(a.segs) \in Nat /\ Len(b.segs) \in Nat
        BY DEF WellFormed
    <2>2. HasMulti(a) \in BOOLEAN /\ HasMulti(b) \in BOOLEAN
        BY DEF HasMulti
    <2> HIDE DEF HasMulti
    <2>3. QED
        BY <2>1, <2>2 DEF CompareShape
<1>4. \A s : KindRank(s) \in Int
    BY KindRankType
<1>5. CASE SameKinds(a, b, n)
    <2>1. \A i \in 1..n : KindRank(a.segs[i]) = KindRank(b.segs[i])
        BY <1>5 DEF SameKinds
    <2>2. Compare(a, b) = CompareShape(a, b)
        BY <1>4, <2>1, CompareCases DEF n
    <2>3. Compare(b, a) = CompareShape(b, a)
        BY <1>1, <1>4, <2>1, CompareCases DEF n
    <2>4. QED
        BY <1>2, <1>3, <2>2, <2>3
<1>6. CASE ~SameKinds(a, b, n)
    <2>1. PICK i \in 1..n :
            /\ SameKinds(a, b, i - 1)
            /\ \/ KindRank(a.segs[i]) < KindRank(b.segs[i]) /\ Compare(a, b) = -1
               \/ KindRank(b.segs[i]) < KindRank(a.segs[i]) /\ Compare(a, b) = 1
        BY <1>6, CompareCases DEF n
    <2>2. ~SameKinds(b, a, n)
        BY <1>6 DEF SameKinds
    <2>3. PICK j \in 1..n :
            /\ SameKinds(b, a, j - 1)
            /\ \/ KindRank(b.segs[j]) < KindRank(a.segs[j]) /\ Compare(b, a) = -1
               \/ KindRank(a.segs[j]) < KindRank(b.segs[j]) /\ Compare(b, a) = 1
        BY <1>1, <2>2, CompareCases DEF n
    <2>4. KindRank(a.segs[i]) # KindRank(b.segs[i]) /\ KindRank(a.segs[j]) # KindRank(b.segs[j])
        BY <1>4, <2>1, <2>3
    <2>5. i = j
        <3>1. ~(i \in 1..(j - 1)) /\ ~(j \in 1..(i - 1))
            BY <2>1, <2>3, <2>4 DEF SameKinds
        <3>2. QED
            BY <1>1, <3>1
    <2>6. QED
        BY <1>4, <2>1, <2>3, <2>5
<1>7. QED
    BY <1>5, <1>6

-----------------------------------------------------------------------------
\* The order behind Compare

\* The kinds of a route in a row, a route that has ended being of kind end.
Rank(r, i, end) == IF i <= Len(r.segs) THEN KindRank(r.segs[i]) ELSE end

\* One row of kinds is below another, as words are in a dictionary.
Before(a, x, b, y) ==
    \E i \in Nat \ {0} : /\ Rank(a, i, x) < Rank(b, i, y)
                         /\ \A j \in 1..(i - 1) : Rank(a, j, x) = Rank(b, j, y)

\* Rows of kinds, each with its end, are ordered as words are.
LEMMA BeforeIsTransitive ==
    ASSUME NEW a, NEW b, NEW c, NEW x \in Int, NEW y \in Int, NEW z \in Int,
           Before(a, x, b, y), Before(b, y, c, z)
    PROVE  Before(a, x, c, z)
<1>1. \A i \in Nat : Rank(a, i, x) \in Int /\ Rank(b, i, y) \in Int /\ Rank(c, i, z) \in Int
    BY KindRankType DEF Rank
<1>2. PICK i \in Nat \ {0} : /\ Rank(a, i, x) < Rank(b, i, y)
                             /\ \A k \in 1..(i - 1) : Rank(a, k, x) = Rank(b, k, y)
    BY DEF Before
<1>3. PICK j \in Nat \ {0} : /\ Rank(b, j, y) < Rank(c, j, z)
                             /\ \A k \in 1..(j - 1) : Rank(b, k, y) = Rank(c, k, z)
    BY DEF Before
<1>4. CASE i <= j
    <2>1. Rank(b, i, y) <= Rank(c, i, z)
        <3>1. CASE i = j
            BY <1>1, <1>3, <3>1
        <3>2. CASE i # j
            <4>1. i \in 1..(j - 1)
                BY <1>4, <3>2
            <4>2. QED
                BY <1>1, <1>3, <4>1
        <3>3. QED
            BY <3>1, <3>2
    <2>2. Rank(a, i, x) < Rank(c, i, z)
        BY <1>1, <1>2, <2>1
    <2>3. \A k \in 1..(i - 1) : k \in 1..(j - 1)
        BY <1>4
    <2>4. \A k \in 1..(i - 1) : Rank(a, k, x) = Rank(c, k, z)
        BY <1>2, <1>3, <2>3
    <2>5. QED
        BY <2>2, <2>4 DEF Before
<1>5. CASE j < i
    <2>1. j \in 1..(i - 1) /\ \A k \in 1..(j - 1) : k \in 1..(i - 1)
        BY <1>5
    <2>2. Rank(a, j, x) < Rank(c, j, z)
        BY <1>1, <1>2, <1>3, <2>1
    <2>3. \A k \in 1..(j - 1) : Rank(a, k, x) = Rank(c, k, z)
        BY <1>2, <1>3, <2>1
    <2>4. QED
        BY <2>2, <2>3 DEF Before
<1>6. QED
    BY <1>4, <1>5

\* No row is before itself.
LEMMA BeforeIsStrict ==
    ASSUME NEW a, NEW x \in Int
    PROVE  ~Before(a, x, a, x)
<1>1. \A i \in Nat : Rank(a, i, x) \in Int
    BY KindRankType DEF Rank
<1>2. QED
    BY <1>1 DEF Before

\* Two rows are one.
Level(a, x, b, y) == \A i \in Nat \ {0} : Rank(a, i, x) = Rank(b, i, y)

\* Compare is the order of two rows.
Follows(a, x, b, y) ==
    /\ Compare(a, b) = -1 => Before(a, x, b, y)
    /\ Compare(a, b) = 0 => Level(a, x, b, y)
ByRows(a, x, b, y) ==
    /\ Compare(a, b) = -1 <=> Before(a, x, b, y)
    /\ Compare(a, b) = 0 <=> Level(a, x, b, y)

\* If Compare follows the rows in both directions, it is their order.
LEMMA FollowsBothWays ==
    ASSUME NEW a, NEW b, WellFormed(a), WellFormed(b), NEW x \in Int, NEW y \in Int,
           Follows(a, x, b, y), Follows(b, y, a, x)
    PROVE  ByRows(a, x, b, y)
<1>1. /\ Compare(a, b) \in {-1, 0, 1}
      /\ Compare(a, b) = -1 => Before(a, x, b, y)
      /\ Compare(a, b) = 0 => Level(a, x, b, y)
      /\ Compare(a, b) = 1 => Before(b, y, a, x)
    BY CompareIsAntisymmetric DEF Follows
<1>2. ~(Before(a, x, b, y) /\ Before(b, y, a, x))
    BY BeforeIsTransitive, BeforeIsStrict
<1>3. ~(Level(a, x, b, y) /\ (Before(a, x, b, y) \/ Before(b, y, a, x)))
    <2>1. \A i \in Nat : Rank(a, i, x) \in Int /\ Rank(b, i, y) \in Int
        BY KindRankType DEF Rank
    <2>2. QED
        BY <2>1 DEF Level, Before
<1>4. QED
    BY <1>1, <1>2, <1>3 DEF ByRows

\* A first difference in kind puts one row below the other.
LEMMA DifferenceDecides ==
    ASSUME NEW a, NEW b, WellFormed(a), WellFormed(b), NEW x, NEW y,
           NEW i \in 1..Lesser(Len(a.segs), Len(b.segs)), SameKinds(a, b, i - 1),
           KindRank(a.segs[i]) < KindRank(b.segs[i])
    PROVE  Before(a, x, b, y)
<1>1. Len(a.segs) \in Nat /\ Len(b.segs) \in Nat
    BY DEF WellFormed
<1>2. /\ i \in Nat \ {0} /\ i <= Len(a.segs) /\ i <= Len(b.segs)
      /\ \A j \in 1..(i - 1) : j <= Len(a.segs) /\ j <= Len(b.segs)
    BY <1>1 DEF Lesser
<1>3. QED
    BY <1>2 DEF Before, Rank, SameKinds

\* A position where both still have segments, or the first where one has ended,
\* does so too.
LEMMA EndDecides ==
    ASSUME NEW a, NEW b, WellFormed(a), WellFormed(b), NEW x, NEW y,
           LET n == Lesser(Len(a.segs), Len(b.segs))
           IN  SameKinds(a, b, n) /\ Rank(a, n + 1, x) < Rank(b, n + 1, y)
    PROVE  Before(a, x, b, y)
<1> DEFINE n == Lesser(Len(a.segs), Len(b.segs))
<1>1. Len(a.segs) \in Nat /\ Len(b.segs) \in Nat
    BY DEF WellFormed
<1>2. n \in Nat /\ n <= Len(a.segs) /\ n <= Len(b.segs)
    BY <1>1 DEF Lesser
<1>3. SameKinds(a, b, n) /\ Rank(a, n + 1, x) < Rank(b, n + 1, y)
    OBVIOUS
<1> HIDE DEF n
<1>4. \A j \in 1..((n + 1) - 1) : j \in 1..n /\ j <= Len(a.segs) /\ j <= Len(b.segs)
    BY <1>1, <1>2
<1>5. \A j \in 1..((n + 1) - 1) : Rank(a, j, x) = Rank(b, j, y)
    BY <1>3, <1>4 DEF Rank, SameKinds
<1>6. n + 1 \in Nat \ {0}
    BY <1>2
<1>7. QED
    BY <1>3, <1>5, <1>6 DEF Before

\* Routes of one length and one row of kinds are level if they end alike.
LEMMA LevelRows ==
    ASSUME NEW a, NEW b, Len(a.segs) = Len(b.segs), NEW x,
           WellFormed(a), SameKinds(a, b, Len(a.segs))
    PROVE  Level(a, x, b, x)
BY DEF Level, Rank, SameKinds, WellFormed

\* Of routes that match one request: a route without "**" is as long as the path,
\* so it ends before a "**" that stands for nothing.
AtEnd == -1

\* Of routes that match one request, Compare follows the rows of kinds.
LEMMA RequestFollows ==
    ASSUME NEW a, NEW b, WellFormed(a), WellFormed(b),
           NEW method, NEW path, NEW verb, IsPath(path),
           Matches(a, method, path, verb), Matches(b, method, path, verb)
    PROVE  Follows(a, AtEnd, b, AtEnd)
<1> DEFINE n == Lesser(Len(a.segs), Len(b.segs))
<1>1. /\ a.verb = b.verb /\ Len(path) \in Nat
      /\ \A r \in {a, b} : IF HasMulti(r) THEN Len(path) >= Fixed(r) ELSE Len(path) = Fixed(r)
    BY DEF Matches, IsPath
<1>2. Len(a.segs) \in Nat /\ Len(b.segs) \in Nat /\ \A s : KindRank(s) \in Int
    BY KindRankType DEF WellFormed
<1>3. CASE ~SameKinds(a, b, n)
    <2>1. PICK i \in 1..n :
            /\ SameKinds(a, b, i - 1)
            /\ \/ KindRank(a.segs[i]) < KindRank(b.segs[i]) /\ Compare(a, b) = -1
               \/ KindRank(b.segs[i]) < KindRank(a.segs[i]) /\ Compare(a, b) = 1
        BY <1>3, CompareCases
    <2>2. QED
        BY <2>1, DifferenceDecides DEF Follows
<1>4. CASE SameKinds(a, b, n)
    <2>1. Compare(a, b) = CompareShape(a, b)
        BY <1>2, <1>4, CompareCases DEF SameKinds
    <2>2. ASSUME NEW r \in {a, b}, NEW s \in {a, b}, HasMulti(r), Len(r.segs) <= n
          PROVE  HasMulti(s) /\ Len(r.segs) = Len(s.segs)
        <3> DEFINE k == Len(r.segs)
        <3>1. k \in 1..n /\ r.segs[k] = Multi /\ n <= Len(s.segs)
            BY <1>2, <2>2, FixedLength DEF Lesser
        <3>2. KindRank(s.segs[k]) = 2
            BY <1>4, <3>1, KindRankType DEF SameKinds
        <3>3. s.segs[k] = Multi
            BY <3>2 DEF KindRank
        <3>4. k \in 1..Len(s.segs)
            BY <1>2, <3>1 DEF Lesser
        <3>5. k = Len(s.segs)
            BY <1>2, <3>3, <3>4 DEF WellFormed
        <3>6. QED
            BY <1>2, <3>3, <3>4, <3>5 DEF HasMulti
    <2>3. Compare(a, b) = 0 => Level(a, AtEnd, b, AtEnd)
        <3>1. Compare(a, b) = 0 => Len(a.segs) = Len(b.segs) /\ n = Len(a.segs)
            BY <1>2, <2>1 DEF CompareShape, Lesser
        <3>2. QED
            BY <1>4, <3>1, LevelRows
    <2>4. ASSUME Compare(a, b) = -1
          PROVE  ~HasMulti(a) /\ HasMulti(b) /\ n = Len(a.segs) /\ Len(b.segs) = n + 1
        <3>1. Len(a.segs) = n \/ Len(b.segs) = n
            BY DEF Lesser
        <3>2. HasMulti(a) # HasMulti(b) \/ Len(a.segs) # Len(b.segs)
            BY <1>1, <2>1, <2>4 DEF CompareShape
        <3>3. CASE HasMulti(a) = HasMulti(b)
            <4>1. Len(a.segs) = Len(b.segs)
                BY <1>1, <1>2, <2>2, <3>1, <3>3, FixedLength
            <4>2. QED
                BY <3>2, <3>3, <4>1
        <3>4. CASE HasMulti(a) # HasMulti(b)
            <4>1. ~HasMulti(a) /\ HasMulti(b)
                BY <2>1, <2>4, <3>4 DEF CompareShape, HasMulti
            <4>2. Len(b.segs) <= Len(a.segs) + 1
                BY <1>1, <4>1, FixedLength
            <4>3. ~(Len(b.segs) <= n)
                BY <2>2, <4>1
            <4>4. QED
                BY <1>2, <4>1, <4>2, <4>3 DEF Lesser
        <3>5. QED
            BY <3>3, <3>4
    <2>5. ASSUME Compare(a, b) = -1
          PROVE  Before(a, AtEnd, b, AtEnd)
        <3>1. Rank(a, n + 1, AtEnd) = -1
            BY <1>2, <2>4, <2>5 DEF Rank, AtEnd
        <3>2. Rank(b, n + 1, AtEnd) = 2
            BY <1>2, <2>4, <2>5, KindRankType, FixedLength DEF Rank
        <3>3. QED
            BY <1>4, <3>1, <3>2, EndDecides
    <2>6. QED
        BY <2>3, <2>5 DEF Follows
<1>5. QED
    BY <1>3, <1>4

\* Of routes without "**": the longer is the more specific, and a custom verb
\* is more specific than none.
PlainEnd(r) == IF r.verb = NoVerb THEN 4 ELSE 3

\* Of routes without "**", Compare follows the rows of kinds.
LEMMA PlainFollows ==
    ASSUME NEW a, NEW b, WellFormed(a), WellFormed(b), ~HasMulti(a), ~HasMulti(b)
    PROVE  Follows(a, PlainEnd(a), b, PlainEnd(b))
<1> DEFINE n == Lesser(Len(a.segs), Len(b.segs))
<1>2. Len(a.segs) \in Nat /\ Len(b.segs) \in Nat /\ \A s : KindRank(s) \in {0, 1, 2}
    BY KindRankType DEF WellFormed
<1>3. CASE ~SameKinds(a, b, n)
    <2>1. PICK i \in 1..n :
            /\ SameKinds(a, b, i - 1)
            /\ \/ KindRank(a.segs[i]) < KindRank(b.segs[i]) /\ Compare(a, b) = -1
               \/ KindRank(b.segs[i]) < KindRank(a.segs[i]) /\ Compare(a, b) = 1
        BY <1>3, CompareCases
    <2>2. QED
        BY <2>1, DifferenceDecides DEF Follows
<1>4. CASE SameKinds(a, b, n)
    <2>1. Compare(a, b) = CompareShape(a, b)
        BY <1>2, <1>4, CompareCases DEF SameKinds
    <2>2. ASSUME Compare(a, b) = 0
          PROVE  Level(a, PlainEnd(a), b, PlainEnd(b))
        <3>1. /\ Len(a.segs) = Len(b.segs) /\ n = Len(a.segs)
              /\ PlainEnd(a) = PlainEnd(b)
            BY <1>2, <2>1, <2>2 DEF CompareShape, Lesser, PlainEnd
        <3>2. QED
            BY <1>4, <3>1, LevelRows
    <2>3. ASSUME Compare(a, b) = -1
          PROVE  Before(a, PlainEnd(a), b, PlainEnd(b))
        <3>1. \/ Len(a.segs) > Len(b.segs)
              \/ Len(a.segs) = Len(b.segs) /\ a.verb # NoVerb /\ b.verb = NoVerb
            BY <1>2, <2>1, <2>3 DEF CompareShape
        <3>2. Rank(a, n + 1, PlainEnd(a)) < Rank(b, n + 1, PlainEnd(b))
            BY <1>2, <3>1 DEF Rank, PlainEnd, Lesser
        <3>3. QED
            BY <1>4, <3>2, EndDecides
    <2>4. QED
        BY <2>2, <2>3 DEF Follows
<1>5. QED
    BY <1>3, <1>4

\* So being more specific is transitive among the routes that match one request:
\* not among all routes, which is why a table with "**" has no sorting order.
THEOREM RequestOrder ==
    ASSUME NEW a, NEW b, NEW c, WellFormed(a), WellFormed(b), WellFormed(c),
           NEW method, NEW path, NEW verb, IsPath(path),
           Matches(a, method, path, verb), Matches(b, method, path, verb),
           Matches(c, method, path, verb),
           Compare(a, b) = -1, Compare(b, c) = -1
    PROVE  Compare(a, c) = -1
<1>1. AtEnd \in Int
    BY DEF AtEnd
<1>2. /\ Follows(a, AtEnd, b, AtEnd) /\ Follows(b, AtEnd, c, AtEnd)
      /\ Follows(a, AtEnd, c, AtEnd) /\ Follows(c, AtEnd, a, AtEnd)
    BY RequestFollows
<1>3. Before(a, AtEnd, c, AtEnd)
    <2>1. Before(a, AtEnd, b, AtEnd) /\ Before(b, AtEnd, c, AtEnd)
        BY <1>2 DEF Follows
    <2>2. QED
        BY <1>1, <2>1, BeforeIsTransitive
<1>4. QED
    BY <1>1, <1>2, <1>3, FollowsBothWays DEF ByRows

\* And without "**" the order of SortBySpecificity is transitive. (That it is
\* total on routes of different sources is LessIsTotal.)
THEOREM PlainOrder ==
    ASSUME NEW a, NEW b, NEW c, WellFormed(a), WellFormed(b), WellFormed(c),
           ~HasMulti(a), ~HasMulti(b), ~HasMulti(c),
           a.source \in Int, b.source \in Int, c.source \in Int,
           Less(a, b), Less(b, c)
    PROVE  Less(a, c)
<1> DEFINE x == PlainEnd(a)
           y == PlainEnd(b)
           z == PlainEnd(c)
<1>1. x \in Int /\ y \in Int /\ z \in Int
    BY DEF PlainEnd
<1>2. ByRows(a, x, b, y) /\ ByRows(b, y, c, z) /\ ByRows(a, x, c, z)
    <2>1. /\ Follows(a, x, b, y) /\ Follows(b, y, a, x) /\ Follows(b, y, c, z)
          /\ Follows(c, z, b, y) /\ Follows(a, x, c, z) /\ Follows(c, z, a, x)
        BY PlainFollows
    <2> HIDE DEF x, y, z
    <2>2. QED
        BY <1>1, <2>1, FollowsBothWays
<1>3. /\ Compare(a, b) \in {-1, 0, 1} /\ Compare(b, c) \in {-1, 0, 1}
      /\ Compare(a, c) \in {-1, 0, 1}
    BY CompareIsAntisymmetric
<1>4. /\ Compare(a, b) = -1 \/ (Compare(a, b) = 0 /\ a.source < b.source)
      /\ Compare(b, c) = -1 \/ (Compare(b, c) = 0 /\ b.source < c.source)
    BY <1>3 DEF Less
<1> HIDE DEF x, y, z
<1>5. CASE Compare(a, b) = -1 /\ Compare(b, c) = -1
    <2>1. Before(a, x, c, z)
        BY <1>1, <1>2, <1>5, BeforeIsTransitive DEF ByRows
    <2>2. QED
        BY <1>2, <2>1 DEF ByRows, Less
<1>6. CASE Compare(a, b) = -1 /\ Compare(b, c) = 0
    <2>1. Before(a, x, c, z)
        BY <1>2, <1>6 DEF ByRows, Before, Level
    <2>2. QED
        BY <1>2, <2>1 DEF ByRows, Less
<1>7. CASE Compare(a, b) = 0 /\ Compare(b, c) = -1
    <2>1. Before(a, x, c, z)
        <3>1. Level(a, x, b, y) /\ Before(b, y, c, z)
            BY <1>2, <1>7 DEF ByRows
        <3>2. PICK i \in Nat \ {0} : /\ Rank(b, i, y) < Rank(c, i, z)
                                     /\ \A j \in 1..(i - 1) : Rank(b, j, y) = Rank(c, j, z)
            BY <3>1 DEF Before
        <3>3. Rank(a, i, x) = Rank(b, i, y) /\ \A j \in 1..(i - 1) : Rank(a, j, x) = Rank(b, j, y)
            BY <3>1 DEF Level
        <3>4. QED
            BY <3>2, <3>3 DEF Before
    <2>2. QED
        BY <1>2, <2>1 DEF ByRows, Less
<1>8. CASE Compare(a, b) = 0 /\ Compare(b, c) = 0
    <2>1. Compare(a, c) = 0
        BY <1>2, <1>8 DEF ByRows, Level
    <2>2. QED
        BY <1>4, <1>8, <2>1 DEF Less
<1>9. QED
    BY <1>4, <1>5, <1>6, <1>7, <1>8

\* Of two routes of different sources one is less.
LEMMA LessIsTotal ==
    ASSUME NEW a, NEW b, WellFormed(a), WellFormed(b),
           a.source \in Int, b.source \in Int, a.source # b.source
    PROVE  Less(a, b) <=> ~Less(b, a)
BY CompareIsAntisymmetric DEF Less

\* R relates each two elements of I, in one direction at least, and is transitive.
IsTotalOrder(R, I) ==
    /\ \A i, j \in I : i # j => <<i, j>> \in R \/ <<j, i>> \in R
    /\ \A i, j, k \in I : <<i, j>> \in R /\ <<j, k>> \in R => <<i, k>> \in R

\* A finite set on which a relation is total and transitive has a first element.
LEMMA FirstInOrder ==
    ASSUME NEW R, NEW n \in Nat, NEW I, I \subseteq 1..n, I # {},
           IsTotalOrder(R, I)
    PROVE  \E i \in I : \A j \in I \ {i} : <<i, j>> \in R
<1> DEFINE HasFirst(J) == \E i \in J : \A j \in J \ {i} : <<i, j>> \in R
           Bad == {m \in Nat : \E J \in SUBSET I : J # {} /\ J \subseteq 1..m /\ ~HasFirst(J)}
<1>0. /\ \A i, j \in I : i # j => <<i, j>> \in R \/ <<j, i>> \in R
      /\ \A i, j, k \in I : <<i, j>> \in R /\ <<j, k>> \in R => <<i, k>> \in R
    BY DEF IsTotalOrder
<1>1. Bad = {}
    <2> SUFFICES ASSUME Bad # {} PROVE FALSE
        OBVIOUS
    <2>1. PICK m \in Bad : \A k \in Bad : m <= k
        <3>1. Bad \subseteq Nat
            OBVIOUS
        <3> HIDE DEF Bad
        <3>2. QED
            BY <3>1, LeastOf
    <2>2. m \in Nat
        BY <2>1
    <2>3. PICK J \in SUBSET I : J # {} /\ J \subseteq 1..m /\ ~HasFirst(J)
        BY <2>1
    <2>4. m # 0
        <3>1. J # {} /\ J \subseteq 1..m
            BY <2>3
        <3>2. 1..0 = {}
            OBVIOUS
        <3> HIDE DEF HasFirst, Bad
        <3>3. QED
            BY <3>1, <3>2
    <2>5. m - 1 \in Nat /\ m - 1 \notin Bad
        <3> HIDE DEF Bad
        <3>1. QED
            BY <2>1, <2>2, <2>4
    <2>6. \A K \in SUBSET I : K # {} /\ K \subseteq 1..(m - 1) => HasFirst(K)
        BY <2>5
    <2>7. m \in J
        <3>1. ASSUME m \notin J PROVE FALSE
            <4>1. J \subseteq 1..(m - 1)
                <5>1. J \subseteq 1..m
                    BY <2>3
                <5>2. \A j \in 1..m : j # m => j \in 1..(m - 1)
                    BY <2>2
                <5> HIDE DEF HasFirst, Bad
                <5>3. QED
                    BY <3>1, <5>1, <5>2
            <4>2. QED
                BY <2>3, <2>6, <4>1
        <3>2. QED
            BY <3>1
    <2>8. CASE J = {m}
        BY <2>3, <2>8
    <2>9. CASE J # {m}
        <3>1. J \ {m} # {} /\ J \ {m} \subseteq 1..(m - 1) /\ J \ {m} \in SUBSET I
            BY <2>2, <2>3, <2>7, <2>9
        <3>2. PICK i \in J \ {m} : \A j \in (J \ {m}) \ {i} : <<i, j>> \in R
            BY <2>6, <3>1
        <3>3. i \in I /\ m \in I /\ i # m
            BY <2>3, <2>7, <3>2
        <3>4. CASE <<i, m>> \in R
            <4>1. \A j \in J \ {i} : <<i, j>> \in R
                BY <3>2, <3>4
            <4>2. QED
                BY <2>3, <3>2, <4>1
        <3>5. CASE <<m, i>> \in R
            <4>1. \A j \in J \ {m} : <<m, j>> \in R
                BY <1>0, <2>3, <3>2, <3>3, <3>5
            <4>2. QED
                BY <2>3, <2>7, <4>1
        <3>6. QED
            BY <1>0, <3>3, <3>4, <3>5
    <2>10. QED
        BY <2>8, <2>9
<1>2. n \notin Bad
    BY <1>1
<1>3. QED
    BY <1>2
=============================================================================
