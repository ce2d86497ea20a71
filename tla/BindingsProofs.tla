--------------------------- MODULE BindingsProofs ----------------------------
(***************************************************************************)
(* Proofs about Bindings for every set of descriptors, every list of       *)
(* methods and every depth of the query walk.  Materialization opens no    *)
(* message inside itself and leaves the table closed under what messages   *)
(* hold; so what buildBinding finds by walking the table is what the       *)
(* descriptors say, and each rule shares out the fields of its request.    *)
(***************************************************************************)
EXTENDS Bindings, Recursion, FiniteSetTheorems, SequenceTheorems, TLAPS

\* What a registered message holds is in the set, or is a field that one of the
\* calls has yet to walk.
Covered(held, calls) ==
    \A m \in messages : \A i \in DOMAIN proto.fields[m] :
        Opens(proto.fields[m][i]) =>
            \/ proto.fields[m][i].type \in held
            \/ \E k \in DOMAIN calls : \E j \in DOMAIN calls[k] :
                   calls[k][j] = proto.fields[m][i]

Pending == Covered(messages, stack)

\* The strengthening of both properties that every step preserves.
Walking ==
    /\ proto \in Protos
    /\ messages \subseteq Messages
    /\ stack \in Seq(Seq(FieldType))
    /\ Len(stack) <= Cardinality(messages)
    /\ methods \in Seq({methods[i] : i \in DOMAIN methods})
    /\ phase \in {"output", "rules"} => Len(methods) < Len(proto.methods)
    /\ Pending

\* There are no more registered messages than messages.
LEMMA FinitelyMany ==
    ASSUME messages \subseteq Messages
    PROVE  /\ Cardinality(messages) \in Nat /\ Cardinality(Messages) \in Nat
           /\ Cardinality(messages) <= Cardinality(Messages)
<1>1. IsFiniteSet(Messages)
  BY MessagesAssumption
<1> QED
  BY <1>1, FS_Subset, FS_CardinalityType

\* A proto is typed as the assumption says.
LEMMA Typed ==
    ASSUME NEW p \in Protos
    PROVE /\ p.fields \in [Messages -> Seq(FieldType)]
          /\ \A n \in Nat : n < Len(p.methods) =>
                /\ p.methods[n + 1].input \in Messages
                /\ p.methods[n + 1].output \in Messages
<1>1. p.methods \in Seq({p.methods[i] : i \in DOMAIN p.methods})
  BY ProtosAssumption
<1>2. \A n \in Nat : n < Len(p.methods) => n + 1 \in DOMAIN p.methods
  BY <1>1
<1> QED
  BY <1>2, ProtosAssumption

\* A call of b.message(m) below calls that account for every field but those
\* of m itself leaves the invariant's parts about messages and stack.
LEMMA MaterializeKeeps ==
    ASSUME proto \in Protos, messages \subseteq Messages,
           NEW m \in Messages,
           NEW calls \in Seq(Seq(FieldType)),
           Len(calls) <= Cardinality(messages),
           Materialize(m, calls), proto' = proto,
           Covered(messages \cup {m}, calls)
    PROVE /\ messages' \subseteq Messages
          /\ stack' \in Seq(Seq(FieldType))
          /\ Len(stack') <= Cardinality(messages')
          /\ Pending'
<1>1. proto.fields \in [Messages -> Seq(FieldType)]
  BY Typed
<1>2. messages' = messages \cup {m} /\ messages' \subseteq Messages
  BY DEF Materialize
<1>3. CASE m \in messages
  <2>1. messages' = messages /\ stack' = calls
    BY <1>3 DEF Materialize
  <2> QED
    BY <2>1, <1>2, <1>3 DEF Pending, Covered, Opens
<1>4. CASE m \notin messages
  <2>1. stack' = Append(calls, proto.fields[m]) /\ proto.fields[m] \in Seq(FieldType)
    BY <1>1, <1>4 DEF Materialize
  <2>2. stack' \in Seq(Seq(FieldType)) /\ Len(stack') = Len(calls) + 1
    BY <2>1
  <2>3. IsFiniteSet(messages) /\ Cardinality(messages') = Cardinality(messages) + 1
    BY <1>2, <1>4, MessagesAssumption, FS_Subset, FS_AddElement
  <2>4. Len(stack') <= Cardinality(messages')
    BY <2>2, <2>3, FS_CardinalityType
  <2>5. /\ \A k \in DOMAIN calls : k \in DOMAIN stack' /\ stack'[k] = calls[k]
        /\ Len(stack') \in DOMAIN stack' /\ stack'[Len(stack')] = proto.fields[m]
    BY <2>1
  <2>6. ASSUME NEW n \in messages', NEW i \in DOMAIN proto.fields[n],
               Opens(proto.fields[n][i])
        PROVE \/ proto.fields[n][i].type \in messages'
              \/ \E k \in DOMAIN stack' :
                     \E j \in DOMAIN stack'[k] : stack'[k][j] = proto.fields[n][i]
    <3>1. CASE n = m
      BY <3>1, <2>5, <2>6
    <3>2. CASE n # m
      <4>1. n \in messages
        BY <3>2, <1>2
      <4>2. \/ proto.fields[n][i].type \in messages \cup {m}
            \/ \E k \in DOMAIN calls : \E j \in DOMAIN calls[k] :
                   calls[k][j] = proto.fields[n][i]
        BY <4>1, <2>6 DEF Covered
      <4> QED BY <4>2, <2>5, <1>2
    <3> QED BY <3>1, <3>2
  <2>7. Pending'
    BY <2>6 DEF Pending, Covered, Opens
  <2> QED BY <1>2, <2>2, <2>4, <2>7
<1> QED BY <1>3, <1>4

\* All but the last element of a sequence, and the last.
LEMMA FrontAndLast ==
    ASSUME NEW T, NEW s \in Seq(T), s # <<>>
    PROVE /\ Len(s) \in Nat \ {0} /\ DOMAIN s = 1..Len(s)
          /\ Last(s) = s[Len(s)] /\ s[Len(s)] \in T
          /\ Front(s) \in Seq(T) /\ Len(Front(s)) = Len(s) - 1
          /\ \A k \in 1..(Len(s) - 1) : Front(s)[k] = s[k]
<1>1. Len(s) \in Nat \ {0} /\ DOMAIN s = 1..Len(s)
  BY EmptySeq, LenProperties
<1>2. \A k \in 1..(Len(s) - 1) : s[k] \in T
  BY <1>1, ElementOfSeq
<1>3. Front(s) = SubSeq(s, 1, Len(s) - 1) /\ Last(s) = s[Len(s)] /\ s[Len(s)] \in T
  BY <1>1, ElementOfSeq DEF Front, Last
<1>4. 1 \in Int /\ Len(s) - 1 \in Int
  BY <1>1
<1>5. /\ SubSeq(s, 1, Len(s) - 1) \in Seq(T)
      /\ Len(SubSeq(s, 1, Len(s) - 1)) =
             IF 1 <= Len(s) - 1 THEN (Len(s) - 1) - 1 + 1 ELSE 0
      /\ \A k \in 1..((Len(s) - 1) - 1 + 1) :
             SubSeq(s, 1, Len(s) - 1)[k] = s[1 + k - 1]
  BY <1>2, <1>4, SubSeqProperties
<1>6. /\ Len(SubSeq(s, 1, Len(s) - 1)) = Len(s) - 1
      /\ \A k \in 1..(Len(s) - 1) : SubSeq(s, 1, Len(s) - 1)[k] = s[k]
  BY <1>1, <1>5
<1> QED BY <1>1, <1>3, <1>5, <1>6

\* The field the innermost call walks next, and the calls once it has.
Walked == Head(Last(stack))
Unwalked == Append(Front(stack), Tail(Last(stack)))

\* Removing what the innermost call has walked accounts for the same fields,
\* but the one it walked.
LEMMA RestTyped ==
    ASSUME stack \in Seq(Seq(FieldType)), stack # <<>>, Last(stack) # <<>>
    PROVE /\ Unwalked \in Seq(Seq(FieldType))
          /\ Len(Unwalked) = Len(stack)
          /\ Walked \in FieldType
          /\ \A k \in DOMAIN stack : \A j \in DOMAIN stack[k] :
                \/ stack[k][j] = Walked
                \/ \E l \in DOMAIN Unwalked : \E i \in DOMAIN Unwalked[l] : Unwalked[l][i] = stack[k][j]
<1> DEFINE n == Len(stack)
           last == stack[n]
<1>1. /\ n \in Nat \ {0} /\ DOMAIN stack = 1..n
      /\ Last(stack) = last /\ last \in Seq(FieldType) /\ last # <<>>
      /\ Front(stack) \in Seq(Seq(FieldType)) /\ Len(Front(stack)) = n - 1
      /\ \A k \in 1..(n - 1) : Front(stack)[k] = stack[k]
  BY FrontAndLast
<1> HIDE DEF n, last
<1>3. /\ Tail(last) \in Seq(FieldType) /\ Head(last) \in FieldType /\ Head(last) = last[1]
      /\ Len(Tail(last)) = Len(last) - 1
      /\ \A j \in 1..Len(Tail(last)) : Tail(last)[j] = last[j + 1]
      /\ Len(last) \in Nat \ {0} /\ DOMAIN last = 1..Len(last)
      /\ DOMAIN Tail(last) = 1..Len(Tail(last))
  BY <1>1, HeadTailProperties, EmptySeq, LenProperties
<1>4. /\ Unwalked \in Seq(Seq(FieldType)) /\ Len(Unwalked) = n /\ DOMAIN Unwalked = 1..n
      /\ Unwalked[n] = Tail(last)
      /\ \A k \in 1..(n - 1) : Unwalked[k] = stack[k]
  <2>1. Unwalked = Append(Front(stack), Tail(last))
    BY <1>1 DEF Unwalked
  <2>2. /\ Unwalked \in Seq(Seq(FieldType)) /\ Len(Unwalked) = (n - 1) + 1
        /\ \A k \in 1..(n - 1) : Unwalked[k] = Front(stack)[k]
        /\ Unwalked[(n - 1) + 1] = Tail(last)
    BY <2>1, <1>1, <1>3, AppendProperties
  <2> QED BY <2>2, <1>1, LenProperties
<1>6. ASSUME NEW k \in DOMAIN stack, NEW j \in DOMAIN stack[k]
      PROVE \/ stack[k][j] = Walked
            \/ \E l \in DOMAIN Unwalked : \E i \in DOMAIN Unwalked[l] : Unwalked[l][i] = stack[k][j]
  <2>1. CASE k # n
    <3>1. k \in 1..(n - 1) /\ k \in 1..n
      BY <2>1, <1>1
    <3>2. k \in DOMAIN Unwalked /\ Unwalked[k] = stack[k]
      BY <3>1, <1>4
    <3> QED BY <3>2
  <2>2. CASE k = n
    <3>1. stack[k] = last /\ j \in 1..Len(last)
      BY <2>2, <1>3 DEF n, last
    <3>2. CASE j = 1
      BY <3>1, <3>2, <1>1, <1>3 DEF Walked
    <3>3. CASE j # 1
      <4>1. j - 1 \in DOMAIN Tail(last) /\ Tail(last)[j - 1] = last[j]
        BY <3>1, <3>3, <1>3
      <4>2. n \in DOMAIN Unwalked
        BY <1>1, <1>4
      <4> QED BY <4>1, <4>2, <3>1, <1>4
    <3> QED BY <3>2, <3>3
  <2> QED BY <2>1, <2>2
<1> QED BY <1>1, <1>3, <1>4, <1>6 DEF n, Walked

\* A sequence is one over its own elements.
LEMMA OwnElements ==
    ASSUME NEW T, NEW s \in Seq(T)
    PROVE s \in Seq({s[i] : i \in DOMAIN s})
<1>1. Len(s) \in Nat /\ s \in [1..Len(s) -> T]
  OBVIOUS
<1>2. s \in [1..Len(s) -> {s[i] : i \in DOMAIN s}]
  BY <1>1
<1>3. \A S : \A n \in Nat : \A f \in [1..n -> S] : f \in Seq(S)
  OBVIOUS
<1> QED BY <1>1, <1>2, <1>3

\* Before the first method nothing is registered and no call is in progress.
LEMMA WalkingInit == Init => Walking
<1> SUFFICES ASSUME Init PROVE Walking
  OBVIOUS
<1>1. stack \in Seq(Seq(FieldType)) /\ Len(stack) = 0 /\ Cardinality(messages) = 0
  BY FS_EmptySet DEF Init
<1> QED BY <1>1 DEF Init, Walking, Pending, Covered

\* Every step of materialization and of the methods keeps the invariant.
LEMMA WalkingNext == Walking /\ [Next]_vars => Walking'
<1> SUFFICES ASSUME Walking, [Next]_vars PROVE Walking'
  OBVIOUS
<1> USE DEF Walking
<1>0. proto' = proto
  BY DEF Next, vars, WalkField, Return, Input, Output, Refuse, Bind, Finish, Done
<1>1. CASE WalkField
  <2>1. /\ Unwalked \in Seq(Seq(FieldType)) /\ Len(Unwalked) = Len(stack)
        /\ Walked \in FieldType
        /\ \A k \in DOMAIN stack : \A j \in DOMAIN stack[k] :
              \/ stack[k][j] = Walked
              \/ \E l \in DOMAIN Unwalked :
                     \E i \in DOMAIN Unwalked[l] : Unwalked[l][i] = stack[k][j]
    BY <1>1, RestTyped DEF WalkField
  <2>2. /\ proto \in Protos /\ messages \subseteq Messages
        /\ Len(stack) <= Cardinality(messages) /\ Pending
    OBVIOUS
  <2>3. ASSUME NEW n \in messages, NEW i \in DOMAIN proto.fields[n],
               Opens(proto.fields[n][i])
        PROVE \/ proto.fields[n][i].type \in messages
              \/ proto.fields[n][i] = Walked
              \/ \E l \in DOMAIN Unwalked :
                     \E j \in DOMAIN Unwalked[l] : Unwalked[l][j] = proto.fields[n][i]
    <3> HIDE DEF Walking
    <3>1. CASE proto.fields[n][i].type \in messages
      BY <3>1
    <3>2. CASE \E k \in DOMAIN stack : \E j \in DOMAIN stack[k] :
                   stack[k][j] = proto.fields[n][i]
      BY <3>2, <2>1
    <3> QED BY <2>2, <2>3, <3>1, <3>2 DEF Pending, Covered
  <2>4. /\ messages' \subseteq Messages /\ stack' \in Seq(Seq(FieldType))
        /\ Len(stack') <= Cardinality(messages') /\ Pending'
    <3> HIDE DEF Walking
    <3>1. CASE Opens(Walked)
      <4>1. Walked.type \in Messages /\ Materialize(Walked.type, Unwalked)
        BY <3>1, <2>1, <1>1 DEF WalkField, Opens, FieldType, Walked, Unwalked
      <4>2. Covered(messages \cup {Walked.type}, Unwalked)
        BY <2>3 DEF Covered
      <4>3. Len(Unwalked) <= Cardinality(messages)
        BY <2>1, <2>2
      <4> QED BY <4>1, <4>2, <4>3, <2>1, <2>2, <1>0, MaterializeKeeps
    <3>2. CASE ~Opens(Walked)
      <4>1. stack' = Unwalked /\ messages' = messages
        BY <3>2, <1>1 DEF WalkField, Walked, Unwalked
      <4>2. Pending'
        BY <4>1, <3>2, <2>3, <1>0 DEF Pending, Covered, Opens
      <4> QED BY <4>1, <4>2, <2>1, <2>2
    <3> QED BY <3>1, <3>2
  <2> QED BY <1>0, <1>1, <2>4 DEF WalkField
<1>2. CASE Return
  <2>1. /\ Len(stack) \in Nat \ {0} /\ stack[Len(stack)] = <<>>
        /\ stack' \in Seq(Seq(FieldType)) /\ Len(stack') = Len(stack) - 1
        /\ \A k \in 1..(Len(stack) - 1) : stack'[k] = stack[k]
    BY <1>2, FrontAndLast DEF Return
  <2>2. \A k \in DOMAIN stack : \A j \in DOMAIN stack[k] :
            k \in DOMAIN stack' /\ stack'[k] = stack[k]
    <3> SUFFICES ASSUME NEW k \in DOMAIN stack, NEW j \in DOMAIN stack[k]
                 PROVE k \in DOMAIN stack' /\ stack'[k] = stack[k]
      OBVIOUS
    <3>1. k \in 1..Len(stack) /\ k # Len(stack)
      BY <2>1
    <3>2. k \in 1..(Len(stack) - 1)
      BY <3>1, <2>1
    <3>3. DOMAIN stack' = 1..(Len(stack) - 1)
      BY <2>1, LenProperties
    <3> QED BY <3>2, <3>3, <2>1
  <2>3. Pending'
    BY <1>0, <1>2, <2>2 DEF Pending, Covered, Return, Opens
  <2>4. Len(stack') <= Cardinality(messages)
    BY <2>1, FinitelyMany
  <2> QED BY <1>0, <1>2, <2>1, <2>3, <2>4 DEF Return
<1>3. CASE Input
  <2>1. Len(methods) \in Nat /\ Method.input \in Messages
    BY <1>3, Typed DEF Input, Method
  <2>2. /\ messages' \subseteq Messages /\ stack' \in Seq(Seq(FieldType))
        /\ Len(stack') <= Cardinality(messages') /\ Pending'
    <3>1. Materialize(Method.input, stack)
      BY <1>3 DEF Input
    <3>2. Covered(messages \cup {Method.input}, stack)
      BY DEF Pending, Covered
    <3> HIDE DEF Walking
    <3>3. proto \in Protos /\ messages \subseteq Messages
          /\ stack \in Seq(Seq(FieldType)) /\ Len(stack) <= Cardinality(messages)
      BY DEF Walking
    <3> QED BY <3>1, <3>2, <3>3, <2>1, <1>0, MaterializeKeeps
  <2> QED BY <1>0, <1>3, <2>2 DEF Input
<1>4. CASE Output
  <2>1. Len(methods) \in Nat /\ Method.output \in Messages
    BY <1>4, Typed DEF Output, Method
  <2>2. /\ messages' \subseteq Messages /\ stack' \in Seq(Seq(FieldType))
        /\ Len(stack') <= Cardinality(messages') /\ Pending'
    <3>1. Materialize(Method.output, stack)
      BY <1>4 DEF Output
    <3>2. Covered(messages \cup {Method.output}, stack)
      BY DEF Pending, Covered
    <3> HIDE DEF Walking
    <3>3. proto \in Protos /\ messages \subseteq Messages
          /\ stack \in Seq(Seq(FieldType)) /\ Len(stack) <= Cardinality(messages)
      BY DEF Walking
    <3> QED BY <3>1, <3>2, <3>3, <2>1, <1>0, MaterializeKeeps
  <2> QED BY <1>0, <1>4, <2>2 DEF Output
<1>5. CASE Refuse \/ Bind \/ Done \/ UNCHANGED vars
  BY <1>0, <1>5 DEF Refuse, Bind, Done, vars, Pending, Covered, Opens
<1>6. CASE Finish
  <2>1. PICK b : methods' = Append(methods, b)
    BY <1>6 DEF Finish
  <2>2. methods' \in Seq({methods[i] : i \in DOMAIN methods} \cup {b})
    <3> DEFINE S == {methods[i] : i \in DOMAIN methods}
    <3>1. methods \in Seq(S)
      OBVIOUS
    <3> HIDE DEF S
    <3>2. methods \in Seq(S \cup {b})
      BY <3>1
    <3> QED BY <3>2, <2>1 DEF S
  <2>3. methods' \in Seq({methods'[i] : i \in DOMAIN methods'})
    BY <2>2, OwnElements
  <2>4. phase' = "input" /\ messages' = messages /\ stack' = stack
    BY <1>6 DEF Finish
  <2>5. Pending'
    BY <1>0, <2>4 DEF Pending, Covered, Opens
  <2> QED BY <1>0, <2>3, <2>4, <2>5
<1> QED
  BY <1>1, <1>2, <1>3, <1>4, <1>5, <1>6 DEF Next

\* The parts of the walk that TLC also checks.
THEOREM WalkingAlways == Spec => []Walking
<1> QED BY WalkingInit, WalkingNext, PTL DEF Spec

\* However the messages refer to each other, b.message opens none inside itself,
\* so that materializing a recursive message ends (materialize.go:9-10).
THEOREM NoneOpenedInsideItself == Spec => []OpenedOnce
<1>1. Walking => OpenedOnce
  <2> SUFFICES ASSUME Walking PROVE OpenedOnce
    OBVIOUS
  <2>1. Len(stack) \in Nat /\ Len(stack) <= Cardinality(messages)
    BY DEF Walking
  <2> QED BY <2>1, FinitelyMany DEF Walking, OpenedOnce
<1> QED BY <1>1, WalkingAlways, PTL

\* Whenever method() reads b.messages, whatever a registered message holds is
\* registered, for every set of descriptors and every order of methods.
THEOREM HoldsOnlyRegistered == Spec => []Closed
<1>1. Walking => Closed
  BY DEF Walking, Pending, Covered, Closed, Opens
<1> QED BY <1>1, WalkingAlways, PTL

-----------------------------------------------------------------------------
(* Paths.                                                                  *)

\* The first n steps of a path.
Upto(p, n) == SubSeq(p, 1, n)

\* Prefixes of a path have the length and the steps one expects, and each but the
\* first is the one before it and one more step.
LEMMA PathPrefixes ==
    ASSUME NEW p \in Seq(Nat)
    PROVE  /\ Len(p) \in Nat /\ DOMAIN p = 1..Len(p)
           /\ Upto(p, 0) = <<>> /\ Upto(p, Len(p)) = p
           /\ \A n \in 0..Len(p) :
                 /\ Upto(p, n) \in Seq(Nat) /\ Len(Upto(p, n)) = n
                 /\ \A i \in 1..n : Upto(p, n)[i] = p[i]
           /\ \A n \in 1..Len(p) :
                 /\ Front(Upto(p, n)) = Upto(p, n - 1) /\ Last(Upto(p, n)) = p[n]
                 /\ Upto(p, n) = Append(Upto(p, n - 1), p[n])
<1>1. Len(p) \in Nat /\ DOMAIN p = 1..Len(p)
  BY LenProperties
<1>2. Upto(p, 0) = <<>> /\ Upto(p, Len(p)) = p
  BY SubSeqEmpty, SubSeqFull DEF Upto
<1>3. ASSUME NEW n \in 0..Len(p)
      PROVE  /\ Upto(p, n) \in Seq(Nat) /\ Len(Upto(p, n)) = n
             /\ \A i \in 1..n : Upto(p, n)[i] = p[i]
  <2>1. \A i \in 1..n : p[i] \in Nat
    BY <1>1, ElementOfSeq
  <2>2. 1 \in Int /\ n \in Int /\ n \in Nat
    BY <1>1
  <2>3. /\ Upto(p, n) \in Seq(Nat)
        /\ Len(Upto(p, n)) = IF 1 <= n THEN n - 1 + 1 ELSE 0
        /\ \A i \in 1..(n - 1 + 1) : Upto(p, n)[i] = p[1 + i - 1]
    BY <2>1, <2>2, SubSeqProperties DEF Upto
  <2> QED BY <2>2, <2>3
<1>4. ASSUME NEW n \in 1..Len(p)
      PROVE  /\ Front(Upto(p, n)) = Upto(p, n - 1) /\ Last(Upto(p, n)) = p[n]
             /\ Upto(p, n) = Append(Upto(p, n - 1), p[n])
  <2>1. n - 1 \in 0..Len(p) /\ n \in 0..Len(p) /\ n \in Nat /\ n - 1 \in Nat /\ (n - 1) + 1 = n
    BY <1>1
  <2>2. /\ Upto(p, n) \in Seq(Nat) /\ Len(Upto(p, n)) = n /\ Upto(p, n) # <<>>
        /\ \A i \in 1..n : Upto(p, n)[i] = p[i]
    BY <1>3, <2>1, EmptySeq
  <2>3. /\ Upto(p, n - 1) \in Seq(Nat) /\ Len(Upto(p, n - 1)) = n - 1
        /\ \A i \in 1..(n - 1) : Upto(p, n - 1)[i] = p[i]
    BY <1>3, <2>1
  <2>4. /\ Last(Upto(p, n)) = p[n]
        /\ Front(Upto(p, n)) \in Seq(Nat) /\ Len(Front(Upto(p, n))) = n - 1
        /\ \A i \in 1..(n - 1) : Front(Upto(p, n))[i] = p[i]
    <3>1. PICK q \in Seq(Nat) : q = Upto(p, n)
      BY <2>2
    <3>2. /\ Last(q) = q[n] /\ Front(q) \in Seq(Nat) /\ Len(Front(q)) = n - 1
          /\ \A i \in 1..(n - 1) : Front(q)[i] = q[i]
      BY <2>2, <3>1, FrontAndLast
    <3>3. q[n] = p[n] /\ \A i \in 1..(n - 1) : q[i] = p[i]
      BY <2>1, <2>2, <3>1
    <3> QED BY <3>1, <3>2, <3>3
  <2>5. Front(Upto(p, n)) = Upto(p, n - 1)
    <3>1. \A i \in 1..(n - 1) : Front(Upto(p, n))[i] = Upto(p, n - 1)[i]
      BY <2>3, <2>4
    <3>2. \A q, r \in Seq(Nat) :
              Len(q) = Len(r) /\ (\A i \in 1..Len(q) : q[i] = r[i]) => q = r
      BY SeqEqual
    <3> QED BY <2>3, <2>4, <3>1, <3>2
  <2>6. p[n] \in Nat
    BY ElementOfSeq
  <2>7. /\ Append(Upto(p, n - 1), p[n]) \in Seq(Nat)
        /\ Len(Append(Upto(p, n - 1), p[n])) = n
        /\ \A i \in 1..(n - 1) : Append(Upto(p, n - 1), p[n])[i] = p[i]
        /\ Append(Upto(p, n - 1), p[n])[n] = p[n]
    BY <2>1, <2>3, <2>6, AppendProperties
  <2>8. \A i \in 1..n : i = n \/ i \in 1..(n - 1)
    BY <2>1
  <2>9. \A i \in 1..n : Append(Upto(p, n - 1), p[n])[i] = p[i]
    BY <2>7, <2>8
  <2>10. Upto(p, n) = Append(Upto(p, n - 1), p[n])
    BY <2>2, <2>7, <2>9, SeqEqual
  <2> QED BY <2>4, <2>5, <2>10
<1> QED BY <1>1, <1>2, <1>3, <1>4

\* A prefix of a prefix of a path is a prefix of the path.
LEMMA PrefixOfPrefix ==
    ASSUME NEW p \in Seq(Nat), NEW n \in 0..Len(p), NEW k \in 0..n
    PROVE  Upto(Upto(p, n), k) = Upto(p, k)
<1>1. Len(p) \in Nat
  BY PathPrefixes
<1>2. n \in Nat /\ k \in 0..Len(p) /\ k \in Nat
  BY <1>1
<1>3. /\ Upto(p, n) \in Seq(Nat) /\ Len(Upto(p, n)) = n
      /\ \A i \in 1..n : Upto(p, n)[i] = p[i]
      /\ Upto(p, k) \in Seq(Nat) /\ Len(Upto(p, k)) = k
      /\ \A i \in 1..k : Upto(p, k)[i] = p[i]
  BY <1>2, PathPrefixes
<1>4. /\ Upto(Upto(p, n), k) \in Seq(Nat) /\ Len(Upto(Upto(p, n), k)) = k
      /\ \A i \in 1..k : Upto(Upto(p, n), k)[i] = Upto(p, n)[i]
  BY <1>3, PathPrefixes
<1>5. \A i \in 1..k : i \in 1..n
  BY <1>2
<1>6. \A i \in 1..k : Upto(Upto(p, n), k)[i] = Upto(p, k)[i]
  BY <1>3, <1>4, <1>5
<1> QED BY <1>3, <1>4, <1>6, SeqEqual

\* A field leads to a message, or to none.
LEMMA InnerTyped ==
    ASSUME proto \in Protos
    PROVE  \A type \in Messages \cup {NoMessage} : \A i :
               Inner(type, i) \in Messages \cup {NoMessage}
<1> SUFFICES ASSUME NEW type \in Messages \cup {NoMessage}, NEW i
             PROVE  Inner(type, i) \in Messages \cup {NoMessage}
  OBVIOUS
<1>1. CASE type # NoMessage /\ i \in DOMAIN proto.fields[type]
  <2>1. proto.fields[type] \in Seq(FieldType)
    BY <1>1, Typed
  <2>2. proto.fields[type][i] \in FieldType
    BY <1>1, <2>1
  <2> QED BY <2>2 DEF Inner, FieldType
<1>2. CASE ~(type # NoMessage /\ i \in DOMAIN proto.fields[type])
  BY <1>2 DEF Inner
<1> QED BY <1>1, <1>2

\* The messages a path leads through, from m on.
LEMMA ReachIsIteration ==
    ASSUME proto \in Protos, NEW m \in Messages, NEW p \in Seq(Nat)
    PROVE  \E f \in [0..Len(p) -> Messages \cup {NoMessage}] :
              /\ f[0] = m /\ f[Len(p)] = Reach(m, p)
              /\ \A i \in 1..Len(p) : f[i] = Inner(f[i - 1], p[i])
<1> DEFINE R == Messages \cup {NoMessage}
           step == [x \in ((0 + 1)..Len(p)) \X R |-> Inner(x[2], p[x[1]])]
           type[i \in 0..Len(p)] == IF i = 0 THEN m ELSE Inner(type[i - 1], p[i])
<1>1. Len(p) \in Nat /\ 0 + 1 = 1
  BY LenProperties
<1>2. step \in [((0 + 1)..Len(p)) \X R -> R]
  BY InnerTyped
<1>3. PICK f \in [0..Len(p) -> R] : IsIteration(f, 0, Len(p), m, step)
  <2>1. 0 \in Nat /\ 0 <= Len(p) /\ m \in R
    BY <1>1
  <2> HIDE DEF step, R, type
  <2> QED BY <1>1, <1>2, <2>1, IterationDefines
<1>4. ASSUME NEW i \in 1..Len(p)
      PROVE  f[i] = Inner(f[i - 1], p[i])
  <2>1. f[i] = step[<<i, f[i - 1]>>]
    BY <1>1, <1>3 DEF IsIteration
  <2>2. i - 1 \in 0..Len(p)
    BY <1>1
  <2>3. <<i, f[i - 1]>> \in ((0 + 1)..Len(p)) \X R
    BY <1>1, <1>3, <2>2
  <2> QED BY <2>1, <2>3
<1>5. f[0] = m
  BY <1>3 DEF IsIteration
<1>6. f = [i \in 0..Len(p) |-> IF i = 0 THEN m ELSE Inner(f[i - 1], p[i])]
  <2>1. \A i \in 0..Len(p) : i = 0 \/ i \in 1..Len(p)
    BY <1>1
  <2> HIDE DEF step, type
  <2> QED BY <1>3, <1>4, <1>5, <2>1
<1>7. type = [i \in 0..Len(p) |-> IF i = 0 THEN m ELSE Inner(type[i - 1], p[i])]
  BY <1>6
<1>8. Reach(m, p) = type[Len(p)]
  BY DEF Reach
<1> HIDE DEF type, step
<1>9. 0..Len(p) \subseteq {i \in 0..Len(p) : type[i] = f[i]}
  <2> DEFINE T == {i \in 0..Len(p) : type[i] = f[i]}
  <2>1. 0 \in T
    BY <1>1, <1>5, <1>7
  <2>2. ASSUME NEW i \in (0 + 1)..Len(p), i - 1 \in T PROVE i \in T
    <3>1. i \in 1..Len(p) /\ i \in 0..Len(p) /\ i # 0 /\ type[i - 1] = f[i - 1]
      BY <1>1, <2>2
    <3> QED BY <3>1, <1>4, <1>7
  <2> HIDE DEF T
  <2>3. 0..Len(p) \subseteq T
    BY <1>1, <2>1, <2>2, StepByStep
  <2> QED BY <2>3 DEF T
<1>10. type[Len(p)] = f[Len(p)]
  BY <1>1, <1>9
<1> QED BY <1>3, <1>4, <1>5, <1>8, <1>10

\* Following a path step by step leads where Reach says.
LEMMA ReachSteps ==
    ASSUME proto \in Protos, NEW m \in Messages, NEW p \in Seq(Nat)
    PROVE  /\ Reach(m, Upto(p, 0)) = m
           /\ \A n \in 0..Len(p) : Reach(m, Upto(p, n)) \in Messages \cup {NoMessage}
           /\ \A n \in 1..Len(p) :
                 Reach(m, Upto(p, n)) = Inner(Reach(m, Upto(p, n - 1)), p[n])
<1>1. Len(p) \in Nat
  BY PathPrefixes
<1>2. PICK f \in [0..Len(p) -> Messages \cup {NoMessage}] :
          f[0] = m /\ \A i \in 1..Len(p) : f[i] = Inner(f[i - 1], p[i])
  BY ReachIsIteration
<1>3. ASSUME NEW n \in 0..Len(p) PROVE Reach(m, Upto(p, n)) = f[n]
  <2>1. /\ n \in Nat /\ Upto(p, n) \in Seq(Nat) /\ Len(Upto(p, n)) = n
        /\ \A i \in 1..n : Upto(p, n)[i] = p[i]
    BY <1>1, PathPrefixes
  <2>2. PICK q \in Seq(Nat) : q = Upto(p, n)
    BY <2>1
  <2>3. PICK g \in [0..Len(q) -> Messages \cup {NoMessage}] :
            /\ g[0] = m /\ g[Len(q)] = Reach(m, q)
            /\ \A i \in 1..Len(q) : g[i] = Inner(g[i - 1], q[i])
    BY ReachIsIteration
  <2> DEFINE T == {i \in 0..n : g[i] = f[i]}
  <2>4. 0 \in T
    BY <1>2, <2>1, <2>3
  <2>5. ASSUME NEW i \in (0 + 1)..n, i - 1 \in T PROVE i \in T
    <3>1. i \in 1..n /\ i \in 0..n /\ i \in 1..Len(p) /\ g[i - 1] = f[i - 1]
      BY <1>1, <2>1, <2>5
    <3>2. g[i] = Inner(g[i - 1], q[i]) /\ q[i] = p[i]
      BY <3>1, <2>1, <2>2, <2>3
    <3> QED BY <3>1, <3>2, <1>2
  <2>6. 0..n \subseteq T
    <3> HIDE DEF T
    <3> QED BY <2>1, <2>4, <2>5, StepByStep
  <2>7. g[n] = f[n]
    BY <2>1, <2>6
  <2> QED BY <2>1, <2>2, <2>3, <2>7
<1>4. \A n \in 1..Len(p) : n \in 0..Len(p) /\ n - 1 \in 0..Len(p)
  BY <1>1
<1>5. 0 \in 0..Len(p)
  BY <1>1
<1>6. Reach(m, Upto(p, 0)) = m
  BY <1>2, <1>3, <1>5
<1>7. \A n \in 1..Len(p) : Reach(m, Upto(p, n)) = Inner(Reach(m, Upto(p, n - 1)), p[n])
  BY <1>2, <1>3, <1>4
<1> QED BY <1>2, <1>3, <1>6, <1>7

\* A prefix of a path names a field when its last step is a position in the message
\* the steps before lead to.
LEMMA StepOf ==
    ASSUME NEW m, NEW p \in Seq(Nat), NEW n \in 1..Len(p)
    PROVE  /\ FieldOf(m, Upto(p, n)) = proto.fields[Reach(m, Upto(p, n - 1))][p[n]]
           /\ Named(m, Upto(p, n)) <=>
                 /\ Reach(m, Upto(p, n - 1)) # NoMessage
                 /\ p[n] \in DOMAIN proto.fields[Reach(m, Upto(p, n - 1))]
<1>1. Front(Upto(p, n)) = Upto(p, n - 1) /\ Last(Upto(p, n)) = p[n]
  BY PathPrefixes
<1> QED BY <1>1 DEF FieldOf, Named

\* What b.messages finds along a path.
LEMMA AlongSteps ==
    ASSUME proto \in Protos, messages \subseteq Messages, NEW m \in Messages, NEW p \in Seq(Nat)
    PROVE  /\ Along(m, p)[1] = m
           /\ \A i \in 2..Len(p) : Along(m, p)[i] = Held(Along(m, p)[i - 1], p[i - 1])
<1> DEFINE R == Messages \cup {NoMessage}
           n == Len(p) + 1
           step == [x \in ((1 + 1)..n) \X R |-> Held(x[2], p[x[1] - 1])]
           type[i \in 1..n] == IF i = 1 THEN m ELSE Held(type[i - 1], p[i - 1])
<1>1. Len(p) \in Nat /\ n \in Nat /\ 1 \in Nat /\ 1 <= n /\ 1 + 1 = 2
  BY LenProperties
<1>2. \A t \in R : \A i : Held(t, i) \in R
  <2> SUFFICES ASSUME NEW t \in R, NEW i PROVE Held(t, i) \in R
    OBVIOUS
  <2>1. CASE t \in messages /\ i \in DOMAIN proto.fields[t]
    <3>1. proto.fields[t] \in Seq(FieldType)
      BY <2>1, Typed
    <3>2. proto.fields[t][i] \in FieldType
      BY <2>1, <3>1
    <3> QED BY <3>2 DEF Held, FieldType
  <2>2. CASE ~(t \in messages /\ i \in DOMAIN proto.fields[t])
    BY <2>2 DEF Held
  <2> QED BY <2>1, <2>2
<1>3. step \in [((1 + 1)..n) \X R -> R]
  BY <1>2
<1>4. PICK f \in [1..n -> R] : IsIteration(f, 1, n, m, step)
  <2>1. m \in R
    OBVIOUS
  <2> HIDE DEF step, R, type, n
  <2> QED BY <1>1, <1>3, <2>1, IterationDefines
<1>5. ASSUME NEW i \in 2..n PROVE f[i] = Held(f[i - 1], p[i - 1])
  <2>1. i - 1 \in 1..n /\ i \in (1 + 1)..n
    BY <1>1, <1>5
  <2>2. f[i] = step[<<i, f[i - 1]>>]
    BY <1>4, <2>1 DEF IsIteration
  <2>3. <<i, f[i - 1]>> \in ((1 + 1)..n) \X R
    BY <1>4, <2>1
  <2> QED BY <2>2, <2>3
<1>6. f[1] = m
  BY <1>4 DEF IsIteration
<1>7. f = [i \in 1..n |-> IF i = 1 THEN m ELSE Held(f[i - 1], p[i - 1])]
  <2>1. \A i \in 1..n : i = 1 \/ i \in 2..n
    BY <1>1
  <2> HIDE DEF step, type, n
  <2> QED BY <1>4, <1>5, <1>6, <2>1
<1>8. type = [i \in 1..n |-> IF i = 1 THEN m ELSE Held(type[i - 1], p[i - 1])]
  BY <1>7
<1>9. Along(m, p) = type
  BY DEF Along
<1> HIDE DEF type, step
<1>10. \A i \in 2..Len(p) : i \in 1..n /\ i # 1
  BY <1>1
<1>11. 1 \in 1..n
  BY <1>1
<1> HIDE DEF n
<1> QED BY <1>8, <1>9, <1>10, <1>11

\* Every step of a path names a field of a registered message, and every step but
\* the last is a singular message.
Walks(m, p) ==
    \A n \in 1..Len(p) :
        /\ Reach(m, Upto(p, n - 1)) \in messages
        /\ p[n] \in DOMAIN proto.fields[Reach(m, Upto(p, n - 1))]
        /\ n < Len(p) => Descends(FieldOf(m, Upto(p, n)))

\* In the table, a registered message holds under a singular field what the
\* descriptors say that field leads to.
LEMMA HeldIsInner ==
    ASSUME messages \subseteq Messages, NEW t \in messages, NEW i \in DOMAIN proto.fields[t],
           ~proto.fields[t][i].repeated
    PROVE  Held(t, i) = Inner(t, i)
<1>1. t # NoMessage
  BY MessagesAssumption
<1> QED BY <1>1 DEF Held, Inner, Descends

\* resolveFieldPath finds, through b.messages, what the descriptors say.
LEMMA ResolvesIsWalk ==
    ASSUME proto \in Protos, messages \subseteq Messages, NEW m \in Messages,
           NEW p \in Seq(Nat), p # <<>>
    PROVE  /\ Resolves(m, p) <=> Walks(m, p)
           /\ Resolves(m, p) => Leaf(m, p) = FieldOf(m, p)
<1> DEFINE at(i) == Reach(m, Upto(p, i - 1))
           Same == {i \in 1..Len(p) : Along(m, p)[i] = at(i)}
<1>1. Len(p) \in Nat \ {0} /\ DOMAIN p = 1..Len(p) /\ Upto(p, Len(p)) = p
  BY EmptySeq, LenProperties, PathPrefixes
<1>2. 1 \in Same
  <2>1. 1 \in 1..Len(p) /\ 1 - 1 = 0
    BY <1>1
  <2>2. Along(m, p)[1] = m /\ at(1) = m
    BY <2>1, AlongSteps, ReachSteps
  <2> QED BY <2>1, <2>2
<1>3. ASSUME NEW i \in (1 + 1)..Len(p), i - 1 \in Same,
             at(i - 1) \in messages, p[i - 1] \in DOMAIN proto.fields[at(i - 1)],
             ~proto.fields[at(i - 1)][p[i - 1]].repeated
      PROVE  i \in Same
  <2>1. i \in 2..Len(p) /\ i \in 1..Len(p) /\ i - 1 \in 1..Len(p)
    BY <1>1, <1>3
  <2>2. Along(m, p)[i] = Held(at(i - 1), p[i - 1])
    BY <1>3, <2>1, AlongSteps
  <2>3. Held(at(i - 1), p[i - 1]) = Inner(at(i - 1), p[i - 1])
    <3> HIDE DEF at
    <3> QED BY <1>3, HeldIsInner
  <2>4. at(i) = Inner(at(i - 1), p[i - 1])
    BY <2>1, ReachSteps
  <2> QED BY <2>1, <2>2, <2>3, <2>4
<1>4. \A i \in 1..Len(p) : FieldOf(m, Upto(p, i)) = proto.fields[at(i)][p[i]]
  BY StepOf
<1>5. \A i \in (1 + 1)..Len(p) : i - 1 \in 1..Len(p) /\ i - 1 < Len(p)
  BY <1>1
<1>6. ASSUME Resolves(m, p)
      PROVE  Walks(m, p) /\ Leaf(m, p) = FieldOf(m, p)
  <2>1. \A i \in 1..Len(p) :
            /\ Along(m, p)[i] \in messages
            /\ p[i] \in DOMAIN proto.fields[Along(m, p)[i]]
            /\ i < Len(p) => ~proto.fields[Along(m, p)[i]][p[i]].repeated
    BY <1>1, <1>6 DEF Resolves, FieldAt
  <2>2. \A i \in (1 + 1)..Len(p) : i - 1 \in Same => i \in Same
    <3> SUFFICES ASSUME NEW i \in (1 + 1)..Len(p), i - 1 \in Same PROVE i \in Same
      OBVIOUS
    <3>1. Along(m, p)[i - 1] = at(i - 1)
      OBVIOUS
    <3> QED BY <1>3, <1>5, <2>1, <3>1
  <2>3. 1..Len(p) \subseteq Same
    <3> HIDE DEF Same
    <3> QED BY <1>1, <1>2, <2>2, StepByStep
  <2>4. \A i \in 1..Len(p) : Along(m, p)[i] = at(i)
    BY <2>3
  <2>5. ASSUME NEW n \in 1..Len(p), n < Len(p)
        PROVE  Descends(FieldOf(m, Upto(p, n)))
    <3>1. n + 1 \in 1..Len(p) /\ n + 1 \in 2..Len(p) /\ (n + 1) - 1 = n
      BY <1>1, <2>5
    <3>2. Held(at(n), p[n]) \in messages
      BY <2>1, <2>4, <3>1, AlongSteps
    <3>3. Held(at(n), p[n]) # NoMessage
      BY <3>2, MessagesAssumption
    <3>4. proto.fields[at(n)][p[n]].kind = "message"
      <4> HIDE DEF at
      <4> QED BY <3>3 DEF Held
    <3> QED BY <1>4, <2>1, <2>4, <2>5, <3>4 DEF Descends
  <2>6. Walks(m, p)
    BY <2>1, <2>4, <2>5 DEF Walks
  <2>7. Leaf(m, p) = FieldOf(m, p)
    <3>1. Len(p) \in 1..Len(p)
      BY <1>1
    <3> QED BY <1>1, <1>4, <2>4, <3>1 DEF Leaf, FieldAt
  <2> QED BY <2>6, <2>7
<1>7. ASSUME Walks(m, p)
      PROVE  Resolves(m, p)
  <2>1. \A i \in 1..Len(p) :
            /\ at(i) \in messages
            /\ p[i] \in DOMAIN proto.fields[at(i)]
            /\ i < Len(p) => ~proto.fields[at(i)][p[i]].repeated
    BY <1>4, <1>7 DEF Walks, Descends
  <2>2. \A i \in (1 + 1)..Len(p) : i - 1 \in Same => i \in Same
    BY <1>3, <1>5, <2>1
  <2>3. 1..Len(p) \subseteq Same
    <3> HIDE DEF Same
    <3> QED BY <1>1, <1>2, <2>2, StepByStep
  <2>4. \A i \in 1..Len(p) : Along(m, p)[i] = at(i)
    BY <2>3
  <2> QED BY <1>1, <2>1, <2>4 DEF Resolves, FieldAt
<1> QED BY <1>6, <1>7

\* The fields along a path are its prefixes, and all but the whole are around it.
LEMMA StepsAreUpto ==
    ASSUME NEW p \in Seq(Nat)
    PROVE  /\ Steps(p) = {Upto(p, n) : n \in 1..Len(p)}
           /\ \A n \in 1..Len(p) : n < Len(p) => Upto(p, n) \in Inside(p)
<1>1. DOMAIN p = 1..Len(p) /\ Len(p) \in Nat
  BY LenProperties
<1>2. Steps(p) = {Upto(p, n) : n \in 1..Len(p)}
  BY <1>1 DEF Steps, Upto
<1>3. ASSUME NEW n \in 1..Len(p), n < Len(p) PROVE Upto(p, n) \in Inside(p)
  <2>1. n \in 0..Len(p)
    BY <1>1
  <2>2. Len(Upto(p, n)) = n
    BY <2>1, PathPrefixes
  <2>3. Upto(p, n) # p
    BY <1>1, <1>3, <2>2
  <2> QED BY <1>2, <2>3 DEF Inside
<1> QED BY <1>2, <1>3

\* One more step makes a path that is one longer and has one more field along it.
LEMMA Appended ==
    ASSUME NEW path \in Seq(Nat), NEW i \in Nat
    PROVE  /\ Append(path, i) \in Seq(Nat) /\ Append(path, i) # <<>>
           /\ Front(Append(path, i)) = path /\ Last(Append(path, i)) = i
           /\ Steps(Append(path, i)) = Steps(path) \cup {Append(path, i)}
           /\ Len(Append(path, i)) = Len(path) + 1
           /\ Upto(Append(path, i), Len(path)) = path
<1>1. PICK q \in Seq(Nat) : q = Append(path, i)
  BY AppendProperties
<1>2. Len(path) \in Nat
  BY LenProperties
<1>3. /\ Len(q) = Len(path) + 1 /\ q[Len(path) + 1] = i /\ q # <<>>
      /\ \A j \in 1..Len(path) : q[j] = path[j]
  BY <1>1, AppendProperties
<1>4. Len(path) \in 0..Len(q) /\ Len(q) \in 1..Len(q) /\ Len(q) - 1 = Len(path)
  BY <1>2, <1>3
<1>5. /\ Upto(q, Len(path)) \in Seq(Nat) /\ Len(Upto(q, Len(path))) = Len(path)
      /\ \A j \in 1..Len(path) : Upto(q, Len(path))[j] = q[j]
      /\ Front(Upto(q, Len(q))) = Upto(q, Len(q) - 1) /\ Last(Upto(q, Len(q))) = q[Len(q)]
      /\ Upto(q, Len(q)) = q
  BY <1>4, PathPrefixes
<1>6. Upto(q, Len(path)) = path
  <2>1. \A j \in 1..Len(path) : Upto(q, Len(path))[j] = path[j]
    BY <1>3, <1>5
  <2> QED BY <1>5, <2>1, SeqEqual
<1>7. Front(q) = path /\ Last(q) = i
  BY <1>3, <1>4, <1>5, <1>6
<1>8. \A n \in 1..Len(path) : Upto(q, n) = Upto(path, n)
  <2> SUFFICES ASSUME NEW n \in 1..Len(path) PROVE Upto(q, n) = Upto(path, n)
    OBVIOUS
  <2>1. n \in 0..Len(path)
    BY <1>2
  <2>2. Upto(Upto(q, Len(path)), n) = Upto(q, n)
    BY <1>4, <2>1, PrefixOfPrefix
  <2> QED BY <2>2, <1>6
<1>9. Steps(q) = Steps(path) \cup {q}
  <2>1. \A n \in 1..Len(q) : n = Len(q) \/ n \in 1..Len(path)
    BY <1>2, <1>3
  <2>2. \A n \in 1..Len(path) : n \in 1..Len(q)
    BY <1>2, <1>3
  <2>3. Len(q) \in 1..Len(q) /\ Upto(q, Len(q)) = q
    BY <1>4, <1>5
  <2>4. /\ Steps(q) = {Upto(q, n) : n \in 1..Len(q)}
        /\ Steps(path) = {Upto(path, n) : n \in 1..Len(path)}
    BY StepsAreUpto
  <2>5. \A s \in Steps(q) : s \in Steps(path) \cup {q}
    BY <1>8, <2>1, <2>3, <2>4
  <2>6. \A s \in Steps(path) \cup {q} : s \in Steps(q)
    BY <1>8, <2>2, <2>3, <2>4
  <2> QED BY <2>5, <2>6
<1> QED BY <1>1, <1>3, <1>6, <1>7, <1>9

\* The steps of a named path that are not its last are singular messages.
LEMMA NamedSteps ==
    ASSUME proto \in Protos, NEW m \in Messages, NEW p \in Seq(Nat), p # <<>>, Named(m, p)
    PROVE  \A n \in 1..Len(p) :
              /\ Reach(m, Upto(p, n - 1)) \in Messages
              /\ p[n] \in DOMAIN proto.fields[Reach(m, Upto(p, n - 1))]
              /\ n < Len(p) => /\ Descends(FieldOf(m, Upto(p, n)))
                               /\ FieldOf(m, Upto(p, n)).type = Reach(m, Upto(p, n))
<1> DEFINE at(n) == Reach(m, Upto(p, n))
<1>1. Len(p) \in Nat \ {0} /\ Upto(p, Len(p)) = p
  BY EmptySeq, PathPrefixes
<1>2. /\ \A n \in 0..Len(p) : at(n) \in Messages \cup {NoMessage}
      /\ \A n \in 1..Len(p) : at(n) = Inner(at(n - 1), p[n])
  BY ReachSteps
<1>3. at(Len(p) - 1) # NoMessage /\ p[Len(p)] \in DOMAIN proto.fields[at(Len(p) - 1)]
  <2>1. Len(p) \in 1..Len(p)
    BY <1>1
  <2> QED BY <1>1, <2>1, StepOf
<1> HIDE DEF at
<1>4. ASSUME NEW k \in 0..(Len(p) - 1) PROVE at(k) # NoMessage
  <2> SUFFICES ASSUME at(k) = NoMessage PROVE FALSE
    OBVIOUS
  <2> DEFINE T == {n \in k..(Len(p) - 1) : at(n) = NoMessage}
  <2>1. k \in Nat /\ Len(p) - 1 \in Nat /\ Len(p) - 1 \in k..(Len(p) - 1)
    BY <1>1
  <2>2. k \in T
    BY <2>1
  <2>3. \A n \in (k + 1)..(Len(p) - 1) : n - 1 \in T => n \in T
    <3> SUFFICES ASSUME NEW n \in (k + 1)..(Len(p) - 1), n - 1 \in T PROVE n \in T
      OBVIOUS
    <3>1. n \in 1..Len(p) /\ n \in k..(Len(p) - 1)
      BY <2>1, <1>1
    <3>2. at(n) = Inner(NoMessage, p[n])
      BY <1>2, <3>1
    <3> QED BY <3>1, <3>2 DEF Inner
  <2>4. k..(Len(p) - 1) \subseteq T
    <3> HIDE DEF T
    <3> QED BY <2>1, <2>2, <2>3, StepByStep, ZenonT(30)
  <2> QED BY <1>3, <2>1, <2>4
<1>5. ASSUME NEW n \in 1..Len(p)
      PROVE  /\ at(n - 1) \in Messages /\ p[n] \in DOMAIN proto.fields[at(n - 1)]
             /\ n < Len(p) => /\ Descends(proto.fields[at(n - 1)][p[n]])
                              /\ proto.fields[at(n - 1)][p[n]].type = at(n)
  <2>1. n - 1 \in 0..(Len(p) - 1) /\ n - 1 \in 0..Len(p)
    BY <1>1
  <2>2. at(n - 1) \in Messages
    BY <1>2, <1>4, <2>1
  <2>3. CASE n = Len(p)
    BY <1>1, <1>3, <2>2, <2>3
  <2>4. CASE n # Len(p)
    <3>1. n \in 0..(Len(p) - 1)
      BY <1>1, <2>4
    <3>2. Inner(at(n - 1), p[n]) # NoMessage /\ at(n) = Inner(at(n - 1), p[n])
      BY <1>2, <1>4, <3>1
    <3> QED BY <2>2, <3>2 DEF Inner
  <2> QED BY <2>3, <2>4
<1>6. \A n \in 1..Len(p) : FieldOf(m, Upto(p, n)) = proto.fields[at(n - 1)][p[n]]
  BY StepOf DEF at
<1> QED BY <1>5, <1>6 DEF at

\* In a closed table, resolveFieldPath can walk to whatever is named and not
\* inside a well-known type.
LEMMA NamedWalks ==
    ASSUME proto \in Protos, messages \subseteq Messages, Closed, stack = <<>>,
           NEW m \in messages, NEW p \in Seq(Nat), p # <<>>, Named(m, p),
           \A s \in Inside(p) : FieldOf(m, s).type \notin WellKnown
    PROVE  Walks(m, p)
<1> DEFINE at(n) == Reach(m, Upto(p, n))
           T == {n \in 0..(Len(p) - 1) : at(n) \in messages}
<1>1. Len(p) \in Nat \ {0}
  BY EmptySeq
<1>2. m \in Messages
  OBVIOUS
<1>3. \A n \in 1..Len(p) :
          /\ at(n - 1) \in Messages
          /\ p[n] \in DOMAIN proto.fields[at(n - 1)]
          /\ n < Len(p) => /\ Descends(FieldOf(m, Upto(p, n)))
                           /\ FieldOf(m, Upto(p, n)).type = at(n)
  BY <1>2, NamedSteps
<1>4. \A n \in 1..Len(p) : FieldOf(m, Upto(p, n)) = proto.fields[at(n - 1)][p[n]]
  BY StepOf
<1>5. 0 \in T
  BY <1>1, <1>2, ReachSteps
<1>6. \A n \in (0 + 1)..(Len(p) - 1) : n - 1 \in T => n \in T
  <2> SUFFICES ASSUME NEW n \in (0 + 1)..(Len(p) - 1), n - 1 \in T PROVE n \in T
    OBVIOUS
  <2>1. n \in 1..Len(p) /\ n < Len(p) /\ n \in 0..(Len(p) - 1) /\ n + 1 \in 1..Len(p)
        /\ (n + 1) - 1 = n
    BY <1>1
  <2>2. at(n - 1) \in messages
    OBVIOUS
  <2> HIDE DEF at
  <2>3. FieldOf(m, Upto(p, n)).type \in messages \cup WellKnown \cup {NoMessage}
    BY <1>3, <1>4, <2>1, <2>2 DEF Closed
  <2>4. FieldOf(m, Upto(p, n)).type \notin WellKnown
    BY <2>1, StepsAreUpto
  <2>5. at(n) \in Messages
    BY <1>3, <2>1
  <2>6. at(n) # NoMessage
    BY <2>5, MessagesAssumption
  <2> QED BY <1>3, <2>1, <2>3, <2>4, <2>6
<1>7. 0..(Len(p) - 1) \subseteq T
  <2>1. PICK n \in Nat : n = Len(p) - 1
    BY <1>1
  <2> HIDE DEF T
  <2>2. 0 \in T /\ \A i \in (0 + 1)..n : i - 1 \in T => i \in T
    BY <1>5, <1>6, <2>1
  <2>3. 0..n \subseteq T
    BY <2>2, StepByStep
  <2> QED BY <2>1, <2>3
<1>8. \A n \in 1..Len(p) : n - 1 \in 0..(Len(p) - 1)
  BY <1>1
<1> QED BY <1>3, <1>7, <1>8 DEF Walks

-----------------------------------------------------------------------------
(* The query walk.                                                         *)

\* The calls of walkQueryable: a message and the path to it.
Calls == [msg : Messages, path : Seq(Nat)]

\* The calls of walkQueryable one level deeper are calls.
LEMMA DeeperTyped ==
    ASSUME proto \in Protos, messages \subseteq Messages, NEW rule, NEW calls \in SUBSET Calls
    PROVE  Deeper(rule, calls) \in SUBSET Calls
<1> SUFFICES ASSUME NEW c \in calls, NEW i \in EnteredBy(rule, c)
             PROVE  [msg |-> proto.fields[c.msg][i].type, path |-> Append(c.path, i)] \in Calls
  BY DEF Deeper
<1>1. c.msg \in Messages /\ c.path \in Seq(Nat)
  BY DEF Calls
<1>2. i \in DOMAIN proto.fields[c.msg] /\ proto.fields[c.msg][i].type \in messages
  BY DEF EnteredBy
<1>3. i \in Nat
  <2>1. proto.fields[c.msg] \in Seq(FieldType)
    BY <1>1, Typed
  <2> QED BY <1>2, <2>1
<1>4. Append(c.path, i) \in Seq(Nat)
  BY <1>1, <1>3, AppendProperties
<1> QED BY <1>2, <1>4 DEF Calls

\* A field that walkQueryable enters is a call one level deeper.
LEMMA GoesDeeper ==
    ASSUME NEW rule, NEW calls, NEW c \in calls, NEW i \in EnteredBy(rule, c)
    PROVE  [msg |-> proto.fields[c.msg][i].type, path |-> Append(c.path, i)] \in Deeper(rule, calls)
<1> DEFINE made(e) == {[msg |-> proto.fields[e.msg][j].type, path |-> Append(e.path, j)] :
                          j \in EnteredBy(rule, e)}
<1>1. Deeper(rule, calls) = UNION {made(e) : e \in calls}
  BY DEF Deeper
<1>2. [msg |-> proto.fields[c.msg][i].type, path |-> Append(c.path, i)] \in made(c)
  OBVIOUS
<1> HIDE DEF made
<1> QED BY <1>1, <1>2

\* The calls at each depth are those the calls one level up make.
LEMMA EnteredSteps ==
    ASSUME proto \in Protos, messages \subseteq Messages, NEW m \in Messages, NEW rule
    PROVE  /\ Entered(m, rule)[0] = {[msg |-> m, path |-> <<>>]}
           /\ \A d \in 1..MaxQueryDepth : Entered(m, rule)[d] = Deeper(rule, Entered(m, rule)[d - 1])
           /\ \A d \in 0..MaxQueryDepth : Entered(m, rule)[d] \subseteq Calls
<1> DEFINE R == SUBSET Calls
           n == MaxQueryDepth
           top == {[msg |-> m, path |-> <<>>]}
           step == [x \in ((0 + 1)..n) \X R |-> Deeper(rule, x[2])]
           calls[d \in 0..n] == IF d = 0 THEN top ELSE Deeper(rule, calls[d - 1])
<1>1. n \in Nat /\ 0 \in Nat /\ 0 <= n /\ 0 + 1 = 1 /\ 0 \in 0..n
  BY DepthAssumption
<1>2. top \in R
  <2>1. <<>> \in Seq(Nat)
    BY EmptySeq
  <2> QED BY <2>1 DEF Calls
<1>3. step \in [((0 + 1)..n) \X R -> R]
  <2>1. \A c \in R : Deeper(rule, c) \in R
    BY DeeperTyped
  <2> HIDE DEF R, n
  <2> QED BY <2>1
<1>4. PICK f \in [0..n -> R] : IsIteration(f, 0, n, top, step)
  <2> HIDE DEF R, n, top, step, calls
  <2> QED BY <1>1, <1>2, <1>3, IterationDefines
<1>5. ASSUME NEW d \in 1..n PROVE f[d] = Deeper(rule, f[d - 1])
  <2>1. d \in (0 + 1)..n /\ d - 1 \in 0..n
    BY <1>1
  <2> HIDE DEF R, n, top
  <2>2. f[d] = step[<<d, f[d - 1]>>]
    BY <1>4, <2>1 DEF IsIteration
  <2>3. <<d, f[d - 1]>> \in ((0 + 1)..n) \X R
    BY <1>4, <2>1
  <2> QED BY <2>2, <2>3
<1>6. f[0] = top
  BY <1>4 DEF IsIteration
<1>7. \A d \in 0..n : d = 0 \/ d \in 1..n
  BY <1>1
<1>8. f = [d \in 0..n |-> IF d = 0 THEN top ELSE Deeper(rule, f[d - 1])]
  <2> HIDE DEF R, n, top, step, calls
  <2> QED BY <1>4, <1>5, <1>6, <1>7
<1>9. calls = [d \in 0..n |-> IF d = 0 THEN top ELSE Deeper(rule, calls[d - 1])]
  BY <1>8
<1>10. Entered(m, rule) = calls
  BY DEF Entered
<1> HIDE DEF R, n, top, step, calls
<1>11. /\ calls[0] = top
       /\ \A d \in 1..n : d \in 0..n /\ d # 0 /\ calls[d] = Deeper(rule, calls[d - 1])
  <2>1. \A d \in 1..n : d \in 0..n /\ d # 0
    BY <1>1
  <2> QED BY <1>1, <1>9, <2>1
<1>12. \A d \in 0..n : calls[d] \in R
  <2> DEFINE T == {d \in 0..n : calls[d] \in R}
  <2>1. 0 \in T
    BY <1>1, <1>2, <1>11
  <2>2. \A d \in (0 + 1)..n : d - 1 \in T => d \in T
    <3> SUFFICES ASSUME NEW d \in (0 + 1)..n, d - 1 \in T PROVE d \in T
      OBVIOUS
    <3>1. d \in 1..n /\ d \in 0..n /\ calls[d - 1] \in R
      BY <1>1, <1>7
    <3> QED BY <3>1, <1>11, DeeperTyped DEF R
  <2>3. 0..n \subseteq T
    <3> HIDE DEF T
    <3> QED BY <1>1, <2>1, <2>2, StepByStep
  <2> QED BY <2>3
<1> QED BY <1>10, <1>11, <1>12 DEF n, R, top

\* What the service sets is not along the path, nor what the rule binds.
Unclaimed(m, rule, p) ==
    \A s \in Steps(p) : ~FieldOf(m, s).outputOnly /\ s \notin Bound(rule)

\* A field the walk asks about is unclaimed if all around it is.
LEMMA UnclaimedAppend ==
    ASSUME proto \in Protos, NEW m \in Messages, NEW rule, NEW path \in Seq(Nat), NEW i \in Nat,
           Unclaimed(m, rule, path), Asked(rule, proto.fields[Reach(m, path)][i], Append(path, i))
    PROVE  /\ Unclaimed(m, rule, Append(path, i))
           /\ FieldOf(m, Append(path, i)) = proto.fields[Reach(m, path)][i]
<1>1. FieldOf(m, Append(path, i)) = proto.fields[Reach(m, path)][i]
  BY Appended DEF FieldOf
<1>2. Steps(Append(path, i)) = Steps(path) \cup {Append(path, i)}
  BY Appended
<1> QED BY <1>1, <1>2 DEF Unclaimed, Asked

\* One more step leads into what the last field holds.
LEMMA ReachAppend ==
    ASSUME proto \in Protos, NEW m \in Messages, NEW path \in Seq(Nat), NEW i \in Nat
    PROVE  Reach(m, Append(path, i)) = Inner(Reach(m, path), i)
<1>1. PICK q \in Seq(Nat) : q = Append(path, i)
  BY Appended
<1>2. Len(path) \in Nat /\ Len(q) = Len(path) + 1 /\ Last(q) = i /\ Upto(q, Len(path)) = path
  BY <1>1, Appended, LenProperties
<1>3. Len(q) \in 1..Len(q) /\ Len(q) - 1 = Len(path)
  BY <1>2
<1>4. Upto(q, Len(q)) = q /\ q[Len(q)] = i
  BY <1>2, PathPrefixes DEF Last
<1>5. Reach(m, Upto(q, Len(q))) = Inner(Reach(m, Upto(q, Len(q) - 1)), q[Len(q)])
  BY <1>3, ReachSteps
<1> QED BY <1>1, <1>2, <1>3, <1>4, <1>5

\* Every call is for the message its path leads to, past nothing that is bound or
\* the service's to set.
LEMMA CallsAreUnclaimed ==
    ASSUME proto \in Protos, messages \subseteq Messages, NEW m \in Messages, NEW rule
    PROVE  \A d \in 0..MaxQueryDepth : \A c \in Entered(m, rule)[d] :
               c.msg = Reach(m, c.path) /\ Unclaimed(m, rule, c.path)
<1> DEFINE Fine(c) == c.msg = Reach(m, c.path) /\ Unclaimed(m, rule, c.path)
           T == {d \in 0..MaxQueryDepth : \A c \in Entered(m, rule)[d] : Fine(c)}
<1>1. MaxQueryDepth \in Nat /\ 0 \in Nat /\ 0 \in 0..MaxQueryDepth
  BY DepthAssumption
<1>2. 0 \in T
  <2>1. <<>> \in Seq(Nat) /\ Len(<<>>) = 0
    BY EmptySeq
  <2>2. Reach(m, <<>>) = m
    BY <2>1, ReachSteps, PathPrefixes, ZenonT(30)
  <2>3. Steps(<<>>) = {}
    BY <2>1 DEF Steps
  <2> QED BY <1>1, <2>2, <2>3, EnteredSteps DEF Unclaimed
<1>3. \A d \in (0 + 1)..MaxQueryDepth : d - 1 \in T => d \in T
  <2> SUFFICES ASSUME NEW d \in (0 + 1)..MaxQueryDepth, d - 1 \in T PROVE d \in T
    OBVIOUS
  <2>1. d \in 1..MaxQueryDepth /\ d \in 0..MaxQueryDepth /\ d - 1 \in 0..MaxQueryDepth
    BY <1>1
  <2>2. ASSUME NEW e \in Entered(m, rule)[d] PROVE Fine(e)
    <3>1. PICK c \in Entered(m, rule)[d - 1] : \E i \in EnteredBy(rule, c) :
              e = [msg |-> proto.fields[c.msg][i].type, path |-> Append(c.path, i)]
      BY <2>1, <2>2, EnteredSteps DEF Deeper
    <3>2. PICK i \in EnteredBy(rule, c) :
              e = [msg |-> proto.fields[c.msg][i].type, path |-> Append(c.path, i)]
      BY <3>1
    <3>3. /\ c.msg \in Messages /\ c.path \in Seq(Nat)
          /\ c.msg = Reach(m, c.path) /\ Unclaimed(m, rule, c.path)
      BY <2>1, <3>1, EnteredSteps DEF Calls
    <3>4. /\ i \in DOMAIN proto.fields[c.msg] /\ Descends(proto.fields[c.msg][i])
          /\ Asked(rule, proto.fields[c.msg][i], Append(c.path, i))
      BY <3>2 DEF EnteredBy
    <3>5. i \in Nat
      <4>1. proto.fields[c.msg] \in Seq(FieldType)
        BY <3>3, Typed
      <4> QED BY <3>4, <4>1
    <3>6. Unclaimed(m, rule, Append(c.path, i))
      BY <3>3, <3>4, <3>5, UnclaimedAppend
    <3>7. Reach(m, Append(c.path, i)) = proto.fields[c.msg][i].type
      <4>1. c.msg # NoMessage
        BY <3>3, MessagesAssumption
      <4>2. Reach(m, Append(c.path, i)) = Inner(c.msg, i)
        BY <3>3, <3>5, ReachAppend
      <4> QED BY <3>4, <4>1, <4>2 DEF Inner
    <3> QED BY <3>2, <3>6, <3>7
  <2> QED BY <2>1, <2>2
<1>4. 0..MaxQueryDepth \subseteq T
  <2> HIDE DEF T
  <2> QED BY <1>1, <1>2, <1>3, StepByStep
<1> QED BY <1>4

\* A query parameter is a leaf, past nothing that is bound or the service's to set.
LEMMA QueriesAreUnclaimed ==
    ASSUME proto \in Protos, messages \subseteq Messages, NEW m \in Messages, NEW rule,
           NEW q \in QueryParams(m, rule)
    PROVE  /\ q \in Seq(Nat) /\ q # <<>> /\ rule.body # Wildcard
           /\ Bindable(FieldOf(m, q)) /\ Unclaimed(m, rule, q)
<1>1. rule.body # Wildcard
  BY DEF QueryParams
<1>2. PICK d \in 0..MaxQueryDepth : \E c \in Entered(m, rule)[d] : \E i \in TakenBy(rule, c) :
          q = Append(c.path, i)
  BY <1>1 DEF QueryParams
<1>3. PICK c \in Entered(m, rule)[d] : \E i \in TakenBy(rule, c) : q = Append(c.path, i)
  BY <1>2
<1>4. PICK i \in TakenBy(rule, c) : q = Append(c.path, i)
  BY <1>3
<1>5. /\ c.msg \in Messages /\ c.path \in Seq(Nat)
      /\ c.msg = Reach(m, c.path) /\ Unclaimed(m, rule, c.path)
  BY <1>2, <1>3, EnteredSteps, CallsAreUnclaimed DEF Calls
<1>6. /\ i \in DOMAIN proto.fields[c.msg] /\ Bindable(proto.fields[c.msg][i])
      /\ Asked(rule, proto.fields[c.msg][i], Append(c.path, i))
  BY <1>4 DEF TakenBy
<1>7. i \in Nat
  <2>1. proto.fields[c.msg] \in Seq(FieldType)
    BY <1>5, Typed
  <2> QED BY <1>6, <2>1
<1>8. Unclaimed(m, rule, q) /\ FieldOf(m, q) = proto.fields[c.msg][i]
  BY <1>4, <1>5, <1>6, <1>7, UnclaimedAppend
<1>9. q \in Seq(Nat) /\ q # <<>>
  BY <1>4, <1>5, <1>7, Appended
<1> QED BY <1>1, <1>6, <1>8, <1>9

\* The paths the properties speak of are not empty and no deeper than the walk.
LEMMA PathsAreSequences ==
    ASSUME proto \in Protos, NEW p \in Paths
    PROVE  p \in Seq(Nat) /\ p # <<>> /\ Len(p) \in 1..(MaxQueryDepth + 1)
<1>1. Positions \subseteq Nat
  <2> SUFFICES ASSUME NEW m \in Messages, NEW i \in DOMAIN proto.fields[m] PROVE i \in Nat
    BY DEF Positions
  <2>1. proto.fields[m] \in Seq(FieldType)
    BY Typed
  <2> QED BY <2>1
<1>2. PICK n \in 1..(MaxQueryDepth + 1) : p \in [1..n -> Positions]
  BY DEF Paths
<1>3. n \in Nat /\ n # 0
  BY DepthAssumption
<1>4. p \in [1..n -> Nat]
  BY <1>1, <1>2
<1>5. p \in Seq(Nat) /\ Len(p) = n
  BY <1>3, <1>4
<1> QED BY <1>2, <1>3, <1>5, EmptySeq

\* A path that begins another is one of the fields along it.
LEMMA PrefixIsStep ==
    ASSUME NEW c \in Seq(Nat), NEW p \in Seq(Nat), c # <<>>
    PROVE  /\ IsPrefix(c, p) => Len(c) \in 1..Len(p) /\ c = Upto(p, Len(c)) /\ c \in Steps(p)
           /\ c \in Steps(p) => IsPrefix(c, p)
<1>1. Len(c) \in Nat \ {0} /\ Len(p) \in Nat
  BY EmptySeq, LenProperties
<1>2. Upto(c, Len(c)) = c /\ Steps(p) = {Upto(p, n) : n \in 1..Len(p)}
  BY PathPrefixes, StepsAreUpto
<1>3. ASSUME IsPrefix(c, p)
      PROVE  Len(c) \in 1..Len(p) /\ c = Upto(p, Len(c)) /\ c \in Steps(p)
  <2>1. Len(c) <= Len(p) /\ Upto(c, Len(c)) = Upto(p, Len(c))
    BY <1>3 DEF IsPrefix, Upto
  <2>2. Len(c) \in 1..Len(p)
    BY <1>1, <2>1
  <2> QED BY <1>2, <2>1, <2>2
<1>4. ASSUME c \in Steps(p) PROVE IsPrefix(c, p)
  <2>1. PICK n \in 1..Len(p) : c = Upto(p, n)
    BY <1>2, <1>4
  <2>2. n \in 0..Len(p) /\ n <= Len(p)
    BY <1>1
  <2>3. Len(c) = n
    BY <2>1, <2>2, PathPrefixes
  <2>4. Len(c) <= Len(p) /\ Upto(c, Len(c)) = Upto(p, Len(c))
    BY <1>2, <2>1, <2>2, <2>3
  <2> QED BY <2>4 DEF IsPrefix, Upto
<1> QED BY <1>3, <1>4

\* What the paths and the bodies of a rule are.
RuleType(rule) ==
    /\ rule.captures \subseteq Seq(Nat) \ {<<>>}
    /\ rule.body \in Seq(Nat) /\ rule.responseBody \in Seq(Nat)

\* The walk takes what a caller may set, unless the rule binds it or all around it.
LEMMA WalkIsComplete ==
    ASSUME proto \in Protos, messages \subseteq Messages, Closed, stack = <<>>,
           NEW m \in messages, NEW rule, RuleType(rule),
           \A c \in rule.captures : PathParam(m, c),
           NEW p \in Paths, Settable(m, p),
           p \notin rule.captures, rule.body # Wildcard,
           rule.body # NoBody => ~IsPrefix(rule.body, p)
    PROVE  p \in QueryParams(m, rule)
<1> DEFINE n == Len(p)
           call(d) == [msg |-> Reach(m, Upto(p, d)), path |-> Upto(p, d)]
           T == {d \in 0..(n - 1) : call(d) \in Entered(m, rule)[d]}
           field(i) == proto.fields[Reach(m, Upto(p, i - 1))][p[i]]
<1>1. p \in Seq(Nat) /\ p # <<>> /\ n \in 1..(MaxQueryDepth + 1) /\ m \in Messages
  BY PathsAreSequences
<1>2. n \in Nat \ {0} /\ MaxQueryDepth \in Nat /\ n \in 1..n
  BY <1>1, DepthAssumption
<1>3. /\ Upto(p, 0) = <<>> /\ Upto(p, n) = p
      /\ \A i \in 1..n : Upto(p, i) = Append(Upto(p, i - 1), p[i])
  BY <1>1, PathPrefixes
<1>4. /\ \A i \in 1..n : Upto(p, i) \in Steps(p) /\ (i < n => Upto(p, i) \in Inside(p))
      /\ p \in Steps(p)
  BY <1>1, <1>2, <1>3, StepsAreUpto
<1>5. Walks(m, p)
  BY <1>1, <1>4, NamedWalks DEF Settable
<1>6. \A i \in 1..n : FieldOf(m, Upto(p, i)) = field(i)
  BY <1>1, StepOf
<1>7. ASSUME NEW i \in 1..n, i < n
      PROVE  /\ field(i).kind = "message" /\ ~field(i).repeated /\ ~Bindable(field(i))
             /\ Reach(m, Upto(p, i)) = field(i).type /\ field(i).type \in messages
  <2>1. Descends(field(i))
    BY <1>5, <1>6, <1>7 DEF Walks
  <2>2. field(i).type \notin WellKnown
    BY <1>4, <1>6, <1>7 DEF Settable
  <2>3. Reach(m, Upto(p, i)) = field(i).type
    BY <1>1, <1>4, <1>6, <1>7, NamedSteps DEF Settable
  <2>4. i + 1 \in 1..n /\ (i + 1) - 1 = i
    BY <1>2, <1>7
  <2>5. Reach(m, Upto(p, i)) \in messages
    BY <1>5, <2>4 DEF Walks
  <2> HIDE DEF field, n
  <2> QED BY <2>1, <2>2, <2>3, <2>5 DEF Descends, Bindable, WellKnown
<1>8. ASSUME NEW i \in 1..n PROVE Asked(rule, field(i), Upto(p, i))
  <2>1. ~field(i).outputOnly
    BY <1>4, <1>6 DEF Settable
  <2>2. i \in 0..n /\ i # 0
    BY <1>2
  <2>3. Upto(p, i) \in Seq(Nat) /\ Len(Upto(p, i)) = i
    BY <1>1, <2>2, PathPrefixes
  <2>4. Upto(p, i) # <<>>
    BY <2>2, <2>3, EmptySeq
  <2>5. Upto(p, i) \notin rule.captures
    <3>1. CASE i = n
      BY <1>3, <3>1
    <3>2. CASE i # n
      <4>1. i < n
        BY <1>2, <3>2
      <4>2. ~Bindable(FieldOf(m, Upto(p, i)))
        BY <1>6, <1>7, <4>1
      <4> SUFFICES ASSUME Upto(p, i) \in rule.captures PROVE FALSE
        OBVIOUS
      <4>3. PathParam(m, Upto(p, i))
        OBVIOUS
      <4>4. Leaf(m, Upto(p, i)) = FieldOf(m, Upto(p, i))
        BY <1>1, <2>3, <2>4, <4>3, ResolvesIsWalk DEF PathParam
      <4> QED BY <4>2, <4>3, <4>4 DEF PathParam
    <3> QED BY <3>1, <3>2
  <2>6. Upto(p, i) \notin {rule.body} \ {NoBody, Wildcard}
    <3> SUFFICES ASSUME Upto(p, i) = rule.body, rule.body # NoBody PROVE FALSE
      OBVIOUS
    <3>1. IsPrefix(Upto(p, i), p)
      BY <1>1, <1>4, <2>3, <2>4, PrefixIsStep
    <3> QED BY <3>1
  <2> HIDE DEF field, n
  <2> QED BY <2>1, <2>5, <2>6 DEF Asked, Bound
<1>9. \A i \in 1..n : p[i] \in DOMAIN proto.fields[Reach(m, Upto(p, i - 1))]
  BY <1>5 DEF Walks
<1>10. Entered(m, rule)[0] = {[msg |-> m, path |-> <<>>]} /\ Reach(m, Upto(p, 0)) = m
  BY <1>1, EnteredSteps, ReachSteps
<1>11. 0 \in T
  BY <1>2, <1>3, <1>10
<1>12. \A d \in (0 + 1)..(n - 1) : d - 1 \in T => d \in T
  <2> SUFFICES ASSUME NEW d \in (0 + 1)..(n - 1), d - 1 \in T PROVE d \in T
    OBVIOUS
  <2>1. d \in 1..n /\ d < n /\ d \in 0..(n - 1) /\ d \in 1..MaxQueryDepth
    BY <1>1, <1>2
  <2>2. call(d - 1) \in Entered(m, rule)[d - 1]
    OBVIOUS
  <2>3. call(d - 1).msg = Reach(m, Upto(p, d - 1)) /\ call(d - 1).path = Upto(p, d - 1)
    OBVIOUS
  <2> HIDE DEF call
  <2>4. p[d] \in EnteredBy(rule, call(d - 1))
    <3>1. Append(call(d - 1).path, p[d]) = Upto(p, d)
      BY <1>3, <2>1, <2>3
    <3>2. Asked(rule, field(d), Append(call(d - 1).path, p[d]))
      BY <1>8, <2>1, <3>1
    <3>3. proto.fields[call(d - 1).msg][p[d]] = field(d)
      BY <2>3
    <3>4. Descends(field(d)) /\ ~Bindable(field(d)) /\ field(d).type \in messages
      BY <1>7, <2>1 DEF Descends
    <3> HIDE DEF field
    <3> QED BY <1>9, <2>1, <2>3, <3>2, <3>3, <3>4 DEF EnteredBy
  <2>5. [msg |-> proto.fields[call(d - 1).msg][p[d]].type,
         path |-> Append(call(d - 1).path, p[d])] \in Deeper(rule, Entered(m, rule)[d - 1])
    BY <2>2, <2>4, GoesDeeper
  <2>6. call(d) = [msg |-> proto.fields[call(d - 1).msg][p[d]].type,
                   path |-> Append(call(d - 1).path, p[d])]
    BY <1>3, <1>7, <2>1, <2>3 DEF call
  <2>7. call(d) \in Entered(m, rule)[d]
    BY <1>1, <2>1, <2>5, <2>6, EnteredSteps
  <2> QED BY <2>1, <2>7
<1>13. n - 1 \in T
  <2>1. PICK k \in Nat : k = n - 1
    BY <1>2
  <2> HIDE DEF T
  <2>2. 0 \in T /\ \A d \in (0 + 1)..k : d - 1 \in T => d \in T
    BY <1>11, <1>12, <2>1
  <2>3. 0..k \subseteq T
    BY <2>2, StepByStep
  <2> QED BY <2>1, <2>3
<1>14. call(n - 1) \in Entered(m, rule)[n - 1] /\ n - 1 \in 0..MaxQueryDepth
  BY <1>1, <1>2, <1>13
<1>15. p[n] \in TakenBy(rule, call(n - 1)) /\ p = Append(call(n - 1).path, p[n])
  <2>1. call(n - 1).msg = Reach(m, Upto(p, n - 1)) /\ call(n - 1).path = Upto(p, n - 1)
    OBVIOUS
  <2>2. p = Append(call(n - 1).path, p[n])
    BY <1>2, <1>3, <2>1
  <2>3. Asked(rule, field(n), p) /\ Bindable(field(n))
    BY <1>2, <1>3, <1>6, <1>8 DEF Settable
  <2>4. proto.fields[call(n - 1).msg][p[n]] = field(n) /\ p[n] \in DOMAIN proto.fields[call(n - 1).msg]
    BY <1>2, <1>9, <2>1
  <2> HIDE DEF field, call, n
  <2> QED BY <2>2, <2>3, <2>4 DEF TakenBy
<1> HIDE DEF call, T, field, n
<1> QED BY <1>14, <1>15 DEF QueryParams

\* A rule that is right as written is bound, whatever was materialized before it.
LEMMA SoundBinds ==
    ASSUME proto \in Protos, messages \subseteq Messages, Closed, stack = <<>>,
           NEW method, method.input \in messages, method.output \in messages,
           NEW rule, RuleType(rule), ~rule.malformed, Sound(method, rule)
    PROVE  Binds(method, rule)
<1>1. ASSUME NEW m \in messages, NEW p \in Seq(Nat), p # <<>>, Named(m, p),
             \A s \in Inside(p) : FieldOf(m, s).type \notin WellKnown
      PROVE  Resolves(m, p) /\ Leaf(m, p) = FieldOf(m, p)
  <2>1. Walks(m, p) /\ m \in Messages
    BY <1>1, NamedWalks
  <2> QED BY <1>1, <2>1, ResolvesIsWalk
<1>2. ASSUME NEW p \in Seq(Nat), Len(p) = 1 PROVE Inside(p) = {} /\ p # <<>>
  <2>1. Steps(p) = {Upto(p, n) : n \in 1..Len(p)} /\ Upto(p, Len(p)) = p
    BY StepsAreUpto, PathPrefixes
  <2>2. \A n \in 1..Len(p) : n = Len(p)
    BY <1>2
  <2>3. \A s \in Steps(p) : s = p
    BY <2>1, <2>2
  <2>4. p # <<>>
    <3> SUFFICES ASSUME p = <<>> PROVE FALSE
      OBVIOUS
    <3>1. Len(p) = 0
      OBVIOUS
    <3> QED BY <1>2, <3>1
  <2> QED BY <2>3, <2>4 DEF Inside
<1>3. \A p \in rule.captures : PathParam(method.input, p)
  BY <1>1 DEF Sound, RuleType, PathParam
<1>4. BodySpec(method.input, rule.body)
  <2>1. CASE rule.body \in {NoBody, Wildcard}
    BY <2>1 DEF BodySpec
  <2>2. CASE rule.body \notin {NoBody, Wildcard}
    <3>1. /\ Len(rule.body) = 1 /\ Named(method.input, rule.body) /\ rule.body \in Seq(Nat)
          /\ Descends(FieldOf(method.input, rule.body))
      BY <2>2 DEF Sound, RuleType
    <3>2. Inside(rule.body) = {} /\ rule.body # <<>>
      BY <1>2, <3>1
    <3>3. Resolves(method.input, rule.body) /\ Leaf(method.input, rule.body) = FieldOf(method.input, rule.body)
      BY <1>1, <3>1, <3>2
    <3> QED BY <3>1, <3>3 DEF BodySpec, Descends
  <2> QED BY <2>1, <2>2
<1>5. ResponseBody(method.output, rule.responseBody)
  <2>1. CASE rule.responseBody = NoBody
    BY <2>1 DEF ResponseBody
  <2>2. CASE rule.responseBody # NoBody
    <3>1. Len(rule.responseBody) = 1 /\ Named(method.output, rule.responseBody)
          /\ rule.responseBody \in Seq(Nat)
      BY <2>2 DEF Sound, RuleType
    <3>2. Inside(rule.responseBody) = {} /\ rule.responseBody # <<>>
      BY <1>2, <3>1
    <3>3. Resolves(method.output, rule.responseBody)
      BY <1>1, <3>1, <3>2
    <3> QED BY <3>1, <3>3 DEF ResponseBody
  <2> QED BY <2>1, <2>2
<1> QED BY <1>3, <1>4, <1>5 DEF Binds

\* What the descriptors say changes with them only.
LEMMA DescriptorsStay ==
    ASSUME proto' = proto
    PROVE  \A m, p : /\ Reach(m, p)' = Reach(m, p)
                     /\ FieldOf(m, p)' = FieldOf(m, p)
                     /\ Named(m, p)' = Named(m, p)
                     /\ Settable(m, p)' = Settable(m, p)
<1>1. \A m, p : Reach(m, p)' = Reach(m, p)
  BY DEF Reach, Inner, Descends
<1>2. \A m, p : FieldOf(m, p)' = FieldOf(m, p) /\ Named(m, p)' = Named(m, p)
  BY <1>1 DEF FieldOf, Named
<1>3. \A m, p : Settable(m, p)' = Settable(m, p)
  BY <1>2 DEF Settable
<1> QED BY <1>1, <1>2, <1>3

-----------------------------------------------------------------------------
(* The invariant.                                                          *)

\* The method being built: its messages are registered when its rules are read,
\* and its bindings are of its rules in their order.
MethodRead ==
    /\ bindings \in Seq({bindings[k] : k \in DOMAIN bindings})
    /\ phase \in {"input", "output"} => bindings = <<>>
    /\ phase \in {"output", "rules"} => Method.input \in messages
    /\ phase = "rules" => Method.output \in messages
    /\ \A k \in DOMAIN bindings :
          k \in DOMAIN Method.rules /\ bindings[k].rule = Method.rules[k]

\* The query asks for q: a leaf that nothing claims.
Asks(m, rule, q) ==
    /\ q \in Seq(Nat) /\ q # <<>> /\ rule.body # Wildcard
    /\ Bindable(FieldOf(m, q)) /\ Unclaimed(m, rule, q)

\* The query asks for all that a caller may set and the rule does not bind.
AsksAll(m, rule, query) ==
    \A p \in Paths : Settable(m, p) =>
        \/ p \in rule.captures \cup query
        \/ rule.body = Wildcard
        \/ rule.body # NoBody /\ IsPrefix(rule.body, p)

\* The path, the body and the query of a binding share out the fields of its request.
SharesOut(b) ==
    /\ b.input \in Messages /\ RuleType(b.binding.rule)
    /\ Len(b.binding.rule.body) <= 1
    /\ \A c \in b.binding.rule.captures : Walks(b.input, c)
    /\ \A q \in b.binding.query : Asks(b.input, b.binding.rule, q)
    /\ AsksAll(b.input, b.binding.rule, b.binding.query)

AllShareOut == \A b \in Built : SharesOut(b)

Building == Walking /\ MethodRead /\ AllShareOut /\ RefusedForCause /\ ReadsOnlyRead

\* The invariant holds that the table is closed when a method is read.
LEMMA WalkingCloses == Walking => Closed
<1> QED BY DEF Walking, Pending, Covered, Closed, Opens

\* The method at hand and its rules are as the assumption on the descriptors says.
LEMMA RulesTyped ==
    ASSUME Walking, Len(methods) < Len(proto.methods)
    PROVE  /\ Method.input \in Messages /\ Method.output \in Messages
           /\ Len(Method.rules) \in Nat /\ DOMAIN Method.rules = 1..Len(Method.rules)
           /\ \A k \in DOMAIN Method.rules : RuleType(Method.rules[k])
<1>1. proto \in Protos /\ Len(methods) \in Nat
  BY DEF Walking
<1>2. proto.methods \in Seq({proto.methods[i] : i \in DOMAIN proto.methods})
  BY <1>1, ProtosAssumption
<1>3. Len(methods) + 1 \in DOMAIN proto.methods
  BY <1>1, <1>2
<1>4. /\ Method.input \in Messages /\ Method.output \in Messages
      /\ Method.rules \in Seq(ToSet(Method.rules))
      /\ \A rule \in ToSet(Method.rules) : RuleType(rule)
  BY <1>1, <1>3, ProtosAssumption DEF Method, RuleType
<1>5. Len(Method.rules) \in Nat /\ DOMAIN Method.rules = 1..Len(Method.rules)
  BY <1>4, LenProperties
<1> QED BY <1>4, <1>5 DEF ToSet

\* What is right of a binding remains so as the table of messages grows.
LEMMA SharesOutStays ==
    ASSUME NEW b, SharesOut(b), proto' = proto, messages \subseteq messages'
    PROVE  SharesOut(b)'
<1>1. \A c : Walks(b.input, c) => Walks(b.input, c)'
  BY DescriptorsStay DEF Walks
<1>2. \A rule, q : Asks(b.input, rule, q) => Asks(b.input, rule, q)'
  BY DescriptorsStay DEF Asks, Unclaimed
<1>3. \A rule, query : AsksAll(b.input, rule, query) => AsksAll(b.input, rule, query)'
  <2>1. Paths' = Paths
    BY DEF Paths, Positions
  <2> QED BY <2>1, DescriptorsStay DEF AsksAll
<1> QED BY <1>1, <1>2, <1>3 DEF SharesOut, RuleType

\* The binding a step makes.
Made == [rule |-> Rule, query |-> QueryParams(Method.input, Rule)]

\* buildBinding shares the fields out as the descriptors say it should.
LEMMA MadeSharesOut ==
    ASSUME Walking, MethodRead, Bind
    PROVE  SharesOut([input |-> Method.input, binding |-> Made])
<1>1. /\ phase = "rules" /\ stack = <<>> /\ Len(bindings) < Len(Method.rules)
      /\ Binds(Method, Rule)
  BY DEF Bind
<1>2. /\ proto \in Protos /\ messages \subseteq Messages /\ Closed
      /\ Len(methods) < Len(proto.methods) /\ Method.input \in messages
  BY <1>1, WalkingCloses DEF Walking, MethodRead
<1>3. RuleType(Rule)
  <2>1. Len(bindings) \in Nat
    BY DEF MethodRead
  <2>2. Len(bindings) + 1 \in DOMAIN Method.rules
    BY <1>1, <1>2, <2>1, RulesTyped
  <2> QED BY <1>2, <2>2, RulesTyped DEF Rule
<1>4. \A c \in Rule.captures : PathParam(Method.input, c)
  BY <1>1 DEF Binds
<1>5. \A c \in Rule.captures : Walks(Method.input, c)
  <2> SUFFICES ASSUME NEW c \in Rule.captures PROVE Walks(Method.input, c)
    OBVIOUS
  <2>1. c \in Seq(Nat) /\ c # <<>>
    BY <1>3 DEF RuleType
  <2>2. Resolves(Method.input, c) /\ Method.input \in Messages
    BY <1>2, <1>4 DEF PathParam
  <2> QED BY <1>2, <2>1, <2>2, ResolvesIsWalk
<1>6. Len(Rule.body) <= 1
  <2>1. BodySpec(Method.input, Rule.body)
    BY <1>1 DEF Binds
  <2>2. Len(NoBody) = 0 /\ Len(Wildcard) = 1
    BY DEF NoBody, Wildcard
  <2>3. Rule.body = NoBody \/ Rule.body = Wildcard \/ Len(Rule.body) = 1
    BY <2>1 DEF BodySpec
  <2>4. PICK n \in {0, 1} : Len(Rule.body) = n
    BY <2>2, <2>3
  <2>5. n <= 1
    OBVIOUS
  <2> QED BY <2>4, <2>5
<1>7. \A q \in QueryParams(Method.input, Rule) : Asks(Method.input, Rule, q)
  BY <1>2, QueriesAreUnclaimed DEF Asks
<1>8. AsksAll(Method.input, Rule, QueryParams(Method.input, Rule))
  BY <1>1, <1>2, <1>3, <1>4, WalkIsComplete DEF AsksAll
<1> QED BY <1>2, <1>3, <1>5, <1>6, <1>7, <1>8 DEF SharesOut, Made

\* A step adds no binding but the one that buildBinding makes.
LEMMA BuiltNext ==
    ASSUME Walking, MethodRead, [Next]_vars, NEW b \in Built'
    PROVE  b \in Built \/ (Bind /\ b = [input |-> Method.input, binding |-> Made])
<1>2. \/ \E i \in DOMAIN methods' : \E k \in DOMAIN methods'[i].bindings :
             b = [input |-> proto'.methods[i].input, binding |-> methods'[i].bindings[k]]
      \/ \E k \in DOMAIN bindings' : b = [input |-> Method'.input, binding |-> bindings'[k]]
  BY DEF Built
<1>3. /\ \A i \in DOMAIN methods : \A k \in DOMAIN methods[i].bindings :
            [input |-> proto.methods[i].input, binding |-> methods[i].bindings[k]] \in Built
      /\ \A k \in DOMAIN bindings : [input |-> Method.input, binding |-> bindings[k]] \in Built
  <2> DEFINE own(i) == {[input |-> proto.methods[i].input, binding |-> methods[i].bindings[k]] :
                           k \in DOMAIN methods[i].bindings}
             last == {[input |-> Method.input, binding |-> bindings[k]] : k \in DOMAIN bindings}
  <2>1. Built = (UNION {own(i) : i \in DOMAIN methods}) \cup last
    BY DEF Built
  <2>2. /\ \A i \in DOMAIN methods : \A k \in DOMAIN methods[i].bindings :
              [input |-> proto.methods[i].input, binding |-> methods[i].bindings[k]] \in own(i)
        /\ \A k \in DOMAIN bindings : [input |-> Method.input, binding |-> bindings[k]] \in last
    OBVIOUS
  <2> HIDE DEF own, last
  <2> QED BY <2>1, <2>2
<1>4. CASE UNCHANGED <<proto, methods, bindings>>
  <2>1. Method' = Method
    BY <1>4 DEF Method
  <2> QED BY <1>2, <1>3, <1>4, <2>1
<1>5. CASE Bind
  <2>1. /\ proto' = proto /\ methods' = methods /\ bindings' = Append(bindings, Made)
    BY <1>5 DEF Bind, Made
  <2>2. Method' = Method
    BY <2>1 DEF Method
  <2>3. \A k \in DOMAIN bindings' :
            \/ k \in DOMAIN bindings /\ bindings'[k] = bindings[k]
            \/ bindings'[k] = Made
    BY <2>1 DEF MethodRead
  <2> QED BY <1>2, <1>3, <1>5, <2>1, <2>2, <2>3
<1>6. CASE Finish
  <2>1. PICK x : methods' = Append(methods, x) /\ x.bindings = bindings
    BY <1>6 DEF Finish
  <2>2. proto' = proto /\ bindings' = <<>> /\ Len(methods) \in Nat
    BY <1>6 DEF Finish, Walking
  <2>3. \A i \in DOMAIN methods' :
            \/ i \in DOMAIN methods /\ methods'[i] = methods[i]
            \/ i = Len(methods) + 1 /\ methods'[i] = x
    BY <2>1 DEF Walking
  <2>4. proto'.methods[Len(methods) + 1] = Method
    BY <2>2 DEF Method
  <2>5. DOMAIN bindings' = {}
    BY <2>2
  <2>6. PICK i \in DOMAIN methods' : \E k \in DOMAIN methods'[i].bindings :
            b = [input |-> proto'.methods[i].input, binding |-> methods'[i].bindings[k]]
    BY <1>2, <2>5
  <2>7. CASE i \in DOMAIN methods /\ methods'[i] = methods[i]
    BY <1>3, <2>2, <2>6, <2>7
  <2>8. CASE i = Len(methods) + 1 /\ methods'[i] = x
    BY <1>3, <2>1, <2>2, <2>4, <2>6, <2>8
  <2> QED BY <2>3, <2>6, <2>7, <2>8
<1> QED
  BY <1>4, <1>5, <1>6 DEF Next, WalkField, Return, Input, Output, Refuse, Done, vars

\* Before the first method there is no binding to be wrong.
LEMMA BuildingInit == Init => Building
<1> SUFFICES ASSUME Init PROVE Building
  OBVIOUS
<1>1. bindings = <<>> /\ methods = <<>> /\ phase = "input"
  BY DEF Init
<1>2. MethodRead
  BY <1>1, EmptySeq DEF MethodRead
<1>3. Built = {}
  BY <1>1 DEF Built
<1> QED
  BY <1>1, <1>2, <1>3, WalkingInit DEF Building, AllShareOut, RefusedForCause, ReadsOnlyRead

\* The table of messages only grows, and the descriptors never change.
LEMMA MessagesGrow == [Next]_vars => messages \subseteq messages' /\ proto' = proto
<1> QED BY DEF Next, vars, WalkField, Materialize, Return, Input, Output, Refuse, Bind, Finish, Done

\* While the rules of a method are read, its input stays registered.
LEMMA MethodReadNext ==
    ASSUME Walking, MethodRead, [Next]_vars
    PROVE  MethodRead'
<1> USE DEF MethodRead
<1>0. messages \subseteq messages' /\ proto' = proto
  BY MessagesGrow
<1>1. CASE UNCHANGED <<methods, bindings, phase>>
  <2>1. Method' = Method
    BY <1>0, <1>1 DEF Method
  <2> QED BY <1>0, <1>1, <2>1
<1>2. CASE Input
  <2>1. Method' = Method /\ bindings' = bindings /\ phase' = "output" /\ bindings = <<>>
    BY <1>0, <1>2 DEF Input, Method
  <2>2. Method.input \in messages'
    BY <1>2 DEF Input, Materialize
  <2> QED BY <2>1, <2>2
<1>3. CASE Output
  <2>1. Method' = Method /\ bindings' = bindings /\ phase' = "rules" /\ Method.input \in messages'
    BY <1>0, <1>3 DEF Output, Method
  <2>2. Method.output \in messages'
    BY <1>3 DEF Output, Materialize
  <2> QED BY <2>1, <2>2
<1>4. CASE Refuse
  <2>1. Method' = Method /\ bindings' = bindings /\ phase' = "refused"
    BY <1>0, <1>4 DEF Refuse, Method
  <2> QED BY <2>1
<1>5. CASE Bind
  <2>1. /\ Method' = Method /\ bindings' = Append(bindings, Made) /\ phase' = phase
        /\ messages' = messages /\ phase = "rules" /\ Len(bindings) < Len(Method.rules)
    BY <1>0, <1>5 DEF Bind, Made, Method
  <2>2. /\ DOMAIN Method.rules = 1..Len(Method.rules) /\ Len(Method.rules) \in Nat
    BY <2>1, RulesTyped DEF Walking
  <2>3. bindings' \in Seq({bindings[k] : k \in DOMAIN bindings} \cup {Made})
    <3> DEFINE S == {bindings[k] : k \in DOMAIN bindings}
    <3>1. bindings \in Seq(S)
      OBVIOUS
    <3> HIDE DEF S
    <3>2. bindings \in Seq(S \cup {Made})
      BY <3>1
    <3> QED BY <2>1, <3>2 DEF S
  <2>4. bindings' \in Seq({bindings'[k] : k \in DOMAIN bindings'})
    BY <2>3, OwnElements
  <2>5. \A k \in DOMAIN bindings' :
            \/ k \in DOMAIN bindings /\ bindings'[k] = bindings[k]
            \/ k = Len(bindings) + 1 /\ bindings'[k] = Made
    BY <2>1
  <2>6. Len(bindings) \in Nat
    OBVIOUS
  <2>7. Len(bindings) + 1 \in DOMAIN Method.rules
    BY <2>1, <2>2, <2>6
  <2>8. \A k \in DOMAIN bindings' : k \in DOMAIN Method.rules /\ bindings'[k].rule = Method.rules[k]
    BY <2>5, <2>7 DEF Made, Rule
  <2> QED BY <2>1, <2>4, <2>8
<1>6. CASE Finish
  <2>1. bindings' = <<>> /\ phase' = "input"
    BY <1>6 DEF Finish
  <2> QED BY <2>1, EmptySeq
<1> QED
  BY <1>1, <1>2, <1>3, <1>4, <1>5, <1>6 DEF Next, WalkField, Return, Done, vars

\* Every step leaves all bindings shared out right.
LEMMA AllShareOutNext ==
    ASSUME Walking, MethodRead, AllShareOut, [Next]_vars
    PROVE  AllShareOut'
<1> SUFFICES ASSUME NEW b \in Built' PROVE SharesOut(b)'
  BY DEF AllShareOut
<1>1. messages \subseteq messages' /\ proto' = proto
  BY MessagesGrow
<1>2. b \in Built \/ (Bind /\ b = [input |-> Method.input, binding |-> Made])
  BY BuiltNext
<1>3. SharesOut(b)
  BY <1>2, MadeSharesOut DEF AllShareOut
<1> QED BY <1>1, <1>3, SharesOutStays

\* A rule that is sound and not malformed is not refused.
LEMMA RefusedForCauseNext ==
    ASSUME Walking, MethodRead, RefusedForCause, [Next]_vars
    PROVE  RefusedForCause'
<1>1. messages \subseteq messages' /\ proto' = proto
  BY MessagesGrow
<1>2. ASSUME methods' = methods PROVE /\ Method' = Method
                                      /\ \A rule : Sound(Method, rule)' <=> Sound(Method, rule)
  <2>1. Method' = Method
    BY <1>1, <1>2 DEF Method
  <2> QED BY <1>1, <2>1, DescriptorsStay DEF Sound
<1>3. CASE Refuse
  <2>1. /\ phase = "rules" /\ stack = <<>> /\ Len(bindings) < Len(Method.rules)
        /\ \/ Method.clientStream
           \/ \E i \in DOMAIN Method.rules : Method.rules[i].malformed
           \/ ~Binds(Method, Rule)
        /\ methods' = methods
    BY <1>3 DEF Refuse
  <2>2. /\ proto \in Protos /\ messages \subseteq Messages /\ Closed
        /\ Len(methods) < Len(proto.methods)
        /\ Method.input \in messages /\ Method.output \in messages
    BY <2>1, WalkingCloses DEF Walking, MethodRead
  <2>3. Len(bindings) + 1 \in DOMAIN Method.rules /\ RuleType(Rule)
    <3>1. Len(bindings) \in Nat
      BY DEF MethodRead
    <3>2. /\ Len(Method.rules) \in Nat /\ DOMAIN Method.rules = 1..Len(Method.rules)
          /\ \A k \in DOMAIN Method.rules : RuleType(Method.rules[k])
      BY <2>2, RulesTyped
    <3>3. Len(bindings) + 1 \in DOMAIN Method.rules
      BY <2>1, <3>1, <3>2
    <3> QED BY <3>2, <3>3 DEF Rule
  <2>4. ~Binds(Method, Rule) => Rule.malformed \/ ~Sound(Method, Rule)
    BY <2>1, <2>2, <2>3, SoundBinds
  <2>5. \/ Method.clientStream
        \/ \E i \in DOMAIN Method.rules :
               Method.rules[i].malformed \/ ~Sound(Method, Method.rules[i])
    BY <2>1, <2>3, <2>4 DEF Rule
  <2> QED BY <1>2, <2>1, <2>5 DEF RefusedForCause
<1>4. CASE Finish \/ Input \/ Output
  BY <1>4 DEF RefusedForCause, Finish, Input, Output
<1>5. CASE phase' = phase /\ methods' = methods
  BY <1>2, <1>5 DEF RefusedForCause
<1> QED
  BY <1>3, <1>4, <1>5 DEF Next, WalkField, Return, Bind, Done, vars

\* What the pattern and the rules of a method say of its bindings.
LEMMA ReadsOnlyReadNext ==
    ASSUME Walking, MethodRead, ReadsOnlyRead, [Next]_vars
    PROVE  ReadsOnlyRead'
<1>1. CASE methods' = methods
  BY <1>1 DEF ReadsOnlyRead
<1>2. CASE Finish
  <2> DEFINE pattern == ClassifyMethod(Method.name, Method.rules)
             mutating == Mutating(pattern, Method.rules)
             made == [bindings |-> bindings, pattern |-> pattern, mutating |-> mutating]
  <2>1. methods' = Append(methods, made)
    BY <1>2 DEF Finish
  <2>2. ASSUME ~mutating, NEW k \in DOMAIN bindings
        PROVE  bindings[k].rule.httpMethod \in {"GET", "HEAD"}
    <3>1. k \in DOMAIN Method.rules /\ bindings[k].rule = Method.rules[k]
      BY DEF MethodRead
    <3> HIDE DEF pattern
    <3> QED BY <2>2, <3>1 DEF Mutating
  <2>3. ASSUME pattern \in {"Get", "List"} PROVE ~mutating
    <3>1. Method.name = pattern
      BY <2>3 DEF ClassifyMethod
    <3>2. PatternMethods[pattern] = {"GET"}
      <4>1. CASE pattern = "Get"
        <5> HIDE DEF pattern
        <5> QED BY <4>1 DEF PatternMethods
      <4>2. CASE pattern = "List"
        <5> HIDE DEF pattern
        <5> QED BY <4>2 DEF PatternMethods
      <4> QED BY <2>3, <4>1, <4>2
    <3>3. \A i \in DOMAIN Method.rules : Method.rules[i].httpMethod = "GET"
      <4>1. pattern # "Custom" /\ Method.name \in Standard
        BY <2>3, <3>1 DEF Standard
      <4>2. \A i \in DOMAIN Method.rules : Method.rules[i].httpMethod \in PatternMethods[Method.name]
        BY <4>1 DEF ClassifyMethod
      <4> HIDE DEF pattern
      <4> QED BY <3>1, <3>2, <4>2
    <3>4. pattern \in {"Get", "List"}
      BY <2>3
    <3> HIDE DEF pattern
    <3> QED BY <3>3, <3>4 DEF Mutating
  <2> HIDE DEF pattern, mutating
  <2>4. \A i \in DOMAIN methods' :
            \/ i \in DOMAIN methods /\ methods'[i] = methods[i]
            \/ methods'[i] = made
    BY <2>1 DEF Walking
  <2> QED BY <2>2, <2>3, <2>4 DEF ReadsOnlyRead
<1> QED
  BY <1>1, <1>2 DEF Next, WalkField, Return, Input, Output, Refuse, Bind, Done, vars

\* The inductive invariant of the whole service: materialization, bindings,
\* refusals and the classification of methods.
THEOREM BuildingAlways == Spec => []Building
<1>1. Building /\ [Next]_vars => Building'
  BY WalkingNext, MethodReadNext, AllShareOutNext, RefusedForCauseNext, ReadsOnlyReadNext
  DEF Building
<1> QED BY BuildingInit, <1>1, PTL DEF Spec

\* A service is refused only for a rule that is wrong as written, whatever the
\* methods before it have materialized (resolve.go, binding_build.go).
THEOREM RefusalsHaveACause == Spec => []RefusedForCause
<1>1. Building => RefusedForCause
  BY DEF Building
<1> QED BY <1>1, BuildingAlways, PTL

\* For every list of rules, a method that counts as one that changes nothing is
\* bound to GET and HEAD alone (classify.go:105-108).
THEOREM ReadsStayReads == Spec => []ReadsOnlyRead
<1>1. Building => ReadsOnlyRead
  BY DEF Building
<1> QED BY <1>1, BuildingAlways, PTL

\* However deep, and whatever the messages, a query parameter is neither set by
\* the service nor inside something that is (body.go:133-138).
THEOREM QueriesSetNothingOfTheService == Spec => []NeverServerOwned
<1>1. Building => NeverServerOwned
  BY DEF Building, AllShareOut, SharesOut, Asks, Unclaimed, NeverServerOwned
<1> QED BY <1>1, BuildingAlways, PTL

\* However deep to the bound, and whatever the messages, a field a caller may set
\* is bound by the path, the body or the query (bindQueryParams).
THEOREM NoFieldIsLost == Spec => []NothingLost
<1>1. Building => NothingLost
  BY DEF Building, AllShareOut, SharesOut, AsksAll, NothingLost
<1> QED BY <1>1, BuildingAlways, PTL

\* No field is bound twice, nor one inside another, as long as no method takes or
\* returns a message spelled as one string (body.go:129-130).
THEOREM NoFieldIsClaimedTwice == Spec => []ClaimedOnce
<1>1. Building => ClaimedOnce
  <2> SUFFICES ASSUME Building, LeavesAreClosed, NEW b \in Built, NEW q \in b.binding.query,
                      NEW c \in b.binding.rule.captures \cup {b.binding.rule.body}, c # NoBody
               PROVE  c # Wildcard /\ ~IsPrefix(c, q) /\ ~IsPrefix(q, c)
    BY DEF ClaimedOnce
  <2> DEFINE m == b.input
             rule == b.binding.rule
  <2>1. /\ proto \in Protos /\ messages \subseteq Messages /\ m \in Messages
        /\ rule.captures \subseteq Seq(Nat) \ {<<>>} /\ rule.body \in Seq(Nat)
        /\ Len(rule.body) <= 1
        /\ \A e \in rule.captures : Walks(m, e)
        /\ q \in Seq(Nat) /\ q # <<>> /\ rule.body # Wildcard
        /\ Bindable(FieldOf(m, q)) /\ Unclaimed(m, rule, q)
    BY DEF Building, Walking, AllShareOut, SharesOut, Asks, RuleType
  <2>2. c \in Seq(Nat) /\ c # <<>> /\ (c \in rule.captures \/ c = rule.body)
    BY <2>1 DEF NoBody
  <2> HIDE DEF m, rule
  <2>3. Len(c) \in Nat \ {0} /\ Len(q) \in Nat \ {0}
    BY <2>1, <2>2, EmptySeq
  <2>4. c # Wildcard
    <3>1. CASE c = rule.body
      BY <2>1, <3>1
    <3>2. CASE c \in rule.captures
      <4>1. 1 \in 1..Len(c) /\ 1 - 1 = 0
        BY <2>3
      <4>2. c[1] \in DOMAIN proto.fields[Reach(m, Upto(c, 0))] /\ Reach(m, Upto(c, 0)) \in messages
        BY <2>1, <3>2, <4>1 DEF Walks
      <4>3. proto.fields[Reach(m, Upto(c, 0))] \in Seq(FieldType)
        BY <2>1, <4>2, Typed
      <4>4. c[1] # 0
        BY <4>2, <4>3
      <4> QED BY <4>4 DEF Wildcard
    <3> QED BY <2>2, <3>1, <3>2
  <2>5. c \in Bound(rule)
    BY <2>2, <2>4 DEF Bound, NoBody
  <2>6. ~IsPrefix(c, q)
    BY <2>1, <2>2, <2>5, PrefixIsStep DEF Unclaimed
  <2>7. ~IsPrefix(q, c)
    <3> SUFFICES ASSUME IsPrefix(q, c) PROVE FALSE
      OBVIOUS
    <3>1. Len(q) \in 1..Len(c) /\ q = Upto(c, Len(q))
      BY <2>1, <2>2, PrefixIsStep
    <3>2. CASE Len(q) = Len(c)
      <4>1. q = c
        BY <2>2, <3>1, <3>2, PathPrefixes
      <4>2. q \in Steps(q)
        <5>1. Upto(q, Len(q)) = q /\ Len(q) \in 1..Len(q)
          BY <2>1, <2>3, PathPrefixes
        <5> QED BY <2>1, <5>1, StepsAreUpto
      <4> QED BY <2>1, <2>5, <4>1, <4>2 DEF Unclaimed
    <3>3. CASE Len(q) # Len(c)
      <4>1. Len(q) < Len(c) /\ Len(q) + 1 \in 1..Len(c) /\ (Len(q) + 1) - 1 = Len(q)
        BY <2>3, <3>1, <3>3
      <4>2. c \in rule.captures
        BY <2>1, <2>2, <2>3, <4>1
      <4>3. Descends(FieldOf(m, q)) /\ Reach(m, q) \in messages
        BY <2>1, <3>1, <4>1, <4>2 DEF Walks
      <4>4. FieldOf(m, q).type = Reach(m, q)
        <5>1. /\ Reach(m, q) = Inner(Reach(m, Upto(c, Len(q) - 1)), c[Len(q)])
              /\ FieldOf(m, q) = proto.fields[Reach(m, Upto(c, Len(q) - 1))][c[Len(q)]]
          BY <2>1, <2>2, <3>1, ReachSteps, StepOf
        <5>2. Reach(m, q) # NoMessage
          BY <2>1, <4>3, MessagesAssumption
        <5> QED BY <5>1, <5>2 DEF Inner
      <4>5. FieldOf(m, q).type \in StringLike
        BY <2>1, <4>3 DEF Bindable, Descends
      <4> QED BY <4>3, <4>4, <4>5 DEF LeavesAreClosed
    <3> QED BY <3>2, <3>3
  <2> QED BY <2>4, <2>6, <2>7
<1> QED BY <1>1, BuildingAlways, PTL
=============================================================================
