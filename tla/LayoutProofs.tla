---------------------------- MODULE LayoutProofs -----------------------------
(***************************************************************************)
(* Proofs about Layout for every finite set of messages and every message  *)
(* graph: the memo is right although a cycle is cut wherever the search    *)
(* happens to be, and so is every layout it decides.                       *)
(*                                                                         *)
(* The inductive invariant ties the stack to the graph: a call in progress *)
(* has found every earlier field of its message of fixed size, waits for   *)
(* the message the next call is about, and reaches the messages of all the *)
(* calls above it.  A call cut because its message is being visited        *)
(* therefore closes a cycle, and "not packable" is the right answer to it. *)
(***************************************************************************)
EXTENDS Layout, FiniteSetTheorems, SequenceTheorems, TLAPS

-----------------------------------------------------------------------------
\* The message graph

\* Reach(m) is closed under what a message holds, and the least such set.
LEMMA ReachIsLeast ==
    ASSUME NEW m \in Messages
    PROVE  /\ Reach(m) \subseteq Messages
           /\ Holds(m) \subseteq Reach(m)
           /\ \A y \in Reach(m) : Holds(y) \subseteq Reach(m)
           /\ \A S \in SUBSET Messages :
                (Holds(m) \subseteq S /\ \A y \in S : Holds(y) \subseteq S)
                    => Reach(m) \subseteq S
<1>1. \A n : Holds(n) \subseteq Messages
    BY DEF Holds
<1>2. QED
    BY <1>1 DEF Reach

\* What is reached reaches no further.
LEMMA ReachIsTransitive ==
    ASSUME NEW m \in Messages, NEW y \in Reach(m)
    PROVE  Reach(y) \subseteq Reach(m)
<1>1. y \in Messages /\ Reach(m) \in SUBSET Messages /\ Holds(y) \subseteq Reach(m)
    BY ReachIsLeast
<1>2. \A z \in Reach(m) : Holds(z) \subseteq Reach(m)
    BY ReachIsLeast
<1>3. QED
    BY <1>1, <1>2, ReachIsLeast

HasVariable(m) == Variable \in {proto.fields[m][i] : i \in DOMAIN proto.fields[m]}

\* What a message of fixed size holds has a fixed size.
LEMMA FixedSizeBelow ==
    ASSUME NEW m \in Messages, FixedSize(m), NEW h \in Holds(m)
    PROVE  FixedSize(h)
<1>1. h \in Reach(m) /\ Reach(h) \subseteq Reach(m)
    BY ReachIsLeast, ReachIsTransitive
<1>2. QED
    BY <1>1 DEF FixedSize

\* And a message has a fixed size if all it holds does and nothing in it
\* disqualifies it: it cannot be on a cycle, or what it holds would be too.
LEMMA FixedSizeAbove ==
    ASSUME NEW m \in Messages, ~Disqualified(m), ~HasVariable(m),
           \A h \in Holds(m) : FixedSize(h)
    PROVE  FixedSize(m)
<1> DEFINE S == Holds(m) \cup UNION {Reach(h) : h \in Holds(m)}
<1>1. Holds(m) \subseteq Messages
    BY DEF Holds
<1>2. S \subseteq Messages
    BY <1>1, ReachIsLeast
<1>3. \A y \in S : Holds(y) \subseteq S
    BY <1>1, ReachIsLeast
<1>4. Reach(m) \subseteq S
    <2> HIDE DEF S
    <2>1. Holds(m) \subseteq S
        BY DEF S
    <2>2. QED
        BY <1>2, <1>3, <2>1, ReachIsLeast
<1>5. \A x \in S : ~Disqualified(x) /\ ~HasVariable(x) /\ x \notin Reach(x)
    BY DEF FixedSize, HasVariable
<1>6. m \notin Reach(m)
    BY <1>4, <1>5
<1>7. QED
    BY <1>4, <1>5, <1>6 DEF FixedSize, HasVariable

-----------------------------------------------------------------------------
\* The inductive invariant

Verdicts == {Unset, Verdict(TRUE), Verdict(FALSE)}
Frames == [msg : Messages, field : Nat \ {0}]

Typed ==
    /\ proto \in Protos
    /\ layout \in [Messages -> {"unspecified", "struct", "table"}]
    /\ reported \subseteq Messages
    /\ node \in Nat \ {0}
    /\ memo \in [Messages -> Verdicts]
    /\ stack \in Seq(Frames)
    /\ ret \in Verdicts

\* The fields a call has looked at have a fixed size.
Passed(call) ==
    \A j \in 1..(call.field - 1) :
        /\ j \in DOMAIN proto.fields[call.msg]
        /\ proto.fields[call.msg][j] \in Messages
        /\ FixedSize(proto.fields[call.msg][j])

\* A call is at the field that holds this message.
WaitsFor(call, m) ==
    /\ call.field \in DOMAIN proto.fields[call.msg]
    /\ proto.fields[call.msg][call.field] = m

\* The calls in progress are a path through the graph, from the message the outer
\* loop is at.
Path(calls, root) ==
    /\ calls # <<>> => root \in Messages /\ calls[1].msg = root
    /\ \A i \in 1..Len(calls) : Passed(calls[i])
    /\ \A i \in 1..(Len(calls) - 1) : WaitsFor(calls[i], calls[i + 1].msg)
    /\ \A i, j \in 1..Len(calls) : i < j => calls[j].msg \in Reach(calls[i].msg)

\* A verdict just returned is the one the caller waits for.
Answers(verdict, calls, root) ==
    verdict # Unset =>
        IF calls = <<>> THEN root \in Messages /\ verdict = Verdict(FixedSize(root))
        ELSE \E m \in Messages : /\ WaitsFor(calls[Len(calls)], m)
                                 /\ verdict = Verdict(FixedSize(m))

\* The memo holds right verdicts only.
Right(verdicts) ==
    \A m \in Messages : verdicts[m] # Unset => verdicts[m] = Verdict(FixedSize(m))

OnPath == Path(stack, node)
Answered == Answers(ret, stack, node)

\* What the outer loop has not reached is as it was requested.
Untouched ==
    \A m \in Messages : m >= node => layout[m] = proto.request[m] /\ m \notin reported

Searching == Typed /\ OnPath /\ Answered /\ MemoIsFixedSize
IInv == Searching /\ LayoutsResolved /\ Untouched

\* The graph never changes, and so neither does what is said of it.
LEMMA GraphKept ==
    ASSUME [Next]_vars
    PROVE  proto' = proto
BY DEF Next, Enter, Reject, Accept, Descend, NextField, Propagate, Resolve, Done, vars

\* The parts of the invariant speak of the graph and one variable each.
LEMMA SearchingPrimed ==
    ASSUME proto' = proto
    PROVE  /\ OnPath' <=> Path(stack', node')
           /\ Answered' <=> Answers(ret', stack', node')
           /\ MemoIsFixedSize' <=> Right(memo')
<1>1. OnPath' <=> Path(stack', node')
    BY DEF OnPath, Path, Passed, WaitsFor, FixedSize, Reach, Holds, Disqualified
<1>2. Answered' <=> Answers(ret', stack', node')
    BY DEF Answered, Answers, WaitsFor, FixedSize, Reach, Holds, Disqualified
<1>3. MemoIsFixedSize' <=> Right(memo')
    BY DEF MemoIsFixedSize, Right, FixedSize, Reach, Holds, Disqualified
<1>4. QED
    BY <1>1, <1>2, <1>3

-----------------------------------------------------------------------------
\* The calls

\* The fields of a message are a list of messages and variable-size fields.
LEMMA FieldsTyped ==
    ASSUME Typed, NEW m \in Messages
    PROVE  /\ proto.fields[m] \in Seq(Messages \cup {Variable})
           /\ Len(proto.fields[m]) \in Nat
           /\ DOMAIN proto.fields[m] = 1..Len(proto.fields[m])
           /\ \A i \in DOMAIN proto.fields[m] :
                proto.fields[m][i] # Variable => proto.fields[m][i] \in Holds(m)
<1>1. proto.fields[m] \in Seq(Messages \cup {Variable})
    BY ProtosAssumption DEF Typed
<1>2. Len(proto.fields[m]) \in Nat /\ DOMAIN proto.fields[m] = 1..Len(proto.fields[m])
    BY <1>1, LenProperties
<1>3. \A i \in DOMAIN proto.fields[m] : proto.fields[m][i] \in Messages \cup {Variable}
    BY <1>1, <1>2, ElementOfSeq
<1>4. QED
    BY <1>1, <1>2, <1>3 DEF Holds

\* The innermost call.
LEMMA TopTyped ==
    ASSUME Typed, stack # <<>>
    PROVE  /\ Len(stack) \in Nat \ {0}
           /\ Top \in Frames /\ Top = stack[Len(stack)]
           /\ \A i \in 1..Len(stack) : stack[i] \in Frames
BY EmptySeq, LenProperties, ElementOfSeq DEF Typed, Top

\* Opening a message that the innermost call waits for extends the path.
LEMMA PushKeeps ==
    ASSUME Typed, OnPath, NEW m \in Messages,
           IF stack = <<>> THEN m = node ELSE WaitsFor(Top, m)
    PROVE  LET calls == Append(stack, [msg |-> m, field |-> 1])
           IN  calls \in Seq(Frames) /\ calls # <<>> /\ Path(calls, node)
<1> DEFINE call == [msg |-> m, field |-> 1]
           calls == Append(stack, call)
           n == Len(stack)
<1>1. call \in Frames /\ stack \in Seq(Frames) /\ n \in Nat
    BY LenProperties DEF Frames, Typed
<1>2. /\ calls \in Seq(Frames) /\ calls # <<>> /\ Len(calls) = n + 1
      /\ \A i \in 1..n : calls[i] = stack[i]
      /\ calls[n + 1] = call
    BY <1>1, AppendProperties
<1> HIDE DEF calls
<1>3. node \in Messages /\ calls[1].msg = node
    <2>1. CASE stack = <<>>
        BY <1>2, <2>1, EmptySeq
    <2>2. CASE stack # <<>>
        BY <1>2, <2>2, TopTyped DEF OnPath, Path
    <2>3. QED
        BY <2>1, <2>2
<1>4. Passed(call)
    BY DEF Passed
<1>5. \A i \in 1..(n + 1) : Passed(calls[i])
    BY <1>1, <1>2, <1>4 DEF OnPath, Path
<1>6. \A i \in 1..n : WaitsFor(calls[i], calls[i + 1].msg)
    <2> SUFFICES ASSUME NEW i \in 1..n PROVE WaitsFor(calls[i], calls[i + 1].msg)
        OBVIOUS
    <2>1. CASE i = n
        <3>1. stack # <<>>
            BY <1>1, <2>1, EmptySeq
        <3>2. QED
            BY <1>1, <1>2, <2>1, <3>1 DEF Top
    <2>2. CASE i # n
        BY <1>1, <1>2, <2>2 DEF OnPath, Path
    <2>3. QED
        BY <2>1, <2>2
<1>7. \A i, j \in 1..(n + 1) : i < j => calls[j].msg \in Reach(calls[i].msg)
    <2> SUFFICES ASSUME NEW i \in 1..(n + 1), NEW j \in 1..(n + 1), i < j
                 PROVE  calls[j].msg \in Reach(calls[i].msg)
        OBVIOUS
    <2>1. i \in 1..n /\ calls[i] = stack[i] /\ stack # <<>>
        BY <1>1, <1>2, EmptySeq
    <2>2. CASE j # n + 1
        BY <1>1, <1>2, <2>1, <2>2 DEF OnPath, Path
    <2>3. CASE j = n + 1
        <3>1. Top.msg \in Messages /\ stack[i].msg \in Messages /\ Top = stack[n]
            BY <2>1, TopTyped DEF Frames
        <3>2. m \in Holds(Top.msg)
            BY <2>1 DEF WaitsFor, Holds
        <3>3. CASE i = n
            BY <1>2, <2>1, <2>3, <3>1, <3>2, <3>3, ReachIsLeast
        <3>4. CASE i # n
            <4>1. Top.msg \in Reach(stack[i].msg)
                BY <1>1, <2>1, <3>1, <3>4 DEF OnPath, Path
            <4>2. QED
                BY <1>2, <2>1, <2>3, <3>1, <3>2, <4>1, ReachIsLeast
        <3>5. QED
            BY <3>3, <3>4
    <2>4. QED
        BY <2>2, <2>3
<1>8. QED
    BY <1>1, <1>2, <1>3, <1>5, <1>6, <1>7 DEF Path, calls

\* A message that is being visited and met again holds itself.
LEMMA CutIsRight ==
    ASSUME Typed, OnPath, stack # <<>>, NEW m \in Visiting, WaitsFor(Top, m)
    PROVE  m \in Messages /\ ~FixedSize(m)
<1> DEFINE n == Len(stack)
<1>1. n \in Nat \ {0} /\ n = Len(stack) /\ DOMAIN stack = 1..n /\ Top = stack[n]
    BY TopTyped, LenProperties DEF Typed
<1> HIDE DEF n
<1>2. PICK i \in 1..n : m = stack[i].msg
    BY <1>1 DEF Visiting
<1>3. m \in Messages /\ Top.msg \in Messages
    BY <1>1, <1>2, TopTyped DEF Frames
<1>4. m \in Holds(Top.msg)
    BY <1>3 DEF WaitsFor, Holds
<1>5. m \in Reach(m)
    <2>1. CASE i = n
        BY <1>1, <1>2, <1>3, <1>4, <2>1, ReachIsLeast
    <2>2. CASE i # n
        <3>1. i \in 1..n /\ n \in 1..n /\ i < n
            BY <1>1, <2>2
        <3>2. stack[n].msg \in Reach(stack[i].msg)
            BY <1>1, <3>1 DEF OnPath, Path
        <3>3. Top.msg \in Reach(m)
            BY <1>1, <1>2, <3>2
        <3>4. QED
            BY <1>3, <1>4, <3>3, ReachIsLeast
    <2>3. QED
        BY <2>1, <2>2
<1>6. QED
    BY <1>3, <1>5 DEF FixedSize

\* Returning the right verdict on the innermost message answers its caller.
LEMMA PopKeeps ==
    ASSUME Typed, OnPath, stack # <<>>
    PROVE  LET calls == SubSeq(stack, 1, Len(stack) - 1)
           IN  /\ calls \in Seq(Frames)
               /\ Path(calls, node)
               /\ Answers(Verdict(FixedSize(Top.msg)), calls, node)
<1> DEFINE n == Len(stack)
           calls == SubSeq(stack, 1, n - 1)
<1>1. /\ n \in Nat \ {0} /\ n = Len(stack) /\ Top = stack[n] /\ Top.msg \in Messages
      /\ \A i \in 1..n : stack[i] \in Frames
    BY TopTyped DEF Frames
<1> HIDE DEF n
<1>2. /\ calls \in Seq(Frames) /\ Len(calls) = n - 1
      /\ \A i \in 1..(n - 1) : calls[i] = stack[i]
    <2>1. 1 \in Int /\ n - 1 \in Int /\ \A i \in 1..(n - 1) : stack[i] \in Frames
        BY <1>1
    <2>2. /\ calls \in Seq(Frames)
          /\ Len(calls) = IF 1 <= n - 1 THEN (n - 1) - 1 + 1 ELSE 0
          /\ \A i \in 1..((n - 1) - 1 + 1) : calls[i] = stack[1 + i - 1]
        BY <2>1, SubSeqProperties
    <2> HIDE DEF calls
    <2>3. Len(calls) = n - 1
        BY <1>1, <2>2
    <2>4. (n - 1) - 1 + 1 = n - 1 /\ \A i \in 1..(n - 1) : 1 + i - 1 = i
        BY <1>1
    <2>5. QED
        BY <2>2, <2>3, <2>4
<1> HIDE DEF calls
<1>3. Path(calls, node)
    <2>1. \A i \in 1..(n - 1) : i \in 1..n /\ calls[i] = stack[i]
        BY <1>1, <1>2
    <2>2. ASSUME calls # <<>> PROVE node \in Messages /\ calls[1].msg = node
        <3>1. 1 \in 1..(n - 1)
            BY <1>1, <1>2, <2>2, EmptySeq
        <3>2. calls[1] = stack[1]
            BY <2>1, <3>1
        <3>3. QED
            BY <3>2 DEF OnPath, Path
    <2>3. \A i \in 1..(n - 1) : Passed(calls[i])
        BY <1>1, <2>1 DEF OnPath, Path
    <2>4. \A i \in 1..((n - 1) - 1) : WaitsFor(calls[i], calls[i + 1].msg)
        <3>1. \A i \in 1..((n - 1) - 1) : i \in 1..(n - 1) /\ i + 1 \in 1..(n - 1)
            BY <1>1
        <3>2. \A i \in 1..(n - 1) : WaitsFor(stack[i], stack[i + 1].msg)
            BY <1>1 DEF OnPath, Path
        <3>3. QED
            BY <2>1, <3>1, <3>2
    <2>5. \A i, j \in 1..(n - 1) : i < j => calls[j].msg \in Reach(calls[i].msg)
        <3>1. \A i, j \in 1..n : i < j => stack[j].msg \in Reach(stack[i].msg)
            BY <1>1 DEF OnPath, Path
        <3>2. QED
            BY <2>1, <3>1
    <2>6. QED
        BY <1>2, <2>2, <2>3, <2>4, <2>5 DEF Path
<1>4. Answers(Verdict(FixedSize(Top.msg)), calls, node)
    <2>1. CASE calls = <<>>
        <3>1. n = 1
            <4>1. Len(calls) = n - 1 /\ n \in Nat
                BY <1>1, <1>2
            <4>2. Len(calls) = 0
                BY <2>1
            <4>3. QED
                BY <4>1, <4>2
        <3>2. Top.msg = node /\ node \in Messages
            BY <1>1, <3>1 DEF OnPath, Path
        <3>3. QED
            BY <2>1, <3>2 DEF Answers
    <2>2. CASE calls # <<>>
        <3>1. n - 1 \in 1..n /\ n - 1 \in 1..(n - 1)
            BY <1>1, <1>2, <2>2, EmptySeq
        <3>2. WaitsFor(stack[n - 1], stack[(n - 1) + 1].msg)
            BY <1>1, <3>1 DEF OnPath, Path
        <3>3. WaitsFor(calls[Len(calls)], Top.msg)
            BY <1>1, <1>2, <3>1, <3>2
        <3>4. QED
            BY <1>1, <2>2, <3>3 DEF Answers
    <2>3. QED
        BY <2>1, <2>2
<1>5. QED
    BY <1>2, <1>3, <1>4 DEF calls, n

\* A call of packable answers rightly, from the memo or by cutting a cycle, or
\* it opens the message.
LEMMA CallKeeps ==
    ASSUME Typed, OnPath, MemoIsFixedSize, NEW m \in Messages,
           IF stack = <<>> THEN m = node ELSE WaitsFor(Top, m),
           Call(m)
    PROVE  /\ stack' \in Seq(Frames) /\ ret' \in Verdicts
           /\ Path(stack', node) /\ Answers(ret', stack', node)
<1>1. CASE memo[m] # Unset
    <2>1. ret' = memo[m] /\ stack' = stack
        BY <1>1 DEF Call
    <2>2. ret' = Verdict(FixedSize(m)) /\ ret' \in Verdicts
        BY <1>1, <2>1 DEF MemoIsFixedSize, Typed
    <2>3. Answers(ret', stack', node)
        BY <2>1, <2>2 DEF Answers, Top
    <2>4. QED
        BY <2>1, <2>2, <2>3 DEF Typed, OnPath
<1>2. CASE memo[m] = Unset /\ m \in Visiting
    <2>1. ret' = Verdict(FALSE) /\ stack' = stack
        BY <1>2 DEF Call
    <2>2. stack # <<>>
        BY <1>2 DEF Visiting
    <2>3. ~FixedSize(m)
        BY <1>2, <2>2, CutIsRight
    <2>4. Verdict(FixedSize(m)) = Verdict(FALSE)
        BY <2>3 DEF Verdict
    <2>5. Answers(ret', stack', node)
        BY <2>1, <2>2, <2>4 DEF Answers, Top
    <2>6. QED
        BY <2>1, <2>5 DEF Typed, OnPath, Verdicts
<1>3. CASE memo[m] = Unset /\ m \notin Visiting
    <2>1. ret' = Unset /\ stack' = Append(stack, [msg |-> m, field |-> 1])
        BY <1>3 DEF Call
    <2>2. stack' \in Seq(Frames) /\ Path(stack', node)
        BY <2>1, PushKeeps
    <2>3. QED
        BY <2>1, <2>2 DEF Answers, Verdicts
<1>4. QED
    BY <1>1, <1>2, <1>3

\* A call that returns the right verdict leaves its caller with it, and the memo
\* right.
LEMMA ReturnKeeps ==
    ASSUME Typed, OnPath, MemoIsFixedSize, stack # <<>>,
           NEW ok \in BOOLEAN, ok <=> FixedSize(Top.msg), Return(ok)
    PROVE  /\ stack' \in Seq(Frames) /\ ret' \in Verdicts
           /\ memo' \in [Messages -> Verdicts]
           /\ Path(stack', node) /\ Answers(ret', stack', node) /\ Right(memo')
<1>1. Verdict(ok) = Verdict(FixedSize(Top.msg)) /\ Verdict(ok) \in Verdicts
    BY DEF Verdict, Verdicts
<1>2. Top.msg \in Messages
    BY TopTyped DEF Frames
<1>3. /\ ret' = Verdict(ok) /\ stack' = SubSeq(stack, 1, Len(stack) - 1)
      /\ memo' = [memo EXCEPT ![Top.msg] = Verdict(ok)]
    BY DEF Return
<1>4. memo' \in [Messages -> Verdicts]
    BY <1>1, <1>2, <1>3 DEF Typed
<1>5. Right(memo')
    <2> SUFFICES ASSUME NEW m \in Messages, memo'[m] # Unset
                 PROVE  memo'[m] = Verdict(FixedSize(m))
        BY DEF Right
    <2>1. CASE m = Top.msg
        BY <1>1, <1>2, <1>3, <2>1 DEF Typed
    <2>2. CASE m # Top.msg
        <3>1. memo'[m] = memo[m]
            BY <1>3, <2>2 DEF Typed
        <3>2. QED
            BY <3>1 DEF MemoIsFixedSize
    <2>3. QED
        BY <2>1, <2>2
<1>6. stack' \in Seq(Frames) /\ Path(stack', node) /\ Answers(ret', stack', node)
    BY <1>1, <1>3, PopKeeps
<1>7. QED
    BY <1>1, <1>3, <1>4, <1>5, <1>6

\* The verdicts that are not passed on from a callee.
LEMMA OwnVerdict ==
    ASSUME Typed, OnPath, stack # <<>>
    PROVE  /\ Disqualified(Top.msg) => ~FixedSize(Top.msg)
           /\ Top.field \in DOMAIN Fields /\ Fields[Top.field] = Variable
                => ~FixedSize(Top.msg)
           /\ ~Disqualified(Top.msg) /\ Top.field > Len(Fields) => FixedSize(Top.msg)
<1>1. Top.msg \in Messages /\ Top.field \in Nat \ {0}
    BY TopTyped DEF Frames
<1>2. Disqualified(Top.msg) => ~FixedSize(Top.msg)
    BY DEF FixedSize
<1>3. Top.field \in DOMAIN Fields /\ Fields[Top.field] = Variable => ~FixedSize(Top.msg)
    BY DEF FixedSize, Fields
<1>4. ASSUME ~Disqualified(Top.msg), Top.field > Len(Fields)
      PROVE  FixedSize(Top.msg)
    <2>1. Len(Fields) \in Nat /\ DOMAIN Fields = 1..Len(Fields)
        BY <1>1, FieldsTyped DEF Fields
    <2>2. Passed(Top)
        BY TopTyped DEF OnPath, Path
    <2>3. \A i \in DOMAIN Fields : Fields[i] \in Messages /\ FixedSize(Fields[i])
        <3>1. \A i \in DOMAIN Fields : i \in 1..(Top.field - 1)
            BY <1>1, <1>4, <2>1
        <3>2. QED
            BY <2>2, <3>1 DEF Passed, Fields
    <2>4. ~HasVariable(Top.msg)
        <3>1. Variable \notin Messages
            BY MessagesAssumption, FS_CardinalityType DEF Variable
        <3>2. QED
            BY <2>3, <3>1 DEF HasVariable, Fields
    <2>5. \A h \in Holds(Top.msg) : FixedSize(h)
        BY <2>3 DEF Holds, Fields
    <2>6. QED
        BY <1>1, <1>4, <2>4, <2>5, FixedSizeAbove
<1>5. QED
    BY <1>2, <1>3, <1>4

\* Back in its loop, a call has passed the field it waited for.
LEMMA NextFieldKeeps ==
    ASSUME Searching, NextField
    PROVE  stack' \in Seq(Frames) /\ Path(stack', node)
<1>1. /\ Typed /\ OnPath /\ stack # <<>> /\ ret = Verdict(TRUE)
      /\ Answers(Verdict(TRUE), stack, node)
    BY DEF Searching, NextField, Answered
<1> DEFINE n == Len(stack)
           call == [msg |-> Top.msg, field |-> Top.field + 1]
<1>2. /\ n \in Nat \ {0} /\ n = Len(stack) /\ stack \in Seq(Frames)
      /\ Top \in Frames /\ Top = stack[n] /\ \A i \in 1..n : stack[i] \in Frames
    BY <1>1, TopTyped DEF Typed
<1>3. call \in Frames /\ call.msg = Top.msg /\ call.field = Top.field + 1
    BY <1>2 DEF Frames
<1>4. stack' = [stack EXCEPT ![n] = call]
    <2>1. stack' = [stack EXCEPT ![n] = [stack[n] EXCEPT !.field = @ + 1]]
        BY <1>2 DEF NextField
    <2>2. [Top EXCEPT !.field = @ + 1] = call
        BY <1>2 DEF Frames
    <2>3. QED
        BY <1>2, <2>1, <2>2
<1> HIDE DEF n, call
<1>5. /\ stack' \in Seq(Frames) /\ Len(stack') = n /\ stack'[n] = call
      /\ \A i \in 1..n : i # n => stack'[i] = stack[i]
    <2>1. n \in 1..n /\ n \in 1..Len(stack)
        BY <1>2
    <2>2. QED
        BY <1>2, <1>3, <1>4, <2>1, ExceptSeq
<1>6. \A i \in 1..n : stack'[i].msg = stack[i].msg
    BY <1>2, <1>3, <1>5
<1>7. stack # <<>> => node \in Messages /\ stack'[1].msg = node
    <2>1. 1 \in 1..n
        BY <1>2
    <2>2. QED
        BY <1>1, <1>6, <2>1 DEF OnPath, Path
<1>8. Passed(call)
    <2>1. PICK m \in Messages : WaitsFor(stack[n], m) /\ Verdict(TRUE) = Verdict(FixedSize(m))
        BY <1>1, <1>2 DEF Answers, Verdict, Unset
    <2>2. FixedSize(m)
        BY <2>1 DEF Verdict
    <2>3. Passed(Top)
        BY <1>2 DEF OnPath, Path, Searching
    <2>4. Top.field \in Nat \ {0} /\ call.field - 1 = Top.field
        BY <1>2, <1>3 DEF Frames
    <2>5. \A j \in 1..Top.field : j = Top.field \/ j \in 1..(Top.field - 1)
        BY <2>4
    <2>6. QED
        BY <1>2, <1>3, <2>1, <2>2, <2>3, <2>4, <2>5 DEF Passed, WaitsFor
<1>9. \A i \in 1..n : Passed(stack'[i])
    BY <1>1, <1>2, <1>5, <1>8 DEF OnPath, Path
<1>10. \A i \in 1..(n - 1) : WaitsFor(stack'[i], stack'[i + 1].msg)
    <2>1. \A i \in 1..(n - 1) : i \in 1..n /\ i # n /\ i + 1 \in 1..n
        BY <1>2
    <2>2. \A i \in 1..(n - 1) : WaitsFor(stack[i], stack[i + 1].msg)
        BY <1>1, <1>2 DEF OnPath, Path
    <2>3. QED
        BY <1>5, <1>6, <2>1, <2>2
<1>11. \A i, j \in 1..n : i < j => stack'[j].msg \in Reach(stack'[i].msg)
    BY <1>1, <1>2, <1>6 DEF OnPath, Path
<1>12. QED
    BY <1>1, <1>5, <1>7, <1>9, <1>10, <1>11 DEF Path

\* Every step of the search keeps what the search relies on.
LEMMA SearchStep ==
    ASSUME Searching, [Next]_vars
    PROVE  Searching'
<1> USE DEF Searching
<1>0. Typed /\ OnPath /\ Answered /\ MemoIsFixedSize /\ proto \in Protos /\ proto' = proto
    BY GraphKept DEF Typed
<1>1. ASSUME /\ layout' \in [Messages -> {"unspecified", "struct", "table"}]
             /\ reported' \subseteq Messages
             /\ node' \in Nat \ {0}
             /\ memo' \in [Messages -> Verdicts] /\ Right(memo')
             /\ stack' \in Seq(Frames) /\ Path(stack', node')
             /\ ret' \in Verdicts /\ Answers(ret', stack', node')
      PROVE  Searching'
    <2>1. Typed'
        BY <1>0, <1>1 DEF Typed
    <2>2. OnPath' /\ Answered' /\ MemoIsFixedSize'
        BY <1>0, <1>1, SearchingPrimed
    <2>3. QED
        BY <2>1, <2>2
<1>2. /\ layout \in [Messages -> {"unspecified", "struct", "table"}]
      /\ reported \subseteq Messages /\ node \in Nat \ {0}
      /\ memo \in [Messages -> Verdicts] /\ Right(memo)
      /\ stack \in Seq(Frames) /\ Path(stack, node)
      /\ ret \in Verdicts /\ Answers(ret, stack, node)
    BY <1>0 DEF Typed, OnPath, Answered, MemoIsFixedSize, Right
<1>3. CASE Enter
    <2>1. /\ node \in Messages /\ stack = <<>> /\ Call(node)
          /\ layout' = layout /\ reported' = reported /\ node' = node /\ memo' = memo
        BY <1>3 DEF Enter
    <2>2. /\ stack' \in Seq(Frames) /\ ret' \in Verdicts
          /\ Path(stack', node) /\ Answers(ret', stack', node)
        BY <1>0, <2>1, CallKeeps
    <2>3. QED
        BY <1>1, <1>2, <2>1, <2>2
<1>4. ASSUME stack # <<>>, NEW ok \in BOOLEAN, ok <=> FixedSize(Top.msg), Return(ok),
             UNCHANGED <<proto, layout, reported, node>>
      PROVE  Searching'
    <2>1. /\ stack' \in Seq(Frames) /\ ret' \in Verdicts
          /\ memo' \in [Messages -> Verdicts]
          /\ Path(stack', node) /\ Answers(ret', stack', node) /\ Right(memo')
        BY <1>0, <1>4, ReturnKeeps
    <2>2. QED
        BY <1>1, <1>2, <1>4, <2>1
<1>5. CASE Reject
    <2>1. stack # <<>> /\ Return(FALSE) /\ UNCHANGED <<proto, layout, reported, node>>
        BY <1>5 DEF Reject
    <2>2. ~FixedSize(Top.msg)
        BY <1>0, <1>5, <2>1, OwnVerdict DEF Reject
    <2>3. QED
        BY <1>4, <2>1, <2>2
<1>6. CASE Accept
    <2>1. stack # <<>> /\ Return(TRUE) /\ UNCHANGED <<proto, layout, reported, node>>
        BY <1>6 DEF Accept
    <2>2. FixedSize(Top.msg)
        BY <1>0, <1>6, <2>1, OwnVerdict DEF Accept
    <2>3. QED
        BY <1>4, <2>1, <2>2
<1>7. CASE Descend
    <2>1. /\ stack # <<>> /\ Top.field \in DOMAIN Fields /\ Fields[Top.field] # Variable
          /\ Call(Fields[Top.field])
          /\ layout' = layout /\ reported' = reported /\ node' = node /\ memo' = memo
        BY <1>7 DEF Descend
    <2>2. Top.msg \in Messages
        BY <1>0, <2>1, TopTyped DEF Frames
    <2>3. Fields[Top.field] \in Messages /\ WaitsFor(Top, Fields[Top.field])
        BY <1>0, <2>1, <2>2, FieldsTyped DEF Fields, Holds, WaitsFor
    <2>4. /\ stack' \in Seq(Frames) /\ ret' \in Verdicts
          /\ Path(stack', node) /\ Answers(ret', stack', node)
        BY <1>0, <2>1, <2>3, CallKeeps
    <2>5. QED
        BY <1>1, <1>2, <2>1, <2>4
<1>8. CASE NextField
    <2>1. stack' \in Seq(Frames) /\ Path(stack', node)
        BY <1>8, NextFieldKeeps
    <2>2. /\ layout' = layout /\ reported' = reported /\ node' = node /\ memo' = memo
          /\ ret' = Unset
        BY <1>8 DEF NextField
    <2>3. QED
        BY <1>1, <1>2, <2>1, <2>2 DEF Answers, Verdicts
<1>9. CASE Propagate
    <2>1. /\ stack # <<>> /\ ret = Verdict(FALSE) /\ Return(FALSE)
          /\ UNCHANGED <<proto, layout, reported, node>>
        BY <1>9 DEF Propagate
    <2>2. Top.msg \in Messages /\ Top = stack[Len(stack)]
        BY <1>0, <2>1, TopTyped DEF Frames
    <2>3. PICK m \in Messages : WaitsFor(Top, m) /\ Verdict(FALSE) = Verdict(FixedSize(m))
        BY <1>2, <2>1, <2>2 DEF Answers, Verdict, Unset
    <2>4. ~FixedSize(m)
        BY <2>3 DEF Verdict
    <2>5. m \in Holds(Top.msg)
        BY <2>3 DEF WaitsFor, Holds
    <2>6. ~FixedSize(Top.msg)
        BY <2>2, <2>4, <2>5, FixedSizeBelow
    <2>7. QED
        BY <1>4, <2>1, <2>6
<1>10. CASE Resolve
    <2>1. /\ stack' = stack /\ memo' = memo /\ ret' = Unset /\ node' = node + 1
          /\ stack = <<>>
        BY <1>10 DEF Resolve
    <2>2. layout' \in [Messages -> {"unspecified", "struct", "table"}]
        BY <1>2, <1>10 DEF Resolve
    <2>3. reported' \subseteq Messages
        <3>1. proto.generated \subseteq Messages
            BY <1>0, ProtosAssumption
        <3>2. QED
            BY <1>2, <1>10, <3>1 DEF Resolve
    <2>4. Path(stack', node') /\ Answers(ret', stack', node')
        <3>1. Len(stack) = 0
            BY <2>1
        <3>2. QED
            BY <2>1, <3>1 DEF Path, Answers
    <2>5. node' \in Nat \ {0} /\ ret' \in Verdicts
        BY <1>2, <2>1 DEF Verdicts
    <2>6. QED
        BY <1>1, <1>2, <2>1, <2>2, <2>3, <2>4, <2>5
<1>11. CASE Done \/ UNCHANGED vars
    <2>1. UNCHANGED vars
        BY <1>11 DEF Done
    <2>2. QED
        BY <1>1, <1>2, <2>1 DEF vars
<1>12. QED
    BY <1>3, <1>5, <1>6, <1>7, <1>8, <1>9, <1>10, <1>11 DEF Next

\* What FixedSize says is said of the graph only.
LEMMA FixedSizeKept ==
    ASSUME proto' = proto, NEW m \in Messages
    PROVE  FixedSize(m)' <=> FixedSize(m)
BY DEF FixedSize, Reach, Holds, Disqualified

\* The outer loop decides a layout by the right verdict, once, in order.
LEMMA ResolveStep ==
    ASSUME IInv, [Next]_vars
    PROVE  LayoutsResolved' /\ Untouched'
<1>1. /\ Typed /\ Answered /\ LayoutsResolved /\ Untouched
      /\ proto' = proto /\ node \in Nat \ {0} /\ Messages \subseteq Nat
      /\ layout \in [Messages -> {"unspecified", "struct", "table"}]
    BY GraphKept, MessagesAssumption, FS_CardinalityType DEF IInv, Searching, Typed
<1>2. \A m \in Messages : FixedSize(m)' <=> FixedSize(m)
    BY <1>1, FixedSizeKept
<1>3. CASE Resolve
    <2>1. /\ stack = <<>> /\ ret # Unset /\ node' = node + 1
          /\ layout' = [layout EXCEPT ![node] =
                IF @ = "struct" /\ ret = Verdict(TRUE) THEN "struct" ELSE "table"]
          /\ reported' = reported \cup {m \in {node} \cap proto.generated :
                                    layout[m] = "struct" /\ ret = Verdict(FALSE)}
        BY <1>3 DEF Resolve
    <2>2. node \in Messages /\ ret = Verdict(FixedSize(node))
        BY <1>1, <2>1 DEF Answered, Answers
    <2>3. /\ ret = Verdict(TRUE) <=> FixedSize(node)
          /\ ret = Verdict(FALSE) <=> ~FixedSize(node)
        BY <2>2 DEF Verdict
    <2>4. \A m \in Messages : m # node => layout'[m] = layout[m]
        BY <1>1, <2>1
    <2>5. /\ layout'[node] = IF layout[node] = "struct" /\ ret = Verdict(TRUE)
                                THEN "struct" ELSE "table"
          /\ layout[node] = proto.request[node] /\ node \notin reported
        BY <1>1, <2>1, <2>2 DEF Untouched
    <2>6. \A m \in Messages : m # node => (m \in reported' <=> m \in reported)
        BY <2>1
    <2>7. node \in reported' <=> /\ node \in proto.generated
                                 /\ layout[node] = "struct" /\ ret = Verdict(FALSE)
        BY <2>1, <2>5
    <2>8. LayoutsResolved'
        <3> SUFFICES ASSUME NEW m \in Messages, m < node'
                     PROVE  /\ layout'[m] = "struct" <=> proto.request[m] = "struct" /\ FixedSize(m)
                            /\ layout'[m] # "unspecified"
                            /\ m \in reported' <=>
                                 /\ m \in proto.generated
                                 /\ proto.request[m] = "struct" /\ layout'[m] = "table"
            BY <1>1, <1>2 DEF LayoutsResolved
        <3>1. CASE m = node
            BY <2>3, <2>5, <2>7, <3>1
        <3>2. CASE m # node
            <4>1. m < node
                BY <1>1, <2>1, <3>2
            <4>2. QED
                BY <1>1, <2>4, <2>6, <3>2, <4>1 DEF LayoutsResolved
        <3>3. QED
            BY <3>1, <3>2
    <2>9. Untouched'
        <3> SUFFICES ASSUME NEW m \in Messages, m >= node'
                     PROVE  layout'[m] = proto.request[m] /\ m \notin reported'
            BY <1>1 DEF Untouched
        <3>1. m >= node /\ m # node
            BY <1>1, <2>1
        <3>2. QED
            BY <1>1, <2>4, <2>6, <3>1 DEF Untouched
    <2>10. QED
        BY <2>8, <2>9
<1>4. CASE ~Resolve
    <2>1. layout' = layout /\ reported' = reported /\ node' = node
        BY <1>4 DEF Next, Enter, Reject, Accept, Descend, NextField, Propagate, Done, vars
    <2>2. QED
        BY <1>1, <1>2, <2>1 DEF LayoutsResolved, Untouched
<1>5. QED
    BY <1>3, <1>4

\* The search begins with nothing decided.
LEMMA SearchInit ==
    ASSUME Init
    PROVE  IInv
<1>1. Typed
    BY ProtosAssumption DEF Init, Typed, Verdicts
<1>2. OnPath
    <2>1. stack = <<>> /\ Len(stack) = 0
        BY DEF Init
    <2>2. QED
        BY <2>1 DEF OnPath, Path
<1>3. Answered /\ MemoIsFixedSize
    BY DEF Init, Answered, Answers, MemoIsFixedSize
<1>4. LayoutsResolved
    <2>1. \A m \in Messages : m \in Nat \ {0} /\ ~(m < 1)
        BY MessagesAssumption, FS_CardinalityType
    <2>2. QED
        BY <2>1 DEF Init, LayoutsResolved
<1>5. Untouched
    BY DEF Init, Untouched
<1>6. QED
    BY <1>1, <1>2, <1>3, <1>4, <1>5 DEF IInv, Searching

\* The inductive invariant holds throughout the search.
LEMMA SearchAlways == Spec => []IInv
<1>1. Init => IInv
    BY SearchInit
<1>2. IInv /\ [Next]_vars => IInv'
    BY SearchStep, ResolveStep DEF IInv
<1>3. QED
    BY <1>1, <1>2, PTL DEF Spec

-----------------------------------------------------------------------------

\* Whatever the graph and wherever the search cut a cycle, a verdict the memo of
\* packable holds is the right one: "the memo makes the traversal order
\* irrelevant to the result" (layout.go).
THEOREM MemoIsRight == Spec => []MemoIsFixedSize
<1>1. IInv => MemoIsFixedSize
    BY DEF IInv, Searching
<1>2. QED
    BY <1>1, SearchAlways, PTL

\* resolveLayouts packs a message exactly when it was asked to and can be, leaves
\* none undecided, and reports every generated message it could not pack.
THEOREM LayoutsAreResolved == Spec => []LayoutsResolved
<1>1. IInv => LayoutsResolved
    BY DEF IInv
<1>2. QED
    BY <1>1, SearchAlways, PTL
=============================================================================
