------------------------------- MODULE Layout --------------------------------
(***************************************************************************)
(* resolveLayouts and packable of package buffers, one step per call,      *)
(* loop iteration and return: a depth-first search over the message graph  *)
(* with a memo and a set of messages being visited, run from every message *)
(* in sorted node order, which decides the layout of each.                 *)
(*                                                                         *)
(* A message is the sequence of its fields in number order: the message a  *)
(* field holds, or Variable for a field without a fixed size (a string, a  *)
(* map, an unbounded list, explicit presence, a well-known or a missing    *)
(* message).  Fields the loop passes over are left out.                    *)
(***************************************************************************)
EXTENDS Integers, Sequences, FiniteSets

CONSTANTS Messages,         \* numbered from 1, in sorted node order
          Protos            \* the compilation units to resolve

Variable == 0

Unset == "unset"            \* a verdict not reached yet
Verdict(ok) == IF ok THEN "packable" ELSE "not packable"

ASSUME MessagesAssumption == IsFiniteSet(Messages) /\ Messages = 1..Cardinality(Messages)
ASSUME ProtosAssumption ==
    \A p \in Protos :
        /\ p.fields \in [Messages -> Seq(Messages \cup {Variable})]
        /\ p.request \in [Messages -> {"unspecified", "struct", "table"}]
        /\ p.closed \subseteq Messages      \* a map entry, a resource, a oneof
        /\ p.held \subseteq Messages        \* a reserved number below a live one
        /\ p.generated \subseteq Messages   \* in a generate-flagged file

VARIABLES
    proto,      \* the compilation unit
    layout,     \* msg.Layout
    reported,   \* the messages of the RuleLayout diagnostics
    node,       \* the message the outer loop is at
    memo,       \* the eligible map: the verdicts so far
    stack,      \* the calls of packable in progress, the innermost last
    ret         \* the verdict just returned, or Unset

vars == <<proto, layout, reported, node, memo, stack, ret>>

Init ==
    /\ proto \in Protos
    /\ layout = proto.request
    /\ reported = {}
    /\ node = 1
    /\ memo = [m \in Messages |-> Unset]
    /\ stack = <<>>
    /\ ret = Unset

-----------------------------------------------------------------------------

Visiting == {stack[i].msg : i \in DOMAIN stack}

\* mutant: a cycle is assumed to be packable until something says otherwise
CallOptimistic(m) ==
    IF memo[m] # Unset THEN ret' = memo[m] /\ UNCHANGED stack
    ELSE IF m \in Visiting THEN ret' = Verdict(TRUE) /\ UNCHANGED stack
    ELSE ret' = Unset /\ stack' = Append(stack, [msg |-> m, field |-> 1])

\* packable(m): the memo answers, or the cycle is cut, or the message is opened.
Call(m) ==
    IF memo[m] # Unset THEN ret' = memo[m] /\ UNCHANGED stack
    ELSE IF m \in Visiting THEN ret' = Verdict(FALSE) /\ UNCHANGED stack
    ELSE ret' = Unset /\ stack' = Append(stack, [msg |-> m, field |-> 1])

Top == stack[Len(stack)]
Fields == proto.fields[Top.msg]

\* The innermost call memoizes its verdict and returns it.
Return(ok) ==
    /\ memo' = [memo EXCEPT ![Top.msg] = Verdict(ok)]
    /\ stack' = SubSeq(stack, 1, Len(stack) - 1)
    /\ ret' = Verdict(ok)

\* assignSlots left held slots on the messages of generated files only.
Disqualified(m) ==
    \/ m \in proto.closed
    \/ m \in proto.held \cap proto.generated

Enter ==
    /\ node \in Messages /\ stack = <<>> /\ ret = Unset
    /\ Call(node)
    /\ UNCHANGED <<proto, layout, reported, node, memo>>

Reject ==
    /\ stack # <<>> /\ ret = Unset
    /\ \/ Disqualified(Top.msg)
       \/ Top.field \in DOMAIN Fields /\ Fields[Top.field] = Variable
    /\ Return(FALSE)
    /\ UNCHANGED <<proto, layout, reported, node>>

Accept ==
    /\ stack # <<>> /\ ret = Unset
    /\ ~Disqualified(Top.msg) /\ Top.field > Len(Fields)
    /\ Return(TRUE)
    /\ UNCHANGED <<proto, layout, reported, node>>

Descend ==
    /\ stack # <<>> /\ ret = Unset
    /\ ~Disqualified(Top.msg)
    /\ Top.field \in DOMAIN Fields /\ Fields[Top.field] # Variable
    /\ Call(Fields[Top.field])
    /\ UNCHANGED <<proto, layout, reported, node, memo>>

\* mutant: the caller looks at the same field again
SameField ==
    /\ stack # <<>> /\ ret = Verdict(TRUE)
    /\ ret' = Unset
    /\ UNCHANGED <<proto, layout, reported, node, memo, stack>>

\* Back in the caller's loop.
NextField ==
    /\ stack # <<>> /\ ret = Verdict(TRUE)
    /\ stack' = [stack EXCEPT ![Len(stack)].field = @ + 1]
    /\ ret' = Unset
    /\ UNCHANGED <<proto, layout, reported, node, memo>>

Propagate ==
    /\ stack # <<>> /\ ret = Verdict(FALSE)
    /\ Return(FALSE)
    /\ UNCHANGED <<proto, layout, reported, node>>

\* mutant: a message that does not qualify is reported and left as it is
ResolveKeeping ==
    /\ stack = <<>> /\ ret # Unset
    /\ layout' = [layout EXCEPT ![node] = IF @ = "struct" THEN @ ELSE "table"]
    /\ reported' = reported \cup
                    {m \in {node} \cap proto.generated : layout[m] = "struct" /\ ret = Verdict(FALSE)}
    /\ node' = node + 1
    /\ ret' = Unset
    /\ UNCHANGED <<proto, memo, stack>>

\* The switch on msg.Layout after the call.
Resolve ==
    /\ stack = <<>> /\ ret # Unset
    /\ layout' = [layout EXCEPT ![node] =
                    IF @ = "struct" /\ ret = Verdict(TRUE) THEN "struct" ELSE "table"]
    /\ reported' = reported \cup
                    {m \in {node} \cap proto.generated : layout[m] = "struct" /\ ret = Verdict(FALSE)}
    /\ node' = node + 1
    /\ ret' = Unset
    /\ UNCHANGED <<proto, memo, stack>>

Done ==
    /\ node \notin Messages
    /\ UNCHANGED vars

Next == \/ Enter \/ Reject \/ Accept \/ Descend
        \/ NextField \/ Propagate \/ Resolve \/ Done

Spec == Init /\ [][Next]_vars /\ WF_vars(Next)

-----------------------------------------------------------------------------
\* Properties

Holds(m) == {proto.fields[m][i] : i \in DOMAIN proto.fields[m]} \cap Messages

\* Everything a message holds, directly or not: the least set closed under it.
Reach(m) ==
    {x \in Messages : \A S \in SUBSET Messages :
        (Holds(m) \subseteq S /\ \A y \in S : Holds(y) \subseteq S) => x \in S}

\* A message has a fixed size when nothing in or under it disqualifies it and
\* nothing in or under it holds itself.
FixedSize(m) ==
    \A x \in {m} \cup Reach(m) :
        /\ ~Disqualified(x)
        /\ Variable \notin {proto.fields[x][i] : i \in DOMAIN proto.fields[x]}
        /\ x \notin Reach(x)

\* A memoized verdict is right even when it was reached under a cut cycle: "the
\* memo makes the traversal order irrelevant to the result" (layout.go).
MemoIsFixedSize == \A m \in Messages : memo[m] # Unset => memo[m] = Verdict(FixedSize(m))

\* Once resolved, a layout is packed exactly when it was asked for and can be
\* had, and every generated message that lost it was reported.
LayoutsResolved ==
    \A m \in Messages : m < node =>
        /\ layout[m] = "struct" <=> proto.request[m] = "struct" /\ FixedSize(m)
        /\ layout[m] # "unspecified"
        /\ m \in reported <=> /\ m \in proto.generated
                              /\ proto.request[m] = "struct" /\ layout[m] = "table"

\* The search ends on every message graph, recursive ones included.
Terminates == <>(node \notin Messages)

\* "A generated schema has to know whether an imported message is a packed record
\* before it can reference it" (layout.go): a build reaches the verdict on an
\* imported message that the build of the module emitting it reaches.
ImportedAsEmitted ==
    \A m \in Messages : m < node /\ m \notin proto.generated =>
        (layout[m] = "struct" => m \notin proto.held)
=============================================================================
