------------------------------ MODULE Bindings -------------------------------
(***************************************************************************)
(* The IR build of package service over the methods of one service: the    *)
(* request and response messages are materialized, then every rule of the  *)
(* method is resolved against them, and the fields the path and the body   *)
(* leave over become query parameters.                                     *)
(*                                                                         *)
(* A field is known by its position in its message, a field path is the    *)
(* sequence of positions.  The proto, the protojson and the dotted         *)
(* spellings of a path are in one-to-one correspondence, so a path stands  *)
(* for all three.                                                          *)
(***************************************************************************)
EXTENDS Naturals, Sequences, FiniteSets, SequencesExt

CONSTANTS Messages,         \* full names
          StringLike,       \* well-known types spelled as one string, and wrappers
          Structured,       \* the other well-known types: HttpBody, Struct, Operation
          MaxQueryDepth,
          Protos            \* the services to build

ASSUME WellKnownAssumption ==
    StringLike \subseteq Messages /\ Structured \subseteq Messages
ASSUME DepthAssumption == MaxQueryDepth \in Nat

NoMessage == "none"         \* the type of a field that holds no message
ASSUME MessagesAssumption == IsFiniteSet(Messages) /\ NoMessage \notin Messages

NoBody == <<>>              \* an absent body or response_body
Wildcard == <<0>>           \* body: "*"

\* A field of the descriptors: an enum is a scalar, type is what a message field
\* or a map's values hold.
FieldType == [kind : {"scalar", "message", "map"}, type : Messages \cup {NoMessage},
              repeated : BOOLEAN, outputOnly : BOOLEAN]

ASSUME ProtosAssumption ==
    \A p \in Protos :
        /\ p.fields \in [Messages -> Seq(FieldType)]
        /\ p.methods \in Seq({p.methods[i] : i \in DOMAIN p.methods})
        /\ \A i \in DOMAIN p.methods :
              /\ p.methods[i].input \in Messages /\ p.methods[i].output \in Messages
              /\ p.methods[i].rules \in Seq(ToSet(p.methods[i].rules))
              /\ \A rule \in ToSet(p.methods[i].rules) :
                    /\ rule.captures \subseteq Seq(Nat) \ {<<>>}
                    /\ rule.body \in Seq(Nat) /\ rule.responseBody \in Seq(Nat)

VARIABLES
    proto,      \* the fields of every message, the methods of the service
    messages,   \* the keys of b.messages
    stack,      \* the calls of b.message in progress: the fields still to walk
    phase,      \* what method() does next, or how Build ended
    bindings,   \* method.Bindings of the method being built
    methods     \* svc.Methods

vars == <<proto, messages, stack, phase, bindings, methods>>

WellKnown == StringLike \cup Structured
Method == proto.methods[Len(methods) + 1]

Init ==
    /\ proto \in Protos
    /\ messages = {}
    /\ stack = <<>>
    /\ phase = "input"
    /\ bindings = <<>>
    /\ methods = <<>>

-----------------------------------------------------------------------------
(* Materialization.                                                        *)

\* mutant: a message is registered by the call that opens it, but never opened
MaterializeShallow(m, calls) == messages' = messages \cup {m} /\ stack' = calls

\* mutant: a message is registered once it has been opened, not before
MaterializeUnguarded(m, calls) ==
    /\ messages' = messages \cup {m}
    /\ stack' = Append(calls, proto.fields[m])

\* b.message(m) below the given calls: the memo answers, or the message is
\* registered and then opened.
Materialize(m, calls) ==
    /\ messages' = messages \cup {m}
    /\ stack' = IF m \in messages THEN calls ELSE Append(calls, proto.fields[m])

\* mutant: the values of a map are not walked
OpensSingular(f) == f.kind = "message" /\ f.type \notin WellKnown

\* b.field materializes the message of a field, and of a map's values, unless
\* it is a well-known type.
Opens(f) == f.type \notin WellKnown \cup {NoMessage}

\* The innermost call walks its next field.
WalkField ==
    /\ stack # <<>> /\ Last(stack) # <<>>
    /\ LET f == Head(Last(stack))
           rest == Append(Front(stack), Tail(Last(stack)))
       IN IF Opens(f) THEN Materialize(f.type, rest)
          ELSE stack' = rest /\ UNCHANGED messages
    /\ UNCHANGED <<proto, phase, bindings, methods>>

\* The innermost call has walked its fields and returns.
Return ==
    /\ stack # <<>> /\ Last(stack) = <<>>
    /\ stack' = Front(stack)
    /\ UNCHANGED <<proto, messages, phase, bindings, methods>>

Input ==
    /\ phase = "input" /\ stack = <<>> /\ Len(methods) < Len(proto.methods)
    /\ Materialize(Method.input, stack)
    /\ phase' = "output"
    /\ UNCHANGED <<proto, bindings, methods>>

Output ==
    /\ phase = "output" /\ stack = <<>>
    /\ Materialize(Method.output, stack)
    /\ phase' = "rules"
    /\ UNCHANGED <<proto, bindings, methods>>

-----------------------------------------------------------------------------
(* The fields one rule binds.  messages is what b.messages finds.          *)

\* field.Bindable(): one string fills it.
Bindable(f) == f.kind = "scalar" \/ (f.kind = "message" /\ f.type \in StringLike)

\* A message field whose own fields the query walk enters.
Descends(f) == f.kind = "message" /\ ~f.repeated

\* The message b.messages has for a field of the message type.
Held(type, i) ==
    IF type \notin messages \/ i \notin DOMAIN proto.fields[type] THEN NoMessage
    ELSE IF proto.fields[type][i].kind = "message" THEN proto.fields[type][i].type
    ELSE NoMessage

\* The messages along a path: Along(m, p)[i] is the one its i-th step starts in.
Along(m, p) ==
    LET type[i \in 1..(Len(p) + 1)] == IF i = 1 THEN m ELSE Held(type[i - 1], p[i - 1])
    IN type

\* The field at step i of a path.
FieldAt(m, p, i) == proto.fields[Along(m, p)[i]][p[i]]

\* resolveFieldPath succeeds: every step names a field of a materialized
\* message, and every step but the last is singular.
Resolves(m, p) ==
    /\ p # <<>>
    /\ \A i \in DOMAIN p :
          /\ Along(m, p)[i] \in messages
          /\ p[i] \in DOMAIN proto.fields[Along(m, p)[i]]
          /\ i < Len(p) => ~FieldAt(m, p, i).repeated

Leaf(m, p) == FieldAt(m, p, Len(p))

\* bindPathParams: one capture.
PathParam(m, p) ==
    Resolves(m, p) /\ Bindable(Leaf(m, p)) /\ ~Leaf(m, p).repeated

\* bindBody: absent, the wildcard, or a singular message at the top level.
BodySpec(m, p) ==
    \/ p \in {NoBody, Wildcard}
    \/ /\ Len(p) = 1 /\ Resolves(m, p)
       /\ Leaf(m, p).kind = "message" /\ ~Leaf(m, p).repeated

\* bindResponseBody: absent, or any field at the top level of the response.
ResponseBody(m, p) == p = NoBody \/ (Len(p) = 1 /\ Resolves(m, p))

\* buildBinding returns no error.
Binds(method, rule) ==
    /\ ~rule.malformed
    /\ \A p \in rule.captures : PathParam(method.input, p)
    /\ BodySpec(method.input, rule.body)
    /\ ResponseBody(method.output, rule.responseBody)

\* mutant: only what the path binds is subtracted
BoundByPath(rule) == rule.captures

\* mutant: a path parameter claims the whole top-level field it is under
BoundAtTop(rule) ==
    {<<c[1]>> : c \in rule.captures} \cup ({rule.body} \ {NoBody, Wildcard})

\* What bindQueryParams subtracts.
Bound(rule) == rule.captures \cup ({rule.body} \ {NoBody, Wildcard})

\* mutant: OUTPUT_ONLY is asked of the leaves alone
AskedOfLeaves(rule, f, p) ==
    p \notin Bound(rule) /\ (Bindable(f) => ~f.outputOnly)

\* walkQueryable does not pass the field over.
Asked(rule, f, p) == p \notin Bound(rule) /\ ~f.outputOnly

\* A call of walkQueryable has a message and the path to it.
\* The fields it walks into, and those it takes as parameters.
EnteredBy(rule, c) ==
    {i \in DOMAIN proto.fields[c.msg] :
        LET f == proto.fields[c.msg][i]
        IN  /\ Asked(rule, f, Append(c.path, i))
            /\ ~Bindable(f) /\ Descends(f) /\ f.type \in messages}
TakenBy(rule, c) ==
    {i \in DOMAIN proto.fields[c.msg] :
        LET f == proto.fields[c.msg][i]
        IN  Asked(rule, f, Append(c.path, i)) /\ Bindable(f)}

Deeper(rule, calls) ==
    UNION {{[msg |-> proto.fields[c.msg][i].type, path |-> Append(c.path, i)] :
               i \in EnteredBy(rule, c)} : c \in calls}

\* The calls of walkQueryable, by depth.
Entered(m, rule) ==
    LET calls[d \in 0..MaxQueryDepth] ==
            IF d = 0 THEN {[msg |-> m, path |-> <<>>]} ELSE Deeper(rule, calls[d - 1])
    IN calls

\* bindQueryParams: nothing under a wildcard body, otherwise every bindable
\* leaf the walk meets.
QueryParams(m, rule) ==
    IF rule.body = Wildcard THEN {}
    ELSE UNION {{Append(c.path, i) : i \in TakenBy(rule, c)} :
                   c \in UNION {Entered(m, rule)[d] : d \in 0..MaxQueryDepth}}

-----------------------------------------------------------------------------
(* The method a set of rules makes.                                        *)

Standard == {"Get", "List", "Create", "Update", "Delete"}

\* methodMatchesPattern for the standard patterns.
PatternMethods ==
    [Get |-> {"GET"}, List |-> {"GET"}, Create |-> {"POST"},
     Update |-> {"PATCH", "PUT"}, Delete |-> {"DELETE"}]

\* classifyMethod: a batch name or Undelete stands whatever its rules say, a
\* standard name only if every rule agrees with it.
ClassifyMethod(name, rules) ==
    IF name \in Standard /\ \E i \in DOMAIN rules :
           rules[i].verb \/ rules[i].httpMethod \notin PatternMethods[name]
    THEN "Custom" ELSE name

\* mutant: the pattern alone decides
MutatingByPattern(pattern, rules) ==
    pattern \notin {"Get", "List", "BatchGet"}

\* mutating
Mutating(pattern, rules) ==
    \/ pattern \notin {"Custom", "Get", "List", "BatchGet"}
    \/ rules = <<>> /\ pattern = "Custom"
    \/ \E i \in DOMAIN rules : rules[i].httpMethod \notin {"GET", "HEAD"}

-----------------------------------------------------------------------------

Rule == Method.rules[Len(bindings) + 1]

\* flattenRule or buildBinding fails, or a client stream has a rule: Build
\* returns the error and no IR.
Refuse ==
    /\ phase = "rules" /\ stack = <<>> /\ Len(bindings) < Len(Method.rules)
    /\ \/ Method.clientStream
       \/ \E i \in DOMAIN Method.rules : Method.rules[i].malformed
       \/ ~Binds(Method, Rule)
    /\ phase' = "refused"
    /\ UNCHANGED <<proto, messages, stack, bindings, methods>>

Bind ==
    /\ phase = "rules" /\ stack = <<>> /\ Len(bindings) < Len(Method.rules)
    /\ ~Method.clientStream
    /\ \A i \in DOMAIN Method.rules : ~Method.rules[i].malformed
    /\ Binds(Method, Rule)
    /\ bindings' = Append(bindings,
                          [rule |-> Rule, query |-> QueryParams(Method.input, Rule)])
    /\ UNCHANGED <<proto, messages, stack, phase, methods>>

\* The method is classified and appended to the service.
Finish ==
    /\ phase = "rules" /\ stack = <<>> /\ Len(bindings) = Len(Method.rules)
    /\ LET pattern == ClassifyMethod(Method.name, Method.rules)
       IN methods' = Append(methods, [bindings |-> bindings, pattern |-> pattern,
                                      mutating |-> Mutating(pattern, Method.rules)])
    /\ bindings' = <<>>
    /\ phase' = "input"
    /\ UNCHANGED <<proto, messages, stack>>

\* Build has returned: every method is built, or a rule was refused.
Done ==
    /\ phase = "refused" \/ (phase = "input" /\ Len(methods) = Len(proto.methods))
    /\ UNCHANGED vars

Next == WalkField \/ Return \/ Input \/ Output \/ Refuse \/ Bind \/ Finish \/ Done

Spec == Init /\ [][Next]_vars

-----------------------------------------------------------------------------
(* Properties.  Their definitions read the descriptors, never b.messages.  *)

\* The message a path of singular message fields leads to.
Inner(type, i) ==
    IF type = NoMessage \/ i \notin DOMAIN proto.fields[type] THEN NoMessage
    ELSE IF Descends(proto.fields[type][i]) THEN proto.fields[type][i].type
    ELSE NoMessage

Reach(m, p) ==
    LET type[i \in 0..Len(p)] == IF i = 0 THEN m ELSE Inner(type[i - 1], p[i])
    IN type[Len(p)]

Named(m, p) == Reach(m, Front(p)) # NoMessage /\ Last(p) \in DOMAIN proto.fields[Reach(m, Front(p))]
FieldOf(m, p) == proto.fields[Reach(m, Front(p))][Last(p)]
Steps(p) == {SubSeq(p, 1, i) : i \in DOMAIN p}
Inside(p) == Steps(p) \ {p}

\* The request and the bindings of every rule bound so far.
Built ==
    (UNION {{[input |-> proto.methods[i].input, binding |-> methods[i].bindings[k]] :
                k \in DOMAIN methods[i].bindings} : i \in DOMAIN methods})
    \cup {[input |-> Method.input, binding |-> bindings[k]] : k \in DOMAIN bindings}

Positions == UNION {DOMAIN proto.fields[m] : m \in Messages}
Paths == UNION {[1..n -> Positions] : n \in 1..(MaxQueryDepth + 1)}

\* No call of b.message is opened inside a call for the same message: the stack
\* is never deeper than the messages are many, so materializing a recursive
\* message ends (materialize.go:9-10).
OpenedOnce == Len(stack) <= Cardinality(Messages)

\* Between two calls from method(), every message that a registered message
\* holds, singly, repeated or as a map's value, is registered: a target that
\* looks one up by its name finds it.
Closed ==
    stack = <<>> => \A m \in messages : \A i \in DOMAIN proto.fields[m] :
        proto.fields[m][i].type \in messages \cup WellKnown \cup {NoMessage}

\* No method takes or returns a message that is spelled as one string. If one
\* does, b.messages has it, and resolveFieldPath finds its fields, although "a
\* well-known type is a leaf, not a tree" (materialize.go:85).
LeavesAreClosed == messages \cap StringLike = {}

\* A query parameter is not, is not inside and does not hold what the path or the
\* body binds: "two sources for one field means one of them silently loses"
\* (body.go:129-130).
ClaimedOnce ==
    LeavesAreClosed => \A b \in Built : \A q \in b.binding.query :
        \A c \in b.binding.rule.captures \cup {b.binding.rule.body} :
            c # NoBody => c # Wildcard /\ ~IsPrefix(c, q) /\ ~IsPrefix(q, c)

\* A field one string fills, that a caller may set and that lies within the
\* bound: neither it nor a message around it is the service's to set.
Settable(m, p) ==
    /\ \A s \in Steps(p) : Named(m, s) /\ ~FieldOf(m, s).outputOnly
    /\ \A s \in Inside(p) : FieldOf(m, s).type \notin WellKnown
    /\ Bindable(FieldOf(m, p))

\* No field a caller may set is out of a caller's reach: it is bound by the
\* path, lies in the body, or is a query parameter, at any depth to the bound.
NothingLost ==
    \A b \in Built : \A p \in Paths :
        LET rule == b.binding.rule
        IN Settable(b.input, p) =>
               \/ p \in rule.captures \cup b.binding.query
               \/ rule.body = Wildcard
               \/ rule.body # NoBody /\ IsPrefix(rule.body, p)

\* Nothing inside a message the service sets is accepted from the query, however
\* deep: an OUTPUT_ONLY message hides its ordinary fields.
NeverServerOwned ==
    \A b \in Built : \A q \in b.binding.query : \A s \in Steps(q) :
        ~FieldOf(b.input, s).outputOnly

\* The request a rule needs is there in the descriptors.
Sound(method, rule) ==
    /\ \A p \in rule.captures : /\ Named(method.input, p)
                                /\ \A s \in Inside(p) : FieldOf(method.input, s).type \notin WellKnown
                                /\ Bindable(FieldOf(method.input, p))
                                /\ ~FieldOf(method.input, p).repeated
    /\ rule.body \notin {NoBody, Wildcard} =>
           Len(rule.body) = 1 /\ Named(method.input, rule.body)
                              /\ Descends(FieldOf(method.input, rule.body))
    /\ rule.responseBody # NoBody =>
           Len(rule.responseBody) = 1 /\ Named(method.output, rule.responseBody)

\* A service is refused only for a rule that is wrong as written: never because
\* a message the rule reaches through was not materialized in time.
RefusedForCause ==
    phase = "refused" =>
        \/ Method.clientStream
        \/ \E i \in DOMAIN Method.rules :
               Method.rules[i].malformed \/ ~Sound(Method, Method.rules[i])

\* A method that counts as one that changes nothing has no binding but GET and
\* HEAD: a policy on mutating methods is not escaped by a name
\* (classify.go:105-108).  A Get or a List by pattern always counts as one.
ReadsOnlyRead ==
    \A i \in DOMAIN methods :
        /\ ~methods[i].mutating =>
               \A k \in DOMAIN methods[i].bindings :
                   methods[i].bindings[k].rule.httpMethod \in {"GET", "HEAD"}
        /\ methods[i].pattern \in {"Get", "List"} => ~methods[i].mutating

=============================================================================
