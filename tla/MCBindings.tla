----------------------------- MODULE MCBindings ------------------------------
(***************************************************************************)
(* Bindings on every request of up to two fields over a recursive pair of  *)
(* messages, two well-known types, and the rules that can be written       *)
(* about it; on rules that are wrong as written; and on every name of a    *)
(* method with up to two rules.                                            *)
(***************************************************************************)
EXTENDS Bindings

MCMessages == {"Request", "Inner", "Timestamp", "HttpBody"}
MCStringLike == {"Timestamp"}
MCStructured == {"HttpBody"}

Field(kind, type, repeated, outputOnly) ==
    [kind |-> kind, type |-> type, repeated |-> repeated, outputOnly |-> outputOnly]
Scalar == Field("scalar", NoMessage, FALSE, FALSE)
Message(type) == Field("message", type, FALSE, FALSE)
Many(f) == [f EXCEPT !.repeated = TRUE]
ServerSet(f) == [f EXCEPT !.outputOnly = TRUE]
MapTo(type) == Field("map", type, FALSE, FALSE)

RequestField ==
    {Scalar, ServerSet(Scalar), Many(Scalar),
     Message("Inner"), ServerSet(Message("Inner")), Many(Message("Inner")),
     Message("Request"), Message("Timestamp"), Message("HttpBody"), MapTo("Inner")}
RequestFields == UNION {[1..n -> RequestField] : n \in 1..2}
InnerFields ==
    {<<>>, <<Scalar>>, <<Scalar, ServerSet(Scalar)>>, <<Message("Request")>>,
     <<Scalar, Message("Inner")>>, <<Message("HttpBody"), Scalar>>}

Fields(request, inner) ==
    [Request |-> request, Inner |-> inner,
     Timestamp |-> <<Scalar>>, HttpBody |-> <<Scalar>>]

Plain == [httpMethod |-> "GET", verb |-> FALSE, captures |-> {}, body |-> NoBody,
          responseBody |-> NoBody, malformed |-> FALSE]
MethodOf(name, rules) ==
    [name |-> name, input |-> "Request", output |-> "Request", clientStream |-> FALSE,
     rules |-> rules]

\* One rule over every request, alone or after a method that returns a well-known type.
Returns(type) == [MethodOf("Custom", <<>>) EXCEPT !.input = "Inner", !.output = type]
Written ==
    {[Plain EXCEPT !.captures = c, !.body = b] :
        c \in {{}, {<<1>>}, {<<2, 1>>}, {<<1>>, <<2, 1>>}},
        b \in {NoBody, Wildcard, <<1>>, <<2>>}}
MCRequests ==
    {[fields |-> Fields(r, i), methods |-> before \o <<MethodOf("Custom", <<w>>)>>] :
        r \in RequestFields, i \in InnerFields, w \in Written,
        before \in {<<>>, <<Returns("HttpBody")>>, <<Returns("Timestamp")>>}}

\* Rules that are wrong as written, and the near misses that are not.
Near == Fields(<<Message("Inner"), Scalar>>, <<Message("Request"), Scalar>>)
MCWrong ==
    {[fields |-> Near, methods |-> <<[MethodOf("Custom", <<[Plain EXCEPT !.captures = c],
           [Plain EXCEPT !.malformed = bad, !.body = b, !.responseBody = rb]>>)
        EXCEPT !.clientStream = stream]>>] :
        c \in {{}, {<<1>>}, {<<1, 1, 1>>}, {<<1, 1, 2>>}}, bad \in BOOLEAN,
        b \in {NoBody, <<1, 1>>, <<2>>}, rb \in {NoBody, Wildcard, <<1>>, <<1, 2>>},
        stream \in BOOLEAN}

\* Every name with up to two rules.
Names == Standard \cup {"Custom", "Undelete", "BatchGet", "BatchCreate"}
NamedRule ==
    {[Plain EXCEPT !.httpMethod = h, !.verb = v] :
        h \in {"GET", "POST", "PATCH", "DELETE", "HEAD"}, v \in BOOLEAN}
MCNames ==
    {[fields |-> Fields(<<Scalar>>, <<>>), methods |-> <<MethodOf(n, rules)>>] :
        n \in Names, rules \in UNION {[1..k -> NamedRule] : k \in 0..2}}

MCProtos == MCRequests \cup MCWrong \cup MCNames
=============================================================================
