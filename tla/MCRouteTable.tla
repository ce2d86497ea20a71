---------------------------- MODULE MCRouteTable -----------------------------
(***************************************************************************)
(* RouteTable on every table of three routes, in declaration order, whose  *)
(* templates have up to two segments over two literals: without "**" but,  *)
(* over one of them, with a custom verb, or with "**"; on one family with  *)
(* three; and on one template of any text, well-formed or not, or one      *)
(* resource pattern of any text.                                           *)
(***************************************************************************)
EXTENDS RouteTable

MCLetters == {"v1", "books", "x", "cancel"}
MCDigits == {"0"}
MCOthers == {"%2F", "%78", "%zz"}
MCDecodes == [e \in MCOthers |-> CASE e = "%2F" -> "/" [] e = "%78" -> "x" [] e = "%zz" -> ""]
MCMethods == {"GET"}
MCVerbs == {NoVerb, <<"cancel">>}

V1 == <<"v1">>
Books == <<"books">>

SegLists(kinds, n) == UNION {[1..k -> kinds] : k \in 0..n}

Text(segs, verb) ==
    FlattenSeq([i \in DOMAIN segs |-> <<"/">> \o segs[i]])
        \o IF verb = NoVerb THEN <<>> ELSE <<":">> \o verb

Shapes(kinds, n) ==
    {s \in SegLists(kinds, n) : s # <<>> /\ \A i \in 1..(Len(s) - 1) : s[i] # Multi}

RuleOf(source, text, resource) ==
    [method |-> "GET", source |-> source, text |-> text, resource |-> resource]
TablesOf(texts) ==
    {[i \in 1..3 |-> RuleOf(i, t[i], NoResource)] : t \in [1..3 -> texts]}

\* Without "**", and with a custom verb; with "**".
MCPlain == TablesOf({Text(s, NoVerb) : s \in Shapes({V1, Books, Single}, 2)}
                    \cup {Text(s, <<"cancel">>) : s \in Shapes({V1, Single}, 2)})
MCWild == TablesOf({Text(s, NoVerb) : s \in Shapes({V1, Books, Single, Multi}, 2)})

\* One template: all short texts, and what one slip makes of a longer one.
Characters == Reserved \cup {".", "v1", "0", "%2F"}
Stars == {Single, Multi}
Captured == {<<"{", "v1", "}">>, <<"{", "v1", "=", "*", "}">>, <<"{", "v1", ".", "x", "}">>,
              <<"{", "x", "=", "*", "*", "}">>, <<"{", "x", "=", "books", "/", "*", "}">>,
              <<"{", "x", "=", "books", "/", "*", "*", "}">>}
Sentences ==
    {Text(<<a>>, v) : a \in Captured \cup Stars \cup {V1}, v \in MCVerbs}
    \cup {Text(<<a, b>>, NoVerb) : a \in Captured, b \in {V1, Multi, <<"{", "x", "}">>}}
Slipped(text) ==
    {ReplaceAt(text, i, c) : i \in DOMAIN text, c \in Characters}
    \cup {RemoveAt(text, i) : i \in DOMAIN text}
    \cup {InsertAt(text, i, c) : i \in 1 .. Len(text) + 1, c \in Characters}

Texts == SegLists(Characters, 3) \cup Sentences \cup UNION {Slipped(s) : s \in Sentences}
         \cup {Text(<<a, b, c>>, NoVerb) : a, b \in Captured \cup {V1}, c \in Captured \cup Stars}
MCTexts == {<<RuleOf(1, t, NoResource)>> : t \in Texts}

\* One resource, its names captured in several ways; and two messages that
\* declare the same type, each with two patterns.
BooksOf == <<"books", "/", "{", "x", "}">>
PatternSentences ==
    {BooksOf, <<"{", "x", "}">>, <<"books", "/", "{", "x", "=", "*", "*", "}">>,
     <<"{", "v1", "}", "/", "books">>, <<"{", "x", "}", "/", "{", "x", "}">>,
     <<"{", "v1", "}", "/", "{", "x", "=", "*", "*", "}">>}
PatternTexts == SegLists({"/", "{", "}", "=", "*", "x"}, 3) \cup UNION {Slipped(s) : s \in PatternSentences}
Names == {<<"*">>, <<"*", "/", "*">>, <<"books", "/", "*">>, <<"*", "/", "books">>,
          <<"books", "/", "*", "*">>, <<"*", "/", "*", "*">>}
NameText(sub) == <<"/", "v1", "/", "{", "x", "=">> \o sub \o <<"}">>
Of(patterns) == [type |-> "resource", patterns |-> patterns]
MCNames ==
    {<<RuleOf(1, NameText(n), Of(<<t>>))>> : n \in Names, t \in PatternSentences}
    \cup {<<RuleOf(1, NameText(Single), Of(<<t>>))>> : t \in PatternTexts}
    \cup {<<RuleOf(1, NameText(n), Of(<<s, t>>)), RuleOf(2, NameText(n), Of(<<t, s>>))>> :
            n \in {<<"books", "/", "*">>}, s, t \in PatternSentences \cup {<<"{", "}">>}}

MCTables == MCPlain \cup MCWild \cup MCTexts \cup MCNames

\* Three templates of one collection, in any order of declaration.
ShelfRoutes ==
    {RuleOf(1, Text(<<V1, Books, Multi>>, NoVerb), NoResource),
     RuleOf(2, Text(<<V1>>, NoVerb), NoResource),
     RuleOf(3, Text(<<V1, Single>>, NoVerb), NoResource)}
MCShelf == SetToSeqs(ShelfRoutes)

Sent == {<<"x", "%2F">>, <<"%78">>, <<"%zz">>}
MCPaths == SegLists({V1, Books, <<"x">>, <<>>}, 3)
           \cup {<<V1, c>> : c \in Sent} \cup {<<c, V1>> : c \in Sent}
           \cup {<<Books, c, d>> : c \in {<<"x">>}, d \in Sent}
=============================================================================
