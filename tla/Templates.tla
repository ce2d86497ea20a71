------------------------------ MODULE Templates ------------------------------
(***************************************************************************)
(* Package httprule from the text of a path template to a compiled route:  *)
(* the recursive descent of Parse, the structural rules, and Compile.      *)
(*                                                                         *)
(* A text is a sequence of characters: Letters may begin a field name,     *)
(* Digits may continue one, Others are content of a path component and     *)
(* nothing else. A production is an operator from the position it starts   *)
(* at to [end, value], where end is the position after what it read, and   *)
(* 0 is a SyntaxError.                                                     *)
(***************************************************************************)
EXTENDS Integers, SequencesExt

CONSTANTS Letters, Digits, Others

Reserved == {"/", "{", "}", "*", ":", "="}

ASSUME CharactersAssumption ==
    /\ (Letters \cup Digits) \cap Others = {} /\ Letters \cap Digits = {}
    /\ (Letters \cup Digits \cup Others) \cap (Reserved \cup {".", ""}) = {}

Content == Letters \cup Digits \cup Others \cup {"."}

\* A segment is its own text, so a literal is never one of these.
Single == <<"*">>
Multi == <<"*", "*">>
IsLiteral(seg) == seg \notin {Single, Multi}

\* The members of a set of positions, in their order.
InOrder(S) ==
    [n \in 1 .. Cardinality(S) |-> CHOOSE i \in S : Cardinality({j \in S : j < i}) = n - 1]

\* strings.Split, and what lies between any cuts of a text.
Pieces(text, cuts) ==
    LET ends == <<0>> \o InOrder(cuts) \o <<Len(text) + 1>>
    IN  [k \in 1 .. Cardinality(cuts) + 1 |-> SubSeq(text, ends[k] + 1, ends[k + 1] - 1)]
Split(text, separator) == Pieces(text, {i \in DOMAIN text : text[i] = separator})

At(text, i) == IF i \in DOMAIN text THEN text[i] ELSE ""
Read(end, value) == [end |-> end, value |-> value]
Failed == Read(0, <<>>)

-----------------------------------------------------------------------------
\* The productions. A variable is a segment with a field; every other segment
\* is its own sub-template.

\* As many characters of one kind as there are, but one at least.
Run(text, i, kind) ==
    LET end == Min({j \in i .. Len(text) + 1 : At(text, j) \notin kind})
    IN  IF At(text, i) \notin kind THEN Failed ELSE Read(end, SubSeq(text, i, end - 1))

\* one[j] is what a production reads at position j; the production is read
\* again after every separator.
Separated(text, i, one, separator) ==
    LET from[j \in 1 .. Len(text) + 1] ==
            LET rest == from[one[j].end + 1]
            IN  IF one[j].end = 0 THEN Failed
                ELSE IF At(text, one[j].end) # separator
                     THEN Read(one[j].end, <<one[j].value>>)
                ELSE IF rest.end = 0 THEN Failed
                ELSE Read(rest.end, <<one[j].value>> \o rest.value)
    IN  from[i]

\* mutant: a field name may begin with a digit
IdentLoose(text, i) == Run(text, i, Letters \cup Digits)

Ident(text, i) ==
    IF At(text, i) \notin Letters THEN Failed ELSE Run(text, i, Letters \cup Digits)

FieldPath(text, i) ==
    Separated(text, i, [j \in 1 .. Len(text) + 1 |-> Ident(text, j)], ".")

\* parseSegment where no variable may stand, which is inside one.
Plain(text, i) ==
    CASE At(text, i) # "*" -> Run(text, i, Content)
      [] At(text, i) = "*" /\ At(text, i + 1) # "*" -> Read(i + 1, Single)
      [] At(text, i) = "*" /\ At(text, i + 1) = "*" -> Read(i + 2, Multi)

SubSegments(text, i) ==
    Separated(text, i, [j \in 1 .. Len(text) + 1 |-> Plain(text, j)], "/")

\* A bare {name} is {name=*}.
Variable(text, i) ==
    LET field == FieldPath(text, i)
        sub   == IF At(text, field.end) = "=" THEN SubSegments(text, field.end + 1)
                 ELSE Read(field.end, <<Single>>)
    IN  IF field.end = 0 \/ sub.end = 0 \/ At(text, sub.end) # "}" THEN Failed
        ELSE Read(sub.end + 1, [field |-> field.value, sub |-> sub.value])

Segment(text, i) ==
    LET plain == Plain(text, i)
    IN  IF At(text, i) = "{" THEN Variable(text, i + 1)
        ELSE IF plain.end = 0 THEN Failed
        ELSE Read(plain.end, [field |-> <<>>, sub |-> <<plain.value>>])

Segments(text, i) ==
    Separated(text, i, [j \in 1 .. Len(text) + 1 |-> Segment(text, j)], "/")

-----------------------------------------------------------------------------
\* Parse: a template is its segments, variables unexpanded, and its verb.

NoVerb == <<>>
NoTemplate == [segments |-> <<>>, verb |-> NoVerb]

\* The segments with the variables expanded.
Flat(segments) == FlattenSeq([k \in DOMAIN segments |-> segments[k].sub])

Variables(segments) == {k \in DOMAIN segments : segments[k].field # <<>>}

\* validate: "**" only at the end, no field captured twice.
IsValid(segments) ==
    /\ \A k \in 1 .. Len(Flat(segments)) - 1 : Flat(segments)[k] # Multi
    /\ \A j, k \in Variables(segments) :
          segments[j].field = segments[k].field => j = k

Parse(text) ==
    LET segments == Segments(text, 2)
        verb     == IF At(text, segments.end) = ":" THEN Run(text, segments.end + 1, Content)
                    ELSE Read(segments.end, NoVerb)
    IN  IF \/ At(text, 1) # "/" \/ segments.end = 0
           \/ verb.end # Len(text) + 1 \/ ~IsValid(segments.value)
        THEN NoTemplate
        ELSE [segments |-> segments.value, verb |-> verb.value]

\* Template.String
Joined(parts, separator) ==
    LET joined[n \in 1 .. Len(parts)] ==
            IF n = 1 THEN parts[1] ELSE joined[n - 1] \o <<separator>> \o parts[n]
    IN  IF parts = <<>> THEN <<>> ELSE joined[Len(parts)]

SegmentText(seg) ==
    LET name == Joined(seg.field, ".")
        sub  == IF seg.sub = <<Single>> THEN <<>> ELSE <<"=">> \o Joined(seg.sub, "/")
    IN  IF seg.field = <<>> THEN seg.sub[1] ELSE <<"{">> \o name \o sub \o <<"}">>

String(t) ==
    FlattenSeq([k \in DOMAIN t.segments |-> <<"/">> \o SegmentText(t.segments[k])])
        \o IF t.verb = NoVerb THEN <<>> ELSE <<":">> \o t.verb

-----------------------------------------------------------------------------
\* Compile: positions count from 1, so a capture ends on its last segment.

ToEnd == 0

\* mutant: the span of a variable ends before its "**"
CaptureShort(segments, k) ==
    LET before == Len(Flat(SubSeq(segments, 1, k - 1)))
    IN  [field |-> segments[k].field, first |-> before + 1,
         last  |-> before + Cardinality({i \in DOMAIN segments[k].sub : segments[k].sub[i] # Multi})]

Capture(segments, k) ==
    LET before == Len(Flat(SubSeq(segments, 1, k - 1)))
    IN  [field |-> segments[k].field, first |-> before + 1,
         last  |-> IF Multi \in ToSet(segments[k].sub) THEN ToEnd
                   ELSE before + Len(segments[k].sub)]

Captures(segments) ==
    [n \in 1 .. Cardinality(Variables(segments)) |-> Capture(segments, InOrder(Variables(segments))[n])]

Compile(method, source, t) ==
    [method |-> method, source |-> source, verb |-> t.verb,
     segs |-> Flat(t.segments), captures |-> Captures(t.segments)]
=============================================================================
