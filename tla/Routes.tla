------------------------------- MODULE Routes --------------------------------
(***************************************************************************)
(* Package httprule on compiled routes: when a request matches a route,    *)
(* what it captures, when two routes overlap, and which of two is the more *)
(* specific.                                                               *)
(*                                                                         *)
(* A route is a record of its HTTP method, its custom verb, its source     *)
(* name (a number, for its order), its flattened segments and its          *)
(* captures. A path is a sequence of components as they were sent, and a   *)
(* component a sequence of characters, of which an escape is one; the      *)
(* empty component is what a doubled or trailing slash leaves.             *)
(***************************************************************************)
EXTENDS Templates

CONSTANTS HTTPMethods, Verbs,
          Decodes           \* what an escape stands for; "" if it is malformed

ASSUME RoutesAssumption == NoVerb \in Verbs /\ DOMAIN Decodes \subseteq Others

Lesser(m, n) == IF m <= n THEN m ELSE n
Greater(m, n) == IF m <= n THEN n ELSE m

HasMulti(r) == Len(r.segs) > 0 /\ r.segs[Len(r.segs)] = Multi

\* The number of leading segments that must match one-to-one.
Fixed(r) == IF HasMulti(r) THEN Len(r.segs) - 1 ELSE Len(r.segs)

-----------------------------------------------------------------------------
\* matches

SegmentMatches(seg, component) ==
    /\ IsLiteral(seg) => component = seg
    /\ seg = Single => component # <<>>

\* A request reaches a route by its HTTP method, then matches does the rest.
Matches(r, method, path, verb) ==
    /\ method = r.method /\ verb = r.verb
    /\ IF HasMulti(r) THEN Len(path) >= Fixed(r) ELSE Len(path) = Fixed(r)
    /\ \A i \in 1..Fixed(r) : SegmentMatches(r.segs[i], path[i])

-----------------------------------------------------------------------------
\* MatchPath and Match: the values of the captures, as sent and decoded.

Span(c, path) == SubSeq(path, c.first, IF c.last = ToEnd THEN Len(path) ELSE c.last)

MatchPath(r, path) ==
    [k \in DOMAIN r.captures |-> Joined(Span(r.captures[k], path), "/")]

IsMalformed(component) ==
    \E i \in DOMAIN component : component[i] \in DOMAIN Decodes /\ Decodes[component[i]] = ""

\* DecodeSegment, of a component that is not malformed.
Decode(component) ==
    [i \in DOMAIN component |->
        IF component[i] \in DOMAIN Decodes /\ Decodes[component[i]] # "/"
        THEN Decodes[component[i]] ELSE component[i]]

\* The decoded values, or the field of the first that cannot be decoded.
Match(r, path) ==
    LET Part(k) == Span(r.captures[k], path)
        bad == {k \in DOMAIN r.captures : \E i \in DOMAIN Part(k) : IsMalformed(Part(k)[i])}
    IN  IF bad # {} THEN [malformed |-> r.captures[Min(bad)].field, values |-> <<>>]
        ELSE [malformed |-> <<>>,
              values |-> [k \in DOMAIN r.captures |->
                            Joined([i \in DOMAIN Part(k) |-> Decode(Part(k)[i])], "/")]]

-----------------------------------------------------------------------------
\* Overlaps

\* The leading positions both routes constrain; "**" caps the comparison.
Common(a, b) == Lesser(Fixed(a), Fixed(b))

LengthsMeet(a, b) ==
    /\ ~HasMulti(a) => Len(a.segs) >= Fixed(b)
    /\ ~HasMulti(b) => Len(b.segs) >= Fixed(a)

\* mutant: the walk stops before the last common position
OverlapsButLast(a, b) ==
    /\ a.method = b.method /\ a.verb = b.verb
    /\ LengthsMeet(a, b)
    /\ \A i \in 1..(Common(a, b) - 1) :
          IsLiteral(a.segs[i]) /\ IsLiteral(b.segs[i]) => a.segs[i] = b.segs[i]

Overlaps(a, b) ==
    /\ a.method = b.method /\ a.verb = b.verb
    /\ LengthsMeet(a, b)
    /\ \A i \in 1..Common(a, b) :
          IsLiteral(a.segs[i]) /\ IsLiteral(b.segs[i]) => a.segs[i] = b.segs[i]

-----------------------------------------------------------------------------
\* Compare: -1 when a is the more specific, 1 when b is, 0 when neither.

KindRank(seg) == IF seg = Single THEN 1 ELSE IF seg = Multi THEN 2 ELSE 0

\* The first shared position at which the kinds differ.
FirstDifference(a, b) ==
    {i \in 1..Lesser(Len(a.segs), Len(b.segs)) :
        /\ KindRank(a.segs[i]) # KindRank(b.segs[i])
        /\ \A j \in 1..(i - 1) : KindRank(a.segs[j]) = KindRank(b.segs[j])}

\* Every shared position is equally specific: no "**" first, then the longer,
\* then the one with a custom verb.
CompareShape(a, b) ==
    IF HasMulti(a) # HasMulti(b) THEN (IF HasMulti(b) THEN -1 ELSE 1)
    ELSE IF Len(a.segs) # Len(b.segs)
         THEN (IF Len(a.segs) > Len(b.segs) THEN -1 ELSE 1)
    ELSE IF (a.verb = NoVerb) # (b.verb = NoVerb) THEN (IF b.verb = NoVerb THEN -1 ELSE 1)
    ELSE 0

Compare(a, b) ==
    IF FirstDifference(a, b) = {} THEN CompareShape(a, b)
    ELSE LET i == CHOOSE i \in FirstDifference(a, b) : TRUE
         IN  IF KindRank(a.segs[i]) < KindRank(b.segs[i]) THEN -1 ELSE 1

-----------------------------------------------------------------------------
\* example

Filler == <<"x">>             \* the component a wildcard is shown as

\* mutant: the example is as long as the longer route
LongestLength(a, b) == Greater(Len(a.segs), Len(b.segs))

ExampleLength(a, b) ==
    LET n == IF HasMulti(a) THEN Greater(Len(a.segs), Len(b.segs)) ELSE Len(a.segs)
    IN  IF HasMulti(b) THEN n ELSE Lesser(n, Len(b.segs))

LiteralAt(r, i) == i <= Len(r.segs) /\ IsLiteral(r.segs[i])

Example(a, b) ==
    [i \in 1..ExampleLength(a, b) |->
        IF LiteralAt(a, i) THEN a.segs[i]
        ELSE IF LiteralAt(b, i) THEN b.segs[i]
        ELSE Filler]

-----------------------------------------------------------------------------
\* SortBySpecificity's order

\* mutant: routes stay in the order of their declarations
LessBySource(a, b) == a.source < b.source

Less(a, b) ==
    IF Compare(a, b) # 0 THEN Compare(a, b) < 0 ELSE a.source < b.source
=============================================================================
