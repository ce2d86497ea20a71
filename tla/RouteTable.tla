----------------------------- MODULE RouteTable ------------------------------
(***************************************************************************)
(* What becomes of the path templates of one API: each is parsed and       *)
(* compiled in turn, then checkRouteConflicts looks at all the bindings in *)
(* declaration order, then SortBySpecificity at the table a target emits,  *)
(* and a runtime scans that table and serves a request with the first      *)
(* route that matches.                                                     *)
(*                                                                         *)
(* sort.SliceStable sorts up to 20 elements by insertion, one swap of      *)
(* neighbours at a time; longer tables are merged from such runs and are   *)
(* not modelled.                                                           *)
(***************************************************************************)
EXTENDS Routes, Patterns, FiniteSets

CONSTANTS Tables,           \* the rules of an API: [method, source, text, resource]
          Paths             \* the request paths

RouteOf(rule) == Compile(rule.method, rule.source, Parse(rule.text))

\* The rules of one API are from different places, so of different sources.
ASSUME TablesAssumption ==
    \A t \in Tables :
        /\ t \in Seq(ToSet(t)) /\ Len(t) \in 1..20
        /\ \A i, j \in DOMAIN t : t[i].source = t[j].source => i = j
        /\ \A rule \in ToSet(t) : /\ rule.method \in HTTPMethods /\ rule.source \in Nat
                                  /\ rule.text \in Seq(Content \cup Reserved)
                                  /\ LET patterns == rule.resource.patterns
                                     IN  /\ patterns \in Seq(ToSet(patterns))
                                         /\ \A text \in ToSet(patterns) : text \in Seq(ToSet(text))

\* A path is split at its slashes, and the requests include those that show an
\* overlap of two routes.
ASSUME PathsAssumption ==
    /\ \A path \in Paths :
          /\ path \in Seq(ToSet(path))
          /\ \A component \in ToSet(path) :
                component \in Seq(ToSet(component)) /\ "/" \notin ToSet(component)
    /\ \A t \in Tables : \A i, j \in DOMAIN t :
          (i < j /\ NoTemplate \notin {Parse(t[i].text), Parse(t[j].text)}) =>
              LET a == RouteOf(t[i])
                  b == RouteOf(t[j])
              IN  Overlaps(a, b) => Example(a, b) \in Paths /\ a.verb \in Verbs

VARIABLES
    rules,      \* the annotations, in declaration order
    phase,      \* "parse", "check", "sort", "serve", "malformed" or "refused"
    resources,  \* by type, the patterns of the resource
    dropped,    \* the aip diagnostics: <<type, text>> of a pattern left out
    table,      \* the routes, in scan order once sorted
    conflict,   \* what the build error shows: <<>> or <<a, b, example>>
    shadowed,   \* the shadowing diagnostics: [winner, loser, example]
    outer,      \* insertion sort: the element being placed
    inner       \* and where it has got to

vars == <<rules, phase, resources, dropped, table, conflict, shadowed, outer, inner>>
naming == <<rules, resources, dropped>>

Init ==
    /\ rules \in Tables
    /\ phase = "parse" /\ table = <<>>
    /\ resources = <<>> /\ dropped = {}
    /\ conflict = <<>> /\ shadowed = {}
    /\ outer = 2 /\ inner = 2

-----------------------------------------------------------------------------
\* The method of the next rule: its message with its resource, then
\* buildBinding, as far as the template goes.

Rule == rules[Len(table) + 1]
Parsed == Parse(Rule.text)

NoResource == [type |-> "", patterns |-> <<>>]

\* builder.resource: the first message of a type decides, and a malformed
\* pattern is reported and left out.
Register(res) ==
    IF res = NoResource \/ res.type \in DOMAIN resources
    THEN UNCHANGED <<resources, dropped>>
    ELSE LET parsed == [n \in DOMAIN res.patterns |-> ParsePattern(res.patterns[n])]
             kept   == {n \in DOMAIN parsed : parsed[n] # NoPattern}
         IN  /\ resources' = [type \in DOMAIN resources \cup {res.type} |->
                   IF type = res.type THEN [n \in 1 .. Cardinality(kept) |-> parsed[InOrder(kept)[n]]]
                   ELSE resources[type]]
             /\ dropped' = dropped \cup {<<res.type, res.patterns[n]>> : n \in DOMAIN parsed \ kept}

AddRoute ==
    /\ phase = "parse" /\ Parsed # NoTemplate
    /\ Register(Rule.resource)
    /\ table' = Append(table, RouteOf(Rule))
    /\ phase' = IF Len(table) + 1 = Len(rules) THEN "check" ELSE "parse"
    /\ UNCHANGED <<rules, conflict, shadowed, outer, inner>>

\* A SyntaxError ends the build.
Malformed ==
    /\ phase = "parse" /\ Parsed = NoTemplate
    /\ Register(Rule.resource)
    /\ phase' = "malformed"
    /\ UNCHANGED <<rules, table, conflict, shadowed, outer, inner>>

-----------------------------------------------------------------------------
\* checkRouteConflicts

\* The pairs i < j of the table, in the order the two loops visit them.
PairsOf(t) == {p \in (DOMAIN t) \X (DOMAIN t) : p[1] < p[2]}

Earlier(p, q) == p[1] < q[1] \/ (p[1] = q[1] /\ p[2] <= q[2])

Ambiguous(t) ==
    {p \in PairsOf(t) : Overlaps(t[p[1]], t[p[2]]) /\ Compare(t[p[1]], t[p[2]]) = 0}

\* mutant: the loser is taken for the winner
ShadowingsSwapped(t) ==
    {[winner |-> q[1], loser |-> q[2], example |-> Example(q[1], q[2])] :
        q \in {p \in ToSet(t) \X ToSet(t) :
                Overlaps(p[1], p[2]) /\ Compare(p[1], p[2]) = 1}}

Shadowings(t) ==
    {[winner |-> q[1], loser |-> q[2], example |-> Example(q[1], q[2])] :
        q \in {p \in ToSet(t) \X ToSet(t) :
                Overlaps(p[1], p[2]) /\ Compare(p[1], p[2]) = -1}}

Refuse ==
    /\ phase = "check" /\ Ambiguous(table) # {}
    /\ \E p \in Ambiguous(table) :
          /\ \A q \in Ambiguous(table) : Earlier(p, q)
          /\ conflict' = <<table[p[1]], table[p[2]], Example(table[p[1]], table[p[2]])>>
    /\ phase' = "refused"
    /\ UNCHANGED <<naming, table, shadowed, outer, inner>>

Accept ==
    /\ phase = "check" /\ Ambiguous(table) = {}
    /\ shadowed' = Shadowings(table)
    /\ phase' = "sort"
    /\ UNCHANGED <<naming, table, conflict, outer, inner>>

-----------------------------------------------------------------------------
\* SortBySpecificity

Swap ==
    /\ phase = "sort" /\ outer <= Len(table)
    /\ inner > 1 /\ Less(table[inner], table[inner - 1])
    /\ table' = [table EXCEPT ![inner] = table[inner - 1],
                              ![inner - 1] = table[inner]]
    /\ inner' = inner - 1
    /\ UNCHANGED <<naming, phase, conflict, shadowed, outer>>

Placed ==
    /\ phase = "sort" /\ outer <= Len(table)
    /\ inner > 1 => ~Less(table[inner], table[inner - 1])
    /\ outer' = outer + 1 /\ inner' = outer + 1
    /\ UNCHANGED <<naming, phase, table, conflict, shadowed>>

Emit ==
    /\ phase = "sort" /\ outer > Len(table)
    /\ phase' = "serve"
    /\ UNCHANGED <<naming, table, conflict, shadowed, outer, inner>>

Done ==
    /\ phase \in {"serve", "refused", "malformed"}
    /\ UNCHANGED vars

Next == AddRoute \/ Malformed \/ Refuse \/ Accept \/ Swap \/ Placed \/ Emit \/ Done

Spec == Init /\ [][Next]_vars

-----------------------------------------------------------------------------
\* Properties

Requests == HTTPMethods \X Paths \X Verbs

Reach(t, q) == {r \in ToSet(t) : Matches(r, q[1], q[2], q[3])}

\* The route every other match of the request yields to.
Winners(t, q) == {w \in Reach(t, q) : \A r \in Reach(t, q) \ {w} : Compare(w, r) = -1}

\* Every example a diagnostic shows is a path both its routes match, so it does
\* "demonstrate the overlap" (conflict.go).
ExamplesMatchBoth ==
    /\ \A s \in shadowed : \A r \in {s.winner, s.loser} :
            Matches(r, r.method, s.example, r.verb)
    /\ conflict # <<>> => \A i \in {1, 2} :
            Matches(conflict[i], conflict[i].method, conflict[3], conflict[i].verb)

\* A table is refused exactly when some request matches two routes neither of
\* which is more specific: no ambiguity passes and none is made up.
RefusedIffAmbiguous ==
    phase \in {"refused", "serve"} =>
        (phase = "refused" <=>
            \E q \in Requests : \E a \in Reach(table, q), b \in Reach(table, q) :
                a # b /\ Compare(a, b) = 0)

\* In an accepted table every request that matches anything has one winner, and
\* each other match is reported as shadowed by it ("Winner serves every request
\* the two share").
OneWinner ==
    phase = "serve" =>
        \A q \in Requests : Reach(table, q) # {} =>
            \E w \in Winners(table, q) : \A r \in Reach(table, q) \ {w} :
                \E s \in shadowed : s.winner = w /\ s.loser = r

\* The emitted table, scanned in order, serves a request with its winner:
\* SortBySpecificity gives "the order a runtime scans it in" (conflict.go).
ScanServesWinner ==
    phase = "serve" =>
        \A q \in Requests : \A i \in DOMAIN table :
            /\ table[i] \in Reach(table, q)
            /\ \A j \in 1..(i - 1) : table[j] \notin Reach(table, q)
            => table[i] \in Winners(table, q)

WithoutMulti(t) == \A i \in DOMAIN t : ~HasMulti(t[i])

\* As long as no template has a "**", the scan serves every winner.
PlainScanServesWinner == WithoutMulti(table) => ScanServesWinner

-----------------------------------------------------------------------------
\* What a template is, by cutting its text where the grammar of doc.go joins.

IsContent(text) == text # <<>> /\ ToSet(text) \subseteq Content
IsPlain(text) == text \in {Single, Multi} \/ IsContent(text)
IsFieldPath(text) ==
    \A ident \in ToSet(Split(text, ".")) :
        ident # <<>> /\ ident[1] \in Letters /\ ToSet(ident) \subseteq Letters \cup Digits

Inside(text) == Split(SubSeq(text, 2, Len(text) - 1), "=")
IsVariable(text) ==
    /\ Len(text) > 2 /\ text[1] = "{" /\ text[Len(text)] = "}"
    /\ Len(Inside(text)) <= 2 /\ IsFieldPath(Inside(text)[1])
    /\ Len(Inside(text)) = 2 =>
          \A sub \in ToSet(Split(Inside(text)[2], "/")) : IsPlain(sub)

\* Some way to cut off a verb and to cut the rest at slashes leaves segments
\* only, no two of them of one field; and no "**" has a slash behind it.
IsTemplate(text) ==
    /\ \E last \in {i \in DOMAIN text : text[i] = ":"} \cup {Len(text) + 1} :
          LET path == SubSeq(text, 1, last - 1)
              Segs(cuts) == Tail(Pieces(path, cuts))
          IN  /\ last <= Len(text) => IsContent(SubSeq(text, last + 1, Len(text)))
              /\ \E cuts \in SUBSET {i \in DOMAIN path : path[i] = "/"} :
                    /\ 1 \in cuts
                    /\ \A s \in ToSet(Segs(cuts)) : IsPlain(s) \/ IsVariable(s)
                    /\ \A j, k \in DOMAIN Segs(cuts) :
                          (/\ IsVariable(Segs(cuts)[j]) /\ IsVariable(Segs(cuts)[k])
                           /\ Inside(Segs(cuts)[j])[1] = Inside(Segs(cuts)[k])[1]) => j = k
    /\ \A i, j \in DOMAIN text :
          (j > i + 1 /\ text[i] = "*" /\ text[i + 1] = "*") => text[j] # "/"

\* Braces stand around a whole part and hold a name, before "=**" at the end
\* of the text; no part is empty.
IsPattern(text) ==
    LET Ends(i) == i \notin DOMAIN text \/ text[i] = "/"
        Nearest(i, dir) == Max({0} \cup {n \in 1 .. Len(text) :
            \A k \in 1 .. n : At(text, i + dir * k) \notin {"{", "}", "/"}}) + 1
    IN  /\ text # <<>>
        /\ \A i \in DOMAIN text : text[i] = "/" => ~Ends(i + 1) /\ i > 1
        /\ \A i \in DOMAIN text : text[i] = "{" =>
              LET close == i + Nearest(i, 1)
                  eq    == {j \in i + 1 .. close - 1 : At(text, j) = "="}
              IN  /\ Ends(i - 1) /\ At(text, close) = "}" /\ close > i + 1
                  /\ \A j \in eq : /\ j > i + 1 /\ close = Len(text)
                                   /\ SubSeq(text, j + 1, close - 1) = Multi
        /\ \A i \in DOMAIN text : text[i] = "}" =>
              Ends(i + 1) /\ At(text, i - Nearest(i, -1)) = "{"

\* The rule whose route was added last.
Added == rules[Len(table)]

\* A build stops at a template exactly when the grammar or one of the rules
\* beside it ("the three structural rules the grammar itself does not express",
\* parse.go) forbids it, and leaves out the resource patterns that are none.
\* What it reads is what was written: "parsing String's output yields an equal
\* Template" (template.go), although {name=*} comes back as {name}.
ParsesExactly ==
    /\ phase = "malformed" => ~IsTemplate(Rule.text)
    /\ (phase \in {"parse", "check"} /\ table # <<>>) =>
          /\ IsTemplate(Added.text)
          /\ LET t == Parse(Added.text) IN Parse(String(t)) = t
          /\ LET res  == Added.resource
                 read == {PatternString(p) : p \in ToSet(resources[res.type])}
             IN  (res # NoResource /\ \A i \in 1 .. Len(table) - 1 : rules[i].resource.type # res.type)
                    => \A text \in ToSet(res.patterns) :
                          IF IsPattern(text) THEN text \in read ELSE <<res.type, text>> \in dropped

\* A path falls at from and to into what the segments before one match, what it
\* matches, and what those behind it match.
FallsApart(r, segments, s, path, from, to) ==
    LET Fits(first, last, part) ==
            Matches([r EXCEPT !.segs = Flat(SubSeq(segments, first, last))], r.method, part, r.verb)
    IN  /\ Fits(1, s - 1, SubSeq(path, 1, from))
        /\ Fits(s, s, SubSeq(path, from + 1, to))
        /\ Fits(s + 1, Len(segments), SubSeq(path, to + 1, Len(path)))

\* A variable captures what its own sub-template matches while the rest of the
\* template matches the rest of the path: a span counted from the start of the
\* path is right however long the path is. And a decoded name has as many
\* segments as the name that was sent: no escape makes a slash.
CapturesKeepShape ==
    phase = "check" => \A i \in DOMAIN table : \A path \in Paths :
        LET r == table[i]
            segments == Parse(rules[i].text).segments
        IN  Matches(r, r.method, path, r.verb) => \A k \in DOMAIN r.captures :
              /\ \E s \in Variables(segments), from, to \in 0 .. Len(path) :
                    /\ segments[s].field = r.captures[k].field /\ from <= to
                    /\ FallsApart(r, segments, s, path, from, to)
                    /\ MatchPath(r, path)[k] = Joined(SubSeq(path, from + 1, to), "/")
              /\ Match(r, path).malformed = <<>> =>
                    Len(Split(Match(r, path).values[k], "/")) = Len(Split(MatchPath(r, path)[k], "/"))

-----------------------------------------------------------------------------
\* Resource names.

\* The sub-template of a variable that captures the names of a pattern.
SubOf(p) == [i \in DOMAIN p |-> CASE p[i].multi -> Multi
                                 [] p[i].var = NoVar -> p[i].literal
                                 [] OTHER -> Single]

\* The name whose variables have these values; only "**" may stand for nothing.
NameOf(p, bound) ==
    LET parts == [i \in DOMAIN p |-> IF p[i].var = NoVar THEN p[i].literal ELSE bound[p[i].var]]
        n     == Len(parts)
    IN  Joined(IF parts[n] = <<>> THEN SubSeq(parts, 1, n - 1) ELSE parts, "/")

VarsAreApart(p) == \A i, j \in DOMAIN p : p[i].var # NoVar /\ p[i].var = p[j].var => i = j

\* The two matchers of package service agree: a name that a template captured
\* through the shape of a pattern, and that was decoded, is a name the pattern
\* matches, unless it is nothing or has an empty component; and its bindings
\* make that name and no other ("two distinct names for one resource",
\* resource_match.go, must not be). The literals of the pattern are content and
\* have no escape that decodes: a route compares them as sent, a pattern decoded.
NamesAgree ==
    phase = "check" => \A i \in DOMAIN table : \A type \in DOMAIN resources :
        LET r == table[i]
            segments == Parse(rules[i].text).segments
        IN  \A p \in ToSet(resources[type]), k \in DOMAIN r.captures :
              (/\ \A n \in DOMAIN p : p[n].var = NoVar =>
                       IsContent(p[n].literal) /\ Decode(p[n].literal) = p[n].literal
               /\ \E s \in Variables(segments) :
                     segments[s].field = r.captures[k].field /\ segments[s].sub = SubOf(p))
              => \A path \in Paths :
                    (Matches(r, r.method, path, r.verb) /\ Match(r, path).malformed = <<>>) =>
                        LET span == Span(r.captures[k], path)
                            name == Match(r, path).values[k]
                            ids  == Split(name, "/")
                        IN  /\ NameMatches(p, ids) <=> (span # <<>> /\ <<>> \notin ToSet(span))
                            /\ (NameMatches(p, ids) /\ VarsAreApart(p)) => NameOf(p, Bound(p, ids)) = name
=============================================================================
