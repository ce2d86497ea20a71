------------------------------ MODULE Patterns -------------------------------
(***************************************************************************)
(* Package service on resource names: ParsePattern, Pattern.Match and      *)
(* Pattern.String.  Texts are sequences of characters, as in Templates; a  *)
(* pattern is the sequence of its segments.                                *)
(***************************************************************************)
EXTENDS Templates

NoVar == <<>>
NoPattern == <<>>

Literal(part) == [literal |-> part, var |-> NoVar, multi |-> FALSE]
Var(name, multi) == [literal |-> <<>>, var |-> name, multi |-> multi]

-----------------------------------------------------------------------------
\* ParsePattern

IsBraced(part) == part # <<>> /\ part[1] = "{" /\ part[Len(part)] = "}"
Braces(part) == {i \in DOMAIN part : part[i] \in {"{", "}"}}

\* What an "=" cuts off a variable, one part being no cut.
Named(part) == Split(SubSeq(part, 2, Len(part) - 1), "=")

IsWellFormed(part) ==
    /\ part # <<>>
    /\ IsBraced(part) =>
          /\ Cardinality(Braces(part)) = 2
          /\ Named(part)[1] # <<>>
          /\ Len(Named(part)) = 1 \/ Tail(Named(part)) = <<Multi>>
    /\ ~IsBraced(part) => Braces(part) = {}

PatternSegment(part) ==
    IF IsBraced(part) THEN Var(Named(part)[1], Len(Named(part)) = 2) ELSE Literal(part)

ParsePattern(text) ==
    LET parts == Split(text, "/")
        p     == [i \in DOMAIN parts |-> PatternSegment(parts[i])]
    IN  IF \/ \E i \in DOMAIN parts : ~IsWellFormed(parts[i])
           \/ \E i \in 1 .. Len(parts) - 1 : p[i].multi
        THEN NoPattern ELSE p

\* Pattern.String
PatternString(p) ==
    Joined([i \in DOMAIN p |->
               CASE p[i].var = NoVar -> p[i].literal
                 [] p[i].var # NoVar /\ ~p[i].multi -> <<"{">> \o p[i].var \o <<"}">>
                 [] p[i].multi -> <<"{">> \o p[i].var \o <<"=", "*", "*", "}">>], "/")

-----------------------------------------------------------------------------
\* Pattern.Match

Vars(p) == {p[i].var : i \in DOMAIN p} \ {NoVar}
FixedPart(p) == IF p[Len(p)].multi THEN Len(p) - 1 ELSE Len(p)

\* mutant: an empty component is an id like any other
NameMatchesLoose(p, ids) ==
    /\ IF p[Len(p)].multi THEN Len(ids) >= FixedPart(p) ELSE Len(ids) = FixedPart(p)
    /\ \A i \in 1 .. FixedPart(p) : p[i].var = NoVar => ids[i] = p[i].literal

\* An empty id is not an id, in the part a "**" absorbs neither.
NameMatches(p, ids) ==
    /\ IF p[Len(p)].multi THEN Len(ids) >= FixedPart(p) ELSE Len(ids) = FixedPart(p)
    /\ \A i \in DOMAIN ids : ids[i] # <<>>
    /\ \A i \in 1 .. FixedPart(p) : p[i].var = NoVar => ids[i] = p[i].literal

\* What the variables are bound to; the last of a name keeps its value.
Bound(p, ids) ==
    [v \in Vars(p) |->
        LET i == CHOOSE i \in DOMAIN p : p[i].var = v /\ \A j \in i + 1 .. Len(p) : p[j].var # v
        IN  IF p[i].multi THEN Joined(SubSeq(ids, i, Len(ids)), "/") ELSE ids[i]]
=============================================================================
