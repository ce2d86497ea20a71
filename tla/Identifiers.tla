---------------------------- MODULE Identifiers -----------------------------
(***************************************************************************)
(* The identifiers of the schema IR and the rules of package naming that   *)
(* decide when two of them meet.                                           *)
(*                                                                         *)
(* An identifier is the sequence of its pieces, with "_" where a word      *)
(* begins: <<"order", "_", "item">> is OrderItem as a message name and     *)
(* order_item as a table name. A word in capitals is a piece of its own:   *)
(* <<"HTTP", "_", "state">> is HTTPState and <<"http", "_", "state">> is   *)
(* HttpState; SnakeCase makes http_state of both. A word is split in       *)
(* pieces where the rules look inside it: <<"booking", "s">> begins with   *)
(* <<"booking">>. Words of one letter, and words in capitals that PascalGo *)
(* does not write so, are left out.                                        *)
(***************************************************************************)
EXTENDS Integers, SequencesExt

CONSTANTS MaxIdentifier,    \* the longest identifier kept whole, in pieces
          EndsInS,          \* the pieces whose last letter is an s
          EndsHushed,       \* ... an x or a z, or ch or sh
          Alphabet,         \* the pieces in the order of the strings
          Acronyms,         \* how PascalGo writes the words that it capitalizes
          Versions          \* the words that read as an API version

Digits == <<"0", "1", "2", "3", "4", "5", "6", "7", "8", "9">>
Pieces == ToSet(Alphabet)
Capitals == {Acronyms[word] : word \in DOMAIN Acronyms}
Names == Seq(Pieces)
NoName == <<>>

ASSUME IdentifiersAssumption ==
    /\ {"_", "case", "public"} \cup ToSet(Digits) \subseteq Pieces
    /\ MaxIdentifier \in Nat /\ MaxIdentifier > 2
    /\ EndsInS \cap EndsHushed = {} /\ {"s", "es", "ies"} \subseteq EndsInS
    /\ DOMAIN Acronyms \subseteq Pieces /\ Capitals \subseteq Pieces \ DOMAIN Acronyms
    /\ "_" \notin Capitals \cup DOMAIN Acronyms

\* Two words or names side by side, with the boundary PascalGo capitalizes.
Join(a, b) == a \o <<"_">> \o b

JoinAll(names) ==
    LET joined[n \in 1 .. Len(names)] ==
            IF n = 1 THEN names[1] ELSE Join(joined[n - 1], names[n])
    IN  joined[Len(names)]

\* The members of S in the order Before, total on S.
Ordered(S, Before(_, _)) ==
    [k \in 1 .. Cardinality(S) |->
        CHOOSE i \in S : Cardinality({j \in S : Before(j, i)}) = k - 1]

\* Positions in their order, and the items of a sequence that stand at them.
Ascending(S) == Ordered(S, <)
Picked(items, S) ==
    LET at == Ascending(S)
    IN  [n \in DOMAIN at |-> items[at[n]]]

\* A sequence, of whatever items.
IsList(s) == s \in Seq({s[i] : i \in DOMAIN s})

Boundaries(id) == {i \in DOMAIN id : id[i] = "_"}

\* The words of an identifier.
Words(id) ==
    LET cuts == Ascending({0, Len(id) + 1} \cup Boundaries(id))
    IN  [k \in 1 .. Len(cuts) - 1 |-> SubSeq(id, cuts[k] + 1, cuts[k + 1] - 1)]

\* A Pascal name in snake case: words in lower letters; the boundary between
\* two words in capitals does not show, and is lost.
SnakeCase(id) ==
    LET Lost(i) == id[i] = "_" /\ i > 1 /\ i < Len(id)
                   /\ {id[i - 1], id[i + 1]} \subseteq Capitals
        Lower(piece) == IF piece \in Capitals
                        THEN CHOOSE word \in DOMAIN Acronyms : Acronyms[word] = piece ELSE piece
        kept == Picked(id, {i \in DOMAIN id : ~Lost(i)})
    IN  [i \in DOMAIN kept |-> Lower(kept[i])]

\* A snake name in Pascal case: acronyms in capitals; a digit has no capital,
\* and the boundary before it is lost.
PascalGo(id) ==
    LET Whole(i) == /\ i = 1 \/ id[i - 1] = "_"
                    /\ i = Len(id) \/ id[i + 1] = "_"
        Upper(i) == IF id[i] \in DOMAIN Acronyms /\ Whole(i) THEN Acronyms[id[i]] ELSE id[i]
        spelled == [i \in DOMAIN id |-> Upper(i)]
        Lost(i) == id[i] = "_" /\ i < Len(id) /\ id[i + 1] \in ToSet(Digits)
    IN  Picked(spelled, {i \in DOMAIN id : ~Lost(i)})

\* squashIdent: the letters alone.
Squash(id) == SelectSeq(id, LAMBDA piece : piece # "_")

IsVersion(word) == Len(word) = 1 /\ word[1] \in Versions

\* The last word of a schema name that is no API version, else its first.
SchemaDomain(id) ==
    LET words == Words(id)
        keep  == {1} \cup {k \in DOMAIN words : ~IsVersion(words[k])}
    IN  words[Max(keep)]

StripPackageVersion(id) ==
    IF Boundaries(id) # {} /\ IsVersion(Last(Words(id)))
    THEN SubSeq(id, 1, Max(Boundaries(id)) - 1)
    ELSE id

\* Pluralize, on the last word: "taxes" stays, "box" takes es, "policy" ies.
Pluralize(id) ==
    CASE id = NoName             -> id
      [] Last(id) \in EndsInS    -> id
      [] Last(id) \in EndsHushed -> Append(id, "es")
      [] Last(id) = "y"          -> Append(Front(id), "ies")
      [] OTHER                   -> Append(id, "s")

SnakePlural(id) == Pluralize(SnakeCase(id))

\* The foreign key column of a name, and the name without its suffix.
IdColumn(id) == Join(id, <<"id">>)

StripIDSuffix(id) ==
    IF Len(id) > 2 /\ IsSuffix(<<"_", "id">>, id) THEN SubSeq(id, 1, Len(id) - 2) ELSE id

\* Short enough, or the first pieces and a hash of the whole. SHA-1 is taken
\* to keep apart the identifiers it is given.
FitIdentifier(id) ==
    IF Len(id) <= MaxIdentifier THEN id
    ELSE SubSeq(id, 1, MaxIdentifier - 2) \o <<"_", ToString(id)>>

-----------------------------------------------------------------------------
\* A number as a last resort: "Tax2" for a model or enum, "tax_2" for a table.

Pascal == <<>>
Snake == <<"_">>
Decimal(n) ==
    LET digits[k \in 0 .. n] ==
            IF k < 10 THEN <<Digits[k + 1]>>
            ELSE Append(digits[k \div 10], Digits[(k % 10) + 1])
    IN  digits[n]
Numbered(id, case, n) == id \o case \o Decimal(n)

\* The base itself, or the base with the first free number from 2 up.
Fresh(base, used, case) ==
    IF base \notin used THEN base
    ELSE LET free == {n \in 2 .. Cardinality(used) + 2 : Numbered(base, case, n) \notin used}
         IN  Numbered(base, case, Min(free))

\* mutant: names given out by the pass are not recorded
AssignForgetful(todo, base, used, case) ==
    [i \in ToSet(todo) |-> Fresh(base[i], used, case)]

\* What the items of todo, in that order, are called when each takes the
\* first name of its own base that nothing has.
Assign(todo, base, used, case) ==
    LET given[n \in 0 .. Len(todo)] ==
            IF n = 0 THEN <<>>
            ELSE LET taken == used \cup ToSet(given[n - 1])
                 IN  Append(given[n - 1], Fresh(base[todo[n]], taken, case))
    IN  [i \in ToSet(todo) |-> given[Len(todo)][CHOOSE n \in DOMAIN todo : todo[n] = i]]

\* The positions in S whose key another position of S has too, and the others'.
Colliding(S, key) == {i \in S : \E j \in S \ {i} : key[j] = key[i]}
Alone(S, key) == {key[i] : i \in S \ Colliding(S, key)}

\* The first position in S with i's key: groups in the order first met.
FirstOf(S, key, i) == Min({j \in S : key[j] = key[i]})

\* The positions of S by their ranks, compared from the left, then as they
\* stand (an insertion sort is stable, and the groups are short).
InOrder(S, rank) ==
    LET Before(i, j) ==
            LET differ == {k \in DOMAIN rank[i] : rank[i][k] # rank[j][k]}
            IN  IF differ = {} THEN i < j
                ELSE rank[i][Min(differ)] < rank[j][Min(differ)]
    IN  Ordered(S, Before)

\* Where an identifier comes among those of S when they are sorted.
Letter(piece) == CHOOSE k \in DOMAIN Alphabet : Alphabet[k] = piece
SortsBefore(a, b) ==
    LET differ == {k \in DOMAIN a \cap DOMAIN b : a[k] # b[k]}
    IN  IF differ = {} THEN Len(a) < Len(b)
        ELSE Letter(a[Min(differ)]) < Letter(b[Min(differ)])
Rank(id, ids) == Cardinality({other \in ids : SortsBefore(other, id)})
=============================================================================
