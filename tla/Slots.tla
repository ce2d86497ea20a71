-------------------------------- MODULE Slots --------------------------------
(***************************************************************************)
(* The ordinal pass of package buffers as pure operators: what             *)
(* deriveOrdinals computes from the numbers of a message, and how          *)
(* assignFieldOrdinals reconciles it with the ledger and the pins.         *)
(*                                                                         *)
(* A message is three values: `live', the set of its field numbers;        *)
(* `reserved', the set of numbers its reserved ranges name (protoc keeps   *)
(* them apart from the live ones); and `pins', the declared ordinal of     *)
(* each field, 0 when there is none, as HasPin reads it.  `locked' is what *)
(* the ledger that the build has loaded records for the message: a         *)
(* function from field numbers to ordinals.                                *)
(***************************************************************************)
EXTENDS Integers, FiniteSets

CONSTANT MaxOrdinalSpace    \* maxOrdinalSpace, 8192 in the code

ASSUME MaxOrdinalSpaceAssumption == MaxOrdinalSpace \in Nat

NoPin == 0                  \* a pin of 0 is read as "not declared"
Owner == 0                  \* the node of a report about the message itself

-----------------------------------------------------------------------------
\* deriveOrdinals

Rank(S, n) == Cardinality({m \in S : m < n})

\* The reserved numbers below the highest live one.
Expanded(live, reserved) ==
    {n \in reserved \ live : \E m \in live : n < m}

\* An expansion that would pass the bound is discarded as a whole.
Truncated(live, reserved) ==
    /\ Expanded(live, reserved) # {}
    /\ Cardinality(live \cup Expanded(live, reserved)) > MaxOrdinalSpace

\* The reserved numbers that take a slot.
Held(live, reserved) ==
    IF Truncated(live, reserved) THEN {} ELSE Expanded(live, reserved)

Space(live, reserved) == live \cup Held(live, reserved)

Derived(live, reserved) ==
    [n \in Space(live, reserved) |-> Rank(Space(live, reserved), n)]

-----------------------------------------------------------------------------
\* assignFieldOrdinals

\* mutant: derivation is trusted over the ledger
LedgerIgnored(derived, locked, n) ==
    IF n \in DOMAIN derived THEN derived[n] ELSE locked[n]

Ledgered(derived, locked, n) ==
    IF n \in DOMAIN locked THEN locked[n] ELSE derived[n]

\* mutant: a negative pin is reported but not clamped
SettledUnclamped(derived, locked, pin, n) ==
    IF pin # NoPin THEN pin ELSE Ledgered(derived, locked, n)

\* A pin outranks the ledger, the ledger outranks derivation, and a negative
\* result is clamped to slot 0.
Settled(derived, locked, pin, n) ==
    LET wanted == IF pin # NoPin THEN pin ELSE Ledgered(derived, locked, n)
    IN  IF wanted < 0 THEN 0 ELSE wanted

FieldOrdinals(live, reserved, locked, pins) ==
    [n \in live |-> Settled(Derived(live, reserved), locked, pins[n], n)]

\* mutant: nobody looks for holes
NoGaps(live, reserved) == {}

\* Holes strictly between two live numbers that no reserved range accounts for.
Gaps(live, reserved) ==
    {n \in UNION {(a + 1)..(b - 1) : a \in live, b \in live} :
        n \notin Space(live, reserved)}

\* mutant: a placeholder is emitted without looking who has its slot
PlaceholdersUnchecked(live, reserved, ordinals) ==
    {[number |-> n, ordinal |-> Derived(live, reserved)[n]] :
        n \in Held(live, reserved)}

\* mutant: reserved slots are not emitted at all
NoPlaceholders(live, reserved, ordinals) == {}

\* The slots kept open for reserved numbers, unless a live field sits there.
Placeholders(live, reserved, ordinals) ==
    {[number |-> n, ordinal |-> Derived(live, reserved)[n]] :
        n \in {h \in Held(live, reserved) :
                 \A m \in live : ordinals[m] # Derived(live, reserved)[h]}}

\* The reports of the pass, all of RuleOrdinal.  Fields are resolved in
\* ascending number order, so a slot is "taken" by a field of a lower number.
About(kind, nodes) == {[kind |-> kind, node |-> n] : n \in nodes}

\* mutant: a pin silently outranks the ledger, as it does for enum values
NeverContradicted(live, locked, pins) == {}

Contradicted(live, locked, pins) ==
    {n \in live \cap DOMAIN locked : pins[n] # NoPin /\ pins[n] # locked[n]}

\* mutant: a clash is looked for among pinned fields only
TakenByPin(live, ord, pins) ==
    {n \in live : pins[n] # NoPin /\ \E m \in live : m < n /\ ord[m] = ord[n]}

Taken(live, ord, pins) ==
    {n \in live : \E m \in live : m < n /\ ord[m] = ord[n]}

LastOn(live, ord, o) ==
    CHOOSE n \in live : ord[n] = o /\ \A m \in live : ord[m] = o => m <= n

FieldReports(live, reserved, locked, pins) ==
    LET derived == Derived(live, reserved)
        ord == FieldOrdinals(live, reserved, locked, pins)
        onReserved == {h \in Held(live, reserved) : \E m \in live : ord[m] = derived[h]}
    IN  UNION {
          About("truncated", IF Truncated(live, reserved) THEN {Owner} ELSE {}),
          About("gap", IF Gaps(live, reserved) # {} THEN {Owner} ELSE {}),
          About("moved", {n \in live \cap DOMAIN locked : locked[n] # derived[n]}),
          About("pin vs ledger", Contradicted(live, locked, pins)),
          About("negative", {n \in live : pins[n] < 0}),
          About("taken", Taken(live, ord, pins)),
          About("pinned on reserved", {LastOn(live, ord, derived[h]) : h \in onReserved})}
=============================================================================
