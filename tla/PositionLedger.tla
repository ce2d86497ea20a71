--------------------------- MODULE PositionLedger ---------------------------
(***************************************************************************)
(* The life of an enum, or of a service, under buffers.Build.  Their       *)
(* members have no reserved-range machinery: a value's slot is the rank of *)
(* its number and a method's is its place in the service, unless the       *)
(* ledger or a pin says otherwise.  The ledger keys values by number, so   *)
(* that an alias (allow_alias) shares its slot, and methods by name.       *)
(***************************************************************************)
EXTENDS Integers, FiniteSets, SequencesExt

CONSTANTS Values, NumberOf, \* enum values, and the number each one declares
          Methods,          \* method names
          Pins,             \* ordinals the author may pin
          Severities        \* what the builds run RuleOrdinal at

NoPin == 0                  \* a pin of 0 is read as "not declared"

ASSUME ValuesAssumption == NumberOf \in [Values -> Int]
ASSUME PinsAssumption == Pins \subseteq Int \ {NoPin}
ASSUME SeveritiesAssumption == Severities \subseteq {"warn", "error"}

VARIABLES
    kind,       \* "enum" or "service"
    declared,   \* its members in declaration order
    pins,       \* the pinned ordinal of each member, NoPin if none
    lock        \* its entry in buffers.lock: key -> ordinal

vars == <<kind, declared, pins, lock>>

Members == IF kind = "enum" THEN Values ELSE Methods
Key(x) == IF kind = "enum" THEN NumberOf[x] ELSE x
Keys(decl) == {Key(x) : x \in ToSet(decl)}

Init ==
    /\ kind \in {"enum", "service"}
    /\ declared = <<>>
    /\ pins = [x \in Members |-> NoPin]
    /\ lock = <<>>              \* no ledger entry: a first run

-----------------------------------------------------------------------------
\* assignEnumOrdinals and assignMethodSlots

\* mutant: the counter advances with every declaration, aliases included
RankOfDeclaration(decl, x) == Cardinality({y \in ToSet(decl) : Key(y) < Key(x)})

\* The counter advances once per distinct number.
RankOfNumber(decl, x) == Cardinality({n \in Keys(decl) : n < Key(x)})

Place(decl, x) == (CHOOSE i \in DOMAIN decl : decl[i] = x) - 1

Position(decl, x) ==
    IF kind = "enum" THEN RankOfNumber(decl, x) ELSE Place(decl, x)

\* mutant: derivation is trusted over the ledger
OrdinalsUnlocked(decl, locked, pin) ==
    [x \in ToSet(decl) |-> IF pin[x] # NoPin THEN pin[x] ELSE Position(decl, x)]

\* A pin outranks the ledger, the ledger outranks the position.
Ordinals(decl, locked, pin) ==
    [x \in ToSet(decl) |->
        IF pin[x] # NoPin THEN pin[x]
        ELSE IF Key(x) \in DOMAIN locked THEN locked[Key(x)]
        ELSE Position(decl, x)]

\* mutant: the ledger wins without a report
NoReports(decl, locked) == {}

\* The members the ledger holds at another slot.  A pin that contradicts the
\* ledger, or that lands on a taken slot, is not reported.
Reports(decl, locked) ==
    {x \in ToSet(decl) : Key(x) \in DOMAIN locked /\ locked[Key(x)] # Position(decl, x)}

\* mutant: the recorder writes the position, not the slot
RecordedPosition(decl, ord) ==
    [k \in Keys(decl) |-> Position(decl, CHOOSE x \in ToSet(decl) : Key(x) = k)]

\* The recorder starts empty, and of the members with one key the last declared
\* is the one indexed.
Recorded(decl, ord) ==
    [k \in Keys(decl) |->
        ord[decl[CHOOSE i \in DOMAIN decl :
                    /\ Key(decl[i]) = k
                    /\ \A j \in (i + 1)..Len(decl) : Key(decl[j]) # k]]]

-----------------------------------------------------------------------------
\* The author's edits

\* A member may be declared anywhere.
Declare(x, i) ==
    /\ x \notin ToSet(declared)
    /\ declared' = InsertAt(declared, i, x)
    /\ UNCHANGED <<kind, pins, lock>>

Delete(i) ==
    /\ declared' = RemoveAt(declared, i)
    /\ pins' = [pins EXCEPT ![declared[i]] = NoPin]
    /\ UNCHANGED <<kind, lock>>

\* A method has no number: to the ledger a new name is a new method.
RenameMethod(x, new) ==
    /\ kind = "service"
    /\ x \in ToSet(declared) /\ new \notin ToSet(declared)
    /\ declared' = ReplaceAll(declared, x, new)
    /\ pins' = [pins EXCEPT ![x] = NoPin, ![new] = pins[x]]
    /\ UNCHANGED <<kind, lock>>

Pin(x, p) ==
    /\ x \in ToSet(declared) /\ pins[x] # p
    /\ pins' = [pins EXCEPT ![x] = p]
    /\ UNCHANGED <<kind, declared, lock>>

Edit ==
    \/ \E x \in Members, i \in 1..(Len(declared) + 1) : Declare(x, i)
    \/ \E i \in DOMAIN declared : Delete(i)
    \/ \E x \in Members, new \in Members : RenameMethod(x, new)
    \/ \E x \in Members, p \in Pins \cup {NoPin} : Pin(x, p)

-----------------------------------------------------------------------------
\* One build, with the enum or the service in a generate-flagged file.

NewOrdinals == Ordinals(declared, lock, pins)
NewReports == Reports(declared, lock)

BuildAccepted ==
    /\ NewReports = {} \/ "warn" \in Severities
    /\ lock' = Recorded(declared, NewOrdinals)
    /\ UNCHANGED <<kind, declared, pins>>

BuildRejected ==
    /\ NewReports # {} /\ "error" \in Severities
    /\ UNCHANGED vars

Next == Edit \/ BuildAccepted \/ BuildRejected

Spec == Init /\ [][Next]_vars

-----------------------------------------------------------------------------
\* Properties

Unpinned(x) == pins[x] = NoPin

\* An alias shares the slot of its number in the next schema, whatever the ledger
\* went through before, unless a pin sets one of them apart; and it takes up no
\* slot of its own: the enumerants of an enum without pins or reports are
\* "contiguous from zero" (ordinal_enum.go), as Cap'n Proto asks.
AliasesShare ==
    /\ \A x \in ToSet(declared), y \in ToSet(declared) :
          Key(x) = Key(y) /\ Unpinned(x) /\ Unpinned(y) => NewOrdinals[x] = NewOrdinals[y]
    /\ (kind = "enum" /\ NewReports = {} /\ \A x \in ToSet(declared) : Unpinned(x)) =>
          {NewOrdinals[x] : x \in ToSet(declared)} = 0 .. (Cardinality(Keys(declared)) - 1)

\* A member without a pin never moves, wherever others are inserted, removed or
\* pinned around it: "the ledger is what catches" that (slots.go).
UnpinnedNeverMoves ==
    [][\A k \in DOMAIN lock \cap DOMAIN lock' :
            (\A x \in ToSet(declared) : Key(x) = k => Unpinned(x))
                => lock'[k] = lock[k]]_vars

\* Two members without pins share a slot only if the build reports one of them.
ClashReported ==
    [][BuildAccepted =>
        \A x \in ToSet(declared), y \in ToSet(declared) :
            /\ Key(x) # Key(y) /\ Unpinned(x) /\ Unpinned(y)
            /\ NewOrdinals[x] = NewOrdinals[y]
            => NewReports \cap {x, y} # {}]_vars

\* Building the same .proto against the ledger just written moves nothing, as long
\* as the aliases of one number are all pinned alike.
RebuildMovesNothing ==
    [][BuildAccepted
        /\ (\A x \in ToSet(declared), y \in ToSet(declared) :
                Key(x) = Key(y) => pins[x] = pins[y])
        => Ordinals(declared, lock', pins) = NewOrdinals]_vars

\* "A removed enumerant is rarer, and the ledger covers it" (ordinal_enum.go): a
\* build without a report gives no recorded slot of an enum to another number.
RemovedSlotCovered ==
    [][kind = "enum" /\ NewReports = {} =>
        \A j \in DOMAIN lock, k \in DOMAIN lock' : lock'[k] = lock[j] => j = k]_vars
=============================================================================
