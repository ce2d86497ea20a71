-------------------------- MODULE FieldLedgerProofs --------------------------
(***************************************************************************)
(* Proofs about FieldLedger for every set of field numbers and pins, every *)
(* bound on the ordinal space and both severities of RuleOrdinal; then     *)
(* that, with RuleOrdinal an error and no pins, the ledger implements the  *)
(* registry: within a lineage no field moves and no slot is given away.    *)
(*                                                                         *)
(* The inductive invariant of the second part says what the code never     *)
(* writes down: in one lineage every slot is the field's number less one   *)
(* constant.  It is inductive because an accepted build leaves no hole     *)
(* between its live fields (an unreserved gap is a report), so its slots   *)
(* have one offset, and because a surviving field carries the offset of    *)
(* the last build over (a recorded slot that derivation disagrees with is  *)
(* a report).                                                              *)
(***************************************************************************)
EXTENDS FieldLineage, FiniteSetTheorems, TLAPS

-----------------------------------------------------------------------------
\* The operators of Slots

\* A position in a finite set of numbers is a natural number.
LEMMA RankNat ==
    ASSUME NEW S, IsFiniteSet(S), NEW n
    PROVE  Rank(S, n) \in Nat
<1>1. IsFiniteSet({m \in S : m < n})
    BY FS_Subset
<1>2. QED
    BY <1>1, FS_CardinalityType DEF Rank

\* The positions in a finite set of integers are 0..N-1, each taken once.
LEMMA RanksAreDense ==
    ASSUME NEW S, S \subseteq Int, IsFiniteSet(S)
    PROVE  /\ {Rank(S, n) : n \in S} = 0..(Cardinality(S) - 1)
           /\ \A a \in S, b \in S : Rank(S, a) = Rank(S, b) => a = b
<1> DEFINE Below(n) == {m \in S : m < n}
           T == 0..(Cardinality(S) - 1)
           rank == [n \in S |-> Rank(S, n)]
<1>1. Cardinality(S) \in Nat
    BY FS_CardinalityType
<1>2. \A n \in S : IsFiniteSet(Below(n)) /\ Cardinality(Below(n)) \in Nat
    BY FS_Subset, FS_CardinalityType
<1>3. ASSUME NEW a \in S, NEW b \in S, a < b
      PROVE  Cardinality(Below(a)) # Cardinality(Below(b))
    <2>1. \A m \in S : m < a => m < b
        <3>1. \A m, x, y \in Int : m < x /\ x < y => m < y
            OBVIOUS
        <3>2. QED
            BY <1>3, <3>1
    <2>2. a \in Below(b) /\ a \notin Below(a)
        BY <1>3
    <2>3. Below(a) \subseteq Below(b) /\ Below(a) # Below(b)
        BY <2>1, <2>2
    <2>4. QED
        BY <1>2, <2>3, FS_Subset
<1>4. \A a \in S, b \in S : Rank(S, a) = Rank(S, b) => a = b
    <2> SUFFICES ASSUME NEW a \in S, NEW b \in S, a # b
                 PROVE  Rank(S, a) # Rank(S, b)
        OBVIOUS
    <2>1. a < b \/ b < a
        OBVIOUS
    <2>2. QED
        BY <2>1, <1>3 DEF Rank
<1>5. \A n \in S : Rank(S, n) \in T
    <2> SUFFICES ASSUME NEW n \in S PROVE Rank(S, n) \in T
        OBVIOUS
    <2>1. Below(n) \subseteq S /\ n \notin Below(n)
        OBVIOUS
    <2>2. Cardinality(Below(n)) <= Cardinality(S) /\ Cardinality(Below(n)) # Cardinality(S)
        BY <2>1, FS_Subset
    <2>3. QED
        BY <1>1, <1>2, <2>2 DEF Rank
<1>6. rank \in Injection(S, T)
    BY <1>4, <1>5 DEF Injection, IsInjective
<1>7. IsFiniteSet(T) /\ Cardinality(T) = Cardinality(S)
    BY <1>1, FS_Interval
<1>8. rank \in Surjection(S, T)
    <2> HIDE DEF rank, T
    <2>1. QED
        BY <1>6, <1>7, FS_Injection
<1>9. {Rank(S, n) : n \in S} = T
    BY <1>5, <1>8 DEF Surjection
<1>10. QED
    BY <1>4, <1>9

\* deriveOrdinals gives every live field, and every held number, a slot.
LEMMA DerivedType ==
    ASSUME NEW L, NEW R, L \subseteq Numbers, R \subseteq Numbers
    PROVE  /\ Space(L, R) \subseteq Numbers
           /\ L \subseteq Space(L, R)
           /\ Held(L, R) \subseteq Space(L, R)
           /\ Derived(L, R) \in [Space(L, R) -> Nat]
<1>1. Held(L, R) \subseteq R
    BY DEF Held, Expanded
<1>2. Space(L, R) \subseteq Numbers
    BY <1>1 DEF Space
<1>3. IsFiniteSet(Space(L, R))
    BY <1>2, NumbersAssumption, FS_Subset
<1>4. \A n \in Space(L, R) : Rank(Space(L, R), n) \in Nat
    BY <1>3, RankNat
<1>5. QED
    BY <1>2, <1>4 DEF Derived, Space

\* What assignFieldOrdinals returns is a slot for every live field.
LEMMA OrdinalsType ==
    ASSUME NEW L, NEW R, L \subseteq Numbers, R \subseteq Numbers,
           NEW K, DOMAIN K \subseteq Numbers, K \in [DOMAIN K -> Nat],
           NEW P, P \in [Numbers -> Int]
    PROVE  FieldOrdinals(L, R, K, P) \in [L -> Nat]
<1>1. SUFFICES ASSUME NEW n \in L
               PROVE  Settled(Derived(L, R), K, P[n], n) \in Nat
    BY DEF FieldOrdinals
<1>2. Derived(L, R)[n] \in Nat
    BY DerivedType
<1>3. Ledgered(Derived(L, R), K, n) \in Int
    BY <1>2 DEF Ledgered
<1>4. P[n] \in Int
    OBVIOUS
<1>5. QED
    BY <1>3, <1>4 DEF Settled

-----------------------------------------------------------------------------
\* Type correctness

\* Every step keeps the type invariant.
LEMMA TypeStep ==
    ASSUME TypeOK, [Next]_vars
    PROVE  TypeOK'
<1>1. ASSUME NEW n \in Numbers, AddField(n) PROVE TypeOK'
    BY <1>1 DEF AddField, TypeOK, published
<1>2. ASSUME NEW n \in Numbers, DeleteField(n) PROVE TypeOK'
    BY <1>2 DEF DeleteField, TypeOK, published
<1>3. ASSUME NEW n \in Numbers, Reserve(n) PROVE TypeOK'
    BY <1>3 DEF Reserve, TypeOK, published
<1>4. ASSUME NEW n \in Numbers, Unreserve(n) PROVE TypeOK'
    BY <1>4 DEF Unreserve, TypeOK, published
<1>5. ASSUME NEW n \in Numbers, NEW p \in Pins \cup {NoPin}, Pin(n, p)
      PROVE  TypeOK'
    BY <1>5 DEF Pin, TypeOK, published
<1>6. CASE BuildAccepted
    <2>1. pins \in [Numbers -> Int]
        BY PinsAssumption DEF TypeOK, NoPin
    <2>2. NewOrdinals \in [live -> Nat]
        BY <2>1, OrdinalsType DEF NewOrdinals, TypeOK
    <2>3. DOMAIN lock' \subseteq Numbers /\ lock' \in [DOMAIN lock' -> Nat]
        BY <1>6, <2>2 DEF BuildAccepted, Recorded, TypeOK
    <2>4. Placeholders(live, reserved, NewOrdinals)
                \subseteq [number : Numbers, ordinal : Nat]
        BY DerivedType DEF Placeholders, TypeOK
    <2>5. QED
        BY <1>6, <2>3, <2>4 DEF BuildAccepted, TypeOK, proto
<1>7. CASE BuildRejected
    BY <1>7 DEF BuildRejected, TypeOK, proto, published
<1>8. CASE UNCHANGED vars
    BY <1>8 DEF TypeOK, vars
<1>9. QED
    BY <1>1, <1>2, <1>3, <1>4, <1>5, <1>6, <1>7, <1>8 DEF Next, Edit, Build

\* The type invariant holds: the ordinal of a published field or placeholder is
\* a natural number whatever was pinned, and no number is live and reserved.
THEOREM TypeCorrect == Spec => []TypeOK
<1>1. Init => TypeOK
    BY DEF Init, TypeOK
<1>2. TypeOK /\ [Next]_vars => TypeOK'
    BY TypeStep
<1>3. QED
    BY <1>1, <1>2, PTL DEF Spec

-----------------------------------------------------------------------------
\* Safety of a published schema

\* No placeholder shares a slot with a live field of the same schema, in every
\* build and whatever the ledger and the pins made of the fields' slots.
THEOREM PlaceholdersAreApart == Spec => []PlaceholdersApart
<1>1. Init => PlaceholdersApart
    BY DEF Init, PlaceholdersApart
<1>2. PlaceholdersApart /\ [Next]_vars => PlaceholdersApart'
    <2> SUFFICES ASSUME PlaceholdersApart, [Next]_vars PROVE PlaceholdersApart'
        OBVIOUS
    <2>1. CASE Edit
        <3>1. UNCHANGED <<lock, slots>>
            BY <2>1 DEF Edit, AddField, DeleteField, Reserve, Unreserve, Pin, published
        <3>2. QED
            BY <3>1 DEF PlaceholdersApart
    <2>2. CASE BuildAccepted
        <3>1. lock' = NewOrdinals /\ DOMAIN lock' = live
            BY <2>2 DEF BuildAccepted, Recorded, NewOrdinals, FieldOrdinals
        <3>2. slots' = Placeholders(live, reserved, NewOrdinals)
            BY <2>2 DEF BuildAccepted
        <3>3. QED
            BY <3>1, <3>2 DEF PlaceholdersApart, Placeholders
    <2>3. CASE BuildRejected
        BY <2>3 DEF BuildRejected, PlaceholdersApart, published
    <2>4. CASE UNCHANGED vars
        BY <2>4 DEF PlaceholdersApart, vars
    <2>5. QED
        BY <2>1, <2>2, <2>3, <2>4 DEF Next, Build
<1>3. QED
    BY <1>1, <1>2, PTL DEF Spec

\* The ledger changes in an accepted build only, and then it holds the slots
\* assignFieldOrdinals settled for the live fields.
LEMMA LockChange ==
    ASSUME [Next]_vars
    PROVE  \/ ~BuildAccepted /\ lock' = lock
           \/ /\ BuildAccepted
              /\ DOMAIN lock' = live
              /\ pins' = pins
              /\ \A n \in live :
                    lock'[n] = Settled(Derived(live, reserved), lock, pins[n], n)
<1>1. CASE BuildAccepted
    BY <1>1 DEF BuildAccepted, Recorded, NewOrdinals, FieldOrdinals, proto
<1>2. CASE ~BuildAccepted
    BY <1>2 DEF Next, Edit, Build, BuildRejected, AddField, DeleteField, Reserve,
                Unreserve, Pin, published, vars
<1>3. QED
    BY <1>1, <1>2

\* A recorded field without a pin keeps its recorded slot.
LEMMA UnpinnedKeeps ==
    ASSUME TypeOK, NEW n \in DOMAIN lock, NEW d, NEW p, p = NoPin
    PROVE  Settled(d, lock, p, n) = lock[n]
BY DEF Settled, Ledgered, TypeOK

\* The ledger wins: from build to build a field without a pin keeps its slot,
\* whatever was deleted, reserved, truncated or pinned around it.
THEOREM UnpinnedFieldsNeverMove == Spec => UnpinnedNeverMoves
<1>1. TypeOK /\ [Next]_vars =>
        [\A n \in DOMAIN lock \cap DOMAIN lock' :
            pins'[n] = NoPin => lock'[n] = lock[n]]_vars
    <2> SUFFICES ASSUME TypeOK, [Next]_vars,
                        NEW n \in DOMAIN lock \cap DOMAIN lock', pins'[n] = NoPin
                 PROVE  lock'[n] = lock[n]
        OBVIOUS
    <2>1. CASE BuildAccepted
        BY <2>1, LockChange, UnpinnedKeeps
    <2>2. CASE ~BuildAccepted
        BY <2>2, LockChange
    <2>3. QED
        BY <2>1, <2>2
<1>2. QED
    BY <1>1, TypeCorrect, PTL DEF Spec, UnpinnedNeverMoves

\* A pin that agrees with the ledger moves nothing, so a field moves only if it
\* is pinned to another slot than the recorded one, and that is reported.
THEOREM MovesAreReported == Spec => NoSilentMove
<1>1. TypeOK /\ [Next]_vars =>
        [\A n \in DOMAIN lock \cap DOMAIN lock' :
            lock'[n] # lock[n] => \E r \in NewReports : r.node = n]_vars
    <2> SUFFICES ASSUME TypeOK, [Next]_vars,
                        NEW n \in DOMAIN lock \cap DOMAIN lock', lock'[n] # lock[n]
                 PROVE  \E r \in NewReports : r.node = n
        OBVIOUS
    <2>1. BuildAccepted /\ n \in live
        BY LockChange
    <2>2. lock'[n] = Settled(Derived(live, reserved), lock, pins[n], n)
        BY <2>1, LockChange
    <2>3. pins[n] # NoPin
        BY <2>2, UnpinnedKeeps
    <2>4. pins[n] # lock[n]
        BY <2>2, <2>3 DEF Settled, TypeOK
    <2>5. n \in Contradicted(live, lock, pins)
        BY <2>1, <2>3, <2>4 DEF Contradicted
    <2>6. [kind |-> "pin vs ledger", node |-> n] \in NewReports
        BY <2>5 DEF NewReports, FieldReports, About
    <2>7. QED
        BY <2>6
<1>2. QED
    BY <1>1, TypeCorrect, PTL DEF Spec, NoSilentMove

\* Two fields on one slot never ship without a report on the later of them.
THEOREM ClashesAreReported == Spec => ClashReported
<1>1. TypeOK /\ [Next]_vars =>
        [BuildAccepted =>
            \A a \in live, b \in live :
                a < b /\ lock'[a] = lock'[b] => \E r \in NewReports : r.node = b]_vars
    <2> SUFFICES ASSUME BuildAccepted, NEW a \in live, NEW b \in live,
                        a < b, lock'[a] = lock'[b]
                 PROVE  \E r \in NewReports : r.node = b
        OBVIOUS
    <2>1. lock' = NewOrdinals
        BY DEF BuildAccepted, Recorded
    <2>2. b \in Taken(live, NewOrdinals, pins)
        BY <2>1 DEF Taken
    <2>3. [kind |-> "taken", node |-> b] \in NewReports
        BY <2>2 DEF NewReports, FieldReports, About, NewOrdinals
    <2>4. QED
        BY <2>3
<1>2. QED
    BY <1>1, TypeCorrect, PTL DEF Spec, ClashReported

\* The slots of an accepted build are what the ledger answers in the next one: a
\* pin gives the same slot again, and anything else is read back as it was
\* written, because the clamp has already been applied.
THEOREM RebuildsMoveNothing == Spec => RebuildMovesNothing
<1>1. TypeOK /\ [Next]_vars =>
        [BuildAccepted => FieldOrdinals(live, reserved, lock', pins) = lock']_vars
    <2> SUFFICES ASSUME TypeOK, [Next]_vars, BuildAccepted
                 PROVE  FieldOrdinals(live, reserved, lock', pins) = lock'
        OBVIOUS
    <2>1. lock' = NewOrdinals
        BY DEF BuildAccepted, Recorded
    <2>2. NewOrdinals \in [live -> Nat]
        <3>1. pins \in [Numbers -> Int]
            BY PinsAssumption DEF TypeOK, NoPin
        <3>2. QED
            BY <3>1, OrdinalsType DEF NewOrdinals, TypeOK
    <2>3. ASSUME NEW n \in live
          PROVE  Settled(Derived(live, reserved), lock', pins[n], n) = lock'[n]
        <3>1. lock'[n] \in Nat /\ n \in DOMAIN lock'
            BY <2>1, <2>2
        <3>2. lock'[n] = Settled(Derived(live, reserved), lock, pins[n], n)
            BY LockChange
        <3>3. CASE pins[n] = NoPin
            BY <3>1, <3>3 DEF Settled, Ledgered
        <3>4. CASE pins[n] # NoPin
            BY <3>2, <3>4 DEF Settled
        <3>5. QED
            BY <3>3, <3>4
    <2>4. FieldOrdinals(live, reserved, lock', pins) = [n \in live |-> lock'[n]]
        BY <2>3 DEF FieldOrdinals
    <2>5. QED
        BY <2>1, <2>2, <2>4
<1>2. QED
    BY <1>1, TypeCorrect, PTL DEF Spec, RebuildMovesNothing

-----------------------------------------------------------------------------
\* deriveOrdinals on a message without holes

\* Between two numbers of a set that has every number in between, the position
\* grows as the number does.
LEMMA RankGrows ==
    ASSUME NEW S, S \subseteq Nat, IsFiniteSet(S), NEW a \in S, NEW b \in S,
           a < b, (a + 1)..(b - 1) \subseteq S
    PROVE  Rank(S, b) - Rank(S, a) = b - a
<1> DEFINE Below(n) == {m \in S : m < n}
<1>1. a \in Nat /\ b \in Nat
    OBVIOUS
<1>2. Below(b) = Below(a) \cup a..(b - 1)
    <2>1. \A m \in Nat : m \in a..(b - 1) <=> a <= m /\ m < b
        BY <1>1
    <2>2. a..(b - 1) \subseteq S
        BY <1>1
    <2>3. \A m \in S : m < b <=> m < a \/ m \in a..(b - 1)
        BY <1>1, <2>1
    <2>4. QED
        BY <1>1, <2>1, <2>2, <2>3
<1>3. Below(a) \cap a..(b - 1) = {}
    BY <1>1
<1>4. IsFiniteSet(Below(a)) /\ IsFiniteSet(a..(b - 1))
    <2>1. Below(a) \subseteq S
        OBVIOUS
    <2>2. IsFiniteSet(Below(a))
        BY <2>1, FS_Subset
    <2>3. IsFiniteSet(a..(b - 1))
        BY <1>1, FS_Interval
    <2>4. QED
        BY <2>2, <2>3
<1>5. Cardinality(a..(b - 1)) = b - a
    BY <1>1, FS_Interval
<1>6. Cardinality(Below(a) \cap a..(b - 1)) = 0
    BY <1>3, FS_EmptySet
<1>7. Cardinality(Below(b)) = Cardinality(Below(a)) + (b - a)
    <2>1. Cardinality(Below(b)) = Cardinality(Below(a)) + Cardinality(a..(b - 1))
                                    - Cardinality(Below(a) \cap a..(b - 1))
        BY <1>2, <1>4, FS_Union
    <2>2. Cardinality(Below(a)) \in Nat
        BY <1>4, FS_CardinalityType
    <2>3. QED
        BY <2>1, <2>2, <1>1, <1>5, <1>6
<1>8. Cardinality(Below(a)) \in Nat
    BY <1>4, FS_CardinalityType
<1>9. QED
    BY <1>1, <1>7, <1>8 DEF Rank

\* Without a hole, two live fields are as far apart as their numbers.
LEMMA DerivedOffset ==
    ASSUME NEW L, NEW R, L \subseteq Numbers, R \subseteq Numbers,
           Gaps(L, R) = {}, NEW a \in L, NEW b \in L, a < b
    PROVE  b - Derived(L, R)[b] = a - Derived(L, R)[a]
<1> DEFINE S == Space(L, R)
<1>1. S \subseteq Numbers /\ a \in S /\ b \in S
    BY DerivedType
<1>2. S \subseteq Nat /\ IsFiniteSet(S)
    BY <1>1, NumbersAssumption, FS_Subset
<1>3. (a + 1)..(b - 1) \subseteq S
    <2> SUFFICES ASSUME NEW n \in (a + 1)..(b - 1), n \notin S
                 PROVE  FALSE
        OBVIOUS
    <2> DEFINE Between == {(c + 1)..(d - 1) : c \in L, d \in L}
    <2>1. (a + 1)..(b - 1) \in Between
        OBVIOUS
    <2>2. n \in UNION Between
        <3> HIDE DEF Between
        <3> QED
            BY <2>1
    <2>3. n \in Gaps(L, R)
        BY <2>2 DEF Gaps
    <2>4. QED
        BY <2>3
<1>4. Rank(S, b) - Rank(S, a) = b - a
    BY <1>1, <1>2, <1>3, RankGrows
<1>5. Rank(S, a) \in Nat /\ Rank(S, b) \in Nat
    BY <1>2, RankNat
<1>6. Derived(L, R)[a] = Rank(S, a) /\ Derived(L, R)[b] = Rank(S, b)
    BY <1>1 DEF Derived
<1>7. QED
    BY <1>1, <1>2, <1>4, <1>5, <1>6

-----------------------------------------------------------------------------
\* The inductive invariant

\* Two ledgers have an entry in common, whatever the slot, exactly when they
\* record one field in common.
LEMMA EntriesMeet ==
    ASSUME NEW f, NEW g
    PROVE  (\E x \in Entries(f), y \in Entries(g) : x.number = y.number)
             <=> DOMAIN g \cap DOMAIN f # {}
<1>1. ASSUME NEW x \in Entries(f), NEW y \in Entries(g), x.number = y.number
      PROVE  DOMAIN g \cap DOMAIN f # {}
    <2>1. x.number \in DOMAIN f /\ y.number \in DOMAIN g
        BY DEF Entries
    <2>2. QED
        BY <1>1, <2>1
<1>2. ASSUME NEW n \in DOMAIN g \cap DOMAIN f
      PROVE  \E x \in Entries(f), y \in Entries(g) : x.number = y.number
    <2> DEFINE x == [number |-> n, ordinal |-> f[n]]
    <2> DEFINE y == [number |-> n, ordinal |-> g[n]]
    <2>1. x \in Entries(f) /\ y \in Entries(g)
        BY DEF Entries
    <2>2. x.number = y.number
        OBVIOUS
    <2>3. QED
        BY <2>1, <2>2
<1>3. QED
    BY <1>1, <1>2

LInv == TypeOK /\ LineageOK /\ OneOffset

\* An accepted build without pins publishes exactly what derivation computes, at
\* one offset, and leaves the recorded fields where they were.
LEMMA StrictBuild ==
    ASSUME Severities = {"error"}, Pins = {}, TypeOK, BuildAccepted
    PROVE  /\ DOMAIN lock' = live
           /\ \A n \in live : lock'[n] = Derived(live, reserved)[n] /\ lock'[n] \in Nat
           /\ \A n \in live \cap DOMAIN lock : lock'[n] = lock[n]
           /\ \A a \in live, b \in live : a - lock'[a] = b - lock'[b]
<1>1. NewReports = {}
    BY DEF BuildAccepted
<1>2. Gaps(live, reserved) = {}
    <2>1. About("gap", IF Gaps(live, reserved) # {} THEN {Owner} ELSE {}) = {}
        BY <1>1 DEF NewReports, FieldReports
    <2>2. QED
        BY <2>1 DEF About
<1>3. \A n \in live \cap DOMAIN lock : lock[n] = Derived(live, reserved)[n]
    <2>1. About("moved", {n \in live \cap DOMAIN lock :
                            lock[n] # Derived(live, reserved)[n]}) = {}
        BY <1>1 DEF NewReports, FieldReports
    <2>2. QED
        BY <2>1 DEF About
<1>4. Derived(live, reserved) \in [Space(live, reserved) -> Nat]
      /\ live \subseteq Space(live, reserved)
    BY DerivedType DEF TypeOK
<1>5. \A n \in live : pins[n] = NoPin
    BY DEF TypeOK
<1>6. lock' = NewOrdinals
    BY DEF BuildAccepted, Recorded
<1>7. \A n \in live : NewOrdinals[n] = Derived(live, reserved)[n]
    BY <1>3, <1>4, <1>5 DEF NewOrdinals, FieldOrdinals, Settled, Ledgered
<1>8. DOMAIN lock' = live
    BY <1>6 DEF NewOrdinals, FieldOrdinals
<1>9. \A a \in live, b \in live :
        a - Derived(live, reserved)[a] = b - Derived(live, reserved)[b]
    <2> SUFFICES ASSUME NEW a \in live, NEW b \in live
                 PROVE  a - Derived(live, reserved)[a] = b - Derived(live, reserved)[b]
        OBVIOUS
    <2>1. a \in Nat /\ b \in Nat
        BY NumbersAssumption DEF TypeOK
    <2>2. CASE a < b
        BY <1>2, <2>2, DerivedOffset DEF TypeOK
    <2>3. CASE b < a
        BY <1>2, <2>3, DerivedOffset DEF TypeOK
    <2>4. QED
        BY <2>1, <2>2, <2>3
<1>10. QED
    BY <1>3, <1>4, <1>6, <1>7, <1>8, <1>9

\* What an accepted build adds to the history keeps the lineage at one offset.
LEMMA PublishKeepsOffset ==
    ASSUME Severities = {"error"}, Pins = {}, LInv, Publish
    PROVE  LineageOK' /\ OneOffset'
<1>1. BuildAccepted
    BY DEF Publish
<1>2. /\ DOMAIN lock' = live
      /\ \A n \in live : lock'[n] \in Nat
      /\ \A n \in live \cap DOMAIN lock : lock'[n] = lock[n]
      /\ \A a \in live, b \in live : a - lock'[a] = b - lock'[b]
    BY <1>1, StrictBuild DEF LInv
<1>3. lineage' = Entries(lock') \cup
                    (IF live \cap DOMAIN lock # {} THEN lineage ELSE {})
    BY <1>2 DEF Publish
<1>4. live \subseteq Numbers /\ Numbers \subseteq Nat
    BY NumbersAssumption DEF LInv, TypeOK
<1>5. Entries(lock') \subseteq [number : Numbers, ordinal : Nat]
    <2> SUFFICES ASSUME NEW n \in live
                 PROVE  [number |-> n, ordinal |-> lock'[n]]
                            \in [number : Numbers, ordinal : Nat]
        BY <1>2 DEF Entries
    <2>1. n \in Numbers /\ lock'[n] \in Nat
        BY <1>2, <1>4
    <2>2. QED
        BY <2>1
<1>6. LineageOK'
    BY <1>3, <1>5 DEF LineageOK, LInv
<1>7. \A x \in Entries(lock'), y \in Entries(lock') :
        x.number - x.ordinal = y.number - y.ordinal
    BY <1>2 DEF Entries
<1>8. CASE live \cap DOMAIN lock = {}
    <2>1. lineage' = Entries(lock')
        BY <1>3, <1>8
    <2>2. QED
        BY <1>6, <1>7, <2>1 DEF OneOffset
<1>9. CASE live \cap DOMAIN lock # {}
    <2>1. PICK s \in live \cap DOMAIN lock : TRUE
        BY <1>9
    <2> DEFINE kept == [number |-> s, ordinal |-> lock[s]]
    <2>2. kept \in Entries(lock') /\ kept \in Entries(lock)
        BY <1>2, <2>1 DEF Entries
    <2>3. kept \in lineage
        BY <2>2 DEF LInv, LineageOK
    <2>4. \A x \in lineage : x.number - x.ordinal = s - lock[s]
        BY <2>3 DEF LInv, OneOffset
    <2>5. \A x \in Entries(lock') : x.number - x.ordinal = s - lock[s]
        BY <1>7, <2>2
    <2>6. lineage' = Entries(lock') \cup lineage
        BY <1>3, <1>9
    <2>7. \A x \in lineage' : x.number - x.ordinal = s - lock[s]
        BY <2>4, <2>5, <2>6
    <2>8. QED
        BY <1>6, <2>7 DEF OneOffset
<1>10. QED
    BY <1>6, <1>8, <1>9

\* FieldLineage only watches: its steps are steps of FieldLedger.
LEMMA LineageStep ==
    ASSUME [LNext]_lvars
    PROVE  [Next]_vars
BY DEF LNext, LEdit, Publish, LBuildRejected, lvars, Next, Build

\* The one offset of a lineage is invariant.
THEOREM OffsetIsKept ==
    ASSUME Severities = {"error"}, Pins = {}
    PROVE  LSpec => []LInv
<1>1. LInit => LInv
    BY DEF LInit, Init, LInv, TypeOK, LineageOK, OneOffset, Entries
<1>2. LInv /\ [LNext]_lvars => LInv'
    <2> SUFFICES ASSUME LInv, [LNext]_lvars PROVE LInv'
        OBVIOUS
    <2>1. TypeOK'
        BY LineageStep, TypeStep DEF LInv
    <2>2. CASE Publish
        BY <2>1, <2>2, PublishKeepsOffset DEF LInv
    <2>3. CASE LEdit \/ LBuildRejected \/ UNCHANGED lvars
        <3>1. lock' = lock /\ lineage' = lineage
            BY <2>3 DEF LEdit, Edit, AddField, DeleteField, Reserve, Unreserve, Pin,
                        LBuildRejected, BuildRejected, published, lvars, vars
        <3>2. QED
            BY <2>1, <3>1 DEF LInv, LineageOK, OneOffset
    <2>4. QED
        BY <2>2, <2>3 DEF LNext
<1>3. QED
    BY <1>1, <1>2, PTL DEF LSpec

\* However many fields come and go, two pairs of one lineage are as far apart in
\* slots as in numbers: a deleted field's slot stays out of every other's reach.
THEOREM SlotsKeepTheirDistance ==
    ASSUME Severities = {"error"}, Pins = {}
    PROVE  LSpec => []OneOffset
<1>1. LInv => OneOffset
    BY DEF LInv
<1>2. QED
    BY <1>1, OffsetIsKept, PTL

-----------------------------------------------------------------------------
\* The slots of a schema

\* With the slots that derivation computes, no placeholder is dropped, and the
\* slots of fields and placeholders together are one interval from 0.
LEMMA DerivedIsDense ==
    ASSUME NEW L, NEW R, L \subseteq Numbers, R \subseteq Numbers,
           NEW ord, DOMAIN ord = L, \A n \in L : ord[n] = Derived(L, R)[n]
    PROVE  Range(ord) \cup {s.ordinal : s \in Placeholders(L, R, ord)}
                = 0..(Cardinality(L) + Cardinality(Placeholders(L, R, ord)) - 1)
<1> DEFINE S == Space(L, R)
           H == Held(L, R)
           held == Placeholders(L, R, ord)
           place == [h \in H |-> [number |-> h, ordinal |-> Derived(L, R)[h]]]
<1>1. S \subseteq Numbers /\ L \subseteq S /\ H \subseteq S /\ S = L \cup H
    BY DerivedType DEF Space
<1>2. S \subseteq Int /\ IsFiniteSet(S) /\ IsFiniteSet(L) /\ IsFiniteSet(H)
    <2> HIDE DEF S, H
    <2>1. S \subseteq Int /\ IsFiniteSet(Numbers)
        BY <1>1, NumbersAssumption
    <2>2. IsFiniteSet(S) /\ IsFiniteSet(L)
        BY <1>1, <2>1, FS_Subset
    <2>3. IsFiniteSet(H)
        BY <1>1, <2>2, FS_Subset
    <2>4. QED
        BY <2>1, <2>2, <2>3
<1>3. L \cap H = {}
    BY DEF Held, Expanded
<1>4. \A n \in S : Derived(L, R)[n] = Rank(S, n)
    BY DEF Derived
<1>5. \A a \in S, b \in S : Rank(S, a) = Rank(S, b) => a = b
    BY <1>2, RanksAreDense
<1>6. {Rank(S, n) : n \in S} = 0..(Cardinality(S) - 1)
    BY <1>2, RanksAreDense
<1>7. \A h \in H : \A m \in L : ord[m] # Derived(L, R)[h]
    BY <1>1, <1>3, <1>4, <1>5
<1>8. held = {[number |-> n, ordinal |-> Derived(L, R)[n]] : n \in H}
    BY <1>7 DEF Placeholders
<1>9. Cardinality(held) = Cardinality(H)
    <2>1. place \in [H -> held]
        BY <1>8
    <2>2. \A h \in H, g \in H : place[h] = place[g] => h = g
        OBVIOUS
    <2>3. \A s \in held : \E h \in H : place[h] = s
        BY <1>8
    <2>4. place \in Bijection(H, held)
        BY <2>1, <2>2, <2>3 DEF Bijection, Injection, Surjection, IsInjective
    <2>5. ExistsBijection(H, held)
        BY <2>4 DEF ExistsBijection
    <2>6. QED
        BY <1>2, <2>5, FS_Bijection
<1>10. Cardinality(S) = Cardinality(L) + Cardinality(H)
    <2>1. Cardinality(L \cap H) = 0
        BY <1>3, FS_EmptySet
    <2>2. Cardinality(S) = Cardinality(L) + Cardinality(H) - Cardinality(L \cap H)
        BY <1>1, <1>2, FS_Union
    <2>3. Cardinality(L) \in Nat /\ Cardinality(H) \in Nat
        BY <1>2, FS_CardinalityType
    <2>4. QED
        BY <2>1, <2>2, <2>3
<1>11. Range(ord) = {Rank(S, n) : n \in L}
    BY <1>1, <1>4 DEF Range
<1>12. {s.ordinal : s \in held} = {Rank(S, n) : n \in H}
    <2>1. ASSUME NEW s \in held PROVE \E h \in H : s.ordinal = Rank(S, h)
        <3>1. PICK h \in H : s = [number |-> h, ordinal |-> Derived(L, R)[h]]
            <4> HIDE DEF held, H, S
            <4>1. QED
                BY <1>8
        <3>2. Derived(L, R)[h] = Rank(S, h)
            BY <1>1, <1>4
        <3>3. QED
            <4> HIDE DEF held, H, S
            <4>1. QED
                BY <3>1, <3>2
    <2>2. \A h \in H : place[h] \in held /\ place[h].ordinal = Rank(S, h)
        <3>1. SUFFICES ASSUME NEW h \in H
              PROVE  place[h] \in held /\ place[h].ordinal = Rank(S, h)
            OBVIOUS
        <3>2. place[h] = [number |-> h, ordinal |-> Derived(L, R)[h]]
            OBVIOUS
        <3>3. Derived(L, R)[h] = Rank(S, h)
            BY <1>1, <1>4
        <3>4. place[h] \in held
            BY <1>8, <3>2
        <3>5. place[h].ordinal = Rank(S, h)
            <4> HIDE DEF held, place, S, H
            <4>1. QED
                BY <3>2, <3>3
        <3>6. QED
            BY <3>4, <3>5
    <2>3. \A h \in H : \E s \in held : s.ordinal = Rank(S, h)
        BY <2>2
    <2> HIDE DEF held, place, S, H
    <2>4. QED
        BY <2>1, <2>3
<1>13. Range(ord) \cup {s.ordinal : s \in held} = {Rank(S, n) : n \in S}
    BY <1>1, <1>11, <1>12
<1>14. /\ Cardinality(S) = Cardinality(L) + Cardinality(held)
       /\ Cardinality(L) \in Nat /\ Cardinality(held) \in Nat
    BY <1>2, <1>9, <1>10, FS_CardinalityType
<1>15. QED
    <2>1. Range(ord) \cup {s.ordinal : s \in held} = 0..(Cardinality(S) - 1)
        BY <1>6, <1>13, Zenon
    <2>2. 0..(Cardinality(S) - 1) = 0..(Cardinality(L) + Cardinality(held) - 1)
        BY <1>14
    <2>3. QED
        BY <2>1, <2>2, Zenon

\* Every published schema numbers its fields and placeholders 0..N-1 without a
\* hole, which is what Cap'n Proto and FlatBuffers accept.
THEOREM SlotsAreDense ==
    ASSUME Severities = {"error"}, Pins = {}
    PROVE  LSpec => []Dense
<1>1. LInit => Dense
    <2> SUFFICES ASSUME LInit PROVE Dense
        OBVIOUS
    <2>1. Range(lock) \cup {s.ordinal : s \in slots} = {}
        BY DEF LInit, Init, Range
    <2>2. Cardinality(DOMAIN lock) = 0 /\ Cardinality(slots) = 0
        BY FS_EmptySet DEF LInit, Init
    <2>3. 0..(0 + 0 - 1) = {}
        OBVIOUS
    <2>4. QED
        BY <2>1, <2>2, <2>3 DEF Dense
<1>2. LInv /\ Dense /\ [LNext]_lvars => Dense'
    <2> SUFFICES ASSUME LInv, Dense, [LNext]_lvars PROVE Dense'
        OBVIOUS
    <2>1. CASE BuildAccepted
        <3>1. slots' = Placeholders(live, reserved, lock')
            BY <2>1 DEF BuildAccepted, Recorded
        <3>2. DOMAIN lock' = live /\ \A n \in live : lock'[n] = Derived(live, reserved)[n]
            BY <2>1, StrictBuild DEF LInv
        <3>3. live \subseteq Numbers /\ reserved \subseteq Numbers
            BY DEF LInv, TypeOK
        <3>4. QED
            BY <3>1, <3>2, <3>3, DerivedIsDense DEF Dense
    <2>2. CASE ~BuildAccepted
        <3>1. lock' = lock /\ slots' = slots
            BY <2>2 DEF LNext, LEdit, Edit, AddField, DeleteField, Reserve, Unreserve, Pin,
                        Publish, LBuildRejected, BuildRejected, published, lvars, vars
        <3>2. QED
            BY <3>1 DEF Dense
    <2>3. QED
        BY <2>1, <2>2
<1>3. LSpec => []LInv
    BY OffsetIsKept
<1>4. QED
    BY <1>1, <1>2, <1>3, PTL DEF LSpec

-----------------------------------------------------------------------------
\* The ledger as a record

\* An accepted build that found no ledger would have assigned the same slots.
LEMMA FirstRunAgrees ==
    ASSUME Severities = {"error"}, Pins = {}, TypeOK, BuildAccepted
    PROVE  lock' = FirstRun
<1>1. \A n \in live : lock'[n] = Derived(live, reserved)[n] /\ lock'[n] \in Nat
    BY StrictBuild
<1>2. \A n \in live : pins[n] = NoPin
    BY DEF TypeOK
<1>3. \A n \in live : FirstRun[n] = Derived(live, reserved)[n]
    BY <1>1, <1>2 DEF FirstRun, FieldOrdinals, Settled, Ledgered
<1>4. FirstRun = [n \in live |-> FirstRun[n]]
    BY DEF FirstRun, FieldOrdinals
<1>5. lock' = [n \in live |-> lock'[n]]
    BY DEF BuildAccepted, Recorded, NewOrdinals, FieldOrdinals
<1>6. QED
    BY <1>1, <1>3, <1>4, <1>5

\* Whatever enters the ledger could have been assigned without it: losing the
\* file after an accepted build loses nothing that the protos do not say.
THEOREM LossIsHarmless ==
    ASSUME Severities = {"error"}, Pins = {}
    PROVE  LSpec => LossMovesNothing
<1>1. LInv /\ [LNext]_lvars => [lock' # lock => lock' = FirstRun]_lvars
    <2> SUFFICES ASSUME LInv, [LNext]_lvars, lock' # lock PROVE lock' = FirstRun
        OBVIOUS
    <2>1. BuildAccepted
        BY DEF LNext, LEdit, Edit, AddField, DeleteField, Reserve, Unreserve, Pin, Publish,
               LBuildRejected, BuildRejected, published, lvars, vars
    <2>2. QED
        BY <2>1, FirstRunAgrees DEF LInv
<1>2. LSpec => []LInv
    BY OffsetIsKept
<1>3. QED
    BY <1>1, <1>2, PTL DEF LSpec, LossMovesNothing

-----------------------------------------------------------------------------
\* Refinement

\* One offset makes the pairs of a lineage a one-to-one relation.
LEMMA OffsetOneToOne ==
    ASSUME NEW R, R \subseteq [number : Numbers, ordinal : Nat],
           \A x \in R, y \in R : x.number - x.ordinal = y.number - y.ordinal
    PROVE  Registry!OneToOne(R)
<1>1. \A x \in R : x.number \in Nat /\ x.ordinal \in Nat
    BY NumbersAssumption
<1>2. QED
    BY <1>1 DEF Registry!OneToOne

\* Every accepted build is a publication of the abstract registry: it extends the
\* lineage without moving a field or reusing a slot, or it begins a new one.
THEOREM LedgerIsRegistry ==
    ASSUME Severities = {"error"}, Pins = {}
    PROVE  LSpec => KeepsLineage
<1>1. LInit => Registry!Init
    BY DEF LInit, Init, Registry!Init, Entries
<1>2. LInv /\ LInv' /\ [LNext]_lvars => [Registry!Next]_<<Entries(lock), lineage>>
    <2> SUFFICES ASSUME LInv, LInv', [LNext]_lvars
                 PROVE  [Registry!Next]_<<Entries(lock), lineage>>
        OBVIOUS
    <2>1. CASE Publish
        <3>1. Entries(lock)' \subseteq Registry!Pairs
            BY DEF LInv, LineageOK, Registry!Pairs
        <3>2. Registry!OneToOne(lineage')
            BY OffsetOneToOne DEF LInv, LineageOK, OneOffset
        <3>3. Registry!Kept(Entries(lock)') <=> DOMAIN lock' \cap DOMAIN lock # {}
            <4>1. (\E x \in Entries(lock), y \in Entries(lock') : x.number = y.number)
                    <=> DOMAIN lock' \cap DOMAIN lock # {}
                BY EntriesMeet
            <4>2. Entries(lock)' = Entries(lock')
                BY DEF Entries
            <4>3. QED
                BY <4>1, <4>2 DEF Registry!Kept
        <3>4. CASE DOMAIN lock' \cap DOMAIN lock # {}
            <4>1. lineage' = lineage \cup Entries(lock)'
                BY <2>1, <3>4 DEF Publish
            <4>2. Registry!Publish
                BY <3>1, <3>2, <3>3, <3>4, <4>1 DEF Registry!Publish
            <4>3. QED
                BY <4>2 DEF Registry!Next
        <3>5. CASE DOMAIN lock' \cap DOMAIN lock = {}
            <4>1. lineage' = Entries(lock)'
                BY <2>1, <3>5 DEF Publish
            <4>2. Registry!StartOver
                BY <3>1, <3>2, <3>3, <3>5, <4>1 DEF Registry!StartOver
            <4>3. QED
                BY <4>2 DEF Registry!Next
        <3>6. QED
            BY <3>4, <3>5
    <2>2. CASE LEdit \/ LBuildRejected \/ UNCHANGED lvars
        <3>1. lock' = lock /\ lineage' = lineage
            BY <2>2 DEF LEdit, Edit, AddField, DeleteField, Reserve, Unreserve, Pin,
                        LBuildRejected, BuildRejected, published, lvars, vars
        <3>2. Entries(lock)' = Entries(lock)
            BY <3>1 DEF Entries
        <3>3. QED
            BY <3>1, <3>2
    <2>3. QED
        BY <2>1, <2>2 DEF LNext
<1>3. LSpec => []LInv
    BY OffsetIsKept
<1>4. QED
    BY <1>1, <1>2, <1>3, PTL DEF LSpec, KeepsLineage, Registry!Spec
=============================================================================
