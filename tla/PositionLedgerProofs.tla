------------------------ MODULE PositionLedgerProofs -------------------------
(***************************************************************************)
(* Proofs about PositionLedger for every set of enum values, whatever      *)
(* numbers they declare, every set of methods and pins, and both           *)
(* severities of RuleOrdinal.                                              *)
(***************************************************************************)
EXTENDS PositionLedger, Recursion, SequenceTheorems

-----------------------------------------------------------------------------
\* What the author can declare

\* The declarations are a list of members, and a pin is a number.
Declarations ==
    /\ kind \in {"enum", "service"}
    /\ declared \in Seq(Members)
    /\ pins \in [Members -> Int]

\* Inserting a member in a list, and taking one out, leaves a list of members.
LEMMA ListEdits ==
    ASSUME NEW S, NEW s \in Seq(S), NEW x \in S
    PROVE  /\ \A i \in 1..(Len(s) + 1) : InsertAt(s, i, x) \in Seq(S)
           /\ \A i \in DOMAIN s : RemoveAt(s, i) \in Seq(S)
<1>1. Len(s) \in Nat /\ DOMAIN s = 1..Len(s) /\ \A k \in 1..Len(s) : s[k] \in S
    BY LenProperties, ElementOfSeq
<1>2. \A a \in 1..(Len(s) + 1), b \in 0..Len(s) : SubSeq(s, a, b) \in Seq(S)
    <2> SUFFICES ASSUME NEW a \in 1..(Len(s) + 1), NEW b \in 0..Len(s)
                 PROVE  SubSeq(s, a, b) \in Seq(S)
        OBVIOUS
    <2>1. \A k \in a..b : s[k] \in S
        BY <1>1
    <2>2. a \in Int /\ b \in Int
        BY <1>1
    <2>3. QED
        BY <2>1, <2>2, SubSeqProperties
<1>3. <<x>> \in Seq(S)
    OBVIOUS
<1>4. ASSUME NEW i \in 1..(Len(s) + 1)
      PROVE  InsertAt(s, i, x) \in Seq(S)
    <2>1. SubSeq(s, 1, i - 1) \in Seq(S) /\ SubSeq(s, i, Len(s)) \in Seq(S)
        BY <1>1, <1>2
    <2>2. QED
        BY <1>3, <2>1, ConcatProperties DEF InsertAt
<1>5. ASSUME NEW i \in DOMAIN s
      PROVE  RemoveAt(s, i) \in Seq(S)
    <2>1. SubSeq(s, 1, i - 1) \in Seq(S) /\ SubSeq(s, i + 1, Len(s)) \in Seq(S)
        BY <1>1, <1>2
    <2>2. QED
        BY <2>1, ConcatProperties DEF RemoveAt
<1>6. QED
    BY <1>4, <1>5

\* Renaming a member leaves a list of members.
LEMMA Renaming ==
    ASSUME NEW S, NEW s \in Seq(S), NEW old, NEW new \in S
    PROVE  ReplaceAll(s, old, new) \in Seq(S)
<1>1. Len(s) \in Nat /\ \A k \in 1..Len(s) : s[k] \in S
    BY LenProperties, ElementOfSeq
<1>2. ReplaceAll(s, old, new) \in [1..Len(s) -> S]
    BY <1>1 DEF ReplaceAll
<1>3. QED
    BY <1>1, <1>2

\* Every step keeps the declarations a list of members.
LEMMA DeclarationsStep ==
    ASSUME Declarations, [Next]_vars
    PROVE  Declarations'
<1>1. kind' = kind /\ Members' = Members
    BY DEF Next, Edit, Declare, Delete, RenameMethod, Pin, BuildAccepted, BuildRejected,
           vars, Members
<1>2. declared' \in Seq(Members)
    <2>1. ASSUME NEW x \in Members, NEW i \in 1..(Len(declared) + 1), Declare(x, i)
          PROVE  declared' \in Seq(Members)
        BY <2>1, ListEdits DEF Declare, Declarations
    <2>2. ASSUME NEW i \in DOMAIN declared, Delete(i)
          PROVE  declared' \in Seq(Members)
        <3>1. declared[i] \in Members
            BY LenProperties, ElementOfSeq DEF Declarations
        <3>2. QED
            BY <2>2, <3>1, ListEdits DEF Delete, Declarations
    <2>3. ASSUME NEW x \in Members, NEW new \in Members, RenameMethod(x, new)
          PROVE  declared' \in Seq(Members)
        BY <2>3, Renaming DEF RenameMethod, Declarations
    <2>4. CASE UNCHANGED declared
        BY <2>4 DEF Declarations
    <2>5. QED
        BY <2>1, <2>2, <2>3, <2>4 DEF Next, Edit, Pin, BuildAccepted, BuildRejected, vars
<1>3. pins' \in [Members -> Int]
    BY PinsAssumption DEF Next, Edit, Declare, Delete, RenameMethod, Pin, BuildAccepted,
           BuildRejected, vars, Declarations, NoPin
<1>4. QED
    BY <1>1, <1>2, <1>3 DEF Declarations

\* The declarations stay well formed through every edit and every build.
LEMMA DeclarationsAlways == Spec => []Declarations
<1>1. Init => Declarations
    BY EmptySeq DEF Init, Declarations, NoPin
<1>2. Declarations /\ [Next]_vars => Declarations'
    BY DeclarationsStep
<1>3. QED
    BY <1>1, <1>2, PTL DEF Spec

-----------------------------------------------------------------------------
\* Aliases

\* Members with one key have one position: an alias adds no rank.
LEMMA PositionOfKey ==
    ASSUME NEW x, NEW y, Key(x) = Key(y)
    PROVE  Position(declared, x) = Position(declared, y)
<1>1. CASE kind = "enum"
    BY <1>1 DEF Position, RankOfNumber
<1>2. CASE kind # "enum"
    BY <1>2 DEF Position, Key
<1>3. QED
    BY <1>1, <1>2

\* What the ledger and the position say of two aliases is the same.
LEMMA SameKeySameSlot ==
    ASSUME NEW x \in ToSet(declared), NEW y \in ToSet(declared),
           Key(x) = Key(y), Unpinned(x), Unpinned(y)
    PROVE  NewOrdinals[x] = NewOrdinals[y]
BY PositionOfKey DEF NewOrdinals, Ordinals, Unpinned

\* What is declared is finite, and so are its numbers.
LEMMA KeysAreFinite ==
    ASSUME Declarations
    PROVE  IsFiniteSet(Keys(declared))
<1>1. Len(declared) \in Nat /\ DOMAIN declared = 1 .. Len(declared)
    BY LenProperties DEF Declarations
<1>2. IsFiniteSet(1 .. Len(declared))
    BY <1>1, FS_Interval
<1>3. ToSet(declared) = {declared[i] : i \in 1 .. Len(declared)}
    BY <1>1 DEF ToSet
<1> DEFINE P == 1 .. Len(declared)
           numbered == [i \in P |-> Key(declared[i])]
<1>4. Keys(declared) = {numbered[i] : i \in P}
    BY <1>3 DEF Keys
<1>5. numbered \in Surjection(P, Keys(declared))
    BY <1>4 DEF Surjection
<1>6. QED
    BY <1>2, <1>5, FS_Surjection

\* The ranks of the numbers are all the slots from 0.
LEMMA RanksAreContiguous ==
    ASSUME Declarations, kind = "enum"
    PROVE  {RankOfNumber(declared, x) : x \in ToSet(declared)} = 0 .. (Cardinality(Keys(declared)) - 1)
<1> DEFINE S == Keys(declared)
           R == {p \in S \X S : p[1] < p[2]}
           r == [k \in S |-> RankOf(S, R, k)]
<1>1. IsFiniteSet(S)
    BY KeysAreFinite
<1>2. S \subseteq Int
    <2>1. ToSet(declared) \subseteq Values
        BY LenProperties, ElementOfSeq DEF Declarations, Members, ToSet
    <2>2. QED
        BY <2>1, ValuesAssumption DEF Keys, Key
<1>3. \A x \in ToSet(declared) : Key(x) \in S /\ RankOfNumber(declared, x) = r[Key(x)]
    <2> SUFFICES ASSUME NEW x \in ToSet(declared)
                 PROVE  Key(x) \in S /\ RankOfNumber(declared, x) = r[Key(x)]
        OBVIOUS
    <2>1. Key(x) \in S
        BY DEF Keys
    <2>2. {n \in S : n < Key(x)} = {n \in S : <<n, Key(x)>> \in R}
        BY <2>1
    <2>3. QED
        BY <2>1, <2>2 DEF RankOf, RankOfNumber
<1>4. \A k \in S : \E x \in ToSet(declared) : Key(x) = k
    BY DEF Keys
<1> HIDE DEF S
<1>5. IsOrder(S, R)
    BY <1>2 DEF IsOrder
<1>6. r = [k \in S |-> RankOf(S, R, k)]
    OBVIOUS
<1> HIDE DEF R, r
<1>7. PICK c \in Nat : c = Cardinality(S)
    BY <1>1, FS_CardinalityType
<1>8. r \in [S -> 0 .. (c - 1)] /\ \A k \in 1 .. c : \E i \in S : r[i] = k - 1
    BY <1>1, <1>5, <1>6, <1>7, RanksFill
<1>9. ASSUME NEW o \in 0 .. (c - 1) PROVE \E i \in S : r[i] = o
    <2>1. o + 1 \in 1 .. c /\ (o + 1) - 1 = o
        BY <1>7
    <2>2. QED
        BY <1>8, <2>1
<1>10. {RankOfNumber(declared, x) : x \in ToSet(declared)} = 0 .. (c - 1)
    BY <1>3, <1>4, <1>8, <1>9
<1>11. QED
    BY <1>7, <1>10 DEF S

\* Two values of one number have one slot in every build, whatever the ledger
\* holds, unless a pin sets one of them apart; and the slots of an enum without
\* pins or reports are contiguous.
THEOREM AliasesAlwaysShare == Spec => []AliasesShare
<1>1. Declarations => AliasesShare
    <2> SUFFICES ASSUME Declarations PROVE AliasesShare
        OBVIOUS
    <2>1. ASSUME kind = "enum", NewReports = {}, \A x \in ToSet(declared) : Unpinned(x)
          PROVE  {NewOrdinals[x] : x \in ToSet(declared)} = 0 .. (Cardinality(Keys(declared)) - 1)
        <3>1. \A x \in ToSet(declared) : NewOrdinals[x] = RankOfNumber(declared, x)
            BY <2>1 DEF NewOrdinals, Ordinals, NewReports, Reports, Position, Unpinned
        <3>2. QED
            BY <2>1, <3>1, RanksAreContiguous
    <2>2. QED
        BY <2>1, SameKeySameSlot DEF AliasesShare
<1>2. QED
    BY <1>1, DeclarationsAlways, PTL

-----------------------------------------------------------------------------
\* What the recorder writes

\* A set of positions in a list has a last one.
LEMMA LastOf ==
    ASSUME NEW n \in Nat, NEW S, S \subseteq 1..n, S # {}
    PROVE  \E i \in S : \A j \in S : j <= i
<1> DEFINE T == {n - i : i \in S}
<1>1. \A i \in S : i \in Nat /\ n - i \in Nat
    OBVIOUS
<1>2. T \subseteq Nat /\ T # {}
    BY <1>1
<1>3. PICK t \in T : \A u \in T : t <= u
    <2> HIDE DEF T
    <2>1. QED
        BY <1>2, LeastOf
<1>4. PICK i \in S : t = n - i
    OBVIOUS
<1>5. \A j \in S : n - i <= n - j
    BY <1>3, <1>4
<1>6. \A j \in S : j <= i
    BY <1>1, <1>5
<1>7. QED
    BY <1>6

\* Under a key the recorder writes the slot of a member with that key.
LEMMA RecordedSlot ==
    ASSUME Declarations, NEW ord, NEW k \in Keys(declared)
    PROVE  \E y \in ToSet(declared) : Key(y) = k /\ Recorded(declared, ord)[k] = ord[y]
<1> DEFINE n == Len(declared)
           WithKey == {i \in DOMAIN declared : Key(declared[i]) = k}
           IsLast(i) == /\ Key(declared[i]) = k
                        /\ \A j \in (i + 1)..n : Key(declared[j]) # k
<1>1. n \in Nat /\ DOMAIN declared = 1..n
    BY LenProperties DEF Declarations
<1>2. WithKey \subseteq 1..n /\ WithKey # {}
    BY <1>1 DEF Keys, ToSet
<1>3. PICK m \in WithKey : \A j \in WithKey : j <= m
    BY <1>1, <1>2, LastOf
<1>4. m \in DOMAIN declared /\ IsLast(m)
    <2>1. \A j \in (m + 1)..n : j \in DOMAIN declared /\ ~(j <= m)
        BY <1>1, <1>3
    <2>2. QED
        BY <1>3, <2>1
<1>5. \E i \in DOMAIN declared : IsLast(i)
    BY <1>4
<1> DEFINE last == CHOOSE i \in DOMAIN declared : IsLast(i)
<1>6. last \in DOMAIN declared /\ IsLast(last)
    BY <1>5
<1>7. Recorded(declared, ord)[k] = ord[declared[last]]
    BY DEF Recorded
<1>8. declared[last] \in ToSet(declared) /\ Key(declared[last]) = k
    BY <1>6 DEF ToSet
<1>9. QED
    BY <1>7, <1>8

\* The ledger changes in an accepted build only.
LEMMA LockChange ==
    ASSUME [Next]_vars
    PROVE  \/ lock' = lock
           \/ BuildAccepted /\ kind' = kind /\ DOMAIN lock' = Keys(declared)
BY DEF Next, Edit, Declare, Delete, RenameMethod, Pin, BuildAccepted, BuildRejected, vars,
       Recorded

\* A recorded key whose members have no pin keeps its slot, wherever members are
\* inserted, removed or pinned around them.
THEOREM UnpinnedMembersNeverMove == Spec => UnpinnedNeverMoves
<1>1. Declarations /\ [Next]_vars =>
        [\A k \in DOMAIN lock \cap DOMAIN lock' :
            (\A x \in ToSet(declared) : Key(x) = k => Unpinned(x))
                => lock'[k] = lock[k]]_vars
    <2> SUFFICES ASSUME Declarations, [Next]_vars,
                        NEW k \in DOMAIN lock \cap DOMAIN lock',
                        \A x \in ToSet(declared) : Key(x) = k => Unpinned(x),
                        lock' # lock
                 PROVE  lock'[k] = lock[k]
        OBVIOUS
    <2>1. BuildAccepted /\ k \in Keys(declared)
        BY LockChange
    <2>2. PICK y \in ToSet(declared) : Key(y) = k /\ lock'[k] = NewOrdinals[y]
        BY <2>1, RecordedSlot DEF BuildAccepted
    <2>3. NewOrdinals[y] = lock[k]
        BY <2>2 DEF NewOrdinals, Ordinals, Unpinned
    <2>4. QED
        BY <2>2, <2>3
<1>2. QED
    BY <1>1, DeclarationsAlways, PTL DEF Spec, UnpinnedNeverMoves

\* A second build of the same members finds in the ledger what it would assign,
\* as long as the aliases of one number are pinned alike.
THEOREM RebuildsMoveNothing == Spec => RebuildMovesNothing
<1>1. Declarations /\ [Next]_vars =>
        [BuildAccepted
            /\ (\A x \in ToSet(declared), y \in ToSet(declared) :
                    Key(x) = Key(y) => pins[x] = pins[y])
            => Ordinals(declared, lock', pins) = NewOrdinals]_vars
    <2> SUFFICES ASSUME Declarations, BuildAccepted,
                        \A x \in ToSet(declared), y \in ToSet(declared) :
                            Key(x) = Key(y) => pins[x] = pins[y]
                 PROVE  Ordinals(declared, lock', pins) = NewOrdinals
        OBVIOUS
    <2>1. ASSUME NEW x \in ToSet(declared), pins[x] = NoPin
          PROVE  Key(x) \in DOMAIN lock' /\ lock'[Key(x)] = NewOrdinals[x]
        <3>1. Key(x) \in Keys(declared)
            BY DEF Keys
        <3>2. lock' = Recorded(declared, NewOrdinals)
            BY DEF BuildAccepted
        <3>3. PICK y \in ToSet(declared) :
                    Key(y) = Key(x) /\ lock'[Key(x)] = NewOrdinals[y]
            BY <3>1, <3>2, RecordedSlot
        <3>4. pins[y] = NoPin
            BY <2>1, <3>3
        <3>5. NewOrdinals[x] = NewOrdinals[y]
            BY <2>1, <3>3, <3>4, SameKeySameSlot DEF Unpinned
        <3>6. QED
            BY <3>1, <3>2, <3>3, <3>5 DEF Recorded
    <2>2. \A x \in ToSet(declared) : pins[x] # NoPin => NewOrdinals[x] = pins[x]
        BY DEF NewOrdinals, Ordinals
    <2>3. \A x \in ToSet(declared) : Ordinals(declared, lock', pins)[x] = NewOrdinals[x]
        BY <2>1, <2>2 DEF Ordinals
    <2>4. QED
        BY <2>3 DEF NewOrdinals, Ordinals
<1>2. QED
    BY <1>1, DeclarationsAlways, PTL DEF Spec, RebuildMovesNothing

-----------------------------------------------------------------------------
\* Clashes

\* Values of different numbers have different ranks, and different methods
\* different places.
LEMMA PositionsApart ==
    ASSUME Declarations, NEW x \in ToSet(declared), NEW y \in ToSet(declared),
           Key(x) # Key(y)
    PROVE  Position(declared, x) # Position(declared, y)
<1>1. Len(declared) \in Nat /\ DOMAIN declared = 1..Len(declared)
    BY LenProperties DEF Declarations
<1>2. ToSet(declared) \subseteq Members
    BY <1>1, ElementOfSeq DEF ToSet, Declarations
<1>3. CASE kind = "enum"
    <2> DEFINE Below(z) == {k \in Keys(declared) : k < Key(z)}
    <2>1. Keys(declared) \subseteq Int
        BY <1>2, <1>3, ValuesAssumption DEF Keys, Key, Members
    <2>2. IsFiniteSet(Keys(declared))
        <3> DEFINE f == [i \in 1..Len(declared) |-> Key(declared[i])]
        <3>1. f \in Surjection(1..Len(declared), Keys(declared))
            BY <1>1 DEF Surjection, Keys, ToSet
        <3>2. IsFiniteSet(1..Len(declared))
            BY <1>1, FS_Interval
        <3>3. QED
            BY <3>1, <3>2, FS_Surjection
    <2>3. ASSUME NEW u \in ToSet(declared), NEW v \in ToSet(declared), Key(u) < Key(v)
          PROVE  Cardinality(Below(u)) # Cardinality(Below(v))
        <3>1. Key(u) \in Keys(declared) /\ Key(v) \in Keys(declared)
            BY DEF Keys
        <3>2. Below(u) \subseteq Below(v) /\ Key(u) \in Below(v) \ Below(u)
            BY <2>1, <2>3, <3>1
        <3>3. IsFiniteSet(Below(v))
            BY <2>2, FS_Subset
        <3>4. QED
            BY <3>2, <3>3, FS_Subset
    <2>4. Key(x) < Key(y) \/ Key(y) < Key(x)
        BY <2>1 DEF Keys
    <2>5. Cardinality(Below(x)) # Cardinality(Below(y))
        BY <2>3, <2>4
    <2>6. QED
        BY <1>3, <2>5 DEF Position, RankOfNumber
<1>4. CASE kind # "enum"
    <2> DEFINE at(z) == CHOOSE i \in DOMAIN declared : declared[i] = z
    <2>1. \A z \in ToSet(declared) : at(z) \in DOMAIN declared /\ declared[at(z)] = z
        BY DEF ToSet
    <2>2. x # y
        OBVIOUS
    <2>3. at(x) # at(y) /\ at(x) \in Int /\ at(y) \in Int
        BY <1>1, <2>1, <2>2
    <2>4. QED
        BY <1>4, <2>3 DEF Position, Place
<1>5. QED
    BY <1>3, <1>4

\* Two members without pins never ship on one slot unreported: at least one of
\* them is where the ledger put it and not where its position is.
THEOREM ClashesAreReported == Spec => ClashReported
<1>1. Declarations /\ [Next]_vars =>
        [BuildAccepted =>
            \A x \in ToSet(declared), y \in ToSet(declared) :
                /\ Key(x) # Key(y) /\ Unpinned(x) /\ Unpinned(y)
                /\ NewOrdinals[x] = NewOrdinals[y]
                => NewReports \cap {x, y} # {}]_vars
    <2> SUFFICES ASSUME Declarations,
                        NEW x \in ToSet(declared), NEW y \in ToSet(declared),
                        Key(x) # Key(y), Unpinned(x), Unpinned(y),
                        x \notin NewReports, y \notin NewReports
                 PROVE  NewOrdinals[x] # NewOrdinals[y]
        OBVIOUS
    <2>1. \A z \in {x, y} : NewOrdinals[z] = Position(declared, z)
        BY DEF NewOrdinals, Ordinals, NewReports, Reports, Unpinned
    <2>2. QED
        BY <2>1, PositionsApart
<1>2. QED
    BY <1>1, DeclarationsAlways, PTL DEF Spec, ClashReported
=============================================================================
