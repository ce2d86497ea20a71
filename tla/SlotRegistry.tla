---------------------------- MODULE SlotRegistry -----------------------------
(***************************************************************************)
(* What a slot ledger promises a deployed consumer, without saying how.    *)
(* Every publication is a set of (member, slot) pairs.  Publications that  *)
(* share a member with the one before them form a lineage, and within a    *)
(* lineage no member ever has two slots and no slot ever has two members:  *)
(* a consumer that compiled against any publication of the lineage can     *)
(* read a payload of any other.                                            *)
(***************************************************************************)
EXTENDS Integers

CONSTANTS Members, Slots

VARIABLES current,          \* the last publication
          registry          \* everything published in its lineage

Pairs == [number : Members, ordinal : Slots]

OneToOne(R) ==
    \A x \in R, y \in R : x.number = y.number <=> x.ordinal = y.ordinal

Kept(new) == \E x \in current, y \in new : x.number = y.number

Init == current = {} /\ registry = {}

\* The next publication of the lineage: it may add pairs and drop members, but
\* everything the lineage has published still binds it.
Publish ==
    /\ current' \subseteq Pairs
    /\ Kept(current')
    /\ OneToOne(registry \cup current')
    /\ registry' = registry \cup current'

\* No member is left of the last publication: a new lineage begins.
StartOver ==
    /\ current' \subseteq Pairs
    /\ ~Kept(current')
    /\ OneToOne(current')
    /\ registry' = current'

Next == Publish \/ StartOver

Spec == Init /\ [][Next]_<<current, registry>>
=============================================================================
