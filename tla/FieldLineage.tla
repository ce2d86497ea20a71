----------------------------- MODULE FieldLineage ----------------------------
(***************************************************************************)
(* FieldLedger with a history variable: every [number, ordinal] pair       *)
(* published since the last build that kept none of the recorded fields,   *)
(* which is as far back as buffers.lock, holding one build's fields only,  *)
(* can bind the next build.                                                *)
(***************************************************************************)
EXTENDS FieldLedger

VARIABLE lineage

lvars == <<vars, lineage>>

Entries(ord) == {[number |-> n, ordinal |-> ord[n]] : n \in DOMAIN ord}

LInit == Init /\ lineage = {}

LEdit == Edit /\ UNCHANGED lineage

Publish ==
    /\ BuildAccepted
    /\ lineage' = Entries(lock') \cup
                  (IF DOMAIN lock' \cap DOMAIN lock # {} THEN lineage ELSE {})

LBuildRejected == BuildRejected /\ UNCHANGED lineage

LNext == LEdit \/ Publish \/ LBuildRejected

LSpec == LInit /\ [][LNext]_lvars

-----------------------------------------------------------------------------
\* Properties

\* The ledger never records a pair that no accepted build published: a failed
\* build leaves no trace in it.  And the pairs are of the published kind.
LineageOK ==
    /\ Entries(lock) \subseteq lineage
    /\ lineage \subseteq [number : Numbers, ordinal : Nat]

\* With strict=ordinal:error and no pins the ledger keeps the promise of
\* SlotRegistry: within a lineage no field moves, and no slot, a deleted field's
\* included, is ever given to another field (ordinal.go, "Why it must be
\* stable, and what makes it so").
Registry == INSTANCE SlotRegistry
                WITH Members <- Numbers, Slots <- Nat,
                     current <- Entries(lock), registry <- lineage

KeepsLineage == Registry!Spec

\* What makes it so: in one lineage a field's slot is its number less a constant,
\* however many fields were deleted, reserved and added in between.
OneOffset ==
    \A x \in lineage, y \in lineage :
        x.number - x.ordinal = y.number - y.ordinal

\* Under strict=ordinal:error and without pins, whatever enters the ledger is
\* what a build with no ledger would have assigned: the file is a record and not
\* a source, and a build that finds it missing (lock.go, "a first run") right
\* after an accepted one publishes the same slots.
FirstRun == FieldOrdinals(live, reserved, <<>>, pins)
LossMovesNothing == [][lock' # lock => lock' = FirstRun]_lvars
=============================================================================
