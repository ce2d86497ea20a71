----------------------------- MODULE FieldLedger -----------------------------
(***************************************************************************)
(* The life of one message under buffers.Build: its author edits the       *)
(* .proto between builds, and every build loads the committed buffers.lock,*)
(* assigns each field its slot and, unless a report fails it, publishes    *)
(* the schema together with the ledger the Recorder wrote.                 *)
(***************************************************************************)
EXTENDS Slots, Functions

CONSTANTS Numbers,          \* proto field numbers the author may use
          Pins,             \* ordinals the author may pin
          Severities        \* what the builds run RuleOrdinal at

ASSUME NumbersAssumption == Numbers \subseteq Nat \ {0} /\ IsFiniteSet(Numbers)
ASSUME PinsAssumption == Pins \subseteq Int \ {NoPin}
ASSUME SeveritiesAssumption == Severities \subseteq {"warn", "error"}

VARIABLES
    live,       \* the message's field numbers
    reserved,   \* the numbers its reserved ranges name
    pins,       \* the pinned ordinal of each field, NoPin if none
    lock,       \* the message's entry in buffers.lock: number -> ordinal
    slots       \* the placeholders of the last published schema

proto == <<live, reserved, pins>>
published == <<lock, slots>>
vars == <<live, reserved, pins, lock, slots>>

Init ==
    /\ live = {}
    /\ reserved = {}
    /\ pins = [n \in Numbers |-> NoPin]
    /\ lock = <<>>              \* no ledger entry: a first run
    /\ slots = {}

-----------------------------------------------------------------------------
\* The author's edits.  protoc refuses a live number in a reserved range.

AddField(n) ==
    /\ n \in Numbers \ (live \cup reserved)
    /\ live' = live \cup {n}
    /\ UNCHANGED <<reserved, pins, published>>

\* Deleting without `reserved': the case the ledger exists for.
DeleteField(n) ==
    /\ n \in live
    /\ live' = live \ {n}
    /\ pins' = [pins EXCEPT ![n] = NoPin]
    /\ UNCHANGED <<reserved, published>>

Reserve(n) ==
    /\ n \in Numbers \ (live \cup reserved)
    /\ reserved' = reserved \cup {n}
    /\ UNCHANGED <<live, pins, published>>

Unreserve(n) ==
    /\ n \in reserved
    /\ reserved' = reserved \ {n}
    /\ UNCHANGED <<live, pins, published>>

Pin(n, p) ==
    /\ n \in live
    /\ pins[n] # p
    /\ pins' = [pins EXCEPT ![n] = p]
    /\ UNCHANGED <<live, reserved, published>>

Edit ==
    \/ \E n \in Numbers : \/ AddField(n)
                          \/ DeleteField(n)
                          \/ Reserve(n)
                          \/ Unreserve(n)
    \/ \E n \in Numbers, p \in Pins \cup {NoPin} : Pin(n, p)

-----------------------------------------------------------------------------
\* One build, with the message in a generate-flagged file.

NewOrdinals == FieldOrdinals(live, reserved, lock, pins)
NewReports == FieldReports(live, reserved, lock, pins)

\* The recorder starts empty, so the new ledger holds the fields of this build
\* and no others, and no entry at all for a message without fields.
\* mutant: the recorder writes what derivation computed, not what was assigned
RecordedDerived == [n \in live |-> Derived(live, reserved)[n]]

Recorded == NewOrdinals

BuildAccepted ==
    /\ NewReports = {} \/ "warn" \in Severities
    /\ lock' = Recorded
    /\ slots' = Placeholders(live, reserved, NewOrdinals)
    /\ UNCHANGED proto

\* mutant: the new ledger is written although the build failed
BuildRejectedButWritten ==
    /\ NewReports # {} /\ "error" \in Severities
    /\ lock' = Recorded
    /\ UNCHANGED <<proto, slots>>

\* Build returns an error: nothing is published, the ledger stays what it was.
BuildRejected ==
    /\ NewReports # {} /\ "error" \in Severities
    /\ UNCHANGED <<proto, published>>

Build == BuildAccepted \/ BuildRejected

Next == Edit \/ Build

Spec == Init /\ [][Next]_vars

-----------------------------------------------------------------------------
\* Properties

\* Every variable has the type the code gives it.
TypeOK ==
    /\ live \subseteq Numbers
    /\ reserved \subseteq Numbers \ live
    /\ pins \in [Numbers -> Pins \cup {NoPin}]
    /\ DOMAIN lock \subseteq Numbers
    /\ lock \in [DOMAIN lock -> Nat]
    /\ slots \subseteq [number : Numbers, ordinal : Nat]

\* The slots of a published schema, placeholders included, are exactly 0..N-1:
\* what Cap'n Proto and FlatBuffers accept (message.go, "0-based, contiguous").
Dense ==
    LET used == Range(lock) \cup {s.ordinal : s \in slots}
    IN  used = 0..(Cardinality(DOMAIN lock) + Cardinality(slots) - 1)

\* A placeholder never sits on a slot the same schema gives to a live field,
\* whether derivation, the ledger or a pin put the field there.
PlaceholdersApart ==
    \A s \in slots : \A n \in DOMAIN lock : s.ordinal # lock[n]

\* Two fields of one schema share a slot only if the build reports the later
\* one, wherever the two ordinals came from: derivation, ledger or pin.
ClashReported ==
    [][BuildAccepted =>
        \A a \in live, b \in live :
            a < b /\ lock'[a] = lock'[b] => \E r \in NewReports : r.node = b]_vars

\* A field the ledger records changes its slot only in a build that reports that
\* field (ordinal.go, "a later build that would assign a different one").
NoSilentMove ==
    [][\A n \in DOMAIN lock \cap DOMAIN lock' :
            lock'[n] # lock[n] => \E r \in NewReports : r.node = n]_vars

\* A field without a pin never moves, even when derivation, a truncated
\* reserved range or a neighbour's pin says otherwise ("the ledger wins").
UnpinnedNeverMoves ==
    [][\A n \in DOMAIN lock \cap DOMAIN lock' :
            pins'[n] = NoPin => lock'[n] = lock[n]]_vars

\* Building the same .proto again against the ledger just written moves nothing
\* (lock_record.go, Equal: "a rebuild of unchanged protos moved nothing").
RebuildMovesNothing ==
    [][BuildAccepted => FieldOrdinals(live, reserved, lock', pins) = lock']_vars
=============================================================================
