------------------------------ MODULE MCLayout -------------------------------
(***************************************************************************)
(* Layout on every graph of three messages with at most two fields each,   *)
(* and on every two messages of one field with every combination of what a *)
(* message may declare and of who generates it.                            *)
(***************************************************************************)
EXTENDS Layout

MCMessages == 1..3

FieldLists(ms, n) == UNION {[1..k -> ms \cup {Variable}] : k \in 0..n}

MCGraphs ==
    [fields : [MCMessages -> FieldLists(MCMessages, 2)],
     request : {[m \in MCMessages |-> "struct"]},
     closed : {{}}, held : {{}}, generated : {MCMessages}]

\* The third message is the other two's neighbour in the file: it has no fields.
Pair == 1..2
Beside(f, x) == [m \in MCMessages |-> IF m \in Pair THEN f[m] ELSE x]
MCDeclared ==
    [fields : {Beside(f, <<>>) : f \in [Pair -> FieldLists(Pair, 1)]},
     request : {Beside(f, "unspecified") :
                    f \in [Pair -> {"unspecified", "struct", "table"}]},
     closed : SUBSET Pair, held : SUBSET Pair, generated : SUBSET Pair]

MCProtos == MCGraphs \cup MCDeclared
=============================================================================
