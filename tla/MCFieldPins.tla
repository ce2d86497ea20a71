----------------------------- MODULE MCFieldPins -----------------------------
(***************************************************************************)
(* FieldLedger with pins: a negative one, and one that derivation also     *)
(* hands out.                                                              *)
(***************************************************************************)
EXTENDS FieldLedger

MCPins == {-1, 2}
=============================================================================
