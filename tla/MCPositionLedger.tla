-------------------------- MODULE MCPositionLedger --------------------------
(***************************************************************************)
(* PositionLedger on an enum of four values, one of them an alias and one  *)
(* with a negative number, or on a service of three methods; and with one  *)
(* pin, which a position also hands out.                                   *)
(***************************************************************************)
EXTENDS PositionLedger

MCNumberOf == <<0, 0, 7, -3>>
MCValues == DOMAIN MCNumberOf
=============================================================================
