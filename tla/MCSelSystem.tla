---------------------------- MODULE MCSelSystem ----------------------------
(* The instance of SelSystem for TLC. *)
EXTENDS SelSystem

MCCounts      == {0, 1, -1, -2}
MCDeleteLists == {<<1>>, <<1, 2>>}
=============================================================================
