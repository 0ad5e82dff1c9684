---------------------------- MODULE MCLanplusSol ----------------------------
(* The instance of LanplusSol for TLC. *)
EXTENDS LanplusSol
=============================================================================
