---------------------------- MODULE MCSdrReader ----------------------------
(* The instance of SdrReader for TLC. *)
EXTENDS SdrReader

(* Longer and then shorter than before.                                     *)
MCLengths == <<2, 3, 1>>
=============================================================================
