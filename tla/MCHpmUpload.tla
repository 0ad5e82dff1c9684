---------------------------- MODULE MCHpmUpload ----------------------------
(* The instance of HpmUpload for TLC. *)
EXTENDS HpmUpload

(* A section ahead, one that was sent already, none, and one that is not    *)
(* within the image.                                                        *)
MCSections == {<<6, 2>>, <<2, 3>>, <<3, 0>>, <<7, 4>>}
=============================================================================
