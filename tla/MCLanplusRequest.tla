-------------------------- MODULE MCLanplusRequest --------------------------
(* Instances of LanplusRequest for TLC: the commands are interchangeable.   *)
EXTENDS LanplusRequest, TLC

CommandSymmetry == Permutations(Cmds)
=============================================================================
