-------------------------- MODULE MCLanplusSession --------------------------
(* Instances of LanplusSession for TLC: the keys are interchangeable.       *)
EXTENDS LanplusSession, TLC

KeySymmetry == Permutations(Keys)
=============================================================================
