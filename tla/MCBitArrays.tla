----------------------------- MODULE MCBitArrays -----------------------------
(* BitArrays for model checking: the slots are interchangeable.            *)
EXTENDS BitArrays, TLC

SlotSymmetry == Permutations(Slots)
==============================================================================
