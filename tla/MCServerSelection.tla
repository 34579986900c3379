-------------------------- MODULE MCServerSelection --------------------------
(* Instance of ServerSelection for TLC: the slots of the getAPIs calls in     *)
(* flight are interchangeable, so the safety runs may permute them.           *)
EXTENDS ServerSelection, TLC

SlotSymmetry == Permutations(Slots)
=============================================================================
