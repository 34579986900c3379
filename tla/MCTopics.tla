------------------------------- MODULE MCTopics ------------------------------
(* Instance of Topics, and with it of the settings, for TLC.                  *)
EXTENDS Topics, TLC

SlotSymmetry == Permutations(Slots)
=============================================================================
