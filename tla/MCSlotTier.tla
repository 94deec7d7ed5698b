----------------------------- MODULE MCSlotTier -----------------------------
(***************************************************************************)
(* SlotTier for TLC.                                                       *)
(***************************************************************************)
EXTENDS SlotTier

Symmetry == Permutations(Keys)
=============================================================================
