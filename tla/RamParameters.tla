----------------------------- MODULE RamParameters -----------------------------
(****************************************************************************)
(* What the components around the accelerator's RAM have in common.         *)
(****************************************************************************)
EXTENDS Integers

CONSTANTS
  RamWords,  \* words that an address reaches: 2^16 in the hardware
  Zero       \* the word of all zeros, which is the float 0.0

ASSUME RamShapeAssumption ==
  RamWords \in Nat /\ RamWords > 4 /\ RamWords % 4 = 0
============================================================================
