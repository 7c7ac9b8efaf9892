----------------------------- MODULE MCCfiFlash -----------------------------
(***************************************************************************)
(* A small instance of the flash for TLC: six bytes in a block of four and *)
(* a small one, bottom and top boot, by bytes and by half words, and chips *)
(* that the driver must refuse, one that no probe finds among them.        *)
(***************************************************************************)
EXTENDS CfiFlash, TLC

Part(alg, boot, mode) ==
  [device_width |-> 2, mode_width |-> mode, interface |-> {"x8", "x16"}, primary |-> "PRI",
   algorithm |-> alg, boot_mode |-> boot, device_size |-> 6,
   regions |-> <<[blocks |-> 1, size |-> 2], [blocks |-> 1, size |-> 4]>>]

MCChips ==
  {Part("AMD", boot, mode) : boot \in {"top", "bottom"}, mode \in {1, 2}}
  \union {Part("INTEL", "bottom", mode) : mode \in {1, 2}}
  \union {[Part("AMD", "bottom", 2) EXCEPT !.interface = {"x8"}],
          [Part("AMD", "bottom", 2) EXCEPT !.device_width = 1],
          [Part("AMD", "bottom", 1) EXCEPT !.device_size = 8],
          [Part("AMD", "bottom", 1) EXCEPT !.primary = "ALT"], Part("other", "bottom", 1)}

Symmetry == Permutations(Patterns)
=============================================================================
