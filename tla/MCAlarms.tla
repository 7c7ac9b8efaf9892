------------------------------ MODULE MCAlarms ------------------------------
(***************************************************************************)
(* A small instance of the system clock for TLC: three alarms, a counter   *)
(* of two bits that wraps once, and a second of two microseconds.          *)
(***************************************************************************)
EXTENDS Alarms, TLC

MCTimes == {<<1, 1>>}

Symmetry == Permutations(Alarms)
=============================================================================
