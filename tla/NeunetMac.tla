------------------------------- MODULE NeunetMac -------------------------------
(****************************************************************************)
(* The four multiply-accumulate pipes: neunet_mac.sv, mac_if.vh.            *)
(*                                                                          *)
(* Four lanes move together: a multiplier of MulLatency stages (5), whose   *)
(* products enter an adder of AddLatency stages (7) with the accumulator    *)
(* values that travelled along.  An addition alone (add_only) enters at the *)
(* adder and takes the place of whatever leaves the multiplier in that      *)
(* cycle.  A stage holds an operation, or a Bubble when its reg_wen is 0.   *)
(* An operation keeps only the lanes that its word_sel enables, lane 0      *)
(* first; the floating-point cores are external and are the operators Mul   *)
(* and Add on an abstract set of words.                                     *)
(****************************************************************************)
EXTENDS Naturals, Sequences

CONSTANTS
  MulLatency, AddLatency,
  Mul(_, _), Add(_, _)

ASSUME MacLatencyAssumption ==
  MulLatency \in Nat \ {0} /\ AddLatency \in Nat \ {0}

VARIABLES
  mul_pipe,  \* reg_wen0..4 with what travels along them
  add_pipe   \* reg_wen5..11

macVars == <<mul_pipe, add_pipe>>

Bubble == [busy |-> FALSE]

(* The stages of a pipe after a clock edge on which op enters it.           *)
Shift(pipe, op) == [s \in DOMAIN pipe |-> IF s = 1 THEN op ELSE pipe[s - 1]]

(* An operation in the multipliers, with the accumulators that travel       *)
(* along, and one in the adders.                                            *)
Product(index, a, b, c) ==
  [busy |-> TRUE, index |-> index,
   product |-> [l \in DOMAIN a |-> Mul(a[l], b[l])], acc |-> c]
Sum(index, a, b) ==
  [busy |-> TRUE, index |-> index,
   result |-> [l \in DOMAIN a |-> Add(a[l], b[l])]]

MacInit ==
  /\ mul_pipe = [s \in 1 .. MulLatency |-> Bubble]
  /\ add_pipe = [s \in 1 .. AddLatency |-> Bubble]

MacReset ==
  /\ mul_pipe' = [s \in 1 .. MulLatency |-> Bubble]
  /\ add_pipe' = [s \in 1 .. AddLatency |-> Bubble]

(* What leaves the multiplier enters the adder with its accumulator values. *)
FromMultiplier ==
  LET last == mul_pipe[MulLatency]
  IN IF last.busy THEN Sum(last.index, last.product, last.acc) ELSE Bubble

(* The clock edge.  reg_wen: an operation is issued; add_only: it is an     *)
(* addition of a and b, otherwise a * b is to be added to c.                *)
MacStep(reg_wen, add_only, index, a, b, c) ==
  /\ mul_pipe' = Shift(mul_pipe, IF reg_wen /\ ~add_only
                                 THEN Product(index, a, b, c) ELSE Bubble)
  /\ add_pipe' = Shift(add_pipe, IF add_only
                                 THEN IF reg_wen THEN Sum(index, a, b) ELSE Bubble
                                 ELSE FromMultiplier)

(* The outputs: the last stage, and whether no stage is in use.             *)
mac_o == add_pipe[AddLatency]
(* Variants: only the multipliers, or only the ends of the pipes, count.    *)
mul_empty == \A s \in DOMAIN mul_pipe : ~mul_pipe[s].busy
ends_empty == ~mul_pipe[1].busy /\ ~add_pipe[AddLatency].busy

mac_empty ==
  /\ \A s \in DOMAIN mul_pipe : ~mul_pipe[s].busy
  /\ \A s \in DOMAIN add_pipe : ~add_pipe[s].busy
============================================================================
