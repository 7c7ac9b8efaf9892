---------------------- MODULE MCFeedforwardControllerEnv -----------------------
(****************************************************************************)
(* Values for the constants of FeedforwardControllerEnv: three input        *)
(* neurons, and every pair of layer sizes from one neuron to two groups and *)
(* one neuron, in a memory laid out as program_accelerator() lays it out.   *)
(****************************************************************************)
EXTENDS FeedforwardControllerEnv

Rows(n) == 4 * GroupsOf(n)

(* The layout of a network of l1 hidden and l2 output neurons.              *)
Layout(l1, l2) ==
  LET w1 == 0
      b1 == w1 + InputSize * Rows(l1)
      w2 == b1 + Rows(l1)
      b2 == w2 + l1 * Rows(l2)
      a == b2 + Rows(l2)
  IN [addr_w1 |-> w1, addr_b1 |-> b1, addr_w2 |-> w2, addr_b2 |-> b2,
      addr_act |-> a, size_l1 |-> l1, size_l2 |-> l2]

MCConfigs == {Layout(l1, l2) : l1 \in 1 .. 9, l2 \in 1 .. 9}
============================================================================
