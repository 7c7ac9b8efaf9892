-------------------------------- MODULE Network --------------------------------
(****************************************************************************)
(* The neural network in software: the data structure of network.h and the  *)
(* function feedforward() of network.c, which the accelerator replaces.     *)
(*                                                                          *)
(* Words are abstract: Mul, Add and Sigmoid are the float operations, in    *)
(* the order in which the source applies them.                              *)
(****************************************************************************)
EXTENDS Naturals

CONSTANTS
  InputSize, HiddenSize, OutputSize,  \* sizes[0], sizes[1], sizes[2]
  Zero, Mul(_, _), Add(_, _), Sigmoid(_),
  Weight(_, _, _),  \* w[layer][neuron][input]
  Bias(_, _),       \* b[layer][neuron]
  Input(_, _)       \* data[i] of a test

(* The neurons of layers 0, 1 and 2.                                        *)
Size(l) == <<InputSize, HiddenSize, OutputSize>>[l + 1]

(* dot(): the products are added one by one to a sum that starts at zero.   *)
dot(n, a, b) ==
  LET sum[m \in 0 .. n] ==
        IF m = 0 THEN Zero ELSE Add(sum[m - 1], Mul(a[m - 1], b[m - 1]))
  IN sum[n]

(* The activations of layer l, from those of the layer before.              *)
Activate(l, a) ==
  [j \in 0 .. Size(l) - 1 |->
     LET w == [i \in 0 .. Size(l - 1) - 1 |-> Weight(l, j, i)]
     IN Sigmoid(Add(dot(Size(l - 1), a, w), Bias(l, j)))]

(* feedforward(): the output of the network for a test.                     *)
feedforward(t) ==
  Activate(2, Activate(1, [i \in 0 .. InputSize - 1 |-> Input(t, i)]))
============================================================================
