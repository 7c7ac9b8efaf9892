----------------------------- MODULE NeunetSigmoid -----------------------------
(****************************************************************************)
(* The four sigmoid pipes: sigmoid.sv, sigmoid_if.vh.                       *)
(*                                                                          *)
(* Exponential, addition and division in sequence, SigLatency stages (30)   *)
(* in all; the cores are external and their composition is the operator     *)
(* Sigmoid.  A stage holds an operation on the lanes its word_sel enables,  *)
(* or a Bubble.                                                             *)
(****************************************************************************)
EXTENDS Naturals, Sequences

CONSTANTS SigLatency, Sigmoid(_)

ASSUME SigLatencyAssumption == SigLatency \in Nat \ {0}

VARIABLE sig_pipe  \* reg_wen0..29 with what travels along them

SigBubble == [busy |-> FALSE]

SigInit == sig_pipe = [s \in 1 .. SigLatency |-> SigBubble]
SigReset == sig_pipe' = [s \in 1 .. SigLatency |-> SigBubble]

Squash(index, a) ==
  [busy |-> TRUE, index |-> index,
   result |-> [l \in DOMAIN a |-> Sigmoid(a[l])]]

(* The clock edge; reg_wen: an operation on the words a is issued.          *)
SigStep(reg_wen, index, a) ==
  sig_pipe' =
    [s \in DOMAIN sig_pipe |->
       IF s > 1 THEN sig_pipe[s - 1]
       ELSE IF reg_wen THEN Squash(index, a) ELSE SigBubble]

(* The outputs: the last stage, and whether no stage is in use.             *)
sig_o == sig_pipe[SigLatency]
sig_empty == \A s \in DOMAIN sig_pipe : ~sig_pipe[s].busy
============================================================================
