------------------------- MODULE FeedforwardController -------------------------
(****************************************************************************)
(* The controller of the accelerator: feedforward_controller.sv.            *)
(*                                                                          *)
(* It walks over the two computed layers of the network.  For each input    *)
(* activation of a layer it loads the activation and issues one             *)
(* multiply-accumulate per neuron, four neurons (a group) at a time; then   *)
(* it issues the bias additions, the sigmoids and the stores of the layer's *)
(* outputs over the layer's inputs.                                         *)
(*                                                                          *)
(* One action per state of the source's state machine: a step is one clock  *)
(* edge.  The wires the controller reads are parameters of the actions, the *)
(* wires it drives are operators of its registers (the OUTPUT LOGIC block). *)
(* Addresses are 16 bits wide (RamWords = 65536 in the hardware), counters  *)
(* of neurons 5 bits.  The registers weight_base_addr and act_base_addr are *)
(* written and never read in the source; they are left out.                 *)
(****************************************************************************)
EXTENDS Integers

CONSTANTS
  InputSize,  \* neurons of the input layer, the port size_l0 (784)
  RamWords    \* words addressed by a 16-bit address

ASSUME InputSizeAssumption == InputSize \in Nat \ {0}
ASSUME RamWordsAssumption == RamWords \in Nat /\ RamWords > 4

VARIABLES
  curr_state,       \* state of the machine
  curr_layer_size,  \* neurons of the running layer
  nlayers,          \* number of the last layer
  curr_layer,       \* the running layer, 1 (hidden) or 2 (output)
  pending_issues,   \* neurons of the running pass not issued yet
  acts_remaining,   \* input activations of the layer not loaded yet
  curr_addr_w,      \* address of the next group of weights
  curr_addr_a,      \* address of the next activation, or of the next store
  curr_addr_b,      \* address of the next group of biases
  bias_base_addr    \* address of the layer's biases

vars == <<curr_state, curr_layer_size, nlayers, curr_layer, pending_issues,
          acts_remaining, curr_addr_w, curr_addr_a, curr_addr_b,
          bias_base_addr>>

pointers == <<curr_addr_w, curr_addr_a, curr_addr_b, bias_base_addr>>

Address == 0 .. RamWords - 1

States ==
  {"IDLE", "CALC_LAYER_PREP", "LOAD_ACT", "MAC_ISSUE", "MAC_WAIT",
   "BIAS_PREP", "BIAS_ISSUE", "BIAS_WAIT",
   "SIGMOID_PREP", "SIGMOID_ISSUE", "SIGMOID_WAIT",
   "STORE_PREP", "STORE_OUTPUT", "LAYER_DONE", "DONE"}

(* Variant: an index of four bits.                                          *)
U4(n) == n % 16

(* The values of the 16-bit, 5-bit and 3-bit registers.                     *)
U16(n) == n % RamWords
U5(n) == n % 32
U3(n) == n % 8

Init ==
  /\ curr_state = "IDLE"
  /\ curr_layer_size = 0
  /\ nlayers = 0
  /\ curr_layer = 0
  /\ pending_issues = 0
  /\ acts_remaining = 0
  /\ curr_addr_w = 0
  /\ curr_addr_a = 0
  /\ curr_addr_b = 0
  /\ bias_base_addr = 0

(* The asynchronous reset.                                                  *)
Reset ==
  /\ curr_state' = "IDLE"
  /\ curr_layer_size' = 0
  /\ nlayers' = 0
  /\ curr_layer' = 0
  /\ pending_issues' = 0
  /\ acts_remaining' = 0
  /\ curr_addr_w' = 0
  /\ curr_addr_a' = 0
  /\ curr_addr_b' = 0
  /\ bias_base_addr' = 0

(* Issuing: up to four neurons at a time, in the order of their index.      *)
(* word_sel enables that many lanes, from lane 0; reg_sel is the index of   *)
(* the neuron on lane 0.                                                    *)
IssuedLanes == IF pending_issues >= 4 THEN 4 ELSE pending_issues
(* Variant: the last issue takes four neurons, however many are left.       *)
PendingAfterFour == pending_issues - 4

PendingAfter == pending_issues - IssuedLanes
issues_remaining == PendingAfter # 0
RegSel == U5(curr_layer_size - pending_issues)

(* Variant: off by one layer.                                               *)
layers_pending_early == curr_layer + 1 < nlayers

layers_pending == curr_layer # nlayers
----------------------------------------------------------------------------
(* The wires the controller drives.                                         *)

done_flg == curr_state = "DONE"
layer_prep_stb == curr_state = "CALC_LAYER_PREP"
load_act_flg == curr_state = "LOAD_ACT"
issue_mac == curr_state = "MAC_ISSUE"
issue_add == curr_state = "BIAS_ISSUE"
issue_sigmoid == curr_state = "SIGMOID_ISSUE"

reg_sel ==
  IF issue_mac \/ issue_add \/ issue_sigmoid \/ curr_state = "STORE_OUTPUT"
  THEN RegSel ELSE 0
word_sel ==
  IF issue_mac \/ issue_add \/ issue_sigmoid THEN IssuedLanes ELSE 0

(* The request to the RAM: a read or a write of one word or of the group of *)
(* four words around an address, or none.                                   *)
Read(n, a) == [ren |-> TRUE, wen |-> FALSE, four |-> n = 4, addr |-> a]
Write(n, a) == [ren |-> FALSE, wen |-> TRUE, four |-> n = 4, addr |-> a]
NoRequest == [ren |-> FALSE, wen |-> FALSE, four |-> TRUE, addr |-> 0]

RamRequest(cfg) ==
  CASE curr_state = "CALC_LAYER_PREP" -> Read(1, cfg.addr_act)
    [] curr_state \in {"LOAD_ACT", "MAC_ISSUE"} -> Read(4, curr_addr_w)
    [] curr_state = "MAC_WAIT" -> Read(1, curr_addr_a)
    [] curr_state = "BIAS_PREP" -> Read(4, bias_base_addr)
    [] curr_state = "BIAS_ISSUE" -> Read(4, curr_addr_b)
    [] curr_state = "STORE_OUTPUT" -> Write(4, curr_addr_a)
    [] OTHER -> NoRequest
----------------------------------------------------------------------------
(* The clock edge in each state.  cfg holds the addresses and the layer     *)
(* sizes that the register array drives.                                    *)

Idle(start_flg) ==
  /\ curr_state = "IDLE"
  /\ curr_state' = IF start_flg THEN "CALC_LAYER_PREP" ELSE "IDLE"
  /\ nlayers' = 2
  /\ curr_layer' = 1
  /\ UNCHANGED <<curr_layer_size, pending_issues, acts_remaining, pointers>>

CalcLayerPrep(cfg) ==
  /\ curr_state = "CALC_LAYER_PREP"
  /\ curr_state' = "LOAD_ACT"
  /\ LET first == curr_layer = 1 IN
     /\ curr_layer_size' = U5(IF first THEN cfg.size_l1 ELSE cfg.size_l2)
     /\ acts_remaining' = IF first THEN InputSize ELSE cfg.size_l1
     /\ curr_addr_w' = IF first THEN cfg.addr_w1 ELSE cfg.addr_w2
     /\ bias_base_addr' = IF first THEN cfg.addr_b1 ELSE cfg.addr_b2
  /\ curr_addr_a' = cfg.addr_act
  /\ UNCHANGED <<nlayers, curr_layer, pending_issues, curr_addr_b>>

(* Variant: the pointer moves by four activations.                          *)
LoadActByFour ==
  /\ curr_state = "LOAD_ACT"
  /\ curr_state' = "MAC_ISSUE"
  /\ curr_addr_w' = U16(curr_addr_w + 4)
  /\ curr_addr_a' = U16(curr_addr_a + 4)
  /\ acts_remaining' = U16(acts_remaining - 1)
  /\ pending_issues' = curr_layer_size
  /\ UNCHANGED <<curr_layer_size, nlayers, curr_layer, curr_addr_b,
                 bias_base_addr>>

LoadAct ==
  /\ curr_state = "LOAD_ACT"
  /\ curr_state' = "MAC_ISSUE"
  /\ curr_addr_w' = U16(curr_addr_w + 4)
  /\ curr_addr_a' = U16(curr_addr_a + 1)
  /\ acts_remaining' = U16(acts_remaining - 1)
  /\ pending_issues' = curr_layer_size
  /\ UNCHANGED <<curr_layer_size, nlayers, curr_layer, curr_addr_b,
                 bias_base_addr>>

(* Variant: the pointer to the weights moves after the last issue too.      *)
MacIssueAdvancing ==
  /\ curr_state = "MAC_ISSUE"
  /\ pending_issues' = PendingAfter
  /\ curr_addr_w' = U16(curr_addr_w + 4)
  /\ curr_state' = IF issues_remaining THEN "MAC_ISSUE" ELSE "MAC_WAIT"
  /\ UNCHANGED <<curr_layer_size, nlayers, curr_layer, acts_remaining,
                 curr_addr_a, curr_addr_b, bias_base_addr>>

MacIssue ==
  /\ curr_state = "MAC_ISSUE"
  /\ pending_issues' = PendingAfter
  /\ \/ /\ issues_remaining
        /\ curr_addr_w' = U16(curr_addr_w + 4)
        /\ curr_state' = "MAC_ISSUE"
     \/ /\ ~issues_remaining
        /\ curr_addr_w' = curr_addr_w
        /\ curr_state' = "MAC_WAIT"
  /\ UNCHANGED <<curr_layer_size, nlayers, curr_layer, acts_remaining,
                 curr_addr_a, curr_addr_b, bias_base_addr>>

(* Variants: the last activation is left out; the pipes are not waited for. *)
MacWaitEarly(mac_pipe_clr) ==
  /\ curr_state = "MAC_WAIT"
  /\ curr_state' = IF ~mac_pipe_clr THEN "MAC_WAIT"
                   ELSE IF acts_remaining <= 1 THEN "BIAS_PREP" ELSE "LOAD_ACT"
  /\ UNCHANGED <<curr_layer_size, nlayers, curr_layer, pending_issues,
                 acts_remaining, pointers>>

MacWaitSkipped(mac_pipe_clr) ==
  /\ curr_state = "MAC_WAIT"
  /\ curr_state' = IF acts_remaining = 0 THEN "BIAS_PREP" ELSE "LOAD_ACT"
  /\ UNCHANGED <<curr_layer_size, nlayers, curr_layer, pending_issues,
                 acts_remaining, pointers>>

MacWait(mac_pipe_clr) ==
  /\ curr_state = "MAC_WAIT"
  /\ curr_state' = IF ~mac_pipe_clr THEN "MAC_WAIT"
                   ELSE IF acts_remaining = 0 THEN "BIAS_PREP" ELSE "LOAD_ACT"
  /\ UNCHANGED <<curr_layer_size, nlayers, curr_layer, pending_issues,
                 acts_remaining, pointers>>

(* Variant: the first group of biases is asked for twice.                   *)
BiasPrepTwice ==
  /\ curr_state = "BIAS_PREP"
  /\ curr_state' = "BIAS_ISSUE"
  /\ curr_addr_b' = bias_base_addr
  /\ pending_issues' = curr_layer_size
  /\ UNCHANGED <<curr_layer_size, nlayers, curr_layer, acts_remaining,
                 curr_addr_w, curr_addr_a, bias_base_addr>>

BiasPrep ==
  /\ curr_state = "BIAS_PREP"
  /\ curr_state' = "BIAS_ISSUE"
  /\ curr_addr_b' = U16(bias_base_addr + 4)
  /\ pending_issues' = curr_layer_size
  /\ UNCHANGED <<curr_layer_size, nlayers, curr_layer, acts_remaining,
                 curr_addr_w, curr_addr_a, bias_base_addr>>

BiasIssue ==
  /\ curr_state = "BIAS_ISSUE"
  /\ curr_state' = IF issues_remaining THEN "BIAS_ISSUE" ELSE "BIAS_WAIT"
  /\ curr_addr_b' = U16(curr_addr_b + 4)
  /\ pending_issues' = PendingAfter
  /\ UNCHANGED <<curr_layer_size, nlayers, curr_layer, acts_remaining,
                 curr_addr_w, curr_addr_a, bias_base_addr>>

BiasWait(mac_pipe_clr) ==
  /\ curr_state = "BIAS_WAIT"
  /\ curr_state' = IF mac_pipe_clr THEN "SIGMOID_PREP" ELSE "BIAS_WAIT"
  /\ UNCHANGED <<curr_layer_size, nlayers, curr_layer, pending_issues,
                 acts_remaining, pointers>>

SigmoidPrep ==
  /\ curr_state = "SIGMOID_PREP"
  /\ curr_state' = "SIGMOID_ISSUE"
  /\ pending_issues' = curr_layer_size
  /\ UNCHANGED <<curr_layer_size, nlayers, curr_layer, acts_remaining,
                 pointers>>

SigmoidIssue ==
  /\ curr_state = "SIGMOID_ISSUE"
  /\ curr_state' = IF issues_remaining THEN "SIGMOID_ISSUE" ELSE "SIGMOID_WAIT"
  /\ pending_issues' = PendingAfter
  /\ UNCHANGED <<curr_layer_size, nlayers, curr_layer, acts_remaining,
                 pointers>>

SigmoidWait(sigmoid_pipe_clr) ==
  /\ curr_state = "SIGMOID_WAIT"
  /\ curr_state' = IF sigmoid_pipe_clr THEN "STORE_PREP" ELSE "SIGMOID_WAIT"
  /\ UNCHANGED <<curr_layer_size, nlayers, curr_layer, pending_issues,
                 acts_remaining, pointers>>

(* Variant: the pointer to the activations is not wound back.               *)
StorePrepInPlace(cfg) ==
  /\ curr_state = "STORE_PREP"
  /\ curr_state' = "STORE_OUTPUT"
  /\ pending_issues' = curr_layer_size
  /\ UNCHANGED <<curr_layer_size, nlayers, curr_layer, acts_remaining,
                 pointers>>

StorePrep(cfg) ==
  /\ curr_state = "STORE_PREP"
  /\ curr_state' = "STORE_OUTPUT"
  /\ pending_issues' = curr_layer_size
  /\ curr_addr_a' = cfg.addr_act
  /\ UNCHANGED <<curr_layer_size, nlayers, curr_layer, acts_remaining,
                 curr_addr_w, curr_addr_b, bias_base_addr>>

StoreOutput ==
  /\ curr_state = "STORE_OUTPUT"
  /\ curr_state' = IF issues_remaining THEN "STORE_OUTPUT" ELSE "LAYER_DONE"
  /\ curr_addr_a' = U16(curr_addr_a + 4)
  /\ pending_issues' = PendingAfter
  /\ UNCHANGED <<curr_layer_size, nlayers, curr_layer, acts_remaining,
                 curr_addr_w, curr_addr_b, bias_base_addr>>

LayerDone ==
  /\ curr_state = "LAYER_DONE"
  /\ curr_state' = IF layers_pending THEN "CALC_LAYER_PREP" ELSE "DONE"
  /\ curr_layer' = U3(curr_layer + 1)
  /\ UNCHANGED <<curr_layer_size, nlayers, pending_issues, acts_remaining,
                 pointers>>

Done ==
  /\ curr_state = "DONE"
  /\ curr_state' = "IDLE"
  /\ UNCHANGED <<curr_layer_size, nlayers, curr_layer, pending_issues,
                 acts_remaining, pointers>>

(* The clock edge, whatever the state.                                      *)
Step(start_flg, mac_pipe_clr, sigmoid_pipe_clr, cfg) ==
  \/ Idle(start_flg)
  \/ CalcLayerPrep(cfg)
  \/ LoadAct
  \/ MacIssue
  \/ MacWait(mac_pipe_clr)
  \/ BiasPrep
  \/ BiasIssue
  \/ BiasWait(mac_pipe_clr)
  \/ SigmoidPrep
  \/ SigmoidIssue
  \/ SigmoidWait(sigmoid_pipe_clr)
  \/ StorePrep(cfg)
  \/ StoreOutput
  \/ LayerDone
  \/ Done
============================================================================
