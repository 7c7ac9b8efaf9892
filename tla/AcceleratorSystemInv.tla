------------------------- MODULE AcceleratorSystemInv --------------------------
(****************************************************************************)
(* The inductive invariant of the program and the accelerator: what the     *)
(* memory, the registers, the pipes and the accumulators hold at each point *)
(* of the program and in each state of the controller.                      *)
(****************************************************************************)
EXTENDS AcceleratorSystem

(* Where program_accelerator() puts the parameters: rows of whole groups,   *)
(* the biases of a layer after its rows, and a group left free before the   *)
(* area of the activations.                                                 *)
RowWords(l) == 4 * GroupsOf(Net!Size(l))
WeightStart(l) == IF l = 1 THEN 0 ELSE InputSize * RowWords(1) + RowWords(1)
BiasStart(l) == WeightStart(l) + Net!Size(l - 1) * RowWords(l)
LayoutEnd == BiasStart(2) + RowWords(2)
InputStart == LayoutEnd + 4

(* The sizes for which this is the layout: a layer of a multiple of four    *)
(* neurons gets an empty group after each of its rows, which the controller *)
(* does not skip (the run aligned_rows); and the network, with the area of  *)
(* the activations, fits in the memory.                                     *)
ASSUME LayoutAssumption ==
  /\ InputSize \in Nat \ {0}
  /\ HiddenSize % 4 # 0 /\ OutputSize % 4 # 0
  /\ InputStart + InputSize < RamWords
  /\ InputStart + RowWords(1) < RamWords /\ InputStart + RowWords(2) < RamWords

(* The configuration the registers hold from START_INPUT on.                *)
Layout ==
  [addr_w1 |-> WeightStart(1), addr_b1 |-> BiasStart(1),
   addr_w2 |-> WeightStart(2), addr_b2 |-> BiasStart(2),
   addr_act |-> InputStart, size_l1 |-> HiddenSize, size_l2 |-> OutputSize]

(* The request whose words the RAM shows.                                   *)
Fetched == [ren |-> TRUE, wen |-> FALSE, four |-> four_flop, addr |-> addr_flop]

(* The controller, which works on that configuration only.                  *)
C == INSTANCE FeedforwardControllerProofs
       WITH cfg <- Layout, Configs <- {Layout}, fetched <- Fetched
----------------------------------------------------------------------------
(* The program.                                                             *)
Labels ==
  {"clear", "start_weight", "weight", "align_row", "start_bias", "bias",
   "align_bias", "align_end", "layer_size", "start_input", "input",
   "acc_start", "poll", "read_output", "data", "advance", "reset_ptr",
   "returned", "finished"}

(* Its loops run within their bounds.                                       *)
LoopsOK ==
  /\ pc \in Labels /\ test \in 0 .. NumTests - 1 /\ resets \in 0 .. MaxResets
  /\ reading \in BOOLEAN /\ (reading => pc \in {"poll", "data"})
  /\ i \in 0 .. 31 + InputSize /\ j \in 0 .. 31 + InputSize /\ k \in 0 .. 31
  /\ Programming => test = 0
  /\ pc = "clear" => i = 0
  /\ pc \in {"start_weight", "weight", "align_row", "start_bias", "bias",
             "align_bias"} => i \in 1 .. 2
  /\ pc \in {"weight", "align_row"} => j < Net!Size(i - 1)
  /\ pc = "weight" => k < Net!Size(i)
  /\ pc = "align_row" => k = Net!Size(i)
  /\ pc = "bias" => j < Net!Size(i)
  /\ pc = "align_bias" => j = Net!Size(i)
  /\ pc \in {"align_end", "layer_size"} => i = 3
  /\ pc = "input" => i < InputSize
  /\ pc \in {"data", "advance"} => i < OutputSize
  /\ DOMAIN out = 0 .. OutputSize - 1

(* The pointers it has saved so far.                                        *)
WeightSaved(l) == ~Programming \/ l < i \/ (l = i /\ pc # "start_weight")
BiasSaved(l) == ~Programming \/ l < i \/ (l = i /\ pc \in {"bias", "align_bias"})
InputSaved == test > 0 \/ ~(Programming \/ pc = "start_input")

RegistersOK ==
  /\ status \in {0, AllOnes}
  /\ {in_ptr, w0_ptr, b0_ptr, w1_ptr, b1_ptr, work_ptr} \subseteq 0 .. RamWords - 1
  /\ WeightSaved(1) => w0_ptr = WeightStart(1)
  /\ WeightSaved(2) => w1_ptr = WeightStart(2)
  /\ BiasSaved(1) => b0_ptr = BiasStart(1)
  /\ BiasSaved(2) => b1_ptr = BiasStart(2)
  /\ InputSaved => in_ptr = InputStart
  /\ sizes = IF Programming THEN NoSizes
             ELSE [hidden |-> HiddenSize, output |-> OutputSize]

(* The working pointer is where the next word belongs.                      *)
PointerInStep ==
  /\ pc = "start_weight" => work_ptr = WeightStart(i)
  /\ pc \in {"weight", "align_row"} =>
       work_ptr = WeightStart(i) + j * RowWords(i) + k
  /\ pc = "start_bias" => work_ptr = BiasStart(i)
  /\ pc \in {"bias", "align_bias"} => work_ptr = BiasStart(i) + j
  /\ pc = "align_end" => work_ptr = LayoutEnd
  /\ pc \in {"layer_size", "start_input", "returned"} => work_ptr = InputStart
  /\ pc \in {"input", "data", "advance"} => work_ptr = InputStart + i

(* What it has stored so far.                                               *)
WeightStored(l, n, m) ==
  \/ ~Programming
  \/ l < i
  \/ l = i /\ pc \in {"start_bias", "bias", "align_bias"}
  \/ l = i /\ pc \in {"weight", "align_row"} /\ (m < j \/ (m = j /\ n < k))
BiasStored(l, n) ==
  \/ ~Programming
  \/ l < i
  \/ l = i /\ pc \in {"bias", "align_bias"} /\ n < j

NetworkStored ==
  \A l \in 1 .. 2 : \A n \in 0 .. Net!Size(l) - 1 :
    /\ BiasStored(l, n) => RamWord(BiasStart(l) + n) = Bias(l, n)
    /\ \A m \in 0 .. Net!Size(l - 1) - 1 :
         WeightStored(l, n, m) =>
           RamWord(WeightStart(l) + m * RowWords(l) + n) = Weight(l, n, m)
----------------------------------------------------------------------------
(* The controller works only while the program polls.                       *)
PollInStep ==
  /\ pc # "poll" => curr_state = "IDLE"
  /\ pc = "poll" => (curr_state = "IDLE" <=> status = AllOnes)

(* The RAM, and what it shows when it is used.                              *)
Used ==
  curr_state \in {"LOAD_ACT", "MAC_ISSUE", "BIAS_ISSUE"} \/ (pc = "data" /\ reading)
RamOK ==
  /\ DOMAIN ram0 = BankAddress /\ DOMAIN ram1 = BankAddress
  /\ addr_flop \in 0 .. RamWords - 1 /\ four_flop \in BOOLEAN
  /\ Used => IF four_flop
             THEN \A l \in 1 .. 4 : dout[l] = RamWord(4 * (addr_flop \div 4) + l - 1)
             ELSE dout[1] = RamWord(addr_flop)
  /\ pc = "data" /\ reading => ~four_flop /\ addr_flop = work_ptr

(* The accumulators that have been issued in the pass, of which the pipes   *)
(* may hold operations in the states of the pass.                           *)
Passed ==
  CASE curr_state \in {"MAC_ISSUE", "BIAS_ISSUE", "SIGMOID_ISSUE"} -> C!Issued
    [] curr_state \in {"MAC_WAIT", "BIAS_WAIT", "SIGMOID_WAIT"} -> curr_layer_size
    [] OTHER -> 0
MulStates == {"MAC_ISSUE", "MAC_WAIT"}
AddStates == {"MAC_ISSUE", "MAC_WAIT", "BIAS_ISSUE", "BIAS_WAIT"}
SigStates == {"SIGMOID_ISSUE", "SIGMOID_WAIT"}

(* An operation of the pass: on one to four accumulators that were issued.  *)
Words(ws) == Len(ws) \in 1 .. 4 /\ DOMAIN ws = 1 .. Len(ws)
MulOp(op, passed) ==
  /\ op = [busy |-> TRUE, index |-> op.index, product |-> op.product, acc |-> op.acc]
  /\ op.index \in 0 .. 31 /\ Words(op.product) /\ op.index + Len(op.product) <= passed
ResultOp(op, passed) ==
  /\ op = [busy |-> TRUE, index |-> op.index, result |-> op.result]
  /\ op.index \in 0 .. 31 /\ Words(op.result) /\ op.index + Len(op.result) <= passed

PipesOK ==
  /\ DOMAIN mul_pipe = 1 .. MulLatency
  /\ DOMAIN add_pipe = 1 .. AddLatency
  /\ DOMAIN sig_pipe = 1 .. SigLatency
  /\ \A s \in 1 .. MulLatency :
       mul_pipe[s] = Bubble \/ (MulOp(mul_pipe[s], Passed) /\ curr_state \in MulStates)
  /\ \A s \in 1 .. AddLatency :
       add_pipe[s] = Bubble \/ (ResultOp(add_pipe[s], Passed) /\ curr_state \in AddStates)
  /\ \A s \in 1 .. SigLatency :
       sig_pipe[s] = SigBubble \/ (ResultOp(sig_pipe[s], Passed) /\ curr_state \in SigStates)

(* The invariant of the machine: with it every operation of the accelerator *)
(* finds its operands where they belong.                                    *)
MachineInv ==
  /\ LoopsOK /\ RegistersOK /\ PointerInStep /\ NetworkStored
  /\ PollInStep /\ RamOK /\ PipesOK /\ C!ControllerInv
----------------------------------------------------------------------------
(* The values, in test t: the activations of each layer, and what an        *)
(* accumulator holds after m of the products of neuron n, and after the     *)
(* bias.                                                                    *)
Acts(t, l) ==
  CASE l = 0 -> [m \in 0 .. InputSize - 1 |-> Input(t, m)]
    [] l = 1 -> Net!Activate(1, [m \in 0 .. InputSize - 1 |-> Input(t, m)])
    [] OTHER -> Net!feedforward(t)
Row(l, n) == [m \in 0 .. Net!Size(l - 1) - 1 |-> Weight(l, n, m)]
Accumulated(t, l, n, m) == Net!dot(m, Acts(t, l - 1), Row(l, n))
Biased(t, l, n) == Add(Accumulated(t, l, n, Net!Size(l - 1)), Bias(l, n))

(* What accumulator r of the running layer holds before the pass gets to    *)
(* it, and after.                                                           *)
Before(r) ==
  CASE curr_state = "LOAD_ACT" -> Accumulated(test, curr_layer, r, C!Loaded)
    [] curr_state = "MAC_ISSUE" -> Accumulated(test, curr_layer, r, C!Loaded - 1)
    [] curr_state \in {"BIAS_PREP", "BIAS_ISSUE"} ->
         Accumulated(test, curr_layer, r, Net!Size(curr_layer - 1))
    [] curr_state \in {"SIGMOID_PREP", "SIGMOID_ISSUE"} -> Biased(test, curr_layer, r)
    [] OTHER -> Acts(test, curr_layer)[r]
After(r) ==
  CASE curr_state \in MulStates -> Accumulated(test, curr_layer, r, C!Loaded)
    [] curr_state \in {"BIAS_ISSUE", "BIAS_WAIT"} -> Biased(test, curr_layer, r)
    [] OTHER -> Acts(test, curr_layer)[r]

(* An operation under way is going to write accumulator r.                  *)
Writes(op, words, r) == op.busy /\ r \in op.index .. op.index + Len(words) - 1
Coming(r) ==
  \/ \E s \in 1 .. MulLatency : Writes(mul_pipe[s], mul_pipe[s].product, r)
  \/ \E s \in 1 .. AddLatency : Writes(add_pipe[s], add_pipe[s].result, r)
  \/ \E s \in 1 .. SigLatency : Writes(sig_pipe[s], sig_pipe[s].result, r)

(* Each accumulator holds its value before the pass until it is issued, and *)
(* then its value after the pass unless the pipes are still to write it;    *)
(* and what they are to write is that value.                                *)
AccumulatorsRight ==
  C!InLayer =>
    \A r \in 0 .. Net!Size(curr_layer) - 1 :
      IF r < Passed THEN acc_data[r] = After(r) \/ Coming(r)
      ELSE acc_data[r] = Before(r)

(* If operation op, of the multipliers or of the other pipes, writes        *)
(* accumulator r, it makes it v.                                            *)
MulMakes(op, r, v) ==
  Writes(op, op.product, r) =>
    Add(op.product[r - op.index + 1], op.acc[r - op.index + 1]) = v
ResultMakes(op, r, v) ==
  Writes(op, op.result, r) => op.result[r - op.index + 1] = v

ResultsRight ==
  \A r \in Accumulators :
    /\ \A s \in 1 .. MulLatency : MulMakes(mul_pipe[s], r, After(r))
    /\ \A s \in 1 .. AddLatency : ResultMakes(add_pipe[s], r, After(r))
    /\ \A s \in 1 .. SigLatency : ResultMakes(sig_pipe[s], r, After(r))

(* The area of the activations starts with the first n of layer l.          *)
Holds(l, n) == \A m \in 0 .. n - 1 : RamWord(InputStart + m) = Acts(test, l)[m]

(* The computation is over, and the outputs are not all read back.          *)
Computed ==
  \/ curr_state = "DONE"
  \/ pc = "poll" /\ curr_state = "IDLE"
  \/ pc \in {"read_output", "data", "advance"}

ActivationsRight ==
  /\ pc = "input" => Holds(0, i)
  /\ pc = "acc_start" => Holds(0, InputSize)
  /\ curr_state \notin {"IDLE", "STORE_OUTPUT", "LAYER_DONE", "DONE"} =>
       Holds(curr_layer - 1, Net!Size(curr_layer - 1))
  /\ curr_state = "STORE_OUTPUT" => Holds(curr_layer, C!Issued)
  /\ curr_state = "LAYER_DONE" => Holds(curr_layer, Net!Size(curr_layer))
  /\ Computed => Holds(2, OutputSize)
  /\ curr_state = "MAC_ISSUE" => act_data = Acts(test, curr_layer - 1)[C!Loaded - 1]

OutputsShape == out = [n \in 0 .. OutputSize - 1 |-> out[n]]
OutputsRight ==
  /\ pc = "data" => \A n \in 0 .. i - 1 : out[n] = Acts(test, 2)[n]
  /\ pc = "advance" => \A n \in 0 .. i : out[n] = Acts(test, 2)[n]
  /\ pc \in {"reset_ptr", "returned"} =>
       \A n \in 0 .. OutputSize - 1 : out[n] = Acts(test, 2)[n]

(* The invariant of the values: what is computed is right at every point.   *)
ValuesInv ==
  /\ AccumulatorsRight /\ ResultsRight /\ ActivationsRight
  /\ OutputsShape /\ OutputsRight

(* The program and the accelerator never leave these states: the memory     *)
(* holds the network where the controller fetches it, the controller, the   *)
(* RAM and the pipes are in step, and every word that the pipes, the        *)
(* accumulators, the RAM and the program hold is the one feedforward() has  *)
(* at that point.                                                           *)
SystemInv == MachineInv /\ ValuesInv
============================================================================
