--------------------------- MODULE AcceleratorSystem ---------------------------
(****************************************************************************)
(* What the program and the accelerator together promise: properties of     *)
(* AcceleratorDriver!SystemSpec.                                            *)
(****************************************************************************)
EXTENDS AcceleratorDriver

(* Where the program stands.                                                *)
Programming ==
  pc \in {"clear", "start_weight", "weight", "align_row", "start_bias", "bias",
          "align_bias", "align_end", "layer_size"}
UsesData == pc \in {"weight", "bias", "input", "data"}

(* The operations under way in the pipes, and the accumulators they write.  *)
InFlight ==
  {op \in {mul_pipe[s] : s \in DOMAIN mul_pipe}
          \cup {add_pipe[s] : s \in DOMAIN add_pipe}
          \cup {sig_pipe[s] : s \in DOMAIN sig_pipe} : op.busy}
Targets(op) ==
  LET words == IF "result" \in DOMAIN op THEN op.result ELSE op.product
  IN op.index .. op.index + Len(words) - 1

(* The accumulators whose contents the controller uses in this cycle.       *)
Operands ==
  IF curr_state = "STORE_OUTPUT"
  THEN Ctrl!reg_sel .. Ctrl!reg_sel + Ctrl!IssuedLanes - 1
  ELSE Ctrl!reg_sel .. Ctrl!reg_sel + Ctrl!word_sel - 1

(* The memory by address, and the layout of a layer's parameters.           *)
RamWord(a) == IF InRam1(a) THEN ram1[Internal(a)] ELSE ram0[Internal(a)]
GroupsOf(n) == (n + 3) \div 4
WeightWord(l, n, m) ==
  RamWord((IF l = 1 THEN w0_ptr ELSE w1_ptr) + 4 * GroupsOf(Net!Size(l)) * m + n)
BiasWord(l, n) == RamWord((IF l = 1 THEN b0_ptr ELSE b1_ptr) + n)
----------------------------------------------------------------------------
(* Every register of the slave, the pipes and the program holds a value of  *)
(* its kind; the RAM's and the controller's are in their own modules.       *)
SystemTypeOK ==
  /\ status \in {0, AllOnes}
  /\ {in_ptr, w0_ptr, b0_ptr, w1_ptr, b1_ptr, work_ptr} \subseteq 0 .. RamWords - 1
  /\ sizes \in [hidden : 0 .. 31, output : 0 .. 31]
  /\ \A op \in InFlight : Targets(op) \subseteq Accumulators
  /\ i \in 0 .. 31 + InputSize /\ j \in 0 .. 31 + InputSize /\ k \in 0 .. 31
  /\ test \in 0 .. NumTests - 1 /\ resets \in 0 .. MaxResets
  /\ DOMAIN out = 0 .. OutputSize - 1
  /\ reading => pc \in {"poll", "data"}

(* What feedforward_hw() returns is what feedforward() computes from the    *)
(* same network and test (network.c:236-240 uses one for the other): the    *)
(* same products and sums, in the same order.                               *)
OutputCorrect == pc = "returned" => out = Net!feedforward(test)

(* The program and the controller agree on the layout of the memory: from   *)
(* the end of program_accelerator() on, whatever inferences are made, the   *)
(* weight of input m and neuron n stands in row m of the layer, n words     *)
(* from its start, in rows of whole groups, where the controller fetches    *)
(* it; and each bias at its neuron's place.                                 *)
NetworkStaysProgrammed ==
  ~Programming =>
    \A l \in 1 .. 2 :
      /\ sizes = [hidden |-> HiddenSize, output |-> OutputSize]
      /\ \A n \in 0 .. Net!Size(l) - 1 :
           /\ BiasWord(l, n) = Bias(l, n)
           /\ \A m \in 0 .. Net!Size(l - 1) - 1 :
                WeightWord(l, n, m) = Weight(l, n, m)

(* A multiply-accumulate gets the next weights (feedforward_controller.sv:  *)
(* 236): when it is issued, the RAM shows, on the lanes it uses, those of   *)
(* the neurons it is issued for and of the activation loaded last.          *)
WeightsFetched ==
  Ctrl!issue_mac =>
    LET m == Net!Size(curr_layer - 1) - acts_remaining - 1 IN
    \A l \in 1 .. Ctrl!word_sel :
      RamLanes[l] = Weight(curr_layer, Ctrl!reg_sel + l - 1, m)

(* No operation is lost in a collision: a bias addition never takes the     *)
(* adder from a product that leaves the multiplier (mac_if.vh:15-17 says it *)
(* would delete it), at most one writer comes to the register file's port   *)
(* (neunet_accel_mm_register_array.sv:295-299 serves one), and none comes   *)
(* while the registers are cleared for a layer.                             *)
NoOperationLost ==
  /\ Ctrl!issue_add => ~mul_pipe[MulLatency].busy
  /\ ~(mac_o.busy /\ sig_o.busy)
  /\ Ctrl!load_act_flg => ~mac_o.busy /\ ~sig_o.busy
  /\ Ctrl!layer_prep_stb => InFlight = {}

(* No operation, and no store, uses an accumulator that an operation under  *)
(* way is still going to write: the pipes have no forwarding, and read      *)
(* their operands when they are issued (feedforward_controller.sv waits in  *)
(* MAC_WAIT, BIAS_WAIT and SIGMOID_WAIT instead).                           *)
OperandsCurrent == \A op \in InFlight : Operands \cap Targets(op) = {}

(* The program uses the data register, and starts a computation, only while *)
(* the controller leaves the RAM to the slave: the arbiter drops a slave's  *)
(* request without telling it (arbiter.sv:13), and the controller hears     *)
(* START_COMPUTE only in IDLE.                                              *)
SlaveIsHeard ==
  /\ UsesData => ~FfcOwnsRam
  /\ pc = "acc_start" => curr_state = "IDLE"

(* What the controller's theorems assume of its environment: it is started  *)
(* on a programmed configuration only (no empty layer, none of more than 31 *)
(* neurons, every area within the memory), and the registers it works from  *)
(* (wired, not latched: neunet_accel_mm_register_array.sv:270-277) do not   *)
(* change until it is back in IDLE.                                         *)
Env ==
  INSTANCE FeedforwardControllerEnv
    WITH cfg <- Configuration, Configs <- {},
         fetched <- Ctrl!RamRequest(Configuration)

ControllerAssumptions ==
  [][/\ curr_state = "CALC_LAYER_PREP" => Env!Programmed(Configuration)
     /\ Configuration' # Configuration => curr_state = "IDLE" \/ resets' # resets
    ]_systemVars

(* Every test is put where the first was: in_ptr does not move from one     *)
(* inference to the next, although START_INPUT saves whatever the working   *)
(* pointer holds (the READ_OUTPUT at network.c:451 winds it back), and it   *)
(* is the start of a group, which the stores of the controller rely on.     *)
InputAreaStays ==
  [][test > 0 /\ resets' = resets => in_ptr' = in_ptr /\ in_ptr % 4 = 0]_systemVars

(* The program does not poll forever (network.c:443 has no timeout): after  *)
(* each ACC_START, also when a reset comes between, a poll sees the end of  *)
(* a computation.                                                           *)
PollEnds == pc = "poll" ~> pc = "read_output"
============================================================================
