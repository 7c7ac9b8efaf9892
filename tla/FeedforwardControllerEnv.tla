----------------------- MODULE FeedforwardControllerEnv ------------------------
(****************************************************************************)
(* The feed-forward controller in its environment: the register array that  *)
(* holds the addresses and sizes it works from, the pipes that report when  *)
(* they are empty (at any time: nothing here depends on their latency), the *)
(* RAM that shows, in each cycle, the words asked for in the cycle before,  *)
(* and the reset.                                                           *)
(*                                                                          *)
(* The environment starts the controller only when a network is programmed, *)
(* and changes the configuration only while the controller is IDLE; the     *)
(* property ControllerAssumptions of AcceleratorSystem says that the driver *)
(* keeps to that.                                                           *)
(****************************************************************************)
EXTENDS FeedforwardController

CONSTANT Configs  \* the configurations that may be programmed

VARIABLES
  cfg,      \* the registers the controller reads
  fetched   \* the controller's request of the cycle before: what dout shows

envVars == <<vars, cfg, fetched>>

GroupsOf(n) == (n + 3) \div 4

(* A configuration: base addresses of the weights, biases and activations,  *)
(* and layer sizes.                                                         *)
ConfigType ==
  [addr_w1 : Address, addr_b1 : Address, addr_w2 : Address, addr_b2 : Address,
   addr_act : Address, size_l1 : 0 .. RamWords - 1, size_l2 : 0 .. RamWords - 1]

(* A network is programmed: no layer is empty, the neurons of a layer can   *)
(* be counted in five bits, and no area runs over the end of the memory.    *)
Programmed(c) ==
  /\ c \in ConfigType
  /\ c.size_l1 \in 1 .. 31 /\ c.size_l2 \in 1 .. 31
  /\ c.addr_w1 + 4 * (InputSize * GroupsOf(c.size_l1)) + 4 < RamWords
  /\ c.addr_w2 + 4 * (c.size_l1 * GroupsOf(c.size_l2)) + 4 < RamWords
  /\ c.addr_b1 + 4 * GroupsOf(c.size_l1) + 4 < RamWords
  /\ c.addr_b2 + 4 * GroupsOf(c.size_l2) + 4 < RamWords
  /\ c.addr_act + InputSize < RamWords
  /\ c.addr_act + 4 * GroupsOf(c.size_l1) < RamWords
  /\ c.addr_act + 4 * GroupsOf(c.size_l2) < RamWords

ASSUME ConfigsAssumption == \A c \in Configs : Programmed(c)

Unprogrammed ==
  [addr_w1 |-> 0, addr_b1 |-> 0, addr_w2 |-> 0, addr_b2 |-> 0, addr_act |-> 0,
   size_l1 |-> 0, size_l2 |-> 0]

EnvInit ==
  /\ Init
  /\ cfg = Unprogrammed
  /\ fetched = NoRequest

(* The processor reprograms the register array.                             *)
Configure ==
  /\ Idle(FALSE)
  /\ cfg' \in Configs
  /\ fetched' = NoRequest

(* A clock edge that leaves the configuration alone.                        *)
Clock(action) ==
  /\ action
  /\ fetched' = RamRequest(cfg)
  /\ cfg' = cfg

ResetAll ==
  /\ Reset
  /\ cfg' = Unprogrammed
  /\ fetched' = NoRequest

EnvNext ==
  \/ Configure
  \/ ResetAll
  \/ Clock(cfg \in Configs /\ Idle(TRUE))
  \/ Clock(Idle(FALSE))
  \/ Clock(CalcLayerPrep(cfg))
  \/ Clock(LoadAct)
  \/ Clock(MacIssue)
  \/ \E clear \in BOOLEAN : Clock(MacWait(clear))
  \/ Clock(BiasPrep)
  \/ Clock(BiasIssue)
  \/ \E clear \in BOOLEAN : Clock(BiasWait(clear))
  \/ Clock(SigmoidPrep)
  \/ Clock(SigmoidIssue)
  \/ \E clear \in BOOLEAN : Clock(SigmoidWait(clear))
  \/ Clock(StorePrep(cfg))
  \/ Clock(StoreOutput)
  \/ Clock(LayerDone)
  \/ Clock(Done)

EnvSpec == EnvInit /\ [][EnvNext]_envVars
----------------------------------------------------------------------------
(* The running layer, as the configuration describes it.                    *)
Inputs == IF curr_layer = 1 THEN InputSize ELSE cfg.size_l1
Neurons == IF curr_layer = 1 THEN cfg.size_l1 ELSE cfg.size_l2
WeightBase == IF curr_layer = 1 THEN cfg.addr_w1 ELSE cfg.addr_w2
BiasBase == IF curr_layer = 1 THEN cfg.addr_b1 ELSE cfg.addr_b2

(* The activations loaded so far and the neurons issued so far in the pass. *)
Loaded == Inputs - acts_remaining
Issued == curr_layer_size - pending_issues

(* Every register stays within its width, and outside IDLE the controller   *)
(* works on a programmed configuration.                                     *)
TypeOK ==
  /\ curr_state \in States
  /\ curr_layer_size \in 0 .. 31
  /\ nlayers \in {0, 2}
  /\ curr_layer \in 0 .. 3
  /\ pending_issues \in 0 .. curr_layer_size
  /\ acts_remaining \in 0 .. RamWords - 1
  /\ curr_addr_w \in Address
  /\ curr_addr_a \in Address
  /\ curr_addr_b \in Address
  /\ bias_base_addr \in Address
  /\ cfg \in Configs \cup {Unprogrammed}
  /\ curr_state # "IDLE" => cfg \in Configs
  /\ fetched \in [ren : BOOLEAN, wen : BOOLEAN, four : BOOLEAN, addr : Address]

(* The weights on the multipliers belong to the activation and the neurons  *)
(* being issued: when MACs are issued (MAC_ISSUE), the group the RAM shows  *)
(* is that of the activation loaded last and of the group of reg_sel, in    *)
(* rows of one group of four words per four neurons.  The address was given *)
(* a cycle earlier, by LOAD_ACT or by the issue before.                     *)
WeightsInStep ==
  curr_state = "MAC_ISSUE" =>
    /\ Issued % 4 = 0
    /\ fetched = Read(4, WeightBase + 4 * ((Loaded - 1) * GroupsOf(Neurons)
                                           + Issued \div 4))

(* The activation latched by LOAD_ACT is the next one of the layer, fetched *)
(* by CALC_LAYER_PREP for the first one and by MAC_WAIT for the others.     *)
ActivationInStep ==
  curr_state = "LOAD_ACT" =>
    /\ Loaded < Inputs
    /\ fetched = Read(1, cfg.addr_act + Loaded)

(* The biases on the adders are those of the neurons being issued, and they *)
(* come after the last activation of the layer.                             *)
BiasesInStep ==
  curr_state = "BIAS_ISSUE" =>
    /\ Loaded = Inputs
    /\ fetched = Read(4, BiasBase + Issued)

(* A store writes the group of neurons at reg_sel to the same place of the  *)
(* activation area, and no store goes past the last group of the layer.     *)
StoresInPlace ==
  curr_state = "STORE_OUTPUT" =>
    /\ RamRequest(cfg) = Write(4, cfg.addr_act + Issued)
    /\ Issued < Neurons
----------------------------------------------------------------------------
(* The inductive invariant behind the properties above: what each register  *)
(* holds in each state of the machine.                                      *)

Issuing ==
  curr_state \in {"MAC_ISSUE", "BIAS_ISSUE", "SIGMOID_ISSUE", "STORE_OUTPUT"}
InLayer == curr_state \notin {"IDLE", "CALC_LAYER_PREP", "DONE"}
Accumulating == curr_state \in {"LOAD_ACT", "MAC_ISSUE", "MAC_WAIT"}

(* The layer registers describe the running layer of the configuration.     *)
LayerLoaded ==
  /\ curr_state \notin {"IDLE", "DONE"} => nlayers = 2 /\ curr_layer \in 1 .. 2
  /\ InLayer => /\ curr_layer_size = Neurons
                /\ bias_base_addr = BiasBase

(* A pass over the neurons is under way exactly in the four issue states,   *)
(* and stands at the start of a group.                                      *)
PassUnderWay ==
  IF Issuing THEN pending_issues > 0 /\ Issued % 4 = 0 ELSE pending_issues = 0

(* The pointers of the accumulation loop: at the next activation, and at    *)
(* the weights that the next read is to fetch.                              *)
LoopPointers ==
  /\ Accumulating =>
       /\ acts_remaining <= Inputs
       /\ curr_addr_a = cfg.addr_act + Loaded
       /\ curr_addr_w =
            WeightBase + 4 * (IF curr_state = "MAC_ISSUE"
                              THEN (Loaded - 1) * GroupsOf(Neurons)
                                   + Issued \div 4 + 1
                              ELSE Loaded * GroupsOf(Neurons))
  /\ curr_state = "LOAD_ACT" => acts_remaining > 0
  /\ curr_state \in {"MAC_ISSUE", "MAC_WAIT"} => Loaded > 0
  /\ InLayer /\ ~Accumulating => acts_remaining = 0
  /\ curr_state = "BIAS_ISSUE" => curr_addr_b = BiasBase + Issued + 4
  /\ curr_state = "STORE_OUTPUT" => curr_addr_a = cfg.addr_act + Issued

(* The invariant: with the types and the operands in step, it is preserved  *)
(* by every step of the controller and of its environment.                  *)
ControllerInv ==
  /\ TypeOK
  /\ LayerLoaded
  /\ PassUnderWay
  /\ LoopPointers
  /\ WeightsInStep
  /\ ActivationInStep
  /\ BiasesInStep
----------------------------------------------------------------------------
(* The cursor of the layer schedule, read off the registers.                *)
SchedPhase ==
  CASE curr_state = "IDLE" -> "idle"
    [] curr_state \in {"CALC_LAYER_PREP", "LOAD_ACT", "MAC_ISSUE"} -> "mac"
    [] curr_state = "MAC_WAIT" -> IF acts_remaining = 0 THEN "bias" ELSE "mac"
    [] curr_state \in {"BIAS_PREP", "BIAS_ISSUE"} -> "bias"
    [] curr_state \in {"BIAS_WAIT", "SIGMOID_PREP", "SIGMOID_ISSUE"} -> "sigmoid"
    [] curr_state \in {"SIGMOID_WAIT", "STORE_PREP", "STORE_OUTPUT"} -> "store"
    [] curr_state = "LAYER_DONE" -> IF layers_pending THEN "mac" ELSE "done"
    [] curr_state = "DONE" -> "done"

SchedLayer ==
  CASE curr_state = "LAYER_DONE" -> IF layers_pending THEN curr_layer + 1 ELSE 1
    [] curr_state \in {"IDLE", "DONE"} -> 1
    [] OTHER -> curr_layer

SchedAct ==
  CASE curr_state = "LOAD_ACT" -> Loaded
    [] curr_state = "MAC_ISSUE" -> Loaded - 1
    [] curr_state = "MAC_WAIT" -> IF acts_remaining = 0 THEN 0 ELSE Loaded
    [] OTHER -> 0

SchedGroup ==
  IF curr_state \in {"MAC_ISSUE", "BIAS_ISSUE", "SIGMOID_ISSUE", "STORE_OUTPUT"}
  THEN Issued \div 4 ELSE 0

Schedule ==
  INSTANCE LayerSchedule
    WITH phase <- SchedPhase, layer <- SchedLayer, act <- SchedAct,
         group <- SchedGroup,
         net <- [hidden |-> cfg.size_l1, output |-> cfg.size_l2]

(* The controller issues the work of an inference in the order that         *)
(* LayerSchedule states: each step of the machine issues the next unit of   *)
(* work or none, for whatever time the pipes take.                          *)
ImplementsLayerSchedule == Schedule!Spec
============================================================================
