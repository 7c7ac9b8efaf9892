---------------------- MODULE FeedforwardControllerProofs ----------------------
(****************************************************************************)
(* Proofs about the feed-forward controller, for every size of the input    *)
(* layer, every memory size and every set of programmed configurations.     *)
(****************************************************************************)
EXTENDS FeedforwardControllerEnv, TLAPS

(* Arithmetic.                                                              *)

(* A register holds what fits in it.                                        *)
LEMMA WidthLemma ==
  /\ \A n \in 0 .. RamWords - 1 : U16(n) = n
  /\ \A n \in 0 .. 31 : U5(n) = n
  /\ \A n \in 0 .. 7 : U3(n) = n
BY RamWordsAssumption DEF U16, U5, U3

(* The groups of four that hold n neurons.                                  *)
LEMMA GroupsLemma ==
  ASSUME NEW n \in 1 .. 31
  PROVE  /\ GroupsOf(n) \in 1 .. 8
         /\ n <= 4 * GroupsOf(n)
         /\ 4 * GroupsOf(n) <= n + 3
BY DEF GroupsOf

(* Rows of the same length: the i-th row ends where the next one begins,    *)
(* and no row ends after the last.                                          *)
LEMMA RowsLemma ==
  ASSUME NEW i \in Nat, NEW k \in Nat, NEW g \in Nat, i < k
  PROVE  /\ i * g \in Nat
         /\ k * g \in Nat
         /\ (i + 1) * g = i * g + g
         /\ i * g + g <= k * g
<1>1. i * g \in Nat /\ k * g \in Nat
  OBVIOUS
<1>2. (i + 1) * g = i * g + g
  OBVIOUS
<1>3. PICK d \in Nat : k = i + 1 + d
  <2>1. k - i - 1 \in Nat
    OBVIOUS
  <2> QED
    BY <2>1
<1>4. k * g = (i + 1) * g + d * g
  BY <1>3
<1>5. d * g \in Nat
  OBVIOUS
<1> QED
  BY <1>1, <1>2, <1>4, <1>5

(* A group of a pass that is under way: the lanes that are used, and what   *)
(* is left of the pass after it.                                            *)
LEMMA PassLemma ==
  ASSUME NEW size \in 1 .. 31, NEW pending \in 1 .. size,
         (size - pending) % 4 = 0
  PROVE  LET lanes == IF pending >= 4 THEN 4 ELSE pending
             left == pending - lanes
         IN /\ lanes \in 1 .. 4
            /\ left \in 0 .. size
            /\ left # 0 => /\ (size - left) % 4 = 0
                           /\ (size - left) = (size - pending) + 4
                           /\ (size - left) \div 4 = (size - pending) \div 4 + 1
            /\ left = 0 => GroupsOf(size) = (size - pending) \div 4 + 1
            /\ (size - pending) \div 4 \in 0 .. GroupsOf(size) - 1
            /\ 4 * ((size - pending) \div 4) = size - pending
BY DEF GroupsOf

(* What a programmed configuration says of the running layer.               *)
LEMMA RunningLayer ==
  ASSUME cfg \in Configs, curr_layer \in 1 .. 2
  PROVE  /\ Neurons \in 1 .. 31
         /\ Inputs \in Nat /\ Inputs > 0 /\ Inputs < RamWords
         /\ GroupsOf(Neurons) \in 1 .. 8
         /\ Inputs * GroupsOf(Neurons) \in Nat
         /\ WeightBase \in Address
         /\ BiasBase \in Address
         /\ cfg.addr_act \in Address
         /\ WeightBase + 4 * (Inputs * GroupsOf(Neurons)) + 4 < RamWords
         /\ BiasBase + 4 * GroupsOf(Neurons) + 4 < RamWords
         /\ cfg.addr_act + Inputs < RamWords
         /\ cfg.addr_act + 4 * GroupsOf(Neurons) < RamWords
<1>1. Programmed(cfg)
  BY ConfigsAssumption
<1>2. /\ cfg.addr_w1 \in Address /\ cfg.addr_w2 \in Address
      /\ cfg.addr_b1 \in Address /\ cfg.addr_b2 \in Address
      /\ cfg.addr_act \in Address
      /\ cfg.size_l1 \in 1 .. 31 /\ cfg.size_l2 \in 1 .. 31
  BY <1>1 DEF Programmed, ConfigType
<1>3. /\ GroupsOf(cfg.size_l1) \in 1 .. 8 /\ GroupsOf(cfg.size_l2) \in 1 .. 8
      /\ cfg.size_l1 <= 4 * GroupsOf(cfg.size_l1)
  BY <1>2, GroupsLemma
<1>4. CASE curr_layer = 1
  <2>1. InputSize * GroupsOf(cfg.size_l1) \in Nat
    BY <1>3, InputSizeAssumption
  <2> QED
    BY <1>1, <1>2, <1>3, <1>4, <2>1, InputSizeAssumption, RamWordsAssumption
    DEF Programmed, Neurons, Inputs, WeightBase, BiasBase, Address
<1>5. CASE curr_layer = 2
  <2>1. cfg.size_l1 * GroupsOf(cfg.size_l2) \in Nat
    BY <1>2, <1>3
  <2> QED
    BY <1>1, <1>2, <1>3, <1>5, <2>1, RamWordsAssumption
    DEF Programmed, Neurons, Inputs, WeightBase, BiasBase, Address
<1> QED
  BY <1>4, <1>5
----------------------------------------------------------------------------
(* The initial states, and a reset, satisfy the invariant.                  *)
LEMMA InitInv == EnvInit => ControllerInv
BY RamWordsAssumption
DEF EnvInit, Init, ControllerInv, TypeOK, LayerLoaded, PassUnderWay,
    LoopPointers, WeightsInStep, ActivationInStep, BiasesInStep, Issuing,
    InLayer, Accumulating, States, Address, NoRequest

LEMMA ResetInv ==
  ASSUME Reset, cfg' \in Configs \cup {Unprogrammed},
         fetched' \in [ren : BOOLEAN, wen : BOOLEAN, four : BOOLEAN, addr : Address]
  PROVE  ControllerInv'
BY RamWordsAssumption
DEF Reset, ControllerInv, TypeOK, LayerLoaded, PassUnderWay,
    LoopPointers, WeightsInStep, ActivationInStep, BiasesInStep, Issuing,
    InLayer, Accumulating, States, Address

(* Every request carries an address of the memory.                          *)
LEMMA RequestType ==
  ASSUME ControllerInv
  PROVE  RamRequest(cfg) \in
           [ren : BOOLEAN, wen : BOOLEAN, four : BOOLEAN, addr : Address]
<1>1. curr_state # "IDLE" => cfg.addr_act \in Address
  BY ConfigsAssumption DEF ControllerInv, TypeOK, Programmed, ConfigType
<1>2. 0 \in Address
  BY RamWordsAssumption DEF Address
<1> QED
  BY <1>1, <1>2
  DEF ControllerInv, TypeOK, RamRequest, Read, Write, NoRequest

(* A clock edge that leaves the configuration alone: the RAM's registers   *)
(* remember some request, and the controller's whenever it uses the words.  *)
Requests == [ren : BOOLEAN, wen : BOOLEAN, four : BOOLEAN, addr : Address]
Edge(action) ==
  /\ action
  /\ cfg' = cfg
  /\ fetched' \in Requests
  /\ curr_state' \in {"LOAD_ACT", "MAC_ISSUE", "BIAS_ISSUE"} =>
       fetched' = RamRequest(cfg)

(* The steps that start an inference, or wait for one, or end one.          *)
LEMMA IdleInv ==
  ASSUME ControllerInv, NEW start \in BOOLEAN, Idle(start),
         start => cfg' \in Configs,
         cfg' \in Configs \cup {Unprogrammed},
         fetched' \in [ren : BOOLEAN, wen : BOOLEAN, four : BOOLEAN, addr : Address]
  PROVE  ControllerInv'
BY DEF Idle, ControllerInv, TypeOK, LayerLoaded, PassUnderWay, LoopPointers,
       WeightsInStep, ActivationInStep, BiasesInStep, Issuing, InLayer,
       Accumulating, States, pointers

LEMMA LayerDoneInv ==
  ASSUME ControllerInv, Edge(LayerDone)
  PROVE  ControllerInv'
<1>1. fetched' \in [ren : BOOLEAN, wen : BOOLEAN, four : BOOLEAN, addr : Address]
  BY DEF Edge, Requests
<1> QED
  BY <1>1, WidthLemma
  DEF Edge, LayerDone, ControllerInv, TypeOK, LayerLoaded, PassUnderWay,
      LoopPointers, WeightsInStep, ActivationInStep, BiasesInStep, Issuing,
      InLayer, Accumulating, States, pointers, layers_pending

LEMMA DoneInv ==
  ASSUME ControllerInv, Edge(Done)
  PROVE  ControllerInv'
<1>1. fetched' \in [ren : BOOLEAN, wen : BOOLEAN, four : BOOLEAN, addr : Address]
  BY DEF Edge, Requests
<1> QED
  BY <1>1
  DEF Edge, Done, ControllerInv, TypeOK, LayerLoaded, PassUnderWay,
      LoopPointers, WeightsInStep, ActivationInStep, BiasesInStep, Issuing,
      InLayer, Accumulating, States, pointers
----------------------------------------------------------------------------
(* The steps of a layer.                                                    *)

(* What the invariant says while a layer runs.                              *)
LEMMA LayerFacts ==
  ASSUME ControllerInv, InLayer
  PROVE  /\ cfg \in Configs
         /\ curr_layer \in 1 .. 2
         /\ nlayers = 2
         /\ curr_layer_size = Neurons
         /\ bias_base_addr = BiasBase
         /\ acts_remaining \in Nat
         /\ pending_issues \in 0 .. curr_layer_size
BY DEF ControllerInv, TypeOK, LayerLoaded, InLayer

LEMMA CalcLayerPrepInv ==
  ASSUME ControllerInv, Edge(CalcLayerPrep(cfg))
  PROVE  ControllerInv'
<1>1. /\ cfg \in Configs /\ cfg' = cfg
      /\ curr_layer \in 1 .. 2 /\ curr_layer' = curr_layer
      /\ curr_state = "CALC_LAYER_PREP" /\ curr_state' = "LOAD_ACT"
  BY DEF ControllerInv, TypeOK, LayerLoaded, Edge, CalcLayerPrep
<1>2. /\ Neurons' = Neurons /\ Inputs' = Inputs
      /\ WeightBase' = WeightBase /\ BiasBase' = BiasBase
  BY <1>1 DEF Neurons, Inputs, WeightBase, BiasBase
<1>3. /\ curr_layer_size' = Neurons
      /\ acts_remaining' = Inputs
      /\ curr_addr_w' = WeightBase
      /\ bias_base_addr' = BiasBase
      /\ curr_addr_a' = cfg.addr_act
  BY <1>1, RunningLayer, WidthLemma
  DEF Edge, CalcLayerPrep, Neurons, Inputs, WeightBase, BiasBase
<1>4. fetched' = Read(1, cfg.addr_act)
  BY <1>1 DEF Edge, RamRequest
<1>5. Loaded' = 0 /\ 0 * GroupsOf(Neurons) = 0
  BY <1>1, <1>2, <1>3, RunningLayer DEF Loaded
<1>6. TypeOK'
  <2>1. fetched' \in [ren : BOOLEAN, wen : BOOLEAN, four : BOOLEAN, addr : Address]
    BY DEF Edge, Requests
  <2>2. /\ pending_issues' = 0 /\ curr_addr_b' = curr_addr_b
        /\ nlayers' = nlayers
    BY <1>1 DEF ControllerInv, PassUnderWay, Issuing, Edge, CalcLayerPrep
  <2>3. /\ Neurons \in 0 .. 31 /\ Inputs \in 0 .. RamWords - 1
        /\ WeightBase \in Address /\ BiasBase \in Address
        /\ cfg.addr_act \in Address
    BY <1>1, RunningLayer, RamWordsAssumption
  <2> QED
    BY <1>1, <1>3, <2>1, <2>2, <2>3, RamWordsAssumption
    DEF ControllerInv, TypeOK, States
<1>7. LayerLoaded' /\ PassUnderWay'
  BY <1>1, <1>2, <1>3
  DEF ControllerInv, LayerLoaded, PassUnderWay, Issuing, InLayer, Edge,
      CalcLayerPrep
<1>8. LoopPointers'
  BY <1>1, <1>2, <1>3, <1>5, RunningLayer
  DEF LoopPointers, Accumulating, InLayer, Address
<1>9. WeightsInStep' /\ ActivationInStep' /\ BiasesInStep'
  BY <1>1, <1>2, <1>3, <1>4, <1>5, RunningLayer
  DEF WeightsInStep, ActivationInStep, BiasesInStep, Address
<1> QED
  BY <1>6, <1>7, <1>8, <1>9 DEF ControllerInv

LEMMA LoadActInv ==
  ASSUME ControllerInv, Edge(LoadAct)
  PROVE  ControllerInv'
<1> DEFINE g == GroupsOf(Neurons)
<1>1. /\ curr_state = "LOAD_ACT" /\ curr_state' = "MAC_ISSUE"
      /\ cfg' = cfg /\ curr_layer' = curr_layer /\ nlayers' = nlayers
      /\ curr_layer_size' = curr_layer_size
      /\ bias_base_addr' = bias_base_addr
      /\ curr_addr_b' = curr_addr_b
      /\ pending_issues' = curr_layer_size
      /\ acts_remaining' = U16(acts_remaining - 1)
      /\ curr_addr_a' = U16(curr_addr_a + 1)
      /\ curr_addr_w' = U16(curr_addr_w + 4)
      /\ fetched' = Read(4, curr_addr_w)
  BY DEF Edge, LoadAct, RamRequest
<1>2. /\ cfg \in Configs /\ curr_layer \in 1 .. 2 /\ nlayers = 2
      /\ curr_layer_size = Neurons
      /\ bias_base_addr = BiasBase
  BY <1>1, LayerFacts DEF InLayer
<1>3. /\ Neurons' = Neurons /\ Inputs' = Inputs
      /\ WeightBase' = WeightBase /\ BiasBase' = BiasBase
  BY <1>1 DEF Neurons, Inputs, WeightBase, BiasBase
<1>4. /\ Neurons \in 1 .. 31 /\ g \in 1 .. 8
      /\ Inputs \in Nat /\ Inputs < RamWords
      /\ WeightBase \in Nat
      /\ cfg.addr_act \in Nat /\ cfg.addr_act + Inputs < RamWords
      /\ Inputs * g \in Nat
      /\ WeightBase + 4 * (Inputs * g) + 4 < RamWords
  BY <1>2, RunningLayer DEF Address
<1>5. /\ acts_remaining \in 1 .. Inputs
      /\ Loaded = Inputs - acts_remaining
      /\ curr_addr_a = cfg.addr_act + Loaded
      /\ curr_addr_w = WeightBase + 4 * (Loaded * g)
  BY <1>1, <1>4
  DEF ControllerInv, TypeOK, LoopPointers, Accumulating, Loaded
<1>6. Loaded \in Nat /\ Loaded < Inputs
  BY <1>4, <1>5
<1>7. /\ Loaded * g \in Nat
      /\ Loaded * g + g <= Inputs * g
  BY <1>4, <1>6, RowsLemma
<1>8. /\ acts_remaining' = acts_remaining - 1
      /\ curr_addr_a' = cfg.addr_act + Loaded + 1
      /\ curr_addr_w' = WeightBase + 4 * (Loaded * g + 1)
  <2>1. acts_remaining - 1 \in 0 .. RamWords - 1
    BY <1>4, <1>5, RamWordsAssumption
  <2>2. cfg.addr_act + Loaded + 1 \in 0 .. RamWords - 1
    BY <1>4, <1>6, RamWordsAssumption
  <2>3. WeightBase + 4 * (Loaded * g) + 4 \in 0 .. RamWords - 1
    BY <1>4, <1>7, RamWordsAssumption
  <2> QED
    BY <1>1, <1>4, <1>5, <1>7, <2>1, <2>2, <2>3, WidthLemma
<1>9. Loaded' = Loaded + 1 /\ Issued' = 0
  BY <1>1, <1>2, <1>3, <1>4, <1>5, <1>8 DEF Loaded, Issued
<1>10. TypeOK'
  <2>1. /\ curr_addr_a' \in Address /\ curr_addr_w' \in Address
        /\ acts_remaining' \in 0 .. RamWords - 1
    BY <1>4, <1>5, <1>6, <1>7, <1>8, RamWordsAssumption DEF Address
  <2>2. fetched' \in [ren : BOOLEAN, wen : BOOLEAN, four : BOOLEAN, addr : Address]
    BY DEF Edge, Requests
  <2> QED
    BY <1>1, <1>2, <2>1, <2>2 DEF ControllerInv, TypeOK, States
<1>11. LayerLoaded' /\ PassUnderWay'
  BY <1>1, <1>2, <1>3, <1>4, <1>9
  DEF LayerLoaded, PassUnderWay, Issuing, InLayer
<1>12. LoopPointers'
  <2>1. GroupsOf(Neurons)' = g
    BY <1>3 DEF GroupsOf
  <2>2. /\ acts_remaining' <= Inputs'
        /\ curr_addr_a' = (cfg.addr_act + Loaded)'
        /\ Loaded' > 0
    BY <1>1, <1>3, <1>4, <1>5, <1>6, <1>8, <1>9
  <2>3. curr_addr_w' = WeightBase' + 4 * ((Loaded' - 1) * GroupsOf(Neurons)'
                                          + Issued' \div 4 + 1)
    BY <1>3, <1>4, <1>6, <1>7, <1>8, <1>9, <2>1
  <2> QED
    BY <1>1, <2>2, <2>3 DEF LoopPointers, Accumulating, InLayer
<1>13. WeightsInStep' /\ ActivationInStep' /\ BiasesInStep'
  <2>1. GroupsOf(Neurons)' = g
    BY <1>3 DEF GroupsOf
  <2>2. curr_addr_w = WeightBase' + 4 * ((Loaded' - 1) * GroupsOf(Neurons)'
                                         + Issued' \div 4)
    BY <1>3, <1>4, <1>5, <1>6, <1>7, <1>9, <2>1
  <2> QED
    BY <1>1, <1>9, <2>2 DEF WeightsInStep, ActivationInStep, BiasesInStep
<1> QED
  BY <1>10, <1>11, <1>12, <1>13 DEF ControllerInv

LEMMA MacIssueInv ==
  ASSUME ControllerInv, Edge(MacIssue)
  PROVE  ControllerInv'
<1> DEFINE g == GroupsOf(Neurons)
<1> DEFINE group == Issued \div 4
<1>1. /\ curr_state = "MAC_ISSUE"
      /\ cfg' = cfg /\ curr_layer' = curr_layer /\ nlayers' = nlayers
      /\ curr_layer_size' = curr_layer_size
      /\ bias_base_addr' = bias_base_addr
      /\ curr_addr_b' = curr_addr_b
      /\ acts_remaining' = acts_remaining
      /\ curr_addr_a' = curr_addr_a
      /\ pending_issues' = PendingAfter
      /\ curr_state' = "MAC_ISSUE" => fetched' = Read(4, curr_addr_w)
  BY DEF Edge, MacIssue, RamRequest
<1>2. /\ cfg \in Configs /\ curr_layer \in 1 .. 2 /\ nlayers = 2
      /\ curr_layer_size = Neurons
      /\ bias_base_addr = BiasBase
  BY <1>1, LayerFacts DEF InLayer
<1>3. /\ Neurons' = Neurons /\ Inputs' = Inputs /\ Loaded' = Loaded
      /\ WeightBase' = WeightBase /\ BiasBase' = BiasBase
      /\ GroupsOf(Neurons)' = g
  BY <1>1 DEF Neurons, Inputs, WeightBase, BiasBase, Loaded, GroupsOf
<1>4. /\ Neurons \in 1 .. 31 /\ g \in 1 .. 8
      /\ Inputs \in Nat /\ Inputs < RamWords
      /\ WeightBase \in Nat
      /\ Inputs * g \in Nat
      /\ WeightBase + 4 * (Inputs * g) + 4 < RamWords
  BY <1>2, RunningLayer DEF Address
<1>5. /\ acts_remaining \in Nat /\ acts_remaining <= Inputs
      /\ Loaded = Inputs - acts_remaining /\ Loaded > 0
      /\ curr_addr_a = cfg.addr_act + Loaded
      /\ curr_addr_w = WeightBase + 4 * ((Loaded - 1) * g + group + 1)
      /\ pending_issues \in 1 .. Neurons
      /\ Issued = Neurons - pending_issues
      /\ Issued % 4 = 0
  BY <1>1, <1>2, <1>4
  DEF ControllerInv, TypeOK, LoopPointers, Accumulating, Loaded, PassUnderWay,
      Issuing, Issued
<1>6. /\ Loaded - 1 \in Nat /\ Loaded - 1 < Inputs
      /\ (Loaded - 1) * g \in Nat
      /\ Loaded * g = (Loaded - 1) * g + g
      /\ (Loaded - 1) * g + g <= Inputs * g
  <2>1. Loaded - 1 \in Nat /\ Loaded - 1 < Inputs /\ (Loaded - 1) + 1 = Loaded
    BY <1>4, <1>5
  <2> QED
    BY <1>4, <2>1, RowsLemma
<1>7. /\ PendingAfter \in 0 .. Neurons
      /\ PendingAfter # 0 => /\ (Neurons - PendingAfter) % 4 = 0
                             /\ (Neurons - PendingAfter) \div 4 = group + 1
      /\ PendingAfter = 0 => g = group + 1
      /\ group \in 0 .. g - 1
  BY <1>4, <1>5, PassLemma DEF PendingAfter, IssuedLanes
<1>8. Issued' = Neurons - PendingAfter
  BY <1>1, <1>2 DEF Issued
<1>9. CASE PendingAfter # 0
  <2>1. curr_state' = "MAC_ISSUE" /\ curr_addr_w' = U16(curr_addr_w + 4)
    BY <1>9 DEF Edge, MacIssue, issues_remaining
  <2>2. Issued' % 4 = 0 /\ Issued' \div 4 = group + 1
    BY <1>7, <1>8, <1>9
  <2>3. group + 2 \in 1 .. g
    BY <1>4, <2>2, <1>7, <1>8, <1>9, <1>1 DEF GroupsOf
  <2>4. WeightBase + 4 * ((Loaded - 1) * g + group + 2) \in 0 .. RamWords - 1
    BY <1>4, <1>6, <1>7, <2>3, RamWordsAssumption
  <2>5. curr_addr_w' = WeightBase + 4 * ((Loaded - 1) * g + group + 2)
    <3>1. curr_addr_w + 4 = WeightBase + 4 * ((Loaded - 1) * g + group + 2)
      BY <1>4, <1>5, <1>6, <1>7
    <3> QED
      BY <2>1, <2>4, <3>1, WidthLemma
  <2>6. TypeOK'
    <3>1. fetched' \in [ren : BOOLEAN, wen : BOOLEAN, four : BOOLEAN, addr : Address]
      BY DEF Edge, Requests
    <3> QED
      BY <1>1, <1>2, <1>7, <2>1, <2>4, <2>5, <3>1
      DEF ControllerInv, TypeOK, States, Address
  <2>7. LayerLoaded' /\ PassUnderWay'
    BY <1>1, <1>2, <1>3, <1>7, <1>9, <2>1, <2>2
    DEF LayerLoaded, PassUnderWay, Issuing, InLayer
  <2>8. curr_addr_w' = WeightBase' + 4 * ((Loaded' - 1) * GroupsOf(Neurons)'
                                          + Issued' \div 4 + 1)
    BY <1>3, <1>4, <1>6, <1>7, <2>2, <2>5
  <2>9. LoopPointers'
    BY <1>1, <1>3, <1>5, <2>1, <2>8 DEF LoopPointers, Accumulating, InLayer
  <2>10. WeightsInStep' /\ ActivationInStep' /\ BiasesInStep'
    <3>1. curr_addr_w = WeightBase' + 4 * ((Loaded' - 1) * GroupsOf(Neurons)'
                                           + Issued' \div 4)
      BY <1>3, <1>4, <1>5, <1>6, <1>7, <2>2
    <3> QED
      BY <1>1, <2>1, <2>2, <3>1
      DEF WeightsInStep, ActivationInStep, BiasesInStep
  <2> QED
    BY <2>6, <2>7, <2>9, <2>10 DEF ControllerInv
<1>10. CASE PendingAfter = 0
  <2>1. curr_state' = "MAC_WAIT" /\ curr_addr_w' = curr_addr_w
    BY <1>10 DEF Edge, MacIssue, issues_remaining
  <2>2. curr_addr_w' = WeightBase + 4 * (Loaded * g)
    BY <1>4, <1>5, <1>6, <1>7, <1>10, <2>1
  <2>3. TypeOK'
    <3>1. fetched' \in [ren : BOOLEAN, wen : BOOLEAN, four : BOOLEAN, addr : Address]
      BY DEF Edge, Requests
    <3> QED
      BY <1>1, <1>2, <1>7, <2>1, <3>1 DEF ControllerInv, TypeOK, States
  <2>4. LayerLoaded' /\ PassUnderWay'
    BY <1>1, <1>2, <1>3, <1>10, <2>1
    DEF LayerLoaded, PassUnderWay, Issuing, InLayer
  <2>5. LoopPointers'
    BY <1>1, <1>3, <1>5, <2>1, <2>2 DEF LoopPointers, Accumulating, InLayer
  <2>6. WeightsInStep' /\ ActivationInStep' /\ BiasesInStep'
    BY <2>1 DEF WeightsInStep, ActivationInStep, BiasesInStep
  <2> QED
    BY <2>3, <2>4, <2>5, <2>6 DEF ControllerInv
<1> QED
  BY <1>9, <1>10

LEMMA MacWaitInv ==
  ASSUME ControllerInv, NEW clear \in BOOLEAN, Edge(MacWait(clear))
  PROVE  ControllerInv'
<1>1. /\ curr_state = "MAC_WAIT"
      /\ curr_state' \in {"MAC_WAIT", "LOAD_ACT", "BIAS_PREP"}
      /\ curr_state' = "LOAD_ACT" => acts_remaining # 0
      /\ curr_state' = "BIAS_PREP" => acts_remaining = 0
      /\ cfg' = cfg /\ curr_layer' = curr_layer /\ nlayers' = nlayers
      /\ curr_layer_size' = curr_layer_size
      /\ pending_issues' = pending_issues
      /\ acts_remaining' = acts_remaining
      /\ bias_base_addr' = bias_base_addr
      /\ curr_addr_w' = curr_addr_w
      /\ curr_addr_a' = curr_addr_a
      /\ curr_addr_b' = curr_addr_b
      /\ curr_state' = "LOAD_ACT" => fetched' = Read(1, curr_addr_a)
  BY DEF Edge, MacWait, RamRequest, pointers
<1>2. /\ cfg \in Configs /\ curr_layer \in 1 .. 2 /\ nlayers = 2
      /\ curr_layer_size = Neurons
      /\ bias_base_addr = BiasBase
  BY <1>1, LayerFacts DEF InLayer
<1>3. /\ Neurons' = Neurons /\ Inputs' = Inputs /\ Loaded' = Loaded
      /\ WeightBase' = WeightBase /\ BiasBase' = BiasBase
      /\ GroupsOf(Neurons)' = GroupsOf(Neurons)
  BY <1>1 DEF Neurons, Inputs, WeightBase, BiasBase, Loaded, GroupsOf
<1>4. /\ acts_remaining \in Nat /\ acts_remaining <= Inputs
      /\ Inputs \in Nat
      /\ Loaded = Inputs - acts_remaining /\ Loaded > 0
      /\ curr_addr_a = cfg.addr_act + Loaded
      /\ curr_addr_w = WeightBase + 4 * (Loaded * GroupsOf(Neurons))
      /\ pending_issues = 0
  BY <1>1, <1>2, RunningLayer
  DEF ControllerInv, TypeOK, LoopPointers, Accumulating, Loaded, PassUnderWay,
      Issuing
<1>5. TypeOK'
  <2>1. fetched' \in [ren : BOOLEAN, wen : BOOLEAN, four : BOOLEAN, addr : Address]
    BY DEF Edge, Requests
  <2> QED
    BY <1>1, <1>2, <2>1 DEF ControllerInv, TypeOK, States
<1>6. LayerLoaded' /\ PassUnderWay'
  BY <1>1, <1>2, <1>3, <1>4 DEF LayerLoaded, PassUnderWay, Issuing, InLayer
<1>7. LoopPointers'
  BY <1>1, <1>3, <1>4 DEF LoopPointers, Accumulating, InLayer
<1>8. WeightsInStep' /\ ActivationInStep' /\ BiasesInStep'
  BY <1>1, <1>3, <1>4 DEF WeightsInStep, ActivationInStep, BiasesInStep
<1> QED
  BY <1>5, <1>6, <1>7, <1>8 DEF ControllerInv

LEMMA BiasPrepInv ==
  ASSUME ControllerInv, Edge(BiasPrep)
  PROVE  ControllerInv'
<1>1. /\ curr_state = "BIAS_PREP" /\ curr_state' = "BIAS_ISSUE"
      /\ cfg' = cfg /\ curr_layer' = curr_layer /\ nlayers' = nlayers
      /\ curr_layer_size' = curr_layer_size
      /\ pending_issues' = curr_layer_size
      /\ acts_remaining' = acts_remaining
      /\ bias_base_addr' = bias_base_addr
      /\ curr_addr_w' = curr_addr_w
      /\ curr_addr_a' = curr_addr_a
      /\ curr_addr_b' = U16(bias_base_addr + 4)
      /\ fetched' = Read(4, bias_base_addr)
  BY DEF Edge, BiasPrep, RamRequest
<1>2. /\ cfg \in Configs /\ curr_layer \in 1 .. 2 /\ nlayers = 2
      /\ curr_layer_size = Neurons
      /\ bias_base_addr = BiasBase
      /\ acts_remaining = 0
  BY <1>1, LayerFacts
  DEF InLayer, ControllerInv, LoopPointers, Accumulating
<1>3. /\ Neurons' = Neurons /\ Inputs' = Inputs /\ BiasBase' = BiasBase
  BY <1>1 DEF Neurons, Inputs, BiasBase
<1>4. /\ Neurons \in 1 .. 31 /\ Inputs \in Nat /\ BiasBase \in Nat
      /\ BiasBase + 4 \in 0 .. RamWords - 1
  BY <1>2, RunningLayer, RamWordsAssumption DEF Address
<1>5. /\ curr_addr_b' = BiasBase + 4
      /\ Issued' = 0 /\ Loaded' = Inputs'
  BY <1>1, <1>2, <1>3, <1>4, WidthLemma DEF Issued, Loaded
<1>6. TypeOK'
  <2>1. fetched' \in [ren : BOOLEAN, wen : BOOLEAN, four : BOOLEAN, addr : Address]
    BY DEF Edge, Requests
  <2> QED
    BY <1>1, <1>2, <1>4, <1>5, <2>1 DEF ControllerInv, TypeOK, States, Address
<1>7. LayerLoaded' /\ PassUnderWay'
  BY <1>1, <1>2, <1>3, <1>4, <1>5 DEF LayerLoaded, PassUnderWay, Issuing, InLayer
<1>8. LoopPointers'
  BY <1>1, <1>2, <1>3, <1>4, <1>5 DEF LoopPointers, Accumulating, InLayer
<1>9. WeightsInStep' /\ ActivationInStep' /\ BiasesInStep'
  BY <1>1, <1>2, <1>3, <1>4, <1>5
  DEF WeightsInStep, ActivationInStep, BiasesInStep
<1> QED
  BY <1>6, <1>7, <1>8, <1>9 DEF ControllerInv

LEMMA BiasIssueInv ==
  ASSUME ControllerInv, Edge(BiasIssue)
  PROVE  ControllerInv'
<1>1. /\ curr_state = "BIAS_ISSUE"
      /\ curr_state' = IF PendingAfter # 0 THEN "BIAS_ISSUE" ELSE "BIAS_WAIT"
      /\ cfg' = cfg /\ curr_layer' = curr_layer /\ nlayers' = nlayers
      /\ curr_layer_size' = curr_layer_size
      /\ pending_issues' = PendingAfter
      /\ acts_remaining' = acts_remaining
      /\ bias_base_addr' = bias_base_addr
      /\ curr_addr_w' = curr_addr_w
      /\ curr_addr_a' = curr_addr_a
      /\ curr_addr_b' = U16(curr_addr_b + 4)
      /\ curr_state' = "BIAS_ISSUE" => fetched' = Read(4, curr_addr_b)
  BY DEF Edge, BiasIssue, RamRequest, issues_remaining
<1>2. /\ cfg \in Configs /\ curr_layer \in 1 .. 2 /\ nlayers = 2
      /\ curr_layer_size = Neurons
      /\ bias_base_addr = BiasBase
      /\ acts_remaining = 0
      /\ curr_addr_b = BiasBase + Issued + 4
  BY <1>1, LayerFacts
  DEF InLayer, ControllerInv, LoopPointers, Accumulating
<1>3. /\ Neurons' = Neurons /\ Inputs' = Inputs /\ BiasBase' = BiasBase
  BY <1>1 DEF Neurons, Inputs, BiasBase
<1>4. /\ Neurons \in 1 .. 31 /\ Inputs \in Nat /\ BiasBase \in Nat
      /\ GroupsOf(Neurons) \in 1 .. 8
      /\ BiasBase + 4 * GroupsOf(Neurons) + 4 < RamWords
  BY <1>2, RunningLayer DEF Address
<1>5. /\ pending_issues \in 1 .. Neurons
      /\ Issued = Neurons - pending_issues
      /\ Issued % 4 = 0
  BY <1>1, <1>2 DEF ControllerInv, TypeOK, PassUnderWay, Issuing, Issued
<1>6. /\ PendingAfter \in 0 .. Neurons
      /\ PendingAfter # 0 => /\ (Neurons - PendingAfter) % 4 = 0
                             /\ Neurons - PendingAfter = Issued + 4
      /\ Issued + 4 <= 4 * GroupsOf(Neurons)
  BY <1>4, <1>5, PassLemma DEF PendingAfter, IssuedLanes
<1>7. BiasBase + Issued + 8 \in 0 .. RamWords - 1
  BY <1>4, <1>5, <1>6, RamWordsAssumption
<1>8. /\ curr_addr_b' = BiasBase + Issued + 8
      /\ Issued' = Neurons - PendingAfter
      /\ Loaded' = Inputs'
  <2>1. curr_addr_b + 4 = BiasBase + Issued + 8
    BY <1>2, <1>4, <1>5
  <2>2. curr_addr_b' = BiasBase + Issued + 8
    BY <1>1, <1>7, <2>1, WidthLemma
  <2> QED
    BY <1>1, <1>2, <1>3, <1>4, <2>2 DEF Issued, Loaded
<1>9. TypeOK'
  <2>1. fetched' \in [ren : BOOLEAN, wen : BOOLEAN, four : BOOLEAN, addr : Address]
    BY DEF Edge, Requests
  <2> QED
    BY <1>1, <1>2, <1>6, <1>7, <1>8, <2>1
    DEF ControllerInv, TypeOK, States, Address
<1>10. LayerLoaded' /\ PassUnderWay'
  BY <1>1, <1>2, <1>3, <1>6, <1>8 DEF LayerLoaded, PassUnderWay, Issuing, InLayer
<1>11. LoopPointers'
  BY <1>1, <1>2, <1>3, <1>4, <1>5, <1>6, <1>8
  DEF LoopPointers, Accumulating, InLayer
<1>12. WeightsInStep' /\ ActivationInStep' /\ BiasesInStep'
  BY <1>1, <1>2, <1>3, <1>4, <1>5, <1>6, <1>8
  DEF WeightsInStep, ActivationInStep, BiasesInStep
<1> QED
  BY <1>9, <1>10, <1>11, <1>12 DEF ControllerInv

LEMMA BiasWaitInv ==
  ASSUME ControllerInv, NEW clear \in BOOLEAN, Edge(BiasWait(clear))
  PROVE  ControllerInv'
<1>1. /\ curr_state = "BIAS_WAIT"
      /\ curr_state' \in {"BIAS_WAIT", "SIGMOID_PREP"}
      /\ cfg' = cfg /\ curr_layer' = curr_layer /\ nlayers' = nlayers
      /\ curr_layer_size' = curr_layer_size
      /\ pending_issues' = pending_issues
      /\ acts_remaining' = acts_remaining
      /\ bias_base_addr' = bias_base_addr
      /\ curr_addr_w' = curr_addr_w
      /\ curr_addr_a' = curr_addr_a
      /\ curr_addr_b' = curr_addr_b
  BY DEF Edge, BiasWait, pointers
<1>2. /\ cfg \in Configs /\ curr_layer \in 1 .. 2 /\ nlayers = 2
      /\ curr_layer_size = Neurons
      /\ bias_base_addr = BiasBase
      /\ acts_remaining = 0
      /\ pending_issues = 0
  BY <1>1, LayerFacts
  DEF InLayer, ControllerInv, LoopPointers, Accumulating, PassUnderWay, Issuing
<1>3. Neurons' = Neurons /\ BiasBase' = BiasBase
  BY <1>1 DEF Neurons, BiasBase
<1>4. TypeOK'
  <2>1. fetched' \in [ren : BOOLEAN, wen : BOOLEAN, four : BOOLEAN, addr : Address]
    BY DEF Edge, Requests
  <2> QED
    BY <1>1, <1>2, <2>1 DEF ControllerInv, TypeOK, States
<1>5. LayerLoaded' /\ PassUnderWay'
  BY <1>1, <1>2, <1>3 DEF LayerLoaded, PassUnderWay, Issuing, InLayer
<1>6. LoopPointers'
  BY <1>1, <1>2 DEF LoopPointers, Accumulating, InLayer
<1>7. WeightsInStep' /\ ActivationInStep' /\ BiasesInStep'
  BY <1>1 DEF WeightsInStep, ActivationInStep, BiasesInStep
<1> QED
  BY <1>4, <1>5, <1>6, <1>7 DEF ControllerInv

LEMMA SigmoidWaitInv ==
  ASSUME ControllerInv, NEW clear \in BOOLEAN, Edge(SigmoidWait(clear))
  PROVE  ControllerInv'
<1>1. /\ curr_state = "SIGMOID_WAIT"
      /\ curr_state' \in {"SIGMOID_WAIT", "STORE_PREP"}
      /\ cfg' = cfg /\ curr_layer' = curr_layer /\ nlayers' = nlayers
      /\ curr_layer_size' = curr_layer_size
      /\ pending_issues' = pending_issues
      /\ acts_remaining' = acts_remaining
      /\ bias_base_addr' = bias_base_addr
      /\ curr_addr_w' = curr_addr_w
      /\ curr_addr_a' = curr_addr_a
      /\ curr_addr_b' = curr_addr_b
  BY DEF Edge, SigmoidWait, pointers
<1>2. /\ cfg \in Configs /\ curr_layer \in 1 .. 2 /\ nlayers = 2
      /\ curr_layer_size = Neurons
      /\ bias_base_addr = BiasBase
      /\ acts_remaining = 0
      /\ pending_issues = 0
  BY <1>1, LayerFacts
  DEF InLayer, ControllerInv, LoopPointers, Accumulating, PassUnderWay, Issuing
<1>3. Neurons' = Neurons /\ BiasBase' = BiasBase
  BY <1>1 DEF Neurons, BiasBase
<1>4. TypeOK'
  <2>1. fetched' \in [ren : BOOLEAN, wen : BOOLEAN, four : BOOLEAN, addr : Address]
    BY DEF Edge, Requests
  <2> QED
    BY <1>1, <1>2, <2>1 DEF ControllerInv, TypeOK, States
<1>5. LayerLoaded' /\ PassUnderWay'
  BY <1>1, <1>2, <1>3 DEF LayerLoaded, PassUnderWay, Issuing, InLayer
<1>6. LoopPointers'
  BY <1>1, <1>2 DEF LoopPointers, Accumulating, InLayer
<1>7. WeightsInStep' /\ ActivationInStep' /\ BiasesInStep'
  BY <1>1 DEF WeightsInStep, ActivationInStep, BiasesInStep
<1> QED
  BY <1>4, <1>5, <1>6, <1>7 DEF ControllerInv

LEMMA SigmoidPrepInv ==
  ASSUME ControllerInv, Edge(SigmoidPrep)
  PROVE  ControllerInv'
<1>1. /\ curr_state = "SIGMOID_PREP"
      /\ curr_state' = "SIGMOID_ISSUE"
      /\ cfg' = cfg /\ curr_layer' = curr_layer /\ nlayers' = nlayers
      /\ curr_layer_size' = curr_layer_size
      /\ pending_issues' = curr_layer_size
      /\ acts_remaining' = acts_remaining
      /\ bias_base_addr' = bias_base_addr
      /\ curr_addr_w' = curr_addr_w
      /\ curr_addr_a' = curr_addr_a
      /\ curr_addr_b' = curr_addr_b
  BY DEF Edge, SigmoidPrep, pointers
<1>2. /\ cfg \in Configs /\ curr_layer \in 1 .. 2 /\ nlayers = 2
      /\ curr_layer_size = Neurons
      /\ bias_base_addr = BiasBase
      /\ acts_remaining = 0
  BY <1>1, LayerFacts
  DEF InLayer, ControllerInv, LoopPointers, Accumulating
<1>3. Neurons' = Neurons /\ BiasBase' = BiasBase
  BY <1>1 DEF Neurons, BiasBase
<1>4. Neurons \in 1 .. 31 /\ cfg.addr_act \in Address
  BY <1>2, RunningLayer
<1>5. Issued' = 0
  BY <1>1, <1>2, <1>4 DEF Issued
<1>6. TypeOK'
  <2>1. fetched' \in [ren : BOOLEAN, wen : BOOLEAN, four : BOOLEAN, addr : Address]
    BY DEF Edge, Requests
  <2> QED
    BY <1>1, <1>2, <1>4, <2>1 DEF ControllerInv, TypeOK, States
<1>7. LayerLoaded' /\ PassUnderWay'
  BY <1>1, <1>2, <1>3, <1>4, <1>5 DEF LayerLoaded, PassUnderWay, Issuing, InLayer
<1>8. LoopPointers'
  BY <1>1, <1>2, <1>4, <1>5 DEF LoopPointers, Accumulating, InLayer, Address
<1>9. WeightsInStep' /\ ActivationInStep' /\ BiasesInStep'
  BY <1>1 DEF WeightsInStep, ActivationInStep, BiasesInStep
<1> QED
  BY <1>6, <1>7, <1>8, <1>9 DEF ControllerInv

LEMMA SigmoidIssueInv ==
  ASSUME ControllerInv, Edge(SigmoidIssue)
  PROVE  ControllerInv'
<1>1. /\ curr_state = "SIGMOID_ISSUE"
      /\ curr_state' = IF PendingAfter # 0 THEN "SIGMOID_ISSUE" ELSE "SIGMOID_WAIT"
      /\ cfg' = cfg /\ curr_layer' = curr_layer /\ nlayers' = nlayers
      /\ curr_layer_size' = curr_layer_size
      /\ pending_issues' = PendingAfter
      /\ acts_remaining' = acts_remaining
      /\ bias_base_addr' = bias_base_addr
      /\ curr_addr_w' = curr_addr_w
      /\ curr_addr_a' = curr_addr_a
      /\ curr_addr_b' = curr_addr_b
  BY DEF Edge, SigmoidIssue, pointers, issues_remaining
<1>2. /\ cfg \in Configs /\ curr_layer \in 1 .. 2 /\ nlayers = 2
      /\ curr_layer_size = Neurons
      /\ bias_base_addr = BiasBase
      /\ acts_remaining = 0
  BY <1>1, LayerFacts
  DEF InLayer, ControllerInv, LoopPointers, Accumulating
<1>3. Neurons' = Neurons /\ BiasBase' = BiasBase
  BY <1>1 DEF Neurons, BiasBase
<1>4. /\ Neurons \in 1 .. 31
  BY <1>2, RunningLayer
<1>5. /\ pending_issues \in 1 .. Neurons
      /\ Issued = Neurons - pending_issues
      /\ Issued % 4 = 0
  BY <1>1, <1>2 DEF ControllerInv, TypeOK, PassUnderWay, Issuing, Issued
<1>6. /\ PendingAfter \in 0 .. Neurons
      /\ PendingAfter # 0 => /\ (Neurons - PendingAfter) % 4 = 0
                             /\ Neurons - PendingAfter = Issued + 4
  BY <1>4, <1>5, PassLemma DEF PendingAfter, IssuedLanes
<1>7. Issued' = Neurons - PendingAfter
  BY <1>1, <1>2 DEF Issued
<1>8. curr_addr_a' \in Address
  BY <1>1 DEF ControllerInv, TypeOK
<1>9. TypeOK'
  <2>1. fetched' \in [ren : BOOLEAN, wen : BOOLEAN, four : BOOLEAN, addr : Address]
    BY DEF Edge, Requests
  <2> QED
    BY <1>1, <1>2, <1>6, <1>8, <2>1 DEF ControllerInv, TypeOK, States
<1>10. LayerLoaded' /\ PassUnderWay'
  BY <1>1, <1>2, <1>3, <1>6, <1>7 DEF LayerLoaded, PassUnderWay, Issuing, InLayer
<1>11. LoopPointers'
  BY <1>1, <1>2, <1>4, <1>5, <1>6, <1>7, <1>8
  DEF LoopPointers, Accumulating, InLayer
<1>12. WeightsInStep' /\ ActivationInStep' /\ BiasesInStep'
  BY <1>1 DEF WeightsInStep, ActivationInStep, BiasesInStep
<1> QED
  BY <1>9, <1>10, <1>11, <1>12 DEF ControllerInv

LEMMA StorePrepInv ==
  ASSUME ControllerInv, Edge(StorePrep(cfg))
  PROVE  ControllerInv'
<1>1. /\ curr_state = "STORE_PREP"
      /\ curr_state' = "STORE_OUTPUT"
      /\ cfg' = cfg /\ curr_layer' = curr_layer /\ nlayers' = nlayers
      /\ curr_layer_size' = curr_layer_size
      /\ pending_issues' = curr_layer_size
      /\ acts_remaining' = acts_remaining
      /\ bias_base_addr' = bias_base_addr
      /\ curr_addr_w' = curr_addr_w
      /\ curr_addr_a' = cfg.addr_act
      /\ curr_addr_b' = curr_addr_b
  BY DEF Edge, StorePrep
<1>2. /\ cfg \in Configs /\ curr_layer \in 1 .. 2 /\ nlayers = 2
      /\ curr_layer_size = Neurons
      /\ bias_base_addr = BiasBase
      /\ acts_remaining = 0
  BY <1>1, LayerFacts
  DEF InLayer, ControllerInv, LoopPointers, Accumulating
<1>3. Neurons' = Neurons /\ BiasBase' = BiasBase
  BY <1>1 DEF Neurons, BiasBase
<1>4. Neurons \in 1 .. 31 /\ cfg.addr_act \in Address
  BY <1>2, RunningLayer
<1>5. Issued' = 0
  BY <1>1, <1>2, <1>4 DEF Issued
<1>6. TypeOK'
  <2>1. fetched' \in [ren : BOOLEAN, wen : BOOLEAN, four : BOOLEAN, addr : Address]
    BY DEF Edge, Requests
  <2> QED
    BY <1>1, <1>2, <1>4, <2>1 DEF ControllerInv, TypeOK, States
<1>7. LayerLoaded' /\ PassUnderWay'
  BY <1>1, <1>2, <1>3, <1>4, <1>5 DEF LayerLoaded, PassUnderWay, Issuing, InLayer
<1>8. LoopPointers'
  BY <1>1, <1>2, <1>4, <1>5 DEF LoopPointers, Accumulating, InLayer, Address
<1>9. WeightsInStep' /\ ActivationInStep' /\ BiasesInStep'
  BY <1>1 DEF WeightsInStep, ActivationInStep, BiasesInStep
<1> QED
  BY <1>6, <1>7, <1>8, <1>9 DEF ControllerInv

LEMMA StoreOutputInv ==
  ASSUME ControllerInv, Edge(StoreOutput)
  PROVE  ControllerInv'
<1>1. /\ curr_state = "STORE_OUTPUT"
      /\ curr_state' = IF PendingAfter # 0 THEN "STORE_OUTPUT" ELSE "LAYER_DONE"
      /\ cfg' = cfg /\ curr_layer' = curr_layer /\ nlayers' = nlayers
      /\ curr_layer_size' = curr_layer_size
      /\ pending_issues' = PendingAfter
      /\ acts_remaining' = acts_remaining
      /\ bias_base_addr' = bias_base_addr
      /\ curr_addr_w' = curr_addr_w
      /\ curr_addr_a' = U16(curr_addr_a + 4)
      /\ curr_addr_b' = curr_addr_b
  BY DEF Edge, StoreOutput, issues_remaining
<1>2. /\ cfg \in Configs /\ curr_layer \in 1 .. 2 /\ nlayers = 2
      /\ curr_layer_size = Neurons
      /\ bias_base_addr = BiasBase
      /\ acts_remaining = 0
      /\ curr_addr_a = cfg.addr_act + Issued
  BY <1>1, LayerFacts
  DEF InLayer, ControllerInv, LoopPointers, Accumulating
<1>3. Neurons' = Neurons /\ BiasBase' = BiasBase
  BY <1>1 DEF Neurons, BiasBase
<1>4. /\ Neurons \in 1 .. 31
      /\ GroupsOf(Neurons) \in 1 .. 8
      /\ cfg.addr_act \in Nat
      /\ cfg.addr_act + 4 * GroupsOf(Neurons) < RamWords
  BY <1>2, RunningLayer DEF Address
<1>5. /\ pending_issues \in 1 .. Neurons
      /\ Issued = Neurons - pending_issues
      /\ Issued % 4 = 0
  BY <1>1, <1>2 DEF ControllerInv, TypeOK, PassUnderWay, Issuing, Issued
<1>6. /\ PendingAfter \in 0 .. Neurons
      /\ PendingAfter # 0 => /\ (Neurons - PendingAfter) % 4 = 0
                             /\ Neurons - PendingAfter = Issued + 4
      /\ Issued + 4 <= 4 * GroupsOf(Neurons)
  BY <1>4, <1>5, PassLemma DEF PendingAfter, IssuedLanes
<1>7. Issued' = Neurons - PendingAfter
  BY <1>1, <1>2 DEF Issued
<1>8. curr_addr_a' = cfg.addr_act + Issued + 4 /\ curr_addr_a' \in Address
  <2>1. cfg.addr_act + Issued + 4 \in 0 .. RamWords - 1
    BY <1>4, <1>5, <1>6, RamWordsAssumption
  <2>2. curr_addr_a + 4 = cfg.addr_act + Issued + 4
    BY <1>2, <1>4, <1>5
  <2> QED
    BY <1>1, <2>1, <2>2, WidthLemma DEF Address
<1>9. TypeOK'
  <2>1. fetched' \in [ren : BOOLEAN, wen : BOOLEAN, four : BOOLEAN, addr : Address]
    BY DEF Edge, Requests
  <2> QED
    BY <1>1, <1>2, <1>6, <1>8, <2>1 DEF ControllerInv, TypeOK, States
<1>10. LayerLoaded' /\ PassUnderWay'
  BY <1>1, <1>2, <1>3, <1>6, <1>7 DEF LayerLoaded, PassUnderWay, Issuing, InLayer
<1>11. LoopPointers'
  BY <1>1, <1>2, <1>4, <1>5, <1>6, <1>7, <1>8
  DEF LoopPointers, Accumulating, InLayer
<1>12. WeightsInStep' /\ ActivationInStep' /\ BiasesInStep'
  BY <1>1 DEF WeightsInStep, ActivationInStep, BiasesInStep
<1> QED
  BY <1>9, <1>10, <1>11, <1>12 DEF ControllerInv
----------------------------------------------------------------------------
(* Every step of the controller and of its environment keeps the invariant. *)
LEMMA NextInv == ControllerInv /\ [EnvNext]_envVars => ControllerInv'
<1> SUFFICES ASSUME ControllerInv, [EnvNext]_envVars
             PROVE  ControllerInv'
  OBVIOUS
<1>1. CASE Configure
  <2>1. NoRequest \in [ren : BOOLEAN, wen : BOOLEAN, four : BOOLEAN, addr : Address]
    BY RamWordsAssumption DEF NoRequest, Address
  <2> QED
    BY <1>1, <2>1, IdleInv DEF Configure
<1>2. CASE ResetAll
  <2>1. NoRequest \in [ren : BOOLEAN, wen : BOOLEAN, four : BOOLEAN, addr : Address]
    BY RamWordsAssumption DEF NoRequest, Address
  <2> QED
    BY <1>2, <2>1, ResetInv DEF ResetAll
<1>3. CASE Clock(cfg \in Configs /\ Idle(TRUE))
  BY <1>3, IdleInv, RequestType DEF Clock
<1>4. CASE Clock(Idle(FALSE))
  BY <1>4, IdleInv, RequestType DEF Clock, ControllerInv, TypeOK
<1>5. CASE Clock(CalcLayerPrep(cfg))
  BY <1>5, RequestType, CalcLayerPrepInv DEF Clock, Edge, Requests
<1>6. CASE Clock(LoadAct)
  BY <1>6, RequestType, LoadActInv DEF Clock, Edge, Requests
<1>7. CASE Clock(MacIssue)
  BY <1>7, RequestType, MacIssueInv DEF Clock, Edge, Requests
<1>8. CASE \E clear \in BOOLEAN : Clock(MacWait(clear))
  BY <1>8, RequestType, MacWaitInv DEF Clock, Edge, Requests
<1>9. CASE Clock(BiasPrep)
  BY <1>9, RequestType, BiasPrepInv DEF Clock, Edge, Requests
<1>10. CASE Clock(BiasIssue)
  BY <1>10, RequestType, BiasIssueInv DEF Clock, Edge, Requests
<1>11. CASE \E clear \in BOOLEAN : Clock(BiasWait(clear))
  BY <1>11, RequestType, BiasWaitInv DEF Clock, Edge, Requests
<1>12. CASE Clock(SigmoidPrep)
  BY <1>12, RequestType, SigmoidPrepInv DEF Clock, Edge, Requests
<1>13. CASE Clock(SigmoidIssue)
  BY <1>13, RequestType, SigmoidIssueInv DEF Clock, Edge, Requests
<1>14. CASE \E clear \in BOOLEAN : Clock(SigmoidWait(clear))
  BY <1>14, RequestType, SigmoidWaitInv DEF Clock, Edge, Requests
<1>15. CASE Clock(StorePrep(cfg))
  BY <1>15, RequestType, StorePrepInv DEF Clock, Edge, Requests
<1>16. CASE Clock(StoreOutput)
  BY <1>16, RequestType, StoreOutputInv DEF Clock, Edge, Requests
<1>17. CASE Clock(LayerDone)
  BY <1>17, RequestType, LayerDoneInv DEF Clock, Edge, Requests
<1>18. CASE Clock(Done)
  BY <1>18, RequestType, DoneInv DEF Clock, Edge, Requests
<1>19. CASE UNCHANGED envVars
  BY <1>19
  DEF envVars, vars, ControllerInv, TypeOK, LayerLoaded, PassUnderWay,
      LoopPointers, WeightsInStep, ActivationInStep, BiasesInStep, Issuing,
      InLayer, Accumulating, Neurons, Inputs, WeightBase, BiasBase, Loaded,
      Issued, GroupsOf
<1> QED
  BY <1>1, <1>2, <1>3, <1>4, <1>5, <1>6, <1>7, <1>8, <1>9, <1>10, <1>11,
     <1>12, <1>13, <1>14, <1>15, <1>16, <1>17, <1>18, <1>19
  DEF EnvNext

(* The invariant of the controller: in every reachable state each register  *)
(* holds what the loops of the inference require.                           *)
THEOREM ControllerInvariant == EnvSpec => []ControllerInv
BY InitInv, NextInv, PTL DEF EnvSpec

(* The registers stay within their widths, and the controller only works on *)
(* a programmed configuration.                                              *)
THEOREM TypeCorrect == EnvSpec => []TypeOK
BY ControllerInvariant, PTL DEF ControllerInv

(* The word the RAM shows is the operand of what is issued: the weights, the*)
(* activation and the biases are always in step with the issue.             *)
THEOREM OperandsInStep == EnvSpec => []WeightsInStep
BY ControllerInvariant, PTL DEF ControllerInv

(* LOAD_ACT loads the activation that the pass is for.                      *)
THEOREM ActivationsInStep == EnvSpec => []ActivationInStep
BY ControllerInvariant, PTL DEF ControllerInv

(* The biases that are added are those of the neurons issued.               *)
THEOREM BiasesAreInStep == EnvSpec => []BiasesInStep
BY ControllerInvariant, PTL DEF ControllerInv

(* The outputs of a layer are stored in order from the start of the         *)
(* activation area, and not past the layer's last group.                    *)
THEOREM StoresStayInPlace == EnvSpec => []StoresInPlace
<1>1. ControllerInv => StoresInPlace
  <2> SUFFICES ASSUME ControllerInv, curr_state = "STORE_OUTPUT"
               PROVE  /\ RamRequest(cfg) = Write(4, cfg.addr_act + Issued)
                      /\ Issued < Neurons
    BY DEF StoresInPlace
  <2>1. /\ curr_addr_a = cfg.addr_act + Issued
        /\ RamRequest(cfg) = Write(4, curr_addr_a)
    BY DEF ControllerInv, LoopPointers, RamRequest
  <2>2. /\ curr_layer_size = Neurons
        /\ cfg \in Configs /\ curr_layer \in 1 .. 2
        /\ pending_issues \in 1 .. curr_layer_size
    BY LayerFacts DEF InLayer, ControllerInv, PassUnderWay, Issuing
  <2>3. Neurons \in 1 .. 31
    BY <2>2, RunningLayer
  <2> QED
    BY <2>1, <2>2, <2>3 DEF Issued
<1> QED
  BY <1>1, ControllerInvariant, PTL
----------------------------------------------------------------------------
(* The controller implements the layer schedule.  Its steps that issue      *)
(* nothing leave the cursor alone; an issue moves it to the next unit.      *)

LEMMA ScheduleInit == EnvInit => Schedule!Init
BY DEF EnvInit, Init, Schedule!Init, Schedule!Idle, SchedPhase, SchedLayer,
       SchedAct, SchedGroup

(* One issue of a pass over the neurons moves the pass to the next group,   *)
(* and the pass ends exactly at the last group of the layer.                *)
LEMMA IssueFacts ==
  ASSUME ControllerInv, Issuing, cfg' = cfg, curr_layer' = curr_layer,
         curr_layer_size' = curr_layer_size, pending_issues' = PendingAfter
  PROVE  /\ cfg \in Configs /\ curr_layer \in 1 .. 2
         /\ Issued \in Nat
         /\ PendingAfter # 0 => Issued' \div 4 = Issued \div 4 + 1
         /\ PendingAfter = 0 <=> GroupsOf(Neurons) = Issued \div 4 + 1
<1>1. /\ cfg \in Configs /\ curr_layer \in 1 .. 2
      /\ curr_layer_size = Neurons
  BY LayerFacts DEF InLayer, Issuing
<1>2. /\ Neurons \in 1 .. 31
      /\ pending_issues \in 1 .. Neurons
      /\ Issued = Neurons - pending_issues
      /\ Issued' = Neurons - PendingAfter
      /\ Issued % 4 = 0
  BY <1>1, RunningLayer DEF ControllerInv, TypeOK, PassUnderWay, Issued
<1>3. /\ PendingAfter # 0 => Issued' \div 4 = Issued \div 4 + 1
      /\ PendingAfter = 0 => GroupsOf(Neurons) = Issued \div 4 + 1
  BY <1>2, PassLemma DEF PendingAfter, IssuedLanes
<1>4. PendingAfter # 0 => pending_issues > 4
  BY <1>2 DEF PendingAfter, IssuedLanes
<1>5. pending_issues > 4 => GroupsOf(Neurons) # Issued \div 4 + 1
  BY <1>2 DEF GroupsOf
<1> QED
  BY <1>1, <1>2, <1>3, <1>4, <1>5

LEMMA ScheduleMacIssue ==
  ASSUME ControllerInv, Clock(MacIssue)
  PROVE  Schedule!MultiplyAccumulate
<1>1. /\ curr_state = "MAC_ISSUE"
      /\ curr_state' = IF PendingAfter # 0 THEN "MAC_ISSUE" ELSE "MAC_WAIT"
      /\ cfg' = cfg /\ curr_layer' = curr_layer
      /\ curr_layer_size' = curr_layer_size
      /\ acts_remaining' = acts_remaining
      /\ pending_issues' = PendingAfter
  BY DEF Clock, MacIssue, issues_remaining
<1>2. /\ cfg \in Configs /\ curr_layer \in 1 .. 2
      /\ PendingAfter # 0 => Issued' \div 4 = Issued \div 4 + 1
      /\ PendingAfter = 0 <=> GroupsOf(Neurons) = Issued \div 4 + 1
  BY <1>1, IssueFacts DEF Issuing
<1>3. /\ Inputs \in Nat
      /\ acts_remaining \in Nat /\ acts_remaining <= Inputs
      /\ Loaded = Inputs - acts_remaining
      /\ Loaded' = Loaded
  BY <1>1, <1>2, RunningLayer
  DEF ControllerInv, TypeOK, LoopPointers, Accumulating, Loaded, Inputs
<1>4. Schedule!Neurons = Neurons /\ Schedule!Inputs = Inputs
  BY <1>1 DEF Schedule!Neurons, Schedule!Inputs, SchedLayer, Neurons, Inputs
<1>5. /\ SchedPhase = "mac" /\ SchedAct = Loaded - 1
      /\ SchedGroup = Issued \div 4
      /\ SchedLayer' = SchedLayer
  BY <1>1 DEF SchedPhase, SchedAct, SchedGroup, SchedLayer
<1>6. CASE PendingAfter # 0
  <2>1. /\ SchedPhase' = "mac" /\ SchedAct' = Loaded - 1
        /\ SchedGroup' = Issued \div 4 + 1
    BY <1>1, <1>2, <1>3, <1>6 DEF SchedPhase, SchedAct, SchedGroup
  <2> QED
    BY <1>1, <1>2, <1>4, <1>5, <1>6, <2>1
    DEF Schedule!MultiplyAccumulate, Schedule!LastGroup, Schedule!GroupsOf,
        GroupsOf
<1>7. CASE PendingAfter = 0
  <2>1. /\ SchedPhase' = IF acts_remaining = 0 THEN "bias" ELSE "mac"
        /\ SchedAct' = IF acts_remaining = 0 THEN 0 ELSE Loaded
        /\ SchedGroup' = 0
    BY <1>1, <1>3, <1>7 DEF SchedPhase, SchedAct, SchedGroup
  <2>2. /\ (Loaded - 1) + 1 < Inputs <=> acts_remaining # 0
        /\ (Loaded - 1) + 1 = Loaded
    BY <1>3
  <2> QED
    BY <1>1, <1>2, <1>4, <1>5, <1>7, <2>1, <2>2
    DEF Schedule!MultiplyAccumulate, Schedule!LastGroup, Schedule!GroupsOf,
        GroupsOf
<1> QED
  BY <1>6, <1>7

LEMMA ScheduleBiasIssue ==
  ASSUME ControllerInv, Clock(BiasIssue)
  PROVE  Schedule!AddBias
<1>1. /\ curr_state = "BIAS_ISSUE"
      /\ curr_state' = IF PendingAfter # 0 THEN "BIAS_ISSUE" ELSE "BIAS_WAIT"
      /\ cfg' = cfg /\ curr_layer' = curr_layer
      /\ curr_layer_size' = curr_layer_size
      /\ pending_issues' = PendingAfter
  BY DEF Clock, BiasIssue, issues_remaining
<1>2. /\ PendingAfter # 0 => Issued' \div 4 = Issued \div 4 + 1
      /\ PendingAfter = 0 <=> GroupsOf(Neurons) = Issued \div 4 + 1
  BY <1>1, IssueFacts DEF Issuing
<1>3. Schedule!Neurons = Neurons
  BY <1>1 DEF Schedule!Neurons, SchedLayer, Neurons
<1>4. /\ SchedPhase = "bias" /\ SchedGroup = Issued \div 4
      /\ SchedPhase' = IF PendingAfter # 0 THEN "bias" ELSE "sigmoid"
      /\ SchedGroup' = IF PendingAfter # 0 THEN Issued \div 4 + 1 ELSE 0
      /\ SchedAct' = SchedAct /\ SchedLayer' = SchedLayer
  BY <1>1, <1>2 DEF SchedPhase, SchedGroup, SchedAct, SchedLayer
<1> QED
  BY <1>1, <1>2, <1>3, <1>4
  DEF Schedule!AddBias, Schedule!Pass, Schedule!LastGroup, Schedule!GroupsOf,
      GroupsOf

LEMMA ScheduleSigmoidIssue ==
  ASSUME ControllerInv, Clock(SigmoidIssue)
  PROVE  Schedule!ApplySigmoid
<1>1. /\ curr_state = "SIGMOID_ISSUE"
      /\ curr_state' = IF PendingAfter # 0 THEN "SIGMOID_ISSUE" ELSE "SIGMOID_WAIT"
      /\ cfg' = cfg /\ curr_layer' = curr_layer
      /\ curr_layer_size' = curr_layer_size
      /\ pending_issues' = PendingAfter
  BY DEF Clock, SigmoidIssue, issues_remaining
<1>2. /\ PendingAfter # 0 => Issued' \div 4 = Issued \div 4 + 1
      /\ PendingAfter = 0 <=> GroupsOf(Neurons) = Issued \div 4 + 1
  BY <1>1, IssueFacts DEF Issuing
<1>3. Schedule!Neurons = Neurons
  BY <1>1 DEF Schedule!Neurons, SchedLayer, Neurons
<1>4. /\ SchedPhase = "sigmoid" /\ SchedGroup = Issued \div 4
      /\ SchedPhase' = IF PendingAfter # 0 THEN "sigmoid" ELSE "store"
      /\ SchedGroup' = IF PendingAfter # 0 THEN Issued \div 4 + 1 ELSE 0
      /\ SchedAct' = SchedAct /\ SchedLayer' = SchedLayer
  BY <1>1, <1>2 DEF SchedPhase, SchedGroup, SchedAct, SchedLayer
<1> QED
  BY <1>1, <1>2, <1>3, <1>4
  DEF Schedule!ApplySigmoid, Schedule!Pass, Schedule!LastGroup, Schedule!GroupsOf,
      GroupsOf

LEMMA ScheduleStoreOutput ==
  ASSUME ControllerInv, Clock(StoreOutput)
  PROVE  Schedule!Store
<1>1. /\ curr_state = "STORE_OUTPUT"
      /\ curr_state' = IF PendingAfter # 0 THEN "STORE_OUTPUT" ELSE "LAYER_DONE"
      /\ cfg' = cfg /\ curr_layer' = curr_layer /\ nlayers' = nlayers
      /\ curr_layer_size' = curr_layer_size
      /\ pending_issues' = PendingAfter
  BY DEF Clock, StoreOutput, issues_remaining
<1>2. /\ curr_layer \in 1 .. 2 /\ nlayers = 2
      /\ PendingAfter # 0 => Issued' \div 4 = Issued \div 4 + 1
      /\ PendingAfter = 0 <=> GroupsOf(Neurons) = Issued \div 4 + 1
  BY <1>1, IssueFacts, LayerFacts DEF Issuing, InLayer
<1>3. Schedule!Neurons = Neurons
  BY <1>1 DEF Schedule!Neurons, SchedLayer, Neurons
<1>4. /\ SchedPhase = "store" /\ SchedGroup = Issued \div 4
      /\ SchedLayer = curr_layer /\ SchedAct = 0
  BY <1>1 DEF SchedPhase, SchedGroup, SchedLayer, SchedAct
<1>5. /\ SchedPhase' = IF PendingAfter # 0 THEN "store"
                       ELSE IF curr_layer = 1 THEN "mac" ELSE "done"
      /\ SchedGroup' = IF PendingAfter # 0 THEN Issued \div 4 + 1 ELSE 0
      /\ SchedAct' = 0
      /\ SchedLayer' = IF PendingAfter # 0 THEN curr_layer
                       ELSE IF curr_layer = 1 THEN 2 ELSE 1
  <2>1. CASE PendingAfter # 0
    BY <1>1, <1>2, <2>1 DEF SchedPhase, SchedGroup, SchedAct, SchedLayer
  <2>2. CASE PendingAfter = 0
    BY <1>1, <1>2, <2>2
    DEF SchedPhase, SchedGroup, SchedAct, SchedLayer, layers_pending
  <2> QED
    BY <2>1, <2>2
<1> QED
  BY <1>1, <1>2, <1>3, <1>4, <1>5
  DEF Schedule!Store, Schedule!LastGroup, Schedule!GroupsOf, GroupsOf

(* The steps that issue nothing.                                            *)
LEMMA ScheduleCalcLayerPrep ==
  ASSUME ControllerInv, Clock(CalcLayerPrep(cfg))
  PROVE  UNCHANGED Schedule!vars
<1>1. /\ curr_state = "CALC_LAYER_PREP" /\ curr_state' = "LOAD_ACT"
      /\ cfg' = cfg /\ curr_layer' = curr_layer
      /\ acts_remaining' = Inputs'
      /\ cfg \in Configs /\ curr_layer \in 1 .. 2
  BY DEF Clock, CalcLayerPrep, Inputs, ControllerInv, TypeOK, LayerLoaded
<1>2. Loaded' = 0
  <2>1. Inputs' = Inputs /\ Inputs \in Nat
    BY <1>1, RunningLayer DEF Inputs
  <2> QED
    BY <1>1, <2>1 DEF Loaded
<1> QED
  BY <1>1, <1>2 DEF Schedule!vars, SchedPhase, SchedLayer, SchedAct, SchedGroup

LEMMA ScheduleLoadAct ==
  ASSUME ControllerInv, Clock(LoadAct)
  PROVE  UNCHANGED Schedule!vars
<1>1. /\ curr_state = "LOAD_ACT" /\ curr_state' = "MAC_ISSUE"
      /\ cfg' = cfg /\ curr_layer' = curr_layer
      /\ curr_layer_size' = curr_layer_size
      /\ pending_issues' = curr_layer_size
      /\ acts_remaining' = U16(acts_remaining - 1)
  BY DEF Clock, LoadAct
<1>2. /\ cfg \in Configs /\ curr_layer \in 1 .. 2
      /\ acts_remaining \in Nat /\ acts_remaining > 0
      /\ acts_remaining <= Inputs
      /\ curr_layer_size \in 0 .. 31
  BY <1>1, LayerFacts
  DEF InLayer, ControllerInv, TypeOK, LoopPointers, Accumulating
<1>3. Inputs' = Inputs /\ Inputs \in Nat /\ Inputs < RamWords
  BY <1>1, <1>2, RunningLayer DEF Inputs
<1>4. acts_remaining - 1 \in 0 .. RamWords - 1
  BY <1>2, <1>3, RamWordsAssumption
<1>5. acts_remaining' = acts_remaining - 1
  BY <1>1, <1>4, WidthLemma
<1>6. Loaded' - 1 = Loaded /\ Issued' = 0
  BY <1>1, <1>2, <1>3, <1>5 DEF Loaded, Issued
<1>7. Issued' \div 4 = 0
  BY <1>6
<1> QED
  BY <1>1, <1>6, <1>7
  DEF Schedule!vars, SchedPhase, SchedLayer, SchedAct, SchedGroup

LEMMA ScheduleMacWait ==
  ASSUME ControllerInv, NEW clear \in BOOLEAN, Clock(MacWait(clear))
  PROVE  UNCHANGED Schedule!vars
BY DEF Clock, MacWait, Schedule!vars, SchedPhase, SchedLayer, SchedAct,
       SchedGroup, Loaded, Inputs

LEMMA SchedulePreps ==
  ASSUME ControllerInv,
         \/ Clock(BiasPrep)
         \/ Clock(SigmoidPrep)
         \/ Clock(StorePrep(cfg))
  PROVE  UNCHANGED Schedule!vars
<1>1. Issued' = 0
  <2>1. /\ pending_issues' = curr_layer_size /\ curr_layer_size' = curr_layer_size
        /\ curr_layer_size \in 0 .. 31
    BY DEF Clock, BiasPrep, SigmoidPrep, StorePrep, ControllerInv, TypeOK
  <2> QED
    BY <2>1 DEF Issued
<1>2. Issued' \div 4 = 0
  BY <1>1
<1> QED
  BY <1>2
  DEF Clock, BiasPrep, SigmoidPrep, StorePrep, Schedule!vars, SchedPhase,
      SchedLayer, SchedAct, SchedGroup

LEMMA ScheduleWaits ==
  ASSUME ControllerInv, NEW clear \in BOOLEAN,
         Clock(BiasWait(clear)) \/ Clock(SigmoidWait(clear))
  PROVE  UNCHANGED Schedule!vars
BY DEF Clock, BiasWait, SigmoidWait, Schedule!vars, SchedPhase, SchedLayer,
       SchedAct, SchedGroup

LEMMA ScheduleLayerDone ==
  ASSUME ControllerInv, Clock(LayerDone)
  PROVE  UNCHANGED Schedule!vars
<1>1. /\ curr_state = "LAYER_DONE" /\ cfg' = cfg
      /\ curr_layer \in 1 .. 2 /\ nlayers = 2
      /\ curr_state' = IF curr_layer # nlayers THEN "CALC_LAYER_PREP" ELSE "DONE"
      /\ curr_layer' = curr_layer + 1
  BY LayerFacts, WidthLemma DEF InLayer, Clock, LayerDone, layers_pending
<1> QED
  BY <1>1
  DEF Schedule!vars, SchedPhase, SchedLayer, SchedAct, SchedGroup,
      layers_pending

(* Each step of the controller and of its environment is a step of the      *)
(* schedule, or leaves the cursor alone.                                    *)
LEMMA ScheduleNext ==
  ControllerInv /\ [EnvNext]_envVars => [Schedule!Next]_Schedule!vars
<1> SUFFICES ASSUME ControllerInv, [EnvNext]_envVars
             PROVE  [Schedule!Next]_Schedule!vars
  OBVIOUS
<1> USE DEF Schedule!Next
<1>1. CASE Configure
  BY <1>1
  DEF Configure, Idle, Schedule!Configure, Schedule!Idle, SchedPhase,
      SchedLayer, SchedAct, SchedGroup
<1>2. CASE ResetAll
  BY <1>2
  DEF ResetAll, Reset, Schedule!Abort, SchedPhase, SchedLayer, SchedAct,
      SchedGroup
<1>3. CASE Clock(cfg \in Configs /\ Idle(TRUE))
  BY <1>3
  DEF Clock, Idle, Schedule!Start, Schedule!Idle, SchedPhase, SchedLayer,
      SchedAct, SchedGroup
<1>4. CASE Clock(Idle(FALSE))
  BY <1>4
  DEF Clock, Idle, Schedule!vars, SchedPhase, SchedLayer, SchedAct, SchedGroup
<1>5. CASE Clock(CalcLayerPrep(cfg)) \/ Clock(LoadAct)
  BY <1>5, ScheduleCalcLayerPrep, ScheduleLoadAct
<1>6. CASE Clock(MacIssue)
  BY <1>6, ScheduleMacIssue
<1>7. CASE \E clear \in BOOLEAN : Clock(MacWait(clear))
  BY <1>7, ScheduleMacWait
<1>8. CASE Clock(BiasPrep) \/ Clock(SigmoidPrep) \/ Clock(StorePrep(cfg))
  BY <1>8, SchedulePreps
<1>9. CASE Clock(BiasIssue)
  BY <1>9, ScheduleBiasIssue
<1>10. CASE \E clear \in BOOLEAN : Clock(BiasWait(clear)) \/ Clock(SigmoidWait(clear))
  BY <1>10, ScheduleWaits
<1>11. CASE Clock(SigmoidIssue)
  BY <1>11, ScheduleSigmoidIssue
<1>12. CASE Clock(StoreOutput)
  BY <1>12, ScheduleStoreOutput
<1>13. CASE Clock(LayerDone)
  BY <1>13, ScheduleLayerDone
<1>14. CASE Clock(Done)
  BY <1>14
  DEF Clock, Done, Schedule!Finish, SchedPhase, SchedLayer, SchedAct, SchedGroup
<1>15. CASE UNCHANGED envVars
  BY <1>15
  DEF envVars, vars, Schedule!vars, SchedPhase, SchedLayer, SchedAct,
      SchedGroup, Loaded, Issued, Inputs, layers_pending
<1> QED
  BY <1>1, <1>2, <1>3, <1>4, <1>5, <1>6, <1>7, <1>8, <1>9, <1>10, <1>11,
     <1>12, <1>13, <1>14, <1>15
  DEF EnvNext

(* The controller implements the layer schedule: every (activation, group)  *)
(* pair of the hidden, then of the output layer is issued once and in       *)
(* order, and its passes over the biases, sigmoids and stores follow.       *)
THEOREM ControllerImplementsSchedule == EnvSpec => ImplementsLayerSchedule
<1>1. EnvInit => Schedule!Init
  BY ScheduleInit
<1>2. ControllerInv /\ [EnvNext]_envVars => [Schedule!Next]_Schedule!vars
  BY ScheduleNext
<1> QED
  BY <1>1, <1>2, ControllerInvariant, PTL
  DEF EnvSpec, ImplementsLayerSchedule, Schedule!Spec
============================================================================
