------------------------------ MODULE Accelerator ------------------------------
(****************************************************************************)
(* The accelerator: the wiring of neunet_accel_mm_register_array.sv.        *)
(*                                                                          *)
(* The register array, the feed-forward controller, the arbiter, the RAM,   *)
(* the register file, the multiply-accumulate pipes and the sigmoid pipes   *)
(* share one clock: a Tick is one edge, at which every component takes its  *)
(* step from the wires that the others drive before the edge.  Its one      *)
(* input is the bus cycle.                                                  *)
(****************************************************************************)
EXTENDS RegisterArray, NeunetMac, NeunetSigmoid, Regfile, QuadportRam

CONSTANTS
  InputSize,  \* size_l0, the constant 784 in the wiring
  Unwritten   \* the word in the RAM where nothing was written yet

VARIABLES
  curr_state, curr_layer_size, nlayers, curr_layer, pending_issues,
  acts_remaining, curr_addr_w, curr_addr_a, curr_addr_b, bias_base_addr

Ctrl == INSTANCE FeedforwardController

accelVars == <<registerVars, macVars, sig_pipe, regfileVars, ramVars, Ctrl!vars>>

(* At power up every register is reset; the contents of the RAM are those   *)
(* of an initialisation file that the program does not rely on.             *)
AccelInit ==
  /\ RegistersInit
  /\ Ctrl!Init
  /\ MacInit
  /\ SigInit
  /\ RegfileInit
  /\ ram0 = [a \in BankAddress |-> Unwritten]
  /\ ram1 = [a \in BankAddress |-> Unwritten]
  /\ q_a = Unwritten /\ q_b = Unwritten /\ q_c = Unwritten /\ q_d = Unwritten
  /\ addr_flop = 0
  /\ four_flop = FALSE

(* The reset of the chip: all registers, and not the contents of the RAM.   *)
AccelReset ==
  /\ RegistersReset
  /\ Ctrl!Reset
  /\ MacReset
  /\ SigReset
  /\ RegfileReset
  /\ RamReset
----------------------------------------------------------------------------
(* The wires.                                                               *)

(* The arbiter: the controller's request to the RAM comes first, and the    *)
(* slave's is passed on only when the controller has none.                  *)
FfcRequest == Ctrl!RamRequest(Configuration)
FfcOwnsRam == FfcRequest.ren \/ FfcRequest.wen
RamRequest(bus) == IF FfcOwnsRam THEN FfcRequest ELSE SlaveRequest(bus)
RamData(bus) ==
  IF FfcOwnsRam THEN ReadAcc(Ctrl!reg_sel, 4) ELSE SlaveData(bus)

(* The words on the lanes that an issue uses.                               *)
dout == <<dout_a, dout_b, dout_c, dout_d>>
RamLanes == SubSeq(dout, 1, Ctrl!word_sel)
AccLanes == ReadAcc(Ctrl!reg_sel, Ctrl!word_sel)
ActLanes == [l \in 1 .. Ctrl!word_sel |-> act_data]

(* The write port of the register file, which the multiply-accumulate       *)
(* pipes, the activation being loaded and the sigmoid pipes share: wdata    *)
(* with its word_en, and acc_sel_w.                                         *)
WritePort ==
  CASE mac_o.busy -> mac_o.result
    [] ~mac_o.busy /\ Ctrl!load_act_flg -> dout
    [] ~mac_o.busy /\ ~Ctrl!load_act_flg /\ sig_o.busy -> sig_o.result
    [] OTHER -> <<>>
WriteIndex ==
  CASE mac_o.busy -> mac_o.index
    [] ~mac_o.busy /\ sig_o.busy -> sig_o.index
    [] OTHER -> 0

(* One clock edge, with the bus cycle it ends.                              *)
Tick(bus) ==
  /\ RegistersStep(bus, Ctrl!done_flg)
  /\ Ctrl!Step(start_flg(bus), mac_empty, sig_empty, Configuration)
  /\ MacStep(Ctrl!issue_mac \/ Ctrl!issue_add, Ctrl!issue_add, Ctrl!reg_sel,
             RamLanes, IF Ctrl!issue_add THEN AccLanes ELSE ActLanes, AccLanes)
  /\ SigStep(Ctrl!issue_sigmoid, Ctrl!reg_sel, AccLanes)
  /\ RegfileStep(Ctrl!layer_prep_stb, Ctrl!load_act_flg,
                 mac_o.busy \/ sig_o.busy, WriteIndex, WritePort)
  /\ RamStep(RamRequest(bus), RamData(bus))
============================================================================
