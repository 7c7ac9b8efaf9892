-------------------------------- MODULE Regfile --------------------------------
(****************************************************************************)
(* The register file: regfile.sv.  The activation being multiplied and the  *)
(* 32 accumulators of the running layer.                                    *)
(****************************************************************************)
EXTENDS RamParameters, Sequences

VARIABLES
  act_data,  \* the activation
  acc_data   \* the accumulators

regfileVars == <<act_data, acc_data>>

Accumulators == 0 .. 31

RegfileInit ==
  /\ act_data = Zero
  /\ acc_data = [r \in Accumulators |-> Zero]

RegfileReset ==
  /\ act_data' = Zero
  /\ acc_data' = [r \in Accumulators |-> Zero]

(* The read port: the n accumulators from sel on.                           *)
ReadAcc(sel, n) == [l \in 1 .. n |-> acc_data[sel + l - 1]]

(* The accumulators after a write of the words ws from sel on.              *)
WrittenAcc(sel, ws) ==
  [r \in Accumulators |->
     IF r >= sel /\ r < sel + Len(ws) THEN ws[r - sel + 1] ELSE acc_data[r]]

(* Variant: the accumulators are not cleared for a layer.                   *)
RegfileStepKept(rst_syn, act_wen, acc_wen, sel, ws) ==
  /\ act_data' = CASE rst_syn -> Zero
                   [] ~rst_syn /\ act_wen -> ws[1]
                   [] OTHER -> act_data
  /\ acc_data' = IF acc_wen THEN WrittenAcc(sel, ws) ELSE acc_data

(* The clock edge.  There is one write port: ws are the words on it, of     *)
(* which the activation takes the first, and sel is the accumulator that    *)
(* the first is for.  rst_syn clears every register and wins over a write.  *)
RegfileStep(rst_syn, act_wen, acc_wen, sel, ws) ==
  /\ act_data' = CASE rst_syn -> Zero
                   [] ~rst_syn /\ act_wen -> ws[1]
                   [] OTHER -> act_data
  /\ acc_data' = CASE rst_syn -> [r \in Accumulators |-> Zero]
                   [] ~rst_syn /\ acc_wen -> WrittenAcc(sel, ws)
                   [] OTHER -> acc_data
============================================================================
