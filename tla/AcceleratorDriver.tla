--------------------------- MODULE AcceleratorDriver ---------------------------
(****************************************************************************)
(* The program and the accelerator together: program_accelerator(),         *)
(* feedforward_hw() and the loop of evaluate() in network.c, on the bus.    *)
(*                                                                          *)
(* The program is a sequence of bus accesses; pc names the next one, and i, *)
(* j, k and test are the loop variables of the source.  Every step of the   *)
(* system is one clock cycle: a write takes one cycle, a read two (the      *)
(* slave's readWaitTime is 1, and the processor takes the data in the       *)
(* second), and between two accesses any number of cycles may pass.  A      *)
(* reset of the chip restarts the program and the accelerator, and leaves   *)
(* the RAM as it was.                                                       *)
(****************************************************************************)
EXTENDS Accelerator

CONSTANTS
  HiddenSize, OutputSize,               \* sizes[1] and sizes[2]
  Weight(_, _, _), Bias(_, _),          \* the network that is programmed
  Input(_, _), NumTests,                \* the tests that are evaluated
  MaxResets                             \* bound on the number of resets

Net == INSTANCE Network

ASSUME DriverAssumption ==
  /\ HiddenSize \in 1 .. 31 /\ OutputSize \in 1 .. 31
  /\ NumTests \in Nat \ {0} /\ MaxResets \in Nat

VARIABLES
  pc,       \* the next access of the program
  i, j, k,  \* loop variables
  test,     \* the test being evaluated
  out,      \* network_out, the outputs read back so far
  reading,  \* the first cycle of a read is over
  resets    \* resets so far

loopVars == <<i, j, k>>
driverVars == <<pc, loopVars, test, out, reading, resets>>
systemVars == <<accelVars, driverVars>>

(* The commands, as network.h numbers them.                                 *)
START_PROGRAMMING == 1
START_WEIGHT_H == 2
START_WEIGHT_O == 4
START_BIAS_H == 3
START_BIAS_O == 5
ALIGN_ADDR == 8
START_INPUT == 6
READ_OUTPUT == 7
ACC_START == 9
ADVNC_PTR_1 == 10
PROCESSING_PENDING == 0

ADDR_COMMANDS == 0
ADDR_DATA == 1
ADDR_LAYER_SIZE == 7

NoOutput == [n \in 0 .. OutputSize - 1 |-> Zero]

SystemInit ==
  /\ AccelInit
  /\ pc = "clear" /\ i = 0 /\ j = 0 /\ k = 0
  /\ test = 0 /\ out = NoOutput
  /\ reading = FALSE /\ resets = 0
----------------------------------------------------------------------------
(* One access of the program at label: a write, after which the program     *)
(* goes to next.                                                            *)
Command(label, c, next) ==
  /\ pc = label
  /\ Tick(BusWrite(ADDR_COMMANDS, c))
  /\ pc' = next
  /\ UNCHANGED <<test, out, reading, resets>>

Store(label, word) ==
  /\ pc = label
  /\ Tick(BusWrite(ADDR_DATA, word))
  /\ UNCHANGED <<test, out, reading, resets>>

(* The first cycle of a read, which the slave stretches by one.             *)
BeginRead(label, a) ==
  /\ pc = label /\ ~reading
  /\ Tick(BusRead(a))
  /\ reading' = TRUE
  /\ UNCHANGED <<pc, loopVars, test, out, resets>>

(* Variant: the read is not ended.                                          *)
EndReadHeld(label, a) ==
  /\ pc = label /\ reading
  /\ Tick(BusRead(a))
  /\ UNCHANGED <<test, reading, resets>>

(* The second cycle of a read; Received is the data it returns.             *)
EndRead(label, a) ==
  /\ pc = label /\ reading
  /\ Tick(BusRead(a))
  /\ reading' = FALSE
  /\ UNCHANGED <<test, resets>>
Received(a) == ReadData(a, dout_a)

(* A loop variable v runs to n: one more round, or on with the program.     *)
Loop(v, n, again, after) == pc' = IF v + 1 < n THEN again ELSE after
----------------------------------------------------------------------------
(* program_accelerator(): for each layer the weights, by activation and     *)
(* then by neuron with an ALIGN_ADDR after each activation, then the biases.*)

Clear ==
  /\ Command("clear", START_PROGRAMMING, "start_weight")
  /\ i' = 1 /\ UNCHANGED <<j, k>>

StartWeight ==
  /\ Command("start_weight", IF i = 1 THEN START_WEIGHT_H ELSE START_WEIGHT_O,
             "weight")
  /\ j' = 0 /\ k' = 0 /\ UNCHANGED i

StoreWeight ==
  /\ Store("weight", Weight(i, k, j))
  /\ Loop(k, Net!Size(i), "weight", "align_row")
  /\ k' = k + 1 /\ UNCHANGED <<i, j>>

AlignRow ==
  /\ pc = "align_row"
  /\ Tick(BusWrite(ADDR_COMMANDS, ALIGN_ADDR))
  /\ Loop(j, Net!Size(i - 1), "weight", "start_bias")
  /\ j' = j + 1 /\ k' = 0 /\ UNCHANGED <<i, test, out, reading, resets>>

StartBias ==
  /\ Command("start_bias", IF i = 1 THEN START_BIAS_H ELSE START_BIAS_O, "bias")
  /\ j' = 0 /\ UNCHANGED <<i, k>>

StoreBias ==
  /\ Store("bias", Bias(i, j))
  /\ Loop(j, Net!Size(i), "bias", "align_bias")
  /\ j' = j + 1 /\ UNCHANGED <<i, k>>

AlignBias ==
  /\ pc = "align_bias"
  /\ Tick(BusWrite(ADDR_COMMANDS, ALIGN_ADDR))
  /\ Loop(i, 3, "start_weight", "align_end")
  /\ i' = i + 1 /\ UNCHANGED <<j, k, test, out, reading, resets>>

AlignEnd ==
  /\ Command("align_end", ALIGN_ADDR, "layer_size")
  /\ UNCHANGED loopVars

(* Variant: the sizes are not written.                                      *)
ProgramSizesSkipped ==
  /\ pc = "layer_size"
  /\ Tick(NoBus)
  /\ pc' = "start_input"
  /\ UNCHANGED <<loopVars, test, out, reading, resets>>

ProgramSizes ==
  /\ pc = "layer_size"
  /\ Tick(BusWrite(ADDR_LAYER_SIZE,
                   [hidden |-> HiddenSize, output |-> OutputSize]))
  /\ pc' = "start_input"
  /\ UNCHANGED <<loopVars, test, out, reading, resets>>
----------------------------------------------------------------------------
(* feedforward_hw().                                                        *)

StartInput ==
  /\ Command("start_input", START_INPUT, "input")
  /\ i' = 0 /\ UNCHANGED <<j, k>>

StoreInput ==
  /\ Store("input", Input(test, i))
  /\ Loop(i, InputSize, "input", "acc_start")
  /\ i' = i + 1 /\ UNCHANGED <<j, k>>

AccStart == Command("acc_start", ACC_START, "poll") /\ UNCHANGED loopVars

BeginPoll == BeginRead("poll", ADDR_COMMANDS)

EndPoll ==
  /\ EndRead("poll", ADDR_COMMANDS)
  /\ pc' = IF Received(ADDR_COMMANDS) = PROCESSING_PENDING
           THEN "poll" ELSE "read_output"
  /\ UNCHANGED <<loopVars, out>>

ReadOutput ==
  /\ Command("read_output", READ_OUTPUT, "data")
  /\ i' = 0 /\ UNCHANGED <<j, k>>

BeginData == BeginRead("data", ADDR_DATA)

EndData ==
  /\ EndRead("data", ADDR_DATA)
  /\ pc' = "advance"
  /\ out' = [out EXCEPT ![i] = Received(ADDR_DATA)]
  /\ UNCHANGED loopVars

Advance ==
  /\ pc = "advance"
  /\ Tick(BusWrite(ADDR_COMMANDS, ADVNC_PTR_1))
  /\ Loop(i, OutputSize, "data", "reset_ptr")
  /\ i' = i + 1 /\ UNCHANGED <<j, k, test, out, reading, resets>>

(* Variant: the last READ_OUTPUT is left out.                               *)
ResetPointerSkipped ==
  /\ pc = "reset_ptr"
  /\ Tick(NoBus)
  /\ pc' = "returned"
  /\ UNCHANGED <<loopVars, test, out, reading, resets>>

ResetPointer ==
  /\ Command("reset_ptr", READ_OUTPUT, "returned")
  /\ UNCHANGED loopVars

(* evaluate() uses the outputs, and goes on with the next test.             *)
NextTest ==
  /\ pc = "returned"
  /\ Tick(NoBus)
  /\ pc' = IF test + 1 < NumTests THEN "start_input" ELSE "finished"
  /\ test' = IF test + 1 < NumTests THEN test + 1 ELSE test
  /\ UNCHANGED <<loopVars, out, reading, resets>>
----------------------------------------------------------------------------
(* A cycle in which the program does not use the bus.                       *)
IdleCycle ==
  /\ ~reading
  /\ Tick(NoBus)
  /\ UNCHANGED driverVars

(* The reset of the chip restarts the program.                              *)
ResetSystem ==
  /\ resets < MaxResets
  /\ AccelReset
  /\ pc' = "clear" /\ i' = 0 /\ j' = 0 /\ k' = 0
  /\ test' = 0 /\ out' = NoOutput
  /\ reading' = FALSE /\ resets' = resets + 1

Program ==
  \/ Clear \/ StartWeight \/ StoreWeight \/ AlignRow \/ StartBias \/ StoreBias
  \/ AlignBias \/ AlignEnd \/ ProgramSizes
  \/ StartInput \/ StoreInput \/ AccStart \/ BeginPoll \/ EndPoll \/ ReadOutput
  \/ BeginData \/ EndData \/ Advance \/ ResetPointer \/ NextTest

SystemNext == Program \/ IdleCycle \/ ResetSystem

(* The processor goes on executing the program.                             *)
SystemSpec == SystemInit /\ [][SystemNext]_systemVars /\ WF_systemVars(Program)
============================================================================
