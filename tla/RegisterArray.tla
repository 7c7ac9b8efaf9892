----------------------------- MODULE RegisterArray -----------------------------
(****************************************************************************)
(* The Avalon slave of the accelerator: the eight memory-mapped registers   *)
(* of neunet_accel_mm_register_array.sv.                                    *)
(*                                                                          *)
(* A bus cycle is idle, or a read or a write of one register.  Writing      *)
(* register 0 is a command, writing register 1 stores a word in the RAM at  *)
(* the working pointer.  The pointer registers keep the 16 bits that the    *)
(* RAM uses; register 7 is kept as its two 16-bit halves.                   *)
(****************************************************************************)
EXTENDS RamParameters

VARIABLES
  status,    \* register 0, as read: 0, or AllOnes
  in_ptr,    \* register 1: first word of the input, and of the output
  w0_ptr,    \* register 2: weights of the hidden layer
  b0_ptr,    \* register 3: biases of the hidden layer
  w1_ptr,    \* register 4: weights of the output layer
  b1_ptr,    \* register 5: biases of the output layer
  work_ptr,  \* register 6: the working pointer
  sizes      \* register 7: neurons of the hidden and of the output layer

registerVars ==
  <<status, in_ptr, w0_ptr, b0_ptr, w1_ptr, b1_ptr, work_ptr, sizes>>

(* The commands.                                                            *)
CLEAR == 1
START_W0 == 2
START_B0 == 3
START_W1 == 4
START_B1 == 5
SAVE_IN_ADDR == 6
START_RD_OUT == 7
ADVN_PTR_4WD == 8
START_COMPUTE == 9
ADVN_PTR_1WD == 10

AllOnes == -1  \* 32 ones

Pointer(n) == n % RamWords
NoSizes == [hidden |-> 0, output |-> 0]

RegistersInit ==
  /\ status = 0
  /\ in_ptr = 0 /\ work_ptr = 0
  /\ w0_ptr = 0 /\ b0_ptr = 0 /\ w1_ptr = 0 /\ b1_ptr = 0
  /\ sizes = NoSizes

RegistersReset ==
  /\ status' = 0
  /\ in_ptr' = 0 /\ work_ptr' = 0
  /\ w0_ptr' = 0 /\ b0_ptr' = 0 /\ w1_ptr' = 0 /\ b1_ptr' = 0
  /\ sizes' = NoSizes
----------------------------------------------------------------------------
(* The bus cycles.                                                          *)
NoBus == [write |-> FALSE, read |-> FALSE, address |-> 0, writedata |-> 0]
BusWrite(a, d) == [write |-> TRUE, read |-> FALSE, address |-> a, writedata |-> d]
BusRead(a) == [write |-> FALSE, read |-> TRUE, address |-> a, writedata |-> 0]

IsCommand(bus) == bus.write /\ bus.address = 0
Commands(bus, c) == IsCommand(bus) /\ bus.writedata = c
WritesData(bus) == bus.write /\ bus.address = 1

(* The start signal of the controller.                                      *)
start_flg(bus) == Commands(bus, START_COMPUTE)

(* The next value of a pointer that command c loads from another.           *)
Loaded(bus, c, from, old) ==
  IF Commands(bus, CLEAR) THEN 0 ELSE IF Commands(bus, c) THEN from ELSE old

(* Variant: the pointer is moved by four and not aligned.                   *)
FourOn(p) == Pointer(p + 4)

(* The next group of four words, for a pointer anywhere in a group.         *)
NextGroup(p) == Pointer(4 * ((p + 4) \div 4))

WorkPtrAfter(bus) ==
  CASE Commands(bus, CLEAR) -> 0
    [] Commands(bus, START_RD_OUT) -> in_ptr
    [] Commands(bus, ADVN_PTR_4WD) -> NextGroup(work_ptr)
    [] Commands(bus, ADVN_PTR_1WD) \/ WritesData(bus) -> Pointer(work_ptr + 1)
    [] OTHER -> work_ptr

(* Variants: START_COMPUTE does not clear the status; a read in the same    *)
(* cycle keeps the status from being set.                                   *)
StatusUncleared(bus, ff_done) ==
  CASE ff_done -> AllOnes
    [] ~ff_done /\ Commands(bus, CLEAR) -> 0
    [] OTHER -> status

StatusReadFirst(bus, ff_done) ==
  CASE bus.read -> status
    [] ~bus.read /\ ff_done -> AllOnes
    [] ~bus.read /\ ~ff_done
       /\ (Commands(bus, CLEAR) \/ Commands(bus, START_COMPUTE)) -> 0
    [] OTHER -> status

StatusAfter(bus, ff_done) ==
  CASE ff_done -> AllOnes
    [] ~ff_done /\ (Commands(bus, CLEAR) \/ Commands(bus, START_COMPUTE)) -> 0
    [] OTHER -> status

SizesAfter(bus) ==
  CASE Commands(bus, CLEAR) -> NoSizes
    [] bus.write /\ bus.address = 7 -> bus.writedata
    [] OTHER -> sizes

(* The clock edge.  The end of a computation, ff_done, sets the status      *)
(* whatever the bus does; registers 1 to 6 take no direct write.            *)
RegistersStep(bus, ff_done) ==
  /\ status' = StatusAfter(bus, ff_done)
  /\ w0_ptr' = Loaded(bus, START_W0, work_ptr, w0_ptr)
  /\ b0_ptr' = Loaded(bus, START_B0, work_ptr, b0_ptr)
  /\ w1_ptr' = Loaded(bus, START_W1, work_ptr, w1_ptr)
  /\ b1_ptr' = Loaded(bus, START_B1, work_ptr, b1_ptr)
  /\ in_ptr' = Loaded(bus, SAVE_IN_ADDR, work_ptr, in_ptr)
  /\ work_ptr' = WorkPtrAfter(bus)
  /\ sizes' = SizesAfter(bus)

(* The slave's request to the RAM: a bus write of register 1 stores the     *)
(* word, every other cycle reads the word at the working pointer.           *)
SlaveRequest(bus) ==
  [ren |-> ~WritesData(bus), wen |-> WritesData(bus), four |-> FALSE,
   addr |-> work_ptr]
SlaveData(bus) ==
  <<IF WritesData(bus) THEN bus.writedata ELSE Zero, Zero, Zero, Zero>>

(* What a read of register a returns; register 1 shows the RAM's output.    *)
ReadData(a, dout) == <<status, dout, w0_ptr, b0_ptr, w1_ptr, b1_ptr, work_ptr,
                       sizes>>[a + 1]

(* The configuration that the registers give the controller.                *)
Configuration ==
  [addr_w1 |-> w0_ptr, addr_b1 |-> b0_ptr, addr_w2 |-> w1_ptr,
   addr_b2 |-> b1_ptr, addr_act |-> in_ptr,
   size_l1 |-> sizes.hidden, size_l2 |-> sizes.output]
============================================================================
