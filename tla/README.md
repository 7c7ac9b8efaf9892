# A neural-network accelerator, specified

The repository is a hardware accelerator for a small neural network (784 input,
30 hidden, 10 output neurons) on an FPGA, the C program that uses it, and the
board support package (BSP) that the program is linked with.  A Nios II
processor programs weights and biases into the accelerator over an Avalon-MM
bus, writes the input of a test, starts the computation, polls a status register
and reads the outputs back; it prints through a JTAG UART and may load its
network from a file.  `tla/` specifies that system in TLA+, model-checks it with
TLC on small instances, and proves part of it with TLAPS for all instances.

## 1. Inventory

Paths are relative to `src/source/hardware` (HW),
`src/source/software/neunet_accel_sw0` (SW) and
`src/source/software/neunet_accel_sw0_bsp` (BSP).

### The accelerator

| Component | State | Operations | Talks to | What is hard, and what makes it correct |
|---|---|---|---|---|
| Feed-forward controller, HW `feedforward_controller.sv` | FSM state, layer, counters of neurons and activations, three RAM pointers | one clock edge in each of 15 states | asks the RAM, issues to the pipes, waits for `empty`, tells the slave `done` | Words must be asked for one state before their use, across the ends of passes and layers; the last group is partial; counters of 5 and 16 bits. Correct: the operands in step, stores in place, every unit of work once and in order |
| Multiply-accumulate pipes, HW `neunet_mac.sv` | 5 + 7 stages | issue, shift, `add_only` entry in the middle | register file, controller | An addition deletes a product it meets; no forwarding. Correct: no collision, no stale accumulator |
| Sigmoid pipes, HW `sigmoid.sv` | 30 stages | issue, shift | register file, controller | as above |
| Register file, HW `regfile.sv` | activation, 32 accumulators | write by word enable, clear, read | both pipes, RAM | one write port shared by three writers with fixed priority |
| Four-port RAM, HW `quadport_ram.sv`, `dualport_ram_controller.sv` | two block RAMs, registered reads, registered routing | read/write one word or an aligned group of four | arbiter | banking by address bit 1; routing of the reply depends on the request of the cycle before. Correct: a flat memory |
| Register array (Avalon slave), HW `neunet_accel_mm_register_array.sv` | status, five base pointers, working pointer, sizes | ten commands, data write/read, size write, `ff_done` | processor, controller, arbiter | status set for one cycle whatever the bus does; a data write moves the pointer whether the RAM heard it or not |
| Arbiter and wiring, HW `arbiter.sv`, register array lines 200-331 | none | static priority for the controller | all | the slave's request is dropped silently |

### The program

| Component | State | Operations | Talks to | What is hard, and what makes it correct |
|---|---|---|---|---|
| Driver, SW `network.c:370-453`, `evaluate()` | program counter, loop variables, output array | `program_accelerator`, `feedforward_hw` | slave | protocol order; poll without timeout; pointer wound back only by the last command |
| Reference inference, SW `network.c:85-106, 291-318` | none | `feedforward`, `dot`, `sigmoid` | | what the hardware must compute |
| Main set-up, SW `main.c:20-110` | the arrays of the network and the pointers to them | `CONNECT_HIDDEN_ARR`, `CONNECT_OUT_ARR`, assignments | | `w_1[30]` of an array of 30 is written. Correct: the network is wired whatever that store hits |
| Network set-up and file, SW `network.c:9-79` | arrays, file, stream | init, load, dump | files | a missing or short file is ignored; a dump may be cut off. Correct: what was dumped whole is what is loaded |
| Scoring, SW `network.c:243-275` | counters | arg-max, one-hot encoding in place, comparison | driver | ties, an array rewritten while it is compared. Correct: the count is the accuracy |
| Training, SW `network.c:108-224, 349-364` | index map, gradients | `SGD`, `shuffle`, `update_mini_batch`, `backprop` | | deltas summed over a minibatch and applied later; an order that must stay a permutation. Correct: the deltas are the gradient, each sample is used once |
| `test_mmregs` of SW `hello_world.c` | none | register test | slave | called by nothing |

### The board support package

| Component | State | Operations | Talks to | What is hard, and what makes it correct |
|---|---|---|---|---|
| JTAG UART driver, BSP `drivers/*/altera_avalon_jtag_uart*` | two circular buffers, enables, seconds without a host | read, write, close, ioctl; interrupt routine; alarm | core, host, interrupts | buffers shared with the interrupt routine without a lock; interrupts that are switched off when there is nothing to do. Correct: a stream each way, no byte stranded, calls return |
| File layer, BSP `HAL/src/alt_open.c` and the other calls | descriptors, high-water mark, device lists | open, close, read, lseek, ioctl, fcntl, redirection at start-up | devices, file systems | a descriptor is taken before the driver is asked; locks found by a search. Correct: descriptors agree with what is held, locks exclude |
| Read-only zip file system, BSP `drivers/src/altera_ro_zipfs.c` | one pointer per descriptor | mount check, look-up, read, seek | file layer | the file is found from the pointer at every call, also at its very end |
| Interrupts, BSP `HAL/src/alt_iic*.c`, `alt_irq*.c` | handler table, enables, status | register, disable and enable all, dispatch | processor, devices | a table written word by word under interrupts |
| System clock, alarms, time of day, BSP `HAL/src/alt_tick.c`, `alt_alarm_start.c`, `alt_settod.c`, `alt_gettod.c` | tick counter, list of alarms, time that was set | tick, start, stop, callbacks, set and get time | interrupts | a counter that wraps, a list changed from both levels |
| CFI flash driver, BSP `drivers/*/altera_avalon_cfi_flash*` | table of erase blocks | identify, write (erase, program), unlock | flash chip | blocks of unequal size in either order, words wider than bytes, a chip that fails or hangs, loss of power |
| Start-up and exit, registration of devices, delays, heap, DMA, host file system, logging, stubs | | | | see section 7 |

Left aside: the vendor's floating-point cores, PLL, `qsys` description, pin-level
top (`demo.v`), the three headers of data (tables), Eclipse metadata.

**Concurrency.** In the accelerator everything moves on the same clock edge; the
program's bus accesses may be any number of cycles apart.  One reset for
everything may come at any time and leaves only the RAM's contents.  The bus
neither loses nor repeats anything.  The processor runs one thread, without an
operating system; the interrupt routines and the alarms that run in them
interrupt it between any two statements unless it has switched them off, and do
not interrupt each other.  Outside, three parties act on their own: the host at
the other end of the JTAG cable, which may be unplugged; the flash chip, which
takes its time, fails or hangs; and the power supply.

## 2. Modules

    RamParameters
      QuadportRam ----- QuadportRamEnv (INSTANCE FlatRam) -- MCQuadportRamEnv
                          MemoryProofs
      Regfile, RegisterArray, NeunetMac, NeunetSigmoid
                 \
    FeedforwardController --(INSTANCE)-- Accelerator -- AcceleratorDriver -- AcceleratorSystem -- MCAcceleratorSystem
      FeedforwardControllerEnv (INSTANCE LayerSchedule) -- MCFeedforwardControllerEnv   |
        FeedforwardControllerProofs --(INSTANCE)-------- AcceleratorSystemInv -- MCAcceleratorSystemFull
      Network (INSTANCE by the driver)                     AcceleratorSystemProofs

    Program -- MCProgram                       JtagUart (INSTANCE ConsoleStream) -- MCJtagUart
      ProgramProofs                              JtagUartProofs
    Training -- MCTraining                     RoZipFs -- FileTable (INSTANCE PosixFiles) -- MCFileTable
      TrainingProofs                                         FileTableProofs
    Interrupts -- Alarms -- MCAlarms           CfiFlash -- MCCfiFlash
                    AlarmsProofs                 MemoryProofs

### The accelerator and its driver

* **`FeedforwardController`**: the FSM.  One action per state of `state_t`; the
  registers are the variables under their own names; the output logic block is
  a set of operators (`issue_mac`, `reg_sel`, `RamRequest`, ...).  16-, 5- and
  3-bit registers wrap (`U16`, `U5`, `U3`).  `word_sel`, a bit mask that is
  always contiguous from lane 0, is the number of enabled lanes.  The registers
  `weight_base_addr` and `act_base_addr` are never read and are left out.
* **`LayerSchedule`**: the abstract specification of the controller: a cursor
  over (layer, activation, group) for the multiply-accumulates and (layer,
  group) for bias, sigmoid and store.
* **`FeedforwardControllerEnv`**: the controller with the most general
  environment: configurations change only in IDLE, pipes become empty whenever
  they like, the reset comes whenever it likes.  `fetched` remembers the request
  of the cycle before, which is what the RAM shows.  States the properties, the
  inductive invariant and the refinement mapping.
* **`RamParameters`, `QuadportRam`, `QuadportRamEnv`, `FlatRam`**: the banked
  memory, with registered read data and routing; every sequence of requests; the
  flat memory that it implements, operation by operation.
* **`NeunetMac`, `NeunetSigmoid`, `Regfile`, `RegisterArray`**: the other
  components, each a step operator for one clock edge (`MacStep`, `SigStep`,
  `RegfileStep`, `RegistersStep`) and the wires they drive.  Addition,
  multiplication and sigmoid are operators on abstract words.
* **`Accelerator`**: the wiring; `Tick(bus)` is one edge of everything.
* **`Network`**: `feedforward()` and `dot()` as pure functions.
* **`AcceleratorDriver`**: `program_accelerator()`, `feedforward_hw()` and the
  loop of `evaluate()`.  One action per bus access; a write takes one cycle and
  a read two (`neural_net_accelerator_hw.tcl:128-132`), and any number of idle
  cycles may come between accesses.
* **`AcceleratorSystem`**: the properties of the whole.
* **`AcceleratorSystemInv`**: where `program_accelerator()` puts the network, and
  the inductive invariant of the whole: `MachineInv` (places) and `ValuesInv`
  (what is in them).  It uses the controller's own invariant through
  `INSTANCE FeedforwardControllerProofs`, with the program's configuration as the
  only one.

### The rest of the program

* **`Program`**: `main()` with the functions of `network.c` it calls.  `mem` is
  every word of `main`'s variables but the data sets; pointers are the names of
  arrays and are followed as the code follows them (`Address`).  The actions are
  the stages of the set-up, one `fread` or `fwrite` of a float, one test of
  `evaluate()`, the exit, and `Stop`, the board losing power or being reset,
  which keeps any part of an unfinished dump.  `RunAgain` starts the program
  anew, built with either choice of the two macros.
* **`Training`**: `SGD` with `shuffle`, `update_mini_batch` and `backprop`: one
  action per swap, per sample and per minibatch.  `used` remembers the samples
  of the epoch.

### The board support package

* **`JtagUart`**: the driver's `sp` record under its own names, the core (`dev`),
  the call of the program (`call`), the interrupt routine (`isr`) and the host.
  A routine is cut into steps exactly where another party can act in between and
  the difference can be seen: the snapshot of the indices, the `memcpy`, the
  store of the index, the section with interrupts off.  Bytes are numbered in the
  order in which they are sent, so that a lost, repeated or overtaken one shows.
  `WriteSpin` and `ReadSpin` are the busy-waiting loops.
* **`ConsoleStream`**: the abstract specification: two bounded first-in first-out
  streams.
* **`FileTable`**: the pool (`alt_fd_list`, `alt_max_fd`), the registered names,
  and the calls.  `held` remembers what the program was given.  `Close` and the
  calls are made on descriptors the program holds (section 5 says what the code
  does with others).
* **`RoZipFs`**: the zip file system as operators on an image, laid out byte by
  byte: look-up by name, `find_file_entry` by pointer, read and seek.
* **`PosixFiles`**: the abstract specification of read-only files.
* **`Interrupts`**: the handler table, written in two halves and enabled in a
  third step; sections with interrupts off, which nest by restoring what they
  found; the exception, the dispatch by priority, the return.
* **`Alarms`**: on top of it, `alt_tick` alarm by alarm, `alt_alarm_start` and
  `alt_alarm_stop` statement by statement, the doubly linked list with its two
  halves of insertion and removal, callbacks that start and stop alarms, and the
  time of day.  `elapsed` and `due` are the ticks that the wrapping counters
  stand for.
* **`CfiFlash`**: the driver (identification, `alt_flash_cfi_write`, the block
  and word loops of both command sets) and an external chip that carries out one
  operation at a time, on its own, and may report an error, hang or lose power.

### Proofs and instances

`MC*` modules give the constants their values.  `*Proofs` modules hold the
theorems of section 4.

A few operators are commented "Variant": a definition with a plausible bug.
Putting one in the place of the definition that follows it makes TLC report a
violation of the property that `PROJECT.json` pairs with it, which shows that the
property can fail.

### Abstractions

* Words of the accelerator are abstract.  In the `system` run they are terms: two
  words are equal only if the same operations in the same order made them; in
  `system_full_layers` they are fingerprints of such terms, numbers modulo a
  prime.  Addition and multiplication are commutative (as IEEE addition and
  multiplication are), not associative, so a sum in another order is another
  word.  The C `sigmoid()` computes in double and the hardware in single
  precision; both are the one operator `Sigmoid`, so equality of rounding is not
  claimed.
* The pointer registers of the slave are 32 bits wide and only their low 16
  bits are used by the RAM; the low 16 bits are kept.
* A size register keeps its two halves as a record.
* The debug reads of registers 2-7 in `main.c:113-124` change no state and are
  among the idle cycles.  Time is counted in clock edges.
* Floating-point cores, `altsyncram` and the processor are external; they are
  modelled from their instantiation (latencies 5, 7 and 30; unregistered outputs
  with read enable; one access at a time).
* `Training` computes in a prime field with any table for the sigmoid: an
  expression is right there only if it is the right polynomial of the weights
  and of sigmoid and its derivative as the code has them.  Rounding is not
  modelled.  Each run of an epoch is the code's order of loops.
* `LayerSchedule`: its `Abort` may come at any time, puts the cursor back to the
  start and leaves the sizes open, so it is looser than the reset it stands for; it
  cannot go on in the middle, so skipped or repeated work still shows.
* `Program`: `network_init` fills the arrays by their names rather than through the
  pointers that `main` has set; `NetworkIsWired` is what makes the two the same.  The
  store to `w_1[30]` goes to any variable of `main` but the data
  sets, or to none; which one it is depends on the compiler's layout of the
  stack.  Uninitialised words are `Junk`.  Files are sequences of floats, and a
  partial float at the end of a file is none.
* `JtagUart`: the alarm does not fire while the interrupt routine runs (both are
  at interrupt level).  `sp.timeout` is never changed during a call.
* `FileTable`: a name is a sequence of parts (mount point, separator, file),
  the program never opens the bare mount point (section 5),
  and the only file system is the zip file system; what character devices
  transfer is `JtagUart`'s.  An image that passes the checks before the mount is
  an archive (`IsArchive`): each entry of its directory gives the place and the
  length of one of its records.  The checks do not look for that.
* `Alarms`: the model has a system clock; this board has none (`system.h:184`),
  and all of these calls fail on it, so what is modelled is the HAL for a board
  with a clock.  A callback does not stop the alarm that `alt_tick` goes on with
  next, and nobody asks for an interval of 2^32-1 ticks: section 5.
* `CfiFlash`: a chip that works finishes in the time it states, so a timeout
  means that it hangs.  What a hung Intel chip shows in place of its lock bit is
  either value.  Bus commands are named by what they do.


## 3. Runs

| Run | Shows | Bounds |
|---|---|---|
| `controller` | `TypeOK`, `WeightsInStep`, `ActivationInStep`, `BiasesInStep`, `StoresInPlace`, the inductive `ControllerInv`, and that the controller implements `LayerSchedule` | 3 inputs; all 81 pairs of layer sizes from 1 to 9: one, two and three groups with every remainder; memory of 256 words. 42,797 states |
| `ram` | `ImplementsFlatRam` | two groups of four words (both banks, both values of every address bit used by the routing), two words, two four-word patterns that tell all lanes from their neighbours; all 256 initial contents. 42,016 states |
| `system` | the ten properties of the accelerator below | 3 inputs, 5 hidden neurons (a full and a partial group), 2 outputs (a partial group); hardware latencies; two tests; one reset anywhere; 72 words of memory, which the network fills. 33,717 states |
| `system_full_layers` | `OutputCorrect`, and the inductive `SystemInv` | 30 hidden and 10 output neurons, as `network.h`; 6 inputs instead of 784. Eight groups: the pass is longer than the multiplier (5) and the adder (7), so products arrive while others are issued, and indices use all five bits. 4,346 states |
| `console` | `JtagUartTypeOK`, `NothingLostOrReordered`, `TransmitNeverStalls`, `ReceiveNeverStalls`, `ConsoleIsAStream`, `CallsReturn` | buffers of 3 bytes (2 usable, so that calls of 3 fill, wrap and wait), hardware FIFOs of 1 and 2; four bytes out, four in, or one each way; the host changes its mind once; with a clock, with a timeout of 1 or 2, or without. 229,914 states |
| `files` | `DescriptorsAreHeld`, `LocksAreRespected`, `FilesArePosix` | two descriptors beside the standard three, so that the pool runs out; files of 0 and 2 bytes; one image whose second record cannot be read; a console that is missing; a name that only begins like the mount point, "/mnt/rozipfs2b", and must be refused. 12,262 states |
| `program` | `NetworkIsWired`, `NetworkSurvives`, `CountIsAccuracy` | 1 input, 2 hidden and 3 output neurons; two runs; files of 0, 6 (ends within a neuron), 13 (whole) and 14 floats, and none; every output out of three values, so with ties. 579,608 states |
| `training` | `DeltasAreGradients`, `EachSampleOnce` | numbers modulo 5, layers of 1, 2, 2 and 2 neurons (so two hidden layers, through which the error is passed twice), three samples in minibatches of two, two epochs, every value of `rand()` up to 4. 1,040 states |
| `clock` | `AlarmsOnTime`, `AlarmListIsWhole`, `CallsAreRegistered`, `TimeIsKept` | three alarms (symmetric), two interrupt lines, a counter of four values in five ticks, so that it wraps, intervals of 0 and 2. 1,829,682 states |
| `flash` | `WriteIsExact`, `OtherBlocksKept` | six bytes in a block of four and one of two, in both orders; both command sets; words of one and two bytes; chips that must be refused, one that answers no probe among them; two writes of 1, 3 or 4 bytes anywhere; one loss of power. 282,754 states |
| `aligned_rows`, `lock_exclusive` | disagreements, section 5 | |

### What the properties say

*The accelerator.* Two inferences matter because the second starts from what the
first left: the status, the working pointer, the accumulators, the input area
with outputs in it.  784 inputs differ from a few only in how often the
activation loop runs; that its pointers are right for every count is a theorem.
A second reset adds nothing that the first does not: after a reset only the
RAM's contents are left, and the program rewrites what it uses.

* `OutputCorrect`: what `feedforward_hw()` returns is `feedforward()`'s result.
* `SystemInv`: the inductive invariant of section 4: at every clock edge of a
  computation every word in the memory, the pipes and the accumulators is the one
  that `feedforward()` has at that point.
* `NetworkStaysProgrammed`: the program's layout of weights and biases is the
  one the controller walks, and no inference damages it.
* `WeightsFetched`: at each multiply-accumulate the lanes show the weights of
  the neurons issued and the activation loaded.
* `NoOperationLost`: no collision in the adder, on the register file's write
  port, or with the clearing of the accumulators.
* `OperandsCurrent`: nothing reads an accumulator that an operation in a pipe is
  still to write.
* `SlaveIsHeard`: the program uses the data register and starts computations
  only when the arbiter and the controller listen.
* `ControllerAssumptions`: the program starts the controller on a programmed
  configuration and leaves it alone until the controller is in IDLE again: what
  the theorems of section 4 assume of the environment.
* `InputAreaStays`: the input pointer is the same, and aligned, at every test.
* `PollEnds`: every poll loop is left.
* `SystemTypeOK`: kinds of the registers.

*The program.*

* `NetworkIsWired`: wherever the store past `w_1` goes, a network that is loaded
  or used has a word of its own for each of its numbers.
* `NetworkSurvives`: the numbers of a file are where they belong until the
  program ends, and what a run that ended has dumped is what a later run has.
* `CountIsAccuracy`: `evaluate()` counts the tests whose labelled output is the
  largest, although it overwrites the outputs while it compares them.
* `DeltasAreGradients`: after each minibatch `db` and `dw` are the sums of the
  derivatives of the cost, written out as in the chain rule and not as in the
  code, and the weights are still those they were taken at.
* `EachSampleOnce`: no sample twice in an epoch, and only those left out that do
  not fill a minibatch.

*The board support package.*

* `NothingLostOrReordered`, `ConsoleIsAStream`: bytes arrive in order and once;
  the only ones that do not are those thrown away when the host is gone.
* `TransmitNeverStalls`, `ReceiveNeverStalls`: a byte in the buffer always has an
  interrupt that moves it on, or a call that is about to ask for one; a lost
  wake-up would break this.
* `CallsReturn`: each read, write and close returns, if there is a clock or a
  host and what a read waits for is sent.
* `DescriptorsAreHeld`: what is marked in use in the pool is what the program
  holds; nothing leaks when `open` fails half-way.  Each descriptor is on what its
  name says, stated without the look-up of the code: on the device of just that
  name, or on the file of the archive whose name follows the mount point and a
  separator, with its pointer in that file.
* `LocksAreRespected`: no step puts a second descriptor on a device that is
  locked, by what is in the pool.  (The lock is granted too often: section 5.)
* `FilesArePosix`: files that are found by walking over the archive at each call
  are files with positions.
* `AlarmsOnTime`, `AlarmListIsWhole`: no alarm runs before it is due or is passed
  over, also across the wrap; the doubly linked list is whole whenever an
  interrupt may see it.
* `CallsAreRegistered`: a handler is called with its own context.
* `TimeIsKept`: `gettimeofday` is the time set and the ticks since.
* `WriteIsExact`: after a write that reports success the range holds the data.
* `OtherBlocksKept`: no write, finished or cut short, changes a block it was not
  asked to write to or has not come to yet.  (Inside a block that is erased the
  other bytes are lost, as the comment of `alt_flash_cfi_write` says.)

### Fairness

* `system`: only `WF(Program)`: the processor goes on executing instructions.
  Each of them is a clock cycle of the accelerator, so the hardware needs no
  fairness of its own.  Resets are bounded; with endless resets no inference
  ends, and the code does not promise that.
* `console`: `WF` of the program's own steps and of the interrupt routine's (the
  processor runs, and takes interrupts that are on), of the alarm (the clock
  ticks, when there is one) and of the host taking a byte while it is connected.
  Nothing is assumed of what the host sends or of when it is plugged in.
* Every other property is one of safety.

Deadlock is checked wherever the system goes on for ever (`controller`, `ram`,
`system`, `system_full_layers`, `files`).  In `console`, `program`, `training`,
`clock` and `flash` it is switched off: their programs finish, a write to a
console nobody reads may block for ever without a clock, a hung Intel chip blocks
its driver, and ticks, runs and writes are bounded in number.

## 4. Proofs

Each theorem is for every value of the constants that satisfies the assumption
named beside it; the assumptions are declared with the constants, and TLC
evaluates each on the instance it checks.

**`FeedforwardControllerProofs`** (`InputSizeAssumption`, `RamWordsAssumption`,
`ConfigsAssumption`: at least one input, a memory of more than four words, layers
of 1 to 31 neurons and no area over the end of the memory; the hardware checks
neither, the program's sizes satisfy both).

* `ControllerInvariant`: `EnvSpec => []ControllerInv`; `TypeCorrect`,
  `OperandsInStep`, `ActivationsInStep`, `BiasesAreInStep` and `StoresStayInPlace`
  are its consequences.
* `ControllerImplementsSchedule`: `EnvSpec => Schedule!Spec`.

The in-step properties are about the request of the cycle before, so they are not
inductive alone: `ControllerInv` adds what each pointer holds in each state as a
function of the loop counters (`LoopPointers`), that a pass is at a group boundary
exactly in the four issue states (`PassUnderWay`), and that the layer registers
copy the configuration (`LayerLoaded`).  The one nonlinear fact is that
`GroupsOf(n)` groups are issued per activation, so that after activation k the
pointer is at row k; `RowsLemma`, `GroupsLemma` and `PassLemma` isolate it, and
`WidthLemma` says that none of the additions wraps.  That the program provides
such an environment is `ControllerAssumptions`, which the `system` run checks and
`ControllerAssumptionsHold` below proves.

**`AcceleratorSystemProofs`** (`DriverAssumption` and `LayoutAssumption`: at least
one input, layers of 1 to 31 neurons and not of a multiple of four, a memory that
the network and the area of the activations fit in; any latencies of the pipes,
number of tests, number of resets, network and float operations).  A size that is
a multiple of four is the disagreement `aligned_rows`; 784, 30 and 10 satisfy the
assumption.

* `MachineInvariant`: `SystemSpec => []MachineInv`, and its consequences
  `SystemTypeCorrect`, `NetworkIsProgrammed`, `WeightsAreFetched`,
  `NoOperationIsLost`, `OperandsAreCurrent`, `SlaveIsAlwaysHeard`, and as action
  properties `InputAreaIsKept` and `ControllerAssumptionsHold`.
* `SystemInvariant`: `SystemSpec => [](Commutative => SystemInv)`, and
  `OutputIsCorrect`: every inference returns what `feedforward()` returns.

`MachineInv` says where everything is.  The program: its loops within bounds
(`LoopsOK`), the pointers it has saved (`RegistersOK`), the working pointer where
the next word belongs (`PointerInStep`), the words it has stored so far
(`NetworkStored`).  The accelerator: it computes only while the program polls
(`PollInStep`), the RAM shows what was asked for (`RamOK`), the pipes hold
operations of the running pass only, on accumulators that have been issued
(`PipesOK`), and the controller's own invariant.  The last is not proved again:
each step of the system is a step of `FeedforwardControllerEnv` with the program's
configuration, and the controller's theorems hold for any.  `PipesOK` is what makes
the pipes safe: `MAC_WAIT` and its like are left only when they are empty, so an
operation never meets one of another pass, and inside a pass no two are on the same
accumulator.

`ValuesInv` says what is there, with the values of `feedforward()` as the measure:
an accumulator of the running layer holds its value before the pass until it is
issued, and from then on its value after the pass, or an operation in a pipe is
going to write that value (`AccumulatorsRight`, `ResultsRight`); the area of the
activations holds a layer's (`ActivationsRight`), the program's array the last's
(`OutputsRight`).  Where the store overwrites the area, the layer it held is not
read any more.  `dot()` is a recursive function; that it exists and obeys its
equation is shown by a least counterexample.  `Commutative` is a hypothesis because
the pipes get their operands in the other order than `dot()` has them; IEEE
addition and multiplication are commutative.  Associativity is neither assumed nor
true.

**`MemoryProofs`**, the two memories.

* `RamIsFlat`, the refinement of `FlatRam` for memories of any size and any set of
  words; the invariant behind it is only that memories and outputs are total.
* `WriteIsExactTheorem` and `OtherBlocksKeptTheorem`, for any number of regions of
  blocks of any number and size, in either order, words of 1, 2 and 4 bytes, any
  number of writes and of losses of power.  From `CfiFlashAssumption`: a block is a
  whole number of words.  The invariant `FlashInv` has five parts.  `ChipInv`: the
  chip is busy only while the driver waits for it, unless it is dead.  `CallInv`:
  the driver's table is the chip's blocks, the bytes before `src` are in place, and
  after the first block a call is at the start of one.  `StageInv`, for each stage of a
  block: it is going to be erased; it is erased; its first `i` bytes are in place,
  the rest is erased, and what the chip is doing makes that true of the next `i`.
  `KeptInv`: the other blocks are as they were and the chip is not working on them.
  `DoneInv`: success means the data is there.

  The proof rests on `LayLemma`, that the blocks of a list of regions tile the
  device (`Tiles`: each byte is in exactly one, and they begin and end at words),
  and on `ReverseLemma`, that the driver's swap gives the chip's own order
  (`BlocksLemma`).  `PlacesLemma` and `NextWordLemma` say that every word
  programmed is inside the block, overlaps no byte programmed before with another
  value, and brings `i` to a word's end.  That last is where the hypothesis
  `[]WordsAreCovered` is needed, on the calls and not on the constants: a write that
  begins inside a word of four bytes reaches to its end.  One that does not is more
  than `alt_flash_program_block` expects: it spills (section 5; with such a write TLC
  finds `OtherBlocksKept` violated).  Words of one and two bytes need no hypothesis:
  `NarrowFlashIsExact` has both properties for all writes where no chip has wider
  ones, as in the run.

**`JtagUartProofs`** (buffers and FIFOs of any size): `UartInvariant` and its
consequences `JtagUartTypeCorrect`, `NothingLostOrReorderedTheorem`,
`TransmitNeverStallsTheorem`, `ReceiveNeverStallsTheorem`, and the refinement
`DriverImplementsStream`.  The invariant says where each byte is, as the
numbers in order from the host's end to the program's, and what each of the
three routines may rely on between its steps: a slot that was reserved is still
free, a snapshot of the other side's index is stale only in the harmless
direction.  `TransmitNeverStalls` needs the last: between the routine finding the
buffer empty and switching interrupts off nothing can be put in.

**`FileTableProofs`** (any names but the bare mount point, any pool, any
archive; `FileTableAssumption`):
`TableInvariant`, `DescriptorsTheorem`, `LocksTheorem`, `FilesInvariant`,
`FilesArePosixTheorem`.  `LocksAreRespected` holds although `alt_fd_lock` leaves the
highest descriptor out of its search, because a locked descriptor is always the
lower of any two on its device, and it is that one that `alt_file_locked` finds;
the invariant carries this.  `FilesArePosixTheorem` is a refinement: every step is
a step of `PosixFiles` or changes none of its state.  The driver keeps one pointer and
looks for the file at every call, so the invariant (`FilesInv`) is that a pointer is in
the data of the file that the descriptor was opened on, or right behind it.  That
this place belongs to one file only follows from the layout (`ApartLemma`: a
header is at least a byte); the layout is a recursive function, which exists and grows by
the argument from a least counterexample.  `DescriptorsTheorem` takes both
invariants: the prefix test and the test of the character behind it put a name
together again from mount point, separator and the rest (`NameLemma`), and the
rest is the name of the entry on which the pointer is.

**`AlarmsProofs`** (`AlarmsAssumption`): `CallsAreRegisteredTheorem`, from an
invariant on the table, the enables and the routine that registers; and
`TimeIsKeptTheorem`, for any word size, tick rate and times: `alt_settimeofday`
saves a time of day reduced by the ticks so far, which `alt_gettimeofday` adds
again, and the carry between microseconds and seconds comes out right.

`AlarmsInvariant`: `Spec => [](ListInv /\ AlarmsInv)`, for any number of alarms,
any intervals up to `Word - 2` and any number of wraps of the counter, gives the
next two.

* `AlarmListIsWholeTheorem`.  `Ring(l, R)` says that the head and the alarms `R`
  are linked both ways and that no smaller part that holds the head is closed
  under `next`; so a link can be put in or taken out without following the list.
  Between the two halves of an insertion or removal the list is such a ring with
  half of the links changed, and interrupts are off.  What the property says of a
  walk of `Cardinality(running)` links follows from the ring by counting
  (`FromIsRing`): the walk exists (least counterexample), stays in the ring, and
  either visits as many places as the ring has or comes back to one, after which
  what it has visited is closed.
* `AlarmsOnTimeTheorem`.  An alarm is `Set` when its word is `due` modulo `Word`,
  its flag says that `due` is in the next turn of the counter, and `due` is less
  than a turn ahead; `Left` is the same as of one tick ago.  During `alt_tick` the
  alarms in `Rest` are `Left` and the others `Set`; `Ahead` says that `Rest` is
  what the walk still comes to, whatever a callback starts or stops (an
  alarm started goes in behind the head, which the walk has passed; one stopped
  leaves `Rest`).  It needs that a callback does not stop the alarm that
  `alt_tick` goes on with, as the model assumes (section 2), and intervals below
  `Word - 1`.

**`TrainingProofs`**: `EachSampleOnceTheorem`, for any number of samples, size of
the minibatch and `RAND_MAX`: the map stays a permutation (a swap keeps it, and
`PickLemma` says that `j` is inside the array), and the samples used are the
first multiples of the minibatch in it.

`DeltasAreGradientsTheorem`, for a network of any number of layers of any size,
any table for the sigmoid, any samples and any modulus (`TrainingAssumption`: the
layers have neurons, the samples the length of the outer layers, and the networks
a number at each place).  `backprop` goes through the layers from the output down
with the transposed weights; the specification's derivative goes from the changed
weight up with the chain rule.  `Paired` is the sum, over the neurons of a layer,
of the slope of the cost times the change of the activation.  It is the
derivative in the output layer (where it is the definition) and the error times
the input in the layer of the weight (`PairedEndLemma`), and from one layer to the
next it stays the same (`PairedStepLemma`, by `AdjointLemma`: a double sum in
either order, which is what the transposition is).  That is `BackpropIsDerivative`.
`GradientInv` then adds the samples up: at any sample the deltas are the sums over
those taken since the minibatch began, for the network as it is, because the
network changes only between minibatches.  Sums are the library's fold over a
set; that the fold exists and does not depend on the order in which it picks is
shown for all finite sets by taking a smallest counterexample (`GrowLemma`,
`FoldsExist`, `TotalTakeLemma`), and so are the layers of the three passes.

**`ProgramProofs`** (`ProgramAssumption`):

* `CountIsAccuracyTheorem`: the scan for the largest output is a recursive
  function over the outputs.  That it exists and ends at the first of the largest
  is shown by taking a least counterexample (`LeastLemma`), so no induction
  scheme is needed; the rest is that at most one label can be right.
* `NetworkIsWiredTheorem`: the invariant names what each stage of the set-up has
  connected.  The store past `w_1` comes in the last step of the first stage and
  cannot hit the rows connected before it; everything else it may hit is set by
  a later stage before the network is used.  From there on only words of numbers
  are written, because `Address` of a position is its own word (`AddressLemma`),
  and no two positions share one (`CellUnique`).
* `NetworkSurvivesTheorem`, for any number of runs and files of any length.
  `Place` of a position is its number in the order of `Step` (`CursorStep`,
  `PlaceUnique`), so that `FileInv` can say how far a load or a dump has come:
  everything before the cursor is in place, and what is left of the stream is the
  rest of the file.  A dump that is stopped leaves any prefix and `saved` empty; one
  that ends leaves the whole network.

Every safety property of every passing run is the statement of a theorem.  Only
model-checked: `PollEnds` and `CallsReturn`, which are liveness under fairness and
out of the prover's reach, as is ENABLED.  No module declares a RECURSIVE operator.

## 5. Disagreements found

Shown by a run:

* **`aligned_rows`**.  `ALIGN_ADDR` computes `(ptr + 4) & ~3`, which skips a group
  when the pointer is aligned already.  After a row of a layer whose size is a
  multiple of four it is, so the program's rows are one group further apart than
  the controller's.  With 30 and 10 neurons this does not happen; with 4 hidden
  neurons the run fetches wrong weights.
* **`lock_exclusive`**.  `alt_fd_lock` (`alt_fd_lock.c:61`) searches below
  `alt_max_fd`, which is the highest descriptor in use and not one more, so it
  grants a lock on a device that is open there.

Met while reading, without a run (paths below BSP unless given):

* `LOAD_ACT` "Loads the next four input activations / Increments the pointer to
  the activations by 4" (HW `feedforward_controller.sv:221-222`); it loads one and
  moves by one.  "data being read advance read/working ptr, done in above flop"
  (HW `neunet_accel_mm_register_array.sv:158`); that flop is commented out
  (lines 138-142).
* `network_init` "with random weights and biases" (SW `network.c:8`) sets sums of
  indices; a missing file is announced as "Network will consist of random numbers"
  (SW `network.c:59`), but the weights are what the stack held.
* A layer of 32 neurons or more is cut to five bits, and a layer without inputs
  counts down below zero (HW `feedforward_controller.sv:202, 229`).
* `update_mini_batch` puts `dw`, about 7.4 MB, on the stack (SW `network.c:137`).
* A write of zero bytes to the console returns `-EIO`
  (`altera_avalon_jtag_uart_write.c:197, 214`).
* The zip file system answers a seek past the end with `-EINVAL`, not `-EROFS` as
  its comment says (`altera_ro_zipfs.c:501`), accepts a seek to before the start
  and then reads other bytes of the archive (`:524`), and its mount check never
  compares the directory with the records although the look-up relies on it
  (`:335-336, 584`).
* Opening the bare mount point is a match for `alt_find_file` (`:74`), and
  `alt_ro_zipfs_open` then looks for the name that begins one byte behind the end
  of the string (`altera_ro_zipfs.c:455`).  What is there is not the caller's;
  `FileTableAssumption` leaves that name out.
* A descriptor is only checked for being negative.  One that was closed has no
  device any more, and the driver's functions are fetched through the null pointer
  (`alt_read.c:104-105`, `alt_close.c:84`).
* `alt_settimeofday` multiplies in 32 bits where `alt_gettimeofday` has 64
  (`alt_settod.c:84`): set after 2^32 microseconds of running, the time read back
  is not the time set, against its comment.  `TimeIsKept` is bounded below that
  product, so it cannot show this.
* A callback that stops the alarm after its own leaves `alt_tick` on an alarm that
  is its own successor (`alt_tick.c:102`).  An alarm of 2^32-1 ticks is due at the
  next tick, because `alt_alarm_start` adds one.
* `alt_irq_handler` expects an active interrupt (`alt_irq_handler.c:141`): if the
  condition went away before it looked, its search does not end.  A negative
  interrupt number passes the check of `alt_iic_isr_register.c:82`.
* A flash write past the end of the device returns 0 and writes nothing past it
  (`altera_avalon_cfi_flash.c:107`); with words of four bytes a write that lies
  inside one word spills into the next (`:281-331`).  A hung Intel chip is polled
  without a timeout (`altera_avalon_cfi_flash_intel.c:204`).

## 6. Plan

Next, extending the model:

1. `OpenBus`: the slave and the accelerator under arbitrary bus cycles, for what
   holds whatever the program does: the status is set only by `DONE`, a
   computation keeps its configuration or is seen to lose it, `SAVE_IN_ADDR` with
   an unaligned pointer, and `test_mmregs()` of `hello_world.c`.
2. `Inference`: an abstract specification of one inference (load, compute,
   answer), implemented by the system.
3. `LargeLayers`: sizes beyond five bits and empty layers, where the counters
   wrap.

Each with its invariants as theorems, as for the modules there are.

## 7. Not modelled

* **Tables**: `training_data.h`, `validation_data.h` and `test_data.h` are three
  headers of some 3,250 lines of numbers each, more than a third of all lines of
  C and hardware description here.  They hold data, not behaviour; any data set stands for them.
* **Generated description of the board**: `system.h`, `linker.h`, register maps
  (`*_regs.h`), `alt_sys_init.c`, `qsys` and pin files: constants, of which the
  models take those that matter (depths, lines, the missing clock).
* **Floating-point cores, PLL, PIO, SDRAM controller**: vendor IP; external.
* **Assembler**: `crt0.S`, exception entry and exit, multiplication and division
  in software: instruction sequences below the level of these models.
* **Start-up and exit** (`alt_main.c`, `alt_load.c`, `alt_exit.c`): straight-line
  calls that run once before and after everything; the redirection of the
  standard descriptors is in `FileTable`.
* **Device registration** (`alt_dev_llist_insert.c`, `alt_find_dev.c`): runs at
  start-up only, with interrupts off; the lists are constants of `FileTable`.
* **Delays** (`alt_busy_sleep.c`): a loop calibrated in cycles; nothing to say
  about it without a clock.
* **Caches and flushes** (`alt_dcache_flush*.c`, `alt_icache_flush*.c`,
  `alt_remap_*.c`), **performance counter**, **instruction exceptions** and
  **profiling** (`alt_gmon.c`): no state that the program sees, or unused here.
* **Thin wrappers** (`alt_getchar.c`, `alt_putstr.c`, `alt_printf.c`, `alt_isatty.c`,
  `alt_usleep.c`, `alt_times.c`): they format, or pass a call on.
* **Heap** (`alt_sbrk.c`, malloc locks): one comparison; the locks are empty in a
  program without an operating system.
* **Logging** (`alt_log_printf.*`): switched off in this build, formatting only.
* **DMA, host file system, Ethernet, LCD and timer drivers in the headers**: not
  instantiated on this board; nothing calls them.
* **Stubs** (`alt_kill.c`, `alt_link.c`, `alt_fork.c` and the like): each sets
  `errno` and returns -1.
* **`test_mmregs`** of `hello_world.c`: a register test that nothing calls; on the
  plan.

Most of the repository's lines are therefore not behind any definition: of some
26,600 lines of C, headers and hardware description that are not blank, almost
9,800 are the tables, and most of the rest is what the list above names, with its
licence texts.  What is mapped is the control of the accelerator, of the
program, and of those parts of the BSP that keep state while the program runs.
