------------------------------ MODULE JtagUart ------------------------------
(***************************************************************************)
(* The interrupt driven JTAG UART driver of the board support package: the *)
(* console of the program (system.h:101-117).  A driver call of the single *)
(* threaded program, the interrupt routine and the one second alarm share  *)
(* sp; the host at the other end of the cable drains and fills the two     *)
(* hardware FIFOs.  A routine is cut where another actor can run: the      *)
(* interrupt routine and the alarm suspend the program but not each other, *)
(* and the device moves under all of them.  Bytes are numbered in the      *)
(* order in which each side sends them.                                    *)
(***************************************************************************)
EXTENDS Integers, Sequences, FiniteSets, SequencesExt

CONSTANTS
  BufLen,          \* ALTERA_AVALON_JTAG_UART_BUF_LEN
  WriteDepth,      \* JTAG_UART_0_WRITE_DEPTH, the transmit FIFO
  ReadDepth,       \* JTAG_UART_0_READ_DEPTH, the receive FIFO
  DefaultTimeout,  \* ALTERA_AVALON_JTAG_UART_DEFAULT_TIMEOUT, in seconds
  IntMax,          \* INT_MAX
  TickRates,       \* what alt_ticks_per_second() may be: zero without a clock
  Counts,          \* the lengths a program passes to read and write
  Timeouts,        \* the values a program passes to TIOCSTIMEOUT
  Loads,           \* bounds: the bytes the program writes and the host sends
  MaxPlugs         \* bound: times the host connects or disconnects

ASSUME JtagUartAssumption ==
  /\ BufLen \in Nat /\ BufLen > 1
  /\ WriteDepth \in Nat \ {0} /\ ReadDepth \in Nat \ {0}
  /\ IntMax \in Nat /\ DefaultTimeout \in 2..(IntMax - 2)
  /\ TickRates \subseteq Nat /\ Counts \subseteq Nat /\ Timeouts \subseteq Nat
  /\ Loads \subseteq Nat \X Nat /\ MaxPlugs \in Nat

VARIABLES
  sp,      \* altera_avalon_jtag_uart_state
  dev,     \* the core: its FIFOs, its enables and its activity bit
  call,    \* the driver call in progress and its locals
  isr,     \* the interrupt routine and its locals
  prog,    \* the bytes the program has had accepted and has read
  host     \* the other end: connected, plugs, bytes sent and received, its load

vars == <<sp, dev, call, isr, prog, host>>

Enables == {"RE", "WE"}
None    == [pc |-> "idle", nonblock |-> FALSE, left |-> 0, done |-> 0,
            in |-> 0, out |-> 0, n |-> 0]
IsrIdle == [pc |-> "idle", wi |-> FALSE, avail |-> FALSE, space |-> 0]

-----------------------------------------------------------------------------
(* The circular buffers: a buffer holds what lies between its two indices. *)

Succ(i)            == (i + 1) % BufLen
Held(buf, in, out) == [k \in 1..((in - out + BufLen) % BufLen) |->
                         buf[(out + k - 1) % BufLen]]
TxHeld == Held(sp.tx_buf, sp.tx_in, sp.tx_out)
RxHeld == Held(sp.rx_buf, sp.rx_in, sp.rx_out)

(* Variant: the room computed without keeping one slot free.               *)
RoomNoSlack(in, out) == IF in < out THEN out - in ELSE BufLen - in

(* The room for one memcpy from index in, and what one memcpy can take.    *)
Room(in, out)  == IF in < out THEN out - 1 - in
                  ELSE IF out > 0 THEN BufLen - in ELSE BufLen - 1 - in
Ready(in, out) == IF in >= out THEN in - out ELSE BufLen - out

AtMost(a, b) == IF a > b THEN b ELSE a

-----------------------------------------------------------------------------
(* The core as the driver sees it.                                         *)

RI == "RE" \in dev.enable /\ dev.rx # <<>>
WI == "WE" \in dev.enable /\ Len(dev.tx) < WriteDepth

(* IOWR_ALTERA_AVALON_JTAG_UART_CONTROL of the enables in sp.              *)
SetEnable(e) ==
  /\ sp'  = [sp EXCEPT !.irq_enable = e]
  /\ dev' = [dev EXCEPT !.enable = e]

Init ==
  /\ \E rate \in TickRates :
       sp = [rx_in |-> 0, rx_out |-> 0, tx_in |-> 0, tx_out |-> 0,
             rx_buf |-> [i \in 0..(BufLen - 1) |-> 0],
             tx_buf |-> [i \in 0..(BufLen - 1) |-> 0],
             irq_enable |-> {"RE"}, host_inactive |-> 0,
             timeout |-> IF rate = 0 THEN IntMax ELSE DefaultTimeout]
  /\ dev = [rx |-> <<>>, tx |-> <<>>, enable |-> {"RE"}, ac |-> FALSE]
  /\ call = None /\ isr = IsrIdle
  /\ prog = [out |-> 0, in |-> <<>>]
  /\ host \in [connected : BOOLEAN, plugs : {0}, sent : {0}, got : {<<>>},
               load : Loads]

HostGone == sp.host_inactive >= sp.timeout

-----------------------------------------------------------------------------
(* The program: one driver call at a time, never while the interrupt       *)
(* routine runs.                                                           *)

Running(pc) == isr.pc = "idle" /\ call.pc = pc

Begin(pc, n, nb) ==
  /\ Running("idle")
  /\ call' = [None EXCEPT !.pc = pc, !.left = n, !.nonblock = nb]
  /\ UNCHANGED <<sp, dev, isr, prog, host>>

Goto(pc) == call' = [call EXCEPT !.pc = pc]

(* Variant: the indices are published when they are read, before the copy. *)
WriteSnapshotPublishes ==
  /\ Running("write")
  /\ LET n == AtMost(Room(sp.tx_in, sp.tx_out), call.left)
     IN  IF call.left = 0 THEN Goto("kick") /\ UNCHANGED sp
         ELSE /\ call' = [call EXCEPT !.pc = IF n = 0 THEN "kick" ELSE "copy",
                                      !.in = sp.tx_in, !.out = sp.tx_out, !.n = n]
              /\ sp' = [sp EXCEPT !.tx_in = (@ + n) % BufLen]
  /\ UNCHANGED <<dev, isr, prog, host>>

(* altera_avalon_jtag_uart_write: the stable copy of the two indices.      *)
WriteSnapshot ==
  /\ Running("write")
  /\ LET n == AtMost(Room(sp.tx_in, sp.tx_out), call.left)
     IN  IF call.left = 0 THEN Goto("kick")
         ELSE call' = [call EXCEPT !.pc = IF n = 0 THEN "kick" ELSE "copy",
                                   !.in = sp.tx_in, !.out = sp.tx_out, !.n = n]
  /\ UNCHANGED <<sp, dev, isr, prog, host>>

(* memcpy into the transmit buffer.                                        *)
WriteCopy ==
  /\ Running("copy")
  /\ sp' = [sp EXCEPT !.tx_buf = [i \in 0..(BufLen - 1) |->
              IF i \in call.in..(call.in + call.n - 1)
              THEN prog.out + call.done + 1 + i - call.in ELSE @[i]]]
  /\ Goto("publish")
  /\ UNCHANGED <<dev, isr, prog, host>>

(* Variant: the index runs off the end of the buffer.                      *)
WritePublishNoWrap ==
  /\ Running("publish")
  /\ sp' = [sp EXCEPT !.tx_in = call.in + call.n]
  /\ call' = [call EXCEPT !.pc = "write", !.done = @ + call.n, !.left = @ - call.n]
  /\ UNCHANGED <<dev, isr, prog, host>>

(* Only now does the interrupt routine see the bytes.                      *)
WritePublish ==
  /\ Running("publish")
  /\ sp' = [sp EXCEPT !.tx_in = (call.in + call.n) % BufLen]
  /\ call' = [call EXCEPT !.pc = "write", !.done = @ + call.n, !.left = @ - call.n]
  /\ UNCHANGED <<dev, isr, prog, host>>

(* With interrupts disabled: kick the interrupt routine.                   *)
WriteKick ==
  /\ Running("kick")
  /\ SetEnable(sp.irq_enable \cup {"WE"})
  /\ Goto(IF call.left = 0 \/ call.nonblock THEN "write_ret" ELSE "write_spin")
  /\ UNCHANGED <<isr, prog, host>>

WriteSpin ==
  /\ Running("write_spin")
  /\ call.out # sp.tx_out \/ HostGone
  /\ Goto("write_check")
  /\ UNCHANGED <<sp, dev, isr, prog, host>>

WriteCheck ==
  /\ Running("write_check")
  /\ Goto(IF call.out = sp.tx_out THEN "write_ret" ELSE "write")
  /\ UNCHANGED <<sp, dev, isr, prog, host>>

WriteReturn ==
  /\ Running("write_ret")
  /\ prog' = [prog EXCEPT !.out = @ + call.done]
  /\ call' = None
  /\ UNCHANGED <<sp, dev, isr, host>>

(* altera_avalon_jtag_uart_read: copy out until the buffer is empty.       *)
ReadSnapshot ==
  /\ Running("read")
  /\ LET n == AtMost(Ready(sp.rx_in, sp.rx_out), call.left)
         next == IF n > 0 THEN "take"
                 ELSE IF call.done > 0 \/ call.nonblock \/ call.left = 0 THEN "read_ret"
                 ELSE "read_spin"
     IN  call' = [call EXCEPT !.pc = next, !.in = sp.rx_in, !.out = sp.rx_out, !.n = n]
  /\ UNCHANGED <<sp, dev, isr, prog, host>>

(* memcpy out of the receive buffer; the slots are free only afterwards.   *)
ReadTake ==
  /\ Running("take")
  /\ prog' = [prog EXCEPT !.in = @ \o [k \in 1..call.n |-> sp.rx_buf[call.out + k - 1]]]
  /\ Goto("free")
  /\ UNCHANGED <<sp, dev, isr, host>>

ReadFree ==
  /\ Running("free")
  /\ sp' = [sp EXCEPT !.rx_out = (call.out + call.n) % BufLen]
  /\ call' = [call EXCEPT !.pc = "read", !.done = @ + call.n, !.left = @ - call.n]
  /\ UNCHANGED <<dev, isr, prog, host>>

ReadSpin ==
  /\ Running("read_spin")
  /\ call.in # sp.rx_in \/ HostGone
  /\ Goto("read_check")
  /\ UNCHANGED <<sp, dev, isr, prog, host>>

ReadCheck ==
  /\ Running("read_check")
  /\ Goto(IF call.in = sp.rx_in THEN "read_ret" ELSE "read")
  /\ UNCHANGED <<sp, dev, isr, prog, host>>

(* Variant: the receive interrupt stays as the interrupt routine left it.  *)
ReadReturnNoEnable ==
  /\ Running("read_ret")
  /\ call' = None
  /\ UNCHANGED <<sp, dev, isr, prog, host>>

(* With interrupts disabled: there is room again, so receive again.        *)
ReadReturn ==
  /\ Running("read_ret")
  /\ IF call.done > 0 THEN SetEnable(sp.irq_enable \cup {"RE"}) ELSE UNCHANGED <<sp, dev>>
  /\ call' = None
  /\ UNCHANGED <<isr, prog, host>>

(* altera_avalon_jtag_uart_close: drain the transmit buffer.               *)
Close ==
  /\ Running("close")
  /\ sp.tx_out = sp.tx_in \/ HostGone \/ call.nonblock
  /\ call' = None
  /\ UNCHANGED <<sp, dev, isr, prog, host>>

(* altera_avalon_jtag_uart_ioctl: TIOCSTIMEOUT, refused without a clock;   *)
(* what is out of range waits for ever.                                    *)
SetTimeout(t) ==
  /\ Running("idle") /\ sp.timeout # IntMax
  /\ sp' = [sp EXCEPT !.timeout = IF t >= 2 /\ t < IntMax THEN t ELSE IntMax - 1]
  /\ UNCHANGED <<dev, call, isr, prog, host>>

-----------------------------------------------------------------------------
(* altera_avalon_jtag_uart_irq, one pass of a loop per step.               *)

(* The core interrupts, or the routine looks at the control register again.*)
IsrLoop ==
  /\ isr.pc = "loop" \/ (isr.pc = "idle" /\ (RI \/ WI))
  /\ isr' = IF RI \/ WI
            THEN [pc |-> IF RI THEN "rx" ELSE "tx", wi |-> WI, avail |-> TRUE,
                  space |-> WriteDepth - Len(dev.tx)]
            ELSE IsrIdle
  /\ UNCHANGED <<sp, dev, call, prog, host>>

(* Take one character if there is room for it in the buffer.               *)
IsrReceive ==
  /\ isr.pc = "rx"
  /\ Succ(sp.rx_in) # sp.rx_out /\ dev.rx # <<>>
  /\ sp' = [sp EXCEPT !.rx_buf[sp.rx_in] = Head(dev.rx), !.rx_in = Succ(@)]
  /\ dev' = [dev EXCEPT !.rx = Tail(@)]
  /\ isr' = [isr EXCEPT !.avail = Len(dev.rx) > 1]
  /\ UNCHANGED <<call, prog, host>>

(* Buffer full, or the FIFO ran dry: characters left behind mean the       *)
(* buffer is full, so receive interrupts go off.                           *)
IsrReceiveEnd ==
  /\ isr.pc = "rx"
  /\ Succ(sp.rx_in) = sp.rx_out \/ dev.rx = <<>>
  /\ LET avail == Succ(sp.rx_in) = sp.rx_out /\ isr.avail
     IN  IF avail THEN SetEnable(sp.irq_enable \ {"RE"}) ELSE UNCHANGED <<sp, dev>>
  /\ isr' = [isr EXCEPT !.pc = IF isr.wi THEN "tx" ELSE "loop"]
  /\ UNCHANGED <<call, prog, host>>

IsrTransmit ==
  /\ isr.pc = "tx" /\ isr.space > 0 /\ sp.tx_out # sp.tx_in
  /\ dev' = [dev EXCEPT !.tx = Append(@, sp.tx_buf[sp.tx_out])]
  /\ sp' = [sp EXCEPT !.tx_out = Succ(@)]
  /\ isr' = [isr EXCEPT !.space = @ - 1]
  /\ UNCHANGED <<call, prog, host>>

(* Variant: transmit interrupts go off whenever the FIFO has been filled.  *)
IsrTransmitEndAlways ==
  /\ isr.pc = "tx"
  /\ isr.space = 0 \/ sp.tx_out = sp.tx_in
  /\ SetEnable(sp.irq_enable \ {"WE"})
  /\ isr' = [isr EXCEPT !.pc = "loop"]
  /\ UNCHANGED <<call, prog, host>>

(* No data left: transmit interrupts go off.                               *)
IsrTransmitEnd ==
  /\ isr.pc = "tx"
  /\ isr.space = 0 \/ sp.tx_out = sp.tx_in
  /\ IF isr.space > 0 THEN SetEnable(sp.irq_enable \ {"WE"}) ELSE UNCHANGED <<sp, dev>>
  /\ isr' = [isr EXCEPT !.pc = "loop"]
  /\ UNCHANGED <<call, prog, host>>

(* Variant: the seconds are counted only while nothing waits to be sent.   *)
TimeoutWhenDrained ==
  /\ sp.timeout # IntMax /\ isr.pc = "idle"
  /\ IF dev.ac
     THEN /\ dev' = [dev EXCEPT !.ac = FALSE, !.enable = sp.irq_enable]
          /\ sp' = [sp EXCEPT !.host_inactive = 0]
     ELSE /\ sp' = [sp EXCEPT !.host_inactive = IF sp.tx_in = sp.tx_out THEN @ + 1 ELSE @]
          /\ UNCHANGED dev
  /\ UNCHANGED <<call, isr, prog, host>>

(* altera_avalon_jtag_uart_timeout, run by the alarm once a second if  *)
(* there is a clock: it clears the activity bit or counts a second.        *)
Timeout ==
  /\ sp.timeout # IntMax /\ isr.pc = "idle"
  /\ IF dev.ac
     THEN /\ dev' = [dev EXCEPT !.ac = FALSE, !.enable = sp.irq_enable]
          /\ sp' = [sp EXCEPT !.host_inactive = 0]
     ELSE /\ sp' = [sp EXCEPT !.host_inactive = IF @ < IntMax - 2 THEN @ + 1 ELSE @]
          /\ UNCHANGED dev
  /\ UNCHANGED <<call, isr, prog, host>>

-----------------------------------------------------------------------------
(* The host.                                                               *)

HostTake ==
  /\ host.connected /\ dev.tx # <<>>
  /\ host' = [host EXCEPT !.got = Append(@, Head(dev.tx))]
  /\ dev' = [dev EXCEPT !.tx = Tail(@), !.ac = TRUE]
  /\ UNCHANGED <<sp, call, isr, prog>>

HostSend ==
  /\ host.connected /\ Len(dev.rx) < ReadDepth /\ host.sent < host.load[2]
  /\ host' = [host EXCEPT !.sent = @ + 1]
  /\ dev' = [dev EXCEPT !.rx = Append(@, host.sent + 1), !.ac = TRUE]
  /\ UNCHANGED <<sp, call, isr, prog>>

HostPlug ==
  /\ host.plugs < MaxPlugs
  /\ host' = [host EXCEPT !.connected = ~ @, !.plugs = @ + 1]
  /\ UNCHANGED <<sp, dev, call, isr, prog>>

-----------------------------------------------------------------------------
Program ==
  \/ WriteSnapshot \/ WriteCopy \/ WritePublish \/ WriteKick \/ WriteSpin
  \/ WriteCheck \/ WriteReturn \/ ReadSnapshot \/ ReadTake \/ ReadFree
  \/ ReadSpin \/ ReadCheck \/ ReadReturn \/ Close

Calls ==
  \/ \E n \in Counts, nb \in BOOLEAN :
       \/ prog.out + n <= host.load[1] /\ Begin("write", n, nb)
       \/ Begin("read", n, nb)
  \/ \E nb \in BOOLEAN : Begin("close", 0, nb)
  \/ \E t \in Timeouts : SetTimeout(t)

Isr  == IsrLoop \/ IsrReceive \/ IsrReceiveEnd \/ IsrTransmit \/ IsrTransmitEnd
Next == Calls \/ Program \/ Isr \/ Timeout \/ HostTake \/ HostSend \/ HostPlug

(* The processor executes the program and takes pending interrupts, the    *)
(* clock ticks, and a host that stays connected empties the FIFO.          *)
Fairness == /\ WF_vars(Program) /\ WF_vars(Isr) /\ WF_vars(Timeout)
            /\ WF_vars(HostTake)

Spec     == Init /\ [][Next]_vars
FairSpec == Spec /\ Fairness

-----------------------------------------------------------------------------
(* Properties.                                                             *)

WriteSteps == {"write", "copy", "publish", "kick", "write_spin", "write_check", "write_ret"}
ReadSteps  == {"read", "take", "free", "read_spin", "read_check", "read_ret"}

Accepted == prog.out + (IF call.pc \in WriteSteps THEN call.done ELSE 0)
Copied   == IF call.pc = "free" THEN call.n ELSE 0

(* Every variable has its type: the indices stay inside their buffers, no  *)
(* FIFO overflows, and the device has the enables the driver thinks it has.*)
JtagUartTypeOK ==
  /\ {sp.rx_in, sp.rx_out, sp.tx_in, sp.tx_out} \subseteq 0..(BufLen - 1)
  /\ sp.rx_buf \in [0..(BufLen - 1) -> 0..host.load[2]]
  /\ sp.tx_buf \in [0..(BufLen - 1) -> 0..host.load[1]]
  /\ sp.irq_enable \subseteq Enables /\ dev.enable = sp.irq_enable
  /\ sp.host_inactive \in 0..(IntMax - 2) /\ sp.timeout \in 2..IntMax
  /\ Len(dev.rx) <= ReadDepth /\ Len(dev.tx) <= WriteDepth /\ dev.ac \in BOOLEAN
  /\ call.pc \in {"idle", "close"} \cup WriteSteps \cup ReadSteps
  /\ isr.pc \in {"idle", "loop", "rx", "tx"} /\ isr.space \in 0..WriteDepth

(* Nothing is lost, duplicated or reordered between the program and the    *)
(* host, whatever the interrupt routine does between two statements of a   *)
(* call: what the host has, what the FIFO holds and what the buffer holds  *)
(* are together exactly the bytes accepted, and likewise on the way in.    *)
NothingLostOrReordered ==
  /\ host.got \o dev.tx \o TxHeld = [k \in 1..Accepted |-> k]
  /\ prog.in \o SubSeq(RxHeld, 1 + Copied, Len(RxHeld)) \o dev.rx
       = [k \in 1..host.sent |-> k]

(* A byte in the transmit buffer is never stranded: once the call that put *)
(* it there has kicked the interrupt routine, transmit interrupts stay on  *)
(* until the buffer is empty, although the routine switches them off.      *)
TransmitNeverStalls ==
  sp.tx_in # sp.tx_out =>
    "WE" \in sp.irq_enable \/ call.pc \in {"write", "copy", "publish", "kick"}

(* Receive interrupts are off only while the buffer is full, or while the  *)
(* call that made room has yet to switch them on again: a read can never   *)
(* wait for a byte that no interrupt will bring.                           *)
ReceiveNeverStalls ==
  "RE" \notin sp.irq_enable =>
    \/ Succ(sp.rx_in) = sp.rx_out
    \/ call.pc \in {"read", "take", "free", "read_ret"} /\ call.done > 0

(* A driver call ends, unless the host is gone and no clock is there to    *)
(* notice (or TIOCSTIMEOUT asked to wait for ever), or a read waits for a  *)
(* host that is there and sends nothing.                                   *)
WaitsForHost ==
  \/ ~ host.connected /\ sp.timeout >= IntMax - 1
  \/ host.connected /\ call.pc = "read_spin" /\ dev.rx = <<>> /\ call.in = sp.rx_in
CallsReturn == (call.pc # "idle") ~> (call.pc = "idle" \/ WaitsForHost)

(* The driver is a pair of bounded first-in first-out streams.             *)
Stream == INSTANCE ConsoleStream WITH
  OutCapacity <- BufLen - 1 + WriteDepth, InCapacity <- BufLen - 1 + ReadDepth,
  accepted <- Accepted, got <- host.got, sent <- host.sent, read <- prog.in
ConsoleIsAStream == Stream!Spec
=============================================================================
