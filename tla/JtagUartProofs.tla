--------------------------- MODULE JtagUartProofs ---------------------------
(***************************************************************************)
(* Proofs about the console driver, for buffers and FIFOs of every size,   *)
(* every load, with and without a system clock, and a host that comes and  *)
(* goes as it likes.                                                       *)
(***************************************************************************)
EXTENDS JtagUart, SequenceTheorems, TLAPS

(* The indices of a circular buffer, one wrapped around its end, and the   *)
(* number of bytes between two of them.                                    *)
Slots         == 0..(BufLen - 1)
Wrap(i)       == IF i < BufLen THEN i ELSE i - BufLen
Span(in, out) == IF in >= out THEN in - out ELSE in - out + BufLen

(* The % of the indices, without a division.                               *)
LEMMA ModLemma ==
  ASSUME NEW i \in 0..(2 * BufLen - 1)
  PROVE  i % BufLen = Wrap(i)
  BY JtagUartAssumption DEF Wrap

(* What % yields is an index.                                              *)
LEMMA ModRange == \A i \in Nat : i % BufLen \in Slots
  BY JtagUartAssumption DEF Slots

(* The next index.                                                         *)
LEMMA SuccLemma == \A i \in Slots : Succ(i) = Wrap(i + 1) /\ Succ(i) \in Slots
<1> SUFFICES ASSUME NEW i \in Slots
             PROVE  Succ(i) = Wrap(i + 1) /\ Succ(i) \in Slots
  OBVIOUS
<1>1. Succ(i) = Wrap(i + 1)
  BY JtagUartAssumption, ModLemma, i + 1 \in 0..(2 * BufLen - 1) DEF Slots, Succ
<1> QED
  BY <1>1, JtagUartAssumption DEF Slots, Wrap

(* The bytes between two indices are fewer than the slots.                 *)
LEMMA SpanLemma ==
  \A i, j \in Slots :
    (i - j + BufLen) % BufLen = Span(i, j) /\ Span(i, j) \in Slots
<1> SUFFICES ASSUME NEW i \in Slots, NEW j \in Slots
             PROVE  (i - j + BufLen) % BufLen = Span(i, j) /\ Span(i, j) \in Slots
  OBVIOUS
<1>1. (i - j + BufLen) % BufLen = Wrap(i - j + BufLen)
  BY JtagUartAssumption, ModLemma, i - j + BufLen \in 0..(2 * BufLen - 1) DEF Slots
<1> QED
  BY <1>1, JtagUartAssumption DEF Span, Slots, Wrap

(* The states of the driver, the core and the host.                        *)
SpStates   == [rx_in : Slots, rx_out : Slots, tx_in : Slots, tx_out : Slots,
               rx_buf : [Slots -> Nat], tx_buf : [Slots -> Nat],
               irq_enable : SUBSET Enables, host_inactive : 0..(IntMax - 2),
               timeout : 2..IntMax]
DevStates  == [rx : Seq(Nat), tx : Seq(Nat), enable : SUBSET Enables, ac : BOOLEAN]
CallPcs    == {"idle", "close"} \cup WriteSteps \cup ReadSteps
CallStates == [pc : CallPcs, nonblock : BOOLEAN, left : Nat, done : Nat,
               in : Slots, out : Slots, n : Slots]
IsrStates  == [pc : {"idle", "loop", "rx", "tx"}, wi : BOOLEAN, avail : BOOLEAN,
               space : 0..WriteDepth]
ProgStates == [out : Nat, in : Seq(Nat)]
HostStates == [connected : BOOLEAN, plugs : Nat, sent : Nat, got : Seq(Nat),
               load : Nat \X Nat]
Types == /\ sp \in SpStates /\ dev \in DevStates /\ call \in CallStates
         /\ isr \in IsrStates /\ prog \in ProgStates /\ host \in HostStates

(* What the routines rely on across their steps.                           *)
Control ==
  /\ dev.enable = sp.irq_enable
  /\ Len(dev.rx) <= ReadDepth /\ Len(dev.tx) <= WriteDepth
  /\ isr.pc \in {"rx", "tx"} => isr.space + Len(dev.tx) <= WriteDepth
  /\ prog.out <= host.load[1] /\ host.sent <= host.load[2]
  /\ call.pc \in WriteSteps => prog.out + call.done + call.left <= host.load[1]
  /\ \A i \in Slots : sp.tx_buf[i] <= host.load[1] /\ sp.rx_buf[i] <= host.load[2]
  /\ call.pc \in {"copy", "publish", "take", "free"} => call.n > 0 /\ call.n <= call.left
  /\ call.pc \in {"copy", "publish"} =>
       /\ call.in = sp.tx_in
       /\ call.in + call.n <= BufLen
       /\ Span(sp.tx_in, sp.tx_out) + call.n < BufLen
  /\ call.pc \in {"take", "free"} =>
       /\ call.out = sp.rx_out
       /\ call.out + call.n <= BufLen
       /\ call.n <= Span(sp.rx_in, sp.rx_out)

(* Byte by byte, where n bytes accepted from the program are: got by the   *)
(* host, in the transmit FIFO or in the transmit buffer.                   *)
TxFlow(got, tx, buf, in, out, n) ==
  /\ \A k \in 1..Len(got) : got[k] = k
  /\ \A k \in 1..Len(tx) : tx[k] = Len(got) + k
  /\ \A k \in 1..Span(in, out) : buf[Wrap(out + k - 1)] = Len(got) + Len(tx) + k
  /\ n = Len(got) + Len(tx) + Span(in, out)
Transmitted ==
  /\ TxFlow(host.got, dev.tx, sp.tx_buf, sp.tx_in, sp.tx_out, Accepted)
  /\ call.pc = "publish" =>
       \A k \in 1..call.n : sp.tx_buf[sp.tx_in + k - 1] = Accepted + k

(* And where n bytes sent by the host are: read by the program, the last c *)
(* of them still in the receive buffer too, in the buffer or in the FIFO.  *)
RxFlow(read, c, buf, in, out, rx, n) ==
  /\ \A k \in 1..Len(read) : read[k] = k
  /\ \A k \in 1..Span(in, out) : buf[Wrap(out + k - 1)] = Len(read) - c + k
  /\ \A k \in 1..Len(rx) : rx[k] = Len(read) - c + Span(in, out) + k
  /\ n = Len(read) - c + Span(in, out) + Len(rx)
Received ==
  RxFlow(prog.in, Copied, sp.rx_buf, sp.rx_in, sp.rx_out, dev.rx, host.sent)

UartInv == Types /\ Control /\ TransmitNeverStalls /\ ReceiveNeverStalls
           /\ Transmitted /\ Received

(* The types, field by field, as the steps below cite them.                *)
LEMMA Fields ==
  ASSUME Types
  PROVE  /\ sp.rx_in \in Slots /\ sp.rx_out \in Slots
         /\ sp.tx_in \in Slots /\ sp.tx_out \in Slots
         /\ sp.rx_buf \in [Slots -> Nat] /\ sp.tx_buf \in [Slots -> Nat]
         /\ sp.irq_enable \in SUBSET Enables /\ sp.host_inactive \in 0..(IntMax - 2)
         /\ sp.timeout \in 2..IntMax
         /\ dev.rx \in Seq(Nat) /\ dev.tx \in Seq(Nat)
         /\ dev.enable \in SUBSET Enables /\ dev.ac \in BOOLEAN
         /\ call.pc \in CallPcs /\ call.nonblock \in BOOLEAN
         /\ call.left \in Nat /\ call.done \in Nat
         /\ call.in \in Slots /\ call.out \in Slots /\ call.n \in Slots
         /\ isr.pc \in {"idle", "loop", "rx", "tx"} /\ isr.wi \in BOOLEAN
         /\ isr.avail \in BOOLEAN /\ isr.space \in 0..WriteDepth
         /\ prog.out \in Nat /\ prog.in \in Seq(Nat)
         /\ host.connected \in BOOLEAN /\ host.plugs \in Nat /\ host.sent \in Nat
         /\ host.got \in Seq(Nat) /\ host.load \in Nat \X Nat
         /\ host.load[1] \in Nat /\ host.load[2] \in Nat
         /\ Len(dev.rx) \in Nat /\ Len(dev.tx) \in Nat
         /\ Len(prog.in) \in Nat /\ Len(host.got) \in Nat
<1>1. /\ sp.rx_in \in Slots /\ sp.rx_out \in Slots
      /\ sp.tx_in \in Slots /\ sp.tx_out \in Slots
      /\ sp.rx_buf \in [Slots -> Nat] /\ sp.tx_buf \in [Slots -> Nat]
      /\ sp.irq_enable \in SUBSET Enables /\ sp.host_inactive \in 0..(IntMax - 2)
      /\ sp.timeout \in 2..IntMax
  BY DEF Types, SpStates
<1>2. /\ dev.rx \in Seq(Nat) /\ dev.tx \in Seq(Nat)
      /\ dev.enable \in SUBSET Enables /\ dev.ac \in BOOLEAN
  BY DEF Types, DevStates
<1>3. /\ call.pc \in CallPcs /\ call.nonblock \in BOOLEAN
      /\ call.left \in Nat /\ call.done \in Nat
      /\ call.in \in Slots /\ call.out \in Slots /\ call.n \in Slots
  BY DEF Types, CallStates
<1>4. /\ isr.pc \in {"idle", "loop", "rx", "tx"} /\ isr.wi \in BOOLEAN
      /\ isr.avail \in BOOLEAN /\ isr.space \in 0..WriteDepth
      /\ prog.out \in Nat /\ prog.in \in Seq(Nat)
  BY DEF Types, IsrStates, ProgStates
<1>5. /\ host.connected \in BOOLEAN /\ host.plugs \in Nat /\ host.sent \in Nat
      /\ host.got \in Seq(Nat) /\ host.load \in Nat \X Nat
  BY DEF Types, HostStates
<1>6. /\ Len(dev.rx) \in Nat /\ Len(dev.tx) \in Nat
      /\ Len(prog.in) \in Nat /\ Len(host.got) \in Nat
  BY <1>2, <1>4, <1>5
<1> QED
  BY <1>1, <1>2, <1>3, <1>4, <1>5, <1>6

(* The driver as alt_sys_init leaves it.                                   *)
LEMMA InitInv == Init => UartInv
<1> SUFFICES ASSUME Init PROVE UartInv
  OBVIOUS
<1> USE JtagUartAssumption DEF Init
<1>1. sp \in SpStates
  BY DEF SpStates, Slots, Enables
<1>2. dev \in DevStates /\ call \in CallStates /\ isr \in IsrStates
  BY DEF DevStates, CallStates, CallPcs, IsrStates, None, IsrIdle, Slots, Enables
<1>3. prog \in ProgStates /\ host \in HostStates
  BY DEF ProgStates, HostStates
<1>4. host.load[1] \in Nat /\ host.load[2] \in Nat
  BY <1>3 DEF HostStates
<1>5. /\ sp.tx_in = 0 /\ sp.tx_out = 0 /\ sp.irq_enable = {"RE"}
      /\ \A i \in Slots : sp.tx_buf[i] = 0 /\ sp.rx_buf[i] = 0
  BY DEF Slots
<1>6. /\ host.sent = 0 /\ prog.out = 0 /\ dev.rx = <<>> /\ dev.tx = <<>>
      /\ dev.enable = {"RE"} /\ call.pc = "idle" /\ isr.pc = "idle"
  BY DEF None, IsrIdle
<1>7. TransmitNeverStalls /\ ReceiveNeverStalls
  BY <1>5 DEF TransmitNeverStalls, ReceiveNeverStalls
<1>8. Transmitted
  BY <1>3 DEF Transmitted, TxFlow, Accepted, None, Span, HostStates
<1>9. Received
  BY <1>3 DEF Received, RxFlow, Copied, None, Span, HostStates
<1> HIDE DEF Init
<1>10. Control
  BY <1>4, <1>5, <1>6 DEF Control, WriteSteps
<1> QED
  BY <1>1, <1>2, <1>3, <1>7, <1>8, <1>9, <1>10 DEF Types, UartInv

(* What write can copy before the buffer wraps, one slot staying free.     *)
LEMMA RoomLemma ==
  ASSUME NEW in \in Slots, NEW out \in Slots, NEW left \in Nat
  PROVE  LET n == AtMost(Room(in, out), left)
         IN  n \in Slots /\ n <= left /\ in + n <= BufLen /\ Span(in, out) + n < BufLen
BY JtagUartAssumption DEF AtMost, Room, Span, Slots

(* What read can copy before the buffer wraps.                             *)
LEMMA ReadyLemma ==
  ASSUME NEW in \in Slots, NEW out \in Slots, NEW left \in Nat
  PROVE  LET n == AtMost(Ready(in, out), left)
         IN  /\ n \in Slots /\ n <= left /\ out + n <= BufLen /\ n <= Span(in, out)
             /\ left > 0 /\ in # out => n > 0
BY JtagUartAssumption DEF AtMost, Ready, Span, Slots

(* Moving the in index by n free slots.                                    *)
LEMMA FillLemma ==
  ASSUME NEW in \in Slots, NEW out \in Slots, NEW n \in 1..(BufLen - 1),
         in + n <= BufLen, Span(in, out) + n < BufLen
  PROVE  LET next == (in + n) % BufLen
         IN  /\ next \in Slots /\ next = Wrap(in + n)
             /\ Span(next, out) = Span(in, out) + n
             /\ \A k \in 1..Span(in, out) : Wrap(out + k - 1) \in Slots \ (in..(in + n - 1))
             /\ \A k \in 1..n : Wrap(out + (Span(in, out) + k) - 1) = in + k - 1
<1>1. (in + n) % BufLen = Wrap(in + n)
  BY ModLemma, JtagUartAssumption, in + n \in 0..(2 * BufLen - 1) DEF Slots
<1> QED
  BY <1>1, JtagUartAssumption DEF Slots, Span, Wrap

(* Moving the out index by n bytes that are there.                         *)
LEMMA DrainLemma ==
  ASSUME NEW in \in Slots, NEW out \in Slots, NEW n \in 1..(BufLen - 1),
         out + n <= BufLen, n <= Span(in, out)
  PROVE  LET next == (out + n) % BufLen
         IN  /\ next \in Slots /\ next = Wrap(out + n)
             /\ Span(in, next) = Span(in, out) - n
             /\ \A k \in 1..(Span(in, out) - n) : Wrap(next + k - 1) = Wrap(out + (n + k) - 1)
             /\ \A k \in 1..n : Wrap(out + k - 1) = out + k - 1
<1>1. (out + n) % BufLen = Wrap(out + n)
  BY ModLemma, JtagUartAssumption, out + n \in 0..(2 * BufLen - 1) DEF Slots
<1> QED
  BY <1>1, JtagUartAssumption DEF Slots, Span, Wrap

(* A call begins with nothing done.                                        *)
LEMMA BeginInv ==
  ASSUME UartInv, NEW pc \in {"write", "read", "close"}, NEW n \in Counts \cup {0},
         NEW nb \in BOOLEAN, Begin(pc, n, nb), pc = "write" => prog.out + n <= host.load[1]
  PROVE  UartInv'
<1> USE DEF UartInv
<1>1. /\ call' = [pc |-> pc, nonblock |-> nb, left |-> n, done |-> 0,
                  in |-> 0, out |-> 0, n |-> 0]
      /\ UNCHANGED <<sp, dev, isr, prog, host>> /\ call.pc = "idle"
  BY DEF Begin, Running, None
<1>2. call'.pc = pc /\ call'.left = n /\ call'.done = 0
  BY <1>1
<1>3. n \in Nat
  BY JtagUartAssumption
<1>. 0 \in Slots
  BY JtagUartAssumption DEF Slots
<1>4. Types'
  BY <1>1, <1>3, 0 \in Slots DEF Types, CallStates, CallPcs, WriteSteps, ReadSteps
<1>5. Control'
  <2>1. prog.out \in Nat
    BY Fields
  <2> QED
    BY <1>1, <1>2, <1>3, <2>1 DEF Control, WriteSteps
<1>6. TransmitNeverStalls' /\ ReceiveNeverStalls'
  BY <1>1, <1>2 DEF TransmitNeverStalls, ReceiveNeverStalls, Succ
<1>7. Transmitted'
  <2>1. Accepted' = Accepted
    BY <1>1, <1>2, Fields DEF Accepted, WriteSteps
  <2> QED
    BY <1>1, <1>2, <2>1 DEF Transmitted
<1>8. Received'
  BY <1>1, <1>2 DEF Received, Copied
<1> QED
  BY <1>4, <1>5, <1>6, <1>7, <1>8

(* The snapshot leaves room for what will be copied.                       *)
LEMMA WriteSnapshotInv == UartInv /\ WriteSnapshot => UartInv'
<1> SUFFICES ASSUME UartInv, WriteSnapshot PROVE UartInv'
  OBVIOUS
<1> USE DEF UartInv
<1> DEFINE n == AtMost(Room(sp.tx_in, sp.tx_out), call.left)
<1>1. /\ n \in Slots /\ n <= call.left
      /\ sp.tx_in + n <= BufLen /\ Span(sp.tx_in, sp.tx_out) + n < BufLen
  BY Fields, RoomLemma
<1>0. n # 0 => n > 0
  BY <1>1 DEF Slots
<1> HIDE DEF n
<1>2. /\ \/ call' = [call EXCEPT !.pc = "kick"]
         \/ \E p \in {"kick", "copy"} :
              /\ call' = [call EXCEPT !.pc = p, !.in = sp.tx_in, !.out = sp.tx_out, !.n = n]
              /\ p = "copy" => n > 0
      /\ UNCHANGED <<sp, dev, isr, prog, host>> /\ call.pc = "write"
  BY <1>0 DEF WriteSnapshot, Goto, Running, n
<1>3. /\ call'.done = call.done /\ call'.left = call.left
      /\ call'.pc \in {"kick", "copy"}
      /\ call'.pc = "copy" => call'.in = sp.tx_in /\ call'.n = n /\ n > 0
  BY <1>2 DEF Types, CallStates
<1>4. Types'
  BY <1>1, <1>2, Fields DEF Types, CallStates, CallPcs, WriteSteps
<1>5. Control'
  <2>1. n \in Nat /\ prog.out + call.done + call.left <= host.load[1]
    BY <1>1, <1>2, JtagUartAssumption DEF Control, WriteSteps, Slots
  <2> QED
    BY <1>1, <1>2, <1>3, <2>1 DEF Control
<1>6. TransmitNeverStalls' /\ ReceiveNeverStalls'
  BY <1>2, <1>3 DEF TransmitNeverStalls, ReceiveNeverStalls, Succ
<1>7. Transmitted'
  BY <1>2, <1>3 DEF Transmitted, Accepted, WriteSteps
<1>8. Received'
  BY <1>2, <1>3 DEF Received, Copied
<1> QED
  BY <1>4, <1>5, <1>6, <1>7, <1>8

(* The copy goes to slots that hold nothing.                               *)
LEMMA WriteCopyInv == UartInv /\ WriteCopy => UartInv'
<1> SUFFICES ASSUME UartInv, WriteCopy PROVE UartInv'
  OBVIOUS
<1> USE DEF UartInv
<1>0. /\ BufLen \in Nat /\ call.in \in Nat /\ call.n \in Nat
      /\ prog.out \in Nat /\ call.done \in Nat /\ call.left \in Nat
      /\ host.load[1] \in Nat
  BY Fields, JtagUartAssumption DEF Slots
<1> DEFINE buf == [i \in 0..(BufLen - 1) |->
              IF i \in call.in..(call.in + call.n - 1)
              THEN prog.out + call.done + 1 + i - call.in ELSE sp.tx_buf[i]]
<1>1. /\ sp' = [sp EXCEPT !.tx_buf = buf] /\ call' = [call EXCEPT !.pc = "publish"]
      /\ UNCHANGED <<dev, isr, prog, host>> /\ call.pc = "copy"
  BY DEF WriteCopy, Goto, Running
<1>2. buf \in [Slots -> Nat]
  <2> SUFFICES ASSUME NEW i \in Slots,
                      i \in call.in..(call.in + call.n - 1)
               PROVE  prog.out + call.done + 1 + i - call.in \in Nat
    BY Fields DEF Slots
  <2> QED
    BY <1>0 DEF Slots
<1>3. /\ \A i \in Slots : i \in call.in..(call.in + call.n - 1)
           => buf[i] = prog.out + call.done + 1 + i - call.in
      /\ \A i \in Slots : i \notin call.in..(call.in + call.n - 1) => buf[i] = sp.tx_buf[i]
  BY DEF Slots
<1> HIDE DEF buf
<1>4. /\ sp'.tx_buf = buf /\ sp'.rx_buf = sp.rx_buf
      /\ sp'.tx_in = sp.tx_in /\ sp'.tx_out = sp.tx_out
      /\ sp'.rx_in = sp.rx_in /\ sp'.rx_out = sp.rx_out
      /\ sp'.irq_enable = sp.irq_enable
      /\ call'.pc = "publish" /\ call'.in = call.in /\ call'.n = call.n
      /\ call'.done = call.done /\ call'.left = call.left
  BY <1>1 DEF Types, SpStates, CallStates
<1>5. Types'
  BY <1>1, <1>2 DEF Types, SpStates, CallStates, CallPcs, WriteSteps
<1>6. /\ call.in = sp.tx_in /\ call.in + call.n <= BufLen
      /\ Span(sp.tx_in, sp.tx_out) + call.n < BufLen
      /\ call.n \in 1..(BufLen - 1) /\ call.n <= call.left
      /\ prog.out + call.done + call.left <= host.load[1]
  BY <1>1, Fields DEF Control, Slots, WriteSteps
<1>7. Control'
  <2>1. \A i \in Slots : buf[i] <= host.load[1]
    <3> TAKE i \in Slots
    <3>1. CASE i \in call.in..(call.in + call.n - 1)
      BY <3>1, <1>3, <1>6, <1>0 DEF Slots
    <3>2. CASE i \notin call.in..(call.in + call.n - 1)
      BY <3>2, <1>3 DEF Control
    <3> QED
      BY <3>1, <3>2
  <2> QED
    BY <1>1, <1>4, <1>6, <2>1 DEF Control, WriteSteps
<1>8. TransmitNeverStalls' /\ ReceiveNeverStalls'
  BY <1>1, <1>4 DEF TransmitNeverStalls, ReceiveNeverStalls, Succ
<1>9. Transmitted'
  <2>1. \A k \in 1..Span(sp.tx_in, sp.tx_out) :
          Wrap(sp.tx_out + k - 1) \in Slots \ (call.in..(call.in + call.n - 1))
    BY <1>6, FillLemma, Fields
  <2>2. \A k \in 1..Span(sp.tx_in, sp.tx_out) :
          buf[Wrap(sp.tx_out + k - 1)] = sp.tx_buf[Wrap(sp.tx_out + k - 1)]
    BY <2>1, <1>3
  <2>3. Accepted = prog.out + call.done /\ Accepted' = Accepted
    BY <1>1, <1>4 DEF Accepted, WriteSteps
  <2>4. \A k \in 1..call.n : buf[sp.tx_in + k - 1] = Accepted + k
    <3> TAKE k \in 1..call.n
    <3>1. /\ sp.tx_in + k - 1 \in Slots
          /\ sp.tx_in + k - 1 \in call.in..(call.in + call.n - 1)
      BY <1>6, <1>0 DEF Slots
    <3>2. buf[sp.tx_in + k - 1] = prog.out + call.done + 1 + (sp.tx_in + k - 1) - call.in
      BY <3>1, <1>3
    <3> QED
      BY <2>3, <3>2, <1>6, <1>0 DEF Slots
  <2> QED
    BY <1>1, <1>4, <2>2, <2>3, <2>4 DEF Transmitted, TxFlow
<1>10. Received'
  BY <1>1, <1>4 DEF Received, Copied
<1> QED
  BY <1>5, <1>7, <1>8, <1>9, <1>10

(* The publication adds the copied bytes to those in the buffer.           *)
LEMMA WritePublishInv == UartInv /\ WritePublish => UartInv'
<1> SUFFICES ASSUME UartInv, WritePublish PROVE UartInv'
  OBVIOUS
<1> USE DEF UartInv
<1>0. /\ BufLen \in Nat /\ sp.tx_in \in Slots /\ sp.tx_out \in Slots
      /\ prog.out \in Nat /\ call.done \in Nat /\ call.left \in Nat /\ call.n \in Nat
      /\ host.load[1] \in Nat
  BY Fields, JtagUartAssumption DEF Slots
<1> DEFINE next == (call.in + call.n) % BufLen
<1>1. /\ sp' = [sp EXCEPT !.tx_in = next]
      /\ call' = [call EXCEPT !.pc = "write", !.done = call.done + call.n,
                              !.left = call.left - call.n]
      /\ UNCHANGED <<dev, isr, prog, host>> /\ call.pc = "publish"
  BY DEF WritePublish, Running
<1>2. /\ call.in = sp.tx_in /\ call.in + call.n <= BufLen
      /\ Span(sp.tx_in, sp.tx_out) + call.n < BufLen
      /\ call.n \in 1..(BufLen - 1) /\ call.n <= call.left
      /\ prog.out + call.done + call.left <= host.load[1]
  <2> HIDE DEF next
  <2>1. call.n \in Slots
    BY Fields
  <2>2. call.n > 0
    BY <1>1 DEF Control
  <2> QED
    BY <1>0, <1>1, <2>1, <2>2 DEF Control, Slots, WriteSteps
<1>3. /\ next \in Slots
      /\ Span(next, sp.tx_out) = Span(sp.tx_in, sp.tx_out) + call.n
      /\ \A k \in 1..call.n :
           Wrap(sp.tx_out + (Span(sp.tx_in, sp.tx_out) + k) - 1) = sp.tx_in + k - 1
  BY <1>0, <1>2, FillLemma
<1> HIDE DEF next
<1>4. /\ sp'.tx_buf = sp.tx_buf /\ sp'.rx_buf = sp.rx_buf
      /\ sp'.tx_in = next /\ sp'.tx_out = sp.tx_out
      /\ sp'.rx_in = sp.rx_in /\ sp'.rx_out = sp.rx_out
      /\ sp'.irq_enable = sp.irq_enable
      /\ call'.pc = "write" /\ call'.n = call.n
      /\ call'.done = call.done + call.n /\ call'.left = call.left - call.n
  BY <1>1 DEF Types, SpStates, CallStates
<1>5. Types'
  <2>1. call.left - call.n \in Nat /\ call.done + call.n \in Nat
    BY <1>0, <1>2
  <2> QED
    BY <1>1, <1>3, <2>1 DEF Types, SpStates, CallStates, CallPcs, WriteSteps
<1>6. Control'
  BY <1>0, <1>1, <1>2, <1>4 DEF Control
<1>7. TransmitNeverStalls' /\ ReceiveNeverStalls'
  BY <1>1, <1>4 DEF TransmitNeverStalls, ReceiveNeverStalls, Succ
<1>8. Transmitted'
  <2> DEFINE H == Span(sp.tx_in, sp.tx_out)
             G == Len(host.got)
             T == Len(dev.tx)
  <2>1. Accepted = prog.out + call.done /\ Accepted' = Accepted + call.n
    BY <1>0, <1>1, <1>4 DEF Accepted, WriteSteps
  <2>2. /\ \A k \in 1..H : sp.tx_buf[Wrap(sp.tx_out + k - 1)] = G + T + k
        /\ Accepted = G + T + H
        /\ \A k \in 1..call.n : sp.tx_buf[sp.tx_in + k - 1] = Accepted + k
    BY <1>1 DEF Transmitted, TxFlow
  <2>3. G \in Nat /\ T \in Nat
    BY Fields
  <2>4. H \in Slots
    BY <1>0, SpanLemma
  <2> HIDE DEF G, T, H
  <2>5. H \in Nat
    BY <2>4 DEF Slots
  <2>6. \A k \in 1..call.n : Wrap(sp.tx_out + (H + k) - 1) = sp.tx_in + k - 1
    BY <1>3 DEF H
  <2>7. ASSUME NEW k \in 1..(H + call.n)
        PROVE  sp.tx_buf[Wrap(sp.tx_out + k - 1)] = G + T + k
    <3>1. CASE k \in 1..H
      BY <3>1, <2>2
    <3>2. CASE k \notin 1..H
      <4>1. k - H \in 1..call.n /\ H + (k - H) = k
        BY <3>2, <2>5, <1>0
      <4>2. Wrap(sp.tx_out + k - 1) = sp.tx_in + (k - H) - 1
        BY <4>1, <2>6
      <4>3. sp.tx_buf[sp.tx_in + (k - H) - 1] = Accepted + (k - H)
        BY <4>1, <2>2
      <4> QED
        BY <4>1, <4>2, <4>3, <2>2, <2>3, <2>5
    <3> QED
      BY <3>1, <3>2
  <2>8. /\ \A k \in 1..(H + call.n) : sp.tx_buf[Wrap(sp.tx_out + k - 1)] = G + T + k
        /\ Accepted + call.n = G + T + (H + call.n)
    BY <2>2, <2>3, <2>5, <2>7, <1>0
  <2>9. TxFlow(host.got, dev.tx, sp.tx_buf, next, sp.tx_out, Accepted + call.n)
    BY <2>8, <1>1, <1>3 DEF Transmitted, TxFlow, G, T, H
  <2> QED
    BY <1>1, <1>4, <2>1, <2>9 DEF Transmitted
<1>9. Received'
  BY <1>1, <1>4 DEF Received, Copied
<1> QED
  BY <1>5, <1>6, <1>7, <1>8, <1>9

(* The kick switches transmit interrupts on.                               *)
LEMMA WriteKickInv == UartInv /\ WriteKick => UartInv'
<1> SUFFICES ASSUME UartInv, WriteKick PROVE UartInv'
  OBVIOUS
<1> USE DEF UartInv
<1>1. /\ sp' = [sp EXCEPT !.irq_enable = sp.irq_enable \cup {"WE"}]
      /\ dev' = [dev EXCEPT !.enable = sp.irq_enable \cup {"WE"}]
      /\ \E p \in {"write_ret", "write_spin"} : call' = [call EXCEPT !.pc = p]
      /\ UNCHANGED <<isr, prog, host>> /\ call.pc = "kick"
  BY DEF WriteKick, SetEnable, Goto, Running
<1>2. /\ sp'.tx_buf = sp.tx_buf /\ sp'.rx_buf = sp.rx_buf
      /\ sp'.tx_in = sp.tx_in /\ sp'.tx_out = sp.tx_out
      /\ sp'.rx_in = sp.rx_in /\ sp'.rx_out = sp.rx_out
      /\ sp'.irq_enable = sp.irq_enable \cup {"WE"}
      /\ dev'.rx = dev.rx /\ dev'.tx = dev.tx
      /\ dev'.enable = sp.irq_enable \cup {"WE"}
      /\ call'.pc \in {"write_ret", "write_spin"}
      /\ call'.done = call.done /\ call'.left = call.left
  BY <1>1 DEF Types, SpStates, DevStates, CallStates
<1>3. Types'
  <2>1. sp.irq_enable \cup {"WE"} \in SUBSET Enables
    BY Fields DEF Enables
  <2> QED
    BY <1>1, <2>1 DEF Types, SpStates, DevStates, CallStates, CallPcs, WriteSteps
<1>4. Control'
  BY <1>1, <1>2 DEF Control, WriteSteps
<1>5. TransmitNeverStalls' /\ ReceiveNeverStalls'
  BY <1>1, <1>2 DEF TransmitNeverStalls, ReceiveNeverStalls, Succ
<1>6. Transmitted'
  <2>1. Accepted' = Accepted
    BY <1>1, <1>2 DEF Accepted, WriteSteps
  <2> QED
    BY <1>1, <1>2, <2>1 DEF Transmitted
<1>7. Received'
  BY <1>1, <1>2 DEF Received, Copied
<1> QED
  BY <1>3, <1>4, <1>5, <1>6, <1>7

(* Waiting for room changes nothing but the program counter.               *)
LEMMA WriteWaitInv == UartInv /\ (WriteSpin \/ WriteCheck) => UartInv'
<1> SUFFICES ASSUME UartInv, WriteSpin \/ WriteCheck PROVE UartInv'
  OBVIOUS
<1> USE DEF UartInv
<1>1. /\ \E p \in {"write_check", "write_ret", "write"} : call' = [call EXCEPT !.pc = p]
      /\ UNCHANGED <<sp, dev, isr, prog, host>>
      /\ call.pc \in {"write_spin", "write_check"}
  BY DEF WriteSpin, WriteCheck, Goto, Running
<1>2. /\ call'.pc \in {"write_check", "write_ret", "write"}
      /\ call'.done = call.done /\ call'.left = call.left
  BY <1>1 DEF Types, CallStates
<1>3. Types'
  BY <1>1 DEF Types, CallStates, CallPcs, WriteSteps
<1>4. Control'
  BY <1>1, <1>2 DEF Control, WriteSteps
<1>5. TransmitNeverStalls' /\ ReceiveNeverStalls'
  BY <1>1, <1>2 DEF TransmitNeverStalls, ReceiveNeverStalls, Succ
<1>6. Transmitted'
  BY <1>1, <1>2 DEF Transmitted, Accepted, WriteSteps
<1>7. Received'
  BY <1>1, <1>2 DEF Received, Copied
<1> QED
  BY <1>3, <1>4, <1>5, <1>6, <1>7

(* The return of write counts the bytes of the call as accepted.           *)
LEMMA WriteReturnInv == UartInv /\ WriteReturn => UartInv'
<1> SUFFICES ASSUME UartInv, WriteReturn PROVE UartInv'
  OBVIOUS
<1> USE DEF UartInv
<1>0. /\ prog.out \in Nat /\ call.done \in Nat /\ call.left \in Nat
      /\ host.load[1] \in Nat /\ 0 \in Slots
  BY Fields, JtagUartAssumption DEF Slots
<1>1. /\ prog' = [prog EXCEPT !.out = prog.out + call.done]
      /\ call' = [pc |-> "idle", nonblock |-> FALSE, left |-> 0, done |-> 0,
                  in |-> 0, out |-> 0, n |-> 0]
      /\ UNCHANGED <<sp, dev, isr, host>> /\ call.pc = "write_ret"
  BY DEF WriteReturn, Running, None
<1>2. prog'.out = prog.out + call.done /\ prog'.in = prog.in
  BY <1>1 DEF Types, ProgStates
<1>3. Types'
  BY <1>0, <1>1 DEF Types, ProgStates, CallStates, CallPcs
<1>4. Control'
  <2>1. prog.out + call.done + call.left <= host.load[1]
    BY <1>1 DEF Control, WriteSteps
  <2> QED
    BY <1>0, <1>1, <1>2, <2>1 DEF Control, WriteSteps
<1>5. TransmitNeverStalls' /\ ReceiveNeverStalls'
  BY <1>1 DEF TransmitNeverStalls, ReceiveNeverStalls, Succ
<1>6. Transmitted'
  <2>1. Accepted' = Accepted
    BY <1>0, <1>1, <1>2 DEF Accepted, WriteSteps
  <2> QED
    BY <1>1, <2>1 DEF Transmitted
<1>7. Received'
  BY <1>1, <1>2 DEF Received, Copied
<1> QED
  BY <1>3, <1>4, <1>5, <1>6, <1>7

(* The snapshot of read finds bytes that stay until they are freed.        *)
LEMMA ReadSnapshotInv == UartInv /\ ReadSnapshot => UartInv'
<1> SUFFICES ASSUME UartInv, ReadSnapshot PROVE UartInv'
  OBVIOUS
<1> USE DEF UartInv
<1> DEFINE n == AtMost(Ready(sp.rx_in, sp.rx_out), call.left)
<1>1. /\ n \in Slots /\ n <= call.left
      /\ sp.rx_out + n <= BufLen /\ n <= Span(sp.rx_in, sp.rx_out)
  BY Fields, ReadyLemma
<1>2. n \in Nat /\ call.done \in Nat
  BY <1>1, Fields DEF Slots
<1> HIDE DEF n
<1>3. /\ \E p \in {"take", "read_ret", "read_spin"} :
           /\ call' = [call EXCEPT !.pc = p, !.in = sp.rx_in, !.out = sp.rx_out, !.n = n]
           /\ p = "take" => n > 0
           /\ p = "read_spin" => call.done = 0
      /\ UNCHANGED <<sp, dev, isr, prog, host>> /\ call.pc = "read"
  <2> DEFINE next == IF n > 0 THEN "take"
                     ELSE IF call.done > 0 \/ call.nonblock \/ call.left = 0 THEN "read_ret"
                     ELSE "read_spin"
  <2>1. /\ call' = [call EXCEPT !.pc = next, !.in = sp.rx_in, !.out = sp.rx_out, !.n = n]
        /\ UNCHANGED <<sp, dev, isr, prog, host>> /\ call.pc = "read"
    BY DEF ReadSnapshot, Running, n
  <2>2. /\ next \in {"take", "read_ret", "read_spin"}
        /\ next = "take" => n > 0
        /\ next = "read_spin" => call.done = 0
    BY <1>2
  <2> HIDE DEF next
  <2> QED
    BY <2>1, <2>2
<1>4. /\ call'.done = call.done /\ call'.left = call.left
      /\ call'.pc \in {"take", "read_ret", "read_spin"}
      /\ call'.out = sp.rx_out /\ call'.n = n
      /\ call'.pc = "take" => n > 0
      /\ call'.pc = "read_spin" => call.done = 0
  BY <1>3 DEF Types, CallStates
<1>5. Types'
  BY <1>1, <1>3, Fields DEF Types, CallStates, CallPcs, ReadSteps
<1>6. Control'
  BY <1>1, <1>3, <1>4 DEF Control, WriteSteps
<1>7. TransmitNeverStalls'
  BY <1>3, <1>4 DEF TransmitNeverStalls
<1>8. ReceiveNeverStalls'
  BY <1>2, <1>3, <1>4 DEF ReceiveNeverStalls, Succ
<1>9. Transmitted'
  BY <1>3, <1>4 DEF Transmitted, Accepted, WriteSteps
<1>10. Received'
  BY <1>3, <1>4 DEF Received, Copied
<1> QED
  BY <1>5, <1>6, <1>7, <1>8, <1>9, <1>10

(* The copy out of the buffer takes the next bytes.                        *)
LEMMA ReadTakeInv == UartInv /\ ReadTake => UartInv'
<1> SUFFICES ASSUME UartInv, ReadTake PROVE UartInv'
  OBVIOUS
<1> USE DEF UartInv
<1> DEFINE took == [k \in 1..call.n |-> sp.rx_buf[call.out + k - 1]]
<1>1. /\ prog' = [prog EXCEPT !.in = prog.in \o took]
      /\ call' = [call EXCEPT !.pc = "free"]
      /\ UNCHANGED <<sp, dev, isr, host>> /\ call.pc = "take"
  BY DEF ReadTake, Goto, Running
<1>2. /\ BufLen \in Nat /\ call.n \in Nat /\ call.n > 0 /\ call.out \in Nat
      /\ call.out = sp.rx_out /\ call.out + call.n <= BufLen
      /\ call.n <= Span(sp.rx_in, sp.rx_out)
  BY <1>1, Fields, JtagUartAssumption DEF Control, Slots
<1>3. \A k \in 1..call.n : call.out + k - 1 \in Slots
  BY <1>2 DEF Slots
<1>4. took \in Seq(Nat) /\ Len(took) = call.n
  <2>1. sp.rx_buf \in [Slots -> Nat]
    BY Fields
  <2>2. took \in [1..call.n -> Nat]
    BY <1>3, <2>1
  <2> HIDE DEF took
  <2> QED
    BY <1>2, <2>2, SeqDef
<1>5. \A k \in 1..call.n : took[k] = sp.rx_buf[call.out + k - 1]
  OBVIOUS
<1> HIDE DEF took
<1>6. prog.in \o took \in Seq(Nat)
  BY <1>4, Fields
<1>7. /\ prog'.in = prog.in \o took /\ prog'.out = prog.out
      /\ call'.pc = "free" /\ call'.n = call.n /\ call'.out = call.out
      /\ call'.done = call.done /\ call'.left = call.left
  BY <1>1 DEF Types, ProgStates, CallStates
<1>8. Types'
  BY <1>1, <1>6 DEF Types, ProgStates, CallStates, CallPcs, ReadSteps
<1>9. Control'
  BY <1>1, <1>2, <1>7 DEF Control, WriteSteps
<1>10. TransmitNeverStalls' /\ ReceiveNeverStalls'
  BY <1>1, <1>7 DEF TransmitNeverStalls, ReceiveNeverStalls, Succ
<1>11. Transmitted'
  <2>1. Accepted' = Accepted
    BY <1>1, <1>7 DEF Accepted, WriteSteps
  <2> QED
    BY <1>1, <1>7, <2>1 DEF Transmitted
<1>12. Received'
  <2> DEFINE L == Len(prog.in)
  <2>1. L \in Nat /\ prog.in \in Seq(Nat)
    BY Fields
  <2>2. RxFlow(prog.in, 0, sp.rx_buf, sp.rx_in, sp.rx_out, dev.rx, host.sent)
    BY <1>1 DEF Received, Copied
  <2>3. Len(prog.in \o took) = L + call.n
    <3>1. Len(prog.in \o took) = Len(prog.in) + Len(took)
      BY <1>4, <2>1, ConcatProperties
    <3> QED
      BY <3>1, <1>4
  <2>4. \A k \in 1..L : (prog.in \o took)[k] = prog.in[k]
    BY <1>4, <2>1
  <2>5. \A k \in 1..call.n : (prog.in \o took)[L + k] = took[k]
    BY <1>4, <2>1, <1>2
  <2> HIDE DEF L
  <2>6. \A k \in 1..call.n : sp.rx_buf[call.out + k - 1] = L + k
    <3> TAKE k \in 1..call.n
    <3>1. Wrap(sp.rx_out + k - 1) = call.out + k - 1
      BY <1>2 DEF Wrap
    <3>2. Span(sp.rx_in, sp.rx_out) \in Slots
      BY SpanLemma, Fields
    <3>3. k \in 1..Span(sp.rx_in, sp.rx_out)
      BY <1>2, <3>2 DEF Slots
    <3>4. sp.rx_buf[Wrap(sp.rx_out + k - 1)] = L - 0 + k
      BY <2>2, <3>3 DEF RxFlow, L
    <3> QED
      BY <3>1, <3>4, <2>1
  <2>7. \A k \in 1..(L + call.n) : (prog.in \o took)[k] = k
    <3> TAKE k \in 1..(L + call.n)
    <3>1. CASE k \in 1..L
      BY <3>1, <2>2, <2>4 DEF RxFlow, L
    <3>2. CASE k \notin 1..L
      <4>1. k - L \in 1..call.n /\ L + (k - L) = k
        BY <3>2, <2>1, <1>2
      <4> QED
        BY <4>1, <2>5, <2>6, <1>5
    <3> QED
      BY <3>1, <3>2
  <2>8. L + call.n - call.n = L - 0
    BY <2>1, <1>2
  <2>9. RxFlow(prog.in \o took, call.n, sp.rx_buf, sp.rx_in, sp.rx_out, dev.rx, host.sent)
    <3> DEFINE H == Span(sp.rx_in, sp.rx_out)
    <3>1. /\ \A k \in 1..H : sp.rx_buf[Wrap(sp.rx_out + k - 1)] = (L - 0) + k
          /\ \A k \in 1..Len(dev.rx) : dev.rx[k] = (L - 0) + H + k
          /\ host.sent = (L - 0) + H + Len(dev.rx)
      BY <2>2 DEF RxFlow, L
    <3> DEFINE read == prog.in \o took
    <3>2. Len(read) = L + call.n
      BY <2>3
    <3>3. \A k \in 1..(L + call.n) : read[k] = k
      BY <2>7
    <3> HIDE DEF read
    <3>4. Len(read) - call.n = L - 0
      BY <3>2, <2>1, <1>2
    <3>5. \A k \in 1..Len(read) : read[k] = k
      BY <3>2, <3>3
    <3> HIDE DEF H
    <3>6. RxFlow(read, call.n, sp.rx_buf, sp.rx_in, sp.rx_out, dev.rx, host.sent)
      BY <3>1, <3>4, <3>5 DEF RxFlow, H
    <3> QED
      BY <3>6 DEF read
  <2> QED
    BY <1>1, <1>7, <2>9 DEF Received, Copied
<1> QED
  BY <1>8, <1>9, <1>10, <1>11, <1>12

(* Freeing the slots removes from the buffer what has been copied.         *)
LEMMA ReadFreeInv == UartInv /\ ReadFree => UartInv'
<1> SUFFICES ASSUME UartInv, ReadFree PROVE UartInv'
  OBVIOUS
<1> USE DEF UartInv
<1>0. /\ BufLen \in Nat /\ sp.rx_in \in Slots /\ sp.rx_out \in Slots
      /\ call.done \in Nat /\ call.left \in Nat /\ call.n \in Nat
  BY Fields, JtagUartAssumption DEF Slots
<1> DEFINE next == (call.out + call.n) % BufLen
<1>1. /\ sp' = [sp EXCEPT !.rx_out = next]
      /\ call' = [call EXCEPT !.pc = "read", !.done = call.done + call.n,
                              !.left = call.left - call.n]
      /\ UNCHANGED <<dev, isr, prog, host>> /\ call.pc = "free"
  BY DEF ReadFree, Running
<1>2. /\ call.out = sp.rx_out /\ call.out + call.n <= BufLen
      /\ call.n <= Span(sp.rx_in, sp.rx_out)
      /\ call.n \in 1..(BufLen - 1) /\ call.n <= call.left
  <2> HIDE DEF next
  <2>1. call.n \in Slots
    BY Fields
  <2>2. call.n > 0
    BY <1>1 DEF Control
  <2> QED
    BY <1>0, <1>1, <2>1, <2>2 DEF Control, Slots
<1>3. /\ next \in Slots
      /\ Span(sp.rx_in, next) = Span(sp.rx_in, sp.rx_out) - call.n
      /\ \A k \in 1..(Span(sp.rx_in, sp.rx_out) - call.n) :
           Wrap(next + k - 1) = Wrap(sp.rx_out + (call.n + k) - 1)
  BY <1>0, <1>2, DrainLemma
<1> HIDE DEF next
<1>4. /\ sp'.tx_buf = sp.tx_buf /\ sp'.rx_buf = sp.rx_buf
      /\ sp'.tx_in = sp.tx_in /\ sp'.tx_out = sp.tx_out
      /\ sp'.rx_in = sp.rx_in /\ sp'.rx_out = next
      /\ sp'.irq_enable = sp.irq_enable
      /\ call'.pc = "read"
      /\ call'.done = call.done + call.n /\ call'.left = call.left - call.n
  BY <1>1 DEF Types, SpStates, CallStates
<1>5. call.left - call.n \in Nat /\ call.done + call.n \in Nat /\ call.done + call.n > 0
  BY <1>0, <1>2
<1>6. Types'
  BY <1>1, <1>3, <1>5 DEF Types, SpStates, CallStates, CallPcs, ReadSteps
<1>7. Control'
  BY <1>1, <1>4 DEF Control, WriteSteps
<1>8. TransmitNeverStalls' /\ ReceiveNeverStalls'
  BY <1>1, <1>4, <1>5 DEF TransmitNeverStalls, ReceiveNeverStalls
<1>9. Transmitted'
  <2>1. Accepted' = Accepted
    BY <1>1, <1>4 DEF Accepted, WriteSteps
  <2> QED
    BY <1>1, <1>4, <2>1 DEF Transmitted
<1>10. Received'
  <2> DEFINE L == Len(prog.in)
             R == L - call.n
             H == Span(sp.rx_in, sp.rx_out)
  <2>1. /\ \A k \in 1..Len(prog.in) : prog.in[k] = k
        /\ \A k \in 1..H : sp.rx_buf[Wrap(sp.rx_out + k - 1)] = R + k
        /\ \A k \in 1..Len(dev.rx) : dev.rx[k] = R + H + k
        /\ host.sent = R + H + Len(dev.rx)
    BY <1>1 DEF Received, Copied, RxFlow
  <2>2. H \in Slots
    BY <1>0, SpanLemma
  <2>0. L \in Nat
    BY Fields
  <2> HIDE DEF L
  <2>3. R \in Int /\ L - 0 = R + call.n
    BY <1>0, <2>0
  <2> HIDE DEF R, H
  <2>4. H \in Nat
    BY <2>2 DEF Slots
  <2>5. \A k \in 1..(H - call.n) : sp.rx_buf[Wrap(next + k - 1)] = (R + call.n) + k
    <3> TAKE k \in 1..(H - call.n)
    <3>1. call.n + k \in 1..H
      BY <2>4, <1>0
    <3>2. Wrap(next + k - 1) = Wrap(sp.rx_out + (call.n + k) - 1)
      BY <1>3 DEF H
    <3> QED
      BY <3>1, <3>2, <2>1, <2>3, <1>0
  <2>6. (R + call.n) + (H - call.n) = R + H
    BY <2>3, <2>4, <1>0
  <2>7. RxFlow(prog.in, 0, sp.rx_buf, sp.rx_in, next, dev.rx, host.sent)
    BY <2>1, <2>3, <2>5, <2>6, <1>3 DEF RxFlow, H, L
  <2> QED
    BY <1>1, <1>4, <2>7 DEF Received, Copied
<1> QED
  BY <1>6, <1>7, <1>8, <1>9, <1>10

(* Waiting for bytes changes nothing but the program counter.              *)
LEMMA ReadWaitInv == UartInv /\ (ReadSpin \/ ReadCheck) => UartInv'
<1> SUFFICES ASSUME UartInv, ReadSpin \/ ReadCheck PROVE UartInv'
  OBVIOUS
<1> USE DEF UartInv
<1>1. /\ \E p \in {"read_check", "read_ret", "read"} : call' = [call EXCEPT !.pc = p]
      /\ UNCHANGED <<sp, dev, isr, prog, host>>
      /\ call.pc \in {"read_spin", "read_check"}
  BY DEF ReadSpin, ReadCheck, Goto, Running
<1>2. /\ call'.pc \in {"read_check", "read_ret", "read"}
      /\ call'.done = call.done /\ call'.left = call.left
  BY <1>1 DEF Types, CallStates
<1>3. Types'
  BY <1>1 DEF Types, CallStates, CallPcs, ReadSteps
<1>4. Control'
  BY <1>1, <1>2 DEF Control, WriteSteps
<1>5. TransmitNeverStalls' /\ ReceiveNeverStalls'
  BY <1>1, <1>2 DEF TransmitNeverStalls, ReceiveNeverStalls, Succ
<1>6. Transmitted'
  BY <1>1, <1>2 DEF Transmitted, Accepted, WriteSteps
<1>7. Received'
  BY <1>1, <1>2 DEF Received, Copied
<1> QED
  BY <1>3, <1>4, <1>5, <1>6, <1>7

(* The return of read switches receive interrupts on if it made room.      *)
LEMMA ReadReturnInv == UartInv /\ ReadReturn => UartInv'
<1> SUFFICES ASSUME UartInv, ReadReturn PROVE UartInv'
  OBVIOUS
<1> USE DEF UartInv
<1>0. call.done \in Nat /\ 0 \in Slots
  BY Fields, JtagUartAssumption DEF Slots
<1>1. /\ call' = [pc |-> "idle", nonblock |-> FALSE, left |-> 0, done |-> 0,
                  in |-> 0, out |-> 0, n |-> 0]
      /\ UNCHANGED <<isr, prog, host>> /\ call.pc = "read_ret"
      /\ \E e \in {sp.irq_enable, sp.irq_enable \cup {"RE"}} :
           /\ sp' = [sp EXCEPT !.irq_enable = e]
           /\ dev' = [dev EXCEPT !.enable = e]
           /\ e = sp.irq_enable => call.done = 0 \/ "RE" \in sp.irq_enable
  <2>1. CASE call.done > 0
    BY <2>1 DEF ReadReturn, Running, None, SetEnable
  <2>2. CASE ~ (call.done > 0)
    <3>1. sp' = sp /\ dev' = dev
      BY <2>2 DEF ReadReturn
    <3>2. sp = [sp EXCEPT !.irq_enable = sp.irq_enable]
      BY DEF Types, SpStates
    <3>3. dev = [dev EXCEPT !.enable = sp.irq_enable]
      BY DEF Types, DevStates, Control
    <3> QED
      BY <2>2, <3>1, <3>2, <3>3, <1>0 DEF ReadReturn, Running, None
  <2> QED
    BY <2>1, <2>2
<1>2. /\ sp'.tx_buf = sp.tx_buf /\ sp'.rx_buf = sp.rx_buf
      /\ sp'.tx_in = sp.tx_in /\ sp'.tx_out = sp.tx_out
      /\ sp'.rx_in = sp.rx_in /\ sp'.rx_out = sp.rx_out
      /\ sp'.irq_enable \in {sp.irq_enable, sp.irq_enable \cup {"RE"}}
      /\ "RE" \in sp'.irq_enable \/ call.done = 0
      /\ dev'.rx = dev.rx /\ dev'.tx = dev.tx /\ dev'.enable = sp'.irq_enable
  BY <1>1 DEF Types, SpStates, DevStates
<1>3. Types'
  <2>1. sp.irq_enable \in SUBSET Enables /\ sp.irq_enable \cup {"RE"} \in SUBSET Enables
    BY Fields DEF Enables
  <2> QED
    <3>1. PICK e \in SUBSET Enables : /\ sp' = [sp EXCEPT !.irq_enable = e]
                                      /\ dev' = [dev EXCEPT !.enable = e]
      BY <1>1, <2>1
    <3>2. sp' \in SpStates /\ dev' \in DevStates
      BY <3>1 DEF Types, SpStates, DevStates
    <3>3. call' \in CallStates
      BY <1>0, <1>1 DEF CallStates, CallPcs
    <3> QED
      BY <1>1, <3>2, <3>3 DEF Types
<1>4. Control'
  BY <1>1, <1>2 DEF Control, WriteSteps
<1>5. TransmitNeverStalls' /\ ReceiveNeverStalls'
  BY <1>0, <1>1, <1>2 DEF TransmitNeverStalls, ReceiveNeverStalls, Succ
<1>6. Transmitted'
  <2>1. Accepted' = Accepted
    BY <1>1 DEF Accepted, WriteSteps
  <2> QED
    BY <1>1, <1>2, <2>1 DEF Transmitted
<1>7. Received'
  BY <1>1, <1>2 DEF Received, Copied
<1> QED
  BY <1>3, <1>4, <1>5, <1>6, <1>7

(* The return of close changes nothing but the program counter.            *)
LEMMA CloseInv == UartInv /\ Close => UartInv'
<1> SUFFICES ASSUME UartInv, Close PROVE UartInv'
  OBVIOUS
<1> USE DEF UartInv
<1>1. /\ call' = [pc |-> "idle", nonblock |-> FALSE, left |-> 0, done |-> 0,
                  in |-> 0, out |-> 0, n |-> 0]
      /\ UNCHANGED <<sp, dev, isr, prog, host>> /\ call.pc = "close"
  BY DEF Close, Running, None
<1>2. 0 \in Slots
  BY JtagUartAssumption DEF Slots
<1>3. Types'
  BY <1>1, <1>2 DEF Types, CallStates, CallPcs
<1>4. Control'
  BY <1>1 DEF Control, WriteSteps
<1>5. TransmitNeverStalls' /\ ReceiveNeverStalls'
  BY <1>1 DEF TransmitNeverStalls, ReceiveNeverStalls, Succ
<1>6. Transmitted'
  BY <1>1 DEF Transmitted, Accepted, WriteSteps
<1>7. Received'
  BY <1>1 DEF Received, Copied
<1> QED
  BY <1>3, <1>4, <1>5, <1>6, <1>7

(* TIOCSTIMEOUT changes the time-out only.                                 *)
LEMMA SetTimeoutInv ==
  ASSUME UartInv, NEW t \in Timeouts, SetTimeout(t)
  PROVE  UartInv'
<1> USE DEF UartInv
<1>1. /\ \E x \in 2..IntMax : sp' = [sp EXCEPT !.timeout = x]
      /\ UNCHANGED <<dev, call, isr, prog, host>>
  BY JtagUartAssumption DEF SetTimeout
<1>2. /\ sp'.tx_buf = sp.tx_buf /\ sp'.rx_buf = sp.rx_buf
      /\ sp'.tx_in = sp.tx_in /\ sp'.tx_out = sp.tx_out
      /\ sp'.rx_in = sp.rx_in /\ sp'.rx_out = sp.rx_out
      /\ sp'.irq_enable = sp.irq_enable
  BY <1>1 DEF Types, SpStates
<1>3. Types'
  BY <1>1 DEF Types, SpStates
<1>4. Control'
  BY <1>1, <1>2 DEF Control
<1>5. TransmitNeverStalls' /\ ReceiveNeverStalls'
  BY <1>1, <1>2 DEF TransmitNeverStalls, ReceiveNeverStalls, Succ
<1>6. Transmitted'
  BY <1>1, <1>2 DEF Transmitted, Accepted
<1>7. Received'
  BY <1>1, <1>2 DEF Received, Copied
<1> QED
  BY <1>3, <1>4, <1>5, <1>6, <1>7

(* Reading the control register: the space it shows is there.              *)
LEMMA IsrLoopInv == UartInv /\ IsrLoop => UartInv'
<1> SUFFICES ASSUME UartInv, IsrLoop PROVE UartInv'
  OBVIOUS
<1> USE DEF UartInv
<1>0. /\ WriteDepth \in Nat /\ Len(dev.tx) \in Nat /\ Len(dev.tx) <= WriteDepth
  BY Fields, JtagUartAssumption DEF Control
<1>1. /\ \/ isr' = [pc |-> "idle", wi |-> FALSE, avail |-> FALSE, space |-> 0]
         \/ \E p \in {"rx", "tx"}, w \in BOOLEAN :
              isr' = [pc |-> p, wi |-> w, avail |-> TRUE, space |-> WriteDepth - Len(dev.tx)]
      /\ UNCHANGED <<sp, dev, call, prog, host>>
  <2>1. WI \in BOOLEAN
    BY DEF WI
  <2> QED
    BY <2>1, Zenon DEF IsrLoop, IsrIdle
<1>2. WriteDepth - Len(dev.tx) \in 0..WriteDepth
  BY <1>0
<1>3. WriteDepth - Len(dev.tx) + Len(dev.tx) <= WriteDepth
  BY <1>0
<1>4. Types'
  <2>1. isr' \in IsrStates
    <3>1. [pc |-> "idle", wi |-> FALSE, avail |-> FALSE, space |-> 0] \in IsrStates
      BY <1>0 DEF IsrStates
    <3>2. ASSUME NEW p \in {"rx", "tx"}, NEW w \in BOOLEAN
          PROVE  [pc |-> p, wi |-> w, avail |-> TRUE, space |-> WriteDepth - Len(dev.tx)]
                   \in IsrStates
      BY <1>2 DEF IsrStates
    <3> QED
      BY <1>1, <3>1, <3>2, Zenon
  <2> QED
    BY <1>1, <2>1 DEF Types
<1>5. Control'
  <2>1. isr'.pc \in {"rx", "tx"} => isr'.space + Len(dev.tx) <= WriteDepth
    BY <1>1, <1>3
  <2> QED
    BY <1>1, <2>1 DEF Control
<1>6. TransmitNeverStalls' /\ ReceiveNeverStalls'
  BY <1>1 DEF TransmitNeverStalls, ReceiveNeverStalls, Succ
<1>7. Transmitted'
  BY <1>1 DEF Transmitted, Accepted
<1>8. Received'
  BY <1>1 DEF Received, Copied
<1> QED
  BY <1>4, <1>5, <1>6, <1>7, <1>8

(* A byte moves from the receive FIFO to the buffer.                       *)
LEMMA IsrReceiveInv == UartInv /\ IsrReceive => UartInv'
<1> SUFFICES ASSUME UartInv, IsrReceive PROVE UartInv'
  OBVIOUS
<1> USE DEF UartInv
<1> DEFINE in == sp.rx_in
           out == sp.rx_out
           next == Succ(sp.rx_in)
           byte == Head(dev.rx)
           rest == Tail(dev.rx)
           buf == [sp.rx_buf EXCEPT ![in] = byte]
<1>1. /\ sp' = [sp EXCEPT !.rx_buf = buf, !.rx_in = next]
      /\ dev' = [dev EXCEPT !.rx = rest]
      /\ \E b \in BOOLEAN : isr' = [isr EXCEPT !.avail = b]
      /\ UNCHANGED <<call, prog, host>>
      /\ next # out /\ dev.rx # <<>>
  <2>1. (Len(dev.rx) > 1) \in BOOLEAN
    OBVIOUS
  <2>2. sp' = [sp EXCEPT !.rx_buf = buf, !.rx_in = next]
    BY DEF IsrReceive
  <2> QED
    BY <2>1, <2>2 DEF IsrReceive
<1>2. /\ BufLen \in Nat /\ BufLen > 1 /\ in \in Slots /\ out \in Slots
      /\ sp.rx_buf \in [Slots -> Nat] /\ dev.rx \in Seq(Nat)
      /\ Len(prog.in) \in Nat /\ Copied \in Nat
      /\ host.sent \in Nat /\ host.load[2] \in Nat
  <2>1. Copied \in Nat
    <3>1. call.n \in Nat
      BY Fields DEF Slots
    <3> QED
      BY <3>1 DEF Copied
  <2> QED
    BY <2>1, Fields, JtagUartAssumption
<1>3. /\ byte \in Nat /\ byte = dev.rx[1] /\ rest \in Seq(Nat)
      /\ Len(rest) = Len(dev.rx) - 1 /\ Len(rest) \in Nat
      /\ \A k \in 1..Len(rest) : rest[k] = dev.rx[k + 1]
  <2>1. byte = dev.rx[1]
    BY <1>1, <1>2
  <2>2. Len(rest) \in Nat
    BY <1>1, <1>2, HeadTailProperties, LenProperties
  <2> QED
    BY <1>1, <1>2, <2>1, <2>2, HeadTailProperties
<1>4. /\ next \in Slots /\ Span(next, out) = Span(in, out) + 1
      /\ Span(in, out) \in Nat /\ Span(in, out) + 1 < BufLen
      /\ Wrap(out + (Span(in, out) + 1) - 1) = in
      /\ \A k \in 1..Span(in, out) : Wrap(out + k - 1) \in Slots \ {in}
  <2>1. next = Wrap(in + 1) /\ next \in Slots
    BY <1>2, SuccLemma
  <2> HIDE DEF next, in, out
  <2>2. BufLen \in Nat /\ in \in 0..(BufLen - 1) /\ out \in 0..(BufLen - 1)
    BY <1>2 DEF Slots
  <2>3. next = IF in + 1 < BufLen THEN in + 1 ELSE in + 1 - BufLen
    BY <2>1, <2>2 DEF Wrap
  <2>4. /\ Span(next, out) = Span(in, out) + 1
        /\ Span(in, out) \in Nat /\ Span(in, out) + 1 < BufLen
    BY <1>1, <2>2, <2>3 DEF Span
  <2>5. Wrap(out + (Span(in, out) + 1) - 1) = in
    BY <2>2 DEF Span, Wrap
  <2>6. \A k \in 1..Span(in, out) : Wrap(out + k - 1) \in Slots \ {in}
    BY <2>2, <2>4 DEF Span, Wrap, Slots
  <2> QED
    BY <2>1, <2>4, <2>5, <2>6
<1>5. /\ buf \in [Slots -> Nat] /\ buf[in] = byte
      /\ \A i \in Slots \ {in} : buf[i] = sp.rx_buf[i]
  BY <1>2, <1>3
<1> HIDE DEF next, byte, rest, buf
<1>6. /\ sp'.tx_buf = sp.tx_buf /\ sp'.rx_buf = buf
      /\ sp'.tx_in = sp.tx_in /\ sp'.tx_out = sp.tx_out
      /\ sp'.rx_in = next /\ sp'.rx_out = sp.rx_out
      /\ sp'.irq_enable = sp.irq_enable
      /\ dev'.rx = rest /\ dev'.tx = dev.tx /\ dev'.enable = dev.enable
      /\ isr'.pc = isr.pc /\ isr'.space = isr.space
  BY <1>1 DEF Types, SpStates, DevStates, IsrStates
<1>7. Types'
  BY <1>1, <1>3, <1>4, <1>5 DEF Types, SpStates, DevStates, IsrStates
<1>8. /\ \A k \in 1..Len(prog.in) : prog.in[k] = k
      /\ \A k \in 1..Span(in, out) : sp.rx_buf[Wrap(out + k - 1)] = Len(prog.in) - Copied + k
      /\ \A k \in 1..Len(dev.rx) : dev.rx[k] = Len(prog.in) - Copied + Span(in, out) + k
      /\ host.sent = Len(prog.in) - Copied + Span(in, out) + Len(dev.rx)
  BY DEF Received, RxFlow
<1> DEFINE R == Len(prog.in) - Copied
           H == Span(in, out)
<1>9. R \in Int /\ H \in Nat
  BY <1>2, <1>4
<1>10. Len(dev.rx) = Len(rest) + 1
  BY <1>2, <1>3, LenProperties
<1> DEFINE L == Len(rest)
<1>11. /\ \A k \in 1..H : sp.rx_buf[Wrap(out + k - 1)] = R + k
       /\ \A k \in 1..(L + 1) : dev.rx[k] = R + H + k
       /\ host.sent = R + H + (L + 1) /\ L \in Nat
       /\ \A k \in 1..L : rest[k] = dev.rx[k + 1]
  BY <1>3, <1>8, <1>10
<1> HIDE DEF R, H, L
<1>12. byte = R + H + 1
  BY <1>3, <1>11
<1>13. byte <= host.load[2]
  <2>1. host.sent <= host.load[2]
    BY DEF Control
  <2> QED
    BY <2>1, <1>2, <1>9, <1>11, <1>12
<1>14. Control'
  <2>1. \A i \in Slots : buf[i] <= host.load[2]
    BY <1>5, <1>13 DEF Control
  <2>2. Len(rest) <= ReadDepth
    BY <1>10, <1>11, JtagUartAssumption DEF Control, L
  <2>3. call.pc \in {"take", "free"} => call.n <= Span(next, out)
    <3>1. call.n \in Nat
      BY Fields DEF Slots
    <3> QED
      BY <3>1, <1>4 DEF Control
  <2> QED
    BY <1>1, <1>6, <2>1, <2>2, <2>3 DEF Control
<1>15. TransmitNeverStalls'
  BY <1>1, <1>6 DEF TransmitNeverStalls
<1>16. ReceiveNeverStalls'
  BY <1>1, <1>6 DEF ReceiveNeverStalls, next
<1>17. Transmitted'
  BY <1>1, <1>6 DEF Transmitted, Accepted
<1>18. Received'
  <2>1. \A k \in 1..(H + 1) : buf[Wrap(out + k - 1)] = R + k
    <3> TAKE k \in 1..(H + 1)
    <3>1. CASE k \in 1..H
      BY <3>1, <1>4, <1>5, <1>11 DEF H
    <3>2. CASE k \notin 1..H
      <4>1. k = H + 1
        BY <3>2, <1>9
      <4>2. Wrap(out + k - 1) = in
        BY <4>1, <1>4 DEF H
      <4> QED
        BY <4>1, <4>2, <1>5, <1>9, <1>12
    <3> QED
      BY <3>1, <3>2
  <2>2. \A k \in 1..L : rest[k] = R + (H + 1) + k
    <3> TAKE k \in 1..L
    <3>1. rest[k] = dev.rx[k + 1] /\ k + 1 \in 1..(L + 1)
      BY <1>11
    <3> QED
      BY <3>1, <1>9, <1>11
  <2>3. host.sent = R + (H + 1) + L
    BY <1>9, <1>11
  <2>4. RxFlow(prog.in, Copied, buf, next, out, rest, host.sent)
    BY <2>1, <2>2, <2>3, <1>4, <1>8 DEF RxFlow, R, H, L
  <2>5. Copied' = Copied
    BY <1>1 DEF Copied
  <2> QED
    BY <1>1, <1>6, <2>4, <2>5 DEF Received
<1> QED
  BY <1>7, <1>14, <1>15, <1>16, <1>17, <1>18

(* Receive interrupts go off with a full buffer only.                      *)
LEMMA IsrReceiveEndInv == UartInv /\ IsrReceiveEnd => UartInv'
<1> SUFFICES ASSUME UartInv, IsrReceiveEnd PROVE UartInv'
  OBVIOUS
<1> USE DEF UartInv
<1>1. /\ \E e \in {sp.irq_enable, sp.irq_enable \ {"RE"}} :
           /\ sp' = [sp EXCEPT !.irq_enable = e]
           /\ dev' = [dev EXCEPT !.enable = e]
           /\ e = sp.irq_enable \/ Succ(sp.rx_in) = sp.rx_out
      /\ \E p \in {"tx", "loop"} : isr' = [isr EXCEPT !.pc = p]
      /\ UNCHANGED <<call, prog, host>> /\ isr.pc = "rx"
  <2>1. sp = [sp EXCEPT !.irq_enable = sp.irq_enable]
    BY DEF Types, SpStates
  <2>2. dev = [dev EXCEPT !.enable = sp.irq_enable]
    BY DEF Types, DevStates, Control
  <2>3. \/ sp' = sp /\ dev' = dev
        \/ SetEnable(sp.irq_enable \ {"RE"}) /\ Succ(sp.rx_in) = sp.rx_out
    BY DEF IsrReceiveEnd
  <2>4. \E p \in {"tx", "loop"} : isr' = [isr EXCEPT !.pc = p]
    BY DEF IsrReceiveEnd
  <2> QED
    BY <2>1, <2>2, <2>3, <2>4 DEF IsrReceiveEnd, SetEnable
<1>2. /\ sp'.tx_buf = sp.tx_buf /\ sp'.rx_buf = sp.rx_buf
      /\ sp'.tx_in = sp.tx_in /\ sp'.tx_out = sp.tx_out
      /\ sp'.rx_in = sp.rx_in /\ sp'.rx_out = sp.rx_out
      /\ sp'.irq_enable \in {sp.irq_enable, sp.irq_enable \ {"RE"}}
      /\ sp'.irq_enable = sp.irq_enable \/ Succ(sp.rx_in) = sp.rx_out
      /\ dev'.rx = dev.rx /\ dev'.tx = dev.tx /\ dev'.enable = sp'.irq_enable
      /\ isr'.space = isr.space /\ isr'.pc \in {"tx", "loop"}
  BY <1>1 DEF Types, SpStates, DevStates, IsrStates
<1>3. Types'
  <2>1. sp.irq_enable \in SUBSET Enables /\ sp.irq_enable \ {"RE"} \in SUBSET Enables
    BY Fields
  <2>2. PICK e \in SUBSET Enables : /\ sp' = [sp EXCEPT !.irq_enable = e]
                                    /\ dev' = [dev EXCEPT !.enable = e]
    BY <1>1, <2>1
  <2>3. sp' \in SpStates /\ dev' \in DevStates
    BY <2>2 DEF Types, SpStates, DevStates
  <2>4. isr' \in IsrStates
    BY <1>1 DEF Types, IsrStates
  <2> QED
    BY <1>1, <2>3, <2>4 DEF Types
<1>4. Control'
  BY <1>1, <1>2 DEF Control
<1>5. TransmitNeverStalls' /\ ReceiveNeverStalls'
  BY <1>1, <1>2 DEF TransmitNeverStalls, ReceiveNeverStalls, Succ
<1>6. Transmitted'
  BY <1>1, <1>2 DEF Transmitted, Accepted
<1>7. Received'
  BY <1>1, <1>2 DEF Received, Copied
<1> QED
  BY <1>3, <1>4, <1>5, <1>6, <1>7

(* A byte moves from the buffer to the transmit FIFO.                      *)
LEMMA IsrTransmitInv == UartInv /\ IsrTransmit => UartInv'
<1> SUFFICES ASSUME UartInv, IsrTransmit PROVE UartInv'
  OBVIOUS
<1> USE DEF UartInv
<1> DEFINE in == sp.tx_in
           out == sp.tx_out
           next == Succ(sp.tx_out)
           byte == sp.tx_buf[sp.tx_out]
           tx == Append(dev.tx, byte)
<1>1. /\ sp' = [sp EXCEPT !.tx_out = next]
      /\ dev' = [dev EXCEPT !.tx = tx]
      /\ isr' = [isr EXCEPT !.space = isr.space - 1]
      /\ UNCHANGED <<call, prog, host>>
      /\ isr.pc = "tx" /\ isr.space > 0 /\ out # in
  BY DEF IsrTransmit
<1>2. /\ BufLen \in Nat /\ BufLen > 1 /\ in \in Slots /\ out \in Slots
      /\ sp.tx_buf \in [Slots -> Nat] /\ dev.tx \in Seq(Nat)
      /\ Len(host.got) \in Nat /\ Len(dev.tx) \in Nat
      /\ isr.space \in 0..WriteDepth /\ WriteDepth \in Nat
  BY Fields, JtagUartAssumption
<1>3. isr.space + Len(dev.tx) <= WriteDepth /\ isr.space - 1 \in 0..WriteDepth
  BY <1>1, <1>2 DEF Control
<1>4. byte \in Nat
  BY <1>2
<1>5. /\ tx \in Seq(Nat) /\ Len(tx) = Len(dev.tx) + 1
      /\ \A k \in 1..Len(dev.tx) : tx[k] = dev.tx[k]
      /\ tx[Len(dev.tx) + 1] = byte
  BY <1>2, <1>4, AppendProperties
<1>6. /\ next \in Slots /\ Span(in, out) \in Nat /\ Span(in, out) >= 1
      /\ Span(in, next) = Span(in, out) - 1
      /\ Wrap(out + 1 - 1) = out
      /\ \A k \in 1..(Span(in, out) - 1) : Wrap(next + k - 1) = Wrap(out + (k + 1) - 1)
  <2>1. next = Wrap(out + 1) /\ next \in Slots
    BY <1>2, SuccLemma
  <2> HIDE DEF next, in, out
  <2>2. BufLen \in Nat /\ in \in 0..(BufLen - 1) /\ out \in 0..(BufLen - 1)
    BY <1>2 DEF Slots
  <2>3. next = IF out + 1 < BufLen THEN out + 1 ELSE out + 1 - BufLen
    BY <2>1, <2>2 DEF Wrap
  <2>4. Span(in, out) \in Nat /\ Span(in, out) >= 1 /\ Span(in, next) = Span(in, out) - 1
    BY <1>1, <2>2, <2>3 DEF Span
  <2>5. /\ Wrap(out + 1 - 1) = out
        /\ \A k \in 1..(Span(in, out) - 1) : Wrap(next + k - 1) = Wrap(out + (k + 1) - 1)
    BY <2>2, <2>3, <2>4 DEF Span, Wrap
  <2> QED
    BY <2>1, <2>4, <2>5
<1> HIDE DEF next, byte, tx
<1>7. /\ sp'.tx_buf = sp.tx_buf /\ sp'.rx_buf = sp.rx_buf
      /\ sp'.tx_in = sp.tx_in /\ sp'.tx_out = next
      /\ sp'.rx_in = sp.rx_in /\ sp'.rx_out = sp.rx_out
      /\ sp'.irq_enable = sp.irq_enable
      /\ dev'.rx = dev.rx /\ dev'.tx = tx /\ dev'.enable = dev.enable
      /\ isr'.pc = isr.pc /\ isr'.space = isr.space - 1
  BY <1>1 DEF Types, SpStates, DevStates, IsrStates
<1>8. Types'
  BY <1>1, <1>3, <1>5, <1>6 DEF Types, SpStates, DevStates, IsrStates
<1>9. Control'
  <2>1. Len(tx) <= WriteDepth /\ isr.space - 1 + Len(tx) <= WriteDepth
    <3> DEFINE T == Len(dev.tx)
    <3>1. T \in Nat /\ isr.space + T <= WriteDepth /\ Len(tx) = T + 1
      BY <1>2, <1>3, <1>5
    <3> HIDE DEF T
    <3> QED
      BY <3>1, <1>1, <1>2
  <2>2. call.pc \in {"copy", "publish"} => Span(in, next) + call.n < BufLen
    <3>1. call.n \in Nat
      BY Fields DEF Slots
    <3> QED
      BY <3>1, <1>2, <1>6 DEF Control
  <2> QED
    BY <1>1, <1>7, <2>1, <2>2 DEF Control
<1>10. TransmitNeverStalls' /\ ReceiveNeverStalls'
  BY <1>1, <1>7 DEF TransmitNeverStalls, ReceiveNeverStalls, Succ
<1>11. Transmitted'
  <2> DEFINE G == Len(host.got)
             T == Len(dev.tx)
             H == Span(in, out)
  <2>1. /\ \A k \in 1..G : host.got[k] = k
        /\ \A k \in 1..T : dev.tx[k] = G + k
        /\ \A k \in 1..H : sp.tx_buf[Wrap(out + k - 1)] = G + T + k
        /\ Accepted = G + T + H
    BY DEF Transmitted, TxFlow
  <2>2. G \in Nat /\ T \in Nat /\ H \in Nat /\ H >= 1
    BY <1>2, <1>6
  <2>3. /\ Len(tx) = T + 1 /\ tx[T + 1] = byte
        /\ \A k \in 1..T : tx[k] = dev.tx[k]
    BY <1>5
  <2> HIDE DEF G, T, H
  <2>4. byte = G + T + 1
    <3>1. sp.tx_buf[Wrap(out + 1 - 1)] = G + T + 1
      BY <2>1, <2>2
    <3> QED
      BY <3>1, <1>6 DEF byte
  <2>5. \A k \in 1..(T + 1) : tx[k] = G + k
    BY <2>1, <2>2, <2>3, <2>4
  <2>6. \A k \in 1..(H - 1) : sp.tx_buf[Wrap(next + k - 1)] = G + (T + 1) + k
    <3> TAKE k \in 1..(H - 1)
    <3>1. Wrap(next + k - 1) = Wrap(out + (k + 1) - 1)
      BY <1>6 DEF H
    <3>2. k + 1 \in 1..H
      BY <2>2
    <3>3. sp.tx_buf[Wrap(out + (k + 1) - 1)] = G + T + (k + 1)
      BY <3>2, <2>1
    <3>4. G + T + (k + 1) = G + (T + 1) + k
      BY <2>2
    <3> QED
      BY <3>1, <3>3, <3>4
  <2>7. Accepted = G + (T + 1) + (H - 1)
    BY <2>1, <2>2
  <2>8. Span(in, next) = H - 1
    BY <1>6 DEF H
  <2>9. TxFlow(host.got, tx, sp.tx_buf, in, next, Accepted)
    BY <2>1, <2>3, <2>5, <2>6, <2>7, <2>8 DEF TxFlow, G
  <2>10. Accepted' = Accepted
    BY <1>1 DEF Accepted
  <2> QED
    BY <1>1, <1>7, <2>9, <2>10 DEF Transmitted
<1>12. Received'
  BY <1>1, <1>7 DEF Received, Copied
<1> QED
  BY <1>8, <1>9, <1>10, <1>11, <1>12

(* Transmit interrupts go off with an empty buffer only.                   *)
LEMMA IsrTransmitEndInv == UartInv /\ IsrTransmitEnd => UartInv'
<1> SUFFICES ASSUME UartInv, IsrTransmitEnd PROVE UartInv'
  OBVIOUS
<1> USE DEF UartInv
<1>0. isr.space \in Nat
  BY Fields, JtagUartAssumption
<1>1. /\ \E e \in {sp.irq_enable, sp.irq_enable \ {"WE"}} :
           /\ sp' = [sp EXCEPT !.irq_enable = e]
           /\ dev' = [dev EXCEPT !.enable = e]
           /\ e = sp.irq_enable \/ sp.tx_in = sp.tx_out
      /\ isr' = [isr EXCEPT !.pc = "loop"]
      /\ UNCHANGED <<call, prog, host>> /\ isr.pc = "tx"
  <2>1. sp = [sp EXCEPT !.irq_enable = sp.irq_enable]
    BY DEF Types, SpStates
  <2>2. dev = [dev EXCEPT !.enable = sp.irq_enable]
    BY DEF Types, DevStates, Control
  <2>3. \/ sp' = sp /\ dev' = dev
        \/ SetEnable(sp.irq_enable \ {"WE"}) /\ sp.tx_in = sp.tx_out
    BY <1>0 DEF IsrTransmitEnd
  <2> QED
    BY <2>1, <2>2, <2>3 DEF IsrTransmitEnd, SetEnable
<1>2. /\ sp'.tx_buf = sp.tx_buf /\ sp'.rx_buf = sp.rx_buf
      /\ sp'.tx_in = sp.tx_in /\ sp'.tx_out = sp.tx_out
      /\ sp'.rx_in = sp.rx_in /\ sp'.rx_out = sp.rx_out
      /\ sp'.irq_enable \in {sp.irq_enable, sp.irq_enable \ {"WE"}}
      /\ sp'.irq_enable = sp.irq_enable \/ sp.tx_in = sp.tx_out
      /\ dev'.rx = dev.rx /\ dev'.tx = dev.tx /\ dev'.enable = sp'.irq_enable
      /\ isr'.space = isr.space /\ isr'.pc = "loop"
  BY <1>1 DEF Types, SpStates, DevStates, IsrStates
<1>3. Types'
  <2>1. sp.irq_enable \in SUBSET Enables /\ sp.irq_enable \ {"WE"} \in SUBSET Enables
    BY Fields
  <2>2. PICK e \in SUBSET Enables : /\ sp' = [sp EXCEPT !.irq_enable = e]
                                    /\ dev' = [dev EXCEPT !.enable = e]
    BY <1>1, <2>1
  <2>3. sp' \in SpStates /\ dev' \in DevStates
    BY <2>2 DEF Types, SpStates, DevStates
  <2>4. isr' \in IsrStates
    BY <1>1 DEF Types, IsrStates
  <2> QED
    BY <1>1, <2>3, <2>4 DEF Types
<1>4. Control'
  BY <1>1, <1>2 DEF Control
<1>5. TransmitNeverStalls' /\ ReceiveNeverStalls'
  BY <1>1, <1>2 DEF TransmitNeverStalls, ReceiveNeverStalls, Succ
<1>6. Transmitted'
  BY <1>1, <1>2 DEF Transmitted, Accepted
<1>7. Received'
  BY <1>1, <1>2 DEF Received, Copied
<1> QED
  BY <1>3, <1>4, <1>5, <1>6, <1>7

(* The alarm moves the count of seconds and the activity bit.              *)
LEMMA TimeoutInv == UartInv /\ Timeout => UartInv'
<1> SUFFICES ASSUME UartInv, Timeout PROVE UartInv'
  OBVIOUS
<1> USE DEF UartInv
<1>0. IntMax \in Nat /\ IntMax - 2 >= 2 /\ sp.host_inactive \in 0..(IntMax - 2)
  BY Fields, JtagUartAssumption
<1>1. /\ \E x \in 0..(IntMax - 2) : sp' = [sp EXCEPT !.host_inactive = x]
      /\ \/ dev' = dev
         \/ dev' = [dev EXCEPT !.ac = FALSE, !.enable = sp.irq_enable]
      /\ UNCHANGED <<call, isr, prog, host>>
  BY <1>0 DEF Timeout
<1>2. /\ sp'.tx_buf = sp.tx_buf /\ sp'.rx_buf = sp.rx_buf
      /\ sp'.tx_in = sp.tx_in /\ sp'.tx_out = sp.tx_out
      /\ sp'.rx_in = sp.rx_in /\ sp'.rx_out = sp.rx_out
      /\ sp'.irq_enable = sp.irq_enable
      /\ dev'.rx = dev.rx /\ dev'.tx = dev.tx /\ dev'.enable = sp.irq_enable
  BY <1>1 DEF Types, SpStates, DevStates, Control
<1>3. Types'
  <2>1. sp' \in SpStates
    BY <1>1 DEF Types, SpStates
  <2>2. dev' \in DevStates
    BY <1>1, Fields DEF Types, DevStates
  <2> QED
    BY <1>1, <2>1, <2>2 DEF Types
<1>4. Control'
  BY <1>1, <1>2 DEF Control
<1>5. TransmitNeverStalls' /\ ReceiveNeverStalls'
  BY <1>1, <1>2 DEF TransmitNeverStalls, ReceiveNeverStalls, Succ
<1>6. Transmitted'
  BY <1>1, <1>2 DEF Transmitted, Accepted
<1>7. Received'
  BY <1>1, <1>2 DEF Received, Copied
<1> QED
  BY <1>3, <1>4, <1>5, <1>6, <1>7

(* A byte moves from the transmit FIFO to the host.                        *)
LEMMA HostTakeInv == UartInv /\ HostTake => UartInv'
<1> SUFFICES ASSUME UartInv, HostTake PROVE UartInv'
  OBVIOUS
<1> USE DEF UartInv
<1> DEFINE byte == Head(dev.tx)
           rest == Tail(dev.tx)
           got == Append(host.got, byte)
<1>1. /\ host' = [host EXCEPT !.got = got]
      /\ dev' = [dev EXCEPT !.tx = rest, !.ac = TRUE]
      /\ UNCHANGED <<sp, call, isr, prog>> /\ dev.tx # <<>>
  BY DEF HostTake
<1>2. /\ dev.tx \in Seq(Nat) /\ host.got \in Seq(Nat)
      /\ Len(host.got) \in Nat /\ Len(dev.tx) \in Nat /\ WriteDepth \in Nat
  BY Fields, JtagUartAssumption
<1>3. /\ byte \in Nat /\ byte = dev.tx[1] /\ rest \in Seq(Nat)
      /\ Len(rest) = Len(dev.tx) - 1 /\ Len(rest) \in Nat
      /\ \A k \in 1..Len(rest) : rest[k] = dev.tx[k + 1]
  <2>1. byte = dev.tx[1]
    BY <1>1, <1>2
  <2>2. Len(rest) \in Nat
    BY <1>1, <1>2, HeadTailProperties, LenProperties
  <2> QED
    BY <1>1, <1>2, <2>1, <2>2, HeadTailProperties
<1>4. /\ got \in Seq(Nat) /\ Len(got) = Len(host.got) + 1
      /\ \A k \in 1..Len(host.got) : got[k] = host.got[k]
      /\ got[Len(host.got) + 1] = byte
  BY <1>2, <1>3, AppendProperties
<1> HIDE DEF byte, rest, got
<1>5. /\ dev'.rx = dev.rx /\ dev'.tx = rest /\ dev'.enable = dev.enable
      /\ host'.got = got /\ host'.sent = host.sent /\ host'.load = host.load
  BY <1>1 DEF Types, DevStates, HostStates
<1>6. Types'
  BY <1>1, <1>3, <1>4 DEF Types, DevStates, HostStates
<1> DEFINE G == Len(host.got)
           L == Len(rest)
           H == Span(sp.tx_in, sp.tx_out)
<1>7. /\ \A k \in 1..G : host.got[k] = k
      /\ \A k \in 1..Len(dev.tx) : dev.tx[k] = G + k
      /\ \A k \in 1..H : sp.tx_buf[Wrap(sp.tx_out + k - 1)] = G + Len(dev.tx) + k
      /\ Accepted = G + Len(dev.tx) + H
  BY DEF Transmitted, TxFlow
<1>8. /\ Len(got) = G + 1 /\ got[G + 1] = byte
      /\ \A k \in 1..G : got[k] = host.got[k]
  BY <1>4
<1>9. /\ Len(dev.tx) = L + 1 /\ L \in Nat /\ G \in Nat /\ H \in Slots
      /\ byte = dev.tx[1] /\ \A k \in 1..L : rest[k] = dev.tx[k + 1]
  <2>1. H \in Slots
    BY SpanLemma, Fields
  <2>2. Len(dev.tx) = L + 1
    BY <1>2, <1>3
  <2> QED
    BY <1>2, <1>3, <2>1, <2>2
<1> HIDE DEF G, H, L
<1>10. H \in Nat
  BY <1>9 DEF Slots
<1>11. Control'
  <2>1. Len(rest) <= WriteDepth
    BY <1>2, <1>9 DEF Control, L
  <2>2. isr.pc \in {"rx", "tx"} => isr.space + Len(rest) <= WriteDepth
    <3>1. isr.space \in Nat
      BY Fields, <1>2
    <3> QED
      BY <3>1, <1>2, <1>9 DEF Control, L
  <2> QED
    BY <1>1, <1>5, <2>1, <2>2 DEF Control
<1>12. TransmitNeverStalls' /\ ReceiveNeverStalls'
  BY <1>1 DEF TransmitNeverStalls, ReceiveNeverStalls, Succ
<1>13. Transmitted'
  <2>1. byte = G + 1
    BY <1>7, <1>9
  <2>2. \A k \in 1..(G + 1) : got[k] = k
    BY <1>7, <1>8, <1>9, <2>1
  <2>3. \A k \in 1..L : rest[k] = (G + 1) + k
    <3> TAKE k \in 1..L
    <3>1. rest[k] = dev.tx[k + 1] /\ k + 1 \in 1..(L + 1)
      BY <1>9
    <3> QED
      BY <3>1, <1>7, <1>9
  <2>4. /\ \A k \in 1..H : sp.tx_buf[Wrap(sp.tx_out + k - 1)] = (G + 1) + L + k
        /\ Accepted = (G + 1) + L + H
    BY <1>7, <1>9, <1>10
  <2>5. TxFlow(got, rest, sp.tx_buf, sp.tx_in, sp.tx_out, Accepted)
    BY <2>2, <2>3, <2>4, <1>8 DEF TxFlow, H, L
  <2>6. Accepted' = Accepted
    BY <1>1 DEF Accepted
  <2> QED
    BY <1>1, <1>5, <2>5, <2>6 DEF Transmitted
<1>14. Received'
  BY <1>1, <1>5 DEF Received, Copied
<1> QED
  BY <1>6, <1>11, <1>12, <1>13, <1>14

(* A byte moves from the host to the receive FIFO.                         *)
LEMMA HostSendInv == UartInv /\ HostSend => UartInv'
<1> SUFFICES ASSUME UartInv, HostSend PROVE UartInv'
  OBVIOUS
<1> USE DEF UartInv
<1> DEFINE byte == host.sent + 1
           rx == Append(dev.rx, byte)
<1>1. /\ host' = [host EXCEPT !.sent = byte]
      /\ dev' = [dev EXCEPT !.rx = rx, !.ac = TRUE]
      /\ UNCHANGED <<sp, call, isr, prog>>
      /\ Len(dev.rx) < ReadDepth /\ host.sent < host.load[2]
  BY DEF HostSend
<1>2. /\ dev.rx \in Seq(Nat) /\ Len(dev.rx) \in Nat /\ Len(prog.in) \in Nat
      /\ host.sent \in Nat /\ host.load[2] \in Nat /\ ReadDepth \in Nat
  BY Fields, JtagUartAssumption
<1>3. byte \in Nat /\ byte <= host.load[2]
  BY <1>1, <1>2
<1>4. /\ rx \in Seq(Nat) /\ Len(rx) = Len(dev.rx) + 1
      /\ \A k \in 1..Len(dev.rx) : rx[k] = dev.rx[k]
      /\ rx[Len(dev.rx) + 1] = byte
  BY <1>2, <1>3, AppendProperties
<1>5. byte = host.sent + 1
  OBVIOUS
<1> HIDE DEF byte, rx
<1>6. /\ dev'.rx = rx /\ dev'.tx = dev.tx /\ dev'.enable = dev.enable
      /\ host'.got = host.got /\ host'.sent = byte /\ host'.load = host.load
  BY <1>1 DEF Types, DevStates, HostStates
<1>7. Types'
  BY <1>1, <1>3, <1>4 DEF Types, DevStates, HostStates
<1> DEFINE R == Len(prog.in) - Copied
           H == Span(sp.rx_in, sp.rx_out)
           L == Len(dev.rx)
<1>8. /\ \A k \in 1..Len(prog.in) : prog.in[k] = k
      /\ \A k \in 1..H : sp.rx_buf[Wrap(sp.rx_out + k - 1)] = R + k
      /\ \A k \in 1..L : dev.rx[k] = R + H + k
      /\ host.sent = R + H + L
  BY DEF Received, RxFlow
<1>9. /\ L \in Nat /\ Len(rx) = L + 1 /\ rx[L + 1] = byte
      /\ \A k \in 1..L : rx[k] = dev.rx[k]
      /\ H \in Slots /\ L < ReadDepth
  BY <1>1, <1>2, <1>4, SpanLemma, Fields
<1>10. R \in Int
  <2>1. Copied \in Nat
    <3>1. call.n \in Nat
      BY Fields DEF Slots
    <3> QED
      BY <3>1 DEF Copied
  <2> QED
    BY <2>1, <1>2
<1> HIDE DEF R, H, L
<1>11. H \in Nat
  BY <1>9 DEF Slots
<1>12. Control'
  <2>1. Len(rx) <= ReadDepth
    BY <1>2, <1>9
  <2> QED
    BY <1>1, <1>3, <1>6, <2>1 DEF Control
<1>13. TransmitNeverStalls' /\ ReceiveNeverStalls'
  BY <1>1 DEF TransmitNeverStalls, ReceiveNeverStalls, Succ
<1>14. Transmitted'
  BY <1>1, <1>6 DEF Transmitted, Accepted
<1>15. Received'
  <2>1. byte = R + H + (L + 1)
    BY <1>5, <1>8, <1>9, <1>10, <1>11
  <2>2. \A k \in 1..(L + 1) : rx[k] = R + H + k
    BY <1>8, <1>9, <2>1
  <2>3. RxFlow(prog.in, Copied, sp.rx_buf, sp.rx_in, sp.rx_out, rx, byte)
    BY <1>8, <1>9, <2>1, <2>2 DEF RxFlow, R, H
  <2>4. Copied' = Copied
    BY <1>1 DEF Copied
  <2> QED
    BY <1>1, <1>6, <2>3, <2>4 DEF Received
<1> QED
  BY <1>7, <1>12, <1>13, <1>14, <1>15

(* The cable carries no byte when it is plugged or unplugged.              *)
LEMMA HostPlugInv == UartInv /\ HostPlug => UartInv'
<1> SUFFICES ASSUME UartInv, HostPlug PROVE UartInv'
  OBVIOUS
<1> USE DEF UartInv
<1>1. /\ \E b \in BOOLEAN, p \in Nat : host' = [host EXCEPT !.connected = b, !.plugs = p]
      /\ UNCHANGED <<sp, dev, call, isr, prog>>
  <2>1. (~ host.connected) \in BOOLEAN
    OBVIOUS
  <2>2. host.plugs + 1 \in Nat
    <3>1. host.plugs \in Nat
      BY Fields
    <3> QED
      BY <3>1
  <2> QED
    BY <2>1, <2>2, Zenon DEF HostPlug
<1>2. host'.got = host.got /\ host'.sent = host.sent /\ host'.load = host.load
  BY <1>1 DEF Types, HostStates
<1>3. Types'
  BY <1>1 DEF Types, HostStates
<1>4. Control'
  BY <1>1, <1>2 DEF Control
<1>5. TransmitNeverStalls' /\ ReceiveNeverStalls'
  BY <1>1 DEF TransmitNeverStalls, ReceiveNeverStalls, Succ
<1>6. Transmitted'
  BY <1>1, <1>2 DEF Transmitted, Accepted
<1>7. Received'
  BY <1>1, <1>2 DEF Received, Copied
<1> QED
  BY <1>3, <1>4, <1>5, <1>6, <1>7

(* The calls the program may begin.                                        *)
LEMMA CallsInv == UartInv /\ Calls => UartInv'
<1> SUFFICES ASSUME UartInv, Calls PROVE UartInv'
  OBVIOUS
<1>1. ASSUME NEW n \in Counts, NEW nb \in BOOLEAN,
             prog.out + n <= host.load[1], Begin("write", n, nb)
      PROVE  UartInv'
  BY <1>1, BeginInv
<1>2. ASSUME NEW n \in Counts, NEW nb \in BOOLEAN, Begin("read", n, nb)
      PROVE  UartInv'
  BY <1>2, BeginInv
<1>3. ASSUME NEW nb \in BOOLEAN, Begin("close", 0, nb)
      PROVE  UartInv'
  BY <1>3, BeginInv
<1>4. ASSUME NEW t \in Timeouts, SetTimeout(t)
      PROVE  UartInv'
  BY <1>4, SetTimeoutInv
<1> QED
  BY <1>1, <1>2, <1>3, <1>4 DEF Calls

(* A step that changes nothing.                                            *)
LEMMA StutterInv == UartInv /\ UNCHANGED vars => UartInv'
<1> SUFFICES ASSUME UartInv, UNCHANGED vars PROVE UartInv'
  OBVIOUS
<1> USE DEF UartInv
<1>1. UNCHANGED <<sp, dev, call, isr, prog, host>>
  BY DEF vars
<1>2. Types' /\ Control'
  BY <1>1 DEF Types, Control
<1>3. TransmitNeverStalls' /\ ReceiveNeverStalls'
  BY <1>1 DEF TransmitNeverStalls, ReceiveNeverStalls, Succ
<1>4. Transmitted'
  BY <1>1 DEF Transmitted, Accepted
<1>5. Received'
  BY <1>1 DEF Received, Copied
<1> QED
  BY <1>2, <1>3, <1>4, <1>5

(* Every step keeps the invariant.                                         *)
LEMMA NextInv == UartInv /\ [Next]_vars => UartInv'
<1> SUFFICES ASSUME UartInv, [Next]_vars PROVE UartInv'
  OBVIOUS
<1>1. CASE Calls
  BY <1>1, CallsInv
<1>2. CASE Program
  BY <1>2, WriteSnapshotInv, WriteCopyInv, WritePublishInv, WriteKickInv, WriteWaitInv,
     WriteReturnInv, ReadSnapshotInv, ReadTakeInv, ReadFreeInv, ReadWaitInv,
     ReadReturnInv, CloseInv DEF Program
<1>3. CASE Isr
  BY <1>3, IsrLoopInv, IsrReceiveInv, IsrReceiveEndInv, IsrTransmitInv, IsrTransmitEndInv
  DEF Isr
<1>4. CASE Timeout \/ HostTake \/ HostSend \/ HostPlug
  BY <1>4, TimeoutInv, HostTakeInv, HostSendInv, HostPlugInv
<1>5. CASE UNCHANGED vars
  BY <1>5, StutterInv
<1> QED
  BY <1>1, <1>2, <1>3, <1>4, <1>5 DEF Next

(* In every reachable state, whatever the sizes of the buffers and FIFOs.  *)
THEOREM UartInvariant == Spec => []UartInv
BY InitInv, NextInv, PTL DEF Spec

(* A byte in the transmit buffer always has an interrupt that will send it *)
(* or a call that is about to ask for one.                                 *)
THEOREM TransmitNeverStallsTheorem == Spec => []TransmitNeverStalls
BY UartInvariant, PTL DEF UartInv

(* Receive interrupts are off only while the buffer is full or a call that *)
(* made room is about to switch them on.                                   *)
THEOREM ReceiveNeverStallsTheorem == Spec => []ReceiveNeverStalls
BY UartInvariant, PTL DEF UartInv

(* The type invariant is part of it.                                       *)
LEMMA TypeOKLemma == UartInv => JtagUartTypeOK
<1> SUFFICES ASSUME UartInv PROVE JtagUartTypeOK
  OBVIOUS
<1> USE DEF UartInv
<1>1. /\ sp.rx_buf \in [0..(BufLen - 1) -> 0..host.load[2]]
      /\ sp.tx_buf \in [0..(BufLen - 1) -> 0..host.load[1]]
  <2>1. /\ \A i \in Slots : sp.tx_buf[i] <= host.load[1] /\ sp.rx_buf[i] <= host.load[2]
    BY DEF Control
  <2>2. /\ sp.rx_buf \in [Slots -> Nat] /\ sp.tx_buf \in [Slots -> Nat]
        /\ host.load[1] \in Nat /\ host.load[2] \in Nat
    BY Fields
  <2>3. \A i \in Slots : /\ sp.tx_buf[i] \in 0..host.load[1]
                         /\ sp.rx_buf[i] \in 0..host.load[2]
    BY <2>1, <2>2
  <2> QED
    BY <2>2, <2>3 DEF Slots
<1>2. Len(dev.rx) <= ReadDepth /\ Len(dev.tx) <= WriteDepth /\ dev.enable = sp.irq_enable
  BY DEF Control
<1> QED
  BY <1>1, <1>2, Fields DEF JtagUartTypeOK, CallPcs, Slots

(* The indices stay inside the buffers, the FIFOs within their depths, and *)
(* the device has the enables that the driver thinks it has.               *)
THEOREM JtagUartTypeCorrect == Spec => []JtagUartTypeOK
BY UartInvariant, TypeOKLemma, PTL

(* Three pieces of a stream of numbered bytes, and the whole of it.        *)
Numbered(a, b, c) ==
  /\ \A k \in 1..Len(a) : a[k] = k
  /\ \A k \in 1..Len(b) : b[k] = Len(a) + k
  /\ \A k \in 1..Len(c) : c[k] = Len(a) + Len(b) + k
FirstNumbers(s, n) == s = [k \in 1..n |-> k]

(* The pieces put together are the whole.                                  *)
LEMMA PiecesLemma ==
  ASSUME NEW a \in Seq(Nat), NEW b \in Seq(Nat), NEW c \in Seq(Nat), Numbered(a, b, c)
  PROVE  FirstNumbers(a \o b \o c, Len(a) + Len(b) + Len(c))
<1> DEFINE la == Len(a)
           lb == Len(b)
           lc == Len(c)
<1>0. /\ la \in Nat /\ lb \in Nat /\ lc \in Nat
      /\ Len(a) = la /\ Len(b) = lb /\ Len(c) = lc
      /\ \A k \in 1..la : a[k] = k
      /\ \A k \in 1..lb : b[k] = la + k
      /\ \A k \in 1..lc : c[k] = la + lb + k
  BY DEF Numbered
<1> HIDE DEF la, lb, lc
<1> DEFINE front == a \o b
           whole == front \o c
           all == [k \in 1..(la + lb + lc) |-> k]
<1>1. /\ front \in Seq(Nat) /\ Len(front) = la + lb
      /\ \A k \in 1..(la + lb) : front[k] = IF k <= la THEN a[k] ELSE b[k - la]
  BY <1>0, ConcatProperties
<1> HIDE DEF front
<1>2. ASSUME NEW k \in 1..(la + lb) PROVE front[k] = k
  <2>1. CASE k <= la
    BY <2>1, <1>0, <1>1
  <2>2. CASE ~ (k <= la)
    <3>1. k - la \in 1..lb /\ la + (k - la) = k
      BY <2>2, <1>0
    <3> QED
      BY <2>2, <3>1, <1>0, <1>1
  <2> QED
    BY <2>1, <2>2
<1>3. /\ whole \in Seq(Nat) /\ Len(whole) = la + lb + lc
      /\ \A k \in 1..(la + lb + lc) :
           whole[k] = IF k <= la + lb THEN front[k] ELSE c[k - (la + lb)]
  <2>1. /\ front \o c \in Seq(Nat)
        /\ Len(front \o c) = Len(front) + Len(c)
        /\ \A k \in 1..(Len(front) + Len(c)) :
             (front \o c)[k] = IF k <= Len(front) THEN front[k] ELSE c[k - Len(front)]
    BY <1>1, ConcatProperties
  <2> QED
    BY <2>1, <1>0, <1>1, Zenon
<1> HIDE DEF whole
<1>4. ASSUME NEW k \in 1..(la + lb + lc) PROVE whole[k] = k
  <2>1. CASE k <= la + lb
    BY <2>1, <1>0, <1>2, <1>3
  <2>2. CASE ~ (k <= la + lb)
    <3>1. k - (la + lb) \in 1..lc /\ la + lb + (k - (la + lb)) = k
      BY <2>2, <1>0
    <3> QED
      BY <2>2, <3>1, <1>0, <1>3
  <2> QED
    BY <2>1, <2>2
<1>5. all \in Seq(Nat) /\ Len(all) = la + lb + lc
  <2> DEFINE n == la + lb + lc
  <2>1. n \in Nat /\ all \in [1..n -> Nat]
    BY <1>0
  <2> HIDE DEF all, n
  <2>2. all \in Seq(Nat)
    BY <2>1, SeqDef
  <2>3. Len(all) = n
    BY <2>1, <2>2, LenProperties
  <2> QED
    BY <2>2, <2>3 DEF n
<1>6. \A k \in 1..Len(whole) : whole[k] = all[k]
  BY <1>3, <1>4
<1> HIDE DEF all
<1>7. whole = all
  BY <1>3, <1>5, <1>6, SeqEqual
<1> QED
  BY <1>7 DEF whole, front, all, la, lb, lc, FirstNumbers

(* What a circular buffer holds.                                           *)
LEMMA HeldLemma ==
  ASSUME NEW in \in Slots, NEW out \in Slots, NEW buf \in [Slots -> Nat]
  PROVE  /\ Span(in, out) \in Nat
         /\ Held(buf, in, out) \in Seq(Nat)
         /\ Len(Held(buf, in, out)) = Span(in, out)
         /\ \A k \in 1..Span(in, out) : Held(buf, in, out)[k] = buf[Wrap(out + k - 1)]
<1> DEFINE H == Span(in, out)
           held == [k \in 1..H |-> buf[(out + k - 1) % BufLen]]
<1>1. H \in Slots /\ Held(buf, in, out) = held
  BY SpanLemma DEF Held
<1>2. H \in Nat /\ H < BufLen /\ BufLen \in Nat
  BY <1>1, JtagUartAssumption DEF Slots
<1> HIDE DEF H
<1>3. ASSUME NEW k \in 1..H
      PROVE  /\ (out + k - 1) % BufLen \in Slots
             /\ (out + k - 1) % BufLen = Wrap(out + k - 1)
  <2>1. out + k - 1 \in 0..(2 * BufLen - 1) /\ out + k - 1 \in Nat
    BY <1>2 DEF Slots
  <2> QED
    BY <2>1, ModLemma, ModRange
<1>4. held \in [1..H -> Nat]
  BY <1>3
<1>5. \A k \in 1..H : held[k] = buf[Wrap(out + k - 1)]
  BY <1>3
<1> HIDE DEF held
<1>6. held \in Seq(Nat)
  BY <1>2, <1>4, SeqDef
<1>7. Len(held) = H
  BY <1>2, <1>4, <1>6, LenProperties
<1> QED
  BY <1>1, <1>2, <1>5, <1>6, <1>7 DEF H

(* The way out, put together from its three pieces.                        *)
LEMMA FlowOutLemma == UartInv => host.got \o dev.tx \o TxHeld = [k \in 1..Accepted |-> k]
<1> SUFFICES ASSUME UartInv PROVE host.got \o dev.tx \o TxHeld = [k \in 1..Accepted |-> k]
  OBVIOUS
<1> USE DEF UartInv
<1>1. /\ host.got \in Seq(Nat) /\ dev.tx \in Seq(Nat)
      /\ Len(host.got) \in Nat /\ Len(dev.tx) \in Nat
      /\ sp.tx_in \in Slots /\ sp.tx_out \in Slots /\ sp.tx_buf \in [Slots -> Nat]
  BY Fields
<1> DEFINE G == Len(host.got)
           T == Len(dev.tx)
           H == Span(sp.tx_in, sp.tx_out)
<1>2. /\ \A k \in 1..G : host.got[k] = k
      /\ \A k \in 1..T : dev.tx[k] = G + k
      /\ \A k \in 1..H : sp.tx_buf[Wrap(sp.tx_out + k - 1)] = G + T + k
      /\ Accepted = G + T + H
  BY DEF Transmitted, TxFlow
<1>3. /\ H \in Nat /\ TxHeld \in Seq(Nat) /\ Len(TxHeld) = H
      /\ \A k \in 1..H : TxHeld[k] = sp.tx_buf[Wrap(sp.tx_out + k - 1)]
  BY <1>1, HeldLemma DEF TxHeld
<1>4. G \in Nat /\ T \in Nat /\ Len(host.got) = G /\ Len(dev.tx) = T
  BY <1>1
<1> HIDE DEF G, T, H
<1>5. \A k \in 1..H : TxHeld[k] = G + T + k
  BY <1>2, <1>3
<1>6. FirstNumbers(host.got \o dev.tx \o TxHeld, Len(host.got) + Len(dev.tx) + Len(TxHeld))
  <2>1. \A k \in 1..Len(host.got) : host.got[k] = k
    BY <1>2, <1>4, Zenon
  <2>2. \A k \in 1..Len(dev.tx) : dev.tx[k] = Len(host.got) + k
    BY <1>2, <1>4, Zenon
  <2>3. \A k \in 1..Len(TxHeld) : TxHeld[k] = Len(host.got) + Len(dev.tx) + k
    BY <1>3, <1>4, <1>5, Zenon
  <2>4. Numbered(host.got, dev.tx, TxHeld)
    BY <2>1, <2>2, <2>3, Zenon DEF Numbered
  <2> QED
    BY <1>1, <1>3, <2>4, PiecesLemma, Zenon
<1> QED
  BY <1>2, <1>3, <1>4, <1>6, Zenon DEF FirstNumbers

(* The way in.                                                             *)
LEMMA FlowInLemma ==
  UartInv => prog.in \o SubSeq(RxHeld, 1 + Copied, Len(RxHeld)) \o dev.rx
               = [k \in 1..host.sent |-> k]
<1> SUFFICES ASSUME UartInv
             PROVE  prog.in \o SubSeq(RxHeld, 1 + Copied, Len(RxHeld)) \o dev.rx
                      = [k \in 1..host.sent |-> k]
  OBVIOUS
<1> USE DEF UartInv
<1>1. /\ prog.in \in Seq(Nat) /\ dev.rx \in Seq(Nat)
      /\ Len(prog.in) \in Nat /\ Len(dev.rx) \in Nat
      /\ sp.rx_in \in Slots /\ sp.rx_out \in Slots /\ sp.rx_buf \in [Slots -> Nat]
  BY Fields
<1> DEFINE L == Len(prog.in)
           X == Len(dev.rx)
           H == Span(sp.rx_in, sp.rx_out)
           C == Copied
           rest == SubSeq(RxHeld, 1 + C, Len(RxHeld))
<1>2. /\ \A k \in 1..L : prog.in[k] = k
      /\ \A k \in 1..H : sp.rx_buf[Wrap(sp.rx_out + k - 1)] = L - C + k
      /\ \A k \in 1..X : dev.rx[k] = L - C + H + k
      /\ host.sent = L - C + H + X
  BY DEF Received, RxFlow
<1>3. /\ H \in Nat /\ RxHeld \in Seq(Nat) /\ Len(RxHeld) = H
      /\ \A k \in 1..H : RxHeld[k] = sp.rx_buf[Wrap(sp.rx_out + k - 1)]
  BY <1>1, HeldLemma DEF RxHeld
<1>4. C \in Nat /\ C <= H
  <2>1. call.n \in Nat /\ (call.pc = "free" => call.n <= H)
    BY Fields DEF Control, Slots
  <2> HIDE DEF H
  <2> QED
    BY <1>3, <2>1 DEF Copied
<1>5. L \in Nat /\ X \in Nat /\ Len(prog.in) = L /\ Len(dev.rx) = X
  BY <1>1
<1> HIDE DEF L, X, H, C
<1>6. /\ rest \in Seq(Nat) /\ Len(rest) = H - C
      /\ \A k \in 1..(H - C) : rest[k] = RxHeld[k + C]
  <2>1. \A k \in (1 + C)..H : RxHeld[k] \in Nat
    BY <1>3, <1>4, LenProperties
  <2>2. 1 + C \in Int /\ H \in Int
    BY <1>3, <1>4
  <2> DEFINE sub == SubSeq(RxHeld, 1 + C, H)
  <2>3. /\ sub \in Seq(Nat)
        /\ Len(sub) = IF 1 + C <= H THEN H - (1 + C) + 1 ELSE 0
        /\ \A k \in 1..(H - (1 + C) + 1) : sub[k] = RxHeld[(1 + C) + k - 1]
    BY <2>1, <2>2, SubSeqProperties
  <2>4. rest = sub
    BY <1>3
  <2> HIDE DEF sub, rest
  <2>5. /\ H - (1 + C) + 1 = H - C
        /\ \A k \in 1..(H - C) : (1 + C) + k - 1 = k + C
        /\ ~ (1 + C <= H) => H - C = 0
    BY <1>3, <1>4
  <2> QED
    BY <2>3, <2>4, <2>5
<1> HIDE DEF rest
<1>7. \A k \in 1..(H - C) : rest[k] = L + k
  <2> TAKE k \in 1..(H - C)
  <2>1. k + C \in 1..H
    BY <1>3, <1>4
  <2>2. rest[k] = L - C + (k + C)
    BY <1>2, <1>3, <1>6, <2>1
  <2>3. L - C + (k + C) = L + k
    BY <1>4, <1>5
  <2> QED
    BY <2>2, <2>3
<1>8. H - C \in Nat /\ L - C + H = L + (H - C) /\ L - C + H + X = L + (H - C) + X
  BY <1>3, <1>4, <1>5
<1>9. \A k \in 1..X : dev.rx[k] = L + (H - C) + k
  BY <1>2, <1>8
<1>10. FirstNumbers(prog.in \o rest \o dev.rx, Len(prog.in) + Len(rest) + Len(dev.rx))
  <2>1. \A k \in 1..Len(prog.in) : prog.in[k] = k
    BY <1>2, <1>5, Zenon
  <2>2. \A k \in 1..Len(rest) : rest[k] = Len(prog.in) + k
    BY <1>5, <1>6, <1>7, Zenon
  <2>3. \A k \in 1..Len(dev.rx) : dev.rx[k] = Len(prog.in) + Len(rest) + k
    BY <1>5, <1>6, <1>9, Zenon
  <2>4. Numbered(prog.in, rest, dev.rx)
    BY <2>1, <2>2, <2>3, Zenon DEF Numbered
  <2> QED
    BY <1>1, <1>6, <2>4, PiecesLemma, Zenon
<1>11. host.sent = Len(prog.in) + Len(rest) + Len(dev.rx)
  BY <1>2, <1>5, <1>6, <1>8, Zenon
<1> QED
  BY <1>10, <1>11, Zenon DEF rest, C, FirstNumbers

(* The bytes that one side has sent are those that the other side has and  *)
(* those on their way, in order, whatever interrupts the calls.            *)
THEOREM NothingLostOrReorderedTheorem == Spec => []NothingLostOrReordered
<1>1. UartInv => NothingLostOrReordered
  BY FlowOutLemma, FlowInLemma DEF NothingLostOrReordered
<1> QED
  BY <1>1, UartInvariant, PTL

-----------------------------------------------------------------------------
(* The driver implements the two streams.                                  *)

StreamView == <<Accepted, host.got, host.sent, prog.in>>

(* A step that neither side can see.                                       *)
LEMMA StreamStutter ==
  ASSUME StreamView' = StreamView PROVE [Stream!Next]_Stream!vars
BY DEF StreamView, Stream!vars

(* Nothing has been sent at the start.                                     *)
LEMMA StreamInit == Init => Stream!Init
<1> SUFFICES ASSUME Init PROVE Stream!Init
  OBVIOUS
<1>1. host.got = <<>> /\ host.sent = 0 /\ prog.in = <<>> /\ prog.out = 0 /\ call.pc = "idle"
  BY DEF Init, None
<1> QED
  BY <1>1 DEF Stream!Init, Accepted, WriteSteps

(* Beginning a call, waiting and returning say nothing to the other side.  *)
LEMMA CallKeepsView ==
  ASSUME UartInv,
         \/ Calls \/ WriteSnapshot \/ WriteCopy \/ WriteKick \/ WriteSpin \/ WriteCheck
         \/ WriteReturn \/ ReadSnapshot \/ ReadFree \/ ReadSpin \/ ReadCheck
         \/ ReadReturn \/ Close
  PROVE  StreamView' = StreamView
<1> USE DEF UartInv, Running, Goto
<1>0. prog.out \in Nat /\ call.done \in Nat
  BY Fields
<1>1. ASSUME NEW pc, NEW n, NEW nb, Begin(pc, n, nb) PROVE StreamView' = StreamView
  BY <1>0, <1>1 DEF Begin, None, StreamView, Accepted, WriteSteps
<1>2. ASSUME NEW t, SetTimeout(t) PROVE StreamView' = StreamView
  BY <1>2 DEF SetTimeout, StreamView, Accepted
<1>3. CASE WriteSnapshot
  <2>1. UNCHANGED <<prog, host>> /\ call.pc = "write"
    BY <1>3 DEF WriteSnapshot
  <2>2. call'.pc \in {"kick", "copy"} /\ call'.done = call.done
    BY <1>3 DEF WriteSnapshot, Types, CallStates
  <2> QED
    BY <2>1, <2>2 DEF StreamView, Accepted, WriteSteps
<1>4. CASE WriteCopy \/ WriteKick \/ WriteSpin \/ WriteCheck
  <2>1. /\ UNCHANGED <<prog, host>>
        /\ call.pc \in {"copy", "kick", "write_spin", "write_check"}
        /\ \E p \in {"publish", "write_ret", "write_spin", "write_check", "write"} :
             call' = [call EXCEPT !.pc = p]
    BY <1>4 DEF WriteCopy, WriteKick, WriteSpin, WriteCheck
  <2>2. /\ call'.pc \in {"publish", "write_ret", "write_spin", "write_check", "write"}
        /\ call'.done = call.done
    BY <2>1 DEF Types, CallStates
  <2> QED
    BY <2>1, <2>2 DEF StreamView, Accepted, WriteSteps
<1>5. CASE WriteReturn
  <2>1. /\ UNCHANGED host /\ call.pc = "write_ret" /\ call'.pc = "idle"
        /\ prog'.out = prog.out + call.done /\ prog'.in = prog.in
    BY <1>5 DEF WriteReturn, None, Types, ProgStates
  <2> QED
    BY <1>0, <2>1 DEF StreamView, Accepted, WriteSteps
<1>6. CASE ReadSnapshot \/ ReadFree \/ ReadSpin \/ ReadCheck \/ ReadReturn \/ Close
  <2>1. UNCHANGED <<prog, host>> /\ call.pc \notin WriteSteps
    BY <1>6 DEF ReadSnapshot, ReadFree, ReadSpin, ReadCheck, ReadReturn, Close, WriteSteps
  <2>2. call'.pc \notin WriteSteps
    <3>1. CASE ReadSnapshot
      BY <3>1 DEF ReadSnapshot, WriteSteps, Types, CallStates
    <3>2. CASE ReadFree
      BY <3>2 DEF ReadFree, WriteSteps, Types, CallStates
    <3>3. CASE ReadSpin \/ ReadCheck
      BY <3>3 DEF ReadSpin, ReadCheck, WriteSteps, Types, CallStates
    <3>4. CASE ReadReturn \/ Close
      BY <3>4 DEF ReadReturn, Close, None, WriteSteps
    <3> QED
      BY <1>6, <3>1, <3>2, <3>3, <3>4
  <2> QED
    BY <2>1, <2>2 DEF StreamView, Accepted
<1> QED
  BY <1>1, <1>2, <1>3, <1>4, <1>5, <1>6 DEF Calls

(* The interrupt routine, the alarm and the plug only move what is there.  *)
LEMMA OthersKeepView ==
  ASSUME UartInv, Isr \/ Timeout \/ HostPlug PROVE StreamView' = StreamView
<1>1. UNCHANGED <<call, prog>>
  BY DEF Isr, IsrLoop, IsrReceive, IsrReceiveEnd, IsrTransmit, IsrTransmitEnd,
     Timeout, HostPlug
<1>2. host'.got = host.got /\ host'.sent = host.sent
  <2>1. CASE Isr \/ Timeout
    BY <2>1 DEF Isr, IsrLoop, IsrReceive, IsrReceiveEnd, IsrTransmit, IsrTransmitEnd,
       Timeout
  <2>2. CASE HostPlug
    BY <2>2 DEF HostPlug, UartInv, Types, HostStates
  <2> QED
    BY <2>1, <2>2
<1> QED
  BY <1>1, <1>2 DEF StreamView, Accepted

(* A publication hands its bytes to the outgoing stream.                   *)
LEMMA PublishIsAccept ==
  ASSUME UartInv, WritePublish
  PROVE  /\ call.n \in 1..(BufLen - 1 + WriteDepth)
         /\ Stream!Accept(call.n)
<1> USE DEF UartInv
<1>0. /\ BufLen \in Nat /\ WriteDepth \in Nat /\ call.n \in Slots /\ call.n \in Nat
      /\ prog.out \in Nat /\ call.done \in Nat
      /\ sp.tx_in \in Slots /\ sp.tx_out \in Slots
  BY Fields, JtagUartAssumption DEF Slots
<1>1. call.pc = "publish" /\ UNCHANGED <<prog, host>>
  BY DEF WritePublish, Running
<1>2. call'.pc = "write" /\ call'.done = call.done + call.n
  BY DEF WritePublish, Types, CallStates
<1>3. Accepted = prog.out + call.done /\ Accepted' = Accepted + call.n
  BY <1>0, <1>1, <1>2 DEF Accepted, WriteSteps
<1> DEFINE G == Len(host.got)
           T == Len(dev.tx)
           H == Span(sp.tx_in, sp.tx_out)
<1>4. Accepted = G + T + H
  BY DEF Transmitted, TxFlow
<1>5. G \in Nat /\ T \in Nat
  BY Fields
<1>6. H \in Slots /\ T <= WriteDepth /\ H + call.n < BufLen /\ call.n > 0
  BY <1>0, <1>1, SpanLemma DEF Control
<1> HIDE DEF T, H, G
<1>7. H \in Nat
  BY <1>6 DEF Slots
<1>8. Accepted + call.n - G <= BufLen - 1 + WriteDepth
  BY <1>0, <1>4, <1>5, <1>6, <1>7
<1>9. call.n \in 1..(BufLen - 1 + WriteDepth)
  BY <1>0, <1>6, <1>7
<1> QED
  BY <1>1, <1>3, <1>8, <1>9 DEF Stream!Accept, G

(* The copy out of the receive buffer is what the program receives.        *)
LEMMA TakeIsReceive ==
  ASSUME UartInv, UartInv', ReadTake
  PROVE  /\ call.n \in 1..(BufLen - 1 + ReadDepth)
         /\ Stream!Receive(call.n)
<1> USE DEF UartInv
<1> DEFINE took == [k \in 1..call.n |-> sp.rx_buf[call.out + k - 1]]
           L == Len(prog.in)
           H == Span(sp.rx_in, sp.rx_out)
           X == Len(dev.rx)
<1>0. /\ BufLen \in Nat /\ ReadDepth \in Nat /\ call.n \in Slots /\ call.n \in Nat
      /\ sp.rx_in \in Slots /\ sp.rx_out \in Slots /\ sp.rx_buf \in [Slots -> Nat]
      /\ L \in Nat /\ X \in Nat
  <2>1. L \in Nat /\ X \in Nat
    BY Fields
  <2>2. call.n \in Slots /\ sp.rx_in \in Slots /\ sp.rx_out \in Slots
        /\ sp.rx_buf \in [Slots -> Nat]
    BY Fields
  <2>3. call.n \in Nat
    BY <2>2 DEF Slots
  <2> QED
    BY <2>1, <2>2, <2>3, JtagUartAssumption
<1>1. call.pc = "take" /\ UNCHANGED <<sp, dev, host>>
  BY DEF ReadTake, Running
<1>2. call'.pc = "free"
  BY DEF ReadTake, Goto, Types, CallStates
<1>3. prog'.in = prog.in \o took /\ prog'.out = prog.out
  BY DEF ReadTake, Types, ProgStates
<1>4. /\ call.n > 0 /\ call.out = sp.rx_out /\ call.out + call.n <= BufLen
      /\ call.n <= H
  BY <1>1 DEF Control
<1>5. /\ \A k \in 1..H : sp.rx_buf[Wrap(sp.rx_out + k - 1)] = L - 0 + k
      /\ host.sent = L - 0 + H + X
  BY <1>1 DEF Received, RxFlow, Copied
<1>6. H \in Slots
  BY <1>0, SpanLemma
<1> HIDE DEF L, H, X
<1>7. H \in Nat /\ H < BufLen
  BY <1>0, <1>6 DEF Slots
<1>8. \A k \in 1..call.n : sp.rx_buf[call.out + k - 1] = L + k
  <2> TAKE k \in 1..call.n
  <2>1. sp.rx_out \in Nat
    BY <1>0 DEF Slots
  <2>2. Wrap(sp.rx_out + k - 1) = call.out + k - 1
    BY <1>0, <1>4, <2>1 DEF Wrap
  <2>3. k \in 1..H
    BY <1>0, <1>4, <1>7
  <2> QED
    BY <1>0, <1>5, <2>2, <2>3
<1>9. took = [k \in 1..call.n |-> L + k]
  BY <1>8
<1>10. L + call.n <= host.sent
  BY <1>0, <1>4, <1>5, <1>7
<1>11. call.n \in 1..(BufLen - 1 + ReadDepth)
  BY <1>0, <1>4, <1>7
<1>12. Accepted' = Accepted
  BY <1>1, <1>2, <1>3 DEF Accepted, WriteSteps
<1> HIDE DEF took
<1> QED
  BY <1>1, <1>3, <1>9, <1>10, <1>11, <1>12 DEF Stream!Receive, L

(* The host takes the next byte of the outgoing stream.                    *)
LEMMA TakeIsHostTakes ==
  ASSUME UartInv, HostTake PROVE Stream!HostTakes
<1> USE DEF UartInv
<1>1. /\ UNCHANGED <<sp, call, prog>> /\ dev.tx # <<>>
      /\ host'.got = Append(host.got, Head(dev.tx)) /\ host'.sent = host.sent
  BY DEF HostTake, Types, HostStates
<1> DEFINE G == Len(host.got)
           T == Len(dev.tx)
           H == Span(sp.tx_in, sp.tx_out)
<1>2. /\ dev.tx \in Seq(Nat) /\ G \in Nat /\ T \in Nat
      /\ H \in Slots
  BY SpanLemma, Fields
<1>3. T >= 1 /\ Head(dev.tx) = dev.tx[1]
  BY <1>1, <1>2
<1>4. Accepted = G + T + H /\ \A k \in 1..T : dev.tx[k] = G + k
  BY DEF Transmitted, TxFlow
<1> HIDE DEF G, T, H
<1>5. H \in Nat
  BY <1>2 DEF Slots
<1>6. G < Accepted /\ Head(dev.tx) = G + 1
  BY <1>2, <1>3, <1>4, <1>5
<1>7. Accepted' = Accepted
  BY <1>1 DEF Accepted
<1> QED
  BY <1>1, <1>6, <1>7 DEF Stream!HostTakes, G

(* And adds one to the incoming stream.                                    *)
LEMMA SendIsHostSends ==
  ASSUME UartInv, HostSend PROVE Stream!HostSends
<1> USE DEF UartInv
<1>1. /\ UNCHANGED <<sp, call, prog>> /\ Len(dev.rx) < ReadDepth
      /\ host'.got = host.got /\ host'.sent = host.sent + 1
  BY DEF HostSend, Types, HostStates
<1> DEFINE L == Len(prog.in)
           H == Span(sp.rx_in, sp.rx_out)
           X == Len(dev.rx)
<1>2. /\ L \in Nat /\ X \in Nat /\ H \in Slots /\ BufLen \in Nat /\ ReadDepth \in Nat
      /\ call.n \in Nat
  <2>1. L \in Nat /\ X \in Nat
    BY Fields
  <2>2. H \in Slots
    BY SpanLemma, Fields
  <2>3. call.n \in Nat
    BY Fields DEF Slots
  <2> QED
    BY <2>1, <2>2, <2>3, JtagUartAssumption
<1>3. host.sent = L - Copied + H + X
  BY DEF Received, RxFlow
<1> HIDE DEF L, H, X
<1>4. H \in Nat /\ H < BufLen
  BY <1>2 DEF Slots
<1>5. Copied \in Nat
  BY <1>2 DEF Copied
<1>6. X < ReadDepth
  BY <1>1 DEF X
<1>7. host.sent - L < BufLen - 1 + ReadDepth
  BY <1>2, <1>3, <1>4, <1>5, <1>6
<1>8. Accepted' = Accepted
  BY <1>1 DEF Accepted
<1> QED
  BY <1>1, <1>7, <1>8 DEF Stream!HostSends, L

(* Every step of the driver is a step of the streams or a stutter.         *)
LEMMA StreamNext == UartInv /\ UartInv' /\ [Next]_vars => [Stream!Next]_Stream!vars
<1> SUFFICES ASSUME UartInv, UartInv', [Next]_vars PROVE [Stream!Next]_Stream!vars
  OBVIOUS
<1>1. CASE Calls
  BY <1>1, CallKeepsView, StreamStutter
<1>2. CASE Program
  <2>1. CASE WritePublish
    BY <2>1, PublishIsAccept DEF Stream!Next
  <2>2. CASE ReadTake
    BY <2>2, TakeIsReceive DEF Stream!Next
  <2>3. CASE ~ (WritePublish \/ ReadTake)
    BY <1>2, <2>3, CallKeepsView, StreamStutter DEF Program
  <2> QED
    BY <2>1, <2>2, <2>3
<1>3. CASE Isr \/ Timeout \/ HostPlug
  BY <1>3, OthersKeepView, StreamStutter
<1>4. CASE HostTake
  BY <1>4, TakeIsHostTakes DEF Stream!Next
<1>5. CASE HostSend
  BY <1>5, SendIsHostSends DEF Stream!Next
<1>6. CASE UNCHANGED vars
  <2>1. StreamView' = StreamView
    BY <1>6 DEF vars, StreamView, Accepted
  <2> QED
    BY <2>1, StreamStutter
<1> QED
  BY <1>1, <1>2, <1>3, <1>4, <1>5, <1>6 DEF Next

(* The driver, its interrupt routine and its hardware are together a pair  *)
(* of bounded first-in first-out streams, for every size of the buffers.   *)
THEOREM DriverImplementsStream == Spec => ConsoleIsAStream
BY StreamInit, StreamNext, UartInvariant, PTL DEF Spec, ConsoleIsAStream, Stream!Spec
=============================================================================
