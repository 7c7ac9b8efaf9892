------------------------------ MODULE QuadportRam ------------------------------
(****************************************************************************)
(* The four-port RAM: quadport_ram.sv over two dual-port block RAMs         *)
(* (dualport_ram_controller.sv).                                            *)
(*                                                                          *)
(* Bit 1 of an address chooses the block RAM; the word within it is given   *)
(* by the other bits, {addr[15:2], addr[0]}.  A group of four words is the  *)
(* pair of neighbouring words of both block RAMs, on their ports a, b and   *)
(* c, d.  The block RAMs register the words they read, so they are on dout  *)
(* in the next cycle, and hold them until they read again (altsyncram, used *)
(* with rden and an unregistered output); addr_flop and four_flop remember  *)
(* how to route them.                                                       *)
(****************************************************************************)
EXTENDS RamParameters

VARIABLES
  ram0, ram1,           \* the contents of the two block RAMs
  q_a, q_b, q_c, q_d,   \* the words that ram0 (a, b) and ram1 (c, d) read last
  addr_flop, four_flop  \* the request of the cycle before

ramVars == <<ram0, ram1, q_a, q_b, q_c, q_d, addr_flop, four_flop>>

BankAddress == 0 .. RamWords \div 2 - 1

(* Bit 1 of an address, and its other bits.                                 *)
InRam1(addr) == (addr \div 2) % 2 = 1
Internal(addr) == 2 * (addr \div 4) + (addr % 2)
Even(addr) == 2 * (addr \div 4)
Odd(addr) == 2 * (addr \div 4) + 1

(* The block RAMs keep their contents; the routing registers are reset.     *)
RamReset ==
  /\ addr_flop' = 0
  /\ four_flop' = FALSE
  /\ UNCHANGED <<ram0, ram1, q_a, q_b, q_c, q_d>>

(* Variant: a single read always shows port a.                              *)
dout_a_unrouted == q_a

(* The second cycle of a read: the words on the output.                     *)
dout_a == IF ~four_flop /\ InRam1(addr_flop) THEN q_c ELSE q_a
dout_b == IF four_flop THEN q_b ELSE Zero
dout_c == IF four_flop THEN q_c ELSE Zero
dout_d == IF four_flop THEN q_d ELSE Zero

(* One word: port a of ram0 or port c of ram1.                              *)
AccessOne(qram, din) ==
  LET i == Internal(qram.addr) IN
  \/ /\ qram.wen /\ InRam1(qram.addr)
     /\ ram1' = [ram1 EXCEPT ![i] = din[1]]
     /\ UNCHANGED <<ram0, q_a, q_b, q_c, q_d>>
  \/ /\ qram.wen /\ ~InRam1(qram.addr)
     /\ ram0' = [ram0 EXCEPT ![i] = din[1]]
     /\ UNCHANGED <<ram1, q_a, q_b, q_c, q_d>>
  \/ /\ ~qram.wen /\ InRam1(qram.addr)
     /\ q_c' = ram1[i]
     /\ UNCHANGED <<ram0, ram1, q_a, q_b, q_d>>
  \/ /\ ~qram.wen /\ ~InRam1(qram.addr)
     /\ q_a' = ram0[i]
     /\ UNCHANGED <<ram0, ram1, q_b, q_c, q_d>>

(* A group of four words: all the ports.                                    *)
AccessFour(qram, din) ==
  LET even == Even(qram.addr)
      odd == Odd(qram.addr) IN
  \/ /\ qram.wen
     /\ ram0' = [ram0 EXCEPT ![even] = din[1], ![odd] = din[2]]
     /\ ram1' = [ram1 EXCEPT ![even] = din[3], ![odd] = din[4]]
     /\ UNCHANGED <<q_a, q_b, q_c, q_d>>
  \/ /\ ~qram.wen
     /\ q_a' = ram0[even] /\ q_b' = ram0[odd]
     /\ q_c' = ram1[even] /\ q_d' = ram1[odd]
     /\ UNCHANGED <<ram0, ram1>>

(* The clock edge: qram is the request, din the words to write by lane.     *)
RamStep(qram, din) ==
  /\ addr_flop' = qram.addr
  /\ four_flop' = qram.four
  /\ \/ (qram.wen \/ qram.ren) /\ ~qram.four /\ AccessOne(qram, din)
     \/ (qram.wen \/ qram.ren) /\ qram.four /\ AccessFour(qram, din)
     \/ /\ ~qram.wen /\ ~qram.ren
        /\ UNCHANGED <<ram0, ram1, q_a, q_b, q_c, q_d>>
============================================================================
