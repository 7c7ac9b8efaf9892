---------------------------- MODULE QuadportRamEnv -----------------------------
(****************************************************************************)
(* The four-port RAM under every sequence of requests, and the flat memory  *)
(* that it implements.                                                      *)
(****************************************************************************)
EXTENDS QuadportRam

CONSTANTS
  Word,          \* the words
  WrittenGroups  \* the groups of four words that are written together

ASSUME WordAssumption ==
  /\ Zero \in Word
  /\ WrittenGroups \subseteq [1 .. 4 -> Word]

Address == 0 .. RamWords - 1

(* The contents at power up are arbitrary.                                  *)
RamInit ==
  /\ ram0 \in [BankAddress -> Word]
  /\ ram1 \in [BankAddress -> Word]
  /\ q_a = Zero /\ q_b = Zero /\ q_c = Zero /\ q_d = Zero
  /\ addr_flop = 0
  /\ four_flop = FALSE

Request(r, w, f, a) == [ren |-> r, wen |-> w, four |-> f, addr |-> a]

Nothing == [l \in 1 .. 4 |-> Zero]

Idle == RamStep(Request(FALSE, FALSE, TRUE, 0), Nothing)
Read(a, four) == RamStep(Request(TRUE, FALSE, four, a), Nothing)
WriteWord(a, w) ==
  RamStep(Request(FALSE, TRUE, FALSE, a), [Nothing EXCEPT ![1] = w])
WriteGroup(a, ws) == RamStep(Request(FALSE, TRUE, TRUE, a), ws)

RamNext ==
  \/ Idle
  \/ RamReset
  \/ \E a \in Address :
       \/ \E four \in BOOLEAN : Read(a, four)
       \/ \E w \in Word : WriteWord(a, w)
       \/ \E ws \in WrittenGroups : WriteGroup(a, ws)

RamSpec == RamInit /\ [][RamNext]_ramVars
----------------------------------------------------------------------------
(* The memory as a user of the RAM sees it.                                 *)
Contents ==
  [a \in Address |-> IF InRam1(a) THEN ram1[Internal(a)] ELSE ram0[Internal(a)]]

Output == [l \in 0 .. 3 |-> <<dout_a, dout_b, dout_c, dout_d>>[l + 1]]

Flat == INSTANCE FlatRam WITH mem <- Contents, dout <- Output

(* The banked memory behaves as one flat memory, operation by operation:    *)
(* whatever was written last to an address, alone or in a group, is what a  *)
(* later read of the address, alone or in a group, shows in the next cycle. *)
ImplementsFlatRam ==
  /\ Flat!FlatInit
  /\ [][/\ Idle \/ RamReset => Flat!NoAccess
        /\ \A a \in Address :
             /\ Read(a, FALSE) => Flat!ReadOne(a)
             /\ Read(a, TRUE) => Flat!ReadFour(a)
             /\ \A w \in Word : WriteWord(a, w) => Flat!WriteOne(a, w)
             /\ \A ws \in WrittenGroups :
                  WriteGroup(a, ws) => Flat!WriteFour(a, [l \in 0 .. 3 |-> ws[l + 1]])
       ]_ramVars
============================================================================
