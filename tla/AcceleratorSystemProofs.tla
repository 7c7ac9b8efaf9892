------------------------ MODULE AcceleratorSystemProofs ------------------------
(****************************************************************************)
(* Proofs about the program and the accelerator together, for every size of *)
(* the layers that the layout allows, every latency of the pipes, every     *)
(* number of tests and of resets, and every network and float operation.    *)
(****************************************************************************)
EXTENDS AcceleratorSystemInv, TLAPS, WellFoundedInduction

(* The layers.                                                              *)
LEMMA Sizes ==
  /\ Net!Size(0) = InputSize /\ Net!Size(1) = HiddenSize /\ Net!Size(2) = OutputSize
  /\ InputSize \in Nat \ {0} /\ HiddenSize \in 1 .. 31 /\ OutputSize \in 1 .. 31
  /\ \A l \in 1 .. 2 : /\ Net!Size(l) \in 1 .. 31
                       /\ Net!Size(l) % 4 # 0
                       /\ Net!Size(l - 1) \in Nat \ {0}
BY DriverAssumption, LayoutAssumption DEF Net!Size

LEMMA RowLemma ==
  ASSUME NEW n \in 1 .. 31
  PROVE  /\ GroupsOf(n) \in 1 .. 8
         /\ n <= 4 * GroupsOf(n)
         /\ n + 4 > 4 * GroupsOf(n)
BY DEF GroupsOf

LEMMA Rows ==
  ASSUME NEW l \in 1 .. 2
  PROVE  /\ RowWords(l) \in 4 .. 32
         /\ RowWords(l) = 4 * GroupsOf(Net!Size(l))
         /\ GroupsOf(Net!Size(l)) \in 1 .. 8
         /\ Net!Size(l) < RowWords(l) /\ RowWords(l) < Net!Size(l) + 4
<1>1. Net!Size(l) \in 1 .. 31 /\ Net!Size(l) % 4 # 0
  BY Sizes
<1>2. /\ GroupsOf(Net!Size(l)) \in 1 .. 8
      /\ Net!Size(l) <= 4 * GroupsOf(Net!Size(l))
      /\ Net!Size(l) + 4 > 4 * GroupsOf(Net!Size(l))
  BY <1>1, RowLemma
<1>3. Net!Size(l) # 4 * GroupsOf(Net!Size(l))
  BY <1>1, <1>2
<1> QED
  BY <1>1, <1>2, <1>3 DEF RowWords

(* Rows of the same length, one after the other.                            *)
LEMMA RowsInOrder ==
  ASSUME NEW m \in Nat, NEW n \in Nat, NEW g \in Nat, m < n
  PROVE  /\ m * g \in Nat /\ n * g \in Nat
         /\ (m + 1) * g = m * g + g
         /\ m * g + g <= n * g
<1>1. m * g \in Nat /\ n * g \in Nat
  OBVIOUS
<1>2. (m + 1) * g = m * g + g
  OBVIOUS
<1>3. PICK d \in Nat : n = m + 1 + d
  <2>1. n - m - 1 \in Nat
    OBVIOUS
  <2> QED
    BY <2>1
<1>4. n * g = (m + 1) * g + d * g
  BY <1>3
<1>5. d * g \in Nat
  OBVIOUS
<1> QED
  BY <1>1, <1>2, <1>4, <1>5

(* The layout: each area starts where the one before ends, at the start of  *)
(* a group, and all of them are in the memory.                              *)
LEMMA Areas ==
  /\ WeightStart(1) = 0
  /\ \A l \in 1 .. 2 :
       /\ WeightStart(l) \in Nat /\ BiasStart(l) \in Nat
       /\ BiasStart(l) = WeightStart(l) + Net!Size(l - 1) * RowWords(l)
       /\ Net!Size(l - 1) * RowWords(l) \in Nat
       /\ BiasStart(l) + RowWords(l) <= LayoutEnd
  /\ WeightStart(2) = BiasStart(1) + RowWords(1)
  /\ LayoutEnd = BiasStart(2) + RowWords(2)
  /\ InputStart = LayoutEnd + 4
  /\ LayoutEnd \in Nat
  /\ InputStart \in Nat
  /\ InputStart + InputSize < RamWords
  /\ InputStart + RowWords(1) < RamWords /\ InputStart + RowWords(2) < RamWords
<1>1. /\ RowWords(1) \in 4 .. 32 /\ RowWords(2) \in 4 .. 32
  BY Rows
<1>2. /\ InputSize * RowWords(1) \in Nat /\ HiddenSize * RowWords(2) \in Nat
  BY <1>1, Sizes
<1>3. /\ WeightStart(1) = 0
      /\ WeightStart(2) = InputSize * RowWords(1) + RowWords(1)
      /\ BiasStart(1) = InputSize * RowWords(1)
      /\ BiasStart(2) = WeightStart(2) + HiddenSize * RowWords(2)
  BY <1>2, Sizes DEF WeightStart, BiasStart
<1>4. /\ LayoutEnd = BiasStart(2) + RowWords(2)
      /\ InputStart = LayoutEnd + 4
  BY DEF LayoutEnd, InputStart
<1>5. \A l \in 1 .. 2 : l = 1 \/ l = 2
  OBVIOUS
<1>6. Net!Size(1 - 1) = InputSize /\ Net!Size(2 - 1) = HiddenSize
  BY Sizes
<1> QED
  BY <1>1, <1>2, <1>3, <1>4, <1>5, <1>6, LayoutAssumption

(* Every area starts with a group.                                          *)
LEMMA Grouped ==
  /\ \A l \in 1 .. 2 :
       /\ \E q \in Nat : WeightStart(l) = 4 * q
       /\ \E q \in Nat : BiasStart(l) = 4 * q
       /\ \A m \in Nat : \E q \in Nat : m * RowWords(l) = 4 * q
  /\ \E q \in Nat : LayoutEnd = 4 * q
  /\ \E q \in Nat : InputStart = 4 * q
<1>1. \A l \in 1 .. 2 : \A m \in Nat : \E q \in Nat : m * RowWords(l) = 4 * q
  <2> TAKE l \in 1 .. 2
  <2> TAKE m \in Nat
  <2>1. /\ RowWords(l) = 4 * GroupsOf(Net!Size(l)) /\ GroupsOf(Net!Size(l)) \in Nat
    BY Rows
  <2>2. /\ m * RowWords(l) = 4 * (m * GroupsOf(Net!Size(l)))
        /\ m * GroupsOf(Net!Size(l)) \in Nat
    BY <2>1
  <2> QED
    BY <2>2
<1>2. PICK g1 \in Nat : RowWords(1) = 4 * g1
  BY Rows
<1>3. PICK g2 \in Nat : RowWords(2) = 4 * g2
  BY Rows
<1>4. PICK r1 \in Nat : InputSize * RowWords(1) = 4 * r1
  BY <1>1, Sizes
<1>5. PICK r2 \in Nat : HiddenSize * RowWords(2) = 4 * r2
  BY <1>1, Sizes
<1>6. /\ WeightStart(1) = 4 * 0 /\ BiasStart(1) = 4 * r1
      /\ WeightStart(2) = 4 * (r1 + g1) /\ BiasStart(2) = 4 * (r1 + g1 + r2)
      /\ LayoutEnd = 4 * (r1 + g1 + r2 + g2) /\ InputStart = 4 * (r1 + g1 + r2 + g2 + 1)
  <2>1. Net!Size(1 - 1) = InputSize /\ Net!Size(2 - 1) = HiddenSize
    BY Sizes
  <2> QED
    BY <1>2, <1>3, <1>4, <1>5, <2>1, Areas
<1>7. \A l \in 1 .. 2 : l = 1 \/ l = 2
  OBVIOUS
<1>8. /\ r1 + g1 \in Nat /\ r1 + g1 + r2 \in Nat
      /\ r1 + g1 + r2 + g2 \in Nat /\ r1 + g1 + r2 + g2 + 1 \in Nat /\ 0 \in Nat
  OBVIOUS
<1> QED
  BY <1>1, <1>6, <1>7, <1>8

(* The parameters lie below the end of their area, and so below the area of *)
(* the activations.                                                         *)
LEMMA ParametersBelow ==
  ASSUME NEW l \in 1 .. 2, NEW n \in 0 .. Net!Size(l) - 1
  PROVE  /\ BiasStart(l) + n \in 0 .. LayoutEnd - 1
         /\ \A m \in 0 .. Net!Size(l - 1) - 1 :
              /\ m * RowWords(l) \in Nat
              /\ WeightStart(l) + m * RowWords(l) + n \in 0 .. BiasStart(l) - 1
              /\ WeightStart(l) + m * RowWords(l) + n \in 0 .. LayoutEnd - 1
<1>1. /\ RowWords(l) \in Nat /\ n < RowWords(l) /\ n \in Nat
      /\ Net!Size(l - 1) \in Nat
  BY Rows, Sizes
<1>2. /\ WeightStart(l) \in Nat /\ BiasStart(l) \in Nat /\ LayoutEnd \in Nat
      /\ BiasStart(l) = WeightStart(l) + Net!Size(l - 1) * RowWords(l)
      /\ Net!Size(l - 1) * RowWords(l) \in Nat
      /\ BiasStart(l) + RowWords(l) <= LayoutEnd
  BY Areas
<1>3. ASSUME NEW m \in 0 .. Net!Size(l - 1) - 1
      PROVE  /\ m * RowWords(l) \in Nat
             /\ m * RowWords(l) + RowWords(l) <= Net!Size(l - 1) * RowWords(l)
             /\ WeightStart(l) + m * RowWords(l) + n \in 0 .. BiasStart(l) - 1
             /\ WeightStart(l) + m * RowWords(l) + n \in 0 .. LayoutEnd - 1
  <2>1. /\ m * RowWords(l) \in Nat
        /\ m * RowWords(l) + RowWords(l) <= Net!Size(l - 1) * RowWords(l)
    BY <1>1, RowsInOrder
  <2> DEFINE row == m * RowWords(l)
  <2> DEFINE rows == Net!Size(l - 1) * RowWords(l)
  <2>2. row \in Nat /\ rows \in Nat /\ row + RowWords(l) <= rows
    BY <1>2, <2>1
  <2>3. BiasStart(l) = WeightStart(l) + rows
    BY <1>2
  <2> HIDE DEF row, rows
  <2>4. /\ WeightStart(l) + row + n \in 0 .. BiasStart(l) - 1
        /\ WeightStart(l) + row + n \in 0 .. LayoutEnd - 1
    BY <1>1, <1>2, <2>2, <2>3
  <2> QED
    BY <2>1, <2>4 DEF row
<1>4. BiasStart(l) + n \in 0 .. LayoutEnd - 1
  BY <1>1, <1>2
<1> QED
  BY <1>3, <1>4

(* A pointer of 16 bits holds every address.                                *)
LEMMA Widths == \A n \in 0 .. RamWords - 1 : n % RamWords = n /\ Pointer(n) = n
BY RamShapeAssumption DEF Pointer

(* The next group after a row of n words that is not full.                  *)
LEMMA NextGroupLemma ==
  ASSUME NEW q \in Nat, NEW n \in 1 .. 31, n % 4 # 0,
         4 * q + 4 * GroupsOf(n) < RamWords
  PROVE  NextGroup(4 * q + n) = 4 * q + 4 * GroupsOf(n)
<1>1. (4 * q + n + 4) \div 4 = q + GroupsOf(n)
  BY DEF GroupsOf
<1>2. GroupsOf(n) \in 1 .. 8
  BY RowLemma
<1>3. 4 * (q + GroupsOf(n)) \in 0 .. RamWords - 1
  BY <1>2, RamShapeAssumption
<1> QED
  BY <1>1, <1>2, <1>3, Widths DEF NextGroup, Pointer
----------------------------------------------------------------------------
(* The RAM.                                                                 *)

(* Every address has a place of its own in one of the block RAMs.           *)
LEMMA Places ==
  ASSUME NEW a \in 0 .. RamWords - 1, NEW b \in 0 .. RamWords - 1
  PROVE  /\ Internal(a) \in BankAddress
         /\ (InRam1(a) <=> InRam1(b)) /\ Internal(a) = Internal(b) => a = b
<1>1. /\ a = 4 * (a \div 4) + 2 * ((a \div 2) % 2) + (a % 2)
      /\ b = 4 * (b \div 4) + 2 * ((b \div 2) % 2) + (b % 2)
  OBVIOUS
<1>2. /\ a % 2 \in 0 .. 1 /\ b % 2 \in 0 .. 1
      /\ (a \div 2) % 2 \in 0 .. 1 /\ (b \div 2) % 2 \in 0 .. 1
      /\ a \div 4 \in Nat /\ b \div 4 \in Nat
  OBVIOUS
<1>3. Internal(a) \in BankAddress
  BY RamShapeAssumption DEF Internal, BankAddress
<1>4. Internal(a) = Internal(b) => a \div 4 = b \div 4 /\ a % 2 = b % 2
  BY <1>2 DEF Internal
<1>5. (InRam1(a) <=> InRam1(b)) => (a \div 2) % 2 = (b \div 2) % 2
  BY <1>2 DEF InRam1
<1> QED
  BY <1>1, <1>3, <1>4, <1>5

(* The words that an access of the RAM leaves in it, and those it shows.    *)
LEMMA WriteOne ==
  ASSUME NEW b \in 0 .. RamWords - 1, NEW din, NEW req,
         req = [ren |-> FALSE, wen |-> TRUE, four |-> FALSE, addr |-> b],
         RamStep(req, din),
         DOMAIN ram0 = BankAddress, DOMAIN ram1 = BankAddress
  PROVE  /\ \A a \in 0 .. RamWords - 1 : RamWord(a)' = IF a = b THEN din[1] ELSE RamWord(a)
         /\ DOMAIN ram0' = BankAddress /\ DOMAIN ram1' = BankAddress
         /\ addr_flop' = b /\ four_flop' = FALSE
<1>1. /\ addr_flop' = b /\ four_flop' = FALSE
      /\ \/ /\ InRam1(b)
            /\ ram1' = [ram1 EXCEPT ![Internal(b)] = din[1]] /\ ram0' = ram0
         \/ /\ ~InRam1(b)
            /\ ram0' = [ram0 EXCEPT ![Internal(b)] = din[1]] /\ ram1' = ram1
  BY DEF RamStep, AccessOne
<1>2. /\ DOMAIN ram0' = BankAddress /\ DOMAIN ram1' = BankAddress
  BY <1>1
<1>3. ASSUME NEW a \in 0 .. RamWords - 1
      PROVE  RamWord(a)' = IF a = b THEN din[1] ELSE RamWord(a)
  <2>1. /\ Internal(a) \in BankAddress /\ Internal(b) \in BankAddress
        /\ (InRam1(a) <=> InRam1(b)) /\ Internal(a) = Internal(b) => a = b
    BY Places
  <2>2. RamWord(a)' = IF InRam1(a) THEN ram1'[Internal(a)] ELSE ram0'[Internal(a)]
    BY DEF RamWord
  <2>3. CASE InRam1(b)
    BY <1>1, <2>1, <2>2, <2>3 DEF RamWord
  <2>4. CASE ~InRam1(b)
    <3>1. /\ ram0' = [ram0 EXCEPT ![Internal(b)] = din[1]] /\ ram1' = ram1
      BY <1>1, <2>4
    <3>2. CASE InRam1(a)
      BY <2>1, <2>2, <2>4, <3>1, <3>2 DEF RamWord
    <3>3. CASE ~InRam1(a)
      BY <2>1, <2>2, <2>4, <3>1, <3>3 DEF RamWord
    <3> QED
      BY <3>2, <3>3
  <2> QED
    BY <2>3, <2>4
<1> QED
  BY <1>1, <1>2, <1>3

LEMMA ReadOne ==
  ASSUME NEW b \in 0 .. RamWords - 1, NEW din, NEW req,
         req = [ren |-> TRUE, wen |-> FALSE, four |-> FALSE, addr |-> b],
         RamStep(req, din)
  PROVE  /\ ram0' = ram0 /\ ram1' = ram1
         /\ dout[1]' = RamWord(b)
         /\ addr_flop' = b /\ four_flop' = FALSE
<1>1. /\ addr_flop' = b /\ four_flop' = FALSE
      /\ ram0' = ram0 /\ ram1' = ram1
      /\ \/ InRam1(b) /\ q_c' = ram1[Internal(b)]
         \/ ~InRam1(b) /\ q_a' = ram0[Internal(b)]
  BY DEF RamStep, AccessOne
<1>2. dout[1]' = IF ~four_flop' /\ InRam1(addr_flop') THEN q_c' ELSE q_a'
  BY DEF dout, dout_a
<1> QED
  BY <1>1, <1>2 DEF RamWord

(* The places of the words of a group.                                      *)
LEMMA GroupPlaces ==
  ASSUME NEW q \in Nat
  PROVE  /\ ~InRam1(4 * q) /\ ~InRam1(4 * q + 1)
         /\ InRam1(4 * q + 2) /\ InRam1(4 * q + 3)
         /\ Internal(4 * q) = 2 * q /\ Internal(4 * q + 1) = 2 * q + 1
         /\ Internal(4 * q + 2) = 2 * q /\ Internal(4 * q + 3) = 2 * q + 1
BY DEF InRam1, Internal

LEMMA ReadFour ==
  ASSUME NEW b \in 0 .. RamWords - 1, NEW din, NEW req,
         req = [ren |-> TRUE, wen |-> FALSE, four |-> TRUE, addr |-> b],
         RamStep(req, din)
  PROVE  /\ ram0' = ram0 /\ ram1' = ram1
         /\ \A l \in 1 .. 4 : dout[l]' = RamWord(4 * (b \div 4) + l - 1)
         /\ addr_flop' = b /\ four_flop' = TRUE
<1>1. /\ addr_flop' = b /\ four_flop' = TRUE
      /\ ram0' = ram0 /\ ram1' = ram1
      /\ q_a' = ram0[2 * (b \div 4)] /\ q_b' = ram0[2 * (b \div 4) + 1]
      /\ q_c' = ram1[2 * (b \div 4)] /\ q_d' = ram1[2 * (b \div 4) + 1]
  BY DEF RamStep, AccessFour, Even, Odd
<1>2. dout' = <<q_a', q_b', q_c', q_d'>>
  BY <1>1 DEF dout, dout_a, dout_b, dout_c, dout_d
<1>3. b \div 4 \in Nat
  OBVIOUS
<1>4. /\ RamWord(4 * (b \div 4)) = q_a' /\ RamWord(4 * (b \div 4) + 1) = q_b'
      /\ RamWord(4 * (b \div 4) + 2) = q_c' /\ RamWord(4 * (b \div 4) + 3) = q_d'
  BY <1>1, <1>3, GroupPlaces DEF RamWord
<1>5. ASSUME NEW l \in 1 .. 4
      PROVE  dout[l]' = RamWord(4 * (b \div 4) + l - 1)
  <2>1. /\ 4 * (b \div 4) + 1 - 1 = 4 * (b \div 4)
        /\ 4 * (b \div 4) + 2 - 1 = 4 * (b \div 4) + 1
        /\ 4 * (b \div 4) + 3 - 1 = 4 * (b \div 4) + 2
        /\ 4 * (b \div 4) + 4 - 1 = 4 * (b \div 4) + 3
    BY <1>3
  <2>2. l = 1 \/ l = 2 \/ l = 3 \/ l = 4
    OBVIOUS
  <2>3. /\ dout'[1] = q_a' /\ dout'[2] = q_b' /\ dout'[3] = q_c' /\ dout'[4] = q_d'
    BY <1>2
  <2> QED
    BY <1>4, <2>1, <2>2, <2>3
<1> QED
  BY <1>1, <1>5

LEMMA WriteFour ==
  ASSUME NEW q \in Nat, 4 * q < RamWords, NEW din, NEW req,
         req = [ren |-> FALSE, wen |-> TRUE, four |-> TRUE, addr |-> 4 * q],
         RamStep(req, din),
         DOMAIN ram0 = BankAddress, DOMAIN ram1 = BankAddress
  PROVE  /\ \A a \in 0 .. RamWords - 1 :
              RamWord(a)' = IF a \in 4 * q .. 4 * q + 3 THEN din[a - 4 * q + 1]
                            ELSE RamWord(a)
         /\ DOMAIN ram0' = BankAddress /\ DOMAIN ram1' = BankAddress
         /\ addr_flop' = 4 * q /\ four_flop' = TRUE
<1>1. (4 * q) \div 4 = q
  OBVIOUS
<1>2. /\ addr_flop' = 4 * q /\ four_flop' = TRUE
      /\ ram0' = [ram0 EXCEPT ![2 * q] = din[1], ![2 * q + 1] = din[2]]
      /\ ram1' = [ram1 EXCEPT ![2 * q] = din[3], ![2 * q + 1] = din[4]]
  BY <1>1 DEF RamStep, AccessFour, Even, Odd
<1>3. /\ DOMAIN ram0' = BankAddress /\ DOMAIN ram1' = BankAddress
  BY <1>2
<1>4. 2 * q \in BankAddress /\ 2 * q + 1 \in BankAddress
  BY RamShapeAssumption DEF BankAddress
<1>5. /\ 4 * q \in 0 .. RamWords - 1 /\ 4 * q + 1 \in 0 .. RamWords - 1
      /\ 4 * q + 2 \in 0 .. RamWords - 1 /\ 4 * q + 3 \in 0 .. RamWords - 1
  BY RamShapeAssumption
<1>6. /\ ram0'[2 * q] = din[1] /\ ram0'[2 * q + 1] = din[2]
      /\ ram1'[2 * q] = din[3] /\ ram1'[2 * q + 1] = din[4]
      /\ \A x \in BankAddress : x # 2 * q /\ x # 2 * q + 1 =>
           ram0'[x] = ram0[x] /\ ram1'[x] = ram1[x]
  BY <1>2, <1>4
<1>7. ASSUME NEW a \in 0 .. RamWords - 1
      PROVE  RamWord(a)' = IF a \in 4 * q .. 4 * q + 3 THEN din[a - 4 * q + 1]
                           ELSE RamWord(a)
  <2>1. RamWord(a)' = IF InRam1(a) THEN ram1'[Internal(a)] ELSE ram0'[Internal(a)]
    BY DEF RamWord
  <2>2. CASE a \in 4 * q .. 4 * q + 3
    <3>1. a = 4 * q \/ a = 4 * q + 1 \/ a = 4 * q + 2 \/ a = 4 * q + 3
      BY <2>2
    <3>2. /\ 4 * q - 4 * q + 1 = 1 /\ 4 * q + 1 - 4 * q + 1 = 2
          /\ 4 * q + 2 - 4 * q + 1 = 3 /\ 4 * q + 3 - 4 * q + 1 = 4
      OBVIOUS
    <3> QED
      BY <1>6, <2>1, <2>2, <3>1, <3>2, GroupPlaces
  <2>3. CASE a \notin 4 * q .. 4 * q + 3
    <3>1. Internal(a) \in BankAddress
      BY Places
    <3>2. Internal(a) # 2 * q /\ Internal(a) # 2 * q + 1
      BY <2>3 DEF Internal
    <3> QED
      BY <1>6, <2>1, <2>3, <3>1, <3>2 DEF RamWord
  <2> QED
    BY <2>2, <2>3
<1> QED
  BY <1>2, <1>3, <1>7

LEMMA NoAccess ==
  ASSUME NEW din, NEW req, req.ren = FALSE, req.wen = FALSE, RamStep(req, din)
  PROVE  ram0' = ram0 /\ ram1' = ram1 /\ addr_flop' = req.addr /\ four_flop' = req.four
BY DEF RamStep
----------------------------------------------------------------------------
(* The controller, on the layout.                                           *)

(* The layout is a programmed configuration, as the theorems about the      *)
(* controller assume.                                                       *)
LEMMA LayoutProgrammed ==
  /\ InputSize \in Nat \ {0} /\ RamWords \in Nat /\ RamWords > 4
  /\ \A c \in {Layout} : C!Programmed(c)
<1>1. /\ InputSize \in Nat \ {0} /\ HiddenSize \in 1 .. 31 /\ OutputSize \in 1 .. 31
      /\ RamWords \in Nat /\ RamWords > 4
  BY Sizes, RamShapeAssumption
<1>2. /\ RowWords(1) = 4 * C!GroupsOf(HiddenSize) /\ RowWords(2) = 4 * C!GroupsOf(OutputSize)
      /\ C!GroupsOf(HiddenSize) \in 1 .. 8 /\ C!GroupsOf(OutputSize) \in 1 .. 8
  BY Sizes, Rows DEF GroupsOf, C!GroupsOf
<1>3. /\ InputSize * RowWords(1) = 4 * (InputSize * C!GroupsOf(HiddenSize))
      /\ HiddenSize * RowWords(2) = 4 * (HiddenSize * C!GroupsOf(OutputSize))
      /\ InputSize * C!GroupsOf(HiddenSize) \in Nat
      /\ HiddenSize * C!GroupsOf(OutputSize) \in Nat
  BY <1>1, <1>2
<1>4. /\ WeightStart(1) \in Nat /\ WeightStart(2) \in Nat
      /\ BiasStart(1) \in Nat /\ BiasStart(2) \in Nat /\ InputStart \in Nat
      /\ WeightStart(1) + 4 * (InputSize * C!GroupsOf(HiddenSize)) + 4 < RamWords
      /\ WeightStart(2) + 4 * (HiddenSize * C!GroupsOf(OutputSize)) + 4 < RamWords
      /\ BiasStart(1) + 4 * C!GroupsOf(HiddenSize) + 4 < RamWords
      /\ BiasStart(2) + 4 * C!GroupsOf(OutputSize) + 4 < RamWords
      /\ InputStart + InputSize < RamWords
      /\ InputStart + 4 * C!GroupsOf(HiddenSize) < RamWords
      /\ InputStart + 4 * C!GroupsOf(OutputSize) < RamWords
  <2>1. Net!Size(1 - 1) = InputSize /\ Net!Size(2 - 1) = HiddenSize
    BY Sizes
  <2> QED
    BY <1>1, <1>2, <1>3, <2>1, Areas
<1>5. /\ WeightStart(1) \in 0 .. RamWords - 1 /\ WeightStart(2) \in 0 .. RamWords - 1
      /\ BiasStart(1) \in 0 .. RamWords - 1 /\ BiasStart(2) \in 0 .. RamWords - 1
      /\ InputStart \in 0 .. RamWords - 1
      /\ HiddenSize \in 0 .. RamWords - 1 /\ OutputSize \in 0 .. RamWords - 1
  <2>1. HiddenSize < RowWords(1) /\ OutputSize < RowWords(2)
    BY Sizes, Rows
  <2> QED
    BY <1>1, <1>2, <1>3, <1>4, <2>1, Areas
<1>6. Layout \in C!ConfigType
  BY <1>5 DEF Layout, C!ConfigType, C!Address
<1>7. C!Programmed(Layout)
  BY <1>1, <1>4, <1>6 DEF Layout, C!Programmed
<1> QED
  BY <1>1, <1>7

(* What the controller's registers are in a running layer.                  *)
LEMMA InLayerFacts ==
  ASSUME C!ControllerInv, C!InLayer
  PROVE  /\ curr_layer \in 1 .. 2 /\ nlayers = 2
         /\ curr_layer_size = Net!Size(curr_layer)
         /\ C!Neurons = Net!Size(curr_layer)
         /\ C!Inputs = Net!Size(curr_layer - 1)
         /\ C!WeightBase = WeightStart(curr_layer)
         /\ C!BiasBase = BiasStart(curr_layer)
         /\ Layout.addr_act = InputStart
         /\ pending_issues \in 0 .. curr_layer_size
         /\ curr_layer_size \in 1 .. 31
         /\ acts_remaining \in Nat
<1>1. /\ curr_layer \in 1 .. 2 /\ nlayers = 2 /\ curr_layer_size = C!Neurons
      /\ acts_remaining \in Nat /\ pending_issues \in 0 .. curr_layer_size
  BY LayoutProgrammed, C!LayerFacts
<1>2. /\ Net!Size(curr_layer) \in 1 .. 31
      /\ curr_layer = 1 \/ curr_layer = 2
      /\ Net!Size(1 - 1) = InputSize /\ Net!Size(2 - 1) = HiddenSize
      /\ Net!Size(1) = HiddenSize /\ Net!Size(2) = OutputSize
  BY <1>1, Sizes
<1> QED
  BY <1>1, <1>2
  DEF Layout, C!Neurons, C!Inputs, C!WeightBase, C!BiasBase

(* Once programming is over the registers hold the layout.                  *)
LEMMA RegistersHoldLayout ==
  ASSUME RegistersOK, ~Programming, pc # "start_input"
  PROVE  Configuration = Layout
BY DEF RegistersOK, Configuration, Layout, WeightSaved, BiasSaved, InputSaved

(* The cycles in which the controller works: the program polls, and sees    *)
(* that the computation is not over.                                        *)
LEMMA PollCycle ==
  ASSUME MachineInv, curr_state # "IDLE", Program \/ IdleCycle
  PROVE  /\ pc = "poll" /\ pc' = "poll" /\ reading' \in BOOLEAN
         /\ UNCHANGED <<loopVars, test, out, resets>>
         /\ Configuration = Layout /\ status = 0
         /\ \E bus \in {NoBus, BusRead(ADDR_COMMANDS)} : Tick(bus)
<1>1. /\ pc = "poll" /\ status = 0
  BY DEF MachineInv, PollInStep, RegistersOK
<1>2. BeginPoll \/ EndPoll \/ IdleCycle
  BY <1>1
  DEF Program, Clear, StartWeight, StoreWeight, AlignRow, StartBias, StoreBias,
      AlignBias, AlignEnd, ProgramSizes, StartInput, StoreInput, AccStart,
      ReadOutput, BeginData, EndData, Advance, ResetPointer, NextTest, Command,
      Store, BeginRead, EndRead
<1>3. Configuration = Layout
  BY <1>1, RegistersHoldLayout DEF MachineInv, Programming
<1>4. Received(ADDR_COMMANDS) = PROCESSING_PENDING
  BY <1>1 DEF Received, ReadData, ADDR_COMMANDS, PROCESSING_PENDING
<1>5. reading \in BOOLEAN
  BY DEF MachineInv, LoopsOK
<1> QED
  BY <1>1, <1>2, <1>3, <1>4, <1>5
  DEF BeginPoll, EndPoll, IdleCycle, BeginRead, EndRead, driverVars, loopVars

(* In such a cycle the registers keep their values until the status shows   *)
(* the end, and the RAM answers the controller, or shows what the slave's   *)
(* pointer points to.                                                       *)
LEMMA PollTick ==
  ASSUME NEW bus \in {NoBus, BusRead(ADDR_COMMANDS)}, Tick(bus),
         Configuration = Layout
  PROVE  /\ UNCHANGED <<in_ptr, w0_ptr, b0_ptr, w1_ptr, b1_ptr, work_ptr, sizes>>
         /\ status' = IF curr_state = "DONE" THEN AllOnes ELSE status
         /\ C!Step(FALSE, mac_empty, sig_empty, Layout)
         /\ IF C!RamRequest(Layout).ren \/ C!RamRequest(Layout).wen
            THEN RamStep(C!RamRequest(Layout), ReadAcc(Ctrl!reg_sel, 4))
            ELSE \E din : RamStep([ren |-> TRUE, wen |-> FALSE, four |-> FALSE,
                                   addr |-> work_ptr], din)
<1>1. ~IsCommand(bus) /\ ~WritesData(bus) /\ ~bus.write
      /\ \A c : ~Commands(bus, c)
  BY DEF NoBus, BusRead, IsCommand, WritesData, Commands
<1>2. /\ UNCHANGED <<in_ptr, w0_ptr, b0_ptr, w1_ptr, b1_ptr, work_ptr, sizes>>
      /\ status' = IF curr_state = "DONE" THEN AllOnes ELSE status
  BY <1>1
  DEF Tick, RegistersStep, Loaded, WorkPtrAfter, SizesAfter, StatusAfter,
      Ctrl!done_flg
<1>3. C!Step(FALSE, mac_empty, sig_empty, Layout)
  <2>1. start_flg(bus) = FALSE
    BY <1>1 DEF start_flg
  <2>2. Ctrl!Step(FALSE, mac_empty, sig_empty, Layout)
    BY <2>1 DEF Tick
  <2> QED
    BY <2>2
    DEF Ctrl!Step, C!Step, Ctrl!Idle, C!Idle, Ctrl!CalcLayerPrep, C!CalcLayerPrep,
        Ctrl!LoadAct, C!LoadAct, Ctrl!MacIssue, C!MacIssue, Ctrl!MacWait, C!MacWait,
        Ctrl!BiasPrep, C!BiasPrep, Ctrl!BiasIssue, C!BiasIssue, Ctrl!BiasWait,
        C!BiasWait, Ctrl!SigmoidPrep, C!SigmoidPrep, Ctrl!SigmoidIssue,
        C!SigmoidIssue, Ctrl!SigmoidWait, C!SigmoidWait, Ctrl!StorePrep,
        C!StorePrep, Ctrl!StoreOutput, C!StoreOutput, Ctrl!LayerDone,
        C!LayerDone, Ctrl!Done, C!Done, Ctrl!U16, C!U16, Ctrl!U5, C!U5,
        Ctrl!U3, C!U3, Ctrl!PendingAfter, C!PendingAfter, Ctrl!IssuedLanes,
        C!IssuedLanes, Ctrl!issues_remaining, C!issues_remaining,
        Ctrl!layers_pending, C!layers_pending, Ctrl!pointers, C!pointers
<1>4. Ctrl!RamRequest(Layout) = C!RamRequest(Layout)
  BY DEF Ctrl!RamRequest, C!RamRequest, Ctrl!Read, C!Read, Ctrl!Write, C!Write,
         Ctrl!NoRequest, C!NoRequest
<1>5. SlaveRequest(bus) = [ren |-> TRUE, wen |-> FALSE, four |-> FALSE, addr |-> work_ptr]
  <2>1. WritesData(bus) = FALSE /\ (~WritesData(bus)) = TRUE
    BY <1>1 DEF WritesData
  <2> QED
    BY <2>1, Zenon DEF SlaveRequest
<1> QED
  BY <1>2, <1>3, <1>4, <1>5 DEF Tick, RamRequest, RamData, FfcOwnsRam, FfcRequest

LEMMA Routing ==
  ASSUME NEW req, NEW din, RamStep(req, din)
  PROVE  addr_flop' = req.addr /\ four_flop' = req.four
BY DEF RamStep

(* The controller's invariant is kept in these cycles: the RAM remembers    *)
(* the controller's request whenever the controller uses what it shows.     *)
LEMMA PollController ==
  ASSUME MachineInv, curr_state # "IDLE",
         C!Step(FALSE, mac_empty, sig_empty, Layout),
         IF C!RamRequest(Layout).ren \/ C!RamRequest(Layout).wen
         THEN RamStep(C!RamRequest(Layout), ReadAcc(Ctrl!reg_sel, 4))
         ELSE \E din : RamStep([ren |-> TRUE, wen |-> FALSE, four |-> FALSE,
                                addr |-> work_ptr], din)
  PROVE  C!ControllerInv'
<1> USE LayoutProgrammed
<1>1. C!ControllerInv /\ work_ptr \in 0 .. RamWords - 1
  BY DEF MachineInv, RegistersOK
<1>2. C!RamRequest(Layout) \in
        [ren : BOOLEAN, wen : BOOLEAN, four : BOOLEAN, addr : C!Address]
  BY <1>1, C!RequestType
<1>3. Fetched' \in C!Requests
  <2>1. addr_flop' \in C!Address /\ four_flop' \in BOOLEAN
    <3>1. CASE C!RamRequest(Layout).ren \/ C!RamRequest(Layout).wen
      <4>1. RamStep(C!RamRequest(Layout), ReadAcc(Ctrl!reg_sel, 4))
        BY <3>1
      <4> QED
        BY <1>2, <4>1, Routing
    <3>2. CASE ~(C!RamRequest(Layout).ren \/ C!RamRequest(Layout).wen)
      <4> DEFINE req == [ren |-> TRUE, wen |-> FALSE, four |-> FALSE, addr |-> work_ptr]
      <4>1. PICK din : RamStep(req, din)
        BY <3>2
      <4>2. req.addr = work_ptr /\ req.four = FALSE
        OBVIOUS
      <4> HIDE DEF req
      <4> QED
        BY <1>1, <4>1, <4>2, Routing DEF C!Address
    <3> QED
      BY <3>1, <3>2
  <2> QED
    BY <2>1 DEF Fetched, C!Requests
<1>4. ASSUME curr_state \in {"CALC_LAYER_PREP", "LOAD_ACT", "MAC_ISSUE", "MAC_WAIT",
                             "BIAS_PREP", "BIAS_ISSUE"}
      PROVE  Fetched' = C!RamRequest(Layout)
  <2>1. PICK n, a : C!RamRequest(Layout) = C!Read(n, a)
    BY <1>4 DEF C!RamRequest
  <2>2. RamStep(C!RamRequest(Layout), ReadAcc(Ctrl!reg_sel, 4))
    BY <2>1 DEF C!Read
  <2>3. addr_flop' = C!RamRequest(Layout).addr /\ four_flop' = C!RamRequest(Layout).four
    BY <2>2, Routing
  <2>4. C!RamRequest(Layout) = [ren |-> TRUE, wen |-> FALSE, four |-> n = 4, addr |-> a]
    BY <2>1 DEF C!Read
  <2> QED
    BY <2>3, <2>4 DEF Fetched
<1>5. mac_empty \in BOOLEAN /\ sig_empty \in BOOLEAN
  BY DEF mac_empty, sig_empty
<1>6. CASE C!CalcLayerPrep(Layout)
  <2>1. Fetched' = C!RamRequest(Layout)
    BY <1>4, <1>6 DEF C!CalcLayerPrep
  <2> QED
    BY <1>1, <1>3, <1>6, <2>1, C!CalcLayerPrepInv DEF C!Edge
<1>7. CASE C!LoadAct
  <2>1. Fetched' = C!RamRequest(Layout)
    BY <1>4, <1>7 DEF C!LoadAct
  <2> QED
    BY <1>1, <1>3, <1>7, <2>1, C!LoadActInv DEF C!Edge
<1>8. CASE C!MacIssue
  <2>1. Fetched' = C!RamRequest(Layout)
    BY <1>4, <1>8 DEF C!MacIssue
  <2> QED
    BY <1>1, <1>3, <1>8, <2>1, C!MacIssueInv DEF C!Edge
<1>9. CASE C!MacWait(mac_empty)
  <2>1. Fetched' = C!RamRequest(Layout)
    BY <1>4, <1>9 DEF C!MacWait
  <2> QED
    BY <1>1, <1>3, <1>5, <1>9, <2>1, C!MacWaitInv DEF C!Edge
<1>10. CASE C!BiasPrep
  <2>1. Fetched' = C!RamRequest(Layout)
    BY <1>4, <1>10 DEF C!BiasPrep
  <2> QED
    BY <1>1, <1>3, <1>10, <2>1, C!BiasPrepInv DEF C!Edge
<1>11. CASE C!BiasIssue
  <2>1. Fetched' = C!RamRequest(Layout)
    BY <1>4, <1>11 DEF C!BiasIssue
  <2> QED
    BY <1>1, <1>3, <1>11, <2>1, C!BiasIssueInv DEF C!Edge
<1>12. CASE C!BiasWait(mac_empty)
  <2>1. curr_state' \in {"BIAS_WAIT", "SIGMOID_PREP"}
    BY <1>12 DEF C!BiasWait
  <2> QED
    BY <1>1, <1>3, <1>5, <1>12, <2>1, C!BiasWaitInv DEF C!Edge
<1>13. CASE C!SigmoidPrep
  <2>1. curr_state' = "SIGMOID_ISSUE"
    BY <1>13 DEF C!SigmoidPrep
  <2> QED
    BY <1>1, <1>3, <1>13, <2>1, C!SigmoidPrepInv DEF C!Edge
<1>14. CASE C!SigmoidIssue
  <2>1. curr_state' \in {"SIGMOID_ISSUE", "SIGMOID_WAIT"}
    BY <1>14 DEF C!SigmoidIssue
  <2> QED
    BY <1>1, <1>3, <1>14, <2>1, C!SigmoidIssueInv DEF C!Edge
<1>15. CASE C!SigmoidWait(sig_empty)
  <2>1. curr_state' \in {"SIGMOID_WAIT", "STORE_PREP"}
    BY <1>15 DEF C!SigmoidWait
  <2> QED
    BY <1>1, <1>3, <1>5, <1>15, <2>1, C!SigmoidWaitInv DEF C!Edge
<1>16. CASE C!StorePrep(Layout)
  <2>1. curr_state' = "STORE_OUTPUT"
    BY <1>16 DEF C!StorePrep
  <2> QED
    BY <1>1, <1>3, <1>16, <2>1, C!StorePrepInv DEF C!Edge
<1>17. CASE C!StoreOutput
  <2>1. curr_state' \in {"STORE_OUTPUT", "LAYER_DONE"}
    BY <1>17 DEF C!StoreOutput
  <2> QED
    BY <1>1, <1>3, <1>17, <2>1, C!StoreOutputInv DEF C!Edge
<1>18. CASE C!LayerDone
  <2>1. curr_state' \in {"CALC_LAYER_PREP", "DONE"}
    BY <1>18 DEF C!LayerDone
  <2> QED
    BY <1>1, <1>3, <1>18, <2>1, C!LayerDoneInv DEF C!Edge
<1>19. CASE C!Done
  <2>1. curr_state' = "IDLE"
    BY <1>19 DEF C!Done
  <2> QED
    BY <1>1, <1>3, <1>19, <2>1, C!DoneInv DEF C!Edge
<1>20. ~C!Idle(FALSE)
  BY DEF C!Idle
<1> QED
  BY <1>6, <1>7, <1>8, <1>9, <1>10, <1>11, <1>12, <1>13, <1>14, <1>15, <1>16,
     <1>17, <1>18, <1>19, <1>20
  DEF C!Step

(* The RAM in these cycles: it is written in STORE_OUTPUT only, a group of  *)
(* accumulators in the area of the activations; and after a read it shows   *)
(* the words it was asked for.                                              *)
ReadStates ==
  {"CALC_LAYER_PREP", "LOAD_ACT", "MAC_ISSUE", "MAC_WAIT", "BIAS_PREP", "BIAS_ISSUE"}
Shown ==
  IF four_flop
  THEN \A l \in 1 .. 4 : dout[l] = RamWord(4 * (addr_flop \div 4) + l - 1)
  ELSE dout[1] = RamWord(addr_flop)

LEMMA PollRam ==
  ASSUME MachineInv, curr_state # "IDLE",
         IF C!RamRequest(Layout).ren \/ C!RamRequest(Layout).wen
         THEN RamStep(C!RamRequest(Layout), ReadAcc(Ctrl!reg_sel, 4))
         ELSE \E din : RamStep([ren |-> TRUE, wen |-> FALSE, four |-> FALSE,
                                addr |-> work_ptr], din)
  PROVE  /\ DOMAIN ram0' = BankAddress /\ DOMAIN ram1' = BankAddress
         /\ addr_flop' \in 0 .. RamWords - 1 /\ four_flop' \in BOOLEAN
         /\ curr_state # "STORE_OUTPUT" => ram0' = ram0 /\ ram1' = ram1
         /\ curr_state = "STORE_OUTPUT" =>
              LET start == InputStart + C!Issued IN
              \A a \in 0 .. RamWords - 1 :
                RamWord(a)' = IF a \in start .. start + 3
                              THEN acc_data[C!Issued + a - start] ELSE RamWord(a)
         /\ curr_state \in ReadStates => Shown'
<1>1. /\ DOMAIN ram0 = BankAddress /\ DOMAIN ram1 = BankAddress
      /\ work_ptr \in 0 .. RamWords - 1 /\ C!ControllerInv
  BY DEF MachineInv, RamOK, RegistersOK
<1>2. C!RamRequest(Layout) \in
        [ren : BOOLEAN, wen : BOOLEAN, four : BOOLEAN, addr : 0 .. RamWords - 1]
  BY <1>1, LayoutProgrammed, C!RequestType DEF C!Address
<1>3. CASE curr_state \in ReadStates
  <2>1. PICK n, a : C!RamRequest(Layout) = C!Read(n, a)
    BY <1>3 DEF C!RamRequest, ReadStates
  <2>2. C!RamRequest(Layout) = [ren |-> TRUE, wen |-> FALSE, four |-> n = 4, addr |-> a]
    BY <2>1 DEF C!Read
  <2>3. /\ a \in 0 .. RamWords - 1
        /\ RamStep(C!RamRequest(Layout), ReadAcc(Ctrl!reg_sel, 4))
    BY <1>2, <2>2
  <2>4. CASE n = 4
    <3>1. C!RamRequest(Layout) = [ren |-> TRUE, wen |-> FALSE, four |-> TRUE, addr |-> a]
      BY <2>2, <2>4
    <3>2. /\ ram0' = ram0 /\ ram1' = ram1
          /\ \A l \in 1 .. 4 : dout[l]' = RamWord(4 * (a \div 4) + l - 1)
          /\ addr_flop' = a /\ four_flop' = TRUE
      BY <2>3, <3>1, ReadFour
    <3>3. \A x : RamWord(x)' = RamWord(x)
      BY <3>2 DEF RamWord
    <3> QED
      BY <1>1, <1>3, <2>3, <3>2, <3>3 DEF Shown, ReadStates
  <2>5. CASE n # 4
    <3>1. C!RamRequest(Layout) = [ren |-> TRUE, wen |-> FALSE, four |-> FALSE, addr |-> a]
      BY <2>2, <2>5
    <3>2. /\ ram0' = ram0 /\ ram1' = ram1
          /\ dout[1]' = RamWord(a)
          /\ addr_flop' = a /\ four_flop' = FALSE
      BY <2>3, <3>1, ReadOne
    <3>3. \A x : RamWord(x)' = RamWord(x)
      BY <3>2 DEF RamWord
    <3> QED
      BY <1>1, <1>3, <2>3, <3>2, <3>3 DEF Shown, ReadStates
  <2> QED
    BY <2>4, <2>5
<1>4. CASE curr_state = "STORE_OUTPUT"
  <2>1. /\ curr_addr_a = InputStart + C!Issued
        /\ C!Issued \in Nat /\ C!Issued % 4 = 0 /\ C!Issued < 32
        /\ C!Issued = curr_layer_size - pending_issues
        /\ pending_issues > 0 /\ curr_layer_size \in 1 .. 31
        /\ pending_issues \in 0 .. curr_layer_size
    BY <1>1, <1>4, InLayerFacts
    DEF C!ControllerInv, C!LoopPointers, C!PassUnderWay, C!Issuing, C!InLayer, C!Issued
  <2>2. C!RamRequest(Layout) =
          [ren |-> FALSE, wen |-> TRUE, four |-> TRUE, addr |-> InputStart + C!Issued]
    BY <1>4, <2>1 DEF C!RamRequest, C!Write
  <2>3. PICK q \in Nat : InputStart + C!Issued = 4 * q
    <3>1. PICK q1 \in Nat : InputStart = 4 * q1
      BY Grouped
    <3>2. PICK q2 \in Nat : C!Issued = 4 * q2
      <4>1. C!Issued = 4 * (C!Issued \div 4) /\ C!Issued \div 4 \in Nat
        BY <2>1
      <4> QED
        BY <4>1
    <3>3. InputStart + C!Issued = 4 * (q1 + q2) /\ q1 + q2 \in Nat
      BY <3>1, <3>2
    <3> QED
      BY <3>3
  <2>4. 4 * q < RamWords /\ 4 * q \in 0 .. RamWords - 1
    <3>1. C!RamRequest(Layout).addr = 4 * q
      BY <2>2, <2>3
    <3>2. C!RamRequest(Layout).addr \in 0 .. RamWords - 1
      BY <1>2
    <3> QED
      BY <3>1, <3>2, RamShapeAssumption
  <2>5. RamStep(C!RamRequest(Layout), ReadAcc(Ctrl!reg_sel, 4))
    BY <2>2
  <2>6. /\ \A a \in 0 .. RamWords - 1 :
             RamWord(a)' = IF a \in 4 * q .. 4 * q + 3
                           THEN ReadAcc(Ctrl!reg_sel, 4)[a - 4 * q + 1]
                           ELSE RamWord(a)
        /\ DOMAIN ram0' = BankAddress /\ DOMAIN ram1' = BankAddress
        /\ addr_flop' = 4 * q /\ four_flop' = TRUE
    BY <1>1, <2>2, <2>3, <2>4, <2>5, WriteFour
  <2>7. Ctrl!reg_sel = C!Issued
    <3>1. \A n \in 0 .. 31 : n % 32 = n
      OBVIOUS
    <3>2. C!Issued \in 0 .. 31
      BY <2>1
    <3>3. Ctrl!reg_sel = C!Issued % 32
      BY <1>4, <2>1 DEF Ctrl!reg_sel, Ctrl!RegSel, Ctrl!U5
    <3> QED
      BY <3>1, <3>2, <3>3
  <2>8. ASSUME NEW a \in 4 * q .. 4 * q + 3
        PROVE  ReadAcc(Ctrl!reg_sel, 4)[a - 4 * q + 1] = acc_data[C!Issued + a - 4 * q]
    <3>1. a - 4 * q + 1 \in 1 .. 4 /\ C!Issued + (a - 4 * q + 1) - 1 = C!Issued + a - 4 * q
      BY <2>1
    <3> QED
      BY <2>7, <3>1 DEF ReadAcc
  <2> QED
    BY <1>4, <2>3, <2>4, <2>6, <2>8 DEF ReadStates
<1>5. CASE curr_state \notin ReadStates \cup {"STORE_OUTPUT"}
  <2>1. C!RamRequest(Layout) = C!NoRequest
    BY <1>5 DEF C!RamRequest, ReadStates
  <2>2. ~(C!RamRequest(Layout).ren \/ C!RamRequest(Layout).wen)
    BY <2>1 DEF C!NoRequest
  <2> DEFINE req == [ren |-> TRUE, wen |-> FALSE, four |-> FALSE, addr |-> work_ptr]
  <2>3. PICK din : RamStep(req, din)
    BY <2>2
  <2>4. ram0' = ram0 /\ ram1' = ram1 /\ addr_flop' = work_ptr /\ four_flop' = FALSE
    BY <1>1, <2>3, ReadOne
  <2> QED
    BY <1>1, <1>5, <2>4
<1> QED
  BY <1>3, <1>4, <1>5
----------------------------------------------------------------------------
(* The pipes.                                                               *)

LEMMA LenLemma ==
  ASSUME NEW n \in Nat, NEW ws, ws = [l \in 1 .. n |-> ws[l]]
  PROVE  Len(ws) = n /\ DOMAIN ws = 1 .. n
<1> DEFINE S == {ws[l] : l \in 1 .. n}
<1>1. ws \in [1 .. n -> S]
  OBVIOUS
<1>2. ws \in Seq(S)
  BY <1>1
<1>3. DOMAIN ws = 1 .. n
  OBVIOUS
<1>4. DOMAIN ws = 1 .. Len(ws) /\ Len(ws) \in Nat
  BY <1>2
<1> HIDE DEF S
<1> QED
  BY <1>3, <1>4

(* The words on the first lanes of the RAM.                                 *)
LEMMA LanesOfRam ==
  ASSUME NEW n \in 1 .. 4
  PROVE  /\ DOMAIN SubSeq(dout, 1, n) = 1 .. n
         /\ \A l \in 1 .. n : SubSeq(dout, 1, n)[l] = dout[l]
BY DEF dout

(* Each state has its own step.                                             *)
LEMMA StepOfState ==
  ASSUME C!Step(FALSE, mac_empty, sig_empty, Layout)
  PROVE  /\ curr_state = "IDLE" => C!Idle(FALSE)
         /\ curr_state = "CALC_LAYER_PREP" => C!CalcLayerPrep(Layout)
         /\ curr_state = "LOAD_ACT" => C!LoadAct
         /\ curr_state = "MAC_ISSUE" => C!MacIssue
         /\ curr_state = "MAC_WAIT" => C!MacWait(mac_empty)
         /\ curr_state = "BIAS_PREP" => C!BiasPrep
         /\ curr_state = "BIAS_ISSUE" => C!BiasIssue
         /\ curr_state = "BIAS_WAIT" => C!BiasWait(mac_empty)
         /\ curr_state = "SIGMOID_PREP" => C!SigmoidPrep
         /\ curr_state = "SIGMOID_ISSUE" => C!SigmoidIssue
         /\ curr_state = "SIGMOID_WAIT" => C!SigmoidWait(sig_empty)
         /\ curr_state = "STORE_PREP" => C!StorePrep(Layout)
         /\ curr_state = "STORE_OUTPUT" => C!StoreOutput
         /\ curr_state = "LAYER_DONE" => C!LayerDone
         /\ curr_state = "DONE" => C!Done
BY DEF C!Step, C!Idle, C!CalcLayerPrep, C!LoadAct, C!MacIssue, C!MacWait,
       C!BiasPrep, C!BiasIssue, C!BiasWait, C!SigmoidPrep, C!SigmoidIssue,
       C!SigmoidWait, C!StorePrep, C!StoreOutput, C!LayerDone, C!Done

IssueStates == {"MAC_ISSUE", "BIAS_ISSUE", "SIGMOID_ISSUE"}

(* The accumulators of an issue, or of a store.                             *)
LEMMA IssuedGroup ==
  ASSUME C!ControllerInv, curr_state \in IssueStates \cup {"STORE_OUTPUT"}
  PROVE  /\ C!Issued \in 0 .. 30 /\ C!Issued % 4 = 0
         /\ Ctrl!reg_sel = C!Issued
         /\ Ctrl!IssuedLanes \in 1 .. 4
         /\ C!Issued + Ctrl!IssuedLanes <= curr_layer_size
         /\ curr_layer_size \in 1 .. 31
         /\ C!PendingAfter = curr_layer_size - (C!Issued + Ctrl!IssuedLanes)
         /\ C!PendingAfter # 0 => Ctrl!IssuedLanes = 4
         /\ curr_state \in IssueStates => Ctrl!word_sel = Ctrl!IssuedLanes
<1>1. /\ curr_layer_size \in 1 .. 31 /\ pending_issues \in 0 .. curr_layer_size
  BY InLayerFacts DEF C!InLayer, IssueStates
<1>2. /\ C!Issued = curr_layer_size - pending_issues
      /\ pending_issues > 0 /\ C!Issued % 4 = 0
  BY DEF C!ControllerInv, C!PassUnderWay, C!Issuing, C!Issued, IssueStates
<1>3. /\ Ctrl!IssuedLanes \in 1 .. 4
      /\ Ctrl!IssuedLanes = C!IssuedLanes
      /\ Ctrl!IssuedLanes <= pending_issues
      /\ Ctrl!IssuedLanes # 4 => Ctrl!IssuedLanes = pending_issues
  BY <1>1, <1>2 DEF Ctrl!IssuedLanes, C!IssuedLanes
<1>4. Ctrl!reg_sel = C!Issued
  <2>1. \A n \in 0 .. 31 : n % 32 = n
    OBVIOUS
  <2>2. C!Issued \in 0 .. 31
    BY <1>1, <1>2
  <2>3. Ctrl!reg_sel = C!Issued % 32
    BY <1>2
    DEF Ctrl!reg_sel, Ctrl!RegSel, Ctrl!U5, Ctrl!issue_mac, Ctrl!issue_add,
        Ctrl!issue_sigmoid, IssueStates
  <2> QED
    BY <2>1, <2>2, <2>3
<1>5. curr_state \in IssueStates => Ctrl!word_sel = Ctrl!IssuedLanes
  BY DEF Ctrl!word_sel, Ctrl!issue_mac, Ctrl!issue_add, Ctrl!issue_sigmoid, IssueStates
<1>6. C!PendingAfter = pending_issues - Ctrl!IssuedLanes
  BY <1>3 DEF C!PendingAfter
<1> QED
  BY <1>1, <1>2, <1>3, <1>4, <1>5, <1>6

(* An issue adds its accumulators to those that have been issued.           *)
LEMMA IssueStep ==
  ASSUME C!ControllerInv, curr_state \in IssueStates,
         C!Step(FALSE, mac_empty, sig_empty, Layout)
  PROVE  /\ Passed = C!Issued
         /\ Passed' = C!Issued + Ctrl!IssuedLanes
         /\ UNCHANGED <<curr_layer, curr_layer_size, acts_remaining>>
         /\ curr_state = "MAC_ISSUE" => curr_state' \in MulStates
         /\ curr_state = "BIAS_ISSUE" => curr_state' \in {"BIAS_ISSUE", "BIAS_WAIT"}
         /\ curr_state = "SIGMOID_ISSUE" => curr_state' \in SigStates
<1>1. /\ UNCHANGED <<curr_layer, curr_layer_size, acts_remaining>>
      /\ pending_issues' = C!PendingAfter
      /\ curr_state = "MAC_ISSUE" =>
           curr_state' = IF C!PendingAfter # 0 THEN "MAC_ISSUE" ELSE "MAC_WAIT"
      /\ curr_state = "BIAS_ISSUE" =>
           curr_state' = IF C!PendingAfter # 0 THEN "BIAS_ISSUE" ELSE "BIAS_WAIT"
      /\ curr_state = "SIGMOID_ISSUE" =>
           curr_state' = IF C!PendingAfter # 0 THEN "SIGMOID_ISSUE" ELSE "SIGMOID_WAIT"
  BY StepOfState
  DEF IssueStates, C!MacIssue, C!BiasIssue, C!SigmoidIssue, C!issues_remaining
<1>2. /\ Passed = C!Issued
      /\ Passed' = IF C!PendingAfter # 0 THEN C!Issued' ELSE curr_layer_size
  BY <1>1 DEF Passed, IssueStates
<1>3. C!Issued' = curr_layer_size - C!PendingAfter
  BY <1>1 DEF C!Issued
<1>4. /\ C!Issued \in 0 .. 30 /\ Ctrl!IssuedLanes \in 1 .. 4
      /\ curr_layer_size \in 1 .. 31
      /\ C!PendingAfter = curr_layer_size - (C!Issued + Ctrl!IssuedLanes)
  BY IssuedGroup
<1>5. Passed' = C!Issued + Ctrl!IssuedLanes
  BY <1>2, <1>3, <1>4
<1> QED
  BY <1>1, <1>2, <1>5 DEF MulStates, SigStates, IssueStates

(* While a pipe is busy, the controller stays in the states of the pass.    *)
LEMMA PassKept ==
  ASSUME C!ControllerInv, curr_state # "IDLE",
         C!Step(FALSE, mac_empty, sig_empty, Layout)
  PROVE  /\ ~mac_empty /\ curr_state \in MulStates =>
              curr_state' \in MulStates /\ Passed <= Passed'
         /\ ~mac_empty /\ curr_state \in AddStates =>
              curr_state' \in AddStates /\ Passed <= Passed'
         /\ ~sig_empty /\ curr_state \in SigStates =>
              curr_state' \in SigStates /\ Passed <= Passed'
         /\ Passed \in 0 .. 31 /\ Passed' \in 0 .. 31
<1>1. CASE curr_state \in IssueStates
  <2>1. Passed \in 0 .. 31 /\ Passed' \in 0 .. 31 /\ Passed <= Passed'
    BY <1>1, IssueStep, IssuedGroup
  <2> QED
    BY <1>1, <2>1, IssueStep DEF MulStates, AddStates, SigStates, IssueStates
<1>2. CASE curr_state \notin IssueStates
  <2>1. curr_layer_size \in 0 .. 31
    BY DEF C!ControllerInv, C!TypeOK
  <2>2. Passed \in 0 .. 31
    BY <1>2, <2>1 DEF Passed, IssueStates
  <2>3. /\ curr_state = "MAC_WAIT" => /\ curr_layer_size' = curr_layer_size
                                      /\ ~mac_empty => curr_state' = "MAC_WAIT"
        /\ curr_state = "BIAS_WAIT" => /\ curr_layer_size' = curr_layer_size
                                       /\ ~mac_empty => curr_state' = "BIAS_WAIT"
        /\ curr_state = "SIGMOID_WAIT" => /\ curr_layer_size' = curr_layer_size
                                          /\ ~sig_empty => curr_state' = "SIGMOID_WAIT"
    BY StepOfState DEF C!MacWait, C!BiasWait, C!SigmoidWait
  <2>4. Passed' \in 0 .. 31
    <3>1. CASE curr_state \in {"MAC_WAIT", "BIAS_WAIT", "SIGMOID_WAIT"}
      <4>1. curr_state' \in {"MAC_WAIT", "BIAS_WAIT", "SIGMOID_WAIT", "LOAD_ACT",
                             "BIAS_PREP", "SIGMOID_PREP", "STORE_PREP"}
        BY <3>1, StepOfState DEF C!MacWait, C!BiasWait, C!SigmoidWait
      <4> QED
        BY <2>1, <2>3, <3>1, <4>1 DEF Passed
    <3>2. CASE curr_state \in {"LOAD_ACT", "BIAS_PREP", "SIGMOID_PREP"}
      <4>1. /\ pending_issues' = curr_layer_size /\ curr_layer_size' = curr_layer_size
            /\ curr_state' \in IssueStates
        BY <3>2, StepOfState DEF C!LoadAct, C!BiasPrep, C!SigmoidPrep, IssueStates
      <4>2. C!Issued' = 0
        BY <2>1, <4>1 DEF C!Issued
      <4> QED
        BY <4>1, <4>2 DEF Passed, IssueStates
    <3>3. CASE curr_state \in {"CALC_LAYER_PREP", "STORE_PREP", "STORE_OUTPUT",
                               "LAYER_DONE", "DONE"}
      <4>1. curr_state' \in {"LOAD_ACT", "STORE_OUTPUT", "LAYER_DONE",
                             "CALC_LAYER_PREP", "DONE", "IDLE"}
        BY <3>3, StepOfState
        DEF C!CalcLayerPrep, C!StorePrep, C!StoreOutput, C!LayerDone, C!Done
      <4> QED
        BY <4>1 DEF Passed
    <3> QED
      BY <1>2, <3>1, <3>2, <3>3
      DEF C!ControllerInv, C!TypeOK, C!States, IssueStates
  <2> QED
    BY <1>2, <2>1, <2>2, <2>3, <2>4
    DEF MulStates, AddStates, SigStates, IssueStates, Passed
<1> QED
  BY <1>1, <1>2

(* The stages after a clock edge: what was issued, and what moved on.       *)
IssuedProduct == Product(C!Issued, RamLanes, ActLanes, AccLanes)
IssuedSum == Sum(C!Issued, RamLanes, AccLanes)
IssuedSquash == Squash(C!Issued, AccLanes)

LEMMA Shifted ==
  ASSUME NEW bus, Tick(bus), MachineInv
  PROVE  /\ DOMAIN mul_pipe' = 1 .. MulLatency
         /\ DOMAIN add_pipe' = 1 .. AddLatency
         /\ DOMAIN sig_pipe' = 1 .. SigLatency
         /\ mul_pipe'[1] = IF curr_state = "MAC_ISSUE" THEN IssuedProduct ELSE Bubble
         /\ \A s \in 2 .. MulLatency : mul_pipe'[s] = mul_pipe[s - 1]
         /\ add_pipe'[1] = IF curr_state = "BIAS_ISSUE" THEN IssuedSum ELSE FromMultiplier
         /\ \A s \in 2 .. AddLatency : add_pipe'[s] = add_pipe[s - 1]
         /\ sig_pipe'[1] = IF curr_state = "SIGMOID_ISSUE" THEN IssuedSquash ELSE SigBubble
         /\ \A s \in 2 .. SigLatency : sig_pipe'[s] = sig_pipe[s - 1]
<1>1. /\ DOMAIN mul_pipe = 1 .. MulLatency /\ DOMAIN add_pipe = 1 .. AddLatency
      /\ DOMAIN sig_pipe = 1 .. SigLatency
      /\ 1 \in 1 .. MulLatency /\ 1 \in 1 .. AddLatency /\ 1 \in 1 .. SigLatency
  BY MacLatencyAssumption, SigLatencyAssumption DEF MachineInv, PipesOK
<1>2. curr_state \in IssueStates => Ctrl!reg_sel = C!Issued
  BY IssuedGroup DEF MachineInv
<1>3. mul_pipe' = Shift(mul_pipe, IF curr_state = "MAC_ISSUE" THEN IssuedProduct ELSE Bubble)
  BY <1>2
  DEF Tick, MacStep, Ctrl!issue_mac, Ctrl!issue_add, IssuedProduct, IssueStates
<1>4. add_pipe' = Shift(add_pipe, IF curr_state = "BIAS_ISSUE" THEN IssuedSum
                                  ELSE FromMultiplier)
  BY <1>2
  DEF Tick, MacStep, Ctrl!issue_mac, Ctrl!issue_add, IssuedSum, IssueStates
<1>5. sig_pipe' = [s \in DOMAIN sig_pipe |->
                     IF s > 1 THEN sig_pipe[s - 1]
                     ELSE IF curr_state = "SIGMOID_ISSUE" THEN IssuedSquash ELSE SigBubble]
  BY <1>2 DEF Tick, SigStep, Ctrl!issue_sigmoid, IssuedSquash, IssueStates
<1>6. /\ DOMAIN mul_pipe' = 1 .. MulLatency
      /\ mul_pipe'[1] = IF curr_state = "MAC_ISSUE" THEN IssuedProduct ELSE Bubble
      /\ \A s \in 2 .. MulLatency : mul_pipe'[s] = mul_pipe[s - 1]
  BY <1>1, <1>3, MacLatencyAssumption DEF Shift
<1>7. /\ DOMAIN add_pipe' = 1 .. AddLatency
      /\ add_pipe'[1] = IF curr_state = "BIAS_ISSUE" THEN IssuedSum ELSE FromMultiplier
      /\ \A s \in 2 .. AddLatency : add_pipe'[s] = add_pipe[s - 1]
  BY <1>1, <1>4, MacLatencyAssumption DEF Shift
<1>8. /\ DOMAIN sig_pipe' = 1 .. SigLatency
      /\ sig_pipe'[1] = IF curr_state = "SIGMOID_ISSUE" THEN IssuedSquash ELSE SigBubble
      /\ \A s \in 2 .. SigLatency : sig_pipe'[s] = sig_pipe[s - 1]
  BY <1>1, <1>5, SigLatencyAssumption
<1> QED
  BY <1>6, <1>7, <1>8

(* A stage is in use when it holds an operation of the pass.                *)
LEMMA Stages ==
  ASSUME PipesOK
  PROVE  /\ \A s \in 1 .. MulLatency :
              /\ mul_pipe[s].busy <=> mul_pipe[s] # Bubble
              /\ mul_pipe[s] # Bubble =>
                   MulOp(mul_pipe[s], Passed) /\ curr_state \in MulStates /\ ~mac_empty
         /\ \A s \in 1 .. AddLatency :
              /\ add_pipe[s].busy <=> add_pipe[s] # Bubble
              /\ add_pipe[s] # Bubble =>
                   ResultOp(add_pipe[s], Passed) /\ curr_state \in AddStates /\ ~mac_empty
         /\ \A s \in 1 .. SigLatency :
              /\ sig_pipe[s].busy <=> sig_pipe[s] # SigBubble
              /\ sig_pipe[s] # SigBubble =>
                   ResultOp(sig_pipe[s], Passed) /\ curr_state \in SigStates /\ ~sig_empty
<1>1. ASSUME NEW s \in 1 .. MulLatency
      PROVE  /\ mul_pipe[s].busy <=> mul_pipe[s] # Bubble
             /\ mul_pipe[s] # Bubble =>
                  MulOp(mul_pipe[s], Passed) /\ curr_state \in MulStates /\ ~mac_empty
  <2>1. mul_pipe[s] # Bubble => MulOp(mul_pipe[s], Passed) /\ curr_state \in MulStates
    BY DEF PipesOK
  <2>2. MulOp(mul_pipe[s], Passed) => mul_pipe[s].busy = TRUE
    BY DEF MulOp
  <2>3. Bubble.busy = FALSE
    BY DEF Bubble
  <2>4. mul_pipe[s].busy <=> mul_pipe[s] # Bubble
    BY <2>1, <2>2, <2>3
  <2>5. mul_pipe[s].busy => ~mac_empty
    BY DEF mac_empty, PipesOK
  <2> QED
    BY <2>1, <2>4, <2>5
<1>2. ASSUME NEW s \in 1 .. AddLatency
      PROVE  /\ add_pipe[s].busy <=> add_pipe[s] # Bubble
             /\ add_pipe[s] # Bubble =>
                  ResultOp(add_pipe[s], Passed) /\ curr_state \in AddStates /\ ~mac_empty
  <2>1. add_pipe[s] # Bubble => ResultOp(add_pipe[s], Passed) /\ curr_state \in AddStates
    BY DEF PipesOK
  <2>2. ResultOp(add_pipe[s], Passed) => add_pipe[s].busy = TRUE
    BY DEF ResultOp
  <2>3. Bubble.busy = FALSE
    BY DEF Bubble
  <2>4. add_pipe[s].busy <=> add_pipe[s] # Bubble
    BY <2>1, <2>2, <2>3
  <2>5. add_pipe[s].busy => ~mac_empty
    BY DEF mac_empty, PipesOK
  <2> QED
    BY <2>1, <2>4, <2>5
<1>3. ASSUME NEW s \in 1 .. SigLatency
      PROVE  /\ sig_pipe[s].busy <=> sig_pipe[s] # SigBubble
             /\ sig_pipe[s] # SigBubble =>
                  ResultOp(sig_pipe[s], Passed) /\ curr_state \in SigStates /\ ~sig_empty
  <2>1. sig_pipe[s] # SigBubble => ResultOp(sig_pipe[s], Passed) /\ curr_state \in SigStates
    BY DEF PipesOK
  <2>2. ResultOp(sig_pipe[s], Passed) => sig_pipe[s].busy = TRUE
    BY DEF ResultOp
  <2>3. SigBubble.busy = FALSE
    BY DEF SigBubble
  <2>4. sig_pipe[s].busy <=> sig_pipe[s] # SigBubble
    BY <2>1, <2>2, <2>3
  <2>5. sig_pipe[s].busy => ~sig_empty
    BY DEF sig_empty, PipesOK
  <2> QED
    BY <2>1, <2>4, <2>5
<1> QED
  BY <1>1, <1>2, <1>3

(* What is issued is an operation of the pass, on as many lanes.            *)
LEMMA IssuedOps ==
  ASSUME C!ControllerInv, curr_state \in IssueStates
  PROVE  LET n == Ctrl!IssuedLanes IN
         /\ curr_state = "MAC_ISSUE" =>
              /\ IssuedProduct = [busy |-> TRUE, index |-> C!Issued,
                                  product |-> IssuedProduct.product,
                                  acc |-> IssuedProduct.acc]
              /\ Len(IssuedProduct.product) = n
              /\ DOMAIN IssuedProduct.product = 1 .. n
              /\ \A l \in 1 .. n :
                   /\ IssuedProduct.product[l] = Mul(dout[l], act_data)
                   /\ IssuedProduct.acc[l] = acc_data[C!Issued + l - 1]
         /\ curr_state = "BIAS_ISSUE" =>
              /\ IssuedSum = [busy |-> TRUE, index |-> C!Issued,
                              result |-> IssuedSum.result]
              /\ Len(IssuedSum.result) = n
              /\ DOMAIN IssuedSum.result = 1 .. n
              /\ \A l \in 1 .. n :
                   IssuedSum.result[l] = Add(dout[l], acc_data[C!Issued + l - 1])
         /\ curr_state = "SIGMOID_ISSUE" =>
              /\ IssuedSquash = [busy |-> TRUE, index |-> C!Issued,
                                 result |-> IssuedSquash.result]
              /\ Len(IssuedSquash.result) = n
              /\ DOMAIN IssuedSquash.result = 1 .. n
              /\ \A l \in 1 .. n :
                   IssuedSquash.result[l] = Sigmoid(acc_data[C!Issued + l - 1])
<1> DEFINE n == Ctrl!IssuedLanes
<1>1. n \in 1 .. 4 /\ Ctrl!word_sel = n /\ Ctrl!reg_sel = C!Issued
  BY IssuedGroup
<1>2. /\ DOMAIN RamLanes = 1 .. n
      /\ \A l \in 1 .. n : RamLanes[l] = dout[l]
  BY <1>1, LanesOfRam DEF RamLanes
<1>3. /\ DOMAIN AccLanes = 1 .. n
      /\ \A l \in 1 .. n : AccLanes[l] = acc_data[C!Issued + l - 1]
  BY <1>1 DEF AccLanes, ReadAcc
<1>4. \A l \in 1 .. n : ActLanes[l] = act_data
  BY <1>1 DEF ActLanes
<1> HIDE DEF n
<1>5. ASSUME NEW ws, ws = [l \in 1 .. n |-> ws[l]]
      PROVE  Len(ws) = n
  BY <1>1, <1>5, LenLemma
<1>6. /\ IssuedProduct = [busy |-> TRUE, index |-> C!Issued,
                          product |-> [l \in 1 .. n |-> Mul(RamLanes[l], ActLanes[l])],
                          acc |-> AccLanes]
      /\ IssuedSum = [busy |-> TRUE, index |-> C!Issued,
                      result |-> [l \in 1 .. n |-> Add(RamLanes[l], AccLanes[l])]]
      /\ IssuedSquash = [busy |-> TRUE, index |-> C!Issued,
                         result |-> [l \in 1 .. n |-> Sigmoid(AccLanes[l])]]
  BY <1>2, <1>3 DEF IssuedProduct, IssuedSum, IssuedSquash, Product, Sum, Squash
<1> DEFINE p == [l \in 1 .. n |-> Mul(RamLanes[l], ActLanes[l])]
<1> DEFINE t == [l \in 1 .. n |-> Add(RamLanes[l], AccLanes[l])]
<1> DEFINE q == [l \in 1 .. n |-> Sigmoid(AccLanes[l])]
<1>7. /\ p = [l \in 1 .. n |-> p[l]] /\ DOMAIN p = 1 .. n
      /\ \A l \in 1 .. n : p[l] = Mul(dout[l], act_data)
  BY <1>2, <1>4
<1>8. /\ t = [l \in 1 .. n |-> t[l]] /\ DOMAIN t = 1 .. n
      /\ \A l \in 1 .. n : t[l] = Add(dout[l], acc_data[C!Issued + l - 1])
  BY <1>2, <1>3
<1>9. /\ q = [l \in 1 .. n |-> q[l]] /\ DOMAIN q = 1 .. n
      /\ \A l \in 1 .. n : q[l] = Sigmoid(acc_data[C!Issued + l - 1])
  BY <1>3
<1>10. /\ IssuedProduct = [busy |-> TRUE, index |-> C!Issued, product |-> p, acc |-> AccLanes]
       /\ IssuedSum = [busy |-> TRUE, index |-> C!Issued, result |-> t]
       /\ IssuedSquash = [busy |-> TRUE, index |-> C!Issued, result |-> q]
  BY <1>6
<1> HIDE DEF p, t, q
<1>11. Len(p) = n /\ Len(t) = n /\ Len(q) = n
  BY <1>5, <1>7, <1>8, <1>9
<1> QED
  BY <1>3, <1>7, <1>8, <1>9, <1>10, <1>11 DEF n

(* What leaves the multiplier is an operation of the pass, too.             *)
LEMMA Leaving ==
  ASSUME PipesOK, mul_pipe[MulLatency] # Bubble
  PROVE  LET op == mul_pipe[MulLatency] IN
         /\ FromMultiplier = [busy |-> TRUE, index |-> op.index,
                              result |-> FromMultiplier.result]
         /\ Len(FromMultiplier.result) = Len(op.product)
         /\ DOMAIN FromMultiplier.result = 1 .. Len(op.product)
         /\ \A l \in 1 .. Len(op.product) :
              FromMultiplier.result[l] = Add(op.product[l], op.acc[l])
<1> DEFINE op == mul_pipe[MulLatency]
<1> DEFINE n == Len(op.product)
<1>1. MulLatency \in 1 .. MulLatency
  BY MacLatencyAssumption
<1>2. op.busy /\ MulOp(op, Passed)
  BY <1>1, Stages
<1>3. n \in 1 .. 4 /\ DOMAIN op.product = 1 .. n
  BY <1>2 DEF MulOp, Words
<1> DEFINE t == [l \in 1 .. n |-> Add(op.product[l], op.acc[l])]
<1>4. FromMultiplier = [busy |-> TRUE, index |-> op.index, result |-> t]
  BY <1>2, <1>3 DEF FromMultiplier, Sum
<1>5. /\ t = [l \in 1 .. n |-> t[l]] /\ DOMAIN t = 1 .. n
      /\ \A l \in 1 .. n : t[l] = Add(op.product[l], op.acc[l])
  OBVIOUS
<1> HIDE DEF t, n
<1>6. Len(t) = n
  BY <1>3, <1>5, LenLemma
<1> QED
  BY <1>4, <1>5, <1>6 DEF n

LEMMA NothingLeaves == mul_pipe[MulLatency] = Bubble => FromMultiplier = Bubble
BY DEF FromMultiplier, Bubble

LEMMA Within ==
  \A n \in 0 .. 31, m \in 0 .. 31, a \in 0 .. 31, b \in 1 .. 4 :
    n <= m /\ a + b <= n => a + b <= m
OBVIOUS

(* An operation of the pass stays one while more accumulators are issued.   *)
LEMMA LaterOp ==
  ASSUME NEW op, NEW n \in 0 .. 31, NEW m \in 0 .. 31, n <= m
  PROVE  /\ MulOp(op, n) => MulOp(op, m)
         /\ ResultOp(op, n) => ResultOp(op, m)
<1>1. ASSUME MulOp(op, n) PROVE MulOp(op, m)
  <2>1. op.index \in 0 .. 31 /\ Words(op.product) /\ op.index + Len(op.product) <= n
    BY <1>1 DEF MulOp
  <2>2. op.index + Len(op.product) <= m
    BY <2>1, Within DEF Words
  <2> QED
    BY <1>1, <2>1, <2>2, Zenon DEF MulOp
<1>2. ASSUME ResultOp(op, n) PROVE ResultOp(op, m)
  <2>1. op.index \in 0 .. 31 /\ Words(op.result) /\ op.index + Len(op.result) <= n
    BY <1>2 DEF ResultOp
  <2>2. op.index + Len(op.result) <= m
    BY <2>1, Within DEF Words
  <2> QED
    BY <1>2, <2>1, <2>2, Zenon DEF ResultOp
<1> QED
  BY <1>1, <1>2

(* The pipes keep their invariant.                                          *)
LEMMA PipesStep ==
  ASSUME MachineInv, curr_state # "IDLE", NEW bus, Tick(bus),
         C!Step(FALSE, mac_empty, sig_empty, Layout)
  PROVE  PipesOK'
<1>1. /\ PipesOK /\ C!ControllerInv
      /\ MulLatency \in 1 .. MulLatency
      /\ MulStates \subseteq AddStates
  BY MacLatencyAssumption DEF MachineInv, MulStates, AddStates
<1>2. /\ Passed \in 0 .. 31 /\ Passed' \in 0 .. 31
  BY <1>1, PassKept
<1>3. ASSUME NEW s \in 1 .. MulLatency
      PROVE  \/ mul_pipe'[s] = Bubble
             \/ MulOp(mul_pipe'[s], Passed') /\ curr_state' \in MulStates
  <2>1. CASE s = 1 /\ curr_state = "MAC_ISSUE"
    <3>1. mul_pipe'[s] = IssuedProduct
      BY <2>1, Shifted
    <3>2. /\ C!Issued \in 0 .. 30 /\ Ctrl!IssuedLanes \in 1 .. 4
          /\ Passed' = C!Issued + Ctrl!IssuedLanes /\ curr_state' \in MulStates
      BY <1>1, <2>1, IssueStep, IssuedGroup DEF IssueStates
    <3>3. /\ IssuedProduct = [busy |-> TRUE, index |-> C!Issued,
                              product |-> IssuedProduct.product,
                              acc |-> IssuedProduct.acc]
          /\ Len(IssuedProduct.product) = Ctrl!IssuedLanes
          /\ DOMAIN IssuedProduct.product = 1 .. Ctrl!IssuedLanes
      BY <1>1, <2>1, IssuedOps DEF IssueStates
    <3>4. IssuedProduct.index = C!Issued
      BY <3>3
    <3>5. IssuedProduct.index \in 0 .. 31 /\ Words(IssuedProduct.product)
      BY <3>2, <3>3, <3>4 DEF Words
    <3>6. IssuedProduct.index + Len(IssuedProduct.product) <= Passed'
      <4>1. IssuedProduct.index + Len(IssuedProduct.product) = Passed'
        BY <3>2, <3>3, <3>4, Zenon
      <4> QED
        BY <1>2, <4>1
    <3>7. IssuedProduct = [busy |-> TRUE, index |-> IssuedProduct.index,
                           product |-> IssuedProduct.product,
                           acc |-> IssuedProduct.acc]
      BY <3>3, <3>4
    <3>8. MulOp(IssuedProduct, Passed')
      BY <3>5, <3>6, <3>7, Zenon DEF MulOp
    <3> QED
      BY <3>1, <3>2, <3>8
  <2>2. CASE s = 1 /\ curr_state # "MAC_ISSUE"
    BY <2>2, Shifted
  <2>3. CASE s # 1
    <3>1. s - 1 \in 1 .. MulLatency /\ mul_pipe'[s] = mul_pipe[s - 1]
      BY <2>3, Shifted, MacLatencyAssumption
    <3>2. mul_pipe[s - 1] # Bubble =>
            /\ MulOp(mul_pipe[s - 1], Passed) /\ curr_state' \in MulStates
            /\ Passed <= Passed'
      BY <1>1, <3>1, Stages, PassKept
    <3>3. mul_pipe[s - 1] # Bubble => MulOp(mul_pipe[s - 1], Passed')
      BY <1>2, <3>2, LaterOp
    <3> QED
      BY <3>1, <3>2, <3>3
  <2> QED
    BY <2>1, <2>2, <2>3
<1>4. ASSUME NEW s \in 1 .. AddLatency
      PROVE  \/ add_pipe'[s] = Bubble
             \/ ResultOp(add_pipe'[s], Passed') /\ curr_state' \in AddStates
  <2>1. CASE s = 1 /\ curr_state = "BIAS_ISSUE"
    <3>1. add_pipe'[s] = IssuedSum
      BY <2>1, Shifted
    <3>2. /\ C!Issued \in 0 .. 30 /\ Ctrl!IssuedLanes \in 1 .. 4
          /\ Passed' = C!Issued + Ctrl!IssuedLanes /\ curr_state' \in AddStates
      BY <1>1, <2>1, IssueStep, IssuedGroup DEF IssueStates, AddStates
    <3>3. /\ IssuedSum = [busy |-> TRUE, index |-> C!Issued, result |-> IssuedSum.result]
          /\ Len(IssuedSum.result) = Ctrl!IssuedLanes
          /\ DOMAIN IssuedSum.result = 1 .. Ctrl!IssuedLanes
      BY <1>1, <2>1, IssuedOps DEF IssueStates
    <3>4. IssuedSum.index = C!Issued
      BY <3>3
    <3>5. /\ IssuedSum.index \in 0 .. 31 /\ Words(IssuedSum.result)
          /\ IssuedSum.index + Len(IssuedSum.result) <= Passed'
      <4>1. IssuedSum.index + Len(IssuedSum.result) = Passed'
        BY <3>2, <3>3, <3>4, Zenon
      <4>2. IssuedSum.index \in 0 .. 31 /\ Words(IssuedSum.result)
        BY <3>2, <3>3, <3>4 DEF Words
      <4> QED
        BY <1>2, <4>1, <4>2
    <3>6. IssuedSum = [busy |-> TRUE, index |-> IssuedSum.index,
                       result |-> IssuedSum.result]
      BY <3>3, <3>4
    <3>7. ResultOp(IssuedSum, Passed')
      BY <3>5, <3>6, Zenon DEF ResultOp
    <3> QED
      BY <3>1, <3>2, <3>7
  <2>2. CASE s = 1 /\ curr_state # "BIAS_ISSUE" /\ mul_pipe[MulLatency] = Bubble
    BY <2>2, Shifted, NothingLeaves
  <2>3. CASE s = 1 /\ curr_state # "BIAS_ISSUE" /\ mul_pipe[MulLatency] # Bubble
    <3> DEFINE op == mul_pipe[MulLatency]
    <3>1. add_pipe'[s] = FromMultiplier
      BY <2>3, Shifted
    <3>2. /\ MulOp(op, Passed) /\ curr_state' \in AddStates /\ Passed <= Passed'
      BY <1>1, <2>3, Stages, PassKept
    <3>3. /\ op.index \in 0 .. 31 /\ Len(op.product) \in 1 .. 4
          /\ op.index + Len(op.product) <= Passed
      BY <3>2 DEF MulOp, Words
    <3>4. /\ FromMultiplier = [busy |-> TRUE, index |-> op.index,
                               result |-> FromMultiplier.result]
          /\ Len(FromMultiplier.result) = Len(op.product)
          /\ DOMAIN FromMultiplier.result = 1 .. Len(op.product)
      BY <1>1, <2>3, Leaving
    <3> HIDE DEF op
    <3>5. FromMultiplier.index = op.index
      BY <3>4
    <3>6. /\ FromMultiplier.index \in 0 .. 31 /\ Words(FromMultiplier.result)
          /\ FromMultiplier.index + Len(FromMultiplier.result) <= Passed'
      <4>1. /\ FromMultiplier.index \in 0 .. 31 /\ Words(FromMultiplier.result)
            /\ Len(FromMultiplier.result) \in 1 .. 4
        BY <3>3, <3>4, <3>5 DEF Words
      <4>2. FromMultiplier.index + Len(FromMultiplier.result) <= Passed
        BY <3>3, <3>4, <3>5, Zenon
      <4> QED
        BY <1>2, <3>2, <4>1, <4>2, Within
    <3>7. FromMultiplier = [busy |-> TRUE, index |-> FromMultiplier.index,
                            result |-> FromMultiplier.result]
      BY <3>4, <3>5
    <3>8. ResultOp(FromMultiplier, Passed')
      BY <3>6, <3>7, Zenon DEF ResultOp
    <3> QED
      BY <3>1, <3>2, <3>8
  <2>4. CASE s # 1
    <3>1. s - 1 \in 1 .. AddLatency /\ add_pipe'[s] = add_pipe[s - 1]
      BY <2>4, Shifted, MacLatencyAssumption
    <3>2. add_pipe[s - 1] # Bubble =>
            /\ ResultOp(add_pipe[s - 1], Passed) /\ curr_state' \in AddStates
            /\ Passed <= Passed'
      BY <1>1, <3>1, Stages, PassKept
    <3>3. add_pipe[s - 1] # Bubble => ResultOp(add_pipe[s - 1], Passed')
      BY <1>2, <3>2, LaterOp
    <3> QED
      BY <3>1, <3>2, <3>3
  <2> QED
    BY <2>1, <2>2, <2>3, <2>4
<1>5. ASSUME NEW s \in 1 .. SigLatency
      PROVE  \/ sig_pipe'[s] = SigBubble
             \/ ResultOp(sig_pipe'[s], Passed') /\ curr_state' \in SigStates
  <2>1. CASE s = 1 /\ curr_state = "SIGMOID_ISSUE"
    <3>1. sig_pipe'[s] = IssuedSquash
      BY <2>1, Shifted
    <3>2. /\ C!Issued \in 0 .. 30 /\ Ctrl!IssuedLanes \in 1 .. 4
          /\ Passed' = C!Issued + Ctrl!IssuedLanes /\ curr_state' \in SigStates
      BY <1>1, <2>1, IssueStep, IssuedGroup DEF IssueStates
    <3>3. /\ IssuedSquash = [busy |-> TRUE, index |-> C!Issued,
                             result |-> IssuedSquash.result]
          /\ Len(IssuedSquash.result) = Ctrl!IssuedLanes
          /\ DOMAIN IssuedSquash.result = 1 .. Ctrl!IssuedLanes
      BY <1>1, <2>1, IssuedOps DEF IssueStates
    <3>4. IssuedSquash.index = C!Issued
      BY <3>3
    <3>5. /\ IssuedSquash.index \in 0 .. 31 /\ Words(IssuedSquash.result)
          /\ IssuedSquash.index + Len(IssuedSquash.result) <= Passed'
      <4>1. IssuedSquash.index + Len(IssuedSquash.result) = Passed'
        BY <3>2, <3>3, <3>4, Zenon
      <4>2. IssuedSquash.index \in 0 .. 31 /\ Words(IssuedSquash.result)
        BY <3>2, <3>3, <3>4 DEF Words
      <4> QED
        BY <1>2, <4>1, <4>2
    <3>6. IssuedSquash = [busy |-> TRUE, index |-> IssuedSquash.index,
                          result |-> IssuedSquash.result]
      BY <3>3, <3>4
    <3>7. ResultOp(IssuedSquash, Passed')
      BY <3>5, <3>6, Zenon DEF ResultOp
    <3> QED
      BY <3>1, <3>2, <3>7
  <2>2. CASE s = 1 /\ curr_state # "SIGMOID_ISSUE"
    BY <2>2, Shifted
  <2>3. CASE s # 1
    <3>1. s - 1 \in 1 .. SigLatency /\ sig_pipe'[s] = sig_pipe[s - 1]
      BY <2>3, Shifted, SigLatencyAssumption
    <3>2. sig_pipe[s - 1] # SigBubble =>
            /\ ResultOp(sig_pipe[s - 1], Passed) /\ curr_state' \in SigStates
            /\ Passed <= Passed'
      BY <1>1, <3>1, Stages, PassKept
    <3>3. sig_pipe[s - 1] # SigBubble => ResultOp(sig_pipe[s - 1], Passed')
      BY <1>2, <3>2, LaterOp
    <3> QED
      BY <3>1, <3>2, <3>3
  <2> QED
    BY <2>1, <2>2, <2>3
<1>6. /\ DOMAIN mul_pipe' = 1 .. MulLatency /\ DOMAIN add_pipe' = 1 .. AddLatency
      /\ DOMAIN sig_pipe' = 1 .. SigLatency
  BY Shifted
<1> QED
  BY <1>3, <1>4, <1>5, <1>6, Zenon DEF PipesOK
----------------------------------------------------------------------------
(* Each part of the invariant, in the cycles in which the controller works. *)

(* The parameters of the network stay where they are.                       *)
LEMMA PollNetwork ==
  ASSUME MachineInv, curr_state # "IDLE", pc = "poll", pc' = "poll",
         IF C!RamRequest(Layout).ren \/ C!RamRequest(Layout).wen
         THEN RamStep(C!RamRequest(Layout), ReadAcc(Ctrl!reg_sel, 4))
         ELSE \E din : RamStep([ren |-> TRUE, wen |-> FALSE, four |-> FALSE,
                                addr |-> work_ptr], din)
  PROVE  NetworkStored'
<1>1. ASSUME NEW a \in 0 .. LayoutEnd - 1
      PROVE  RamWord(a)' = RamWord(a)
  <2>1. CASE curr_state # "STORE_OUTPUT"
    <3>1. ram0' = ram0 /\ ram1' = ram1
      BY <2>1, PollRam
    <3> QED
      BY <3>1 DEF RamWord
  <2>2. CASE curr_state = "STORE_OUTPUT"
    <3> DEFINE start == InputStart + C!Issued
    <3>1. C!Issued \in 0 .. 30
      BY <2>2, IssuedGroup DEF MachineInv
    <3>2. a \in 0 .. RamWords - 1 /\ a \notin start .. start + 3
      BY <3>1, Areas, Sizes, RamShapeAssumption
    <3>3. RamWord(a)' = IF a \in start .. start + 3
                        THEN acc_data[C!Issued + a - start] ELSE RamWord(a)
      BY <2>2, <3>2, PollRam
    <3> HIDE DEF start
    <3> QED
      BY <3>2, <3>3
  <2> QED
    BY <2>1, <2>2
<1>2. ASSUME NEW l \in 1 .. 2, NEW n \in 0 .. Net!Size(l) - 1
      PROVE  /\ RamWord(BiasStart(l) + n)' = Bias(l, n)
             /\ \A m \in 0 .. Net!Size(l - 1) - 1 :
                  RamWord(WeightStart(l) + m * RowWords(l) + n)' = Weight(l, n, m)
  <2>1. /\ RamWord(BiasStart(l) + n) = Bias(l, n)
        /\ \A m \in 0 .. Net!Size(l - 1) - 1 :
             RamWord(WeightStart(l) + m * RowWords(l) + n) = Weight(l, n, m)
    BY DEF MachineInv, NetworkStored, BiasStored, WeightStored, Programming
  <2> QED
    BY <1>1, <2>1, ParametersBelow
<1> QED
  BY <1>2, Zenon DEF NetworkStored

LEMMA PollStates ==
  ASSUME C!ControllerInv, curr_state # "IDLE",
         C!Step(FALSE, mac_empty, sig_empty, Layout)
  PROVE  /\ curr_state' = "IDLE" <=> curr_state = "DONE"
         /\ curr_state' \in {"LOAD_ACT", "MAC_ISSUE", "BIAS_ISSUE"} =>
              curr_state \in ReadStates
BY DEF C!Step, C!Idle, C!CalcLayerPrep, C!LoadAct, C!MacIssue, C!MacWait,
       C!BiasPrep, C!BiasIssue, C!BiasWait, C!SigmoidPrep, C!SigmoidIssue,
       C!SigmoidWait, C!StorePrep, C!StoreOutput, C!LayerDone, C!Done, ReadStates

LEMMA PollInv ==
  ASSUME MachineInv, curr_state # "IDLE", Program \/ IdleCycle
  PROVE  MachineInv'
<1>1. /\ pc = "poll" /\ pc' = "poll" /\ reading' \in BOOLEAN
      /\ UNCHANGED <<loopVars, test, out, resets>>
      /\ Configuration = Layout /\ status = 0
  BY PollCycle
<1>2. PICK bus \in {NoBus, BusRead(ADDR_COMMANDS)} : Tick(bus)
  BY PollCycle
<1>3. /\ UNCHANGED <<in_ptr, w0_ptr, b0_ptr, w1_ptr, b1_ptr, work_ptr, sizes>>
      /\ status' = IF curr_state = "DONE" THEN AllOnes ELSE status
      /\ C!Step(FALSE, mac_empty, sig_empty, Layout)
      /\ IF C!RamRequest(Layout).ren \/ C!RamRequest(Layout).wen
         THEN RamStep(C!RamRequest(Layout), ReadAcc(Ctrl!reg_sel, 4))
         ELSE \E din : RamStep([ren |-> TRUE, wen |-> FALSE, four |-> FALSE,
                                addr |-> work_ptr], din)
  BY <1>1, <1>2, PollTick
<1>4. C!ControllerInv'
  BY <1>3, PollController
<1>5. NetworkStored'
  BY <1>1, <1>3, PollNetwork
<1>6. PipesOK'
  BY <1>2, <1>3, PipesStep
<1>7. LoopsOK'
  BY <1>1 DEF MachineInv, LoopsOK, loopVars, Programming
<1>8. RegistersOK'
  BY <1>1, <1>3
  DEF MachineInv, RegistersOK, Programming, WeightSaved, BiasSaved, InputSaved, loopVars
<1>9. PointerInStep'
  BY <1>1 DEF PointerInStep
<1>10. PollInStep'
  BY <1>1, <1>3, PollStates DEF MachineInv, PollInStep, AllOnes
<1>11. RamOK'
  <2>1. /\ DOMAIN ram0' = BankAddress /\ DOMAIN ram1' = BankAddress
        /\ addr_flop' \in 0 .. RamWords - 1 /\ four_flop' \in BOOLEAN
        /\ curr_state \in ReadStates => Shown'
    BY <1>3, PollRam
  <2>2. Used' => Shown'
    BY <1>1, <1>3, <2>1, PollStates DEF MachineInv, Used
  <2> QED
    BY <1>1, <2>1, <2>2 DEF RamOK, Shown
<1> QED
  BY <1>4, <1>5, <1>6, <1>7, <1>8, <1>9, <1>10, <1>11 DEF MachineInv
----------------------------------------------------------------------------
(* The cycles in which the controller is idle: the program uses the         *)
(* registers and the RAM.                                                   *)

(* What a bus cycle does to the registers while no computation ends.        *)
LEMMA CommandEffect ==
  ASSUME NEW c \in 1 .. 10, RegistersStep(BusWrite(ADDR_COMMANDS, c), FALSE)
  PROVE  /\ status' = IF c = 1 \/ c = 9 THEN 0 ELSE status
         /\ w0_ptr' = IF c = 1 THEN 0 ELSE IF c = 2 THEN work_ptr ELSE w0_ptr
         /\ b0_ptr' = IF c = 1 THEN 0 ELSE IF c = 3 THEN work_ptr ELSE b0_ptr
         /\ w1_ptr' = IF c = 1 THEN 0 ELSE IF c = 4 THEN work_ptr ELSE w1_ptr
         /\ b1_ptr' = IF c = 1 THEN 0 ELSE IF c = 5 THEN work_ptr ELSE b1_ptr
         /\ in_ptr' = IF c = 1 THEN 0 ELSE IF c = 6 THEN work_ptr ELSE in_ptr
         /\ sizes' = IF c = 1 THEN NoSizes ELSE sizes
         /\ c = 1 => work_ptr' = 0
         /\ c = 7 => work_ptr' = in_ptr
         /\ c = 8 => work_ptr' = NextGroup(work_ptr)
         /\ c = 10 => work_ptr' = Pointer(work_ptr + 1)
         /\ c \notin {1, 7, 8, 10} => work_ptr' = work_ptr
<1> DEFINE bus == BusWrite(ADDR_COMMANDS, c)
<1>1. /\ bus.write = TRUE /\ bus.address = 0 /\ bus.writedata = c
  BY DEF BusWrite, ADDR_COMMANDS
<1>2. /\ \A x : Commands(bus, x) <=> c = x
      /\ ~WritesData(bus)
  BY <1>1 DEF Commands, IsCommand, WritesData
<1>3. RegistersStep(bus, FALSE)
  OBVIOUS
<1> HIDE DEF bus
<1>4. /\ w0_ptr' = IF c = 1 THEN 0 ELSE IF c = 2 THEN work_ptr ELSE w0_ptr
      /\ b0_ptr' = IF c = 1 THEN 0 ELSE IF c = 3 THEN work_ptr ELSE b0_ptr
      /\ w1_ptr' = IF c = 1 THEN 0 ELSE IF c = 4 THEN work_ptr ELSE w1_ptr
      /\ b1_ptr' = IF c = 1 THEN 0 ELSE IF c = 5 THEN work_ptr ELSE b1_ptr
      /\ in_ptr' = IF c = 1 THEN 0 ELSE IF c = 6 THEN work_ptr ELSE in_ptr
  BY <1>2, <1>3
  DEF RegistersStep, Loaded, CLEAR, START_W0, START_B0, START_W1, START_B1,
      SAVE_IN_ADDR
<1>5. status' = IF c = 1 \/ c = 9 THEN 0 ELSE status
  BY <1>2, <1>3 DEF RegistersStep, StatusAfter, CLEAR, START_COMPUTE
<1>6. sizes' = IF c = 1 THEN NoSizes ELSE sizes
  BY <1>1, <1>2, <1>3 DEF RegistersStep, SizesAfter, CLEAR
<1>7. /\ c = 1 => work_ptr' = 0
      /\ c = 7 => work_ptr' = in_ptr
      /\ c = 8 => work_ptr' = NextGroup(work_ptr)
      /\ c = 10 => work_ptr' = Pointer(work_ptr + 1)
      /\ c \notin {1, 7, 8, 10} => work_ptr' = work_ptr
  BY <1>2, <1>3
  DEF RegistersStep, WorkPtrAfter, CLEAR, START_RD_OUT, ADVN_PTR_4WD, ADVN_PTR_1WD
<1> QED
  BY <1>4, <1>5, <1>6, <1>7

LEMMA StoreEffect ==
  ASSUME NEW word, RegistersStep(BusWrite(ADDR_DATA, word), FALSE)
  PROVE  /\ UNCHANGED <<status, w0_ptr, b0_ptr, w1_ptr, b1_ptr, in_ptr, sizes>>
         /\ work_ptr' = Pointer(work_ptr + 1)
<1> DEFINE bus == BusWrite(ADDR_DATA, word)
<1>1. bus.write = TRUE /\ bus.address = 1
  BY DEF BusWrite, ADDR_DATA
<1>2. WritesData(bus) /\ \A x : ~Commands(bus, x)
  BY <1>1 DEF Commands, IsCommand, WritesData
<1>3. RegistersStep(bus, FALSE)
  OBVIOUS
<1> HIDE DEF bus
<1> QED
  BY <1>1, <1>2, <1>3
  DEF RegistersStep, Loaded, StatusAfter, SizesAfter, WorkPtrAfter

LEMMA SizesEffect ==
  ASSUME NEW word, RegistersStep(BusWrite(ADDR_LAYER_SIZE, word), FALSE)
  PROVE  /\ UNCHANGED <<status, w0_ptr, b0_ptr, w1_ptr, b1_ptr, in_ptr, work_ptr>>
         /\ sizes' = word
<1> DEFINE bus == BusWrite(ADDR_LAYER_SIZE, word)
<1>1. bus.write = TRUE /\ bus.address = 7 /\ bus.writedata = word
  BY DEF BusWrite, ADDR_LAYER_SIZE
<1>2. ~WritesData(bus) /\ \A x : ~Commands(bus, x)
  BY <1>1 DEF Commands, IsCommand, WritesData
<1>3. RegistersStep(bus, FALSE)
  OBVIOUS
<1> HIDE DEF bus
<1> QED
  BY <1>1, <1>2, <1>3
  DEF RegistersStep, Loaded, StatusAfter, SizesAfter, WorkPtrAfter

LEMMA NoEffect ==
  ASSUME NEW bus, bus.write = FALSE, RegistersStep(bus, FALSE)
  PROVE  UNCHANGED registerVars
<1>1. ~WritesData(bus) /\ \A x : ~Commands(bus, x)
  BY DEF Commands, IsCommand, WritesData
<1> QED
  BY <1>1
  DEF RegistersStep, Loaded, StatusAfter, SizesAfter, WorkPtrAfter, registerVars

(* What a bus cycle does to the RAM.                                        *)
LEMMA SlaveWrites ==
  ASSUME MachineInv, NEW word,
         RamStep(SlaveRequest(BusWrite(ADDR_DATA, word)),
                 SlaveData(BusWrite(ADDR_DATA, word)))
  PROVE  /\ \A a \in 0 .. RamWords - 1 :
              RamWord(a)' = IF a = work_ptr THEN word ELSE RamWord(a)
         /\ DOMAIN ram0' = BankAddress /\ DOMAIN ram1' = BankAddress
         /\ addr_flop' = work_ptr /\ four_flop' = FALSE
<1> DEFINE bus == BusWrite(ADDR_DATA, word)
<1>1. bus.write = TRUE /\ bus.address = 1 /\ bus.writedata = word
  BY DEF BusWrite, ADDR_DATA
<1>2. WritesData(bus) = TRUE /\ (~WritesData(bus)) = FALSE
  BY <1>1 DEF WritesData
<1>3. RamStep(SlaveRequest(bus), SlaveData(bus))
  OBVIOUS
<1> HIDE DEF bus
<1>4. SlaveRequest(bus) = [ren |-> FALSE, wen |-> TRUE, four |-> FALSE, addr |-> work_ptr]
  BY <1>2, Zenon DEF SlaveRequest
<1>5. SlaveData(bus)[1] = word
  BY <1>1, <1>2 DEF SlaveData
<1>6. work_ptr \in 0 .. RamWords - 1 /\ DOMAIN ram0 = BankAddress /\ DOMAIN ram1 = BankAddress
  BY DEF MachineInv, RegistersOK, RamOK
<1> QED
  BY <1>3, <1>4, <1>5, <1>6, WriteOne

LEMMA SlaveReads ==
  ASSUME MachineInv, NEW bus, ~WritesData(bus),
         RamStep(SlaveRequest(bus), SlaveData(bus))
  PROVE  /\ ram0' = ram0 /\ ram1' = ram1
         /\ dout[1]' = RamWord(work_ptr)
         /\ addr_flop' = work_ptr /\ four_flop' = FALSE
<1>1. WritesData(bus) = FALSE /\ (~WritesData(bus)) = TRUE
  BY DEF WritesData
<1>2. SlaveRequest(bus) = [ren |-> TRUE, wen |-> FALSE, four |-> FALSE, addr |-> work_ptr]
  BY <1>1, Zenon DEF SlaveRequest
<1>3. work_ptr \in 0 .. RamWords - 1
  BY DEF MachineInv, RegistersOK
<1> QED
  BY <1>2, <1>3, ReadOne

(* The accelerator in such a cycle: the pipes stay empty, the RAM and the   *)
(* registers serve the bus, and the controller starts when it is told to.   *)
LEMMA IdleTick ==
  ASSUME MachineInv, curr_state = "IDLE", NEW bus, Tick(bus)
  PROVE  /\ RegistersStep(bus, FALSE)
         /\ RamStep(SlaveRequest(bus), SlaveData(bus))
         /\ C!Idle(start_flg(bus))
         /\ curr_state' = IF start_flg(bus) THEN "CALC_LAYER_PREP" ELSE "IDLE"
         /\ C!ControllerInv' /\ PipesOK'
<1>1. RegistersStep(bus, FALSE)
  <2>1. Ctrl!done_flg = FALSE
    BY DEF Ctrl!done_flg
  <2> QED
    BY <2>1 DEF Tick
<1>2. RamStep(SlaveRequest(bus), SlaveData(bus))
  <2>1. ~FfcOwnsRam
    BY DEF FfcOwnsRam, FfcRequest, Ctrl!RamRequest, Ctrl!NoRequest
  <2> QED
    BY <2>1 DEF Tick, RamRequest, RamData
<1>3. C!Idle(start_flg(bus))
  BY DEF Tick, Ctrl!Step, Ctrl!Idle, C!Idle, Ctrl!CalcLayerPrep,
        Ctrl!LoadAct, Ctrl!MacIssue, Ctrl!MacWait,
        Ctrl!BiasPrep, Ctrl!BiasIssue, Ctrl!BiasWait, Ctrl!SigmoidPrep,
        Ctrl!SigmoidIssue, Ctrl!SigmoidWait, Ctrl!StorePrep,
        Ctrl!StoreOutput, Ctrl!LayerDone, Ctrl!Done, Ctrl!pointers, C!pointers
<1>4. curr_state' = IF start_flg(bus) THEN "CALC_LAYER_PREP" ELSE "IDLE"
  BY <1>3 DEF C!Idle
<1>5. addr_flop' \in 0 .. RamWords - 1 /\ four_flop' = FALSE
  <2>1. SlaveRequest(bus).addr = work_ptr /\ SlaveRequest(bus).four = FALSE
    BY DEF SlaveRequest
  <2>2. work_ptr \in 0 .. RamWords - 1
    BY DEF MachineInv, RegistersOK
  <2> QED
    BY <1>2, <2>1, <2>2, Routing
<1>6. C!ControllerInv'
  <2>1. Fetched' \in [ren : BOOLEAN, wen : BOOLEAN, four : BOOLEAN, addr : C!Address]
    BY <1>5 DEF Fetched, C!Address
  <2>2. start_flg(bus) \in BOOLEAN
    BY DEF start_flg, Commands
  <2>3. C!ControllerInv
    BY DEF MachineInv
  <2> QED
    BY <1>3, <2>1, <2>2, <2>3, LayoutProgrammed, C!IdleInv
<1>7. PipesOK'
  <2>1. /\ \A s \in 1 .. MulLatency : mul_pipe[s] = Bubble
        /\ \A s \in 1 .. AddLatency : add_pipe[s] = Bubble
        /\ \A s \in 1 .. SigLatency : sig_pipe[s] = SigBubble
    BY DEF MachineInv, PipesOK, MulStates, AddStates, SigStates
  <2>2. FromMultiplier = Bubble
    BY <2>1, MacLatencyAssumption, NothingLeaves
  <2>3. /\ mul_pipe'[1] = Bubble /\ add_pipe'[1] = Bubble /\ sig_pipe'[1] = SigBubble
    BY <2>2, Shifted
  <2>4. ASSUME NEW s \in 1 .. MulLatency PROVE mul_pipe'[s] = Bubble
    <3>1. s # 1 => s \in 2 .. MulLatency /\ s - 1 \in 1 .. MulLatency
      BY MacLatencyAssumption
    <3> QED
      BY <2>1, <2>3, <3>1, Shifted
  <2>5. ASSUME NEW s \in 1 .. AddLatency PROVE add_pipe'[s] = Bubble
    <3>1. s # 1 => s \in 2 .. AddLatency /\ s - 1 \in 1 .. AddLatency
      BY MacLatencyAssumption
    <3> QED
      BY <2>1, <2>3, <3>1, Shifted
  <2>6. ASSUME NEW s \in 1 .. SigLatency PROVE sig_pipe'[s] = SigBubble
    <3>1. s # 1 => s \in 2 .. SigLatency /\ s - 1 \in 1 .. SigLatency
      BY SigLatencyAssumption
    <3> QED
      BY <2>1, <2>3, <3>1, Shifted
  <2>7. /\ DOMAIN mul_pipe' = 1 .. MulLatency /\ DOMAIN add_pipe' = 1 .. AddLatency
        /\ DOMAIN sig_pipe' = 1 .. SigLatency
    BY Shifted
  <2> QED
    BY <2>4, <2>5, <2>6, <2>7, Zenon DEF PipesOK
<1> QED
  BY <1>1, <1>2, <1>3, <1>4, <1>6, <1>7
----------------------------------------------------------------------------
(* One step of the program at a time.                                       *)

(* The part of the invariant that an access must establish for itself: the  *)
(* program, the registers and its pointer; what it has stored is there      *)
(* already, and the RAM shows the working pointer's word when it is read.   *)
LEMMA QuietInv ==
  ASSUME MachineInv, curr_state = "IDLE", NEW bus, Tick(bus),
         ~WritesData(bus), ~start_flg(bus),
         LoopsOK', RegistersOK', PointerInStep',
         pc' = "poll" => status' = AllOnes,
         pc' = "data" /\ reading' => work_ptr' = work_ptr,
         \A l \in 1 .. 2 : \A n \in 0 .. Net!Size(l) - 1 :
           /\ BiasStored(l, n)' => BiasStored(l, n)
           /\ \A m \in 0 .. Net!Size(l - 1) - 1 :
                WeightStored(l, n, m)' => WeightStored(l, n, m)
  PROVE  MachineInv' /\ curr_state' = "IDLE"
<1>1. /\ RamStep(SlaveRequest(bus), SlaveData(bus))
      /\ curr_state' = "IDLE"
      /\ C!ControllerInv' /\ PipesOK'
  BY IdleTick
<1>2. /\ ram0' = ram0 /\ ram1' = ram1
      /\ dout[1]' = RamWord(work_ptr)
      /\ addr_flop' = work_ptr /\ four_flop' = FALSE
  BY <1>1, SlaveReads
<1>3. \A a : RamWord(a)' = RamWord(a)
  BY <1>2 DEF RamWord
<1>4. NetworkStored'
  <2>1. NetworkStored
    BY DEF MachineInv
  <2>2. ASSUME NEW l \in 1 .. 2, NEW n \in 0 .. Net!Size(l) - 1
        PROVE  /\ BiasStored(l, n)' => RamWord(BiasStart(l) + n)' = Bias(l, n)
               /\ \A m \in 0 .. Net!Size(l - 1) - 1 :
                    WeightStored(l, n, m)' =>
                      RamWord(WeightStart(l) + m * RowWords(l) + n)' = Weight(l, n, m)
    BY <1>3, <2>1 DEF NetworkStored
  <2> QED
    BY <2>2, Zenon DEF NetworkStored
<1>5. RamOK'
  <2>1. /\ DOMAIN ram0 = BankAddress /\ DOMAIN ram1 = BankAddress
        /\ work_ptr \in 0 .. RamWords - 1
    BY DEF MachineInv, RamOK, RegistersOK
  <2> QED
    BY <1>1, <1>2, <1>3, <2>1 DEF RamOK, Used
<1>6. PollInStep'
  BY <1>1 DEF PollInStep
<1> QED
  BY <1>1, <1>4, <1>5, <1>6 DEF MachineInv

(* A store puts one more word in place, above all that is stored already.   *)
LEMMA StoreInv ==
  ASSUME MachineInv, curr_state = "IDLE", NEW word, Tick(BusWrite(ADDR_DATA, word)),
         LoopsOK', RegistersOK', PointerInStep', ~reading', pc' # "poll",
         \A l \in 1 .. 2 : \A n \in 0 .. Net!Size(l) - 1 :
           /\ BiasStored(l, n)' =>
                \/ BiasStored(l, n) /\ BiasStart(l) + n # work_ptr
                \/ BiasStart(l) + n = work_ptr /\ word = Bias(l, n)
           /\ \A m \in 0 .. Net!Size(l - 1) - 1 :
                WeightStored(l, n, m)' =>
                  LET a == WeightStart(l) + m * RowWords(l) + n IN
                  \/ WeightStored(l, n, m) /\ a # work_ptr
                  \/ a = work_ptr /\ word = Weight(l, n, m)
  PROVE  MachineInv' /\ curr_state' = "IDLE"
<1> DEFINE bus == BusWrite(ADDR_DATA, word)
<1>1. start_flg(bus) = FALSE
  BY DEF start_flg, Commands, IsCommand, BusWrite, ADDR_DATA
<1>2. /\ RamStep(SlaveRequest(bus), SlaveData(bus))
      /\ curr_state' = "IDLE"
      /\ C!ControllerInv' /\ PipesOK'
  BY <1>1, IdleTick
<1>3. /\ \A a \in 0 .. RamWords - 1 :
              RamWord(a)' = IF a = work_ptr THEN word ELSE RamWord(a)
      /\ DOMAIN ram0' = BankAddress /\ DOMAIN ram1' = BankAddress
      /\ addr_flop' = work_ptr /\ four_flop' = FALSE
  BY <1>2, SlaveWrites
<1>4. NetworkStored'
  <2>1. NetworkStored
    BY DEF MachineInv
  <2>2. ASSUME NEW l \in 1 .. 2, NEW n \in 0 .. Net!Size(l) - 1
        PROVE  BiasStored(l, n)' => RamWord(BiasStart(l) + n)' = Bias(l, n)
    <3>1. BiasStart(l) + n \in 0 .. RamWords - 1
      BY ParametersBelow, Areas, Sizes, RamShapeAssumption
    <3>2. BiasStored(l, n) => RamWord(BiasStart(l) + n) = Bias(l, n)
      BY <2>1 DEF NetworkStored
    <3>3. RamWord(BiasStart(l) + n)' =
            IF BiasStart(l) + n = work_ptr THEN word ELSE RamWord(BiasStart(l) + n)
      BY <1>3, <3>1
    <3> QED
      BY <3>2, <3>3
  <2>3. ASSUME NEW l \in 1 .. 2, NEW n \in 0 .. Net!Size(l) - 1,
               NEW m \in 0 .. Net!Size(l - 1) - 1
        PROVE  WeightStored(l, n, m)' =>
                 RamWord(WeightStart(l) + m * RowWords(l) + n)' = Weight(l, n, m)
    <3> DEFINE a == WeightStart(l) + m * RowWords(l) + n
    <3>1. a \in 0 .. RamWords - 1
      <4>1. a \in 0 .. LayoutEnd - 1
        BY ParametersBelow
      <4> HIDE DEF a
      <4> QED
        BY <4>1, Areas, Sizes, RamShapeAssumption
    <3>2. WeightStored(l, n, m) => RamWord(a) = Weight(l, n, m)
      BY <2>1 DEF NetworkStored
    <3>3. RamWord(a)' = IF a = work_ptr THEN word ELSE RamWord(a)
      BY <1>3, <3>1
    <3>4. WeightStored(l, n, m)' =>
            \/ WeightStored(l, n, m) /\ a # work_ptr
            \/ a = work_ptr /\ word = Weight(l, n, m)
      OBVIOUS
    <3> HIDE DEF a
    <3>5. WeightStored(l, n, m)' => RamWord(a)' = Weight(l, n, m)
      BY <3>2, <3>3, <3>4
    <3> QED
      BY <3>5 DEF a
  <2> QED
    BY <2>2, <2>3, Zenon DEF NetworkStored
<1>5. RamOK'
  <2>1. work_ptr \in 0 .. RamWords - 1
    BY DEF MachineInv, RegistersOK
  <2> QED
    BY <1>2, <1>3, <2>1 DEF RamOK, Used
<1>6. PollInStep'
  BY <1>2 DEF PollInStep
<1> QED
  BY <1>2, <1>4, <1>5, <1>6 DEF MachineInv

(* Which accesses store a word, and which starts a computation.             *)
LEMMA Accesses ==
  /\ \A c : /\ ~WritesData(BusWrite(ADDR_COMMANDS, c))
            /\ start_flg(BusWrite(ADDR_COMMANDS, c)) <=> c = 9
  /\ \A w : /\ ~WritesData(BusWrite(ADDR_LAYER_SIZE, w))
            /\ ~start_flg(BusWrite(ADDR_LAYER_SIZE, w))
  /\ \A a : /\ ~WritesData(BusRead(a)) /\ ~start_flg(BusRead(a))
            /\ BusRead(a).write = FALSE
  /\ ~WritesData(NoBus) /\ ~start_flg(NoBus) /\ NoBus.write = FALSE
BY DEF WritesData, start_flg, Commands, IsCommand, BusWrite, BusRead, NoBus,
       ADDR_COMMANDS, ADDR_LAYER_SIZE, START_COMPUTE

(* A command to the registers that does not start a computation.            *)
LEMMA CommandTick ==
  ASSUME MachineInv, curr_state = "IDLE", NEW c \in 1 .. 10, c # 9,
         Tick(BusWrite(ADDR_COMMANDS, c))
  PROVE  /\ ~WritesData(BusWrite(ADDR_COMMANDS, c))
         /\ ~start_flg(BusWrite(ADDR_COMMANDS, c))
         /\ RegistersStep(BusWrite(ADDR_COMMANDS, c), FALSE)
<1>1. RegistersStep(BusWrite(ADDR_COMMANDS, c), FALSE)
  BY IdleTick
<1>2. /\ ~WritesData(BusWrite(ADDR_COMMANDS, c))
      /\ start_flg(BusWrite(ADDR_COMMANDS, c)) <=> c = 9
  BY Accesses
<1> QED
  BY <1>1, <1>2

LEMMA ClearInv ==
  ASSUME MachineInv, curr_state = "IDLE", Clear
  PROVE  MachineInv' /\ curr_state' = "IDLE"
<1> DEFINE bus == BusWrite(ADDR_COMMANDS, 1)
<1>1. /\ pc = "clear" /\ pc' = "start_weight" /\ i' = 1
      /\ UNCHANGED <<j, k, test, out, reading, resets>>
      /\ Tick(bus)
  BY DEF Clear, Command, START_PROGRAMMING
<1>2. /\ ~WritesData(bus) /\ ~start_flg(bus)
      /\ RegistersStep(bus, FALSE)
  <2>1. 1 \in 1 .. 10 /\ 1 # 9
    OBVIOUS
  <2> QED
    BY <1>1, <2>1, CommandTick
<1>3. /\ status' = 0 /\ w0_ptr' = 0 /\ b0_ptr' = 0 /\ w1_ptr' = 0 /\ b1_ptr' = 0
      /\ in_ptr' = 0 /\ work_ptr' = 0 /\ sizes' = NoSizes
  BY <1>2, CommandEffect
<1>4. LoopsOK'
  BY <1>1, Sizes DEF MachineInv, LoopsOK, Labels, Programming
<1>5. RegistersOK'
  BY <1>1, <1>3, RamShapeAssumption
  DEF MachineInv, LoopsOK, RegistersOK, Programming, WeightSaved, BiasSaved, InputSaved
<1>6. PointerInStep'
  BY <1>1, <1>3, Areas DEF PointerInStep
<1>7. \A l \in 1 .. 2 : \A n, m : ~BiasStored(l, n)' /\ ~WeightStored(l, n, m)'
  BY <1>1 DEF BiasStored, WeightStored, Programming
<1> QED
  BY <1>1, <1>2, <1>4, <1>5, <1>6, <1>7, QuietInv

LEMMA StartWeightInv ==
  ASSUME MachineInv, curr_state = "IDLE", StartWeight
  PROVE  MachineInv' /\ curr_state' = "IDLE"
<1> DEFINE c == IF i = 1 THEN 2 ELSE 4
<1> DEFINE bus == BusWrite(ADDR_COMMANDS, c)
<1>1. /\ pc = "start_weight" /\ pc' = "weight" /\ j' = 0 /\ k' = 0
      /\ UNCHANGED <<i, test, out, reading, resets>>
      /\ Tick(bus)
  BY DEF StartWeight, Command, START_WEIGHT_H, START_WEIGHT_O
<1>2. c \in 1 .. 10 /\ c # 9 /\ c # 1 /\ (i = 1 => c = 2) /\ (i # 1 => c = 4)
  OBVIOUS
<1> HIDE DEF c
<1>3. /\ ~WritesData(bus) /\ ~start_flg(bus)
      /\ RegistersStep(bus, FALSE)
  BY <1>1, <1>2, CommandTick
<1>4. /\ UNCHANGED <<status, b0_ptr, b1_ptr, in_ptr, work_ptr, sizes>>
      /\ w0_ptr' = IF i = 1 THEN work_ptr ELSE w0_ptr
      /\ w1_ptr' = IF i = 1 THEN w1_ptr ELSE work_ptr
  <2>1. RegistersStep(BusWrite(ADDR_COMMANDS, c), FALSE)
    BY <1>3
  <2> HIDE DEF bus
  <2>2. CASE i = 1
    BY <1>2, <2>1, <2>2, CommandEffect
  <2>3. CASE i # 1
    BY <1>2, <2>1, <2>3, CommandEffect
  <2> QED
    BY <2>2, <2>3
<1>5. i \in 1 .. 2 /\ work_ptr = WeightStart(i) /\ ~reading
  BY <1>1 DEF MachineInv, LoopsOK, PointerInStep
<1>6. LoopsOK'
  <2>1. 0 < Net!Size(i) /\ 0 < Net!Size(i - 1)
    BY <1>5, Sizes
  <2> QED
    BY <1>1, <2>1, Sizes DEF MachineInv, LoopsOK, Labels, Programming
<1>7. RegistersOK'
  BY <1>1, <1>5, <1>4
  DEF MachineInv, RegistersOK, Programming, WeightSaved, BiasSaved, InputSaved
<1>8. PointerInStep'
  <2>1. WeightStart(i) + 0 * RowWords(i) + 0 = WeightStart(i)
    BY <1>5, Areas, Rows
  <2> QED
    BY <1>1, <1>5, <1>4, <2>1 DEF PointerInStep
<1>9. ASSUME NEW l \in 1 .. 2, NEW n \in 0 .. Net!Size(l) - 1
      PROVE  /\ BiasStored(l, n)' => BiasStored(l, n)
             /\ \A m \in 0 .. Net!Size(l - 1) - 1 :
                  WeightStored(l, n, m)' => WeightStored(l, n, m)
  BY <1>1 DEF BiasStored, WeightStored, Programming
<1> QED
  BY <1>1, <1>3, <1>6, <1>7, <1>8, <1>9, QuietInv

(* The rows of a layer follow each other.                                   *)
LEMMA RowAfter ==
  ASSUME NEW l \in 1 .. 2, NEW m \in 0 .. Net!Size(l - 1) - 1
  PROVE  /\ m * RowWords(l) \in Nat
         /\ (m + 1) * RowWords(l) = m * RowWords(l) + RowWords(l)
         /\ WeightStart(l) + (m + 1) * RowWords(l) <= BiasStart(l)
         /\ m + 1 = Net!Size(l - 1) =>
              WeightStart(l) + (m + 1) * RowWords(l) = BiasStart(l)
<1>1. /\ RowWords(l) \in Nat /\ Net!Size(l - 1) \in Nat
  BY Rows, Sizes
<1>2. /\ m * RowWords(l) \in Nat
      /\ (m + 1) * RowWords(l) = m * RowWords(l) + RowWords(l)
      /\ m * RowWords(l) + RowWords(l) <= Net!Size(l - 1) * RowWords(l)
  BY <1>1, RowsInOrder
<1>3. /\ WeightStart(l) \in Nat
      /\ BiasStart(l) = WeightStart(l) + Net!Size(l - 1) * RowWords(l)
      /\ Net!Size(l - 1) * RowWords(l) \in Nat
  BY Areas
<1> DEFINE row == m * RowWords(l)
<1> DEFINE rows == Net!Size(l - 1) * RowWords(l)
<1> DEFINE next == (m + 1) * RowWords(l)
<1>4. row \in Nat /\ rows \in Nat /\ next = row + RowWords(l) /\ row + RowWords(l) <= rows
  BY <1>2, <1>3
<1>5. BiasStart(l) = WeightStart(l) + rows
  BY <1>3
<1>6. m + 1 = Net!Size(l - 1) => next = rows
  OBVIOUS
<1> HIDE DEF row, rows, next
<1>7. /\ WeightStart(l) + next <= BiasStart(l)
      /\ m + 1 = Net!Size(l - 1) => WeightStart(l) + next = BiasStart(l)
  BY <1>1, <1>3, <1>4, <1>5, <1>6
<1> QED
  BY <1>2, <1>7 DEF row, next

(* Where ALIGN_ADDR takes the working pointer after a row of weights, after *)
(* the biases of a layer, and at the end.                                   *)
LEMMA AlignAfterRow ==
  ASSUME NEW l \in 1 .. 2, NEW m \in 0 .. Net!Size(l - 1) - 1
  PROVE  NextGroup(WeightStart(l) + m * RowWords(l) + Net!Size(l))
           = WeightStart(l) + (m + 1) * RowWords(l)
<1>1. PICK q1 \in Nat : WeightStart(l) = 4 * q1
  BY Grouped
<1>2. PICK q2 \in Nat : m * RowWords(l) = 4 * q2
  <2>1. m \in Nat
    BY Sizes
  <2> QED
    BY <2>1, Grouped
<1>3. /\ Net!Size(l) \in 1 .. 31 /\ Net!Size(l) % 4 # 0
      /\ RowWords(l) = 4 * GroupsOf(Net!Size(l)) /\ RowWords(l) \in 4 .. 32
  BY Sizes, Rows
<1>4. WeightStart(l) + (m + 1) * RowWords(l) = 4 * (q1 + q2) + RowWords(l)
  <2>1. (m + 1) * RowWords(l) = 4 * q2 + RowWords(l)
    BY <1>2, RowAfter
  <2> DEFINE next == (m + 1) * RowWords(l)
  <2>2. next = 4 * q2 + RowWords(l)
    BY <2>1
  <2> HIDE DEF next
  <2>3. WeightStart(l) + next = 4 * (q1 + q2) + RowWords(l)
    BY <1>1, <1>3, <2>2
  <2> QED
    BY <2>3 DEF next
<1>5. 4 * (q1 + q2) + RowWords(l) < RamWords
  <2>1. WeightStart(l) + (m + 1) * RowWords(l) <= BiasStart(l)
    BY RowAfter
  <2>2. 4 * (q1 + q2) + RowWords(l) <= BiasStart(l)
    BY <1>4, <2>1
  <2>3. BiasStart(l) < RamWords
    BY <1>3, Areas, Sizes, RamShapeAssumption
  <2>4. BiasStart(l) \in Nat /\ 4 * (q1 + q2) + RowWords(l) \in Nat /\ RamWords \in Nat
    BY <1>3, Areas, RamShapeAssumption
  <2> QED
    BY <2>2, <2>3, <2>4
<1>6. q1 + q2 \in Nat
  OBVIOUS
<1>7. NextGroup(4 * (q1 + q2) + Net!Size(l)) = 4 * (q1 + q2) + RowWords(l)
  BY <1>3, <1>5, <1>6, NextGroupLemma
<1>8. WeightStart(l) + m * RowWords(l) + Net!Size(l) = 4 * (q1 + q2) + Net!Size(l)
  BY <1>1, <1>2
<1> QED
  BY <1>4, <1>7, <1>8

LEMMA AlignAfterBiases ==
  ASSUME NEW l \in 1 .. 2
  PROVE  NextGroup(BiasStart(l) + Net!Size(l)) = BiasStart(l) + RowWords(l)
<1>1. PICK q \in Nat : BiasStart(l) = 4 * q
  BY Grouped
<1>2. /\ Net!Size(l) \in 1 .. 31 /\ Net!Size(l) % 4 # 0
      /\ RowWords(l) = 4 * GroupsOf(Net!Size(l)) /\ RowWords(l) \in 4 .. 32
  BY Sizes, Rows
<1>3. 4 * q + RowWords(l) < RamWords
  BY <1>1, <1>2, Areas, Sizes, RamShapeAssumption
<1> QED
  BY <1>1, <1>2, <1>3, NextGroupLemma

LEMMA AlignAtEnd == NextGroup(LayoutEnd) = InputStart
<1>1. PICK q \in Nat : LayoutEnd = 4 * q
  BY Grouped
<1>2. (4 * q + 4) \div 4 = q + 1
  OBVIOUS
<1>3. 4 * (q + 1) = InputStart /\ InputStart \in 0 .. RamWords - 1
  BY <1>1, Areas, Sizes, RamShapeAssumption
<1> QED
  BY <1>1, <1>2, <1>3, Widths DEF NextGroup

(* The working pointer is in the memory.                                    *)
LEMMA PointersFit ==
  /\ \A n \in 0 .. InputSize : InputStart + n \in 0 .. RamWords - 1
  /\ \A n \in 0 .. 31 : /\ n <= HiddenSize => InputStart + n \in 0 .. RamWords - 1
                        /\ n <= OutputSize => InputStart + n \in 0 .. RamWords - 1
  /\ \A l \in 1 .. 2 :
       /\ BiasStart(l) \in 0 .. RamWords - 1
       /\ BiasStart(l) + RowWords(l) \in 0 .. RamWords - 1
       /\ \A n \in 0 .. Net!Size(l) : BiasStart(l) + n \in 0 .. RamWords - 1
  /\ LayoutEnd \in 0 .. RamWords - 1 /\ InputStart \in 0 .. RamWords - 1
<1>1. \A l \in 1 .. 2 : RowWords(l) \in 4 .. 32 /\ Net!Size(l) < RowWords(l)
                        /\ Net!Size(l) \in 1 .. 31
  BY Rows, Sizes
<1>2. /\ HiddenSize \in 1 .. 31 /\ OutputSize \in 1 .. 31
      /\ HiddenSize < RowWords(1) /\ OutputSize < RowWords(2)
      /\ RowWords(1) \in 4 .. 32 /\ RowWords(2) \in 4 .. 32
  BY <1>1, Sizes
<1>3. /\ \A n \in 0 .. InputSize : InputStart + n \in 0 .. RamWords - 1
      /\ LayoutEnd \in 0 .. RamWords - 1 /\ InputStart \in 0 .. RamWords - 1
      /\ \A n \in 0 .. 31 : /\ n <= HiddenSize => InputStart + n \in 0 .. RamWords - 1
                            /\ n <= OutputSize => InputStart + n \in 0 .. RamWords - 1
  BY <1>2, Areas, Sizes, RamShapeAssumption
<1>4. ASSUME NEW l \in 1 .. 2
      PROVE  /\ BiasStart(l) \in 0 .. RamWords - 1
             /\ BiasStart(l) + RowWords(l) \in 0 .. RamWords - 1
             /\ \A n \in 0 .. Net!Size(l) : BiasStart(l) + n \in 0 .. RamWords - 1
  BY <1>1, <1>3, Areas, RamShapeAssumption
<1> QED
  BY <1>3, <1>4

LEMMA AlignRowInv ==
  ASSUME MachineInv, curr_state = "IDLE", AlignRow
  PROVE  MachineInv' /\ curr_state' = "IDLE"
<1> DEFINE bus == BusWrite(ADDR_COMMANDS, 8)
<1>1. /\ pc = "align_row"
      /\ pc' = IF j + 1 < Net!Size(i - 1) THEN "weight" ELSE "start_bias"
      /\ j' = j + 1 /\ k' = 0
      /\ UNCHANGED <<i, test, out, reading, resets>>
      /\ Tick(bus)
  BY DEF AlignRow, Loop, ALIGN_ADDR
<1>2. /\ ~WritesData(bus) /\ ~start_flg(bus)
      /\ RegistersStep(bus, FALSE)
  <2>1. 8 \in 1 .. 10 /\ 8 # 9
    OBVIOUS
  <2> QED
    BY <1>1, <2>1, CommandTick
<1>3. /\ UNCHANGED <<status, w0_ptr, b0_ptr, w1_ptr, b1_ptr, in_ptr, sizes>>
      /\ work_ptr' = NextGroup(work_ptr)
  BY <1>2, CommandEffect
<1>4. /\ i \in 1 .. 2 /\ ~reading /\ j \in 0 .. Net!Size(i - 1) - 1
      /\ k = Net!Size(i)
      /\ work_ptr = WeightStart(i) + j * RowWords(i) + k
      /\ Net!Size(i) \in 1 .. 31
      /\ Net!Size(i - 1) \in Nat \ {0} /\ Net!Size(i - 1) <= 31 + InputSize
      /\ j + 1 \in 0 .. 31 + InputSize
  <2>1. /\ i \in 1 .. 2 /\ ~reading /\ j \in 0 .. 31 + InputSize
        /\ j < Net!Size(i - 1) /\ k = Net!Size(i)
        /\ work_ptr = WeightStart(i) + j * RowWords(i) + k
    BY <1>1 DEF MachineInv, LoopsOK, PointerInStep
  <2>2. Net!Size(i) \in 1 .. 31 /\ Net!Size(i - 1) \in Nat \ {0}
    BY <2>1, Sizes
  <2>3. Net!Size(i - 1) <= 31 + InputSize
    <3>1. Net!Size(1 - 1) = InputSize /\ Net!Size(2 - 1) = HiddenSize
      BY Sizes
    <3>2. i = 1 \/ i = 2
      BY <2>1
    <3> QED
      BY <3>1, <3>2, Sizes
  <2> QED
    BY <2>1, <2>2, <2>3, Sizes
<1>5. /\ work_ptr' = WeightStart(i) + (j + 1) * RowWords(i)
      /\ j + 1 = Net!Size(i - 1) => work_ptr' = BiasStart(i)
  BY <1>3, <1>4, AlignAfterRow, RowAfter
<1>6. work_ptr' \in 0 .. RamWords - 1 /\ work_ptr' + 0 = work_ptr'
  <2>1. /\ WeightStart(i) \in Nat /\ RowWords(i) \in 4 .. 32
        /\ BiasStart(i) \in 0 .. RamWords - 1
    BY <1>4, Areas, Rows, PointersFit
  <2> DEFINE next == (j + 1) * RowWords(i)
  <2>2. next \in Nat /\ WeightStart(i) + next <= BiasStart(i)
    BY <1>4, <2>1, RowAfter
  <2>3. work_ptr' = WeightStart(i) + next
    BY <1>5
  <2> HIDE DEF next
  <2>4. WeightStart(i) + next \in 0 .. RamWords - 1
    BY <2>1, <2>2, RamShapeAssumption
  <2> QED
    BY <2>3, <2>4, RamShapeAssumption
<1>7. LoopsOK'
  <2>1. 0 < Net!Size(i) /\ 0 \in 0 .. 31
    BY <1>4
  <2> QED
    BY <1>1, <1>4, <2>1 DEF MachineInv, LoopsOK, Labels, Programming
<1>8. RegistersOK'
  BY <1>1, <1>3, <1>6
  DEF MachineInv, RegistersOK, Programming, WeightSaved, BiasSaved, InputSaved
<1>9. PointerInStep'
  <2>1. j + 1 < Net!Size(i - 1) \/ j + 1 = Net!Size(i - 1)
    BY <1>4
  <2> QED
    BY <1>1, <1>5, <1>6, <2>1 DEF PointerInStep
<1>10. ASSUME NEW l \in 1 .. 2, NEW n \in 0 .. Net!Size(l) - 1
       PROVE  /\ BiasStored(l, n)' => BiasStored(l, n)
              /\ \A m \in 0 .. Net!Size(l - 1) - 1 :
                   WeightStored(l, n, m)' => WeightStored(l, n, m)
  <2>1. BiasStored(l, n)' => BiasStored(l, n)
    BY <1>1 DEF BiasStored, Programming
  <2>2. ASSUME NEW m \in 0 .. Net!Size(l - 1) - 1, WeightStored(l, n, m)'
        PROVE  WeightStored(l, n, m)
    <3>1. l < i \/ (l = i /\ (m < j + 1 \/ j + 1 = Net!Size(i - 1)))
      BY <1>1, <1>4, <2>2, Sizes DEF WeightStored, Programming
    <3> QED
      BY <1>1, <1>4, <3>1, Sizes DEF WeightStored
  <2> QED
    BY <2>1, <2>2
<1> QED
  BY <1>1, <1>2, <1>4, <1>7, <1>8, <1>9, <1>10, QuietInv

LEMMA StartBiasInv ==
  ASSUME MachineInv, curr_state = "IDLE", StartBias
  PROVE  MachineInv' /\ curr_state' = "IDLE"
<1> DEFINE c == IF i = 1 THEN 3 ELSE 5
<1> DEFINE bus == BusWrite(ADDR_COMMANDS, c)
<1>1. /\ pc = "start_bias" /\ pc' = "bias" /\ j' = 0
      /\ UNCHANGED <<i, k, test, out, reading, resets>>
      /\ Tick(bus)
  BY DEF StartBias, Command, START_BIAS_H, START_BIAS_O
<1>2. c \in 1 .. 10 /\ c # 9 /\ c # 1 /\ (i = 1 => c = 3) /\ (i # 1 => c = 5)
  OBVIOUS
<1> HIDE DEF c
<1>3. /\ ~WritesData(bus) /\ ~start_flg(bus)
      /\ RegistersStep(bus, FALSE)
  BY <1>1, <1>2, CommandTick
<1>4. /\ UNCHANGED <<status, w0_ptr, w1_ptr, in_ptr, work_ptr, sizes>>
      /\ b0_ptr' = IF i = 1 THEN work_ptr ELSE b0_ptr
      /\ b1_ptr' = IF i = 1 THEN b1_ptr ELSE work_ptr
  <2>1. RegistersStep(BusWrite(ADDR_COMMANDS, c), FALSE)
    BY <1>3
  <2> HIDE DEF bus
  <2>2. CASE i = 1
    BY <1>2, <2>1, <2>2, CommandEffect
  <2>3. CASE i # 1
    BY <1>2, <2>1, <2>3, CommandEffect
  <2> QED
    BY <2>2, <2>3
<1>5. i \in 1 .. 2 /\ work_ptr = BiasStart(i) /\ ~reading
  BY <1>1 DEF MachineInv, LoopsOK, PointerInStep
<1>6. LoopsOK'
  <2>1. 0 < Net!Size(i)
    BY <1>5, Sizes
  <2> QED
    BY <1>1, <2>1, Sizes DEF MachineInv, LoopsOK, Labels, Programming
<1>7. RegistersOK'
  BY <1>1, <1>4, <1>5
  DEF MachineInv, RegistersOK, Programming, WeightSaved, BiasSaved, InputSaved
<1>8. PointerInStep'
  <2>1. BiasStart(i) + 0 = BiasStart(i)
    BY <1>5, Areas
  <2> QED
    BY <1>1, <1>4, <1>5, <2>1 DEF PointerInStep
<1>9. ASSUME NEW l \in 1 .. 2, NEW n \in 0 .. Net!Size(l) - 1
      PROVE  /\ BiasStored(l, n)' => BiasStored(l, n)
             /\ \A m \in 0 .. Net!Size(l - 1) - 1 :
                  WeightStored(l, n, m)' => WeightStored(l, n, m)
  BY <1>1 DEF BiasStored, WeightStored, Programming
<1> QED
  BY <1>1, <1>3, <1>6, <1>7, <1>8, <1>9, QuietInv

LEMMA AlignBiasInv ==
  ASSUME MachineInv, curr_state = "IDLE", AlignBias
  PROVE  MachineInv' /\ curr_state' = "IDLE"
<1> DEFINE bus == BusWrite(ADDR_COMMANDS, 8)
<1>1. /\ pc = "align_bias"
      /\ pc' = IF i + 1 < 3 THEN "start_weight" ELSE "align_end"
      /\ i' = i + 1
      /\ UNCHANGED <<j, k, test, out, reading, resets>>
      /\ Tick(bus)
  BY DEF AlignBias, Loop, ALIGN_ADDR
<1>2. /\ ~WritesData(bus) /\ ~start_flg(bus)
      /\ RegistersStep(bus, FALSE)
  <2>1. 8 \in 1 .. 10 /\ 8 # 9
    OBVIOUS
  <2> QED
    BY <1>1, <2>1, CommandTick
<1>3. /\ UNCHANGED <<status, w0_ptr, b0_ptr, w1_ptr, b1_ptr, in_ptr, sizes>>
      /\ work_ptr' = NextGroup(work_ptr)
  BY <1>2, CommandEffect
<1>4. /\ i \in 1 .. 2 /\ ~reading /\ j = Net!Size(i)
      /\ work_ptr = BiasStart(i) + Net!Size(i)
  BY <1>1 DEF MachineInv, LoopsOK, PointerInStep
<1>5. work_ptr' = BiasStart(i) + RowWords(i) /\ work_ptr' \in 0 .. RamWords - 1
  BY <1>3, <1>4, AlignAfterBiases, PointersFit
<1>6. /\ i = 1 => work_ptr' = WeightStart(2)
      /\ i = 2 => work_ptr' = LayoutEnd
  BY <1>5, Areas
<1>7. LoopsOK'
  BY <1>1, <1>4, Sizes DEF MachineInv, LoopsOK, Labels, Programming
<1>8. RegistersOK'
  BY <1>1, <1>3, <1>4, <1>5
  DEF MachineInv, RegistersOK, Programming, WeightSaved, BiasSaved, InputSaved
<1>9. PointerInStep'
  BY <1>1, <1>4, <1>6 DEF PointerInStep
<1>10. ASSUME NEW l \in 1 .. 2, NEW n \in 0 .. Net!Size(l) - 1
       PROVE  /\ BiasStored(l, n)' => BiasStored(l, n)
              /\ \A m \in 0 .. Net!Size(l - 1) - 1 :
                   WeightStored(l, n, m)' => WeightStored(l, n, m)
  <2>1. n < Net!Size(l) /\ n \in Nat
    BY Sizes
  <2> QED
    BY <1>1, <1>4, <2>1 DEF BiasStored, WeightStored, Programming
<1> QED
  BY <1>1, <1>2, <1>4, <1>7, <1>8, <1>9, <1>10, QuietInv

LEMMA AlignEndInv ==
  ASSUME MachineInv, curr_state = "IDLE", AlignEnd
  PROVE  MachineInv' /\ curr_state' = "IDLE"
<1> DEFINE bus == BusWrite(ADDR_COMMANDS, 8)
<1>1. /\ pc = "align_end" /\ pc' = "layer_size"
      /\ UNCHANGED <<i, j, k, test, out, reading, resets>>
      /\ Tick(bus)
  BY DEF AlignEnd, Command, ALIGN_ADDR, loopVars
<1>2. /\ ~WritesData(bus) /\ ~start_flg(bus)
      /\ RegistersStep(bus, FALSE)
  <2>1. 8 \in 1 .. 10 /\ 8 # 9
    OBVIOUS
  <2> QED
    BY <1>1, <2>1, CommandTick
<1>3. /\ UNCHANGED <<status, w0_ptr, b0_ptr, w1_ptr, b1_ptr, in_ptr, sizes>>
      /\ work_ptr' = NextGroup(work_ptr)
  BY <1>2, CommandEffect
<1>4. i = 3 /\ ~reading /\ work_ptr = LayoutEnd
  BY <1>1 DEF MachineInv, LoopsOK, PointerInStep
<1>5. work_ptr' = InputStart /\ InputStart \in 0 .. RamWords - 1
  BY <1>3, <1>4, AlignAtEnd, PointersFit
<1>6. LoopsOK'
  BY <1>1 DEF MachineInv, LoopsOK, Labels, Programming
<1>7. RegistersOK'
  BY <1>1, <1>3, <1>4, <1>5
  DEF MachineInv, RegistersOK, Programming, WeightSaved, BiasSaved, InputSaved
<1>8. PointerInStep'
  BY <1>1, <1>5 DEF PointerInStep
<1>9. ASSUME NEW l \in 1 .. 2, NEW n \in 0 .. Net!Size(l) - 1
      PROVE  /\ BiasStored(l, n)' => BiasStored(l, n)
             /\ \A m \in 0 .. Net!Size(l - 1) - 1 :
                  WeightStored(l, n, m)' => WeightStored(l, n, m)
  BY <1>1 DEF BiasStored, WeightStored, Programming
<1> QED
  BY <1>1, <1>2, <1>6, <1>7, <1>8, <1>9, QuietInv

LEMMA ProgramSizesInv ==
  ASSUME MachineInv, curr_state = "IDLE", ProgramSizes
  PROVE  MachineInv' /\ curr_state' = "IDLE"
<1> DEFINE word == [hidden |-> HiddenSize, output |-> OutputSize]
<1> DEFINE bus == BusWrite(ADDR_LAYER_SIZE, word)
<1>1. /\ pc = "layer_size" /\ pc' = "start_input"
      /\ UNCHANGED <<i, j, k, test, out, reading, resets>>
      /\ Tick(bus)
  BY DEF ProgramSizes, loopVars
<1>2. /\ ~WritesData(bus) /\ ~start_flg(bus)
      /\ RegistersStep(bus, FALSE)
  BY <1>1, IdleTick, Accesses
<1>3. /\ UNCHANGED <<status, w0_ptr, b0_ptr, w1_ptr, b1_ptr, in_ptr, work_ptr>>
      /\ sizes' = word
  BY <1>2, SizesEffect
<1>4. /\ i = 3 /\ ~reading /\ work_ptr = InputStart /\ test = 0
  BY <1>1 DEF MachineInv, LoopsOK, PointerInStep, Programming
<1>5. LoopsOK'
  BY <1>1 DEF MachineInv, LoopsOK, Labels, Programming
<1>6. RegistersOK'
  BY <1>1, <1>3, <1>4
  DEF MachineInv, RegistersOK, Programming, WeightSaved, BiasSaved, InputSaved
<1>7. PointerInStep'
  BY <1>1, <1>3, <1>4 DEF PointerInStep
<1>8. ASSUME NEW l \in 1 .. 2, NEW n \in 0 .. Net!Size(l) - 1
      PROVE  /\ BiasStored(l, n)' => BiasStored(l, n)
             /\ \A m \in 0 .. Net!Size(l - 1) - 1 :
                  WeightStored(l, n, m)' => WeightStored(l, n, m)
  BY <1>4 DEF BiasStored, WeightStored
<1> QED
  BY <1>1, <1>2, <1>5, <1>6, <1>7, <1>8, QuietInv

LEMMA StartInputInv ==
  ASSUME MachineInv, curr_state = "IDLE", StartInput
  PROVE  MachineInv' /\ curr_state' = "IDLE"
<1> DEFINE bus == BusWrite(ADDR_COMMANDS, 6)
<1>1. /\ pc = "start_input" /\ pc' = "input" /\ i' = 0
      /\ UNCHANGED <<j, k, test, out, reading, resets>>
      /\ Tick(bus)
  BY DEF StartInput, Command, START_INPUT
<1>2. /\ ~WritesData(bus) /\ ~start_flg(bus)
      /\ RegistersStep(bus, FALSE)
  <2>1. 6 \in 1 .. 10 /\ 6 # 9
    OBVIOUS
  <2> QED
    BY <1>1, <2>1, CommandTick
<1>3. /\ UNCHANGED <<status, w0_ptr, b0_ptr, w1_ptr, b1_ptr, work_ptr, sizes>>
      /\ in_ptr' = work_ptr
  BY <1>2, CommandEffect
<1>4. ~reading /\ work_ptr = InputStart /\ InputStart \in 0 .. RamWords - 1
  BY <1>1, PointersFit DEF MachineInv, LoopsOK, PointerInStep
<1>5. LoopsOK'
  BY <1>1, Sizes DEF MachineInv, LoopsOK, Labels, Programming
<1>6. RegistersOK'
  BY <1>1, <1>3, <1>4
  DEF MachineInv, RegistersOK, Programming, WeightSaved, BiasSaved, InputSaved
<1>7. PointerInStep'
  <2>1. InputStart + 0 = InputStart
    BY <1>4
  <2> QED
    BY <1>1, <1>3, <1>4, <2>1 DEF PointerInStep
<1>8. ASSUME NEW l \in 1 .. 2, NEW n \in 0 .. Net!Size(l) - 1
      PROVE  /\ BiasStored(l, n)' => BiasStored(l, n)
             /\ \A m \in 0 .. Net!Size(l - 1) - 1 :
                  WeightStored(l, n, m)' => WeightStored(l, n, m)
  BY <1>1 DEF BiasStored, WeightStored, Programming
<1> QED
  BY <1>1, <1>2, <1>5, <1>6, <1>7, <1>8, QuietInv

(* The controller is idle, so the status says that it has done its work.    *)
LEMMA BeginPollInv ==
  ASSUME MachineInv, curr_state = "IDLE", BeginPoll
  PROVE  MachineInv' /\ curr_state' = "IDLE"
<1> DEFINE bus == BusRead(ADDR_COMMANDS)
<1>1. /\ pc = "poll" /\ pc' = "poll" /\ reading' = TRUE
      /\ UNCHANGED <<i, j, k, test, out, resets>>
      /\ Tick(bus)
  BY DEF BeginPoll, BeginRead, loopVars
<1>2. /\ ~WritesData(bus) /\ ~start_flg(bus) /\ bus.write = FALSE
      /\ RegistersStep(bus, FALSE)
  BY <1>1, IdleTick, Accesses
<1>3. UNCHANGED registerVars
  BY <1>2, NoEffect
<1>4. status = AllOnes
  BY <1>1 DEF MachineInv, PollInStep
<1>5. LoopsOK'
  BY <1>1 DEF MachineInv, LoopsOK, Labels, Programming
<1>6. RegistersOK'
  BY <1>1, <1>3
  DEF MachineInv, RegistersOK, Programming, WeightSaved, BiasSaved, InputSaved, registerVars
<1>7. PointerInStep'
  BY <1>1 DEF PointerInStep
<1>8. ASSUME NEW l \in 1 .. 2, NEW n \in 0 .. Net!Size(l) - 1
      PROVE  /\ BiasStored(l, n)' => BiasStored(l, n)
             /\ \A m \in 0 .. Net!Size(l - 1) - 1 :
                  WeightStored(l, n, m)' => WeightStored(l, n, m)
  BY <1>1 DEF BiasStored, WeightStored, Programming
<1> QED
  BY <1>1, <1>2, <1>3, <1>4, <1>5, <1>6, <1>7, <1>8, QuietInv DEF registerVars

LEMMA EndPollInv ==
  ASSUME MachineInv, curr_state = "IDLE", EndPoll
  PROVE  MachineInv' /\ curr_state' = "IDLE" /\ pc' = "read_output"
<1> DEFINE bus == BusRead(ADDR_COMMANDS)
<1>1. /\ pc = "poll" /\ reading' = FALSE
      /\ pc' = IF Received(ADDR_COMMANDS) = PROCESSING_PENDING
               THEN "poll" ELSE "read_output"
      /\ UNCHANGED <<i, j, k, test, out, resets>>
      /\ Tick(bus)
  BY DEF EndPoll, EndRead, loopVars
<1>2. /\ ~WritesData(bus) /\ ~start_flg(bus) /\ bus.write = FALSE
      /\ RegistersStep(bus, FALSE)
  BY <1>1, IdleTick, Accesses
<1>3. UNCHANGED registerVars
  BY <1>2, NoEffect
<1>4. pc' = "read_output"
  <2>1. status = AllOnes
    BY <1>1 DEF MachineInv, PollInStep
  <2>2. Received(ADDR_COMMANDS) = status
    BY DEF Received, ReadData, ADDR_COMMANDS
  <2> QED
    BY <1>1, <2>1, <2>2 DEF AllOnes, PROCESSING_PENDING
<1>5. LoopsOK'
  BY <1>1, <1>4 DEF MachineInv, LoopsOK, Labels, Programming
<1>6. RegistersOK'
  BY <1>1, <1>3, <1>4
  DEF MachineInv, RegistersOK, Programming, WeightSaved, BiasSaved, InputSaved, registerVars
<1>7. PointerInStep'
  BY <1>4 DEF PointerInStep
<1>8. ASSUME NEW l \in 1 .. 2, NEW n \in 0 .. Net!Size(l) - 1
      PROVE  /\ BiasStored(l, n)' => BiasStored(l, n)
             /\ \A m \in 0 .. Net!Size(l - 1) - 1 :
                  WeightStored(l, n, m)' => WeightStored(l, n, m)
  BY <1>1 DEF BiasStored, WeightStored, Programming
<1> QED
  BY <1>1, <1>2, <1>4, <1>5, <1>6, <1>7, <1>8, QuietInv

LEMMA ReadOutputInv ==
  ASSUME MachineInv, curr_state = "IDLE", ReadOutput
  PROVE  MachineInv' /\ curr_state' = "IDLE"
<1> DEFINE bus == BusWrite(ADDR_COMMANDS, 7)
<1>1. /\ pc = "read_output" /\ pc' = "data" /\ i' = 0
      /\ UNCHANGED <<j, k, test, out, reading, resets>>
      /\ Tick(bus)
  BY DEF ReadOutput, Command, READ_OUTPUT
<1>2. /\ ~WritesData(bus) /\ ~start_flg(bus)
      /\ RegistersStep(bus, FALSE)
  <2>1. 7 \in 1 .. 10 /\ 7 # 9
    OBVIOUS
  <2> QED
    BY <1>1, <2>1, CommandTick
<1>3. /\ UNCHANGED <<status, w0_ptr, b0_ptr, w1_ptr, b1_ptr, in_ptr, sizes>>
      /\ work_ptr' = in_ptr
  BY <1>2, CommandEffect
<1>4. ~reading /\ in_ptr = InputStart /\ InputStart \in 0 .. RamWords - 1
  BY <1>1, PointersFit DEF MachineInv, LoopsOK, RegistersOK, InputSaved, Programming
<1>5. LoopsOK'
  BY <1>1, Sizes DEF MachineInv, LoopsOK, Labels, Programming
<1>6. RegistersOK'
  BY <1>1, <1>3, <1>4
  DEF MachineInv, RegistersOK, Programming, WeightSaved, BiasSaved, InputSaved
<1>7. PointerInStep'
  <2>1. InputStart + 0 = InputStart
    BY <1>4
  <2> QED
    BY <1>1, <1>3, <1>4, <2>1 DEF PointerInStep
<1>8. ASSUME NEW l \in 1 .. 2, NEW n \in 0 .. Net!Size(l) - 1
      PROVE  /\ BiasStored(l, n)' => BiasStored(l, n)
             /\ \A m \in 0 .. Net!Size(l - 1) - 1 :
                  WeightStored(l, n, m)' => WeightStored(l, n, m)
  BY <1>1 DEF BiasStored, WeightStored, Programming
<1> QED
  BY <1>1, <1>2, <1>4, <1>5, <1>6, <1>7, <1>8, QuietInv

LEMMA BeginDataInv ==
  ASSUME MachineInv, curr_state = "IDLE", BeginData
  PROVE  MachineInv' /\ curr_state' = "IDLE"
<1> DEFINE bus == BusRead(ADDR_DATA)
<1>1. /\ pc = "data" /\ pc' = "data" /\ reading' = TRUE
      /\ UNCHANGED <<i, j, k, test, out, resets>>
      /\ Tick(bus)
  BY DEF BeginData, BeginRead, loopVars
<1>2. /\ ~WritesData(bus) /\ ~start_flg(bus) /\ bus.write = FALSE
      /\ RegistersStep(bus, FALSE)
  BY <1>1, IdleTick, Accesses
<1>3. UNCHANGED registerVars
  BY <1>2, NoEffect
<1>4. LoopsOK'
  BY <1>1 DEF MachineInv, LoopsOK, Labels, Programming
<1>5. RegistersOK'
  BY <1>1, <1>3
  DEF MachineInv, RegistersOK, Programming, WeightSaved, BiasSaved, InputSaved, registerVars
<1>6. PointerInStep'
  BY <1>1, <1>3 DEF MachineInv, PointerInStep, registerVars
<1>7. ASSUME NEW l \in 1 .. 2, NEW n \in 0 .. Net!Size(l) - 1
      PROVE  /\ BiasStored(l, n)' => BiasStored(l, n)
             /\ \A m \in 0 .. Net!Size(l - 1) - 1 :
                  WeightStored(l, n, m)' => WeightStored(l, n, m)
  BY <1>1 DEF BiasStored, WeightStored, Programming
<1> QED
  BY <1>1, <1>2, <1>3, <1>4, <1>5, <1>6, <1>7, QuietInv DEF registerVars

LEMMA EndDataInv ==
  ASSUME MachineInv, curr_state = "IDLE", EndData
  PROVE  MachineInv' /\ curr_state' = "IDLE"
<1> DEFINE bus == BusRead(ADDR_DATA)
<1>1. /\ pc = "data" /\ pc' = "advance" /\ reading' = FALSE
      /\ out' = [out EXCEPT ![i] = Received(ADDR_DATA)]
      /\ UNCHANGED <<i, j, k, test, resets>>
      /\ Tick(bus)
  BY DEF EndData, EndRead, loopVars
<1>2. /\ ~WritesData(bus) /\ ~start_flg(bus) /\ bus.write = FALSE
      /\ RegistersStep(bus, FALSE)
  BY <1>1, IdleTick, Accesses
<1>3. UNCHANGED registerVars
  BY <1>2, NoEffect
<1>4. LoopsOK'
  BY <1>1 DEF MachineInv, LoopsOK, Labels, Programming
<1>5. RegistersOK'
  BY <1>1, <1>3
  DEF MachineInv, RegistersOK, Programming, WeightSaved, BiasSaved, InputSaved, registerVars
<1>6. PointerInStep'
  BY <1>1, <1>3 DEF MachineInv, PointerInStep, registerVars
<1>7. ASSUME NEW l \in 1 .. 2, NEW n \in 0 .. Net!Size(l) - 1
      PROVE  /\ BiasStored(l, n)' => BiasStored(l, n)
             /\ \A m \in 0 .. Net!Size(l - 1) - 1 :
                  WeightStored(l, n, m)' => WeightStored(l, n, m)
  BY <1>1 DEF BiasStored, WeightStored, Programming
<1> QED
  BY <1>1, <1>2, <1>4, <1>5, <1>6, <1>7, QuietInv

LEMMA AdvanceInv ==
  ASSUME MachineInv, curr_state = "IDLE", Advance
  PROVE  MachineInv' /\ curr_state' = "IDLE"
<1> DEFINE bus == BusWrite(ADDR_COMMANDS, 10)
<1>1. /\ pc = "advance"
      /\ pc' = IF i + 1 < OutputSize THEN "data" ELSE "reset_ptr"
      /\ i' = i + 1
      /\ UNCHANGED <<j, k, test, out, reading, resets>>
      /\ Tick(bus)
  BY DEF Advance, Loop, ADVNC_PTR_1
<1>2. /\ ~WritesData(bus) /\ ~start_flg(bus)
      /\ RegistersStep(bus, FALSE)
  <2>1. 10 \in 1 .. 10 /\ 10 # 9
    OBVIOUS
  <2> QED
    BY <1>1, <2>1, CommandTick
<1>3. /\ UNCHANGED <<status, w0_ptr, b0_ptr, w1_ptr, b1_ptr, in_ptr, sizes>>
      /\ work_ptr' = Pointer(work_ptr + 1)
  BY <1>2, CommandEffect
<1>4. ~reading /\ i \in 0 .. OutputSize - 1 /\ work_ptr = InputStart + i
  BY <1>1, Sizes DEF MachineInv, LoopsOK, PointerInStep
<1>5. work_ptr' = InputStart + (i + 1) /\ work_ptr' \in 0 .. RamWords - 1
  <2>1. InputStart + (i + 1) \in 0 .. RamWords - 1
    BY <1>4, Sizes, PointersFit
  <2>2. work_ptr + 1 = InputStart + (i + 1)
    BY <1>4, Areas
  <2> QED
    BY <1>3, <2>1, <2>2, Widths
<1>6. LoopsOK'
  BY <1>1, <1>4, Sizes DEF MachineInv, LoopsOK, Labels, Programming
<1>7. RegistersOK'
  BY <1>1, <1>3, <1>5
  DEF MachineInv, RegistersOK, Programming, WeightSaved, BiasSaved, InputSaved
<1>8. PointerInStep'
  BY <1>1, <1>5 DEF PointerInStep
<1>9. ASSUME NEW l \in 1 .. 2, NEW n \in 0 .. Net!Size(l) - 1
      PROVE  /\ BiasStored(l, n)' => BiasStored(l, n)
             /\ \A m \in 0 .. Net!Size(l - 1) - 1 :
                  WeightStored(l, n, m)' => WeightStored(l, n, m)
  BY <1>1 DEF BiasStored, WeightStored, Programming
<1> QED
  BY <1>1, <1>2, <1>4, <1>6, <1>7, <1>8, <1>9, QuietInv

LEMMA ResetPointerInv ==
  ASSUME MachineInv, curr_state = "IDLE", ResetPointer
  PROVE  MachineInv' /\ curr_state' = "IDLE"
<1> DEFINE bus == BusWrite(ADDR_COMMANDS, 7)
<1>1. /\ pc = "reset_ptr" /\ pc' = "returned"
      /\ UNCHANGED <<i, j, k, test, out, reading, resets>>
      /\ Tick(bus)
  BY DEF ResetPointer, Command, READ_OUTPUT, loopVars
<1>2. /\ ~WritesData(bus) /\ ~start_flg(bus)
      /\ RegistersStep(bus, FALSE)
  <2>1. 7 \in 1 .. 10 /\ 7 # 9
    OBVIOUS
  <2> QED
    BY <1>1, <2>1, CommandTick
<1>3. /\ UNCHANGED <<status, w0_ptr, b0_ptr, w1_ptr, b1_ptr, in_ptr, sizes>>
      /\ work_ptr' = in_ptr
  BY <1>2, CommandEffect
<1>4. ~reading /\ in_ptr = InputStart /\ InputStart \in 0 .. RamWords - 1
  BY <1>1, PointersFit DEF MachineInv, LoopsOK, RegistersOK, InputSaved, Programming
<1>5. LoopsOK'
  BY <1>1 DEF MachineInv, LoopsOK, Labels, Programming
<1>6. RegistersOK'
  BY <1>1, <1>3, <1>4
  DEF MachineInv, RegistersOK, Programming, WeightSaved, BiasSaved, InputSaved
<1>7. PointerInStep'
  BY <1>1, <1>3, <1>4 DEF PointerInStep
<1>8. ASSUME NEW l \in 1 .. 2, NEW n \in 0 .. Net!Size(l) - 1
      PROVE  /\ BiasStored(l, n)' => BiasStored(l, n)
             /\ \A m \in 0 .. Net!Size(l - 1) - 1 :
                  WeightStored(l, n, m)' => WeightStored(l, n, m)
  BY <1>1 DEF BiasStored, WeightStored, Programming
<1> QED
  BY <1>1, <1>2, <1>5, <1>6, <1>7, <1>8, QuietInv

LEMMA NextTestInv ==
  ASSUME MachineInv, curr_state = "IDLE", NextTest
  PROVE  MachineInv' /\ curr_state' = "IDLE"
<1>1. /\ pc = "returned"
      /\ pc' = IF test + 1 < NumTests THEN "start_input" ELSE "finished"
      /\ test' = IF test + 1 < NumTests THEN test + 1 ELSE test
      /\ UNCHANGED <<i, j, k, out, reading, resets>>
      /\ Tick(NoBus)
  BY DEF NextTest, loopVars
<1>2. /\ ~WritesData(NoBus) /\ ~start_flg(NoBus) /\ NoBus.write = FALSE
      /\ RegistersStep(NoBus, FALSE)
  BY <1>1, IdleTick, Accesses
<1>3. UNCHANGED registerVars
  BY <1>2, NoEffect
<1>4. LoopsOK'
  BY <1>1, DriverAssumption DEF MachineInv, LoopsOK, Labels, Programming
<1>5. RegistersOK'
  <2>1. InputSaved
    BY <1>1 DEF InputSaved, Programming
  <2> QED
    BY <1>1, <1>3, <2>1
    DEF MachineInv, RegistersOK, Programming, WeightSaved, BiasSaved, registerVars
<1>6. PointerInStep'
  BY <1>1, <1>3 DEF MachineInv, PointerInStep, registerVars
<1>7. ASSUME NEW l \in 1 .. 2, NEW n \in 0 .. Net!Size(l) - 1
      PROVE  /\ BiasStored(l, n)' => BiasStored(l, n)
             /\ \A m \in 0 .. Net!Size(l - 1) - 1 :
                  WeightStored(l, n, m)' => WeightStored(l, n, m)
  BY <1>1 DEF BiasStored, WeightStored, Programming
<1> QED
  BY <1>1, <1>2, <1>4, <1>5, <1>6, <1>7, QuietInv

LEMMA IdleCycleInv ==
  ASSUME MachineInv, curr_state = "IDLE", IdleCycle
  PROVE  MachineInv' /\ curr_state' = "IDLE"
<1>1. /\ ~reading /\ UNCHANGED <<pc, i, j, k, test, out, reading, resets>>
      /\ Tick(NoBus)
  BY DEF IdleCycle, driverVars, loopVars
<1>2. /\ ~WritesData(NoBus) /\ ~start_flg(NoBus) /\ NoBus.write = FALSE
      /\ RegistersStep(NoBus, FALSE)
  BY <1>1, IdleTick, Accesses
<1>3. UNCHANGED registerVars
  BY <1>2, NoEffect
<1>4. LoopsOK'
  BY <1>1 DEF MachineInv, LoopsOK, Programming
<1>5. RegistersOK'
  BY <1>1, <1>3
  DEF MachineInv, RegistersOK, Programming, WeightSaved, BiasSaved, InputSaved, registerVars
<1>6. PointerInStep'
  BY <1>1, <1>3 DEF MachineInv, PointerInStep, registerVars
<1>7. ASSUME NEW l \in 1 .. 2, NEW n \in 0 .. Net!Size(l) - 1
      PROVE  /\ BiasStored(l, n)' => BiasStored(l, n)
             /\ \A m \in 0 .. Net!Size(l - 1) - 1 :
                  WeightStored(l, n, m)' => WeightStored(l, n, m)
  BY <1>1 DEF BiasStored, WeightStored, Programming
<1>8. pc' = "poll" => status' = AllOnes
  BY <1>1, <1>3 DEF MachineInv, PollInStep, registerVars
<1> QED
  BY <1>1, <1>2, <1>4, <1>5, <1>6, <1>7, <1>8, QuietInv

(* The parameters that come before a place lie below it.                    *)
LEMMA LayerBefore ==
  ASSUME NEW l \in 1 .. 2, NEW x \in 1 .. 2, l < x, NEW n \in 0 .. Net!Size(l) - 1
  PROVE  /\ BiasStart(l) + n \in Nat /\ BiasStart(l) + n < WeightStart(x)
         /\ \A m \in 0 .. Net!Size(l - 1) - 1 :
              /\ WeightStart(l) + m * RowWords(l) + n \in Nat
              /\ WeightStart(l) + m * RowWords(l) + n < WeightStart(x)
<1>1. l = 1 /\ x = 2
  OBVIOUS
<1>2. WeightStart(2) = BiasStart(1) + RowWords(1)
  BY Areas
<1>3. n \in Nat /\ n < RowWords(1) /\ RowWords(1) \in Nat /\ BiasStart(1) \in Nat
  <2>1. n < Net!Size(1) /\ Net!Size(1) < RowWords(1) /\ Net!Size(1) \in Nat /\ n \in Nat
    BY <1>1, Rows, Sizes
  <2> QED
    BY <2>1, Rows, Areas
<1>4. ASSUME NEW m \in 0 .. Net!Size(l - 1) - 1
      PROVE  /\ WeightStart(l) + m * RowWords(l) + n \in Nat
             /\ WeightStart(l) + m * RowWords(l) + n < WeightStart(x)
  <2> DEFINE a == WeightStart(l) + m * RowWords(l) + n
  <2>1. a \in 0 .. BiasStart(l) - 1
    BY ParametersBelow
  <2> HIDE DEF a
  <2>2. a \in Nat /\ a < WeightStart(x)
    BY <1>1, <1>2, <1>3, <2>1
  <2> QED
    BY <2>2 DEF a
<1> QED
  BY <1>1, <1>2, <1>3, <1>4

LEMMA RowBefore ==
  ASSUME NEW l \in 1 .. 2, NEW n \in 0 .. Net!Size(l) - 1,
         NEW m \in Nat, NEW r \in Nat, m < r
  PROVE  WeightStart(l) + m * RowWords(l) + n < WeightStart(l) + r * RowWords(l)
<1>1. n \in Nat /\ n < RowWords(l) /\ RowWords(l) \in Nat /\ WeightStart(l) \in Nat
  BY Rows, Sizes, Areas
<1> DEFINE row == m * RowWords(l)
<1> DEFINE next == r * RowWords(l)
<1>2. row \in Nat /\ next \in Nat /\ row + RowWords(l) <= next
  BY <1>1, RowsInOrder
<1> HIDE DEF row, next
<1>3. WeightStart(l) + row + n < WeightStart(l) + next
  BY <1>1, <1>2
<1> QED
  BY <1>3 DEF row, next

LEMMA StoreWeightInv ==
  ASSUME MachineInv, curr_state = "IDLE", StoreWeight
  PROVE  MachineInv' /\ curr_state' = "IDLE"
<1> DEFINE word == Weight(i, k, j)
<1> DEFINE bus == BusWrite(ADDR_DATA, word)
<1>1. /\ pc = "weight"
      /\ pc' = IF k + 1 < Net!Size(i) THEN "weight" ELSE "align_row"
      /\ k' = k + 1
      /\ UNCHANGED <<i, j, test, out, reading, resets>>
      /\ Tick(bus)
  BY DEF StoreWeight, Store, Loop
<1>2. RegistersStep(bus, FALSE)
  BY <1>1, IdleTick
<1>3. /\ UNCHANGED <<status, w0_ptr, b0_ptr, w1_ptr, b1_ptr, in_ptr, sizes>>
      /\ work_ptr' = Pointer(work_ptr + 1)
  BY <1>2, StoreEffect
<1>4. /\ i \in 1 .. 2 /\ ~reading /\ j \in 0 .. Net!Size(i - 1) - 1
      /\ k \in 0 .. Net!Size(i) - 1
      /\ work_ptr = WeightStart(i) + j * RowWords(i) + k
      /\ Net!Size(i) \in 1 .. 31
  <2>1. /\ i \in 1 .. 2 /\ ~reading /\ j \in 0 .. 31 + InputSize
        /\ j < Net!Size(i - 1) /\ k < Net!Size(i) /\ k \in 0 .. 31
        /\ work_ptr = WeightStart(i) + j * RowWords(i) + k
    BY <1>1 DEF MachineInv, LoopsOK, PointerInStep
  <2>2. Net!Size(i) \in 1 .. 31 /\ Net!Size(i - 1) \in Nat \ {0}
    BY <2>1, Sizes
  <2> QED
    BY <2>1, <2>2, Sizes
<1>5. /\ work_ptr' = WeightStart(i) + j * RowWords(i) + (k + 1)
      /\ work_ptr' \in 0 .. RamWords - 1
  <2> DEFINE row == j * RowWords(i)
  <2>1. row \in Nat /\ work_ptr = WeightStart(i) + row + k
    BY <1>4, RowAfter
  <2>2. WeightStart(i) + row + k \in 0 .. BiasStart(i) - 1
    BY <1>4, ParametersBelow
  <2>3. /\ BiasStart(i) \in 0 .. RamWords - 1 /\ WeightStart(i) \in Nat
    BY <1>4, PointersFit, Areas
  <2> HIDE DEF row
  <2>4. /\ work_ptr + 1 = WeightStart(i) + row + (k + 1)
        /\ work_ptr + 1 \in 0 .. RamWords - 1
    BY <1>4, <2>1, <2>2, <2>3, RamShapeAssumption
  <2>5. Pointer(work_ptr + 1) = work_ptr + 1
    BY <2>4, Widths
  <2> QED
    BY <1>3, <2>4, <2>5 DEF row
<1>6. LoopsOK'
  <2>1. k + 1 \in 0 .. 31 /\ (k + 1 < Net!Size(i) \/ k + 1 = Net!Size(i))
    BY <1>4
  <2> QED
    BY <1>1, <1>4, <2>1 DEF MachineInv, LoopsOK, Labels, Programming
<1>7. RegistersOK'
  BY <1>1, <1>3, <1>5
  DEF MachineInv, RegistersOK, Programming, WeightSaved, BiasSaved, InputSaved
<1>8. PointerInStep'
  BY <1>1, <1>5 DEF PointerInStep
<1>9. ASSUME NEW l \in 1 .. 2, NEW n \in 0 .. Net!Size(l) - 1
      PROVE  BiasStored(l, n)' => BiasStored(l, n) /\ BiasStart(l) + n # work_ptr
  <2>1. BiasStored(l, n)' => BiasStored(l, n) /\ l < i
    BY <1>1 DEF BiasStored, Programming
  <2>2. l < i => BiasStart(l) + n < WeightStart(i) /\ BiasStart(l) + n \in Nat
    BY <1>4, LayerBefore
  <2>3. WeightStart(i) \in Nat /\ work_ptr >= WeightStart(i) /\ work_ptr \in Nat
    <3> DEFINE row == j * RowWords(i)
    <3>1. row \in Nat /\ WeightStart(i) \in Nat /\ work_ptr = WeightStart(i) + row + k
      BY <1>4, RowAfter, Areas
    <3> HIDE DEF row
    <3> QED
      BY <1>4, <3>1
  <2> QED
    BY <2>1, <2>2, <2>3
<1>10. ASSUME NEW l \in 1 .. 2, NEW n \in 0 .. Net!Size(l) - 1,
              NEW m \in 0 .. Net!Size(l - 1) - 1, WeightStored(l, n, m)'
       PROVE  LET a == WeightStart(l) + m * RowWords(l) + n IN
              \/ WeightStored(l, n, m) /\ a # work_ptr
              \/ a = work_ptr /\ word = Weight(l, n, m)
  <2> DEFINE a == WeightStart(l) + m * RowWords(l) + n
  <2>1. \/ l < i \/ (l = i /\ m < j) \/ (l = i /\ m = j /\ n < k)
        \/ (l = i /\ m = j /\ n = k)
    <3>1. l < i \/ (l = i /\ (m < j \/ (m = j /\ n < k + 1)))
      BY <1>1, <1>10 DEF WeightStored, Programming
    <3> QED
      BY <1>4, <3>1, Sizes
  <2>2. a \in 0 .. BiasStart(l) - 1 /\ BiasStart(l) \in Nat
    BY ParametersBelow, Areas
  <2>3. /\ WeightStart(i) \in Nat /\ j * RowWords(i) \in Nat /\ j \in Nat
        /\ m \in Nat
    BY <1>4, RowAfter, Areas, Sizes
  <2>4. CASE l < i
    <3>1. a < WeightStart(i)
      BY <1>4, <2>4, LayerBefore
    <3> DEFINE row == j * RowWords(i)
    <3>2. row \in Nat /\ work_ptr = WeightStart(i) + row + k
      BY <1>4, <2>3
    <3> HIDE DEF row, a
    <3>3. a # work_ptr
      BY <1>4, <2>2, <2>3, <3>1, <3>2
    <3>4. WeightStored(l, n, m)
      BY <2>4 DEF WeightStored
    <3> QED
      BY <3>3, <3>4 DEF a
  <2>5. CASE l = i /\ m < j
    <3>1. a < WeightStart(i) + j * RowWords(i)
      BY <2>3, <2>5, RowBefore
    <3> DEFINE row == j * RowWords(i)
    <3>2. row \in Nat /\ work_ptr = WeightStart(i) + row + k /\ a < WeightStart(i) + row
      BY <1>4, <2>3, <3>1
    <3> HIDE DEF row, a
    <3>3. a # work_ptr
      BY <1>4, <2>2, <2>3, <3>2
    <3>4. WeightStored(l, n, m)
      BY <1>1, <2>5 DEF WeightStored
    <3> QED
      BY <3>3, <3>4 DEF a
  <2>6. CASE l = i /\ m = j /\ n < k
    <3> DEFINE row == j * RowWords(i)
    <3>1. row \in Nat /\ work_ptr = WeightStart(i) + row + k /\ a = WeightStart(i) + row + n
      BY <1>4, <2>3, <2>6
    <3>2. n \in Nat
      BY Sizes
    <3> HIDE DEF row, a
    <3>3. a # work_ptr
      BY <1>4, <2>3, <2>6, <3>1, <3>2
    <3>4. WeightStored(l, n, m)
      BY <1>1, <2>6 DEF WeightStored
    <3> QED
      BY <3>3, <3>4 DEF a
  <2>7. CASE l = i /\ m = j /\ n = k
    BY <1>4, <2>7
  <2> HIDE DEF word
  <2> QED
    BY <2>1, <2>4, <2>5, <2>6, <2>7
<1>11. ~reading' /\ pc' # "poll"
  BY <1>1, <1>4
<1> QED
  BY <1>1, <1>6, <1>7, <1>8, <1>9, <1>10, <1>11, StoreInv

LEMMA StoreBiasInv ==
  ASSUME MachineInv, curr_state = "IDLE", StoreBias
  PROVE  MachineInv' /\ curr_state' = "IDLE"
<1> DEFINE word == Bias(i, j)
<1> DEFINE bus == BusWrite(ADDR_DATA, word)
<1>1. /\ pc = "bias"
      /\ pc' = IF j + 1 < Net!Size(i) THEN "bias" ELSE "align_bias"
      /\ j' = j + 1
      /\ UNCHANGED <<i, k, test, out, reading, resets>>
      /\ Tick(bus)
  BY DEF StoreBias, Store, Loop
<1>2. RegistersStep(bus, FALSE)
  BY <1>1, IdleTick
<1>3. /\ UNCHANGED <<status, w0_ptr, b0_ptr, w1_ptr, b1_ptr, in_ptr, sizes>>
      /\ work_ptr' = Pointer(work_ptr + 1)
  BY <1>2, StoreEffect
<1>4. /\ i \in 1 .. 2 /\ ~reading
      /\ j \in 0 .. Net!Size(i) - 1
      /\ work_ptr = BiasStart(i) + j
      /\ Net!Size(i) \in 1 .. 31 /\ BiasStart(i) \in Nat
  <2>1. /\ i \in 1 .. 2 /\ ~reading /\ j \in 0 .. 31 + InputSize
        /\ j < Net!Size(i) /\ work_ptr = BiasStart(i) + j
    BY <1>1 DEF MachineInv, LoopsOK, PointerInStep
  <2>2. Net!Size(i) \in 1 .. 31
    BY <2>1, Sizes
  <2> QED
    BY <2>1, <2>2, Sizes, Areas
<1>5. /\ work_ptr' = BiasStart(i) + (j + 1)
      /\ work_ptr' \in 0 .. RamWords - 1
  <2>1. work_ptr + 1 = BiasStart(i) + (j + 1) /\ j + 1 \in 0 .. Net!Size(i)
    BY <1>4
  <2>2. BiasStart(i) + (j + 1) \in 0 .. RamWords - 1
    BY <1>4, <2>1, PointersFit
  <2> QED
    BY <1>3, <2>1, <2>2, Widths
<1>6. LoopsOK'
  <2>1. j + 1 \in 0 .. 31 + InputSize /\ (j + 1 < Net!Size(i) \/ j + 1 = Net!Size(i))
    BY <1>4, Sizes
  <2> QED
    BY <1>1, <1>4, <2>1 DEF MachineInv, LoopsOK, Labels, Programming
<1>7. RegistersOK'
  BY <1>1, <1>3, <1>5
  DEF MachineInv, RegistersOK, Programming, WeightSaved, BiasSaved, InputSaved
<1>8. PointerInStep'
  BY <1>1, <1>5 DEF PointerInStep
<1>9. ASSUME NEW l \in 1 .. 2, NEW n \in 0 .. Net!Size(l) - 1, BiasStored(l, n)'
      PROVE  \/ BiasStored(l, n) /\ BiasStart(l) + n # work_ptr
             \/ BiasStart(l) + n = work_ptr /\ word = Bias(l, n)
  <2>1. l < i \/ (l = i /\ n < j) \/ (l = i /\ n = j)
    <3>1. l < i \/ (l = i /\ n < j + 1)
      BY <1>1, <1>9 DEF BiasStored, Programming
    <3> QED
      BY <1>4, <3>1, Sizes
  <2>2. CASE l < i
    <3>1. BiasStart(l) + n < WeightStart(i) /\ BiasStart(l) + n \in Nat
      BY <1>4, <2>2, LayerBefore
    <3>2. WeightStart(i) \in Nat /\ WeightStart(i) <= BiasStart(i)
      BY <1>4, Areas
    <3>3. BiasStored(l, n)
      BY <2>2 DEF BiasStored
    <3> QED
      BY <1>4, <3>1, <3>2, <3>3
  <2>3. CASE l = i /\ n < j
    <3>1. BiasStored(l, n)
      BY <1>1, <2>3 DEF BiasStored
    <3> QED
      BY <1>4, <2>3, <3>1, Sizes
  <2>4. CASE l = i /\ n = j
    BY <1>4, <2>4
  <2> QED
    BY <2>1, <2>2, <2>3, <2>4
<1>10. ASSUME NEW l \in 1 .. 2, NEW n \in 0 .. Net!Size(l) - 1,
              NEW m \in 0 .. Net!Size(l - 1) - 1, WeightStored(l, n, m)'
       PROVE  WeightStored(l, n, m) /\ WeightStart(l) + m * RowWords(l) + n # work_ptr
  <2> DEFINE a == WeightStart(l) + m * RowWords(l) + n
  <2>1. WeightStored(l, n, m) /\ (l < i \/ l = i)
    BY <1>1, <1>10 DEF WeightStored, Programming
  <2>2. a \in 0 .. BiasStart(l) - 1 /\ BiasStart(l) \in Nat
    BY ParametersBelow, Areas
  <2>3. l < i => BiasStart(l) <= BiasStart(i)
    BY <1>4, Areas, Rows
  <2> HIDE DEF a
  <2>4. a # work_ptr
    BY <1>4, <2>1, <2>2, <2>3
  <2> QED
    BY <2>1, <2>4 DEF a
<1>11. ~reading' /\ pc' # "poll"
  BY <1>1, <1>4
<1> QED
  BY <1>1, <1>6, <1>7, <1>8, <1>9, <1>10, <1>11, StoreInv

LEMMA StoreInputInv ==
  ASSUME MachineInv, curr_state = "IDLE", StoreInput
  PROVE  MachineInv' /\ curr_state' = "IDLE"
<1> DEFINE word == Input(test, i)
<1> DEFINE bus == BusWrite(ADDR_DATA, word)
<1>1. /\ pc = "input"
      /\ pc' = IF i + 1 < InputSize THEN "input" ELSE "acc_start"
      /\ i' = i + 1
      /\ UNCHANGED <<j, k, test, out, reading, resets>>
      /\ Tick(bus)
  BY DEF StoreInput, Store, Loop
<1>2. RegistersStep(bus, FALSE)
  BY <1>1, IdleTick
<1>3. /\ UNCHANGED <<status, w0_ptr, b0_ptr, w1_ptr, b1_ptr, in_ptr, sizes>>
      /\ work_ptr' = Pointer(work_ptr + 1)
  BY <1>2, StoreEffect
<1>4. /\ i \in 0 .. InputSize - 1 /\ ~reading
      /\ work_ptr = InputStart + i /\ InputStart \in Nat
  BY <1>1, Sizes, Areas DEF MachineInv, LoopsOK, PointerInStep
<1>5. /\ work_ptr' = InputStart + (i + 1)
      /\ work_ptr' \in 0 .. RamWords - 1
  <2>1. work_ptr + 1 = InputStart + (i + 1) /\ i + 1 \in 0 .. InputSize
    BY <1>4, Sizes
  <2>2. InputStart + (i + 1) \in 0 .. RamWords - 1
    BY <2>1, PointersFit
  <2> QED
    BY <1>3, <2>1, <2>2, Widths
<1>6. LoopsOK'
  BY <1>1, <1>4, Sizes DEF MachineInv, LoopsOK, Labels, Programming
<1>7. RegistersOK'
  BY <1>1, <1>3, <1>5
  DEF MachineInv, RegistersOK, Programming, WeightSaved, BiasSaved, InputSaved
<1>8. PointerInStep'
  BY <1>1, <1>5 DEF PointerInStep
<1>9. ASSUME NEW l \in 1 .. 2, NEW n \in 0 .. Net!Size(l) - 1
      PROVE  /\ BiasStored(l, n) /\ BiasStart(l) + n # work_ptr
             /\ \A m \in 0 .. Net!Size(l - 1) - 1 :
                  /\ WeightStored(l, n, m)
                  /\ WeightStart(l) + m * RowWords(l) + n # work_ptr
  <2>1. BiasStored(l, n) /\ \A m : WeightStored(l, n, m)
    BY <1>1 DEF BiasStored, WeightStored, Programming
  <2>2. LayoutEnd \in Nat /\ LayoutEnd < work_ptr
    BY <1>4, Areas
  <2>3. \A a \in 0 .. LayoutEnd - 1 : a # work_ptr
    BY <1>4, <2>2
  <2> QED
    BY <2>1, <2>3, ParametersBelow
<1>10. ~reading' /\ pc' # "poll"
  BY <1>1, <1>4
<1> QED
  BY <1>1, <1>6, <1>7, <1>8, <1>9, <1>10, StoreInv

LEMMA AccStartInv ==
  ASSUME MachineInv, curr_state = "IDLE", AccStart
  PROVE  MachineInv' /\ curr_state' = "CALC_LAYER_PREP"
<1> DEFINE bus == BusWrite(ADDR_COMMANDS, 9)
<1>1. /\ pc = "acc_start" /\ pc' = "poll"
      /\ UNCHANGED <<i, j, k, test, out, reading, resets>>
      /\ Tick(bus)
  BY DEF AccStart, Command, ACC_START, loopVars
<1>2. /\ RegistersStep(bus, FALSE)
      /\ RamStep(SlaveRequest(bus), SlaveData(bus))
      /\ curr_state' = "CALC_LAYER_PREP"
      /\ C!ControllerInv' /\ PipesOK'
      /\ ~WritesData(bus)
  <2>1. ~WritesData(bus) /\ (start_flg(bus) <=> 9 = 9)
    BY Accesses
  <2>2. start_flg(bus) = TRUE
    BY <2>1 DEF start_flg, Commands
  <2> QED
    BY <1>1, <2>1, <2>2, IdleTick
<1>3. /\ UNCHANGED <<w0_ptr, b0_ptr, w1_ptr, b1_ptr, in_ptr, work_ptr, sizes>>
      /\ status' = 0
  <2>1. 9 \in 1 .. 10 /\ 9 # 1 /\ 9 \notin {1, 7, 8, 10}
    OBVIOUS
  <2> QED
    BY <1>2, <2>1, CommandEffect
<1>4. /\ ram0' = ram0 /\ ram1' = ram1
      /\ addr_flop' = work_ptr /\ four_flop' = FALSE
  BY <1>2, SlaveReads
<1>5. ~reading /\ work_ptr \in 0 .. RamWords - 1
  BY <1>1 DEF MachineInv, LoopsOK, RegistersOK
<1>6. LoopsOK'
  BY <1>1 DEF MachineInv, LoopsOK, Labels, Programming
<1>7. RegistersOK'
  BY <1>1, <1>3
  DEF MachineInv, RegistersOK, Programming, WeightSaved, BiasSaved, InputSaved
<1>8. PointerInStep'
  BY <1>1 DEF PointerInStep
<1>9. NetworkStored'
  <2>1. NetworkStored
    BY DEF MachineInv
  <2>2. \A a : RamWord(a)' = RamWord(a)
    BY <1>4 DEF RamWord
  <2>3. ASSUME NEW l \in 1 .. 2, NEW n \in 0 .. Net!Size(l) - 1
        PROVE  /\ BiasStored(l, n)' => RamWord(BiasStart(l) + n)' = Bias(l, n)
               /\ \A m \in 0 .. Net!Size(l - 1) - 1 :
                    WeightStored(l, n, m)' =>
                      RamWord(WeightStart(l) + m * RowWords(l) + n)' = Weight(l, n, m)
    <3>1. BiasStored(l, n) /\ \A m : WeightStored(l, n, m)
      BY <1>1 DEF BiasStored, WeightStored, Programming
    <3> QED
      BY <2>1, <2>2, <3>1 DEF NetworkStored
  <2> QED
    BY <2>3, Zenon DEF NetworkStored
<1>10. PollInStep'
  BY <1>1, <1>2, <1>3 DEF PollInStep, AllOnes
<1>11. RamOK'
  <2>1. /\ DOMAIN ram0 = BankAddress /\ DOMAIN ram1 = BankAddress
    BY DEF MachineInv, RamOK
  <2>2. ~Used'
    BY <1>1, <1>2 DEF Used
  <2> QED
    BY <1>1, <1>4, <1>5, <2>1, <2>2 DEF RamOK
<1> QED
  BY <1>2, <1>6, <1>7, <1>8, <1>9, <1>10, <1>11 DEF MachineInv

(* At power up and after a reset.                                           *)
LEMMA MachineInit == SystemInit => MachineInv
<1> SUFFICES ASSUME SystemInit PROVE MachineInv
  OBVIOUS
<1>1. /\ pc = "clear" /\ i = 0 /\ j = 0 /\ k = 0
      /\ test = 0 /\ out = NoOutput /\ reading = FALSE /\ resets = 0
  BY DEF SystemInit
<1>2. /\ RegistersInit /\ Ctrl!Init /\ MacInit /\ SigInit /\ RegfileInit
      /\ ram0 = [a \in BankAddress |-> Unwritten]
      /\ ram1 = [a \in BankAddress |-> Unwritten]
      /\ addr_flop = 0 /\ four_flop = FALSE
  BY DEF SystemInit, AccelInit
<1>3. LoopsOK
  <2>1. /\ 0 \in 0 .. 31 + InputSize /\ 0 \in 0 .. 31
        /\ 0 \in 0 .. NumTests - 1 /\ 0 \in 0 .. MaxResets
    BY Sizes, DriverAssumption
  <2>2. DOMAIN out = 0 .. OutputSize - 1
    BY <1>1 DEF NoOutput
  <2> QED
    BY <1>1, <2>1, <2>2 DEF LoopsOK, Labels
<1>4. RegistersOK
  BY <1>1, <1>2, RamShapeAssumption
  DEF RegistersOK, RegistersInit, Programming, WeightSaved, BiasSaved, InputSaved
<1>5. PointerInStep
  BY <1>1 DEF PointerInStep
<1>6. NetworkStored
  BY <1>1 DEF NetworkStored, BiasStored, WeightStored, Programming
<1>7. PollInStep
  BY <1>1, <1>2 DEF PollInStep, Ctrl!Init
<1>8. RamOK
  <2>1. 0 \in 0 .. RamWords - 1
    BY RamShapeAssumption
  <2>2. ~Used
    BY <1>1, <1>2 DEF Used, Ctrl!Init
  <2> QED
    BY <1>1, <1>2, <2>1, <2>2 DEF RamOK
<1>9. PipesOK
  BY <1>2 DEF PipesOK, MacInit, SigInit
<1>10. C!ControllerInv
  <2>1. Fetched \in [ren : BOOLEAN, wen : BOOLEAN, four : BOOLEAN, addr : C!Address]
    <3>1. 0 \in C!Address
      BY RamShapeAssumption DEF C!Address
    <3> QED
      BY <1>2, <3>1 DEF Fetched
  <2> QED
    BY <1>2, <2>1, RamShapeAssumption
    DEF Ctrl!Init, C!ControllerInv, C!TypeOK, C!LayerLoaded, C!PassUnderWay,
        C!LoopPointers, C!WeightsInStep, C!ActivationInStep, C!BiasesInStep,
        C!Issuing, C!InLayer, C!Accumulating, C!States, C!Address
<1> QED
  BY <1>3, <1>4, <1>5, <1>6, <1>7, <1>8, <1>9, <1>10 DEF MachineInv

LEMMA MachineReset ==
  ASSUME MachineInv, ResetSystem
  PROVE  MachineInv'
<1>1. /\ pc' = "clear" /\ i' = 0 /\ j' = 0 /\ k' = 0
      /\ test' = 0 /\ out' = NoOutput /\ reading' = FALSE /\ resets' = resets + 1
      /\ resets < MaxResets
  BY DEF ResetSystem
<1>2. /\ RegistersReset /\ Ctrl!Reset /\ MacReset /\ SigReset
      /\ ram0' = ram0 /\ ram1' = ram1 /\ addr_flop' = 0 /\ four_flop' = FALSE
  BY DEF ResetSystem, AccelReset, RamReset
<1>3. LoopsOK'
  <2>1. /\ 0 \in 0 .. 31 + InputSize /\ 0 \in 0 .. 31 /\ 0 \in 0 .. NumTests - 1
    BY Sizes, DriverAssumption
  <2>2. DOMAIN out' = 0 .. OutputSize - 1
    BY <1>1 DEF NoOutput
  <2>3. resets' \in 0 .. MaxResets
    BY <1>1, DriverAssumption DEF MachineInv, LoopsOK
  <2> QED
    BY <1>1, <2>1, <2>2, <2>3 DEF LoopsOK, Labels
<1>4. RegistersOK'
  BY <1>1, <1>2, RamShapeAssumption
  DEF RegistersOK, RegistersReset, Programming, WeightSaved, BiasSaved, InputSaved
<1>5. PointerInStep'
  BY <1>1 DEF PointerInStep
<1>6. NetworkStored'
  BY <1>1 DEF NetworkStored, BiasStored, WeightStored, Programming
<1>7. PollInStep'
  BY <1>1, <1>2 DEF PollInStep, Ctrl!Reset
<1>8. RamOK'
  <2>1. 0 \in 0 .. RamWords - 1
    BY RamShapeAssumption
  <2>2. ~Used'
    BY <1>1, <1>2 DEF Used, Ctrl!Reset
  <2>3. /\ DOMAIN ram0 = BankAddress /\ DOMAIN ram1 = BankAddress
    BY DEF MachineInv, RamOK
  <2> QED
    BY <1>1, <1>2, <2>1, <2>2, <2>3 DEF RamOK
<1>9. PipesOK'
  BY <1>2 DEF PipesOK, MacReset, SigReset
<1>10. C!ControllerInv'
  <2>1. Fetched' \in [ren : BOOLEAN, wen : BOOLEAN, four : BOOLEAN, addr : C!Address]
    <3>1. 0 \in C!Address
      BY RamShapeAssumption DEF C!Address
    <3> QED
      BY <1>2, <3>1 DEF Fetched
  <2>2. C!Reset
    BY <1>2 DEF Ctrl!Reset, C!Reset
  <2> QED
    BY <2>1, <2>2, LayoutProgrammed, C!ResetInv
<1> QED
  BY <1>3, <1>4, <1>5, <1>6, <1>7, <1>8, <1>9, <1>10 DEF MachineInv

(* Every step keeps the invariant.                                          *)
LEMMA MachineNext == MachineInv /\ [SystemNext]_systemVars => MachineInv'
<1> SUFFICES ASSUME MachineInv, [SystemNext]_systemVars PROVE MachineInv'
  OBVIOUS
<1>1. CASE ResetSystem
  BY <1>1, MachineReset
<1>2. CASE (Program \/ IdleCycle) /\ curr_state # "IDLE"
  BY <1>2, PollInv
<1>3. CASE (Program \/ IdleCycle) /\ curr_state = "IDLE"
  BY <1>3, ClearInv, StartWeightInv, StoreWeightInv, AlignRowInv, StartBiasInv,
     StoreBiasInv, AlignBiasInv, AlignEndInv, ProgramSizesInv, StartInputInv,
     StoreInputInv, AccStartInv, BeginPollInv, EndPollInv, ReadOutputInv,
     BeginDataInv, EndDataInv, AdvanceInv, ResetPointerInv, NextTestInv, IdleCycleInv
  DEF Program
<1>4. CASE UNCHANGED systemVars
  <2>1. /\ UNCHANGED <<registerVars, macVars, sig_pipe, regfileVars, ramVars>>
        /\ UNCHANGED Ctrl!vars /\ UNCHANGED driverVars
    BY <1>4 DEF systemVars, accelVars
  <2>2. /\ LoopsOK' /\ RegistersOK' /\ PointerInStep' /\ PollInStep'
    BY <2>1
    DEF MachineInv, LoopsOK, RegistersOK, PointerInStep, PollInStep, driverVars,
        loopVars, registerVars, Ctrl!vars, Programming, WeightSaved, BiasSaved,
        InputSaved
  <2>3. NetworkStored' /\ RamOK'
    BY <2>1
    DEF MachineInv, NetworkStored, BiasStored, WeightStored, RamOK, Used, dout,
        dout_a, dout_b, dout_c, dout_d, RamWord, ramVars, driverVars, loopVars,
        Ctrl!vars, Programming, registerVars
  <2>4. PipesOK'
    <3>1. Passed' = Passed
      BY <2>1 DEF Passed, C!Issued, Ctrl!vars
    <3> QED
      BY <2>1, <3>1 DEF MachineInv, PipesOK, macVars, Ctrl!vars
  <2>5. C!ControllerInv'
    <3>1. Fetched' = Fetched
      BY <2>1 DEF Fetched, ramVars
    <3> QED
      BY <2>1, <3>1
      DEF MachineInv, Ctrl!vars, Ctrl!pointers, C!ControllerInv, C!TypeOK,
          C!LayerLoaded, C!PassUnderWay, C!LoopPointers, C!WeightsInStep,
          C!ActivationInStep, C!BiasesInStep, C!Issuing, C!InLayer,
          C!Accumulating, C!Issued, C!Loaded, C!Neurons, C!Inputs, C!WeightBase,
          C!BiasBase
  <2> QED
    BY <2>2, <2>3, <2>4, <2>5 DEF MachineInv
<1> QED
  BY <1>1, <1>2, <1>3, <1>4 DEF SystemNext

(* The invariant of the machine.                                            *)
THEOREM MachineInvariant == SystemSpec => []MachineInv
<1>1. SystemInit => MachineInv
  BY MachineInit
<1>2. MachineInv /\ [SystemNext]_systemVars => MachineInv'
  BY MachineNext
<1> QED
  BY <1>1, <1>2, PTL DEF SystemSpec
----------------------------------------------------------------------------
(* What the invariant of the machine says.                                  *)

(* The accumulators passed so far are among those of the layer.             *)
LEMMA PassedRange ==
  ASSUME C!ControllerInv
  PROVE  Passed \in 0 .. 31
<1>1. curr_layer_size \in 0 .. 31
  BY DEF C!ControllerInv, C!TypeOK
<1>2. curr_state \in IssueStates => C!Issued \in 0 .. 30
  BY IssuedGroup
<1>3. curr_state \in IssueStates => Passed = C!Issued
  BY DEF Passed, IssueStates
<1>4. curr_state \notin IssueStates => Passed \in {curr_layer_size, 0}
  BY DEF Passed, IssueStates
<1> QED
  BY <1>1, <1>2, <1>3, <1>4

LEMMA Below ==
  \A n \in 0 .. 31, a \in 0 .. 31, b \in 1 .. 4 :
    a + b <= n => a .. a + b - 1 \subseteq 0 .. n - 1
OBVIOUS

(* What an operation under way is going to write: accumulators that the     *)
(* pass has been at.                                                        *)
LEMMA TargetsPassed ==
  ASSUME MachineInv, NEW op \in InFlight
  PROVE  Targets(op) \subseteq 0 .. Passed - 1
<1>1. Passed \in 0 .. 31
  BY PassedRange DEF MachineInv
<1>2. op.busy
  BY DEF InFlight
<1>3. \/ \E s \in 1 .. MulLatency : op = mul_pipe[s]
      \/ \E s \in 1 .. AddLatency : op = add_pipe[s]
      \/ \E s \in 1 .. SigLatency : op = sig_pipe[s]
  BY DEF InFlight, MachineInv, PipesOK
<1>4. MulOp(op, Passed) \/ ResultOp(op, Passed)
  BY <1>2, <1>3, Stages DEF MachineInv
<1>5. CASE MulOp(op, Passed)
  <2>1. op = [busy |-> TRUE, index |-> op.index, product |-> op.product, acc |-> op.acc]
    BY <1>5 DEF MulOp
  <2>2. "result" \notin DOMAIN op
    BY <2>1
  <2>3. Targets(op) = op.index .. op.index + Len(op.product) - 1
    BY <2>2 DEF Targets
  <2>4. op.index \in 0 .. 31 /\ Len(op.product) \in 1 .. 4 /\ op.index + Len(op.product) <= Passed
    BY <1>5 DEF MulOp, Words
  <2> QED
    BY <1>1, <2>3, <2>4, Below
<1>6. CASE ResultOp(op, Passed)
  <2>1. op = [busy |-> TRUE, index |-> op.index, result |-> op.result]
    BY <1>6 DEF ResultOp
  <2>2. "result" \in DOMAIN op
    BY <2>1
  <2>3. Targets(op) = op.index .. op.index + Len(op.result) - 1
    BY <2>2 DEF Targets
  <2>4. op.index \in 0 .. 31 /\ Len(op.result) \in 1 .. 4 /\ op.index + Len(op.result) <= Passed
    BY <1>6 DEF ResultOp, Words
  <2> QED
    BY <1>1, <2>3, <2>4, Below
<1> QED
  BY <1>4, <1>5, <1>6

(* The registers of the slave, the pipes and the program hold values of     *)
(* their kinds.                                                             *)
LEMMA TypesFromInv == MachineInv => SystemTypeOK
<1> SUFFICES ASSUME MachineInv PROVE SystemTypeOK
  OBVIOUS
<1>1. Passed \in 0 .. 31
  BY PassedRange DEF MachineInv
<1>2. \A op \in InFlight : Targets(op) \subseteq Accumulators
  BY <1>1, TargetsPassed DEF Accumulators
<1>3. sizes \in [hidden : 0 .. 31, output : 0 .. 31]
  BY Sizes DEF MachineInv, RegistersOK, NoSizes
<1> QED
  BY <1>2, <1>3 DEF MachineInv, RegistersOK, LoopsOK, SystemTypeOK

(* The types of the whole system (SystemTypeOK): whatever the program and   *)
(* the controller do, no register, pointer or loop variable leaves its      *)
(* range, and no operation in the pipes is for an accumulator past the last.*)
THEOREM SystemTypeCorrect == SystemSpec => []SystemTypeOK
BY MachineInvariant, TypesFromInv, PTL

(* No operation is lost, at any latency of the pipes: a multiplication is   *)
(* over before the biases are added, an addition before the sigmoids are    *)
(* issued, a sigmoid before the next layer (feedforward_controller.sv's     *)
(* WAIT states), so that no two come to the adder or to the register file   *)
(* together.                                                                *)
LEMMA NoneLostFromInv == MachineInv => NoOperationLost
<1> SUFFICES ASSUME MachineInv PROVE NoOperationLost
  OBVIOUS
<1>1. /\ \A s \in 1 .. MulLatency : mul_pipe[s].busy => curr_state \in MulStates
      /\ \A s \in 1 .. AddLatency : add_pipe[s].busy => curr_state \in AddStates
      /\ \A s \in 1 .. SigLatency : sig_pipe[s].busy => curr_state \in SigStates
  BY Stages DEF MachineInv
<1>2. MulLatency \in 1 .. MulLatency /\ AddLatency \in 1 .. AddLatency
      /\ SigLatency \in 1 .. SigLatency
  BY MacLatencyAssumption, SigLatencyAssumption
<1>3. curr_state = "CALC_LAYER_PREP" => InFlight = {}
  <2> SUFFICES ASSUME curr_state = "CALC_LAYER_PREP", NEW op \in InFlight
               PROVE  FALSE
    OBVIOUS
  <2> QED
    BY <1>1
    DEF InFlight, MachineInv, PipesOK, MulStates, AddStates, SigStates
<1> QED
  BY <1>1, <1>2, <1>3
  DEF NoOperationLost, mac_o, sig_o, Ctrl!issue_add, Ctrl!load_act_flg,
      Ctrl!layer_prep_stb, MulStates, AddStates, SigStates

THEOREM NoOperationIsLost == SystemSpec => []NoOperationLost
BY MachineInvariant, NoneLostFromInv, PTL

(* No issue and no store uses an accumulator that an operation under way is *)
(* still going to write (OperandsCurrent): those under way are on the       *)
(* accumulators before the issue, and none is under way in STORE_OUTPUT.    *)
LEMMA CurrentFromInv == MachineInv => OperandsCurrent
<1> SUFFICES ASSUME MachineInv, NEW op \in InFlight
             PROVE  Operands \cap Targets(op) = {}
  BY DEF OperandsCurrent
<1>1. Passed \in 0 .. 31 /\ Targets(op) \subseteq 0 .. Passed - 1
  BY PassedRange, TargetsPassed DEF MachineInv
<1>2. CASE curr_state \in IssueStates
  <2>1. /\ Ctrl!reg_sel = C!Issued /\ Passed = C!Issued
        /\ Ctrl!word_sel \in 1 .. 4
    BY <1>2, IssuedGroup DEF MachineInv, Passed, IssueStates
  <2>2. Operands = Passed .. Passed + Ctrl!word_sel - 1
    BY <1>2, <2>1 DEF Operands, IssueStates
  <2> QED
    BY <1>1, <2>1, <2>2
<1>3. CASE curr_state = "STORE_OUTPUT"
  <2>1. Passed = 0
    BY <1>3 DEF Passed
  <2> QED
    BY <1>1, <2>1
<1>4. CASE curr_state \notin IssueStates \cup {"STORE_OUTPUT"}
  <2>1. Ctrl!reg_sel = 0 /\ Ctrl!word_sel = 0
    BY <1>4
    DEF Ctrl!reg_sel, Ctrl!word_sel, Ctrl!issue_mac, Ctrl!issue_add,
        Ctrl!issue_sigmoid, IssueStates
  <2>2. Operands = 0 .. 0 - 1
    BY <1>4, <2>1 DEF Operands
  <2> QED
    BY <2>2
<1> QED
  BY <1>2, <1>3, <1>4

THEOREM OperandsAreCurrent == SystemSpec => []OperandsCurrent
BY MachineInvariant, CurrentFromInv, PTL

(* The program is heard (SlaveIsHeard): it uses the data register and       *)
(* starts a computation only while the controller leaves the RAM to it,     *)
(* since it waits in the loop at network.c:443 from a start to its end.     *)
LEMMA HeardFromInv == MachineInv => SlaveIsHeard
BY DEF MachineInv, PollInStep, SlaveIsHeard, UsesData, FfcOwnsRam, FfcRequest,
       Ctrl!RamRequest, Ctrl!NoRequest

THEOREM SlaveIsAlwaysHeard == SystemSpec => []SlaveIsHeard
BY MachineInvariant, HeardFromInv, PTL
(* From the end of program_accelerator() on the memory holds the network in *)
(* rows of whole groups (NetworkStaysProgrammed), whatever the controller   *)
(* stores: its results go to the area of the activations, past the layout.  *)
LEMMA ProgrammedFromInv == MachineInv => NetworkStaysProgrammed
<1> SUFFICES ASSUME MachineInv, ~Programming,
                    NEW l \in 1 .. 2, NEW n \in 0 .. Net!Size(l) - 1
             PROVE  /\ sizes = [hidden |-> HiddenSize, output |-> OutputSize]
                    /\ BiasWord(l, n) = Bias(l, n)
                    /\ \A m \in 0 .. Net!Size(l - 1) - 1 :
                         WeightWord(l, n, m) = Weight(l, n, m)
  BY DEF NetworkStaysProgrammed, MachineInv, RegistersOK
<1>1. /\ sizes = [hidden |-> HiddenSize, output |-> OutputSize]
      /\ w0_ptr = WeightStart(1) /\ b0_ptr = BiasStart(1)
      /\ w1_ptr = WeightStart(2) /\ b1_ptr = BiasStart(2)
  BY DEF MachineInv, RegistersOK, WeightSaved, BiasSaved
<1>2. /\ (IF l = 1 THEN w0_ptr ELSE w1_ptr) = WeightStart(l)
      /\ (IF l = 1 THEN b0_ptr ELSE b1_ptr) = BiasStart(l)
  BY <1>1
<1>3. /\ RamWord(BiasStart(l) + n) = Bias(l, n)
      /\ \A m \in 0 .. Net!Size(l - 1) - 1 :
           RamWord(WeightStart(l) + m * RowWords(l) + n) = Weight(l, n, m)
  BY DEF MachineInv, NetworkStored, BiasStored, WeightStored
<1>4. ASSUME NEW m \in 0 .. Net!Size(l - 1) - 1
      PROVE  4 * GroupsOf(Net!Size(l)) * m = m * RowWords(l)
  BY Rows, Sizes
<1> QED
  BY <1>1, <1>2, <1>3, <1>4 DEF BiasWord, WeightWord

THEOREM NetworkIsProgrammed == SystemSpec => []NetworkStaysProgrammed
BY MachineInvariant, ProgrammedFromInv, PTL

(* Every multiply-accumulate gets the weights of its neurons and of the     *)
(* activation loaded last (WeightsFetched): the controller's counters give  *)
(* the address, a cycle ahead, of the group where the program stored them.  *)
LEMMA FetchedFromInv == MachineInv => WeightsFetched
<1> SUFFICES ASSUME MachineInv, curr_state = "MAC_ISSUE",
                    NEW l \in 1 .. Ctrl!word_sel
             PROVE  RamLanes[l] = Weight(curr_layer, Ctrl!reg_sel + l - 1,
                      Net!Size(curr_layer - 1) - acts_remaining - 1)
  BY DEF WeightsFetched, Ctrl!issue_mac
<1> DEFINE m == C!Loaded - 1
           start == WeightStart(curr_layer)
<1>1. C!ControllerInv
  BY DEF MachineInv
<1>2. /\ curr_layer \in 1 .. 2
      /\ curr_layer_size = Net!Size(curr_layer)
      /\ C!Neurons = Net!Size(curr_layer)
      /\ C!Inputs = Net!Size(curr_layer - 1)
      /\ C!WeightBase = start
      /\ acts_remaining \in Nat
  BY <1>1, InLayerFacts DEF C!InLayer
<1>3. /\ C!Issued \in 0 .. 30 /\ C!Issued % 4 = 0
      /\ Ctrl!reg_sel = C!Issued
      /\ Ctrl!word_sel \in 1 .. 4
      /\ C!Issued + Ctrl!word_sel <= Net!Size(curr_layer)
  BY <1>1, <1>2, IssuedGroup DEF IssueStates
<1>4. /\ C!Loaded = Net!Size(curr_layer - 1) - acts_remaining
      /\ C!Loaded > 0 /\ acts_remaining <= Net!Size(curr_layer - 1)
      /\ Net!Size(curr_layer - 1) \in Nat
  BY <1>1, <1>2, Sizes
  DEF C!ControllerInv, C!LoopPointers, C!Accumulating, C!Loaded
<1>5. m \in 0 .. Net!Size(curr_layer - 1) - 1
  BY <1>2, <1>4
<1>6. Fetched = C!Read(4, start + 4 * (m * C!GroupsOf(Net!Size(curr_layer))
                                        + C!Issued \div 4))
  BY <1>1, <1>2 DEF C!ControllerInv, C!WeightsInStep
<1>7. /\ four_flop = TRUE
      /\ addr_flop = start + 4 * (m * C!GroupsOf(Net!Size(curr_layer)) + C!Issued \div 4)
  BY <1>6 DEF Fetched, C!Read
<1>8. addr_flop = start + m * RowWords(curr_layer) + C!Issued
  <2>1. C!GroupsOf(Net!Size(curr_layer)) = GroupsOf(Net!Size(curr_layer))
    BY DEF C!GroupsOf, GroupsOf
  <2>2. /\ RowWords(curr_layer) = 4 * GroupsOf(Net!Size(curr_layer))
        /\ GroupsOf(Net!Size(curr_layer)) \in 1 .. 8
    BY <1>2, Rows
  <2>3. 4 * (C!Issued \div 4) = C!Issued
    BY <1>3
  <2>4. start \in Nat
    BY <1>2, Areas
  <2>5. ASSUME NEW g \in 1 .. 8, NEW a \in Nat, NEW b \in Nat, NEW s \in Nat,
               NEW q \in Nat, 4 * q = b
        PROVE  s + 4 * (a * g + q) = s + a * (4 * g) + b
    BY <2>5
  <2>6. m \in Nat /\ C!Issued \in Nat /\ C!Issued \div 4 \in Nat
    BY <1>3, <1>4, <1>5
  <2> HIDE DEF m, start
  <2> QED
    BY <1>7, <2>1, <2>2, <2>3, <2>4, <2>5, <2>6
<1>9. 4 * (addr_flop \div 4) = addr_flop
  <2>1. /\ \E q \in Nat : start = 4 * q
        /\ \E q \in Nat : m * RowWords(curr_layer) = 4 * q
    BY <1>2, <1>5, Grouped
  <2>2. PICK p \in Nat, q \in Nat : start = 4 * p /\ m * RowWords(curr_layer) = 4 * q
    BY <2>1
  <2>3. addr_flop = 4 * p + 4 * q + C!Issued
    BY <1>8, <2>2
  <2> QED
    BY <1>3, <2>3
<1>10. RamLanes[l] = dout[l]
  BY <1>3, LanesOfRam DEF RamLanes
<1>11. dout[l] = RamWord(addr_flop + l - 1)
  BY <1>3, <1>7, <1>9 DEF MachineInv, RamOK, Used
<1>12. /\ C!Issued + l - 1 \in 0 .. Net!Size(curr_layer) - 1
       /\ addr_flop + l - 1 = start + m * RowWords(curr_layer) + (C!Issued + l - 1)
  <2>1. start \in Nat /\ m * RowWords(curr_layer) \in Nat
    BY <1>2, <1>5, Areas, Grouped
  <2>2. Net!Size(curr_layer) \in 1 .. 31
    BY <1>2, Sizes
  <2> HIDE DEF m, start
  <2> QED
    BY <1>3, <1>8, <2>1, <2>2
<1>13. ~Programming
  BY DEF MachineInv, PollInStep, Programming
<1>14. RamWord(start + m * RowWords(curr_layer) + (C!Issued + l - 1))
         = Weight(curr_layer, C!Issued + l - 1, m)
  BY <1>2, <1>5, <1>12, <1>13 DEF MachineInv, NetworkStored, WeightStored
<1> QED
  BY <1>3, <1>4, <1>10, <1>11, <1>12, <1>14

THEOREM WeightsAreFetched == SystemSpec => []WeightsFetched
BY MachineInvariant, FetchedFromInv, PTL
(* Without a reset the tests only go on.                                    *)
LEMMA TestsGoOn ==
  ASSUME MachineInv, [SystemNext]_systemVars, resets' = resets
  PROVE  test' \in {test, test + 1} /\ ~ResetSystem
<1>1. ~ResetSystem
  BY DriverAssumption DEF ResetSystem, MachineInv, LoopsOK
<1> QED
  BY <1>1
  DEF SystemNext, Program, Clear, StartWeight, StoreWeight, AlignRow, StartBias,
      StoreBias, AlignBias, AlignEnd, ProgramSizes, StartInput, StoreInput, AccStart,
      BeginPoll, EndPoll, ReadOutput, BeginData, EndData, Advance, ResetPointer,
      NextTest, Command, Store, BeginRead, EndRead, IdleCycle, driverVars, systemVars

(* Every test is put where the first was, at the start of a group           *)
(* (InputAreaStays): START_INPUT saves the working pointer, which the last  *)
(* READ_OUTPUT of feedforward_hw() has put back there.                      *)
LEMMA AreaKept ==
  ASSUME MachineInv, MachineInv', [SystemNext]_systemVars
  PROVE  [test > 0 /\ resets' = resets => in_ptr' = in_ptr /\ in_ptr % 4 = 0]_systemVars
<1> SUFFICES ASSUME test > 0, resets' = resets
             PROVE  in_ptr' = in_ptr /\ in_ptr % 4 = 0
  OBVIOUS
<1>1. test \in Nat /\ test' > 0
  BY TestsGoOn, DriverAssumption DEF MachineInv, LoopsOK
<1>2. in_ptr = InputStart
  BY DEF MachineInv, RegistersOK, InputSaved
<1>3. in_ptr' = InputStart
  BY <1>1 DEF MachineInv, RegistersOK, InputSaved
<1>4. PICK q \in Nat : InputStart = 4 * q
  BY Grouped
<1> QED
  BY <1>2, <1>3, <1>4

THEOREM InputAreaIsKept == SystemSpec => InputAreaStays
<1>1. MachineInv /\ MachineInv' /\ [SystemNext]_systemVars
        => [test > 0 /\ resets' = resets => in_ptr' = in_ptr /\ in_ptr % 4 = 0]_systemVars
  BY AreaKept
<1> QED
  BY <1>1, MachineInvariant, PTL DEF SystemSpec, InputAreaStays

(* What the theorems about the controller assume of its environment holds   *)
(* in the system (ControllerAssumptions): it leaves IDLE only on the layout *)
(* of a programmed network, and the registers it works from keep their      *)
(* values until it is back, although they are not latched.                  *)
LEMMA AssumptionsKept ==
  ASSUME MachineInv, [SystemNext]_systemVars
  PROVE  [/\ curr_state = "CALC_LAYER_PREP" => Env!Programmed(Configuration)
          /\ Configuration' # Configuration
               => curr_state = "IDLE" \/ resets' # resets]_systemVars
<1>1. ASSUME curr_state = "CALC_LAYER_PREP" PROVE Env!Programmed(Configuration)
  <2>1. pc = "poll"
    BY <1>1 DEF MachineInv, PollInStep
  <2>2. Configuration = Layout
    BY <2>1, RegistersHoldLayout DEF MachineInv, Programming
  <2>3. C!Programmed(Layout)
    BY LayoutProgrammed
  <2> QED
    BY <2>2, <2>3
    DEF Env!Programmed, C!Programmed, Env!ConfigType, C!ConfigType, Env!Address,
        C!Address, Env!GroupsOf, C!GroupsOf
<1>2. ASSUME curr_state # "IDLE", resets' = resets
      PROVE  Configuration' = Configuration
  <2>1. CASE UNCHANGED systemVars
    BY <2>1 DEF systemVars, accelVars, registerVars, Configuration
  <2>2. CASE Program \/ IdleCycle
    <3>1. /\ Configuration = Layout
          /\ \E bus \in {NoBus, BusRead(ADDR_COMMANDS)} : Tick(bus)
      BY <1>2, <2>2, PollCycle
    <3>2. UNCHANGED <<in_ptr, w0_ptr, b0_ptr, w1_ptr, b1_ptr, sizes>>
      BY <3>1, PollTick
    <3> QED
      BY <3>2 DEF Configuration
  <2> QED
    BY <1>2, <2>1, <2>2, TestsGoOn DEF SystemNext
<1> QED
  BY <1>1, <1>2

THEOREM ControllerAssumptionsHold == SystemSpec => ControllerAssumptions
<1>1. MachineInv /\ [SystemNext]_systemVars
        => [/\ curr_state = "CALC_LAYER_PREP" => Env!Programmed(Configuration)
            /\ Configuration' # Configuration
                 => curr_state = "IDLE" \/ resets' # resets]_systemVars
  BY AssumptionsKept
<1> QED
  BY <1>1, MachineInvariant, PTL DEF SystemSpec, ControllerAssumptions
----------------------------------------------------------------------------
(* dot() of network.c.                                                      *)

(* A set of numbers has a least one.                                        *)
LEMMA Least ==
  ASSUME NEW S \in SUBSET Nat, S # {}
  PROVE  \E x \in S : \A y \in S : x <= y
<1> DEFINE R == {ss \in Nat \X Nat : ss[1] < ss[2]}
<1>1. IsWellFoundedOn(R, Nat)
  BY NatLessThanWellFounded, Zenon DEF OpToRel
<1> HIDE DEF R
<1>2. PICK x \in S : \A y \in S : ~ (<<y, x>> \in R)
  BY <1>1, WFMin, Zenon
<1>3. \A y \in S : x <= y
  <2> TAKE y \in S
  <2>1. <<y, x>> \notin R /\ x \in Nat /\ y \in Nat
    BY <1>2
  <2>2. y < x => <<y, x>> \in R
    BY <2>1 DEF R
  <2> QED
    BY <2>1, <2>2
<1> QED
  BY <1>3

(* The sums that the loop of dot() goes through.                            *)
IsSums(n, a, b, f) ==
  f = [m \in 0 .. n |->
         IF m = 0 THEN Zero ELSE Add(f[m - 1], Mul(a[m - 1], b[m - 1]))]
SumsOf(n, a, b) == CHOOSE f : IsSums(n, a, b, f)

LEMMA SumsValue ==
  ASSUME NEW n \in Nat, NEW a, NEW b, NEW f, IsSums(n, a, b, f)
  PROVE  /\ DOMAIN f = 0 .. n
         /\ f[0] = Zero
         /\ \A m \in 1 .. n : f[m] = Add(f[m - 1], Mul(a[m - 1], b[m - 1]))
BY DEF IsSums

LEMMA SumsLonger ==
  ASSUME NEW n \in Nat, NEW a, NEW b, NEW f, IsSums(n, a, b, f)
  PROVE  \E g : IsSums(n + 1, a, b, g)
<1> DEFINE g == [m \in 0 .. n + 1 |->
                   IF m = n + 1 THEN Add(f[n], Mul(a[n], b[n])) ELSE f[m]]
<1>1. ASSUME NEW m \in 0 .. n + 1
      PROVE  g[m] = IF m = 0 THEN Zero ELSE Add(g[m - 1], Mul(a[m - 1], b[m - 1]))
  <2>1. CASE m = 0
    BY <2>1, SumsValue
  <2>2. CASE m \in 1 .. n
    <3>1. g[m] = f[m] /\ g[m - 1] = f[m - 1] /\ m # 0
      BY <2>2
    <3>2. f[m] = Add(f[m - 1], Mul(a[m - 1], b[m - 1]))
      BY <2>2, SumsValue
    <3> QED
      BY <3>1, <3>2
  <2>3. CASE m = n + 1
    <3>1. g[n + 1] = Add(f[n], Mul(a[n], b[n])) /\ g[n] = f[n] /\ m # 0 /\ m - 1 = n
      BY <2>3
    <3> QED
      BY <2>3, <3>1
  <2> QED
    BY <2>1, <2>2, <2>3
<1>2. g = [m \in 0 .. n + 1 |->
             IF m = 0 THEN Zero ELSE Add(g[m - 1], Mul(a[m - 1], b[m - 1]))]
  BY <1>1
<1> HIDE DEF g
<1> QED
  BY <1>2 DEF IsSums

LEMMA SumsExist ==
  ASSUME NEW a, NEW b
  PROVE  \A n \in Nat : \E f : IsSums(n, a, b, f)
<1> DEFINE S == {n \in Nat : ~ \E f : IsSums(n, a, b, f)}
<1> SUFFICES ASSUME S # {} PROVE FALSE
  OBVIOUS
<1>1. PICK n \in S : \A m \in S : n <= m
  BY Least
<1>2. n \in Nat /\ ~ \E f : IsSums(n, a, b, f)
  OBVIOUS
<1>3. CASE n = 0
  <2>1. IsSums(0, a, b, [m \in 0 .. 0 |-> Zero])
    BY DEF IsSums
  <2> QED
    BY <1>2, <1>3, <2>1
<1>4. CASE n # 0
  <2>1. n - 1 \in Nat /\ ~(n <= n - 1) /\ (n - 1) + 1 = n
    BY <1>2, <1>4
  <2>2. n - 1 \notin S
    BY <1>1, <2>1
  <2>3. PICK f : IsSums(n - 1, a, b, f)
    BY <2>1, <2>2
  <2>4. \E g : IsSums((n - 1) + 1, a, b, g)
    BY <2>1, <2>3, SumsLonger
  <2> QED
    BY <1>2, <2>1, <2>4
<1> QED
  BY <1>3, <1>4

LEMMA SumsAgree ==
  ASSUME NEW a, NEW b, NEW n \in Nat, NEW f, NEW g,
         IsSums(n, a, b, f), IsSums(n + 1, a, b, g)
  PROVE  f[n] = g[n]
<1> DEFINE S == {m \in Nat : m <= n /\ f[m] # g[m]}
<1> SUFFICES ASSUME S # {} PROVE FALSE
  OBVIOUS
<1>1. PICK m \in S : \A k_1 \in S : m <= k_1
  BY Least
<1>2. m \in Nat /\ m <= n /\ f[m] # g[m]
  OBVIOUS
<1>3. m # 0
  BY <1>2, SumsValue
<1>4. m - 1 \in Nat /\ m - 1 <= n /\ ~(m <= m - 1) /\ m \in 1 .. n /\ m \in 1 .. n + 1
  BY <1>2, <1>3
<1>5. m - 1 \notin S
  BY <1>1, <1>4
<1>6. f[m - 1] = g[m - 1]
  BY <1>4, <1>5
<1>7. /\ f[m] = Add(f[m - 1], Mul(a[m - 1], b[m - 1]))
      /\ g[m] = Add(g[m - 1], Mul(a[m - 1], b[m - 1]))
  BY <1>4, SumsValue
<1> QED
  BY <1>2, <1>6, <1>7

(* dot() adds the products one by one.                                      *)
LEMMA DotSteps ==
  ASSUME NEW a, NEW b
  PROVE  /\ Net!dot(0, a, b) = Zero
         /\ \A n \in Nat : Net!dot(n + 1, a, b) = Add(Net!dot(n, a, b), Mul(a[n], b[n]))
<1>1. ASSUME NEW n \in Nat PROVE Net!dot(n, a, b) = SumsOf(n, a, b)[n]
  BY DEF Net!dot, SumsOf, IsSums
<1>2. ASSUME NEW n \in Nat PROVE IsSums(n, a, b, SumsOf(n, a, b))
  BY SumsExist, Zenon DEF SumsOf
<1>3. Net!dot(0, a, b) = Zero
  BY <1>1, <1>2, SumsValue
<1>4. ASSUME NEW n \in Nat
      PROVE  Net!dot(n + 1, a, b) = Add(Net!dot(n, a, b), Mul(a[n], b[n]))
  <2> DEFINE f == SumsOf(n, a, b)
             g == SumsOf(n + 1, a, b)
  <2>1. n + 1 \in Nat /\ n + 1 \in 1 .. n + 1 /\ (n + 1) - 1 = n
    OBVIOUS
  <2>2. IsSums(n, a, b, f) /\ IsSums(n + 1, a, b, g)
    BY <1>2, <2>1
  <2>3. Net!dot(n, a, b) = f[n] /\ Net!dot(n + 1, a, b) = g[n + 1]
    BY <1>1, <2>1
  <2> HIDE DEF f, g
  <2>4. f[n] = g[n]
    BY <2>2, SumsAgree
  <2>5. g[n + 1] = Add(g[(n + 1) - 1], Mul(a[(n + 1) - 1], b[(n + 1) - 1]))
    BY <2>1, <2>2, SumsValue
  <2> QED
    BY <2>1, <2>3, <2>4, <2>5
<1> QED
  BY <1>3, <1>4
----------------------------------------------------------------------------
(* The values of a test.                                                    *)

(* The float operations that the accelerator applies to its operands in the *)
(* other order than feedforward() does.                                     *)
Commutative ==
  /\ \A a, b : Mul(a, b) = Mul(b, a)
  /\ \A a, b : Add(a, b) = Add(b, a)

(* The activations of a layer are the sigmoids of its biased sums.          *)
LEMMA ActsOfLayer ==
  ASSUME NEW t, NEW l \in 1 .. 2, NEW n \in 0 .. Net!Size(l) - 1
  PROVE  Acts(t, l)[n] = Sigmoid(Biased(t, l, n))
<1>1. Acts(t, l) = Net!Activate(l, Acts(t, l - 1))
  <2>1. CASE l = 1
    <3>1. Acts(t, 0) = [m \in 0 .. InputSize - 1 |-> Input(t, m)]
      BY DEF Acts
    <3>2. Acts(t, 1) = Net!Activate(1, [m \in 0 .. InputSize - 1 |-> Input(t, m)])
      BY DEF Acts
    <3>3. l - 1 = 0
      BY <2>1
    <3> QED
      BY <2>1, <3>1, <3>2, <3>3
  <2>2. CASE l = 2
    <3>1. Acts(t, 1) = Net!Activate(1, [m \in 0 .. InputSize - 1 |-> Input(t, m)])
      BY DEF Acts
    <3>2. Acts(t, 2) = Net!feedforward(t)
      BY DEF Acts
    <3>3. Net!feedforward(t)
            = Net!Activate(2, Net!Activate(1, [m \in 0 .. InputSize - 1 |-> Input(t, m)]))
      BY DEF Net!feedforward
    <3> QED
      BY <2>2, <3>1, <3>2, <3>3
  <2> QED
    BY <2>1, <2>2
<1>2. Net!Activate(l, Acts(t, l - 1))[n]
        = Sigmoid(Add(Net!dot(Net!Size(l - 1), Acts(t, l - 1), Row(l, n)), Bias(l, n)))
  BY DEF Net!Activate, Row
<1> QED
  BY <1>1, <1>2 DEF Biased, Accumulated

(* What an accumulator holds grows by a product at a time.                  *)
LEMMA AccumulatedSteps ==
  ASSUME NEW t, NEW l \in 1 .. 2, NEW n \in 0 .. Net!Size(l) - 1
  PROVE  /\ Accumulated(t, l, n, 0) = Zero
         /\ \A m \in 0 .. Net!Size(l - 1) - 1 :
              Accumulated(t, l, n, m + 1)
                = Add(Accumulated(t, l, n, m), Mul(Acts(t, l - 1)[m], Weight(l, n, m)))
<1>1. Accumulated(t, l, n, 0) = Zero
  BY DotSteps DEF Accumulated
<1>2. ASSUME NEW m \in 0 .. Net!Size(l - 1) - 1
      PROVE  Accumulated(t, l, n, m + 1)
               = Add(Accumulated(t, l, n, m), Mul(Acts(t, l - 1)[m], Weight(l, n, m)))
  <2>1. Row(l, n)[m] = Weight(l, n, m)
    BY DEF Row
  <2>2. m \in Nat
    BY Sizes
  <2>3. Net!dot(m + 1, Acts(t, l - 1), Row(l, n))
          = Add(Net!dot(m, Acts(t, l - 1), Row(l, n)),
                Mul(Acts(t, l - 1)[m], Row(l, n)[m]))
    BY <2>2, DotSteps
  <2> QED
    BY <2>1, <2>3 DEF Accumulated
<1> QED
  BY <1>1, <1>2
(* The places of an operation's words.                                      *)
LEMMA Interval ==
  \A a \in 0 .. 31, b \in 1 .. 4, r \in 0 .. 31 :
    /\ r \in a .. a + b - 1 <=> r >= a /\ r < a + b
    /\ r \in a .. a + b - 1 => r - a + 1 \in 1 .. b /\ a + (r - a + 1) - 1 = r
OBVIOUS

(* The write port of the register file: the sum or the sigmoid that leaves  *)
(* its pipe is written to its accumulators, the others keep their values.   *)
LEMMA Writeback ==
  ASSUME MachineInv, NEW bus, Tick(bus), NEW r \in 0 .. 31
  PROVE  /\ curr_state = "CALC_LAYER_PREP" => acc_data'[r] = Zero
         /\ curr_state # "CALC_LAYER_PREP" =>
              acc_data'[r] =
                IF Writes(mac_o, mac_o.result, r) THEN mac_o.result[r - mac_o.index + 1]
                ELSE IF Writes(sig_o, sig_o.result, r)
                THEN sig_o.result[r - sig_o.index + 1] ELSE acc_data[r]
<1>1. RegfileStep(Ctrl!layer_prep_stb, Ctrl!load_act_flg,
                  mac_o.busy \/ sig_o.busy, WriteIndex, WritePort)
  BY DEF Tick
<1>2. CASE curr_state = "CALC_LAYER_PREP"
  <2>1. acc_data' = [a \in Accumulators |-> Zero]
    BY <1>1, <1>2 DEF RegfileStep, Ctrl!layer_prep_stb
  <2> QED
    BY <1>2, <2>1 DEF Accumulators
<1>3. CASE curr_state # "CALC_LAYER_PREP"
  <2>1. acc_data' = IF mac_o.busy \/ sig_o.busy THEN WrittenAcc(WriteIndex, WritePort)
                    ELSE acc_data
    BY <1>1, <1>3 DEF RegfileStep, Ctrl!layer_prep_stb
  <2>2. ~(mac_o.busy /\ sig_o.busy) /\ (Ctrl!load_act_flg => ~mac_o.busy /\ ~sig_o.busy)
    BY NoneLostFromInv DEF NoOperationLost
  <2>3. CASE mac_o.busy
    <3>1. WriteIndex = mac_o.index /\ WritePort = mac_o.result
      BY <2>3 DEF WriteIndex, WritePort
    <3>2. mac_o.index \in 0 .. 31 /\ Len(mac_o.result) \in 1 .. 4
      <4>1. AddLatency \in 1 .. AddLatency
        BY MacLatencyAssumption
      <4>2. ResultOp(mac_o, Passed)
        BY <2>3, <4>1, Stages DEF MachineInv, mac_o
      <4> QED
        BY <4>2 DEF ResultOp, Words
    <3>3. acc_data'[r] = IF r >= mac_o.index /\ r < mac_o.index + Len(mac_o.result)
                         THEN mac_o.result[r - mac_o.index + 1] ELSE acc_data[r]
      BY <2>1, <2>3, <3>1 DEF WrittenAcc, Accumulators
    <3>4. Writes(mac_o, mac_o.result, r)
            <=> r >= mac_o.index /\ r < mac_o.index + Len(mac_o.result)
      <4>1. Writes(mac_o, mac_o.result, r)
              <=> r \in mac_o.index .. mac_o.index + Len(mac_o.result) - 1
        BY <2>3 DEF Writes
      <4> QED
        BY <3>2, <4>1, Interval
    <3>5. ~Writes(sig_o, sig_o.result, r)
      BY <2>2, <2>3 DEF Writes
    <3> QED
      BY <1>3, <3>3, <3>4, <3>5
  <2>4. CASE sig_o.busy
    <3>1. WriteIndex = sig_o.index /\ WritePort = sig_o.result
      BY <2>2, <2>4 DEF WriteIndex, WritePort
    <3>2. sig_o.index \in 0 .. 31 /\ Len(sig_o.result) \in 1 .. 4
      <4>1. SigLatency \in 1 .. SigLatency
        BY SigLatencyAssumption
      <4>2. ResultOp(sig_o, Passed)
        BY <2>4, <4>1, Stages DEF MachineInv, sig_o
      <4> QED
        BY <4>2 DEF ResultOp, Words
    <3>3. acc_data'[r] = IF r >= sig_o.index /\ r < sig_o.index + Len(sig_o.result)
                         THEN sig_o.result[r - sig_o.index + 1] ELSE acc_data[r]
      BY <2>1, <2>4, <3>1 DEF WrittenAcc, Accumulators
    <3>4. Writes(sig_o, sig_o.result, r)
            <=> r >= sig_o.index /\ r < sig_o.index + Len(sig_o.result)
      <4>1. Writes(sig_o, sig_o.result, r)
              <=> r \in sig_o.index .. sig_o.index + Len(sig_o.result) - 1
        BY <2>4 DEF Writes
      <4> QED
        BY <3>2, <4>1, Interval
    <3>5. ~Writes(mac_o, mac_o.result, r)
      BY <2>2, <2>4 DEF Writes
    <3> QED
      BY <1>3, <3>3, <3>4, <3>5
  <2>5. CASE ~mac_o.busy /\ ~sig_o.busy
    <3>1. acc_data' = acc_data
      BY <2>1, <2>5
    <3> QED
      BY <1>3, <2>5, <3>1 DEF Writes
  <2> QED
    BY <2>3, <2>4, <2>5
<1> QED
  BY <1>2, <1>3

(* The activation is loaded in LOAD_ACT.                                    *)
LEMMA ActivationLoaded ==
  ASSUME MachineInv, NEW bus, Tick(bus)
  PROVE  /\ curr_state = "LOAD_ACT" => act_data' = dout[1]
         /\ curr_state \notin {"LOAD_ACT", "CALC_LAYER_PREP"} => act_data' = act_data
<1>1. RegfileStep(Ctrl!layer_prep_stb, Ctrl!load_act_flg,
                  mac_o.busy \/ sig_o.busy, WriteIndex, WritePort)
  BY DEF Tick
<1>2. CASE curr_state = "LOAD_ACT"
  <2>1. Ctrl!load_act_flg /\ ~Ctrl!layer_prep_stb
    BY <1>2 DEF Ctrl!load_act_flg, Ctrl!layer_prep_stb
  <2>2. ~mac_o.busy
    BY <2>1, NoneLostFromInv DEF NoOperationLost
  <2>3. WritePort = dout
    BY <2>1, <2>2 DEF WritePort
  <2> QED
    BY <1>1, <1>2, <2>1, <2>3 DEF RegfileStep
<1>3. CASE curr_state \notin {"LOAD_ACT", "CALC_LAYER_PREP"}
  BY <1>1, <1>3 DEF RegfileStep, Ctrl!load_act_flg, Ctrl!layer_prep_stb
<1> QED
  BY <1>2, <1>3

(* What is written is the value after the pass.                             *)
LEMMA WrittenRight ==
  ASSUME MachineInv, ResultsRight, NEW bus, Tick(bus),
         curr_state # "CALC_LAYER_PREP", NEW r \in 0 .. 31
  PROVE  acc_data'[r] = IF \/ Writes(mac_o, mac_o.result, r)
                           \/ Writes(sig_o, sig_o.result, r)
                        THEN After(r) ELSE acc_data[r]
<1>1. AddLatency \in 1 .. AddLatency /\ SigLatency \in 1 .. SigLatency
  BY MacLatencyAssumption, SigLatencyAssumption
<1>2. ResultMakes(mac_o, r, After(r)) /\ ResultMakes(sig_o, r, After(r))
  BY <1>1 DEF ResultsRight, mac_o, sig_o, Accumulators
<1> QED
  BY <1>2, Writeback DEF ResultMakes

(* The passes over the neurons of a layer.                                  *)
SamePass ==
  \/ curr_state \in MulStates /\ curr_state' \in MulStates
  \/ curr_state \in AddStates \ MulStates /\ curr_state' \in AddStates \ MulStates
  \/ curr_state \in SigStates /\ curr_state' \in SigStates

(* While a pass goes on, the values before and after it stay.               *)
LEMMA PassGoesOn ==
  ASSUME C!ControllerInv, C!Step(FALSE, mac_empty, sig_empty, Layout),
         SamePass, test' = test
  PROVE  /\ UNCHANGED <<curr_layer, curr_layer_size>>
         /\ Passed \in 0 .. 31 /\ Passed' \in 0 .. 31
         /\ Passed <= Passed' /\ Passed' <= curr_layer_size
         /\ curr_layer_size \in 0 .. 31
         /\ curr_state \in IssueStates =>
              Passed = C!Issued /\ Passed' = C!Issued + Ctrl!IssuedLanes
         /\ curr_state \notin IssueStates => Passed' = Passed
         /\ \A r : After(r)' = After(r)
         /\ \A r \in 0 .. 31 : Passed' <= r /\ r < curr_layer_size => Before(r)' = Before(r)
<1>1. /\ UNCHANGED <<curr_layer, curr_layer_size, acts_remaining>>
      /\ curr_state \notin IssueStates => curr_state' = curr_state
  BY StepOfState
  DEF SamePass, MulStates, AddStates, SigStates, IssueStates, C!MacIssue, C!MacWait,
      C!BiasIssue, C!BiasWait, C!SigmoidIssue, C!SigmoidWait
<1>2. C!Loaded' = C!Loaded
  BY <1>1 DEF C!Loaded, C!Inputs
<1>3. curr_layer_size \in 0 .. 31
  BY DEF C!ControllerInv, C!TypeOK
<1>4. curr_state \in IssueStates =>
        /\ Passed = C!Issued /\ Passed' = C!Issued + Ctrl!IssuedLanes
        /\ C!Issued \in 0 .. 30 /\ Ctrl!IssuedLanes \in 1 .. 4
        /\ C!Issued + Ctrl!IssuedLanes <= curr_layer_size
  BY IssueStep, IssuedGroup
<1>5. curr_state \notin IssueStates => Passed = curr_layer_size /\ Passed' = Passed
  BY <1>1 DEF SamePass, MulStates, AddStates, SigStates, IssueStates, Passed
<1>6. \A r : After(r)' = After(r)
  BY <1>1, <1>2 DEF After, SamePass, MulStates, AddStates, SigStates
<1>7. ASSUME NEW r \in 0 .. 31, Passed' <= r, r < curr_layer_size
      PROVE  Before(r)' = Before(r)
  <2>1. curr_state \in IssueStates
    BY <1>3, <1>5, <1>7
  <2>2. curr_state' = curr_state
    <3>1. curr_state' \in {"MAC_WAIT", "BIAS_WAIT", "SIGMOID_WAIT"}
            => Passed' = curr_layer_size
      BY <1>1 DEF Passed
    <3>2. Passed' # curr_layer_size
      BY <1>3, <1>4, <1>7, <2>1
    <3> QED
      BY <2>1, <3>1, <3>2
      DEF SamePass, MulStates, AddStates, SigStates, IssueStates
  <2> QED
    BY <1>1, <1>2, <2>1, <2>2 DEF Before, IssueStates
<1> QED
  BY <1>1, <1>3, <1>4, <1>5, <1>6, <1>7

(* A pass begins on what the pass before has left.                          *)
LEMMA PassBegins ==
  ASSUME C!ControllerInv, C!Step(FALSE, mac_empty, sig_empty, Layout),
         curr_state \in {"LOAD_ACT", "BIAS_PREP", "SIGMOID_PREP"}, test' = test
  PROVE  /\ UNCHANGED <<curr_layer, curr_layer_size>>
         /\ Passed = 0 /\ Passed' = 0
         /\ curr_state = "LOAD_ACT" =>
              curr_state' = "MAC_ISSUE" /\ C!Loaded \in Nat /\ C!Loaded' = C!Loaded + 1
         /\ curr_state # "LOAD_ACT" => curr_state' # "MAC_ISSUE"
         /\ \A r : Before(r)' = Before(r)
<1>1. /\ UNCHANGED <<curr_layer, curr_layer_size>>
      /\ pending_issues' = curr_layer_size
      /\ curr_state = "LOAD_ACT" =>
           curr_state' = "MAC_ISSUE" /\ acts_remaining' = C!U16(acts_remaining - 1)
      /\ curr_state = "BIAS_PREP" => curr_state' = "BIAS_ISSUE"
      /\ curr_state = "SIGMOID_PREP" => curr_state' = "SIGMOID_ISSUE"
  BY StepOfState DEF C!LoadAct, C!BiasPrep, C!SigmoidPrep
<1>2. curr_layer_size \in 0 .. 31 /\ acts_remaining \in 0 .. RamWords - 1
  BY DEF C!ControllerInv, C!TypeOK
<1>3. C!Issued' = 0
  BY <1>1, <1>2 DEF C!Issued
<1>4. Passed = 0 /\ Passed' = 0
  BY <1>1, <1>3 DEF Passed
<1>5. curr_state = "LOAD_ACT" => C!Loaded \in Nat /\ C!Loaded' = C!Loaded + 1
  <2> SUFFICES ASSUME curr_state = "LOAD_ACT"
               PROVE  C!Loaded \in Nat /\ C!Loaded' = C!Loaded + 1
    OBVIOUS
  <2>1. acts_remaining > 0 /\ acts_remaining <= C!Inputs
    BY DEF C!ControllerInv, C!LoopPointers, C!Accumulating
  <2>2. C!Inputs \in Nat /\ C!Inputs' = C!Inputs
    BY <1>1, InLayerFacts, Sizes DEF C!InLayer, C!Inputs
  <2>3. acts_remaining' = acts_remaining - 1
    <3>1. acts_remaining - 1 \in 0 .. RamWords - 1
      BY <1>2, <2>1, RamShapeAssumption
    <3> QED
      BY <1>1, <3>1, Widths DEF C!U16
  <2> QED
    BY <1>2, <2>1, <2>2, <2>3, RamShapeAssumption DEF C!Loaded
<1>6. \A r : Before(r)' = Before(r)
  <2> SUFFICES ASSUME NEW r PROVE Before(r)' = Before(r)
    OBVIOUS
  <2>1. curr_state = "LOAD_ACT" => C!Loaded' - 1 = C!Loaded
    BY <1>5
  <2> QED
    BY <1>1, <2>1 DEF Before
<1> QED
  BY <1>1, <1>4, <1>5, <1>6

(* A pass ends when its pipes are empty, and leaves the values after it.    *)
LEMMA PassEnds ==
  ASSUME C!ControllerInv, C!Step(FALSE, mac_empty, sig_empty, Layout),
         curr_state \in {"MAC_WAIT", "BIAS_WAIT", "SIGMOID_WAIT"},
         curr_state' # curr_state, test' = test
  PROVE  /\ UNCHANGED <<curr_layer, curr_layer_size>>
         /\ Passed = curr_layer_size /\ Passed' = 0
         /\ curr_state # "SIGMOID_WAIT" => mac_empty
         /\ curr_state = "SIGMOID_WAIT" => sig_empty
         /\ curr_state' \in {"LOAD_ACT", "BIAS_PREP", "SIGMOID_PREP", "STORE_PREP"}
         /\ \A r : Before(r)' = After(r)
<1>1. /\ UNCHANGED <<curr_layer, curr_layer_size, acts_remaining>>
      /\ curr_state # "SIGMOID_WAIT" => mac_empty
      /\ curr_state = "SIGMOID_WAIT" => sig_empty
      /\ curr_state = "MAC_WAIT" =>
           curr_state' = IF acts_remaining = 0 THEN "BIAS_PREP" ELSE "LOAD_ACT"
      /\ curr_state = "BIAS_WAIT" => curr_state' = "SIGMOID_PREP"
      /\ curr_state = "SIGMOID_WAIT" => curr_state' = "STORE_PREP"
  BY StepOfState DEF C!MacWait, C!BiasWait, C!SigmoidWait
<1>2. Passed = curr_layer_size /\ Passed' = 0
  BY <1>1 DEF Passed
<1>3. C!Loaded' = C!Loaded
  BY <1>1 DEF C!Loaded, C!Inputs
<1>4. acts_remaining = 0 => C!Loaded = Net!Size(curr_layer - 1)
  BY InLayerFacts, Sizes DEF C!InLayer, C!Loaded
<1>5. \A r : Before(r)' = After(r)
  <2> SUFFICES ASSUME NEW r PROVE Before(r)' = After(r)
    OBVIOUS
  <2>1. CASE curr_state = "MAC_WAIT"
    BY <1>1, <1>3, <1>4, <2>1 DEF Before, After, MulStates
  <2>2. CASE curr_state = "BIAS_WAIT"
    BY <1>1, <2>2 DEF Before, After, MulStates
  <2>3. CASE curr_state = "SIGMOID_WAIT"
    BY <1>1, <2>3 DEF Before, After, MulStates
  <2> QED
    BY <2>1, <2>2, <2>3
<1> QED
  BY <1>1, <1>2, <1>5

(* Empty pipes write nothing.                                               *)
LEMMA EmptyPipes ==
  ASSUME MachineInv, curr_state \notin AddStates \/ mac_empty,
         curr_state \notin SigStates \/ sig_empty
  PROVE  /\ \A r : ~Coming(r)
         /\ \A r : ~Writes(mac_o, mac_o.result, r) /\ ~Writes(sig_o, sig_o.result, r)
<1>1. /\ \A s \in 1 .. MulLatency : ~mul_pipe[s].busy
      /\ \A s \in 1 .. AddLatency : ~add_pipe[s].busy
      /\ \A s \in 1 .. SigLatency : ~sig_pipe[s].busy
  BY Stages DEF MachineInv, MulStates, AddStates
<1>2. AddLatency \in 1 .. AddLatency /\ SigLatency \in 1 .. SigLatency
  BY MacLatencyAssumption, SigLatencyAssumption
<1> QED
  BY <1>1, <1>2 DEF Coming, Writes, mac_o, sig_o
(* A bias addition gets the biases of its neurons.                          *)
LEMMA BiasFetched ==
  ASSUME MachineInv, curr_state = "BIAS_ISSUE", NEW l \in 1 .. Ctrl!IssuedLanes
  PROVE  dout[l] = Bias(curr_layer, C!Issued + l - 1)
<1> DEFINE start == BiasStart(curr_layer)
<1>1. C!ControllerInv
  BY DEF MachineInv
<1>2. curr_layer \in 1 .. 2 /\ C!BiasBase = start
      /\ curr_layer_size = Net!Size(curr_layer)
  BY <1>1, InLayerFacts DEF C!InLayer
<1>3. /\ C!Issued \in 0 .. 30 /\ C!Issued % 4 = 0
      /\ Ctrl!IssuedLanes \in 1 .. 4
      /\ C!Issued + Ctrl!IssuedLanes <= Net!Size(curr_layer)
      /\ Net!Size(curr_layer) \in 1 .. 31
  BY <1>1, <1>2, IssuedGroup, Sizes DEF IssueStates
<1>4. four_flop = TRUE /\ addr_flop = start + C!Issued
  BY <1>1, <1>2 DEF C!ControllerInv, C!BiasesInStep, Fetched, C!Read
<1>5. PICK q \in Nat : start = 4 * q
  BY <1>2, Grouped
<1>6. 4 * (addr_flop \div 4) = addr_flop /\ addr_flop \in Nat
  BY <1>3, <1>4, <1>5
<1>7. dout[l] = RamWord(addr_flop + l - 1)
  BY <1>3, <1>4, <1>6 DEF MachineInv, RamOK, Used
<1>8. /\ C!Issued + l - 1 \in 0 .. Net!Size(curr_layer) - 1
      /\ addr_flop + l - 1 = start + (C!Issued + l - 1)
  BY <1>3, <1>4, <1>5
<1>9. ~Programming
  BY DEF MachineInv, PollInStep, Programming
<1>10. RamWord(start + (C!Issued + l - 1)) = Bias(curr_layer, C!Issued + l - 1)
  BY <1>2, <1>8, <1>9 DEF MachineInv, NetworkStored, BiasStored
<1> QED
  BY <1>7, <1>8, <1>10

(* What is issued will make the values after the pass of those before it.   *)
LEMMA IssuedRight ==
  ASSUME Commutative, MachineInv, ValuesInv, curr_state \in IssueStates,
         NEW l \in 1 .. Ctrl!IssuedLanes
  PROVE  LET r == C!Issued + l - 1 IN
         /\ curr_state = "MAC_ISSUE" =>
              Add(IssuedProduct.product[l], IssuedProduct.acc[l]) = After(r)
         /\ curr_state = "BIAS_ISSUE" => IssuedSum.result[l] = After(r)
         /\ curr_state = "SIGMOID_ISSUE" => IssuedSquash.result[l] = After(r)
<1> DEFINE r == C!Issued + l - 1
<1>1. C!ControllerInv
  BY DEF MachineInv
<1>2. /\ curr_layer \in 1 .. 2 /\ curr_layer_size = Net!Size(curr_layer)
      /\ C!Inputs = Net!Size(curr_layer - 1) /\ acts_remaining \in Nat
      /\ Net!Size(curr_layer - 1) \in Nat
  BY <1>1, InLayerFacts, Sizes DEF C!InLayer, IssueStates
<1>3. /\ C!Issued \in 0 .. 30 /\ Ctrl!IssuedLanes \in 1 .. 4
      /\ C!Issued + Ctrl!IssuedLanes <= Net!Size(curr_layer)
      /\ Ctrl!word_sel = Ctrl!IssuedLanes /\ Ctrl!reg_sel = C!Issued
      /\ Net!Size(curr_layer) \in 1 .. 31
  BY <1>1, <1>2, IssuedGroup, Sizes
<1>4. r \in 0 .. Net!Size(curr_layer) - 1 /\ ~(r < C!Issued)
  BY <1>3
<1>5. Passed = C!Issued
  BY DEF Passed, IssueStates
<1>6. acc_data[r] = Before(r)
  <2>1. C!InLayer
    BY DEF C!InLayer, IssueStates
  <2> HIDE DEF r
  <2> QED
    BY <1>4, <1>5, <2>1 DEF ValuesInv, AccumulatorsRight
<1>7. CASE curr_state = "MAC_ISSUE"
  <2> DEFINE m == C!Loaded - 1
  <2>1. /\ IssuedProduct.product[l] = Mul(dout[l], act_data)
        /\ IssuedProduct.acc[l] = acc_data[r]
    BY <1>1, <1>7, IssuedOps
  <2>2. /\ C!Loaded = Net!Size(curr_layer - 1) - acts_remaining
        /\ C!Loaded > 0
    BY <1>1, <1>2, <1>7
    DEF C!ControllerInv, C!LoopPointers, C!Accumulating, C!Loaded
  <2>3. m \in 0 .. Net!Size(curr_layer - 1) - 1 /\ m + 1 = C!Loaded
        /\ m = Net!Size(curr_layer - 1) - acts_remaining - 1
    BY <1>2, <2>2
  <2>4. dout[l] = Weight(curr_layer, r, m)
    <3>1. RamLanes[l] = Weight(curr_layer, Ctrl!reg_sel + l - 1,
                               Net!Size(curr_layer - 1) - acts_remaining - 1)
      BY <1>3, <1>7, FetchedFromInv DEF WeightsFetched, Ctrl!issue_mac
    <3>2. RamLanes[l] = dout[l]
      BY <1>3, LanesOfRam DEF RamLanes
    <3> QED
      BY <1>3, <2>3, <3>1, <3>2
  <2>5. act_data = Acts(test, curr_layer - 1)[m]
    BY <1>7 DEF ValuesInv, ActivationsRight
  <2>6. acc_data[r] = Accumulated(test, curr_layer, r, m)
    BY <1>6, <1>7 DEF Before
  <2>7. After(r) = Accumulated(test, curr_layer, r, m + 1)
    BY <1>7, <2>3 DEF After, MulStates
  <2> HIDE DEF m, r
  <2>8. After(r) = Add(Accumulated(test, curr_layer, r, m),
                       Mul(Acts(test, curr_layer - 1)[m], Weight(curr_layer, r, m)))
    BY <1>2, <1>4, <2>3, <2>7, AccumulatedSteps
  <2>9. Add(Mul(Weight(curr_layer, r, m), Acts(test, curr_layer - 1)[m]),
            Accumulated(test, curr_layer, r, m)) = After(r)
    BY <2>8, Zenon DEF Commutative
  <2> QED
    BY <1>7, <2>1, <2>4, <2>5, <2>6, <2>9 DEF r
<1>8. CASE curr_state = "BIAS_ISSUE"
  <2>1. IssuedSum.result[l] = Add(dout[l], acc_data[r])
    BY <1>1, <1>8, IssuedOps
  <2>2. dout[l] = Bias(curr_layer, r)
    BY <1>8, BiasFetched
  <2>3. acc_data[r] = Accumulated(test, curr_layer, r, Net!Size(curr_layer - 1))
    BY <1>6, <1>8 DEF Before
  <2>4. After(r) = Add(Accumulated(test, curr_layer, r, Net!Size(curr_layer - 1)),
                       Bias(curr_layer, r))
    BY <1>8 DEF After, MulStates, Biased
  <2> HIDE DEF r
  <2>5. Add(Bias(curr_layer, r),
            Accumulated(test, curr_layer, r, Net!Size(curr_layer - 1))) = After(r)
    BY <2>4, Zenon DEF Commutative
  <2> QED
    BY <1>8, <2>1, <2>2, <2>3, <2>5 DEF r
<1>9. CASE curr_state = "SIGMOID_ISSUE"
  <2>1. IssuedSquash.result[l] = Sigmoid(acc_data[r])
    BY <1>1, <1>9, IssuedOps
  <2>2. acc_data[r] = Biased(test, curr_layer, r)
    BY <1>6, <1>9 DEF Before
  <2>3. After(r) = Acts(test, curr_layer)[r]
    BY <1>9 DEF After, MulStates
  <2>4. Acts(test, curr_layer)[r] = Sigmoid(Biased(test, curr_layer, r))
    BY <1>2, <1>4, ActsOfLayer
  <2> QED
    BY <1>9, <2>1, <2>2, <2>3, <2>4
<1> QED
  BY <1>7, <1>8, <1>9 DEF IssueStates
(* As long as a pipe is busy or operations are issued, the pass goes on.    *)
LEMMA BusyPass ==
  ASSUME C!ControllerInv, curr_state # "IDLE",
         C!Step(FALSE, mac_empty, sig_empty, Layout),
         \/ curr_state \in IssueStates
         \/ ~mac_empty /\ curr_state \in AddStates
         \/ ~sig_empty /\ curr_state \in SigStates
  PROVE  SamePass
BY StepOfState
DEF SamePass, MulStates, AddStates, SigStates, IssueStates, C!MacIssue, C!MacWait,
    C!BiasIssue, C!BiasWait, C!SigmoidIssue, C!SigmoidWait

(* A bubble writes nothing.                                                 *)
LEMMA BubbleMakes ==
  ASSUME NEW r, NEW v
  PROVE  /\ MulMakes(Bubble, r, v)
         /\ ResultMakes(Bubble, r, v) /\ ResultMakes(SigBubble, r, v)
BY DEF MulMakes, ResultMakes, Writes, Bubble, SigBubble

(* What is issued makes the values after the pass, and what goes from the   *)
(* multipliers to the adders still does.                                    *)
LEMMA IssuedMakes ==
  ASSUME Commutative, MachineInv, ValuesInv, NEW r \in 0 .. 31
  PROVE  /\ curr_state = "MAC_ISSUE" => MulMakes(IssuedProduct, r, After(r))
         /\ curr_state = "BIAS_ISSUE" => ResultMakes(IssuedSum, r, After(r))
         /\ curr_state = "SIGMOID_ISSUE" => ResultMakes(IssuedSquash, r, After(r))
<1> SUFFICES ASSUME curr_state \in IssueStates
             PROVE  /\ curr_state = "MAC_ISSUE" => MulMakes(IssuedProduct, r, After(r))
                    /\ curr_state = "BIAS_ISSUE" => ResultMakes(IssuedSum, r, After(r))
                    /\ curr_state = "SIGMOID_ISSUE" => ResultMakes(IssuedSquash, r, After(r))
  BY DEF IssueStates
<1> DEFINE n == Ctrl!IssuedLanes
           l == r - C!Issued + 1
<1>1. C!Issued \in 0 .. 31 /\ n \in 1 .. 4
  BY IssuedGroup DEF MachineInv
<1>2. r \in C!Issued .. C!Issued + n - 1 => l \in 1 .. n /\ C!Issued + l - 1 = r
  <2> HIDE DEF n
  <2> QED
    BY <1>1, Interval
<1>3. CASE curr_state = "MAC_ISSUE"
  <2>1. /\ IssuedProduct.index = C!Issued /\ Len(IssuedProduct.product) = n
    BY <1>3, IssuedOps DEF MachineInv, IssueStates
  <2>2. r \in C!Issued .. C!Issued + n - 1 =>
          Add(IssuedProduct.product[l], IssuedProduct.acc[l]) = After(r)
    BY <1>2, <1>3, IssuedRight
  <2> QED
    BY <1>3, <2>1, <2>2 DEF MulMakes, Writes
<1>4. CASE curr_state = "BIAS_ISSUE"
  <2>1. /\ IssuedSum.index = C!Issued /\ Len(IssuedSum.result) = n
    BY <1>4, IssuedOps DEF MachineInv, IssueStates
  <2>2. r \in C!Issued .. C!Issued + n - 1 => IssuedSum.result[l] = After(r)
    BY <1>2, <1>4, IssuedRight
  <2> QED
    BY <1>4, <2>1, <2>2 DEF ResultMakes, Writes
<1>5. CASE curr_state = "SIGMOID_ISSUE"
  <2>1. /\ IssuedSquash.index = C!Issued /\ Len(IssuedSquash.result) = n
    BY <1>5, IssuedOps DEF MachineInv, IssueStates
  <2>2. r \in C!Issued .. C!Issued + n - 1 => IssuedSquash.result[l] = After(r)
    BY <1>2, <1>5, IssuedRight
  <2> QED
    BY <1>5, <2>1, <2>2 DEF ResultMakes, Writes
<1> QED
  BY <1>3, <1>4, <1>5 DEF IssueStates

LEMMA LeavingMakes ==
  ASSUME MachineInv, ResultsRight, NEW r \in 0 .. 31
  PROVE  ResultMakes(FromMultiplier, r, After(r))
<1> DEFINE op == mul_pipe[MulLatency]
<1>1. CASE op = Bubble
  BY <1>1, NothingLeaves, BubbleMakes
<1>2. CASE op # Bubble
  <2>1. /\ FromMultiplier.index = op.index
        /\ Len(FromMultiplier.result) = Len(op.product)
        /\ \A l \in 1 .. Len(op.product) :
             FromMultiplier.result[l] = Add(op.product[l], op.acc[l])
    BY <1>2, Leaving DEF MachineInv
  <2>2. MulLatency \in 1 .. MulLatency
    BY MacLatencyAssumption
  <2>3. op.index \in 0 .. 31 /\ Len(op.product) \in 1 .. 4 /\ op.busy
    BY <1>2, <2>2, Stages DEF MachineInv, MulOp, Words
  <2>4. MulMakes(op, r, After(r))
    BY <2>2 DEF ResultsRight, Accumulators
  <2> SUFFICES ASSUME r \in op.index .. op.index + Len(op.product) - 1
               PROVE  FromMultiplier.result[r - op.index + 1] = After(r)
    BY <2>1 DEF ResultMakes, Writes
  <2> HIDE DEF op
  <2>5. r - op.index + 1 \in 1 .. Len(op.product)
    BY <2>3, Interval
  <2>6. Add(op.product[r - op.index + 1], op.acc[r - op.index + 1]) = After(r)
    BY <2>3, <2>4 DEF MulMakes, Writes
  <2> QED
    BY <2>1, <2>5, <2>6
<1> QED
  BY <1>1, <1>2

LEMMA ResultsStep ==
  ASSUME Commutative, MachineInv, ValuesInv, curr_state # "IDLE", NEW bus, Tick(bus),
         C!Step(FALSE, mac_empty, sig_empty, Layout), test' = test
  PROVE  ResultsRight'
<1> SUFFICES ASSUME NEW r \in 0 .. 31
             PROVE  /\ \A s \in 1 .. MulLatency : MulMakes(mul_pipe[s], r, After(r))'
                    /\ \A s \in 1 .. AddLatency : ResultMakes(add_pipe[s], r, After(r))'
                    /\ \A s \in 1 .. SigLatency : ResultMakes(sig_pipe[s], r, After(r))'
  BY DEF ResultsRight, Accumulators
<1>1. C!ControllerInv /\ ResultsRight
  BY DEF MachineInv, ValuesInv
<1>2. SamePass => After(r)' = After(r)
  BY <1>1, PassGoesOn
<1>3. curr_state \in IssueStates => After(r)' = After(r)
  BY <1>1, <1>2, BusyPass
<1>4. ASSUME NEW s \in 1 .. MulLatency PROVE MulMakes(mul_pipe[s]', r, After(r)')
  <2>1. CASE s = 1
    <3>1. mul_pipe'[1] = IF curr_state = "MAC_ISSUE" THEN IssuedProduct ELSE Bubble
      BY Shifted
    <3> QED
      BY <1>3, <2>1, <3>1, BubbleMakes, IssuedMakes DEF IssueStates
  <2>2. CASE s \in 2 .. MulLatency
    <3>1. mul_pipe'[s] = mul_pipe[s - 1] /\ s - 1 \in 1 .. MulLatency
      BY <2>2, Shifted, MacLatencyAssumption
    <3>2. mul_pipe[s - 1] # Bubble => After(r)' = After(r)
      BY <1>1, <1>2, <3>1, Stages, BusyPass DEF MachineInv, MulStates, AddStates
    <3>3. MulMakes(mul_pipe[s - 1], r, After(r))
      BY <1>1, <3>1 DEF ResultsRight, Accumulators
    <3> QED
      BY <3>1, <3>2, <3>3, BubbleMakes
  <2> QED
    BY <2>1, <2>2
<1>5. ASSUME NEW s \in 1 .. AddLatency PROVE ResultMakes(add_pipe[s]', r, After(r)')
  <2>1. CASE s = 1
    <3>1. add_pipe'[1] = IF curr_state = "BIAS_ISSUE" THEN IssuedSum ELSE FromMultiplier
      BY Shifted
    <3>2. CASE curr_state = "BIAS_ISSUE"
      BY <1>3, <2>1, <3>1, <3>2, IssuedMakes DEF IssueStates
    <3>3. CASE curr_state # "BIAS_ISSUE"
      <4>1. MulLatency \in 1 .. MulLatency
        BY MacLatencyAssumption
      <4>2. mul_pipe[MulLatency] # Bubble => After(r)' = After(r)
        BY <1>1, <1>2, <4>1, Stages, BusyPass DEF MachineInv, MulStates, AddStates
      <4>3. ResultMakes(FromMultiplier, r, After(r))
        BY <1>1, LeavingMakes
      <4> QED
        BY <2>1, <3>1, <3>3, <4>2, <4>3, NothingLeaves, BubbleMakes
    <3> QED
      BY <3>2, <3>3
  <2>2. CASE s \in 2 .. AddLatency
    <3>1. add_pipe'[s] = add_pipe[s - 1] /\ s - 1 \in 1 .. AddLatency
      BY <2>2, Shifted, MacLatencyAssumption
    <3>2. add_pipe[s - 1] # Bubble => After(r)' = After(r)
      BY <1>1, <1>2, <3>1, Stages, BusyPass DEF MachineInv
    <3>3. ResultMakes(add_pipe[s - 1], r, After(r))
      BY <1>1, <3>1 DEF ResultsRight, Accumulators
    <3> QED
      BY <3>1, <3>2, <3>3, BubbleMakes
  <2> QED
    BY <2>1, <2>2
<1>6. ASSUME NEW s \in 1 .. SigLatency PROVE ResultMakes(sig_pipe[s]', r, After(r)')
  <2>1. CASE s = 1
    <3>1. sig_pipe'[1] = IF curr_state = "SIGMOID_ISSUE" THEN IssuedSquash ELSE SigBubble
      BY Shifted
    <3> QED
      BY <1>3, <2>1, <3>1, BubbleMakes, IssuedMakes DEF IssueStates
  <2>2. CASE s \in 2 .. SigLatency
    <3>1. sig_pipe'[s] = sig_pipe[s - 1] /\ s - 1 \in 1 .. SigLatency
      BY <2>2, Shifted, SigLatencyAssumption
    <3>2. sig_pipe[s - 1] # SigBubble => After(r)' = After(r)
      BY <1>1, <1>2, <3>1, Stages, BusyPass DEF MachineInv
    <3>3. ResultMakes(sig_pipe[s - 1], r, After(r))
      BY <1>1, <3>1 DEF ResultsRight, Accumulators
    <3> QED
      BY <3>1, <3>2, <3>3, BubbleMakes
  <2> QED
    BY <2>1, <2>2
<1> QED
  BY <1>4, <1>5, <1>6
(* An operation under way stays so until it is written.                     *)
LEMMA ComingStep ==
  ASSUME MachineInv, curr_state # "IDLE", NEW bus, Tick(bus),
         C!Step(FALSE, mac_empty, sig_empty, Layout), NEW r \in 0 .. 31
  PROVE  /\ Coming(r) => \/ Coming(r)'
                         \/ Writes(mac_o, mac_o.result, r)
                         \/ Writes(sig_o, sig_o.result, r)
         /\ curr_state \in IssueStates
              /\ r \in C!Issued .. C!Issued + Ctrl!IssuedLanes - 1 => Coming(r)'
<1>1. /\ MulLatency \in Nat \ {0} /\ AddLatency \in Nat \ {0} /\ SigLatency \in Nat \ {0}
      /\ 1 \in 1 .. MulLatency /\ 1 \in 1 .. AddLatency /\ 1 \in 1 .. SigLatency
  BY MacLatencyAssumption, SigLatencyAssumption
<1>2. ASSUME NEW s \in 1 .. MulLatency, Writes(mul_pipe[s], mul_pipe[s].product, r)
      PROVE  Coming(r)'
  <2>1. mul_pipe[s].busy
    BY <1>2 DEF Writes
  <2>2. CASE s # MulLatency
    <3>1. s + 1 \in 2 .. MulLatency /\ s + 1 \in 1 .. MulLatency /\ (s + 1) - 1 = s
      BY <1>1, <2>2
    <3>2. mul_pipe'[s + 1] = mul_pipe[s]
      BY <3>1, Shifted
    <3> QED
      BY <1>2, <3>1, <3>2 DEF Coming, Writes
  <2>3. CASE s = MulLatency
    <3>1. mul_pipe[MulLatency] # Bubble /\ curr_state \in MulStates
      BY <2>1, <2>3, Stages DEF MachineInv
    <3>2. add_pipe'[1] = FromMultiplier
      BY <3>1, Shifted DEF MulStates
    <3>3. /\ FromMultiplier.busy = TRUE
          /\ FromMultiplier.index = mul_pipe[MulLatency].index
          /\ Len(FromMultiplier.result) = Len(mul_pipe[MulLatency].product)
      BY <3>1, Leaving DEF MachineInv
    <3>4. Writes(FromMultiplier, FromMultiplier.result, r)
      BY <1>2, <2>3, <3>3 DEF Writes
    <3> QED
      BY <1>1, <3>2, <3>4 DEF Coming, Writes
  <2> QED
    BY <2>2, <2>3
<1>3. ASSUME NEW s \in 1 .. AddLatency, Writes(add_pipe[s], add_pipe[s].result, r)
      PROVE  Coming(r)' \/ Writes(mac_o, mac_o.result, r)
  <2>1. CASE s # AddLatency
    <3>1. s + 1 \in 2 .. AddLatency /\ s + 1 \in 1 .. AddLatency /\ (s + 1) - 1 = s
      BY <1>1, <2>1
    <3>2. add_pipe'[s + 1] = add_pipe[s]
      BY <3>1, Shifted
    <3> QED
      BY <1>3, <3>1, <3>2 DEF Coming, Writes
  <2>2. CASE s = AddLatency
    BY <1>3, <2>2 DEF mac_o
  <2> QED
    BY <2>1, <2>2
<1>4. ASSUME NEW s \in 1 .. SigLatency, Writes(sig_pipe[s], sig_pipe[s].result, r)
      PROVE  Coming(r)' \/ Writes(sig_o, sig_o.result, r)
  <2>1. CASE s # SigLatency
    <3>1. s + 1 \in 2 .. SigLatency /\ s + 1 \in 1 .. SigLatency /\ (s + 1) - 1 = s
      BY <1>1, <2>1
    <3>2. sig_pipe'[s + 1] = sig_pipe[s]
      BY <3>1, Shifted
    <3> QED
      BY <1>4, <3>1, <3>2 DEF Coming, Writes
  <2>2. CASE s = SigLatency
    BY <1>4, <2>2 DEF sig_o
  <2> QED
    BY <2>1, <2>2
<1>5. ASSUME curr_state \in IssueStates,
             r \in C!Issued .. C!Issued + Ctrl!IssuedLanes - 1
      PROVE  Coming(r)'
  <2>1. CASE curr_state = "MAC_ISSUE"
    <3>1. /\ IssuedProduct.busy = TRUE /\ IssuedProduct.index = C!Issued
          /\ Len(IssuedProduct.product) = Ctrl!IssuedLanes
      BY <2>1, IssuedOps DEF MachineInv, IssueStates
    <3>2. mul_pipe'[1] = IssuedProduct
      BY <2>1, Shifted
    <3>3. Writes(IssuedProduct, IssuedProduct.product, r)
      BY <1>5, <3>1 DEF Writes
    <3> QED
      BY <1>1, <3>2, <3>3 DEF Coming, Writes
  <2>2. CASE curr_state = "BIAS_ISSUE"
    <3>1. /\ IssuedSum.busy = TRUE /\ IssuedSum.index = C!Issued
          /\ Len(IssuedSum.result) = Ctrl!IssuedLanes
      BY <2>2, IssuedOps DEF MachineInv, IssueStates
    <3>2. add_pipe'[1] = IssuedSum
      BY <2>2, Shifted
    <3>3. Writes(IssuedSum, IssuedSum.result, r)
      BY <1>5, <3>1 DEF Writes
    <3> QED
      BY <1>1, <3>2, <3>3 DEF Coming, Writes
  <2>3. CASE curr_state = "SIGMOID_ISSUE"
    <3>1. /\ IssuedSquash.busy = TRUE /\ IssuedSquash.index = C!Issued
          /\ Len(IssuedSquash.result) = Ctrl!IssuedLanes
      BY <2>3, IssuedOps DEF MachineInv, IssueStates
    <3>2. sig_pipe'[1] = IssuedSquash
      BY <2>3, Shifted
    <3>3. Writes(IssuedSquash, IssuedSquash.result, r)
      BY <1>5, <3>1 DEF Writes
    <3> QED
      BY <1>1, <3>2, <3>3 DEF Coming, Writes
  <2> QED
    BY <1>5, <2>1, <2>2, <2>3 DEF IssueStates
<1> QED
  BY <1>2, <1>3, <1>4, <1>5 DEF Coming

(* What leaves a pipe is for an accumulator that the pass has been at.      *)
LEMMA WritesPassed ==
  ASSUME MachineInv, NEW r \in 0 .. 31,
         \/ Writes(mac_o, mac_o.result, r)
         \/ Writes(sig_o, sig_o.result, r)
  PROVE  r < Passed
<1>1. Passed \in 0 .. 31
  BY PassedRange DEF MachineInv
<1>2. AddLatency \in 1 .. AddLatency /\ SigLatency \in 1 .. SigLatency
  BY MacLatencyAssumption, SigLatencyAssumption
<1>3. CASE Writes(mac_o, mac_o.result, r)
  <2>1. ResultOp(mac_o, Passed)
    BY <1>2, <1>3, Stages DEF MachineInv, mac_o, Writes
  <2>2. mac_o.index \in 0 .. 31 /\ Len(mac_o.result) \in 1 .. 4
        /\ mac_o.index + Len(mac_o.result) <= Passed
    BY <2>1 DEF ResultOp, Words
  <2>3. r \in 0 .. Passed - 1
    BY <1>1, <1>3, <2>2, Below DEF Writes
  <2> QED
    BY <1>1, <2>3
<1>4. CASE Writes(sig_o, sig_o.result, r)
  <2>1. ResultOp(sig_o, Passed)
    BY <1>2, <1>4, Stages DEF MachineInv, sig_o, Writes
  <2>2. sig_o.index \in 0 .. 31 /\ Len(sig_o.result) \in 1 .. 4
        /\ sig_o.index + Len(sig_o.result) <= Passed
    BY <2>1 DEF ResultOp, Words
  <2>3. r \in 0 .. Passed - 1
    BY <1>1, <1>4, <2>2, Below DEF Writes
  <2> QED
    BY <1>1, <2>3
<1> QED
  BY <1>3, <1>4
(* The accumulators in the cycles of a layer.                               *)
LEMMA AccumulatorsStep ==
  ASSUME MachineInv, ValuesInv, curr_state # "IDLE", NEW bus, Tick(bus),
         C!Step(FALSE, mac_empty, sig_empty, Layout), test' = test
  PROVE  AccumulatorsRight'
<1>1. C!ControllerInv /\ ResultsRight /\ AccumulatorsRight
  BY DEF MachineInv, ValuesInv
<1>2. curr_state \in C!States
  BY <1>1 DEF C!ControllerInv, C!TypeOK
<1>3. C!InLayer => /\ curr_layer \in 1 .. 2 /\ curr_layer_size = Net!Size(curr_layer)
                   /\ curr_layer_size \in 1 .. 31
  BY <1>1, InLayerFacts
<1>4. CASE SamePass
  <2>1. C!InLayer /\ curr_state # "CALC_LAYER_PREP"
    BY <1>4 DEF SamePass, C!InLayer, MulStates, AddStates, SigStates
  <2>2. curr_layer' = curr_layer
    BY <1>1, <1>4, PassGoesOn
  <2>3. ASSUME NEW r \in 0 .. Net!Size(curr_layer) - 1
        PROVE  IF r < Passed' THEN acc_data'[r] = After(r)' \/ Coming(r)'
               ELSE acc_data'[r] = Before(r)'
    <3>1. r \in 0 .. 31 /\ r < curr_layer_size
      BY <1>3, <2>1
    <3>2. /\ Passed \in 0 .. 31 /\ Passed' \in 0 .. 31 /\ Passed <= Passed'
          /\ After(r)' = After(r) /\ (Passed' <= r => Before(r)' = Before(r))
      BY <1>1, <1>4, <3>1, PassGoesOn
    <3>3. IF r < Passed THEN acc_data[r] = After(r) \/ Coming(r)
          ELSE acc_data[r] = Before(r)
      BY <1>1, <2>1 DEF AccumulatorsRight
    <3>4. acc_data'[r] = IF \/ Writes(mac_o, mac_o.result, r)
                            \/ Writes(sig_o, sig_o.result, r)
                         THEN After(r) ELSE acc_data[r]
      BY <1>1, <2>1, <3>1, WrittenRight
    <3>5. CASE r < Passed
      <4>1. r < Passed'
        BY <3>1, <3>2, <3>5
      <4>2. Coming(r) => \/ Coming(r)'
                         \/ Writes(mac_o, mac_o.result, r)
                         \/ Writes(sig_o, sig_o.result, r)
        BY <3>1, ComingStep
      <4>3. acc_data[r] = After(r) \/ Coming(r)
        BY <3>3, <3>5
      <4>4. acc_data'[r] = After(r) \/ Coming(r)'
        BY <3>4, <4>2, <4>3
      <4> QED
        BY <3>2, <4>1, <4>4
    <3>6. CASE ~(r < Passed) /\ r < Passed'
      <4>1. curr_state \in IssueStates
        BY <1>1, <1>4, <3>6, PassGoesOn
      <4>2. Passed = C!Issued /\ Passed' = C!Issued + Ctrl!IssuedLanes
        BY <1>1, <1>4, <4>1, PassGoesOn
      <4>3. C!Issued \in 0 .. 30 /\ Ctrl!IssuedLanes \in 1 .. 4
        BY <1>1, <4>1, IssuedGroup
      <4>4. r \in C!Issued .. C!Issued + Ctrl!IssuedLanes - 1
        BY <3>1, <3>6, <4>2, <4>3
      <4>5. Coming(r)'
        BY <3>1, <4>1, <4>4, ComingStep
      <4> QED
        BY <3>6, <4>5
    <3>7. CASE ~(r < Passed')
      <4>1. ~(r < Passed) /\ Passed' <= r
        BY <3>1, <3>2, <3>7
      <4>2. ~Writes(mac_o, mac_o.result, r) /\ ~Writes(sig_o, sig_o.result, r)
        BY <3>1, <4>1, WritesPassed
      <4> QED
        BY <3>2, <3>3, <3>4, <3>7, <4>1, <4>2
    <3> QED
      BY <3>5, <3>6, <3>7
  <2> QED
    BY <2>2, <2>3 DEF AccumulatorsRight
<1>5. CASE /\ curr_state \notin IssueStates
           /\ curr_state \notin AddStates \/ mac_empty
           /\ curr_state \notin SigStates \/ sig_empty
           /\ curr_state # "CALC_LAYER_PREP"
  <2>1. \A r \in 0 .. 31 : acc_data'[r] = acc_data[r]
    BY <1>1, <1>5, WrittenRight, EmptyPipes
  <2>2. \A r : ~Coming(r)
    BY <1>5, EmptyPipes
  <2>3. CASE curr_state \in {"LOAD_ACT", "BIAS_PREP", "SIGMOID_PREP"}
    <3>1. C!InLayer
      BY <2>3 DEF C!InLayer
    <3>2. /\ curr_layer' = curr_layer /\ Passed = 0 /\ Passed' = 0
          /\ \A r : Before(r)' = Before(r)
      BY <1>1, <2>3, PassBegins
    <3>3. ASSUME NEW r \in 0 .. Net!Size(curr_layer) - 1
          PROVE  ~(r < 0) /\ acc_data'[r] = Before(r)'
      <4>1. r \in 0 .. 31 /\ ~(r < 0)
        BY <1>3, <3>1
      <4>2. acc_data[r] = Before(r)
        BY <1>1, <3>1, <3>2, <4>1 DEF AccumulatorsRight
      <4> QED
        BY <2>1, <3>2, <4>1, <4>2
    <3> QED
      BY <3>2, <3>3 DEF AccumulatorsRight
  <2>4. CASE curr_state \in {"MAC_WAIT", "BIAS_WAIT", "SIGMOID_WAIT"} /\ curr_state' # curr_state
    <3>1. C!InLayer
      BY <2>4 DEF C!InLayer
    <3>2. /\ curr_layer' = curr_layer /\ Passed = curr_layer_size /\ Passed' = 0
          /\ \A r : Before(r)' = After(r)
      BY <1>1, <2>4, PassEnds
    <3>3. ASSUME NEW r \in 0 .. Net!Size(curr_layer) - 1
          PROVE  ~(r < 0) /\ acc_data'[r] = Before(r)'
      <4>1. r \in 0 .. 31 /\ ~(r < 0) /\ r < Passed
        BY <1>3, <3>1, <3>2
      <4>2. acc_data[r] = After(r)
        BY <1>1, <2>2, <3>1, <4>1 DEF AccumulatorsRight
      <4> QED
        BY <2>1, <3>2, <4>1, <4>2
    <3> QED
      BY <3>2, <3>3 DEF AccumulatorsRight
  <2>5. CASE curr_state \in {"STORE_PREP", "STORE_OUTPUT"}
    <3>1. C!InLayer
      BY <2>5 DEF C!InLayer
    <3>2. curr_layer' = curr_layer /\ curr_state' \in {"STORE_OUTPUT", "LAYER_DONE"}
      BY <2>5, StepOfState DEF C!StorePrep, C!StoreOutput
    <3>3. Passed = 0 /\ Passed' = 0
      BY <2>5, <3>2 DEF Passed
    <3>4. \A r : Before(r)' = Before(r)
      BY <2>5, <3>2 DEF Before
    <3>5. ASSUME NEW r \in 0 .. Net!Size(curr_layer) - 1
          PROVE  ~(r < 0) /\ acc_data'[r] = Before(r)'
      <4>1. r \in 0 .. 31 /\ ~(r < 0)
        BY <1>3, <3>1
      <4>2. acc_data[r] = Before(r)
        BY <1>1, <3>1, <3>3, <4>1 DEF AccumulatorsRight
      <4> QED
        BY <2>1, <3>4, <4>1, <4>2
    <3> QED
      BY <3>2, <3>3, <3>5 DEF AccumulatorsRight
  <2>6. CASE curr_state \in {"LAYER_DONE", "DONE"}
    <3>1. ~C!InLayer'
      BY <2>6, StepOfState DEF C!LayerDone, C!Done, C!InLayer
    <3> QED
      BY <3>1 DEF AccumulatorsRight
  <2>7. CASE curr_state \in {"MAC_WAIT", "BIAS_WAIT", "SIGMOID_WAIT"} /\ curr_state' = curr_state
    <3>1. SamePass
      BY <2>7 DEF SamePass, MulStates, AddStates, SigStates
    <3> QED
      BY <1>4, <3>1
  <2> QED
    BY <1>2, <1>5, <2>3, <2>4, <2>5, <2>6, <2>7 DEF C!States, IssueStates
<1>6. CASE curr_state = "CALC_LAYER_PREP"
  <2>1. /\ curr_layer \in 1 .. 2
        /\ curr_state' = "LOAD_ACT" /\ curr_layer' = curr_layer
        /\ acts_remaining' = IF curr_layer = 1 THEN InputSize ELSE HiddenSize
    BY <1>1, <1>6, StepOfState
    DEF C!CalcLayerPrep, Layout, C!ControllerInv, C!LayerLoaded
  <2>2. C!Loaded' = 0
    BY <2>1, Sizes DEF C!Loaded, C!Inputs, Layout
  <2>3. Passed' = 0
    BY <2>1 DEF Passed
  <2>4. ASSUME NEW r \in 0 .. Net!Size(curr_layer) - 1
        PROVE  ~(r < 0) /\ acc_data'[r] = Before(r)'
    <3>1. r \in 0 .. 31 /\ ~(r < 0)
      BY <2>1, Sizes
    <3>2. acc_data'[r] = Zero
      BY <1>6, <3>1, Writeback
    <3>3. Before(r)' = Accumulated(test, curr_layer, r, 0)
      BY <2>1, <2>2 DEF Before
    <3>4. Accumulated(test, curr_layer, r, 0) = Zero
      BY <2>1, AccumulatedSteps
    <3> QED
      BY <3>1, <3>2, <3>3, <3>4
  <2> QED
    BY <2>1, <2>3, <2>4 DEF AccumulatorsRight
<1>7. CASE curr_state \in IssueStates \/ (~mac_empty /\ curr_state \in AddStates)
           \/ (~sig_empty /\ curr_state \in SigStates)
  BY <1>1, <1>4, <1>7, BusyPass
<1> QED
  BY <1>5, <1>6, <1>7
(* The area of the activations is within the memory.                        *)
LEMMA ActivationsFit ==
  ASSUME NEW l \in 0 .. 2, NEW m \in 0 .. Net!Size(l) - 1
  PROVE  InputStart + m \in 0 .. RamWords - 1
<1>1. CASE l = 0
  <2>1. m \in 0 .. InputSize
    BY <1>1, Sizes
  <2> QED
    BY <2>1, PointersFit
<1>2. CASE l \in 1 .. 2
  <2>1. m \in 0 .. 31 /\ (m <= HiddenSize \/ m <= OutputSize)
    BY <1>2, Sizes
  <2> QED
    BY <2>1, PointersFit
<1> QED
  BY <1>1, <1>2

(* The activations stay while nothing is written.                           *)
LEMMA HoldsKept ==
  ASSUME ram0' = ram0, ram1' = ram1, test' = test, NEW l, NEW n, Holds(l, n)
  PROVE  \A m \in 0 .. n - 1 : RamWord(InputStart + m)' = Acts(test, l)[m]
BY DEF Holds, RamWord

(* A store puts the next outputs of the layer after those that are stored.  *)
LEMMA StoreStep ==
  ASSUME MachineInv, ValuesInv, curr_state = "STORE_OUTPUT", test' = test,
         IF C!RamRequest(Layout).ren \/ C!RamRequest(Layout).wen
         THEN RamStep(C!RamRequest(Layout), ReadAcc(Ctrl!reg_sel, 4))
         ELSE \E din : RamStep([ren |-> TRUE, wen |-> FALSE, four |-> FALSE,
                                addr |-> work_ptr], din)
  PROVE  \A m \in 0 .. C!Issued + Ctrl!IssuedLanes - 1 :
           RamWord(InputStart + m)' = Acts(test, curr_layer)[m]
<1> SUFFICES ASSUME NEW m \in 0 .. C!Issued + Ctrl!IssuedLanes - 1
             PROVE  RamWord(InputStart + m)' = Acts(test, curr_layer)[m]
  OBVIOUS
<1>1. C!ControllerInv
  BY DEF MachineInv
<1>2. /\ curr_layer \in 1 .. 2 /\ curr_layer_size = Net!Size(curr_layer)
      /\ Net!Size(curr_layer) \in 1 .. 31
  BY <1>1, InLayerFacts, Sizes DEF C!InLayer
<1>3. /\ C!Issued \in 0 .. 30 /\ Ctrl!IssuedLanes \in 1 .. 4
      /\ C!Issued + Ctrl!IssuedLanes <= Net!Size(curr_layer)
  BY <1>1, <1>2, IssuedGroup
<1>4. m \in 0 .. Net!Size(curr_layer) - 1
  BY <1>2, <1>3
<1>5. InputStart + m \in 0 .. RamWords - 1 /\ InputStart \in Nat
  BY <1>2, <1>4, ActivationsFit, Areas
<1> DEFINE start == InputStart + C!Issued
<1>6. \A a \in 0 .. RamWords - 1 :
        RamWord(a)' = IF a \in start .. start + 3
                      THEN acc_data[C!Issued + a - start] ELSE RamWord(a)
  BY PollRam
<1>7. RamWord(InputStart + m)' = IF InputStart + m \in start .. start + 3
                                 THEN acc_data[C!Issued + (InputStart + m) - start]
                                 ELSE RamWord(InputStart + m)
  BY <1>5, <1>6
<1>8. CASE m < C!Issued
  <2>1. InputStart + m \notin start .. start + 3 /\ m \in 0 .. C!Issued - 1
    BY <1>3, <1>4, <1>5, <1>8
  <2>2. RamWord(InputStart + m) = Acts(test, curr_layer)[m]
    BY <2>1 DEF ValuesInv, ActivationsRight, Holds
  <2> QED
    BY <1>7, <2>1, <2>2
<1>9. CASE ~(m < C!Issued)
  <2>1. InputStart + m \in start .. start + 3
        /\ C!Issued + (InputStart + m) - start = m
    BY <1>3, <1>4, <1>5, <1>9
  <2>2. Passed = 0 /\ C!InLayer /\ ~(m < 0)
    BY <1>4 DEF Passed, C!InLayer
  <2>3. acc_data[m] = Before(m)
    BY <1>4, <2>2 DEF ValuesInv, AccumulatorsRight
  <2>4. Before(m) = Acts(test, curr_layer)[m]
    BY DEF Before
  <2> QED
    BY <1>7, <2>1, <2>3, <2>4
<1> QED
  BY <1>8, <1>9

(* The activation that is loaded is the next one of the layer.              *)
LEMMA LoadStep ==
  ASSUME MachineInv, ValuesInv, curr_state = "LOAD_ACT", NEW bus, Tick(bus)
  PROVE  act_data' = Acts(test, curr_layer - 1)[C!Loaded]
<1>1. C!ControllerInv
  BY DEF MachineInv
<1>2. /\ curr_layer \in 1 .. 2 /\ C!Inputs = Net!Size(curr_layer - 1)
      /\ Layout.addr_act = InputStart /\ acts_remaining \in Nat
      /\ Net!Size(curr_layer - 1) \in Nat
  BY <1>1, InLayerFacts, Sizes DEF C!InLayer
<1>3. /\ C!Loaded \in 0 .. Net!Size(curr_layer - 1) - 1
      /\ Fetched = C!Read(1, InputStart + C!Loaded)
  BY <1>1, <1>2
  DEF C!ControllerInv, C!ActivationInStep, C!LoopPointers, C!Accumulating, C!Loaded
<1>4. four_flop = FALSE /\ addr_flop = InputStart + C!Loaded
  <2>1. (1 = 4) = FALSE
    OBVIOUS
  <2>2. C!Read(1, InputStart + C!Loaded) =
          [ren |-> TRUE, wen |-> FALSE, four |-> FALSE, addr |-> InputStart + C!Loaded]
    BY <2>1, Zenon DEF C!Read
  <2> QED
    BY <1>3, <2>2 DEF Fetched
<1>5. dout[1] = RamWord(InputStart + C!Loaded)
  BY <1>4 DEF MachineInv, RamOK, Used
<1>6. RamWord(InputStart + C!Loaded) = Acts(test, curr_layer - 1)[C!Loaded]
  BY <1>3 DEF ValuesInv, ActivationsRight, Holds
<1> QED
  BY <1>5, <1>6, ActivationLoaded

(* The states a state of the controller is followed by.                     *)
LEMMA Successors ==
  ASSUME C!ControllerInv, curr_state # "IDLE",
         C!Step(FALSE, mac_empty, sig_empty, Layout)
  PROVE  /\ curr_state' = "STORE_OUTPUT" => curr_state \in {"STORE_PREP", "STORE_OUTPUT"}
         /\ curr_state' = "LAYER_DONE" => curr_state = "STORE_OUTPUT"
         /\ curr_state' \in {"DONE", "IDLE"} => curr_state \in {"LAYER_DONE", "DONE"}
         /\ curr_state' = "MAC_ISSUE" => curr_state \in {"LOAD_ACT", "MAC_ISSUE"}
         /\ curr_state' \notin {"IDLE", "STORE_OUTPUT", "LAYER_DONE", "DONE"} =>
              curr_state \notin {"STORE_OUTPUT", "DONE"}
         /\ curr_state # "LAYER_DONE" => curr_layer' = curr_layer
<1>1. curr_state \in C!States
  BY DEF C!ControllerInv, C!TypeOK
<1> QED
  BY <1>1
  DEF C!States, C!Step, C!Idle, C!CalcLayerPrep, C!LoadAct, C!MacIssue, C!MacWait,
      C!BiasPrep, C!BiasIssue, C!BiasWait, C!SigmoidPrep, C!SigmoidIssue,
      C!SigmoidWait, C!StorePrep, C!StoreOutput, C!LayerDone, C!Done

(* Each step keeps the area of the activations right.                       *)
LEMMA ActivationsStep ==
  ASSUME MachineInv, ValuesInv, curr_state # "IDLE", NEW bus, Tick(bus),
         C!Step(FALSE, mac_empty, sig_empty, Layout),
         pc = "poll", pc' = "poll", test' = test,
         IF C!RamRequest(Layout).ren \/ C!RamRequest(Layout).wen
         THEN RamStep(C!RamRequest(Layout), ReadAcc(Ctrl!reg_sel, 4))
         ELSE \E din : RamStep([ren |-> TRUE, wen |-> FALSE, four |-> FALSE,
                                addr |-> work_ptr], din)
  PROVE  ActivationsRight'
<1>1. C!ControllerInv /\ ActivationsRight
  BY DEF MachineInv, ValuesInv
<1>2. curr_state # "STORE_OUTPUT" => ram0' = ram0 /\ ram1' = ram1
  BY PollRam
<1>3. C!InLayer => /\ curr_layer \in 1 .. 2 /\ nlayers = 2
                   /\ curr_layer_size = Net!Size(curr_layer)
  BY <1>1, InLayerFacts
<1>4. (curr_state \notin {"IDLE", "STORE_OUTPUT", "LAYER_DONE", "DONE"})' =>
        \A m \in 0 .. Net!Size(curr_layer' - 1) - 1 :
          RamWord(InputStart + m)' = Acts(test, curr_layer' - 1)[m]
  <2> SUFFICES ASSUME curr_state' \notin {"IDLE", "STORE_OUTPUT", "LAYER_DONE", "DONE"}
               PROVE  \A m \in 0 .. Net!Size(curr_layer' - 1) - 1 :
                        RamWord(InputStart + m)' = Acts(test, curr_layer' - 1)[m]
    OBVIOUS
  <2>1. CASE curr_state = "LAYER_DONE"
    <3>1. curr_layer = 1 /\ curr_layer' = 2
      BY <1>3, <2>1, StepOfState DEF C!LayerDone, C!layers_pending, C!U3, C!InLayer
    <3>2. Holds(1, Net!Size(1))
      BY <1>1, <2>1, <3>1 DEF ActivationsRight
    <3>3. curr_layer' - 1 = 1
      BY <3>1
    <3> QED
      BY <1>2, <2>1, <3>2, <3>3, HoldsKept
  <2>2. CASE curr_state # "LAYER_DONE"
    <3>1. /\ curr_layer' = curr_layer
          /\ curr_state \notin {"IDLE", "STORE_OUTPUT", "LAYER_DONE", "DONE"}
      BY <1>1, <2>2, Successors
    <3>2. Holds(curr_layer - 1, Net!Size(curr_layer - 1))
      BY <1>1, <3>1 DEF ActivationsRight
    <3> QED
      BY <1>2, <3>1, <3>2, HoldsKept
  <2> QED
    BY <2>1, <2>2
<1>5. curr_state' = "STORE_OUTPUT" =>
        \A m \in 0 .. C!Issued' - 1 : RamWord(InputStart + m)' = Acts(test, curr_layer')[m]
  <2> SUFFICES ASSUME curr_state' = "STORE_OUTPUT"
               PROVE  \A m \in 0 .. C!Issued' - 1 :
                        RamWord(InputStart + m)' = Acts(test, curr_layer')[m]
    OBVIOUS
  <2>1. curr_state \in {"STORE_PREP", "STORE_OUTPUT"}
    BY <1>1, Successors
  <2>2. CASE curr_state = "STORE_PREP"
    <3>1. pending_issues' = curr_layer_size /\ curr_layer_size' = curr_layer_size
          /\ curr_layer_size \in 0 .. 31
      BY <1>1, <2>2, StepOfState DEF C!StorePrep, C!ControllerInv, C!TypeOK
    <3>2. C!Issued' = 0
      BY <3>1 DEF C!Issued
    <3> QED
      BY <3>2
  <2>3. CASE curr_state = "STORE_OUTPUT"
    <3>1. /\ curr_layer' = curr_layer
          /\ C!Issued \in 0 .. 30 /\ Ctrl!IssuedLanes \in 1 .. 4
          /\ C!Issued' = C!Issued + Ctrl!IssuedLanes
      <4>1. /\ UNCHANGED <<curr_layer, curr_layer_size>>
            /\ pending_issues' = C!PendingAfter
        BY <2>3, StepOfState DEF C!StoreOutput
      <4>2. /\ C!PendingAfter = curr_layer_size - (C!Issued + Ctrl!IssuedLanes)
            /\ C!Issued \in 0 .. 30 /\ Ctrl!IssuedLanes \in 1 .. 4
            /\ curr_layer_size \in 1 .. 31
        BY <1>1, <2>3, IssuedGroup
      <4>3. C!Issued' = curr_layer_size - C!PendingAfter
        BY <4>1 DEF C!Issued
      <4> QED
        BY <4>1, <4>2, <4>3
    <3>2. \A m \in 0 .. C!Issued + Ctrl!IssuedLanes - 1 :
            RamWord(InputStart + m)' = Acts(test, curr_layer)[m]
      BY <2>3, StoreStep
    <3> QED
      <4> SUFFICES ASSUME NEW m \in 0 .. C!Issued' - 1
                   PROVE  RamWord(InputStart + m)' = Acts(test, curr_layer')[m]
        OBVIOUS
      <4>1. m \in 0 .. C!Issued + Ctrl!IssuedLanes - 1
        BY <3>1
      <4>2. RamWord(InputStart + m)' = Acts(test, curr_layer)[m]
        BY <3>2, <4>1
      <4> QED
        BY <3>1, <4>2
  <2> QED
    BY <2>1, <2>2, <2>3
<1>6. curr_state' = "LAYER_DONE" =>
        \A m \in 0 .. Net!Size(curr_layer') - 1 :
          RamWord(InputStart + m)' = Acts(test, curr_layer')[m]
  <2> SUFFICES ASSUME curr_state' = "LAYER_DONE"
               PROVE  \A m \in 0 .. Net!Size(curr_layer') - 1 :
                        RamWord(InputStart + m)' = Acts(test, curr_layer')[m]
    OBVIOUS
  <2>1. curr_state = "STORE_OUTPUT"
    BY <1>1, Successors
  <2>2. curr_layer' = curr_layer /\ C!PendingAfter = 0
    BY <2>1, StepOfState DEF C!StoreOutput, C!issues_remaining
  <2>3. /\ C!Issued \in 0 .. 30 /\ Ctrl!IssuedLanes \in 1 .. 4
        /\ C!Issued + Ctrl!IssuedLanes = Net!Size(curr_layer)
    <3>1. /\ C!PendingAfter = curr_layer_size - (C!Issued + Ctrl!IssuedLanes)
          /\ C!Issued \in 0 .. 30 /\ Ctrl!IssuedLanes \in 1 .. 4
          /\ curr_layer_size \in 1 .. 31
      BY <1>1, <2>1, IssuedGroup
    <3>2. curr_layer_size = Net!Size(curr_layer)
      BY <1>3, <2>1 DEF C!InLayer
    <3> QED
      BY <2>2, <3>1, <3>2
  <2>4. \A m \in 0 .. C!Issued + Ctrl!IssuedLanes - 1 :
          RamWord(InputStart + m)' = Acts(test, curr_layer)[m]
    BY <2>1, StoreStep
  <2> QED
    <3> SUFFICES ASSUME NEW m \in 0 .. Net!Size(curr_layer') - 1
                 PROVE  RamWord(InputStart + m)' = Acts(test, curr_layer')[m]
      OBVIOUS
    <3>1. m \in 0 .. C!Issued + Ctrl!IssuedLanes - 1
      BY <2>2, <2>3
    <3>2. RamWord(InputStart + m)' = Acts(test, curr_layer)[m]
      BY <2>4, <3>1
    <3> QED
      BY <2>2, <3>2
<1>7. curr_state' \in {"DONE", "IDLE"} =>
        \A m \in 0 .. OutputSize - 1 : RamWord(InputStart + m)' = Acts(test, 2)[m]
  <2>1. CASE curr_state = "LAYER_DONE"
    <3>1. curr_state' \in {"DONE", "IDLE"} => curr_layer = 2
      BY <1>3, <2>1, StepOfState DEF C!LayerDone, C!layers_pending, C!InLayer
    <3>2. curr_layer = 2 => Holds(2, OutputSize)
      BY <1>1, <2>1, Sizes DEF ActivationsRight
    <3> QED
      BY <1>2, <2>1, <3>1, <3>2, HoldsKept
  <2>2. CASE curr_state = "DONE"
    <3>1. Holds(2, OutputSize)
      BY <1>1, <2>2 DEF ActivationsRight, Computed
    <3> QED
      BY <1>2, <2>2, <3>1, HoldsKept
  <2>3. CASE curr_state \notin {"LAYER_DONE", "DONE"}
    BY <1>1, <2>3, Successors
  <2> QED
    BY <2>1, <2>2, <2>3
<1>8. curr_state' = "MAC_ISSUE" =>
        act_data' = Acts(test, curr_layer' - 1)[C!Loaded' - 1]
  <2>1. CASE curr_state = "LOAD_ACT"
    <3>1. curr_layer' = curr_layer /\ C!Loaded' - 1 = C!Loaded
      BY <1>1, <2>1, PassBegins
    <3> QED
      BY <2>1, <3>1, LoadStep
  <2>2. CASE curr_state = "MAC_ISSUE"
    <3>1. UNCHANGED <<curr_layer, acts_remaining>>
      BY <2>2, StepOfState DEF C!MacIssue
    <3>2. C!Loaded' = C!Loaded
      BY <3>1 DEF C!Loaded, C!Inputs
    <3>3. act_data' = act_data
      BY <2>2, ActivationLoaded
    <3> QED
      BY <1>1, <2>2, <3>1, <3>2, <3>3 DEF ActivationsRight
  <2>3. CASE curr_state \notin {"LOAD_ACT", "MAC_ISSUE"}
    BY <1>1, <2>3, Successors
  <2> QED
    BY <2>1, <2>2, <2>3
<1> QED
  BY <1>4, <1>5, <1>6, <1>7, <1>8 DEF ActivationsRight, Holds, Computed
(* While the controller works, each cycle keeps the values right.           *)
LEMMA PollValues ==
  ASSUME Commutative, MachineInv, ValuesInv, curr_state # "IDLE", Program \/ IdleCycle
  PROVE  ValuesInv'
<1>1. /\ pc = "poll" /\ pc' = "poll" /\ test' = test /\ out' = out
      /\ Configuration = Layout
  BY PollCycle
<1>2. PICK bus \in {NoBus, BusRead(ADDR_COMMANDS)} : Tick(bus)
  BY PollCycle
<1>3. /\ C!Step(FALSE, mac_empty, sig_empty, Layout)
      /\ IF C!RamRequest(Layout).ren \/ C!RamRequest(Layout).wen
         THEN RamStep(C!RamRequest(Layout), ReadAcc(Ctrl!reg_sel, 4))
         ELSE \E din : RamStep([ren |-> TRUE, wen |-> FALSE, four |-> FALSE,
                                addr |-> work_ptr], din)
  BY <1>1, <1>2, PollTick
<1>4. ResultsRight'
  BY <1>1, <1>2, <1>3, ResultsStep
<1>5. AccumulatorsRight'
  BY <1>1, <1>2, <1>3, AccumulatorsStep
<1>6. ActivationsRight'
  BY <1>1, <1>2, <1>3, ActivationsStep
<1>7. OutputsShape' /\ OutputsRight'
  BY <1>1 DEF ValuesInv, OutputsShape, OutputsRight
<1> QED
  BY <1>4, <1>5, <1>6, <1>7 DEF ValuesInv

(* Outside a layer the pipes are empty, and the accumulators do not count.  *)
LEMMA QuietValues ==
  ASSUME MachineInv', curr_state' \in {"IDLE", "CALC_LAYER_PREP"},
         ActivationsRight', OutputsShape', OutputsRight'
  PROVE  ValuesInv'
<1>1. /\ \A s \in 1 .. MulLatency : mul_pipe'[s] = Bubble
      /\ \A s \in 1 .. AddLatency : add_pipe'[s] = Bubble
      /\ \A s \in 1 .. SigLatency : sig_pipe'[s] = SigBubble
  BY DEF MachineInv, PipesOK, MulStates, AddStates, SigStates
<1>2. AccumulatorsRight'
  BY DEF AccumulatorsRight, C!InLayer
<1>3. ASSUME NEW r \in 0 .. 31
      PROVE  /\ \A s \in 1 .. MulLatency : MulMakes(mul_pipe[s]', r, After(r)')
             /\ \A s \in 1 .. AddLatency : ResultMakes(add_pipe[s]', r, After(r)')
             /\ \A s \in 1 .. SigLatency : ResultMakes(sig_pipe[s]', r, After(r)')
  BY <1>1, BubbleMakes
<1>4. ResultsRight'
  BY <1>3 DEF ResultsRight, Accumulators
<1> QED
  BY <1>2, <1>4 DEF ValuesInv

(* Where the program has not stored an input yet, or has its outputs.       *)
LEMMA RestingValues ==
  ASSUME MachineInv', curr_state' = "IDLE", OutputsShape',
         pc' \notin {"input", "acc_start", "poll", "read_output", "data",
                     "advance", "reset_ptr", "returned"}
  PROVE  ValuesInv'
<1>1. ActivationsRight' /\ OutputsRight'
  BY DEF ActivationsRight, Computed, OutputsRight
<1> QED
  BY <1>1, QuietValues

(* The accesses that leave the area of the activations alone.               *)
LEMMA QuietActivations ==
  ASSUME MachineInv, MachineInv', ValuesInv, curr_state = "IDLE", NEW bus, Tick(bus),
         ~WritesData(bus), test' = test,
         pc' = "input" => i' = 0 \/ (pc = "input" /\ i' = i),
         pc' = "acc_start" => pc = "acc_start",
         curr_state' = "CALC_LAYER_PREP" => pc = "acc_start",
         curr_state' = "IDLE" /\ pc' \in {"poll", "read_output", "data", "advance"} =>
           pc \in {"poll", "read_output", "data", "advance"}
  PROVE  ActivationsRight'
<1>1. ram0' = ram0 /\ ram1' = ram1
  BY IdleTick, SlaveReads
<1>2. curr_state' \in {"IDLE", "CALC_LAYER_PREP"} /\ curr_layer' = 1
  BY IdleTick DEF C!Idle
<1>3. ActivationsRight
  BY DEF ValuesInv
<1>4. (pc = "input" => Holds(0, i))'
  <2>1. CASE pc' = "input" /\ i' = 0
    BY <2>1 DEF Holds
  <2>2. CASE pc' = "input" /\ pc = "input" /\ i' = i
    <3>1. Holds(0, i)
      BY <1>3, <2>2 DEF ActivationsRight
    <3>2. \A m \in 0 .. i - 1 : RamWord(InputStart + m)' = Acts(test, 0)[m]
      BY <1>1, <3>1, HoldsKept
    <3> QED
      BY <2>2, <3>2 DEF Holds
  <2> QED
    BY <2>1, <2>2
<1>5. (pc = "acc_start" => Holds(0, InputSize))'
  <2> SUFFICES ASSUME pc' = "acc_start" PROVE Holds(0, InputSize)'
    OBVIOUS
  <2>1. Holds(0, InputSize)
    BY <1>3 DEF ActivationsRight
  <2> QED
    BY <1>1, <2>1, HoldsKept DEF Holds
<1>6. curr_state' = "CALC_LAYER_PREP" =>
        \A m \in 0 .. Net!Size(0) - 1 : RamWord(InputStart + m)' = Acts(test, 0)[m]
  <2> SUFFICES ASSUME curr_state' = "CALC_LAYER_PREP"
               PROVE  \A m \in 0 .. Net!Size(0) - 1 :
                        RamWord(InputStart + m)' = Acts(test, 0)[m]
    OBVIOUS
  <2>1. Holds(0, Net!Size(0))
    BY <1>3, Sizes DEF ActivationsRight
  <2> QED
    BY <1>1, <2>1, HoldsKept
<1>7. curr_state' \notin {"IDLE", "STORE_OUTPUT", "LAYER_DONE", "DONE"} =>
        \A m \in 0 .. Net!Size(curr_layer' - 1) - 1 :
          RamWord(InputStart + m)' = Acts(test, curr_layer' - 1)[m]
  <2>1. curr_layer' - 1 = 0
    BY <1>2
  <2> QED
    BY <1>2, <1>6, <2>1
<1>8. Computed' => Holds(2, OutputSize)'
  <2> SUFFICES ASSUME Computed' PROVE Holds(2, OutputSize)'
    OBVIOUS
  <2>1. curr_state' = "IDLE" => pc' \in {"poll", "read_output", "data", "advance"}
    BY DEF Computed
  <2>2. curr_state' = "CALC_LAYER_PREP" => pc' \in {"read_output", "data", "advance"}
    BY DEF Computed
  <2>3. curr_state' = "IDLE"
    BY <1>2, <2>2 DEF MachineInv, PollInStep
  <2>4. Holds(2, OutputSize)
    BY <1>3, <2>1, <2>3 DEF ActivationsRight, Computed
  <2> QED
    BY <1>1, <2>4, HoldsKept DEF Holds
<1> QED
  BY <1>2, <1>4, <1>5, <1>7, <1>8 DEF ActivationsRight, Holds
----------------------------------------------------------------------------
(* One step of the program at a time.                                       *)

(* At power up, after a reset, and while the network is programmed.         *)
LEMMA ValuesInit == SystemInit => ValuesInv
<1> SUFFICES ASSUME SystemInit PROVE ValuesInv
  OBVIOUS
<1>1. pc = "clear" /\ out = NoOutput /\ curr_state = "IDLE" /\ MacInit /\ SigInit
  BY DEF SystemInit, AccelInit, Ctrl!Init
<1>2. AccumulatorsRight
  BY <1>1 DEF AccumulatorsRight, C!InLayer
<1>3. ResultsRight
  <2> SUFFICES ASSUME NEW r \in Accumulators
               PROVE  /\ \A s \in 1 .. MulLatency : MulMakes(mul_pipe[s], r, After(r))
                      /\ \A s \in 1 .. AddLatency : ResultMakes(add_pipe[s], r, After(r))
                      /\ \A s \in 1 .. SigLatency : ResultMakes(sig_pipe[s], r, After(r))
    BY DEF ResultsRight
  <2> QED
    BY <1>1, BubbleMakes DEF MacInit, SigInit
<1>4. ActivationsRight /\ OutputsRight
  BY <1>1 DEF ActivationsRight, Computed, OutputsRight
<1>5. OutputsShape
  BY <1>1 DEF OutputsShape, NoOutput
<1> QED
  BY <1>2, <1>3, <1>4, <1>5 DEF ValuesInv

LEMMA ResetValues ==
  ASSUME MachineInv, ResetSystem
  PROVE  ValuesInv'
<1>1. MachineInv'
  BY MachineReset
<1>2. pc' = "clear" /\ out' = NoOutput /\ curr_state' = "IDLE"
  BY DEF ResetSystem, AccelReset, Ctrl!Reset
<1>3. OutputsShape'
  BY <1>2 DEF OutputsShape, NoOutput
<1> QED
  BY <1>1, <1>2, <1>3, RestingValues

LEMMA ProgrammingValues ==
  ASSUME MachineInv, ValuesInv, curr_state = "IDLE",
         \/ Clear \/ StartWeight \/ StoreWeight \/ AlignRow \/ StartBias \/ StoreBias
         \/ AlignBias \/ AlignEnd \/ ProgramSizes \/ NextTest
  PROVE  ValuesInv'
<1>1. MachineInv' /\ curr_state' = "IDLE"
  BY ClearInv, StartWeightInv, StoreWeightInv, AlignRowInv, StartBiasInv,
     StoreBiasInv, AlignBiasInv, AlignEndInv, ProgramSizesInv, NextTestInv
<1>2. pc' \in {"start_weight", "weight", "align_row", "start_bias", "bias",
               "align_bias", "align_end", "layer_size", "start_input", "finished"}
  BY DEF Clear, StartWeight, StoreWeight, AlignRow, StartBias, StoreBias,
         AlignBias, AlignEnd, ProgramSizes, NextTest, Command, Store, Loop
<1>3. out' = out
  BY DEF Clear, StartWeight, StoreWeight, AlignRow, StartBias, StoreBias,
         AlignBias, AlignEnd, ProgramSizes, NextTest, Command, Store
<1>4. OutputsShape'
  BY <1>3 DEF ValuesInv, OutputsShape
<1> QED
  BY <1>1, <1>2, <1>4, RestingValues

LEMMA StartInputValues ==
  ASSUME MachineInv, ValuesInv, curr_state = "IDLE", StartInput
  PROVE  ValuesInv'
<1>1. /\ pc' = "input" /\ i' = 0 /\ out' = out /\ test' = test
      /\ Tick(BusWrite(ADDR_COMMANDS, START_INPUT))
  BY DEF StartInput, Command
<1>2. MachineInv' /\ curr_state' = "IDLE"
  BY StartInputInv
<1>3. ActivationsRight'
  BY <1>1, <1>2, Accesses, QuietActivations
<1>4. OutputsShape' /\ OutputsRight'
  BY <1>1 DEF ValuesInv, OutputsShape, OutputsRight
<1> QED
  BY <1>2, <1>3, <1>4, QuietValues

(* The inputs are stored one after the other.                               *)
LEMMA StoreInputValues ==
  ASSUME MachineInv, ValuesInv, curr_state = "IDLE", StoreInput
  PROVE  ValuesInv'
<1>1. /\ pc = "input" /\ i' = i + 1 /\ out' = out /\ test' = test
      /\ pc' = IF i + 1 < InputSize THEN "input" ELSE "acc_start"
      /\ Tick(BusWrite(ADDR_DATA, Input(test, i)))
  BY DEF StoreInput, Store, Loop
<1>2. MachineInv' /\ curr_state' = "IDLE"
  BY StoreInputInv
<1>3. /\ i \in 0 .. InputSize - 1 /\ work_ptr = InputStart + i
      /\ InputStart \in Nat /\ InputSize \in Nat
  BY <1>1, Sizes, Areas DEF MachineInv, LoopsOK, PointerInStep
<1>4. \A a \in 0 .. RamWords - 1 :
        RamWord(a)' = IF a = work_ptr THEN Input(test, i) ELSE RamWord(a)
  BY <1>1, IdleTick, SlaveWrites
<1>5. ASSUME NEW m \in 0 .. i
      PROVE  RamWord(InputStart + m)' = Acts(test, 0)[m]
  <2>1. m \in 0 .. Net!Size(0) - 1 /\ m \in 0 .. InputSize - 1
    BY <1>3, Sizes
  <2>2. InputStart + m \in 0 .. RamWords - 1
    BY <2>1, ActivationsFit
  <2>3. Acts(test, 0)[m] = Input(test, m)
    BY <2>1 DEF Acts
  <2>4. m # i => m \in 0 .. i - 1 /\ InputStart + m # work_ptr
    BY <1>3
  <2>5. m # i => RamWord(InputStart + m) = Acts(test, 0)[m]
    BY <1>1, <2>4 DEF ValuesInv, ActivationsRight, Holds
  <2> QED
    BY <1>3, <1>4, <2>2, <2>3, <2>4, <2>5
<1>6. ActivationsRight'
  <2>1. (pc = "input" => Holds(0, i))'
    <3>1. (i + 1) - 1 = i
      BY <1>3
    <3> QED
      BY <1>1, <1>5, <3>1 DEF Holds
  <2>2. (pc = "acc_start" => Holds(0, InputSize))'
    <3>1. pc' = "acc_start" => InputSize - 1 = i
      BY <1>1, <1>3
    <3> QED
      BY <1>1, <1>5, <3>1 DEF Holds
  <2>3. pc' \notin {"poll", "read_output", "data", "advance"}
    BY <1>1
  <2> QED
    BY <1>2, <2>1, <2>2, <2>3 DEF ActivationsRight, Computed
<1>7. OutputsShape' /\ OutputsRight'
  BY <1>1 DEF ValuesInv, OutputsShape, OutputsRight
<1> QED
  BY <1>2, <1>6, <1>7, QuietValues

LEMMA AccStartValues ==
  ASSUME MachineInv, ValuesInv, curr_state = "IDLE", AccStart
  PROVE  ValuesInv'
<1>1. /\ pc = "acc_start" /\ pc' = "poll" /\ out' = out /\ test' = test
      /\ Tick(BusWrite(ADDR_COMMANDS, ACC_START))
  BY DEF AccStart, Command
<1>2. MachineInv' /\ curr_state' = "CALC_LAYER_PREP"
  BY AccStartInv
<1>3. ActivationsRight'
  BY <1>1, <1>2, Accesses, QuietActivations
<1>4. OutputsShape' /\ OutputsRight'
  BY <1>1 DEF ValuesInv, OutputsShape, OutputsRight
<1> QED
  BY <1>2, <1>3, <1>4, QuietValues

LEMMA PollingValues ==
  ASSUME MachineInv, ValuesInv, curr_state = "IDLE", BeginPoll \/ EndPoll \/ ReadOutput
  PROVE  ValuesInv'
<1>1. /\ pc \in {"poll", "read_output"} /\ out' = out /\ test' = test
      /\ pc' \in {"poll", "read_output"} \/ (pc' = "data" /\ i' = 0)
  BY DEF BeginPoll, EndPoll, ReadOutput, BeginRead, EndRead, Command
<1>2. MachineInv' /\ curr_state' = "IDLE"
  BY BeginPollInv, EndPollInv, ReadOutputInv
<1>3. PICK bus : Tick(bus) /\ ~WritesData(bus)
  BY Accesses DEF BeginPoll, EndPoll, ReadOutput, BeginRead, EndRead, Command
<1>4. ActivationsRight'
  BY <1>1, <1>2, <1>3, QuietActivations
<1>5. OutputsShape' /\ OutputsRight'
  BY <1>1 DEF ValuesInv, OutputsShape, OutputsRight
<1> QED
  BY <1>2, <1>4, <1>5, QuietValues

(* The outputs are read one after the other.                                *)
LEMMA EndDataValues ==
  ASSUME MachineInv, ValuesInv, curr_state = "IDLE", EndData
  PROVE  ValuesInv'
<1>1. /\ pc = "data" /\ pc' = "advance" /\ reading /\ i' = i /\ test' = test
      /\ out' = [out EXCEPT ![i] = Received(ADDR_DATA)]
      /\ Tick(BusRead(ADDR_DATA))
  BY DEF EndData, EndRead, loopVars
<1>2. MachineInv' /\ curr_state' = "IDLE"
  BY EndDataInv
<1>3. i \in 0 .. OutputSize - 1 /\ work_ptr = InputStart + i
  BY <1>1, Sizes DEF MachineInv, LoopsOK, PointerInStep
<1>4. Received(ADDR_DATA) = Acts(test, 2)[i]
  <2>1. Received(ADDR_DATA) = dout[1]
    BY DEF Received, ReadData, ADDR_DATA, dout
  <2>2. dout[1] = RamWord(InputStart + i)
    BY <1>1, <1>3 DEF MachineInv, RamOK, Used
  <2>3. Holds(2, OutputSize)
    BY <1>1 DEF ValuesInv, ActivationsRight, Computed
  <2> QED
    BY <1>3, <2>1, <2>2, <2>3 DEF Holds
<1>5. ActivationsRight'
  BY <1>1, <1>2, Accesses, QuietActivations
<1>6. out = [n \in 0 .. OutputSize - 1 |-> out[n]]
  BY DEF ValuesInv, OutputsShape
<1>7. /\ \A n \in 0 .. OutputSize - 1 :
           out'[n] = IF n = i THEN Received(ADDR_DATA) ELSE out[n]
      /\ out' = [n \in 0 .. OutputSize - 1 |-> out'[n]]
  BY <1>1, <1>6
<1>8. OutputsShape'
  BY <1>7 DEF OutputsShape
<1>9. OutputsRight'
  <2>1. ASSUME NEW n \in 0 .. i PROVE out'[n] = Acts(test, 2)[n]
    <3>1. n \in 0 .. OutputSize - 1 /\ (n # i => n \in 0 .. i - 1)
      BY <1>3, Sizes
    <3>2. n # i => out[n] = Acts(test, 2)[n]
      BY <1>1, <3>1 DEF ValuesInv, OutputsRight
    <3> QED
      BY <1>4, <1>7, <3>1, <3>2
  <2> QED
    BY <1>1, <2>1 DEF OutputsRight
<1> QED
  BY <1>2, <1>5, <1>8, <1>9, QuietValues

LEMMA ReadingValues ==
  ASSUME MachineInv, ValuesInv, curr_state = "IDLE",
         BeginData \/ Advance \/ ResetPointer
  PROVE  ValuesInv'
<1>1. /\ pc \in {"data", "advance", "reset_ptr"} /\ out' = out /\ test' = test
      /\ pc = "data" => pc' = "data" /\ i' = i
      /\ pc = "advance" =>
           i' = i + 1 /\ pc' = IF i + 1 < OutputSize THEN "data" ELSE "reset_ptr"
      /\ pc = "reset_ptr" => pc' = "returned"
  BY DEF BeginData, Advance, ResetPointer, BeginRead, Command, Loop, loopVars
<1>2. MachineInv' /\ curr_state' = "IDLE"
  BY BeginDataInv, AdvanceInv, ResetPointerInv
<1>3. PICK bus : Tick(bus) /\ ~WritesData(bus)
  BY Accesses DEF BeginData, Advance, ResetPointer, BeginRead, Command
<1>4. ActivationsRight'
  BY <1>1, <1>2, <1>3, QuietActivations
<1>5. OutputsShape'
  BY <1>1 DEF ValuesInv, OutputsShape
<1>6. OutputsRight'
  <2>1. OutputsRight
    BY DEF ValuesInv
  <2>2. CASE pc = "data"
    BY <1>1, <2>1, <2>2 DEF OutputsRight
  <2>3. CASE pc = "advance"
    <3>1. i \in 0 .. OutputSize - 1
      BY <2>3, Sizes DEF MachineInv, LoopsOK
    <3>2. (i + 1) - 1 = i /\ (pc' = "reset_ptr" => OutputSize - 1 = i)
      BY <1>1, <2>3, <3>1, Sizes
    <3>3. \A n \in 0 .. i : out'[n] = Acts(test, 2)[n]
      BY <1>1, <2>1, <2>3 DEF OutputsRight
    <3> QED
      BY <1>1, <2>3, <3>2, <3>3 DEF OutputsRight
  <2>4. CASE pc = "reset_ptr"
    BY <1>1, <2>1, <2>4 DEF OutputsRight
  <2> QED
    BY <1>1, <2>2, <2>3, <2>4
<1> QED
  BY <1>2, <1>4, <1>5, <1>6, QuietValues

LEMMA IdleCycleValues ==
  ASSUME MachineInv, ValuesInv, curr_state = "IDLE", IdleCycle
  PROVE  ValuesInv'
<1>1. /\ pc' = pc /\ i' = i /\ out' = out /\ test' = test /\ Tick(NoBus)
  BY DEF IdleCycle, driverVars, loopVars
<1>2. MachineInv' /\ curr_state' = "IDLE"
  BY IdleCycleInv
<1>3. ActivationsRight'
  BY <1>1, <1>2, Accesses, QuietActivations
<1>4. OutputsShape' /\ OutputsRight'
  BY <1>1 DEF ValuesInv, OutputsShape, OutputsRight
<1> QED
  BY <1>2, <1>3, <1>4, QuietValues

LEMMA StutterValues ==
  ASSUME ValuesInv, UNCHANGED systemVars
  PROVE  ValuesInv'
<1>1. /\ UNCHANGED <<acc_data, act_data, mul_pipe, add_pipe, sig_pipe, ram0, ram1>>
      /\ UNCHANGED <<curr_state, curr_layer, curr_layer_size, pending_issues, acts_remaining>>
      /\ UNCHANGED <<pc, i, test, out>>
  BY DEF systemVars, accelVars, macVars, regfileVars, ramVars, Ctrl!vars,
         driverVars, loopVars
<1>2. C!Loaded' = C!Loaded /\ C!Issued' = C!Issued
  BY <1>1 DEF C!Loaded, C!Issued, C!Inputs
<1>3. \A r : Before(r)' = Before(r) /\ After(r)' = After(r)
  BY <1>1, <1>2 DEF Before, After
<1>4. \A r : Coming(r)' = Coming(r)
  BY <1>1 DEF Coming, Writes
<1>5. Passed' = Passed
  BY <1>1, <1>2 DEF Passed
<1>6. AccumulatorsRight'
  BY <1>1, <1>3, <1>4, <1>5 DEF ValuesInv, AccumulatorsRight, C!InLayer
<1>7. ResultsRight'
  <2>1. ASSUME NEW r \in 0 .. 31
        PROVE  /\ \A s \in 1 .. MulLatency : MulMakes(mul_pipe[s]', r, After(r)')
               /\ \A s \in 1 .. AddLatency : ResultMakes(add_pipe[s]', r, After(r)')
               /\ \A s \in 1 .. SigLatency : ResultMakes(sig_pipe[s]', r, After(r)')
    BY <1>1, <1>3 DEF ValuesInv, ResultsRight, Accumulators
  <2> QED
    BY <2>1 DEF ResultsRight, Accumulators
<1>8. ActivationsRight'
  BY <1>1, <1>2 DEF ValuesInv, ActivationsRight, Holds, Computed, RamWord
<1>9. OutputsShape' /\ OutputsRight'
  BY <1>1 DEF ValuesInv, OutputsShape, OutputsRight
<1> QED
  BY <1>6, <1>7, <1>8, <1>9 DEF ValuesInv

(* Every step keeps the values right, if the operations are commutative.    *)
LEMMA ValuesNext ==
  ASSUME Commutative, MachineInv, ValuesInv, [SystemNext]_systemVars
  PROVE  ValuesInv'
<1>1. CASE ResetSystem
  BY <1>1, ResetValues
<1>2. CASE (Program \/ IdleCycle) /\ curr_state # "IDLE"
  BY <1>2, PollValues
<1>3. CASE (Program \/ IdleCycle) /\ curr_state = "IDLE"
  BY <1>3, ProgrammingValues, StartInputValues, StoreInputValues, AccStartValues,
     PollingValues, EndDataValues, ReadingValues, IdleCycleValues
  DEF Program
<1>4. CASE UNCHANGED systemVars
  BY <1>4, StutterValues
<1> QED
  BY <1>1, <1>2, <1>3, <1>4 DEF SystemNext

(* The invariant of the whole system, under that condition: every word that *)
(* is computed is the one feedforward() has at that point.                  *)
THEOREM SystemInvariant == SystemSpec => [](Commutative => SystemInv)
<1>1. SystemInit => (Commutative => ValuesInv)
  BY ValuesInit
<1>2. MachineInv /\ (Commutative => ValuesInv) /\ [SystemNext]_systemVars
        => (Commutative => ValuesInv)'
  <2> SUFFICES ASSUME MachineInv, Commutative => ValuesInv, [SystemNext]_systemVars,
                      Commutative'
               PROVE  ValuesInv'
    OBVIOUS
  <2>1. Commutative
    BY DEF Commutative
  <2> QED
    BY <2>1, ValuesNext
<1>3. MachineInv /\ (Commutative => ValuesInv) => (Commutative => SystemInv)
  BY DEF SystemInv
<1> QED
  BY <1>1, <1>2, <1>3, MachineInvariant, PTL DEF SystemSpec

(* When feedforward_hw() returns, the outputs are those of feedforward().   *)
LEMMA CorrectFromInv == ValuesInv => OutputCorrect
<1> SUFFICES ASSUME ValuesInv, pc = "returned" PROVE out = Net!feedforward(test)
  BY DEF OutputCorrect
<1>1. \A n \in 0 .. OutputSize - 1 : out[n] = Net!feedforward(test)[n]
  <2>1. Acts(test, 2) = Net!feedforward(test)
    BY DEF Acts
  <2> QED
    BY <2>1 DEF ValuesInv, OutputsRight
<1>2. out = [n \in 0 .. OutputSize - 1 |-> out[n]]
  BY DEF ValuesInv, OutputsShape
<1>3. Net!feedforward(test) = [n \in 0 .. OutputSize - 1 |-> Net!feedforward(test)[n]]
  BY Sizes DEF Net!feedforward, Net!Activate
<1> QED
  BY <1>1, <1>2, <1>3

(* What the accelerator computes is what feedforward() computes, for every  *)
(* network and every float operations of which addition and multiplication  *)
(* are commutative.                                                         *)
THEOREM OutputIsCorrect == SystemSpec => [](Commutative => OutputCorrect)
<1>1. SystemInv => OutputCorrect
  BY CorrectFromInv DEF SystemInv
<1> QED
  BY <1>1, SystemInvariant, PTL
============================================================================
