----------------------------- MODULE MemoryProofs -----------------------------
(***************************************************************************)
(* Proofs about the two memories that hold what their users count on.  The *)
(* four-port RAM of the accelerator is one flat memory, for every number   *)
(* of words, every set of words and every sequence of requests.  The flash *)
(* driver writes what it says it has written and nothing else, for every   *)
(* chip, every layout of its blocks and every way it may fail.             *)
(***************************************************************************)
EXTENDS QuadportRamEnv, CfiFlash, WellFoundedInduction, TLAPS

-----------------------------------------------------------------------------
(* The four-port RAM.                                                      *)

(* The block RAMs and the words they show hold words.                       *)
RamInv ==
  /\ ram0 \in [BankAddress -> Word] /\ ram1 \in [BankAddress -> Word]
  /\ q_a \in Word /\ q_b \in Word /\ q_c \in Word /\ q_d \in Word
  /\ addr_flop \in Address /\ four_flop \in BOOLEAN

(* The place of a word, and of the words of its group.                      *)
LEMMA PlaceLemma ==
  ASSUME NEW a \in Address
  PROVE  /\ Internal(a) \in BankAddress /\ Even(a) \in BankAddress /\ Odd(a) \in BankAddress
         /\ Even(a) # Odd(a)
BY RamShapeAssumption DEF Address, BankAddress, Internal, Even, Odd

(* The words of a group, by lane: the first two in ram0, the others in ram1.*)
LEMMA GroupLemma ==
  ASSUME NEW a \in Address, NEW l \in 0 .. 3
  PROVE  /\ 4 * (a \div 4) + l \in Address
         /\ InRam1(4 * (a \div 4) + l) <=> l \in {2, 3}
         /\ Internal(4 * (a \div 4) + l) = IF l \in {0, 2} THEN Even(a) ELSE Odd(a)
<1> DEFINE k == a \div 4
           b == 4 * k + l
<1>1. k \in Nat /\ 4 * k <= a /\ b \in Address
  BY RamShapeAssumption DEF Address
<1>2. b \div 4 = k /\ b % 2 = l % 2 /\ (b \div 2) % 2 = l \div 2
  <2> HIDE DEF k
  <2> QED
    BY <1>1
<1> HIDE DEF k
<1>3. /\ InRam1(b) <=> l \in {2, 3}
      /\ Internal(b) = 2 * k + (l % 2)
  BY <1>1, <1>2 DEF InRam1, Internal
<1>4. 2 * k + (l % 2) = IF l \in {0, 2} THEN 2 * k ELSE 2 * k + 1
  BY <1>1
<1>5. /\ b \in Address /\ (InRam1(b) <=> l \in {2, 3})
      /\ Internal(b) = IF l \in {0, 2} THEN 2 * k ELSE 2 * k + 1
  BY <1>1, <1>3, <1>4
<1>6. Even(a) = 2 * k /\ Odd(a) = 2 * k + 1
  BY Zenon DEF k, Even, Odd
<1> HIDE DEF b
<1>7. /\ b \in Address /\ (InRam1(b) <=> l \in {2, 3})
      /\ Internal(b) = IF l \in {0, 2} THEN Even(a) ELSE Odd(a)
  BY <1>5, <1>6, Zenon
<1> QED
  BY <1>7 DEF b, k

(* Which words lie where: two addresses of one place are one address, and   *)
(* an address lies in the group of another when its place is one of two.    *)
LEMMA SamePlaceLemma ==
  ASSUME NEW a \in Address, NEW b \in Address
  PROVE  /\ a = b <=> Internal(a) = Internal(b) /\ (InRam1(a) <=> InRam1(b))
         /\ 4 * (b \div 4) = 4 * (a \div 4) <=> Internal(b) \in {Even(a), Odd(a)}
         /\ b % 4 = (IF InRam1(b) THEN 2 ELSE 0)
                    + (IF Internal(b) = 2 * (b \div 4) THEN 0 ELSE 1)
BY DEF Address, InRam1, Internal, Even, Odd

----------------------------------------------------------------------------
(* The types.                                                               *)

LEMMA RamInitLemma == RamInit => RamInv
<1>1. 0 \in Address /\ FALSE \in BOOLEAN
  BY RamShapeAssumption DEF Address
<1> QED
  BY <1>1, WordAssumption, Zenon DEF RamInit, RamInv

Lanes == [1 .. 4 -> Word]

LEMMA RamStepLemma ==
  ASSUME RamInv, NEW r \in BOOLEAN, NEW w \in BOOLEAN, NEW f \in BOOLEAN,
         NEW a \in Address, NEW din \in Lanes, RamStep(Request(r, w, f, a), din)
  PROVE  RamInv'
<1> DEFINE qram == Request(r, w, f, a)
<1>1. qram.ren = r /\ qram.wen = w /\ qram.four = f /\ qram.addr = a
  BY DEF Request
<1>2. \A l \in 1 .. 4 : din[l] \in Word
  BY DEF Lanes
<1> HIDE DEF qram
<1>3. addr_flop' \in Address /\ four_flop' \in BOOLEAN
  BY <1>1, Zenon DEF RamStep, qram
<1>4. CASE AccessOne(qram, din)
  BY <1>1, <1>2, <1>3, <1>4, PlaceLemma DEF AccessOne, RamInv
<1>5. CASE AccessFour(qram, din)
  BY <1>1, <1>2, <1>3, <1>5, PlaceLemma DEF AccessFour, RamInv
<1>6. CASE UNCHANGED <<ram0, ram1, q_a, q_b, q_c, q_d>>
  BY <1>3, <1>6, Zenon DEF RamInv
<1> QED
  BY <1>4, <1>5, <1>6, Zenon DEF RamStep, qram

LEMMA DinLemma ==
  /\ Nothing \in Lanes /\ 0 \in Address
  /\ \A w \in Word : [Nothing EXCEPT ![1] = w] \in Lanes
  /\ \A ws \in WrittenGroups : ws \in Lanes
BY RamShapeAssumption, WordAssumption DEF Nothing, Lanes, Address

LEMMA RamNextLemma == RamInv /\ [RamNext]_ramVars => RamInv'
<1> SUFFICES ASSUME RamInv, [RamNext]_ramVars
             PROVE  RamInv'
  OBVIOUS
<1>1. CASE Idle
  BY <1>1, DinLemma, RamStepLemma DEF Idle
<1>2. CASE RamReset
  BY <1>2, DinLemma DEF RamReset, RamInv
<1>3. CASE \E a \in Address, four \in BOOLEAN : Read(a, four)
  BY <1>3, DinLemma, RamStepLemma DEF Read
<1>4. CASE \E a \in Address, w \in Word : WriteWord(a, w)
  BY <1>4, DinLemma, RamStepLemma DEF WriteWord
<1>5. CASE \E a \in Address, ws \in WrittenGroups : WriteGroup(a, ws)
  BY <1>5, DinLemma, RamStepLemma DEF WriteGroup
<1>6. CASE UNCHANGED ramVars
  BY <1>6, Zenon DEF ramVars, RamInv
<1> QED
  BY <1>1, <1>2, <1>3, <1>4, <1>5, <1>6, Zenon DEF RamNext

(* What the RAM holds and shows are words.                                  *)
LEMMA ViewLemma ==
  ASSUME RamInv
  PROVE  Contents \in [Address -> Word] /\ Output \in [0 .. 3 -> Word]
<1>1. ASSUME NEW a \in Address
      PROVE  (IF InRam1(a) THEN ram1[Internal(a)] ELSE ram0[Internal(a)]) \in Word
  BY PlaceLemma DEF RamInv
<1>2. dout_a \in Word /\ dout_b \in Word /\ dout_c \in Word /\ dout_d \in Word
  BY WordAssumption, Zenon DEF dout_a, dout_b, dout_c, dout_d, RamInv
<1>3. Output \in [0 .. 3 -> Word]
  BY <1>2 DEF Output
<1> QED
  BY <1>1, <1>3, Zenon DEF Contents

LEMMA ViewNextLemma ==
  RamInv' => Contents' \in [Address -> Word] /\ Output' \in [0 .. 3 -> Word]
<1> DEFINE View == Contents \in [Address -> Word] /\ Output \in [0 .. 3 -> Word]
<1>1. RamInv => View
  BY ViewLemma
<1>2. View' => Contents' \in [Address -> Word] /\ Output' \in [0 .. 3 -> Word]
  OBVIOUS
<1> HIDE DEF View
<1> QED
  BY <1>1, <1>2, PTL
----------------------------------------------------------------------------
(* The operations.                                                          *)

LEMMA IdleLemma ==
  ASSUME RamInv, RamInv', Idle \/ RamReset
  PROVE  Flat!NoAccess
<1>1. ram0' = ram0 /\ ram1' = ram1
  BY DEF Idle, RamReset, RamStep, Request
<1>2. Contents' = Contents
  BY <1>1, Zenon DEF Contents
<1>3. Output' \in [0 .. 3 -> Word]
  BY ViewNextLemma, Zenon
<1> QED
  BY <1>2, <1>3, Zenon DEF Flat!NoAccess, Flat!Lanes

LEMMA ReadOneLemma ==
  ASSUME RamInv, RamInv', NEW a \in Address, Read(a, FALSE)
  PROVE  Flat!ReadOne(a)
<1>1. /\ addr_flop' = a /\ four_flop' = FALSE /\ ram0' = ram0 /\ ram1' = ram1
      /\ InRam1(a) => q_c' = ram1[Internal(a)]
      /\ ~ InRam1(a) => q_a' = ram0[Internal(a)]
  BY DEF Read, RamStep, Request, AccessOne
<1>2. Contents' = Contents
  BY <1>1, Zenon DEF Contents
<1>3. Output' \in [0 .. 3 -> Word]
  BY ViewNextLemma, Zenon
<1>4. dout_a' = Contents[a]
  BY <1>1, Zenon DEF dout_a, Contents
<1>5. Output'[0] = dout_a'
  BY DEF Output
<1> QED
  BY <1>2, <1>3, <1>4, <1>5, Zenon DEF Flat!ReadOne, Flat!Lanes

LEMMA ReadFourLemma ==
  ASSUME RamInv, RamInv', NEW a \in Address, Read(a, TRUE)
  PROVE  Flat!ReadFour(a)
<1>1. /\ four_flop' = TRUE /\ ram0' = ram0 /\ ram1' = ram1
      /\ q_a' = ram0[Even(a)] /\ q_b' = ram0[Odd(a)]
      /\ q_c' = ram1[Even(a)] /\ q_d' = ram1[Odd(a)]
  BY DEF Read, RamStep, Request, AccessFour
<1>2. Contents' = Contents
  BY <1>1, Zenon DEF Contents
<1>3. dout_a' = q_a' /\ dout_b' = q_b' /\ dout_c' = q_c' /\ dout_d' = q_d'
  BY <1>1, Zenon DEF dout_a, dout_b, dout_c, dout_d
<1>4. Output' = [l \in 0 .. 3 |-> <<q_a', q_b', q_c', q_d'>>[l + 1]]
  BY <1>3 DEF Output
<1>5. ASSUME NEW l \in 0 .. 3
      PROVE  Contents[4 * (a \div 4) + l] = <<q_a', q_b', q_c', q_d'>>[l + 1]
  <2> DEFINE b == 4 * (a \div 4) + l
  <2>1. /\ b \in Address /\ (InRam1(b) <=> l \in {2, 3})
        /\ Internal(b) = IF l \in {0, 2} THEN Even(a) ELSE Odd(a)
    BY GroupLemma, Zenon
  <2> HIDE DEF b
  <2>2. Contents[b] = IF l \in {2, 3} THEN ram1[IF l \in {0, 2} THEN Even(a) ELSE Odd(a)]
                      ELSE ram0[IF l \in {0, 2} THEN Even(a) ELSE Odd(a)]
    <3>1. Contents[b] = IF InRam1(b) THEN ram1[Internal(b)] ELSE ram0[Internal(b)]
      BY <2>1, Zenon DEF Contents
    <3> QED
      BY <2>1, <3>1
  <2>3. Contents[b] = <<q_a', q_b', q_c', q_d'>>[l + 1]
    BY <1>1, <2>2
  <2> QED
    BY <2>3 DEF b
<1>6. Output' = [l \in 0 .. 3 |-> Contents[4 * (a \div 4) + l]]
  BY <1>4, <1>5, Zenon
<1> QED
  BY <1>2, <1>6, Zenon DEF Flat!ReadFour, Flat!Lanes, Flat!GroupOf

LEMMA WriteOneLemma ==
  ASSUME RamInv, RamInv', NEW a \in Address, NEW w \in Word, WriteWord(a, w)
  PROVE  Flat!WriteOne(a, w)
<1> DEFINE din == [Nothing EXCEPT ![1] = w]
<1>1. din[1] = w
  BY DEF Nothing
<1> HIDE DEF din
<1>2. /\ InRam1(a) => ram1' = [ram1 EXCEPT ![Internal(a)] = w] /\ ram0' = ram0
      /\ ~ InRam1(a) => ram0' = [ram0 EXCEPT ![Internal(a)] = w] /\ ram1' = ram1
  BY <1>1 DEF WriteWord, RamStep, Request, AccessOne, din
<1>3. ASSUME NEW b \in Address
      PROVE  Contents'[b] = IF b = a THEN w ELSE Contents[b]
  <2>1. /\ Internal(a) \in BankAddress /\ Internal(b) \in BankAddress
        /\ a = b <=> Internal(a) = Internal(b) /\ (InRam1(a) <=> InRam1(b))
    BY PlaceLemma, SamePlaceLemma
  <2>2. /\ Contents'[b] = IF InRam1(b) THEN ram1'[Internal(b)] ELSE ram0'[Internal(b)]
        /\ Contents[b] = IF InRam1(b) THEN ram1[Internal(b)] ELSE ram0[Internal(b)]
    BY Zenon DEF Contents
  <2>3. ram0 \in [BankAddress -> Word] /\ ram1 \in [BankAddress -> Word]
    BY Zenon DEF RamInv
  <2> QED
    BY <1>2, <2>1, <2>2, <2>3
<1>4. Contents \in [Address -> Word] /\ Contents' \in [Address -> Word]
  BY ViewLemma, ViewNextLemma
<1>5. Contents' = [Contents EXCEPT ![a] = w]
  <2> DEFINE c == Contents
             d == Contents'
  <2> HIDE DEF c, d
  <2>1. /\ c \in [Address -> Word] /\ d \in [Address -> Word]
        /\ \A b \in Address : d[b] = IF b = a THEN w ELSE c[b]
    BY <1>3, <1>4, Zenon DEF c, d
  <2>2. d = [c EXCEPT ![a] = w]
    BY <2>1
  <2> QED
    BY <2>2, Zenon DEF c, d
<1>6. Output' \in [0 .. 3 -> Word]
  BY ViewNextLemma, Zenon
<1> QED
  BY <1>5, <1>6, Zenon DEF Flat!WriteOne, Flat!Lanes

LEMMA WriteFourLemma ==
  ASSUME RamInv, RamInv', NEW a \in Address, NEW ws \in WrittenGroups, WriteGroup(a, ws)
  PROVE  Flat!WriteFour(a, [l \in 0 .. 3 |-> ws[l + 1]])
<1>1. /\ ram0' = [ram0 EXCEPT ![Even(a)] = ws[1], ![Odd(a)] = ws[2]]
      /\ ram1' = [ram1 EXCEPT ![Even(a)] = ws[3], ![Odd(a)] = ws[4]]
  BY DEF WriteGroup, RamStep, Request, AccessFour
<1>2. ASSUME NEW b \in Address
      PROVE  Contents'[b] = IF 4 * (b \div 4) = 4 * (a \div 4) THEN ws[(b % 4) + 1]
                            ELSE Contents[b]
  <2> DEFINE k == Internal(b)
  <2>1. /\ Even(a) \in BankAddress /\ Odd(a) \in BankAddress /\ k \in BankAddress
        /\ Even(a) # Odd(a)
    BY PlaceLemma
  <2>2. 4 * (b \div 4) = 4 * (a \div 4) <=> k \in {Even(a), Odd(a)}
    BY SamePlaceLemma, Zenon
  <2>3. /\ Contents'[b] = IF InRam1(b) THEN ram1'[k] ELSE ram0'[k]
        /\ Contents[b] = IF InRam1(b) THEN ram1[k] ELSE ram0[k]
    BY Zenon DEF Contents
  <2>4. ram0 \in [BankAddress -> Word] /\ ram1 \in [BankAddress -> Word]
    BY Zenon DEF RamInv
  <2>5. CASE k \notin {Even(a), Odd(a)}
    <3> HIDE DEF k
    <3>1. ram0'[k] = ram0[k] /\ ram1'[k] = ram1[k]
      BY <1>1, <2>1, <2>4, <2>5
    <3> QED
      BY <2>2, <2>3, <2>5, <3>1, Zenon
  <2>6. CASE k \in {Even(a), Odd(a)}
    <3>1. (b % 4) + 1 = (IF InRam1(b) THEN 3 ELSE 1) + (IF k = Even(a) THEN 0 ELSE 1)
      <4>1. 2 * (b \div 4) = Even(a)
        <5>1. b \div 4 \in Int /\ a \div 4 \in Int
          BY DEF Address
        <5> QED
          BY <2>2, <2>6, <5>1 DEF Even
      <4>2. b % 4 = (IF InRam1(b) THEN 2 ELSE 0) + (IF k = 2 * (b \div 4) THEN 0 ELSE 1)
        BY SamePlaceLemma, Zenon
      <4> HIDE DEF k
      <4> QED
        BY <4>1, <4>2
    <3> HIDE DEF k
    <3>2. /\ ram0'[k] = IF k = Even(a) THEN ws[1] ELSE ws[2]
          /\ ram1'[k] = IF k = Even(a) THEN ws[3] ELSE ws[4]
      BY <1>1, <2>1, <2>4, <2>6
    <3> QED
      BY <2>2, <2>3, <2>6, <3>1, <3>2
  <2> QED
    BY <2>5, <2>6, Zenon
<1>3. ASSUME NEW b \in Address
      PROVE  [l \in 0 .. 3 |-> ws[l + 1]][b % 4] = ws[(b % 4) + 1]
  BY DEF Address
<1>4. Contents' = [b \in Address |-> Contents'[b]]
  BY Zenon DEF Contents
<1>5. Contents' = [b \in Address |->
                     IF 4 * (b \div 4) = 4 * (a \div 4)
                     THEN [l \in 0 .. 3 |-> ws[l + 1]][b % 4] ELSE Contents[b]]
  <2> DEFINE d == Contents'
  <2>1. d = [b \in Address |-> d[b]]
    BY <1>4
  <2>2. \A b \in Address : d[b] = IF 4 * (b \div 4) = 4 * (a \div 4)
                                  THEN [l \in 0 .. 3 |-> ws[l + 1]][b % 4]
                                  ELSE Contents[b]
    BY <1>2, <1>3, Zenon
  <2> HIDE DEF d
  <2>3. d = [b \in Address |->
               IF 4 * (b \div 4) = 4 * (a \div 4)
               THEN [l \in 0 .. 3 |-> ws[l + 1]][b % 4] ELSE Contents[b]]
    BY <2>1, <2>2, Zenon
  <2> QED
    BY <2>3, Zenon DEF d
<1>6. Output' \in [0 .. 3 -> Word]
  BY ViewNextLemma, Zenon
<1> QED
  BY <1>5, <1>6, Zenon DEF Flat!WriteFour, Flat!Lanes, Flat!GroupOf, Flat!Addr, Address

----------------------------------------------------------------------------
(* The invariant: words everywhere.                                         *)
THEOREM RamInvariant == RamSpec => []RamInv
BY RamInitLemma, RamNextLemma, PTL DEF RamSpec

(* quadport_ram.sv: the two block RAMs behave as one memory, whatever is    *)
(* read and written, alone or in a group, and whatever was there at the     *)
(* start.                                                                   *)
THEOREM RamIsFlat == RamSpec => ImplementsFlatRam
<1>1. RamInit => Flat!FlatInit
  BY RamInitLemma, ViewLemma, Zenon DEF Flat!FlatInit, Flat!Addr, Flat!Lanes, Address
<1>2. RamInv /\ RamInv' =>
        [/\ Idle \/ RamReset => Flat!NoAccess
         /\ \A a \in Address :
              /\ Read(a, FALSE) => Flat!ReadOne(a)
              /\ Read(a, TRUE) => Flat!ReadFour(a)
              /\ \A w \in Word : WriteWord(a, w) => Flat!WriteOne(a, w)
              /\ \A ws \in WrittenGroups :
                   WriteGroup(a, ws) => Flat!WriteFour(a, [l \in 0 .. 3 |-> ws[l + 1]])
        ]_ramVars
  BY IdleLemma, ReadOneLemma, ReadFourLemma, WriteOneLemma, WriteFourLemma, Zenon
<1> QED
  BY <1>1, <1>2, RamInvariant, PTL DEF RamSpec, ImplementsFlatRam

-----------------------------------------------------------------------------
(* The flash.  First, numbers and the layout of the erase blocks.          *)

(* Every set of numbers that is not empty has a least one.                 *)
LEMMA LeastLemma ==
  ASSUME NEW S \in SUBSET Nat, S # {}
  PROVE  \E x \in S : \A y \in S : x <= y
<1> DEFINE R == {ss \in Nat \X Nat : ss[1] < ss[2]}
<1>1. IsWellFoundedOn(R, Nat)
  BY NatLessThanWellFounded, Zenon DEF OpToRel
<1> HIDE DEF R
<1>2. PICK x \in S : \A y \in S : ~ (<<y, x>> \in R)
  BY <1>1, WFMin, Zenon
<1>3. \A y \in S : x <= y
  <2> TAKE y \in S
  <2>1. <<y, x>> \notin R /\ x \in Nat /\ y \in Nat
    BY <1>2
  <2>2. y < x => <<y, x>> \in R
    BY <2>1 DEF R
  <2> QED
    BY <2>1, <2>2
<1> QED
  BY <1>3

(* Induction up to a bound.                                                *)
LEMMA UpToLemma ==
  ASSUME NEW c \in Nat, NEW G, 0 \in G, \A j \in 0..(c - 1) : j \in G => j + 1 \in G
  PROVE  \A j \in 0..c : j \in G
<1> DEFINE B == {j \in 0..c : j \notin G}
<1> SUFFICES ASSUME B # {} PROVE FALSE
  OBVIOUS
<1>1. B \in SUBSET Nat
  OBVIOUS
<1>2. PICK j \in B : \A h \in B : j <= h
  BY <1>1, LeastLemma
<1>3. j \in 0..c /\ j \notin G /\ j # 0
  OBVIOUS
<1>4. j - 1 \in 0..(c - 1) /\ (j - 1) + 1 = j /\ j - 1 \in 0..c /\ ~ (j <= j - 1)
  BY <1>3
<1>5. j - 1 \in G
  BY <1>2, <1>4
<1> QED
  BY <1>3, <1>4, <1>5

Region == [blocks : Nat, size : Nat]

(* The sums of the first numbers of a list exist, ...                      *)
LEMMA SumsLemma ==
  ASSUME NEW n \in Nat, NEW m \in [1..n -> Nat]
  PROVE  \E f : f = [r \in 0..n |-> IF r = 0 THEN 0 ELSE f[r - 1] + m[r]]
<1> DEFINE Sums(c, f) == f = [r \in 0..c |-> IF r = 0 THEN 0 ELSE f[r - 1] + m[r]]
           G == {c \in 0..n : \E f : Sums(c, f)}
<1>1. 0 \in G
  <2>1. Sums(0, [r \in 0..0 |-> 0])
    OBVIOUS
  <2> HIDE DEF Sums
  <2> QED
    BY <2>1
<1>2. ASSUME NEW c \in 0..(n - 1), c \in G PROVE c + 1 \in G
  <2>1. PICK f : Sums(c, f)
    BY <1>2
  <2> DEFINE g == [r \in 0..(c + 1) |-> IF r = c + 1 THEN f[c] + m[c + 1] ELSE f[r]]
  <2>2. \A r \in 0..c : g[r] = f[r] /\ f[r] = IF r = 0 THEN 0 ELSE f[r - 1] + m[r]
    BY <2>1
  <2>3. ASSUME NEW r \in 0..(c + 1)
        PROVE  g[r] = IF r = 0 THEN 0 ELSE g[r - 1] + m[r]
    <3>1. CASE r = c + 1
      <4>1. c \in 0..c /\ r - 1 = c /\ r # 0
        BY <3>1
      <4>2. g[r] = f[c] + m[r] /\ g[c] = f[c]
        BY <2>2, <3>1, <4>1
      <4> QED
        BY <4>1, <4>2
    <3>2. CASE r \in 1..c
      <4>1. r - 1 \in 0..c /\ r \in 0..c /\ r # 0
        BY <3>2
      <4> HIDE DEF g
      <4> QED
        BY <2>2, <4>1
    <3>3. CASE r = 0
      <4> HIDE DEF g
      <4> QED
        BY <2>2, <3>3
    <3> QED
      BY <3>1, <3>2, <3>3
  <2>4. g = [r \in 0..(c + 1) |-> g[r]]
    OBVIOUS
  <2>5. Sums(c + 1, g)
    <3> HIDE DEF g
    <3> QED
      BY <2>3, <2>4
  <2>6. c + 1 \in 0..n
    OBVIOUS
  <2> HIDE DEF Sums, g
  <2> QED
    BY <2>5, <2>6
<1> HIDE DEF G
<1>3. n \in G
  <2>1. \A c \in 0..(n - 1) : c \in G => c + 1 \in G
    BY <1>2
  <2>2. \A j \in 0..n : j \in G
    BY <1>1, <2>1, UpToLemma
  <2> QED
    BY <2>2
<1> QED
  BY <1>3 DEF G

(* ... so the ends of regions are what their definition says.              *)
LEMMA EndsLemma ==
  ASSUME NEW regions \in Seq(Region)
  PROVE  /\ Ends(regions) \in [0..Len(regions) -> Nat] /\ Ends(regions)[0] = 0
         /\ \A r \in 1..Len(regions) :
              /\ Ends(regions)[r] = Ends(regions)[r - 1] + regions[r].blocks * regions[r].size
              /\ Ends(regions)[r - 1] <= Ends(regions)[r]
<1> DEFINE n == Len(regions)
           E == Ends(regions)
           m == [r \in 1..n |-> regions[r].blocks * regions[r].size]
<1>1. n \in Nat /\ \A r \in 1..n : regions[r].blocks \in Nat /\ regions[r].size \in Nat
  <2>1. n \in Nat /\ \A r \in 1..n : regions[r] \in Region
    OBVIOUS
  <2> QED
    BY <2>1 DEF Region
<1>2. m \in [1..n -> Nat]
  <2>1. \A a, b \in Nat : a * b \in Nat
    OBVIOUS
  <2> QED
    BY <1>1, <2>1
<1>3. \A f, r : r \in 0..n => (IF r = 0 THEN 0 ELSE f[r - 1] + m[r])
                            = IF r = 0 THEN 0 ELSE f[r - 1] + regions[r].blocks * regions[r].size
  BY <1>1
<1>4. \E f : f = [r \in 0..n |-> IF r = 0 THEN 0 ELSE f[r - 1] + m[r]]
  <2> HIDE DEF m, n
  <2> QED
    BY <1>1, <1>2, SumsLemma
<1>5. \E f : f = [r \in 0..n |-> IF r = 0 THEN 0
                                 ELSE f[r - 1] + regions[r].blocks * regions[r].size]
  <2>1. PICK f : f = [r \in 0..n |-> IF r = 0 THEN 0 ELSE f[r - 1] + m[r]]
    BY <1>4
  <2>2. f = [r \in 0..n |-> IF r = 0 THEN 0 ELSE f[r - 1] + regions[r].blocks * regions[r].size]
    <3> DEFINE g == [r \in 0..n |-> IF r = 0 THEN 0 ELSE f[r - 1] + m[r]]
               h == [r \in 0..n |->
                       IF r = 0 THEN 0 ELSE f[r - 1] + regions[r].blocks * regions[r].size]
    <3>1. \A r \in 0..n : g[r] = h[r]
      BY <1>3
    <3>2. g = h
      BY <3>1
    <3> QED
      BY <2>1, <3>2
  <2> QED
    BY <2>2
<1>6. E = [r \in 0..n |-> IF r = 0 THEN 0 ELSE E[r - 1] + regions[r].blocks * regions[r].size]
  BY <1>5 DEF Ends
<1>7. \A r \in 0..n : E[r] = IF r = 0 THEN 0 ELSE E[r - 1] + m[r]
  BY <1>3, <1>6
<1> HIDE DEF E, m
<1> DEFINE G == {r \in 0..n : E[r] \in Nat}
<1>8. 0 \in G
  BY <1>1, <1>7
<1>9. ASSUME NEW r \in 0..(n - 1), r \in G PROVE r + 1 \in G
  BY <1>1, <1>2, <1>7, <1>9
<1> HIDE DEF G
<1>10. \A r \in 0..n : r \in G
  BY <1>1, <1>8, <1>9, UpToLemma
<1>11. \A r \in 0..n : E[r] \in Nat
  BY <1>10 DEF G
<1>12. E \in [0..n -> Nat]
  BY <1>6, <1>11
<1>13. \A r \in 1..n : m[r] = regions[r].blocks * regions[r].size
  BY DEF m
<1> QED
  <2>1. E[0] = 0
    BY <1>1, <1>7
  <2>2. \A r \in 1..n : r - 1 \in 0..n /\ r \in 0..n /\ r # 0
    BY <1>1
  <2>3. \A r \in 1..n : E[r] = E[r - 1] + m[r] /\ E[r - 1] <= E[r]
    <3> TAKE r \in 1..n
    <3>1. E[r] = E[r - 1] + m[r] /\ E[r - 1] \in Nat /\ m[r] \in Nat
      BY <1>2, <1>7, <1>11, <2>2
    <3> QED
      BY <3>1
  <2> QED
    BY <1>12, <1>13, <2>1, <2>3 DEF E

(* What never falls from one number to the next rises.                     *)
LEMMA RiseLemma ==
  ASSUME NEW n \in Nat, NEW E \in [0..n -> Nat], \A r \in 1..n : E[r - 1] <= E[r]
  PROVE  \A r \in 0..n : \A q \in 0..r : E[q] <= E[r]
<1> DEFINE G == {r \in 0..n : \A q \in 0..r : E[q] <= E[r]}
<1>1. 0 \in G
  OBVIOUS
<1>2. \A r \in 0..(n - 1) : r \in G => r + 1 \in G
  <2> SUFFICES ASSUME NEW r \in 0..(n - 1), r \in G PROVE r + 1 \in G
    OBVIOUS
  <2>1. r + 1 \in 1..n /\ r + 1 \in 0..n /\ (r + 1) - 1 = r /\ r \in 0..n
    OBVIOUS
  <2>2. E[r] <= E[r + 1] /\ E[r] \in Nat /\ E[r + 1] \in Nat
    BY <2>1
  <2>3. ASSUME NEW q \in 0..(r + 1) PROVE E[q] <= E[r + 1]
    <3>1. CASE q = r + 1
      BY <2>2, <3>1
    <3>2. CASE q \in 0..r
      <4>1. E[q] <= E[r] /\ E[q] \in Nat
        BY <2>1, <3>2
      <4> QED
        BY <2>2, <4>1
    <3> QED
      BY <3>1, <3>2
  <2> QED
    BY <2>1, <2>3
<1> HIDE DEF G
<1>3. \A r \in 0..n : r \in G
  BY <1>1, <1>2, UpToLemma
<1> QED
  BY <1>3 DEF G

(* Blocks of whole words that follow one another from 0 to n.              *)
Tiles(B, n, w) ==
  /\ \A b \in B : /\ b.offset \in Nat /\ b.size \in Nat /\ b.offset + b.size <= n
                  /\ b.offset % w = 0 /\ b.size % w = 0
  /\ \A a \in 0..(n - 1) : \E b \in B : b.offset <= a /\ a < b.offset + b.size
  /\ \A b, c \in B : \A a \in Nat :
       b.offset <= a /\ a < b.offset + b.size /\ c.offset <= a /\ a < c.offset + c.size => b = c

LEMMA WholeWordsLemma ==
  ASSUME NEW w \in {1, 2, 4}, NEW x \in Nat, NEW y \in Nat, NEW b \in Nat, x % w = 0, y % w = 0
  PROVE  (x + b * y) % w = 0
<1>1. PICK k \in Nat : y = w * k
  <2>1. CASE w = 1
    BY <2>1
  <2>2. CASE w = 2
    <3>1. y = 2 * (y \div 2) /\ y \div 2 \in Nat
      BY <2>2
    <3> QED
      BY <2>2, <3>1
  <2>3. CASE w = 4
    <3>1. y = 4 * (y \div 4) /\ y \div 4 \in Nat
      BY <2>3
    <3> QED
      BY <2>3, <3>1
  <2> QED
    BY <2>1, <2>2, <2>3
<1> DEFINE m == b * k
<1>2. m \in Nat /\ b * y = w * m
  <2>1. \A p, q, r \in Nat : p * q \in Nat /\ p * (q * r) = q * (p * r)
    OBVIOUS
  <2> QED
    BY <1>1, <2>1
<1> HIDE DEF m
<1>3. CASE w = 1
  BY <1>2, <1>3
<1>4. CASE w = 2
  BY <1>2, <1>4
<1>5. CASE w = 4
  BY <1>2, <1>5
<1> QED
  BY <1>3, <1>4, <1>5

LEMMA LayLemma ==
  ASSUME NEW w \in {1, 2, 4}, NEW regions \in Seq(Region),
         \A r \in DOMAIN regions : regions[r].size % w = 0
  PROVE  Tiles(Lay(regions), Size(regions), w)
<1> DEFINE n == Len(regions)
           E == Ends(regions)
           m == [r \in 1..n |-> regions[r].blocks]
           s == [r \in 1..n |-> regions[r].size]
           At(r, b) == [offset |-> E[r - 1] + b * s[r], size |-> s[r]]
<1>1. /\ n \in Nat /\ DOMAIN regions = 1..n
      /\ \A r \in 1..n : m[r] \in Nat /\ s[r] \in Nat /\ s[r] % w = 0
  <2>1. n \in Nat /\ DOMAIN regions = 1..n /\ \A r \in 1..n : regions[r] \in Region
    OBVIOUS
  <2> QED
    BY <2>1 DEF Region
<1>2. /\ E \in [0..n -> Nat] /\ E[0] = 0
      /\ \A r \in 1..n : E[r] = E[r - 1] + m[r] * s[r] /\ E[r - 1] <= E[r]
  BY EndsLemma
<1>3. Size(regions) = E[n]
  BY DEF Size
<1>4. \A b : b \in Lay(regions) <=> \E r \in 1..n : \E k \in 0..(m[r] - 1) : b = At(r, k)
  <2>1. Lay(regions) = UNION {{At(r, k) : k \in 0..(m[r] - 1)} : r \in 1..n}
    BY <1>1 DEF Lay
  <2> HIDE DEF At, m
  <2> QED
    BY <2>1
<1>5. \A r \in 1..n : \A k \in 0..(m[r] - 1) :
        At(r, k).offset = E[r - 1] + k * s[r] /\ At(r, k).size = s[r]
  OBVIOUS
<1> HIDE DEF E, m, s, At, n
<1>6. \A r \in 0..n : \A q \in 0..r : E[q] <= E[r]
  BY <1>1, <1>2, RiseLemma
<1>7. ASSUME NEW r \in 1..n, NEW k \in 0..(m[r] - 1)
      PROVE  /\ E[r - 1] \in Nat /\ E[r] \in Nat /\ E[n] \in Nat /\ E[r] <= E[n]
             /\ k * s[r] \in Nat /\ k \in Nat /\ s[r] \in Nat /\ m[r] \in Nat
             /\ (E[r - 1] + k * s[r]) + s[r] <= E[r]
  <2>1. r - 1 \in 0..n /\ r \in 0..n /\ n \in 0..n /\ r \in 0..n
    BY <1>1
  <2>2. m[r] \in Nat /\ k \in Nat /\ s[r] \in Nat /\ k + 1 <= m[r]
    BY <1>1
  <2>3. \A p, q, t \in Nat : p + 1 <= q => p * t \in Nat /\ q * t \in Nat /\ p * t + t <= q * t
    <3> TAKE p, q, t \in Nat
    <3> HAVE p + 1 <= q
    <3>1. PICK d \in Nat : q = (p + 1) + d
      <4>1. q - (p + 1) \in Nat /\ q = (p + 1) + (q - (p + 1))
        OBVIOUS
      <4> QED
        BY <4>1
    <3>2. q * t = (p * t + t) + d * t /\ d * t \in Nat /\ p * t \in Nat
      BY <3>1
    <3> QED
      BY <3>2
  <2>4. k * s[r] + s[r] <= m[r] * s[r] /\ k * s[r] \in Nat /\ m[r] * s[r] \in Nat
    BY <2>2, <2>3
  <2>5. /\ E[r] = E[r - 1] + m[r] * s[r] /\ E[r] <= E[n]
        /\ E[r - 1] \in Nat /\ E[r] \in Nat /\ E[n] \in Nat
    BY <1>2, <1>6, <2>1
  <2> QED
    BY <2>2, <2>4, <2>5
<1>15. \A x, y, b \in Nat : x % w = 0 /\ y % w = 0 => (x + b * y) % w = 0
  BY WholeWordsLemma
<1>8. ASSUME NEW r \in 0..n PROVE E[r] % w = 0
  <2> DEFINE G == {q \in 0..n : E[q] % w = 0}
  <2>1. 0 \in G
    BY <1>1, <1>2
  <2>2. \A q \in 0..(n - 1) : q \in G => q + 1 \in G
    <3> SUFFICES ASSUME NEW q \in 0..(n - 1), E[q] % w = 0 PROVE q + 1 \in 0..n /\ E[q + 1] % w = 0
      OBVIOUS
    <3>1. q + 1 \in 1..n /\ q + 1 \in 0..n /\ (q + 1) - 1 = q /\ q \in 0..n
      BY <1>1
    <3>2. E[q + 1] = E[q] + m[q + 1] * s[q + 1] /\ E[q] \in Nat
      BY <1>2, <3>1
    <3>3. m[q + 1] \in Nat /\ s[q + 1] \in Nat /\ s[q + 1] % w = 0
      BY <1>1, <3>1
    <3>4. (E[q] + m[q + 1] * s[q + 1]) % w = 0
      BY <1>15, <3>2, <3>3, Zenon
    <3> QED
      BY <3>1, <3>2, <3>4, Zenon
  <2> HIDE DEF G
  <2>3. \A q \in 0..n : q \in G
    BY <1>1, <2>1, <2>2, UpToLemma
  <2> QED
    BY <2>3 DEF G
<1>9. ASSUME NEW b \in Lay(regions)
      PROVE  /\ b.offset \in Nat /\ b.size \in Nat /\ b.offset + b.size <= E[n]
             /\ b.offset % w = 0 /\ b.size % w = 0
  <2>0. PICK r \in 1..n : \E k \in 0..(m[r] - 1) : b = At(r, k)
    BY <1>4
  <2>1. PICK k \in 0..(m[r] - 1) : b = At(r, k)
    BY <2>0
  <2>2. b.offset = E[r - 1] + k * s[r] /\ b.size = s[r]
    BY <1>5, <2>1
  <2>3. E[r - 1] % w = 0 /\ s[r] % w = 0
    BY <1>1, <1>8
  <2>4. /\ E[r - 1] \in Nat /\ k \in Nat /\ s[r] \in Nat /\ k * s[r] \in Nat
        /\ E[r] \in Nat /\ E[n] \in Nat /\ E[r] <= E[n] /\ (E[r - 1] + k * s[r]) + s[r] <= E[r]
    BY <1>7
  <2>5. (E[r - 1] + k * s[r]) % w = 0
    BY <1>15, <2>3, <2>4, Zenon
  <2> DEFINE z == k * s[r]
  <2> HIDE DEF z
  <2>6. /\ E[r - 1] + z \in Nat /\ (E[r - 1] + z) + s[r] <= E[n]
    BY <2>4 DEF z
  <2> QED
    BY <2>2, <2>3, <2>4, <2>5, <2>6 DEF z
<1>10. ASSUME NEW a \in 0..(E[n] - 1)
       PROVE  \E b \in Lay(regions) : b.offset <= a /\ a < b.offset + b.size
  <2> DEFINE S == {r \in 0..n : a < E[r]}
  <2>1. S \in SUBSET Nat /\ S # {} /\ E[n] \in Nat
    <3>1. n \in 0..n /\ E[n] \in Nat
      BY <1>1, <1>2
    <3> QED
      BY <3>1
  <2>2. PICK r \in S : \A q \in S : r <= q
    BY <2>1, LeastLemma
  <2>3. r \in 1..n /\ a < E[r] /\ r - 1 \in 0..n /\ ~ (r <= r - 1)
    BY <1>1, <1>2
  <2>4. E[r - 1] <= a /\ E[r - 1] \in Nat /\ E[r] = E[r - 1] + m[r] * s[r] /\ E[r] \in Nat
    BY <1>2, <2>2, <2>3
  <2>5. m[r] \in Nat /\ s[r] \in Nat
    BY <1>1, <2>3
  <2> DEFINE x == a - E[r - 1]
             y == m[r] * s[r]
  <2>6. x \in Nat /\ x < m[r] * s[r]
    <3>1. y \in Nat /\ E[r] = E[r - 1] + y
      BY <2>4, <2>5
    <3> HIDE DEF y
    <3>2. x \in Nat /\ x < y
      BY <2>1, <2>3, <2>4, <3>1
    <3> QED
      BY <3>2 DEF y
  <2>7. s[r] > 0
    <3>1. s[r] = 0 => m[r] * s[r] = 0
      BY <2>5
    <3> QED
      BY <2>5, <2>6, <3>1
  <2> DEFINE k == x \div s[r]
  <2>8. k \in Nat /\ k * s[r] <= x /\ x < k * s[r] + s[r]
    <3>1. \A p \in Nat, q \in Nat \ {0} :
            p \div q \in Nat /\ (p \div q) * q <= p /\ p < (p \div q) * q + q
      OBVIOUS
    <3>2. x \in Nat /\ s[r] \in Nat \ {0}
      BY <2>5, <2>6, <2>7
    <3> HIDE DEF x, y
    <3> QED
      BY <3>1, <3>2, Zenon
  <2> HIDE DEF k, x, y
  <2>9. k < m[r]
    <3>1. \A p, q, t \in Nat : q <= p => q * t <= p * t
      <4> TAKE p, q, t \in Nat
      <4> HAVE q <= p
      <4>1. p - q \in Nat /\ p * t = q * t + (p - q) * t /\ (p - q) * t \in Nat /\ q * t \in Nat
        OBVIOUS
      <4> QED
        BY <4>1
    <3>2. m[r] <= k => m[r] * s[r] <= k * s[r]
      BY <2>5, <2>8, <3>1
    <3> DEFINE z == k * s[r]
    <3>3. y \in Nat /\ z \in Nat
      BY <2>5, <2>8 DEF y
    <3>4. ~ (y <= z)
      <4>1. z <= x /\ x < y
        BY <2>6, <2>8 DEF y
      <4> HIDE DEF y, z
      <4> QED
        BY <2>6, <3>3, <4>1
    <3> QED
      BY <2>5, <2>8, <3>2, <3>4 DEF y
  <2>10. k \in 0..(m[r] - 1)
    BY <2>5, <2>8, <2>9
  <2>11. At(r, k) \in Lay(regions)
    BY <1>4, <2>3, <2>10
  <2>12. At(r, k).offset = E[r - 1] + k * s[r] /\ At(r, k).size = s[r]
    BY <1>5, <2>3, <2>10
  <2>13. E[r - 1] + k * s[r] <= a /\ a < (E[r - 1] + k * s[r]) + s[r]
    <3> DEFINE z == k * s[r]
    <3>1. z \in Nat /\ z <= x /\ x < z + s[r]
      BY <2>5, <2>8
    <3>2. a = E[r - 1] + x
      BY <2>1, <2>4 DEF x
    <3> HIDE DEF z
    <3>3. E[r - 1] + z <= a /\ a < (E[r - 1] + z) + s[r]
      BY <2>4, <2>5, <2>6, <3>1, <3>2
    <3> QED
      BY <3>3 DEF z
  <2> QED
    BY <2>11, <2>12, <2>13
<1>11. ASSUME NEW b \in Lay(regions), NEW c \in Lay(regions), NEW a \in Nat,
              b.offset <= a, a < b.offset + b.size, c.offset <= a, a < c.offset + c.size
       PROVE  b = c
  <2>0. PICK r \in 1..n, t \in 1..n : /\ \E k \in 0..(m[r] - 1) : b = At(r, k)
                                      /\ \E l \in 0..(m[t] - 1) : c = At(t, l)
    BY <1>4
  <2>1. PICK k \in 0..(m[r] - 1) : b = At(r, k)
    BY <2>0
  <2>2. PICK l \in 0..(m[t] - 1) : c = At(t, l)
    BY <2>0
  <2>3. /\ E[r - 1] + k * s[r] <= a /\ a < (E[r - 1] + k * s[r]) + s[r]
        /\ E[t - 1] + l * s[t] <= a /\ a < (E[t - 1] + l * s[t]) + s[t]
    BY <1>5, <1>11, <2>1, <2>2
  <2>4. \A p, q \in 1..n : p < q => E[p] <= E[q - 1]
    <3> TAKE p, q \in 1..n
    <3> HAVE p < q
    <3>1. q - 1 \in 0..n /\ p \in 0..(q - 1)
      BY <1>1
    <3> QED
      BY <1>6, <3>1
  <2>5. r = t
    <3>1. /\ E[r - 1] <= a /\ a < E[r] /\ E[t - 1] <= a /\ a < E[t]
          /\ E[r - 1] \in Nat /\ E[r] \in Nat /\ E[t - 1] \in Nat /\ E[t] \in Nat
      <4>1. /\ E[r - 1] \in Nat /\ E[r] \in Nat /\ k * s[r] \in Nat /\ s[r] \in Nat
            /\ (E[r - 1] + k * s[r]) + s[r] <= E[r]
        BY <1>7
      <4>2. /\ E[t - 1] \in Nat /\ E[t] \in Nat /\ l * s[t] \in Nat /\ s[t] \in Nat
            /\ (E[t - 1] + l * s[t]) + s[t] <= E[t]
        BY <1>7
      <4>3. \A e, z, u, f \in Nat :
              (e + z) + u <= f /\ e + z <= a /\ a < (e + z) + u => e <= a /\ a < f
        OBVIOUS
      <4>4. E[r - 1] <= a /\ a < E[r]
        BY <2>3, <4>1, <4>3, Zenon
      <4>5. E[t - 1] <= a /\ a < E[t]
        BY <2>3, <4>2, <4>3, Zenon
      <4> QED
        BY <4>1, <4>2, <4>4, <4>5
    <3>2. ~ (r < t) /\ ~ (t < r)
      <4>1. r < t => E[r] <= E[t - 1]
        BY <2>4
      <4>2. t < r => E[t] <= E[r - 1]
        BY <2>4
      <4> QED
        BY <3>1, <4>1, <4>2
    <3> QED
      BY <1>1, <3>2
  <2>6. l \in 0..(m[r] - 1) /\ k \in Nat /\ l \in Nat /\ s[r] \in Nat /\ E[r - 1] \in Nat
    BY <1>7, <2>5
  <2>7. k = l
    <3>1. \A p, q, u, e \in Nat : p < q => ~ (/\ e + q * u <= a /\ a < (e + p * u) + u)
      <4> TAKE p, q, u, e \in Nat
      <4> HAVE p < q
      <4>1. /\ q - (p + 1) \in Nat /\ q * u = (p * u + u) + (q - (p + 1)) * u
            /\ (q - (p + 1)) * u \in Nat /\ p * u \in Nat
        OBVIOUS
      <4> QED
        BY <4>1
    <3>2. ~ (k < l) /\ ~ (l < k)
      BY <2>3, <2>5, <2>6, <3>1
    <3> QED
      BY <2>6, <3>2
  <2> QED
    BY <2>1, <2>2, <2>5, <2>7
<1>12. \A b \in Lay(regions) : /\ b.offset \in Nat /\ b.size \in Nat /\ b.offset + b.size <= E[n]
                                /\ b.offset % w = 0 /\ b.size % w = 0
  BY <1>9
<1>13. \A b, c \in Lay(regions) : \A a \in Nat :
        b.offset <= a /\ a < b.offset + b.size /\ c.offset <= a /\ a < c.offset + c.size => b = c
  <2> TAKE b, c \in Lay(regions)
  <2> TAKE a \in Nat
  <2> HAVE b.offset <= a /\ a < b.offset + b.size /\ c.offset <= a /\ a < c.offset + c.size
  <2> QED
    BY <1>11
<1> QED
  BY <1>3, <1>10, <1>12, <1>13, Zenon DEF Tiles

(* Regions in reverse take the same room.                                  *)
LEMMA ReverseLemma ==
  ASSUME NEW regions \in Seq(Region)
  PROVE  Reverse(regions) \in Seq(Region) /\ Size(Reverse(regions)) = Size(regions)
<1> DEFINE n == Len(regions)
           back == Reverse(regions)
           E == Ends(regions)
           F == Ends(back)
<1>1. n \in Nat /\ \A r \in 1..n : regions[r] \in Region
  OBVIOUS
<1>2. back = [r \in 1..n |-> regions[n - r + 1]]
  BY DEF Reverse
<1>3. \A r \in 1..n : n - r + 1 \in 1..n
  BY <1>1
<1>4. back \in [1..n -> Region]
  BY <1>1, <1>2, <1>3
<1> HIDE DEF back
<1>5. back \in Seq(Region) /\ Len(back) = n
  BY <1>1, <1>4
<1> DEFINE m == [r \in 1..n |-> regions[r].blocks * regions[r].size]
<1>6. /\ E \in [0..n -> Nat] /\ E[0] = 0
      /\ \A r \in 1..n : E[r] = E[r - 1] + m[r]
  BY EndsLemma
<1>7. /\ F \in [0..n -> Nat] /\ F[0] = 0
      /\ \A r \in 1..n : F[r] = F[r - 1] + m[n - r + 1]
  <2>1. /\ F \in [0..n -> Nat] /\ F[0] = 0
        /\ \A r \in 1..n : F[r] = F[r - 1] + back[r].blocks * back[r].size
    BY <1>5, EndsLemma
  <2>2. \A r \in 1..n : back[r].blocks * back[r].size = m[n - r + 1]
    BY <1>2, <1>3
  <2> HIDE DEF m, F
  <2> QED
    BY <2>1, <2>2
<1>8. m \in [1..n -> Nat]
  <2>1. \A r \in 1..n : regions[r].blocks \in Nat /\ regions[r].size \in Nat
    BY <1>1 DEF Region
  <2>2. \A a, b \in Nat : a * b \in Nat
    OBVIOUS
  <2> QED
    BY <2>1, <2>2
<1> HIDE DEF m, E, F, n
<1> DEFINE G == {r \in 0..n : F[r] + E[n - r] = E[n]}
<1>9. 0 \in G
  BY <1>1, <1>6, <1>7
<1>10. \A r \in 0..(n - 1) : r \in G => r + 1 \in G
  <2> SUFFICES ASSUME NEW r \in 0..(n - 1), F[r] + E[n - r] = E[n]
               PROVE  r + 1 \in 0..n /\ F[r + 1] + E[n - (r + 1)] = E[n]
    OBVIOUS
  <2>1. /\ r + 1 \in 1..n /\ (r + 1) - 1 = r /\ n - (r + 1) + 1 = n - r /\ n - r \in 1..n
        /\ n - (r + 1) = (n - r) - 1 /\ (n - r) - 1 \in 0..n /\ r \in 0..n
    BY <1>1
  <2>2. F[r + 1] = F[r] + m[n - r]
    BY <1>7, <2>1
  <2>3. E[n - r] = E[n - (r + 1)] + m[n - r]
    BY <1>6, <2>1
  <2>4. m[n - r] \in Nat /\ F[r] \in Nat /\ E[n - (r + 1)] \in Nat /\ E[n] \in Int
    BY <1>1, <1>6, <1>7, <1>8, <2>1
  <2> QED
    BY <2>1, <2>2, <2>3, <2>4
<1> HIDE DEF G
<1>11. n \in G
  <2>1. \A r \in 0..n : r \in G
    BY <1>1, <1>9, <1>10, UpToLemma
  <2> QED
    BY <1>1, <2>1
<1>12. F[n] + E[0] = E[n] /\ F[n] \in Nat
  BY <1>1, <1>7, <1>11 DEF G
<1>13. Size(regions) = E[n]
  BY DEF Size, E, n
<1>14. Size(back) = F[n]
  BY <1>5 DEF Size, F
<1> QED
  BY <1>5, <1>6, <1>12, <1>13, <1>14 DEF back

(* What the driver and the chip make of the description are the same       *)
(* blocks, which fill the flash.                                           *)
LEMMA BlocksLemma ==
  ASSUME NEW c \in Chips
  PROVE  /\ Tiles(Physical(c), Size(c.regions), c.mode_width)
         /\ Size(c.regions) \in Nat /\ c.mode_width \in {1, 2, 4}
         /\ Lay(Regions(c)) = Physical(c)
<1>1. /\ c.mode_width \in {1, 2, 4} /\ c.regions \in Seq(Region)
      /\ \A r \in DOMAIN c.regions : c.regions[r].size % c.mode_width = 0
  BY CfiFlashAssumption DEF Region
<1>2. Reverse(c.regions) \in Seq(Region) /\ Size(Reverse(c.regions)) = Size(c.regions)
  BY <1>1, ReverseLemma
<1>3. DOMAIN c.regions = 1..Len(c.regions) /\ Len(c.regions) \in Nat
  BY <1>1
<1>4. Reverse(c.regions) = [r \in 1..Len(c.regions) |-> c.regions[Len(c.regions) - r + 1]]
  BY DEF Reverse
<1>5. \A r \in DOMAIN Reverse(c.regions) : Reverse(c.regions)[r].size % c.mode_width = 0
  <2> SUFFICES ASSUME NEW r \in 1..Len(c.regions)
               PROVE  c.regions[Len(c.regions) - r + 1].size % c.mode_width = 0
    BY <1>4
  <2>1. Len(c.regions) - r + 1 \in DOMAIN c.regions
    BY <1>3
  <2> QED
    BY <1>1, <2>1
<1>6. /\ Tiles(Lay(c.regions), Size(c.regions), c.mode_width)
      /\ Tiles(Lay(Reverse(c.regions)), Size(c.regions), c.mode_width)
  <2>1. Tiles(Lay(c.regions), Size(c.regions), c.mode_width)
    BY <1>1, LayLemma
  <2>2. Tiles(Lay(Reverse(c.regions)), Size(Reverse(c.regions)), c.mode_width)
    BY <1>1, <1>2, <1>5, LayLemma
  <2> QED
    BY <1>2, <2>1, <2>2
<1>7. Size(c.regions) \in Nat
  <2>1. Ends(c.regions) \in [0..Len(c.regions) -> Nat]
    BY <1>1, EndsLemma
  <2>2. Len(c.regions) \in 0..Len(c.regions)
    BY <1>3
  <2> QED
    BY <2>1, <2>2 DEF Size
<1>8. Reverse(c.regions) = [r \in DOMAIN c.regions |-> c.regions[Len(c.regions) + 1 - r]]
  <2>1. \A r \in 1..Len(c.regions) : Len(c.regions) - r + 1 = Len(c.regions) + 1 - r
    BY <1>3
  <2> QED
    BY <1>3, <1>4, <2>1
<1> QED
  BY <1>1, <1>6, <1>7, <1>8 DEF Physical, Regions, TopBoot

-----------------------------------------------------------------------------
(* The invariant of a write.                                               *)

Stages == {"compare", "unlock to erase", "erase", "erasing", "unlock to program", "word",
           "programming", "advance"}
InCall == pc \in Stages

(* The chip works on something only while the driver waits, or is dead.    *)
ChipInv ==
  /\ chip \in Chips
  /\ cells = [a \in 0..(Size(chip.regions) - 1) |-> cells[a]]
  /\ fault \in BOOLEAN /\ dead \in BOOLEAN /\ asked.dead \in BOOLEAN
  /\ dead => doing # ReadingArray
  /\ doing # ReadingArray => dead \/ Waiting
  /\ dead => pc \in {"idle", "compare", "unlock to erase", "erase", "erasing", "programming"}
  /\ ~ asked.dead /\ dead /\ InCall => Waiting

(* How far the call has come: the bytes before src are in the flash.       *)
CallInv ==
  /\ pc \in {"off", "no flash", "idle"} \union Stages
  /\ InCall \/ pc = "idle" => blocks = Physical(chip)
  /\ InCall =>
       /\ offset \in Nat /\ length \in Nat /\ src \in Nat /\ asked.offset \in Nat
       /\ offset < Size(chip.regions) /\ offset + length <= Size(chip.regions)
       /\ offset = asked.offset + src /\ asked.length = src + length /\ asked.length \in Lengths
       /\ ret = "0" /\ (src = 0 \/ offset = Block.offset)
       /\ \A k \in 0..(src - 1) : cells[asked.offset + k] = Byte(pattern, k)

(* How far its block has come: the first n bytes of the data are in, and   *)
(* the rest of it is erased.                                               *)
Filled(c, n) ==
  \A a \in BytesOf(Block) :
    c[a] = IF a - offset \in 0..(n - 1) THEN Src(a - offset) ELSE Erased
Place ==
  i \in Nat /\ i <= data_to_write - endbytes /\ (i = 0 \/ (offset + i) % width = 0)

Erasing     == pc \in {"unlock to erase", "erase", "erasing"}
Programming == pc \in {"unlock to program", "word", "programming"}

StageInv ==
  /\ Erasing /\ length = 0 => dead \/ (fault /\ chip.algorithm = "AMD")
  /\ Programming => length > 0
  /\ Waiting /\ ~ dead => \A a \in DOMAIN cells : WorkedOn(a) => a \in BytesOf(Block)
  /\ pc = "erasing" /\ ~ dead => fault \/ Filled(Worked, 0)
  /\ pc \in {"unlock to program", "word"} => ~ fault
  /\ pc = "unlock to program" => Filled(cells, 0)
  /\ pc = "word" => Place /\ Filled(cells, i) /\ (i < data_to_write - endbytes \/ endbytes # 0)
  /\ pc = "programming" /\ ~ dead =>
       \/ fault
       \/ i = Ended /\ Filled(Worked, data_to_write)
       \/ Place /\ Filled(Worked, i)
  /\ pc = "advance" => Listens /\ \A k \in 0..(data_to_write - 1) :
                                    cells[offset + k] = Byte(pattern, src + k)

(* Other blocks are kept, and are not being worked on.                     *)
KeptInv ==
  ~ asked.dead => \A b \in Physical(chip) :
    ~ Touched(b) \/ b.offset > offset =>
      \A a \in BytesOf(b) : cells[a] = before[a] /\ ~ WorkedOn(a)

DoneInv ==
  /\ pc \in {"off", "no flash"} => writes = 0 \/ ret = "none"
  /\ pc = "idle" /\ ret = "0" =>
       \/ writes = 0
       \/ Listens /\ \A k \in 0..(asked.length - 1) : cells[asked.offset + k] = Byte(pattern, k)

FlashInv == ChipInv /\ CallInv /\ StageInv /\ KeptInv /\ DoneInv

(* A write that begins inside a word of four bytes reaches to its end.     *)
WordsAreCovered ==
  InCall /\ chip.mode_width = 4 /\ asked.length > 0 =>
    asked.offset % 4 = 0 \/ (asked.offset % 4) + asked.length >= 4

(* The block that a call has come to, and the data that goes into it.      *)
LEMMA BlockLemma ==
  ASSUME ChipInv, CallInv, InCall
  PROVE  /\ Block \in Physical(chip)
         /\ Block.offset \in Nat /\ Block.size \in Nat
         /\ Block.offset <= offset /\ offset < Block.offset + Block.size
         /\ Block.offset % width = 0 /\ (Block.offset + Block.size) % width = 0
         /\ BytesOf(Block) \subseteq DOMAIN cells
         /\ \A b \in Physical(chip), a \in BytesOf(Block) : a \in BytesOf(b) => b = Block
         /\ BlockAt(Block.offset) = Block
         /\ width \in {1, 2, 4} /\ DOMAIN cells = 0..(Size(chip.regions) - 1)
         /\ Size(chip.regions) \in Nat
<1> DEFINE n == Size(chip.regions)
           P == Physical(chip)
<1>1. chip \in Chips /\ blocks = P
  BY DEF ChipInv, CallInv
<1>2. Tiles(P, n, width) /\ n \in Nat /\ width \in {1, 2, 4}
  BY <1>1, BlocksLemma DEF width
<1>3. offset \in Nat /\ offset < n
  BY DEF CallInv
<1>4. DOMAIN cells = 0..(n - 1)
  BY DEF ChipInv
<1> HIDE DEF n, P
<1>5. \E b \in P : b.offset <= offset /\ offset < b.offset + b.size
  BY <1>2, <1>3 DEF Tiles
<1>6. Block = CHOOSE b \in P : b.offset <= offset /\ offset < b.offset + b.size
  BY <1>1 DEF Block
<1>7. Block \in P /\ Block.offset <= offset /\ offset < Block.offset + Block.size
  BY <1>5, <1>6
<1>8. /\ Block.offset \in Nat /\ Block.size \in Nat /\ Block.offset + Block.size <= n
      /\ Block.offset % width = 0 /\ Block.size % width = 0
  BY <1>2, <1>7 DEF Tiles
<1>9. \A b, c \in P : \A a \in Nat :
        b.offset <= a /\ a < b.offset + b.size /\ c.offset <= a /\ a < c.offset + c.size => b = c
  BY <1>2 DEF Tiles
<1>10. \A b \in P : b.offset \in Nat /\ b.size \in Nat
  BY <1>2 DEF Tiles
<1>11. \A b \in P : \A a : a \in BytesOf(b) <=> a \in Nat /\ b.offset <= a /\ a < b.offset + b.size
  BY <1>10 DEF BytesOf
<1>12. \A b \in P, a \in BytesOf(Block) : a \in BytesOf(b) => b = Block
  BY <1>7, <1>9, <1>11
<1>13. BlockAt(Block.offset) = Block
  <2>1. /\ Block.offset \in Nat /\ Block.offset <= Block.offset
        /\ Block.offset < Block.offset + Block.size
    BY <1>3, <1>7, <1>8
  <2>2. \A b \in P : b.offset <= Block.offset /\ Block.offset < b.offset + b.size <=> b = Block
    BY <1>7, <1>9, <2>1
  <2>3. BlockAt(Block.offset) =
          CHOOSE b \in P : b.offset <= Block.offset /\ Block.offset < b.offset + b.size
    BY DEF BlockAt, P
  <2> QED
    BY <1>7, <2>2, <2>3
<1>14. BytesOf(Block) \subseteq DOMAIN cells
  BY <1>2, <1>4, <1>7, <1>8, <1>11
<1>15. (Block.offset + Block.size) % width = 0
  <2>1. CASE width = 1
    BY <1>8, <2>1
  <2>2. CASE width = 2
    BY <1>8, <2>2
  <2>3. CASE width = 4
    BY <1>8, <2>3
  <2> QED
    BY <1>2, <2>1, <2>2, <2>3
<1> QED
  BY <1>2, <1>4, <1>7, <1>8, <1>12, <1>13, <1>14, <1>15 DEF n, P

LEMMA DataLemma ==
  ASSUME ChipInv, CallInv, InCall
  PROVE  /\ data_to_write \in Nat /\ data_to_write <= length
         /\ offset + data_to_write <= Block.offset + Block.size
         /\ data_to_write < length => offset + data_to_write = Block.offset + Block.size
         /\ length > 0 => data_to_write > 0
         /\ offset + length <= Size(chip.regions)
         /\ length \in Nat /\ offset \in Nat /\ src \in Nat /\ asked.offset \in Nat
         /\ offset = asked.offset + src /\ asked.length = src + length
         /\ \A k \in 0..(data_to_write - 1) : Src(k) = Byte(pattern, src + k)
<1> DEFINE e == Block.offset + Block.size
           r == e - offset
<1>1. e \in Nat /\ offset < e /\ offset \in Nat /\ length \in Nat /\ src \in Nat
  <2>1. offset \in Nat /\ length \in Nat /\ src \in Nat
    BY DEF CallInv
  <2>2. Block.offset \in Nat /\ Block.size \in Nat /\ offset < Block.offset + Block.size
    BY BlockLemma
  <2> QED
    BY <2>1, <2>2
<1>2. /\ offset = asked.offset + src /\ asked.length = src + length /\ asked.offset \in Nat
      /\ offset + length <= Size(chip.regions)
  BY DEF CallInv
<1>3. r \in Nat /\ r > 0 /\ offset + r = e
  BY <1>1
<1>8. r = Block.offset + Block.size - offset
  <2>1. Block.offset \in Nat /\ Block.size \in Nat /\ offset \in Nat
    BY <1>1, BlockLemma
  <2> QED
    BY <2>1
<1> HIDE DEF e, r
<1>4. data_to_write = Min({r, length})
  BY <1>8 DEF data_to_write
<1>5. \A x, y \in Nat : Min({x, y}) = IF x <= y THEN x ELSE y
  <2> TAKE x, y \in Nat
  <2>1. CASE x <= y
    <3>1. \A z \in {x, y} : (\A t \in {x, y} : z <= t) <=> z = x
      BY <2>1
    <3> QED
      BY <2>1, <3>1 DEF Min
  <2>2. CASE ~ (x <= y)
    <3>1. \A z \in {x, y} : (\A t \in {x, y} : z <= t) <=> z = y
      BY <2>2
    <3> QED
      BY <2>2, <3>1 DEF Min
  <2> QED
    BY <2>1, <2>2
<1>6. data_to_write = IF r <= length THEN r ELSE length
  BY <1>1, <1>3, <1>4, <1>5
<1>7. \A k \in 0..(data_to_write - 1) : Src(k) = Byte(pattern, src + k)
  BY <1>1, <1>2, <1>3, <1>6 DEF Src
<1> QED
  BY <1>1, <1>2, <1>3, <1>6, <1>7 DEF e

(* Where the words of a write lie: start and end are the block's, o and d  *)
(* the data's, p and e what its first word and its last word have besides. *)
WordsFit(w, start, end, o, d, p, e) ==
  /\ p \in 0..(w - 1) /\ e \in 0..(w - 1) /\ d - e \in Nat /\ start <= o - p
  /\ p # 0 => /\ w - p \in Nat /\ w - p <= d - e
              /\ (o + (w - p)) % w = 0 /\ o + (w - p) <= end
  /\ \A n \in Nat : (o + n) % w = 0 =>
       /\ n < d - e => n + w <= d - e /\ (o + (n + w)) % w = 0 /\ o + (n + w) <= end
       /\ n = d - e /\ e # 0 => o + (n + w) <= end

LEMMA WordsLemma ==
  ASSUME NEW w \in {1, 2, 4}, NEW start \in Nat, NEW end \in Nat, start % w = 0, end % w = 0,
         NEW o \in Nat, NEW d \in Nat, start <= o, o + d <= end, d > 0,
         o % w = 0 \/ (o % w) + d >= w
  PROVE  WordsFit(w, start, end, o, d, o % w, (o + d) % w)
<1>1. CASE w = 1
  BY <1>1 DEF WordsFit
<1>2. CASE w = 2
  <2>1. PICK s \in Nat : start = 2 * s
    BY <1>2
  <2>2. PICK e \in Nat : end = 2 * e
    BY <1>2
  <2>3. PICK p \in Nat, x \in 0..1 : o = 2 * p + x
    BY <1>2
  <2>0. \A z \in Nat : \E q \in Nat, y \in 0..1 : z = 2 * q + y
    <3>1. \A z \in Nat : z \div 2 \in Nat /\ z % 2 \in 0..1 /\ z = 2 * (z \div 2) + (z % 2)
      OBVIOUS
    <3> TAKE z \in Nat
    <3> WITNESS z \div 2 \in Nat, z % 2 \in 0..1
    <3> QED
      BY <3>1
  <2>7. o + d \in Nat
    OBVIOUS
  <2>4. PICK q \in Nat, y \in 0..1 : o + d = 2 * q + y
    BY <2>0, <2>7, Zenon
  <2>5. o % 2 = x /\ (o + d) % 2 = y
    BY <2>3, <2>4
  <2>6. \A n \in Nat : (o + n) % 2 = 0 => \E k \in Nat : o + n = 2 * k
    OBVIOUS
  <2> QED
    BY <1>2, <2>1, <2>2, <2>3, <2>4, <2>5, <2>6 DEF WordsFit
<1>3. CASE w = 4
  <2>1. PICK s \in Nat : start = 4 * s
    BY <1>3
  <2>2. PICK e \in Nat : end = 4 * e
    BY <1>3
  <2>3. PICK p \in Nat, x \in 0..3 : o = 4 * p + x
    BY <1>3
  <2>0. \A z \in Nat : \E q \in Nat, y \in 0..3 : z = 4 * q + y
    <3>1. \A z \in Nat : z \div 4 \in Nat /\ z % 4 \in 0..3 /\ z = 4 * (z \div 4) + (z % 4)
      OBVIOUS
    <3> TAKE z \in Nat
    <3> WITNESS z \div 4 \in Nat, z % 4 \in 0..3
    <3> QED
      BY <3>1
  <2>7. o + d \in Nat
    OBVIOUS
  <2>4. PICK q \in Nat, y \in 0..3 : o + d = 4 * q + y
    BY <2>0, <2>7, Zenon
  <2>5. o % 4 = x /\ (o + d) % 4 = y
    BY <2>3, <2>4
  <2>6. \A n \in Nat : (o + n) % 4 = 0 => \E k \in Nat : o + n = 4 * k
    OBVIOUS
  <2> QED
    BY <1>3, <2>1, <2>2, <2>3, <2>4, <2>5, <2>6 DEF WordsFit
<1> QED
  BY <1>1, <1>2, <1>3

LEMMA NumbersLemma ==
  ASSUME ChipInv, CallInv, InCall
  PROVE  /\ width \in {1, 2, 4} /\ offset \in Nat
         /\ Block.offset \in Nat /\ Block.size \in Nat /\ Block.offset + Block.size \in Nat
         /\ Block.offset <= offset /\ offset < Block.offset + Block.size
         /\ Block.offset % width = 0 /\ (Block.offset + Block.size) % width = 0
<1>1. offset \in Nat
  BY DEF CallInv
<1>2. Block.offset \in Nat /\ Block.size \in Nat
  BY BlockLemma
<1>3. Block.offset + Block.size \in Nat
  BY <1>2
<1> QED
  BY <1>1, <1>2, <1>3, BlockLemma

(* A block's data ends in a whole word, or in the word it begins in only   *)
(* if that ends there.                                                     *)
LEMMA CoveredLemma ==
  ASSUME WordsAreCovered, ChipInv, CallInv, InCall, length > 0
  PROVE  preserve = 0 \/ preserve + data_to_write >= width
<1>1. /\ width \in {1, 2, 4} /\ offset \in Nat /\ Block.offset % width = 0
      /\ Block.offset + Block.size \in Nat /\ (Block.offset + Block.size) % width = 0
  BY NumbersLemma
<1>2. /\ data_to_write \in Nat /\ data_to_write > 0 /\ length \in Nat
      /\ data_to_write < length => offset + data_to_write = Block.offset + Block.size
      /\ data_to_write <= length
  BY DataLemma
<1>3. CASE width = 1
  BY <1>1, <1>3 DEF preserve
<1>4. CASE width = 2
  BY <1>1, <1>2, <1>4 DEF preserve
<1>5. CASE width = 4
  <2>1. CASE data_to_write < length
    <3>1. (offset + data_to_write) % 4 = 0
      BY <1>1, <1>2, <1>5, <2>1
    <3> QED
      BY <1>1, <1>2, <1>5, <3>1 DEF preserve
  <2>2. CASE offset = Block.offset
    BY <1>1, <1>5, <2>2 DEF preserve
  <2>3. CASE data_to_write = length /\ offset # Block.offset
    <3>1. /\ src = 0 /\ asked.length = src + length /\ offset = asked.offset + src
          /\ asked.offset \in Nat
      BY <2>3 DEF CallInv
    <3>2. asked.length = length /\ asked.offset = offset
      BY <1>2, <3>1
    <3>3. offset % 4 = 0 \/ (offset % 4) + length >= 4
      BY <1>2, <1>5, <2>3, <3>2 DEF WordsAreCovered, width
    <3> QED
      BY <1>1, <1>2, <1>5, <2>3, <3>3 DEF preserve
  <2> QED
    BY <1>2, <2>1, <2>2, <2>3
<1> QED
  BY <1>1, <1>3, <1>4, <1>5

LEMMA PlacesLemma ==
  ASSUME WordsAreCovered, ChipInv, CallInv, InCall, length > 0
  PROVE  WordsFit(width, Block.offset, Block.offset + Block.size, offset, data_to_write,
                  preserve, endbytes)
<1> DEFINE start == Block.offset
           end == Block.offset + Block.size
           o == offset
           d == data_to_write
           w == width
<1>1. /\ w \in {1, 2, 4} /\ o \in Nat /\ start \in Nat /\ start % w = 0
      /\ end \in Nat /\ end % w = 0 /\ start <= o
  BY NumbersLemma
<1>2. d \in Nat /\ d > 0 /\ o + d <= end
  BY DataLemma
<1>3. o % w = 0 \/ (o % w) + d >= w
  BY CoveredLemma DEF preserve
<1> HIDE DEF start, end, o, d, w
<1>4. WordsFit(w, start, end, o, d, o % w, (o + d) % w)
  BY <1>1, <1>2, <1>3, WordsLemma
<1> QED
  BY <1>4, Zenon DEF start, end, o, d, w, preserve, endbytes

(* What programming the next word makes of the block.                      *)
LEMMA NextWordLemma ==
  ASSUME WordsAreCovered, ChipInv, CallInv, InCall, length > 0,
         Place, Filled(cells, i), i < data_to_write - endbytes \/ endbytes # 0,
         NEW n, n = IF NextWord.next = Ended THEN data_to_write ELSE NextWord.next
  PROVE  /\ \A a \in BytesOf(Block) :
              (IF a - NextWord.at \in DOMAIN NextWord.bytes
               THEN Programmed(cells[a], NextWord.bytes[a - NextWord.at]) ELSE cells[a])
              = IF a - offset \in 0..(n - 1) THEN Src(a - offset) ELSE Erased
         /\ \A a \in DOMAIN cells :
              a - NextWord.at \in DOMAIN NextWord.bytes => a \in BytesOf(Block)
         /\ \/ NextWord.next = Ended
            \/ /\ NextWord.next \in Nat /\ NextWord.next <= data_to_write - endbytes
               /\ (offset + NextWord.next) % width = 0
<1> DEFINE W == NextWord
           o == offset
           d == data_to_write
           e == endbytes
           p == preserve
           w == width
           start == Block.offset
           end == Block.offset + Block.size
<1>1. /\ w \in {1, 2, 4} /\ o \in Nat /\ start \in Nat /\ end \in Nat /\ start <= o
      /\ DOMAIN cells \subseteq Nat
      /\ d \in Nat /\ o + d <= end /\ d > 0
  <2>1. w \in {1, 2, 4} /\ o \in Nat /\ start \in Nat /\ end \in Nat /\ start <= o
    BY NumbersLemma
  <2>2. DOMAIN cells \subseteq Nat
    BY BlockLemma
  <2> QED
    BY <2>1, <2>2, DataLemma
<1>2. /\ p \in 0..(w - 1) /\ e \in 0..(w - 1) /\ d - e \in Nat /\ start <= o - p
      /\ p # 0 => /\ w - p \in Nat /\ w - p <= d - e /\ (o + (w - p)) % w = 0 /\ o + (w - p) <= end
      /\ \A m \in Nat : (o + m) % w = 0 =>
           /\ m < d - e => m + w <= d - e /\ (o + (m + w)) % w = 0 /\ o + (m + w) <= end
           /\ m = d - e /\ e # 0 => o + (m + w) <= end
  BY PlacesLemma DEF WordsFit
<1>3. i \in Nat /\ i <= d - e /\ (i = 0 \/ (o + i) % w = 0) /\ (i < d - e \/ e # 0)
  BY DEF Place
<1>4. \A a \in BytesOf(Block) : cells[a] = IF a - o \in 0..(i - 1) THEN Src(a - o) ELSE Erased
  BY DEF Filled
<1>5. \A a : a \in BytesOf(Block) <=> a \in Nat /\ start <= a /\ a < end
  <2>1. start \in Nat /\ Block.size \in Nat
    BY NumbersLemma
  <2> QED
    BY <2>1 DEF BytesOf
<1>6. \A b : Programmed(Erased, b) = b
  BY DEF Programmed
<1> HIDE DEF o, d, e, p, w, start, end
<1>7. CASE i = 0 /\ p # 0
  <2>1. W = [at |-> o - p, next |-> w - p,
             bytes |-> [k \in 0..(w - 1) |-> IF k < p THEN cells[o - p + k] ELSE Src(k - p)]]
    BY <1>7 DEF NextWord, o, p, w
  <2>2. /\ W.at = o - p /\ W.next = w - p /\ DOMAIN W.bytes = 0..(w - 1)
        /\ \A k \in 0..(w - 1) : W.bytes[k] = IF k < p THEN cells[o - p + k] ELSE Src(k - p)
    BY <2>1
  <2>3. W.next # Ended /\ n = w - p
    BY <1>2, <1>7, <2>2 DEF Ended
  <2> HIDE DEF W
  <2>4. ASSUME NEW a \in BytesOf(Block), a - W.at \in DOMAIN W.bytes
        PROVE  W.bytes[a - W.at] = IF a - o \in 0..(n - 1) THEN Src(a - o) ELSE Erased
    <3> DEFINE k == a - (o - p)
    <3>1. a \in Nat /\ k \in 0..(w - 1)
      BY <1>5, <2>2, <2>4
    <3>5. a \in Nat /\ o \in Nat /\ p \in Int /\ w \in Int /\ n = w - p /\ W.at = o - p
      BY <1>1, <1>2, <1>5, <2>2, <2>3
    <3>2. /\ a - W.at = k /\ o - p + k = a /\ k - p = a - o
          /\ k < p <=> a - o \notin 0..(n - 1)
      BY <3>1, <3>5
    <3> HIDE DEF k
    <3>3. W.bytes[k] = IF k < p THEN cells[a] ELSE Src(a - o)
      BY <2>2, <3>1, <3>2
    <3>4. k < p => cells[a] = Erased
      BY <1>1, <1>2, <1>4, <1>7, <3>1, <3>2
    <3> QED
      BY <3>2, <3>3, <3>4
  <2>5. ASSUME NEW a \in BytesOf(Block)
        PROVE  /\ cells[a] = Erased
               /\ a - W.at \notin DOMAIN W.bytes => a - o \notin 0..(n - 1)
    <3>1. a \in Nat /\ 0..(i - 1) = {}
      BY <1>5, <1>7
    <3>2. cells[a] = Erased
      BY <1>4, <3>1
    <3> QED
      BY <1>1, <1>2, <2>2, <2>3, <3>1, <3>2
  <2>6. ASSUME NEW a \in DOMAIN cells, a - W.at \in DOMAIN W.bytes PROVE a \in BytesOf(Block)
    <3>1. a \in Nat /\ a - (o - p) \in 0..(w - 1)
      BY <1>1, <2>2, <2>6
    <3> QED
      BY <1>1, <1>2, <1>5, <1>7, <3>1
  <2> QED
    BY <1>2, <1>6, <1>7, <2>2, <2>4, <2>5, <2>6 DEF W, o, d, e, w
<1>8. CASE ~ (i = 0 /\ p # 0) /\ i < d - e
  <2>0. (o + i) % w = 0
    <3>1. i = 0 => (o + i) % w = 0
      BY <1>1, <1>8 DEF p, preserve, o, w
    <3> QED
      BY <1>3, <3>1
  <2>1. W = [at |-> o + i, next |-> i + w, bytes |-> [k \in 0..(w - 1) |-> Src(i + k)]]
    BY <1>8 DEF NextWord, o, p, w, d, e
  <2>2. /\ W.at = o + i /\ W.next = i + w /\ DOMAIN W.bytes = 0..(w - 1)
        /\ \A k \in 0..(w - 1) : W.bytes[k] = Src(i + k)
    BY <2>1
  <2>3. W.next # Ended /\ n = i + w
    BY <1>1, <1>3, <2>2 DEF Ended
  <2>7. i + w <= d - e /\ (o + (i + w)) % w = 0 /\ o + (i + w) <= end
    BY <1>2, <1>3, <1>8, <2>0
  <2> HIDE DEF W
  <2>4. ASSUME NEW a \in BytesOf(Block), a - W.at \in DOMAIN W.bytes
        PROVE  /\ W.bytes[a - W.at] = Src(a - o) /\ a - o \in 0..(n - 1) /\ cells[a] = Erased
    <3> DEFINE k == a - (o + i)
    <3>1. a \in Nat /\ k \in 0..(w - 1)
      BY <1>5, <2>2, <2>4
    <3>2. a - W.at = k /\ i + k = a - o /\ a - o \in 0..(n - 1) /\ a - o \notin 0..(i - 1)
      BY <1>1, <1>3, <2>2, <2>3, <3>1
    <3> HIDE DEF k
    <3> QED
      BY <1>4, <2>2, <3>1, <3>2
  <2>5. ASSUME NEW a \in BytesOf(Block), a - W.at \notin DOMAIN W.bytes
        PROVE  a - o \in 0..(n - 1) <=> a - o \in 0..(i - 1)
    <3>1. a \in Nat
      BY <1>5
    <3>2. w \in Nat /\ i \in Nat /\ o \in Nat /\ n = i + w
      BY <1>1, <1>3, <2>3
    <3>3. a - (o + i) \notin 0..(w - 1)
      BY <2>2, <2>5
    <3> QED
      BY <3>1, <3>2, <3>3
  <2>6. ASSUME NEW a \in DOMAIN cells, a - W.at \in DOMAIN W.bytes PROVE a \in BytesOf(Block)
    <3>1. a \in Nat /\ a - (o + i) \in 0..(w - 1)
      BY <1>1, <2>2, <2>6
    <3> QED
      BY <1>1, <1>3, <1>5, <2>7, <3>1
  <2>8. i + w \in Nat
    BY <1>1, <1>3
  <2> QED
    BY <1>4, <1>6, <2>2, <2>4, <2>5, <2>6, <2>7, <2>8 DEF W, o, d, e, w
<1>9. CASE ~ (i = 0 /\ p # 0) /\ ~ (i < d - e)
  <2>0. (o + i) % w = 0 /\ i = d - e /\ e # 0
    <3>1. i = 0 => (o + i) % w = 0
      BY <1>1, <1>9 DEF p, preserve, o, w
    <3> QED
      BY <1>2, <1>3, <1>9, <3>1
  <2>1. W = [at |-> o + i, next |-> Ended,
             bytes |-> [k \in 0..(w - 1) |-> IF k < e THEN Src(i + k) ELSE cells[o + d + k - e]]]
    BY <1>9 DEF NextWord, o, p, w, d, e
  <2>2. /\ W.at = o + i /\ W.next = Ended /\ DOMAIN W.bytes = 0..(w - 1)
        /\ \A k \in 0..(w - 1) : W.bytes[k] = IF k < e THEN Src(i + k) ELSE cells[o + d + k - e]
    BY <2>1
  <2>3. n = d /\ i + e = d
    BY <1>1, <1>2, <2>0, <2>2 DEF d
  <2>7. o + (i + w) <= end
    BY <1>2, <1>3, <2>0
  <2> HIDE DEF W
  <2>4. ASSUME NEW a \in BytesOf(Block), a - W.at \in DOMAIN W.bytes
        PROVE  /\ W.bytes[a - W.at] = IF a - o \in 0..(n - 1) THEN Src(a - o) ELSE Erased
               /\ cells[a] = Erased
    <3> DEFINE k == a - (o + i)
    <3>1. a \in Nat /\ k \in 0..(w - 1)
      BY <1>5, <2>2, <2>4
    <3>2. /\ a - W.at = k /\ i + k = a - o /\ a - o \notin 0..(i - 1) /\ o + d + k - e = a
          /\ k < e <=> a - o \in 0..(n - 1)
      BY <1>1, <1>2, <1>3, <2>2, <2>3, <3>1
    <3> HIDE DEF k
    <3>3. W.bytes[k] = IF k < e THEN Src(a - o) ELSE cells[a]
      BY <2>2, <3>1, <3>2
    <3>4. cells[a] = Erased
      BY <1>4, <3>2
    <3> QED
      BY <3>2, <3>3, <3>4
  <2>5. ASSUME NEW a \in BytesOf(Block), a - W.at \notin DOMAIN W.bytes
        PROVE  a - o \in 0..(n - 1) <=> a - o \in 0..(i - 1)
    <3>1. a \in Nat
      BY <1>5
    <3>2. e \in Nat /\ d \in Nat /\ w \in Nat /\ e <= w /\ i \in Nat
      BY <1>1, <1>2, <1>3
    <3>3. a - (o + i) \notin 0..(w - 1)
      BY <2>2, <2>5
    <3> QED
      BY <1>1, <2>3, <3>1, <3>2, <3>3
  <2>6. ASSUME NEW a \in DOMAIN cells, a - W.at \in DOMAIN W.bytes PROVE a \in BytesOf(Block)
    <3>1. a \in Nat /\ a - (o + i) \in 0..(w - 1)
      BY <1>1, <2>2, <2>6
    <3> QED
      BY <1>1, <1>3, <1>5, <2>7, <3>1
  <2> QED
    BY <1>4, <1>6, <2>2, <2>4, <2>5, <2>6 DEF W, o
<1> QED
  BY <1>7, <1>8, <1>9

LEMMA FlashInitLemma == Init => FlashInv
<1> SUFFICES ASSUME Init PROVE FlashInv
  OBVIOUS
<1>1. ChipInv
  BY DEF Init, ChipInv, Waiting
<1>2. CallInv
  BY DEF Init, CallInv, InCall, Stages
<1>3. StageInv
  BY DEF Init, StageInv, Waiting, Erasing, Programming
<1>4. KeptInv
  BY DEF Init, KeptInv, WorkedOn, ReadingArray
<1>5. DoneInv
  BY DEF Init, DoneInv
<1> QED
  BY <1>1, <1>2, <1>3, <1>4, <1>5 DEF FlashInv

(* What a step leaves of the bytes that it may not touch.                  *)
LEMMA KeptFrameLemma ==
  ASSUME KeptInv, UNCHANGED <<asked, before, chip>>, chip \in Chips,
         offset <= offset', offset \in Nat, offset' \in Nat,
         \A b \in Physical(chip) : \A a \in BytesOf(b) :
           /\ ~ asked.dead /\ ~ WorkedOn(a) /\ (~ Touched(b) \/ b.offset > offset')
           => cells'[a] = cells[a] /\ ~ WorkedOn(a)'
  PROVE  KeptInv'
<1> SUFFICES ASSUME ~ asked.dead, NEW b \in Physical(chip), ~ Touched(b) \/ b.offset > offset',
                    NEW a \in BytesOf(b)
             PROVE  cells'[a] = before[a] /\ ~ WorkedOn(a)'
  BY DEF KeptInv, Touched, Physical, TopBoot
<1>1. b.offset \in Nat
  BY BlocksLemma DEF Tiles
<1>2. ~ Touched(b) \/ b.offset > offset
  BY <1>1
<1>3. cells[a] = before[a] /\ ~ WorkedOn(a)
  BY <1>2 DEF KeptInv
<1> QED
  BY <1>3

(* The same call and block as before the step.                             *)
LEMMA CallFrameLemma ==
  ASSUME CallInv, InCall, pc' \in Stages,
         UNCHANGED <<blocks, chip, offset, length, src, asked, ret, pattern>>,
         \A k \in 0..(src - 1) : cells'[asked.offset + k] = cells[asked.offset + k]
  PROVE  CallInv' /\ Block' = Block /\ data_to_write' = data_to_write
<1>1. Block' = Block
  BY DEF Block
<1>2. data_to_write' = data_to_write
  BY <1>1 DEF data_to_write
<1>3. Physical(chip)' = Physical(chip) /\ Size(chip.regions)' = Size(chip.regions)
  BY DEF Physical, TopBoot
<1>4. CallInv'
  BY <1>1, <1>3 DEF CallInv, InCall
<1> QED
  BY <1>1, <1>2, <1>4

(* alt_flash_cfi_init.                                                     *)
LEMMA FlashOpenStep == ASSUME FlashInv, alt_flash_cfi_init PROVE FlashInv'
<1>1. /\ pc = "off" /\ pc' \in {"idle", "no flash"} /\ doing = ReadingArray
      /\ UNCHANGED <<chip, cells, doing, fault, dead, offset, asked, before, writes, ret>>
  BY DEF FlashInv, ChipInv, Waiting, alt_flash_cfi_init, chipvars, callvars, history
<1>2. ChipInv'
  BY <1>1 DEF FlashInv, ChipInv, InCall, Stages
<1>3. CallInv'
  <2>1. pc' = "idle" => blocks' = Lay(Regions(chip))
    BY <1>1 DEF alt_flash_cfi_init
  <2>2. Lay(Regions(chip)) = Physical(chip) /\ Physical(chip)' = Physical(chip)
    BY <1>1, BlocksLemma DEF FlashInv, ChipInv, Physical, TopBoot
  <2> QED
    BY <1>1, <2>1, <2>2 DEF CallInv, InCall, Stages
<1>4. StageInv'
  BY <1>1 DEF StageInv, Waiting, Erasing, Programming
<1>5. KeptInv'
  BY <1>1 DEF FlashInv, KeptInv, WorkedOn, Touched, Physical, TopBoot
<1>6. DoneInv'
  BY <1>1 DEF FlashInv, DoneInv
<1> QED
  BY <1>2, <1>3, <1>4, <1>5, <1>6 DEF FlashInv

(* alt_flash_cfi_write is called.                                          *)
LEMMA FlashWriteStep ==
  ASSUME FlashInv, NEW o \in DOMAIN cells, NEW n \in Lengths, NEW p \in Patterns,
         o + n <= Size(chip.regions), Write(o, n, p)
  PROVE  FlashInv'
<1>1. /\ pc = "idle" /\ pc' = "compare" /\ UNCHANGED <<blocks, chip, cells, doing, fault, dead>>
      /\ offset' = o /\ length' = n /\ src' = 0 /\ pattern' = p /\ ret' = "0"
      /\ asked' = [offset |-> o, length |-> n, dead |-> dead] /\ before' = cells
  BY DEF Write, chipvars
<1>2. ChipInv'
  BY <1>1 DEF FlashInv, ChipInv, InCall, Stages, Waiting
<1>3. CallInv'
  <2>1. Physical(chip)' = Physical(chip) /\ Size(chip.regions)' = Size(chip.regions)
    BY <1>1 DEF Physical, TopBoot
  <2>2. o \in Nat /\ o < Size(chip.regions) /\ n \in Nat /\ Size(chip.regions) \in Nat
    <3>1. Size(chip.regions) \in Nat /\ DOMAIN cells = 0..(Size(chip.regions) - 1)
      BY BlocksLemma DEF FlashInv, ChipInv
    <3> QED
      BY <3>1, CfiFlashAssumption
  <2>3. blocks = Physical(chip)
    BY <1>1 DEF FlashInv, CallInv
  <2>4. offset' = asked'.offset + src' /\ asked'.length = src' + length'
    BY <1>1, <2>2
  <2>5. \A k \in 0..(src' - 1) : FALSE
    BY <1>1
  <2> QED
    BY <1>1, <2>1, <2>2, <2>3, <2>4, <2>5 DEF CallInv, Stages
<1>4. StageInv'
  BY <1>1 DEF StageInv, Waiting, Erasing, Programming
<1>5. KeptInv'
  <2>1. ~ asked'.dead => doing' = ReadingArray
    BY <1>1 DEF FlashInv, ChipInv, Waiting
  <2>2. ~ asked'.dead => \A a : ~ WorkedOn(a)'
    <3> SUFFICES ASSUME ~ asked'.dead, NEW a PROVE ~ WorkedOn(a)'
      OBVIOUS
    <3>1. doing' = [op |-> "read array"]
      BY <2>1 DEF ReadingArray
    <3>2. doing'.op = "read array"
      BY <3>1
    <3> QED
      BY <3>2 DEF WorkedOn
  <2> QED
    BY <1>1, <2>2 DEF KeptInv
<1>6. DoneInv'
  BY <1>1 DEF DoneInv
<1> QED
  BY <1>2, <1>3, <1>4, <1>5, <1>6 DEF FlashInv

(* The comparison of the block.                                            *)
LEMMA FlashCompareStep == ASSUME FlashInv, Compare PROVE FlashInv'
<1>1. /\ pc = "compare" /\ pc' \in {"advance", "unlock to erase", "erase"}
      /\ UNCHANGED <<chip, cells, doing, fault, dead, blocks, i>>
      /\ UNCHANGED <<offset, length, src, pattern, ret, asked, before, writes>>
      /\ pc' = "advance" <=> Same
  BY DEF Compare, chipvars, callvars, history
<1>2. ChipInv /\ CallInv /\ InCall /\ ~ Waiting /\ pc' \in Stages
  BY <1>1 DEF FlashInv, InCall, Stages, Waiting
<1>3. CallInv' /\ Block' = Block /\ data_to_write' = data_to_write
  BY <1>1, <1>2, CallFrameLemma
<1>4. Same => Listens
  BY DEF Same
<1>5. ChipInv'
  <2>1. pc' = "advance" => doing = ReadingArray
    BY <1>1, <1>4 DEF Listens
  <2> QED
    BY <1>1, <1>2, <2>1 DEF ChipInv, InCall, Stages, Waiting
<1>6. StageInv'
  <2>1. ASSUME Same
        PROVE  \A k \in 0..(data_to_write - 1) : cells[offset + k] = Byte(pattern, src + k)
    BY <1>2, <2>1, DataLemma DEF Same
  <2>2. ASSUME ~ Same, length = 0 PROVE dead \/ (fault /\ chip.algorithm = "AMD")
    <3>1. data_to_write = 0
      BY <1>2, <2>2, DataLemma
    <3>2. ~ Listens
      BY <2>2, <3>1 DEF Same
    <3> QED
      BY <1>2, <3>2 DEF Listens, ChipInv
  <2>3. Listens' = Listens
    BY <1>1 DEF Listens
  <2> QED
    BY <1>1, <1>3, <1>4, <2>1, <2>2, <2>3 DEF StageInv, Waiting, Erasing, Programming
<1>7. KeptInv'
  BY <1>1 DEF FlashInv, KeptInv, WorkedOn, Touched, Physical, TopBoot
<1>8. DoneInv'
  BY <1>1 DEF DoneInv
<1> QED
  BY <1>3, <1>5, <1>6, <1>7, <1>8 DEF FlashInv

LEMMA FirstPlaceLemma ==
  ASSUME WordsAreCovered, ChipInv, CallInv, InCall, length > 0
  PROVE  0 <= data_to_write - endbytes /\ (0 < data_to_write - endbytes \/ endbytes # 0)
<1>1. WordsFit(width, Block.offset, Block.offset + Block.size, offset, data_to_write,
               preserve, endbytes)
  BY PlacesLemma
<1>2. width \in {1, 2, 4}
  BY NumbersLemma
<1>3. endbytes \in 0..(width - 1) /\ data_to_write - endbytes \in Nat
  BY <1>1, Zenon DEF WordsFit
<1>4. data_to_write \in Nat /\ data_to_write > 0
  BY DataLemma
<1> QED
  BY <1>2, <1>3, <1>4

(* A call that gives up is over.                                           *)
LEMMA GiveUpLemma ==
  ASSUME FlashInv, InCall, doing # ReadingArray => dead, pc' = "idle", ret' \in {"EIO", "ETIMEDOUT"},
         UNCHANGED <<chip, cells, doing, fault, dead, blocks>>,
         UNCHANGED <<offset, length, src, pattern, asked, before, writes>>
  PROVE  FlashInv'
<1>1. ChipInv'
  BY DEF FlashInv, ChipInv, InCall, Stages
<1>2. CallInv'
  BY DEF FlashInv, CallInv, InCall, Stages, Waiting, Physical, TopBoot
<1>3. StageInv'
  BY DEF StageInv, Waiting, Erasing, Programming
<1>4. KeptInv'
  BY DEF FlashInv, KeptInv, WorkedOn, Touched, Physical, TopBoot
<1> QED
  BY <1>1, <1>2, <1>3, <1>4 DEF FlashInv, DoneInv

(* alt_unlock_block_intel, before erasing and before programming.          *)
LEMMA FlashUnlockStep ==
  ASSUME FlashInv,
         Unlock("unlock to erase", "erase") \/ Unlock("unlock to program", "word"),
         WordsAreCovered
  PROVE  FlashInv'
<1>1. /\ pc \in {"unlock to erase", "unlock to program"} /\ i' = 0
      /\ UNCHANGED <<chip, cells, doing, fault, dead, blocks>>
      /\ UNCHANGED <<offset, length, src, pattern, asked, before, writes>>
  BY DEF Unlock, history
<1>2. CASE pc' = "idle"
  <2>1. InCall /\ (doing # ReadingArray => dead)
    BY <1>1 DEF FlashInv, ChipInv, InCall, Stages, Waiting
  <2>2. ret' \in {"EIO", "ETIMEDOUT"}
    BY <1>2 DEF Unlock
  <2> QED
    BY <1>1, <1>2, <2>1, <2>2, GiveUpLemma
<1>3. CASE pc' # "idle"
  <2>1. /\ \/ pc = "unlock to erase" /\ pc' = "erase"
           \/ pc = "unlock to program" /\ pc' = "word"
        /\ ret' = ret
    BY <1>3 DEF Unlock
  <2>2. ChipInv /\ CallInv /\ InCall /\ ~ Waiting /\ pc' \in Stages
    BY <1>1, <2>1 DEF FlashInv, InCall, Stages, Waiting
  <2>3. CallInv' /\ Block' = Block /\ data_to_write' = data_to_write
    BY <1>1, <2>1, <2>2, CallFrameLemma
  <2>4. ChipInv'
    BY <1>1, <2>1, <2>2 DEF ChipInv, InCall, Stages, Waiting
  <2>5. StageInv'
    <3>1. pc = "unlock to program" => length > 0 /\ ~ fault /\ Filled(cells, 0)
      BY DEF FlashInv, StageInv, Programming
    <3>2. ASSUME pc = "unlock to program"
          PROVE  Place' /\ Filled(cells, i)' /\ (i < data_to_write - endbytes \/ endbytes # 0)'
      <4>1. endbytes' = endbytes /\ width' = width
        BY <1>1, <2>1, <2>3 DEF endbytes, width
      <4>2. 0 <= data_to_write - endbytes /\ (0 < data_to_write - endbytes \/ endbytes # 0)
        BY <2>2, <3>1, <3>2, FirstPlaceLemma
      <4>3. /\ 0 <= data_to_write' - endbytes' /\ (0 < data_to_write' - endbytes' \/ endbytes' # 0)
            /\ i' = 0 /\ i' \in Nat
        BY <1>1, <2>1, <2>3, <4>1, <4>2
      <4>4. Place'
        BY <4>3, Zenon DEF Place
      <4>5. Filled(cells, i)'
        <5>1. \A k : Src(k)' = Src(k)
          BY <1>1, <2>1 DEF Src, Byte
        <5> QED
          BY <1>1, <2>1, <2>3, <3>1, <3>2, <5>1 DEF Filled, BytesOf
      <4>6. (i < data_to_write - endbytes \/ endbytes # 0)'
        BY <4>3, Zenon
      <4> QED
        BY <4>4, <4>5, <4>6
    <3>3. Erasing => (length = 0 => dead \/ (fault /\ chip.algorithm = "AMD"))
      BY DEF FlashInv, StageInv
    <3> QED
      BY <1>1, <2>1, <3>1, <3>2, <3>3 DEF StageInv, Waiting, Erasing, Programming
  <2>6. KeptInv'
    BY <1>1, <2>1 DEF FlashInv, KeptInv, WorkedOn, Touched, Physical, TopBoot
  <2>7. DoneInv'
    BY <1>1, <2>1 DEF DoneInv
  <2> QED
    BY <2>3, <2>4, <2>5, <2>6, <2>7 DEF FlashInv
<1> QED
  BY <1>2, <1>3

(* The bytes of the block are none of those that must be kept.             *)
LEMMA MineLemma ==
  ASSUME ChipInv, CallInv, InCall, length > 0, NEW b \in Physical(chip), NEW a \in BytesOf(b),
         ~ Touched(b) \/ b.offset > offset
  PROVE  a \notin BytesOf(Block) /\ a \in DOMAIN cells
<1>1. /\ offset \in Nat /\ Block.offset \in Nat /\ Block.size \in Nat
      /\ Block.offset <= offset /\ offset < Block.offset + Block.size
  BY NumbersLemma
<1>2. /\ asked.offset \in Nat /\ offset = asked.offset + src /\ asked.length = src + length
      /\ src \in Nat /\ length \in Nat
  BY DataLemma
<1>3. offset \in BytesOf(Block)
  BY <1>1 DEF BytesOf
<1>4. offset \in asked.offset..(asked.offset + asked.length - 1)
  BY <1>2
<1>5. Touched(Block) /\ ~ (Block.offset > offset)
  BY <1>1, <1>3, <1>4 DEF Touched
<1>6. a \notin BytesOf(Block)
  BY <1>5, BlockLemma
<1>7. a \in DOMAIN cells
  <2>1. b.offset \in Nat /\ b.size \in Nat /\ b.offset + b.size <= Size(chip.regions)
    BY BlocksLemma DEF ChipInv, Tiles
  <2>2. DOMAIN cells = 0..(Size(chip.regions) - 1) /\ Size(chip.regions) \in Nat
    BY BlockLemma
  <2> QED
    BY <2>1, <2>2 DEF BytesOf
<1> QED
  BY <1>6, <1>7

LEMMA QuietLemma ==
  ASSUME doing = ReadingArray
  PROVE  /\ \A a : ~ WorkedOn(a)
         /\ cells = [a \in DOMAIN cells |-> cells[a]] => Worked = cells
<1>1. doing.op = "read array"
  BY DEF ReadingArray
<1>2. \A a : ~ WorkedOn(a)
  BY <1>1 DEF WorkedOn
<1> QED
  BY <1>2 DEF Worked

(* alt_erase_block_amd and alt_erase_block_intel.                          *)
LEMMA FlashEraseStep == ASSUME FlashInv, Erase PROVE FlashInv'
<1>1. /\ pc = "erase" /\ pc' = "erasing"
      /\ UNCHANGED <<chip, cells, dead, blocks, i>>
      /\ UNCHANGED <<offset, length, src, pattern, ret, asked, before, writes>>
  BY DEF Erase, callvars, history
<1>2. /\ ChipInv /\ CallInv /\ InCall /\ ~ Waiting /\ pc' \in Stages /\ Erasing
      /\ pc' \notin {"off", "no flash", "idle"} /\ Waiting'
  BY <1>1 DEF FlashInv, InCall, Stages, Waiting, Erasing
<1>3. CallInv' /\ Block' = Block /\ data_to_write' = data_to_write
  BY <1>1, <1>2, CallFrameLemma
<1>4. \/ ~ Listens /\ UNCHANGED <<doing, fault>>
      \/ Listens /\ fault' = TRUE /\ doing' = doing
      \/ Listens /\ doing' = [op |-> "erase", block |-> Block] /\ fault' = fault
  BY <1>2, BlockLemma DEF Erase
<1>5. /\ doing = ReadingArray \/ (dead /\ ~ Listens)
      /\ Listens => doing = ReadingArray
  BY <1>2 DEF ChipInv, Listens
<1>6. length = 0 => ~ Listens
  BY <1>2, <1>5 DEF FlashInv, StageInv, ChipInv, Listens
<1>7. fault \in BOOLEAN /\ fault' \in BOOLEAN
  BY <1>2, <1>4 DEF ChipInv
<1>8. ChipInv'
  <2>1. dead => doing # ReadingArray /\ ~ Listens
    BY <1>2 DEF ChipInv, Listens
  <2> QED
    BY <1>1, <1>2, <1>4, <1>7, <2>1 DEF ChipInv
<1>9. CASE doing' = doing
  <2>1. ~ dead => doing' = ReadingArray
    BY <1>5, <1>9
  <2>2. ~ dead => \A a : ~ WorkedOn(a)'
    BY <1>9, <2>1, QuietLemma DEF WorkedOn
  <2>3. ~ dead => fault'
    <3> SUFFICES ASSUME ~ dead PROVE fault'
      OBVIOUS
    <3>1. doing = [op |-> "read array"]
      BY <1>5 DEF ReadingArray
    <3>2. doing' # [op |-> "erase", block |-> Block]
      BY <1>9, <3>1
    <3>3. ~ Listens => fault
      BY <1>5 DEF Listens
    <3>4. CASE Listens
      <4>1. fault' = TRUE
        BY <1>4, <3>2, <3>4
      <4> QED
        BY <4>1
    <3>5. CASE ~ Listens
      <4>1. fault' = fault
        BY <1>4, <3>5
      <4>2. fault
        BY <3>3, <3>5
      <4> QED
        BY <4>1, <4>2
    <3> QED
      BY <3>4, <3>5
  <2>4. StageInv'
    <3>1. length = 0 => dead \/ (fault' /\ chip.algorithm = "AMD")
      BY <1>2, <1>4, <1>6 DEF FlashInv, StageInv
    <3> QED
      BY <1>1, <2>2, <2>3, <3>1 DEF StageInv, Waiting, Erasing, Programming
  <2>5. KeptInv'
    BY <1>1, <1>9 DEF FlashInv, KeptInv, WorkedOn, Touched, Physical, TopBoot
  <2> QED
    BY <1>1, <1>3, <1>8, <2>4, <2>5 DEF FlashInv, DoneInv
<1>10. CASE Listens /\ doing' = [op |-> "erase", block |-> Block] /\ fault' = fault
  <2>1. /\ doing'.op = "erase" /\ doing'.block = Block /\ ~ dead /\ length > 0
    <3>1. length \in Nat /\ (dead => doing # ReadingArray)
      BY <1>2, DataLemma DEF ChipInv
    <3> QED
      BY <1>5, <1>6, <1>10, <3>1
  <2>2. \A a : WorkedOn(a)' <=> a \in BytesOf(Block)
    <3>1. \A a : a \in BytesOf(Block) <=> a \in BytesOf(doing'.block)
      BY <2>1
    <3> QED
      BY <2>1, <3>1 DEF WorkedOn, BytesOf
  <2>3. Filled(Worked, 0)'
    <3>1. \A a \in DOMAIN cells : a \in BytesOf(Block) => Worked'[a] = Erased
      BY <1>1, <2>1, <2>2 DEF Worked
    <3>2. BytesOf(Block) \subseteq DOMAIN cells
      BY <1>2, BlockLemma
    <3>3. \A a \in BytesOf(Block) : Worked'[a] = Erased
      BY <3>1, <3>2
    <3>4. BytesOf(Block)' = BytesOf(Block) /\ 0..(0 - 1) = {}
      BY <1>3 DEF BytesOf
    <3> QED
      BY <3>3, <3>4 DEF Filled
  <2>4. StageInv'
    BY <1>1, <1>3, <2>1, <2>2, <2>3 DEF StageInv, Waiting, Erasing, Programming, BytesOf
  <2>5. KeptInv'
    <3>1. offset \in Nat /\ chip \in Chips
      BY <1>2, NumbersLemma DEF ChipInv
    <3>2. ASSUME NEW b \in Physical(chip), NEW a \in BytesOf(b), ~ Touched(b) \/ b.offset > offset
          PROVE  ~ WorkedOn(a)'
      BY <1>2, <2>1, <2>2, <3>2, MineLemma
    <3> QED
      BY <1>1, <3>1, <3>2, KeptFrameLemma DEF FlashInv
  <2> QED
    BY <1>1, <1>3, <1>8, <2>4, <2>5 DEF FlashInv, DoneInv
<1> QED
  BY <1>4, <1>9, <1>10

(* alt_write_word_amd and alt_write_word_intel.                            *)
LEMMA FlashProgramStep == ASSUME FlashInv, ProgramWord, WordsAreCovered PROVE FlashInv'
<1>1. /\ pc = "word" /\ pc' = "programming" /\ i' = NextWord.next
      /\ UNCHANGED <<chip, cells, dead, blocks>>
      /\ UNCHANGED <<offset, length, src, pattern, ret, asked, before, writes>>
  BY DEF ProgramWord, callvars, history
<1>2. /\ ChipInv /\ CallInv /\ InCall /\ ~ Waiting /\ pc' \in Stages /\ Programming /\ length > 0
      /\ pc' \notin {"off", "no flash", "idle"} /\ Waiting' /\ ~ fault
  BY <1>1 DEF FlashInv, InCall, Stages, Waiting, Programming, StageInv
<1>3. CallInv' /\ Block' = Block /\ data_to_write' = data_to_write
  BY <1>1, <1>2, CallFrameLemma
<1>4. ~ dead /\ doing = ReadingArray
  BY <1>1, <1>2 DEF ChipInv
<1>5. \/ fault' = TRUE /\ doing' = doing
      \/ doing' = [op |-> "program", at |-> NextWord.at, bytes |-> NextWord.bytes] /\ fault' = fault
  BY <1>2, <1>4 DEF ProgramWord, Listens
<1>6. ChipInv'
  BY <1>1, <1>2, <1>4, <1>5 DEF ChipInv
<1>7. CASE fault' = TRUE /\ doing' = doing
  <2>1. \A a : ~ WorkedOn(a)'
    BY <1>4, <1>7, QuietLemma DEF WorkedOn
  <2>2. StageInv'
    BY <1>1, <1>2, <1>7, <2>1 DEF StageInv, Waiting, Erasing, Programming
  <2>3. KeptInv'
    BY <1>1, <1>7 DEF FlashInv, KeptInv, WorkedOn, Touched, Physical, TopBoot
  <2> QED
    BY <1>1, <1>3, <1>6, <2>2, <2>3 DEF FlashInv, DoneInv
<1>8. CASE /\ doing' = [op |-> "program", at |-> NextWord.at, bytes |-> NextWord.bytes]
           /\ fault' = fault
  <2> DEFINE n == IF NextWord.next = Ended THEN data_to_write ELSE NextWord.next
             at == NextWord.at
             bytes == NextWord.bytes
  <2>1. /\ \A a \in BytesOf(Block) :
             (IF a - at \in DOMAIN bytes THEN Programmed(cells[a], bytes[a - at]) ELSE cells[a])
             = IF a - offset \in 0..(n - 1) THEN Src(a - offset) ELSE Erased
        /\ \A a \in DOMAIN cells : a - at \in DOMAIN bytes => a \in BytesOf(Block)
        /\ \/ NextWord.next = Ended
           \/ /\ NextWord.next \in Nat /\ NextWord.next <= data_to_write - endbytes
              /\ (offset + NextWord.next) % width = 0
    <3>1. Place /\ Filled(cells, i) /\ (i < data_to_write - endbytes \/ endbytes # 0)
      BY <1>1 DEF FlashInv, StageInv
    <3> HIDE DEF n
    <3>2. n = IF NextWord.next = Ended THEN data_to_write ELSE NextWord.next
      BY DEF n
    <3> QED
      BY <1>2, <3>1, <3>2, NextWordLemma
  <2> HIDE DEF n, at, bytes
  <2>2. doing'.op = "program" /\ doing'.at = at /\ doing'.bytes = bytes
    BY <1>8 DEF at, bytes
  <2>3. \A a : WorkedOn(a)' <=> a - at \in DOMAIN bytes
    BY <2>2 DEF WorkedOn
  <2>4. \A a \in DOMAIN cells :
          Worked'[a] =
            IF a - at \in DOMAIN bytes THEN Programmed(cells[a], bytes[a - at]) ELSE cells[a]
    <3>1. Worked' = [a \in DOMAIN cells |->
                       IF ~ WorkedOn(a)' THEN cells[a] ELSE
                       IF doing'.op = "erase" THEN Erased
                       ELSE Programmed(cells[a], doing'.bytes[a - doing'.at])]
      BY <1>1 DEF Worked, Programmed, Erased, Junk
    <3> QED
      BY <2>2, <2>3, <3>1
  <2>5. \A a \in BytesOf(Block) :
          Worked'[a] = IF a - offset \in 0..(n - 1) THEN Src(a - offset) ELSE Erased
    <3>1. BytesOf(Block) \subseteq DOMAIN cells
      BY <1>2, BlockLemma
    <3> TAKE a \in BytesOf(Block)
    <3>2. Worked'[a] =
            IF a - at \in DOMAIN bytes THEN Programmed(cells[a], bytes[a - at]) ELSE cells[a]
      BY <2>4, <3>1
    <3> QED
      BY <2>1, <3>2
  <2>6. n = IF i' = Ended THEN data_to_write' ELSE i'
    BY <1>1, <1>3 DEF n
  <2>7. ASSUME NEW m, m = n PROVE Filled(Worked, m)'
    <3>1. \A k : Src(k)' = Src(k)
      BY <1>1 DEF Src, Byte, Junk
    <3>2. BytesOf(Block)' = BytesOf(Block)
      BY <1>3 DEF BytesOf
    <3>3. \A a \in BytesOf(Block)' :
            Worked'[a] = IF a - offset' \in 0..(m - 1) THEN Src(a - offset)' ELSE Erased
      <4> TAKE a \in BytesOf(Block)'
      <4>1. Worked'[a] = IF a - offset \in 0..(m - 1) THEN Src(a - offset) ELSE Erased
        BY <2>5, <2>7, <3>2
      <4>2. Src(a - offset)' = Src(a - offset)
        BY <1>1, <3>1
      <4> QED
        BY <1>1, <4>1, <4>2
    <3> QED
      BY <3>3 DEF Filled, Erased
  <2>8. \/ i' = Ended /\ Filled(Worked, data_to_write)'
        \/ Place' /\ Filled(Worked, i)'
    <3>1. Place' \/ i' = Ended
      <4>1. endbytes' = endbytes /\ width' = width
        BY <1>1, <1>3 DEF endbytes, width
      <4> QED
        BY <1>1, <1>3, <2>1, <4>1 DEF Place
    <3>2. i' = Ended => Filled(Worked, data_to_write)'
      BY <2>6, <2>7 DEF Filled
    <3>3. i' # Ended => Filled(Worked, i)'
      BY <2>6, <2>7 DEF Filled
    <3> QED
      BY <3>1, <3>2, <3>3
  <2>9. StageInv'
    <3>1. \A a \in DOMAIN cells' : WorkedOn(a)' => a \in BytesOf(Block)'
      BY <1>1, <1>3, <2>1, <2>3 DEF BytesOf
    <3> QED
      BY <1>1, <1>2, <2>8, <3>1 DEF StageInv, Waiting, Erasing, Programming
  <2>10. KeptInv'
    <3>1. offset \in Nat /\ chip \in Chips
      BY <1>2, NumbersLemma DEF ChipInv
    <3>2. ASSUME NEW b \in Physical(chip), NEW a \in BytesOf(b), ~ Touched(b) \/ b.offset > offset
          PROVE  ~ WorkedOn(a)'
      <4>1. a \notin BytesOf(Block) /\ a \in DOMAIN cells
        BY <1>2, <3>2, MineLemma
      <4> QED
        BY <2>1, <2>3, <4>1
    <3> QED
      BY <1>1, <3>1, <3>2, KeptFrameLemma DEF FlashInv
  <2> QED
    BY <1>1, <1>3, <1>6, <2>9, <2>10 DEF FlashInv, DoneInv
<1> QED
  BY <1>5, <1>7, <1>8

(* The chip ends what it is doing, well or not.                            *)
LEMMA FlashEndStep == ASSUME FlashInv, Finish \/ Fail PROVE FlashInv'
<1>1. /\ doing # ReadingArray /\ ~ dead /\ doing' = ReadingArray
      /\ \/ cells' = Worked /\ fault' = fault
         \/ cells' = Spoiled /\ fault' = TRUE
      /\ UNCHANGED <<chip, dead, blocks, pc, i>>
      /\ UNCHANGED <<offset, length, src, pattern, ret, asked, before, writes>>
  BY DEF Finish, Fail, callvars, history
<1>2. ChipInv /\ CallInv /\ InCall /\ Waiting /\ pc' \in Stages
  BY <1>1 DEF FlashInv, ChipInv, InCall, Stages, Waiting
<1>3. /\ DOMAIN cells' = DOMAIN cells /\ cells' = [a \in DOMAIN cells |-> cells'[a]]
      /\ \A a \in DOMAIN cells : ~ WorkedOn(a) => cells'[a] = cells[a]
  BY <1>1 DEF Worked, Spoiled
<1>4. (\A a : ~ WorkedOn(a)') /\ Worked' = cells'
  <2>1. doing'.op = "read array"
    BY <1>1 DEF ReadingArray
  <2>2. \A a : ~ WorkedOn(a)'
    BY <2>1 DEF WorkedOn
  <2> QED
    BY <1>3, <2>2 DEF Worked
<1>5. ChipInv'
  BY <1>1, <1>2, <1>3 DEF ChipInv
<1>6. \A a \in DOMAIN cells : WorkedOn(a) => a \in BytesOf(Block)
  BY <1>1, <1>2 DEF FlashInv, StageInv
<1>7. CallInv' /\ Block' = Block /\ data_to_write' = data_to_write
  <2>1. ASSUME NEW k \in 0..(src - 1) PROVE cells'[asked.offset + k] = cells[asked.offset + k]
    <3>1. /\ asked.offset \in Nat /\ src \in Nat /\ offset = asked.offset + src
          /\ length \in Nat /\ offset + length <= Size(chip.regions)
      BY <1>2, DataLemma
    <3>2. src # 0 /\ offset = Block.offset
      <4>1. src = 0 \/ offset = Block.offset
        BY <1>2 DEF CallInv
      <4>2. src # 0
        BY <2>1, <3>1
      <4> QED
        BY <4>1, <4>2
    <3>3. DOMAIN cells = 0..(Size(chip.regions) - 1) /\ Size(chip.regions) \in Nat
      BY <1>2, BlockLemma
    <3>4. asked.offset + k \in DOMAIN cells /\ asked.offset + k < offset
      BY <2>1, <3>1, <3>3
    <3>5. asked.offset + k \notin BytesOf(Block)
      <4>1. Block.offset \in Nat /\ Block.size \in Nat
        BY <1>2, NumbersLemma
      <4> QED
        BY <3>1, <3>2, <3>4, <4>1 DEF BytesOf
    <3> QED
      BY <1>3, <1>6, <3>4, <3>5
  <2> QED
    BY <1>1, <1>2, <2>1, CallFrameLemma
<1>8. StageInv'
  <2>1. \A n : Filled(Worked, n) => (fault' = TRUE \/ Filled(cells', n))
    <3> SUFFICES ASSUME fault' # TRUE PROVE cells' = Worked
      OBVIOUS
    <3> QED
      BY <1>1
  <2>2. \A c, n : Filled(c, n) => \A a \in BytesOf(Block)' :
                    c[a] = IF a - offset' \in 0..(n - 1) THEN Src(a - offset)' ELSE Erased
    <3>1. \A k : Src(k)' = Src(k)
      BY <1>1 DEF Src, Byte, Junk
    <3>2. BytesOf(Block)' = BytesOf(Block)
      BY <1>7 DEF BytesOf
    <3> QED
      BY <1>1, <3>1, <3>2 DEF Filled
  <2>3. pc = "erasing" => fault' = TRUE \/ Filled(Worked, 0)'
    <3>1. pc = "erasing" => fault \/ Filled(Worked, 0)
      BY <1>1 DEF FlashInv, StageInv
    <3>2. fault => fault' = TRUE
      BY <1>1, <1>2 DEF ChipInv
    <3> QED
      BY <1>4, <2>1, <2>2, <3>1, <3>2 DEF Filled
  <2>4. pc = "programming" =>
          \/ fault' = TRUE
          \/ i' = Ended /\ Filled(Worked, data_to_write)'
          \/ Place' /\ Filled(Worked, i)'
    <3>1. pc = "programming" =>
            fault \/ (i = Ended /\ Filled(Worked, data_to_write)) \/ (Place /\ Filled(Worked, i))
      BY <1>1 DEF FlashInv, StageInv
    <3>2. fault => fault' = TRUE
      BY <1>1, <1>2 DEF ChipInv
    <3>3. Place => Place'
      <4>1. endbytes' = endbytes /\ width' = width
        BY <1>1, <1>7 DEF endbytes, width
      <4> QED
        BY <1>1, <1>7, <4>1 DEF Place
    <3>4. Filled(Worked, i) => fault' = TRUE \/ Filled(Worked, i)'
      BY <1>1, <1>4, <2>1, <2>2 DEF Filled
    <3>5. Filled(Worked, data_to_write) => fault' = TRUE \/ Filled(Worked, data_to_write)'
      BY <1>7, <1>4, <2>1, <2>2 DEF Filled
    <3> QED
      BY <1>1, <3>1, <3>2, <3>3, <3>4, <3>5
  <2>5. Erasing /\ length = 0 => fault' /\ chip.algorithm = "AMD"
    <3>1. Erasing /\ length = 0 => fault /\ chip.algorithm = "AMD"
      BY <1>1 DEF FlashInv, StageInv
    <3>2. fault => fault'
      BY <1>1
    <3> QED
      BY <3>1, <3>2
  <2>6. (Erasing => Erasing') /\ (Erasing' => Erasing) /\ (Programming' => Programming)
    BY <1>1 DEF Erasing, Programming
  <2>7. Programming => length > 0
    BY DEF FlashInv, StageInv
  <2> QED
    BY <1>1, <1>2, <1>4, <2>3, <2>4, <2>5, <2>6, <2>7 DEF StageInv, Waiting
<1>9. KeptInv'
  <2>1. offset \in Nat /\ chip \in Chips
    BY <1>2, NumbersLemma DEF ChipInv
  <2>2. ASSUME NEW b \in Physical(chip), NEW a \in BytesOf(b) PROVE a \in DOMAIN cells
    <3>1. b.offset \in Nat /\ b.size \in Nat /\ b.offset + b.size <= Size(chip.regions)
      BY <2>1, BlocksLemma DEF Tiles
    <3>2. DOMAIN cells = 0..(Size(chip.regions) - 1) /\ Size(chip.regions) \in Nat
      BY <1>2, BlockLemma
    <3> QED
      BY <3>1, <3>2 DEF BytesOf
  <2> QED
    BY <1>1, <1>3, <1>4, <2>1, <2>2, KeptFrameLemma DEF FlashInv
<1>10. DoneInv'
  BY <1>1, <1>2 DEF DoneInv, Waiting
<1> QED
  BY <1>5, <1>7, <1>8, <1>9, <1>10 DEF FlashInv

(* The chip stops answering.                                               *)
LEMMA FlashDieStep == ASSUME FlashInv, Die PROVE FlashInv'
<1>1. /\ doing # ReadingArray /\ ~ dead /\ dead' = TRUE
      /\ UNCHANGED <<chip, cells, doing, fault, blocks, pc, i>>
      /\ UNCHANGED <<offset, length, src, pattern, ret, asked, before, writes>>
  BY DEF Die, callvars, history
<1>2. ChipInv /\ CallInv /\ InCall /\ Waiting /\ pc' \in Stages
  BY <1>1 DEF FlashInv, ChipInv, InCall, Stages, Waiting
<1>3. CallInv' /\ Block' = Block /\ data_to_write' = data_to_write
  BY <1>1, <1>2, CallFrameLemma
<1>4. ChipInv'
  BY <1>1, <1>2 DEF ChipInv, Waiting
<1>5. StageInv'
  BY <1>1, <1>2 DEF FlashInv, StageInv, Waiting, Erasing, Programming
<1>6. KeptInv'
  BY <1>1 DEF FlashInv, KeptInv, WorkedOn, Touched, Physical, TopBoot
<1> QED
  BY <1>1, <1>2, <1>3, <1>4, <1>5, <1>6 DEF FlashInv, DoneInv, Waiting

(* The poll finds the chip ready, ...                                      *)
LEMMA FlashReadyStep == ASSUME FlashInv, Ready PROVE FlashInv'
<1>1. /\ Waiting /\ doing = ReadingArray
      /\ \/ fault /\ ret' = "EIO" /\ pc' = "idle"
         \/ ~ fault /\ ret' = ret /\ pc' = After
      /\ UNCHANGED <<chip, cells, doing, fault, dead, blocks, i>>
      /\ UNCHANGED <<offset, length, src, pattern, asked, before, writes>>
  BY DEF Ready, chipvars, history
<1>2. ChipInv /\ CallInv /\ InCall /\ ~ dead
  BY <1>1 DEF FlashInv, ChipInv, InCall, Stages, Waiting
<1>3. KeptInv'
  BY <1>1 DEF FlashInv, KeptInv, WorkedOn, Touched, Physical, TopBoot
<1>4. CASE fault /\ ret' = "EIO" /\ pc' = "idle"
  <2>1. ChipInv'
    BY <1>1, <1>2, <1>4 DEF ChipInv, InCall, Stages
  <2>2. CallInv'
    BY <1>1, <1>2, <1>4 DEF CallInv, InCall, Stages, Physical, TopBoot
  <2>3. StageInv'
    BY <1>4 DEF StageInv, Waiting, Erasing, Programming
  <2>4. DoneInv'
    BY <1>4 DEF DoneInv
  <2> QED
    BY <1>3, <2>1, <2>2, <2>3, <2>4 DEF FlashInv
<1>5. CASE ~ fault /\ ret' = ret /\ pc' = After
  <2>1. Worked = cells
    BY <1>1, <1>2, QuietLemma DEF ChipInv
  <2>2. \/ pc = "erasing" /\ pc' = "unlock to program" /\ Filled(cells, 0)
        \/ /\ pc = "programming"
           /\ \/ i = Ended /\ Filled(cells, data_to_write) /\ pc' = "advance"
              \/ /\ Place /\ Filled(cells, i) /\ i # Ended
                 /\ \/ pc' = "word" /\ (i < data_to_write - endbytes \/ endbytes # 0)
                    \/ pc' = "advance" /\ ~ (i < data_to_write - endbytes) /\ endbytes = 0
    <3>1. pc = "erasing" => Filled(cells, 0)
      BY <1>2, <1>5, <2>1 DEF FlashInv, StageInv
    <3>2. pc = "programming" =>
            (i = Ended /\ Filled(cells, data_to_write)) \/ (Place /\ Filled(cells, i))
      BY <1>2, <1>5, <2>1 DEF FlashInv, StageInv
    <3>3. Place => i # Ended
      BY DEF Place, Ended
    <3> QED
      BY <1>1, <1>5, <3>1, <3>2, <3>3 DEF After, Waiting
  <2>3. length > 0
    <3>1. Programming => length > 0
      BY DEF FlashInv, StageInv
    <3>2. Erasing => length # 0
      BY <1>2, <1>5 DEF FlashInv, StageInv
    <3>3. length \in Nat
      BY <1>2, DataLemma
    <3>4. Programming \/ Erasing
      BY <1>1 DEF Programming, Erasing, Waiting
    <3> QED
      BY <3>1, <3>2, <3>3, <3>4
  <2>4. pc' \in {"unlock to program", "word", "advance"} /\ pc' \in Stages
    BY <2>2 DEF Stages
  <2>5. CallInv' /\ Block' = Block /\ data_to_write' = data_to_write
    BY <1>1, <1>2, <1>5, <2>4, CallFrameLemma
  <2>6. ChipInv'
    BY <1>1, <1>2, <2>4 DEF ChipInv
  <2>7. /\ \A n : Filled(cells, n) => \A a \in BytesOf(Block)' :
                    cells'[a] = IF a - offset' \in 0..(n - 1) THEN Src(a - offset)' ELSE Erased
        /\ Place => Place'
    <3>1. \A k : Src(k)' = Src(k)
      BY <1>1 DEF Src, Byte, Junk
    <3>2. BytesOf(Block)' = BytesOf(Block) /\ endbytes' = endbytes /\ width' = width
      BY <1>1, <2>5 DEF BytesOf, endbytes, width
    <3> QED
      BY <1>1, <2>5, <3>1, <3>2 DEF Filled, Place
  <2>8. pc' = "advance" => Listens' /\ \A k \in 0..(data_to_write - 1) :
                                         cells[offset + k] = Byte(pattern, src + k)
    <3>1. Listens'
      BY <1>1, <1>5 DEF Listens
    <3>2. pc' = "advance" => Filled(cells, data_to_write)
      <4>1. Place /\ ~ (i < data_to_write - endbytes) /\ endbytes = 0 => i = data_to_write
        <5>1. data_to_write \in Nat
          BY <1>2, DataLemma
        <5> QED
          BY <5>1 DEF Place
      <4> QED
        BY <2>2, <4>1
    <3>3. ASSUME pc' = "advance", NEW k \in 0..(data_to_write - 1)
          PROVE  cells[offset + k] = Byte(pattern, src + k)
      <4>1. /\ offset \in Nat /\ data_to_write \in Nat /\ Block.offset \in Nat /\ Block.size \in Nat
            /\ Block.offset <= offset /\ offset + data_to_write <= Block.offset + Block.size
        BY <1>2, NumbersLemma, DataLemma
      <4>2. offset + k \in BytesOf(Block) /\ (offset + k) - offset = k
        BY <4>1 DEF BytesOf
      <4>3. cells[offset + k] = Src(k)
        BY <3>2, <3>3, <4>2 DEF Filled
      <4> QED
        BY <1>2, <4>3, DataLemma
    <3> QED
      BY <3>1, <3>3
  <2>9. StageInv'
    <3>1. pc' = "unlock to program" => Filled(cells, 0)'
      BY <2>2, <2>7 DEF Filled
    <3>2. pc' = "word" => /\ Place' /\ Filled(cells, i)'
                          /\ (i < data_to_write - endbytes \/ endbytes # 0)'
      <4>1. endbytes' = endbytes
        BY <1>1, <2>5 DEF endbytes, width
      <4> QED
        BY <1>1, <2>2, <2>5, <2>7, <4>1 DEF Filled
    <3>3. pc' = "advance" => (Listens /\ \A k \in 0..(data_to_write - 1) :
                                           cells[offset + k] = Byte(pattern, src + k))'
      BY <1>1, <2>5, <2>8 DEF Byte
    <3> QED
      BY <1>1, <1>5, <2>3, <2>4, <3>1, <3>2, <3>3 DEF StageInv, Waiting, Erasing, Programming
  <2>10. DoneInv'
    BY <2>4 DEF DoneInv
  <2> QED
    BY <1>3, <2>5, <2>6, <2>9, <2>10 DEF FlashInv
<1> QED
  BY <1>1, <1>4, <1>5

(* ... or it gives up.                                                     *)
LEMMA FlashTimeOutStep == ASSUME FlashInv, TimeOut PROVE FlashInv'
<1>1. /\ Waiting /\ dead /\ ret' = "ETIMEDOUT" /\ pc' = "idle"
      /\ UNCHANGED <<chip, cells, doing, fault, dead, blocks, i>>
      /\ UNCHANGED <<offset, length, src, pattern, asked, before, writes>>
  BY DEF TimeOut, chipvars, history
<1>2. InCall
  BY <1>1 DEF InCall, Stages, Waiting
<1> QED
  BY <1>1, <1>2, GiveUpLemma

(* On with the next block, or the end of the call.                         *)
LEMMA FlashAdvanceStep == ASSUME FlashInv, Advance PROVE FlashInv'
<1> DEFINE d == data_to_write
           end == Block.offset + Block.size
<1>1. /\ pc = "advance"
      /\ \/ length = d /\ pc' = "idle" /\ UNCHANGED <<offset, length, src>>
         \/ /\ length # d /\ pc' = "compare" /\ length' = length - d /\ src' = src + d
            /\ offset' = end
      /\ UNCHANGED <<chip, cells, doing, fault, dead, blocks>>
      /\ UNCHANGED <<pattern, ret, asked, before, writes>>
  BY DEF Advance, chipvars, history
<1>2. ChipInv /\ CallInv /\ InCall /\ ~ Waiting
  BY <1>1 DEF FlashInv, InCall, Stages, Waiting
<1>3. /\ Listens /\ doing = ReadingArray
      /\ \A k \in 0..(d - 1) : cells[offset + k] = Byte(pattern, src + k)
  BY <1>1 DEF FlashInv, StageInv, Listens
<1>4. /\ d \in Nat /\ d <= length /\ length \in Nat /\ offset \in Nat /\ src \in Nat
      /\ asked.offset \in Nat /\ offset = asked.offset + src /\ asked.length = src + length
      /\ offset + length <= Size(chip.regions) /\ (d < length => offset + d = end)
  BY <1>2, DataLemma
<1>5. ret = "0" /\ \A k \in 0..(src - 1) : cells[asked.offset + k] = Byte(pattern, k)
  BY <1>2 DEF CallInv
<1> HIDE DEF d
<1>6. \A k \in 0..(src + d - 1) : cells[asked.offset + k] = Byte(pattern, k)
  <2> TAKE k \in 0..(src + d - 1)
  <2>1. CASE k < src
    <3>1. k \in 0..(src - 1)
      BY <1>4, <2>1
    <3> QED
      BY <1>5, <3>1
  <2>2. CASE ~ (k < src)
    <3> DEFINE j == k - src
    <3>1. j \in 0..(d - 1) /\ offset + j = asked.offset + k /\ src + j = k
      BY <1>4, <2>2
    <3> HIDE DEF j
    <3>2. cells[offset + j] = Byte(pattern, src + j)
      BY <1>3, <3>1
    <3> QED
      BY <3>1, <3>2
  <2> QED
    BY <2>1, <2>2
<1>7. ChipInv'
  BY <1>1, <1>2, <1>3 DEF ChipInv, InCall, Stages, Waiting
<1>8. CASE length = d /\ pc' = "idle" /\ UNCHANGED <<offset, length, src>>
  <2>1. CallInv'
    BY <1>1, <1>2, <1>8 DEF CallInv, InCall, Stages, Physical, TopBoot
  <2>2. StageInv'
    BY <1>8 DEF StageInv, Waiting, Erasing, Programming
  <2>3. KeptInv'
    BY <1>1, <1>8 DEF FlashInv, KeptInv, WorkedOn, Touched, Physical, TopBoot
  <2>4. \A k \in 0..(asked.length - 1) : cells[asked.offset + k] = Byte(pattern, k)
    BY <1>4, <1>6, <1>8
  <2>5. DoneInv'
    BY <1>1, <1>3, <1>8, <2>4 DEF DoneInv, Listens, Byte
  <2> QED
    BY <1>7, <2>1, <2>2, <2>3, <2>5 DEF FlashInv
<1>9. CASE /\ length # d /\ pc' = "compare" /\ length' = length - d /\ src' = src + d
           /\ offset' = end
  <2>1. /\ d < length /\ offset' = offset + d /\ offset' \in Nat /\ length' \in Nat /\ length' > 0
        /\ src' \in Nat /\ offset' = asked'.offset + src' /\ asked'.length = src' + length'
        /\ offset' + length' = offset + length /\ offset' = end
    BY <1>1, <1>4, <1>9
  <2>2. offset' < Size(chip.regions) /\ Size(chip.regions) \in Nat
    <3>1. Size(chip.regions) \in Nat
      BY <1>2, BlockLemma
    <3> QED
      BY <1>4, <2>1, <3>1
  <2>3. /\ asked.length \in Lengths /\ blocks = Physical(chip) /\ blocks' = blocks
        /\ Physical(chip)' = Physical(chip) /\ Size(chip.regions)' = Size(chip.regions)
    BY <1>1, <1>2 DEF CallInv, Physical, TopBoot
  <2>4. offset' = Block'.offset
    <3> DEFINE P == Physical(chip)
               N == Size(chip.regions)
    <3>1. Tiles(P, N, chip.mode_width)
      BY <1>2, BlocksLemma DEF ChipInv
    <3>2. /\ Block \in P /\ Block.offset \in Nat /\ Block.size \in Nat
          /\ offset < Block.offset + Block.size /\ Block.offset <= offset
      BY <1>2, BlockLemma
    <3>3. Block' = CHOOSE b \in P : b.offset <= end /\ end < b.offset + b.size
      BY <2>1, <2>3 DEF Block
    <3> DEFINE c == Block'
    <3> HIDE DEF P, N, c, end
    <3>4. end \in 0..(N - 1) /\ end \in Nat
      BY <2>1, <2>2 DEF N
    <3>5. \E b \in P : b.offset <= end /\ end < b.offset + b.size
      BY <3>1, <3>4 DEF Tiles
    <3>6. c \in P /\ c.offset <= end /\ end < c.offset + c.size
      BY <3>3, <3>5 DEF c
    <3>7. c.offset \in Nat /\ c.size \in Nat
      BY <3>1, <3>6 DEF Tiles
    <3>8. ASSUME c.offset < end PROVE FALSE
      <4> DEFINE a == end - 1
      <4>1. /\ a \in Nat /\ Block.offset <= a /\ a < Block.offset + Block.size
            /\ c.offset <= a /\ a < c.offset + c.size /\ ~ (end < end)
        BY <1>4, <3>2, <3>4, <3>6, <3>7, <3>8 DEF end
      <4> HIDE DEF a
      <4>2. \A b, e \in P : \A x \in Nat :
              b.offset <= x /\ x < b.offset + b.size /\ e.offset <= x /\ x < e.offset + e.size
              => b = e
        BY <3>1 DEF Tiles
      <4>3. c = Block
        BY <3>2, <3>6, <4>1, <4>2
      <4> QED
        BY <3>6, <4>1, <4>3 DEF end
    <3>9. c.offset = end
      BY <3>4, <3>6, <3>7, <3>8
    <3> QED
      BY <2>1, <3>9 DEF c
  <2>5. CallInv'
    <3> DEFINE m == src + d
    <3>1. m = src' /\ \A k \in 0..(m - 1) : cells[asked.offset + k] = Byte(pattern, k)
      <4>1. m = src'
        BY <1>9
      <4>2. \A k \in 0..(m - 1) : cells[asked.offset + k] = Byte(pattern, k)
        <5>1. src + d - 1 = m - 1
          BY <1>4
        <5> HIDE DEF m
        <5> QED
          BY <1>6, <5>1
      <4> QED
        BY <4>1, <4>2
    <3> HIDE DEF m
    <3>2. \A k \in 0..(src' - 1) : cells'[asked'.offset + k] = <<pattern', k>>
      BY <1>1, <3>1 DEF Byte
    <3>3. \A k \in 0..(src' - 1) : (cells[asked.offset + k] = Byte(pattern, k))'
      BY <3>2 DEF Byte
    <3>4. /\ asked'.offset \in Nat /\ asked'.length \in Lengths
          /\ ret' = "0" /\ blocks' = Physical(chip)'
      BY <1>1, <1>4, <1>5, <2>3
    <3>5. pc' = "compare"
      BY <1>9
    <3>6. offset' < Size(chip.regions)' /\ offset' + length' <= Size(chip.regions)'
      <4>1. offset + length <= Size(chip.regions)
        BY <1>4
      <4>2. offset' + length' <= Size(chip.regions)
        BY <2>1, <4>1
      <4> QED
        BY <2>2, <2>3, <4>2
    <3> QED
      BY <2>1, <2>4, <3>3, <3>4, <3>5, <3>6 DEF CallInv, Stages
  <2>6. StageInv'
    BY <1>9 DEF StageInv, Waiting, Erasing, Programming
  <2>7. KeptInv'
    <3>1. \A a : WorkedOn(a)' = WorkedOn(a)
      BY <1>1 DEF WorkedOn
    <3>2. chip \in Chips /\ offset <= offset'
      <4>1. chip \in Chips
        BY <1>2 DEF ChipInv
      <4>2. d \in Nat /\ offset \in Nat /\ offset' = offset + d
        BY <1>4, <2>1
      <4> QED
        BY <4>1, <4>2
    <3> QED
      BY <1>1, <1>4, <2>1, <3>1, <3>2, KeptFrameLemma DEF FlashInv
  <2>8. DoneInv'
    BY <1>9 DEF DoneInv
  <2> QED
    BY <1>7, <2>5, <2>6, <2>7, <2>8 DEF FlashInv
<1> QED
  BY <1>1, <1>8, <1>9

(* Power is lost.                                                          *)
LEMMA FlashPowerStep == ASSUME FlashInv, PowerFail PROVE FlashInv'
<1>1. /\ cells' = Spoiled /\ doing' = ReadingArray /\ fault' = FALSE /\ dead' = FALSE
      /\ pc' = "off" /\ ret' = "none" /\ UNCHANGED <<chip, offset, asked, before, writes>>
  BY DEF PowerFail
<1>2. \A a : ~ WorkedOn(a)'
  <2>1. doing'.op = "read array"
    BY <1>1 DEF ReadingArray
  <2> QED
    BY <2>1 DEF WorkedOn
<1>3. /\ DOMAIN cells' = DOMAIN cells /\ cells' = [a \in DOMAIN cells |-> cells'[a]]
      /\ \A a \in DOMAIN cells : ~ WorkedOn(a) => cells'[a] = cells[a]
  BY <1>1 DEF Spoiled
<1>4. ChipInv'
  BY <1>1, <1>3 DEF FlashInv, ChipInv, InCall, Stages
<1>5. CallInv'
  BY <1>1 DEF CallInv, InCall, Stages
<1>6. StageInv'
  BY <1>1 DEF StageInv, Waiting, Erasing, Programming
<1>7. KeptInv'
  <2> SUFFICES ASSUME ~ asked.dead, NEW b \in Physical(chip), ~ Touched(b) \/ b.offset > offset,
                      NEW a \in BytesOf(b)
               PROVE  cells'[a] = before[a] /\ ~ WorkedOn(a)'
    BY <1>1 DEF KeptInv, Touched, Physical, TopBoot
  <2>1. cells[a] = before[a] /\ ~ WorkedOn(a)
    BY DEF FlashInv, KeptInv
  <2>2. a \in DOMAIN cells
    <3>1. chip \in Chips /\ DOMAIN cells = 0..(Size(chip.regions) - 1)
      BY DEF FlashInv, ChipInv
    <3>2. /\ b.offset \in Nat /\ b.size \in Nat /\ b.offset + b.size <= Size(chip.regions)
          /\ Size(chip.regions) \in Nat
      BY <3>1, BlocksLemma DEF Tiles
    <3> QED
      BY <3>1, <3>2 DEF BytesOf
  <2> QED
    BY <1>2, <1>3, <2>1, <2>2
<1>8. DoneInv'
  BY <1>1 DEF DoneInv
<1> QED
  BY <1>4, <1>5, <1>6, <1>7, <1>8 DEF FlashInv

LEMMA FlashNextLemma == ASSUME WordsAreCovered, FlashInv, [Next]_vars PROVE FlashInv'
<1>1. CASE alt_flash_cfi_init
  BY <1>1, FlashOpenStep
<1>2. CASE \E o \in DOMAIN cells, n \in Lengths, p \in Patterns :
             o + n <= Size(chip.regions) /\ Write(o, n, p)
  BY <1>2, FlashWriteStep
<1>3. CASE Compare
  BY <1>3, FlashCompareStep
<1>4. CASE Unlock("unlock to erase", "erase") \/ Unlock("unlock to program", "word")
  BY <1>4, FlashUnlockStep
<1>5. CASE Erase
  BY <1>5, FlashEraseStep
<1>6. CASE ProgramWord
  BY <1>6, FlashProgramStep
<1>7. CASE Ready
  BY <1>7, FlashReadyStep
<1>8. CASE TimeOut
  BY <1>8, FlashTimeOutStep
<1>9. CASE Advance
  BY <1>9, FlashAdvanceStep
<1>10. CASE Finish \/ Fail
  BY <1>10, FlashEndStep
<1>11. CASE Die
  BY <1>11, FlashDieStep
<1>12. CASE PowerFail
  BY <1>12, FlashPowerStep
<1>13. CASE UNCHANGED vars
  <2>1. /\ UNCHANGED <<chip, cells, doing, fault, dead, blocks, pc, i>>
        /\ UNCHANGED <<offset, length, src, pattern, ret, asked, before, writes>>
    BY <1>13 DEF vars, chipvars, callvars, history
  <2>2. ChipInv'
    BY <2>1 DEF FlashInv, ChipInv, InCall, Waiting
  <2>3. Block' = Block
    BY <2>1 DEF Block
  <2>4. data_to_write' = data_to_write
    BY <2>1, <2>3 DEF data_to_write
  <2>5. endbytes' = endbytes /\ width' = width
    BY <2>1, <2>4 DEF endbytes, width
  <2>6. \A a : WorkedOn(a)' = WorkedOn(a)
    BY <2>1 DEF WorkedOn
  <2>7. Worked' = Worked
    BY <2>1, <2>6 DEF Worked
  <2>8. \A k : Src(k)' = Src(k)
    BY <2>1 DEF Src, Byte
  <2>9. CallInv'
    BY <2>1, <2>3 DEF FlashInv, CallInv, InCall, Physical, TopBoot, Byte
  <2>10. StageInv'
    BY <2>1, <2>3, <2>4, <2>5, <2>6, <2>7, <2>8
       DEF FlashInv, StageInv, Waiting, Erasing, Programming, Filled, Place, Listens, Byte
  <2>11. KeptInv'
    BY <2>1, <2>6 DEF FlashInv, KeptInv, Touched, Physical, TopBoot
  <2>12. DoneInv'
    BY <2>1 DEF FlashInv, DoneInv, Listens, Byte
  <2> QED
    BY <2>2, <2>9, <2>10, <2>11, <2>12 DEF FlashInv
<1> QED
  BY <1>1, <1>2, <1>3, <1>4, <1>5, <1>6, <1>7, <1>8, <1>9, <1>10, <1>11, <1>12, <1>13 DEF Next

(* altera_avalon_cfi_flash*.c: the driver and the chip agree, step by      *)
(* step, on what is being done to which block and how far it has come.     *)
THEOREM FlashInvariant == Spec /\ []WordsAreCovered => []FlashInv
<1>1. FlashInv /\ WordsAreCovered /\ [Next]_vars => FlashInv'
  BY FlashNextLemma
<1> QED
  BY FlashInitLemma, <1>1, PTL DEF Spec

(* alt_flash_cfi_write: a write that returns 0 can be read back, whatever  *)
(* the flash held before, and after writes that failed or were cut off, on *)
(* every chip and for every place and length, but for writes that lie      *)
(* inside one word of four bytes (altera_avalon_cfi_flash.c:281-331).      *)
THEOREM WriteIsExactTheorem == Spec /\ []WordsAreCovered => []WriteIsExact
<1>1. FlashInv => WriteIsExact
  BY DEF FlashInv, DoneInv, WriteIsExact
<1> QED
  BY FlashInvariant, <1>1, PTL

(* alt_flash_cfi_write: a write changes only blocks that it was asked to   *)
(* write to, and only up to the one it has come to, whatever fails and     *)
(* wherever it is cut off, in whichever order the chip has its blocks; but *)
(* for writes that lie inside one word of four bytes.                      *)
THEOREM OtherBlocksKeptTheorem == Spec /\ []WordsAreCovered => []OtherBlocksKept
<1>1. FlashInv => OtherBlocksKept
  BY DEF FlashInv, KeptInv, OtherBlocksKept
<1> QED
  BY FlashInvariant, <1>1, PTL

(* The same of all writes, where no chip has words of four bytes: what is  *)
(* written can be read back, and nothing else has changed.                 *)
THEOREM NarrowFlashIsExact ==
  ASSUME \A c \in Chips : c.mode_width # 4
  PROVE  Spec => []WriteIsExact /\ []OtherBlocksKept
<1>1. FlashInv => WordsAreCovered
  BY DEF FlashInv, ChipInv, WordsAreCovered
<1>2. FlashInv /\ [Next]_vars => FlashInv'
  BY <1>1, FlashNextLemma
<1> QED
  BY FlashInitLemma, <1>1, <1>2, WriteIsExactTheorem, OtherBlocksKeptTheorem, PTL DEF Spec
=============================================================================
