---------------------------- MODULE ProgramProofs ----------------------------
(***************************************************************************)
(* Proofs about main.c and what it calls, for every size of the network    *)
(* and every data set: evaluate counts the right predictions, the set-up   *)
(* leaves every number of the network a word of its own, and a network     *)
(* survives in the file.                                                   *)
(***************************************************************************)
EXTENDS Program, FiniteSetTheorems, WellFoundedInduction, TLAPS

LEMMA SizesLemma ==
  /\ InputSize \in Nat \ {0} /\ HiddenSize \in Nat \ {0} /\ OutputSize \in Nat \ {0}
  /\ sizes[1] = InputSize /\ sizes[2] = HiddenSize /\ sizes[3] = OutputSize
  /\ N(0) = 0..(InputSize - 1) /\ N(1) = 0..(HiddenSize - 1) /\ N(2) = 0..(OutputSize - 1)
BY ProgramAssumption DEF sizes, N

(* A set of numbers has a least one.                                       *)
LEMMA LeastLemma ==
  ASSUME NEW S \in SUBSET Nat, S # {}
  PROVE  \E x \in S : \A y \in S : x <= y
<1> DEFINE R == {ss \in Nat \X Nat : ss[1] < ss[2]}
<1>1. IsWellFoundedOn(R, Nat)
  BY NatLessThanWellFounded, Zenon DEF OpToRel
<1> HIDE DEF R
<1>2. PICK x \in S : \A y \in S : ~ (<<y, x>> \in R)
  BY <1>1, WFMin, Zenon
<1>3. \A y \in S : x <= y
  <2> TAKE y \in S
  <2>1. <<y, x>> \notin R /\ x \in Nat /\ y \in Nat
    BY <1>2
  <2>2. y < x => <<y, x>> \in R
    BY <2>1 DEF R
  <2> QED
    BY <2>1, <2>2
<1> QED
  BY <1>3

-----------------------------------------------------------------------------
(* The loop of evaluate that looks for the largest output, and what it has *)
(* found after j + 1 of them: the first of the largest ones.               *)

Found(out, m) == [max_val |-> out[m], max_ind |-> m]

Scan(out, f) ==
  [j \in N(2) |->
     IF j = 0 THEN [max_val |-> out[0], max_ind |-> 0]
     ELSE IF out[j] > f[j - 1].max_val THEN [max_val |-> out[j], max_ind |-> j]
     ELSE f[j - 1]]

Largest(out, j, m) ==
  m \in 0..j /\ \A k \in 0..j : out[k] < out[m] \/ (out[k] = out[m] /\ k >= m)

Numbers(out) == out \in [N(2) -> Nat]

LEMMA LargestStep ==
  ASSUME NEW out, Numbers(out), NEW j \in N(2), j > 0, NEW m \in Nat, Largest(out, j - 1, m)
  PROVE  Largest(out, j, IF out[j] > out[m] THEN j ELSE m)
<1>1. /\ j \in Nat /\ 0..j \subseteq N(2) /\ m \in 0..(j - 1)
      /\ \A k \in 0..j : out[k] \in Nat
  BY SizesLemma DEF Numbers, Largest
<1>2. \A k \in 0..j : k = j \/ (k \in 0..(j - 1) /\ (out[k] < out[m] \/ (out[k] = out[m] /\ k >= m)))
  BY <1>1 DEF Largest
<1> QED
  BY <1>1, <1>2 DEF Largest

LEMMA LargestFirst ==
  ASSUME NEW out, Numbers(out)
  PROVE  Largest(out, 0, 0)
BY SizesLemma DEF Numbers, Largest

LEMMA LargestUnique ==
  ASSUME NEW out, Numbers(out), NEW j \in N(2), NEW a, NEW b, Largest(out, j, a), Largest(out, j, b)
  PROVE  a = b
<1>1. a \in 0..j /\ b \in 0..j /\ 0..j \subseteq N(2)
  BY SizesLemma DEF Largest
<1>2. out[a] \in Nat /\ out[b] \in Nat /\ a \in Nat /\ b \in Nat
  BY <1>1, SizesLemma DEF Numbers
<1>3. out[a] < out[b] \/ (out[a] = out[b] /\ a >= b)
  BY <1>1 DEF Largest
<1>4. out[b] < out[a] \/ (out[b] = out[a] /\ b >= a)
  BY <1>1 DEF Largest
<1> QED
  BY <1>2, <1>3, <1>4

LEMMA LargestExists ==
  ASSUME NEW out, Numbers(out), NEW j \in N(2)
  PROVE  \E m \in Nat : Largest(out, j, m)
<1> DEFINE Bad == {k \in N(2) : ~ \E m \in Nat : Largest(out, k, m)}
<1>1. CASE Bad = {}
  BY <1>1
<1>2. CASE Bad # {}
  <2>1. Bad \in SUBSET Nat
    BY SizesLemma
  <2>2. PICK k \in Bad : \A l \in Bad : k <= l
    BY <1>2, <2>1, LeastLemma
  <2>3. k # 0
    BY <2>2, LargestFirst
  <2>4. k \in Nat /\ k > 0 /\ k \in N(2) /\ k - 1 \in N(2)
    BY <2>2, <2>3, SizesLemma
  <2>5. k - 1 \notin Bad
    BY <2>2, <2>4
  <2>6. PICK m \in Nat : Largest(out, k - 1, m)
    BY <2>4, <2>5
  <2>7. Largest(out, k, IF out[k] > out[m] THEN k ELSE m)
    BY <2>4, <2>6, LargestStep
  <2>8. (IF out[k] > out[m] THEN k ELSE m) \in Nat
    BY <2>4
  <2> QED
    BY <2>2, <2>7, <2>8
<1> QED
  BY <1>1, <1>2

(* The loop of the code computes it.                                       *)
LEMMA ScanExists ==
  ASSUME NEW out, Numbers(out)
  PROVE  \E f : f = Scan(out, f)
<1> DEFINE M(j) == CHOOSE m \in Nat : Largest(out, j, m)
           f    == [j \in N(2) |-> Found(out, M(j))]
<1>1. \A j \in N(2) : M(j) \in Nat /\ Largest(out, j, M(j))
  BY LargestExists
<1> HIDE DEF M
<1>2. ASSUME NEW j \in N(2)
      PROVE  f[j] = Scan(out, f)[j]
  <2>1. CASE j = 0
    <3>1. M(j) = 0
      BY <1>1, <2>1, LargestFirst, LargestUnique
    <3> QED
      BY <2>1, <3>1 DEF Found, Scan
  <2>2. CASE j # 0
    <3>1. j > 0 /\ j - 1 \in N(2)
      BY <2>2, SizesLemma
    <3>2. Largest(out, j, IF out[j] > out[M(j - 1)] THEN j ELSE M(j - 1))
      BY <1>1, <3>1, LargestStep
    <3>3. M(j) = IF out[j] > out[M(j - 1)] THEN j ELSE M(j - 1)
      BY <1>1, <3>2, LargestUnique
    <3> QED
      BY <2>2, <3>1, <3>3 DEF Found, Scan
  <2> QED
    BY <2>1, <2>2
<1>3. f = Scan(out, f)
  BY <1>2 DEF Scan
<1> QED
  BY <1>3

LEMMA ScanIsLargest ==
  ASSUME NEW out, Numbers(out), NEW f, f = Scan(out, f), NEW j \in N(2)
  PROVE  \E m \in Nat : Largest(out, j, m) /\ f[j] = Found(out, m)
<1> DEFINE Good(k) == \E m \in Nat : Largest(out, k, m) /\ f[k] = Found(out, m)
           Bad     == {k \in N(2) : ~ Good(k)}
<1>1. CASE Bad = {}
  BY <1>1
<1>2. CASE Bad # {}
  <2>1. Bad \in SUBSET Nat
    BY SizesLemma
  <2> HIDE DEF Bad
  <2>2. PICK k \in Bad : \A l \in Bad : k <= l
    BY <1>2, <2>1, LeastLemma
  <2>3. k \in N(2) /\ k \in Nat /\ ~ Good(k)
    BY <2>1, <2>2 DEF Bad
  <2> HIDE DEF Good
  <2>4. f[k] = IF k = 0 THEN [max_val |-> out[0], max_ind |-> 0]
               ELSE IF out[k] > f[k - 1].max_val THEN [max_val |-> out[k], max_ind |-> k]
               ELSE f[k - 1]
    <3>1. \A g : g = Scan(out, f) => g[k] = Scan(out, f)[k]
      OBVIOUS
    <3> QED
      BY <2>3, <3>1, Zenon DEF Scan
  <2>5. CASE k = 0
    <3>1. f[k] = Found(out, 0) /\ Largest(out, k, 0)
      BY <2>4, <2>5, LargestFirst DEF Found
    <3> QED
      BY <2>3, <3>1 DEF Good
  <2>6. CASE k # 0
    <3>1. k > 0 /\ k - 1 \in N(2) /\ k - 1 \notin Bad
      BY <2>2, <2>3, <2>6, SizesLemma
    <3>2. PICK m \in Nat : Largest(out, k - 1, m) /\ f[k - 1] = Found(out, m)
      BY <3>1 DEF Bad, Good
    <3> DEFINE new == IF out[k] > out[m] THEN k ELSE m
    <3>3. Largest(out, k, new)
      BY <2>3, <3>1, <3>2, LargestStep
    <3>4. f[k] = Found(out, new) /\ new \in Nat
      BY <2>3, <2>4, <2>6, <3>2 DEF Found
    <3> QED
      BY <2>3, <3>3, <3>4 DEF Good
  <2> QED
    BY <2>5, <2>6
<1> QED
  BY <1>1, <1>2

LEMMA PredictedLemma ==
  ASSUME NEW out, Numbers(out)
  PROVE  Largest(out, OutputSize - 1, Predicted(out))
<1> DEFINE f == CHOOSE f : f = Scan(out, f)
<1>1. Predicted(out) = f[OutputSize - 1].max_ind
  BY Zenon DEF Predicted, Scan
<1>2. f = Scan(out, f)
  BY ScanExists, Zenon
<1> HIDE DEF f
<1>3. OutputSize - 1 \in N(2)
  BY SizesLemma
<1>4. PICK m \in Nat : Largest(out, OutputSize - 1, m) /\ f[OutputSize - 1] = Found(out, m)
  BY <1>2, <1>3, ScanIsLargest
<1> QED
  BY <1>1, <1>4 DEF Found

(* A test is counted exactly when its labelled output is the largest.      *)
LEMMA CountedLemma ==
  ASSUME NEW out, Numbers(out), NEW label \in N(2)
  PROVE  OneHot(Predicted(out)) = OneHot(label) <=> Right(out, label)
<1>1. Largest(out, OutputSize - 1, Predicted(out))
  BY PredictedLemma
<1>2. Right(out, label) <=> Largest(out, OutputSize - 1, label)
  <2>1. N(2) = 0..(OutputSize - 1) /\ label \in N(2)
    BY SizesLemma
  <2>2. \A j \in N(2) : out[label] \in Nat /\ out[j] \in Nat
    BY DEF Numbers
  <2> QED
    BY <2>1, <2>2 DEF Right, Largest
<1>3. Right(out, label) <=> Predicted(out) = label
  <2>1. OutputSize - 1 \in N(2)
    BY SizesLemma
  <2> QED
    BY <1>1, <1>2, <2>1, LargestUnique, Zenon
<1>4. Predicted(out) \in N(2)
  BY <1>1, SizesLemma DEF Largest
<1>5. OneHot(Predicted(out)) = OneHot(label) => Predicted(out) = label
  <2> SUFFICES ASSUME OneHot(Predicted(out)) = OneHot(label) PROVE Predicted(out) = label
    OBVIOUS
  <2>1. OneHot(label)[label] = 1
    BY DEF OneHot
  <2>2. OneHot(Predicted(out))[label] = IF label = Predicted(out) THEN 1 ELSE 0
    BY DEF OneHot
  <2> QED
    BY <2>1, <2>2
<1> QED
  BY <1>3, <1>5

CountInv == count = hits /\ set \in 1..2 /\ test \in Nat

LEMMA CountStep == CountInv /\ [Next]_vars => CountInv'
<1> SUFFICES ASSUME CountInv, [Next]_vars PROVE CountInv'
  OBVIOUS
<1>1. CASE EvaluateTest
  <2>1. PICK out \in [N(2) -> Outputs] :
          LET label == labels[set][test + 1]
          IN  /\ count' = IF OneHot(Predicted(out)) = OneHot(label) THEN count + 1 ELSE count
              /\ hits' = IF Right(out, label) THEN hits + 1 ELSE hits
    BY <1>1 DEF EvaluateTest
  <2>2. Numbers(out)
    BY ProgramAssumption DEF Numbers
  <2>3. labels[set][test + 1] \in N(2)
    <3>1. labels[set] \in Seq(N(2)) /\ test + 1 \in 1..Len(labels[set])
      BY <1>1, ProgramAssumption DEF CountInv, EvaluateTest
    <3> QED
      BY <3>1
  <2>4. count' = hits'
    BY <2>1, <2>2, <2>3, CountedLemma DEF CountInv
  <2>5. set' = set /\ test' = test + 1
    BY <1>1 DEF EvaluateTest
  <2> QED
    BY <2>4, <2>5 DEF CountInv
<1>2. CASE EndEvaluate
  BY <1>2 DEF EndEvaluate, CountInv, counts
<1>3. CASE RunAgain
  BY <1>3 DEF RunAgain, CountInv
<1>4. CASE \/ UNCHANGED vars
           \/ ConnectHidden \/ ConnectOut \/ Wire \/ network_init \/ OpenToLoad \/ LoadFloat
           \/ EndLoad \/ OpenToDump \/ DumpFloat \/ Exit \/ Stop
  <2>1. UNCHANGED counts
    BY <1>4, Zenon DEF vars, ConnectHidden, ConnectOut, Wire, network_init, OpenToLoad, LoadFloat,
       EndLoad, OpenToDump, DumpFloat, Exit, Stop
  <2> QED
    BY <2>1 DEF CountInv, counts
<1> QED
  BY <1>1, <1>2, <1>3, <1>4, Zenon DEF Next

(* network.c, evaluate: what is counted, and the data set and the test     *)
(* that the loops are at.                                                  *)
THEOREM CountInvariant == Spec => []CountInv
<1>1. Init => CountInv
  BY DEF Init, Start, CountInv
<1> QED
  BY <1>1, CountStep, PTL DEF Spec

(* network.c, evaluate: the count is that of the tests whose labelled      *)
(* output is the largest, whatever the accelerator answers.                *)
THEOREM CountIsAccuracyTheorem == Spec => []CountIsAccuracy
<1>1. CountInv => CountIsAccuracy
  BY DEF CountInv, CountIsAccuracy
<1> QED
  BY <1>1, CountInvariant, PTL

-----------------------------------------------------------------------------
(* The word that each number of the network belongs to, and the words of   *)
(* the pointers, which are others.                                         *)

Cell(x) == IF x[3] = Bias THEN <<Biases(x[1]), x[2]>> ELSE <<Row(x[1], x[2]), x[3]>>

NumberWord(y)  == (y[1][1] = "b" /\ Len(y[1]) = 2) \/ (y[1][1] = "w" /\ Len(y[1]) = 3)

Pointers == ArrayWords \union RowWords

LEMMA PositionLemma ==
  ASSUME NEW x \in Positions
  PROVE  /\ x = <<x[1], x[2], x[3]>> /\ x[1] \in 1..2 /\ x[2] \in N(x[1])
         /\ x[3] \in {Bias} \union N(x[1] - 1)
BY DEF Positions

LEMMA BuildLemma ==
  ASSUME NEW l \in 1..2, NEW j \in N(l), NEW k \in {Bias} \union N(l - 1)
  PROVE  <<l, j, k>> \in Positions
<1>1. l = 1 \/ l = 2
  OBVIOUS
<1> QED
  BY <1>1 DEF Positions

LEMMA WordsLemma ==
  ASSUME NEW l \in 1..2, NEW j \in N(l)
  PROVE  /\ <<Biases(l), j>> \in BiasWords /\ <<Rows(l), j>> \in RowWords
         /\ \A k \in N(l - 1) : <<Row(l, j), k>> \in WeightWords
BY DEF BiasWords, RowWords, WeightWords

LEMMA CellLemma ==
  ASSUME NEW x \in Positions
  PROVE  Cell(x) \in Words /\ NumberWord(Cell(x)) /\ Cell(x) = <<Cell(x)[1], Cell(x)[2]>>
<1>1. x[1] \in 1..2 /\ x[2] \in N(x[1]) /\ x[3] \in {Bias} \union N(x[1] - 1)
  BY PositionLemma
<1>2. CASE x[3] = Bias
  <2>1. Cell(x) = <<Biases(x[1]), x[2]>>
    BY <1>2 DEF Cell
  <2>2. Cell(x) \in Words
    BY <1>1, <2>1, WordsLemma, Zenon DEF Words
  <2>3. NumberWord(Cell(x))
    BY <2>1 DEF NumberWord, Biases
  <2> QED
    BY <2>1, <2>2, <2>3
<1>3. CASE x[3] # Bias
  <2>1. Cell(x) = <<Row(x[1], x[2]), x[3]>>
    BY <1>3 DEF Cell
  <2>2. Cell(x) \in Words
    BY <1>1, <1>3, <2>1, WordsLemma DEF Words
  <2>3. NumberWord(Cell(x))
    BY <2>1 DEF NumberWord, Row
  <2> QED
    BY <2>1, <2>2, <2>3
<1> QED
  BY <1>2, <1>3

LEMMA CellUnique ==
  ASSUME NEW x \in Positions, NEW y \in Positions, Cell(x) = Cell(y)
  PROVE  x = y
<1>1. /\ x = <<x[1], x[2], x[3]>> /\ y = <<y[1], y[2], y[3]>>
  BY PositionLemma, Zenon
<1>2. x[1] = y[1] /\ x[2] = y[2] /\ x[3] = y[3]
  <2>1. CASE x[3] = Bias /\ y[3] = Bias
    <3>1. Biases(x[1]) = Biases(y[1]) /\ x[2] = y[2]
      BY <2>1 DEF Cell
    <3> QED
      BY <2>1, <3>1 DEF Biases
  <2>2. CASE x[3] # Bias /\ y[3] # Bias
    <3>1. Row(x[1], x[2]) = Row(y[1], y[2]) /\ x[3] = y[3]
      BY <2>2 DEF Cell
    <3> QED
      BY <2>2, <3>1 DEF Row
  <2>3. CASE x[3] = Bias /\ y[3] # Bias
    <3>1. Biases(x[1]) = Row(y[1], y[2])
      BY <2>3 DEF Cell
    <3> QED
      BY <3>1 DEF Biases, Row
  <2>4. CASE x[3] # Bias /\ y[3] = Bias
    <3>1. Biases(y[1]) = Row(x[1], x[2])
      BY <2>4 DEF Cell
    <3> QED
      BY <3>1 DEF Biases, Row
  <2> QED
    BY <2>1, <2>2, <2>3, <2>4
<1> QED
  BY <1>1, <1>2, Zenon

LEMMA PointersLemma ==
  /\ \A l \in 0..2 : /\ <<Array.b, l>> \in Pointers /\ <<Array.w, l>> \in Pointers
                     /\ <<Array.sizes, l>> \in Pointers
  /\ \A f \in {"net_b", "net_w", "net_sizes"} : <<Array[f], 0>> \in Pointers
  /\ \A l \in 1..2 : \A j \in N(l) : <<Rows(l), j>> \in Pointers
BY WordsLemma DEF Pointers, ArrayWords

LEMMA PointersAreWords == Pointers \subseteq Words
BY DEF Pointers, Words

LEMMA PointersApart ==
  ASSUME NEW y \in Pointers
  PROVE  ~ NumberWord(y)
<1>1. CASE \E l \in 0..2 : y = <<Array.b, l>> \/ y = <<Array.w, l>> \/ y = <<Array.sizes, l>>
  BY <1>1 DEF NumberWord, Array
<1>2. CASE \E f \in {"net_b", "net_w", "net_sizes"} : y = <<Array[f], 0>>
  BY <1>2 DEF NumberWord, Array
<1>3. CASE \E l \in 1..2 : \E j \in N(l) : y = <<Rows(l), j>>
  BY <1>3 DEF NumberWord, Rows
<1> QED
  BY <1>1, <1>2, <1>3 DEF Pointers, ArrayWords, RowWords

-----------------------------------------------------------------------------
(* The set-up.  Each stage finds what the stages before it have connected; *)
(* the store past w_1 comes before all that it may hit is set.             *)

RowsSet(l, n) == \A j \in N(l) : j < n => mem[<<Rows(l), j>>] = Row(l, j)

ArraysSet ==
  /\ \A l \in 1..2 : mem[<<Array.b, l>>] = Biases(l) /\ mem[<<Array.w, l>>] = Rows(l)
  /\ mem[<<Array.sizes, 1>>] = Num(HiddenSize)

FieldsSet ==
  /\ mem[<<Array.net_b, 0>>] = Array.b /\ mem[<<Array.net_w, 0>>] = Array.w
  /\ mem[<<Array.net_sizes, 0>>] = Array.sizes

Using == {"load", "evaluate", "open", "dump", "exit"}

WireInv ==
  /\ DOMAIN mem = Words
  /\ pc \in {"hidden", "out", "wire", "init", "off"} \union Using
  /\ pc = "hidden" => idx \in 0..HiddenSize /\ RowsSet(1, idx)
  /\ pc \in {"out", "wire", "init"} \union Using => RowsSet(1, HiddenSize)
  /\ pc = "out" => idx \in N(2) /\ RowsSet(2, idx)
  /\ pc \in {"wire", "init"} \union Using => RowsSet(2, OutputSize)
  /\ pc \in {"init"} \union Using => ArraysSet
  /\ pc \in Using => FieldsSet
  /\ at = Done \/ at \in Positions
  /\ pc \notin {"load", "dump", "off"} => at = <<1, 0, Bias>>

LEMMA FirstPosition == <<1, 0, Bias>> \in Positions /\ <<1, 0, Bias>> # Done
<1>1. 0 \in N(1)
  BY SizesLemma
<1> QED
  BY <1>1, BuildLemma DEF Done

LEMMA AddressLemma ==
  ASSUME WireInv, pc \in Using, NEW x \in Positions
  PROVE  Address(x[1], x[2], x[3]) = Cell(x)
<1>1. /\ x[1] \in 1..2 /\ x[2] \in N(x[1]) /\ x[3] \in {Bias} \union N(x[1] - 1)
  BY PositionLemma
<1>2. /\ mem[<<Array.net_b, 0>>] = Array.b /\ mem[<<Array.net_w, 0>>] = Array.w
      /\ mem[<<Array.b, x[1]>>] = Biases(x[1]) /\ mem[<<Array.w, x[1]>>] = Rows(x[1])
  BY <1>1 DEF WireInv, FieldsSet, ArraysSet
<1>3. mem[<<Rows(x[1]), x[2]>>] = Row(x[1], x[2])
  <2>1. x[1] = 1 \/ x[1] = 2
    BY <1>1
  <2> QED
    BY <1>1, <2>1, SizesLemma DEF WireInv, RowsSet
<1>4. /\ <<Array.net_b, 0>> \in Words /\ <<Array.net_w, 0>> \in Words
      /\ <<Array.b, x[1]>> \in Words /\ <<Array.w, x[1]>> \in Words
      /\ <<Rows(x[1]), x[2]>> \in Words
  <2>1. Array.net_b = Array["net_b"] /\ Array.net_w = Array["net_w"] /\ x[1] \in 0..2
    BY <1>1
  <2> QED
    BY <1>1, <2>1, PointersLemma, PointersAreWords
<1>5. Load(Load(Array.net_b, 0), x[1]) = Biases(x[1])
  BY <1>2, <1>4, Zenon DEF Load
<1>6. Load(Load(Load(Array.net_w, 0), x[1]), x[2]) = Row(x[1], x[2])
  BY <1>2, <1>3, <1>4, Zenon DEF Load
<1> QED
  BY <1>5, <1>6, Zenon DEF Address, Cell

(* main.c: what the properties say of the network while it is used.        *)
LEMMA WiredLemma == WireInv => NetworkIsWired
<1> SUFFICES ASSUME WireInv, Evaluating \/ pc = "load"
             PROVE  LET used == {Address(x[1], x[2], x[3]) : x \in Positions}
                    IN  /\ Cardinality(used) = Cardinality(Positions)
                        /\ used \subseteq {x \in Words : \/ x[1][1] = "b" /\ Len(x[1]) = 2
                                                         \/ x[1][1] = "w" /\ Len(x[1]) = 3}
                        /\ Load(Load(Array.net_sizes, 0), 1) = Num(HiddenSize)
  BY Zenon DEF NetworkIsWired
<1>1. pc \in Using
  BY DEF Evaluating, Using
<1> DEFINE used == {Address(x[1], x[2], x[3]) : x \in Positions}
           f    == [x \in Positions |-> Cell(x)]
<1>2. used = {Cell(x) : x \in Positions}
  BY <1>1, AddressLemma
<1> HIDE DEF used
<1>3. Cardinality(used) = Cardinality(Positions)
  <2>1. IsFiniteSet(Positions)
    <3> DEFINE J == N(1) \union N(2)
               K == {Bias} \union N(0) \union N(1)
               T == (1..2) \X J \X K
    <3>1. IsFiniteSet(N(0)) /\ IsFiniteSet(N(1)) /\ IsFiniteSet(N(2)) /\ IsFiniteSet(1..2)
      <4>1. /\ InputSize - 1 \in Int /\ HiddenSize - 1 \in Int /\ OutputSize - 1 \in Int
            /\ 0 \in Int /\ 1 \in Int /\ 2 \in Int
        BY SizesLemma
      <4> QED
        BY <4>1, SizesLemma, FS_Interval
    <3>2. IsFiniteSet(J)
      BY <3>1, FS_Union
    <3>3. IsFiniteSet({Bias} \union N(0))
      <4>1. IsFiniteSet({Bias})
        BY FS_Singleton
      <4> QED
        BY <3>1, <4>1, FS_Union
    <3>4. IsFiniteSet(K)
      BY <3>1, <3>3, FS_Union
    <3>5. IsFiniteSet(((1..2) \X J) \X K)
      <4>1. IsFiniteSet((1..2) \X J)
        BY <3>1, <3>2, FS_Product
      <4> QED
        BY <3>4, <4>1, FS_Product
    <3>6. Positions \subseteq T
      BY DEF Positions
    <3> HIDE DEF J, K
    <3>7. IsFiniteSet(T)
      <4> DEFINE g == [y \in ((1..2) \X J) \X K |-> <<y[1][1], y[1][2], y[2]>>]
      <4>1. g \in [((1..2) \X J) \X K -> T]
        OBVIOUS
      <4>2. ASSUME NEW t \in T
            PROVE  \E y \in ((1..2) \X J) \X K : g[y] = t
        <5>1. <<<<t[1], t[2]>>, t[3]>> \in ((1..2) \X J) \X K
          OBVIOUS
        <5>2. g[<<<<t[1], t[2]>>, t[3]>>] = t
          BY <5>1
        <5> QED
          BY <5>1, <5>2
      <4> HIDE DEF g, T
      <4>3. g \in Surjection(((1..2) \X J) \X K, T)
        BY <4>1, <4>2, Zenon DEF Surjection
      <4> QED
        BY <3>5, <4>3, FS_Surjection
    <3> QED
      BY <3>6, <3>7, FS_Subset
  <2>2. f \in Bijection(Positions, used)
    <3>1. f \in [Positions -> used]
      BY <1>2
    <3>2. \A x, y \in Positions : f[x] = f[y] => x = y
      BY CellUnique
    <3>3. \A z \in used : \E x \in Positions : f[x] = z
      BY <1>2
    <3> HIDE DEF f
    <3> QED
      BY <3>1, <3>2, <3>3 DEF Bijection, Injection, Surjection, IsInjective
  <2> QED
    BY <2>1, <2>2, FS_Bijection DEF ExistsBijection
<1>4. used \subseteq {x \in Words : NumberWord(x)}
  BY <1>2, CellLemma
<1>5. Load(Load(Array.net_sizes, 0), 1) = Num(HiddenSize)
  <2>1. /\ mem[<<Array.net_sizes, 0>>] = Array.sizes /\ mem[<<Array.sizes, 1>>] = Num(HiddenSize)
    BY <1>1 DEF WireInv, FieldsSet, ArraysSet
  <2>2. <<Array.net_sizes, 0>> \in Words /\ <<Array.sizes, 1>> \in Words
    <3>1. Array.net_sizes = Array["net_sizes"] /\ 1 \in 0..2
      OBVIOUS
    <3> QED
      BY <3>1, PointersLemma, PointersAreWords
  <2> QED
    BY <2>1, <2>2, Zenon DEF Load
<1> QED
  BY <1>3, <1>4, <1>5 DEF used, NumberWord

-----------------------------------------------------------------------------
(* Words that differ.                                                      *)
LEMMA ApartLemma ==
  /\ \A l, h, i, j : <<Rows(l), i>> = <<Rows(h), j>> => l = h /\ i = j
  /\ \A l, i, h : /\ <<Rows(l), i>> # <<Array.b, h>> /\ <<Rows(l), i>> # <<Array.w, h>>
                  /\ <<Rows(l), i>> # <<Array.sizes, h>> /\ <<Rows(l), i>> # <<Array.net_b, h>>
                  /\ <<Rows(l), i>> # <<Array.net_w, h>> /\ <<Rows(l), i>> # <<Array.net_sizes, h>>
BY DEF Rows, Array

LEMMA RowWord ==
  ASSUME NEW l \in 1..2, NEW j \in N(l)
  PROVE  <<Rows(l), j>> \in Words
BY WordsLemma DEF Words

(* The words of the arrays of pointers, and the fields of network.         *)
LEMMA ArrayWord ==
  /\ \A l \in 0..2 : <<Array.b, l>> \in Words /\ <<Array.w, l>> \in Words /\ <<Array.sizes, l>> \in Words
  /\ <<Array.net_b, 0>> \in Words /\ <<Array.net_w, 0>> \in Words /\ <<Array.net_sizes, 0>> \in Words
<1>1. \A f \in {"net_b", "net_w", "net_sizes"} : <<Array[f], 0>> \in Words
  BY PointersLemma, PointersAreWords
<1>2. Array["net_b"] = Array.net_b /\ Array["net_w"] = Array.net_w /\ Array["net_sizes"] = Array.net_sizes
  OBVIOUS
<1>3. /\ <<Array["net_b"], 0>> \in Words /\ <<Array["net_w"], 0>> \in Words
      /\ <<Array["net_sizes"], 0>> \in Words
  BY <1>1
<1>4. \A l \in 0..2 : <<Array.b, l>> \in Words /\ <<Array.w, l>> \in Words /\ <<Array.sizes, l>> \in Words
  BY PointersLemma, PointersAreWords
<1> QED
  BY <1>2, <1>3, <1>4, Zenon

LEMMA WireInit == Init => WireInv
<1> SUFFICES ASSUME Init PROVE WireInv
  OBVIOUS
<1>1. DOMAIN mem = Words /\ pc = "hidden" /\ idx = 0 /\ at = <<1, 0, Bias>>
  BY DEF Init, Start, SetupBegins, After
<1>2. RowsSet(1, 0)
  BY SizesLemma DEF RowsSet
<1>3. 0 \in 0..HiddenSize
  BY SizesLemma
<1> QED
  BY <1>1, <1>2, <1>3, FirstPosition DEF WireInv, Using

LEMMA HiddenStep ==
  ASSUME WireInv, ConnectHidden
  PROVE  WireInv'
<1>1. /\ pc = "hidden" /\ idx \in 0..HiddenSize /\ RowsSet(1, idx) /\ UNCHANGED at
      /\ DOMAIN mem = Words /\ at = <<1, 0, Bias>> /\ at \in Positions
  BY FirstPosition DEF WireInv, ConnectHidden
<1>2. CASE idx < HiddenSize
  <2>1. mem' = [mem EXCEPT ![<<Rows(1), idx>>] = Row(1, idx)] /\ idx' = idx + 1 /\ pc' = "hidden"
    BY <1>1, <1>2 DEF ConnectHidden
  <2>2. idx \in N(1) /\ idx' \in 0..HiddenSize /\ \A j \in N(1) : j < idx + 1 => j < idx \/ j = idx
    BY <1>1, <1>2, <2>1, SizesLemma
  <2>3. ASSUME NEW j \in N(1), j < idx + 1
        PROVE  mem'[<<Rows(1), j>>] = Row(1, j)
    <3>1. CASE j = idx
      BY <1>1, <2>1, <2>2, <3>1, RowWord
    <3>2. CASE j # idx
      <4>1. j < idx /\ <<Rows(1), j>> # <<Rows(1), idx>> /\ <<Rows(1), j>> \in Words
        BY <2>2, <2>3, <3>2, RowWord, ApartLemma
      <4>2. mem'[<<Rows(1), j>>] = mem[<<Rows(1), j>>]
        BY <1>1, <2>1, <4>1
      <4> QED
        BY <1>1, <4>1, <4>2 DEF RowsSet
    <3> QED
      BY <3>1, <3>2
  <2>4. RowsSet(1, idx)'
    BY <2>1, <2>3 DEF RowsSet
  <2>5. DOMAIN mem' = Words
    BY <1>1, <2>1
  <2> QED
    BY <1>1, <2>1, <2>2, <2>4, <2>5 DEF WireInv, Using
<1>3. CASE ~ (idx < HiddenSize)
  <2>1. idx = HiddenSize /\ idx' = 0 /\ pc' = "out"
    BY <1>1, <1>3, SizesLemma DEF ConnectHidden, After
  <2>2. \/ UNCHANGED mem
        \/ \E x \in Words \ {<<Rows(1), j>> : j \in N(1)} :
             mem' = [mem EXCEPT ![x] = Row(1, idx)]
    BY <1>3 DEF ConnectHidden
  <2>3. DOMAIN mem' = Words /\ \A j \in N(1) : mem'[<<Rows(1), j>>] = mem[<<Rows(1), j>>]
    BY <1>1, <2>2, RowWord
  <2>4. RowsSet(1, HiddenSize)' /\ RowsSet(2, 0)' /\ 0 \in N(2)
    BY <1>1, <2>1, <2>3, SizesLemma DEF RowsSet
  <2> QED
    BY <1>1, <2>1, <2>3, <2>4 DEF WireInv, Using
<1> QED
  BY <1>2, <1>3

LEMMA OutStep ==
  ASSUME WireInv, ConnectOut
  PROVE  WireInv'
<1>1. /\ pc = "out" /\ idx \in N(2) /\ RowsSet(1, HiddenSize) /\ RowsSet(2, idx) /\ UNCHANGED at
      /\ DOMAIN mem = Words /\ at = <<1, 0, Bias>> /\ at \in Positions
      /\ mem' = [mem EXCEPT ![<<Rows(2), idx>>] = Row(2, idx)]
  BY FirstPosition DEF WireInv, ConnectOut
<1>2. RowsSet(1, HiddenSize)'
  BY <1>1, RowWord, ApartLemma DEF RowsSet
<1>3. ASSUME NEW j \in N(2), j < idx + 1
      PROVE  mem'[<<Rows(2), j>>] = Row(2, j)
  <2>1. CASE j = idx
    BY <1>1, <2>1, RowWord
  <2>2. CASE j # idx
    <3>1. j < idx /\ <<Rows(2), j>> # <<Rows(2), idx>> /\ <<Rows(2), j>> \in Words
      BY <1>1, <1>3, <2>2, RowWord, ApartLemma, SizesLemma
    <3>2. mem'[<<Rows(2), j>>] = mem[<<Rows(2), j>>]
      BY <1>1, <3>1
    <3> QED
      BY <1>1, <3>1, <3>2 DEF RowsSet
  <2> QED
    BY <2>1, <2>2
<1>4. CASE idx + 1 < OutputSize
  <2>1. idx' = idx + 1 /\ pc' = "out" /\ idx' \in N(2)
    BY <1>1, <1>4, SizesLemma DEF ConnectOut
  <2>2. RowsSet(2, idx)'
    BY <1>3, <2>1 DEF RowsSet
  <2> QED
    BY <1>1, <1>2, <2>1, <2>2 DEF WireInv, Using
<1>5. CASE ~ (idx + 1 < OutputSize)
  <2>1. idx + 1 = OutputSize /\ idx' = 0 /\ pc' = "wire"
    BY <1>1, <1>5, SizesLemma DEF ConnectOut, After
  <2>2. RowsSet(2, OutputSize)'
    BY <1>3, <2>1 DEF RowsSet
  <2> QED
    BY <1>1, <1>2, <2>1, <2>2 DEF WireInv, Using
<1> QED
  BY <1>4, <1>5

LEMMA WireStep ==
  ASSUME WireInv, Wire
  PROVE  WireInv'
<1>1. /\ pc = "wire" /\ pc' = "init" /\ RowsSet(1, HiddenSize) /\ RowsSet(2, OutputSize)
      /\ at = <<1, 0, Bias>> /\ at \in Positions /\ UNCHANGED at
  BY FirstPosition DEF WireInv, Wire, After
<1>2. mem' = [x \in Words |->
       IF x[1] = Array.b THEN (IF x[2] = 0 THEN Null ELSE Biases(x[2]))
       ELSE IF x[1] = Array.w THEN (IF x[2] = 0 THEN Null ELSE Rows(x[2]))
       ELSE IF x[1] = Array.sizes THEN Num(sizes[x[2] + 1])
       ELSE mem[x]]
  BY DEF Wire
<1>3. \A l \in 1..2 : \A j \in N(l) : mem'[<<Rows(l), j>>] = mem[<<Rows(l), j>>]
  <2> SUFFICES ASSUME NEW l \in 1..2, NEW j \in N(l) PROVE mem'[<<Rows(l), j>>] = mem[<<Rows(l), j>>]
    OBVIOUS
  <2>1. Rows(l) # Array.b /\ Rows(l) # Array.w /\ Rows(l) # Array.sizes
    BY DEF Rows, Array
  <2> QED
    BY <1>2, <2>1, RowWord
<1>4. RowsSet(1, HiddenSize)' /\ RowsSet(2, OutputSize)'
  BY <1>1, <1>3 DEF RowsSet
<1>5. ArraysSet'
  <2>1. Array.b # Array.w /\ Array.b # Array.sizes /\ Array.w # Array.sizes
    BY DEF Array
  <2>2. \A l \in 1..2 : mem'[<<Array.b, l>>] = Biases(l) /\ mem'[<<Array.w, l>>] = Rows(l)
    BY <1>2, <2>1, ArrayWord
  <2>3. mem'[<<Array.sizes, 1>>] = Num(HiddenSize)
    BY <1>2, <2>1, ArrayWord, SizesLemma
  <2> QED
    BY <2>2, <2>3 DEF ArraysSet
<1>6. DOMAIN mem' = Words
  BY <1>2
<1> QED
  BY <1>1, <1>4, <1>5, <1>6 DEF WireInv, Using

(* Both init functions set the fields and leave the pointers alone.        *)
LEMMA FieldsLemma ==
  ASSUME WireInv, pc = "init", DOMAIN mem' = Words,
         \A y \in Words : ~ NumberWord(y) => mem'[y] = Fields[y]
  PROVE  RowsSet(1, HiddenSize)' /\ RowsSet(2, OutputSize)' /\ ArraysSet' /\ FieldsSet'
<1>1. RowsSet(1, HiddenSize) /\ RowsSet(2, OutputSize) /\ ArraysSet /\ DOMAIN mem = Words
  BY DEF WireInv
<1>2. \A y \in Pointers : y \in Words /\ ~ NumberWord(y)
  BY PointersApart, PointersAreWords
<1>3. ASSUME NEW l \in 1..2, NEW j \in N(l)
      PROVE  mem'[<<Rows(l), j>>] = mem[<<Rows(l), j>>]
  <2>1. <<Rows(l), j>> \in Pointers
    BY PointersLemma
  <2>2. Fields[<<Rows(l), j>>] = mem[<<Rows(l), j>>]
    <3>1. /\ <<Rows(l), j>> # <<Array.net_b, 0>> /\ <<Rows(l), j>> # <<Array.net_w, 0>>
          /\ <<Rows(l), j>> # <<Array.net_sizes, 0>>
      BY ApartLemma
    <3> QED
      BY <1>1, <1>2, <2>1, <3>1 DEF Fields
  <2> QED
    BY <1>2, <2>1, <2>2
<1>4. RowsSet(1, HiddenSize)' /\ RowsSet(2, OutputSize)'
  BY <1>1, <1>3 DEF RowsSet
<1>5. ASSUME NEW l \in 0..2, NEW f \in {Array.b, Array.w, Array.sizes}
      PROVE  mem'[<<f, l>>] = mem[<<f, l>>]
  <2>1. <<f, l>> \in Pointers
    BY PointersLemma
  <2>2. Fields[<<f, l>>] = mem[<<f, l>>]
    <3>1. f # Array.net_b /\ f # Array.net_w /\ f # Array.net_sizes
      BY DEF Array
    <3> QED
      BY <1>1, <1>2, <2>1, <3>1 DEF Fields
  <2> QED
    BY <1>2, <2>1, <2>2
<1>6. ArraysSet'
  <2>1. /\ mem'[<<Array.b, 1>>] = mem[<<Array.b, 1>>] /\ mem'[<<Array.b, 2>>] = mem[<<Array.b, 2>>]
        /\ mem'[<<Array.w, 1>>] = mem[<<Array.w, 1>>] /\ mem'[<<Array.w, 2>>] = mem[<<Array.w, 2>>]
        /\ mem'[<<Array.sizes, 1>>] = mem[<<Array.sizes, 1>>]
    BY <1>5
  <2>2. \A l \in 1..2 : l = 1 \/ l = 2
    OBVIOUS
  <2> QED
    BY <1>1, <2>1, <2>2 DEF ArraysSet
<1>7. FieldsSet'
  <2>1. /\ <<Array.net_b, 0>> # <<Array.net_w, 0>> /\ <<Array.net_b, 0>> # <<Array.net_sizes, 0>>
        /\ <<Array.net_w, 0>> # <<Array.net_sizes, 0>>
    BY DEF Array
  <2>2. /\ Fields[<<Array.net_b, 0>>] = Array.b /\ Fields[<<Array.net_w, 0>>] = Array.w
        /\ Fields[<<Array.net_sizes, 0>>] = Array.sizes
    BY <1>1, <2>1, ArrayWord DEF Fields
  <2>3. /\ ~ NumberWord(<<Array.net_b, 0>>) /\ ~ NumberWord(<<Array.net_w, 0>>)
        /\ ~ NumberWord(<<Array.net_sizes, 0>>)
    BY DEF NumberWord, Array
  <2> QED
    BY <2>2, <2>3, ArrayWord, Zenon DEF FieldsSet
<1> QED
  BY <1>4, <1>6, <1>7

LEMMA InitStep ==
  ASSUME WireInv, network_init
  PROVE  WireInv'
<1>1. /\ pc = "init" /\ pc' = "evaluate" /\ UNCHANGED at
      /\ at = <<1, 0, Bias>> /\ at \in Positions
  BY FirstPosition DEF WireInv, network_init
<1>2. DOMAIN mem' = Words
  BY DEF network_init
<1>3. \A y \in Words : ~ NumberWord(y) => mem'[y] = Fields[y]
  BY DEF network_init, NumberWord
<1> QED
  BY <1>1, <1>2, <1>3, FieldsLemma DEF WireInv, Using

LEMMA OpenStep ==
  ASSUME WireInv, OpenToLoad
  PROVE  WireInv'
<1>1. /\ pc = "init" /\ pc' \in {"evaluate", "load"} /\ UNCHANGED at /\ mem' = Fields
      /\ at = <<1, 0, Bias>> /\ at \in Positions
  BY FirstPosition DEF WireInv, OpenToLoad
<1>2. DOMAIN mem' = Words
  BY <1>1 DEF WireInv, Fields
<1> QED
  BY <1>1, <1>2, FieldsLemma DEF WireInv, Using

LEMMA StepLemma ==
  ASSUME NEW x \in Positions
  PROVE  Step(x[1], x[2], x[3]) \in Positions \/ Step(x[1], x[2], x[3]) = Done
<1>1. /\ x[1] \in 1..2 /\ x[2] \in N(x[1]) /\ x[3] \in {Bias} \union N(x[1] - 1)
  BY PositionLemma
<1>2. CASE x[1] = 1
  <2>1. /\ x[2] \in 0..(HiddenSize - 1) /\ x[3] \in (-1)..(InputSize - 1)
    BY <1>1, <1>2, SizesLemma DEF Bias
  <2>2. CASE x[3] + 1 < InputSize
    <3>1. x[3] + 1 \in N(0)
      BY <2>1, <2>2, SizesLemma
    <3>2. Step(x[1], x[2], x[3]) = <<1, x[2], x[3] + 1>>
      BY <1>2, <2>2, SizesLemma DEF Step
    <3> QED
      BY <1>1, <1>2, <3>1, <3>2, BuildLemma
  <2>3. CASE ~ (x[3] + 1 < InputSize) /\ x[2] + 1 < HiddenSize
    <3>1. x[2] + 1 \in N(1)
      BY <2>1, <2>3, SizesLemma
    <3>2. Step(x[1], x[2], x[3]) = <<1, x[2] + 1, Bias>>
      BY <1>2, <2>3, SizesLemma DEF Step
    <3> QED
      BY <3>1, <3>2, BuildLemma
  <2>4. CASE ~ (x[3] + 1 < InputSize) /\ ~ (x[2] + 1 < HiddenSize)
    <3>1. 0 \in N(2)
      BY SizesLemma
    <3>2. Step(x[1], x[2], x[3]) = <<2, 0, Bias>>
      BY <1>2, <2>4, SizesLemma DEF Step
    <3> QED
      BY <3>1, <3>2, BuildLemma
  <2> QED
    BY <2>2, <2>3, <2>4
<1>3. CASE x[1] = 2
  <2>1. /\ x[2] \in 0..(OutputSize - 1) /\ x[3] \in (-1)..(HiddenSize - 1)
    BY <1>1, <1>3, SizesLemma DEF Bias
  <2>2. CASE x[3] + 1 < HiddenSize
    <3>1. x[3] + 1 \in N(1)
      BY <2>1, <2>2, SizesLemma
    <3>2. Step(x[1], x[2], x[3]) = <<2, x[2], x[3] + 1>>
      BY <1>3, <2>2, SizesLemma DEF Step
    <3> QED
      BY <1>1, <1>3, <3>1, <3>2, BuildLemma
  <2>3. CASE ~ (x[3] + 1 < HiddenSize) /\ x[2] + 1 < OutputSize
    <3>1. x[2] + 1 \in N(2)
      BY <2>1, <2>3, SizesLemma
    <3>2. Step(x[1], x[2], x[3]) = <<2, x[2] + 1, Bias>>
      BY <1>3, <2>3, SizesLemma DEF Step
    <3> QED
      BY <3>1, <3>2, BuildLemma
  <2>4. CASE ~ (x[3] + 1 < HiddenSize) /\ ~ (x[2] + 1 < OutputSize)
    BY <1>3, <2>4, SizesLemma DEF Step, Done
  <2> QED
    BY <2>2, <2>3, <2>4
<1> QED
  BY <1>1, <1>2, <1>3

(* What is kept when no pointer changes and the set-up is over.            *)
LEMMA KeepLemma ==
  ASSUME WireInv, pc \in Using, pc' \in Using \union {"off"}, DOMAIN mem' = Words,
         \A y \in Words : ~ NumberWord(y) => mem'[y] = mem[y],
         (at = Done \/ at \in Positions)', (pc \notin {"load", "dump", "off"} => at = <<1, 0, Bias>>)'
  PROVE  WireInv'
<1>1. RowsSet(1, HiddenSize) /\ RowsSet(2, OutputSize) /\ ArraysSet /\ FieldsSet
  BY DEF WireInv
<1>2. \A y \in Pointers : mem'[y] = mem[y]
  BY PointersApart, PointersAreWords
<1>3. RowsSet(1, HiddenSize)' /\ RowsSet(2, OutputSize)'
  <2>1. \A l \in 1..2 : \A j \in N(l) : mem'[<<Rows(l), j>>] = mem[<<Rows(l), j>>]
    BY <1>2, PointersLemma
  <2> QED
    BY <1>1, <2>1 DEF RowsSet
<1>4. ArraysSet'
  <2>1. \A l \in 0..2 : /\ mem'[<<Array.b, l>>] = mem[<<Array.b, l>>]
                        /\ mem'[<<Array.w, l>>] = mem[<<Array.w, l>>]
                        /\ mem'[<<Array.sizes, l>>] = mem[<<Array.sizes, l>>]
    BY <1>2, PointersLemma
  <2>2. 1 \in 0..2 /\ \A l \in 1..2 : l \in 0..2
    OBVIOUS
  <2> QED
    BY <1>1, <2>1, <2>2 DEF ArraysSet
<1>5. FieldsSet'
  <2>1. \A f \in {"net_b", "net_w", "net_sizes"} : mem'[<<Array[f], 0>>] = mem[<<Array[f], 0>>]
    BY <1>2, PointersLemma
  <2>2. /\ Array["net_b"] = Array.net_b /\ Array["net_w"] = Array.net_w
        /\ Array["net_sizes"] = Array.net_sizes
    OBVIOUS
  <2>3. /\ mem'[<<Array["net_b"], 0>>] = mem[<<Array["net_b"], 0>>]
        /\ mem'[<<Array["net_w"], 0>>] = mem[<<Array["net_w"], 0>>]
        /\ mem'[<<Array["net_sizes"], 0>>] = mem[<<Array["net_sizes"], 0>>]
    BY <2>1
  <2> QED
    BY <1>1, <2>2, <2>3, Zenon DEF FieldsSet
<1> QED
  BY <1>3, <1>4, <1>5 DEF WireInv, Using

LEMMA LoadStep ==
  ASSUME WireInv, LoadFloat
  PROVE  WireInv'
<1>1. pc = "load" /\ pc' = "load" /\ pc \in Using /\ at \in Positions /\ DOMAIN mem = Words
  BY DEF WireInv, LoadFloat, Using
<1>2. Address(at[1], at[2], at[3]) = Cell(at)
  BY <1>1, AddressLemma
<1>3. DOMAIN mem' = Words /\ \A y \in Words : ~ NumberWord(y) => mem'[y] = mem[y]
  <2>1. UNCHANGED mem \/ mem' = [mem EXCEPT ![Cell(at)] = Head(stream)]
    BY <1>2 DEF LoadFloat
  <2>2. NumberWord(Cell(at))
    BY <1>1, CellLemma
  <2>3. \A y \in Words : ~ NumberWord(y) => y # Cell(at)
    BY <2>2
  <2> QED
    BY <1>1, <2>1, <2>3
<1>4. (at = Done \/ at \in Positions)'
  <2>1. at' = Step(at[1], at[2], at[3])
    BY DEF LoadFloat
  <2> QED
    BY <1>1, <2>1, StepLemma DEF Positions, Done
<1> QED
  BY <1>1, <1>3, <1>4, KeepLemma

(* The steps that leave the memory alone once the network is used.         *)
LEMMA UseStep ==
  ASSUME WireInv,
         EndLoad \/ EvaluateTest \/ EndEvaluate \/ OpenToDump \/ DumpFloat \/ Exit
  PROVE  WireInv'
<1>1. pc \in Using /\ pc' \in Using \union {"off"} /\ UNCHANGED mem /\ DOMAIN mem' = Words
  BY DEF WireInv, Using, EndLoad, EvaluateTest, EndEvaluate, OpenToDump, DumpFloat, Exit, counts
<1>2. (at = Done \/ at \in Positions)'
  <2>1. CASE DumpFloat
    <3>1. at \in Positions /\ at' = Step(at[1], at[2], at[3])
      BY <2>1 DEF WireInv, DumpFloat
    <3> QED
      BY <3>1, StepLemma DEF Positions, Done
  <2>2. CASE EndLoad
    <3>1. at' = <<1, 0, Bias>>
      BY <2>2 DEF EndLoad
    <3> QED
      BY <3>1, FirstPosition DEF Positions
  <2>3. CASE EvaluateTest \/ EndEvaluate \/ OpenToDump \/ Exit
    <3>1. UNCHANGED at
      BY <2>3 DEF EvaluateTest, EndEvaluate, OpenToDump, Exit
    <3> QED
      BY <3>1 DEF WireInv, Positions, Done
  <2> QED
    BY <2>1, <2>2, <2>3
<1>3. (pc \notin {"load", "dump", "off"} => at = <<1, 0, Bias>>)'
  BY DEF WireInv, EndLoad, EvaluateTest, EndEvaluate, OpenToDump, DumpFloat, Exit, counts
<1> QED
  BY <1>1, <1>2, <1>3, KeepLemma

LEMMA StopStep ==
  ASSUME WireInv, Stop
  PROVE  WireInv'
<1>1. pc' = "off" /\ UNCHANGED <<mem, at>>
  BY DEF Stop
<1> QED
  BY <1>1 DEF WireInv, Using, Positions, Done

LEMMA AgainStep ==
  ASSUME WireInv, RunAgain
  PROVE  WireInv'
<1>1. DOMAIN mem' = Words /\ pc' = "hidden" /\ idx' = 0 /\ at' = <<1, 0, Bias>>
  BY DEF RunAgain, SetupBegins, After
<1>2. RowsSet(1, idx)'
  BY <1>1, SizesLemma DEF RowsSet
<1>3. 0 \in 0..HiddenSize
  BY SizesLemma
<1> QED
  BY <1>1, <1>2, <1>3, FirstPosition DEF WireInv, Using

LEMMA WireNext == WireInv /\ [Next]_vars => WireInv'
<1> SUFFICES ASSUME WireInv, [Next]_vars PROVE WireInv'
  OBVIOUS
<1>1. CASE UNCHANGED vars
  BY <1>1 DEF vars, WireInv, RowsSet, ArraysSet, FieldsSet, Using, Positions, Done
<1> QED
  BY <1>1, HiddenStep, OutStep, WireStep, InitStep, OpenStep, LoadStep, UseStep, StopStep,
     AgainStep DEF Next

(* main.c, CONNECT_HIDDEN_ARR and the assignments after it, with both init *)
(* functions: what every stage of the set-up has connected.                *)
THEOREM WireInvariant == Spec => []WireInv
BY WireInit, WireNext, PTL DEF Spec

(* main.c, the set-up as a whole: with layers of any size, and wherever    *)
(* the store past w_1 goes, a network that is loaded or used has a word of *)
(* its own for every number.                                               *)
THEOREM NetworkIsWiredTheorem == Spec => []NetworkIsWired
BY WireInvariant, WiredLemma, PTL
-----------------------------------------------------------------------------
(* The file has the numbers in the order in which the loops come to them:  *)
(* Cursor is the place of the next one, one past the end when none is left.*)

Total == HiddenSize * (InputSize + 1) + OutputSize * (HiddenSize + 1)

Cursor(x) == IF x = Done THEN Total + 1 ELSE Place(x[1], x[2], x[3])

LEMMA ProductLemma ==
  ASSUME NEW a \in Int, NEW b \in Int
  PROVE  a * b \in Int /\ (a + 1) * b = a * b + b
OBVIOUS

LEMMA MonotoneLemma ==
  ASSUME NEW a \in Nat, NEW c \in Nat, NEW b \in Nat, a < c
  PROVE  a * b + b <= c * b
<1>1. PICK d \in Nat : c = a + 1 + d
  <2>1. c - a - 1 \in Nat /\ c = a + 1 + (c - a - 1)
    OBVIOUS
  <2> QED
    BY <2>1
<1>2. c * b = a * b + b + d * b /\ d * b \in Nat /\ a * b \in Nat
  BY <1>1
<1> QED
  BY <1>2

(* The layers of the file: the offset of one, its rows and their length.   *)
Offset(l) == IF l = 1 THEN 0 ELSE HiddenSize * (InputSize + 1)

LEMMA LayerLemma ==
  ASSUME NEW x \in Positions
  PROVE  /\ x[2] \in Nat /\ x[2] < sizes[x[1] + 1] /\ x[3] \in -1..(sizes[x[1]] - 1)
         /\ sizes[x[1]] \in Nat \ {0} /\ sizes[x[1] + 1] \in Nat \ {0}
         /\ x[1] = 1 \/ x[1] = 2
<1>1. x[1] \in 1..2 /\ x[2] \in N(x[1]) /\ x[3] \in {Bias} \union N(x[1] - 1)
  BY PositionLemma
<1>2. CASE x[1] = 1
  BY <1>1, <1>2, SizesLemma DEF Bias
<1>3. CASE x[1] = 2
  BY <1>1, <1>3, SizesLemma DEF Bias
<1> QED
  BY <1>1, <1>2, <1>3

LEMMA PlaceLemma ==
  ASSUME NEW x \in Positions
  PROVE  /\ Place(x[1], x[2], x[3]) = Offset(x[1]) + x[2] * (sizes[x[1]] + 1) + x[3] + 2
         /\ Place(x[1], x[2], x[3]) \in Nat
         /\ Offset(x[1]) < Place(x[1], x[2], x[3])
         /\ Place(x[1], x[2], x[3]) <= Offset(x[1]) + sizes[x[1] + 1] * (sizes[x[1]] + 1)
<1> DEFINE w == sizes[x[1]] + 1
           p == x[2] * w
           q == sizes[x[1] + 1] * w
<1>1. /\ x[2] \in Nat /\ x[2] < sizes[x[1] + 1] /\ x[3] \in -1..(sizes[x[1]] - 1)
      /\ sizes[x[1]] \in Nat \ {0} /\ sizes[x[1] + 1] \in Nat
  BY LayerLemma
<1>2. w \in Nat /\ x[3] + 2 <= w /\ 1 <= x[3] + 2 /\ x[3] \in Int
  BY <1>1
<1>3. Offset(x[1]) \in Nat
  <2>1. HiddenSize \in Nat /\ InputSize + 1 \in Nat
    BY SizesLemma
  <2> QED
    BY <2>1 DEF Offset
<1> HIDE DEF w
<1>4. p \in Nat /\ p + w <= q /\ q \in Nat
  BY <1>1, <1>2, MonotoneLemma
<1>5. Place(x[1], x[2], x[3]) = Offset(x[1]) + p + x[3] + 2
  BY DEF Place, Offset, w
<1> HIDE DEF p, q
<1>6. /\ Place(x[1], x[2], x[3]) \in Nat
      /\ Offset(x[1]) < Place(x[1], x[2], x[3])
      /\ Place(x[1], x[2], x[3]) <= Offset(x[1]) + q
  BY <1>2, <1>3, <1>4, <1>5
<1> QED
  BY <1>5, <1>6 DEF p, q, w

LEMMA OffsetLemma ==
  /\ Offset(1) = 0 /\ Offset(2) \in Nat
  /\ Offset(2) = Offset(1) + sizes[2] * (sizes[1] + 1)
  /\ Total = Offset(2) + sizes[3] * (sizes[2] + 1) /\ Total \in Nat
<1>1. HiddenSize \in Nat /\ InputSize + 1 \in Nat /\ OutputSize \in Nat /\ HiddenSize + 1 \in Nat
  BY SizesLemma
<1>2. HiddenSize * (InputSize + 1) \in Nat /\ OutputSize * (HiddenSize + 1) \in Nat
  BY <1>1
<1>3. sizes[1] = InputSize /\ sizes[2] = HiddenSize /\ sizes[3] = OutputSize
  BY SizesLemma
<1> QED
  BY <1>2, <1>3 DEF Offset, Total

LEMMA PlaceRange ==
  ASSUME NEW x \in Positions
  PROVE  Place(x[1], x[2], x[3]) \in 1..Total /\ Cursor(x) = Place(x[1], x[2], x[3])
<1>1. x[1] = 1 \/ x[1] = 2
  BY LayerLemma
<1>2. x # Done
  BY <1>1 DEF Done
<1>3. CASE x[1] = 1
  <2>1. sizes[3] * (sizes[2] + 1) \in Nat
    <3>1. sizes[3] \in Nat /\ sizes[2] + 1 \in Nat
      BY SizesLemma
    <3> QED
      BY <3>1
  <2>2. Place(x[1], x[2], x[3]) <= Offset(2)
    BY <1>3, PlaceLemma, OffsetLemma
  <2> QED
    BY <1>2, <1>3, <2>1, <2>2, PlaceLemma, OffsetLemma DEF Cursor
<1>4. CASE x[1] = 2
  <2>1. Place(x[1], x[2], x[3]) <= Total
    BY <1>4, PlaceLemma, OffsetLemma
  <2> QED
    BY <1>2, <1>4, <2>1, PlaceLemma, OffsetLemma DEF Cursor
<1> QED
  BY <1>1, <1>3, <1>4

LEMMA PlaceUnique ==
  ASSUME NEW x \in Positions, NEW y \in Positions,
         Place(x[1], x[2], x[3]) = Place(y[1], y[2], y[3])
  PROVE  x = y
<1>1. /\ x = <<x[1], x[2], x[3]>> /\ y = <<y[1], y[2], y[3]>>
  BY PositionLemma, Zenon
<1>2. (x[1] = 1 \/ x[1] = 2) /\ (y[1] = 1 \/ y[1] = 2)
  BY LayerLemma
<1>3. x[1] = y[1]
  <2>1. ASSUME NEW u \in Positions, NEW v \in Positions, u[1] = 1, v[1] = 2
        PROVE  Place(u[1], u[2], u[3]) < Place(v[1], v[2], v[3])
    <3>1. Place(u[1], u[2], u[3]) <= Offset(2) /\ Place(u[1], u[2], u[3]) \in Nat
      BY <2>1, PlaceLemma, OffsetLemma
    <3>2. Offset(2) < Place(v[1], v[2], v[3]) /\ Place(v[1], v[2], v[3]) \in Nat
      BY <2>1, PlaceLemma
    <3> QED
      BY <3>1, <3>2, OffsetLemma
  <2>2. Place(x[1], x[2], x[3]) \in Nat
    BY PlaceLemma
  <2> QED
    BY <1>2, <2>1, <2>2
<1> DEFINE w == sizes[x[1]] + 1
<1>4. w \in Nat
  BY LayerLemma
<1>5. x[2] = y[2]
  <2>1. ASSUME NEW u \in Positions, NEW v \in Positions, u[1] = x[1], v[1] = x[1], u[2] < v[2]
        PROVE  Place(u[1], u[2], u[3]) < Place(v[1], v[2], v[3])
    <3> DEFINE p == u[2] * w
               q == v[2] * w
    <3>1. u[2] \in Nat /\ v[2] \in Nat
      BY LayerLemma
    <3>2. p + w <= q /\ p \in Nat /\ q \in Nat
      BY <1>4, <2>1, <3>1, MonotoneLemma
    <3>3. u[3] + 2 <= w /\ 1 <= v[3] + 2 /\ u[3] \in Int /\ v[3] \in Int
      BY <2>1, LayerLemma
    <3>4. /\ Place(u[1], u[2], u[3]) = Offset(x[1]) + p + u[3] + 2
          /\ Place(v[1], v[2], v[3]) = Offset(x[1]) + q + v[3] + 2
      BY <2>1, PlaceLemma
    <3>5. Offset(x[1]) \in Nat
      BY <1>2, OffsetLemma
    <3> HIDE DEF p, q, w
    <3> QED
      BY <1>4, <3>2, <3>3, <3>4, <3>5
  <2>2. x[2] \in Nat /\ y[2] \in Nat /\ Place(x[1], x[2], x[3]) \in Nat
    BY LayerLemma, PlaceLemma
  <2> QED
    BY <1>3, <2>1, <2>2
<1>6. x[3] = y[3]
  <2> DEFINE b == Offset(x[1]) + x[2] * w
  <2>1. b \in Int
    <3>1. Offset(x[1]) \in Nat /\ x[2] \in Nat
      BY <1>2, OffsetLemma, LayerLemma
    <3> HIDE DEF w
    <3>2. x[2] * w \in Nat
      BY <1>4, <3>1
    <3> QED
      BY <3>1, <3>2
  <2>2. /\ Place(x[1], x[2], x[3]) = b + x[3] + 2 /\ Place(y[1], y[2], y[3]) = b + y[3] + 2
    BY <1>3, <1>5, PlaceLemma
  <2>3. x[3] \in Int /\ y[3] \in Int
    BY LayerLemma
  <2>4. \A c, u, v \in Int : c + u + 2 = c + v + 2 => u = v
    OBVIOUS
  <2> HIDE DEF b
  <2>5. b + x[3] + 2 = b + y[3] + 2
    BY <2>2, Zenon
  <2> QED
    BY <2>1, <2>3, <2>4, <2>5, Zenon
<1> QED
  BY <1>1, <1>3, <1>5, <1>6, Zenon

LEMMA CursorStep ==
  ASSUME NEW x \in Positions
  PROVE  Cursor(Step(x[1], x[2], x[3])) = Cursor(x) + 1
<1> DEFINE w == sizes[x[1]] + 1
           h == sizes[x[1] + 1]
           b == Offset(x[1])
<1>1. /\ x[2] \in Nat /\ x[2] < h /\ x[3] \in -1..(sizes[x[1]] - 1)
      /\ sizes[x[1]] \in Nat \ {0} /\ h \in Nat \ {0} /\ (x[1] = 1 \/ x[1] = 2)
  BY LayerLemma
<1>2. w \in Nat /\ x[3] \in Int /\ x[3] + 2 <= w /\ b \in Nat
  BY <1>1, OffsetLemma
<1>3. Cursor(x) = b + x[2] * w + x[3] + 2
  BY PlaceLemma, PlaceRange
<1>4. x[2] * w \in Nat /\ (x[2] + 1) * w = x[2] * w + w
  <2> HIDE DEF w
  <2> QED
    BY <1>1, <1>2
<1>5. CASE x[3] + 1 < sizes[x[1]]
  <2>1. Step(x[1], x[2], x[3]) = <<x[1], x[2], x[3] + 1>>
    BY <1>5 DEF Step
  <2>2. <<x[1], x[2], x[3] + 1>> # Done
    BY <1>1 DEF Done
  <2>3. Cursor(<<x[1], x[2], x[3] + 1>>) = b + x[2] * w + (x[3] + 1) + 2
    BY <2>2 DEF Cursor, Place, Offset
  <2> HIDE DEF w, b
  <2> DEFINE p == x[2] * w
  <2>4. p \in Nat
    BY <1>4
  <2>5. Cursor(x) = b + p + x[3] + 2 /\ Cursor(<<x[1], x[2], x[3] + 1>>) = b + p + (x[3] + 1) + 2
    BY <1>3, <2>3
  <2> HIDE DEF p
  <2> QED
    BY <1>2, <2>1, <2>4, <2>5
<1>6. CASE ~ (x[3] + 1 < sizes[x[1]])
  <2>1. x[3] + 2 = w
    BY <1>1, <1>6
  <2>2. CASE x[2] + 1 < h
    <3>1. Step(x[1], x[2], x[3]) = <<x[1], x[2] + 1, Bias>>
      BY <1>6, <2>2 DEF Step
    <3>2. <<x[1], x[2] + 1, Bias>> # Done
      BY <1>1 DEF Done
    <3>3. Cursor(<<x[1], x[2] + 1, Bias>>) = b + (x[2] + 1) * w + 1
      <4>1. Cursor(<<x[1], x[2] + 1, Bias>>) = b + (x[2] + 1) * w + (-1) + 2
        BY <3>2 DEF Cursor, Place, Offset, Bias
      <4>2. (x[2] + 1) * w \in Int
        BY <1>2, <1>4
      <4> DEFINE p == (x[2] + 1) * w
      <4> HIDE DEF p, b
      <4>3. p \in Int /\ Cursor(<<x[1], x[2] + 1, Bias>>) = b + p + (-1) + 2
        BY <4>1, <4>2 DEF p
      <4>4. Cursor(<<x[1], x[2] + 1, Bias>>) = b + p + 1
        BY <1>2, <4>3
      <4> QED
        BY <4>4 DEF p
    <3> HIDE DEF w, b
    <3> DEFINE p == x[2] * w
    <3>4. p \in Nat /\ Cursor(x) = b + p + x[3] + 2 /\ (x[2] + 1) * w = p + w
      BY <1>3, <1>4
    <3> HIDE DEF p
    <3> QED
      BY <1>2, <2>1, <3>1, <3>3, <3>4
  <2>3. CASE ~ (x[2] + 1 < h)
    <3>1. x[2] + 1 = h
      BY <1>1, <2>3
    <3>2. Step(x[1], x[2], x[3]) = <<x[1] + 1, 0, Bias>>
      BY <1>6, <2>3 DEF Step
    <3>3. Cursor(x) + 1 = b + h * w + 1
      <4> HIDE DEF w, b
      <4> DEFINE p == x[2] * w
      <4>1. p \in Nat /\ Cursor(x) = b + p + x[3] + 2 /\ h * w = p + w
        BY <1>3, <1>4, <3>1
      <4> HIDE DEF p
      <4> QED
        BY <1>2, <2>1, <4>1
    <3>4. CASE x[1] = 1
      <4>1. b + h * w = Offset(2)
        BY <3>4, OffsetLemma
      <4>2. <<2, 0, Bias>> # Done
        BY DEF Done
      <4>3. 0 \in N(2)
        BY SizesLemma
      <4>4. <<2, 0, Bias>> \in Positions
        BY <4>3, BuildLemma
      <4>5. Cursor(<<2, 0, Bias>>) = Offset(2) + 0 * (sizes[2] + 1) + Bias + 2
        BY <4>2 DEF Cursor, Place, Offset
      <4>6. 0 * (sizes[2] + 1) = 0
        BY SizesLemma
      <4>7. Cursor(<<2, 0, Bias>>) = Offset(2) + 1
        BY <4>5, <4>6, OffsetLemma DEF Bias
      <4> QED
        BY <3>2, <3>3, <3>4, <4>1, <4>7
    <3>5. CASE x[1] = 2
      <4>1. b + h * w = Total
        BY <3>5, OffsetLemma
      <4>2. Cursor(<<3, 0, Bias>>) = Total + 1
        BY DEF Cursor, Done
      <4> QED
        BY <3>2, <3>3, <3>5, <4>1, <4>2
    <3> QED
      BY <1>1, <3>4, <3>5
  <2> QED
    BY <2>2, <2>3
<1> QED
  BY <1>5, <1>6

LEMMA FirstCursor == Cursor(<<1, 0, Bias>>) = 1
<1>1. <<1, 0, Bias>> # Done
  BY DEF Done
<1>2. Cursor(<<1, 0, Bias>>) = 0 + 0 * (sizes[1] + 1) + Bias + 2
  BY <1>1 DEF Cursor, Place
<1>3. 0 * (sizes[1] + 1) = 0
  BY SizesLemma
<1> QED
  BY <1>2, <1>3 DEF Bias

-----------------------------------------------------------------------------
(* Files and streams are sequences, of whatever the words may hold.        *)

IsSeq(s) == s \in Seq({s[i] : i \in DOMAIN s})

LEMMA SeqLemma ==
  ASSUME NEW S, NEW s \in Seq(S)
  PROVE  IsSeq(s)
<1> DEFINE V == {s[i] : i \in DOMAIN s}
<1>1. Len(s) \in Nat /\ DOMAIN s = 1..Len(s) /\ s = [i \in 1..Len(s) |-> s[i]]
  OBVIOUS
<1>2. \A i \in 1..Len(s) : s[i] \in V
  BY <1>1
<1> HIDE DEF V
<1>3. s \in [1..Len(s) -> V]
  BY <1>1, <1>2, Zenon
<1>4. s \in Seq(V)
  BY <1>1, <1>3
<1> QED
  BY <1>4 DEF IsSeq, V

LEMMA SeqFacts ==
  ASSUME NEW s, IsSeq(s)
  PROVE  /\ Len(s) \in Nat
         /\ s # <<>> => /\ IsSeq(Tail(s)) /\ Len(Tail(s)) = Len(s) - 1 /\ Len(s) > 0
                        /\ Head(s) = s[1] /\ \A n \in 1..(Len(s) - 1) : Tail(s)[n] = s[n + 1]
         /\ s = <<>> => Len(s) = 0
         /\ \A n \in 0..Len(s) : IsSeq(SubSeq(s, 1, n))
<1> DEFINE V == {s[i] : i \in DOMAIN s}
<1>1. s \in Seq(V)
  BY DEF IsSeq
<1> HIDE DEF V
<1>2. Len(s) \in Nat
  BY <1>1
<1>3. ASSUME s # <<>>
      PROVE  /\ IsSeq(Tail(s)) /\ Len(Tail(s)) = Len(s) - 1 /\ Len(s) > 0
             /\ Head(s) = s[1] /\ \A n \in 1..(Len(s) - 1) : Tail(s)[n] = s[n + 1]
  <2>1. Tail(s) \in Seq(V) /\ Len(Tail(s)) = Len(s) - 1 /\ Len(s) > 0 /\ Head(s) = s[1]
    BY <1>1, <1>3
  <2>2. \A n \in 1..(Len(s) - 1) : Tail(s)[n] = s[n + 1]
    BY <1>1, <1>3
  <2> QED
    BY <2>1, <2>2, SeqLemma
<1>4. ASSUME NEW n \in 0..Len(s)
      PROVE  IsSeq(SubSeq(s, 1, n))
  <2>1. SubSeq(s, 1, n) \in Seq(V)
    BY <1>1, <1>2
  <2> QED
    BY <2>1, SeqLemma
<1>5. s = <<>> => Len(s) = 0
  OBVIOUS
<1> QED
  BY <1>2, <1>3, <1>4, <1>5

LEMMA EmptySeq == IsSeq(<<>>) /\ Len(<<>>) = 0
<1>1. <<>> \in Seq({}) /\ Len(<<>>) = 0
  OBVIOUS
<1> QED
  BY <1>1, SeqLemma

LEMMA AppendSeq ==
  ASSUME NEW s, IsSeq(s), NEW v
  PROVE  /\ IsSeq(Append(s, v)) /\ Len(Append(s, v)) = Len(s) + 1
         /\ Append(s, v)[Len(s) + 1] = v
         /\ \A n \in 1..Len(s) : Append(s, v)[n] = s[n]
<1> DEFINE V == {s[i] : i \in DOMAIN s}
           W == V \union {v}
<1>1. s \in Seq(V)
  BY DEF IsSeq
<1> HIDE DEF V
<1>2. s \in Seq(W) /\ v \in W
  BY <1>1
<1> HIDE DEF W
<1>3. Append(s, v) \in Seq(W)
  BY <1>2
<1>4. /\ Len(Append(s, v)) = Len(s) + 1 /\ Append(s, v)[Len(s) + 1] = v
      /\ \A n \in 1..Len(s) : Append(s, v)[n] = s[n]
  BY <1>2
<1> QED
  BY <1>3, <1>4, SeqLemma

-----------------------------------------------------------------------------
(* What has been read or written so far, and what the file and the memory  *)
(* have to do with each other.                                             *)

At(x) == Place(x[1], x[2], x[3])

(* The network in memory is the file's, before the place c.                *)
LoadedTo(c) == \A x \in Positions : At(x) < c /\ At(x) <= Len(opened) => mem[Cell(x)] = opened[At(x)]

Reading ==
  /\ IsSeq(stream)
  /\ \A n \in 1..Len(stream) : stream[n] = opened[Cursor(at) - 1 + n]
  /\ IF Cursor(at) <= Len(opened) THEN Len(stream) = Len(opened) - Cursor(at) + 1 ELSE Len(stream) = 0
  /\ LoadedTo(Cursor(at))

Writing ==
  /\ IsSeq(stream) /\ Len(stream) = Cursor(at) - 1
  /\ \A x \in Positions : At(x) < Cursor(at) => stream[At(x)] = mem[Cell(x)]

(* The file is the whole network that was dumped.                          *)
Whole ==
  /\ saved = [x \in Positions |-> saved[x]]
  /\ Len(file) = Total /\ \A x \in Positions : file[At(x)] = saved[x]

FileInv ==
  /\ IsSeq(file)
  /\ DOMAIN saved = {} \/ Whole
  /\ pc \in {"load", "evaluate", "open", "exit"} /\ initFromFile => opened = file
  /\ pc = "load" => initFromFile /\ Reading
  /\ Evaluating /\ initFromFile /\ opened # NoFile => IsSeq(opened) /\ LoadedTo(Total + 1)
  /\ pc = "dump" => DOMAIN saved = {} /\ Writing

LEMMA NetLemma ==
  ASSUME WireInv, pc \in Using
  PROVE  Net = [x \in Positions |-> mem[Cell(x)]]
<1>1. ASSUME NEW x \in Positions
      PROVE  Load(Address(x[1], x[2], x[3])[1], Address(x[1], x[2], x[3])[2]) = mem[Cell(x)]
  <2>1. Address(x[1], x[2], x[3]) = Cell(x) /\ Cell(x) \in Words /\ Cell(x) = <<Cell(x)[1], Cell(x)[2]>>
    BY AddressLemma, CellLemma
  <2> QED
    BY <2>1, Zenon DEF Load
<1> QED
  BY <1>1, Zenon DEF Net

LEMMA AtLemma ==
  /\ \A x \in Positions : At(x) \in 1..Total /\ Cursor(x) = At(x)
                          /\ Cursor(Step(x[1], x[2], x[3])) = At(x) + 1
  /\ \A x, y \in Positions : At(x) = At(y) => x = y
  /\ Cursor(Done) = Total + 1 /\ Total \in Nat
<1>1. Cursor(Done) = Total + 1
  BY DEF Cursor
<1>2. \A x \in Positions : At(x) \in 1..Total /\ Cursor(x) = At(x)
                           /\ Cursor(Step(x[1], x[2], x[3])) = At(x) + 1
  BY PlaceRange, CursorStep DEF At
<1>3. \A x, y \in Positions : At(x) = At(y) => x = y
  BY PlaceUnique DEF At
<1> QED
  BY <1>1, <1>2, <1>3, OffsetLemma

(* main.c and network.c: what the properties say of the file.              *)
LEMMA SurvivesLemma == WireInv /\ FileInv => NetworkSurvives
<1> SUFFICES ASSUME WireInv, FileInv, Evaluating, initFromFile, opened # NoFile
             PROVE  /\ \A x \in Positions : At(x) <= Len(opened) => Net[x] = opened[At(x)]
                    /\ DOMAIN saved # {} => Net = saved
  BY Zenon DEF NetworkSurvives, At
<1>1. pc \in Using
  BY DEF Evaluating, Using
<1>2. Net = [x \in Positions |-> mem[Cell(x)]]
  BY <1>1, NetLemma
<1>3. LoadedTo(Total + 1) /\ IsSeq(opened)
  BY DEF FileInv
<1>4. ASSUME NEW x \in Positions, At(x) <= Len(opened)
      PROVE  Net[x] = opened[At(x)]
  <2>1. At(x) < Total + 1
    BY AtLemma
  <2> QED
    BY <1>2, <1>3, <1>4, <2>1 DEF LoadedTo
<1>5. ASSUME DOMAIN saved # {}
      PROVE  Net = saved
  <2>1. Whole /\ opened = file
    BY <1>5 DEF FileInv, Evaluating
  <2>2. ASSUME NEW x \in Positions
        PROVE  Net[x] = saved[x]
    <3>1. At(x) <= Len(opened)
      BY <2>1, AtLemma DEF Whole
    <3> QED
      BY <1>4, <2>1, <3>1 DEF Whole
  <2>3. Net = [x \in Positions |-> saved[x]]
    BY <1>2, <2>2
  <2> QED
    BY <2>1, <2>3 DEF Whole
<1> QED
  BY <1>4, <1>5

LEMMA FileInit == Init => FileInv
<1> SUFFICES ASSUME Init PROVE FileInv
  OBVIOUS
<1>1. pc = "hidden" /\ DOMAIN saved = {}
  BY DEF Init, Start, SetupBegins, After
<1>2. IsSeq(file)
  BY ProgramAssumption DEF Init, IsSeq
<1> QED
  BY <1>1, <1>2 DEF FileInv, Evaluating

(* Steps that open, read, write and leave no file.                         *)
LEMMA FileKept ==
  ASSUME FileInv, UNCHANGED <<file, opened, saved, initFromFile>>,
         pc' \notin {"load", "dump"},
         \/ pc' \in {"hidden", "out", "wire", "init", "off"}
         \/ initFromFile' = FALSE
         \/ pc \in {"evaluate", "open", "exit"} /\ UNCHANGED mem
  PROVE  FileInv'
<1>1. CASE pc' \in {"hidden", "out", "wire", "init", "off"} \/ initFromFile' = FALSE
  BY <1>1 DEF FileInv, Whole, Evaluating
<1>2. CASE pc \in {"evaluate", "open", "exit"} /\ UNCHANGED mem
  <2>1. Evaluating /\ LoadedTo(Total + 1)' = LoadedTo(Total + 1)
    BY <1>2 DEF Evaluating, LoadedTo
  <2> QED
    BY <1>2, <2>1 DEF FileInv, Whole, Evaluating
<1> QED
  BY <1>1, <1>2

LEMMA OpenLoadFile ==
  ASSUME WireInv, FileInv, OpenToLoad
  PROVE  FileInv'
<1>1. /\ pc = "init" /\ initFromFile /\ opened' = file /\ UNCHANGED <<file, saved, initFromFile, at>>
      /\ at = <<1, 0, Bias>>
  BY DEF OpenToLoad, WireInv, build, Using
<1>2. IsSeq(file) /\ (DOMAIN saved = {} \/ Whole)
  BY DEF FileInv
<1>3. (DOMAIN saved = {} \/ Whole)'
  BY <1>1, <1>2 DEF Whole
<1>4. CASE file = NoFile
  <2>1. pc' = "evaluate"
    BY <1>4 DEF OpenToLoad
  <2> QED
    BY <1>1, <1>2, <1>3, <1>4, <2>1 DEF FileInv, Evaluating
<1>5. CASE file # NoFile
  <2>1. pc' = "load" /\ stream' = file
    BY <1>5 DEF OpenToLoad
  <2>2. Len(file) \in Nat
    BY <1>2, SeqFacts
  <2>3. Cursor(at) = 1
    BY <1>1, FirstCursor
  <2>4. (\A n \in 1..Len(stream) : stream[n] = opened[Cursor(at) - 1 + n])'
    BY <1>1, <2>1, <2>2, <2>3
  <2>5. (IF Cursor(at) <= Len(opened) THEN Len(stream) = Len(opened) - Cursor(at) + 1
         ELSE Len(stream) = 0)'
    BY <1>1, <2>1, <2>2, <2>3
  <2>6. LoadedTo(Cursor(at))'
    BY <1>1, <2>3, AtLemma DEF LoadedTo
  <2>7. Reading'
    BY <1>2, <2>1, <2>4, <2>5, <2>6 DEF Reading
  <2> QED
    BY <1>1, <1>2, <1>3, <2>1, <2>7 DEF FileInv, Evaluating
<1> QED
  BY <1>4, <1>5

LEMMA LoadFile ==
  ASSUME WireInv, FileInv, LoadFloat
  PROVE  FileInv'
<1>1. /\ pc = "load" /\ pc' = "load" /\ UNCHANGED <<file, opened, saved, initFromFile>>
      /\ at \in Positions /\ at' = Step(at[1], at[2], at[3]) /\ pc \in Using /\ DOMAIN mem = Words
  BY DEF LoadFloat, WireInv, build, Using
<1>2. Reading /\ IsSeq(file) /\ opened = file /\ initFromFile
  BY <1>1 DEF FileInv
<1> DEFINE c == Cursor(at)
<1>3. c = At(at) /\ c \in 1..Total /\ Cursor(at)' = c + 1
  BY <1>1, AtLemma
<1>4. Len(opened) \in Nat /\ IsSeq(stream) /\ Len(stream) \in Nat
  BY <1>2, SeqFacts DEF Reading
<1> HIDE DEF c
<1>5. /\ \A n \in 1..Len(stream) : stream[n] = opened[c - 1 + n]
      /\ IF c <= Len(opened) THEN Len(stream) = Len(opened) - c + 1 ELSE Len(stream) = 0
      /\ LoadedTo(c)
  BY <1>2 DEF Reading, c
<1>6. CASE stream = <<>>
  <2>1. UNCHANGED <<mem, stream>>
    BY <1>6 DEF LoadFloat
  <2>2. Len(stream) = 0 /\ ~ (c <= Len(opened))
    BY <1>3, <1>4, <1>5, <1>6, EmptySeq
  <2>3. \A x \in Positions : At(x) < c + 1 /\ At(x) <= Len(opened) => mem[Cell(x)] = opened[At(x)]
    <3>1. \A x \in Positions : At(x) <= Len(opened) => At(x) < c
      BY <1>3, <1>4, <2>2, AtLemma
    <3> QED
      BY <1>5, <3>1 DEF LoadedTo
  <2>4. LoadedTo(Cursor(at))'
    BY <1>1, <1>3, <2>1, <2>3 DEF LoadedTo
  <2>5. (IF Cursor(at) <= Len(opened) THEN Len(stream) = Len(opened) - Cursor(at) + 1
         ELSE Len(stream) = 0)'
    BY <1>1, <1>3, <1>4, <2>1, <2>2
  <2>6. (\A n \in 1..Len(stream) : stream[n] = opened[Cursor(at) - 1 + n])'
    BY <1>1, <1>3, <2>1, <2>2
  <2>7. Reading'
    BY <1>4, <2>1, <2>4, <2>5, <2>6 DEF Reading
  <2> QED
    BY <1>1, <1>2, <2>7 DEF FileInv, Whole, Evaluating
<1>7. CASE stream # <<>>
  <2>1. mem' = [mem EXCEPT ![Cell(at)] = Head(stream)] /\ stream' = Tail(stream)
    BY <1>1, <1>7, AddressLemma DEF LoadFloat
  <2>2. /\ IsSeq(Tail(stream)) /\ Len(Tail(stream)) = Len(stream) - 1 /\ Len(stream) > 0
        /\ Head(stream) = stream[1] /\ \A n \in 1..(Len(stream) - 1) : Tail(stream)[n] = stream[n + 1]
    BY <1>4, <1>7, SeqFacts
  <2>3. c <= Len(opened) /\ Len(stream) = Len(opened) - c + 1 /\ Head(stream) = opened[c]
    <3>1. 1 \in 1..Len(stream) /\ c - 1 + 1 = c
      BY <1>3, <1>4, <2>2
    <3>2. stream[1] = opened[c - 1 + 1]
      BY <1>5, <3>1
    <3>3. c <= Len(opened) /\ Len(stream) = Len(opened) - c + 1
      BY <1>5, <2>2
    <3> QED
      BY <2>2, <3>1, <3>2, <3>3
  <2>4. ASSUME NEW x \in Positions, At(x) < c + 1, At(x) <= Len(opened)
        PROVE  mem'[Cell(x)] = opened[At(x)]
    <3>1. CASE At(x) = c
      <4>1. x = at
        BY <1>1, <1>3, <3>1, AtLemma
      <4>2. Cell(at) \in Words
        BY <1>1, CellLemma
      <4> QED
        BY <1>1, <1>3, <2>1, <2>3, <4>1, <4>2
    <3>2. CASE At(x) # c
      <4>1. At(x) < c /\ x # at
        BY <1>3, <2>4, <3>2, AtLemma
      <4>2. Cell(x) # Cell(at)
        BY <1>1, <4>1, CellUnique
      <4>3. Cell(x) \in Words
        BY CellLemma
      <4>4. mem'[Cell(x)] = mem[Cell(x)]
        BY <1>1, <2>1, <4>2, <4>3
      <4> QED
        BY <1>5, <2>4, <4>1, <4>4 DEF LoadedTo
    <3> QED
      BY <3>1, <3>2
  <2>5. LoadedTo(Cursor(at))'
    BY <1>1, <1>3, <2>4 DEF LoadedTo
  <2>6. (IF Cursor(at) <= Len(opened) THEN Len(stream) = Len(opened) - Cursor(at) + 1
         ELSE Len(stream) = 0)'
    BY <1>1, <1>3, <1>4, <2>1, <2>2, <2>3
  <2>7. (\A n \in 1..Len(stream) : stream[n] = opened[Cursor(at) - 1 + n])'
    <3>1. ASSUME NEW n \in 1..(Len(stream) - 1)
          PROVE  Tail(stream)[n] = opened[c + n]
      <4>1. n + 1 \in 1..Len(stream) /\ c - 1 + (n + 1) = c + n
        BY <1>3, <1>4
      <4>2. Tail(stream)[n] = stream[n + 1] /\ stream[n + 1] = opened[c - 1 + (n + 1)]
        BY <1>5, <2>2, <4>1
      <4> QED
        BY <4>1, <4>2
    <3>2. \A n \in Int : (c + 1) - 1 + n = c + n
      BY <1>3
    <3>3. \A n \in 1..Len(Tail(stream)) : Tail(stream)[n] = opened[(c + 1) - 1 + n]
      <4> TAKE n \in 1..Len(Tail(stream))
      <4>1. n \in 1..(Len(stream) - 1) /\ n \in Int
        BY <2>2
      <4> QED
        BY <3>1, <3>2, <4>1
    <3> QED
      BY <1>1, <1>3, <2>1, <3>3
  <2>8. Reading'
    BY <2>1, <2>2, <2>5, <2>6, <2>7 DEF Reading
  <2> QED
    BY <1>1, <1>2, <2>8 DEF FileInv, Whole, Evaluating
<1> QED
  BY <1>6, <1>7

LEMMA EndLoadFile ==
  ASSUME WireInv, FileInv, EndLoad
  PROVE  FileInv'
<1>1. /\ pc = "load" /\ pc' = "evaluate" /\ UNCHANGED <<mem, file, opened, saved, initFromFile>>
      /\ at = Done
  BY DEF EndLoad, build
<1>2. LoadedTo(Total + 1) /\ IsSeq(file) /\ opened = file
  BY <1>1, AtLemma DEF FileInv, Reading
<1>3. LoadedTo(Total + 1)'
  BY <1>1, <1>2 DEF LoadedTo
<1> QED
  BY <1>1, <1>2, <1>3 DEF FileInv, Whole, Evaluating

LEMMA OpenDumpFile ==
  ASSUME WireInv, FileInv, OpenToDump
  PROVE  FileInv'
<1>1. /\ pc = "open" /\ UNCHANGED <<mem, opened, initFromFile, at>> /\ at = <<1, 0, Bias>>
      /\ stream' = <<>> /\ Evaluating
  BY DEF OpenToDump, WireInv, build, Using, Evaluating
<1>2. CASE writable
  <2>1. pc' = "dump" /\ file' = <<>> /\ saved' = [x \in {} |-> Null]
    BY <1>2 DEF OpenToDump
  <2>2. Writing'
    <3>1. Cursor(at)' = 1
      BY <1>1, FirstCursor
    <3> QED
      BY <1>1, <3>1, EmptySeq, AtLemma DEF Writing
  <2>3. (Evaluating /\ initFromFile /\ opened # NoFile => IsSeq(opened) /\ LoadedTo(Total + 1))'
    BY <1>1 DEF FileInv, LoadedTo
  <2> QED
    BY <2>1, <2>2, <2>3, EmptySeq DEF FileInv
<1>3. CASE ~ writable
  <2>1. pc' = "exit" /\ UNCHANGED <<file, saved>>
    BY <1>3 DEF OpenToDump
  <2> QED
    BY <1>1, <2>1, FileKept
<1> QED
  BY <1>2, <1>3

LEMMA DumpFile ==
  ASSUME WireInv, FileInv, DumpFloat
  PROVE  FileInv'
<1>1. /\ pc = "dump" /\ pc' = "dump" /\ UNCHANGED <<mem, file, opened, saved, initFromFile>>
      /\ at \in Positions /\ at' = Step(at[1], at[2], at[3]) /\ pc \in Using /\ Evaluating
  BY DEF DumpFloat, WireInv, build, Using, Evaluating
<1>2. Writing /\ IsSeq(file) /\ DOMAIN saved = {}
  BY <1>1 DEF FileInv
<1> DEFINE c == Cursor(at)
<1>3. c = At(at) /\ c \in 1..Total /\ Cursor(at)' = c + 1
  BY <1>1, AtLemma
<1>4. stream' = Append(stream, mem[Cell(at)])
  <2>1. Address(at[1], at[2], at[3]) = Cell(at) /\ Cell(at) \in Words
        /\ Cell(at) = <<Cell(at)[1], Cell(at)[2]>>
    BY <1>1, AddressLemma, CellLemma
  <2>2. Load(Cell(at)[1], Cell(at)[2]) = mem[Cell(at)]
    BY <2>1, Zenon DEF Load
  <2> QED
    BY <2>1, <2>2 DEF DumpFloat
<1> HIDE DEF c
<1>5. /\ IsSeq(stream) /\ Len(stream) = c - 1
      /\ \A x \in Positions : At(x) < c => stream[At(x)] = mem[Cell(x)]
  BY <1>2 DEF Writing, c
<1>6. /\ IsSeq(stream') /\ Len(stream') = c /\ stream'[c] = mem[Cell(at)]
      /\ \A n \in 1..(c - 1) : stream'[n] = stream[n]
  <2>1. c - 1 + 1 = c
    BY <1>3
  <2> QED
    BY <1>4, <1>5, <2>1, AppendSeq
<1>7. ASSUME NEW x \in Positions, At(x) < c + 1
      PROVE  stream'[At(x)] = mem[Cell(x)]
  <2>1. CASE At(x) = c
    BY <1>1, <1>3, <1>6, <2>1, AtLemma
  <2>2. CASE At(x) # c
    <3>1. At(x) < c /\ At(x) \in 1..(c - 1)
      BY <1>3, <1>7, <2>2, AtLemma
    <3> QED
      BY <1>5, <1>6, <3>1
  <2> QED
    BY <2>1, <2>2
<1>8. Writing'
  <2>1. Len(stream') = (c + 1) - 1
    BY <1>3, <1>6
  <2> QED
    BY <1>1, <1>3, <1>6, <1>7, <2>1 DEF Writing
<1>9. (Evaluating /\ initFromFile /\ opened # NoFile => IsSeq(opened) /\ LoadedTo(Total + 1))'
  BY <1>1 DEF FileInv, LoadedTo
<1> QED
  BY <1>1, <1>2, <1>8, <1>9 DEF FileInv

LEMMA ExitFile ==
  ASSUME WireInv, FileInv, Exit
  PROVE  FileInv'
<1>1. pc' = "off" /\ UNCHANGED <<mem, opened, initFromFile>>
  BY DEF Exit, build
<1>2. CASE pc = "exit" /\ UNCHANGED <<file, saved>>
  BY <1>1, <1>2, FileKept
<1>3. CASE pc = "dump" /\ at = Done /\ file' = stream /\ saved' = Net
  <2>1. Net = [x \in Positions |-> mem[Cell(x)]]
    BY <1>3, NetLemma DEF Using
  <2>2. IsSeq(stream) /\ Len(stream) = Total + 1 - 1 /\ Total \in Nat
        /\ \A x \in Positions : At(x) < Total + 1 => stream[At(x)] = mem[Cell(x)]
    BY <1>3, AtLemma DEF FileInv, Writing
  <2>3. Len(stream) = Total /\ \A x \in Positions : stream[At(x)] = Net[x]
    BY <2>1, <2>2, AtLemma
  <2>4. Net = [x \in Positions |-> Net[x]]
    BY <2>1
  <2>5. Whole'
    BY <1>3, <2>3, <2>4 DEF Whole
  <2> QED
    BY <1>1, <1>3, <2>2, <2>5 DEF FileInv, Evaluating
<1> QED
  BY <1>2, <1>3 DEF Exit

LEMMA StopFile ==
  ASSUME WireInv, FileInv, Stop
  PROVE  FileInv'
<1>1. pc' = "off" /\ UNCHANGED <<mem, opened, saved, initFromFile>>
  BY DEF Stop, build
<1>2. CASE pc = "dump"
  <2>1. PICK n \in 0..Len(stream) : file' = SubSeq(stream, 1, n)
    BY <1>2 DEF Stop
  <2>2. IsSeq(file') /\ DOMAIN saved = {}
    BY <1>2, <2>1, SeqFacts DEF FileInv, Writing
  <2> QED
    BY <1>1, <2>2 DEF FileInv, Evaluating
<1>3. CASE pc # "dump"
  <2>1. UNCHANGED file
    BY <1>3 DEF Stop
  <2> QED
    BY <1>1, <2>1, FileKept
<1> QED
  BY <1>2, <1>3

LEMMA FileNext == WireInv /\ FileInv /\ [Next]_vars => FileInv'
<1> SUFFICES ASSUME WireInv, FileInv, [Next]_vars PROVE FileInv'
  OBVIOUS
<1>1. CASE ConnectHidden \/ ConnectOut \/ Wire
  <2>1. UNCHANGED <<file, opened, saved, initFromFile>> /\ pc' \in {"hidden", "out", "wire", "init"}
    BY <1>1 DEF ConnectHidden, ConnectOut, Wire, filevars, build, After
  <2> QED
    BY <2>1, FileKept
<1>2. CASE network_init
  <2>1. UNCHANGED <<file, opened, saved, initFromFile>> /\ pc' = "evaluate" /\ ~ initFromFile
    BY <1>2 DEF network_init, filevars, build
  <2>2. FileInv'
    BY <2>1 DEF FileInv, Whole, Evaluating
  <2> QED
    BY <2>2
<1>3. CASE EvaluateTest \/ EndEvaluate
  <2>1. /\ UNCHANGED <<file, opened, saved, initFromFile, mem>> /\ pc = "evaluate"
        /\ pc' \in {"evaluate", "open", "exit"}
    BY <1>3 DEF EvaluateTest, EndEvaluate, filevars, build, counts
  <2> QED
    BY <2>1, FileKept
<1>4. CASE RunAgain
  <2>1. UNCHANGED <<file, saved>> /\ pc' = "hidden"
    BY <1>4 DEF RunAgain, SetupBegins, After
  <2> QED
    BY <2>1 DEF FileInv, Whole, Evaluating
<1>5. CASE UNCHANGED vars
  <2>1. UNCHANGED <<mem, pc, at, file, stream, opened, saved, initFromFile>>
    BY <1>5 DEF vars, filevars, build
  <2>2. /\ Cursor(at)' = Cursor(at) /\ Whole' = Whole
        /\ LoadedTo(Cursor(at))' = LoadedTo(Cursor(at)) /\ LoadedTo(Total + 1)' = LoadedTo(Total + 1)
    BY <2>1 DEF Whole, LoadedTo
  <2>3. Reading' = Reading /\ Writing' = Writing
    BY <2>1, <2>2 DEF Reading, Writing
  <2> QED
    BY <2>1, <2>2, <2>3 DEF FileInv, Evaluating
<1> QED
  BY <1>1, <1>2, <1>3, <1>4, <1>5, OpenLoadFile, LoadFile, EndLoadFile, OpenDumpFile, DumpFile,
     ExitFile, StopFile DEF Next

(* network.c, network_init_file and network_filedump, stopped anywhere:    *)
(* what has been read and written, and what the file has.                  *)
THEOREM FileInvariant == Spec => []FileInv
<1>1. Init => FileInv
  BY FileInit
<1>2. WireInv /\ FileInv /\ [Next]_vars => FileInv'
  BY FileNext
<1> QED
  BY <1>1, <1>2, WireInvariant, PTL DEF Spec

(* The same functions: for layers of any size and files of any length, a   *)
(* network that was loaded has the numbers of the file until the program   *)
(* ends, and a network that was dumped whole is the one a later run loads. *)
THEOREM NetworkSurvivesTheorem == Spec => []NetworkSurvives
BY FileInvariant, WireInvariant, SurvivesLemma, PTL
=============================================================================
