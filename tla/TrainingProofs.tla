--------------------------- MODULE TrainingProofs ----------------------------
(***************************************************************************)
(* Proof that the training takes every sample of an epoch at most once,    *)
(* and that the backward pass gives the derivatives of the cost of the     *)
(* samples of a minibatch: for every network and squashing function, every *)
(* number of samples and epochs, every size of a minibatch and every value *)
(* of RAND_MAX, whatever rand() returns.                                   *)
(***************************************************************************)
EXTENDS Training, FiniteSetTheorems, SequenceTheorems, WellFoundedInduction, TLAPS

n == training_size
m == mini_batch_size

LEMMA ConstantsLemma == n \in Nat /\ m \in Nat \ {0} /\ RAND_MAX \in Nat /\ epochs \in Nat
<1>1. mini_batch_size \in Nat \ {0} /\ RAND_MAX \in Nat /\ epochs \in Nat
  BY TrainingAssumption, Zenon
<1>2. samples \in Seq([data : [N(0) -> Words], output : [N(L) -> Words]])
  BY TrainingAssumption, Zenon
<1>3. Len(samples) \in Nat
  BY <1>2, LenProperties
<1> QED
  BY <1>1, <1>3 DEF n, m, training_size

-----------------------------------------------------------------------------
(* Division and multiples.                                                 *)

LEMMA DivLemma ==
  ASSUME NEW a \in Nat, NEW b \in Nat \ {0}
  PROVE  /\ a \div b \in Nat /\ a % b \in 0..(b - 1)
         /\ a = (a \div b) * b + (a % b)
OBVIOUS

LEMMA DivIsLemma ==
  ASSUME NEW k \in Nat, NEW b \in Nat \ {0}, NEW r \in 0..(b - 1)
  PROVE  (k * b + r) \div b = k /\ (k * b + r) % b = r
OBVIOUS

LEMMA MultipleLemma ==
  ASSUME NEW a \in Nat, NEW b \in Nat, NEW c \in Nat
  PROVE  /\ a * c \in Nat /\ (a + 1) * c = a * c + c
         /\ a <= b => a * c <= b * c
OBVIOUS

(* shuffle: whatever rand() returns, the element to swap with is one that  *)
(* has not got its place yet.                                              *)
LEMMA PickLemma ==
  ASSUME NEW k \in Nat, k < n, NEW r \in 0..RAND_MAX
  PROVE  Pick(k, r) \in k..(n - 1)
<1> DEFINE left == n - k
           step == RAND_MAX \div left + 1
           x == r \div step
<1>1. left \in Nat \ {0} /\ RAND_MAX \in Nat
  BY ConstantsLemma
<1>2. step \in Nat \ {0} /\ RAND_MAX < step * left
  <2> DEFINE y == RAND_MAX \div left
             z == RAND_MAX % left
  <2>1. y \in Nat /\ z \in 0..(left - 1) /\ RAND_MAX = y * left + z
    BY <1>1, DivLemma
  <2> HIDE DEF left, y, z
  <2>2. (y + 1) * left = y * left + left /\ y * left \in Nat
    BY <1>1, <2>1, MultipleLemma
  <2>3. y + 1 \in Nat \ {0} /\ RAND_MAX < (y + 1) * left
    BY <1>1, <2>1, <2>2
  <2> QED
    BY <2>3 DEF y
<1> HIDE DEF step
<1>3. x \in Nat /\ x * step <= r
  <2> DEFINE z == r % step
  <2>0. r \in Nat
    BY <1>1
  <2>1. x \in Nat /\ z \in 0..(step - 1) /\ r = x * step + z
    BY <1>2, <2>0, DivLemma
  <2> HIDE DEF x, z
  <2>2. x * step \in Nat
    BY <1>2, <2>1
  <2> QED
    BY <1>2, <2>1, <2>2
<1> HIDE DEF x, left
<1>4. x < left
  <2> SUFFICES ASSUME left <= x PROVE FALSE
    BY <1>1, <1>3
  <2>1. left * step <= x * step /\ left * step = step * left
    BY <1>1, <1>2, <1>3, MultipleLemma
  <2>2. x * step \in Nat /\ left * step \in Nat
    BY <1>1, <1>2, <1>3
  <2> QED
    BY <1>1, <1>2, <1>3, <2>1, <2>2
<1>5. Pick(k, r) = k + x
  BY DEF Pick, x, step, left, n
<1> QED
  BY <1>3, <1>4, <1>5, ConstantsLemma DEF left

-----------------------------------------------------------------------------
(* The invariant.  The order is a permutation of the samples.  While the   *)
(* minibatches of an epoch are taken, the samples used are the first i of  *)
(* the order; i is at the end of a minibatch, or inside the next one.      *)

Places == 0..(n - 1)

Permutation(f) ==
  /\ f \in [Places -> Places]
  /\ \A a, b \in Places : f[a] = f[b] => a = b
  /\ \A v \in Places : \E a \in Places : f[a] = v

AtMultiple(j) == \E k \in 0..(n \div m) : j = k * m
InBatch(j)    == \E k \in 0..((n \div m) - 1) : j >= k * m /\ j < k * m + m

SampleInv ==
  /\ Permutation(training_map)
  /\ epoch \in Nat /\ i \in Nat /\ pc \in {"shuffle", "batch", "sample", "update"}
  /\ used \in Seq(Places)
  /\ \A a, b \in 1..Len(used) : used[a] = used[b] => a = b
  /\ pc # "shuffle" => Len(used) = i /\ \A a \in 1..i : a - 1 \in Places
                                                      /\ used[a] = training_map[a - 1]
  /\ pc \in {"batch", "update"} => AtMultiple(i)
  /\ pc = "sample" => InBatch(i)
  /\ pc = "shuffle" /\ i = 0 /\ epoch > 0 => Len(used) = (n \div m) * m

LEMMA SwapLemma ==
  ASSUME NEW f, Permutation(f), NEW a \in Places, NEW b \in Places
  PROVE  Permutation([f EXCEPT ![b] = f[a], ![a] = f[b]])
<1> DEFINE g == [f EXCEPT ![b] = f[a], ![a] = f[b]]
<1>1. f \in [Places -> Places]
  BY DEF Permutation
<1>2. /\ g \in [Places -> Places] /\ g[a] = f[b] /\ g[b] = f[a]
      /\ \A c \in Places : c # a /\ c # b => g[c] = f[c]
  BY <1>1
<1> HIDE DEF g
<1>3. ASSUME NEW c \in Places, NEW d \in Places, g[c] = g[d]
      PROVE  c = d
  BY <1>2, <1>3 DEF Permutation
<1>4. ASSUME NEW v \in Places
      PROVE  \E c \in Places : g[c] = v
  <2>1. PICK c \in Places : f[c] = v
    BY DEF Permutation
  <2> QED
    BY <1>2, <2>1
<1>5. Permutation(g)
  BY <1>2, <1>3, <1>4 DEF Permutation
<1> QED
  BY <1>5 DEF g

LEMMA InitLemma == Init => SampleInv
<1> SUFFICES ASSUME Init PROVE SampleInv
  OBVIOUS
<1>1. Permutation(training_map)
  BY DEF Init, Permutation, Places, n
<1>2. used = <<>> /\ epoch = 0 /\ i = 0 /\ pc = "shuffle"
  BY DEF Init
<1>3. used \in Seq(Places) /\ Len(used) = 0
  BY <1>2
<1> QED
  BY <1>1, <1>2, <1>3 DEF SampleInv

LEMMA ShuffleStep ==
  ASSUME SampleInv, NEW r \in 0..RAND_MAX, Shuffle(r)
  PROVE  SampleInv'
<1>1. i \in Nat /\ i < n /\ i' = i + 1 /\ UNCHANGED <<epoch, pc, used>> /\ pc = "shuffle"
  BY ConstantsLemma DEF Shuffle, SampleInv, n
<1>2. Permutation(training_map)
  BY DEF SampleInv
<1>3. Pick(i, r) \in Places /\ i \in Places
  BY <1>1, PickLemma, ConstantsLemma DEF Places
<1>4. training_map' = [training_map EXCEPT ![Pick(i, r)] = training_map[i],
                                           ![i] = training_map[Pick(i, r)]]
  BY Zenon DEF Shuffle
<1>5. Permutation(training_map')
  BY <1>2, <1>3, <1>4, SwapLemma, Zenon
<1>6. i' \in Nat /\ i' # 0
  BY <1>1
<1> QED
  BY <1>1, <1>5, <1>6 DEF SampleInv

LEMMA EndShuffleStep ==
  ASSUME SampleInv, EndShuffle
  PROVE  SampleInv'
<1>1. /\ pc' = "batch" /\ i' = 0 /\ used' = <<>> /\ UNCHANGED <<training_map, epoch>>
  BY DEF EndShuffle
<1>2. used' \in Seq(Places) /\ Len(used') = 0
  BY <1>1
<1>3. AtMultiple(0)
  <2>1. 0 \in 0..(n \div m) /\ 0 = 0 * m
    BY ConstantsLemma, DivLemma
  <2> QED
    BY <2>1 DEF AtMultiple
<1> QED
  BY <1>1, <1>2, <1>3 DEF SampleInv

(* The number of minibatches done.                                         *)
LEMMA BatchesLemma ==
  ASSUME NEW k \in Nat
  PROVE  (k * m) \div m = k
<1>1. 0 \in 0..(m - 1) /\ m \in Nat \ {0}
  BY ConstantsLemma
<1>2. (k * m + 0) \div m = k
  BY <1>1, DivIsLemma
<1>3. k * m \in Nat
  BY <1>1
<1> QED
  BY <1>2, <1>3

LEMMA BeginBatchStep ==
  ASSUME SampleInv, BeginBatch
  PROVE  SampleInv'
<1>1. /\ pc = "batch" /\ pc' = "sample" /\ i \div m < n \div m
      /\ UNCHANGED <<training_map, epoch, i, used>>
  BY DEF BeginBatch, MoreBatches, n, m
<1>2. PICK k \in 0..(n \div m) : i = k * m
  BY <1>1 DEF SampleInv, AtMultiple
<1>3. n \div m \in Nat /\ m \in Nat \ {0} /\ k \in Nat
  BY ConstantsLemma, DivLemma
<1>4. k < n \div m
  BY <1>1, <1>2, <1>3, BatchesLemma
<1>5. InBatch(i)
  <2>1. k \in 0..((n \div m) - 1) /\ k * m \in Nat
    BY <1>3, <1>4
  <2> QED
    BY <1>2, <1>3, <2>1 DEF InBatch
<1> QED
  BY <1>1, <1>5 DEF SampleInv

LEMMA SampleStep ==
  ASSUME SampleInv, Sample
  PROVE  SampleInv'
<1>1. /\ pc = "sample" /\ i' = i + 1 /\ used' = Append(used, training_map[i])
      /\ pc' = (IF (i + 1) % m = 0 THEN "update" ELSE "sample")
      /\ UNCHANGED <<training_map, epoch>>
  BY DEF Sample, m
<1>2. /\ Permutation(training_map) /\ i \in Nat /\ used \in Seq(Places) /\ Len(used) = i
      /\ \A a \in 1..i : a - 1 \in Places /\ used[a] = training_map[a - 1]
      /\ \A a, b \in 1..Len(used) : used[a] = used[b] => a = b
      /\ epoch \in Nat
  BY <1>1 DEF SampleInv
<1>3. PICK k \in 0..((n \div m) - 1) : i >= k * m /\ i < k * m + m
  BY <1>1 DEF SampleInv, InBatch
<1>4. n \div m \in Nat /\ m \in Nat \ {0} /\ k \in Nat /\ n \in Nat /\ k + 1 \in 0..(n \div m)
  BY ConstantsLemma, DivLemma
<1>5. k * m \in Nat /\ (k + 1) * m = k * m + m
  BY <1>4, MultipleLemma
<1>6. i < n
  <2> DEFINE q == n \div m
  <2>1. (k + 1) * m <= q * m
    BY <1>4, MultipleLemma
  <2>2. q * m <= n
    <3> DEFINE z == n % m
    <3>1. q \in Nat /\ z \in 0..(m - 1) /\ n = q * m + z
      BY <1>4, DivLemma
    <3> HIDE DEF q, z
    <3>2. q * m \in Nat
      BY <1>4, <3>1
    <3> QED
      BY <1>4, <3>1, <3>2
  <2>3. q * m \in Nat
    BY <1>4
  <2> DEFINE c == k * m
             e == q * m
  <2>4. c \in Nat /\ e \in Nat /\ c + m <= e /\ e <= n /\ i < c + m
    BY <1>3, <1>5, <2>1, <2>2, <2>3
  <2> HIDE DEF c, e
  <2> QED
    BY <1>2, <1>4, <2>4
<1>7. i \in Places /\ training_map[i] \in Places
  BY <1>2, <1>4, <1>6 DEF Places, Permutation
<1>8. /\ used' \in Seq(Places) /\ Len(used') = i + 1
      /\ used'[i + 1] = training_map[i]
      /\ \A a \in 1..i : used'[a] = used[a]
  BY <1>1, <1>2, <1>7, AppendProperties
<1>9. \A a \in 1..(i + 1) : a - 1 \in Places /\ used'[a] = training_map[a - 1]
  BY <1>2, <1>7, <1>8
<1>10. \A a, b \in 1..(i + 1) : used'[a] = used'[b] => a = b
  <2> SUFFICES ASSUME NEW a \in 1..(i + 1), NEW b \in 1..(i + 1), used'[a] = used'[b]
               PROVE  a = b
    OBVIOUS
  <2>1. training_map[a - 1] = training_map[b - 1] /\ a - 1 \in Places /\ b - 1 \in Places
    BY <1>9
  <2>2. a - 1 = b - 1
    BY <1>2, <2>1, Zenon DEF Permutation
  <2> QED
    BY <1>2, <2>2
<1>11. CASE i + 1 = k * m + m
  <2>1. 0 \in 0..(m - 1)
    BY <1>4
  <2>2. ((k + 1) * m + 0) % m = 0
    BY <1>4, <2>1, DivIsLemma
  <2>3. (i + 1) % m = 0
    BY <1>4, <1>5, <1>11, <2>2
  <2>4. AtMultiple(i + 1)
    BY <1>4, <1>5, <1>11 DEF AtMultiple
  <2> QED
    BY <1>1, <1>2, <1>8, <1>9, <1>10, <2>3, <2>4 DEF SampleInv
<1>12. CASE i + 1 # k * m + m
  <2> DEFINE r == i + 1 - k * m
  <2>1. r \in 0..(m - 1) /\ r # 0 /\ i + 1 = k * m + r
    BY <1>2, <1>3, <1>4, <1>5, <1>12
  <2> HIDE DEF r
  <2>2. (k * m + r) % m = r
    BY <1>4, <2>1, DivIsLemma
  <2>3. (i + 1) % m # 0
    BY <2>1, <2>2
  <2>4. InBatch(i + 1)
    BY <1>2, <1>3, <1>4, <1>5, <1>12 DEF InBatch
  <2> QED
    BY <1>1, <1>2, <1>8, <1>9, <1>10, <2>3, <2>4 DEF SampleInv
<1> QED
  BY <1>11, <1>12

LEMMA UpdateStep ==
  ASSUME SampleInv, Update
  PROVE  SampleInv'
<1>1. /\ pc = "update" /\ pc' = "batch" /\ UNCHANGED <<training_map, epoch, i, used>>
  BY DEF Update
<1> QED
  BY <1>1 DEF SampleInv

LEMMA EndEpochStep ==
  ASSUME SampleInv, EndEpoch
  PROVE  SampleInv'
<1>1. /\ pc = "batch" /\ pc' = "shuffle" /\ ~ (i \div m < n \div m) /\ epoch' = epoch + 1
      /\ i' = 0 /\ UNCHANGED <<training_map, used>>
  BY DEF EndEpoch, MoreBatches, n, m
<1>2. PICK k \in 0..(n \div m) : i = k * m
  BY <1>1 DEF SampleInv, AtMultiple
<1>3. n \div m \in Nat /\ k \in Nat
  BY ConstantsLemma, DivLemma
<1>4. k = n \div m
  BY <1>1, <1>2, <1>3, BatchesLemma
<1>5. Len(used) = (n \div m) * m
  BY <1>1, <1>2, <1>4 DEF SampleInv
<1>6. epoch' \in Nat /\ i' \in Nat
  BY <1>1 DEF SampleInv
<1> QED
  BY <1>1, <1>5, <1>6 DEF SampleInv

LEMMA InductionStep == SampleInv /\ [Next]_vars => SampleInv'
<1>1. SampleInv /\ UNCHANGED vars => SampleInv'
  BY DEF SampleInv, vars
<1> QED
  BY <1>1, ShuffleStep, EndShuffleStep, BeginBatchStep, SampleStep, UpdateStep, EndEpochStep
     DEF Next

(* The invariant of the loops of the training.                             *)
THEOREM SampleInvariant == Spec => []SampleInv
BY InitLemma, InductionStep, PTL DEF Spec

(* network.c, SGD and shuffle: no sample is trained on twice in an epoch,  *)
(* and none is left out but those that do not fill a minibatch, for any    *)
(* sizes and any RAND_MAX.                                                 *)
THEOREM EachSampleOnceTheorem == Spec => []EachSampleOnce
<1>1. SampleInv => EachSampleOnce
  <2> SUFFICES ASSUME SampleInv PROVE EachSampleOnce
    OBVIOUS
  <2>1. {training_map[k] : k \in DOMAIN training_map} = 0..(training_size - 1)
    BY DEF SampleInv, Permutation, Places, n
  <2>2. Cardinality({used[a] : a \in DOMAIN used}) = Len(used)
    <3> DEFINE T == {used[a] : a \in DOMAIN used}
    <3>1. used \in Seq(Places) /\ DOMAIN used = 1..Len(used) /\ Len(used) \in Nat
      BY DEF SampleInv
    <3>2. used \in Bijection(1..Len(used), T)
      <4>1. used = [a \in DOMAIN used |-> used[a]]
        BY <3>1
      <4> QED
        BY <3>1, <4>1 DEF SampleInv, Bijection, Injection, Surjection, IsInjective
    <3>3. IsFiniteSet(1..Len(used)) /\ Cardinality(1..Len(used)) = Len(used)
      BY <3>1, FS_Interval
    <3> HIDE DEF T
    <3>4. Cardinality(T) = Cardinality(1..Len(used))
      BY <3>2, <3>3, FS_Bijection DEF ExistsBijection
    <3> QED
      BY <3>3, <3>4 DEF T
  <2>3. (n \div m) * m = n - (n % m)
    <3> DEFINE q == n \div m
               z == n % m
    <3>1. q \in Nat /\ z \in 0..(m - 1) /\ n = q * m + z /\ m \in Nat
      BY ConstantsLemma, DivLemma
    <3> HIDE DEF q, z
    <3>2. q * m \in Nat
      BY <3>1
    <3>3. q * m = n - z
      BY <3>1, <3>2
    <3> QED
      BY <3>3 DEF q, z
  <2> QED
    BY <2>1, <2>2, <2>3 DEF EachSampleOnce, SampleInv, n, m
<1> QED
  BY <1>1, SampleInvariant, PTL

-----------------------------------------------------------------------------
(* Numbers modulo P.                                                       *)

LEMMA PLemma == P \in Int /\ P > 1 /\ P \in Nat /\ Words = 0..(P - 1)
<1>1. P \in Nat \ {0, 1}
  BY TrainingAssumption, Zenon
<1> QED
  BY <1>1 DEF Words

LEMMA ModLemma ==
  ASSUME NEW a \in Int
  PROVE  a % P \in Words /\ a % P \in Int /\ a \div P \in Int /\ a = (a \div P) * P + (a % P)
BY PLemma

LEMMA ModIsLemma ==
  ASSUME NEW q \in Int, NEW r \in Words
  PROVE  (q * P + r) % P = r
<1>1. \A x, p, y \in Int : p > 1 /\ y \in 0..(p - 1) => (x * p + y) % p = y
  OBVIOUS
<1> QED
  BY <1>1, PLemma

LEMMA ModAddLemma ==
  ASSUME NEW a \in Int, NEW b \in Int
  PROVE  ((a % P) + b) % P = (a + b) % P
<1> DEFINE q == a \div P
           r == a % P
           q2 == (r + b) \div P
           r2 == (r + b) % P
<1>1. P \in Int /\ r \in Int /\ q \in Int /\ a = q * P + r
  BY ModLemma, PLemma
<1>2. r + b \in Int
  BY <1>1
<1>3. q2 \in Int /\ r2 \in Words /\ r2 \in Int /\ r + b = q2 * P + r2
  BY <1>2, ModLemma
<1> HIDE DEF q, q2, r, r2
<1>4. a + b = (q + q2) * P + r2
  BY <1>1, <1>3
<1>5. q + q2 \in Int
  BY <1>1, <1>3
<1>6. (a + b) % P = r2
  BY <1>3, <1>4, <1>5, ModIsLemma
<1> QED
  BY <1>6 DEF r, r2

LEMMA ModMulLemma ==
  ASSUME NEW a \in Int, NEW b \in Int
  PROVE  ((a % P) * b) % P = (a * b) % P
<1> DEFINE q == a \div P
           r == a % P
           q2 == (r * b) \div P
           r2 == (r * b) % P
<1>1. P \in Int /\ r \in Int /\ q \in Int /\ a = q * P + r
  BY ModLemma, PLemma
<1>2. r * b \in Int
  BY <1>1
<1>3. q2 \in Int /\ r2 \in Words /\ r2 \in Int /\ r * b = q2 * P + r2
  BY <1>2, ModLemma
<1> HIDE DEF q, q2, r, r2
<1>4. a * b = (q * b + q2) * P + r2
  <2>1. a * b = (q * P + r) * b
    BY <1>1
  <2>2. (q * P + r) * b = (q * b) * P + r * b
    BY <1>1
  <2>3. q * b \in Int
    BY <1>1
  <2>4. (q * b) * P + (q2 * P + r2) = (q * b + q2) * P + r2
    BY <1>1, <1>3, <2>3
  <2> QED
    BY <1>3, <2>1, <2>2, <2>4
<1>5. q * b + q2 \in Int
  BY <1>1, <1>3
<1>6. (a * b) % P = r2
  BY <1>3, <1>4, <1>5, ModIsLemma
<1> QED
  BY <1>6 DEF r, r2

LEMMA ModSumLemma ==
  ASSUME NEW a \in Int, NEW b \in Int, NEW c \in Int, NEW d \in Int,
         a % P = c % P, b % P = d % P
  PROVE  (a + b) % P = (c + d) % P
<1> DEFINE r == c % P
           s == d % P
<1>1. r \in Int /\ s \in Int /\ a % P = r /\ b % P = s
  BY ModLemma
<1>2. (a + b) % P = (r + b) % P /\ (c + d) % P = (r + d) % P
  BY <1>1, ModAddLemma
<1> HIDE DEF r
<1>3. r + b = b + r /\ r + d = d + r
  BY <1>1
<1>4. (b + r) % P = (s + r) % P /\ (d + r) % P = (s + r) % P
  BY <1>1, ModAddLemma
<1> QED
  BY <1>2, <1>3, <1>4

LEMMA ModProductLemma ==
  ASSUME NEW a \in Int, NEW b \in Int, NEW c \in Int, NEW d \in Int,
         a % P = c % P, b % P = d % P
  PROVE  (a * b) % P = (c * d) % P
<1> DEFINE r == c % P
           s == d % P
<1>1. r \in Int /\ s \in Int /\ a % P = r /\ b % P = s
  BY ModLemma
<1>2. (a * b) % P = (r * b) % P /\ (c * d) % P = (r * d) % P
  BY <1>1, ModMulLemma
<1> HIDE DEF r
<1>3. r * b = b * r /\ r * d = d * r
  BY <1>1
<1>4. (b * r) % P = (s * r) % P /\ (d * r) % P = (s * r) % P
  BY <1>1, ModMulLemma
<1> QED
  BY <1>2, <1>3, <1>4

LEMMA ModTwiceLemma == ASSUME NEW a \in Int PROVE (a % P) % P = a % P
<1>1. \A x, p \in Int : p > 1 => (x % p) % p = x % p
  OBVIOUS
<1> QED
  BY <1>1, PLemma

-----------------------------------------------------------------------------
(* Induction on numbers and on finite sets, for a set of the things that   *)
(* have the property.                                                      *)

LEMMA LeastLemma ==
  ASSUME NEW S \in SUBSET Nat, S # {}
  PROVE  \E x \in S : \A y \in S : x <= y
<1> DEFINE R == {ss \in Nat \X Nat : ss[1] < ss[2]}
<1>1. IsWellFoundedOn(R, Nat)
  BY NatLessThanWellFounded, Zenon DEF OpToRel
<1> HIDE DEF R
<1>2. PICK x \in S : \A y \in S : ~ (<<y, x>> \in R)
  BY <1>1, WFMin, Zenon
<1>3. \A y \in S : x <= y
  <2> TAKE y \in S
  <2>1. <<y, x>> \notin R /\ x \in Nat /\ y \in Nat
    BY <1>2
  <2>2. y < x => <<y, x>> \in R
    BY <2>1 DEF R
  <2> QED
    BY <2>1, <2>2
<1> QED
  BY <1>3

LEMMA UpToLemma ==
  ASSUME NEW c \in Nat, NEW G, 0 \in G, \A j \in 0..(c - 1) : j \in G => j + 1 \in G
  PROVE  \A j \in 0..c : j \in G
<1> DEFINE B == {j \in 0..c : j \notin G}
<1> SUFFICES ASSUME B # {} PROVE FALSE
  OBVIOUS
<1>1. B \in SUBSET Nat
  OBVIOUS
<1>2. PICK j \in B : \A h \in B : j <= h
  BY <1>1, LeastLemma
<1>3. j \in 0..c /\ j \notin G /\ j # 0
  OBVIOUS
<1>4. j - 1 \in 0..(c - 1) /\ (j - 1) + 1 = j /\ j - 1 \in 0..c /\ ~ (j <= j - 1)
  BY <1>3
<1>5. j - 1 \in G
  BY <1>2, <1>4
<1> QED
  BY <1>3, <1>4, <1>5

LEMMA GrowLemma ==
  ASSUME NEW S, IsFiniteSet(S), NEW G, {} \in G,
         \A T \in SUBSET S : T # {} /\ (\A x \in T : T \ {x} \in G) => T \in G
  PROVE  S \in G
<1> DEFINE B == {Cardinality(T) : T \in {U \in SUBSET S : U \notin G}}
<1> SUFFICES ASSUME S \notin G PROVE FALSE
  OBVIOUS
<1>1. \A T \in SUBSET S : IsFiniteSet(T) /\ Cardinality(T) \in Nat
  BY FS_Subset, FS_CardinalityType
<1>2. B \in SUBSET Nat /\ B # {}
  BY <1>1
<1>3. PICK c \in B : \A d \in B : c <= d
  BY <1>2, LeastLemma
<1>4. PICK T \in SUBSET S : T \notin G /\ c = Cardinality(T)
  BY <1>3
<1>5. T # {}
  BY <1>4
<1>6. ASSUME NEW x \in T PROVE T \ {x} \in G
  <2>1. T \ {x} \in SUBSET S /\ Cardinality(T \ {x}) = c - 1 /\ c \in Nat
    BY <1>1, <1>4, FS_RemoveElement
  <2> SUFFICES ASSUME T \ {x} \notin G PROVE FALSE
    OBVIOUS
  <2>2. c - 1 \in B
    BY <2>1
  <2>3. c <= c - 1
    BY <1>3, <2>2
  <2> QED
    BY <2>1, <2>3
<1> QED
  BY <1>4, <1>5, <1>6

(* Sums over finite sets: the fold of the library picks the elements in an *)
(* order of its own, and every order gives the same.                       *)

IsFold(f, S, s) ==
  s = [T \in SUBSET S |-> IF T = {} THEN 0
                          ELSE f[CHOOSE x \in T : TRUE] + s[T \ {CHOOSE x \in T : TRUE}]]
FoldOf(f, S) == CHOOSE s : IsFold(f, S, s)
Total(f, S)  == FoldOf(f, S)[S]

LEMMA SumIsTotal == ASSUME NEW f, NEW S PROVE Sum(f, S) = Total(f, S) % P
BY DEF Sum, MapThenSumSet, MapThenFoldSet, FoldOf, IsFold, Total

First(T) == CHOOSE x \in T : TRUE
LEMMA FirstLemma == ASSUME NEW T, T # {} PROVE First(T) \in T
BY DEF First

LEMMA FoldLemma ==
  ASSUME NEW f, NEW S, NEW s, IsFold(f, S, s)
  PROVE  /\ s[{}] = 0
         /\ \A T \in SUBSET S : T # {} => s[T] = f[First(T)] + s[T \ {First(T)}]
<1>1. \A T \in SUBSET S :
        s[T] = IF T = {} THEN 0
               ELSE f[CHOOSE x \in T : TRUE] + s[T \ {CHOOSE x \in T : TRUE}]
  BY Zenon DEF IsFold
<1> QED
  BY <1>1, Zenon DEF First

LEMMA FoldsAgree ==
  ASSUME NEW f, NEW S, IsFiniteSet(S), NEW A, NEW B, NEW s, NEW u,
         IsFold(f, A, s), IsFold(f, B, u), S \subseteq A, S \subseteq B
  PROVE  s[S] = u[S]
<1> DEFINE G == {T \in SUBSET S : s[T] = u[T]}
<1>1. {} \in G
  BY FoldLemma
<1>2. ASSUME NEW T \in SUBSET S, T # {}, \A x \in T : T \ {x} \in G PROVE T \in G
  <2>1. T \in SUBSET A /\ T \in SUBSET B /\ First(T) \in T
    BY <1>2, FirstLemma
  <2>2. s[T \ {First(T)}] = u[T \ {First(T)}]
    BY <1>2, <2>1
  <2>3. s[T] = f[First(T)] + s[T \ {First(T)}]
    BY <1>2, <2>1, FoldLemma
  <2>4. u[T] = f[First(T)] + u[T \ {First(T)}]
    BY <1>2, <2>1, FoldLemma
  <2> QED
    BY <2>2, <2>3, <2>4
<1> HIDE DEF G
<1>3. S \in G
  BY <1>1, <1>2, GrowLemma
<1> QED
  BY <1>3 DEF G

LEMMA FoldsExist ==
  ASSUME NEW f, NEW S, IsFiniteSet(S)
  PROVE  IsFold(f, S, FoldOf(f, S))
<1> DEFINE G == {T \in SUBSET S : \E s : IsFold(f, T, s)}
<1>1. {} \in G
  <2> DEFINE s == [T \in SUBSET {} |-> 0]
  <2>1. \A T \in SUBSET {} : T = {}
    OBVIOUS
  <2>2. s = [T \in SUBSET {} |-> IF T = {} THEN 0
                 ELSE f[CHOOSE x \in T : TRUE] + s[T \ {CHOOSE x \in T : TRUE}]]
    BY <2>1
  <2> HIDE DEF s
  <2>3. IsFold(f, {}, s)
    BY <2>2, Zenon DEF IsFold
  <2> QED
    BY <2>3
<1>2. ASSUME NEW T \in SUBSET S, T # {}, \A x \in T : T \ {x} \in G PROVE T \in G
  <2> DEFINE g(x) == FoldOf(f, T \ {x})
             s(U) == IF U = T THEN f[First(T)] + g(First(T))[T \ {First(T)}]
                     ELSE g(CHOOSE x \in T : x \notin U)[U]
  <2>1. ASSUME NEW x \in T PROVE IsFold(f, T \ {x}, g(x))
    BY <1>2, Zenon DEF FoldOf
  <2> HIDE DEF g
  <2>2. ASSUME NEW U \in SUBSET T, NEW x \in T, x \notin U PROVE s(U) = g(x)[U]
    <3> DEFINE y == CHOOSE y \in T : y \notin U
    <3>1. y \in T /\ y \notin U /\ U # T
      BY <2>2
    <3>2. IsFiniteSet(U)
      BY FS_Subset
    <3> HIDE DEF y
    <3>3. U \subseteq T \ {x} /\ U \subseteq T \ {y}
      BY <2>2, <3>1
    <3>4. IsFold(f, T \ {x}, g(x)) /\ IsFold(f, T \ {y}, g(y))
      BY <2>1, <3>1
    <3>5. g(y)[U] = g(x)[U]
      BY <3>2, <3>3, <3>4, FoldsAgree
    <3> QED
      BY <3>1, <3>5 DEF y
  <2>3. ASSUME NEW U \in SUBSET T
        PROVE  s(U) = IF U = {} THEN 0 ELSE f[First(U)] + s(U \ {First(U)})
    <3>1. CASE U = T
      <4>1. First(T) \in T /\ s(T) = f[First(T)] + g(First(T))[T \ {First(T)}]
        BY <1>2, FirstLemma
      <4>2. T \ {First(T)} \in SUBSET T /\ First(T) \notin T \ {First(T)}
        OBVIOUS
      <4> HIDE DEF s
      <4>3. s(T \ {First(T)}) = g(First(T))[T \ {First(T)}]
        BY <2>2, <4>1, <4>2
      <4> QED
        BY <1>2, <3>1, <4>1, <4>3
    <3>2. CASE U # T
      <4>1. PICK x \in T : x \notin U
        BY <3>2
      <4> HIDE DEF s
      <4>2. s(U) = g(x)[U] /\ IsFold(f, T \ {x}, g(x)) /\ U \in SUBSET (T \ {x})
        BY <2>1, <2>2, <4>1
      <4>3. CASE U = {}
        BY <4>2, <4>3, FoldLemma
      <4>4. CASE U # {}
        <5>1. First(U) \in U /\ U \ {First(U)} \in SUBSET T /\ x \notin U \ {First(U)}
          BY <4>1, <4>4, FirstLemma
        <5>2. s(U \ {First(U)}) = g(x)[U \ {First(U)}]
          BY <2>2, <4>1, <5>1
        <5>3. g(x)[U] = f[First(U)] + g(x)[U \ {First(U)}]
          BY <4>2, <4>4, FoldLemma
        <5> QED
          BY <4>2, <4>4, <5>2, <5>3
      <4> QED
        BY <4>3, <4>4
    <3> QED
      BY <3>1, <3>2
  <2> HIDE DEF s
  <2> DEFINE t == [U \in SUBSET T |-> s(U)]
  <2>4. \A U \in SUBSET T : U # {} => U \ {First(U)} \in SUBSET T
    OBVIOUS
  <2>5. \A U \in SUBSET T : t[U] = IF U = {} THEN 0
                                   ELSE f[First(U)] + t[U \ {First(U)}]
    BY <2>3, <2>4
  <2>6. t = [U \in SUBSET T |-> t[U]]
    OBVIOUS
  <2> HIDE DEF t
  <2>7. t = [U \in SUBSET T |-> IF U = {} THEN 0 ELSE f[First(U)] + t[U \ {First(U)}]]
    BY <2>5, <2>6
  <2>8. IsFold(f, T, t)
    BY <2>7, Zenon DEF IsFold, First
  <2> QED
    BY <2>8
<1> HIDE DEF G
<1>3. S \in G
  BY <1>1, <1>2, GrowLemma
<1> QED
  BY <1>3, Zenon DEF G, FoldOf

LEMMA TotalFirstLemma ==
  ASSUME NEW f, NEW S, IsFiniteSet(S)
  PROVE  IF S = {} THEN Total(f, S) = 0
         ELSE Total(f, S) = f[First(S)] + Total(f, S \ {First(S)})
<1>1. IsFold(f, S, FoldOf(f, S))
  BY FoldsExist
<1>2. CASE S = {}
  <2>1. FoldOf(f, S)[{}] = 0
    BY <1>1, FoldLemma
  <2> QED
    BY <1>2, <2>1 DEF Total
<1>3. CASE S # {}
  <2> DEFINE T == S \ {First(S)}
  <2>1. IsFiniteSet(T)
    BY FS_RemoveElement, FS_Subset
  <2>2. IsFold(f, T, FoldOf(f, T))
    BY <2>1, FoldsExist
  <2>3. FoldOf(f, S)[T] = FoldOf(f, T)[T]
    <3>1. T \subseteq S /\ T \subseteq T
      OBVIOUS
    <3> HIDE DEF T
    <3> QED
      BY <1>1, <2>1, <2>2, <3>1, FoldsAgree
  <2>4. FoldOf(f, S)[S] = f[First(S)] + FoldOf(f, S)[T]
    BY <1>1, <1>3, FoldLemma
  <2> HIDE DEF T
  <2>5. Total(f, S) = f[First(S)] + Total(f, T)
    BY <2>3, <2>4 DEF Total
  <2> QED
    BY <1>3, <2>5 DEF T
<1> QED
  BY <1>2, <1>3

-----------------------------------------------------------------------------
IntsOn(f, S) == \A x \in S : f[x] \in Int

LEMMA TotalEmptyLemma == ASSUME NEW f PROVE Total(f, {}) = 0
BY TotalFirstLemma, FS_EmptySet

LEMMA TotalIntLemma ==
  ASSUME NEW f, NEW S, IsFiniteSet(S), IntsOn(f, S)
  PROVE  Total(f, S) \in Int
<1> DEFINE G == {T \in SUBSET S : Total(f, T) \in Int}
<1>1. {} \in G
  BY TotalEmptyLemma
<1>2. ASSUME NEW T \in SUBSET S, T # {}, \A x \in T : T \ {x} \in G PROVE T \in G
  <2>1. IsFiniteSet(T) /\ First(T) \in T /\ f[First(T)] \in Int
    BY <1>2, FS_Subset, FirstLemma DEF IntsOn
  <2>2. Total(f, T \ {First(T)}) \in Int
    BY <1>2, <2>1
  <2>3. Total(f, T) = f[First(T)] + Total(f, T \ {First(T)})
    BY <1>2, <2>1, TotalFirstLemma
  <2> QED
    BY <2>1, <2>2, <2>3
<1> HIDE DEF G
<1>3. S \in G
  BY <1>1, <1>2, GrowLemma
<1> QED
  BY <1>3 DEF G

(* Any element can be taken out of a sum first.                            *)
LEMMA TotalTakeLemma ==
  ASSUME NEW f, NEW S, IsFiniteSet(S), IntsOn(f, S), NEW z \in S
  PROVE  Total(f, S) = f[z] + Total(f, S \ {z})
<1> DEFINE Takes(T) == \A x \in T : Total(f, T) = f[x] + Total(f, T \ {x})
           G == {T \in SUBSET S : Takes(T)}
<1>0. \A T \in SUBSET S : IsFiniteSet(T) /\ IntsOn(f, T) /\ Total(f, T) \in Int
  BY FS_Subset, TotalIntLemma DEF IntsOn
<1>1. {} \in G
  OBVIOUS
<1>2. ASSUME NEW T \in SUBSET S, T # {}, \A x \in T : T \ {x} \in G PROVE T \in G
  <2> SUFFICES ASSUME NEW x \in T PROVE Total(f, T) = f[x] + Total(f, T \ {x})
    BY <1>2
  <2> DEFINE c == First(T)
  <2>1. c \in T /\ Total(f, T) = f[c] + Total(f, T \ {c})
    BY <1>0, <1>2, FirstLemma, TotalFirstLemma
  <2> HIDE DEF c
  <2>2. CASE x = c
    BY <2>1, <2>2
  <2>3. CASE x # c
    <3>1. x \in T \ {c} /\ c \in T \ {x} /\ (T \ {c}) \ {x} = (T \ {x}) \ {c}
      BY <2>1, <2>3
    <3>2. Takes(T \ {c}) /\ Takes(T \ {x})
      BY <1>2, <2>1
    <3>3. Total(f, T \ {c}) = f[x] + Total(f, (T \ {c}) \ {x})
      BY <3>1, <3>2
    <3>4. Total(f, T \ {x}) = f[c] + Total(f, (T \ {c}) \ {x})
      BY <3>1, <3>2
    <3>5. (T \ {c}) \ {x} \in SUBSET S /\ f[x] \in Int /\ f[c] \in Int
      BY <2>1 DEF IntsOn
    <3>6. Total(f, (T \ {c}) \ {x}) \in Int
      BY <1>0, <3>5
    <3> QED
      BY <2>1, <3>3, <3>4, <3>5, <3>6
  <2> QED
    BY <2>2, <2>3
<1> HIDE DEF G
<1>3. S \in G
  BY <1>1, <1>2, GrowLemma
<1> QED
  BY <1>3 DEF G

LEMMA TotalAddLemma ==
  ASSUME NEW f, NEW g, NEW h, NEW S, IsFiniteSet(S), IntsOn(f, S), IntsOn(g, S),
         \A x \in S : h[x] = f[x] + g[x]
  PROVE  Total(h, S) = Total(f, S) + Total(g, S)
<1> DEFINE G == {T \in SUBSET S : Total(h, T) = Total(f, T) + Total(g, T)}
<1>0. \A T \in SUBSET S : /\ IsFiniteSet(T) /\ Total(f, T) \in Int /\ Total(g, T) \in Int
  BY FS_Subset, TotalIntLemma DEF IntsOn
<1>1. {} \in G
  BY TotalEmptyLemma
<1>2. ASSUME NEW T \in SUBSET S, T # {}, \A x \in T : T \ {x} \in G PROVE T \in G
  <2> DEFINE c == First(T)
             U == T \ {c}
  <2>1. c \in T /\ U \in SUBSET S
    BY <1>2, FirstLemma
  <2>2. /\ Total(f, T) = f[c] + Total(f, U) /\ Total(g, T) = g[c] + Total(g, U)
        /\ Total(h, T) = h[c] + Total(h, U)
    BY <1>0, <1>2, TotalFirstLemma
  <2>3. Total(h, U) = Total(f, U) + Total(g, U)
    BY <1>2, <2>1
  <2>4. h[c] = f[c] + g[c] /\ f[c] \in Int /\ g[c] \in Int
    BY <2>1 DEF IntsOn
  <2>5. Total(f, U) \in Int /\ Total(g, U) \in Int
    BY <1>0, <2>1
  <2> HIDE DEF c, U
  <2> QED
    BY <2>2, <2>3, <2>4, <2>5
<1> HIDE DEF G
<1>3. S \in G
  BY <1>1, <1>2, GrowLemma
<1> QED
  BY <1>3 DEF G

LEMMA TotalScaleLemma ==
  ASSUME NEW f, NEW h, NEW S, IsFiniteSet(S), IntsOn(f, S), NEW w \in Int,
         \A x \in S : h[x] = w * f[x]
  PROVE  Total(h, S) = w * Total(f, S)
<1> DEFINE G == {T \in SUBSET S : Total(h, T) = w * Total(f, T)}
<1>0. \A T \in SUBSET S : IsFiniteSet(T) /\ Total(f, T) \in Int
  BY FS_Subset, TotalIntLemma DEF IntsOn
<1>1. {} \in G
  BY TotalEmptyLemma
<1>2. ASSUME NEW T \in SUBSET S, T # {}, \A x \in T : T \ {x} \in G PROVE T \in G
  <2> DEFINE c == First(T)
             U == T \ {c}
  <2>1. c \in T /\ U \in SUBSET S
    BY <1>2, FirstLemma
  <2>2. Total(f, T) = f[c] + Total(f, U) /\ Total(h, T) = h[c] + Total(h, U)
    BY <1>0, <1>2, TotalFirstLemma
  <2>3. Total(h, U) = w * Total(f, U)
    BY <1>2, <2>1
  <2>4. h[c] = w * f[c] /\ f[c] \in Int
    BY <2>1 DEF IntsOn
  <2>5. Total(f, U) \in Int
    BY <1>0, <2>1
  <2>6. \A a, b \in Int : w * (a + b) = w * a + w * b
    OBVIOUS
  <2> HIDE DEF c, U
  <2>7. w * (f[c] + Total(f, U)) = w * f[c] + w * Total(f, U)
    BY <2>4, <2>5, <2>6
  <2>8. Total(h, T) = w * Total(f, T)
    BY <2>2, <2>3, <2>4, <2>7, Zenon
  <2> QED
    BY <2>8
<1> HIDE DEF G
<1>3. S \in G
  BY <1>1, <1>2, GrowLemma
<1> QED
  BY <1>3 DEF G

(* Sums modulo P depend on the summands modulo P only.                     *)
LEMMA TotalModLemma ==
  ASSUME NEW f, NEW g, NEW S, IsFiniteSet(S), IntsOn(f, S), IntsOn(g, S),
         \A x \in S : f[x] % P = g[x] % P
  PROVE  Total(f, S) % P = Total(g, S) % P
<1> DEFINE G == {T \in SUBSET S : Total(f, T) % P = Total(g, T) % P}
<1>0. \A T \in SUBSET S : IsFiniteSet(T) /\ Total(f, T) \in Int /\ Total(g, T) \in Int
  BY FS_Subset, TotalIntLemma DEF IntsOn
<1>1. {} \in G
  BY TotalEmptyLemma
<1>2. ASSUME NEW T \in SUBSET S, T # {}, \A x \in T : T \ {x} \in G PROVE T \in G
  <2> DEFINE c == First(T)
             U == T \ {c}
  <2>1. c \in T /\ U \in SUBSET S
    BY <1>2, FirstLemma
  <2>2. Total(f, T) = f[c] + Total(f, U) /\ Total(g, T) = g[c] + Total(g, U)
    BY <1>0, <1>2, TotalFirstLemma
  <2>3. Total(f, U) % P = Total(g, U) % P
    BY <1>2, <2>1
  <2>4. f[c] % P = g[c] % P /\ f[c] \in Int /\ g[c] \in Int
    BY <2>1 DEF IntsOn
  <2>5. Total(f, U) \in Int /\ Total(g, U) \in Int
    BY <1>0, <2>1
  <2> HIDE DEF c, U
  <2>6. (f[c] + Total(f, U)) % P = (g[c] + Total(g, U)) % P
    <3> DEFINE x == f[c]
               y == g[c]
               v == Total(f, U)
               w == Total(g, U)
    <3>1. /\ x \in Int /\ y \in Int /\ v \in Int /\ w \in Int
          /\ x % P = y % P /\ v % P = w % P
      BY <2>3, <2>4, <2>5
    <3> HIDE DEF x, y, v, w
    <3>2. (x + v) % P = (y + w) % P
      BY <3>1, ModSumLemma
    <3> QED
      BY <3>2 DEF x, y, v, w
  <2>7. Total(f, T) % P = Total(g, T) % P
    BY <2>2, <2>6, Zenon
  <2> QED
    BY <2>7
<1> HIDE DEF G
<1>3. S \in G
  BY <1>1, <1>2, GrowLemma
<1> QED
  BY <1>3 DEF G

LEMMA TotalSameLemma ==
  ASSUME NEW f, NEW g, NEW S, IsFiniteSet(S), IntsOn(f, S), \A x \in S : f[x] = g[x]
  PROVE  Total(f, S) = Total(g, S)
<1>1. \A x \in S : f[x] = 1 * g[x]
  BY DEF IntsOn
<1>2. IntsOn(g, S)
  BY DEF IntsOn
<1>3. Total(f, S) = 1 * Total(g, S) /\ Total(g, S) \in Int
  BY <1>1, <1>2, TotalScaleLemma, TotalIntLemma
<1> QED
  BY <1>3

LEMMA TotalZeroLemma ==
  ASSUME NEW f, NEW S, IsFiniteSet(S), \A x \in S : f[x] = 0
  PROVE  Total(f, S) = 0
<1>1. \A x \in S : f[x] = 0 * f[x]
  OBVIOUS
<1>2. IntsOn(f, S)
  BY DEF IntsOn
<1>3. Total(f, S) = 0 * Total(f, S) /\ Total(f, S) \in Int
  BY <1>1, <1>2, TotalScaleLemma, TotalIntLemma
<1> QED
  BY <1>3

LEMMA TotalOneLemma ==
  ASSUME NEW f, NEW S, IsFiniteSet(S), NEW z \in S, f[z] \in Int,
         \A x \in S : x # z => f[x] = 0
  PROVE  Total(f, S) = f[z]
<1>1. IntsOn(f, S)
  BY DEF IntsOn
<1>2. Total(f, S) = f[z] + Total(f, S \ {z})
  BY <1>1, TotalTakeLemma
<1>3. IsFiniteSet(S \ {z}) /\ \A x \in S \ {z} : f[x] = 0
  BY FS_RemoveElement
<1>4. Total(f, S \ {z}) = 0
  BY <1>3, TotalZeroLemma
<1> QED
  BY <1>2, <1>4

(* A double sum in either order.                                           *)
LEMMA TotalSwapLemma ==
  ASSUME NEW A, NEW B, IsFiniteSet(A), IsFiniteSet(B), NEW f \in [A -> [B -> Int]]
  PROVE  Total([x \in A |-> Total([y \in B |-> f[x][y]], B)], A)
           = Total([y \in B |-> Total([x \in A |-> f[x][y]], A)], B)
<1> DEFINE row(x) == Total([y \in B |-> f[x][y]], B)
           col(y, T) == Total([x \in A |-> f[x][y]], T)
           r == [x \in A |-> row(x)]
           c(T) == [y \in B |-> col(y, T)]
           G == {T \in SUBSET A : Total(r, T) = Total(c(T), B)}
<1>0. \A T \in SUBSET A : IsFiniteSet(T)
  BY FS_Subset
<1>1. \A x \in A : row(x) \in Int
  <2> TAKE x \in A
  <2>1. IntsOn([y \in B |-> f[x][y]], B)
    BY DEF IntsOn
  <2> QED
    BY <2>1, TotalIntLemma
<1>2. \A y \in B, T \in SUBSET A : col(y, T) \in Int
  <2> TAKE y \in B, T \in SUBSET A
  <2>1. IntsOn([x \in A |-> f[x][y]], T)
    BY DEF IntsOn
  <2> QED
    BY <1>0, <2>1, TotalIntLemma
<1>3. {} \in G
  <2>1. \A y \in B : c({})[y] = 0
    BY TotalEmptyLemma
  <2>2. Total(c({}), B) = 0
    BY <2>1, TotalZeroLemma
  <2> QED
    BY <2>2, TotalEmptyLemma
<1>4. ASSUME NEW T \in SUBSET A, T # {}, \A x \in T : T \ {x} \in G PROVE T \in G
  <2> DEFINE z == First(T)
             U == T \ {z}
             fz == [y \in B |-> f[z][y]]
  <2>1. z \in T /\ U \in SUBSET A /\ z \in A
    BY <1>4, FirstLemma
  <2>2. Total(r, T) = row(z) + Total(r, U)
    <3>1. Total(r, T) = r[z] + Total(r, U)
      BY <1>0, <1>4, TotalFirstLemma
    <3>2. r[z] = row(z)
      BY <2>1
    <3> QED
      BY <3>1, <3>2
  <2>3. Total(r, U) = Total(c(U), B)
    BY <1>4, <2>1
  <2>4. \A y \in B : c(T)[y] = fz[y] + c(U)[y]
    <3> TAKE y \in B
    <3> DEFINE q == [x \in A |-> f[x][y]]
    <3>1. Total(q, T) = q[z] + Total(q, U)
      BY <1>0, <1>4, TotalFirstLemma
    <3>2. q[z] = f[z][y]
      BY <2>1
    <3> QED
      BY <3>1, <3>2
  <2>5. IntsOn(fz, B) /\ IntsOn(c(U), B)
    BY <1>2, <2>1 DEF IntsOn
  <2>6. Total(c(T), B) = Total(fz, B) + Total(c(U), B)
    <3> DEFINE ct == c(T)
               cu == c(U)
    <3>1. IntsOn(fz, B) /\ IntsOn(cu, B) /\ \A y \in B : ct[y] = fz[y] + cu[y]
      BY <2>4, <2>5
    <3> HIDE DEF ct, cu, fz
    <3>2. Total(ct, B) = Total(fz, B) + Total(cu, B)
      BY <3>1, TotalAddLemma
    <3> QED
      BY <3>2 DEF ct, cu
  <2>7. Total(fz, B) = row(z)
    OBVIOUS
  <2> QED
    BY <2>2, <2>3, <2>6, <2>7
<1> HIDE DEF G
<1>5. A \in G
  BY <1>3, <1>4, GrowLemma
<1> QED
  BY <1>5 DEF G

-----------------------------------------------------------------------------
WeightedUp(A, B, e, w, d) ==
  Total([h \in A |-> e[h] * Total([k \in B |-> w[h][k] * d[k]], B)], A)
WeightedDown(A, B, e, w, d) ==
  Total([k \in B |-> Total([h \in A |-> w[h][k] * e[h]], A) * d[k]], B)

(* The chain rule of one layer: a sum of errors times changes is the same  *)
(* on either side of the weights.                                          *)
LEMMA AdjointLemma ==
  ASSUME NEW A, NEW B, IsFiniteSet(A), IsFiniteSet(B),
         NEW e \in [A -> Int], NEW w \in [A -> [B -> Int]], NEW d \in [B -> Int]
  PROVE  WeightedUp(A, B, e, w, d) = WeightedDown(A, B, e, w, d)
<1> DEFINE in(h) == [k \in B |-> w[h][k] * d[k]]
           up(k) == [h \in A |-> w[h][k] * e[h]]
           f == [h \in A |-> [k \in B |-> e[h] * (w[h][k] * d[k])]]
           fh(h) == [k \in B |-> f[h][k]]
           fk(k) == [h \in A |-> f[h][k]]
           r == [h \in A |-> e[h] * Total(in(h), B)]
           r2 == [h \in A |-> Total(fh(h), B)]
           c == [k \in B |-> Total(up(k), A) * d[k]]
           c2 == [k \in B |-> Total(fk(k), A)]
<1>1. \A h \in A, k \in B : w[h][k] \in Int /\ d[k] \in Int /\ e[h] \in Int
  OBVIOUS
<1>2. \A a, b \in Int : a * b \in Int
  OBVIOUS
<1>3. \A h \in A, k \in B : in(h)[k] \in Int /\ up(k)[h] \in Int /\ f[h][k] \in Int
  BY <1>1, <1>2
<1>4. f \in [A -> [B -> Int]]
  BY <1>1, <1>2
<1>5. ASSUME NEW h \in A PROVE Total(in(h), B) \in Int /\ r[h] = Total(fh(h), B) /\ r[h] \in Int
  <2> DEFINE ih == in(h)
             gh == fh(h)
  <2>1. IntsOn(ih, B) /\ \A k \in B : gh[k] = e[h] * ih[k]
    BY <1>3 DEF IntsOn
  <2>2. r[h] = e[h] * Total(ih, B) /\ e[h] \in Int
    OBVIOUS
  <2> HIDE DEF ih, gh, r
  <2>3. Total(gh, B) = e[h] * Total(ih, B) /\ Total(ih, B) \in Int
    BY <2>1, <2>2, TotalScaleLemma, TotalIntLemma
  <2> QED
    BY <1>2, <2>2, <2>3 DEF ih, gh
<1>6. ASSUME NEW k \in B PROVE Total(up(k), A) \in Int /\ c[k] = Total(fk(k), A) /\ c[k] \in Int
  <2> DEFINE uk == up(k)
             gk == fk(k)
  <2>1. IntsOn(uk, A) /\ d[k] \in Int
    BY <1>3 DEF IntsOn
  <2>2. \A h \in A : gk[h] = d[k] * uk[h]
    <3>1. \A x, y, z \in Int : x * (y * z) = z * (y * x)
      OBVIOUS
    <3> QED
      BY <1>1, <3>1
  <2>3. c[k] = Total(uk, A) * d[k]
    OBVIOUS
  <2> HIDE DEF uk, gk, c
  <2>4. Total(gk, A) = d[k] * Total(uk, A) /\ Total(uk, A) \in Int
    BY <2>1, <2>2, TotalScaleLemma, TotalIntLemma
  <2>5. d[k] * Total(uk, A) = Total(uk, A) * d[k]
    BY <2>1, <2>4
  <2> QED
    BY <1>2, <2>1, <2>3, <2>4, <2>5 DEF uk, gk
<1>7. Total(r, A) = Total(r2, A)
  <2>1. IntsOn(r, A) /\ \A h \in A : r[h] = r2[h]
    BY <1>5 DEF IntsOn
  <2> HIDE DEF r, r2
  <2> QED
    BY <2>1, TotalSameLemma
<1>8. Total(c, B) = Total(c2, B)
  <2>1. IntsOn(c, B) /\ \A k \in B : c[k] = c2[k]
    BY <1>6 DEF IntsOn
  <2> HIDE DEF c, c2
  <2> QED
    BY <2>1, TotalSameLemma
<1>9. Total(r2, A) = Total(c2, B)
  <2> HIDE DEF f
  <2> QED
    BY <1>4, TotalSwapLemma
<1> QED
  BY <1>7, <1>8, <1>9 DEF WeightedUp, WeightedDown

-----------------------------------------------------------------------------
(* The network and its values.                                             *)

LEMMA LayersLemma ==
  /\ L \in Nat \ {0} /\ 0 \in 0..L /\ L \in 0..L
  /\ \A l \in 0..L : N(l) \subseteq Nat /\ IsFiniteSet(N(l)) /\ N(l) \subseteq Neurons
<1>1. sizes \in Seq(Nat \ {0}) /\ Len(sizes) > 1
  BY TrainingAssumption, Zenon
<1>2. Len(sizes) \in Nat /\ L \in Nat \ {0}
  <2>1. Len(sizes) \in Nat
    BY <1>1, LenProperties
  <2> QED
    BY <1>1, <2>1 DEF L
<1>3. ASSUME NEW l \in 0..L PROVE N(l) \subseteq Nat /\ IsFiniteSet(N(l)) /\ N(l) \subseteq Neurons
  <2>1. l + 1 \in 1..Len(sizes)
    BY <1>2 DEF L
  <2>2. sizes[l + 1] \in Nat \ {0}
    BY <1>1, <2>1
  <2>3. IsFiniteSet(0..(sizes[l + 1] - 1))
    BY <2>2, FS_Interval
  <2> QED
    BY <2>2, <2>3 DEF N, Neurons
<1> QED
  BY <1>2, <1>3

Vector(l) == [N(l) -> Words]

LEMMA WordsLemma == Words \subseteq Int /\ \A a \in Int : a % P \in Words
<1>1. Words \subseteq Int
  BY PLemma
<1> QED
  BY <1>1, ModLemma

LEMMA DotLemma ==
  ASSUME NEW l \in 0..L, NEW a \in [N(l) -> Int], NEW b \in [N(l) -> Int]
  PROVE  /\ dot(l, a, b) = Total([k \in N(l) |-> a[k] * b[k]], N(l)) % P
         /\ dot(l, a, b) \in Words
<1> DEFINE f == [k \in N(l) |-> a[k] * b[k]]
<1>1. \A x, y \in Int : x * y \in Int
  OBVIOUS
<1>2. IntsOn(f, N(l)) /\ IsFiniteSet(N(l))
  BY <1>1, LayersLemma DEF IntsOn
<1>3. dot(l, a, b) = Total(f, N(l)) % P
  BY SumIsTotal DEF dot
<1> HIDE DEF f
<1>4. Total(f, N(l)) \in Int
  BY <1>2, TotalIntLemma
<1>5. dot(l, a, b) \in Words
  BY <1>3, <1>4, WordsLemma
<1> QED
  BY <1>3, <1>5 DEF f

LEMMA TransposeLemma ==
  ASSUME NEW l \in 0..L, NEW a, NEW k, NEW b, \A j \in N(l) : a[j][k] \in Int /\ b[j] \in Int
  PROVE  /\ dot_transpose(l, k, a, b) = Total([j \in N(l) |-> a[j][k] * b[j]], N(l)) % P
         /\ dot_transpose(l, k, a, b) \in Words
<1> DEFINE f == [j \in N(l) |-> a[j][k] * b[j]]
<1>1. \A x, y \in Int : x * y \in Int
  OBVIOUS
<1>2. IntsOn(f, N(l)) /\ IsFiniteSet(N(l))
  BY <1>1, LayersLemma DEF IntsOn
<1>3. dot_transpose(l, k, a, b) = Total(f, N(l)) % P
  BY SumIsTotal DEF dot_transpose
<1> HIDE DEF f
<1>4. Total(f, N(l)) \in Int
  BY <1>2, TotalIntLemma
<1>5. dot_transpose(l, k, a, b) \in Words
  BY <1>3, <1>4, WordsLemma
<1> QED
  BY <1>3, <1>5 DEF f

LEMMA SquashLemma ==
  ASSUME NEW z \in Words
  PROVE  squash[z] \in Words /\ sigmoid_prime(z) \in Words
<1>1. squash \in [Words -> Words]
  BY TrainingAssumption, Zenon
<1>2. squash[z] \in Words /\ squash[z] \in Int
  BY <1>1, WordsLemma
<1>3. \A x \in Int : x * (1 - x) \in Int
  OBVIOUS
<1> QED
  BY <1>2, <1>3, WordsLemma DEF sigmoid_prime

-----------------------------------------------------------------------------
SampleType == [data : Vector(0), output : Vector(L)]

(* The forward pass up to layer c.                                         *)
Layer(v, l, a) ==
  LET z == [j \in N(l) |-> (dot(l - 1, a, v.w[l][j]) + v.b[l][j]) % P]
  IN  [z |-> z, a |-> [j \in N(l) |-> squash[z[j]]]]
IsForward(v, data, c, g) ==
  g = [l \in 0..c |-> IF l = 0 THEN [z |-> data, a |-> data] ELSE Layer(v, l, g[l - 1].a)]

LEMMA ForwardExists ==
  ASSUME NEW v, NEW data, NEW c \in Nat
  PROVE  \E g : IsForward(v, data, c, g)
<1> DEFINE G == {b \in Nat : \E g : IsForward(v, data, b, g)}
<1>1. 0 \in G
  <2> DEFINE g == [l \in 0..0 |-> [z |-> data, a |-> data]]
  <2>1. g = [l \in 0..0 |-> IF l = 0 THEN [z |-> data, a |-> data] ELSE Layer(v, l, g[l - 1].a)]
    OBVIOUS
  <2> HIDE DEF g
  <2>2. IsForward(v, data, 0, g)
    BY <2>1, Zenon DEF IsForward
  <2> QED
    BY <2>2
<1>2. ASSUME NEW b \in 0..(c - 1), b \in G PROVE b + 1 \in G
  <2>1. PICK g : IsForward(v, data, b, g)
    BY <1>2
  <2> DEFINE h == [l \in 0..(b + 1) |-> IF l = b + 1 THEN Layer(v, b + 1, g[b].a) ELSE g[l]]
  <2>2. ASSUME NEW l \in 0..(b + 1)
        PROVE  h[l] = IF l = 0 THEN [z |-> data, a |-> data] ELSE Layer(v, l, h[l - 1].a)
    <3>1. CASE l = b + 1
      <4>1. h[l] = Layer(v, l, g[b].a) /\ l # 0 /\ l - 1 = b /\ b \in 0..(b + 1) /\ b # b + 1
        BY <3>1
      <4>2. h[l - 1] = g[b]
        BY <4>1
      <4> HIDE DEF h
      <4> QED
        BY <4>1, <4>2, Zenon
    <3>2. CASE l # b + 1
      <4>1. l \in 0..b /\ h[l] = g[l]
        BY <3>2
      <4>2. g[l] = IF l = 0 THEN [z |-> data, a |-> data] ELSE Layer(v, l, g[l - 1].a)
        BY <2>1, <4>1 DEF IsForward
      <4>3. l # 0 => h[l - 1] = g[l - 1]
        BY <4>1
      <4> HIDE DEF h
      <4> QED
        BY <4>1, <4>2, <4>3, Zenon
    <3> QED
      BY <3>1, <3>2
  <2>3. h = [l \in 0..(b + 1) |-> h[l]]
    OBVIOUS
  <2> HIDE DEF h
  <2>4. h = [l \in 0..(b + 1) |-> IF l = 0 THEN [z |-> data, a |-> data]
                                  ELSE Layer(v, l, h[l - 1].a)]
    BY <2>2, <2>3
  <2>5. IsForward(v, data, b + 1, h)
    BY <2>4, Zenon DEF IsForward
  <2> QED
    BY <2>5
<1> HIDE DEF G
<1>3. c \in G
  BY <1>1, <1>2, UpToLemma
<1> QED
  BY <1>3 DEF G

LEMMA ForwardLemma ==
  ASSUME NEW v, Shaped(v), NEW data \in Vector(0)
  PROVE  /\ Forward(v, data)[0].z = data /\ Forward(v, data)[0].a = data
         /\ \A l \in 1..L : Forward(v, data)[l] = Layer(v, l, Forward(v, data)[l - 1].a)
         /\ \A l \in 0..L : /\ Forward(v, data)[l].z \in Vector(l)
                            /\ Forward(v, data)[l].a \in Vector(l)
<1> DEFINE g == Forward(v, data)
<1>1. g = CHOOSE h : IsForward(v, data, L, h)
  BY DEF Forward, IsForward, Layer
<1>2. IsForward(v, data, L, g)
  BY <1>1, ForwardExists, LayersLemma, Zenon
<1> HIDE DEF g
<1>3. g[0] = [z |-> data, a |-> data]
  BY <1>2, LayersLemma DEF IsForward
<1>4. \A l \in 1..L : g[l] = Layer(v, l, g[l - 1].a)
  <2> TAKE l \in 1..L
  <2>1. l \in 0..L /\ l # 0
    BY LayersLemma
  <2> QED
    BY <1>2, <2>1 DEF IsForward
<1> DEFINE G == {l \in 0..L : g[l].z \in Vector(l) /\ g[l].a \in Vector(l)}
<1>5. 0 \in G
  BY <1>3, LayersLemma
<1>6. ASSUME NEW b \in 0..(L - 1), b \in G PROVE b + 1 \in G
  <2> DEFINE l == b + 1
             a == g[b].a
             z == [j \in N(l) |-> (dot(l - 1, a, v.w[l][j]) + v.b[l][j]) % P]
  <2>1. l \in 1..L /\ l \in 0..L /\ l - 1 = b /\ b \in 0..L
    BY LayersLemma
  <2>2. a \in Vector(b) /\ v.b[l] \in Vector(l) /\ v.w[l] \in [N(l) -> Vector(b)]
    BY <1>6, <2>1 DEF Shaped, Vector
  <2>3. g[l] = [z |-> z, a |-> [j \in N(l) |-> squash[z[j]]]]
    BY <1>4, <2>1 DEF Layer
  <2> HIDE DEF l, a
  <2>4. ASSUME NEW j \in N(l) PROVE z[j] \in Words
    <3>1. a \in [N(b) -> Int] /\ v.w[l][j] \in [N(b) -> Int]
      BY <2>2, WordsLemma DEF Vector
    <3>2. dot(b, a, v.w[l][j]) \in Int
      BY <2>1, <3>1, DotLemma, WordsLemma
    <3>3. v.b[l][j] \in Int
      BY <2>2, WordsLemma DEF Vector
    <3>4. dot(b, a, v.w[l][j]) + v.b[l][j] \in Int
      BY <3>2, <3>3
    <3> QED
      BY <2>1, <3>4, WordsLemma
  <2> HIDE DEF z
  <2>5. z \in Vector(l)
    <3>1. z = [j \in N(l) |-> z[j]]
      BY DEF z
    <3> QED
      BY <2>4, <3>1 DEF Vector
  <2>6. [j \in N(l) |-> squash[z[j]]] \in Vector(l)
    BY <2>4, SquashLemma DEF Vector
  <2>7. g[l].z = z /\ g[l].a = [j \in N(l) |-> squash[z[j]]]
    BY <2>3
  <2>8. l \in G
    BY <2>1, <2>5, <2>6, <2>7
  <2> QED
    BY <2>8 DEF l
<1> HIDE DEF G
<1>7. \A l \in 0..L : l \in G
  BY <1>5, <1>6, UpToLemma, LayersLemma
<1>8. \A l \in 0..L : g[l].z \in Vector(l) /\ g[l].a \in Vector(l)
  BY <1>7 DEF G
<1>9. g[0].z = data /\ g[0].a = data
  BY <1>3
<1> QED
  BY <1>4, <1>8, <1>9 DEF g

-----------------------------------------------------------------------------
(* The backward pass: layer L - x, from the errors of the layer above.     *)
Slope(v, p, out, x, up) ==
  [j \in N(L - x) |-> IF x = 0 THEN p[L].a[j] - out[j]
                      ELSE dot_transpose((L - x) + 1, j, v.w[(L - x) + 1], up)]
ErrorAt(v, p, out, x, up) ==
  [j \in N(L - x) |->
     ((IF x = 0 THEN p[L].a[j] - out[j]
       ELSE dot_transpose((L - x) + 1, j, v.w[(L - x) + 1], up))
      * sigmoid_prime(p[L - x].z[j])) % P]
IsErrors(v, p, out, c, g) == g = [x \in 0..c |-> ErrorAt(v, p, out, x, g[x - 1])]

LEMMA ErrorsExist ==
  ASSUME NEW v, NEW p, NEW out, NEW c \in Nat
  PROVE  \E g : IsErrors(v, p, out, c, g)
<1> DEFINE G == {b \in Nat : \E g : IsErrors(v, p, out, b, g)}
<1>0. \A x, y : ErrorAt(v, p, out, 0, x) = ErrorAt(v, p, out, 0, y)
  BY DEF ErrorAt
<1>1. 0 \in G
  <2> DEFINE g == [x \in 0..0 |-> ErrorAt(v, p, out, 0, 0)]
  <2>1. \A x \in 0..0 : ErrorAt(v, p, out, 0, 0) = ErrorAt(v, p, out, x, g[x - 1])
    <3> TAKE x \in 0..0
    <3>1. x = 0
      OBVIOUS
    <3> HIDE DEF g
    <3> QED
      BY <1>0, <3>1, Zenon
  <2>2. g = [x \in 0..0 |-> ErrorAt(v, p, out, x, g[x - 1])]
    BY <2>1
  <2> HIDE DEF g
  <2>3. IsErrors(v, p, out, 0, g)
    BY <2>2, Zenon DEF IsErrors
  <2> QED
    BY <2>3
<1>2. ASSUME NEW b \in 0..(c - 1), b \in G PROVE b + 1 \in G
  <2>1. PICK g : IsErrors(v, p, out, b, g)
    BY <1>2
  <2> DEFINE h == [x \in 0..(b + 1) |-> IF x = b + 1 THEN ErrorAt(v, p, out, b + 1, g[b]) ELSE g[x]]
  <2>2. ASSUME NEW x \in 0..(b + 1)
        PROVE  h[x] = ErrorAt(v, p, out, x, h[x - 1])
    <3>1. CASE x = b + 1
      <4>1. h[x] = ErrorAt(v, p, out, x, g[b]) /\ x - 1 = b /\ b \in 0..(b + 1) /\ b # b + 1
        BY <3>1
      <4>2. h[x - 1] = g[b]
        BY <4>1
      <4> HIDE DEF h
      <4> QED
        BY <4>1, <4>2, Zenon
    <3>2. CASE x # b + 1
      <4>1. x \in 0..b /\ h[x] = g[x]
        BY <3>2
      <4>2. g[x] = ErrorAt(v, p, out, x, g[x - 1])
        BY <2>1, <4>1, Zenon DEF IsErrors
      <4>3. x # 0 => h[x - 1] = g[x - 1]
        BY <4>1
      <4> HIDE DEF h
      <4>4. CASE x = 0
        BY <1>0, <4>1, <4>2, <4>4, Zenon
      <4>5. CASE x # 0
        BY <4>1, <4>2, <4>3, <4>5, Zenon
      <4> QED
        BY <4>4, <4>5
    <3> QED
      BY <3>1, <3>2
  <2>3. h = [x \in 0..(b + 1) |-> h[x]]
    OBVIOUS
  <2> HIDE DEF h
  <2>4. h = [x \in 0..(b + 1) |-> ErrorAt(v, p, out, x, h[x - 1])]
    BY <2>2, <2>3
  <2>5. IsErrors(v, p, out, b + 1, h)
    BY <2>4, Zenon DEF IsErrors
  <2> QED
    BY <2>5
<1> HIDE DEF G
<1>3. c \in G
  BY <1>1, <1>2, UpToLemma
<1> QED
  BY <1>3 DEF G


Typed(p) == \A l \in 0..L : p[l].z \in Vector(l) /\ p[l].a \in Vector(l)

LEMMA ErrorAtLemma ==
  ASSUME NEW v, NEW p, NEW out, NEW x \in 0..(L - 1), NEW up, NEW j \in N(L - x)
  PROVE  ErrorAt(v, p, out, x, up)[j]
           = (Slope(v, p, out, x, up)[j] * sigmoid_prime(p[L - x].z[j])) % P
BY Zenon DEF ErrorAt, Slope

LEMMA ErrorTypeLemma ==
  ASSUME NEW v, Shaped(v), NEW p, Typed(p), NEW out \in Vector(L), NEW x \in 0..(L - 1),
         NEW up, x # 0 => up \in Vector((L - x) + 1)
  PROVE  /\ Slope(v, p, out, x, up) \in [N(L - x) -> Int]
         /\ ErrorAt(v, p, out, x, up) \in Vector(L - x)
<1> DEFINE l == L - x
           u == Slope(v, p, out, x, up)
           e == ErrorAt(v, p, out, x, up)
<1>1. l \in 1..L /\ l \in 0..L /\ (x # 0 => l + 1 \in 1..L /\ l + 1 \in 0..L /\ (l + 1) - 1 = l)
  BY LayersLemma
<1>2. ASSUME NEW j \in N(l) PROVE u[j] \in Int
  <2>1. CASE x = 0
    <3>1. u[j] = p[L].a[j] - out[j] /\ l = L
      BY <2>1, LayersLemma DEF Slope
    <3>2. p[L].a[j] \in Int /\ out[j] \in Int
      BY <3>1, LayersLemma, WordsLemma DEF Typed, Vector
    <3> QED
      BY <3>1, <3>2
  <2>2. CASE x # 0
    <3>1. u[j] = dot_transpose(l + 1, j, v.w[l + 1], up)
      BY <2>2 DEF Slope
    <3>2. v.w[l + 1] \in [N(l + 1) -> Vector(l)] /\ up \in Vector(l + 1)
      BY <1>1, <2>2 DEF Shaped, Vector
    <3>3. \A h \in N(l + 1) : v.w[l + 1][h][j] \in Int /\ up[h] \in Int
      BY <3>2, WordsLemma DEF Vector
    <3> HIDE DEF l
    <3>4. dot_transpose(l + 1, j, v.w[l + 1], up) \in Words
      BY <1>1, <2>2, <3>3, TransposeLemma
    <3> QED
      BY <3>1, <3>4, WordsLemma
  <2> QED
    BY <2>1, <2>2
<1>3. u \in [N(l) -> Int]
  <2>1. u = [j \in N(l) |-> u[j]]
    BY DEF Slope
  <2> HIDE DEF u, l
  <2> QED
    BY <1>2, <2>1
<1>4. ASSUME NEW j \in N(l) PROVE e[j] \in Words
  <2>1. e[j] = (u[j] * sigmoid_prime(p[l].z[j])) % P
    BY ErrorAtLemma
  <2>2. p[l].z[j] \in Words
    BY <1>1 DEF Typed, Vector
  <2>3. sigmoid_prime(p[l].z[j]) \in Int
    BY <2>2, SquashLemma, WordsLemma
  <2> HIDE DEF e, u, l
  <2>4. u[j] * sigmoid_prime(p[l].z[j]) \in Int
    BY <1>2, <2>3
  <2> QED
    BY <2>1, <2>4, WordsLemma
<1>5. e \in Vector(l)
  <2>1. e = [j \in N(l) |-> e[j]]
    BY DEF ErrorAt
  <2> HIDE DEF e, l
  <2> QED
    BY <1>4, <2>1 DEF Vector
<1> QED
  BY <1>3, <1>5

LEMMA ErrorsLemma ==
  ASSUME NEW v, Shaped(v), NEW p, Typed(p), NEW out \in Vector(L)
  PROVE  \A x \in 0..(L - 1) :
           /\ Errors(v, p, out)[x] = ErrorAt(v, p, out, x, Errors(v, p, out)[x - 1])
           /\ Errors(v, p, out)[x] \in Vector(L - x)
<1> DEFINE g == Errors(v, p, out)
<1>1. g = CHOOSE h : IsErrors(v, p, out, L - 1, h)
  BY DEF Errors, IsErrors, ErrorAt
<1>2. IsErrors(v, p, out, L - 1, g)
  <2>1. L - 1 \in Nat
    BY LayersLemma
  <2> QED
    BY <1>1, <2>1, ErrorsExist, Zenon
<1> HIDE DEF g
<1>3. \A x \in 0..(L - 1) : g[x] = ErrorAt(v, p, out, x, g[x - 1])
  BY <1>2, Zenon DEF IsErrors
<1> DEFINE G == {x \in 0..(L - 1) : g[x] \in Vector(L - x)}
<1>4. 0 \in G
  <2>1. 0 \in 0..(L - 1)
    BY LayersLemma
  <2>2. g[0] \in Vector(L - 0)
    BY <1>3, <2>1, ErrorTypeLemma
  <2> QED
    BY <2>1, <2>2
<1>5. ASSUME NEW b \in 0..((L - 1) - 1), b \in G PROVE b + 1 \in G
  <2>1. b + 1 \in 0..(L - 1) /\ (b + 1) - 1 = b /\ (L - (b + 1)) + 1 = L - b
    BY LayersLemma
  <2>2. g[b] \in Vector(L - b)
    BY <1>5
  <2>3. g[b + 1] = ErrorAt(v, p, out, b + 1, g[b])
    BY <1>3, <2>1
  <2>4. ErrorAt(v, p, out, b + 1, g[b]) \in Vector(L - (b + 1))
    BY <2>1, <2>2, ErrorTypeLemma
  <2> QED
    BY <2>1, <2>3, <2>4
<1> HIDE DEF G
<1>6. \A x \in 0..(L - 1) : x \in G
  <2>1. L - 1 \in Nat
    BY LayersLemma
  <2> QED
    BY <1>4, <1>5, <2>1, UpToLemma
<1>7. \A x \in 0..(L - 1) : g[x] \in Vector(L - x)
  BY <1>6 DEF G
<1> QED
  BY <1>3, <1>7 DEF g

-----------------------------------------------------------------------------
(* The derivatives of the activations of layer x with respect to bias j of *)
(* layer l, or its weight k.                                               *)
Input(p, l, k) == IF k = Bias THEN 1 ELSE p[l - 1].a[k]
ChangeAt(v, p, l, j, k, x, below) ==
  IF x < l THEN [h \in N(x) |-> 0]
  ELSE [h \in N(x) |->
          (sigmoid_prime(p[x].z[h])
           * (IF x > l THEN dot(x - 1, v.w[x][h], below)
              ELSE IF h # j THEN 0 ELSE IF k = Bias THEN 1 ELSE p[l - 1].a[k])) % P]
IsChange(v, p, l, j, k, c, g) == g = [x \in 0..c |-> ChangeAt(v, p, l, j, k, x, g[x - 1])]
ChangeOf(v, p, l, j, k) == CHOOSE g : IsChange(v, p, l, j, k, L, g)

LEMMA ChangesExist ==
  ASSUME NEW v, NEW p, NEW l \in 1..L, NEW j, NEW k, NEW c \in Nat
  PROVE  \E g : IsChange(v, p, l, j, k, c, g)
<1> DEFINE G == {b \in Nat : \E g : IsChange(v, p, l, j, k, b, g)}
<1>0. \A x, y : ChangeAt(v, p, l, j, k, 0, x) = ChangeAt(v, p, l, j, k, 0, y)
  BY DEF ChangeAt
<1>1. 0 \in G
  <2> DEFINE g == [x \in 0..0 |-> ChangeAt(v, p, l, j, k, 0, 0)]
  <2>1. \A x \in 0..0 : ChangeAt(v, p, l, j, k, 0, 0) = ChangeAt(v, p, l, j, k, x, g[x - 1])
    <3> TAKE x \in 0..0
    <3>1. x = 0
      OBVIOUS
    <3> HIDE DEF g
    <3> QED
      BY <1>0, <3>1, Zenon
  <2>2. g = [x \in 0..0 |-> ChangeAt(v, p, l, j, k, x, g[x - 1])]
    BY <2>1
  <2> HIDE DEF g
  <2>3. IsChange(v, p, l, j, k, 0, g)
    BY <2>2, Zenon DEF IsChange
  <2> QED
    BY <2>3
<1>2. ASSUME NEW b \in 0..(c - 1), b \in G PROVE b + 1 \in G
  <2>1. PICK g : IsChange(v, p, l, j, k, b, g)
    BY <1>2
  <2> DEFINE h == [x \in 0..(b + 1) |->
                     IF x = b + 1 THEN ChangeAt(v, p, l, j, k, b + 1, g[b]) ELSE g[x]]
  <2>2. ASSUME NEW x \in 0..(b + 1)
        PROVE  h[x] = ChangeAt(v, p, l, j, k, x, h[x - 1])
    <3>1. CASE x = b + 1
      <4>1. h[x] = ChangeAt(v, p, l, j, k, x, g[b]) /\ x - 1 = b /\ b \in 0..(b + 1) /\ b # b + 1
        BY <3>1
      <4>2. h[x - 1] = g[b]
        BY <4>1
      <4> HIDE DEF h
      <4> QED
        BY <4>1, <4>2, Zenon
    <3>2. CASE x # b + 1
      <4>1. x \in 0..b /\ h[x] = g[x]
        BY <3>2
      <4>2. g[x] = ChangeAt(v, p, l, j, k, x, g[x - 1])
        BY <2>1, <4>1, Zenon DEF IsChange
      <4>3. x # 0 => h[x - 1] = g[x - 1]
        BY <4>1
      <4> HIDE DEF h
      <4>4. CASE x = 0
        BY <1>0, <4>1, <4>2, <4>4, Zenon
      <4>5. CASE x # 0
        BY <4>1, <4>2, <4>3, <4>5, Zenon
      <4> QED
        BY <4>4, <4>5
    <3> QED
      BY <3>1, <3>2
  <2>3. h = [x \in 0..(b + 1) |-> h[x]]
    OBVIOUS
  <2> HIDE DEF h
  <2>4. h = [x \in 0..(b + 1) |-> ChangeAt(v, p, l, j, k, x, h[x - 1])]
    BY <2>2, <2>3
  <2>5. IsChange(v, p, l, j, k, b + 1, h)
    BY <2>4, Zenon DEF IsChange
  <2> QED
    BY <2>5
<1> HIDE DEF G
<1>3. c \in G
  BY <1>1, <1>2, UpToLemma
<1> QED
  BY <1>3 DEF G


LEMMA DerivativeLemma ==
  ASSUME NEW v, NEW s, NEW l, NEW j, NEW k
  PROVE  Derivative(v, s, l, j, k)
           = LET p == Forward(v, s.data)
             IN  Sum([h \in N(L) |-> (p[L].a[h] - s.output[h])
                                     * ChangeOf(v, p, l, j, k)[L][h]], N(L))
BY DEF Derivative, ChangeOf, IsChange, ChangeAt

LEMMA InputLemma ==
  ASSUME NEW p, Typed(p), NEW l \in 1..L, NEW k \in N(l - 1) \union {Bias}
  PROVE  Input(p, l, k) \in Words /\ Input(p, l, k) \in Int
<1>1. CASE k = Bias
  <2>1. 1 \in Words
    BY PLemma
  <2> QED
    BY <1>1, <2>1, WordsLemma DEF Input
<1>2. CASE k # Bias
  <2>1. l - 1 \in 0..L /\ k \in N(l - 1)
    BY <1>2, LayersLemma
  <2>2. p[l - 1].a[k] \in Words
    BY <2>1 DEF Typed, Vector
  <2> QED
    BY <1>2, <2>2, WordsLemma DEF Input
<1> QED
  BY <1>1, <1>2

LEMMA ChangeTypeLemma ==
  ASSUME NEW v, Shaped(v), NEW p, Typed(p), NEW l \in 1..L, NEW j,
         NEW k \in N(l - 1) \union {Bias}, NEW x \in 0..L, NEW below,
         x # 0 => below \in Vector(x - 1)
  PROVE  ChangeAt(v, p, l, j, k, x, below) \in Vector(x)
<1> DEFINE d == ChangeAt(v, p, l, j, k, x, below)
           f(h) == IF x > l THEN dot(x - 1, v.w[x][h], below)
                   ELSE IF h # j THEN 0 ELSE Input(p, l, k)
<1>1. CASE x < l
  <2>1. 0 \in Words
    BY PLemma
  <2>2. d = [h \in N(x) |-> 0]
    BY <1>1, Zenon DEF ChangeAt
  <2> QED
    BY <2>1, <2>2 DEF Vector
<1>2. CASE ~ (x < l)
  <2>1. x \in 1..L /\ x - 1 \in 0..L /\ x # 0
    BY <1>2, LayersLemma
  <2>2. d = [h \in N(x) |-> (sigmoid_prime(p[x].z[h]) * f(h)) % P]
    BY <1>2, Zenon DEF ChangeAt, Input
  <2>3. ASSUME NEW h \in N(x) PROVE f(h) \in Int
    <3>0. v.w[x][h] \in Vector(x - 1) /\ below \in Vector(x - 1)
      BY <2>1 DEF Shaped, Vector
    <3>1. v.w[x][h] \in [N(x - 1) -> Int] /\ below \in [N(x - 1) -> Int]
      BY <3>0, WordsLemma DEF Vector
    <3>2. dot(x - 1, v.w[x][h], below) \in Int
      BY <2>1, <3>1, DotLemma, WordsLemma
    <3>3. Input(p, l, k) \in Int
      BY InputLemma
    <3> QED
      BY <3>2, <3>3
  <2>4. ASSUME NEW h \in N(x) PROVE sigmoid_prime(p[x].z[h]) \in Int
    <3>1. p[x].z[h] \in Words
      BY DEF Typed, Vector
    <3> QED
      BY <3>1, SquashLemma, WordsLemma
  <2> HIDE DEF d, f
  <2>5. \A h \in N(x) : (sigmoid_prime(p[x].z[h]) * f(h)) % P \in Words
    <3> TAKE h \in N(x)
    <3>1. sigmoid_prime(p[x].z[h]) * f(h) \in Int
      BY <2>3, <2>4
    <3> QED
      BY <3>1, WordsLemma
  <2>6. d \in Vector(x)
    BY <2>2, <2>5 DEF Vector
  <2> QED
    BY <2>6 DEF d
<1> QED
  BY <1>1, <1>2

LEMMA ChangeLemma ==
  ASSUME NEW v, Shaped(v), NEW p, Typed(p), NEW l \in 1..L, NEW j,
         NEW k \in N(l - 1) \union {Bias}
  PROVE  \A x \in 0..L :
           /\ ChangeOf(v, p, l, j, k)[x]
                = ChangeAt(v, p, l, j, k, x, ChangeOf(v, p, l, j, k)[x - 1])
           /\ ChangeOf(v, p, l, j, k)[x] \in Vector(x)
<1> DEFINE g == ChangeOf(v, p, l, j, k)
<1>1. IsChange(v, p, l, j, k, L, g)
  BY ChangesExist, LayersLemma, Zenon DEF ChangeOf
<1> HIDE DEF g
<1>2. \A x \in 0..L : g[x] = ChangeAt(v, p, l, j, k, x, g[x - 1])
  BY <1>1, Zenon DEF IsChange
<1> DEFINE G == {x \in 0..L : g[x] \in Vector(x)}
<1>3. 0 \in G
  <2>1. g[0] \in Vector(0)
    BY <1>2, LayersLemma, ChangeTypeLemma
  <2> QED
    BY <2>1, LayersLemma
<1>4. ASSUME NEW b \in 0..(L - 1), b \in G PROVE b + 1 \in G
  <2>1. b + 1 \in 0..L /\ (b + 1) - 1 = b
    BY LayersLemma
  <2>2. g[b] \in Vector((b + 1) - 1)
    BY <1>4, <2>1
  <2>3. g[b + 1] = ChangeAt(v, p, l, j, k, b + 1, g[b])
    BY <1>2, <2>1
  <2>4. ChangeAt(v, p, l, j, k, b + 1, g[b]) \in Vector(b + 1)
    BY <2>1, <2>2, ChangeTypeLemma
  <2> QED
    BY <2>1, <2>3, <2>4
<1> HIDE DEF G
<1>5. \A x \in 0..L : x \in G
  BY <1>3, <1>4, UpToLemma, LayersLemma
<1>6. \A x \in 0..L : g[x] \in Vector(x)
  BY <1>5 DEF G
<1> QED
  BY <1>2, <1>6 DEF g

(* What is reduced on the way does not matter.                             *)
Congruent(a, b) == a % P = b % P
Chained(u, s, a, b) == (u * ((s * a) % P)) % P = (((u * s) % P) * b) % P
LEMMA ModChainLemma ==
  ASSUME NEW u \in Int, NEW s \in Int, NEW a \in Int, NEW b \in Int, Congruent(a, b)
  PROVE  Chained(u, s, a, b)
<1>0. a % P = b % P
  BY DEF Congruent
<1>1. \A x, y \in Int : x * y \in Int /\ x % P \in Int /\ (x % P) % P = x % P
  BY ModLemma, ModTwiceLemma
<1>2. (u * ((s * a) % P)) % P = (u * (s * a)) % P
  <2> DEFINE w == s * a
             r == w % P
  <2>1. w \in Int /\ r \in Int /\ (r * u) % P = (w * u) % P
    BY <1>1, ModMulLemma
  <2> HIDE DEF w, r
  <2>2. r * u = u * r /\ w * u = u * w
    BY <2>1
  <2>3. (u * r) % P = (u * w) % P
    BY <2>1, <2>2
  <2> QED
    BY <2>3 DEF w, r
<1>3. u * (s * a) = (u * s) * a
  OBVIOUS
<1>4. (((u * s) % P) * b) % P = ((u * s) * a) % P
  <2> DEFINE w == u * s
             r == w % P
  <2>1. w \in Int /\ r \in Int /\ r % P = w % P
    BY <1>1
  <2> HIDE DEF w, r
  <2>2. (r * b) % P = (w * a) % P
    BY <1>0, <2>1, ModProductLemma
  <2> QED
    BY <2>2 DEF w, r
<1> QED
  BY <1>2, <1>3, <1>4 DEF Chained

-----------------------------------------------------------------------------
(* The derivative is one sum of slopes times changes, in whichever layer   *)
(* it is taken; in layer l only neuron j changes.                          *)
Paired(v, p, out, l, j, k, x) ==
  Total([h \in N(L - x) |-> Slope(v, p, out, x, Errors(v, p, out)[x - 1])[h]
                            * ChangeOf(v, p, l, j, k)[L - x][h]], N(L - x))

LEMMA PairedStepLemma ==
  ASSUME NEW v, Shaped(v), NEW p, Typed(p), NEW out \in Vector(L), NEW l \in 1..L, NEW j,
         NEW k \in N(l - 1) \union {Bias}, NEW x \in 0..((L - l) - 1)
  PROVE  Paired(v, p, out, l, j, k, x) % P = Paired(v, p, out, l, j, k, x + 1) % P
<1> DEFINE q == L - x
           e == Errors(v, p, out)
           u == Slope(v, p, out, x, e[x - 1])
           u2 == Slope(v, p, out, x + 1, e[x])
           d == ChangeOf(v, p, l, j, k)
           w == v.w[q]
           S == [h \in N(q) |-> u[h] * d[q][h]]
           T == [h \in N(q) |->
                   e[x][h] * Total([c \in N(q - 1) |-> w[h][c] * d[q - 1][c]], N(q - 1))]
           R == [c \in N(q - 1) |-> Total([h \in N(q) |-> w[h][c] * e[x][h]], N(q)) * d[q - 1][c]]
           S2 == [c \in N(q - 1) |-> u2[c] * d[q - 1][c]]
<1>1. /\ x \in 0..(L - 1) /\ x + 1 \in 0..(L - 1) /\ (x + 1) - 1 = x /\ L - (x + 1) = q - 1
      /\ q \in 1..L /\ q \in 0..L /\ q - 1 \in 0..L /\ q > l /\ ~ (q < l)
      /\ (L - (x + 1)) + 1 = q /\ x + 1 # 0 /\ (x # 0 => x - 1 \in 0..(L - 1))
      /\ (x # 0 => L - (x - 1) = (L - x) + 1)
  BY LayersLemma
<1>2. /\ e[x] \in Vector(q) /\ e[x] = ErrorAt(v, p, out, x, e[x - 1])
      /\ (x # 0 => e[x - 1] \in Vector((L - x) + 1))
  BY <1>1, ErrorsLemma
<1>3. u \in [N(q) -> Int] /\ u2 \in [N(q - 1) -> Int]
  <2>1. u \in [N(q) -> Int]
    BY <1>1, <1>2, ErrorTypeLemma
  <2>2. e[x] \in Vector((L - (x + 1)) + 1)
    BY <1>1, <1>2
  <2>3. u2 \in [N(L - (x + 1)) -> Int]
    BY <1>1, <2>2, ErrorTypeLemma
  <2> QED
    BY <1>1, <2>1, <2>3
<1>4. /\ d[q] \in Vector(q) /\ d[q - 1] \in Vector(q - 1)
      /\ d[q] = ChangeAt(v, p, l, j, k, q, d[q - 1])
  BY <1>1, ChangeLemma
<1>5. w \in [N(q) -> Vector(q - 1)]
  BY <1>1 DEF Shaped, Vector
<1>6. /\ e[x] \in [N(q) -> Int] /\ d[q] \in [N(q) -> Int] /\ d[q - 1] \in [N(q - 1) -> Int]
      /\ w \in [N(q) -> [N(q - 1) -> Int]]
  BY <1>2, <1>4, <1>5, WordsLemma DEF Vector
<1>7. IsFiniteSet(N(q)) /\ IsFiniteSet(N(q - 1))
  BY <1>1, LayersLemma
<1>8. Total(S, N(q)) = Paired(v, p, out, l, j, k, x)
  BY DEF Paired
<1>9. Total(S2, N(q - 1)) = Paired(v, p, out, l, j, k, x + 1)
  <2>1. Paired(v, p, out, l, j, k, x + 1)
          = Total([h \in N(L - (x + 1)) |-> Slope(v, p, out, x + 1, e[(x + 1) - 1])[h]
                                           * d[L - (x + 1)][h]], N(L - (x + 1)))
    BY DEF Paired
  <2> HIDE DEF e, d, q
  <2> QED
    BY <1>1, <2>1
<1>10. ASSUME NEW h \in N(q)
       PROVE  /\ d[q][h] = (sigmoid_prime(p[q].z[h]) * dot(q - 1, w[h], d[q - 1])) % P
              /\ e[x][h] = (u[h] * sigmoid_prime(p[q].z[h])) % P
              /\ sigmoid_prime(p[q].z[h]) \in Int
  <2>1. d[q][h] = (sigmoid_prime(p[q].z[h]) * dot(q - 1, w[h], d[q - 1])) % P
    <3>1. ChangeAt(v, p, l, j, k, q, d[q - 1])[h]
            = (sigmoid_prime(p[q].z[h]) * dot(q - 1, w[h], d[q - 1])) % P
      <4> HIDE DEF q, d
      <4> QED
        BY <1>1 DEF ChangeAt
    <3> QED
      BY <1>4, <3>1
  <2>2. e[x][h] = (u[h] * sigmoid_prime(p[q].z[h])) % P
    BY <1>1, <1>2, ErrorAtLemma
  <2>3. p[q].z[h] \in Words
    BY <1>1 DEF Typed, Vector
  <2>4. sigmoid_prime(p[q].z[h]) \in Int
    BY <2>3, SquashLemma, WordsLemma
  <2> QED
    BY <2>1, <2>2, <2>4
<1>11. ASSUME NEW h \in N(q)
       PROVE  S[h] \in Int /\ T[h] \in Int /\ S[h] % P = T[h] % P
  <2> DEFINE D == [c \in N(q - 1) |-> w[h][c] * d[q - 1][c]]
             s == sigmoid_prime(p[q].z[h])
             a == dot(q - 1, w[h], d[q - 1])
             b == Total(D, N(q - 1))
  <2>1. w[h] \in [N(q - 1) -> Int]
    BY <1>6
  <2>2. a = b % P /\ a \in Words
    <3> HIDE DEF q, w, d
    <3> QED
      BY <1>1, <1>6, <2>1, DotLemma
  <2>3. b \in Int
    <3>1. \A y, z \in Int : y * z \in Int
      OBVIOUS
    <3>2. IntsOn(D, N(q - 1))
      BY <1>6, <2>1, <3>1 DEF IntsOn
    <3> HIDE DEF D
    <3> QED
      BY <1>7, <3>2, TotalIntLemma
  <2>4. u[h] \in Int /\ e[x][h] \in Int /\ d[q][h] \in Int
    BY <1>3, <1>6
  <2>5. S[h] = u[h] * d[q][h] /\ T[h] = e[x][h] * b
    OBVIOUS
  <2>6. d[q][h] = (s * a) % P /\ e[x][h] = (u[h] * s) % P /\ s \in Int
    BY <1>10
  <2>7. a \in Int /\ a % P = b % P
    BY <2>2, <2>3, ModTwiceLemma, WordsLemma
  <2> DEFINE uh == u[h]
  <2>8. uh \in Int
    BY <2>4
  <2> HIDE DEF s, a, b, uh, S, T
  <2>9. (uh * ((s * a) % P)) % P = (((uh * s) % P) * b) % P
    <3>1. Congruent(a, b)
      BY <2>7 DEF Congruent
    <3>2. Chained(uh, s, a, b)
      BY <2>3, <2>6, <2>7, <2>8, <3>1, ModChainLemma
    <3> QED
      BY <3>2 DEF Chained
  <2>10. S[h] % P = T[h] % P
    BY <2>5, <2>6, <2>9 DEF uh
  <2>11. \A y, z \in Int : y * z \in Int
    OBVIOUS
  <2> QED
    BY <2>3, <2>4, <2>5, <2>10, <2>11
<1>12. Total(S, N(q)) % P = Total(T, N(q)) % P
  <2>1. IntsOn(S, N(q)) /\ IntsOn(T, N(q)) /\ \A h \in N(q) : S[h] % P = T[h] % P
    BY <1>11 DEF IntsOn
  <2> HIDE DEF S, T, q
  <2> QED
    BY <1>7, <2>1, TotalModLemma
<1>13. Total(T, N(q)) = Total(R, N(q - 1))
  <2> DEFINE ex == e[x]
             dq == d[q - 1]
             A == N(q)
             B == N(q - 1)
  <2>1. ex \in [A -> Int] /\ w \in [A -> [B -> Int]] /\ dq \in [B -> Int]
    BY <1>6
  <2>2. IsFiniteSet(A) /\ IsFiniteSet(B)
    BY <1>7
  <2> HIDE DEF ex, dq, A, B, w
  <2>3. WeightedUp(A, B, ex, w, dq) = WeightedDown(A, B, ex, w, dq)
    BY <2>1, <2>2, AdjointLemma
  <2> QED
    BY <2>3 DEF ex, dq, A, B, WeightedUp, WeightedDown
<1>14. ASSUME NEW c \in N(q - 1)
       PROVE  R[c] \in Int /\ S2[c] \in Int /\ R[c] % P = S2[c] % P
  <2> DEFINE F == [h \in N(q) |-> w[h][c] * e[x][h]]
             b == Total(F, N(q))
             y == d[q - 1][c]
  <2>0. \A yy, z \in Int : yy * z \in Int
    OBVIOUS
  <2>1. \A h \in N(q) : w[h][c] \in Int /\ e[x][h] \in Int
    BY <1>6
  <2>2. b \in Int
    <3>1. IntsOn(F, N(q))
      BY <2>0, <2>1 DEF IntsOn
    <3> HIDE DEF F
    <3> QED
      BY <1>7, <3>1, TotalIntLemma
  <2>3. u2[c] = b % P
    <3>1. u2[c] = dot_transpose(q, c, w, e[x])
      <4>1. u2[c] = dot_transpose((L - (x + 1)) + 1, c, v.w[(L - (x + 1)) + 1], e[x])
        <5>1. c \in N(L - (x + 1))
          BY <1>1
        <5> HIDE DEF e, q
        <5> QED
          BY <1>1, <5>1 DEF Slope
      <4> HIDE DEF q, e
      <4> QED
        BY <1>1, <4>1
    <3> HIDE DEF q, w, e
    <3> QED
      BY <1>1, <2>1, <3>1, TransposeLemma
  <2>4. y \in Int /\ u2[c] \in Int
    BY <1>3, <1>6
  <2>5. R[c] = b * y /\ S2[c] = u2[c] * y
    OBVIOUS
  <2> HIDE DEF b, y, R, S2, u2
  <2>6. (b * y) % P = ((b % P) * y) % P
    BY <2>2, <2>4, ModMulLemma
  <2> QED
    BY <2>0, <2>2, <2>3, <2>4, <2>5, <2>6
<1>15. Total(R, N(q - 1)) % P = Total(S2, N(q - 1)) % P
  <2>1. IntsOn(R, N(q - 1)) /\ IntsOn(S2, N(q - 1)) /\ \A c \in N(q - 1) : R[c] % P = S2[c] % P
    BY <1>14 DEF IntsOn
  <2> HIDE DEF R, S2, q
  <2> QED
    BY <1>7, <2>1, TotalModLemma
<1> HIDE DEF S, T, R, S2, q
<1> QED
  BY <1>8, <1>9, <1>12, <1>13, <1>15

-----------------------------------------------------------------------------
(* In layer l only neuron j changes, by what comes in over the weight.     *)
LEMMA PairedEndLemma ==
  ASSUME NEW v, Shaped(v), NEW p, Typed(p), NEW out \in Vector(L), NEW l \in 1..L, NEW j \in N(l),
         NEW k \in N(l - 1) \union {Bias}
  PROVE  Paired(v, p, out, l, j, k, L - l) % P
           = (Errors(v, p, out)[L - l][j] * Input(p, l, k)) % P
<1> DEFINE x == L - l
           e == Errors(v, p, out)
           u == Slope(v, p, out, x, e[x - 1])
           d == ChangeOf(v, p, l, j, k)
           S == [h \in N(l) |-> u[h] * d[l][h]]
           sp(h) == sigmoid_prime(p[l].z[h])
           c == Input(p, l, k)
<1>1. /\ x \in 0..(L - 1) /\ L - x = l /\ l \in 0..L
      /\ (x # 0 => x - 1 \in 0..(L - 1) /\ L - (x - 1) = (L - x) + 1)
  BY LayersLemma
<1>2. e[x] = ErrorAt(v, p, out, x, e[x - 1]) /\ (x # 0 => e[x - 1] \in Vector((L - x) + 1))
  BY <1>1, ErrorsLemma
<1>3. u \in [N(l) -> Int]
  BY <1>1, <1>2, ErrorTypeLemma
<1>4. d[l] \in Vector(l) /\ d[l] = ChangeAt(v, p, l, j, k, l, d[l - 1])
  BY <1>1, ChangeLemma
<1>5. d[l] \in [N(l) -> Int]
  BY <1>4, WordsLemma DEF Vector
<1>6. \A h \in N(l) : d[l][h] = (sp(h) * (IF h # j THEN 0 ELSE c)) % P
  <2>1. d[l] = [h \in N(l) |-> (sp(h) * (IF h # j THEN 0 ELSE c)) % P]
    <3>1. ~ (l < l) /\ ~ (l > l)
      BY <1>1
    <3>2. ChangeAt(v, p, l, j, k, l, d[l - 1])
            = [h \in N(l) |-> (sp(h) * (IF h # j THEN 0 ELSE c)) % P]
      BY <3>1, Zenon DEF ChangeAt, Input
    <3> QED
      BY <1>4, <3>2
  <2> HIDE DEF d, sp, c
  <2> QED
    BY <2>1
<1>7. \A h \in N(l) : sp(h) \in Int
  <2> TAKE h \in N(l)
  <2>1. p[l].z[h] \in Words
    BY <1>1 DEF Typed, Vector
  <2> QED
    BY <2>1, SquashLemma, WordsLemma
<1>8. c \in Int
  BY InputLemma
<1>9. e[x][j] = (u[j] * sp(j)) % P
  BY <1>1, <1>2, ErrorAtLemma
<1>10. Paired(v, p, out, l, j, k, x) = Total(S, N(l))
  <2> HIDE DEF x
  <2> QED
    BY <1>1 DEF Paired
<1>11. \A h \in N(l) : S[h] = u[h] * d[l][h] /\ u[h] \in Int /\ d[l][h] \in Int
  BY <1>3, <1>5
<1> HIDE DEF u, d, S, sp, c, e, x
<1>12. \A h \in N(l) : h # j => S[h] = 0
  <2> TAKE h \in N(l)
  <2> HAVE h # j
  <2>1. sp(h) * 0 = 0 /\ 0 % P = 0
    BY <1>7, PLemma
  <2>2. d[l][h] = 0
    BY <1>6, <2>1
  <2> QED
    BY <1>11, <2>2
<1>13. Total(S, N(l)) = S[j] /\ S[j] \in Int
  <2>1. IsFiniteSet(N(l))
    BY <1>1, LayersLemma
  <2>2. \A a, b \in Int : a * b \in Int
    OBVIOUS
  <2>3. S[j] \in Int
    BY <1>11, <2>2
  <2> QED
    BY <1>12, <2>1, <2>3, TotalOneLemma
<1>14. S[j] = u[j] * ((sp(j) * c) % P)
  BY <1>6, <1>11
<1>15. Chained(u[j], sp(j), c, c)
  <2> DEFINE uj == u[j]
             sj == sp(j)
  <2>1. uj \in Int /\ sj \in Int
    BY <1>7, <1>11
  <2>2. Congruent(c, c)
    BY DEF Congruent
  <2> HIDE DEF uj, sj
  <2>3. Chained(uj, sj, c, c)
    BY <1>8, <2>1, <2>2, ModChainLemma
  <2> QED
    BY <2>3 DEF uj, sj
<1>16. Total(S, N(l)) % P = (e[x][j] * c) % P
  BY <1>9, <1>13, <1>14, <1>15 DEF Chained
<1> QED
  BY <1>10, <1>16 DEF e, x, c

(* network.c, backprop: what the backward pass adds to the delta of a bias *)
(* or a weight is the derivative of the cost of the sample, for a network  *)
(* of any number of layers of any size.                                    *)
THEOREM BackpropIsDerivative ==
  ASSUME NEW v, Shaped(v), NEW s \in SampleType, NEW l \in 1..L, NEW j \in N(l),
         NEW k \in N(l - 1) \union {Bias}
  PROVE  LET p == Forward(v, s.data)
         IN  Derivative(v, s, l, j, k)
               = (Errors(v, p, s.output)[L - l][j] * Input(p, l, k)) % P
<1> DEFINE p == Forward(v, s.data)
           out == s.output
           e == Errors(v, p, out)
<1>1. out \in Vector(L) /\ s.data \in Vector(0)
  BY DEF SampleType
<1>2. Typed(p)
  BY <1>1, ForwardLemma DEF Typed
<1>3. L - 0 = L /\ 0 \in 0..(L - 1) /\ 0 \in 0..(L - l) /\ L - l \in Nat /\ L \in 0..L
  BY LayersLemma
<1>4. Derivative(v, s, l, j, k) = Paired(v, p, out, l, j, k, 0) % P
  <2> DEFINE d == ChangeOf(v, p, l, j, k)
             f == [h \in N(L) |-> (p[L].a[h] - out[h]) * d[L][h]]
             g == [h \in N(L - 0) |-> Slope(v, p, out, 0, e[0 - 1])[h] * d[L - 0][h]]
  <2>1. Derivative(v, s, l, j, k) = Sum(f, N(L))
    BY DerivativeLemma, Zenon
  <2>2. Slope(v, p, out, 0, e[0 - 1]) = [h \in N(L) |-> p[L].a[h] - out[h]]
    BY <1>3 DEF Slope
  <2>3. f = g
    <3> HIDE DEF d, e, p, out
    <3> QED
      BY <1>3, <2>2
  <2>4. Paired(v, p, out, l, j, k, 0) = Total(g, N(L))
    <3> HIDE DEF e
    <3> QED
      BY <1>3 DEF Paired, e
  <2> HIDE DEF f, g
  <2> QED
    BY <2>1, <2>3, <2>4, SumIsTotal
<1> DEFINE G == {x \in 0..(L - l) : Paired(v, p, out, l, j, k, x) % P
                                     = Paired(v, p, out, l, j, k, 0) % P}
<1> HIDE DEF p, out, e
<1>5. 0 \in G
  BY <1>3
<1>6. ASSUME NEW x \in 0..((L - l) - 1), x \in G PROVE x + 1 \in G
  <2>1. Paired(v, p, out, l, j, k, x) % P = Paired(v, p, out, l, j, k, x + 1) % P
    BY <1>1, <1>2, PairedStepLemma
  <2>2. x + 1 \in 0..(L - l)
    BY <1>3
  <2> QED
    BY <1>6, <2>1, <2>2
<1> HIDE DEF G
<1>7. L - l \in G
  <2>1. L - l \in 0..(L - l)
    BY <1>3
  <2> QED
    BY <1>3, <1>5, <1>6, <2>1, UpToLemma
<1>8. Paired(v, p, out, l, j, k, L - l) % P = Paired(v, p, out, l, j, k, 0) % P
  BY <1>7 DEF G
<1>9. Paired(v, p, out, l, j, k, L - l) % P
        = (Errors(v, p, out)[L - l][j] * Input(p, l, k)) % P
  BY <1>1, <1>2, PairedEndLemma
<1>10. Derivative(v, s, l, j, k) = (Errors(v, p, out)[L - l][j] * Input(p, l, k)) % P
  BY <1>4, <1>8, <1>9
<1> QED
  BY <1>10 DEF p, out

-----------------------------------------------------------------------------
(* The arrays.                                                             *)

LEMMA PlacesOfBiasLemma ==
  /\ \A l \in 1..L : \A j \in N(l) : <<l, j>> \in BiasAt
  /\ \A x \in BiasAt : x[1] \in 1..L /\ x[2] \in N(x[1]) /\ x = <<x[1], x[2]>>
<1>1. \A l \in 1..L : N(l) \subseteq Neurons
  BY LayersLemma
<1> QED
  BY <1>1 DEF BiasAt

LEMMA PlacesOfWeightLemma ==
  /\ \A l \in 1..L : \A j \in N(l) : \A k \in N(l - 1) : <<l, j, k>> \in WeightAt
  /\ \A x \in WeightAt : /\ x[1] \in 1..L /\ x[2] \in N(x[1]) /\ x[3] \in N(x[1] - 1)
                         /\ x = <<x[1], x[2], x[3]>>
<1>1. \A l \in 1..L : N(l) \subseteq Neurons /\ N(l - 1) \subseteq Neurons
  <2> TAKE l \in 1..L
  <2>1. l \in 0..L /\ l - 1 \in 0..L
    BY LayersLemma
  <2> QED
    BY <2>1, LayersLemma
<1> QED
  BY <1>1 DEF WeightAt

LEMMA ArraysLemma ==
  ASSUME NEW f \in [BiasAt -> Words], NEW g \in [WeightAt -> Words]
  PROVE  /\ \A x \in BiasAt : PerBias(f)[x[1]][x[2]] = f[x]
         /\ \A x \in WeightAt : PerWeight(g)[x[1]][x[2]][x[3]] = g[x]
         /\ Shaped([b |-> PerBias(f), w |-> PerWeight(g)])
<1>1. ASSUME NEW l \in 1..L
      PROVE  /\ PerBias(f)[l] = [j \in N(l) |-> f[<<l, j>>]]
             /\ PerWeight(g)[l] = [j \in N(l) |-> [k \in N(l - 1) |-> g[<<l, j, k>>]]]
  BY DEF PerBias, PerWeight
<1>1a. \A l \in 1..L : \A j \in N(l) : PerBias(f)[l][j] = f[<<l, j>>]
  <2> TAKE l \in 1..L
  <2>1. PerBias(f)[l] = [j \in N(l) |-> f[<<l, j>>]]
    BY <1>1
  <2> TAKE j \in N(l)
  <2>2. [h \in N(l) |-> f[<<l, h>>]][j] = f[<<l, j>>]
    OBVIOUS
  <2> QED
    BY <2>1, <2>2, Zenon
<1>1b. \A l \in 1..L : \A j \in N(l) : \A k \in N(l - 1) :
         PerWeight(g)[l][j][k] = g[<<l, j, k>>]
  <2> TAKE l \in 1..L
  <2>1. PerWeight(g)[l] = [j \in N(l) |-> [k \in N(l - 1) |-> g[<<l, j, k>>]]]
    BY <1>1
  <2> TAKE j \in N(l)
  <2>2. [h \in N(l) |-> [k \in N(l - 1) |-> g[<<l, h, k>>]]][j]
          = [k \in N(l - 1) |-> g[<<l, j, k>>]]
    OBVIOUS
  <2> TAKE k \in N(l - 1)
  <2>3. [h \in N(l - 1) |-> g[<<l, j, h>>]][k] = g[<<l, j, k>>]
    OBVIOUS
  <2> QED
    BY <2>1, <2>2, <2>3, Zenon
<1>2. ASSUME NEW x \in BiasAt PROVE PerBias(f)[x[1]][x[2]] = f[x]
  <2>1. x[1] \in 1..L /\ x[2] \in N(x[1]) /\ x = <<x[1], x[2]>>
    BY PlacesOfBiasLemma
  <2>2. PerBias(f)[x[1]][x[2]] = f[<<x[1], x[2]>>]
    BY <1>1a, <2>1, Zenon
  <2> QED
    BY <2>1, <2>2
<1>3. ASSUME NEW x \in WeightAt PROVE PerWeight(g)[x[1]][x[2]][x[3]] = g[x]
  <2>1. x[1] \in 1..L /\ x[2] \in N(x[1]) /\ x[3] \in N(x[1] - 1) /\ x = <<x[1], x[2], x[3]>>
    BY PlacesOfWeightLemma
  <2>2. PerWeight(g)[x[1]][x[2]][x[3]] = g[<<x[1], x[2], x[3]>>]
    BY <1>1b, <2>1, Zenon
  <2> QED
    BY <2>1, <2>2
<1>4. ASSUME NEW l \in 1..L
      PROVE  /\ PerBias(f)[l] \in [N(l) -> Words]
             /\ PerWeight(g)[l] \in [N(l) -> [N(l - 1) -> Words]]
  <2>1. \A j \in N(l) : f[<<l, j>>] \in Words
    BY PlacesOfBiasLemma
  <2>2. \A j \in N(l), k \in N(l - 1) : g[<<l, j, k>>] \in Words
    BY PlacesOfWeightLemma
  <2>3. [j \in N(l) |-> f[<<l, j>>]] \in [N(l) -> Words]
    BY <2>1
  <2>4. [j \in N(l) |-> [k \in N(l - 1) |-> g[<<l, j, k>>]]] \in [N(l) -> [N(l - 1) -> Words]]
    BY <2>2
  <2> QED
    BY <1>1, <2>3, <2>4, Zenon
<1>5. Shaped([b |-> PerBias(f), w |-> PerWeight(g)])
  BY <1>4 DEF Shaped
<1> QED
  BY <1>2, <1>3, <1>5

LEMMA ShapedLemma ==
  ASSUME NEW v, Shaped(v)
  PROVE  /\ \A x \in BiasAt : v.b[x[1]][x[2]] \in Words /\ v.b[x[1]][x[2]] \in Int
         /\ \A x \in WeightAt : v.w[x[1]][x[2]][x[3]] \in Words /\ v.w[x[1]][x[2]][x[3]] \in Int
<1>1. \A x \in BiasAt : v.b[x[1]][x[2]] \in Words
  BY PlacesOfBiasLemma DEF Shaped
<1>2. \A x \in WeightAt : v.w[x[1]][x[2]][x[3]] \in Words
  BY PlacesOfWeightLemma DEF Shaped
<1> QED
  BY <1>1, <1>2, WordsLemma

LEMMA ZerosLemma ==
  /\ Shaped(Zeros)
  /\ \A x \in BiasAt : Zeros.b[x[1]][x[2]] = 0
  /\ \A x \in WeightAt : Zeros.w[x[1]][x[2]][x[3]] = 0
<1> DEFINE f == [x \in BiasAt |-> 0]
           g == [x \in WeightAt |-> 0]
<1>1. f \in [BiasAt -> Words] /\ g \in [WeightAt -> Words]
  BY PLemma
<1>2. Zeros = [b |-> PerBias(f), w |-> PerWeight(g)]
  BY DEF Zeros
<1>3. (\A x \in BiasAt : f[x] = 0) /\ (\A x \in WeightAt : g[x] = 0)
  OBVIOUS
<1> HIDE DEF f, g
<1>4. Zeros.b = PerBias(f) /\ Zeros.w = PerWeight(g)
  BY <1>2
<1> QED
  BY <1>1, <1>2, <1>3, <1>4, ArraysLemma

(* What backprop adds.                                                     *)
LEMMA BackpropLemma ==
  ASSUME NEW v, Shaped(v), NEW d, Shaped(d), NEW s \in SampleType
  PROVE  /\ Shaped(backprop(v, d, s))
         /\ \A x \in BiasAt : backprop(v, d, s).b[x[1]][x[2]]
              = (d.b[x[1]][x[2]] + Derivative(v, s, x[1], x[2], Bias)) % P
         /\ \A x \in WeightAt : backprop(v, d, s).w[x[1]][x[2]][x[3]]
              = (d.w[x[1]][x[2]][x[3]] + Derivative(v, s, x[1], x[2], x[3])) % P
<1> DEFINE p == Forward(v, s.data)
           e == Errors(v, p, s.output)
           f == [x \in BiasAt |-> (d.b[x[1]][x[2]] + e[L - x[1]][x[2]]) % P]
           g == [x \in WeightAt |->
                  (d.w[x[1]][x[2]][x[3]] + e[L - x[1]][x[2]] * p[x[1] - 1].a[x[3]]) % P]
<1>1. backprop(v, d, s) = [b |-> PerBias(f), w |-> PerWeight(g)]
  BY Zenon DEF backprop
<1>2. s.output \in Vector(L) /\ s.data \in Vector(0)
  BY DEF SampleType
<1>3. Typed(p)
  BY <1>2, ForwardLemma DEF Typed
<1> HIDE DEF p
<1>4. \A l \in 1..L : \A j \in N(l) : e[L - l][j] \in Words /\ e[L - l][j] \in Int
  <2> TAKE l \in 1..L
  <2> TAKE j \in N(l)
  <2>1. L - l \in 0..(L - 1) /\ L - (L - l) = l
    BY LayersLemma
  <2>2. e[L - l] \in Vector(L - (L - l))
    BY <1>2, <1>3, <2>1, ErrorsLemma
  <2>3. e[L - l] \in Vector(l)
    BY <2>1, <2>2
  <2> QED
    BY <2>3, WordsLemma DEF Vector
<1>5. ASSUME NEW l \in 1..L, NEW j \in N(l), NEW k \in N(l - 1) \union {Bias}
      PROVE  Derivative(v, s, l, j, k) = (e[L - l][j] * Input(p, l, k)) % P
  BY BackpropIsDerivative DEF p
<1> HIDE DEF e
<1>6. ASSUME NEW x \in BiasAt
      PROVE  /\ f[x] \in Words
             /\ f[x] = (d.b[x[1]][x[2]] + Derivative(v, s, x[1], x[2], Bias)) % P
  <2> DEFINE l == x[1]
             j == x[2]
             y == d.b[l][j]
             z == e[L - l][j]
  <2>1. l \in 1..L /\ j \in N(l)
    BY PlacesOfBiasLemma
  <2>2. y \in Int /\ z \in Int /\ z \in Words
    BY <1>4, <2>1, ShapedLemma
  <2>3. f[x] = (y + z) % P
    OBVIOUS
  <2>4. Derivative(v, s, l, j, Bias) = (z * Input(p, l, Bias)) % P
    BY <1>5, <2>1
  <2>5. Input(p, l, Bias) = 1
    BY DEF Input
  <2> HIDE DEF f, l, j, y, z
  <2>6. z * 1 = z /\ z % P = z /\ y + z \in Int
    BY <2>2, PLemma
  <2>7. Derivative(v, s, l, j, Bias) = z
    BY <2>4, <2>5, <2>6
  <2>8. f[x] \in Words /\ f[x] = (y + Derivative(v, s, l, j, Bias)) % P
    BY <2>3, <2>6, <2>7, WordsLemma
  <2> QED
    BY <2>8 DEF l, j, y
<1>7. ASSUME NEW x \in WeightAt
      PROVE  /\ g[x] \in Words
             /\ g[x] = (d.w[x[1]][x[2]][x[3]] + Derivative(v, s, x[1], x[2], x[3])) % P
  <2> DEFINE l == x[1]
             j == x[2]
             k == x[3]
             y == d.w[l][j][k]
             z == e[L - l][j]
             a == p[l - 1].a[k]
  <2>1. l \in 1..L /\ j \in N(l) /\ k \in N(l - 1) /\ l - 1 \in 0..L
    <3>1. x[1] \in 1..L /\ x[2] \in N(x[1]) /\ x[3] \in N(x[1] - 1)
      BY PlacesOfWeightLemma
    <3> QED
      BY <3>1, LayersLemma
  <2>2. y \in Int /\ z \in Int
    BY <1>4, <2>1, ShapedLemma
  <2>3. k # Bias
    <3>1. k \in Nat
      BY <2>1, LayersLemma
    <3> QED
      BY <3>1 DEF Bias
  <2>4. a \in Int /\ Input(p, l, k) = a
    <3>1. a \in Words
      BY <1>3, <2>1 DEF Typed, Vector
    <3> QED
      BY <2>3, <3>1, WordsLemma DEF Input
  <2>5. g[x] = (y + z * a) % P
    OBVIOUS
  <2>6. Derivative(v, s, l, j, k) = (z * a) % P
    BY <1>5, <2>1, <2>4
  <2> HIDE DEF g, l, j, k, y, z, a
  <2> DEFINE q == z * a
             r == q % P
  <2>7. q \in Int /\ r \in Int /\ r % P = q % P
    BY <2>2, <2>4, ModLemma, ModTwiceLemma
  <2>8. g[x] = (y + q) % P /\ Derivative(v, s, l, j, k) = r
    BY <2>5, <2>6
  <2> HIDE DEF q, r
  <2>9. y + q \in Int /\ y + q = q + y /\ y + r = r + y
    BY <2>2, <2>7
  <2>10. (q + y) % P = (r + y) % P
    <3>1. (r + y) % P = ((r % P) + y) % P
      BY <2>2, <2>7, ModAddLemma
    <3>2. (q + y) % P = ((q % P) + y) % P
      BY <2>2, <2>7, ModAddLemma
    <3> QED
      BY <2>7, <3>1, <3>2
  <2>11. g[x] \in Words /\ g[x] = (y + Derivative(v, s, l, j, k)) % P
    BY <2>8, <2>9, <2>10, WordsLemma
  <2> QED
    BY <2>11 DEF l, j, k, y
<1>8. f \in [BiasAt -> Words] /\ g \in [WeightAt -> Words]
  <2>1. f = [x \in BiasAt |-> f[x]] /\ g = [x \in WeightAt |-> g[x]]
    OBVIOUS
  <2> HIDE DEF f, g
  <2> QED
    BY <1>6, <1>7, <2>1
<1> HIDE DEF f, g
<1>9. backprop(v, d, s).b = PerBias(f) /\ backprop(v, d, s).w = PerWeight(g)
  BY <1>1
<1>10. /\ \A x \in BiasAt : PerBias(f)[x[1]][x[2]] = f[x]
       /\ \A x \in WeightAt : PerWeight(g)[x[1]][x[2]][x[3]] = g[x]
       /\ Shaped([b |-> PerBias(f), w |-> PerWeight(g)])
  BY <1>8, ArraysLemma
<1> QED
  BY <1>1, <1>6, <1>7, <1>9, <1>10

-----------------------------------------------------------------------------
(* The invariant of the deltas.  While a minibatch is done, they are the   *)
(* sums of the derivatives for the samples taken since its first one.      *)

Taken(c) == {used[a] : a \in (c + 1)..i}

Slopes(v, S, l, j, k) == [s \in S |-> Derivative(v, samples[s + 1], l, j, k)]
Summed(v, d, S) ==
  /\ \A x \in BiasAt : d.b[x[1]][x[2]] = Sum(Slopes(v, S, x[1], x[2], Bias), S)
  /\ \A x \in WeightAt : d.w[x[1]][x[2]][x[3]] = Sum(Slopes(v, S, x[1], x[2], x[3]), S)

GradientInv ==
  /\ Shaped(net) /\ Shaped(delta)
  /\ pc = "sample" => \E k \in 0..((n \div m) - 1) :
                        i >= k * m /\ i < k * m + m /\ Summed(net, delta, Taken(k * m))
  /\ pc = "update" => \E k \in 0..((n \div m) - 1) :
                        i = k * m + m /\ Summed(net, delta, Taken(k * m))

LEMMA SampleTypeLemma ==
  ASSUME NEW t \in Places
  PROVE  samples[t + 1] \in SampleType
<1>1. samples \in Seq(SampleType)
  BY TrainingAssumption, Zenon DEF SampleType, Vector
<1>2. t + 1 \in 1..Len(samples)
  <2>1. n = Len(samples) /\ n \in Nat
    BY ConstantsLemma DEF n, training_size
  <2> QED
    BY <2>1 DEF Places
<1> QED
  BY <1>1, <1>2

LEMMA SlopeIntLemma ==
  ASSUME NEW v, Shaped(v), NEW s \in SampleType, NEW l \in 1..L, NEW j \in N(l),
         NEW k \in N(l - 1) \union {Bias}
  PROVE  Derivative(v, s, l, j, k) \in Int
<1> DEFINE p == Forward(v, s.data)
           e == Errors(v, p, s.output)
<1>1. s.output \in Vector(L) /\ s.data \in Vector(0)
  BY DEF SampleType
<1>2. Typed(p)
  BY <1>1, ForwardLemma DEF Typed
<1>3. Derivative(v, s, l, j, k) = (e[L - l][j] * Input(p, l, k)) % P
  BY BackpropIsDerivative
<1> HIDE DEF p
<1>4. L - l \in 0..(L - 1) /\ L - (L - l) = l
  BY LayersLemma
<1>5. e[L - l] \in Vector(L - (L - l))
  BY <1>1, <1>2, <1>4, ErrorsLemma
<1>6. e[L - l][j] \in Int
  BY <1>4, <1>5, WordsLemma DEF Vector
<1>7. Input(p, l, k) \in Int
  BY <1>2, InputLemma
<1> DEFINE y == e[L - l][j]
           z == Input(p, l, k)
<1>8. y \in Int /\ z \in Int
  BY <1>6, <1>7
<1> HIDE DEF y, z
<1>9. y * z \in Int
  BY <1>8
<1>10. (y * z) % P \in Int
  BY <1>9, ModLemma
<1> QED
  BY <1>3, <1>10 DEF y, z

(* One more sample.                                                        *)
LEMMA OneMoreLemma ==
  ASSUME NEW v, Shaped(v), NEW l \in 1..L, NEW j \in N(l), NEW k \in N(l - 1) \union {Bias},
         NEW S, IsFiniteSet(S), S \subseteq Places, NEW t \in Places, t \notin S
  PROVE  Sum(Slopes(v, S \union {t}, l, j, k), S \union {t})
           = (Sum(Slopes(v, S, l, j, k), S) + Derivative(v, samples[t + 1], l, j, k)) % P
<1> DEFINE U == S \union {t}
           f == Slopes(v, S, l, j, k)
           g == Slopes(v, U, l, j, k)
           y == Total(f, S)
           z == Derivative(v, samples[t + 1], l, j, k)
<1>1. U \ {t} = S /\ t \in U /\ IsFiniteSet(U) /\ U \subseteq Places
  BY FS_AddElement
<1>2. \A s \in U : Derivative(v, samples[s + 1], l, j, k) \in Int
  BY <1>1, SampleTypeLemma, SlopeIntLemma
<1>3. /\ \A s \in U : g[s] = Derivative(v, samples[s + 1], l, j, k)
      /\ \A s \in S : f[s] = Derivative(v, samples[s + 1], l, j, k)
  BY DEF Slopes
<1>4. IntsOn(g, U) /\ IntsOn(f, S) /\ IntsOn(g, S) /\ (\A s \in S : g[s] = f[s])
  BY <1>2, <1>3 DEF IntsOn
<1> HIDE DEF U, f, g
<1>5. Total(g, U) = g[t] + Total(g, S)
  BY <1>1, <1>4, TotalTakeLemma
<1>6. Total(g, S) = Total(f, S) /\ Total(f, S) \in Int
  BY <1>4, TotalSameLemma, TotalIntLemma
<1>7. g[t] = z /\ z \in Int /\ y \in Int
  BY <1>1, <1>2, <1>3, <1>6
<1>8. Sum(g, U) = Total(g, U) % P /\ Sum(f, S) = y % P
  BY SumIsTotal
<1> HIDE DEF y, z
<1>9. Total(g, U) = y + z
  BY <1>5, <1>6, <1>7 DEF y
<1>10. ((y % P) + z) % P = (y + z) % P
  BY <1>7, ModAddLemma
<1>11. Sum(g, U) = (Sum(f, S) + z) % P
  BY <1>8, <1>9, <1>10
<1> QED
  BY <1>11 DEF U, f, g, z

LEMMA NoSampleLemma ==
  ASSUME NEW v
  PROVE  Summed(v, Zeros, {})
<1>1. ASSUME NEW f PROVE Sum(f, {}) = 0
  <2>1. Total(f, {}) = 0 /\ 0 % P = 0
    BY TotalEmptyLemma, PLemma
  <2> QED
    BY <2>1, SumIsTotal
<1> QED
  BY <1>1, ZerosLemma DEF Summed

LEMMA SummedStepLemma ==
  ASSUME NEW v, Shaped(v), NEW d, Shaped(d), NEW S, IsFiniteSet(S), S \subseteq Places,
         Summed(v, d, S), NEW t \in Places, t \notin S
  PROVE  /\ Shaped(backprop(v, d, samples[t + 1]))
         /\ Summed(v, backprop(v, d, samples[t + 1]), S \union {t})
<1> DEFINE r == backprop(v, d, samples[t + 1])
<1>1. samples[t + 1] \in SampleType
  BY SampleTypeLemma
<1>2. /\ Shaped(r)
      /\ \A x \in BiasAt : r.b[x[1]][x[2]]
           = (d.b[x[1]][x[2]] + Derivative(v, samples[t + 1], x[1], x[2], Bias)) % P
      /\ \A x \in WeightAt : r.w[x[1]][x[2]][x[3]]
           = (d.w[x[1]][x[2]][x[3]] + Derivative(v, samples[t + 1], x[1], x[2], x[3])) % P
  BY <1>1, BackpropLemma
<1> HIDE DEF r
<1>3. ASSUME NEW x \in BiasAt
      PROVE  r.b[x[1]][x[2]] = Sum(Slopes(v, S \union {t}, x[1], x[2], Bias), S \union {t})
  <2>1. x[1] \in 1..L /\ x[2] \in N(x[1]) /\ Bias \in N(x[1] - 1) \union {Bias}
    BY PlacesOfBiasLemma
  <2>2. Sum(Slopes(v, S \union {t}, x[1], x[2], Bias), S \union {t})
          = (Sum(Slopes(v, S, x[1], x[2], Bias), S)
             + Derivative(v, samples[t + 1], x[1], x[2], Bias)) % P
    <3> DEFINE l == x[1]
               j == x[2]
               k == Bias
    <3>1. l \in 1..L /\ j \in N(l) /\ k \in N(l - 1) \union {Bias}
      BY <2>1
    <3> HIDE DEF l, j, k
    <3>2. Sum(Slopes(v, S \union {t}, l, j, k), S \union {t})
            = (Sum(Slopes(v, S, l, j, k), S) + Derivative(v, samples[t + 1], l, j, k)) % P
      BY <3>1, OneMoreLemma
    <3> QED
      BY <3>2 DEF l, j, k
  <2>3. d.b[x[1]][x[2]] = Sum(Slopes(v, S, x[1], x[2], Bias), S)
    BY DEF Summed
  <2> QED
    BY <1>2, <2>2, <2>3
<1>4. ASSUME NEW x \in WeightAt
      PROVE  r.w[x[1]][x[2]][x[3]] = Sum(Slopes(v, S \union {t}, x[1], x[2], x[3]), S \union {t})
  <2>1. x[1] \in 1..L /\ x[2] \in N(x[1]) /\ x[3] \in N(x[1] - 1) \union {Bias}
    BY PlacesOfWeightLemma
  <2>2. Sum(Slopes(v, S \union {t}, x[1], x[2], x[3]), S \union {t})
          = (Sum(Slopes(v, S, x[1], x[2], x[3]), S)
             + Derivative(v, samples[t + 1], x[1], x[2], x[3])) % P
    BY <2>1, OneMoreLemma
  <2>3. d.w[x[1]][x[2]][x[3]] = Sum(Slopes(v, S, x[1], x[2], x[3]), S)
    BY DEF Summed
  <2> QED
    BY <1>2, <2>2, <2>3
<1>5. Summed(v, r, S \union {t})
  BY <1>3, <1>4 DEF Summed
<1> QED
  BY <1>2, <1>5 DEF r

-----------------------------------------------------------------------------
LEMMA GradientInitLemma == Init => GradientInv
<1> SUFFICES ASSUME Init PROVE GradientInv
  OBVIOUS
<1>1. net \in nets /\ pc = "shuffle" /\ delta = Zeros
  BY DEF Init
<1>2. Shaped(net)
  BY <1>1, TrainingAssumption, Zenon
<1> QED
  BY <1>1, <1>2, ZerosLemma DEF GradientInv

LEMMA GradientBeginStep ==
  ASSUME SampleInv, GradientInv, BeginBatch
  PROVE  GradientInv'
<1>1. /\ pc = "batch" /\ pc' = "sample" /\ i \div m < n \div m /\ delta' = Zeros
      /\ net' = net /\ i' = i /\ used' = used
  BY DEF BeginBatch, MoreBatches, n, m
<1>2. PICK k \in 0..(n \div m) : i = k * m
  BY <1>1 DEF SampleInv, AtMultiple
<1>3. n \div m \in Nat /\ m \in Nat \ {0} /\ k \in Nat
  BY ConstantsLemma, DivLemma
<1>4. k < n \div m
  BY <1>1, <1>2, <1>3, BatchesLemma
<1>5. k \in 0..((n \div m) - 1) /\ i' >= k * m /\ i' < k * m + m /\ i \in Nat
  <2>1. k * m \in Nat
    BY <1>3
  <2> QED
    BY <1>1, <1>2, <1>3, <1>4, <2>1
<1>6. Taken(k * m)' = {}
  <2>1. (i + 1)..i = {}
    BY <1>5
  <2>2. Taken(k * m)' = {used[a] : a \in (i + 1)..i}
    BY <1>1, <1>2 DEF Taken
  <2> QED
    BY <2>1, <2>2
<1>7. Summed(net', delta', Taken(k * m)')
  BY <1>1, <1>6, NoSampleLemma
<1>8. Shaped(net') /\ Shaped(delta')
  BY <1>1, ZerosLemma DEF GradientInv
<1>9. \E c \in 0..((n \div m) - 1) :
        i' >= c * m /\ i' < c * m + m /\ Summed(net', delta', Taken(c * m)')
  BY <1>5, <1>7, Zenon
<1> QED
  BY <1>1, <1>8, <1>9 DEF GradientInv

LEMMA GradientSampleStep ==
  ASSUME SampleInv, GradientInv, Sample
  PROVE  GradientInv'
<1> DEFINE t == training_map[i]
<1>1. /\ pc = "sample" /\ i' = i + 1 /\ used' = Append(used, t)
      /\ pc' = (IF (i + 1) % m = 0 THEN "update" ELSE "sample")
      /\ net' = net /\ delta' = backprop(net, delta, samples[t + 1])
  BY DEF Sample, m
<1>2. /\ Permutation(training_map) /\ i \in Nat /\ used \in Seq(Places) /\ Len(used) = i
      /\ \A a \in 1..i : a - 1 \in Places /\ used[a] = training_map[a - 1]
  BY <1>1 DEF SampleInv
<1>3. PICK k \in 0..((n \div m) - 1) : i >= k * m /\ i < k * m + m
                                       /\ Summed(net, delta, Taken(k * m))
  BY <1>1 DEF GradientInv
<1>4. n \div m \in Nat /\ m \in Nat \ {0} /\ k \in Nat /\ n \in Nat
  BY ConstantsLemma, DivLemma
<1>5. k * m \in Nat /\ (k + 1) * m = k * m + m
  BY <1>4, MultipleLemma
<1>6. i \in Places
  <2>1. SampleInv'
    BY SampleStep
  <2>2. pc' # "shuffle" /\ i' = i + 1
    BY <1>1
  <2>3. \A a \in 1..i' : a - 1 \in Places
    BY <2>1, <2>2 DEF SampleInv
  <2>4. i + 1 \in 1..i' /\ (i + 1) - 1 = i
    BY <1>1, <1>2
  <2> QED
    BY <2>3, <2>4
<1>7. t \in Places
  BY <1>2, <1>6 DEF Permutation
<1> HIDE DEF t
<1> DEFINE c == k * m
           S == Taken(c)
<1>8. S \subseteq Places /\ IsFiniteSet(S)
  <2>1. c \in Nat /\ S = {used[a] : a \in (c + 1)..i}
    BY <1>5 DEF Taken
  <2> HIDE DEF c
  <2>2. \A a \in (c + 1)..i : a \in 1..i
    BY <1>2, <2>1
  <2>3. S \subseteq Places
    BY <1>2, <2>1, <2>2
  <2>4. IsFiniteSet(Places)
    BY <1>4, FS_Interval DEF Places
  <2> HIDE DEF S
  <2> QED
    BY <2>3, <2>4, FS_Subset
<1>9. t \notin S
  <2> SUFFICES ASSUME NEW a \in (c + 1)..i, used[a] = t PROVE FALSE
    BY DEF Taken
  <2> HIDE DEF S
  <2>1. a \in 1..i
    BY <1>2, <1>5
  <2>2. training_map[a - 1] = training_map[i] /\ a - 1 \in Places
    BY <1>2, <2>1 DEF t
  <2>3. a - 1 = i
    BY <1>2, <1>6, <2>2, Zenon DEF Permutation
  <2> QED
    BY <1>2, <2>1, <2>3
<1>10. Taken(c)' = S \union {t}
  <2>1. /\ used'[i + 1] = t /\ \A a \in 1..i : used'[a] = used[a]
    BY <1>1, <1>2, <1>7, AppendProperties
  <2>2. Taken(c)' = {used'[a] : a \in (c + 1)..(i + 1)}
    BY <1>1 DEF Taken
  <2>3. c \in Nat /\ c <= i
    BY <1>3, <1>5
  <2> HIDE DEF c
  <2>4. (c + 1)..(i + 1) = ((c + 1)..i) \union {i + 1} /\ \A a \in (c + 1)..i : a \in 1..i
    BY <1>2, <2>3
  <2> HIDE DEF S
  <2>5. {used'[a] : a \in (c + 1)..(i + 1)} = {used[a] : a \in (c + 1)..i} \union {t}
    BY <2>1, <2>4
  <2> QED
    BY <2>2, <2>5 DEF S, Taken
<1>11. Shaped(delta') /\ Summed(net', delta', Taken(c)')
  <2>1. Shaped(net) /\ Shaped(delta) /\ Summed(net, delta, S)
    BY <1>3 DEF GradientInv
  <2> HIDE DEF S
  <2>2. /\ Shaped(backprop(net, delta, samples[t + 1]))
        /\ Summed(net, backprop(net, delta, samples[t + 1]), S \union {t})
    BY <1>7, <1>8, <1>9, <2>1, SummedStepLemma
  <2> QED
    BY <1>1, <1>10, <2>2
<1>12. Shaped(net')
  BY <1>1 DEF GradientInv
<1>13. CASE i + 1 = k * m + m
  <2>1. 0 \in 0..(m - 1)
    BY <1>4
  <2>2. ((k + 1) * m + 0) % m = 0
    BY <1>4, <2>1, DivIsLemma
  <2>3. (i + 1) % m = 0
    BY <1>4, <1>5, <1>13, <2>2
  <2>4. pc' = "update" /\ i' = k * m + m
    BY <1>1, <1>13, <2>3
  <2>5. \E b \in 0..((n \div m) - 1) : i' = b * m + m /\ Summed(net', delta', Taken(b * m)')
    BY <1>11, <2>4, Zenon
  <2> QED
    BY <1>11, <1>12, <2>4, <2>5 DEF GradientInv
<1>14. CASE i + 1 # k * m + m
  <2> DEFINE r == i + 1 - k * m
  <2>1. r \in 0..(m - 1) /\ r # 0 /\ i + 1 = k * m + r
    BY <1>2, <1>3, <1>4, <1>5, <1>14
  <2> HIDE DEF r
  <2>2. (k * m + r) % m = r
    BY <1>4, <2>1, DivIsLemma
  <2>3. pc' = "sample" /\ i' >= k * m /\ i' < k * m + m
    <3>1. (i + 1) % m # 0
      BY <2>1, <2>2
    <3>2. pc' = "sample" /\ i' = i + 1
      BY <1>1, <3>1
    <3>3. i >= c /\ i < c + m /\ i + 1 # c + m /\ c \in Nat
      BY <1>3, <1>5, <1>14
    <3> HIDE DEF c
    <3>4. i' >= c /\ i' < c + m
      BY <1>2, <1>4, <3>2, <3>3
    <3> QED
      BY <3>2, <3>4 DEF c
  <2>4. \E b \in 0..((n \div m) - 1) :
          i' >= b * m /\ i' < b * m + m /\ Summed(net', delta', Taken(b * m)')
    BY <1>11, <2>3, Zenon
  <2> QED
    BY <1>11, <1>12, <2>3, <2>4 DEF GradientInv
<1> QED
  BY <1>13, <1>14

LEMMA GradientUpdateStep ==
  ASSUME SampleInv, GradientInv, Update
  PROVE  GradientInv'
<1> DEFINE f == [x \in BiasAt |-> Stepped(net.b[x[1]][x[2]], delta.b[x[1]][x[2]])]
           g == [x \in WeightAt |-> Stepped(net.w[x[1]][x[2]][x[3]], delta.w[x[1]][x[2]][x[3]])]
<1>1. pc' = "batch" /\ delta' = delta /\ net' = [b |-> PerBias(f), w |-> PerWeight(g)]
  BY DEF Update
<1>2. ASSUME NEW x \in Int, NEW d \in Int PROVE Stepped(x, d) \in Words
  <2>1. rate \in Int
    <3>1. rate \in Words
      BY TrainingAssumption, Zenon
    <3> QED
      BY <3>1, WordsLemma
  <2>2. x - rate * d \in Int
    BY <2>1
  <2> QED
    BY <2>2, WordsLemma DEF Stepped
<1>3. Shaped(net) /\ Shaped(delta)
  BY DEF GradientInv
<1>4. \A x \in BiasAt : f[x] \in Words
  BY <1>2, <1>3, ShapedLemma
<1>5. \A x \in WeightAt : g[x] \in Words
  BY <1>2, <1>3, ShapedLemma
<1>6. f \in [BiasAt -> Words] /\ g \in [WeightAt -> Words]
  <2>1. f = [x \in BiasAt |-> f[x]] /\ g = [x \in WeightAt |-> g[x]]
    OBVIOUS
  <2> HIDE DEF f, g
  <2> QED
    BY <1>4, <1>5, <2>1
<1> HIDE DEF f, g
<1>7. Shaped(net')
  BY <1>1, <1>6, ArraysLemma
<1> QED
  BY <1>1, <1>3, <1>7 DEF GradientInv

LEMMA GradientOtherSteps ==
  ASSUME GradientInv, NEW r,
         Shuffle(r) \/ EndShuffle \/ EndEpoch \/ UNCHANGED vars
  PROVE  GradientInv'
<1>1. CASE Shuffle(r)
  <2>1. pc = "shuffle" /\ pc' = pc /\ net' = net /\ delta' = delta
    BY <1>1 DEF Shuffle
  <2> QED
    BY <2>1 DEF GradientInv
<1>2. CASE EndShuffle
  <2>1. pc' = "batch" /\ net' = net /\ delta' = delta
    BY <1>2 DEF EndShuffle
  <2> QED
    BY <2>1 DEF GradientInv
<1>3. CASE EndEpoch
  <2>1. pc' = "shuffle" /\ net' = net /\ delta' = delta
    BY <1>3 DEF EndEpoch
  <2> QED
    BY <2>1 DEF GradientInv
<1>4. CASE UNCHANGED vars
  <2>1. pc' = pc /\ net' = net /\ delta' = delta /\ i' = i /\ used' = used
    BY <1>4 DEF vars
  <2> QED
    BY <2>1 DEF GradientInv, Taken
<1> QED
  BY <1>1, <1>2, <1>3, <1>4

(* The invariant of the deltas.                                            *)
THEOREM GradientInvariant == Spec => []GradientInv
<1>1. SampleInv /\ GradientInv /\ [Next]_vars => GradientInv'
  BY GradientBeginStep, GradientSampleStep, GradientUpdateStep, GradientOtherSteps DEF Next
<1> QED
  BY <1>1, GradientInitLemma, SampleInvariant, PTL DEF Spec

(* network.c, update_mini_batch and backprop: the deltas of a minibatch    *)
(* are the derivatives of the cost of its samples, for any layers, samples *)
(* and squashing function: the backward pass is the chain rule.            *)
THEOREM DeltasAreGradientsTheorem == Spec => []DeltasAreGradients
<1>1. SampleInv /\ GradientInv => DeltasAreGradients
  <2> SUFFICES ASSUME SampleInv, GradientInv, pc = "update" PROVE DeltasAreGradients
    BY DEF DeltasAreGradients
  <2>1. PICK k \in 0..((n \div m) - 1) : i = k * m + m /\ Summed(net, delta, Taken(k * m))
    BY DEF GradientInv
  <2>2. n \div m \in Nat /\ m \in Nat \ {0} /\ k \in Nat
    BY ConstantsLemma, DivLemma
  <2>3. k * m \in Nat /\ (k + 1) * m = k * m + m
    BY <2>2, MultipleLemma
  <2>4. 0 \in 0..(m - 1)
    BY <2>2
  <2>5. ((k + 1) * m + 0) % m = 0
    BY <2>2, <2>4, DivIsLemma
  <2>6. i % m = 0 /\ i - m = k * m
    BY <2>1, <2>2, <2>3, <2>5
  <2>7. Batch = Taken(k * m)
    BY <2>6 DEF Batch, Taken, m
  <2> QED
    BY <2>1, <2>7 DEF DeltasAreGradients, Summed, Slopes
<1> QED
  BY <1>1, SampleInvariant, GradientInvariant, PTL
=============================================================================
