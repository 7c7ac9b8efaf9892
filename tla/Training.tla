------------------------------ MODULE Training ------------------------------
(***************************************************************************)
(* Stochastic gradient descent: SGD, shuffle, update_mini_batch and        *)
(* backprop of network.c.  The order of the loops and of the updates is    *)
(* the code's.  Numbers are those of a prime field and the squashing       *)
(* function is any table on it, so that an expression is right here only   *)
(* if it is the right polynomial: exact where floats round.                *)
(***************************************************************************)
EXTENDS Integers, Sequences, FiniteSets, FiniteSetsExt

CONSTANTS
  P,          \* the prime
  squash,     \* sigmoid(), as a table
  sizes,      \* neurons per layer, the input layer first
  rate,       \* eta / mini_batch_size
  samples,    \* training_set: records of data and output
  nets,       \* the networks to start from
  epochs, mini_batch_size,
  RAND_MAX

L     == Len(sizes) - 1                \* nlayers - 1
N(l)  == 0..(sizes[l + 1] - 1)         \* the neurons of layer l
Words == 0..(P - 1)
training_size == Len(samples)

(* A network has a bias per neuron and a weight per input of it.           *)
Shaped(n) ==
  \A l \in 1..L : n.b[l] \in [N(l) -> Words] /\ n.w[l] \in [N(l) -> [N(l - 1) -> Words]]

ASSUME TrainingAssumption ==
  /\ P \in Nat \ {0, 1} /\ squash \in [Words -> Words] /\ rate \in Words
  /\ sizes \in Seq(Nat \ {0}) /\ Len(sizes) > 1
  /\ samples \in Seq([data : [N(0) -> Words], output : [N(L) -> Words]])
  /\ \A n \in nets : Shaped(n)
  /\ epochs \in Nat /\ mini_batch_size \in Nat \ {0} /\ RAND_MAX \in Nat

VARIABLES
  net,           \* the biases and weights
  training_map,  \* the order of the samples
  epoch, pc, i,  \* the loops of SGD, shuffle and update_mini_batch
  delta,         \* db and dw
  used           \* history: the samples trained on in this epoch

vars == <<net, training_map, epoch, pc, i, delta, used>>

-----------------------------------------------------------------------------
(* Arithmetic: dot, dot_transpose, cost_derivative, sigmoid, sigmoid_prime.*)

Sum(f, S)              == MapThenSumSet(LAMBDA k : f[k], S) % P
dot(l, a, b)           == Sum([k \in N(l) |-> a[k] * b[k]], N(l))
dot_transpose(l, k, a, b) == Sum([j \in N(l) |-> a[j][k] * b[j]], N(l))
sigmoid_prime(z)       == (squash[z] * (1 - squash[z])) % P

(* Arrays of one number per bias and one per weight.                       *)
PerBias(f)   == [l \in 1..L |-> [j \in N(l) |-> f[<<l, j>>]]]
PerWeight(f) == [l \in 1..L |-> [j \in N(l) |-> [k \in N(l - 1) |-> f[<<l, j, k>>]]]]
Neurons      == UNION {N(l) : l \in 0..L}
BiasAt       == {x \in (1..L) \X Neurons : x[2] \in N(x[1])}
WeightAt     == {x \in (1..L) \X Neurons \X Neurons : x[2] \in N(x[1]) /\ x[3] \in N(x[1] - 1)}
Zeros        == [b |-> PerBias([x \in BiasAt |-> 0]), w |-> PerWeight([x \in WeightAt |-> 0])]

(* The feedforward pass: z and the activations of every layer.             *)
Forward(n, data) ==
  LET pass[l \in 0..L] ==
        IF l = 0 THEN [z |-> data, a |-> data]
        ELSE LET z == [j \in N(l) |-> (dot(l - 1, pass[l - 1].a, n.w[l][j]) + n.b[l][j]) % P]
             IN  [z |-> z, a |-> [j \in N(l) |-> squash[z[j]]]]
  IN  pass

(* Variant: the weights of the layer are used before the one above.        *)
Errors_untransposed(n, pass, output) ==
  LET err[m \in 0..(L - 1)] ==
        LET l == L - m
        IN  [j \in N(l) |->
               ((IF m = 0 THEN pass[L].a[j] - output[j]
                 ELSE dot(l + 1, err[m - 1], n.w[l + 1][j]))
                * sigmoid_prime(pass[l].z[j])) % P]
  IN  err

(* The backward pass: delta, from the output layer down.                   *)
Errors(n, pass, output) ==
  LET err[m \in 0..(L - 1)] ==
        LET l == L - m
        IN  [j \in N(l) |->
               ((IF m = 0 THEN pass[L].a[j] - output[j]
                 ELSE dot_transpose(l + 1, j, n.w[l + 1], err[m - 1]))
                * sigmoid_prime(pass[l].z[j])) % P]
  IN  err

(* backprop: what one sample adds to db and dw.                            *)
backprop(n, d, sample) ==
  LET pass == Forward(n, sample.data)
      err  == Errors(n, pass, sample.output)
  IN  [b |-> PerBias([x \in BiasAt |-> (d.b[x[1]][x[2]] + err[L - x[1]][x[2]]) % P]),
       w |-> PerWeight([x \in WeightAt |->
               (d.w[x[1]][x[2]][x[3]] + err[L - x[1]][x[2]] * pass[x[1] - 1].a[x[3]]) % P])]

-----------------------------------------------------------------------------
Init ==
  /\ net \in nets
  /\ training_map = [k \in 0..(training_size - 1) |-> k]
  /\ epoch = 0 /\ pc = "shuffle" /\ i = 0 /\ delta = Zeros /\ used = <<>>

(* The element that rand() = r swaps with element k.                       *)
Pick(k, r) == k + r \div (RAND_MAX \div (training_size - k) + 1)

(* Variant: t is read after array[j] is overwritten.                       *)
Shuffle_late(r) ==
  /\ pc = "shuffle" /\ epoch < epochs /\ i < training_size - 1
  /\ training_map' = [training_map EXCEPT ![Pick(i, r)] = training_map[i]]
  /\ i' = i + 1
  /\ UNCHANGED <<net, epoch, pc, delta, used>>

(* One swap of shuffle.                                                    *)
Shuffle(r) ==
  /\ pc = "shuffle" /\ epoch < epochs /\ i < training_size - 1
  /\ LET j == Pick(i, r)
     IN  training_map' = [training_map EXCEPT ![j] = training_map[i], ![i] = training_map[j]]
  /\ i' = i + 1
  /\ UNCHANGED <<net, epoch, pc, delta, used>>

EndShuffle ==
  /\ pc = "shuffle" /\ epoch < epochs /\ i >= training_size - 1
  /\ pc' = "batch" /\ i' = 0 /\ used' = <<>>
  /\ UNCHANGED <<net, training_map, epoch, delta>>

MoreBatches == i \div mini_batch_size < training_size \div mini_batch_size

(* update_mini_batch: zero the deltas.                                     *)
BeginBatch ==
  /\ pc = "batch" /\ MoreBatches
  /\ delta' = Zeros /\ pc' = "sample"
  /\ UNCHANGED <<net, training_map, epoch, i, used>>

(* One sample of the minibatch.                                            *)
Sample ==
  /\ pc = "sample"
  /\ delta' = backprop(net, delta, samples[training_map[i] + 1])
  /\ used' = Append(used, training_map[i])
  /\ i' = i + 1
  /\ pc' = IF (i + 1) % mini_batch_size = 0 THEN "update" ELSE "sample"
  /\ UNCHANGED <<net, training_map, epoch>>

Stepped(x, d) == (x - rate * d) % P

(* The step against the gradient.                                          *)
Update ==
  /\ pc = "update"
  /\ net' = [b |-> PerBias([x \in BiasAt |-> Stepped(net.b[x[1]][x[2]], delta.b[x[1]][x[2]])]),
             w |-> PerWeight([x \in WeightAt |->
                     Stepped(net.w[x[1]][x[2]][x[3]], delta.w[x[1]][x[2]][x[3]])])]
  /\ pc' = "batch"
  /\ UNCHANGED <<training_map, epoch, i, delta, used>>

EndEpoch ==
  /\ pc = "batch" /\ ~ MoreBatches
  /\ pc' = "shuffle" /\ i' = 0 /\ epoch' = epoch + 1
  /\ UNCHANGED <<net, training_map, delta, used>>

Next == \/ \E r \in 0..RAND_MAX : Shuffle(r)
        \/ EndShuffle \/ BeginBatch \/ Sample \/ Update \/ EndEpoch

Spec == Init /\ [][Next]_vars

-----------------------------------------------------------------------------
(* The derivative of the cost sum((a - y)^2) / 2 with respect to bias j of *)
(* layer l, or its weight k, by the chain rule from the inputs up.         *)

Bias == -1
Derivative(n, sample, l, j, k) ==
  LET pass == Forward(n, sample.data)
      da[m \in 0..L] ==
        IF m < l THEN [h \in N(m) |-> 0]
        ELSE [h \in N(m) |->
                (sigmoid_prime(pass[m].z[h])
                 * (IF m > l THEN dot(m - 1, n.w[m][h], da[m - 1])
                    ELSE IF h # j THEN 0 ELSE IF k = Bias THEN 1 ELSE pass[l - 1].a[k])) % P]
  IN  Sum([h \in N(L) |-> (pass[L].a[h] - sample.output[h]) * da[L][h]], N(L))

(* The samples of the current minibatch so far.                            *)
Batch == LET first == IF i % mini_batch_size = 0 THEN i - mini_batch_size
                      ELSE i - (i % mini_batch_size)
         IN  {used[m] : m \in (first + 1)..i}

(* update_mini_batch and backprop, "the gradient of the cost function":    *)
(* when a minibatch is done, every bias and weight has the sum of the      *)
(* derivatives of the cost of exactly its samples, none of another batch   *)
(* and none from weights that were changed meanwhile.                      *)
DeltasAreGradients ==
  pc = "update" =>
    /\ \A x \in BiasAt : delta.b[x[1]][x[2]] =
         Sum([s \in Batch |-> Derivative(net, samples[s + 1], x[1], x[2], Bias)], Batch)
    /\ \A x \in WeightAt : delta.w[x[1]][x[2]][x[3]] =
         Sum([s \in Batch |-> Derivative(net, samples[s + 1], x[1], x[2], x[3])], Batch)

(* SGD, "Randomize indices in the training set and assign a range of the   *)
(* random indizes to each minibatch": the order stays a permutation        *)
(* whatever rand() returns, so no sample is trained on twice in an epoch;  *)
(* only those that do not fill a minibatch are left out.                   *)
EachSampleOnce ==
  /\ {training_map[k] : k \in DOMAIN training_map} = 0..(training_size - 1)
  /\ Cardinality({used[m] : m \in DOMAIN used}) = Len(used)
  /\ pc = "shuffle" /\ i = 0 /\ epoch > 0 =>
       Len(used) = training_size - (training_size % mini_batch_size)
=============================================================================
