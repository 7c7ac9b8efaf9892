----------------------------- MODULE MCTraining -----------------------------
(***************************************************************************)
(* A small instance of the training for TLC: two hidden layers, three      *)
(* samples in minibatches of two, so that one is left out of each epoch.   *)
(***************************************************************************)
EXTENDS Training, TLC

MCsizes   == <<1, 2, 2, 2>>
MCsquash  == (0 :> 3 @@ 1 :> 4 @@ 2 :> 0 @@ 3 :> 2 @@ 4 :> 2)
MCsamples == <<[data |-> (0 :> 1), output |-> (0 :> 1 @@ 1 :> 0)],
               [data |-> (0 :> 4), output |-> (0 :> 0 @@ 1 :> 1)],
               [data |-> (0 :> 2), output |-> (0 :> 1 @@ 1 :> 2)]>>

(* Networks without a pattern: quadratic in the position, one per seed.    *)
MCnets == {[b |-> PerBias([x \in BiasAt |-> (s + 2 * x[1] + 3 * x[2] * s) % P]),
            w |-> PerWeight([x \in WeightAt |->
                    (1 + s * x[1] + 2 * x[2] + 3 * x[3] + x[2] * x[3] * s) % P])] : s \in 0..4}
=============================================================================
