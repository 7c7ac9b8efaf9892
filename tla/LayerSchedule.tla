----------------------------- MODULE LayerSchedule -----------------------------
(****************************************************************************)
(* What the controller promises: the order of the work of one inference.    *)
(*                                                                          *)
(* The state is a cursor on the next unit of work.  For the hidden layer,   *)
(* then for the output layer: every (input activation, group of four        *)
(* neurons) pair is multiplied and accumulated, activations in order and    *)
(* groups in order within an activation; only then is each group given its  *)
(* bias, then its sigmoid, then stored.  Nothing is skipped, repeated or    *)
(* reordered, and the sizes of the layers do not change under the way.      *)
(*                                                                          *)
(* The layer loop, the activation loop and the group loop of feedforward()  *)
(* in network.c, with the groups of four that the hardware adds.            *)
(****************************************************************************)
EXTENDS Integers

CONSTANT InputSize

VARIABLES
  phase,  \* "idle", the kind of the next unit of work, or "done"
  layer,  \* its layer, 1 or 2
  act,    \* the input activation it uses, from 0 (phase "mac")
  group,  \* the group of neurons it is for, from 0
  net     \* the sizes of the hidden and of the output layer

vars == <<phase, layer, act, group, net>>

Inputs == IF layer = 1 THEN InputSize ELSE net.hidden
Neurons == IF layer = 1 THEN net.hidden ELSE net.output
GroupsOf(n) == (n + 3) \div 4

Idle == phase = "idle" /\ layer = 1 /\ act = 0 /\ group = 0

Init == Idle

(* The network may be changed only between inferences.                      *)
Configure ==
  /\ Idle
  /\ UNCHANGED <<phase, layer, act, group>>

Start ==
  /\ Idle
  /\ phase' = "mac"
  /\ UNCHANGED <<layer, act, group, net>>

LastGroup == group + 1 = GroupsOf(Neurons)

MultiplyAccumulate ==
  /\ phase = "mac"
  /\ IF ~LastGroup
     THEN group' = group + 1 /\ UNCHANGED <<phase, act>>
     ELSE /\ group' = 0
          /\ IF act + 1 < Inputs
             THEN act' = act + 1 /\ phase' = phase
             ELSE act' = 0 /\ phase' = "bias"
  /\ UNCHANGED <<layer, net>>

(* One group of the pass p over the neurons, which the pass next follows.   *)
Pass(p, next) ==
  /\ phase = p
  /\ IF ~LastGroup
     THEN group' = group + 1 /\ phase' = phase
     ELSE group' = 0 /\ phase' = next
  /\ UNCHANGED <<layer, act, net>>

AddBias == Pass("bias", "sigmoid")
ApplySigmoid == Pass("sigmoid", "store")

Store ==
  /\ phase = "store"
  /\ IF ~LastGroup
     THEN group' = group + 1 /\ UNCHANGED <<phase, layer>>
     ELSE /\ group' = 0
          /\ IF layer = 1
             THEN phase' = "mac" /\ layer' = 2
             ELSE phase' = "done" /\ layer' = 1
  /\ UNCHANGED <<act, net>>

Finish ==
  /\ phase = "done"
  /\ phase' = "idle"
  /\ UNCHANGED <<layer, act, group, net>>

(* The reset of the chip abandons the inference.                            *)
Abort == phase' = "idle" /\ layer' = 1 /\ act' = 0 /\ group' = 0

Next ==
  \/ Configure \/ Start \/ MultiplyAccumulate \/ AddBias \/ ApplySigmoid \/ Store
  \/ Finish \/ Abort

Spec == Init /\ [][Next]_vars
============================================================================
