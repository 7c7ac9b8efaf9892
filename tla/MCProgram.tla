----------------------------- MODULE MCProgram -----------------------------
(***************************************************************************)
(* A small instance of the program for TLC: one input, two hidden neurons  *)
(* and three outputs, so thirteen numbers in a whole file.                 *)
(***************************************************************************)
EXTENDS Program

MClabels == <<<<0, 2>>, <<1>>>>

(* No file, an empty one, one that ends within a neuron, a whole one and   *)
(* one that is too long.                                                   *)
MCInitialFiles == {NoFile} \union {[n \in 1..len |-> Float(10 + n)] : len \in {0, 6, 13, 14}}
=============================================================================
