--------------------------- MODULE MCQuadportRamEnv ----------------------------
(****************************************************************************)
(* Values for QuadportRamEnv: a memory of two groups of four words, two     *)
(* different words, and groups written with every lane distinguished from   *)
(* its neighbours.                                                          *)
(****************************************************************************)
EXTENDS QuadportRamEnv, Sequences

CONSTANT w1

MCWord == {Zero, w1}
MCWrittenGroups == {<<w1, Zero, Zero, Zero>>, <<w1, Zero, w1, w1>>}
============================================================================
