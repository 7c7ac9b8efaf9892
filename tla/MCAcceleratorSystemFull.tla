------------------------ MODULE MCAcceleratorSystemFull ------------------------
(****************************************************************************)
(* Values for the constants of AcceleratorSystem with layers of full size.  *)
(* Words are fingerprints: numbers modulo a prime, with operations that are *)
(* commutative and not associative, so that two computations of the same    *)
(* word are the same but for a coincidence.                                 *)
(****************************************************************************)
EXTENDS AcceleratorSystemInv

Prime == 10007

MCZero == 0
MCUnwritten == 1
MCWeight(l, n, m) == (2 + 5003 * l + 89 * n + 7 * m) % Prime
MCBias(l, n) == (3001 + 4001 * l + 17 * n) % Prime
MCInput(t, m) == (7001 + 97 * t + 11 * m) % Prime
MCMul(a, b) == (3 * a * b + 5 * (a + b) + 19) % Prime
MCAdd(a, b) == (a * a + b * b + 7 * a * b + a + b + 1) % Prime
MCSigmoid(a) == (a * a + 13 * a + 23) % Prime
============================================================================
