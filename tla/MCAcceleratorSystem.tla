-------------------------- MODULE MCAcceleratorSystem --------------------------
(****************************************************************************)
(* Values for the constants of AcceleratorSystem.  Words are terms, so that *)
(* two words are equal only when the same operations made them of the same  *)
(* parameters; addition and multiplication are commutative, as the float    *)
(* operations are, and not associative.                                     *)
(****************************************************************************)
EXTENDS AcceleratorSystem

(* A term: an operation, the place of a leaf, the set of its operands.      *)
Term(op, id, args) == [op |-> op, id |-> id, args |-> args]

MCZero == Term("zero", <<>>, {})
MCUnwritten == Term("unwritten", <<>>, {})
MCWeight(l, n, m) == Term("weight", <<l, n, m>>, {})
MCBias(l, n) == Term("bias", <<l, n>>, {})
MCInput(t, m) == Term("input", <<t, m>>, {})
MCMul(a, b) == Term("mul", <<>>, {a, b})
MCAdd(a, b) == Term("add", <<>>, {a, b})
MCSigmoid(a) == Term("sigmoid", <<>>, {a})
============================================================================
