----------------------------- MODULE MCJtagUart -----------------------------
(***************************************************************************)
(* Small instances of the JTAG UART driver for TLC: buffers of three bytes *)
(* that a call of three wraps around, with and without a system clock,     *)
(* much traffic one way or a little both ways.                             *)
(***************************************************************************)
EXTENDS JtagUart

MCLoads == {<<4, 0>>, <<0, 4>>, <<1, 1>>}
=============================================================================
