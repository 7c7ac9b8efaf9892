-------------------------------- MODULE FlatRam --------------------------------
(****************************************************************************)
(* What the four-port RAM promises: one flat memory of RamWords words.  A   *)
(* request reads or writes the word at an address, or the four words of the *)
(* group that the address lies in; the words read are on the output in the  *)
(* next cycle.  A cycle that does not read leaves nothing on the output     *)
(* that a user may rely on, which is stated as: any words at all.           *)
(*                                                                          *)
(* The operations are actions with their arguments; the module that maps a  *)
(* memory onto this one says which of its operations is which of these.     *)
(****************************************************************************)
EXTENDS Naturals

CONSTANTS RamWords, Word

VARIABLES
  mem,   \* the memory
  dout   \* the words on the output, by lane; lanes not read are not constrained

flatVars == <<mem, dout>>

Addr == 0 .. RamWords - 1
Lanes == 0 .. 3

(* The first address of the group of four that a lies in.                   *)
GroupOf(a) == 4 * (a \div 4)

FlatInit == mem \in [Addr -> Word] /\ dout \in [Lanes -> Word]

ReadOne(a) ==
  /\ dout' \in [Lanes -> Word]
  /\ dout'[0] = mem[a]
  /\ UNCHANGED mem

ReadFour(a) ==
  /\ dout' = [l \in Lanes |-> mem[GroupOf(a) + l]]
  /\ UNCHANGED mem

WriteOne(a, w) ==
  /\ mem' = [mem EXCEPT ![a] = w]
  /\ dout' \in [Lanes -> Word]

WriteFour(a, ws) ==
  /\ mem' = [b \in Addr |-> IF GroupOf(b) = GroupOf(a) THEN ws[b % 4] ELSE mem[b]]
  /\ dout' \in [Lanes -> Word]

NoAccess == UNCHANGED mem /\ dout' \in [Lanes -> Word]
============================================================================
