--------------------------- MODULE ConsoleStream ---------------------------
(***************************************************************************)
(* What the console promises the program: two bounded streams, one in each *)
(* direction.  The n-th byte that one side receives is the n-th byte that  *)
(* the other side sent, so a byte is named by its number.                  *)
(***************************************************************************)
EXTENDS Integers, Sequences

CONSTANTS OutCapacity, InCapacity  \* bytes each stream can hold

VARIABLES
  accepted,  \* how many bytes the program has handed over
  got,       \* the bytes the host has received
  sent,      \* how many bytes the host has handed over
  read       \* the bytes the program has received

vars == <<accepted, got, sent, read>>

Init == accepted = 0 /\ got = <<>> /\ sent = 0 /\ read = <<>>

Accept(n)  == accepted + n - Len(got) <= OutCapacity /\ accepted' = accepted + n
              /\ UNCHANGED <<got, sent, read>>
HostTakes  == Len(got) < accepted /\ got' = Append(got, Len(got) + 1)
              /\ UNCHANGED <<accepted, sent, read>>
HostSends  == sent - Len(read) < InCapacity /\ sent' = sent + 1
              /\ UNCHANGED <<accepted, got, read>>
Receive(n) == Len(read) + n <= sent
              /\ read' = read \o [k \in 1..n |-> Len(read) + k]
              /\ UNCHANGED <<accepted, got, sent>>

Next == \/ \E n \in 1..OutCapacity : Accept(n)
        \/ HostTakes \/ HostSends
        \/ \E n \in 1..InCapacity : Receive(n)

Spec == Init /\ [][Next]_vars
=============================================================================
