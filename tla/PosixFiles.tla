----------------------------- MODULE PosixFiles -----------------------------
(***************************************************************************)
(* What a read-only file promises: a descriptor is a file and a position   *)
(* in it, a read returns the bytes from there on, and nothing any other    *)
(* descriptor does moves it.                                               *)
(***************************************************************************)
EXTENDS Integers, Sequences

CONSTANTS Descriptors, MaxRead, Closed

VARIABLES
  contents,  \* the bytes of every file
  at,        \* what each descriptor is on: a file and a position, or Closed
  data       \* what the last read returned

vars == <<contents, at, data>>

AtMost(a, b) == IF a > b THEN b ELSE a

Init == at = [d \in Descriptors |-> Closed] /\ data = <<>>

Open(d, f) == /\ at[d] = Closed
              /\ at' = [at EXCEPT ![d] = [file |-> f, pos |-> 0]]
              /\ UNCHANGED <<contents, data>>
Close(d)   == at[d] # Closed /\ at' = [at EXCEPT ![d] = Closed] /\ UNCHANGED <<contents, data>>
Seek(d, p) == /\ at[d] # Closed /\ p \in 0..Len(contents[at[d].file])
              /\ at' = [at EXCEPT ![d].pos = p]
              /\ UNCHANGED <<contents, data>>
Read(d, n) ==
  /\ at[d] # Closed
  /\ LET c == contents[at[d].file]
         q == AtMost(at[d].pos + n, Len(c))
     IN  /\ data' = SubSeq(c, at[d].pos + 1, q)
         /\ at' = [at EXCEPT ![d].pos = q]
  /\ UNCHANGED contents

Next == \E d \in Descriptors :
          \/ \E f \in DOMAIN contents : Open(d, f) \/ \E p \in 0..Len(contents[f]) : Seek(d, p)
          \/ Close(d)
          \/ \E n \in 0..MaxRead : Read(d, n)

Spec == Init /\ [][Next]_vars
=============================================================================
