------------------------------ MODULE Program ------------------------------
(***************************************************************************)
(* main.c with the functions of network.c that it calls: the arrays of the *)
(* network are connected, the network is loaded or initialised, two data   *)
(* sets are evaluated, and the network may be dumped for a later run.      *)
(* Memory is one function from words to values; a word is an array and an  *)
(* index, a pointer is the name of an array, and every access goes through *)
(* the pointers as the code's does.  The board may stop at any time.       *)
(***************************************************************************)
EXTENDS Integers, Sequences, FiniteSets

CONSTANTS
  InputSize, HiddenSize, OutputSize,
  Outputs,         \* the numbers an output neuron may have
  labels,          \* for each data set, the digit of each test
  InitialFiles,    \* contents of FILE_NAME, sequences of floats, or NoFile
  MaxRuns          \* bound on the runs of the program

sizes == <<InputSize, HiddenSize, OutputSize>>
N(l)  == 0..(sizes[l + 1] - 1)
Bias  == -1     \* stands for k where the code takes the bias

ASSUME ProgramAssumption ==
  /\ {InputSize, HiddenSize, OutputSize} \subseteq Nat \ {0}
  /\ Outputs \subseteq Nat /\ MaxRuns \in Nat
  /\ \A s \in 1..2 : labels[s] \in Seq(N(2))
  /\ \A f \in InitialFiles : f \in Seq({f[n] : n \in DOMAIN f})

(* Values are tuples, so that pointers and floats can be compared.         *)
Float(n) == <<"float", n>>
Num(n)   == <<"int", n>>
Junk     == <<"junk">>
Null     == <<"null">>
NoFile   == <<Null>>

Array == [b |-> <<"b">>, w |-> <<"w">>, sizes |-> <<"sizes">>,
          net_b |-> <<"network.b">>, net_w |-> <<"network.w">>, net_sizes |-> <<"network.sizes">>]
Biases(l)  == <<"b", l>>       \* b_1 and b_2
Rows(l)    == <<"w", l>>       \* w_1 and w_2
Row(l, j)  == <<"w", l, j>>    \* w_1_0 and so on

(* The words of main's variables, but for the data sets.                   *)
ArrayWords ==
  {<<Array.b, l>> : l \in 0..2} \union {<<Array.w, l>> : l \in 0..2}
  \union {<<Array.sizes, l>> : l \in 0..2}
  \union {<<Array[f], 0>> : f \in {"net_b", "net_w", "net_sizes"}}
BiasWords   == UNION {{<<Biases(l), j>> : j \in N(l)} : l \in 1..2}
RowWords    == UNION {{<<Rows(l), j>> : j \in N(l)} : l \in 1..2}
WeightWords == UNION {{<<Row(l, j), k>> : j \in N(l), k \in N(l - 1)} : l \in 1..2}
Words       == ArrayWords \union BiasWords \union RowWords \union WeightWords

VARIABLES
  mem, pc, idx,        \* memory, the stage of main and the count in it
  at,                  \* the loops of the file functions: l, j and k
  initFromFile, writeToFile,   \* the two macros, as the run was built
  writable,            \* FILE_NAME is on a file system that can be written
  file,                \* what the file holds
  stream,              \* what is left to read, or what was written
  opened,              \* history: what the file held when it was opened
  set, test, count,    \* evaluate
  hits,                \* history: the right predictions
  saved,               \* history: the network that the file should hold
  runs

filevars == <<file, stream, opened, saved>>
build    == <<initFromFile, writeToFile, writable, runs>>
counts   == <<set, test, count, hits>>
vars     == <<mem, pc, idx, at, filevars, build, counts>>

-----------------------------------------------------------------------------
(* Variant: the pointers to the arrays are set before the arrays.          *)
After_wired_first == [wire |-> "hidden", hidden |-> "out", out |-> "init"]

(* The stages of the setup, in main's order.                               *)
After == [hidden |-> "out", out |-> "wire", wire |-> "init"]

SetupBegins == IF After["out"] = "wire" THEN "hidden" ELSE "wire"

(* Pointer arithmetic and dereference.                                     *)
Load(a, n) == IF <<a, n>> \in Words THEN mem[<<a, n>>] ELSE Junk

(* &network.b[l][j], or &network.w[l][j][k].                               *)
Address(l, j, k) ==
  IF k = Bias THEN <<Load(Load(Array.net_b, 0), l), j>>
  ELSE <<Load(Load(Load(Array.net_w, 0), l), j), k>>

(* The positions in the network, and its numbers.                          *)
Positions == {x \in (1..2) \X (N(1) \union N(2)) \X ({Bias} \union N(0) \union N(1)) :
                x[2] \in N(x[1]) /\ x[3] \in {Bias} \union N(x[1] - 1)}
Net == [x \in Positions |-> Load(Address(x[1], x[2], x[3])[1], Address(x[1], x[2], x[3])[2])]

-----------------------------------------------------------------------------
Start ==
  /\ mem = [x \in Words |-> Junk] /\ pc = SetupBegins /\ idx = 0
  /\ at = <<1, 0, Bias>> /\ stream = <<>> /\ opened = NoFile
  /\ set = 1 /\ test = 0 /\ count = 0 /\ hits = 0

Init ==
  /\ Start
  /\ initFromFile \in BOOLEAN /\ writeToFile \in BOOLEAN /\ writable \in BOOLEAN
  /\ file \in InitialFiles /\ saved = [x \in {} |-> Null] /\ runs = 1

(* CONNECT_HIDDEN_ARR(idx), which main has for one index too many: the     *)
(* last one stores past w_1, over any other variable or over none.         *)
ConnectHidden ==
  /\ pc = "hidden"
  /\ IF idx < HiddenSize
     THEN mem' = [mem EXCEPT ![<<Rows(1), idx>>] = Row(1, idx)]
     ELSE \/ UNCHANGED mem
          \/ \E x \in Words \ {<<Rows(1), j>> : j \in N(1)} :
               mem' = [mem EXCEPT ![x] = Row(1, idx)]
  /\ IF idx < HiddenSize THEN idx' = idx + 1 /\ UNCHANGED pc
     ELSE idx' = 0 /\ pc' = After[pc]
  /\ UNCHANGED <<at, filevars, build, counts>>

ConnectOut ==
  /\ pc = "out"
  /\ mem' = [mem EXCEPT ![<<Rows(2), idx>>] = Row(2, idx)]
  /\ IF idx + 1 < OutputSize THEN idx' = idx + 1 /\ UNCHANGED pc
     ELSE idx' = 0 /\ pc' = After[pc]
  /\ UNCHANGED <<at, filevars, build, counts>>

(* The assignments to b, w and sizes.                                      *)
Wire ==
  /\ pc = "wire"
  /\ mem' = [x \in Words |->
       IF x[1] = Array.b THEN (IF x[2] = 0 THEN Null ELSE Biases(x[2]))
       ELSE IF x[1] = Array.w THEN (IF x[2] = 0 THEN Null ELSE Rows(x[2]))
       ELSE IF x[1] = Array.sizes THEN Num(sizes[x[2] + 1])
       ELSE mem[x]]
  /\ pc' = After[pc]
  /\ UNCHANGED <<idx, at, filevars, build, counts>>

(* The fields of network, as both init functions set them.                 *)
Fields == [mem EXCEPT ![<<Array.net_b, 0>>] = Array.b, ![<<Array.net_w, 0>>] = Array.w,
                      ![<<Array.net_sizes, 0>>] = Array.sizes]

(* network_init.                                                           *)
network_init ==
  /\ pc = "init" /\ ~ initFromFile
  /\ mem' = [x \in Words |->
       IF x[1][1] = "b" /\ Len(x[1]) = 2 THEN Float(x[1][2] + x[2])
       ELSE IF x[1][1] = "w" /\ Len(x[1]) = 3 THEN Float(x[1][2] + x[1][3] + x[2])
       ELSE Fields[x]]
  /\ pc' = "evaluate"
  /\ UNCHANGED <<idx, at, filevars, build, counts>>

(* network_init_file, up to the loops: without a file nothing is loaded.   *)
OpenToLoad ==
  /\ pc = "init" /\ initFromFile
  /\ mem' = Fields /\ opened' = file
  /\ IF file = NoFile THEN pc' = "evaluate" /\ stream' = <<>>
     ELSE pc' = "load" /\ stream' = file
  /\ UNCHANGED <<idx, at, file, saved, build, counts>>

(* The loops over layers, neurons and inputs that loading and dumping      *)
(* share, the bias of a neuron first; Done is where they end.              *)
Done == <<3, 0, Bias>>
Step(l, j, k) ==
  IF k + 1 < sizes[l] THEN <<l, j, k + 1>>
  ELSE IF j + 1 < sizes[l + 1] THEN <<l, j + 1, Bias>> ELSE <<l + 1, 0, Bias>>

(* One fread: at the end of the file it leaves the word as it is.          *)
LoadFloat ==
  /\ pc = "load" /\ at # Done
  /\ IF stream = <<>> THEN UNCHANGED <<mem, stream>>
     ELSE /\ mem' = [mem EXCEPT ![Address(at[1], at[2], at[3])] = Head(stream)]
          /\ stream' = Tail(stream)
  /\ at' = Step(at[1], at[2], at[3])
  /\ UNCHANGED <<pc, idx, file, opened, saved, build, counts>>

EndLoad ==
  /\ pc = "load" /\ at = Done
  /\ pc' = "evaluate" /\ at' = <<1, 0, Bias>> /\ stream' = <<>>
  /\ UNCHANGED <<mem, idx, file, opened, saved, build, counts>>

-----------------------------------------------------------------------------
(* Variant: the first output is cleared before it is taken as the largest. *)
Predicted_cleared(out) ==
  LET scan[j \in N(2)] ==
        IF j = 0 THEN [max_val |-> 0, max_ind |-> 0]
        ELSE IF out[j] > scan[j - 1].max_val THEN [max_val |-> out[j], max_ind |-> j]
        ELSE scan[j - 1]
  IN  scan[OutputSize - 1].max_ind

(* The index that evaluate sets to one.                                    *)
Predicted(out) ==
  LET scan[j \in N(2)] ==
        IF j = 0 THEN [max_val |-> out[0], max_ind |-> 0]
        ELSE IF out[j] > scan[j - 1].max_val THEN [max_val |-> out[j], max_ind |-> j]
        ELSE scan[j - 1]
  IN  scan[OutputSize - 1].max_ind

OneHot(n) == [j \in N(2) |-> IF j = n THEN 1 ELSE 0]

(* The labelled digit has the largest output, the first one if several do. *)
Right(out, label) == \A j \in N(2) : out[j] < out[label] \/ (out[j] = out[label] /\ j >= label)

(* One test of evaluate, whatever the accelerator answers.                 *)
EvaluateTest ==
  /\ pc = "evaluate" /\ test < Len(labels[set])
  /\ \E out \in [N(2) -> Outputs] :
       LET label == labels[set][test + 1]
       IN  /\ count' = IF OneHot(Predicted(out)) = OneHot(label) THEN count + 1 ELSE count
           /\ hits' = IF Right(out, label) THEN hits + 1 ELSE hits
  /\ test' = test + 1
  /\ UNCHANGED <<mem, pc, idx, at, set, filevars, build>>

(* evaluate returns, for the training data and then the validation data.   *)
EndEvaluate ==
  /\ pc = "evaluate" /\ test = Len(labels[set])
  /\ IF set = 1 THEN set' = 2 /\ test' = 0 /\ count' = 0 /\ hits' = 0 /\ UNCHANGED pc
     ELSE pc' = (IF writeToFile THEN "open" ELSE "exit") /\ UNCHANGED counts
  /\ UNCHANGED <<mem, idx, at, filevars, build>>

(* fopen of network_filedump, which empties the file.                      *)
OpenToDump ==
  /\ pc = "open"
  /\ IF writable THEN pc' = "dump" /\ file' = <<>> /\ saved' = [x \in {} |-> Null]
     ELSE pc' = "exit" /\ UNCHANGED <<file, saved>>
  /\ stream' = <<>>
  /\ UNCHANGED <<mem, idx, at, opened, build, counts>>

(* Variant: the weights of a neuron are written before its bias.           *)
DumpFloat_bias_last ==
  /\ pc = "dump" /\ at # Done
  /\ LET l == at[1]  j == at[2]
         k == IF at[3] + 1 < sizes[l] THEN at[3] + 1 ELSE Bias
         x == Address(l, j, k)
     IN  stream' = Append(stream, Load(x[1], x[2]))
  /\ at' = Step(at[1], at[2], at[3])
  /\ UNCHANGED <<mem, pc, idx, file, opened, saved, build, counts>>

(* One fwrite, into the buffer of the stream.                              *)
DumpFloat ==
  /\ pc = "dump" /\ at # Done
  /\ LET x == Address(at[1], at[2], at[3]) IN stream' = Append(stream, Load(x[1], x[2]))
  /\ at' = Step(at[1], at[2], at[3])
  /\ UNCHANGED <<mem, pc, idx, file, opened, saved, build, counts>>

(* main returns, and exit() flushes what no fclose has.                    *)
Exit ==
  /\ \/ /\ pc = "dump" /\ at = Done
        /\ file' = stream /\ saved' = Net
     \/ /\ pc = "exit" /\ UNCHANGED <<file, saved>>
  /\ pc' = "off"
  /\ UNCHANGED <<mem, idx, at, stream, opened, build, counts>>

(* The board stops before the end; of a dump, any part has been flushed.   *)
Stop ==
  /\ pc # "off"
  /\ IF pc = "dump" THEN \E n \in 0..Len(stream) : file' = SubSeq(stream, 1, n)
     ELSE UNCHANGED file
  /\ pc' = "off"
  /\ UNCHANGED <<mem, idx, at, stream, opened, saved, build, counts>>

(* The program is built and run again.                                     *)
RunAgain ==
  /\ pc = "off" /\ runs < MaxRuns
  /\ runs' = runs + 1
  /\ initFromFile' \in BOOLEAN /\ writeToFile' \in BOOLEAN
  /\ mem' = [x \in Words |-> Junk] /\ pc' = SetupBegins /\ idx' = 0
  /\ at' = <<1, 0, Bias>> /\ stream' = <<>> /\ opened' = NoFile
  /\ set' = 1 /\ test' = 0 /\ count' = 0 /\ hits' = 0
  /\ UNCHANGED <<writable, file, saved>>

Next ==
  \/ ConnectHidden \/ ConnectOut \/ Wire \/ network_init \/ OpenToLoad \/ LoadFloat \/ EndLoad
  \/ EvaluateTest \/ EndEvaluate \/ OpenToDump \/ DumpFloat \/ Exit \/ Stop \/ RunAgain

Spec == Init /\ [][Next]_vars

-----------------------------------------------------------------------------
Evaluating == pc \in {"evaluate", "open", "dump", "exit"}

(* CONNECT_HIDDEN_ARR and the assignments after it: although the last      *)
(* store goes past w_1, when the network is loaded and used every number   *)
(* has a word of its own in the bias and weight arrays.                    *)
NetworkIsWired ==
  Evaluating \/ pc = "load" =>
    LET used == {Address(x[1], x[2], x[3]) : x \in Positions}
    IN  /\ Cardinality(used) = Cardinality(Positions)
        /\ used \subseteq {x \in Words : \/ x[1][1] = "b" /\ Len(x[1]) = 2
                                         \/ x[1][1] = "w" /\ Len(x[1]) = 3}
        /\ Load(Load(Array.net_sizes, 0), 1) = Num(HiddenSize)

(* Where the file has a number, with the neurons one after the other.      *)
Place(l, j, k) == (IF l = 1 THEN 0 ELSE HiddenSize * (InputSize + 1))
                  + j * (sizes[l] + 1) + k + 2

(* network_init_file and network_filedump: a network that was loaded has   *)
(* the numbers of the file, as far as the file goes, until the program     *)
(* ends; and what a run that ended has dumped is what a later run loads,   *)
(* whether or not other runs were stopped in between.                      *)
NetworkSurvives ==
  Evaluating /\ initFromFile /\ opened # NoFile =>
    /\ \A x \in Positions :
         Place(x[1], x[2], x[3]) <= Len(opened) =>
           Net[x] = opened[Place(x[1], x[2], x[3])]
    /\ DOMAIN saved # {} => Net = saved

(* evaluate, "return the number of correctly predicted inputs": the count  *)
(* is that of the tests whose labelled output is the largest.              *)
CountIsAccuracy == count = hits
=============================================================================
