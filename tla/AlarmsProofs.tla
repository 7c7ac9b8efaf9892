---------------------------- MODULE AlarmsProofs -----------------------------
(***************************************************************************)
(* Proofs that no interrupt meets a half-written table of handlers, that   *)
(* the time of day is kept, that the list of alarms is whole whenever it   *)
(* is looked at, and that every alarm goes off on its tick: for every set  *)
(* of lines, handlers and alarms, every rate and width of the counter, and *)
(* whatever the program, the devices and the callbacks of the alarms do.   *)
(***************************************************************************)
EXTENDS Alarms, TLAPS, FiniteSetTheorems, WellFoundedInduction

RegisterSteps == {"reg_handler", "reg_context", "reg_enable"}
AlarmSteps    == {"start_time", "start_entry", "start_head", "stop_bypass", "stop_unlink"}
Targets       == Handlers \union {NULL}

(* The call that the program is in, by its steps.                          *)
CallOK ==
  \/ call = Idle
  \/ call = [at |-> "end"]
  \/ call \in [at : RegisterSteps, line : Lines, handler : Targets]
  \/ call = [at |-> call.at, alarm |-> call.alarm, nticks |-> call.nticks] /\ call.at \in AlarmSteps
  \/ call = [at |-> call.at, alarm |-> call.alarm] /\ call.at \in AlarmSteps

Registered(i) == /\ alt_irq[i].handler \in Handlers
                 /\ alt_irq[i].context = alt_irq[i].handler

(* A call that writes the table, or the list of alarms, has the processor  *)
(* and keeps interrupts off; the interrupt level runs only between calls.  *)
(* A line that is enabled has its handler, but for the one whose entry is  *)
(* being written; before it is enabled both words of the entry are there.  *)
TableInv ==
  /\ CallOK /\ pie \in BOOLEAN /\ saved \in BOOLEAN
  /\ alt_irq_active \subseteq Lines
  /\ alt_irq \in [Lines -> [handler : Targets, context : Targets]]
  /\ call # Idle => ~ pie /\ isr = "off"
  /\ \A i \in alt_irq_active :
       Registered(i) \/ (call.at \in {"reg_context", "reg_enable"} /\ call.line = i)
  /\ call.at \in {"reg_context", "reg_enable"} => alt_irq[call.line].handler = call.handler
  /\ call.at = "reg_enable" => alt_irq[call.line].context = call.handler

LEMMA AtLemma ==
  ASSUME CallOK
  PROVE  /\ call = Idle <=> call.at = "idle"
         /\ call.at \in RegisterSteps =>
              call \in [at : RegisterSteps, line : Lines, handler : Targets]
         /\ call.at \in AlarmSteps =>
              \/ call = [at |-> call.at, alarm |-> call.alarm, nticks |-> call.nticks]
              \/ call = [at |-> call.at, alarm |-> call.alarm]
BY DEF CallOK, Idle, RegisterSteps, AlarmSteps

LEMMA InitLemma == Init => TableInv
BY DEF Init, InterruptsInit, TableInv, CallOK, Idle, Targets

(* Steps that leave the table as it is, and the program outside of         *)
(* alt_iic_isr_register.                                                   *)
LEMMA AwayLemma ==
  ASSUME TableInv, UNCHANGED <<alt_irq_active, alt_irq>>, CallOK', pie' \in BOOLEAN, saved' \in BOOLEAN,
         call'.at \notin {"reg_context", "reg_enable"},
         call.at \notin {"reg_context", "reg_enable"},
         call' # Idle => ~ pie' /\ isr' = "off"
  PROVE  TableInv'
BY Zenon DEF TableInv, Registered

(* The steps of the interrupt level: the program stays between two calls.  *)
LEMMA LevelLemma ==
  ASSUME TableInv, call = Idle, UNCHANGED <<alt_irq_active, alt_irq, call, saved>>, pie' \in BOOLEAN
  PROVE  TableInv'
<1>1. CallOK'
  BY Zenon DEF TableInv, CallOK
<1>2. call.at = "idle"
  BY DEF Idle
<1> QED
  BY <1>1, <1>2, AwayLemma DEF TableInv

LEMMA InterruptStep ==
  ASSUME TableInv, isr # "off", UNCHANGED <<alt_irq_active, alt_irq, call, saved>>, pie' \in BOOLEAN
  PROVE  TableInv'
BY LevelLemma, Zenon DEF TableInv

(* The steps of the program on the alarms.                                 *)
LEMMA AlarmStep ==
  ASSUME TableInv, UNCHANGED <<alt_irq_active, alt_irq, pie, isr, saved>>, call.at \in AlarmSteps,
         call' = [at |-> "end"] \/ \E at \in AlarmSteps : call' = [call EXCEPT !.at = at]
  PROVE  TableInv'
<1>1. /\ call # Idle
      /\ \/ call = [at |-> call.at, alarm |-> call.alarm, nticks |-> call.nticks]
         \/ call = [at |-> call.at, alarm |-> call.alarm]
  BY AtLemma DEF TableInv, AlarmSteps
<1>2. CallOK' /\ call'.at \in AlarmSteps \union {"end"}
  BY <1>1 DEF CallOK
<1> QED
  BY <1>1, <1>2, AwayLemma DEF TableInv, AlarmSteps

LEMMA RegisterStep ==
  ASSUME TableInv, NEW i \in Lines, NEW h \in Targets, Register(i, h)
  PROVE  TableInv'
<1>1. /\ call' = [at |-> "reg_handler", line |-> i, handler |-> h]
      /\ pie' = FALSE /\ saved' = pie /\ isr' = "off" /\ UNCHANGED <<alt_irq_active, alt_irq>>
      /\ call = Idle
  BY Zenon DEF Register, alt_irq_disable_all, Executing
<1>2. CallOK' /\ call'.at = "reg_handler" /\ call.at = "idle"
  BY <1>1 DEF CallOK, RegisterSteps, Idle
<1> QED
  BY <1>1, <1>2, AwayLemma DEF TableInv

LEMMA StartStopStep ==
  ASSUME TableInv, NEW a, NEW n, Start(a, n) \/ Stop(a)
  PROVE  TableInv'
<1>1. /\ \/ call' = [at |-> "start_time", alarm |-> a, nticks |-> n]
         \/ call' = [at |-> "stop_bypass", alarm |-> a]
      /\ pie' = FALSE /\ saved' = pie /\ isr' = "off" /\ UNCHANGED <<alt_irq_active, alt_irq>>
      /\ call = Idle
  BY Zenon DEF Start, Stop, alt_irq_disable_all, Executing
<1>2. CallOK' /\ call'.at \in AlarmSteps /\ call.at = "idle"
  BY <1>1 DEF CallOK, AlarmSteps, Idle
<1> QED
  BY <1>1, <1>2, AwayLemma DEF TableInv, AlarmSteps

LEMMA EndCallStep ==
  ASSUME TableInv, EndCall
  PROVE  TableInv'
<1>1. /\ call' = Idle /\ pie' = saved /\ saved' = TRUE
      /\ UNCHANGED <<alt_irq_active, alt_irq, isr>> /\ call.at = "end"
  BY Zenon DEF EndCall, alt_irq_enable_all
<1>2. CallOK' /\ call'.at = "idle"
  BY <1>1 DEF CallOK, Idle
<1> QED
  BY <1>1, <1>2, AwayLemma DEF TableInv

(* The three writes of alt_iic_isr_register.                               *)
LEMMA WriteStep ==
  ASSUME TableInv, RegisterHandler \/ RegisterContext \/ RegisterEnable
  PROVE  TableInv'
<1>1. /\ call \in [at : RegisterSteps, line : Lines, handler : Targets]
      /\ call # Idle /\ ~ pie /\ isr = "off" /\ UNCHANGED <<pie, isr, saved>>
  <2>1. call.at \in RegisterSteps /\ UNCHANGED <<pie, isr, saved>>
    BY DEF RegisterHandler, RegisterContext, RegisterEnable, RegisterSteps
  <2> QED
    BY <2>1, AtLemma DEF TableInv, RegisterSteps
<1> DEFINE line == call.line
           handler == call.handler
<1>2. line \in Lines /\ handler \in Targets
  BY <1>1
<1>3. /\ alt_irq \in [Lines -> [handler : Targets, context : Targets]]
      /\ alt_irq_active \subseteq Lines /\ pie \in BOOLEAN /\ saved \in BOOLEAN
  BY Zenon DEF TableInv
<1>4. CASE RegisterHandler
  <2>1. /\ call' = [call EXCEPT !.at = "reg_context"] /\ call.at = "reg_handler"
        /\ alt_irq' = [alt_irq EXCEPT ![line].handler = handler]
        /\ alt_irq_active' = alt_irq_active
    BY <1>4, Zenon DEF RegisterHandler
  <2>2. /\ call' \in [at : RegisterSteps, line : Lines, handler : Targets]
        /\ call'.at = "reg_context" /\ call'.line = line
    BY <1>1, <2>1 DEF RegisterSteps
  <2>3. /\ alt_irq' \in [Lines -> [handler : Targets, context : Targets]]
        /\ \A i \in Lines : i # line => alt_irq'[i] = alt_irq[i]
        /\ alt_irq'[line].handler = handler
    BY <1>2, <1>3, <2>1
  <2>4. ASSUME NEW i \in alt_irq_active'
        PROVE  Registered(i)' \/ (call'.at \in {"reg_context", "reg_enable"} /\ call'.line = i)
    <3>1. CASE i = line
      BY <2>2, <3>1
    <3>2. CASE i # line
      <4>1. Registered(i) /\ i \in Lines
        BY <1>3, <2>1 DEF TableInv
      <4> QED
        BY <2>3, <3>2, <4>1, Zenon DEF Registered
    <3> QED
      BY <3>1, <3>2
  <2>5. CallOK'
    BY <2>2, Zenon DEF CallOK
  <2>6. call'.handler = handler
    BY <1>1, <2>1
  <2> QED
    BY <1>1, <1>3, <2>1, <2>2, <2>3, <2>4, <2>5, <2>6 DEF TableInv
<1>5. CASE RegisterContext
  <2>1. /\ call' = [call EXCEPT !.at = "reg_enable"] /\ call.at = "reg_context"
        /\ alt_irq' = [alt_irq EXCEPT ![line].context = handler]
        /\ alt_irq_active' = alt_irq_active
    BY <1>5, Zenon DEF RegisterContext
  <2>2. /\ call' \in [at : RegisterSteps, line : Lines, handler : Targets]
        /\ call'.at = "reg_enable" /\ call'.line = line /\ call'.handler = handler
    BY <1>1, <2>1 DEF RegisterSteps
  <2>3. alt_irq[line].handler = handler
    BY <2>1 DEF TableInv
  <2>4. /\ alt_irq' \in [Lines -> [handler : Targets, context : Targets]]
        /\ \A i \in Lines : i # line => alt_irq'[i] = alt_irq[i]
        /\ alt_irq'[line].handler = handler /\ alt_irq'[line].context = handler
    BY <1>2, <1>3, <2>1, <2>3
  <2>5. ASSUME NEW i \in alt_irq_active'
        PROVE  Registered(i)' \/ (call'.at \in {"reg_context", "reg_enable"} /\ call'.line = i)
    <3>1. CASE i = line
      BY <2>2, <3>1
    <3>2. CASE i # line
      <4>1. Registered(i) /\ i \in Lines
        BY <1>3, <2>1, <3>2 DEF TableInv
      <4> QED
        BY <2>4, <3>2, <4>1, Zenon DEF Registered
    <3> QED
      BY <3>1, <3>2
  <2>6. CallOK'
    BY <2>2, Zenon DEF CallOK
  <2> QED
    BY <1>1, <1>3, <2>1, <2>2, <2>4, <2>5, <2>6 DEF TableInv
<1>6. CASE RegisterEnable
  <2>1. /\ call' = [at |-> "end"] /\ call.at = "reg_enable" /\ alt_irq' = alt_irq
        /\ alt_irq_active' = IF handler = NULL THEN alt_irq_active \ {line}
                             ELSE alt_irq_active \union {line}
    BY <1>6, Zenon DEF RegisterEnable
  <2>2. CallOK' /\ call'.at = "end"
    BY <2>1 DEF CallOK
  <2>3. alt_irq[line].handler = handler /\ alt_irq[line].context = handler
    BY <2>1 DEF TableInv
  <2>4. ASSUME NEW i \in alt_irq_active'
        PROVE  Registered(i)'
    <3>1. CASE i = line
      <4>1. handler \in Handlers
        BY <1>2, <2>1, <3>1 DEF Targets
      <4> QED
        BY <2>1, <2>3, <3>1, <4>1, Zenon DEF Registered
    <3>2. CASE i # line
      <4>1. i \in alt_irq_active
        BY <2>1, <3>2
      <4> QED
        BY <2>1, <3>2, <4>1, Zenon DEF Registered, TableInv
    <3> QED
      BY <3>1, <3>2
  <2>5. alt_irq_active' \subseteq Lines
    BY <1>2, <1>3, <2>1
  <2> QED
    BY <1>1, <1>3, <2>1, <2>2, <2>4, <2>5 DEF TableInv
<1> QED
  BY <1>4, <1>5, <1>6

-----------------------------------------------------------------------------
LEMMA SameLemma ==
  ASSUME TableInv, UNCHANGED <<pie, alt_irq_active, alt_irq, isr, call, saved>>
  PROVE  TableInv'
BY Zenon DEF TableInv, CallOK, Registered

LEMMA InductionStep == TableInv /\ [Next]_vars => TableInv'
<1> SUFFICES ASSUME TableInv, [Next]_vars
             PROVE  TableInv'
  OBVIOUS
<1> USE DEF Quiet
<1>1. CASE UNCHANGED vars
  BY <1>1, SameLemma, Zenon DEF vars, irqvars
<1>2. CASE \E i \in Lines, h \in Targets : Register(i, h)
  BY <1>2, RegisterStep, Zenon
<1>3. CASE RegisterHandler \/ RegisterContext \/ RegisterEnable
  BY <1>3, WriteStep, Zenon
<1>4. CASE EndCall
  BY <1>4, EndCallStep, Zenon
<1>5. CASE \E i \in Lines : Raise(i)
  BY <1>5, SameLemma, Zenon DEF Raise
<1>6. CASE Exception
  <2>1. pie /\ pie' = FALSE /\ UNCHANGED <<alt_irq_active, alt_irq, call, saved>>
    BY <1>6, Zenon DEF Exception
  <2> QED
    BY <2>1, LevelLemma, Zenon DEF TableInv
<1>7. CASE (\E i \in Lines : Dispatch(i, "dispatch")) \/ Tick
  <2>1. isr = "dispatch" /\ UNCHANGED <<pie, alt_irq_active, alt_irq, call, saved>>
    BY <1>7, Zenon DEF Dispatch, Tick
  <2> QED
    BY <2>1, InterruptStep DEF TableInv
<1>8. CASE Return
  <2>1. isr = "dispatch" /\ pie' = TRUE /\ UNCHANGED <<alt_irq_active, alt_irq, call, saved>>
    BY <1>8, Zenon DEF Return
  <2> QED
    BY <2>1, InterruptStep
<1>9. CASE Walk \/ TickReturns
  <2>1. isr = "walk" /\ UNCHANGED <<pie, alt_irq_active, alt_irq, call, saved>>
    BY <1>9, Zenon DEF Walk, TickReturns
  <2> QED
    BY <2>1, InterruptStep DEF TableInv
<1>10. CASE \E n \in Intervals, also \in Also : Callback(n, also)
  <2>1. isr = "callback" /\ UNCHANGED <<pie, alt_irq_active, alt_irq, call, saved>>
    BY <1>10, Zenon DEF Callback
  <2> QED
    BY <2>1, InterruptStep DEF TableInv
<1>11. CASE \E a \in Alarms : Stop(a) \/ \E n \in Intervals : Start(a, n)
  BY <1>11, StartStopStep, Zenon
<1>12. CASE StartTime \/ StartEntry \/ StartHead \/ StopBypass \/ StopUnlink
  <2>1. /\ UNCHANGED <<alt_irq_active, alt_irq, pie, isr, saved>> /\ call.at \in AlarmSteps
        /\ call' = [at |-> "end"] \/ \E at \in AlarmSteps : call' = [call EXCEPT !.at = at]
    BY <1>12 DEF StartTime, StartEntry, StartHead, StopBypass, StopUnlink, irqvars, AlarmSteps
  <2> QED
    BY <2>1, AlarmStep
<1>13. CASE \E t \in Times : SetTime(t)
  BY <1>13, SameLemma, Zenon DEF SetTime, irqvars
<1> QED
  BY <1>1, <1>2, <1>3, <1>4, <1>5, <1>6, <1>7, <1>8, <1>9, <1>10, <1>11, <1>12, <1>13,
     AlarmsAssumption, Zenon DEF Next, Targets

(* The invariant of the table of handlers.                                 *)
THEOREM TableInvariant == Spec => []TableInv
BY InitLemma, InductionStep, PTL DEF Spec

(* alt_iic_isr_register.c: the interrupt level finds every enabled line    *)
(* with the handler and the context that were registered together.         *)
THEOREM CallsAreRegisteredTheorem == Spec => []CallsAreRegistered
<1>1. TableInv => CallsAreRegistered
  <2> SUFFICES ASSUME TableInv, isr # "off", NEW i \in alt_irq_active
               PROVE  Registered(i)
    BY Zenon DEF CallsAreRegistered, Registered
  <2>1. call.at = "idle"
    BY AtLemma, Zenon DEF TableInv
  <2> QED
    BY <2>1 DEF TableInv
<1> QED
  BY <1>1, TableInvariant, PTL

-----------------------------------------------------------------------------
(* Division by a rate, a word and a second.                                *)

LEMMA DivLemma ==
  ASSUME NEW a \in Int, NEW b \in Nat \ {0}
  PROVE  /\ a \div b \in Int /\ a % b \in 0..(b - 1) /\ a = (a \div b) * b + (a % b)
         /\ a >= 0 => a \div b \in Nat
OBVIOUS

LEMMA DivIsLemma ==
  ASSUME NEW k \in Int, NEW b \in Nat \ {0}, NEW r \in 0..(b - 1)
  PROVE  (k * b + r) \div b = k /\ (k * b + r) % b = r
OBVIOUS

LEMMA SmallLemma ==
  ASSUME NEW b \in Nat \ {0}, NEW a \in 0..(b - 1)
  PROVE  a % b = a
OBVIOUS

(* A counter that wraps is the number of its steps, wrapped.               *)
LEMMA CounterLemma ==
  ASSUME NEW a \in Nat, NEW b \in Nat \ {0}
  PROVE  ((a % b) + 1) % b = (a + 1) % b
<1> DEFINE k == a \div b
           r == a % b
<1>1. k \in Nat /\ r \in 0..(b - 1) /\ a = k * b + r
  <2>1. a \in Int /\ a >= 0
    OBVIOUS
  <2> QED
    BY <2>1, DivLemma
<1> HIDE DEF k, r
<1>2. CASE r + 1 = b
  <2>1. (k + 1) * b = k * b + b
    BY <1>1
  <2>2. k * b \in Int /\ a + 1 = (k + 1) * b + 0
    BY <1>1, <1>2, <2>1
  <2>3. ((k + 1) * b + 0) % b = 0
    BY <1>1, DivIsLemma
  <2>4. (1 * b + 0) % b = 0
    BY DivIsLemma
  <2> QED
    BY <1>2, <2>2, <2>3, <2>4 DEF r
<1>3. CASE r + 1 # b
  <2> DEFINE s == r + 1
  <2>1. s \in 0..(b - 1) /\ k \in Int
    BY <1>1, <1>3
  <2>2. k * b \in Int /\ a + 1 = k * b + s
    BY <1>1
  <2> HIDE DEF s
  <2>3. (k * b + s) % b = s /\ s % b = s
    BY <2>1, DivIsLemma, SmallLemma
  <2> QED
    BY <2>2, <2>3 DEF r, s
<1> QED
  BY <1>2, <1>3

TickUs == US \div rate

(* A second is a whole number of ticks.                                    *)
LEMMA SecondLemma == US = TickUs * rate /\ TickUs \in Nat \ {0} /\ US \in Nat \ {0} /\ rate \in Nat \ {0}
<1> DEFINE k == US \div rate
           r == US % rate
<1>1. rate \in Nat \ {0} /\ US \in Nat \ {0} /\ r = 0
  BY AlarmsAssumption
<1>2. k \in Nat /\ US = k * rate + r
  BY <1>1, DivLemma
<1> HIDE DEF k, r
<1>3. k # 0 /\ US = k * rate
  BY <1>1, <1>2
<1> QED
  BY <1>1, <1>2, <1>3 DEF k, TickUs

(* The seconds of a number of ticks and the microseconds that are left.    *)
LEMMA TicksLemma ==
  ASSUME NEW a \in Nat
  PROVE  /\ a \div rate \in Nat /\ (a * TickUs) % US \in 0..(US - 1)
         /\ a * TickUs = (a \div rate) * US + ((a * TickUs) % US)
<1> DEFINE k == a \div rate
           r == a % rate
<1>1. k \in Nat /\ r \in 0..(rate - 1) /\ a = k * rate + r
  BY SecondLemma, DivLemma
<1> HIDE DEF k, r
<1>2. r * TickUs \in 0..(US - 1)
  <2>1. r * TickUs <= (rate - 1) * TickUs /\ r * TickUs \in Nat
    BY <1>1, SecondLemma
  <2>2. (rate - 1) * TickUs = US - TickUs
    BY SecondLemma
  <2> QED
    BY <2>1, <2>2, SecondLemma
<1>3. a * TickUs = k * US + r * TickUs
  BY <1>1, SecondLemma
<1>4. (k * US + r * TickUs) % US = r * TickUs
  <2> DEFINE y == r * TickUs
  <2>1. y \in 0..(US - 1) /\ k \in Int /\ US \in Nat \ {0}
    BY <1>1, <1>2, SecondLemma
  <2> HIDE DEF y
  <2>2. (k * US + y) % US = y
    BY <2>1, DivIsLemma
  <2> QED
    BY <2>2 DEF y
<1> QED
  BY <1>1, <1>2, <1>3, <1>4 DEF k

-----------------------------------------------------------------------------
(* The counter is the ticks since the start, and what is kept to tell the  *)
(* time is the time that was set less what had passed until then.          *)
TimeInv ==
  /\ elapsed \in Nat /\ nticks = elapsed % Word
  /\ lastset = [tod |-> lastset.tod, at |-> lastset.at]
  /\ lastset.tod[1] \in Nat /\ lastset.tod[2] \in Nat
  /\ lastset.at \in 0..elapsed
  /\ resettime = <<lastset.tod[1] - ((lastset.at % Word) \div rate),
                   lastset.tod[2] - Micros(lastset.at % Word)>>

LEMMA TimeInit == Init => TimeInv
<1> SUFFICES ASSUME Init PROVE TimeInv
  OBVIOUS
<1>1. elapsed = 0 /\ nticks = 0 /\ resettime = <<0, 0>> /\ lastset = [tod |-> <<0, 0>>, at |-> 0]
  BY DEF Init
<1>2. Word \in Nat \ {0} /\ rate \in Nat \ {0} /\ US \in Nat \ {0}
  BY AlarmsAssumption
<1>3. 0 % Word = 0 /\ 0 % US = 0
  BY <1>2, SmallLemma
<1>4. 0 \div rate = 0
  <2>1. (0 * rate + 0) \div rate = 0
    BY <1>2, DivIsLemma
  <2> QED
    BY <1>2, <2>1
<1>5. Micros(0) = 0
  <2>1. 0 * (US \div rate) = 0
    BY SecondLemma DEF TickUs
  <2> QED
    BY <1>3, <2>1 DEF Micros
<1> QED
  BY <1>1, <1>3, <1>4, <1>5 DEF TimeInv

LEMMA TimeStep == TimeInv /\ [Next]_vars => TimeInv'
<1> SUFFICES ASSUME TimeInv, [Next]_vars PROVE TimeInv'
  OBVIOUS
<1>1. CASE UNCHANGED <<elapsed, nticks, timevars>>
  BY <1>1 DEF TimeInv, timevars, Micros
<1>2. CASE Tick
  <2>1. nticks' = (nticks + 1) % Word /\ elapsed' = elapsed + 1 /\ UNCHANGED timevars
    BY <1>2 DEF Tick
  <2>2. nticks' = elapsed' % Word
    BY <2>1, CounterLemma, AlarmsAssumption DEF TimeInv
  <2>3. elapsed' \in Nat /\ lastset.at \in 0..elapsed'
    BY <2>1 DEF TimeInv
  <2> QED
    BY <2>1, <2>2, <2>3 DEF TimeInv, timevars, Micros
<1>3. ASSUME NEW t \in Times, SetTime(t)
      PROVE  TimeInv'
  <2>1. /\ resettime' = <<t[1] - (nticks \div rate), t[2] - Micros(nticks)>>
        /\ lastset' = [tod |-> t, at |-> elapsed] /\ UNCHANGED <<elapsed, nticks>>
    BY <1>3 DEF SetTime, alarmvars
  <2>2. t[1] \in Nat /\ t[2] \in Nat
    BY AlarmsAssumption
  <2> QED
    BY <2>1, <2>2 DEF TimeInv, Micros
<1>4. CASE ~ Tick /\ ~ (\E t \in Times : SetTime(t)) /\ Next
  <2>1. UNCHANGED <<elapsed, nticks, timevars>>
    BY <1>4, Zenon DEF Next, Quiet, alarmvars, Start, StartTime, StartEntry, StartHead, Stop, StopBypass,
       StopUnlink, Walk, Callback, TickReturns
  <2> QED
    BY <1>1, <2>1
<1>5. CASE UNCHANGED vars
  BY <1>1, <1>5 DEF vars, alarmvars
<1> QED
  BY <1>2, <1>3, <1>4, <1>5

THEOREM TimeInvariant == Spec => []TimeInv
BY TimeInit, TimeStep, PTL DEF Spec

(* The time told is what is kept and what has passed, carried from the     *)
(* microseconds to the seconds.                                            *)
LEMMA CarryLemma ==
  ASSUME NEW s \in Int, NEW u \in Int, s * US + u >= 0
  PROVE  /\ ~ (s + (u \div US) < 0)
         /\ (s + (u \div US)) * US + (u % US) = s * US + u
<1> DEFINE k == u \div US
           r == u % US
<1>1. k \in Int /\ r \in 0..(US - 1) /\ u = k * US + r /\ US \in Nat \ {0}
  BY SecondLemma, DivLemma
<1> HIDE DEF k, r
<1>2. (s + k) * US = s * US + k * US
  BY <1>1
<1>3. (s + k) * US + r = s * US + u
  <2>1. s * US \in Int /\ k * US \in Int
    BY <1>1
  <2> QED
    BY <1>1, <1>2, <2>1
<1>4. ~ (s + k < 0)
  <2> SUFFICES ASSUME s + k <= -1 PROVE FALSE
    BY <1>1
  <2>1. (s + k) * US <= (-1) * US /\ (-1) * US = -US
    BY <1>1
  <2> QED
    BY <1>1, <1>3, <2>1
<1> QED
  BY <1>3, <1>4 DEF k, r

(* alt_settod.c and alt_gettod.c: gettimeofday tells the time that was set *)
(* and what has passed since, for any rate that divides a second, until    *)
(* the counter wraps.                                                      *)
THEOREM TimeIsKeptTheorem == Spec => []TimeIsKept
<1>1. TimeInv => TimeIsKept
  <2> SUFFICES ASSUME TimeInv, elapsed < Word, lastset.at * TickUs < Word
               PROVE  GetTime[1] * US + GetTime[2]
                        = lastset.tod[1] * US + lastset.tod[2] + (elapsed - lastset.at) * TickUs
    BY DEF TimeIsKept, TickUs
  <2> DEFINE a  == lastset.at
             t1 == lastset.tod[1]
             t2 == lastset.tod[2]
             ka == a \div rate
             ra == (a * TickUs) % US
             ke == elapsed \div rate
             re == (elapsed * TickUs) % US
             s  == (t1 - ka) + ke
             u  == (t2 - ra) + re
  <2>1. elapsed \in Nat /\ a \in 0..elapsed /\ t1 \in Nat /\ t2 \in Nat /\ Word \in Nat \ {0}
    BY AlarmsAssumption DEF TimeInv
  <2>2. nticks = elapsed /\ a % Word = a
    BY <2>1, SmallLemma DEF TimeInv
  <2>3. a * TickUs \in Nat
    BY <2>1, SecondLemma
  <2>4. Micros(a) = ra
    BY <2>1, <2>3, SmallLemma DEF Micros, TickUs
  <2>5. resettime = <<t1 - ka, t2 - ra>>
    BY <2>2, <2>4 DEF TimeInv
  <2>6. /\ ka \in Nat /\ ra \in 0..(US - 1) /\ a * TickUs = ka * US + ra
        /\ ke \in Nat /\ re \in 0..(US - 1) /\ elapsed * TickUs = ke * US + re
    BY <2>1, TicksLemma
  <2>7. GetTime = IF u < 0 /\ s + (u \div US) < 0 THEN <<0, 0>>
                  ELSE <<s + (u \div US), u % US>>
    BY <2>2, <2>5, Zenon DEF GetTime, TickUs
  <2> HIDE DEF a, t1, t2, ka, ra, ke, re
  <2>8. s \in Int /\ u \in Int /\ s * US + u = t1 * US + t2 + (elapsed - a) * TickUs
    <3>1. s \in Int /\ u \in Int
      BY <2>1, <2>6, SecondLemma
    <3>2. s * US = t1 * US - ka * US + ke * US
      BY <2>1, <2>6, SecondLemma
    <3>3. (elapsed - a) * TickUs = elapsed * TickUs - a * TickUs
      BY <2>1, SecondLemma
    <3>4. {t1 * US, ka * US, ke * US, a * TickUs, elapsed * TickUs} \subseteq Int
      BY <2>1, <2>6, SecondLemma
    <3> QED
      BY <2>1, <2>6, <3>1, <3>2, <3>3, <3>4, SecondLemma
  <2>9. s * US + u >= 0
    <3>1. t1 * US \in Nat /\ (elapsed - a) * TickUs \in Nat
      BY <2>1, SecondLemma
    <3> QED
      BY <2>1, <2>8, <3>1
  <2> HIDE DEF s, u
  <2>10. GetTime = <<s + (u \div US), u % US>>
    BY <2>7, <2>8, <2>9, CarryLemma, Zenon
  <2>11. GetTime[1] = s + (u \div US) /\ GetTime[2] = u % US
    BY <2>10
  <2>12. GetTime[1] * US + GetTime[2] = s * US + u
    BY <2>8, <2>9, <2>11, CarryLemma, Zenon
  <2> QED
    BY <2>8, <2>12 DEF a, t1, t2
<1> QED
  BY <1>1, TimeInvariant, PTL

-----------------------------------------------------------------------------
(* Updates of the links, one word after the other.                         *)
LEMMA EntryLemma ==
  ASSUME NEW l, NEW n, NEW p, l = [next |-> n, previous |-> p], NEW x, NEW y
  PROVE  [l EXCEPT !.previous[x] = y] = [next |-> n, previous |-> [p EXCEPT ![x] = y]]
OBVIOUS

LEMMA EntriesLemma ==
  ASSUME NEW l, NEW n, NEW p, l = [next |-> n, previous |-> p],
         NEW x, NEW y, NEW z, NEW w
  PROVE  [l EXCEPT !.previous[x] = y, !.next[z] = w]
           = [next |-> [n EXCEPT ![z] = w], previous |-> [p EXCEPT ![x] = y]]
<1> DEFINE m == [l EXCEPT !.previous[x] = y]
<1>1. [l EXCEPT !.previous[x] = y, !.next[z] = w] = [m EXCEPT !.next[z] = w]
  OBVIOUS
<1>2. m = [next |-> n, previous |-> [p EXCEPT ![x] = y]]
  OBVIOUS
<1> HIDE DEF m
<1>3. [m EXCEPT !.next[z] = w] = [next |-> [n EXCEPT ![z] = w], previous |-> [p EXCEPT ![x] = y]]
  BY <1>2
<1> QED
  BY <1>1, <1>3

LEMMA ThreeLemma ==
  ASSUME NEW l, NEW n, NEW p, l = [next |-> n, previous |-> p],
         NEW x, NEW y, NEW z, NEW w, NEW v, NEW u
  PROVE  [l EXCEPT !.next[z] = w, !.previous[x] = y, !.next[v] = u]
           = [next |-> [[n EXCEPT ![z] = w] EXCEPT ![v] = u], previous |-> [p EXCEPT ![x] = y]]
<1> DEFINE m == [l EXCEPT !.next[z] = w]
           k == [m EXCEPT !.previous[x] = y]
<1>1. [l EXCEPT !.next[z] = w, !.previous[x] = y, !.next[v] = u] = [k EXCEPT !.next[v] = u]
  OBVIOUS
<1>2. m = [next |-> [n EXCEPT ![z] = w], previous |-> p]
  OBVIOUS
<1> HIDE DEF m
<1>3. k = [next |-> [n EXCEPT ![z] = w], previous |-> [p EXCEPT ![x] = y]]
  BY <1>2
<1> HIDE DEF k
<1>4. [k EXCEPT !.next[v] = u]
        = [next |-> [[n EXCEPT ![z] = w] EXCEPT ![v] = u], previous |-> [p EXCEPT ![x] = y]]
  BY <1>3
<1> QED
  BY <1>1, <1>4

-----------------------------------------------------------------------------
(* The list.                                                               *)

Nodes   == Alarms \union {alt_alarm_list}
LinkSet == [next : [Nodes -> Nodes], previous : [Nodes -> Nodes]]

(* The head and the alarms R are one ring, the same both ways: no part of  *)
(* it that holds the head is closed under next.  An alarm that is not in   *)
(* it is a ring of its own.                                                *)
Ring(l, R) ==
  LET L == R \union {alt_alarm_list}
  IN  /\ l \in LinkSet
      /\ \A x \in L : /\ l.next[x] \in L /\ l.previous[l.next[x]] = x
                      /\ l.previous[x] \in L /\ l.next[l.previous[x]] = x
      /\ \A S \in SUBSET L :
           alt_alarm_list \in S /\ (\A x \in S : l.next[x] \in S) => S = L
      /\ \A a \in Alarms \ R : l.next[a] = a /\ l.previous[a] = a

(* The list is a ring but in the midst of a start or a stop, which is then *)
(* half-way from one ring to the next.                                     *)
ListInv ==
  /\ running \subseteq Alarms /\ started \subseteq Alarms /\ IsFiniteSet(running)
  /\ call.at \in AlarmSteps => call.alarm \in Alarms
  /\ call.at \in {"start_time", "start_entry", "start_head"} => call.alarm \notin running
  /\ call.at = "start_head" =>
       \E l \in LinkSet : Ring(l, running) /\ links = LinkEntry(l, call.alarm)
  /\ call.at = "stop_unlink" =>
       \E l \in LinkSet : Ring(l, running) /\ links = Bypass(l, call.alarm)
  /\ call.at \notin {"start_head", "stop_unlink"} => Ring(links, running)

(* The alarms that alt_tick has still to look at: from at on to the head.  *)
Ahead(l, Rest, at) ==
  /\ at \in Rest \union {alt_alarm_list}
  /\ \A x \in Rest : /\ l.next[x] \in Rest \union {alt_alarm_list}
                     /\ x # at => l.previous[x] \in Rest

(* The time of an alarm, seen at a tick: less than a turn of the counter   *)
(* away, and flagged when it is in the next turn.                          *)
Timed(a, tick) ==
  /\ time[a] = due[a] % Word
  /\ rollover[a] = (due[a] \div Word > tick \div Word)
Set(a)  == Timed(a, elapsed) /\ due[a] - elapsed \in 1..(Word - 1)
Left(a) == Timed(a, elapsed - 1) /\ due[a] - elapsed \in 0..(Word - 2)

(* Between two ticks every alarm on the list is set; in alt_tick those     *)
(* that it has not looked at are as the tick before left them.             *)
AlarmsInv ==
  /\ time \in [Alarms -> Nat] /\ due \in [Alarms -> Nat] /\ rollover \in [Alarms -> BOOLEAN]
  /\ isr \in {"off", "dispatch", "walk", "callback"}
  /\ call.at = "start_time" => call.nticks \in Intervals
  /\ call.at \in {"start_entry", "start_head"} => Set(call.alarm)
  /\ isr \in {"off", "dispatch"} => \A a \in running : Set(a)
  /\ isr = "walk" =>
       /\ elapsed > 0
       /\ \E Rest \in SUBSET running :
            /\ Ahead(links, Rest, alarm)
            /\ \A a \in running : IF a \in Rest THEN Left(a) ELSE Set(a)
  /\ isr = "callback" =>
       /\ elapsed > 0
       /\ alarm \in Alarms /\ due[alarm] = elapsed /\ time[alarm] = nticks /\ ~ rollover[alarm]
       /\ \E Rest \in SUBSET (running \ {alarm}) :
            /\ Ahead(links, Rest, next)
            /\ \A a \in running \ {alarm} : IF a \in Rest THEN Left(a) ELSE Set(a)
-----------------------------------------------------------------------------
LEMMA InsertValue ==
  ASSUME NEW l \in LinkSet, NEW a \in Alarms
  PROVE  Insert(l, a) =
           [next |-> [[l.next EXCEPT ![a] = l.next[alt_alarm_list]] EXCEPT ![alt_alarm_list] = a],
            previous |-> [[l.previous EXCEPT ![a] = alt_alarm_list]
                                      EXCEPT ![l.next[alt_alarm_list]] = a]]
<1> DEFINE h == alt_alarm_list
           n == l.next
           p == l.previous
           f == n[h]
           n1 == [n EXCEPT ![a] = n[h]]
           p1 == [p EXCEPT ![a] = h]
           e == LinkEntry(l, a)
<1>1. l = [next |-> n, previous |-> p] /\ n1[h] = f
  BY AlarmsAssumption DEF LinkSet, Nodes
<1>2. e = [l EXCEPT !.previous[a] = h, !.next[a] = n[h]]
  BY Zenon DEF LinkEntry
<1> HIDE DEF n, p
<1>3. e = [next |-> n1, previous |-> p1]
  BY <1>1, <1>2, EntriesLemma
<1>4. Insert(l, a) = [e EXCEPT !.previous[e.next[h]] = a, !.next[h] = a]
  BY Zenon DEF Insert, LinkHead
<1> HIDE DEF e, n1, p1
<1>5. e.next = n1 /\ n1[h] = f
  BY <1>1, <1>3
<1>6. Insert(l, a) = [e EXCEPT !.previous[f] = a, !.next[h] = a]
  BY <1>4, <1>5, Zenon
<1>7. Insert(l, a) = [next |-> [n1 EXCEPT ![h] = a], previous |-> [p1 EXCEPT ![f] = a]]
  BY <1>3, <1>6, EntriesLemma
<1> QED
  BY <1>7 DEF n1, p1, n, p

LEMMA RemoveValue ==
  ASSUME NEW l \in LinkSet, NEW a \in Alarms, l.next[a] = a <=> l.previous[a] = a
  PROVE  Remove(l, a) =
           [next |-> [[l.next EXCEPT ![l.previous[a]] = l.next[a]] EXCEPT ![a] = a],
            previous |-> [[l.previous EXCEPT ![l.next[a]] = l.previous[a]] EXCEPT ![a] = a]]
<1> DEFINE n == l.next
           p == l.previous
           b == Bypass(l, a)
           q == [p EXCEPT ![n[a]] = p[a]]
<1>1. l = [next |-> n, previous |-> p] /\ q[a] = p[a]
  BY DEF LinkSet, Nodes
<1>2. b = [l EXCEPT !.previous[n[a]] = p[a]]
  BY Zenon DEF Bypass
<1> HIDE DEF n, p
<1>3. b = [next |-> n, previous |-> q]
  BY <1>1, <1>2, EntryLemma
<1>4. Remove(l, a) = [b EXCEPT !.next[b.previous[a]] = b.next[a], !.previous[a] = a, !.next[a] = a]
  BY Zenon DEF Remove, Unlink
<1> HIDE DEF b, q
<1>5. b.next = n /\ b.previous = q /\ q[a] = p[a]
  BY <1>1, <1>3
<1>6. Remove(l, a) = [b EXCEPT !.next[p[a]] = n[a], !.previous[a] = a, !.next[a] = a]
  BY <1>4, <1>5, Zenon
<1>7. Remove(l, a) = [next |-> [[n EXCEPT ![p[a]] = n[a]] EXCEPT ![a] = a],
                      previous |-> [q EXCEPT ![a] = a]]
  BY <1>3, <1>6, ThreeLemma
<1> QED
  BY <1>7 DEF q, n, p

-----------------------------------------------------------------------------
(* Insertion and removal, as values of the links.                          *)
LEMMA InsertLemma ==
  ASSUME NEW l \in LinkSet, NEW a \in Alarms, NEW R \in SUBSET Alarms,
         Ring(l, R), a \notin R
  PROVE  /\ Insert(l, a) \in LinkSet
         /\ l.next[alt_alarm_list] \in R \union {alt_alarm_list}
         /\ \A x \in Nodes :
              /\ Insert(l, a).next[x] = IF x = alt_alarm_list THEN a
                                        ELSE IF x = a THEN l.next[alt_alarm_list] ELSE l.next[x]
              /\ Insert(l, a).previous[x] = IF x = l.next[alt_alarm_list] THEN a
                                            ELSE IF x = a THEN alt_alarm_list ELSE l.previous[x]
<1> DEFINE h == alt_alarm_list
           f == l.next[h]
<1>1. h \in Nodes /\ a \in Nodes /\ a # h /\ f \in R \union {h} /\ f \in Nodes /\ f # a
  BY AlarmsAssumption DEF Ring, Nodes
<1>2. /\ l = [next |-> l.next, previous |-> l.previous]
      /\ l.next \in [Nodes -> Nodes] /\ l.previous \in [Nodes -> Nodes]
  BY DEF LinkSet
<1> DEFINE m == Insert(l, a)
           n == [[l.next EXCEPT ![a] = f] EXCEPT ![h] = a]
           p == [[l.previous EXCEPT ![a] = h] EXCEPT ![f] = a]
<1>3. m = [next |-> n, previous |-> p]
  BY InsertValue
<1> HIDE DEF f, h, m
<1>4. /\ n \in [Nodes -> Nodes] /\ p \in [Nodes -> Nodes]
      /\ \A x \in Nodes : /\ n[x] = IF x = h THEN a ELSE IF x = a THEN f ELSE l.next[x]
                          /\ p[x] = IF x = f THEN a ELSE IF x = a THEN h ELSE l.previous[x]
  BY <1>1, <1>2
<1> HIDE DEF n, p
<1>5. m \in LinkSet /\ m.next = n /\ m.previous = p
  BY <1>3, <1>4 DEF LinkSet
<1> QED
  BY <1>1, <1>4, <1>5 DEF f, h, m

LEMMA InsertKeepsRing ==
  ASSUME NEW l \in LinkSet, NEW a \in Alarms, NEW R \in SUBSET Alarms,
         Ring(l, R), a \notin R
  PROVE  Ring(Insert(l, a), R \union {a})
<1> DEFINE h == alt_alarm_list
           f == l.next[h]
           m == Insert(l, a)
           L == R \union {h}
           M == R \union {a} \union {h}
<1>1. /\ h \in Nodes /\ a \in Nodes /\ a # h /\ a \notin L /\ h \in L
      /\ L \subseteq Nodes /\ M \subseteq Nodes /\ M = L \union {a}
  BY AlarmsAssumption DEF Nodes
<1>2. /\ m \in LinkSet /\ f \in L
      /\ \A x \in Nodes : /\ m.next[x] = IF x = h THEN a ELSE IF x = a THEN f ELSE l.next[x]
                          /\ m.previous[x] = IF x = f THEN a ELSE IF x = a THEN h ELSE l.previous[x]
  BY InsertLemma
<1>3. /\ \A x \in L : /\ l.next[x] \in L /\ l.previous[l.next[x]] = x
                      /\ l.previous[x] \in L /\ l.next[l.previous[x]] = x
      /\ \A S \in SUBSET L : h \in S /\ (\A x \in S : l.next[x] \in S) => S = L
      /\ \A b \in Alarms \ R : l.next[b] = b /\ l.previous[b] = b
  BY DEF Ring
<1> HIDE DEF m, f, h, L, M
<1>4. l.previous[f] = h
  BY <1>1, <1>3 DEF f
<1>5. ASSUME NEW x \in M
      PROVE  /\ m.next[x] \in M /\ m.previous[m.next[x]] = x
             /\ m.previous[x] \in M /\ m.next[m.previous[x]] = x
  <2>1. CASE x = a
    BY <1>1, <1>2, <2>1
  <2>2. CASE x = h /\ x # f
    <3>1. m.next[x] = a /\ m.previous[x] = l.previous[x] /\ x \in L /\ x \in Nodes
      BY <1>1, <1>2, <2>2
    <3>2. m.previous[a] = h
      BY <1>1, <1>2
    <3>3. l.previous[x] \in L /\ l.next[l.previous[x]] = x /\ l.previous[x] # h
      BY <1>3, <2>2, <3>1 DEF f
    <3> QED
      BY <1>1, <1>2, <2>2, <3>1, <3>2, <3>3
  <2>3. CASE x = h /\ x = f
    BY <1>1, <1>2, <2>3
  <2>4. CASE x # a /\ x # h
    <3>1. x \in L /\ m.next[x] = l.next[x] /\ l.next[x] \in L /\ l.previous[l.next[x]] = x
      BY <1>1, <1>2, <1>3, <2>4
    <3>2. l.next[x] # f /\ l.next[x] # a
      BY <1>1, <1>4, <2>4, <3>1
    <3>3. m.previous[m.next[x]] = x
      BY <1>1, <1>2, <3>1, <3>2
    <3>4. CASE x = f
      <4>1. m.previous[x] = a /\ m.next[a] = f
        BY <1>1, <1>2, <3>1, <3>4
      <4> QED
        BY <1>1, <3>1, <3>3, <3>4, <4>1
    <3>5. CASE x # f
      <4>1. /\ m.previous[x] = l.previous[x] /\ l.previous[x] \in L
            /\ l.next[l.previous[x]] = x
        BY <1>1, <1>2, <1>3, <2>4, <3>1, <3>5
      <4>2. l.previous[x] # h /\ l.previous[x] # a
        BY <1>1, <3>5, <4>1 DEF f
      <4>3. m.next[m.previous[x]] = x
        BY <1>1, <1>2, <4>1, <4>2
      <4> QED
        BY <1>1, <3>1, <3>3, <4>1, <4>3
    <3> QED
      BY <3>4, <3>5
  <2> QED
    BY <2>1, <2>2, <2>3, <2>4
<1>6. ASSUME NEW S \in SUBSET M, h \in S, \A x \in S : m.next[x] \in S
      PROVE  S = M
  <2>1. a \in S /\ f \in S
    BY <1>1, <1>2, <1>6
  <2> DEFINE T == S \ {a}
  <2>2. T \subseteq L /\ h \in T
    BY <1>1, <1>6
  <2>3. ASSUME NEW x \in T PROVE l.next[x] \in T
    <3>1. x \in L /\ x \in S /\ x # a /\ l.next[x] \in L
      BY <1>3, <2>2
    <3>2. CASE x = h
      BY <1>1, <1>2, <2>1, <3>2 DEF f
    <3>3. CASE x # h
      BY <1>1, <1>2, <1>6, <3>1, <3>3
    <3> QED
      BY <3>2, <3>3
  <2>4. T = L
    BY <1>3, <2>2, <2>3
  <2> QED
    BY <1>1, <2>1, <2>4
<1>7. ASSUME NEW b \in Alarms \ (R \union {a}) PROVE m.next[b] = b /\ m.previous[b] = b
  <2>1. b \in Nodes /\ b # a /\ b # h /\ b \notin L
    BY AlarmsAssumption DEF Nodes, L, h
  <2> QED
    BY <1>2, <1>3, <2>1
<1> QED
  BY <1>1, <1>2, <1>5, <1>6, <1>7 DEF Ring, m, M, h

LEMMA RemoveLemma ==
  ASSUME NEW l \in LinkSet, NEW a \in Alarms, NEW R \in SUBSET Alarms, Ring(l, R)
  PROVE  /\ Remove(l, a) \in LinkSet
         /\ a \in R => /\ l.next[a] \in (R \ {a}) \union {alt_alarm_list}
                       /\ l.previous[a] \in (R \ {a}) \union {alt_alarm_list}
         /\ \A x \in Nodes :
              /\ Remove(l, a).next[x] = IF x = a THEN a
                                        ELSE IF x = l.previous[a] THEN l.next[a] ELSE l.next[x]
              /\ Remove(l, a).previous[x] = IF x = a THEN a
                                            ELSE IF x = l.next[a] THEN l.previous[a]
                                            ELSE l.previous[x]
<1> DEFINE h == alt_alarm_list
           n == l.next[a]
           p == l.previous[a]
           L == R \union {h}
<1>1. h \in Nodes /\ a \in Nodes /\ a # h /\ n \in Nodes /\ p \in Nodes
  BY AlarmsAssumption DEF LinkSet, Nodes
<1>2. /\ l = [next |-> l.next, previous |-> l.previous]
      /\ l.next \in [Nodes -> Nodes] /\ l.previous \in [Nodes -> Nodes]
  BY DEF LinkSet
<1>3. a \in R => n \in L \ {a} /\ p \in L \ {a}
  <2> SUFFICES ASSUME a \in R PROVE n \in L \ {a} /\ p \in L \ {a}
    OBVIOUS
  <2>1. n \in L /\ p \in L /\ l.previous[n] = a /\ l.next[p] = a
    BY DEF Ring
  <2>2. \A x \in L : l.next[x] \in L /\ l.previous[l.next[x]] = x
    BY DEF Ring
  <2>3. \A S \in SUBSET L : h \in S /\ (\A x \in S : l.next[x] \in S) => S = L
    BY DEF Ring
  <2>4. SUFFICES ASSUME n = a \/ p = a PROVE FALSE
    BY <2>1
  <2>5. n = a /\ p = a
    BY <2>1, <2>4
  <2>6. \A x \in L \ {a} : l.next[x] \in L \ {a}
    BY <2>2, <2>5
  <2>7. h \in L \ {a} /\ L \ {a} \in SUBSET L
    BY <1>1
  <2> HIDE DEF L
  <2>8. L \ {a} = L
    BY <2>3, <2>6, <2>7
  <2> QED
    BY <2>8 DEF L
<1>4. (n = a <=> p = a)
  <2>1. CASE a \in R
    BY <1>3, <2>1
  <2>2. CASE a \notin R
    BY <2>2 DEF Ring
  <2> QED
    BY <2>1, <2>2
<1>6. Remove(l, a) = [next |-> [[l.next EXCEPT ![p] = n] EXCEPT ![a] = a],
                      previous |-> [[l.previous EXCEPT ![n] = p] EXCEPT ![a] = a]]
  BY <1>4, RemoveValue
<1> HIDE DEF n, p, h, L
<1>7. /\ Remove(l, a) \in LinkSet
      /\ \A x \in Nodes :
           /\ Remove(l, a).next[x] = IF x = a THEN a ELSE IF x = p THEN n ELSE l.next[x]
           /\ Remove(l, a).previous[x] = IF x = a THEN a ELSE IF x = n THEN p ELSE l.previous[x]
  BY <1>1, <1>2, <1>6 DEF LinkSet
<1> QED
  BY <1>1, <1>3, <1>7 DEF n, p, L, h

LEMMA RemoveKeepsRing ==
  ASSUME NEW l \in LinkSet, NEW a \in Alarms, NEW R \in SUBSET Alarms, Ring(l, R)
  PROVE  Ring(Remove(l, a), R \ {a})
<1> DEFINE h == alt_alarm_list
           n == l.next[a]
           p == l.previous[a]
           m == Remove(l, a)
           L == R \union {h}
           M == (R \ {a}) \union {h}
<1>1. /\ h \in Nodes /\ a \in Nodes /\ a # h /\ h \in L
      /\ L \subseteq Nodes /\ M \subseteq Nodes /\ M = L \ {a} /\ n \in Nodes /\ p \in Nodes
  BY AlarmsAssumption DEF Nodes, LinkSet
<1>2. /\ m \in LinkSet
      /\ a \in R => n \in M /\ p \in M
      /\ \A x \in Nodes :
           /\ m.next[x] = IF x = a THEN a ELSE IF x = p THEN n ELSE l.next[x]
           /\ m.previous[x] = IF x = a THEN a ELSE IF x = n THEN p ELSE l.previous[x]
  BY RemoveLemma
<1>3. /\ \A x \in L : /\ l.next[x] \in L /\ l.previous[l.next[x]] = x
                      /\ l.previous[x] \in L /\ l.next[l.previous[x]] = x
      /\ \A S \in SUBSET L : h \in S /\ (\A x \in S : l.next[x] \in S) => S = L
      /\ \A b \in Alarms \ R : l.next[b] = b /\ l.previous[b] = b
  BY DEF Ring
<1>4. a \notin L => n = a /\ p = a
  BY <1>3
<1>5. a \in L => n \in M /\ p \in M /\ l.previous[n] = a /\ l.next[p] = a
  BY <1>1, <1>2, <1>3
<1> HIDE DEF m, n, p, h, L, M
<1>6. ASSUME NEW x \in M
      PROVE  /\ m.next[x] \in M /\ m.previous[m.next[x]] = x
             /\ m.previous[x] \in M /\ m.next[m.previous[x]] = x
  <2>1. x \in L /\ x # a /\ x \in Nodes
    BY <1>1
  <2>2. /\ l.next[x] \in L /\ l.previous[l.next[x]] = x
        /\ l.previous[x] \in L /\ l.next[l.previous[x]] = x
    BY <1>3, <2>1
  <2>3. m.next[x] \in M /\ m.previous[m.next[x]] = x
    <3>1. CASE x = p
      <4>1. a \in L
        BY <1>4, <2>1, <3>1
      <4>2. m.next[x] = n /\ n \in M /\ n \in Nodes /\ n # a
        BY <1>1, <1>2, <1>5, <2>1, <3>1, <4>1
      <4>3. m.previous[n] = p
        BY <1>2, <4>2
      <4> QED
        BY <3>1, <4>2, <4>3
    <3>2. CASE x # p
      <4>1. m.next[x] = l.next[x] /\ l.next[x] \in Nodes
        BY <1>1, <1>2, <2>1, <2>2, <3>2
      <4>2. l.next[x] # a
        BY <2>2, <3>2 DEF p
      <4>3. l.next[x] # n
        BY <1>4, <1>5, <2>1, <2>2, <4>2
      <4> QED
        BY <1>1, <1>2, <2>2, <4>1, <4>2, <4>3
    <3> QED
      BY <3>1, <3>2
  <2>4. m.previous[x] \in M /\ m.next[m.previous[x]] = x
    <3>1. CASE x = n
      <4>1. a \in L
        BY <1>4, <2>1, <3>1
      <4>2. m.previous[x] = p /\ p \in M /\ p \in Nodes /\ p # a
        BY <1>1, <1>2, <1>5, <2>1, <3>1, <4>1
      <4>3. m.next[p] = n
        BY <1>2, <4>2
      <4> QED
        BY <3>1, <4>2, <4>3
    <3>2. CASE x # n
      <4>1. m.previous[x] = l.previous[x] /\ l.previous[x] \in Nodes
        BY <1>1, <1>2, <2>1, <2>2, <3>2
      <4>2. l.previous[x] # a
        BY <2>2, <3>2 DEF n
      <4>3. l.previous[x] # p
        BY <1>4, <1>5, <2>1, <2>2, <4>2
      <4> QED
        BY <1>1, <1>2, <2>2, <4>1, <4>2, <4>3
    <3> QED
      BY <3>1, <3>2
  <2> QED
    BY <2>3, <2>4
<1>7. ASSUME NEW S \in SUBSET M, h \in S, \A x \in S : m.next[x] \in S
      PROVE  S = M
  <2>1. CASE a \notin L
    <3>1. M = L
      BY <1>1, <2>1
    <3>2. \A x \in S : l.next[x] \in S
      BY <1>1, <1>2, <1>4, <1>7, <2>1, <3>1
    <3> QED
      BY <1>3, <1>7, <3>1, <3>2
  <2>2. CASE a \in L
    <3> DEFINE T == IF p \in S THEN S \union {a} ELSE S
    <3>1. T \subseteq L /\ h \in T
      BY <1>1, <1>7, <2>2
    <3>2. ASSUME NEW x \in T PROVE l.next[x] \in T
      <4>1. CASE x = a
        <5>1. p \in S
          BY <1>1, <1>7, <3>2, <4>1
        <5>2. n \in S
          BY <1>1, <1>2, <1>5, <1>7, <2>2, <5>1
        <5> QED
          BY <4>1, <5>2 DEF n
      <4>2. CASE x # a /\ x = p
        BY <1>5, <2>2, <3>2, <4>2
      <4>3. CASE x # a /\ x # p
        <5>1. x \in S /\ x \in Nodes
          BY <1>1, <1>7, <3>2, <4>3
        <5>2. m.next[x] = l.next[x]
          BY <1>2, <4>3, <5>1
        <5> QED
          BY <1>7, <5>1, <5>2
      <4> QED
        BY <4>1, <4>2, <4>3
    <3>3. T = L
      BY <1>3, <3>1, <3>2
    <3> QED
      BY <1>1, <1>7, <3>3
  <2> QED
    BY <2>1, <2>2
<1>8. ASSUME NEW b \in Alarms \ (R \ {a}) PROVE m.next[b] = b /\ m.previous[b] = b
  <2>1. b \in Nodes /\ b # h
    BY AlarmsAssumption DEF Nodes, h
  <2>2. CASE b = a
    BY <1>2, <2>1, <2>2
  <2>3. CASE b # a
    <3>1. b \notin L /\ l.next[b] = b /\ l.previous[b] = b
      BY <1>3, <2>1, <2>3 DEF L
    <3>2. b # n /\ b # p
      BY <1>1, <1>4, <1>5, <2>3, <3>1
    <3> QED
      BY <1>2, <2>1, <2>3, <3>1, <3>2
  <2> QED
    BY <2>2, <2>3
<1> QED
  BY <1>1, <1>2, <1>6, <1>7, <1>8 DEF Ring, m, M, h
-----------------------------------------------------------------------------
(* The walk of alt_tick along the list.                                    *)

(* A part of the list that the head is not in, and that the list enters    *)
(* nowhere, is empty.                                                      *)
LEMMA EnteredLemma ==
  ASSUME NEW l \in LinkSet, NEW R \in SUBSET Alarms, Ring(l, R), NEW Rest \in SUBSET R,
         \A x \in Rest : l.previous[x] \in Rest
  PROVE  Rest = {}
<1> DEFINE h == alt_alarm_list
           L == R \union {h}
           S == L \ Rest
<1>1. /\ \A x \in L : l.next[x] \in L /\ l.previous[l.next[x]] = x
      /\ \A T \in SUBSET L : h \in T /\ (\A x \in T : l.next[x] \in T) => T = L
  BY DEF Ring
<1>2. h \in S /\ S \in SUBSET L /\ Rest \subseteq L
  BY AlarmsAssumption
<1>3. \A x \in S : l.next[x] \in S
  BY <1>1
<1> HIDE DEF L
<1>4. S = L
  BY <1>1, <1>2, <1>3, Zenon
<1> QED
  BY <1>2, <1>4

LEMMA WalkStarts ==
  ASSUME NEW l \in LinkSet, NEW R \in SUBSET Alarms, Ring(l, R)
  PROVE  Ahead(l, R, l.next[alt_alarm_list])
BY DEF Ring, Ahead

LEMMA WalkGoesOn ==
  ASSUME NEW l \in LinkSet, NEW R \in SUBSET Alarms, Ring(l, R), NEW Rest \in SUBSET R,
         NEW at \in Rest, Ahead(l, Rest, at)
  PROVE  Ahead(l, Rest \ {at}, l.next[at])
<1>1. \A x \in R : /\ l.previous[l.next[x]] = x /\ l.next[l.previous[x]] = x
  BY DEF Ring
<1>2. l.next[at] \in Rest \union {alt_alarm_list} /\ l.next[at] # at
  <2>1. at \in R /\ at \in Alarms
    OBVIOUS
  <2>2. l.next[at] # at
    BY <2>1, RemoveLemma, AlarmsAssumption
  <2> QED
    BY <2>2 DEF Ahead
<1>3. ASSUME NEW x \in Rest \ {at} PROVE l.next[x] # at
  <2> SUFFICES ASSUME l.next[x] = at PROVE FALSE
    OBVIOUS
  <2>1. l.previous[at] = x
    BY <1>1
  <2>2. \A y \in Rest : l.previous[y] \in Rest
    BY <2>1 DEF Ahead
  <2> QED
    BY <2>2, EnteredLemma
<1>4. ASSUME NEW x \in Rest \ {at}, x # l.next[at] PROVE l.previous[x] \in Rest \ {at}
  BY <1>1, <1>4 DEF Ahead
<1> QED
  BY <1>2, <1>3, <1>4 DEF Ahead

LEMMA WalkEnds ==
  ASSUME NEW l \in LinkSet, NEW R \in SUBSET Alarms, Ring(l, R), NEW Rest \in SUBSET R,
         Ahead(l, Rest, alt_alarm_list)
  PROVE  Rest = {}
<1>1. \A x \in Rest : l.previous[x] \in Rest
  BY AlarmsAssumption DEF Ahead
<1> QED
  BY <1>1, EnteredLemma

(* A callback that stops an alarm, other than the next, or starts one.     *)
LEMMA RemoveAhead ==
  ASSUME NEW l \in LinkSet, NEW R \in SUBSET Alarms, Ring(l, R), NEW Rest \in SUBSET R,
         NEW at, Ahead(l, Rest, at), NEW a \in Alarms, a # at
  PROVE  Ahead(Remove(l, a), Rest \ {a}, at)
<1> DEFINE h == alt_alarm_list
           m == Remove(l, a)
           n == l.next[a]
           p == l.previous[a]
           L == R \union {h}
<1>1. \A x \in Nodes :
        /\ m.next[x] = IF x = a THEN a ELSE IF x = p THEN n ELSE l.next[x]
        /\ m.previous[x] = IF x = a THEN a ELSE IF x = n THEN p ELSE l.previous[x]
  BY RemoveLemma
<1>2. a \in R => n # a /\ p # a
  BY RemoveLemma, AlarmsAssumption
<1>3. \A x \in L : /\ l.next[x] \in L /\ l.previous[l.next[x]] = x
                   /\ l.previous[x] \in L /\ l.next[l.previous[x]] = x
  BY DEF Ring
<1>4. a \notin R => n = a /\ p = a
  BY DEF Ring
<1>5. /\ at \in Rest \union {h}
      /\ \A x \in Rest : l.next[x] \in Rest \union {h} /\ (x # at => l.previous[x] \in Rest)
  BY DEF Ahead
<1>6. Rest \subseteq Nodes /\ Rest \subseteq L /\ h # a
  BY AlarmsAssumption DEF Nodes
<1> HIDE DEF m, n, p, h
<1>7. ASSUME NEW x \in Rest \ {a} PROVE m.next[x] \in (Rest \ {a}) \union {h}
  <2>1. CASE x = p
    <3>1. a \in R /\ m.next[x] = n /\ l.next[x] = a
      BY <1>1, <1>3, <1>4, <1>6, <2>1 DEF p
    <3>2. a \in Rest
      BY <1>5, <1>6, <3>1
    <3> QED
      BY <1>2, <1>5, <3>1, <3>2 DEF n
  <2>2. CASE x # p
    <3>1. m.next[x] = l.next[x] /\ l.previous[l.next[x]] = x
      BY <1>1, <1>3, <1>6, <2>2
    <3> QED
      BY <1>5, <2>2, <3>1 DEF p
  <2> QED
    BY <2>1, <2>2
<1>8. ASSUME NEW x \in Rest \ {a}, x # at PROVE m.previous[x] \in Rest \ {a}
  <2>1. CASE x = n
    <3>1. a \in R /\ m.previous[x] = p /\ l.previous[x] = a
      BY <1>1, <1>3, <1>4, <1>6, <2>1 DEF n
    <3>2. a \in Rest
      BY <1>5, <1>8, <3>1
    <3> QED
      BY <1>2, <1>5, <3>1, <3>2 DEF p
  <2>2. CASE x # n
    <3>1. m.previous[x] = l.previous[x] /\ l.next[l.previous[x]] = x
      BY <1>1, <1>3, <1>6, <2>2
    <3> QED
      BY <1>5, <1>8, <2>2, <3>1 DEF n
  <2> QED
    BY <2>1, <2>2
<1> QED
  BY <1>5, <1>7, <1>8 DEF Ahead, m, h

LEMMA InsertAhead ==
  ASSUME NEW l \in LinkSet, NEW R \in SUBSET Alarms, Ring(l, R), NEW Rest \in SUBSET R,
         NEW at, Ahead(l, Rest, at), NEW a \in Alarms, a \notin R
  PROVE  Ahead(Insert(l, a), Rest, at)
<1> DEFINE h == alt_alarm_list
           m == Insert(l, a)
           f == l.next[h]
<1>1. \A x \in Nodes :
        /\ m.next[x] = IF x = h THEN a ELSE IF x = a THEN f ELSE l.next[x]
        /\ m.previous[x] = IF x = f THEN a ELSE IF x = a THEN h ELSE l.previous[x]
  BY InsertLemma
<1>2. l.previous[f] = h
  BY DEF Ring
<1>3. Rest \subseteq Nodes /\ a \notin Rest /\ h \notin Rest
  BY AlarmsAssumption DEF Nodes
<1>4. /\ at \in Rest \union {h}
      /\ \A x \in Rest : l.next[x] \in Rest \union {h} /\ (x # at => l.previous[x] \in Rest)
  BY DEF Ahead
<1> HIDE DEF m, f, h
<1>5. ASSUME NEW x \in Rest PROVE m.next[x] \in Rest \union {h}
  BY <1>1, <1>3, <1>4
<1>6. ASSUME NEW x \in Rest, x # at PROVE m.previous[x] \in Rest
  BY <1>1, <1>2, <1>3, <1>4, <1>6
<1> QED
  BY <1>4, <1>5, <1>6 DEF Ahead, m, h
-----------------------------------------------------------------------------
(* The times of the alarms, as words and as the ticks they stand for.      *)
LEMMA NatDivLemma ==
  ASSUME NEW a \in Nat, NEW b \in Nat \ {0}
  PROVE  a \div b \in Nat /\ a % b \in 0..(b - 1) /\ a = (a \div b) * b + (a % b)
<1>1. a \in Int /\ a >= 0
  OBVIOUS
<1> QED
  BY <1>1, DivLemma

LEMMA PlusLemma ==
  ASSUME NEW a \in Nat, NEW m \in Nat, NEW b \in Nat \ {0}
  PROVE  ((a % b) + m) % b = (a + m) % b
<1> DEFINE k == a \div b
           r == a % b
           j == (r + m) \div b
           s == (r + m) % b
<1>1. k \in Nat /\ r \in 0..(b - 1) /\ a = k * b + r
  BY NatDivLemma
<1>2. j \in Int /\ s \in 0..(b - 1) /\ r + m = j * b + s
  <2> HIDE DEF r
  <2>1. r + m \in Int
    BY <1>1
  <2> QED
    BY <2>1, DivLemma
<1> HIDE DEF k, r, j
<1>3. (k + j) * b = k * b + j * b
  BY <1>1, <1>2
<1>4. a + m = (k + j) * b + s /\ k + j \in Int
  <2>1. k * b \in Int /\ j * b \in Int
    BY <1>1, <1>2
  <2> HIDE DEF s
  <2> QED
    BY <1>1, <1>2, <1>3, <2>1
<1>5. ((k + j) * b + s) % b = s
  <2> HIDE DEF s
  <2> QED
    BY <1>2, <1>4, DivIsLemma
<1> QED
  BY <1>4, <1>5 DEF r, s

(* Two numbers less than a turn apart.                                     *)
LEMMA TurnLemma ==
  ASSUME NEW e \in Nat, NEW d \in Nat, NEW b \in Nat \ {0}, d - e \in 0..(b - 1)
  PROVE  /\ d \div b \in Nat /\ e \div b \in Nat /\ d % b \in Nat /\ e % b \in Nat
         /\ d \div b > e \div b <=> d % b < e % b
         /\ ~(d \div b > e \div b) => d \div b = e \div b
         /\ d % b = e % b => d = e
         /\ d % b <= e % b /\ ~(d \div b > e \div b) <=> d = e
<1> DEFINE k == d \div b
           r == d % b
           j == e \div b
           s == e % b
<1>1. k \in Nat /\ r \in 0..(b - 1) /\ d = k * b + r
  BY NatDivLemma
<1>2. j \in Nat /\ s \in 0..(b - 1) /\ e = j * b + s
  BY NatDivLemma
<1> HIDE DEF k, r, j, s
<1>3. k * b \in Nat /\ j * b \in Nat /\ k * b + r - (j * b + s) \in 0..(b - 1)
  BY <1>1, <1>2
<1>4. CASE k = j
  <2>1. k * b = j * b
    BY <1>4
  <2>2. r - s \in 0..(b - 1)
    BY <1>1, <1>2, <1>3, <2>1
  <2>3. r = s <=> d = e
    BY <1>1, <1>2, <1>3, <2>1
  <2> QED
    BY <1>1, <1>2, <1>4, <2>2, <2>3 DEF k, r, j, s
<1>5. CASE k > j
  <2>1. PICK i \in Nat : k = j + 1 + i
    <3>1. k - j - 1 \in Nat
      BY <1>1, <1>2, <1>5
    <3> QED
      BY <1>1, <1>2, <3>1
  <2>2. k * b = j * b + b + i * b /\ i * b \in Nat
    BY <1>1, <1>2, <2>1
  <2>3. r < s
    BY <1>1, <1>2, <1>3, <2>2
  <2>4. d # e
    BY <1>1, <1>2, <1>3, <2>2
  <2> QED
    BY <1>1, <1>2, <1>5, <2>3, <2>4 DEF k, r, j, s
<1>6. CASE k < j
  <2>1. PICK i \in Nat : j = k + 1 + i
    <3>1. j - k - 1 \in Nat
      BY <1>1, <1>2, <1>6
    <3> QED
      BY <1>1, <1>2, <3>1
  <2>2. j * b = k * b + b + i * b /\ i * b \in Nat
    BY <1>1, <1>2, <2>1
  <2>3. FALSE
    BY <1>1, <1>2, <1>3, <2>2
  <2> QED
    BY <2>3
<1> QED
  BY <1>1, <1>2, <1>4, <1>5, <1>6

(* The turn changes at the tick that makes the counter zero.               *)
LEMMA TickTurnLemma ==
  ASSUME NEW e \in Nat, e > 0, NEW b \in Nat \ {0}
  PROVE  /\ e % b # 0 => (e - 1) \div b = e \div b
         /\ \A d \in Nat : d - e \in 0..(b - 2) /\ e % b = 0 => ~(d \div b > e \div b)
<1> DEFINE j == e \div b
           s == e % b
<1>1. j \in Nat /\ s \in 0..(b - 1) /\ e = j * b + s
  BY NatDivLemma
<1>2. s # 0 => (e - 1) \div b = j
  <2> HIDE DEF j, s
  <2> SUFFICES ASSUME s # 0 PROVE (e - 1) \div b = j
    OBVIOUS
  <2>1. s - 1 \in 0..(b - 1) /\ j \in Int
    BY <1>1
  <2>2. (j * b + (s - 1)) \div b = j
    BY <2>1, DivIsLemma
  <2>3. e - 1 = j * b + (s - 1)
    <3>1. j * b \in Int
      BY <1>1
    <3> QED
      BY <1>1, <3>1
  <2> QED
    BY <2>2, <2>3
<1>3. ASSUME NEW d \in Nat, d - e \in 0..(b - 2), s = 0 PROVE ~(d \div b > j)
  <2> HIDE DEF j, s
  <2>1. j * b \in Int
    BY <1>1
  <2>2. d = j * b + (d - e) /\ d - e \in 0..(b - 1)
    BY <1>1, <1>3, <2>1
  <2>3. d \div b = j
    <3> DEFINE y == d - e
    <3>1. y \in 0..(b - 1) /\ j \in Int
      BY <1>1, <2>2
    <3> HIDE DEF y
    <3>2. (j * b + y) \div b = j
      BY <3>1, DivIsLemma
    <3> QED
      BY <2>2, <3>2 DEF y
  <2> QED
    BY <1>1, <2>3
<1> QED
  BY <1>2, <1>3
-----------------------------------------------------------------------------
(* The steps of the program, and those that leave the alarms alone.        *)

LEMMA ListInit == Init => ListInv /\ AlarmsInv
<1> SUFFICES ASSUME Init PROVE ListInv /\ AlarmsInv
  OBVIOUS
<1>1. /\ call = Idle /\ isr = "off" /\ running = {} /\ started = {}
      /\ links = [next |-> [x \in Nodes |-> x], previous |-> [x \in Nodes |-> x]]
      /\ time = [a \in Alarms |-> 0] /\ rollover = [a \in Alarms |-> FALSE]
      /\ due = [a \in Alarms |-> 0]
  BY DEF Init, InterruptsInit, Nodes
<1>2. call.at = "idle"
  BY <1>1 DEF Idle
<1>3. Ring(links, running)
  <2>1. links \in LinkSet /\ links.next = [x \in Nodes |-> x] /\ links.previous = [x \in Nodes |-> x]
    BY <1>1 DEF LinkSet
  <2>2. \A x \in Nodes : links.next[x] = x /\ links.previous[x] = x
    BY <2>1
  <2>3. running \union {alt_alarm_list} = {alt_alarm_list}
    BY <1>1
  <2> QED
    BY <2>1, <2>2, <2>3 DEF Ring, Nodes
<1>4. IsFiniteSet({})
  BY FS_EmptySet
<1>5. ListInv
  BY <1>1, <1>2, <1>3, <1>4 DEF ListInv, AlarmSteps
<1>6. AlarmsInv
  BY <1>1, <1>2 DEF AlarmsInv
<1> QED
  BY <1>5, <1>6

(* The program outside of alt_alarm_start and alt_alarm_stop, the devices, *)
(* and the interrupt level outside of alt_tick.                            *)
LEMMA QuietStep ==
  ASSUME ListInv, AlarmsInv, UNCHANGED alarmvars,
         call' = call \/ (call.at \notin AlarmSteps /\ call'.at \notin AlarmSteps),
         isr' = isr \/ (isr \in {"off", "dispatch"} /\ isr' \in {"off", "dispatch"})
  PROVE  ListInv' /\ AlarmsInv'
<1>1. UNCHANGED <<links, time, rollover, nticks, alarm, next, elapsed, due, running, started>>
  BY DEF alarmvars
<1>2. ListInv'
  <2>1. CASE call' = call
    BY <1>1, <2>1, Zenon DEF ListInv
  <2>2. CASE call.at \notin AlarmSteps /\ call'.at \notin AlarmSteps
    BY <1>1, <2>2 DEF ListInv, AlarmSteps
  <2> QED
    BY <2>1, <2>2
<1>3. /\ call.at = "start_time" => call.nticks \in Intervals
      /\ call.at \in {"start_entry", "start_head"} => Set(call.alarm)
      /\ isr \in {"off", "dispatch"} => \A a \in running : Set(a)
  BY DEF AlarmsInv
<1>4. \A a : Set(a)' <=> Set(a)
  BY <1>1 DEF Set, Timed
<1>5. /\ call'.at = "start_time" => call'.nticks \in Intervals
      /\ call'.at \in {"start_entry", "start_head"} => Set(call.alarm)' /\ call' = call
  <2>1. CASE call' = call
    BY <1>3, <1>4, <2>1
  <2>2. CASE call.at \notin AlarmSteps /\ call'.at \notin AlarmSteps
    BY <2>2 DEF AlarmSteps
  <2> QED
    BY <2>1, <2>2
<1>6. call'.at \in {"start_entry", "start_head"} => (Set(call.alarm))'
  BY <1>1, <1>5 DEF Set, Timed
<1>7. isr' \in {"off", "dispatch"} => \A a \in running' : Set(a)'
  BY <1>1, <1>3, <1>4
<1>8. AlarmsInv'
  BY <1>1, <1>5, <1>6, <1>7 DEF AlarmsInv, Left, Set, Timed
<1> QED
  BY <1>2, <1>8
LEMMA CallLemma ==
  ASSUME TableInv, call.at \in AlarmSteps
  PROVE  /\ isr = "off" /\ call # Idle
         /\ \A s : LET c == [call EXCEPT !.at = s]
                   IN  c.at = s /\ c.alarm = call.alarm
<1>1. call # Idle
  BY AtLemma DEF TableInv, AlarmSteps
<1>2. isr = "off"
  BY <1>1, Zenon DEF TableInv
<1>3. \/ call = [at |-> call.at, alarm |-> call.alarm, nticks |-> call.nticks]
      \/ call = [at |-> call.at, alarm |-> call.alarm]
  BY AtLemma DEF TableInv
<1>4. ASSUME NEW s
      PROVE  LET c == [call EXCEPT !.at = s] IN c.at = s /\ c.alarm = call.alarm
  BY <1>3
<1> QED
  BY <1>1, <1>2, <1>4

(* The steps of the program that set no time.                              *)
LEMMA SetKept ==
  ASSUME AlarmsInv, isr = "off", isr' = "off", UNCHANGED <<time, rollover, nticks, elapsed, due>>,
         call'.at = "start_time" => call'.nticks \in Intervals,
         call'.at \in {"start_entry", "start_head"} => Set(call'.alarm),
         \A a \in running' : a \in running \/ Set(a)
  PROVE  AlarmsInv'
<1>1. \A a : Set(a)' <=> Set(a)
  BY DEF Set, Timed
<1>2. \A a \in running : Set(a)
  BY DEF AlarmsInv
<1>3. \A a \in running' : Set(a)'
  BY <1>1, <1>2
<1>4. call'.at \in {"start_entry", "start_head"} => (Set(call.alarm))'
  BY DEF Set, Timed
<1> QED
  BY <1>3, <1>4 DEF AlarmsInv

LEMMA StartStep ==
  ASSUME TableInv, ListInv, AlarmsInv, NEW a \in Alarms, NEW n \in Intervals, Start(a, n)
  PROVE  ListInv' /\ AlarmsInv'
<1>1. /\ a \notin running /\ call = Idle /\ isr = "off" /\ UNCHANGED <<isr, alarmvars>>
      /\ call' = [at |-> "start_time", alarm |-> a, nticks |-> n]
  BY DEF Start, Executing
<1>2. /\ UNCHANGED <<links, time, rollover, nticks, elapsed, due, running, started>>
      /\ call.at = "idle" /\ call'.at = "start_time" /\ call'.alarm = a /\ call'.nticks = n
  BY <1>1 DEF alarmvars, Idle
<1>3. ListInv'
  BY <1>1, <1>2 DEF ListInv, AlarmSteps
<1> QED
  BY <1>1, <1>2, <1>3, SetKept

LEMMA StopStep ==
  ASSUME TableInv, ListInv, AlarmsInv, NEW a \in Alarms, Stop(a)
  PROVE  ListInv' /\ AlarmsInv'
<1>1. /\ call = Idle /\ isr = "off" /\ UNCHANGED <<isr, alarmvars>>
      /\ call' = [at |-> "stop_bypass", alarm |-> a]
  BY DEF Stop, Executing
<1>2. /\ UNCHANGED <<links, time, rollover, nticks, elapsed, due, running, started>>
      /\ call.at = "idle" /\ call'.at = "stop_bypass" /\ call'.alarm = a
  BY <1>1 DEF alarmvars, Idle
<1>3. ListInv'
  BY <1>1, <1>2 DEF ListInv, AlarmSteps
<1> QED
  BY <1>1, <1>2, <1>3, SetKept

(* alt_alarm_start sets the time before the alarm is on the list.          *)
LEMMA StartTimeStep ==
  ASSUME TableInv, TimeInv, ListInv, AlarmsInv, StartTime
  PROVE  ListInv' /\ AlarmsInv'
<1> DEFINE a == call.alarm
           t == (call.nticks + nticks + 1) % Word
           d == elapsed + call.nticks + 1
<1>1. /\ call.at = "start_time" /\ call' = [call EXCEPT !.at = "start_entry"]
      /\ rollover' = [rollover EXCEPT ![a] = t < nticks] /\ time' = [time EXCEPT ![a] = t]
      /\ due' = [due EXCEPT ![a] = d]
      /\ UNCHANGED <<isr, links, nticks, elapsed, running, started>>
  BY DEF StartTime, Rolls, irqvars
<1>2. isr = "off" /\ call'.at = "start_entry" /\ call'.alarm = a
  BY <1>1, CallLemma DEF AlarmSteps
<1>3. a \in Alarms /\ a \notin running /\ running \subseteq Alarms
  BY <1>1 DEF ListInv, AlarmSteps
<1>4. ListInv'
  BY <1>1, <1>2 DEF ListInv, AlarmSteps
<1>5. /\ elapsed \in Nat /\ nticks = elapsed % Word /\ Word \in Nat \ {0}
      /\ call.nticks \in Nat /\ call.nticks \in Intervals /\ call.nticks <= Word - 2
  BY <1>1, AlarmsAssumption DEF AlarmsInv, TimeInv
<1>6. d \in Nat /\ d - elapsed \in 1..(Word - 1)
  BY <1>5
<1>7. t = d % Word /\ t \in Nat
  <2> DEFINE m == call.nticks + 1
  <2>1. m \in Nat /\ d = elapsed + m /\ call.nticks + nticks + 1 = (elapsed % Word) + m
    <3>1. nticks \in Nat
      BY <1>5, NatDivLemma
    <3> QED
      BY <1>5, <3>1
  <2> HIDE DEF m
  <2> HIDE DEF d
  <2>2. ((elapsed % Word) + m) % Word = (elapsed + m) % Word
    BY <1>5, <2>1, PlusLemma
  <2>3. t = d % Word
    BY <2>1, <2>2
  <2>4. d % Word \in Nat
    <3>1. d \in Nat
      BY <1>6
    <3>2. d % Word \in 0..(Word - 1)
      BY <1>5, <3>1, NatDivLemma
    <3> QED
      BY <1>5, <3>2
  <2> QED
    BY <2>3, <2>4
<1> HIDE DEF d, t
<1>8. (t < nticks) = (d \div Word > elapsed \div Word)
  <2>1. d - elapsed \in 0..(Word - 1)
    BY <1>5, <1>6
  <2>2. d \div Word > elapsed \div Word <=> d % Word < elapsed % Word
    BY <1>5, <1>6, <2>1, TurnLemma
  <2> QED
    BY <1>5, <1>7, <2>2
<1>9. /\ time \in [Alarms -> Nat] /\ due \in [Alarms -> Nat] /\ rollover \in [Alarms -> BOOLEAN]
      /\ \A b \in running : Set(b)
  BY <1>2 DEF AlarmsInv
<1>10. time'[a] = t /\ due'[a] = d /\ rollover'[a] = (t < nticks)
  BY <1>1, <1>3, <1>9
<1>11. Set(call.alarm)'
  BY <1>1, <1>2, <1>6, <1>7, <1>8, <1>10 DEF Set, Timed
<1>12. \A b \in running : Set(b)'
  <2> SUFFICES ASSUME NEW b \in running PROVE Set(b)'
    OBVIOUS
  <2>1. time'[b] = time[b] /\ due'[b] = due[b] /\ rollover'[b] = rollover[b]
    BY <1>1, <1>3, <1>9
  <2> QED
    BY <1>1, <1>9, <2>1 DEF Set, Timed
<1>13. /\ time' \in [Alarms -> Nat] /\ due' \in [Alarms -> Nat] /\ rollover' \in [Alarms -> BOOLEAN]
  <2>1. time' \in [Alarms -> Nat] /\ due' \in [Alarms -> Nat]
    BY <1>1, <1>6, <1>7, <1>9
  <2>2. (t < nticks) \in BOOLEAN
    OBVIOUS
  <2> HIDE DEF t
  <2>3. rollover' \in [Alarms -> BOOLEAN]
    BY <1>1, <1>9, <2>2
  <2> QED
    BY <2>1, <2>3
<1>14. AlarmsInv'
  BY <1>1, <1>2, <1>11, <1>12, <1>13 DEF AlarmsInv
<1> QED
  BY <1>4, <1>14

(* alt_llist_insert and alt_llist_remove, half by half.                    *)
LEMMA StartEntryStep ==
  ASSUME TableInv, ListInv, AlarmsInv, StartEntry
  PROVE  ListInv' /\ AlarmsInv'
<1>1. /\ call.at = "start_entry" /\ call' = [call EXCEPT !.at = "start_head"]
      /\ links' = LinkEntry(links, call.alarm)
      /\ UNCHANGED <<isr, time, rollover, nticks, elapsed, due, running, started>>
  BY DEF StartEntry, irqvars
<1>2. isr = "off" /\ call'.at = "start_head" /\ call'.alarm = call.alarm
  BY <1>1, CallLemma DEF AlarmSteps
<1>3. Ring(links, running) /\ links \in LinkSet
  BY <1>1 DEF ListInv, Ring
<1>4. \E l \in LinkSet : Ring(l, running') /\ links' = LinkEntry(l, call'.alarm)
  BY <1>1, <1>2, <1>3
<1>5. ListInv'
  BY <1>1, <1>2, <1>4 DEF ListInv, AlarmSteps
<1>6. Set(call'.alarm)
  BY <1>1, <1>2 DEF AlarmsInv
<1> QED
  BY <1>1, <1>2, <1>5, <1>6, SetKept

LEMMA StartHeadStep ==
  ASSUME TableInv, ListInv, AlarmsInv, StartHead
  PROVE  ListInv' /\ AlarmsInv'
<1> DEFINE a == call.alarm
<1>1. /\ call.at = "start_head" /\ call' = [at |-> "end"]
      /\ links' = LinkHead(links, a)
      /\ running' = running \union {a} /\ started' = started \union {a}
      /\ UNCHANGED <<isr, time, rollover, nticks, elapsed, due>>
  BY DEF StartHead, irqvars
<1>2. isr = "off" /\ call'.at = "end"
  BY <1>1, CallLemma DEF AlarmSteps
<1>3. /\ a \in Alarms /\ a \notin running /\ running \in SUBSET Alarms
      /\ started \subseteq Alarms /\ IsFiniteSet(running)
  BY <1>1 DEF ListInv, AlarmSteps
<1>4. PICK l \in LinkSet : Ring(l, running) /\ links = LinkEntry(l, a)
  BY <1>1 DEF ListInv
<1>5. Ring(links', running')
  <2>1. Ring(Insert(l, a), running \union {a})
    BY <1>3, <1>4, InsertKeepsRing
  <2> QED
    BY <1>1, <1>4, <2>1 DEF Insert
<1>6. IsFiniteSet(running')
  BY <1>1, <1>3, FS_AddElement
<1>7. ListInv'
  BY <1>1, <1>2, <1>3, <1>5, <1>6 DEF ListInv, AlarmSteps
<1>8. Set(a)
  BY <1>1 DEF AlarmsInv
<1> QED
  BY <1>1, <1>2, <1>7, <1>8, SetKept

LEMMA StopBypassStep ==
  ASSUME TableInv, ListInv, AlarmsInv, StopBypass
  PROVE  ListInv' /\ AlarmsInv'
<1>1. /\ call.at = "stop_bypass" /\ call' = [call EXCEPT !.at = "stop_unlink"]
      /\ links' = Bypass(links, call.alarm)
      /\ UNCHANGED <<isr, time, rollover, nticks, elapsed, due, running, started>>
  BY DEF StopBypass, irqvars
<1>2. isr = "off" /\ call'.at = "stop_unlink" /\ call'.alarm = call.alarm
  BY <1>1, CallLemma DEF AlarmSteps
<1>3. Ring(links, running) /\ links \in LinkSet
  BY <1>1 DEF ListInv, Ring
<1>4. \E l \in LinkSet : Ring(l, running') /\ links' = Bypass(l, call'.alarm)
  BY <1>1, <1>2, <1>3
<1>5. ListInv'
  BY <1>1, <1>2, <1>4 DEF ListInv, AlarmSteps
<1> QED
  BY <1>1, <1>2, <1>5, SetKept

LEMMA StopUnlinkStep ==
  ASSUME TableInv, ListInv, AlarmsInv, StopUnlink
  PROVE  ListInv' /\ AlarmsInv'
<1> DEFINE a == call.alarm
<1>1. /\ call.at = "stop_unlink" /\ call' = [at |-> "end"]
      /\ links' = Unlink(links, a) /\ running' = running \ {a}
      /\ UNCHANGED <<isr, time, rollover, nticks, elapsed, due, started>>
  BY DEF StopUnlink, irqvars
<1>2. isr = "off" /\ call'.at = "end"
  BY <1>1, CallLemma DEF AlarmSteps
<1>3. a \in Alarms /\ running \in SUBSET Alarms /\ started \subseteq Alarms /\ IsFiniteSet(running)
  BY <1>1 DEF ListInv, AlarmSteps
<1>4. PICK l \in LinkSet : Ring(l, running) /\ links = Bypass(l, a)
  BY <1>1 DEF ListInv
<1>5. Ring(links', running')
  <2>1. Ring(Remove(l, a), running \ {a})
    BY <1>3, <1>4, RemoveKeepsRing
  <2> QED
    BY <1>1, <1>4, <2>1 DEF Remove
<1>6. IsFiniteSet(running')
  BY <1>1, <1>3, FS_RemoveElement
<1>7. ListInv'
  BY <1>1, <1>2, <1>3, <1>5, <1>6 DEF ListInv, AlarmSteps
<1> QED
  BY <1>1, <1>2, <1>7, SetKept
-----------------------------------------------------------------------------
(* The steps of alt_tick.                                                  *)

(* At interrupt level the list is a ring, and stays one for ListInv.       *)
LEMMA LevelRing ==
  ASSUME TableInv, ListInv, isr # "off"
  PROVE  /\ call.at = "idle" /\ Ring(links, running) /\ links \in LinkSet
         /\ running \in SUBSET Alarms /\ started \subseteq Alarms /\ IsFiniteSet(running)
<1>1. call = Idle
  BY Zenon DEF TableInv
<1>2. call.at = "idle"
  BY <1>1 DEF Idle
<1> QED
  BY <1>2 DEF ListInv, Ring

LEMMA LevelList ==
  ASSUME call.at = "idle", call' = call, Ring(links', running'),
         running' \subseteq Alarms, started' \subseteq Alarms, IsFiniteSet(running')
  PROVE  ListInv'
BY DEF ListInv, AlarmSteps

LEMMA TickStep ==
  ASSUME TableInv, TimeInv, ListInv, AlarmsInv, Tick
  PROVE  ListInv' /\ AlarmsInv'
<1>1. /\ isr = "dispatch" /\ isr' = "walk" /\ elapsed' = elapsed + 1
      /\ alarm' = links.next[alt_alarm_list]
      /\ UNCHANGED <<call, links, time, rollover, due, running, started>>
  BY DEF Tick, Dispatch
<1>2. /\ call.at = "idle" /\ Ring(links, running) /\ links \in LinkSet
      /\ running \in SUBSET Alarms /\ started \subseteq Alarms /\ IsFiniteSet(running)
  BY <1>1, LevelRing
<1>3. ListInv'
  BY <1>1, <1>2, LevelList
<1>4. elapsed \in Nat /\ elapsed' > 0 /\ elapsed' - 1 = elapsed /\ Word \in Nat \ {0}
  BY <1>1, AlarmsAssumption DEF TimeInv
<1>5. \A a \in running : Left(a)'
  <2> SUFFICES ASSUME NEW a \in running PROVE Left(a)'
    OBVIOUS
  <2>1. Timed(a, elapsed) /\ due[a] - elapsed \in 1..(Word - 1) /\ due[a] \in Nat
    BY <1>1, <1>2 DEF AlarmsInv, Set
  <2>2. Timed(a, elapsed - 1)'
    BY <1>1, <1>4, <2>1 DEF Timed
  <2>3. due'[a] - elapsed' \in 0..(Word - 2)
    BY <1>1, <1>4, <2>1
  <2> QED
    BY <2>2, <2>3 DEF Left
<1>6. Ahead(links', running', alarm')
  BY <1>1, <1>2, WalkStarts
<1>7. AlarmsInv'
  BY <1>1, <1>2, <1>4, <1>5, <1>6 DEF AlarmsInv
<1> QED
  BY <1>3, <1>7

(* What alt_tick makes of the flag, and whom it calls back.                *)
LEMMA LeftLemma ==
  ASSUME TimeInv, elapsed > 0, NEW a, Left(a), due[a] \in Nat, rollover[a] \in BOOLEAN
  PROVE  /\ (rollover[a] /\ nticks # 0) = (due[a] \div Word > elapsed \div Word)
         /\ time[a] <= nticks /\ ~(rollover[a] /\ nticks # 0) <=> due[a] = elapsed
         /\ due[a] = elapsed => time[a] = nticks
<1>1. /\ elapsed \in Nat /\ nticks = elapsed % Word /\ Word \in Nat \ {0}
      /\ time[a] = due[a] % Word
      /\ rollover[a] = (due[a] \div Word > (elapsed - 1) \div Word)
      /\ due[a] - elapsed \in 0..(Word - 2) /\ due[a] - elapsed \in 0..(Word - 1)
  BY AlarmsAssumption DEF TimeInv, Left, Timed
<1>2. /\ nticks # 0 => (elapsed - 1) \div Word = elapsed \div Word
      /\ nticks = 0 => ~(due[a] \div Word > elapsed \div Word)
  BY <1>1, TickTurnLemma
<1>3. (rollover[a] /\ nticks # 0) <=> (due[a] \div Word > elapsed \div Word)
  BY <1>1, <1>2, Zenon
<1>4. /\ due[a] % Word <= elapsed % Word /\ ~(due[a] \div Word > elapsed \div Word)
           <=> due[a] = elapsed
      /\ due[a] \div Word \in Nat /\ elapsed \div Word \in Nat
  BY <1>1, TurnLemma
<1>5. (rollover[a] /\ nticks # 0) = (due[a] \div Word > elapsed \div Word)
  BY <1>3, <1>4
<1>6. due[a] = elapsed => time[a] = nticks
  BY <1>1
<1> QED
  BY <1>1, <1>3, <1>4, <1>5, <1>6

LEMMA WalkStep ==
  ASSUME TableInv, TimeInv, ListInv, AlarmsInv, Walk
  PROVE  ListInv' /\ AlarmsInv'
<1> DEFINE c == rollover[alarm] /\ nticks # 0
<1>1. /\ isr = "walk" /\ alarm # alt_alarm_list
      /\ rollover' = [rollover EXCEPT ![alarm] = c]
      /\ UNCHANGED <<call, links, time, nticks, elapsed, due, running, started>>
  BY DEF Walk, Cleared
<1>2. /\ call.at = "idle" /\ Ring(links, running) /\ links \in LinkSet
      /\ running \in SUBSET Alarms /\ started \subseteq Alarms /\ IsFiniteSet(running)
  BY <1>1, LevelRing
<1>3. ListInv'
  BY <1>1, <1>2, LevelList
<1>4. /\ elapsed > 0
      /\ time \in [Alarms -> Nat] /\ due \in [Alarms -> Nat] /\ rollover \in [Alarms -> BOOLEAN]
  BY <1>1 DEF AlarmsInv
<1>5. PICK Rest \in SUBSET running : /\ Ahead(links, Rest, alarm)
                                     /\ \A a \in running : IF a \in Rest THEN Left(a) ELSE Set(a)
  BY <1>1 DEF AlarmsInv
<1>6. alarm \in Rest /\ alarm \in running /\ alarm \in Alarms
  BY <1>1, <1>2, <1>5 DEF Ahead
<1>7. Left(alarm) /\ due[alarm] \in Nat /\ rollover[alarm] \in BOOLEAN
  BY <1>4, <1>5, <1>6
<1>8. /\ c = (due[alarm] \div Word > elapsed \div Word)
      /\ time[alarm] <= nticks /\ ~c <=> due[alarm] = elapsed
      /\ due[alarm] = elapsed => time[alarm] = nticks
  BY <1>4, <1>7, LeftLemma
<1>9. Ahead(links, Rest \ {alarm}, links.next[alarm])
  BY <1>2, <1>5, <1>6, WalkGoesOn
<1>10. /\ rollover'[alarm] = c /\ Cleared[alarm] = c
       /\ \A a \in Alarms : a # alarm => rollover'[a] = rollover[a]
       /\ rollover' \in [Alarms -> BOOLEAN]
  <2>1. c \in BOOLEAN
    OBVIOUS
  <2> HIDE DEF c
  <2>2. Cleared = [rollover EXCEPT ![alarm] = c]
    BY Zenon DEF Cleared, c
  <2> QED
    BY <1>1, <1>4, <1>6, <2>1, <2>2
<1> HIDE DEF c
<1>11. ASSUME NEW a \in running, a # alarm
       PROVE  IF a \in Rest \ {alarm} THEN Left(a)' ELSE Set(a)'
  <2>1. rollover'[a] = rollover[a]
    BY <1>2, <1>10, <1>11
  <2>2. IF a \in Rest THEN Left(a) ELSE Set(a)
    BY <1>5
  <2>3. (Left(a)' <=> Left(a)) /\ (Set(a)' <=> Set(a))
    BY <1>1, <2>1 DEF Left, Set, Timed
  <2> QED
    BY <1>11, <2>2, <2>3
<1>12. CASE Expired
  <2>1. isr' = "callback" /\ next' = links.next[alarm] /\ alarm' = alarm
    BY <1>12 DEF Walk
  <2>2. ~c /\ due[alarm] = elapsed /\ time[alarm] = nticks
    BY <1>8, <1>10, <1>12 DEF Expired
  <2>3. Rest \ {alarm} \in SUBSET (running \ {alarm})
    OBVIOUS
  <2>4. \A a \in running \ {alarm} : IF a \in Rest \ {alarm} THEN Left(a)' ELSE Set(a)'
    BY <1>11
  <2>5. AlarmsInv'
    BY <1>1, <1>2, <1>4, <1>6, <1>9, <1>10, <2>1, <2>2, <2>3, <2>4 DEF AlarmsInv
  <2> QED
    BY <1>3, <2>5
<1>13. CASE ~Expired
  <2>1. isr' = "walk" /\ alarm' = links.next[alarm]
    BY <1>1, <1>13 DEF Walk
  <2>2. due[alarm] # elapsed
    BY <1>8, <1>10, <1>13 DEF Expired
  <2>3. ASSUME NEW a \in running, a = alarm PROVE Set(a)'
    <3>1. due[a] - elapsed \in 0..(Word - 2) /\ time[a] = due[a] % Word
      BY <1>7, <2>3 DEF Left, Timed
    <3>2. due[a] - elapsed \in 1..(Word - 1)
      BY <1>7, <2>2, <2>3, <3>1, AlarmsAssumption DEF TimeInv
    <3>3. rollover'[a] = (due[a] \div Word > elapsed \div Word)
      BY <1>8, <1>10, <2>3
    <3> QED
      BY <1>1, <3>1, <3>2, <3>3 DEF Set, Timed
  <2>4. Rest \ {alarm} \in SUBSET running
    OBVIOUS
  <2>5. \A a \in running : IF a \in Rest \ {alarm} THEN Left(a)' ELSE Set(a)'
    <3> SUFFICES ASSUME NEW a \in running
                 PROVE  IF a \in Rest \ {alarm} THEN Left(a)' ELSE Set(a)'
      OBVIOUS
    <3>1. CASE a = alarm
      BY <2>3, <3>1
    <3>2. CASE a # alarm
      BY <1>11, <3>2
    <3> QED
      BY <3>1, <3>2
  <2>6. AlarmsInv'
    BY <1>1, <1>2, <1>4, <1>9, <1>10, <2>1, <2>4, <2>5 DEF AlarmsInv
  <2> QED
    BY <1>3, <2>6
<1> QED
  BY <1>12, <1>13

LEMMA TickReturnsStep ==
  ASSUME TableInv, TimeInv, ListInv, AlarmsInv, TickReturns
  PROVE  ListInv' /\ AlarmsInv'
<1>1. /\ isr = "walk" /\ alarm = alt_alarm_list /\ isr' = "dispatch"
      /\ UNCHANGED <<call, links, time, rollover, nticks, elapsed, due, running, started>>
  BY DEF TickReturns
<1>2. /\ call.at = "idle" /\ Ring(links, running) /\ links \in LinkSet
      /\ running \in SUBSET Alarms /\ started \subseteq Alarms /\ IsFiniteSet(running)
  BY <1>1, LevelRing
<1>3. ListInv'
  BY <1>1, <1>2, LevelList
<1>4. PICK Rest \in SUBSET running : /\ Ahead(links, Rest, alarm)
                                     /\ \A a \in running : IF a \in Rest THEN Left(a) ELSE Set(a)
  BY <1>1 DEF AlarmsInv
<1>5. Rest = {}
  BY <1>1, <1>2, <1>4, WalkEnds
<1>6. \A a \in running : Set(a)'
  BY <1>1, <1>4, <1>5 DEF Set, Timed
<1>7. AlarmsInv'
  BY <1>1, <1>2, <1>6 DEF AlarmsInv
<1> QED
  BY <1>3, <1>7
-----------------------------------------------------------------------------
(* A callback: what it does to the list, and to the times.                 *)
AlsoCases(also) ==
  \/ also = <<"nothing">>
  \/ \E b \in started \ {next} : also = <<"stop", b>>
  \/ \E b \in (Alarms \ running) \ {alarm} : also = <<"start", b>>

Starts(also, b) == also = <<"start", b>>

LEMMA CallbackLinks ==
  ASSUME TableInv, ListInv, AlarmsInv, NEW n, NEW also \in Also, Callback(n, also),
         NEW Rest \in SUBSET (running \ {alarm}), Ahead(links, Rest, next)
  PROVE  /\ ListInv'
         /\ running' \subseteq running \union {b \in Alarms : Starts(also, b)}
         /\ n = 0 => alarm \notin running'
         /\ \E Left2 \in SUBSET running' :
              /\ Ahead(links', Left2, next)
              /\ \A a \in running' : a \in Left2 <=> a \in Rest
<1> DEFINE mid  == IF also[1] = "stop" THEN Remove(links, also[2])
                   ELSE IF also[1] = "start" THEN Insert(links, also[2]) ELSE links
           left == running \ (IF also[1] = "stop" THEN {also[2]} ELSE {})
           runs == left \union (IF also[1] = "start" THEN {also[2]} ELSE {})
           Good(m, R, M) ==
             /\ m \in LinkSet /\ R \in SUBSET Alarms /\ Ring(m, R) /\ IsFiniteSet(R)
             /\ Ahead(m, M, next) /\ started' \subseteq Alarms
             /\ \A a \in R : a \in M <=> a \in Rest
             /\ R \subseteq running \union {b \in Alarms : Starts(also, b)}
<1>1. /\ isr = "callback" /\ UNCHANGED call
      /\ IF n = 0 THEN links' = Remove(mid, alarm) /\ running' = runs \ {alarm}
         ELSE links' = mid /\ running' = runs
      /\ IF also[1] = "start" THEN started' = started \union {also[2]} ELSE started' = started
  BY Zenon DEF Callback
<1>2. /\ call.at = "idle" /\ Ring(links, running) /\ links \in LinkSet
      /\ running \in SUBSET Alarms /\ started \subseteq Alarms /\ IsFiniteSet(running)
  BY <1>1, LevelRing
<1>3. alarm \in Alarms /\ alarm # alt_alarm_list
  BY <1>1, AlarmsAssumption DEF AlarmsInv
<1>4. Rest \in SUBSET running /\ alarm # next /\ alarm \notin Rest
  BY <1>3 DEF Ahead
<1>5. AlsoCases(also)
  BY DEF Also, AlsoCases
<1>6. \E Mid \in SUBSET runs : Good(mid, runs, Mid)
  <2>1. CASE also = <<"nothing">>
    <3>1. mid = links /\ runs = running /\ started' = started
      BY <1>1, <2>1
    <3> HIDE DEF mid, runs
    <3> QED
      BY <1>2, <1>4, <3>1
  <2>2. ASSUME NEW b \in started \ {next}, also = <<"stop", b>>
        PROVE  \E Mid \in SUBSET runs : Good(mid, runs, Mid)
    <3>1. mid = Remove(links, b) /\ runs = running \ {b} /\ started' = started
      BY <1>1, <2>2
    <3> HIDE DEF mid, runs
    <3>2. b \in Alarms /\ b # next
      BY <1>2
    <3>3. Remove(links, b) \in LinkSet /\ Ring(Remove(links, b), running \ {b})
      BY <1>2, <3>2, RemoveLemma, RemoveKeepsRing
    <3>4. Ahead(Remove(links, b), Rest \ {b}, next)
      BY <1>2, <1>4, <3>2, RemoveAhead
    <3>5. IsFiniteSet(running \ {b})
      BY <1>2, FS_RemoveElement
    <3> QED
      BY <1>2, <1>4, <3>1, <3>3, <3>4, <3>5
  <2>3. ASSUME NEW b \in (Alarms \ running) \ {alarm}, also = <<"start", b>>
        PROVE  \E Mid \in SUBSET runs : Good(mid, runs, Mid)
    <3>1. mid = Insert(links, b) /\ runs = running \union {b} /\ started' = started \union {b}
      BY <1>1, <2>3
    <3> HIDE DEF mid, runs
    <3>2. b \in Alarms /\ b \notin running
      OBVIOUS
    <3>3. Insert(links, b) \in LinkSet /\ Ring(Insert(links, b), running \union {b})
      BY <1>2, <3>2, InsertLemma, InsertKeepsRing
    <3>4. Ahead(Insert(links, b), Rest, next)
      BY <1>2, <1>4, <3>2, InsertAhead
    <3>5. IsFiniteSet(running \union {b})
      BY <1>2, FS_AddElement
    <3> QED
      BY <1>2, <1>4, <2>3, <3>1, <3>2, <3>3, <3>4, <3>5 DEF Starts
  <2> QED
    BY <1>5, <2>1, <2>2, <2>3 DEF AlsoCases
<1> HIDE DEF mid, runs
<1>7. PICK Mid \in SUBSET runs : Good(mid, runs, Mid)
  BY <1>6
<1>8. CASE n = 0
  <2>1. links' = Remove(mid, alarm) /\ running' = runs \ {alarm}
    BY <1>1, <1>8
  <2>2. Ring(links', running')
    BY <1>3, <1>7, <2>1, RemoveKeepsRing
  <2>3. Ahead(links', Mid \ {alarm}, next)
    BY <1>3, <1>4, <1>7, <2>1, RemoveAhead
  <2>4. IsFiniteSet(running')
    BY <1>7, <2>1, FS_RemoveElement
  <2>5. ListInv'
    BY <1>1, <1>2, <1>7, <2>1, <2>2, <2>4, LevelList
  <2> QED
    BY <1>7, <2>1, <2>3, <2>5
<1>9. CASE n # 0
  <2>1. links' = mid /\ running' = runs
    BY <1>1, <1>9
  <2>2. ListInv'
    BY <1>1, <1>2, <1>7, <2>1, LevelList
  <2> QED
    BY <1>7, <1>9, <2>1, <2>2
<1> QED
  BY <1>8, <1>9
LEMMA CallbackTimes ==
  ASSUME TimeInv, AlarmsInv, NEW n \in Intervals, NEW also \in Also, Callback(n, also)
  PROVE  /\ time' \in [Alarms -> Nat] /\ due' \in [Alarms -> Nat]
         /\ rollover' \in [Alarms -> BOOLEAN]
         /\ \A a \in Alarms : a # alarm /\ ~Starts(also, a) =>
              time'[a] = time[a] /\ rollover'[a] = rollover[a] /\ due'[a] = due[a]
         /\ n # 0 => LET t == (time[alarm] + n) % Word
                     IN  /\ time'[alarm] = t /\ rollover'[alarm] = (t < nticks)
                         /\ due'[alarm] = due[alarm] + n
         /\ \A b \in Alarms : Starts(also, b) =>
              LET s == (nticks + 1) % Word
              IN  time'[b] = s /\ rollover'[b] = (s < nticks) /\ due'[b] = elapsed + 1
<1> DEFINE t == (time[alarm] + n) % Word
           s == (nticks + 1) % Word
           lt == t < nticks
           ls == s < nticks
<1>1. /\ isr = "callback"
      /\ IF also[1] = "start"
         THEN /\ time' = [time EXCEPT ![also[2]] = s, ![alarm] = IF n = 0 THEN @ ELSE t]
              /\ rollover' = [rollover EXCEPT ![also[2]] = ls, ![alarm] = @ \/ (n # 0 /\ lt)]
              /\ due' = [due EXCEPT ![also[2]] = elapsed + 1, ![alarm] = @ + n]
         ELSE /\ IF n = 0 THEN UNCHANGED <<time, rollover>> ELSE Rolls(alarm, t)
              /\ due' = [due EXCEPT ![alarm] = @ + n]
  BY Zenon DEF Callback
<1>2. /\ alarm \in Alarms /\ ~rollover[alarm]
      /\ time \in [Alarms -> Nat] /\ due \in [Alarms -> Nat] /\ rollover \in [Alarms -> BOOLEAN]
  BY <1>1 DEF AlarmsInv
<1>3. n \in Nat /\ t \in Nat /\ s \in Nat /\ elapsed \in Nat /\ Word \in Nat \ {0} /\ nticks \in Nat
  <2>1. n \in Nat /\ elapsed \in Nat /\ Word \in Nat \ {0} /\ nticks = elapsed % Word
    BY AlarmsAssumption DEF TimeInv
  <2>2. nticks \in 0..(Word - 1)
    BY <2>1, NatDivLemma
  <2>3. time[alarm] + n \in Nat /\ nticks + 1 \in Nat
    BY <1>2, <2>1, <2>2
  <2>4. t \in 0..(Word - 1) /\ s \in 0..(Word - 1)
    BY <2>1, <2>3, NatDivLemma
  <2> HIDE DEF t, s
  <2> QED
    BY <2>1, <2>2, <2>4
<1>4. lt \in BOOLEAN /\ ls \in BOOLEAN
  OBVIOUS
<1>5. AlsoCases(also)
  BY DEF Also, AlsoCases
<1> SUFFICES /\ time' \in [Alarms -> Nat] /\ due' \in [Alarms -> Nat]
             /\ rollover' \in [Alarms -> BOOLEAN]
             /\ \A a \in Alarms : a # alarm /\ ~Starts(also, a) =>
                  time'[a] = time[a] /\ rollover'[a] = rollover[a] /\ due'[a] = due[a]
             /\ n # 0 => time'[alarm] = t /\ rollover'[alarm] = lt /\ due'[alarm] = due[alarm] + n
             /\ \A b \in Alarms : Starts(also, b) =>
                  time'[b] = s /\ rollover'[b] = ls /\ due'[b] = elapsed + 1
  OBVIOUS
<1>6. CASE also[1] # "start"
  <2>1. due' = [due EXCEPT ![alarm] = due[alarm] + n]
    BY <1>1, <1>6
  <2>2. \/ n = 0 /\ time' = time /\ rollover' = rollover
        \/ n # 0 /\ time' = [time EXCEPT ![alarm] = t] /\ rollover' = [rollover EXCEPT ![alarm] = lt]
    BY <1>1, <1>6 DEF Rolls
  <2>3. \A b : ~Starts(also, b)
    BY <1>6 DEF Starts
  <2> HIDE DEF t, s, lt, ls
  <2> QED
    BY <1>2, <1>3, <1>4, <2>1, <2>2, <2>3
<1>7. ASSUME NEW b \in (Alarms \ running) \ {alarm}, also = <<"start", b>>
      PROVE  /\ time' \in [Alarms -> Nat] /\ due' \in [Alarms -> Nat]
             /\ rollover' \in [Alarms -> BOOLEAN]
             /\ \A a \in Alarms : a # alarm /\ ~Starts(also, a) =>
                  time'[a] = time[a] /\ rollover'[a] = rollover[a] /\ due'[a] = due[a]
             /\ n # 0 => time'[alarm] = t /\ rollover'[alarm] = lt /\ due'[alarm] = due[alarm] + n
             /\ \A a \in Alarms : Starts(also, a) =>
                  time'[a] = s /\ rollover'[a] = ls /\ due'[a] = elapsed + 1
  <2>1. also[1] = "start" /\ also[2] = b /\ \A a : Starts(also, a) <=> a = b
    BY <1>7 DEF Starts
  <2> HIDE DEF t, s, lt, ls
  <2>2. /\ time' = [time EXCEPT ![b] = s, ![alarm] = IF n = 0 THEN @ ELSE t]
        /\ rollover' = [rollover EXCEPT ![b] = ls, ![alarm] = @ \/ (n # 0 /\ lt)]
        /\ due' = [due EXCEPT ![b] = elapsed + 1, ![alarm] = @ + n]
    BY <1>1, <2>1, Zenon
  <2>3. b \in Alarms /\ b # alarm
    OBVIOUS
  <2>4. /\ time' \in [Alarms -> Nat]
        /\ \A a \in Alarms : time'[a] = IF a = b THEN s ELSE IF a # alarm THEN time[a]
                                        ELSE IF n = 0 THEN time[a] ELSE t
    BY <1>2, <1>3, <2>2, <2>3
  <2>5. /\ due' \in [Alarms -> Nat]
        /\ \A a \in Alarms : due'[a] = IF a = b THEN elapsed + 1 ELSE IF a # alarm THEN due[a]
                                       ELSE due[a] + n
    BY <1>2, <1>3, <2>2, <2>3
  <2>6. /\ rollover' \in [Alarms -> BOOLEAN]
        /\ \A a \in Alarms : /\ a = b => rollover'[a] = ls
                             /\ a # b /\ a # alarm => rollover'[a] = rollover[a]
                             /\ a = alarm /\ n # 0 => rollover'[a] = lt
    <3> DEFINE r1 == [rollover EXCEPT ![b] = ls]
               v  == rollover[alarm] \/ (n # 0 /\ lt)
    <3>1. r1 \in [Alarms -> BOOLEAN] /\ r1[alarm] = rollover[alarm]
          /\ \A a \in Alarms : r1[a] = IF a = b THEN ls ELSE rollover[a]
      BY <1>2, <1>4, <2>3
    <3>2. rollover' = [r1 EXCEPT ![alarm] = v]
      BY <2>2, <3>1
    <3>3. v \in BOOLEAN /\ (n # 0 => v = lt)
      BY <1>2, <1>4
    <3> HIDE DEF r1, v
    <3> QED
      BY <1>2, <2>3, <3>1, <3>2, <3>3
  <2> QED
    BY <1>2, <2>1, <2>3, <2>4, <2>5, <2>6
<1> QED
  BY <1>5, <1>6, <1>7 DEF AlsoCases

(* The time that a callback sets, or an alarm that it starts.              *)
LEMMA SoonLemma ==
  ASSUME TimeInv, NEW m \in 1..(Word - 1), NEW t, t = (nticks + m) % Word
  PROVE  /\ elapsed + m \in Nat /\ t = (elapsed + m) % Word
         /\ (t < nticks) = ((elapsed + m) \div Word > elapsed \div Word)
         /\ (elapsed + m) - elapsed \in 1..(Word - 1)
<1>1. elapsed \in Nat /\ nticks = elapsed % Word /\ Word \in Nat \ {0} /\ m \in Nat
  BY AlarmsAssumption DEF TimeInv
<1>2. t = (elapsed + m) % Word
  BY <1>1, PlusLemma
<1> DEFINE d == elapsed + m
<1>3. d \in Nat /\ d - elapsed \in 0..(Word - 1) /\ d - elapsed \in 1..(Word - 1) /\ t = d % Word
  BY <1>1, <1>2
<1> HIDE DEF d
<1>4. d \div Word > elapsed \div Word <=> d % Word < elapsed % Word
  BY <1>1, <1>3, TurnLemma
<1>5. (t < nticks) = (d \div Word > elapsed \div Word)
  BY <1>1, <1>3, <1>4
<1> QED
  BY <1>3, <1>5 DEF d

LEMMA CallbackStep ==
  ASSUME TableInv, TimeInv, ListInv, AlarmsInv,
         NEW n \in Intervals, NEW also \in Also, Callback(n, also)
  PROVE  ListInv' /\ AlarmsInv'
<1>1. /\ isr = "callback" /\ isr' = "walk" /\ alarm' = next
      /\ UNCHANGED <<call, nticks, elapsed>>
  BY Zenon DEF Callback
<1>2. /\ alarm \in Alarms /\ due[alarm] = elapsed /\ time[alarm] = nticks /\ elapsed > 0
      /\ time \in [Alarms -> Nat] /\ due \in [Alarms -> Nat] /\ rollover \in [Alarms -> BOOLEAN]
  BY <1>1 DEF AlarmsInv
<1>3. PICK Rest \in SUBSET (running \ {alarm}) :
        /\ Ahead(links, Rest, next)
        /\ \A a \in running \ {alarm} : IF a \in Rest THEN Left(a) ELSE Set(a)
  BY <1>1 DEF AlarmsInv
<1>4. /\ ListInv'
      /\ running' \subseteq running \union {b \in Alarms : Starts(also, b)}
      /\ n = 0 => alarm \notin running'
      /\ \E Left2 \in SUBSET running' :
           Ahead(links', Left2, next) /\ \A a \in running' : a \in Left2 <=> a \in Rest
  BY <1>3, CallbackLinks
<1>5. PICK Left2 \in SUBSET running' :
        Ahead(links', Left2, next) /\ \A a \in running' : a \in Left2 <=> a \in Rest
  BY <1>4
<1>6. /\ time' \in [Alarms -> Nat] /\ due' \in [Alarms -> Nat] /\ rollover' \in [Alarms -> BOOLEAN]
      /\ \A a \in Alarms : a # alarm /\ ~Starts(also, a) =>
           time'[a] = time[a] /\ rollover'[a] = rollover[a] /\ due'[a] = due[a]
      /\ n # 0 => LET t == (time[alarm] + n) % Word
                  IN  /\ time'[alarm] = t /\ rollover'[alarm] = (t < nticks)
                      /\ due'[alarm] = due[alarm] + n
      /\ \A b \in Alarms : Starts(also, b) =>
           LET s == (nticks + 1) % Word
           IN  time'[b] = s /\ rollover'[b] = (s < nticks) /\ due'[b] = elapsed + 1
  BY CallbackTimes
<1>7. n \in Nat /\ n \in 0..(Word - 2) /\ Word \in Nat \ {0} /\ 1 \in 1..(Word - 1)
  BY AlarmsAssumption
<1>8. running' \subseteq Alarms /\ running \subseteq Alarms
  BY <1>4 DEF ListInv
<1>9. ASSUME NEW a \in running' PROVE IF a \in Left2 THEN Left(a)' ELSE Set(a)'
  <2>1. CASE Starts(also, a)
    <3>1. a \in (Alarms \ running)
      <4>1. AlsoCases(also)
        BY DEF Also, AlsoCases
      <4> QED
        BY <2>1, <4>1 DEF AlsoCases, Starts
    <3>2. a \notin Left2
      BY <1>3, <1>5, <3>1
    <3> DEFINE s == (nticks + 1) % Word
    <3>3. time'[a] = s /\ rollover'[a] = (s < nticks) /\ due'[a] = elapsed + 1
      BY <1>6, <2>1, <3>1
    <3> HIDE DEF s
    <3>4. /\ s = (elapsed + 1) % Word
          /\ (s < nticks) = ((elapsed + 1) \div Word > elapsed \div Word)
          /\ (elapsed + 1) - elapsed \in 1..(Word - 1)
      BY <1>7, SoonLemma DEF s
    <3>5. Set(a)'
      BY <1>1, <3>3, <3>4 DEF Set, Timed
    <3> QED
      BY <3>2, <3>5
  <2>2. CASE a = alarm /\ ~Starts(also, a)
    <3>1. n # 0 /\ a \notin Left2
      BY <1>3, <1>4, <1>5, <2>2
    <3> DEFINE t == (nticks + n) % Word
    <3>2. time'[a] = t /\ rollover'[a] = (t < nticks) /\ due'[a] = elapsed + n
      BY <1>2, <1>6, <2>2, <3>1
    <3>3. n \in 1..(Word - 1)
      BY <1>7, <3>1
    <3> HIDE DEF t
    <3>4. /\ t = (elapsed + n) % Word
          /\ (t < nticks) = ((elapsed + n) \div Word > elapsed \div Word)
          /\ (elapsed + n) - elapsed \in 1..(Word - 1)
      BY <3>3, SoonLemma DEF t
    <3>5. Set(a)'
      BY <1>1, <3>2, <3>4 DEF Set, Timed
    <3> QED
      BY <3>1, <3>5
  <2>3. CASE a # alarm /\ ~Starts(also, a)
    <3>1. time'[a] = time[a] /\ rollover'[a] = rollover[a] /\ due'[a] = due[a]
      BY <1>6, <1>8, <2>3
    <3>2. a \in running
      BY <1>4, <2>3
    <3>3. IF a \in Rest THEN Left(a) ELSE Set(a)
      BY <1>3, <2>3, <3>2
    <3>4. (Left(a)' <=> Left(a)) /\ (Set(a)' <=> Set(a))
      BY <1>1, <3>1 DEF Left, Set, Timed
    <3> QED
      BY <1>5, <3>3, <3>4
  <2> QED
    BY <2>1, <2>2, <2>3
<1>10. call.at = "idle"
  BY <1>1, LevelRing
<1>11. AlarmsInv'
  BY <1>1, <1>2, <1>5, <1>6, <1>9, <1>10 DEF AlarmsInv
<1> QED
  BY <1>4, <1>11
-----------------------------------------------------------------------------
LEMMA AlarmsStep == TableInv /\ TimeInv /\ ListInv /\ AlarmsInv /\ [Next]_vars => ListInv' /\ AlarmsInv'
<1> SUFFICES ASSUME TableInv, TimeInv, ListInv, AlarmsInv, [Next]_vars
             PROVE  ListInv' /\ AlarmsInv'
  OBVIOUS
<1> USE DEF Quiet
<1>1. CASE UNCHANGED vars \/ (\E i \in Lines : Raise(i) /\ Quiet) \/ (\E t \in Times : SetTime(t))
  <2>1. UNCHANGED <<call, isr, alarmvars>>
    BY <1>1, Zenon DEF vars, irqvars, Raise, SetTime
  <2> QED
    BY <2>1, QuietStep, Zenon
<1>2. CASE (\E i \in Lines, h \in Handlers \union {NULL} : Register(i, h)) /\ Quiet
  <2>1. /\ call = Idle /\ UNCHANGED <<isr, alarmvars>>
        /\ \E i, h : call' = [at |-> "reg_handler", line |-> i, handler |-> h]
    BY <1>2, Zenon DEF Register
  <2>2. call.at \notin AlarmSteps /\ call'.at \notin AlarmSteps
    BY <2>1 DEF Idle, AlarmSteps
  <2> QED
    BY <2>1, <2>2, QuietStep, Zenon
<1>3. CASE (RegisterHandler \/ RegisterContext \/ RegisterEnable) /\ Quiet
  <2>1. /\ call.at \in RegisterSteps /\ UNCHANGED <<isr, alarmvars>>
        /\ \/ call' = [call EXCEPT !.at = "reg_context"]
           \/ call' = [call EXCEPT !.at = "reg_enable"]
           \/ call' = [at |-> "end"]
    BY <1>3 DEF RegisterHandler, RegisterContext, RegisterEnable, RegisterSteps
  <2>2. call \in [at : RegisterSteps, line : Lines, handler : Targets]
    BY <2>1, AtLemma DEF TableInv
  <2>3. call.at \notin AlarmSteps /\ call'.at \notin AlarmSteps
    BY <2>1, <2>2 DEF AlarmSteps, RegisterSteps
  <2> QED
    BY <2>1, <2>3, QuietStep, Zenon
<1>4. CASE EndCall /\ Quiet
  <2>1. call.at = "end" /\ call' = Idle /\ UNCHANGED <<isr, alarmvars>>
    BY <1>4, Zenon DEF EndCall
  <2>2. call.at \notin AlarmSteps /\ call'.at \notin AlarmSteps
    BY <2>1 DEF Idle, AlarmSteps
  <2> QED
    BY <2>1, <2>2, QuietStep, Zenon
<1>5. CASE (Exception \/ Return \/ \E i \in Lines : Dispatch(i, "dispatch")) /\ Quiet
  <2>1. /\ isr \in {"off", "dispatch"} /\ isr' \in {"off", "dispatch"}
        /\ call' = call /\ UNCHANGED alarmvars
    BY <1>5 DEF Exception, Return, Dispatch, Executing
  <2> QED
    BY <2>1, QuietStep, Zenon
<1>6. CASE \E a \in Alarms : Stop(a) \/ \E n \in Intervals : Start(a, n)
  BY <1>6, StartStep, StopStep, Zenon
<1>7. CASE StartTime \/ StartEntry \/ StartHead \/ StopBypass \/ StopUnlink
  BY <1>7, StartTimeStep, StartEntryStep, StartHeadStep, StopBypassStep, StopUnlinkStep, Zenon
<1>8. CASE Tick \/ Walk \/ TickReturns
  BY <1>8, TickStep, WalkStep, TickReturnsStep, Zenon
<1>9. CASE \E n \in Intervals, also \in Also : Callback(n, also)
  BY <1>9, CallbackStep, Zenon
<1> QED
  BY <1>1, <1>2, <1>3, <1>4, <1>5, <1>6, <1>7, <1>8, <1>9, AlarmsAssumption, Zenon DEF Next

(* The invariant of the list of alarms and of their times.                 *)
THEOREM AlarmsInvariant == Spec => [](ListInv /\ AlarmsInv)
<1>1. Init => ListInv /\ AlarmsInv
  BY ListInit
<1>2. TableInv /\ TimeInv /\ (ListInv /\ AlarmsInv) /\ [Next]_vars => (ListInv /\ AlarmsInv)'
  BY AlarmsStep
<1> QED
  BY <1>1, <1>2, TableInvariant, TimeInvariant, PTL DEF Spec

(* alt_tick.c, alt_alarm_start.c: a callback is made at the very tick that *)
(* its interval ends at, also when the counter wraps meanwhile, and no     *)
(* alarm is passed over, whatever the callbacks start and stop.            *)
THEOREM AlarmsOnTimeTheorem == Spec => []AlarmsOnTime
<1>1. ListInv /\ AlarmsInv /\ TimeInv => AlarmsOnTime
  <2> SUFFICES ASSUME ListInv, AlarmsInv, TimeInv PROVE AlarmsOnTime
    OBVIOUS
  <2>1. isr = "callback" => elapsed = due[alarm]
    BY DEF AlarmsInv
  <2>2. ASSUME isr \in {"off", "dispatch"}, NEW a \in running PROVE due[a] > elapsed
    <3>1. Set(a) /\ due[a] - elapsed \in 1..(Word - 1) /\ elapsed \in Nat
      BY <2>2 DEF AlarmsInv, TimeInv, Set
    <3>2. due[a] \in Int
      <4>1. a \in Alarms /\ due \in [Alarms -> Nat]
        BY <2>2 DEF ListInv, AlarmsInv
      <4> QED
        BY <4>1
    <3> QED
      BY <3>1, <3>2
  <2> QED
    BY <2>1, <2>2 DEF AlarmsOnTime
<1> QED
  BY <1>1, AlarmsInvariant, TimeInvariant, PTL

-----------------------------------------------------------------------------
(* The walk from the head along a ring comes to everything that is in it.  *)
LEMMA LeastLemma ==
  ASSUME NEW S \in SUBSET Nat, S # {}
  PROVE  \E x \in S : \A y \in S : x <= y
<1> DEFINE R == {ss \in Nat \X Nat : ss[1] < ss[2]}
<1>1. IsWellFoundedOn(R, Nat)
  BY NatLessThanWellFounded, Zenon DEF OpToRel
<1> HIDE DEF R
<1>2. PICK x \in S : \A y \in S : ~ (<<y, x>> \in R)
  BY <1>1, WFMin, Zenon
<1>3. \A y \in S : x <= y
  <2> TAKE y \in S
  <2>1. <<y, x>> \notin R /\ x \in Nat /\ y \in Nat
    BY <1>2
  <2>2. y < x => <<y, x>> \in R
    BY <2>1 DEF R
  <2> QED
    BY <2>1, <2>2
<1> QED
  BY <1>3

From(l, m, f) == f = [n \in 0..m |-> IF n = 0 THEN alt_alarm_list ELSE l.next[f[n - 1]]]

LEMMA FromValues ==
  \A l, f : \A m \in Nat : From(l, m, f) =>
    /\ DOMAIN f = 0..m /\ f[0] = alt_alarm_list
    /\ \A n \in 1..m : f[n] = l.next[f[n - 1]]
<1> SUFFICES ASSUME NEW l, NEW f, NEW m \in Nat, From(l, m, f)
             PROVE  /\ DOMAIN f = 0..m /\ f[0] = alt_alarm_list
                    /\ \A n \in 1..m : f[n] = l.next[f[n - 1]]
  OBVIOUS
<1> DEFINE g == [n \in 0..m |-> IF n = 0 THEN alt_alarm_list ELSE l.next[f[n - 1]]]
<1>1. f = g
  BY DEF From
<1>2. /\ DOMAIN g = 0..m /\ g[0] = alt_alarm_list
      /\ \A n \in 1..m : g[n] = l.next[f[n - 1]]
  OBVIOUS
<1> HIDE DEF g
<1> QED
  BY <1>1, <1>2

LEMMA FromExists ==
  ASSUME NEW l
  PROVE  \A m \in Nat : \E f : From(l, m, f)
<1> DEFINE S == {m \in Nat : ~ \E f : From(l, m, f)}
<1> SUFFICES ASSUME S # {} PROVE FALSE
  OBVIOUS
<1>1. PICK m \in S : \A k \in S : m <= k
  BY LeastLemma
<1>2. m \in Nat /\ ~ \E f : From(l, m, f)
  OBVIOUS
<1>3. CASE m = 0
  <2>1. From(l, 0, [n \in 0..0 |-> alt_alarm_list])
    BY DEF From
  <2> QED
    BY <1>2, <1>3, <2>1
<1>4. CASE m # 0
  <2>1. m - 1 \in Nat /\ ~(m <= m - 1)
    BY <1>2, <1>4
  <2>2. m - 1 \notin S
    BY <1>1, <2>1
  <2>3. PICK f : From(l, m - 1, f)
    BY <2>1, <2>2
  <2>4. DOMAIN f = 0..(m - 1) /\ f[0] = alt_alarm_list /\ \A n \in 1..(m - 1) : f[n] = l.next[f[n - 1]]
    BY <2>1, <2>3, FromValues
  <2> DEFINE g == [n \in 0..m |-> IF n = m THEN l.next[f[m - 1]] ELSE f[n]]
             v(n) == IF n = 0 THEN alt_alarm_list ELSE l.next[g[n - 1]]
  <2>5. ASSUME NEW n \in 0..m PROVE g[n] = v(n)
    <3>1. CASE n = 0
      BY <1>2, <1>4, <2>4, <3>1
    <3>2. CASE n # 0
      <4>1. n \in 1..m /\ n - 1 \in 0..m /\ n - 1 # m /\ n - 1 \in 0..(m - 1)
        BY <1>2, <3>2
      <4>2. g[n - 1] = f[n - 1]
        BY <4>1
      <4>3. g[n] = l.next[f[n - 1]]
        BY <1>2, <2>4, <4>1
      <4> QED
        BY <3>2, <4>2, <4>3
    <3> QED
      BY <3>1, <3>2
  <2>6. g = [n \in 0..m |-> v(n)]
    <3> HIDE DEF v
    <3> QED
      BY <2>5
  <2> HIDE DEF g
  <2>7. From(l, m, g)
    BY <2>6 DEF From
  <2> QED
    BY <1>2, <2>7
<1> QED
  BY <1>3, <1>4

LEMMA FromInRing ==
  ASSUME NEW l, NEW R \in SUBSET Alarms, Ring(l, R), NEW m \in Nat, NEW f, From(l, m, f)
  PROVE  \A n \in 0..m : f[n] \in R \union {alt_alarm_list}
<1> DEFINE S == {n \in 0..m : f[n] \notin R \union {alt_alarm_list}}
<1> SUFFICES ASSUME S # {} PROVE FALSE
  OBVIOUS
<1>1. S \in SUBSET Nat
  OBVIOUS
<1>2. PICK n \in S : \A k \in S : n <= k
  BY <1>1, LeastLemma
<1>3. n \in 0..m /\ f[n] \notin R \union {alt_alarm_list}
  OBVIOUS
<1>4. n # 0
  BY <1>3, FromValues
<1>5. n - 1 \in 0..m /\ ~(n <= n - 1) /\ n \in 1..m
  BY <1>3, <1>4
<1>6. f[n - 1] \in R \union {alt_alarm_list}
  BY <1>2, <1>5
<1>7. f[n] = l.next[f[n - 1]]
  BY <1>5, FromValues
<1> QED
  BY <1>3, <1>6, <1>7 DEF Ring

LEMMA FromIsRing ==
  ASSUME NEW l, NEW R \in SUBSET Alarms, Ring(l, R), IsFiniteSet(R),
         NEW f, From(l, Cardinality(R), f)
  PROVE  {f[n] : n \in 0..Cardinality(R)} = R \union {alt_alarm_list}
<1> DEFINE m == Cardinality(R)
           L == R \union {alt_alarm_list}
           I == {f[n] : n \in 0..m}
<1>1. m \in Nat /\ IsFiniteSet(L) /\ Cardinality(L) = m + 1
  <2>1. m \in Nat
    BY FS_CardinalityType
  <2>2. alt_alarm_list \notin R
    BY AlarmsAssumption
  <2> QED
    BY <2>1, <2>2, FS_AddElement
<1>2. I \in SUBSET L /\ \A n \in 0..m : f[n] \in L
  BY <1>1, FromInRing
<1>3. f[0] = alt_alarm_list /\ DOMAIN f = 0..m /\ \A n \in 1..m : f[n] = l.next[f[n - 1]]
  BY <1>1, FromValues
<1>4. CASE \A x \in 0..m, y \in 0..m : f[x] = f[y] => x = y
  <2>1. f \in Bijection(0..m, I)
    <3>1. f \in [0..m -> I]
      <4>1. f = [n \in 0..m |-> f[n]]
        BY <1>1 DEF From
      <4> QED
        BY <4>1
    <3>2. f \in Injection(0..m, I)
      BY <1>4, <3>1 DEF Injection, IsInjective
    <3>3. f \in Surjection(0..m, I)
      BY <3>1 DEF Surjection
    <3> QED
      BY <3>2, <3>3 DEF Bijection
  <2>2. IsFiniteSet(0..m) /\ Cardinality(0..m) = m + 1
    BY <1>1, FS_Interval
  <2>3. Cardinality(I) = m + 1
    BY <2>1, <2>2, FS_Bijection DEF ExistsBijection
  <2> HIDE DEF L, I
  <2>4. L = I
    BY <1>1, <1>2, <2>3, FS_Subset
  <2> QED
    BY <2>4 DEF L, I
<1>5. ASSUME NEW x \in 0..m, NEW y \in 0..m, f[x] = f[y], x # y
      PROVE  I = L
  <2>1. PICK i \in 0..m, j \in 0..m : i < j /\ f[i] = f[j]
    BY <1>1, <1>5
  <2> DEFINE S == {f[n] : n \in 0..(j - 1)}
  <2>2. S \subseteq I /\ S \in SUBSET L /\ alt_alarm_list \in S
    <3>1. 0 \in 0..(j - 1) /\ 0..(j - 1) \subseteq 0..m
      BY <1>1, <2>1
    <3> QED
      BY <1>2, <1>3, <3>1
  <2>3. ASSUME NEW z \in S PROVE l.next[z] \in S
    <3>1. PICK n \in 0..(j - 1) : z = f[n]
      OBVIOUS
    <3>2. n + 1 \in 1..m /\ (n + 1) - 1 = n
      BY <1>1, <2>1, <3>1
    <3>3. l.next[z] = f[n + 1]
      BY <1>3, <3>1, <3>2
    <3>4. CASE n = j - 1
      <4>1. n + 1 = j /\ i \in 0..(j - 1)
        BY <1>1, <2>1, <3>4
      <4> QED
        BY <2>1, <3>3, <4>1
    <3>5. CASE n # j - 1
      <4>1. n + 1 \in 0..(j - 1)
        BY <1>1, <2>1, <3>1, <3>5
      <4> QED
        BY <3>3, <4>1
    <3> QED
      BY <3>4, <3>5
  <2> HIDE DEF S, L
  <2>4. S = L
    <3>1. \A T \in SUBSET L : alt_alarm_list \in T /\ (\A z \in T : l.next[z] \in T) => T = L
      BY Zenon DEF Ring, L
    <3> QED
      BY <2>2, <2>3, <3>1, Zenon
  <2> QED
    BY <1>2, <2>2, <2>4
<1> QED
  BY <1>4, <1>5

(* alt_llist.h: whenever the interrupt level or a new call looks at it,    *)
(* the list is a ring through the head and the alarms that were started    *)
(* and not stopped, the same both ways, for any number of alarms.          *)
THEOREM AlarmListIsWholeTheorem == Spec => []AlarmListIsWhole
<1>1. TableInv /\ ListInv => AlarmListIsWhole
  <2> SUFFICES ASSUME TableInv, ListInv, isr # "off" \/ call = Idle
               PROVE  AlarmListIsWhole
    BY DEF AlarmListIsWhole
  <2>1. call = Idle
    BY Zenon DEF TableInv
  <2>2. call.at = "idle"
    BY <2>1 DEF Idle
  <2>3. Ring(links, running) /\ running \in SUBSET Alarms /\ IsFiniteSet(running)
    BY <2>2 DEF ListInv
  <2> DEFINE m == Cardinality(running)
             from == CHOOSE f : From(links, m, f)
  <2>4. From(links, m, from)
    <3>1. m \in Nat
      BY <2>3, FS_CardinalityType
    <3>2. \E f : From(links, m, f)
      BY <3>1, FromExists
    <3> QED
      BY <3>2, Zenon
  <2>5. {from[n] : n \in 0..m} = Links /\ DOMAIN from = 0..m
    <3>1. m \in Nat
      BY <2>3, FS_CardinalityType
    <3> HIDE DEF from
    <3>2. {from[n] : n \in 0..m} = running \union {alt_alarm_list}
      BY <2>3, <2>4, FromIsRing
    <3>3. DOMAIN from = 0..m
      BY <2>4, <3>1, FromValues
    <3> QED
      BY <3>2, <3>3 DEF Links
  <2>6. {from[n] : n \in DOMAIN from} = Links
    <3> HIDE DEF from
    <3> QED
      BY <2>5
  <2>7. /\ \A x \in Links : links.next[x] \in Links /\ links.previous[links.next[x]] = x
        /\ \A a \in Alarms \ running : links.next[a] = a /\ links.previous[a] = a
    BY <2>3 DEF Ring, Links
  <2> QED
    BY <2>6, <2>7 DEF AlarmListIsWhole, From
<1> QED
  BY <1>1, TableInvariant, AlarmsInvariant, PTL

=============================================================================
