------------------------------- MODULE Alarms -------------------------------
(***************************************************************************)
(* The system clock of the HAL: the tick handler and its list of alarms,   *)
(* and the time of day, on top of the interrupts.  The tick counter and    *)
(* the times of the alarms are words that wrap; elapsed and due are what   *)
(* they stand for.  The list is doubly linked, with a head.                *)
(***************************************************************************)
EXTENDS Interrupts, FiniteSets

CONSTANTS
  Alarms,
  alt_alarm_list,  \* the head of the list
  Intervals,       \* ticks asked of alt_alarm_start, or returned by a callback
  Word,            \* 2^32
  rate, US,        \* ticks per second, and microseconds in a second
  Times,           \* times of day that are set, as seconds and microseconds
  MaxTicks         \* bound on the ticks

Timer == 0         \* the line of the system clock

(* A word cannot tell an interval of 2^32 - 1 ticks from none: see README. *)
ASSUME AlarmsAssumption ==
  /\ Timer \in Lines /\ alt_alarm_list \notin Alarms /\ MaxTicks \in Nat
  /\ Word \in Nat \ {0} /\ Intervals \subseteq 0..(Word - 2)
  /\ rate \in Nat \ {0} /\ US \in Nat \ {0} /\ US % rate = 0
  /\ Times \subseteq Nat \X (0..(US - 1))

VARIABLES
  links,               \* next and previous of the head and every alarm
  time, rollover,      \* of each alarm
  nticks,              \* _alt_nticks
  alarm, next,         \* locals of alt_tick
  resettime,           \* alt_resettime
  elapsed, due,        \* history: ticks since reset, and when to call back
  running, started,    \* history: alarms on the list, and that ever were
  lastset              \* history: the last settimeofday

alarmvars == <<links, time, rollover, nticks, alarm, next, elapsed, due, running, started>>
timevars  == <<resettime, lastset>>
vars      == <<irqvars, call, saved, alarmvars, timevars>>

-----------------------------------------------------------------------------
(* alt_llist_insert at the head, in two halves, and alt_llist_remove.      *)
LinkEntry(l, a) == [l EXCEPT !.previous[a] = alt_alarm_list, !.next[a] = l.next[alt_alarm_list]]
LinkHead(l, a)  == [l EXCEPT !.previous[l.next[alt_alarm_list]] = a, !.next[alt_alarm_list] = a]
Insert(l, a)    == LinkHead(LinkEntry(l, a), a)
Bypass(l, a)    == [l EXCEPT !.previous[l.next[a]] = l.previous[a]]
Unlink(l, a)    == [l EXCEPT !.next[l.previous[a]] = l.next[a],
                             !.previous[a] = a, !.next[a] = a]
Remove(l, a)    == Unlink(Bypass(l, a), a)

(* Variant: no flag for a time beyond the roll-over.                       *)
Rolls_never(a, t) == rollover' = [rollover EXCEPT ![a] = FALSE] /\ time' = [time EXCEPT ![a] = t]

(* The time of an alarm is set, with its flag.                             *)
Rolls(a, t) == rollover' = [rollover EXCEPT ![a] = t < nticks] /\ time' = [time EXCEPT ![a] = t]

Init ==
  /\ InterruptsInit
  /\ links = [next     |-> [x \in Alarms \union {alt_alarm_list} |-> x],
              previous |-> [x \in Alarms \union {alt_alarm_list} |-> x]]
  /\ time = [a \in Alarms |-> 0] /\ rollover = [a \in Alarms |-> FALSE]
  /\ nticks = 0 /\ alarm = alt_alarm_list /\ next = alt_alarm_list
  /\ elapsed = 0 /\ due = [a \in Alarms |-> 0] /\ running = {} /\ started = {}
  /\ resettime = <<0, 0>> /\ lastset = [tod |-> <<0, 0>>, at |-> 0]

-----------------------------------------------------------------------------
(* alt_alarm_start, by the program, for an alarm that is not on the list.  *)
Start(a, n) ==
  /\ Executing /\ call = Idle /\ a \notin running
  /\ call' = [at |-> "start_time", alarm |-> a, nticks |-> n]
  /\ alt_irq_disable_all
  /\ UNCHANGED <<alt_irq_active, alt_irq, pending, isr, alarmvars, timevars>>

StartTime ==
  /\ Executing /\ call.at = "start_time"
  /\ Rolls(call.alarm, (call.nticks + nticks + 1) % Word)
  /\ due' = [due EXCEPT ![call.alarm] = elapsed + call.nticks + 1]
  /\ call' = [call EXCEPT !.at = "start_entry"]
  /\ UNCHANGED <<irqvars, saved, links, nticks, alarm, next, elapsed, running, started, timevars>>

StartEntry ==
  /\ Executing /\ call.at = "start_entry"
  /\ links' = LinkEntry(links, call.alarm)
  /\ call' = [call EXCEPT !.at = "start_head"]
  /\ UNCHANGED <<irqvars, saved, time, rollover, nticks, alarm, next, elapsed, due, running,
                 started, timevars>>

StartHead ==
  /\ Executing /\ call.at = "start_head"
  /\ links' = LinkHead(links, call.alarm)
  /\ running' = running \union {call.alarm} /\ started' = started \union {call.alarm}
  /\ call' = [at |-> "end"]
  /\ UNCHANGED <<irqvars, saved, time, rollover, nticks, alarm, next, elapsed, due, timevars>>

(* alt_alarm_stop, by the program, for an alarm that was ever started.     *)
Stop(a) ==
  /\ Executing /\ call = Idle /\ a \in started
  /\ call' = [at |-> "stop_bypass", alarm |-> a]
  /\ alt_irq_disable_all
  /\ UNCHANGED <<alt_irq_active, alt_irq, pending, isr, alarmvars, timevars>>

StopBypass ==
  /\ Executing /\ call.at = "stop_bypass"
  /\ links' = Bypass(links, call.alarm)
  /\ call' = [call EXCEPT !.at = "stop_unlink"]
  /\ UNCHANGED <<irqvars, saved, time, rollover, nticks, alarm, next, elapsed, due, running,
                 started, timevars>>

StopUnlink ==
  /\ Executing /\ call.at = "stop_unlink"
  /\ links' = Unlink(links, call.alarm) /\ running' = running \ {call.alarm}
  /\ call' = [at |-> "end"]
  /\ UNCHANGED <<irqvars, saved, time, rollover, nticks, alarm, next, elapsed, due, started,
                 timevars>>

-----------------------------------------------------------------------------
(* The handler of the system clock calls alt_tick.                         *)
Tick ==
  /\ elapsed < MaxTicks
  /\ Dispatch(Timer, "walk")
  /\ nticks' = (nticks + 1) % Word /\ elapsed' = elapsed + 1
  /\ alarm' = links.next[alt_alarm_list]
  /\ UNCHANGED <<links, time, rollover, next, due, running, started, timevars>>

(* The roll-over flag of the alarm, once the counter has wrapped.          *)
Cleared == [rollover EXCEPT ![alarm] = rollover[alarm] /\ nticks # 0]
Expired == time[alarm] <= nticks /\ ~ Cleared[alarm]

Walk ==
  /\ isr = "walk" /\ alarm # alt_alarm_list
  /\ rollover' = Cleared
  /\ IF Expired THEN isr' = "callback" /\ next' = links.next[alarm] /\ UNCHANGED alarm
     ELSE alarm' = links.next[alarm] /\ UNCHANGED <<isr, next>>
  /\ UNCHANGED <<pie, alt_irq_active, alt_irq, pending, call, saved, links, time, nticks, elapsed,
                 due, running, started, timevars>>

(* What a callback may do besides: nothing, stop an alarm, or start one    *)
(* again.  It must not stop the one that alt_tick goes on with: see README.*)
Also == {<<"nothing">>} \union {<<"stop", b>> : b \in started \ {next}}
        \union {<<"start", b>> : b \in (Alarms \ running) \ {alarm}}

(* The callback of the alarm returns next_callback; zero stops the alarm.  *)
Callback(next_callback, also) ==
  /\ isr = "callback"
  /\ LET mid  == IF also[1] = "stop" THEN Remove(links, also[2])
                 ELSE IF also[1] = "start" THEN Insert(links, also[2]) ELSE links
         left == running \ (IF also[1] = "stop" THEN {also[2]} ELSE {})
         runs == left \union (IF also[1] = "start" THEN {also[2]} ELSE {})
         t    == (time[alarm] + next_callback) % Word
         s    == (nticks + 1) % Word      \* of an alarm started for no ticks
     IN  /\ IF next_callback = 0
            THEN links' = Remove(mid, alarm) /\ running' = runs \ {alarm}
            ELSE links' = mid /\ running' = runs
         /\ IF also[1] = "start"
            THEN /\ time' = [time EXCEPT ![also[2]] = s,
                                         ![alarm] = IF next_callback = 0 THEN @ ELSE t]
                 /\ rollover' = [rollover EXCEPT ![also[2]] = s < nticks,
                                   ![alarm] = @ \/ (next_callback # 0 /\ t < nticks)]
                 /\ due' = [due EXCEPT ![also[2]] = elapsed + 1, ![alarm] = @ + next_callback]
                 /\ started' = started \union {also[2]}
            ELSE /\ IF next_callback = 0 THEN UNCHANGED <<time, rollover>> ELSE Rolls(alarm, t)
                 /\ due' = [due EXCEPT ![alarm] = @ + next_callback]
                 /\ UNCHANGED started
  /\ alarm' = next /\ isr' = "walk"
  /\ UNCHANGED <<pie, alt_irq_active, alt_irq, pending, call, saved, nticks, next, elapsed,
                 timevars>>

(* alt_tick returns to alt_irq_handler.                                    *)
TickReturns ==
  /\ isr = "walk" /\ alarm = alt_alarm_list
  /\ isr' = "dispatch" /\ next' = alt_alarm_list
  /\ UNCHANGED <<pie, alt_irq_active, alt_irq, pending, call, saved, links, time, rollover, nticks,
                 alarm, elapsed, due, running, started, timevars>>

-----------------------------------------------------------------------------
(* Variant: the microseconds are not reduced to those of a second.         *)
Micros_whole(n) == n * (US \div rate)

(* The microseconds of a number of ticks, as settimeofday takes them.      *)
Micros(n) == ((n * (US \div rate)) % Word) % US

(* settimeofday; nothing but the tick counter is read while it runs.       *)
SetTime(t) ==
  /\ Executing /\ call = Idle
  /\ resettime' = <<t[1] - (nticks \div rate), t[2] - Micros(nticks)>>
  /\ lastset' = [tod |-> t, at |-> elapsed]
  /\ UNCHANGED <<irqvars, call, saved, alarmvars>>

(* gettimeofday, with its loops that bring the microseconds into range.    *)
GetTime ==
  LET sec  == resettime[1] + (nticks \div rate)
      usec == resettime[2] + ((nticks * (US \div rate)) % US)
  IN  IF usec < 0 /\ sec + (usec \div US) < 0 THEN <<0, 0>> ELSE <<sec + (usec \div US), usec % US>>

Quiet == UNCHANGED <<alarmvars, timevars>>

Next ==
  \/ \E i \in Lines \ {Timer} : \/ \E h \in Handlers \union {NULL} : Register(i, h) /\ Quiet
                                \/ Dispatch(i, "dispatch") /\ Quiet
  \/ \E h \in Handlers : alt_irq_active = {} /\ Register(Timer, h) /\ Quiet
  \/ (RegisterHandler \/ RegisterContext \/ RegisterEnable \/ EndCall) /\ Quiet
  \/ (\E i \in Lines : Raise(i)) /\ Quiet
  \/ (Exception \/ Return) /\ Quiet
  \/ \E a \in Alarms : Stop(a) \/ \E n \in Intervals : Start(a, n)
  \/ StartTime \/ StartEntry \/ StartHead \/ StopBypass \/ StopUnlink
  \/ Tick \/ Walk \/ TickReturns
  \/ \E n \in Intervals, also \in Also : Callback(n, also)
  \/ \E t \in Times : SetTime(t)

Spec == Init /\ [][Next]_vars

-----------------------------------------------------------------------------
(* alt_tick and alt_alarm_start: a callback is made at the very tick that  *)
(* the interval asked for ends at, also when the counter wraps meanwhile,  *)
(* and when alt_tick has returned no alarm on the list is overdue.         *)
AlarmsOnTime ==
  /\ isr = "callback" => elapsed = due[alarm]
  /\ isr \in {"off", "dispatch"} => \A a \in running : due[a] > elapsed

Links == {alt_alarm_list} \union running

(* alt_llist: whenever the interrupt level or a new call looks at it, the  *)
(* list is a ring through the head and the alarms that were started and    *)
(* not stopped, the same both ways; an alarm off the list is a ring of its *)
(* own, so that "any further calls to alt_llist_remove() are harmless".    *)
AlarmListIsWhole ==
  isr # "off" \/ call = Idle =>
    /\ \A x \in Links : /\ links.next[x] \in Links
                        /\ links.previous[links.next[x]] = x
    /\ LET from[n \in 0..Cardinality(running)] ==
             IF n = 0 THEN alt_alarm_list ELSE links.next[from[n - 1]]
       IN  {from[n] : n \in DOMAIN from} = Links
    /\ \A a \in Alarms \ running : links.next[a] = a /\ links.previous[a] = a

(* settimeofday, "an immediate call to gettimeofday() would return the     *)
(* value specified": gettimeofday is the time set and what has passed      *)
(* since, as long as the ticks, and at the time of the call their          *)
(* microseconds, fit a word.                                               *)
TimeIsKept ==
  elapsed < Word /\ lastset.at * (US \div rate) < Word =>
    GetTime[1] * US + GetTime[2] = lastset.tod[1] * US + lastset.tod[2]
                                   + (elapsed - lastset.at) * (US \div rate)
=============================================================================
