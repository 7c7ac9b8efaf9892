----------------------------- MODULE Interrupts -----------------------------
(***************************************************************************)
(* The interrupts of the processor and of the HAL: the table of handlers,  *)
(* the enabled lines, the sections with interrupts off, and the loop that  *)
(* calls the handler of the lowest pending line until none is pending.     *)
(* The program runs one call at a time; call and saved are its locals.     *)
(***************************************************************************)
EXTENDS Integers, FiniteSetsExt

CONSTANTS
  Lines,         \* interrupt lines: the lower, the higher its priority
  Handlers,      \* handlers that a program may register
  NULL

ASSUME InterruptsAssumption == Lines \subseteq Nat /\ NULL \notin Handlers

VARIABLES
  pie,             \* status.PIE: interrupts are on
  alt_irq_active,  \* the enabled lines, as in IENABLE
  alt_irq,         \* handler and context of each line
  pending,         \* the lines that devices hold up
  isr,             \* what runs at interrupt level, or "off"
  call, saved      \* the program's call: where it is, its argument, its context

irqvars == <<pie, alt_irq_active, alt_irq, pending, isr>>

Idle == [at |-> "idle"]

(* alt_irq_disable_all, and the matching alt_irq_enable_all: sections nest *)
(* because the second restores what the first found.                       *)

(* Variant: interrupts stay on.                                            *)
alt_irq_disable_all_left_on == saved' = pie /\ pie' = pie
alt_irq_disable_all == saved' = pie /\ pie' = FALSE
alt_irq_enable_all  == pie' = saved /\ saved' = TRUE

InterruptsInit ==
  /\ pie = TRUE /\ alt_irq_active = {} /\ pending = {} /\ isr = "off"
  /\ alt_irq = [i \in Lines |-> [handler |-> NULL, context |-> NULL]]
  /\ call = Idle /\ saved = TRUE

Executing == isr = "off"   \* the processor runs the program

-----------------------------------------------------------------------------
(* Variant: registering leaves interrupts as they are.                     *)
Register_interruptible(i, h) ==
  /\ Executing /\ call = Idle
  /\ call' = [at |-> "reg_handler", line |-> i, handler |-> h]
  /\ saved' = pie
  /\ UNCHANGED <<pie, alt_irq_active, alt_irq, pending, isr>>

(* alt_iic_isr_register: the two words of the table are written, and the   *)
(* line is enabled or, for a null handler, disabled.                       *)
Register(i, h) ==
  /\ Executing /\ call = Idle
  /\ call' = [at |-> "reg_handler", line |-> i, handler |-> h]
  /\ alt_irq_disable_all
  /\ UNCHANGED <<alt_irq_active, alt_irq, pending, isr>>

RegisterHandler ==
  /\ Executing /\ call.at = "reg_handler"
  /\ alt_irq' = [alt_irq EXCEPT ![call.line].handler = call.handler]
  /\ call' = [call EXCEPT !.at = "reg_context"]
  /\ UNCHANGED <<pie, alt_irq_active, pending, isr, saved>>

RegisterContext ==
  /\ Executing /\ call.at = "reg_context"
  /\ alt_irq' = [alt_irq EXCEPT ![call.line].context = call.handler]
  /\ call' = [call EXCEPT !.at = "reg_enable"]
  /\ UNCHANGED <<pie, alt_irq_active, pending, isr, saved>>

RegisterEnable ==
  /\ Executing /\ call.at = "reg_enable"
  /\ alt_irq_active' = IF call.handler = NULL THEN alt_irq_active \ {call.line}
                       ELSE alt_irq_active \union {call.line}
  /\ call' = [at |-> "end"]
  /\ UNCHANGED <<pie, alt_irq, pending, isr, saved>>

(* The end of every call that switched interrupts off.                     *)
EndCall ==
  /\ Executing /\ call.at = "end"
  /\ alt_irq_enable_all /\ call' = Idle
  /\ UNCHANGED <<alt_irq_active, alt_irq, pending, isr>>

-----------------------------------------------------------------------------
(* A device raises its line.                                               *)
Raise(i) ==
  /\ i \notin pending
  /\ pending' = pending \union {i}
  /\ UNCHANGED <<pie, alt_irq_active, alt_irq, isr, call, saved>>

alt_irq_pending == pending \intersect alt_irq_active

(* The exception that an enabled line causes.                              *)
Exception ==
  /\ Executing /\ pie /\ alt_irq_pending # {}
  /\ pie' = FALSE /\ isr' = "dispatch"
  /\ UNCHANGED <<alt_irq_active, alt_irq, pending, call, saved>>

(* alt_irq_handler calls the handler of line i, which quiets its device    *)
(* and goes on at next.                                                    *)
Dispatch(i, next) ==
  /\ isr = "dispatch" /\ alt_irq_pending # {} /\ i = Min(alt_irq_pending)
  /\ pending' = pending \ {i} /\ isr' = next
  /\ UNCHANGED <<pie, alt_irq_active, alt_irq, call, saved>>

(* Nothing is pending any more: back to the program.                       *)
Return ==
  /\ isr = "dispatch" /\ alt_irq_pending = {}
  /\ isr' = "off" /\ pie' = TRUE
  /\ UNCHANGED <<alt_irq_active, alt_irq, pending, call, saved>>

-----------------------------------------------------------------------------
(* alt_iic_isr_register, "interrupts are disabled while the handler tables *)
(* are updated to ensure that an interrupt doesn't occur while the tables  *)
(* are in an inconsistant state": whatever the interrupt level may call is *)
(* a handler with the context it was registered with.                      *)
CallsAreRegistered ==
  isr # "off" => \A i \in alt_irq_active : /\ alt_irq[i].handler \in Handlers
                                           /\ alt_irq[i].context = alt_irq[i].handler
=============================================================================
