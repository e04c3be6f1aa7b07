---------------------------- MODULE Aarch64Devices ----------------------------
(***************************************************************************)
(* The EL2 timer and the interrupt controller of rvm-hal on aarch64.  The  *)
(* devices behind the registers are external and modelled by what the code *)
(* relies on: the counter counts, an enabled and unmasked                  *)
(* timer whose compare value has passed raises its interrupt, and a pending  *)
(* and enabled interrupt is handed to one acknowledgement.                   *)
(***************************************************************************)
EXTENDS Naturals, FiniteSets

CONSTANTS
    CounterMax,       \* u64::MAX: where saturating_add stops and the bound of the counter
    Delay,            \* deadlines asked for, in ticks from now
    Irq,              \* interrupt numbers, the timer's and one beyond MAX_IRQ among them
    MAX_IRQ, TIMER_IRQ

ASSUME DeviceNumbers == {CounterMax, MAX_IRQ, TIMER_IRQ} \subseteq Nat

VARIABLES
    counter,   \* CNTPCT
    timer,     \* the control register, the compare value, and what the driver keeps
    gic,       \* initialized, enabled, pending, active
    served     \* history: the timer interrupt was taken since the deadline was set

timerVars == <<counter, timer, served>>
deviceVars == <<counter, timer, gic, served>>

-----------------------------------------------------------------------------
(* The timer *)

Aarch64TimerNew ==
    [ready |-> FALSE, active |-> FALSE, enable |-> FALSE, imask |-> FALSE, cval |-> 0]

\* timer_init: ENABLE set, IMASK clear.
timer_init ==
    /\ timer' = [timer EXCEPT !.ready = TRUE, !.enable = TRUE, !.imask = FALSE]
    /\ UNCHANGED <<counter, gic, served>>

Capped(n) == IF n > CounterMax THEN CounterMax ELSE n

\* The compare value only: the control register is left as it is.
set_deadline_ns(d) ==
    /\ timer.ready
    /\ timer' = [timer EXCEPT !.cval = Capped(counter + d), !.active = TRUE]
    /\ served' = FALSE
    /\ UNCHANGED <<counter, gic>>

\* timer_disable: ENABLE and IMASK set.
cancel_deadline ==
    /\ timer.active
    /\ timer' = [timer EXCEPT !.enable = TRUE, !.imask = TRUE, !.active = FALSE]
    /\ UNCHANGED <<counter, gic, served>>

Counts == counter < CounterMax /\ counter' = counter + 1 /\ UNCHANGED <<timer, gic, served>>

\* The condition the hardware raises the interrupt on.
Due == timer.enable /\ ~timer.imask /\ timer.cval <= counter

-----------------------------------------------------------------------------
(* The interrupt controller *)

GicNew == [initialized |-> FALSE, enabled |-> {}, pending |-> {}, active |-> {}]

gic_init == gic' = [gic EXCEPT !.initialized = TRUE] /\ UNCHANGED timerVars

gic_enable_irq(i) ==
    /\ gic.initialized /\ i <= MAX_IRQ
    /\ gic' = [gic EXCEPT !.enabled = @ \cup {i}]
    /\ UNCHANGED timerVars

gic_disable_irq(i) ==
    /\ gic.initialized /\ i <= MAX_IRQ
    /\ gic' = [gic EXCEPT !.enabled = @ \ {i}]
    /\ UNCHANGED timerVars

\* Hardware: the timer's line is level-triggered, another device asserts its own.
Raise(i) ==
    /\ i \in gic.enabled \ (gic.pending \cup gic.active)
    /\ i = TIMER_IRQ => Due
    /\ gic' = [gic EXCEPT !.pending = @ \cup {i}]
    /\ UNCHANGED timerVars

\* Reading IAR takes a pending interrupt, or says that there is none.
acknowledge(i) ==
    /\ gic.initialized /\ i \in gic.pending
    /\ gic' = [gic EXCEPT !.pending = @ \ {i}, !.active = @ \cup {i}]
    /\ UNCHANGED timerVars

\* The handler passes the number it acknowledged.  The timer's has been served.
end_of_interrupt(i) ==
    /\ gic.initialized /\ i \in gic.active
    /\ gic' = [gic EXCEPT !.active = @ \ {i}]
    /\ served' = (served \/ i = TIMER_IRQ)
    /\ UNCHANGED <<counter, timer>>

-----------------------------------------------------------------------------
DeviceInit ==
    /\ counter = 0 /\ timer = Aarch64TimerNew /\ gic = GicNew /\ served = FALSE

Service == \E i \in Irq : acknowledge(i) \/ end_of_interrupt(i)

DeviceNext ==
    \/ timer_init \/ gic_init \/ Counts
    \/ \E d \in Delay : set_deadline_ns(d)
    \/ cancel_deadline
    \/ \E i \in Irq : gic_enable_irq(i) \/ gic_disable_irq(i) \/ Raise(i)
    \/ Service

\* The counter counts, the line is raised and the handler runs.
DeviceFairness ==
    /\ WF_deviceVars(Counts)
    /\ SF_deviceVars(Raise(TIMER_IRQ))
    /\ \A i \in Irq : WF_deviceVars(acknowledge(i)) /\ WF_deviceVars(end_of_interrupt(i))
DeviceSpec == DeviceInit /\ [][DeviceNext]_deviceVars /\ DeviceFairness

-----------------------------------------------------------------------------
(* Properties *)

Armed == timer.active /\ TIMER_IRQ \in gic.enabled

\* A deadline set while the timer's interrupt is not masked is served, whatever is
\* enabled, disabled or set again meanwhile, unless it is cancelled or the interrupt
\* is disabled; one too far away to represent is the last tick, not never.
UnmaskedDeadlineServed == (Armed /\ ~timer.imask) ~> (served \/ ~Armed)

\* Every armed deadline is served: the documentation of timer_set_deadline says the
\* timer fires when the counter reaches the value, and that of timer_init that
\* setting a deadline arms the timer.
DeadlineServed == Armed ~> (served \/ ~Armed)
=============================================================================
