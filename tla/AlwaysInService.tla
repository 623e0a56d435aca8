-------------------------- MODULE AlwaysInService --------------------------
(***************************************************************************)
(* What the core's two modes promise together: a processor that is always  *)
(* in service mode.  The pins are sampled and the interrupts resolved on   *)
(* every tick; there is no fast path (qe6502.h:237) to leave or to enter,  *)
(* and a poll is consumed by the tick that asks for it.                    *)
(***************************************************************************)
EXTENDS Qe6502Core

InService(c) == [c EXCEPT !.service_mode = TRUE, !.sampling = FALSE]

Becoming(o) == cpu' = InService(o.cpu) /\ tick' = o.tick

\* Every tick runs interrupt_resolver.
ServiceTick == \E o \in InterruptResolver(cpu) : Becoming(o)

ServiceNmiAssert(level) ==
  "nmi" \in Host /\ cpu' = [cpu EXCEPT !.nmi_pin = level] /\ UNCHANGED tick

ServiceIrqAssert(level) ==
  "irq" \in Host /\ cpu' = [cpu EXCEPT !.irq_pin = level] /\ UNCHANGED tick

ServiceRestart == "restart" \in Host /\ Becoming(RestartOutcome(cpu))

ServiceGoto ==
  /\ "goto" \in Host
  /\ \E o \in InterruptResolver(EnterServiceSlot(cpu, goto, 0)) : Becoming(o)

ServiceInit ==
  \E model \in Models :
    \E o \in {RestartOutcome(Setup(model))}
             \cup InterruptResolver(EnterServiceSlot(Setup(model), goto, 0)) :
      cpu = InService(o.cpu) /\ tick = o.tick

ServiceNext ==
  \/ ServiceTick
  \/ \E level \in BOOLEAN : ServiceNmiAssert(level)
  \/ \E level \in BOOLEAN : ServiceIrqAssert(level)
  \/ ServiceRestart
  \/ ServiceGoto
  \/ \E model \in Models : SetModel(model)
  \/ \E i, d \in BOOLEAN : SetP(i, d)

ServiceSpec == ServiceInit /\ [][ServiceNext]_vars

=============================================================================
