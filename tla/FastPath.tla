------------------------------ MODULE FastPath ------------------------------
(***************************************************************************)
(* The fast path of qe6502_tick is an optimisation: but for service_mode   *)
(* itself and the poll left pending on it, a processor that drops out of   *)
(* service mode when nothing is to be serviced behaves on its bus and in   *)
(* its registers as one that never does.                                   *)
(***************************************************************************)
EXTENDS Qe6502Core

AlwaysCpu == [cpu EXCEPT !.service_mode = TRUE, !.sampling = FALSE]

Always == INSTANCE AlwaysInService WITH cpu <- AlwaysCpu

\* No skipped resolver run would have changed anything: every step of the core is a step of the
\* processor that runs the resolver on every tick.
FastPathTransparent == Always!ServiceSpec

\* A CMOS core never stops sampling NMI, and whenever it is outside service mode, where nothing
\* samples, its edge detector is in step with the line: the part of the refinement that rests on
\* the history of the pins.
DetectorInStep ==
  ~cpu.sampling_off /\ (~cpu.service_mode => cpu.nmi_last = cpu.nmi_pin)

=============================================================================
