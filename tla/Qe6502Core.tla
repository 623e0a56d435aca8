----------------------------- MODULE Qe6502Core -----------------------------
(***************************************************************************)
(* The control of the qe6502 core (src/cpu/src/qe6502.c): the sequencing   *)
(* of microcode handlers, one per bus cycle, and the interrupt unit, driven *)
(* by a host that ticks the processor, moves its NMI and IRQ pins, resets  *)
(* it and redirects it between ticks.                                      *)
(*                                                                         *)
(* Registers, addresses and bus data are abstracted: where a handler       *)
(* branches on them (a page crossing, a branch condition, the opcode that  *)
(* was fetched, a status byte pulled from the stack) every outcome is      *)
(* possible.  The flags I and D stay, the interrupt unit and the decimal   *)
(* cycles depend on them.                                                  *)
(***************************************************************************)
EXTENDS Integers

CONSTANTS
  Store,    \* the control store: microcode index -> handler, "null" where no handler is
  Models,   \* the processor models the host sets up
  Opcodes,  \* the opcode bytes the memory holds
  Host      \* which of the API calls below the host makes between ticks

HostCalls == {"nmi", "irq", "restart", "goto", "set_model", "set_p"}

ASSUME HostAssumption == Host \subseteq HostCalls

ASSUME IndexAssumption == Models \subseteq Nat /\ Opcodes \subseteq 0..255

VARIABLES
  cpu,      \* the qe6502_t context
  tick      \* the last qe6502_tick_t: its status, and whether prefetch() ran

vars == <<cpu, tick>>

-----------------------------------------------------------------------------
\* Slots above the opcodes, and the index of a cycle of a slot (QE6502_IDX).
illegal_ext    == 257
internal_reset == 258
reset_0        == 259
goto           == 261
nmi            == 262
irq            == 263

IDX(model, slot, cycle) == model * 4096 + slot * 8 + cycle

\* qe6502_t. latch_data is the data latch in its use as the counter of the reset cycles; the
\* fields from sampling on are the bits of interrupts, the pins named for their asserted level.
Cpu == [ model : Models, microcode : Int, latch_data : 0..255, service_mode : BOOLEAN,
         I : BOOLEAN, D : BOOLEAN,
         sampling : BOOLEAN, sampling_off : BOOLEAN,
         nmi_pin : BOOLEAN, nmi_last : BOOLEAN, nmi_edge : BOOLEAN, nmi_taken : BOOLEAN,
         irq_pin : BOOLEAN, irq_taken : BOOLEAN ]

TickResult == [status : {"read", "write", "fetch", "jammed"}, polled : BOOLEAN]

TypeOK == cpu \in Cpu /\ tick \in TickResult

-----------------------------------------------------------------------------
\* Each definition named "...Mutant" is a plausible mistake in the definition that follows it or
\* its group, kept to show that the properties notice; nothing uses it.
EnterLateMutant(c, slot, cycle) == [c EXCEPT !.microcode = IDX(c.model, slot, cycle) + 1]
NextEnterAheadMutant(c, slot, cycle) == [c EXCEPT !.microcode = IDX(c.model, slot, cycle)]
LoopHereTwiceMutant(c) == [c EXCEPT !.microcode = @ - 2]

\* Moving the microcode index. A handler runs before the index is advanced, so the "next" forms
\* leave it one short.
EnterServiceSlot(c, slot, cycle)     == [c EXCEPT !.microcode = IDX(c.model, slot, cycle)]
NextEnterServiceSlot(c, slot, cycle) == [c EXCEPT !.microcode = IDX(c.model, slot, cycle) - 1]
LoopHere(c)                          == [c EXCEPT !.microcode = @ - 1]
Skip(c, n)                           == [c EXCEPT !.microcode = @ + n]

RisesOnlyMutant(c) == IF c.nmi_pin THEN [c EXCEPT !.nmi_last = TRUE] ELSE c
SampleLevelMutant(c) == IF c.nmi_pin THEN [c EXCEPT !.nmi_edge = TRUE] ELSE c
SampleForgetsMutant(c) ==
  [c EXCEPT !.nmi_edge = c.nmi_pin /\ ~c.nmi_last, !.nmi_last = c.nmi_pin]
FindBothMutant(c, I) ==
  IF c.nmi_edge THEN [c EXCEPT !.nmi_edge = FALSE, !.nmi_taken = TRUE]
  ELSE IF ~I /\ c.irq_pin THEN [c EXCEPT !.irq_taken = TRUE, !.nmi_taken = FALSE] ELSE c

\* The interrupt unit: the edge detector samples the pin, a poll chooses what to service.
UpdateNmiLastSampled(c) == [c EXCEPT !.nmi_last = c.nmi_pin]

SampleNmi(c) ==
  UpdateNmiLastSampled(IF c.nmi_pin /\ ~c.nmi_last THEN [c EXCEPT !.nmi_edge = TRUE] ELSE c)

FindActiveInterrupt(c, I) ==
  IF c.nmi_edge
  THEN [c EXCEPT !.nmi_edge = FALSE, !.nmi_taken = TRUE, !.irq_taken = FALSE]
  ELSE IF ~I /\ c.irq_pin THEN [c EXCEPT !.irq_taken = TRUE, !.nmi_taken = FALSE] ELSE c

DropTaken(c) == [c EXCEPT !.nmi_taken = FALSE, !.irq_taken = FALSE]

\* NMOS: an interrupt that arrives while BRK or IRQ pushes takes its vector over, and the pins
\* are not sampled again before the vector is read.
StackPushStatusB(c) ==
  LET f == [FindActiveInterrupt(c, c.I) EXCEPT !.sampling_off = TRUE]
  IN  IF f.nmi_taken THEN NextEnterServiceSlot(DropTaken(f), nmi, 4)
      ELSE IF f.irq_taken THEN NextEnterServiceSlot(DropTaken(f), irq, 4) ELSE f

NmiPushP(c) ==
  DropTaken([FindActiveInterrupt(c, c.I) EXCEPT !.sampling_off = TRUE, !.nmi_edge = FALSE])

IrqPushP(c) ==
  LET f == [FindActiveInterrupt(c, c.I) EXCEPT !.sampling_off = TRUE, !.irq_taken = FALSE]
  IN  IF f.nmi_taken THEN NextEnterServiceSlot([f EXCEPT !.nmi_taken = FALSE], nmi, 4) ELSE f

StaysOffMutant(c) == [c EXCEPT !.I = TRUE]
NmosVectorLow(c) == [c EXCEPT !.I = TRUE, !.sampling_off = FALSE]

\* CMOS: the vector is never taken over; reading it drops a pending edge.
CmosNmiPushP(c)  == UpdateNmiLastSampled([c EXCEPT !.nmi_edge = FALSE, !.nmi_taken = FALSE])
CmosVectorLow(c) == UpdateNmiLastSampled([c EXCEPT !.I = TRUE, !.D = FALSE, !.nmi_edge = FALSE])

-----------------------------------------------------------------------------
\* The handlers that write to the bus and those that fetch an opcode, the plain ones first. A
\* plain handler moves addresses and data and touches nothing of what is modelled here.
PlainWrites ==
  { "stack_push_pc_high", "stack_push_pc_low", "cmos_stack_push_status_b",
    "latch_data_write_latch_addr" }

WriteHandlers ==
  PlainWrites \cup
  { "stack_push_status_b", "nmi_c3_push_p", "irq_c3_push_p", "cmos_nmi_c3_push_p",
    "cmos_irq_c3_push_p", "push_write_prefetch", "rmw_write_prefetch", "store_zp_prefetch",
    "store_abs_prefetch", "store_latch_prefetch", "unstable_store_prefetch" }

PlainFetches ==
  { "fetch", "exec_fetch", "decimal_fetch", "latch_addr1_set_pc_fetch", "jmp_ind_c4_fetch",
    "latch_pch_fetch", "restart_read_zzhh_fetch" }

FetchHandlers == PlainFetches \cup {"plp_fetch", "fetch_illegal_ext_dispatch"}

PlainReads ==
  { "read_pc", "read_pc_inc", "read_latch_addr", "read_stack_current_s", "read_zp_latch_x",
    "read_fffe", "kil_jam_read_ffff", "clear_latch_addr_read_pc",
    "clear_latch_addr_read_pc_inc", "latch_addr0_read_pc_inc", "latch_addr0_read_latch_addr",
    "latch_addr1_read_latch_addr", "latch_data_read_latch_addr",
    "latch_zp_addr_read_latch_addr", "latch_pcl_stack_read", "latch_abx_base_read_pc_inc",
    "latch_aby_base_read_pc_inc", "cmos_latch_abx_base_read_pc", "cmos_latch_aby_base_read_pc",
    "rw_abx_c1_hi", "w_indexed_probe", "cmos_w_indexed_probe",
    "unstable_store_indexed_probe_preserve_base_high", "zpx_c1_idx", "r_zpy_c1_idx",
    "w_zpy_c1_idx", "r_izx_c1_idx", "r_izx_c4_data", "izx_read_ptrlo_inc_ptr", "izp_c2_ptrhi",
    "r_izy_c2_ptrhi", "w_izx_c3_ptrhi", "w_izy_c2_ptrhi", "jmp_ind_c2_target_lo",
    "cmos_jmp_ind_x_c2_dummy", "cmos_jmp_ind_x_c3_target_lo", "jsr_abs_c1_dummy",
    "stack_pull_read", "nmi_c4_vec_lo", "irq_c4_vec_lo", "restart_read_hhff",
    "restart_read_zzhh", "reset_stack_read", "reset_vec_lo" }

\* Handlers that also ask for a poll of the interrupts: always, or only out of decimal mode,
\* where another cycle follows that polls instead.
PollHandlers ==
  { "imp_prefetch", "push_write_prefetch", "rmw_write_prefetch", "store_zp_prefetch",
    "store_abs_prefetch", "store_latch_prefetch", "unstable_store_prefetch",
    "read_pc_prefetch", "read_pc_inc_prefetch", "read_pc_minus_one_prefetch",
    "read_latch_addr_prefetch", "read_addr_with_bus_hi_prefetch", "r_zp_c1_data_prefetch",
    "r_izx_c4_data_no_latch_prefetch", "latch_addr0_read_pc_inc_prefetch",
    "latch_data_read_latch_addr_prefetch", "latch_pcl_stack_read_prefetch",
    "cmos_jmp_ind_c4_target_hi_retry_prefetch", "rts_c4_inc_pc_dummy_prefetch",
    "stack_pull_read_prefetch", "branch_pgfix_prefetch", "bra_c0_prefetch" }

BinaryPollHandlers ==
  { "read_pc_inc_prefetch_decimal_clear", "latch_zp_addr_read_latch_addr_prefetch_decimal_clear",
    "latch_addr1_read_latch_addr_prefetch_decimal_clear",
    "read_latch_addr_prefetch_decimal_clear", "r_izx_c4_data_prefetch_decimal_clear" }

-----------------------------------------------------------------------------
StatusOf(h) == IF h \in WriteHandlers THEN "write"
               ELSE IF h \in FetchHandlers THEN "fetch" ELSE "read"

\* What one handler does: the cpu it leaves, before the index is advanced, and its tick.
Bus(h, c) == [cpu |-> c, tick |-> [status |-> StatusOf(h), polled |-> FALSE]]

Prefetch(o) == [ cpu  |-> [o.cpu EXCEPT !.sampling = TRUE],
                 tick |-> [o.tick EXCEPT !.polled = TRUE] ]

\* The probe of an indexed read: without a page crossing it is the read itself, and the cycle
\* that would repeat it is skipped.
Probe(h, c, noCross) == {noCross, Bus(h, c)}

ResetCountsDownMutant(h, c) ==
  LET counted == [c EXCEPT !.latch_data = @ - 1]
  IN  IF counted.latch_data = 0 THEN Bus(h, NextEnterServiceSlot(counted, reset_0, 0))
      ELSE Bus(h, LoopHere(counted))

ResetCountIsNarrowMutant(h, c) ==
  LET counted == [c EXCEPT !.latch_data = (@ + 1) % 8]
  IN  IF counted.latch_data = 8 THEN Bus(h, NextEnterServiceSlot(counted, reset_0, 0))
      ELSE Bus(h, LoopHere(counted))

InternalReset(h, c) ==
  LET counted == [c EXCEPT !.latch_data = (@ + 1) % 256]
  IN  IF counted.latch_data = 8 THEN Bus(h, NextEnterServiceSlot(counted, reset_0, 0))
      ELSE Bus(h, LoopHere(counted))

DummyRepeatsMutant(h, c) ==
  IF c.D THEN Prefetch(Bus(h, LoopHere(c))) ELSE Bus("fetch", Skip(c, 1))

\* Decimal ADC and SBC spend the dummy cycle; out of decimal mode they execute and fetch.
FetchOrDecimalDummy(h, c) ==
  IF c.D THEN Prefetch(Bus(h, c)) ELSE Bus("fetch", Skip(c, 1))

\* P as a byte of the stack: any I and D.
PulledStatus(c) == {[c EXCEPT !.I = p.I, !.D = p.D] : p \in [I : BOOLEAN, D : BOOLEAN]}

\* The outcomes of a handler other than dispatch.
Effect(h, c) ==
  CASE h \in PlainReads \cup PlainWrites \cup PlainFetches -> {Bus(h, c)}
    [] h \in PollHandlers -> {Prefetch(Bus(h, c))}
    [] h \in BinaryPollHandlers -> {IF c.D THEN Bus(h, c) ELSE Prefetch(Bus(h, c))}
    [] h \in { "r_indexed_probe_no_latch_prefetch_no_page_cross",
               "cmos_r_indexed_probe_no_latch_prefetch_no_page_cross" } ->
         Probe(h, c, Prefetch(Bus(h, Skip(c, 1))))
    [] h = "cmos_r_indexed_probe_prefetch_no_page_cross_decimal_clear" ->
         Probe(h, c, IF c.D THEN Bus(h, Skip(c, 1)) ELSE Prefetch(Bus(h, Skip(c, 1))))
    [] h = "cmos_r_indexed_probe" -> Probe(h, c, Bus(h, Skip(c, 1)))
    [] h \in {"branch_c0_prefetch", "wdc_bbr_bbs_c3_offset_or_skip_prefetch"} ->
         {Prefetch(Bus(h, c)), Prefetch(Bus(h, Skip(c, 2)))}
    [] h \in {"branch_rel_c1_apply", "wdc_bbr_bbs_c4_apply"} -> {Bus(h, c), Bus(h, Skip(c, 1))}
    [] h = "exec_fetch_or_decimal_dummy" -> {FetchOrDecimalDummy(h, c)}
    [] h = "fetch_illegal_ext_dispatch" -> {Bus(h, NextEnterServiceSlot(c, illegal_ext, 0))}
    [] h = "cli_prefetch" -> {Prefetch(Bus(h, [c EXCEPT !.I = FALSE]))}
    [] h = "sei_prefetch" -> {Prefetch(Bus(h, [c EXCEPT !.I = TRUE]))}
    [] h = "cld_prefetch" -> {Prefetch(Bus(h, [c EXCEPT !.D = FALSE]))}
    [] h = "sed_prefetch" -> {Prefetch(Bus(h, [c EXCEPT !.D = TRUE]))}
    [] h \in {"plp_fetch", "rti_c3_pull_pcl"} -> {Bus(h, d) : d \in PulledStatus(c)}
    [] h = "kil_jam_loop" -> {[Bus(h, LoopHere(c)) EXCEPT !.tick.status = "jammed"]}
    [] h = "internal_reset" -> {InternalReset(h, c)}
    [] h = "reset_vec_hi" -> {Bus(h, [c EXCEPT !.I = TRUE])}
    [] h = "stack_push_status_b" -> {Bus(h, StackPushStatusB(c))}
    [] h = "brk_c5_vec_hi" -> {Bus(h, NmosVectorLow(c))}
    [] h = "nmos_irq_c5_vec_hi" -> {Bus(h, NmosVectorLow(c))}
    [] h = "nmos_nmi_c5_vec_hi" -> {Bus(h, UpdateNmiLastSampled(NmosVectorLow(c)))}
    [] h = "cmos_brk_c5_vec_hi" -> {Bus(h, [c EXCEPT !.I = TRUE, !.D = FALSE])}
    [] h \in {"cmos_irq_c5_vec_hi", "cmos_nmi_c5_vec_hi"} -> {Bus(h, CmosVectorLow(c))}
    [] h = "nmi_c3_push_p" -> {Bus(h, NmiPushP(c))}
    [] h = "irq_c3_push_p" -> {Bus(h, IrqPushP(c))}
    [] h = "cmos_nmi_c3_push_p" -> {Bus(h, CmosNmiPushP(c))}
    [] h = "cmos_irq_c3_push_p" -> {Bus(h, [c EXCEPT !.irq_taken = FALSE])}
    [] OTHER -> {}

\* mc_dispatch turns to the slot of the opcode on the bus and runs its first handler at once.
Dispatch(c, opcode) ==
  LET d == [c EXCEPT !.microcode = IDX(c.model, opcode, 0)] IN Effect(Store[d.microcode], d)

Outcomes(c) ==
  IF Store[c.microcode] = "dispatch" THEN UNION {Dispatch(c, opcode) : opcode \in Opcodes}
  ELSE Effect(Store[c.microcode], c)

-----------------------------------------------------------------------------
Advance(o) == [o EXCEPT !.cpu = Skip(o.cpu, 1)]

\* The resolver gives service mode up when nothing is left for it to watch.
Quiescent(c) ==
  /\ ~c.nmi_edge /\ ~c.irq_pin
  /\ c.nmi_pin => c.nmi_last
  /\ ~c.nmi_taken /\ ~c.irq_taken

SettleChosenMutant(o) ==
  IF ~o.cpu.nmi_edge /\ ~o.cpu.irq_pin /\ (o.cpu.nmi_pin => o.cpu.nmi_last)
  THEN [o EXCEPT !.cpu.service_mode = FALSE] ELSE o

Settle(o) == IF Quiescent(o.cpu) THEN [o EXCEPT !.cpu.service_mode = FALSE] ELSE o

ResolveNmiOnlyMutant(o, initialI) ==
  IF o.cpu.sampling
  THEN Settle([o EXCEPT !.cpu = FindActiveInterrupt([o.cpu EXCEPT !.sampling = FALSE], initialI)])
  ELSE IF o.tick.status = "fetch" /\ o.cpu.nmi_taken
  THEN [o EXCEPT !.cpu = EnterServiceSlot(DropTaken(o.cpu), nmi, 0)]
  ELSE Settle(o)

ResolveMasksNmiMutant(o, initialI) ==
  IF o.cpu.sampling
  THEN Settle([o EXCEPT !.cpu = FindActiveInterrupt([o.cpu EXCEPT !.sampling = FALSE], initialI)])
  ELSE IF o.tick.status = "fetch" /\ (o.cpu.nmi_taken \/ o.cpu.irq_taken)
  THEN [o EXCEPT !.cpu = EnterServiceSlot(DropTaken(o.cpu),
                                          IF o.cpu.nmi_taken /\ ~initialI THEN nmi ELSE irq, 0)]
  ELSE Settle(o)

\* Polls with the I flag the tick began with; enters an interrupt in place of the dispatch of
\* the opcode just fetched.
Resolve(o, initialI) ==
  IF o.cpu.sampling
  THEN Settle([o EXCEPT !.cpu = FindActiveInterrupt([o.cpu EXCEPT !.sampling = FALSE], initialI)])
  ELSE IF o.tick.status = "fetch" /\ (o.cpu.nmi_taken \/ o.cpu.irq_taken)
  THEN [o EXCEPT !.cpu = EnterServiceSlot(DropTaken(o.cpu),
                                          IF o.cpu.nmi_taken THEN nmi ELSE irq, 0)]
  ELSE Settle(o)

PollsLateMutant(c) ==
  {Resolve(Advance(o), o.cpu.I) : o \in Outcomes(IF c.sampling_off THEN c ELSE SampleNmi(c))}

InterruptResolver(c) ==
  {Resolve(Advance(o), c.I) : o \in Outcomes(IF c.sampling_off THEN c ELSE SampleNmi(c))}

FastPath(c) == {Advance(o) : o \in Outcomes(c)}

TickOutcomes(c) == IF c.service_mode THEN InterruptResolver(c) ELSE FastPath(c)

-----------------------------------------------------------------------------
\* qe6502_setup, qe6502_restart and qe6502_goto.
Setup(model) ==
  [ model |-> model, microcode |-> 0, latch_data |-> 0, service_mode |-> FALSE,
    I |-> FALSE, D |-> FALSE, sampling |-> FALSE, sampling_off |-> FALSE,
    nmi_pin |-> FALSE, nmi_last |-> FALSE, nmi_edge |-> FALSE, nmi_taken |-> FALSE,
    irq_pin |-> FALSE, irq_taken |-> FALSE ]

RestartOutcome(c) == Bus("restart", EnterServiceSlot(Setup(c.model), internal_reset, 0))

GotoOutcomes(c) == TickOutcomes(EnterServiceSlot(c, goto, 0))

Becomes(o) == cpu' = o.cpu /\ tick' = o.tick

\* qe6502_tick
Tick == \E o \in TickOutcomes(cpu) : Becomes(o)

NmiStalePollMutant(level) ==
  /\ "nmi" \in Host
  /\ cpu' = [cpu EXCEPT !.nmi_pin = level, !.service_mode = @ \/ cpu.nmi_pin # level]
  /\ UNCHANGED tick

NmiAsleepMutant(level) ==
  "nmi" \in Host /\ cpu' = [cpu EXCEPT !.sampling = FALSE, !.nmi_pin = level] /\ UNCHANGED tick

\* qe6502_nmi_assert
NmiAssert(level) ==
  /\ "nmi" \in Host
  /\ cpu' = [cpu EXCEPT !.sampling = FALSE, !.nmi_pin = level,
                        !.service_mode = @ \/ cpu.nmi_pin # level]
  /\ UNCHANGED tick

IrqAsleepMutant(level) ==
  "irq" \in Host /\ cpu' = [cpu EXCEPT !.sampling = FALSE, !.irq_pin = level] /\ UNCHANGED tick

\* qe6502_irq_assert
IrqAssert(level) ==
  /\ "irq" \in Host
  /\ cpu' = [cpu EXCEPT !.sampling = FALSE, !.irq_pin = level, !.service_mode = @ \/ level]
  /\ UNCHANGED tick

Restart == "restart" \in Host /\ Becomes(RestartOutcome(cpu))

Goto == "goto" \in Host /\ \E o \in GotoOutcomes(cpu) : Becomes(o)

\* qe6502_set_model, and qe6502_set_p with the qe6502_set_flag accessors.
SetModel(model) ==
  "set_model" \in Host /\ cpu' = [cpu EXCEPT !.model = model] /\ UNCHANGED tick

SetP(i, d) ==
  "set_p" \in Host /\ cpu' = [cpu EXCEPT !.I = i, !.D = d] /\ UNCHANGED tick

\* A processor is set up and then started, by a reset or at an address.
Init ==
  \E model \in Models : \E o \in {RestartOutcome(Setup(model))} \cup GotoOutcomes(Setup(model)) :
    cpu = o.cpu /\ tick = o.tick

HostStep ==
  \/ \E level \in BOOLEAN : NmiAssert(level)
  \/ \E level \in BOOLEAN : IrqAssert(level)
  \/ Restart
  \/ Goto
  \/ \E model \in Models : SetModel(model)
  \/ \E i, d \in BOOLEAN : SetP(i, d)

Next == Tick \/ HostStep

Spec == Init /\ [][Next]_vars

\* The host keeps ticking the processor.
FairSpec == Spec /\ WF_vars(Tick)

-----------------------------------------------------------------------------
\* Where in the control store the index is; the slot of an opcode is its number.
Slot(c)  == (c.microcode \div 8) % 512
Cycle(c) == c.microcode % 8

\* Outside service mode the resolver is skipped, so nothing may be left for it to do: no latched
\* edge, no asserted IRQ, no unsampled NMI assertion, no interrupt chosen and not yet entered.
\* Handlers, host calls and the resolver's own exit all have to keep to it.
FastPathIdle == ~cpu.service_mode => Quiescent(cpu)

\* A poll requested on the fast path stays requested, as nothing consumes it there. It must be
\* gone when a pin wakes the resolver, or the next tick would poll at a cycle that is none.
NoStalePoll == cpu.service_mode => ~cpu.sampling

\* The two chosen-interrupt bits exclude each other: the resolver and the push handlers test
\* nmi_taken first and would forget an IRQ chosen beside it.
OneTaken == ~(cpu.nmi_taken /\ cpu.irq_taken)

\* A chosen interrupt is entered at the fetch that ends the instruction; none is carried over
\* into the next instruction, however the polling and the fetching ticks interleave with pins.
ChosenEntersAtFetch ==
  Store[cpu.microcode] = "dispatch" => ~cpu.nmi_taken /\ ~cpu.irq_taken

\* NMOS stops sampling NMI from the status push to the vector of BRK, IRQ and NMI and nowhere
\* else, also when the sequence changes slots in between.
VectorWindow ==
  cpu.sampling_off => Store[cpu.microcode] \in
    { "read_fffe", "nmi_c4_vec_lo", "irq_c4_vec_lo",
      "brk_c5_vec_hi", "nmos_irq_c5_vec_hi", "nmos_nmi_c5_vec_hi" }

\* No call sequence runs off the end of a slot: the entry to run next exists in the store.
HandlerExists == Store[cpu.microcode] # "null" /\ TickOutcomes(cpu) # {}

\* A jammed NMOS processor stays jammed whatever its pins do; only a host call ends it.
JamIsFinal ==
  [][tick.status = "jammed" /\ cpu'.microcode \notin {IDX(cpu.model, goto, 1),
       IDX(cpu.model, internal_reset, 0)} => tick'.status = "jammed"]_vars

=============================================================================
