------------------------------- MODULE Machine -------------------------------
(***************************************************************************)
(* A processor with its registers and a memory, ticked by a host: the      *)
(* control of Qe6502Core and the handlers of DataPath in one step.  Where  *)
(* the control alone leaves an outcome open (a page crossing, a branch, a  *)
(* flag pulled from the stack), the data path decides it.                  *)
(*                                                                         *)
(* Modules SingleStep and Lockstep are hosts of the repository.            *)
(***************************************************************************)
EXTENDS Qe6502Core, DataPath, Mnemonics, Memory

VARIABLES
  regs,     \* the registers and latches of qe6502_t
  bus,      \* the address and data of the last qe6502_tick_t, and its internal_reset flag
  mem,      \* the host's 64K of memory: the bytes that are not zero
  arch,     \* what a program sees of the processor, as of the last opcode fetch
  job       \* what the host is at; each host keeps its own fields

machine == <<cpu, tick, regs, bus, mem, arch>>

-----------------------------------------------------------------------------
\* The write that the last tick asked for is carried out before the next one.
WrittenMemory == IF tick.status = "write" THEN Poke(mem, bus.address, bus.data) ELSE mem

-----------------------------------------------------------------------------
\* An outcome o of the control and a step d of the data path are of the same tick. A handler
\* that stays in its slot skips as many entries in both.
Agrees(o, d, c) ==
  /\ o.cpu.I = ("I" \in d.regs.P) /\ o.cpu.D = ("D" \in d.regs.P)
  /\ o.tick.status = d.status
  /\ o.cpu.microcode \in c.microcode..c.microcode + 2 => o.cpu.microcode = c.microcode + d.skip

\* The handler a tick runs: dispatch counts PC and turns to the first handler of the opcode.
Entered(c, r, input) ==
  IF Store[c.microcode] = "dispatch"
  THEN [cpu |-> [c EXCEPT !.microcode = IDX(c.model, input, 0)],
        regs |-> [r EXCEPT !.PC = Word(@ + 1)]]
  ELSE [cpu |-> c, regs |-> r]

DataStep(c, r, input) ==
  Handle(Store[c.microcode], IF Slot(c) < 256 THEN Mnemonic(c.model, Slot(c)) ELSE "none",
           Slot(c), c.model, r, input)

\* The outcomes of the control that the data path allows, before and after the index advances.
Joint(c, r, input) ==
  LET e == Entered(c, r, input)
      d == DataStep(e.cpu, e.regs, input)
  IN  {[out |-> o, step |-> d] :
         o \in {p \in Effect(Store[e.cpu.microcode], e.cpu) : Agrees(p, d, e.cpu)}}

Ticked(c, r, input) ==
  IF c.service_mode
  THEN {[out |-> Resolve(Advance(j.out), c.I), step |-> j.step] :
          j \in Joint(IF c.sampling_off THEN c ELSE SampleNmi(c), r, input)}
  ELSE {[out |-> Advance(j.out), step |-> j.step] : j \in Joint(c, r, input)}

\* What the program sees: its registers, its memory and the ticks its last instruction took.
\* "phase" tells a running program from one that the host interfered with, until the next fetch,
\* and from a reset; "ticks" counts since the last fetch, and back and forth at TicksBound: a
\* processor that is stuck is still seen to be ticked.
TicksBound == 20

Seen(r, m, took) ==
  [ PC |-> r.PC, S |-> r.S, A |-> r.A, X |-> r.X, Y |-> r.Y, P |-> r.P, mem |-> m,
    phase |-> "running", ticks |-> 0, took |-> took ]

Counted(a) == [a EXCEPT !.ticks = IF @ < TicksBound THEN @ + 1 ELSE @ - 1]

Observed(j, m) ==
  IF j.step.status = "fetch" /\ ~j.step.reset THEN Seen(j.step.regs, m, Counted(arch).ticks)
  ELSE Counted(arch)

Shows(j) ==
  /\ cpu' = j.out.cpu
  /\ tick' = j.out.tick
  /\ regs' = j.step.regs
  /\ bus' = [address |-> j.step.address, data |-> j.step.data, reset |-> j.step.reset]

\* One tick of the processor with the data the host puts on its bus; the write of the tick before
\* reaches the memory first.
Step(input) ==
  /\ mem' = WrittenMemory
  /\ \E j \in Ticked(cpu, regs, input) : Shows(j) /\ arch' = Observed(j, WrittenMemory)

-----------------------------------------------------------------------------
\* The registers of qe6502_setup, and qe6502_restart, whose tick is the first reset cycle.
StartRegs == [PC |-> 0, S |-> 0, A |-> 0, X |-> 0, Y |-> 0, P |-> {}, addr |-> 0, data |-> 0]

RestartRegs ==
  [PC |-> 511, S |-> 192, A |-> 0, X |-> 192, Y |-> 0, P |-> {"Z"}, addr |-> 0, data |-> 0]

RestartMachine(m) ==
  /\ Becomes(RestartOutcome(cpu))
  /\ regs' = RestartRegs
  /\ bus' = [address |-> 255, data |-> 0, reset |-> TRUE]
  /\ mem' = m
  /\ arch' = [Seen(RestartRegs, m, 0) EXCEPT !.phase = "resetting"]

\* The host writes the memory: between two instructions, or under one and then what that one does
\* is anybody's guess.
PokeMachine(m) ==
  /\ mem' = m
  /\ arch' = [arch EXCEPT !.mem = m, !.phase = IF arch.ticks = 0 THEN @ ELSE "disturbed"]

=============================================================================
