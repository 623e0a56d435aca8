-------------------------- MODULE InterruptHistory --------------------------
(***************************************************************************)
(* Qe6502Core watched by an observer that remembers what the core forgets: *)
(* the NMI line at every tick, the edges not yet serviced, what the polls  *)
(* of the current instruction saw, and how long it has run.  The observer  *)
(* reads the pins and the bus only, so its edge detector samples on every  *)
(* tick, whether or not the core is in service mode.                       *)
(***************************************************************************)
EXTENDS Qe6502Core

VARIABLES
  level,    \* the NMI line at the last tick
  owed,     \* an NMI edge was seen and the NMI sequence has not begun since
  decided,  \* the interrupt the polls since the last fetch call for
  since,    \* ticks since the last opcode fetch, up to MaxSince
  writes    \* bus writes among them

history == <<level, owed, decided, since, writes>>
hvars   == <<vars, history>>

MaxSince == 9

\* The NMI sequence from its first cycle, or from the vector it took over, to the vector's high
\* byte. An edge that arrives within it belongs to the interrupt being entered.
InNmiEntry(c) == Slot(c) = nmi /\ Cycle(c) <= 5

FreshEdge == cpu.nmi_pin /\ ~level

\* What the observer notes of a tick that runs from the cpu c.
Observe(c) ==
  LET due   == owed \/ FreshEdge
      ended == tick'.status = "fetch"
  IN  /\ level' = cpu.nmi_pin
      /\ owed' = (due /\ ~InNmiEntry(c) /\ ~InNmiEntry(cpu'))
      /\ decided' = IF ended THEN "none"
                    ELSE IF ~tick'.polled \/ decided = "nmi" THEN decided
                    ELSE IF due THEN "nmi"
                    ELSE IF cpu.irq_pin /\ ~cpu.I THEN "irq" ELSE decided
      /\ since' = IF ended THEN 0 ELSE IF since < MaxSince THEN since + 1 ELSE since
      /\ writes' = IF ended THEN 0
                   ELSE IF tick'.status = "write" /\ writes < MaxSince THEN writes + 1 ELSE writes

Forget == /\ level' = FALSE /\ owed' = FALSE /\ decided' = "none"
          /\ since' = 0 /\ writes' = 0

HInit == Init /\ level = FALSE /\ owed = FALSE /\ decided = "none" /\ since = 0 /\ writes = 0

HTick     == Tick /\ Observe(cpu)
HGoto     == Goto /\ Observe(EnterServiceSlot(cpu, goto, 0))
HRestart  == Restart /\ Forget
HPins     == /\ \E v \in BOOLEAN : NmiAssert(v) \/ IrqAssert(v)
             /\ UNCHANGED history
HSetP     == /\ \E i, d \in BOOLEAN : SetP(i, d)
             /\ UNCHANGED history

HNext == HTick \/ HGoto \/ HRestart \/ HPins \/ HSetP

HSpec == HInit /\ [][HNext]_hvars

\* The host keeps ticking the processor.
HFairSpec == HSpec /\ WF_hvars(HTick)

-----------------------------------------------------------------------------
HTypeOK == /\ TypeOK
           /\ level \in BOOLEAN /\ owed \in BOOLEAN
           /\ decided \in {"none", "nmi", "irq"}
           /\ since \in 0..MaxSince /\ writes \in 0..MaxSince

\* The first fetch of a handler comes seven ticks and three stack writes after the fetch it
\* replaced, or after BRK's: also when an NMI takes the sequence over half way and it is
\* continued in another slot.
VectorFetchNext == Store[cpu.microcode] = "latch_pch_fetch" /\ Slot(cpu) \in {0, nmi, irq}

EntryFrame == VectorFetchNext => since = 6 /\ writes = 3

\* No instruction runs longer than its eight microcode entries, whatever page crossings, decimal
\* cycles and interrupts do to it. Reset and a jam are the only longer stretches without a fetch.
InstructionLength ==
  since > 7 => Slot(cpu) \in {internal_reset, reset_0, reset_0 + 1} \/ tick.status = "jammed"

\* The step enters a service slot at its first cycle.
Enters(slot) == LET e == IDX(cpu'.model, slot, 0) IN cpu.microcode # e /\ cpu'.microcode = e

\* A fetch hands over to an interrupt exactly when a poll of the instruction that ends called
\* for it: pins moved after the poll come too late, those seen by it are honoured even if they
\* are released before the fetch.
PollDecides ==
  [][tick'.status = "fetch" /\ since' = 0 =>
       /\ Enters(irq) <=> (decided = "irq" /\ decided' = "none")
       /\ Enters(nmi) <=> (decided = "nmi" /\ decided' = "none")]_hvars

\* The NMI sequence begins, or takes over another one, only for an edge of the line that has
\* not been serviced yet: none twice, none without an edge, however long the line is held.
NoSpuriousNmi ==
  [][~InNmiEntry(cpu) /\ InNmiEntry(cpu') => owed \/ FreshEdge]_hvars

\* Every rise of the line is latched, and may at once be chosen or begin its sequence: NMI is
\* edge-sensitive (README.md:369). Exempt are the NMOS window in which the pins are not sampled
\* and an entry in progress, which the edge belongs to.
EdgeLatched ==
  [][~level /\ level' /\ ~cpu.sampling_off /\ ~InNmiEntry(cpu) =>
       cpu'.nmi_edge \/ cpu'.nmi_taken \/ InNmiEntry(cpu')]_hvars

Restarted == cpu'.microcode = IDX(cpu'.model, internal_reset, 0) /\ cpu # cpu'

\* A latched edge is forgotten only by choosing it or by the NMI sequence.
EdgeKept ==
  [][cpu.nmi_edge /\ ~cpu'.nmi_edge =>
       cpu'.nmi_taken \/ InNmiEntry(cpu) \/ InNmiEntry(cpu') \/ Restarted]_hvars

\* A chosen NMI stays chosen until its sequence begins.
ChosenNmiKept ==
  [][cpu.nmi_taken /\ ~cpu'.nmi_taken => InNmiEntry(cpu') \/ Restarted]_hvars

\* An NMI edge is eventually serviced, or the host resets the processor: the observer's debt is
\* paid by nothing else.
NmiServed == owed ~> ~owed

\* An IRQ line held while I is clear is not ignored for ever: it is serviced, or I is set.
IrqServed == []<>(~cpu.irq_pin \/ cpu.I \/ Slot(cpu) = irq)

=============================================================================
