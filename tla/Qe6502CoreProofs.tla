-------------------------- MODULE Qe6502CoreProofs --------------------------
(***************************************************************************)
(* Proofs about Qe6502Core, for every control store: type correctness, and *)
(* what lets qe6502_tick skip interrupt_resolver outside service mode.     *)
(*                                                                         *)
(* The argument goes from the inside out.  Each helper, and then each      *)
(* handler, Keeps what the invariant needs (KeepsLemmas, EffectKeeps); a   *)
(* tick adds what the resolver does after the handler (TickKeeps); the     *)
(* host's calls are direct.                                                *)
(***************************************************************************)
EXTENDS Qe6502Core, TLAPS

Outcome == [cpu : Cpu, tick : TickResult]

\* What no handler disturbs: the mode, the NMI pin, quiescence, and the exclusion of the two taken
\* bits. The edge detector is left alone or brought in step with the pin.
Keeps(c, d) ==
  /\ d \in Cpu
  /\ d.service_mode = c.service_mode
  /\ d.nmi_pin = c.nmi_pin /\ (d.nmi_last = c.nmi_last \/ d.nmi_last = c.nmi_pin)
  /\ Quiescent(c) => Quiescent(d)
  /\ ~(c.nmi_taken /\ c.irq_taken) => ~(d.nmi_taken /\ d.irq_taken)

-----------------------------------------------------------------------------
\* Keeping is reflexive and transitive, so it composes along a handler.
LEMMA KeepsRefl == ASSUME NEW c \in Cpu PROVE Keeps(c, c)
  BY DEF Keeps

LEMMA KeepsTrans ==
  ASSUME NEW c, NEW d, NEW e, Keeps(c, d), Keeps(d, e) PROVE Keeps(c, e)
  BY DEF Keeps

\* Moving the index, setting I and D, counting and setting sampling or sampling_off keep: they
\* touch nothing the invariant reads.
LEMMA KeepsIndex ==
  ASSUME NEW c \in Cpu, NEW n \in Int PROVE Keeps(c, [c EXCEPT !.microcode = n])
  BY DEF Keeps, Cpu, Quiescent

LEMMA KeepsFlags ==
  ASSUME NEW c \in Cpu, NEW i \in BOOLEAN, NEW d \in BOOLEAN
  PROVE  /\ Keeps(c, [c EXCEPT !.I = i])
         /\ Keeps(c, [c EXCEPT !.D = d])
         /\ Keeps(c, [c EXCEPT !.I = i, !.D = d])
<1>1. Keeps(c, [c EXCEPT !.I = i])  BY DEF Keeps, Cpu, Quiescent
<1>2. ASSUME NEW x \in Cpu PROVE Keeps(x, [x EXCEPT !.D = d])  BY DEF Keeps, Cpu, Quiescent
<1>3. Keeps(c, [c EXCEPT !.I = i, !.D = d])
  <2> DEFINE x == [c EXCEPT !.I = i]
  <2>1. Keeps(c, x) /\ x \in Cpu  BY <1>1 DEF Keeps
  <2>2. [x EXCEPT !.D = d] = [c EXCEPT !.I = i, !.D = d]  OBVIOUS
  <2> HIDE DEF x
  <2>3. Keeps(x, [x EXCEPT !.D = d])  BY <1>2, <2>1
  <2> QED  BY <2>1, <2>2, <2>3, KeepsTrans
<1> QED  BY <1>1, <1>2, <1>3

LEMMA KeepsSampling ==
  ASSUME NEW c \in Cpu, NEW b \in BOOLEAN
  PROVE  /\ Keeps(c, [c EXCEPT !.sampling = b])
         /\ Keeps(c, [c EXCEPT !.sampling_off = b])
  BY DEF Keeps, Cpu, Quiescent

LEMMA IndexInt ==
  ASSUME NEW c \in Cpu, NEW slot \in Int, NEW cycle \in Int
  PROVE  IDX(c.model, slot, cycle) \in Int
<1>1. c.model \in Models  BY DEF Cpu
<1>2. Models \subseteq Nat  BY IndexAssumption DEF IndexAssumption
<1>3. c.model \in Nat  BY <1>1, <1>2
<1>4. c.model \in Int  BY <1>3
<1> QED  BY <1>4 DEF IDX

LEMMA KeepsMoves ==
  ASSUME NEW c \in Cpu, NEW slot \in Int, NEW cycle \in Int
  PROVE  /\ Keeps(c, EnterServiceSlot(c, slot, cycle))
         /\ Keeps(c, NextEnterServiceSlot(c, slot, cycle))
<1> DEFINE x == IDX(c.model, slot, cycle)
<1>1. x \in Int /\ x - 1 \in Int  BY IndexInt
<1>2. Keeps(c, EnterServiceSlot(c, slot, cycle))
  BY <1>1, KeepsIndex DEF EnterServiceSlot
<1>3. Keeps(c, NextEnterServiceSlot(c, slot, cycle))
  BY <1>1, KeepsIndex DEF NextEnterServiceSlot
<1> QED  BY <1>2, <1>3

LEMMA KeepsLoopHere == ASSUME NEW c \in Cpu PROVE Keeps(c, LoopHere(c))
<1>1. c.microcode - 1 \in Int  BY DEF Cpu
<1> QED  BY <1>1, KeepsIndex DEF LoopHere

LEMMA KeepsSkip == ASSUME NEW c \in Cpu, NEW n \in Int PROVE Keeps(c, Skip(c, n))
<1>1. c.microcode + n \in Int  BY DEF Cpu
<1> QED  BY <1>1, KeepsIndex DEF Skip

\* The interrupt unit's own steps keep as well.
LEMMA KeepsInterrupts ==
  ASSUME NEW c \in Cpu, NEW i \in BOOLEAN
  PROVE  /\ Keeps(c, UpdateNmiLastSampled(c))
         /\ Keeps(c, SampleNmi(c))
         /\ Keeps(c, FindActiveInterrupt(c, i))
         /\ Keeps(c, DropTaken(c))
<1>1. Keeps(c, UpdateNmiLastSampled(c))
  BY DEF Keeps, Cpu, Quiescent, UpdateNmiLastSampled
<1>2. Keeps(c, SampleNmi(c))
  <2>1. CASE c.nmi_pin /\ ~c.nmi_last
    <3> DEFINE d == [c EXCEPT !.nmi_edge = TRUE]
    <3>1. d \in Cpu /\ ~Quiescent(c)  BY <2>1 DEF Cpu, Quiescent
    <3>2. Keeps(c, d)  BY <3>1 DEF Keeps, Cpu
    <3>3. Keeps(d, UpdateNmiLastSampled(d))
      BY <3>1 DEF Keeps, Cpu, Quiescent, UpdateNmiLastSampled
    <3>4. SampleNmi(c) = UpdateNmiLastSampled(d)  BY <2>1 DEF SampleNmi
    <3> QED  BY <3>2, <3>3, <3>4, KeepsTrans
  <2>2. CASE ~(c.nmi_pin /\ ~c.nmi_last)
    BY <1>1, <2>2 DEF SampleNmi
  <2> QED  BY <2>1, <2>2
<1>3. Keeps(c, FindActiveInterrupt(c, i))
  <2>1. CASE c.nmi_edge
    <3> DEFINE d == [c EXCEPT !.nmi_edge = FALSE, !.nmi_taken = TRUE, !.irq_taken = FALSE]
    <3>1. ~Quiescent(c)  BY <2>1 DEF Quiescent
    <3>2. d \in Cpu  BY DEF Cpu
    <3>3. /\ d.service_mode = c.service_mode /\ ~d.irq_taken
          /\ d.nmi_pin = c.nmi_pin /\ d.nmi_last = c.nmi_last
      BY DEF Cpu
    <3>4. FindActiveInterrupt(c, i) = d  BY <2>1 DEF FindActiveInterrupt
    <3> HIDE DEF d
    <3> QED  BY <3>1, <3>2, <3>3, <3>4 DEF Keeps
  <2>2. CASE ~c.nmi_edge /\ ~i /\ c.irq_pin
    <3> DEFINE d == [c EXCEPT !.irq_taken = TRUE, !.nmi_taken = FALSE]
    <3>1. ~Quiescent(c)  BY <2>2 DEF Quiescent
    <3>2. d \in Cpu  BY DEF Cpu
    <3>3. /\ d.service_mode = c.service_mode /\ ~d.nmi_taken
          /\ d.nmi_pin = c.nmi_pin /\ d.nmi_last = c.nmi_last
      BY DEF Cpu
    <3>4. FindActiveInterrupt(c, i) = d  BY <2>2 DEF FindActiveInterrupt
    <3> HIDE DEF d
    <3> QED  BY <3>1, <3>2, <3>3, <3>4 DEF Keeps
  <2>3. CASE ~c.nmi_edge /\ ~(~i /\ c.irq_pin)
    BY <2>3, KeepsRefl DEF FindActiveInterrupt
  <2> QED  BY <2>1, <2>2, <2>3
<1>4. Keeps(c, DropTaken(c))
  <2>1. DropTaken(c) \in Cpu  BY DEF Cpu, DropTaken
  <2>2. /\ DropTaken(c).service_mode = c.service_mode
        /\ DropTaken(c).nmi_pin = c.nmi_pin /\ DropTaken(c).nmi_last = c.nmi_last
        /\ ~DropTaken(c).nmi_taken
        /\ Quiescent(c) => Quiescent(DropTaken(c))
    BY DEF Cpu, DropTaken, Quiescent
  <2> QED  BY <2>1, <2>2 DEF Keeps
<1> QED  BY <1>1, <1>2, <1>3, <1>4

\* Clearing an edge or a taken bit keeps too.
LEMMA KeepsClearing ==
  ASSUME NEW c \in Cpu
  PROVE  /\ Keeps(c, [c EXCEPT !.nmi_edge = FALSE])
         /\ Keeps(c, [c EXCEPT !.nmi_taken = FALSE])
         /\ Keeps(c, [c EXCEPT !.irq_taken = FALSE])
<1>1. Keeps(c, [c EXCEPT !.nmi_edge = FALSE])
  <2>1. [c EXCEPT !.nmi_edge = FALSE] \in Cpu  BY DEF Cpu
  <2> QED  BY <2>1 DEF Keeps, Cpu, Quiescent
<1>2. Keeps(c, [c EXCEPT !.nmi_taken = FALSE])
  <2>1. [c EXCEPT !.nmi_taken = FALSE] \in Cpu  BY DEF Cpu
  <2> QED  BY <2>1 DEF Keeps, Cpu, Quiescent
<1>3. Keeps(c, [c EXCEPT !.irq_taken = FALSE])
  <2>1. [c EXCEPT !.irq_taken = FALSE] \in Cpu  BY DEF Cpu
  <2> QED  BY <2>1 DEF Keeps, Cpu, Quiescent
<1> QED  BY <1>1, <1>2, <1>3

LEMMA SlotsInt == nmi \in Int /\ irq \in Int /\ illegal_ext \in Int /\ reset_0 \in Int
                  /\ goto \in Int /\ internal_reset \in Int
  BY DEF nmi, irq, illegal_ext, reset_0, goto, internal_reset

LEMMA KeepsCpu == ASSUME NEW c, NEW d, Keeps(c, d) PROVE d \in Cpu
  BY DEF Keeps

\* The status pushes and the vector reads keep, whichever slot they hand over to.
LEMMA KeepsPushes ==
  ASSUME NEW c \in Cpu
  PROVE  /\ Keeps(c, StackPushStatusB(c))
         /\ Keeps(c, NmiPushP(c))
         /\ Keeps(c, IrqPushP(c))
<1> DEFINE f == FindActiveInterrupt(c, c.I)
           g == [f EXCEPT !.sampling_off = TRUE]
<1>1. c.I \in BOOLEAN  BY DEF Cpu
<1>2. Keeps(c, f)  BY <1>1, KeepsInterrupts
<1>3. f \in Cpu  BY <1>2, KeepsCpu
<1>4. Keeps(f, g)  BY <1>3, KeepsSampling
<1>5. Keeps(c, g) /\ g \in Cpu  BY <1>2, <1>4, KeepsTrans, KeepsCpu
<1> HIDE DEF f
<1>6. Keeps(c, StackPushStatusB(c))
  <2> DEFINE h == DropTaken(g)
  <2>1. Keeps(c, h) /\ h \in Cpu  BY <1>5, KeepsInterrupts, KeepsTrans, KeepsCpu
  <2>2. /\ Keeps(h, NextEnterServiceSlot(h, nmi, 4))
        /\ Keeps(h, NextEnterServiceSlot(h, irq, 4))
    BY <2>1, SlotsInt, KeepsMoves
  <2>3. \/ StackPushStatusB(c) = NextEnterServiceSlot(h, nmi, 4)
        \/ StackPushStatusB(c) = NextEnterServiceSlot(h, irq, 4)
        \/ StackPushStatusB(c) = g
    BY DEF StackPushStatusB, f
  <2>4. Keeps(c, NextEnterServiceSlot(h, nmi, 4))  BY <2>1, <2>2, KeepsTrans
  <2>5. Keeps(c, NextEnterServiceSlot(h, irq, 4))  BY <2>1, <2>2, KeepsTrans
  <2> QED  BY <1>5, <2>3, <2>4, <2>5
<1>7. Keeps(c, NmiPushP(c))
  <2> DEFINE h == [g EXCEPT !.nmi_edge = FALSE]
  <2>1. Keeps(c, h) /\ h \in Cpu  BY <1>5, KeepsClearing, KeepsTrans, KeepsCpu
  <2>2. Keeps(h, DropTaken(h))  BY <2>1, KeepsInterrupts
  <2>3. h = [f EXCEPT !.sampling_off = TRUE, !.nmi_edge = FALSE]  BY <1>3 DEF Cpu
  <2>4. NmiPushP(c) = DropTaken(h)  BY <2>3 DEF NmiPushP, f
  <2> QED  BY <2>1, <2>2, <2>4, KeepsTrans
<1>8. Keeps(c, IrqPushP(c))
  <2> DEFINE h == [g EXCEPT !.irq_taken = FALSE]
             k == [h EXCEPT !.nmi_taken = FALSE]
  <2>1. Keeps(c, h) /\ h \in Cpu  BY <1>5, KeepsClearing, KeepsTrans, KeepsCpu
  <2>2. Keeps(c, k) /\ k \in Cpu  BY <2>1, KeepsClearing, KeepsTrans, KeepsCpu
  <2>3. Keeps(k, NextEnterServiceSlot(k, nmi, 4))  BY <2>2, SlotsInt, KeepsMoves
  <2>4. h = [f EXCEPT !.sampling_off = TRUE, !.irq_taken = FALSE]  BY <1>3 DEF Cpu
  <2>5. IrqPushP(c) = NextEnterServiceSlot(k, nmi, 4) \/ IrqPushP(c) = h
    BY <2>4 DEF IrqPushP, f
  <2> QED  BY <2>1, <2>2, <2>3, <2>5, KeepsTrans
<1> QED  BY <1>6, <1>7, <1>8

LEMMA KeepsVectors ==
  ASSUME NEW c \in Cpu
  PROVE  /\ Keeps(c, NmosVectorLow(c))
         /\ Keeps(c, CmosNmiPushP(c))
         /\ Keeps(c, CmosVectorLow(c))
<1>1. Keeps(c, NmosVectorLow(c))
  <2>1. NmosVectorLow(c) \in Cpu  BY DEF NmosVectorLow, Cpu
  <2> QED  BY <2>1 DEF NmosVectorLow, Keeps, Cpu, Quiescent
<1>2. Keeps(c, CmosNmiPushP(c))
  <2> DEFINE d == [c EXCEPT !.nmi_edge = FALSE, !.nmi_taken = FALSE]
  <2>1. d \in Cpu  BY DEF Cpu
  <2>2. Keeps(c, d)  BY <2>1 DEF Keeps, Cpu, Quiescent
  <2>3. Keeps(d, UpdateNmiLastSampled(d))  BY <2>1, KeepsInterrupts
  <2> QED  BY <2>2, <2>3, KeepsTrans DEF CmosNmiPushP
<1>3. Keeps(c, CmosVectorLow(c))
  <2> DEFINE d == [c EXCEPT !.I = TRUE, !.D = FALSE, !.nmi_edge = FALSE]
  <2>1. d \in Cpu  BY DEF Cpu
  <2>2. Keeps(c, d)  BY <2>1 DEF Keeps, Cpu, Quiescent
  <2>3. Keeps(d, UpdateNmiLastSampled(d))  BY <2>1, KeepsInterrupts
  <2> QED  BY <2>2, <2>3, KeepsTrans DEF CmosVectorLow
<1> QED  BY <1>1, <1>2, <1>3

-----------------------------------------------------------------------------
\* An outcome of the cpu c that keeps.
Good(c, o) == o \in Outcome /\ Keeps(c, o.cpu)

LEMMA GoodBus ==
  ASSUME NEW c, NEW h, NEW d, Keeps(c, d) PROVE Good(c, Bus(h, d))
<1>1. d \in Cpu  BY KeepsCpu
<1>2. Bus(h, d).tick \in TickResult  BY DEF Bus, StatusOf, TickResult
<1>3. Bus(h, d) \in Outcome  BY <1>1, <1>2 DEF Bus, Outcome
<1>4. Bus(h, d).cpu = d  BY DEF Bus
<1> QED  BY <1>3, <1>4 DEF Good

LEMMA GoodPrefetch ==
  ASSUME NEW c, NEW o, Good(c, o) PROVE Good(c, Prefetch(o))
<1>1. o \in Outcome /\ o.cpu \in Cpu /\ o.tick \in TickResult  BY DEF Good, Outcome
<1> DEFINE p == [o.cpu EXCEPT !.sampling = TRUE]
           t == [o.tick EXCEPT !.polled = TRUE]
<1>2. Prefetch(o) = [cpu |-> p, tick |-> t]  BY DEF Prefetch
<1>3. Keeps(o.cpu, p)  BY <1>1, KeepsSampling
<1>4. p \in Cpu  BY <1>3, KeepsCpu
<1>5. t \in TickResult  BY <1>1 DEF TickResult
<1>6. Keeps(c, p)  BY <1>3, KeepsTrans DEF Good
<1> HIDE DEF p, t
<1>7. Prefetch(o) \in Outcome /\ Prefetch(o).cpu = p  BY <1>2, <1>4, <1>5 DEF Outcome
<1> QED  BY <1>6, <1>7 DEF Good

LEMMA GoodJam ==
  ASSUME NEW c, NEW o, Good(c, o) PROVE Good(c, [o EXCEPT !.tick.status = "jammed"])
<1>1. o \in Outcome /\ o.cpu \in Cpu /\ o.tick \in TickResult  BY DEF Good, Outcome
<1> DEFINE t == [o.tick EXCEPT !.status = "jammed"]
<1>2. t \in TickResult
  <2>1. o.tick \in TickResult  BY <1>1
  <2>2. "jammed" \in {"read", "write", "fetch", "jammed"}  OBVIOUS
  <2> QED  BY <2>1, <2>2 DEF TickResult
<1>3. [o EXCEPT !.tick.status = "jammed"] = [cpu |-> o.cpu, tick |-> t]  BY <1>1 DEF Outcome
<1> HIDE DEF t
<1> QED  BY <1>1, <1>2, <1>3 DEF Good, Outcome

LEMMA GoodReset ==
  ASSUME NEW c \in Cpu, NEW h PROVE Good(c, InternalReset(h, c))
<1> DEFINE d == [c EXCEPT !.latch_data = (@ + 1) % 256]
<1>1. (c.latch_data + 1) % 256 \in 0..255  BY DEF Cpu
<1>2. d \in Cpu  BY <1>1 DEF Cpu
<1>3. Keeps(c, d)  BY <1>2 DEF Keeps, Cpu, Quiescent
<1> HIDE DEF d
<1>4. Keeps(d, NextEnterServiceSlot(d, reset_0, 0)) /\ Keeps(d, LoopHere(d))
  BY <1>2, SlotsInt, KeepsMoves, KeepsLoopHere
<1>5. Keeps(c, NextEnterServiceSlot(d, reset_0, 0))  BY <1>3, <1>4, KeepsTrans
<1>6. Keeps(c, LoopHere(d))  BY <1>3, <1>4, KeepsTrans
<1>7. /\ Good(c, Bus(h, NextEnterServiceSlot(d, reset_0, 0)))
      /\ Good(c, Bus(h, LoopHere(d)))
  BY <1>5, <1>6, GoodBus
<1>8. \/ InternalReset(h, c) = Bus(h, NextEnterServiceSlot(d, reset_0, 0))
      \/ InternalReset(h, c) = Bus(h, LoopHere(d))
  BY DEF InternalReset, d
<1> QED  BY <1>7, <1>8

LEMMA GoodSkip ==
  ASSUME NEW c \in Cpu, NEW h, NEW n \in Int
  PROVE  /\ Good(c, Bus(h, c)) /\ Good(c, Prefetch(Bus(h, c)))
         /\ Good(c, Bus(h, Skip(c, n))) /\ Good(c, Prefetch(Bus(h, Skip(c, n))))
<1>1. Keeps(c, c) /\ Keeps(c, Skip(c, n))  BY KeepsRefl, KeepsSkip
<1>2. Good(c, Bus(h, c)) /\ Good(c, Bus(h, Skip(c, n)))  BY <1>1, GoodBus
<1> QED  BY <1>2, GoodPrefetch

\* The arms of Effect, without their handlers.
LEMMA EffectArms ==
  ASSUME NEW h, NEW c, NEW o \in Effect(h, c)
  PROVE  \/ o \in {Bus(h, c)}
         \/ o \in {Prefetch(Bus(h, c))}
         \/ o \in {IF c.D THEN Bus(h, c) ELSE Prefetch(Bus(h, c))}
         \/ o \in Probe(h, c, Prefetch(Bus(h, Skip(c, 1))))
         \/ o \in Probe(h, c, IF c.D THEN Bus(h, Skip(c, 1)) ELSE Prefetch(Bus(h, Skip(c, 1))))
         \/ o \in Probe(h, c, Bus(h, Skip(c, 1)))
         \/ o \in {Prefetch(Bus(h, c)), Prefetch(Bus(h, Skip(c, 2)))}
         \/ o \in {Bus(h, c), Bus(h, Skip(c, 1))}
         \/ o \in {FetchOrDecimalDummy(h, c)}
         \/ o \in {Bus(h, NextEnterServiceSlot(c, illegal_ext, 0))}
         \/ o \in {Prefetch(Bus(h, [c EXCEPT !.I = FALSE]))}
         \/ o \in {Prefetch(Bus(h, [c EXCEPT !.I = TRUE]))}
         \/ o \in {Prefetch(Bus(h, [c EXCEPT !.D = FALSE]))}
         \/ o \in {Prefetch(Bus(h, [c EXCEPT !.D = TRUE]))}
         \/ o \in {Bus(h, d) : d \in PulledStatus(c)}
         \/ o \in {[Bus(h, LoopHere(c)) EXCEPT !.tick.status = "jammed"]}
         \/ o \in {InternalReset(h, c)}
         \/ o \in {Bus(h, [c EXCEPT !.I = TRUE])}
         \/ o \in {Bus(h, StackPushStatusB(c))}
         \/ o \in {Bus(h, NmosVectorLow(c))}
         \/ o \in {Bus(h, UpdateNmiLastSampled(NmosVectorLow(c)))}
         \/ o \in {Bus(h, [c EXCEPT !.I = TRUE, !.D = FALSE])}
         \/ o \in {Bus(h, CmosVectorLow(c))}
         \/ o \in {Bus(h, NmiPushP(c))}
         \/ o \in {Bus(h, IrqPushP(c))}
         \/ o \in {Bus(h, CmosNmiPushP(c))}
         \/ o \in {Bus(h, [c EXCEPT !.irq_taken = FALSE])}
  BY DEF Effect

\* Every handler keeps, whatever it is and wherever it stands in the control store.
LEMMA EffectGood ==
  ASSUME NEW c \in Cpu, NEW h, NEW o \in Effect(h, c) PROVE Good(c, o)
<1>1. Keeps(c, c)  BY KeepsRefl
<1>2. /\ Good(c, Bus(h, c)) /\ Good(c, Prefetch(Bus(h, c)))
      /\ Good(c, Bus(h, Skip(c, 1))) /\ Good(c, Prefetch(Bus(h, Skip(c, 1))))
      /\ Good(c, Prefetch(Bus(h, Skip(c, 2))))
  BY GoodSkip
<1>3. ASSUME NEW n, Good(c, n), NEW p \in Probe(h, c, n) PROVE Good(c, p)
  BY <1>2, <1>3 DEF Probe
<1>4. Good(c, FetchOrDecimalDummy(h, c))
  <2>1. Good(c, Bus("fetch", Skip(c, 1)))  BY GoodSkip
  <2> QED  BY <1>2, <2>1 DEF FetchOrDecimalDummy
<1>5. /\ Good(c, Bus(h, NextEnterServiceSlot(c, illegal_ext, 0)))
      /\ Good(c, Bus(h, LoopHere(c)))
  <2>1. illegal_ext \in Int  BY SlotsInt
  <2>2. Keeps(c, NextEnterServiceSlot(c, illegal_ext, 0))  BY <2>1, KeepsMoves
  <2>3. Keeps(c, LoopHere(c))  BY KeepsLoopHere
  <2> QED  BY <2>2, <2>3, GoodBus
<1>6. ASSUME NEW b \in BOOLEAN
      PROVE  /\ Good(c, Bus(h, [c EXCEPT !.I = b]))
             /\ Good(c, Prefetch(Bus(h, [c EXCEPT !.I = b])))
             /\ Good(c, Prefetch(Bus(h, [c EXCEPT !.D = b])))
  <2>1. Keeps(c, [c EXCEPT !.I = b]) /\ Keeps(c, [c EXCEPT !.D = b])  BY KeepsFlags
  <2>2. Good(c, Bus(h, [c EXCEPT !.I = b])) /\ Good(c, Bus(h, [c EXCEPT !.D = b]))
    BY <2>1, GoodBus
  <2> QED  BY <2>2, GoodPrefetch
<1>7. ASSUME NEW i \in BOOLEAN, NEW d \in BOOLEAN PROVE Good(c, Bus(h, [c EXCEPT !.I = i, !.D = d]))
  <2>1. Keeps(c, [c EXCEPT !.I = i, !.D = d])  BY KeepsFlags
  <2> QED  BY <2>1, GoodBus
<1>8. ASSUME NEW d \in PulledStatus(c) PROVE Good(c, Bus(h, d))
  <2>1. PICK p \in [I : BOOLEAN, D : BOOLEAN] : d = [c EXCEPT !.I = p.I, !.D = p.D]
    BY DEF PulledStatus
  <2> QED  BY <1>7, <2>1
<1>9. Good(c, [Bus(h, LoopHere(c)) EXCEPT !.tick.status = "jammed"])  BY <1>5, GoodJam
<1>10. Good(c, InternalReset(h, c))  BY GoodReset
<1>11. /\ Good(c, Bus(h, StackPushStatusB(c)))
       /\ Good(c, Bus(h, NmiPushP(c)))
       /\ Good(c, Bus(h, IrqPushP(c)))
  BY KeepsPushes, GoodBus
<1>12. /\ Good(c, Bus(h, NmosVectorLow(c)))
       /\ Good(c, Bus(h, CmosVectorLow(c)))
       /\ Good(c, Bus(h, CmosNmiPushP(c)))
  BY KeepsVectors, GoodBus
<1>13. Good(c, Bus(h, UpdateNmiLastSampled(NmosVectorLow(c))))
  <2>1. Keeps(c, NmosVectorLow(c)) /\ NmosVectorLow(c) \in Cpu  BY KeepsVectors, KeepsCpu
  <2>2. Keeps(NmosVectorLow(c), UpdateNmiLastSampled(NmosVectorLow(c)))
    BY <2>1, KeepsInterrupts
  <2>3. Keeps(c, UpdateNmiLastSampled(NmosVectorLow(c)))  BY <2>1, <2>2, KeepsTrans
  <2> QED  BY <2>3, GoodBus
<1>14. Good(c, Bus(h, [c EXCEPT !.irq_taken = FALSE]))
  <2>1. Keeps(c, [c EXCEPT !.irq_taken = FALSE])  BY KeepsClearing
  <2> QED  BY <2>1, GoodBus
<1>15. /\ Good(c, Bus(h, [c EXCEPT !.I = TRUE]))
       /\ Good(c, Prefetch(Bus(h, [c EXCEPT !.I = FALSE])))
       /\ Good(c, Prefetch(Bus(h, [c EXCEPT !.I = TRUE])))
       /\ Good(c, Prefetch(Bus(h, [c EXCEPT !.D = FALSE])))
       /\ Good(c, Prefetch(Bus(h, [c EXCEPT !.D = TRUE])))
       /\ Good(c, Bus(h, [c EXCEPT !.I = TRUE, !.D = FALSE]))
  BY <1>6, <1>7
<1>16. CASE \/ o \in Probe(h, c, Prefetch(Bus(h, Skip(c, 1))))
            \/ o \in Probe(h, c, IF c.D THEN Bus(h, Skip(c, 1)) ELSE Prefetch(Bus(h, Skip(c, 1))))
            \/ o \in Probe(h, c, Bus(h, Skip(c, 1)))
  BY <1>2, <1>3, <1>16
<1>17. CASE \/ o \in {Bus(h, c)}
            \/ o \in {Prefetch(Bus(h, c))}
            \/ o \in {IF c.D THEN Bus(h, c) ELSE Prefetch(Bus(h, c))}
            \/ o \in {Prefetch(Bus(h, c)), Prefetch(Bus(h, Skip(c, 2)))}
            \/ o \in {Bus(h, c), Bus(h, Skip(c, 1))}
  BY <1>2, <1>17
<1>18. CASE o \in {Bus(h, d) : d \in PulledStatus(c)}
  BY <1>8, <1>18
<1> QED
  BY <1>4, <1>5, <1>9, <1>10, <1>11, <1>12, <1>13, <1>14, <1>15, <1>16, <1>17, <1>18, EffectArms

LEMMA OutcomesGood ==
  ASSUME NEW c \in Cpu, NEW o \in Outcomes(c) PROVE Good(c, o)
<1>1. CASE Store[c.microcode] = "dispatch"
  <2>1. PICK opcode \in Opcodes : o \in Dispatch(c, opcode)  BY <1>1 DEF Outcomes
  <2> DEFINE d == EnterServiceSlot(c, opcode, 0)
  <2>2. opcode \in Int  BY IndexAssumption DEF IndexAssumption
  <2>3. Keeps(c, d) /\ d \in Cpu  BY <2>2, KeepsMoves, KeepsCpu
  <2>4. o \in Effect(Store[d.microcode], d)  BY <2>1 DEF Dispatch, EnterServiceSlot
  <2> HIDE DEF d
  <2>5. Good(d, o)  BY <2>3, <2>4, EffectGood
  <2> QED  BY <2>3, <2>5, KeepsTrans DEF Good
<1>2. CASE Store[c.microcode] # "dispatch"
  BY <1>2, EffectGood DEF Outcomes
<1> QED  BY <1>1, <1>2

-----------------------------------------------------------------------------
\* What holds of the cpu between any two calls: FastPathIdle, NoStalePoll and OneTaken together.
\* They are carried together, so that one pass over the handlers serves all three. The fast path
\* stays quiescent because no handler can disturb quiescence, and the resolver consumes every poll
\* because none was pending before.
Sound(c) ==
  /\ c \in Cpu
  /\ ~c.service_mode => Quiescent(c)
  /\ c.service_mode => ~c.sampling
  /\ ~(c.nmi_taken /\ c.irq_taken)

SoundInv == Sound(cpu) /\ tick \in TickResult

LEMMA OutcomeWith ==
  ASSUME NEW o \in Outcome, NEW d \in Cpu
  PROVE  [o EXCEPT !.cpu = d] \in Outcome /\ [o EXCEPT !.cpu = d].cpu = d
  BY DEF Outcome

LEMMA AdvanceGood ==
  ASSUME NEW c, NEW o, Good(c, o) PROVE Good(c, Advance(o))
<1>1. o \in Outcome /\ o.cpu \in Cpu  BY DEF Good, Outcome
<1>2. Keeps(o.cpu, Skip(o.cpu, 1))  BY <1>1, KeepsSkip
<1>3. Keeps(c, Skip(o.cpu, 1))  BY <1>2, KeepsTrans DEF Good
<1>4. Skip(o.cpu, 1) \in Cpu  BY <1>2, KeepsCpu
<1> QED  BY <1>1, <1>3, <1>4, OutcomeWith DEF Advance, Good

\* The exit from service mode is sound.
LEMMA SettleSound ==
  ASSUME NEW o \in Outcome, o.cpu.service_mode, ~o.cpu.sampling,
         ~(o.cpu.nmi_taken /\ o.cpu.irq_taken)
  PROVE  Settle(o) \in Outcome /\ Sound(Settle(o).cpu)
<1>1. o.cpu \in Cpu /\ o.tick \in TickResult  BY DEF Outcome
<1>2. CASE Quiescent(o.cpu)
  <2> DEFINE d == [o.cpu EXCEPT !.service_mode = FALSE]
  <2>1. d \in Cpu  BY <1>1 DEF Cpu
  <2>2. Quiescent(d)  BY <1>1, <1>2 DEF Cpu, Quiescent
  <2>3. ~d.service_mode  BY <1>1 DEF Cpu
  <2>4. Sound(d)  BY <2>1, <2>2, <2>3 DEF Sound, Quiescent
  <2> HIDE DEF d
  <2>5. Settle(o) = [o EXCEPT !.cpu = d]  BY <1>2 DEF Settle, d
  <2> QED  BY <2>1, <2>4, <2>5, OutcomeWith
<1>3. CASE ~Quiescent(o.cpu)
  BY <1>1, <1>3 DEF Settle, Sound
<1> QED  BY <1>2, <1>3

LEMMA ResolveSound ==
  ASSUME NEW c, c.service_mode = TRUE, ~(c.nmi_taken /\ c.irq_taken), NEW o, Good(c, o),
         NEW i \in BOOLEAN
  PROVE  Resolve(o, i) \in Outcome /\ Sound(Resolve(o, i).cpu)
<1>1. /\ o \in Outcome /\ o.cpu \in Cpu
      /\ o.cpu.service_mode = TRUE /\ ~(o.cpu.nmi_taken /\ o.cpu.irq_taken)
  BY DEF Good, Outcome, Keeps
<1>2. CASE o.cpu.sampling
  <2> DEFINE d == [o.cpu EXCEPT !.sampling = FALSE]
             f == FindActiveInterrupt(d, i)
  <2>1. Keeps(o.cpu, d) /\ d \in Cpu  BY <1>1, KeepsSampling, KeepsCpu
  <2>2. Keeps(d, f)  BY <2>1, KeepsInterrupts
  <2>3. f \in Cpu  BY <2>2, KeepsCpu
  <2>4. f.service_mode = TRUE /\ ~(f.nmi_taken /\ f.irq_taken)
    BY <1>1, <2>1, <2>2 DEF Keeps
  <2>5. ~d.sampling  BY <1>1 DEF Cpu
  <2> HIDE DEF d
  <2>6. ~f.sampling  BY <2>1, <2>5 DEF FindActiveInterrupt, Cpu
  <2>7. Resolve(o, i) = Settle([o EXCEPT !.cpu = f])  BY <1>2 DEF Resolve, d
  <2> HIDE DEF f
  <2> DEFINE p == [o EXCEPT !.cpu = f]
  <2>8. p \in Outcome /\ p.cpu = f  BY <1>1, <2>3, OutcomeWith
  <2> HIDE DEF p
  <2>9. Settle(p) \in Outcome /\ Sound(Settle(p).cpu)  BY <2>4, <2>6, <2>8, SettleSound
  <2> QED  BY <2>7, <2>9 DEF p
<1>3. CASE ~o.cpu.sampling /\ o.tick.status = "fetch" /\ (o.cpu.nmi_taken \/ o.cpu.irq_taken)
  <2> DEFINE d == DropTaken(o.cpu)
             slot == IF o.cpu.nmi_taken THEN nmi ELSE irq
             e == EnterServiceSlot(d, slot, 0)
  <2>1. Keeps(o.cpu, d) /\ d \in Cpu  BY <1>1, KeepsInterrupts, KeepsCpu
  <2>2. ~d.sampling  BY <1>1, <1>3 DEF DropTaken, Cpu
  <2>3. slot \in Int  BY SlotsInt
  <2> HIDE DEF d, slot
  <2>4. Keeps(d, e)  BY <2>1, <2>3, KeepsMoves
  <2>5. e \in Cpu  BY <2>4, KeepsCpu
  <2>6. ~e.sampling  BY <2>1, <2>2 DEF EnterServiceSlot, Cpu
  <2>7. e.service_mode = TRUE /\ ~(e.nmi_taken /\ e.irq_taken)
    BY <1>1, <2>1, <2>4 DEF Keeps
  <2>8. Resolve(o, i) = [o EXCEPT !.cpu = e]  BY <1>3 DEF Resolve, d, slot
  <2> HIDE DEF e
  <2>9. Sound(e)  BY <2>5, <2>6, <2>7 DEF Sound
  <2> QED  BY <1>1, <2>5, <2>8, <2>9, OutcomeWith
<1>4. CASE ~o.cpu.sampling /\ ~(o.tick.status = "fetch" /\ (o.cpu.nmi_taken \/ o.cpu.irq_taken))
  <2>1. Resolve(o, i) = Settle(o)  BY <1>4 DEF Resolve
  <2> QED  BY <1>1, <1>4, <2>1, SettleSound
<1> QED  BY <1>2, <1>3, <1>4

\* A tick in either mode, the one qe6502_goto runs included, leaves the cpu sound.
LEMMA TickSound ==
  ASSUME NEW c, Sound(c), NEW o \in TickOutcomes(c)
  PROVE  o \in Outcome /\ Sound(o.cpu)
<1>1. c \in Cpu /\ c.service_mode \in BOOLEAN /\ c.I \in BOOLEAN  BY DEF Sound, Cpu
<1>2. CASE c.service_mode
  <2> DEFINE d == IF c.sampling_off THEN c ELSE SampleNmi(c)
  <2>1. Keeps(c, d) /\ d \in Cpu  BY <1>1, KeepsRefl, KeepsInterrupts, KeepsCpu
  <2>2. PICK p \in Outcomes(d) : o = Resolve(Advance(p), c.I)
    BY <1>2 DEF TickOutcomes, InterruptResolver
  <2> HIDE DEF d
  <2>3. Good(d, Advance(p))  BY <2>1, <2>2, OutcomesGood, AdvanceGood
  <2>4. d.service_mode = TRUE /\ ~(d.nmi_taken /\ d.irq_taken)
    BY <1>1, <1>2, <2>1 DEF Keeps, Sound
  <2> QED  BY <1>1, <2>2, <2>3, <2>4, ResolveSound
<1>3. CASE ~c.service_mode
  <2>1. PICK p \in Outcomes(c) : o = Advance(p)  BY <1>3 DEF TickOutcomes, FastPath
  <2>2. Good(c, o)  BY <1>1, <2>1, OutcomesGood, AdvanceGood
  <2>3. ~o.cpu.service_mode /\ Quiescent(o.cpu) /\ ~(o.cpu.nmi_taken /\ o.cpu.irq_taken)
    BY <1>3, <2>2 DEF Good, Keeps, Sound
  <2> QED  BY <2>2, <2>3 DEF Good, Keeps, Sound
<1> QED  BY <1>1, <1>2, <1>3

LEMMA GotoSound ==
  ASSUME NEW c, Sound(c), NEW o \in GotoOutcomes(c)
  PROVE  o \in Outcome /\ Sound(o.cpu)
<1> DEFINE d == EnterServiceSlot(c, goto, 0)
<1>1. c \in Cpu  BY DEF Sound
<1>2. goto \in Int  BY SlotsInt
<1>3. Keeps(c, d) /\ d \in Cpu  BY <1>1, <1>2, KeepsMoves, KeepsCpu
<1>4. d.sampling = c.sampling  BY <1>1 DEF EnterServiceSlot, Cpu
<1> HIDE DEF d
<1>5. Sound(d)  BY <1>3, <1>4 DEF Sound, Keeps
<1> QED  BY <1>5, TickSound DEF GotoOutcomes, d

LEMMA SetupSound == ASSUME NEW model \in Models PROVE Sound(Setup(model))
<1>1. 0 \in 0..255 /\ 0 \in Int  OBVIOUS
<1>2. Setup(model) \in Cpu  BY <1>1 DEF Setup, Cpu
<1> QED  BY <1>2 DEF Sound, Setup, Quiescent

LEMMA RestartSound ==
  ASSUME NEW c, c.model \in Models
  PROVE  RestartOutcome(c) \in Outcome /\ Sound(RestartOutcome(c).cpu)
<1> DEFINE s == Setup(c.model)
           d == EnterServiceSlot(s, internal_reset, 0)
<1>1. Sound(s) /\ s \in Cpu  BY SetupSound DEF Sound
<1>2. internal_reset \in Int  BY SlotsInt
<1> HIDE DEF s
<1>3. Keeps(s, d) /\ d \in Cpu  BY <1>1, <1>2, KeepsMoves, KeepsCpu
<1>4. d.sampling = s.sampling  BY <1>1 DEF EnterServiceSlot, Cpu
<1> HIDE DEF d
<1>5. Sound(d)  BY <1>1, <1>3, <1>4 DEF Sound, Keeps
<1>6. Good(s, Bus("restart", d))  BY <1>3, GoodBus
<1>7. Bus("restart", d).cpu = d  BY DEF Bus
<1> QED  BY <1>5, <1>6, <1>7 DEF RestartOutcome, Good, s, d

-----------------------------------------------------------------------------
LEMMA InitSound == Init => SoundInv
<1> SUFFICES ASSUME Init PROVE SoundInv  OBVIOUS
<1>1. PICK model \in Models :
        \E o \in {RestartOutcome(Setup(model))} \cup GotoOutcomes(Setup(model)) :
          cpu = o.cpu /\ tick = o.tick
  BY DEF Init
<1>2. PICK o \in {RestartOutcome(Setup(model))} \cup GotoOutcomes(Setup(model)) :
        cpu = o.cpu /\ tick = o.tick
  BY <1>1
<1>3. Sound(Setup(model))  BY SetupSound
<1>4. Setup(model).model \in Models  BY DEF Setup
<1>5. o \in Outcome /\ Sound(o.cpu)  BY <1>2, <1>3, <1>4, GotoSound, RestartSound
<1> QED  BY <1>2, <1>5 DEF SoundInv, Outcome

LEMMA StepSound == SoundInv /\ [Next]_vars => SoundInv'
<1> SUFFICES ASSUME SoundInv, [Next]_vars PROVE SoundInv'  OBVIOUS
<1>1. Sound(cpu) /\ cpu \in Cpu /\ tick \in TickResult  BY DEF SoundInv, Sound
<1>2. ASSUME NEW o \in Outcome, Sound(o.cpu), Becomes(o) PROVE SoundInv'
  BY <1>2 DEF SoundInv, Becomes, Outcome, Sound
<1>3. CASE Tick
  BY <1>1, <1>2, <1>3, TickSound DEF Tick
<1>4. CASE Restart
  <2>1. cpu.model \in Models  BY <1>1 DEF Cpu
  <2> QED  BY <1>2, <1>4, <2>1, RestartSound DEF Restart
<1>5. CASE Goto
  BY <1>1, <1>2, <1>5, GotoSound DEF Goto
<1>6. ASSUME NEW level \in BOOLEAN, NmiAssert(level) PROVE SoundInv'
  <2> DEFINE mode == cpu.service_mode \/ cpu.nmi_pin # level
             d == [cpu EXCEPT !.sampling = FALSE, !.nmi_pin = level, !.service_mode = mode]
  <2>1. cpu' = d /\ tick' = tick  BY <1>6 DEF NmiAssert
  <2>2. mode \in BOOLEAN  BY <1>1 DEF Cpu
  <2>3. ~mode => Quiescent(cpu) /\ cpu.nmi_pin = level
    BY <1>1 DEF Cpu, Sound
  <2> HIDE DEF mode
  <2>4. PICK b \in BOOLEAN : b = mode  BY <2>2
  <2> DEFINE e == [cpu EXCEPT !.sampling = FALSE, !.nmi_pin = level, !.service_mode = b]
  <2>5. e \in Cpu  BY <1>1 DEF Cpu
  <2>6. ~e.sampling /\ ~(e.nmi_taken /\ e.irq_taken)  BY <1>1 DEF Cpu, Sound
  <2>7. ~e.service_mode => ~b  BY <1>1 DEF Cpu
  <2>8. ~b => Quiescent(e)  BY <1>1, <2>3, <2>4 DEF Cpu, Quiescent
  <2>9. e = d  BY <2>4
  <2> HIDE DEF d, e
  <2>10. Sound(e)  BY <2>5, <2>6, <2>7, <2>8 DEF Sound
  <2> QED  BY <1>1, <2>1, <2>9, <2>10 DEF SoundInv, Sound, Quiescent
<1>7. ASSUME NEW level \in BOOLEAN, IrqAssert(level) PROVE SoundInv'
  <2> DEFINE mode == cpu.service_mode \/ level
             d == [cpu EXCEPT !.sampling = FALSE, !.irq_pin = level, !.service_mode = mode]
  <2>1. cpu' = d /\ tick' = tick  BY <1>7 DEF IrqAssert
  <2>2. mode \in BOOLEAN  BY <1>1 DEF Cpu
  <2>3. ~mode => Quiescent(cpu) /\ ~level
    BY <1>1 DEF Cpu, Sound
  <2> HIDE DEF mode
  <2>4. PICK b \in BOOLEAN : b = mode  BY <2>2
  <2> DEFINE e == [cpu EXCEPT !.sampling = FALSE, !.irq_pin = level, !.service_mode = b]
  <2>5. e \in Cpu  BY <1>1 DEF Cpu
  <2>6. ~e.sampling /\ ~(e.nmi_taken /\ e.irq_taken)  BY <1>1 DEF Cpu, Sound
  <2>7. ~e.service_mode => ~b  BY <1>1 DEF Cpu
  <2>8. ~b => Quiescent(e)  BY <1>1, <2>3, <2>4 DEF Cpu, Quiescent
  <2>9. e = d  BY <2>4
  <2> HIDE DEF d, e
  <2>10. Sound(e)  BY <2>5, <2>6, <2>7, <2>8 DEF Sound
  <2> QED  BY <1>1, <2>1, <2>9, <2>10 DEF SoundInv, Sound, Quiescent
<1>8. ASSUME NEW model \in Models, SetModel(model) PROVE SoundInv'
  <2> DEFINE d == [cpu EXCEPT !.model = model]
  <2>1. cpu' = d /\ tick' = tick  BY <1>8 DEF SetModel
  <2>2. d \in Cpu  BY <1>1 DEF Cpu
  <2>3. Sound(d)  BY <1>1, <2>2 DEF Sound, Quiescent, Cpu
  <2> HIDE DEF d
  <2> QED  BY <1>1, <2>1, <2>3 DEF SoundInv, Sound, Quiescent
<1>9. ASSUME NEW i \in BOOLEAN, NEW f \in BOOLEAN, SetP(i, f) PROVE SoundInv'
  <2> DEFINE d == [cpu EXCEPT !.I = i, !.D = f]
  <2>1. cpu' = d /\ tick' = tick  BY <1>9 DEF SetP
  <2>2. d \in Cpu  BY <1>1 DEF Cpu
  <2>3. Sound(d)  BY <1>1, <2>2 DEF Sound, Quiescent, Cpu
  <2> HIDE DEF d
  <2> QED  BY <1>1, <2>1, <2>3 DEF SoundInv, Sound, Quiescent
<1>10. CASE UNCHANGED vars
  BY <1>10 DEF vars, SoundInv, Sound, Quiescent
<1> QED
  BY <1>3, <1>4, <1>5, <1>6, <1>7, <1>8, <1>9, <1>10 DEF Next, HostStep

\* The inductive invariant holds in every reachable state: whatever the host calls between ticks,
\* the interrupt unit stays typed, exclusive, free of stale polls and quiescent off service mode.
THEOREM SoundAlways == Spec => []SoundInv
  BY InitSound, StepSound, PTL DEF Spec

\* The context and the tick result stay well formed under every call sequence.
THEOREM TypeCorrect == Spec => []TypeOK
<1>1. SoundInv => TypeOK  BY DEF SoundInv, Sound, TypeOK
<1> QED  BY <1>1, SoundAlways, PTL

\* Whatever the control store holds and whatever the host calls between ticks, the resolver has
\* nothing to do while it is skipped.
THEOREM FastPathIdleAlways == Spec => []FastPathIdle
<1>1. SoundInv => FastPathIdle  BY DEF SoundInv, Sound, FastPathIdle
<1> QED  BY <1>1, SoundAlways, PTL

\* No poll is left from the fast path when a pin wakes the resolver.
THEOREM NoStalePollAlways == Spec => []NoStalePoll
<1>1. SoundInv => NoStalePoll  BY DEF SoundInv, Sound, NoStalePoll
<1> QED  BY <1>1, SoundAlways, PTL

\* An NMI and an IRQ are never chosen at once.
THEOREM OneTakenAlways == Spec => []OneTaken
<1>1. SoundInv => OneTaken  BY DEF SoundInv, Sound, OneTaken
<1> QED  BY <1>1, SoundAlways, PTL

=============================================================================
