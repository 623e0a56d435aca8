---------------------------- MODULE FastPathProofs ----------------------------
(***************************************************************************)
(* The fast path is transparent, for every control store: as long as the   *)
(* edge detector is in step with the NMI line whenever the core is outside *)
(* service mode, each of its steps is one of the processor that is always  *)
(* in service mode; and a core that never stops sampling NMI keeps its     *)
(* detector in step.                                                       *)
(*                                                                         *)
(* Two contexts are Alike if they differ in service_mode and sampling only. *)
(* Every handler takes alike contexts to alike contexts (EffectTwins), and *)
(* on a quiescent context in step with the line the resolver adds nothing  *)
(* to the handler that shows (ResolveIdle).                                *)
(***************************************************************************)
EXTENDS FastPath, Qe6502CoreProofs

Served(c) == [c EXCEPT !.service_mode = TRUE, !.sampling = FALSE]

Alike(c, e) ==
  /\ c \in Cpu /\ e \in Cpu
  /\ c.model = e.model /\ c.microcode = e.microcode /\ c.latch_data = e.latch_data
  /\ c.I = e.I /\ c.D = e.D /\ c.sampling_off = e.sampling_off
  /\ c.nmi_pin = e.nmi_pin /\ c.nmi_last = e.nmi_last
  /\ c.nmi_edge = e.nmi_edge /\ c.nmi_taken = e.nmi_taken
  /\ c.irq_pin = e.irq_pin /\ c.irq_taken = e.irq_taken

Twins(o, p) == o \in Outcome /\ p \in Outcome /\ o.tick = p.tick /\ Alike(o.cpu, p.cpu)

-----------------------------------------------------------------------------
\* Being alike is being equal but for the two fields.
LEMMA AlikeServed ==
  ASSUME NEW c \in Cpu
  PROVE  Served(c) \in Cpu /\ Alike(c, Served(c)) /\ Served(c).service_mode = TRUE
<1>1. Served(c) \in Cpu  BY DEF Served, Cpu
<1> QED  BY <1>1 DEF Alike, Served, Cpu

LEMMA ServedAlike == ASSUME NEW c, NEW e, Alike(c, e) PROVE Served(c) = Served(e)
  BY DEF Alike, Served, Cpu

\* Alike contexts stay alike through everything that handlers are made of.
LEMMA AlikeMoves ==
  ASSUME NEW c, NEW e, Alike(c, e), NEW slot \in Int, NEW n \in Int
  PROVE  /\ Alike(EnterServiceSlot(c, slot, n), EnterServiceSlot(e, slot, n))
         /\ Alike(NextEnterServiceSlot(c, slot, n), NextEnterServiceSlot(e, slot, n))
         /\ Alike(LoopHere(c), LoopHere(e))
         /\ Alike(Skip(c, n), Skip(e, n))
<1>1. c \in Cpu /\ e \in Cpu /\ c.model = e.model /\ c.microcode = e.microcode  BY DEF Alike
<1>2. ASSUME NEW k \in Int PROVE Alike([c EXCEPT !.microcode = k], [e EXCEPT !.microcode = k])
  BY DEF Alike, Cpu
<1>3. IDX(c.model, slot, n) \in Int /\ IDX(e.model, slot, n) = IDX(c.model, slot, n)
  BY <1>1, IndexInt
<1>4. c.microcode \in Int  BY <1>1 DEF Cpu
<1>5. Alike(EnterServiceSlot(c, slot, n), EnterServiceSlot(e, slot, n))
  BY <1>2, <1>3 DEF EnterServiceSlot
<1>6. IDX(c.model, slot, n) - 1 \in Int  BY <1>3
<1>7. Alike(NextEnterServiceSlot(c, slot, n), NextEnterServiceSlot(e, slot, n))
  BY <1>2, <1>3, <1>6 DEF NextEnterServiceSlot
<1>8. c.microcode - 1 \in Int /\ c.microcode + n \in Int  BY <1>4
<1> QED  BY <1>1, <1>2, <1>5, <1>7, <1>8 DEF LoopHere, Skip

LEMMA AlikeFlags ==
  ASSUME NEW c, NEW e, Alike(c, e), NEW i \in BOOLEAN, NEW d \in BOOLEAN
  PROVE  /\ Alike([c EXCEPT !.I = i], [e EXCEPT !.I = i])
         /\ Alike([c EXCEPT !.D = d], [e EXCEPT !.D = d])
         /\ Alike([c EXCEPT !.I = i, !.D = d], [e EXCEPT !.I = i, !.D = d])
<1>1. Alike([c EXCEPT !.I = i], [e EXCEPT !.I = i])  BY DEF Alike, Cpu
<1>2. ASSUME NEW x, NEW y, Alike(x, y) PROVE Alike([x EXCEPT !.D = d], [y EXCEPT !.D = d])
  BY <1>2 DEF Alike, Cpu
<1>3. Alike([c EXCEPT !.I = i, !.D = d], [e EXCEPT !.I = i, !.D = d])
  <2> DEFINE masked(x) == [x EXCEPT !.I = i]
  <2>1. Alike([masked(c) EXCEPT !.D = d], [masked(e) EXCEPT !.D = d])  BY <1>1, <1>2
  <2>2. \A x : [masked(x) EXCEPT !.D = d] = [x EXCEPT !.I = i, !.D = d]  OBVIOUS
  <2> QED  BY <2>1, <2>2
<1> QED  BY <1>1, <1>2, <1>3

LEMMA AlikeBits ==
  ASSUME NEW c, NEW e, Alike(c, e), NEW b \in BOOLEAN
  PROVE  /\ Alike([c EXCEPT !.sampling_off = b], [e EXCEPT !.sampling_off = b])
         /\ Alike([c EXCEPT !.nmi_edge = b], [e EXCEPT !.nmi_edge = b])
         /\ Alike([c EXCEPT !.nmi_taken = b], [e EXCEPT !.nmi_taken = b])
         /\ Alike([c EXCEPT !.irq_taken = b], [e EXCEPT !.irq_taken = b])
<1>1. Alike([c EXCEPT !.sampling_off = b], [e EXCEPT !.sampling_off = b])  BY DEF Alike, Cpu
<1>2. Alike([c EXCEPT !.nmi_edge = b], [e EXCEPT !.nmi_edge = b])  BY DEF Alike, Cpu
<1>3. Alike([c EXCEPT !.nmi_taken = b], [e EXCEPT !.nmi_taken = b])  BY DEF Alike, Cpu
<1>4. Alike([c EXCEPT !.irq_taken = b], [e EXCEPT !.irq_taken = b])  BY DEF Alike, Cpu
<1> QED  BY <1>1, <1>2, <1>3, <1>4

LEMMA AlikeInterrupts ==
  ASSUME NEW c, NEW e, Alike(c, e), NEW i \in BOOLEAN
  PROVE  /\ Alike(UpdateNmiLastSampled(c), UpdateNmiLastSampled(e))
         /\ Alike(FindActiveInterrupt(c, i), FindActiveInterrupt(e, i))
         /\ Alike(DropTaken(c), DropTaken(e))
<1> c \in Cpu /\ e \in Cpu  BY DEF Alike
<1>1. Alike(UpdateNmiLastSampled(c), UpdateNmiLastSampled(e))
  BY DEF Alike, Cpu, UpdateNmiLastSampled
<1>2. Alike(DropTaken(c), DropTaken(e))
  <2> DEFINE Off(x) == [x EXCEPT !.nmi_taken = FALSE]
  <2>1. Alike(Off(c), Off(e))  BY AlikeBits
  <2>2. Alike([Off(c) EXCEPT !.irq_taken = FALSE], [Off(e) EXCEPT !.irq_taken = FALSE])
    BY <2>1, AlikeBits
  <2>3. /\ DropTaken(c) = [Off(c) EXCEPT !.irq_taken = FALSE]
        /\ DropTaken(e) = [Off(e) EXCEPT !.irq_taken = FALSE]
    BY DEF DropTaken, Cpu
  <2> QED  BY <2>2, <2>3
<1>3. Alike(FindActiveInterrupt(c, i), FindActiveInterrupt(e, i))
  <2> DEFINE Edge(x)  == [x EXCEPT !.nmi_edge = FALSE]
             Taken(x) == [Edge(x) EXCEPT !.nmi_taken = TRUE]
             Masked(x) == [x EXCEPT !.irq_taken = TRUE]
  <2>1. c.nmi_edge = e.nmi_edge /\ c.irq_pin = e.irq_pin  BY DEF Alike
  <2>2. Alike(Edge(c), Edge(e)) /\ Alike(Masked(c), Masked(e))  BY AlikeBits
  <2>3. Alike(Taken(c), Taken(e))  BY <2>2, AlikeBits
  <2>4. Alike([Taken(c) EXCEPT !.irq_taken = FALSE], [Taken(e) EXCEPT !.irq_taken = FALSE])
    BY <2>3, AlikeBits
  <2>5. Alike([Masked(c) EXCEPT !.nmi_taken = FALSE], [Masked(e) EXCEPT !.nmi_taken = FALSE])
    BY <2>2, AlikeBits
  <2>6. ASSUME NEW x \in Cpu
        PROVE  FindActiveInterrupt(x, i) =
                 IF x.nmi_edge THEN [Taken(x) EXCEPT !.irq_taken = FALSE]
                 ELSE IF ~i /\ x.irq_pin THEN [Masked(x) EXCEPT !.nmi_taken = FALSE] ELSE x
    BY DEF FindActiveInterrupt, Cpu
  <2> QED  BY <2>1, <2>4, <2>5, <2>6
<1> QED  BY <1>1, <1>2, <1>3

LEMMA AlikePushes ==
  ASSUME NEW c, NEW e, Alike(c, e)
  PROVE  /\ Alike(StackPushStatusB(c), StackPushStatusB(e))
         /\ Alike(NmiPushP(c), NmiPushP(e))
         /\ Alike(IrqPushP(c), IrqPushP(e))
<1> DEFINE f(x) == FindActiveInterrupt(x, x.I)
           g(x) == [f(x) EXCEPT !.sampling_off = TRUE]
<1>1. c.I = e.I /\ c.I \in BOOLEAN  BY DEF Alike, Cpu
<1>2. Alike(f(c), f(e))  BY <1>1, AlikeInterrupts
<1>3. Alike(g(c), g(e))  BY <1>2, AlikeBits
<1>4. f(c) \in Cpu /\ f(e) \in Cpu /\ g(c) \in Cpu /\ g(e) \in Cpu
  BY <1>2, <1>3 DEF Alike
<1>5. g(c).nmi_taken = g(e).nmi_taken /\ g(c).irq_taken = g(e).irq_taken
  BY <1>3 DEF Alike
<1>6. Alike(StackPushStatusB(c), StackPushStatusB(e))
  <2> HIDE DEF g
  <2>1. Alike(DropTaken(g(c)), DropTaken(g(e)))  BY <1>3, AlikeInterrupts
  <2>2. /\ Alike(NextEnterServiceSlot(DropTaken(g(c)), nmi, 4),
                 NextEnterServiceSlot(DropTaken(g(e)), nmi, 4))
        /\ Alike(NextEnterServiceSlot(DropTaken(g(c)), irq, 4),
                 NextEnterServiceSlot(DropTaken(g(e)), irq, 4))
    BY <2>1, SlotsInt, AlikeMoves
  <2>3. \A x : StackPushStatusB(x) =
                 IF g(x).nmi_taken THEN NextEnterServiceSlot(DropTaken(g(x)), nmi, 4)
                 ELSE IF g(x).irq_taken THEN NextEnterServiceSlot(DropTaken(g(x)), irq, 4)
                 ELSE g(x)
    BY DEF StackPushStatusB, g
  <2> QED  BY <1>3, <1>5, <2>2, <2>3
<1>7. Alike(NmiPushP(c), NmiPushP(e))
  <2> DEFINE h(x) == [g(x) EXCEPT !.nmi_edge = FALSE]
  <2>1. Alike(h(c), h(e))  BY <1>3, AlikeBits
  <2>2. /\ h(c) = [f(c) EXCEPT !.sampling_off = TRUE, !.nmi_edge = FALSE]
        /\ h(e) = [f(e) EXCEPT !.sampling_off = TRUE, !.nmi_edge = FALSE]
    BY <1>4 DEF Cpu
  <2>3. NmiPushP(c) = DropTaken(h(c)) /\ NmiPushP(e) = DropTaken(h(e))
    BY <2>2 DEF NmiPushP
  <2> QED  BY <2>1, <2>3, AlikeInterrupts
<1>8. Alike(IrqPushP(c), IrqPushP(e))
  <2> DEFINE h(x) == [g(x) EXCEPT !.irq_taken = FALSE]
             k(x) == [h(x) EXCEPT !.nmi_taken = FALSE]
  <2>1. Alike(h(c), h(e))  BY <1>3, AlikeBits
  <2>2. Alike(k(c), k(e))  BY <2>1, AlikeBits
  <2>3. Alike(NextEnterServiceSlot(k(c), nmi, 4), NextEnterServiceSlot(k(e), nmi, 4))
    <3> HIDE DEF k
    <3> QED  BY <2>2, SlotsInt, AlikeMoves
  <2>4. \A x : f(x) \in Cpu => h(x) = [f(x) EXCEPT !.sampling_off = TRUE, !.irq_taken = FALSE]
    BY DEF Cpu
  <2>5. h(c).nmi_taken = h(e).nmi_taken  BY <2>1 DEF Alike
  <2> HIDE DEF h
  <2>6. ASSUME NEW x, f(x) \in Cpu
        PROVE  IrqPushP(x) = IF h(x).nmi_taken THEN NextEnterServiceSlot(k(x), nmi, 4) ELSE h(x)
    <3>1. h(x) = [f(x) EXCEPT !.sampling_off = TRUE, !.irq_taken = FALSE]  BY <2>4, <2>6
    <3> QED  BY <3>1, Zenon DEF IrqPushP
  <2> HIDE DEF f
  <2> QED  BY <1>4, <2>1, <2>3, <2>5, <2>6
<1> QED  BY <1>6, <1>7, <1>8

LEMMA AlikeVectors ==
  ASSUME NEW c, NEW e, Alike(c, e)
  PROVE  /\ Alike(NmosVectorLow(c), NmosVectorLow(e))
         /\ Alike(CmosNmiPushP(c), CmosNmiPushP(e))
         /\ Alike(CmosVectorLow(c), CmosVectorLow(e))
<1> c \in Cpu /\ e \in Cpu  BY DEF Alike
<1>1. Alike(NmosVectorLow(c), NmosVectorLow(e))
  <2> DEFINE d(x) == [x EXCEPT !.I = TRUE]
  <2>1. Alike(d(c), d(e))  BY AlikeFlags
  <2>2. Alike([d(c) EXCEPT !.sampling_off = FALSE], [d(e) EXCEPT !.sampling_off = FALSE])
    BY <2>1, AlikeBits
  <2>3. \A x \in Cpu : NmosVectorLow(x) = [d(x) EXCEPT !.sampling_off = FALSE]
    BY DEF NmosVectorLow, Cpu
  <2> QED  BY <2>2, <2>3
<1>2. Alike(CmosNmiPushP(c), CmosNmiPushP(e))
  <2> DEFINE d(x) == [x EXCEPT !.nmi_edge = FALSE]
             f(x) == [d(x) EXCEPT !.nmi_taken = FALSE]
  <2>1. Alike(d(c), d(e))  BY AlikeBits
  <2>2. Alike(f(c), f(e))  BY <2>1, AlikeBits
  <2>3. \A x \in Cpu : f(x) = [x EXCEPT !.nmi_edge = FALSE, !.nmi_taken = FALSE]
    BY DEF Cpu
  <2> HIDE DEF f
  <2>4. \A x \in Cpu : CmosNmiPushP(x) = UpdateNmiLastSampled(f(x))
    BY <2>3 DEF CmosNmiPushP
  <2> QED  BY <2>2, <2>4, AlikeInterrupts
<1>3. Alike(CmosVectorLow(c), CmosVectorLow(e))
  <2> DEFINE d(x) == [x EXCEPT !.I = TRUE, !.D = FALSE]
             f(x) == [d(x) EXCEPT !.nmi_edge = FALSE]
  <2>1. Alike(d(c), d(e))  BY AlikeFlags
  <2>2. Alike(f(c), f(e))  BY <2>1, AlikeBits
  <2>3. \A x \in Cpu : f(x) = [x EXCEPT !.I = TRUE, !.D = FALSE, !.nmi_edge = FALSE]
    BY DEF Cpu
  <2> HIDE DEF f
  <2>4. \A x \in Cpu : CmosVectorLow(x) = UpdateNmiLastSampled(f(x))
    BY <2>3 DEF CmosVectorLow
  <2> QED  BY <2>2, <2>4, AlikeInterrupts
<1> QED  BY <1>1, <1>2, <1>3

-----------------------------------------------------------------------------
\* Outcomes.
LEMMA TwinBus ==
  ASSUME NEW c, NEW e, Alike(c, e), NEW h PROVE Twins(Bus(h, c), Bus(h, e))
<1>1. Bus(h, c).tick = Bus(h, e).tick /\ Bus(h, c).tick \in TickResult
  BY DEF Bus, StatusOf, TickResult
<1>2. Bus(h, c).cpu = c /\ Bus(h, e).cpu = e  BY DEF Bus
<1>3. Bus(h, c) \in Outcome /\ Bus(h, e) \in Outcome
  BY GoodBus, KeepsRefl DEF Alike, Good
<1> QED  BY <1>1, <1>2, <1>3 DEF Twins

LEMMA TwinPrefetch ==
  ASSUME NEW o, NEW p, Twins(o, p) PROVE Twins(Prefetch(o), Prefetch(p))
<1>1. /\ o \in Outcome /\ p \in Outcome /\ o.tick = p.tick /\ Alike(o.cpu, p.cpu)
      /\ o.cpu \in Cpu /\ p.cpu \in Cpu
  BY DEF Twins, Alike
<1>2. Prefetch(o) \in Outcome /\ Prefetch(p) \in Outcome
  BY <1>1, GoodPrefetch, KeepsRefl DEF Good
<1>3. Prefetch(o).tick = Prefetch(p).tick  BY <1>1 DEF Prefetch
<1>4. /\ Prefetch(o).cpu = [o.cpu EXCEPT !.sampling = TRUE]
      /\ Prefetch(p).cpu = [p.cpu EXCEPT !.sampling = TRUE]
  BY DEF Prefetch
<1>5. Alike([o.cpu EXCEPT !.sampling = TRUE], [p.cpu EXCEPT !.sampling = TRUE])
  BY <1>1 DEF Alike, Cpu
<1> QED  BY <1>2, <1>3, <1>4, <1>5 DEF Twins

LEMMA TwinJam ==
  ASSUME NEW o, NEW p, Twins(o, p)
  PROVE  Twins([o EXCEPT !.tick.status = "jammed"], [p EXCEPT !.tick.status = "jammed"])
<1>1. o \in Outcome /\ p \in Outcome /\ o.tick = p.tick  BY DEF Twins
<1>2. /\ [o EXCEPT !.tick.status = "jammed"] \in Outcome
      /\ [p EXCEPT !.tick.status = "jammed"] \in Outcome
  BY <1>1, GoodJam, KeepsRefl DEF Good, Outcome
<1>3. /\ [o EXCEPT !.tick.status = "jammed"].cpu = o.cpu
      /\ [p EXCEPT !.tick.status = "jammed"].cpu = p.cpu
      /\ [o EXCEPT !.tick.status = "jammed"].tick = [o.tick EXCEPT !.status = "jammed"]
      /\ [p EXCEPT !.tick.status = "jammed"].tick = [p.tick EXCEPT !.status = "jammed"]
  BY <1>1 DEF Outcome
<1> QED  BY <1>1, <1>2, <1>3 DEF Twins

LEMMA TwinReset ==
  ASSUME NEW c, NEW e, Alike(c, e), NEW h PROVE Twins(InternalReset(h, c), InternalReset(h, e))
<1> DEFINE counted(x) == [x EXCEPT !.latch_data = (@ + 1) % 256]
<1>1. c \in Cpu /\ e \in Cpu /\ c.latch_data = e.latch_data  BY DEF Alike
<1>2. (c.latch_data + 1) % 256 \in 0..255  BY <1>1 DEF Cpu
<1>3. Alike(counted(c), counted(e))  BY <1>1, <1>2 DEF Alike, Cpu
<1>4. counted(c).latch_data = counted(e).latch_data  BY <1>3 DEF Alike
<1> HIDE DEF counted
<1>5. /\ Alike(NextEnterServiceSlot(counted(c), reset_0, 0),
               NextEnterServiceSlot(counted(e), reset_0, 0))
      /\ Alike(LoopHere(counted(c)), LoopHere(counted(e)))
  BY <1>3, SlotsInt, AlikeMoves
<1>6. /\ Twins(Bus(h, NextEnterServiceSlot(counted(c), reset_0, 0)),
               Bus(h, NextEnterServiceSlot(counted(e), reset_0, 0)))
      /\ Twins(Bus(h, LoopHere(counted(c))), Bus(h, LoopHere(counted(e))))
  BY <1>5, TwinBus
<1> QED  BY <1>4, <1>6 DEF InternalReset, counted

\* Every outcome in S has its twin in T.
Matches(S, T) == \A o \in S : \E p \in T : Twins(o, p)

LEMMA MatchOne == ASSUME NEW o, NEW p, Twins(o, p) PROVE Matches({o}, {p})
  BY DEF Matches

LEMMA MatchTwo ==
  ASSUME NEW o, NEW p, Twins(o, p), NEW m, NEW n, Twins(m, n) PROVE Matches({o, m}, {p, n})
  BY DEF Matches

\* Every handler, whatever it is, has the same outcomes on alike contexts.
LEMMA EffectTwins ==
  ASSUME NEW c, NEW e, Alike(c, e), NEW h PROVE Matches(Effect(h, c), Effect(h, e))
<1>1. c \in Cpu /\ e \in Cpu /\ c.D = e.D  BY DEF Alike
<1>2. ASSUME NEW d, NEW f, Alike(d, f), NEW g
      PROVE  /\ Twins(Bus(g, d), Bus(g, f)) /\ Twins(Prefetch(Bus(g, d)), Prefetch(Bus(g, f)))
             /\ Matches({Bus(g, d)}, {Bus(g, f)})
             /\ Matches({Prefetch(Bus(g, d))}, {Prefetch(Bus(g, f))})
  <2>1. Twins(Bus(g, d), Bus(g, f))  BY <1>2, TwinBus
  <2>2. Twins(Prefetch(Bus(g, d)), Prefetch(Bus(g, f)))  BY <2>1, TwinPrefetch
  <2> QED  BY <2>1, <2>2, MatchOne
<1>3. ASSUME NEW n \in Int
      PROVE  /\ Alike(Skip(c, n), Skip(e, n)) /\ Twins(Bus(h, Skip(c, n)), Bus(h, Skip(e, n)))
             /\ Twins(Prefetch(Bus(h, Skip(c, n))), Prefetch(Bus(h, Skip(e, n))))
  <2>1. 0 \in Int  OBVIOUS
  <2>2. Alike(Skip(c, n), Skip(e, n))  BY <2>1, AlikeMoves
  <2> QED  BY <2>2, <1>2
<1>4. 1 \in Int /\ 2 \in Int  OBVIOUS
<1>5. Matches({IF c.D THEN Bus(h, c) ELSE Prefetch(Bus(h, c))},
              {IF e.D THEN Bus(h, e) ELSE Prefetch(Bus(h, e))})
  BY <1>1, <1>2
<1>6. /\ Matches(Probe(h, c, Prefetch(Bus(h, Skip(c, 1)))),
                 Probe(h, e, Prefetch(Bus(h, Skip(e, 1)))))
      /\ Matches(Probe(h, c, Bus(h, Skip(c, 1))), Probe(h, e, Bus(h, Skip(e, 1))))
  BY <1>2, <1>3, <1>4, MatchTwo DEF Probe
<1>7. Matches(Probe(h, c, IF c.D THEN Bus(h, Skip(c, 1)) ELSE Prefetch(Bus(h, Skip(c, 1)))),
              Probe(h, e, IF e.D THEN Bus(h, Skip(e, 1)) ELSE Prefetch(Bus(h, Skip(e, 1)))))
  BY <1>1, <1>6
<1>8. /\ Matches({Prefetch(Bus(h, c)), Prefetch(Bus(h, Skip(c, 2)))},
                 {Prefetch(Bus(h, e)), Prefetch(Bus(h, Skip(e, 2)))})
      /\ Matches({Bus(h, c), Bus(h, Skip(c, 1))}, {Bus(h, e), Bus(h, Skip(e, 1))})
  BY <1>2, <1>3, <1>4, MatchTwo
<1>9. Matches({FetchOrDecimalDummy(h, c)}, {FetchOrDecimalDummy(h, e)})
  <2>1. Alike(Skip(c, 1), Skip(e, 1))  BY <1>3, <1>4
  <2>2. /\ Twins(Prefetch(Bus(h, c)), Prefetch(Bus(h, e)))
        /\ Twins(Bus("fetch", Skip(c, 1)), Bus("fetch", Skip(e, 1)))
    BY <1>2, <2>1
  <2>3. Twins(FetchOrDecimalDummy(h, c), FetchOrDecimalDummy(h, e))
    BY <1>1, <2>2 DEF FetchOrDecimalDummy
  <2> QED  BY <2>3, MatchOne
<1>10. Alike(LoopHere(c), LoopHere(e))
  <2>1. 0 \in Int  OBVIOUS
  <2> QED  BY <2>1, AlikeMoves
<1>11. Matches({Bus(h, NextEnterServiceSlot(c, illegal_ext, 0))},
               {Bus(h, NextEnterServiceSlot(e, illegal_ext, 0))})
  <2>1. Alike(NextEnterServiceSlot(c, illegal_ext, 0), NextEnterServiceSlot(e, illegal_ext, 0))
    BY SlotsInt, AlikeMoves
  <2> QED  BY <2>1, <1>2
<1>12. ASSUME NEW i \in BOOLEAN, NEW d \in BOOLEAN
       PROVE  /\ Matches({Bus(h, [c EXCEPT !.I = i])}, {Bus(h, [e EXCEPT !.I = i])})
              /\ Matches({Prefetch(Bus(h, [c EXCEPT !.I = i]))},
                         {Prefetch(Bus(h, [e EXCEPT !.I = i]))})
              /\ Matches({Prefetch(Bus(h, [c EXCEPT !.D = d]))},
                         {Prefetch(Bus(h, [e EXCEPT !.D = d]))})
              /\ Matches({Bus(h, [c EXCEPT !.I = i, !.D = d])},
                         {Bus(h, [e EXCEPT !.I = i, !.D = d])})
              /\ Twins(Bus(h, [c EXCEPT !.I = i, !.D = d]), Bus(h, [e EXCEPT !.I = i, !.D = d]))
  <2>1. /\ Alike([c EXCEPT !.I = i], [e EXCEPT !.I = i])
        /\ Alike([c EXCEPT !.D = d], [e EXCEPT !.D = d])
        /\ Alike([c EXCEPT !.I = i, !.D = d], [e EXCEPT !.I = i, !.D = d])
    BY AlikeFlags
  <2> QED  BY <2>1, <1>2
<1>13. Matches({Bus(h, d) : d \in PulledStatus(c)}, {Bus(h, d) : d \in PulledStatus(e)})
  <2> SUFFICES ASSUME NEW o \in {Bus(h, d) : d \in PulledStatus(c)}
               PROVE  \E p \in {Bus(h, d) : d \in PulledStatus(e)} : Twins(o, p)
    BY DEF Matches
  <2>1. PICK p \in [I : BOOLEAN, D : BOOLEAN] : o = Bus(h, [c EXCEPT !.I = p.I, !.D = p.D])
    BY DEF PulledStatus
  <2>2. p.I \in BOOLEAN /\ p.D \in BOOLEAN  OBVIOUS
  <2>3. [e EXCEPT !.I = p.I, !.D = p.D] \in PulledStatus(e)  BY DEF PulledStatus
  <2>4. Twins(o, Bus(h, [e EXCEPT !.I = p.I, !.D = p.D]))  BY <1>12, <2>1, <2>2
  <2> QED  BY <2>3, <2>4
<1>14. Matches({[Bus(h, LoopHere(c)) EXCEPT !.tick.status = "jammed"]},
               {[Bus(h, LoopHere(e)) EXCEPT !.tick.status = "jammed"]})
  <2>1. Twins(Bus(h, LoopHere(c)), Bus(h, LoopHere(e)))  BY <1>2, <1>10
  <2> QED  BY <2>1, TwinJam, MatchOne
<1>15. Matches({InternalReset(h, c)}, {InternalReset(h, e)})  BY TwinReset, MatchOne
<1>16. /\ Matches({Bus(h, StackPushStatusB(c))}, {Bus(h, StackPushStatusB(e))})
       /\ Matches({Bus(h, NmiPushP(c))}, {Bus(h, NmiPushP(e))})
       /\ Matches({Bus(h, IrqPushP(c))}, {Bus(h, IrqPushP(e))})
  BY <1>2, AlikePushes
<1>17. /\ Matches({Bus(h, NmosVectorLow(c))}, {Bus(h, NmosVectorLow(e))})
       /\ Matches({Bus(h, CmosVectorLow(c))}, {Bus(h, CmosVectorLow(e))})
       /\ Matches({Bus(h, CmosNmiPushP(c))}, {Bus(h, CmosNmiPushP(e))})
  BY <1>2, AlikeVectors
<1>18. Matches({Bus(h, UpdateNmiLastSampled(NmosVectorLow(c)))},
               {Bus(h, UpdateNmiLastSampled(NmosVectorLow(e)))})
  <2>1. Alike(NmosVectorLow(c), NmosVectorLow(e))  BY AlikeVectors
  <2>2. Alike(UpdateNmiLastSampled(NmosVectorLow(c)), UpdateNmiLastSampled(NmosVectorLow(e)))
    BY <2>1, AlikeInterrupts
  <2> QED  BY <2>2, <1>2
<1>19. Matches({Bus(h, [c EXCEPT !.irq_taken = FALSE])}, {Bus(h, [e EXCEPT !.irq_taken = FALSE])})
  <2>1. Alike([c EXCEPT !.irq_taken = FALSE], [e EXCEPT !.irq_taken = FALSE])  BY AlikeBits
  <2> QED  BY <2>1, <1>2
<1>20. /\ Matches({Prefetch(Bus(h, [c EXCEPT !.I = FALSE]))},
                  {Prefetch(Bus(h, [e EXCEPT !.I = FALSE]))})
       /\ Matches({Prefetch(Bus(h, [c EXCEPT !.I = TRUE]))},
                  {Prefetch(Bus(h, [e EXCEPT !.I = TRUE]))})
       /\ Matches({Prefetch(Bus(h, [c EXCEPT !.D = FALSE]))},
                  {Prefetch(Bus(h, [e EXCEPT !.D = FALSE]))})
       /\ Matches({Prefetch(Bus(h, [c EXCEPT !.D = TRUE]))},
                  {Prefetch(Bus(h, [e EXCEPT !.D = TRUE]))})
       /\ Matches({Bus(h, [c EXCEPT !.I = TRUE])}, {Bus(h, [e EXCEPT !.I = TRUE])})
       /\ Matches({Bus(h, [c EXCEPT !.I = TRUE, !.D = FALSE])},
                  {Bus(h, [e EXCEPT !.I = TRUE, !.D = FALSE])})
  BY <1>12
<1>21. Matches({Bus(h, c)}, {Bus(h, e)}) /\ Matches({Prefetch(Bus(h, c))}, {Prefetch(Bus(h, e))})
  BY <1>2
<1>22. Matches({}, {})  BY DEF Matches
<1> QED
  BY <1>5, <1>6, <1>7, <1>8, <1>9, <1>11, <1>13, <1>14, <1>15, <1>16, <1>17, <1>18, <1>19,
     <1>20, <1>21, <1>22
  DEF Effect

LEMMA OutcomesTwins ==
  ASSUME NEW c, NEW e, Alike(c, e) PROVE Matches(Outcomes(c), Outcomes(e))
<1>1. c \in Cpu /\ e \in Cpu /\ c.microcode = e.microcode /\ c.model = e.model  BY DEF Alike
<1>2. CASE Store[c.microcode] = "dispatch"
  <2> SUFFICES ASSUME NEW o \in Outcomes(c) PROVE \E p \in Outcomes(e) : Twins(o, p)
    BY DEF Matches
  <2>1. PICK opcode \in Opcodes : o \in Dispatch(c, opcode)  BY <1>2 DEF Outcomes
  <2> DEFINE turn(x) == EnterServiceSlot(x, opcode, 0)
  <2>2. opcode \in Int /\ 0 \in Int  BY IndexAssumption DEF IndexAssumption
  <2>3. Alike(turn(c), turn(e))  BY <2>2, AlikeMoves
  <2>4. \A x : Dispatch(x, opcode) = Effect(Store[turn(x).microcode], turn(x))
    BY DEF Dispatch, EnterServiceSlot
  <2> HIDE DEF turn
  <2>5. turn(c).microcode = turn(e).microcode  BY <2>3 DEF Alike
  <2>6. Matches(Dispatch(c, opcode), Dispatch(e, opcode))  BY <2>3, <2>4, <2>5, EffectTwins
  <2>7. PICK p \in Dispatch(e, opcode) : Twins(o, p)  BY <2>1, <2>6 DEF Matches
  <2>8. p \in Outcomes(e)  BY <1>1, <1>2, <2>7 DEF Outcomes
  <2> QED  BY <2>7, <2>8
<1>3. CASE Store[c.microcode] # "dispatch"
  BY <1>1, <1>3, EffectTwins DEF Outcomes
<1> QED  BY <1>2, <1>3

-----------------------------------------------------------------------------
\* The operators of the abstract processor are those of the core: only its state is another.
LEMMA SameConstants ==
  /\ Always!illegal_ext = illegal_ext /\ Always!internal_reset = internal_reset
  /\ Always!reset_0 = reset_0 /\ Always!goto = goto /\ Always!nmi = nmi /\ Always!irq = irq
  BY DEF Always!illegal_ext, illegal_ext, Always!internal_reset, internal_reset, Always!reset_0,
         reset_0, Always!goto, goto, Always!nmi, nmi, Always!irq, irq

LEMMA SameMoves ==
  ASSUME NEW c, NEW slot, NEW n
  PROVE  /\ Always!EnterServiceSlot(c, slot, n) = EnterServiceSlot(c, slot, n)
         /\ Always!NextEnterServiceSlot(c, slot, n) = NextEnterServiceSlot(c, slot, n)
         /\ Always!LoopHere(c) = LoopHere(c)
         /\ Always!Skip(c, n) = Skip(c, n)
<1>1. \A x : Always!IDX(x, slot, n) = IDX(x, slot, n)  BY DEF Always!IDX, IDX
<1> QED  BY <1>1, Zenon
  DEF Always!EnterServiceSlot, EnterServiceSlot, Always!NextEnterServiceSlot,
      NextEnterServiceSlot, Always!LoopHere, LoopHere, Always!Skip, Skip

LEMMA SameInterrupts ==
  ASSUME NEW c, NEW i
  PROVE  /\ Always!UpdateNmiLastSampled(c) = UpdateNmiLastSampled(c)
         /\ Always!SampleNmi(c) = SampleNmi(c)
         /\ Always!FindActiveInterrupt(c, i) = FindActiveInterrupt(c, i)
         /\ Always!DropTaken(c) = DropTaken(c)
  BY Zenon
  DEF Always!UpdateNmiLastSampled, UpdateNmiLastSampled, Always!SampleNmi, SampleNmi,
      Always!FindActiveInterrupt, FindActiveInterrupt, Always!DropTaken, DropTaken

LEMMA SamePushes ==
  ASSUME NEW c
  PROVE  /\ Always!StackPushStatusB(c) = StackPushStatusB(c)
         /\ Always!NmiPushP(c) = NmiPushP(c)
         /\ Always!IrqPushP(c) = IrqPushP(c)
         /\ Always!NmosVectorLow(c) = NmosVectorLow(c)
         /\ Always!CmosNmiPushP(c) = CmosNmiPushP(c)
         /\ Always!CmosVectorLow(c) = CmosVectorLow(c)
<1>1. Always!StackPushStatusB(c) = StackPushStatusB(c)
  BY SameInterrupts, SameMoves, SameConstants DEF Always!StackPushStatusB, StackPushStatusB
<1>2. Always!NmiPushP(c) = NmiPushP(c)
  BY SameInterrupts DEF Always!NmiPushP, NmiPushP
<1>3. Always!IrqPushP(c) = IrqPushP(c)
  BY SameInterrupts, SameMoves, SameConstants DEF Always!IrqPushP, IrqPushP
<1>4. Always!NmosVectorLow(c) = NmosVectorLow(c)  BY DEF Always!NmosVectorLow, NmosVectorLow
<1>5. Always!CmosNmiPushP(c) = CmosNmiPushP(c) /\ Always!CmosVectorLow(c) = CmosVectorLow(c)
  BY SameInterrupts DEF Always!CmosNmiPushP, CmosNmiPushP, Always!CmosVectorLow, CmosVectorLow
<1> QED  BY <1>1, <1>2, <1>3, <1>4, <1>5

LEMMA SameHandlerSets ==
  /\ Always!PlainReads = PlainReads /\ Always!PlainWrites = PlainWrites
  /\ Always!PlainFetches = PlainFetches /\ Always!WriteHandlers = WriteHandlers
  /\ Always!FetchHandlers = FetchHandlers /\ Always!PollHandlers = PollHandlers
  /\ Always!BinaryPollHandlers = BinaryPollHandlers
<1>1. Always!PlainReads = PlainReads  BY Zenon DEF Always!PlainReads, PlainReads
<1>2. Always!PlainWrites = PlainWrites  BY Zenon DEF Always!PlainWrites, PlainWrites
<1>3. Always!PlainFetches = PlainFetches  BY Zenon DEF Always!PlainFetches, PlainFetches
<1>4. Always!WriteHandlers = WriteHandlers
  BY <1>2, Zenon DEF Always!WriteHandlers, WriteHandlers
<1>5. Always!FetchHandlers = FetchHandlers
  BY <1>3, Zenon DEF Always!FetchHandlers, FetchHandlers
<1>6. Always!PollHandlers = PollHandlers  BY Zenon DEF Always!PollHandlers, PollHandlers
<1>7. Always!BinaryPollHandlers = BinaryPollHandlers
  BY Zenon DEF Always!BinaryPollHandlers, BinaryPollHandlers
<1> QED  BY <1>1, <1>2, <1>3, <1>4, <1>5, <1>6, <1>7

LEMMA SameOutcomeParts ==
  ASSUME NEW h, NEW c, NEW o
  PROVE  /\ Always!Bus(h, c) = Bus(h, c)
         /\ Always!Prefetch(o) = Prefetch(o)
         /\ Always!Probe(h, c, o) = Probe(h, c, o)
         /\ Always!InternalReset(h, c) = InternalReset(h, c)
         /\ Always!FetchOrDecimalDummy(h, c) = FetchOrDecimalDummy(h, c)
         /\ Always!PulledStatus(c) = PulledStatus(c)
<1>1. \A g, d : Always!Bus(g, d) = Bus(g, d)
  BY SameHandlerSets, Zenon DEF Always!Bus, Bus, Always!StatusOf, StatusOf
<1>2. \A p : Always!Prefetch(p) = Prefetch(p)  BY Zenon DEF Always!Prefetch, Prefetch
<1>3. Always!Probe(h, c, o) = Probe(h, c, o)  BY <1>1 DEF Always!Probe, Probe
<1>4. Always!InternalReset(h, c) = InternalReset(h, c)
  BY <1>1, SameMoves, SameConstants DEF Always!InternalReset, InternalReset
<1>5. Always!FetchOrDecimalDummy(h, c) = FetchOrDecimalDummy(h, c)
  BY <1>1, <1>2, SameMoves DEF Always!FetchOrDecimalDummy, FetchOrDecimalDummy
<1>6. Always!PulledStatus(c) = PulledStatus(c)  BY DEF Always!PulledStatus, PulledStatus
<1> QED  BY <1>1, <1>2, <1>3, <1>4, <1>5, <1>6

LEMMA SameEffect == ASSUME NEW h, NEW c PROVE Always!Effect(h, c) = Effect(h, c)
<1>1. /\ \A g, d : Always!Bus(g, d) = Bus(g, d)
      /\ \A o : Always!Prefetch(o) = Prefetch(o)
      /\ \A g, d, o : Always!Probe(g, d, o) = Probe(g, d, o)
      /\ \A g, d : Always!InternalReset(g, d) = InternalReset(g, d)
      /\ \A g, d : Always!FetchOrDecimalDummy(g, d) = FetchOrDecimalDummy(g, d)
      /\ \A d : Always!PulledStatus(d) = PulledStatus(d)
  BY SameOutcomeParts
<1>2. /\ \A d, n : Always!Skip(d, n) = Skip(d, n)
      /\ \A d : Always!LoopHere(d) = LoopHere(d)
      /\ \A d, s, n : Always!NextEnterServiceSlot(d, s, n) = NextEnterServiceSlot(d, s, n)
  BY SameMoves
<1>3. \A d : Always!UpdateNmiLastSampled(d) = UpdateNmiLastSampled(d)  BY SameInterrupts
<1> QED  BY <1>1, <1>2, <1>3, SamePushes, SameHandlerSets, SameConstants DEF Always!Effect, Effect

LEMMA SameOutcomes == ASSUME NEW c PROVE Always!Outcomes(c) = Outcomes(c)
<1>1. \A x, s, n : Always!IDX(x, s, n) = IDX(x, s, n)  BY DEF Always!IDX, IDX
<1>2. \A d, k : Always!Dispatch(d, k) = Dispatch(d, k)
  BY <1>1, SameEffect DEF Always!Dispatch, Dispatch
<1> QED  BY <1>2, SameEffect DEF Always!Outcomes, Outcomes

LEMMA SameResolver ==
  ASSUME NEW c PROVE Always!InterruptResolver(c) = InterruptResolver(c)
<1>1. \A d : Always!Quiescent(d) = Quiescent(d)  BY DEF Always!Quiescent, Quiescent
<1>2. \A o : Always!Settle(o) = Settle(o)  BY <1>1 DEF Always!Settle, Settle
<1>3. \A o : Always!Advance(o) = Advance(o)  BY SameMoves DEF Always!Advance, Advance
<1>4. \A o, i : Always!Resolve(o, i) = Resolve(o, i)
  BY <1>2, SameInterrupts, SameMoves, SameConstants DEF Always!Resolve, Resolve
<1> QED
  BY <1>3, <1>4, SameOutcomes, SameInterrupts DEF Always!InterruptResolver, InterruptResolver

LEMMA SameSetup ==
  ASSUME NEW c, NEW model
  PROVE  /\ Always!Setup(model) = Setup(model)
         /\ Always!RestartOutcome(c) = RestartOutcome(c)
         /\ Always!InService(c) = Served(c)
<1>1. \A x : Always!Setup(x) = Setup(x)  BY DEF Always!Setup, Setup
<1>2. Always!RestartOutcome(c) = RestartOutcome(c)
  BY <1>1, SameOutcomeParts, SameMoves, SameConstants DEF Always!RestartOutcome, RestartOutcome
<1>3. Always!InService(c) = Served(c)  BY DEF Always!InService, Served
<1> QED  BY <1>1, <1>2, <1>3

-----------------------------------------------------------------------------
\* Skipping the resolver.

\* The part of DetectorInStep that the refinement needs.
InStep(c) == ~c.service_mode /\ ~c.sampling_off => c.nmi_last = c.nmi_pin

\* The resolver adds nothing to a quiescent context but its own bookkeeping.
LEMMA ResolveIdle ==
  ASSUME NEW o \in Outcome, Quiescent(o.cpu), NEW i \in BOOLEAN
  PROVE  Resolve(o, i).tick = o.tick /\ Served(Resolve(o, i).cpu) = Served(o.cpu)
<1>1. o.cpu \in Cpu /\ ~o.cpu.nmi_edge /\ ~o.cpu.irq_pin /\ ~o.cpu.nmi_taken /\ ~o.cpu.irq_taken
  BY DEF Outcome, Quiescent
<1>2. ASSUME NEW p \in Outcome PROVE Settle(p).tick = p.tick /\ Served(Settle(p).cpu) = Served(p.cpu)
  <2>1. p.cpu \in Cpu  BY DEF Outcome
  <2>2. Served([p.cpu EXCEPT !.service_mode = FALSE]) = Served(p.cpu)  BY <2>1 DEF Served, Cpu
  <2>3. /\ [p EXCEPT !.cpu.service_mode = FALSE].tick = p.tick
        /\ [p EXCEPT !.cpu.service_mode = FALSE].cpu = [p.cpu EXCEPT !.service_mode = FALSE]
    BY DEF Outcome
  <2> QED  BY <2>2, <2>3 DEF Settle
<1>3. CASE o.cpu.sampling
  <2> DEFINE d == [o.cpu EXCEPT !.sampling = FALSE]
  <2>1. FindActiveInterrupt(d, i) = d  BY <1>1 DEF FindActiveInterrupt, Cpu
  <2>2. d \in Cpu /\ Served(d) = Served(o.cpu)  BY <1>1 DEF Served, Cpu
  <2>3. Resolve(o, i) = Settle([o EXCEPT !.cpu = d])  BY <1>3, <2>1 DEF Resolve
  <2> HIDE DEF d
  <2>4. /\ [o EXCEPT !.cpu = d] \in Outcome /\ [o EXCEPT !.cpu = d].cpu = d
        /\ [o EXCEPT !.cpu = d].tick = o.tick
    BY <2>2 DEF Outcome
  <2> QED  BY <1>2, <2>2, <2>3, <2>4
<1>4. CASE ~o.cpu.sampling
  <2>1. Resolve(o, i) = Settle(o)  BY <1>1, <1>4 DEF Resolve
  <2> QED  BY <1>2, <2>1
<1> QED  BY <1>3, <1>4

\* A tick of the fast path shows what the resolver shows on any context alike.
LEMMA IdleServed ==
  ASSUME NEW c, Sound(c), InStep(c), ~c.service_mode, NEW e, Alike(c, e),
         NEW o \in TickOutcomes(c)
  PROVE  \E r \in InterruptResolver(e) : r.tick = o.tick /\ Served(r.cpu) = Served(o.cpu)
<1>1. e \in Cpu /\ e.I \in BOOLEAN  BY DEF Alike, Cpu
<1>2. PICK p \in Outcomes(c) : o = Advance(p)  BY DEF TickOutcomes, FastPath
<1>3. PICK q \in Outcomes(e) : Twins(p, q)  BY <1>2, OutcomesTwins DEF Matches
<1>4. (IF e.sampling_off THEN e ELSE SampleNmi(e)) = e
  <2>1. e.sampling_off = c.sampling_off /\ e.nmi_last = c.nmi_last /\ e.nmi_pin = c.nmi_pin
    BY DEF Alike
  <2>2. CASE ~c.sampling_off
    <3>1. e.nmi_last = e.nmi_pin  BY <2>1, <2>2 DEF InStep
    <3>2. SampleNmi(e) = [e EXCEPT !.nmi_last = e.nmi_pin]
      BY <3>1 DEF SampleNmi, UpdateNmiLastSampled
    <3>3. [e EXCEPT !.nmi_last = e.nmi_pin] = e  BY <1>1, <3>1 DEF Cpu
    <3> QED  BY <3>2, <3>3
  <2> QED  BY <2>1, <2>2
<1>5. Resolve(Advance(q), e.I) \in InterruptResolver(e)  BY <1>3, <1>4 DEF InterruptResolver
<1>6. Quiescent(e)  BY DEF Sound, Quiescent, Alike
<1>7. Good(e, Advance(q))  BY <1>1, <1>3, OutcomesGood, AdvanceGood
<1>8. Advance(q) \in Outcome /\ Quiescent(Advance(q).cpu)  BY <1>6, <1>7 DEF Good, Keeps
<1>9. /\ Resolve(Advance(q), e.I).tick = Advance(q).tick
      /\ Served(Resolve(Advance(q), e.I).cpu) = Served(Advance(q).cpu)
  BY <1>1, <1>8, ResolveIdle
<1>10. Advance(q).tick = Advance(p).tick /\ Alike(Advance(p).cpu, Advance(q).cpu)
  <2>1. /\ p \in Outcome /\ q \in Outcome /\ p.tick = q.tick /\ Alike(p.cpu, q.cpu)
    BY <1>3 DEF Twins
  <2>2. 0 \in Int /\ 1 \in Int  OBVIOUS
  <2>3. Alike(Skip(p.cpu, 1), Skip(q.cpu, 1))  BY <2>1, <2>2, AlikeMoves
  <2>4. /\ Advance(p).cpu = Skip(p.cpu, 1) /\ Advance(q).cpu = Skip(q.cpu, 1)
        /\ Advance(p).tick = p.tick /\ Advance(q).tick = q.tick
    BY <2>1 DEF Advance, Outcome
  <2> QED  BY <2>1, <2>3, <2>4
<1>11. Served(Advance(p).cpu) = Served(Advance(q).cpu)  BY <1>10, ServedAlike
<1> QED  BY <1>2, <1>5, <1>9, <1>10, <1>11

\* A tick of the core, in either mode, shows what a tick of the processor in service mode shows.
LEMMA TickServed ==
  ASSUME NEW c, Sound(c), InStep(c), NEW o \in TickOutcomes(c)
  PROVE  \E r \in InterruptResolver(Served(c)) : r.tick = o.tick /\ Served(r.cpu) = Served(o.cpu)
<1>1. c \in Cpu  BY DEF Sound
<1>2. CASE c.service_mode
  <2>1. Served(c) = c  BY <1>1, <1>2 DEF Sound, Served, Cpu
  <2> QED  BY <1>2, <2>1 DEF TickOutcomes
<1>3. CASE ~c.service_mode
  BY <1>1, <1>3, AlikeServed, IdleServed
<1> QED  BY <1>1, <1>2, <1>3 DEF Cpu

LEMMA ServedState == AlwaysCpu = Served(cpu) /\ AlwaysCpu' = Served(cpu')
  BY DEF AlwaysCpu, Served

\* qe6502_goto runs its tick from a slot of its own, in either mode.
LEMMA GotoServed ==
  ASSUME NEW c, Sound(c), InStep(c), NEW o \in GotoOutcomes(c)
  PROVE  \E r \in InterruptResolver(EnterServiceSlot(Served(c), goto, 0)) :
           r.tick = o.tick /\ Served(r.cpu) = Served(o.cpu)
<1> DEFINE d == EnterServiceSlot(c, goto, 0)
<1>1. c \in Cpu /\ goto \in Int  BY SlotsInt DEF Sound
<1>2. Keeps(c, d) /\ d \in Cpu  BY <1>1, KeepsMoves, KeepsCpu
<1>3. d.sampling = c.sampling /\ d.sampling_off = c.sampling_off /\ d.nmi_last = c.nmi_last
  BY <1>1 DEF EnterServiceSlot, Cpu
<1>4. Served(d) = EnterServiceSlot(Served(c), goto, 0)
  BY <1>1 DEF Served, EnterServiceSlot, Cpu
<1> HIDE DEF d
<1>5. Sound(d) /\ InStep(d)  BY <1>2, <1>3 DEF Sound, InStep, Keeps
<1>6. o \in TickOutcomes(d)  BY DEF GotoOutcomes, d
<1> QED  BY <1>4, <1>5, <1>6, TickServed

LEMMA RestartServed ==
  ASSUME NEW c \in Cpu
  PROVE  RestartOutcome(Served(c)) = RestartOutcome(c)
<1>1. Served(c).model = c.model  BY DEF Served, Cpu
<1> QED  BY <1>1 DEF RestartOutcome

LEMMA SetupInStep == ASSUME NEW model PROVE InStep(Setup(model))
  BY DEF InStep, Setup

\* The initial states map to initial states.
LEMMA InitMaps == Init => Always!ServiceInit
<1> SUFFICES ASSUME Init PROVE Always!ServiceInit  OBVIOUS
<1>1. PICK model \in Models :
        \E o \in {RestartOutcome(Setup(model))} \cup GotoOutcomes(Setup(model)) :
          cpu = o.cpu /\ tick = o.tick
  BY DEF Init
<1>2. PICK o \in {RestartOutcome(Setup(model))} \cup GotoOutcomes(Setup(model)) :
        cpu = o.cpu /\ tick = o.tick
  BY <1>1
<1> DEFINE s == Setup(model)
           Starts == {RestartOutcome(s)} \cup InterruptResolver(EnterServiceSlot(s, goto, 0))
<1>3. \E r \in Starts : r.tick = o.tick /\ Served(r.cpu) = Served(o.cpu)
  <2>1. CASE o = RestartOutcome(s)
    BY <2>1
  <2>2. CASE o \in GotoOutcomes(s)
    <3> DEFINE d == EnterServiceSlot(s, goto, 0)
    <3>1. Sound(s) /\ s \in Cpu /\ goto \in Int /\ ~s.service_mode
      BY SetupSound, SlotsInt DEF Sound, Setup
    <3>2. Keeps(s, d) /\ d \in Cpu  BY <3>1, KeepsMoves, KeepsCpu
    <3>3. /\ d.sampling = s.sampling /\ d.sampling_off = s.sampling_off
          /\ d.nmi_last = s.nmi_last /\ ~d.service_mode
      BY <3>1 DEF EnterServiceSlot, Cpu
    <3>4. o \in TickOutcomes(d)  BY <2>2 DEF GotoOutcomes
    <3> HIDE DEF d
    <3>5. Sound(d) /\ InStep(d)  BY <3>1, <3>2, <3>3, SetupInStep DEF Sound, InStep, Keeps
    <3>6. Alike(d, d)  BY <3>2 DEF Alike
    <3>7. PICK r \in InterruptResolver(d) : r.tick = o.tick /\ Served(r.cpu) = Served(o.cpu)
      BY <3>3, <3>4, <3>5, <3>6, IdleServed
    <3> QED  BY <3>7 DEF d
  <2> QED  BY <1>2, <2>1, <2>2
<1> QED
  BY <1>2, <1>3, ServedState, SameResolver, SameSetup, SameMoves, SameConstants
  DEF Always!ServiceInit

\* Every step maps to a step or a stutter.
LEMMA StepMaps ==
  SoundInv /\ InStep(cpu) /\ [Next]_vars => [Always!ServiceNext]_(Always!vars)
<1> SUFFICES ASSUME SoundInv, InStep(cpu), [Next]_vars
             PROVE  Always!ServiceNext \/ UNCHANGED Always!vars
  OBVIOUS
<1>1. Sound(cpu) /\ cpu \in Cpu  BY DEF SoundInv, Sound
<1>2. CASE Tick
  <2>1. PICK o \in TickOutcomes(cpu) : Becomes(o)  BY <1>2 DEF Tick
  <2>2. PICK r \in InterruptResolver(Served(cpu)) : r.tick = o.tick /\ Served(r.cpu) = Served(o.cpu)
    BY <1>1, <2>1, TickServed
  <2>3. Always!Becoming(r)
    BY <2>1, <2>2, ServedState, SameSetup DEF Always!Becoming, Becomes
  <2>4. Always!ServiceTick  BY <2>2, <2>3, ServedState, SameResolver DEF Always!ServiceTick
  <2> QED  BY <2>4 DEF Always!ServiceNext
<1>3. CASE Restart
  <2>1. Becomes(RestartOutcome(cpu)) /\ "restart" \in Host  BY <1>3 DEF Restart
  <2>2. RestartOutcome(AlwaysCpu) = RestartOutcome(cpu)  BY <1>1, RestartServed, ServedState
  <2>3. Always!Becoming(RestartOutcome(cpu))
    BY <2>1, ServedState, SameSetup DEF Always!Becoming, Becomes
  <2>4. Always!ServiceRestart  BY <2>1, <2>2, <2>3, SameSetup DEF Always!ServiceRestart
  <2> QED  BY <2>4 DEF Always!ServiceNext
<1>4. CASE Goto
  <2>1. PICK o \in GotoOutcomes(cpu) : Becomes(o)  BY <1>4 DEF Goto
  <2>2. PICK r \in InterruptResolver(EnterServiceSlot(Served(cpu), goto, 0)) :
          r.tick = o.tick /\ Served(r.cpu) = Served(o.cpu)
    BY <1>1, <2>1, GotoServed
  <2>3. Always!Becoming(r)
    BY <2>1, <2>2, ServedState, SameSetup DEF Always!Becoming, Becomes
  <2>4. "goto" \in Host  BY <1>4 DEF Goto
  <2>5. Always!ServiceGoto
    BY <2>2, <2>3, <2>4, ServedState, SameResolver, SameMoves, SameConstants DEF Always!ServiceGoto
  <2> QED  BY <2>5 DEF Always!ServiceNext
<1>5. ASSUME NEW level \in BOOLEAN, NmiAssert(level) PROVE Always!ServiceNext
  <2>1. AlwaysCpu' = [AlwaysCpu EXCEPT !.nmi_pin = level]
    BY <1>1, <1>5, ServedState DEF NmiAssert, Served, Cpu
  <2>2. Always!ServiceNmiAssert(level)
    BY <1>5, <2>1 DEF NmiAssert, Always!ServiceNmiAssert
  <2> QED  BY <2>2 DEF Always!ServiceNext
<1>6. ASSUME NEW level \in BOOLEAN, IrqAssert(level) PROVE Always!ServiceNext
  <2>1. AlwaysCpu' = [AlwaysCpu EXCEPT !.irq_pin = level]
    BY <1>1, <1>6, ServedState DEF IrqAssert, Served, Cpu
  <2>2. Always!ServiceIrqAssert(level)
    BY <1>6, <2>1 DEF IrqAssert, Always!ServiceIrqAssert
  <2> QED  BY <2>2 DEF Always!ServiceNext
<1>7. ASSUME NEW model \in Models, SetModel(model) PROVE Always!ServiceNext
  <2>1. AlwaysCpu' = [AlwaysCpu EXCEPT !.model = model]
    BY <1>1, <1>7, ServedState DEF SetModel, Served, Cpu
  <2>2. Always!SetModel(model)  BY <1>7, <2>1 DEF SetModel, Always!SetModel
  <2> QED  BY <2>2 DEF Always!ServiceNext
<1>8. ASSUME NEW i \in BOOLEAN, NEW d \in BOOLEAN, SetP(i, d) PROVE Always!ServiceNext
  <2>1. AlwaysCpu' = [AlwaysCpu EXCEPT !.I = i, !.D = d]
    BY <1>1, <1>8, ServedState DEF SetP, Served, Cpu
  <2>2. Always!SetP(i, d)  BY <1>8, <2>1 DEF SetP, Always!SetP
  <2> QED  BY <2>2 DEF Always!ServiceNext
<1>9. CASE UNCHANGED vars
  <2>1. cpu' = cpu /\ tick' = tick  BY <1>9 DEF vars
  <2> QED  BY <2>1, ServedState DEF Always!vars
<1> QED  BY <1>2, <1>3, <1>4, <1>5, <1>6, <1>7, <1>8, <1>9 DEF Next, HostStep

-----------------------------------------------------------------------------
\* The edge detector and the line.
Synced(c) == c.nmi_last = c.nmi_pin

LEMMA ResolvePins ==
  ASSUME NEW o \in Outcome, NEW i \in BOOLEAN
  PROVE  /\ Resolve(o, i).cpu.nmi_pin = o.cpu.nmi_pin
         /\ Resolve(o, i).cpu.nmi_last = o.cpu.nmi_last
<1> DEFINE Same(c, d) == d \in Cpu /\ d.nmi_pin = c.nmi_pin /\ d.nmi_last = c.nmi_last
<1>1. o.cpu \in Cpu  BY DEF Outcome
<1>2. ASSUME NEW p \in Outcome PROVE Same(p.cpu, Settle(p).cpu)
  <2>1. p.cpu \in Cpu  BY DEF Outcome
  <2>2. Same(p.cpu, [p.cpu EXCEPT !.service_mode = FALSE])  BY <2>1 DEF Cpu
  <2>3. [p EXCEPT !.cpu.service_mode = FALSE].cpu = [p.cpu EXCEPT !.service_mode = FALSE]
    BY DEF Outcome
  <2> QED  BY <2>1, <2>2, <2>3 DEF Settle
<1>3. CASE o.cpu.sampling
  <2> DEFINE d == [o.cpu EXCEPT !.sampling = FALSE]
             f == FindActiveInterrupt(d, i)
  <2>1. Same(o.cpu, d)  BY <1>1 DEF Cpu
  <2> HIDE DEF d
  <2>2. Same(d, f)
    <3>1. f \in Cpu  BY <2>1, KeepsInterrupts, KeepsCpu
    <3>2. f.nmi_pin = d.nmi_pin /\ f.nmi_last = d.nmi_last  BY <2>1 DEF FindActiveInterrupt, Cpu
    <3> QED  BY <3>1, <3>2
  <2> HIDE DEF f
  <2>3. [o EXCEPT !.cpu = f] \in Outcome /\ [o EXCEPT !.cpu = f].cpu = f
    BY <2>2, OutcomeWith
  <2>4. Resolve(o, i) = Settle([o EXCEPT !.cpu = f])  BY <1>3 DEF Resolve, d, f
  <2> QED  BY <1>2, <2>1, <2>2, <2>3, <2>4
<1>4. CASE ~o.cpu.sampling /\ o.tick.status = "fetch" /\ (o.cpu.nmi_taken \/ o.cpu.irq_taken)
  <2> DEFINE d == DropTaken(o.cpu)
             slot == IF o.cpu.nmi_taken THEN nmi ELSE irq
             e == EnterServiceSlot(d, slot, 0)
  <2>1. d \in Cpu /\ d.nmi_pin = o.cpu.nmi_pin /\ d.nmi_last = o.cpu.nmi_last
    BY <1>1 DEF DropTaken, Cpu
  <2>2. slot \in Int  BY SlotsInt
  <2> HIDE DEF d, slot
  <2>3. e \in Cpu  BY <2>1, <2>2, KeepsMoves, KeepsCpu
  <2>4. e.nmi_pin = d.nmi_pin /\ e.nmi_last = d.nmi_last  BY <2>1 DEF EnterServiceSlot, Cpu
  <2> HIDE DEF e
  <2>5. Resolve(o, i) = [o EXCEPT !.cpu = e]  BY <1>4 DEF Resolve, d, slot, e
  <2> QED  BY <2>1, <2>3, <2>4, <2>5, OutcomeWith
<1>5. CASE ~o.cpu.sampling /\ ~(o.tick.status = "fetch" /\ (o.cpu.nmi_taken \/ o.cpu.irq_taken))
  <2>1. Resolve(o, i) = Settle(o)  BY <1>5 DEF Resolve
  <2> QED  BY <1>2, <2>1
<1> QED  BY <1>3, <1>4, <1>5

\* A tick brings the detector in step, or leaves it so, and does not move the line.
LEMMA TickSynced ==
  ASSUME NEW c, Sound(c), Synced(c) \/ (c.service_mode /\ ~c.sampling_off),
         NEW o \in TickOutcomes(c)
  PROVE  Synced(o.cpu) /\ o.cpu.nmi_pin = c.nmi_pin
<1>1. c \in Cpu /\ c.I \in BOOLEAN  BY DEF Sound, Cpu
<1>2. CASE c.service_mode
  <2> DEFINE d == IF c.sampling_off THEN c ELSE SampleNmi(c)
  <2>1. d \in Cpu /\ d.nmi_pin = c.nmi_pin
    BY <1>1, KeepsRefl, KeepsInterrupts DEF Keeps
  <2>2. Synced(d)
    <3>1. CASE c.sampling_off
      BY <3>1
    <3>2. CASE ~c.sampling_off
      <4>1. SampleNmi(c).nmi_last = c.nmi_pin
        BY <1>1 DEF SampleNmi, UpdateNmiLastSampled, Cpu
      <4> QED  BY <2>1, <3>2, <4>1 DEF Synced
    <3> QED  BY <3>1, <3>2
  <2>3. PICK p \in Outcomes(d) : o = Resolve(Advance(p), c.I)
    BY <1>2 DEF TickOutcomes, InterruptResolver
  <2> HIDE DEF d
  <2>4. Good(d, Advance(p))  BY <2>1, <2>3, OutcomesGood, AdvanceGood
  <2>5. Synced(Advance(p).cpu) /\ Advance(p).cpu.nmi_pin = c.nmi_pin
    BY <2>1, <2>2, <2>4 DEF Good, Keeps, Synced
  <2>6. Advance(p) \in Outcome  BY <2>4 DEF Good
  <2> QED  BY <1>1, <2>3, <2>5, <2>6, ResolvePins DEF Synced
<1>3. CASE ~c.service_mode
  <2>1. PICK p \in Outcomes(c) : o = Advance(p)  BY <1>3 DEF TickOutcomes, FastPath
  <2>2. Good(c, o)  BY <1>1, <2>1, OutcomesGood, AdvanceGood
  <2> QED  BY <1>3, <2>2 DEF Good, Keeps, Synced
<1> QED  BY <1>1, <1>2, <1>3 DEF Cpu

LEMMA GotoSynced ==
  ASSUME NEW c, Sound(c), Synced(c) \/ (c.service_mode /\ ~c.sampling_off),
         NEW o \in GotoOutcomes(c)
  PROVE  Synced(o.cpu) /\ o.cpu.nmi_pin = c.nmi_pin
<1> DEFINE d == EnterServiceSlot(c, goto, 0)
<1>1. c \in Cpu /\ goto \in Int  BY SlotsInt DEF Sound
<1>2. Keeps(c, d) /\ d \in Cpu  BY <1>1, KeepsMoves, KeepsCpu
<1>3. d.sampling = c.sampling /\ d.sampling_off = c.sampling_off /\ d.nmi_last = c.nmi_last
  BY <1>1 DEF EnterServiceSlot, Cpu
<1>4. o \in TickOutcomes(d)  BY DEF GotoOutcomes
<1> HIDE DEF d
<1>5. Sound(d) /\ (Synced(d) \/ (d.service_mode /\ ~d.sampling_off)) /\ d.nmi_pin = c.nmi_pin
  BY <1>2, <1>3 DEF Sound, Synced, Keeps
<1> QED  BY <1>4, <1>5, TickSynced

LEMMA RestartSynced ==
  ASSUME NEW c \in Cpu
  PROVE  Synced(RestartOutcome(c).cpu) /\ ~RestartOutcome(c).cpu.nmi_pin
  BY DEF RestartOutcome, Bus, EnterServiceSlot, Setup, Synced

LEMMA InitSynced == Init => Synced(cpu)
<1> SUFFICES ASSUME Init PROVE Synced(cpu)  OBVIOUS
<1>1. PICK model \in Models :
        \E o \in {RestartOutcome(Setup(model))} \cup GotoOutcomes(Setup(model)) :
          cpu = o.cpu /\ tick = o.tick
  BY DEF Init
<1>2. PICK o \in {RestartOutcome(Setup(model))} \cup GotoOutcomes(Setup(model)) :
        cpu = o.cpu /\ tick = o.tick
  BY <1>1
<1>3. Sound(Setup(model)) /\ Setup(model) \in Cpu  BY SetupSound DEF Sound
<1>4. Synced(Setup(model))  BY DEF Synced, Setup
<1> QED  BY <1>2, <1>3, <1>4, GotoSynced, RestartSynced

\* What a step does to the detector: it stays in step unless the NMI line moves, and then
\* service mode is entered.
LEMMA StepSynced ==
  /\ SoundInv
  /\ Synced(cpu) \/ (cpu.service_mode /\ ~cpu.sampling_off)
  /\ [Next]_vars
  => \/ Synced(cpu')
     \/ cpu'.service_mode /\ "nmi" \in Host
     \/ cpu'.service_mode /\ ~Synced(cpu)
<1> SUFFICES ASSUME SoundInv, Synced(cpu) \/ (cpu.service_mode /\ ~cpu.sampling_off), [Next]_vars
             PROVE  \/ Synced(cpu')
                    \/ cpu'.service_mode /\ "nmi" \in Host
                    \/ cpu'.service_mode /\ ~Synced(cpu)
  OBVIOUS
<1>1. Sound(cpu) /\ cpu \in Cpu  BY DEF SoundInv, Sound
<1>2. CASE Tick
  BY <1>1, <1>2, TickSynced DEF Tick, Becomes
<1>3. CASE Restart
  BY <1>1, <1>3, RestartSynced DEF Restart, Becomes
<1>4. CASE Goto
  BY <1>1, <1>4, GotoSynced DEF Goto, Becomes
<1>5. ASSUME NEW level \in BOOLEAN, NmiAssert(level)
      PROVE  Synced(cpu') \/ (cpu'.service_mode /\ "nmi" \in Host)
  <2>1. /\ "nmi" \in Host /\ cpu'.nmi_pin = level /\ cpu'.nmi_last = cpu.nmi_last
        /\ cpu'.service_mode = (cpu.service_mode \/ cpu.nmi_pin # level)
    BY <1>1, <1>5 DEF NmiAssert, Cpu
  <2> QED  BY <2>1 DEF Synced
<1>6. ASSUME cpu'.nmi_pin = cpu.nmi_pin, cpu'.nmi_last = cpu.nmi_last,
             cpu.service_mode => cpu'.service_mode
      PROVE  Synced(cpu') \/ (cpu'.service_mode /\ ~Synced(cpu))
  BY <1>6 DEF Synced
<1>7. ASSUME NEW level \in BOOLEAN, IrqAssert(level)
      PROVE  Synced(cpu') \/ (cpu'.service_mode /\ ~Synced(cpu))
  BY <1>1, <1>6, <1>7 DEF IrqAssert, Cpu
<1>8. ASSUME NEW model \in Models, SetModel(model)
      PROVE  Synced(cpu') \/ (cpu'.service_mode /\ ~Synced(cpu))
  BY <1>1, <1>6, <1>8 DEF SetModel, Cpu
<1>9. ASSUME NEW i \in BOOLEAN, NEW d \in BOOLEAN, SetP(i, d)
      PROVE  Synced(cpu') \/ (cpu'.service_mode /\ ~Synced(cpu))
  BY <1>1, <1>6, <1>9 DEF SetP, Cpu
<1>10. CASE UNCHANGED vars
  BY <1>6, <1>10 DEF vars
<1> QED  BY <1>2, <1>3, <1>4, <1>5, <1>7, <1>8, <1>9, <1>10 DEF Next, HostStep

-----------------------------------------------------------------------------
\* The fast path is transparent, whatever the control store holds, as long as the detector is in
\* step with the line when the resolver is skipped: the detailed core implements the processor
\* that runs the resolver on every tick.
THEOREM FastPathTransparentInStep == Spec /\ []DetectorInStep => FastPathTransparent
<1>1. DetectorInStep => InStep(cpu)  BY DEF DetectorInStep, InStep
<1> QED
  BY <1>1, SoundAlways, InitMaps, StepMaps, PTL DEF Spec, FastPathTransparent, Always!ServiceSpec

\* A core that never stops sampling, as no CMOS core does, keeps its detector in step with the
\* line whenever the resolver is skipped, however the NMI line moves.
THEOREM DetectorInStepAlways == Spec /\ [](~cpu.sampling_off) => []DetectorInStep
<1>1. Init /\ ~cpu.sampling_off => DetectorInStep  BY InitSynced DEF DetectorInStep, Synced
<1>2. SoundInv /\ DetectorInStep /\ (~cpu.sampling_off)' /\ [Next]_vars => DetectorInStep'
  <2> SUFFICES ASSUME SoundInv, DetectorInStep, ~(cpu'.sampling_off), [Next]_vars
               PROVE  DetectorInStep'
    OBVIOUS
  <2>1. cpu \in Cpu /\ ~cpu.sampling_off /\ (~cpu.service_mode => Synced(cpu))
    BY DEF SoundInv, Sound, DetectorInStep, Synced
  <2>2. Synced(cpu) \/ (cpu.service_mode /\ ~cpu.sampling_off)  BY <2>1
  <2>3. Synced(cpu') \/ cpu'.service_mode  BY <2>2, StepSynced
  <2> QED  BY <2>3 DEF DetectorInStep, Synced
<1> QED  BY <1>1, <1>2, SoundAlways, PTL DEF Spec

\* So the fast path of such a core is transparent.
THEOREM FastPathTransparentCmos == Spec /\ [](~cpu.sampling_off) => FastPathTransparent
  BY FastPathTransparentInStep, DetectorInStepAlways, PTL

\* And so is that of every core, the NMOS ones with their window included, whose NMI line rests.
THEOREM FastPathTransparentIrqOnly ==
  ASSUME "nmi" \notin Host PROVE Spec => FastPathTransparent
<1>1. Synced(cpu) => InStep(cpu)  BY DEF Synced, InStep
<1>2. SoundInv /\ Synced(cpu) /\ [Next]_vars => Synced(cpu)'  BY StepSynced
<1> QED
  BY <1>1, <1>2, SoundAlways, InitSynced, InitMaps, StepMaps, PTL
  DEF Spec, FastPathTransparent, Always!ServiceSpec

=============================================================================
