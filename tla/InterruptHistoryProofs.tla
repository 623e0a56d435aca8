----------------------- MODULE InterruptHistoryProofs -----------------------
(***************************************************************************)
(* What the observer of InterruptHistory sees of the core: how long an     *)
(* instruction and an interrupt's entry take, that a fetch hands over to an*)
(* interrupt exactly when a poll called for it, and that an NMI edge is    *)
(* latched, kept and serviced once, each where the core does so. Where it  *)
(* does not, the findings are the counterexamples, and the hypotheses of   *)
(* the theorems exclude no more than them and what the run excludes.       *)
(*                                                                         *)
(* Timed carries the length of the instruction along the arcs of the       *)
(* store. Serves says what a tick does to the interrupts, as one relation  *)
(* for both modes of the core: a handler of the interrupt unit runs, or a  *)
(* poll is taken, or a fetch hands over, or nothing happens. Each invariant*)
(* below (Resting, Silent, Owing, Agreed) relates the observer's memory to *)
(* the core's, and is carried through those four cases.                    *)
(***************************************************************************)
EXTENDS InterruptHistory, ControlFlowProofs

-----------------------------------------------------------------------------
\* The observer only watches, so what is proved of the core holds under it.
LEMMA Watches == [HNext]_hvars => [Next]_vars
<1> SUFFICES ASSUME [HNext]_hvars PROVE [Next]_vars  OBVIOUS
<1>1. CASE HNext
  BY <1>1 DEF HNext, HTick, HGoto, HRestart, HPins, HSetP, Next, HostStep
<1>2. CASE UNCHANGED hvars
  BY <1>2 DEF hvars, vars
<1> QED  BY <1>1, <1>2

THEOREM ObservedSpec == HSpec => Spec
<1>1. HInit => Init  BY DEF HInit
<1> QED  BY <1>1, Watches, PTL DEF HSpec, Spec

\* The observer does not set the model, so the model stays.
LEMMA ModelStays == ASSUME SoundInv, [HNext]_hvars PROVE cpu'.model = cpu.model
<1>1. Sound(cpu) /\ cpu \in Cpu /\ cpu.model \in Models  BY DEF SoundInv, Sound, Cpu
<1>2. CASE HTick
  BY <1>1, <1>2, TickFlows DEF HTick, Tick, Becomes, Flows
<1>3. CASE HGoto
  BY <1>1, <1>3, GotoFlows DEF HGoto, Goto, Becomes
<1>4. CASE HRestart
  BY <1>1, <1>4, RestartFlows DEF HRestart, Restart, Becomes
<1>5. ASSUME NEW v \in BOOLEAN, NmiAssert(v) \/ IrqAssert(v) PROVE cpu'.model = cpu.model
  BY <1>1, <1>5 DEF NmiAssert, IrqAssert, Cpu
<1>6. ASSUME NEW i \in BOOLEAN, NEW d \in BOOLEAN, SetP(i, d) PROVE cpu'.model = cpu.model
  BY <1>1, <1>6 DEF SetP, Cpu
<1>7. CASE UNCHANGED hvars
  BY <1>7 DEF hvars, vars
<1> QED  BY <1>2, <1>3, <1>4, <1>5, <1>6, <1>7 DEF HNext, HPins, HSetP

\* What moves pins and flags.
LEMMA PinsKeep ==
  ASSUME cpu \in Cpu, HPins \/ HSetP \/ UNCHANGED hvars
  PROVE  /\ UNCHANGED history /\ tick' = tick
         /\ cpu'.microcode = cpu.microcode /\ cpu'.sampling_off = cpu.sampling_off
         /\ cpu'.model = cpu.model
         /\ cpu'.nmi_last = cpu.nmi_last /\ cpu'.nmi_edge = cpu.nmi_edge
         /\ cpu'.nmi_taken = cpu.nmi_taken /\ cpu'.irq_taken = cpu.irq_taken
         /\ cpu'.nmi_pin # cpu.nmi_pin => "nmi" \in Host
         /\ cpu'.irq_pin # cpu.irq_pin => "irq" \in Host
<1> DEFINE Kept == /\ tick' = tick /\ cpu'.microcode = cpu.microcode
                   /\ cpu'.sampling_off = cpu.sampling_off /\ cpu'.model = cpu.model
                   /\ cpu'.nmi_last = cpu.nmi_last /\ cpu'.nmi_edge = cpu.nmi_edge
                   /\ cpu'.nmi_taken = cpu.nmi_taken /\ cpu'.irq_taken = cpu.irq_taken
<1>1. ASSUME NEW v \in BOOLEAN, NmiAssert(v)
      PROVE  Kept /\ "nmi" \in Host /\ cpu'.irq_pin = cpu.irq_pin
  <2>1. /\ tick' = tick /\ cpu'.microcode = cpu.microcode
        /\ cpu'.sampling_off = cpu.sampling_off /\ cpu'.model = cpu.model
        /\ cpu'.irq_pin = cpu.irq_pin /\ "nmi" \in Host
    BY <1>1 DEF NmiAssert, Cpu
  <2>2. /\ cpu'.nmi_last = cpu.nmi_last /\ cpu'.nmi_edge = cpu.nmi_edge
        /\ cpu'.nmi_taken = cpu.nmi_taken /\ cpu'.irq_taken = cpu.irq_taken
    BY <1>1 DEF NmiAssert, Cpu
  <2> QED  BY <2>1, <2>2
<1>2. ASSUME NEW v \in BOOLEAN, IrqAssert(v)
      PROVE  Kept /\ "irq" \in Host /\ cpu'.nmi_pin = cpu.nmi_pin
  <2>1. /\ tick' = tick /\ cpu'.microcode = cpu.microcode
        /\ cpu'.sampling_off = cpu.sampling_off /\ cpu'.model = cpu.model
        /\ cpu'.nmi_pin = cpu.nmi_pin /\ "irq" \in Host
    BY <1>2 DEF IrqAssert, Cpu
  <2>2. /\ cpu'.nmi_last = cpu.nmi_last /\ cpu'.nmi_edge = cpu.nmi_edge
        /\ cpu'.nmi_taken = cpu.nmi_taken /\ cpu'.irq_taken = cpu.irq_taken
    BY <1>2 DEF IrqAssert, Cpu
  <2> QED  BY <2>1, <2>2
<1>3. ASSUME NEW i \in BOOLEAN, NEW d \in BOOLEAN, SetP(i, d)
      PROVE  Kept /\ cpu'.irq_pin = cpu.irq_pin /\ cpu'.nmi_pin = cpu.nmi_pin
  <2>1. /\ tick' = tick /\ cpu'.microcode = cpu.microcode
        /\ cpu'.sampling_off = cpu.sampling_off /\ cpu'.model = cpu.model
        /\ cpu'.nmi_pin = cpu.nmi_pin /\ cpu'.irq_pin = cpu.irq_pin
    BY <1>3 DEF SetP, Cpu
  <2>2. /\ cpu'.nmi_last = cpu.nmi_last /\ cpu'.nmi_edge = cpu.nmi_edge
        /\ cpu'.nmi_taken = cpu.nmi_taken /\ cpu'.irq_taken = cpu.irq_taken
    BY <1>3 DEF SetP, Cpu
  <2> QED  BY <2>1, <2>2
<1>4. CASE UNCHANGED hvars
  BY <1>4 DEF hvars, vars
<1>5. UNCHANGED history  BY DEF HPins, HSetP, hvars
<1> HIDE DEF Kept
<1>6. Kept /\ (cpu'.nmi_pin # cpu.nmi_pin => "nmi" \in Host)
           /\ (cpu'.irq_pin # cpu.irq_pin => "irq" \in Host)
  <2>1. CASE HPins
    BY <2>1, <1>1, <1>2 DEF HPins
  <2>2. CASE HSetP
    BY <2>2, <1>3 DEF HSetP
  <2>3. CASE UNCHANGED hvars
    BY <2>3 DEF hvars, vars, Kept
  <2> QED  BY <2>1, <2>2, <2>3
<1> QED  BY <1>5, <1>6 DEF Kept

-----------------------------------------------------------------------------
\* What a tick does to the interrupts. Whether the detector holds an edge once the line is sampled.
Edge(c) == c.nmi_edge \/ (~c.sampling_off /\ c.nmi_pin /\ ~c.nmi_last)

\* A handler of the interrupt unit: chooses none, latches no edge, and few drop one.
Tends(h, c, n, a, o) ==
  /\ ~a.polled /\ o.cpu.microcode = a.to /\ Untaken(c) /\ Untaken(o.cpu)
  /\ o.cpu.nmi_edge => Edge(c)
  /\ h \in Opening \cup {"cmos_nmi_c5_vec_hi"} => ~o.cpu.nmi_edge
  /\ h \in Yielding =>
       IF Edge(c) THEN a.to = IDX(c.model, nmi, 4)
       ELSE a.to = n + 1 \/ (c.irq_pin /\ a.to = IDX(c.model, irq, 4))
  /\ Edge(c) /\ ~o.cpu.nmi_edge /\ h \notin Yielding =>
       h \in {"nmi_c3_push_p", "cmos_nmi_c3_push_p", "cmos_nmi_c5_vec_hi", "cmos_irq_c5_vec_hi"}

\* A poll, a fetch that hands over to the chosen interrupt, and any other tick.
PollsAt(c, a, o) ==
  /\ a.polled /\ o.cpu.microcode = a.to /\ ~o.cpu.nmi_edge
  /\ o.cpu.nmi_taken = (Edge(c) \/ (c.nmi_taken /\ (c.I \/ ~c.irq_pin)))
  /\ o.cpu.irq_taken = (~Edge(c) /\ (c.irq_taken \/ (~c.I /\ c.irq_pin)))

HandsOver(c, a, o) ==
  /\ ~a.polled /\ a.status = "fetch" /\ ~Untaken(c) /\ Untaken(o.cpu)
  /\ o.cpu.nmi_edge = Edge(c)
  /\ o.cpu.microcode = IDX(c.model, IF c.nmi_taken THEN nmi ELSE irq, 0)

PassesOn(c, a, o) ==
  /\ ~a.polled /\ o.cpu.microcode = a.to /\ o.cpu.nmi_edge = Edge(c)
  /\ o.cpu.nmi_taken = c.nmi_taken /\ o.cpu.irq_taken = c.irq_taken
  /\ a.status = "fetch" => Untaken(c)

Serves(h, c, n, a, o) ==
  /\ o.cpu.nmi_pin = c.nmi_pin /\ o.cpu.irq_pin = c.irq_pin
  /\ o.cpu.nmi_last \in {c.nmi_last, c.nmi_pin}
  /\ h \in {"nmos_nmi_c5_vec_hi", "cmos_nmi_c5_vec_hi"} \/ ~c.sampling_off =>
       (c.nmi_pin => o.cpu.nmi_last)
  /\ IF h \in Watchful THEN Tends(h, c, n, a, o)
     ELSE PollsAt(c, a, o) \/ HandsOver(c, a, o) \/ PassesOn(c, a, o)

\* On the fast path as in service mode: there no edge is held, no interrupt chosen, and a poll
\* would find nothing.
LEMMA DoesServe ==
  ASSUME NEW c, Sound(c), NEW n \in Sources(c), NEW p, Does(c, n, p), NEW o, Ends(c, p, o),
         Store[n] \in Watchful => Untaken(c)
  PROVE  Serves(Store[n], c, n, ArcOf(p), o)
<1>1. /\ c \in Cpu /\ (c.service_mode => ~c.sampling)
      /\ ~c.service_mode => /\ Untaken(c) /\ ~c.nmi_edge /\ ~c.irq_pin
                            /\ c.nmi_pin => c.nmi_last
      /\ c.nmi_edge \in BOOLEAN /\ c.nmi_taken \in BOOLEAN /\ c.irq_taken \in BOOLEAN
      /\ c.nmi_pin \in BOOLEAN /\ c.nmi_last \in BOOLEAN /\ c.irq_pin \in BOOLEAN
      /\ c.sampling_off \in BOOLEAN /\ c.I \in BOOLEAN
  BY DEF Sound, Quiescent, Untaken, Cpu
<1> DEFINE d == Start(c, n)
           a == ArcOf(p)
           h == Store[n]
<1>2. /\ d.model = c.model /\ d.microcode = n /\ d.sampling = c.sampling
      /\ d.sampling_off = c.sampling_off
      /\ d.nmi_pin = c.nmi_pin /\ d.irq_pin = c.irq_pin
      /\ d.nmi_taken = c.nmi_taken /\ d.irq_taken = c.irq_taken
      /\ d.nmi_edge = Edge(c)
      /\ d.nmi_last \in {c.nmi_last, c.nmi_pin}
      /\ ~c.sampling_off /\ c.nmi_pin => d.nmi_last
  <2> DEFINE fresh == c.service_mode /\ ~c.sampling_off
  <2>1. /\ d.model = c.model /\ d.microcode = n /\ d.sampling = c.sampling
        /\ d.sampling_off = c.sampling_off
        /\ d.nmi_pin = c.nmi_pin /\ d.irq_pin = c.irq_pin
        /\ d.nmi_taken = c.nmi_taken /\ d.irq_taken = c.irq_taken
        /\ d.nmi_edge = (c.nmi_edge \/ (fresh /\ c.nmi_pin /\ ~c.nmi_last))
        /\ d.nmi_last = (IF fresh THEN c.nmi_pin ELSE c.nmi_last)
    BY <1>1, SourcesInt, StartFields
  <2>2. (fresh /\ c.nmi_pin /\ ~c.nmi_last) <=> (~c.sampling_off /\ c.nmi_pin /\ ~c.nmi_last)
    BY <1>1
  <2> HIDE DEF d, fresh
  <2>3. d.nmi_edge = Edge(c)  BY <2>1, <2>2 DEF Edge
  <2> QED  BY <1>1, <2>1, <2>3 DEF fresh
<1> HIDE DEF d
<1>3. /\ p.cpu.sampling = (c.sampling \/ p.tick.polled)
      /\ Untaken(c) => Untaken(p.cpu)
      /\ IF h \in Watchful THEN Watched(h, d, p.cpu) /\ ~p.tick.polled
         ELSE Undisturbed(d, p.cpu)
      /\ p.cpu.nmi_pin = d.nmi_pin /\ p.cpu.irq_pin = d.irq_pin
      /\ p.cpu.nmi_last \in {d.nmi_last, d.nmi_pin} /\ p.cpu.model = c.model
  <2>1. /\ Good(d, p) /\ Follows(h, d, p)
        /\ IF h \in Watchful THEN Watched(h, d, p.cpu) /\ ~p.tick.polled
           ELSE Undisturbed(d, p.cpu)
    BY DEF Does, d
  <2>2. Keeps(d, p.cpu)  BY <2>1 DEF Good
  <2> HIDE DEF h
  <2>3. p.cpu.irq_pin = d.irq_pin  BY <2>1 DEF Watched, Undisturbed
  <2> QED  BY <1>2, <2>1, <2>2, <2>3 DEF Follows, Keeps, Untaken
<1>4. /\ a.to = p.cpu.microcode + 1 /\ a.status = p.tick.status /\ a.polled = p.tick.polled
      /\ p.tick.polled \in BOOLEAN /\ p.cpu.microcode \in Int
  BY DEF ArcOf, Arc, Does, Good, Outcome, TickResult, Cpu
<1>5. n \in Int  BY <1>1, SourcesInt
<1> SUFFICES Serves(h, c, n, a, o)  OBVIOUS
<1> HIDE DEF a, h
<1>6. /\ o.cpu.nmi_pin = c.nmi_pin /\ o.cpu.irq_pin = c.irq_pin
      /\ o.cpu.nmi_last = p.cpu.nmi_last
  BY <1>2, <1>3 DEF Ends
<1>7. CASE h \in Watchful
  <2>1. Untaken(c) /\ Untaken(p.cpu) /\ ~p.tick.polled  BY <1>3, <1>7 DEF h
  <2>2. ~c.service_mode \/ (~p.cpu.sampling /\ ~Enterable(p))
    BY <1>1, <1>3, <2>1 DEF Enterable, Untaken
  <2>3. /\ o.cpu.microcode = a.to /\ o.cpu.nmi_edge = p.cpu.nmi_edge /\ Untaken(o.cpu)
    BY <1>4, <2>1, <2>2 DEF Ends, Untaken
  <2>4. Watched(h, d, p.cpu) /\ Untaken(d)  BY <1>2, <1>3, <1>7, <2>1 DEF Untaken
  <2>5. h \in Yielding =>
          IF Edge(c) THEN a.to = IDX(c.model, nmi, 4)
          ELSE a.to = n + 1 \/ (c.irq_pin /\ a.to = IDX(c.model, irq, 4))
    BY <1>2, <1>4, <2>4 DEF Watched
  <2>6. Tends(h, c, n, a, o)
    BY <1>2, <1>4, <2>1, <2>3, <2>4, <2>5 DEF Watched, Tends
  <2>7. /\ o.cpu.nmi_last \in {c.nmi_last, c.nmi_pin}
        /\ h \in {"nmos_nmi_c5_vec_hi", "cmos_nmi_c5_vec_hi"} \/ ~c.sampling_off =>
             (c.nmi_pin => o.cpu.nmi_last)
    BY <1>2, <1>3, <1>6, <2>4 DEF Watched
  <2> QED  BY <1>6, <1>7, <2>6, <2>7 DEF Serves
<1>8. CASE h \notin Watchful
  <2>1. /\ p.cpu.nmi_edge = Edge(c) /\ p.cpu.nmi_last = d.nmi_last
        /\ p.cpu.nmi_taken = c.nmi_taken /\ p.cpu.irq_taken = c.irq_taken
        /\ p.cpu.irq_pin = c.irq_pin
    BY <1>2, <1>3, <1>8 DEF Undisturbed
  <2>2. h \notin {"nmos_nmi_c5_vec_hi", "cmos_nmi_c5_vec_hi"}
    BY <1>8 DEF Watchful, Closing, Settling
  <2>3. /\ o.cpu.nmi_last \in {c.nmi_last, c.nmi_pin}
        /\ ~c.sampling_off => (c.nmi_pin => o.cpu.nmi_last)
    BY <1>2, <1>6, <2>1
  <2>4. PollsAt(c, a, o) \/ HandsOver(c, a, o) \/ PassesOn(c, a, o)
    <3>1. CASE c.service_mode /\ a.polled
      <4>1. p.cpu.sampling  BY <1>3, <1>4, <3>1
      <4> QED  BY <1>4, <2>1, <3>1, <4>1 DEF Ends, PollsAt
    <3>2. CASE c.service_mode /\ ~a.polled /\ Enterable(p)
      <4>1. ~p.cpu.sampling  BY <1>1, <1>3, <1>4, <3>2
      <4>2. /\ o.cpu.microcode = IDX(c.model, IF c.nmi_taken THEN nmi ELSE irq, 0)
            /\ Untaken(o.cpu) /\ o.cpu.nmi_edge = Edge(c)
        BY <1>3, <2>1, <3>2, <4>1 DEF Ends
      <4> QED  BY <1>4, <2>1, <3>2, <4>2 DEF Enterable, Untaken, HandsOver
    <3>3. CASE c.service_mode /\ ~a.polled /\ ~Enterable(p)
      <4>1. ~p.cpu.sampling  BY <1>1, <1>3, <1>4, <3>3
      <4> QED  BY <1>4, <2>1, <3>3, <4>1 DEF Ends, Enterable, Untaken, PassesOn
    <3>4. CASE ~c.service_mode
      <4>1. ~Edge(c) /\ Untaken(c) /\ ~c.irq_pin  BY <1>1, <3>4 DEF Edge
      <4>2. /\ o.cpu.microcode = a.to /\ o.cpu.nmi_edge = Edge(c)
            /\ o.cpu.nmi_taken = c.nmi_taken /\ o.cpu.irq_taken = c.irq_taken
        BY <1>4, <2>1, <3>4 DEF Ends
      <4>3. CASE a.polled
        BY <1>1, <4>1, <4>2, <4>3 DEF PollsAt, Untaken
      <4>4. CASE ~a.polled
        BY <4>1, <4>2, <4>4 DEF PassesOn
      <4> QED  BY <4>3, <4>4
    <3> QED  BY <3>1, <3>2, <3>3, <3>4
  <2> QED  BY <1>6, <1>8, <2>2, <2>3, <2>4 DEF Serves
<1> QED  BY <1>7, <1>8

\* In a core that flows, none is chosen where a handler of the interrupt unit runs.
LEMMA TickServes ==
  ASSUME NEW c, Sound(c), NEW t, Flowing(c, t), NEW o \in TickOutcomes(c)
  PROVE  \E n \in Sources(c) : \E a : Flows(c, n, a, o) /\ Serves(Store[n], c, n, a, o)
<1>1. c \in Cpu  BY DEF Sound
<1>2. PICK n \in Sources(c) : \E p : Does(c, n, p) /\ Ends(c, p, o)  BY <1>1, TickDoes
<1>3. PICK p : Does(c, n, p) /\ Ends(c, p, o)  BY <1>2
<1>4. n \in Runs  BY <1>1, SourcesRun DEF Flowing
<1>5. Store[n] \in Watchful => Untaken(c)
  <2>1. Store[n] \in Watchful => n \in Quiet  BY <1>4, QuietFlow DEF QuietFlow
  <2> QED  BY <2>1 DEF Flowing, Sources
<1> QED  BY <1>3, <1>5, DoesFlows, DoesServe

-----------------------------------------------------------------------------
\* The tick of the host's qe6502_goto is one of the cpu at the slot of goto, where no handler of
\* the interrupt unit runs and nothing is polled.
LEMMA GotoServes ==
  ASSUME NEW c, Sound(c), NEW o \in GotoOutcomes(c)
  PROVE  /\ o.cpu.model = c.model /\ o.tick.status = "fetch" /\ ~o.tick.polled
         /\ o.cpu.nmi_pin = c.nmi_pin /\ o.cpu.irq_pin = c.irq_pin
         /\ \E a : /\ a.to = IDX(c.model, goto, 1) /\ a.status = "fetch"
                   /\ HandsOver(c, a, o) \/ PassesOn(c, a, o)
<1> DEFINE g == IDX(c.model, goto, 0)
           d == [c EXCEPT !.microcode = g]
<1>1. c \in Cpu /\ c.model \in Models /\ g \in Int  BY SlotsInt, IndexInt DEF Sound, Cpu
<1>2. o \in TickOutcomes(d)  BY DEF GotoOutcomes, EnterServiceSlot
<1>3. g \in Runs /\ Store[g] # "dispatch"  BY <1>1, EntriesRun
<1>4. \A a \in From(g, c.model) : a.to = IDX(c.model, goto, 1) /\ a.status = "fetch"
  BY <1>1, EntriesGuarded DEF EntriesGuarded
<1> HIDE DEF g
<1>5. d \in Cpu /\ d.microcode = g  BY <1>1 DEF Cpu
<1>6. /\ d.model = c.model /\ d.service_mode = c.service_mode /\ d.sampling = c.sampling
      /\ d.nmi_taken = c.nmi_taken /\ d.irq_taken = c.irq_taken
      /\ d.sampling_off = c.sampling_off
  BY <1>1 DEF Cpu
<1>7. /\ d.nmi_pin = c.nmi_pin /\ d.irq_pin = c.irq_pin /\ d.nmi_last = c.nmi_last
      /\ d.nmi_edge = c.nmi_edge
  BY <1>1 DEF Cpu
<1>8. Quiescent(c) => Quiescent(d)  BY <1>1 DEF Quiescent, Cpu
<1> HIDE DEF d
<1>9. Sound(d)  BY <1>5, <1>6, <1>8 DEF Sound
<1>10. Sources(d) = {g}  BY <1>3, <1>5 DEF Sources
<1>11. Store[g] \notin Watchful
  <2> SUFFICES ASSUME Store[g] \in Watchful PROVE FALSE  OBVIOUS
  <2> DEFINE h == Store[g]
             a == Arc(g + 1 + 0, StatusOf(h), FALSE)
  <2>1. h \notin Leaving /\ h \notin SkipOne /\ h \notin SkipTwo
    <3>1. h \notin Leaving  BY DEF Leaving, Watchful, Opening, Closing, Settling
    <3> QED  BY <3>1, Apart
  <2>2. 0 \in Skips(h) /\ FALSE \in Polls(h, 0)  BY <2>1 DEF Skips, Polls
  <2>3. a \in From(g, c.model)  BY <2>2, OwnArcs DEF From
  <2>4. StatusOf(h) = "fetch"  BY <1>4, <2>3 DEF Arc
  <2>5. h \notin FetchHandlers
    BY DEF FetchHandlers, PlainFetches, Watchful, Opening, Closing, Settling
  <2> QED  BY <2>4, <2>5 DEF StatusOf
<1>12. PICK p : Does(d, g, p) /\ Ends(d, p, o)  BY <1>2, <1>5, <1>10, TickDoes
<1> DEFINE a == ArcOf(p)
<1>13. Flows(d, g, a, o) /\ Serves(Store[g], d, g, a, o)
  BY <1>9, <1>10, <1>11, <1>12, DoesFlows, DoesServe
<1> HIDE DEF a
<1>14. a \in From(g, c.model)  BY <1>6, <1>13 DEF Flows, From
<1>15. a.to = IDX(c.model, goto, 1) /\ a.status = "fetch" /\ ~a.polled
  BY <1>1, <1>3, <1>4, <1>14, FlowClosed DEF FlowClosed
<1>16. HandsOver(d, a, o) \/ PassesOn(d, a, o)
  BY <1>11, <1>13, <1>15 DEF Serves, PollsAt
<1>17. Edge(d) = Edge(c) /\ (Untaken(d) <=> Untaken(c))  BY <1>6, <1>7 DEF Edge, Untaken
<1>18. HandsOver(c, a, o) \/ PassesOn(c, a, o)
  <2>1. CASE HandsOver(d, a, o)
    BY <1>6, <1>17, <2>1 DEF HandsOver
  <2>2. CASE PassesOn(d, a, o)
    BY <1>6, <1>17, <2>2 DEF PassesOn
  <2> QED  BY <1>16, <2>1, <2>2
<1>19. o.cpu.nmi_pin = c.nmi_pin /\ o.cpu.irq_pin = c.irq_pin  BY <1>7, <1>13 DEF Serves
<1> QED  BY <1>6, <1>13, <1>15, <1>18, <1>19 DEF Flows

-----------------------------------------------------------------------------
\* The observer's own state.
Watching ==
  /\ level \in BOOLEAN /\ owed \in BOOLEAN /\ decided \in {"none", "nmi", "irq"}
  /\ since \in 0..MaxSince /\ writes \in 0..MaxSince

LEMMA ObserveTyped ==
  ASSUME Watching, NEW c, Observe(c), cpu \in Cpu PROVE Watching'
<1>1. level' \in BOOLEAN  BY DEF Observe, Cpu
<1>2. owed' \in BOOLEAN  BY DEF Observe
<1>3. decided' \in {"none", "nmi", "irq"}  BY DEF Observe, Watching
<1>4. since' \in 0..MaxSince  BY DEF Observe, Watching, MaxSince
<1>5. writes' \in 0..MaxSince  BY DEF Observe, Watching, MaxSince
<1> QED  BY <1>1, <1>2, <1>3, <1>4, <1>5 DEF Watching

LEMMA StepWatching == SoundInv /\ Watching /\ [HNext]_hvars => Watching'
<1> SUFFICES ASSUME SoundInv, Watching, [HNext]_hvars PROVE Watching'  OBVIOUS
<1>1. cpu \in Cpu  BY DEF SoundInv, Sound
<1>2. CASE HTick \/ HGoto
  BY <1>1, <1>2, ObserveTyped DEF HTick, HGoto
<1>3. CASE HRestart
  <2>1. 0 \in 0..MaxSince  BY DEF MaxSince
  <2> QED  BY <1>3, <2>1 DEF HRestart, Forget, Watching
<1>4. CASE HPins \/ HSetP \/ UNCHANGED hvars
  BY <1>4 DEF HPins, HSetP, hvars, history, Watching
<1> QED  BY <1>2, <1>3, <1>4 DEF HNext

\* The observer stays well formed beside the context it watches.
THEOREM HTypeCorrect == HSpec => []HTypeOK
<1>1. HInit => Watching
  <2>1. 0 \in 0..MaxSince  BY DEF MaxSince
  <2> QED  BY <2>1 DEF HInit, Watching
<1>2. SoundInv => TypeOK  BY DEF SoundInv, Sound, TypeOK
<1>3. TypeOK /\ Watching => HTypeOK  BY DEF Watching, HTypeOK
<1> QED  BY <1>1, <1>2, <1>3, StepWatching, ObservedSpec, SoundAlways, PTL DEF HSpec

-----------------------------------------------------------------------------
\* How long the current instruction has run, and what it wrote: no longer than the cycle of its
\* slot says, and exactly so in an interrupt sequence. Reset and a jam are not measured.
Timed ==
  /\ Store[cpu.microcode] = "dispatch" => since = 0 /\ writes = 0
  /\ tick.status = "jammed" \/ Resetting(cpu.microcode) \/ since <= CycleOf(cpu.microcode)
  /\ cpu.microcode \in EntrySlots \cap Runs =>
       /\ since = CycleOf(cpu.microcode)
       /\ writes = PushesBefore(CycleOf(cpu.microcode))

LEMMA CycleRange == ASSUME NEW i \in Int PROVE CycleOf(i) \in 0..7
  BY DEF CycleOf

LEMMA PushesRange == ASSUME NEW k \in 0..7 PROVE PushesBefore(k) \in 0..3
  BY DEF PushesBefore

\* A fetch starts the count again, also when an interrupt is entered in place of the dispatch.
LEMMA FetchTimed ==
  ASSUME cpu' \in Cpu, since' = 0, writes' = 0,
         \/ cpu'.microcode \notin EntrySlots \cap Runs
         \/ \E m \in Models, slot \in {nmi, irq} : cpu'.microcode = IDX(m, slot, 0)
  PROVE  Timed'
<1>1. CycleOf(cpu'.microcode) \in 0..7
  <2>1. cpu'.microcode \in Int  BY DEF Cpu
  <2> QED  BY <2>1, CycleRange
<1>2. cpu'.microcode \in EntrySlots \cap Runs => CycleOf(cpu'.microcode) = 0
  BY Starts
<1>3. PushesBefore(0) = 0  BY DEF PushesBefore
<1> QED  BY <1>1, <1>2, <1>3 DEF Timed

LEMMA TickTimed ==
  ASSUME FlowInv, Watching, Timed, HTick PROVE Timed'
<1>1. /\ Sound(cpu) /\ cpu \in Cpu /\ cpu.model \in Models /\ cpu.microcode \in Live
      /\ tick.status = "jammed" => Store[cpu.microcode] = "kil_jam_loop"
  BY DEF FlowInv, SoundInv, Sound, Flowing, Cpu
<1>2. PICK o \in TickOutcomes(cpu) : cpu' = o.cpu /\ tick' = o.tick
  BY DEF HTick, Tick, Becomes
<1>3. PICK n \in Sources(cpu) : \E b : Flows(cpu, n, b, o)  BY <1>1, <1>2, TickFlows
<1>4. PICK a : Flows(cpu, n, a, o)  BY <1>3
<1>5. n \in Runs /\ n \in Int /\ a \in From(n, cpu.model)
  BY <1>1, <1>4, SourcesRun, SourcesInt DEF Flows, From
<1>6. cpu' \in Cpu /\ cpu'.microcode \in Int
  BY <1>1, <1>2, TickSound DEF Sound, Cpu
<1>7. /\ since \in 0..9 /\ writes \in 0..9 /\ CycleOf(n) \in 0..7
      /\ CycleOf(cpu'.microcode) \in 0..7
  BY <1>5, <1>6, CycleRange DEF Watching, MaxSince
<1>8. tick'.status = a.status  BY <1>2, <1>4 DEF Flows
<1>9. CASE a.status = "fetch"
  <2>1. since' = 0 /\ writes' = 0  BY <1>8, <1>9 DEF HTick, Observe
  <2>2. a.to \notin EntrySlots \cap Runs
    BY <1>1, <1>5, <1>9, EntryShape DEF EntryShape
  <2>3. \/ cpu'.microcode \notin EntrySlots \cap Runs
        \/ \E m \in Models, slot \in {nmi, irq} : cpu'.microcode = IDX(m, slot, 0)
    BY <1>1, <1>2, <1>4, <2>2 DEF Flows
  <2> QED  BY <1>6, <2>1, <2>3, FetchTimed
<1>10. CASE a.status # "fetch"
  <2>1. cpu'.microcode = a.to /\ a.to \in Runs
    BY <1>1, <1>2, <1>4, <1>5, <1>10, FlowClosed DEF FlowClosed, Flows
  <2>2. /\ since' = (IF since < 9 THEN since + 1 ELSE since)
        /\ writes' = (IF a.status = "write" /\ writes < 9 THEN writes + 1 ELSE writes)
    BY <1>8, <1>10 DEF HTick, Observe, MaxSince
  \* What the source of the arc has been given.
  <2>3. \/ /\ since = 0 /\ writes = 0 /\ CycleOf(n) = 0
           /\ tick.status # "jammed"
        \/ n = cpu.microcode
    <3>1. CASE Store[cpu.microcode] = "dispatch"
      <4>1. since = 0 /\ writes = 0 /\ tick.status # "jammed"
        BY <1>1, <3>1 DEF Timed
      <4>2. CycleOf(n) = 0  BY <1>1, <3>1, Starts DEF Sources
      <4> QED  BY <4>1, <4>2
    <3>2. CASE Store[cpu.microcode] # "dispatch"
      BY <3>2 DEF Sources
    <3> QED  BY <3>1, <3>2
  <2>4. a.status = "jammed" <=> Store[n] = "kil_jam_loop"
    BY <1>1, <1>5, QuietFlow DEF QuietFlow
  <2>5. tick'.status = "jammed" \/ Resetting(a.to) \/ since' <= CycleOf(a.to)
    <3>1. \/ a.status = "jammed" \/ Resetting(a.to)
          \/ ~Resetting(n) /\ CycleOf(a.to) > CycleOf(n)
      BY <1>1, <1>5, <1>10, FlowForward DEF FlowForward
    <3>2. ASSUME a.status # "jammed", ~Resetting(n) PROVE since <= CycleOf(n)
      <4>1. CASE n = cpu.microcode
        BY <1>1, <2>4, <3>2, <4>1 DEF Timed
      <4>2. CASE since = 0
        BY <1>7, <4>2
      <4> QED  BY <2>3, <4>1, <4>2
    <3>3. CycleOf(a.to) \in 0..7  BY <1>7, <2>1
    <3> QED  BY <1>7, <1>8, <2>2, <3>1, <3>2, <3>3
  <2>6. a.to \in EntrySlots \cap Runs =>
          since' = CycleOf(a.to) /\ writes' = PushesBefore(CycleOf(a.to))
    <3> SUFFICES ASSUME a.to \in EntrySlots \cap Runs
                 PROVE  since' = CycleOf(a.to) /\ writes' = PushesBefore(CycleOf(a.to))
      OBVIOUS
    <3>1. /\ n \in EntrySlots /\ CycleOf(a.to) = CycleOf(n) + 1
          /\ PushesBefore(CycleOf(a.to)) =
               PushesBefore(CycleOf(n)) + (IF a.status = "write" THEN 1 ELSE 0)
      BY <1>1, <1>5, EntryShape DEF EntryShape
    <3>2. since = CycleOf(n) /\ writes = PushesBefore(CycleOf(n))
      <4>1. PushesBefore(0) = 0  BY DEF PushesBefore
      <4> QED  BY <1>5, <2>3, <3>1, <4>1 DEF Timed
    <3>3. PushesBefore(CycleOf(n)) \in 0..3  BY <1>7, PushesRange
    <3> QED  BY <1>7, <2>2, <3>1, <3>2, <3>3
  <2> QED  BY <2>1, <2>5, <2>6 DEF Timed, Runs
<1> QED  BY <1>9, <1>10

LEMMA StepTimed == FlowInv /\ Watching /\ Timed /\ [HNext]_hvars => Timed'
<1> SUFFICES ASSUME FlowInv, Watching, Timed, [HNext]_hvars PROVE Timed'  OBVIOUS
<1>1. Sound(cpu) /\ cpu \in Cpu /\ cpu.model \in Models
  BY DEF FlowInv, SoundInv, Sound, Cpu
<1>2. CASE HTick
  BY <1>2, TickTimed
<1>3. CASE HGoto
  <2>1. PICK o \in GotoOutcomes(cpu) : cpu' = o.cpu /\ tick' = o.tick
    BY <1>3 DEF HGoto, Goto, Becomes
  <2>2. /\ tick'.status = "fetch" /\ cpu' \in Cpu
        /\ \/ cpu'.microcode = IDX(cpu.model, goto, 1)
           \/ \E slot \in {nmi, irq} : cpu'.microcode = IDX(cpu.model, slot, 0)
    BY <1>1, <2>1, GotoFlows, GotoSound DEF Sound
  <2>3. since' = 0 /\ writes' = 0  BY <1>3, <2>2 DEF HGoto, Observe
  <2> QED  BY <1>1, <2>2, <2>3, GotoOutside, FetchTimed
<1>4. CASE HRestart
  <2>1. since' = 0 /\ writes' = 0  BY <1>4 DEF HRestart, Forget
  <2>2. cpu' \in Cpu /\ cpu'.microcode = IDX(cpu.model, internal_reset, 0)
    BY <1>1, <1>4, RestartFlows, RestartSound DEF HRestart, Restart, Becomes, Sound
  <2>3. cpu'.microcode \notin EntrySlots
    <3>1. SlotOf(IDX(cpu.model, internal_reset, 0)) = internal_reset  BY <1>1, Starts
    <3> QED  BY <2>2, <3>1 DEF EntrySlots, internal_reset, nmi, irq
  <2> QED  BY <2>1, <2>2, <2>3, FetchTimed
<1>5. CASE HPins \/ HSetP \/ UNCHANGED hvars
  <2>1. tick' = tick /\ cpu'.microcode = cpu.microcode /\ since' = since /\ writes' = writes
    BY <1>1, <1>5, PinsKeep DEF history
  <2> QED  BY <2>1 DEF Timed
<1> QED  BY <1>2, <1>3, <1>4, <1>5 DEF HNext

LEMMA InitTimed == HInit => Timed
<1> SUFFICES ASSUME HInit PROVE Timed  OBVIOUS
<1>1. since = 0 /\ writes = 0 /\ cpu \in Cpu /\ Flowing(cpu, tick)
  BY InitFlow DEF HInit, FlowInv, SoundInv, Sound
<1>2. PICK model \in Models :
        \E o \in {RestartOutcome(Setup(model))} \cup GotoOutcomes(Setup(model)) :
          cpu = o.cpu /\ tick = o.tick
  BY DEF HInit, Init
<1>3. Sound(Setup(model)) /\ Setup(model).model = model /\ Untaken(Setup(model))
  BY SetupSound DEF Setup, Untaken
<1>4. cpu.microcode \in {IDX(model, internal_reset, 0), IDX(model, goto, 1)}
  BY <1>2, <1>3, GotoFlows, RestartFlows
<1>5. cpu.microcode \notin EntrySlots
  <2>1. SlotOf(IDX(model, internal_reset, 0)) = internal_reset  BY Starts
  <2>2. IDX(model, internal_reset, 0) \notin EntrySlots
    BY <2>1 DEF EntrySlots, internal_reset, nmi, irq
  <2> QED  BY <1>4, <2>2, GotoOutside
<1>6. CycleOf(cpu.microcode) \in 0..7
  <2>1. cpu.microcode \in Int  BY <1>1 DEF Cpu
  <2> QED  BY <2>1, CycleRange
<1> QED  BY <1>1, <1>5, <1>6 DEF Timed

LEMMA TimedAlways == HSpec => [](FlowInv /\ Watching /\ Timed)
<1>1. HInit => FlowInv /\ Watching
  <2>1. 0 \in 0..MaxSince  BY DEF MaxSince
  <2> QED  BY <2>1, InitFlow DEF HInit, Watching
<1>2. FlowInv => SoundInv  BY DEF FlowInv
<1> QED  BY <1>1, <1>2, InitTimed, StepTimed, StepFlow, StepWatching, Watches, PTL DEF HSpec

\* No instruction runs longer than its eight entries, whatever page crossings, decimal cycles,
\* interrupts and calls of the host do to it.
THEOREM InstructionLengthAlways == HSpec => []InstructionLength
<1>1. FlowInv /\ Watching /\ Timed => InstructionLength
  <2> SUFFICES ASSUME FlowInv, Watching, Timed, since > 7, tick.status # "jammed"
               PROVE  Slot(cpu) \in {internal_reset, reset_0, reset_0 + 1}
    BY DEF InstructionLength
  <2>1. cpu.microcode \in Int  BY DEF FlowInv, SoundInv, Sound, Cpu
  <2>2. CycleOf(cpu.microcode) \in 0..7  BY <2>1, CycleRange
  <2>3. Resetting(cpu.microcode) \/ since <= CycleOf(cpu.microcode)  BY DEF Timed
  <2>4. CASE Resetting(cpu.microcode)
    BY <2>4 DEF Resetting, SlotOf, Slot
  <2>5. CASE since <= CycleOf(cpu.microcode)
    BY <2>2, <2>5 DEF Watching, MaxSince
  <2> QED  BY <2>3, <2>4, <2>5
<1> QED  BY <1>1, TimedAlways, PTL

\* The first fetch of a handler comes seven ticks and three writes after the fetch it replaced,
\* also when the sequence changed slots on the way.
THEOREM EntryFrameAlways == HSpec => []EntryFrame
<1>1. FlowInv /\ Timed => EntryFrame
  <2> SUFFICES ASSUME FlowInv, Timed, VectorFetchNext PROVE since = 6 /\ writes = 3
    BY DEF EntryFrame
  <2>1. /\ cpu.microcode \in Live /\ Store[cpu.microcode] = "latch_pch_fetch"
        /\ SlotOf(cpu.microcode) \in {0, nmi, irq}
    BY DEF FlowInv, Flowing, VectorFetchNext, Slot, SlotOf
  <2>2. cpu.microcode \in EntrySlots \cap Runs  BY <2>1 DEF EntrySlots, Runs
  <2>3. CycleOf(cpu.microcode) = 6  BY <2>1, <2>2, EntryShape DEF EntryShape
  <2> QED  BY <2>2, <2>3 DEF Timed, PushesBefore
<1> QED  BY <1>1, TimedAlways, PTL

-----------------------------------------------------------------------------
\* Indices of the interrupt sequences.
LEMMA FirstApart ==
  ASSUME NEW m \in Models PROVE IDX(m, nmi, 0) # IDX(m, irq, 0)
<1>1. SlotOf(IDX(m, nmi, 0)) = nmi /\ SlotOf(IDX(m, irq, 0)) = irq  BY Starts
<1> QED  BY <1>1 DEF nmi, irq

LEMMA Fifth ==
  ASSUME NEW m \in Models, NEW slot \in {nmi, irq}
  PROVE  /\ SlotOf(IDX(m, slot, 4)) = slot /\ CycleOf(IDX(m, slot, 4)) = 4
         /\ \A i \in Int : i + 1 = IDX(m, slot, 4) => SlotOf(i) = slot /\ CycleOf(i) = 3
<1>1. m \in Nat /\ slot \in 262..263  BY IndexAssumption DEF IndexAssumption, nmi, irq
<1>2. (m * 4096 + slot * 8 + 4) \div 8 = m * 512 + slot /\ (m * 4096 + slot * 8 + 4) % 8 = 4
  BY <1>1
<1>3. (m * 4096 + slot * 8 + 3) \div 8 = m * 512 + slot /\ (m * 4096 + slot * 8 + 3) % 8 = 3
  BY <1>1
<1>4. (m * 512 + slot) % 512 = slot  BY <1>1
<1>5. ASSUME NEW i \in Int, i + 1 = IDX(m, slot, 4) PROVE SlotOf(i) = slot /\ CycleOf(i) = 3
  <2>1. i = m * 4096 + slot * 8 + 3  BY <1>1, <1>5 DEF IDX
  <2> QED  BY <1>3, <1>4, <2>1 DEF SlotOf, CycleOf
<1> QED  BY <1>2, <1>4, <1>5 DEF SlotOf, CycleOf, IDX

\* The first entry of an opcode belongs to neither interrupt, so where one of theirs runs it is the
\* processor's own place.
LEMMA OwnPlace ==
  ASSUME NEW c \in Cpu, NEW n \in Sources(c), SlotOf(n) \in {nmi, irq} PROVE n = c.microcode
<1>1. c.model \in Models /\ Opcodes \subseteq 0..255
  BY IndexAssumption DEF Cpu, IndexAssumption
<1>2. ASSUME NEW opcode \in Opcodes, n = IDX(c.model, opcode, 0) PROVE FALSE
  <2>1. SlotOf(n) = opcode  BY <1>1, <1>2, Starts
  <2> QED  BY <1>1, <2>1 DEF nmi, irq
<1> QED  BY <1>2 DEF Sources

LEMMA Entry == ASSUME NEW c, c.microcode \in Live PROVE InNmiEntry(c) <=> c.microcode \in NmiEntry
  BY DEF InNmiEntry, Slot, Cycle, NmiEntry, SlotOf, CycleOf

\* A place in the NMI sequence is no dispatch, so its own handler runs.
LEMMA EntryRuns ==
  ASSUME NEW c \in Cpu, NEW n \in Sources(c) PROVE c.microcode \in NmiEntry <=> n \in NmiEntry
<1>1. c.microcode \in NmiEntry => n = c.microcode
  <2>1. c.microcode \in NmiEntry => Store[c.microcode] # "dispatch"
    BY NmiShape DEF NmiShape, Runs
  <2> QED  BY <2>1 DEF Sources
<1>2. n \in NmiEntry => n = c.microcode  BY OwnPlace DEF NmiEntry
<1> QED  BY <1>1, <1>2

-----------------------------------------------------------------------------
\* The interrupt that the polls since the last fetch call for is the one chosen.
Chosen(c, d) == d = (IF c.nmi_taken THEN "nmi" ELSE IF c.irq_taken THEN "irq" ELSE "none")

\* A fetch enters the interrupt chosen, and no other.
LEMMA EntersTaken ==
  ASSUME FlowInv, NEW o, cpu' = o.cpu, o.cpu.model = cpu.model,
         NEW a, \A slot \in {nmi, irq} : a.to # IDX(cpu.model, slot, 0),
         \/ HandsOver(cpu, a, o)
         \/ Untaken(cpu) /\ o.cpu.microcode = a.to
  PROVE  (Enters(irq) <=> cpu.irq_taken) /\ (Enters(nmi) <=> cpu.nmi_taken)
<1>1. /\ cpu.model \in Models
      /\ cpu.microcode \in Quiet => Untaken(cpu)
      /\ ~(cpu.nmi_taken /\ cpu.irq_taken)
      /\ cpu.nmi_taken \in BOOLEAN /\ cpu.irq_taken \in BOOLEAN
  BY DEF FlowInv, SoundInv, Sound, Flowing, Cpu
<1>2. IDX(cpu.model, nmi, 0) \in Quiet /\ IDX(cpu.model, irq, 0) \in Quiet
  <2>1. ASSUME NEW slot \in {nmi, irq} PROVE IDX(cpu.model, slot, 0) \in EntrySlots
    <3>1. IDX(cpu.model, slot, 0) \in Live  BY <1>1, EntriesRun
    <3>2. SlotOf(IDX(cpu.model, slot, 0)) = slot  BY <1>1, Starts
    <3> QED  BY <3>1, <3>2 DEF EntrySlots
  <2> QED  BY <2>1 DEF Quiet
<1>3. CASE HandsOver(cpu, a, o)
  BY <1>1, <1>2, <1>3, FirstApart DEF HandsOver, Enters, Untaken
<1>4. CASE Untaken(cpu) /\ o.cpu.microcode = a.to
  BY <1>1, <1>4 DEF Enters, Untaken
<1> QED  BY <1>3, <1>4

PollDecision ==
  tick'.status = "fetch" /\ since' = 0 =>
    /\ Enters(irq) <=> (decided = "irq" /\ decided' = "none")
    /\ Enters(nmi) <=> (decided = "nmi" /\ decided' = "none")

LEMMA StepDecides ==
  ASSUME FlowInv, Chosen(cpu, decided), [HNext]_hvars PROVE PollDecision
<1>1. /\ Sound(cpu) /\ cpu \in Cpu /\ cpu.model \in Models /\ Flowing(cpu, tick)
      /\ cpu.microcode \in Live /\ ~(cpu.nmi_taken /\ cpu.irq_taken)
      /\ cpu.nmi_taken \in BOOLEAN /\ cpu.irq_taken \in BOOLEAN
  BY DEF FlowInv, SoundInv, Sound, Flowing, Cpu
<1>2. (decided = "irq" <=> cpu.irq_taken) /\ (decided = "nmi" <=> cpu.nmi_taken)
  BY <1>1 DEF Chosen
<1>3. ASSUME (Enters(irq) <=> cpu.irq_taken) /\ (Enters(nmi) <=> cpu.nmi_taken),
             decided' = "none"
      PROVE  PollDecision
  BY <1>2, <1>3 DEF PollDecision
<1>4. CASE HTick
  <2> SUFFICES ASSUME tick'.status = "fetch" PROVE PollDecision  BY DEF PollDecision
  <2>1. decided' = "none"  BY <1>4 DEF HTick, Observe
  <2>2. PICK o \in TickOutcomes(cpu) : cpu' = o.cpu /\ tick' = o.tick
    BY <1>4 DEF HTick, Tick, Becomes
  <2>3. PICK n \in Sources(cpu) : \E a : Flows(cpu, n, a, o) /\ Serves(Store[n], cpu, n, a, o)
    BY <1>1, <2>2, TickServes
  <2>4. PICK a : Flows(cpu, n, a, o) /\ Serves(Store[n], cpu, n, a, o)  BY <2>3
  <2>5. n \in Runs /\ a \in From(n, cpu.model) /\ a.status = "fetch" /\ o.cpu.model = cpu.model
    BY <1>1, <2>2, <2>4, SourcesRun DEF Flows, From
  <2>6. ~a.polled  BY <1>1, <2>5, FlowClosed DEF FlowClosed
  <2>7. \A slot \in {nmi, irq} : a.to # IDX(cpu.model, slot, 0)
    BY <1>1, <2>5, EntriesGuarded DEF EntriesGuarded
  <2>8. \/ HandsOver(cpu, a, o)
        \/ Untaken(cpu) /\ o.cpu.microcode = a.to
    BY <2>4, <2>5, <2>6 DEF Serves, Tends, PollsAt, PassesOn
  <2> QED  BY <1>3, <2>1, <2>2, <2>5, <2>7, <2>8, EntersTaken
<1>5. CASE HGoto
  <2>1. PICK o \in GotoOutcomes(cpu) : cpu' = o.cpu /\ tick' = o.tick
    BY <1>5 DEF HGoto, Goto, Becomes
  <2>2. /\ o.cpu.model = cpu.model /\ o.tick.status = "fetch"
        /\ \E a : /\ a.to = IDX(cpu.model, goto, 1) /\ a.status = "fetch"
                  /\ HandsOver(cpu, a, o) \/ PassesOn(cpu, a, o)
    BY <1>1, GotoServes
  <2>3. PICK a : /\ a.to = IDX(cpu.model, goto, 1) /\ a.status = "fetch"
                 /\ HandsOver(cpu, a, o) \/ PassesOn(cpu, a, o)
    BY <2>2
  <2>4. decided' = "none"  BY <1>5, <2>1, <2>2 DEF HGoto, Observe
  <2>5. \A slot \in {nmi, irq} : a.to # IDX(cpu.model, slot, 0)
    <3>1. ASSUME NEW slot \in {nmi, irq} PROVE IDX(cpu.model, slot, 0) \in EntrySlots
      <4>1. IDX(cpu.model, slot, 0) \in Live  BY <1>1, EntriesRun
      <4>2. SlotOf(IDX(cpu.model, slot, 0)) = slot  BY <1>1, Starts
      <4> QED  BY <4>1, <4>2 DEF EntrySlots
    <3>2. a.to \notin EntrySlots  BY <1>1, <2>3, GotoOutside
    <3> QED  BY <3>1, <3>2
  <2>6. \/ HandsOver(cpu, a, o)
        \/ Untaken(cpu) /\ o.cpu.microcode = a.to
    BY <2>3 DEF PassesOn
  <2> QED  BY <1>3, <2>1, <2>2, <2>4, <2>5, <2>6, EntersTaken
<1>6. CASE HRestart
  <2>1. tick'.status # "fetch"
    BY <1>6 DEF HRestart, Restart, Becomes, RestartOutcome, Bus, StatusOf, WriteHandlers,
                PlainWrites, FetchHandlers, PlainFetches
  <2> QED  BY <2>1 DEF PollDecision
<1>7. CASE HPins \/ HSetP \/ UNCHANGED hvars
  <2>1. cpu'.microcode = cpu.microcode /\ decided' = decided
    BY <1>1, <1>7, PinsKeep DEF history
  <2> QED  BY <2>1 DEF PollDecision, Enters
<1> QED  BY <1>4, <1>5, <1>6, <1>7 DEF HNext

\* The polls and the observer agree, step by step, as long as they see the same edges and no
\* IRQ takes a chosen NMI's place.
LEMMA TickChooses ==
  ASSUME FlowInv, Chosen(cpu, decided), HTick \/ HGoto,
         cpu.nmi_taken => ~cpu.irq_pin,
         tick'.polled /\ ~cpu.nmi_taken => (owed \/ FreshEdge <=> Edge(cpu))
  PROVE  Chosen(cpu', decided')
<1>1. /\ Sound(cpu) /\ cpu \in Cpu /\ Flowing(cpu, tick) /\ cpu.microcode \in Live
      /\ cpu.nmi_taken \in BOOLEAN /\ cpu.irq_taken \in BOOLEAN
      /\ ~(cpu.nmi_taken /\ cpu.irq_taken)
  BY DEF FlowInv, SoundInv, Sound, Flowing, Cpu
<1>2. CASE HTick
  <2>1. PICK o \in TickOutcomes(cpu) : cpu' = o.cpu /\ tick' = o.tick
    BY <1>2 DEF HTick, Tick, Becomes
  <2>2. PICK n \in Sources(cpu) : \E a : Flows(cpu, n, a, o) /\ Serves(Store[n], cpu, n, a, o)
    BY <1>1, <2>1, TickServes
  <2>3. PICK a : Flows(cpu, n, a, o) /\ Serves(Store[n], cpu, n, a, o)  BY <2>2
  <2>4. n \in Runs /\ a \in From(n, cpu.model) /\ cpu.model \in Models
    BY <1>1, <2>3, SourcesRun DEF Flows, From, Cpu
  <2>5. a.status = "fetch" => ~a.polled  BY <2>4, FlowClosed DEF FlowClosed
  <2>6. tick'.status = a.status /\ tick'.polled = a.polled  BY <2>1, <2>3 DEF Flows
  <2>7. decided' = IF a.status = "fetch" THEN "none"
                   ELSE IF ~a.polled \/ decided = "nmi" THEN decided
                   ELSE IF owed \/ FreshEdge THEN "nmi"
                   ELSE IF cpu.irq_pin /\ ~cpu.I THEN "irq" ELSE decided
    BY <1>2, <2>6 DEF HTick, Observe
  <2>8. CASE Tends(Store[n], cpu, n, a, o)
    BY <1>1, <2>1, <2>7, <2>8 DEF Tends, Chosen, Untaken
  <2>9. CASE PollsAt(cpu, a, o)
    <3>1. /\ cpu'.nmi_taken = (Edge(cpu) \/ (cpu.nmi_taken /\ (cpu.I \/ ~cpu.irq_pin)))
          /\ cpu'.irq_taken = (~Edge(cpu) /\ (cpu.irq_taken \/ (~cpu.I /\ cpu.irq_pin)))
          /\ a.polled
      BY <2>1, <2>9 DEF PollsAt
    <3>2. CASE cpu.nmi_taken
      BY <1>1, <2>5, <2>7, <3>1, <3>2 DEF Chosen
    <3>3. CASE ~cpu.nmi_taken
      <4>1. owed \/ FreshEdge <=> Edge(cpu)  BY <2>6, <3>1, <3>3
      <4> QED  BY <1>1, <2>5, <2>7, <3>1, <3>3, <4>1 DEF Chosen
    <3> QED  BY <3>2, <3>3
  <2>10. CASE HandsOver(cpu, a, o)
    BY <2>1, <2>7, <2>10 DEF HandsOver, Chosen, Untaken
  <2>11. CASE PassesOn(cpu, a, o)
    BY <2>1, <2>7, <2>11 DEF PassesOn, Chosen, Untaken
  <2> QED  BY <2>3, <2>8, <2>9, <2>10, <2>11 DEF Serves
<1>3. CASE HGoto
  <2>1. PICK o \in GotoOutcomes(cpu) : cpu' = o.cpu /\ tick' = o.tick
    BY <1>3 DEF HGoto, Goto, Becomes
  <2>2. /\ o.tick.status = "fetch"
        /\ \E a : a.status = "fetch" /\ (HandsOver(cpu, a, o) \/ PassesOn(cpu, a, o))
    BY <1>1, GotoServes
  <2>3. decided' = "none"  BY <1>3, <2>1, <2>2 DEF HGoto, Observe
  <2>4. Untaken(cpu')  BY <2>1, <2>2 DEF HandsOver, PassesOn, Untaken
  <2> QED  BY <2>3, <2>4 DEF Chosen, Untaken
<1> QED  BY <1>2, <1>3

\* The cpu after a restart, and the one set up, hold nothing.
LEMMA RestartFresh ==
  ASSUME HRestart
  PROVE  /\ Untaken(cpu') /\ ~cpu'.nmi_edge /\ ~cpu'.nmi_pin /\ ~cpu'.nmi_last /\ ~cpu'.irq_pin
         /\ cpu'.microcode = IDX(cpu'.model, internal_reset, 0)
         /\ ~level' /\ ~owed' /\ decided' = "none"
<1>1. cpu' = RestartOutcome(cpu).cpu  BY DEF HRestart, Restart, Becomes
<1>2. LET d == RestartOutcome(cpu).cpu
      IN  /\ Untaken(d) /\ ~d.nmi_edge /\ ~d.nmi_pin /\ ~d.nmi_last /\ ~d.irq_pin
          /\ d.microcode = IDX(d.model, internal_reset, 0)
  BY DEF RestartOutcome, Bus, EnterServiceSlot, Setup, Untaken
<1> QED  BY <1>1, <1>2 DEF HRestart, Forget

LEMMA InitFresh ==
  ASSUME HInit
  PROVE  /\ Untaken(cpu) /\ ~cpu.nmi_edge /\ ~cpu.nmi_pin /\ ~cpu.nmi_last /\ ~cpu.irq_pin
         /\ cpu.model \in Models
         /\ cpu.microcode \in {IDX(cpu.model, internal_reset, 0), IDX(cpu.model, goto, 1)}
         /\ ~level /\ ~owed /\ decided = "none"
<1>1. PICK model \in Models :
        \E o \in {RestartOutcome(Setup(model))} \cup GotoOutcomes(Setup(model)) : cpu = o.cpu
  BY DEF HInit, Init
<1> DEFINE s == Setup(model)
<1>2. /\ Untaken(s) /\ ~s.nmi_edge /\ ~s.nmi_pin /\ ~s.nmi_last /\ ~s.irq_pin
      /\ s.model = model /\ s.sampling_off = FALSE /\ s.service_mode = FALSE
  BY DEF Setup, Untaken
<1>3. Sound(s)  BY SetupSound
<1> HIDE DEF s
<1>4. PICK o \in {RestartOutcome(s)} \cup GotoOutcomes(s) : cpu = o.cpu  BY <1>1 DEF s
<1>5. CASE o = RestartOutcome(s)
  <2>1. LET d == RestartOutcome(s).cpu
        IN  /\ Untaken(d) /\ ~d.nmi_edge /\ ~d.nmi_pin /\ ~d.nmi_last /\ ~d.irq_pin
            /\ d.microcode = IDX(d.model, internal_reset, 0) /\ d.model = s.model
    BY DEF RestartOutcome, Bus, EnterServiceSlot, Setup, Untaken
  <2> QED  BY <1>2, <1>4, <1>5, <2>1 DEF HInit
<1>6. CASE o \in GotoOutcomes(s)
  <2>1. /\ o.cpu.model = model /\ ~o.cpu.nmi_pin /\ ~o.cpu.irq_pin
        /\ \E a : /\ a.to = IDX(model, goto, 1)
                  /\ HandsOver(s, a, o) \/ PassesOn(s, a, o)
    BY <1>2, <1>3, <1>6, GotoServes
  <2>2. ~Edge(s)  BY <1>2 DEF Edge
  <2>3. /\ o.cpu.microcode = IDX(model, goto, 1)
        /\ Untaken(o.cpu) /\ ~o.cpu.nmi_edge
    BY <1>2, <2>1, <2>2 DEF HandsOver, PassesOn, Untaken
  <2>4. ~o.cpu.nmi_last
    <3>1. Synced(s)  BY <1>2, <1>3 DEF Synced, Sound, Cpu
    <3>2. Synced(o.cpu)  BY <1>3, <1>6, <3>1, GotoSynced
    <3> QED  BY <2>1, <3>2 DEF Synced
  <2> QED  BY <1>4, <2>1, <2>3, <2>4 DEF HInit
<1> QED  BY <1>4, <1>5, <1>6

\* Without an NMI the polls decide: nothing is latched, and no second poll can change the choice.
Resting ==
  /\ ~cpu.nmi_pin /\ ~cpu.nmi_last /\ ~cpu.nmi_edge /\ ~cpu.nmi_taken
  /\ ~level /\ ~owed /\ Chosen(cpu, decided)

LEMMA StepResting ==
  ASSUME "nmi" \notin Host, FlowInv, Resting, [HNext]_hvars PROVE Resting'
<1>1. /\ Sound(cpu) /\ cpu \in Cpu /\ Flowing(cpu, tick) /\ ~Edge(cpu) /\ Synced(cpu)
      /\ ~FreshEdge
  BY DEF FlowInv, SoundInv, Sound, Cpu, Resting, Edge, Synced, FreshEdge
<1>2. ASSUME NEW o, cpu' = o.cpu, HTick \/ HGoto,
             o.cpu.nmi_pin = cpu.nmi_pin, Synced(o.cpu),
             o.cpu.nmi_edge => Edge(cpu), o.cpu.nmi_taken => Edge(cpu) \/ cpu.nmi_taken
      PROVE  Resting'
  <2>1. Chosen(cpu', decided')  BY <1>1, <1>2, TickChooses DEF Resting
  <2>2. ~level' /\ ~owed'  BY <1>1, <1>2 DEF HTick, HGoto, Observe, Resting
  <2> QED  BY <1>1, <1>2, <2>1, <2>2 DEF Resting, Synced
<1>3. CASE HTick
  <2>1. PICK o \in TickOutcomes(cpu) : cpu' = o.cpu /\ tick' = o.tick
    BY <1>3 DEF HTick, Tick, Becomes
  <2>2. PICK n \in Sources(cpu) : \E a : Flows(cpu, n, a, o) /\ Serves(Store[n], cpu, n, a, o)
    BY <1>1, <2>1, TickServes
  <2>3. PICK a : Serves(Store[n], cpu, n, a, o)  BY <2>2
  <2>4. Synced(o.cpu) /\ o.cpu.nmi_pin = cpu.nmi_pin  BY <1>1, TickSynced
  <2>5. /\ o.cpu.nmi_edge => Edge(cpu)
        /\ o.cpu.nmi_taken => Edge(cpu) \/ cpu.nmi_taken
    BY <2>3 DEF Serves, Tends, PollsAt, HandsOver, PassesOn, Untaken
  <2> QED  BY <1>2, <1>3, <2>1, <2>4, <2>5
<1>4. CASE HGoto
  <2>1. PICK o \in GotoOutcomes(cpu) : cpu' = o.cpu  BY <1>4 DEF HGoto, Goto, Becomes
  <2>2. \E a : HandsOver(cpu, a, o) \/ PassesOn(cpu, a, o)  BY <1>1, GotoServes
  <2>3. Synced(o.cpu) /\ o.cpu.nmi_pin = cpu.nmi_pin  BY <1>1, GotoSynced
  <2>4. /\ o.cpu.nmi_edge => Edge(cpu)
        /\ o.cpu.nmi_taken => Edge(cpu) \/ cpu.nmi_taken
    BY <2>2 DEF HandsOver, PassesOn, Untaken
  <2> QED  BY <1>2, <1>4, <2>1, <2>3, <2>4
<1>5. CASE HRestart
  BY <1>5, RestartFresh DEF Resting, Chosen, Untaken
<1>6. CASE HPins \/ HSetP \/ UNCHANGED hvars
  <2>1. /\ UNCHANGED history
        /\ cpu'.nmi_last = cpu.nmi_last /\ cpu'.nmi_edge = cpu.nmi_edge
        /\ cpu'.nmi_taken = cpu.nmi_taken /\ cpu'.irq_taken = cpu.irq_taken
        /\ cpu'.nmi_pin = cpu.nmi_pin
    BY <1>1, <1>6, PinsKeep
  <2> QED  BY <2>1 DEF Resting, Chosen, history
<1> QED  BY <1>3, <1>4, <1>5, <1>6 DEF HNext

\* With an IRQ line only, a fetch hands over to it exactly when a poll of the instruction that ends
\* called for it, on every model and whatever else the host calls.
THEOREM PollDecidesIrq == ASSUME "nmi" \notin Host PROVE HSpec => PollDecides
<1>1. HInit => Resting  BY InitFresh DEF Resting, Chosen, Untaken
<1>2. FlowInv /\ Resting /\ [HNext]_hvars => Resting'  BY StepResting
<1>3. FlowInv /\ Resting /\ [HNext]_hvars => [PollDecision]_hvars
  BY StepDecides DEF Resting
<1> QED
  BY <1>1, <1>2, <1>3, TimedAlways, PTL DEF HSpec, PollDecides, PollDecision

-----------------------------------------------------------------------------
\* Where a latched edge goes in a tick: it stays, is chosen, or belongs to the NMI sequence; only the
\* vector read of the CMOS IRQ sequence drops it.
LEMMA EdgeGoesOn ==
  ASSUME NEW c, Sound(c), c.microcode \in Live, NEW n \in Sources(c), NEW a, NEW o,
         Flows(c, n, a, o), Serves(Store[n], c, n, a, o), Edge(c)
  PROVE  \/ o.cpu.nmi_edge \/ o.cpu.nmi_taken \/ InNmiEntry(c) \/ InNmiEntry(o.cpu)
         \/ Store[n] = "cmos_irq_c5_vec_hi"
<1>1. c \in Cpu /\ c.model \in Models /\ n \in Runs  BY SourcesRun DEF Sound, Cpu
<1>2. CASE Tends(Store[n], c, n, a, o) /\ Store[n] \in Yielding
  <2>1. o.cpu.microcode = IDX(c.model, nmi, 4)  BY <1>2 DEF Tends
  <2>2. SlotOf(o.cpu.microcode) = nmi /\ CycleOf(o.cpu.microcode) = 4  BY <1>1, <2>1, Fifth
  <2> QED  BY <2>2 DEF InNmiEntry, Slot, Cycle, SlotOf, CycleOf
<1>3. CASE Tends(Store[n], c, n, a, o) /\ Store[n] \notin Yielding /\ ~o.cpu.nmi_edge
  <2>1. Store[n] \in {"nmi_c3_push_p", "cmos_nmi_c3_push_p", "cmos_nmi_c5_vec_hi",
                      "cmos_irq_c5_vec_hi"}
    BY <1>3 DEF Tends
  <2>2. Store[n] = "cmos_irq_c5_vec_hi" \/ n \in NmiEntry  BY <1>1, <2>1, NmiShape DEF NmiShape
  <2>3. n \in NmiEntry => InNmiEntry(c)  BY <1>1, EntryRuns, Entry
  <2> QED  BY <2>2, <2>3
<1>4. CASE PollsAt(c, a, o) \/ HandsOver(c, a, o) \/ PassesOn(c, a, o)
  BY <1>4 DEF PollsAt, HandsOver, PassesOn
<1> QED  BY <1>2, <1>3, <1>4 DEF Serves

\* Without an IRQ the IRQ sequence is never entered, not even by BRK giving way to it.
Silent == ~cpu.irq_pin /\ ~cpu.irq_taken /\ SlotOf(cpu.microcode) # irq

LEMMA StepSilent ==
  ASSUME "irq" \notin Host, FlowInv, Silent, [HNext]_hvars PROVE Silent'
<1>1. /\ Sound(cpu) /\ cpu \in Cpu /\ cpu.model \in Models /\ Flowing(cpu, tick)
      /\ cpu.microcode \in Live
  BY DEF FlowInv, SoundInv, Sound, Flowing, Cpu
<1>2. \A m \in Models : \A slot \in {internal_reset, nmi} : SlotOf(IDX(m, slot, 0)) # irq
  BY Starts DEF internal_reset, nmi, irq
<1>3. ASSUME NEW a, NEW o, HandsOver(cpu, a, o) PROVE cpu.nmi_taken
  BY <1>3 DEF HandsOver, Untaken, Silent
<1>4. CASE HTick
  <2>1. PICK o \in TickOutcomes(cpu) : cpu' = o.cpu /\ tick' = o.tick
    BY <1>4 DEF HTick, Tick, Becomes
  <2>2. PICK n \in Sources(cpu) : \E a : Flows(cpu, n, a, o) /\ Serves(Store[n], cpu, n, a, o)
    BY <1>1, <2>1, TickServes
  <2>3. PICK a : Flows(cpu, n, a, o) /\ Serves(Store[n], cpu, n, a, o)  BY <2>2
  <2>4. n \in Runs /\ a \in From(n, cpu.model) /\ n \in Int
    BY <1>1, <2>3, SourcesRun, SourcesInt DEF Flows, From
  <2>5. ~o.cpu.irq_pin /\ ~o.cpu.irq_taken
    BY <2>3 DEF Silent, Serves, Tends, PollsAt, HandsOver, PassesOn, Untaken
  <2>6. SlotOf(n) # irq
    <3>1. SlotOf(n) = irq => n = cpu.microcode  BY <1>1, OwnPlace
    <3> QED  BY <3>1 DEF Silent
  <2>7. ASSUME o.cpu.microcode = a.to, Store[n] \in Yielding => Tends(Store[n], cpu, n, a, o)
        PROVE  SlotOf(o.cpu.microcode) # irq
    <3> SUFFICES ASSUME SlotOf(a.to) = irq PROVE FALSE  BY <2>7
    <3>1. Store[n] \in Yielding /\ a.to = IDX(cpu.model, irq, 4)
      BY <1>1, <2>4, <2>6, NmiShape DEF NmiShape
    <3>2. a.to \in {IDX(cpu.model, nmi, 4), n + 1}  BY <2>7, <3>1 DEF Tends, Silent
    <3>3. SlotOf(IDX(cpu.model, nmi, 4)) = nmi  BY <1>1, Fifth
    <3>4. a.to # IDX(cpu.model, nmi, 4)  BY <3>3 DEF nmi, irq
    <3>5. n + 1 # IDX(cpu.model, irq, 4)  BY <1>1, <2>4, <2>6, Fifth
    <3> QED  BY <3>1, <3>2, <3>4, <3>5
  <2>8. SlotOf(o.cpu.microcode) # irq
    <3>1. CASE Store[n] \in Watchful
      <4>1. Tends(Store[n], cpu, n, a, o)  BY <2>3, <3>1 DEF Serves
      <4> QED  BY <2>7, <4>1 DEF Tends
    <3>2. CASE Store[n] \notin Watchful
      <4>1. Store[n] \notin Yielding  BY <3>2 DEF Watchful, Opening, Yielding
      <4>2. CASE HandsOver(cpu, a, o)
        BY <1>1, <1>2, <1>3, <4>2 DEF HandsOver
      <4>3. CASE PollsAt(cpu, a, o) \/ PassesOn(cpu, a, o)
        BY <2>7, <4>1, <4>3 DEF PollsAt, PassesOn
      <4> QED  BY <2>3, <3>2, <4>2, <4>3 DEF Serves
    <3> QED  BY <3>1, <3>2
  <2> QED  BY <2>1, <2>5, <2>8 DEF Silent
<1>5. CASE HGoto
  <2>1. PICK o \in GotoOutcomes(cpu) : cpu' = o.cpu  BY <1>5 DEF HGoto, Goto, Becomes
  <2>2. PICK a : /\ a.to = IDX(cpu.model, goto, 1)
                 /\ HandsOver(cpu, a, o) \/ PassesOn(cpu, a, o)
    BY <1>1, GotoServes
  <2>3. ~o.cpu.irq_pin  BY <1>1, GotoServes DEF Silent
  <2>4. CASE HandsOver(cpu, a, o)
    BY <1>1, <1>2, <1>3, <2>1, <2>3, <2>4 DEF HandsOver, Untaken, Silent
  <2>5. CASE PassesOn(cpu, a, o)
    <3>1. SlotOf(IDX(cpu.model, goto, 1)) # irq  BY <1>1, GotoSlot DEF goto, irq
    <3> QED  BY <2>1, <2>2, <2>3, <2>5, <3>1 DEF PassesOn, Silent
  <2> QED  BY <2>2, <2>4, <2>5
<1>6. CASE HRestart
  <2>1. cpu'.model \in Models  BY <1>1, <1>6, RestartFlows DEF HRestart, Restart, Becomes
  <2> QED  BY <1>2, <1>6, <2>1, RestartFresh DEF Silent, Untaken
<1>7. CASE HPins \/ HSetP \/ UNCHANGED hvars
  <2>1. /\ cpu'.irq_pin = cpu.irq_pin /\ cpu'.irq_taken = cpu.irq_taken
        /\ cpu'.microcode = cpu.microcode
    BY <1>1, <1>7, PinsKeep
  <2> QED  BY <2>1 DEF Silent
<1> QED  BY <1>4, <1>5, <1>6, <1>7 DEF HNext

LEMMA InitSilent == HInit => Silent
<1> SUFFICES ASSUME HInit PROVE Silent  OBVIOUS
<1>1. cpu.model \in Models  BY InitFresh
<1>2. SlotOf(IDX(cpu.model, internal_reset, 0)) # irq  BY <1>1, Starts DEF internal_reset, irq
<1>3. SlotOf(IDX(cpu.model, goto, 1)) # irq  BY <1>1, GotoSlot DEF goto, irq
<1> QED  BY <1>2, <1>3, InitFresh DEF Silent, Untaken

-----------------------------------------------------------------------------
EdgeKeeping ==
  cpu.nmi_edge /\ ~cpu'.nmi_edge =>
    cpu'.nmi_taken \/ InNmiEntry(cpu) \/ InNmiEntry(cpu') \/ Restarted

\* No step forgets a latched edge unless the vector of a CMOS IRQ sequence is being read.
LEMMA StepEdgeKept ==
  ASSUME FlowInv, [HNext]_hvars,
         \A n \in Runs \cap Sources(cpu) : Store[n] # "cmos_irq_c5_vec_hi"
  PROVE  EdgeKeeping
<1> SUFFICES ASSUME cpu.nmi_edge, ~cpu'.nmi_edge
             PROVE  cpu'.nmi_taken \/ InNmiEntry(cpu) \/ InNmiEntry(cpu') \/ Restarted
  BY DEF EdgeKeeping
<1>1. Sound(cpu) /\ cpu \in Cpu /\ Flowing(cpu, tick) /\ cpu.microcode \in Live /\ Edge(cpu)
  BY DEF FlowInv, SoundInv, Sound, Flowing, Edge
<1>2. CASE HTick
  <2>1. PICK o \in TickOutcomes(cpu) : cpu' = o.cpu  BY <1>2 DEF HTick, Tick, Becomes
  <2>2. PICK n \in Sources(cpu) : \E a : Flows(cpu, n, a, o) /\ Serves(Store[n], cpu, n, a, o)
    BY <1>1, TickServes
  <2>3. n \in Runs  BY <1>1, SourcesRun
  <2> QED  BY <1>1, <2>1, <2>2, <2>3, EdgeGoesOn
<1>3. CASE HGoto
  <2>1. PICK o \in GotoOutcomes(cpu) : cpu' = o.cpu  BY <1>3 DEF HGoto, Goto, Becomes
  <2>2. \E a : HandsOver(cpu, a, o) \/ PassesOn(cpu, a, o)  BY <1>1, GotoServes
  <2> QED  BY <1>1, <2>1, <2>2 DEF HandsOver, PassesOn
<1>4. CASE HRestart
  BY <1>4, RestartFresh DEF Restarted
<1>5. CASE HPins \/ HSetP \/ UNCHANGED hvars
  BY <1>1, <1>5, PinsKeep
<1> QED  BY <1>2, <1>3, <1>4, <1>5 DEF HNext

\* A latched edge is forgotten only by choosing it or by the NMI sequence, on every NMOS processor
\* whatever its host does, and on every processor without an IRQ. With both, CMOS drops it.
THEOREM EdgeKeptAlways ==
  ASSUME Models \subseteq NmosModels \/ "irq" \notin Host PROVE HSpec => EdgeKept
<1>1. CASE Models \subseteq NmosModels
  <2>1. FlowInv /\ [HNext]_hvars => [EdgeKeeping]_hvars
    <3>1. \A n \in Runs : Store[n] # "cmos_irq_c5_vec_hi"
      BY <1>1, NmiShape, WindowShape DEF NmiShape, WindowShape
    <3> QED  BY <3>1, StepEdgeKept
  <2> QED  BY <2>1, TimedAlways, PTL DEF HSpec, EdgeKept, EdgeKeeping
<1>2. CASE "irq" \notin Host
  <2>1. FlowInv /\ Silent /\ [HNext]_hvars => Silent'  BY <1>2, StepSilent
  <2>2. FlowInv /\ Silent /\ [HNext]_hvars => [EdgeKeeping]_hvars
    <3> SUFFICES ASSUME FlowInv, Silent, [HNext]_hvars PROVE EdgeKeeping  OBVIOUS
    <3>1. cpu \in Cpu  BY DEF FlowInv, SoundInv, Sound
    <3>2. ASSUME NEW n \in Runs \cap Sources(cpu) PROVE Store[n] # "cmos_irq_c5_vec_hi"
      <4>1. SlotOf(n) = irq => n = cpu.microcode  BY <3>1, OwnPlace
      <4> QED  BY <4>1, NmiShape DEF NmiShape, Silent
    <3> QED  BY <3>2, StepEdgeKept
  <2> QED  BY <2>1, <2>2, InitSilent, TimedAlways, PTL DEF HSpec, EdgeKept, EdgeKeeping
<1> QED  BY <1>1, <1>2

\* Where an interrupt is chosen, the instruction is past its poll.
Past == Untaken(cpu) \/ cpu.microcode \in PastPoll

LEMMA StepPast == PollsOnce /\ FlowInv /\ Past /\ [HNext]_hvars => Past'
<1> SUFFICES ASSUME PollsOnce, FlowInv, Past, [HNext]_hvars
             PROVE  Untaken(cpu') \/ cpu'.microcode \in PastPoll
  BY DEF Past, Untaken
<1>1. Sound(cpu) /\ cpu \in Cpu /\ cpu.model \in Models /\ Flowing(cpu, tick)
  BY DEF FlowInv, SoundInv, Sound, Cpu
<1>2. CASE HTick
  <2>1. PICK o \in TickOutcomes(cpu) : cpu' = o.cpu /\ tick' = o.tick
    BY <1>2 DEF HTick, Tick, Becomes
  <2>2. PICK n \in Sources(cpu) : \E a : Flows(cpu, n, a, o) /\ Serves(Store[n], cpu, n, a, o)
    BY <1>1, <2>1, TickServes
  <2>3. PICK a : Flows(cpu, n, a, o) /\ Serves(Store[n], cpu, n, a, o)  BY <2>2
  <2>4. n \in Runs /\ a \in From(n, cpu.model)  BY <1>1, <2>3, SourcesRun DEF Flows, From, Flowing
  <2>5. /\ a.polled => a.to \in PastPoll
        /\ n \in PastPoll /\ a.status # "fetch" => a.to \in PastPoll
    BY <1>1, <2>4 DEF PollsOnce
  <2>6. CASE Tends(Store[n], cpu, n, a, o) \/ HandsOver(cpu, a, o)
    BY <2>1, <2>6 DEF Tends, HandsOver
  <2>7. CASE PollsAt(cpu, a, o)
    BY <2>1, <2>5, <2>7 DEF PollsAt
  <2>8. CASE PassesOn(cpu, a, o) /\ ~Untaken(cpu)
    <3>1. n = cpu.microcode  BY <1>1, <2>8 DEF Sources, Flowing
    <3> QED  BY <2>1, <2>5, <2>8, <3>1 DEF PassesOn, Past
  <2>9. CASE PassesOn(cpu, a, o) /\ Untaken(cpu)
    BY <2>1, <2>9 DEF PassesOn, Untaken
  <2> QED  BY <2>3, <2>6, <2>7, <2>8, <2>9 DEF Serves
<1>3. CASE HGoto
  <2>1. PICK o \in GotoOutcomes(cpu) : cpu' = o.cpu  BY <1>3 DEF HGoto, Goto, Becomes
  <2>2. PICK a : a.status = "fetch" /\ (HandsOver(cpu, a, o) \/ PassesOn(cpu, a, o))
    BY <1>1, <2>1, GotoServes
  <2> QED  BY <2>1, <2>2 DEF HandsOver, PassesOn, Untaken
<1>4. CASE HRestart
  BY <1>4, RestartFresh
<1>5. CASE HPins \/ HSetP \/ UNCHANGED hvars
  BY <1>1, <1>5, PinsKeep DEF Past, Untaken
<1> QED  BY <1>2, <1>3, <1>4, <1>5 DEF HNext

NmiKeeping == cpu.nmi_taken /\ ~cpu'.nmi_taken => InNmiEntry(cpu') \/ Restarted

\* A poll may give up a chosen NMI only for an IRQ, and only where it is the second one.
LEMMA StepNmiKept ==
  ASSUME FlowInv, [HNext]_hvars, ~cpu.irq_pin \/ (PollsOnce /\ Past) PROVE NmiKeeping
<1> SUFFICES ASSUME cpu.nmi_taken, ~cpu'.nmi_taken PROVE InNmiEntry(cpu') \/ Restarted
  BY DEF NmiKeeping
<1>1. Sound(cpu) /\ cpu \in Cpu /\ cpu.model \in Models /\ Flowing(cpu, tick)
  BY DEF FlowInv, SoundInv, Sound, Cpu
<1>2. SlotOf(IDX(cpu.model, nmi, 0)) = nmi /\ CycleOf(IDX(cpu.model, nmi, 0)) = 0
  BY <1>1, Starts
<1>3. ASSUME NEW a, NEW o, cpu' = o.cpu, HandsOver(cpu, a, o) PROVE InNmiEntry(cpu')
  BY <1>2, <1>3 DEF HandsOver, InNmiEntry, Slot, Cycle, SlotOf, CycleOf
<1>4. CASE HTick
  <2>1. PICK o \in TickOutcomes(cpu) : cpu' = o.cpu  BY <1>4 DEF HTick, Tick, Becomes
  <2>2. PICK n \in Sources(cpu) : \E a : Flows(cpu, n, a, o) /\ Serves(Store[n], cpu, n, a, o)
    BY <1>1, TickServes
  <2>3. PICK a : Flows(cpu, n, a, o) /\ Serves(Store[n], cpu, n, a, o)  BY <2>2
  <2>4. ~PollsAt(cpu, a, o)
    <3>1. CASE ~cpu.irq_pin
      BY <2>1, <3>1 DEF PollsAt
    <3>2. CASE PollsOnce /\ Past
      <4>1. cpu.microcode \in PastPoll /\ n = cpu.microcode
        BY <1>1, <3>2 DEF Past, Untaken, Sources, Flowing
      <4>2. n \in Runs /\ a \in From(n, cpu.model)
        BY <1>1, <2>3, SourcesRun DEF Flows, From, Flowing
      <4>3. ~a.polled  BY <1>1, <3>2, <4>1, <4>2 DEF PollsOnce
      <4> QED  BY <4>3 DEF PollsAt
    <3> QED  BY <3>1, <3>2
  <2>5. HandsOver(cpu, a, o)
    BY <2>1, <2>3, <2>4 DEF Serves, Tends, PassesOn, Untaken
  <2> QED  BY <1>3, <2>1, <2>5
<1>5. CASE HGoto
  <2>1. PICK o \in GotoOutcomes(cpu) : cpu' = o.cpu  BY <1>5 DEF HGoto, Goto, Becomes
  <2>2. PICK a : HandsOver(cpu, a, o) \/ PassesOn(cpu, a, o)  BY <1>1, GotoServes
  <2>3. HandsOver(cpu, a, o)  BY <2>1, <2>2 DEF PassesOn
  <2> QED  BY <1>3, <2>1, <2>3
<1>6. CASE HRestart
  BY <1>6, RestartFresh DEF Restarted, Untaken
<1>7. CASE HPins \/ HSetP \/ UNCHANGED hvars
  BY <1>1, <1>7, PinsKeep
<1> QED  BY <1>4, <1>5, <1>6, <1>7 DEF HNext

\* A chosen NMI stays chosen until its sequence begins, on every model and with an IRQ, where no
\* instruction polls twice: NMOS programs without branches.
THEOREM ChosenNmiKeptAlways == ASSUME PollsOnce PROVE HSpec => ChosenNmiKept
<1>1. HInit => Past  BY InitFresh DEF Past
<1>2. FlowInv /\ Past /\ [HNext]_hvars => Past'  BY StepPast
<1>3. FlowInv /\ Past /\ [HNext]_hvars => [NmiKeeping]_hvars  BY StepNmiKept
<1> QED  BY <1>1, <1>2, <1>3, TimedAlways, PTL DEF HSpec, ChosenNmiKept, NmiKeeping

\* Without an IRQ it does so on every store.
THEOREM ChosenNmiKeptNmiOnly == ASSUME "irq" \notin Host PROVE HSpec => ChosenNmiKept
<1>1. FlowInv /\ Silent /\ [HNext]_hvars => Silent'  BY StepSilent
<1>2. FlowInv /\ Silent /\ [HNext]_hvars => [NmiKeeping]_hvars  BY StepNmiKept DEF Silent
<1> QED  BY <1>1, <1>2, InitSilent, TimedAlways, PTL DEF HSpec, ChosenNmiKept, NmiKeeping

-----------------------------------------------------------------------------
\* The detector of a CMOS core has seen the line the observer saw.
LEMMA StepLevel ==
  ASSUME FlowInv, DetectorInStep, cpu.nmi_last = level, [HNext]_hvars
  PROVE  cpu'.nmi_last = level'
<1>1. Sound(cpu) /\ cpu \in Cpu  BY DEF FlowInv, SoundInv, Sound
<1>2. Synced(cpu) \/ (cpu.service_mode /\ ~cpu.sampling_off)
  BY <1>1 DEF DetectorInStep, Synced, Cpu
<1>3. CASE HTick
  BY <1>1, <1>2, <1>3, TickSynced DEF HTick, Tick, Becomes, Observe, Synced
<1>4. CASE HGoto
  BY <1>1, <1>2, <1>4, GotoSynced DEF HGoto, Goto, Becomes, Observe, Synced
<1>5. CASE HRestart
  <2>1. RestartOutcome(cpu).cpu.nmi_last = FALSE
    BY DEF RestartOutcome, Bus, EnterServiceSlot, Setup
  <2> QED  BY <1>5, <2>1 DEF HRestart, Restart, Becomes, Forget
<1>6. CASE HPins \/ HSetP \/ UNCHANGED hvars
  BY <1>1, <1>6, PinsKeep DEF history
<1> QED  BY <1>3, <1>4, <1>5, <1>6 DEF HNext

EdgeLatching ==
  ~level /\ level' /\ ~cpu.sampling_off /\ ~InNmiEntry(cpu) =>
    cpu'.nmi_edge \/ cpu'.nmi_taken \/ InNmiEntry(cpu')

\* Every rise of the line is latched by a CMOS core without an IRQ, with the resolver awake or not.
\* An NMOS one misses a pulse within its window, and a CMOS one drops an edge at an IRQ's vector.
THEOREM EdgeLatchedAlways ==
  ASSUME Models \cap NmosModels = {}, "irq" \notin Host PROVE HSpec => EdgeLatched
<1>1. FlowInv /\ Silent /\ [HNext]_hvars => Silent'  BY StepSilent
<1>2. HInit => cpu.nmi_last = level
  <2> SUFFICES ASSUME HInit PROVE cpu.nmi_last = level  OBVIOUS
  <2>1. cpu \in Cpu /\ level = FALSE  BY InitFlow DEF HInit, FlowInv, SoundInv, Sound
  <2> QED  BY <2>1, InitFresh DEF Cpu
<1>3. FlowInv /\ DetectorInStep /\ cpu.nmi_last = level /\ [HNext]_hvars => (cpu.nmi_last = level)'
  BY StepLevel
<1>4. FlowInv /\ Silent /\ cpu.nmi_last = level /\ [HNext]_hvars => [EdgeLatching]_hvars
  <2> SUFFICES ASSUME FlowInv, Silent, cpu.nmi_last = level, [HNext]_hvars,
                      ~level, level', ~cpu.sampling_off, ~InNmiEntry(cpu)
               PROVE  cpu'.nmi_edge \/ cpu'.nmi_taken \/ InNmiEntry(cpu')
    BY DEF EdgeLatching
  <2>1. Sound(cpu) /\ cpu \in Cpu /\ Flowing(cpu, tick) /\ cpu.microcode \in Live
    BY DEF FlowInv, SoundInv, Sound, Flowing
  <2>2. CASE HTick
    <3>1. Edge(cpu)  BY <2>2 DEF HTick, Observe, Edge
    <3>2. PICK o \in TickOutcomes(cpu) : cpu' = o.cpu  BY <2>2 DEF HTick, Tick, Becomes
    <3>3. PICK n \in Sources(cpu) : \E a : Flows(cpu, n, a, o) /\ Serves(Store[n], cpu, n, a, o)
      BY <2>1, TickServes
    <3>4. n \in Runs  BY <2>1, SourcesRun
    <3>5. Store[n] # "cmos_irq_c5_vec_hi"
      <4>1. SlotOf(n) = irq => n = cpu.microcode  BY <2>1, OwnPlace
      <4> QED  BY <3>4, <4>1, NmiShape DEF NmiShape, Silent
    <3> QED  BY <2>1, <3>1, <3>2, <3>3, <3>5, EdgeGoesOn
  <2>3. CASE HGoto
    <3>1. Edge(cpu)
      <4>1. level' = cpu.nmi_pin  BY <2>3 DEF HGoto, Observe
      <4> QED  BY <4>1 DEF Edge
    <3>2. PICK o \in GotoOutcomes(cpu) : cpu' = o.cpu  BY <2>3 DEF HGoto, Goto, Becomes
    <3>3. PICK a : HandsOver(cpu, a, o) \/ PassesOn(cpu, a, o)  BY <2>1, GotoServes
    <3> QED  BY <3>1, <3>2, <3>3 DEF HandsOver, PassesOn
  <2>4. CASE HRestart
    BY <2>4, RestartFresh
  <2>5. CASE HPins \/ HSetP \/ UNCHANGED hvars
    BY <2>1, <2>5, PinsKeep DEF history
  <2> QED  BY <2>2, <2>3, <2>4, <2>5 DEF HNext
<1> QED
  BY <1>1, <1>2, <1>3, <1>4, InitSilent, TimedAlways, ObservedSpec, CmosDetectorInStep, PTL
  DEF HSpec, EdgeLatched, EdgeLatching

-----------------------------------------------------------------------------
\* Outside the NMI sequence every edge latched or chosen is owed, and so is one that the detector has
\* yet to see. While the pins are not sampled, none is latched.
Owing ==
  /\ cpu.microcode \notin NmiEntry /\ (cpu.nmi_edge \/ cpu.nmi_taken) => owed
  /\ cpu.microcode \notin NmiEntry /\ level /\ ~cpu.nmi_last => owed
  /\ cpu.sampling_off => ~cpu.nmi_edge

NmiEntering == ~InNmiEntry(cpu) /\ InNmiEntry(cpu') => owed \/ FreshEdge

\* A tick enters the NMI sequence only where an edge is held or an NMI chosen, and leaves it by the
\* handler that reads the high byte of the vector.
LEMMA TickEntry ==
  ASSUME NEW c, Sound(c), NEW t, Flowing(c, t), NEW n \in Sources(c), NEW a, NEW o,
         Flows(c, n, a, o), Serves(Store[n], c, n, a, o)
  PROVE  /\ c.microcode \notin NmiEntry /\ o.cpu.microcode \in NmiEntry =>
              Edge(c) \/ c.nmi_taken
         /\ c.microcode \in NmiEntry /\ o.cpu.microcode \notin NmiEntry =>
              /\ Store[n] \in {"nmos_nmi_c5_vec_hi", "cmos_nmi_c5_vec_hi"}
              /\ Store[n] = "nmos_nmi_c5_vec_hi" => c.microcode \in Window
<1>1. /\ c \in Cpu /\ c.model \in Models /\ c.microcode \in Live
      /\ n \in Runs /\ n \in Int /\ a \in From(n, c.model)
  BY SourcesRun, SourcesInt DEF Sound, Cpu, Flowing, Flows, From
<1>2. c.microcode \in NmiEntry <=> n \in NmiEntry  BY <1>1, EntryRuns
<1>3. ASSUME c.microcode \notin NmiEntry, o.cpu.microcode \in NmiEntry
      PROVE  Edge(c) \/ c.nmi_taken
  <2>1. CASE HandsOver(c, a, o)
    <3>1. SlotOf(IDX(c.model, irq, 0)) = irq  BY <1>1, Starts
    <3>2. IDX(c.model, irq, 0) \notin NmiEntry  BY <3>1 DEF NmiEntry, nmi, irq
    <3> QED  BY <1>3, <2>1, <3>2 DEF HandsOver
  <2>2. CASE o.cpu.microcode = a.to /\ (Store[n] \in Yielding => Tends(Store[n], c, n, a, o))
    <3>1. Store[n] \in Yielding /\ a.to = IDX(c.model, nmi, 4)
      BY <1>1, <1>2, <1>3, <2>2, NmiShape DEF NmiShape
    <3> SUFFICES ASSUME ~Edge(c) PROVE FALSE  OBVIOUS
    <3>2. a.to \in {n + 1, IDX(c.model, irq, 4)}  BY <2>2, <3>1 DEF Tends
    <3>3. SlotOf(IDX(c.model, irq, 4)) = irq /\ SlotOf(IDX(c.model, nmi, 4)) = nmi
      BY <1>1, Fifth
    <3>4. n + 1 = IDX(c.model, nmi, 4)  BY <3>1, <3>2, <3>3 DEF nmi, irq
    <3>5. SlotOf(n) = nmi /\ CycleOf(n) = 3  BY <1>1, <3>4, Fifth
    <3>6. n \in NmiEntry  BY <1>1, <3>5 DEF NmiEntry, Runs
    <3> QED  BY <1>2, <1>3, <3>6
  <2>3. CASE Store[n] \in Watchful
    BY <2>2, <2>3 DEF Serves, Tends
  <2>4. CASE Store[n] \notin Watchful
    <3>1. Store[n] \notin Yielding  BY <2>4 DEF Watchful, Opening, Yielding
    <3> QED  BY <2>1, <2>2, <2>4, <3>1 DEF Serves, PollsAt, PassesOn
  <2> QED  BY <2>3, <2>4
<1>4. ASSUME c.microcode \in NmiEntry, o.cpu.microcode \notin NmiEntry
      PROVE  /\ Store[n] \in {"nmos_nmi_c5_vec_hi", "cmos_nmi_c5_vec_hi"}
             /\ Store[n] = "nmos_nmi_c5_vec_hi" => c.microcode \in Window
  <2>1. Untaken(c) /\ n = c.microcode
    <3>1. c.microcode \in EntrySlots  BY <1>4 DEF NmiEntry, EntrySlots
    <3>2. SlotOf(n) = nmi  BY <1>2, <1>4 DEF NmiEntry
    <3> QED  BY <1>1, <3>1, <3>2, OwnPlace DEF Quiet, Flowing
  <2>2. o.cpu.microcode = a.to  BY <2>1 DEF Serves, Tends, PollsAt, HandsOver, PassesOn
  <2> QED  BY <1>1, <1>2, <1>4, <2>1, <2>2, NmiShape DEF NmiShape
<1> QED  BY <1>3, <1>4

LEMMA TickOwing ==
  ASSUME FlowInv, Windowed(cpu), Owing, HTick PROVE Owing' /\ NmiEntering
<1>1. /\ Sound(cpu) /\ cpu \in Cpu /\ Flowing(cpu, tick) /\ cpu.microcode \in Live
      /\ cpu.sampling_off \in BOOLEAN
  BY DEF FlowInv, SoundInv, Sound, Flowing, Cpu
<1>2. PICK o \in TickOutcomes(cpu) : cpu' = o.cpu /\ tick' = o.tick
  BY DEF HTick, Tick, Becomes
<1>3. PICK n \in Sources(cpu) : \E a : Flows(cpu, n, a, o) /\ Serves(Store[n], cpu, n, a, o)
  BY <1>1, <1>2, TickServes
<1>4. PICK a : Flows(cpu, n, a, o) /\ Serves(Store[n], cpu, n, a, o)  BY <1>3
<1>5. o.cpu.microcode \in Live /\ o.cpu \in Cpu
  <2>1. Flowing(o.cpu, o.tick)  BY <1>1, TickFlowing
  <2>2. Sound(o.cpu)  BY <1>1, TickSound
  <2> QED  BY <2>1, <2>2 DEF Flowing, Sound
<1>6. /\ InNmiEntry(cpu) <=> cpu.microcode \in NmiEntry
      /\ InNmiEntry(cpu') <=> cpu'.microcode \in NmiEntry
  BY <1>1, <1>2, <1>5, Entry
<1>7. /\ level' = cpu.nmi_pin
      /\ owed' = ((owed \/ FreshEdge) /\ ~InNmiEntry(cpu) /\ ~InNmiEntry(cpu'))
  BY DEF HTick, Observe
\* What the tick may latch or choose is owed already, or fresh.
<1>8. cpu.microcode \notin NmiEntry /\ (Edge(cpu) \/ cpu.nmi_taken) => owed \/ FreshEdge
  BY DEF Owing, Edge, FreshEdge
<1>9. /\ cpu'.nmi_edge => Edge(cpu)
      /\ cpu'.nmi_taken => Edge(cpu) \/ cpu.nmi_taken
  BY <1>2, <1>4 DEF Serves, Tends, PollsAt, HandsOver, PassesOn, Untaken
<1>10. cpu.sampling_off => ~Edge(cpu)  BY DEF Owing, Edge
<1>11. /\ cpu.microcode \notin NmiEntry /\ cpu'.microcode \in NmiEntry =>
             Edge(cpu) \/ cpu.nmi_taken
       /\ cpu.microcode \in NmiEntry /\ cpu'.microcode \notin NmiEntry =>
             /\ Store[n] \in {"nmos_nmi_c5_vec_hi", "cmos_nmi_c5_vec_hi"}
             /\ Store[n] = "nmos_nmi_c5_vec_hi" => cpu.microcode \in Window
  BY <1>1, <1>2, <1>4, TickEntry
<1>12. NmiEntering  BY <1>6, <1>8, <1>11 DEF NmiEntering
<1>13. cpu'.microcode \notin NmiEntry /\ (cpu'.nmi_edge \/ cpu'.nmi_taken) => owed'
  <2> SUFFICES ASSUME cpu'.microcode \notin NmiEntry, cpu'.nmi_edge \/ cpu'.nmi_taken
               PROVE  owed'
    OBVIOUS
  <2>1. CASE cpu.microcode \notin NmiEntry
    BY <1>6, <1>7, <1>8, <1>9, <2>1
  <2>2. CASE cpu.microcode \in NmiEntry
    <3>1. Store[n] \in Watchful  BY <1>11, <2>2 DEF Watchful, Closing, Settling
    <3>2. Tends(Store[n], cpu, n, a, o)  BY <1>4, <3>1 DEF Serves
    <3>3. ~cpu'.nmi_taken  BY <1>2, <3>2 DEF Tends, Untaken
    <3>4. CASE Store[n] = "cmos_nmi_c5_vec_hi"
      BY <1>2, <3>2, <3>3, <3>4 DEF Tends
    <3>5. CASE Store[n] = "nmos_nmi_c5_vec_hi"
      BY <1>9, <1>10, <1>11, <2>2, <3>3, <3>5 DEF Windowed
    <3> QED  BY <1>11, <2>2, <3>4, <3>5
  <2> QED  BY <2>1, <2>2
<1>14. cpu'.microcode \notin NmiEntry /\ level' /\ ~cpu'.nmi_last => owed'
  <2> SUFFICES ASSUME cpu'.microcode \notin NmiEntry, level', ~cpu'.nmi_last PROVE owed'
    OBVIOUS
  <2>1. /\ cpu.nmi_pin /\ cpu'.nmi_last \in {cpu.nmi_last, cpu.nmi_pin}
        /\ Store[n] \notin {"nmos_nmi_c5_vec_hi", "cmos_nmi_c5_vec_hi"}
    BY <1>2, <1>4, <1>7 DEF Serves
  <2>2. cpu.microcode \notin NmiEntry /\ ~cpu.nmi_last  BY <1>11, <2>1
  <2>3. owed \/ FreshEdge  BY <2>1, <2>2 DEF Owing, FreshEdge
  <2> QED  BY <1>6, <1>7, <2>2, <2>3
<1>15. cpu'.sampling_off => ~cpu'.nmi_edge
  <2> SUFFICES ASSUME cpu'.sampling_off PROVE ~cpu'.nmi_edge  OBVIOUS
  <2>1. Store[n] \in Opening \/ cpu.sampling_off  BY <1>2, <1>4 DEF Flows, OffAfter
  <2>2. CASE Store[n] \in Opening
    BY <1>2, <1>4, <2>2 DEF Serves, Tends, Watchful
  <2> QED  BY <1>9, <1>10, <2>1, <2>2
<1> QED  BY <1>12, <1>13, <1>14, <1>15 DEF Owing

LEMMA StepOwing ==
  ASSUME "goto" \notin Host, FlowInv, Windowed(cpu), Owing, [HNext]_hvars
  PROVE  Owing' /\ NmiEntering
<1>1. Sound(cpu) /\ cpu \in Cpu /\ cpu.model \in Models  BY DEF FlowInv, SoundInv, Sound, Cpu
<1>2. CASE HTick
  BY <1>2, TickOwing
<1>3. CASE HGoto
  BY <1>3 DEF HGoto, Goto
<1>4. CASE HRestart
  <2>1. cpu'.model \in Models  BY <1>1, <1>4, RestartFlows DEF HRestart, Restart, Becomes
  <2>2. SlotOf(cpu'.microcode) = internal_reset  BY <1>4, <2>1, RestartFresh, Starts
  <2>3. ~InNmiEntry(cpu')  BY <2>2 DEF InNmiEntry, Slot, SlotOf, internal_reset, nmi
  <2> QED  BY <1>4, <2>3, RestartFresh DEF Owing, NmiEntering, Untaken
<1>5. CASE HPins \/ HSetP \/ UNCHANGED hvars
  <2>1. /\ UNCHANGED history
        /\ cpu'.microcode = cpu.microcode /\ cpu'.sampling_off = cpu.sampling_off
        /\ cpu'.nmi_last = cpu.nmi_last /\ cpu'.nmi_edge = cpu.nmi_edge
        /\ cpu'.nmi_taken = cpu.nmi_taken
    BY <1>1, <1>5, PinsKeep
  <2> QED  BY <2>1 DEF Owing, NmiEntering, InNmiEntry, Slot, Cycle, history
<1> QED  BY <1>2, <1>3, <1>4, <1>5 DEF HNext

LEMMA OwingAlways ==
  ASSUME "goto" \notin Host PROVE HSpec => [](FlowInv /\ Windowed(cpu) /\ Owing)
<1>1. HInit => Windowed(cpu) /\ Owing
  BY InitWindowed, InitFresh DEF HInit, Owing, Untaken
<1>2. FlowInv /\ Windowed(cpu) /\ Owing /\ [HNext]_hvars => (Windowed(cpu) /\ Owing)'
  <2>1. FlowInv => SoundInv  BY DEF FlowInv
  <2> QED  BY <2>1, StepOwing, StepWindowed, ModelStays, Watches DEF Goto
<1> QED  BY <1>1, <1>2, TimedAlways, PTL DEF HSpec

\* The NMI sequence begins, or takes over another one, only for an edge of the line that has not
\* been serviced yet, on every model and with an IRQ, flags and restarts of the host in between.
THEOREM NoSpuriousNmiAlways == ASSUME "goto" \notin Host PROVE HSpec => NoSpuriousNmi
<1>1. FlowInv /\ Windowed(cpu) /\ Owing /\ [HNext]_hvars => [NmiEntering]_hvars
  BY StepOwing
<1> QED  BY <1>1, OwingAlways, PTL DEF HSpec, NoSpuriousNmi, NmiEntering

-----------------------------------------------------------------------------
\* On a CMOS core without an IRQ the observer and the core agree: outside the NMI sequence an edge is
\* owed exactly when it is latched or chosen, and the chosen interrupt is what the polls call for.
Agreed ==
  /\ Silent /\ cpu.nmi_last = level /\ Chosen(cpu, decided)
  /\ cpu.microcode \notin NmiEntry => (owed <=> cpu.nmi_edge \/ cpu.nmi_taken)

LEMMA TickAgreed ==
  ASSUME Models \cap NmosModels = {}, FlowInv, DetectorInStep, Agreed, HTick
  PROVE  /\ cpu'.microcode \notin NmiEntry => (owed' <=> cpu'.nmi_edge \/ cpu'.nmi_taken)
         /\ Chosen(cpu', decided')
<1>1. /\ Sound(cpu) /\ cpu \in Cpu /\ Flowing(cpu, tick) /\ cpu.microcode \in Live
      /\ cpu.model \in Models /\ ~cpu.sampling_off
  BY DEF FlowInv, SoundInv, Sound, Flowing, Cpu, DetectorInStep
<1>2. PICK o \in TickOutcomes(cpu) : cpu' = o.cpu /\ tick' = o.tick
  BY DEF HTick, Tick, Becomes
<1>3. PICK n \in Sources(cpu) : \E a : Flows(cpu, n, a, o) /\ Serves(Store[n], cpu, n, a, o)
  BY <1>1, <1>2, TickServes
<1>4. PICK a : Flows(cpu, n, a, o) /\ Serves(Store[n], cpu, n, a, o)  BY <1>3
<1>5. /\ n \in Runs /\ a \in From(n, cpu.model) /\ tick'.polled = a.polled
      /\ o.cpu.microcode \in Live
  <2>1. Flowing(o.cpu, o.tick)  BY <1>1, TickFlowing
  <2> QED  BY <1>1, <1>2, <1>4, <2>1, SourcesRun DEF Flows, From, Flowing
<1>6. /\ InNmiEntry(cpu) <=> cpu.microcode \in NmiEntry
      /\ InNmiEntry(cpu') <=> cpu'.microcode \in NmiEntry
  BY <1>1, <1>2, <1>5, Entry
<1>7. /\ owed' = ((owed \/ FreshEdge) /\ ~InNmiEntry(cpu) /\ ~InNmiEntry(cpu'))
      /\ Edge(cpu) <=> cpu.nmi_edge \/ FreshEdge
  BY <1>1 DEF HTick, Observe, Edge, FreshEdge, Agreed
<1>8. cpu.microcode \notin NmiEntry => (owed \/ FreshEdge <=> Edge(cpu) \/ cpu.nmi_taken)
  BY <1>7 DEF Agreed
\* The sequence is left with nothing latched: the vector's high byte drops the edge.
<1>9. cpu.microcode \in NmiEntry /\ cpu'.microcode \notin NmiEntry =>
        /\ Store[n] \in Watchful /\ ~cpu'.nmi_edge /\ ~cpu'.nmi_taken
  <2> SUFFICES ASSUME cpu.microcode \in NmiEntry, cpu'.microcode \notin NmiEntry
               PROVE  Store[n] \in Watchful /\ ~cpu'.nmi_edge /\ ~cpu'.nmi_taken
    OBVIOUS
  <2>1. cpu.microcode \notin Window
    <3>1. cpu.microcode \in Runs  BY NmiShape DEF NmiShape
    <3>2. ModelOf(cpu.microcode) \in Models  BY <3>1, WindowShape DEF WindowShape
    <3> QED  BY <3>2 DEF Window
  <2>2. Store[n] = "cmos_nmi_c5_vec_hi"  BY <1>1, <1>2, <1>4, <2>1, TickEntry
  <2>3. Store[n] \in Watchful  BY <2>2 DEF Watchful, Settling
  <2> QED  BY <1>2, <1>4, <2>2, <2>3 DEF Serves, Tends, Untaken
<1>10. cpu'.microcode \notin NmiEntry => (owed' <=> cpu'.nmi_edge \/ cpu'.nmi_taken)
  <2> SUFFICES ASSUME cpu'.microcode \notin NmiEntry
               PROVE  owed' <=> cpu'.nmi_edge \/ cpu'.nmi_taken
    OBVIOUS
  <2>1. CASE cpu.microcode \in NmiEntry
    BY <1>6, <1>7, <1>9, <2>1
  <2>2. CASE cpu.microcode \notin NmiEntry
    <3>1. cpu'.nmi_edge \/ cpu'.nmi_taken => Edge(cpu) \/ cpu.nmi_taken
      BY <1>2, <1>4 DEF Serves, Tends, PollsAt, HandsOver, PassesOn, Untaken
    <3>2. Edge(cpu) => cpu'.nmi_edge \/ cpu'.nmi_taken
      <4>1. Store[n] # "cmos_irq_c5_vec_hi"
        <5>1. SlotOf(n) = irq => n = cpu.microcode  BY <1>1, OwnPlace
        <5> QED  BY <1>5, <5>1, NmiShape DEF NmiShape, Agreed, Silent
      <4> QED  BY <1>1, <1>2, <1>4, <1>6, <2>2, <4>1, EdgeGoesOn
    <3>3. cpu.nmi_taken => cpu'.nmi_taken
      <4>1. ~HandsOver(cpu, a, o)
        <5>1. IDX(cpu.model, nmi, 0) \in Runs  BY <1>1, EntriesExist DEF EntriesExist
        <5>2. SlotOf(IDX(cpu.model, nmi, 0)) = nmi /\ CycleOf(IDX(cpu.model, nmi, 0)) = 0
          BY <1>1, Starts
        <5>3. IDX(cpu.model, nmi, 0) \in NmiEntry  BY <5>1, <5>2 DEF NmiEntry, Runs
        <5> QED  BY <1>2, <5>3 DEF HandsOver, Untaken, Agreed, Silent
      <4> QED
        BY <1>2, <1>4, <4>1 DEF Serves, Tends, PollsAt, PassesOn, Untaken, Agreed, Silent
    <3> QED  BY <1>6, <1>7, <1>8, <2>2, <3>1, <3>2, <3>3
  <2> QED  BY <2>1, <2>2
\* Within the sequence nothing is polled.
<1>11. cpu.microcode \in NmiEntry => ~tick'.polled
  <2> SUFFICES ASSUME cpu.microcode \in NmiEntry PROVE ~a.polled  BY <1>5
  <2>1. Untaken(cpu)
    <3>1. cpu.microcode \in EntrySlots  BY DEF NmiEntry, EntrySlots
    <3> QED  BY <1>1, <3>1 DEF Quiet, Flowing
  <2>2. CASE Store[n] \in Watchful
    BY <1>4, <2>2 DEF Serves, Tends
  <2>3. CASE Store[n] \notin Watchful
    <3>1. cpu'.microcode \in NmiEntry  BY <1>9, <2>3
    <3>2. o.cpu.microcode = a.to
      BY <1>4, <2>1, <2>3 DEF Serves, PollsAt, HandsOver, PassesOn
    <3>3. a.to \in Quiet  BY <1>2, <3>1, <3>2 DEF NmiEntry, EntrySlots, Quiet
    <3> QED  BY <1>1, <1>5, <3>3, QuietFlow DEF QuietFlow
  <2> QED  BY <2>2, <2>3
<1>12. tick'.polled /\ ~cpu.nmi_taken => (owed \/ FreshEdge <=> Edge(cpu))
  BY <1>8, <1>11
<1>13. cpu.nmi_taken => ~cpu.irq_pin  BY DEF Agreed, Silent
<1>14. Chosen(cpu, decided)  BY DEF Agreed
<1>15. Chosen(cpu', decided')  BY <1>12, <1>13, <1>14, TickChooses
<1> QED  BY <1>10, <1>15

LEMMA StepAgreed ==
  ASSUME Models \cap NmosModels = {}, "irq" \notin Host, "goto" \notin Host,
         FlowInv, DetectorInStep, Agreed, [HNext]_hvars
  PROVE  Agreed'
<1>1. Sound(cpu) /\ cpu \in Cpu /\ Silent /\ cpu.nmi_last = level
  BY DEF FlowInv, SoundInv, Sound, Agreed
<1>2. Silent' /\ cpu'.nmi_last = level'  BY <1>1, StepSilent, StepLevel
<1>3. CASE HTick
  BY <1>2, <1>3, TickAgreed DEF Agreed
<1>4. CASE HGoto
  BY <1>4 DEF HGoto, Goto
<1>5. CASE HRestart
  BY <1>2, <1>5, RestartFresh DEF Agreed, Chosen, Untaken
<1>6. CASE HPins \/ HSetP \/ UNCHANGED hvars
  <2>1. /\ UNCHANGED history /\ cpu'.microcode = cpu.microcode
        /\ cpu'.nmi_edge = cpu.nmi_edge
        /\ cpu'.nmi_taken = cpu.nmi_taken /\ cpu'.irq_taken = cpu.irq_taken
    BY <1>1, <1>6, PinsKeep
  <2> QED  BY <1>2, <2>1 DEF Agreed, Chosen, history
<1> QED  BY <1>3, <1>4, <1>5, <1>6 DEF HNext

\* With an NMI line only, a fetch of a CMOS core hands over to the NMI exactly when a poll of the
\* instruction that ends saw an edge not yet serviced, and never to an IRQ.
THEOREM PollDecidesNmi ==
  ASSUME Models \cap NmosModels = {}, "irq" \notin Host, "goto" \notin Host
  PROVE  HSpec => PollDecides
<1>1. HInit => Agreed
  <2> SUFFICES ASSUME HInit PROVE Agreed  OBVIOUS
  <2>1. cpu \in Cpu /\ level = FALSE  BY InitFlow DEF HInit, FlowInv, SoundInv, Sound
  <2>2. cpu.nmi_last = level  BY <2>1, InitFresh DEF Cpu
  <2>3. Silent  BY InitSilent
  <2> QED  BY <2>2, <2>3, InitFresh DEF Agreed, Chosen, Untaken
<1>2. FlowInv /\ DetectorInStep /\ Agreed /\ [HNext]_hvars => Agreed'  BY StepAgreed
<1>3. FlowInv /\ Agreed /\ [HNext]_hvars => [PollDecision]_hvars
  BY StepDecides DEF Agreed
<1> QED
  BY <1>1, <1>2, <1>3, TimedAlways, ObservedSpec, CmosDetectorInStep, PTL
  DEF HSpec, PollDecides, PollDecision

=============================================================================
