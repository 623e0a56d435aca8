-------------------------- MODULE ControlFlowProofs --------------------------
(***************************************************************************)
(* What the shape of the control store comes to in the behaviour of the    *)
(* core, whatever the host calls: the index never leaves the store, an     *)
(* interrupt is chosen neither at a dispatch nor in an interrupt sequence  *)
(* or a jam, the NMOS window opens and closes where it should, a CMOS core *)
(* samples on every tick in service mode.                                  *)
(*                                                                         *)
(* The argument has two halves. That a handler keeps to the arcs of        *)
(* ControlFlow, and does to the interrupt unit what is said there, follows *)
(* from its code (EffectFollows, one case per handler), and so does what   *)
(* the resolver adds (FinishEnds). A tick then Flows along an arc of the   *)
(* index, or enters an interrupt (TickFlows). The other half are the       *)
(* assumptions on the store: what holds along every arc of its indices     *)
(* holds along a behaviour. FlowInv is the invariant that joins the two.   *)
(***************************************************************************)
EXTENDS ControlFlow, FastPathProofs

\* The handlers with an arm of their own that matters here are no others.
LEMMA Apart ==
  ASSUME NEW h \in Leaving \cup Watchful
  PROVE  /\ h \notin PlainReads \cup PlainWrites \cup PlainFetches
         /\ h \notin PollHandlers /\ h \notin BinaryPollHandlers
         /\ h \notin SkipOne /\ h \notin SkipTwo
<1> USE DEF Leaving, Watchful, Opening, Closing, Settling
<1>1. h \notin PlainReads  BY DEF PlainReads
<1>2. h \notin PlainWrites /\ h \notin PlainFetches  BY DEF PlainWrites, PlainFetches
<1>3. h \notin PollHandlers  BY DEF PollHandlers
<1>4. h \notin BinaryPollHandlers  BY DEF BinaryPollHandlers
<1>5. h \notin SkipOne /\ h \notin SkipTwo  BY DEF SkipOne, SkipTwo
<1> QED  BY <1>1, <1>2, <1>3, <1>4, <1>5

LEMMA PollApart ==
  ASSUME NEW h \in PollHandlers \cup BinaryPollHandlers PROVE h \notin SkipOne
<1>1. h \in PollHandlers => h \notin SkipOne  BY DEF PollHandlers, SkipOne
<1>2. h \in BinaryPollHandlers => h \notin SkipOne  BY DEF BinaryPollHandlers, SkipOne
<1> QED  BY <1>1, <1>2

\* The arms of Effect, with their handlers.
OrdinaryArms(h, c, o) ==
  \/ h \in PlainReads \cup PlainWrites \cup PlainFetches /\ o \in {Bus(h, c)}
  \/ h \in PollHandlers /\ o \in {Prefetch(Bus(h, c))}
  \/ h \in BinaryPollHandlers /\ o \in {IF c.D THEN Bus(h, c) ELSE Prefetch(Bus(h, c))}
  \/ /\ h \in { "r_indexed_probe_no_latch_prefetch_no_page_cross",
                "cmos_r_indexed_probe_no_latch_prefetch_no_page_cross" }
     /\ o \in Probe(h, c, Prefetch(Bus(h, Skip(c, 1))))
  \/ /\ h = "cmos_r_indexed_probe_prefetch_no_page_cross_decimal_clear"
     /\ o \in Probe(h, c, IF c.D THEN Bus(h, Skip(c, 1)) ELSE Prefetch(Bus(h, Skip(c, 1))))
  \/ h = "cmos_r_indexed_probe" /\ o \in Probe(h, c, Bus(h, Skip(c, 1)))
  \/ /\ h \in {"branch_c0_prefetch", "wdc_bbr_bbs_c3_offset_or_skip_prefetch"}
     /\ o \in {Prefetch(Bus(h, c)), Prefetch(Bus(h, Skip(c, 2)))}
  \/ /\ h \in {"branch_rel_c1_apply", "wdc_bbr_bbs_c4_apply"}
     /\ o \in {Bus(h, c), Bus(h, Skip(c, 1))}
  \/ h = "exec_fetch_or_decimal_dummy" /\ o \in {FetchOrDecimalDummy(h, c)}
  \/ /\ h = "fetch_illegal_ext_dispatch"
     /\ o \in {Bus(h, NextEnterServiceSlot(c, illegal_ext, 0))}
  \/ h = "cli_prefetch" /\ o \in {Prefetch(Bus(h, [c EXCEPT !.I = FALSE]))}
  \/ h = "sei_prefetch" /\ o \in {Prefetch(Bus(h, [c EXCEPT !.I = TRUE]))}
  \/ h = "cld_prefetch" /\ o \in {Prefetch(Bus(h, [c EXCEPT !.D = FALSE]))}
  \/ h = "sed_prefetch" /\ o \in {Prefetch(Bus(h, [c EXCEPT !.D = TRUE]))}
  \/ h \in {"plp_fetch", "rti_c3_pull_pcl"} /\ o \in {Bus(h, d) : d \in PulledStatus(c)}
  \/ h = "kil_jam_loop" /\ o \in {[Bus(h, LoopHere(c)) EXCEPT !.tick.status = "jammed"]}
  \/ h = "internal_reset" /\ o \in {InternalReset(h, c)}
  \/ h = "reset_vec_hi" /\ o \in {Bus(h, [c EXCEPT !.I = TRUE])}
  \/ h = "cmos_brk_c5_vec_hi" /\ o \in {Bus(h, [c EXCEPT !.I = TRUE, !.D = FALSE])}

WatchfulArms(h, c, o) ==
  \/ h = "stack_push_status_b" /\ o \in {Bus(h, StackPushStatusB(c))}
  \/ h = "brk_c5_vec_hi" /\ o \in {Bus(h, NmosVectorLow(c))}
  \/ h = "nmos_irq_c5_vec_hi" /\ o \in {Bus(h, NmosVectorLow(c))}
  \/ h = "nmos_nmi_c5_vec_hi" /\ o \in {Bus(h, UpdateNmiLastSampled(NmosVectorLow(c)))}
  \/ h \in {"cmos_irq_c5_vec_hi", "cmos_nmi_c5_vec_hi"} /\ o \in {Bus(h, CmosVectorLow(c))}
  \/ h = "nmi_c3_push_p" /\ o \in {Bus(h, NmiPushP(c))}
  \/ h = "irq_c3_push_p" /\ o \in {Bus(h, IrqPushP(c))}
  \/ h = "cmos_nmi_c3_push_p" /\ o \in {Bus(h, CmosNmiPushP(c))}
  \/ h = "cmos_irq_c3_push_p" /\ o \in {Bus(h, [c EXCEPT !.irq_taken = FALSE])}

LEMMA EffectCases ==
  ASSUME NEW h, NEW c, NEW o \in Effect(h, c) PROVE OrdinaryArms(h, c, o) \/ WatchfulArms(h, c, o)
  BY DEF Effect, OrdinaryArms, WatchfulArms

\* Every handler has an outcome.
LEMMA EffectExists == ASSUME NEW h \in Handlers, NEW c PROVE Effect(h, c) # {}
<1>1. \/ h \in PlainReads \cup PlainWrites \cup PlainFetches
      \/ h \in PollHandlers
      \/ h \in BinaryPollHandlers
      \/ h \in { "r_indexed_probe_no_latch_prefetch_no_page_cross",
                 "cmos_r_indexed_probe_no_latch_prefetch_no_page_cross",
                 "cmos_r_indexed_probe_prefetch_no_page_cross_decimal_clear",
                 "cmos_r_indexed_probe", "branch_c0_prefetch",
                 "wdc_bbr_bbs_c3_offset_or_skip_prefetch", "branch_rel_c1_apply",
                 "wdc_bbr_bbs_c4_apply", "exec_fetch_or_decimal_dummy",
                 "fetch_illegal_ext_dispatch", "cli_prefetch", "sei_prefetch", "cld_prefetch",
                 "sed_prefetch", "kil_jam_loop", "internal_reset", "reset_vec_hi" }
      \/ h \in {"plp_fetch", "rti_c3_pull_pcl"}
      \/ h \in Watchful \/ h = "cmos_brk_c5_vec_hi"
  BY DEF Handlers, MayPoll, SkipOne, SkipTwo, Leaving
<1>2. [I |-> TRUE, D |-> TRUE] \in [I : BOOLEAN, D : BOOLEAN]  OBVIOUS
<1>3. PulledStatus(c) # {}  BY <1>2 DEF PulledStatus
<1>4. ASSUME NEW n PROVE Probe(h, c, n) # {}  BY DEF Probe
<1>5. {Bus(h, d) : d \in PulledStatus(c)} # {}  BY <1>3
<1> HIDE DEF Handlers
<1> QED  BY <1>1, <1>4, <1>5 DEF Effect, Watchful, Opening, Closing, Settling

-----------------------------------------------------------------------------
Untaken(c) == ~c.nmi_taken /\ ~c.irq_taken

\* The index that follows, were nothing but the handler to decide it, and the tick.
ArcOf(o) == Arc(o.cpu.microcode + 1, o.tick.status, o.tick.polled)

\* What every handler does to the control state.
Follows(h, c, o) ==
  /\ o.cpu.model = c.model
  /\ ArcOf(o) \in Arcs(h, c.model, c.microcode)
  /\ o.cpu.sampling = (c.sampling \/ o.tick.polled)
  /\ o.cpu.sampling_off = OffAfter(h, c.sampling_off)
  /\ Untaken(c) => Untaken(o.cpu)

\* The state of the interrupt unit that only its own handlers touch.
Undisturbed(c, d) ==
  /\ d.model = c.model /\ d.service_mode = c.service_mode /\ d.sampling_off = c.sampling_off
  /\ d.nmi_pin = c.nmi_pin /\ d.nmi_last = c.nmi_last
  /\ d.nmi_edge = c.nmi_edge /\ d.nmi_taken = c.nmi_taken
  /\ d.irq_pin = c.irq_pin /\ d.irq_taken = c.irq_taken

Ordinary(h, c, o) == Follows(h, c, o) /\ Undisturbed(c, o.cpu)

LEMMA OwnArcs ==
  ASSUME NEW h, NEW m, NEW n, NEW k \in Skips(h), NEW p \in Polls(h, k)
  PROVE  Arc(n + 1 + k, StatusOf(h), p) \in Arcs(h, m, n)
<1>1. Arc(n + 1 + k, StatusOf(h), p) \in {Arc(n + 1 + k, StatusOf(h), q) : q \in Polls(h, k)}
  OBVIOUS
<1> QED  BY <1>1 DEF Arcs, Steps

\* A handler that moves the index by one of its skips and sets flags is ordinary, and may poll.
LEMMA OrdinaryBus ==
  ASSUME NEW h, h \notin Watchful, NEW c \in Cpu, NEW d \in Cpu, Undisturbed(c, d),
         d.sampling = c.sampling, NEW k \in Skips(h), d.microcode = c.microcode + k
  PROVE  /\ Ordinary(h, c, Bus(h, d))
         /\ h \in MayPoll /\ (h \in SkipOne => k = 1) => Ordinary(h, c, Prefetch(Bus(h, d)))
<1> DEFINE o == Bus(h, d)
           q == Prefetch(o)
<1>1. c.microcode \in Int /\ k \in Int /\ c.sampling \in BOOLEAN /\ c.sampling_off \in BOOLEAN
  BY DEF Cpu, Skips
<1>2. d.microcode + 1 = c.microcode + 1 + k  BY <1>1
<1>3. OffAfter(h, c.sampling_off) = c.sampling_off
  BY <1>1 DEF OffAfter, Watchful
<1>4. /\ FALSE \in Polls(h, k)
      /\ h \in MayPoll /\ (h \in SkipOne => k = 1) => TRUE \in Polls(h, k)
  BY DEF Polls
<1>5. /\ o.cpu = d /\ o.tick.status = StatusOf(h) /\ o.tick.polled = FALSE
      /\ ArcOf(o) = Arc(c.microcode + 1 + k, StatusOf(h), FALSE)
  BY <1>2 DEF Bus, ArcOf
<1>6. Arc(c.microcode + 1 + k, StatusOf(h), FALSE) \in Arcs(h, c.model, c.microcode)
  BY <1>4, OwnArcs
<1>7. Ordinary(h, c, o)
  <2> HIDE DEF o
  <2>1. Undisturbed(c, o.cpu)  BY <1>5
  <2>2. ArcOf(o) \in Arcs(h, c.model, c.microcode)  BY <1>5, <1>6
  <2>3. o.cpu.sampling = (c.sampling \/ o.tick.polled)  BY <1>1, <1>5
  <2> QED  BY <1>3, <2>1, <2>2, <2>3 DEF Ordinary, Follows, Undisturbed, Untaken
<1>8. ASSUME h \in MayPoll, h \in SkipOne => k = 1 PROVE Ordinary(h, c, q)
  <2>1. q.cpu = [d EXCEPT !.sampling = TRUE] /\ q.tick = [o.tick EXCEPT !.polled = TRUE]
    BY <1>5 DEF Prefetch
  <2>2. q.tick.status = StatusOf(h) /\ q.tick.polled = TRUE
    BY <2>1 DEF Bus
  <2>3. Undisturbed(c, q.cpu) /\ q.cpu.microcode = d.microcode /\ q.cpu.sampling = TRUE
    <3> DEFINE e == [d EXCEPT !.sampling = TRUE]
    <3>1. Undisturbed(c, e) /\ e.microcode = d.microcode /\ e.sampling = TRUE
      BY DEF Undisturbed, Cpu
    <3> QED  BY <2>1, <3>1
  <2>4. ArcOf(q) = Arc(c.microcode + 1 + k, StatusOf(h), TRUE)
    BY <1>2, <2>2, <2>3 DEF ArcOf
  <2>5. Arc(c.microcode + 1 + k, StatusOf(h), TRUE) \in Arcs(h, c.model, c.microcode)
    BY <1>4, <1>8, OwnArcs
  <2> HIDE DEF q
  <2>6. ArcOf(q) \in Arcs(h, c.model, c.microcode)  BY <2>4, <2>5
  <2>7. q.cpu.sampling = (c.sampling \/ q.tick.polled)  BY <1>1, <2>2, <2>3
  <2> QED  BY <1>3, <2>3, <2>6, <2>7 DEF Ordinary, Follows, Undisturbed, Untaken
<1> QED  BY <1>7, <1>8

LEMMA OrdinaryJump ==
  ASSUME NEW h, h \notin Watchful, NEW c \in Cpu, NEW o, Undisturbed(c, o.cpu),
         o.cpu.sampling = c.sampling, o.tick.polled = FALSE,
         ArcOf(o) \in Jumps(h, c.model, c.microcode)
  PROVE  Ordinary(h, c, o)
<1>1. c.sampling \in BOOLEAN /\ c.sampling_off \in BOOLEAN  BY DEF Cpu
<1>2. OffAfter(h, c.sampling_off) = c.sampling_off  BY <1>1 DEF OffAfter, Watchful
<1>3. ArcOf(o) \in Arcs(h, c.model, c.microcode)  BY DEF Arcs
<1> QED  BY <1>1, <1>2, <1>3 DEF Ordinary, Follows, Undisturbed, Untaken

\* Every handler outside the interrupt unit is ordinary.
LEMMA EffectOrdinary ==
  ASSUME NEW h, h \notin Watchful, NEW c \in Cpu, NEW o \in Effect(h, c)
  PROVE  Ordinary(h, c, o)
<1>1. /\ Skip(c, 1) \in Cpu /\ Skip(c, 2) \in Cpu /\ LoopHere(c) \in Cpu
      /\ Undisturbed(c, Skip(c, 1)) /\ Undisturbed(c, Skip(c, 2)) /\ Undisturbed(c, LoopHere(c))
      /\ Undisturbed(c, c)
      /\ Skip(c, 1).sampling = c.sampling /\ Skip(c, 1).microcode = c.microcode + 1
      /\ Skip(c, 2).sampling = c.sampling /\ Skip(c, 2).microcode = c.microcode + 2
      /\ LoopHere(c).sampling = c.sampling /\ LoopHere(c).microcode = c.microcode - 1
      /\ c.microcode + 0 = c.microcode
  BY DEF Skip, LoopHere, Undisturbed, Cpu
<1>2. /\ h \notin Leaving => 0 \in Skips(h)
      /\ h \in SkipOne => 1 \in Skips(h) /\ h \notin Leaving
      /\ h \in SkipTwo => 2 \in Skips(h) /\ h \notin Leaving
  <2>1. h \in SkipOne \/ h \in SkipTwo => h \notin Leaving  BY Apart
  <2>2. h \in SkipTwo => h \notin SkipOne  BY DEF SkipOne, SkipTwo
  <2> QED  BY <2>1, <2>2 DEF Skips
<1>3. h \notin Leaving => Ordinary(h, c, Bus(h, c))  BY <1>1, <1>2, OrdinaryBus
<1>4. h \notin Leaving /\ h \in MayPoll \ SkipOne => Ordinary(h, c, Prefetch(Bus(h, c)))
  BY <1>1, <1>2, OrdinaryBus
<1>5. h \in SkipOne =>
        /\ Ordinary(h, c, Bus(h, Skip(c, 1)))
        /\ h \in MayPoll => Ordinary(h, c, Prefetch(Bus(h, Skip(c, 1))))
  BY <1>1, <1>2, OrdinaryBus
<1>6. h \in SkipTwo =>
        /\ Ordinary(h, c, Bus(h, Skip(c, 2)))
        /\ h \in MayPoll \ SkipOne => Ordinary(h, c, Prefetch(Bus(h, Skip(c, 2))))
  BY <1>1, <1>2, OrdinaryBus
<1>7. ASSUME NEW d \in Cpu, Undisturbed(c, d), d.sampling = c.sampling,
             d.microcode = c.microcode, h \notin Leaving
      PROVE  /\ Ordinary(h, c, Bus(h, d))
             /\ h \in MayPoll \ SkipOne => Ordinary(h, c, Prefetch(Bus(h, d)))
  <2>1. 0 \in Skips(h) /\ d.microcode = c.microcode + 0  BY <1>1, <1>2, <1>7
  <2> QED  BY <1>7, <2>1, OrdinaryBus
<1>8. ASSUME NEW i \in BOOLEAN, NEW f \in BOOLEAN, h \notin Leaving,
             NEW d \in {[c EXCEPT !.I = i], [c EXCEPT !.D = f], [c EXCEPT !.I = i, !.D = f]}
      PROVE  /\ Ordinary(h, c, Bus(h, d))
             /\ h \in MayPoll \ SkipOne => Ordinary(h, c, Prefetch(Bus(h, d)))
  <2>1. d \in Cpu  BY KeepsFlags, KeepsCpu
  <2> DEFINE Flagged(e) == Undisturbed(c, e) /\ e.sampling = c.sampling /\ e.microcode = c.microcode
  <2>2. /\ Flagged([c EXCEPT !.I = i]) /\ Flagged([c EXCEPT !.D = f])
        /\ Flagged([c EXCEPT !.I = i, !.D = f])
    BY DEF Undisturbed
  <2> QED  BY <1>7, <1>8, <2>1, <2>2
<1>9. CASE h \in PlainReads \cup PlainWrites \cup PlainFetches /\ o \in {Bus(h, c)}
  BY <1>3, <1>9, Apart
<1>10. CASE h \in PollHandlers /\ o \in {Prefetch(Bus(h, c))}
  BY <1>4, <1>10, Apart, PollApart DEF MayPoll
<1>11. CASE h \in BinaryPollHandlers /\ o \in {IF c.D THEN Bus(h, c) ELSE Prefetch(Bus(h, c))}
  BY <1>3, <1>4, <1>11, Apart, PollApart DEF MayPoll
<1>12. CASE /\ h \in { "r_indexed_probe_no_latch_prefetch_no_page_cross",
                       "cmos_r_indexed_probe_no_latch_prefetch_no_page_cross" }
            /\ o \in Probe(h, c, Prefetch(Bus(h, Skip(c, 1))))
  <2>1. h \in SkipOne /\ h \in MayPoll  BY <1>12 DEF SkipOne, MayPoll
  <2> QED  BY <1>2, <1>3, <1>5, <1>12, <2>1 DEF Probe
<1>13. CASE /\ h = "cmos_r_indexed_probe_prefetch_no_page_cross_decimal_clear"
            /\ o \in Probe(h, c, IF c.D THEN Bus(h, Skip(c, 1)) ELSE Prefetch(Bus(h, Skip(c, 1))))
  <2>1. h \in SkipOne /\ h \in MayPoll  BY <1>13 DEF SkipOne, MayPoll
  <2> QED  BY <1>2, <1>3, <1>5, <1>13, <2>1 DEF Probe
<1>14. CASE h = "cmos_r_indexed_probe" /\ o \in Probe(h, c, Bus(h, Skip(c, 1)))
  <2>1. h \in SkipOne  BY <1>14 DEF SkipOne
  <2> QED  BY <1>2, <1>3, <1>5, <1>14, <2>1 DEF Probe
<1>15. CASE /\ h \in {"branch_c0_prefetch", "wdc_bbr_bbs_c3_offset_or_skip_prefetch"}
            /\ o \in {Prefetch(Bus(h, c)), Prefetch(Bus(h, Skip(c, 2)))}
  <2>1. h \in SkipTwo /\ h \in MayPoll \ SkipOne  BY <1>15 DEF SkipOne, SkipTwo, MayPoll
  <2> QED  BY <1>2, <1>4, <1>6, <1>15, <2>1
<1>16. CASE /\ h \in {"branch_rel_c1_apply", "wdc_bbr_bbs_c4_apply"}
            /\ o \in {Bus(h, c), Bus(h, Skip(c, 1))}
  <2>1. h \in SkipOne  BY <1>16 DEF SkipOne
  <2> QED  BY <1>2, <1>3, <1>5, <1>16, <2>1
<1>17. CASE h = "exec_fetch_or_decimal_dummy" /\ o \in {FetchOrDecimalDummy(h, c)}
  <2>1. h \notin Leaving /\ h \in MayPoll \ SkipOne  BY <1>17 DEF Leaving, MayPoll, SkipOne
  <2> DEFINE p == Bus("fetch", Skip(c, 1))
  <2>2. p.cpu = Skip(c, 1) /\ p.tick.status = "fetch" /\ p.tick.polled = FALSE
    BY DEF Bus, StatusOf, WriteHandlers, PlainWrites, FetchHandlers, PlainFetches
  <2>3. c.microcode + 1 + 1 = c.microcode + 2  BY DEF Cpu
  <2>4. ArcOf(p) = Arc(c.microcode + 2, "fetch", FALSE)  BY <1>1, <2>2, <2>3 DEF ArcOf
  <2>5. ArcOf(p) \in Jumps(h, c.model, c.microcode)  BY <1>17, <2>4 DEF Jumps
  <2> HIDE DEF p
  <2>6. Ordinary(h, c, p)  BY <1>1, <2>2, <2>5, OrdinaryJump
  <2>7. o = Prefetch(Bus(h, c)) \/ o = p  BY <1>17 DEF FetchOrDecimalDummy, p
  <2> QED  BY <1>4, <2>1, <2>6, <2>7
<1>18. CASE /\ h = "fetch_illegal_ext_dispatch"
            /\ o \in {Bus(h, NextEnterServiceSlot(c, illegal_ext, 0))}
  <2> DEFINE n == IDX(c.model, illegal_ext, 0)
             d == [c EXCEPT !.microcode = n - 1]
  <2>1. n \in Int  BY IndexInt, SlotsInt
  <2> HIDE DEF n
  <2>2. d.microcode + 1 = n /\ Undisturbed(c, d) /\ d.sampling = c.sampling
    BY <2>1 DEF Undisturbed, Cpu
  <2>3. o = Bus(h, d)  BY <1>18 DEF NextEnterServiceSlot, n
  <2> HIDE DEF d
  <2>4. o.cpu = d /\ o.tick.status = "fetch" /\ o.tick.polled = FALSE
    BY <1>18, <2>3 DEF Bus, StatusOf, WriteHandlers, PlainWrites, FetchHandlers
  <2>5. ArcOf(o) = Arc(n, "fetch", FALSE)  BY <2>2, <2>4 DEF ArcOf
  <2>6. ArcOf(o) \in Jumps(h, c.model, c.microcode)  BY <1>18, <2>5 DEF Jumps, n
  <2> QED  BY <2>2, <2>4, <2>6, OrdinaryJump
<1>19. CASE \/ h = "cli_prefetch" /\ o \in {Prefetch(Bus(h, [c EXCEPT !.I = FALSE]))}
            \/ h = "sei_prefetch" /\ o \in {Prefetch(Bus(h, [c EXCEPT !.I = TRUE]))}
            \/ h = "cld_prefetch" /\ o \in {Prefetch(Bus(h, [c EXCEPT !.D = FALSE]))}
            \/ h = "sed_prefetch" /\ o \in {Prefetch(Bus(h, [c EXCEPT !.D = TRUE]))}
  <2>1. h \notin Leaving /\ h \in MayPoll \ SkipOne  BY <1>19 DEF Leaving, MayPoll, SkipOne
  <2> QED  BY <1>8, <1>19, <2>1
<1>20. CASE h \in {"plp_fetch", "rti_c3_pull_pcl"} /\ o \in {Bus(h, d) : d \in PulledStatus(c)}
  <2>1. h \notin Leaving  BY <1>20 DEF Leaving
  <2>2. PICK p \in [I : BOOLEAN, D : BOOLEAN] : o = Bus(h, [c EXCEPT !.I = p.I, !.D = p.D])
    BY <1>20 DEF PulledStatus
  <2>3. p.I \in BOOLEAN /\ p.D \in BOOLEAN  OBVIOUS
  <2> QED  BY <1>8, <2>1, <2>2, <2>3
<1>21. CASE h = "kil_jam_loop" /\ o \in {[Bus(h, LoopHere(c)) EXCEPT !.tick.status = "jammed"]}
  <2>1. o.cpu = LoopHere(c) /\ o.tick.status = "jammed" /\ o.tick.polled = FALSE
    BY <1>21 DEF Bus
  <2>2. c.microcode - 1 + 1 = c.microcode  BY DEF Cpu
  <2>3. ArcOf(o) = Arc(c.microcode, "jammed", FALSE)  BY <1>1, <2>1, <2>2 DEF ArcOf
  <2>4. ArcOf(o) \in Jumps(h, c.model, c.microcode)  BY <1>21, <2>3 DEF Jumps
  <2> QED  BY <1>1, <2>1, <2>4, OrdinaryJump
<1>22. CASE h = "internal_reset" /\ o \in {InternalReset(h, c)}
  <2> DEFINE d == [c EXCEPT !.latch_data = (@ + 1) % 256]
             n == IDX(c.model, reset_0, 0)
             e == NextEnterServiceSlot(d, reset_0, 0)
  <2>1. n \in Int /\ c.microcode \in Int  BY IndexInt, SlotsInt DEF Cpu
  <2>2. /\ Undisturbed(c, e) /\ e.sampling = c.sampling /\ e.microcode = n - 1
        /\ Undisturbed(c, LoopHere(d)) /\ LoopHere(d).sampling = c.sampling
        /\ LoopHere(d).microcode = c.microcode - 1
    BY DEF Undisturbed, NextEnterServiceSlot, LoopHere, Cpu
  <2>3. o = Bus(h, e) \/ o = Bus(h, LoopHere(d))  BY <1>22 DEF InternalReset
  <2> HIDE DEF n, d, e
  <2>4. StatusOf(h) = "read"
    BY <1>22 DEF StatusOf, WriteHandlers, PlainWrites, FetchHandlers, PlainFetches
  <2>5. /\ o.tick.polled = FALSE /\ o.tick.status = "read"
        /\ o.cpu = e \/ o.cpu = LoopHere(d)
    BY <2>3, <2>4 DEF Bus
  <2>6. ArcOf(o) = Arc(n, "read", FALSE) \/ ArcOf(o) = Arc(c.microcode, "read", FALSE)
    <3>1. n - 1 + 1 = n /\ c.microcode - 1 + 1 = c.microcode  BY <2>1
    <3>2. o.cpu.microcode = n - 1 \/ o.cpu.microcode = c.microcode - 1  BY <2>2, <2>5
    <3> QED  BY <2>5, <3>1, <3>2 DEF ArcOf
  <2>7. ArcOf(o) \in Jumps(h, c.model, c.microcode)  BY <1>22, <2>6 DEF Jumps, n
  <2> QED  BY <2>2, <2>5, <2>7, OrdinaryJump
<1>23. CASE \/ h = "reset_vec_hi" /\ o \in {Bus(h, [c EXCEPT !.I = TRUE])}
            \/ h = "cmos_brk_c5_vec_hi" /\ o \in {Bus(h, [c EXCEPT !.I = TRUE, !.D = FALSE])}
  <2>1. h \notin Leaving  BY <1>23 DEF Leaving
  <2> QED  BY <1>8, <1>23, <2>1
<1>24. OrdinaryArms(h, c, o)
  <2>1. h \notin { "stack_push_status_b", "brk_c5_vec_hi", "nmos_irq_c5_vec_hi",
                   "nmos_nmi_c5_vec_hi", "cmos_irq_c5_vec_hi", "cmos_nmi_c5_vec_hi",
                   "nmi_c3_push_p", "irq_c3_push_p", "cmos_nmi_c3_push_p", "cmos_irq_c3_push_p" }
    BY DEF Watchful, Opening, Closing, Settling
  <2>2. ~WatchfulArms(h, c, o)  BY <2>1 DEF WatchfulArms
  <2> QED  BY <2>2, EffectCases
<1> QED
  BY <1>9, <1>10, <1>11, <1>12, <1>13, <1>14, <1>15, <1>16, <1>17, <1>18, <1>19, <1>20, <1>21,
     <1>22, <1>23, <1>24 DEF OrdinaryArms

-----------------------------------------------------------------------------
\* The handlers of the interrupt unit: none of them chooses an interrupt or latches an edge for
\* later, and few drop an edge.
Watched(h, c, d) ==
  /\ d.nmi_taken => c.nmi_taken
  /\ d.irq_taken => c.irq_taken
  /\ d.nmi_edge => c.nmi_edge
  /\ h \in Opening \cup {"cmos_nmi_c5_vec_hi", "cmos_nmi_c3_push_p"} => ~d.nmi_edge
  /\ d.irq_pin = c.irq_pin
  /\ h \in {"nmos_nmi_c5_vec_hi", "cmos_nmi_c5_vec_hi"} => d.nmi_last = c.nmi_pin
  /\ h \in Yielding /\ Untaken(c) =>
       IF c.nmi_edge THEN d.microcode + 1 = IDX(c.model, nmi, 4)
       ELSE \/ d.microcode = c.microcode
            \/ c.irq_pin /\ d.microcode + 1 = IDX(c.model, irq, 4)
  /\ h \notin Yielding => d.microcode = c.microcode
  /\ c.nmi_edge /\ ~d.nmi_edge /\ h \notin Yielding =>
       h \in {"nmi_c3_push_p", "cmos_nmi_c3_push_p", "cmos_nmi_c5_vec_hi", "cmos_irq_c5_vec_hi"}

\* What FindActiveInterrupt leaves behind.
LEMMA Found ==
  ASSUME NEW c \in Cpu, NEW i \in BOOLEAN
  PROVE  LET f == FindActiveInterrupt(c, i)
         IN  /\ f \in Cpu /\ f.model = c.model /\ f.microcode = c.microcode
             /\ f.sampling = c.sampling /\ f.sampling_off = c.sampling_off
             /\ f.service_mode = c.service_mode /\ f.I = c.I
             /\ f.nmi_pin = c.nmi_pin /\ f.nmi_last = c.nmi_last /\ f.irq_pin = c.irq_pin
             /\ ~f.nmi_edge
             /\ f.nmi_taken =
                  (c.nmi_edge \/ (c.nmi_taken /\ (i \/ ~c.irq_pin)))
             /\ f.irq_taken = (~c.nmi_edge /\ (c.irq_taken \/ (~i /\ c.irq_pin)))
<1> DEFINE f == FindActiveInterrupt(c, i)
<1>1. f \in Cpu  BY KeepsInterrupts, KeepsCpu
<1>2. CASE c.nmi_edge
  <2> DEFINE d == [c EXCEPT !.nmi_edge = FALSE, !.nmi_taken = TRUE, !.irq_taken = FALSE]
  <2>1. f = d  BY <1>2 DEF FindActiveInterrupt
  <2>2. /\ d.model = c.model /\ d.microcode = c.microcode
        /\ d.sampling = c.sampling /\ d.sampling_off = c.sampling_off
        /\ d.service_mode = c.service_mode /\ d.I = c.I
    BY DEF Cpu
  <2>3. /\ d.nmi_pin = c.nmi_pin /\ d.nmi_last = c.nmi_last /\ d.irq_pin = c.irq_pin
        /\ d.nmi_edge = FALSE /\ d.nmi_taken = TRUE /\ d.irq_taken = FALSE
    BY DEF Cpu
  <2> HIDE DEF d, f
  <2>4. c.nmi_edge = TRUE  BY <1>2 DEF Cpu
  <2> QED  BY <1>1, <2>1, <2>2, <2>3, <2>4 DEF f
<1>3. CASE ~c.nmi_edge /\ ~i /\ c.irq_pin
  <2> DEFINE d == [c EXCEPT !.irq_taken = TRUE, !.nmi_taken = FALSE]
  <2>1. f = d  BY <1>3 DEF FindActiveInterrupt
  <2>2. /\ d.model = c.model /\ d.microcode = c.microcode
        /\ d.sampling = c.sampling /\ d.sampling_off = c.sampling_off
        /\ d.service_mode = c.service_mode /\ d.I = c.I
    BY DEF Cpu
  <2>3. /\ d.nmi_pin = c.nmi_pin /\ d.nmi_last = c.nmi_last /\ d.irq_pin = c.irq_pin
        /\ d.nmi_edge = c.nmi_edge /\ d.nmi_taken = FALSE /\ d.irq_taken = TRUE
    BY DEF Cpu
  <2> HIDE DEF d, f
  <2>4. c.nmi_edge = FALSE  BY <1>3 DEF Cpu
  <2> QED  BY <1>1, <1>3, <2>1, <2>2, <2>3, <2>4 DEF f
<1>4. CASE ~c.nmi_edge /\ ~(~i /\ c.irq_pin)
  <2>1. f = c  BY <1>4 DEF FindActiveInterrupt
  <2>2. c.nmi_edge = FALSE /\ c.nmi_taken \in BOOLEAN /\ c.irq_taken \in BOOLEAN  BY <1>4 DEF Cpu
  <2> QED  BY <1>4, <2>1, <2>2 DEF f
<1> QED  BY <1>2, <1>3, <1>4

LEMMA EffectWatchful ==
  ASSUME NEW h \in Watchful, NEW c, NEW o \in Effect(h, c) PROVE WatchfulArms(h, c, o)
<1>1. /\ h \notin PlainReads \cup PlainWrites \cup PlainFetches
      /\ h \notin PollHandlers /\ h \notin BinaryPollHandlers
  BY Apart
<1>2. h \in { "stack_push_status_b", "brk_c5_vec_hi", "nmos_irq_c5_vec_hi",
              "nmos_nmi_c5_vec_hi", "cmos_irq_c5_vec_hi", "cmos_nmi_c5_vec_hi",
              "nmi_c3_push_p", "irq_c3_push_p", "cmos_nmi_c3_push_p", "cmos_irq_c3_push_p" }
  BY DEF Watchful, Opening, Closing, Settling
<1>3. ~OrdinaryArms(h, c, o)  BY <1>1, <1>2 DEF OrdinaryArms
<1> QED  BY <1>3, EffectCases

\* A handler of the interrupt unit that goes on, or jumps where it may.
LEMMA WatchfulBus ==
  ASSUME NEW h \in Watchful, NEW c \in Cpu, NEW d \in Cpu, d.model = c.model,
         d.sampling = c.sampling, d.sampling_off = OffAfter(h, c.sampling_off),
         Untaken(c) => Untaken(d),
         \/ d.microcode = c.microcode
         \/ Arc(d.microcode + 1, StatusOf(h), FALSE) \in Jumps(h, c.model, c.microcode)
  PROVE  Follows(h, c, Bus(h, d)) /\ Bus(h, d).cpu = d
<1> DEFINE o == Bus(h, d)
<1>1. o.cpu = d /\ o.tick.status = StatusOf(h) /\ o.tick.polled = FALSE  BY DEF Bus
<1>2. h \notin Leaving /\ h \notin SkipOne /\ h \notin SkipTwo
  <2>1. h \notin Leaving  BY DEF Leaving, Watchful, Opening, Closing, Settling
  <2> QED  BY <2>1, Apart
<1>3. 0 \in Skips(h) /\ FALSE \in Polls(h, 0)  BY <1>2 DEF Skips, Polls
<1>4. Arc(c.microcode + 1 + 0, StatusOf(h), FALSE) \in Arcs(h, c.model, c.microcode)
  BY <1>3, OwnArcs
<1>5. c.microcode + 1 + 0 = c.microcode + 1  BY DEF Cpu
<1>6. Arc(d.microcode + 1, StatusOf(h), FALSE) \in Arcs(h, c.model, c.microcode)
  <2>1. CASE d.microcode = c.microcode
    BY <1>4, <1>5, <2>1
  <2>2. CASE Arc(d.microcode + 1, StatusOf(h), FALSE) \in Jumps(h, c.model, c.microcode)
    <3> DEFINE a == Arc(d.microcode + 1, StatusOf(h), FALSE)
    <3>1. a \in Jumps(h, c.model, c.microcode)  BY <2>2
    <3> HIDE DEF a
    <3>2. a \in Arcs(h, c.model, c.microcode)  BY <3>1 DEF Arcs
    <3> QED  BY <3>2 DEF a
  <2> QED  BY <2>1, <2>2
<1> HIDE DEF o
<1>7. ArcOf(o) \in Arcs(h, c.model, c.microcode)  BY <1>1, <1>6 DEF ArcOf
<1>8. o.cpu.sampling = (c.sampling \/ o.tick.polled)  BY <1>1 DEF Cpu
<1> QED  BY <1>1, <1>7, <1>8 DEF Follows, o

\* Taking an interrupt's slot over.
LEMMA TakenOver ==
  ASSUME NEW c \in Cpu, NEW x \in Cpu, x.model = c.model, NEW slot \in {nmi, irq}
  PROVE  LET d == NextEnterServiceSlot(x, slot, 4)
         IN  /\ d \in Cpu /\ d.model = c.model /\ d.microcode + 1 = IDX(c.model, slot, 4)
             /\ d.sampling = x.sampling /\ d.sampling_off = x.sampling_off
             /\ d.irq_pin = x.irq_pin /\ d.nmi_edge = x.nmi_edge
             /\ d.nmi_taken = x.nmi_taken /\ d.irq_taken = x.irq_taken
<1> DEFINE n == IDX(c.model, slot, 4)
<1>1. slot \in Int /\ n \in Int  BY SlotsInt, IndexInt
<1> HIDE DEF n
<1> DEFINE d == [x EXCEPT !.microcode = n - 1]
<1>2. /\ d \in Cpu /\ d.model = c.model /\ d.microcode = n - 1
      /\ d.sampling = x.sampling /\ d.sampling_off = x.sampling_off
      /\ d.irq_pin = x.irq_pin /\ d.nmi_edge = x.nmi_edge
      /\ d.nmi_taken = x.nmi_taken /\ d.irq_taken = x.irq_taken
  BY <1>1 DEF Cpu
<1>3. n - 1 + 1 = n  BY <1>1
<1>4. NextEnterServiceSlot(x, slot, 4) = d  BY DEF NextEnterServiceSlot, n
<1> HIDE DEF d
<1> QED  BY <1>2, <1>3, <1>4 DEF n

\* Dropping what was chosen changes nothing else.
LEMMA Dropped ==
  ASSUME NEW c \in Cpu
  PROVE  LET d == DropTaken(c)
         IN  /\ d \in Cpu /\ Untaken(d) /\ d.model = c.model /\ d.microcode = c.microcode
             /\ d.sampling = c.sampling /\ d.sampling_off = c.sampling_off
             /\ d.irq_pin = c.irq_pin /\ d.nmi_edge = c.nmi_edge
<1> DEFINE d == [c EXCEPT !.nmi_taken = FALSE, !.irq_taken = FALSE]
<1>1. d \in Cpu
  BY DEF Cpu
<1>2. /\ ~d.nmi_taken /\ ~d.irq_taken /\ d.model = c.model /\ d.microcode = c.microcode
  BY DEF Cpu
<1>3. /\ d.sampling = c.sampling /\ d.sampling_off = c.sampling_off
      /\ d.irq_pin = c.irq_pin /\ d.nmi_edge = c.nmi_edge
  BY DEF Cpu
<1>4. DropTaken(c) = d  BY DEF DropTaken
<1> HIDE DEF d
<1> QED  BY <1>1, <1>2, <1>3, <1>4 DEF Untaken

LEMMA StatusPushes ==
  ASSUME NEW c \in Cpu, NEW h \in Opening, NEW o \in Effect(h, c)
  PROVE  Follows(h, c, o) /\ Watched(h, c, o.cpu)
<1> DEFINE f == FindActiveInterrupt(c, c.I)
           g == [f EXCEPT !.sampling_off = TRUE]
<1>1. c.I \in BOOLEAN /\ c.nmi_edge \in BOOLEAN /\ c.nmi_taken \in BOOLEAN /\ c.irq_taken \in BOOLEAN
  BY DEF Cpu
<1>2. /\ f \in Cpu /\ f.model = c.model /\ f.microcode = c.microcode
      /\ f.sampling = c.sampling /\ f.irq_pin = c.irq_pin /\ ~f.nmi_edge
      /\ f.nmi_taken = (c.nmi_edge \/ (c.nmi_taken /\ (c.I \/ ~c.irq_pin)))
      /\ f.irq_taken = (~c.nmi_edge /\ (c.irq_taken \/ (~c.I /\ c.irq_pin)))
  BY <1>1, Found
<1> HIDE DEF f
<1> DEFINE Opened(d) == /\ d \in Cpu /\ d.model = c.model /\ d.sampling = c.sampling
                        /\ d.sampling_off = TRUE /\ d.irq_pin = c.irq_pin /\ ~d.nmi_edge
<1>3. /\ Opened(g) /\ g.microcode = c.microcode
      /\ g.nmi_taken = f.nmi_taken /\ g.irq_taken = f.irq_taken
  BY <1>2 DEF Cpu
<1> HIDE DEF g
<1>4. h \in Watchful /\ OffAfter(h, c.sampling_off) = TRUE
  BY DEF Watchful, OffAfter
<1>5. StatusOf(h) = "write"  BY DEF StatusOf, WriteHandlers, Opening
<1>6. ASSUME NEW d, Opened(d), Untaken(d),
             \/ d.microcode = c.microcode
             \/ Arc(d.microcode + 1, "write", FALSE) \in Jumps(h, c.model, c.microcode)
      PROVE  Follows(h, c, Bus(h, d)) /\ Bus(h, d).cpu = d
  BY <1>4, <1>5, <1>6, WatchfulBus
<1>7. CASE h = "stack_push_status_b"
  <2> DEFINE x == DropTaken(g)
             Over(slot) == NextEnterServiceSlot(x, slot, 4)
  <2>1. Opened(x) /\ Untaken(x)  BY <1>3, Dropped
  <2> HIDE DEF x
  <2>2. ASSUME NEW slot \in {nmi, irq}
        PROVE  Opened(Over(slot)) /\ Untaken(Over(slot))
               /\ Over(slot).microcode + 1 = IDX(c.model, slot, 4)
    <3> DEFINE d == Over(slot)
    <3>1. /\ d \in Cpu /\ d.model = c.model /\ d.microcode + 1 = IDX(c.model, slot, 4)
          /\ d.sampling = x.sampling /\ d.sampling_off = x.sampling_off
          /\ d.irq_pin = x.irq_pin /\ d.nmi_edge = x.nmi_edge
          /\ d.nmi_taken = x.nmi_taken /\ d.irq_taken = x.irq_taken
      BY <2>1, TakenOver
    <3> HIDE DEF d
    <3> QED  BY <2>1, <3>1 DEF Untaken, d
  <2>3. o = Bus(h, StackPushStatusB(c))
    BY <1>7, EffectWatchful, <1>4 DEF WatchfulArms
  <2>4. StackPushStatusB(c) = IF g.nmi_taken THEN Over(nmi)
                              ELSE IF g.irq_taken THEN Over(irq) ELSE g
    BY DEF StackPushStatusB, g, f, x
  <2>5. ASSUME NEW slot \in {nmi, irq}
        PROVE  Arc(IDX(c.model, slot, 4), "write", FALSE) \in Jumps(h, c.model, c.microcode)
    BY <1>7 DEF Jumps
  <2>6. CASE g.nmi_taken
    <3>1. o = Bus(h, Over(nmi))  BY <2>3, <2>4, <2>6
    <3>2. Follows(h, c, o) /\ o.cpu = Over(nmi)  BY <1>6, <2>2, <2>5, <3>1
    <3>3. c.nmi_edge \/ c.nmi_taken  BY <1>2, <1>3, <2>6
    <3> HIDE DEF Over
    <3> QED  BY <1>7, <2>2, <3>2, <3>3 DEF Watched, Untaken, Yielding
  <2>7. CASE ~g.nmi_taken /\ g.irq_taken
    <3>1. o = Bus(h, Over(irq))  BY <2>3, <2>4, <2>7
    <3>2. Follows(h, c, o) /\ o.cpu = Over(irq)  BY <1>6, <2>2, <2>5, <3>1
    <3>3. ~c.nmi_edge /\ (Untaken(c) => c.irq_pin)  BY <1>2, <1>3, <2>7 DEF Untaken
    <3> HIDE DEF Over
    <3> QED  BY <1>7, <2>2, <3>2, <3>3 DEF Watched, Untaken, Yielding
  <2>8. CASE ~g.nmi_taken /\ ~g.irq_taken
    <3>1. o = Bus(h, g)  BY <2>3, <2>4, <2>8
    <3>2. Follows(h, c, o) /\ o.cpu = g  BY <1>3, <1>6, <2>8, <3>1 DEF Untaken
    <3>3. ~c.nmi_edge  BY <1>2, <1>3, <2>8
    <3> QED  BY <1>3, <1>7, <2>8, <3>2, <3>3 DEF Watched, Untaken, Yielding
  <2> QED  BY <2>6, <2>7, <2>8
<1>8. CASE h = "nmi_c3_push_p"
  <2> DEFINE d == NmiPushP(c)
  <2>1. o = Bus(h, d)
    BY <1>8, EffectWatchful, <1>4 DEF WatchfulArms
  <2>2. [f EXCEPT !.sampling_off = TRUE, !.nmi_edge = FALSE] = [g EXCEPT !.nmi_edge = FALSE]
    BY DEF g
  <2> DEFINE x == [g EXCEPT !.nmi_edge = FALSE]
  <2>3. d = DropTaken(x)  BY <2>2 DEF NmiPushP, f
  <2>4. Opened(d) /\ Untaken(d) /\ d.microcode = c.microcode
    <3>1. Opened(x) /\ x.microcode = c.microcode  BY <1>3 DEF Cpu
    <3> HIDE DEF x
    <3>2. Opened(DropTaken(x)) /\ Untaken(DropTaken(x)) /\ DropTaken(x).microcode = c.microcode
      BY <3>1, Dropped
    <3> QED  BY <2>3, <3>2
  <2> HIDE DEF d
  <2>5. Follows(h, c, o) /\ o.cpu = d  BY <1>6, <2>1, <2>4
  <2> QED  BY <1>8, <2>4, <2>5 DEF Watched, Untaken, Yielding
<1>9. CASE h = "irq_c3_push_p"
  <2> DEFINE x == [g EXCEPT !.irq_taken = FALSE]
             y == [x EXCEPT !.nmi_taken = FALSE]
             z == NextEnterServiceSlot(y, nmi, 4)
  <2>1. o = Bus(h, IrqPushP(c))
    BY <1>9, EffectWatchful, <1>4 DEF WatchfulArms
  <2>2. x = [f EXCEPT !.sampling_off = TRUE, !.irq_taken = FALSE]  BY DEF g
  <2>3. Opened(x) /\ ~x.irq_taken /\ x.nmi_taken = f.nmi_taken /\ x.microcode = c.microcode
    <3>1. g \in Cpu  BY <1>3
    <3>2. x \in Cpu /\ ~x.irq_taken
      <4>1. x \in Cpu  BY <3>1 DEF Cpu
      <4>2. ~x.irq_taken  BY <3>1 DEF Cpu
      <4> QED  BY <4>1, <4>2
    <3>3. /\ x.model = g.model /\ x.sampling = g.sampling /\ x.sampling_off = g.sampling_off
          /\ x.irq_pin = g.irq_pin /\ x.nmi_edge = g.nmi_edge
      BY <3>1 DEF Cpu
    <3>4. x.nmi_taken = g.nmi_taken /\ x.microcode = g.microcode  BY <3>1 DEF Cpu
    <3> HIDE DEF x
    <3> QED  BY <1>3, <3>2, <3>3, <3>4
  <2> HIDE DEF x
  <2>4. IrqPushP(c) = IF x.nmi_taken THEN z ELSE x  BY <2>2, Zenon DEF IrqPushP, f
  <2>5. Opened(y) /\ Untaken(y)  BY <2>3 DEF Untaken, Cpu
  <2> HIDE DEF y
  <2>6. Opened(z) /\ Untaken(z) /\ z.microcode + 1 = IDX(c.model, nmi, 4)
    BY <2>5, TakenOver DEF Untaken
  <2> HIDE DEF z
  <2>7. CASE x.nmi_taken
    <3>1. Arc(IDX(c.model, nmi, 4), "write", FALSE) \in Jumps(h, c.model, c.microcode)
      BY <1>9 DEF Jumps
    <3>2. o = Bus(h, z)  BY <2>1, <2>4, <2>7
    <3>3. Follows(h, c, o) /\ o.cpu = z  BY <1>6, <2>6, <3>1, <3>2
    <3>4. c.nmi_edge \/ c.nmi_taken  BY <1>2, <2>3, <2>7
    <3> QED  BY <1>9, <2>6, <3>3, <3>4 DEF Watched, Untaken, Yielding
  <2>8. CASE ~x.nmi_taken
    <3>1. o = Bus(h, x)  BY <2>1, <2>4, <2>8
    <3>2. Follows(h, c, o) /\ o.cpu = x  BY <1>6, <2>3, <2>8, <3>1 DEF Untaken
    <3>3. ~c.nmi_edge  BY <1>2, <2>3, <2>8
    <3> QED  BY <1>9, <2>3, <2>8, <3>2, <3>3 DEF Watched, Untaken, Yielding
  <2> QED  BY <2>7, <2>8
<1> QED  BY <1>7, <1>8, <1>9 DEF Opening

LEMMA VectorReads ==
  ASSUME NEW c \in Cpu, NEW h \in Closing \cup Settling, NEW o \in Effect(h, c)
  PROVE  Follows(h, c, o) /\ Watched(h, c, o.cpu)
<1> DEFINE Tended(d) == /\ d \in Cpu /\ d.model = c.model /\ d.sampling = c.sampling
                        /\ d.microcode = c.microcode
                        /\ d.nmi_taken => c.nmi_taken
                        /\ d.irq_taken => c.irq_taken
                        /\ d.nmi_edge => c.nmi_edge
                        /\ d.irq_pin = c.irq_pin
<1>1. h \in Watchful /\ h \notin Opening /\ h \notin Yielding
  BY DEF Watchful, Opening, Closing, Settling, Yielding
<1>2. c.sampling_off \in BOOLEAN  BY DEF Cpu
<1>3. ASSUME NEW d, Tended(d), d.sampling_off = OffAfter(h, c.sampling_off)
      PROVE  Follows(h, c, Bus(h, d)) /\ Bus(h, d).cpu = d
  BY <1>1, <1>3, WatchfulBus DEF Untaken
<1>4. CASE h \in {"brk_c5_vec_hi", "nmos_irq_c5_vec_hi"}
  <2> DEFINE d == NmosVectorLow(c)
  <2>1. o = Bus(h, d)  BY <1>1, <1>4, EffectWatchful DEF WatchfulArms
  <2>2. Tended(d) /\ d.sampling_off = FALSE /\ d.nmi_edge = c.nmi_edge
    BY DEF NmosVectorLow, Cpu
  <2> HIDE DEF d
  <2>3. OffAfter(h, c.sampling_off) = FALSE  BY <1>1, <1>4 DEF OffAfter, Closing
  <2>4. Follows(h, c, o) /\ o.cpu = d  BY <1>3, <2>1, <2>2, <2>3
  <2> QED  BY <1>1, <1>4, <2>2, <2>4 DEF Watched
<1>5. CASE h = "nmos_nmi_c5_vec_hi"
  <2> DEFINE x == NmosVectorLow(c)
             d == UpdateNmiLastSampled(x)
  <2>1. o = Bus(h, d)  BY <1>1, <1>5, EffectWatchful DEF WatchfulArms
  <2>2. /\ Tended(x) /\ x.sampling_off = FALSE /\ x.nmi_edge = c.nmi_edge
        /\ x.nmi_pin = c.nmi_pin
    BY DEF NmosVectorLow, Cpu
  <2> HIDE DEF x
  <2>3. Tended(d) /\ d.sampling_off = FALSE /\ d.nmi_edge = c.nmi_edge /\ d.nmi_last = c.nmi_pin
    BY <2>2 DEF UpdateNmiLastSampled, Cpu
  <2> HIDE DEF d
  <2>4. OffAfter(h, c.sampling_off) = FALSE  BY <1>1, <1>5 DEF OffAfter, Closing
  <2>5. Follows(h, c, o) /\ o.cpu = d  BY <1>3, <2>1, <2>3, <2>4
  <2> QED  BY <1>1, <1>5, <2>3, <2>5 DEF Watched
<1>6. h \in Settling => OffAfter(h, c.sampling_off) = c.sampling_off
  <2>1. h \in Settling => h \notin Closing  BY DEF Settling, Closing
  <2> QED  BY <1>1, <1>2, <2>1 DEF OffAfter
<1>7. CASE h \in {"cmos_irq_c5_vec_hi", "cmos_nmi_c5_vec_hi"}
  <2> DEFINE x == [c EXCEPT !.I = TRUE, !.D = FALSE, !.nmi_edge = FALSE]
             d == CmosVectorLow(c)
  <2>1. o = Bus(h, d)  BY <1>1, <1>7, EffectWatchful DEF WatchfulArms
  <2>2. /\ Tended(x) /\ x.sampling_off = c.sampling_off /\ x.nmi_edge = FALSE
        /\ x.nmi_pin = c.nmi_pin
    <3>1. x \in Cpu  BY DEF Cpu
    <3>2. /\ x.model = c.model /\ x.microcode = c.microcode
          /\ x.sampling = c.sampling /\ x.sampling_off = c.sampling_off
      BY DEF Cpu
    <3>3. /\ x.nmi_taken = c.nmi_taken /\ x.irq_taken = c.irq_taken
          /\ x.nmi_edge = FALSE /\ x.nmi_pin = c.nmi_pin /\ x.irq_pin = c.irq_pin
      BY DEF Cpu
    <3> HIDE DEF x
    <3> QED  BY <3>1, <3>2, <3>3
  <2> HIDE DEF x
  <2>3. d = UpdateNmiLastSampled(x)  BY DEF CmosVectorLow, x
  <2>4. /\ Tended(d) /\ d.sampling_off = c.sampling_off /\ d.nmi_edge = FALSE
        /\ d.nmi_last = c.nmi_pin
    <3>1. d \in Cpu /\ d.nmi_last = c.nmi_pin /\ d.irq_pin = x.irq_pin
      BY <2>2, <2>3 DEF UpdateNmiLastSampled, Cpu
    <3>2. /\ d.model = x.model /\ d.microcode = x.microcode
          /\ d.sampling = x.sampling /\ d.sampling_off = x.sampling_off
      BY <2>2, <2>3 DEF UpdateNmiLastSampled, Cpu
    <3>3. /\ d.nmi_taken = x.nmi_taken /\ d.irq_taken = x.irq_taken /\ d.nmi_edge = x.nmi_edge
      BY <2>2, <2>3 DEF UpdateNmiLastSampled, Cpu
    <3> HIDE DEF d
    <3> QED  BY <2>2, <3>1, <3>2, <3>3
  <2> HIDE DEF d
  <2>5. Follows(h, c, o) /\ o.cpu = d  BY <1>3, <1>6, <1>7, <2>1, <2>4 DEF Settling
  <2> QED  BY <1>1, <1>7, <2>4, <2>5 DEF Watched
<1>8. CASE h = "cmos_nmi_c3_push_p"
  <2> DEFINE x == [c EXCEPT !.nmi_edge = FALSE, !.nmi_taken = FALSE]
             d == CmosNmiPushP(c)
  <2>1. o = Bus(h, d)  BY <1>1, <1>8, EffectWatchful DEF WatchfulArms
  <2>2. /\ Tended(x) /\ x.sampling_off = c.sampling_off /\ x.nmi_edge = FALSE
        /\ x.nmi_taken = FALSE /\ x.nmi_pin = c.nmi_pin
    BY DEF Cpu
  <2> HIDE DEF x
  <2>3. d = UpdateNmiLastSampled(x)  BY DEF CmosNmiPushP, x
  <2>4. Tended(d) /\ d.sampling_off = c.sampling_off /\ d.nmi_edge = FALSE
    <3>1. d \in Cpu /\ d.nmi_last = c.nmi_pin /\ d.irq_pin = x.irq_pin
      BY <2>2, <2>3 DEF UpdateNmiLastSampled, Cpu
    <3>2. /\ d.model = x.model /\ d.microcode = x.microcode
          /\ d.sampling = x.sampling /\ d.sampling_off = x.sampling_off
      BY <2>2, <2>3 DEF UpdateNmiLastSampled, Cpu
    <3>3. /\ d.nmi_taken = x.nmi_taken /\ d.irq_taken = x.irq_taken /\ d.nmi_edge = x.nmi_edge
      BY <2>2, <2>3 DEF UpdateNmiLastSampled, Cpu
    <3> HIDE DEF d
    <3> QED  BY <2>2, <3>1, <3>2, <3>3
  <2> HIDE DEF d
  <2>5. Follows(h, c, o) /\ o.cpu = d  BY <1>3, <1>6, <1>8, <2>1, <2>4 DEF Settling
  <2> QED  BY <1>1, <1>8, <2>4, <2>5 DEF Watched
<1>9. CASE h = "cmos_irq_c3_push_p"
  <2> DEFINE d == [c EXCEPT !.irq_taken = FALSE]
  <2>1. o = Bus(h, d)  BY <1>1, <1>9, EffectWatchful DEF WatchfulArms
  <2>2. Tended(d) /\ d.sampling_off = c.sampling_off /\ d.nmi_edge = c.nmi_edge
    <3>1. d \in Cpu  BY DEF Cpu
    <3>2. /\ d.model = c.model /\ d.microcode = c.microcode
          /\ d.sampling = c.sampling /\ d.sampling_off = c.sampling_off
      BY DEF Cpu
    <3>3. /\ d.nmi_taken = c.nmi_taken /\ d.irq_taken = FALSE /\ d.nmi_edge = c.nmi_edge
          /\ d.irq_pin = c.irq_pin
      BY DEF Cpu
    <3> HIDE DEF d
    <3> QED  BY <3>1, <3>2, <3>3
  <2> HIDE DEF d
  <2>3. Follows(h, c, o) /\ o.cpu = d  BY <1>3, <1>6, <1>9, <2>1, <2>2 DEF Settling
  <2> QED  BY <1>1, <1>9, <2>2, <2>3 DEF Watched
<1> QED  BY <1>4, <1>5, <1>7, <1>8, <1>9 DEF Closing, Settling

\* So every handler keeps to its arcs, and only the interrupt unit's own touch its state.
LEMMA EffectFollows ==
  ASSUME NEW h, NEW c \in Cpu, NEW o \in Effect(h, c)
  PROVE  /\ Follows(h, c, o)
         /\ IF h \in Watchful THEN Watched(h, c, o.cpu) /\ ~o.tick.polled
            ELSE Undisturbed(c, o.cpu)
<1>1. CASE h \in Watchful
  <2>1. ~o.tick.polled  BY <1>1, EffectWatchful DEF WatchfulArms, Bus
  <2> QED  BY <1>1, <2>1, StatusPushes, VectorReads DEF Watchful
<1>2. CASE h \notin Watchful
  BY <1>2, EffectOrdinary DEF Ordinary
<1> QED  BY <1>1, <1>2

-----------------------------------------------------------------------------
\* A tick runs the handler of one index: its own, or the first of the slot of the opcode just
\* fetched. In service mode the NMI line is sampled before and the resolver runs after.
Sources(c) ==
  IF Store[c.microcode] = "dispatch" THEN {IDX(c.model, opcode, 0) : opcode \in Opcodes}
  ELSE {c.microcode}

Start(c, n) ==
  [(IF c.service_mode /\ ~c.sampling_off THEN SampleNmi(c) ELSE c) EXCEPT !.microcode = n]

Finish(c, p) == IF c.service_mode THEN Resolve(Advance(p), c.I) ELSE Advance(p)

LEMMA OutcomeParts ==
  ASSUME NEW c \in Cpu, NEW o \in Outcomes(c)
  PROVE  \E n \in Sources(c) : o \in Effect(Store[n], [c EXCEPT !.microcode = n])
<1>1. CASE Store[c.microcode] = "dispatch"
  <2>1. PICK opcode \in Opcodes : o \in Dispatch(c, opcode)  BY <1>1 DEF Outcomes
  <2> DEFINE n == IDX(c.model, opcode, 0)
             d == [c EXCEPT !.microcode = n]
  <2>2. d.microcode = n  BY DEF Cpu
  <2>3. o \in Effect(Store[d.microcode], d)  BY <2>1 DEF Dispatch
  <2>4. n \in Sources(c)  BY <1>1 DEF Sources
  <2> HIDE DEF n
  <2> QED  BY <2>2, <2>3, <2>4
<1>2. CASE Store[c.microcode] # "dispatch"
  <2>1. [c EXCEPT !.microcode = c.microcode] = c  BY DEF Cpu
  <2>2. c.microcode \in Sources(c) /\ o \in Effect(Store[c.microcode], c)
    BY <1>2 DEF Sources, Outcomes
  <2> QED  BY <2>1, <2>2
<1> QED  BY <1>1, <1>2

LEMMA SampleFields ==
  ASSUME NEW c \in Cpu
  PROVE  LET d == SampleNmi(c)
         IN  /\ d \in Cpu /\ d.model = c.model /\ d.microcode = c.microcode
             /\ d.service_mode = c.service_mode /\ d.I = c.I /\ d.D = c.D
             /\ d.sampling = c.sampling /\ d.sampling_off = c.sampling_off
             /\ d.nmi_pin = c.nmi_pin /\ d.nmi_last = c.nmi_pin /\ d.irq_pin = c.irq_pin
             /\ d.nmi_edge = (c.nmi_edge \/ (c.nmi_pin /\ ~c.nmi_last))
             /\ d.nmi_taken = c.nmi_taken /\ d.irq_taken = c.irq_taken
<1> DEFINE d == SampleNmi(c)
           x == IF c.nmi_pin /\ ~c.nmi_last THEN [c EXCEPT !.nmi_edge = TRUE] ELSE c
           e == [x EXCEPT !.nmi_last = c.nmi_pin]
<1>1. d \in Cpu  BY KeepsInterrupts, KeepsCpu
<1>2. x \in Cpu /\ x.nmi_pin = c.nmi_pin
  <2>1. [c EXCEPT !.nmi_edge = TRUE] \in Cpu /\ [c EXCEPT !.nmi_edge = TRUE].nmi_pin = c.nmi_pin
    BY DEF Cpu
  <2> QED  BY <2>1
<1>3. /\ x.model = c.model /\ x.microcode = c.microcode /\ x.service_mode = c.service_mode
      /\ x.I = c.I /\ x.D = c.D /\ x.sampling = c.sampling /\ x.sampling_off = c.sampling_off
  BY DEF Cpu
<1>4. /\ x.irq_pin = c.irq_pin /\ x.nmi_taken = c.nmi_taken /\ x.irq_taken = c.irq_taken
      /\ x.nmi_edge = (c.nmi_edge \/ (c.nmi_pin /\ ~c.nmi_last))
  BY DEF Cpu
<1>5. d = e  BY <1>2 DEF SampleNmi, UpdateNmiLastSampled
<1> HIDE DEF x
<1>6. /\ e.model = x.model /\ e.microcode = x.microcode /\ e.service_mode = x.service_mode
      /\ e.I = x.I /\ e.D = x.D /\ e.sampling = x.sampling /\ e.sampling_off = x.sampling_off
  BY <1>2 DEF Cpu
<1>7. /\ e.irq_pin = x.irq_pin /\ e.nmi_taken = x.nmi_taken /\ e.irq_taken = x.irq_taken
      /\ e.nmi_edge = x.nmi_edge /\ e.nmi_pin = x.nmi_pin /\ e.nmi_last = c.nmi_pin
  BY <1>2 DEF Cpu
<1> HIDE DEF d, e
<1> QED  BY <1>1, <1>2, <1>3, <1>4, <1>5, <1>6, <1>7 DEF d

\* The cpu that the handler of the index n starts from.
LEMMA StartFields ==
  ASSUME NEW c \in Cpu, NEW n \in Int
  PROVE  LET d == Start(c, n)
             fresh == c.service_mode /\ ~c.sampling_off
         IN  /\ d \in Cpu /\ d.model = c.model /\ d.microcode = n
             /\ d.service_mode = c.service_mode /\ d.I = c.I /\ d.D = c.D
             /\ d.sampling = c.sampling /\ d.sampling_off = c.sampling_off
             /\ d.nmi_pin = c.nmi_pin /\ d.irq_pin = c.irq_pin
             /\ d.nmi_last = (IF fresh THEN c.nmi_pin ELSE c.nmi_last)
             /\ d.nmi_edge = (c.nmi_edge \/ (fresh /\ c.nmi_pin /\ ~c.nmi_last))
             /\ d.nmi_taken = c.nmi_taken /\ d.irq_taken = c.irq_taken
<1> DEFINE fresh == c.service_mode /\ ~c.sampling_off
           x == IF fresh THEN SampleNmi(c) ELSE c
           d == [x EXCEPT !.microcode = n]
<1>1. /\ x \in Cpu /\ x.model = c.model
      /\ x.service_mode = c.service_mode /\ x.I = c.I /\ x.D = c.D
      /\ x.sampling = c.sampling /\ x.sampling_off = c.sampling_off
      /\ x.nmi_pin = c.nmi_pin /\ x.irq_pin = c.irq_pin
      /\ x.nmi_last = (IF fresh THEN c.nmi_pin ELSE c.nmi_last)
      /\ x.nmi_edge = (c.nmi_edge \/ (fresh /\ c.nmi_pin /\ ~c.nmi_last))
      /\ x.nmi_taken = c.nmi_taken /\ x.irq_taken = c.irq_taken
  <2> HIDE DEF fresh
  <2>1. CASE fresh
    BY <2>1, SampleFields
  <2>2. CASE ~fresh
    BY <2>2 DEF Cpu
  <2> QED  BY <2>1, <2>2
<1>2. Start(c, n) = d  BY DEF Start
<1> HIDE DEF x, fresh
<1>3. /\ d \in Cpu /\ d.model = x.model /\ d.microcode = n
      /\ d.service_mode = x.service_mode /\ d.I = x.I /\ d.D = x.D
      /\ d.sampling = x.sampling /\ d.sampling_off = x.sampling_off
  BY <1>1 DEF Cpu
<1>4. /\ d.nmi_pin = x.nmi_pin /\ d.irq_pin = x.irq_pin
      /\ d.nmi_last = x.nmi_last /\ d.nmi_edge = x.nmi_edge
      /\ d.nmi_taken = x.nmi_taken /\ d.irq_taken = x.irq_taken
  BY <1>1 DEF Cpu
<1> HIDE DEF d
<1> QED  BY <1>1, <1>2, <1>3, <1>4 DEF fresh

LEMMA SourcesInt == ASSUME NEW c \in Cpu, NEW n \in Sources(c) PROVE n \in Int
<1>1. ASSUME NEW opcode \in Opcodes PROVE IDX(c.model, opcode, 0) \in Int
  BY IndexInt, IndexAssumption DEF IndexAssumption
<1>2. c.microcode \in Int  BY DEF Cpu
<1> QED  BY <1>1, <1>2 DEF Sources

LEMMA TickParts ==
  ASSUME NEW c \in Cpu, NEW o \in TickOutcomes(c)
  PROVE  \E n \in Sources(c) : \E p \in Effect(Store[n], Start(c, n)) : o = Finish(c, p)
<1> DEFINE d == IF c.service_mode /\ ~c.sampling_off THEN SampleNmi(c) ELSE c
<1>1. d \in Cpu /\ d.microcode = c.microcode /\ d.model = c.model  BY SampleFields
<1>2. PICK p \in Outcomes(d) : o = Finish(c, p)
  BY DEF TickOutcomes, InterruptResolver, FastPath, Finish
<1>3. \A n : Start(c, n) = [d EXCEPT !.microcode = n]  BY DEF Start
<1>4. Sources(d) = Sources(c)  BY <1>1 DEF Sources
<1> HIDE DEF d
<1>5. PICK n \in Sources(c) : p \in Effect(Store[n], [d EXCEPT !.microcode = n])
  BY <1>1, <1>4, OutcomeParts
<1> QED  BY <1>2, <1>3, <1>5

-----------------------------------------------------------------------------
\* What the resolver leaves behind.
LEMMA Settled ==
  ASSUME NEW o \in Outcome
  PROVE  LET r == Settle(o)
         IN  /\ r.tick = o.tick /\ r.cpu.model = o.cpu.model
             /\ r.cpu.microcode = o.cpu.microcode
             /\ r.cpu.sampling = o.cpu.sampling /\ r.cpu.sampling_off = o.cpu.sampling_off
             /\ r.cpu.nmi_pin = o.cpu.nmi_pin /\ r.cpu.nmi_last = o.cpu.nmi_last
             /\ r.cpu.irq_pin = o.cpu.irq_pin /\ r.cpu.nmi_edge = o.cpu.nmi_edge
             /\ r.cpu.nmi_taken = o.cpu.nmi_taken /\ r.cpu.irq_taken = o.cpu.irq_taken
<1> DEFINE r == Settle(o)
           e == [o.cpu EXCEPT !.service_mode = FALSE]
<1>1. o.cpu \in Cpu  BY DEF Outcome
<1>2. [o EXCEPT !.cpu.service_mode = FALSE].cpu = e /\ [o EXCEPT !.cpu.service_mode = FALSE].tick = o.tick
  BY DEF Outcome
<1>3. /\ e.model = o.cpu.model /\ e.microcode = o.cpu.microcode
      /\ e.sampling = o.cpu.sampling /\ e.sampling_off = o.cpu.sampling_off
      /\ e.nmi_pin = o.cpu.nmi_pin /\ e.nmi_last = o.cpu.nmi_last
  BY <1>1 DEF Cpu
<1>4. /\ e.irq_pin = o.cpu.irq_pin /\ e.nmi_edge = o.cpu.nmi_edge
      /\ e.nmi_taken = o.cpu.nmi_taken /\ e.irq_taken = o.cpu.irq_taken
  BY <1>1 DEF Cpu
<1>5. r.tick = o.tick /\ (r.cpu = e \/ r.cpu = o.cpu)  BY <1>2 DEF Settle
<1> HIDE DEF r, e
<1> QED  BY <1>3, <1>4, <1>5 DEF r

Enterable(o) == o.tick.status = "fetch" /\ (o.cpu.nmi_taken \/ o.cpu.irq_taken)

LEMMA Resolved ==
  ASSUME NEW o \in Outcome, NEW i \in BOOLEAN
  PROVE  LET r == Resolve(o, i)
         IN  /\ r.tick = o.tick /\ r.cpu.model = o.cpu.model /\ ~r.cpu.sampling
             /\ r.cpu.sampling_off = o.cpu.sampling_off
             /\ r.cpu.nmi_pin = o.cpu.nmi_pin /\ r.cpu.nmi_last = o.cpu.nmi_last
             /\ r.cpu.irq_pin = o.cpu.irq_pin
             /\ o.cpu.sampling =>
                  /\ r.cpu.microcode = o.cpu.microcode /\ ~r.cpu.nmi_edge
                  /\ r.cpu.nmi_taken =
                       (o.cpu.nmi_edge \/ (o.cpu.nmi_taken /\ (i \/ ~o.cpu.irq_pin)))
                  /\ r.cpu.irq_taken =
                       (~o.cpu.nmi_edge /\ (o.cpu.irq_taken \/ (~i /\ o.cpu.irq_pin)))
             /\ ~o.cpu.sampling /\ Enterable(o) =>
                  /\ r.cpu.microcode = IDX(o.cpu.model, IF o.cpu.nmi_taken THEN nmi ELSE irq, 0)
                  /\ Untaken(r.cpu) /\ r.cpu.nmi_edge = o.cpu.nmi_edge
             /\ ~o.cpu.sampling /\ ~Enterable(o) =>
                  /\ r.cpu.microcode = o.cpu.microcode /\ r.cpu.nmi_edge = o.cpu.nmi_edge
                  /\ r.cpu.nmi_taken = o.cpu.nmi_taken /\ r.cpu.irq_taken = o.cpu.irq_taken
<1> DEFINE r == Resolve(o, i)
<1>1. o.cpu \in Cpu  BY DEF Outcome
<1>2. CASE o.cpu.sampling
  <2> DEFINE d == [o.cpu EXCEPT !.sampling = FALSE]
             f == FindActiveInterrupt(d, i)
             q == [o EXCEPT !.cpu = f]
  <2>1. d \in Cpu  BY <1>1 DEF Cpu
  <2>2. /\ d.model = o.cpu.model /\ d.microcode = o.cpu.microcode
        /\ d.sampling = FALSE /\ d.sampling_off = o.cpu.sampling_off
        /\ d.nmi_pin = o.cpu.nmi_pin /\ d.nmi_last = o.cpu.nmi_last
    BY <1>1 DEF Cpu
  <2>3. /\ d.irq_pin = o.cpu.irq_pin /\ d.nmi_edge = o.cpu.nmi_edge
        /\ d.nmi_taken = o.cpu.nmi_taken /\ d.irq_taken = o.cpu.irq_taken
    BY <1>1 DEF Cpu
  <2> HIDE DEF d
  <2>4. /\ f \in Cpu /\ f.model = d.model /\ f.microcode = d.microcode
        /\ f.sampling = d.sampling /\ f.sampling_off = d.sampling_off
        /\ f.nmi_pin = d.nmi_pin /\ f.nmi_last = d.nmi_last /\ f.irq_pin = d.irq_pin
        /\ ~f.nmi_edge
        /\ f.nmi_taken = (d.nmi_edge \/ (d.nmi_taken /\ (i \/ ~d.irq_pin)))
        /\ f.irq_taken = (~d.nmi_edge /\ (d.irq_taken \/ (~i /\ d.irq_pin)))
    BY <2>1, Found
  <2>5. r = Settle(q)  BY <1>2 DEF Resolve, d
  <2> HIDE DEF f, r
  <2>6. q \in Outcome /\ q.cpu = f  BY <2>4, OutcomeWith
  <2>7. q.tick = o.tick  BY DEF Outcome
  <2> HIDE DEF q
  <2> DEFINE s == Settle(q)
  <2>8. /\ s.tick = q.tick /\ s.cpu.model = f.model
        /\ s.cpu.microcode = f.microcode
        /\ s.cpu.sampling = f.sampling /\ s.cpu.sampling_off = f.sampling_off
        /\ s.cpu.nmi_pin = f.nmi_pin /\ s.cpu.nmi_last = f.nmi_last
        /\ s.cpu.irq_pin = f.irq_pin /\ s.cpu.nmi_edge = f.nmi_edge
        /\ s.cpu.nmi_taken = f.nmi_taken /\ s.cpu.irq_taken = f.irq_taken
    BY <2>6, Settled
  <2> HIDE DEF s
  <2>9. r = s  BY <2>5 DEF s
  <2> QED  BY <1>2, <2>2, <2>3, <2>4, <2>7, <2>8, <2>9 DEF r
<1>3. CASE ~o.cpu.sampling /\ Enterable(o)
  <2> DEFINE d == DropTaken(o.cpu)
             slot == IF o.cpu.nmi_taken THEN nmi ELSE irq
             n == IDX(o.cpu.model, slot, 0)
             e == [d EXCEPT !.microcode = n]
  <2>1. d \in Cpu  BY <1>1, KeepsInterrupts, KeepsCpu
  <2>2. /\ d.model = o.cpu.model /\ d.sampling = o.cpu.sampling
        /\ d.sampling_off = o.cpu.sampling_off
        /\ d.nmi_pin = o.cpu.nmi_pin /\ d.nmi_last = o.cpu.nmi_last
    BY <1>1 DEF DropTaken, Cpu
  <2>3. /\ d.irq_pin = o.cpu.irq_pin /\ d.nmi_edge = o.cpu.nmi_edge
        /\ d.nmi_taken = FALSE /\ d.irq_taken = FALSE
    BY <1>1 DEF DropTaken, Cpu
  <2>4. r = [o EXCEPT !.cpu = e]  BY <1>3, <2>2 DEF Resolve, EnterServiceSlot, Enterable
  <2>5. n \in Int
    <3>1. slot \in Int  BY SlotsInt
    <3> HIDE DEF slot
    <3> QED  BY <1>1, <3>1, IndexInt
  <2> HIDE DEF d, n
  <2>6. /\ e.model = d.model /\ e.microcode = n /\ e.sampling = d.sampling
        /\ e.sampling_off = d.sampling_off
        /\ e.nmi_pin = d.nmi_pin /\ e.nmi_last = d.nmi_last
    BY <2>1 DEF Cpu
  <2>7. /\ e.irq_pin = d.irq_pin /\ e.nmi_edge = d.nmi_edge
        /\ e.nmi_taken = d.nmi_taken /\ e.irq_taken = d.irq_taken
    BY <2>1 DEF Cpu
  <2> HIDE DEF e
  <2>8. r.cpu = e /\ r.tick = o.tick  BY <2>4 DEF Outcome
  <2> HIDE DEF r
  <2>9. n = IDX(o.cpu.model, IF o.cpu.nmi_taken THEN nmi ELSE irq, 0)  BY DEF n
  <2> QED  BY <1>3, <2>2, <2>3, <2>6, <2>7, <2>8, <2>9 DEF Untaken, r
<1>4. CASE ~o.cpu.sampling /\ ~Enterable(o)
  <2> DEFINE s == Settle(o)
  <2>1. r = s  BY <1>4 DEF Resolve, Enterable
  <2>2. /\ s.tick = o.tick /\ s.cpu.model = o.cpu.model
        /\ s.cpu.microcode = o.cpu.microcode
        /\ s.cpu.sampling = o.cpu.sampling /\ s.cpu.sampling_off = o.cpu.sampling_off
        /\ s.cpu.nmi_pin = o.cpu.nmi_pin /\ s.cpu.nmi_last = o.cpu.nmi_last
        /\ s.cpu.irq_pin = o.cpu.irq_pin /\ s.cpu.nmi_edge = o.cpu.nmi_edge
        /\ s.cpu.nmi_taken = o.cpu.nmi_taken /\ s.cpu.irq_taken = o.cpu.irq_taken
    BY Settled
  <2> HIDE DEF s, r
  <2> QED  BY <1>4, <2>1, <2>2 DEF r
<1> QED  BY <1>2, <1>3, <1>4

-----------------------------------------------------------------------------
\* How the tick of the cpu c ends after the outcome p of its handler.
Ends(c, p, o) ==
  /\ o.tick = p.tick /\ o.cpu.model = p.cpu.model
  /\ o.cpu.sampling_off = p.cpu.sampling_off
  /\ o.cpu.nmi_pin = p.cpu.nmi_pin /\ o.cpu.nmi_last = p.cpu.nmi_last
  /\ o.cpu.irq_pin = p.cpu.irq_pin
  /\ c.service_mode /\ p.cpu.sampling =>
       /\ o.cpu.microcode = p.cpu.microcode + 1 /\ ~o.cpu.nmi_edge
       /\ o.cpu.nmi_taken = (p.cpu.nmi_edge \/ (p.cpu.nmi_taken /\ (c.I \/ ~p.cpu.irq_pin)))
       /\ o.cpu.irq_taken = (~p.cpu.nmi_edge /\ (p.cpu.irq_taken \/ (~c.I /\ p.cpu.irq_pin)))
  /\ c.service_mode /\ ~p.cpu.sampling /\ Enterable(p) =>
       /\ o.cpu.microcode = IDX(p.cpu.model, IF p.cpu.nmi_taken THEN nmi ELSE irq, 0)
       /\ Untaken(o.cpu) /\ o.cpu.nmi_edge = p.cpu.nmi_edge
  /\ ~c.service_mode \/ (~p.cpu.sampling /\ ~Enterable(p)) =>
       /\ o.cpu.microcode = p.cpu.microcode + 1 /\ o.cpu.nmi_edge = p.cpu.nmi_edge
       /\ o.cpu.nmi_taken = p.cpu.nmi_taken /\ o.cpu.irq_taken = p.cpu.irq_taken

LEMMA FinishEnds ==
  ASSUME NEW c \in Cpu, NEW p \in Outcome PROVE Ends(c, p, Finish(c, p))
<1> DEFINE d == [p.cpu EXCEPT !.microcode = @ + 1]
           q == Advance(p)
<1>1. p.cpu \in Cpu /\ c.I \in BOOLEAN  BY DEF Outcome, Cpu
<1>2. q.cpu = d /\ q.tick = p.tick  BY DEF Advance, Skip, Outcome
<1>3. /\ d \in Cpu /\ d.model = p.cpu.model /\ d.microcode = p.cpu.microcode + 1
      /\ d.sampling = p.cpu.sampling /\ d.sampling_off = p.cpu.sampling_off
  BY <1>1 DEF Cpu
<1>4. /\ d.nmi_pin = p.cpu.nmi_pin /\ d.nmi_last = p.cpu.nmi_last
      /\ d.irq_pin = p.cpu.irq_pin /\ d.nmi_edge = p.cpu.nmi_edge
      /\ d.nmi_taken = p.cpu.nmi_taken /\ d.irq_taken = p.cpu.irq_taken
  BY <1>1 DEF Cpu
<1> HIDE DEF d
<1>5. q \in Outcome  BY <1>3, OutcomeWith DEF Advance, Skip, d
<1>6. Enterable(q) <=> Enterable(p)  BY <1>2, <1>4 DEF Enterable
<1> HIDE DEF q
<1>7. CASE c.service_mode
  <2> DEFINE r == Resolve(q, c.I)
  <2>1. /\ r.tick = q.tick /\ r.cpu.model = d.model
        /\ r.cpu.sampling_off = d.sampling_off
        /\ r.cpu.nmi_pin = d.nmi_pin /\ r.cpu.nmi_last = d.nmi_last
        /\ r.cpu.irq_pin = d.irq_pin
        /\ d.sampling =>
             /\ r.cpu.microcode = d.microcode /\ ~r.cpu.nmi_edge
             /\ r.cpu.nmi_taken = (d.nmi_edge \/ (d.nmi_taken /\ (c.I \/ ~d.irq_pin)))
             /\ r.cpu.irq_taken = (~d.nmi_edge /\ (d.irq_taken \/ (~c.I /\ d.irq_pin)))
        /\ ~d.sampling /\ Enterable(q) =>
             /\ r.cpu.microcode = IDX(d.model, IF d.nmi_taken THEN nmi ELSE irq, 0)
             /\ Untaken(r.cpu) /\ r.cpu.nmi_edge = d.nmi_edge
        /\ ~d.sampling /\ ~Enterable(q) =>
             /\ r.cpu.microcode = d.microcode /\ r.cpu.nmi_edge = d.nmi_edge
             /\ r.cpu.nmi_taken = d.nmi_taken /\ r.cpu.irq_taken = d.irq_taken
    BY <1>1, <1>2, <1>5, Resolved
  <2> HIDE DEF r
  <2>2. Finish(c, p) = r  BY <1>7 DEF Finish, q, r
  <2> QED  BY <1>2, <1>3, <1>4, <1>6, <1>7, <2>1, <2>2 DEF Ends
<1>8. CASE ~c.service_mode
  <2>1. Finish(c, p) = q  BY <1>8 DEF Finish, q
  <2> QED  BY <1>2, <1>3, <1>4, <1>8, <2>1 DEF Ends
<1> QED  BY <1>7, <1>8

\* What the handler of the index n does in a tick of the cpu c.
Does(c, n, p) ==
  /\ Good(Start(c, n), p)
  /\ Follows(Store[n], Start(c, n), p)
  /\ IF Store[n] \in Watchful THEN Watched(Store[n], Start(c, n), p.cpu) /\ ~p.tick.polled
     ELSE Undisturbed(Start(c, n), p.cpu)

LEMMA TickDoes ==
  ASSUME NEW c \in Cpu, NEW o \in TickOutcomes(c)
  PROVE  \E n \in Sources(c) : \E p : Does(c, n, p) /\ Ends(c, p, o)
<1>1. PICK n \in Sources(c) : \E p \in Effect(Store[n], Start(c, n)) : o = Finish(c, p)
  BY TickParts
<1>2. PICK p \in Effect(Store[n], Start(c, n)) : o = Finish(c, p)  BY <1>1
<1>3. Start(c, n) \in Cpu  BY SourcesInt, StartFields
<1>4. Good(Start(c, n), p) /\ p \in Outcome  BY <1>2, <1>3, EffectGood DEF Good
<1>5. Does(c, n, p)  BY <1>2, <1>3, <1>4, EffectFollows DEF Does
<1> QED  BY <1>2, <1>4, <1>5, FinishEnds

\* So a tick takes an arc of its index; the resolver may only enter an interrupt in place of the
\* dispatch, and the fetch that ends an instruction leaves none chosen.
Flows(c, n, a, o) ==
  /\ a \in Arcs(Store[n], c.model, n)
  /\ o.tick.status = a.status /\ o.tick.polled = a.polled
  /\ o.cpu.model = c.model
  /\ o.cpu.sampling_off = OffAfter(Store[n], c.sampling_off)
  /\ \/ /\ o.cpu.microcode = a.to
        /\ ~a.polled /\ (a.status = "fetch" \/ Untaken(c)) => Untaken(o.cpu)
     \/ /\ a.status = "fetch" /\ ~a.polled
        /\ ~Untaken(c) /\ Untaken(o.cpu)
        /\ \E slot \in {nmi, irq} : o.cpu.microcode = IDX(c.model, slot, 0)

LEMMA DoesFlows ==
  ASSUME NEW c, Sound(c), NEW n \in Sources(c), NEW p, Does(c, n, p), NEW o, Ends(c, p, o)
  PROVE  Flows(c, n, ArcOf(p), o)
<1>1. /\ c \in Cpu /\ (c.service_mode => ~c.sampling)
      /\ ~c.service_mode => Untaken(c)
  BY DEF Sound, Quiescent, Untaken
<1>2. Does(c, n, p) /\ Ends(c, p, o)  OBVIOUS
<1> DEFINE d == Start(c, n)
           a == ArcOf(p)
<1>3. /\ d.model = c.model /\ d.microcode = n /\ d.sampling = c.sampling
      /\ d.sampling_off = c.sampling_off
      /\ d.nmi_taken = c.nmi_taken /\ d.irq_taken = c.irq_taken
  BY <1>1, SourcesInt, StartFields
<1> HIDE DEF d
<1>4. /\ p.cpu.model = c.model /\ a \in Arcs(Store[n], c.model, n)
      /\ p.cpu.sampling = (c.sampling \/ p.tick.polled)
      /\ p.cpu.sampling_off = OffAfter(Store[n], c.sampling_off)
      /\ Untaken(c) => Untaken(p.cpu)
  BY <1>2, <1>3 DEF Does, Follows, Untaken, d
<1>5. /\ a.to = p.cpu.microcode + 1 /\ a.status = p.tick.status /\ a.polled = p.tick.polled
      /\ p.tick.polled \in BOOLEAN /\ p.cpu.nmi_taken \in BOOLEAN /\ p.cpu.irq_taken \in BOOLEAN
  BY <1>2 DEF ArcOf, Arc, Does, Good, Outcome, TickResult, Cpu
<1> SUFFICES Flows(c, n, a, o)  OBVIOUS
<1> HIDE DEF a
<1>6. /\ a \in Arcs(Store[n], c.model, n)
      /\ o.tick.status = a.status /\ o.tick.polled = a.polled
      /\ o.cpu.model = c.model
      /\ o.cpu.sampling_off = OffAfter(Store[n], c.sampling_off)
  BY <1>2, <1>4, <1>5 DEF Ends
<1>7. CASE ~c.service_mode
  <2>1. o.cpu.microcode = a.to /\ Untaken(o.cpu)
    BY <1>1, <1>2, <1>4, <1>5, <1>7 DEF Ends, Untaken
  <2> QED  BY <1>6, <2>1 DEF Flows
<1>8. CASE c.service_mode /\ p.cpu.sampling
  <2>1. o.cpu.microcode = a.to /\ a.polled
    BY <1>1, <1>2, <1>4, <1>5, <1>8 DEF Ends
  <2> QED  BY <1>6, <2>1 DEF Flows
<1>9. CASE c.service_mode /\ ~p.cpu.sampling /\ Enterable(p)
  <2>1. /\ o.cpu.microcode = IDX(c.model, IF p.cpu.nmi_taken THEN nmi ELSE irq, 0)
        /\ Untaken(o.cpu)
    BY <1>2, <1>4, <1>9 DEF Ends
  <2>2. \E slot \in {nmi, irq} : o.cpu.microcode = IDX(c.model, slot, 0)
    BY <2>1
  <2>3. a.status = "fetch" /\ ~a.polled /\ ~Untaken(c)
    BY <1>4, <1>5, <1>9 DEF Enterable, Untaken
  <2> QED  BY <1>6, <2>1, <2>2, <2>3 DEF Flows
<1>10. CASE c.service_mode /\ ~p.cpu.sampling /\ ~Enterable(p)
  <2>1. /\ o.cpu.microcode = a.to
        /\ o.cpu.nmi_taken = p.cpu.nmi_taken /\ o.cpu.irq_taken = p.cpu.irq_taken
    BY <1>2, <1>5, <1>10 DEF Ends
  <2>2. a.status = "fetch" \/ Untaken(c) => Untaken(o.cpu)
    BY <1>4, <1>5, <1>10, <2>1 DEF Enterable, Untaken
  <2> QED  BY <1>6, <2>1, <2>2 DEF Flows
<1> QED  BY <1>7, <1>8, <1>9, <1>10

LEMMA TickFlows ==
  ASSUME NEW c, Sound(c), NEW o \in TickOutcomes(c)
  PROVE  \E n \in Sources(c) : \E a : Flows(c, n, a, o)
  BY TickDoes, DoesFlows DEF Sound

-----------------------------------------------------------------------------
\* Where the index may be, and that no interrupt is chosen where none may be: at the dispatch, in a
\* jam and in an interrupt sequence. A tick that reported a jam leaves the index on it.
Flowing(c, t) ==
  /\ c.microcode \in Live
  /\ Store[c.microcode] = "dispatch" => Untaken(c)
  /\ c.microcode \in Quiet => Untaken(c)
  /\ t.status = "jammed" => Store[c.microcode] = "kil_jam_loop"

LEMMA SourcesRun ==
  ASSUME NEW c \in Cpu, c.microcode \in Live, NEW n \in Sources(c) PROVE n \in Runs
<1>1. c.model \in Models  BY DEF Cpu
<1>2. CASE Store[c.microcode] = "dispatch"
  BY <1>1, <1>2, EntriesExist DEF Sources, EntriesExist
<1>3. CASE Store[c.microcode] # "dispatch"
  BY <1>3 DEF Sources, Runs
<1> QED  BY <1>2, <1>3

LEMMA EntriesRun ==
  ASSUME NEW m \in Models, NEW slot \in {internal_reset, goto, nmi, irq}
  PROVE  /\ IDX(m, slot, 0) \in Runs /\ IDX(m, slot, 0) \in Live
         /\ Store[IDX(m, slot, 0)] # "dispatch"
  BY EntriesExist DEF EntriesExist, Runs

\* The next index of a tick whose handler took the arc a.
LEMMA FlowNext ==
  ASSUME NEW c \in Cpu, NEW n \in Runs, NEW a, NEW o, Flows(c, n, a, o)
  PROVE  /\ o.cpu.microcode \in Live
         /\ Store[o.cpu.microcode] = "dispatch" => Untaken(o.cpu)
         /\ o.tick.status = "jammed" => Store[o.cpu.microcode] = "kil_jam_loop"
         /\ (n \in Quiet => Untaken(c)) /\ o.cpu.microcode \in Quiet => Untaken(o.cpu)
<1>1. c.model \in Models /\ a \in From(n, c.model)  BY DEF Cpu, Flows, From
<1>2. /\ a.to \in Live
      /\ a.to \notin Runs => a.status = "fetch"
      /\ a.status = "fetch" => ~a.polled
  BY <1>1, FlowClosed DEF FlowClosed
<1>3. /\ a.to \in Quiet => n \in Quiet /\ ~a.polled
      /\ a.status = "jammed" <=> Store[n] = "kil_jam_loop"
      /\ a.status = "jammed" => a.to = n
  BY <1>1, QuietFlow DEF QuietFlow
<1>4. Store[a.to] = "dispatch" => a.status = "fetch"  BY <1>2 DEF Runs
<1>5. CASE /\ o.cpu.microcode = a.to
           /\ ~a.polled /\ (a.status = "fetch" \/ Untaken(c)) => Untaken(o.cpu)
  BY <1>2, <1>3, <1>4, <1>5 DEF Flows
<1>6. CASE /\ a.status = "fetch" /\ ~a.polled /\ Untaken(o.cpu)
           /\ \E slot \in {nmi, irq} : o.cpu.microcode = IDX(c.model, slot, 0)
  <2>1. o.cpu.microcode \in Live  BY <1>1, <1>6, EntriesRun
  <2>2. o.tick.status # "jammed"  BY <1>6 DEF Flows
  <2> QED  BY <1>6, <2>1, <2>2
<1> QED  BY <1>5, <1>6 DEF Flows

LEMMA TickFlowing ==
  ASSUME NEW c, Sound(c), NEW t, Flowing(c, t), NEW o \in TickOutcomes(c)
  PROVE  Flowing(o.cpu, o.tick)
<1>1. c \in Cpu  BY DEF Sound
<1>2. PICK n \in Sources(c) : \E a : Flows(c, n, a, o)  BY TickFlows
<1>3. PICK a : Flows(c, n, a, o)  BY <1>2
<1>4. n \in Runs  BY <1>1, <1>2, SourcesRun DEF Flowing
<1>5. n \in Quiet => Untaken(c)  BY <1>2 DEF Flowing, Sources
<1> QED  BY <1>1, <1>3, <1>4, <1>5, FlowNext DEF Flowing

\* The tick of qe6502_goto: to the second entry of its slot, or into an interrupt that was chosen.
LEMMA GotoFlows ==
  ASSUME NEW c, Sound(c), NEW o \in GotoOutcomes(c)
  PROVE  /\ Flowing(o.cpu, o.tick) /\ o.cpu.model = c.model /\ o.tick.status = "fetch"
         /\ \/ o.cpu.microcode = IDX(c.model, goto, 1)
            \/ ~Untaken(c) /\ \E slot \in {nmi, irq} : o.cpu.microcode = IDX(c.model, slot, 0)
<1> DEFINE g == IDX(c.model, goto, 0)
           d == [c EXCEPT !.microcode = g]
<1>1. c \in Cpu /\ c.model \in Models /\ g \in Int  BY SlotsInt, IndexInt DEF Sound, Cpu
<1>2. o \in TickOutcomes(d)  BY DEF GotoOutcomes, EnterServiceSlot
<1>3. g \in Runs /\ Store[g] # "dispatch"  BY <1>1, EntriesRun
<1> HIDE DEF g
<1>4. d \in Cpu /\ d.microcode = g  BY <1>1 DEF Cpu
<1>5. /\ d.model = c.model /\ d.service_mode = c.service_mode /\ d.sampling = c.sampling
      /\ d.nmi_taken = c.nmi_taken /\ d.irq_taken = c.irq_taken
  BY <1>1 DEF Cpu
<1>6. Quiescent(c) => Quiescent(d)  BY <1>1 DEF Quiescent, Cpu
<1> HIDE DEF d
<1>7. Sound(d)  BY <1>4, <1>5, <1>6 DEF Sound
<1>8. Sources(d) = {g}  BY <1>3, <1>4 DEF Sources
<1>9. PICK a : Flows(d, g, a, o)  BY <1>2, <1>7, <1>8, TickFlows
<1>10. a \in From(g, c.model)  BY <1>5, <1>9 DEF Flows, From
<1>11. a.to = IDX(c.model, goto, 1) /\ a.status = "fetch"
  BY <1>1, <1>10, EntriesGuarded DEF EntriesGuarded, g
<1>12. ~a.polled  BY <1>1, <1>3, <1>10, <1>11, FlowClosed DEF FlowClosed
<1>13. Untaken(o.cpu)  BY <1>9, <1>11, <1>12 DEF Flows
<1>14. Flowing(o.cpu, o.tick)  BY <1>3, <1>4, <1>9, <1>13, FlowNext DEF Flowing
<1>15. \/ o.cpu.microcode = a.to
       \/ ~Untaken(c) /\ \E slot \in {nmi, irq} : o.cpu.microcode = IDX(c.model, slot, 0)
  BY <1>5, <1>9 DEF Flows, Untaken
<1> QED  BY <1>5, <1>9, <1>11, <1>14, <1>15 DEF Flows

LEMMA RestartFlows ==
  ASSUME NEW c, c.model \in Models
  PROVE  LET o == RestartOutcome(c)
         IN  /\ Flowing(o.cpu, o.tick) /\ o.cpu.model = c.model /\ ~o.cpu.sampling_off
             /\ o.cpu.microcode = IDX(c.model, internal_reset, 0)
<1> DEFINE o == RestartOutcome(c)
<1>1. /\ o.cpu.model = c.model /\ o.cpu.microcode = IDX(c.model, internal_reset, 0)
      /\ Untaken(o.cpu) /\ ~o.cpu.sampling_off /\ o.tick.status = StatusOf("restart")
  BY DEF RestartOutcome, Bus, EnterServiceSlot, Setup, Untaken
<1>2. o.tick.status = "read"
  BY <1>1 DEF StatusOf, WriteHandlers, PlainWrites, FetchHandlers, PlainFetches
<1> HIDE DEF o
<1>3. o.cpu.microcode \in Live  BY <1>1, EntriesRun
<1> QED  BY <1>1, <1>2, <1>3 DEF Flowing, o

FlowInv == SoundInv /\ Flowing(cpu, tick)

LEMMA InitFlow == Init => FlowInv
<1> SUFFICES ASSUME Init PROVE Flowing(cpu, tick)  BY InitSound DEF FlowInv
<1>1. PICK model \in Models :
        \E o \in {RestartOutcome(Setup(model))} \cup GotoOutcomes(Setup(model)) :
          cpu = o.cpu /\ tick = o.tick
  BY DEF Init
<1>2. PICK o \in {RestartOutcome(Setup(model))} \cup GotoOutcomes(Setup(model)) :
        cpu = o.cpu /\ tick = o.tick
  BY <1>1
<1>3. Sound(Setup(model)) /\ Setup(model).model \in Models  BY SetupSound DEF Setup
<1>4. Flowing(o.cpu, o.tick)  BY <1>2, <1>3, GotoFlows, RestartFlows
<1> QED  BY <1>2, <1>4

\* A call that moves pins, flags or the model leaves the index and the chosen interrupts alone.
LEMMA HostMoves ==
  ASSUME cpu \in Cpu, HostStep, ~Restart, ~Goto
  PROVE  /\ tick' = tick
         /\ cpu'.microcode = cpu.microcode /\ cpu'.sampling_off = cpu.sampling_off
         /\ cpu'.nmi_taken = cpu.nmi_taken /\ cpu'.irq_taken = cpu.irq_taken
         /\ "set_model" \notin Host => cpu'.model = cpu.model
<1> DEFINE Kept == /\ tick' = tick
                   /\ cpu'.microcode = cpu.microcode /\ cpu'.sampling_off = cpu.sampling_off
                   /\ cpu'.nmi_taken = cpu.nmi_taken /\ cpu'.irq_taken = cpu.irq_taken
<1>1. ASSUME NEW level \in BOOLEAN, NmiAssert(level) PROVE Kept /\ cpu'.model = cpu.model
  BY <1>1 DEF NmiAssert, Cpu
<1>2. ASSUME NEW level \in BOOLEAN, IrqAssert(level) PROVE Kept /\ cpu'.model = cpu.model
  BY <1>2 DEF IrqAssert, Cpu
<1>3. ASSUME NEW m \in Models, SetModel(m) PROVE Kept /\ "set_model" \in Host
  BY <1>3 DEF SetModel, Cpu
<1>4. ASSUME NEW i \in BOOLEAN, NEW f \in BOOLEAN, SetP(i, f)
      PROVE  Kept /\ cpu'.model = cpu.model
  BY <1>4 DEF SetP, Cpu
<1> HIDE DEF Kept
<1>5. Kept /\ (cpu'.model = cpu.model \/ "set_model" \in Host)
  BY <1>1, <1>2, <1>3, <1>4 DEF HostStep
<1> QED  BY <1>5 DEF Kept

LEMMA StepFlow == FlowInv /\ [Next]_vars => FlowInv'
<1> SUFFICES ASSUME FlowInv, [Next]_vars PROVE Flowing(cpu', tick')
  BY StepSound DEF FlowInv, Flowing, Untaken
<1>1. Sound(cpu) /\ cpu \in Cpu /\ Flowing(cpu, tick)  BY DEF FlowInv, SoundInv, Sound
<1>2. CASE Tick
  BY <1>1, <1>2, TickFlowing DEF Tick, Becomes
<1>3. CASE Goto
  BY <1>1, <1>3, GotoFlows DEF Goto, Becomes
<1>4. CASE Restart
  <2>1. cpu.model \in Models  BY <1>1 DEF Cpu
  <2> QED  BY <1>4, <2>1, RestartFlows DEF Restart, Becomes
<1>5. CASE HostStep /\ ~Restart /\ ~Goto
  BY <1>1, <1>5, HostMoves DEF Flowing, Untaken
<1>6. CASE UNCHANGED vars
  BY <1>1, <1>6 DEF vars, Flowing, Untaken
<1> QED  BY <1>2, <1>3, <1>4, <1>5, <1>6 DEF Next

\* The index never leaves the store, whatever the host calls and whenever: an interrupt is chosen
\* neither at a dispatch nor in a jam or an interrupt sequence.
THEOREM FlowAlways == Spec => []FlowInv
  BY InitFlow, StepFlow, PTL DEF Spec

\* A chosen interrupt is never carried over into the next instruction.
THEOREM ChosenEntersAtFetchAlways == Spec => []ChosenEntersAtFetch
<1>1. FlowInv => ChosenEntersAtFetch  BY DEF FlowInv, Flowing, Untaken, ChosenEntersAtFetch
<1> QED  BY <1>1, FlowAlways, PTL

\* A core on a live entry has a handler to run, and the handler an outcome.
LEMMA FlowExists == FlowInv => HandlerExists
<1> SUFFICES ASSUME FlowInv PROVE HandlerExists  OBVIOUS
<1>1. cpu \in Cpu /\ cpu.model \in Models /\ cpu.microcode \in Live
  BY DEF FlowInv, SoundInv, Sound, Flowing, Cpu
<1>2. Store[cpu.microcode] # "null"  BY <1>1 DEF Live
<1>3. ASSUME NEW c \in Cpu, c.microcode \in Live PROVE Outcomes(c) # {}
  <2>1. c.model \in Models  BY DEF Cpu
  <2>2. CASE Store[c.microcode] = "dispatch"
    <3>1. PICK opcode \in Opcodes : TRUE  BY EntriesExist DEF EntriesExist
    <3> DEFINE n == IDX(c.model, opcode, 0)
               d == [c EXCEPT !.microcode = n]
    <3>2. Store[n] \in Handlers
      BY <2>1, EntriesExist, FlowClosed DEF EntriesExist, FlowClosed
    <3>3. d.microcode = n  BY DEF Cpu
    <3> HIDE DEF n
    <3>4. Effect(Store[d.microcode], d) # {}  BY <3>2, <3>3, EffectExists
    <3>5. Dispatch(c, opcode) # {}  BY <3>4 DEF Dispatch, d, n
    <3> QED  BY <2>2, <3>5 DEF Outcomes
  <2>3. CASE Store[c.microcode] # "dispatch"
    <3>1. Store[c.microcode] \in Handlers  BY <1>3, <2>3, FlowClosed DEF FlowClosed, Runs
    <3> QED  BY <2>3, <3>1, EffectExists DEF Outcomes
  <2> QED  BY <2>2, <2>3
<1>4. /\ SampleNmi(cpu) \in Cpu
      /\ SampleNmi(cpu).microcode = cpu.microcode
  BY <1>1, SampleFields
<1>5. Outcomes(cpu) # {} /\ Outcomes(IF cpu.sampling_off THEN cpu ELSE SampleNmi(cpu)) # {}
  BY <1>1, <1>3, <1>4
<1>6. TickOutcomes(cpu) # {}  BY <1>5 DEF TickOutcomes, InterruptResolver, FastPath
<1> QED  BY <1>2, <1>6 DEF HandlerExists

\* Whatever the host calls between ticks, the entry to run next exists in the store, and the tick
\* has an outcome.
THEOREM HandlerExistsAlways == Spec => []HandlerExists
  BY FlowExists, FlowAlways, PTL

\* A step from a jam ends in one, unless a call of the host moves the processor.
StaysJammed ==
  tick.status = "jammed" /\ cpu'.microcode \notin {IDX(cpu.model, goto, 1),
    IDX(cpu.model, internal_reset, 0)} => tick'.status = "jammed"

LEMMA JamStep == FlowInv /\ [Next]_vars => [StaysJammed]_vars
<1> SUFFICES ASSUME FlowInv, [Next]_vars, tick.status = "jammed"
             PROVE  \/ tick'.status = "jammed"
                    \/ cpu'.microcode = IDX(cpu.model, goto, 1)
                    \/ cpu'.microcode = IDX(cpu.model, internal_reset, 0)
  BY DEF StaysJammed
<1>1. /\ Sound(cpu) /\ cpu \in Cpu /\ cpu.model \in Models /\ cpu.microcode \in Live
      /\ Store[cpu.microcode] = "kil_jam_loop"
  BY DEF FlowInv, SoundInv, Sound, Flowing, Cpu
<1>2. cpu.microcode \in Runs /\ Sources(cpu) = {cpu.microcode}
  BY <1>1 DEF Runs, Sources
<1>3. Untaken(cpu)
  BY <1>1, <1>2, QuietFlow DEF QuietFlow, FlowInv, Flowing
<1>4. CASE Tick
  <2>1. PICK o \in TickOutcomes(cpu) : Becomes(o)  BY <1>4 DEF Tick
  <2>2. PICK a : Flows(cpu, cpu.microcode, a, o)  BY <1>1, <1>2, TickFlows
  <2>3. a.status = "jammed"
    BY <1>1, <1>2, <2>2, QuietFlow DEF QuietFlow, Flows, From
  <2> QED  BY <2>1, <2>2, <2>3 DEF Becomes, Flows
<1>5. CASE Goto
  BY <1>1, <1>3, <1>5, GotoFlows DEF Goto, Becomes
<1>6. CASE Restart
  BY <1>1, <1>6, RestartFlows DEF Restart, Becomes
<1>7. CASE HostStep /\ ~Restart /\ ~Goto
  BY <1>1, <1>7, HostMoves
<1>8. CASE UNCHANGED vars
  BY <1>8 DEF vars
<1> QED  BY <1>4, <1>5, <1>6, <1>7, <1>8 DEF Next

\* A jam ends by a restart or a goto of the host and by nothing else: no pin and no interrupt
\* latched before the jam takes the processor out of it, nor diverts that goto.
THEOREM JamIsFinalAlways == Spec => JamIsFinal
  BY JamStep, FlowAlways, PTL DEF Spec, JamIsFinal, StaysJammed

-----------------------------------------------------------------------------
\* The coordinates of the first entry of a slot, which is outside the window.
LEMMA Starts ==
  ASSUME NEW m \in Models, NEW slot \in Opcodes \cup {internal_reset, goto, nmi, irq}
  PROVE  LET i == IDX(m, slot, 0)
         IN  i \notin Window /\ ModelOf(i) = m /\ SlotOf(i) = slot /\ CycleOf(i) = 0
<1>1. m \in Nat /\ Opcodes \subseteq 0..255  BY IndexAssumption DEF IndexAssumption
<1>2. slot \in 0..511  BY <1>1 DEF internal_reset, goto, nmi, irq
<1>3. (m * 4096 + slot * 8 + 0) \div 4096 = m  BY <1>1, <1>2
<1>4. (m * 4096 + slot * 8 + 0) % 8 = 0  BY <1>1, <1>2
<1>5. (m * 4096 + slot * 8 + 0) \div 8 = m * 512 + slot  BY <1>1, <1>2
<1>6. (m * 512 + slot) % 512 = slot  BY <1>1, <1>2
<1>7. ModelOf(IDX(m, slot, 0)) = m /\ CycleOf(IDX(m, slot, 0)) = 0
  BY <1>3, <1>4 DEF ModelOf, CycleOf, IDX
<1>8. SlotOf(IDX(m, slot, 0)) = slot  BY <1>5, <1>6 DEF SlotOf, IDX
<1> QED  BY <1>7, <1>8 DEF Window

\* The entry that goto leads to belongs to no interrupt.
LEMMA GotoSlot == ASSUME NEW m \in Models PROVE SlotOf(IDX(m, goto, 1)) = goto
<1>1. m \in Nat  BY IndexAssumption DEF IndexAssumption
<1>2. (m * 4096 + 261 * 8 + 1) \div 8 = m * 512 + 261  BY <1>1
<1>3. (m * 512 + 261) % 512 = 261  BY <1>1
<1> QED  BY <1>2, <1>3 DEF SlotOf, IDX, goto

LEMMA GotoOutside == ASSUME NEW m \in Models PROVE IDX(m, goto, 1) \notin EntrySlots
  BY GotoSlot DEF EntrySlots, goto, nmi, irq

\* Sampling is off in the window and only there, as long as the model is that of the index.
Windowed(c) ==
  /\ ModelOf(c.microcode) = c.model
  /\ c.sampling_off <=> c.microcode \in Window
  /\ c.microcode \in Window => c.microcode \in Runs
  /\ c.microcode \in Window => Store[c.microcode] \in
       { "read_fffe", "nmi_c4_vec_lo", "irq_c4_vec_lo",
         "brk_c5_vec_hi", "nmos_irq_c5_vec_hi", "nmos_nmi_c5_vec_hi" }

LEMMA TickWindowed ==
  ASSUME NEW c, Sound(c), c.microcode \in Live, Windowed(c), NEW o \in TickOutcomes(c)
  PROVE  Windowed(o.cpu)
<1>1. c \in Cpu /\ c.model \in Models /\ c.sampling_off \in BOOLEAN  BY DEF Sound, Cpu
<1>2. PICK n \in Sources(c) : \E a : Flows(c, n, a, o)  BY TickFlows
<1>3. PICK a : Flows(c, n, a, o)  BY <1>2
<1>4. n \in Runs  BY <1>1, SourcesRun
<1>5. ModelOf(n) = c.model /\ (c.sampling_off <=> n \in Window)
  <2>1. CASE Store[c.microcode] = "dispatch"
    <3>1. c.microcode \notin Runs  BY <2>1 DEF Runs
    <3>2. ~c.sampling_off  BY <3>1 DEF Windowed
    <3>3. \E opcode \in Opcodes : n = IDX(c.model, opcode, 0)  BY <2>1 DEF Sources
    <3> QED  BY <1>1, <3>2, <3>3, Starts
  <2>2. CASE Store[c.microcode] # "dispatch"
    BY <2>2 DEF Sources, Windowed
  <2> QED  BY <2>1, <2>2
<1>6. a \in From(n, ModelOf(n))  BY <1>3, <1>5 DEF Flows, From
<1>7. /\ ModelOf(a.to) = c.model
      /\ a.to \in Window <=> OffAfter(Store[n], n \in Window)
      /\ a.to \in Window => a.status # "fetch" /\ a.to \in Runs
      /\ a.to \in Window => Store[a.to] \in
           { "read_fffe", "nmi_c4_vec_lo", "irq_c4_vec_lo",
             "brk_c5_vec_hi", "nmos_irq_c5_vec_hi", "nmos_nmi_c5_vec_hi" }
  BY <1>4, <1>5, <1>6, WindowShape DEF WindowShape
<1>8. o.cpu.model = c.model /\ (o.cpu.sampling_off <=> a.to \in Window)
  BY <1>3, <1>5, <1>7 DEF Flows, OffAfter
<1>9. CASE o.cpu.microcode = a.to
  BY <1>7, <1>8, <1>9 DEF Windowed
<1>10. CASE a.status = "fetch" /\ \E slot \in {nmi, irq} : o.cpu.microcode = IDX(c.model, slot, 0)
  <2>1. o.cpu.microcode \notin Window /\ ModelOf(o.cpu.microcode) = c.model
    BY <1>1, <1>10, Starts
  <2> QED  BY <1>7, <1>8, <1>10, <2>1 DEF Windowed
<1> QED  BY <1>3, <1>9, <1>10 DEF Flows

LEMMA GotoWindowed ==
  ASSUME NEW c, Sound(c), ~c.sampling_off, NEW o \in GotoOutcomes(c)
  PROVE  Windowed(o.cpu)
<1> DEFINE g == IDX(c.model, goto, 0)
           d == [c EXCEPT !.microcode = g]
<1>1. c \in Cpu /\ c.model \in Models /\ g \in Int  BY SlotsInt, IndexInt DEF Sound, Cpu
<1>2. o \in TickOutcomes(d)  BY DEF GotoOutcomes, EnterServiceSlot
<1>3. g \in Runs /\ g \in Live /\ g \notin Window /\ ModelOf(g) = c.model
  BY <1>1, EntriesRun, Starts
<1> HIDE DEF g
<1>4. d \in Cpu /\ d.microcode = g /\ d.model = c.model /\ d.sampling_off = c.sampling_off
  BY <1>1 DEF Cpu
<1>5. Sound(d)
  <2>1. /\ d.service_mode = c.service_mode /\ d.sampling = c.sampling
        /\ d.nmi_taken = c.nmi_taken /\ d.irq_taken = c.irq_taken
    BY <1>1 DEF Cpu
  <2>2. Quiescent(c) => Quiescent(d)  BY <1>1 DEF Quiescent, Cpu
  <2> HIDE DEF d
  <2> QED  BY <1>4, <2>1, <2>2 DEF Sound
<1> HIDE DEF d
<1>6. Windowed(d)  BY <1>3, <1>4 DEF Windowed
<1> QED  BY <1>2, <1>3, <1>4, <1>5, <1>6, TickWindowed

LEMMA RestartWindowed ==
  ASSUME NEW c, c.model \in Models PROVE Windowed(RestartOutcome(c).cpu)
<1> DEFINE d == RestartOutcome(c).cpu
<1>1. /\ d.model = c.model /\ ~d.sampling_off /\ d.microcode = IDX(c.model, internal_reset, 0)
  BY RestartFlows
<1> HIDE DEF d
<1>2. d.microcode \notin Window /\ ModelOf(d.microcode) = c.model  BY <1>1, Starts
<1> QED  BY <1>1, <1>2 DEF Windowed, d

LEMMA InitWindowed == Init => Windowed(cpu)
<1> SUFFICES ASSUME Init PROVE Windowed(cpu)  OBVIOUS
<1>1. PICK model \in Models :
        \E o \in {RestartOutcome(Setup(model))} \cup GotoOutcomes(Setup(model)) :
          cpu = o.cpu /\ tick = o.tick
  BY DEF Init
<1>2. PICK o \in {RestartOutcome(Setup(model))} \cup GotoOutcomes(Setup(model)) :
        cpu = o.cpu /\ tick = o.tick
  BY <1>1
<1>3. Sound(Setup(model)) /\ Setup(model).model \in Models /\ ~Setup(model).sampling_off
  BY SetupSound DEF Setup
<1> QED  BY <1>2, <1>3, GotoWindowed, RestartWindowed

\* A step that keeps the model, and leaves no window by a goto, keeps to the window.
LEMMA StepWindowed ==
  ASSUME FlowInv, Windowed(cpu), [Next]_vars, cpu'.model = cpu.model,
         Goto => ~cpu.sampling_off
  PROVE  Windowed(cpu')
<1>1. Sound(cpu) /\ cpu \in Cpu /\ cpu.microcode \in Live
  BY DEF FlowInv, SoundInv, Sound, Flowing
<1>2. CASE Tick
  BY <1>1, <1>2, TickWindowed DEF Tick, Becomes
<1>3. CASE Goto
  BY <1>1, <1>3, GotoWindowed DEF Goto, Becomes
<1>4. CASE Restart
  <2>1. cpu.model \in Models  BY <1>1 DEF Cpu
  <2> QED  BY <1>4, <2>1, RestartWindowed DEF Restart, Becomes
<1>5. CASE HostStep /\ ~Restart /\ ~Goto
  BY <1>1, <1>5, HostMoves DEF Windowed
<1>6. CASE UNCHANGED vars
  BY <1>6 DEF vars, Windowed
<1> QED  BY <1>2, <1>3, <1>4, <1>5, <1>6 DEF Next

\* The model changes by set_model only.
LEMMA StepModel ==
  ASSUME SoundInv, [Next]_vars, "set_model" \notin Host PROVE cpu'.model = cpu.model
<1>1. Sound(cpu) /\ cpu \in Cpu /\ cpu.model \in Models  BY DEF SoundInv, Sound, Cpu
<1>2. CASE Tick
  BY <1>1, <1>2, TickFlows DEF Tick, Becomes, Flows
<1>3. CASE Goto
  BY <1>1, <1>3, GotoFlows DEF Goto, Becomes
<1>4. CASE Restart
  BY <1>1, <1>4, RestartFlows DEF Restart, Becomes
<1>5. CASE HostStep /\ ~Restart /\ ~Goto
  BY <1>1, <1>5, HostMoves
<1>6. CASE UNCHANGED vars
  BY <1>6 DEF vars
<1> QED  BY <1>2, <1>3, <1>4, <1>5, <1>6 DEF Next

\* The pins are not sampled from the status push to the vector's high byte and nowhere else, also
\* where the sequence changes slots in between, in a processor that its host does not redirect.
THEOREM VectorWindowAlways ==
  ASSUME "goto" \notin Host, "set_model" \notin Host PROVE Spec => []VectorWindow
<1>1. Windowed(cpu) => VectorWindow  BY DEF Windowed, VectorWindow
<1>2. FlowInv /\ Windowed(cpu) /\ [Next]_vars => Windowed(cpu)'
  BY StepWindowed, StepModel DEF Goto, FlowInv
<1> QED  BY <1>1, <1>2, InitWindowed, FlowAlways, PTL DEF Spec

-----------------------------------------------------------------------------
\* A CMOS processor never stops sampling: no index of its store leads to one that does.
LEMMA CmosTickSamples ==
  ASSUME Models \cap NmosModels = {}, NEW c, Sound(c), c.microcode \in Live, ~c.sampling_off,
         NEW o \in TickOutcomes(c)
  PROVE  ~o.cpu.sampling_off
<1>1. c \in Cpu  BY DEF Sound
<1>2. PICK n \in Sources(c) : \E a : Flows(c, n, a, o)  BY TickFlows
<1>3. n \in Runs  BY <1>1, SourcesRun
<1>4. Store[n] \notin Opening  BY <1>3, WindowShape DEF WindowShape
<1> QED  BY <1>2, <1>4 DEF Flows, OffAfter

LEMMA CmosGotoSamples ==
  ASSUME Models \cap NmosModels = {}, NEW c, Sound(c), ~c.sampling_off, NEW o \in GotoOutcomes(c)
  PROVE  ~o.cpu.sampling_off
<1> DEFINE d == EnterServiceSlot(c, goto, 0)
<1>1. c \in Cpu /\ c.model \in Models /\ goto \in Int  BY SlotsInt DEF Sound, Cpu
<1>2. Keeps(c, d) /\ d \in Cpu  BY <1>1, KeepsMoves, KeepsCpu
<1>3. d.sampling = c.sampling /\ d.sampling_off = c.sampling_off
      /\ d.microcode = IDX(c.model, goto, 0)
  BY <1>1 DEF EnterServiceSlot, Cpu
<1> HIDE DEF d
<1>4. Sound(d)  BY <1>2, <1>3 DEF Sound, Keeps
<1>5. d.microcode \in Live  BY <1>1, <1>3, EntriesRun
<1> QED  BY <1>3, <1>4, <1>5, CmosTickSamples DEF GotoOutcomes, d

\* A core whose models are CMOS ones samples NMI on every tick in service mode.
THEOREM CmosSamples ==
  ASSUME Models \cap NmosModels = {} PROVE Spec => [](~cpu.sampling_off)
<1>1. Init => ~cpu.sampling_off
  <2> SUFFICES ASSUME Init PROVE ~cpu.sampling_off  OBVIOUS
  <2>1. PICK model \in Models :
          \E o \in {RestartOutcome(Setup(model))} \cup GotoOutcomes(Setup(model)) :
            cpu = o.cpu /\ tick = o.tick
    BY DEF Init
  <2>2. Sound(Setup(model)) /\ Setup(model).model \in Models /\ ~Setup(model).sampling_off
    BY SetupSound DEF Setup
  <2> QED  BY <2>1, <2>2, CmosGotoSamples, RestartFlows
<1>2. FlowInv /\ ~cpu.sampling_off /\ [Next]_vars => (~cpu.sampling_off)'
  <2> SUFFICES ASSUME FlowInv, ~cpu.sampling_off, [Next]_vars PROVE ~(cpu'.sampling_off)
    OBVIOUS
  <2>1. Sound(cpu) /\ cpu \in Cpu /\ cpu.model \in Models /\ cpu.microcode \in Live
    BY DEF FlowInv, SoundInv, Sound, Flowing, Cpu
  <2>2. CASE Tick
    BY <2>1, <2>2, CmosTickSamples DEF Tick, Becomes
  <2>3. CASE Goto
    BY <2>1, <2>3, CmosGotoSamples DEF Goto, Becomes
  <2>4. CASE Restart
    BY <2>1, <2>4, RestartFlows DEF Restart, Becomes
  <2>5. CASE HostStep /\ ~Restart /\ ~Goto
    BY <2>1, <2>5, HostMoves
  <2>6. CASE UNCHANGED vars
    BY <2>6 DEF vars
  <2> QED  BY <2>2, <2>3, <2>4, <2>5, <2>6 DEF Next
<1> QED  BY <1>1, <1>2, FlowAlways, PTL DEF Spec

\* So its edge detector is in step with the NMI line whenever the resolver is skipped, and its
\* fast path is transparent: the hypotheses of FastPathProofs are facts about the CMOS store.
THEOREM CmosDetectorInStep ==
  ASSUME Models \cap NmosModels = {} PROVE Spec => []DetectorInStep
  BY CmosSamples, DetectorInStepAlways, PTL

\* A CMOS core implements the processor that runs the resolver on every tick.
THEOREM CmosFastPathTransparent ==
  ASSUME Models \cap NmosModels = {} PROVE Spec => FastPathTransparent
  BY CmosSamples, FastPathTransparentCmos, PTL

=============================================================================
