----------------------------- MODULE ControlFlow -----------------------------
(***************************************************************************)
(* The control flow of the microcode: where a handler may lead from its    *)
(* place in the control store, whatever the context, and what a store must *)
(* look like for the instructions to begin, run and end as they should.    *)
(*                                                                         *)
(* The assumptions say so of the store, index by index; TLC evaluates them *)
(* on the store of the source in every run that extends this module.  That *)
(* the handlers keep to the arcs, and that the behaviour of the core keeps *)
(* to the shape of its store, is proved in ControlFlowProofs.              *)
(***************************************************************************)
EXTENDS Qe6502Core

\* The coordinates of an index.
ModelOf(i) == i \div 4096
SlotOf(i)  == (i \div 8) % 512
CycleOf(i) == i % 8

NmosModels == {0, 1}

-----------------------------------------------------------------------------
\* Handlers by what they do to the index: skip one or two entries, or leave for another place.
SkipOne ==
  { "r_indexed_probe_no_latch_prefetch_no_page_cross",
    "cmos_r_indexed_probe_no_latch_prefetch_no_page_cross",
    "cmos_r_indexed_probe_prefetch_no_page_cross_decimal_clear", "cmos_r_indexed_probe",
    "branch_rel_c1_apply", "wdc_bbr_bbs_c4_apply" }

SkipTwo == {"branch_c0_prefetch", "wdc_bbr_bbs_c3_offset_or_skip_prefetch"}

Leaving == {"fetch_illegal_ext_dispatch", "kil_jam_loop", "internal_reset"}

\* Handlers that may ask for a poll.
MayPoll ==
  PollHandlers \cup BinaryPollHandlers \cup SkipTwo \cup
  { "r_indexed_probe_no_latch_prefetch_no_page_cross",
    "cmos_r_indexed_probe_no_latch_prefetch_no_page_cross",
    "cmos_r_indexed_probe_prefetch_no_page_cross_decimal_clear",
    "exec_fetch_or_decimal_dummy",
    "cli_prefetch", "sei_prefetch", "cld_prefetch", "sed_prefetch" }

\* Handlers of the interrupt unit: those that stop the sampling of NMI, those that resume it, and
\* those that touch the latched edge and the chosen interrupts without it.
Opening == {"stack_push_status_b", "nmi_c3_push_p", "irq_c3_push_p"}
Closing == {"brk_c5_vec_hi", "nmos_irq_c5_vec_hi", "nmos_nmi_c5_vec_hi"}
Settling == {"cmos_irq_c5_vec_hi", "cmos_nmi_c5_vec_hi", "cmos_nmi_c3_push_p", "cmos_irq_c3_push_p"}
Watchful == Opening \cup Closing \cup Settling

\* Those among them that give way to an NMI latched by then: the status pushes of BRK and IRQ.
Yielding == {"stack_push_status_b", "irq_c3_push_p"}

Handlers ==
  PlainReads \cup PlainWrites \cup PlainFetches \cup MayPoll \cup SkipOne \cup Leaving
  \cup Watchful \cup {"plp_fetch", "rti_c3_pull_pcl", "reset_vec_hi", "cmos_brk_c5_vec_hi"}

-----------------------------------------------------------------------------
\* An arc: the index after the tick, and the tick's result.
Arc(to, status, polled) == [to |-> to, status |-> status, polled |-> polled]

Skips(h) ==
  IF h \in Leaving THEN {} ELSE IF h \in SkipOne THEN {0, 1} ELSE IF h \in SkipTwo THEN {0, 2} ELSE {0}

\* A probe polls where it is the read itself.
Polls(h, k) == IF h \in MayPoll /\ (h \in SkipOne => k = 1) THEN BOOLEAN ELSE {FALSE}

Jumps(h, m, n) ==
  CASE h = "fetch_illegal_ext_dispatch"  -> {Arc(IDX(m, illegal_ext, 0), "fetch", FALSE)}
    [] h = "kil_jam_loop"                -> {Arc(n, "jammed", FALSE)}
    [] h = "internal_reset"              -> {Arc(n, "read", FALSE), Arc(IDX(m, reset_0, 0), "read", FALSE)}
    [] h = "exec_fetch_or_decimal_dummy" -> {Arc(n + 2, "fetch", FALSE)}
    [] h = "stack_push_status_b"         -> {Arc(IDX(m, slot, 4), "write", FALSE) : slot \in {nmi, irq}}
    [] h = "irq_c3_push_p"               -> {Arc(IDX(m, nmi, 4), "write", FALSE)}
    [] OTHER -> {}

Steps(h, n) == UNION {{Arc(n + 1 + k, StatusOf(h), p) : p \in Polls(h, k)} : k \in Skips(h)}

\* What the handler h may do from index n of a processor of model m.
Arcs(h, m, n) == Steps(h, n) \cup Jumps(h, m, n)

-----------------------------------------------------------------------------
\* The indices the processor may be at, and those among them where a handler runs; at the others
\* the opcode just fetched is dispatched.
Live == { i \in {IDX(m, slot, cycle) : m \in Models, slot \in Opcodes \cup illegal_ext..irq, cycle \in 0..7} :
            Store[i] # "null" }
Runs == {i \in Live : Store[i] # "dispatch"}

\* The arcs of an index; set_model may have moved the model away from that of the index.
From(i, m) == Arcs(Store[i], m, i)

JamSlots == {i \in Live : \E k \in 0..7 : Store[8 * (i \div 8) + k] = "kil_jam_loop"}

\* The sequences that push and read a vector: BRK, NMI and IRQ.
EntrySlots == {i \in Live : SlotOf(i) \in {0, nmi, irq}}

\* Where nothing is polled, from the entry to the end.
Quiet == EntrySlots \cup JamSlots

Resetting(i) == SlotOf(i) \in {internal_reset, reset_0, reset_0 + 1}

\* The cycles of an NMOS processor that read a vector.
Window == {i \in EntrySlots : CycleOf(i) \in {4, 5} /\ ModelOf(i) \in NmosModels}

\* The NMI sequence, up to the high byte of its vector.
NmiEntry == {i \in Live : SlotOf(i) = nmi /\ CycleOf(i) <= 5}

\* Bus writes of an entry sequence before its given cycle.
PushesBefore(cycle) == IF cycle <= 1 THEN 0 ELSE IF cycle <= 4 THEN cycle - 1 ELSE 3

\* Sampling after a handler.
OffAfter(h, off) == h \in Opening \/ (h \notin Closing /\ off)

\* The indices of an instruction past a poll of it, and a store none of whose instructions can poll
\* twice. Branches do, and so may the decimal sums of CMOS if D moves in between.
PastPoll ==
  { i \in Live : \E k \in 0..7 :
      LET j == 8 * (i \div 8) + k
      IN  j \in Runs /\ \E a \in From(j, ModelOf(j)) : a.polled /\ a.to <= i }

PollsOnce ==
  \A i \in Runs, m \in Models : \A a \in From(i, m) :
    /\ a.polled => i \notin PastPoll /\ a.to \in PastPoll
    /\ i \in PastPoll /\ a.status # "fetch" => a.to \in PastPoll

-----------------------------------------------------------------------------
\* Every sequence has a beginning.
ASSUME EntriesExist ==
  /\ Opcodes # {}
  /\ \A m \in Models, slot \in Opcodes \cup {internal_reset, goto, nmi, irq} : IDX(m, slot, 0) \in Runs

\* No sequence runs off its end, and it ends with a fetch that does not poll.
ASSUME FlowClosed ==
  \A i \in Runs :
    /\ Store[i] \in Handlers
    /\ \A m \in Models : \A a \in From(i, m) :
         /\ a.to \in Live
         /\ a.to \notin Runs => a.status = "fetch"
         /\ a.status = "fetch" => ~a.polled

\* Only the resolver leads to an interrupt's first cycle; goto leads to its second entry.
ASSUME EntriesGuarded ==
  \A m \in Models :
    /\ \A i \in Runs : \A a \in From(i, m) : a.to \notin {IDX(n, slot, 0) : n \in Models, slot \in {nmi, irq}}
    /\ \A a \in From(IDX(m, goto, 0), m) : a.to = IDX(m, goto, 1) /\ a.status = "fetch"

\* Nothing is polled on the way into a jam or within an interrupt sequence, a jam is a loop, and
\* the interrupt unit's own handlers run in the interrupt sequences.
ASSUME QuietFlow ==
  \A i \in Runs :
    /\ Store[i] \in Watchful \cup {"kil_jam_loop"} => i \in Quiet
    /\ \A m \in Models : \A a \in From(i, m) :
         /\ a.to \in Quiet => i \in Quiet /\ ~a.polled
         /\ a.status = "jammed" <=> Store[i] = "kil_jam_loop"
         /\ a.status = "jammed" => a.to = i

\* But for reset and a jam, a sequence moves towards the end of its eight entries or fetches.
ASSUME FlowForward ==
  \A i \in Runs, m \in Models : \A a \in From(i, m) :
    a.status \in {"fetch", "jammed"} \/ Resetting(a.to)
      \/ (~Resetting(i) /\ CycleOf(a.to) > CycleOf(i))

\* BRK, NMI and IRQ take the same cycles, and another's vector is taken over at the same cycle.
ASSUME EntryShape ==
  \A i \in Runs :
    /\ i \in EntrySlots /\ Store[i] = "latch_pch_fetch" => CycleOf(i) = 6
    /\ \A m \in Models : \A a \in From(i, m) :
         a.to \in EntrySlots \cap Runs =>
           /\ i \in EntrySlots /\ a.status # "fetch" /\ CycleOf(a.to) = CycleOf(i) + 1
           /\ PushesBefore(CycleOf(a.to)) =
                PushesBefore(CycleOf(i)) + (IF a.status = "write" THEN 1 ELSE 0)

\* A sequence stays in the store of its model unless set_model moves it; an NMOS one that stops
\* sampling reads a vector next and resumes with the vector's high byte, a CMOS one never stops.
ASSUME WindowShape ==
  \A i \in Runs :
    /\ ModelOf(i) \in Models
    /\ Store[i] \in Opening => ModelOf(i) \in NmosModels
    /\ \A a \in From(i, ModelOf(i)) :
         /\ ModelOf(a.to) = ModelOf(i)
         /\ a.to \in Window <=> OffAfter(Store[i], i \in Window)
         /\ a.to \in Window => a.status # "fetch" /\ a.to \in Runs
         /\ a.to \in Window => Store[a.to] \in
              { "read_fffe", "nmi_c4_vec_lo", "irq_c4_vec_lo",
                "brk_c5_vec_hi", "nmos_irq_c5_vec_hi", "nmos_nmi_c5_vec_hi" }

\* The NMI sequence is entered by the resolver or where another one gives way, and left past the
\* high byte of its vector. An edge is dropped in it only, or by the IRQ sequence of CMOS, which
\* nothing but the resolver enters.
ASSUME NmiShape ==
  NmiEntry \subseteq Runs /\ \A i \in Runs :
    /\ Store[i] \in {"nmi_c3_push_p", "cmos_nmi_c3_push_p", "cmos_nmi_c5_vec_hi"} => i \in NmiEntry
    /\ Store[i] = "nmos_nmi_c5_vec_hi" => i \in Window
    /\ Store[i] = "cmos_irq_c5_vec_hi" => SlotOf(i) = irq /\ ModelOf(i) \notin NmosModels
    /\ \A m \in Models : \A a \in From(i, m) :
         /\ a.to \in NmiEntry /\ i \notin NmiEntry =>
              Store[i] \in Yielding /\ a.to = IDX(m, nmi, 4)
         /\ i \in NmiEntry /\ a.to \notin NmiEntry =>
              Store[i] \in {"nmos_nmi_c5_vec_hi", "cmos_nmi_c5_vec_hi"}
         /\ SlotOf(a.to) = irq /\ SlotOf(i) # irq =>
              Store[i] \in Yielding /\ a.to = IDX(m, irq, 4)

=============================================================================
