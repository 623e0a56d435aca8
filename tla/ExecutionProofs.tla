--------------------------- MODULE ExecutionProofs ---------------------------
(***************************************************************************)
(* The whole processor, the control of Qe6502Core and the handlers of      *)
(* DataPath, whatever program runs and whatever its host does to pins and  *)
(* memory: the registers, the bus and the memory keep to their widths,     *)
(* what the bus carries during a write has no effect, every step of the    *)
(* machine is a step of the control, with its invariants, and the          *)
(* instructions that add and subtract leave the sums and differences of    *)
(* Arithmetic.                                                             *)
(*                                                                         *)
(* A tick is taken apart into the handler it runs, what the control and    *)
(* the data path make of it, and the end of the tick in the resolver.      *)
(***************************************************************************)
EXTENDS DataFlow, ControlFlowProofs, DataPathProofs

-----------------------------------------------------------------------------
\* The tick of a processor c with registers r and the byte input on the bus: where its handler
\* is, the registers that it starts from, and what it does to them.
Source(c, input) ==
  IF Store[c.microcode] = "dispatch" THEN IDX(c.model, input, 0) ELSE c.microcode

Fetched(c, r) == IF Store[c.microcode] = "dispatch" THEN [r EXCEPT !.PC = Word(@ + 1)] ELSE r

Named(m, n) == IF SlotOf(n) < 256 THEN Mnemonic(m, SlotOf(n)) ELSE "none"

Data(c, n, r, input) == Handle(Store[n], Named(c.model, n), SlotOf(n), c.model, r, input)

Begun(c) == IF c.service_mode /\ ~c.sampling_off THEN SampleNmi(c) ELSE c

LEMMA BegunFields ==
  ASSUME NEW c \in Cpu
  PROVE  /\ Begun(c) \in Cpu /\ Begun(c).model = c.model /\ Begun(c).microcode = c.microcode
         /\ \A n : Start(c, n) = [Begun(c) EXCEPT !.microcode = n]
  BY SampleFields DEF Begun, Start

\* A tick begins at its handler, in the control and in the data path.
LEMMA EnteredParts ==
  ASSUME NEW c \in Cpu, NEW r, NEW input
  PROVE  LET e == Entered(Begun(c), r, input)
             n == Source(c, input)
         IN  /\ e.cpu = Start(c, n) /\ e.regs = Fetched(c, r)
             /\ e.cpu.model = c.model /\ e.cpu.microcode = n
             /\ DataStep(e.cpu, e.regs, input) = Data(c, n, Fetched(c, r), input)
<1> DEFINE b == Begun(c)
           n == Source(c, input)
           e == Entered(b, r, input)
<1>1. b \in Cpu /\ b.model = c.model /\ b.microcode = c.microcode
      /\ Start(c, n) = [b EXCEPT !.microcode = n]
  BY BegunFields
<1>2. Source(c, input) = (IF Store[b.microcode] = "dispatch" THEN IDX(b.model, input, 0)
                          ELSE b.microcode)
  BY <1>1 DEF Source
<1> HIDE DEF b
<1>3. [b EXCEPT !.microcode = b.microcode] = b
  BY <1>1 DEF Cpu
<1>4. e.cpu = Start(c, n)
  BY <1>1, <1>2, <1>3 DEF Entered
<1>5. e.regs = Fetched(c, r)
  BY <1>1 DEF Entered, Fetched
<1>6. Start(c, n).model = c.model /\ Start(c, n).microcode = n
  BY <1>1 DEF Cpu
<1>7. DataStep(e.cpu, e.regs, input) = Data(c, n, Fetched(c, r), input)
  BY <1>4, <1>5, <1>6 DEF DataStep, Data, Named, Slot, SlotOf
<1> QED
  BY <1>4, <1>5, <1>6, <1>7 DEF b

\* The outcomes of a tick are those of its handler that agree with the data, each ended by the
\* resolver.
LEMMA TickedParts ==
  ASSUME NEW c \in Cpu, NEW r, NEW input
  PROVE  LET n == Source(c, input)
             s == Start(c, n)
             d == Data(c, n, Fetched(c, r), input)
         IN  Ticked(c, r, input) =
               {[out |-> Finish(c, p), step |-> d] : p \in {q \in Effect(Store[n], s) : Agrees(q, d, s)}}
<1> DEFINE n == Source(c, input)
           s == Start(c, n)
           d == Data(c, n, Fetched(c, r), input)
           A == {q \in Effect(Store[n], s) : Agrees(q, d, s)}
<1>1. Joint(Begun(c), r, input) = {[out |-> p, step |-> d] : p \in A}
  BY EnteredParts DEF Joint
<1> HIDE DEF A, d
<1>2. Ticked(c, r, input) =
        {[out |-> Finish(c, j.out), step |-> j.step] : j \in Joint(Begun(c), r, input)}
  <2>1. CASE c.service_mode
    BY <2>1 DEF Ticked, Begun, Finish
  <2>2. CASE ~c.service_mode
    BY <2>2 DEF Ticked, Begun, Finish
  <2> QED
    BY <2>1, <2>2
<1>3. ASSUME NEW x \in Ticked(c, r, input)
      PROVE  \E p \in A : x = [out |-> Finish(c, p), step |-> d]
  <2>1. PICK j \in Joint(Begun(c), r, input) : x = [out |-> Finish(c, j.out), step |-> j.step]
    BY <1>2, <1>3
  <2>2. PICK p \in A : j = [out |-> p, step |-> d]
    BY <1>1
  <2>3. j.out = p /\ j.step = d
    BY <2>2
  <2> QED
    BY <2>1, <2>3
<1>4. ASSUME NEW p \in A
      PROVE  [out |-> Finish(c, p), step |-> d] \in Ticked(c, r, input)
  <2> DEFINE j == [out |-> p, step |-> d]
  <2>1. j \in Joint(Begun(c), r, input) /\ j.out = p /\ j.step = d
    BY <1>1
  <2> HIDE DEF j
  <2> QED
    BY <2>1, <1>2
<1>5. Ticked(c, r, input) = {[out |-> Finish(c, p), step |-> d] : p \in A}
  BY <1>3, <1>4
<1> QED
  BY <1>5 DEF A, d

\* The outcomes that the data leaves are outcomes of the control.
LEMMA TickedOut ==
  ASSUME NEW c \in Cpu, NEW r, NEW input \in Opcodes, NEW j \in Ticked(c, r, input)
  PROVE  j.out \in TickOutcomes(c)
<1> DEFINE n == Source(c, input)
           d == Data(c, n, Fetched(c, r), input)
           b == Begun(c)
<1>1. PICK p \in Effect(Store[n], Start(c, n)) : j = [out |-> Finish(c, p), step |-> d]
  BY TickedParts
<1>2. j.out = Finish(c, p)
  BY <1>1
<1>3. b \in Cpu /\ b.model = c.model /\ b.microcode = c.microcode
      /\ Start(c, n) = [b EXCEPT !.microcode = n]
  BY BegunFields
<1> HIDE DEF b, d
<1>4. [b EXCEPT !.microcode = b.microcode] = b
  BY <1>3 DEF Cpu
<1>5. p \in Outcomes(b)
  <2>1. CASE Store[c.microcode] = "dispatch"
    <3>1. n = IDX(c.model, input, 0) /\ Start(c, n).microcode = n
      BY <2>1, <1>3 DEF Source, Cpu
    <3> HIDE DEF n
    <3>2. p \in Dispatch(b, input)
      BY <3>1, <1>1, <1>3 DEF Dispatch
    <3> QED
      BY <3>2, <2>1, <1>3 DEF Outcomes
  <2>2. CASE Store[c.microcode] # "dispatch"
    BY <2>2, <1>1, <1>3, <1>4 DEF Outcomes, Source
  <2> QED
    BY <2>1, <2>2
<1>6. CASE c.service_mode
  BY <1>2, <1>5, <1>6 DEF TickOutcomes, InterruptResolver, Finish, b, Begun
<1>7. CASE ~c.service_mode
  BY <1>2, <1>5, <1>7 DEF TickOutcomes, FastPath, Finish, b, Begun
<1> QED
  BY <1>6, <1>7

LEMMA SourceIn ==
  ASSUME NEW c, NEW input \in Opcodes PROVE Source(c, input) \in Sources(c)
  BY DEF Source, Sources

-----------------------------------------------------------------------------
\* Every handler of the control has its data path, of one kind.
DataHandlers ==
  DataReads \cup DataFetches \cup DataWrites \cup DataProbes \cup DataBranches
    \cup {"kil_jam_loop", "exec_fetch_or_decimal_dummy"}

LEMMA HandlersHandled == Handlers \subseteq DataHandlers
<1>1. PlainReads \subseteq DataHandlers
  BY DEF PlainReads, DataHandlers, DataReads, PlainDataReads, ControlReads, ResetReads, JumpReads,
         OperandReads, LatchReads, PageReads, ModeReads
<1>2. PlainWrites \cup PlainFetches \cup Leaving \cup Watchful
        \cup {"plp_fetch", "rti_c3_pull_pcl", "reset_vec_hi", "cmos_brk_c5_vec_hi"}
      \subseteq DataHandlers
  BY DEF PlainWrites, PlainFetches, Leaving, Watchful, Opening, Closing, Settling, DataHandlers,
         DataReads, DataFetches, DataWrites, PlainDataReads, ResetReads, ModeReads, Masking,
         CmosVectors, ControlFetches, ControlWrites, ExecuteWrites
<1>3. PollHandlers \cup BinaryPollHandlers \subseteq DataHandlers
  BY DEF PollHandlers, BinaryPollHandlers, DataHandlers, DataReads, DataWrites, DataBranches,
         PlainDataReads, ControlReads, JumpReads, OperandReads, LatchReads, PageReads, ExecuteWrites
<1>4. SkipOne \cup SkipTwo \cup FlagHandlers \cup {"exec_fetch_or_decimal_dummy"} \subseteq DataHandlers
  BY DEF SkipOne, SkipTwo, FlagHandlers, DataHandlers, DataReads, DataProbes, DataBranches, IndexedReads
<1>5. MayPoll \subseteq DataHandlers
  BY <1>3, <1>4 DEF MayPoll, SkipOne, FlagHandlers
<1> QED
  BY <1>1, <1>2, <1>4, <1>5 DEF Handlers

\* A slot's instruction suits its handlers.
LEMMA Fits ==
  ASSUME NEW n \in Runs, NEW m, m = ModelOf(n) PROVE Suits(Store[n], Named(m, n), SlotOf(n), m)
<1>1. CASE Store[n] \in ExecuteHandlers
  BY <1>1, InstructionsSuit DEF Named
<1>2. CASE Store[n] \notin ExecuteHandlers
  <2>1. Store[n] \notin ExecuteHandlers
    BY <1>2
  <2> QED
    BY <2>1 DEF Suits, ExecuteHandlers
<1> QED
  BY <1>1, <1>2

\* Whatever handler runs, the registers and the bus keep to their widths.
Narrow(d) ==
  d.regs \in Registers /\ d.address \in Words /\ d.data \in Bytes /\ d.reset \in BOOLEAN

LEMMA TakesNarrow ==
  ASSUME NEW m, NEW d, NEW status, NEW skips, Takes(m, d, status, skips) PROVE Narrow(d)
  BY DEF Takes, Leaves, Narrow

LEMMA HandleNarrow ==
  ASSUME NEW h \in DataHandlers, NEW mn, NEW opcode, NEW model, Suits(h, mn, opcode, model),
         NEW r \in Registers, NEW input \in Bytes
  PROVE  Narrow(Handle(h, mn, opcode, model, r, input))
<1>1. CASE h \in DataReads
  BY <1>1, HandleReads, TakesNarrow
<1>2. CASE h \in DataFetches
  BY <1>2, HandleFetches, TakesNarrow
<1>3. CASE h \in DataWrites
  BY <1>3, HandleWrites, TakesNarrow
<1>4. CASE h \in DataProbes
  BY <1>4, HandleSkips, TakesNarrow
<1>5. CASE h \in DataBranches
  BY <1>5, HandleSkips, TakesNarrow
<1>6. CASE h = "kil_jam_loop"
  BY <1>6, HandleJams, TakesNarrow
<1>7. CASE h = "exec_fetch_or_decimal_dummy"
  BY <1>7, HandleDecimal, TakesNarrow
<1> QED
  BY <1>1, <1>2, <1>3, <1>4, <1>5, <1>6, <1>7 DEF DataHandlers

LEMMA FetchedRegisters ==
  ASSUME NEW c, NEW r \in Registers PROVE Fetched(c, r) \in Registers /\ Fetched(c, r).P = r.P
<1>1. r.PC \in Words /\ r.A \in Bytes
  BY Fields, SMT
<1>2. Word(r.PC + 1) \in Words
  BY <1>1, Addresses, SMT
<1> QED
  BY <1>2, SMT DEF Fetched, Registers

LEMMA DataNarrow ==
  ASSUME NEW c, NEW n \in Runs, c.model = ModelOf(n), NEW r \in Registers, NEW input \in Bytes
  PROVE  Narrow(Data(c, n, r, input))
<1>1. Suits(Store[n], Named(c.model, n), SlotOf(n), c.model)
  BY Fits
<1>2. Store[n] \in DataHandlers
  BY FlowClosed, HandlersHandled
<1> QED
  BY <1>1, <1>2, HandleNarrow DEF Data

-----------------------------------------------------------------------------
\* Nothing after the handler moves I and D.
SameFlags(c, d) == d.I = c.I /\ d.D = c.D

LEMMA MovesKeepFlags ==
  ASSUME NEW c \in Cpu
  PROVE  /\ \A n : SameFlags(c, Skip(c, n))
         /\ \A n \in Int : SameFlags(c, [c EXCEPT !.microcode = n])
         /\ \A b : SameFlags(c, [c EXCEPT !.sampling = b])
         /\ \A b : SameFlags(c, [c EXCEPT !.sampling_off = b])
         /\ \A b : SameFlags(c, [c EXCEPT !.nmi_edge = b])
         /\ \A b : SameFlags(c, [c EXCEPT !.nmi_taken = b])
         /\ \A b : SameFlags(c, [c EXCEPT !.irq_taken = b])
         /\ \A slot, cycle : /\ SameFlags(c, EnterServiceSlot(c, slot, cycle))
                             /\ SameFlags(c, NextEnterServiceSlot(c, slot, cycle))
         /\ SameFlags(c, DropTaken(c)) /\ SameFlags(c, UpdateNmiLastSampled(c))
         /\ SameFlags(c, LoopHere(c))
  BY DEF Cpu, SameFlags, Skip, EnterServiceSlot, NextEnterServiceSlot, DropTaken,
         UpdateNmiLastSampled, LoopHere

LEMMA FindKeepsFlags ==
  ASSUME NEW c \in Cpu, NEW i PROVE SameFlags(c, FindActiveInterrupt(c, i))
<1>1. CASE c.nmi_edge
  BY <1>1 DEF FindActiveInterrupt, SameFlags, Cpu
<1>2. CASE ~c.nmi_edge /\ ~i /\ c.irq_pin
  BY <1>2 DEF FindActiveInterrupt, SameFlags, Cpu
<1>3. CASE ~c.nmi_edge /\ (i \/ ~c.irq_pin)
  BY <1>3 DEF FindActiveInterrupt, SameFlags, Cpu
<1> QED
  BY <1>1, <1>2, <1>3

LEMMA SettleKeepsFlags ==
  ASSUME NEW o \in Outcome PROVE SameFlags(o.cpu, Settle(o).cpu)
<1>1. o.cpu \in Cpu
  BY DEF Outcome
<1>2. CASE Quiescent(o.cpu)
  <2> DEFINE d == [o.cpu EXCEPT !.service_mode = FALSE]
  <2>1. Settle(o) = [o EXCEPT !.cpu = d]
    BY <1>2 DEF Settle, Outcome
  <2>2. SameFlags(o.cpu, d)
    BY <1>1 DEF SameFlags, Cpu
  <2> QED
    BY <2>1, <2>2 DEF Outcome
<1>3. CASE ~Quiescent(o.cpu)
  BY <1>3 DEF Settle, SameFlags
<1> QED
  BY <1>2, <1>3

LEMMA ResolveKeepsFlags ==
  ASSUME NEW o \in Outcome, NEW i \in BOOLEAN PROVE SameFlags(o.cpu, Resolve(o, i).cpu)
<1>1. o.cpu \in Cpu
  BY DEF Outcome
<1>2. CASE o.cpu.sampling
  <2> DEFINE e == [o.cpu EXCEPT !.sampling = FALSE]
             f == FindActiveInterrupt(e, i)
             q == [o EXCEPT !.cpu = f]
  <2>1. e \in Cpu /\ SameFlags(o.cpu, e)
    BY <1>1, ZenonT(30) DEF Cpu, SameFlags
  <2> HIDE DEF e
  <2>2. f \in Cpu /\ SameFlags(e, f)
    BY <2>1, Found, FindKeepsFlags
  <2> HIDE DEF f
  <2>3. q \in Outcome /\ q.cpu = f
    BY <2>2, OutcomeWith
  <2>4. Resolve(o, i) = Settle(q)
    BY <1>2 DEF Resolve, f, e
  <2> HIDE DEF q
  <2>5. SameFlags(q.cpu, Settle(q).cpu)
    BY <2>3, SettleKeepsFlags
  <2> QED
    BY <2>1, <2>2, <2>3, <2>4, <2>5 DEF SameFlags
<1>3. CASE ~o.cpu.sampling /\ Enterable(o)
  <2> DEFINE slot == IF o.cpu.nmi_taken THEN nmi ELSE irq
             e == EnterServiceSlot(DropTaken(o.cpu), slot, 0)
  <2>1. Resolve(o, i) = [o EXCEPT !.cpu = e]
    BY <1>3 DEF Resolve, Enterable
  <2>2. DropTaken(o.cpu) \in Cpu /\ SameFlags(o.cpu, DropTaken(o.cpu))
    BY <1>1, Dropped, MovesKeepFlags
  <2> HIDE DEF slot
  <2>3. SameFlags(DropTaken(o.cpu), e)
    BY <2>2, MovesKeepFlags
  <2> HIDE DEF e
  <2>4. [o EXCEPT !.cpu = e].cpu = e
    BY DEF Outcome
  <2> QED
    BY <2>1, <2>2, <2>3, <2>4 DEF SameFlags
<1>4. CASE ~o.cpu.sampling /\ ~Enterable(o)
  <2>1. Resolve(o, i) = Settle(o)
    BY <1>4 DEF Resolve, Enterable
  <2> QED
    BY <2>1, SettleKeepsFlags
<1> QED
  BY <1>2, <1>3, <1>4

LEMMA AdvanceParts ==
  ASSUME NEW p \in Outcome
  PROVE  Advance(p) \in Outcome /\ Advance(p).cpu = Skip(p.cpu, 1) /\ SameFlags(p.cpu, Advance(p).cpu)
<1>1. p.cpu \in Cpu
  BY DEF Outcome
<1>2. Skip(p.cpu, 1) \in Cpu /\ SameFlags(p.cpu, Skip(p.cpu, 1))
  BY <1>1, KeepsSkip, KeepsCpu, MovesKeepFlags
<1> QED
  BY <1>2, OutcomeWith DEF Advance

LEMMA FinishKeepsFlags ==
  ASSUME NEW c \in Cpu, NEW p \in Outcome PROVE SameFlags(p.cpu, Finish(c, p).cpu)
<1>1. Advance(p) \in Outcome /\ SameFlags(p.cpu, Advance(p).cpu)
  BY AdvanceParts
<1>2. c.I \in BOOLEAN
  BY DEF Cpu
<1>3. SameFlags(Advance(p).cpu, Resolve(Advance(p), c.I).cpu)
  BY <1>1, <1>2, ResolveKeepsFlags
<1> QED
  BY <1>1, <1>3 DEF Finish, SameFlags

-----------------------------------------------------------------------------
\* Flags I and D are the same in the control and in the status register.
Coupled(c, r) == c.I = ("I" \in r.P) /\ c.D = ("D" \in r.P)

\* A tick of the machine is a tick of the control, and leaves narrow registers and the flags
\* coupled.
LEMMA SourceAt ==
  ASSUME NEW c \in Cpu, c.microcode \in Live, ModelOf(c.microcode) = c.model, NEW input \in Opcodes
  PROVE  LET n == Source(c, input)
         IN  n \in Runs /\ n \in Int /\ ModelOf(n) = c.model
<1> DEFINE n == Source(c, input)
<1>1. n \in Sources(c)
  BY SourceIn
<1>2. n \in Runs /\ n \in Int
  BY <1>1, SourcesRun, SourcesInt
<1>3. c.model \in Models
  BY DEF Cpu
<1>4. ModelOf(n) = c.model
  <2>1. CASE Store[c.microcode] = "dispatch"
    <3>1. n = IDX(c.model, input, 0)
      BY <2>1 DEF Source
    <3> QED
      BY <3>1, <1>3, Starts
  <2>2. CASE Store[c.microcode] # "dispatch"
    BY <2>2 DEF Source
  <2> QED
    BY <2>1, <2>2
<1> QED
  BY <1>2, <1>4

LEMMA TickedFits ==
  ASSUME NEW c \in Cpu, c.microcode \in Live, ModelOf(c.microcode) = c.model, NEW r \in Registers,
         NEW input \in Opcodes, NEW j \in Ticked(c, r, input)
  PROVE  /\ Narrow(j.step) /\ Coupled(j.out.cpu, j.step.regs)
         /\ j.out.tick.status = j.step.status
<1> DEFINE n == Source(c, input)
           q == Fetched(c, r)
           d == Data(c, n, q, input)
           s == Start(c, n)
<1>1. n \in Runs /\ n \in Int /\ ModelOf(n) = c.model
  BY SourceAt
<1>2. q \in Registers
  BY FetchedRegisters
<1>3. input \in Bytes
  BY AnyOpcode, SMT DEF Bytes
<1>4. PICK p \in Effect(Store[n], s) :
        Agrees(p, d, s) /\ j = [out |-> Finish(c, p), step |-> d]
  BY TickedParts
<1> HIDE DEF n, q
<1>5. Narrow(d)
  BY <1>1, <1>2, <1>3, DataNarrow
<1>6. s \in Cpu
  BY <1>1, StartFields
<1>7. p \in Outcome
  BY <1>6, EffectGood DEF Good
<1>8. SameFlags(p.cpu, Finish(c, p).cpu) /\ Finish(c, p).tick = p.tick
  BY <1>7, FinishKeepsFlags, FinishEnds DEF Ends
<1>9. j.step = d /\ j.out = Finish(c, p)
  BY <1>4
<1> HIDE DEF d, s
<1> QED
  BY <1>4, <1>5, <1>8, <1>9 DEF Agrees, SameFlags, Coupled

-----------------------------------------------------------------------------
\* Memories and patches stay bytes at addresses.
LEMMA SmallBytes ==
  /\ 0 \in Bytes /\ 192 \in Bytes /\ 255 \in Bytes /\ 0 \in Words /\ 511 \in Words /\ 255 \in Words
<1>1. 0 \in Bytes /\ 192 \in Bytes /\ 255 \in Bytes
  BY SMT DEF Bytes
<1>2. 0 \in Words /\ 511 \in Words /\ 255 \in Words
  BY InWords, SMT
<1> QED
  BY <1>1, <1>2

LEMMA AtByte ==
  ASSUME NEW m, IsPatch(m), NEW a PROVE At(m, a) \in Bytes
  BY SmallBytes DEF IsPatch, At

LEMMA PokedMemory ==
  ASSUME NEW m, IsMemory(m), NEW a \in Words, NEW v \in Bytes PROVE IsMemory(Poke(m, a, v))
<1>1. CASE v = 0
  BY <1>1 DEF Poke, IsMemory, IsPatch
<1>2. CASE v # 0
  <2> DEFINE q == [b \in DOMAIN m \cup {a} |-> IF b = a THEN v ELSE m[b]]
  <2>1. Poke(m, a, v) = q
    BY <1>2 DEF Poke
  <2>2. \A b \in DOMAIN q : b \in Words /\ q[b] \in Bytes /\ q[b] # 0
    BY <1>2 DEF IsMemory, IsPatch
  <2> QED
    BY <2>1, <2>2 DEF IsMemory, IsPatch
<1> QED
  BY <1>1, <1>2

LEMMA PatchedMemory ==
  ASSUME NEW m, IsMemory(m), NEW p, IsPatch(p) PROVE IsMemory(Patch(m, p))
<1> DEFINE f == [b \in DOMAIN m \cup DOMAIN p |-> IF b \in DOMAIN p THEN p[b] ELSE m[b]]
           left == {b \in DOMAIN m \cup DOMAIN p : f[b] # 0}
           q == [b \in left |-> f[b]]
<1>1. \A b \in DOMAIN m \cup DOMAIN p : b \in Words /\ f[b] \in Bytes
  BY DEF IsMemory, IsPatch
<1>2. Patch(m, p) = q
  BY DEF Patch
<1> HIDE DEF f
<1>3. \A b \in DOMAIN q : b \in Words /\ q[b] \in Bytes /\ q[b] # 0
  BY <1>1
<1> QED
  BY <1>2, <1>3 DEF IsMemory, IsPatch

LEMMA EmptyMemory == IsMemory([a \in {} |-> 0])
  BY DEF IsMemory, IsPatch

\* The stub of a hard restart gives back what it takes.
LEMMA SavedPatch == ASSUME IsMemory(mem) PROVE IsPatch(Saved)
  BY ProgramsFit, AtByte DEF IsMemory, IsPatch, Saved

-----------------------------------------------------------------------------
\* What a program sees, with its memory.
IsArch(a) ==
  /\ a \in [ PC : Words, S : Bytes, A : Bytes, X : Bytes, Y : Bytes, P : SUBSET Flag,
             mem : {a.mem}, phase : {"running", "disturbed", "resetting"},
             ticks : 0..TicksBound, took : 0..TicksBound ]
  /\ IsMemory(a.mem)

LEMMA ArchTyped ==
  ASSUME NEW a, IsArch(a) PROVE [f \in DOMAIN a \ {"mem"} |-> a[f]] \in Arch
<1> DEFINE q == [f \in DOMAIN a \ {"mem"} |-> a[f]]
<1>1. DOMAIN a = {"PC", "S", "A", "X", "Y", "P", "mem", "phase", "ticks", "took"}
  BY DEF IsArch
<1> DEFINE e == [ PC |-> a.PC, S |-> a.S, A |-> a.A, X |-> a.X, Y |-> a.Y, P |-> a.P,
                  phase |-> a.phase, ticks |-> a.ticks, took |-> a.took ]
<1>2. q = e
  BY <1>1
<1>3. e \in Arch
  BY DEF IsArch, Arch
<1> QED
  BY <1>2, <1>3

LEMMA SeenTyped ==
  ASSUME NEW r \in Registers, NEW m, IsMemory(m), NEW took \in 0..TicksBound
  PROVE  IsArch(Seen(r, m, took))
<1>1. /\ r.A \in Bytes /\ r.X \in Bytes /\ r.Y \in Bytes /\ r.S \in Bytes
      /\ r.PC \in Words /\ r.P \in SUBSET Flag
  BY Fields
<1>2. 0 \in 0..TicksBound
  BY DEF TicksBound
<1> QED
  BY <1>1, <1>2 DEF Seen, IsArch

LEMMA CountedTyped ==
  ASSUME NEW a, IsArch(a)
  PROVE  IsArch(Counted(a)) /\ Counted(a).ticks \in 0..TicksBound /\ Counted(a).mem = a.mem
<1> DEFINE t == IF a.ticks < TicksBound THEN a.ticks + 1 ELSE a.ticks - 1
<1>1. a.ticks \in 0..TicksBound
  BY DEF IsArch
<1>2. t \in 0..TicksBound
  BY <1>1 DEF TicksBound
<1>3. Counted(a) = [a EXCEPT !.ticks = t]
  BY DEF Counted
<1> HIDE DEF t
<1>4. [a EXCEPT !.ticks = t].mem = a.mem /\ [a EXCEPT !.ticks = t].ticks = t
  BY DEF IsArch
<1> QED
  BY <1>2, <1>3, <1>4 DEF IsArch

LEMMA MarkedTyped ==
  ASSUME NEW a, IsArch(a), NEW m, IsMemory(m),
         NEW phase \in {"running", "disturbed", "resetting"}
  PROVE  /\ IsArch([a EXCEPT !.phase = phase])
         /\ IsArch([a EXCEPT !.mem = m, !.phase = phase])
<1>1. [a EXCEPT !.phase = phase].mem = a.mem /\ [a EXCEPT !.mem = m, !.phase = phase].mem = m
  BY DEF IsArch
<1> QED
  BY <1>1 DEF IsArch

-----------------------------------------------------------------------------
\* The invariant of the machine: that of the control, its flags coupled with the status register,
\* everything of its width, and after a write a handler that does without the bus.
BlindAfterWrite(c, t) == t.status = "write" => Store[c.microcode] \in BusBlind

MachineInv ==
  /\ FlowInv /\ Windowed(cpu) /\ Coupled(cpu, regs) /\ BlindAfterWrite(cpu, tick)
  /\ regs \in Registers /\ bus \in [address : Words, data : Bytes, reset : BOOLEAN]
  /\ IsMemory(mem) /\ IsArch(arch)

LEMMA MachineWidths == MachineInv => ETypeOK
  BY ArchTyped DEF MachineInv, ETypeOK, FlowInv, SoundInv, Sound, TypeOK, IsArch

LEMMA TickBlind ==
  ASSUME NEW c, Sound(c), c.microcode \in Live, NEW o \in TickOutcomes(c)
  PROVE  BlindAfterWrite(o.cpu, o.tick)
<1>1. PICK n \in Sources(c) : \E a : Flows(c, n, a, o)
  BY TickFlows
<1>2. PICK a : Flows(c, n, a, o)
  BY <1>1
<1>3. c \in Cpu /\ c.model \in Models
  BY DEF Sound, Cpu
<1>4. n \in Runs
  BY <1>3, SourcesRun
<1>5. a \in From(n, c.model)
  BY <1>2 DEF Flows, From
<1>6. a.status = "write" => Store[a.to] \in BusBlind
  BY <1>3, <1>4, <1>5, WritesUnseen
<1>7. o.tick.status = "write" => a.status = "write" /\ o.cpu.microcode = a.to
  BY <1>2 DEF Flows
<1> QED
  BY <1>6, <1>7 DEF BlindAfterWrite

\* A write reaches the memory.
LEMMA WrittenTyped == MachineInv => IsMemory(WrittenMemory)
<1> SUFFICES ASSUME MachineInv PROVE IsMemory(WrittenMemory)
  OBVIOUS
<1>1. bus.address \in Words /\ bus.data \in Bytes /\ IsMemory(mem)
  BY DEF MachineInv
<1> QED
  BY <1>1, PokedMemory DEF WrittenMemory

LEMMA TickedKeeps ==
  ASSUME NEW c, Sound(c), NEW t, Flowing(c, t), Windowed(c), NEW r \in Registers,
         NEW input \in Opcodes, NEW j \in Ticked(c, r, input)
  PROVE  /\ Sound(j.out.cpu) /\ j.out.tick \in TickResult /\ Flowing(j.out.cpu, j.out.tick)
         /\ Windowed(j.out.cpu) /\ Coupled(j.out.cpu, j.step.regs)
         /\ BlindAfterWrite(j.out.cpu, j.out.tick) /\ j.out.tick.status = j.step.status
         /\ Narrow(j.step) /\ j.out \in TickOutcomes(c)
<1>1. c \in Cpu /\ c.microcode \in Live /\ ModelOf(c.microcode) = c.model
  BY DEF Sound, Flowing, Windowed
<1>2. j.out \in TickOutcomes(c)
  BY <1>1, TickedOut
<1>3. Narrow(j.step) /\ Coupled(j.out.cpu, j.step.regs) /\ j.out.tick.status = j.step.status
  BY <1>1, TickedFits
<1>4. Sound(j.out.cpu) /\ j.out.tick \in TickResult
  BY <1>2, TickSound DEF Outcome
<1>5. Flowing(j.out.cpu, j.out.tick)
  BY <1>2, TickFlowing
<1>6. Windowed(j.out.cpu) /\ BlindAfterWrite(j.out.cpu, j.out.tick)
  BY <1>1, <1>2, TickWindowed, TickBlind
<1> QED
  BY <1>2, <1>3, <1>4, <1>5, <1>6

LEMMA ObservedTyped ==
  ASSUME IsArch(arch), NEW m, IsMemory(m), NEW j, Narrow(j.step) PROVE IsArch(Observed(j, m))
<1>1. j.step.regs \in Registers
  BY DEF Narrow
<1>2. IsArch(Counted(arch)) /\ Counted(arch).ticks \in 0..TicksBound
  BY CountedTyped
<1>3. IsArch(Seen(j.step.regs, m, Counted(arch).ticks))
  BY <1>1, <1>2, SeenTyped
<1> QED
  BY <1>2, <1>3 DEF Observed

\* A tick keeps the invariant, and is a tick of the control.
LEMMA StepMachine ==
  ASSUME MachineInv, NEW input \in Opcodes, Step(input) PROVE MachineInv' /\ Tick
<1>1. /\ Sound(cpu) /\ Flowing(cpu, tick) /\ Windowed(cpu) /\ regs \in Registers /\ IsArch(arch)
      /\ IsMemory(WrittenMemory)
  BY WrittenTyped DEF MachineInv, FlowInv, SoundInv
<1>2. PICK j \in Ticked(cpu, regs, input) : Shows(j) /\ arch' = Observed(j, WrittenMemory)
  BY DEF Step
<1>3. /\ Sound(j.out.cpu) /\ j.out.tick \in TickResult /\ Flowing(j.out.cpu, j.out.tick)
      /\ Windowed(j.out.cpu) /\ Coupled(j.out.cpu, j.step.regs)
      /\ BlindAfterWrite(j.out.cpu, j.out.tick)
      /\ Narrow(j.step) /\ j.out \in TickOutcomes(cpu)
  BY <1>1, TickedKeeps
<1>4. /\ cpu' = j.out.cpu /\ tick' = j.out.tick /\ regs' = j.step.regs
      /\ bus' = [address |-> j.step.address, data |-> j.step.data, reset |-> j.step.reset]
      /\ mem' = WrittenMemory
  BY <1>2 DEF Shows, Step
<1>5. FlowInv' /\ Windowed(cpu)' /\ Coupled(cpu, regs)' /\ BlindAfterWrite(cpu, tick)'
  BY <1>3, <1>4 DEF FlowInv, SoundInv
<1>6. regs' \in Registers /\ bus' \in [address : Words, data : Bytes, reset : BOOLEAN]
  BY <1>3, <1>4 DEF Narrow
<1>7. IsMemory(mem)'
  BY <1>1, <1>4
<1>8. IsArch(arch)'
  BY <1>1, <1>2, <1>3, ObservedTyped
<1>9. Tick
  BY <1>3, <1>4 DEF Tick, Becomes
<1> QED
  BY <1>5, <1>6, <1>7, <1>8, <1>9 DEF MachineInv

-----------------------------------------------------------------------------
\* The hosts' calls between the ticks.
LEMMA StartRegisters == StartRegs \in Registers /\ RestartRegs \in Registers
<1>1. {} \in SUBSET Flag /\ {"Z"} \in SUBSET Flag
  BY DEF Flag
<1>2. Bytes = 0..255
  BY DEF Bytes
<1>3. 0 \in 0..255 /\ 192 \in 0..255
  OBVIOUS
<1> QED
  BY <1>1, <1>3, SmallBytes, SMT DEF StartRegs, RestartRegs, Registers

LEMMA RestartCoupled ==
  ASSUME NEW c
  PROVE  LET o == RestartOutcome(c)
         IN  Coupled(o.cpu, RestartRegs) /\ BlindAfterWrite(o.cpu, o.tick)
<1> DEFINE o == RestartOutcome(c)
<1>1. o.tick.status = "read" /\ o.cpu.I = FALSE /\ o.cpu.D = FALSE
  BY DEF RestartOutcome, Bus, StatusOf, WriteHandlers, PlainWrites, FetchHandlers, PlainFetches,
         EnterServiceSlot, Setup
<1> HIDE DEF o
<1>2. ("I" \in RestartRegs.P) = FALSE /\ ("D" \in RestartRegs.P) = FALSE
  BY DEF RestartRegs
<1>3. Coupled(o.cpu, RestartRegs)
  BY <1>1, <1>2, Zenon DEF Coupled
<1>4. BlindAfterWrite(o.cpu, o.tick)
  BY <1>1 DEF BlindAfterWrite
<1> QED
  BY <1>3, <1>4 DEF o

LEMMA RestartKeeps ==
  ASSUME MachineInv, NEW m, IsMemory(m), RestartMachine(m) PROVE MachineInv'
<1> DEFINE o == RestartOutcome(cpu)
<1>1. cpu.model \in Models
  BY DEF MachineInv, FlowInv, SoundInv, Sound, Cpu
<1>2. /\ o \in Outcome /\ Sound(o.cpu) /\ Flowing(o.cpu, o.tick) /\ Windowed(o.cpu)
  BY <1>1, RestartSound, RestartFlows, RestartWindowed
<1>3. o.tick \in TickResult
  BY <1>2 DEF Outcome
<1>4. Coupled(o.cpu, RestartRegs) /\ BlindAfterWrite(o.cpu, o.tick)
  BY RestartCoupled
<1> HIDE DEF o
<1>5. /\ cpu' = o.cpu /\ tick' = o.tick /\ regs' = RestartRegs /\ mem' = m
      /\ bus' = [address |-> 255, data |-> 0, reset |-> TRUE]
      /\ arch' = [Seen(RestartRegs, m, 0) EXCEPT !.phase = "resetting"]
  BY DEF RestartMachine, Becomes, o
<1>7. FlowInv' /\ Windowed(cpu)' /\ Coupled(cpu, regs)' /\ BlindAfterWrite(cpu, tick)'
  BY <1>2, <1>3, <1>4, <1>5 DEF FlowInv, SoundInv
<1>8. regs' \in Registers /\ bus' \in [address : Words, data : Bytes, reset : BOOLEAN]
  BY <1>5, SmallBytes, StartRegisters
<1>9. IsArch(Seen(RestartRegs, m, 0))
  BY SeenTyped, StartRegisters DEF TicksBound
<1>10. IsArch(arch')
  BY <1>5, <1>9, MarkedTyped
<1> QED
  BY <1>5, <1>7, <1>8, <1>10 DEF MachineInv

LEMMA PinsMove ==
  ASSUME MachineInv, NEW level \in BOOLEAN, NmiAssert(level) \/ IrqAssert(level),
         UNCHANGED <<regs, bus>>, IsMemory(mem'), IsArch(arch')
  PROVE  MachineInv'
<1>1. FlowInv'
  <2>1. [Next]_vars
    BY DEF Next, HostStep
  <2> QED
    BY <2>1, StepFlow DEF MachineInv
<1>2. cpu \in Cpu
  BY DEF MachineInv, FlowInv, SoundInv, Sound
<1>3. /\ tick' = tick /\ cpu'.microcode = cpu.microcode /\ cpu'.model = cpu.model
      /\ cpu'.sampling_off = cpu.sampling_off /\ cpu'.I = cpu.I /\ cpu'.D = cpu.D
  <2>1. CASE NmiAssert(level)
    BY <1>2, <2>1 DEF NmiAssert, Cpu
  <2>2. CASE IrqAssert(level)
    BY <1>2, <2>2 DEF IrqAssert, Cpu
  <2> QED
    BY <2>1, <2>2
<1>4. Windowed(cpu)'
  BY <1>3 DEF MachineInv, Windowed
<1>5. Coupled(cpu, regs)' /\ BlindAfterWrite(cpu, tick)'
  BY <1>3 DEF MachineInv, Coupled, BlindAfterWrite
<1> QED
  BY <1>1, <1>4, <1>5 DEF MachineInv

LEMMA PokedKeeps ==
  ASSUME MachineInv, NEW m, IsMemory(m), PokeMachine(m) PROVE IsMemory(mem') /\ IsArch(arch')
<1> DEFINE phase == IF arch.ticks = 0 THEN arch.phase ELSE "disturbed"
<1>1. IsArch(arch) /\ phase \in {"running", "disturbed", "resetting"}
  BY DEF MachineInv, IsArch
<1>2. mem' = m /\ arch' = [arch EXCEPT !.mem = m, !.phase = phase]
  BY DEF PokeMachine
<1> HIDE DEF phase
<1> QED
  BY <1>1, <1>2, MarkedTyped

LEMMA Resting == MachineInv /\ UNCHANGED machine => MachineInv'
  BY DEF machine, MachineInv, FlowInv, SoundInv

-----------------------------------------------------------------------------
\* The hosts: their programs and the bytes they put aside are those of a memory.
JobInv ==
  /\ "kind" \in DOMAIN job
  /\ job.kind = "lockstep" =>
       /\ "program" \in DOMAIN job /\ job.program \in Programs
       /\ "saved" \in DOMAIN job /\ IsPatch(job.saved)

LEMMA SameJob ==
  ASSUME JobInv, DOMAIN job' = DOMAIN job,
         \A f \in {"kind", "program", "saved"} \cap DOMAIN job : job'[f] = job[f]
  PROVE  JobInv'
  BY DEF JobInv

LEMMA EditedJob ==
  ASSUME JobInv, NEW a, NEW b
  PROVE  /\ job' = [job EXCEPT !.phase = a, !.steps = b] => JobInv'
         /\ job' = [job EXCEPT !.cycle_index = a, !.phase = b] => JobInv'
         /\ job' = [job EXCEPT !.pin = a] => JobInv'
         /\ job' = [job EXCEPT !.steps = a, !.fetches = b] => JobInv'
         /\ job' = [job EXCEPT !.mismatch = a, !.phase = b] => JobInv'
  BY SameJob

LEMMA SavingJob ==
  ASSUME JobInv, NEW a, NEW b, NEW d, IsPatch(d)
  PROVE  /\ job' = [job EXCEPT !.phase = a, !.steps = 0, !.saved = d] => JobInv'
         /\ job' = [job EXCEPT !.phase = a, !.steps = 0, !.hard = b, !.saved = d] => JobInv'
  BY DEF JobInv

\* What any host does to the machine in one step.
Hosted ==
  \/ \E input \in Opcodes : Step(input)
  \/ /\ \E level \in BOOLEAN : NmiAssert(level) \/ IrqAssert(level)
     /\ UNCHANGED <<regs, bus>> /\ IsMemory(mem') /\ IsArch(arch')
  \/ \E m : IsMemory(m) /\ RestartMachine(m)
  \/ UNCHANGED machine

LEMMA Inputs == MachineInv => SingleStepInput \in Opcodes /\ LockstepInput \in Opcodes
<1> SUFFICES ASSUME MachineInv PROVE SingleStepInput \in Opcodes /\ LockstepInput \in Opcodes
  OBVIOUS
<1>1. bus.data \in Bytes /\ At(mem, bus.address) \in Bytes
  BY AtByte DEF MachineInv, IsMemory
<1>2. Opcodes = Bytes
  BY AnyOpcode DEF Bytes
<1> QED
  BY <1>1, <1>2 DEF SingleStepInput, LockstepInput

LEMMA HostedKeeps == ASSUME MachineInv, Hosted PROVE MachineInv'
<1>1. CASE \E input \in Opcodes : Step(input)
  BY <1>1, StepMachine
<1>2. CASE /\ \E level \in BOOLEAN : NmiAssert(level) \/ IrqAssert(level)
           /\ UNCHANGED <<regs, bus>> /\ IsMemory(mem') /\ IsArch(arch')
  BY <1>2, PinsMove
<1>3. CASE \E m : IsMemory(m) /\ RestartMachine(m)
  BY <1>3, RestartKeeps
<1>4. CASE UNCHANGED machine
  BY <1>4, Resting
<1> QED
  BY <1>1, <1>2, <1>3, <1>4 DEF Hosted

LEMMA SteppedHosted ==
  ASSUME MachineInv, LockstepMachineStep PROVE Hosted
  BY Inputs DEF LockstepMachineStep, Hosted

LEMMA PinsHosted ==
  ASSUME MachineInv, NEW level \in BOOLEAN, NmiAssert(level) \/ IrqAssert(level),
         UNCHANGED <<regs, bus, mem, arch>>
  PROVE  Hosted
<1>1. IsMemory(mem') /\ IsArch(arch')
  BY DEF MachineInv
<1> QED
  BY <1>1 DEF Hosted

LEMMA PokeHosted ==
  ASSUME MachineInv, NEW level \in BOOLEAN, NmiAssert(level), NEW m, IsMemory(m), PokeMachine(m),
         UNCHANGED <<regs, bus>>
  PROVE  Hosted
<1>1. IsMemory(mem') /\ IsArch(arch')
  BY PokedKeeps
<1> QED
  BY <1>1 DEF Hosted

\* Every step of a host is one of these.
LEMMA SingleStepHosted ==
  ASSUME MachineInv, JobInv, SingleStepTick PROVE Hosted /\ JobInv'
<1>1. Hosted
  BY Inputs DEF SingleStepTick, Hosted
<1>2. JobInv'
  BY EditedJob DEF SingleStepTick
<1> QED
  BY <1>1, <1>2

\* The programs and patches of the setup.
LEMMA LockstepJob ==
  ASSUME MachineInv, JobInv, job.kind = "lockstep"
  PROVE  /\ IsMemory(mem) /\ job.program \in Programs /\ IsPatch(job.saved) /\ IsPatch(Saved)
         /\ IsPatch(Unsaved)
         /\ IsMemory(Patch(mem, BootstrapPatch(job.program)))
         /\ IsMemory(Patch(mem, SafeRestartStub))
         /\ IsMemory(Patch(Patch(mem, job.saved), UserPatch(job.program)))
<1>1. IsMemory(mem) /\ job.program \in Programs /\ IsPatch(job.saved)
  BY DEF MachineInv, JobInv
<1>2. IsPatch(BootstrapPatch(job.program)) /\ IsPatch(UserPatch(job.program))
      /\ IsPatch(SafeRestartStub)
  BY <1>1, ProgramsFit
<1>3. IsPatch(Unsaved)
  BY DEF IsPatch, Unsaved
<1> QED
  BY <1>1, <1>2, <1>3, SavedPatch, PatchedMemory

LEMMA SoftSetupHosted ==
  ASSUME MachineInv, JobInv, job.kind = "lockstep", SoftSetup PROVE Hosted
  BY LockstepJob, PokeHosted DEF SoftSetup

LEMMA SteppingHosted ==
  ASSUME MachineInv, JobInv,
         RestartLoop \/ StepToNextFetch \/ StepToBootstrap \/ StepToStart \/ StepToSafeFetch
           \/ ScriptStep
  PROVE  Hosted /\ JobInv'
<1>1. CASE RestartLoop
  <2>1. JobInv'
    BY <1>1, EditedJob DEF RestartLoop, Phase, JobInv
  <2> QED
    BY <1>1, <2>1, SteppedHosted DEF RestartLoop
<1>2. CASE StepToNextFetch
  BY <1>2, SteppedHosted, EditedJob DEF StepToNextFetch, Stepped
<1>3. CASE StepToBootstrap
  BY <1>3, SteppedHosted, EditedJob DEF StepToBootstrap, Stepped
<1>4. CASE StepToStart
  BY <1>4, SteppedHosted, EditedJob DEF StepToStart, Stepped
<1>5. CASE StepToSafeFetch
  BY <1>5, SteppedHosted, EditedJob DEF StepToSafeFetch, Stepped
<1>6. CASE ScriptStep
  BY <1>6, SteppedHosted, EditedJob DEF ScriptStep
<1> QED
  BY <1>1, <1>2, <1>3, <1>4, <1>5, <1>6

LEMMA SettingUpHosted ==
  ASSUME MachineInv, JobInv, RestartRun \/ InstallUserTestcase \/ HardRestart \/ SetupAgain
  PROVE  Hosted /\ JobInv'
<1>1. job.kind = "lockstep"
  BY DEF RestartRun, Idle, InstallUserTestcase, HardRestart, SoftSetupFails, SetupAgain, In
<1>2. CASE RestartRun
  <2>1. PICK p : job' = [job EXCEPT !.scenario = p, !.phase = "irq low", !.hard = FALSE, !.steps = 0,
                                   !.pin = "before", !.fetches = 0]
    BY <1>2 DEF RestartRun
  <2>2. JobInv'
    BY <2>1, SameJob
  <2> QED
    BY <1>1, <1>2, <2>2, SoftSetupHosted DEF RestartRun
<1>3. CASE InstallUserTestcase
  <2>1. Hosted
    BY <1>1, <1>3, LockstepJob, PokeHosted DEF InstallUserTestcase
  <2>2. JobInv'
    BY <1>1, <1>3, LockstepJob, SavingJob DEF InstallUserTestcase
  <2> QED
    BY <2>1, <2>2
<1>4. CASE HardRestart
  <2>1. Hosted
    BY <1>1, <1>4, LockstepJob DEF HardRestart, Hosted
  <2>2. JobInv'
    BY <1>1, <1>4, LockstepJob, SavingJob DEF HardRestart
  <2> QED
    BY <2>1, <2>2
<1>5. CASE SetupAgain
  BY <1>1, <1>5, SoftSetupHosted, EditedJob DEF SetupAgain, Phase
<1> QED
  BY <1>2, <1>3, <1>4, <1>5

LEMMA PinningHosted ==
  ASSUME MachineInv, JobInv,
         LowerIrq \/ RaiseNmi \/ AssertPin \/ DeassertPin \/ ReachStart \/ ComparisonFails
  PROVE  Hosted /\ JobInv'
<1>1. CASE LowerIrq
  BY <1>1, PinsHosted, EditedJob DEF LowerIrq, Phase
<1>2. CASE RaiseNmi
  BY <1>2, PinsHosted, EditedJob DEF RaiseNmi, Phase
<1>3. CASE AssertPin
  <2>1. Hosted
    BY <1>3, PinsHosted DEF AssertPin, PinAssert
  <2> QED
    BY <1>3, <2>1, EditedJob DEF AssertPin
<1>4. CASE DeassertPin
  <2>1. Hosted
    BY <1>4, PinsHosted DEF DeassertPin, PinAssert
  <2> QED
    BY <1>4, <2>1, EditedJob DEF DeassertPin
<1>5. CASE ReachStart
  BY <1>5, EditedJob DEF ReachStart, Phase, Hosted
<1>6. CASE ComparisonFails
  BY <1>6, EditedJob DEF ComparisonFails, Hosted
<1> QED
  BY <1>1, <1>2, <1>3, <1>4, <1>5, <1>6

LEMMA HostsDo == ASSUME MachineInv, JobInv, ExecutionNext PROVE Hosted /\ JobInv'
<1>1. CASE SingleStepTick
  BY <1>1, SingleStepHosted
<1>2. CASE LockstepNext
  BY <1>2, SteppingHosted, SettingUpHosted, PinningHosted DEF LockstepNext
<1> QED
  BY <1>1, <1>2 DEF ExecutionNext

-----------------------------------------------------------------------------
\* The two ways in.
LEMMA JumpReady ==
  ASSUME NEW m \in Models, NEW start
  PROVE  LET c == EnterServiceSlot(set_initial_state(m, start), goto, 0)
         IN  /\ Sound(c) /\ Windowed(c)
             /\ Flowing(c, [status |-> "read", polled |-> FALSE])
<1> DEFINE s == Setup(m)
           x == "I" \in start.P
           y == "D" \in start.P
           b == [s EXCEPT !.I = x, !.D = y]
           i == IDX(m, goto, 0)
           c == EnterServiceSlot(b, goto, 0)
<1>1. /\ s \in Cpu /\ s.model = m /\ ~s.service_mode /\ ~s.sampling_off
      /\ Quiescent(s) /\ ~s.nmi_taken /\ ~s.irq_taken
  BY SetupSound DEF Sound, Setup
<1>2. set_initial_state(m, start) = b
  BY DEF set_initial_state
<1>3. i \in Live /\ i \in Runs /\ Store[i] # "dispatch"
  BY EntriesRun
<1>4. i \notin Window /\ ModelOf(i) = m
  BY Starts
<1>5. x \in BOOLEAN /\ y \in BOOLEAN
  OBVIOUS
<1> HIDE DEF s, x, y
<1>6. Keeps(s, b)
  BY <1>1, <1>5, KeepsFlags
<1>7. b \in Cpu /\ b.model = m /\ ~b.sampling_off
  BY <1>1, <1>5 DEF Cpu
<1>8. c = [b EXCEPT !.microcode = i]
  BY <1>7 DEF EnterServiceSlot
<1> HIDE DEF b, i
<1>9. Keeps(b, c)
  BY <1>7, KeepsMoves DEF goto
<1>10. c \in Cpu /\ ~c.service_mode /\ Quiescent(c)
  BY <1>1, <1>6, <1>9 DEF Keeps
<1>11. c.model = m /\ c.microcode = i /\ ~c.sampling_off
  BY <1>7, <1>8 DEF Cpu
<1>12. ~c.nmi_taken /\ ~c.irq_taken
  BY <1>10 DEF Quiescent
<1> HIDE DEF c
<1>13. Sound(c)
  BY <1>10, <1>12 DEF Sound
<1>14. Windowed(c)
  BY <1>4, <1>11 DEF Windowed
<1>15. Flowing(c, [status |-> "read", polled |-> FALSE])
  BY <1>3, <1>11, <1>12 DEF Flowing, Untaken
<1> QED
  BY <1>2, <1>13, <1>14, <1>15 DEF c

LEMMA InitSingleStep == SingleStepInit => MachineInv /\ JobInv
<1> SUFFICES ASSUME SingleStepInit PROVE MachineInv /\ JobInv
  OBVIOUS
<1>1. PICK case \in Cases :
        LET c == set_initial_state(case.model, case.regs)
            r == case.regs @@ StartRegs
        IN  \E j \in Ticked(EnterServiceSlot(c, goto, 0), r, 0) :
              /\ cpu = j.out.cpu /\ tick = j.out.tick /\ regs = j.step.regs
              /\ bus = [address |-> j.step.address, data |-> j.step.data, reset |-> FALSE]
              /\ mem = Patch([a \in {} |-> 0], case.ram)
              /\ arch = Seen(j.step.regs, mem, 0)
              /\ job = [ kind |-> "singlestep", phase |-> "running", cycle_index |-> 0,
                         kil |-> is_nmos_kil_opcode(case.model, At(mem, case.regs.PC)) ]
  BY DEF SingleStepInit
<1> DEFINE c == EnterServiceSlot(set_initial_state(case.model, case.regs), goto, 0)
           r == case.regs @@ StartRegs
<1>2. PICK j \in Ticked(c, r, 0) :
        /\ cpu = j.out.cpu /\ tick = j.out.tick /\ regs = j.step.regs
        /\ bus = [address |-> j.step.address, data |-> j.step.data, reset |-> FALSE]
        /\ mem = Patch([a \in {} |-> 0], case.ram)
        /\ arch = Seen(j.step.regs, mem, 0)
        /\ job = [ kind |-> "singlestep", phase |-> "running", cycle_index |-> 0,
                   kil |-> is_nmos_kil_opcode(case.model, At(mem, case.regs.PC)) ]
  BY <1>1
<1>3. case.model \in Models /\ r \in Registers /\ IsPatch(case.ram)
  BY CasesFit
<1> DEFINE t == [status |-> "read", polled |-> FALSE]
<1>4. Sound(c) /\ Windowed(c) /\ Flowing(c, t)
  BY <1>3, JumpReady
<1>5. 0 \in Opcodes
  BY AnyOpcode
<1> HIDE DEF c, r, t
<1>6. /\ Sound(j.out.cpu) /\ j.out.tick \in TickResult /\ Flowing(j.out.cpu, j.out.tick)
      /\ Windowed(j.out.cpu) /\ Coupled(j.out.cpu, j.step.regs)
      /\ BlindAfterWrite(j.out.cpu, j.out.tick)
      /\ Narrow(j.step)
  BY <1>3, <1>4, <1>5, TickedKeeps
<1>7. IsMemory(mem)
  BY <1>2, <1>3, EmptyMemory, PatchedMemory
<1>8. IsArch(arch)
  BY <1>2, <1>6, <1>7, SeenTyped DEF Narrow, TicksBound
<1>9. FlowInv /\ Windowed(cpu) /\ Coupled(cpu, regs) /\ BlindAfterWrite(cpu, tick)
  BY <1>2, <1>6 DEF FlowInv, SoundInv
<1>10. regs \in Registers /\ bus \in [address : Words, data : Bytes, reset : BOOLEAN]
  BY <1>2, <1>6 DEF Narrow
<1>11. JobInv
  BY <1>2 DEF JobInv
<1> QED
  BY <1>7, <1>8, <1>9, <1>10, <1>11 DEF MachineInv

LEMMA InitLockstep == LockstepInit => MachineInv /\ JobInv
<1> SUFFICES ASSUME LockstepInit PROVE MachineInv /\ JobInv
  OBVIOUS
<1> DEFINE o == RestartOutcome(Setup(0))
<1>1. PICK program \in Programs :
        /\ cpu = o.cpu /\ tick = o.tick /\ regs = RestartRegs
        /\ bus = [address |-> 255, data |-> 0, reset |-> TRUE]
        /\ mem = [a \in {} |-> 0]
        /\ arch = [Seen(RestartRegs, mem, 0) EXCEPT !.phase = "resetting"]
        /\ job = [ kind |-> "lockstep", phase |-> "construct", program |-> program,
                   scenario |-> NoPulse, steps |-> 0, hard |-> FALSE, saved |-> Unsaved,
                   pin |-> "before", fetches |-> 0, mismatch |-> FALSE ]
  BY DEF LockstepInit
<1>2. Setup(0).model \in Models
  BY ProgramsFit DEF Setup
<1>3. o \in Outcome /\ Sound(o.cpu) /\ Flowing(o.cpu, o.tick) /\ Windowed(o.cpu)
  BY <1>2, RestartSound, RestartFlows, RestartWindowed
<1>4. Coupled(o.cpu, RestartRegs) /\ BlindAfterWrite(o.cpu, o.tick)
  BY RestartCoupled
<1> HIDE DEF o
<1>5. FlowInv /\ Windowed(cpu) /\ Coupled(cpu, regs) /\ BlindAfterWrite(cpu, tick)
  BY <1>1, <1>3, <1>4 DEF FlowInv, SoundInv, Outcome
<1>6. regs \in Registers /\ bus \in [address : Words, data : Bytes, reset : BOOLEAN]
  BY <1>1, SmallBytes, StartRegisters
<1>7. IsMemory(mem)
  BY <1>1, EmptyMemory
<1>8. IsArch(Seen(RestartRegs, mem, 0))
  BY <1>7, SeenTyped, StartRegisters DEF TicksBound
<1>9. IsArch(arch)
  BY <1>1, <1>7, <1>8, MarkedTyped
<1>10. IsPatch(Unsaved)
  BY DEF IsPatch, Unsaved
<1>11. JobInv
  BY <1>1, <1>10 DEF JobInv
<1> QED
  BY <1>5, <1>6, <1>7, <1>9, <1>11 DEF MachineInv

-----------------------------------------------------------------------------
\* What holds of ExecutionSpec holds of the harnesses that run to their end: their fairness and
\* their rest add no step.
THEOREM HarnessesConform == HarnessSpec => ExecutionSpec
<1>1. [ExecutionNext \/ HarnessRests]_<<machine, job>> => [ExecutionNext]_<<machine, job>>
  BY Zenon DEF HarnessRests
<1> QED
  BY <1>1, PTL DEF HarnessSpec, ExecutionSpec

\* The invariant of the machine, whatever programs and scenarios its hosts run.
THEOREM MachineAlways == ExecutionSpec => [](MachineInv /\ JobInv)
<1>1. ExecutionInit => MachineInv /\ JobInv
  BY InitSingleStep, InitLockstep DEF ExecutionInit
<1>2. MachineInv /\ JobInv /\ [ExecutionNext]_<<machine, job>> => (MachineInv /\ JobInv)'
  <2>1. CASE ExecutionNext
    BY <2>1, HostsDo, HostedKeeps
  <2>2. CASE UNCHANGED <<machine, job>>
    BY <2>2, Resting DEF JobInv
  <2> QED
    BY <2>1, <2>2
<1> QED
  BY <1>1, <1>2, PTL DEF ExecutionSpec

\* Registers, latches, bus and memory keep to their widths (ETypeOK).
THEOREM WidthsKept == ExecutionSpec => []ETypeOK
  BY MachineAlways, MachineWidths, PTL

-----------------------------------------------------------------------------
\* What a write cycle is given on the bus has no effect (WriteIgnoresBus): every handler that runs
\* after a write does without it, and so does every outcome of the tick.
LEMMA BlindTicks ==
  ASSUME NEW c \in Cpu, Store[c.microcode] \in BusBlind, NEW r, NEW a, NEW b
  PROVE  Ticked(c, r, a) = Ticked(c, r, b)
<1> DEFINE n == c.microcode
           q == Fetched(c, r)
           s == Start(c, n)
<1>1. Source(c, a) = n /\ Source(c, b) = n
  BY DEF Source, BusBlind
<1>2. Data(c, n, q, a) = Data(c, n, q, b)
  BY BlindToTheBus DEF Data
<1>3. Ticked(c, r, a) =
        {[out |-> Finish(c, p), step |-> Data(c, n, q, a)] :
           p \in {x \in Effect(Store[n], s) : Agrees(x, Data(c, n, q, a), s)}}
  BY <1>1, TickedParts
<1>4. Ticked(c, r, b) =
        {[out |-> Finish(c, p), step |-> Data(c, n, q, b)] :
           p \in {x \in Effect(Store[n], s) : Agrees(x, Data(c, n, q, b), s)}}
  BY <1>1, TickedParts
<1> HIDE DEF n, q, s
<1> QED
  BY <1>2, <1>3, <1>4

LEMMA MachineBlind == MachineInv => WriteIgnoresBus
<1> SUFFICES ASSUME MachineInv, tick.status = "write", NEW input \in {0, 255}
             PROVE  Ticked(cpu, regs, input) = Ticked(cpu, regs, Input)
  BY DEF WriteIgnoresBus
<1>1. cpu \in Cpu /\ Store[cpu.microcode] \in BusBlind
  BY DEF MachineInv, FlowInv, SoundInv, Sound, BlindAfterWrite
<1> QED
  BY <1>1, BlindTicks

THEOREM BusUnseenInWrites == ExecutionSpec => []WriteIgnoresBus
  BY MachineAlways, MachineBlind, PTL

-----------------------------------------------------------------------------
\* The machine refines its control: whatever its data decide, every step of a host on it is a step
\* of the core, a host's call or no step at all, and the invariants of the core hold of it.
LEMMA HostedControl ==
  ASSUME MachineInv, Hosted, "restart" \in Host PROVE [Next]_vars
<1>1. CASE \E input \in Opcodes : Step(input)
  BY <1>1, StepMachine DEF Next
<1>2. CASE \E level \in BOOLEAN : NmiAssert(level) \/ IrqAssert(level)
  BY <1>2 DEF Next, HostStep
<1>3. CASE \E m : IsMemory(m) /\ RestartMachine(m)
  BY <1>3 DEF RestartMachine, Restart, Next, HostStep
<1>4. CASE UNCHANGED machine
  BY <1>4 DEF machine, vars
<1> QED
  BY <1>1, <1>2, <1>3, <1>4 DEF Hosted

THEOREM ImplementsControl == ASSUME "restart" \in Host PROVE ExecutionSpec => [][Next]_vars
<1>1. (MachineInv /\ JobInv) /\ [ExecutionNext]_<<machine, job>> => [Next]_vars
  <2>1. CASE MachineInv /\ JobInv /\ ExecutionNext
    BY <2>1, HostsDo, HostedControl
  <2>2. CASE UNCHANGED <<machine, job>>
    BY <2>2 DEF machine, vars
  <2> QED
    BY <2>1, <2>2
<1> QED
  BY <1>1, MachineAlways, PTL DEF ExecutionSpec

\* The interrupt unit's invariants under every program: every tick has a handler to run, nothing is
\* left for a sleeping resolver, one interrupt is chosen at a time and entered at the fetch, and
\* NMI is sampled outside the vector window of NMOS.
THEOREM ControlKept ==
  ExecutionSpec => []( HandlerExists /\ FastPathIdle /\ NoStalePoll /\ OneTaken
                       /\ ChosenEntersAtFetch /\ VectorWindow )
<1>1. MachineInv => FastPathIdle /\ NoStalePoll /\ OneTaken
  BY DEF MachineInv, FlowInv, SoundInv, Sound, FastPathIdle, NoStalePoll, OneTaken
<1>2. MachineInv => ChosenEntersAtFetch /\ VectorWindow
  BY DEF MachineInv, FlowInv, Flowing, Untaken, Windowed, ChosenEntersAtFetch, VectorWindow
<1>3. MachineInv => HandlerExists
  BY FlowExists DEF MachineInv
<1> QED
  BY <1>1, <1>2, <1>3, MachineAlways, PTL

\* A program that jams the processor keeps it jammed, whatever pulses the harness puts on its pins
\* and whatever it writes into the memory: only a restart or a jump of the host ends it.
THEOREM MachineStaysJammed == ASSUME "restart" \in Host PROVE ExecutionSpec => JamIsFinal
<1>1. MachineInv => FlowInv
  BY DEF MachineInv
<1> QED
  BY <1>1, JamStep, MachineAlways, ImplementsControl, PTL DEF JamIsFinal, StaysJammed
-----------------------------------------------------------------------------
\* The immediate ADC and SBC of a program that is stepped through one instruction. The harness
\* moves no pin, so the resolver sleeps; the state of the instruction is that of its cycle.
Operand == At(arch.mem, Word(arch.PC + 1))

OpcodeCycle ==
  /\ cpu.microcode = IDX(cpu.model, goto, 1) /\ arch.ticks = 0
  /\ bus.address = arch.PC /\ regs.PC = arch.PC

OperandCycle ==
  cpu.microcode = IDX(cpu.model, At(arch.mem, arch.PC), 1) /\ bus.address = Word(arch.PC + 1)

DecimalCycle ==
  /\ cpu.microcode = IDX(cpu.model, At(arch.mem, arch.PC), 2)
  /\ cpu.model >= 2 /\ "D" \in arch.P /\ regs.data = Operand

Adding ==
  /\ ~cpu.service_mode /\ tick.status # "write" /\ mem = arch.mem
  /\ regs.A = arch.A /\ regs.P = arch.P
  /\ OpcodeCycle \/ OperandCycle \/ DecimalCycle

AddsInv ==
  /\ "kind" \in DOMAIN job
  /\ job.kind = "singlestep" =>
       /\ "phase" \in DOMAIN job
       /\ job.phase = "running" /\ At(arch.mem, arch.PC) \in {105, 233} => Adding

LEMMA TickedData ==
  ASSUME NEW c \in Cpu, NEW r, NEW input, NEW j \in Ticked(c, r, input)
  PROVE  j.step = Data(c, Source(c, input), Fetched(c, r), input)
<1> DEFINE n == Source(c, input)
           s == Start(c, n)
           d == Data(c, n, Fetched(c, r), input)
<1>1. PICK p \in Effect(Store[n], s) : j = [out |-> Finish(c, p), step |-> d]
  BY TickedParts
<1> QED
  BY <1>1

\* Handlers that neither skip nor jump, and with a sleeping resolver the tick after them.
Staying(h, decimal) ==
  \/ h \in {"fetch", "read_pc_inc_prefetch", "read_pc_inc_prefetch_decimal_clear"}
  \/ h = "exec_fetch_or_decimal_dummy" /\ decimal

LEMMA Stays ==
  ASSUME NEW h, NEW c \in Cpu, Staying(h, c.D), NEW p \in Effect(h, c)
  PROVE  p.cpu \in {c, [c EXCEPT !.sampling = TRUE]}
<1>1. p \in {Bus(h, c), Prefetch(Bus(h, c))}
  <2>1. CASE h = "fetch"
    BY <2>1 DEF Effect, PlainReads, PlainWrites, PlainFetches
  <2>2. CASE h = "read_pc_inc_prefetch"
    BY <2>2 DEF Effect, PlainReads, PlainWrites, PlainFetches, PollHandlers
  <2>3. CASE h = "read_pc_inc_prefetch_decimal_clear"
    BY <2>3 DEF Effect, PlainReads, PlainWrites, PlainFetches, PollHandlers, BinaryPollHandlers
  <2>4. CASE h = "exec_fetch_or_decimal_dummy" /\ c.D
    BY <2>4 DEF Effect, PlainReads, PlainWrites, PlainFetches, PollHandlers, BinaryPollHandlers,
                FetchOrDecimalDummy
  <2> QED
    BY <2>1, <2>2, <2>3, <2>4 DEF Staying
<1>2. Bus(h, c).cpu = c /\ Prefetch(Bus(h, c)).cpu = [c EXCEPT !.sampling = TRUE]
  BY DEF Bus, Prefetch
<1> QED
  BY <1>1, <1>2

LEMMA AsleepMovesOn ==
  ASSUME NEW c \in Cpu, ~c.service_mode, NEW r, NEW input, NEW n \in Int, n = Source(c, input),
         Staying(Store[n], c.D), NEW j \in Ticked(c, r, input)
  PROVE  /\ j.out.cpu.microcode = n + 1 /\ j.out.cpu.model = c.model
         /\ ~j.out.cpu.service_mode
<1> DEFINE s == Start(c, n)
<1>1. PICK p \in Effect(Store[n], s) : j.out = Finish(c, p)
  <2>1. PICK p \in Effect(Store[n], s) :
          j = [out |-> Finish(c, p), step |-> Data(c, n, Fetched(c, r), input)]
    BY TickedParts
  <2> QED
    BY <2>1
<1>2. /\ s \in Cpu /\ s.microcode = n /\ s.model = c.model /\ s.D = c.D
      /\ s.service_mode = c.service_mode
  BY StartFields
<1> HIDE DEF s
<1> DEFINE e == [s EXCEPT !.sampling = TRUE]
<1>3. p.cpu \in {s, e}
  BY <1>1, <1>2, Stays
<1>4. e \in Cpu /\ e.microcode = s.microcode /\ e.model = s.model /\ e.service_mode = s.service_mode
  BY <1>2 DEF Cpu
<1> HIDE DEF e
<1>5. p.cpu \in Cpu /\ p.cpu.microcode = n /\ p.cpu.model = c.model /\ ~p.cpu.service_mode
  BY <1>2, <1>3, <1>4
<1>6. p \in Outcome
  BY <1>1, <1>2, EffectGood DEF Good
<1>7. j.out.cpu = Skip(p.cpu, 1)
  BY <1>1, <1>6, AdvanceParts DEF Finish
<1> QED
  BY <1>5, <1>7 DEF Skip, Cpu

-----------------------------------------------------------------------------
\* What the handlers of these instructions do with the data.
LEMMA SumHandlers ==
  ASSUME NEW mn, NEW opcode, NEW model, NEW r, NEW v
  PROVE  /\ Handle("fetch", mn, opcode, model, r, v) = FetchNext(r)
         /\ \A h \in {"read_pc_inc_prefetch", "read_pc_inc_prefetch_decimal_clear"} :
              Handle(h, mn, opcode, model, r, v) = read_pc_inc(r)
         /\ Handle("exec_fetch_or_decimal_dummy", mn, opcode, model, r, v) =
              fetch_or_decimal_dummy(mn, opcode, model, r, v)
         /\ Handle("decimal_fetch", mn, opcode, model, r, v) = FetchNext(CmosDecimal(mn, r, r.data))
         /\ opcode # 137 =>
              Handle("exec_fetch", mn, opcode, model, r, v) = FetchNext(ReadOp(mn, model, r, v))
<1>1. Handle("fetch", mn, opcode, model, r, v) = FetchNext(r)
  BY DEF Handle, ControlHandlers, Control
<1>2. \A h \in {"read_pc_inc_prefetch", "read_pc_inc_prefetch_decimal_clear"} :
        Handle(h, mn, opcode, model, r, v) = read_pc_inc(r)
  BY DEF Handle, ControlHandlers, Control
<1>3. \A h \in {"exec_fetch_or_decimal_dummy", "decimal_fetch", "exec_fetch"} :
        Handle(h, mn, opcode, model, r, v) = Execute(h, mn, opcode, model, r, v)
  BY Tables DEF Handle
<1>4. Execute("exec_fetch_or_decimal_dummy", mn, opcode, model, r, v) =
        fetch_or_decimal_dummy(mn, opcode, model, r, v)
  BY DEF Execute
<1>5. Execute("decimal_fetch", mn, opcode, model, r, v) = FetchNext(CmosDecimal(mn, r, r.data))
  BY DEF Execute
<1>6. opcode # 137 =>
        Execute("exec_fetch", mn, opcode, model, r, v) = FetchNext(ReadOp(mn, model, r, v))
  BY DEF Execute
<1> QED
  BY <1>1, <1>2, <1>3, <1>4, <1>5, <1>6

\* The references of Arithmetic look at A and at flags alone.
LEMMA SameSums ==
  ASSUME NEW a, NEW b, a.A = b.A, a.P = b.P, NEW x, NEW y, x.A = y.A, x.P = y.P, NEW v
  PROVE  /\ BinarySum(a, v, x) => BinarySum(b, v, y)
         /\ BinaryDifference(a, v, x) => BinaryDifference(b, v, y)
         /\ DecimalSum(a, v, x) => DecimalSum(b, v, y)
         /\ DecimalDifference(a, v, x) => DecimalDifference(b, v, y)
         /\ SignAndZero(x) => SignAndZero(y)
         /\ DifferenceFlags(a, v, x) => DifferenceFlags(b, v, y)
         /\ NmosSumFlags(a, v, x) => NmosSumFlags(b, v, y)
         /\ NmosDifferenceFlags(a, v, x) => NmosDifferenceFlags(b, v, y)
<1>1. SignAndZero(x) => SignAndZero(y)
  BY DEF SignAndZero, Has
<1>2. BinarySum(a, v, x) => BinarySum(b, v, y)
  BY DEF BinarySum, SignAndZero, Has
<1>3. BinaryDifference(a, v, x) => BinaryDifference(b, v, y)
  BY DEF BinaryDifference, DifferenceFlags, SignAndZero, Has
<1>4. DecimalSum(a, v, x) => DecimalSum(b, v, y)
  BY DEF DecimalSum, DecimalResult, Has
<1>5. DecimalDifference(a, v, x) => DecimalDifference(b, v, y)
  BY DEF DecimalDifference, DecimalResult, Has
<1>6. DifferenceFlags(a, v, x) => DifferenceFlags(b, v, y)
  BY DEF DifferenceFlags, Has
<1>7. NmosSumFlags(a, v, x) => NmosSumFlags(b, v, y)
  BY DEF NmosSumFlags, Has
<1>8. NmosDifferenceFlags(a, v, x) => NmosDifferenceFlags(b, v, y)
  BY DEF NmosDifferenceFlags, Has
<1> QED
  BY <1>1, <1>2, <1>3, <1>4, <1>5, <1>6, <1>7, <1>8

LEMMA ReadsSum ==
  ASSUME NEW model, NEW r, NEW v
  PROVE  ReadOp("ADC", model, r, v) = Adc(model, r, v) /\ ReadOp("SBC", model, r, v) = Sbc(model, r, v)
<1>1. ReadOp("ADC", model, r, v) = LogicAndArithmetic("ADC", model, r, v)
  BY DEF ReadOp
<1>2. ReadOp("SBC", model, r, v) = LogicAndLoad("SBC", model, r, v)
  BY DEF ReadOp
<1>3. LogicAndArithmetic("ADC", model, r, v) = Adc(model, r, v)
  BY DEF LogicAndArithmetic
<1>4. LogicAndLoad("SBC", model, r, v) = Sbc(model, r, v)
  BY DEF LogicAndLoad
<1> QED
  BY <1>1, <1>2, <1>3, <1>4

\* The operation of opcode o, on registers a, the operand v and registers b after it, as
\* ArithmeticIsExact has it.
Exact(m, o, a, v, b) ==
  LET decimal == "D" \in a.P /\ m # 1
  IN  /\ ~decimal => IF o = 105 THEN BinarySum(a, v, b) ELSE BinaryDifference(a, v, b)
      /\ decimal =>
           /\ o # 105 => DifferenceFlags(a, v, b)
           /\ m >= 2 => SignAndZero(b)
           /\ ~(m >= 2) => IF o = 105 THEN NmosSumFlags(a, v, b) ELSE NmosDifferenceFlags(a, v, b)
      /\ decimal /\ IsDecimal(a.A) /\ IsDecimal(v) =>
           IF o = 105 THEN DecimalSum(a, v, b) ELSE DecimalDifference(a, v, b)

Sum(o) == IF o = 105 THEN "ADC" ELSE "SBC"

LEMMA SameExact ==
  ASSUME NEW m, NEW o, NEW a, NEW b, a.A = b.A, a.P = b.P, NEW x, NEW y, x.A = y.A, x.P = y.P,
         NEW v, Exact(m, o, a, v, x)
  PROVE  Exact(m, o, b, v, y)
<1>1. /\ BinarySum(a, v, x) => BinarySum(b, v, y)
      /\ BinaryDifference(a, v, x) => BinaryDifference(b, v, y)
      /\ DecimalSum(a, v, x) => DecimalSum(b, v, y)
      /\ DecimalDifference(a, v, x) => DecimalDifference(b, v, y)
      /\ SignAndZero(x) => SignAndZero(y)
      /\ DifferenceFlags(a, v, x) => DifferenceFlags(b, v, y)
      /\ NmosSumFlags(a, v, x) => NmosSumFlags(b, v, y)
      /\ NmosDifferenceFlags(a, v, x) => NmosDifferenceFlags(b, v, y)
  BY SameSums
<1> QED
  BY <1>1 DEF Exact

LEMMA BinaryExact ==
  ASSUME NEW m \in 0..4, NEW o, NEW r \in Registers, NEW v \in 0..255, m < 2 \/ "D" \notin r.P
  PROVE  Exact(m, o, r, v, ReadOp(Sum(o), m, r, v))
<1>1. CASE o = 105
  <2> DEFINE q == Adc(m, r, v)
  <2>1. ReadOp(Sum(o), m, r, v) = q
    BY <1>1, ReadsSum, Zenon DEF Sum
  <2>2. /\ "D" \notin r.P \/ m = 1 => BinarySum(r, v, q)
        /\ "D" \in r.P /\ m # 1 => NmosSumFlags(r, v, q)
        /\ "D" \in r.P /\ IsDecimal(r.A) /\ IsDecimal(v) /\ m # 1 => DecimalSum(r, v, q)
    BY AdcIsExact DEF nes_model
  <2> HIDE DEF q
  <2>3. "D" \in r.P => ~(m >= 2)
    BY SMT
  <2> QED
    BY <1>1, <2>1, <2>2, <2>3 DEF Exact
<1>2. CASE o # 105
  <2> DEFINE q == Sbc(m, r, v)
  <2>1. ReadOp(Sum(o), m, r, v) = q
    BY <1>2, ReadsSum, Zenon DEF Sum
  <2>2. /\ "D" \notin r.P \/ m = 1 => BinaryDifference(r, v, q)
        /\ "D" \in r.P /\ m # 1 => DifferenceFlags(r, v, q) /\ NmosDifferenceFlags(r, v, q)
        /\ "D" \in r.P /\ IsDecimal(r.A) /\ IsDecimal(v) /\ m # 1 => DecimalDifference(r, v, q)
    BY SbcIsExact DEF nes_model
  <2> HIDE DEF q
  <2>3. "D" \in r.P => ~(m >= 2)
    BY SMT
  <2> QED
    BY <1>2, <2>1, <2>2, <2>3 DEF Exact
<1> QED
  BY <1>1, <1>2

LEMMA DecimalExact ==
  ASSUME NEW m \in 0..4, m >= 2, NEW o, NEW r \in Registers, NEW v \in 0..255, "D" \in r.P
  PROVE  Exact(m, o, r, v, CmosDecimal(Sum(o), r, v))
<1>1. m # 1
  BY SMT
<1>2. CASE o = 105
  <2> DEFINE q == CmosDecimal("ADC", r, v)
  <2>1. SignAndZero(q) /\ (IsDecimal(r.A) /\ IsDecimal(v) => DecimalSum(r, v, q))
    BY AdcIsExact, Zenon
  <2> HIDE DEF q
  <2>2. Exact(m, o, r, v, q)
    BY <1>1, <1>2, <2>1 DEF Exact
  <2> QED
    BY <1>2, <2>2, Zenon DEF q, Sum
<1>3. CASE o # 105
  <2> DEFINE q == CmosDecimal("SBC", r, v)
  <2>1. /\ DifferenceFlags(r, v, q) /\ SignAndZero(q)
        /\ IsDecimal(r.A) /\ IsDecimal(v) => DecimalDifference(r, v, q)
    BY SbcIsExact, Zenon
  <2> HIDE DEF q
  <2>2. Exact(m, o, r, v, q)
    BY <1>1, <1>3, <2>1 DEF Exact
  <2> QED
    BY <1>3, <2>2, Zenon DEF q, Sum
<1> QED
  BY <1>2, <1>3

\* Out of decimal mode the CMOS handler computes what the others do; in it, it keeps the operand.
LEMMA DummySum ==
  ASSUME NEW m \in 0..4, m >= 2, NEW o, NEW r, "D" \notin r.P, NEW v
  PROVE  fetch_or_decimal_dummy(Sum(o), o, m, r, v) = Skipping(1, FetchNext(ReadOp(Sum(o), m, r, v)))
<1>1. m # nes_model
  BY SMT DEF nes_model
<1>2. /\ ReadOp("ADC", m, r, v) = adc_value(r, v) /\ ReadOp("SBC", m, r, v) = sbc_value(r, v)
  BY <1>1, ReadsSum DEF Adc, Sbc
<1>3. adc_value(r, v) = adc_binary(r, v) /\ sbc_value(r, v) = adc_binary(r, Complement(v))
  BY DEF adc_value, sbc_value
<1>4. fetch_or_decimal_dummy(Sum(o), o, m, r, v) =
        Skipping(1, FetchNext(adc_binary(r, IF Sum(o) = "ADC" THEN v ELSE Complement(v))))
  BY DEF fetch_or_decimal_dummy
<1>5. ReadOp(Sum(o), m, r, v) = adc_binary(r, IF Sum(o) = "ADC" THEN v ELSE Complement(v))
  BY <1>2, <1>3 DEF Sum
<1> QED
  BY <1>4, <1>5

LEMMA DummyReads ==
  ASSUME NEW m, NEW o, NEW r, "D" \in r.P, NEW v
  PROVE  \E a : fetch_or_decimal_dummy(Sum(o), o, m, r, v) = ReadAt([r EXCEPT !.data = v], a)
  BY DEF fetch_or_decimal_dummy

-----------------------------------------------------------------------------
\* The cycles of an instruction in its slot.
LEMMA CycleAt ==
  ASSUME NEW m \in 0..4, NEW o \in 0..255, NEW k \in 0..2
  PROVE  LET n == IDX(m, o, k)
         IN  /\ n \in Int /\ SlotOf(n) = o /\ n + 1 = IDX(m, o, k + 1)
             /\ Named(m, n) = Mnemonic(m, o)
<1> DEFINE n == m * 4096 + o * 8 + k
<1>1. n \in Int /\ n + 1 = m * 4096 + o * 8 + (k + 1)
  BY SMT
<1>2. n \div 8 = m * 512 + o
  BY SMT
<1>3. (m * 512 + o) % 512 = o
  BY SMT
<1>4. IDX(m, o, k) = n /\ IDX(m, o, k + 1) = m * 4096 + o * 8 + (k + 1)
  BY DEF IDX
<1> HIDE DEF n
<1>5. SlotOf(n) = o
  BY <1>2, <1>3 DEF SlotOf
<1>6. o < 256
  BY SMT
<1> QED
  BY <1>1, <1>4, <1>5, <1>6 DEF Named

\* A step of the harness: the tick, what the program sees of it, and the end of the instruction
\* at the next fetch.
LEMMA HarnessStep ==
  ASSUME MachineInv, "kind" \in DOMAIN job, "phase" \in DOMAIN job, SingleStepTick
  PROVE  /\ job'.kind = "singlestep" /\ "kind" \in DOMAIN job' /\ "phase" \in DOMAIN job'
         /\ \E j \in Ticked(cpu, regs, SingleStepInput) :
              /\ Shows(j) /\ mem' = WrittenMemory /\ arch' = Observed(j, WrittenMemory)
              /\ tick'.status = j.step.status
              /\ j.step.status = "fetch" => job'.phase # "running"
<1>1. job' = [job EXCEPT !.cycle_index = job.cycle_index + 1,
                        !.phase = Stopped(job.cycle_index + 1, tick'.status)]
      /\ job.kind = "singlestep"
  BY DEF SingleStepTick
<1> DEFINE y == Stopped(job.cycle_index + 1, tick'.status)
<1>2. tick'.status = "fetch" => y # "running"
  BY DEF Stopped
<1> HIDE DEF y
<1>3. job'.phase = y /\ job'.kind = "singlestep" /\ "kind" \in DOMAIN job' /\ "phase" \in DOMAIN job'
  BY <1>1 DEF y
<1>4. PICK j \in Ticked(cpu, regs, SingleStepInput) :
        Shows(j) /\ mem' = WrittenMemory /\ arch' = Observed(j, WrittenMemory)
  BY DEF SingleStepTick, Step
<1>5. cpu \in Cpu /\ cpu.microcode \in Live /\ ModelOf(cpu.microcode) = cpu.model /\ regs \in Registers
  BY DEF MachineInv, FlowInv, SoundInv, Sound, Flowing, Windowed
<1>6. j.out.tick.status = j.step.status
  BY <1>5, Inputs, TickedFits
<1>7. tick'.status = j.step.status
  BY <1>4, <1>6 DEF Shows
<1> QED
  BY <1>2, <1>3, <1>4, <1>7

LEMMA StillCounting ==
  ASSUME IsArch(arch), NEW j, NEW m, j.step.status # "fetch" \/ j.step.reset,
         arch' = Observed(j, m)
  PROVE  arch'.PC = arch.PC /\ arch'.A = arch.A /\ arch'.P = arch.P /\ arch'.mem = arch.mem
<1>1. arch' = Counted(arch)
  BY DEF Observed
<1> QED
  BY <1>1 DEF IsArch, Counted

\* The cycle that ends the instruction.
LEMMA EndsSum ==
  ASSUME IsArch(arch), regs.A = arch.A, regs.P = arch.P, NEW j, NEW m, arch' = Observed(j, m),
         j.step.status = "fetch", ~j.step.reset,
         Exact(cpu.model, At(arch.mem, arch.PC), regs, Operand, j.step.regs)
  PROVE  Calculates
<1>1. arch' = Seen(j.step.regs, m, Counted(arch).ticks)
  BY DEF Observed
<1>2. arch'.A = j.step.regs.A /\ arch'.P = j.step.regs.P
  BY <1>1 DEF Seen
<1>3. Exact(cpu.model, At(arch.mem, arch.PC), arch, Operand, arch')
  BY <1>2, SameExact
<1> QED
  BY <1>3 DEF Exact, Calculates, Operand, Word

\* Any other instruction.
LEMMA OthersStep ==
  ASSUME MachineInv, AddsInv, SingleStepTick, At(arch.mem, arch.PC) \notin {105, 233}
  PROVE  AddsInv' /\ ~Completes({105, 233})
<1>1. "kind" \in DOMAIN job /\ "phase" \in DOMAIN job
  BY DEF AddsInv, SingleStepTick
<1>2. /\ job'.kind = "singlestep" /\ "kind" \in DOMAIN job' /\ "phase" \in DOMAIN job'
      /\ \E j \in Ticked(cpu, regs, SingleStepInput) :
           /\ arch' = Observed(j, WrittenMemory)
           /\ j.step.status = "fetch" => job'.phase # "running"
  BY <1>1, HarnessStep
<1>3. PICK j \in Ticked(cpu, regs, SingleStepInput) :
        /\ arch' = Observed(j, WrittenMemory)
        /\ j.step.status = "fetch" => job'.phase # "running"
  BY <1>2
<1>4. CASE j.step.status = "fetch"
  BY <1>2, <1>3, <1>4 DEF AddsInv, Completes
<1>5. CASE j.step.status # "fetch"
  <2>1. arch'.PC = arch.PC /\ arch'.mem = arch.mem
    BY <1>3, <1>5, StillCounting DEF MachineInv
  <2> QED
    BY <1>2, <2>1 DEF AddsInv, Completes
<1> QED
  BY <1>4, <1>5

\* From cycle to cycle.
Summing(o) ==
  /\ MachineInv /\ Adding /\ o = At(arch.mem, arch.PC) /\ o \in {105, 233}

LEMMA SummingFacts ==
  ASSUME NEW o, Summing(o)
  PROVE  /\ cpu \in Cpu /\ cpu.model \in 0..4 /\ o \in 0..255 /\ o \in Opcodes
         /\ regs \in Registers /\ (cpu.D <=> "D" \in regs.P) /\ IsArch(arch)
         /\ Operand \in 0..255 /\ WrittenMemory = arch.mem
         /\ SingleStepInput = At(arch.mem, bus.address)
         /\ Mnemonic(cpu.model, o) = Sum(o) /\ cpu.model \in Models
<1>1. cpu \in Cpu /\ cpu.model \in Models
  BY DEF Summing, MachineInv, FlowInv, SoundInv, Sound, Cpu
<1>2. cpu.model \in 0..4 /\ Mnemonic(cpu.model, o) = Sum(o)
  BY <1>1, SumsInPlace DEF Summing, Sum
<1>3. o \in 0..255 /\ o \in Opcodes
  BY AnyOpcode, SMT DEF Summing
<1>4. regs \in Registers /\ (cpu.D <=> "D" \in regs.P) /\ IsArch(arch)
  BY DEF Summing, MachineInv, Coupled
<1>5. Operand \in Bytes
  BY <1>4, AtByte DEF Operand, IsArch, IsMemory
<1>6. WrittenMemory = arch.mem /\ SingleStepInput = At(arch.mem, bus.address)
  BY DEF Summing, Adding, WrittenMemory, SingleStepInput
<1>7. Operand \in 0..255
  BY <1>5 DEF Bytes
<1> QED
  BY <1>1, <1>2, <1>3, <1>4, <1>6, <1>7

LEMMA OpcodeTick ==
  ASSUME NEW o, Summing(o), OpcodeCycle, NEW j \in Ticked(cpu, regs, SingleStepInput)
  PROVE  /\ j.step.status = "read" /\ j.step.address = Word(arch.PC + 1)
         /\ j.step.regs.A = arch.A /\ j.step.regs.P = arch.P
         /\ j.out.cpu.model = cpu.model /\ ~j.out.cpu.service_mode
         /\ j.out.cpu.microcode = IDX(cpu.model, o, 1)
<1> DEFINE m == cpu.model
           n == IDX(m, o, 0)
           h == Store[n]
           q == Fetched(cpu, regs)
<1>1. /\ cpu \in Cpu /\ m \in 0..4 /\ o \in 0..255 /\ regs \in Registers /\ m \in Models
      /\ SingleStepInput = At(arch.mem, bus.address)
  BY SummingFacts
<1>2. SingleStepInput = o /\ ~cpu.service_mode
  BY <1>1 DEF Summing, OpcodeCycle, Adding
<1>3. Store[cpu.microcode] = "dispatch"
  BY <1>1, SumsInPlace DEF OpcodeCycle
<1>4. Source(cpu, o) = n /\ q = [regs EXCEPT !.PC = Word(@ + 1)]
  BY <1>3, Zenon DEF Source, Fetched
<1>5. n \in Int /\ n + 1 = IDX(m, o, 1)
  <2>1. 0 \in 0..2 /\ 0 + 1 = 1
    BY SMT
  <2>2. n \in Int /\ n + 1 = IDX(m, o, 0 + 1)
    BY <1>1, <2>1, CycleAt
  <2> QED
    BY <2>1, <2>2
<1>6. h \in {"read_pc_inc_prefetch", "read_pc_inc_prefetch_decimal_clear"}
  <2>1. m < 2 \/ m >= 2
    BY <1>1, SMT
  <2> QED
    BY <1>1, <2>1, SumsInPlace DEF Summing
<1>7. j.step = Data(cpu, n, q, o)
  BY <1>1, <1>2, <1>4, TickedData
<1>8. q.PC = Word(arch.PC + 1) /\ q.A = arch.A /\ q.P = arch.P
  BY <1>1, <1>4 DEF OpcodeCycle, Summing, Adding, Registers
<1> HIDE DEF n, q
<1>9. j.step = read_pc_inc(q)
  BY <1>6, <1>7, SumHandlers DEF Data
<1>10. /\ j.step.status = "read" /\ j.step.address = q.PC /\ j.step.regs.A = q.A
       /\ j.step.regs.P = q.P
  <2>1. q \in Registers
    BY <1>1, FetchedRegisters DEF q
  <2> QED
    BY <1>9, <2>1 DEF read_pc_inc, ReadAt, BusCycle, Registers
<1>11. Staying(h, cpu.D)
  BY <1>6 DEF Staying
<1>12. /\ j.out.cpu.microcode = n + 1 /\ j.out.cpu.model = m /\ ~j.out.cpu.service_mode
  BY <1>1, <1>2, <1>4, <1>5, <1>11, AsleepMovesOn
<1> QED
  BY <1>5, <1>8, <1>10, <1>12

\* The cycles after the first run the handler their index names.
LEMMA LaterCycle ==
  ASSUME NEW o, Summing(o), NEW k \in {1, 2}, cpu.microcode = IDX(cpu.model, o, k),
         Store[cpu.microcode] # "dispatch", NEW j \in Ticked(cpu, regs, SingleStepInput)
  PROVE  /\ cpu.microcode \in Int /\ cpu.microcode + 1 = IDX(cpu.model, o, k + 1)
         /\ Source(cpu, SingleStepInput) = cpu.microcode
         /\ j.step = Handle(Store[cpu.microcode], Sum(o), o, cpu.model, regs, SingleStepInput)
<1> DEFINE n == IDX(cpu.model, o, k)
<1>1. /\ cpu \in Cpu /\ cpu.model \in 0..4 /\ o \in 0..255 /\ Mnemonic(cpu.model, o) = Sum(o)
  BY SummingFacts
<1>2. k \in 0..2
  BY SMT
<1>3. /\ n \in Int /\ SlotOf(n) = o /\ n + 1 = IDX(cpu.model, o, k + 1)
      /\ Named(cpu.model, n) = Mnemonic(cpu.model, o)
  BY <1>1, <1>2, CycleAt
<1> HIDE DEF n
<1>4. Source(cpu, SingleStepInput) = n /\ Fetched(cpu, regs) = regs /\ cpu.microcode = n
  BY DEF Source, Fetched, n
<1>5. j.step = Data(cpu, n, regs, SingleStepInput)
  BY <1>1, <1>4, TickedData
<1>6. j.step = Handle(Store[n], Sum(o), o, cpu.model, regs, SingleStepInput)
  BY <1>1, <1>3, <1>5 DEF Data
<1> QED
  BY <1>3, <1>4, <1>6

\* The instruction ends with the registers its arithmetic calls for.
Done(o, j) ==
  j.step.status = "fetch" /\ ~j.step.reset /\ Exact(cpu.model, o, regs, Operand, j.step.regs)

LEMMA OperandTick ==
  ASSUME NEW o, Summing(o), OperandCycle, NEW j \in Ticked(cpu, regs, SingleStepInput)
  PROVE  \/ Done(o, j)
         \/ /\ j.step.status = "read" /\ cpu.model >= 2 /\ "D" \in arch.P
            /\ j.step.regs.A = arch.A /\ j.step.regs.P = arch.P /\ j.step.regs.data = Operand
            /\ j.out.cpu.model = cpu.model /\ ~j.out.cpu.service_mode
            /\ j.out.cpu.microcode = IDX(cpu.model, o, 2)
<1> DEFINE m == cpu.model
           h == Store[cpu.microcode]
           v == Operand
           e == ReadOp(Sum(o), m, regs, v)
<1>1. /\ cpu \in Cpu /\ m \in 0..4 /\ o \in 0..255 /\ m \in Models /\ v \in 0..255
      /\ regs \in Registers /\ (cpu.D <=> "D" \in regs.P)
  BY SummingFacts
<1>2. SingleStepInput = v
  BY SummingFacts DEF OperandCycle, Operand
<1>3. /\ cpu.microcode = IDX(m, o, 1) /\ ~cpu.service_mode
      /\ regs.A = arch.A /\ regs.P = arch.P /\ o \in {105, 233}
  BY DEF OperandCycle, Summing, Adding
<1>4. /\ m < 2 => h = "exec_fetch"
      /\ m >= 2 => h = "exec_fetch_or_decimal_dummy"
  BY <1>1, <1>3, SumsInPlace
<1>5. m < 2 \/ m >= 2
  BY <1>1, SMT
<1>6. h # "dispatch"
  BY <1>4, <1>5
<1>7. /\ cpu.microcode \in Int /\ cpu.microcode + 1 = IDX(m, o, 2)
      /\ Source(cpu, SingleStepInput) = cpu.microcode
      /\ j.step = Handle(h, Sum(o), o, m, regs, v)
  BY <1>2, <1>3, <1>6, LaterCycle
<1>8. o # 137
  BY <1>3
<1> HIDE DEF v, m, h
<1>9. CASE m < 2
  <2>1. j.step = FetchNext(e)
    BY <1>4, <1>7, <1>8, <1>9, SumHandlers
  <2>2. Exact(m, o, regs, v, e)
    BY <1>1, <1>9, BinaryExact
  <2> HIDE DEF e
  <2>3. j.step.status = "fetch" /\ ~j.step.reset /\ j.step.regs = e
    BY <2>1 DEF FetchNext, BusCycle
  <2> QED
    BY <2>2, <2>3 DEF Done, v, m
<1>10. CASE m >= 2 /\ "D" \notin regs.P
  <2>1. j.step = fetch_or_decimal_dummy(Sum(o), o, m, regs, v)
    BY <1>4, <1>7, <1>10, SumHandlers
  <2>2. fetch_or_decimal_dummy(Sum(o), o, m, regs, v) = Skipping(1, FetchNext(e))
    BY <1>1, <1>10, DummySum
  <2>3. Exact(m, o, regs, v, e)
    BY <1>1, <1>10, BinaryExact
  <2> HIDE DEF e
  <2>4. j.step.status = "fetch" /\ ~j.step.reset /\ j.step.regs = e
    BY <2>1, <2>2 DEF Skipping, FetchNext, BusCycle
  <2> QED
    BY <2>3, <2>4 DEF Done, v, m
<1>11. CASE m >= 2 /\ "D" \in regs.P
  <2>1. j.step = fetch_or_decimal_dummy(Sum(o), o, m, regs, v)
    BY <1>4, <1>7, <1>11, SumHandlers
  <2>2. PICK a : j.step = ReadAt([regs EXCEPT !.data = v], a)
    BY <1>11, <2>1, DummyReads
  <2>3. /\ j.step.status = "read" /\ j.step.regs.A = regs.A /\ j.step.regs.P = regs.P
        /\ j.step.regs.data = v
    BY <1>1, <2>2 DEF ReadAt, BusCycle, Registers
  <2>4. Staying(Store[cpu.microcode], cpu.D)
    BY <1>1, <1>4, <1>11 DEF Staying, h
  <2>5. /\ j.out.cpu.microcode = cpu.microcode + 1 /\ j.out.cpu.model = cpu.model
        /\ ~j.out.cpu.service_mode
    BY <1>1, <1>3, <1>7, <2>4, AsleepMovesOn
  <2> QED
    BY <1>3, <1>7, <1>11, <2>3, <2>5 DEF v, m
<1> QED
  BY <1>5, <1>9, <1>10, <1>11

LEMMA DecimalTick ==
  ASSUME NEW o, Summing(o), DecimalCycle, NEW j \in Ticked(cpu, regs, SingleStepInput)
  PROVE  Done(o, j)
<1> DEFINE m == cpu.model
           h == Store[cpu.microcode]
           v == Operand
           e == CmosDecimal(Sum(o), regs, v)
<1>1. m \in 0..4 /\ m \in Models /\ v \in 0..255 /\ regs \in Registers
  BY SummingFacts
<1>2. /\ cpu.microcode = IDX(m, o, 2) /\ m >= 2 /\ regs.data = v /\ "D" \in regs.P
      /\ o \in {105, 233}
  BY DEF DecimalCycle, Summing, Adding
<1>3. h = "decimal_fetch"
  BY <1>1, <1>2, SumsInPlace
<1>4. j.step = Handle(h, Sum(o), o, m, regs, SingleStepInput)
  BY <1>2, <1>3, LaterCycle
<1>5. j.step = FetchNext(CmosDecimal(Sum(o), regs, regs.data))
  BY <1>3, <1>4, SumHandlers
<1>6. j.step = FetchNext(e)
  BY <1>2, <1>5
<1> HIDE DEF m, h, v
<1>7. Exact(m, o, regs, v, e)
  <2>1. m \in 0..4 /\ m >= 2 /\ v \in 0..255 /\ regs \in Registers /\ "D" \in regs.P
    BY <1>1, <1>2
  <2> QED  BY <2>1, DecimalExact
<1> HIDE DEF e
<1>8. j.step.status = "fetch" /\ ~j.step.reset /\ j.step.regs = e
  BY <1>6 DEF FetchNext, BusCycle
<1> QED
  BY <1>7, <1>8 DEF Done, m, v

\* A step of the harness on an immediate ADC or SBC.
LEMMA SumStep ==
  ASSUME MachineInv, AddsInv, SingleStepTick, At(arch.mem, arch.PC) \in {105, 233}
  PROVE  AddsInv' /\ (Completes({105, 233}) => Calculates)
<1> DEFINE o == At(arch.mem, arch.PC)
<1>1. "kind" \in DOMAIN job /\ "phase" \in DOMAIN job /\ Adding
  BY DEF AddsInv, SingleStepTick
<1>2. Summing(o)
  BY <1>1 DEF Summing
<1>3. /\ job'.kind = "singlestep" /\ "kind" \in DOMAIN job' /\ "phase" \in DOMAIN job'
      /\ \E j \in Ticked(cpu, regs, SingleStepInput) :
           /\ Shows(j) /\ mem' = WrittenMemory /\ arch' = Observed(j, WrittenMemory)
           /\ tick'.status = j.step.status
           /\ j.step.status = "fetch" => job'.phase # "running"
  BY <1>1, HarnessStep
<1>4. PICK j \in Ticked(cpu, regs, SingleStepInput) :
        /\ Shows(j) /\ mem' = WrittenMemory /\ arch' = Observed(j, WrittenMemory)
        /\ tick'.status = j.step.status
        /\ j.step.status = "fetch" => job'.phase # "running"
  BY <1>3
<1>5. IsArch(arch) /\ WrittenMemory = arch.mem /\ regs.A = arch.A /\ regs.P = arch.P
  BY <1>1, <1>2, SummingFacts DEF Adding
<1>6. /\ cpu' = j.out.cpu /\ regs' = j.step.regs /\ bus'.address = j.step.address
  BY <1>4 DEF Shows
<1>7. j.step.status = "read" =>
        /\ arch'.PC = arch.PC /\ arch'.A = arch.A /\ arch'.P = arch.P /\ arch'.mem = arch.mem
        /\ mem' = arch'.mem /\ tick'.status # "write"
  BY <1>4, <1>5, StillCounting
<1> HIDE DEF o
<1>8. CASE OpcodeCycle
  <2>1. /\ j.step.status = "read" /\ j.step.address = Word(arch.PC + 1)
        /\ j.step.regs.A = arch.A /\ j.step.regs.P = arch.P
        /\ j.out.cpu.model = cpu.model /\ ~j.out.cpu.service_mode
        /\ j.out.cpu.microcode = IDX(cpu.model, o, 1)
    BY <1>2, <1>8, OpcodeTick
  <2>2. OperandCycle'
    BY <1>6, <1>7, <2>1 DEF OperandCycle, o
  <2>3. Adding'
    BY <1>6, <1>7, <2>1, <2>2 DEF Adding
  <2>4. ~Completes({105, 233})
    BY <1>8 DEF OpcodeCycle, Completes
  <2> QED
    BY <1>3, <2>3, <2>4 DEF AddsInv
<1>9. ASSUME Done(o, j) PROVE AddsInv' /\ Calculates
  <2>1. Calculates
    BY <1>4, <1>5, <1>9, EndsSum DEF Done, o
  <2> QED
    BY <1>3, <1>4, <1>9, <2>1 DEF AddsInv, Done
<1>10. CASE OperandCycle
  <2>1. CASE Done(o, j)
    BY <1>9, <2>1
  <2>2. CASE /\ j.step.status = "read" /\ cpu.model >= 2 /\ "D" \in arch.P
             /\ j.step.regs.A = arch.A /\ j.step.regs.P = arch.P /\ j.step.regs.data = Operand
             /\ j.out.cpu.model = cpu.model /\ ~j.out.cpu.service_mode
             /\ j.out.cpu.microcode = IDX(cpu.model, o, 2)
    <3>1. DecimalCycle'
      BY <1>6, <1>7, <2>2 DEF DecimalCycle, Operand, o
    <3>2. Adding'
      BY <1>6, <1>7, <2>2, <3>1 DEF Adding
    <3>3. arch'.ticks # 0
      <4>1. arch' = Counted(arch)
        BY <1>4, <2>2 DEF Observed
      <4> QED
        BY <1>5, <4>1 DEF Counted, IsArch, TicksBound
    <3> QED
      BY <1>3, <3>2, <3>3 DEF AddsInv, Completes
  <2> QED
    BY <1>2, <1>10, <2>1, <2>2, OperandTick
<1>11. CASE DecimalCycle
  BY <1>2, <1>9, <1>11, DecimalTick
<1> QED
  BY <1>1, <1>8, <1>10, <1>11 DEF Adding

\* The other host.
LEMMA LockstepKeepsKind ==
  ASSUME JobInv, LockstepNext
  PROVE  job.kind = "lockstep" /\ job'.kind = "lockstep" /\ "kind" \in DOMAIN job'
<1>1. "kind" \in DOMAIN job
  BY DEF JobInv
<1>2. CASE RestartLoop \/ StepToNextFetch \/ StepToBootstrap \/ StepToStart \/ StepToSafeFetch
             \/ ScriptStep
  BY <1>1, <1>2 DEF RestartLoop, StepToNextFetch, StepToBootstrap, StepToStart, StepToSafeFetch,
                    ScriptStep, In, Phase, Stepped
<1>3. CASE InstallUserTestcase \/ HardRestart \/ SetupAgain
  BY <1>1, <1>3 DEF InstallUserTestcase, HardRestart, SoftSetupFails, SetupAgain, In, Phase
<1>4. CASE RestartRun
  <2>1. PICK p : job' = [job EXCEPT !.scenario = p, !.phase = "irq low", !.hard = FALSE, !.steps = 0,
                                   !.pin = "before", !.fetches = 0]
    BY <1>4 DEF RestartRun
  <2>2. job.kind = "lockstep"
    BY <1>4 DEF RestartRun, Idle, In
  <2> QED
    BY <1>1, <2>1, <2>2
<1>5. CASE LowerIrq \/ RaiseNmi \/ AssertPin \/ DeassertPin \/ ReachStart \/ ComparisonFails
  BY <1>1, <1>5 DEF LowerIrq, RaiseNmi, AssertPin, DeassertPin, ReachStart, ComparisonFails, In, Phase
<1> QED
  BY <1>2, <1>3, <1>4, <1>5 DEF LockstepNext

LEMMA InitAdds == ExecutionInit => AddsInv
<1> SUFFICES ASSUME ExecutionInit PROVE AddsInv
  OBVIOUS
<1>1. CASE LockstepInit
  BY <1>1 DEF LockstepInit, AddsInv
<1>2. CASE SingleStepInit
  <2>1. PICK case \in Cases :
          LET c == set_initial_state(case.model, case.regs)
              r == case.regs @@ StartRegs
          IN  \E j \in Ticked(EnterServiceSlot(c, goto, 0), r, 0) :
                /\ cpu = j.out.cpu /\ tick = j.out.tick /\ regs = j.step.regs
                /\ bus = [address |-> j.step.address, data |-> j.step.data, reset |-> FALSE]
                /\ mem = Patch([a \in {} |-> 0], case.ram)
                /\ arch = Seen(j.step.regs, mem, 0)
                /\ job = [ kind |-> "singlestep", phase |-> "running", cycle_index |-> 0,
                           kil |-> is_nmos_kil_opcode(case.model, At(mem, case.regs.PC)) ]
    BY <1>2 DEF SingleStepInit
  <2> DEFINE m == case.model
             i == IDX(m, goto, 0)
             c == EnterServiceSlot(set_initial_state(m, case.regs), goto, 0)
             r == case.regs @@ StartRegs
  <2>2. PICK j \in Ticked(c, r, 0) :
          /\ cpu = j.out.cpu /\ tick = j.out.tick /\ regs = j.step.regs
          /\ bus = [address |-> j.step.address, data |-> j.step.data, reset |-> FALSE]
          /\ arch = Seen(j.step.regs, mem, 0)
          /\ job = [ kind |-> "singlestep", phase |-> "running", cycle_index |-> 0,
                     kil |-> is_nmos_kil_opcode(m, At(mem, case.regs.PC)) ]
    BY <2>1
  <2>3. m \in Models /\ r \in Registers
    BY CasesFit
  <2>4. Sound(c) /\ Windowed(c)
    BY <2>3, JumpReady
  <2>5. c.model = m /\ c.microcode = i /\ ~c.service_mode /\ c \in Cpu
    BY <2>4 DEF Sound, EnterServiceSlot, set_initial_state, Setup
  <2>6. Store[i] = "fetch" /\ m \in Nat
    BY <2>3, SumsInPlace, IndexAssumption
  <2>7. i \in Int /\ i + 1 = IDX(m, goto, 1)
    BY <2>6 DEF IDX, goto
  <2> HIDE DEF c, r, i
  <2>8. Source(c, 0) = i /\ Fetched(c, r) = r
    BY <2>5, <2>6, Zenon DEF Source, Fetched
  <2>9. Staying(Store[i], c.D)
    BY <2>6 DEF Staying
  <2>10. j.out.cpu.microcode = i + 1 /\ j.out.cpu.model = m /\ ~j.out.cpu.service_mode
    BY <2>5, <2>7, <2>8, <2>9, AsleepMovesOn
  <2>11. j.step = FetchNext(r)
    <3>1. j.step = Data(c, i, r, 0)
      BY <2>5, <2>8, TickedData
    <3> QED
      BY <2>6, <3>1, SumHandlers DEF Data
  <2>12. j.step.regs = r /\ j.step.address = r.PC /\ j.step.status = "fetch"
    BY <2>11 DEF FetchNext, BusCycle
  <2>13. tick.status = "fetch"
    <3>1. ModelOf(c.microcode) = c.model /\ c.microcode \in Live
      BY <2>4, <2>5, <2>3, JumpReady DEF Windowed, Flowing, c
    <3>2. 0 \in Opcodes
      BY AnyOpcode, SMT
    <3> QED
      BY <2>2, <2>3, <2>5, <2>12, <3>1, <3>2, TickedFits
  <2>14. arch.mem = mem /\ arch.A = regs.A /\ arch.P = regs.P /\ arch.PC = r.PC /\ arch.ticks = 0
         /\ regs.PC = r.PC /\ bus.address = r.PC
    BY <2>2, <2>12 DEF Seen
  <2>15. OpcodeCycle
    BY <2>2, <2>7, <2>10, <2>14 DEF OpcodeCycle
  <2>16. Adding
    BY <2>2, <2>10, <2>13, <2>14, <2>15 DEF Adding
  <2> QED
    BY <2>2, <2>16 DEF AddsInv
<1> QED
  BY <1>1, <1>2 DEF ExecutionInit

\* The immediate ADC and SBC that a program executes compute sums and differences, binary or
\* decimal, for all registers and operands and on every model: from the fetch of the opcode to the
\* fetch of the next one, through the control store, the handlers and the bus.
THEOREM ArithmeticExactAlways == ExecutionSpec => ArithmeticIsExact
<1> DEFINE Inv == MachineInv /\ JobInv
           Adds == job.kind = "singlestep" /\ Completes({105, 233}) => Calculates
<1>1. ExecutionInit => AddsInv
  BY InitAdds
<1>2. Inv /\ AddsInv /\ [ExecutionNext]_<<machine, job>> => AddsInv' /\ [Adds]_<<machine, job>>
  <2> SUFFICES ASSUME Inv, AddsInv, [ExecutionNext]_<<machine, job>>
               PROVE  AddsInv' /\ [Adds]_<<machine, job>>
    OBVIOUS
  <2>1. CASE SingleStepTick
    <3>1. CASE At(arch.mem, arch.PC) \in {105, 233}
      BY <2>1, <3>1, SumStep
    <3>2. CASE At(arch.mem, arch.PC) \notin {105, 233}
      BY <2>1, <3>2, OthersStep
    <3> QED
      BY <3>1, <3>2
  <2>2. CASE LockstepNext
    BY <2>2, LockstepKeepsKind DEF AddsInv
  <2>3. CASE UNCHANGED <<machine, job>>
    BY <2>3 DEF machine, AddsInv, Adding, OpcodeCycle, OperandCycle, DecimalCycle, Operand
  <2> QED
    BY <2>1, <2>2, <2>3 DEF ExecutionNext
<1> HIDE DEF Adds
<1>3. Inv /\ AddsInv /\ [ExecutionNext]_<<machine, job>> => AddsInv'
  BY <1>2
<1>4. ExecutionSpec => []AddsInv
  BY <1>1, <1>3, MachineAlways, PTL DEF ExecutionSpec
<1>5. Inv /\ AddsInv /\ [ExecutionNext]_<<machine, job>> => [Adds]_<<machine, job>>
  BY <1>2
<1>6. ExecutionSpec => [][Adds]_<<machine, job>>
  BY <1>4, <1>5, MachineAlways, PTL DEF ExecutionSpec
<1> QED
  BY <1>6 DEF ArithmeticIsExact, Adds
=============================================================================
