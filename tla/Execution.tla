------------------------------ MODULE Execution ------------------------------
(***************************************************************************)
(* Programs run on the processor by the hosts of the repository: one       *)
(* instruction at a time, and in the scenarios of the pulse sweep.         *)
(***************************************************************************)
EXTENDS SingleStep, Lockstep, Arithmetic

ExecutionInit == SingleStepInit \/ LockstepInit
ExecutionNext == SingleStepTick \/ LockstepNext
ExecutionSpec == ExecutionInit /\ [][ExecutionNext]_<<machine, job>>

\* A harness is through with its instruction, or with all scenarios of its program; or it gives up,
\* at the limit of its cycles or of a setup.
Completed ==
  IF job.kind = "singlestep" THEN job.phase = "done"
  ELSE Idle /\ Later(job.program, job.scenario) = {}

GivesUp == (job.kind = "singlestep" /\ job.phase = "limit exceeded") \/ ~SetupSucceeds

HarnessRuns  == ~Completed /\ ~GivesUp
HarnessRests == ~HarnessRuns /\ UNCHANGED <<machine, job>>

\* A harness is one sequential loop: while there is something left to do it goes on. This is weak
\* fairness of ExecutionNext: TLC cannot evaluate ENABLED of a tick in reasonable time, but a step is
\* possible exactly as long as HarnessRuns (a state without one that HarnessRests does not excuse is
\* a deadlock), and it changes the state (each tick counts in arch).
HarnessGoesOn == []<>~HarnessRuns \/ []<><<ExecutionNext>>_<<machine, job>>

HarnessSpec ==
  ExecutionInit /\ [][ExecutionNext \/ HarnessRests]_<<machine, job>> /\ HarnessGoesOn

Input == IF job.kind = "singlestep" THEN SingleStepInput ELSE LockstepInput

-----------------------------------------------------------------------------
\* Bytes at addresses, as a patch or as the memory, which leaves the zeros out.
IsPatch(p)  == \A a \in DOMAIN p : a \in Words /\ p[a] \in Bytes
IsMemory(m) == IsPatch(m) /\ \A a \in DOMAIN m : m[a] # 0

Arch == [ PC : Words, S : Bytes, A : Bytes, X : Bytes, Y : Bytes, P : SUBSET Flag,
          phase : {"running", "disturbed", "resetting"}, ticks : 0..TicksBound,
          took : 0..TicksBound ]

\* Widths: registers, latches, bus and memory stay within their bits.
ETypeOK ==
  /\ TypeOK
  /\ regs \in Registers
  /\ bus \in [address : Words, data : Bytes, reset : BOOLEAN]
  /\ IsMemory(mem) /\ IsMemory(arch.mem)
  /\ [f \in DOMAIN arch \ {"mem"} |-> arch[f]] \in Arch

\* What a write cycle is given on the bus has no effect: one host gives it the byte written, the
\* other the byte that was in the memory before.
WriteIgnoresBus ==
  tick.status = "write" =>
    \A input \in {0, 255} : Ticked(cpu, regs, input) = Ticked(cpu, regs, Input)

\* The processor implements the instruction set: whatever the microcode does in between, from
\* fetch to fetch it is one instruction, one interrupt or one reset of module InstructionSet, in
\* as many ticks as that says.
Visible == [f \in DOMAIN arch \ {"ticks"} |-> arch[f]]

ISA == INSTANCE InstructionSet WITH model <- cpu.model, arch <- Visible

ImplementsInstructionSet == ISA!Spec

-----------------------------------------------------------------------------
\* ADC and SBC against arithmetic.
Completes(opcodes) == arch.ticks # 0 /\ arch'.ticks = 0 /\ At(arch.mem, arch.PC) \in opcodes

\* The immediate ADC and SBC compute sums and differences, of bytes or of two decimal digits; the
\* NES model has no decimal mode. Decimal mode sets its flags for all operands, digits or not: on
\* the CMOS models N and Z describe the result, on the NMOS models Z, and of a difference N, the
\* bytes; C and V of a difference are those of the bytes on both.
Calculates ==
  LET v       == At(arch.mem, (arch.PC + 1) % 65536)
      adds    == At(arch.mem, arch.PC) = 105
      decimal == "D" \in arch.P /\ cpu.model # 1
      cmos    == cpu.model >= 2
  IN  /\ ~decimal => IF adds THEN BinarySum(arch, v, arch') ELSE BinaryDifference(arch, v, arch')
      /\ decimal =>
           /\ ~adds => DifferenceFlags(arch, v, arch')
           /\ cmos => SignAndZero(arch')
           /\ ~cmos => IF adds THEN NmosSumFlags(arch, v, arch')
                               ELSE NmosDifferenceFlags(arch, v, arch')
      /\ decimal /\ IsDecimal(arch.A) /\ IsDecimal(v) =>
           IF adds THEN DecimalSum(arch, v, arch') ELSE DecimalDifference(arch, v, arch')

ArithmeticIsExact ==
  [][job.kind = "singlestep" /\ Completes({105, 233}) => Calculates]_<<machine, job>>

-----------------------------------------------------------------------------
\* Every run of a harness comes to its end: each opcode of each model to its next fetch, and each
\* sweep to its last scenario, whatever the scenarios before left behind. The loop that waits for the
\* end of an internal reset has no limit in the code and relies on the core; the others have one,
\* and a setup that reaches its limit is tried again once.
EveryRunEnds == <>Completed

\* Until its pin moves, a test program goes from its instruction to its trap.
ReachesTrap ==
  In("script") /\ job.pin = "before" /\ job.fetches = 1 /\ tick.status = "fetch" =>
    bus.address = job.program.trap

\* Every scenario starts from the registers and the bytes of its test program, with the pins low
\* and no interrupt latched or chosen, whatever the scenarios before it left in the backend: a
\* processor that is jammed, an instruction half done, an asserted pin, a corrupted program.
CleanStart ==
  In("script") /\ job.steps = 0 /\ job.pin = "before" =>
    /\ job.program.error = "none"
    /\ job.program.program[job.program.start_at] = job.program.opcode
    /\ AtFetch(job.program.start_at)
    /\ \A r \in {"A", "X", "Y", "S"} : regs[r] = job.program.regs[r]
    /\ regs.P = PulledFlags(job.program.regs.P)
    /\ \A a \in DOMAIN UserPatch(job.program) : At(mem, a) = UserPatch(job.program)[a]
    /\ ~cpu.nmi_pin /\ ~cpu.irq_pin
    /\ ~cpu.nmi_edge /\ ~cpu.nmi_taken /\ ~cpu.irq_taken

=============================================================================
