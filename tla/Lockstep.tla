------------------------------ MODULE Lockstep ------------------------------
(***************************************************************************)
(* The lockstep tools (src/tools/lockstep) as the pulse sweep drives them  *)
(* (src/harness/cpu6502_lockstep/nmi_irq_pulse_sweep.cpp): for each test   *)
(* program one backend, on which one scenario after the other is set up    *)
(* and run.  A scenario asserts NMI or IRQ for some cycles while the       *)
(* program runs.                                                           *)
(*                                                                         *)
(* The backend is the qe6502 one; the netlist simulation it is compared    *)
(* with is external and only matters where the comparison fails.           *)
(***************************************************************************)
EXTENDS Machine, FiniteSets

CONSTANTS
  Programs,       \* of compiled test programs
  Scenarios,      \* the pulses of the sweep that are run, for each opcode
  FailingPulses   \* pulses whose comparison may fail, once in a sweep

T == INSTANCE Testcases

setup_restart_max_steps == 256
setup_fetch_max_steps   == 32

\* The code allows 4096 steps for the bootstrap; it is a straight line of nine instructions.
BootstrapBound == 60

safe_restart_address       == 1024
internal_bootstrap_address == 65024
opcode_nop                 == 234

scenario_total_steps == 20

UnstableOpcodes == {11, 43, 75, 107, 139, 171, 187}

-----------------------------------------------------------------------------
\* A test program as the sweep has it: its bytes, and the address of its trap.
Compiled(test) ==
  LET code == T!compile_to_map(test.program)
  IN  [ opcode |-> test.opcode, start_at |-> test.start_at, regs |-> test.regs,
        error |-> code.error, program |-> code.output, trap |-> code.symbols["trap"] ]

\* make_pulse_script: the pin that is asserted, after how many cycles and for how many. Earlier is
\* the order of the loops of main.
Pulse(onNmi, start, length) == [nmi |-> onNmi, start |-> start, length |-> length]

Pulses == {p \in [nmi : BOOLEAN, start : 0..8, length : 1..10] : p.start + p.length <= 10}

Rank(p) == 100 * p.start + 2 * p.length + (IF p.nmi THEN 0 ELSE 1)

NoPulse == Pulse(FALSE, 0, 0)

\* The scenarios of a program that come after one of its pulses.
Later(program, p) == {q \in Scenarios[program.opcode] : Rank(q) > Rank(p)}

-----------------------------------------------------------------------------
\* Memory patches.
BootstrapPatch(program) ==
  T!bootstrap_program(program.regs, program.start_at,
    [ reset |-> internal_bootstrap_address, brk_irq |-> internal_bootstrap_address,
      nmi |-> internal_bootstrap_address ])

VectorPatch ==
  WordPatch(65532, T!Vectors.reset) @@ WordPatch(65530, T!Vectors.nmi)
    @@ WordPatch(65534, T!Vectors.brk_irq)

\* install_user_testcase: the vectors go in last.
UserPatch(program) == VectorPatch @@ program.program

StubWithoutVectorMutant == [a \in safe_restart_address..safe_restart_address + 2 |-> opcode_nop]

SafeRestartStub ==
  [a \in safe_restart_address..safe_restart_address + 2 |-> opcode_nop]
    @@ WordPatch(65532, safe_restart_address)

\* SavedMemoryPatch
Saved == [a \in DOMAIN SafeRestartStub |-> At(mem, a)]
Unsaved == [a \in {} |-> 0]

-----------------------------------------------------------------------------
\* Qe6502Cpu() steps through the internal cycles of the reset.
LockstepInit ==
  \E program \in {p \in Programs : p.opcode \notin UnstableOpcodes} :
    LET o == RestartOutcome(Setup(0))
    IN  /\ cpu = o.cpu /\ tick = o.tick /\ regs = RestartRegs
        /\ bus = [address |-> 255, data |-> 0, reset |-> TRUE]
        /\ mem = [a \in {} |-> 0]
        /\ arch = [Seen(RestartRegs, mem, 0) EXCEPT !.phase = "resetting"]
        /\ job = [ kind |-> "lockstep", phase |-> "construct", program |-> program,
                   scenario |-> NoPulse, steps |-> 0, hard |-> FALSE, saved |-> Unsaved,
                   pin |-> "before", fetches |-> 0, mismatch |-> FALSE ]

\* A backend reads its memory before it carries a write out.
LockstepInput == At(mem, bus.address)

LockstepMachineStep == Step(LockstepInput)

AtFetch(address) == tick.status = "fetch" /\ bus.address = address

In(phase) == job.kind = "lockstep" /\ job.phase = phase
Phase(phase) == job' = [job EXCEPT !.phase = phase, !.steps = 0]
Stepped(phase) == job' = [job EXCEPT !.phase = phase, !.steps = @ + 1]

\* ICpu::restart in the backend: it steps until the first cycle that is no reset cycle.
RestartLoop ==
  /\ In("construct") \/ In("restart")
  /\ LockstepMachineStep
  /\ IF bus'.reset THEN UNCHANGED job
     ELSE Phase(IF job.phase = "construct" THEN "constructed" ELSE "to safe fetch")

Idle ==
  \/ In("constructed")
  \/ In("script") /\ job.steps = scenario_total_steps
  \/ In("mismatch")

-----------------------------------------------------------------------------
\* restart_run, setup_and_run and the memory of try_soft_setup_and_run. A failed comparison ends
\* its scenario; the next one is run on the backend as it was left.
SoftSetup ==
  /\ PokeMachine(Patch(mem, BootstrapPatch(job.program)))
  /\ NmiAssert(FALSE)
  /\ UNCHANGED <<regs, bus>>

RestartRun ==
  /\ Idle
  /\ \E p \in Later(job.program, job.scenario) :
       /\ \A q \in Later(job.program, job.scenario) : Rank(p) <= Rank(q)
       /\ job' = [job EXCEPT !.scenario = p, !.phase = "irq low", !.hard = FALSE, !.steps = 0,
                             !.pin = "before", !.fetches = 0]
  /\ SoftSetup

LowerIrq ==
  In("irq low") /\ IrqAssert(FALSE) /\ Phase("to next fetch") /\ UNCHANGED <<regs, bus, mem, arch>>

StepToNextFetch ==
  /\ In("to next fetch") /\ job.steps < setup_fetch_max_steps
  /\ LockstepMachineStep
  /\ Stepped(IF tick'.status = "fetch" THEN "nmi high" ELSE "to next fetch")

RaiseNmi ==
  In("nmi high") /\ NmiAssert(TRUE) /\ Phase("to bootstrap") /\ UNCHANGED <<regs, bus, mem, arch>>

StepToBootstrap ==
  /\ In("to bootstrap")
  /\ ~AtFetch(internal_bootstrap_address) /\ job.steps < setup_fetch_max_steps
  /\ LockstepMachineStep /\ Stepped("to bootstrap")

RestoresLastMutant ==
  /\ In("to bootstrap") /\ AtFetch(internal_bootstrap_address)
  /\ NmiAssert(FALSE)
  /\ PokeMachine(Patch(Patch(mem, UserPatch(job.program)), job.saved))
  /\ job' = [job EXCEPT !.phase = "to start", !.steps = 0, !.saved = Unsaved]
  /\ UNCHANGED <<regs, bus>>

\* The processor is in the bootstrap: the user program takes the vectors over, and the bytes a
\* hard restart replaced come back.
InstallUserTestcase ==
  /\ In("to bootstrap") /\ AtFetch(internal_bootstrap_address)
  /\ NmiAssert(FALSE)
  /\ PokeMachine(Patch(Patch(mem, job.saved), UserPatch(job.program)))
  /\ job' = [job EXCEPT !.phase = "to start", !.steps = 0, !.saved = Unsaved]
  /\ UNCHANGED <<regs, bus>>

StepToStart ==
  /\ In("to start") /\ ~AtFetch(job.program.start_at) /\ job.steps < BootstrapBound
  /\ LockstepMachineStep /\ Stepped("to start")

ReachStart ==
  In("to start") /\ AtFetch(job.program.start_at) /\ Phase("script") /\ UNCHANGED machine

-----------------------------------------------------------------------------
\* A soft setup that does not get there.
SoftSetupFails ==
  /\ job.kind = "lockstep"
  /\ \/ job.phase = "to next fetch" /\ job.steps = setup_fetch_max_steps
     \/ /\ job.phase = "to bootstrap" /\ job.steps = setup_fetch_max_steps
        /\ ~AtFetch(internal_bootstrap_address)
     \/ /\ job.phase = "to start" /\ job.steps = BootstrapBound
        /\ ~AtFetch(job.program.start_at)

\* hard_restart_to_safe_fetch: the pins are low after it, as the restart clears the context.
HardRestart ==
  /\ SoftSetupFails /\ ~job.hard
  /\ RestartMachine(Patch(mem, SafeRestartStub))
  /\ job' = [job EXCEPT !.phase = "restart", !.steps = 0, !.hard = TRUE, !.saved = Saved]

\* restart_to_start_fetch counts its steps from there.
StepToSafeFetch ==
  /\ In("to safe fetch")
  /\ ~AtFetch(safe_restart_address) /\ job.steps < setup_restart_max_steps
  /\ LockstepMachineStep /\ Stepped("to safe fetch")

SetupAgain ==
  /\ In("to safe fetch") /\ AtFetch(safe_restart_address)
  /\ SoftSetup /\ Phase("irq low")

\* A backend can be set up for the next program wherever the last one left it, at the latest after
\* a hard restart. What the code does about a setup that fails even so is not modelled.
SetupSucceeds ==
  job.kind = "lockstep" =>
    /\ ~(SoftSetupFails /\ job.hard)
    /\ ~(job.phase = "to safe fetch" /\ job.steps = setup_restart_max_steps)

-----------------------------------------------------------------------------
\* The script of a pulse: its commands are carried out in order.
PinAssert(level) ==
  (IF job.scenario.nmi THEN NmiAssert(level) ELSE IrqAssert(level)) /\ UNCHANGED <<regs, bus, mem, arch>>

AssertPin ==
  /\ In("script") /\ job.pin = "before" /\ job.steps = job.scenario.start
  /\ PinAssert(TRUE)
  /\ job' = [job EXCEPT !.pin = "asserted"]

DeassertPin ==
  /\ In("script") /\ job.pin = "asserted" /\ job.steps = job.scenario.start + job.scenario.length
  /\ PinAssert(FALSE)
  /\ job' = [job EXCEPT !.pin = "after"]

StepCycles ==
  \/ job.pin = "before" /\ job.steps < job.scenario.start
  \/ job.pin = "asserted" /\ job.steps < job.scenario.start + job.scenario.length
  \/ job.pin = "after" /\ job.steps < scenario_total_steps

ScriptStep ==
  /\ In("script") /\ StepCycles
  /\ LockstepMachineStep
  /\ job' = [job EXCEPT !.steps = @ + 1, !.fetches = @ + (IF tick'.status = "fetch" THEN 1 ELSE 0)]

\* The traces differ: the scenario stops before the step, and leaves its pin as it is.
ComparisonFails ==
  /\ In("script") /\ StepCycles /\ ~job.mismatch /\ job.scenario \in FailingPulses
  /\ job' = [job EXCEPT !.mismatch = TRUE, !.phase = "mismatch"]
  /\ UNCHANGED machine

LockstepNext ==
  \/ RestartLoop \/ RestartRun \/ LowerIrq \/ StepToNextFetch \/ RaiseNmi \/ StepToBootstrap
  \/ InstallUserTestcase \/ StepToStart \/ ReachStart \/ HardRestart \/ StepToSafeFetch
  \/ SetupAgain \/ AssertPin \/ DeassertPin \/ ScriptStep \/ ComparisonFails

=============================================================================
