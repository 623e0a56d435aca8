------------------------------ MODULE SingleStep ------------------------------
(***************************************************************************)
(* The single-step harness (src/harness/singlestep/main.cpp): sets up a    *)
(* processor with given registers and memory, jumps to its PC and ticks it *)
(* through one instruction.                                                *)
(***************************************************************************)
EXTENDS Machine

CONSTANT Cases   \* of records: the model, the registers and the bytes of memory to start with

InstructionCycleLimit == 32
NmosKilCyclesToCompare == 2

NmosKilOpcodes == {2, 18, 34, 50, 66, 82, 98, 114, 146, 178, 210, 242}

is_nmos_kil_opcode(model, opcode) == model \in {0, 1} /\ opcode \in NmosKilOpcodes

-----------------------------------------------------------------------------
set_initial_state(model, start) ==
  [Setup(model) EXCEPT !.I = "I" \in start.P, !.D = "D" \in start.P]

\* run_case up to its loop: jump_to ticks the processor once, which puts PC on the bus.
SingleStepInit ==
  \E case \in Cases :
    LET c == set_initial_state(case.model, case.regs)
        r == case.regs @@ StartRegs
    IN  \E j \in Ticked(EnterServiceSlot(c, goto, 0), r, 0) :
          /\ cpu = j.out.cpu /\ tick = j.out.tick /\ regs = j.step.regs
          /\ bus = [address |-> j.step.address, data |-> j.step.data, reset |-> FALSE]
          /\ mem = Patch([a \in {} |-> 0], case.ram)
          /\ arch = Seen(j.step.regs, mem, 0)
          /\ job = [ kind |-> "singlestep", phase |-> "running", cycle_index |-> 0,
                     kil |-> is_nmos_kil_opcode(case.model, At(mem, case.regs.PC)) ]

\* Where the processor writes, the harness leaves the byte on the bus for the next tick.
SingleStepInput == IF tick.status = "write" THEN bus.data ELSE At(mem, bus.address)

\* KIL is given up after two cycles; any other instruction runs up to the next fetch.
Stopped(cycle_index, status) ==
  IF job.kil /\ cycle_index >= NmosKilCyclesToCompare THEN "done"
  ELSE IF status = "fetch" THEN "done"
  ELSE IF cycle_index > InstructionCycleLimit THEN "limit exceeded"
  ELSE "running"

SingleStepTick ==
  /\ job.kind = "singlestep" /\ job.phase = "running"
  /\ Step(SingleStepInput)
  /\ job' = [job EXCEPT !.cycle_index = @ + 1, !.phase = Stopped(job.cycle_index + 1, tick'.status)]

=============================================================================
