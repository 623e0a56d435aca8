------------------------------- MODULE DataFlow -------------------------------
(***************************************************************************)
(* What the data path expects of the control store, where the instructions *)
(* that add and subtract have their cycles, and what the hosts put into    *)
(* the memory of the machine: the assumptions of ExecutionProofs.  TLC     *)
(* evaluates them on the store, the instruction grid and the test programs *)
(* of the source.                                                          *)
(***************************************************************************)
EXTENDS Execution, ControlFlow

\* Any byte may be fetched as an opcode.
ASSUME AnyOpcode == Opcodes = 0..255

\* The handlers that compute run in slots of instructions they can compute.
ASSUME InstructionsSuit ==
  \A i \in Runs :
    Store[i] \in ExecuteHandlers =>
      /\ SlotOf(i) < 256
      /\ Suits(Store[i], Mnemonic(ModelOf(i), SlotOf(i)), SlotOf(i), ModelOf(i))

\* No handler looks at the bus after a write.
ASSUME WritesUnseen ==
  \A i \in Runs, m \in Models : \A a \in From(i, m) : a.status = "write" => Store[a.to] \in BusBlind

-----------------------------------------------------------------------------
\* The immediate ADC and SBC: one cycle reads the operand, the next computes; in decimal mode the
\* CMOS models compute in one more.
ASSUME SumsInPlace ==
  \A m \in Models :
    /\ m \in 0..4
    /\ Store[IDX(m, goto, 0)] = "fetch" /\ Store[IDX(m, goto, 1)] = "dispatch"
    /\ \A o \in {105, 233} :
         /\ Mnemonic(m, o) = IF o = 105 THEN "ADC" ELSE "SBC"
         /\ m < 2 => /\ Store[IDX(m, o, 0)] = "read_pc_inc_prefetch"
                     /\ Store[IDX(m, o, 1)] = "exec_fetch"
         /\ m >= 2 => /\ Store[IDX(m, o, 0)] = "read_pc_inc_prefetch_decimal_clear"
                      /\ Store[IDX(m, o, 1)] = "exec_fetch_or_decimal_dummy"
                      /\ Store[IDX(m, o, 2)] = "decimal_fetch"

-----------------------------------------------------------------------------
\* The instructions the single-step harness is given, and the programs of the sweep.
ASSUME CasesFit ==
  \A case \in Cases :
    /\ case.model \in Models
    /\ case.regs @@ StartRegs \in Registers
    /\ (case.regs @@ StartRegs).P = case.regs.P
    /\ IsPatch(case.ram)

ASSUME ProgramsFit ==
  /\ 0 \in Models /\ IsPatch(SafeRestartStub)
  /\ \A program \in Programs : IsPatch(BootstrapPatch(program)) /\ IsPatch(UserPatch(program))

=============================================================================
