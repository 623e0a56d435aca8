----------------------------- MODULE MCExecution -----------------------------
(* Programs for Execution: the test programs of the source, and an instruction grid. *)
EXTENDS ControlStore, DataFlow

AllModels  == 0..4
AllOpcodes == 0..255

CompiledAll(tests) == {Compiled(tests[n]) : n \in DOMAIN tests}

AllPrograms == CompiledAll(T!get_nmos6502_opcode_testcases)

\* nmi_irq_pulse_sweep --light
LightOpcodes == {0, 1, 6, 8, 32, 36, 41, 64, 76, 96, 105, 133, 169, 176, 233, 234}

\* For the light opcodes the pulses of the sweep that start with the instruction, in its third cycle
\* or after it; for the others one NMI within the instruction and one IRQ after it.
SomePulses ==
  [opcode \in AllOpcodes |->
     IF opcode \in LightOpcodes
     THEN {p \in Pulses : p.start \in {0, 2, 8} /\ p.length \in {1, 2, 8}}
     ELSE {Pulse(TRUE, 1, 2), Pulse(FALSE, 8, 2)}]

Early == {Pulse(onNmi, 2, 8) : onNmi \in BOOLEAN}

Registers5(A, X, Y, S, P, PC) == [A |-> A, X |-> X, Y |-> Y, S |-> S, P |-> P, PC |-> PC]

\* An instruction with two bytes of operand at PC.
Instruction(model, opcode, low, high, registers, ram) ==
  [ model |-> model, regs |-> registers,
    ram |-> (registers.PC :> opcode) @@ ((registers.PC + 1) % 65536 :> low)
              @@ ((registers.PC + 2) % 65536 :> high) @@ ram ]

\* Indexing within a page and out of it, decimal mode, and everything that wraps: the stack, page
\* zero, the page of a pointer, the program counter and the address space.
Grid ==
  {Instruction(m, o, 64, 33, Registers5(66, 16, 5, 253, {"U", "I"}, 1024),
               (80 :> 56) @@ (81 :> 34) @@ (8512 :> 129) @@ (69 :> 170) @@ (64 :> 18)
                 @@ (65 :> 35) @@ (510 :> 201) @@ (511 :> 3)) : m \in AllModels, o \in AllOpcodes}
  \cup
  {Instruction(m, o, 255, 255, Registers5(153, 200, 130, 0, {"U", "D", "C", "N"}, 65533),
               (199 :> 240) @@ (200 :> 47) @@ (255 :> 144) @@ (65280 :> 85) @@ (257 :> 96)
                 @@ (258 :> 119) @@ (127 :> 65) @@ (0 :> 255)) : m \in AllModels, o \in AllOpcodes}
  \cup
  {Instruction(m, o, 240, 2, Registers5(85, 32, 250, 255, {"U", "V", "Z", "D"}, 766),
               (16 :> 254) @@ (17 :> 255) @@ (240 :> 128) @@ (241 :> 4) @@ (752 :> 37)
                 @@ (784 :> 153) @@ (256 :> 12) @@ (257 :> 254)) : m \in AllModels, o \in AllOpcodes}

Digits == {0, 1, 9, 16, 25, 73, 127, 128, 144, 153, 154, 255}

ArithmeticGrid ==
  {Instruction(m, o, v, 0, Registers5(a, 0, 0, 253, P, 1024), (0 :> 0)) :
     m \in AllModels, o \in {105, 233}, a \in Digits, v \in Digits,
     P \in {{"D"}, {"D", "C"}, {"C"}, {}}}

AllCases == Grid \cup ArithmeticGrid

=============================================================================
