------------------------------ MODULE Testcases ------------------------------
(***************************************************************************)
(* The test programs of src/tools/common/src/nmos6502_opcode_testcases.cpp *)
(* for every opcode of the NMOS control store: registers to start with, an *)
(* instruction at start_at, and a jump to itself, the trap, at the address *)
(* where the instruction should leave the processor.                       *)
(*                                                                         *)
(* The programs of one addressing mode differ in their instruction, their  *)
(* registers and the bytes they work on only.                              *)
(***************************************************************************)
EXTENDS Asm6502

R(A, X, Y, P, S) == [A |-> A, X |-> X, Y |-> Y, P |-> P, S |-> S]

\* The vectors are the same for all of them.
Vectors == [reset |-> 512, brk_irq |-> 2048, nmi |-> 2048]

Test(opcode, start_at, regs, program) ==
  [opcode |-> opcode, start_at |-> start_at, regs |-> regs, program |-> program]

AtStart(opcode, regs, program) == Test(opcode, 1024, regs, program)

Trap == label("trap") \o jmp(Symbol("trap"))
TrapAt(address) == org_label(address, "trap") \o jmp(Symbol("trap"))

Bytes(values) == [n \in DOMAIN values |-> add_byte(values[n])[1]]
Word(target)  == add_word(target)

-----------------------------------------------------------------------------
\* An instruction of one byte; what it pulls is on the stack.
Implied(opcode, mn, regs, bytes) ==
  AtStart(opcode, regs,
          org_label(510, "stack_value") \o Bytes(bytes) \o org(1024)
            \o (IF mn \in {"NOP", "KIL"} THEN add_byte(opcode) ELSE implied(mn)) \o Trap)

Immediate(opcode, mn, regs, value) ==
  AtStart(opcode, regs,
          org(1024) \o (IF mn = "NOP" THEN nop_opcode(opcode, Direct(value))
                        ELSE IF opcode \in {43, 235} THEN opcode_imm(opcode, value)
                        ELSE immediate(mn, value)) \o Trap)

\* An instruction on memory. Where it stores only, no bytes are prepared. The indexed page-zero
\* modes wrap around the page.
Instruction(opcode, mn, mode, target) ==
  IF mn = "NOP" THEN nop_opcode(opcode, target) ELSE emit_addressed(mn, mode, target)

Addressed(opcode, mn, mode, regs, bytes) ==
  AtStart(opcode, regs,
    CASE mode = "zp" ->
           org_label(128, "value_zp") \o Bytes(bytes) \o org(1024)
             \o Instruction(opcode, mn, mode, Symbol("value_zp")) \o Trap
      [] mode \in {"zpx", "zpy"} ->
           org_label(248, "zp_base") \o org_label(8, "value_zp") \o Bytes(bytes) \o org(1024)
             \o Instruction(opcode, mn, mode, Symbol("zp_base")) \o Trap
      [] mode = "izx" ->
           org_label(248, "zp_ptr_base") \o org_label(8, "zp_ptr") \o Word(Symbol("value_addr"))
             \o org_label(8500, "value_addr") \o Bytes(bytes) \o org(1024)
             \o Instruction(opcode, mn, mode, Symbol("zp_ptr_base")) \o Trap
      [] mode = "abs" ->
           org(1024) \o Instruction(opcode, mn, mode, Symbol("value_addr")) \o Trap
             \o org_label(8500, "value_addr") \o Bytes(bytes))

\* Indexed by X or Y, from a base that leaves the page of the value or not.
IndexedFrom(base, value, opcode, mn, mode, regs, bytes) ==
  LET data == org_label(base, "value_base") \o org_label(value, "value_addr") \o Bytes(bytes)
  IN  AtStart(opcode, regs,
        IF mode = "izy"
        THEN org_label(32, "zp_ptr") \o Word(Symbol("value_base")) \o data \o org(1024)
               \o Instruction(opcode, mn, mode, Symbol("zp_ptr")) \o Trap
        ELSE data \o org(1024) \o Instruction(opcode, mn, mode, Symbol("value_base")) \o Trap)

Indexed(opcode, mn, mode, regs, bytes) ==
  IndexedFrom(8448, 8464, opcode, mn, mode, regs, bytes)

IndexedToNextPage(opcode, mn, mode, regs, bytes) ==
  IndexedFrom(8688, 8720, opcode, mn, mode, regs, bytes)

\* Branches.
NotTaken(mn, regs) ==
  AtStart(BranchOpcodes[mn], regs,
          org(1024) \o branch(mn, Symbol("branch_target")) \o Trap
            \o org_label(1056, "branch_target"))

Taken(mn, regs) ==
  AtStart(BranchOpcodes[mn], regs, org(1024) \o branch(mn, Symbol("trap")) \o TrapAt(1056))

TakenToNextPage(mn, regs) ==
  Test(BranchOpcodes[mn], 1264, regs,
       org(1264) \o branch(mn, Symbol("trap")) \o TrapAt(1285))

\* Jumps, calls and returns.
Break(regs) ==
  AtStart(0, regs,
          brk_irq_vector(Symbol("trap")) \o org(1024) \o implied("BRK") \o TrapAt(2048))

Call(regs) == AtStart(32, regs, org(1024) \o jsr(Symbol("trap")) \o TrapAt(2048))

Jump(regs) == AtStart(76, regs, org(1024) \o jmp(Symbol("trap")) \o TrapAt(2048))

ReturnFromInterrupt(regs, status) ==
  AtStart(64, regs,
          org_label(509, "rti_stack_frame") \o add_byte(status) \o Word(Symbol("trap"))
            \o org(1024) \o implied("RTI") \o Trap)

Return(regs) ==
  AtStart(96, regs,
          org_label(510, "rts_return_address") \o Word(sym("trap", -1))
            \o org(1024) \o implied("RTS") \o Trap)

JumpIndirect(regs) ==
  AtStart(108, regs,
          org_label(512, "jump_ptr") \o Word(Symbol("trap"))
            \o org(1024) \o emit_addressed("JMP", "ind", Symbol("jump_ptr")) \o TrapAt(2048))

JumpIndirectAcrossPage(regs, high, low) ==
  AtStart(108, regs,
          org_label(512, "jump_ptr_high_byte") \o add_byte(high)
            \o org_label(767, "jump_ptr") \o add_byte(low)
            \o org(1024) \o emit_addressed("JMP", "ind", Symbol("jump_ptr")) \o TrapAt(2100))

-----------------------------------------------------------------------------
\* The cases, by opcode.
Opcodes_00_05 ==
  << Break(R(66, 0, 0, 36, 253)),
     Addressed(1, "ORA", "izx", R(165, 16, 0, 36, 253), <<135>>),
     Implied(2, "KIL", R(66, 0, 0, 36, 253), <<>>),
     Addressed(3, "SLO", "izx", R(165, 16, 0, 36, 253), <<65>>),
     Addressed(4, "NOP", "zp", R(66, 0, 0, 36, 253), <<135>>),
     Addressed(5, "ORA", "zp", R(165, 0, 0, 36, 253), <<135>>) >>

Opcodes_06_0B ==
  << Addressed(6, "ASL", "zp", R(129, 0, 0, 36, 253), <<65>>),
     Addressed(7, "SLO", "zp", R(165, 0, 0, 36, 253), <<65>>),
     Implied(8, "PHP", R(66, 0, 0, 229, 254), <<>>),
     Immediate(9, "ORA", R(165, 0, 0, 36, 253), 24),
     Implied(10, "ASL", R(129, 0, 0, 36, 253), <<>>),
     Immediate(11, "ANC", R(165, 0, 0, 36, 253), 127) >>

Opcodes_0C_10 ==
  << Addressed(12, "NOP", "abs", R(66, 0, 0, 36, 253), <<135>>),
     Addressed(13, "ORA", "abs", R(165, 0, 0, 36, 253), <<135>>),
     Addressed(14, "ASL", "abs", R(129, 0, 0, 36, 253), <<65>>),
     Addressed(15, "SLO", "abs", R(165, 0, 0, 36, 253), <<65>>),
     NotTaken("BPL", R(66, 0, 0, 164, 253)),
     Taken("BPL", R(66, 0, 0, 36, 253)),
     TakenToNextPage("BPL", R(66, 0, 0, 36, 253)) >>

Opcodes_11_14 ==
  << Indexed(17, "ORA", "izy", R(165, 0, 16, 36, 253), <<135>>),
     IndexedToNextPage(17, "ORA", "izy", R(165, 0, 32, 36, 253), <<135>>),
     Implied(18, "KIL", R(66, 0, 0, 36, 253), <<>>),
     Indexed(19, "SLO", "izy", R(165, 0, 16, 36, 253), <<65>>),
     IndexedToNextPage(19, "SLO", "izy", R(165, 0, 32, 36, 253), <<65>>),
     Addressed(20, "NOP", "zpx", R(66, 16, 0, 36, 253), <<135>>) >>

Opcodes_15_19 ==
  << Addressed(21, "ORA", "zpx", R(165, 16, 0, 36, 253), <<135>>),
     Addressed(22, "ASL", "zpx", R(129, 16, 0, 36, 253), <<65>>),
     Addressed(23, "SLO", "zpx", R(165, 16, 0, 36, 253), <<65>>),
     Implied(24, "CLC", R(66, 0, 0, 36, 253), <<>>),
     Indexed(25, "ORA", "aby", R(165, 0, 16, 36, 253), <<135>>),
     IndexedToNextPage(25, "ORA", "aby", R(165, 0, 32, 36, 253), <<135>>) >>

Opcodes_1A_1D ==
  << Implied(26, "NOP", R(66, 0, 0, 36, 253), <<>>),
     Indexed(27, "SLO", "aby", R(165, 0, 16, 36, 253), <<65>>),
     IndexedToNextPage(27, "SLO", "aby", R(165, 0, 32, 36, 253), <<65>>),
     Indexed(28, "NOP", "abx", R(66, 16, 0, 36, 253), <<135>>),
     IndexedToNextPage(28, "NOP", "abx", R(66, 32, 0, 36, 253), <<135>>),
     Indexed(29, "ORA", "abx", R(165, 16, 0, 36, 253), <<135>>),
     IndexedToNextPage(29, "ORA", "abx", R(165, 32, 0, 36, 253), <<135>>) >>

Opcodes_1E_21 ==
  << Indexed(30, "ASL", "abx", R(129, 16, 0, 36, 253), <<65>>),
     IndexedToNextPage(30, "ASL", "abx", R(129, 32, 0, 36, 253), <<65>>),
     Indexed(31, "SLO", "abx", R(165, 16, 0, 36, 253), <<65>>),
     IndexedToNextPage(31, "SLO", "abx", R(165, 32, 0, 36, 253), <<65>>),
     Call(R(66, 0, 0, 36, 253)),
     Addressed(33, "AND", "izx", R(165, 16, 0, 36, 253), <<135>>) >>

Opcodes_22_27 ==
  << Implied(34, "KIL", R(66, 0, 0, 36, 253), <<>>),
     Addressed(35, "RLA", "izx", R(165, 16, 0, 37, 253), <<129>>),
     Addressed(36, "BIT", "zp", R(165, 0, 0, 36, 253), <<192>>),
     Addressed(37, "AND", "zp", R(165, 0, 0, 36, 253), <<135>>),
     Addressed(38, "ROL", "zp", R(129, 0, 0, 37, 253), <<129>>),
     Addressed(39, "RLA", "zp", R(165, 0, 0, 37, 253), <<129>>) >>

Opcodes_28_2D ==
  << Implied(40, "PLP", R(66, 0, 0, 36, 253), <<165>>),
     Immediate(41, "AND", R(165, 0, 0, 36, 253), 60),
     Implied(42, "ROL", R(129, 0, 0, 37, 253), <<>>),
     Immediate(43, "ANC", R(165, 0, 0, 36, 253), 127),
     Addressed(44, "BIT", "abs", R(165, 0, 0, 36, 253), <<192>>),
     Addressed(45, "AND", "abs", R(165, 0, 0, 36, 253), <<135>>) >>

Opcodes_2E_31 ==
  << Addressed(46, "ROL", "abs", R(129, 0, 0, 37, 253), <<129>>),
     Addressed(47, "RLA", "abs", R(165, 0, 0, 37, 253), <<129>>),
     NotTaken("BMI", R(66, 0, 0, 36, 253)),
     Taken("BMI", R(66, 0, 0, 164, 253)),
     TakenToNextPage("BMI", R(66, 0, 0, 164, 253)),
     Indexed(49, "AND", "izy", R(165, 0, 16, 36, 253), <<135>>),
     IndexedToNextPage(49, "AND", "izy", R(165, 0, 32, 36, 253), <<135>>) >>

Opcodes_32_36 ==
  << Implied(50, "KIL", R(66, 0, 0, 36, 253), <<>>),
     Indexed(51, "RLA", "izy", R(165, 0, 16, 37, 253), <<129>>),
     IndexedToNextPage(51, "RLA", "izy", R(165, 0, 32, 36, 253), <<65>>),
     Addressed(52, "NOP", "zpx", R(66, 16, 0, 36, 253), <<135>>),
     Addressed(53, "AND", "zpx", R(165, 16, 0, 36, 253), <<135>>),
     Addressed(54, "ROL", "zpx", R(129, 16, 0, 37, 253), <<129>>) >>

Opcodes_37_3B ==
  << Addressed(55, "RLA", "zpx", R(165, 16, 0, 37, 253), <<129>>),
     Implied(56, "SEC", R(66, 0, 0, 36, 253), <<>>),
     Indexed(57, "AND", "aby", R(165, 0, 16, 36, 253), <<135>>),
     IndexedToNextPage(57, "AND", "aby", R(165, 0, 32, 36, 253), <<135>>),
     Implied(58, "NOP", R(66, 0, 0, 36, 253), <<>>),
     Indexed(59, "RLA", "aby", R(165, 0, 16, 37, 253), <<129>>),
     IndexedToNextPage(59, "RLA", "aby", R(165, 0, 32, 36, 253), <<65>>) >>

Opcodes_3C_3E ==
  << Indexed(60, "NOP", "abx", R(66, 16, 0, 36, 253), <<135>>),
     IndexedToNextPage(60, "NOP", "abx", R(66, 32, 0, 36, 253), <<135>>),
     Indexed(61, "AND", "abx", R(165, 16, 0, 36, 253), <<135>>),
     IndexedToNextPage(61, "AND", "abx", R(165, 32, 0, 36, 253), <<135>>),
     Indexed(62, "ROL", "abx", R(129, 16, 0, 37, 253), <<129>>),
     IndexedToNextPage(62, "ROL", "abx", R(129, 32, 0, 36, 253), <<65>>) >>

Opcodes_3F_43 ==
  << Indexed(63, "RLA", "abx", R(165, 16, 0, 37, 253), <<129>>),
     IndexedToNextPage(63, "RLA", "abx", R(165, 32, 0, 36, 253), <<65>>),
     ReturnFromInterrupt(R(66, 0, 0, 36, 252), 36),
     Addressed(65, "EOR", "izx", R(165, 16, 0, 36, 253), <<135>>),
     Implied(66, "KIL", R(66, 0, 0, 36, 253), <<>>),
     Addressed(67, "SRE", "izx", R(165, 16, 0, 36, 253), <<130>>) >>

Opcodes_44_49 ==
  << Addressed(68, "NOP", "zp", R(66, 0, 0, 36, 253), <<135>>),
     Addressed(69, "EOR", "zp", R(165, 0, 0, 36, 253), <<135>>),
     Addressed(70, "LSR", "zp", R(129, 0, 0, 36, 253), <<130>>),
     Addressed(71, "SRE", "zp", R(165, 0, 0, 36, 253), <<130>>),
     Implied(72, "PHA", R(142, 0, 0, 36, 253), <<>>),
     Immediate(73, "EOR", R(165, 0, 0, 36, 253), 255) >>

Opcodes_4A_4F ==
  << Implied(74, "LSR", R(129, 0, 0, 36, 253), <<>>),
     Immediate(75, "ALR", R(165, 0, 0, 36, 253), 240),
     Jump(R(66, 0, 0, 36, 253)),
     Addressed(77, "EOR", "abs", R(165, 0, 0, 36, 253), <<135>>),
     Addressed(78, "LSR", "abs", R(129, 0, 0, 36, 253), <<130>>),
     Addressed(79, "SRE", "abs", R(165, 0, 0, 36, 253), <<130>>) >>

Opcodes_50_52 ==
  << NotTaken("BVC", R(66, 0, 0, 100, 253)),
     Taken("BVC", R(66, 0, 0, 36, 253)),
     TakenToNextPage("BVC", R(66, 0, 0, 36, 253)),
     Indexed(81, "EOR", "izy", R(165, 0, 16, 36, 253), <<135>>),
     IndexedToNextPage(81, "EOR", "izy", R(165, 0, 32, 36, 253), <<135>>),
     Implied(82, "KIL", R(66, 0, 0, 36, 253), <<>>) >>

Opcodes_53_57 ==
  << Indexed(83, "SRE", "izy", R(165, 0, 16, 36, 253), <<130>>),
     IndexedToNextPage(83, "SRE", "izy", R(165, 0, 32, 36, 253), <<130>>),
     Addressed(84, "NOP", "zpx", R(66, 16, 0, 36, 253), <<135>>),
     Addressed(85, "EOR", "zpx", R(165, 16, 0, 36, 253), <<135>>),
     Addressed(86, "LSR", "zpx", R(129, 16, 0, 36, 253), <<130>>),
     Addressed(87, "SRE", "zpx", R(165, 16, 0, 36, 253), <<130>>) >>

Opcodes_58_5B ==
  << Implied(88, "CLI", R(66, 0, 0, 36, 253), <<>>),
     Indexed(89, "EOR", "aby", R(165, 0, 16, 36, 253), <<135>>),
     IndexedToNextPage(89, "EOR", "aby", R(165, 0, 32, 36, 253), <<135>>),
     Implied(90, "NOP", R(66, 0, 0, 36, 253), <<>>),
     Indexed(91, "SRE", "aby", R(165, 0, 16, 36, 253), <<130>>),
     IndexedToNextPage(91, "SRE", "aby", R(165, 0, 32, 36, 253), <<130>>) >>

Opcodes_5C_5E ==
  << Indexed(92, "NOP", "abx", R(66, 16, 0, 36, 253), <<135>>),
     IndexedToNextPage(92, "NOP", "abx", R(66, 32, 0, 36, 253), <<135>>),
     Indexed(93, "EOR", "abx", R(165, 16, 0, 36, 253), <<135>>),
     IndexedToNextPage(93, "EOR", "abx", R(165, 32, 0, 36, 253), <<135>>),
     Indexed(94, "LSR", "abx", R(129, 16, 0, 36, 253), <<130>>),
     IndexedToNextPage(94, "LSR", "abx", R(129, 32, 0, 36, 253), <<130>>) >>

Opcodes_5F_63 ==
  << Indexed(95, "SRE", "abx", R(165, 16, 0, 36, 253), <<130>>),
     IndexedToNextPage(95, "SRE", "abx", R(165, 32, 0, 36, 253), <<130>>),
     Return(R(66, 0, 0, 36, 253)),
     Addressed(97, "ADC", "izx", R(69, 16, 0, 37, 253), <<21>>),
     Implied(98, "KIL", R(66, 0, 0, 36, 253), <<>>),
     Addressed(99, "RRA", "izx", R(165, 16, 0, 37, 253), <<129>>) >>

Opcodes_64_68 ==
  << Addressed(100, "NOP", "zp", R(66, 0, 0, 36, 253), <<135>>),
     Addressed(101, "ADC", "zp", R(69, 0, 0, 37, 253), <<21>>),
     Addressed(102, "ROR", "zp", R(129, 0, 0, 37, 253), <<129>>),
     Addressed(103, "RRA", "zp", R(165, 0, 0, 37, 253), <<129>>),
     Implied(104, "PLA", R(66, 0, 0, 36, 253), <<90>>) >>

Opcodes_69_6D ==
  << Immediate(105, "ADC", R(69, 0, 0, 37, 253), 21),
     Immediate(105, "ADC", R(69, 0, 0, 45, 253), 56),
     Implied(106, "ROR", R(129, 0, 0, 37, 253), <<>>),
     Immediate(107, "ARR", R(165, 0, 0, 37, 253), 110),
     JumpIndirect(R(66, 0, 0, 36, 253)),
     JumpIndirectAcrossPage(R(66, 0, 0, 36, 253), 8, 52),
     Addressed(109, "ADC", "abs", R(69, 0, 0, 37, 253), <<21>>) >>

Opcodes_6E_71 ==
  << Addressed(110, "ROR", "abs", R(129, 0, 0, 37, 253), <<129>>),
     Addressed(111, "RRA", "abs", R(165, 0, 0, 37, 253), <<129>>),
     NotTaken("BVS", R(66, 0, 0, 36, 253)),
     Taken("BVS", R(66, 0, 0, 100, 253)),
     TakenToNextPage("BVS", R(66, 0, 0, 100, 253)),
     Indexed(113, "ADC", "izy", R(69, 0, 16, 37, 253), <<21>>),
     IndexedToNextPage(113, "ADC", "izy", R(69, 0, 32, 37, 253), <<21>>) >>

Opcodes_72_76 ==
  << Implied(114, "KIL", R(66, 0, 0, 36, 253), <<>>),
     Indexed(115, "RRA", "izy", R(165, 0, 16, 37, 253), <<129>>),
     IndexedToNextPage(115, "RRA", "izy", R(165, 0, 32, 36, 253), <<127>>),
     Addressed(116, "NOP", "zpx", R(66, 16, 0, 36, 253), <<135>>),
     Addressed(117, "ADC", "zpx", R(69, 16, 0, 37, 253), <<21>>),
     Addressed(118, "ROR", "zpx", R(129, 16, 0, 37, 253), <<129>>) >>

Opcodes_77_7B ==
  << Addressed(119, "RRA", "zpx", R(165, 16, 0, 37, 253), <<129>>),
     Implied(120, "SEI", R(66, 0, 0, 36, 253), <<>>),
     Indexed(121, "ADC", "aby", R(69, 0, 16, 37, 253), <<21>>),
     IndexedToNextPage(121, "ADC", "aby", R(69, 0, 32, 37, 253), <<21>>),
     Implied(122, "NOP", R(66, 0, 0, 36, 253), <<>>),
     Indexed(123, "RRA", "aby", R(165, 0, 16, 37, 253), <<129>>),
     IndexedToNextPage(123, "RRA", "aby", R(165, 0, 32, 36, 253), <<127>>) >>

Opcodes_7C_7E ==
  << Indexed(124, "NOP", "abx", R(66, 16, 0, 36, 253), <<135>>),
     IndexedToNextPage(124, "NOP", "abx", R(66, 32, 0, 36, 253), <<135>>),
     Indexed(125, "ADC", "abx", R(69, 16, 0, 37, 253), <<21>>),
     IndexedToNextPage(125, "ADC", "abx", R(69, 32, 0, 37, 253), <<21>>),
     Indexed(126, "ROR", "abx", R(129, 16, 0, 37, 253), <<129>>),
     IndexedToNextPage(126, "ROR", "abx", R(129, 32, 0, 36, 253), <<127>>) >>

Opcodes_7F_83 ==
  << Indexed(127, "RRA", "abx", R(165, 16, 0, 37, 253), <<129>>),
     IndexedToNextPage(127, "RRA", "abx", R(165, 32, 0, 36, 253), <<127>>),
     Immediate(128, "NOP", R(66, 0, 0, 36, 253), 127),
     Addressed(129, "STA", "izx", R(90, 16, 0, 36, 253), <<>>),
     Immediate(130, "NOP", R(66, 0, 0, 36, 253), 127),
     Addressed(131, "SAX", "izx", R(243, 16, 0, 36, 154), <<>>) >>

Opcodes_84_89 ==
  << Addressed(132, "STY", "zp", R(66, 0, 126, 36, 253), <<>>),
     Addressed(133, "STA", "zp", R(90, 0, 0, 36, 253), <<>>),
     Addressed(134, "STX", "zp", R(66, 60, 0, 36, 253), <<>>),
     Addressed(135, "SAX", "zp", R(243, 204, 0, 36, 154), <<>>),
     Implied(136, "DEY", R(66, 0, 0, 36, 253), <<>>),
     Immediate(137, "NOP", R(66, 0, 0, 36, 253), 127) >>

Opcodes_8A_8F ==
  << Implied(138, "TXA", R(66, 124, 0, 36, 253), <<>>),
     Immediate(139, "XAA", R(165, 0, 0, 36, 253), 238),
     Addressed(140, "STY", "abs", R(66, 0, 126, 36, 253), <<>>),
     Addressed(141, "STA", "abs", R(90, 0, 0, 36, 253), <<>>),
     Addressed(142, "STX", "abs", R(66, 60, 0, 36, 253), <<>>),
     Addressed(143, "SAX", "abs", R(243, 204, 0, 36, 154), <<>>) >>

Opcodes_90_92 ==
  << NotTaken("BCC", R(66, 0, 0, 37, 253)),
     Taken("BCC", R(66, 0, 0, 36, 253)),
     TakenToNextPage("BCC", R(66, 0, 0, 36, 253)),
     Indexed(145, "STA", "izy", R(90, 0, 16, 36, 253), <<>>),
     IndexedToNextPage(145, "STA", "izy", R(90, 0, 32, 36, 253), <<>>),
     Implied(146, "KIL", R(66, 0, 0, 36, 253), <<>>) >>

Opcodes_93_97 ==
  << IndexedToNextPage(147, "AHX", "izy", R(243, 204, 16, 36, 154), <<>>),
     Indexed(147, "AHX", "izy", R(243, 204, 16, 36, 154), <<>>),
     Addressed(148, "STY", "zpx", R(66, 16, 126, 36, 253), <<>>),
     Addressed(149, "STA", "zpx", R(90, 16, 0, 36, 253), <<>>),
     Addressed(150, "STX", "zpy", R(66, 60, 16, 36, 253), <<>>),
     Addressed(151, "SAX", "zpy", R(243, 204, 16, 36, 154), <<>>) >>

Opcodes_98_9B ==
  << Implied(152, "TYA", R(66, 0, 109, 36, 253), <<>>),
     Indexed(153, "STA", "aby", R(90, 0, 16, 36, 253), <<>>),
     IndexedToNextPage(153, "STA", "aby", R(90, 0, 32, 36, 253), <<>>),
     Implied(154, "TXS", R(66, 124, 0, 36, 253), <<>>),
     IndexedToNextPage(155, "TAS", "aby", R(243, 204, 16, 36, 154), <<>>),
     Indexed(155, "TAS", "aby", R(243, 204, 16, 36, 154), <<>>) >>

Opcodes_9C_9E ==
  << IndexedToNextPage(156, "SHY", "abx", R(66, 16, 207, 36, 253), <<>>),
     Indexed(156, "SHY", "abx", R(66, 16, 207, 36, 253), <<>>),
     Indexed(157, "STA", "abx", R(90, 16, 0, 36, 253), <<>>),
     IndexedToNextPage(157, "STA", "abx", R(90, 32, 0, 36, 253), <<>>),
     IndexedToNextPage(158, "SHX", "aby", R(66, 207, 16, 36, 253), <<>>),
     Indexed(158, "SHX", "aby", R(66, 207, 16, 36, 253), <<>>) >>

Opcodes_9F_A3 ==
  << IndexedToNextPage(159, "AHX", "aby", R(243, 204, 16, 36, 154), <<>>),
     Indexed(159, "AHX", "aby", R(243, 204, 16, 36, 154), <<>>),
     Immediate(160, "LDY", R(66, 0, 0, 36, 253), 109),
     Addressed(161, "LDA", "izx", R(66, 16, 0, 36, 253), <<142>>),
     Immediate(162, "LDX", R(66, 0, 0, 36, 253), 124),
     Addressed(163, "LAX", "izx", R(66, 16, 0, 36, 253), <<142>>) >>

Opcodes_A4_A9 ==
  << Addressed(164, "LDY", "zp", R(66, 0, 0, 36, 253), <<142>>),
     Addressed(165, "LDA", "zp", R(66, 0, 0, 36, 253), <<142>>),
     Addressed(166, "LDX", "zp", R(66, 0, 0, 36, 253), <<142>>),
     Addressed(167, "LAX", "zp", R(66, 0, 0, 36, 253), <<142>>),
     Implied(168, "TAY", R(142, 0, 0, 36, 253), <<>>),
     Immediate(169, "LDA", R(66, 0, 0, 36, 253), 142) >>

Opcodes_AA_AF ==
  << Implied(170, "TAX", R(142, 0, 0, 36, 253), <<>>),
     Immediate(171, "LXA", R(165, 0, 0, 36, 253), 243),
     Addressed(172, "LDY", "abs", R(66, 0, 0, 36, 253), <<142>>),
     Addressed(173, "LDA", "abs", R(66, 0, 0, 36, 253), <<142>>),
     Addressed(174, "LDX", "abs", R(66, 0, 0, 36, 253), <<142>>),
     Addressed(175, "LAX", "abs", R(66, 0, 0, 36, 253), <<142>>) >>

Opcodes_B0_B2 ==
  << NotTaken("BCS", R(66, 0, 0, 36, 253)),
     Taken("BCS", R(66, 0, 0, 37, 253)),
     TakenToNextPage("BCS", R(66, 0, 0, 37, 253)),
     Indexed(177, "LDA", "izy", R(66, 0, 16, 36, 253), <<142>>),
     IndexedToNextPage(177, "LDA", "izy", R(66, 0, 32, 36, 253), <<142>>),
     Implied(178, "KIL", R(66, 0, 0, 36, 253), <<>>) >>

Opcodes_B3_B7 ==
  << Indexed(179, "LAX", "izy", R(66, 0, 16, 36, 253), <<142>>),
     IndexedToNextPage(179, "LAX", "izy", R(66, 0, 32, 36, 253), <<142>>),
     Addressed(180, "LDY", "zpx", R(66, 16, 0, 36, 253), <<142>>),
     Addressed(181, "LDA", "zpx", R(66, 16, 0, 36, 253), <<142>>),
     Addressed(182, "LDX", "zpy", R(66, 0, 16, 36, 253), <<142>>),
     Addressed(183, "LAX", "zpy", R(66, 0, 16, 36, 253), <<142>>) >>

Opcodes_B8_BB ==
  << Implied(184, "CLV", R(66, 0, 0, 36, 253), <<>>),
     Indexed(185, "LDA", "aby", R(66, 0, 16, 36, 253), <<142>>),
     IndexedToNextPage(185, "LDA", "aby", R(66, 0, 32, 36, 253), <<142>>),
     Implied(186, "TSX", R(66, 0, 0, 36, 123), <<>>),
     Indexed(187, "LAS", "aby", R(66, 0, 16, 36, 243), <<142>>),
     IndexedToNextPage(187, "LAS", "aby", R(66, 0, 32, 36, 243), <<142>>) >>

Opcodes_BC_BE ==
  << Indexed(188, "LDY", "abx", R(66, 16, 0, 36, 253), <<142>>),
     IndexedToNextPage(188, "LDY", "abx", R(66, 32, 0, 36, 253), <<142>>),
     Indexed(189, "LDA", "abx", R(66, 16, 0, 36, 253), <<142>>),
     IndexedToNextPage(189, "LDA", "abx", R(66, 32, 0, 36, 253), <<142>>),
     Indexed(190, "LDX", "aby", R(66, 0, 16, 36, 253), <<142>>),
     IndexedToNextPage(190, "LDX", "aby", R(66, 0, 32, 36, 253), <<142>>) >>

Opcodes_BF_C3 ==
  << Indexed(191, "LAX", "aby", R(66, 0, 16, 36, 253), <<142>>),
     IndexedToNextPage(191, "LAX", "aby", R(66, 0, 32, 36, 253), <<142>>),
     Immediate(192, "CPY", R(66, 0, 0, 36, 253), 48),
     Addressed(193, "CMP", "izx", R(165, 16, 0, 36, 253), <<135>>),
     Immediate(194, "NOP", R(66, 0, 0, 36, 253), 127),
     Addressed(195, "DCP", "izx", R(165, 16, 0, 36, 253), <<128>>) >>

Opcodes_C4_C9 ==
  << Addressed(196, "CPY", "zp", R(66, 0, 0, 36, 253), <<135>>),
     Addressed(197, "CMP", "zp", R(165, 0, 0, 36, 253), <<135>>),
     Addressed(198, "DEC", "zp", R(66, 0, 0, 36, 253), <<128>>),
     Addressed(199, "DCP", "zp", R(165, 0, 0, 36, 253), <<128>>),
     Implied(200, "INY", R(66, 0, 0, 36, 253), <<>>),
     Immediate(201, "CMP", R(165, 0, 0, 36, 253), 64) >>

Opcodes_CA_CF ==
  << Implied(202, "DEX", R(66, 0, 0, 36, 253), <<>>),
     Immediate(203, "AXS", R(165, 0, 0, 36, 253), 51),
     Addressed(204, "CPY", "abs", R(66, 0, 0, 36, 253), <<135>>),
     Addressed(205, "CMP", "abs", R(165, 0, 0, 36, 253), <<135>>),
     Addressed(206, "DEC", "abs", R(66, 0, 0, 36, 253), <<128>>),
     Addressed(207, "DCP", "abs", R(165, 0, 0, 36, 253), <<128>>) >>

Opcodes_D0_D2 ==
  << NotTaken("BNE", R(66, 0, 0, 38, 253)),
     Taken("BNE", R(66, 0, 0, 36, 253)),
     TakenToNextPage("BNE", R(66, 0, 0, 36, 253)),
     Indexed(209, "CMP", "izy", R(165, 0, 16, 36, 253), <<135>>),
     IndexedToNextPage(209, "CMP", "izy", R(165, 0, 32, 36, 253), <<135>>),
     Implied(210, "KIL", R(66, 0, 0, 36, 253), <<>>) >>

Opcodes_D3_D7 ==
  << Indexed(211, "DCP", "izy", R(165, 0, 16, 36, 253), <<128>>),
     IndexedToNextPage(211, "DCP", "izy", R(165, 0, 32, 36, 253), <<128>>),
     Addressed(212, "NOP", "zpx", R(66, 16, 0, 36, 253), <<135>>),
     Addressed(213, "CMP", "zpx", R(165, 16, 0, 36, 253), <<135>>),
     Addressed(214, "DEC", "zpx", R(66, 16, 0, 36, 253), <<128>>),
     Addressed(215, "DCP", "zpx", R(165, 16, 0, 36, 253), <<128>>) >>

Opcodes_D8_DB ==
  << Implied(216, "CLD", R(66, 0, 0, 36, 253), <<>>),
     Indexed(217, "CMP", "aby", R(165, 0, 16, 36, 253), <<135>>),
     IndexedToNextPage(217, "CMP", "aby", R(165, 0, 32, 36, 253), <<135>>),
     Implied(218, "NOP", R(66, 0, 0, 36, 253), <<>>),
     Indexed(219, "DCP", "aby", R(165, 0, 16, 36, 253), <<128>>),
     IndexedToNextPage(219, "DCP", "aby", R(165, 0, 32, 36, 253), <<128>>) >>

Opcodes_DC_DE ==
  << Indexed(220, "NOP", "abx", R(66, 16, 0, 36, 253), <<135>>),
     IndexedToNextPage(220, "NOP", "abx", R(66, 32, 0, 36, 253), <<135>>),
     Indexed(221, "CMP", "abx", R(165, 16, 0, 36, 253), <<135>>),
     IndexedToNextPage(221, "CMP", "abx", R(165, 32, 0, 36, 253), <<135>>),
     Indexed(222, "DEC", "abx", R(66, 16, 0, 36, 253), <<128>>),
     IndexedToNextPage(222, "DEC", "abx", R(66, 32, 0, 36, 253), <<128>>) >>

Opcodes_DF_E3 ==
  << Indexed(223, "DCP", "abx", R(165, 16, 0, 36, 253), <<128>>),
     IndexedToNextPage(223, "DCP", "abx", R(165, 32, 0, 36, 253), <<128>>),
     Immediate(224, "CPX", R(66, 0, 0, 36, 253), 48),
     Addressed(225, "SBC", "izx", R(69, 16, 0, 37, 253), <<21>>),
     Immediate(226, "NOP", R(66, 0, 0, 36, 253), 127),
     Addressed(227, "ISC", "izx", R(165, 16, 0, 37, 253), <<127>>) >>

Opcodes_E4_E9 ==
  << Addressed(228, "CPX", "zp", R(66, 0, 0, 36, 253), <<135>>),
     Addressed(229, "SBC", "zp", R(69, 0, 0, 37, 253), <<21>>),
     Addressed(230, "INC", "zp", R(66, 0, 0, 36, 253), <<127>>),
     Addressed(231, "ISC", "zp", R(165, 0, 0, 37, 253), <<127>>),
     Implied(232, "INX", R(66, 0, 0, 36, 253), <<>>),
     Immediate(233, "SBC", R(69, 0, 0, 37, 253), 18),
     Immediate(233, "SBC", R(69, 0, 0, 45, 253), 18) >>

Opcodes_EA_EF ==
  << Implied(234, "NOP", R(66, 0, 0, 36, 253), <<>>),
     Immediate(235, "SBC", R(69, 0, 0, 37, 253), 18),
     Immediate(235, "SBC", R(69, 0, 0, 45, 253), 18),
     Addressed(236, "CPX", "abs", R(66, 0, 0, 36, 253), <<135>>),
     Addressed(237, "SBC", "abs", R(69, 0, 0, 37, 253), <<21>>),
     Addressed(238, "INC", "abs", R(66, 0, 0, 36, 253), <<127>>),
     Addressed(239, "ISC", "abs", R(165, 0, 0, 37, 253), <<127>>) >>

Opcodes_F0_F2 ==
  << NotTaken("BEQ", R(66, 0, 0, 36, 253)),
     Taken("BEQ", R(66, 0, 0, 38, 253)),
     TakenToNextPage("BEQ", R(66, 0, 0, 38, 253)),
     Indexed(241, "SBC", "izy", R(69, 0, 16, 37, 253), <<21>>),
     IndexedToNextPage(241, "SBC", "izy", R(69, 0, 32, 37, 253), <<21>>),
     Implied(242, "KIL", R(66, 0, 0, 36, 253), <<>>) >>

Opcodes_F3_F7 ==
  << Indexed(243, "ISC", "izy", R(165, 0, 16, 37, 253), <<127>>),
     IndexedToNextPage(243, "ISC", "izy", R(165, 0, 32, 36, 253), <<127>>),
     Addressed(244, "NOP", "zpx", R(66, 16, 0, 36, 253), <<135>>),
     Addressed(245, "SBC", "zpx", R(69, 16, 0, 37, 253), <<21>>),
     Addressed(246, "INC", "zpx", R(66, 16, 0, 36, 253), <<127>>),
     Addressed(247, "ISC", "zpx", R(165, 16, 0, 37, 253), <<127>>) >>

Opcodes_F8_FB ==
  << Implied(248, "SED", R(66, 0, 0, 36, 253), <<>>),
     Indexed(249, "SBC", "aby", R(69, 0, 16, 37, 253), <<21>>),
     IndexedToNextPage(249, "SBC", "aby", R(69, 0, 32, 37, 253), <<21>>),
     Implied(250, "NOP", R(66, 0, 0, 36, 253), <<>>),
     Indexed(251, "ISC", "aby", R(165, 0, 16, 37, 253), <<127>>),
     IndexedToNextPage(251, "ISC", "aby", R(165, 0, 32, 36, 253), <<127>>) >>

Opcodes_FC_FE ==
  << Indexed(252, "NOP", "abx", R(66, 16, 0, 36, 253), <<135>>),
     IndexedToNextPage(252, "NOP", "abx", R(66, 32, 0, 36, 253), <<135>>),
     Indexed(253, "SBC", "abx", R(69, 16, 0, 37, 253), <<21>>),
     IndexedToNextPage(253, "SBC", "abx", R(69, 32, 0, 37, 253), <<21>>),
     Indexed(254, "INC", "abx", R(66, 16, 0, 36, 253), <<127>>),
     IndexedToNextPage(254, "INC", "abx", R(66, 32, 0, 36, 253), <<127>>) >>

Opcodes_FF ==
  << Indexed(255, "ISC", "abx", R(165, 16, 0, 37, 253), <<127>>),
     IndexedToNextPage(255, "ISC", "abx", R(165, 32, 0, 36, 253), <<127>>) >>

-----------------------------------------------------------------------------
get_nmos6502_opcode_testcases ==
  Opcodes_00_05 \o Opcodes_06_0B \o Opcodes_0C_10 \o Opcodes_11_14 \o Opcodes_15_19
    \o Opcodes_1A_1D \o Opcodes_1E_21 \o Opcodes_22_27 \o Opcodes_28_2D \o Opcodes_2E_31
    \o Opcodes_32_36 \o Opcodes_37_3B \o Opcodes_3C_3E \o Opcodes_3F_43 \o Opcodes_44_49
    \o Opcodes_4A_4F \o Opcodes_50_52 \o Opcodes_53_57 \o Opcodes_58_5B \o Opcodes_5C_5E
    \o Opcodes_5F_63 \o Opcodes_64_68 \o Opcodes_69_6D \o Opcodes_6E_71 \o Opcodes_72_76
    \o Opcodes_77_7B \o Opcodes_7C_7E \o Opcodes_7F_83 \o Opcodes_84_89 \o Opcodes_8A_8F
    \o Opcodes_90_92 \o Opcodes_93_97 \o Opcodes_98_9B \o Opcodes_9C_9E \o Opcodes_9F_A3
    \o Opcodes_A4_A9 \o Opcodes_AA_AF \o Opcodes_B0_B2 \o Opcodes_B3_B7 \o Opcodes_B8_BB
    \o Opcodes_BC_BE \o Opcodes_BF_C3 \o Opcodes_C4_C9 \o Opcodes_CA_CF \o Opcodes_D0_D2
    \o Opcodes_D3_D7 \o Opcodes_D8_DB \o Opcodes_DC_DE \o Opcodes_DF_E3 \o Opcodes_E4_E9
    \o Opcodes_EA_EF \o Opcodes_F0_F2 \o Opcodes_F3_F7 \o Opcodes_F8_FB \o Opcodes_FC_FE
    \o Opcodes_FF

=============================================================================
