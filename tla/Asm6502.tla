------------------------------- MODULE Asm6502 -------------------------------
(***************************************************************************)
(* The assembler of the test tools (src/tools/asm6502).  A program is a    *)
(* sequence of commands; it is compiled by passes that define its symbols  *)
(* until a pass defines none, and one that places its bytes.  Where the    *)
(* code throws, the context keeps the error and the rest is left out.      *)
(***************************************************************************)
EXTENDS Integers, Sequences, TLC

\* An operand is a number or a symbol with a displacement.
sym(name, displacement) == [name |-> name, displacement |-> displacement]
Direct(value) == [name |-> "", displacement |-> value]
Symbol(name) == sym(name, 0)

Blank == [symbols |-> [name \in {} |-> 0], pc |-> 0, output |-> [a \in {} |-> 0], error |-> "none"]

-----------------------------------------------------------------------------
\* The builder: each call appends commands.
org(address)       == <<[op |-> "org", address |-> address]>>
org_symbol(name)   == <<[op |-> "org_symbol", name |-> name]>>
label(name)        == <<[op |-> "label", name |-> name]>>
org_label(address, name)      == org(address) \o label(name)
set(name, value)              == <<[op |-> "set", name |-> name, value |-> value]>>
set_to(name, base, displacement) ==
  <<[op |-> "set_to", name |-> name, target |-> sym(base, displacement)]>>
add_byte(value)      == <<[op |-> "byte", target |-> Direct(value)]>>
add_low(target)      == <<[op |-> "byte", target |-> target]>>
add_word(target)     == <<[op |-> "word", target |-> target]>>
add_relative(target) == <<[op |-> "relative", target |-> target]>>
add_fixed_word(address, target) == <<[op |-> "fixed_word", address |-> address, target |-> target]>>

nmi_vector(target)     == add_fixed_word(65530, target)
reset_vector(target)   == add_fixed_word(65532, target)
brk_irq_vector(target) == add_fixed_word(65534, target)

-----------------------------------------------------------------------------
\* Encodings: the opcode of a mnemonic in an addressing mode.
Rmw(zp, zpx, abs, abx) == [zp |-> zp, zpx |-> zpx, abs |-> abs, abx |-> abx]

IllegalRmw(izx, zp, zpx, abs, abx, aby, izy) ==
  [izx |-> izx, zp |-> zp, zpx |-> zpx, abs |-> abs, abx |-> abx, aby |-> aby, izy |-> izy]

UndocumentedOpcodes ==
  [ AHX |-> [izy |-> 147, aby |-> 159], ALR |-> [imm |-> 75], ANC |-> [imm |-> 11],
    ARR |-> [imm |-> 107], AXS |-> [imm |-> 203],
    DCP |-> IllegalRmw(195, 199, 215, 207, 223, 219, 211),
    ISC |-> IllegalRmw(227, 231, 247, 239, 255, 251, 243),
    LAS |-> [aby |-> 187],
    LAX |-> [izx |-> 163, zp |-> 167, zpy |-> 183, abs |-> 175, aby |-> 191, izy |-> 179],
    LXA |-> [imm |-> 171] ]

MoreUndocumentedOpcodes ==
  [ RLA |-> IllegalRmw(35, 39, 55, 47, 63, 59, 51),
    RRA |-> IllegalRmw(99, 103, 119, 111, 127, 123, 115),
    SAX |-> [izx |-> 131, zp |-> 135, zpy |-> 151, abs |-> 143],
    SHX |-> [aby |-> 158], SHY |-> [abx |-> 156],
    SLO |-> IllegalRmw(3, 7, 23, 15, 31, 27, 19),
    SRE |-> IllegalRmw(67, 71, 87, 79, 95, 91, 83),
    TAS |-> [aby |-> 155], XAA |-> [imm |-> 139] ]

\* The eight modes of the accumulator instructions are 9 + base, 5 + base and so on.
Accumulator(base) ==
  [ imm |-> base + 9, zp |-> base + 5, zpx |-> base + 21, abs |-> base + 13,
    abx |-> base + 29, aby |-> base + 25, izx |-> base + 1, izy |-> base + 17 ]

OfficialOpcodes ==
  [ ADC |-> Accumulator(96), AND |-> Accumulator(32), BIT |-> [zp |-> 36, abs |-> 44],
    CMP |-> Accumulator(192), CPX |-> [imm |-> 224, zp |-> 228, abs |-> 236],
    CPY |-> [imm |-> 192, zp |-> 196, abs |-> 204], DEC |-> Rmw(198, 214, 206, 222),
    EOR |-> Accumulator(64), INC |-> Rmw(230, 246, 238, 254), JMP |-> [abs |-> 76, ind |-> 108],
    LDA |-> Accumulator(160),
    LDX |-> [imm |-> 162, zp |-> 166, zpy |-> 182, abs |-> 174, aby |-> 190],
    LDY |-> [imm |-> 160, zp |-> 164, zpx |-> 180, abs |-> 172, abx |-> 188] ]

MoreOfficialOpcodes ==
  [ ORA |-> Accumulator(0), SBC |-> Accumulator(224),
    STA |-> [m \in {"zp", "zpx", "abs", "abx", "aby", "izx", "izy"} |-> Accumulator(128)[m]],
    STX |-> [zp |-> 134, zpy |-> 150, abs |-> 142], STY |-> [zp |-> 132, zpx |-> 148, abs |-> 140] ]

ShiftOpcodes ==
  [ ASL |-> Rmw(6, 22, 14, 30), LSR |-> Rmw(70, 86, 78, 94), ROL |-> Rmw(38, 54, 46, 62),
    ROR |-> Rmw(102, 118, 110, 126) ]

BranchOpcodes ==
  [ BCC |-> 144, BCS |-> 176, BEQ |-> 240, BMI |-> 48, BNE |-> 208, BPL |-> 16, BVC |-> 80,
    BVS |-> 112 ]

ImpliedOpcodes ==
  [ ASL |-> 10, LSR |-> 74, ROL |-> 42, ROR |-> 106,
    BRK |-> 0, CLC |-> 24, CLD |-> 216, CLI |-> 88, CLV |-> 184, DEX |-> 202, DEY |-> 136,
    INX |-> 232, INY |-> 200, NOP |-> 234, PHA |-> 72, PHP |-> 8, PLA |-> 104, PLP |-> 40,
    RTI |-> 64, RTS |-> 96, SEC |-> 56, SED |-> 248, SEI |-> 120, TAX |-> 170, TAY |-> 168,
    TSX |-> 186, TXA |-> 138, TXS |-> 154, TYA |-> 152 ]

PublicOpcodes == UndocumentedOpcodes @@ MoreUndocumentedOpcodes @@ OfficialOpcodes
             @@ MoreOfficialOpcodes @@ ShiftOpcodes

-----------------------------------------------------------------------------
\* Instructions.
implied(mn)        == add_byte(ImpliedOpcodes[mn])
branch(mn, target) == add_byte(BranchOpcodes[mn]) \o add_relative(target)

\* Three modes have a word of operand; the absolute indirect one is JMP's.
emit_addressed(mn, mode, target) ==
  add_byte(PublicOpcodes[mn][mode])
    \o (IF mode \in {"abs", "abx", "aby", "ind"} THEN add_word(target) ELSE add_low(target))

immediate(mn, value) == emit_addressed(mn, "imm", Direct(value))
jsr(target) == add_byte(32) \o add_word(target)
jmp(target) == emit_addressed("JMP", "abs", target)

\* The undocumented opcodes of one mnemonic, chosen by number.
opcode_imm(opcode, value) == add_byte(opcode) \o add_byte(value)

NopWordOpcodes == {12, 28, 60, 92, 124, 220, 252}

nop_opcode(opcode, target) ==
  add_byte(opcode) \o (IF opcode \in NopWordOpcodes THEN add_word(target) ELSE add_low(target))

-----------------------------------------------------------------------------
\* Compilation.
resolve_target(ctx, target) ==
  IF target.name = "" THEN target.displacement
  ELSE (ctx.symbols[target.name] + target.displacement) % 65536

Undefined(ctx, target) == target.name # "" /\ target.name \notin DOMAIN ctx.symbols

define_symbol(ctx, name, value) ==
  IF name \notin DOMAIN ctx.symbols THEN [ctx EXCEPT !.symbols = (name :> value) @@ @]
  ELSE IF ctx.symbols[name] # value THEN [ctx EXCEPT !.error = "symbol redefined"] ELSE ctx

Put(ctx, address, value) ==
  IF address \in DOMAIN ctx.output THEN [ctx EXCEPT !.error = "memory overwrite"]
  ELSE [ctx EXCEPT !.output = (address :> value % 256) @@ @]

PutWord(ctx, address, value) ==
  Put(Put(ctx, address, value), (address + 1) % 65536, value \div 256)

\* A command's three parts.
Resolve(ctx, cmd) ==
  CASE cmd.op = "label" -> define_symbol(ctx, cmd.name, ctx.pc)
    [] cmd.op = "set" -> define_symbol(ctx, cmd.name, cmd.value)
    [] cmd.op = "set_to" -> IF Undefined(ctx, cmd.target) THEN ctx
                            ELSE define_symbol(ctx, cmd.name, resolve_target(ctx, cmd.target))
    [] OTHER -> ctx

Nearby(distance) == ((distance + 32768) % 65536) - 32768

PlaceRelative(ctx, target) ==
  LET distance == Nearby(resolve_target(ctx, target) - (ctx.pc + 1))
  IN  IF distance \notin -128..127 THEN [ctx EXCEPT !.error = "branch out of range"]
      ELSE Put(ctx, ctx.pc, distance)

Place(ctx, cmd) ==
  IF cmd.op \in {"byte", "word", "relative", "fixed_word"} /\ Undefined(ctx, cmd.target)
  THEN [ctx EXCEPT !.error = "undefined symbol"]
  ELSE CASE cmd.op = "byte" -> Put(ctx, ctx.pc, resolve_target(ctx, cmd.target))
         [] cmd.op = "word" -> PutWord(ctx, ctx.pc, resolve_target(ctx, cmd.target))
         [] cmd.op = "fixed_word" -> PutWord(ctx, cmd.address, resolve_target(ctx, cmd.target))
         [] cmd.op = "relative" -> PlaceRelative(ctx, cmd.target)
         [] OTHER -> ctx

UpdatePc(ctx, cmd) ==
  CASE cmd.op = "org" -> [ctx EXCEPT !.pc = cmd.address]
    [] cmd.op = "org_symbol" /\ cmd.name \notin DOMAIN ctx.symbols ->
         [ctx EXCEPT !.error = "undefined symbol in org"]
    [] cmd.op = "org_symbol" -> [ctx EXCEPT !.pc = ctx.symbols[cmd.name]]
    [] cmd.op \in {"byte", "relative"} -> [ctx EXCEPT !.pc = (@ + 1) % 65536]
    [] cmd.op = "word" -> [ctx EXCEPT !.pc = (@ + 2) % 65536]
    [] OTHER -> ctx

Pass(commands, symbols, Do(_, _)) ==
  LET step(ctx, cmd) ==
        LET done == Do(ctx, cmd)
        IN  IF ctx.error # "none" THEN ctx ELSE IF done.error # "none" THEN done ELSE UpdatePc(done, cmd)
      after[n \in 0..Len(commands)] ==
        IF n = 0 THEN [Blank EXCEPT !.symbols = symbols] ELSE step(after[n - 1], commands[n])
  IN  after[Len(commands)]

\* The passes that define symbols: after one that defines none there is no other. Each of the
\* others defines the symbol of some command.
Resolved(commands) ==
  LET again(last) ==
        LET ctx == Pass(commands, last.ctx.symbols, Resolve)
        IN  IF last.settled THEN last
            ELSE [ctx |-> ctx, settled |-> ctx.error # "none" \/ ctx.symbols = last.ctx.symbols]
      passes[n \in 0..Len(commands) + 1] ==
        IF n = 0 THEN [ctx |-> Blank, settled |-> FALSE] ELSE again(passes[n - 1])
  IN  passes[Len(commands) + 1].ctx

\* Gives the bytes as a function from their addresses, the symbols, and the error.
compile_to_map(commands) ==
  LET resolved == Resolved(commands)
  IN  IF resolved.error # "none" THEN resolved ELSE Pass(commands, resolved.symbols, Place)

-----------------------------------------------------------------------------
\* The program that gives the registers their values and jumps to an address; P goes over the
\* stack.
bootstrap_program(regs, start_at, vectors) ==
  compile_to_map(
    reset_vector(Direct(vectors.reset)) \o nmi_vector(Direct(vectors.nmi))
      \o brk_irq_vector(Direct(vectors.brk_irq)) \o org_label(vectors.reset, "bootstrap")
      \o immediate("LDX", regs.S) \o implied("TXS") \o immediate("LDA", regs.P) \o implied("PHA")
      \o immediate("LDA", regs.A) \o immediate("LDX", regs.X) \o immediate("LDY", regs.Y)
      \o implied("PLP") \o jmp(Direct(start_at))).output

=============================================================================
