---------------------------- MODULE Mnemonics ----------------------------
(***************************************************************************)
(* What the opcodes are: the mnemonics and addressing modes that the       *)
(* comments of src/cpu/src/control_store/ give them.  An instruction of    *)
(* the accumulator is an implied one here, and the bit instructions of the *)
(* CMOS models go by one name for all bits.                                *)
(***************************************************************************)
EXTENDS Integers, Sequences, TLC

NmosMnemonics ==
  << "BRK", "ORA", "KIL", "SLO", "NOP", "ORA", "ASL", "SLO",
     "PHP", "ORA", "ASL", "ANC", "NOP", "ORA", "ASL", "SLO",
     "BPL", "ORA", "KIL", "SLO", "NOP", "ORA", "ASL", "SLO",
     "CLC", "ORA", "NOP", "SLO", "NOP", "ORA", "ASL", "SLO",
     "JSR", "AND", "KIL", "RLA", "BIT", "AND", "ROL", "RLA",
     "PLP", "AND", "ROL", "ANC", "BIT", "AND", "ROL", "RLA",
     "BMI", "AND", "KIL", "RLA", "NOP", "AND", "ROL", "RLA",
     "SEC", "AND", "NOP", "RLA", "NOP", "AND", "ROL", "RLA",
     "RTI", "EOR", "KIL", "SRE", "NOP", "EOR", "LSR", "SRE",
     "PHA", "EOR", "LSR", "ALR", "JMP", "EOR", "LSR", "SRE",
     "BVC", "EOR", "KIL", "SRE", "NOP", "EOR", "LSR", "SRE",
     "CLI", "EOR", "NOP", "SRE", "NOP", "EOR", "LSR", "SRE",
     "RTS", "ADC", "KIL", "RRA", "NOP", "ADC", "ROR", "RRA",
     "PLA", "ADC", "ROR", "ARR", "JMP", "ADC", "ROR", "RRA",
     "BVS", "ADC", "KIL", "RRA", "NOP", "ADC", "ROR", "RRA",
     "SEI", "ADC", "NOP", "RRA", "NOP", "ADC", "ROR", "RRA",
     "NOP", "STA", "NOP", "SAX", "STY", "STA", "STX", "SAX",
     "DEY", "NOP", "TXA", "XAA", "STY", "STA", "STX", "SAX",
     "BCC", "STA", "KIL", "AHX", "STY", "STA", "STX", "SAX",
     "TYA", "STA", "TXS", "TAS", "SHY", "STA", "SHX", "AHX",
     "LDY", "LDA", "LDX", "LAX", "LDY", "LDA", "LDX", "LAX",
     "TAY", "LDA", "TAX", "LXA", "LDY", "LDA", "LDX", "LAX",
     "BCS", "LDA", "KIL", "LAX", "LDY", "LDA", "LDX", "LAX",
     "CLV", "LDA", "TSX", "LAS", "LDY", "LDA", "LDX", "LAX",
     "CPY", "CMP", "NOP", "DCP", "CPY", "CMP", "DEC", "DCP",
     "INY", "CMP", "DEX", "AXS", "CPY", "CMP", "DEC", "DCP",
     "BNE", "CMP", "KIL", "DCP", "NOP", "CMP", "DEC", "DCP",
     "CLD", "CMP", "NOP", "DCP", "NOP", "CMP", "DEC", "DCP",
     "CPX", "SBC", "NOP", "ISC", "CPX", "SBC", "INC", "ISC",
     "INX", "SBC", "NOP", "SBC", "CPX", "SBC", "INC", "ISC",
     "BEQ", "SBC", "KIL", "ISC", "NOP", "SBC", "INC", "ISC",
     "SED", "SBC", "NOP", "ISC", "NOP", "SBC", "INC", "ISC" >>

CmosMnemonics ==
  << "BRK", "ORA", "NOP", "NOP", "TSB", "ORA", "ASL", "RMB",
     "PHP", "ORA", "ASL", "NOP", "TSB", "ORA", "ASL", "BBR",
     "BPL", "ORA", "ORA", "NOP", "TRB", "ORA", "ASL", "RMB",
     "CLC", "ORA", "INC", "NOP", "TRB", "ORA", "ASL", "BBR",
     "JSR", "AND", "NOP", "NOP", "BIT", "AND", "ROL", "RMB",
     "PLP", "AND", "ROL", "NOP", "BIT", "AND", "ROL", "BBR",
     "BMI", "AND", "AND", "NOP", "BIT", "AND", "ROL", "RMB",
     "SEC", "AND", "DEC", "NOP", "BIT", "AND", "ROL", "BBR",
     "RTI", "EOR", "NOP", "NOP", "NOP", "EOR", "LSR", "RMB",
     "PHA", "EOR", "LSR", "NOP", "JMP", "EOR", "LSR", "BBR",
     "BVC", "EOR", "EOR", "NOP", "NOP", "EOR", "LSR", "RMB",
     "CLI", "EOR", "PHY", "NOP", "NOP", "EOR", "LSR", "BBR",
     "RTS", "ADC", "NOP", "NOP", "STZ", "ADC", "ROR", "RMB",
     "PLA", "ADC", "ROR", "NOP", "JMP", "ADC", "ROR", "BBR",
     "BVS", "ADC", "ADC", "NOP", "STZ", "ADC", "ROR", "RMB",
     "SEI", "ADC", "PLY", "NOP", "JMP", "ADC", "ROR", "BBR",
     "BRA", "STA", "NOP", "NOP", "STY", "STA", "STX", "SMB",
     "DEY", "BIT", "TXA", "NOP", "STY", "STA", "STX", "BBS",
     "BCC", "STA", "STA", "NOP", "STY", "STA", "STX", "SMB",
     "TYA", "STA", "TXS", "NOP", "STZ", "STA", "STZ", "BBS",
     "LDY", "LDA", "LDX", "NOP", "LDY", "LDA", "LDX", "SMB",
     "TAY", "LDA", "TAX", "NOP", "LDY", "LDA", "LDX", "BBS",
     "BCS", "LDA", "LDA", "NOP", "LDY", "LDA", "LDX", "SMB",
     "CLV", "LDA", "TSX", "NOP", "LDY", "LDA", "LDX", "BBS",
     "CPY", "CMP", "NOP", "NOP", "CPY", "CMP", "DEC", "SMB",
     "INY", "CMP", "DEX", "NOP", "CPY", "CMP", "DEC", "BBS",
     "BNE", "CMP", "CMP", "NOP", "NOP", "CMP", "DEC", "SMB",
     "CLD", "CMP", "PHX", "NOP", "NOP", "CMP", "DEC", "BBS",
     "CPX", "SBC", "NOP", "NOP", "CPX", "SBC", "INC", "SMB",
     "INX", "SBC", "NOP", "NOP", "CPX", "SBC", "INC", "BBS",
     "BEQ", "SBC", "SBC", "NOP", "NOP", "SBC", "INC", "SMB",
     "SED", "SBC", "PLX", "NOP", "NOP", "SBC", "INC", "BBS" >>

\* The mnemonic of an opcode on a model (0 NMOS, 1 NES, 2 WDC, 3 Rockwell, 4 Synertek): the
\* Synertek 65C02 has no bit instructions in columns 7 and F.
Mnemonic(model, opcode) ==
  IF model < 2 THEN NmosMnemonics[opcode + 1]
  ELSE IF model = 4 /\ opcode % 16 \in {7, 15} THEN "NOP" ELSE CmosMnemonics[opcode + 1]

\* Addressing modes by column of 32 opcodes, but for the exceptions.
NmosColumns ==
  << "imp", "izx", "imp", "izx", "zp", "zp", "zp", "zp",
     "imp", "imm", "imp", "imm", "abs", "abs", "abs", "abs",
     "rel", "izy", "imp", "izy", "zpx", "zpx", "zpx", "zpx",
     "imp", "aby", "imp", "aby", "abx", "abx", "abx", "abx" >>

NmosMode(opcode) ==
  CASE opcode = 32 -> "abs"                                           \* JSR
    [] opcode = 108 -> "ind"                                          \* JMP (abs)
    [] opcode % 32 \in {0, 2} /\ opcode >= 128 -> "imm"
    [] opcode \in {150, 151, 182, 183} -> "zpy"                       \* with X as operand
    [] opcode \in {158, 159, 190, 191} -> "aby"
    [] OTHER -> NmosColumns[(opcode % 32) + 1]

CmosColumns ==
  << "imp", "izx", "imm", "imp", "zp", "zp", "zp", "zp",
     "imp", "imm", "imp", "imp", "abs", "abs", "abs", "zpr",
     "rel", "izy", "izp", "imp", "zpx", "zpx", "zpx", "zp",
     "imp", "aby", "imp", "imp", "abs", "abx", "abx", "zpr" >>

CmosMode(opcode) ==
  CASE opcode = 32 -> "abs"                                           \* JSR
    [] opcode = 108 -> "ind"   [] opcode = 124 -> "iax"               \* JMP (abs), (abs,X)
    [] opcode = 128 -> "rel"                                          \* BRA
    [] opcode \in {160, 192, 224} -> "imm"
    [] opcode = 20 -> "zp"                                            \* TRB zp
    [] opcode \in {60, 188} -> "abx"   [] opcode = 219 -> "zpx"
    [] opcode \in {150, 182} -> "zpy"  [] opcode = 190 -> "aby"
    [] OTHER -> CmosColumns[(opcode % 32) + 1]

SynertekNop == (7 :> "zp") @@ (15 :> "abs") @@ (23 :> "zpx") @@ (31 :> "abs")

Mode(model, opcode) ==
  IF model < 2 THEN NmosMode(opcode)
  ELSE IF model = 4 /\ opcode % 16 \in {7, 15} THEN SynertekNop[opcode % 32]
  ELSE CmosMode(opcode)

=============================================================================
