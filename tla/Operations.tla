----------------------------- MODULE Operations -----------------------------
(***************************************************************************)
(* What the instructions compute: the op_ handlers of                      *)
(* src/cpu/src/qe6502.c without the bus access they end with.  Mnemonics   *)
(* are those of the comments of src/cpu/src/control_store/.                *)
(***************************************************************************)
EXTENDS Alu

\* The instructions by what they do with an operand, and those that only touch registers.
Reading ==
  { "ADC", "AND", "ANC", "ALR", "ARR", "AXS", "XAA", "LXA", "BIT", "CMP", "CPX", "CPY", "EOR",
    "LDA", "LAX", "LAS", "LDX", "LDY", "ORA", "SBC", "PLA", "PLX", "PLY" }

Modifying ==
  { "ASL", "SLO", "LSR", "SRE", "ROL", "RLA", "ROR", "RRA", "INC", "ISC", "DEC", "DCP", "TRB",
    "TSB", "RMB", "SMB" }

Storing          == {"STA", "STX", "STY", "STZ", "SAX"}
StoringUnstably  == {"AHX", "SHX", "SHY", "TAS"}
Pushing          == {"PHA", "PHX", "PHY", "PHP"}
FlagInstructions == {"CLC", "SEC", "CLD", "SED", "CLI", "SEI", "CLV"}
Shifts           == {"ASL", "LSR", "ROL", "ROR", "INC", "DEC"}
Counting         == {"INX", "DEX", "INY", "DEY"}
Transfers        == {"TAX", "TAY", "TXA", "TYA", "TSX", "TXS"}
Conditional      == {"BCC", "BCS", "BNE", "BEQ", "BPL", "BMI", "BVC", "BVS"}

\* The registers named in "set" take the value, and N and Z follow it.
Load(r, set, value) ==
  [update_flags_nz(r, value) EXCEPT !.A = IF "A" \in set THEN value ELSE @,
                                    !.X = IF "X" \in set THEN value ELSE @,
                                    !.Y = IF "Y" \in set THEN value ELSE @,
                                    !.S = IF "S" \in set THEN value ELSE @]

-----------------------------------------------------------------------------
\* Instructions that read an operand v. The CMOS ADC and SBC come here out of decimal mode only.
LogicAndArithmetic(mn, model, r, v) ==
  CASE mn = "ADC" -> Adc(model, r, v)
    [] mn = "AND" -> Load(r, {"A"}, And(r.A, v))
    [] mn = "ANC" -> [Load(r, {"A"}, And(r.A, v)) EXCEPT
                        !.P = (@ \ {"C"}) \cup If("C", And(r.A, v) >= 128)]
    [] mn = "ALR" -> [RightFlags(r, And(r.A, v), LsrResult(And(r.A, v))) EXCEPT
                        !.A = LsrResult(And(r.A, v))]
    [] mn = "ARR" -> IF "D" \in r.P /\ model # nes_model
                     THEN arr_decimal_nmos_value(r, And(r.A, v)) ELSE arr_binary_value(r, And(r.A, v))
    [] mn = "AXS" -> [compare_register_with_value(r, And(r.A, r.X), v) EXCEPT
                        !.X = Byte(And(r.A, r.X) - v)]
    [] mn = "XAA" -> Load(r, {"A"}, And(And(Or(r.A, 238), r.X), v))
    [] mn = "LXA" -> Load(r, {"A", "X"}, And(Or(r.A, 238), v))
    [] mn = "BIT" -> [r EXCEPT !.P = (@ \ {"N", "V", "Z"}) \cup (Flags(v) \cap {"N", "V"})
                                     \cup If("Z", And(r.A, v) = 0)]
    [] mn = "CMP" -> compare_register_with_value(r, r.A, v)
    [] mn = "CPX" -> compare_register_with_value(r, r.X, v)
    [] mn = "CPY" -> compare_register_with_value(r, r.Y, v)

LogicAndLoad(mn, model, r, v) ==
  CASE mn = "EOR" -> Load(r, {"A"}, Xor(r.A, v))
    [] mn = "LDA" -> Load(r, {"A"}, v)
    [] mn = "LAX" -> Load(r, {"A", "X"}, v)
    [] mn = "LAS" -> Load(r, {"A", "X", "S"}, And(r.S, v))
    [] mn = "LDX" -> Load(r, {"X"}, v)
    [] mn = "LDY" -> Load(r, {"Y"}, v)
    [] mn = "ORA" -> Load(r, {"A"}, Or(r.A, v))
    [] mn = "SBC" -> Sbc(model, r, v)
    [] mn = "PLA" -> Load(r, {"A"}, v)
    [] mn = "PLX" -> Load(r, {"X"}, v)
    [] mn = "PLY" -> Load(r, {"Y"}, v)

ReadOp(mn, model, r, v) ==
  IF mn \in {"ADC", "AND", "ANC", "ALR", "ARR", "AXS", "XAA", "LXA", "BIT", "CMP", "CPX", "CPY"}
  THEN LogicAndArithmetic(mn, model, r, v) ELSE LogicAndLoad(mn, model, r, v)

\* BIT # of the CMOS models has no bits 6 and 7 of memory to show.
cmos_bit_imm(r, v) == [r EXCEPT !.P = (@ \ {"Z"}) \cup If("Z", And(r.A, v) = 0)]

-----------------------------------------------------------------------------
\* Implied and accumulator instructions.
FlagOp(mn, P) ==
  CASE mn = "CLC" -> P \ {"C"}   [] mn = "SEC" -> P \cup {"C"}
    [] mn = "CLD" -> P \ {"D"}   [] mn = "SED" -> P \cup {"D"}
    [] mn = "CLI" -> P \ {"I"}   [] mn = "SEI" -> P \cup {"I"}
    [] mn = "CLV" -> P \ {"V"}

AccumulatorOp(mn, r) ==
  CASE mn = "ASL" -> [LeftFlags(r, r.A, AslResult(r.A)) EXCEPT !.A = AslResult(r.A)]
    [] mn = "LSR" -> [RightFlags(r, r.A, LsrResult(r.A)) EXCEPT !.A = LsrResult(r.A)]
    [] mn = "ROL" -> [LeftFlags(r, r.A, RolResult(r.P, r.A)) EXCEPT !.A = RolResult(r.P, r.A)]
    [] mn = "ROR" -> [RightFlags(r, r.A, RorResult(r.P, r.A)) EXCEPT !.A = RorResult(r.P, r.A)]
    [] mn = "INC" -> Load(r, {"A"}, Byte(r.A + 1))
    [] mn = "DEC" -> Load(r, {"A"}, Byte(r.A - 1))

IndexOp(mn, r) ==
  CASE mn = "INX" -> Load(r, {"X"}, Byte(r.X + 1))   [] mn = "DEX" -> Load(r, {"X"}, Byte(r.X - 1))
    [] mn = "INY" -> Load(r, {"Y"}, Byte(r.Y + 1))   [] mn = "DEY" -> Load(r, {"Y"}, Byte(r.Y - 1))

TransferOp(mn, r) ==
  CASE mn = "TAX" -> Load(r, {"X"}, r.A)   [] mn = "TAY" -> Load(r, {"Y"}, r.A)
    [] mn = "TXA" -> Load(r, {"A"}, r.X)   [] mn = "TYA" -> Load(r, {"A"}, r.Y)
    [] mn = "TSX" -> Load(r, {"X"}, r.S)   [] mn = "TXS" -> [r EXCEPT !.S = r.X]

ImpliedOp(mn, r) ==
  IF mn \in FlagInstructions THEN [r EXCEPT !.P = FlagOp(mn, @)]
  ELSE IF mn \in Shifts THEN AccumulatorOp(mn, r)
  ELSE IF mn \in Transfers THEN TransferOp(mn, r) ELSE IndexOp(mn, r)

-----------------------------------------------------------------------------
\* Read-modify-write instructions: the value they write and the registers they leave.
ModifiedValue(mn, opcode, r, v) ==
  CASE mn \in {"ASL", "SLO"} -> AslResult(v)
    [] mn \in {"LSR", "SRE"} -> LsrResult(v)
    [] mn \in {"ROL", "RLA"} -> RolResult(r.P, v)
    [] mn \in {"ROR", "RRA"} -> RorResult(r.P, v)
    [] mn \in {"INC", "ISC"} -> Byte(v + 1)
    [] mn \in {"DEC", "DCP"} -> Byte(v - 1)
    [] mn = "TRB" -> And(v, Complement(r.A))
    [] mn = "TSB" -> Or(v, r.A)
    [] mn = "RMB" -> v - Bit(v, opcode \div 16) * 2^(opcode \div 16)
    [] mn = "SMB" -> v + (1 - Bit(v, (opcode \div 16) - 8)) * 2^((opcode \div 16) - 8)

ModifiedRegisters(mn, model, r, v, new) ==
  CASE mn \in {"ASL", "ROL"} -> LeftFlags(r, v, new)
    [] mn \in {"LSR", "ROR"} -> RightFlags(r, v, new)
    [] mn \in {"INC", "DEC"} -> update_flags_nz(r, new)
    [] mn = "SLO" -> Load(LeftFlags(r, v, new), {"A"}, Or(r.A, new))
    [] mn = "RLA" -> Load(LeftFlags(r, v, new), {"A"}, And(r.A, new))
    [] mn = "SRE" -> Load(RightFlags(r, v, new), {"A"}, Xor(r.A, new))
    [] mn = "RRA" -> Adc(model, RightFlags(r, v, new), new)
    [] mn = "ISC" -> Sbc(model, r, new)
    [] mn = "DCP" -> compare_register_with_value(r, r.A, new)
    [] mn \in {"TRB", "TSB"} -> cmos_bit_imm(r, v)
    [] mn \in {"RMB", "SMB"} -> r

-----------------------------------------------------------------------------
\* The conditions of the branches, and the registers the stores write.
OverflowSwappedMutant(mn, P) ==
  (mn \in {"BCS", "BEQ", "BMI", "BVC"}) =
    ([BCC |-> "C", BCS |-> "C", BNE |-> "Z", BEQ |-> "Z", BPL |-> "N", BMI |-> "N", BVC |-> "V",
      BVS |-> "V"][mn] \in P)

BranchTaken(mn, P) ==
  CASE mn = "BCC" -> "C" \notin P   [] mn = "BCS" -> "C" \in P
    [] mn = "BNE" -> "Z" \notin P   [] mn = "BEQ" -> "Z" \in P
    [] mn = "BPL" -> "N" \notin P   [] mn = "BMI" -> "N" \in P
    [] mn = "BVC" -> "V" \notin P   [] mn = "BVS" -> "V" \in P

\* BBR0..7 and BBS0..7 name the bit they test in their opcode.
BitBranchTaken(opcode, value) ==
  LET i == opcode \div 16 IN IF i < 8 THEN Bit(value, i) = 0 ELSE Bit(value, i - 8) = 1

StoredValue(mn, r) ==
  CASE mn = "STA" -> r.A [] mn = "STX" -> r.X [] mn = "STY" -> r.Y
    [] mn = "STZ" -> 0   [] mn = "SAX" -> And(r.A, r.X)

\* Unstable stores are ANDed with the high byte of the base address plus one.
UnstableValue(mn, r, mask) ==
  CASE mn = "AHX" -> And(And(r.A, r.X), mask)
    [] mn = "SHX" -> And(r.X, mask)
    [] mn = "SHY" -> And(r.Y, mask)
    [] mn = "TAS" -> And(And(r.A, r.X), mask)

PushedValue(mn, r) ==
  CASE mn = "PHA" -> r.A [] mn = "PHX" -> r.X [] mn = "PHY" -> r.Y
    [] mn = "PHP" -> stack_status(r.P, {"B"})

=============================================================================
