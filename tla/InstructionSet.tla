---------------------------- MODULE InstructionSet ----------------------------
(***************************************************************************)
(* What qe6502 promises a program: a 6502 that executes one instruction at *)
(* a time, each in the documented number of cycles, and takes interrupts   *)
(* between instructions.  The microcode is not seen here; addressing modes *)
(* are formulas, and the bus cycles of an instruction are one number.  The *)
(* operations on the registers are those of module Operations.             *)
(***************************************************************************)
EXTENDS Operations, Mnemonics, Memory

VARIABLES
  model,    \* the processor model
  arch      \* the registers and the memory a program sees, and how long its last instruction took

Cmos == model >= wdc_model

Opcode  == At(arch.mem, arch.PC)
mn      == Mnemonic(model, Opcode)
mode    == Mode(model, Opcode)
Operand == At(arch.mem, Word(arch.PC + 1))
Operand16 == WordAt(arch.mem, Word(arch.PC + 1))

-----------------------------------------------------------------------------
\* Addressing modes. Pointers in page zero do not leave it; addresses wrap at 64K.
Bytes ==
  IF mode = "imp" THEN 1
  ELSE IF mode \in {"abs", "abx", "aby", "ind", "iax", "zpr"} THEN 3 ELSE 2

After == Word(arch.PC + Bytes)

Pointer(zp) == At(arch.mem, Byte(zp)) + 256 * At(arch.mem, Byte(zp + 1))

Base ==
  CASE mode \in {"zp", "zpr", "zpx", "zpy"} -> Operand
    [] mode \in {"abs", "abx", "aby"} -> Operand16
    [] mode = "izx" -> Pointer(Operand + arch.X)
    [] mode \in {"izy", "izp"} -> Pointer(Operand)
    [] OTHER -> 0

Index ==
  CASE mode \in {"zpx", "abx"} -> arch.X
    [] mode \in {"zpy", "aby", "izy"} -> arch.Y
    [] OTHER -> 0

EffectiveAddress == IF mode \in {"zpx", "zpy"} THEN Byte(Base + Index) ELSE Word(Base + Index)

Value == IF mode = "imm" THEN Operand ELSE At(arch.mem, EffectiveAddress)

Crosses == mode \in {"abx", "aby", "izy"} /\ High(Base) # High(EffectiveAddress)

-----------------------------------------------------------------------------
\* Kinds of instructions.
Arithmetic == {"ADC", "SBC"}

Reads == { "ADC", "AND", "ANC", "ALR", "ARR", "AXS", "XAA", "LXA", "BIT", "CMP", "CPX", "CPY",
           "EOR", "LDA", "LAX", "LAS", "LDX", "LDY", "ORA", "SBC", "NOP" }
Stores   == {"STA", "STX", "STY", "STZ", "SAX"}
Unstable == {"AHX", "SHX", "SHY", "TAS"}
Modifies == { "ASL", "LSR", "ROL", "ROR", "INC", "DEC", "SLO", "RLA", "SRE", "RRA", "DCP", "ISC",
              "TRB", "TSB", "RMB", "SMB" }
Pushes   == {"PHA", "PHX", "PHY", "PHP"}
Pulls    == {"PLA", "PLX", "PLY", "PLP"}
Branches == {"BCC", "BCS", "BEQ", "BMI", "BNE", "BPL", "BVC", "BVS", "BRA"}
Jumps    == {"JMP", "JSR", "RTS", "RTI", "BRK", "KIL", "BBR", "BBS"}
Implied  == FlagInstructions \cup Transfers \cup {"INX", "INY", "DEX", "DEY"}

InImplied == mn \in Implied \/ (mn \in Modifies /\ mode = "imp")

\* The stack lives in page one and wraps there.
Pushed(m, S, byte) == Poke(m, 256 + S, byte)
PushedWord(m, S, w) == Pushed(Pushed(m, S, High(w)), Byte(S - 1), Low(w))
Pulled(S)     == At(arch.mem, 256 + Byte(S))
PulledWord(S) == Pulled(S) + 256 * Pulled(S + 1)

Straight(a) == [a EXCEPT !.PC = After]

ReadResult ==
  IF mn = "NOP" THEN arch
  ELSE IF mn = "BIT" /\ mode = "imm" THEN cmos_bit_imm(arch, Value)
  ELSE IF Cmos /\ mn \in Arithmetic /\ "D" \in arch.P THEN CmosDecimal(mn, arch, Value)
  ELSE ReadOp(mn, model, arch, Value)

Stored(address, value) == [arch EXCEPT !.mem = Poke(@, address, value)]

\* Where the page is crossed, an unstable store goes to the page of its own value.
UnstableResult ==
  LET value == UnstableValue(mn, arch, Byte(High(Base) + 1))
      done  == Stored(IF Crosses THEN WithHigh(EffectiveAddress, value) ELSE EffectiveAddress,
                      value)
  IN  IF mn = "TAS" THEN [done EXCEPT !.S = And(arch.A, arch.X)] ELSE done

ModifyResult ==
  LET new == ModifiedValue(mn, Opcode, arch, Value)
  IN  [ModifiedRegisters(mn, model, arch, Value, new) EXCEPT
         !.mem = Poke(@, EffectiveAddress, new)]

PullResult ==
  LET up == [arch EXCEPT !.S = Byte(@ + 1)]
  IN  IF mn = "PLP" THEN [up EXCEPT !.P = PulledFlags(Pulled(arch.S + 1))]
      ELSE ReadOp(mn, model, up, Pulled(arch.S + 1))

PushResult ==
  [arch EXCEPT !.mem = Pushed(@, arch.S, PushedValue(mn, arch)), !.S = Byte(@ - 1)]

-----------------------------------------------------------------------------
\* Control flow.
Taken == IF mn \in {"BBR", "BBS"} THEN BitBranchTaken(Opcode, Value)
         ELSE mn = "BRA" \/ BranchTaken(mn, arch.P)

Offset == IF mode = "zpr" THEN At(arch.mem, Word(arch.PC + 2)) ELSE Operand
BranchTarget == Word(After + Signed(Offset))
BranchResult == [arch EXCEPT !.PC = IF Taken THEN BranchTarget ELSE After]

\* The NMOS JMP (indirect) takes both bytes of its target from one page.
JumpTarget ==
  CASE mode = "abs" -> Operand16
    [] mode = "iax" -> WordAt(arch.mem, Word(Operand16 + arch.X))
    [] mode = "ind" /\ Cmos -> WordAt(arch.mem, Operand16)
    [] OTHER -> At(arch.mem, Operand16)
                + 256 * At(arch.mem, WithLow(Operand16, Byte(Low(Operand16) + 1)))

\* JSR reads the high byte of its target after it pushed the return address.
CallResult ==
  LET m == PushedWord(arch.mem, arch.S, Word(arch.PC + 2))
  IN  [arch EXCEPT !.mem = m, !.S = Byte(@ - 2),
                   !.PC = Address(At(m, Word(arch.PC + 2)), Operand)]

ReturnResult ==
  IF mn = "RTS" THEN [arch EXCEPT !.PC = Word(PulledWord(arch.S + 1) + 1), !.S = Byte(@ + 2)]
  ELSE [arch EXCEPT !.PC = PulledWord(arch.S + 2), !.S = Byte(@ + 3),
                    !.P = PulledFlags(Pulled(arch.S + 1))]

\* BRK and the interrupts push PC and P, leave decimal mode on the CMOS models, and go on at their
\* vector.
Entered(from, break, vector) ==
  LET m == Pushed(PushedWord(arch.mem, arch.S, from), Byte(arch.S - 2),
                  stack_status(arch.P, break))
  IN  [arch EXCEPT !.mem = m, !.S = Byte(@ - 3), !.PC = WordAt(m, vector),
                   !.P = (@ \cup {"I"}) \ (IF Cmos THEN {"D"} ELSE {})]

\* An NMI that arrives in time takes the vector of an NMOS BRK or IRQ over.
BrkVectors == IF Cmos THEN {65534} ELSE {65534, 65530}

JumpResults ==
  CASE mn = "JMP" -> {[arch EXCEPT !.PC = JumpTarget]}
    [] mn = "JSR" -> {CallResult}
    [] mn \in {"RTS", "RTI"} -> {ReturnResult}
    [] mn = "BRK" -> {Entered(Word(arch.PC + 2), {"B"}, vector) : vector \in BrkVectors}
    [] mn \in {"BBR", "BBS"} -> {BranchResult}
    [] mn = "KIL" -> {}

\* What an instruction may leave; KIL never ends.
Results ==
  CASE InImplied -> {Straight(ImpliedOp(mn, arch))}
    [] mn \in Reads -> {Straight(ReadResult)}
    [] mn \in Stores -> {Straight(Stored(EffectiveAddress, StoredValue(mn, arch)))}
    [] mn \in Unstable -> {Straight(UnstableResult)}
    [] mn \in Modifies /\ mode # "imp" -> {Straight(ModifyResult)}
    [] mn \in Pushes -> {Straight(PushResult)}
    [] mn \in Pulls -> {Straight(PullResult)}
    [] mn \in Branches -> {BranchResult}
    [] mn \in Jumps -> JumpResults

-----------------------------------------------------------------------------
\* How long they take.
One(condition) == IF condition THEN 1 ELSE 0

ModeCycles ==
  [ imm |-> 2, zp |-> 3, zpx |-> 4, zpy |-> 4, abs |-> 4, abx |-> 4, aby |-> 4,
    izx |-> 6, izy |-> 5, izp |-> 5, imp |-> 2 ]

\* Reads spend a cycle on a crossed page and the CMOS models one on decimal mode. Their one-byte
\* no-operations take one cycle, but for $EA and $CB; a column of three-byte ones of the Synertek
\* model takes three.
ReadCycles ==
  IF Cmos /\ mn = "NOP" /\ mode = "imp" /\ Opcode \notin {234, 203} THEN 1
  ELSE IF mn = "NOP" /\ mode = "abs" /\ model = st_model /\ Opcode % 32 = 15 THEN 3
  ELSE ModeCycles[mode] + One(Crosses) + One(Cmos /\ mn \in Arithmetic /\ "D" \in arch.P)

StoreCycles == ModeCycles[mode] + One(mode \in {"abx", "aby", "izy"})

\* The CMOS models shift abs,X in six cycles where no page is crossed.
ModifyCycles ==
  ModeCycles[mode] + 2 + One(mode \in {"abx", "aby", "izy"}
                             /\ ~(Cmos /\ mn \notin {"INC", "DEC"} /\ ~Crosses))

BranchCycles == 2 + One(Taken) + One(Taken /\ High(After) # High(BranchTarget))

JumpCycles ==
  CASE mn = "JMP" -> IF mode = "abs" THEN 3 ELSE IF Cmos THEN 6 ELSE 5
    [] mn = "BRK" -> 7
    [] mn \in {"BBR", "BBS"} -> BranchCycles + 3
    [] OTHER -> 6

Cycles ==
  CASE InImplied -> 2
    [] mn \in Reads -> ReadCycles
    [] mn \in Stores \cup Unstable -> StoreCycles
    [] mn \in Modifies /\ mode # "imp" -> ModifyCycles
    [] mn \in Pushes -> 3
    [] mn \in Pulls -> 4
    [] mn \in Branches -> BranchCycles
    [] mn \in Jumps -> JumpCycles

InterruptCycles == 7

-----------------------------------------------------------------------------
Instruction ==
  /\ arch.phase = "running"
  /\ \E result \in Results : arch' = [result EXCEPT !.took = Cycles]

\* In place of the instruction at PC, for NMI or IRQ.
Interrupt ==
  /\ arch.phase = "running"
  /\ \E vector \in {65530, 65534} :
       arch' = [Entered(arch.PC, {}, vector) EXCEPT !.took = InterruptCycles]

\* The host patches the memory between two instructions.
Rewrite == arch' = [arch EXCEPT !.mem = arch'.mem]

\* The host writes the memory while an instruction is under way: nothing is promised of it.
Disturb == arch'.phase = "disturbed"
Resume  == arch.phase = "disturbed" /\ arch'.phase = "running"

\* A reset leaves the memory, and of the registers nothing.
Reset == arch'.phase = "resetting" /\ arch'.took = 0

Restarted ==
  [ PC |-> WordAt(arch.mem, 65532), S |-> 189, A |-> 0, X |-> 192, Y |-> 0,
    P |-> {"Z", "B", "I"}, mem |-> arch.mem, phase |-> "running", took |-> 17 ]

Restart == arch.phase = "resetting" /\ arch' = Restarted

Init == arch.phase \in {"running", "resetting"} /\ arch.took = 0

Next ==
  /\ UNCHANGED model
  /\ Instruction \/ Interrupt \/ Rewrite \/ Disturb \/ Resume \/ Reset \/ Restart

Spec == Init /\ [][Next]_<<model, arch>>

=============================================================================
