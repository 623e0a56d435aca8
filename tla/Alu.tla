---------------------------------- MODULE Alu ----------------------------------
(***************************************************************************)
(* Bytes, 16-bit words, the status register and the arithmetic of the      *)
(* qe6502 core (src/cpu/src/qe6502.c).  A byte is 0..255, a word 0..65535. *)
(* The registers are a record with the fields of qe6502_t: PC, S, A, X, Y, *)
(* P, the address latch "addr" and the data latch "data".  P is the set of *)
(* the names of the flags that are set, "U" being the unused bit 5.        *)
(***************************************************************************)
EXTENDS Integers

nmos_model == 0
nes_model  == 1
wdc_model  == 2
rw_model   == 3
st_model   == 4

Byte(n) == n % 256
Word(n) == n % 65536
Low(w)  == w % 256
High(w) == w \div 256
WithLow(w, b)  == High(w) * 256 + b     \* u16_set_byte(w, 0, b)
WithHigh(w, b) == b * 256 + Low(w)      \* u16_set_byte(w, 1, b)
Address(high, low) == high * 256 + low
Signed(b) == IF b < 128 THEN b ELSE b - 256
Bit(b, i) == (b \div 2^i) % 2
Complement(b) == 255 - b

\* The operators & and | and ^ of C, on bytes.
And(a, b) ==
  LET both(i) == Bit(a, i) * Bit(b, i)
  IN  both(0) + 2 * both(1) + 4 * both(2) + 8 * both(3) + 16 * both(4) + 32 * both(5)
        + 64 * both(6) + 128 * both(7)

Or(a, b)  == a + b - And(a, b)
Xor(a, b) == a + b - 2 * And(a, b)

Units(b) == b % 16
Tens(b)  == b \div 16

-----------------------------------------------------------------------------
\* The status register as a byte and back.
Weight == [C |-> 1, Z |-> 2, I |-> 4, D |-> 8, B |-> 16, U |-> 32, V |-> 64, N |-> 128]

FlagsOf == [b \in 0..255 |-> {f \in DOMAIN Weight : (b \div Weight[f]) % 2 = 1}]
Flags(b) == FlagsOf[b]

StatusByte(P) ==
  LET w(f) == IF f \in P THEN Weight[f] ELSE 0
  IN  w("C") + w("Z") + w("I") + w("D") + w("B") + w("U") + w("V") + w("N")

\* The byte pushed for P: the unused bit is set, B only by BRK and PHP.
stack_status(P, break) == StatusByte((P \cup {"U"} \cup break) \ ({"B"} \ break))

\* What PLP and RTI make of the byte they pull.
PulledFlags(b) == (Flags(b) \cup {"U"}) \ {"B"}

If(flag, condition) == IF condition THEN {flag} ELSE {}
Carry(P) == IF "C" \in P THEN 1 ELSE 0

NZ(value) == If("Z", value = 0) \cup If("N", value >= 128)

update_flags_nz(r, value) == [r EXCEPT !.P = (@ \ {"Z", "N"}) \cup NZ(value)]

update_flags_nzc(r, value, carry) ==
  [r EXCEPT !.P = (@ \ {"C", "Z", "N"}) \cup If("C", carry) \cup NZ(value)]

update_flags_cvzn(r, flags) == [r EXCEPT !.P = (@ \ {"C", "Z", "V", "N"}) \cup flags]

compare_register_with_value(r, reg, value) ==
  update_flags_nzc(r, Byte(reg - value), reg >= value)

-----------------------------------------------------------------------------
\* Shifts: the result, and the registers with its flags.
AslResult(value)    == Byte(value * 2)
LsrResult(value)    == value \div 2
RolResult(P, value) == Byte(value * 2) + Carry(P)
RorResult(P, value) == value \div 2 + 128 * Carry(P)

LeftFlags(r, value, result)  == update_flags_nzc(r, result, value >= 128)
RightFlags(r, value, result) == update_flags_nzc(r, result, value % 2 = 1)

-----------------------------------------------------------------------------
\* Addition and subtraction into A.
BinaryFlags(a, value, sum, result) ==
  If("C", sum > 255) \cup NZ(result)
  \cup If("V", Bit(a, 7) = Bit(value, 7) /\ Bit(a, 7) # Bit(result, 7))

CarryLostMutant(r, value) ==
  LET sum == r.A + value IN
  [update_flags_cvzn(r, BinaryFlags(r.A, value, sum, Byte(sum))) EXCEPT !.A = Byte(sum)]

adc_binary(r, value) ==
  LET sum == r.A + value + Carry(r.P) IN
  [update_flags_cvzn(r, BinaryFlags(r.A, value, sum, Byte(sum))) EXCEPT !.A = Byte(sum)]

\* NMOS: Z from the binary sum, N and V before the tens are corrected.
adc_decimal_nmos(r, value) ==
  LET low    == Units(r.A) + Units(value) + Carry(r.P)
      carry  == IF low > 9 THEN 1 ELSE 0
      high   == Tens(r.A) + Tens(value) + carry
      result == Byte(high * 16 + Units(low - 10 * carry))
      flags  == If("Z", Byte(r.A + value + Carry(r.P)) = 0) \cup If("N", result >= 128)
                \cup If("V", Bit(r.A, 7) = Bit(value, 7) /\ Bit(r.A, 7) # Bit(result, 7))
                \cup If("C", high > 9)
  IN  [update_flags_cvzn(r, flags) EXCEPT !.A = IF high > 9 THEN Byte(result - 160) ELSE result]

adc_value(r, value) ==
  IF "D" \in r.P THEN adc_decimal_nmos(r, value) ELSE adc_binary(r, value)

sbc_decimal_nmos(r, value) ==
  LET low    == Units(r.A) - Units(value) - (1 - Carry(r.P))
      borrow == IF low < 0 THEN 1 ELSE 0
      high   == Tens(r.A) - Tens(value) - borrow
      result == Byte(high * 16 + Units(low + 10 * borrow))
      flags  == If("Z", Byte(r.A + Complement(value) + Carry(r.P)) = 0) \cup If("N", result >= 128)
                \cup If("V", Bit(r.A, 7) # Bit(value, 7) /\ Bit(r.A, 7) # Bit(result, 7))
                \cup If("C", high >= 0)
  IN  [update_flags_cvzn(r, flags) EXCEPT !.A = IF high < 0 THEN Byte(result + 160) ELSE result]

sbc_value(r, value) ==
  IF "D" \in r.P THEN sbc_decimal_nmos(r, value) ELSE adc_binary(r, Complement(value))

\* CMOS: every flag from the corrected result but V.
adc_decimal_cmos(r, value) ==
  LET low    == Units(r.A) + Units(value) + Carry(r.P)
      units  == IF low >= 10 THEN 16 + Units(low + 6) ELSE low
      sum    == units + 16 * Tens(r.A) + 16 * Tens(value)
      result == Byte(IF sum >= 160 THEN sum + 96 ELSE sum)
      same   == Bit(r.A, 7) = Bit(value, 7)
      flags  == If("C", sum >= 160) \cup NZ(result)
                \cup If("V", same /\ IF sum >= 160 THEN sum < 384 ELSE sum >= 128)
  IN  [update_flags_cvzn(r, flags) EXCEPT !.A = result]

\* The words of the source wrap at 16 bits: "high" is below 256 where the tens borrow.
sbc_decimal_cmos(r, value) ==
  LET low    == 15 + Units(r.A) - Units(value) + Carry(r.P)
      units  == IF low < 16 THEN low - 6 ELSE low - 16
      tens   == Word(16 * (Tens(r.A) - Tens(value)) + IF low < 16 THEN 0 ELSE 16)
      probe  == Byte(16 * Units(Tens(tens)) + Units(units) - 16)
      high   == Word(tens + 240)
      result == Byte((IF high < 256 THEN Word(high - 96) ELSE high) + units)
      flags  == If("C", high >= 256) \cup NZ(result)
                \cup If("V", Bit(r.A, 7) # Bit(value, 7) /\ Bit(r.A, 7) # Bit(probe, 7))
  IN  [update_flags_cvzn(r, flags) EXCEPT !.A = result]

\* On the NES model decimal mode has no effect. The CMOS models come here out of decimal mode only.
Adc(model, r, v) == IF model = nes_model THEN adc_binary(r, v) ELSE adc_value(r, v)
Sbc(model, r, v) == IF model = nes_model THEN adc_binary(r, Complement(v)) ELSE sbc_value(r, v)

\* The decimal ADC and SBC of the CMOS models.
CmosDecimal(mn, r, v) == IF mn = "ADC" THEN adc_decimal_cmos(r, v) ELSE sbc_decimal_cmos(r, v)

-----------------------------------------------------------------------------
\* ARR: AND with a rotation right, C and V from bits 6 and 5 of the result.
arr_binary_value(r, value) ==
  LET result == RorResult(r.P, value)
      flags  == If("C", Bit(result, 6) = 1) \cup NZ(result)
                \cup If("V", Bit(result, 6) # Bit(result, 5))
  IN  [update_flags_cvzn(r, flags) EXCEPT !.A = result]

arr_decimal_nmos_value(r, value) ==
  LET rotated == arr_binary_value(r, value)
      fixLow  == Units(value) + Bit(value, 0) > 5
      fixHigh == 16 * Tens(value) + Bit(value, 4) * 16 > 80
      low     == IF fixLow THEN Units(rotated.A + 6) ELSE Units(rotated.A)
      result  == 16 * Tens(rotated.A) + low
  IN  [rotated EXCEPT !.A = IF fixHigh THEN Byte(result + 96) ELSE result,
                      !.P = IF fixHigh THEN @ \cup {"C"} ELSE @ \ {"C"}]

=============================================================================
