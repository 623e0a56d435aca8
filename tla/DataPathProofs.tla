---------------------------- MODULE DataPathProofs ----------------------------
(***************************************************************************)
(* Proofs about modules Alu and DataPath, for every value of the registers *)
(* and operands: addition and subtraction are those of module Arithmetic,  *)
(* binary and decimal, whatever correction the handlers compute them with; *)
(* comparisons subtract, rotations undo each other, the status register    *)
(* survives the stack; every handler keeps the registers, the address and  *)
(* the byte it drives within their widths, and those that may follow a     *)
(* write do without the bus.                                               *)
(***************************************************************************)
EXTENDS DataPath, Arithmetic, TLAPS

Sums == {"C", "Z", "V", "N"}

\* An addition or subtraction ends by setting A and the four flags of Sums, and nothing else.
Result(r, flags, a) == [update_flags_cvzn(r, flags) EXCEPT !.A = a]

LEMMA Updated ==
  ASSUME NEW r \in Registers, NEW flags \in SUBSET Sums, NEW a \in 0..255
  PROVE  /\ Result(r, flags, a) \in Registers
         /\ Result(r, flags, a).A = a
         /\ \A f \in Sums : f \in Result(r, flags, a).P <=> f \in flags
<1> DEFINE p == (r.P \ Sums) \cup flags
           s == Result(r, flags, a)
<1>1. p \in SUBSET Flag
  BY DEF Registers, Flag, Sums
<1>2. \A f \in Sums : f \in p <=> f \in flags
  OBVIOUS
<1>3. s = [[r EXCEPT !.P = p] EXCEPT !.A = a]
  BY Zenon DEF Result, update_flags_cvzn, Sums
<1> HIDE DEF p, s
<1>4. s.A = a /\ s.P = p
  BY <1>3 DEF Registers
<1>5. s \in Registers
  <2> DEFINE q == [r EXCEPT !.P = p]
  <2>1. q \in Registers
    BY <1>1 DEF Registers
  <2> HIDE DEF q
  <2>2. [q EXCEPT !.A = a] \in Registers
    BY <2>1 DEF Registers
  <2>3. QED
    BY <1>3, <2>2 DEF q
<1>6. QED
  BY <1>1, <1>2, <1>4, <1>5 DEF p, s

\* So each of the four flags is the condition it was collected for.
LEMMA Finished ==
  ASSUME NEW r \in Registers, NEW flags \in SUBSET Sums, NEW a \in 0..255
  PROVE  /\ Result(r, flags, a) \in Registers
         /\ Result(r, flags, a).A = a
         /\ "C" \in Result(r, flags, a).P <=> "C" \in flags
         /\ "Z" \in Result(r, flags, a).P <=> "Z" \in flags
         /\ "N" \in Result(r, flags, a).P <=> "N" \in flags
         /\ "V" \in Result(r, flags, a).P <=> "V" \in flags
<1>1. /\ Result(r, flags, a) \in Registers
      /\ Result(r, flags, a).A = a
      /\ \A f \in Sums : f \in Result(r, flags, a).P <=> f \in flags
  BY Updated
<1>2. QED
  BY <1>1 DEF Sums

-----------------------------------------------------------------------------
\* Bit 7 is the sign.
LEMMA SignBit ==
  \A b \in 0..255 : Bit(b, 7) = IF b >= 128 THEN 1 ELSE 0
<1>1. 2^7 = 128
  OBVIOUS
<1>2. QED
  BY <1>1 DEF Bit

\* A sum of two bytes and a carry wraps at most once.
LEMMA WrapsOnce ==
  \A n \in 0..511 : Byte(n) \in 0..255 /\ Byte(n) = IF n > 255 THEN n - 256 ELSE n
BY DEF Byte

\* The carry as the handler and as the reference read it.
LEMMA CarryIsBit ==
  ASSUME NEW P
  PROVE  CarryOf(P) \in 0..1 /\ Carry(P) = CarryOf(P)
BY DEF Carry, CarryOf

\* Overflow read from the three sign bits is that the signed sum does not fit.
SignsDiffer(a, v, b) == Bit(a, 7) = Bit(v, 7) /\ Bit(a, 7) # Bit(b, 7)
TooLarge(a, v, c) == SignedByte(a) + SignedByte(v) + c \notin -128..127

LEMMA SignedOverflow ==
  ASSUME NEW a \in 0..255, NEW v \in 0..255, NEW c \in 0..1
  PROVE  SignsDiffer(a, v, Byte(a + v + c)) <=> TooLarge(a, v, c)
<1> DEFINE n == a + v + c
           b == Byte(n)
<1>1. n \in 0..511
  OBVIOUS
<1> HIDE DEF n
<1>2. b \in 0..255 /\ b = IF n > 255 THEN n - 256 ELSE n
  BY <1>1, WrapsOnce
<1>3. /\ Bit(a, 7) = IF a >= 128 THEN 1 ELSE 0
      /\ Bit(v, 7) = IF v >= 128 THEN 1 ELSE 0
      /\ Bit(b, 7) = IF b >= 128 THEN 1 ELSE 0
  BY <1>2, SignBit
<1> HIDE DEF b
<1>4. SignsDiffer(a, v, b) <=> TooLarge(a, v, c)
  BY <1>2, <1>3 DEF n, SignsDiffer, TooLarge, SignedByte
<1>5. QED
  BY <1>4 DEF b, n

\* adc_binary is addition: the sum, its carry, its signed overflow, zero and sign.
THEOREM AdcBinaryIsSum ==
  ASSUME NEW r \in Registers, NEW v \in 0..255
  PROVE  adc_binary(r, v) \in Registers /\ BinarySum(r, v, adc_binary(r, v))
<1> DEFINE c == CarryOf(r.P)
           sum == r.A + v + c
           b == Byte(sum)
           flags == BinaryFlags(r.A, v, sum, b)
           s == Result(r, flags, b)
<1>1. c \in 0..1 /\ Carry(r.P) = c /\ r.A \in 0..255
  BY CarryIsBit DEF Registers
<1> HIDE DEF c
<1>2. sum \in 0..511
  <2> DEFINE a == r.A
  <2>1. a \in 0..255
    BY <1>1
  <2> HIDE DEF a
  <2>2. a + v + c \in 0..511
    BY <1>1, <2>1
  <2>3. QED
    BY <2>2 DEF a
<1> HIDE DEF sum
<1>3. b \in 0..255
  BY <1>2, WrapsOnce
<1>4. adc_binary(r, v) = s
  BY <1>1 DEF adc_binary, Result, sum
<1>5. b = sum % 256
  BY DEF Byte
<1>6. /\ flags \in SUBSET Sums
      /\ "C" \in flags <=> sum > 255
      /\ "Z" \in flags <=> b = 0
      /\ "N" \in flags <=> b >= 128
      /\ "V" \in flags <=> SignsDiffer(r.A, v, b)
  BY DEF BinaryFlags, NZ, If, SignsDiffer, Sums
<1>7. SignsDiffer(r.A, v, b) <=> TooLarge(r.A, v, c)
  BY <1>1, SignedOverflow DEF sum
<1> HIDE DEF b, flags, s
<1>8. /\ s \in Registers
      /\ s.A = b
      /\ "C" \in s.P <=> sum > 255
      /\ "Z" \in s.P <=> b = 0
      /\ "N" \in s.P <=> b >= 128
      /\ "V" \in s.P <=> TooLarge(r.A, v, c)
  <2>1. /\ s \in Registers
        /\ s.A = b
        /\ "C" \in s.P <=> "C" \in flags
        /\ "Z" \in s.P <=> "Z" \in flags
        /\ "N" \in s.P <=> "N" \in flags
        /\ "V" \in s.P <=> "V" \in flags
    BY <1>3, <1>6, Finished DEF s
  <2>2. QED
    BY <1>6, <1>7, <2>1
<1>9. SignAndZero(s) /\ Has(s, "V", TooLarge(r.A, v, c))
  BY <1>8 DEF SignAndZero, Has, TooLarge
<1>10. BinarySum(r, v, s)
  BY <1>5, <1>8, <1>9 DEF BinarySum, sum, c, TooLarge, Has
<1>11. QED
  BY <1>4, <1>8, <1>10

\* Subtraction is the addition of the complement.
LEMMA SignedComplement ==
  \A v \in 0..255 : Complement(v) \in 0..255 /\ SignedByte(Complement(v)) = -1 - SignedByte(v)
BY DEF Complement, SignedByte

LEMMA SubtractionWraps ==
  \A n \in -256..255 : (n + 256) % 256 = n % 256 /\ (n + 256 > 255 <=> n >= 0)
OBVIOUS

\* adc_binary of the complement is subtraction: the difference, no borrow, overflow, zero and sign.
THEOREM SbcBinaryIsDifference ==
  ASSUME NEW r \in Registers, NEW v \in 0..255
  PROVE  /\ adc_binary(r, Complement(v)) \in Registers
         /\ BinaryDifference(r, v, adc_binary(r, Complement(v)))
<1> DEFINE w == Complement(v)
           s == adc_binary(r, w)
           c == CarryOf(r.P)
           a == r.A
           n == a - v - (1 - c)
<1>1. w \in 0..255 /\ SignedByte(w) = -1 - SignedByte(v) /\ w = 255 - v
  BY SignedComplement DEF Complement
<1>2. c \in 0..1 /\ a \in 0..255
  BY CarryIsBit DEF Registers
<1> HIDE DEF w
<1>3. s \in Registers /\ BinarySum(r, w, s)
  BY <1>1, AdcBinaryIsSum
<1> HIDE DEF s, c, a
<1>4. n \in -256..255 /\ a + w + c = n + 256
  BY <1>1, <1>2
<1> HIDE DEF n
<1>5. /\ s.A = (n + 256) % 256
      /\ Has(s, "C", n + 256 > 255)
      /\ Has(s, "V", SignedByte(a) + SignedByte(w) + c \notin -128..127)
      /\ SignAndZero(s)
  BY <1>3, <1>4 DEF BinarySum, a, c
<1>6. s.A = n % 256 /\ Has(s, "C", n >= 0)
  BY <1>4, <1>5, SubtractionWraps DEF Has
<1>7. SignedByte(a) \in Int /\ SignedByte(v) \in Int
  BY <1>2 DEF SignedByte
<1>8. SignedByte(a) + SignedByte(w) + c = SignedByte(a) - SignedByte(v) - (1 - c)
  BY <1>1, <1>2, <1>7
<1>9. BinaryDifference(r, v, s)
  BY <1>5, <1>6, <1>8 DEF BinaryDifference, DifferenceFlags, Borrow, n, a, c
<1>10. QED
  BY <1>3, <1>9 DEF s, w

-----------------------------------------------------------------------------
\* Bytes of two digits.
LEMMA BytesAreBytes ==
  \A n \in Int : Byte(n) \in 0..255
BY DEF Byte

LEMMA DigitsOf ==
  ASSUME NEW a \in 0..255
  PROVE  /\ Units(a) \in 0..15 /\ Tens(a) \in 0..15
         /\ a = 16 * Tens(a) + Units(a)
         /\ FromDecimal(a) = 10 * Tens(a) + Units(a)
         /\ IsDecimal(a) => Units(a) \in 0..9 /\ Tens(a) \in 0..9
BY DEF Units, Tens, FromDecimal, IsDecimal

TwoDigits(tens, units) == 16 * tens + units

LEMMA ReadDigits ==
  ASSUME NEW t \in 0..9, NEW u \in 0..9
  PROVE  /\ FromDecimal(TwoDigits(t, u)) = 10 * t + u
         /\ IsDecimal(TwoDigits(t, u))
<1> DEFINE n == TwoDigits(t, u)
<1>1. n \div 16 = t /\ n % 16 = u
  BY DEF TwoDigits
<1> HIDE DEF n
<1>2. QED
  BY <1>1 DEF FromDecimal, IsDecimal, n

\* The decimal ADC of the NMOS models corrects each digit that exceeds nine: for two decimal
\* operands it leaves the two digits of the sum and the carry out of them, for any other operands
\* still a byte.
THEOREM AdcDecimalNmosIsSum ==
  ASSUME NEW r \in Registers, NEW v \in 0..255
  PROVE  /\ adc_decimal_nmos(r, v) \in Registers
         /\ NmosSumFlags(r, v, adc_decimal_nmos(r, v))
         /\ IsDecimal(r.A) /\ IsDecimal(v) => DecimalSum(r, v, adc_decimal_nmos(r, v))
<1> DEFINE c == CarryOf(r.P)
           a == r.A
           low == Units(a) + Units(v) + c
           carry == IF low > 9 THEN 1 ELSE 0
           high == Tens(a) + Tens(v) + carry
           u == Units(low - 10 * carry)
           b == Byte(high * 16 + u)
           flags == If("Z", Byte(a + v + c) = 0) \cup If("N", b >= 128)
                     \cup If("V", Bit(a, 7) = Bit(v, 7) /\ Bit(a, 7) # Bit(b, 7))
                     \cup If("C", high > 9)
           new == IF high > 9 THEN Byte(b - 160) ELSE b
           s == Result(r, flags, new)
<1>1. c \in 0..1 /\ Carry(r.P) = c /\ a \in 0..255
  BY CarryIsBit DEF Registers
<1>2. adc_decimal_nmos(r, v) = s
  BY <1>1 DEF adc_decimal_nmos, Result
<1>3. /\ flags \in SUBSET Sums
      /\ "C" \in flags <=> high > 9
      /\ "Z" \in flags <=> Byte(a + v + c) = 0
  BY DEF If, Sums
<1> HIDE DEF c, a, flags
<1>4. /\ Units(a) \in 0..15 /\ Tens(a) \in 0..15 /\ Units(v) \in 0..15 /\ Tens(v) \in 0..15
      /\ IsDecimal(a) => Units(a) \in 0..9 /\ Tens(a) \in 0..9
      /\ IsDecimal(v) => Units(v) \in 0..9 /\ Tens(v) \in 0..9
      /\ FromDecimal(a) = 10 * Tens(a) + Units(a)
      /\ FromDecimal(v) = 10 * Tens(v) + Units(v)
  BY <1>1, DigitsOf
<1>5. low \in 0..31 /\ carry \in 0..1
  BY <1>1, <1>4
<1>6. high \in 0..31 /\ u \in 0..15
  BY <1>1, <1>4, <1>5 DEF Units
<1>7. b \in 0..255 /\ new \in 0..255
  <2>1. high * 16 + u \in Int
    BY <1>6
  <2> HIDE DEF high, u
  <2>2. b \in 0..255
    BY <2>1, BytesAreBytes
  <2> HIDE DEF b
  <2>3. b - 160 \in Int
    BY <2>2
  <2>4. QED
    BY <2>2, <2>3, BytesAreBytes
<1>8. /\ s \in Registers
      /\ s.A = new
      /\ "C" \in s.P <=> high > 9
      /\ "Z" \in s.P <=> Byte(a + v + c) = 0
  <2> HIDE DEF new, high
  <2>1. /\ s \in Registers
        /\ s.A = new
        /\ "C" \in s.P <=> "C" \in flags
        /\ "Z" \in s.P <=> "Z" \in flags
    BY <1>3, <1>7, Finished
  <2> HIDE DEF s
  <2>2. QED
    BY <1>3, <2>1, Zenon
<1> HIDE DEF s
<1>9. ASSUME IsDecimal(a), IsDecimal(v)
      PROVE  DecimalSum(r, v, s)
  <2> DEFINE t == IF high > 9 THEN high - 10 ELSE high
             sum == FromDecimal(a) + FromDecimal(v) + c
  <2>1. low \in 0..19 /\ low - 10 * carry \in 0..9
    BY <1>1, <1>4, <1>9
  <2>2. u = low - 10 * carry
    BY <2>1 DEF Units
  <2>3. high \in 0..19 /\ t \in 0..9
    BY <1>4, <1>5, <1>9
  <2>4. sum = 10 * high + u
    <3>1. sum = 10 * (Tens(a) + Tens(v)) + low
      <4>1. /\ Units(a) \in Int /\ Tens(a) \in Int /\ Units(v) \in Int /\ Tens(v) \in Int
            /\ FromDecimal(a) = 10 * Tens(a) + Units(a) /\ FromDecimal(v) = 10 * Tens(v) + Units(v)
        BY <1>4
      <4> QED  BY <1>1, <4>1
    <3>2. 10 * high = 10 * (Tens(a) + Tens(v)) + 10 * carry  BY <1>4, <1>5
    <3> QED  BY <1>1, <1>4, <1>5, <2>2, <3>1, <3>2
  <2>5. u \in 0..9
    BY <2>1, <2>2
  <2> HIDE DEF low, carry, high, u, sum
  <2>6. new = TwoDigits(t, u)
    BY <2>3, <2>5 DEF Byte, TwoDigits
  <2>7. sum % 100 = 10 * t + u /\ (sum > 99 <=> high > 9)
    BY <2>3, <2>4, <2>5
  <2> HIDE DEF t, new
  <2>8. FromDecimal(s.A) = sum % 100 /\ IsDecimal(s.A)
    BY <1>8, <2>3, <2>5, <2>6, <2>7, ReadDigits
  <2>9. Has(s, "C", sum > 99)
    BY <1>8, <2>7 DEF Has
  <2>10. QED
    BY <2>8, <2>9 DEF DecimalSum, DecimalResult, sum, a, c
<1>10. NmosSumFlags(r, v, s)
  BY <1>8 DEF NmosSumFlags, Has, Byte, a, c
<1>11. QED
  BY <1>2, <1>8, <1>9, <1>10 DEF a

\* A difference of bytes as a high digit, which may be negative, and a low one. Its sign, its bit 7
\* and its signed overflow do not depend on how the low digit is corrected.
SignsLeave(a, v, b) == Bit(a, 7) # Bit(v, 7) /\ Bit(a, 7) # Bit(b, 7)
TooFar(a, v, c)     == SignedByte(a) - SignedByte(v) - (1 - c) \notin -128..127

LEMMA HighDigit ==
  ASSUME NEW h \in -16..15, NEW x \in 0..15
  PROVE  /\ 16 * h + x \in -256..255
         /\ 16 * h + x >= 0 <=> h >= 0
         /\ Byte(16 * h + x) \in 0..255
         /\ Byte(16 * h + x) >= 128 <=> h \in -8..-1 \/ h >= 8
<1> DEFINE n == 16 * h + x
<1>1. n \in -256..255 /\ (n >= 0 <=> h >= 0)
  OBVIOUS
<1>2. CASE h >= 0
  <2>1. n % 256 = n
    BY <1>1, <1>2
  <2>2. n >= 128 <=> h >= 8
    BY <1>2
  <2> HIDE DEF n
  <2>3. Byte(n) \in 0..255 /\ (Byte(n) >= 128 <=> h \in -8..-1 \/ h >= 8)
    BY <1>1, <1>2, <2>1, <2>2 DEF Byte
  <2> QED
    BY <1>1, <2>3 DEF n
<1>3. CASE h < 0
  <2>1. n % 256 = n + 256
    BY <1>1, <1>3
  <2>2. n + 256 >= 128 <=> h >= -8
    BY <1>3
  <2> HIDE DEF n
  <2>3. Byte(n) \in 0..255 /\ (Byte(n) >= 128 <=> h \in -8..-1 \/ h >= 8)
    BY <1>1, <1>3, <2>1, <2>2 DEF Byte
  <2> QED
    BY <1>1, <2>3 DEF n
<1> QED
  BY <1>2, <1>3

LEMMA SignedBorrow ==
  ASSUME NEW a \in 0..255, NEW v \in 0..255, NEW c \in 0..1, NEW b \in 0..255,
         (b >= 128) <=> (a - v - (1 - c)) % 256 >= 128
  PROVE  SignsLeave(a, v, b) <=> TooFar(a, v, c)
<1> DEFINE n == a - v - (1 - c)
<1>1. /\ Bit(a, 7) = IF a >= 128 THEN 1 ELSE 0
      /\ Bit(v, 7) = IF v >= 128 THEN 1 ELSE 0
      /\ Bit(b, 7) = IF b >= 128 THEN 1 ELSE 0
  BY SignBit
<1>2. n \in -256..255
  OBVIOUS
<1>3. n % 256 = IF n < 0 THEN n + 256 ELSE n
  <2> HIDE DEF n
  <2> QED  BY <1>2
<1>4. b >= 128 <=> n >= 128 \/ (n >= -128 /\ n < 0)
  <2>1. b >= 128 <=> n % 256 >= 128
    OBVIOUS
  <2> HIDE DEF n
  <2> QED  BY <1>2, <1>3, <2>1
<1>5. SignsLeave(a, v, b) <=> (a >= 128) # (v >= 128) /\ (a >= 128) # (b >= 128)
  BY <1>1 DEF SignsLeave
<1>6. TooFar(a, v, c) <=>
        n + (IF v >= 128 THEN 256 ELSE 0) - (IF a >= 128 THEN 256 ELSE 0) \notin -128..127
  <2>1. SignedByte(a) - SignedByte(v) - (1 - c)
          = n + (IF v >= 128 THEN 256 ELSE 0) - (IF a >= 128 THEN 256 ELSE 0)
    BY DEF SignedByte
  <2> HIDE DEF n
  <2> QED  BY <2>1, SMT DEF TooFar
<1>7. CASE a >= 128
  <2>1. SignsLeave(a, v, b) <=> ~(v >= 128) /\ ~(b >= 128)
    BY <1>5, <1>7
  <2>2. TooFar(a, v, c) <=> n + (IF v >= 128 THEN 256 ELSE 0) - 256 \notin -128..127
    BY <1>6, <1>7
  <2>3. (v < 128 => n >= 0) /\ (v >= 128 => n >= -128 /\ n < 128)
    BY <1>7
  <2> HIDE DEF n
  <2> QED
    BY <1>2, <1>4, <1>7, <2>1, <2>2, <2>3
<1>8. CASE a < 128
  <2>1. SignsLeave(a, v, b) <=> v >= 128 /\ b >= 128
    BY <1>5, <1>8
  <2>2. TooFar(a, v, c) <=> n + (IF v >= 128 THEN 256 ELSE 0) \notin -128..127
    BY <1>6, <1>8
  <2>3. n < 128 /\ (v >= 128 => n < 0) /\ (v < 128 => n >= -128)
    BY <1>8
  <2> HIDE DEF n
  <2> QED
    BY <1>2, <1>4, <1>8, <2>1, <2>2, <2>3
<1> QED
  BY <1>7, <1>8

LEMMA BorrowedDigits ==
  ASSUME NEW a \in 0..255, NEW v \in 0..255, NEW c \in 0..1, NEW h \in -16..15, NEW x \in 0..15,
         NEW y \in 0..15, a - v - (1 - c) = 16 * h + x
  PROVE  /\ a - v - (1 - c) >= 0 <=> h >= 0
         /\ (a - v - (1 - c)) % 256 >= 128 <=> Byte(16 * h + y) >= 128
         /\ SignsLeave(a, v, Byte(16 * h + y)) <=> TooFar(a, v, c)
<1> DEFINE n == a - v - (1 - c)
           b == Byte(16 * h + y)
<1>1. /\ n >= 0 <=> h >= 0
      /\ Byte(n) >= 128 <=> h \in -8..-1 \/ h >= 8
  BY HighDigit, ZenonT(30)
<1>2. b \in 0..255 /\ (b >= 128 <=> h \in -8..-1 \/ h >= 8)
  BY HighDigit, ZenonT(30)
<1>3. (b >= 128) <=> (a - v - (1 - c)) % 256 >= 128
  BY <1>1, <1>2, Zenon DEF Byte
<1> HIDE DEF b
<1>4. SignsLeave(a, v, b) <=> TooFar(a, v, c)
  BY <1>2, <1>3, SignedBorrow
<1> QED
  BY <1>1, <1>3, <1>4 DEF b

\* The decimal SBC of the NMOS models corrects each digit that borrows. Its flags are those of the
\* difference of the bytes, also where the operands are no decimal digits.
THEOREM SbcDecimalNmosIsDifference ==
  ASSUME NEW r \in Registers, NEW v \in 0..255
  PROVE  /\ sbc_decimal_nmos(r, v) \in Registers
         /\ DifferenceFlags(r, v, sbc_decimal_nmos(r, v))
         /\ NmosDifferenceFlags(r, v, sbc_decimal_nmos(r, v))
         /\ IsDecimal(r.A) /\ IsDecimal(v) => DecimalDifference(r, v, sbc_decimal_nmos(r, v))
<1> DEFINE c == CarryOf(r.P)
           a == r.A
           low == Units(a) - Units(v) - (1 - c)
           borrow == IF low < 0 THEN 1 ELSE 0
           high == Tens(a) - Tens(v) - borrow
           u == Units(low + 10 * borrow)
           b == Byte(high * 16 + u)
           flags == If("Z", Byte(a + Complement(v) + c) = 0) \cup If("N", b >= 128)
                     \cup If("V", Bit(a, 7) # Bit(v, 7) /\ Bit(a, 7) # Bit(b, 7))
                     \cup If("C", high >= 0)
           new == IF high < 0 THEN Byte(b + 160) ELSE b
           s == Result(r, flags, new)
<1>1. c \in 0..1 /\ Carry(r.P) = c /\ a \in 0..255
  BY CarryIsBit DEF Registers
<1>2. sbc_decimal_nmos(r, v) = s
  BY <1>1 DEF sbc_decimal_nmos, Result
<1>3. /\ flags \in SUBSET Sums
      /\ "C" \in flags <=> high >= 0
      /\ "Z" \in flags <=> Byte(a + Complement(v) + c) = 0
      /\ "N" \in flags <=> b >= 128
      /\ "V" \in flags <=> SignsLeave(a, v, b)
  BY DEF If, Sums, SignsLeave
<1> HIDE DEF c, a, flags
<1>4. /\ Units(a) \in 0..15 /\ Tens(a) \in 0..15 /\ Units(v) \in 0..15 /\ Tens(v) \in 0..15
      /\ IsDecimal(a) => Units(a) \in 0..9 /\ Tens(a) \in 0..9
      /\ IsDecimal(v) => Units(v) \in 0..9 /\ Tens(v) \in 0..9
      /\ FromDecimal(a) = 10 * Tens(a) + Units(a)
      /\ FromDecimal(v) = 10 * Tens(v) + Units(v)
      /\ a = 16 * Tens(a) + Units(a)
      /\ v = 16 * Tens(v) + Units(v)
  BY <1>1, DigitsOf
<1>5. low \in -16..15 /\ borrow \in 0..1
  BY <1>1, <1>4
<1>6. high \in -16..15 /\ u \in 0..15
  BY <1>1, <1>4, <1>5 DEF Units
<1>7. b \in 0..255 /\ new \in 0..255
  <2>1. high * 16 + u \in Int
    BY <1>6
  <2> HIDE DEF high, u
  <2>2. b \in 0..255
    BY <2>1, BytesAreBytes
  <2> HIDE DEF b
  <2>3. b + 160 \in Int
    BY <2>2
  <2>4. QED
    BY <2>2, <2>3, BytesAreBytes
<1>8. /\ s \in Registers
      /\ s.A = new
      /\ "C" \in s.P <=> high >= 0
      /\ "Z" \in s.P <=> Byte(a + Complement(v) + c) = 0
      /\ "N" \in s.P <=> b >= 128
      /\ "V" \in s.P <=> SignsLeave(a, v, b)
  <2> HIDE DEF new, high, b
  <2>1. /\ s \in Registers
        /\ s.A = new
        /\ "C" \in s.P <=> "C" \in flags
        /\ "Z" \in s.P <=> "Z" \in flags
        /\ "N" \in s.P <=> "N" \in flags
        /\ "V" \in s.P <=> "V" \in flags
    BY <1>3, <1>7, Finished
  <2> HIDE DEF s
  <2>2. QED
    BY <1>3, <2>1, Zenon
<1> HIDE DEF s
<1>9. ASSUME IsDecimal(a), IsDecimal(v)
      PROVE  DecimalDifference(r, v, s)
  <2> DEFINE t == IF high < 0 THEN high + 10 ELSE high
             difference == FromDecimal(a) - FromDecimal(v) - (1 - c)
  <2>1. low \in -10..9 /\ low + 10 * borrow \in 0..9
    BY <1>1, <1>4, <1>9
  <2>2. u = low + 10 * borrow
    BY <2>1 DEF Units
  <2>3. high \in -10..9 /\ t \in 0..9
    BY <1>4, <1>5, <1>9
  <2>4. difference = 10 * high + u
    <3> DEFINE ta == Tens(a)
               ua == Units(a)
               tv == Tens(v)
               uv == Units(v)
    <3>1. ta \in 0..9 /\ ua \in 0..9 /\ tv \in 0..9 /\ uv \in 0..9
      BY <1>4, <1>9
    <3>2. difference = (10 * ta + ua) - (10 * tv + uv) - (1 - c)
      BY <1>4
    <3>3. high = ta - tv - borrow /\ u = ua - uv - (1 - c) + 10 * borrow
      BY <2>2
    <3> HIDE DEF ta, ua, tv, uv, difference, borrow, high, u
    <3>4. QED
      BY <1>1, <1>5, <3>1, <3>2, <3>3
  <2>5. u \in 0..9
    BY <2>1, <2>2
  <2> HIDE DEF low, borrow, high, u, difference
  <2>6. new = TwoDigits(t, u)
    BY <2>3, <2>5 DEF Byte, TwoDigits
  <2>7. difference % 100 = 10 * t + u /\ (difference >= 0 <=> high >= 0)
    BY <2>3, <2>4, <2>5
  <2> HIDE DEF t, new
  <2>8. FromDecimal(s.A) = difference % 100 /\ IsDecimal(s.A)
    BY <1>8, <2>3, <2>5, <2>6, <2>7, ReadDigits
  <2>9. Has(s, "C", difference >= 0)
    BY <1>8, <2>7 DEF Has
  <2>10. QED
    BY <2>8, <2>9 DEF DecimalDifference, DecimalResult, Borrow, difference, a, c
<1>10. DifferenceFlags(r, v, s) /\ NmosDifferenceFlags(r, v, s)
  <2> DEFINE n == a - v - (1 - c)
             x == low + 16 * borrow
  <2>1. n = 16 * high + x /\ x \in 0..15
    <3> DEFINE ta == Tens(a)
               ua == Units(a)
               tv == Tens(v)
               uv == Units(v)
    <3>1. /\ ta \in 0..15 /\ ua \in 0..15 /\ tv \in 0..15 /\ uv \in 0..15
          /\ a = 16 * ta + ua /\ v = 16 * tv + uv
      BY <1>4
    <3>2. low = ua - uv - (1 - c) /\ high = ta - tv - borrow
      OBVIOUS
    <3>3. x \in 0..15
      BY <1>5
    <3> HIDE DEF ta, ua, tv, uv, low, borrow, high
    <3>4. n = 16 * high + x
      BY <1>1, <1>5, <3>1, <3>2
    <3> QED  BY <3>3, <3>4
  <2>2. b = Byte(16 * high + u)
    <3> HIDE DEF high, u
    <3>1. high * 16 + u = 16 * high + u
      BY <1>6
    <3> QED  BY <3>1
  <2> HIDE DEF low, borrow, high, u, x
  <2>3. /\ n >= 0 <=> high >= 0
        /\ n % 256 >= 128 <=> b >= 128
        /\ SignsLeave(a, v, b) <=> TooFar(a, v, c)
    <3>1. /\ a \in 0..255 /\ c \in 0..1 /\ high \in -16..15 /\ x \in 0..15 /\ u \in 0..15
          /\ a - v - (1 - c) = 16 * high + x
      BY <1>1, <1>6, <2>1
    <3>2. /\ n >= 0 <=> high >= 0
          /\ n % 256 >= 128 <=> Byte(16 * high + u) >= 128
          /\ SignsLeave(a, v, Byte(16 * high + u)) <=> TooFar(a, v, c)
      BY <3>1, BorrowedDigits, ZenonT(30)
    <3> HIDE DEF n, b
    <3> QED  BY <2>2, <3>2, Zenon
  <2> HIDE DEF b
  <2>4. Byte(a + Complement(v) + c) = n % 256
    <3>1. n \in -256..255 /\ a + Complement(v) + c = n + 256
      BY <1>1 DEF Complement
    <3> HIDE DEF n
    <3> QED  BY <3>1, SubtractionWraps DEF Byte
  <2>5. DifferenceFlags(r, v, s)
    BY <1>8, <2>3 DEF DifferenceFlags, Borrow, Has, TooFar, n, a, c
  <2>6. NmosDifferenceFlags(r, v, s)
    BY <1>8, <2>3, <2>4 DEF NmosDifferenceFlags, Borrow, Has, n, a, c
  <2> QED
    BY <2>5, <2>6
<1>11. QED
  BY <1>2, <1>8, <1>9, <1>10 DEF a

\* The decimal ADC of the CMOS models adds six to a digit above nine and ninety-six to a sum above
\* ninety-nine; N and Z are those of the decimal result.
THEOREM AdcDecimalCmosIsSum ==
  ASSUME NEW r \in Registers, NEW v \in 0..255
  PROVE  /\ adc_decimal_cmos(r, v) \in Registers
         /\ SignAndZero(adc_decimal_cmos(r, v))
         /\ IsDecimal(r.A) /\ IsDecimal(v) => DecimalSum(r, v, adc_decimal_cmos(r, v))
<1> DEFINE c == CarryOf(r.P)
           a == r.A
           low == Units(a) + Units(v) + c
           units == IF low >= 10 THEN 16 + Units(low + 6) ELSE low
           total == units + 16 * Tens(a) + 16 * Tens(v)
           new == Byte(IF total >= 160 THEN total + 96 ELSE total)
           same == Bit(a, 7) = Bit(v, 7)
           flags == If("C", total >= 160) \cup NZ(new)
                     \cup If("V", same /\ IF total >= 160 THEN total < 384 ELSE total >= 128)
           s == Result(r, flags, new)
<1>1. c \in 0..1 /\ Carry(r.P) = c /\ a \in 0..255
  BY CarryIsBit DEF Registers
<1>2. adc_decimal_cmos(r, v) = s
  BY <1>1 DEF adc_decimal_cmos, Result
<1>3. /\ flags \in SUBSET Sums
      /\ "C" \in flags <=> total >= 160
      /\ "Z" \in flags <=> new = 0
      /\ "N" \in flags <=> new >= 128
  BY DEF If, NZ, Sums
<1> HIDE DEF c, a, flags
<1>4. /\ Units(a) \in 0..15 /\ Tens(a) \in 0..15 /\ Units(v) \in 0..15 /\ Tens(v) \in 0..15
      /\ IsDecimal(a) => Units(a) \in 0..9 /\ Tens(a) \in 0..9
      /\ IsDecimal(v) => Units(v) \in 0..9 /\ Tens(v) \in 0..9
      /\ FromDecimal(a) = 10 * Tens(a) + Units(a)
      /\ FromDecimal(v) = 10 * Tens(v) + Units(v)
  BY <1>1, DigitsOf
<1>5. low \in 0..31
  BY <1>1, <1>4
<1>6. units \in 0..31
  <2> HIDE DEF low
  <2>1. QED
    BY <1>5 DEF Units
<1>7. new \in 0..255
  <2> HIDE DEF units
  <2>1. total \in Int
    BY <1>4, <1>6
  <2> HIDE DEF total
  <2>2. QED
    BY <2>1, BytesAreBytes
<1>8. /\ s \in Registers
      /\ s.A = new
      /\ "C" \in s.P <=> total >= 160
      /\ "Z" \in s.P <=> new = 0
      /\ "N" \in s.P <=> new >= 128
  <2> HIDE DEF new, total
  <2>1. /\ s \in Registers
        /\ s.A = new
        /\ "C" \in s.P <=> "C" \in flags
        /\ "Z" \in s.P <=> "Z" \in flags
        /\ "N" \in s.P <=> "N" \in flags
    BY <1>3, <1>7, Finished
  <2> HIDE DEF s
  <2>2. QED
    BY <1>3, <2>1
<1> HIDE DEF s
<1>9. SignAndZero(s)
  BY <1>8 DEF SignAndZero, Has
<1>10. ASSUME IsDecimal(a), IsDecimal(v)
       PROVE  DecimalSum(r, v, s)
  <2> DEFINE ta == Tens(a)
             ua == Units(a)
             tv == Tens(v)
             uv == Units(v)
             carry == IF low > 9 THEN 1 ELSE 0
             high == ta + tv + carry
             u == low - 10 * carry
             t == IF high > 9 THEN high - 10 ELSE high
             sum == FromDecimal(a) + FromDecimal(v) + c
  <2>1. ta \in 0..9 /\ ua \in 0..9 /\ tv \in 0..9 /\ uv \in 0..9
    BY <1>4, <1>10
  <2>2. low = ua + uv + c /\ total = units + 16 * ta + 16 * tv
    OBVIOUS
  <2>3. sum = (10 * ta + ua) + (10 * tv + uv) + c
    BY <1>4
  <2> HIDE DEF ta, ua, tv, uv, sum, low, total
  <2>4. low \in 0..19
    BY <1>1, <2>1, <2>2
  <2>5. carry \in 0..1 /\ u \in 0..9 /\ units = 16 * carry + u
    BY <2>4 DEF Units
  <2> HIDE DEF units, carry
  <2>6. high \in 0..19 /\ t \in 0..9
    BY <2>1, <2>5
  <2>7. u = ua + uv + c - 10 * carry
    BY <1>1, <2>1, <2>2, <2>4, <2>5
  <2>8. sum = 10 * high + u
    BY <1>1, <2>1, <2>3, <2>5, <2>7
  <2>9. total = 16 * high + u
    BY <2>1, <2>2, <2>5
  <2> HIDE DEF high, u
  <2>10. total >= 160 <=> high > 9
    BY <2>5, <2>6, <2>9
  <2>11. new = TwoDigits(t, u)
    BY <2>5, <2>6, <2>9 DEF Byte, TwoDigits
  <2>12. sum % 100 = 10 * t + u /\ (sum > 99 <=> high > 9)
    BY <2>5, <2>6, <2>8
  <2> HIDE DEF t, new
  <2>13. FromDecimal(s.A) = sum % 100 /\ IsDecimal(s.A)
    BY <1>8, <2>5, <2>6, <2>11, <2>12, ReadDigits
  <2>14. Has(s, "C", sum > 99)
    BY <1>8, <2>10, <2>12 DEF Has
  <2>15. QED
    BY <2>13, <2>14 DEF DecimalSum, DecimalResult, sum, a, c
<1>11. QED
  BY <1>2, <1>8, <1>9, <1>10 DEF a

\* The decimal SBC of the CMOS models computes with sixteen-bit words that wrap below zero; the
\* digits and the borrow are nevertheless those of the difference, and N and Z are theirs.
THEOREM SbcDecimalCmosIsDifference ==
  ASSUME NEW r \in Registers, NEW v \in 0..255
  PROVE  /\ sbc_decimal_cmos(r, v) \in Registers
         /\ SignAndZero(sbc_decimal_cmos(r, v))
         /\ DifferenceFlags(r, v, sbc_decimal_cmos(r, v))
         /\ IsDecimal(r.A) /\ IsDecimal(v) => DecimalDifference(r, v, sbc_decimal_cmos(r, v))
<1> DEFINE c == CarryOf(r.P)
           a == r.A
           low == 15 + Units(a) - Units(v) + c
           units == IF low < 16 THEN low - 6 ELSE low - 16
           tens == Word(16 * (Tens(a) - Tens(v)) + IF low < 16 THEN 0 ELSE 16)
           probe == Byte(16 * Units(Tens(tens)) + Units(units) - 16)
           top == Word(tens + 240)
           new == Byte((IF top < 256 THEN Word(top - 96) ELSE top) + units)
           flags == If("C", top >= 256) \cup NZ(new)
                     \cup If("V", Bit(a, 7) # Bit(v, 7) /\ Bit(a, 7) # Bit(probe, 7))
           s == Result(r, flags, new)
<1>1. c \in 0..1 /\ Carry(r.P) = c /\ a \in 0..255
  BY CarryIsBit DEF Registers
<1>2. sbc_decimal_cmos(r, v) = s
  BY <1>1 DEF sbc_decimal_cmos, Result
<1>3. /\ flags \in SUBSET Sums
      /\ "C" \in flags <=> top >= 256
      /\ "Z" \in flags <=> new = 0
      /\ "N" \in flags <=> new >= 128
      /\ "V" \in flags <=> SignsLeave(a, v, probe)
  BY DEF If, NZ, Sums, SignsLeave
<1> HIDE DEF c, a, flags
<1>4. /\ Units(a) \in 0..15 /\ Tens(a) \in 0..15 /\ Units(v) \in 0..15 /\ Tens(v) \in 0..15
      /\ IsDecimal(a) => Units(a) \in 0..9 /\ Tens(a) \in 0..9
      /\ IsDecimal(v) => Units(v) \in 0..9 /\ Tens(v) \in 0..9
      /\ FromDecimal(a) = 10 * Tens(a) + Units(a)
      /\ FromDecimal(v) = 10 * Tens(v) + Units(v)
      /\ a = 16 * Tens(a) + Units(a)
      /\ v = 16 * Tens(v) + Units(v)
  BY <1>1, DigitsOf
<1> DEFINE ta == Tens(a)
           ua == Units(a)
           tv == Tens(v)
           uv == Units(v)
           borrow == IF low < 16 THEN 1 ELSE 0
           high == ta - tv - borrow
<1>5. /\ ta \in 0..15 /\ ua \in 0..15 /\ tv \in 0..15 /\ uv \in 0..15
      /\ low = 15 + ua - uv + c
      /\ tens = Word(16 * (ta - tv) + IF low < 16 THEN 0 ELSE 16)
      /\ a = 16 * ta + ua /\ v = 16 * tv + uv
  BY <1>4
<1> HIDE DEF ta, ua, tv, uv, low, tens, probe
<1>6. low \in 0..31 /\ units \in -6..15 /\ borrow \in 0..1
  BY <1>1, <1>5
<1>7. high \in -16..15
  BY <1>5, <1>6
<1>8. tens = Word(16 * high + 16)
  BY <1>5, <1>6
<1> HIDE DEF units, borrow, high
<1>9. top = 256 + 16 * high
  BY <1>7, <1>8 DEF Word
<1> HIDE DEF top
<1>10. (IF top < 256 THEN Word(top - 96) ELSE top) \in Int
  BY <1>7, <1>9 DEF Word
<1>11. new \in 0..255
  BY <1>6, <1>10, BytesAreBytes
<1>12. /\ s \in Registers
       /\ s.A = new
       /\ "C" \in s.P <=> top >= 256
       /\ "Z" \in s.P <=> new = 0
       /\ "N" \in s.P <=> new >= 128
       /\ "V" \in s.P <=> SignsLeave(a, v, probe)
  <2> HIDE DEF new
  <2>1. /\ s \in Registers
        /\ s.A = new
        /\ "C" \in s.P <=> "C" \in flags
        /\ "Z" \in s.P <=> "Z" \in flags
        /\ "N" \in s.P <=> "N" \in flags
        /\ "V" \in s.P <=> "V" \in flags
    BY <1>3, <1>11, Finished
  <2> HIDE DEF s
  <2>2. QED
    BY <1>3, <2>1
<1> HIDE DEF s
<1>13. SignAndZero(s)
  BY <1>12 DEF SignAndZero, Has
<1>14. ASSUME IsDecimal(a), IsDecimal(v)
       PROVE  DecimalDifference(r, v, s)
  <2> DEFINE t == IF high < 0 THEN high + 10 ELSE high
             difference == FromDecimal(a) - FromDecimal(v) - (1 - c)
  <2>1. ta \in 0..9 /\ ua \in 0..9 /\ tv \in 0..9 /\ uv \in 0..9
    BY <1>4, <1>14 DEF ta, ua, tv, uv
  <2>2. difference = (10 * ta + ua) - (10 * tv + uv) - (1 - c)
    BY <1>4 DEF ta, ua, tv, uv
  <2> HIDE DEF difference
  <2>3. units \in 0..9 /\ units = ua - uv - (1 - c) + 10 * borrow
    BY <1>1, <1>5, <2>1 DEF units, borrow
  <2>4. high \in -10..9 /\ t \in 0..9 /\ high = ta - tv - borrow
    BY <1>6, <2>1 DEF high
  <2>5. difference = 10 * high + units
    BY <1>1, <1>6, <2>1, <2>2, <2>3, <2>4
  <2>6. top >= 256 <=> high >= 0
    BY <1>9, <2>4
  <2>7. new = TwoDigits(t, units)
    <3>1. CASE high >= 0
      <4>1. new = (256 + 16 * high + units) % 256 /\ t = high
        BY <1>9, <2>3, <2>4, <3>1 DEF Byte
      <4>2. QED
        BY <2>3, <2>4, <3>1, <4>1 DEF TwoDigits
    <3>2. CASE high < 0
      <4>1. Word(top - 96) = 160 + 16 * high /\ top < 256
        BY <1>9, <2>4, <3>2 DEF Word
      <4>2. new = (160 + 16 * high + units) % 256 /\ t = high + 10
        BY <3>2, <4>1 DEF Byte
      <4>3. QED
        BY <2>3, <2>4, <3>2, <4>2 DEF TwoDigits
    <3>3. QED
      BY <2>4, <3>1, <3>2
  <2>8. difference % 100 = 10 * t + units /\ (difference >= 0 <=> high >= 0)
    <3>1. CASE high >= 0
      <4>1. difference \in 0..99 /\ t = high
        BY <2>3, <2>4, <2>5, <3>1
      <4>2. QED
        BY <2>5, <3>1, <4>1
    <3>2. CASE high < 0
      <4>1. difference + 100 \in 0..99 /\ t = high + 10 /\ difference \in Int
        BY <2>3, <2>4, <2>5, <3>2
      <4>2. difference % 100 = difference + 100
        BY <4>1
      <4>3. difference + 100 = 10 * t + units
        BY <2>3, <2>4, <2>5, <4>1
      <4>4. difference < 0
        BY <4>1
      <4>5. QED
        BY <3>2, <4>1, <4>2, <4>3, <4>4, <2>4
    <3>3. QED
      BY <2>4, <3>1, <3>2
  <2> HIDE DEF t, new
  <2>9. FromDecimal(s.A) = difference % 100 /\ IsDecimal(s.A)
    BY <1>12, <2>3, <2>4, <2>7, <2>8, ReadDigits
  <2>10. Has(s, "C", difference >= 0)
    BY <1>12, <2>6, <2>8 DEF Has
  <2>11. QED
    BY <2>9, <2>10 DEF DecimalDifference, DecimalResult, Borrow, difference, a, c
<1>15. DifferenceFlags(r, v, s)
  <2> DEFINE n == a - v - (1 - c)
             x == low - 16 + 16 * borrow
             y == Units(units)
  <2>1. a - v - (1 - c) = 16 * high + x /\ x \in 0..15
    BY <1>1, <1>5, <1>6 DEF high, borrow
  <2>2. y \in 0..15
    <3>1. units \in Int
      BY <1>6
    <3> QED  BY <3>1 DEF Units
  <2>3. probe = Byte(16 * high + y)
    <3> DEFINE digit == Units(Tens(tens))
    <3>1. digit = (high + 1) % 16
      <4>1. CASE high >= -1
        <5>1. tens = 16 * (high + 1) /\ high + 1 \in 0..16
          BY <1>7, <1>8, <4>1 DEF Word
        <5>2. tens \div 16 = high + 1
          BY <5>1
        <5> QED  BY <5>2 DEF Units, Tens
      <4>2. CASE high < -1
        <5>1. tens = 16 * (high + 4097)
          BY <1>7, <1>8, <4>2 DEF Word
        <5>2. tens \div 16 = high + 4097
          BY <1>7, <5>1
        <5>3. (high + 4097) % 16 = (high + 1) % 16
          BY <1>7
        <5> QED  BY <5>2, <5>3 DEF Units, Tens
      <4> QED  BY <1>7, <4>1, <4>2
    <3>2. probe = Byte(16 * digit + y - 16)
      BY DEF probe
    <3> HIDE DEF digit, y
    <3>3. Byte(16 * ((high + 1) % 16) + y - 16) = Byte(16 * high + y)
      BY <1>7, <2>2 DEF Byte
    <3> QED  BY <3>1, <3>2, <3>3
  <2> HIDE DEF x, y
  <2>4. /\ n >= 0 <=> high >= 0
        /\ SignsLeave(a, v, Byte(16 * high + y)) <=> TooFar(a, v, c)
    <3>1. a \in 0..255 /\ c \in 0..1 /\ high \in -16..15
      BY <1>1, <1>7
    <3> HIDE DEF high
    <3> QED  BY <2>1, <2>2, <3>1, BorrowedDigits, ZenonT(30)
  <2>5. top >= 256 <=> high >= 0
    BY <1>7, <1>9
  <2> HIDE DEF n
  <2>6. ("C" \in s.P <=> n >= 0) /\ ("V" \in s.P <=> TooFar(a, v, c))
    BY <1>12, <2>3, <2>4, <2>5, Zenon
  <2> QED
    BY <2>6 DEF DifferenceFlags, Borrow, Has, TooFar, n, a, c
<1>16. QED
  BY <1>2, <1>12, <1>13, <1>14, <1>15 DEF a

-----------------------------------------------------------------------------
\* Whatever the model, ADC is addition: of bytes out of decimal mode and on the NES model, of
\* decimal digits in it, where the CMOS models come with the handlers of their extra cycle.
THEOREM AdcIsExact ==
  ASSUME NEW model \in 0..4, NEW r \in Registers, NEW v \in 0..255
  PROVE  /\ Adc(model, r, v) \in Registers
         /\ "D" \notin r.P \/ model = nes_model => BinarySum(r, v, Adc(model, r, v))
         /\ "D" \in r.P /\ model # nes_model => NmosSumFlags(r, v, Adc(model, r, v))
         /\ SignAndZero(CmosDecimal("ADC", r, v))
         /\ "D" \in r.P /\ IsDecimal(r.A) /\ IsDecimal(v) =>
              /\ model # nes_model => DecimalSum(r, v, Adc(model, r, v))
              /\ DecimalSum(r, v, CmosDecimal("ADC", r, v))
<1>1. CmosDecimal("ADC", r, v) = adc_decimal_cmos(r, v)
  BY DEF CmosDecimal
<1>2. CASE "D" \notin r.P \/ model = nes_model
  <2>1. Adc(model, r, v) = adc_binary(r, v)
    BY <1>2 DEF Adc, adc_value
  <2>2. QED
    BY <1>1, <1>2, <2>1, AdcBinaryIsSum, AdcDecimalCmosIsSum
<1>3. CASE "D" \in r.P /\ model # nes_model
  <2>1. Adc(model, r, v) = adc_decimal_nmos(r, v)
    BY <1>3 DEF Adc, adc_value
  <2>2. QED
    BY <1>1, <1>3, <2>1, AdcDecimalNmosIsSum, AdcDecimalCmosIsSum
<1>4. QED
  BY <1>2, <1>3

\* And SBC is subtraction.
THEOREM SbcIsExact ==
  ASSUME NEW model \in 0..4, NEW r \in Registers, NEW v \in 0..255
  PROVE  /\ Sbc(model, r, v) \in Registers
         /\ "D" \notin r.P \/ model = nes_model => BinaryDifference(r, v, Sbc(model, r, v))
         /\ "D" \in r.P /\ model # nes_model =>
              DifferenceFlags(r, v, Sbc(model, r, v)) /\ NmosDifferenceFlags(r, v, Sbc(model, r, v))
         /\ DifferenceFlags(r, v, CmosDecimal("SBC", r, v))
         /\ SignAndZero(CmosDecimal("SBC", r, v))
         /\ "D" \in r.P /\ IsDecimal(r.A) /\ IsDecimal(v) =>
              /\ model # nes_model => DecimalDifference(r, v, Sbc(model, r, v))
              /\ DecimalDifference(r, v, CmosDecimal("SBC", r, v))
<1>1. CmosDecimal("SBC", r, v) = sbc_decimal_cmos(r, v)
  BY DEF CmosDecimal
<1>2. CASE "D" \notin r.P \/ model = nes_model
  <2>1. Sbc(model, r, v) = adc_binary(r, Complement(v))
    BY <1>2 DEF Sbc, sbc_value
  <2>2. QED
    BY <1>1, <1>2, <2>1, SbcBinaryIsDifference, SbcDecimalCmosIsDifference
<1>3. CASE "D" \in r.P /\ model # nes_model
  <2>1. Sbc(model, r, v) = sbc_decimal_nmos(r, v)
    BY <1>3 DEF Sbc, sbc_value
  <2>2. QED
    BY <1>1, <1>3, <2>1, SbcDecimalNmosIsDifference, SbcDecimalCmosIsDifference
<1>4. QED
  BY <1>2, <1>3

\* Two digits are determined by the number they are read as.
LEMMA DigitsDetermined ==
  ASSUME NEW m \in 0..255, NEW n \in 0..255, IsDecimal(m), IsDecimal(n),
         FromDecimal(m) = FromDecimal(n)
  PROVE  m = n
<1> DEFINE s == Tens(m)
           u == Units(m)
           t == Tens(n)
           w == Units(n)
<1>1. /\ m = 16 * s + u /\ FromDecimal(m) = 10 * s + u
      /\ n = 16 * t + w /\ FromDecimal(n) = 10 * t + w
      /\ u \in 0..9 /\ s \in 0..9 /\ w \in 0..9 /\ t \in 0..9
  BY DigitsOf
<1> HIDE DEF s, u, t, w
<1>2. 10 * s + u = 10 * t + w
  BY <1>1
<1>3. s = t /\ u = w
  BY <1>1, <1>2
<1>4. QED
  BY <1>1, <1>3

\* A program that adds and subtracts decimal numbers computes the same on the NMOS and on the CMOS
\* models, for all that their handlers have no line in common.
THEOREM DecimalModelsAgree ==
  ASSUME NEW r \in Registers, NEW v \in 0..255, IsDecimal(r.A), IsDecimal(v)
  PROVE  /\ adc_decimal_nmos(r, v).A = adc_decimal_cmos(r, v).A
         /\ "C" \in adc_decimal_nmos(r, v).P <=> "C" \in adc_decimal_cmos(r, v).P
         /\ sbc_decimal_nmos(r, v).A = sbc_decimal_cmos(r, v).A
         /\ "C" \in sbc_decimal_nmos(r, v).P <=> "C" \in sbc_decimal_cmos(r, v).P
<1> DEFINE sum == FromDecimal(r.A) + FromDecimal(v) + CarryOf(r.P)
           difference == FromDecimal(r.A) - FromDecimal(v) - Borrow(r.P)
<1>1. ASSUME NEW s \in Registers, NEW t \in Registers, NEW n, NEW carry,
             DecimalResult(n, carry, s), DecimalResult(n, carry, t)
      PROVE  s.A = t.A /\ ("C" \in s.P <=> "C" \in t.P)
  <2>1. /\ FromDecimal(s.A) = FromDecimal(t.A)
        /\ IsDecimal(s.A)
        /\ IsDecimal(t.A)
        /\ "C" \in s.P <=> "C" \in t.P
    BY <1>1 DEF DecimalResult, Has
  <2>2. s.A \in 0..255 /\ t.A \in 0..255
    BY DEF Registers
  <2>3. QED
    BY <2>1, <2>2, DigitsDetermined
<1>2. /\ DecimalResult(sum, sum > 99, adc_decimal_nmos(r, v))
      /\ DecimalResult(sum, sum > 99, adc_decimal_cmos(r, v))
      /\ adc_decimal_nmos(r, v) \in Registers
      /\ adc_decimal_cmos(r, v) \in Registers
  BY AdcDecimalNmosIsSum, AdcDecimalCmosIsSum DEF DecimalSum
<1>3. /\ DecimalResult(difference, difference >= 0, sbc_decimal_nmos(r, v))
      /\ DecimalResult(difference, difference >= 0, sbc_decimal_cmos(r, v))
      /\ sbc_decimal_nmos(r, v) \in Registers
      /\ sbc_decimal_cmos(r, v) \in Registers
  BY SbcDecimalNmosIsDifference, SbcDecimalCmosIsDifference DEF DecimalDifference
<1> HIDE DEF sum, difference
<1>4. QED
  BY <1>1, <1>2, <1>3

-----------------------------------------------------------------------------
\* The status byte names every flag once: reading it back gives the flags it was made of.
LEMMA StatusByteRoundTrip ==
  ASSUME NEW P \in SUBSET Flag
  PROVE  StatusByte(P) \in 0..255 /\ Flags(StatusByte(P)) = P
<1> DEFINE w(f) == IF f \in P THEN Weight[f] ELSE 0
           bit(f) == IF f \in P THEN 1 ELSE 0
           n == StatusByte(P)
<1>1. /\ Weight["C"] = 1 /\ Weight["Z"] = 2 /\ Weight["I"] = 4 /\ Weight["D"] = 8
      /\ Weight["B"] = 16 /\ Weight["U"] = 32 /\ Weight["V"] = 64 /\ Weight["N"] = 128
  BY DEF Weight
<1>2. DOMAIN Weight = Flag
  BY DEF Weight, Flag
<1>3. \A f \in Flag : bit(f) \in 0..1 /\ (bit(f) = 1 <=> f \in P)
  OBVIOUS
<1>4. /\ w("C") = bit("C") /\ w("Z") = 2 * bit("Z") /\ w("I") = 4 * bit("I")
      /\ w("D") = 8 * bit("D") /\ w("B") = 16 * bit("B") /\ w("U") = 32 * bit("U")
      /\ w("V") = 64 * bit("V") /\ w("N") = 128 * bit("N")
  BY <1>1
<1>5. n = w("C") + w("Z") + w("I") + w("D") + w("B") + w("U") + w("V") + w("N")
  BY DEF StatusByte
<1> HIDE DEF n, w, bit
<1>6. n = bit("C") + 2 * bit("Z") + 4 * bit("I") + 8 * bit("D") + 16 * bit("B")
            + 32 * bit("U") + 64 * bit("V") + 128 * bit("N")
  BY <1>4, <1>5
<1>7. /\ bit("C") \in 0..1 /\ bit("Z") \in 0..1 /\ bit("I") \in 0..1 /\ bit("D") \in 0..1
      /\ bit("B") \in 0..1 /\ bit("U") \in 0..1 /\ bit("V") \in 0..1 /\ bit("N") \in 0..1
  BY <1>3 DEF Flag
<1> DEFINE b0 == bit("C")
           b1 == bit("Z")
           b2 == bit("I")
           b3 == bit("D")
           b4 == bit("B")
           b5 == bit("U")
           b6 == bit("V")
           b7 == bit("N")
<1>8. /\ n \in 0..255
      /\ (n \div 1) % 2 = bit("C") /\ (n \div 2) % 2 = bit("Z")
      /\ (n \div 4) % 2 = bit("I") /\ (n \div 8) % 2 = bit("D")
      /\ (n \div 16) % 2 = bit("B") /\ (n \div 32) % 2 = bit("U")
      /\ (n \div 64) % 2 = bit("V") /\ (n \div 128) % 2 = bit("N")
  <2>1. /\ b0 \in 0..1 /\ b1 \in 0..1 /\ b2 \in 0..1 /\ b3 \in 0..1
        /\ b4 \in 0..1 /\ b5 \in 0..1 /\ b6 \in 0..1 /\ b7 \in 0..1
    BY <1>7
  <2>2. n = b0 + 2 * b1 + 4 * b2 + 8 * b3 + 16 * b4 + 32 * b5 + 64 * b6 + 128 * b7
    BY <1>6
  <2> HIDE DEF b0, b1, b2, b3, b4, b5, b6, b7
  <2>3. n \in 0..255
    BY <2>1, <2>2
  <2>4. (n \div 1) % 2 = b0 /\ (n \div 2) % 2 = b1
    BY <2>1, <2>2
  <2>5. (n \div 4) % 2 = b2 /\ (n \div 8) % 2 = b3
    BY <2>1, <2>2
  <2>6. (n \div 16) % 2 = b4 /\ (n \div 32) % 2 = b5
    BY <2>1, <2>2
  <2>7. (n \div 64) % 2 = b6 /\ (n \div 128) % 2 = b7
    BY <2>1, <2>2
  <2>8. QED
    BY <2>3, <2>4, <2>5, <2>6, <2>7 DEF b0, b1, b2, b3, b4, b5, b6, b7
<1>9. \A f \in Flag : (n \div Weight[f]) % 2 = bit(f)
  BY <1>1, <1>8 DEF Flag
<1>10. Flags(n) = {f \in Flag : (n \div Weight[f]) % 2 = 1}
  BY <1>2, <1>8 DEF Flags, FlagsOf
<1>11. Flags(n) = P
  BY <1>3, <1>9, <1>10
<1>12. QED
  BY <1>8, <1>11 DEF n

\* What a program or an interrupt handler pulls is what was pushed: the status register survives
\* PHP and PLP, and BRK, IRQ or NMI and RTI, but for bits 4 and 5, which are no flags of P.
THEOREM StatusSurvivesStack ==
  ASSUME NEW P \in SUBSET Flag, NEW break \in SUBSET {"B"}
  PROVE  /\ stack_status(P, break) \in 0..255
         /\ PulledFlags(stack_status(P, break)) = (P \cup {"U"}) \ {"B"}
<1> DEFINE pushed == (P \cup {"U"} \cup break) \ ({"B"} \ break)
<1>1. pushed \in SUBSET Flag
  BY DEF Flag
<1>2. (pushed \cup {"U"}) \ {"B"} = (P \cup {"U"}) \ {"B"}
  OBVIOUS
<1> HIDE DEF pushed
<1>3. stack_status(P, break) = StatusByte(pushed)
  BY DEF stack_status, pushed
<1>4. QED
  BY <1>1, <1>2, <1>3, StatusByteRoundTrip DEF PulledFlags

-----------------------------------------------------------------------------
\* CMP, CPX and CPY leave the C, Z and N of a binary subtraction without borrow of the operand from
\* the register, whatever the decimal flag says, and neither a register nor V is disturbed.
THEOREM ComparisonSubtracts ==
  ASSUME NEW r \in Registers, "C" \in r.P, NEW v \in 0..255
  PROVE  /\ compare_register_with_value(r, r.A, v).A = r.A
         /\ \A f \in {"C", "Z", "N"} :
              f \in compare_register_with_value(r, r.A, v).P
                <=> f \in adc_binary(r, Complement(v)).P
         /\ "V" \in compare_register_with_value(r, r.A, v).P <=> "V" \in r.P
<1> DEFINE d == adc_binary(r, Complement(v))
           n == r.A - v
           p == (r.P \ {"C", "Z", "N"}) \cup If("C", r.A >= v) \cup NZ(Byte(n))
<1>1. n \in Int /\ r.A - v - Borrow(r.P) = n /\ (r.A >= v <=> n >= 0)
  BY DEF Registers, Borrow, CarryOf
<1>2. BinaryDifference(r, v, d)
  BY SbcBinaryIsDifference
<1> HIDE DEF d
<1>3. /\ d.A = n % 256 /\ Has(d, "C", n >= 0)
      /\ Has(d, "Z", d.A = 0) /\ Has(d, "N", d.A >= 128)
  BY <1>1, <1>2 DEF BinaryDifference, DifferenceFlags, SignAndZero
<1>4. /\ "C" \in d.P <=> r.A >= v
      /\ "Z" \in d.P <=> Byte(n) = 0
      /\ "N" \in d.P <=> Byte(n) >= 128
  BY <1>1, <1>3 DEF Has, Byte
<1>5. /\ compare_register_with_value(r, r.A, v).A = r.A
      /\ compare_register_with_value(r, r.A, v).P = p
  BY DEF compare_register_with_value, update_flags_nzc, Registers
<1>6. /\ "C" \in p <=> r.A >= v
      /\ "Z" \in p <=> Byte(n) = 0
      /\ "N" \in p <=> Byte(n) >= 128
      /\ "V" \in p <=> "V" \in r.P
  BY Zenon DEF If, NZ
<1>7. QED
  BY <1>4, <1>5, <1>6 DEF d

\* A shift leaves registers whose carry is the bit that it drops.
LEMMA ShiftLeaves ==
  ASSUME NEW r \in Registers, NEW value, NEW result
  PROVE  /\ LeftFlags(r, value, result) \in Registers
         /\ RightFlags(r, value, result) \in Registers
         /\ "C" \in LeftFlags(r, value, result).P <=> value >= 128
         /\ "C" \in RightFlags(r, value, result).P <=> value % 2 = 1
<1> DEFINE p == (r.P \ {"C", "Z", "N"}) \cup If("C", value >= 128) \cup NZ(result)
           q == (r.P \ {"C", "Z", "N"}) \cup If("C", value % 2 = 1) \cup NZ(result)
<1>1. p \in SUBSET Flag /\ q \in SUBSET Flag
  BY Zenon DEF If, NZ, Flag, Registers
<1>2. ("C" \in p <=> value >= 128) /\ ("C" \in q <=> value % 2 = 1)
  BY Zenon DEF If, NZ
<1>3. /\ LeftFlags(r, value, result) = [r EXCEPT !.P = p]
      /\ RightFlags(r, value, result) = [r EXCEPT !.P = q]
  BY DEF LeftFlags, RightFlags, update_flags_nzc
<1> HIDE DEF p, q
<1>4. /\ [r EXCEPT !.P = p] \in Registers /\ [r EXCEPT !.P = p].P = p
      /\ [r EXCEPT !.P = q] \in Registers /\ [r EXCEPT !.P = q].P = q
  BY <1>1 DEF Registers
<1>5. QED
  BY <1>2, <1>3, <1>4

\* ROL and ROR undo each other: a byte rotated through the carry and back is the byte that it was,
\* and the carry is what it was.
THEOREM RotationsUndoEachOther ==
  ASSUME NEW r \in Registers, NEW v \in 0..255
  PROVE  LET left  == RolResult(r.P, v)
             right == RorResult(r.P, v)
             rol   == LeftFlags(r, v, left)
             ror   == RightFlags(r, v, right)
         IN  /\ RorResult(rol.P, left) = v
             /\ "C" \in RightFlags(rol, left, v).P <=> "C" \in r.P
             /\ RolResult(ror.P, right) = v
             /\ "C" \in LeftFlags(ror, right, v).P <=> "C" \in r.P
<1> DEFINE c     == Carry(r.P)
           left  == RolResult(r.P, v)
           right == RorResult(r.P, v)
           rol   == LeftFlags(r, v, left)
           ror   == RightFlags(r, v, right)
           top   == IF v >= 128 THEN 1 ELSE 0
<1>1. c \in 0..1 /\ ("C" \in r.P <=> c = 1)
  BY SMT DEF Carry
<1>2. left = ((v * 2) % 256) + c /\ right = v \div 2 + 128 * c
  BY DEF RolResult, RorResult, Byte
<1>3. rol \in Registers /\ ror \in Registers
  BY ShiftLeaves
<1>4. Carry(rol.P) = top /\ Carry(ror.P) = v % 2
  BY ShiftLeaves, SMT DEF Carry
<1> HIDE DEF c, left, right, rol, ror
<1>5. left % 2 = c /\ left \div 2 + 128 * top = v
  <2>1. CASE v >= 128  BY <1>1, <1>2, <2>1, SMT
  <2>2. CASE v < 128   BY <1>1, <1>2, <2>2, SMT
  <2> QED  BY <2>1, <2>2, SMT
<1>6. (right >= 128 <=> c = 1) /\ ((right * 2) % 256) + (v % 2) = v
  <2>1. CASE c = 0  BY <1>2, <2>1, SMT
  <2>2. CASE c = 1  BY <1>2, <2>2, SMT
  <2> QED  BY <1>1, <2>1, <2>2, SMT
<1>7. RorResult(rol.P, left) = v /\ RolResult(ror.P, right) = v
  BY <1>4, <1>5, <1>6 DEF RorResult, RolResult, Byte
<1>8. /\ "C" \in RightFlags(rol, left, v).P <=> left % 2 = 1
      /\ "C" \in LeftFlags(ror, right, v).P <=> right >= 128
  BY <1>3, ShiftLeaves
<1>9. QED
  BY <1>1, <1>5, <1>6, <1>7, <1>8 DEF left, right, rol, ror

-----------------------------------------------------------------------------
\* What a handler may leave: registers that keep to their widths, with the modes I and D of before.
SameModes(r, q) == ("I" \in q.P <=> "I" \in r.P) /\ ("D" \in q.P <=> "D" \in r.P)

Leaves(r, q) == q \in Registers /\ SameModes(r, q)

LEMMA LeavesItself == ASSUME NEW r \in Registers PROVE Leaves(r, r)
  BY DEF Leaves, SameModes

LEMMA LeavesOn ==
  ASSUME NEW r, NEW q, NEW s, Leaves(r, q), Leaves(q, s) PROVE Leaves(r, s)
  BY DEF Leaves, SameModes

\* A register, and both latches, with a new value of their width.
LEMMA LeavesWord ==
  ASSUME NEW r \in Registers, NEW w \in Words
  PROVE  /\ Leaves(r, [r EXCEPT !.PC = w]) /\ [r EXCEPT !.PC = w].PC = w
         /\ Leaves(r, [r EXCEPT !.addr = w]) /\ [r EXCEPT !.addr = w].addr = w
<1>1. [r EXCEPT !.PC = w] \in Registers /\ [r EXCEPT !.addr = w] \in Registers
  BY DEF Registers
<1>2. /\ [r EXCEPT !.PC = w].P = r.P /\ [r EXCEPT !.PC = w].PC = w
      /\ [r EXCEPT !.addr = w].P = r.P /\ [r EXCEPT !.addr = w].addr = w
  BY DEF Registers
<1> QED  BY <1>1, <1>2 DEF Leaves, SameModes

LEMMA LeavesByte ==
  ASSUME NEW r \in Registers, NEW b \in Bytes
  PROVE  /\ Leaves(r, [r EXCEPT !.A = b]) /\ Leaves(r, [r EXCEPT !.X = b])
         /\ Leaves(r, [r EXCEPT !.Y = b]) /\ Leaves(r, [r EXCEPT !.S = b])
         /\ Leaves(r, [r EXCEPT !.data = b])
<1> USE DEF Bytes
<1>1. /\ [r EXCEPT !.A = b] \in Registers /\ [r EXCEPT !.X = b] \in Registers
      /\ [r EXCEPT !.Y = b] \in Registers
  BY DEF Registers
<1>2. [r EXCEPT !.S = b] \in Registers /\ [r EXCEPT !.data = b] \in Registers
  BY DEF Registers
<1>3. /\ [r EXCEPT !.A = b].P = r.P /\ [r EXCEPT !.X = b].P = r.P
      /\ [r EXCEPT !.Y = b].P = r.P
  BY DEF Registers
<1>4. [r EXCEPT !.S = b].P = r.P /\ [r EXCEPT !.data = b].P = r.P
  BY DEF Registers
<1> QED  BY <1>1, <1>2, <1>3, <1>4 DEF Leaves, SameModes

\* The flags of a result are among the four of Sums, and so are those it replaces.
LEMMA LeavesFlags ==
  ASSUME NEW r \in Registers, NEW old \in SUBSET Sums, NEW new \in SUBSET Sums
  PROVE  Leaves(r, [r EXCEPT !.P = (@ \ old) \cup new])
<1> DEFINE p == (r.P \ old) \cup new
           q == [r EXCEPT !.P = p]
<1>1. p \in SUBSET Flag /\ ("I" \in p <=> "I" \in r.P) /\ ("D" \in p <=> "D" \in r.P)
  <2>1. r.P \in SUBSET Flag  BY DEF Registers
  <2>2. Sums \subseteq Flag /\ "I" \notin Sums /\ "D" \notin Sums  BY DEF Flag, Sums
  <2> QED  BY <2>1, <2>2, Zenon
<1> HIDE DEF p
<1>2. q \in Registers /\ q.P = p  BY <1>1 DEF Registers
<1>3. q = [r EXCEPT !.P = (@ \ old) \cup new]  BY DEF p
<1> HIDE DEF q
<1> QED  BY <1>1, <1>2, <1>3 DEF Leaves, SameModes

\* Only the eight flags, and modes of its own: what a handler that sets I or D leaves.
LEMMA TypedFlags ==
  ASSUME NEW r \in Registers, NEW p \in SUBSET Flag
  PROVE  [r EXCEPT !.P = p] \in Registers /\ [r EXCEPT !.P = p].P = p
  BY DEF Registers

LEMMA ConditionFlag ==
  ASSUME NEW f \in Sums, NEW condition PROVE If(f, condition) \in SUBSET Sums
  BY DEF If

LEMMA NZFlags == ASSUME NEW value PROVE NZ(value) \in SUBSET Sums
<1>1. "Z" \in Sums /\ "N" \in Sums  BY DEF Sums
<1> QED  BY <1>1, ConditionFlag DEF NZ

LEMMA LeavesNZ ==
  ASSUME NEW r \in Registers, NEW value, NEW carry
  PROVE  /\ Leaves(r, update_flags_nz(r, value))
         /\ Leaves(r, update_flags_nzc(r, value, carry))
<1>1. {"Z", "N"} \in SUBSET Sums /\ {"C", "Z", "N"} \in SUBSET Sums /\ "C" \in Sums
  BY DEF Sums
<1>2. NZ(value) \in SUBSET Sums  BY NZFlags
<1>3. If("C", carry) \in SUBSET Sums  BY <1>1, ConditionFlag
<1>4. update_flags_nz(r, value) = [r EXCEPT !.P = (@ \ {"Z", "N"}) \cup NZ(value)]
  BY DEF update_flags_nz
<1> DEFINE new == If("C", carry) \cup NZ(value)
<1>5. new \in SUBSET Sums  BY <1>2, <1>3
<1>6. update_flags_nzc(r, value, carry) = [r EXCEPT !.P = (@ \ {"C", "Z", "N"}) \cup new]
  <2>1. \A p : (p \ {"C", "Z", "N"}) \cup If("C", carry) \cup NZ(value)
                 = (p \ {"C", "Z", "N"}) \cup new
    OBVIOUS
  <2> HIDE DEF new
  <2> QED  BY <2>1 DEF update_flags_nzc
<1> HIDE DEF new
<1>7. Leaves(r, update_flags_nz(r, value))
  <2>1. Leaves(r, [r EXCEPT !.P = (@ \ {"Z", "N"}) \cup NZ(value)])
    BY <1>1, <1>2, LeavesFlags, Zenon
  <2> QED  BY <1>4, <2>1, Zenon
<1>8. Leaves(r, update_flags_nzc(r, value, carry))
  <2>1. Leaves(r, [r EXCEPT !.P = (@ \ {"C", "Z", "N"}) \cup new])
    BY <1>1, <1>5, LeavesFlags, Zenon
  <2> QED  BY <1>6, <2>1, Zenon
<1> QED  BY <1>7, <1>8
\* A byte is the sum of its bits.
ByteOf(b0, b1, b2, b3, b4, b5, b6, b7) ==
  b0 + 2 * b1 + 4 * b2 + 8 * b3 + 16 * b4 + 32 * b5 + 64 * b6 + 128 * b7

LEMMA BitOf ==
  ASSUME NEW b \in Bytes
  PROVE  /\ Bit(b, 0) = b % 2 /\ Bit(b, 1) = (b \div 2) % 2
         /\ Bit(b, 2) = (b \div 4) % 2 /\ Bit(b, 3) = (b \div 8) % 2
         /\ Bit(b, 4) = (b \div 16) % 2 /\ Bit(b, 5) = (b \div 32) % 2
         /\ Bit(b, 6) = (b \div 64) % 2 /\ Bit(b, 7) = (b \div 128) % 2
<1> USE DEF Bytes
<1>1. /\ 2^0 = 1 /\ 2^1 = 2 /\ 2^2 = 4 /\ 2^3 = 8
      /\ 2^4 = 16 /\ 2^5 = 32 /\ 2^6 = 64 /\ 2^7 = 128
  OBVIOUS
<1> QED  BY <1>1 DEF Bit

LEMMA Bits ==
  ASSUME NEW b \in Bytes
  PROVE  /\ Bit(b, 0) \in 0..1 /\ Bit(b, 1) \in 0..1 /\ Bit(b, 2) \in 0..1 /\ Bit(b, 3) \in 0..1
         /\ Bit(b, 4) \in 0..1 /\ Bit(b, 5) \in 0..1 /\ Bit(b, 6) \in 0..1 /\ Bit(b, 7) \in 0..1
         /\ b = ByteOf(Bit(b, 0), Bit(b, 1), Bit(b, 2), Bit(b, 3),
                       Bit(b, 4), Bit(b, 5), Bit(b, 6), Bit(b, 7))
<1>0. /\ Bit(b, 0) = b % 2 /\ Bit(b, 1) = (b \div 2) % 2
      /\ Bit(b, 2) = (b \div 4) % 2 /\ Bit(b, 3) = (b \div 8) % 2
      /\ Bit(b, 4) = (b \div 16) % 2 /\ Bit(b, 5) = (b \div 32) % 2
      /\ Bit(b, 6) = (b \div 64) % 2 /\ Bit(b, 7) = (b \div 128) % 2
  BY BitOf
<1> USE DEF Bytes
<1> DEFINE q1 == b \div 2
           q2 == b \div 4
           q3 == b \div 8
           q4 == b \div 16
           q5 == b \div 32
           q6 == b \div 64
           q7 == b \div 128
<1>1. q1 \in Int /\ q2 \in Int /\ q3 \in Int /\ q4 \in Int /\ q5 \in Int /\ q6 \in Int /\ q7 \in 0..1
  OBVIOUS
<1>2. b % 2 = b - 2 * q1 /\ q1 % 2 = q1 - 2 * q2 /\ q2 % 2 = q2 - 2 * q3 /\ q3 % 2 = q3 - 2 * q4
  OBVIOUS
<1>3. q4 % 2 = q4 - 2 * q5 /\ q5 % 2 = q5 - 2 * q6 /\ q6 % 2 = q6 - 2 * q7 /\ q7 % 2 = q7
  OBVIOUS
<1>4. /\ Bit(b, 0) = b % 2 /\ Bit(b, 1) = q1 % 2 /\ Bit(b, 2) = q2 % 2 /\ Bit(b, 3) = q3 % 2
      /\ Bit(b, 4) = q4 % 2 /\ Bit(b, 5) = q5 % 2 /\ Bit(b, 6) = q6 % 2 /\ Bit(b, 7) = q7 % 2
  BY <1>0
<1> HIDE DEF q1, q2, q3, q4, q5, q6, q7
<1>5. \A n \in Int : n % 2 \in 0..1  OBVIOUS
<1>6. /\ Bit(b, 0) \in 0..1 /\ Bit(b, 1) \in 0..1 /\ Bit(b, 2) \in 0..1 /\ Bit(b, 3) \in 0..1
      /\ Bit(b, 4) \in 0..1 /\ Bit(b, 5) \in 0..1 /\ Bit(b, 6) \in 0..1 /\ Bit(b, 7) \in 0..1
  BY <1>1, <1>4, <1>5
<1>7. b = ByteOf(b - 2 * q1, q1 - 2 * q2, q2 - 2 * q3, q3 - 2 * q4,
                 q4 - 2 * q5, q5 - 2 * q6, q6 - 2 * q7, q7)
  BY <1>1 DEF ByteOf
<1> QED  BY <1>2, <1>3, <1>4, <1>6, <1>7

\* And, Or and Xor work bit by bit: u and v are the bits of the operands, w those both have.
LEMMA LogicBytes ==
  ASSUME NEW a \in Bytes, NEW b \in Bytes
  PROVE  And(a, b) \in Bytes /\ Or(a, b) \in Bytes /\ Xor(a, b) \in Bytes
<1> USE DEF Bytes
<1> DEFINE u0 == Bit(a, 0)  v0 == Bit(b, 0)  w0 == u0 * v0
           u1 == Bit(a, 1)  v1 == Bit(b, 1)  w1 == u1 * v1
           u2 == Bit(a, 2)  v2 == Bit(b, 2)  w2 == u2 * v2
           u3 == Bit(a, 3)  v3 == Bit(b, 3)  w3 == u3 * v3
           u4 == Bit(a, 4)  v4 == Bit(b, 4)  w4 == u4 * v4
           u5 == Bit(a, 5)  v5 == Bit(b, 5)  w5 == u5 * v5
           u6 == Bit(a, 6)  v6 == Bit(b, 6)  w6 == u6 * v6
           u7 == Bit(a, 7)  v7 == Bit(b, 7)  w7 == u7 * v7
           both == ByteOf(w0, w1, w2, w3, w4, w5, w6, w7)
<1>1. \A m, n \in 0..1 : /\ m * n \in 0..1 /\ m * n <= m /\ m * n <= n
                        /\ m + n - m * n <= 1
  BY SMT
<1>2. /\ u0 \in 0..1 /\ v0 \in 0..1
      /\ u1 \in 0..1 /\ v1 \in 0..1
      /\ u2 \in 0..1 /\ v2 \in 0..1
      /\ u3 \in 0..1 /\ v3 \in 0..1
      /\ u4 \in 0..1 /\ v4 \in 0..1
      /\ u5 \in 0..1 /\ v5 \in 0..1
      /\ u6 \in 0..1 /\ v6 \in 0..1
      /\ u7 \in 0..1 /\ v7 \in 0..1
  BY Bits
<1>3. /\ a = ByteOf(u0, u1, u2, u3, u4, u5, u6, u7) /\ b = ByteOf(v0, v1, v2, v3, v4, v5, v6, v7)
  BY Bits
<1>4. And(a, b) = both
  BY DEF And, ByteOf
<1> HIDE DEF u0, u1, u2, u3, u4, u5, u6, u7, v0, v1, v2, v3, v4, v5, v6, v7
<1>5. /\ w0 \in 0..1 /\ w0 <= u0 /\ w0 <= v0 /\ u0 + v0 - w0 <= 1
      /\ w1 \in 0..1 /\ w1 <= u1 /\ w1 <= v1 /\ u1 + v1 - w1 <= 1
      /\ w2 \in 0..1 /\ w2 <= u2 /\ w2 <= v2 /\ u2 + v2 - w2 <= 1
      /\ w3 \in 0..1 /\ w3 <= u3 /\ w3 <= v3 /\ u3 + v3 - w3 <= 1
      /\ w4 \in 0..1 /\ w4 <= u4 /\ w4 <= v4 /\ u4 + v4 - w4 <= 1
      /\ w5 \in 0..1 /\ w5 <= u5 /\ w5 <= v5 /\ u5 + v5 - w5 <= 1
      /\ w6 \in 0..1 /\ w6 <= u6 /\ w6 <= v6 /\ u6 + v6 - w6 <= 1
      /\ w7 \in 0..1 /\ w7 <= u7 /\ w7 <= v7 /\ u7 + v7 - w7 <= 1
  BY <1>1, <1>2, SMT
<1> HIDE DEF w0, w1, w2, w3, w4, w5, w6, w7
<1>6. both \in Bytes  BY <1>5, SMT DEF ByteOf
<1>7. a + b - both \in Bytes
  BY <1>2, <1>3, <1>5, SMT DEF ByteOf
<1>8. a + b - 2 * both \in Bytes
  BY <1>2, <1>3, <1>5, SMT DEF ByteOf
<1> HIDE DEF both
<1> QED  BY <1>4, <1>6, <1>7, <1>8 DEF Or, Xor

\* The range of a word is kept away from the provers, which would list it.
LEMMA InWords == ASSUME NEW n \in Int, 0 <= n, n <= 65535 PROVE n \in Words
<1> DEFINE m == 65535
<1>1. Words = 0..m  BY SMT DEF Words
<1>2. m \in Int /\ n <= m  BY SMT
<1> HIDE DEF m
<1> QED  BY <1>1, <1>2, SMT

LEMMA WordsAreNumbers == \A w \in Words : w \in Int /\ 0 <= w /\ w <= 65535
<1> DEFINE m == 65535
<1>1. Words = 0..m  BY SMT DEF Words
<1>2. m \in Int  BY SMT
<1> HIDE DEF m
<1>3. \A w \in Words : w \in Int /\ 0 <= w /\ w <= m  BY <1>1, <1>2, SMT
<1> QED  BY <1>3 DEF m

\* Truncation, and the parts of a word.
LEMMA Truncates == ASSUME NEW n \in Int PROVE Byte(n) \in Bytes /\ Word(n) \in Words
<1> USE DEF Bytes
<1>1. Byte(n) \in Bytes  BY SMT DEF Byte
<1>2. Word(n) \in Int /\ 0 <= Word(n) /\ Word(n) <= 65535  BY SMT DEF Word
<1> QED  BY <1>1, <1>2, InWords

LEMMA WordParts ==
  ASSUME NEW w \in Words, NEW b \in Bytes
  PROVE  /\ Low(w) \in Bytes /\ High(w) \in Bytes
         /\ WithLow(w, b) \in Words /\ WithHigh(w, b) \in Words
<1> USE DEF Bytes
<1> DEFINE q == w \div 256
           l == w % 256
<1>1. w \in Int /\ 0 <= w /\ w <= 65535  BY WordsAreNumbers
<1>2. l \in Int /\ 0 <= l /\ l <= 255  BY <1>1, SMT
<1>3. q \in Int /\ l = w - 256 * q  BY <1>1, SMT
<1>4. Low(w) = l /\ High(w) = q /\ WithLow(w, b) = q * 256 + b /\ WithHigh(w, b) = b * 256 + l
  BY SMT DEF Low, High, WithLow, WithHigh
<1> HIDE DEF q, l
<1>5. 0 <= q /\ q <= 255  BY <1>1, <1>2, <1>3, SMT
<1>6. WithLow(w, b) \in Words
  <2>1. WithLow(w, b) \in Int /\ 0 <= WithLow(w, b) /\ WithLow(w, b) <= 65535  BY <1>3, <1>4, <1>5, SMT
  <2> QED  BY <2>1, InWords, SMT
<1>7. WithHigh(w, b) \in Words
  <2>1. WithHigh(w, b) \in Int /\ 0 <= WithHigh(w, b) /\ WithHigh(w, b) <= 65535  BY <1>2, <1>4, SMT
  <2> QED  BY <2>1, InWords, SMT
<1>8. Low(w) \in Bytes  BY <1>2, <1>4, SMT
<1>9. High(w) \in Bytes  BY <1>3, <1>4, <1>5, SMT
<1> QED  BY <1>6, <1>7, <1>8, <1>9

LEMMA AddressWord ==
  ASSUME NEW high \in Bytes, NEW low \in Bytes PROVE Address(high, low) \in Words
<1> USE DEF Bytes
<1> DEFINE n == high * 256 + low
<1>1. n \in Int /\ 0 <= n /\ n <= 65535  BY SMT
<1>2. Address(high, low) = n  BY DEF Address
<1> HIDE DEF n
<1> QED  BY <1>1, <1>2, InWords

LEMMA ComplementByte == ASSUME NEW b \in Bytes PROVE Complement(b) \in Bytes
  BY SMT DEF Bytes, Complement

LEMMA ShiftBytes ==
  ASSUME NEW P, NEW v \in Bytes
  PROVE  /\ AslResult(v) \in Bytes /\ LsrResult(v) \in Bytes
         /\ RolResult(P, v) \in Bytes /\ RorResult(P, v) \in Bytes
<1> USE DEF Bytes
<1> DEFINE k == Carry(P)
           q == v \div 2
           d == (v * 2) % 256
<1>1. k \in 0..1  BY SMT DEF Carry
<1>2. q \in Int /\ 0 <= q /\ q <= 127  BY SMT
<1>3. d \in Int /\ 0 <= d /\ d <= 254  BY SMT
<1>4. /\ AslResult(v) = d /\ LsrResult(v) = q /\ RolResult(P, v) = d + k
      /\ RorResult(P, v) = q + 128 * k
  BY SMT DEF AslResult, LsrResult, RolResult, RorResult, Byte
<1> HIDE DEF k, q, d
<1>5. d \in Bytes /\ q \in Bytes  BY <1>2, <1>3, SMT
<1>6. d + k \in Bytes  BY <1>1, <1>3, SMT
<1>7. q + 128 * k \in Bytes  BY <1>1, <1>2, SMT
<1> QED  BY <1>4, <1>5, <1>6, <1>7
-----------------------------------------------------------------------------
\* What the instructions leave.
LEMMA LeavesLoad ==
  ASSUME NEW r \in Registers, NEW set, NEW value \in Bytes PROVE Leaves(r, Load(r, set, value))
<1> USE DEF Bytes
<1> DEFINE q == update_flags_nz(r, value)
           a == IF "A" \in set THEN value ELSE q.A
           x == IF "X" \in set THEN value ELSE q.X
           y == IF "Y" \in set THEN value ELSE q.Y
           s == IF "S" \in set THEN value ELSE q.S
<1>1. q \in Registers /\ Leaves(r, q)  BY LeavesNZ DEF Leaves
<1>2. Load(r, set, value) = [q EXCEPT !.A = a, !.X = x, !.Y = y, !.S = s]
  BY DEF Load
<1> HIDE DEF q
<1>3. a \in Bytes /\ x \in Bytes /\ y \in Bytes /\ s \in Bytes  BY <1>1 DEF Registers
<1> HIDE DEF a, x, y, s
<1> DEFINE e == [q EXCEPT !.A = a, !.X = x, !.Y = y, !.S = s]
<1>4. e \in Registers /\ e.P = q.P  BY <1>1, <1>3 DEF Registers
<1> HIDE DEF e
<1>5. Leaves(q, e)  BY <1>4 DEF Leaves, SameModes
<1>6. Leaves(r, e)  BY <1>1, <1>5, LeavesOn
<1> QED  BY <1>2, <1>6 DEF e

LEMMA LeavesCompare ==
  ASSUME NEW r \in Registers, NEW reg, NEW value
  PROVE  Leaves(r, compare_register_with_value(r, reg, value))
  BY LeavesNZ DEF compare_register_with_value

LEMMA LeavesShift ==
  ASSUME NEW r \in Registers, NEW value, NEW result
  PROVE  Leaves(r, LeftFlags(r, value, result)) /\ Leaves(r, RightFlags(r, value, result))
  BY LeavesNZ DEF LeftFlags, RightFlags

LEMMA LeavesResult ==
  ASSUME NEW r \in Registers, NEW flags \in SUBSET Sums, NEW a \in Bytes
  PROVE  Leaves(r, Result(r, flags, a))
<1> DEFINE q == [r EXCEPT !.P = (@ \ Sums) \cup flags]
<1>1. Result(r, flags, a) = [q EXCEPT !.A = a]
  BY Zenon DEF Result, update_flags_cvzn, Sums
<1>2. Leaves(r, q) /\ q \in Registers  BY LeavesFlags DEF Leaves
<1> HIDE DEF q
<1>3. Leaves(q, [q EXCEPT !.A = a])  BY <1>2, LeavesByte
<1> QED  BY <1>1, <1>2, <1>3, LeavesOn

\* The sums are within their widths by the theorems above; they set no mode.
LEMMA BinaryFlagsSum == ASSUME NEW a, NEW v, NEW sum, NEW result
  PROVE BinaryFlags(a, v, sum, result) \in SUBSET Sums
<1>1. "C" \in Sums /\ "V" \in Sums  BY DEF Sums
<1>2. NZ(result) \in SUBSET Sums  BY NZFlags
<1> QED  BY <1>1, <1>2, ConditionFlag DEF BinaryFlags

LEMMA LeavesBinary ==
  ASSUME NEW r \in Registers, NEW v \in Bytes
  PROVE  Leaves(r, adc_binary(r, v))
<1> USE DEF Bytes
<1> DEFINE sum == r.A + v + Carry(r.P)
           flags == BinaryFlags(r.A, v, sum, Byte(sum))
<1>1. r.A \in Bytes /\ Carry(r.P) \in 0..1  BY DEF Registers, Carry
<1>2. sum \in Int  BY <1>1
<1>3. adc_binary(r, v) = Result(r, flags, Byte(sum))  BY DEF adc_binary, Result
<1>4. flags \in SUBSET Sums  BY BinaryFlagsSum
<1> HIDE DEF sum, flags
<1>5. Byte(sum) \in Bytes  BY <1>2, Truncates
<1> QED  BY <1>3, <1>4, <1>5, LeavesResult

\* A sum whose accumulator is known to be a byte.
LEMMA LeavesSum ==
  ASSUME NEW r \in Registers, NEW flags \in SUBSET Sums, NEW a, Result(r, flags, a) \in Registers
  PROVE  Leaves(r, Result(r, flags, a))
<1> DEFINE q == [r EXCEPT !.P = (@ \ Sums) \cup flags]
<1>1. Result(r, flags, a) = [q EXCEPT !.A = a]
  BY Zenon DEF Result, update_flags_cvzn, Sums
<1>2. Leaves(r, q) /\ q \in Registers  BY LeavesFlags DEF Leaves
<1> HIDE DEF q
<1>3. [q EXCEPT !.A = a].P = q.P  BY <1>2 DEF Registers
<1> QED  BY <1>1, <1>2, <1>3 DEF Leaves, SameModes
LEMMA DecimalFlags ==
  ASSUME NEW z, NEW n, NEW v, NEW c
  PROVE  /\ If("Z", z) \cup If("N", n) \cup If("V", v) \cup If("C", c) \in SUBSET Sums
         /\ If("C", c) \cup NZ(n) \cup If("V", v) \in SUBSET Sums
<1>1. "C" \in Sums /\ "Z" \in Sums /\ "V" \in Sums /\ "N" \in Sums  BY DEF Sums
<1>2. NZ(n) \in SUBSET Sums  BY NZFlags
<1>3. /\ If("Z", z) \in SUBSET Sums /\ If("N", n) \in SUBSET Sums
      /\ If("V", v) \in SUBSET Sums /\ If("C", c) \in SUBSET Sums
  BY <1>1, ConditionFlag
<1> QED  BY <1>2, <1>3

LEMMA LeavesDecimal ==
  ASSUME NEW r \in Registers, NEW v \in Bytes
  PROVE  /\ Leaves(r, adc_decimal_nmos(r, v)) /\ Leaves(r, sbc_decimal_nmos(r, v))
         /\ Leaves(r, adc_decimal_cmos(r, v)) /\ Leaves(r, sbc_decimal_cmos(r, v))
<1> USE DEF Bytes
<1>1. Leaves(r, adc_decimal_nmos(r, v))
  <2> DEFINE low == Units(r.A) + Units(v) + Carry(r.P)
             carry == IF low > 9 THEN 1 ELSE 0
             high == Tens(r.A) + Tens(v) + carry
             b == Byte(high * 16 + Units(low - 10 * carry))
             flags == If("Z", Byte(r.A + v + Carry(r.P)) = 0) \cup If("N", b >= 128)
                       \cup If("V", Bit(r.A, 7) = Bit(v, 7) /\ Bit(r.A, 7) # Bit(b, 7))
                       \cup If("C", high > 9)
             new == IF high > 9 THEN Byte(b - 160) ELSE b
             s == Result(r, flags, new)
  <2>1. adc_decimal_nmos(r, v) = s  BY DEF adc_decimal_nmos, Result
  <2>2. flags \in SUBSET Sums  BY DEF If, NZ, Sums
  <2> HIDE DEF s
  <2>3. s \in Registers  BY <2>1, AdcDecimalNmosIsSum
  <2> HIDE DEF flags, new
  <2> USE DEF s
  <2> QED  BY <2>1, <2>2, <2>3, LeavesSum
<1>2. Leaves(r, sbc_decimal_nmos(r, v))
  <2> DEFINE low == Units(r.A) - Units(v) - (1 - Carry(r.P))
             borrow == IF low < 0 THEN 1 ELSE 0
             high == Tens(r.A) - Tens(v) - borrow
             b == Byte(high * 16 + Units(low + 10 * borrow))
             flags == If("Z", Byte(r.A + Complement(v) + Carry(r.P)) = 0) \cup If("N", b >= 128)
                       \cup If("V", Bit(r.A, 7) # Bit(v, 7) /\ Bit(r.A, 7) # Bit(b, 7))
                       \cup If("C", high >= 0)
             new == IF high < 0 THEN Byte(b + 160) ELSE b
             s == Result(r, flags, new)
  <2>1. sbc_decimal_nmos(r, v) = s  BY DEF sbc_decimal_nmos, Result
  <2>2. flags \in SUBSET Sums  BY DEF If, NZ, Sums
  <2> HIDE DEF s
  <2>3. s \in Registers  BY <2>1, SbcDecimalNmosIsDifference
  <2> HIDE DEF flags, new
  <2> USE DEF s
  <2> QED  BY <2>1, <2>2, <2>3, LeavesSum
<1>3. Leaves(r, adc_decimal_cmos(r, v))
  <2> DEFINE low == Units(r.A) + Units(v) + Carry(r.P)
             units == IF low >= 10 THEN 16 + Units(low + 6) ELSE low
             sum == units + 16 * Tens(r.A) + 16 * Tens(v)
             new == Byte(IF sum >= 160 THEN sum + 96 ELSE sum)
             same == Bit(r.A, 7) = Bit(v, 7)
             flags == If("C", sum >= 160) \cup NZ(new)
                       \cup If("V", same /\ IF sum >= 160 THEN sum < 384 ELSE sum >= 128)
             s == Result(r, flags, new)
  <2>1. adc_decimal_cmos(r, v) = s  BY DEF adc_decimal_cmos, Result
  <2>2. flags \in SUBSET Sums  BY DEF If, NZ, Sums
  <2> HIDE DEF s
  <2>3. s \in Registers  BY <2>1, AdcDecimalCmosIsSum
  <2> HIDE DEF flags, new
  <2> USE DEF s
  <2> QED  BY <2>1, <2>2, <2>3, LeavesSum
<1>4. Leaves(r, sbc_decimal_cmos(r, v))
  <2> DEFINE low == 15 + Units(r.A) - Units(v) + Carry(r.P)
             units == IF low < 16 THEN low - 6 ELSE low - 16
             tens == Word(16 * (Tens(r.A) - Tens(v)) + IF low < 16 THEN 0 ELSE 16)
             probe == Byte(16 * Units(Tens(tens)) + Units(units) - 16)
             high == Word(tens + 240)
             new == Byte((IF high < 256 THEN Word(high - 96) ELSE high) + units)
             flags == If("C", high >= 256) \cup NZ(new)
                       \cup If("V", Bit(r.A, 7) # Bit(v, 7) /\ Bit(r.A, 7) # Bit(probe, 7))
             s == Result(r, flags, new)
  <2>1. sbc_decimal_cmos(r, v) = s  BY DEF sbc_decimal_cmos, Result
  <2>2. flags \in SUBSET Sums  BY DEF If, NZ, Sums
  <2> HIDE DEF s
  <2>3. s \in Registers  BY <2>1, SbcDecimalCmosIsDifference
  <2> HIDE DEF flags, new
  <2> USE DEF s
  <2> QED  BY <2>1, <2>2, <2>3, LeavesSum
<1> QED  BY <1>1, <1>2, <1>3, <1>4

LEMMA LeavesArithmetic ==
  ASSUME NEW model, NEW r \in Registers, NEW v \in Bytes
  PROVE  /\ Leaves(r, Adc(model, r, v)) /\ Leaves(r, Sbc(model, r, v))
         /\ \A mn : Leaves(r, CmosDecimal(mn, r, v))
<1>1. Complement(v) \in Bytes  BY ComplementByte
<1>2. Leaves(r, adc_binary(r, v)) /\ Leaves(r, adc_binary(r, Complement(v)))
  BY <1>1, LeavesBinary
<1> QED  BY <1>2, LeavesDecimal, Zenon DEF Adc, adc_value, Sbc, sbc_value, CmosDecimal

LEMMA Fields ==
  ASSUME NEW r \in Registers
  PROVE  /\ r.A \in Bytes /\ r.X \in Bytes /\ r.Y \in Bytes /\ r.S \in Bytes
         /\ r.data \in Bytes /\ r.PC \in Words /\ r.addr \in Words /\ r.P \in SUBSET Flag
  BY DEF Registers, Bytes

\* ARR.
LEMMA LeavesRotated ==
  ASSUME NEW r \in Registers, NEW v \in Bytes
  PROVE  Leaves(r, arr_binary_value(r, v)) /\ Leaves(r, arr_decimal_nmos_value(r, v))
<1> DEFINE q == arr_binary_value(r, v)
<1>1. Leaves(r, q)
  <2>1. RorResult(r.P, v) \in Bytes  BY ShiftBytes
  <2>2. \E flags \in SUBSET Sums : q = Result(r, flags, RorResult(r.P, v))
    BY DecimalFlags, Zenon DEF arr_binary_value, Result
  <2> QED  BY <2>1, <2>2, LeavesResult
<1>2. \E a, b \in Bytes, set \in {{}, {"C"}}, old \in {{}, {"C"}} :
        arr_decimal_nmos_value(r, v) = [q EXCEPT !.A = a, !.P = (@ \ old) \cup set]
  <2> DEFINE fixLow  == Units(v) + Bit(v, 0) > 5
             fixHigh == 16 * Tens(v) + Bit(v, 4) * 16 > 80
             low     == IF fixLow THEN Units(q.A + 6) ELSE Units(q.A)
             result  == 16 * Tens(q.A) + low
             a       == IF fixHigh THEN Byte(result + 96) ELSE result
             old     == IF fixHigh THEN {} ELSE {"C"}
             set     == IF fixHigh THEN {"C"} ELSE {}
  <2>1. arr_decimal_nmos_value(r, v) = [q EXCEPT !.A = a, !.P = (@ \ old) \cup set]
    <3>1. CASE fixHigh
      BY <3>1 DEF arr_decimal_nmos_value
    <3>2. CASE ~fixHigh
      BY <3>2 DEF arr_decimal_nmos_value
    <3> QED  BY <3>1, <3>2
  <2> HIDE DEF fixLow, fixHigh
  <2>2. low \in Int /\ 0 <= low /\ low <= 15
    <3>1. q.A \in Bytes  BY <1>1, Fields DEF Leaves
    <3> QED  BY <3>1, SMT DEF Units, Bytes
  <2>3. result \in Bytes
    <3>1. q.A \in Bytes  BY <1>1, Fields DEF Leaves
    <3>2. Tens(q.A) \in 0..15  BY <3>1, SMT DEF Tens, Bytes
    <3> HIDE DEF low
    <3> QED  BY <2>2, <3>2, SMT DEF Bytes
  <2> HIDE DEF result
  <2>4. Byte(result + 96) \in Bytes
    <3>1. result + 96 \in Int  BY <2>3, SMT DEF Bytes
    <3> QED  BY <3>1, Truncates
  <2>5. a \in Bytes  BY <2>3, <2>4
  <2>6. old \in {{}, {"C"}} /\ set \in {{}, {"C"}}  OBVIOUS
  <2> HIDE DEF a, old, set
  <2> QED  BY <2>1, <2>5, <2>6
<1> HIDE DEF q
<1>3. ASSUME NEW a \in Bytes, NEW old \in {{}, {"C"}}, NEW set \in {{}, {"C"}}
      PROVE  Leaves(r, [q EXCEPT !.A = a, !.P = (@ \ old) \cup set])
  <2> DEFINE e == [q EXCEPT !.A = a]
             f == [e EXCEPT !.P = (@ \ old) \cup set]
  <2>1. q \in Registers  BY <1>1 DEF Leaves
  <2>2. Leaves(q, e) /\ e \in Registers  BY <2>1, LeavesByte DEF Leaves
  <2>3. [q EXCEPT !.A = a, !.P = (@ \ old) \cup set] = f  BY <2>1 DEF Registers
  <2> HIDE DEF e
  <2>4. old \in SUBSET Sums /\ set \in SUBSET Sums  BY DEF Sums
  <2>5. Leaves(e, f)  BY <2>2, <2>4, LeavesFlags
  <2> HIDE DEF f
  <2>6. Leaves(q, f)  BY <2>2, <2>5, LeavesOn
  <2> QED  BY <1>1, <2>3, <2>6, LeavesOn
<1>4. Leaves(r, arr_decimal_nmos_value(r, v))  BY <1>2, <1>3
<1> QED  BY <1>1, <1>4 DEF q
\* A logical result goes into a register with its flags.
LEMMA LeavesLogicAndArithmetic ==
  ASSUME NEW model, NEW r \in Registers, NEW v \in Bytes,
         NEW mn \in { "ADC", "AND", "ANC", "ALR", "ARR", "AXS", "XAA", "LXA", "BIT", "CMP",
                      "CPX", "CPY" }
  PROVE  Leaves(r, LogicAndArithmetic(mn, model, r, v))
<1> DEFINE w == And(r.A, v)
           q == LogicAndArithmetic(mn, model, r, v)
<1>1. r.A \in Bytes /\ r.X \in Bytes  BY Fields
<1>2. w \in Bytes /\ And(r.A, r.X) \in Bytes /\ Or(r.A, 238) \in Bytes
  <2>1. 238 \in Bytes  BY SMT DEF Bytes
  <2> QED  BY <1>1, <2>1, LogicBytes
<1>3. CASE mn = "ADC"
  <2>1. q = Adc(model, r, v)  BY <1>3 DEF LogicAndArithmetic
  <2> QED  BY <2>1, LeavesArithmetic
<1>4. CASE mn = "AND"
  <2>1. q = Load(r, {"A"}, w)  BY <1>4 DEF LogicAndArithmetic
  <2> QED  BY <1>2, <2>1, LeavesLoad
<1>5. CASE mn = "ANC"
  <2> DEFINE l == Load(r, {"A"}, w)
             old == {"C"}
             new == If("C", w >= 128)
             e == [l EXCEPT !.P = (@ \ old) \cup new]
  <2>1. q = e  BY <1>5 DEF LogicAndArithmetic
  <2>2. Leaves(r, l) /\ l \in Registers  BY <1>2, LeavesLoad DEF Leaves
  <2>3. old \in SUBSET Sums /\ new \in SUBSET Sums  BY DEF Sums, If
  <2> HIDE DEF l, old, new
  <2>4. Leaves(l, e)  BY <2>2, <2>3, LeavesFlags
  <2> HIDE DEF e
  <2> QED  BY <2>1, <2>2, <2>4, LeavesOn
<1>6. CASE mn = "ALR"
  <2> DEFINE a == LsrResult(w)
             l == RightFlags(r, w, a)
             e == [l EXCEPT !.A = a]
  <2>1. q = e  BY <1>6 DEF LogicAndArithmetic
  <2>2. a \in Bytes  BY <1>2, ShiftBytes
  <2> HIDE DEF a
  <2>3. Leaves(r, l) /\ l \in Registers  BY LeavesShift DEF Leaves
  <2> HIDE DEF l
  <2>4. Leaves(l, e)  BY <2>2, <2>3, LeavesByte
  <2> HIDE DEF e
  <2> QED  BY <2>1, <2>3, <2>4, LeavesOn
<1>7. CASE mn = "ARR"
  <2>1. q = arr_decimal_nmos_value(r, w) \/ q = arr_binary_value(r, w)
    BY <1>7 DEF LogicAndArithmetic
  <2>2. w \in Bytes  BY <1>2
  <2> HIDE DEF q, w
  <2>3. Leaves(r, arr_binary_value(r, w)) /\ Leaves(r, arr_decimal_nmos_value(r, w))
    BY <2>2, LeavesRotated
  <2>4. Leaves(r, q)  BY <2>1, <2>3
  <2> QED  BY <2>4 DEF q
<1>8. CASE mn = "AXS"
  <2> DEFINE both == And(r.A, r.X)
             l == compare_register_with_value(r, both, v)
             b == Byte(both - v)
             e == [l EXCEPT !.X = b]
  <2>1. q = e  BY <1>8 DEF LogicAndArithmetic
  <2>2. b \in Bytes
    <3> HIDE DEF both
    <3>1. both \in Bytes  BY <1>2 DEF both
    <3>2. both - v \in Int  BY <3>1, SMT DEF Bytes
    <3> QED  BY <3>2, Truncates
  <2>3. Leaves(r, l) /\ l \in Registers  BY LeavesCompare DEF Leaves
  <2> HIDE DEF l, b
  <2>4. Leaves(l, e)  BY <2>2, <2>3, LeavesByte
  <2> HIDE DEF e
  <2> QED  BY <2>1, <2>3, <2>4, LeavesOn
<1>9. CASE mn = "XAA"
  <2> DEFINE b == And(And(Or(r.A, 238), r.X), v)
  <2>1. q = Load(r, {"A"}, b)  BY <1>9 DEF LogicAndArithmetic
  <2>2. And(Or(r.A, 238), r.X) \in Bytes  BY <1>1, <1>2, LogicBytes
  <2>3. b \in Bytes  BY <2>2, LogicBytes
  <2> HIDE DEF b
  <2> QED  BY <2>1, <2>3, LeavesLoad
<1>10. CASE mn = "LXA"
  <2> DEFINE b == And(Or(r.A, 238), v)
  <2>1. q = Load(r, {"A", "X"}, b)  BY <1>10 DEF LogicAndArithmetic
  <2>2. b \in Bytes  BY <1>2, LogicBytes
  <2> HIDE DEF b
  <2> QED  BY <2>1, <2>2, LeavesLoad
<1>11. CASE mn = "BIT"
  <2> DEFINE old == {"N", "V", "Z"}
             new == (Flags(v) \cap {"N", "V"}) \cup If("Z", w = 0)
             e == [r EXCEPT !.P = (@ \ old) \cup new]
  <2>1. q = e
    <3>1. q = [r EXCEPT !.P = (@ \ {"N", "V", "Z"}) \cup (Flags(v) \cap {"N", "V"})
                                \cup If("Z", And(r.A, v) = 0)]
      BY <1>11 DEF LogicAndArithmetic
    <3>2. \A p : (p \ old) \cup (Flags(v) \cap {"N", "V"}) \cup If("Z", w = 0) = (p \ old) \cup new
      OBVIOUS
    <3> HIDE DEF q
    <3> QED  BY <3>1, <3>2
  <2>2. old \in SUBSET Sums /\ new \in SUBSET Sums  BY DEF Sums, If
  <2> HIDE DEF old, new
  <2>3. Leaves(r, e)  BY <2>2, LeavesFlags
  <2> QED  BY <2>1, <2>3
<1>12. CASE mn = "CMP"
  <2>1. q = compare_register_with_value(r, r.A, v)  BY <1>12 DEF LogicAndArithmetic
  <2> QED  BY <2>1, LeavesCompare
<1>13. CASE mn = "CPX"
  <2>1. q = compare_register_with_value(r, r.X, v)  BY <1>13 DEF LogicAndArithmetic
  <2> QED  BY <2>1, LeavesCompare
<1>14. CASE mn = "CPY"
  <2>1. q = compare_register_with_value(r, r.Y, v)  BY <1>14 DEF LogicAndArithmetic
  <2> QED  BY <2>1, LeavesCompare
<1> HIDE DEF q
<1> QED  BY <1>3, <1>4, <1>5, <1>6, <1>7, <1>8, <1>9, <1>10, <1>11, <1>12, <1>13, <1>14 DEF q

LEMMA LeavesLogicAndLoad ==
  ASSUME NEW model, NEW r \in Registers, NEW v \in Bytes,
         NEW mn \in { "EOR", "LDA", "LAX", "LAS", "LDX", "LDY", "ORA", "SBC", "PLA", "PLX",
                      "PLY" }
  PROVE  Leaves(r, LogicAndLoad(mn, model, r, v))
<1> DEFINE q == LogicAndLoad(mn, model, r, v)
<1>1. r.A \in Bytes /\ r.S \in Bytes  BY Fields
<1>2. Xor(r.A, v) \in Bytes /\ And(r.S, v) \in Bytes /\ Or(r.A, v) \in Bytes
  BY <1>1, LogicBytes
<1>3. CASE mn = "SBC"
  <2>1. q = Sbc(model, r, v)  BY <1>3 DEF LogicAndLoad
  <2> QED  BY <2>1, LeavesArithmetic
<1> DEFINE Loaded(set, value) == q = Load(r, set, value)
<1>4. /\ mn = "EOR" => Loaded({"A"}, Xor(r.A, v))
      /\ mn = "LAS" => Loaded({"A", "X", "S"}, And(r.S, v))
      /\ mn = "ORA" => Loaded({"A"}, Or(r.A, v))
      /\ mn = "LAX" => Loaded({"A", "X"}, v)
  BY DEF LogicAndLoad
<1>5. /\ mn \in {"LDA", "PLA"} => Loaded({"A"}, v)
      /\ mn \in {"LDX", "PLX"} => Loaded({"X"}, v)
      /\ mn \in {"LDY", "PLY"} => Loaded({"Y"}, v)
  BY DEF LogicAndLoad
<1> HIDE DEF q
<1>6. CASE mn \in {"EOR", "LAS", "ORA", "LAX"}  BY <1>2, <1>4, <1>6, LeavesLoad DEF q
<1>7. CASE mn \in {"LDA", "PLA", "LDX", "PLX", "LDY", "PLY"}  BY <1>5, <1>7, LeavesLoad DEF q
<1> QED  BY <1>3, <1>6, <1>7

\* The instructions that read an operand, among them BIT # of the CMOS models.
LEMMA LeavesRead ==
  ASSUME NEW model, NEW r \in Registers, NEW v \in Bytes
  PROVE  /\ \A mn \in Reading : Leaves(r, ReadOp(mn, model, r, v))
         /\ Leaves(r, cmos_bit_imm(r, v))
<1>1. ASSUME NEW mn \in Reading PROVE Leaves(r, ReadOp(mn, model, r, v))
  <2>1. CASE mn \in { "ADC", "AND", "ANC", "ALR", "ARR", "AXS", "XAA", "LXA", "BIT", "CMP",
                     "CPX", "CPY" }
    BY <2>1, LeavesLogicAndArithmetic DEF ReadOp
  <2>2. CASE mn \in { "EOR", "LDA", "LAX", "LAS", "LDX", "LDY", "ORA", "SBC", "PLA", "PLX",
                     "PLY" }
    BY <2>2, LeavesLogicAndLoad DEF ReadOp
  <2> QED  BY <2>1, <2>2 DEF Reading
<1>2. Leaves(r, cmos_bit_imm(r, v))
  <2> DEFINE old == {"Z"}
             new == If("Z", And(r.A, v) = 0)
             e == [r EXCEPT !.P = (@ \ old) \cup new]
  <2>1. cmos_bit_imm(r, v) = e  BY DEF cmos_bit_imm
  <2>2. old \in SUBSET Sums /\ new \in SUBSET Sums  BY DEF Sums, If
  <2> HIDE DEF old, new
  <2> QED  BY <2>1, <2>2, LeavesFlags
<1> QED  BY <1>1, <1>2
\* Implied and accumulator instructions, but for those that set or clear a mode.
LEMMA LeavesImplied ==
  ASSUME NEW r \in Registers,
         NEW mn \in {"CLC", "SEC", "CLV"} \cup Counting \cup Shifts \cup Transfers
  PROVE  Leaves(r, ImpliedOp(mn, r))
<1> DEFINE q == ImpliedOp(mn, r)
<1>1. r.A \in Bytes /\ r.X \in Bytes /\ r.Y \in Bytes /\ r.S \in Bytes  BY Fields
<1>2. /\ Byte(r.A + 1) \in Bytes /\ Byte(r.A - 1) \in Bytes
      /\ Byte(r.X + 1) \in Bytes /\ Byte(r.X - 1) \in Bytes
      /\ Byte(r.Y + 1) \in Bytes /\ Byte(r.Y - 1) \in Bytes
  <2>1. \A b \in Bytes : b + 1 \in Int /\ b - 1 \in Int  BY SMT DEF Bytes
  <2>2. \A b \in Bytes : Byte(b + 1) \in Bytes /\ Byte(b - 1) \in Bytes  BY <2>1, Truncates
  <2> QED  BY <1>1, <2>2
<1>3. CASE mn \in {"CLC", "SEC", "CLV"}
  <2>1. PICK old \in SUBSET Sums, new \in SUBSET Sums : q = [r EXCEPT !.P = (@ \ old) \cup new]
    <3>1. /\ mn = "CLC" => q = [r EXCEPT !.P = (@ \ {"C"}) \cup {}]
          /\ mn = "CLV" => q = [r EXCEPT !.P = (@ \ {"V"}) \cup {}]
          /\ mn = "SEC" => q = [r EXCEPT !.P = (@ \ {}) \cup {"C"}]
      BY <1>3 DEF ImpliedOp, FlagInstructions, FlagOp
    <3>2. {"C"} \in SUBSET Sums /\ {"V"} \in SUBSET Sums /\ {} \in SUBSET Sums  BY DEF Sums
    <3> HIDE DEF q
    <3> QED  BY <1>3, <3>1, <3>2
  <2> HIDE DEF q
  <2> QED  BY <2>1, LeavesFlags DEF q
<1>4. CASE mn \in {"ASL", "LSR", "ROL", "ROR"}
  <2> DEFINE Shifted(l, a) == q = [l EXCEPT !.A = a]
             v == r.A
  <2>1. /\ mn = "ASL" => Shifted(LeftFlags(r, v, AslResult(v)), AslResult(v))
        /\ mn = "LSR" => Shifted(RightFlags(r, v, LsrResult(v)), LsrResult(v))
        /\ mn = "ROL" => Shifted(LeftFlags(r, v, RolResult(r.P, v)), RolResult(r.P, v))
        /\ mn = "ROR" => Shifted(RightFlags(r, v, RorResult(r.P, v)), RorResult(r.P, v))
    BY <1>4 DEF ImpliedOp, FlagInstructions, Shifts, AccumulatorOp
  <2> HIDE DEF q
  <2>2. /\ AslResult(v) \in Bytes /\ LsrResult(v) \in Bytes
        /\ RolResult(r.P, v) \in Bytes /\ RorResult(r.P, v) \in Bytes
    BY <1>1, ShiftBytes
  <2>3. \A value, result : Leaves(r, LeftFlags(r, value, result))
                            /\ Leaves(r, RightFlags(r, value, result))
    BY LeavesShift
  <2>4. ASSUME NEW l, NEW a \in Bytes, Leaves(r, l), Shifted(l, a) PROVE Leaves(r, q)
    <3>1. l \in Registers  BY <2>4 DEF Leaves
    <3>2. Leaves(l, [l EXCEPT !.A = a])  BY <3>1, LeavesByte
    <3> QED  BY <2>4, <3>2, LeavesOn
  <2> HIDE DEF Shifted, v
  <2>5. Leaves(r, q)  BY <1>4, <2>1, <2>2, <2>3, <2>4
  <2> QED  BY <2>5 DEF q
<1> DEFINE Loaded(set, value) == q = Load(r, set, value)
<1>5. CASE mn \in {"INC", "DEC", "INX", "DEX", "INY", "DEY"}
  <2>1. /\ mn = "INC" => Loaded({"A"}, Byte(r.A + 1))
        /\ mn = "DEC" => Loaded({"A"}, Byte(r.A - 1))
        /\ mn = "INX" => Loaded({"X"}, Byte(r.X + 1))
        /\ mn = "DEX" => Loaded({"X"}, Byte(r.X - 1))
        /\ mn = "INY" => Loaded({"Y"}, Byte(r.Y + 1))
        /\ mn = "DEY" => Loaded({"Y"}, Byte(r.Y - 1))
    BY <1>5 DEF ImpliedOp, FlagInstructions, Shifts, Transfers, AccumulatorOp, IndexOp
  <2> HIDE DEF q
  <2> QED  BY <1>2, <1>5, <2>1, LeavesLoad DEF q
<1>6. CASE mn \in {"TAX", "TAY", "TXA", "TYA", "TSX"}
  <2>1. /\ mn = "TAX" => Loaded({"X"}, r.A)
        /\ mn = "TAY" => Loaded({"Y"}, r.A)
        /\ mn = "TXA" => Loaded({"A"}, r.X)
        /\ mn = "TYA" => Loaded({"A"}, r.Y)
        /\ mn = "TSX" => Loaded({"X"}, r.S)
    BY <1>6 DEF ImpliedOp, FlagInstructions, Shifts, Transfers, TransferOp
  <2> HIDE DEF q
  <2> QED  BY <1>1, <1>6, <2>1, LeavesLoad DEF q
<1>7. CASE mn = "TXS"
  <2>1. q = [r EXCEPT !.S = r.X]
    BY <1>7 DEF ImpliedOp, FlagInstructions, Shifts, Transfers, TransferOp
  <2> QED  BY <1>1, <2>1, LeavesByte
<1> QED  BY <1>3, <1>4, <1>5, <1>6, <1>7 DEF Shifts, Transfers, Counting

\* RMB and SMB change one bit of a byte.
LEMMA OneBit ==
  ASSUME NEW v \in Bytes, NEW i \in 0..7
  PROVE  v - Bit(v, i) * 2^i \in Bytes /\ v + (1 - Bit(v, i)) * 2^i \in Bytes
<1> DEFINE b0 == Bit(v, 0)
           b1 == Bit(v, 1)
           b2 == Bit(v, 2)
           b3 == Bit(v, 3)
           b4 == Bit(v, 4)
           b5 == Bit(v, 5)
           b6 == Bit(v, 6)
           b7 == Bit(v, 7)
<1>1. /\ b0 \in 0..1 /\ b1 \in 0..1 /\ b2 \in 0..1 /\ b3 \in 0..1
      /\ b4 \in 0..1 /\ b5 \in 0..1 /\ b6 \in 0..1 /\ b7 \in 0..1
      /\ v = ByteOf(b0, b1, b2, b3, b4, b5, b6, b7)
  BY Bits
<1>2. /\ 2^0 = 1 /\ 2^1 = 2 /\ 2^2 = 4 /\ 2^3 = 8
      /\ 2^4 = 16 /\ 2^5 = 32 /\ 2^6 = 64 /\ 2^7 = 128
  OBVIOUS
<1> HIDE DEF b0, b1, b2, b3, b4, b5, b6, b7
<1> DEFINE Stays(b, w) == v - b * w \in Bytes /\ v + (1 - b) * w \in Bytes
<1>3. Stays(b0, 1) /\ Stays(b1, 2) /\ Stays(b2, 4) /\ Stays(b3, 8)
  BY <1>1, SMT DEF ByteOf, Bytes
<1>4. Stays(b4, 16) /\ Stays(b5, 32) /\ Stays(b6, 64) /\ Stays(b7, 128)
  BY <1>1, SMT DEF ByteOf, Bytes
<1> HIDE DEF Stays
<1> DEFINE Kept(j) == Stays(Bit(v, j), 2^j)
<1>5. Kept(0) /\ Kept(1) /\ Kept(2) /\ Kept(3) /\ Kept(4) /\ Kept(5) /\ Kept(6) /\ Kept(7)
  BY <1>2, <1>3, <1>4 DEF b0, b1, b2, b3, b4, b5, b6, b7
<1> HIDE DEF Kept
<1>6. i = 0 \/ i = 1 \/ i = 2 \/ i = 3 \/ i = 4 \/ i = 5 \/ i = 6 \/ i = 7  BY SMT
<1>7. Kept(i)  BY <1>5, <1>6
<1> QED  BY <1>7 DEF Kept, Stays

\* Read-modify-write instructions. RMB and SMB have the number of the bit in their opcode.
LEMMA ModifiedByte ==
  ASSUME NEW mn \in Modifying, NEW opcode, NamesBit(mn, opcode), NEW r \in Registers,
         NEW v \in Bytes
  PROVE  ModifiedValue(mn, opcode, r, v) \in Bytes
<1> DEFINE w == ModifiedValue(mn, opcode, r, v)
<1>1. r.A \in Bytes  BY Fields
<1>2. /\ AslResult(v) \in Bytes /\ LsrResult(v) \in Bytes
      /\ RolResult(r.P, v) \in Bytes /\ RorResult(r.P, v) \in Bytes
  BY ShiftBytes
<1>3. Byte(v + 1) \in Bytes /\ Byte(v - 1) \in Bytes
  <2>1. v + 1 \in Int /\ v - 1 \in Int  BY SMT DEF Bytes
  <2> QED  BY <2>1, Truncates
<1>4. And(v, Complement(r.A)) \in Bytes /\ Or(v, r.A) \in Bytes
  <2>1. Complement(r.A) \in Bytes  BY <1>1, ComplementByte
  <2> QED  BY <1>1, <2>1, LogicBytes
<1>5. CASE mn \in {"ASL", "SLO", "LSR", "SRE", "ROL", "RLA", "ROR", "RRA"}
  <2>1. w \in {AslResult(v), LsrResult(v), RolResult(r.P, v), RorResult(r.P, v)}
    BY <1>5 DEF ModifiedValue
  <2> HIDE DEF w
  <2>2. w \in Bytes  BY <1>2, <2>1
  <2> QED  BY <2>2 DEF w
<1>6. CASE mn \in {"INC", "ISC", "DEC", "DCP", "TRB", "TSB"}
  <2>1. w \in {Byte(v + 1), Byte(v - 1), And(v, Complement(r.A)), Or(v, r.A)}
    BY <1>6 DEF ModifiedValue
  <2> HIDE DEF w
  <2>2. w \in Bytes  BY <1>3, <1>4, <2>1
  <2> QED  BY <2>2 DEF w
<1>7. CASE mn = "RMB"
  <2> DEFINE i == opcode \div 16
  <2>1. i \in 0..7
    <3>1. opcode \in 0..127  BY <1>7 DEF NamesBit
    <3> QED  BY <3>1, SMT
  <2>2. w = v - Bit(v, i) * 2^i  BY <1>7 DEF ModifiedValue
  <2> HIDE DEF i, w
  <2>3. w \in Bytes  BY <2>1, <2>2, OneBit
  <2> QED  BY <2>3 DEF w
<1>8. CASE mn = "SMB"
  <2> DEFINE i == (opcode \div 16) - 8
  <2>1. i \in 0..7
    <3>1. opcode \in 128..255  BY <1>8 DEF NamesBit
    <3> QED  BY <3>1, SMT
  <2>2. w = v + (1 - Bit(v, i)) * 2^i  BY <1>8 DEF ModifiedValue
  <2> HIDE DEF i, w
  <2>3. w \in Bytes  BY <2>1, <2>2, OneBit
  <2> QED  BY <2>3 DEF w
<1> HIDE DEF w
<1> QED  BY <1>5, <1>6, <1>7, <1>8 DEF Modifying, w

LEMMA LeavesModified ==
  ASSUME NEW mn \in Modifying, NEW model, NEW r \in Registers, NEW v, NEW new \in Bytes
  PROVE  Leaves(r, ModifiedRegisters(mn, model, r, v, new))
<1> DEFINE q == ModifiedRegisters(mn, model, r, v, new)
           left == LeftFlags(r, v, new)
           right == RightFlags(r, v, new)
<1>1. Leaves(r, left) /\ left \in Registers /\ Leaves(r, right) /\ right \in Registers
  BY LeavesShift DEF Leaves
<1>2. Leaves(r, r)  BY LeavesItself
<1>3. Leaves(r, update_flags_nz(r, new))  BY LeavesNZ
<1>4. r.A \in Bytes  BY Fields
<1>5. Or(r.A, new) \in Bytes /\ And(r.A, new) \in Bytes /\ Xor(r.A, new) \in Bytes
  BY <1>4, LogicBytes
<1> HIDE DEF left, right
<1>6. /\ Leaves(left, Load(left, {"A"}, Or(r.A, new)))
      /\ Leaves(left, Load(left, {"A"}, And(r.A, new)))
      /\ Leaves(right, Load(right, {"A"}, Xor(r.A, new)))
  BY <1>1, <1>5, LeavesLoad
<1>7. /\ Leaves(r, Load(left, {"A"}, Or(r.A, new)))
      /\ Leaves(r, Load(left, {"A"}, And(r.A, new)))
      /\ Leaves(r, Load(right, {"A"}, Xor(r.A, new)))
  BY <1>1, <1>6, LeavesOn
<1>8. Leaves(r, Adc(model, right, new))
  <2>1. Leaves(right, Adc(model, right, new))  BY <1>1, LeavesArithmetic
  <2> QED  BY <1>1, <2>1, LeavesOn
<1>9. Leaves(r, Sbc(model, r, new))  BY LeavesArithmetic
<1>10. Leaves(r, compare_register_with_value(r, r.A, new))  BY LeavesCompare
<1>11. Leaves(r, cmos_bit_imm(r, v))
  <2> DEFINE old == {"Z"}
             set == If("Z", And(r.A, v) = 0)
             e == [r EXCEPT !.P = (@ \ old) \cup set]
  <2>1. cmos_bit_imm(r, v) = e  BY DEF cmos_bit_imm
  <2>2. old \in SUBSET Sums /\ set \in SUBSET Sums  BY DEF Sums, If
  <2> HIDE DEF old, set
  <2> QED  BY <2>1, <2>2, LeavesFlags
<1>12. CASE mn \in {"ASL", "ROL", "LSR", "ROR", "INC", "DEC", "RMB", "SMB"}
  <2>1. q \in {left, right, update_flags_nz(r, new), r}
    BY <1>12 DEF ModifiedRegisters, left, right
  <2> HIDE DEF q
  <2> QED  BY <1>1, <1>2, <1>3, <2>1 DEF q
<1>13. CASE mn \in {"SLO", "RLA", "SRE"}
  <2>1. q \in { Load(left, {"A"}, Or(r.A, new)), Load(left, {"A"}, And(r.A, new)),
                Load(right, {"A"}, Xor(r.A, new)) }
    BY <1>13 DEF ModifiedRegisters, left, right
  <2> HIDE DEF q
  <2> QED  BY <1>7, <2>1 DEF q
<1>14. CASE mn \in {"RRA", "ISC", "DCP", "TRB", "TSB"}
  <2>1. q \in { Adc(model, right, new), Sbc(model, r, new),
                compare_register_with_value(r, r.A, new), cmos_bit_imm(r, v) }
    BY <1>14 DEF ModifiedRegisters, right
  <2> HIDE DEF q
  <2> QED  BY <1>8, <1>9, <1>10, <1>11, <2>1 DEF q
<1> QED  BY <1>12, <1>13, <1>14 DEF Modifying

\* What is stored, pushed and pulled.
LEMMA StoredByte ==
  ASSUME NEW r \in Registers, NEW mask \in Bytes
  PROVE  /\ \A mn \in Storing : StoredValue(mn, r) \in Bytes
         /\ \A mn \in StoringUnstably : UnstableValue(mn, r, mask) \in Bytes
         /\ \A mn \in Pushing : PushedValue(mn, r) \in Bytes
<1>1. r.A \in Bytes /\ r.X \in Bytes /\ r.Y \in Bytes  BY Fields
<1>2. And(r.A, r.X) \in Bytes  BY <1>1, LogicBytes
<1>3. And(And(r.A, r.X), mask) \in Bytes /\ And(r.X, mask) \in Bytes /\ And(r.Y, mask) \in Bytes
  BY <1>1, <1>2, LogicBytes
<1>4. 0 \in Bytes  BY SMT DEF Bytes
<1>5. stack_status(r.P, {"B"}) \in Bytes
  <2>1. r.P \in SUBSET Flag /\ {"B"} \in SUBSET {"B"}  BY Fields
  <2> QED  BY <2>1, StatusSurvivesStack DEF Bytes
<1>6. ASSUME NEW mn \in Storing PROVE StoredValue(mn, r) \in Bytes
  BY <1>1, <1>2, <1>4 DEF Storing, StoredValue
<1>7. ASSUME NEW mn \in StoringUnstably PROVE UnstableValue(mn, r, mask) \in Bytes
  BY <1>3 DEF StoringUnstably, UnstableValue
<1>8. ASSUME NEW mn \in Pushing PROVE PushedValue(mn, r) \in Bytes
  BY <1>1, <1>5 DEF Pushing, PushedValue
<1> QED  BY <1>6, <1>7, <1>8

LEMMA PushedStatus ==
  ASSUME NEW r \in Registers, NEW break \in SUBSET {"B"} PROVE stack_status(r.P, break) \in Bytes
<1>1. r.P \in SUBSET Flag  BY Fields
<1> QED  BY <1>1, StatusSurvivesStack DEF Bytes

LEMMA Pulled == ASSUME NEW b \in Bytes PROVE PulledFlags(b) \in SUBSET Flag
<1>1. Flags(b) \in SUBSET Flag  BY DEF Flags, FlagsOf, Weight, Flag, Bytes
<1> QED  BY <1>1 DEF PulledFlags, Flag
-----------------------------------------------------------------------------
\* What the handlers ask of the bus. A step keeps to the widths, leaves the modes as they are in m,
\* is of its kind and skips as many entries as its handler may.
Takes(m, d, status, skips) ==
  /\ Leaves(m, d.regs)
  /\ d.address \in Words /\ d.data \in Bytes /\ d.reset \in BOOLEAN
  /\ d.status = status /\ d.skip \in skips

LEMMA BytesAreWords == ASSUME NEW b \in Bytes PROVE b \in Words
<1>1. b \in Int /\ 0 <= b /\ b <= 65535  BY SMT DEF Bytes
<1> QED  BY <1>1, InWords

LEMMA CycleTakes ==
  ASSUME NEW m, NEW q, Leaves(m, q), NEW a \in Words, NEW status, NEW b \in Bytes
  PROVE  Takes(m, BusCycle(q, a, status, b), status, {0})
  BY DEF Takes, BusCycle

LEMMA ReadTakes ==
  ASSUME NEW m, NEW q, Leaves(m, q), NEW a \in Words
  PROVE  Takes(m, ReadAt(q, a), "read", {0})
<1>1. 0 \in Bytes  BY SMT DEF Bytes
<1> QED  BY <1>1, CycleTakes DEF ReadAt

LEMMA WriteTakes ==
  ASSUME NEW m, NEW q, Leaves(m, q), NEW a \in Words, NEW b \in Bytes
  PROVE  Takes(m, WriteAt(q, a, b), "write", {0})
  BY CycleTakes DEF WriteAt

LEMMA FetchTakes ==
  ASSUME NEW m, NEW q, Leaves(m, q) PROVE Takes(m, FetchNext(q), "fetch", {0})
<1>1. 0 \in Bytes  BY SMT DEF Bytes
<1>2. q.PC \in Words  BY Fields DEF Leaves
<1> QED  BY <1>1, <1>2, CycleTakes DEF FetchNext

\* Skipped entries, and cycles of the reset sequence.
LEMMA SkipTakes ==
  ASSUME NEW m, NEW q, Leaves(m, q), NEW a \in Words, NEW n, NEW skips, n \in skips, 0 \in skips
  PROVE  /\ Takes(m, Skipping(n, ReadAt(q, a)), "read", skips)
         /\ Takes(m, ReadAt(q, a), "read", skips)
<1>1. Takes(m, ReadAt(q, a), "read", {0})  BY ReadTakes
<1>2. Skipping(n, ReadAt(q, a)) = [ReadAt(q, a) EXCEPT !.skip = n]  BY DEF Skipping
<1>3. /\ Skipping(n, ReadAt(q, a)).regs = ReadAt(q, a).regs
      /\ Skipping(n, ReadAt(q, a)).address = ReadAt(q, a).address
      /\ Skipping(n, ReadAt(q, a)).data = ReadAt(q, a).data
      /\ Skipping(n, ReadAt(q, a)).reset = ReadAt(q, a).reset
      /\ Skipping(n, ReadAt(q, a)).status = ReadAt(q, a).status
      /\ Skipping(n, ReadAt(q, a)).skip = n
  BY <1>2 DEF ReadAt, BusCycle
<1> QED  BY <1>1, <1>3 DEF Takes

LEMMA ResetTakes ==
  ASSUME NEW m, NEW q, Leaves(m, q), NEW a \in Words
  PROVE  /\ Takes(m, InReset(ReadAt(q, a)), "read", {0})
         /\ Takes(m, InReset(FetchNext(q)), "fetch", {0})
<1>1. 0 \in Bytes /\ q.PC \in Words  BY Fields, SMT DEF Bytes, Leaves
<1>2. InReset(ReadAt(q, a)) = [BusCycle(q, a, "read", 0) EXCEPT !.reset = TRUE]
  BY DEF InReset, ReadAt
<1>3. InReset(FetchNext(q)) = [BusCycle(q, q.PC, "fetch", 0) EXCEPT !.reset = TRUE]
  BY DEF InReset, FetchNext
<1>4. ASSUME NEW w \in Words, NEW status
      PROVE  Takes(m, [BusCycle(q, w, status, 0) EXCEPT !.reset = TRUE], status, {0})
  BY <1>1 DEF Takes, BusCycle
<1> QED  BY <1>1, <1>2, <1>3, <1>4

\* Addresses.
LEMMA Addresses ==
  ASSUME NEW b \in Bytes
  PROVE  /\ StackAt(b) \in Words /\ Byte(b + 1) \in Bytes /\ Byte(b - 1) \in Bytes
         /\ \A w \in Words : /\ Word(w + 1) \in Words /\ Word(w - 1) \in Words
                             /\ Word(w - 2) \in Words /\ Word(w + Signed(b)) \in Words
                             /\ Word(w + b) \in Words
                             /\ Byte(w + 1) \in Bytes /\ ZeroPageAfter(w) \in Words
<1>1. StackAt(b) \in Words
  <2>1. 256 + b \in Int /\ 0 <= 256 + b /\ 256 + b <= 65535  BY SMT DEF Bytes
  <2> QED  BY <2>1, InWords DEF StackAt
<1>2. b + 1 \in Int /\ b - 1 \in Int /\ Signed(b) \in Int /\ b \in Int
  BY SMT DEF Signed, Bytes
<1>3. ASSUME NEW w \in Words
      PROVE  /\ w + 1 \in Int /\ w - 1 \in Int /\ w - 2 \in Int /\ w + Signed(b) \in Int
             /\ w + b \in Int
  <2>1. w \in Int  BY WordsAreNumbers
  <2> QED  BY <1>2, <2>1, SMT
<1>4. ASSUME NEW w \in Words PROVE ZeroPageAfter(w) \in Words
  <2>1. Byte(w + 1) \in Bytes  BY <1>3, Truncates
  <2> QED  BY <2>1, BytesAreWords DEF ZeroPageAfter
<1> QED  BY <1>1, <1>2, <1>3, <1>4, Truncates

\* The stack, PC and the address latch.
LEMMA StackTakes ==
  ASSUME NEW m, NEW q, Leaves(m, q)
  PROVE  /\ Takes(m, stack_read(q), "read", {0})
         /\ \A b \in Bytes : Takes(m, stack_write(q, b), "write", {0})
<1>1. q \in Registers /\ q.S \in Bytes  BY Fields DEF Leaves
<1> DEFINE s == Byte(q.S + 1)
           t == Byte(q.S - 1)
<1>2. s \in Bytes /\ t \in Bytes /\ StackAt(q.S) \in Words /\ StackAt(s) \in Words
  BY <1>1, Addresses
<1>3. /\ stack_read(q) = ReadAt([q EXCEPT !.S = s], StackAt(s))
      /\ \A b : stack_write(q, b) = WriteAt([q EXCEPT !.S = t], StackAt(q.S), b)
  BY DEF stack_read, stack_write
<1> HIDE DEF s, t
<1>4. Leaves(q, [q EXCEPT !.S = s]) /\ Leaves(q, [q EXCEPT !.S = t])  BY <1>1, <1>2, LeavesByte
<1>5. Leaves(m, [q EXCEPT !.S = s]) /\ Leaves(m, [q EXCEPT !.S = t])  BY <1>4, LeavesOn
<1> QED  BY <1>2, <1>3, <1>5, ReadTakes, WriteTakes

LEMMA PcTakes ==
  ASSUME NEW m, NEW q, Leaves(m, q)
  PROVE  /\ Takes(m, read_pc(q), "read", {0}) /\ Takes(m, read_pc_inc(q), "read", {0})
         /\ Takes(m, read_latch_addr(q), "read", {0})
<1>1. q \in Registers /\ q.PC \in Words /\ q.addr \in Words  BY Fields DEF Leaves
<1> DEFINE n == Word(q.PC + 1)
<1>2. n \in Words
  <2>1. 0 \in Bytes  BY SMT DEF Bytes
  <2> QED  BY <1>1, <2>1, Addresses
<1>3. read_pc_inc(q) = ReadAt([q EXCEPT !.PC = n], q.PC)  BY DEF read_pc_inc
<1> HIDE DEF n
<1>4. Leaves(q, [q EXCEPT !.PC = n])  BY <1>1, <1>2, LeavesWord
<1>5. Leaves(m, [q EXCEPT !.PC = n])  BY <1>4, LeavesOn
<1> QED  BY <1>1, <1>3, <1>5, ReadTakes DEF read_pc, read_latch_addr

LEMMA LatchLeaves ==
  ASSUME NEW m, NEW q, Leaves(m, q), NEW b \in Bytes
  PROVE  /\ Leaves(m, set_latch_addr0(q, b)) /\ Leaves(m, set_latch_addr1(q, b))
         /\ Leaves(m, set_pc_low(q, b)) /\ Leaves(m, set_pc_high(q, b))
<1>1. q \in Registers /\ q.PC \in Words /\ q.addr \in Words  BY Fields DEF Leaves
<1>2. /\ WithLow(q.PC, b) \in Words /\ WithHigh(q.PC, b) \in Words
      /\ WithLow(q.addr, b) \in Words /\ WithHigh(q.addr, b) \in Words
  BY <1>1, WordParts
<1>3. /\ Leaves(q, [q EXCEPT !.addr = WithLow(q.addr, b)])
      /\ Leaves(q, [q EXCEPT !.addr = WithHigh(q.addr, b)])
      /\ Leaves(q, [q EXCEPT !.PC = WithLow(q.PC, b)])
      /\ Leaves(q, [q EXCEPT !.PC = WithHigh(q.PC, b)])
  BY <1>1, <1>2, LeavesWord
<1>4. /\ Leaves(m, [q EXCEPT !.addr = WithLow(q.addr, b)])
      /\ Leaves(m, [q EXCEPT !.addr = WithHigh(q.addr, b)])
      /\ Leaves(m, [q EXCEPT !.PC = WithLow(q.PC, b)])
      /\ Leaves(m, [q EXCEPT !.PC = WithHigh(q.PC, b)])
  BY <1>3, LeavesOn
<1> QED  BY <1>4 DEF set_latch_addr0, set_latch_addr1, set_pc_low, set_pc_high

LEMMA SetLeaves ==
  ASSUME NEW m, NEW q, Leaves(m, q), NEW w \in Words, NEW b \in Bytes
  PROVE  /\ Leaves(m, [q EXCEPT !.addr = w]) /\ Leaves(m, [q EXCEPT !.PC = w])
         /\ Leaves(m, [q EXCEPT !.data = b])
<1>1. q \in Registers  BY DEF Leaves
<1> QED  BY <1>1, LeavesWord, LeavesByte, LeavesOn
-----------------------------------------------------------------------------
\* The handlers, table by table, those that only read first.
ControlReads ==
  { "read_pc", "read_pc_prefetch", "read_pc_inc", "read_pc_inc_prefetch", "bra_c0_prefetch",
    "read_pc_inc_prefetch_decimal_clear", "read_pc_minus_one_prefetch", "read_stack_current_s",
    "stack_pull_read", "stack_pull_read_prefetch", "read_fffe", "irq_c4_vec_lo",
    "nmi_c4_vec_lo", "kil_jam_read_ffff" }

LEMMA VectorAddresses ==
  /\ NmiLow \in Words /\ NmiHigh \in Words /\ ResetLow \in Words /\ ResetHigh \in Words
  /\ IrqLow \in Words /\ IrqHigh \in Words /\ LastAddress \in Words
<1>1. NmiLow \in Words /\ NmiHigh \in Words  BY InWords, SMT DEF NmiLow, NmiHigh
<1>2. ResetLow \in Words /\ ResetHigh \in Words  BY InWords, SMT DEF ResetLow, ResetHigh
<1>3. IrqLow \in Words /\ IrqHigh \in Words  BY InWords, SMT DEF IrqLow, IrqHigh
<1>4. LastAddress \in Words  BY InWords, SMT DEF LastAddress
<1> QED  BY <1>1, <1>2, <1>3, <1>4

LEMMA ControlReadTakes ==
  ASSUME NEW h \in ControlReads, NEW r \in Registers, NEW bus \in Bytes
  PROVE  Takes(r, Control(h, r, bus), "read", {0})
<1> DEFINE d == Control(h, r, bus)
<1>1. Leaves(r, r) /\ r.PC \in Words /\ r.S \in Bytes  BY LeavesItself, Fields
<1>2. CASE h \in {"read_pc", "read_pc_prefetch"}
  <2>1. d = read_pc(r)  BY <1>2 DEF Control
  <2> QED  BY <1>1, <2>1, PcTakes
<1>3. CASE h \in { "read_pc_inc", "read_pc_inc_prefetch", "bra_c0_prefetch",
                   "read_pc_inc_prefetch_decimal_clear" }
  <2>1. d = read_pc_inc(r)  BY <1>3 DEF Control
  <2> QED  BY <1>1, <2>1, PcTakes
<1>4. CASE h = "read_pc_minus_one_prefetch"
  <2>1. d = ReadAt(r, Word(r.PC - 1))  BY <1>4 DEF Control
  <2>2. Word(r.PC - 1) \in Words  BY <1>1, Addresses
  <2> QED  BY <1>1, <2>1, <2>2, ReadTakes
<1>5. CASE h = "read_stack_current_s"
  <2>1. d = ReadAt(r, StackAt(r.S))  BY <1>5 DEF Control
  <2>2. StackAt(r.S) \in Words  BY <1>1, Addresses
  <2> QED  BY <1>1, <2>1, <2>2, ReadTakes
<1>6. CASE h \in {"stack_pull_read", "stack_pull_read_prefetch"}
  <2>1. d = stack_read(r)  BY <1>6 DEF Control
  <2> QED  BY <1>1, <2>1, StackTakes
<1>7. CASE h \in {"read_fffe", "irq_c4_vec_lo"}
  <2>1. d = ReadAt(r, IrqLow)  BY <1>7 DEF Control
  <2> QED  BY <1>1, <2>1, VectorAddresses, ReadTakes
<1>8. CASE h = "nmi_c4_vec_lo"
  <2>1. d = ReadAt(r, NmiLow)  BY <1>8 DEF Control
  <2> QED  BY <1>1, <2>1, VectorAddresses, ReadTakes
<1>9. CASE h = "kil_jam_read_ffff"
  <2>1. d = ReadAt(r, LastAddress)  BY <1>9 DEF Control
  <2> QED  BY <1>1, <2>1, VectorAddresses, ReadTakes
<1> QED  BY <1>2, <1>3, <1>4, <1>5, <1>6, <1>7, <1>8, <1>9 DEF ControlReads

\* Reset, and the address arithmetic of jumps, calls and returns.
ResetReads ==
  { "internal_reset", "restart_read_hhff", "restart_read_zzhh", "reset_stack_read",
    "reset_vec_lo" }

LEMMA ResetPC ==
  ASSUME NEW q \in Registers, NEW bus \in Bytes PROVE calculate_reset_pc(q.PC, bus) \in Words
<1>1. High(q.PC) \in Bytes  BY Fields, WordParts
<1>2. Byte(High(q.PC) - 1) \in Bytes  BY <1>1, Addresses
<1> QED  BY <1>2, AddressWord DEF calculate_reset_pc

LEMMA ResetReadTakes ==
  ASSUME NEW h \in ResetReads, NEW r \in Registers, NEW bus \in Bytes
  PROVE  Takes(r, Control(h, r, bus), "read", {0})
<1> DEFINE d == Control(h, r, bus)
           pc == calculate_reset_pc(r.PC, bus)
<1>1. /\ Leaves(r, r) /\ r.PC \in Words /\ r.S \in Bytes /\ r.data \in Bytes
      /\ pc \in Words
  BY LeavesItself, Fields, ResetPC
<1> DEFINE q == [r EXCEPT !.PC = pc]
<1>2. CASE h = "internal_reset"
  <2> DEFINE n == Byte(r.data + 1)
             e == [r EXCEPT !.data = n]
             c == [e EXCEPT !.PC = pc]
  <2>1. n \in Bytes  BY <1>1, Addresses
  <2>2. e \in Registers /\ Leaves(r, e)  BY <1>1, <2>1, LeavesByte DEF Leaves
  <2>3. [r EXCEPT !.data = n, !.PC = calculate_reset_pc(@, bus)] = c  BY DEF Registers
  <2>4. d = internal_reset_cycle(r, bus)  BY <1>2 DEF Control
  <2>5. d = read_pc(c) \/ d = InReset(read_pc(c))
    BY <2>3, <2>4 DEF internal_reset_cycle
  <2> HIDE DEF n, e
  <2>6. Leaves(e, c)  BY <1>1, <2>2, LeavesWord
  <2> HIDE DEF c, d
  <2>7. Leaves(r, c)  BY <2>2, <2>6, LeavesOn
  <2>8. c.PC \in Words  BY <2>7, Fields DEF Leaves
  <2>9. Takes(r, d, "read", {0})  BY <2>5, <2>7, <2>8, ReadTakes, ResetTakes DEF read_pc
  <2> QED  BY <2>9 DEF d
<1>3. CASE h = "restart_read_hhff"
  <2>1. d = restart_read_hhff(r, bus)  BY <1>3 DEF Control
  <2>2. d = InReset(ReadAt(q, q.PC))  BY <2>1 DEF restart_read_hhff, read_pc
  <2>3. Leaves(r, q)  BY <1>1, SetLeaves
  <2> HIDE DEF q
  <2>4. q.PC \in Words  BY <2>3, Fields DEF Leaves
  <2> QED  BY <2>2, <2>3, <2>4, ResetTakes
<1>4. CASE h = "restart_read_zzhh"
  <2>1. d = InReset(ReadAt(r, r.PC))  BY <1>4 DEF Control, read_pc
  <2> QED  BY <1>1, <2>1, ResetTakes
<1>5. CASE h = "reset_stack_read"
  <2> DEFINE s == Byte(r.S - 1)
             e == [r EXCEPT !.S = s]
  <2>1. d = InReset(ReadAt(e, StackAt(r.S)))  BY <1>5 DEF Control, reset_stack_read
  <2>2. s \in Bytes /\ StackAt(r.S) \in Words  BY <1>1, Addresses
  <2> HIDE DEF s
  <2>3. Leaves(r, e)  BY <2>2, LeavesByte
  <2> QED  BY <2>1, <2>2, <2>3, ResetTakes
<1>6. CASE h = "reset_vec_lo"
  <2>1. d = InReset(ReadAt(r, ResetLow))  BY <1>6 DEF Control
  <2> QED  BY <1>1, <2>1, VectorAddresses, ResetTakes
<1> QED  BY <1>2, <1>3, <1>4, <1>5, <1>6 DEF ResetReads

JumpReads ==
  { "branch_pgfix_prefetch", "jmp_ind_c2_target_lo", "cmos_jmp_ind_c4_target_hi_retry_prefetch",
    "cmos_jmp_ind_x_c2_dummy", "cmos_jmp_ind_x_c3_target_lo", "jsr_abs_c1_dummy",
    "latch_pcl_stack_read", "latch_pcl_stack_read_prefetch", "rts_c4_inc_pc_dummy_prefetch" }

LEMMA JumpReadTakes ==
  ASSUME NEW h \in JumpReads, NEW r \in Registers, NEW bus \in Bytes
  PROVE  Takes(r, Control(h, r, bus), "read", {0})
<1> DEFINE d == Control(h, r, bus)
<1>1. /\ Leaves(r, r) /\ r.PC \in Words /\ r.addr \in Words /\ r.S \in Bytes /\ r.X \in Bytes
  BY LeavesItself, Fields
<1>2. CASE h = "branch_pgfix_prefetch"
  <2>1. d = ReadAt([r EXCEPT !.PC = r.addr], r.PC)  BY <1>2 DEF Control, branch_pgfix
  <2>2. Leaves(r, [r EXCEPT !.PC = r.addr])  BY <1>1, SetLeaves
  <2> QED  BY <1>1, <2>1, <2>2, ReadTakes
<1>3. CASE h = "jmp_ind_c2_target_lo"
  <2> DEFINE q == set_latch_addr1(r, bus)
             b == Byte(q.addr + 1)
  <2>1. d = ReadAt(set_latch_addr0(q, b), q.addr)
    BY <1>3 DEF Control, jmp_ind_c2_target_lo
  <2>2. Leaves(r, q)  BY <1>1, LatchLeaves
  <2> HIDE DEF q
  <2>3. q.addr \in Words  BY <2>2, Fields DEF Leaves
  <2>4. b \in Bytes  BY <2>3, Addresses
  <2> HIDE DEF b
  <2>5. Leaves(r, set_latch_addr0(q, b))  BY <2>2, <2>4, LatchLeaves
  <2> QED  BY <2>1, <2>3, <2>5, ReadTakes
<1>4. CASE h = "cmos_jmp_ind_c4_target_hi_retry_prefetch"
  <2> DEFINE b == Byte(High(r.addr) + 1)
             q == IF Low(r.addr) = 0 THEN set_latch_addr1(r, b) ELSE r
  <2>1. d = read_latch_addr(q)  BY <1>4 DEF Control, cmos_jmp_ind_c4_target_hi_retry
  <2>2. b \in Bytes
    <3>1. High(r.addr) \in Bytes  BY <1>1, WordParts
    <3> QED  BY <3>1, Addresses
  <2> HIDE DEF b
  <2>3. Leaves(r, q)  BY <1>1, <2>2, LatchLeaves
  <2> HIDE DEF q
  <2> QED  BY <2>1, <2>3, PcTakes
<1>5. CASE h = "cmos_jmp_ind_x_c2_dummy"
  <2>1. d = ReadAt(set_latch_addr1(r, bus), Word(r.PC - 2))
    BY <1>5 DEF Control, cmos_jmp_ind_x_c2_dummy
  <2>2. Word(r.PC - 2) \in Words  BY <1>1, Addresses
  <2>3. Leaves(r, set_latch_addr1(r, bus))  BY <1>1, LatchLeaves
  <2> QED  BY <2>1, <2>2, <2>3, ReadTakes
<1>6. CASE h = "cmos_jmp_ind_x_c3_target_lo"
  <2> DEFINE p == Word(r.addr + r.X)
             n == Word(p + 1)
  <2>1. d = ReadAt([r EXCEPT !.addr = n], p)  BY <1>6 DEF Control, cmos_jmp_ind_x_c3_target_lo
  <2>2. p \in Words  BY <1>1, Addresses
  <2> HIDE DEF p
  <2>3. n \in Words  BY <1>1, <2>2, Addresses
  <2> HIDE DEF n
  <2>4. Leaves(r, [r EXCEPT !.addr = n])  BY <1>1, <2>3, SetLeaves
  <2> QED  BY <2>1, <2>2, <2>4, ReadTakes
<1>7. CASE h = "jsr_abs_c1_dummy"
  <2>1. d = ReadAt(set_latch_addr0(r, bus), StackAt(r.S))
    BY <1>7 DEF Control, jsr_abs_c1_dummy
  <2>2. StackAt(r.S) \in Words  BY <1>1, Addresses
  <2>3. Leaves(r, set_latch_addr0(r, bus))  BY <1>1, LatchLeaves
  <2> QED  BY <2>1, <2>2, <2>3, ReadTakes
<1>8. CASE h \in {"latch_pcl_stack_read", "latch_pcl_stack_read_prefetch"}
  <2>1. d = stack_read(set_pc_low(r, bus))  BY <1>8 DEF Control, latch_pcl_stack_read
  <2>2. Leaves(r, set_pc_low(r, bus))  BY <1>1, LatchLeaves
  <2> QED  BY <2>1, <2>2, StackTakes
<1>9. CASE h = "rts_c4_inc_pc_dummy_prefetch"
  <2>1. d = read_pc_inc(set_pc_high(r, bus))  BY <1>9 DEF Control, rts_c4_inc_pc_dummy
  <2>2. Leaves(r, set_pc_high(r, bus))  BY <1>1, LatchLeaves
  <2> QED  BY <2>1, <2>2, PcTakes
<1> QED  BY <1>2, <1>3, <1>4, <1>5, <1>6, <1>7, <1>8, <1>9 DEF JumpReads
\* Handlers of the control table that fetch, write or skip.
ControlFetches ==
  { "fetch", "fetch_illegal_ext_dispatch", "restart_read_zzhh_fetch", "latch_pch_fetch",
    "latch_addr1_set_pc_fetch", "jmp_ind_c4_fetch" }

LEMMA ControlFetchTakes ==
  ASSUME NEW h \in ControlFetches, NEW r \in Registers, NEW bus \in Bytes
  PROVE  Takes(r, Control(h, r, bus), "fetch", {0})
<1> DEFINE d == Control(h, r, bus)
<1>1. Leaves(r, r) /\ r.data \in Bytes  BY LeavesItself, Fields
<1>2. CASE h \in {"fetch", "fetch_illegal_ext_dispatch"}
  <2>1. d = FetchNext(r)  BY <1>2 DEF Control
  <2> QED  BY <1>1, <2>1, FetchTakes
<1>3. CASE h = "restart_read_zzhh_fetch"
  <2> DEFINE q == [r EXCEPT !.PC = calculate_reset_pc(r.PC, bus)]
  <2>1. d = InReset(FetchNext(q))  BY <1>3 DEF Control, restart_read_zzhh_fetch
  <2>2. calculate_reset_pc(r.PC, bus) \in Words  BY ResetPC
  <2>3. Leaves(r, q)  BY <1>1, <2>2, SetLeaves
  <2> HIDE DEF q
  <2>4. q.PC \in Words  BY <2>3, Fields DEF Leaves
  <2> QED  BY <2>1, <2>3, <2>4, ResetTakes
<1>4. CASE h = "latch_pch_fetch"
  <2>1. d = FetchNext(set_pc_high(r, bus))  BY <1>4 DEF Control, latch_pch_fetch
  <2>2. Leaves(r, set_pc_high(r, bus))  BY <1>1, LatchLeaves
  <2> QED  BY <2>1, <2>2, FetchTakes
<1>5. CASE h = "latch_addr1_set_pc_fetch"
  <2> DEFINE q == set_latch_addr1(r, bus)
  <2>1. d = FetchNext([q EXCEPT !.PC = q.addr])  BY <1>5 DEF Control, latch_addr1_set_pc_fetch
  <2>2. Leaves(r, q)  BY <1>1, LatchLeaves
  <2> HIDE DEF q
  <2>3. q.addr \in Words  BY <2>2, Fields DEF Leaves
  <2>4. Leaves(r, [q EXCEPT !.PC = q.addr])  BY <2>2, <2>3, SetLeaves
  <2> QED  BY <2>1, <2>4, FetchTakes
<1>6. CASE h = "jmp_ind_c4_fetch"
  <2> DEFINE w == Address(bus, r.data)
  <2>1. d = FetchNext([r EXCEPT !.PC = w])  BY <1>6 DEF Control, jmp_ind_c4_fetch
  <2>2. w \in Words  BY <1>1, AddressWord
  <2> HIDE DEF w
  <2>3. Leaves(r, [r EXCEPT !.PC = w])  BY <1>1, <2>2, SetLeaves
  <2> QED  BY <2>1, <2>3, FetchTakes
<1> QED  BY <1>2, <1>3, <1>4, <1>5, <1>6 DEF ControlFetches

ControlWrites ==
  { "stack_push_pc_high", "stack_push_pc_low", "stack_push_status_b",
    "cmos_stack_push_status_b", "nmi_c3_push_p", "irq_c3_push_p", "cmos_nmi_c3_push_p",
    "cmos_irq_c3_push_p" }

LEMMA ControlWriteTakes ==
  ASSUME NEW h \in ControlWrites, NEW r \in Registers, NEW bus \in Bytes
  PROVE  Takes(r, Control(h, r, bus), "write", {0})
<1> DEFINE d == Control(h, r, bus)
<1>1. Leaves(r, r)  BY LeavesItself
<1>2. High(r.PC) \in Bytes /\ Low(r.PC) \in Bytes  BY Fields, WordParts
<1>3. stack_status(r.P, {"B"}) \in Bytes /\ stack_status(r.P, {}) \in Bytes
  <2>1. {"B"} \in SUBSET {"B"} /\ {} \in SUBSET {"B"}  OBVIOUS
  <2> QED  BY <2>1, PushedStatus
<1>4. \E b \in {High(r.PC), Low(r.PC), stack_status(r.P, {"B"}), stack_status(r.P, {})} :
        d = stack_write(r, b)
  BY DEF Control, ControlWrites
<1> HIDE DEF d
<1>5. PICK b \in Bytes : d = stack_write(r, b)  BY <1>2, <1>3, <1>4
<1>6. Takes(r, d, "write", {0})  BY <1>1, <1>5, StackTakes
<1> QED  BY <1>6 DEF d

\* The address latch corrected after the fact.
LEMMA LatchTakes ==
  ASSUME NEW m, NEW q, Leaves(m, q), NEW a \in Words, NEW w \in Words, NEW n, NEW skips,
         n \in skips, 0 \in skips
  PROVE  /\ Takes(m, [ReadAt(q, a) EXCEPT !.regs.addr = w], "read", skips)
         /\ Takes(m, [Skipping(n, ReadAt(q, a)) EXCEPT !.regs.addr = w], "read", skips)
<1> DEFINE e == [q EXCEPT !.addr = w]
<1>1. Leaves(m, e)
  <2>1. Leaves(q, e)  BY LeavesWord DEF Leaves
  <2> QED  BY <2>1, LeavesOn
<1>2. 0 \in Bytes  BY SMT DEF Bytes
<1>3. ASSUME NEW s, NEW k \in skips, s.regs = q, s.address = a, s.data = 0, s.reset = FALSE,
             s.status = "read", s.skip = k,
             LET t == [s EXCEPT !.regs = e]
             IN  /\ t.regs = e /\ t.address = a /\ t.data = 0 /\ t.reset = FALSE
                 /\ t.status = "read" /\ t.skip = k
      PROVE  Takes(m, [s EXCEPT !.regs.addr = w], "read", skips)
  <2> DEFINE t == [s EXCEPT !.regs = e]
  <2>1. [s EXCEPT !.regs.addr = w] = t  BY <1>3
  <2>2. /\ t.regs = e /\ t.address = a /\ t.data = 0 /\ t.reset = FALSE
        /\ t.status = "read" /\ t.skip = k
    BY <1>3
  <2> HIDE DEF e, t
  <2>3. Takes(m, t, "read", skips)  BY <1>1, <1>2, <2>2 DEF Takes
  <2> QED  BY <2>1, <2>3
<1> HIDE DEF e
<1>4. Takes(m, [ReadAt(q, a) EXCEPT !.regs.addr = w], "read", skips)
  <2> DEFINE s == ReadAt(q, a)
             t == [s EXCEPT !.regs = e]
  <2>1. /\ s.regs = q /\ s.address = a /\ s.data = 0 /\ s.reset = FALSE
        /\ s.status = "read" /\ s.skip = 0
        /\ t.regs = e /\ t.address = a /\ t.data = 0 /\ t.reset = FALSE
        /\ t.status = "read" /\ t.skip = 0
    BY DEF ReadAt, BusCycle
  <2> HIDE DEF s
  <2>2. Takes(m, [s EXCEPT !.regs.addr = w], "read", skips)  BY <1>3, <2>1
  <2> QED  BY <2>2 DEF s
<1>5. Takes(m, [Skipping(n, ReadAt(q, a)) EXCEPT !.regs.addr = w], "read", skips)
  <2> DEFINE s == Skipping(n, ReadAt(q, a))
             t == [s EXCEPT !.regs = e]
  <2>1. /\ s.regs = q /\ s.address = a /\ s.data = 0 /\ s.reset = FALSE
        /\ s.status = "read" /\ s.skip = n
        /\ t.regs = e /\ t.address = a /\ t.data = 0 /\ t.reset = FALSE
        /\ t.status = "read" /\ t.skip = n
    BY DEF Skipping, ReadAt, BusCycle
  <2> HIDE DEF s
  <2>2. Takes(m, [s EXCEPT !.regs.addr = w], "read", skips)  BY <1>3, <2>1
  <2> QED  BY <2>2 DEF s
<1> QED  BY <1>4, <1>5

LEMMA ControlSkipTakes ==
  ASSUME NEW h \in {"branch_rel_c1_apply", "wdc_bbr_bbs_c4_apply"}, NEW r \in Registers,
         NEW bus \in Bytes
  PROVE  Takes(r, Control(h, r, bus), "read", {0, 1})
<1> DEFINE d == Control(h, r, bus)
           target == Word(r.PC + Signed(bus))
<1>1. Leaves(r, r) /\ r.PC \in Words  BY LeavesItself, Fields
<1>2. target \in Words  BY <1>1, Addresses
<1>3. 1 \in {0, 1} /\ 0 \in {0, 1}  OBVIOUS
<1>4. CASE h = "branch_rel_c1_apply"
  <2> DEFINE q == set_pc_low(r, Low(target))
  <2>1. d = branch_rel_c1_apply(r, bus)  BY <1>4 DEF Control
  <2>2. Low(target) \in Bytes  BY <1>2, WordParts, BytesAreWords
  <2>3. \/ d = Skipping(1, ReadAt(q, r.PC))
        \/ d = [ReadAt(q, r.PC) EXCEPT !.regs.addr = target]
    BY <2>1 DEF branch_rel_c1_apply
  <2> HIDE DEF target
  <2>4. Leaves(r, q)  BY <1>1, <2>2, LatchLeaves
  <2> HIDE DEF q, d
  <2>5. Takes(r, Skipping(1, ReadAt(q, r.PC)), "read", {0, 1})
    BY <1>1, <1>3, <2>4, SkipTakes
  <2>6. Takes(r, [ReadAt(q, r.PC) EXCEPT !.regs.addr = target], "read", {0, 1})
    BY <1>1, <1>2, <1>3, <2>4, LatchTakes
  <2>7. Takes(r, d, "read", {0, 1})  BY <2>3, <2>5, <2>6
  <2> QED  BY <2>7 DEF d
<1>5. CASE h = "wdc_bbr_bbs_c4_apply"
  <2>1. d = wdc_bbr_bbs_c4_apply(r, bus)  BY <1>5 DEF Control
  <2>2. \/ d = Skipping(1, ReadAt([r EXCEPT !.PC = target], r.PC))
        \/ d = ReadAt([r EXCEPT !.addr = target], r.PC)
    BY <2>1 DEF wdc_bbr_bbs_c4_apply
  <2> HIDE DEF target, d
  <2>3. Leaves(r, [r EXCEPT !.PC = target]) /\ Leaves(r, [r EXCEPT !.addr = target])
    BY <1>2, LeavesWord
  <2>4. Takes(r, d, "read", {0, 1})
    BY <1>1, <1>3, <2>2, <2>3, SkipTakes
  <2> QED  BY <2>4 DEF d
<1> QED  BY <1>4, <1>5

LEMMA JamTakes ==
  ASSUME NEW r \in Registers, NEW bus PROVE Takes(r, Control("kil_jam_loop", r, bus), "jammed", {0})
<1>1. Control("kil_jam_loop", r, bus) = BusCycle(r, LastAddress, "jammed", 255)  BY DEF Control
<1>2. 255 \in Bytes  BY SMT DEF Bytes
<1>3. Leaves(r, r)  BY LeavesItself
<1> QED  BY <1>1, <1>2, <1>3, VectorAddresses, CycleTakes

-----------------------------------------------------------------------------
\* The modes after a handler that moves them.
Masking      == {"reset_vec_hi", "brk_c5_vec_hi", "nmos_irq_c5_vec_hi", "nmos_nmi_c5_vec_hi"}
CmosVectors  == {"cmos_brk_c5_vec_hi", "cmos_irq_c5_vec_hi", "cmos_nmi_c5_vec_hi"}
FlagHandlers == {"cli_prefetch", "sei_prefetch", "cld_prefetch", "sed_prefetch"}
Pulling      == {"plp_fetch", "rti_c3_pull_pcl"}
Moving       == Masking \cup CmosVectors \cup FlagHandlers \cup Pulling

Moved(h, P, bus) ==
  CASE h \in Masking       -> P \cup {"I"}
    [] h \in CmosVectors   -> (P \cup {"I"}) \ {"D"}
    [] h = "cli_prefetch"  -> P \ {"I"}
    [] h = "sei_prefetch"  -> P \cup {"I"}
    [] h = "cld_prefetch"  -> P \ {"D"}
    [] h = "sed_prefetch"  -> P \cup {"D"}
    [] h \in Pulling       -> PulledFlags(bus)
    [] OTHER               -> P

LEMMA ModesSet ==
  ASSUME NEW r \in Registers, NEW q \in Registers, NEW X \in SUBSET Flag, NEW Y \in SUBSET Flag,
         "I" \in X <=> "I" \in Y, "D" \in X <=> "D" \in Y
  PROVE  Leaves([r EXCEPT !.P = X], [q EXCEPT !.P = Y])
<1>1. /\ [q EXCEPT !.P = Y] \in Registers /\ [q EXCEPT !.P = Y].P = Y
      /\ [r EXCEPT !.P = X].P = X
  BY TypedFlags
<1> QED  BY <1>1 DEF Leaves, SameModes

ModeReads == Masking \cup CmosVectors \cup {"rti_c3_pull_pcl"}

LEMMA ModeReadTakes ==
  ASSUME NEW h \in ModeReads, NEW r \in Registers, NEW bus \in Bytes
  PROVE  Takes([r EXCEPT !.P = Moved(h, r.P, bus)], Control(h, r, bus), "read", {0})
<1> DEFINE d == Control(h, r, bus)
           q == set_pc_low(r, bus)
           X == Moved(h, r.P, bus)
           m == [r EXCEPT !.P = X]
<1>1. q \in Registers /\ q.P = r.P /\ r.P \in SUBSET Flag
  <2>1. Leaves(r, q)  BY LeavesItself, LatchLeaves
  <2>2. q.P = r.P  BY DEF set_pc_low, Registers
  <2> QED  BY <2>1, <2>2, Fields DEF Leaves
<1>2. "I" \in Flag /\ "B" \in Flag  BY DEF Flag
<1>3. CASE h \in Masking \cup CmosVectors
  <2> DEFINE clear == IF h \in CmosVectors THEN {"D"} ELSE {}
             also == IF h = "reset_vec_hi" THEN {"B"} ELSE {}
             Y == (r.P \cup {"I"} \cup also) \ clear
             e == [q EXCEPT !.P = Y]
  <2>1. X = (r.P \cup {"I"}) \ clear
    <3>1. h \in Masking => h \notin CmosVectors  BY DEF Masking, CmosVectors
    <3>2. h \in Masking => X = r.P \cup {"I"}
      BY DEF Moved, Masking, CmosVectors, Pulling
    <3>3. h \in CmosVectors => X = (r.P \cup {"I"}) \ {"D"}
      BY DEF Moved, Masking, CmosVectors, Pulling
    <3> HIDE DEF X
    <3> QED  BY <1>3, <3>1, <3>2, <3>3
  <2>2. /\ h = "reset_vec_hi" => d = InReset(ReadAt(e, ResetHigh))
        /\ h \in {"brk_c5_vec_hi", "nmos_irq_c5_vec_hi", "cmos_brk_c5_vec_hi",
                  "cmos_irq_c5_vec_hi"} => d = ReadAt(e, IrqHigh)
        /\ h \in {"nmos_nmi_c5_vec_hi", "cmos_nmi_c5_vec_hi"} => d = ReadAt(e, NmiHigh)
    <3> HIDE DEF q
    <3>1. CASE h = "reset_vec_hi"
      <4>1. d = InReset(ReadAt([q EXCEPT !.P = q.P \cup {"B", "I"}], ResetHigh))
        BY <3>1 DEF Control, reset_vec_hi, q
      <4>2. q.P \cup {"B", "I"} = Y  BY <1>1, <3>1 DEF CmosVectors
      <4> QED  BY <3>1, <4>1, <4>2
    <3>2. CASE h \in {"brk_c5_vec_hi", "nmos_irq_c5_vec_hi", "nmos_nmi_c5_vec_hi"}
      <4>1. /\ h # "nmos_nmi_c5_vec_hi" => d = ReadAt(vector_low(r, bus, {}), IrqHigh)
            /\ h = "nmos_nmi_c5_vec_hi" => d = ReadAt(vector_low(r, bus, {}), NmiHigh)
        BY <3>2 DEF Control
      <4>2. vector_low(r, bus, {}) = [q EXCEPT !.P = (q.P \cup {"I"}) \ {}]
        BY DEF vector_low, q
      <4>3. (q.P \cup {"I"}) \ {} = Y  BY <1>1, <3>2 DEF CmosVectors
      <4> QED  BY <3>2, <4>1, <4>2, <4>3
    <3>3. CASE h \in CmosVectors
      <4>1. /\ h # "cmos_nmi_c5_vec_hi" => d = ReadAt(vector_low(r, bus, {"D"}), IrqHigh)
            /\ h = "cmos_nmi_c5_vec_hi" => d = ReadAt(vector_low(r, bus, {"D"}), NmiHigh)
        BY <3>3 DEF Control, CmosVectors
      <4>2. vector_low(r, bus, {"D"}) = [q EXCEPT !.P = (q.P \cup {"I"}) \ {"D"}]
        BY DEF vector_low, q
      <4>3. (q.P \cup {"I"}) \ {"D"} = Y  BY <1>1, <3>3 DEF CmosVectors
      <4> QED  BY <3>3, <4>1, <4>2, <4>3 DEF CmosVectors
    <3> QED  BY <1>3, <3>1, <3>2, <3>3 DEF Masking
  <2>3. /\ X \in SUBSET Flag /\ Y \in SUBSET Flag
        /\ "I" \in X <=> "I" \in Y
        /\ "D" \in X <=> "D" \in Y
    BY <1>1, <1>2, <2>1
  <2> HIDE DEF X, Y, q, d
  <2>4. Leaves(m, e)  BY <1>1, <2>3, ModesSet
  <2> HIDE DEF m, e
  <2>5. CASE h = "reset_vec_hi"
    <3>1. Takes(m, InReset(ReadAt(e, ResetHigh)), "read", {0})
      BY <2>4, VectorAddresses, ResetTakes
    <3> QED  BY <2>2, <2>5, <3>1 DEF m, X, d
  <2>6. CASE h # "reset_vec_hi"
    <3>1. Takes(m, ReadAt(e, IrqHigh), "read", {0}) /\ Takes(m, ReadAt(e, NmiHigh), "read", {0})
      BY <2>4, VectorAddresses, ReadTakes
    <3>2. Takes(m, d, "read", {0})  BY <1>3, <2>2, <2>6, <3>1 DEF Masking, CmosVectors
    <3> QED  BY <3>2 DEF m, X, d
  <2> QED  BY <2>5, <2>6
<1>4. CASE h = "rti_c3_pull_pcl"
  <2> DEFINE e == [r EXCEPT !.P = X]
  <2>1. X = PulledFlags(bus)
    BY <1>4 DEF Moved, Masking, CmosVectors, Pulling
  <2>2. d = stack_read(e)  BY <1>4, <2>1 DEF Control, rti_c3_pull_pcl
  <2>3. X \in SUBSET Flag  BY <2>1, Pulled
  <2> HIDE DEF X
  <2>4. Leaves(m, e)  BY <2>3, ModesSet
  <2> HIDE DEF e, d, m
  <2>5. Takes(m, d, "read", {0})  BY <2>2, <2>4, StackTakes
  <2> QED  BY <2>5 DEF m, X, d
<1> QED  BY <1>3, <1>4 DEF ModeReads
-----------------------------------------------------------------------------
\* The addressing table: reads of the program, with what they leave in the address latch.
OperandReads ==
  { "clear_latch_addr_read_pc_inc", "clear_latch_addr_read_pc", "latch_addr0_read_pc_inc",
    "latch_addr0_read_pc_inc_prefetch", "latch_abx_base_read_pc_inc", "rw_abx_c1_hi",
    "latch_aby_base_read_pc_inc", "cmos_latch_abx_base_read_pc", "cmos_latch_aby_base_read_pc" }

LEMMA IndexedLeaves ==
  ASSUME NEW r \in Registers, NEW base \in Bytes, NEW index \in Bytes
  PROVE  Leaves(r, Indexed(r, base, index))
<1> DEFINE low == Byte(base + index)
           carry == (base + index) \div 256
           e == [r EXCEPT !.addr = low]
           q == [e EXCEPT !.data = carry]
<1>1. base + index \in Int  BY SMT DEF Bytes
<1>2. low \in Words  BY <1>1, Truncates, BytesAreWords
<1>3. carry \in Bytes  BY SMT DEF Bytes
<1>4. Indexed(r, base, index) = q  BY DEF Indexed, Registers
<1> HIDE DEF low, carry
<1>5. Leaves(r, e)  BY <1>2, LeavesWord
<1> HIDE DEF e
<1>6. Leaves(e, q)  BY <1>3, <1>5, LeavesByte DEF Leaves
<1> QED  BY <1>4, <1>5, <1>6, LeavesOn

LEMMA OperandReadTakes ==
  ASSUME NEW h \in OperandReads, NEW r \in Registers, NEW bus \in Bytes
  PROVE  Takes(r, Addressing(h, r, bus), "read", {0})
<1> DEFINE d == Addressing(h, r, bus)
           z == [r EXCEPT !.addr = 0]
           l == set_latch_addr0(r, bus)
           x == Indexed(r, bus, r.X)
           y == Indexed(r, bus, r.Y)
<1>1. \E q \in {z, l, x, y} : d = read_pc(q) \/ d = read_pc_inc(q)
  BY DEF Addressing, OperandReads
<1>2. r.X \in Bytes /\ r.Y \in Bytes /\ Leaves(r, r)  BY Fields, LeavesItself
<1>3. 0 \in Words  BY InWords, SMT
<1>4. Leaves(r, z)  BY <1>3, LeavesWord
<1>5. Leaves(r, l)  BY <1>2, LatchLeaves
<1>6. Leaves(r, x) /\ Leaves(r, y)  BY <1>2, IndexedLeaves
<1> HIDE DEF d, z, l, x, y
<1>7. PICK q : Leaves(r, q) /\ (d = read_pc(q) \/ d = read_pc_inc(q))
  BY <1>1, <1>4, <1>5, <1>6
<1>8. Takes(r, d, "read", {0})  BY <1>7, PcTakes
<1> QED  BY <1>8 DEF d

\* Reads of the latched address.
LatchReads ==
  { "read_latch_addr", "read_latch_addr_prefetch", "read_latch_addr_prefetch_decimal_clear",
    "latch_addr0_read_latch_addr", "latch_addr1_read_latch_addr",
    "latch_addr1_read_latch_addr_prefetch_decimal_clear", "latch_data_read_latch_addr",
    "latch_data_read_latch_addr_prefetch", "latch_zp_addr_read_latch_addr",
    "latch_zp_addr_read_latch_addr_prefetch_decimal_clear", "r_izx_c4_data",
    "r_izx_c4_data_prefetch_decimal_clear" }

LEMMA LatchReadTakes ==
  ASSUME NEW h \in LatchReads, NEW r \in Registers, NEW bus \in Bytes
  PROVE  Takes(r, Addressing(h, r, bus), "read", {0})
<1> DEFINE d == Addressing(h, r, bus)
           l == set_latch_addr0(r, bus)
           g == set_latch_addr1(r, bus)
           v == [r EXCEPT !.data = bus]
           z == [r EXCEPT !.addr = bus]
           p == [r EXCEPT !.addr = Address(bus, r.data)]
<1>1. d \in {read_latch_addr(r), read_latch_addr(l), read_latch_addr(g), read_latch_addr(v),
             read_latch_addr(z), read_latch_addr(p)}
  BY DEF Addressing, LatchReads, latch_zp_addr_read_latch_addr, r_izx_c4_data
<1>2. r.data \in Bytes /\ Leaves(r, r)  BY Fields, LeavesItself
<1>3. bus \in Words /\ Address(bus, r.data) \in Words  BY <1>2, BytesAreWords, AddressWord
<1>4. Leaves(r, l) /\ Leaves(r, g)  BY <1>2, LatchLeaves
<1>5. Leaves(r, v) /\ Leaves(r, z) /\ Leaves(r, p)  BY <1>2, <1>3, SetLeaves
<1> HIDE DEF d, l, g, v, z, p
<1>6. PICK q : Leaves(r, q) /\ d = read_latch_addr(q)
  BY <1>1, <1>2, <1>4, <1>5
<1>7. Takes(r, d, "read", {0})  BY <1>6, PcTakes
<1> QED  BY <1>7 DEF d

\* Reads of the zero page, and of an address that is not final yet.
PageReads ==
  { "w_indexed_probe", "cmos_w_indexed_probe", "unstable_store_indexed_probe_preserve_base_high",
    "r_izx_c1_idx", "zpx_c1_idx", "r_zpy_c1_idx", "read_zp_latch_x", "w_zpy_c1_idx",
    "izx_read_ptrlo_inc_ptr", "izp_c2_ptrhi", "r_izx_c4_data_no_latch_prefetch",
    "w_izx_c3_ptrhi", "r_izy_c2_ptrhi", "w_izy_c2_ptrhi", "r_zp_c1_data_prefetch",
    "read_addr_with_bus_hi_prefetch" }

\* The sums of the probes and of the zero page.
LEMMA ProbeParts ==
  ASSUME NEW r \in Registers, NEW bus \in Bytes
  PROVE  /\ r.PC \in Words /\ r.addr \in Words /\ r.data \in Bytes
         /\ r.X \in Bytes /\ r.Y \in Bytes /\ bus \in Words
         /\ WithHigh(r.addr, bus) \in Words /\ WithLow(r.addr, bus) \in Words
         /\ Address(bus, r.data) \in Words /\ ZeroPageAfter(r.addr) \in Words
         /\ Byte(r.addr + 1) \in Bytes /\ WithLow(r.addr, Byte(r.addr + 1)) \in Words
         /\ Byte(bus + r.data) \in Bytes /\ Byte(bus + r.X) \in Bytes
         /\ Byte(bus + r.Y) \in Bytes /\ Word(r.PC + 1) \in Words
<1>1. /\ r.PC \in Words /\ r.addr \in Words /\ r.data \in Bytes
      /\ r.X \in Bytes /\ r.Y \in Bytes /\ bus \in Words
  BY Fields, BytesAreWords
<1>2. WithHigh(r.addr, bus) \in Words /\ WithLow(r.addr, bus) \in Words
  BY <1>1, WordParts
<1>3. /\ ZeroPageAfter(r.addr) \in Words /\ Byte(r.addr + 1) \in Bytes
      /\ Word(r.PC + 1) \in Words
  BY <1>1, Addresses
<1>4. WithLow(r.addr, Byte(r.addr + 1)) \in Words  BY <1>1, <1>3, WordParts
<1>5. ASSUME NEW b \in Bytes PROVE Byte(bus + b) \in Bytes
  <2>1. bus + b \in Int  BY SMT DEF Bytes
  <2> QED  BY <2>1, Truncates
<1> QED  BY <1>1, <1>2, <1>3, <1>4, <1>5, AddressWord

LEMMA PageReadTakes ==
  ASSUME NEW h \in PageReads, NEW r \in Registers, NEW bus \in Bytes
  PROVE  Takes(r, Addressing(h, r, bus), "read", {0})
<1> DEFINE d == Addressing(h, r, bus)
           sum == Byte(bus + r.data)
           xs == Byte(bus + r.X)
           ys == Byte(bus + r.Y)
           next == Byte(r.addr + 1)
           pc == Word(r.PC + 1)
           up == WithHigh(r.addr, bus)
           down == WithLow(r.addr, bus)
           whole == Address(bus, r.data)
           after == ZeroPageAfter(r.addr)
           near == WithLow(r.addr, next)
           counted == [r EXCEPT !.PC = pc]
<1>1. /\ Leaves(r, r)
      /\ r.PC \in Words /\ r.addr \in Words /\ r.Y \in Bytes /\ bus \in Words
      /\ sum \in Bytes /\ xs \in Bytes /\ ys \in Bytes /\ next \in Bytes /\ pc \in Words
      /\ up \in Words /\ down \in Words /\ whole \in Words /\ after \in Words /\ near \in Words
  BY LeavesItself, ProbeParts
<1>2. xs \in Words /\ ys \in Words  BY <1>1, BytesAreWords
<1>3. /\ h = "w_indexed_probe" => d = ReadAt(set_latch_addr1(r, sum), up)
      /\ h = "cmos_w_indexed_probe" => d = ReadAt(set_latch_addr1(counted, sum), r.PC)
      /\ h = "unstable_store_indexed_probe_preserve_base_high" =>
           d = ReadAt(set_latch_addr1(r, bus), up)
      /\ h \in {"r_izx_c1_idx", "zpx_c1_idx"} => d = ReadAt(set_latch_addr0(r, xs), down)
      /\ h = "r_zpy_c1_idx" => d = ReadAt(set_latch_addr0(r, ys), down)
  BY DEF Addressing, w_indexed_probe, cmos_w_indexed_probe, unstable_store_indexed_probe,
         zp_c1_idx
<1>4. /\ h = "read_zp_latch_x" => d = ReadAt([r EXCEPT !.addr = xs], bus)
      /\ h = "w_zpy_c1_idx" => d = ReadAt([r EXCEPT !.addr = ys], bus)
      /\ h = "izx_read_ptrlo_inc_ptr" => d = ReadAt(set_latch_addr0(r, next), r.addr)
      /\ h = "izp_c2_ptrhi" => d = ReadAt(set_latch_addr0(r, bus), after)
      /\ h = "w_izx_c3_ptrhi" => d = ReadAt(set_latch_addr0(r, bus), r.addr)
  BY DEF Addressing, read_zp_latch, izx_read_ptrlo_inc_ptr, izp_c2_ptrhi, w_izx_c3_ptrhi
<1>5. /\ h = "r_izy_c2_ptrhi" => d = ReadAt(Indexed(r, bus, r.Y), near)
      /\ h = "w_izy_c2_ptrhi" => d = ReadAt(Indexed(r, bus, r.Y), after)
      /\ h = "r_izx_c4_data_no_latch_prefetch" => d = ReadAt(r, whole)
      /\ h = "r_zp_c1_data_prefetch" => d = ReadAt(r, bus)
      /\ h = "read_addr_with_bus_hi_prefetch" => d = ReadAt(r, up)
  BY DEF Addressing, r_izy_c2_ptrhi, w_izy_c2_ptrhi, r_izx_c4_data_no_latch
<1> HIDE DEF d, sum, xs, ys, next, pc, up, down, whole, after, near
<1>6. Leaves(r, counted)  BY <1>1, LeavesWord
<1>7. /\ Leaves(r, set_latch_addr1(r, sum)) /\ Leaves(r, set_latch_addr1(counted, sum))
      /\ Leaves(r, set_latch_addr1(r, bus))
  BY <1>1, <1>6, LatchLeaves
<1>8. /\ Leaves(r, set_latch_addr0(r, xs)) /\ Leaves(r, set_latch_addr0(r, ys))
      /\ Leaves(r, set_latch_addr0(r, next)) /\ Leaves(r, set_latch_addr0(r, bus))
  BY <1>1, LatchLeaves
<1>9. /\ Leaves(r, [r EXCEPT !.addr = xs]) /\ Leaves(r, [r EXCEPT !.addr = ys])
      /\ Leaves(r, Indexed(r, bus, r.Y))
  BY <1>1, <1>2, SetLeaves, IndexedLeaves
<1> HIDE DEF counted
<1>10. CASE h \in { "w_indexed_probe", "cmos_w_indexed_probe",
                    "unstable_store_indexed_probe_preserve_base_high", "r_izx_c1_idx",
                    "zpx_c1_idx", "r_zpy_c1_idx" }
  <2>1. Takes(r, d, "read", {0})  BY <1>1, <1>3, <1>7, <1>8, <1>10, ReadTakes
  <2> QED  BY <2>1 DEF d
<1>11. CASE h \in { "read_zp_latch_x", "w_zpy_c1_idx", "izx_read_ptrlo_inc_ptr",
                    "izp_c2_ptrhi", "w_izx_c3_ptrhi" }
  <2>1. Takes(r, d, "read", {0})  BY <1>1, <1>4, <1>8, <1>9, <1>11, ReadTakes
  <2> QED  BY <2>1 DEF d
<1>12. CASE h \in { "r_izy_c2_ptrhi", "w_izy_c2_ptrhi", "r_izx_c4_data_no_latch_prefetch",
                    "r_zp_c1_data_prefetch", "read_addr_with_bus_hi_prefetch" }
  <2>1. Takes(r, d, "read", {0})  BY <1>1, <1>5, <1>9, <1>12, ReadTakes
  <2> QED  BY <2>1 DEF d
<1> QED  BY <1>10, <1>11, <1>12 DEF PageReads

\* Indexed reads: no page crossing, and the cycle that would fix the address is skipped.
IndexedReads ==
  { "r_indexed_probe_no_latch_prefetch_no_page_cross", "cmos_r_indexed_probe",
    "cmos_r_indexed_probe_prefetch_no_page_cross_decimal_clear",
    "cmos_r_indexed_probe_no_latch_prefetch_no_page_cross" }

LEMMA IndexedReadTakes ==
  ASSUME NEW h \in IndexedReads, NEW r \in Registers, NEW bus \in Bytes
  PROVE  Takes(r, Addressing(h, r, bus), "read", {0, 1})
<1> DEFINE d == Addressing(h, r, bus)
           sum == Byte(bus + r.data)
           pc == Word(r.PC + 1)
           up == WithHigh(r.addr, bus)
           g == set_latch_addr1(r, sum)
           q == [r EXCEPT !.PC = pc]
           fixed == set_latch_addr1(q, sum)
<1>1. /\ Leaves(r, r) /\ r.PC \in Words /\ r.addr \in Words
      /\ sum \in Bytes /\ pc \in Words /\ up \in Words
  BY LeavesItself, ProbeParts
<1>2. \/ d \in {Skipping(1, ReadAt(r, up)), ReadAt(g, up)}
      \/ d \in {Skipping(1, ReadAt(fixed, fixed.addr)), ReadAt(fixed, r.PC)}
      \/ d = [Skipping(1, ReadAt(fixed, fixed.addr)) EXCEPT !.regs.addr = r.addr]
  BY DEF Addressing, IndexedReads, r_indexed_probe_no_latch, cmos_r_indexed_probe,
         cmos_r_indexed_probe_no_latch, read_latch_addr
<1> HIDE DEF d, sum, pc, up
<1>3. Leaves(r, q)  BY <1>1, SetLeaves
<1>4. Leaves(r, g) /\ Leaves(r, fixed)  BY <1>1, <1>3, LatchLeaves
<1> HIDE DEF g, fixed
<1>5. fixed.addr \in Words  BY <1>4, Fields DEF Leaves
<1>6. 1 \in {0, 1} /\ 0 \in {0, 1}  OBVIOUS
<1>7. /\ Takes(r, Skipping(1, ReadAt(r, up)), "read", {0, 1})
      /\ Takes(r, ReadAt(g, up), "read", {0, 1})
  BY <1>1, <1>4, <1>6, SkipTakes
<1>8. /\ Takes(r, Skipping(1, ReadAt(fixed, fixed.addr)), "read", {0, 1})
      /\ Takes(r, ReadAt(fixed, r.PC), "read", {0, 1})
  BY <1>1, <1>4, <1>5, <1>6, SkipTakes
<1>9. Takes(r, [Skipping(1, ReadAt(fixed, fixed.addr)) EXCEPT !.regs.addr = r.addr], "read", {0, 1})
  BY <1>1, <1>4, <1>5, <1>6, LatchTakes
<1>10. Takes(r, d, "read", {0, 1})  BY <1>2, <1>7, <1>8, <1>9
<1> QED  BY <1>10 DEF d

LEMMA AddressWriteTakes ==
  ASSUME NEW r \in Registers, NEW bus \in Bytes
  PROVE  Takes(r, Addressing("latch_data_write_latch_addr", r, bus), "write", {0})
<1>1. Addressing("latch_data_write_latch_addr", r, bus) =
        WriteAt([r EXCEPT !.data = bus], r.addr, bus)
  BY DEF Addressing
<1>2. r.addr \in Words /\ Leaves(r, [r EXCEPT !.data = bus])
  BY ProbeParts, LeavesItself, SetLeaves
<1> QED  BY <1>1, <1>2, WriteTakes
-----------------------------------------------------------------------------
\* The execute table, for the instructions that run each handler.
LEMMA ExecuteFetchTakes ==
  ASSUME NEW h \in {"exec_fetch", "decimal_fetch"}, NEW mn, NEW opcode, NEW model,
         Suits(h, mn, opcode, model), NEW r \in Registers, NEW bus \in Bytes
  PROVE  Takes(r, Execute(h, mn, opcode, model, r, bus), "fetch", {0})
<1> DEFINE d == Execute(h, mn, opcode, model, r, bus)
<1>1. r.data \in Bytes  BY Fields
<1>2. h = "exec_fetch" => mn \in Reading  BY DEF Suits
<1>3. \/ d = FetchNext(cmos_bit_imm(r, bus))
      \/ h = "exec_fetch" /\ d = FetchNext(ReadOp(mn, model, r, bus))
      \/ d = FetchNext(CmosDecimal(mn, r, r.data))
  BY DEF Execute
<1> HIDE DEF d
<1>4. PICK q : Leaves(r, q) /\ d = FetchNext(q)
  BY <1>1, <1>2, <1>3, LeavesRead, LeavesArithmetic
<1>5. Takes(r, d, "fetch", {0})  BY <1>4, FetchTakes
<1> QED  BY <1>5 DEF d

LEMMA ImpliedTakes ==
  ASSUME NEW mn, NEW opcode, NEW model, Suits("imp_prefetch", mn, opcode, model),
         NEW r \in Registers, NEW bus
  PROVE  Takes(r, Execute("imp_prefetch", mn, opcode, model, r, bus), "read", {0})
<1>1. mn \in {"CLC", "SEC", "CLV"} \cup Counting \cup Shifts \cup Transfers  BY DEF Suits
<1>2. Leaves(r, ImpliedOp(mn, r))  BY <1>1, LeavesImplied
<1>3. Execute("imp_prefetch", mn, opcode, model, r, bus) = read_pc(ImpliedOp(mn, r))
  BY DEF Execute
<1> QED  BY <1>2, <1>3, PcTakes

LEMMA BranchTakes ==
  ASSUME NEW h \in {"branch_c0_prefetch", "wdc_bbr_bbs_c3_offset_or_skip_prefetch"}, NEW mn,
         NEW opcode, NEW model, NEW r \in Registers, NEW bus
  PROVE  Takes(r, Execute(h, mn, opcode, model, r, bus), "read", {0, 2})
<1> DEFINE d == Execute(h, mn, opcode, model, r, bus)
           n == Word(r.PC + 1)
           q == [r EXCEPT !.PC = n]
<1>1. r.PC \in Words /\ n \in Words
  <2>1. 0 \in Bytes  BY SMT DEF Bytes
  <2> QED  BY <2>1, Fields, Addresses
<1>2. \/ d = Skipping(0, ReadAt(q, r.PC))
      \/ d = Skipping(2, ReadAt(q, r.PC))
  BY DEF Execute, branch_c0, read_pc_inc
<1> HIDE DEF n, d
<1>3. Leaves(r, q)  BY <1>1, LeavesWord
<1>4. 0 \in {0, 2} /\ 2 \in {0, 2}  OBVIOUS
<1>5. Takes(r, Skipping(0, ReadAt(q, r.PC)), "read", {0, 2})  BY <1>1, <1>3, <1>4, SkipTakes
<1>6. Takes(r, Skipping(2, ReadAt(q, r.PC)), "read", {0, 2})  BY <1>1, <1>3, <1>4, SkipTakes
<1>7. Takes(r, d, "read", {0, 2})  BY <1>2, <1>5, <1>6
<1> QED  BY <1>7 DEF d

ExecuteWrites ==
  { "push_write_prefetch", "rmw_write_prefetch", "store_zp_prefetch", "store_abs_prefetch",
    "store_latch_prefetch", "unstable_store_prefetch" }

LEMMA ExecuteWriteTakes ==
  ASSUME NEW h \in ExecuteWrites, NEW mn, NEW opcode, NEW model, Suits(h, mn, opcode, model),
         NEW r \in Registers, NEW bus \in Bytes
  PROVE  Takes(r, Execute(h, mn, opcode, model, r, bus), "write", {0})
<1> DEFINE d == Execute(h, mn, opcode, model, r, bus)
<1>1. /\ Leaves(r, r) /\ r.addr \in Words /\ r.data \in Bytes /\ bus \in Words
      /\ WithHigh(r.addr, bus) \in Words
  BY LeavesItself, ProbeParts
<1>2. CASE h = "push_write_prefetch"
  <2>1. mn \in Pushing  BY <1>2 DEF Suits
  <2>2. 0 \in Bytes  BY SMT DEF Bytes
  <2>3. PushedValue(mn, r) \in Bytes  BY <2>1, <2>2, StoredByte
  <2>4. d = stack_write(r, PushedValue(mn, r))  BY <1>2 DEF Execute
  <2> QED  BY <1>1, <2>3, <2>4, StackTakes
<1>3. CASE h = "rmw_write_prefetch"
  <2> DEFINE new == ModifiedValue(mn, opcode, r, r.data)
             q == ModifiedRegisters(mn, model, r, r.data, new)
  <2>1. mn \in Modifying /\ NamesBit(mn, opcode)  BY <1>3 DEF Suits
  <2>2. new \in Bytes  BY <1>1, <2>1, ModifiedByte
  <2>3. d = WriteAt(q, r.addr, new)  BY <1>3 DEF Execute, rmw_write
  <2> HIDE DEF new
  <2>4. Leaves(r, q)  BY <2>1, <2>2, LeavesModified
  <2> QED  BY <1>1, <2>2, <2>3, <2>4, WriteTakes
<1>4. CASE h \in {"store_zp_prefetch", "store_abs_prefetch", "store_latch_prefetch"}
  <2> DEFINE v == StoredValue(mn, r)
  <2>1. mn \in Storing  BY <1>4 DEF Suits
  <2>2. 0 \in Bytes  BY SMT DEF Bytes
  <2>3. v \in Bytes  BY <2>1, <2>2, StoredByte
  <2>4. d \in {WriteAt(r, bus, v), WriteAt(r, WithHigh(r.addr, bus), v), WriteAt(r, r.addr, v)}
    BY <1>4 DEF Execute
  <2> HIDE DEF d, v
  <2>5. Takes(r, d, "write", {0})  BY <1>1, <2>3, <2>4, WriteTakes
  <2> QED  BY <2>5 DEF d
<1>5. CASE h = "unstable_store_prefetch"
  <2> DEFINE mask == Byte(High(r.addr) + 1)
             v == UnstableValue(mn, r, mask)
             ax == And(r.A, r.X)
             q == IF mn = "TAS" THEN [r EXCEPT !.S = ax] ELSE r
             a == IF r.data = 0 THEN r.addr ELSE WithHigh(r.addr, v)
  <2>1. mn \in StoringUnstably  BY <1>5 DEF Suits
  <2>2. mask \in Bytes
    <3>1. High(r.addr) \in Bytes  BY <1>1, WordParts
    <3> QED  BY <3>1, Addresses
  <2>3. v \in Bytes  BY <2>1, <2>2, StoredByte
  <2>4. ax \in Bytes  BY Fields, LogicBytes
  <2>5. d = WriteAt(q, a, v)  BY <1>5 DEF Execute, unstable_store
  <2> HIDE DEF v, mask, ax
  <2>6. Leaves(r, q)  BY <1>1, <2>4, LeavesByte
  <2>7. a \in Words  BY <1>1, <2>3, WordParts
  <2> HIDE DEF q, a, d
  <2>8. Takes(r, d, "write", {0})  BY <2>3, <2>5, <2>6, <2>7, WriteTakes
  <2> QED  BY <2>8 DEF d
<1> QED  BY <1>2, <1>3, <1>4, <1>5 DEF ExecuteWrites

\* The decimal sums of CMOS: one step out of decimal mode, and a cycle more within.
LEMMA DecimalTakes ==
  ASSUME NEW mn, NEW opcode, NEW model, Suits("exec_fetch_or_decimal_dummy", mn, opcode, model),
         NEW r \in Registers, NEW bus \in Bytes
  PROVE  LET d == Execute("exec_fetch_or_decimal_dummy", mn, opcode, model, r, bus)
         IN  /\ "D" \notin r.P => Takes(r, d, "fetch", {1})
             /\ "D" \in r.P => Takes(r, d, "read", {0})
<1> DEFINE d == Execute("exec_fetch_or_decimal_dummy", mn, opcode, model, r, bus)
<1>1. d = fetch_or_decimal_dummy(mn, opcode, model, r, bus)  BY DEF Execute
<1>2. CASE "D" \notin r.P
  <2> DEFINE v == IF mn = "ADC" THEN bus ELSE Complement(bus)
             q == adc_binary(r, v)
  <2>1. d = Skipping(1, FetchNext(q))  BY <1>1, <1>2 DEF fetch_or_decimal_dummy
  <2>2. v \in Bytes  BY ComplementByte
  <2> HIDE DEF v
  <2>3. Leaves(r, q)  BY <2>2, LeavesBinary
  <2> HIDE DEF q
  <2>4. Takes(r, FetchNext(q), "fetch", {0})  BY <2>3, FetchTakes
  <2>5. /\ d.regs = FetchNext(q).regs /\ d.address = FetchNext(q).address
        /\ d.data = FetchNext(q).data /\ d.reset = FetchNext(q).reset
        /\ d.status = FetchNext(q).status /\ d.skip = 1
    BY <2>1 DEF Skipping, FetchNext, BusCycle
  <2> HIDE DEF d
  <2>6. Takes(r, d, "fetch", {1})  BY <2>4, <2>5 DEF Takes
  <2> QED  BY <1>2, <2>6 DEF d
<1>3. CASE "D" \in r.P
  <2> DEFINE a == IF opcode = 105 THEN adc_imm_dummy[model]
                  ELSE IF opcode = 233 THEN 0 ELSE r.addr
             q == [r EXCEPT !.data = bus]
  <2>1. d = ReadAt(q, a)  BY <1>1, <1>3 DEF fetch_or_decimal_dummy
  <2>2. model \in {wdc_model, rw_model, st_model}  BY DEF Suits
  <2>3. adc_imm_dummy[model] \in {127, 89, 86}  BY <2>2 DEF adc_imm_dummy
  <2>4. 127 \in Words /\ 89 \in Words /\ 86 \in Words /\ 0 \in Words  BY InWords, SMT
  <2>5. a \in Words  BY <2>3, <2>4, Fields
  <2>6. Leaves(r, q)  BY LeavesByte
  <2> HIDE DEF a, q, d
  <2>7. Takes(r, d, "read", {0})  BY <2>1, <2>5, <2>6, ReadTakes
  <2> QED  BY <1>3, <2>7 DEF d
<1> QED  BY <1>2, <1>3

\* PLP, and the instructions that set and clear a mode.
LEMMA ModeExecuteTakes ==
  ASSUME NEW h \in FlagHandlers \cup {"plp_fetch"}, NEW mn, NEW opcode, NEW model,
         Suits(h, mn, opcode, model), NEW r \in Registers, NEW bus \in Bytes
  PROVE  Takes([r EXCEPT !.P = Moved(h, r.P, bus)], Execute(h, mn, opcode, model, r, bus),
               IF h = "plp_fetch" THEN "fetch" ELSE "read", {0})
<1> DEFINE d == Execute(h, mn, opcode, model, r, bus)
           X == Moved(h, r.P, bus)
           q == [r EXCEPT !.P = X]
<1>1. CASE h = "plp_fetch"
  <2>1. X = PulledFlags(bus)
    BY <1>1 DEF Moved, Masking, CmosVectors, Pulling
  <2>2. d = FetchNext(q)  BY <1>1, <2>1 DEF Execute
  <2>3. X \in SUBSET Flag  BY <2>1, Pulled
  <2> HIDE DEF X
  <2>4. Leaves(q, q)  BY <2>3, TypedFlags, LeavesItself
  <2> HIDE DEF q, d
  <2>5. Takes(q, d, "fetch", {0})  BY <2>2, <2>4, FetchTakes
  <2> QED  BY <1>1, <2>5 DEF q, X, d
<1>2. CASE h \in FlagHandlers
  <2>1. r.P \in SUBSET Flag /\ "I" \in Flag /\ "D" \in Flag  BY Fields DEF Flag
  <2>2. /\ h = "cli_prefetch" => mn = "CLI"
        /\ h = "sei_prefetch" => mn = "SEI"
        /\ h = "cld_prefetch" => mn = "CLD"
        /\ h = "sed_prefetch" => mn = "SED"
    BY DEF Suits
  <2>3. X = FlagOp(mn, r.P)
    BY <1>2, <2>2 DEF Moved, FlagOp, FlagHandlers, Masking, CmosVectors, Pulling
  <2>4. mn \in FlagInstructions  BY <1>2, <2>2 DEF FlagHandlers, FlagInstructions
  <2>5. d = read_pc(ImpliedOp(mn, r))  BY <1>2 DEF Execute, FlagHandlers
  <2>6. ImpliedOp(mn, r) = q  BY <2>3, <2>4 DEF ImpliedOp
  <2>7. X \in SUBSET Flag  BY <1>2, <2>1, <2>2, <2>3 DEF FlagOp, FlagHandlers
  <2> HIDE DEF X
  <2>8. Leaves(q, q)  BY <2>7, TypedFlags, LeavesItself
  <2> HIDE DEF q, d
  <2>9. Takes(q, d, "read", {0})  BY <2>5, <2>6, <2>8, PcTakes
  <2>10. h # "plp_fetch"  BY <1>2 DEF FlagHandlers
  <2> QED  BY <2>9, <2>10 DEF q, X, d
<1> QED  BY <1>1, <1>2
-----------------------------------------------------------------------------
\* All handlers, by the cycle they start and the entries they may skip.
DataFetches == ControlFetches \cup {"exec_fetch", "decimal_fetch", "plp_fetch"}
DataWrites  == ControlWrites \cup ExecuteWrites \cup {"latch_data_write_latch_addr"}
DataProbes  == IndexedReads \cup {"branch_rel_c1_apply", "wdc_bbr_bbs_c4_apply"}
DataBranches == {"branch_c0_prefetch", "wdc_bbr_bbs_c3_offset_or_skip_prefetch"}
PlainDataReads == ControlReads \cup ResetReads \cup JumpReads \cup OperandReads \cup LatchReads
                  \cup PageReads \cup {"imp_prefetch"}
DataReads   == PlainDataReads \cup ModeReads \cup FlagHandlers

\* The handlers of each table are in no other one.
LEMMA Tables ==
  /\ ControlReads \cup ResetReads \cup JumpReads \cup ControlFetches \cup ControlWrites
       \cup ModeReads \cup {"branch_rel_c1_apply", "wdc_bbr_bbs_c4_apply", "kil_jam_loop"}
     \subseteq ControlHandlers
  /\ ExecuteWrites \cup FlagHandlers \cup DataBranches
       \cup {"exec_fetch", "decimal_fetch", "plp_fetch", "imp_prefetch",
             "exec_fetch_or_decimal_dummy"}
     \subseteq ExecuteHandlers \ ControlHandlers
  /\ (OperandReads \cup LatchReads \cup PageReads \cup IndexedReads
        \cup {"latch_data_write_latch_addr"}) \cap (ControlHandlers \cup ExecuteHandlers) = {}
<1>1. ControlReads \cup ResetReads \cup JumpReads \subseteq ControlHandlers
  BY DEF ControlReads, ResetReads, JumpReads, ControlHandlers
<1>2. ControlFetches \cup ControlWrites \cup ModeReads
        \cup {"branch_rel_c1_apply", "wdc_bbr_bbs_c4_apply", "kil_jam_loop"} \subseteq ControlHandlers
  BY DEF ControlFetches, ControlWrites, ModeReads, Masking, CmosVectors, ControlHandlers
<1>3. ExecuteWrites \cup FlagHandlers \cup DataBranches
        \cup {"exec_fetch", "decimal_fetch", "plp_fetch", "imp_prefetch",
              "exec_fetch_or_decimal_dummy"} \subseteq ExecuteHandlers
  BY DEF ExecuteWrites, FlagHandlers, DataBranches, ExecuteHandlers
<1>4. ExecuteHandlers \cap ControlHandlers = {}  BY DEF ExecuteHandlers, ControlHandlers
<1>5. ASSUME NEW h \in OperandReads \cup LatchReads PROVE h \notin ControlHandlers \cup ExecuteHandlers
  BY DEF OperandReads, LatchReads, ControlHandlers, ExecuteHandlers
<1>6. ASSUME NEW h \in PageReads PROVE h \notin ControlHandlers \cup ExecuteHandlers
  BY DEF PageReads, ControlHandlers, ExecuteHandlers
<1>7. ASSUME NEW h \in IndexedReads \cup {"latch_data_write_latch_addr"}
      PROVE  h \notin ControlHandlers \cup ExecuteHandlers
  BY DEF IndexedReads, ControlHandlers, ExecuteHandlers
<1> QED  BY <1>1, <1>2, <1>3, <1>4, <1>5, <1>6, <1>7

LEMMA Unmoved ==
  ASSUME NEW h, h \notin Moving, NEW r \in Registers, NEW bus
  PROVE  [r EXCEPT !.P = Moved(h, r.P, bus)] = r
<1>1. Moved(h, r.P, bus) = r.P  BY DEF Moved, Moving, FlagHandlers
<1> QED  BY <1>1 DEF Registers

\* No two groups share a handler, and only the last ones move the modes.
LEMMA Unmoving ==
  (PlainDataReads \cup ControlFetches \cup DataWrites \cup DataProbes \cup DataBranches
     \cup {"exec_fetch", "decimal_fetch", "kil_jam_loop", "exec_fetch_or_decimal_dummy"})
  \cap Moving = {}
<1> USE DEF Moving, Masking, CmosVectors, FlagHandlers, Pulling
<1>1. (ControlReads \cup ResetReads \cup JumpReads) \cap Moving = {}
  BY DEF ControlReads, ResetReads, JumpReads
<1>2. (OperandReads \cup LatchReads \cup {"imp_prefetch"}) \cap Moving = {}
  BY DEF OperandReads, LatchReads
<1>3. (PageReads \cup IndexedReads) \cap Moving = {}  BY DEF PageReads, IndexedReads
<1>4. (ControlFetches \cup ControlWrites \cup ExecuteWrites) \cap Moving = {}
  BY DEF ControlFetches, ControlWrites, ExecuteWrites
<1>5. (DataBranches \cup {"branch_rel_c1_apply", "wdc_bbr_bbs_c4_apply", "exec_fetch", "decimal_fetch",
         "latch_data_write_latch_addr", "kil_jam_loop", "exec_fetch_or_decimal_dummy"}) \cap Moving = {}
  BY DEF DataBranches
<1> HIDE DEF Moving
<1> QED  BY <1>1, <1>2, <1>3, <1>4, <1>5 DEF PlainDataReads, DataWrites, DataProbes

\* What a tick's handler does, whichever it is.
LEMMA HandleReads ==
  ASSUME NEW h \in DataReads, NEW mn, NEW opcode, NEW model, Suits(h, mn, opcode, model),
         NEW r \in Registers, NEW bus \in Bytes
  PROVE  Takes([r EXCEPT !.P = Moved(h, r.P, bus)], Handle(h, mn, opcode, model, r, bus), "read", {0})
<1> DEFINE d == Handle(h, mn, opcode, model, r, bus)
<1>1. CASE h \in ControlReads \cup ResetReads \cup JumpReads
  <2>1. d = Control(h, r, bus)  BY <1>1, Tables DEF Handle
  <2>2. Takes(r, d, "read", {0})  BY <1>1, <2>1, ControlReadTakes, ResetReadTakes, JumpReadTakes
  <2>3. h \notin Moving  BY <1>1, Unmoving DEF PlainDataReads
  <2> QED  BY <2>2, <2>3, Unmoved
<1>2. CASE h \in OperandReads \cup LatchReads \cup PageReads
  <2>1. d = Addressing(h, r, bus)  BY <1>2, Tables DEF Handle
  <2>2. Takes(r, d, "read", {0})  BY <1>2, <2>1, OperandReadTakes, LatchReadTakes, PageReadTakes
  <2>3. h \notin Moving  BY <1>2, Unmoving DEF PlainDataReads
  <2> QED  BY <2>2, <2>3, Unmoved
<1>3. CASE h = "imp_prefetch"
  <2>1. d = Execute("imp_prefetch", mn, opcode, model, r, bus)  BY <1>3, Tables DEF Handle
  <2>2. Takes(r, d, "read", {0})  BY <1>3, <2>1, ImpliedTakes
  <2>3. h \notin Moving  BY <1>3, Unmoving DEF PlainDataReads
  <2> QED  BY <2>2, <2>3, Unmoved
<1>4. CASE h \in ModeReads
  <2>1. d = Control(h, r, bus)  BY <1>4, Tables DEF Handle
  <2> QED  BY <1>4, <2>1, ModeReadTakes
<1>5. CASE h \in FlagHandlers
  <2>1. d = Execute(h, mn, opcode, model, r, bus)  BY <1>5, Tables DEF Handle
  <2>2. h # "plp_fetch"  BY <1>5 DEF FlagHandlers
  <2> QED  BY <1>5, <2>1, <2>2, ModeExecuteTakes
<1> QED  BY <1>1, <1>2, <1>3, <1>4, <1>5 DEF DataReads, PlainDataReads

LEMMA HandleFetches ==
  ASSUME NEW h \in DataFetches, NEW mn, NEW opcode, NEW model, Suits(h, mn, opcode, model),
         NEW r \in Registers, NEW bus \in Bytes
  PROVE  Takes([r EXCEPT !.P = Moved(h, r.P, bus)], Handle(h, mn, opcode, model, r, bus), "fetch", {0})
<1> DEFINE d == Handle(h, mn, opcode, model, r, bus)
<1>1. CASE h \in ControlFetches
  <2>1. d = Control(h, r, bus)  BY <1>1, Tables DEF Handle
  <2>2. Takes(r, d, "fetch", {0})  BY <1>1, <2>1, ControlFetchTakes
  <2>3. h \notin Moving  BY <1>1, Unmoving
  <2> QED  BY <2>2, <2>3, Unmoved
<1>2. CASE h \in {"exec_fetch", "decimal_fetch"}
  <2>1. d = Execute(h, mn, opcode, model, r, bus)  BY <1>2, Tables DEF Handle
  <2>2. Takes(r, d, "fetch", {0})  BY <1>2, <2>1, ExecuteFetchTakes
  <2>3. h \notin Moving  BY <1>2, Unmoving
  <2> QED  BY <2>2, <2>3, Unmoved
<1>3. CASE h = "plp_fetch"
  <2>1. d = Execute(h, mn, opcode, model, r, bus)  BY <1>3, Tables DEF Handle
  <2> QED  BY <1>3, <2>1, ModeExecuteTakes
<1> QED  BY <1>1, <1>2, <1>3 DEF DataFetches

LEMMA HandleWrites ==
  ASSUME NEW h \in DataWrites, NEW mn, NEW opcode, NEW model, Suits(h, mn, opcode, model),
         NEW r \in Registers, NEW bus \in Bytes
  PROVE  Takes([r EXCEPT !.P = Moved(h, r.P, bus)], Handle(h, mn, opcode, model, r, bus), "write", {0})
<1> DEFINE d == Handle(h, mn, opcode, model, r, bus)
<1>1. h \notin Moving  BY Unmoving
<1>2. CASE h \in ControlWrites
  <2>1. d = Control(h, r, bus)  BY <1>2, Tables DEF Handle
  <2>2. Takes(r, d, "write", {0})  BY <1>2, <2>1, ControlWriteTakes
  <2> QED  BY <1>1, <2>2, Unmoved
<1>3. CASE h \in ExecuteWrites
  <2>1. d = Execute(h, mn, opcode, model, r, bus)  BY <1>3, Tables DEF Handle
  <2>2. Takes(r, d, "write", {0})  BY <1>3, <2>1, ExecuteWriteTakes
  <2> QED  BY <1>1, <2>2, Unmoved
<1>4. CASE h = "latch_data_write_latch_addr"
  <2>1. d = Addressing("latch_data_write_latch_addr", r, bus)  BY <1>4, Tables DEF Handle
  <2>2. Takes(r, d, "write", {0})  BY <2>1, AddressWriteTakes
  <2> QED  BY <1>1, <2>2, Unmoved
<1> QED  BY <1>2, <1>3, <1>4 DEF DataWrites

LEMMA HandleSkips ==
  ASSUME NEW h, NEW mn, NEW opcode, NEW model, NEW r \in Registers, NEW bus \in Bytes
  PROVE  LET d == Handle(h, mn, opcode, model, r, bus)
             m == [r EXCEPT !.P = Moved(h, r.P, bus)]
         IN  /\ h \in DataProbes => Takes(m, d, "read", {0, 1})
             /\ h \in DataBranches => Takes(m, d, "read", {0, 2})
<1> DEFINE d == Handle(h, mn, opcode, model, r, bus)
<1>1. CASE h \in IndexedReads
  <2>1. d = Addressing(h, r, bus)  BY <1>1, Tables DEF Handle
  <2>2. Takes(r, d, "read", {0, 1})  BY <1>1, <2>1, IndexedReadTakes
  <2>3. h \notin Moving /\ h \notin DataBranches
    BY <1>1, Unmoving, Tables DEF DataProbes
  <2> QED  BY <2>2, <2>3, Unmoved
<1>2. CASE h \in {"branch_rel_c1_apply", "wdc_bbr_bbs_c4_apply"}
  <2>1. d = Control(h, r, bus)  BY <1>2, Tables DEF Handle
  <2>2. Takes(r, d, "read", {0, 1})  BY <1>2, <2>1, ControlSkipTakes
  <2>3. h \notin Moving /\ h \notin DataBranches
    BY <1>2, Unmoving, Tables DEF DataProbes
  <2> QED  BY <2>2, <2>3, Unmoved
<1>3. CASE h \in DataBranches
  <2>1. d = Execute(h, mn, opcode, model, r, bus)  BY <1>3, Tables DEF Handle
  <2>2. Takes(r, d, "read", {0, 2})  BY <1>3, <2>1, BranchTakes DEF DataBranches
  <2>3. h \notin Moving /\ h \notin DataProbes
    BY <1>3, Unmoving, Tables DEF DataProbes
  <2> QED  BY <2>2, <2>3, Unmoved
<1> QED  BY <1>1, <1>2, <1>3 DEF DataProbes

LEMMA HandleJams ==
  ASSUME NEW mn, NEW opcode, NEW model, NEW r \in Registers, NEW bus
  PROVE  LET d == Handle("kil_jam_loop", mn, opcode, model, r, bus)
         IN  Takes([r EXCEPT !.P = Moved("kil_jam_loop", r.P, bus)], d, "jammed", {0})
<1>1. Handle("kil_jam_loop", mn, opcode, model, r, bus) = Control("kil_jam_loop", r, bus)
  BY Tables DEF Handle
<1>2. "kil_jam_loop" \notin Moving  BY Unmoving
<1> QED  BY <1>1, <1>2, JamTakes, Unmoved

LEMMA HandleDecimal ==
  ASSUME NEW mn, NEW opcode, NEW model, Suits("exec_fetch_or_decimal_dummy", mn, opcode, model),
         NEW r \in Registers, NEW bus \in Bytes
  PROVE  LET d == Handle("exec_fetch_or_decimal_dummy", mn, opcode, model, r, bus)
             m == [r EXCEPT !.P = Moved("exec_fetch_or_decimal_dummy", r.P, bus)]
         IN  /\ "D" \notin r.P => Takes(m, d, "fetch", {1})
             /\ "D" \in r.P => Takes(m, d, "read", {0})
<1> DEFINE h == "exec_fetch_or_decimal_dummy"
<1>1. Handle(h, mn, opcode, model, r, bus) = Execute(h, mn, opcode, model, r, bus)
  BY Tables DEF Handle
<1>2. h \notin Moving  BY Unmoving
<1>3. [r EXCEPT !.P = Moved(h, r.P, bus)] = r  BY <1>2, Unmoved
<1> QED  BY <1>1, <1>3, DecimalTakes

\* What a handler that runs after a write does, it does without the bus.
THEOREM BlindToTheBus ==
  ASSUME NEW h \in BusBlind, NEW mn, NEW opcode, NEW model, NEW r, NEW a, NEW b
  PROVE  Handle(h, mn, opcode, model, r, a) = Handle(h, mn, opcode, model, r, b)
<1>1. CASE h = "rmw_write_prefetch"
  <2>1. h \in ExecuteHandlers \ ControlHandlers  BY <1>1, Tables DEF ExecuteWrites
  <2>2. \A bus : Handle(h, mn, opcode, model, r, bus) = Execute(h, mn, opcode, model, r, bus)
    BY <2>1 DEF Handle
  <2>3. \A bus : Execute(h, mn, opcode, model, r, bus) = rmw_write(mn, opcode, model, r)
    BY <1>1 DEF Execute
  <2> QED  BY <2>2, <2>3
<1>2. CASE h # "rmw_write_prefetch"
  <2>1. h \in ControlReads \cup ControlFetches \cup ControlWrites
    BY <1>2 DEF BusBlind, ControlReads, ControlFetches, ControlWrites
  <2>2. \A bus : Handle(h, mn, opcode, model, r, bus) = Control(h, r, bus)
    BY <2>1, Tables DEF Handle
  <2>3. Control(h, r, a) = Control(h, r, b)
    <3>1. CASE h \in { "fetch", "fetch_illegal_ext_dispatch", "read_pc_prefetch", "read_fffe",
                       "nmi_c4_vec_lo", "irq_c4_vec_lo" }
      <4>1. \A bus : /\ h \in {"fetch", "fetch_illegal_ext_dispatch"} => Control(h, r, bus) = FetchNext(r)
                     /\ h = "read_pc_prefetch" => Control(h, r, bus) = read_pc(r)
        BY DEF Control
      <4>2. \A bus : /\ h = "nmi_c4_vec_lo" => Control(h, r, bus) = ReadAt(r, NmiLow)
                     /\ h \in {"read_fffe", "irq_c4_vec_lo"} => Control(h, r, bus) = ReadAt(r, IrqLow)
        BY DEF Control
      <4> QED  BY <3>1, <4>1, <4>2, Zenon
    <3>2. CASE h \in { "stack_push_pc_low", "stack_push_status_b", "cmos_stack_push_status_b",
                       "nmi_c3_push_p", "irq_c3_push_p", "cmos_nmi_c3_push_p", "cmos_irq_c3_push_p" }
      <4>1. \A bus :
              /\ h = "stack_push_pc_low" => Control(h, r, bus) = stack_write(r, Low(r.PC))
              /\ h \in {"stack_push_status_b", "cmos_stack_push_status_b"} =>
                   Control(h, r, bus) = stack_write(r, stack_status(r.P, {"B"}))
              /\ h \in {"nmi_c3_push_p", "irq_c3_push_p", "cmos_nmi_c3_push_p", "cmos_irq_c3_push_p"} =>
                   Control(h, r, bus) = stack_write(r, stack_status(r.P, {}))
        BY DEF Control
      <4> QED  BY <3>2, <4>1
    <3> QED  BY <1>2, <3>1, <3>2 DEF BusBlind
  <2> QED  BY <2>2, <2>3
<1> QED  BY <1>1, <1>2

=============================================================================
