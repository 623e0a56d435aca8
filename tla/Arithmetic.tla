------------------------------ MODULE Arithmetic ------------------------------
(***************************************************************************)
(* What addition and subtraction are, said without the way the processor   *)
(* computes them: the reference module Alu is compared with.  "before" and *)
(* "after" are records with the accumulator and the flags before and after *)
(* the operation; v is the operand, a byte.                                *)
(***************************************************************************)
EXTENDS Integers

Flag == {"N", "V", "U", "B", "D", "I", "Z", "C"}

Words == 0..65535
Bytes == 0..255

Registers ==
  [ PC : Words, S : 0..255, A : 0..255, X : 0..255, Y : 0..255,
    P : SUBSET Flag, addr : Words, data : 0..255 ]

\* The byte read as two digits, and whether both are decimal.
FromDecimal(n) == 10 * (n \div 16) + (n % 16)
IsDecimal(n)   == n % 16 <= 9 /\ n \div 16 <= 9

\* The byte read in two's complement.
SignedByte(n) == IF n >= 128 THEN n - 256 ELSE n

CarryOf(P) == IF "C" \in P THEN 1 ELSE 0
Borrow(P)  == 1 - CarryOf(P)

Has(after, flag, condition) == (flag \in after.P) = condition

SignAndZero(after) == Has(after, "Z", after.A = 0) /\ Has(after, "N", after.A >= 128)

-----------------------------------------------------------------------------
\* Of bytes: C is the carry out (no borrow), V says that the signed result does not fit.
BinarySum(before, v, after) ==
  LET sum == before.A + v + CarryOf(before.P)
  IN  /\ after.A = sum % 256
      /\ Has(after, "C", sum > 255)
      /\ Has(after, "V", SignedByte(before.A) + SignedByte(v) + CarryOf(before.P) \notin -128..127)
      /\ SignAndZero(after)

\* C and V of a difference are those of the bytes, in decimal mode too.
DifferenceFlags(before, v, after) ==
  /\ Has(after, "C", before.A - v - Borrow(before.P) >= 0)
  /\ Has(after, "V", SignedByte(before.A) - SignedByte(v) - Borrow(before.P) \notin -128..127)

BinaryDifference(before, v, after) ==
  /\ after.A = (before.A - v - Borrow(before.P)) % 256
  /\ DifferenceFlags(before, v, after)
  /\ SignAndZero(after)

\* The decimal mode of the NMOS models takes these flags from the bytes and not from its result.
NmosSumFlags(before, v, after) ==
  Has(after, "Z", (before.A + v + CarryOf(before.P)) % 256 = 0)

NmosDifferenceFlags(before, v, after) ==
  LET difference == (before.A - v - Borrow(before.P)) % 256
  IN  Has(after, "Z", difference = 0) /\ Has(after, "N", difference >= 128)

\* Of two decimal digits each.
DecimalResult(n, carry, after) ==
  FromDecimal(after.A) = n % 100 /\ IsDecimal(after.A) /\ Has(after, "C", carry)

DecimalSum(before, v, after) ==
  LET sum == FromDecimal(before.A) + FromDecimal(v) + CarryOf(before.P)
  IN  DecimalResult(sum, sum > 99, after)

DecimalDifference(before, v, after) ==
  LET difference == FromDecimal(before.A) - FromDecimal(v) - Borrow(before.P)
  IN  DecimalResult(difference, difference >= 0, after)

=============================================================================
