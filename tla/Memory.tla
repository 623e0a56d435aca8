------------------------------- MODULE Memory -------------------------------
(***************************************************************************)
(* 64K of memory as a host of the processor keeps it: a function from the  *)
(* addresses of the bytes that are not zero.                               *)
(***************************************************************************)
EXTENDS Integers, TLC

At(m, address) == IF address \in DOMAIN m THEN m[address] ELSE 0

WordAt(m, address) == At(m, address) + 256 * At(m, (address + 1) % 65536)

Poke(m, address, value) ==
  IF value = 0 THEN [a \in DOMAIN m \ {address} |-> m[a]]
  ELSE [a \in DOMAIN m \cup {address} |-> IF a = address THEN value ELSE m[a]]

\* Many bytes at once: the patch is a function from addresses to bytes.
Patch(m, patch) ==
  LET Patched(a) == IF a \in DOMAIN patch THEN patch[a] ELSE m[a]
  IN  [a \in {b \in DOMAIN m \cup DOMAIN patch : Patched(b) # 0} |-> Patched(a)]

\* The little-endian word of a vector or of an operand, as a patch.
WordPatch(address, value) ==
  (address :> value % 256) @@ ((address + 1) % 65536 :> value \div 256)

=============================================================================
