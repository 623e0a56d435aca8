----------------------------- MODULE MCJsBinding -----------------------------
(* Values for JsBinding: processors and ticks whose bytes all differ. *)
EXTENDS JsBinding

CONSTANTS o1, o2, o3, file

TwoModels == {0, 4}

\* n and its successors, in every field.
Processor(n) ==
  [ model |-> n % 5, reserved_extension |-> n, microcode |-> 258 * n, latch_addr |-> 259 * n,
    latch_data |-> n + 1, service_mode |-> n % 2, PC |-> 511 * n, S |-> n + 2, A |-> n + 3,
    X |-> n + 4, Y |-> n + 5, P |-> n + 6, interrupts |-> n + 7 ]

Seen(n) == [cpu |-> Processor(n), tick |-> [address |-> 4660 + n, status |-> 65, bus |-> n + 128]]

Fresh(model) ==
  [cpu |-> qe6502_setup(model), tick |-> [address |-> 0, status |-> 0, bus |-> 0]]

\* A fresh processor goes on to one of two others, and from one of those to the other.
TwoMoves ==
  {<<Fresh(model), Seen(100)>> : model \in TwoModels} \cup {<<Seen(100), Seen(117)>>}

=============================================================================
