----------------------------- MODULE MCHistory -----------------------------
(* InterruptHistory with the control store of the source. *)
EXTENDS MCInstances, InterruptHistory, ControlFlow

SameSlot(m, o, n, p) ==
  \A cycle \in 0..7 : ControlStore[IDX(m, o, cycle)] = ControlStore[IDX(n, p, cycle)]

\* The core knows an opcode by its slot alone, and each of the five models has the service slots
\* of one in EveryModel and, entry for entry, no opcode slot that this one does not have within
\* EverySlot. The other models and opcodes therefore add no behaviour. (BRK, which the
\* properties know by its number, is the only opcode with its slot.)
ASSUME EverySlotAssumption ==
  \A m \in AllModels : \E n \in EveryModel :
    /\ \A slot \in 256..263 : SameSlot(m, slot, n, slot)
    /\ \A o \in AllOpcodes : \E p \in EverySlot : SameSlot(m, o, n, p) /\ (o = 0 <=> p = 0)

\* NMOS instructions other than branches poll once: what ChosenNmiKeptAlways supposes.
ASSUME PollsOnceAssumption ==
  Models \subseteq NmosModels /\ (\A o \in Opcodes : o % 32 # 16) => PollsOnce

=============================================================================
