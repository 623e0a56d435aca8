CONSTANTS
  Store <- ControlStore
  Models <- Cmos
  Opcodes <- Branching
  Host = {"nmi", "irq"}
SPECIFICATION HFairSpec
INVARIANTS EntryFrame
PROPERTIES NoSpuriousNmi IrqServed
