CONSTANTS
  Store <- ControlStore
  Models <- Nmos
  Opcodes <- WithBrk
  Host = {"nmi", "irq", "restart", "set_p"}
SPECIFICATION HFairSpec
INVARIANTS EntryFrame VectorWindow
PROPERTIES NoSpuriousNmi EdgeKept ChosenNmiKept IrqServed
