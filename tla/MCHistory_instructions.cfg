CONSTANTS
  Store <- ControlStore
  Models <- EveryModel
  Opcodes <- EverySlot
  Host = {"irq", "restart", "goto", "set_p"}
SPECIFICATION HSpec
INVARIANTS HTypeOK HandlerExists EntryFrame InstructionLength
PROPERTY PollDecides
