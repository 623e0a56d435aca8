CONSTANTS
  Store <- ControlStore
  Models <- Cmos
  Opcodes <- WithBrk
  Host = {"nmi", "irq"}
SPECIFICATION HSpec
PROPERTIES EdgeKept
