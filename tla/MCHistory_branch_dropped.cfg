CONSTANTS
  Store <- ControlStore
  Models <- Nmos
  Opcodes <- Branching
  Host = {"nmi", "irq"}
SPECIFICATION HSpec
PROPERTIES ChosenNmiKept
