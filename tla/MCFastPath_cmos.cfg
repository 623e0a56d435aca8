CONSTANTS
  Store <- ControlStore
  Models <- CmosPair
  Opcodes <- Few
  Host = {"nmi", "irq", "restart", "goto", "set_model", "set_p"}
SPECIFICATION Spec
INVARIANTS DetectorInStep
PROPERTIES FastPathTransparent
