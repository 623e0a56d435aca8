CONSTANTS
  Store <- ControlStore
  Models <- Nmos
  Opcodes <- Typical
  Host = {"irq", "restart", "goto", "set_p"}
SPECIFICATION Spec
PROPERTIES FastPathTransparent
