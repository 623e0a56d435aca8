CONSTANTS
  Store <- ControlStore
  Models <- Nmos
  Opcodes <- WithBrk
  Host = {"nmi"}
SPECIFICATION HSpec
PROPERTIES EdgeLatched
