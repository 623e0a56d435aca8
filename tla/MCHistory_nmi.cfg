CONSTANTS
  Store <- ControlStore
  Models <- Cmos
  Opcodes <- Polling
  Host = {"nmi", "restart"}
SPECIFICATION HFairSpec
PROPERTIES PollDecides EdgeLatched EdgeKept ChosenNmiKept NmiServed
