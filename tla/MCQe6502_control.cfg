CONSTANTS
  Store <- ControlStore
  Models <- NmosAndCmos
  Opcodes <- Typical
  Host = {"nmi", "irq", "restart", "goto", "set_model", "set_p"}
SPECIFICATION Spec
INVARIANTS TypeOK FastPathIdle NoStalePoll OneTaken ChosenEntersAtFetch
PROPERTY JamIsFinal
