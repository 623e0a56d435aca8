CONSTANTS
  Store <- ControlStore
  Models <- AllModels
  Opcodes <- AllOpcodes
  Host = {"nmi", "irq", "restart", "goto"}
  Cases <- AllCases
  Programs <- AllPrograms
  Scenarios <- SomePulses
  FailingPulses <- Early
SPECIFICATION HarnessSpec
INVARIANTS ETypeOK WriteIgnoresBus ReachesTrap CleanStart SetupSucceeds
PROPERTIES EveryRunEnds ImplementsInstructionSet ArithmeticIsExact
