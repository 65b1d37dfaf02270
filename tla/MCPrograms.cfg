SPECIFICATION Spec
CONSTANTS
  NULL = NULL
  Functions <- AllFunctions
  LanguageOf <- LanguageOfAll
  Scripts <- SomeScripts
  LateCalls <- SomeLateCalls
  Requests <- SomeUnits
  KnownUnits <- Known
  KnownSpecies = {"Ar", "Kr"}
  ArgumentNames = {"coordinates", "forces"}
  APIArguments = {"coordinates"}
  CallbackNames = {"ProcessDEDr"}
  APICallbacks = {}
  SimulatorFunctions = {"f", "g"}
  SimulatorLanguageOf <- LanguageOfSome
  Addresses = {"a"}
  NumberingPairs <- AllPairs
  NumberOfParticles = 2
  Configurations <- SomeConfigurations
  Cutoffs <- SomeCutoffs
  NewCutoffs = {1, 2, 3}
  Phi <- PhiTable
  DPhiByR <- DPhiTable
  D2Phi <- D2PhiTable
  MaxSets = 2
  Models <- SomeModels
  Sizes = {1, 2}
  Spacings <- SomeSpacings
  Cutpad = 1
  MaxFields = 2
  MaxItems = 2
\* Models that are gone are not used again, and programs end.
CHECK_DEADLOCK FALSE
INVARIANTS
  RoutinesAreAsRegistered
  ExamplesAreAccepted
  CallbacksArePassedOn
  ResultsAreOfAllPairs
  NeighborsAreComplete
  RequirementsAreMet
  FailuresAreSeen
