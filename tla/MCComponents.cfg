SPECIFICATION Spec
CONSTANTS
  Versions <- AllVersions
  Strings <- ManyStrings
  MaxSorted = 3
  IntBits = 8
  BaseUnits <- SomeUnits
  Exponents <- SomeExponents
  MaxSteps = 3
  Species <- TwoSpecies
  CutoffSq <- CurriedCutoffs
  Phi <- CurriedPhi
  DPhiByR <- CurriedDPhi
  Thread = "t1"
  Configurations <- ThreeParticles
  Requests <- SomeRequests
  Threads = {"t1", "t2"}
  ConfigurationsTogether <- TwoConfigurations
  RequestsTogether <- TwoRequests
  ParameterFiles <- SomeFiles
  LengthFactor = 10
  NewCutoffs = {3, 170}
  MaxSets = 2
  Blocks <- SomeBlocks
  TypeOf <- Types
  SizeOf <- Sizes
  Extents <- WholeBlocks
  Values = {1, 2}
  Paths = {"p", "q"}
  Existing = {"p"}
  IsParameterized = TRUE
  MayFill = FALSE
  MaxCalls = 3
  Linked <- TwoSets
  LinkedBefore <- CppBeforeC
  MaximumLevel = 5
  Texts <- SomeTexts
  Fields <- SomeFields
  TriedIndices = {0, 1, 2, 3, 4}
  MaxLength = 4
  UnsignedModulus = 16
  RowAt <- Tables
  Files <- FilesOfSimulators
  NoFile = "none"
  Contents <- SimulatorFiles
  Directories = {"d1", "d2"}
  NoDirectory = ""
  Objects <- Simulators
  Name = "Sim"
  Specifications <- SomeSpecifications
  StandardMap <- StandardTemplates
  KeyOrder <- KeysInOrder
  AddedKeys = {"a", "b", "d", "A"}
  AddedValues <- SomeValues
\* The components do as much as the bounds allow, and stop.
CHECK_DEADLOCK FALSE
CONSTRAINT Bounds
INVARIANTS
  VersionsAreRight
  UnitsConvert
  ResultsAreOfTheEnergy
  ThreadsStayApart
  ParametersAreRefreshed
  ParametersAreKept
  EnumerationsAgree
  FortranShowsTheSame
  CallsArrive
  ResourcesAreOwned
  LinesAreSubstituted
