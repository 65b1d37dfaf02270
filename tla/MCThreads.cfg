SPECIFICATION Spec
CONSTANTS
  NULL = NULL
  NoParticle = NoParticle
  NoCell = NoCell
  NoModel = NoModel
  NoArguments = NoArguments
  Models = {m1, m2}
  ArgumentsObjects = {c1, c2}
  Threads = {t1, t2}
  ModelNames = {"Lennard-Jones", "Morse"}
  ArgumentNames = {"numberOfParticles"}
  APIArguments = {"numberOfParticles"}
  CallbackNames = {"GetNeighborList"}
  APICallbacks = {"GetNeighborList"}
  NumberOfParticles = 2
  MaxNeighborLists = 2
  CutoffArrays <- OneOrTwoLists
  Distances = {1, 2}
  NumberingPairs <- ThreePairs
  RoutineSets <- Refreshable
  ExtensionViews = {}
SYMMETRY ObjectSymmetry
CONSTRAINT SharedOrMany
CHECK_DEADLOCK FALSE
INVARIANTS
  ListsAreOfTheComputation
  ConvertedListsAreKept
  NumbersRoundTrip
