SPECIFICATION Spec
CONSTANTS
  NULL = NULL
  NoParticle = NoParticle
  NoCell = NoCell
  NoModel = NoModel
  NoArguments = NoArguments
  Models = {m1, m2}
  ArgumentsObjects = {c1}
  Threads = {t1}
  ModelNames = {"Lennard-Jones", "Morse"}
  ArgumentNames = {"numberOfParticles"}
  APIArguments = {"numberOfParticles"}
  CallbackNames = {"GetNeighborList"}
  APICallbacks = {"GetNeighborList"}
  NumberOfParticles = 1
  MaxNeighborLists = 2
  CutoffArrays <- OneOrTwoLists
  Distances = {2}
  NumberingPairs <- ThreePairs
  RoutineSets <- Refreshable
  ExtensionViews = {}
CHECK_DEADLOCK FALSE
INVARIANT
  ListsHaveStorage
