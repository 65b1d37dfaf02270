SPECIFICATION Spec
CONSTANTS
  NULL = NULL
  NoParticle = NoParticle
  NoCell = NoCell
  NoModel = NoModel
  NoArguments = NoArguments
  Models = {m1}
  ArgumentsObjects = {c1}
  Threads = {t1}
  ModelNames = {"Lennard-Jones"}
  ArgumentNames = {"numberOfParticles", "partialForces"}
  APIArguments = {"numberOfParticles"}
  CallbackNames = {"GetNeighborList", "ProcessDEDrTerm"}
  APICallbacks = {"GetNeighborList"}
  NumberOfParticles = 1
  MaxNeighborLists = 1
  CutoffArrays <- OneList
  Distances = {1, 2}
  NumberingPairs <- Conversion
  RoutineSets <- EveryRoutine
  ExtensionViews = {"ModelRefresh", "ModelCreate", "ModelComputeArgumentsCreate", "ModelComputeArguments"}
INVARIANTS
  ArgumentsAreComplete
  AcceptedListsAreFresh
\* After an access past the end of the storage a thread takes no step.
CHECK_DEADLOCK FALSE
