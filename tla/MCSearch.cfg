SPECIFICATION Spec
CONSTANTS
  NoPlace = NoPlace
  Names = {"m"}
  Directories <- DirectoryNames
  DirsOf <- DirectoryLists
  Operations = {"find", "type", "list", "metadata"}
  InitialDisks <- AnyOfTwoTypes
  Changing <- OfTwoTypes
  MaxLength = 0
  UnsignedModulus = 4
CONSTRAINT Bounds
INVARIANTS
  StableIsFound
  ListsAreRight
