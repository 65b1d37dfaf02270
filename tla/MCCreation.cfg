SPECIFICATION Spec
CONSTANTS
  NoFile = NoFile
  NoDirectory = NoDirectory
  Absent = Absent
  Creations = {c1, c2, c3}
  Directories = {d1, d2, d3}
  Files <- Kinds
  Contents <- OneOfEachKind
  HasFilesystemLibrary = TRUE
  RemovalMayFail = FALSE
SYMMETRY CallSymmetry
CHECK_DEADLOCK FALSE
INVARIANTS
  LibrariesAreOwned
  NothingElseIsLeft
