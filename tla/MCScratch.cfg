SPECIFICATION Spec
CONSTANTS
  NoFile = NoFile
  NoDirectory = NoDirectory
  Absent = Absent
  Creations = {c1, c2, c3}
  Directories = {d1, d2, d3}
  Files <- DriverKinds
  Contents <- KindsForDrivers
  HasFilesystemLibrary = FALSE
  RemovalMayFail = TRUE
SYMMETRY CallSymmetry
INVARIANT DirectoriesAreOwned
CHECK_DEADLOCK FALSE
