SPECIFICATION FairSpec
CONSTANTS
  NoFile = NoFile
  NoRequest = NoRequest
  Requests <- TwoSettings
  Processes = {p1, p2}
  Setters = {p1}
  Directories <- DirectoryNames
  Capacity = 1
  Default <- Defaults
  InitialFiles <- CompleteFiles
  InitialDirectories = {"mine", "drivers"}
  MayCrash = FALSE
  MayFail = FALSE
PROPERTIES
  ImplementsAbstractConfiguration
  SetTakesEffect
  TruncatedFileIsWritten
