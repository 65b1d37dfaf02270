SPECIFICATION Spec
CONSTANTS
  NoFile = NoFile
  NoRequest = NoRequest
  Requests <- TwoSettings
  Processes = {p1, p2, p3}
  Setters = {}
  Directories <- DirectoryNames
  Capacity = 1
  Default <- Defaults
  InitialFiles <- AnyFiles
  InitialDirectories = {"mine"}
  MayCrash = TRUE
  MayFail = TRUE
INVARIANTS
  WrittenFilesAreSound
  SettingsAreTheUsersChoice
