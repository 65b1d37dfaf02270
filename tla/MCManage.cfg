SPECIFICATION FairSpec
CONSTANTS
  NoPlace = NoPlace
  NoName = NoName
  Names = {"m", "d"}
  Directories <- DirectoryNames
  DirsOf <- DirectoryLists
  Protected = {"all"}
  TypeOf <- ItemTypes
  DriverOf <- Drivers
  Scripts = {s1, s2}
  Commands = {"install", "reinstall", "remove", "remove-all"}
  ByForce = {TRUE, FALSE}
  InitialDisks <- SomeDisks
CONSTRAINT Bounds
INVARIANTS
  InstalledWhereItIsUsed
  ModelsHaveDrivers
  RemovalIsExact
PROPERTY ScriptsEnd
