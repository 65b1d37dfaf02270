------------------------ MODULE ModelCreation_proofs ------------------------
(***************************************************************************)
(* Proofs about ModelCreation, for any number of creations, files and      *)
(* directories and both builds.                                            *)
(*                                                                         *)
(* The invariant says for each stage of a creation which of its objects    *)
(* exist and in which state they are (Shape), and that the dynamic linker  *)
(* counts the handles (HandlesAreCounted).  The properties follow from it, *)
(* those about directories with an invariant of their own.                 *)
(***************************************************************************)
EXTENDS ModelCreation, TLAPS, FiniteSetTheorems

\* An object that is not open and has no directory.
Shut(lib) == lib # Absent /\ lib.handle = NoFile /\ lib.directory = NoDirectory

\* An object open on f, without a directory.
OpenOn(lib, f) ==
  /\ lib # Absent /\ f \in Files /\ lib.handle = f
  /\ lib.directory = NoDirectory

\* The library of a model with a driver, without and with its directory.
Parameterized(lib) ==
  /\ lib # Absent /\ lib.handle \in Files /\ lib.hasDriver

Unwritten(lib) == Parameterized(lib) /\ lib.directory = NoDirectory
Written(lib) == Parameterized(lib) /\ lib.directory \in Directories

UsesOwn(c) ==
  /\ model[c] # Absent
  /\ model[c].sharedLibrary = "own" /\ model[c].numberOfParameterFiles = 0
  /\ library[c]["driver"] = Absent

UsesDriver(c) == model[c] # Absent /\ model[c].sharedLibrary = "driver"

HasFiles(c) ==
  /\ Written(library[c]["own"])
  /\ model[c].parameterFileDirectoryName = library[c]["own"].directory

Nothing(c) ==
  model[c] = Absent /\ library[c]["own"] = Absent /\ library[c]["driver"] = Absent

\* What a creation has at each of its stages.
Shape(c) ==
  /\ stage[c] = "idle" => Nothing(c)
  /\ stage[c] = "finding" => UsesOwn(c) /\ Shut(library[c]["own"])
  /\ stage[c] \in {"choosing", "making"} => UsesOwn(c) /\ Unwritten(library[c]["own"])
  /\ stage[c] = "making" => chosen[c] \in Directories /\ HasFilesystemLibrary
  /\ stage[c] = "writing" => UsesOwn(c) /\ Written(library[c]["own"])
  /\ stage[c] = "findingDriver" =>
       UsesDriver(c) /\ HasFiles(c) /\ Shut(library[c]["driver"])
  /\ stage[c] = "routine" =>
       \/ UsesOwn(c) /\ OpenOn(library[c]["own"], model[c].routines)
       \/ UsesDriver(c) /\ HasFiles(c) /\ OpenOn(library[c]["driver"], model[c].routines)
  /\ stage[c] = "failing" =>
       \/ /\ UsesOwn(c)
          /\ library[c]["own"] # Absent /\ library[c]["own"].directory = NoDirectory
       \/ /\ UsesDriver(c)
          /\ library[c]["driver"] # Absent /\ library[c]["driver"].directory = NoDirectory
          /\ \/ library[c]["own"] = Absent /\ model[c].numberOfParameterFiles = -1
             \/ HasFiles(c)
  /\ stage[c] \in {"created", "destroying", "deleting"} =>
       /\ c \notin collections
       /\ \/ UsesOwn(c) /\ OpenOn(library[c]["own"], model[c].routines)
          \/ /\ UsesDriver(c) /\ OpenOn(library[c]["driver"], model[c].routines)
             /\ library[c]["own"] = Absent /\ model[c].numberOfParameterFiles = -1
  /\ stage[c] = "failed" =>
       /\ model[c] = Absent /\ library[c]["driver"] = Absent
       /\ library[c]["own"] = Absent \/ Written(library[c]["own"])
  /\ stage[c] = "destroyed" => Nothing(c)

\* TypeOK, but that the counts are natural numbers is for HandlesAreCounted.
Types ==
  /\ stage \in [Creations -> Stage]
  /\ chosen \in [Creations -> Directories \cup {NoDirectory}]
  /\ model \in [Creations -> ModelRecord \cup {Absent}]
  /\ library \in [Creations -> [Slot -> Library \cup {Absent}]]
  /\ collections \in SUBSET Creations
  /\ loaded \in [Files -> Int]
  /\ directories \in SUBSET Directories
  /\ allocated \in SUBSET Creations

Shapes == \A c \in Creations : Shape(c)

\* Next, for one creation.
Step(c) ==
  \/ CreateRejected(c)
  \/ CreateBegin(c)
  \/ ItemNotFound(c)
  \/ \E f \in Files : OpenModel(c, f) \/ OpenDriver(c, f)
  \/ \E d \in Directories : MakeTemporaryDirectory(c, d) \/ ChooseDirectoryName(c, d)
  \/ MakeDirectory(c)
  \/ DirectoryNotMade(c)
  \/ WriteParameterFiles(c)
  \/ ParameterFileNotWritten(c)
  \/ RoutineAllocates(c)
  \/ RoutineFails(c)
  \/ RoutineSucceeds(c)
  \/ DestroyBegin(c)
  \/ DestroyRoutineReturns(c)
  \/ DeleteModel(c)

LEMMA Steps == Next <=> \E c \in Creations : Step(c)
  BY DEF Next, Step

(***************************************************************************)
(* What SharedLibrary's operators return.                                  *)
(***************************************************************************)
LEMMA NewLibraryType ==
  NewLibrary \in Library /\ NewLibrary # Absent /\ Shut(NewLibrary)
  <1>1. NewLibrary \in Library
    BY DEF NewLibrary, Library
  <1>2. NewLibrary # Absent
    BY <1>1, AbsentAssumption
  <1> QED BY <1>1, <1>2 DEF Shut, NewLibrary

LEMMA OpenedType ==
  ASSUME NEW lib \in Library, NEW f \in Files
  PROVE  /\ Opened(lib, f) \in Library
         /\ Opened(lib, f) # Absent
         /\ Opened(lib, f).directory = lib.directory
         /\ Loads(lib, f) => Opened(lib, f).handle = f /\ lib.handle = NoFile
         /\ ~Loads(lib, f) => Opened(lib, f).handle = lib.handle
         /\ ~OpenFails(lib, f) => Loads(lib, f)
  <1>1. Opened(lib, f) \in Library
    BY ContentsAssumption DEF Opened, Library, FileContents
  <1>2. Opened(lib, f) # Absent
    BY <1>1, AbsentAssumption
  <1> QED BY <1>1, <1>2 DEF Opened, Library, Loads, OpenFails, IsOpen

LEMMA DirectoryType ==
  ASSUME NEW lib \in Library, NEW d \in Directories \cup {NoDirectory}
  PROVE  /\ WithDirectory(lib, d) \in Library /\ WithDirectory(lib, d) # Absent
         /\ WithDirectory(lib, d).directory = d
         /\ WithDirectory(lib, d).handle = lib.handle
         /\ WithDirectory(lib, d).hasDriver = lib.hasDriver
         /\ WithoutDirectory(lib) \in Library /\ WithoutDirectory(lib) # Absent
         /\ WithoutDirectory(lib).handle = lib.handle
         /\ WithoutDirectory(lib).hasDriver = lib.hasDriver
         /\ IsOpen(lib) => WithoutDirectory(lib).directory = NoDirectory
  <1>1. WithDirectory(lib, d) \in Library /\ WithoutDirectory(lib) \in Library
    BY DEF WithDirectory, WithoutDirectory, Library
  <1> QED BY <1>1, AbsentAssumption DEF WithDirectory, WithoutDirectory, Library

\* The two libraries of a creation and its Model have types.
LEMMA RecordTypes ==
  ASSUME Types, NEW c \in Creations
  PROVE  /\ \A s \in Slot : library[c][s] # Absent => library[c][s] \in Library
         /\ model[c] # Absent => model[c] \in ModelRecord
         /\ NewModel \in ModelRecord
         /\ NewModel # Absent
  <1>1. NewModel \in ModelRecord
    BY DEF NewModel, ModelRecord, Slot
  <1> QED BY <1>1, AbsentAssumption DEF Types

(***************************************************************************)
(* A step of one creation leaves the others as they are.                   *)
(***************************************************************************)
SameCreation(d) ==
  /\ stage'[d] = stage[d]
  /\ chosen'[d] = chosen[d]
  /\ model'[d] = model[d]
  /\ library'[d] = library[d]
  /\ (d \in collections') = (d \in collections)

LEMMA OthersStay ==
  ASSUME Types, NEW c \in Creations, NEW d \in Creations \ {c}, Step(c)
  PROVE  SameCreation(d)
  BY DEF Types, Step, SameCreation, Goes, SetLibrary, CreateRejected, CreateBegin,
         ItemNotFound, OpenModel, OpenDriver, MakeTemporaryDirectory,
         ChooseDirectoryName, MakeDirectory, DirectoryNotMade, WriteParameterFiles,
         ParameterFileNotWritten, RoutineAllocates, RoutineFails, RoutineSucceeds,
         ReleaseModelLibrary, DestroyBegin, DestroyRoutineReturns, DeleteModel

LEMMA ShapeStays ==
  ASSUME NEW d \in Creations, Shape(d), SameCreation(d)
  PROVE  Shape(d)'
  BY DEF Shape, SameCreation, Nothing, UsesOwn, UsesDriver, HasFiles, Written, Unwritten,
         Parameterized, Shut, OpenOn

(***************************************************************************)
(* Every step of a creation keeps types and takes it from one shape to     *)
(* another.                                                                *)
(***************************************************************************)
LEMMA CountCloseType ==
  ASSUME NEW lib, loaded \in [Files -> Int], CountClose(lib)
  PROVE  loaded' \in [Files -> Int]
  <1>1. CASE loaded' = loaded
    BY <1>1
  <1>2. CASE loaded' = [loaded EXCEPT ![lib.handle] = @ - 1]
    <2>1. ASSUME NEW f \in Files
          PROVE  loaded'[f] \in Int
      BY <1>2
    <2> QED BY <1>2, <2>1
  <1> QED BY <1>1, <1>2 DEF CountClose

LEMMA WrittenFiles ==
  ASSUME Types, NEW c \in Creations, Shape(c), WriteParameterFiles(c)
  PROVE  /\ model'[c] \in ModelRecord /\ model'[c] # Absent
         /\ model'[c].parameterFileDirectoryName = library[c]["own"].directory
         /\ model'[c].sharedLibrary = "driver"
  <1> DEFINE r == model[c]
             d == library[c]["own"].directory
             n == library[c]["own"].parameterFiles
  <1>1. r \in ModelRecord /\ library[c]["own"] \in Library
    BY RecordTypes DEF WriteParameterFiles, Shape, Written, Parameterized, UsesOwn, Slot
  <1>2. d \in Directories \cup {NoDirectory} /\ n \in Int
    BY <1>1 DEF Library
  <1>3. model'[c] = [r EXCEPT !.parameterFileDirectoryName = d,
                              !.numberOfParameterFiles = n, !.sharedLibrary = "driver"]
    BY DEF WriteParameterFiles, Types
  <1> HIDE DEF r, d, n
  <1>4. /\ model'[c] \in ModelRecord
        /\ model'[c].parameterFileDirectoryName = d
        /\ model'[c].sharedLibrary = "driver"
    BY <1>1, <1>2, <1>3 DEF ModelRecord, Slot
  <1> QED BY <1>4, AbsentAssumption DEF d

LEMMA TypesStay ==
  ASSUME Types, NEW c \in Creations, Shape(c), Step(c)
  PROVE  Types'
  <1> USE RecordTypes, NewLibraryType DEF Types, Stage, Goes, SetLibrary, Slot
  <1>1. CASE CreateRejected(c) \/ ItemNotFound(c) \/ RoutineAllocates(c)
             \/ RoutineFails(c) \/ DestroyBegin(c) \/ DestroyRoutineReturns(c)
    BY <1>1 DEF CreateRejected, ItemNotFound, RoutineAllocates, RoutineFails,
                DestroyBegin, DestroyRoutineReturns
  <1>2. CASE CreateBegin(c)
    BY <1>2 DEF CreateBegin
  <1>3. ASSUME NEW f \in Files, OpenModel(c, f)
        PROVE  Types'
    <2>1. Opened(library[c]["own"], f) \in Library
      BY <1>3, OpenedType DEF OpenModel, Shape, Shut
    <2>2. model' \in [Creations -> ModelRecord \cup {Absent}]
      BY <1>3 DEF OpenModel, Shape, UsesOwn, ModelRecord
    <2> QED BY <1>3, <2>1, <2>2 DEF OpenModel, CountOpen, AfterOpenModel
  <1>4. ASSUME NEW f \in Files, OpenDriver(c, f)
        PROVE  Types'
    <2>1. Opened(library[c]["driver"], f) \in Library
      BY <1>4, OpenedType DEF OpenDriver, Shape, Shut
    <2>2. model' \in [Creations -> ModelRecord \cup {Absent}]
      BY <1>4 DEF OpenDriver, Shape, UsesDriver, ModelRecord
    <2> QED BY <1>4, <2>1, <2>2 DEF OpenDriver, CountOpen
  <1>5. ASSUME NEW d \in Directories,
               MakeTemporaryDirectory(c, d) \/ ChooseDirectoryName(c, d)
        PROVE  Types'
    <2>1. WithDirectory(library[c]["own"], d) \in Library
      BY <1>5, DirectoryType
      DEF MakeTemporaryDirectory, ChooseDirectoryName, Shape, Unwritten, Parameterized
    <2>2. CASE MakeTemporaryDirectory(c, d)
      BY <2>1, <2>2 DEF MakeTemporaryDirectory
    <2>3. CASE ChooseDirectoryName(c, d)
      BY <2>3 DEF ChooseDirectoryName
    <2> QED BY <1>5, <2>2, <2>3
  <1>6. CASE MakeDirectory(c) \/ DirectoryNotMade(c)
    <2>1. /\ WithDirectory(library[c]["own"], chosen[c]) \in Library
          /\ WithDirectory(library[c]["own"], NoDirectory) \in Library
      BY <1>6, DirectoryType
      DEF MakeDirectory, DirectoryNotMade, Shape, Unwritten, Parameterized
    <2>2. CASE MakeDirectory(c)
      BY <2>1, <2>2 DEF MakeDirectory, Shape
    <2>3. CASE DirectoryNotMade(c)
      BY <2>1, <2>3 DEF DirectoryNotMade
    <2> QED BY <1>6, <2>2, <2>3
  <1>7. CASE WriteParameterFiles(c)
    <2>2. model'[c] \in ModelRecord
      BY <1>7, WrittenFiles
    <2>3. model' \in [Creations -> ModelRecord \cup {Absent}]
      BY <1>7, <2>2 DEF WriteParameterFiles
    <2> QED BY <1>7, <2>3 DEF WriteParameterFiles
  <1>8. CASE ParameterFileNotWritten(c)
    <2>1. WithoutDirectory(library[c]["own"]) \in Library
      BY <1>8, DirectoryType DEF ParameterFileNotWritten, Shape, Written, Parameterized
    <2> QED BY <1>8, <2>1 DEF ParameterFileNotWritten, RemoveDirectoryOf
  <1>9. CASE RoutineSucceeds(c)
    <2>1. CASE model[c].sharedLibrary = "driver"
      <3>1. model[c] \in ModelRecord
        BY <1>9 DEF RoutineSucceeds, Shape, UsesOwn, UsesDriver
      <3>2. model' \in [Creations -> ModelRecord \cup {Absent}]
        BY <1>9, <2>1, <3>1 DEF RoutineSucceeds, ReleaseModelLibrary, ModelRecord
      <3>3. loaded' \in [Files -> Int]
        BY <1>9, <2>1 DEF RoutineSucceeds, ReleaseModelLibrary, CountClose
      <3> QED BY <1>9, <2>1, <3>2, <3>3
              DEF RoutineSucceeds, ReleaseModelLibrary, RemoveDirectoryOf
    <2>2. CASE model[c].sharedLibrary # "driver"
      BY <1>9, <2>2 DEF RoutineSucceeds, ReleaseModelLibrary
    <2> QED BY <2>1, <2>2
  <1>10. CASE DeleteModel(c)
    <2>1. model[c].sharedLibrary \in Slot
      BY <1>10 DEF DeleteModel, Shape, UsesOwn, UsesDriver
    <2>2. directories' \in SUBSET Directories
      BY <1>10 DEF DeleteModel, RemoveDirectoryOf
    <2>4. loaded' \in [Files -> Int]
      BY <1>10, CountCloseType DEF DeleteModel
    <2>3. library' \in [Creations -> [Slot -> Library \cup {Absent}]]
      BY <1>10, <2>1 DEF DeleteModel
    <2> QED BY <1>10, <2>2, <2>3, <2>4 DEF DeleteModel
  <1> QED BY <1>1, <1>2, <1>3, <1>4, <1>5, <1>6, <1>7, <1>8, <1>9, <1>10 DEF Step

LEMMA WrittenIntoDirectory ==
  ASSUME NEW lib \in Library, NEW d \in Directories, Unwritten(lib)
  PROVE  Written(WithDirectory(lib, d))
  <1>1. d \in Directories \cup {NoDirectory}
    OBVIOUS
  <1>2. /\ WithDirectory(lib, d) # Absent
        /\ WithDirectory(lib, d).directory = d
        /\ WithDirectory(lib, d).handle = lib.handle
        /\ WithDirectory(lib, d).hasDriver = lib.hasDriver
    BY <1>1, DirectoryType
  <1> QED BY <1>2 DEF Unwritten, Written, Parameterized

LEMMA WrittenNowhere ==
  ASSUME NEW lib \in Library
  PROVE  /\ WithDirectory(lib, NoDirectory) # Absent
         /\ WithDirectory(lib, NoDirectory).directory = NoDirectory
  <1>1. NoDirectory \in Directories \cup {NoDirectory}
    OBVIOUS
  <1> QED BY <1>1, DirectoryType

LEMMA ShapeStep ==
  ASSUME Types, NEW c \in Creations, Shape(c), Step(c)
  PROVE  Shape(c)'
  <1> USE RecordTypes, NewLibraryType
      DEF Types, Slot, Goes, SetLibrary, Nothing, UsesOwn, UsesDriver, HasFiles
  <1>1. CASE CreateRejected(c) \/ ItemNotFound(c) \/ RoutineAllocates(c)
             \/ RoutineFails(c) \/ DestroyBegin(c) \/ DestroyRoutineReturns(c)
    BY <1>1 DEF CreateRejected, ItemNotFound, RoutineAllocates, RoutineFails,
                DestroyBegin, DestroyRoutineReturns, Shape, Shut, Written, OpenOn
  <1>2. CASE CreateBegin(c)
    BY <1>2 DEF CreateBegin, Shape, NewModel
  <1>3. ASSUME NEW f \in Files, OpenModel(c, f)
        PROVE  Shape(c)'
    <2> DEFINE old == library[c]["own"]
               new == Opened(old, f)
    <2>1. old \in Library /\ Shut(old) /\ UsesOwn(c)
      BY <1>3 DEF OpenModel, Shape, Shut
    <2>2. /\ library'[c]["own"] = new /\ library'[c]["driver"] = Absent
          /\ new \in Library /\ new # Absent /\ new.directory = NoDirectory
      BY <1>3, <2>1, OpenedType DEF OpenModel, Shut
    <2>3. model[c] \in ModelRecord
      BY <2>1
    <2>4. /\ model'[c] # Absent /\ model'[c].sharedLibrary = "own"
          /\ model'[c].numberOfParameterFiles = 0
          /\ stage'[c] = "routine" => model'[c].routines = f
      BY <1>3, <2>1, <2>3, AbsentAssumption DEF OpenModel, ModelRecord
    <2>5. CASE stage'[c] = "failing"
      BY <2>2, <2>4, <2>5 DEF Shape
    <2>6. CASE stage'[c] # "failing"
      <3>1. ~OpenFails(old, f) /\ new.handle = f
        BY <1>3, <2>1, <2>6, OpenedType DEF OpenModel
      <3>2. \/ stage'[c] = "choosing" /\ new.hasDriver
            \/ stage'[c] = "routine"
        BY <1>3, <2>6, <3>1 DEF OpenModel, AfterOpenModel
      <3>3. new.hasDriver => Unwritten(new)
        BY <2>2, <3>1 DEF Unwritten, Parameterized, Library
      <3> QED BY <2>2, <2>4, <3>1, <3>2, <3>3 DEF Shape, OpenOn, Unwritten, Parameterized
    <2> QED BY <2>5, <2>6
  <1>4. ASSUME NEW f \in Files, OpenDriver(c, f)
        PROVE  Shape(c)'
    <2> DEFINE old == library[c]["driver"]
               new == Opened(old, f)
    <2>1. old \in Library /\ Shut(old) /\ UsesDriver(c) /\ HasFiles(c)
      BY <1>4 DEF OpenDriver, Shape, Shut
    <2>2. /\ library'[c]["driver"] = new /\ library'[c]["own"] = library[c]["own"]
          /\ new \in Library /\ new # Absent /\ new.directory = NoDirectory
      BY <1>4, <2>1, OpenedType DEF OpenDriver, Shut
    <2>3. model[c] \in ModelRecord
      BY <2>1
    <2>4. /\ model'[c] # Absent /\ model'[c].sharedLibrary = "driver"
          /\ model'[c].parameterFileDirectoryName = model[c].parameterFileDirectoryName
          /\ stage'[c] = "routine" => model'[c].routines = f
      BY <1>4, <2>1, <2>3, AbsentAssumption DEF OpenDriver, ModelRecord
    <2>5. CASE stage'[c] = "failing"
      BY <2>1, <2>2, <2>4, <2>5 DEF Shape, Written, Parameterized
    <2>6. CASE stage'[c] # "failing"
      <3>1. new.handle = f /\ stage'[c] = "routine"
        BY <1>4, <2>1, <2>6, OpenedType DEF OpenDriver
      <3> QED BY <2>1, <2>2, <2>4, <3>1 DEF Shape, OpenOn, Written, Parameterized
    <2> QED BY <2>5, <2>6
  <1>5. ASSUME NEW d \in Directories, MakeTemporaryDirectory(c, d)
        PROVE  Shape(c)'
    <2>1. library[c]["own"] \in Library
      BY <1>5 DEF MakeTemporaryDirectory, Shape, Unwritten, Parameterized
    <2>2. library'[c]["own"] = WithDirectory(library[c]["own"], d)
      BY <1>5 DEF MakeTemporaryDirectory
    <2>3. Written(library'[c]["own"])
      BY <1>5, <2>1, <2>2, WrittenIntoDirectory DEF MakeTemporaryDirectory, Shape
    <2> QED BY <1>5, <2>3 DEF MakeTemporaryDirectory, Shape
  <1>6. ASSUME NEW d \in Directories, ChooseDirectoryName(c, d)
        PROVE  Shape(c)'
    BY <1>6 DEF ChooseDirectoryName, Shape, Unwritten, Parameterized
  <1>7. CASE MakeDirectory(c) \/ DirectoryNotMade(c)
    <2>1. library[c]["own"] \in Library
      BY <1>7 DEF MakeDirectory, DirectoryNotMade, Shape, Unwritten, Parameterized
    <2>2. CASE MakeDirectory(c)
      <3>1. library'[c]["own"] = WithDirectory(library[c]["own"], chosen[c])
        BY <2>2 DEF MakeDirectory
      <3>2. Written(library'[c]["own"])
        BY <2>1, <2>2, <3>1, WrittenIntoDirectory DEF MakeDirectory, Shape
      <3> QED BY <2>2, <3>2 DEF MakeDirectory, Shape
    <2>3. CASE DirectoryNotMade(c)
      <3>1. /\ library'[c]["own"] = WithDirectory(library[c]["own"], NoDirectory)
            /\ library'[c]["driver"] = library[c]["driver"]
        BY <2>3 DEF DirectoryNotMade
      <3>2. library'[c]["own"] # Absent /\ library'[c]["own"].directory = NoDirectory
        BY <2>1, <3>1, WrittenNowhere
      <3> QED BY <2>3, <3>1, <3>2 DEF DirectoryNotMade, Shape
    <2> QED BY <1>7, <2>2, <2>3
  <1>8. CASE WriteParameterFiles(c)
    <2>2. /\ model'[c] # Absent /\ model'[c].sharedLibrary = "driver"
          /\ model'[c].parameterFileDirectoryName = library[c]["own"].directory
      BY <1>8, WrittenFiles
    <2> QED BY <1>8, <2>2 DEF WriteParameterFiles, Shape, Written, Parameterized
  <1>9. CASE ParameterFileNotWritten(c)
    <2>1. library[c]["own"] \in Library /\ IsOpen(library[c]["own"])
      BY <1>9, SentinelAssumption
      DEF ParameterFileNotWritten, Shape, Written, Parameterized, IsOpen
    <2>2. WithoutDirectory(library[c]["own"]) # Absent
      BY <2>1, DirectoryType
    <2>3. WithoutDirectory(library[c]["own"]).directory = NoDirectory
      BY <2>1 DEF WithoutDirectory, Library
    <2> QED BY <1>9, <2>2, <2>3 DEF ParameterFileNotWritten, Shape
  <1>10. CASE RoutineSucceeds(c)
    <2>1. CASE model[c].sharedLibrary = "driver"
      <3>1. model[c] \in ModelRecord
        BY <1>10 DEF RoutineSucceeds, Shape
      <3>2. /\ model'[c] # Absent /\ model'[c].sharedLibrary = "driver"
            /\ model'[c].routines = model[c].routines
            /\ model'[c].numberOfParameterFiles = -1
        BY <1>10, <2>1, <3>1, AbsentAssumption
        DEF RoutineSucceeds, ReleaseModelLibrary, ModelRecord
      <3> QED BY <1>10, <2>1, <3>2 DEF RoutineSucceeds, ReleaseModelLibrary, Shape, OpenOn
    <2>2. CASE model[c].sharedLibrary # "driver"
      BY <1>10, <2>2 DEF RoutineSucceeds, ReleaseModelLibrary, Shape, OpenOn
    <2> QED BY <2>1, <2>2
  <1>11. CASE DeleteModel(c)
    BY <1>11 DEF DeleteModel, Shape, Written, Parameterized
  <1> QED BY <1>1, <1>2, <1>3, <1>4, <1>5, <1>6, <1>7, <1>8, <1>9, <1>10, <1>11 DEF Step

(***************************************************************************)
(* What a step does to the handles and directories of the objects: it      *)
(* changes one object at most, and counts and directories with it.         *)
(***************************************************************************)
HandleIn(lib) == IF lib = Absent THEN NoFile ELSE lib.handle
DirectoryIn(lib) == IF lib = Absent THEN NoDirectory ELSE lib.directory
HandleOf(o) == HandleIn(Lib(o))
DirectoryOf(o) == DirectoryIn(Lib(o))

HandleEffect(o) ==
  \/ HandleOf(o)' = HandleOf(o) /\ loaded' = loaded
  \/ /\ HandleOf(o) = NoFile
     /\ \E f \in Files : HandleOf(o)' = f /\ loaded' = [loaded EXCEPT ![f] = @ + 1]
  \/ /\ HandleOf(o) \in Files /\ HandleOf(o)' = NoFile
     /\ loaded' = [loaded EXCEPT ![HandleOf(o)] = @ - 1]

DirectoryEffect(o) ==
  \/ DirectoryOf(o)' = DirectoryOf(o) /\ directories' = directories
  \/ /\ DirectoryOf(o) = NoDirectory
     /\ \E d \in Directories :
          /\ DirectoryOf(o)' = d /\ directories' = directories \cup {d}
          /\ HasFilesystemLibrary \/ d \notin directories
  \/ /\ DirectoryOf(o) \in Directories /\ DirectoryOf(o)' = NoDirectory
     /\ \/ directories' = directories \ {DirectoryOf(o)}
        \/ RemovalMayFail /\ directories' = directories

Effect(o) ==
  /\ \A q \in Objects \ {o} :
       HandleOf(q)' = HandleOf(q) /\ DirectoryOf(q)' = DirectoryOf(q)
  /\ HandleEffect(o)
  /\ DirectoryEffect(o)

LEMMA ObjectParts ==
  ASSUME NEW c \in Creations, NEW s \in Slot
  PROVE  /\ <<c, s>> \in Objects
         /\ Lib(<<c, s>>) = library[c][s] /\ Lib(<<c, s>>)' = library'[c][s]
  BY DEF Objects, Lib

\* Only the object of c in slot s may change.
LEMMA OthersUntouched ==
  ASSUME Types, NEW c \in Creations, NEW s \in Slot,
         \/ library' = library
         \/ \E lib : library' = [library EXCEPT ![c][s] = lib]
  PROVE  \A q \in Objects \ {<<c, s>>} :
           HandleOf(q)' = HandleOf(q) /\ DirectoryOf(q)' = DirectoryOf(q)
  <1>1. ASSUME NEW q \in Objects \ {<<c, s>>}
        PROVE  Lib(q)' = Lib(q)
    BY <1>1 DEF Objects, Lib, Types
  <1> QED BY <1>1 DEF HandleOf, DirectoryOf

\* The object that changes, and how.
LEMMA SlotEffect ==
  ASSUME Types, NEW c \in Creations, NEW s \in Slot,
         NEW lib, library' = [library EXCEPT ![c][s] = lib]
  PROVE  /\ HandleOf(<<c, s>>) = HandleIn(library[c][s])
         /\ HandleOf(<<c, s>>)' = HandleIn(lib)
         /\ DirectoryOf(<<c, s>>) = DirectoryIn(library[c][s])
         /\ DirectoryOf(<<c, s>>)' = DirectoryIn(lib)
  BY DEF HandleOf, DirectoryOf, Lib, Types

LEMMA NoEffect ==
  ASSUME Types, NEW c \in Creations, UNCHANGED <<library, loaded, directories>>
  PROVE  Effect(<<c, "own">>)
  BY DEF Effect, HandleEffect, DirectoryEffect, HandleOf, DirectoryOf, Lib

\* Open: the handle is set if the file loads, and then it is counted.
LEMMA OpenEffect ==
  ASSUME Types, NEW c \in Creations, NEW s \in Slot, NEW f \in Files,
         library[c][s] \in Library, library[c][s] # Absent,
         SetLibrary(c, s, Opened(library[c][s], f)), CountOpen(library[c][s], f),
         UNCHANGED directories
  PROVE  Effect(<<c, s>>)
  <1> DEFINE old == library[c][s]
             new == Opened(old, f)
  <1>1. /\ HandleOf(<<c, s>>) = old.handle /\ HandleOf(<<c, s>>)' = new.handle
        /\ DirectoryOf(<<c, s>>) = old.directory /\ DirectoryOf(<<c, s>>)' = new.directory
    <2>1. library'[c][s] = new
      BY DEF SetLibrary, Types
    <2>2. new # Absent
      BY OpenedType
    <2> HIDE DEF new
    <2> QED BY <2>1, <2>2, ObjectParts DEF HandleOf, DirectoryOf, HandleIn, DirectoryIn
  <1>2. HandleEffect(<<c, s>>)
    BY <1>1, OpenedType DEF HandleEffect, CountOpen
  <1>3. DirectoryEffect(<<c, s>>)
    BY <1>1, OpenedType DEF DirectoryEffect
  <1> QED BY <1>2, <1>3, OthersUntouched DEF Effect, SetLibrary

\* WriteParameterFileDirectory: a directory is made, or an object stays
\* without one.
LEMMA DirectoryMadeEffect ==
  ASSUME Types, NEW c \in Creations, NEW s \in Slot, NEW d \in Directories,
         library[c][s] \in Library, library[c][s] # Absent,
         library[c][s].directory = NoDirectory,
         HasFilesystemLibrary \/ d \notin directories,
         SetLibrary(c, s, WithDirectory(library[c][s], d)),
         UNCHANGED loaded, directories' = directories \cup {d}
  PROVE  Effect(<<c, s>>)
  <1> DEFINE old == library[c][s]
             new == WithDirectory(old, d)
  <1>1. new # Absent /\ new.handle = old.handle /\ new.directory = d
    BY DirectoryType
  <1>2. /\ HandleOf(<<c, s>>) = old.handle /\ HandleOf(<<c, s>>)' = new.handle
        /\ DirectoryOf(<<c, s>>) = old.directory /\ DirectoryOf(<<c, s>>)' = new.directory
    <2>1. library'[c][s] = new
      BY DEF SetLibrary, Types
    <2> HIDE DEF new
    <2> QED BY <1>1, <2>1, ObjectParts DEF HandleOf, DirectoryOf, HandleIn, DirectoryIn
  <1>3. HandleEffect(<<c, s>>)
    BY <1>1, <1>2 DEF HandleEffect
  <1>4. DirectoryEffect(<<c, s>>)
    BY <1>1, <1>2 DEF DirectoryEffect
  <1> QED BY <1>3, <1>4, OthersUntouched DEF Effect, SetLibrary

\* An object is replaced by one with the same handle and directory.
LEMMA SameEffect ==
  ASSUME Types, NEW c \in Creations, NEW s \in Slot, NEW lib,
         HandleIn(lib) = HandleIn(library[c][s]),
         DirectoryIn(lib) = DirectoryIn(library[c][s]),
         SetLibrary(c, s, lib), UNCHANGED <<loaded, directories>>
  PROVE  Effect(<<c, s>>)
  <1>1. HandleEffect(<<c, s>>) /\ DirectoryEffect(<<c, s>>)
    BY SlotEffect DEF SetLibrary, HandleEffect, DirectoryEffect
  <1> QED BY <1>1, OthersUntouched DEF Effect, SetLibrary

\* RemoveParameterFileDirectory
LEMMA DirectoryRemovedEffect ==
  ASSUME Types, NEW c \in Creations, NEW s \in Slot,
         library[c][s] \in Library, library[c][s] # Absent, IsOpen(library[c][s]),
         library[c][s].directory \in Directories,
         SetLibrary(c, s, WithoutDirectory(library[c][s])),
         RemoveDirectoryOf(library[c][s]), UNCHANGED loaded
  PROVE  Effect(<<c, s>>)
  <1> DEFINE old == library[c][s]
             new == WithoutDirectory(old)
  <1>1. new # Absent /\ new.handle = old.handle /\ new.directory = NoDirectory
    BY DirectoryType
  <1>2. /\ HandleOf(<<c, s>>) = old.handle /\ HandleOf(<<c, s>>)' = new.handle
        /\ DirectoryOf(<<c, s>>) = old.directory /\ DirectoryOf(<<c, s>>)' = new.directory
    <2>1. library'[c][s] = new
      BY DEF SetLibrary, Types
    <2> HIDE DEF new
    <2> QED BY <1>1, <2>1, ObjectParts DEF HandleOf, DirectoryOf, HandleIn, DirectoryIn
  <1>3. HandleEffect(<<c, s>>)
    BY <1>1, <1>2 DEF HandleEffect
  <1>4. DirectoryEffect(<<c, s>>)
    BY <1>1, <1>2 DEF DirectoryEffect, RemoveDirectoryOf
  <1> QED BY <1>3, <1>4, OthersUntouched DEF Effect, SetLibrary

\* Close, and the object is deleted.
LEMMA DeletedEffect ==
  ASSUME Types, NEW c \in Creations, NEW s \in Slot, NEW lib,
         library[c][s] \in Library, library[c][s] # Absent,
         library[c][s].directory = NoDirectory \/ IsOpen(library[c][s]),
         lib.handle = library[c][s].handle,
         SetLibrary(c, s, Absent), CountClose(lib), RemoveDirectoryOf(library[c][s])
  PROVE  Effect(<<c, s>>)
  <1> DEFINE old == library[c][s]
  <1>1. /\ HandleOf(<<c, s>>) = old.handle /\ HandleOf(<<c, s>>)' = NoFile
        /\ DirectoryOf(<<c, s>>) = old.directory /\ DirectoryOf(<<c, s>>)' = NoDirectory
    BY SlotEffect DEF SetLibrary, HandleIn, DirectoryIn
  <1>2. old.handle \in Files \cup {NoFile} /\ old.directory \in Directories \cup {NoDirectory}
    BY DEF Library
  <1>3. HandleEffect(<<c, s>>)
    BY <1>1, <1>2 DEF HandleEffect, CountClose, IsOpen
  <1>4. CASE old.directory = NoDirectory
    <2>1. directories' = directories
      BY <1>4, SentinelAssumption DEF RemoveDirectoryOf, Types
    <2> QED BY <1>1, <1>3, <1>4, <2>1, OthersUntouched DEF Effect, DirectoryEffect, SetLibrary
  <1>5. CASE old.directory # NoDirectory
    <2>1. DirectoryEffect(<<c, s>>)
      BY <1>1, <1>2, <1>5 DEF DirectoryEffect, RemoveDirectoryOf
    <2> QED BY <1>3, <2>1, OthersUntouched DEF Effect, SetLibrary
  <1> QED BY <1>4, <1>5

LEMMA StepEffect ==
  ASSUME Types, NEW c \in Creations, Shape(c), Step(c)
  PROVE  \E s \in Slot : Effect(<<c, s>>)
  <1>a. "own" \in Slot /\ "driver" \in Slot
    BY DEF Slot
  <1>b. \A s \in Slot : library[c][s] # Absent => library[c][s] \in Library
    BY RecordTypes
  <1> DEFINE own == library[c]["own"]
             drv == library[c]["driver"]
  <1>1. CASE UNCHANGED <<library, loaded, directories>>
    BY <1>1, <1>a, NoEffect
  <1>2. CASE CreateBegin(c)
    <2>1. HandleIn(own) = NoFile /\ DirectoryIn(own) = NoDirectory
      BY <1>2 DEF CreateBegin, Shape, Nothing, HandleIn, DirectoryIn
    <2>2. HandleIn(NewLibrary) = NoFile /\ DirectoryIn(NewLibrary) = NoDirectory
      BY NewLibraryType DEF HandleIn, DirectoryIn, Shut
    <2> QED BY <1>2, <1>a, <2>1, <2>2, SameEffect DEF CreateBegin
  <1>3. ASSUME NEW f \in Files, OpenModel(c, f)
        PROVE  Effect(<<c, "own">>)
    <2>1. own # Absent
      BY <1>3 DEF OpenModel, Shape, Shut
    <2> QED BY <1>3, <1>a, <1>b, <2>1, OpenEffect DEF OpenModel
  <1>4. ASSUME NEW f \in Files, OpenDriver(c, f)
        PROVE  Effect(<<c, "driver">>)
    <2>1. drv # Absent
      BY <1>4 DEF OpenDriver, Shape, Shut
    <2> QED BY <1>4, <1>a, <1>b, <2>1, OpenEffect DEF OpenDriver
  <1>5. ASSUME NEW d \in Directories, MakeTemporaryDirectory(c, d)
        PROVE  Effect(<<c, "own">>)
    <2>1. own # Absent /\ own.directory = NoDirectory
      BY <1>5 DEF MakeTemporaryDirectory, Shape, Unwritten, Parameterized
    <2> QED BY <1>5, <1>a, <1>b, <2>1, DirectoryMadeEffect DEF MakeTemporaryDirectory
  <1>6. CASE MakeDirectory(c)
    <2>1. /\ own # Absent /\ own.directory = NoDirectory
          /\ chosen[c] \in Directories
      BY <1>6 DEF MakeDirectory, Shape, Unwritten, Parameterized
    <2>2. HasFilesystemLibrary
      BY <1>6 DEF MakeDirectory, Shape
    <2> QED BY <1>6, <1>a, <1>b, <2>1, <2>2, DirectoryMadeEffect DEF MakeDirectory
  <1>7. CASE DirectoryNotMade(c)
    <2>1. own # Absent /\ own.directory = NoDirectory
      BY <1>7 DEF DirectoryNotMade, Shape, Unwritten, Parameterized
    <2>2. NoDirectory \in Directories \cup {NoDirectory}
      OBVIOUS
    <2>3. LET new == WithDirectory(own, NoDirectory)
          IN  HandleIn(new) = HandleIn(own) /\ DirectoryIn(new) = DirectoryIn(own)
      BY <1>a, <1>b, <2>1, <2>2, DirectoryType DEF HandleIn, DirectoryIn
    <2> QED BY <1>7, <1>a, <2>3, SameEffect DEF DirectoryNotMade
  <1>8. CASE WriteParameterFiles(c)
    <2>1. HandleIn(drv) = NoFile /\ DirectoryIn(drv) = NoDirectory
      BY <1>8 DEF WriteParameterFiles, Shape, UsesOwn, HandleIn, DirectoryIn
    <2>2. HandleIn(NewLibrary) = NoFile /\ DirectoryIn(NewLibrary) = NoDirectory
      BY NewLibraryType DEF HandleIn, DirectoryIn, Shut
    <2> QED BY <1>8, <1>a, <2>1, <2>2, SameEffect DEF WriteParameterFiles
  <1>9. CASE ParameterFileNotWritten(c)
    <2>1. own # Absent /\ IsOpen(own) /\ own.directory \in Directories
      BY <1>9, SentinelAssumption
      DEF ParameterFileNotWritten, Shape, Written, Parameterized, IsOpen
    <2> QED BY <1>9, <1>a, <1>b, <2>1, DirectoryRemovedEffect DEF ParameterFileNotWritten
  <1>10. CASE RoutineSucceeds(c) /\ model[c].sharedLibrary = "driver"
    <2>1. own # Absent /\ IsOpen(own)
      BY <1>10, SentinelAssumption
      DEF RoutineSucceeds, Shape, UsesOwn, HasFiles, Written, Parameterized, IsOpen
    <2>2. WithoutDirectory(own).handle = own.handle
      BY DEF WithoutDirectory
    <2>3. Effect(<<c, "own">>)
      BY <1>10, <1>a, <1>b, <2>1, <2>2, DeletedEffect DEF RoutineSucceeds, ReleaseModelLibrary
    <2> QED BY <1>a, <2>3
  <1>11. CASE DeleteModel(c)
    <2> DEFINE s == model[c].sharedLibrary
    <2>1. s \in Slot /\ library[c][s] # Absent /\ library[c][s].directory = NoDirectory
      BY <1>11, <1>a DEF DeleteModel, Shape, UsesOwn, UsesDriver, OpenOn
    <2>2. Effect(<<c, s>>)
      BY <1>11, <1>b, <2>1, DeletedEffect DEF DeleteModel
    <2> QED BY <2>1, <2>2
  <1>12. CASE RoutineSucceeds(c) /\ model[c].sharedLibrary # "driver"
    BY <1>1, <1>12 DEF RoutineSucceeds, ReleaseModelLibrary
  <1>13. CASE \/ CreateRejected(c) \/ ItemNotFound(c) \/ RoutineAllocates(c)
              \/ RoutineFails(c) \/ DestroyBegin(c) \/ DestroyRoutineReturns(c)
              \/ \E d \in Directories : ChooseDirectoryName(c, d)
    BY <1>1, <1>13 DEF CreateRejected, ItemNotFound, RoutineAllocates, RoutineFails,
                       DestroyBegin, DestroyRoutineReturns, ChooseDirectoryName
  <1> QED BY <1>a, <1>2, <1>3, <1>4, <1>5, <1>6, <1>7, <1>8, <1>9, <1>10, <1>11, <1>12,
             <1>13 DEF Step

(***************************************************************************)
(* Handles are counted.                                                    *)
(***************************************************************************)
LEMMA HoldersFinite ==
  ASSUME NEW f \in Files
  PROVE  /\ Holders(f) = {o \in Objects : HandleOf(o) = f}
         /\ Holders(f)' = {o \in Objects : HandleOf(o)' = f}
         /\ IsFiniteSet(Holders(f)) /\ Cardinality(Holders(f)) \in Nat
         /\ IsFiniteSet(Holders(f)') /\ Cardinality(Holders(f)') \in Nat
  <1>1. IsFiniteSet(Slot)
    <2>1. Slot = ({} \cup {"own"}) \cup {"driver"}
      BY DEF Slot
    <2> QED BY <2>1, FS_EmptySet, FS_AddElement
  <1>2. IsFiniteSet(Objects)
    BY <1>1, CreationsAssumption, FS_Product DEF Objects
  <1>3. IsFiniteSet(Holders(f)) /\ IsFiniteSet(Holders(f)')
    BY <1>2, FS_Subset DEF Holders
  <1>4. Holders(f) = {o \in Objects : HandleOf(o) = f}
    BY SentinelAssumption DEF Holders, HandleOf, HandleIn, Exists
  <1>5. Holders(f)' = {o \in Objects : HandleOf(o)' = f}
    BY SentinelAssumption DEF Holders, HandleOf, HandleIn, Exists
  <1> QED BY <1>3, <1>4, <1>5, FS_CardinalityType

\* Each of the three ways in which a step may change a handle changes the count
\* with it.
LEMMA CountsStay ==
  ASSUME Types, HandlesAreCounted, NEW o \in Objects, Effect(o)
  PROVE  HandlesAreCounted'
  <1> SUFFICES ASSUME NEW f \in Files
               PROVE  loaded'[f] = Cardinality(Holders(f)')
    BY DEF HandlesAreCounted, Holders, Exists, Lib
  <1>1. /\ loaded[f] = Cardinality(Holders(f))
        /\ loaded \in [Files -> Int]
    BY DEF HandlesAreCounted, Types
  <1>2. \A q \in Objects \ {o} : HandleOf(q)' = HandleOf(q)
    BY DEF Effect
  <1>3. CASE HandleOf(o)' = HandleOf(o) /\ loaded' = loaded
    <2>1. Holders(f)' = Holders(f)
      BY <1>2, <1>3, HoldersFinite
    <2> QED BY <1>1, <1>3, <2>1
  <1>4. ASSUME NEW g \in Files, HandleOf(o) = NoFile, HandleOf(o)' = g,
               loaded' = [loaded EXCEPT ![g] = @ + 1]
        PROVE  loaded'[f] = Cardinality(Holders(f)')
    <2>1. CASE f = g
      <3>1. Holders(f)' = Holders(f) \cup {o} /\ o \notin Holders(f)
        BY <1>2, <1>4, <2>1, HoldersFinite, SentinelAssumption
      <3>2. Cardinality(Holders(f)') = Cardinality(Holders(f)) + 1
        BY <3>1, HoldersFinite, FS_AddElement
      <3> QED BY <1>1, <1>4, <2>1, <3>2
    <2>2. CASE f # g
      <3>1. \A q \in Objects : HandleOf(q)' = f <=> HandleOf(q) = f
        BY <1>2, <1>4, <2>2, SentinelAssumption
      <3>2. Holders(f)' = Holders(f)
        BY <3>1, HoldersFinite
      <3> QED BY <1>1, <1>4, <2>2, <3>2
    <2> QED BY <2>1, <2>2
  <1>5. ASSUME HandleOf(o) \in Files, HandleOf(o)' = NoFile,
               loaded' = [loaded EXCEPT ![HandleOf(o)] = @ - 1]
        PROVE  loaded'[f] = Cardinality(Holders(f)')
    <2>1. CASE f = HandleOf(o)
      <3>1. Holders(f)' = Holders(f) \ {o} /\ o \in Holders(f)
        BY <1>2, <1>5, <2>1, HoldersFinite, SentinelAssumption
      <3>2. Cardinality(Holders(f)') = Cardinality(Holders(f)) - 1
        BY <3>1, HoldersFinite, FS_RemoveElement
      <3> QED BY <1>1, <1>5, <2>1, <3>2
    <2>2. CASE f # HandleOf(o)
      <3>1. Holders(f)' = Holders(f)
        BY <1>2, <1>5, <2>2, HoldersFinite, SentinelAssumption
      <3> QED BY <1>1, <1>5, <2>2, <3>1
    <2> QED BY <2>1, <2>2
  <1> QED BY <1>3, <1>4, <1>5 DEF Effect, HandleEffect

(***************************************************************************)
(* The invariant.                                                          *)
(***************************************************************************)
CreationInv == Types /\ Shapes /\ HandlesAreCounted

LEMMA InitCreation ==
  ASSUME Init
  PROVE  CreationInv
  <1>1. Types
    BY DEF Init, Types, Stage
  <1>2. Shapes
    BY DEF Init, Shapes, Shape, Nothing, Slot
  <1>3. ASSUME NEW f \in Files
        PROVE  Cardinality(Holders(f)) = 0
    <2>1. Holders(f) = {}
      BY DEF Init, Holders, Objects, Exists, Lib
    <2> QED BY <2>1, FS_EmptySet
  <1>4. HandlesAreCounted
    BY <1>3 DEF Init, HandlesAreCounted
  <1> QED BY <1>1, <1>2, <1>4 DEF CreationInv

LEMMA NextCreation ==
  ASSUME CreationInv, [Next]_vars
  PROVE  CreationInv'
  <1>1. CASE UNCHANGED vars
    <2>1. Types' /\ Shapes'
      BY <1>1 DEF CreationInv, vars, Types, Shapes, Shape, Nothing, UsesOwn, UsesDriver,
                  HasFiles, Written, Unwritten, Parameterized, Shut, OpenOn
    <2>2. HandlesAreCounted'
      BY <1>1 DEF CreationInv, vars, HandlesAreCounted, Holders, Exists, Lib
    <2> QED BY <2>1, <2>2 DEF CreationInv
  <1>2. ASSUME NEW c \in Creations, Step(c)
        PROVE  CreationInv'
    <2>1. Types'
      BY <1>2, TypesStay DEF CreationInv, Shapes
    <2>2. ASSUME NEW d \in Creations
          PROVE  Shape(d)'
      <3>1. CASE d = c
        BY <1>2, <3>1, ShapeStep DEF CreationInv, Shapes
      <3>2. CASE d # c
        BY <1>2, <3>2, OthersStay, ShapeStays DEF CreationInv, Shapes
      <3> QED BY <3>1, <3>2
    <2>3. PICK s \in Slot : Effect(<<c, s>>)
      BY <1>2, StepEffect DEF CreationInv, Shapes
    <2>4. HandlesAreCounted'
      BY <2>3, CountsStay, ObjectParts DEF CreationInv
    <2> QED BY <2>1, <2>2, <2>4 DEF CreationInv, Shapes
  <1> QED BY <1>1, <1>2, Steps

\* Types, what each creation has at its stage, and the count of handles.
THEOREM CreationCorrect == Spec => []CreationInv
  BY InitCreation, NextCreation, PTL DEF Spec

\* Types; the counts are those of sets, and so never below zero.
THEOREM CreationTypeCorrect == Spec => []TypeOK
  <1>1. CreationInv => TypeOK
    <2> SUFFICES ASSUME CreationInv
                 PROVE  TypeOK
      OBVIOUS
    <2>1. \A f \in Files : loaded[f] \in Nat
      BY HoldersFinite DEF CreationInv, HandlesAreCounted
    <2> QED BY <2>1 DEF CreationInv, Types, TypeOK
  <1> QED BY <1>1, CreationCorrect, PTL

\* dlopen and dlclose are paired, whatever fails and whoever ends first.
THEOREM HandlesCorrect == Spec => []HandlesAreCounted
  <1>1. CreationInv => HandlesAreCounted
    BY DEF CreationInv
  <1> QED BY <1>1, CreationCorrect, PTL

\* The code of a Model's routines is loaded as long as they may be called.
THEOREM RoutinesCorrect == Spec => []RoutinesStayLoaded
  <1>1. ASSUME CreationInv, NEW c \in Creations,
               stage[c] \in {"routine", "created", "destroying"}
        PROVE  loaded[model[c].routines] > 0
    <2>1. PICK s \in Slot : OpenOn(library[c][s], model[c].routines)
      BY <1>1 DEF CreationInv, Shapes, Shape, Slot
    <2> DEFINE f == model[c].routines
    <2>2. f \in Files /\ <<c, s>> \in Holders(f)
      BY <2>1, ObjectParts DEF OpenOn, Holders, Exists
    <2>3. Cardinality(Holders(f)) # 0 /\ Cardinality(Holders(f)) \in Nat
      BY <2>2, HoldersFinite, FS_EmptySet
    <2> QED BY <1>1, <2>2, <2>3 DEF CreationInv, HandlesAreCounted
  <1>2. CreationInv => RoutinesStayLoaded
    BY <1>1 DEF RoutinesStayLoaded
  <1> QED BY <1>2, CreationCorrect, PTL

\* A creation that succeeds keeps one open library and nothing else.
THEOREM OneLibraryCorrect == Spec => []CreatedModelsKeepOneLibrary
  <1>1. ASSUME CreationInv, NEW c \in Creations,
               stage[c] \in {"created", "destroying", "deleting"}
        PROVE  /\ c \notin collections
               /\ \E s \in Slot :
                    /\ s = model[c].sharedLibrary
                    /\ Exists(<<c, s>>)
                    /\ IsOpen(library[c][s]) /\ library[c][s].directory = NoDirectory
                    /\ \A r \in Slot \ {s} : ~Exists(<<c, r>>)
    BY <1>1, SentinelAssumption
    DEF CreationInv, Shapes, Shape, Slot, UsesOwn, UsesDriver, OpenOn, IsOpen, Exists, Lib
  <1>2. CreationInv => CreatedModelsKeepOneLibrary
    BY <1>1 DEF CreatedModelsKeepOneLibrary
  <1> QED BY <1>2, CreationCorrect, PTL

\* The one kind of failure that leaves a library open.
THEOREM AbandonedCorrect == Spec => []OnlyDriverFailuresLeaveLibraries
  <1>1. ASSUME CreationInv, NEW o \in Objects, Exists(o), ~HasModel(o[1])
        PROVE  /\ stage[o[1]] = "failed"
               /\ o[2] = "own"
               /\ Lib(o).hasDriver /\ Lib(o).directory # NoDirectory
    <2>1. PICK c \in Creations, s \in Slot : o = <<c, s>>
      BY <1>1 DEF Objects
    <2>2. model[c] = Absent /\ library[c][s] # Absent
      BY <1>1, <2>1 DEF Exists, Lib, HasModel
    <2>3. Shape(c) /\ stage[c] \in Stage
      BY <1>1 DEF CreationInv, Shapes, Types
    <2>4. stage[c] = "failed"
      BY <2>2, <2>3 DEF Shape, Stage, Slot, Nothing, UsesOwn, UsesDriver
    <2> QED BY <2>1, <2>2, <2>3, <2>4, SentinelAssumption
            DEF Shape, Slot, Written, Parameterized, Lib
  <1>2. CreationInv => OnlyDriverFailuresLeaveLibraries
    BY <1>1 DEF OnlyDriverFailuresLeaveLibraries
  <1> QED BY <1>2, CreationCorrect, PTL

(***************************************************************************)
(* Scratch directories.                                                    *)
(***************************************************************************)
\* DirectoriesAreTheirOwn and DirectoriesHaveOwners, in terms of what an Effect
\* is about.
Distinct ==
  \A o, q \in Objects : DirectoryOf(o) # NoDirectory =>
    /\ DirectoryOf(o) \in directories
    /\ DirectoryOf(q) = DirectoryOf(o) => q = o

Owned == \A d \in directories : \E o \in Objects : DirectoryOf(o) = d

LEMMA DistinctMeans == Distinct => DirectoriesAreTheirOwn
  BY DEF Distinct, DirectoriesAreTheirOwn, DirectoryOf, DirectoryIn, Exists

\* mkdtemp makes a directory that was not there, and an object that is rid of
\* its directory has no other.
LEMMA DistinctStays ==
  ASSUME Types, ~HasFilesystemLibrary, Distinct, NEW o \in Objects, Effect(o)
  PROVE  Distinct'
  <1> SUFFICES ASSUME NEW p \in Objects, NEW q \in Objects, DirectoryOf(p)' # NoDirectory
               PROVE  /\ DirectoryOf(p)' \in directories'
                      /\ DirectoryOf(q)' = DirectoryOf(p)' => q = p
    BY DEF Distinct
  <1>1. \A r \in Objects \ {o} : DirectoryOf(r)' = DirectoryOf(r)
    BY DEF Effect
  <1>2. CASE DirectoryOf(o)' = DirectoryOf(o) /\ directories' = directories
    BY <1>1, <1>2 DEF Distinct
  <1>3. ASSUME NEW d \in Directories, DirectoryOf(o) = NoDirectory, DirectoryOf(o)' = d,
               directories' = directories \cup {d}, d \notin directories
        PROVE  /\ DirectoryOf(p)' \in directories'
               /\ DirectoryOf(q)' = DirectoryOf(p)' => q = p
    BY <1>1, <1>3, SentinelAssumption DEF Distinct
  <1>4. CASE /\ DirectoryOf(o) \in Directories /\ DirectoryOf(o)' = NoDirectory
             /\ \/ directories' = directories \ {DirectoryOf(o)}
                \/ directories' = directories
    BY <1>1, <1>4, SentinelAssumption DEF Distinct
  <1> QED BY <1>2, <1>3, <1>4 DEF Effect, DirectoryEffect

\* A directory is made for an object, and removed when the object gives it up.
LEMMA OwnedStays ==
  ASSUME Types, ~RemovalMayFail, Owned, NEW o \in Objects, Effect(o)
  PROVE  Owned'
  <1> SUFFICES ASSUME NEW d \in directories'
               PROVE  \E q \in Objects : DirectoryOf(q)' = d
    BY DEF Owned, Objects
  <1>1. \A r \in Objects \ {o} : DirectoryOf(r)' = DirectoryOf(r)
    BY DEF Effect
  <1>2. CASE DirectoryOf(o)' = DirectoryOf(o) /\ directories' = directories
    BY <1>1, <1>2 DEF Owned
  <1>3. ASSUME NEW e \in Directories, DirectoryOf(o) = NoDirectory, DirectoryOf(o)' = e,
               directories' = directories \cup {e}
        PROVE  \E q \in Objects : DirectoryOf(q)' = d
    <2>1. CASE d = e
      BY <1>3, <2>1
    <2>2. CASE d # e
      <3>1. d \in directories /\ d # NoDirectory
        BY <1>3, <2>2, SentinelAssumption DEF Types
      <3> QED BY <1>1, <1>3, <3>1 DEF Owned
    <2> QED BY <2>1, <2>2
  <1>4. CASE /\ DirectoryOf(o) \in Directories
             /\ directories' = directories \ {DirectoryOf(o)}
    BY <1>1, <1>4 DEF Owned
  <1> QED BY <1>2, <1>3, <1>4 DEF Effect, DirectoryEffect

DirectoryInv ==
  /\ CreationInv
  /\ ~HasFilesystemLibrary => Distinct
  /\ ~RemovalMayFail => Owned

\* What the directories have to do with the creations that use them.
THEOREM DirectoryCorrect == Spec => []DirectoryInv
  <1>1. Init => DirectoryInv
    <2> SUFFICES ASSUME Init
                 PROVE  DirectoryInv
      OBVIOUS
    <2>1. \A o \in Objects : DirectoryOf(o) = NoDirectory
      BY DEF Init, Objects, DirectoryOf, DirectoryIn, Lib
    <2> QED BY <2>1, InitCreation DEF Init, DirectoryInv, Distinct, Owned
  <1>2. DirectoryInv /\ [Next]_vars => DirectoryInv'
    <2> SUFFICES ASSUME DirectoryInv, [Next]_vars
                 PROVE  DirectoryInv'
      OBVIOUS
    <2>1. CreationInv'
      BY NextCreation DEF DirectoryInv
    <2>2. CASE UNCHANGED vars
      <3>1. \A o \in Objects : DirectoryOf(o)' = DirectoryOf(o)
        BY <2>2 DEF vars, DirectoryOf, Lib
      <3>2. directories' = directories
        BY <2>2 DEF vars
      <3>3. /\ Distinct => Distinct'
            /\ Owned => Owned'
        BY <3>1, <3>2 DEF Distinct, Owned
      <3> QED BY <2>1, <3>3 DEF DirectoryInv
    <2>3. ASSUME NEW c \in Creations, Step(c)
          PROVE  DirectoryInv'
      <3>1. PICK s \in Slot : Effect(<<c, s>>)
        BY <2>3, StepEffect DEF DirectoryInv, CreationInv, Shapes
      <3>2. Types /\ <<c, s>> \in Objects
        BY ObjectParts DEF DirectoryInv, CreationInv
      <3>3. /\ ~HasFilesystemLibrary => Distinct'
            /\ ~RemovalMayFail => Owned'
        BY <3>1, <3>2, DistinctStays, OwnedStays DEF DirectoryInv
      <3> QED BY <2>1, <3>3 DEF DirectoryInv
    <2> QED BY <2>2, <2>3, Steps
  <1> QED BY <1>1, <1>2, PTL DEF Spec

\* In a build without std::filesystem nobody's scratch directory is another's.
THEOREM OwnDirectoriesCorrect ==
  ASSUME ~HasFilesystemLibrary
  PROVE  Spec => []DirectoriesAreTheirOwn
  <1>1. DirectoryInv => DirectoriesAreTheirOwn
    BY DistinctMeans DEF DirectoryInv
  <1> QED BY <1>1, DirectoryCorrect, PTL

\* A Model that names parameter files still has the directory they are in.
LEMMA NamesHaveFiles ==
  ASSUME NEW c \in Creations, Shape(c), stage[c] \in Stage,
         HasModel(c), model[c].numberOfParameterFiles > 0
  PROVE  HasFiles(c)
  BY DEF Shape, Stage, HasModel, UsesOwn, Nothing

\* The names a driver gets are of files that exist and are its own.
THEOREM NamedFilesCorrect ==
  ASSUME ~HasFilesystemLibrary
  PROVE  Spec => []NamedFilesExist
  <1>1. ASSUME DirectoryInv, NEW c \in Creations,
               HasModel(c), model[c].numberOfParameterFiles > 0
        PROVE  /\ model[c].parameterFileDirectoryName \in directories
               /\ \A o \in Objects :
                    Exists(o) /\ Lib(o).directory = model[c].parameterFileDirectoryName =>
                      o = <<c, "own">>
    <2>1. HasFiles(c)
      BY <1>1, NamesHaveFiles DEF DirectoryInv, CreationInv, Shapes, Types
    <2>2. <<c, "own">> \in Objects /\ Lib(<<c, "own">>) = library[c]["own"]
      BY ObjectParts DEF Slot
    <2>3. /\ DirectoryOf(<<c, "own">>) = model[c].parameterFileDirectoryName
          /\ DirectoryOf(<<c, "own">>) # NoDirectory
      BY <2>1, <2>2, SentinelAssumption
      DEF HasFiles, Written, Parameterized, DirectoryOf, DirectoryIn
    <2> QED BY <1>1, <2>2, <2>3 DEF DirectoryInv, Distinct, DirectoryOf, DirectoryIn, Exists
  <1>2. DirectoryInv => NamedFilesExist
    BY <1>1 DEF NamedFilesExist
  <1> QED BY <1>2, DirectoryCorrect, PTL

\* An object with a directory is open: it was opened before, and Close forgets
\* the directory.
LEMMA DirectoriesAreOfOpenLibraries ==
  ASSUME Types, Shapes, NEW o \in Objects, DirectoryOf(o) # NoDirectory
  PROVE  Exists(o) /\ IsOpen(Lib(o)) /\ Lib(o).directory = DirectoryOf(o)
  <1>1. PICK c \in Creations, s \in Slot : o = <<c, s>>
    BY DEF Objects
  <1>2. library[c][s] # Absent /\ library[c][s].directory # NoDirectory
    BY <1>1 DEF DirectoryOf, DirectoryIn, Lib
  <1>3. Shape(c) /\ stage[c] \in Stage
    BY DEF Shapes, Types
  <1>4. Written(library[c][s])
    BY <1>2, <1>3 DEF Shape, Stage, Slot, Nothing, UsesOwn, UsesDriver, HasFiles, Shut,
                      Unwritten, OpenOn
  <1> QED BY <1>1, <1>4, SentinelAssumption
          DEF Written, Parameterized, Exists, IsOpen, DirectoryOf, DirectoryIn, Lib

\* No directory is left without an object that would remove it.
THEOREM OwnersCorrect == Spec => []DirectoriesHaveOwners
  <1>1. ASSUME DirectoryInv, ~RemovalMayFail, NEW d \in directories
        PROVE  \E o \in Objects : Exists(o) /\ IsOpen(Lib(o)) /\ Lib(o).directory = d
    <2>1. PICK o \in Objects : DirectoryOf(o) = d
      BY <1>1 DEF DirectoryInv, Owned
    <2>2. d # NoDirectory
      BY <1>1, SentinelAssumption DEF DirectoryInv, CreationInv, Types
    <2> QED BY <1>1, <2>1, <2>2, DirectoriesAreOfOpenLibraries DEF DirectoryInv, CreationInv
  <1>2. DirectoryInv => DirectoriesHaveOwners
    BY <1>1 DEF DirectoriesHaveOwners
  <1> QED BY <1>2, DirectoryCorrect, PTL

\* Routines that may be called are loaded, and a created Model has one library.
THEOREM LibrariesCorrect == Spec => []LibrariesAreKept
  <1>1. RoutinesStayLoaded /\ CreatedModelsKeepOneLibrary => LibrariesAreKept
    BY DEF LibrariesAreKept
  <1> QED BY <1>1, RoutinesCorrect, OneLibraryCorrect, PTL

\* Of all ends of a Model only the late failures of creations with a driver leave
\* something, and with a library its directory.
THEOREM LeftOversCorrect == Spec => []NothingElseIsLeft
  <1>1. OnlyDriverFailuresLeaveLibraries /\ DirectoriesHaveOwners => NothingElseIsLeft
    BY DEF NothingElseIsLeft
  <1> QED BY <1>1, AbandonedCorrect, OwnersCorrect, PTL

\* Handles and the code behind them, for all creations, failures and ends in any order.
THEOREM LibrariesOwned == Spec => []LibrariesAreOwned
  <1>1. TypeOK /\ HandlesAreCounted /\ LibrariesAreKept => LibrariesAreOwned
    BY DEF LibrariesAreOwned
  <1> QED BY <1>1, CreationTypeCorrect, HandlesCorrect, LibrariesCorrect, PTL

\* Scratch directories, in a build without std::filesystem.
THEOREM DirectoriesOwned ==
  ASSUME ~HasFilesystemLibrary
  PROVE  Spec => []DirectoriesAreOwned
  <1>1. DirectoriesAreTheirOwn /\ NamedFilesExist => DirectoriesAreOwned
    BY DEF DirectoriesAreOwned
  <1> QED BY <1>1, OwnDirectoriesCorrect, NamedFilesCorrect, PTL
=============================================================================
