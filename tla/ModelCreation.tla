--------------------------- MODULE ModelCreation ---------------------------
(***************************************************************************)
(* Model::Create and Model::Destroy with the resources they take and give  *)
(* back (KIM_ModelImplementation.cpp): open libraries, scratch directories,*)
(* the Collections object and the memory of the model itself.              *)
(*                                                                         *)
(* Each creation is one call of Create and, if it succeeds, the life of    *)
(* its Model.  Creations run concurrently; what they share is the dynamic  *)
(* linker, which counts how often a file is open, and the directory for    *)
(* temporary files.                                                        *)
(***************************************************************************)
EXTENDS SharedLibrary, FiniteSets

CONSTANTS
  Creations,              \* calls of Model::Create
  Absent,                 \* no object
  HasFilesystemLibrary,   \* KIM_API_USE_FILESYSTEM_LIBRARY: a C++17 build
  RemovalMayFail          \* whether removing a directory may fail

ASSUME CreationsAssumption == IsFiniteSet(Creations)
ASSUME BuildAssumption ==
  HasFilesystemLibrary \in BOOLEAN /\ RemovalMayFail \in BOOLEAN
VARIABLES
  stage,         \* how far each creation is
  chosen,        \* the local variable temp_subdir of CreateTemporaryDirectory
  model,         \* the Model objects
  library,       \* the SharedLibrary objects, two for each creation
  collections,   \* creations whose Collections object exists
  loaded,        \* how often each file is open: dlopen and dlclose
  directories,   \* the scratch directories on disk
  allocated      \* models whose routines hold memory (external)

vars == <<stage, chosen, model, library, collections, loaded, directories, allocated>>

\* "own": created with the Model; "driver": created by InitializeParameterizedModel
Slot == {"own", "driver"}
Objects == Creations \X Slot

Stage == {"idle", "finding", "choosing", "making", "writing", "findingDriver",
          "routine", "failing", "failed", "created", "destroying", "deleting", "destroyed"}

ModelRecord ==
  [ sharedLibrary : Slot,
    routines : Files \cup {NoFile},               \* where routineFunction_ points
    parameterFileDirectoryName : Directories \cup {NoDirectory},
    numberOfParameterFiles : Int ]

ASSUME AbsentAssumption == Absent \notin Library \cup ModelRecord

NewModel ==
  [ sharedLibrary |-> "own", routines |-> NoFile,
    parameterFileDirectoryName |-> NoDirectory, numberOfParameterFiles |-> 0 ]

Lib(o) == library[o[1]][o[2]]
Exists(o) == Lib(o) # Absent
HasModel(c) == model[c] # Absent

Goes(c, s) == stage' = [stage EXCEPT ![c] = s]
SetLibrary(c, s, lib) == library' = [library EXCEPT ![c][s] = lib]

\* The process opens f once more if the Open loads it.
CountOpen(lib, f) ==
  loaded' = IF Loads(lib, f) THEN [loaded EXCEPT ![f] = @ + 1] ELSE loaded

\* Fault: the handle is not reset, and the destructor closes it again.
CountCloseTwice(lib) ==
  loaded' = IF IsOpen(lib) THEN [loaded EXCEPT ![lib.handle] = @ - 2] ELSE loaded

\* dlclose, as part of Close
CountClose(lib) ==
  loaded' = IF IsOpen(lib) THEN [loaded EXCEPT ![lib.handle] = @ - 1] ELSE loaded

\* RemoveDirectoryRecursive, as part of RemoveParameterFileDirectory
RemoveDirectoryOf(lib) ==
  \/ directories' = IF IsOpen(lib) THEN directories \ {lib.directory} ELSE directories
  \/ RemovalMayFail /\ UNCHANGED directories

Init ==
  /\ stage = [c \in Creations |-> "idle"]
  /\ chosen = [c \in Creations |-> NoDirectory]
  /\ model = [c \in Creations |-> Absent]
  /\ library = [c \in Creations |-> [s \in Slot |-> Absent]]
  /\ collections = {}
  /\ loaded = [f \in Files |-> 0]
  /\ directories = {}
  /\ allocated = {}

(***************************************************************************)
(* Create and ModelCreate, up to the model's routine.                      *)
(***************************************************************************)
\* No Log, an argument that is not known, or no Collections object: the Model
\* is deleted before anything was opened.
CreateRejected(c) ==
  /\ stage[c] = "idle"
  /\ Goes(c, "failed")
  /\ UNCHANGED <<chosen, model, library, collections, loaded, directories, allocated>>

CreateBegin(c) ==
  /\ stage[c] = "idle"
  /\ model' = [model EXCEPT ![c] = NewModel]
  /\ SetLibrary(c, "own", NewLibrary)
  /\ collections' = collections \cup {c}
  /\ Goes(c, "finding")
  /\ UNCHANGED <<chosen, loaded, directories, allocated>>

\* GetItemLibraryFileNameAndCollection returns an error, for the model or for
\* its driver.
ItemNotFound(c) ==
  /\ stage[c] \in {"finding", "findingDriver"}
  /\ Goes(c, "failing")
  /\ UNCHANGED <<chosen, model, library, collections, loaded, directories, allocated>>

\* What ModelCreate does with the library it opened.
AfterOpenModel(lib) ==
  IF GetDriverNameFails(lib) \/ lib.itemType # "portableModel" THEN "failing"
  ELSE IF lib.hasDriver THEN "choosing" ELSE "routine"

OpenModel(c, f) ==
  LET old == library[c]["own"]
      new == Opened(old, f)
      next == IF OpenFails(old, f) THEN "failing" ELSE AfterOpenModel(new)
  IN  /\ stage[c] = "finding"
      /\ SetLibrary(c, "own", new)
      /\ CountOpen(old, f)
      /\ Goes(c, next)
      /\ model' = [model EXCEPT ![c].routines = IF next = "routine" THEN f ELSE @]
      /\ UNCHANGED <<chosen, collections, directories, allocated>>

(***************************************************************************)
(* InitializeParameterizedModel, up to the driver's routine.               *)
(***************************************************************************)
\* CreateTemporaryDirectory without std::filesystem: mkdtemp
MakeTemporaryDirectory(c, d) ==
  /\ ~HasFilesystemLibrary
  /\ stage[c] = "choosing"
  /\ d \notin directories
  /\ directories' = directories \cup {d}
  /\ SetLibrary(c, "own", WithDirectory(library[c]["own"], d))
  /\ Goes(c, "writing")
  /\ UNCHANGED <<chosen, model, collections, loaded, allocated>>

\* CreateTemporaryDirectory with std::filesystem: names are tried until one
\* does not exist ...
ChooseDirectoryName(c, d) ==
  /\ HasFilesystemLibrary
  /\ stage[c] = "choosing"
  /\ d \notin directories
  /\ chosen' = [chosen EXCEPT ![c] = d]
  /\ Goes(c, "making")
  /\ UNCHANGED <<model, library, collections, loaded, directories, allocated>>

\* ... and MakeDirectory then creates it, or finds that it exists, which is no
\* error.
MakeDirectory(c) ==
  /\ stage[c] = "making"
  /\ directories' = directories \cup {chosen[c]}
  /\ SetLibrary(c, "own", WithDirectory(library[c]["own"], chosen[c]))
  /\ chosen' = [chosen EXCEPT ![c] = NoDirectory]
  /\ Goes(c, "writing")
  /\ UNCHANGED <<model, collections, loaded, allocated>>

\* "Could not create a secure temporary directory."
DirectoryNotMade(c) ==
  /\ stage[c] \in {"choosing", "making"}
  /\ SetLibrary(c, "own", WithDirectory(library[c]["own"], NoDirectory))
  /\ chosen' = [chosen EXCEPT ![c] = NoDirectory]
  /\ Goes(c, "failing")
  /\ UNCHANGED <<model, collections, loaded, directories, allocated>>

\* The files are written; their names go to the Model, and sharedLibrary_ is
\* now an object for the driver's library.
WriteParameterFiles(c) ==
  /\ stage[c] = "writing"
  /\ model' = [model EXCEPT ![c] =
       [@ EXCEPT !.parameterFileDirectoryName = library[c]["own"].directory,
                 !.numberOfParameterFiles = library[c]["own"].parameterFiles,
                 !.sharedLibrary = "driver"]]
  /\ SetLibrary(c, "driver", NewLibrary)
  /\ Goes(c, "findingDriver")
  /\ UNCHANGED <<chosen, collections, loaded, directories, allocated>>

\* A file cannot be written; the directory is removed again.
ParameterFileNotWritten(c) ==
  LET lib == library[c]["own"]
  IN  /\ stage[c] = "writing"
      /\ RemoveDirectoryOf(lib)
      /\ SetLibrary(c, "own", WithoutDirectory(lib))
      /\ Goes(c, "failing")
      /\ UNCHANGED <<chosen, model, collections, loaded, allocated>>

OpenDriver(c, f) ==
  LET old == library[c]["driver"]
      new == Opened(old, f)
      next == IF OpenFails(old, f) \/ new.itemType # "modelDriver"
              THEN "failing" ELSE "routine"
  IN  /\ stage[c] = "findingDriver"
      /\ SetLibrary(c, "driver", new)
      /\ CountOpen(old, f)
      /\ Goes(c, next)
      /\ model' = [model EXCEPT ![c].routines = IF next = "routine" THEN f ELSE @]
      /\ UNCHANGED <<chosen, collections, directories, allocated>>

(***************************************************************************)
(* The model's Create routine, and what follows it.                        *)
(***************************************************************************)
\* External: the routine allocates what it hangs on the Model's buffer pointer.
RoutineAllocates(c) ==
  /\ stage[c] = "routine"
  /\ allocated' = allocated \cup {c}
  /\ UNCHANGED <<stage, chosen, model, library, collections, loaded, directories>>

\* External: a routine that returns an error has released it.
RoutineFails(c) ==
  /\ stage[c] = "routine"
  /\ allocated' = allocated \ {c}
  /\ Goes(c, "failing")
  /\ UNCHANGED <<chosen, model, library, collections, loaded, directories>>

\* Fault: what sharedLibrary_ has become is closed, not the model's library.
ReleaseWrongLibrary(c) ==
  LET lib == library[c]["driver"]
  IN  IF model[c].sharedLibrary = "driver"
      THEN /\ RemoveDirectoryOf(library[c]["own"])
           /\ CountClose(lib)
           /\ SetLibrary(c, "driver", Absent)
           /\ model' = [model EXCEPT ![c].numberOfParameterFiles = -1]
      ELSE UNCHANGED <<directories, loaded, library, model>>

\* Fault: the Model keeps the names of the files.
ReleaseKeepsNames(c) ==
  LET lib == library[c]["own"]
  IN  IF model[c].sharedLibrary = "driver"
      THEN /\ RemoveDirectoryOf(lib)
           /\ CountClose(WithoutDirectory(lib))
           /\ SetLibrary(c, "own", Absent)
           /\ UNCHANGED model
      ELSE UNCHANGED <<directories, loaded, library, model>>

\* The end of InitializeParameterizedModel: the model's library is no longer
\* needed.  Close finds no directory any more.
ReleaseModelLibrary(c) ==
  LET lib == library[c]["own"]
  IN  IF model[c].sharedLibrary = "driver"
      THEN /\ RemoveDirectoryOf(lib)
           /\ CountClose(WithoutDirectory(lib))
           /\ SetLibrary(c, "own", Absent)
           /\ model' = [model EXCEPT ![c].numberOfParameterFiles = -1]
      ELSE UNCHANGED <<directories, loaded, library, model>>

\* The routine succeeds.  ModelCreate then accepts the Model, or rejects it for
\* what the routine did not set or set inconsistently.
RoutineSucceeds(c) ==
  /\ stage[c] = "routine"
  /\ ReleaseModelLibrary(c)
  /\ collections' = collections \ {c}
  /\ \E next \in {"created", "failing"} : Goes(c, next)
  /\ UNCHANGED <<chosen, allocated>>

(***************************************************************************)
(* Destroy, and the destructor that ends a failed Create too.              *)
(***************************************************************************)
DestroyBegin(c) ==
  /\ stage[c] = "created"
  /\ Goes(c, "destroying")
  /\ UNCHANGED <<chosen, model, library, collections, loaded, directories, allocated>>

\* External: the Destroy routine releases the model's memory.  Destroy ignores
\* its error.
DestroyRoutineReturns(c) ==
  /\ stage[c] = "destroying"
  /\ allocated' = allocated \ {c}
  /\ Goes(c, "deleting")
  /\ UNCHANGED <<chosen, model, library, collections, loaded, directories>>

\* Fault: the library the Model was constructed with is deleted.
DeleteModelOwn(c) ==
  LET lib == library[c]["own"]
  IN  /\ stage[c] \in {"failing", "deleting"}
      /\ lib # Absent
      /\ RemoveDirectoryOf(lib)
      /\ CountClose(lib)
      /\ SetLibrary(c, "own", Absent)
      /\ model' = [model EXCEPT ![c] = Absent]
      /\ Goes(c, IF stage[c] = "failing" THEN "failed" ELSE "destroyed")
      /\ UNCHANGED <<chosen, collections, allocated>>

\* ~ModelImplementation closes and deletes sharedLibrary_.
DeleteModel(c) ==
  LET s == model[c].sharedLibrary
      lib == library[c][s]
  IN  /\ stage[c] \in {"failing", "deleting"}
      /\ RemoveDirectoryOf(lib)
      /\ CountClose(lib)
      /\ SetLibrary(c, s, Absent)
      /\ model' = [model EXCEPT ![c] = Absent]
      /\ Goes(c, IF stage[c] = "failing" THEN "failed" ELSE "destroyed")
      /\ UNCHANGED <<chosen, collections, allocated>>

(***************************************************************************)
(* The specification.                                                      *)
(***************************************************************************)
Next ==
  \E c \in Creations :
    \/ CreateRejected(c)
    \/ CreateBegin(c)
    \/ ItemNotFound(c)
    \/ \E f \in Files : OpenModel(c, f) \/ OpenDriver(c, f)
    \/ \E d \in Directories : MakeTemporaryDirectory(c, d) \/ ChooseDirectoryName(c, d)
    \/ MakeDirectory(c)
    \/ DirectoryNotMade(c)
    \/ WriteParameterFiles(c)
    \/ ParameterFileNotWritten(c)
    \/ RoutineAllocates(c)
    \/ RoutineFails(c)
    \/ RoutineSucceeds(c)
    \/ DestroyBegin(c)
    \/ DestroyRoutineReturns(c)
    \/ DeleteModel(c)

Spec == Init /\ [][Next]_vars

(***************************************************************************)
(* Properties.                                                             *)
(***************************************************************************)
\* Types; in particular no file is closed more often than it was opened.
TypeOK ==
  /\ stage \in [Creations -> Stage]
  /\ chosen \in [Creations -> Directories \cup {NoDirectory}]
  /\ model \in [Creations -> ModelRecord \cup {Absent}]
  /\ library \in [Creations -> [Slot -> Library \cup {Absent}]]
  /\ collections \in SUBSET Creations
  /\ loaded \in [Files -> Nat]
  /\ directories \in SUBSET Directories
  /\ allocated \in SUBSET Creations

Holders(f) == {o \in Objects : Exists(o) /\ Lib(o).handle = f}

\* Each dlopen is undone by at most one dlclose, by the object that has the
\* handle: the Models that use a driver do not close it for one another,
\* whichever of them fails or ends first (Open, Close, ~SharedLibrary).
HandlesAreCounted == \A f \in Files : loaded[f] = Cardinality(Holders(f))

\* A routine that may run is in a library that is loaded: swapping the model's
\* library for the driver's and closing one of them closes the right one
\* (InitializeParameterizedModel), and Destroy closes after the routine.
RoutinesStayLoaded ==
  \A c \in Creations :
    stage[c] \in {"routine", "created", "destroying"} => loaded[model[c].routines] > 0

\* A scratch directory is "a new empty directory" (KIM_FilesystemPath.hpp:181):
\* no two objects have the same one, and none removes that of another.
DirectoriesAreTheirOwn ==
  \A o \in Objects : Exists(o) /\ Lib(o).directory # NoDirectory =>
    /\ Lib(o).directory \in directories
    /\ \A q \in Objects :
         Exists(q) /\ Lib(q).directory = Lib(o).directory => q = o

\* The parameter file names that a driver's routine can get name files in the
\* directory that still exists, and that no other creation writes to.  After
\* creation an Extension routine gets none (GetParameterFileName, ...Basename).
NamedFilesExist ==
  \A c \in Creations : HasModel(c) /\ model[c].numberOfParameterFiles > 0 =>
    /\ model[c].parameterFileDirectoryName \in directories
    /\ \A o \in Objects :
         Exists(o) /\ Lib(o).directory = model[c].parameterFileDirectoryName =>
           o = <<c, "own">>

\* A Model that was created keeps one library, open and without a scratch
\* directory, and no Collections object, with a driver or without.
CreatedModelsKeepOneLibrary ==
  \A c \in Creations : stage[c] \in {"created", "destroying", "deleting"} =>
    /\ c \notin collections
    /\ \E s \in Slot :
         /\ s = model[c].sharedLibrary
         /\ Exists(<<c, s>>)
         /\ IsOpen(library[c][s]) /\ library[c][s].directory = NoDirectory
         /\ \A r \in Slot \ {s} : ~Exists(<<c, r>>)

\* What outlives its Model: only the library of a model with a driver, after a
\* creation that failed once the library's files were written.  No other
\* failure, and no Destroy, leaves an open library behind.
OnlyDriverFailuresLeaveLibraries ==
  \A o \in Objects : Exists(o) /\ ~HasModel(o[1]) =>
    /\ stage[o[1]] = "failed"
    /\ o[2] = "own"
    /\ Lib(o).hasDriver /\ Lib(o).directory # NoDirectory

\* A scratch directory on disk is that of some open library: none is left by a
\* creation that could not write its files, unless removing it failed.
DirectoriesHaveOwners ==
  ~RemovalMayFail =>
    \A d \in directories :
      \E o \in Objects : Exists(o) /\ IsOpen(Lib(o)) /\ Lib(o).directory = d

\* The model "must use the Model's buffer pointer to retain access to this
\* memory location and avoid a memory leak" (KIM_ModelCreate.hpp:90): memory
\* on the buffer pointer is released by the Destroy routine before the Model
\* is gone.
\* (The code does not keep this: README, "What the documentation says and the code does not do".)
AllocationsHaveModels == \A c \in allocated : HasModel(c)

\* A Model has the code of its routines loaded as long as they may be called, and
\* one library and nothing else after its creation.
LibrariesAreKept == RoutinesStayLoaded /\ CreatedModelsKeepOneLibrary

\* What a creation or a Destroy leaves open or on disk is the library of a model with
\* a driver whose creation failed late, with its directory, and nothing else.
NothingElseIsLeft == OnlyDriverFailuresLeaveLibraries /\ DirectoriesHaveOwners

\* The variables have their types; each library is open as often as Models and creations in
\* progress hold it, and with it the code of all routines that may still be called.
LibrariesAreOwned == TypeOK /\ HandlesAreCounted /\ LibrariesAreKept

\* Creations that run together have their scratch directories for themselves, and the files
\* that a Model names are in its own.
DirectoriesAreOwned == DirectoriesAreTheirOwn /\ NamedFilesExist
=============================================================================
