--------------------------- MODULE SharedLibrary ---------------------------
(***************************************************************************)
(* The SharedLibrary object (KIM_SharedLibrary.cpp): the handle of an open *)
(* library, copies of the tables the library embeds, and the scratch       *)
(* directory its parameter files are written to.                           *)
(*                                                                         *)
(* This module has no variables.  An operation is an operator on the       *)
(* record of one object; what it does to the process (the count of dlopen) *)
(* and to the file system is in the module that uses it.                   *)
(***************************************************************************)
EXTENDS Integers

CONSTANTS
  Files,          \* shared library files that items are found in
  NoFile,         \* no handle
  Contents,       \* what dlopen and dlsym find in each file
  Directories,    \* names of scratch directories
  NoDirectory     \* the empty path

ItemType == {"modelDriver", "portableModel", "simulatorModel", "unknown"}

\* "absent": no version or no schema symbol; "other": a version not known
Schema == {"absent", "V1", "V2", "other"}

FileContents ==
  [ loadable : BOOLEAN,          \* dlopen succeeds
    schema : Schema,
    itemType : ItemType,
    hasDriver : BOOLEAN,         \* driverName is given and not ""
    parameterFiles : Nat ]       \* numberOfParameterFiles

ASSUME ContentsAssumption == Contents \in [Files -> FileContents]
ASSUME SentinelAssumption == NoFile \notin Files /\ NoDirectory \notin Directories

\* "unset": the constructor does not initialise itemType_
Library ==
  [ handle : Files \cup {NoFile},             \* sharedLibraryHandle_
    itemType : ItemType \cup {"unset"},
    hasDriver : BOOLEAN,
    parameterFiles : Nat,
    directory : Directories \cup {NoDirectory} ]  \* parameterFileDirectoryName_

\* SharedLibrary::SharedLibrary
NewLibrary ==
  [ handle |-> NoFile, itemType |-> "unset", hasDriver |-> FALSE,
    parameterFiles |-> 0, directory |-> NoDirectory ]

IsOpen(lib) == lib.handle # NoFile

\* The schema of version 1 has a type of its own; one that is none of its four
\* is an error, whereas version 2 passes on any type.
Readable(f) ==
  \/ Contents[f].schema = "V1" /\ Contents[f].itemType # "unknown"
  \/ Contents[f].schema = "V2"

\* Whether Open(f) calls dlopen with success.
Loads(lib, f) == ~IsOpen(lib) /\ Contents[f].loadable

OpenFails(lib, f) == ~(Loads(lib, f) /\ Readable(f))

\* SharedLibrary::Open.  An error after dlopen leaves the handle set.
Opened(lib, f) ==
  [lib EXCEPT
    !.handle = IF Loads(lib, f) THEN f ELSE @,
    !.itemType = IF OpenFails(lib, f) THEN @ ELSE Contents[f].itemType,
    !.hasDriver = IF OpenFails(lib, f) THEN @ ELSE Contents[f].hasDriver,
    !.parameterFiles =
       IF OpenFails(lib, f) THEN @ ELSE Contents[f].parameterFiles]

\* Fault: the name of the removed directory is kept.
WithoutDirectoryKept(lib) == lib

\* SharedLibrary::RemoveParameterFileDirectory: the name is forgotten, whether
\* or not the directory could be removed.
WithoutDirectory(lib) ==
  [lib EXCEPT !.directory = IF IsOpen(lib) THEN NoDirectory ELSE @]

\* SharedLibrary::Close
Closed(lib) ==
  IF IsOpen(lib)
  THEN [WithoutDirectory(lib) EXCEPT
          !.handle = NoFile, !.hasDriver = FALSE, !.parameterFiles = 0]
  ELSE lib

\* SharedLibrary::GetDriverName
GetDriverNameFails(lib) ==
  ~IsOpen(lib) \/ (lib.itemType # "portableModel" /\ lib.hasDriver)

\* SharedLibrary::WriteParameterFileDirectory, where it has its directory
WithDirectory(lib, d) == [lib EXCEPT !.directory = d]
=============================================================================
