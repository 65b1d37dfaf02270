# A formal model of the KIM API

The KIM API connects *simulators* (molecular dynamics codes) with *portable models*
(interatomic potentials kept in shared libraries).  A simulator creates a Model object by
name, creates ComputeArguments objects from it, hangs its arrays and callback functions on
them and calls Compute; the model's routine then reads the arrays and asks back for
neighbour lists.  Both sides are foreign code, in C++, C or Fortran, so almost everything
the library guarantees is a guarantee about *orders of calls*: who may call what on which
object, what each side sees at that time, and what is left behind when somebody's routine
returns an error.  Around this core are the collections, directories of a user and a system
in which items are installed, removed and looked up by many processes, and a log whose
defaults all objects of a process share.

Paths below are relative to the repository.

1. [Inventory](#1-inventory)
2. [Modules](#2-modules)
3. [Runs](#3-runs)
4. [What the documentation says and the code does not do](#4-what-the-documentation-says-and-the-code-does-not-do)
5. [Proofs](#5-proofs)
6. [Plan](#6-plan)
7. [Not modelled](#7-not-modelled)

## 1. Inventory

| component | state | operations | interacts with |
|---|---|---|---|
| **ComputeArguments** (`cpp/src/KIM_ComputeArgumentsImplementation.cpp`) | support status and pointer of every argument and callback, the numberings, the neighbour lists of the computation in progress, storage for converted lists | Create/Destroy (by Model), Set/Get support status, Set/Get pointer, the check that everything required is present, GetNeighborList, ProcessDEDrTerm, ProcessD2EDr2Term | created, filled in and emptied by Model; called by the simulator and, through views, by the model |
| **Model: use** (`KIM_ModelImplementation.cpp`) | influence distance, neighbour lists and cutoffs (pointers into the model's memory), routines, numberings | ComputeArgumentsCreate/Destroy, Compute, ClearThenRefresh, Extension, Destroy | calls the model's routines; passes its lists to ComputeArguments |
| **Model: parameters** (same file) | parallel vectors of names, types, extents and pointers | SetParameterPointer, Get/SetParameter, GetParameterMetadata, WriteParameterizedModel | the model's memory, the file system |
| **Model: creation** (same file, `:2088-2356, 2895-3207`) | the library, driver library, scratch directory and Collections object in use | Create with or without a model driver | Collections, SharedLibrary, the model's Create routine |
| **Unit conversion** (same file, `:1600-1800`) | tables of factors; the units a model has set | SetUnits, ConvertUnit | models |
| **SharedLibrary** | dlopen handle, tables of embedded files, scratch directory | Open, Close, GetX, Write/RemoveParameterFileDirectory | file system, dynamic linker |
| **SimulatorModel** | open or closed template map, simulator fields before and after substitution | Create, Destroy, OpenAndInitialize/AddTo/CloseTemplateMap, queries of fields and lines | SharedLibrary, Collections |
| **Collections** | environment, user's configuration file, cached lists of names and metadata files | Create, look-up of an item, of its type, lists with index access | the file system, shared by all processes of a user |
| **Collections management utility** (`utils/collections-management.in`, a shell script with `collections-info`) | directories of items | install, reinstall, remove, remove-all, set-user-...-dir, list | Collections, through a process for each question; CMake |
| **Log** | process-wide stacks of default verbosity, print function and its language; per object a stack of verbosities, an id, a sequence number | Push/Pop of both, LogEntry, SetID, Create, Destroy | every other object holds one; print functions are foreign code |
| **SemVer** | none | ParseSemVer, IsLessThan | callers of the API |
| **Names and statuses** (`KIM_ChargeUnit.cpp` and 15 more) | constants and tables, initialised when the library is loaded | Known, ToString, from string | everything |
| **LennardJones612 model driver** (`examples/model-drivers`) | parameters of pairs of species, tables made of them; the number of particles of the last computation | Create from a parameter file, Refresh, Compute | the API, as a model |
| **C and Fortran bindings** (`c/src`, `fortran/include`, and the classes of `cpp/src` without "Implementation" in their names) | none | one function for each function of each interface: conversion of indices, texts, results and errors | the function of the same name one layer down |
| **Model: routines** (`KIM_ModelImplementation.cpp:1980-2356` and the calls of each routine) | eight routines with their language and whether they are required; units, species, buffer, parameter files | the calls of a create routine, the checks after it, the call of each routine in the form of its language | the model's create routine, and its Extension routine later |
| **Example models** (`examples/portable-models`, `examples/model-drivers`) | parameters, cutoffs and shift of the driver; none in the others | Create, Refresh, Compute, Extension, WriteParameterizedModel, Destroy | the API, as models |
| **Example simulators** (`examples/simulators`) | the objects they made, the cluster and its neighbor list | one main each | the API, as simulators; their GetNeighborList is called by the model |
| **Utilities** (`utils/portable-model-info.cpp`, `utils/simulator-model.cpp`) | the objects and the file they have open | one main each | Model, SimulatorModel, the file system |
| **FilesystemPath**, CMake, documentation | files | I/O | - |

Collections are searched in the order current working directory, environment variable,
user, system (`KIM_CollectionsImplementation.cpp:392` on), and an item type is searched as
portable model, then simulator model, then model driver.

### What is hard here

* **Two owners of one object.** A ComputeArguments is created by one Model, but Compute
  accepts it on any Model *of the same name* (`KIM_ModelImplementation.cpp:1287`), and some
  decisions use the numbering the object was created with, others that of the Model it is
  used with.
* **Callbacks within callbacks.** During Compute the model's routine calls back into the
  ComputeArguments; other threads compute on the same Model meanwhile.  What ties a
  computation to the lists it reads is a copy of two pointers (`:1312-1314`) that must be
  taken back on every way out (`:1326-1329`).  A print function may call the Log that calls
  it.
* **Routines that fail half-way.** Refresh, ComputeArgumentsCreate, Extension, Create and
  WriteParameterizedModel may do any part of their work and then return an error.
* **Order of registration.** The pointer map of an argument gets an entry only when its
  support status is first raised; checks later use `find()->second` without looking
  (`KIM_ComputeArgumentsImplementation.cpp:725`).
* **Off-by-one by design.** Particle numbers are zero- or one-based on either side;
  conversions in two directions share one signed offset.
* **Views.** An Extension routine may obtain the view of *any* interface of the Model and of
  a ComputeArguments (`KIM_ModelExtension.cpp:58-99`), and so perform operations outside the
  routine whose end is checked.
* **A file without a lock.** Every process of a user may create, rewrite and change the
  configuration file, which is truncated first and filled last.
* **Answers that age.** A search tests one file after the other while items come and go, and
  the script acts on answers that earlier processes printed.
* **Two stacks for one.** The default print function and its language are kept in two
  stacks that are pushed, popped and refilled one after the other.
* **Counting from 1, and texts of a declared length.**  A Fortran caller's indices are
  shifted, its texts cut, padded with blanks and trimmed again on the way.
* **Every call is written down four times.** A Fortran function calls one of C, which calls one
  of C++, which calls the implementation, each time with all arguments, many of one type, and
  results that nobody may look at after an error.
* **One function pointer, three calling conventions.** A routine or callback is an untyped
  pointer with the name of a language beside it; both are set together, many times, by foreign
  code, and the pointer is cast to the form of that language when it is called.
* **Half of the pairs.** A model goes over the neighbors of the particles that contribute, and
  sees a pair from both sides or from one.  Whether it counts it once, twice or by halves is
  decided in each model anew, and again for forces and for both kinds of terms.
* **Programs that go on.** The utilities take a failing call for an answer and use what it did not
  write.
* **Order of initialisation.** Constants of one translation unit are read by the
  initialisation of others.

The list with lines is under `hazards` in `PROJECT.json`.

### What makes each component correct

* *ComputeArguments*: what the API requires stays required; a supported name always has a
  pointer entry; nothing computes with a required pointer missing; numbers survive
  conversion in both directions; a list stays what it was while the model holds it.
* *Model*: lists are visible to the model exactly while it computes, and are those of the
  Model it computes for; after a refresh that is reported successful, the lists are complete
  and none is from before; calls in progress never lose their objects.
* *Parameters*: an index keeps its meaning; what is read is what was set; what is written is
  what was in memory.
* *Model creation, SharedLibrary*: success leaves one open library and no scratch directory;
  what an error leaves behind is known.
* *SimulatorModel*: substitution starts from the original fields each time; an object that
  ends or fails leaves nothing.
* *Collections*: what is installed all the time is found; a cached list is of one call; the
  configuration file says what the user chose, and names directories that exist.
* *The utility*: an item is installed where it was asked for and found there; a model has its
  driver; nothing but items is removed; every command ends.
* *Log*: a print function is called with its own language; a default stack is never empty;
  the entries of one second are numbered from 0 without a gap.
* *SemVer*: a strict weak order that agrees with the standard's precedence.
* *Units*: a factor does not depend on the way it was computed.
* *Bindings*: a call in any language arrives at the function that is meant, with every argument
  in its place, and the results come back; a Fortran caller whose variables have room sees what
  the C++ objects hold.
* *The driver*: all its results are those of one energy; its tables are those of the
  parameters that were set last.
* *Model routines*: a routine the Model calls is there and in its language; a simulator knows what
  it has to support; the create routines of the examples pass their checks.
* *Callbacks*: a model calls the function that the simulator set last, with the simulator's numbers,
  and gets the pointers it set last.
* *Example models*: energies, forces and terms are those of all pairs.
* *Example simulators*: they compute with all that the Model requires or not at all, their neighbor
  lists are complete, and they destroy what they made.
* *Utilities*: what ends in order has closed, destroyed and read all it had.

## 2. Modules

| module | what it is |
|---|---|
| `KIMModel`, `KIMModel_proofs` | the record of one ComputeArguments object with an operator per operation on it; Models, threads and their calls; proofs of types, calls in progress and all properties of its passing runs |
| `SharedLibrary` | the record of one SharedLibrary object and an operator per operation on it; no variables |
| `ModelCreation`, `ModelCreation_proofs` | Create and Destroy of Models: the steps of each creation, its objects, the dynamic linker, the scratch directories; proofs of all properties of its runs |
| `ModelParameters` | the parameters of a Model, and their writing to a directory |
| `Units` | SetUnits and ConvertUnit |
| `SimulatorModel` | the reading of a simulator model's specification file and the substitution of templates, as operators; the life of SimulatorModel objects |
| `Collections` | items, places and the order in which they are searched; no variables |
| `CollectionsSearch`, `CollectionsSearch_proofs` | searches and lists of one Collections object while items come and go; proofs |
| `AbstractConfiguration` | what the user's configuration file is for: settings that change one at a time |
| `UserConfiguration`, `UserConfiguration_proofs` | the file, with the processes and scripts that read, create, rewrite and set it; implements `AbstractConfiguration`; proofs |
| `CollectionsManagement`, `CollectionsManagement_proofs` | the script's commands, step by step, over the directories of `Collections`; proofs |
| `AbstractLog` | one stack of print functions with their languages |
| `Log`, `Log_proofs` | the stacks, the objects, entries, and print functions that call back; implements `AbstractLog`; proofs |
| `SemVer` | versions as texts: parsing and comparison |
| `LennardJones612` | the driver's Compute, by one thread or several |
| `LennardJonesParameters` | the driver's parameters, from its file to the tables after a refresh |
| `Enumerations` | the constants and tables of the enumerations, and the initialisation of translation units |
| `InterfaceRows`, `InterfaceCpp`, `InterfaceC`, `InterfaceFortran` | the words in which the functions of the three interfaces are written down; the functions: what each calls, what it passes and what it does with results and errors; no variables |
| `Interface` | a call on its way down through the layers and back |
| `FortranBindings` | indices and texts on their way between a Fortran caller and C++, character by character |
| `MCKIMModel`, `MCModelCreation`, `MCUserConfiguration`, `MCCollectionsSearch`, `MCCollectionsManagement`, `MCLog`, `MCComponents`, `MCPrograms` | values of the constants and bounds for the runs of these modules |
| `Components`, `Components_proofs` | instances of `SemVer`, `Units`, `LennardJones612` (two), `LennardJonesParameters`, `ModelParameters`, `Enumerations`, `FortranBindings`, `Interface` and `SimulatorModel`, of which each behaviour is one; proofs about `ModelParameters`, `SimulatorModel`, `FortranBindings`, `Units`, `LennardJonesParameters`, `Enumerations`, `Interface`, `SemVer` and `LennardJones612` |
| `ModelRoutines` | what a create routine registers, the checks after it, and the calls of the routines; the create routines of the example models, as data |
| `Callbacks` | the pointers and callbacks of a ComputeArguments on their way from a simulator to a model |
| `PairModels` | the routines of the example models |
| `TestPrograms` | the example simulators `ex_test_Ar_fcc_cluster` in C and C++ |
| `Utilities` | `portable-model-info`, `simulator-model` and the `simulator-model-example` programs |
| `Programs`, `Programs_proofs` | instances of these five, of which each behaviour is one; proofs about all five |

How they meet.  `KIMModel` and `ModelCreation` look at the same Model at different times:
`Create` of `KIMModel` is a creation of `ModelCreation` that goes from `idle` to `created`,
and its `Destroy` one that goes from there to `destroyed`.  `SharedLibrary` is used by
`ModelCreation` and `SimulatorModel`, the places of `Collections` by `CollectionsSearch` and
`CollectionsManagement`.  A script's question to `collections-info` is one step of
`CollectionsManagement`, whose parts are those of `CollectionsSearch`; its look-ups in the
configuration file are `UserConfiguration`, where set-user-...-dir is a process like any
other.  `AbstractConfiguration` and `AbstractLog` are implemented by way of refinement
mappings, see section 3.  `Interface` is the way from a program to the operations of all the
others, which model the classes of the implementation.

The five modules of `Programs` are the two sides that the library connects.  `ModelRoutines` is
what happens in the one step `RoutineSucceeds` of `ModelCreation` and what `KIMModel` calls in its
*Begin* actions.  `Callbacks` has the values of the pointers of which `KIMModel` knows whether they
are set.  `PairModels` is what a model does between `ComputeBegin` and `ComputeEnd` of `KIMModel`;
`TestPrograms` is a simulator that calls them, for Models that differ in everything it asks.
`Utilities` calls `Model` and `SimulatorModel`, of which it sees only whether they fail.

### State and actions of `KIMModel`

`models` and `args` map handles to records or to "no object"; a record has the fields of the
C++ object that some operation reads.  `frame` gives for each thread the call it has
outstanding with the objects it was given.  Two ghost variables, `owner` (the Model a
ComputeArguments was created by) and `held` (which list the model obtained last, by thread
and list index), and two ghost fields, `accepted` and `published`, exist for the properties
only.

Each C++ call that runs a routine of the model is two actions, *Begin* (everything before
the routine) and *End* (everything after it), and each call the routine makes through its
view is an action enabled in between.  Everything else is one action.

| code | action |
|---|---|
| `ModelImplementation::Create` / `Destroy` | `Create`, `Destroy` |
| `ComputeArgumentsCreate`, `ModelComputeArgumentsCreate` | `ComputeArgumentsCreateBegin`, `...End` |
| `ModelComputeArgumentsCreate::Set{Argument,Callback}SupportStatus` | `ModelSetsArgumentSupportStatus`, `ModelSetsCallbackSupportStatus` |
| `ComputeArgumentsDestroy` | `ComputeArgumentsDestroy` |
| `ComputeArguments::Set{Argument,Callback}Pointer` | `SimulatorSetsArgumentPointer`, `SimulatorSetsCallbackPointer` |
| `Compute`, `ModelCompute` | `ComputeBegin`, `ComputeEnd` |
| `ModelComputeArguments::GetNeighborList` | `GetNeighborList`; `GetNeighborListPastTheEnd` when it indexes the storage vector past its end |
| `ClearThenRefresh`, `ModelRefresh` | `ClearThenRefreshBegin`, `ClearThenRefreshEnd` |
| `ModelRefresh::SetInfluenceDistancePointer`, `SetNeighborListPointers` | `ModelSetsInfluenceDistance`, `ModelSetsNeighborLists` |
| `Extension`, `ModelExtension` | `ExtensionBegin`, `ExtensionEnd`; in between the actions of the views in `ExtensionViews` |
| `ModelCreate::SetModelNumbering` in an Extension | `ModelSetsNumbering` |

Abstractions:

* A pointer argument is `absent` (no entry in the map), `null` or `set`; nothing depends on
  which of the two typed overloads set it.
* A particle is its zero-based index.  A storage cell remembers *whose* list it holds; the
  neighbours themselves are converted by `ToModel`.
* Cutoffs and influence distances are small integers; the code only compares them.
* A published pointer is what it points to.  This makes the model's later writes through its
  own pointers, without a call, invisible; the interface says they take effect with the next
  publication.
* An API call that returns an error before it changes anything is a stuttering step.  The
  two that do change something before an error, a failing Refresh and a failing
  ComputeArgumentsCreate, are modelled with their error.
* The model of undefined behaviour: a read past the end of `getNeighborListStorage_` puts
  the thread in `undefined`, where it stays.

The simulator's discipline, which the library relies on and does not check:

* `const` operations of a Model (Compute, ComputeArgumentsCreate and Destroy) may run
  concurrently, with different ComputeArguments (`docs/src/version2-differences.txt:77-81`);
  ClearThenRefresh, Extension and Destroy have the Model to themselves;
* a ComputeArguments is used by one thread at a time;
* a Model is destroyed after the ComputeArguments it created
  (`docs/src/implementation.txt:338-343`).

Nothing else is assumed; in particular a ComputeArguments may be used with, and be destroyed
through, another Model of the same name, and an Extension routine may be passed any free
ComputeArguments.

### State and actions of `ModelCreation`

A creation is one call of `Create` and the life of the Model it returns.  It has two slots
for SharedLibrary objects: `own`, made with the Model, and `driver`, made by
`InitializeParameterizedModel`, which then makes `sharedLibrary_` point to the second and
keeps the first in a local variable.  `stage` is the place in the code the call has reached;
`loaded` counts dlopen against dlclose for each file; `directories` is the scratch
directories on disk.  `allocated` is external: the Models whose routines have hung memory on
the buffer pointer.

| code | action |
|---|---|
| `Create`, `ModelCreate` up to `Collections::Create` | `CreateRejected`, `CreateBegin` |
| `GetItemLibraryFileNameAndCollection` | `ItemNotFound`; a file that is found is the parameter of the next action |
| `SharedLibrary::Open`, `GetDriverName`, `GetType` and the branch on it | `OpenModel` |
| `CreateTemporaryDirectory` | `MakeTemporaryDirectory` (mkdtemp); `ChooseDirectoryName`, then `MakeDirectory` (C++17); `DirectoryNotMade` |
| `WriteParameterFileDirectory`, the names of the files, the swap of the libraries | `WriteParameterFiles`, `ParameterFileNotWritten` |
| look-up and `Open` of the driver | `ItemNotFound`, `OpenDriver` |
| the model's create routine | `RoutineAllocates`, `RoutineFails`, `RoutineSucceeds` |
| the end of `InitializeParameterizedModel`, `Collections::Destroy`, the checks | `RoutineSucceeds` |
| `Destroy`, `ModelDestroy` | `DestroyBegin`, `DestroyRoutineReturns` |
| `~ModelImplementation`, `~SharedLibrary` | `DeleteModel`, also at the end of a creation that failed |

Abstractions:

* Creations are threads of one process; other processes would share only the directories,
  and add nothing the threads do not do to them.
* A library file is what `Open` and `ModelCreate` tell apart: whether it loads, its schema
  and type, whether it names a driver, how many parameter files it has.
* dlclose of a handle that dlopen returned succeeds.  `GetParameterFile` is called with
  indices below the number of files only, and so succeeds.
* An error while files are written may come with any file.
* The checks after the create routine (`KIM_ModelImplementation.cpp:2223-2344`) are one
  choice to accept or reject: what the routine set does not matter to resources.  They are
  modelled in `ModelRoutines`.
* A routine that returns an error has released what it allocated, and so has a Destroy
  routine when it returns.  What the library does is not in these assumptions.
* After a creation `GetParameterFileDirectoryName` and `GetNumberOfParameterFiles` answer an
  Extension routine with the name of the removed directory and -1; the model has these
  values in its record, but no action that reads them.

### State and actions of `UserConfiguration`

`file` is the configuration file as a sequence of lines, `made` the directories that exist,
`pc` and `dirsMap` the place each process has reached and the map it fills.  A process is a
program that looks up the user collection, or a script that runs set-user-...-dir: `request`,
`round` and `gathered` are the script's.  `chosen`, `truncated` and `abandoned` are history.

| code | action |
|---|---|
| `PrivateGetUserDirs` (`KIM_CollectionsImplementation.cpp:254` on): open, read | `BeginLookUp`, `OpenConfigurationFile`, `ReadConfigurationFile`; `ReadKillsProcess` for a line without a word |
| its rewrite of a file of the old format | `MakeSimulatorDirectory`, `...Fails`, `ReopenConfigurationFile`, `ReopenFails`, `RewriteConfigurationFile` |
| `WriteConfigurationFileAndCreateDirectories` (`:677` on) | `CreateConfigurationFile`, `CreateFails`, `MakeDirectories`, `...Fails`, `WriteConfigurationFile` |
| `check_config_file`, `rewrite_config_file_item_type_dir` (`collections-management.in`) | `BeginSet`, and `ScriptReads` at the end of each of the six look-ups |
| a process is killed | `Crash` |

The text is abstracted to the identifier and the directories of a line; a line of LINELEN
characters is one with more than `Capacity` directories.  What a process writes replaces the
file from its start.

### State and actions of `CollectionsSearch`, `CollectionsManagement`

An item is a triple of directory, type and name; `disk` is the set of those whose library
file exists.  `Install` and `Remove` of `CollectionsSearch` are other processes.  A search is
one step for each place it tests (`PassPlace`, `FindPlace`, `NextType`, `NotFound`), a list
one step for each directory (`ListDirectory`, `ListNames`); metadata are found in two searches
(`FindMetadataCollection`, `FindMetadata`).  `GetItemName` and
`GetItemMetadataFile` read the cached lists by index, and `fetched` is what the last of them
returned; `stable` is history: what has been on disk since the call began.

In `CollectionsManagement` `script` has the shell variables of each script, and `stage` the
function it is in:

| function of the script | actions |
|---|---|
| the main part | `BeginInstall`, `BeginReinstall`, `BeginRemove`, `BeginRemoveAll`; `ListItems`, `TakeItem` |
| `get_build_install_item`, with `check_for_local_build` | `FindSources`, `LookForItem`, `DecideOnItem`, `Configure`, `CheckDriver`, `Make` |
| `remove_item` | `FindToRemove`, `LocateToRemove`, `Delete` |

Downloads, CMake and make succeed or fail.  The driver of a model is installed by the same
function, called from the build; `model` and `aside` keep the model meanwhile.

### State and actions of `Log`

The three stacks are variables, a step is one access to one of them.  A thread has a sequence
of calls: print functions are foreign code and may call the Log again, up to `MaxCalls`
deep.  `LogEntry` is `GetTimeStamp`, `FormatEntry`, `PrintEntry`, `Printed`; a push of a
print function `PushDefaultPrintFunction`, `PushPointer`; a pop `PopDefaultPrintFunction`,
`PopPointer`, `RefillLanguage`, `RefillPointer`; a construction `Create`, `ReadLanguage`,
`ReadPointer`, `Construct`; SetID, the verbosity stack and Destroy write an entry and then act
(`Rename`, `Push`, `Delete`).  Texts are not modelled; the time stamp is the second.

### State and actions of `SimulatorModel`

An object has its library, the fields of its specification, its template map and the fields
after substitution.  `Create` to `ReadSpecification` are the steps of its creation, each with
its failure; `Delete` is the destructor.  A specification is a sequence of nodes, as the
parser of EDN returns them; they are read as `ReadEdnSchemaV1` does, in pairs,
and keys are replaced in lines of pieces in the order of `std::map`.  The object's field
`added` is history.

### State and actions of `Interface`

A function is a row of one of the tables: its class and name, the class and name of what it
calls, its status and, parameter by parameter in the order of the callee, what it passes.
`In` is an argument as it is, `Index` one that Fortran decrements, `Text` one that is
terminated or made a `std::string`, `Out` the address of a result, `OutText` a result that is
translated; the others differ in when they are translated, tested or dropped.  A function of
Fortran for an array of another rank, a length or the values of an array has a row of its own
that calls the same function of C.

`frames` are the functions on the stack with their arguments.  `Enter` is a call by a program
in one of the languages; `PassOn` is the body of a function up to the call it contains;
`Implementation` is the function at the bottom, which fails or writes its results; `Return` is
the rest of the body.  A value is the name of the parameter that it was at the top, its form
(blanks, null-terminated, string), what indices are counted from and whether the whole array is
there; what a function computes is not in it.  `fault` records a result that is written at NULL
or read though nobody has written it, where the behaviour ends.

### The components of `Components`

`Interface` and `SimulatorModel` are described above.

* `SemVer`: texts are sequences of characters of a small alphabet.  `sorted` is a list kept in
  order with IsLessThan, `call` the last ParseSemVer.
* `Units`: a factor is the vector of its exponents over the numbers that define units, so that
  products are exact.
* `LennardJones612`: for each particle of the loop one step that asks for its list and one that
  goes over it, one for each failing callback; energies are in quarters, because terms are halved
  twice.  The 256 cases of the generated dispatch are a bit vector.  Particles are on a line.
  The error of GetNeighborList is not looked at (`LennardJones612Implementation.hpp:362`), so a
  call that fails leaves in `neighbors` the list of an earlier particle, or nothing of it if the
  simulator's routine has set the number to zero, as those of the examples do; a routine that
  fails and leaves another number is not modelled.  An earlier list may name the particle
  itself, whose distance is zero: `singular` are the particles with such a term, whose results
  are no numbers.  The members of the model are read by each thread step by step: the loop's bound,
  `cachedNumberOfParticles`, is that of the thread that began last.  `unlisted` (particles whose call failed)
  and `overwritten` (threads that another one with another number of particles has overtaken)
  are history.
* `LennardJonesParameters`: one step for each line of the file, then mixing, conversion of
  units, refresh, and the simulator's changes.  A file has at least one species and no more than
  its first line says, cutoffs above zero, and epsilons that are squares of numbers above zero, so that
  the roots of the mixing rule are exact; a value of -1 is the code's mark for one not given.
* `ModelParameters`: registration, accesses by index, and the steps of
  WriteParameterizedModel.
* `Enumerations`: one step for each translation unit that is initialised.  An object of a unit
  that is not is zero, or has its value already if the compiler initialised it statically
  (`early`).  The numbers and names are those of `cpp/src/KIM_*.inc` and the `GetStringMap`
  functions.
* `FortranBindings`: one call that returns a text (a line by two indices, a name, a file, the
  prerelease of a version) and the look-up with what was returned.  A loop of the conversion
  is where it ends; an access outside the texts and variables is recorded in `overrun`, and
  what it reads there is any text.

### State and actions of `ModelRoutines`

`script` is the create routine: its calls in their order, each with its arguments and with what
the routine does with an error (`"returns"`, `"ignored"`, or `"chained"` with `||`).  `model` is what
the calls have stored.  `Examples` are the create routines of the six example models, call by call;
the others of the run leave out a call, make one badly or make one twice.

| code | action |
|---|---|
| a call of the create routine; one left out after an error; its return after an error | `CreateMakes`, `CreateSkips`, `CreateFails` |
| its end and the checks of `ModelCreate` (`KIM_ModelImplementation.cpp:2223-2344`) | `CreateReturns` |
| the call of each routine, with the cast to the form of its language | `CallCompute`, `CallRefresh`, ... , `CallDestroy` |
| what an Extension or Refresh routine calls through its view; its return | `RoutineMakes`, `Returns` |

A function is in the language that its model gives for it: nothing in the library could know.

### State and actions of `Callbacks`

`status`, `entries` and `pointer` are the maps of the object, a callback with language, function
and data; `present` and `got` are variables of the model's routine.  `given` is history: what the
simulator set last with a call that stored it.  The actions are named after the functions;
`Process` is GetNeighborList, ProcessDEDrTerm or ProcessD2EDr2Term up to the simulator's function,
with the numbers that it gets, and `CallbackReturns` their rest.

### State and actions of `PairModels`

Each model has the action that begins its Compute routine and one for a particle of its loop;
`MultiNextList` goes on to the next neighbor list.  `local` are the values a routine keeps in
variables through its loop, `buffer` those that the driver keeps between calls.  `SetCutoff` is
the simulator's SetParameter, `DriverRefresh` the driver's routine.  A potential is a table over the
squared distance, so that sums are exact; a pair's energy is counted in halves.

### State and actions of `TestPrograms`, `Utilities`

An action is a section of a main, from one point where it may end to the next.  In `TestPrograms`
the Model is a record of what it answers, among others what it requires, which calls fail, its
cutoffs, and whether its Refresh routine moves them; the cluster is built as the code does, face by
face, and the neighbor list from it.  In `Utilities` every call may fail.  A pointer is `unset` until
a call writes it; a call through a null pointer is the end, `crashed`.  `simulator-model` opens its
file twice, and other processes may remove or shorten it in between.

## 3. Runs

| run | question | instance | distinct states |
|---|---|---|---|
| `registry` | does any order of status and pointer calls, by whatever view, break the registry? do refreshed lists stay fresh? | 1 Model, 1 object, 2 arguments and 2 callbacks, one of each required by the API; Extension routines use all views | 400 461 |
| `threads` | can threads, Models of one name, refreshes and failures mix up lists? | 2 Models, 2 objects, 2 threads, up to 2 lists and 2 particles, three pairs of numberings | 103 993 |
| `creation` | what do creations that succeed, fail or end leave open or on disk? | 3 creations, one file of each of six kinds, 3 directories, C++17 build | 27 995 |
| `scratch` | whose scratch directory is whose? | 3 creations, a model with driver, a driver, a file of unknown type; build with mkdtemp; removal may fail | 15 351 |
| `look_ups` | what do processes leave that look up at the same time, fail and are killed? | 3 processes, 11 initial files | 45 054 |
| `set_directories` | are settings atomic and do they take effect? | 1 script, 1 program, 2 settings; nothing fails; fairness | 2 202 |
| `search` | what can installations and removals hide? | 1 name, 3 directories, 4 items that come and go, look-ups and lists | 372 954 |
| `manage` | what do the script's commands leave? | 2 names (a model and its driver), 5 directories, 2 scripts; fairness | 110 032 |
| `log` | are defaults and entries sound when print functions call the Log? | 1 thread, 1 object, 3 print functions, stacks of 2, calls 2 deep, 3 seconds | 308 151 |
| `components` | do the components with small state spaces keep what they promise? | see below | 552 823 |
| `programs` | do models, simulators and programs get from the library, and it from them, what is meant? | see below | 551 865 |
| `storage` (violation) | has a list that the model asks for a storage cell? (section 4) | 2 Models, 1 object | to the violation |

What they show, property by property:

* `registry`: `ArgumentsAreComplete` = types, and that a granted request names a particle; a
  supported name has an entry (`SupportedNamesHaveEntries`: `find()->second` is defined, also after
  statuses were lowered and raised again); every required pointer is set during a computation
  (`RequiredPresentInCompute`, which needs the former and that nobody clears one).
  `AcceptedListsAreFresh` (after a successful
  ClearThenRefresh everything was published since it cleared, also when an Extension used every
  view).
* `threads`: `ListsAreOfTheComputation` = lists are visible exactly while a thread computes, also
  after errors (`ListsExposedOnlyInCompute`), and are those of the Model it runs for, complete if
  the simulator was told so (`ComputeSeesModelLists`).  `ConvertedListsAreKept` = what the model
  holds of one call is not overwritten by another (`HeldListsAreIntact`), and on the Model that
  created the object there is a cell for each list, whatever other Models did to the storage
  (`OwnListsHaveStorage`).  `NumbersRoundTrip`.
* `creation`: `LibrariesAreOwned` = types, with counts that are never negative; the linker's
  count is the number of objects with the handle (`HandlesAreCounted`); routines stay loaded
  while they may be called, and a created Model keeps one library, no directory and no
  Collections object (`LibrariesAreKept`).  `NothingElseIsLeft` = what errors leave behind,
  exactly: the library of a model with a driver, with its directory, when the creation fails after
  the files were written (`KIM_ModelImplementation.cpp:3075` on).
* `scratch`: `DirectoriesAreOwned` = no two objects have one directory and none removes
  another's (`DirectoriesAreTheirOwn`); file names a driver gets lie in its own existing directory
  (`NamedFilesExist`).
* `look_ups`: `WrittenFilesAreSound` = types; once a process has truncated the file it can be
  read again, unless somebody is between truncation and write or was stopped there; it names
  simulator model directories that exist.  `SettingsAreTheUsersChoice`: creations and rewrites,
  however they overlap, keep what the user had set.
* `set_directories`: `ImplementsAbstractConfiguration` (every step is an atomic Set, look-up or
  failure of `AbstractConfiguration`, or leaves it alone); `SetTakesEffect` and
  `TruncatedFileIsWritten` (liveness).
* `search`: `StableIsFound` = an item, and the type of a name, that is there from the
  beginning of a look-up to its end is found, unless one is found in an earlier place;
  `ListsAreRight` = types, a list has all that was there while it was made, and the metadata are
  empty after an error.
* `manage`: `InstalledWhereItIsUsed` = types, an installation that succeeds puts the item into
  the first directory of the collection, and a script alone makes it the one simulators find;
  `ModelsHaveDrivers` (unless the script has warned); `RemovalIsExact` = remove-all leaves
  nothing, succeeds with the rights it needs, and only items are removed; `ScriptsEnd`
  (liveness).
* `log`: `DefaultsAreSound` = types, no stack is empty where top() or pop() is called, and no
  object pairs a print function with another's language; `ImplementsAbstractLog`;
  `EntriesAreNumbered` (within a second from 0 without a gap in the order they are printed,
  also when a print function writes).
* `components`: `VersionsAreRight` = IsLessThan is a strict weak order on all versions, the
  standard's on those without numeric identifiers, and ParseSemVer takes every version of the
  grammar apart; `UnitsConvert` = look-ups are in the tables, a factor does not depend on the
  way, a model's units convert; `ResultsAreOfTheEnergy` = energy, particle energies, forces,
  terms and virials are those of the sum over all ordered pairs, and still agree with one another
  where calls for lists failed; `ThreadsStayApart` = a thread stays within its arrays and gives
  exactly the terms of the particles whose lists it got, unless another one with another number
  of particles began meanwhile; `ParametersAreRefreshed` = the tables are the file's, mixed where it is
  silent, cutoffs and shifts follow the simulator, the influence distance covers exactly them;
  `ParametersAreKept` = accesses stay inside, what is got was set, a written model is
  complete; `EnumerationsAgree` = numbers, names and tables agree, the data types of
  arguments, the Log's defaults and the levels of C are right in whatever order the units are
  initialised that the build allows; `FortranShowsTheSame` = where a Fortran variable has
  room for a text it holds that text, the element is the one meant, what does not exist is
  refused where the C++ function tests for it, and a name leads back to its item;
  `CallsArrive` = the implementation's function is the one that is meant, each argument is in its
  place, an index is counted from 0 and a text is a string, and on the way back each result has
  its name and the caller's form, and an error is told wherever C++ tells of it;
  `ResourcesAreOwned` = types, libraries are open as often as objects hold them,
  and a scratch directory lives as long as its object and is its own; `LinesAreSubstituted` =
  lines are those of the file with the standard templates and what was added since the map
  was opened, what the metadata announce can be read, and all fields of the file are there.
* `programs`: `RoutinesAreAsRegistered` = types; whatever create and Extension routines register, the
  routine that a Model calls is there and is called in the form of its language, the simulator is told
  of those that the API requires, and no parameter file is named that is not there.
  `ExamplesAreAccepted` = the examples' create routines succeed with all units they can convert to,
  and the Models then have those units.  `CallbacksArePassedOn` = types; what a model calls and what
  pointers it gets are what the simulator gave last, and the description of an object looks up no
  entry that is missing.  `ResultsAreOfAllPairs` = energy, forces and terms of the five example
  models, over whole lists and over halves, are those of the sum over all pairs.
  `NeighborsAreComplete` = the simulators' cluster is the lattice, and its lists have all neighbors,
  also after a refresh that changes the cutoff.  `RequirementsAreMet` = an example simulator calls
  Compute with all that the Model requires or not at all, and leaves nothing undestroyed.
  `FailuresAreSeen` = types; example models report the errors they get (one does not, section 4),
  and a program that returns has printed whole files, read all fields and closed what it opened.

### Mutants

Every property of a passing run has a mutant of a mapped definition that violates it
(`PROJECT.json`, `mutants`).  The operators marked `Fault:` in the modules are those mutants;
no action uses them.

### Bounds

* *`registry`, `threads`*: two is the least number of lists with which a count may grow, shrink
  and differ between Models.  Two particles make the first differ from the last, and the
  request operators try one below and one above.  Two threads and two objects are enough for
  every pairwise condition; an action involves at most one thread, one Model and one object.
  The registry's rules are per name, so one name of each kind covers them.  Distances 1 and
  2 give every outcome of the comparison.  The constraint `SharedOrMany` of `threads` keeps
  to two cases: threads share one Model that is refreshed, with at most one
  ComputeArguments at a time that lacks something required, or one thread uses Models of every
  numbering, of the same name or another, with one ComputeArguments.
* *`creation`, `scratch`*: three creations let one hold a driver's library while a second fails
  and a third begins, and a directory name be free again for the third.  The six kinds of
  file are one for each branch of `Open` and `ModelCreate`.
* *`look_ups`, `set_directories`*: three processes let one write while a second reads and a
  third begins; the initial files are none, an old one, complete ones, and what editing
  may leave.  No process begins a setting in the first run and nothing fails in the second:
  section 4 says what happens otherwise.
* *`search`*: `Bounds` lets items of two types come and go while one is looked for, and those of
  one type while lists are made.  Three directories, one of them in two collections, give
  every position of an item before and after another.  `MaxLength` is 0, the file whose
  length shows the unsigned arithmetic of the code; `UnsignedModulus` stands for 2^32.
* *`manage`*: one script runs with every command, every option and every failure, or two
  install the model, with its driver and without `--force`, into the environment's and the
  user's collection.
* *`log`*: time passes and levels change while the defaults are those of the start, or the
  defaults change while an object writes one entry or two.  There is one thread: threads
  that use the stacks at the same time race in standard containers, with no outcome to state.
* *`components`*: the values of the constants are defined in `MCComponents`.  For versions: all texts of up to four
  characters of an alphabet of six, longer ones with a fixed beginning, integers of 8 bits, and
  for the comparison series of up to two identifiers of which the first of two is one letter or
  one digit; for the driver: all positions, species and roles of three particles on a line of
  four places, and two threads, one with two particles and one with two or three; any callback may fail; for Fortran:
  variables of up to four characters and texts of up to three, with blanks inside and at the
  end; for the interfaces: every function of each language, with every result that may be
  omitted omitted or not, and success or failure.  A call reads nothing of another, so one call
  is enough.  Two simulator models are created side by side from one valid file, or one has any
  file and any map; the 216 lines are all of up to three pieces, and values are texts of up to
  two.  The enumerations are taken in two sets of units, those that read one another and the
  others, since units that read nothing commute.

* *`programs`*: `MCPrograms` defines the values.  Create routines are those of the examples, and a complete
  one with a call left out, made badly, or made again in another way, at three positions; an
  Extension routine makes one more call of eight.  Callbacks: one required and one optional argument,
  a callback, functions of two languages, and all pairs of numberings; names do not depend on one
  another, so two of a kind would add nothing.  Pairs: three particles on a line within, beyond
  and exactly at the cutoffs, contributing or not in all ways, five models, two sets of parameters;
  a pair needs two particles, and the third shows what is counted twice.  Tests: Models that
  differ from a usable one in one or two answers, clusters of two sizes, two spacings.  Utilities: up
  to two fields of up to two items.

State constraints cut behaviours at states outside of them: a liveness property or refinement
of a run with one (`manage`, `log`) is checked for the behaviours that stay inside. Runs switch
deadlock checking off where behaviours end: a thread in `undefined`, creations whose names are
used up, the end of time in `log`, bounded calls in `components`, programs that end in `programs`.

### Fairness

The library has no queue, lock or retry; a call ends when the foreign routine returns, which it
cannot promise, so the specifications of `KIMModel`, `ModelCreation`, `Log`, `Components` and
`Programs` have no fairness.  A process that reads or writes the configuration file and a
script wait for nobody: what they do next is enabled until they do it, and the operating system
runs them.  `FairSpec` of `UserConfiguration` and `CollectionsManagement` has weak fairness of
the steps of each process, and none for beginning a call.  The downloads and builds of a script
are taken to end.

### Refinement

*`AbstractConfiguration`*: three settings, of which Set changes one, and look-ups that return
all of one moment.  The mapping `CurrentSettings` takes what the file says or, while it is
truncated, what its writer is about to write; `answers` are the processes' answers.  A look-up
is a `LookUp`, `WriteConfigurationFile` or rather the truncation that begins it is the `Set`.

*`AbstractLog`*: one stack of pairs, never empty, and for every object the pair that was on top
when it was created.  `Pairs` cuts the two stacks to the length of the shorter, and is the
library's pair when that is empty: a push takes place with its second half, a pop with its
first, and both refills are no steps.

## 4. What the documentation says and the code does not do

The run `storage` shows one disagreement as a behaviour of the model.  `Compute` resizes
`getNeighborListStorage_` by the numberings of the Model it is called on
(`KIM_ModelImplementation.cpp:1317`, "Resize computeArguments storage if needed"), and
`GetNeighborList` converts by those of the ComputeArguments
(`KIM_ComputeArgumentsImplementation.cpp:889`); the test that the two belong together compares
names (`KIM_ModelImplementation.cpp:1287`).  A ComputeArguments created by one Model object
and used with another of the same name but another simulator numbering indexes an empty
vector.  `ListsHaveStorage` of `KIMModel` is what the comment promises; `OwnListsHaveStorage`
is the part that holds, and is proved.

The others are definitions of the modules with no run of their own.  Each is violated when it
is the one INVARIANT (or PROPERTY) of the run's configuration, with the constants changed as
the last column says; for the parts of `Components` and `Programs` the constants are those of
`MCComponents.cfg` and `MCPrograms.cfg`, and the invariant is that of the instance, such as `subject
= "Simulator" => M!LinesFollowTheMap` or `subject = "Routines" => R!RefreshIsProvided`.

| definition | what is written | what the code does | constants |
|---|---|---|---|
| `KIMModel!OnlyAPIRequires` | "All other arguments and callbacks are not required by the KIM API/PMI" and may have any other status (`docs/src/implementation.txt:353-357`) | a name may be given `requiredByAPI`, and keeps it (`KIM_ComputeArgumentsImplementation.cpp:165`) | `registry` |
| `ModelCreation!DirectoriesAreTheirOwn` | "Creates a new empty directory" (`KIM_FilesystemPath.hpp:181`) | in a C++17 build a directory that exists is taken for created, and all callers try the same names in the same order (`KIM_FilesystemPath.cpp:206, 66`) | `scratch`, `HasFilesystemLibrary = TRUE` |
| `ModelCreation!AllocationsHaveModels` | a model reaches its memory through the Model's buffer pointer, so as not to leak it (`KIM_ModelCreate.hpp:90`) | a Model rejected after its create routine succeeded is deleted without the destroy routine (`KIM_ModelImplementation.cpp:298`) | `creation` |
| `UserConfiguration!WrittenFilesAreUsable` | values may be lists of directories (`INSTALL:193-195`) | the script passes a list on as several lines, and the file cannot be read again (`utils/collections-info.cpp:77`, `collections-management.in:275`) | `set_directories`, `Capacity = 2`, a file with lists of two directories |
| `UserConfiguration!SettingsAreTheUsersChoice` | no limit is named (`INSTALL:193-195`) | a third line that is too long is taken for a file of the old format and overwritten (`KIM_CollectionsImplementation.cpp:302`) | `look_ups`, a file whose third line has more than `Capacity` directories |
| the same | "Rewrite configuration file with provided directory" (`collections-management.in:102`) | of two overlapping commands both succeed and one setting is lost (`:274`) | `set_directories`, `Setters = {p1, p2}` |
| `UserConfiguration!LookUpsSucceed` | a missing file is created (`INSTALL:189-190`) | the file is empty between its creation and its writing, and a program that reads it then fails (`KIM_CollectionsImplementation.cpp:684`) | `look_ups` |
| `UserConfiguration!ConfigurationIsCreated` | the same | after a kill in that interval the file stays empty, and every look-up fails | `set_directories`, no initial file, `MayCrash = TRUE` |
| `CollectionsSearch!TypesFollowDocumentedOrder` | each collection in order and each type within it (`KIM_Collections.hpp:97-99`) | each type, and each collection within it (`KIM_CollectionsImplementation.cpp:579`) | `search`, `Changing = {}` |
| `CollectionsSearch!PastTheEndIsRefused` | true "if `index` is invalid" (`KIM_Collections.hpp:234`) | the tests compare with `>`: the size itself is accepted (`KIM_CollectionsImplementation.cpp:845`) | `search` |
| `CollectionsSearch!LengthIsTheFiles` | "The length of the metadata file" (`KIM_Collections.hpp:221`) | one less; for an empty file the greatest unsigned number (`:853`) | `search` |
| `CollectionsSearch!StringIsNullOtherwise` | "`NULL` otherwise" (`KIM_Collections.hpp:413-414`) | the caller's pointer is left alone (`:1155`) | `search` |
| `Interface!FilesHaveTextOrNull` | the same | the function of C tests its own pointer, which nobody has written, and calls `c_str()` through it (`KIM_Collections_c.cpp:397-400`) | `Interface` of `components` |
| `Interface!FailuresLeaveResults` | "`itemName` is unchanged if an error occurs" (`KIM_Collections.hpp:293`; `:181` for a file's name) | a function of C that returns an error does not write the pointer of its caller (`KIM_Collections_c.cpp:276-283`), and fifteen functions of Fortran convert what that pointer of theirs points to whatever the error code says: `kim_collections_module.f90:482, 713, 794, 848, 1111, 1257`, `kim_model_driver_create_module.f90:377, 416`, `kim_model_module.f90:1132`, `kim_simulator_model_module.f90:489, 670, 709, 846, 884` and the functions these call | `Interface` of `components` |
| `CollectionsManagement!ReinstalledItemsExist` | "Remove and reinstall items" (`collections-management.in:118-119`) | the item is removed before its download and build, which may fail (`:356`) | `manage` |
| `CollectionsManagement!OnlyItemsAreRemoved` | removes the files "associated with the item" (`:127-128`) | the second look-up may find nothing, and a directory is built from the empty answer (`:520`) | `manage`, `Commands = {"remove"}` for two scripts, no constraint |
| `CollectionsManagement!RemoveAllSucceeds` | "Remove all items from all collections" (`:132`) | a directory in two collections is listed twice, and the second removal ends the command (`:1127`) | `manage`, the environment's list is the user's directory |
| `CollectionsManagement!RemoveAllSparesWorkingDirectory` | 'environment', 'user' and 'system' collections (`:1111-1112`) | items of the working directory, too (`:1127`) | `manage` |
| `Log!OneThreadStamps` | many threads may compute with one Model object (`docs/src/version2-differences.txt:78-80`) | each call writes to the Model's Log, whose time stamp and number are assigned without a lock (`KIM_LogImplementation.cpp:384`) | `log`, two threads, `Calls = {"LogEntry"}` |
| `SimulatorModel!LinesFollowTheMap` | each `@<my-key>@` becomes its value (`KIM_SimulatorModel.hpp:274-275`) | keys are replaced one after the other, also in inserted values (`KIM_SimulatorModelImplementation.cpp:328`) | `Simulator` of `components`, values that contain a tag |
| `SimulatorModel!NothingIsReadPastTheEnd` | keys are strings (`KIM_SimulatorModel.hpp:88-89`) | a value that is no string shifts the pairs that follow, and the node after the last key is read without a test (`:1036`) | `Simulator` of `components`, a specification that ends with a key |
| `SemVer!ComparesAsStandard` | "as defined by the Semantic Version 2.0.0 standard" (`KIM_SemVer.hpp:56-57`) | numeric identifiers are dropped before they are compared (`KIM_SemVer.cpp:99`) | as there |
| `SemVer!OnlyVersionsAreAccepted` | an error for a number that is no valid integer (`KIM_SemVer.hpp:86-87`) | an empty text is 0, and a sign is accepted (`KIM_SemVer.cpp:374`) | as there |
| `SemVer!VersionsAreTakenApart` | "The major version number" (`KIM_SemVer.hpp:75`) | a long is assigned to an int, without a test (`:374`) | `IntBits <- 3`, so that 10 does not fit |
| `Units!ErgIsStandard` | "The standard erg unit" (`KIM_EnergyUnit.hpp:147`) | 1.0e7 in place of 1.0e-7 J (`KIM_ModelImplementation.cpp:1631`) | energies `erg`, `J`; the energy's exponent alone is 1 |
| `Units!StatCIsStandard` | "The standard statcoulomb unit" (`KIM_ChargeUnit.hpp:147`) | 2.99792458e-9 in place of 1/2.99792458e9 C (`:1646`) | charges `statC`, `C`; the charge's exponent alone is 1 |
| `LennardJones612!StaysWithinArrays` | as for `OneThreadStamps` | the number of particles is kept in the model object through the loops (`LennardJones612Implementation.cpp:954`), where a thread with more particles makes another one's loops too long | `Computes` of `components` |
| `LennardJones612!FailuresAreReturned` | "everything is good" after the loop (`LennardJones612Implementation.hpp:521`) | the error of GetNeighborList is ignored (`:362`): the loop goes on with the list of an earlier particle or an empty one, and Compute returns success | `Compute` of `components` |
| `ModelParameters!ExtentsArePositive` | "must be > 0." (`KIM_ModelImplementation.cpp:962`) | tests for 0 only (`:960`) | an extent of -1 |
| `ModelParameters!WrittenModelIsComplete` | true if unable to write `CMakeLists.txt` (`KIM_Model.hpp:356-357`) | looks whether the file could be opened (`:1545`) | `MayFill <- TRUE` |
| `FortranBindings!ArraysHoldTheString` | "Convert Fortran string to C character array" (`kim_model_extension_module.f90:507`) | an assignment to the array gives every element the first character (`kim_convert_string_module.f90:89`) | as there |
| `Interface!CallersMayOmit` | "`fileName` and `collection` may be `NULL`" (`KIM_Collections.hpp:178`) | the function of C passes the address of its own pointer and writes `*fileName` without a test (`KIM_Collections_c.cpp:141-163`) | `Interface` of `components` |
| `Interface!StatusTellsAll` | Fortran routines "have their final argument as an error status" (`docs/src/features.txt:55-57`) | are_all_required_present binds a function of C that returns nothing as one that returns an integer, so the status is undefined (`kim_compute_arguments_module.f90:703`, `KIM_ComputeArguments_c.cpp:208`); of two arrays that are too small only the second is reported (`kim_model_module.f90:656`) | as there |
| `Interface!ArraysArrive` | the pointer is that of the simulator's array (`kim_compute_arguments_module.f90:407`) | what is kept is the address of an explicit-shape dummy argument, a copy when the actual argument has a stride; process_dedr_term and process_d2edr2_term pass the first element of an array that may have one (`kim_model_compute_arguments_module.f90:351, 413`) | as there |
| `ModelRoutines!RefreshIsProvided` | "Must be provided if parameter pointers set" (`KIM_ModelImplementation.cpp:2309`) | tested once, after the creation: an Extension routine gets the Model as a ModelCreate (`KIM_ModelExtension.hpp:98`) and may register the first parameter then; ClearThenRefresh, which looks only whether there are parameters (`:1392`), calls a routine that is NULL | `Routines` of `programs` |
| `Callbacks!SettingNullIsInnocuous` | setting the pointer of what is not supported to NULL is "innocuous" (`KIM_ComputeArgumentsImplementation.cpp:343-350, 641`) | the call succeeds and stores nothing: a pointer set before stays, and the model gets it when its Extension routine makes the name supported again | `Callbacks` of `programs` |
| `PairModels!CutoffIsTheParameter` | "shifted to have zero energy at the cutoff radius" (`ex_model_driver_P_Morse.c:31`), the parameter's value (`:586`) | a refresh takes the shift and the influence distance from the new value (`:641`) and leaves `cutsq` as the create routine set it (`:556`), so pairs between an old and a larger new cutoff are left out | `Pairs` of `programs` |
| `Utilities!RefusedArgumentsAreLeft` | a Model that creates no ComputeArguments is no reason to stop (`portable-model-info.cpp:287`), and the object is then NULL (`KIM_Model.hpp:254`) | the callbacks are read only `if (computeArguments != NULL)` (`:315`), and then it is destroyed without a test (`:342`), through the pointer (`KIM_ModelImplementation.cpp:472`) | `Utilities` of `programs` |

More of the same kind, which no module states: kim_model_compute_arguments_destroy sets the
handle to NULL only `if (ierr /= 0)` (`kim_model_module.f90:822`), though "`computeArguments` is
unchanged if an error occurs, otherwise `computeArguments == NULL`" (`KIM_Model.hpp:276-277`), and
the function of C sets it in both cases (`KIM_Model_c.cpp:309`), as a result of which an object
that could not be destroyed is out of reach.  The Fortran constant KIM_CHARGE_UNIT_C is bound to
"KIM_CHARGE_UNIT_c" (`kim_charge_unit_module.f90:86`), which C does not define, and C defines
`KIM_ComputeCallbackNameNot_Equal` for the `KIM_ComputeCallbackName_NotEqual` of its header
(`KIM_ComputeCallbackName_c.cpp:82`): programs that use them cannot be linked.

Three more have no such sentence.  `FortranBindings!NothingOutsideIsTouched`: a text longer than
the variable is followed by one character past the variable's end
(`kim_convert_string_module.f90:51-57`; the version's parts go through local arrays that are
read one element too far, and a pointer that was not set is converted after an error,
`kim_collections_module.f90:713`).  `Enumerations!LevelsOfCAreThoseOfCpp` holds because the
build links the sources of C++ before those of C: with `LinkedBefore <- {}` the levels of C
can be zeros (`KIM_LogVerbosity_c.cpp:110`).  And the two exceptions that `FailuresAreSeen` names:
LennardJones_Ar does not look at the error of GetNeighborList (`LennardJones_Ar.cpp:200`), and then goes
over a list it did not get, and kim-api-simulator-model opens a file a second time without a test
(`simulator-model.cpp:128, 184`), when it may be gone.

## 5. Proofs

All theorems hold for every number of Models, objects, threads, names, lists, particles,
creations, files, directories, items, processes, scripts, logs, parameters and units, and for
every value of these (creations and simulator models are finitely many).  The assumptions are
the named ones of the modules: the API's names are among the names, bounds are natural numbers,
the marks for "nothing" differ from the values, files and tables hold values of their types.
Where a theorem has a hypothesis, the tables below give the reason for it: without it the property
is false of the code, in most cases as section 4 shows.

**`KIMModel_proofs`**: `TypeCorrect` (`TypeOK`) and `CallsCorrect` (`CallsAreSound`: a call
never loses its objects to another; no run checks it) are the two halves of one inductive
invariant.  Neither is inductive alone.  A routine that returns updates the object its frame
refers to, and the result has a type only if that object still exists: this is `CallsAreSound`.
That it exists is preserved because no other call may remove or change it, which in turn needs
that the records in the state have the fields the guards read.  The lemmas follow this: one
group says what each operator on records returns, one says under which condition
(`ObjectsStay`) the calls in progress survive a step that enters, leaves or keeps a call, and
one goes through the actions.

The rest of the module proves the others, each over the first invariant.  Going
through all actions once per property would repeat the same cases, so the module
first says once what a step *does* to an object: `ArgumentsEffect` and `ModelEffect` (a
live object stays as it is, or is changed by one of a few operators, or is created
or removed), and `ComputationUndisturbed` (a thread's computation begins, obtains a
list, ends, or none of what it uses changes).  Each property then needs only its own
strengthening:

| theorem | property | what is added to make it inductive |
|---|---|---|
| `EntriesCorrect` | `SupportedNamesHaveEntries` | `RegistrySound`: also that what the API requires is required, as an entry is made only when a status first rises |
| `RequiredPresent` | `RequiredPresentInCompute` | `RequiredSet` of the object, which only operations on an object at rest undo |
| `AcceptedListsCorrect` | `AcceptedListsAreFresh` | `FreshModel`: what a Model has was published since it was last cleared |
| `NumbersCorrect` | `NumbersRoundTrip` | `OffsetsMatch`: the offset of an object is that of its numberings, which its live owner shares |
| `OwnStorageCorrect` | `OwnListsHaveStorage` | the same, and `SameLists` |
| `ModelListsCorrect` | `ComputeSeesModelLists` | `SameLists`: object and Model agree through the computation |
| `HeldListsCorrect` | `HeldListsAreIntact` | none but that a held list has a cell |
| `ExposureCorrect` | `ListsExposedOnlyInCompute` | none; an Extension never gets past the end of the storage because no lists are visible to it |
| `ArgumentsComplete`, `ListsOfTheComputation`, `ConvertedListsKept` | `ArgumentsAreComplete`, `ListsAreOfTheComputation`, `ConvertedListsAreKept` | conjunctions of the above |

`OffsetsMatch` has a condition: an Extension must not use the view of creation, which
changes a Model's numbering after its objects copied it.  The properties that rest
on it have the same condition.

**`ModelCreation_proofs`** rests on `Shape`: for each stage of a creation, which of its
objects exist, which of them `sharedLibrary_` is, which are open and which have a
directory.  A step of one creation takes its own shape to another (`ShapeStep`) and
leaves those of the others (`OthersStay`).  `HandlesAreCounted` is about all creations at
once: `StepEffect` says that a step changes the handle and the directory of one object
at most, and the counts and directories with it, and `CountsStay` that each of these
changes keeps the count equal to the cardinality.

| theorem | property | what is added |
|---|---|---|
| `CreationTypeCorrect` | `TypeOK` | a count is a cardinality, so never negative |
| `HandlesCorrect` | `HandlesAreCounted` | part of the invariant |
| `RoutinesCorrect` | `RoutinesStayLoaded` | `Shape` gives an object with the handle, so the count is positive |
| `OneLibraryCorrect`, `AbandonedCorrect` | `CreatedModelsKeepOneLibrary`, `OnlyDriverFailuresLeaveLibraries` | follow from `Shape` |
| `OwnDirectoriesCorrect` | `DirectoriesAreTheirOwn` | `Distinct`, for a build without std::filesystem (the C++17 build is in section 4) |
| `NamedFilesCorrect` | `NamedFilesExist` | `Distinct` and `Shape`, with the same condition |
| `OwnersCorrect` | `DirectoriesHaveOwners` | `Owned`, and that an object with a directory is open |
| `LibrariesCorrect`, `LeftOversCorrect`, `LibrariesOwned` | `LibrariesAreKept`, `NothingElseIsLeft`, `LibrariesAreOwned` | conjunctions of the above |
| `DirectoriesOwned` | `DirectoriesAreOwned` | the two about directories, with their condition |

**`CollectionsSearch_proofs`**: `SearchInvariant` is the inductive invariant `SearchInv`.  That
a stable item is found is a statement about the end of a search; what makes it inductive is
what it means in the middle: every place passed so far was passed because nothing stable was
there (`PassedPlaces`), and every type passed had nothing stable in any of its places
(`PassedTypes`).  "Stable" shrinks with every removal, so what was true when a place was
tested stays true.  For lists, what is stable in the directories read so far has been read
(`ReadPlaces`).  At the end of a call these say `StableIsFound` (`StableFound`) and
`ListsAreComplete`; with `TypeCorrect` and `EmptyLists` they give `ListsAreRight`
(`RightLists`).  Nothing is assumed of the directories: they may repeat within a collection
and between collections.

**`UserConfiguration_proofs`**, for any number of processes that overlap in any order.

| theorem | property | hypotheses |
|---|---|---|
| `FilesAreSound` | `WrittenFilesAreSound` | `SingleDirectories`: if there are scripts, no line to start with that can be read is a list; the script breaks lists (section 4).  Processes may fail and be killed anywhere |
| `LookUpsKeepSettings` | `SettingsAreTheUsersChoice` | no setting is under way, and `ThirdLinesFit`: a third line too long is overwritten (section 4) |
| `Refinement` | `ImplementsAbstractConfiguration` | `OneScript`, as of two overlapping commands one setting is lost; `FilesAreComplete` to start with; nobody is killed and nothing fails, as a file stays empty after that (all section 4) |

A file is truncated by one step and filled by another, and both take what the process gathered
earlier.  So the invariant `Inv` of the first theorem is about the maps in the hands of the
processes rather than about the file: whoever is between its decision to write and its write has a map of
all three lists (`Full`) that fit on their lines, and whoever has made directories has made those
of its map, which nobody removes.  `ChoiceInv` adds that all who are about to write have the
same map, that of the user, and that a file which some process will rewrite already says the
same.  For the refinement, `WholeInv` says that the file is usable or empty and about to be filled,
and `ScriptInv` that what the script has read in rounds 4 to 6 is still what the file says: look-ups
meet a usable file, which they do not rewrite, or an empty one, from which they return an error.  The abstract `Set`
is the truncation, and `CurrentSettings` then reads the writer's map.

**`Log_proofs`**: `Defaults` (`DefaultsAreSound`), `Numbering` (`EntriesAreNumbered`) and
`Refinement` (`ImplementsAbstractLog`), each for `OneThread`: threads race in the stacks (section
4).  The depth of calls is not bounded.  `Invariance` is the inductive invariant.  `DefaultsOf`
says for each stage of the frame on top how long the two stacks are and what it holds of them: a
push or pop that is half done is always the last frame's, because the frames below are all in the
print function.  `DefaultsInv` says that the two stacks pair functions with languages as far as
both go.  `FramesInv` is what keeps objects in calls alive: nobody destroys an object that a
frame below uses.  `NumbersInv` relates an object's last stamp and number to the entry printed
last or, between GetTimeStamp and the print function, to the entry in hand, which follows it; an
entry that the print function writes comes after that.

**`CollectionsManagement_proofs`**, for all lists of directories:

| theorem | property | hypotheses |
|---|---|---|
| `TypeCorrect` | `TypeOK` | none |
| `DriversAreInstalled` | `ModelsHaveDrivers` | `Undisturbed`: one script, or all install without `--force`, for a driver may be removed after it was checked; `DisksAreTyped`: what is installed at the start is of the type its sources name |
| `InstallsAreUsed` | `InstalledWhereItIsUsed` | `Undisturbed` |
| `RemovalsAreExact` | `RemovalIsExact` | `Undisturbed`; `Apart`: no directory is in two collections, as the second removal ends the command (section 4) |

`Flow` says what the stage a script is in means for its variables.  `Facts` is about script and
disk: what it has installed is there (`Placed`), what it is about to remove exists (`Safe`), and
from the look-up of the driver on the driver is installed or the script has warned (`Driven`).
Under `Undisturbed` the disk only grows while another script runs, and `Facts` is kept by what
grows.  `Use` and `Rem` are for a script that runs alone, the one about installing: no copy was
found, so the one it makes is the first in any order of search; and the one about remove-all: the
names still to be taken are as many as the copies on disk, counted name by name, and the types
passed have none.

**`Components_proofs`**, over the behaviours of `Components`:

| theorem | property | hypotheses |
|---|---|---|
| `Parameters` | `ParametersAreKept` | `ExtentsFit`: a model registers no more entries than its array has, which the library cannot know; `MayFill = FALSE`: no disk is full, because a file that could be opened counts as written (`WrittenModelIsComplete` of section 4) |
| `Resources` | `ResourcesAreOwned` | none |
| `Fortran` | `FortranShowsTheSame` | none |
| `Conversions` | `UnitsConvert` | none |
| `Refreshes` | `ParametersAreRefreshed` | none |
| `Initialisation` | `EnumerationsAgree` | `CppIsBeforeC`: KIM_LogVerbosity.cpp is initialised before its binding to C, as the build links them; otherwise the levels of C can be zeros (section 4) |
| `Calls` | `CallsArrive` | `RowsAssumption`: each function of the layers fits to the one that it calls, which TLC evaluates on the tables of all functions |
| `SortedVersions` | `ListIsSorted`, a part of `VersionsAreRight` | `VersionsAssumption`: numbers are integers and compared identifiers alphanumeric.  It is so for every text, but that folds and `SelectSeq` return what they do is an induction; TLC evaluates it on the versions of the run |
| `ThreadsTogether` | `ThreadsStayApart` | `CutoffsAssumption`: one of the cutoffs is the greatest.  Numbers of particles may differ and any callback may fail |

* `ParametersInv`: each name is registered once (`RegistryInv`), so an index found for a name stays
  that name's (`HeldInv`), all accesses by it are inside the array (`MemoryInv`), and while a model
  is being written the list of names and the files are those of the parameters already passed, with the
  values in memory (`WriteInv`).
* `ResourcesInv` says which stages have a library and which a directory (`HasByStage`), and of all
  objects together that counts are cardinalities and directories are one each.  As for
  `ModelCreation`, a step does one of four things to what objects share (`Effect`), and each of
  these keeps the counts.
* The trimming of a text stops at its last character that is no blank.  That there is a last one is an
  induction over numbers, but about a *set*, of which the well-founded order of the natural numbers
  gives a least element (`HasLeast`, `LastExists`); no operator has to be passed to a theorem.  `FortranInv`
  keeps the name that the look-up with it will use.
* `UnitsInv`: the factor so far is the sum over the dimensions of the direct factor's parts, to
  which one more conversion adds a difference that telescopes.
* `DriverInv`, for every number of species: the index of a pair in the triangular arrays is one-to-one,
  the same in either order, and leaves no place out (`IndexIs`, from `RowsAreApart` and the greatest row
  that begins no later than a place).  While the file is read, a pair has what the last line that names its two
  species gave, or nothing (`ReadInv`); a line may make species codes known, but no earlier
  line is about those.  The rest follows the stages: what is mixed and converted (`MixedInv`), and that after a refresh
  the tables are those of the arrays (`RefreshedInv`), whose greatest cutoff is the influence distance.
* `EnumerationsInv`, for any sets of translation units and any order of initialisation: what a unit has
  read of another is what that one's constants are or will be.  For the language of the default print
  function this is so because its number is zero, that of memory before it is initialised
  (`LanguageIsCpp`).  That all constants have numbers and names of their own is proved from the tables
  themselves (`TablesAreSound`).
* `CallsInv`, for any tables of functions of which each by itself fits to the one that it calls
  (`RowsAssumption`: the same parameters in the same places, indices and texts converted where the layer
  changes, no more errors below than are told above; TLC evaluates it on the tables of all functions).  That
  the parts fit does not say yet that calls arrive: a function of C may serve Fortran and call another of C,
  which converts nothing, and a result may be dropped on its way.  The invariant says of *every* function on the
  stack that it stands for the same function of the implementation (`StandsFor`), was called by the one before
  (`IsCalledBy`), and has the caller's arguments in the form of its own layer (`ArgumentsAreThose`); on the way
  back each result is in the form of the layer that returned last (`ResultsInv`).  A failed
  attempt showed that three functions of Fortran for the routine WriteParameterizedModel are bound to the
  functions of C for Compute (`kim_model_write_parameterized_model_module.f90:308, 344, 386`): another
  object's functions of the same names, which only serve because both pass on to the same ones below.
* `SortedInv`: no version of the list is less than one before it.  IsLessThan compares identifiers by their
  characters and prereleases by their identifiers; both are instances of one order of sequences by the first place
  where they differ, which is total if the order of the elements is (`LexicographicIsOrder`; that there *is* a
  first place is `HasLeast`).  With the numbers before and "none" after, what remains is a strict weak order
  (`PartsAreOrdered`), and an insertion keeps the list in order for that (`PlaceOfInsertion`, `Inserted`).
* `ThreadsInv`: a computing thread that no other has overtaken with another number of particles finds its own
  number in the model, whoever set it; before its loop goes over a list, that is the particle's own unless the
  call for it failed; and of the particles before its index it has given the terms, for those whose lists it got.
  That these are all pairs within the cutoff needs the influence distance to leave no neighbor out
  (`AllNeighborsAreSeen`).

**`Programs_proofs`**, over the behaviours of `Programs`, each from
`ProgramsAssumption` alone: for any scripts of
registrations, any names, functions and addresses, any Models, spacings and sizes, any number of fields.

| theorem | property | inductive invariant |
|---|---|---|
| `Routines` | `RoutinesAreAsRegistered` | `RoutinesInvariant` |
| `CallbacksPassedOn` | `CallbacksArePassedOn` | `CallbacksInvariant` |
| `RequirementsMet` | `RequirementsAreMet` | `TestInvariant` |
| `Failures` | `FailuresAreSeen` | `PairInvariant` and `UtilitiesInvariant`, of the two subjects |

* `RoutinesInvariant`: at all times every function is stored with its language, and those of the routines
  that the API requires as required (`RoutinesAreSound`); the files can be asked for only while the
  directory is there (`FilesAreSound`); and what the test at the end of the creation found stays true,
  because no later call stores NULL (`CreatedIsSound`).  That a Model with parameters has a Refresh routine
  is part of it only as long as no Extension routine has registered a parameter (`late = {}`): without
  that it is false (`RefreshIsProvided` of section 4).
* `CallbacksInvariant`: a name that was ever supported has an entry (`EntriesAreKept`); through a
  computation what is required is set and what the model was told of is present (`ComputationIsSound`),
  since the simulator makes no call until the model returns.  The particles of a term are
  converted there and back by arithmetic (`ParticlesAreConverted`).
* `TestInvariant`: what a simulator has made and tested when it reaches each section (`MainIsSound`); from
  the loop on, the pointers given are those of the supported arguments, and what a Model requires is among
  them (`RequiredIsGiven`) because the section before stopped for everything else.
* `PairInvariant` says of the loop that it is reached only with particles whose species the model
  knows, or by LennardJones_Ar, which does not test.  `UtilitiesInvariant` says for each program and section which of
  its pointers is set, whether the file or the template map is open and how much has been read.

A failed attempt at the last step of `CallbacksPassedOn` showed that `NumberingOffset` was a CASE without the
branch of equal numberings, undefined where the code leaves the number alone.

Assumptions on constants that these need and the code gives: a default language has its function
(`LogAssumption`), directories that exist at the start are directories
(`ConfigurationAssumption`), the working directory is one place for all types, a driver is of
the type of drivers (`ManagementAssumption`), NULL is no function or pointer, every function is in one
language, models name the language of what they register, and an Extension routine registers no NULL
in place of a routine, which the library would not notice (`ProgramsAssumption`), the values of parameter files and of what a
simulator sets are as section 2 says (`FilesAssumption`), and those of the tables above.

Only model-checked are:

* `LinesAreSubstituted`, and of `VersionsAreRight` what `SortedVersions` leaves, and `ResultsAreOfTheEnergy`:
  they compare what folds and recursive definitions compute over lines, texts and pairs of particles with a
  second definition; for all inputs these are inductions over data, which the provers cannot be given;
* `ResultsAreOfAllPairs` and `NeighborsAreComplete`, sums over sets of pairs and sequences built particle by
  particle: inductions over data, too;
* `ExamplesAreAccepted`, which is about the scripts of the examples: they are values of the constant
  `Scripts`, and the run has all of them;
* liveness (`SetTakesEffect`, `TruncatedFileIsWritten`, `ScriptsEnd`): its fairness is beyond the
  prover.

## 6. Plan

Done: the modules and runs above, two abstract specifications with their refinements, liveness
of scripts and of the configuration file; proofs for `KIMModel`, `ModelCreation`,
`CollectionsSearch`, `UserConfiguration`, `CollectionsManagement` and `Log`, of the two
refinements, of the parameters, the simulator models' resources, the Fortran texts, the units, the
driver's tables, the enumerations, the calls, the order of versions and the threads of `Components`, and of the routines, callbacks, example
simulators and failures of `Programs`.

Left, in this order:

1. The part of `LinesAreSubstituted` that needs no induction: what the metadata announce can be read.
2. `AbstractModel`: a computation as one that sees a snapshot of lists and pointers;
   `KIMModel` shown to implement it.
3. `Create` of `KIMModel` composed with `ModelCreation`, so that a creation may fail at each
   registration of the create routine.

## 7. Not modelled

* *C and Fortran bindings*: handles, that is the creation and destruction of objects through
  them; the views of an Extension; Equal and NotEqual, which compare numbers in each language;
  the values of constants.
* *Generated and vendored code*: the dispatch over the 256 variants of the driver's Compute
  (3 342 lines, one bit vector in `LennardJones612`), `filesystem.hpp` (5 526 lines) and the
  parser of EDN are taken for what they do.
* *Headers*: some 17 000 lines of declarations and their comments; the comments are what
  section 4 quotes.
* *Wording*: messages, `ToString` of objects, formatting of log entries, base64 of embedded
  files, rounding of doubles.
* *Operations*: species codes; the driver's own writing of its parameter file; `list` of the script,
  which changes nothing.
* *Threads that break the discipline of section 2*: Extension, ClearThenRefresh, SetParameter
  and WriteParameterizedModel change a Model without a lock while another thread calls it.
  What happens then is a data race of standard containers; the specification excludes it and
  says nothing of it.
* *Build system, documentation*, and of the examples the simulators and Compute routines in Fortran,
  which follow those of C and C++, collections-example, shared-library-test and the embedding of files
  as base64.

What the map leaves uncovered of the repository's lines is mostly these headers, vendored and
generated files, and the comments and interface blocks of the Fortran modules that declare
constants and handles; of the library's own implementation files
(`cpp/src/KIM_*Implementation.cpp` and those beside them) it covers the state changes of each
component above.  Of 58 793 lines of code, about 18 400 (31 %) are what some definition stands for.
