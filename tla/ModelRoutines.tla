--------------------------- MODULE ModelRoutines ---------------------------
(***************************************************************************)
(* The routines of a Model (KIM_ModelImplementation.cpp): what its create  *)
(* routine registers, what is checked before the simulator gets the Model, *)
(* and how each routine is called afterwards.                              *)
(*                                                                         *)
(* A create routine is a script: the calls it makes in their order, each   *)
(* with what becomes of an error of it: the routine "returns" it, the      *)
(* error is "ignored", or the call is "chained" with || to those before    *)
(* it: it is only made if none of them failed, and the error is returned   *)
(* at the end.  Its other work (allocations, reading files) is the call    *)
(* "Own", which may fail.  An Extension routine may make more calls with   *)
(* the view of the create routine that it can get of the Model (KIM_Model- *)
(* Extension.hpp:98), and a Refresh routine publishes lists.  Numberings   *)
(* and ComputeArguments are in KIMModel, libraries and directories in      *)
(* ModelCreation.                                                          *)
(***************************************************************************)
EXTENDS Integers, Sequences

CONSTANTS
  Functions,      \* the functions of the model's library
  LanguageOf,     \* the language each of them is written in
  Scripts,        \* create routines, each with the function that its library names
  LateCalls,      \* what Extension and Refresh routines may call
  Requests,       \* units a simulator may ask for
  KnownUnits,     \* per dimension, the units there are, "unused" among them
  KnownSpecies,
  NULL

Languages == {"cpp", "c", "fortran"}
RoutineNames ==
  {"Create", "ComputeArgumentsCreate", "Compute", "Extension", "Refresh",
   "WriteParameterizedModel", "ComputeArgumentsDestroy", "Destroy"}
RequiredByAPI ==
  {"Create", "ComputeArgumentsCreate", "Compute", "ComputeArgumentsDestroy", "Destroy"}
Dimensions == {"length", "energy", "charge", "temperature", "time"}

\* A model names the language each of its functions is written in: nothing in the
\* library can know it.
Honest(step) ==
  /\ step.call = "SetRoutinePointer" =>
       /\ step.required \in BOOLEAN
       /\ step.function # NULL =>
            step.function \in Functions /\ step.language = LanguageOf[step.function]
  /\ step.call = "GetParameterFileBasename" => step.index \in Int

RoutinesAssumption ==
  /\ NULL \notin Functions
  /\ LanguageOf \in [Functions -> Languages]
  /\ \A s \in Scripts :
       /\ s.create \in Functions /\ s.files \in Nat
       /\ \A i \in 1 .. Len(s.steps) : Honest(s.steps[i])
  /\ \A l \in LateCalls : Honest(l) /\ (l.call = "SetRoutinePointer" => l.function # NULL)

VARIABLES
  script, pc,    \* the create routine and its next call
  error,         \* an error of its chained calls
  requested,     \* the units the simulator asks for
  model,         \* the Model object
  stage,
  call,          \* the routine of the model that runs, or NoCall
  answer,        \* what the last question for a parameter file was answered
  late           \* ghost: parameters registered after the Model was created

vars == <<script, pc, error, requested, model, stage, call, answer, late>>

NoCall == [routine |-> "none", function |-> NULL, form |-> "none"]

NewModel(s) ==
  [ language |-> [r \in RoutineNames |-> "cpp"],
    required |-> [r \in RoutineNames |-> FALSE],
    function |-> [r \in RoutineNames |-> NULL],
    numberingHasBeenSet |-> FALSE,
    unitsHaveBeenSet |-> FALSE,
    units |-> [d \in Dimensions |-> "unused"],
    influenceDistance |-> NULL,
    numberOfNeighborLists |-> 0, cutoffs |-> NULL, hint |-> FALSE,
    species |-> {}, parameters |-> {}, buffer |-> FALSE,
    \* the parameter files of a parameterized model, in their directory
    numberOfParameterFiles |-> s.files, basenames |-> s.files, directory |-> s.parameterized ]

(***************************************************************************)
(* The registrations.                                                      *)
(***************************************************************************)
\* Fault: the languages are not checked.
PointerFailsName(s) ==
  \/ s.name \notin RoutineNames
  \/ ~s.required /\ s.name \in RequiredByAPI

\* Fault: a routine that the API requires may be registered as not required.
PointerFailsKnown(s) == s.name \notin RoutineNames \/ s.language \notin Languages

PointerFails(s) ==
  \/ s.name \notin RoutineNames \/ s.language \notin Languages
  \/ ~s.required /\ s.name \in RequiredByAPI

\* Fault: the function is stored, the language is that of the routine before.
SetRoutinePointerFunction(m, s) ==
  [m EXCEPT !.required[s.name] = s.required, !.function[s.name] = s.function]

SetRoutinePointer(m, s) ==
  [m EXCEPT !.language[s.name] = s.language, !.required[s.name] = s.required,
            !.function[s.name] = s.function]

\* A model may pass on the units the simulator asks for.
UnitsOf(s) == [d \in Dimensions |-> IF s.units[d] = "requested" THEN requested[d] ELSE s.units[d]]
\* Fault: a model may leave out its units.
UnitsFailUnknown(u) == \E d \in Dimensions : u[d] \notin KnownUnits[d]

UnitsFail(u) ==
  (\E d \in Dimensions : u[d] \notin KnownUnits[d]) \/ u["length"] = "unused" \/ u["energy"] = "unused"

SetUnits(m, u) == [m EXCEPT !.units = u, !.unitsHaveBeenSet = TRUE]
SetModelNumbering(m) == [m EXCEPT !.numberingHasBeenSet = TRUE]
SetSpeciesCode(m, species) == [m EXCEPT !.species = @ \cup {species}]
SetModelBufferPointer(m) == [m EXCEPT !.buffer = TRUE]
SetParameterPointer(m, name) == [m EXCEPT !.parameters = @ \cup {name}]
SetInfluenceDistancePointer(m, d) == [m EXCEPT !.influenceDistance = d]
SetNeighborListPointers(m, s) ==
  [m EXCEPT !.numberOfNeighborLists = s.number, !.cutoffs = s.cutoffs, !.hint = s.hint]

\* Fault: a parameter file may be asked for as long as the Model exists.
IndexIsInvalidAtCreation(m, i) == i < 0 \/ i >= script.files

IndexIsInvalid(m, i) == i < 0 \/ i >= m.numberOfParameterFiles

\* "past the end" and "removed" are answers no caller can use.
ParameterFileBasename(m, i) ==
  IF ~script.parameterized \/ IndexIsInvalid(m, i) THEN "error"
  ELSE IF i >= m.basenames THEN "past the end"
  ELSE IF m.directory THEN "file" ELSE "removed"

(***************************************************************************)
(* The effect of a call s on the Model, and whether it returns an error.   *)
(* A driver that asks for the number of its files refuses any other than   *)
(* the one it expects.                                                     *)
(***************************************************************************)
Fails(m, s) ==
  \/ s.call = "SetRoutinePointer" /\ PointerFails(s)
  \/ s.call = "SetUnits" /\ UnitsFail(UnitsOf(s))
  \/ s.call = "ConvertUnit" /\ requested[s.dimension] = "unused"
  \/ s.call = "SetModelNumbering" /\ ~s.known
  \/ s.call = "SetSpeciesCode" /\ s.species \notin KnownSpecies
  \/ s.call = "SetParameterPointer" /\ s.name \in m.parameters
  \/ s.call = "GetNumberOfParameterFiles" /\ m.numberOfParameterFiles # s.number
  \/ s.call = "GetParameterFileBasename" /\ ParameterFileBasename(m, s.index) = "error"

Effect(m, s) ==
  CASE s.call = "SetRoutinePointer" -> SetRoutinePointer(m, s)
    [] s.call = "SetUnits" -> SetUnits(m, UnitsOf(s))
    [] s.call = "SetModelNumbering" -> SetModelNumbering(m)
    [] s.call = "SetSpeciesCode" -> SetSpeciesCode(m, s.species)
    [] s.call = "SetInfluenceDistancePointer" -> SetInfluenceDistancePointer(m, s.distance)
    [] s.call = "SetNeighborListPointers" -> SetNeighborListPointers(m, s)
    [] s.call = "SetParameterPointer" -> SetParameterPointer(m, s.name)
    [] s.call = "SetModelBufferPointer" -> SetModelBufferPointer(m)
    [] OTHER -> m

\* The call s is made: one that fails changes nothing.
Makes(s, fails) ==
  /\ model' = IF fails THEN model ELSE Effect(model, s)
  /\ answer' = IF s.call = "GetParameterFileBasename"
                THEN ParameterFileBasename(model, s.index) ELSE answer

(***************************************************************************)
(* Calls of the model's routines.  Each language has its form: C++ gets    *)
(* the object, C a structure with a pointer to it and Fortran a handle of  *)
(* that, with the place where it leaves its error.  A routine in another   *)
(* language "SHOULD NEVER GET HERE".                                       *)
(***************************************************************************)
Form(language) ==
  CASE language = "cpp" -> "object"
    [] language = "c" -> "structure"
    [] language = "fortran" -> "handle and error"
    [] OTHER -> "never"

CallOf(r) ==
  [routine |-> r, function |-> model.function[r], form |-> Form(model.language[r])]

\* What ModelCreate checks before the simulator gets the Model.
ListsComplete(m) ==
  /\ m.influenceDistance # NULL
  /\ m.numberOfNeighborLists >= 1
  /\ m.cutoffs # NULL
  /\ 0 <= m.influenceDistance  \* the largest cutoff is searched from 0.0 on
  /\ \A i \in 1 .. m.numberOfNeighborLists : m.cutoffs[i] <= m.influenceDistance
  /\ m.hint

RoutinesComplete(m) == \A r \in RequiredByAPI : m.function[r] # NULL

\* Fault: Refresh is one of the routines that the API requires.
ParametersCompleteAlways(m) == m.function["Refresh"] # NULL

\* Refresh must be provided if there are parameters, and must not be provided, nor
\* WriteParameterizedModel, if there are none.
ParametersComplete(m) ==
  IF m.parameters # {} THEN m.function["Refresh"] # NULL
  ELSE m.function["Refresh"] = NULL /\ m.function["WriteParameterizedModel"] = NULL

Complete(m) ==
  /\ m.numberingHasBeenSet /\ m.unitsHaveBeenSet
  /\ ListsComplete(m) /\ RoutinesComplete(m) /\ ParametersComplete(m)
  /\ m.species # {}

RequestedUnitsAccepted(m) == \A d \in Dimensions : m.units[d] \in {"unused", requested[d]}
IsRoutinePresent(m, r) == m.function[r] # NULL
\* IsRoutinePresent reports a routine that is not there as not required.
IsRoutineRequired(m, r) == m.function[r] # NULL /\ m.required[r]

(***************************************************************************)
(* The create routines of the example models and model drivers: the calls  *)
(* they make of the Model, in their order.  A function is named by its     *)
(* routine and its language.  A cutoff is an integer; those of the drivers *)
(* are read from their files.                                              *)
(***************************************************************************)
Language(f) == f[2]

Routine(name, language, required, errors) ==
  [call |-> "SetRoutinePointer", errors |-> errors, name |-> name, language |-> language,
   required |-> required, function |-> <<name, language>>]
Units(length, energy, errors) ==
  [call |-> "SetUnits", errors |-> errors,
   units |-> [d \in {"length", "energy", "charge", "temperature", "time"} |->
                CASE d = "length" -> length [] d = "energy" -> energy [] OTHER -> "unused"]]
Convert(dimension) == [call |-> "ConvertUnit", errors |-> "returns", dimension |-> dimension]
ModelNumbering(errors) == [call |-> "SetModelNumbering", errors |-> errors, known |-> TRUE]
Species(species, errors) == [call |-> "SetSpeciesCode", errors |-> errors, species |-> species]
Influence(d) == [call |-> "SetInfluenceDistancePointer", errors |-> "ignored", distance |-> d]
Lists(cutoffs) ==
  [call |-> "SetNeighborListPointers", errors |-> "ignored", number |-> Len(cutoffs),
   cutoffs |-> cutoffs, hint |-> TRUE]
Parameter(name, errors) == [call |-> "SetParameterPointer", errors |-> errors, name |-> name]
Buffer == [call |-> "SetModelBufferPointer", errors |-> "ignored"]
Files(n) == [call |-> "GetNumberOfParameterFiles", errors |-> "returns", number |-> n]
File(i) == [call |-> "GetParameterFileBasename", errors |-> "returns", index |-> i]
Own == [call |-> "Own", errors |-> "returns"]
Forget == [call |-> "Forget", errors |-> "ignored"]

Script(language, steps, files, converts) ==
  [create |-> <<"Create", language>>, steps |-> steps, parameterized |-> files > 0, files |-> files, example |-> TRUE,
   converts |-> converts]

TheFour(language, errors) ==
  [i \in 1..4 |-> Routine(<<"ComputeArgumentsCreate", "Compute", "ComputeArgumentsDestroy",
                            "Destroy">>[i], language, TRUE, errors)]

(***************************************************************************)
(* ex_model_driver_P_Morse.  The error of its routine pointers is over-    *)
(* written; the chained calls of its parameters return it.                 *)
(***************************************************************************)
MorseDriverRoutines ==
  <<Routine("ComputeArgumentsCreate", "c", TRUE, "chained"), Routine("Compute", "c", TRUE, "chained"),
    Routine("Refresh", "c", TRUE, "chained"),
    Routine("WriteParameterizedModel", "c", FALSE, "chained"),
    Routine("ComputeArgumentsDestroy", "c", TRUE, "chained"),
    Routine("Destroy", "c", TRUE, "chained"), Forget>>

MorseDriverParameters ==
  [i \in 1..4 |-> Parameter(<<"cutoff", "epsilon", "C", "Rzero">>[i], "returns")]

MorseDriverCreate ==
  Script("c", <<Units("A", "eV", "returns"), ModelNumbering("returns")>>
           \o MorseDriverRoutines
           \o <<Files(1), File(0), Own, Species("Ar", "returns"), Own, Buffer>>
           \o MorseDriverParameters
           \o <<Influence(8), Lists(<<8>>)>>, 1, FALSE)

(***************************************************************************)
(* The models of argon                                                     *)
(***************************************************************************)
MorseCreate ==
  Script("c", <<Units("A", "eV", "chained"), Species("Ar", "chained"), ModelNumbering("chained")>>
           \o TheFour("c", "chained")
           \o <<Buffer, Influence(8), Lists(<<8>>)>>, 0, FALSE)

MorseWithExtensionsCreate ==
  Script("c", <<Units("A", "eV", "chained"), Species("Ar", "chained"), ModelNumbering("chained")>>
           \o <<Routine("ComputeArgumentsCreate", "c", TRUE, "chained"),
                Routine("Compute", "c", TRUE, "chained"), Routine("Extension", "c", FALSE, "chained"),
                Routine("ComputeArgumentsDestroy", "c", TRUE, "chained"),
                Routine("Destroy", "c", TRUE, "chained"),
                Buffer, Influence(8), Lists(<<8>>)>>, 0, FALSE)

MorseMultiCutoffCreate ==
  Script("c", <<Units("A", "eV", "chained"), Species("Ar", "chained"), ModelNumbering("chained")>>
           \o TheFour("c", "chained")
           \o <<Buffer, Influence(8), Lists(<<4, 8>>)>>, 0, FALSE)

LennardJonesConvertUnits ==
  <<Convert("length"), Convert("energy"), Units("requested", "requested", "returns")>>

LennardJonesCreate ==
  Script("cpp", LennardJonesConvertUnits
           \o <<ModelNumbering("ignored"), Influence(8), Lists(<<8>>), Species("Ar", "ignored")>>
           \o TheFour("cpp", "chained")
           \o <<Buffer>>, 0, TRUE)

(***************************************************************************)
(* LennardJones612, with the species Ar and Kr                             *)
(***************************************************************************)
LJ612OpenParameterFiles == <<File(0), Own>>
LJ612ConvertUnits == <<Convert("length"), Convert("energy"), Units("requested", "requested", "returns")>>
LJ612RegisterKIMParameters ==
  [i \in 1..4 |-> Parameter(<<"shift", "cutoffs", "epsilons", "sigmas">>[i], "returns")]
LJ612RegisterKIMFunctions ==
  <<Routine("Destroy", "cpp", TRUE, "chained"), Routine("Refresh", "cpp", TRUE, "chained"),
    Routine("Compute", "cpp", TRUE, "chained"),
    Routine("ComputeArgumentsCreate", "cpp", TRUE, "chained"),
    Routine("ComputeArgumentsDestroy", "cpp", TRUE, "chained")>>

LJ612Create ==
  Script("cpp", LJ612OpenParameterFiles
           \o <<Own, Species("Ar", "returns"), Species("Kr", "returns")>>
           \o LJ612ConvertUnits
           \o <<Influence(8), Lists(<<8>>), ModelNumbering("returns")>>
           \o LJ612RegisterKIMParameters \o LJ612RegisterKIMFunctions
           \o <<Buffer>>, 1, TRUE)

Examples ==
  {MorseDriverCreate, MorseCreate, MorseWithExtensionsCreate, MorseMultiCutoffCreate,
   LennardJonesCreate, LJ612Create}

(***************************************************************************)
(* The Model is created: the routine that the library names is called, it  *)
(* makes its calls and returns.                                            *)
(***************************************************************************)
Init ==
  /\ script \in Scripts /\ pc = 1 /\ error = FALSE
  /\ requested \in Requests
  /\ model = [NewModel(script) EXCEPT
                !.language["Create"] = LanguageOf[script.create],
                !.required["Create"] = TRUE, !.function["Create"] = script.create]
  /\ stage = "creating"
  /\ call = CallOf("Create")
  /\ answer = "none" /\ late = {}

\* The create routine's next call: it is not made, or it succeeds, or it fails.
IsSkipped(s) == s.errors = "chained" /\ error

CreateSkips ==
  /\ stage = "creating" /\ pc \in 1 .. Len(script.steps)
  /\ IsSkipped(script.steps[pc])
  /\ pc' = pc + 1
  /\ UNCHANGED <<script, error, requested, model, stage, call, answer, late>>

CreateMakes ==
  /\ stage = "creating" /\ pc \in 1 .. Len(script.steps)
  /\ ~IsSkipped(script.steps[pc]) /\ ~Fails(model, script.steps[pc])
  /\ Makes(script.steps[pc], FALSE)
  /\ error' = (error /\ script.steps[pc].call # "Forget")
  /\ pc' = pc + 1
  /\ UNCHANGED <<script, requested, stage, call, late>>

CreateFails ==
  /\ stage = "creating" /\ pc \in 1 .. Len(script.steps)
  /\ ~IsSkipped(script.steps[pc])
  /\ Fails(model, script.steps[pc]) \/ script.steps[pc].call = "Own"
  /\ Makes(script.steps[pc], TRUE)
  /\ IF script.steps[pc].errors = "returns"
     THEN stage' = "failed" /\ call' = NoCall /\ UNCHANGED <<pc, error>>
     ELSE /\ pc' = pc + 1
          /\ error' = (error \/ script.steps[pc].errors = "chained")
          /\ UNCHANGED <<stage, call>>
  /\ UNCHANGED <<script, requested, late>>

\* It returns.  After an error the Model is deleted.  Otherwise the files of a
\* parameterized model are removed, and the simulator gets the Model if it is complete.
CreateReturns ==
  /\ stage = "creating" /\ pc = Len(script.steps) + 1
  /\ model' = IF ~error /\ script.parameterized
               THEN [model EXCEPT !.directory = FALSE, !.numberOfParameterFiles = -1,
                                  !.basenames = 0]
               ELSE model
  /\ stage' = IF error THEN "failed" ELSE IF Complete(model) THEN "created" ELSE "rejected"
  /\ call' = NoCall
  /\ UNCHANGED <<script, pc, error, requested, answer, late>>

(***************************************************************************)
(* The simulator calls the Model's routines.                               *)
(***************************************************************************)
Calls(r) == stage = "created" /\ call = NoCall /\ call' = CallOf(r)

CallComputeArgumentsCreate ==
  /\ Calls("ComputeArgumentsCreate")
  /\ UNCHANGED <<script, pc, error, requested, model, stage, answer, late>>

CallComputeArgumentsDestroy ==
  /\ Calls("ComputeArgumentsDestroy")
  /\ UNCHANGED <<script, pc, error, requested, model, stage, answer, late>>

CallCompute ==
  /\ Calls("Compute")
  /\ UNCHANGED <<script, pc, error, requested, model, stage, answer, late>>

CallExtension ==
  /\ IsRoutinePresent(model, "Extension")
  /\ Calls("Extension")
  /\ UNCHANGED <<script, pc, error, requested, model, stage, answer, late>>

CallWriteParameterizedModel ==
  /\ script.parameterized /\ IsRoutinePresent(model, "WriteParameterizedModel")
  /\ Calls("WriteParameterizedModel")
  /\ UNCHANGED <<script, pc, error, requested, model, stage, answer, late>>

\* ClearThenRefresh clears the lists and calls Refresh if there are parameters.
CallRefresh ==
  /\ model.parameters # {}
  /\ Calls("Refresh")
  /\ model' = [model EXCEPT !.influenceDistance = NULL, !.numberOfNeighborLists = 0,
                             !.cutoffs = NULL, !.hint = FALSE]
  /\ UNCHANGED <<script, pc, error, requested, stage, answer, late>>

\* The Model is deleted whatever the routine returns.
CallDestroy ==
  /\ Calls("Destroy")
  /\ stage' = "destroying"
  /\ UNCHANGED <<script, pc, error, requested, model, answer, late>>

\* An Extension routine makes any of the calls, a Refresh routine publishes lists.
RoutineMakes(s) ==
  /\ \/ call.routine = "Extension"
     \/ call.routine = "Refresh"
          /\ s.call \in {"SetInfluenceDistancePointer", "SetNeighborListPointers"}
  /\ Makes(s, Fails(model, s))
  /\ late' = late \cup (model'.parameters \ model.parameters)
  /\ UNCHANGED <<script, pc, error, requested, stage, call>>

Returns ==
  /\ stage \in {"created", "destroying"} /\ call # NoCall
  /\ call' = NoCall
  /\ stage' = IF stage = "destroying" THEN "gone" ELSE stage
  /\ UNCHANGED <<script, pc, error, requested, model, answer, late>>

Next ==
  \/ CreateSkips
  \/ CreateMakes
  \/ CreateFails
  \/ CreateReturns
  \/ CallComputeArgumentsCreate
  \/ CallComputeArgumentsDestroy
  \/ CallCompute
  \/ CallExtension
  \/ CallWriteParameterizedModel
  \/ CallRefresh
  \/ CallDestroy
  \/ \E s \in LateCalls : RoutineMakes(s)
  \/ Returns

Spec == Init /\ [][Next]_vars

-----------------------------------------------------------------------------
\* The Model's routines are functions of its library or NULL, with their languages.
TypeOK ==
  /\ stage \in {"creating", "failed", "rejected", "created", "destroying", "gone"}
  /\ model.language \in [RoutineNames -> Languages]
  /\ model.required \in [RoutineNames -> BOOLEAN]
  /\ model.function \in [RoutineNames -> Functions \cup {NULL}]
  /\ call.routine \in RoutineNames \cup {"none"}

\* Whatever a create routine registers, in whatever order, again and again, and
\* whatever an Extension routine registers later: when the Model calls one of its
\* routines, there is a function, and it is called in the form of the language it is
\* written in; Compute, ComputeArgumentsCreate, ComputeArgumentsDestroy and Destroy are
\* called without a look at the pointer.  Only Refresh may be missing, if an Extension
\* routine registered parameters.
RoutinesAreRunnable ==
  call # NoCall =>
    \/ call.function \in Functions /\ call.form = Form(LanguageOf[call.function])
    \/ call.routine = "Refresh" /\ late # {}

\* A Model has the routines the API requires, and tells the simulator of each that it
\* is there and required, whatever an Extension routine registers.
RequiredRoutinesAreReported ==
  stage \in {"created", "destroying"} =>
    \A r \in RequiredByAPI : IsRoutinePresent(model, r) /\ IsRoutineRequired(model, r)

\* A model driver is given the names of parameter files only while they exist: not
\* by an Extension routine, when the directory of the files has been removed.
ParameterFilesExist == answer \in {"none", "error", "file"}

\* The create routines of the example models succeed, unless their own work fails or
\* the simulator asks for units that a length or an energy cannot be converted to.
ExamplesAreAccepted ==
  script.example =>
    /\ stage # "rejected"
    /\ stage = "failed" =>
         \/ pc <= Len(script.steps) /\ script.steps[pc].call = "Own"
         \/ requested["length"] = "unused" \/ requested["energy"] = "unused"

\* The example models that convert their parameters to the units the simulator asks
\* for get these accepted, and no Model has a length or an energy without a unit.
ModelUnitsAreOfUse ==
  stage = "created" =>
    /\ model.units["length"] # "unused" /\ model.units["energy"] # "unused"
    /\ script.converts => RequestedUnitsAccepted(model)

\* "Must be provided if parameter pointers set" (KIM_ModelImplementation.cpp:2309): a
\* Model with parameters has a Refresh routine.
\* (The code does not keep this: README, "What the documentation says and the code does not do".)
RefreshIsProvided ==
  stage = "created" /\ model.parameters # {} => model.function["Refresh"] # NULL
=============================================================================
