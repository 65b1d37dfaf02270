----------------------------- MODULE Components -----------------------------
(***************************************************************************)
(* The components with small state spaces: those that compute from what    *)
(* they are given (SemVer, Units, the two parts of the Lennard-Jones model *)
(* driver, the parameters of a Model, the enumerations), the interfaces of *)
(* the three languages, and simulator models.  They share nothing, so that *)
(* each behaviour is one of one of them, its subject; the variables of the *)
(* others are None.                                                        *)
(***************************************************************************)
EXTENDS Integers

CONSTANTS
  \* SemVer
  Versions, Strings, MaxSorted, IntBits,
  \* Units
  BaseUnits, Exponents, MaxSteps,
  \* LennardJones612: one thread, and several
  Species, CutoffSq, Phi, DPhiByR,
  Thread, Configurations, Requests, Threads, ConfigurationsTogether, RequestsTogether,
  \* LennardJonesParameters
  ParameterFiles, LengthFactor, NewCutoffs, MaxSets,
  \* ModelParameters
  Blocks, TypeOf, SizeOf, Extents, Values, Paths, Existing, IsParameterized, MayFill, MaxCalls,
  \* Enumerations
  Linked, LinkedBefore, MaximumLevel,
  \* FortranBindings
  Texts, Fields, TriedIndices, MaxLength, UnsignedModulus,
  \* Interface
  RowAt,
  \* SimulatorModel
  Files, NoFile, Contents, Directories, NoDirectory, Objects, Name, Specifications,
  StandardMap, KeyOrder, AddedKeys, AddedValues

VARIABLES
  subject,
  \* SemVer
  sorted, call,
  \* Units
  modelUnits, exponents, first, base, total, steps, lookUps,
  \* LennardJones612
  cachedNumberOfParticles, isShift, config, request, pc, ii, neighbors, flags,
  energy, particleEnergy, forces, virial, particleVirial, terms, singular, unlisted, overwritten,
  \* LennardJonesParameters
  creation, file, line, modelSpecies, cutoffs, epsilons, shift, cutoffsSq2D, shifts2D, influence,
  givenCutoffs, sets, refreshed,
  \* ModelParameters
  parameters, memory, held, given, got, outside, writing, cmakelists, writePath, directory, written, calls,
  \* Enumerations
  pending, early, strings, dataTypes, defaultVerbosity, defaultLanguage, verbosityC,
  \* FortranBindings
  fields, string, ierr, found, overrun, asked,
  \* Interface
  caller, frames, phase, returned, error, failed, fault,
  \* SimulatorModel
  stage, object, specification, loaded, directories

None == "none"

versions == <<sorted, call>>
units == <<modelUnits, exponents, first, base, total, steps, lookUps>>
computation ==
  <<cachedNumberOfParticles, isShift, config, request, pc, ii, neighbors, flags,
    energy, particleEnergy, forces, virial, particleVirial, terms, singular, unlisted, overwritten>>
driver ==
  <<creation, file, line, modelSpecies, cutoffs, epsilons, shift, cutoffsSq2D, shifts2D, influence,
    givenCutoffs, sets, refreshed>>
modelParameters ==
  <<parameters, memory, held, given, got, outside, writing, cmakelists, writePath, directory, written, calls>>
enumerations == <<pending, early, strings, dataTypes, defaultVerbosity, defaultLanguage, verbosityC>>
bindings == <<fields, string, ierr, found, overrun, asked>>
passage == <<caller, frames, phase, returned, error, failed, fault>>
simulators == <<stage, object, specification, loaded, directories>>

V == INSTANCE SemVer
U == INSTANCE Units WITH Units <- BaseUnits
L1 == INSTANCE LennardJones612 WITH
  Threads <- {Thread}, Configurations <- [t \in {Thread} |-> Configurations]
L2 == INSTANCE LennardJones612 WITH
  Configurations <- ConfigurationsTogether, Requests <- RequestsTogether
D == INSTANCE LennardJonesParameters WITH Files <- ParameterFiles, pc <- creation, given <- givenCutoffs
P == INSTANCE ModelParameters
E == INSTANCE Enumerations
F == INSTANCE FortranBindings
I == INSTANCE Interface
M == INSTANCE SimulatorModel

\* What the components assume of their constants
ASSUME ComponentsAssumption ==
  /\ V!IntBitsAssumption /\ V!VersionsAssumption /\ U!UnitsAssumption
  /\ L1!ConfigurationsAssumption /\ L2!ConfigurationsAssumption /\ L2!CutoffsAssumption
  /\ D!FilesAssumption /\ P!BlocksAssumption /\ E!LinkedAssumption /\ F!LengthAssumption
  /\ I!RowsAssumption /\ M!FieldsAssumption

(***************************************************************************)
(* One component after the other                                           *)
(***************************************************************************)
NoVersions == sorted = None /\ call = None
NoUnits ==
  /\ modelUnits = None /\ exponents = None /\ first = None /\ base = None
  /\ total = None /\ steps = None /\ lookUps = None
NoComputation ==
  /\ cachedNumberOfParticles = None /\ isShift = None /\ config = None /\ request = None
  /\ pc = None /\ ii = None /\ neighbors = None /\ flags = None
  /\ energy = None /\ particleEnergy = None /\ forces = None /\ virial = None
  /\ particleVirial = None /\ terms = None /\ singular = None
  /\ unlisted = None /\ overwritten = None
NoDriverParameters ==
  /\ creation = None /\ file = None /\ line = None /\ modelSpecies = None
  /\ cutoffs = None /\ epsilons = None /\ shift = None
  /\ cutoffsSq2D = None /\ shifts2D = None /\ influence = None
  /\ givenCutoffs = None /\ sets = None /\ refreshed = None
NoParameters ==
  /\ parameters = None /\ memory = None /\ held = None /\ given = None /\ got = None /\ outside = None
  /\ writing = None /\ cmakelists = None /\ writePath = None /\ directory = None /\ written = None
  /\ calls = None
NoEnumerations ==
  /\ pending = None /\ early = None /\ strings = None /\ dataTypes = None
  /\ defaultVerbosity = None /\ defaultLanguage = None /\ verbosityC = None
NoBindings ==
  fields = None /\ string = None /\ ierr = None /\ found = None /\ overrun = None /\ asked = None
NoCalls ==
  /\ caller = None /\ frames = None /\ phase = None
  /\ returned = None /\ error = None /\ failed = None /\ fault = None
NoSimulators ==
  stage = None /\ object = None /\ specification = None /\ loaded = None /\ directories = None

Subjects ==
  {"SemVer", "Units", "Compute", "Computes", "Driver", "Parameters", "Enumerations", "Fortran",
   "Interface", "Simulator"}

Init ==
  /\ subject \in Subjects
  /\ IF subject = "SemVer" THEN V!Init ELSE NoVersions
  /\ IF subject = "Units" THEN U!Init ELSE NoUnits
  /\ CASE subject = "Compute" -> L1!Init [] subject = "Computes" -> L2!Init [] OTHER -> NoComputation
  /\ IF subject = "Driver" THEN D!Init ELSE NoDriverParameters
  /\ IF subject = "Parameters" THEN P!Init ELSE NoParameters
  /\ IF subject = "Enumerations" THEN E!Init ELSE NoEnumerations
  /\ IF subject = "Fortran" THEN F!Init ELSE NoBindings
  /\ IF subject = "Interface" THEN I!Init ELSE NoCalls
  /\ IF subject = "Simulator" THEN M!Init ELSE NoSimulators

vars ==
  <<subject, versions, units, computation, driver, modelParameters, enumerations,
    bindings, passage, simulators>>

Next ==
  \/ /\ subject = "SemVer" /\ V!Next
     /\ UNCHANGED <<subject, units, computation, driver, modelParameters, enumerations, bindings,
                    passage, simulators>>
  \/ /\ subject = "Units" /\ U!Next
     /\ UNCHANGED <<subject, versions, computation, driver, modelParameters, enumerations, bindings,
                    passage, simulators>>
  \/ /\ subject = "Compute" /\ L1!Next
     /\ UNCHANGED <<subject, versions, units, driver, modelParameters, enumerations, bindings, passage,
                    simulators>>
  \/ /\ subject = "Computes" /\ L2!Next
     /\ UNCHANGED <<subject, versions, units, driver, modelParameters, enumerations, bindings, passage,
                    simulators>>
  \/ /\ subject = "Driver" /\ D!Next
     /\ UNCHANGED <<subject, versions, units, computation, modelParameters, enumerations, bindings,
                    passage, simulators>>
  \/ /\ subject = "Parameters" /\ P!Next
     /\ UNCHANGED <<subject, versions, units, computation, driver, enumerations, bindings, passage,
                    simulators>>
  \/ /\ subject = "Enumerations" /\ E!Next
     /\ UNCHANGED <<subject, versions, units, computation, driver, modelParameters, bindings, passage,
                    simulators>>
  \/ /\ subject = "Fortran" /\ F!Next
     /\ UNCHANGED <<subject, versions, units, computation, driver, modelParameters, enumerations,
                    passage, simulators>>
  \/ /\ subject = "Interface" /\ I!Next
     /\ UNCHANGED <<subject, versions, units, computation, driver, modelParameters, enumerations,
                    bindings, simulators>>
  \/ /\ subject = "Simulator" /\ M!Next
     /\ UNCHANGED <<subject, versions, units, computation, driver, modelParameters, enumerations,
                    bindings, passage>>

Spec == Init /\ [][Next]_vars

(***************************************************************************)
(* What must hold: the properties of each component where it is the        *)
(* subject, see there for their parts.                                     *)
(***************************************************************************)
\* IsLessThan orders versions, as the standard does if no identifier is numeric, and
\* ParseSemVer takes them apart.
VersionsAreRight == subject = "SemVer" => V!VersionsAreRight

\* Conversions between units that are known succeed and agree, whatever the way.
UnitsConvert == subject = "Units" => U!UnitsConvert

\* All results that a simulator asks the model driver for are of one energy.
ResultsAreOfTheEnergy ==
  /\ subject = "Compute" => L1!ResultsAreOfTheEnergy
  /\ subject = "Computes" => L2!ResultsAreOfTheEnergy

\* Threads that compute on one model stay within their own arrays and get their own terms,
\* unless one with another number of particles comes between.
ThreadsStayApart == subject = "Computes" => L2!ThreadsStayApart

\* After a refresh the driver's tables are those of the file and of what was set.
ParametersAreRefreshed == subject = "Driver" => D!ParametersAreRefreshed

\* A simulator reads, sets and writes the parameters it means, also when a model has
\* registered more meanwhile.
ParametersAreKept == subject = "Parameters" => P!ParametersAreKept

\* The library's constants, names and defaults agree in whatever order its translation
\* units are initialised.
EnumerationsAgree == subject = "Enumerations" => E!EnumerationsAgree

\* A Fortran caller sees what the C++ objects hold.
FortranShowsTheSame == subject = "Fortran" => F!FortranShowsTheSame

\* Whatever the caller's language, a call arrives at the function that is meant, and its
\* results come back.
CallsArrive == subject = "Interface" => I!CallsArrive

\* The library and the scratch directory of a simulator model are its own, and gone when it is.
ResourcesAreOwned == subject = "Simulator" => M!ResourcesAreOwned

\* Lines have the values of the template map, whatever was substituted before.
LinesAreSubstituted == subject = "Simulator" => M!LinesAreSubstituted
=============================================================================
