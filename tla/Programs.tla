------------------------------ MODULE Programs ------------------------------
(***************************************************************************)
(* The two sides that the library connects, and what it passes between     *)
(* them: the routines of a model (ModelRoutines), the arguments and        *)
(* callbacks of a simulator (Callbacks), the Compute routines of the       *)
(* example models (PairModels), the example simulators (TestPrograms) and  *)
(* the programs that print what models say of themselves (Utilities).      *)
(* Each behaviour is one of one of them, its subject; the variables of the *)
(* others are None.                                                        *)
(***************************************************************************)
EXTENDS Integers

CONSTANTS
  NULL,
  \* ModelRoutines
  Functions, LanguageOf, Scripts, LateCalls, Requests, KnownUnits, KnownSpecies,
  \* Callbacks
  ArgumentNames, APIArguments, CallbackNames, APICallbacks, SimulatorFunctions,
  SimulatorLanguageOf, Addresses, NumberingPairs, NumberOfParticles,
  \* PairModels
  Configurations, Cutoffs, NewCutoffs, Phi, DPhiByR, D2Phi, MaxSets,
  \* TestPrograms
  Models, Sizes, Spacings, Cutpad,
  \* Utilities
  MaxFields, MaxItems

VARIABLES
  subject,
  \* ModelRoutines
  script, pc, error, requested, model, stage, call, answer, late,
  \* Callbacks
  numbering, status, entries, pointer, computing, present, callback, got, given, dropped,
  \* PairModels
  pairModel, config, request, buffer, cutoffFile, sets, refreshed, phase, list, particle, local,
  energy, particleEnergy, forces, terms, terms2, asked, created,
  \* TestPrograms
  testProgram, testModel, cells, testSection, made, pointers, particleSpecies, store, fetched,
  spacing, coords, nl, refreshes, testOutcome,
  \* Utilities
  program, section, outcome, exitStatus, object, templateMap, fields, at, arguments, file,
  data, printed

None == "none"

routines == <<script, pc, error, requested, model, stage, call, answer, late>>
passed == <<numbering, status, entries, pointer, computing, present, callback, got, given, dropped>>
pairs ==
  <<pairModel, config, request, buffer, cutoffFile, sets, refreshed, phase, list, particle, local,
    energy, particleEnergy, forces, terms, terms2, asked, created>>
tests ==
  <<testProgram, testModel, cells, testSection, made, pointers, particleSpecies, store, fetched,
    spacing, coords, nl, refreshes, testOutcome>>
utilities ==
  <<program, section, outcome, exitStatus, object, templateMap, fields, at, arguments, file,
    data, printed>>

R == INSTANCE ModelRoutines
CB == INSTANCE Callbacks WITH Functions <- SimulatorFunctions, LanguageOf <- SimulatorLanguageOf,
                              call <- callback
PM == INSTANCE PairModels WITH model <- pairModel, file <- cutoffFile, pc <- phase, i <- particle
TP == INSTANCE TestPrograms WITH program <- testProgram, model <- testModel, pc <- testSection,
                                 species <- particleSpecies, k <- spacing, outcome <- testOutcome
UT == INSTANCE Utilities WITH pc <- section, status <- exitStatus, pointer <- object

\* What they assume of their constants
ASSUME ProgramsAssumption ==
  /\ R!RoutinesAssumption /\ CB!CallbacksAssumption /\ PM!PairModelsAssumption
  /\ TP!TestProgramsAssumption /\ UT!UtilitiesAssumption

(***************************************************************************)
(* One after the other                                                     *)
(***************************************************************************)
NoRoutines ==
  /\ script = None /\ pc = None /\ error = None /\ requested = None /\ model = None
  /\ stage = None /\ call = None /\ answer = None /\ late = None
NothingPassed ==
  /\ numbering = None /\ status = None /\ entries = None /\ pointer = None /\ computing = None
  /\ present = None /\ callback = None /\ got = None /\ given = None /\ dropped = None
NoPairs ==
  /\ pairModel = None /\ config = None /\ request = None /\ buffer = None /\ cutoffFile = None
  /\ sets = None /\ refreshed = None /\ phase = None /\ list = None /\ particle = None
  /\ local = None /\ energy = None /\ particleEnergy = None /\ forces = None /\ terms = None
  /\ terms2 = None /\ asked = None /\ created = None
NoTests ==
  /\ testProgram = None /\ testModel = None /\ cells = None /\ testSection = None /\ made = None
  /\ pointers = None /\ particleSpecies = None /\ store = None /\ fetched = None
  /\ spacing = None /\ coords = None /\ nl = None /\ refreshes = None /\ testOutcome = None
NoUtilities ==
  /\ program = None /\ section = None /\ outcome = None /\ exitStatus = None /\ object = None
  /\ templateMap = None /\ fields = None /\ at = None /\ arguments = None /\ file = None
  /\ data = None /\ printed = None

Init ==
  /\ subject \in {"Routines", "Callbacks", "Pairs", "Tests", "Utilities"}
  /\ IF subject = "Routines" THEN R!Init ELSE NoRoutines
  /\ IF subject = "Callbacks" THEN CB!Init ELSE NothingPassed
  /\ IF subject = "Pairs" THEN PM!Init ELSE NoPairs
  /\ IF subject = "Tests" THEN TP!Init ELSE NoTests
  /\ IF subject = "Utilities" THEN UT!Init ELSE NoUtilities

vars == <<subject, routines, passed, pairs, tests, utilities>>

Next ==
  \/ subject = "Routines" /\ R!Next /\ UNCHANGED <<subject, passed, pairs, tests, utilities>>
  \/ subject = "Callbacks" /\ CB!Next /\ UNCHANGED <<subject, routines, pairs, tests, utilities>>
  \/ subject = "Pairs" /\ PM!Next /\ UNCHANGED <<subject, routines, passed, tests, utilities>>
  \/ subject = "Tests" /\ TP!Next /\ UNCHANGED <<subject, routines, passed, pairs, utilities>>
  \/ subject = "Utilities" /\ UT!Next /\ UNCHANGED <<subject, routines, passed, pairs, tests>>

Spec == Init /\ [][Next]_vars

(***************************************************************************)
(* What must hold, see the modules for the parts.                          *)
(***************************************************************************)
\* Whatever a model registers, in whatever order, and changes in an Extension routine later: a
\* routine that the Model calls is there and called in the form of its language, the simulator is
\* told of those that the API requires, and no parameter file is named that is not there.
RoutinesAreAsRegistered ==
  subject = "Routines" =>
    R!TypeOK /\ R!RoutinesAreRunnable /\ R!RequiredRoutinesAreReported /\ R!ParameterFilesExist

\* The create routines of the example models succeed with all units that they can convert to, and
\* their Models have the units that the simulator asked for.
ExamplesAreAccepted ==
  subject = "Routines" => R!ExamplesAreAccepted /\ R!ModelUnitsAreOfUse

\* Whatever is supported, set, relaxed and set again: a model calls the callbacks and gets the
\* pointers that the simulator gave last, with the simulator's numbers of the particles.
CallbacksArePassedOn ==
  subject = "Callbacks" =>
    CB!TypeOK /\ CB!CallbacksAreRunnable /\ CB!PointersAreGiven /\ CB!SupportedNamesAreShown

\* The energy, the forces and the terms of the example models are those of all pairs, whether a
\* model goes over whole neighbor lists or over halves of them.
ResultsAreOfAllPairs ==
  subject = "Pairs" =>
    PM!EnergyIsOfAllPairs /\ PM!ForcesAreOfTheEnergy /\ PM!SecondTermsAreOfTheEnergy

\* The cluster that an example simulator makes is the lattice, and its lists have all neighbors,
\* also after a refresh has changed the Model's cutoff.
NeighborsAreComplete ==
  subject = "Tests" => TP!ClusterIsTheLattice /\ TP!NeighborsAreComplete

\* An example simulator calls Compute with all that the Model requires, or does not call it, and
\* destroys all that it has created.
RequirementsAreMet ==
  subject = "Tests" => TP!TypeOK /\ TP!ComputeHasWhatTheModelNeeds /\ TP!NothingIsLeft

\* Whichever call fails: an example model gives no results (but LennardJones_Ar), and a program
\* that returns has destroyed and closed what it had, read all of it, and written files whole.
FailuresAreSeen ==
  /\ subject = "Pairs" => PM!TypeOK /\ PM!ErrorsAreReported
  /\ subject = "Utilities" =>
       /\ UT!TypeOK /\ UT!CrashesAreKnown /\ UT!ReturnIsClean
       /\ UT!PrintsWholeFiles /\ UT!ReadsAllFields
=============================================================================
