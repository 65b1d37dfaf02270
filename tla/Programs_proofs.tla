-------------------------- MODULE Programs_proofs --------------------------
(***************************************************************************)
(* Theorems about the two sides that the library connects, for every value *)
(* of the constants: the routines of a model, the callbacks of a           *)
(* simulator, the example simulators, the programs that print what models  *)
(* say, and the errors of the example models.                              *)
(***************************************************************************)
EXTENDS Programs, SequenceTheorems, TLAPS

-----------------------------------------------------------------------------
(***************************************************************************)
(* The routines of a Model.                                                *)
(***************************************************************************)
Fields ==
  { "language", "required", "function", "numberingHasBeenSet", "unitsHaveBeenSet", "units",
    "influenceDistance", "numberOfNeighborLists", "cutoffs", "hint", "species", "parameters",
    "buffer", "numberOfParameterFiles", "basenames", "directory" }

\* Every function is stored with its language, and those of the routines that the API requires
\* as required.
RoutinesAreSound(m) ==
  /\ DOMAIN m = Fields
  /\ m.language \in [R!RoutineNames -> R!Languages]
  /\ m.required \in [R!RoutineNames -> BOOLEAN]
  /\ m.function \in [R!RoutineNames -> Functions \cup {NULL}]
  /\ \A r \in R!RoutineNames : m.function[r] # NULL => m.language[r] = LanguageOf[m.function[r]]
  /\ \A r \in R!RequiredByAPI : m.function[r] # NULL => m.required[r]

\* The parameter files can be asked for while they are there.
FilesAreSound(m) ==
  script.parameterized =>
    \/ m.numberOfParameterFiles = m.basenames /\ m.directory
    \/ m.numberOfParameterFiles = -1

\* What the checks at the end of the creation leave to be true of a Model.
CreatedIsSound ==
  stage \in {"created", "destroying"} =>
    /\ \A r \in R!RequiredByAPI : model.function[r] # NULL
    /\ late = {} /\ model.parameters # {} => model.function["Refresh"] # NULL

RoutinesInvariant ==
  /\ stage \in {"creating", "failed", "rejected", "created", "destroying", "gone"}
  /\ script \in Scripts
  /\ RoutinesAreSound(model)
  /\ FilesAreSound(model)
  /\ CreatedIsSound
  /\ call.routine \in R!RoutineNames \cup {"none"}
  /\ R!RoutinesAreRunnable
  /\ R!ParameterFilesExist

LEMMA NewModelSound ==
  ASSUME NEW s, s \in Scripts, s = script, NEW c \in Functions
  PROVE  LET m == [R!NewModel(s) EXCEPT !.language["Create"] = LanguageOf[c],
                                      !.required["Create"] = TRUE, !.function["Create"] = c]
         IN RoutinesAreSound(m) /\ FilesAreSound(m)
<1> DEFINE n == R!NewModel(s)
           m == [n EXCEPT !.language["Create"] = LanguageOf[c],
                          !.required["Create"] = TRUE, !.function["Create"] = c]
<1>1. /\ DOMAIN n = Fields
      /\ n.language = [r \in R!RoutineNames |-> "cpp"]
      /\ n.required = [r \in R!RoutineNames |-> FALSE]
      /\ n.function = [r \in R!RoutineNames |-> NULL]
      /\ n.numberOfParameterFiles = s.files /\ n.basenames = s.files /\ n.directory = s.parameterized
  BY DEF R!NewModel, Fields
<1>2. /\ DOMAIN m = DOMAIN n
      /\ m.language = [n.language EXCEPT !["Create"] = LanguageOf[c]]
      /\ m.required = [n.required EXCEPT !["Create"] = TRUE]
      /\ m.function = [n.function EXCEPT !["Create"] = c]
      /\ m.numberOfParameterFiles = n.numberOfParameterFiles
      /\ m.basenames = n.basenames /\ m.directory = n.directory
  <2> HIDE DEF n
  <2> QED BY <1>1 DEF Fields
<1> HIDE DEF m, n
<1>3. "Create" \in R!RoutineNames /\ R!RequiredByAPI \subseteq R!RoutineNames /\ "cpp" \in R!Languages
      /\ LanguageOf[c] \in R!Languages /\ c # NULL
  BY ProgramsAssumption DEF R!RoutinesAssumption, R!RoutineNames, R!RequiredByAPI, R!Languages
<1>4. /\ m.language \in [R!RoutineNames -> R!Languages]
      /\ m.function \in [R!RoutineNames -> Functions \cup {NULL}]
  BY <1>1, <1>2, <1>3
<1>r. m.required \in [R!RoutineNames -> BOOLEAN]
  BY <1>1, <1>2, <1>3, Zenon
<1>n. \A r \in R!RoutineNames : m.function[r] # NULL => r = "Create"
  BY <1>1, <1>2, <1>3
<1>5. m.language["Create"] = LanguageOf[c] /\ m.function["Create"] = c
  BY <1>1, <1>2, <1>3
<1>q. m.required["Create"]
  BY <1>1, <1>2, <1>3, Zenon
<1>6. RoutinesAreSound(m)
  BY <1>1, <1>2, <1>3, <1>4, <1>5, <1>r, <1>n, <1>q DEF RoutinesAreSound
<1>7. FilesAreSound(m)
  BY <1>1, <1>2 DEF FilesAreSound
<1> QED BY <1>6, <1>7 DEF m, n

LEMMA InitRoutines == R!Init => RoutinesInvariant
<1> SUFFICES ASSUME R!Init PROVE RoutinesInvariant
  OBVIOUS
<1>1. script \in Scripts /\ script.create \in Functions
  BY ProgramsAssumption DEF R!RoutinesAssumption, R!Init
<1>2. RoutinesAreSound(model) /\ FilesAreSound(model)
  BY <1>1, NewModelSound DEF R!Init
<1>3. "Create" \in R!RoutineNames
  BY DEF R!RoutineNames
<1>4. model.function["Create"] \in Functions /\ model.language["Create"] = LanguageOf[model.function["Create"]]
  <2> DEFINE n == R!NewModel(script)
             c == script.create
  <2>1. /\ DOMAIN n = Fields
        /\ n.language = [r \in R!RoutineNames |-> "cpp"]
        /\ n.function = [r \in R!RoutineNames |-> NULL]
    BY DEF R!NewModel, Fields
  <2>2. model = [n EXCEPT !.language["Create"] = LanguageOf[c],
                          !.required["Create"] = TRUE, !.function["Create"] = c]
    BY DEF R!Init
  <2> HIDE DEF n
  <2>3. /\ model.language = [n.language EXCEPT !["Create"] = LanguageOf[c]]
        /\ model.function = [n.function EXCEPT !["Create"] = c]
    BY <2>1, <2>2 DEF Fields
  <2> QED BY <1>1, <1>3, <2>1, <2>3
<1>5. call = R!CallOf("Create")
  BY DEF R!Init
<1>6. R!RoutinesAreRunnable /\ call.routine = "Create"
  BY <1>4, <1>5 DEF R!RoutinesAreRunnable, R!CallOf
<1>7. CreatedIsSound /\ R!ParameterFilesExist
  BY DEF R!Init, CreatedIsSound, R!ParameterFilesExist
<1> QED BY <1>1, <1>2, <1>3, <1>6, <1>7 DEF RoutinesInvariant, R!Init

\* What no call takes away: parameters, parameter files, and functions, unless it stores NULL.
NothingIsTaken(m, n, s) ==
  /\ m.parameters \subseteq n.parameters
  /\ n.numberOfParameterFiles = m.numberOfParameterFiles
  /\ n.basenames = m.basenames /\ n.directory = m.directory
  /\ \A r \in R!RoutineNames :
       m.function[r] # NULL /\ (s.call = "SetRoutinePointer" => s.function # NULL) =>
         n.function[r] # NULL

LEMMA SetRoutineSound ==
  ASSUME NEW m, RoutinesAreSound(m), NEW s, R!Honest(s), s.call = "SetRoutinePointer",
         ~R!PointerFails(s)
  PROVE  LET n == R!SetRoutinePointer(m, s) IN RoutinesAreSound(n) /\ NothingIsTaken(m, n, s)
<1> DEFINE n == R!SetRoutinePointer(m, s)
<1>1. /\ DOMAIN n = DOMAIN m
      /\ n.language = [m.language EXCEPT ![s.name] = s.language]
      /\ n.required = [m.required EXCEPT ![s.name] = s.required]
      /\ n.function = [m.function EXCEPT ![s.name] = s.function]
      /\ n.parameters = m.parameters
      /\ n.numberOfParameterFiles = m.numberOfParameterFiles
      /\ n.basenames = m.basenames /\ n.directory = m.directory
  BY DEF RoutinesAreSound, R!SetRoutinePointer, Fields
<1>2. /\ s.name \in R!RoutineNames /\ s.language \in R!Languages
      /\ s.name \in R!RequiredByAPI => s.required
      /\ s.required \in BOOLEAN
      /\ s.function # NULL => s.function \in Functions /\ s.language = LanguageOf[s.function]
      /\ R!RequiredByAPI \subseteq R!RoutineNames
  BY DEF R!Honest, R!PointerFails, R!RequiredByAPI, R!RoutineNames
<1> HIDE DEF n
<1>3. /\ n.language \in [R!RoutineNames -> R!Languages]
      /\ n.function \in [R!RoutineNames -> Functions \cup {NULL}]
  BY <1>1, <1>2 DEF RoutinesAreSound
<1>4. n.required \in [R!RoutineNames -> BOOLEAN]
  BY <1>1, <1>2, Zenon DEF RoutinesAreSound
<1>5. \A r \in R!RoutineNames : n.function[r] # NULL => n.language[r] = LanguageOf[n.function[r]]
  BY <1>1, <1>2 DEF RoutinesAreSound
<1>6. ASSUME NEW r \in R!RequiredByAPI, n.function[r] # NULL PROVE n.required[r]
  <2>1. CASE r = s.name
    BY <1>1, <1>2, <2>1, Zenon DEF RoutinesAreSound
  <2>2. CASE r # s.name
    <3>1. n.function[r] = m.function[r]
      BY <1>1, <1>2, <2>2 DEF RoutinesAreSound
    <3>2. n.required[r] = m.required[r]
      BY <1>1, <1>2, <2>2, Zenon DEF RoutinesAreSound
    <3> QED BY <1>6, <3>1, <3>2 DEF RoutinesAreSound
  <2> QED BY <2>1, <2>2
<1>7. RoutinesAreSound(n)
  BY <1>1, <1>3, <1>4, <1>5, <1>6 DEF RoutinesAreSound
<1>8. NothingIsTaken(m, n, s)
  BY <1>1, <1>2 DEF NothingIsTaken, RoutinesAreSound
<1> QED BY <1>7, <1>8 DEF n

\* The other calls change neither the routines nor the files.
LEMMA EffectSound ==
  ASSUME NEW m, RoutinesAreSound(m), NEW s, R!Honest(s), ~R!Fails(m, s)
  PROVE  RoutinesAreSound(R!Effect(m, s)) /\ NothingIsTaken(m, R!Effect(m, s), s)
<1> DEFINE n == R!Effect(m, s)
<1>1. CASE s.call = "SetRoutinePointer"
  <2>1. n = R!SetRoutinePointer(m, s) /\ ~R!PointerFails(s)
    BY <1>1 DEF R!Effect, R!Fails
  <2> HIDE DEF n
  <2>2. RoutinesAreSound(n) /\ NothingIsTaken(m, n, s)
    BY <1>1, <2>1, SetRoutineSound
  <2> QED BY <2>2 DEF n
<1>2. CASE s.call # "SetRoutinePointer"
  <2>1. /\ DOMAIN n = DOMAIN m
        /\ n.language = m.language /\ n.required = m.required /\ n.function = m.function
        /\ m.parameters \subseteq n.parameters
        /\ n.numberOfParameterFiles = m.numberOfParameterFiles
        /\ n.basenames = m.basenames /\ n.directory = m.directory
    <3>1. CASE s.call = "SetUnits"
      BY <3>1 DEF R!Effect, R!SetUnits, RoutinesAreSound, Fields
    <3>2. CASE s.call = "SetModelNumbering"
      BY <3>2 DEF R!Effect, R!SetModelNumbering, RoutinesAreSound, Fields
    <3>3. CASE s.call = "SetSpeciesCode"
      BY <3>3 DEF R!Effect, R!SetSpeciesCode, RoutinesAreSound, Fields
    <3>4. CASE s.call = "SetInfluenceDistancePointer"
      BY <3>4 DEF R!Effect, R!SetInfluenceDistancePointer, RoutinesAreSound, Fields
    <3>5. CASE s.call = "SetNeighborListPointers"
      BY <3>5 DEF R!Effect, R!SetNeighborListPointers, RoutinesAreSound, Fields
    <3>6. CASE s.call = "SetParameterPointer"
      BY <3>6 DEF R!Effect, R!SetParameterPointer, RoutinesAreSound, Fields
    <3>7. CASE s.call = "SetModelBufferPointer"
      BY <3>7 DEF R!Effect, R!SetModelBufferPointer, RoutinesAreSound, Fields
    <3>8. CASE s.call \notin { "SetUnits", "SetModelNumbering", "SetSpeciesCode",
                               "SetInfluenceDistancePointer", "SetNeighborListPointers",
                               "SetParameterPointer", "SetModelBufferPointer" }
      <4>1. n = m
        BY <1>2, <3>8 DEF R!Effect
      <4> QED BY <4>1
    <3> QED BY <3>1, <3>2, <3>3, <3>4, <3>5, <3>6, <3>7, <3>8
  <2> HIDE DEF n
  <2>2. RoutinesAreSound(n)
    BY <2>1 DEF RoutinesAreSound
  <2>3. NothingIsTaken(m, n, s)
    BY <2>1 DEF NothingIsTaken
  <2> QED BY <2>2, <2>3 DEF n
<1> QED BY <1>1, <1>2

LEMMA MakesSound ==
  ASSUME RoutinesInvariant, NEW s, R!Honest(s), NEW fails \in BOOLEAN, ~fails => ~R!Fails(model, s),
         R!Makes(s, fails), script' = script
  PROVE  /\ RoutinesAreSound(model') /\ FilesAreSound(model)' /\ R!ParameterFilesExist'
         /\ NothingIsTaken(model, model', s)
<1>1. RoutinesAreSound(model) /\ FilesAreSound(model) /\ R!ParameterFilesExist
  BY DEF RoutinesInvariant
<1>2. RoutinesAreSound(model') /\ NothingIsTaken(model, model', s)
  <2>1. CASE fails
    BY <1>1, <2>1 DEF R!Makes, NothingIsTaken
  <2>2. CASE ~fails
    BY <1>1, <2>2, EffectSound DEF R!Makes
  <2> QED BY <2>1, <2>2
<1>3. FilesAreSound(model)'
  BY <1>1, <1>2 DEF FilesAreSound, NothingIsTaken
<1>4. R!ParameterFilesExist'
  <2>1. CASE s.call # "GetParameterFileBasename"
    BY <1>1, <2>1 DEF R!Makes, R!ParameterFilesExist
  <2>2. CASE s.call = "GetParameterFileBasename"
    <3>1. s.index \in Int /\ answer' = R!ParameterFileBasename(model, s.index)
      BY <2>2 DEF R!Honest, R!Makes
    <3>2. R!ParameterFileBasename(model, s.index) \in {"error", "file"}
      <4>1. CASE ~script.parameterized \/ R!IndexIsInvalid(model, s.index)
        BY <4>1 DEF R!ParameterFileBasename
      <4>2. CASE script.parameterized /\ ~R!IndexIsInvalid(model, s.index)
        <5>1. model.numberOfParameterFiles # -1
          BY <3>1, <4>2, SMT DEF R!IndexIsInvalid
        <5>2. model.numberOfParameterFiles = model.basenames /\ model.directory
          BY <1>1, <4>2, <5>1, Zenon DEF FilesAreSound
        <5>3. ~(s.index >= model.basenames)
          BY <4>2, <5>2, Zenon DEF R!IndexIsInvalid
        <5> QED BY <4>2, <5>2, <5>3, Zenon DEF R!ParameterFileBasename
      <4> QED BY <4>1, <4>2
    <3> QED BY <3>1, <3>2 DEF R!ParameterFilesExist
  <2> QED BY <2>1, <2>2
<1> QED BY <1>2, <1>3, <1>4

\* A routine of a Model that the simulator got can be called, but for Refresh if an Extension
\* routine registered parameters.
LEMMA CallsSound ==
  ASSUME RoutinesInvariant, NEW r \in R!RoutineNames, R!Calls(r),
         model.function[r] # NULL \/ (r = "Refresh" /\ late # {}), late' = late
  PROVE  R!RoutinesAreRunnable' /\ call'.routine \in R!RoutineNames
<1>1. call'.routine = r /\ call'.function = model.function[r] /\ call'.form = R!Form(model.language[r])
  BY DEF R!Calls, R!CallOf
<1>2. RoutinesAreSound(model)
  BY DEF RoutinesInvariant
<1>3. CASE model.function[r] # NULL
  <2>1. model.function[r] \in Functions /\ model.language[r] = LanguageOf[model.function[r]]
    BY <1>2, <1>3 DEF RoutinesAreSound
  <2> QED BY <1>1, <2>1 DEF R!RoutinesAreRunnable
<1>4. CASE r = "Refresh" /\ late # {}
  BY <1>1, <1>4 DEF R!RoutinesAreRunnable
<1> QED BY <1>1, <1>3, <1>4

\* The actions of the create routine.
LEMMA CreationStep ==
  ASSUME RoutinesInvariant, R!CreateSkips \/ R!CreateMakes \/ R!CreateFails \/ R!CreateReturns
  PROVE  RoutinesInvariant'
<1> USE DEF RoutinesInvariant
<1>1. CASE R!CreateSkips
  BY <1>1 DEF R!CreateSkips, RoutinesAreSound, FilesAreSound, CreatedIsSound, R!RoutinesAreRunnable,
              R!ParameterFilesExist
<1>h. ASSUME pc \in 1 .. Len(script.steps) PROVE R!Honest(script.steps[pc])
  BY <1>h, ProgramsAssumption DEF R!RoutinesAssumption
<1>2. CASE R!CreateMakes
  <2>1. /\ RoutinesAreSound(model') /\ FilesAreSound(model)' /\ R!ParameterFilesExist'
    BY <1>h, <1>2, MakesSound DEF R!CreateMakes
  <2>2. UNCHANGED <<script, stage, call, late>> /\ stage = "creating"
    BY <1>2 DEF R!CreateMakes
  <2>3. CreatedIsSound' /\ R!RoutinesAreRunnable'
    BY <2>2 DEF CreatedIsSound, R!RoutinesAreRunnable
  <2> QED BY <2>1, <2>2, <2>3
<1>3. CASE R!CreateFails
  <2>1. /\ RoutinesAreSound(model') /\ FilesAreSound(model)' /\ R!ParameterFilesExist'
    BY <1>h, <1>3, MakesSound DEF R!CreateFails
  <2>2. UNCHANGED <<script, late>> /\ stage' \in {"creating", "failed"} /\ call' \in {call, R!NoCall}
    BY <1>3 DEF R!CreateFails
  <2>3. CreatedIsSound' /\ R!RoutinesAreRunnable'
    BY <2>2 DEF CreatedIsSound, R!RoutinesAreRunnable
  <2> QED BY <2>1, <2>2, <2>3 DEF R!NoCall
<1>4. CASE R!CreateReturns
  <2>1. /\ RoutinesAreSound(model')
        /\ FilesAreSound(model)'
        /\ model'.function = model.function /\ model'.parameters = model.parameters
    BY <1>4 DEF R!CreateReturns, RoutinesAreSound, FilesAreSound, Fields
  <2>2. /\ UNCHANGED <<script, late, answer>> /\ call' = R!NoCall
        /\ stage' \in {"failed", "created", "rejected"}
        /\ stage' = "created" => R!Complete(model)
    BY <1>4 DEF R!CreateReturns
  <2>3. CreatedIsSound'
    BY <2>1, <2>2 DEF CreatedIsSound, R!Complete, R!RoutinesComplete, R!ParametersComplete
  <2>4. R!RoutinesAreRunnable' /\ R!ParameterFilesExist' /\ call'.routine = "none"
    BY <2>2 DEF R!RoutinesAreRunnable, R!ParameterFilesExist, R!NoCall
  <2> QED BY <2>1, <2>2, <2>3, <2>4
<1> QED BY <1>1, <1>2, <1>3, <1>4

\* The simulator calls a routine of a Model that it got, and it returns.
LEMMA SimulatorStep ==
  ASSUME RoutinesInvariant,
         \/ R!CallComputeArgumentsCreate \/ R!CallComputeArgumentsDestroy \/ R!CallCompute
         \/ R!CallExtension \/ R!CallWriteParameterizedModel \/ R!CallRefresh \/ R!CallDestroy \/ R!Returns
  PROVE  RoutinesInvariant'
<1> USE DEF RoutinesInvariant
<1>r. /\ R!RequiredByAPI \subseteq R!RoutineNames
      /\ {"Compute", "Destroy", "ComputeArgumentsCreate", "ComputeArgumentsDestroy"} \subseteq R!RequiredByAPI
      /\ {"Extension", "Refresh", "WriteParameterizedModel"} \subseteq R!RoutineNames
  BY DEF R!RequiredByAPI, R!RoutineNames
\* What all but Refresh leave alone.
<1>u. ASSUME UNCHANGED <<script, model, answer, late>>, stage' \in {stage, "destroying", "gone"},
             stage \in {"created", "destroying"}
      PROVE  RoutinesAreSound(model') /\ FilesAreSound(model)' /\ R!ParameterFilesExist' /\ CreatedIsSound'
  BY <1>u DEF RoutinesAreSound, FilesAreSound, R!ParameterFilesExist, CreatedIsSound
<1>1. ASSUME NEW r \in {"Compute", "ComputeArgumentsCreate", "ComputeArgumentsDestroy"}, R!Calls(r),
             UNCHANGED <<script, model, stage, answer, late>>
      PROVE  RoutinesInvariant'
  <2>1. stage = "created"
    BY <1>1 DEF R!Calls
  <2>2. model.function[r] # NULL
    BY <1>r, <1>1, <2>1 DEF CreatedIsSound
  <2>3. R!RoutinesAreRunnable' /\ call'.routine \in R!RoutineNames
    BY <1>r, <1>1, <2>2, CallsSound
  <2> QED BY <1>1, <1>u, <2>1, <2>3
<1>2. ASSUME NEW r \in {"Extension", "WriteParameterizedModel"}, R!Calls(r), R!IsRoutinePresent(model, r),
             UNCHANGED <<script, model, stage, answer, late>>
      PROVE  RoutinesInvariant'
  <2>1. stage = "created" /\ model.function[r] # NULL
    BY <1>2 DEF R!Calls, R!IsRoutinePresent
  <2>2. R!RoutinesAreRunnable' /\ call'.routine \in R!RoutineNames
    BY <1>r, <1>2, <2>1, CallsSound
  <2> QED BY <1>2, <1>u, <2>1, <2>2
<1>3. CASE R!CallRefresh
  <2>1. stage = "created" /\ R!Calls("Refresh") /\ UNCHANGED <<script, stage, answer, late>>
        /\ model.parameters # {}
    BY <1>3 DEF R!CallRefresh, R!Calls
  <2>2. model.function["Refresh"] # NULL \/ late # {}
    BY <2>1 DEF CreatedIsSound
  <2>3. R!RoutinesAreRunnable' /\ call'.routine \in R!RoutineNames
    BY <1>r, <2>1, <2>2, CallsSound
  <2>4. /\ DOMAIN model' = DOMAIN model
        /\ model'.language = model.language /\ model'.required = model.required
        /\ model'.function = model.function /\ model'.parameters = model.parameters
        /\ model'.numberOfParameterFiles = model.numberOfParameterFiles
        /\ model'.basenames = model.basenames /\ model'.directory = model.directory
    BY <1>3 DEF R!CallRefresh, RoutinesAreSound, Fields
  <2>5. RoutinesAreSound(model') /\ FilesAreSound(model)'
    BY <2>1, <2>4 DEF RoutinesAreSound, FilesAreSound
  <2>6. CreatedIsSound' /\ R!ParameterFilesExist'
    BY <2>1, <2>4 DEF CreatedIsSound, R!ParameterFilesExist
  <2> QED BY <2>1, <2>3, <2>5, <2>6
<1>4. CASE R!CallDestroy
  <2>1. stage = "created" /\ R!Calls("Destroy") /\ stage' = "destroying"
        /\ UNCHANGED <<script, model, answer, late>>
    BY <1>4 DEF R!CallDestroy, R!Calls
  <2>2. model.function["Destroy"] # NULL
    BY <1>r, <2>1 DEF CreatedIsSound
  <2>3. R!RoutinesAreRunnable' /\ call'.routine \in R!RoutineNames
    BY <1>r, <2>1, <2>2, CallsSound
  <2> QED BY <1>u, <2>1, <2>3
<1>5. CASE R!Returns
  <2>1. /\ call' = R!NoCall /\ UNCHANGED <<script, model, answer, late>>
        /\ stage \in {"created", "destroying"} /\ stage' \in {stage, "gone"}
    BY <1>5 DEF R!Returns
  <2>2. R!RoutinesAreRunnable' /\ call'.routine = "none"
    BY <2>1 DEF R!RoutinesAreRunnable, R!NoCall
  <2> QED BY <1>u, <2>1, <2>2
<1> QED
  BY <1>1, <1>2, <1>3, <1>4, <1>5
  DEF R!CallComputeArgumentsCreate, R!CallComputeArgumentsDestroy, R!CallCompute, R!CallExtension,
      R!CallWriteParameterizedModel

\* An Extension or Refresh routine makes a call: it registers no NULL, and what it adds to the
\* parameters is late.
LEMMA RoutineStep ==
  ASSUME RoutinesInvariant, NEW s \in LateCalls, R!RoutineMakes(s)
  PROVE  RoutinesInvariant'
<1>1. R!Honest(s) /\ (s.call = "SetRoutinePointer" => s.function # NULL)
  BY ProgramsAssumption DEF R!RoutinesAssumption
<1>2. /\ R!Makes(s, R!Fails(model, s)) /\ UNCHANGED <<script, stage, call>>
      /\ late' = late \cup (model'.parameters \ model.parameters)
  BY DEF R!RoutineMakes
<1>f. R!Fails(model, s) \in BOOLEAN
  BY DEF R!Fails
<1>3. /\ RoutinesAreSound(model') /\ FilesAreSound(model)' /\ R!ParameterFilesExist'
      /\ NothingIsTaken(model, model', s)
  BY <1>1, <1>2, <1>f, MakesSound
<1>4. /\ \A r \in R!RoutineNames : model.function[r] # NULL => model'.function[r] # NULL
      /\ model.parameters \subseteq model'.parameters
  BY <1>1, <1>3 DEF NothingIsTaken
<1>5. CreatedIsSound'
  <2>1. R!RequiredByAPI \subseteq R!RoutineNames /\ "Refresh" \in R!RoutineNames
    BY DEF R!RequiredByAPI, R!RoutineNames
  <2>2. late' = {} => late = {} /\ model'.parameters = model.parameters
    BY <1>2, <1>4
  <2> QED BY <1>2, <1>4, <2>1, <2>2 DEF CreatedIsSound, RoutinesInvariant
<1>6. R!RoutinesAreRunnable'
  BY <1>2 DEF RoutinesInvariant, R!RoutinesAreRunnable
<1> QED BY <1>2, <1>3, <1>5, <1>6 DEF RoutinesInvariant

\* The inductive invariant of the routines: a Model always stores its functions with their
\* languages, one that the simulator got has what the API requires, and its parameter files can be
\* asked for only while they exist (KIM_ModelImplementation.cpp, KIM_ModelCreate.hpp).
LEMMA RoutinesInductive ==
  RoutinesInvariant /\ [R!Next]_(R!vars) => RoutinesInvariant'
<1> SUFFICES ASSUME RoutinesInvariant, [R!Next]_(R!vars) PROVE RoutinesInvariant'
  OBVIOUS
<1>1. CASE UNCHANGED R!vars
  BY <1>1 DEF R!vars, RoutinesInvariant, RoutinesAreSound, FilesAreSound, CreatedIsSound,
              R!RoutinesAreRunnable, R!ParameterFilesExist
<1>2. CASE R!Next
  BY <1>2, CreationStep, SimulatorStep, RoutineStep DEF R!Next
<1> QED BY <1>1, <1>2

LEMMA RoutinesSound ==
  ASSUME RoutinesInvariant
  PROVE  R!TypeOK /\ R!RoutinesAreRunnable /\ R!RequiredRoutinesAreReported /\ R!ParameterFilesExist
<1>1. R!RequiredByAPI \subseteq R!RoutineNames
  BY DEF R!RequiredByAPI, R!RoutineNames
<1>2. R!RequiredRoutinesAreReported
  BY <1>1
  DEF RoutinesInvariant, RoutinesAreSound, CreatedIsSound, R!RequiredRoutinesAreReported,
      R!IsRoutinePresent, R!IsRoutineRequired
<1>3. R!TypeOK
  BY DEF RoutinesInvariant, RoutinesAreSound, R!TypeOK
<1> QED BY <1>2, <1>3 DEF RoutinesInvariant

\* Whatever is registered, in whatever order: a routine that the Model calls is a function of its
\* library and called in the form of its language (only a Refresh routine may be missing, after an
\* Extension routine has registered parameters), a Model that the simulator got has every routine
\* that the API requires and says so, and no driver is given the name of a file that is not there.
THEOREM Routines == Spec => []RoutinesAreAsRegistered
<1> DEFINE Invariant == subject = "Routines" => RoutinesInvariant
<1>1. Init => Invariant
  BY InitRoutines DEF Init
<1>2. Invariant /\ [Next]_vars => Invariant'
  <2>1. SUFFICES ASSUME Invariant, [Next]_vars, subject' = "Routines" PROVE RoutinesInvariant'
    OBVIOUS
  <2>2. subject = "Routines" /\ [R!Next]_(R!vars)
    BY <2>1 DEF Next, vars, routines, R!vars
  <2> QED BY <2>1, <2>2, RoutinesInductive
<1>3. Invariant => RoutinesAreAsRegistered
  BY RoutinesSound DEF RoutinesAreAsRegistered
<1> QED BY <1>1, <1>2, <1>3, PTL DEF Spec

-----------------------------------------------------------------------------
(***************************************************************************)
(* The callbacks of a simulator and the pointers it gives.                 *)
(***************************************************************************)
\* What Callbacks assumes of its constants.
CallbackConstants ==
  /\ ArgumentNames \cap CallbackNames = {}
  /\ APIArguments \subseteq ArgumentNames /\ APICallbacks \subseteq CallbackNames
  /\ SimulatorLanguageOf \in [SimulatorFunctions -> CB!Languages]
  /\ NULL \notin SimulatorFunctions \cup Addresses
  /\ NumberingPairs \subseteq [model : CB!Numbering, simulator : CB!Numbering]
  /\ NumberOfParticles \in Nat

\* What is supported has an entry, and what has no entry was never set.
EntriesAreKept ==
  /\ pointer = given
  /\ \A n \in CB!Names : status[n] # "notSupported" => n \in entries

\* While the model computes, what is required is set, what it was told of is present, and the
\* pointer it got is the one that is stored.
ComputationIsSound ==
  computing =>
    /\ \A n \in CB!Names : CB!IsRequired(n) => CB!IsSet(n, pointer[n])
    /\ \A n \in CallbackNames : present[n] = "yes" => CB!IsSet(n, pointer[n])
    /\ got.name # "none" => got.name \in CB!Names /\ got.pointer = pointer[got.name]

CallbacksInvariant ==
  /\ CB!TypeOK
  /\ EntriesAreKept
  /\ ComputationIsSound
  /\ callback # CB!NoCall => computing
  /\ CB!CallbacksAreRunnable

\* A callback that is set is a function of the simulator with its language.
LEMMA SettableCallback ==
  ASSUME CallbackConstants, NEW n \in CallbackNames, NEW p \in CB!Settable(n), CB!IsSet(n, p)
  PROVE  /\ p.function \in SimulatorFunctions
         /\ p = CB!Callback(SimulatorLanguageOf[p.function], p.function, p.data)
         /\ p.language = SimulatorLanguageOf[p.function]
<1>1. n \notin ArgumentNames
  BY DEF CallbackConstants
<1>2. p.function # NULL
  BY DEF CB!IsSet
<1>3. p # CB!NoCallback
  BY <1>2 DEF CB!NoCallback, CB!Callback
<1>4. PICK f \in SimulatorFunctions, d \in Addresses \cup {NULL} :
        p = CB!Callback(SimulatorLanguageOf[f], f, d)
  BY <1>1, <1>3 DEF CB!Settable
<1> QED BY <1>4 DEF CB!Callback

LEMMA InitCallbacks ==
  ASSUME CallbackConstants, CB!Init PROVE CallbacksInvariant
<1>1. \A n \in CB!Names : CB!Unset(n) \in CB!Settable(n)
  BY DEF CB!Unset, CB!Settable, CB!Names, CallbackConstants
<1>2. CB!TypeOK
  <2>1. /\ numbering \in [model : CB!Numbering, simulator : CB!Numbering]
        /\ status \in [CB!Names -> CB!SupportStatus]
        /\ entries \subseteq CB!Names /\ dropped \subseteq CB!Names
    BY DEF CB!Init, CallbackConstants, CB!RequiredByAPI, CB!Names, CB!SupportStatus
  <2>2. DOMAIN pointer = CB!Names /\ \A n \in CB!Names : pointer[n] \in CB!Settable(n)
    BY <1>1 DEF CB!Init
  <2>3. /\ computing \in BOOLEAN /\ present \in [CallbackNames -> {"unknown", "yes", "no"}]
        /\ got.name \in ArgumentNames \cup {"none"}
    BY DEF CB!Init, CB!NothingGot
  <2> QED BY <2>1, <2>2, <2>3 DEF CB!TypeOK
<1>3. EntriesAreKept
  BY DEF CB!Init, EntriesAreKept
<1>4. ComputationIsSound /\ callback = CB!NoCall
  BY DEF CB!Init, ComputationIsSound
<1> QED BY <1>2, <1>3, <1>4 DEF CallbacksInvariant, CB!CallbacksAreRunnable

\* Between computations, a name is supported or not, and a pointer is stored.
LEMMA BetweenComputations ==
  ASSUME CallbackConstants, CallbacksInvariant, NEW n \in CB!Names,
         \/ \E s \in CB!SupportStatus : CB!SetSupportStatus(n, s)
         \/ \E p \in CB!Settable(n) : CB!SetPointer(n, p)
  PROVE  CallbacksInvariant'
<1> USE DEF CallbacksInvariant
<1>1. ASSUME NEW s \in CB!SupportStatus, CB!SetSupportStatus(n, s) PROVE CallbacksInvariant'
  <2>1. /\ ~computing /\ status' = [status EXCEPT ![n] = s]
        /\ entries' = CB!EntriesAfter(n, s)
        /\ UNCHANGED <<numbering, pointer, computing, present, callback, got, given, dropped>>
    BY <1>1 DEF CB!SetSupportStatus
  <2>2. CB!TypeOK'
    BY <2>1 DEF CB!TypeOK, CB!EntriesAfter, CB!Settable
  <2>3. EntriesAreKept'
    BY <2>1 DEF EntriesAreKept, CB!EntriesAfter, CB!TypeOK
  <2>4. ComputationIsSound' /\ callback' = CB!NoCall
    BY <2>1 DEF ComputationIsSound
  <2> QED BY <2>1, <2>2, <2>3, <2>4 DEF CB!CallbacksAreRunnable, CB!NoCall
<1>2. ASSUME NEW p \in CB!Settable(n), CB!SetPointer(n, p) PROVE CallbacksInvariant'
  <2>1. /\ ~computing
        /\ \/ pointer' = [pointer EXCEPT ![n] = p] /\ given' = [given EXCEPT ![n] = p]
           \/ UNCHANGED <<pointer, given>>
        /\ entries \subseteq entries' /\ entries' \subseteq entries \cup {n}
        /\ dropped' \subseteq dropped \cup {n}
        /\ UNCHANGED <<numbering, status, computing, present, callback, got>>
    BY <1>2 DEF CB!SetPointer
  <2>2. CB!TypeOK'
    <3>1. DOMAIN pointer' = CB!Names /\ \A m \in CB!Names : pointer'[m] \in CB!Settable(m)
      BY <2>1 DEF CB!TypeOK
    <3> QED BY <2>1, <3>1 DEF CB!TypeOK, CB!Settable
  <2>3. EntriesAreKept'
    BY <2>1 DEF EntriesAreKept, CB!TypeOK
  <2>4. ComputationIsSound' /\ callback' = CB!NoCall
    BY <2>1 DEF ComputationIsSound
  <2> QED BY <2>1, <2>2, <2>3, <2>4 DEF CB!CallbacksAreRunnable, CB!NoCall
<1> QED BY <1>1, <1>2

\* A computation begins and ends, and the model asks for callbacks and pointers.
LEMMA ComputationStep ==
  ASSUME CallbackConstants, CallbacksInvariant,
         \/ CB!ComputeBegins \/ CB!ComputeEnds \/ CB!CallbackReturns
         \/ \E n \in CallbackNames : CB!AskIsCallbackPresent(n)
         \/ \E n \in ArgumentNames : CB!GetArgumentPointer(n)
  PROVE  CallbacksInvariant'
<1> USE DEF CallbacksInvariant
\* What none of them changes.
<1>u. ASSUME UNCHANGED <<numbering, status, entries, pointer, given, dropped>>,
             computing' \in BOOLEAN, present' \in [CallbackNames -> {"unknown", "yes", "no"}],
             got'.name \in ArgumentNames \cup {"none"}
      PROVE  CB!TypeOK' /\ EntriesAreKept'
  BY <1>u DEF CB!TypeOK, EntriesAreKept, CB!Settable
<1>1. CASE CB!ComputeBegins
  <2>1. /\ ~computing /\ computing' = TRUE
        /\ \A n \in CB!Names : CB!IsRequired(n) => CB!IsSet(n, pointer[n])
        /\ present' = [n \in CallbackNames |-> "unknown"] /\ got' = CB!NothingGot
        /\ UNCHANGED <<numbering, status, entries, pointer, callback, given, dropped>>
    BY <1>1 DEF CB!ComputeBegins
  <2>2. ComputationIsSound'
    BY <2>1 DEF ComputationIsSound, CB!IsRequired, CB!IsSet, CB!NothingGot
  <2> QED BY <1>u, <2>1, <2>2 DEF CB!CallbacksAreRunnable, CB!NothingGot
<1>2. CASE CB!ComputeEnds
  <2>1. /\ computing' = FALSE /\ callback = CB!NoCall
        /\ UNCHANGED <<numbering, status, entries, pointer, present, callback, got, given, dropped>>
    BY <1>2 DEF CB!ComputeEnds
  <2>2. ComputationIsSound' /\ callback' = CB!NoCall
    BY <2>1 DEF ComputationIsSound
  <2> QED BY <1>u, <2>1, <2>2 DEF CB!CallbacksAreRunnable, CB!TypeOK, CB!NoCall
<1>3. CASE CB!CallbackReturns
  <2>1. /\ callback' = CB!NoCall
        /\ UNCHANGED <<numbering, status, entries, pointer, computing, present, got, given, dropped>>
    BY <1>3 DEF CB!CallbackReturns
  <2>2. ComputationIsSound'
    BY <2>1 DEF ComputationIsSound, CB!IsRequired, CB!IsSet
  <2> QED BY <1>u, <2>1, <2>2 DEF CB!CallbacksAreRunnable, CB!TypeOK, CB!NoCall
<1>4. ASSUME NEW n \in CallbackNames, CB!AskIsCallbackPresent(n) PROVE CallbacksInvariant'
  <2>1. /\ computing /\ callback = CB!NoCall
        /\ UNCHANGED <<numbering, status, entries, pointer, computing, callback, got, given, dropped>>
    BY <1>4 DEF CB!AskIsCallbackPresent
  <2>2. CASE present' = present
    <3>1. ComputationIsSound'
      BY <2>1, <2>2 DEF ComputationIsSound, CB!IsRequired, CB!IsSet
    <3> QED BY <1>u, <2>1, <2>2, <3>1 DEF CB!CallbacksAreRunnable, CB!TypeOK, CB!NoCall
  <2>3. CASE present' # present
    <3>1. status[n] # "notSupported" /\ n \in CB!Names
      BY <1>4, <2>3 DEF CB!AskIsCallbackPresent, CB!Names
    <3>2. CB!Found(n) = {pointer[n]}
      BY <3>1 DEF CB!Found, EntriesAreKept
    <3>3. present' = [present EXCEPT ![n] = IF CB!IsSet(n, pointer[n]) THEN "yes" ELSE "no"]
      BY <1>4, <3>1, <3>2 DEF CB!AskIsCallbackPresent, CB!IsCallbackPresent
    <3>4. present' \in [CallbackNames -> {"unknown", "yes", "no"}]
      BY <3>3 DEF CB!TypeOK
    <3>5. \A m \in CallbackNames : present'[m] = "yes" => CB!IsSet(m, pointer[m])
      BY <2>1, <3>3 DEF CB!TypeOK, ComputationIsSound
    <3>6. ComputationIsSound'
      BY <2>1, <3>5 DEF ComputationIsSound, CB!IsRequired, CB!IsSet
    <3> QED BY <1>u, <2>1, <3>4, <3>6 DEF CB!CallbacksAreRunnable, CB!TypeOK, CB!NoCall
  <2> QED BY <2>2, <2>3
<1>5. ASSUME NEW n \in ArgumentNames, CB!GetArgumentPointer(n) PROVE CallbacksInvariant'
  <2>1. /\ computing /\ callback = CB!NoCall /\ status[n] # "notSupported" /\ n \in CB!Names
        /\ UNCHANGED <<numbering, status, entries, pointer, computing, present, callback, given, dropped>>
    BY <1>5 DEF CB!GetArgumentPointer, CB!Names
  <2>2. CB!Found(n) = {pointer[n]}
    BY <2>1 DEF CB!Found, EntriesAreKept
  <2>3. got' = [name |-> n, pointer |-> pointer[n]]
    BY <1>5, <2>2 DEF CB!GetArgumentPointer
  <2>4. ComputationIsSound'
    BY <2>1, <2>3 DEF ComputationIsSound, CB!IsRequired, CB!IsSet
  <2> QED BY <1>u, <2>1, <2>3, <2>4 DEF CB!CallbacksAreRunnable, CB!TypeOK, CB!NoCall
<1> QED BY <1>1, <1>2, <1>3, <1>4, <1>5

\* A number of the model's becomes the simulator's, by the same shift.
LEMMA ParticlesAreConverted ==
  ASSUME CallbackConstants, CB!TypeOK, NEW i \in CB!ParticlesOf(numbering.model = "zeroBased")
  PROVE  /\ CB!ToSimulator(i) \in CB!ParticlesOf(numbering.simulator = "zeroBased")
         /\ CB!ToSimulator(i) = i - CB!NumberingOffset
         /\ CB!NumberingOffset \in {-1, 0, 1}
         /\ numbering.model = numbering.simulator => CB!NumberingOffset = 0
         /\ i \in Int
<1>1. /\ numbering.model \in {"zeroBased", "oneBased"} /\ numbering.simulator \in {"zeroBased", "oneBased"}
  BY DEF CB!TypeOK, CB!Numbering
<1>2. NumberOfParticles \in Nat
  BY DEF CallbackConstants
<1>3. /\ CB!ParticlesOf(TRUE) = 0 .. NumberOfParticles - 1
      /\ CB!ParticlesOf(FALSE) = 1 .. NumberOfParticles
  BY DEF CB!ParticlesOf
<1>4. CB!ToSimulator(i) = i - CB!NumberingOffset
  BY DEF CB!ToSimulator
<1>5. CASE numbering.model = numbering.simulator
  <2>1. CB!NumberingOffset = 0
    BY <1>5 DEF CB!NumberingOffset
  <2>2. i \in 0 .. NumberOfParticles - 1 \/ i \in 1 .. NumberOfParticles
    BY <1>1, <1>3
  <2>3. i \in Int /\ i - 0 = i
    BY <1>2, <2>2
  <2> QED BY <1>4, <1>5, <2>1, <2>3
<1>6. CASE numbering.model = "zeroBased" /\ numbering.simulator = "oneBased"
  <2>1. CB!NumberingOffset = -1
    BY <1>6 DEF CB!NumberingOffset
  <2>2. i \in 0 .. NumberOfParticles - 1
    BY <1>3, <1>6
  <2>3. i \in Int /\ i - (-1) \in 1 .. NumberOfParticles
    BY <1>2, <2>2
  <2> QED BY <1>3, <1>4, <1>6, <2>1, <2>3
<1>7. CASE numbering.model = "oneBased" /\ numbering.simulator = "zeroBased"
  <2>1. CB!NumberingOffset = 1
    BY <1>7 DEF CB!NumberingOffset
  <2>2. i \in 1 .. NumberOfParticles
    BY <1>3, <1>7
  <2>3. i \in Int /\ i - 1 \in 0 .. NumberOfParticles - 1
    BY <1>2, <2>2
  <2> QED BY <1>3, <1>4, <1>7, <2>1, <2>3
<1> QED BY <1>1, <1>5, <1>6, <1>7

\* The model calls a callback that it knows to be there.
LEMMA ProcessStep ==
  ASSUME CallbackConstants, CallbacksInvariant, NEW n \in CallbackNames,
         NEW i \in CB!ParticlesOf(numbering.model = "zeroBased"),
         NEW j \in CB!ParticlesOf(numbering.model = "zeroBased"), CB!Process(n, i, j)
  PROVE  CallbacksInvariant'
<1> USE DEF CallbacksInvariant
<1>1. /\ computing /\ n \in CB!Names
      /\ present[n] = "yes" \/ CB!IsRequired(n)
      /\ callback' = [name |-> n, function |-> pointer[n].function, data |-> pointer[n].data,
                      form |-> CB!Form(pointer[n].language), i |-> i, j |-> j,
                      simulatorI |-> CB!ToSimulator(i), simulatorJ |-> CB!ToSimulator(j)]
      /\ UNCHANGED <<numbering, status, entries, pointer, computing, present, got, given, dropped>>
  BY DEF CB!Process, CB!Names
<1>2. CB!IsSet(n, pointer[n]) /\ pointer[n] \in CB!Settable(n)
  BY <1>1 DEF ComputationIsSound, CB!TypeOK
<1>3. /\ pointer[n].function \in SimulatorFunctions
      /\ pointer[n] = CB!Callback(SimulatorLanguageOf[pointer[n].function], pointer[n].function,
                                  pointer[n].data)
      /\ pointer[n].language = SimulatorLanguageOf[pointer[n].function]
  BY <1>2, SettableCallback
<1>4. CB!TypeOK' /\ EntriesAreKept' /\ ComputationIsSound'
  BY <1>1 DEF CB!TypeOK, EntriesAreKept, ComputationIsSound, CB!Settable, CB!IsRequired, CB!IsSet
<1>5. /\ callback'.function \in SimulatorFunctions
      /\ callback'.form = CB!Form(SimulatorLanguageOf[callback'.function])
      /\ given'[callback'.name] =
           CB!Callback(SimulatorLanguageOf[callback'.function], callback'.function, callback'.data)
  <2>1. /\ callback'.name = n /\ callback'.function = pointer[n].function
        /\ callback'.data = pointer[n].data /\ callback'.form = CB!Form(pointer[n].language)
    BY <1>1
  <2>2. given' = pointer
    BY <1>1 DEF EntriesAreKept
  <2> QED BY <1>3, <2>1, <2>2
<1>6. /\ {callback'.simulatorI, callback'.simulatorJ} \subseteq
           CB!ParticlesOf(numbering'.simulator = "zeroBased")
      /\ callback'.simulatorI - callback'.i = callback'.simulatorJ - callback'.j
      /\ numbering'.model = numbering'.simulator => callback'.simulatorI = callback'.i
  <2>1. /\ callback'.i = i /\ callback'.j = j
        /\ callback'.simulatorI = CB!ToSimulator(i) /\ callback'.simulatorJ = CB!ToSimulator(j)
        /\ numbering' = numbering
    BY <1>1
  <2>2. /\ CB!ToSimulator(i) \in CB!ParticlesOf(numbering.simulator = "zeroBased")
        /\ CB!ToSimulator(j) \in CB!ParticlesOf(numbering.simulator = "zeroBased")
    BY ParticlesAreConverted
  <2>3. /\ CB!ToSimulator(i) = i - CB!NumberingOffset /\ CB!ToSimulator(j) = j - CB!NumberingOffset
        /\ CB!NumberingOffset \in {-1, 0, 1} /\ i \in Int /\ j \in Int
        /\ numbering.model = numbering.simulator => CB!NumberingOffset = 0
    BY ParticlesAreConverted
  <2>4. CB!ToSimulator(i) - i = CB!ToSimulator(j) - j
    BY <2>3
  <2>5. numbering.model = numbering.simulator => CB!ToSimulator(i) = i
    BY <2>3
  <2> QED BY <2>1, <2>2, <2>4, <2>5
<1>7. CB!CallbacksAreRunnable'
  BY <1>5, <1>6 DEF CB!CallbacksAreRunnable
<1> QED BY <1>1, <1>4, <1>7

LEMMA CallbacksInductive ==
  ASSUME CallbackConstants
  PROVE  CallbacksInvariant /\ [CB!Next]_(CB!vars) => CallbacksInvariant'
<1> SUFFICES ASSUME CallbacksInvariant, [CB!Next]_(CB!vars) PROVE CallbacksInvariant'
  OBVIOUS
<1>1. CASE UNCHANGED CB!vars
  BY <1>1
  DEF CB!vars, CallbacksInvariant, CB!TypeOK, EntriesAreKept, ComputationIsSound, CB!Settable,
      CB!IsRequired, CB!IsSet, CB!CallbacksAreRunnable
<1>2. CASE CB!Next
  BY <1>2, BetweenComputations, ComputationStep, ProcessStep DEF CB!Next
<1> QED BY <1>1, <1>2

LEMMA CallbackConstantsHold == CallbackConstants
BY ProgramsAssumption DEF CB!CallbacksAssumption, CallbackConstants

LEMMA CallbacksSound ==
  ASSUME CallbackConstants, CallbacksInvariant
  PROVE  CB!TypeOK /\ CB!CallbacksAreRunnable /\ CB!PointersAreGiven /\ CB!SupportedNamesAreShown
<1>1. CB!PointersAreGiven
  <2> SUFFICES ASSUME computing, got.name # "none"
               PROVE  /\ got.pointer = given[got.name]
                      /\ status[got.name] \in {"required", "requiredByAPI"} => got.pointer # NULL
    BY DEF CB!PointersAreGiven
  <2>1. /\ got.name \in ArgumentNames /\ got.name \in CB!Names /\ got.name \notin CallbackNames
        /\ got.pointer = pointer[got.name] /\ pointer = given
    BY DEF CallbacksInvariant, CB!TypeOK, CallbackConstants, ComputationIsSound, EntriesAreKept
  <2>2. CB!IsRequired(got.name) => CB!IsSet(got.name, pointer[got.name])
    BY <2>1 DEF CallbacksInvariant, ComputationIsSound
  <2> QED BY <2>1, <2>2 DEF CB!IsRequired, CB!IsSet
<1>2. CB!SupportedNamesAreShown
  BY DEF CallbacksInvariant, EntriesAreKept, CB!SupportedNamesAreShown, CB!ToString
<1> QED BY <1>1, <1>2 DEF CallbacksInvariant

\* A model that asks before it calls an optional callback always calls a function the simulator
\* gave, with its data, in the form of its language, with the simulator's numbers of the particles;
\* the pointer that it gets is the one that the simulator stored last, and not NULL if the argument
\* is required; the description of the object (ToString) finds an entry for all that is supported.
\* (The invariant: the pointers that are stored are those that the simulator gave last, what is
\* supported has an entry, and while the model computes, what it relies on is set.)
THEOREM CallbacksPassedOn == Spec => []CallbacksArePassedOn
<1> DEFINE Invariant == subject = "Callbacks" => CallbacksInvariant
<1>1. Init => Invariant
  BY CallbackConstantsHold, InitCallbacks DEF Init
<1>2. Invariant /\ [Next]_vars => Invariant'
  <2>1. SUFFICES ASSUME Invariant, [Next]_vars, subject' = "Callbacks" PROVE CallbacksInvariant'
    OBVIOUS
  <2>2. subject = "Callbacks" /\ [CB!Next]_(CB!vars)
    BY <2>1 DEF Next, vars, passed, CB!vars
  <2> QED BY <2>1, <2>2, CallbackConstantsHold, CallbacksInductive
<1>3. Invariant => CallbacksArePassedOn
  BY CallbackConstantsHold, CallbacksSound DEF CallbacksArePassedOn
<1> QED BY <1>1, <1>2, <1>3, PTL DEF Spec

-----------------------------------------------------------------------------
(***************************************************************************)
(* The programs that print what Models and Simulator Models say.           *)
(***************************************************************************)
UtilityConstants == MaxFields \in Nat /\ MaxItems \in Nat

\* At each section of kim-api-portable-model-info: what it has created.
InfoIsSound ==
  program = "portable-model-info" =>
    /\ section \in {"begin", "units", "parameters", "arguments", "callbacks", "destroy", "print"}
    /\ object["simulatorModel"] = "unset" /\ file = "closed" /\ exitStatus = 0
    /\ section \in {"callbacks", "destroy"} => object["computeArguments"] # "unset"
    /\ section = "begin" => object["mdl"] = "unset"
    /\ section = "print" => object["mdl"] = "null"

\* Of kim-api-simulator-model: the Simulator Model is there until the end, the file only while it
\* is read, and what is written was read as a whole.
ModelIsSound ==
  program = "simulator-model" =>
    /\ section \in {"begin", "asked", "specification", "index", "reopen", "read", "write", "cleanup"}
    /\ object["mdl"] = "unset"
    /\ object["simulatorModel"] = IF section = "begin" THEN "unset" ELSE "object"
    /\ file = "open" => section = "read"
    /\ section = "write" => data = "whole"
    /\ printed # "nothing" => section = "cleanup" /\ exitStatus = 0
    /\ section # "cleanup" => exitStatus = 0

\* Of the example programs: the Simulator Model is there, or was not created, and the fields
\* are read with the template map closed.
ExampleIsSound ==
  program \in UT!Examples =>
    /\ section \in {"begin", "species", "template map", "fields", "parameter files", "end", "fail"}
    /\ object["mdl"] = "unset" /\ file = "closed"
    /\ object["simulatorModel"] \in
         IF section = "begin" THEN {"unset"} ELSE IF section = "fail" THEN {"object", "null"} ELSE {"object"}
    /\ exitStatus = IF section = "fail" THEN 1 ELSE 0
    /\ section \in {"fields", "parameter files", "end"} => templateMap = "closed"
    /\ section \in {"parameter files", "end"} => at = Len(fields)

UtilitiesInvariant ==
  /\ UT!TypeOK
  /\ outcome = "running" => InfoIsSound /\ ModelIsSound /\ ExampleIsSound
  /\ program # "simulator-model" => printed = "nothing"
  /\ arguments.what \in {"nothing", "number", "specification", "index"}
  /\ UT!CrashesAreKnown /\ UT!ReturnIsClean /\ UT!PrintsWholeFiles /\ UT!ReadsAllFields

LEMMA FieldsAreCounted ==
  ASSUME UtilityConstants, fields \in UT!Extents PROVE Len(fields) \in Nat
<1>1. PICK n \in 0 .. MaxFields : fields \in [1 .. n -> 0 .. MaxItems]
  BY DEF UT!Extents
<1>2. n \in Nat
  BY DEF UtilityConstants
<1>3. fields \in Seq(0 .. MaxItems)
  BY <1>1, <1>2, SeqDef
<1> QED BY <1>3, LenProperties

LEMMA InitUtilities ==
  ASSUME UtilityConstants, UT!Init PROVE UtilitiesInvariant
<1>1. object \in [{"mdl", "computeArguments", "simulatorModel"} -> UT!Pointers]
  BY DEF UT!Init, UT!Pointers
<1>2. Len(fields) \in Nat
  BY FieldsAreCounted DEF UT!Init
<1>3. UT!TypeOK
  BY <1>1, <1>2 DEF UT!Init, UT!TypeOK
<1>4. /\ object["mdl"] = "unset" /\ object["simulatorModel"] = "unset"
      /\ arguments.what \in {"nothing", "number", "specification", "index"}
  BY DEF UT!Init
<1> QED
  BY <1>3, <1>4
  DEF UT!Init, UtilitiesInvariant, InfoIsSound, ModelIsSound, ExampleIsSound, UT!Examples,
      UT!CrashesAreKnown, UT!ReturnIsClean, UT!PrintsWholeFiles, UT!ReadsAllFields

LEMMA InfoStep ==
  ASSUME UtilityConstants, UtilitiesInvariant,
         \/ UT!InfoUsage \/ UT!InfoCreate \/ UT!InfoUnitsToSpecies \/ UT!InfoParametersToExtensions
         \/ UT!InfoComputeArguments \/ UT!InfoComputeCallbacks \/ UT!InfoDestroy \/ UT!InfoPrint
  PROVE  UtilitiesInvariant'
<1> USE DEF UtilitiesInvariant
<1>1. /\ program = "portable-model-info" /\ outcome = "running" /\ UT!TypeOK /\ InfoIsSound
      /\ UNCHANGED <<program, templateMap, fields, at, arguments, file, data, printed>>
      /\ printed = "nothing"
  BY DEF UT!InfoUsage, UT!InfoCreate, UT!InfoUnitsToSpecies, UT!InfoParametersToExtensions,
         UT!InfoComputeArguments, UT!InfoComputeCallbacks, UT!InfoDestroy, UT!InfoPrint, UT!At,
         UT!objects
<1>2. /\ object' \in [{"mdl", "computeArguments", "simulatorModel"} -> UT!Pointers]
      /\ outcome' \in {"running", "returned", "exited", "crashed"} /\ exitStatus' \in {0, 1, 2}
      /\ object'["simulatorModel"] = object["simulatorModel"]
      /\ outcome' = "running" => InfoIsSound'
      /\ outcome' = "returned" => object'["mdl"] # "object"
      /\ outcome' = "returned" /\ exitStatus' = 0 /\ section' # "begin" => object'["mdl"] = "null"
      /\ outcome' = "crashed" => section' = "destroy" /\ object'["computeArguments"] = "null"
  <2> USE DEF UT!At, UT!Goto, UT!Ends, UT!Creates, UT!objects, InfoIsSound, UT!TypeOK, UT!Pointers
  <2>1. CASE UT!InfoUsage
    BY <1>1, <2>1 DEF UT!InfoUsage
  <2>2. CASE UT!InfoCreate
    BY <1>1, <2>2 DEF UT!InfoCreate
  <2>3. CASE UT!InfoUnitsToSpecies
    BY <1>1, <2>3 DEF UT!InfoUnitsToSpecies
  <2>4. CASE UT!InfoParametersToExtensions
    BY <1>1, <2>4 DEF UT!InfoParametersToExtensions
  <2>5. CASE UT!InfoComputeArguments
    BY <1>1, <2>5 DEF UT!InfoComputeArguments
  <2>6. CASE UT!InfoComputeCallbacks
    BY <1>1, <2>6 DEF UT!InfoComputeCallbacks, UT!Reads
  <2>7. CASE UT!InfoDestroy
    BY <1>1, <2>7 DEF UT!InfoDestroy
  <2>8. CASE UT!InfoPrint
    BY <1>1, <2>8 DEF UT!InfoPrint
  <2> QED BY <2>1, <2>2, <2>3, <2>4, <2>5, <2>6, <2>7, <2>8
<1>3. UT!TypeOK'
  BY <1>1, <1>2 DEF UT!TypeOK
<1>4. UT!CrashesAreKnown' /\ UT!ReturnIsClean'
  BY <1>1, <1>2 DEF UT!CrashesAreKnown, UT!ReturnIsClean, InfoIsSound
<1>5. UT!PrintsWholeFiles' /\ UT!ReadsAllFields' /\ ModelIsSound' /\ ExampleIsSound'
  BY <1>1 DEF UT!PrintsWholeFiles, UT!ReadsAllFields, ModelIsSound, ExampleIsSound, UT!Examples
<1> QED BY <1>1, <1>2, <1>3, <1>4, <1>5

LEMMA ModelStep ==
  ASSUME UtilityConstants, UtilitiesInvariant,
         \/ UT!ModelUsage \/ UT!ModelCreate \/ UT!ModelAsked \/ UT!ModelSpecification
         \/ UT!ModelParameterFile \/ UT!ModelReopen \/ UT!ModelRead \/ UT!ModelWrite \/ UT!ModelCleanup
  PROVE  UtilitiesInvariant'
<1> USE DEF UtilitiesInvariant
<1>1. /\ program = "simulator-model" /\ outcome = "running" /\ UT!TypeOK /\ ModelIsSound
      /\ UNCHANGED <<program, templateMap, fields, at, arguments>>
      /\ UT!PrintsWholeFiles
  BY DEF UT!ModelUsage, UT!ModelCreate, UT!ModelAsked, UT!ModelSpecification, UT!ModelParameterFile,
         UT!ModelReopen, UT!ModelRead, UT!ModelWrite, UT!ModelCleanup, UT!At, UT!objects
<1>2. /\ object' \in [{"mdl", "computeArguments", "simulatorModel"} -> UT!Pointers]
      /\ outcome' \in {"running", "returned", "exited", "crashed"} /\ exitStatus' \in {-2, -1, 0, 1, 2, 7, 8}
      /\ file' \in {"closed", "open", "gone"} /\ data' \in {"none", "short", "whole"}
      /\ printed' \in {"nothing", "name", "short", "whole"}
      /\ outcome' = "running" => ModelIsSound'
      /\ UT!PrintsWholeFiles' /\ UT!ReturnIsClean' /\ UT!CrashesAreKnown'
  <2> USE DEF UT!At, UT!Goto, UT!Ends, UT!Creates, UT!objects, UT!Cleanup, ModelIsSound, UT!TypeOK,
              UT!Pointers, UT!PrintsWholeFiles, UT!ReturnIsClean, UT!CrashesAreKnown
  <2>1. CASE UT!ModelUsage
    BY <1>1, <2>1 DEF UT!ModelUsage
  <2>2. CASE UT!ModelCreate
    BY <1>1, <2>2 DEF UT!ModelCreate
  <2>3. CASE UT!ModelAsked
    BY <1>1, <2>3 DEF UT!ModelAsked
  <2>4. CASE UT!ModelSpecification
    BY <1>1, <2>4 DEF UT!ModelSpecification, UT!Measures
  <2>5. CASE UT!ModelParameterFile
    BY <1>1, <2>5 DEF UT!ModelParameterFile, UT!Measures
  <2>6. CASE UT!ModelReopen
    BY <1>1, <2>6 DEF UT!ModelReopen
  <2>7. CASE UT!ModelRead
    BY <1>1, <2>7 DEF UT!ModelRead, UT!IsWhole
  <2>8. CASE UT!ModelWrite
    BY <1>1, <2>8 DEF UT!ModelWrite
  <2>9. CASE UT!ModelCleanup
    BY <1>1, <2>9 DEF UT!ModelCleanup, UT!Destroy, UT!Destroys
  <2> QED BY <2>1, <2>2, <2>3, <2>4, <2>5, <2>6, <2>7, <2>8, <2>9
<1>3. UT!TypeOK'
  BY <1>1, <1>2 DEF UT!TypeOK
<1>4. UT!ReadsAllFields' /\ InfoIsSound' /\ ExampleIsSound'
  BY <1>1 DEF UT!ReadsAllFields, InfoIsSound, ExampleIsSound, UT!Examples
<1> QED BY <1>1, <1>2, <1>3, <1>4

LEMMA ExampleStep ==
  ASSUME UtilityConstants, UtilitiesInvariant,
         \/ UT!ExampleCreate \/ UT!ExampleCCreate \/ UT!ExampleSpecies \/ UT!ExampleTemplateMap
         \/ UT!ExampleField \/ UT!ExampleLastField \/ UT!ExampleParameterFiles \/ UT!ExampleEnd
  PROVE  UtilitiesInvariant'
<1>1. /\ program \in UT!Examples /\ outcome = "running" /\ UT!TypeOK /\ ExampleIsSound
      /\ UNCHANGED <<program, fields, arguments, file, data, printed>>
      /\ printed = "nothing"
  BY DEF UtilitiesInvariant, UT!ExampleCreate, UT!ExampleCCreate, UT!ExampleSpecies, UT!ExampleTemplateMap,
         UT!ExampleField, UT!ExampleLastField, UT!ExampleParameterFiles, UT!ExampleEnd, UT!At,
         UT!IsExample, UT!Examples, UT!objects
<1>l. Len(fields) \in Nat
  BY <1>1, FieldsAreCounted DEF UT!TypeOK
<1>p. program \in {"example", "example-c"}
  BY <1>1 DEF UT!Examples
<1>e. /\ exitStatus \in {0, 1} /\ (section # "fail" => exitStatus = 0) /\ file = "closed"
      /\ section = "fail" => exitStatus # 0
  <2>1. exitStatus = (IF section = "fail" THEN 1 ELSE 0) /\ file = "closed"
    BY <1>1 DEF ExampleIsSound
  <2>2. CASE section = "fail"
    BY <2>1, <2>2
  <2>3. CASE section # "fail"
    BY <2>1, <2>3
  <2> QED BY <2>2, <2>3
<1>w. section = "end" => templateMap = "closed" /\ at = Len(fields)
  BY <1>1 DEF ExampleIsSound
<1>r. /\ at \in 0 .. Len(fields) /\ templateMap \in {"open", "closed"}
      /\ object \in [{"mdl", "computeArguments", "simulatorModel"} -> UT!Pointers]
  BY <1>1 DEF UT!TypeOK
<1>2. /\ object' \in [{"mdl", "computeArguments", "simulatorModel"} -> UT!Pointers]
      /\ outcome' \in {"running", "returned"} /\ exitStatus' \in {0, 1}
      /\ templateMap' \in {"open", "closed"} /\ at' \in 0 .. Len(fields)
      /\ outcome' = "running" => ExampleIsSound'
      /\ UT!ReturnIsClean' /\ UT!ReadsAllFields'
  <2> USE DEF UT!At, UT!Goto, UT!Ends, UT!Creates, UT!objects, ExampleIsSound,
              UT!Pointers, UT!ReturnIsClean, UT!ReadsAllFields, UT!IsExample, UT!GotoOrFail
  <2>1. CASE UT!ExampleCreate
    <3>1. /\ program = "example" /\ section = "begin" /\ UNCHANGED <<templateMap, at>>
          /\ \/ /\ section' = "species" /\ UNCHANGED <<outcome, exitStatus>>
                /\ object' = [object EXCEPT !["simulatorModel"] = "object"]
             \/ /\ outcome' = "returned" /\ exitStatus' = 1
                /\ object' = [object EXCEPT !["simulatorModel"] = "null"]
      BY <2>1 DEF UT!ExampleCreate
    <3>2. /\ object'["mdl"] = "unset" /\ object'["simulatorModel"] \in {"object", "null"}
          /\ object' \in [{"mdl", "computeArguments", "simulatorModel"} -> UT!Pointers]
      BY <1>1, <1>p, <1>r, <3>1
    <3>3. exitStatus = 0 /\ file = "closed"
      BY <1>e, <3>1
    <3>4. CASE section' = "species" /\ UNCHANGED <<outcome, exitStatus>>
      BY <1>1, <1>p, <1>r, <3>1, <3>2, <3>3, <3>4
    <3>5. CASE outcome' = "returned" /\ exitStatus' = 1
      <4>1. object'["simulatorModel"] = "null"
        BY <1>1, <1>r, <3>1, <3>5
      <4>2. UT!ReturnIsClean'
        BY <1>1, <3>2, <3>3, <3>5, <4>1
      <4>3. UT!ReadsAllFields'
        BY <3>5
      <4> QED BY <1>r, <1>1, <3>1, <3>2, <3>5, <4>2, <4>3
    <3> QED BY <3>1, <3>4, <3>5
  <2>2. CASE UT!ExampleCCreate
    BY <1>1, <1>p, <1>r, <2>2 DEF UT!ExampleCCreate
  <2>3. CASE UT!ExampleSpecies
    BY <1>1, <1>p, <1>r, <2>3 DEF UT!ExampleSpecies
  <2>4. CASE UT!ExampleTemplateMap
    BY <1>1, <1>p, <1>r, <2>4 DEF UT!ExampleTemplateMap, UT!CloseTemplateMap
  <2>5. CASE UT!ExampleField
    <3>1. at \in Nat /\ at < Len(fields) /\ at + 1 \in 0 .. Len(fields)
      BY <1>l, <1>r, <2>5 DEF UT!ExampleField
    <3>2. /\ section = "fields" /\ section' \in {"fields", "fail"} /\ outcome' = outcome
          /\ exitStatus' = (IF section' = "fail" THEN 1 ELSE exitStatus)
          /\ object' = object /\ templateMap' = templateMap /\ at' \in {at, at + 1}
      BY <1>1, <2>5 DEF UT!ExampleField, UT!ReadsLines, UT!NextField
    <3> QED BY <1>1, <1>p, <1>r, <3>1, <3>2
  <2>6. CASE UT!ExampleLastField
    BY <1>1, <1>p, <1>r, <2>6 DEF UT!ExampleLastField
  <2>7. CASE UT!ExampleParameterFiles
    BY <1>1, <1>p, <1>r, <2>7 DEF UT!ExampleParameterFiles
  <2>8. CASE UT!ExampleEnd
    <3>1. /\ section \in {"end", "fail"} /\ object["simulatorModel"] \in {"object", "null"}
          /\ object["mdl"] = "unset" /\ file = "closed"
      BY <1>1, <1>p, <1>r, <2>8 DEF UT!ExampleEnd
    <3>2. /\ object' = [object EXCEPT !["simulatorModel"] = "null"] /\ outcome' = "returned"
          /\ UNCHANGED <<exitStatus, section, templateMap, at>>
      BY <2>8, <3>1 DEF UT!ExampleEnd, UT!Destroy, UT!Destroys
    <3>3. /\ object'["mdl"] = "unset" /\ object'["simulatorModel"] = "null"
          /\ object' \in [{"mdl", "computeArguments", "simulatorModel"} -> UT!Pointers]
      BY <1>r, <3>1, <3>2
    <3>4. exitStatus \in {0, 1} /\ (exitStatus = 0 => templateMap = "closed" /\ at = Len(fields))
      BY <1>e, <1>w, <3>1
    <3>5. UT!ReturnIsClean'
      BY <1>1, <3>1, <3>3
    <3>6. UT!ReadsAllFields'
      BY <1>1, <3>2, <3>4
    <3> QED BY <1>r, <1>1, <3>2, <3>3, <3>4, <3>5, <3>6
  <2> QED BY <2>1, <2>2, <2>3, <2>4, <2>5, <2>6, <2>7, <2>8
<1>3. UT!TypeOK'
  BY <1>1, <1>2 DEF UT!TypeOK
<1>4. UT!CrashesAreKnown' /\ UT!PrintsWholeFiles' /\ InfoIsSound' /\ ModelIsSound'
  BY <1>1, <1>2, <1>p DEF UT!CrashesAreKnown, UT!PrintsWholeFiles, InfoIsSound, ModelIsSound
<1>5. arguments'.what \in {"nothing", "number", "specification", "index"}
  BY <1>1 DEF UtilitiesInvariant
<1> QED BY <1>1, <1>2, <1>3, <1>4, <1>5 DEF UtilitiesInvariant

\* The inductive invariant of the programs: what each has created and opened at each section.
LEMMA UtilitiesInductive ==
  ASSUME UtilityConstants
  PROVE  UtilitiesInvariant /\ [UT!Next]_(UT!vars) => UtilitiesInvariant'
<1> SUFFICES ASSUME UtilitiesInvariant, [UT!Next]_(UT!vars) PROVE UtilitiesInvariant'
  OBVIOUS
<1>1. CASE UNCHANGED UT!vars
  <2>1. UNCHANGED <<program, section, outcome, exitStatus, object, templateMap, fields, at, arguments,
                    file, data, printed>>
    BY <1>1 DEF UT!vars, UT!objects
  <2>2. UT!TypeOK'
    BY <2>1 DEF UtilitiesInvariant, UT!TypeOK, UT!Programs, UT!Extents, UT!Pointers
  <2>3. outcome' = "running" => InfoIsSound' /\ ModelIsSound' /\ ExampleIsSound'
    BY <2>1 DEF UtilitiesInvariant, InfoIsSound, ModelIsSound, ExampleIsSound, UT!Examples
  <2>4. UT!CrashesAreKnown' /\ UT!ReturnIsClean' /\ UT!PrintsWholeFiles' /\ UT!ReadsAllFields'
    BY <2>1
    DEF UtilitiesInvariant, UT!CrashesAreKnown, UT!ReturnIsClean, UT!PrintsWholeFiles,
        UT!ReadsAllFields, UT!Examples
  <2> QED BY <2>1, <2>2, <2>3, <2>4 DEF UtilitiesInvariant
<1>2. CASE UT!Next
  BY <1>2, InfoStep, ModelStep, ExampleStep DEF UT!Next
<1> QED BY <1>1, <1>2

LEMMA UtilityConstantsHold == UtilityConstants
BY ProgramsAssumption DEF UT!UtilitiesAssumption, UtilityConstants

-----------------------------------------------------------------------------
(***************************************************************************)
(* The test programs.                                                      *)
(***************************************************************************)
TestConstants ==
  /\ \A m \in Models : TP!IsModel(m)
  /\ Sizes \subseteq Nat \ {0} /\ Spacings \in Seq(Nat \ {0}) /\ Cutpad \in Nat

\* What holds from a section of main on.
FromSetUp == {"loop", "compute", "parameter", "write", "destroy"}
FromPointers == {"set up"} \cup FromSetUp
FromCallbacks == {"extension", "pointers"} \cup FromPointers
FromArguments == {"callbacks"} \cup FromCallbacks

HasOneList == Len(store.cutoffs) = 1

MainIsSound ==
  /\ testSection \in {"begin", "routines", "create arguments", "arguments"} \cup FromArguments
  /\ testSection \in FromArguments => TP!ArgumentsFit(testModel.arguments)
  /\ testSection \in FromCallbacks => TP!CallbacksFit
  /\ testSection \in FromPointers => pointers = TP!Given
  /\ testSection \in FromSetUp =>
       particleSpecies = {testModel.code} /\ (HasOneList \/ refreshes = 1)
  /\ testSection = "parameter" => refreshes = 0
  /\ testSection \in {"begin"} => made \cap {"arguments", "lists"} = {}
  /\ testOutcome # "returned" =>
       /\ testSection # "begin" => "model" \in made
       /\ testSection \in {"arguments"} \cup FromArguments => "arguments" \in made
       /\ testSection \in FromSetUp => "lists" \in made
  /\ testOutcome = "returned" => testSection = "destroy"

TestInvariant == TP!TypeOK /\ MainIsSound /\ TP!NothingIsLeft

LEMMA ModelsAreModels ==
  ASSUME TestConstants, testModel \in Models
  PROVE  /\ testModel.cutoffs \in Seq(Nat) /\ testModel.newCutoffs \in Seq(Nat)
         /\ testModel.arguments \in [TP!Arguments -> TP!Statuses]
         /\ testModel.ProcessDEDrTerm \in TP!Statuses
         /\ Len(Spacings) \in Nat
<1>1. \A s \in Seq(Nat \ {0}) : s \in Seq(Nat) /\ Len(s) \in Nat
  BY SeqDef, LenProperties
<1>2. TP!IsModel(testModel) /\ Spacings \in Seq(Nat \ {0})
  BY DEF TestConstants
<1> QED BY <1>1, <1>2 DEF TP!IsModel

LEMMA InitTest ==
  ASSUME TestConstants, TP!Init PROVE TestInvariant
<1>1. testModel \in Models /\ testModel.cutoffs \in Seq(Nat) /\ Len(Spacings) \in Nat
  BY ModelsAreModels DEF TP!Init
<1>2. TP!TypeOK
  BY <1>1 DEF TP!Init, TP!TypeOK
<1>3. testSection = "begin" /\ testOutcome = "running" /\ made = {}
  BY DEF TP!Init
<1>4. MainIsSound
  BY <1>3 DEF MainIsSound, FromArguments, FromCallbacks, FromPointers, FromSetUp
<1>5. TP!NothingIsLeft
  BY <1>3 DEF TP!NothingIsLeft
<1> QED BY <1>2, <1>4, <1>5 DEF TestInvariant

\* What is required is set: energy and forces are, and no other argument nor callback is required.
LEMMA RequiredIsGiven ==
  ASSUME TP!ArgumentsFit(testModel.arguments), TP!CallbacksFit PROVE TP!Required \subseteq TP!Given
<1>1. \A a \in TP!Arguments : testModel.arguments[a] = "required" => a \in TP!Given
  BY DEF TP!ArgumentsFit, TP!Given
<1> QED BY <1>1 DEF TP!Required, TP!Given, TP!CallbacksFit

\* Main before its loop.
LEMMA BeforeLoop ==
  ASSUME TestConstants, TestInvariant, testOutcome = "running",
         NEW next,
         \/ testSection = "begin" /\ TP!Create(next) /\ next = "routines"
         \/ testSection = "routines" /\ TP!Check(TP!CanBeCalled, next) /\ next = "create arguments"
         \/ testSection = "create arguments" /\ TP!CreateArguments(next) /\ next = "arguments"
         \/ testSection = "arguments" /\ TP!Check(TP!ArgumentsFit(testModel.arguments), next)
              /\ next = "callbacks"
         \/ testSection = "callbacks" /\ TP!Check(TP!CallbacksFit, next)
              /\ next \in {"pointers", "extension"}
         \/ testSection = "extension" /\ TP!Check(testModel.Extension # "fails", next)
              /\ next = "pointers"
         \/ testSection = "pointers" /\ TP!SetPointers(next) /\ next = "set up"
         \/ testSection = "set up" /\ TP!SetUp(next) /\ next = "loop"
  PROVE  TestInvariant'
<1>1. TP!TypeOK /\ MainIsSound /\ TP!NothingIsLeft
  BY DEF TestInvariant
<1> USE DEF TP!GotoIf, TP!Goto, TP!MY_ERROR, TP!work, TP!api, FromArguments, FromCallbacks, FromPointers,
            FromSetUp
<1>2. /\ UNCHANGED <<testProgram, testModel, cells, store, spacing, coords, nl, refreshes>>
      /\ testOutcome' \in {"running", "exited"} /\ testSection' \in {testSection, next}
      /\ made' \subseteq TP!Objects /\ pointers' \subseteq TP!Given
      /\ particleSpecies' \subseteq {testModel.code}
  BY <1>1 DEF TP!Create, TP!Check, TP!CreateArguments, TP!SetPointers, TP!SetUp, TP!TypeOK, TP!Objects
<1>3. TP!TypeOK'
  BY <1>1, <1>2 DEF TP!TypeOK
<1>4. MainIsSound' /\ TP!NothingIsLeft'
  <2> USE DEF MainIsSound, TP!NothingIsLeft
  <2>1. CASE testSection = "begin"
    BY <1>1, <1>2, <2>1 DEF TP!Create
  <2>2. CASE testSection = "routines"
    BY <1>1, <1>2, <2>2 DEF TP!Check
  <2>3. CASE testSection = "create arguments"
    BY <1>1, <1>2, <2>3 DEF TP!CreateArguments
  <2>4. CASE testSection = "arguments"
    <3>1. /\ UNCHANGED <<made, pointers, particleSpecies>>
          /\ testSection' = testSection \/ TP!ArgumentsFit(testModel.arguments)
      BY <2>4 DEF TP!Check
    <3>2. TP!ArgumentsFit(testModel.arguments)' <=> TP!ArgumentsFit(testModel.arguments)
      BY <1>2 DEF TP!ArgumentsFit
    <3> QED BY <1>1, <1>2, <2>4, <3>1, <3>2
  <2>5. CASE testSection \in {"callbacks", "extension"}
    <3>1. /\ UNCHANGED <<made, pointers, particleSpecies>>
          /\ testSection' = testSection \/ TP!CallbacksFit
      BY <1>1, <2>5 DEF TP!Check
    <3>2. /\ TP!ArgumentsFit(testModel.arguments)' <=> TP!ArgumentsFit(testModel.arguments)
          /\ TP!CallbacksFit' <=> TP!CallbacksFit
          /\ HasOneList' <=> HasOneList
      BY <1>2 DEF TP!ArgumentsFit, TP!CallbacksFit, HasOneList
    <3> QED BY <1>1, <1>2, <2>5, <3>1, <3>2
  <2>6. CASE testSection \in {"pointers", "set up"}
    <3>2. /\ TP!ArgumentsFit(testModel.arguments)' <=> TP!ArgumentsFit(testModel.arguments)
          /\ TP!CallbacksFit' <=> TP!CallbacksFit
          /\ HasOneList' <=> HasOneList
      BY <1>2 DEF TP!ArgumentsFit, TP!CallbacksFit, HasOneList
    <3>3. CASE testSection = "pointers"
      <4>1. /\ UNCHANGED <<made, particleSpecies>>
            /\ testSection' = testSection \/ pointers' = TP!Given
        BY <3>3 DEF TP!SetPointers
      <4> QED BY <1>1, <1>2, <3>2, <3>3, <4>1
    <3>4. CASE testSection = "set up"
      <4>1. /\ pointers' = pointers /\ made \subseteq made' /\ made' \subseteq made \cup {"lists"}
            /\ \/ testSection' = testSection
               \/ "lists" \in made' /\ particleSpecies' = {testModel.code} /\ HasOneList
        <5>1. TP!SetUp(next)
          BY <3>4
        <5>2. CASE HasOneList
          BY <5>1, <5>2 DEF TP!SetUp, HasOneList
        <5>3. CASE ~HasOneList
          <6>1. UNCHANGED <<pointers, made, testSection>>
            BY <5>1, <5>3 DEF TP!SetUp, HasOneList
          <6> QED BY <6>1
        <5> QED BY <5>2, <5>3
      <4> QED BY <1>1, <1>2, <3>2, <3>4, <4>1
    <3> QED BY <2>6, <3>3, <3>4
  <2> QED BY <2>1, <2>2, <2>3, <2>4, <2>5, <2>6
<1> QED BY <1>3, <1>4 DEF TestInvariant

\* The loop of main, the parameter and the end.
LEMMA FromLoop ==
  ASSUME TestConstants, TestInvariant, testOutcome = "running",
         \/ testSection = "loop" /\ \E after \in {"destroy", TP!AfterLoop} : TP!NextSpacing(after)
         \/ testSection = "compute" /\ TP!Compute("loop")
         \/ TP!CppSetParameter
         \/ testSection = "write" /\ TP!Check(testModel.WriteParameterizedModel # "fails", "destroy")
         \/ testSection = "destroy" /\ TP!Return
  PROVE  TestInvariant'
<1>1. TP!TypeOK /\ MainIsSound /\ TP!NothingIsLeft
  BY DEF TestInvariant
<1>2. testSection \in FromSetUp
  BY DEF TP!CppSetParameter, TP!At, FromSetUp
<1>3. testModel.newCutoffs \in Seq(Nat) /\ Len(Spacings) \in Nat
  BY <1>1, ModelsAreModels DEF TP!TypeOK
<1>4. spacing \in 0 .. Len(Spacings) /\ refreshes \in 0 .. 1 /\ store.cutoffs \in Seq(Nat)
  BY <1>1 DEF TP!TypeOK
<1> USE DEF TP!GotoIf, TP!Goto, TP!MY_ERROR, TP!work, TP!api
\* What each of them does.
<1>5. CASE TP!CppSetParameter
  <2>1. /\ testSection = "parameter" /\ refreshes = 0
        /\ UNCHANGED <<testProgram, testModel, cells, made, pointers, particleSpecies, coords, nl>>
        /\ \/ /\ testSection' \in {"destroy", "write"} /\ testOutcome' = testOutcome
              /\ UNCHANGED <<store, spacing, refreshes>>
           \/ testOutcome' = "exited" /\ UNCHANGED <<testSection, store, spacing, refreshes>>
           \/ /\ testSection' = "loop" /\ testOutcome' = testOutcome
              /\ store' = TP!Refreshed /\ spacing' = 0 /\ refreshes' = refreshes + 1
    BY <1>1, <1>5 DEF TP!CppSetParameter, TP!At, MainIsSound
  <2>2. /\ store'.cutoffs \in Seq(Nat) /\ refreshes' \in 0 .. 1 /\ spacing' \in 0 .. Len(Spacings)
        /\ testSection' # "parameter" \/ refreshes' = 0
        /\ (HasOneList' <=> HasOneList) \/ refreshes' = 1
    BY <1>3, <1>4, <2>1 DEF TP!Refreshed, HasOneList
  <2>3. /\ testOutcome' \in {"running", "exited"}
        /\ testSection' \in {"loop", "parameter", "write", "destroy"}
    BY <2>1
  <2>4. TP!TypeOK'
    BY <1>1, <2>1, <2>2, <2>3 DEF TP!TypeOK
  <2>5. MainIsSound' /\ TP!NothingIsLeft'
    <3>1. /\ TP!ArgumentsFit(testModel.arguments)' <=> TP!ArgumentsFit(testModel.arguments)
          /\ TP!CallbacksFit' <=> TP!CallbacksFit
      BY <2>1 DEF TP!ArgumentsFit, TP!CallbacksFit
    <3>2. MainIsSound
      BY <1>1
    <3>3. /\ pointers = TP!Given /\ particleSpecies = {testModel.code}
          /\ TP!ArgumentsFit(testModel.arguments) /\ TP!CallbacksFit
          /\ {"model", "arguments", "lists"} \subseteq made
          /\ HasOneList \/ refreshes = 1
      BY <1>2, <3>2 DEF MainIsSound, FromArguments, FromCallbacks, FromPointers, FromSetUp
    <3>4. HasOneList' \/ refreshes' = 1
      BY <2>2, <3>3, <2>1
    <3>5. MainIsSound'
      BY <2>1, <2>2, <2>3, <3>1, <3>3, <3>4
      DEF MainIsSound, FromArguments, FromCallbacks, FromPointers, FromSetUp
    <3>6. TP!NothingIsLeft'
      BY <2>1, <2>3, <3>3 DEF TP!NothingIsLeft
    <3> QED BY <3>5, <3>6
  <2> QED BY <2>4, <2>5 DEF TestInvariant
<1>6. CASE ~TP!CppSetParameter
  <2>1. /\ UNCHANGED <<testProgram, testModel, cells, pointers, store, particleSpecies, refreshes>>
        /\ testSection' \in FromSetUp /\ spacing' \in 0 .. Len(Spacings)
        /\ testSection' = "parameter" => refreshes = 0
        /\ \/ testOutcome' \in {"running", "exited"} /\ UNCHANGED made
           \/ testOutcome' = "returned" /\ testSection' = "destroy" /\ made' = made \ TP!Destroyed
    <3>1. CASE testSection = "loop"
      <4>1. PICK after \in {"destroy", TP!AfterLoop} : TP!NextSpacing(after)
        BY <1>6, <3>1
      <4>2. /\ after \in {"destroy", "parameter", "write"}
            /\ after = "parameter" => refreshes = 0
        BY <4>1 DEF TP!AfterLoop
      <4>3. /\ UNCHANGED <<testProgram, testModel, cells, made, pointers, store, particleSpecies,
                           refreshes, testOutcome>>
            /\ \/ spacing < Len(Spacings) /\ spacing' = spacing + 1 /\ testSection' = "compute"
               \/ spacing' = spacing /\ testSection' = after
        BY <4>1 DEF TP!NextSpacing
      <4>4. spacing' \in 0 .. Len(Spacings)
        BY <1>3, <1>4, <4>3
      <4>5. testSection' \in {"compute", "destroy", "parameter", "write"}
        BY <4>2, <4>3
      <4> QED BY <4>2, <4>3, <4>4, <4>5 DEF FromSetUp
    <3>2. CASE testSection = "compute"
      BY <1>4, <1>6, <3>2 DEF TP!Compute, FromSetUp
    <3>3. CASE testSection = "write"
      BY <1>4, <1>6, <3>3 DEF TP!Check, FromSetUp
    <3>4. CASE testSection = "destroy"
      BY <1>4, <1>6, <3>4 DEF TP!Return, FromSetUp
    <3>5. testSection \in {"loop", "compute", "write", "destroy"}
      BY <1>6
    <3> QED BY <3>1, <3>2, <3>3, <3>4, <3>5
  <2>2. made' \subseteq made /\ (testOutcome' = "returned" => made' = {})
    BY <1>1, <2>1 DEF TP!TypeOK, TP!Objects, TP!Destroyed
  <2>3. TP!TypeOK'
    BY <1>1, <2>1, <2>2 DEF TP!TypeOK
  <2>4. MainIsSound' /\ TP!NothingIsLeft'
    <3>1. /\ TP!ArgumentsFit(testModel.arguments)' <=> TP!ArgumentsFit(testModel.arguments)
          /\ TP!CallbacksFit' <=> TP!CallbacksFit
          /\ HasOneList' <=> HasOneList
      BY <2>1 DEF TP!ArgumentsFit, TP!CallbacksFit, HasOneList
    <3> QED
      BY <1>1, <1>2, <2>1, <2>2, <3>1
      DEF MainIsSound, TP!NothingIsLeft, FromArguments, FromCallbacks, FromPointers, FromSetUp
  <2> QED BY <2>3, <2>4 DEF TestInvariant
<1> QED BY <1>5, <1>6

\* The inductive invariant of the test programs: what their checks have established and what they
\* have created at each section of main.
LEMMA TestInductive ==
  ASSUME TestConstants
  PROVE  TestInvariant /\ [TP!Next]_(TP!vars) => TestInvariant'
<1> SUFFICES ASSUME TestInvariant, [TP!Next]_(TP!vars) PROVE TestInvariant'
  OBVIOUS
<1>1. CASE UNCHANGED TP!vars
  <2>1. UNCHANGED <<testProgram, testModel, cells, testSection, made, pointers, particleSpecies, store,
                    spacing, refreshes, testOutcome>>
    BY <1>1 DEF TP!vars, TP!api, TP!work
  <2>2. TP!TypeOK' /\ TP!NothingIsLeft'
    BY <2>1 DEF TestInvariant, TP!TypeOK, TP!NothingIsLeft, TP!Objects, TP!Given
  <2>3. MainIsSound'
    BY <2>1
    DEF TestInvariant, MainIsSound, TP!ArgumentsFit, TP!CallbacksFit, TP!Given, HasOneList
  <2> QED BY <2>2, <2>3 DEF TestInvariant
<1>2. CASE TP!Next
  <2>1. CASE \/ TP!CNextSpacing \/ TP!CCompute \/ TP!CDestroy \/ TP!CppNextSpacing \/ TP!CppCompute
             \/ TP!CppSetParameter \/ TP!CppWriteParameterizedModel \/ TP!CppDestroy
    BY <2>1, FromLoop
    DEF TP!CNextSpacing, TP!CCompute, TP!CDestroy, TP!CppNextSpacing, TP!CppCompute,
        TP!CppSetParameter, TP!CppWriteParameterizedModel, TP!CppDestroy, TP!At
  <2>2. CASE \/ TP!CBegin \/ TP!CRoutines \/ TP!CCreateArguments \/ TP!CArguments \/ TP!CCallbacks
             \/ TP!CSetPointers \/ TP!CSetUp
    BY <2>2, BeforeLoop
    DEF TP!CBegin, TP!CRoutines, TP!CCreateArguments, TP!CArguments, TP!CCallbacks,
        TP!CSetPointers, TP!CSetUp, TP!At
  <2>3. CASE \/ TP!CppBegin \/ TP!CppRoutines \/ TP!CppCreateArguments \/ TP!CppArguments
             \/ TP!CppCallbacks \/ TP!CppExtension \/ TP!CppSetPointers \/ TP!CppSetUp
    BY <2>3, BeforeLoop
    DEF TP!CppBegin, TP!CppRoutines, TP!CppCreateArguments, TP!CppArguments, TP!CppCallbacks,
        TP!CppExtension, TP!CppSetPointers, TP!CppSetUp, TP!At
  <2> QED BY <1>2, <2>1, <2>2, <2>3 DEF TP!Next
<1> QED BY <1>1, <1>2

LEMMA TestConstantsHold == TestConstants
BY ProgramsAssumption DEF TP!TestProgramsAssumption, TestConstants

LEMMA TestsSound ==
  ASSUME TestConstants, TestInvariant
  PROVE  TP!TypeOK /\ TP!ComputeHasWhatTheModelNeeds /\ TP!NothingIsLeft
<1>1. TP!ComputeHasWhatTheModelNeeds
  <2> SUFFICES ASSUME testSection = "compute"
               PROVE  /\ TP!Required \subseteq pointers /\ particleSpecies = {testModel.code}
                      /\ {"model", "arguments", "lists"} \subseteq made
                      /\ Len(store.cutoffs) = 1 \/ refreshes = 1
    BY DEF TP!ComputeHasWhatTheModelNeeds
  <2>1. MainIsSound
    BY DEF TestInvariant
  <2>2. /\ TP!ArgumentsFit(testModel.arguments) /\ TP!CallbacksFit /\ pointers = TP!Given
        /\ particleSpecies = {testModel.code} /\ (HasOneList \/ refreshes = 1)
        /\ testOutcome # "returned" /\ {"model", "arguments", "lists"} \subseteq made
    BY <2>1 DEF MainIsSound, FromArguments, FromCallbacks, FromPointers, FromSetUp
  <2> QED BY <2>2, RequiredIsGiven DEF HasOneList
<1> QED BY <1>1 DEF TestInvariant

\* When a test program calls Compute, all that the Model requires is set, whatever it requires; one
\* that returns has destroyed all that it created, its arguments before their Model.
THEOREM RequirementsMet == Spec => []RequirementsAreMet
<1> DEFINE Invariant == subject = "Tests" => TestInvariant
<1>1. Init => Invariant
  BY TestConstantsHold, InitTest DEF Init
<1>2. Invariant /\ [Next]_vars => Invariant'
  <2>1. SUFFICES ASSUME Invariant, [Next]_vars, subject' = "Tests" PROVE TestInvariant'
    OBVIOUS
  <2>2. subject = "Tests" /\ [TP!Next]_(TP!vars)
    BY <2>1 DEF Next, vars, tests, TP!vars, TP!api, TP!work
  <2> QED BY <2>1, <2>2, TestConstantsHold, TestInductive
<1>3. Invariant => RequirementsAreMet
  BY TestConstantsHold, TestsSound DEF RequirementsAreMet
<1> QED BY <1>1, <1>2, <1>3, PTL DEF Spec

-----------------------------------------------------------------------------
(***************************************************************************)
(* The Compute routines of the example models.                             *)
(***************************************************************************)
PairConstants == \A c \in Configurations : PM!IsConfiguration(c)

\* A loop is only entered with species that the model knows, but for LennardJones_Ar.
PairInvariant ==
  /\ PM!TypeOK
  /\ pairModel \in PM!Names /\ config \in Configurations
  /\ Len(local) \in 0 .. 2
  /\ phase \in {"loop", "done"} => config.known \/ pairModel = "lj"
  /\ phase = "undefined" => pairModel = "lj"

\* What no step of a computation changes.
PairSetting == <<pairModel, config, request>>

LEMMA InitPair ==
  ASSUME PairConstants, PM!Init PROVE PairInvariant
<1>1. config \in Configurations /\ config.n \in Nat /\ Len(<< >>) = 0
  BY DEF PM!Init, PairConstants, PM!IsConfiguration
<1>2. PM!Outputs(pairModel).required \subseteq request
  BY DEF PM!Init
<1>3. PM!TypeOK
  BY <1>1, <1>2 DEF PM!Init, PM!TypeOK, PM!Particles
<1> QED BY <1>1, <1>3 DEF PM!Init, PairInvariant

\* A pair that is computed changes only what was asked for.
LEMMA PairsAreTyped ==
  ASSUME NEW begun, NEW complete, PM!AddPairs(begun, complete), PM!TypeOK, UNCHANGED PairSetting
  PROVE  /\ ~PM!Has("energy") => energy' = 0
         /\ ~PM!Has("dEdr") => terms' = {}
         /\ DOMAIN particleEnergy' = PM!Particles /\ DOMAIN forces' = PM!Particles
<1>1. /\ ~PM!Has("energy") => energy = 0
      /\ ~PM!Has("dEdr") => terms = {}
      /\ DOMAIN particleEnergy = PM!Particles /\ DOMAIN forces = PM!Particles
  BY DEF PM!TypeOK
<1>2. ~PM!Has("energy") => energy' = 0
  <2> SUFFICES ASSUME ~PM!Has("energy") PROVE energy' = 0
    OBVIOUS
  <2>1. energy' = energy
    BY DEF PM!AddPairs, PM!Computes
  <2> QED BY <1>1, <2>1
<1>3. ~PM!Has("dEdr") => terms' = {}
  <2> SUFFICES ASSUME ~PM!Has("dEdr") PROVE terms' = {}
    OBVIOUS
  <2>1. terms' = terms \cup {}
    BY DEF PM!AddPairs, PM!Computes
  <2> QED BY <1>1, <2>1
<1>4. DOMAIN particleEnergy' = PM!Particles
  <2>1. CASE PM!Computes("particleEnergy")
    BY <2>1 DEF PM!AddPairs
  <2>2. CASE ~PM!Computes("particleEnergy")
    BY <1>1, <2>2 DEF PM!AddPairs
  <2> QED BY <2>1, <2>2
<1>5. DOMAIN forces' = PM!Particles
  <2>1. CASE PM!Computes("forces")
    BY <2>1 DEF PM!AddPairs
  <2>2. CASE ~PM!Computes("forces")
    BY <1>1, <2>2 DEF PM!AddPairs
  <2> QED BY <2>1, <2>2
<1> QED BY <1>2, <1>3, <1>4, <1>5

\* The invariant, of a step that leaves the setting alone.
LEMMA PairStep ==
  ASSUME PairConstants, PairInvariant, UNCHANGED PairSetting,
         phase' \in {"idle", "loop", "done", "error", "undefined"},
         phase' \in {"loop", "done"} => config.known \/ pairModel = "lj",
         phase' = "undefined" => pairModel = "lj",
         list' \in 1 .. 2, particle' \in 0 .. config.n, Len(local)' \in 0 .. 2,
         ~PM!Has("energy") => energy' = 0, ~PM!Has("dEdr") => terms' = {},
         DOMAIN particleEnergy' = PM!Particles, DOMAIN forces' = PM!Particles
  PROVE  PairInvariant'
<1>1. /\ pairModel' = pairModel /\ config' = config /\ request' = request
      /\ pairModel \in PM!Names /\ config \in Configurations
      /\ PM!Outputs(pairModel).required \subseteq request
  BY DEF PairSetting, PairInvariant, PM!TypeOK
<1>2. /\ PM!Outputs(pairModel)' = PM!Outputs(pairModel)
      /\ PM!Particles' = PM!Particles
      /\ \A output : PM!Has(output)' <=> PM!Has(output)
  BY <1>1 DEF PM!Outputs, PM!Particles, PM!Has, PM!DriverOutputs, PM!Morse07COutputs,
              PM!ExtensionsOutputs, PM!MultiOutputs, PM!LJOutputs
<1>3. PM!TypeOK'
  BY <1>1, <1>2 DEF PM!TypeOK
<1> QED BY <1>1, <1>3 DEF PairInvariant, PM!Names

\* Parameters, extensions and the way from one list or computation to the next.
LEMMA OutsideStep ==
  ASSUME PairConstants, PairInvariant,
         \/ \E value \in NewCutoffs : PM!SetCutoff(value)
         \/ PM!DriverRefresh \/ PM!DriverWriteParameterizedModel \/ PM!DriverDestroy
         \/ \E ID \in {"KIM_SUPPORTED_EXTENSIONS", "Fake_Extension"} : PM!Extension(ID)
         \/ PM!MultiNextList \/ PM!Returns \/ PM!Again
         \/ UNCHANGED PM!vars
  PROVE  PairInvariant'
<1>1. /\ UNCHANGED PairSetting
      /\ UNCHANGED <<local, energy, particleEnergy, forces, terms, terms2>>
      /\ \/ UNCHANGED <<phase, list, particle>>
         \/ list < Len(local) /\ list' = list + 1 /\ particle' = 0 /\ phase' = phase
         \/ phase = "loop" /\ phase' = "done" /\ UNCHANGED <<list, particle>>
         \/ phase' = "idle" /\ UNCHANGED <<list, particle>>
  BY DEF PM!SetCutoff, PM!DriverRefresh, PM!DriverWriteParameterizedModel, PM!DriverDestroy,
         PM!Extension, PM!MultiNextList, PM!Returns, PM!Again, PM!vars, PM!results, PM!progress,
         PairSetting
<1>2. config.n \in Nat
  BY DEF PairInvariant, PairConstants, PM!IsConfiguration
<1>3. /\ list \in 1 .. 2 /\ particle \in 0 .. config.n /\ Len(local) \in 0 .. 2
      /\ phase \in {"idle", "loop", "done", "error", "undefined"}
      /\ phase \in {"loop", "done"} => config.known \/ pairModel = "lj"
      /\ phase = "undefined" => pairModel = "lj"
      /\ ~PM!Has("energy") => energy = 0
      /\ ~PM!Has("dEdr") => terms = {}
      /\ DOMAIN particleEnergy = PM!Particles /\ DOMAIN forces = PM!Particles
  BY DEF PairInvariant, PM!TypeOK
<1>l. list < Len(local) => list + 1 \in 1 .. 2
  <2> DEFINE length == Len(local)
  <2>1. list \in 1 .. 2 /\ length \in 0 .. 2
    BY <1>3
  <2> HIDE DEF length
  <2>2. list < length => list + 1 \in 1 .. 2
    BY <2>1
  <2> QED BY <2>2 DEF length
<1>4. list' \in 1 .. 2 /\ particle' \in 0 .. config.n /\ Len(local)' \in 0 .. 2
  <2>1. list' \in {list, list + 1} /\ (list' # list => list < Len(local) /\ list' = list + 1)
    BY <1>1
  <2>2. list' \in 1 .. 2
    BY <1>3, <1>l, <2>1
  <2>3. particle' \in 0 .. config.n
    BY <1>1, <1>2, <1>3
  <2>4. Len(local)' \in 0 .. 2
    BY <1>1, <1>3
  <2> QED BY <2>2, <2>3, <2>4
<1>5. /\ phase' \in {"idle", "loop", "done", "error", "undefined"}
      /\ phase' \in {"loop", "done"} => config.known \/ pairModel = "lj"
      /\ phase' = "undefined" => pairModel = "lj"
  BY <1>1, <1>3
<1>6. /\ ~PM!Has("energy") => energy' = 0
      /\ ~PM!Has("dEdr") => terms' = {}
      /\ DOMAIN particleEnergy' = PM!Particles /\ DOMAIN forces' = PM!Particles
  BY <1>1, <1>3
<1> QED BY <1>1, <1>4, <1>5, <1>6, PairStep

\* A computation begins, if the model knows the species, and each particle is computed.
LEMMA BeginsStep ==
  ASSUME PairConstants, PairInvariant, NEW m, NEW locals, Len(locals) \in 0 .. 2,
         NEW refuses \in BOOLEAN, refuses \/ config.known \/ m = "lj", PM!Begins(m, locals, refuses)
  PROVE  PairInvariant'
<1>1. /\ pairModel = m /\ local' = locals /\ list' = 1 /\ particle' = 0
      /\ UNCHANGED PairSetting /\ phase' \in {"loop", "error"}
      /\ phase' = "loop" => config.known \/ pairModel = "lj"
      /\ ~PM!Has("energy") => energy' = 0
      /\ ~PM!Has("dEdr") => terms' = {}
      /\ DOMAIN particleEnergy' = PM!Particles /\ DOMAIN forces' = PM!Particles
  BY DEF PM!Begins, PM!results, PairSetting, PairInvariant, PM!TypeOK
<1>2. config.n \in Nat
  BY DEF PairInvariant, PairConstants, PM!IsConfiguration
<1>3. Len(local)' \in 0 .. 2 /\ list' \in 1 .. 2 /\ particle' \in 0 .. config.n
  BY <1>1, <1>2
<1> QED BY <1>1, <1>3, PairStep

LEMMA ParticleStep ==
  ASSUME PairConstants, PairInvariant, NEW m,
         \/ PM!ComputesParticle(m) \/ PM!NeighborsFail(m) \/ PM!CallbackFails(m)
         \/ PM!LJParticle
  PROVE  PairInvariant'
<1>1. /\ phase = "loop" /\ particle \in PM!Particles
      /\ UNCHANGED PairSetting /\ UNCHANGED <<list, local>>
      /\ phase' \in {"loop", "error", "undefined"} /\ (phase' = "undefined" => pairModel = "lj")
      /\ particle' \in {particle, particle + 1}
      /\ \/ \E begun, complete : PM!AddPairs(begun, complete)
         \/ UNCHANGED PM!results
  BY DEF PM!ComputesParticle, PM!NeighborsFail, PM!CallbackFails, PM!LJParticle, PM!Steps, PairSetting
<1>2. config.n \in Nat
  BY DEF PairInvariant, PairConstants, PM!IsConfiguration
<1>3. particle' \in 0 .. config.n
  BY <1>1, <1>2 DEF PM!Particles
<1>4. /\ ~PM!Has("energy") => energy' = 0
      /\ ~PM!Has("dEdr") => terms' = {}
      /\ DOMAIN particleEnergy' = PM!Particles /\ DOMAIN forces' = PM!Particles
  <2>1. CASE \E begun, complete : PM!AddPairs(begun, complete)
    BY <1>1, <2>1, PairsAreTyped DEF PairInvariant
  <2>2. CASE UNCHANGED PM!results
    BY <2>2 DEF PM!results, PairInvariant, PM!TypeOK
  <2> QED BY <1>1, <2>1, <2>2
<1>5. /\ list' \in 1 .. 2 /\ Len(local)' \in 0 .. 2
      /\ config.known \/ pairModel = "lj"
  BY <1>1 DEF PairInvariant, PM!TypeOK
<1> QED BY <1>1, <1>3, <1>4, <1>5, PairStep

\* The inductive invariant of the Compute routines: what was not asked for is not written, and a
\* computation goes on only if the model knows the species, but for LennardJones_Ar.
LEMMA PairInductive ==
  ASSUME PairConstants
  PROVE  PairInvariant /\ [PM!Next]_(PM!vars) => PairInvariant'
<1> SUFFICES ASSUME PairInvariant, [PM!Next]_(PM!vars) PROVE PairInvariant'
  OBVIOUS
<1>1. CASE \/ PM!DriverBegins \/ PM!Morse07CBegins \/ PM!ExtensionsBegins \/ PM!MultiBegins
           \/ PM!LJBegins
  <2>1. /\ \A a : Len(<<a>>) \in 0 .. 2
        /\ \A a, b : Len(<<a, b>>) \in 0 .. 2
    OBVIOUS
  <2>2. config.known \in BOOLEAN
    BY DEF PairInvariant, PairConstants, PM!IsConfiguration
  <2>3. \A m, locals : \A refuses \in BOOLEAN :
          /\ Len(locals) \in 0 .. 2
          /\ refuses \/ config.known \/ m = "lj"
          /\ PM!Begins(m, locals, refuses)
          => PairInvariant'
    BY BeginsStep
  <2> QED
    BY <1>1, <2>1, <2>2, <2>3
    DEF PM!DriverBegins, PM!Morse07CBegins, PM!ExtensionsBegins, PM!MultiBegins, PM!LJBegins
<1>2. CASE \/ PM!DriverParticle \/ PM!Morse07CParticle \/ PM!ExtensionsParticle
           \/ PM!MultiParticle \/ PM!LJParticle
  BY <1>2, ParticleStep
  DEF PM!DriverParticle, PM!Morse07CParticle, PM!ExtensionsParticle, PM!MultiParticle
<1>3. CASE ~(\/ PM!DriverBegins \/ PM!Morse07CBegins \/ PM!ExtensionsBegins \/ PM!MultiBegins
             \/ PM!LJBegins \/ PM!DriverParticle \/ PM!Morse07CParticle
             \/ PM!ExtensionsParticle \/ PM!MultiParticle \/ PM!LJParticle)
  BY <1>3, OutsideStep DEF PM!Next
<1> QED BY <1>1, <1>2, <1>3

LEMMA PairConstantsHold == PairConstants
BY ProgramsAssumption DEF PM!PairModelsAssumption, PairConstants

-----------------------------------------------------------------------------
(***************************************************************************)
(* Failures                                                                *)
(***************************************************************************)
\* Whatever calls fail: no example model but LennardJones_Ar gives results for species that it does
\* not know, or goes on without neighbors; a program goes through a pointer that is NULL in two
\* places only, has destroyed and closed what it had when it returns from main, writes a file as a
\* whole or not at all, and has read all fields when it succeeds, however many there are.
THEOREM Failures == Spec => []FailuresAreSeen
<1> DEFINE Pairs == subject = "Pairs" => PairInvariant
           Printing == subject = "Utilities" => UtilitiesInvariant
<1>1. Init => Pairs /\ Printing
  BY PairConstantsHold, InitPair, UtilityConstantsHold, InitUtilities DEF Init
<1>2. Pairs /\ [Next]_vars => Pairs'
  <2>1. SUFFICES ASSUME Pairs, [Next]_vars, subject' = "Pairs" PROVE PairInvariant'
    OBVIOUS
  <2>2. subject = "Pairs" /\ [PM!Next]_(PM!vars)
    BY <2>1 DEF Next, vars, pairs, PM!vars, PM!progress, PM!results
  <2> QED BY <2>1, <2>2, PairConstantsHold, PairInductive
<1>3. Printing /\ [Next]_vars => Printing'
  <2>1. SUFFICES ASSUME Printing, [Next]_vars, subject' = "Utilities" PROVE UtilitiesInvariant'
    OBVIOUS
  <2>2. subject = "Utilities" /\ [UT!Next]_(UT!vars)
    BY <2>1 DEF Next, vars, utilities, UT!vars, UT!objects
  <2> QED BY <2>1, <2>2, UtilityConstantsHold, UtilitiesInductive
<1>4. Pairs /\ Printing => FailuresAreSeen
  BY DEF FailuresAreSeen, PairInvariant, PM!ErrorsAreReported, UtilitiesInvariant
<1> QED BY <1>1, <1>2, <1>3, <1>4, PTL DEF Spec
=============================================================================
