--------------------------- MODULE KIMModel_proofs ---------------------------
(***************************************************************************)
(* Theorems about KIMModel, for every value of its constants.              *)
(*                                                                         *)
(* The invariant the others rest on is TypeOK /\ CallsAreSound: neither    *)
(* half is inductive alone.  A routine that returns updates the object its *)
(* frame refers to, which has a type only while the object exists, and the *)
(* objects a frame refers to exist because no other call may remove them.  *)
(*                                                                         *)
(* The safety properties follow over it.  ArgumentsEffect and ModelEffect  *)
(* say what one step can do to one object; ComputationUndisturbed says     *)
(* that a computation in progress is affected by its own requests only.    *)
(* Each property then follows from what the operators on records do,       *)
(* without going through the actions again.                                *)
(***************************************************************************)
EXTENDS KIMModel, TLAPS

(***************************************************************************)
(* The operators on ComputeArguments records return such records.          *)
(***************************************************************************)
\* Base case of every bound on a neighbour list count.
LEMMA ZeroLists == 0 \in 0 .. MaxNeighborLists
  BY BoundsAssumption

\* The maps a new ComputeArguments starts with are total.
LEMMA InitialMaps ==
  ASSUME NEW names, NEW api
  PROVE  /\ InitialStatus(names, api) \in [names -> SupportStatus]
         /\ InitialPointer(names, api) \in [names -> Pointer]
  BY DEF InitialStatus, InitialPointer, SupportStatus, Pointer

\* What ComputeArgumentsCreate builds is a ComputeArguments.
LEMMA NewArgumentsType ==
  ASSUME NEW name \in ModelNames, NEW mn \in Numbering, NEW sn \in Numbering,
         NEW o \in NumberingOffset
  PROVE  NewArguments(name, mn, sn, o) \in Arguments
  <1>1. [k \in ListIndex |-> NoCell] \in [ListIndex -> StoredParticle \cup {NoCell}]
    OBVIOUS
  <1> QED
    BY <1>1, ZeroLists, InitialMaps DEF NewArguments, Arguments

\* A new entry, or none, leaves the pointer map total.
LEMMA PointerAfterStatusType ==
  ASSUME NEW names, NEW pointer \in [names -> Pointer], NEW n \in names, NEW s
  PROVE  PointerAfterStatus(pointer, n, s) \in [names -> Pointer]
  BY DEF PointerAfterStatus, Pointer

\* Setting a support status yields a ComputeArguments.
LEMMA SetSupportStatusType ==
  ASSUME NEW ca \in Arguments, NEW s \in SupportStatus
  PROVE  /\ \A n \in ArgumentNames : SetArgumentSupportStatus(ca, n, s) \in Arguments
         /\ \A n \in CallbackNames : SetCallbackSupportStatus(ca, n, s) \in Arguments
  <1>1. ASSUME NEW n \in ArgumentNames
        PROVE  SetArgumentSupportStatus(ca, n, s) \in Arguments
    <2>1. PointerAfterStatus(ca.argumentPointer, n, s) \in [ArgumentNames -> Pointer]
      BY PointerAfterStatusType DEF Arguments
    <2> QED BY <2>1 DEF SetArgumentSupportStatus, Arguments
  <1>2. ASSUME NEW n \in CallbackNames
        PROVE  SetCallbackSupportStatus(ca, n, s) \in Arguments
    <2>1. PointerAfterStatus(ca.callbackPointer, n, s) \in [CallbackNames -> Pointer]
      BY PointerAfterStatusType DEF Arguments
    <2> QED BY <2>1 DEF SetCallbackSupportStatus, Arguments
  <1> QED BY <1>1, <1>2

\* Setting a pointer yields a ComputeArguments.
LEMMA SetPointerType ==
  ASSUME NEW ca \in Arguments, NEW p \in Pointer
  PROVE  /\ \A n \in ArgumentNames : SetArgumentPointer(ca, n, p) \in Arguments
         /\ \A n \in CallbackNames : SetCallbackPointer(ca, n, p) \in Arguments
  BY DEF SetArgumentPointer, SetCallbackPointer, Arguments

\* Resizing the storage keeps what the remaining cells hold.
LEMMA ResizedType ==
  ASSUME NEW storage \in [ListIndex -> StoredParticle \cup {NoCell}], NEW n
  PROVE  Resized(storage, n) \in [ListIndex -> StoredParticle \cup {NoCell}]
  BY DEF Resized, StoredParticle

\* Entering and leaving Compute yield a ComputeArguments.
LEMMA PreparedType ==
  ASSUME NEW ca \in Arguments, NEW r \in ModelRecord
  PROVE  Prepared(ca, r) \in Arguments /\ Reset(ca) \in Arguments
  <1>1. Resized(ca.storage, r.numberOfNeighborLists)
          \in [ListIndex -> StoredParticle \cup {NoCell}]
    BY ResizedType DEF Arguments
  <1>2. Prepared(ca, r) \in Arguments
    BY <1>1 DEF Prepared, Arguments, ModelRecord
  <1>3. Reset(ca) \in Arguments
    BY ZeroLists DEF Reset, Arguments
  <1> QED BY <1>2, <1>3

\* A valid request names a particle and stores its list in a cell.
LEMMA StoreListType ==
  ASSUME NEW ca \in Arguments, NEW k \in ListIndex, NEW p \in Int,
         ValidParticle(ca, p)
  PROVE  /\ ZeroBased(ca, p) \in ZeroBasedParticle
         /\ StoreList(ca, k, p) \in Arguments
  <1>1. ZeroBased(ca, p) \in ZeroBasedParticle
    BY BoundsAssumption DEF ValidParticle, ZeroBased, ZeroBasedParticle
  <1>2. StoreList(ca, k, p) \in Arguments
    BY <1>1 DEF StoreList, Arguments, StoredParticle
  <1> QED BY <1>1, <1>2

(***************************************************************************)
(* The operators on Model records return such records.                     *)
(***************************************************************************)
\* The offset between two numberings is -1, 0 or 1.
LEMMA OffsetType ==
  ASSUME NEW mn \in Numbering, NEW sn \in Numbering
  PROVE  Offset(mn, sn) \in NumberingOffset
  BY DEF Offset, NumberingOffset

\* Create builds a Model.
LEMMA NewModelType ==
  ASSUME NEW name \in ModelNames, NEW numberings \in NumberingPairs,
         NEW routines \in RoutineSets, NEW d \in Distances, NEW l \in ListsInput
  PROVE  NewModel(name, numberings, routines, d, l) \in ModelRecord
  <1>1. /\ numberings.model \in Numbering
        /\ numberings.simulator \in Numbering
    BY ModelConstantsAssumption
  <1>2. Offset(numberings.model, numberings.simulator) \in NumberingOffset
    BY <1>1, OffsetType
  <1>3. routines \in SUBSET {"Refresh", "Extension"}
    BY FlagsAssumption
  <1> QED BY <1>1, <1>2, <1>3 DEF NewModel, ModelRecord, ListsInput

\* Clearing, and publishing anew, yield a Model.
LEMMA PublishType ==
  ASSUME NEW r \in ModelRecord
  PROVE  /\ Cleared(r) \in ModelRecord
         /\ \A d \in Distances \cup {NULL} :
              PublishInfluenceDistance(r, d) \in ModelRecord
         /\ \A l \in ListsInput : PublishNeighborLists(r, l) \in ModelRecord
  <1>1. Cleared(r) \in ModelRecord
    BY ZeroLists DEF Cleared, ModelRecord
  <1>2. ASSUME NEW d \in Distances \cup {NULL}
        PROVE  PublishInfluenceDistance(r, d) \in ModelRecord
    BY DEF PublishInfluenceDistance, ModelRecord
  <1>3. ASSUME NEW l \in ListsInput
        PROVE  PublishNeighborLists(r, l) \in ModelRecord
    BY DEF PublishNeighborLists, ModelRecord, ListsInput
  <1> QED BY <1>1, <1>2, <1>3

(***************************************************************************)
(* Calls in progress.                                                      *)
(***************************************************************************)
\* The objects that calls of the threads in S refer to are not removed.
ObjectsStay(S) ==
  \A u \in S : /\ frame[u].model # NULL => models'[frame[u].model] # NoModel
               /\ frame[u].ca # NULL => args'[frame[u].ca] # NoArguments

\* Updating objects that calls refer to keeps the calls sound.
LEMMA CallsKept ==
  ASSUME TypeOK, CallsAreSound, frame' = frame, ObjectsStay(Threads)
  PROVE  CallsAreSound'
  BY ModelConstantsAssumption
  DEF TypeOK, CallsAreSound, ObjectsStay, InCall, LiveModel, LiveArguments,
      Idle, Frame

\* A call that ends may remove its ComputeArguments, no other call has it.
LEMMA CallsAfterLeave ==
  ASSUME TypeOK, CallsAreSound, NEW t \in Threads, Leave(t),
         ObjectsStay(Threads \ {t})
  PROVE  CallsAreSound' /\ frame' \in [Threads -> Frame]
  <1>1. frame' \in [Threads -> Frame]
    BY DEF TypeOK, Leave, Idle, Frame, Call
  <1>2. \A u \in Threads : frame'[u] = IF u = t THEN Idle ELSE frame[u]
    BY DEF TypeOK, Leave
  <1> QED
    BY <1>1, <1>2, ModelConstantsAssumption
    DEF TypeOK, CallsAreSound, ObjectsStay, InCall, LiveModel, LiveArguments,
        Idle, Frame

\* A call that begins finds its objects, and finds them free where it must.
LEMMA CallsAfterEnter ==
  ASSUME TypeOK, CallsAreSound, NEW t \in Threads, MayCall(t),
         NEW call \in {"Compute", "ComputeArgumentsCreate",
                       "ClearThenRefresh", "Extension"},
         NEW m \in Models, NEW c \in ArgumentsObjects \cup {NULL},
         Enter(t, call, m, c), ObjectsStay(Threads),
         models'[m] # NoModel,
         c # NULL => args'[c] # NoArguments /\ ArgumentsFree(c),
         call \in {"ClearThenRefresh", "Extension"} => ModelUnused(m),
         ModelStable(m),
         call = "ClearThenRefresh" => c = NULL,
         call \in {"Compute", "ComputeArgumentsCreate"} => c # NULL
  PROVE  CallsAreSound' /\ frame' \in [Threads -> Frame]
  <1>1. frame' \in [Threads -> Frame]
    BY DEF TypeOK, Enter, Frame, Call
  <1>2. \A u \in Threads :
          frame'[u] = IF u = t THEN [call |-> call, model |-> m, ca |-> c]
                      ELSE frame[u]
    BY DEF TypeOK, Enter
  <1>3. c # NULL => c \in ArgumentsObjects
    OBVIOUS
  <1>4. m # NULL
    BY ModelConstantsAssumption
  <1>5. ASSUME NEW u \in Threads
        PROVE  /\ InCall(u, "idle")' <=> frame'[u] = Idle
               /\ ~InCall(u, "idle")' =>
                    frame'[u].model \in Models /\ LiveModel(frame[u].model)'
               /\ frame'[u].ca # NULL =>
                    frame'[u].ca \in ArgumentsObjects /\ LiveArguments(frame[u].ca)'
               /\ InCall(u, "ClearThenRefresh")' => frame'[u].ca = NULL
               /\ frame'[u].call \in {"Compute", "ComputeArgumentsCreate", "undefined"} =>
                    frame'[u].ca # NULL
    <2>1. CASE u = t
      BY <2>1, <1>2, <1>3, <1>4 DEF InCall, LiveModel, LiveArguments, Idle
    <2>2. CASE u # t
      <3>1. frame'[u] = frame[u]
        BY <2>2, <1>2
      <3> QED
        BY <3>1, ModelConstantsAssumption
        DEF CallsAreSound, ObjectsStay, InCall, LiveModel, LiveArguments
    <2> QED BY <2>1, <2>2
  <1>6. ASSUME NEW u \in Threads, NEW v \in Threads, u # v
        PROVE  /\ frame'[u].ca # NULL => frame'[u].ca # frame'[v].ca
               /\ frame'[u].call \in {"ClearThenRefresh", "Extension"} =>
                    frame'[u].model # frame'[v].model
    <2>1. CASE u = t
      <3>1. frame'[u] = [call |-> call, model |-> m, ca |-> c] /\ frame'[v] = frame[v]
        BY <2>1, <1>2, <1>6
      <3> QED BY <3>1, <1>6 DEF ArgumentsFree, ModelUnused
    <2>2. CASE v = t
      <3>1. frame'[v] = [call |-> call, model |-> m, ca |-> c] /\ frame'[u] = frame[u]
        BY <2>2, <1>2, <1>6
      <3> QED BY <3>1, <1>6 DEF ArgumentsFree, ModelStable
    <2>3. CASE u # t /\ v # t
      <3>1. frame'[v] = frame[v] /\ frame'[u] = frame[u]
        BY <2>3, <1>2
      <3> QED BY <3>1, <1>6 DEF CallsAreSound
    <2> QED BY <2>1, <2>2, <2>3
  <1>7. CallsAreSound'
    BY <1>5, <1>6 DEF CallsAreSound
  <1> QED BY <1>1, <1>7

(***************************************************************************)
(* TypeOK and CallsAreSound are invariant.                                 *)
(***************************************************************************)
\* The types of the parts, for the objects that exist.
LEMMA LiveTypes ==
  ASSUME TypeOK
  PROVE  /\ \A m \in Models : LiveModel(m) => models[m] \in ModelRecord
         /\ \A c \in ArgumentsObjects : LiveArguments(c) => args[c] \in Arguments
  BY DEF TypeOK, LiveModel, LiveArguments

\* A call's own objects exist.
LEMMA OwnObjects ==
  ASSUME TypeOK, CallsAreSound, NEW t \in Threads
  PROVE  /\ ~InCall(t, "idle") =>
              /\ frame[t].model \in Models
              /\ models[frame[t].model] \in ModelRecord
         /\ frame[t].ca # NULL =>
              /\ frame[t].ca \in ArgumentsObjects
              /\ args[frame[t].ca] \in Arguments
         /\ frame[t].call \in {"Compute", "ComputeArgumentsCreate", "undefined"} =>
              frame[t].ca # NULL
  BY LiveTypes DEF CallsAreSound

\* One Model object changes, to another Model object: calls remain sound.
LEMMA ModelUpdate ==
  ASSUME TypeOK, CallsAreSound, NEW m \in Models, NEW r \in ModelRecord,
         models' = [models EXCEPT ![m] = r], args' = args
  PROVE  /\ models' \in [Models -> ModelRecord \cup {NoModel}]
         /\ ObjectsStay(Threads) /\ models'[m] # NoModel
  <1>1. models' \in [Models -> ModelRecord \cup {NoModel}] /\ models'[m] # NoModel
    BY NoObjectAssumption DEF TypeOK
  <1>2. \A u \in Threads : frame[u].model # NULL =>
          frame[u].model \in Models /\ models[frame[u].model] # NoModel
    BY DEF CallsAreSound, InCall, LiveModel, Idle
  <1>3. \A n \in Models : models[n] # NoModel => models'[n] # NoModel
    BY NoObjectAssumption DEF TypeOK
  <1> QED BY <1>1, <1>2, <1>3 DEF ObjectsStay, CallsAreSound, LiveArguments

\* One ComputeArguments object changes, to another ComputeArguments object.
LEMMA ArgumentsUpdate ==
  ASSUME TypeOK, CallsAreSound, NEW c \in ArgumentsObjects, NEW ca \in Arguments,
         args' = [args EXCEPT ![c] = ca], models' = models
  PROVE  /\ args' \in [ArgumentsObjects -> Arguments \cup {NoArguments}]
         /\ ObjectsStay(Threads) /\ args'[c] # NoArguments
  <1>1. args' \in [ArgumentsObjects -> Arguments \cup {NoArguments}] /\ args'[c] # NoArguments
    BY NoObjectAssumption DEF TypeOK
  <1>2. \A u \in Threads : frame[u].model # NULL => models[frame[u].model] # NoModel
    BY DEF CallsAreSound, InCall, LiveModel, Idle
  <1>3. \A b \in ArgumentsObjects : args[b] # NoArguments => args'[b] # NoArguments
    BY NoObjectAssumption DEF TypeOK
  <1> QED BY <1>1, <1>2, <1>3 DEF ObjectsStay, CallsAreSound, LiveArguments

\* No object changes.
LEMMA NoUpdate ==
  ASSUME TypeOK, CallsAreSound, models' = models, args' = args
  PROVE  ObjectsStay(Threads)
  BY DEF ObjectsStay, CallsAreSound, InCall, LiveModel, LiveArguments, Idle

\* Nothing is held before the first request.
LEMMA NothingHeldType == NothingHeld \in [ListIndex -> StoredParticle]
  BY DEF NothingHeld, StoredParticle

\* The state before the first call is well typed, and no call is in progress.
LEMMA InitSound == Init => TypeOK /\ CallsAreSound
  <1> SUFFICES ASSUME Init PROVE TypeOK /\ CallsAreSound
    OBVIOUS
  <1>1. TypeOK
    BY NothingHeldType DEF Init, TypeOK, Idle, Frame, Call
  <1>2. CallsAreSound
    BY DEF Init, CallsAreSound, InCall, Idle
  <1> QED BY <1>1, <1>2

\* What a simulator does between calls into the model, step by step.
LEMMA SimulatorStepSound ==
  ASSUME TypeOK, CallsAreSound, NEW t \in Threads, SimulatorCalls(t)
  PROVE  TypeOK' /\ CallsAreSound'
  <1>1. ASSUME NEW m \in Models, Create(t, m)
        PROVE  TypeOK' /\ CallsAreSound'
    <2>1. PICK r \in ModelRecord : models' = [models EXCEPT ![m] = r]
      BY <1>1, NewModelType DEF Create
    <2> QED
      BY <2>1, <1>1, ModelUpdate, CallsKept DEF Create, TypeOK
  <1>2. ASSUME NEW m \in Models, Destroy(t, m)
        PROVE  TypeOK' /\ CallsAreSound'
    <2>1. models' \in [Models -> ModelRecord \cup {NoModel}]
      BY <1>2 DEF Destroy, TypeOK
    <2>2. ObjectsStay(Threads)
      <3>1. \A n \in Models : n # m => models'[n] = models[n]
        BY <1>2 DEF Destroy, TypeOK
      <3>2. \A u \in Threads : frame[u].model # NULL =>
              /\ frame[u].model \in Models
              /\ models[frame[u].model] # NoModel
              /\ frame[u].model # m
        BY <1>2 DEF Destroy, ModelUnused, CallsAreSound, InCall, LiveModel, Idle
      <3> QED BY <1>2, <3>1, <3>2 DEF Destroy, ObjectsStay, CallsAreSound, LiveArguments
    <2> QED BY <2>1, <2>2, <1>2, CallsKept DEF Destroy, TypeOK
  <1>3. ASSUME NEW m \in Models, NEW c \in ArgumentsObjects,
               ComputeArgumentsCreateBegin(t, m, c)
        PROVE  TypeOK' /\ CallsAreSound'
    <2>1. models[m] \in ModelRecord
      BY <1>3, LiveTypes DEF ComputeArgumentsCreateBegin
    <2>2. PICK ca \in Arguments : args' = [args EXCEPT ![c] = ca]
      BY <1>3, <2>1, NewArgumentsType DEF ComputeArgumentsCreateBegin, ModelRecord
    <2>3. /\ args' \in [ArgumentsObjects -> Arguments \cup {NoArguments}]
          /\ ObjectsStay(Threads) /\ args'[c] # NoArguments
      BY <1>3, <2>2, ArgumentsUpdate DEF ComputeArgumentsCreateBegin
    <2>4. CallsAreSound' /\ frame' \in [Threads -> Frame]
      BY <1>3, <2>3, CallsAfterEnter, ModelConstantsAssumption
      DEF ComputeArgumentsCreateBegin, LiveModel
    <2> QED BY <2>3, <2>4, <1>3 DEF ComputeArgumentsCreateBegin, TypeOK
  <1>4. ASSUME NEW m \in Models, NEW c \in ArgumentsObjects,
               ComputeArgumentsDestroy(t, m, c)
        PROVE  TypeOK' /\ CallsAreSound'
    <2>1. args' \in [ArgumentsObjects -> Arguments \cup {NoArguments}]
      BY <1>4 DEF ComputeArgumentsDestroy, TypeOK
    <2>2. ObjectsStay(Threads)
      <3>1. \A b \in ArgumentsObjects : b # c => args'[b] = args[b]
        BY <1>4 DEF ComputeArgumentsDestroy, TypeOK
      <3>2. \A u \in Threads : frame[u].ca # NULL =>
              /\ frame[u].ca \in ArgumentsObjects
              /\ args[frame[u].ca] # NoArguments
              /\ frame[u].ca # c
        BY <1>4 DEF ComputeArgumentsDestroy, ArgumentsFree, CallsAreSound, LiveArguments
      <3>3. \A u \in Threads : frame[u].model # NULL => models[frame[u].model] # NoModel
        BY DEF CallsAreSound, InCall, LiveModel, Idle
      <3> QED BY <1>4, <3>1, <3>2, <3>3 DEF ComputeArgumentsDestroy, ObjectsStay
    <2> QED BY <2>1, <2>2, <1>4, CallsKept DEF ComputeArgumentsDestroy, TypeOK
  <1>5. ASSUME NEW c \in ArgumentsObjects, NEW n \in ArgumentNames,
               NEW p \in {"null", "set"}, SimulatorSetsArgumentPointer(t, c, n, p)
        PROVE  TypeOK' /\ CallsAreSound'
    <2>1. PICK ca \in Arguments : args' = [args EXCEPT ![c] = ca]
      BY <1>5, LiveTypes, SetPointerType
      DEF SimulatorSetsArgumentPointer, SettingPointer, Pointer
    <2> QED
      BY <1>5, <2>1, ArgumentsUpdate, CallsKept
      DEF SimulatorSetsArgumentPointer, SettingPointer, TypeOK
  <1>6. ASSUME NEW c \in ArgumentsObjects, NEW n \in CallbackNames,
               NEW p \in {"null", "set"}, SimulatorSetsCallbackPointer(t, c, n, p)
        PROVE  TypeOK' /\ CallsAreSound'
    <2>1. PICK ca \in Arguments : args' = [args EXCEPT ![c] = ca]
      BY <1>6, LiveTypes, SetPointerType
      DEF SimulatorSetsCallbackPointer, SettingPointer, Pointer
    <2> QED
      BY <1>6, <2>1, ArgumentsUpdate, CallsKept
      DEF SimulatorSetsCallbackPointer, SettingPointer, TypeOK
  <1>7. ASSUME NEW m \in Models, NEW c \in ArgumentsObjects, ComputeBegin(t, m, c)
        PROVE  TypeOK' /\ CallsAreSound'
    <2>1. PICK ca \in Arguments : args' = [args EXCEPT ![c] = ca]
      BY <1>7, LiveTypes, PreparedType DEF ComputeBegin
    <2>2. /\ args' \in [ArgumentsObjects -> Arguments \cup {NoArguments}]
          /\ ObjectsStay(Threads) /\ args'[c] # NoArguments
      BY <1>7, <2>1, ArgumentsUpdate DEF ComputeBegin
    <2>3. CallsAreSound' /\ frame' \in [Threads -> Frame]
      BY <1>7, <2>2, CallsAfterEnter, ModelConstantsAssumption
      DEF ComputeBegin, LiveModel
    <2> QED BY <2>2, <2>3, <1>7, NothingHeldType DEF ComputeBegin, TypeOK
  <1>8. ASSUME NEW m \in Models, ClearThenRefreshBegin(t, m)
        PROVE  TypeOK' /\ CallsAreSound'
    <2>1. PICK r \in ModelRecord : models' = [models EXCEPT ![m] = r]
      BY <1>8, LiveTypes, PublishType DEF ClearThenRefreshBegin
    <2>2. /\ models' \in [Models -> ModelRecord \cup {NoModel}]
          /\ ObjectsStay(Threads) /\ models'[m] # NoModel
      BY <1>8, <2>1, ModelUpdate DEF ClearThenRefreshBegin
    <2>3. ModelStable(m)
      BY <1>8 DEF ClearThenRefreshBegin, ModelUnused, ModelStable
    <2>4. CallsAreSound' /\ frame' \in [Threads -> Frame]
      BY <1>8, <2>2, <2>3, CallsAfterEnter DEF ClearThenRefreshBegin
    <2> QED BY <2>2, <2>4, <1>8 DEF ClearThenRefreshBegin, TypeOK
  <1>9. ASSUME NEW m \in Models, NEW c \in ArgumentsObjects \cup {NULL},
               ExtensionBegin(t, m, c)
        PROVE  TypeOK' /\ CallsAreSound'
    <2>1. ObjectsStay(Threads)
      BY <1>9, NoUpdate DEF ExtensionBegin
    <2>2. ModelStable(m)
      BY <1>9 DEF ExtensionBegin, ModelUnused, ModelStable
    <2>3. models'[m] # NoModel /\ (c # NULL => args'[c] # NoArguments)
      BY <1>9 DEF ExtensionBegin, LiveModel, LiveArguments
    <2>4. CallsAreSound' /\ frame' \in [Threads -> Frame]
      BY <1>9, <2>1, <2>2, <2>3, CallsAfterEnter DEF ExtensionBegin
    <2> QED BY <2>4, <1>9, NothingHeldType DEF ExtensionBegin, TypeOK
  <1> QED
    BY <1>1, <1>2, <1>3, <1>4, <1>5, <1>6, <1>7, <1>8, <1>9 DEF SimulatorCalls

\* What a model's routine does through its views, step by step.
LEMMA ModelStepSound ==
  ASSUME TypeOK, CallsAreSound, NEW t \in Threads, ModelCalls(t)
  PROVE  TypeOK' /\ CallsAreSound'
  <1> DEFINE c == frame[t].ca
             m == frame[t].model
  <1>1. ASSUME NEW n \in ArgumentNames, NEW s \in SupportStatus,
               ModelSetsArgumentSupportStatus(t, n, s)
        PROVE  TypeOK' /\ CallsAreSound'
    <2>1. c \in ArgumentsObjects /\ args[c] \in Arguments
      BY <1>1, OwnObjects DEF ModelSetsArgumentSupportStatus, SettingStatus, InCall
    <2>2. PICK ca \in Arguments : args' = [args EXCEPT ![c] = ca]
      BY <1>1, <2>1, SetSupportStatusType DEF ModelSetsArgumentSupportStatus
    <2> QED
      BY <1>1, <2>1, <2>2, ArgumentsUpdate, CallsKept
      DEF ModelSetsArgumentSupportStatus, SettingStatus, TypeOK
  <1>2. ASSUME NEW n \in CallbackNames, NEW s \in SupportStatus,
               ModelSetsCallbackSupportStatus(t, n, s)
        PROVE  TypeOK' /\ CallsAreSound'
    <2>1. c \in ArgumentsObjects /\ args[c] \in Arguments
      BY <1>2, OwnObjects DEF ModelSetsCallbackSupportStatus, SettingStatus, InCall
    <2>2. PICK ca \in Arguments : args' = [args EXCEPT ![c] = ca]
      BY <1>2, <2>1, SetSupportStatusType DEF ModelSetsCallbackSupportStatus
    <2> QED
      BY <1>2, <2>1, <2>2, ArgumentsUpdate, CallsKept
      DEF ModelSetsCallbackSupportStatus, SettingStatus, TypeOK
  <1>3. ASSUME NEW k \in ListIndex, NEW p \in -1 .. NumberOfParticles + 1,
               GetNeighborList(t, k, p)
        PROVE  TypeOK' /\ CallsAreSound'
    <2>1. c \in ArgumentsObjects /\ args[c] \in Arguments
      BY <1>3, OwnObjects DEF GetNeighborList, Asking, InCall
    <2>2. p \in Int /\ ValidParticle(args[c], p)
      BY <1>3 DEF GetNeighborList, Asking
    <2>3. PICK ca \in Arguments : args' = [args EXCEPT ![c] = ca]
      BY <1>3, <2>1, <2>2, StoreListType DEF GetNeighborList
    <2>4. ZeroBased(args[c], p) \in StoredParticle
      BY <2>1, <2>2, StoreListType DEF StoredParticle
    <2>5. held' \in [Threads -> [ListIndex -> StoredParticle]]
      BY <1>3, <2>4 DEF GetNeighborList, TypeOK
    <2> QED
      BY <1>3, <2>1, <2>3, <2>5, ArgumentsUpdate, CallsKept
      DEF GetNeighborList, Asking, TypeOK
  <1>4. ASSUME NEW k \in ListIndex, NEW p \in -1 .. NumberOfParticles + 1,
               GetNeighborListPastTheEnd(t, k, p)
        PROVE  TypeOK' /\ CallsAreSound'
    <2>1. frame' = [frame EXCEPT ![t].call = "undefined"]
          /\ UNCHANGED <<models, args, owner, held>>
          /\ ~InCall(t, "idle") /\ frame[t].ca # NULL
      BY <1>4, OwnObjects DEF GetNeighborListPastTheEnd, Asking, InCall, InExtension
    <2>2. frame' \in [Threads -> Frame]
      BY <2>1 DEF TypeOK, Frame, Call
    <2>3. \A u \in Threads :
            /\ frame'[u].model = frame[u].model /\ frame'[u].ca = frame[u].ca
            /\ frame'[u].call = IF u = t THEN "undefined" ELSE frame[u].call
      BY <2>1 DEF TypeOK, Frame
    <2>4. \A u \in Threads : u # t => frame'[u] = frame[u]
      BY <2>1 DEF TypeOK
    <2>5. frame'[t] # Idle
      BY <2>3 DEF Idle
    <2>6. CallsAreSound'
      BY <2>1, <2>3, <2>4, <2>5
      DEF CallsAreSound, InCall, LiveModel, LiveArguments
    <2> QED BY <2>1, <2>2, <2>6 DEF TypeOK
  <1>5. ASSUME NEW d \in Distances \cup {NULL}, ModelSetsInfluenceDistance(t, d)
        PROVE  TypeOK' /\ CallsAreSound'
    <2>1. m \in Models /\ models[m] \in ModelRecord
      BY <1>5, OwnObjects DEF ModelSetsInfluenceDistance, Publishing, InCall, InExtension
    <2>2. PICK r \in ModelRecord : models' = [models EXCEPT ![m] = r]
      BY <1>5, <2>1, PublishType DEF ModelSetsInfluenceDistance
    <2> QED
      BY <1>5, <2>1, <2>2, ModelUpdate, CallsKept
      DEF ModelSetsInfluenceDistance, Publishing, TypeOK
  <1>6. ASSUME NEW l \in ListsInput, ModelSetsNeighborLists(t, l)
        PROVE  TypeOK' /\ CallsAreSound'
    <2>1. m \in Models /\ models[m] \in ModelRecord
      BY <1>6, OwnObjects DEF ModelSetsNeighborLists, Publishing, InCall, InExtension
    <2>2. PICK r \in ModelRecord : models' = [models EXCEPT ![m] = r]
      BY <1>6, <2>1, PublishType DEF ModelSetsNeighborLists
    <2> QED
      BY <1>6, <2>1, <2>2, ModelUpdate, CallsKept
      DEF ModelSetsNeighborLists, Publishing, TypeOK
  <1>7. ASSUME NEW numbering \in Numbering, ModelSetsNumbering(t, numbering)
        PROVE  TypeOK' /\ CallsAreSound'
    <2>1. m \in Models /\ models[m] \in ModelRecord
      BY <1>7, OwnObjects DEF ModelSetsNumbering, InCall, InExtension
    <2>2. [models[m] EXCEPT !.modelNumbering = numbering] \in ModelRecord
      BY <2>1 DEF ModelRecord
    <2>3. PICK r \in ModelRecord : models' = [models EXCEPT ![m] = r]
      BY <1>7, <2>1, <2>2 DEF ModelSetsNumbering
    <2> QED
      BY <1>7, <2>1, <2>3, ModelUpdate, CallsKept DEF ModelSetsNumbering, TypeOK
  <1> QED BY <1>1, <1>2, <1>3, <1>4, <1>5, <1>6, <1>7 DEF ModelCalls

\* What happens when a model's routine returns, step by step.
LEMMA ReturnStepSound ==
  ASSUME TypeOK, CallsAreSound, NEW t \in Threads, RoutineReturns(t)
  PROVE  TypeOK' /\ CallsAreSound'
  <1> DEFINE c == frame[t].ca
             m == frame[t].model
  <1>1. ASSUME NEW error \in BOOLEAN, ComputeArgumentsCreateEnd(t, error)
        PROVE  TypeOK' /\ CallsAreSound'
    <2>1. c # NULL /\ c \in ArgumentsObjects
      BY <1>1, OwnObjects DEF ComputeArgumentsCreateEnd, InCall
    <2>2. args' \in [ArgumentsObjects -> Arguments \cup {NoArguments}]
          /\ owner' \in [ArgumentsObjects -> Models \cup {NULL}]
      BY <1>1 DEF ComputeArgumentsCreateEnd, TypeOK
    <2>3. ObjectsStay(Threads \ {t})
      <3>1. \A b \in ArgumentsObjects : b # c => args'[b] = args[b]
        BY <1>1 DEF ComputeArgumentsCreateEnd, TypeOK
      <3>2. \A u \in Threads \ {t} : frame[u].ca # NULL =>
              /\ frame[u].ca \in ArgumentsObjects
              /\ args[frame[u].ca] # NoArguments
              /\ frame[u].ca # c
        BY DEF CallsAreSound, LiveArguments
      <3>3. \A u \in Threads : frame[u].model # NULL => models[frame[u].model] # NoModel
        BY DEF CallsAreSound, InCall, LiveModel, Idle
      <3> QED BY <1>1, <3>1, <3>2, <3>3 DEF ComputeArgumentsCreateEnd, ObjectsStay
    <2>4. CallsAreSound' /\ frame' \in [Threads -> Frame]
      BY <1>1, <2>3, CallsAfterLeave DEF ComputeArgumentsCreateEnd
    <2> QED BY <1>1, <2>2, <2>4 DEF ComputeArgumentsCreateEnd, TypeOK
  <1>2. ASSUME ComputeEnd(t)
        PROVE  TypeOK' /\ CallsAreSound'
    <2>1. m \in Models /\ models[m] \in ModelRecord
          /\ c \in ArgumentsObjects /\ args[c] \in Arguments
      BY <1>2, OwnObjects DEF ComputeEnd, InCall
    <2>2. PICK ca \in Arguments : args' = [args EXCEPT ![c] = ca]
      BY <1>2, <2>1, PreparedType DEF ComputeEnd
    <2>3. /\ args' \in [ArgumentsObjects -> Arguments \cup {NoArguments}]
          /\ ObjectsStay(Threads)
      BY <1>2, <2>1, <2>2, ArgumentsUpdate DEF ComputeEnd
    <2>4. CallsAreSound' /\ frame' \in [Threads -> Frame]
      BY <1>2, <2>3, CallsAfterLeave DEF ComputeEnd, ObjectsStay
    <2> QED BY <1>2, <2>3, <2>4, NothingHeldType DEF ComputeEnd, TypeOK
  <1>3. ASSUME NEW error \in BOOLEAN, ClearThenRefreshEnd(t, error)
        PROVE  TypeOK' /\ CallsAreSound'
    <2>1. m \in Models /\ models[m] \in ModelRecord
      BY <1>3, OwnObjects DEF ClearThenRefreshEnd, InCall
    <2>2. (~error /\ ListsComplete(models[m])) \in BOOLEAN
      OBVIOUS
    <2>3. PICK b \in BOOLEAN : models' = [models EXCEPT ![m].accepted = b]
      BY <1>3, <2>2 DEF ClearThenRefreshEnd
    <2>4. PICK r \in ModelRecord : models' = [models EXCEPT ![m] = r]
      BY <2>1, <2>3 DEF ModelRecord
    <2>5. /\ models' \in [Models -> ModelRecord \cup {NoModel}]
          /\ ObjectsStay(Threads)
      BY <1>3, <2>1, <2>4, ModelUpdate DEF ClearThenRefreshEnd
    <2>6. CallsAreSound' /\ frame' \in [Threads -> Frame]
      BY <1>3, <2>5, CallsAfterLeave DEF ClearThenRefreshEnd, ObjectsStay
    <2> QED BY <1>3, <2>5, <2>6 DEF ClearThenRefreshEnd, TypeOK
  <1>4. ASSUME ExtensionEnd(t)
        PROVE  TypeOK' /\ CallsAreSound'
    <2>1. ObjectsStay(Threads)
      BY <1>4, NoUpdate DEF ExtensionEnd
    <2>2. CallsAreSound' /\ frame' \in [Threads -> Frame]
      BY <1>4, <2>1, CallsAfterLeave DEF ExtensionEnd, ObjectsStay
    <2> QED BY <1>4, <2>2 DEF ExtensionEnd, TypeOK
  <1> QED BY <1>1, <1>2, <1>3, <1>4 DEF RoutineReturns

\* A step that changes nothing.
LEMMA StutterSound ==
  ASSUME TypeOK, CallsAreSound, UNCHANGED vars
  PROVE  TypeOK' /\ CallsAreSound'
  <1>1. TypeOK'
    BY DEF TypeOK, vars
  <1>2. CallsAreSound'
    BY NoUpdate, CallsKept DEF vars
  <1> QED BY <1>1, <1>2

\* Every step of the specification.
LEMMA NextSound == TypeOK /\ CallsAreSound /\ [Next]_vars => TypeOK' /\ CallsAreSound'
  <1> SUFFICES ASSUME TypeOK, CallsAreSound, [Next]_vars
               PROVE  TypeOK' /\ CallsAreSound'
    OBVIOUS
  <1>1. ASSUME NEW t \in Threads, SimulatorCalls(t) \/ ModelCalls(t) \/ RoutineReturns(t)
        PROVE  TypeOK' /\ CallsAreSound'
    BY <1>1, SimulatorStepSound, ModelStepSound, ReturnStepSound
  <1>2. CASE UNCHANGED vars
    BY <1>2, StutterSound
  <1> QED BY <1>1, <1>2 DEF Next

\* The objects, frames and ghosts keep their types, and the calls in progress
\* only ever refer to objects that exist and that no other call may remove.
THEOREM TypeAndCallsCorrect == Spec => [](TypeOK /\ CallsAreSound)
  BY InitSound, NextSound, PTL DEF Spec

\* The same for the types alone, the form the runs check.
THEOREM TypeCorrect == Spec => []TypeOK
  BY TypeAndCallsCorrect, PTL

\* No call in progress is left with an object that is gone, or shares what it
\* needs for itself.
THEOREM CallsCorrect == Spec => []CallsAreSound
  BY TypeAndCallsCorrect, PTL

(***************************************************************************)
(* What one step does to one object.                                       *)
(***************************************************************************)
\* The operations that turn one ComputeArguments into another.
ArgumentsStep(ca, cb) ==
  \/ cb = ca
  \/ \E n \in ArgumentNames, s \in SupportStatus :
       MayChangeArgumentStatus(ca, n, s) /\ cb = SetArgumentSupportStatus(ca, n, s)
  \/ \E n \in CallbackNames, s \in SupportStatus :
       MayChangeCallbackStatus(ca, n, s) /\ cb = SetCallbackSupportStatus(ca, n, s)
  \/ \E n \in ArgumentNames, p \in {"null", "set"} : cb = SetArgumentPointer(ca, n, p)
  \/ \E n \in CallbackNames, p \in {"null", "set"} : cb = SetCallbackPointer(ca, n, p)
  \/ \E r \in ModelRecord : cb = Prepared(ca, r)
  \/ cb = Reset(ca)
  \/ \E k \in ListIndex, p \in Int : ValidParticle(ca, p) /\ cb = StoreList(ca, k, p)

\* ComputeArgumentsCreate.
ArgumentsCreated(c) ==
  /\ ~LiveArguments(c)
  /\ \E m \in Models :
       /\ LiveModel(m) /\ owner'[c] = m
       /\ args'[c] = NewArguments(models[m].name, models[m].modelNumbering,
                                  models[m].simulatorNumbering, models[m].numberingOffset)

\* The operations that turn one Model into another.
ModelStep(r, s) ==
  \/ s = r
  \/ s = Cleared(r)
  \/ \E d \in Distances \cup {NULL} : s = PublishInfluenceDistance(r, d)
  \/ \E l \in ListsInput : s = PublishNeighborLists(r, l)
  \/ \E b \in BOOLEAN : (b => ListsComplete(r)) /\ s = [r EXCEPT !.accepted = b]
  \/ /\ "ModelCreate" \in ExtensionViews
     /\ \E numbering \in Numbering : s = [r EXCEPT !.modelNumbering = numbering]

\* Create.
ModelCreated(m) ==
  /\ ~LiveModel(m)
  /\ \E name \in ModelNames, numberings \in NumberingPairs,
        routines \in RoutineSets, d \in Distances, l \in ListsInput :
       /\ ListsComplete(NewModel(name, numberings, routines, d, l))
       /\ models'[m] = NewModel(name, numberings, routines, d, l)

\* Destroy.
ModelDestroyed(m) ==
  /\ LiveModel(m) /\ models'[m] = NoModel
  /\ \A c \in ArgumentsObjects : owner[c] # m
  /\ UNCHANGED <<args, owner>>

\* An object that exists after a step was created by it or went through one of
\* the operations.
LEMMA ArgumentsEffect ==
  ASSUME TypeOK, CallsAreSound, [Next]_vars,
         NEW c \in ArgumentsObjects, args'[c] # NoArguments
  PROVE  \/ LiveArguments(c) /\ owner'[c] = owner[c] /\ ArgumentsStep(args[c], args'[c])
         \/ ArgumentsCreated(c)
  <1> DEFINE Goal == \/ /\ LiveArguments(c) /\ owner'[c] = owner[c]
                        /\ ArgumentsStep(args[c], args'[c])
                     \/ ArgumentsCreated(c)
  <1>0. ASSUME args'[c] = args[c], owner'[c] = owner[c] PROVE Goal
    BY <1>0 DEF LiveArguments, ArgumentsStep
  <1>1. ASSUME UNCHANGED <<args, owner>> PROVE Goal
    BY <1>0, <1>1
  <1>2. ASSUME NEW t \in Threads, NEW m \in Models, NEW b \in ArgumentsObjects,
               ComputeArgumentsCreateBegin(t, m, b)
        PROVE  Goal
    BY <1>0, <1>2 DEF ComputeArgumentsCreateBegin, ArgumentsCreated, TypeOK
  <1>3. ASSUME NEW t \in Threads, NEW error \in BOOLEAN,
               ComputeArgumentsCreateEnd(t, error)
        PROVE  Goal
    BY <1>0, <1>3 DEF ComputeArgumentsCreateEnd, TypeOK
  <1>4. ASSUME NEW t \in Threads, NEW m \in Models, NEW b \in ArgumentsObjects,
               ComputeArgumentsDestroy(t, m, b)
        PROVE  Goal
    BY <1>0, <1>4 DEF ComputeArgumentsDestroy, TypeOK
  <1>5. ASSUME owner' = owner, NEW b \in ArgumentsObjects, NEW cb,
               args' = [args EXCEPT ![b] = cb],
               LiveArguments(b), ArgumentsStep(args[b], cb)
        PROVE  Goal
    BY <1>0, <1>5 DEF TypeOK
  <1>6. ASSUME NEW t \in Threads, NEW b \in ArgumentsObjects, NEW n \in ArgumentNames,
               NEW p \in {"null", "set"}, SimulatorSetsArgumentPointer(t, b, n, p)
        PROVE  Goal
    <2>1. ArgumentsStep(args[b], SetArgumentPointer(args[b], n, p))
      BY DEF ArgumentsStep
    <2> QED BY <1>5, <1>6, <2>1 DEF SimulatorSetsArgumentPointer, SettingPointer
  <1>7. ASSUME NEW t \in Threads, NEW b \in ArgumentsObjects, NEW n \in CallbackNames,
               NEW p \in {"null", "set"}, SimulatorSetsCallbackPointer(t, b, n, p)
        PROVE  Goal
    <2>1. ArgumentsStep(args[b], SetCallbackPointer(args[b], n, p))
      BY DEF ArgumentsStep
    <2> QED BY <1>5, <1>7, <2>1 DEF SimulatorSetsCallbackPointer, SettingPointer
  <1>8. ASSUME NEW t \in Threads, NEW m \in Models, NEW b \in ArgumentsObjects,
               ComputeBegin(t, m, b)
        PROVE  Goal
    <2>1. models[m] \in ModelRecord
      BY <1>8, LiveTypes DEF ComputeBegin
    <2>2. ArgumentsStep(args[b], Prepared(args[b], models[m]))
      BY <2>1 DEF ArgumentsStep
    <2> QED BY <1>5, <1>8, <2>2 DEF ComputeBegin
  <1>9. ASSUME NEW t \in Threads, ComputeEnd(t)
        PROVE  Goal
    <2>1. frame[t].ca \in ArgumentsObjects /\ LiveArguments(frame[t].ca)
      BY <1>9 DEF ComputeEnd, CallsAreSound, InCall
    <2>2. ArgumentsStep(args[frame[t].ca], Reset(args[frame[t].ca]))
      BY DEF ArgumentsStep
    <2> QED BY <1>5, <1>9, <2>1, <2>2 DEF ComputeEnd
  <1>10. ASSUME NEW t \in Threads, NEW n \in ArgumentNames, NEW s \in SupportStatus,
                ModelSetsArgumentSupportStatus(t, n, s)
         PROVE  Goal
    <2> DEFINE b == frame[t].ca
    <2>1. b \in ArgumentsObjects /\ LiveArguments(b)
      BY <1>10 DEF ModelSetsArgumentSupportStatus, SettingStatus, CallsAreSound, InCall
    <2>2. ArgumentsStep(args[b], SetArgumentSupportStatus(args[b], n, s))
      BY <1>10 DEF ModelSetsArgumentSupportStatus, ArgumentsStep
    <2> QED BY <1>5, <1>10, <2>1, <2>2 DEF ModelSetsArgumentSupportStatus, SettingStatus
  <1>11. ASSUME NEW t \in Threads, NEW n \in CallbackNames, NEW s \in SupportStatus,
                ModelSetsCallbackSupportStatus(t, n, s)
         PROVE  Goal
    <2> DEFINE b == frame[t].ca
    <2>1. b \in ArgumentsObjects /\ LiveArguments(b)
      BY <1>11 DEF ModelSetsCallbackSupportStatus, SettingStatus, CallsAreSound, InCall
    <2>2. ArgumentsStep(args[b], SetCallbackSupportStatus(args[b], n, s))
      BY <1>11 DEF ModelSetsCallbackSupportStatus, ArgumentsStep
    <2> QED BY <1>5, <1>11, <2>1, <2>2 DEF ModelSetsCallbackSupportStatus, SettingStatus
  <1>12. ASSUME NEW t \in Threads, NEW k \in ListIndex,
                NEW p \in -1 .. NumberOfParticles + 1, GetNeighborList(t, k, p)
         PROVE  Goal
    <2> DEFINE b == frame[t].ca
    <2>1. b \in ArgumentsObjects /\ LiveArguments(b)
      BY <1>12 DEF GetNeighborList, Asking, CallsAreSound, InCall
    <2>2. p \in Int
      OBVIOUS
    <2>3. ArgumentsStep(args[b], StoreList(args[b], k, p))
      BY <1>12, <2>2 DEF GetNeighborList, Asking, ArgumentsStep
    <2> QED BY <1>5, <1>12, <2>1, <2>3 DEF GetNeighborList, Asking
  <1>13. ASSUME NEW t \in Threads, SimulatorCalls(t)
         PROVE  Goal
    BY <1>13, <1>1, <1>2, <1>4, <1>6, <1>7, <1>8
    DEF SimulatorCalls, Create, Destroy, ClearThenRefreshBegin, ExtensionBegin
  <1>14. ASSUME NEW t \in Threads, ModelCalls(t)
         PROVE  Goal
    BY <1>14, <1>1, <1>10, <1>11, <1>12
    DEF ModelCalls, GetNeighborListPastTheEnd, Asking, ModelSetsInfluenceDistance,
        ModelSetsNeighborLists, Publishing, ModelSetsNumbering
  <1>15. ASSUME NEW t \in Threads, RoutineReturns(t)
         PROVE  Goal
    BY <1>15, <1>1, <1>3, <1>9 DEF RoutineReturns, ClearThenRefreshEnd, ExtensionEnd
  <1> QED BY <1>1, <1>13, <1>14, <1>15 DEF Next, vars

\* A Model remains one through the operations.
LEMMA ModelStepType ==
  ASSUME NEW r \in ModelRecord, NEW s, ModelStep(r, s)
  PROVE  s \in ModelRecord
  <1>1. ASSUME NEW b \in BOOLEAN, s = [r EXCEPT !.accepted = b]
        PROVE  s \in ModelRecord
    BY <1>1 DEF ModelRecord
  <1>2. ASSUME NEW numbering \in Numbering, s = [r EXCEPT !.modelNumbering = numbering]
        PROVE  s \in ModelRecord
    BY <1>2 DEF ModelRecord
  <1> QED BY <1>1, <1>2, PublishType DEF ModelStep

\* A Model is created, destroyed, or goes through one of the operations.
LEMMA ModelEffect ==
  ASSUME TypeOK, CallsAreSound, [Next]_vars, NEW m \in Models
  PROVE  \/ ~LiveModel(m) /\ models'[m] = NoModel
         \/ LiveModel(m) /\ models'[m] # NoModel /\ ModelStep(models[m], models'[m])
         \/ ModelCreated(m)
         \/ ModelDestroyed(m)
  <1> DEFINE Goal == \/ ~LiveModel(m) /\ models'[m] = NoModel
                     \/ /\ LiveModel(m) /\ models'[m] # NoModel
                        /\ ModelStep(models[m], models'[m])
                     \/ ModelCreated(m)
                     \/ ModelDestroyed(m)
  <1>0. ASSUME models'[m] = models[m] PROVE Goal
    BY <1>0 DEF LiveModel, ModelStep
  <1>1. ASSUME NEW n \in Models, LiveModel(n), NEW s, ModelStep(models[n], s),
               models' = [models EXCEPT ![n] = s]
        PROVE  Goal
    <2>1. s # NoModel
      BY <1>1, LiveTypes, ModelStepType, NoObjectAssumption
    <2> QED BY <1>0, <1>1, <2>1 DEF TypeOK
  <1>2. ASSUME NEW t \in Threads, NEW n \in Models, Create(t, n)
        PROVE  Goal
    BY <1>0, <1>2 DEF Create, ModelCreated, TypeOK
  <1>3. ASSUME NEW t \in Threads, NEW n \in Models, Destroy(t, n)
        PROVE  Goal
    BY <1>0, <1>3 DEF Destroy, ModelDestroyed, TypeOK
  <1>4. ASSUME NEW t \in Threads, NEW n \in Models, ClearThenRefreshBegin(t, n)
        PROVE  Goal
    <2>1. ModelStep(models[n], Cleared(models[n]))
      BY DEF ModelStep
    <2> QED BY <1>1, <1>4, <2>1 DEF ClearThenRefreshBegin
  <1>5. ASSUME NEW t \in Threads, ~InCall(t, "idle")
        PROVE  frame[t].model \in Models /\ LiveModel(frame[t].model)
    BY <1>5 DEF CallsAreSound
  <1>6. ASSUME NEW t \in Threads, NEW error \in BOOLEAN, ClearThenRefreshEnd(t, error)
        PROVE  Goal
    <2> DEFINE n == frame[t].model
               accepted == ~error /\ ListsComplete(models[n])
    <2>1. n \in Models /\ LiveModel(n)
      BY <1>5, <1>6 DEF ClearThenRefreshEnd, InCall
    <2>2. accepted \in BOOLEAN /\ (accepted => ListsComplete(models[n]))
      OBVIOUS
    <2>3. ModelStep(models[n], [models[n] EXCEPT !.accepted = accepted])
      BY <2>2 DEF ModelStep
    <2>4. models' = [models EXCEPT ![n] = [models[n] EXCEPT !.accepted = accepted]]
      BY <1>6, <2>1 DEF ClearThenRefreshEnd, TypeOK
    <2> QED BY <1>1, <2>1, <2>3, <2>4
  <1>7. ASSUME NEW t \in Threads, NEW d \in Distances \cup {NULL},
               ModelSetsInfluenceDistance(t, d)
        PROVE  Goal
    <2>1. ModelStep(models[frame[t].model], PublishInfluenceDistance(models[frame[t].model], d))
      BY DEF ModelStep
    <2> QED
      BY <1>1, <1>5, <1>7, <2>1
      DEF ModelSetsInfluenceDistance, Publishing, InCall, InExtension
  <1>8. ASSUME NEW t \in Threads, NEW l \in ListsInput, ModelSetsNeighborLists(t, l)
        PROVE  Goal
    <2>1. ModelStep(models[frame[t].model], PublishNeighborLists(models[frame[t].model], l))
      BY DEF ModelStep
    <2> QED
      BY <1>1, <1>5, <1>8, <2>1
      DEF ModelSetsNeighborLists, Publishing, InCall, InExtension
  <1>9. ASSUME NEW t \in Threads, NEW numbering \in Numbering,
               ModelSetsNumbering(t, numbering)
        PROVE  Goal
    <2> DEFINE n == frame[t].model
    <2>1. n \in Models /\ LiveModel(n) /\ "ModelCreate" \in ExtensionViews
      BY <1>5, <1>9 DEF ModelSetsNumbering, InCall, InExtension
    <2>2. ModelStep(models[n], [models[n] EXCEPT !.modelNumbering = numbering])
      BY <2>1 DEF ModelStep
    <2>3. models' = [models EXCEPT ![n] = [models[n] EXCEPT !.modelNumbering = numbering]]
      BY <1>9 DEF ModelSetsNumbering
    <2> QED BY <1>1, <2>1, <2>2, <2>3
  <1>10. ASSUME NEW t \in Threads, SimulatorCalls(t)
         PROVE  Goal
    BY <1>10, <1>0, <1>2, <1>3, <1>4
    DEF SimulatorCalls, ComputeArgumentsCreateBegin, ComputeArgumentsDestroy,
        SimulatorSetsArgumentPointer, SimulatorSetsCallbackPointer, SettingPointer,
        ComputeBegin, ExtensionBegin
  <1>11. ASSUME NEW t \in Threads, ModelCalls(t)
         PROVE  Goal
    BY <1>11, <1>0, <1>7, <1>8, <1>9
    DEF ModelCalls, ModelSetsArgumentSupportStatus, ModelSetsCallbackSupportStatus,
        SettingStatus, GetNeighborList, GetNeighborListPastTheEnd, Asking
  <1>12. ASSUME NEW t \in Threads, RoutineReturns(t)
         PROVE  Goal
    BY <1>12, <1>0, <1>6
    DEF RoutineReturns, ComputeArgumentsCreateEnd, ComputeEnd, ExtensionEnd
  <1> QED BY <1>0, <1>10, <1>11, <1>12 DEF Next, vars

(***************************************************************************)
(* The registry of arguments and callbacks.                                *)
(***************************************************************************)
\* What the API requires is required, and what is supported has an entry.
NamesSound(status, pointer, api) ==
  \A n \in DOMAIN status :
    /\ n \in api => status[n] = "requiredByAPI"
    /\ status[n] # "notSupported" => pointer[n] # "absent"

RegistrySound(ca) ==
  /\ NamesSound(ca.argumentStatus, ca.argumentPointer, APIArguments)
  /\ NamesSound(ca.callbackStatus, ca.callbackPointer, APICallbacks)

\* A new object's registry is sound.
LEMMA NewRegistry ==
  ASSUME NEW name, NEW mn, NEW sn, NEW o
  PROVE  RegistrySound(NewArguments(name, mn, sn, o))
  BY DEF RegistrySound, NamesSound, NewArguments, InitialStatus, InitialPointer

\* It stays sound.
LEMMA RegistryStep ==
  ASSUME NEW ca \in Arguments, NEW cb, ArgumentsStep(ca, cb), RegistrySound(ca)
  PROVE  RegistrySound(cb)
  <1>1. ASSUME NEW n \in ArgumentNames, NEW s \in SupportStatus,
               MayChangeArgumentStatus(ca, n, s), cb = SetArgumentSupportStatus(ca, n, s)
        PROVE  RegistrySound(cb)
    BY <1>1 DEF MayChangeArgumentStatus, MayChangeStatus, SetArgumentSupportStatus,
                PointerAfterStatus, RegistrySound, NamesSound, Arguments
  <1>2. ASSUME NEW n \in CallbackNames, NEW s \in SupportStatus,
               MayChangeCallbackStatus(ca, n, s), cb = SetCallbackSupportStatus(ca, n, s)
        PROVE  RegistrySound(cb)
    BY <1>2 DEF MayChangeCallbackStatus, MayChangeStatus, SetCallbackSupportStatus,
                PointerAfterStatus, RegistrySound, NamesSound, Arguments
  <1>3. ASSUME NEW n \in ArgumentNames, NEW p \in {"null", "set"}, cb = SetArgumentPointer(ca, n, p)
        PROVE  RegistrySound(cb)
    BY <1>3 DEF SetArgumentPointer, RegistrySound, NamesSound, Arguments
  <1>4. ASSUME NEW n \in CallbackNames, NEW p \in {"null", "set"}, cb = SetCallbackPointer(ca, n, p)
        PROVE  RegistrySound(cb)
    BY <1>4 DEF SetCallbackPointer, RegistrySound, NamesSound, Arguments
  <1>5. ASSUME \/ cb = ca
               \/ \E r \in ModelRecord : cb = Prepared(ca, r)
               \/ cb = Reset(ca)
               \/ \E k \in ListIndex, p \in Int : cb = StoreList(ca, k, p)
        PROVE  RegistrySound(cb)
    <2>1. /\ cb.argumentStatus = ca.argumentStatus /\ cb.argumentPointer = ca.argumentPointer
          /\ cb.callbackStatus = ca.callbackStatus /\ cb.callbackPointer = ca.callbackPointer
      BY <1>5 DEF Prepared, Reset, StoreList, Arguments
    <2> QED BY <2>1 DEF RegistrySound
  <1> QED BY <1>1, <1>2, <1>3, <1>4, <1>5 DEF ArgumentsStep

RegistriesSound ==
  \A c \in ArgumentsObjects : LiveArguments(c) => RegistrySound(args[c])

\* Every step keeps all registries sound.
LEMMA RegistriesStaySound ==
  ASSUME TypeOK, CallsAreSound, RegistriesSound, [Next]_vars
  PROVE  RegistriesSound'
  <1> SUFFICES ASSUME NEW c \in ArgumentsObjects, args'[c] # NoArguments
               PROVE  RegistrySound(args'[c])
    BY DEF RegistriesSound, LiveArguments
  <1>1. CASE LiveArguments(c) /\ ArgumentsStep(args[c], args'[c])
    BY <1>1, RegistryStep, LiveTypes DEF RegistriesSound
  <1>2. CASE ArgumentsCreated(c)
    BY <1>2, NewRegistry DEF ArgumentsCreated
  <1> QED BY <1>1, <1>2, ArgumentsEffect

\* TypeOK, CallsAreSound and the registries.
THEOREM RegistriesCorrect == Spec => [](TypeOK /\ CallsAreSound /\ RegistriesSound)
  <1>1. Init => RegistriesSound
    BY DEF Init, RegistriesSound, LiveArguments
  <1> QED BY <1>1, InitSound, NextSound, RegistriesStaySound, PTL DEF Spec

\* A supported name has a pointer entry, whatever the order of the calls.
THEOREM EntriesCorrect == Spec => []SupportedNamesHaveEntries
  <1>1. TypeOK /\ RegistriesSound => SupportedNamesHaveEntries
    BY LiveTypes
    DEF RegistriesSound, RegistrySound, NamesSound, SupportedNamesHaveEntries, Arguments
  <1> QED BY <1>1, RegistriesCorrect, PTL

(***************************************************************************)
(* Refreshed lists.                                                        *)
(***************************************************************************)
\* What a Model has was published since it was cleared, and all of it was
\* when the simulator has been told that the lists are complete.
FreshModel(r) ==
  /\ r.influenceDistance # NULL => "influenceDistance" \in r.published
  /\ r.numberOfNeighborLists >= 1 => "neighborLists" \in r.published
  /\ r.accepted => /\ ListsComplete(r)
                   /\ r.published = {"influenceDistance", "neighborLists"}

\* Each operation keeps a Model's lists fresh.
LEMMA FreshStep ==
  ASSUME NEW r \in ModelRecord, NEW s, ModelStep(r, s), FreshModel(r)
  PROVE  FreshModel(s)
  <1>1. CASE s = Cleared(r)
    BY <1>1 DEF Cleared, FreshModel, ModelRecord
  <1>2. ASSUME NEW d \in Distances \cup {NULL}, s = PublishInfluenceDistance(r, d)
        PROVE  FreshModel(s)
    BY <1>2 DEF PublishInfluenceDistance, FreshModel, ModelRecord
  <1>3. ASSUME NEW l \in ListsInput, s = PublishNeighborLists(r, l)
        PROVE  FreshModel(s)
    BY <1>3 DEF PublishNeighborLists, FreshModel, ModelRecord
  <1>4. ASSUME NEW b \in BOOLEAN, b => ListsComplete(r), s = [r EXCEPT !.accepted = b]
        PROVE  FreshModel(s)
    <2>1. ListsComplete(s) <=> ListsComplete(r)
      BY <1>4 DEF ListsComplete, CutoffsWithinInfluence, ModelRecord
    <2>2. ListsComplete(r) => r.published = {"influenceDistance", "neighborLists"}
      BY DEF ListsComplete, FreshModel, ModelRecord
    <2> QED BY <1>4, <2>1, <2>2 DEF FreshModel, ModelRecord
  <1>5. ASSUME NEW numbering \in Numbering, s = [r EXCEPT !.modelNumbering = numbering]
        PROVE  FreshModel(s)
    <2>1. ListsComplete(s) <=> ListsComplete(r)
      BY <1>5 DEF ListsComplete, CutoffsWithinInfluence, ModelRecord
    <2> QED BY <1>5, <2>1 DEF FreshModel, ModelRecord
  <1> QED BY <1>1, <1>2, <1>3, <1>4, <1>5 DEF ModelStep

ModelsFresh == \A m \in Models : LiveModel(m) => FreshModel(models[m])

\* Every step keeps all Models' lists fresh.
LEMMA ModelsStayFresh ==
  ASSUME TypeOK, CallsAreSound, ModelsFresh, [Next]_vars
  PROVE  ModelsFresh'
  <1> SUFFICES ASSUME NEW m \in Models, models'[m] # NoModel
               PROVE  FreshModel(models'[m])
    BY DEF ModelsFresh, LiveModel
  <1>1. CASE LiveModel(m) /\ ModelStep(models[m], models'[m])
    BY <1>1, FreshStep, LiveTypes DEF ModelsFresh
  <1>2. CASE ModelCreated(m)
    BY <1>2 DEF ModelCreated, NewModel, FreshModel
  <1> QED BY <1>1, <1>2, ModelEffect DEF ModelDestroyed

\* TypeOK, CallsAreSound and the Models.
THEOREM ModelsFreshCorrect == Spec => [](TypeOK /\ CallsAreSound /\ ModelsFresh)
  <1>1. Init => ModelsFresh
    BY DEF Init, ModelsFresh, LiveModel
  <1> QED BY <1>1, InitSound, NextSound, ModelsStayFresh, PTL DEF Spec

\* When ClearThenRefresh reports success, all the lists are complete and none
\* is from before it cleared them, for all Refresh and Extension routines.
THEOREM AcceptedListsCorrect == Spec => []AcceptedListsAreFresh
  <1>1. ModelsFresh => AcceptedListsAreFresh
    BY DEF ModelsFresh, FreshModel, AcceptedListsAreFresh
  <1> QED BY <1>1, ModelsFreshCorrect, PTL

(***************************************************************************)
(* Particle numbers.                                                       *)
(***************************************************************************)
\* An object's offset is that of its numberings.
OffsetMatches(x) == x.numberingOffset = Offset(x.modelNumbering, x.simulatorNumbering)

\* No operation on a ComputeArguments changes its numberings or its offset.
LEMMA NumberingsStay ==
  ASSUME NEW ca \in Arguments, NEW cb, ArgumentsStep(ca, cb)
  PROVE  /\ cb.modelNumbering = ca.modelNumbering
         /\ cb.simulatorNumbering = ca.simulatorNumbering
         /\ cb.numberingOffset = ca.numberingOffset
  <1>1. ASSUME \/ cb = ca
               \/ \E r \in ModelRecord : cb = Prepared(ca, r)
               \/ cb = Reset(ca)
               \/ \E k \in ListIndex, p \in Int : cb = StoreList(ca, k, p)
        PROVE  /\ cb.modelNumbering = ca.modelNumbering
               /\ cb.simulatorNumbering = ca.simulatorNumbering
               /\ cb.numberingOffset = ca.numberingOffset
    BY <1>1 DEF Prepared, Reset, StoreList, Arguments
  <1>2. ASSUME \/ \E n \in ArgumentNames, s \in SupportStatus :
                    cb = SetArgumentSupportStatus(ca, n, s)
               \/ \E n \in CallbackNames, s \in SupportStatus :
                    cb = SetCallbackSupportStatus(ca, n, s)
               \/ \E n \in ArgumentNames, p \in {"null", "set"} :
                    cb = SetArgumentPointer(ca, n, p)
               \/ \E n \in CallbackNames, p \in {"null", "set"} :
                    cb = SetCallbackPointer(ca, n, p)
        PROVE  /\ cb.modelNumbering = ca.modelNumbering
               /\ cb.simulatorNumbering = ca.simulatorNumbering
               /\ cb.numberingOffset = ca.numberingOffset
    BY <1>2 DEF SetArgumentSupportStatus, SetCallbackSupportStatus,
                SetArgumentPointer, SetCallbackPointer, Arguments
  <1> QED BY <1>1, <1>2 DEF ArgumentsStep

\* Nor does one on a Model, unless an Extension routine sets the numbering.
LEMMA ModelNumberingsStay ==
  ASSUME NEW r \in ModelRecord, NEW s, ModelStep(r, s),
         "ModelCreate" \notin ExtensionViews
  PROVE  /\ s.modelNumbering = r.modelNumbering
         /\ s.simulatorNumbering = r.simulatorNumbering
         /\ s.numberingOffset = r.numberingOffset
  BY DEF ModelStep, Cleared, PublishInfluenceDistance, PublishNeighborLists, ModelRecord

\* Offsets match, and an object has the numberings of the Model it was created
\* by, which exists as long as the object does.
OffsetsMatch ==
  "ModelCreate" \notin ExtensionViews =>
    /\ \A m \in Models : LiveModel(m) => OffsetMatches(models[m])
    /\ \A c \in ArgumentsObjects : LiveArguments(c) =>
         /\ OffsetMatches(args[c])
         /\ owner[c] \in Models /\ LiveModel(owner[c])
         /\ args[c].modelNumbering = models[owner[c]].modelNumbering
         /\ args[c].simulatorNumbering = models[owner[c]].simulatorNumbering

\* Every step keeps offsets and numberings in agreement.
LEMMA OffsetsKeepMatching ==
  ASSUME TypeOK, CallsAreSound, OffsetsMatch, [Next]_vars
  PROVE  OffsetsMatch'
  <1> SUFFICES ASSUME "ModelCreate" \notin ExtensionViews
               PROVE  OffsetsMatch'
    BY DEF OffsetsMatch
  <1>1. ASSUME NEW m \in Models, LiveModel(m), models'[m] # NoModel
        PROVE  /\ models'[m].modelNumbering = models[m].modelNumbering
               /\ models'[m].simulatorNumbering = models[m].simulatorNumbering
               /\ models'[m].numberingOffset = models[m].numberingOffset
    <2>1. ModelStep(models[m], models'[m])
      BY <1>1, ModelEffect DEF ModelCreated, ModelDestroyed
    <2> QED BY <1>1, <2>1, LiveTypes, ModelNumberingsStay
  <1>2. ASSUME NEW m \in Models, models'[m] # NoModel
        PROVE  OffsetMatches(models'[m])
    <2>1. CASE LiveModel(m)
      BY <1>1, <1>2, <2>1 DEF OffsetsMatch, OffsetMatches
    <2>2. CASE ModelCreated(m)
      BY <2>2 DEF ModelCreated, NewModel, OffsetMatches
    <2> QED BY <1>2, <2>1, <2>2, ModelEffect DEF ModelDestroyed
  <1>3. ASSUME NEW c \in ArgumentsObjects, args'[c] # NoArguments
        PROVE  /\ OffsetMatches(args'[c])
               /\ owner'[c] \in Models /\ models'[owner'[c]] # NoModel
               /\ args'[c].modelNumbering = models'[owner'[c]].modelNumbering
               /\ args'[c].simulatorNumbering = models'[owner'[c]].simulatorNumbering
    <2>1. CASE LiveArguments(c) /\ owner'[c] = owner[c] /\ ArgumentsStep(args[c], args'[c])
      <3>1. /\ args'[c].modelNumbering = args[c].modelNumbering
            /\ args'[c].simulatorNumbering = args[c].simulatorNumbering
            /\ args'[c].numberingOffset = args[c].numberingOffset
        BY <2>1, LiveTypes, NumberingsStay
      <3>2. owner[c] \in Models /\ LiveModel(owner[c])
        BY <2>1 DEF OffsetsMatch
      <3>3. models'[owner[c]] # NoModel
        BY <3>2, ModelEffect DEF ModelCreated, ModelDestroyed
      <3> QED BY <2>1, <3>1, <3>2, <3>3, <1>1 DEF OffsetsMatch, OffsetMatches
    <2>2. CASE ArgumentsCreated(c)
      <3>1. PICK m \in Models :
              /\ LiveModel(m) /\ owner'[c] = m
              /\ args'[c] = NewArguments(models[m].name, models[m].modelNumbering,
                              models[m].simulatorNumbering, models[m].numberingOffset)
        BY <2>2 DEF ArgumentsCreated
      <3>2. models'[m] # NoModel
        BY <1>3, <2>2, <3>1, ModelEffect
        DEF ModelCreated, ModelDestroyed, ArgumentsCreated, LiveArguments
      <3>3. OffsetMatches(models[m])
        BY <3>1 DEF OffsetsMatch
      <3> QED BY <3>1, <3>2, <3>3, <1>1 DEF NewArguments, OffsetMatches
    <2> QED BY <1>3, <2>1, <2>2, ArgumentsEffect
  <1> QED BY <1>2, <1>3 DEF OffsetsMatch, LiveModel, LiveArguments

\* TypeOK, CallsAreSound and the offsets.
THEOREM OffsetsCorrect == Spec => [](TypeOK /\ CallsAreSound /\ OffsetsMatch)
  <1>1. Init => OffsetsMatch
    BY DEF Init, OffsetsMatch, LiveModel, LiveArguments
  <1> QED BY <1>1, InitSound, NextSound, OffsetsKeepMatching, PTL DEF Spec

\* With the offset of its numberings, an object numbers each particle as the
\* simulator does, and a neighbour as the model does.
LEMMA RoundTrip ==
  ASSUME NEW ca \in Arguments, OffsetMatches(ca), NEW i \in ZeroBasedParticle
  PROVE  LET p == Base(ca.modelNumbering) + i
         IN  /\ ToSimulator(ca, p) = Base(ca.simulatorNumbering) + i
             /\ ToModel(ca, ToSimulator(ca, p)) = p
  <1>1. i \in Int
    BY DEF ZeroBasedParticle
  <1>2. /\ ca.modelNumbering \in {"zeroBased", "oneBased"}
        /\ ca.simulatorNumbering \in {"zeroBased", "oneBased"}
    BY DEF Arguments, Numbering
  <1>3. CASE ca.modelNumbering = ca.simulatorNumbering
    BY <1>1, <1>2, <1>3 DEF Base, ToSimulator, ToModel, Converts
  <1>4. CASE ca.modelNumbering = "zeroBased" /\ ca.simulatorNumbering = "oneBased"
    <2>1. ca.numberingOffset = -1
      BY <1>4 DEF OffsetMatches, Offset
    <2> QED BY <1>1, <1>4, <2>1 DEF Base, ToSimulator, ToModel, Converts
  <1>5. CASE ca.modelNumbering = "oneBased" /\ ca.simulatorNumbering = "zeroBased"
    <2>1. ca.numberingOffset = 1
      BY <1>5 DEF OffsetMatches, Offset
    <2> QED BY <1>1, <1>5, <2>1 DEF Base, ToSimulator, ToModel, Converts
  <1> QED BY <1>2, <1>3, <1>4, <1>5

\* The n-th particle of the model is the n-th of the simulator and back.
THEOREM NumbersCorrect == Spec => []NumbersRoundTrip
  <1>1. TypeOK /\ OffsetsMatch => NumbersRoundTrip
    BY LiveTypes, RoundTrip DEF OffsetsMatch, NumbersRoundTrip
  <1> QED BY <1>1, OffsetsCorrect, PTL

(***************************************************************************)
(* Computations.                                                           *)
(***************************************************************************)
\* A step that does not touch what thread t computes with.
Undisturbed(t) ==
  /\ InCall(t, "Compute")
  /\ frame'[t] = frame[t]
  /\ held'[t] = held[t]
  /\ models'[frame[t].model] = models[frame[t].model]
  /\ args'[frame[t].ca] = args[frame[t].ca]
  /\ owner'[frame[t].ca] = owner[frame[t].ca]

\* A thread that computes after a step has begun to, asks for a list, or is not
\* disturbed by what another thread does.
LEMMA ComputationUndisturbed ==
  ASSUME TypeOK, CallsAreSound, [Next]_vars, NEW t \in Threads, InCall(t, "Compute")'
  PROVE  \/ \E m \in Models, c \in ArgumentsObjects : ComputeBegin(t, m, c)
         \/ /\ InCall(t, "Compute")
            /\ \E k \in ListIndex, p \in Int : GetNeighborList(t, k, p)
         \/ Undisturbed(t)
  <1> DEFINE Goal == \/ \E m \in Models, c \in ArgumentsObjects : ComputeBegin(t, m, c)
                     \/ /\ InCall(t, "Compute")
                        /\ \E k \in ListIndex, p \in Int : GetNeighborList(t, k, p)
                     \/ Undisturbed(t)
             m0 == frame[t].model
             c0 == frame[t].ca
  <1>0. ASSUME InCall(t, "Compute")
        PROVE  /\ m0 \in Models /\ LiveModel(m0)
               /\ c0 \in ArgumentsObjects /\ LiveArguments(c0) /\ c0 # NULL
               /\ \A u \in Threads : u # t =>
                    /\ frame[u].ca # c0
                    /\ frame[u].call \in {"ClearThenRefresh", "Extension"} =>
                         frame[u].model # m0
    BY <1>0 DEF CallsAreSound, InCall
  <1>1. ASSUME NEW u \in Threads, NEW m \in Models, Create(u, m)
        PROVE  Goal
    BY <1>0, <1>1 DEF Create, Undisturbed, InCall, TypeOK
  <1>2. ASSUME NEW u \in Threads, NEW m \in Models, Destroy(u, m)
        PROVE  Goal
    BY <1>0, <1>2 DEF Destroy, ModelUnused, Undisturbed, InCall, TypeOK
  <1>3. ASSUME NEW u \in Threads, NEW m \in Models, NEW c \in ArgumentsObjects,
               ComputeArgumentsCreateBegin(u, m, c)
        PROVE  Goal
    <2>1. u # t /\ InCall(t, "Compute") /\ frame'[t] = frame[t]
      BY <1>3 DEF ComputeArgumentsCreateBegin, Enter, InCall, TypeOK
    <2> QED BY <1>0, <1>3, <2>1 DEF ComputeArgumentsCreateBegin, Undisturbed, TypeOK
  <1>4. ASSUME NEW u \in Threads, NEW m \in Models, NEW c \in ArgumentsObjects,
               ComputeArgumentsDestroy(u, m, c)
        PROVE  Goal
    BY <1>0, <1>4 DEF ComputeArgumentsDestroy, ArgumentsFree, Undisturbed, InCall, TypeOK
  <1>5. ASSUME NEW u \in Threads, NEW c \in ArgumentsObjects, SettingPointer(u, c),
               NEW cb, args' = [args EXCEPT ![c] = cb]
        PROVE  Goal
    BY <1>0, <1>5 DEF SettingPointer, ArgumentsFree, Undisturbed, InCall, TypeOK
  <1>6. ASSUME NEW u \in Threads, NEW m \in Models, NEW c \in ArgumentsObjects,
               ComputeBegin(u, m, c)
        PROVE  Goal
    <2>1. CASE u = t
      BY <1>6, <2>1
    <2>2. CASE u # t
      <3>1. InCall(t, "Compute") /\ frame'[t] = frame[t]
        BY <1>6, <2>2 DEF ComputeBegin, Enter, InCall, TypeOK
      <3> QED
        BY <1>0, <1>6, <2>2, <3>1 DEF ComputeBegin, ArgumentsFree, Undisturbed, TypeOK
    <2> QED BY <2>1, <2>2
  <1>7. ASSUME NEW u \in Threads, NEW m \in Models, ClearThenRefreshBegin(u, m)
        PROVE  Goal
    <2>1. u # t /\ InCall(t, "Compute") /\ frame'[t] = frame[t]
      BY <1>7 DEF ClearThenRefreshBegin, Enter, InCall, TypeOK
    <2> QED
      BY <1>0, <1>7, <2>1 DEF ClearThenRefreshBegin, ModelUnused, Undisturbed, TypeOK
  <1>8. ASSUME NEW u \in Threads, NEW m \in Models, NEW c \in ArgumentsObjects \cup {NULL},
               ExtensionBegin(u, m, c)
        PROVE  Goal
    <2>1. u # t /\ InCall(t, "Compute") /\ frame'[t] = frame[t]
      BY <1>8 DEF ExtensionBegin, Enter, InCall, TypeOK
    <2> QED BY <1>8, <2>1 DEF ExtensionBegin, Undisturbed, TypeOK
  <1>9. ASSUME NEW u \in Threads, SettingStatus(u),
               NEW cb, args' = [args EXCEPT ![frame[u].ca] = cb]
        PROVE  Goal
    <2>1. InCall(t, "Compute") /\ frame'[t] = frame[t] /\ u # t
      BY <1>9 DEF SettingStatus, InCall, InExtension
    <2> QED BY <1>0, <1>9, <2>1 DEF SettingStatus, Undisturbed, TypeOK
  <1>10. ASSUME NEW u \in Threads, NEW k \in ListIndex,
                NEW p \in -1 .. NumberOfParticles + 1, GetNeighborList(u, k, p)
         PROVE  Goal
    <2>1. InCall(t, "Compute") /\ frame'[t] = frame[t] /\ p \in Int
      BY <1>10 DEF GetNeighborList, InCall
    <2>2. CASE u = t
      BY <1>10, <2>1, <2>2
    <2>3. CASE u # t
      BY <1>0, <1>10, <2>1, <2>3 DEF GetNeighborList, Asking, Undisturbed, TypeOK
    <2> QED BY <2>2, <2>3
  <1>11. ASSUME NEW u \in Threads, NEW k \in ListIndex,
                NEW p \in -1 .. NumberOfParticles + 1, GetNeighborListPastTheEnd(u, k, p)
         PROVE  Goal
    <2>1. u # t /\ frame'[t] = frame[t] /\ InCall(t, "Compute")
      BY <1>11 DEF GetNeighborListPastTheEnd, InCall, TypeOK, Frame
    <2> QED BY <1>11, <2>1 DEF GetNeighborListPastTheEnd, Asking, Undisturbed, TypeOK
  <1>12. ASSUME NEW u \in Threads, Publishing(u),
                NEW r, models' = [models EXCEPT ![frame[u].model] = r]
         PROVE  Goal
    <2>1. /\ InCall(t, "Compute") /\ frame'[t] = frame[t] /\ u # t
          /\ frame[u].call \in {"ClearThenRefresh", "Extension"}
      BY <1>12 DEF Publishing, InCall, InExtension
    <2> QED BY <1>0, <1>12, <2>1 DEF Publishing, Undisturbed, TypeOK
  <1>13. ASSUME NEW u \in Threads, NEW numbering \in Numbering,
                ModelSetsNumbering(u, numbering)
         PROVE  Goal
    <2>1. /\ InCall(t, "Compute") /\ frame'[t] = frame[t] /\ u # t
          /\ frame[u].call \in {"ClearThenRefresh", "Extension"}
      BY <1>13 DEF ModelSetsNumbering, InCall, InExtension
    <2> QED BY <1>0, <1>13, <2>1 DEF ModelSetsNumbering, Undisturbed, TypeOK
  <1>14. ASSUME NEW u \in Threads, Leave(u)
         PROVE  u # t /\ InCall(t, "Compute") /\ frame'[t] = frame[t]
    BY <1>14 DEF Leave, Idle, InCall, TypeOK
  <1>15. ASSUME NEW u \in Threads, NEW error \in BOOLEAN, ComputeArgumentsCreateEnd(u, error)
         PROVE  Goal
    <2>1. u # t /\ InCall(t, "Compute") /\ frame'[t] = frame[t]
      BY <1>14, <1>15 DEF ComputeArgumentsCreateEnd
    <2> QED BY <1>0, <1>15, <2>1 DEF ComputeArgumentsCreateEnd, Undisturbed, TypeOK
  <1>16. ASSUME NEW u \in Threads, ComputeEnd(u)
         PROVE  Goal
    <2>1. u # t /\ InCall(t, "Compute") /\ frame'[t] = frame[t]
      BY <1>14, <1>16 DEF ComputeEnd
    <2> QED BY <1>0, <1>16, <2>1 DEF ComputeEnd, Undisturbed, TypeOK
  <1>17. ASSUME NEW u \in Threads, NEW error \in BOOLEAN, ClearThenRefreshEnd(u, error)
         PROVE  Goal
    <2>1. u # t /\ InCall(t, "Compute") /\ frame'[t] = frame[t]
          /\ frame[u].call = "ClearThenRefresh"
      BY <1>14, <1>17 DEF ClearThenRefreshEnd, InCall
    <2> QED BY <1>0, <1>17, <2>1 DEF ClearThenRefreshEnd, Undisturbed, TypeOK
  <1>18. ASSUME NEW u \in Threads, ExtensionEnd(u)
         PROVE  Goal
    <2>1. u # t /\ InCall(t, "Compute") /\ frame'[t] = frame[t]
      BY <1>14, <1>18 DEF ExtensionEnd
    <2> QED BY <1>18, <2>1 DEF ExtensionEnd, Undisturbed
  <1>19. CASE UNCHANGED vars
    BY <1>19 DEF vars, Undisturbed, InCall
  <1>20. ASSUME NEW u \in Threads, SimulatorCalls(u)
         PROVE  Goal
    BY <1>20, <1>1, <1>2, <1>3, <1>4, <1>5, <1>6, <1>7, <1>8
    DEF SimulatorCalls, SimulatorSetsArgumentPointer, SimulatorSetsCallbackPointer
  <1>21. ASSUME NEW u \in Threads, ModelCalls(u)
         PROVE  Goal
    BY <1>21, <1>9, <1>10, <1>11, <1>12, <1>13
    DEF ModelCalls, ModelSetsArgumentSupportStatus, ModelSetsCallbackSupportStatus,
        ModelSetsInfluenceDistance, ModelSetsNeighborLists
  <1>22. ASSUME NEW u \in Threads, RoutineReturns(u)
         PROVE  Goal
    BY <1>22, <1>15, <1>16, <1>17, <1>18 DEF RoutineReturns
  <1> QED BY <1>19, <1>20, <1>21, <1>22 DEF Next

\* What a thread computes with exists.
LEMMA ComputationTypes ==
  ASSUME TypeOK, CallsAreSound, NEW t \in Threads, InCall(t, "Compute")
  PROVE  /\ frame[t].model \in Models /\ models[frame[t].model] \in ModelRecord
         /\ frame[t].ca \in ArgumentsObjects /\ args[frame[t].ca] \in Arguments
  BY OwnObjects DEF InCall

\* The state of a thread that has just begun to compute.
LEMMA BegunComputation ==
  ASSUME TypeOK, NEW t \in Threads, NEW m \in Models, NEW c \in ArgumentsObjects,
         ComputeBegin(t, m, c)
  PROVE  /\ models[m] \in ModelRecord /\ args[c] \in Arguments
         /\ frame'[t].model = m /\ frame'[t].ca = c
         /\ models'[m] = models[m]
         /\ args'[c] = Prepared(args[c], models[m])
         /\ held'[t] = NothingHeld
         /\ owner' = owner
  BY LiveTypes DEF ComputeBegin, Enter, TypeOK

\* The state of a thread that has just obtained a list.
LEMMA ObtainedList ==
  ASSUME TypeOK, CallsAreSound, NEW t \in Threads, InCall(t, "Compute"),
         NEW k \in ListIndex, NEW p \in Int, GetNeighborList(t, k, p)
  PROVE  /\ frame'[t] = frame[t] /\ models' = models /\ owner' = owner
         /\ args[frame[t].ca] \in Arguments
         /\ args'[frame[t].ca] = StoreList(args[frame[t].ca], k, p)
         /\ held'[t] = [held[t] EXCEPT ![k] = ZeroBased(args[frame[t].ca], p)]
         /\ ZeroBased(args[frame[t].ca], p) \in ZeroBasedParticle
  <1>1. frame[t].ca \in ArgumentsObjects /\ args[frame[t].ca] \in Arguments
    BY ComputationTypes
  <1>2. ValidParticle(args[frame[t].ca], p)
    BY DEF GetNeighborList, Asking
  <1>3. ZeroBased(args[frame[t].ca], p) \in ZeroBasedParticle
    BY <1>1, <1>2, StoreListType
  <1> QED BY <1>1, <1>3 DEF GetNeighborList, Asking, TypeOK

(***************************************************************************)
(* A computation reads its Model's lists.                                  *)
(***************************************************************************)
SameLists ==
  \A t \in Threads : InCall(t, "Compute") =>
    /\ args[frame[t].ca].numberOfNeighborLists = models[frame[t].model].numberOfNeighborLists
    /\ args[frame[t].ca].cutoffs = models[frame[t].model].cutoffs

\* Every step keeps the lists of each computation those of its Model.
LEMMA ListsStaySame ==
  ASSUME TypeOK, CallsAreSound, SameLists, [Next]_vars
  PROVE  SameLists'
  <1> SUFFICES ASSUME NEW t \in Threads, InCall(t, "Compute")'
               PROVE  /\ args'[frame'[t].ca].numberOfNeighborLists
                           = models'[frame'[t].model].numberOfNeighborLists
                      /\ args'[frame'[t].ca].cutoffs = models'[frame'[t].model].cutoffs
    BY DEF SameLists
  <1>1. ASSUME NEW m \in Models, NEW c \in ArgumentsObjects, ComputeBegin(t, m, c)
        PROVE  /\ args'[c].numberOfNeighborLists = models'[m].numberOfNeighborLists
               /\ args'[c].cutoffs = models'[m].cutoffs
               /\ frame'[t].model = m /\ frame'[t].ca = c
    <2>1. /\ models[m] \in ModelRecord /\ args[c] \in Arguments
          /\ frame'[t].model = m /\ frame'[t].ca = c
          /\ models'[m] = models[m]
          /\ args'[c] = Prepared(args[c], models[m])
      BY <1>1, BegunComputation
    <2> QED BY <2>1 DEF Prepared, Arguments
  <1>2. ASSUME NEW k \in ListIndex, NEW p \in Int, InCall(t, "Compute"), GetNeighborList(t, k, p)
        PROVE  /\ args'[frame[t].ca].numberOfNeighborLists
                    = args[frame[t].ca].numberOfNeighborLists
               /\ args'[frame[t].ca].cutoffs = args[frame[t].ca].cutoffs
               /\ frame'[t] = frame[t] /\ models' = models
    <2>1. /\ args[frame[t].ca] \in Arguments
          /\ args'[frame[t].ca] = StoreList(args[frame[t].ca], k, p)
          /\ frame'[t] = frame[t] /\ models' = models
      BY <1>2, ObtainedList DEF StoreList
    <2> QED BY <2>1 DEF StoreList, Arguments
  <1>3. CASE Undisturbed(t)
    BY <1>3 DEF SameLists, Undisturbed
  <1> QED BY <1>1, <1>2, <1>3, ComputationUndisturbed DEF SameLists

\* Through the whole of a computation, the model reads the lists of the Model
\* it runs for, complete if the simulator was told that they are.
THEOREM ModelListsCorrect == Spec => []ComputeSeesModelLists
  <1>1. Init => SameLists
    BY DEF Init, SameLists, InCall, Idle
  <1>2. Spec => [](TypeOK /\ CallsAreSound /\ SameLists)
    BY <1>1, InitSound, NextSound, ListsStaySame, PTL DEF Spec
  <1>3. TypeOK /\ CallsAreSound /\ SameLists /\ ModelsFresh => ComputeSeesModelLists
    BY ComputationTypes
    DEF SameLists, ModelsFresh, FreshModel, ListsComplete, CutoffsWithinInfluence,
        ComputeSeesModelLists, LiveModel, CallsAreSound, InCall, ModelRecord
  <1> QED BY <1>2, <1>3, ModelsFreshCorrect, PTL

(***************************************************************************)
(* What is required is present.                                            *)
(***************************************************************************)
RequiredSet(ca) ==
  /\ \A n \in ArgumentNames : Needed(ca.argumentStatus[n]) => ca.argumentPointer[n] = "set"
  /\ \A n \in CallbackNames : Needed(ca.callbackStatus[n]) => ca.callbackPointer[n] = "set"

RequiredSetInCompute ==
  \A t \in Threads : InCall(t, "Compute") => RequiredSet(args[frame[t].ca])

\* The check before a computation compares with NULL only; it suffices because
\* a supported name has an entry.
LEMMA CheckSuffices ==
  ASSUME NEW ca \in Arguments, RegistrySound(ca),
         AreAllRequiredArgumentsAndCallbacksPresent(ca)
  PROVE  RequiredSet(ca)
  BY DEF RegistrySound, NamesSound, AreAllRequiredArgumentsAndCallbacksPresent,
         AllNeededPresent, Needed, RequiredSet, Arguments, Pointer

\* Every step keeps what is required set during a computation.
LEMMA RequiredStaysSet ==
  ASSUME TypeOK, CallsAreSound, RegistriesSound, RequiredSetInCompute, [Next]_vars
  PROVE  RequiredSetInCompute'
  <1> SUFFICES ASSUME NEW t \in Threads, InCall(t, "Compute")'
               PROVE  RequiredSet(args'[frame'[t].ca])
    BY DEF RequiredSetInCompute
  <1>1. ASSUME NEW m \in Models, NEW c \in ArgumentsObjects, ComputeBegin(t, m, c)
        PROVE  RequiredSet(args'[frame'[t].ca])
    <2>1. RequiredSet(args[c])
      BY <1>1, BegunComputation, CheckSuffices DEF ComputeBegin, RegistriesSound
    <2>2. /\ args[c] \in Arguments /\ frame'[t].ca = c
          /\ args'[c] = Prepared(args[c], models[m])
      BY <1>1, BegunComputation
    <2> QED BY <2>1, <2>2 DEF Prepared, RequiredSet, Arguments
  <1>2. ASSUME NEW k \in ListIndex, NEW p \in Int, InCall(t, "Compute"), GetNeighborList(t, k, p)
        PROVE  RequiredSet(args'[frame'[t].ca])
    <2>1. /\ args[frame[t].ca] \in Arguments
          /\ args'[frame[t].ca] = StoreList(args[frame[t].ca], k, p)
          /\ frame'[t] = frame[t]
      BY <1>2, ObtainedList DEF StoreList
    <2>2. RequiredSet(args[frame[t].ca])
      BY <1>2 DEF RequiredSetInCompute
    <2> QED BY <2>1, <2>2 DEF RequiredSet, StoreList, Arguments
  <1>3. CASE Undisturbed(t)
    BY <1>3 DEF RequiredSetInCompute, Undisturbed
  <1> QED BY <1>1, <1>2, <1>3, ComputationUndisturbed

\* While a model computes, everything required, by it or by the API, is set.
THEOREM RequiredPresent == Spec => []RequiredPresentInCompute
  <1>1. Init => RequiredSetInCompute
    BY DEF Init, RequiredSetInCompute, InCall, Idle
  <1>2. Spec => [](TypeOK /\ CallsAreSound /\ RegistriesSound /\ RequiredSetInCompute)
    BY <1>1, RegistriesCorrect, RequiredStaysSet, PTL DEF Spec
  <1>3. TypeOK /\ CallsAreSound /\ RegistriesSound /\ RequiredSetInCompute
          => RequiredPresentInCompute
    <2> SUFFICES ASSUME TypeOK, CallsAreSound, RegistriesSound, RequiredSetInCompute,
                        NEW t \in Threads, InCall(t, "Compute")
                 PROVE  LET ca == args[frame[t].ca]
                            Required == {"required", "requiredByAPI"}
                        IN  /\ \A n \in ArgumentNames : ca.argumentStatus[n] \in Required =>
                                 ca.argumentPointer[n] = "set"
                            /\ \A n \in CallbackNames : ca.callbackStatus[n] \in Required =>
                                 ca.callbackPointer[n] = "set"
                            /\ \A n \in APIArguments : ca.argumentPointer[n] = "set"
                            /\ \A n \in APICallbacks : ca.callbackPointer[n] = "set"
      BY DEF RequiredPresentInCompute
    <2>1. args[frame[t].ca] \in Arguments /\ frame[t].ca \in ArgumentsObjects
      BY ComputationTypes
    <2>2. RequiredSet(args[frame[t].ca]) /\ RegistrySound(args[frame[t].ca])
      BY <2>1, NoObjectAssumption DEF RequiredSetInCompute, RegistriesSound, LiveArguments
    <2> QED
      BY <2>1, <2>2, NamesAssumption
      DEF RequiredSet, RegistrySound, NamesSound, Needed, Arguments
  <1> QED BY <1>2, <1>3, PTL

(***************************************************************************)
(* Converted lists.                                                        *)
(***************************************************************************)
\* No step overwrites a list that a model holds.
LEMMA HeldListsStayIntact ==
  ASSUME TypeOK, CallsAreSound, HeldListsAreIntact, [Next]_vars
  PROVE  HeldListsAreIntact'
  <1> SUFFICES ASSUME NEW t \in Threads, InCall(t, "Compute")',
                      Converts(args'[frame'[t].ca]),
                      NEW k \in ListIndex, held'[t][k] # NoParticle
               PROVE  args'[frame'[t].ca].storage[k] = held'[t][k]
    BY DEF HeldListsAreIntact
  <1>1. ASSUME NEW m \in Models, NEW c \in ArgumentsObjects, ComputeBegin(t, m, c)
        PROVE  FALSE
    BY <1>1, BegunComputation DEF NothingHeld
  <1>2. ASSUME NEW j \in ListIndex, NEW p \in Int, InCall(t, "Compute"), GetNeighborList(t, j, p)
        PROVE  args'[frame'[t].ca].storage[k] = held'[t][k]
    <2> DEFINE ca == args[frame[t].ca]
    <2>1. /\ ca \in Arguments /\ frame'[t] = frame[t]
          /\ args'[frame[t].ca] = StoreList(ca, j, p)
          /\ held'[t] = [held[t] EXCEPT ![j] = ZeroBased(ca, p)]
      BY <1>2, ObtainedList DEF StoreList
    <2>2. Converts(ca)
      BY <2>1 DEF Converts, StoreList, Arguments
    <2>3. args'[frame[t].ca].storage = [ca.storage EXCEPT ![j] = ZeroBased(ca, p)]
      BY <2>1, <2>2 DEF StoreList, Arguments
    <2>4. ca.storage \in [ListIndex -> StoredParticle \cup {NoCell}]
          /\ held[t] \in [ListIndex -> StoredParticle]
      BY <2>1 DEF Arguments, TypeOK
    <2>5. CASE k = j
      BY <2>1, <2>3, <2>4, <2>5
    <2>6. CASE k # j
      BY <1>2, <2>1, <2>2, <2>3, <2>4, <2>6 DEF HeldListsAreIntact
    <2> QED BY <2>5, <2>6
  <1>3. CASE Undisturbed(t)
    BY <1>3 DEF HeldListsAreIntact, Undisturbed
  <1> QED BY <1>1, <1>2, <1>3, ComputationUndisturbed

\* A list that a model holds is not overwritten by another of its lists, of
\* another computation or by another thread.
THEOREM HeldListsCorrect == Spec => []HeldListsAreIntact
  <1>1. Init => HeldListsAreIntact
    BY DEF Init, HeldListsAreIntact, InCall, Idle
  <1> QED BY <1>1, InitSound, NextSound, HeldListsStayIntact, PTL DEF Spec

\* Resizing leaves a cell for every list.
LEMMA CellsAfterResize ==
  ASSUME NEW storage, NEW n, NEW k \in ListIndex, k < n, n \in Int
  PROVE  Resized(storage, n)[k] # NoCell
  BY SentinelAssumption DEF Resized, ListIndex

\* Every step keeps a cell for each list of an own computation.
LEMMA OwnListsKeepStorage ==
  ASSUME TypeOK, CallsAreSound, OffsetsMatch, OwnListsHaveStorage, [Next]_vars
  PROVE  OwnListsHaveStorage'
  <1> SUFFICES ASSUME "ModelCreate" \notin ExtensionViews,
                      NEW t \in Threads, InCall(t, "Compute")',
                      owner'[frame'[t].ca] = frame'[t].model,
                      NEW k \in ListIndex, ValidListIndex(args'[frame'[t].ca], k)
               PROVE  HasStorageFor(args'[frame'[t].ca], k)
    BY DEF OwnListsHaveStorage
  <1>1. ASSUME NEW m \in Models, NEW c \in ArgumentsObjects, ComputeBegin(t, m, c)
        PROVE  HasStorageFor(args'[frame'[t].ca], k)
    <2> DEFINE ca == args[c]
               r == models[m]
    <2>1. /\ r \in ModelRecord /\ ca \in Arguments
          /\ frame'[t].ca = c /\ args'[c] = Prepared(ca, r) /\ owner[c] = m
      BY <1>1, BegunComputation
    <2>2. ca.modelNumbering = r.modelNumbering /\ ca.simulatorNumbering = r.simulatorNumbering
      BY <1>1, <2>1 DEF ComputeBegin, OffsetsMatch
    <2>3. Converts(args'[c]) => args'[c].storage = Resized(ca.storage, r.numberOfNeighborLists)
      BY <2>1, <2>2 DEF Prepared, Converts, Arguments
    <2>4. k < r.numberOfNeighborLists /\ r.numberOfNeighborLists \in Int
      BY <2>1 DEF ValidListIndex, Prepared, Arguments, ModelRecord
    <2> QED BY <2>1, <2>3, <2>4, CellsAfterResize DEF HasStorageFor
  <1>2. ASSUME NEW j \in ListIndex, NEW p \in Int, InCall(t, "Compute"), GetNeighborList(t, j, p)
        PROVE  HasStorageFor(args'[frame'[t].ca], k)
    <2> DEFINE ca == args[frame[t].ca]
    <2>1. /\ ca \in Arguments /\ frame'[t] = frame[t] /\ owner' = owner
          /\ args'[frame[t].ca] = StoreList(ca, j, p)
          /\ ZeroBased(ca, p) \in ZeroBasedParticle
      BY <1>2, ObtainedList DEF StoreList
    <2>2. ValidListIndex(ca, k)
      BY <2>1 DEF ValidListIndex, StoreList, Arguments
    <2>3. HasStorageFor(ca, k)
      BY <1>2, <2>1, <2>2 DEF OwnListsHaveStorage
    <2>4. ZeroBased(ca, p) # NoCell
      BY <2>1, SentinelAssumption DEF ZeroBasedParticle
    <2> QED BY <2>1, <2>3, <2>4 DEF HasStorageFor, StoreList, Converts, Arguments
  <1>3. CASE Undisturbed(t)
    BY <1>3 DEF OwnListsHaveStorage, Undisturbed
  <1> QED BY <1>1, <1>2, <1>3, ComputationUndisturbed

\* On the Model that created it, an object has a cell for every list that has
\* to be converted.
THEOREM OwnStorageCorrect == Spec => []OwnListsHaveStorage
  <1>1. Init => OwnListsHaveStorage
    BY DEF Init, OwnListsHaveStorage, InCall, Idle
  <1> QED BY <1>1, OffsetsCorrect, OwnListsKeepStorage, PTL DEF Spec

(***************************************************************************)
(* Lists are exposed exactly during a computation.                         *)
(***************************************************************************)
\* ComputeArguments c exposes lists exactly while a thread computes with it.
Exposed(c) ==
  IF Computing(c)
  THEN args[c].inModelComputeRoutine
  ELSE /\ ~args[c].inModelComputeRoutine
       /\ args[c].numberOfNeighborLists = 0
       /\ args[c].cutoffs = NULL

SameExposure(ca, cb) ==
  /\ cb.inModelComputeRoutine = ca.inModelComputeRoutine
  /\ cb.numberOfNeighborLists = ca.numberOfNeighborLists
  /\ cb.cutoffs = ca.cutoffs

\* Nothing but Compute changes what an object exposes.
LEMMA ExposureUnchanged ==
  ASSUME NEW ca \in Arguments
  PROVE  /\ \A n \in ArgumentNames, s \in SupportStatus :
              SameExposure(ca, SetArgumentSupportStatus(ca, n, s))
         /\ \A n \in CallbackNames, s \in SupportStatus :
              SameExposure(ca, SetCallbackSupportStatus(ca, n, s))
         /\ \A n \in ArgumentNames, p \in {"null", "set"} :
              SameExposure(ca, SetArgumentPointer(ca, n, p))
         /\ \A n \in CallbackNames, p \in {"null", "set"} :
              SameExposure(ca, SetCallbackPointer(ca, n, p))
         /\ \A k, p : SameExposure(ca, StoreList(ca, k, p))
  BY DEF SameExposure, SetArgumentSupportStatus, SetCallbackSupportStatus,
         SetArgumentPointer, SetCallbackPointer, StoreList, Arguments

\* An object that is not computed with offers its view no list.
LEMMA NoListsOutsideCompute ==
  ASSUME TypeOK, NEW c \in ArgumentsObjects, Exposed(c), ~Computing(c), NEW k \in ListIndex
  PROVE  ~ValidListIndex(args[c], k)
  BY BoundsAssumption DEF Exposed, ValidListIndex, ListIndex

\* No step exposes lists outside a computation, or hides them in one.
LEMMA ExposureStep ==
  ASSUME TypeOK, CallsAreSound, [Next]_vars, NEW c \in ArgumentsObjects,
         LiveArguments(c) => Exposed(c), args'[c] # NoArguments
  PROVE  Exposed(c)'
  <1>1. ASSUME LiveArguments(c), Computing(c)' <=> Computing(c), SameExposure(args[c], args'[c])
        PROVE  Exposed(c)'
    BY <1>1 DEF Exposed, SameExposure
  <1>2. ASSUME frame' = frame PROVE Computing(c)' <=> Computing(c)
    BY <1>2 DEF Computing
  <1>3. ASSUME frame' = frame, args' = args PROVE Exposed(c)'
    BY <1>1, <1>2, <1>3 DEF LiveArguments, SameExposure
  <1>4. ASSUME frame' = frame, NEW b \in ArgumentsObjects, LiveArguments(b), NEW cb,
               args' = [args EXCEPT ![b] = cb], SameExposure(args[b], cb)
        PROVE  Exposed(c)'
    <2>1. CASE b = c
      BY <1>1, <1>2, <1>4, <2>1 DEF TypeOK
    <2>2. CASE b # c
      BY <1>1, <1>2, <1>4, <2>2 DEF TypeOK, LiveArguments, SameExposure
    <2> QED BY <2>1, <2>2
  <1>5. \A b \in ArgumentsObjects : LiveArguments(b) => args[b] \in Arguments
    BY LiveTypes
  <1>6. ASSUME NEW t \in Threads, MayCall(t), NEW call, NEW m, NEW b,
               Enter(t, call, m, b), call # "Compute", call # "undefined"
        PROVE  Computing(c)' <=> Computing(c)
    <2>1. \A u \in Threads :
            frame'[u] = IF u = t THEN [call |-> call, model |-> m, ca |-> b] ELSE frame[u]
      BY <1>6 DEF Enter, TypeOK
    <2> QED BY <1>6, <2>1 DEF Computing, MayCall, Idle
  <1>7. ASSUME NEW t \in Threads, Leave(t), ~InCall(t, "Compute"), ~InCall(t, "undefined")
        PROVE  Computing(c)' <=> Computing(c)
    <2>1. \A u \in Threads : frame'[u] = IF u = t THEN Idle ELSE frame[u]
      BY <1>7 DEF Leave, TypeOK
    <2> QED BY <1>7, <2>1 DEF Computing, InCall, Idle
  <1>8. ASSUME NEW t \in Threads, NEW m \in Models, NEW b \in ArgumentsObjects,
               ComputeArgumentsCreateBegin(t, m, b)
        PROVE  Exposed(c)'
    <2>1. Computing(c)' <=> Computing(c)
      BY <1>6, <1>8 DEF ComputeArgumentsCreateBegin
    <2>2. CASE b = c
      <3>1. ~Computing(c)
        BY <1>8, <2>2 DEF ComputeArgumentsCreateBegin, ArgumentsFree, Computing
      <3>2. args'[c] = NewArguments(models[m].name, models[m].modelNumbering,
                         models[m].simulatorNumbering, models[m].numberingOffset)
        BY <1>8, <2>2 DEF ComputeArgumentsCreateBegin, TypeOK
      <3> QED BY <2>1, <3>1, <3>2 DEF Exposed, NewArguments
    <2>3. CASE b # c
      BY <1>1, <1>8, <2>1, <2>3
      DEF ComputeArgumentsCreateBegin, SameExposure, LiveArguments, TypeOK
    <2> QED BY <2>2, <2>3
  <1>9. ASSUME NEW t \in Threads, NEW error \in BOOLEAN, ComputeArgumentsCreateEnd(t, error)
        PROVE  Exposed(c)'
    <2>1. Computing(c)' <=> Computing(c)
      BY <1>7, <1>9 DEF ComputeArgumentsCreateEnd, InCall
    <2>2. args'[c] = args[c]
      BY <1>9 DEF ComputeArgumentsCreateEnd, TypeOK
    <2> QED BY <1>1, <2>1, <2>2 DEF SameExposure, LiveArguments
  <1>10. ASSUME NEW t \in Threads, NEW m \in Models, NEW b \in ArgumentsObjects,
                ComputeArgumentsDestroy(t, m, b)
         PROVE  Exposed(c)'
    <2>1. args'[c] = args[c] /\ frame' = frame
      BY <1>10 DEF ComputeArgumentsDestroy, TypeOK
    <2> QED BY <1>1, <1>2, <2>1 DEF SameExposure, LiveArguments
  <1>11. ASSUME NEW t \in Threads, NEW m \in Models, NEW b \in ArgumentsObjects,
                ComputeBegin(t, m, b)
         PROVE  Exposed(c)'
    <2>1. \A u \in Threads : frame'[u] = IF u = t
                                        THEN [call |-> "Compute", model |-> m, ca |-> b]
                                        ELSE frame[u]
      BY <1>11 DEF ComputeBegin, Enter, TypeOK
    <2>2. CASE b = c
      <3>1. Computing(c)'
        BY <2>1, <2>2 DEF Computing
      <3>2. args'[c] = Prepared(args[c], models[m]) /\ args[c] \in Arguments
        BY <1>11, <2>2, BegunComputation
      <3>3. args'[c].inModelComputeRoutine
        BY <3>2 DEF Prepared, Arguments
      <3> QED BY <3>1, <3>3 DEF Exposed
    <2>3. CASE b # c
      <3>1. Computing(c)' <=> Computing(c)
        BY <1>11, <2>1, <2>3 DEF Computing, ComputeBegin, MayCall, Idle
      <3> QED
        BY <1>1, <1>11, <2>3, <3>1 DEF ComputeBegin, SameExposure, LiveArguments, TypeOK
    <2> QED BY <2>2, <2>3
  <1>12. ASSUME NEW t \in Threads, ComputeEnd(t)
         PROVE  Exposed(c)'
    <2>1. \A u \in Threads : frame'[u] = IF u = t THEN Idle ELSE frame[u]
      BY <1>12 DEF ComputeEnd, Leave, TypeOK
    <2>2. InCall(t, "Compute")
      BY <1>12 DEF ComputeEnd
    <2>3. CASE frame[t].ca = c
      <3>1. \A u \in Threads : u # t => frame[u].ca # c
        BY <2>2, <2>3, ComputationTypes, ModelConstantsAssumption DEF CallsAreSound
      <3>2. ~Computing(c)'
        BY <2>1, <3>1, ModelConstantsAssumption DEF Computing, Idle
      <3>3. args'[c] = Reset(args[c]) /\ args[c] \in Arguments
        BY <1>12, <2>2, <2>3, ComputationTypes DEF ComputeEnd, TypeOK
      <3> QED BY <3>2, <3>3 DEF Exposed, Reset, Arguments
    <2>4. CASE frame[t].ca # c
      <3>1. Computing(c)' <=> Computing(c)
        BY <2>1, <2>4, ModelConstantsAssumption DEF Computing, Idle
      <3>2. args'[c] = args[c]
        BY <1>12, <2>4 DEF ComputeEnd, TypeOK
      <3> QED BY <1>1, <3>1, <3>2 DEF SameExposure, LiveArguments
    <2> QED BY <2>3, <2>4
  <1>13. ASSUME NEW t \in Threads, SettingStatus(t)
         PROVE  frame[t].ca \in ArgumentsObjects /\ LiveArguments(frame[t].ca) /\ frame' = frame
    BY <1>13 DEF SettingStatus, CallsAreSound, InCall
  <1>14. ASSUME NEW t \in Threads, NEW k \in ListIndex,
                NEW p \in -1 .. NumberOfParticles + 1, GetNeighborList(t, k, p)
         PROVE  Exposed(c)'
    <2>1. /\ frame[t].ca \in ArgumentsObjects /\ LiveArguments(frame[t].ca)
          /\ frame' = frame
      BY <1>14 DEF GetNeighborList, Asking, CallsAreSound, InCall
    <2> QED BY <1>4, <1>5, <1>14, <2>1, ExposureUnchanged DEF GetNeighborList
  <1>15. ASSUME NEW t \in Threads, NEW k \in ListIndex,
                NEW p \in -1 .. NumberOfParticles + 1, GetNeighborListPastTheEnd(t, k, p)
         PROVE  Exposed(c)'
    <2>1. /\ frame[t].ca \in ArgumentsObjects /\ LiveArguments(frame[t].ca)
          /\ ValidListIndex(args[frame[t].ca], k) /\ args' = args
          /\ InCall(t, "Compute") \/ InCall(t, "Extension")
      BY <1>15 DEF GetNeighborListPastTheEnd, Asking, CallsAreSound, InCall, InExtension
    <2>2. \A u \in Threads :
            /\ frame'[u].ca = frame[u].ca
            /\ frame'[u].call = IF u = t THEN "undefined" ELSE frame[u].call
      BY <1>15 DEF GetNeighborListPastTheEnd, TypeOK, Frame
    <2>3. Computing(c)' <=> Computing(c)
      <3>1. CASE frame[t].ca # c
        BY <2>2, <3>1 DEF Computing
      <3>2. CASE frame[t].ca = c /\ InCall(t, "Compute")
        BY <2>2, <3>2 DEF Computing, InCall
      <3>3. CASE frame[t].ca = c /\ InCall(t, "Extension")
        BY <2>1, <2>2, <3>3, NoListsOutsideCompute DEF Computing
      <3> QED BY <2>1, <3>1, <3>2, <3>3
    <2> QED BY <1>1, <2>1, <2>3 DEF SameExposure, LiveArguments
  <1>16. ASSUME NEW t \in Threads, SimulatorCalls(t)
         PROVE  Exposed(c)'
    <2>1. ASSUME NEW b \in ArgumentsObjects, NEW n \in ArgumentNames,
                 NEW p \in {"null", "set"}, SimulatorSetsArgumentPointer(t, b, n, p)
          PROVE  Exposed(c)'
      BY <2>1, <1>4, <1>5, ExposureUnchanged
      DEF SimulatorSetsArgumentPointer, SettingPointer
    <2>2. ASSUME NEW b \in ArgumentsObjects, NEW n \in CallbackNames,
                 NEW p \in {"null", "set"}, SimulatorSetsCallbackPointer(t, b, n, p)
          PROVE  Exposed(c)'
      BY <2>2, <1>4, <1>5, ExposureUnchanged
      DEF SimulatorSetsCallbackPointer, SettingPointer
    <2>3. ASSUME NEW m \in Models, Create(t, m) \/ Destroy(t, m)
          PROVE  Exposed(c)'
      BY <2>3, <1>3 DEF Create, Destroy
    <2>4. ASSUME NEW m \in Models, ClearThenRefreshBegin(t, m)
          PROVE  Exposed(c)'
      <3>1. (Computing(c)' <=> Computing(c)) /\ args' = args
        BY <2>4, <1>6 DEF ClearThenRefreshBegin
      <3> QED BY <1>1, <3>1 DEF SameExposure, LiveArguments
    <2>5. ASSUME NEW m \in Models, NEW b \in ArgumentsObjects \cup {NULL}, ExtensionBegin(t, m, b)
          PROVE  Exposed(c)'
      <3>1. (Computing(c)' <=> Computing(c)) /\ args' = args
        BY <2>5, <1>6 DEF ExtensionBegin
      <3> QED BY <1>1, <3>1 DEF SameExposure, LiveArguments
    <2> QED
      BY <1>16, <1>8, <1>10, <1>11, <2>1, <2>2, <2>3, <2>4, <2>5 DEF SimulatorCalls
  <1>17. ASSUME NEW t \in Threads, ModelCalls(t)
         PROVE  Exposed(c)'
    <2>1. ASSUME NEW n \in ArgumentNames, NEW s \in SupportStatus,
                 ModelSetsArgumentSupportStatus(t, n, s)
          PROVE  Exposed(c)'
      BY <2>1, <1>4, <1>5, <1>13, ExposureUnchanged DEF ModelSetsArgumentSupportStatus
    <2>2. ASSUME NEW n \in CallbackNames, NEW s \in SupportStatus,
                 ModelSetsCallbackSupportStatus(t, n, s)
          PROVE  Exposed(c)'
      BY <2>2, <1>4, <1>5, <1>13, ExposureUnchanged DEF ModelSetsCallbackSupportStatus
    <2> QED
      BY <1>17, <1>3, <1>14, <1>15, <2>1, <2>2
      DEF ModelCalls, ModelSetsInfluenceDistance, ModelSetsNeighborLists, Publishing,
          ModelSetsNumbering
  <1>18. ASSUME NEW t \in Threads, RoutineReturns(t)
         PROVE  Exposed(c)'
    <2>1. ASSUME NEW error \in BOOLEAN, ClearThenRefreshEnd(t, error)
          PROVE  Exposed(c)'
      <3>1. (Computing(c)' <=> Computing(c)) /\ args' = args
        BY <2>1, <1>7 DEF ClearThenRefreshEnd, InCall
      <3> QED BY <1>1, <3>1 DEF SameExposure, LiveArguments
    <2>2. ASSUME ExtensionEnd(t)
          PROVE  Exposed(c)'
      <3>1. (Computing(c)' <=> Computing(c)) /\ args' = args
        BY <2>2, <1>7 DEF ExtensionEnd, InCall
      <3> QED BY <1>1, <3>1 DEF SameExposure, LiveArguments
    <2> QED BY <1>18, <1>9, <1>12, <2>1, <2>2 DEF RoutineReturns
  <1> QED BY <1>3, <1>16, <1>17, <1>18 DEF Next, vars

\* Lists and cutoffs are visible through a ComputeArguments exactly while a
\* thread computes with it, whatever routines return and however they fail.
THEOREM ExposureCorrect == Spec => []ListsExposedOnlyInCompute
  <1>1. Init => ListsExposedOnlyInCompute
    BY DEF Init, ListsExposedOnlyInCompute, LiveArguments
  <1>2. TypeOK /\ CallsAreSound /\ ListsExposedOnlyInCompute /\ [Next]_vars
          => ListsExposedOnlyInCompute'
    <2> SUFFICES ASSUME TypeOK, CallsAreSound, ListsExposedOnlyInCompute, [Next]_vars,
                        NEW c \in ArgumentsObjects, args'[c] # NoArguments
                 PROVE  Exposed(c)'
      BY DEF ListsExposedOnlyInCompute, Exposed, LiveArguments
    <2>1. LiveArguments(c) => Exposed(c)
      BY DEF ListsExposedOnlyInCompute, Exposed
    <2> QED BY <2>1, ExposureStep
  <1> QED BY <1>1, <1>2, InitSound, NextSound, PTL DEF Spec

\* The registry of arguments and callbacks, for all statuses and pointers in any order.
THEOREM ArgumentsComplete == Spec => []ArgumentsAreComplete
  <1>1. TypeOK /\ SupportedNamesHaveEntries /\ RequiredPresentInCompute => ArgumentsAreComplete
    BY DEF ArgumentsAreComplete
  <1> QED BY <1>1, TypeCorrect, EntriesCorrect, RequiredPresent, PTL

\* Whom the lists are visible to, and whose they are, for all threads and Models.
THEOREM ListsOfTheComputation == Spec => []ListsAreOfTheComputation
  <1>1. ListsExposedOnlyInCompute /\ ComputeSeesModelLists => ListsAreOfTheComputation
    BY DEF ListsAreOfTheComputation
  <1> QED BY <1>1, ExposureCorrect, ModelListsCorrect, PTL

\* Where converted lists are, for all threads and any number of lists.
THEOREM ConvertedListsKept == Spec => []ConvertedListsAreKept
  <1>1. HeldListsAreIntact /\ OwnListsHaveStorage => ConvertedListsAreKept
    BY DEF ConvertedListsAreKept
  <1> QED BY <1>1, HeldListsCorrect, OwnStorageCorrect, PTL
=============================================================================
