------------------------------ MODULE KIMModel ------------------------------
(***************************************************************************)
(* Models, their ComputeArguments objects, and the threads of a simulator  *)
(* that call them (KIM_ModelImplementation, KIM_ComputeArgumentsImple-     *)
(* mentation).                                                             *)
(*                                                                         *)
(* An API call that hands control to a routine of the model is two         *)
(* actions, Begin and End, with a frame on the calling thread in between;  *)
(* what the routine does through its view of the object happens between    *)
(* them, one action per API call, and other threads run.  A call that      *)
(* stays within the library is one action.  A call that returns an error   *)
(* before changing anything is a stuttering step and is left out.          *)
(*                                                                         *)
(* The simulator keeps to the documented discipline: the const operations  *)
(* of a Model may run at the same time on different ComputeArguments       *)
(* (docs/src/version2-differences.txt:77), everything else is exclusive,   *)
(* a ComputeArguments is used by one thread at a time, and a Model is      *)
(* destroyed after what it created (docs/src/implementation.txt:338).      *)
(***************************************************************************)
EXTENDS Integers, Sequences

CONSTANTS
  Models,           \* handles for Model objects
  ArgumentsObjects, \* handles for ComputeArguments objects
  Threads,          \* threads of the simulator
  Distances,        \* influence distances a model may publish
  NumberingPairs,   \* numberings of models and simulators that meet
  RoutineSets,      \* which optional routines models provide
  ExtensionViews,   \* the views that Extension routines make use of
  NoModel,
  NoArguments,
  ModelNames,             \* the names models are created under
  ArgumentNames,          \* the ComputeArgumentNames
  APIArguments,           \* requiredByAPI_ComputeArguments
  CallbackNames,          \* the ComputeCallbackNames
  APICallbacks,           \* requiredByAPI_ComputeCallbacks
  NumberOfParticles,      \* value behind the numberOfParticles pointer
  MaxNeighborLists,       \* bound: how many neighbour lists a model asks for
  CutoffArrays,           \* cutoff arrays a model may publish, sequences
  NULL,                   \* the null pointer
  NoParticle,             \* a storage cell that holds no list yet
  NoCell                  \* past the end of getNeighborListStorage_

ASSUME NamesAssumption ==
  /\ APIArguments \subseteq ArgumentNames
  /\ APICallbacks \subseteq CallbackNames

ASSUME BoundsAssumption ==
  /\ NumberOfParticles \in Nat
  /\ MaxNeighborLists \in Nat

ASSUME SentinelAssumption ==
  /\ NULL \notin CutoffArrays
  /\ NoParticle # NoCell
  /\ NoParticle \notin Int
  /\ NoCell \notin Int

(***************************************************************************)
(* The ComputeArguments object: the board on which a simulator and a model *)
(* exchange argument pointers and callback functions, and through which a  *)
(* model, while its Compute routine runs, reads the simulator's neighbour  *)
(* lists.  Every operation is an operator on the record that stands for    *)
(* one object: a guard, a new record or a value read; the actions below    *)
(* compose them with the Model objects and the threads that call them.     *)
(***************************************************************************)
SupportStatus == {"notSupported", "optional", "required", "requiredByAPI"}

\* "absent": the map has no entry for the name, and find()->second is undefined
Pointer == {"absent", "null", "set"}

Numbering == {"zeroBased", "oneBased"}
NumberingOffset == {-1, 0, 1}

ListIndex == 0 .. MaxNeighborLists - 1
ZeroBasedParticle == 0 .. NumberOfParticles - 1
StoredParticle == ZeroBasedParticle \cup {NoParticle}

Arguments ==
  [ name : ModelNames,                     \* modelName_
    modelNumbering : Numbering,
    simulatorNumbering : Numbering,
    numberingOffset : NumberingOffset,
    argumentStatus : [ArgumentNames -> SupportStatus],
    argumentPointer : [ArgumentNames -> Pointer],
    callbackStatus : [CallbackNames -> SupportStatus],
    callbackPointer : [CallbackNames -> Pointer],
    inModelComputeRoutine : BOOLEAN,
    numberOfNeighborLists : 0 .. MaxNeighborLists,
    cutoffs : CutoffArrays \cup {NULL},
    \* getNeighborListStorage_: the zero-based particle whose converted list
    \* each cell holds
    storage : [ListIndex -> StoredParticle \cup {NoCell}] ]

(***************************************************************************)
(* Construction: names required by the API start that way, with a NULL     *)
(* pointer entry; every other name starts not supported, without an entry. *)
(***************************************************************************)
InitialStatus(names, api) ==
  [n \in names |-> IF n \in api THEN "requiredByAPI" ELSE "notSupported"]

InitialPointer(names, api) ==
  [n \in names |-> IF n \in api THEN "null" ELSE "absent"]

NewArguments(name, modelNumbering, simulatorNumbering, numberingOffset) ==
  [ name |-> name,
    modelNumbering |-> modelNumbering,
    simulatorNumbering |-> simulatorNumbering,
    numberingOffset |-> numberingOffset,
    argumentStatus |-> InitialStatus(ArgumentNames, APIArguments),
    argumentPointer |-> InitialPointer(ArgumentNames, APIArguments),
    callbackStatus |-> InitialStatus(CallbackNames, APICallbacks),
    callbackPointer |-> InitialPointer(CallbackNames, APICallbacks),
    inModelComputeRoutine |-> FALSE,
    numberOfNeighborLists |-> 0,
    cutoffs |-> NULL,
    storage |-> [k \in ListIndex |-> NoCell] ]

(***************************************************************************)
(* The registry.  Arguments and callbacks follow the same rules; `status`  *)
(* and `pointer` below are either pair of maps.                            *)
(***************************************************************************)
\* A name required by the API keeps that status.
MayChangeStatus(status, n, s) ==
  status[n] = "requiredByAPI" => s = "requiredByAPI"

\* Fault: a status is set without initialising the pointer.
PointerAfterStatusUninitialised(pointer, n, s) == pointer

\* A supported name gets a NULL entry unless it already has an entry.
PointerAfterStatus(pointer, n, s) ==
  IF s # "notSupported" /\ pointer[n] = "absent"
  THEN [pointer EXCEPT ![n] = "null"]
  ELSE pointer

\* Setting NULL on a name that is not supported returns false but stores
\* nothing; setting a non-NULL pointer on one is an error.
StoresPointer(status, n) == status[n] # "notSupported"

\* Fault: what the model requires is not checked.
NeededByAPIOnly(s) == s = "requiredByAPI"

Needed(s) == s \in {"required", "requiredByAPI"}

AllNeededPresent(status, pointer) ==
  \A n \in DOMAIN status : Needed(status[n]) => pointer[n] # "null"

MayChangeArgumentStatus(ca, n, s) == MayChangeStatus(ca.argumentStatus, n, s)

SetArgumentSupportStatus(ca, n, s) ==
  [ca EXCEPT !.argumentStatus[n] = s,
             !.argumentPointer = PointerAfterStatus(@, n, s)]

MayChangeCallbackStatus(ca, n, s) == MayChangeStatus(ca.callbackStatus, n, s)

SetCallbackSupportStatus(ca, n, s) ==
  [ca EXCEPT !.callbackStatus[n] = s,
             !.callbackPointer = PointerAfterStatus(@, n, s)]

SetArgumentPointer(ca, n, p) ==
  IF StoresPointer(ca.argumentStatus, n)
  THEN [ca EXCEPT !.argumentPointer[n] = p]
  ELSE ca

SetCallbackPointer(ca, n, p) ==
  IF StoresPointer(ca.callbackStatus, n)
  THEN [ca EXCEPT !.callbackPointer[n] = p]
  ELSE ca

AreAllRequiredArgumentsAndCallbacksPresent(ca) ==
  /\ AllNeededPresent(ca.argumentStatus, ca.argumentPointer)
  /\ AllNeededPresent(ca.callbackStatus, ca.callbackPointer)

(***************************************************************************)
(* Neighbour lists.                                                        *)
(***************************************************************************)
Base(numbering) == IF numbering = "zeroBased" THEN 0 ELSE 1

Converts(ca) == ca.simulatorNumbering # ca.modelNumbering

\* How GetNeighborList, ProcessDEDrTerm and ProcessD2EDr2Term number a
\* particle for the simulator, and GetNeighborList a neighbour for the model.
ToSimulator(ca, p) == p + (IF Converts(ca) THEN -ca.numberingOffset ELSE 0)

ToModel(ca, p) == p + (IF Converts(ca) THEN ca.numberingOffset ELSE 0)

ZeroBased(ca, p) == p + (IF ca.modelNumbering = "zeroBased" THEN 0 ELSE -1)

ValidListIndex(ca, k) == 0 <= k /\ k < ca.numberOfNeighborLists

\* Fault: off by one at the upper end.
ValidParticleOrOneMore(ca, p) ==
  0 <= ZeroBased(ca, p) /\ ZeroBased(ca, p) <= NumberOfParticles

ValidParticle(ca, p) ==
  0 <= ZeroBased(ca, p) /\ ZeroBased(ca, p) < NumberOfParticles

\* Fault: one buffer for all neighbour lists.
StoreListInOneBuffer(ca, k, p) ==
  IF Converts(ca)
  THEN [ca EXCEPT !.storage[0] = ZeroBased(ca, p)]
  ELSE ca

\* The converted list replaces what the cell of its neighbour list held; the
\* simulator's own memory is handed out when no conversion is needed.
StoreList(ca, k, p) ==
  IF Converts(ca)
  THEN [ca EXCEPT !.storage[k] = ZeroBased(ca, p)]
  ELSE ca

\* std::vector::resize on the cells
Resized(storage, n) ==
  [k \in ListIndex |-> IF k >= n THEN NoCell
                       ELSE IF storage[k] = NoCell THEN NoParticle
                       ELSE storage[k]]

ASSUME ModelConstantsAssumption ==
  /\ Distances \subseteq Int
  /\ NULL \notin Distances \cup Models \cup ArgumentsObjects
  /\ NumberingPairs \subseteq [model : Numbering, simulator : Numbering]
  /\ CutoffArrays \subseteq Seq(Int)

ASSUME FlagsAssumption ==
  /\ RoutineSets \subseteq SUBSET {"Refresh", "Extension"}
  /\ ExtensionViews \subseteq {"ModelRefresh", "ModelCreate",
                              "ModelComputeArgumentsCreate", "ModelComputeArguments"}

(***************************************************************************)
(* The state                                                               *)
(***************************************************************************)
VARIABLES
  models,   \* the Model objects
  args,     \* the ComputeArguments objects
  frame,    \* the call each thread has outstanding
  owner,    \* ghost: the Model each ComputeArguments was created by
  held      \* ghost: per thread and list, the particle whose list the model
            \* obtained last, numbered from zero

vars == <<models, args, frame, owner, held>>

(***************************************************************************)
(* Model objects.                                                          *)
(***************************************************************************)
ModelRecord ==
  [ name : ModelNames,
    modelNumbering : Numbering,
    simulatorNumbering : Numbering,
    numberingOffset : NumberingOffset,
    routines : SUBSET {"Refresh", "Extension"},
    influenceDistance : Distances \cup {NULL},
    numberOfNeighborLists : 0 .. MaxNeighborLists,
    cutoffs : CutoffArrays \cup {NULL},
    hint : BOOLEAN,  \* modelWillNotRequest...Particles_ is not NULL
    \* ghost: the last Create or ClearThenRefresh returned no error, and no
    \* Extension has changed the lists since
    accepted : BOOLEAN,
    \* ghost: what has been published since the object was last cleared
    published : SUBSET {"influenceDistance", "neighborLists"} ]

Call == {"idle", "Compute", "ComputeArgumentsCreate", "ClearThenRefresh",
         "Extension", "undefined"}

Frame == [ call : Call,
           model : Models \cup {NULL},
           ca : ArgumentsObjects \cup {NULL} ]

Idle == [call |-> "idle", model |-> NULL, ca |-> NULL]

NothingHeld == [k \in ListIndex |-> NoParticle]

\* the marks for "no object" are not objects
ASSUME NoObjectAssumption ==
  /\ NoModel \notin ModelRecord
  /\ NoArguments \notin Arguments

TypeOK ==
  /\ models \in [Models -> ModelRecord \cup {NoModel}]
  /\ args \in [ArgumentsObjects -> Arguments \cup {NoArguments}]
  /\ frame \in [Threads -> Frame]
  /\ owner \in [ArgumentsObjects -> Models \cup {NULL}]
  /\ held \in [Threads -> [ListIndex -> StoredParticle]]

\* Fault: the sign is that of the opposite conversion.
OffsetSwapped(modelNumbering, simulatorNumbering) ==
  CASE simulatorNumbering = modelNumbering -> 0
    [] simulatorNumbering # modelNumbering /\ simulatorNumbering = "zeroBased" -> -1
    [] OTHER -> 1

Offset(modelNumbering, simulatorNumbering) ==
  CASE simulatorNumbering = modelNumbering -> 0
    [] simulatorNumbering # modelNumbering /\ simulatorNumbering = "zeroBased" -> 1
    [] OTHER -> -1

\* Fault: only the first cutoff is compared.
CutoffsWithinInfluenceFirst(r) ==
  0 <= r.influenceDistance /\ r.cutoffs[1] <= r.influenceDistance

\* maxCutoff starts at 0.0, so an influence distance below zero is refused.
CutoffsWithinInfluence(r) ==
  /\ 0 <= r.influenceDistance
  /\ \A i \in 1 .. r.numberOfNeighborLists : r.cutoffs[i] <= r.influenceDistance

\* What ModelCreate and ClearThenRefresh check before they report success.
ListsComplete(r) ==
  /\ r.influenceDistance # NULL
  /\ r.numberOfNeighborLists >= 1
  /\ r.cutoffs # NULL
  /\ CutoffsWithinInfluence(r)
  /\ r.hint

\* The lists a model may publish.  The count is that of the cutoffs array when
\* there is one; a count of zero or a NULL array is only logged.
ListsInput ==
  {l \in [ number : 0 .. MaxNeighborLists,
           cutoffs : CutoffArrays \cup {NULL},
           hint : BOOLEAN ] : l.cutoffs # NULL => l.number = Len(l.cutoffs)}

PublishInfluenceDistance(r, d) ==
  [r EXCEPT !.influenceDistance = d, !.accepted = FALSE,
            !.published = @ \cup {"influenceDistance"}]

PublishNeighborLists(r, l) ==
  [r EXCEPT !.numberOfNeighborLists = l.number, !.cutoffs = l.cutoffs,
            !.hint = l.hint, !.accepted = FALSE,
            !.published = @ \cup {"neighborLists"}]

\* Fault: the influence distance of before the refresh survives.
ClearedListsOnly(r) ==
  [r EXCEPT !.numberOfNeighborLists = 0, !.cutoffs = NULL, !.hint = FALSE,
            !.accepted = FALSE, !.published = {}]

Cleared(r) ==
  [r EXCEPT !.influenceDistance = NULL, !.numberOfNeighborLists = 0,
            !.cutoffs = NULL, !.hint = FALSE,
            !.accepted = FALSE, !.published = {}]

NewModel(name, numberings, routines, d, l) ==
  [ name |-> name,
    modelNumbering |-> numberings.model,
    simulatorNumbering |-> numberings.simulator,
    numberingOffset |-> Offset(numberings.model, numberings.simulator),
    routines |-> routines,
    influenceDistance |-> d,
    numberOfNeighborLists |-> l.number,
    cutoffs |-> l.cutoffs,
    hint |-> l.hint,
    accepted |-> TRUE,
    published |-> {"influenceDistance", "neighborLists"} ]

(***************************************************************************)
(* The simulator's discipline.                                             *)
(***************************************************************************)
LiveModel(m) == models[m] # NoModel

LiveArguments(c) == args[c] # NoArguments

MayCall(t) == frame[t] = Idle

ArgumentsFree(c) == \A t \in Threads : frame[t].ca # c

ModelUnused(m) == \A t \in Threads : frame[t].model # m

\* no call in progress may change the model
ModelStable(m) ==
  \A t \in Threads :
    frame[t].call \in {"ClearThenRefresh", "Extension"} => frame[t].model # m

InCall(t, call) == frame[t].call = call

InExtension(t, view) == InCall(t, "Extension") /\ view \in ExtensionViews

Enter(t, call, m, c) ==
  frame' = [frame EXCEPT ![t] = [call |-> call, model |-> m, ca |-> c]]

Leave(t) == frame' = [frame EXCEPT ![t] = Idle]

(***************************************************************************)
(* Create and Destroy.  How ModelCreate gets there is not in this module:  *)
(* it ends with an object whose lists are complete, or with none.          *)
(***************************************************************************)
Create(t, m) ==
  /\ MayCall(t)
  /\ ~LiveModel(m)
  /\ \E name \in ModelNames, numberings \in NumberingPairs,
        routines \in RoutineSets, d \in Distances, l \in ListsInput :
       LET r == NewModel(name, numberings, routines, d, l)
       IN  ListsComplete(r) /\ models' = [models EXCEPT ![m] = r]
  /\ UNCHANGED <<args, frame, owner, held>>

\* An error of the model's Destroy routine does not stop the deletion.
Destroy(t, m) ==
  /\ MayCall(t)
  /\ LiveModel(m) /\ ModelUnused(m)
  /\ \A c \in ArgumentsObjects : owner[c] # m
  /\ models' = [models EXCEPT ![m] = NoModel]
  /\ UNCHANGED <<args, frame, owner, held>>

(***************************************************************************)
(* ComputeArgumentsCreate: the object exists while the model's routine     *)
(* runs, and is gone again when the routine returns an error.              *)
(***************************************************************************)
ComputeArgumentsCreateBegin(t, m, c) ==
  /\ MayCall(t)
  /\ LiveModel(m) /\ ModelStable(m)
  /\ ~LiveArguments(c) /\ ArgumentsFree(c)
  /\ args' = [args EXCEPT ![c] =
       NewArguments(models[m].name, models[m].modelNumbering,
                    models[m].simulatorNumbering, models[m].numberingOffset)]
  /\ owner' = [owner EXCEPT ![c] = m]
  /\ Enter(t, "ComputeArgumentsCreate", m, c)
  /\ UNCHANGED <<models, held>>

ComputeArgumentsCreateEnd(t, error) ==
  /\ InCall(t, "ComputeArgumentsCreate")
  /\ args' = IF error THEN [args EXCEPT ![frame[t].ca] = NoArguments] ELSE args
  /\ owner' = IF error THEN [owner EXCEPT ![frame[t].ca] = NULL] ELSE owner
  /\ Leave(t)
  /\ UNCHANGED <<models, held>>

\* Through the view of a ComputeArgumentsCreate routine, which an Extension
\* routine may obtain for any ComputeArguments.
SettingStatus(t) ==
  /\ \/ InCall(t, "ComputeArgumentsCreate")
     \/ InExtension(t, "ModelComputeArgumentsCreate") /\ frame[t].ca # NULL
  /\ UNCHANGED <<models, frame, owner, held>>

ModelSetsArgumentSupportStatus(t, n, s) ==
  /\ SettingStatus(t)
  /\ MayChangeArgumentStatus(args[frame[t].ca], n, s)
  /\ args' = [args EXCEPT ![frame[t].ca] = SetArgumentSupportStatus(@, n, s)]

ModelSetsCallbackSupportStatus(t, n, s) ==
  /\ SettingStatus(t)
  /\ MayChangeCallbackStatus(args[frame[t].ca], n, s)
  /\ args' = [args EXCEPT ![frame[t].ca] = SetCallbackSupportStatus(@, n, s)]

\* The model's routine returned no error; otherwise nothing changes.
ComputeArgumentsDestroy(t, m, c) ==
  /\ MayCall(t)
  /\ LiveModel(m) /\ ModelStable(m)
  /\ LiveArguments(c) /\ ArgumentsFree(c)
  /\ args[c].name = models[m].name
  /\ args' = [args EXCEPT ![c] = NoArguments]
  /\ owner' = [owner EXCEPT ![c] = NULL]
  /\ UNCHANGED <<models, frame, held>>

(***************************************************************************)
(* The simulator fills in a ComputeArguments between computations.         *)
(***************************************************************************)
SettingPointer(t, c) ==
  /\ MayCall(t)
  /\ LiveArguments(c) /\ ArgumentsFree(c)
  /\ UNCHANGED <<models, frame, owner, held>>

SimulatorSetsArgumentPointer(t, c, n, p) ==
  /\ SettingPointer(t, c)
  /\ args' = [args EXCEPT ![c] = SetArgumentPointer(@, n, p)]

SimulatorSetsCallbackPointer(t, c, n, p) ==
  /\ SettingPointer(t, c)
  /\ args' = [args EXCEPT ![c] = SetCallbackPointer(@, n, p)]

(***************************************************************************)
(* Compute.                                                                *)
(***************************************************************************)
\* Fault: the storage is sized by the first computation only.
PreparedSizedOnce(ca, r) ==
  [ca EXCEPT !.inModelComputeRoutine = TRUE,
             !.numberOfNeighborLists = r.numberOfNeighborLists,
             !.cutoffs = r.cutoffs,
             !.storage = IF r.simulatorNumbering # r.modelNumbering
                            /\ \A k \in ListIndex : ca.storage[k] = NoCell
                         THEN Resized(@, r.numberOfNeighborLists)
                         ELSE @]

\* Compute decides by the numberings of the Model it was called on whether
\* the ComputeArguments needs storage for converted lists.
Prepared(ca, r) ==
  [ca EXCEPT !.inModelComputeRoutine = TRUE,
             !.numberOfNeighborLists = r.numberOfNeighborLists,
             !.cutoffs = r.cutoffs,
             !.storage = IF r.simulatorNumbering # r.modelNumbering
                         THEN Resized(@, r.numberOfNeighborLists)
                         ELSE @]

\* Fault: the lists are reset, the cutoffs pointer is left behind.
ResetListsOnly(ca) ==
  [ca EXCEPT !.inModelComputeRoutine = FALSE, !.numberOfNeighborLists = 0]

Reset(ca) ==
  [ca EXCEPT !.inModelComputeRoutine = FALSE,
             !.numberOfNeighborLists = 0,
             !.cutoffs = NULL]

ComputeBegin(t, m, c) ==
  /\ MayCall(t)
  /\ LiveModel(m) /\ ModelStable(m)
  /\ LiveArguments(c) /\ ArgumentsFree(c)
  /\ args[c].name = models[m].name
  /\ AreAllRequiredArgumentsAndCallbacksPresent(args[c])
  /\ args' = [args EXCEPT ![c] = Prepared(@, models[m])]
  /\ held' = [held EXCEPT ![t] = NothingHeld]
  /\ Enter(t, "Compute", m, c)
  /\ UNCHANGED <<models, owner>>

\* with an error or without one
ComputeEnd(t) ==
  /\ InCall(t, "Compute")
  /\ args' = [args EXCEPT ![frame[t].ca] = Reset(@)]
  /\ held' = [held EXCEPT ![t] = NothingHeld]
  /\ Leave(t)
  /\ UNCHANGED <<models, owner>>

\* The model asks for the neighbours of particle p, in its numbering, in list
\* k.  An Extension routine may obtain the same view of a ComputeArguments.
Asking(t, k, p) ==
  /\ \/ InCall(t, "Compute")
     \/ InExtension(t, "ModelComputeArguments") /\ frame[t].ca # NULL
  /\ ValidListIndex(args[frame[t].ca], k)
  /\ ValidParticle(args[frame[t].ca], p)
  /\ UNCHANGED <<models, owner>>

HasStorageFor(ca, k) == Converts(ca) => ca.storage[k] # NoCell

GetNeighborList(t, k, p) ==
  /\ Asking(t, k, p)
  /\ HasStorageFor(args[frame[t].ca], k)
  /\ args' = [args EXCEPT ![frame[t].ca] = StoreList(@, k, p)]
  /\ held' = [held EXCEPT ![t][k] = ZeroBased(args[frame[t].ca], p)]
  /\ UNCHANGED frame

\* getNeighborListStorage_[k] past the end of the vector: what the thread does
\* next is undefined, and it takes no further step here.
GetNeighborListPastTheEnd(t, k, p) ==
  /\ Asking(t, k, p)
  /\ ~HasStorageFor(args[frame[t].ca], k)
  /\ frame' = [frame EXCEPT ![t].call = "undefined"]
  /\ UNCHANGED <<args, held>>

(***************************************************************************)
(* ClearThenRefresh.                                                       *)
(***************************************************************************)
ClearThenRefreshBegin(t, m) ==
  /\ MayCall(t)
  /\ LiveModel(m) /\ ModelUnused(m)
  /\ "Refresh" \in models[m].routines  \* as many as have parameters
  /\ models' = [models EXCEPT ![m] = Cleared(@)]
  /\ Enter(t, "ClearThenRefresh", m, NULL)
  /\ UNCHANGED <<args, owner, held>>

\* The model's Refresh routine returned `error`; whatever it published stays.
ClearThenRefreshEnd(t, error) ==
  LET m == frame[t].model
  IN  /\ InCall(t, "ClearThenRefresh")
      /\ models' = [models EXCEPT ![m].accepted = ~error /\ ListsComplete(models[m])]
      /\ Leave(t)
      /\ UNCHANGED <<args, owner, held>>

\* Through the view of a Refresh routine, which an Extension routine may also
\* obtain; what is published outside a refresh is not checked.
Publishing(t) ==
  /\ \/ InCall(t, "ClearThenRefresh")
     \/ InExtension(t, "ModelRefresh")
  /\ UNCHANGED <<args, frame, owner, held>>

ModelSetsInfluenceDistance(t, d) ==
  /\ Publishing(t)
  /\ models' = [models EXCEPT ![frame[t].model] = PublishInfluenceDistance(@, d)]

ModelSetsNeighborLists(t, l) ==
  /\ Publishing(t)
  /\ models' = [models EXCEPT ![frame[t].model] = PublishNeighborLists(@, l)]

(***************************************************************************)
(* Extension: the routine may view the Model as any of its interfaces, and *)
(* a ComputeArguments that the simulator passes it as any of that one's.   *)
(***************************************************************************)
ExtensionBegin(t, m, c) ==
  /\ MayCall(t)
  /\ LiveModel(m) /\ ModelUnused(m)
  /\ "Extension" \in models[m].routines
  /\ c # NULL => LiveArguments(c) /\ ArgumentsFree(c)
  /\ Enter(t, "Extension", m, c)
  /\ held' = [held EXCEPT ![t] = NothingHeld]
  /\ UNCHANGED <<models, args, owner>>

\* SetModelNumbering of the ModelCreate view does not compute the offset anew.
ModelSetsNumbering(t, numbering) ==
  /\ InExtension(t, "ModelCreate")
  /\ models' = [models EXCEPT ![frame[t].model].modelNumbering = numbering]
  /\ UNCHANGED <<args, frame, owner, held>>

ExtensionEnd(t) ==
  /\ InCall(t, "Extension")
  /\ Leave(t)
  /\ UNCHANGED <<models, args, owner, held>>

(***************************************************************************)
(* The specification.                                                      *)
(***************************************************************************)
Init ==
  /\ models = [m \in Models |-> NoModel]
  /\ args = [c \in ArgumentsObjects |-> NoArguments]
  /\ frame = [t \in Threads |-> Idle]
  /\ owner = [c \in ArgumentsObjects |-> NULL]
  /\ held = [t \in Threads |-> NothingHeld]

SimulatorCalls(t) ==
  \/ \E m \in Models : Create(t, m)
  \/ \E m \in Models : Destroy(t, m)
  \/ \E m \in Models, c \in ArgumentsObjects : ComputeArgumentsCreateBegin(t, m, c)
  \/ \E m \in Models, c \in ArgumentsObjects : ComputeArgumentsDestroy(t, m, c)
  \/ \E c \in ArgumentsObjects, n \in ArgumentNames, p \in {"null", "set"} :
       SimulatorSetsArgumentPointer(t, c, n, p)
  \/ \E c \in ArgumentsObjects, n \in CallbackNames, p \in {"null", "set"} :
       SimulatorSetsCallbackPointer(t, c, n, p)
  \/ \E m \in Models, c \in ArgumentsObjects : ComputeBegin(t, m, c)
  \/ \E m \in Models : ClearThenRefreshBegin(t, m)
  \/ \E m \in Models, c \in ArgumentsObjects \cup {NULL} : ExtensionBegin(t, m, c)

\* Requests just outside the valid ranges are made too, and refused.
ModelCalls(t) ==
  \/ \E n \in ArgumentNames, s \in SupportStatus : ModelSetsArgumentSupportStatus(t, n, s)
  \/ \E n \in CallbackNames, s \in SupportStatus : ModelSetsCallbackSupportStatus(t, n, s)
  \/ \E k \in ListIndex, p \in -1 .. NumberOfParticles + 1 : GetNeighborList(t, k, p)
  \/ \E k \in ListIndex, p \in -1 .. NumberOfParticles + 1 : GetNeighborListPastTheEnd(t, k, p)
  \/ \E d \in Distances \cup {NULL} : ModelSetsInfluenceDistance(t, d)
  \/ \E l \in ListsInput : ModelSetsNeighborLists(t, l)
  \/ \E numbering \in Numbering : ModelSetsNumbering(t, numbering)

RoutineReturns(t) ==
  \/ \E error \in BOOLEAN : ComputeArgumentsCreateEnd(t, error)
  \/ ComputeEnd(t)
  \/ \E error \in BOOLEAN : ClearThenRefreshEnd(t, error)
  \/ ExtensionEnd(t)

Next == \E t \in Threads : SimulatorCalls(t) \/ ModelCalls(t) \/ RoutineReturns(t)

Spec == Init /\ [][Next]_vars

(***************************************************************************)
(* Properties.                                                             *)
(***************************************************************************)
\* The objects a call in progress refers to exist for as long as it lasts, no
\* two calls use the same ComputeArguments, and a call that may change its
\* Model is the only one in progress on it.
CallsAreSound ==
  /\ \A t \in Threads :
       /\ InCall(t, "idle") <=> frame[t] = Idle
       /\ ~InCall(t, "idle") =>
            frame[t].model \in Models /\ LiveModel(frame[t].model)
       /\ frame[t].ca # NULL =>
            frame[t].ca \in ArgumentsObjects /\ LiveArguments(frame[t].ca)
       /\ InCall(t, "ClearThenRefresh") => frame[t].ca = NULL
       /\ frame[t].call \in {"Compute", "ComputeArgumentsCreate", "undefined"} =>
            frame[t].ca # NULL
  /\ \A t, u \in Threads : t # u =>
       /\ frame[t].ca # NULL => frame[t].ca # frame[u].ca
       /\ frame[t].call \in {"ClearThenRefresh", "Extension"} =>
            frame[t].model # frame[u].model

Computing(c) ==
  \E t \in Threads : frame[t].call \in {"Compute", "undefined"} /\ frame[t].ca = c

\* A ComputeArguments exposes neighbour lists and cutoffs exactly while some
\* thread computes with it, whatever the routines return and whichever Model
\* of that name it is used with; a view kept by the model finds no lists.
ListsExposedOnlyInCompute ==
  \A c \in ArgumentsObjects : LiveArguments(c) =>
    IF Computing(c)
    THEN args[c].inModelComputeRoutine
    ELSE /\ ~args[c].inModelComputeRoutine
         /\ args[c].numberOfNeighborLists = 0
         /\ args[c].cutoffs = NULL

\* Through the whole of a computation, with other threads computing on the
\* same Model and the object having served other Models before, the model
\* reads the lists of the Model it runs for, and they are complete whenever
\* the simulator was last told that they are.
ComputeSeesModelLists ==
  \A t \in Threads : InCall(t, "Compute") =>
    LET ca == args[frame[t].ca]
        r == models[frame[t].model]
    IN  /\ ca.numberOfNeighborLists = r.numberOfNeighborLists
        /\ ca.cutoffs = r.cutoffs
        /\ r.accepted => /\ ca.numberOfNeighborLists >= 1
                         /\ \A i \in 1 .. ca.numberOfNeighborLists :
                              ca.cutoffs[i] <= r.influenceDistance

\* When ClearThenRefresh reports success, the influence distance and the lists
\* are complete and were all published since it cleared the old ones: no
\* pointer of before the refresh (into memory the routine may have freed)
\* survives.
AcceptedListsAreFresh ==
  \A m \in Models : LiveModel(m) /\ models[m].accepted =>
    /\ ListsComplete(models[m])
    /\ models[m].published = {"influenceDistance", "neighborLists"}

\* A supported argument or callback always has a pointer entry, so that
\* find()->second in the check before a computation, in GetNeighborList and in
\* the getters is defined, in whatever order the statuses were set.
SupportedNamesHaveEntries ==
  \A c \in ArgumentsObjects : LiveArguments(c) =>
    /\ \A n \in ArgumentNames : args[c].argumentStatus[n] # "notSupported" =>
         args[c].argumentPointer[n] # "absent"
    /\ \A n \in CallbackNames : args[c].callbackStatus[n] # "notSupported" =>
         args[c].callbackPointer[n] # "absent"

\* While a model computes, everything required, by it or by the API, is set.
RequiredPresentInCompute ==
  \A t \in Threads : InCall(t, "Compute") =>
    LET ca == args[frame[t].ca]
        Required == {"required", "requiredByAPI"}
    IN  /\ \A n \in ArgumentNames : ca.argumentStatus[n] \in Required =>
             ca.argumentPointer[n] = "set"
        /\ \A n \in CallbackNames : ca.callbackStatus[n] \in Required =>
             ca.callbackPointer[n] = "set"
        /\ \A n \in APIArguments : ca.argumentPointer[n] = "set"
        /\ \A n \in APICallbacks : ca.callbackPointer[n] = "set"

\* Particle numbers survive the trip to the simulator and back: the n-th
\* particle of the model is the n-th of the simulator.
NumbersRoundTrip ==
  "ModelCreate" \notin ExtensionViews =>
    \A c \in ArgumentsObjects : LiveArguments(c) =>
      \A i \in ZeroBasedParticle :
        LET ca == args[c]
            p == Base(ca.modelNumbering) + i
        IN  /\ ToSimulator(ca, p) = Base(ca.simulatorNumbering) + i
            /\ ToModel(ca, ToSimulator(ca, p)) = p

\* A list the model holds stays what it was when the model asked for it, until
\* the model asks for another particle in the same list: converted lists of
\* different list indices, and of other threads, do not overwrite it.
HeldListsAreIntact ==
  \A t \in Threads : InCall(t, "Compute") /\ Converts(args[frame[t].ca]) =>
    \A k \in ListIndex : held[t][k] # NoParticle =>
      args[frame[t].ca].storage[k] = held[t][k]

\* A computation on the Model that created the ComputeArguments has a cell for
\* every list that has to be converted, however many lists the Model had when
\* the object was used before.
OwnListsHaveStorage ==
  "ModelCreate" \notin ExtensionViews =>
    \A t \in Threads :
      InCall(t, "Compute") /\ owner[frame[t].ca] = frame[t].model =>
        LET ca == args[frame[t].ca]
        IN  \A k \in ListIndex : ValidListIndex(ca, k) => HasStorageFor(ca, k)

\* "Resize computeArguments storage if needed" (KIM_ModelImplementation.cpp:
\* 1316): a computation always has the storage its lists need.
ListsHaveStorage ==
  \A t \in Threads : InCall(t, "Compute") =>
    LET ca == args[frame[t].ca]
    IN  \A k \in ListIndex : ValidListIndex(ca, k) => HasStorageFor(ca, k)

\* The support status of what the API does not require is "one of the three
\* remaining options: required, optional, or notSupported"
\* (docs/src/implementation.txt:355).
\* (The code does not keep this: README, "What the documentation says and the code does not do".)
OnlyAPIRequires ==
  \A c \in ArgumentsObjects : LiveArguments(c) =>
    /\ \A n \in ArgumentNames \ APIArguments :
         args[c].argumentStatus[n] # "requiredByAPI"
    /\ \A n \in CallbackNames \ APICallbacks :
         args[c].callbackStatus[n] # "requiredByAPI"

\* The runs look at these together.
\* The variables have their types, and whatever the order in which statuses and pointers
\* are set: what is supported has an entry, and a model that computes has what is required.
ArgumentsAreComplete == TypeOK /\ SupportedNamesHaveEntries /\ RequiredPresentInCompute

\* Lists and cutoffs are visible during computations only, and are those of the Model
\* that computes, whatever other threads, Models and routines that fail do.
ListsAreOfTheComputation == ListsExposedOnlyInCompute /\ ComputeSeesModelLists

\* A converted list has a place of its own, which no other list or thread overwrites
\* while the model holds it.
ConvertedListsAreKept == HeldListsAreIntact /\ OwnListsHaveStorage
=============================================================================
