------------------------------ MODULE Callbacks ------------------------------
(***************************************************************************)
(* What a ComputeArguments passes between a simulator and a model          *)
(* (KIM_ComputeArgumentsImplementation.cpp): the pointers of arguments,    *)
(* which the model gets, and the callbacks, which the model calls.         *)
(*                                                                         *)
(* The model sets the support statuses when the object is created and      *)
(* later by an Extension routine; the simulator sets pointers and          *)
(* callbacks between computations.  A routine of the model asks whether a  *)
(* callback that is optional is present before it calls it; the answer is  *)
(* a variable of the routine that an error leaves as it is.  Neighbor      *)
(* lists and the calls of several threads are in KIMModel.                 *)
(***************************************************************************)
EXTENDS Integers

CONSTANTS
  ArgumentNames, APIArguments,  \* those there are, and those that the API requires
  CallbackNames, APICallbacks,
  Functions, LanguageOf,        \* the simulator's functions and their languages
  Addresses,                    \* of arguments and of the simulator's data objects
  NumberingPairs,               \* [model, simulator]
  NumberOfParticles,
  NULL

Names == ArgumentNames \cup CallbackNames
Languages == {"cpp", "c", "fortran"}
SupportStatus == {"notSupported", "optional", "required", "requiredByAPI"}
Numbering == {"zeroBased", "oneBased"}

CallbacksAssumption ==
  /\ ArgumentNames \cap CallbackNames = {}
  /\ APIArguments \subseteq ArgumentNames /\ APICallbacks \subseteq CallbackNames
  /\ LanguageOf \in [Functions -> Languages]
  /\ NULL \notin Functions \cup Addresses
  /\ NumberingPairs \subseteq [model : Numbering, simulator : Numbering]
  /\ NumberOfParticles \in Nat

VARIABLES
  numbering,   \* of the model and the simulator
  status,      \* the support statuses
  entries,     \* names that have an entry in the maps below
  pointer,     \* an argument's pointer, or a callback's language, function and data
  computing,   \* the model's Compute routine runs
  present,     \* what it has been told of the callbacks
  call,        \* the callback that runs
  got,         \* the argument pointer it got last
  given,       \* ghost: what the simulator last set with a call that stored it
  dropped      \* ghost: what it set to NULL with a call that succeeded and stored nothing

vars == <<numbering, status, entries, pointer, computing, present, call, got, given, dropped>>

Callback(language, function, data) ==
  [language |-> language, function |-> function, data |-> data]
NoCallback == Callback("cpp", NULL, NULL)
\* A pointer that nobody set; fault of Unset: the constructor leaves it so.
Stray(n) == IF n \in CallbackNames THEN Callback("cpp", "stray", NULL) ELSE "stray"

Unset(n) == IF n \in CallbackNames THEN NoCallback ELSE NULL
IsSet(n, p) == IF n \in CallbackNames THEN p.function # NULL ELSE p # NULL

NoCall == [name |-> "none"]
NothingGot == [name |-> "none", pointer |-> NULL]

RequiredByAPI == APIArguments \cup APICallbacks

Init ==
  /\ numbering \in NumberingPairs
  /\ status = [n \in Names |-> IF n \in RequiredByAPI THEN "requiredByAPI" ELSE "notSupported"]
  /\ entries = RequiredByAPI
  /\ pointer = [n \in Names |-> Unset(n)]
  /\ computing = FALSE
  /\ present = [n \in CallbackNames |-> "unknown"]
  /\ call = NoCall
  /\ got = NothingGot
  /\ given = [n \in Names |-> Unset(n)]
  /\ dropped = {}

(***************************************************************************)
(* Between computations                                                    *)
(***************************************************************************)
\* Fault: a status is stored without an entry for the pointer.
EntriesAfterKept(n, s) == entries

\* The entry is made when a name is first supported, and stays.
EntriesAfter(n, s) == IF s # "notSupported" THEN entries \cup {n} ELSE entries

SetSupportStatus(n, s) ==
  /\ ~computing
  /\ status[n] = "requiredByAPI" => s = "requiredByAPI"
  /\ status' = [status EXCEPT ![n] = s]
  /\ entries' = EntriesAfter(n, s)
  /\ UNCHANGED <<numbering, pointer, computing, present, call, got, given, dropped>>

IsStored(n) == status[n] # "notSupported"

\* Setting the pointer of a name that is not supported is an error, unless it is set to
\* NULL: then it "is considered an error" too, but nothing is stored and none is returned.
SetPointer(n, p) ==
  /\ ~computing
  /\ IsStored(n) \/ ~IsSet(n, p)
  /\ IF IsStored(n)
     THEN /\ pointer' = [pointer EXCEPT ![n] = p]
          /\ given' = [given EXCEPT ![n] = p]
          /\ dropped' = dropped \ {n}
     ELSE /\ dropped' = dropped \cup {n}
          /\ UNCHANGED <<pointer, given>>
  /\ entries' = IF IsStored(n) THEN entries \cup {n} ELSE entries
  /\ UNCHANGED <<numbering, status, computing, present, call, got>>

(***************************************************************************)
(* A computation.  It begins if what is required is there.                 *)
(***************************************************************************)
\* Fault: only what the model requires is looked for.
IsRequiredByModel(n) == status[n] = "required"

IsRequired(n) == status[n] \in {"required", "requiredByAPI"}

ComputeBegins ==
  /\ ~computing
  /\ \A n \in Names : IsRequired(n) => IsSet(n, pointer[n])
  /\ computing' = TRUE
  /\ present' = [n \in CallbackNames |-> "unknown"]
  /\ got' = NothingGot
  /\ UNCHANGED <<numbering, status, entries, pointer, call, given, dropped>>

\* What is found for a name that has no entry is undefined.
Found(n) == IF n \in entries THEN {pointer[n]} ELSE {Unset(n), Stray(n)}

IsCallbackPresent(n, p) == IsSet(n, p)

\* An error leaves the model's variable as it was: that is not an answer.
AskIsCallbackPresent(n) ==
  /\ computing /\ call = NoCall
  /\ \E p \in Found(n) :
       present' = IF status[n] = "notSupported" THEN present
                  ELSE [present EXCEPT ![n] = IF IsCallbackPresent(n, p) THEN "yes" ELSE "no"]
  /\ UNCHANGED <<numbering, status, entries, pointer, computing, call, got, given, dropped>>

GetArgumentPointer(n) ==
  /\ computing /\ call = NoCall /\ status[n] # "notSupported"
  /\ \E p \in Found(n) : got' = [name |-> n, pointer |-> p]
  /\ UNCHANGED <<numbering, status, entries, pointer, computing, present, call, given, dropped>>

\* Set by the Model from its numbering and the simulator's.
NumberingOffset ==
  IF numbering.simulator = numbering.model THEN 0
  ELSE IF numbering.simulator = "zeroBased" THEN 1 ELSE -1

\* Fault: the offset that converts neighbors for the model is used the other way too.
ToSimulatorForward(i) == i + NumberingOffset

ToSimulator(i) == i - NumberingOffset

\* A function in C++ or C returns its error, one in Fortran stores it.
Form(language) ==
  CASE language \in {"cpp", "c"} -> "error returned"
    [] language = "fortran" -> "error stored"
    [] OTHER -> "never"

ParticlesOf(zeroBased) == IF zeroBased THEN 0 .. NumberOfParticles - 1 ELSE 1 .. NumberOfParticles

\* The numbers ProcessDEDrTerm gets are those of a pair, and ProcessD2EDr2Term of two:
\* each is converted in the same way.
Process(n, i, j) ==
  /\ computing /\ call = NoCall
  /\ present[n] = "yes" \/ IsRequired(n)
  /\ call' = [name |-> n, function |-> pointer[n].function, data |-> pointer[n].data,
              form |-> Form(pointer[n].language),
              i |-> i, j |-> j, simulatorI |-> ToSimulator(i), simulatorJ |-> ToSimulator(j)]
  /\ UNCHANGED <<numbering, status, entries, pointer, computing, present, got, given, dropped>>

\* The callback returns: its error is the model's business.
CallbackReturns ==
  /\ call # NoCall
  /\ call' = NoCall
  /\ UNCHANGED <<numbering, status, entries, pointer, computing, present, got, given, dropped>>

ComputeEnds ==
  /\ computing /\ call = NoCall
  /\ computing' = FALSE
  /\ UNCHANGED <<numbering, status, entries, pointer, present, call, got, given, dropped>>

ToString(n) ==
  IF status[n] = "notSupported" THEN "N/A" ELSE IF n \in entries THEN pointer[n] ELSE "Not Set"

Settable(n) ==
  IF n \in ArgumentNames THEN Addresses \cup {NULL}
  ELSE {Callback(LanguageOf[f], f, d) : f \in Functions, d \in Addresses \cup {NULL}}
         \cup {NoCallback}

Next ==
  \/ \E n \in Names, s \in SupportStatus : SetSupportStatus(n, s)
  \/ \E n \in Names : \E p \in Settable(n) : SetPointer(n, p)
  \/ ComputeBegins
  \/ \E n \in CallbackNames : AskIsCallbackPresent(n)
  \/ \E n \in ArgumentNames : GetArgumentPointer(n)
  \/ \E n \in CallbackNames, i, j \in ParticlesOf(numbering.model = "zeroBased") : Process(n, i, j)
  \/ CallbackReturns
  \/ ComputeEnds

Spec == Init /\ [][Next]_vars

-----------------------------------------------------------------------------
\* The maps hold what a simulator can set.
TypeOK ==
  /\ numbering \in [model : Numbering, simulator : Numbering]
  /\ status \in [Names -> SupportStatus]
  /\ entries \subseteq Names
  /\ DOMAIN pointer = Names /\ \A n \in Names : pointer[n] \in Settable(n)
  /\ computing \in BOOLEAN
  /\ present \in [CallbackNames -> {"unknown", "yes", "no"}]
  /\ got.name \in ArgumentNames \cup {"none"}
  /\ dropped \subseteq Names

\* A model that asks before it calls an optional callback, and does not ask about a
\* required one, always calls a function the simulator gave, with the data that came
\* with it, in the form of the language the function is written in, whatever
\* statuses and callbacks were set, relaxed and set again in between; and the
\* function gets the simulator's own numbers of the particles the model means.
CallbacksAreRunnable ==
  call # NoCall =>
    /\ call.function \in Functions
    /\ call.form = Form(LanguageOf[call.function])
    /\ given[call.name] = Callback(LanguageOf[call.function], call.function, call.data)
    /\ {call.simulatorI, call.simulatorJ} \subseteq ParticlesOf(numbering.simulator = "zeroBased")
    /\ call.simulatorI - call.i = call.simulatorJ - call.j
    /\ numbering.model = numbering.simulator => call.simulatorI = call.i

\* The pointer a model gets is the one the simulator stored last, and it is not NULL
\* if the argument is required.
PointersAreGiven ==
  computing /\ got.name # "none" =>
    /\ got.pointer = given[got.name]
    /\ status[got.name] \in {"required", "requiredByAPI"} => got.pointer # NULL

\* The description of the object (ToString) shows the pointer of every name that is
\* supported: each has the entry that the computation looks up without a test.
SupportedNamesAreShown ==
  \A n \in Names : status[n] # "notSupported" => ToString(n) = given[n]

\* Setting the pointer of what is not supported to NULL "is considered an error" but
\* "innocuous" (KIM_ComputeArgumentsImplementation.cpp:343, :641): a model gets none
\* afterwards.
\* (The code does not keep this: README, "What the documentation says and the code does not do".)
SettingNullIsInnocuous ==
  computing /\ got.name \in dropped => got.pointer = NULL
=============================================================================
