-------------------------------- MODULE Log --------------------------------
(***************************************************************************)
(* The Log (KIM_LogImplementation.cpp): process-wide stacks of the default *)
(* verbosity and of the default print function, the latter kept as two     *)
(* stacks, and Log objects with a stack of verbosities and a numbering of  *)
(* the entries that are written within one second.                         *)
(*                                                                         *)
(* The stacks have no lock; a step is one access to one of them.  A print  *)
(* function is foreign code and may call the Log again, so a thread has a  *)
(* stack of calls, of which the last one runs.                             *)
(***************************************************************************)
EXTENDS Integers, Sequences

CONSTANTS
  Threads, Logs, Ids,
  Sanitized,      \* SanitizeID: blanks and asterisks become underscores
  Pointers,       \* print functions
  Global,         \* GlobalDefaultLogPrintFunction
  LanguageOf,     \* the language a function is pushed with
  Levels,         \* the verbosities used; -1 is one that is not known
  MaximumLevel,   \* KIM_LOG_MAXIMUM_LEVEL
  Calls,          \* the calls that are made
  InitialLogs,    \* the Log objects there may be at the start
  MaxTime, MaxSequence, MaxDepth, MaxCalls,   \* bounds
  NULL

Silent == 0
Information == 4
Level == 0..5
Language == {"cpp", "c", "fortran"}
Unknown == -1

ASSUME LogAssumption ==
  /\ Sanitized \in [Ids -> Ids] /\ \A i \in Ids : Sanitized[Sanitized[i]] = Sanitized[i]
  /\ Global \in Pointers /\ LanguageOf \in [Pointers -> Language \cup {"unknown"}]
  /\ LanguageOf[Global] = "cpp"
  /\ MaximumLevel \in Level /\ Levels \subseteq Level \cup {Unknown}
  /\ InitialLogs \subseteq SUBSET Logs
  /\ MaxTime \in Nat /\ NULL \notin Language \X Pointers

VARIABLES
  defaultLogVerbosity, defaultLogPrintFunctionLanguageName, defaultLogPrintFunctionPointer,
  logs,     \* the Log objects
  calls,    \* the calls of each thread
  clock,    \* the seconds that time() returns
  written   \* the last entry of each Log object that was given to a print function

defaults == <<defaultLogVerbosity, defaultLogPrintFunctionLanguageName, defaultLogPrintFunctionPointer>>
vars == <<defaults, logs, calls, clock, written>>

\* What is done when an entry has been printed
After == {"rename", "push", "delete", "return"}
Stage == After \cup
  { "pushVerbosity", "refillVerbosity",
    "pushPointer", "popPointer", "refillLanguage", "refillPointer",
    "language", "pointer", "construct",
    "stamp", "format", "print", "printing" }

Time == 0..MaxTime
NoTime == -1      \* the empty string
Entry == [stamp : Time \cup {NoTime}, sequence : Nat]
NoEntry == [stamp |-> NoTime, sequence |-> 0]

Call ==
  [ stage : Stage, after : After, log : Logs, level : Level, id : Ids,
    language : Language, pointer : Pointers, entry : Entry ]

Object ==
  [ exists : BOOLEAN, verbosity : Seq(Level), id : Ids,
    language : Language, pointer : Pointers,
    latestTimeStamp : Time \cup {NoTime}, sequence : Nat ]

NewObject(language, pointer, id) ==
  [ exists |-> TRUE, verbosity |-> <<>>, id |-> id, language |-> language, pointer |-> pointer,
    latestTimeStamp |-> NoTime, sequence |-> 0 ]

Init ==
  /\ defaultLogVerbosity = <<MaximumLevel>>
  /\ defaultLogPrintFunctionLanguageName = <<"cpp">>
  /\ defaultLogPrintFunctionPointer = <<Global>>
  /\ \E some \in InitialLogs, i \in Ids :
       logs = [l \in Logs |-> [NewObject("cpp", Global, i) EXCEPT
                 !.exists = (l \in some), !.verbosity = <<MaximumLevel>>]]
  /\ calls = [t \in Threads |-> <<>>]
  /\ clock = 0
  /\ written = [l \in Logs |-> NoEntry]

Top(s) == s[Len(s)]
Popped(s) == SubSeq(s, 1, Len(s) - 1)

(***************************************************************************)
(* Calls.                                                                  *)
(***************************************************************************)
Running(t) == calls[t] # <<>>
Now(t) == Top(calls[t])
At(t, stage) == Running(t) /\ Now(t).stage = stage
Becomes(t, call) == calls' = [calls EXCEPT ![t] = Append(Popped(@), call)]
GoesTo(t, stage) == Becomes(t, [Now(t) EXCEPT !.stage = stage])

InUse(l) == \E t \in Threads : \E i \in DOMAIN calls[t] : calls[t][i].log = l

\* A thread calls from outside or from a print function.
MayCall(t, name) ==
  /\ name \in Calls
  /\ \/ ~Running(t)
     \/ At(t, "printing") /\ Len(calls[t]) < MaxCalls

Starts(t, call) == calls' = [calls EXCEPT ![t] = Append(@, call)]

Some(l, stage) ==
  [ stage |-> stage, after |-> "return", log |-> l, level |-> Silent, id |-> CHOOSE i \in Ids : TRUE,
    language |-> "cpp", pointer |-> Global, entry |-> NoEntry ]

\* A call returns, to the print function or to the thread.
Return(t) ==
  /\ At(t, "return")
  /\ calls' = [calls EXCEPT ![t] = Popped(@)]
  /\ UNCHANGED <<defaults, logs, clock, written>>

\* Validate, and what is taken for a level that it does not know
Valid(level, stack) == IF level \in Level THEN level ELSE Top(stack)

(***************************************************************************)
(* The defaults.                                                           *)
(***************************************************************************)
PushDefaultVerbosity(t, level) ==
  /\ MayCall(t, "PushDefaultVerbosity") /\ Len(defaultLogVerbosity) < MaxDepth
  /\ \E l \in Logs :
       Starts(t, [Some(l, "pushVerbosity") EXCEPT !.level = Valid(level, defaultLogVerbosity)])
  /\ UNCHANGED <<defaults, logs, clock, written>>

PushLevel(t) ==
  /\ At(t, "pushVerbosity")
  /\ defaultLogVerbosity' = Append(defaultLogVerbosity, Now(t).level)
  /\ GoesTo(t, "return")
  /\ UNCHANGED <<defaultLogPrintFunctionLanguageName, defaultLogPrintFunctionPointer, logs, clock, written>>

PopDefaultVerbosity(t) ==
  /\ MayCall(t, "PopDefaultVerbosity")
  /\ defaultLogVerbosity' = Popped(defaultLogVerbosity)
  /\ \E l \in Logs : Starts(t, Some(l, "refillVerbosity"))
  /\ UNCHANGED <<defaultLogPrintFunctionLanguageName, defaultLogPrintFunctionPointer, logs, clock, written>>

\* Fault: an empty stack stays so.
RefillNothing(t) ==
  /\ At(t, "refillVerbosity")
  /\ GoesTo(t, "return")
  /\ UNCHANGED <<defaults, logs, clock, written>>

RefillVerbosity(t) ==
  /\ At(t, "refillVerbosity")
  /\ defaultLogVerbosity' = IF defaultLogVerbosity = <<>> THEN <<MaximumLevel>> ELSE defaultLogVerbosity
  /\ GoesTo(t, "return")
  /\ UNCHANGED <<defaultLogPrintFunctionLanguageName, defaultLogPrintFunctionPointer, logs, clock, written>>

Known(language) == IF language \in Language THEN language ELSE "cpp"

PushDefaultPrintFunction(t, f) ==
  /\ MayCall(t, "PushDefaultPrintFunction") /\ Len(defaultLogPrintFunctionPointer) < MaxDepth
  /\ defaultLogPrintFunctionLanguageName' =
       Append(defaultLogPrintFunctionLanguageName, Known(LanguageOf[f]))
  /\ \E l \in Logs : Starts(t, [Some(l, "pushPointer") EXCEPT !.pointer = f])
  /\ UNCHANGED <<defaultLogVerbosity, defaultLogPrintFunctionPointer, logs, clock, written>>

PushPointer(t) ==
  /\ At(t, "pushPointer")
  /\ defaultLogPrintFunctionPointer' = Append(defaultLogPrintFunctionPointer, Now(t).pointer)
  /\ GoesTo(t, "return")
  /\ UNCHANGED <<defaultLogVerbosity, defaultLogPrintFunctionLanguageName, logs, clock, written>>

PopDefaultPrintFunction(t) ==
  /\ MayCall(t, "PopDefaultPrintFunction")
  /\ defaultLogPrintFunctionLanguageName' = Popped(defaultLogPrintFunctionLanguageName)
  /\ \E l \in Logs : Starts(t, Some(l, "popPointer"))
  /\ UNCHANGED <<defaultLogVerbosity, defaultLogPrintFunctionPointer, logs, clock, written>>

\* Fault: the function pointer stays.
PopNoPointer(t) ==
  /\ At(t, "popPointer")
  /\ GoesTo(t, "refillLanguage")
  /\ UNCHANGED <<defaults, logs, clock, written>>

PopPointer(t) ==
  /\ At(t, "popPointer")
  /\ defaultLogPrintFunctionPointer' = Popped(defaultLogPrintFunctionPointer)
  /\ GoesTo(t, "refillLanguage")
  /\ UNCHANGED <<defaultLogVerbosity, defaultLogPrintFunctionLanguageName, logs, clock, written>>

RefillLanguage(t) ==
  /\ At(t, "refillLanguage")
  /\ \/ /\ defaultLogPrintFunctionLanguageName = <<>>
        /\ defaultLogPrintFunctionLanguageName' = <<"cpp">>
        /\ GoesTo(t, "refillPointer")
     \/ /\ defaultLogPrintFunctionLanguageName # <<>>
        /\ GoesTo(t, "return")
        /\ UNCHANGED defaultLogPrintFunctionLanguageName
  /\ UNCHANGED <<defaultLogVerbosity, defaultLogPrintFunctionPointer, logs, clock, written>>

RefillPointer(t) ==
  /\ At(t, "refillPointer")
  /\ defaultLogPrintFunctionPointer' = Append(defaultLogPrintFunctionPointer, Global)
  /\ GoesTo(t, "return")
  /\ UNCHANGED <<defaultLogVerbosity, defaultLogPrintFunctionLanguageName, logs, clock, written>>

(***************************************************************************)
(* LogEntry, alone and in the other routines of a Log object.              *)
(***************************************************************************)
IsWritten(l, level) == level # Silent /\ level <= Top(logs[l].verbosity)

\* The call writes an entry and goes on with "after".
Entering(call, l, level, after) ==
  [call EXCEPT !.log = l, !.after = after, !.stage = IF IsWritten(l, level) THEN "stamp" ELSE after]

\* Entries of a second are counted up to a bound.
MayWrite(l) == logs[l].exists /\ logs[l].sequence < MaxSequence

LogEntry(t, l, level) ==
  /\ MayCall(t, "LogEntry") /\ MayWrite(l)
  /\ Starts(t, Entering(Some(l, "return"), l, Valid(level, logs[l].verbosity), "return"))
  /\ UNCHANGED <<defaults, logs, clock, written>>

\* Fault: the sequence goes on in the next second.
GetTimeStampOnly(t) ==
  /\ At(t, "stamp")
  /\ logs' = [logs EXCEPT ![Now(t).log].latestTimeStamp = clock, ![Now(t).log].sequence = @ + 1]
  /\ Becomes(t, [Now(t) EXCEPT !.stage = "format", !.entry.stamp = clock])
  /\ UNCHANGED <<defaults, clock, written>>

GetTimeStamp(t) ==
  /\ At(t, "stamp")
  /\ LET l == Now(t).log
     IN  logs' = [logs EXCEPT ![l].latestTimeStamp = clock,
                              ![l].sequence = IF clock = logs[l].latestTimeStamp THEN @ + 1 ELSE 0]
  /\ Becomes(t, [Now(t) EXCEPT !.stage = "format", !.entry.stamp = clock])
  /\ UNCHANGED <<defaults, clock, written>>

\* EntryString
FormatEntry(t) ==
  /\ At(t, "format")
  /\ Becomes(t, [Now(t) EXCEPT !.stage = "print", !.entry.sequence = logs[Now(t).log].sequence])
  /\ UNCHANGED <<defaults, logs, clock, written>>

PrintEntry(t) ==
  /\ At(t, "print")
  /\ written' = [written EXCEPT ![Now(t).log] = Now(t).entry]
  /\ GoesTo(t, "printing")
  /\ UNCHANGED <<defaults, logs, clock>>

\* The print function returns, whether it succeeded or not.
Printed(t) ==
  /\ At(t, "printing")
  /\ GoesTo(t, Now(t).after)
  /\ UNCHANGED <<defaults, logs, clock, written>>

SetID(t, l, id) ==
  /\ MayCall(t, "SetID") /\ MayWrite(l)
  /\ Starts(t, Entering([Some(l, "rename") EXCEPT !.id = Sanitized[id]], l, Information, "rename"))
  /\ UNCHANGED <<defaults, logs, clock, written>>

Rename(t) ==
  /\ At(t, "rename")
  /\ LET l == Now(t).log
     IN  /\ logs' = [logs EXCEPT ![l].id = Now(t).id]
         /\ Becomes(t, Entering(Now(t), l, Information, "return"))
  /\ UNCHANGED <<defaults, clock, written>>

PushVerbosity(t, l, level) ==
  /\ MayCall(t, "PushVerbosity") /\ MayWrite(l) /\ Len(logs[l].verbosity) < MaxDepth
  /\ Starts(t, Entering([Some(l, "push") EXCEPT !.level = Valid(level, logs[l].verbosity)],
                        l, Information, "push"))
  /\ UNCHANGED <<defaults, logs, clock, written>>

Push(t) ==
  /\ At(t, "push")
  /\ logs' = [logs EXCEPT ![Now(t).log].verbosity = Append(@, Now(t).level)]
  /\ GoesTo(t, "return")
  /\ UNCHANGED <<defaults, clock, written>>

\* The last verbosity is replaced by the default one of now, and the entry is
\* written with the verbosity that is left.
PopVerbosity(t, l) ==
  /\ MayCall(t, "PopVerbosity") /\ MayWrite(l)
  /\ LET left == IF Len(logs[l].verbosity) = 1 THEN <<Top(defaultLogVerbosity)>>
                 ELSE Popped(logs[l].verbosity)
     IN  /\ logs' = [logs EXCEPT ![l].verbosity = left]
         /\ Starts(t, [Some(l, "return") EXCEPT
                         !.stage = IF Information <= Top(left) THEN "stamp" ELSE "return"])
  /\ UNCHANGED <<defaults, clock, written>>

Create(t, l, id) ==
  /\ MayCall(t, "Create") /\ ~logs[l].exists /\ ~InUse(l)
  /\ Starts(t, [Some(l, "language") EXCEPT !.id = id])
  /\ UNCHANGED <<defaults, logs, clock, written>>

ReadLanguage(t) ==
  /\ At(t, "language")
  /\ Becomes(t, [Now(t) EXCEPT !.stage = "pointer", !.language = Top(defaultLogPrintFunctionLanguageName)])
  /\ UNCHANGED <<defaults, logs, clock, written>>

ReadPointer(t) ==
  /\ At(t, "pointer")
  /\ Becomes(t, [Now(t) EXCEPT !.stage = "construct", !.pointer = Top(defaultLogPrintFunctionPointer)])
  /\ UNCHANGED <<defaults, logs, clock, written>>

\* The rest of the constructor, and the first entry
Construct(t) ==
  /\ At(t, "construct")
  /\ LET l == Now(t).log
         level == Top(defaultLogVerbosity)
     IN  /\ logs' = [logs EXCEPT ![l] =
                      [NewObject(Now(t).language, Now(t).pointer, Now(t).id) EXCEPT !.verbosity = <<level>>]]
         /\ GoesTo(t, IF Information <= level THEN "stamp" ELSE "return")
         /\ written' = [written EXCEPT ![l] = NoEntry]
  /\ UNCHANGED <<defaults, clock>>

\* Nobody destroys an object that a call uses.
Destroy(t, l) ==
  /\ MayCall(t, "Destroy") /\ logs[l].exists /\ ~InUse(l)
  /\ Starts(t, Entering(Some(l, "delete"), l, Information, "delete"))
  /\ UNCHANGED <<defaults, logs, clock, written>>

\* Nothing of the object can be read any more.
Delete(t) ==
  /\ At(t, "delete")
  /\ LET l == Now(t).log
     IN  logs' = [logs EXCEPT ![l] = [NewObject("cpp", Global, @.id) EXCEPT
                    !.exists = FALSE, !.verbosity = <<MaximumLevel>>]]
  /\ GoesTo(t, "return")
  /\ UNCHANGED <<defaults, clock, written>>

Tick ==
  /\ clock < MaxTime /\ clock' = clock + 1
  /\ UNCHANGED <<defaults, logs, calls, written>>

Step(t) ==
  \/ Return(t)
  \/ PushLevel(t) \/ RefillVerbosity(t)
  \/ PushPointer(t) \/ PopPointer(t) \/ RefillLanguage(t) \/ RefillPointer(t)
  \/ GetTimeStamp(t) \/ FormatEntry(t) \/ PrintEntry(t) \/ Printed(t)
  \/ Rename(t) \/ Push(t) \/ ReadLanguage(t) \/ ReadPointer(t) \/ Construct(t) \/ Delete(t)

Begin(t) ==
  \/ \E level \in Levels : PushDefaultVerbosity(t, level)
  \/ PopDefaultVerbosity(t)
  \/ \E f \in Pointers : PushDefaultPrintFunction(t, f)
  \/ PopDefaultPrintFunction(t)
  \/ \E l \in Logs :
       \/ \E level \in Levels : LogEntry(t, l, level) \/ PushVerbosity(t, l, level)
       \/ \E id \in Ids : SetID(t, l, id) \/ Create(t, l, id)
       \/ PopVerbosity(t, l) \/ Destroy(t, l)

Next == Tick \/ \E t \in Threads : Begin(t) \/ Step(t)

Spec == Init /\ [][Next]_vars

(***************************************************************************)
(* What must hold.                                                         *)
(***************************************************************************)
\* The variables have their types.
TypeOK ==
  /\ defaultLogVerbosity \in Seq(Level)
  /\ defaultLogPrintFunctionLanguageName \in Seq(Language)
  /\ defaultLogPrintFunctionPointer \in Seq(Pointers)
  /\ logs \in [Logs -> Object]
  /\ calls \in [Threads -> Seq(Call)]
  /\ clock \in Time
  /\ written \in [Logs -> Entry]

\* A stack is empty at most while the routine that has popped it runs, so that top()
\* and pop() of std::stack are defined wherever they are called.
StacksAreNeverEmpty ==
  /\ defaultLogVerbosity = <<>> => \E t \in Threads : At(t, "refillVerbosity")
  /\ defaultLogPrintFunctionLanguageName = <<>> =>
       \E t \in Threads : At(t, "popPointer") \/ At(t, "refillLanguage")
  /\ defaultLogPrintFunctionPointer = <<>> =>
       \E t \in Threads : At(t, "refillLanguage") \/ At(t, "refillPointer")
  /\ \A l \in Logs : logs[l].exists => logs[l].verbosity # <<>>

\* An object calls its print function in the language the function was pushed with,
\* in which the pointer is cast back.
PrintersSpeakTheirLanguage ==
  \A l \in Logs : logs[l].exists => logs[l].language = Known(LanguageOf[logs[l].pointer])

\* Within one second the entries of an object are numbered from 0 without a gap, in
\* the order in which they reach the print function, also when the print function
\* writes entries itself.
EntriesAreNumbered ==
  [][\A t \in Threads :
       At(t, "print") /\ At(t, "printing")' =>
         LET last == written[Now(t).log]
             entry == Now(t).entry
         IN  IF entry.stamp = last.stamp THEN entry.sequence = last.sequence + 1
             ELSE entry.stamp > last.stamp /\ entry.sequence = 0]_vars

\* Threads that use one Model object, each with its ComputeArguments, do not change
\* the time stamp of the Model's Log at the same time.
\* (The code does not keep this: README, "What the documentation says and the code does not do".)
OneThreadStamps ==
  \A t, u \in Threads :
    t # u /\ At(t, "stamp") /\ At(u, "stamp") => Now(t).log # Now(u).log

\* The two stacks are one of pairs; a call that has changed one of them is between
\* two states of the pairs.
Pairs ==
  LET shorter == IF Len(defaultLogPrintFunctionLanguageName) < Len(defaultLogPrintFunctionPointer)
                 THEN Len(defaultLogPrintFunctionLanguageName) ELSE Len(defaultLogPrintFunctionPointer)
  IN  IF shorter = 0 THEN <<<<"cpp", Global>>>>
      ELSE [i \in 1..shorter |-> <<defaultLogPrintFunctionLanguageName[i], defaultLogPrintFunctionPointer[i]>>]

Abstract == INSTANCE AbstractLog WITH
  Printers <- {<<Known(LanguageOf[f]), f>> : f \in Pointers},
  GlobalPrinter <- <<"cpp", Global>>,
  NoPrinter <- NULL,
  defaults <- Pairs,
  printers <- [l \in Logs |-> IF logs[l].exists THEN <<logs[l].language, logs[l].pointer>> ELSE NULL]

\* The default print functions are one stack, of which every object gets the top.
ImplementsAbstractLog == Abstract!Spec

\* The variables have their types, top() and pop() are defined wherever they are
\* called, and no object pairs a print function with the language of another.
DefaultsAreSound == TypeOK /\ StacksAreNeverEmpty /\ PrintersSpeakTheirLanguage
=============================================================================
