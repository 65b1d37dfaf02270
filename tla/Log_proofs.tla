------------------------------ MODULE Log_proofs ------------------------------
(***************************************************************************)
(* What the Log keeps for one thread, for all print functions, languages,  *)
(* levels and depths: the stacks are never read when they are empty, a     *)
(* print function is called in its language, entries are numbered, and the *)
(* two stacks of print functions are one.                                  *)
(*                                                                         *)
(* The thread's calls form a stack of frames; all but the last are in the  *)
(* print function, which is where the Log may be called again.  What a     *)
(* frame holds about the defaults is true of the last frame only, and what *)
(* it holds about its object is kept by the rule that nobody destroys an   *)
(* object that a call uses.                                                *)
(***************************************************************************)
EXTENDS Log, SequenceTheorems, TLAPS

\* Several threads race in the stacks.
OneThread == \A t, u \in Threads : t = u

languages == defaultLogPrintFunctionLanguageName
pointers == defaultLogPrintFunctionPointer

-----------------------------------------------------------------------------
(* The inductive invariant. *)

BetweenStacks == {"pushPointer", "popPointer", "refillLanguage", "refillPointer"}

\* Where the defaults are in the middle of a routine, it is the last frame's.
DefaultsOf(t) ==
  /\ At(t, "pushPointer") =>
       /\ Len(languages) = Len(pointers) + 1 /\ pointers # <<>>
       /\ Top(languages) = Known(LanguageOf[Now(t).pointer])
  /\ At(t, "popPointer") => Len(languages) + 1 = Len(pointers)
  /\ At(t, "refillLanguage") => Len(languages) = Len(pointers)
  /\ At(t, "refillPointer") => languages = <<"cpp">> /\ pointers = <<>>
  /\ At(t, "pointer") => Now(t).language = Top(languages)
  /\ At(t, "construct") => Now(t).language = Top(languages) /\ Now(t).pointer = Top(pointers)

\* The two stacks are one of pairs.
DefaultsInv ==
  /\ \A i \in 1..Len(pointers) : i <= Len(languages) => languages[i] = Known(LanguageOf[pointers[i]])
  /\ \A t \in Threads : DefaultsOf(t)
  /\ (\A t \in Threads : \A s \in BetweenStacks : ~At(t, s)) =>
       pointers # <<>> /\ Len(languages) = Len(pointers)
  /\ (\A t \in Threads : ~At(t, "refillVerbosity")) => defaultLogVerbosity # <<>>

ObjectsInv ==
  /\ \A l \in Logs : logs[l].verbosity # <<>>
  /\ PrintersSpeakTheirLanguage

OfObject == {"stamp", "format", "print", "printing", "rename", "push", "delete"}
BeforeObject == {"language", "pointer", "construct"}

FrameInv(s, i) ==
  /\ i < Len(s) => s[i].stage = "printing"
  /\ s[i].stage \in OfObject => logs[s[i].log].exists
  /\ s[i].stage \in BeforeObject => ~logs[s[i].log].exists
  /\ s[i].stage = "delete" => s[i].after = "delete"
  /\ s[i].after = "delete" => \A j \in 1..i - 1 : s[j].log # s[i].log

FramesInv == \A t \in Threads : \A i \in 1..Len(calls[t]) : FrameInv(calls[t], i)

\* The entry that the last frame is about to print, and the one printed before.
Follows(stamp, sequence, last) ==
  IF stamp = last.stamp THEN sequence = last.sequence + 1 ELSE stamp > last.stamp /\ sequence = 0

NumbersInv ==
  /\ \A l \in Logs : written[l].stamp <= clock /\ logs[l].latestTimeStamp <= clock
  /\ \A l \in Logs : logs[l].exists =>
       \/ \E t \in Threads :
            /\ At(t, "format") \/ At(t, "print")
            /\ Now(t).log = l /\ Now(t).entry.stamp = logs[l].latestTimeStamp
            /\ At(t, "print") => Now(t).entry.sequence = logs[l].sequence
            /\ Follows(logs[l].latestTimeStamp, logs[l].sequence, written[l])
       \/ /\ \A t \in Threads : At(t, "format") \/ At(t, "print") => Now(t).log # l
          /\ logs[l].latestTimeStamp = written[l].stamp /\ logs[l].sequence = written[l].sequence

Inv == TypeOK /\ DefaultsInv /\ ObjectsInv /\ FramesInv /\ NumbersInv

-----------------------------------------------------------------------------
(* Stacks. *)

LEMMA PushedStack ==
  ASSUME NEW S, NEW s \in Seq(S), NEW e \in S
  PROVE  LET r == Append(s, e)
         IN  /\ r \in Seq(S) /\ r # <<>> /\ Len(r) = Len(s) + 1
             /\ \A i \in 1..Len(s) : r[i] = s[i]
             /\ r[Len(r)] = e /\ Top(r) = e
  BY DEF Top

LEMMA PoppedStack ==
  ASSUME NEW S, NEW s \in Seq(S), s # <<>>
  PROVE  LET r == Popped(s)
         IN  /\ r \in Seq(S) /\ Len(r) = Len(s) - 1
             /\ \A i \in 1..Len(r) : r[i] = s[i]
             /\ Len(s) = 1 <=> r = <<>>
<1>1. Len(s) \in Nat /\ Len(s) > 0
  BY EmptySeq, LenProperties
<1>2. /\ Popped(s) \in Seq(S) /\ Len(Popped(s)) = Len(s) - 1
      /\ \A i \in 1..Len(s) - 1 : Popped(s)[i] = s[i]
  <2> DEFINE n == Len(s) - 1
  <2>1. n \in Nat /\ \A i \in 1..n : s[i] \in S
    BY <1>1, ElementOfSeq
  <2> HIDE DEF n
  <2>2. /\ SubSeq(s, 1, n) \in Seq(S)
        /\ Len(SubSeq(s, 1, n)) = IF 1 <= n THEN n - 1 + 1 ELSE 0
        /\ \A i \in 1..n - 1 + 1 : SubSeq(s, 1, n)[i] = s[1 + i - 1]
    BY <2>1, SubSeqProperties
  <2>3. n - 1 + 1 = n /\ \A i \in 1..n : 1 + i - 1 = i
    BY <2>1
  <2>4. Len(SubSeq(s, 1, n)) = n /\ \A i \in 1..n : SubSeq(s, 1, n)[i] = s[i]
    BY <2>1, <2>2, <2>3
  <2> QED BY <2>2, <2>4 DEF n, Popped
<1> QED BY <1>1, <1>2, EmptySeq

LEMMA TopOfStack ==
  ASSUME NEW S, NEW s \in Seq(S), s # <<>>
  PROVE  Top(s) \in S /\ Len(s) \in Nat /\ Len(s) > 0
<1>1. Len(s) \in Nat /\ Len(s) > 0
  BY EmptySeq, LenProperties
<1> QED BY <1>1, ElementOfSeq DEF Top

LEMMA ReplacedTop ==
  ASSUME NEW S, NEW s \in Seq(S), s # <<>>, NEW e \in S
  PROVE  LET r == Append(Popped(s), e)
         IN  /\ r \in Seq(S) /\ r # <<>> /\ Len(r) = Len(s)
             /\ \A i \in 1..Len(s) - 1 : r[i] = s[i]
             /\ r[Len(s)] = e /\ Top(r) = e
<1> DEFINE p == Popped(s)
<1>1. p \in Seq(S) /\ Len(p) = Len(s) - 1 /\ \A i \in 1..Len(p) : p[i] = s[i]
  BY PoppedStack
<1>2. Len(s) \in Nat /\ Len(s) > 0
  BY TopOfStack
<1> HIDE DEF p
<1>3. QED
  <2>1. LET r == Append(p, e)
        IN  /\ r \in Seq(S) /\ r # <<>> /\ Len(r) = Len(p) + 1
            /\ \A i \in 1..Len(p) : r[i] = p[i]
            /\ r[Len(r)] = e /\ Top(r) = e
    BY <1>1, PushedStack
  <2> QED BY <1>1, <1>2, <2>1 DEF p

-----------------------------------------------------------------------------
(* Frames and objects. *)

LEMMA ConstantTypes ==
  /\ \A f \in Pointers : Known(LanguageOf[f]) \in Language
  /\ Known(LanguageOf[Global]) = "cpp" /\ Global \in Pointers
  /\ \A i \in Ids : Sanitized[i] \in Ids
  /\ MaximumLevel \in Level /\ Silent \in Level /\ Information \in Level
BY LogAssumption DEF Known, Language, Level, Silent, Information

LEMMA FrameFields ==
  ASSUME NEW c \in Call
  PROVE  /\ c.stage \in Stage /\ c.after \in After /\ c.log \in Logs /\ c.level \in Level
         /\ c.id \in Ids /\ c.language \in Language /\ c.pointer \in Pointers /\ c.entry \in Entry
         /\ c.entry.stamp \in Time \cup {NoTime} /\ c.entry.sequence \in Nat
BY DEF Call, Entry

LEMMA StageOfFrame ==
  ASSUME NEW c \in Call, NEW st \in Stage
  PROVE  LET d == [c EXCEPT !.stage = st]
         IN  /\ d \in Call /\ d.stage = st /\ d.after = c.after /\ d.log = c.log
             /\ d.level = c.level /\ d.id = c.id /\ d.language = c.language
             /\ d.pointer = c.pointer /\ d.entry = c.entry
BY DEF Call

LEMMA EntryTypes ==
  /\ NoEntry \in Entry /\ NoEntry.stamp = NoTime /\ NoEntry.sequence = 0
  /\ \A e \in Entry, s \in Time :
       LET n == [e EXCEPT !.stamp = s] IN n \in Entry /\ n.stamp = s /\ n.sequence = e.sequence
  /\ \A e \in Entry, n \in Nat :
       LET m == [e EXCEPT !.sequence = n] IN m \in Entry /\ m.stamp = e.stamp /\ m.sequence = n
BY DEF Entry, NoEntry, NoTime

LEMMA FrameOfSome ==
  ASSUME NEW l \in Logs, NEW st \in Stage, Ids # {}
  PROVE  LET c == Some(l, st)
         IN  /\ c \in Call /\ c.stage = st /\ c.after = "return" /\ c.log = l /\ c.level = Silent
             /\ c.language = "cpp" /\ c.pointer = Global /\ c.entry = NoEntry
BY EntryTypes, ConstantTypes, LogAssumption DEF Some, Call, After, Language

LEMMA ObjectFields ==
  ASSUME NEW o \in Object
  PROVE  /\ o.exists \in BOOLEAN /\ o.verbosity \in Seq(Level) /\ o.id \in Ids
         /\ o.language \in Language /\ o.pointer \in Pointers
         /\ o.latestTimeStamp \in Time \cup {NoTime} /\ o.sequence \in Nat
BY DEF Object

\* The object that a constructor makes, and one that Init or Delete makes
Constructed(language, pointer, id, level) ==
  [NewObject(language, pointer, id) EXCEPT !.verbosity = <<level>>]
Prepared(id, exists) ==
  [NewObject("cpp", Global, id) EXCEPT !.exists = exists, !.verbosity = <<MaximumLevel>>]

LEMMA ConstructedObject ==
  ASSUME NEW language \in Language, NEW pointer \in Pointers, NEW id \in Ids, NEW level \in Level
  PROVE  LET o == Constructed(language, pointer, id, level)
         IN  /\ o \in Object /\ o.exists /\ o.verbosity # <<>>
             /\ o.language = language /\ o.pointer = pointer
             /\ o.latestTimeStamp = NoTime /\ o.sequence = 0
<1>1. <<level>> \in Seq(Level) /\ <<level>> # <<>>
  OBVIOUS
<1> QED BY <1>1 DEF Constructed, NewObject, Object

LEMMA PreparedObject ==
  ASSUME NEW id \in Ids, NEW exists \in BOOLEAN
  PROVE  LET o == Prepared(id, exists)
         IN  /\ o \in Object /\ (o.exists <=> exists) /\ o.verbosity # <<>>
             /\ o.language = "cpp" /\ o.pointer = Global
             /\ o.latestTimeStamp = NoTime /\ o.sequence = 0
<1>1. <<MaximumLevel>> \in Seq(Level) /\ <<MaximumLevel>> # <<>> /\ "cpp" \in Language
  BY ConstantTypes DEF Language
<1> QED BY <1>1, ConstantTypes DEF Prepared, NewObject, Object

-----------------------------------------------------------------------------
(* What the last frame is before and after a step. *)

LEMMA CallStarts ==
  ASSUME TypeOK, NEW t \in Threads, NEW name, MayCall(t, name), NEW call \in Call, Starts(t, call)
  PROVE  /\ calls' \in [Threads -> Seq(Call)]
         /\ Running(t)' /\ Now(t)' = call /\ \A st : At(t, st)' <=> call.stage = st
         /\ \A st : At(t, st) => st = "printing"
         /\ Len(calls[t]) \in Nat /\ Len(calls'[t]) = Len(calls[t]) + 1
         /\ calls'[t][Len(calls[t]) + 1] = call
         /\ \A i \in 1..Len(calls[t]) : calls'[t][i] = calls[t][i] /\ calls[t][i] \in Call
         /\ Running(t) => calls[t][Len(calls[t])].stage = "printing"
<1>1. calls[t] \in Seq(Call) /\ calls'[t] = Append(calls[t], call)
  BY DEF TypeOK, Starts
<1> DEFINE r == calls'[t]
<1>2. /\ r \in Seq(Call) /\ r # <<>> /\ Len(r) = Len(calls[t]) + 1
      /\ \A i \in 1..Len(calls[t]) : r[i] = calls[t][i]
      /\ r[Len(r)] = call /\ Top(r) = call
  BY <1>1, PushedStack
<1>3. calls' \in [Threads -> Seq(Call)]
  BY <1>2 DEF TypeOK, Starts
<1>4. Running(t)' /\ Now(t)' = call /\ \A st : At(t, st)' <=> call.stage = st
  BY <1>2 DEF Running, Now, At
<1>5. \A st : At(t, st) => st = "printing"
  BY DEF MayCall, At
<1>6. Running(t) => calls[t][Len(calls[t])].stage = "printing"
  BY DEF MayCall, At, Running, Now, Top
<1>7. Len(calls[t]) \in Nat /\ \A i \in 1..Len(calls[t]) : calls[t][i] \in Call
  BY <1>1, LenProperties, ElementOfSeq
<1> QED BY <1>2, <1>3, <1>4, <1>5, <1>6, <1>7

LEMMA CallGoesOn ==
  ASSUME TypeOK, NEW t \in Threads, Running(t), NEW call \in Call, Becomes(t, call)
  PROVE  /\ calls' \in [Threads -> Seq(Call)]
         /\ Running(t)' /\ Now(t)' = call /\ \A st : At(t, st)' <=> call.stage = st
         /\ Len(calls[t]) \in Nat /\ Len(calls[t]) > 0 /\ Len(calls'[t]) = Len(calls[t])
         /\ calls'[t][Len(calls[t])] = call
         /\ Now(t) \in Call /\ Now(t) = calls[t][Len(calls[t])]
         /\ \A i \in 1..Len(calls[t]) - 1 : calls'[t][i] = calls[t][i]
         /\ \A i \in 1..Len(calls[t]) : calls[t][i] \in Call
<1>1. calls[t] \in Seq(Call) /\ calls[t] # <<>> /\ calls'[t] = Append(Popped(calls[t]), call)
  BY DEF TypeOK, Becomes, Running
<1> DEFINE r == calls'[t]
<1>2. /\ r \in Seq(Call) /\ r # <<>> /\ Len(r) = Len(calls[t])
      /\ \A i \in 1..Len(calls[t]) - 1 : r[i] = calls[t][i]
      /\ r[Len(calls[t])] = call /\ Top(r) = call
  BY <1>1, ReplacedTop, SMTT(30)
<1>3. calls' \in [Threads -> Seq(Call)]
  BY <1>2 DEF TypeOK, Becomes
<1>4. Running(t)' /\ Now(t)' = call /\ \A st : At(t, st)' <=> call.stage = st
  BY <1>2 DEF Running, Now, At
<1>5. Top(calls[t]) \in Call /\ Len(calls[t]) \in Nat /\ Len(calls[t]) > 0
  BY <1>1, TopOfStack
<1>6. Now(t) \in Call /\ Now(t) = calls[t][Len(calls[t])]
  BY <1>5 DEF Now, Top
<1>7. \A i \in 1..Len(calls[t]) : calls[t][i] \in Call
  BY <1>1, ElementOfSeq
<1> QED BY <1>2, <1>3, <1>4, <1>5, <1>6, <1>7

LEMMA LastFrame ==
  ASSUME TypeOK, FramesInv, NEW t \in Threads, Running(t)
  PROVE  /\ Now(t) \in Call
         /\ Now(t).stage \in OfObject => logs[Now(t).log].exists
         /\ Now(t).stage \in BeforeObject => ~logs[Now(t).log].exists
         /\ Now(t).stage = "delete" => Now(t).after = "delete"
<1>1. calls[t] \in Seq(Call) /\ calls[t] # <<>>
  BY DEF TypeOK, Running
<1>2. Top(calls[t]) \in Call /\ Len(calls[t]) \in 1..Len(calls[t])
  BY <1>1, TopOfStack
<1>3. FrameInv(calls[t], Len(calls[t]))
  BY <1>2 DEF FramesInv
<1> QED BY <1>2, <1>3 DEF FrameInv, Now, Top

-----------------------------------------------------------------------------
(* What a step keeps of the frames. *)

LEMMA FramesOfACall ==
  ASSUME OneThread, TypeOK, FramesInv, NEW t \in Threads, NEW name, MayCall(t, name),
         NEW call \in Call, Starts(t, call),
         \A l \in Logs : logs'[l].exists = logs[l].exists,
         call.stage \in OfObject => logs[call.log].exists,
         call.stage \in BeforeObject => ~logs[call.log].exists,
         call.stage = "delete" => call.after = "delete",
         call.after = "delete" => ~InUse(call.log)
  PROVE  FramesInv'
<1> DEFINE s == calls[t]  r == calls'[t]  n == Len(calls[t])
<1>1. /\ n \in Nat /\ Len(r) = n + 1 /\ r[n + 1] = call
      /\ \A i \in 1..n : r[i] = s[i] /\ s[i] \in Call
  BY CallStarts
<1>2. n > 0 => s[n].stage = "printing"
  <2>1. n > 0 => Running(t)
    BY EmptySeq DEF Running, TypeOK
  <2> QED BY <2>1, CallStarts
<1>3. SUFFICES ASSUME NEW i \in 1..Len(r) PROVE FrameInv(calls[t], i)'
  BY DEF FramesInv, OneThread
<1>4. CASE i \in 1..n
  <2>1. FrameInv(s, i)
    BY <1>4 DEF FramesInv
  <2>2. r[i] = s[i] /\ s[i].log \in Logs /\ \A j \in 1..i - 1 : r[j] = s[j]
    BY <1>1, <1>4, FrameFields, SMTT(30)
  <2>3. s[i].stage = "printing" \/ i < n
    BY <1>1, <1>2, <1>4
  <2>4. s[i].stage = "printing"
    BY <2>1, <2>3 DEF FrameInv
  <2> QED BY <2>1, <2>2, <2>4 DEF FrameInv
<1>5. CASE i = n + 1
  <2>1. r[i] = call /\ call.log \in Logs /\ \A j \in 1..i - 1 : r[j] = s[j] /\ j \in DOMAIN calls[t]
    <3>1. DOMAIN calls[t] = 1..n
      BY LenProperties DEF TypeOK
    <3> QED BY <1>1, <1>5, <3>1, FrameFields
  <2>2. call.after = "delete" => \A j \in 1..i - 1 : r[j].log # call.log
    BY <2>1 DEF InUse
  <2> QED BY <1>1, <1>5, <2>1, <2>2 DEF FrameInv
<1> QED BY <1>1, <1>4, <1>5

LEMMA FramesOfOneCall ==
  ASSUME OneThread, TypeOK, FramesInv, NEW t \in Threads, Running(t),
         NEW call \in Call, Becomes(t, call), call.log = Now(t).log,
         \A l \in Logs : logs'[l].exists # logs[l].exists =>
           l = Now(t).log /\ (Now(t).stage = "delete" \/ ~logs[l].exists),
         call.stage \in OfObject => logs'[call.log].exists,
         call.stage \in BeforeObject => ~logs'[call.log].exists,
         call.stage = "delete" => call.after = "delete",
         call.after = "delete" => Now(t).after = "delete"
  PROVE  FramesInv'
<1> DEFINE s == calls[t]  r == calls'[t]  n == Len(calls[t])
<1>1. /\ n \in Nat /\ n > 0 /\ Len(r) = n /\ r[n] = call /\ Now(t) = s[n] /\ Now(t) \in Call
      /\ \A i \in 1..n - 1 : r[i] = s[i]
      /\ \A i \in 1..n : s[i] \in Call
  BY CallGoesOn
<1>2. SUFFICES ASSUME NEW i \in 1..n PROVE FrameInv(calls[t], i)'
  BY <1>1 DEF FramesInv, OneThread
<1>3. FrameInv(s, n)
  BY <1>1 DEF FramesInv
<1>4. CASE i < n
  <2>1. FrameInv(s, i) /\ s[i].stage = "printing"
    BY <1>4 DEF FramesInv, FrameInv
  <2>2. r[i] = s[i] /\ s[i].log \in Logs /\ \A j \in 1..i - 1 : r[j] = s[j]
    BY <1>1, <1>4, FrameFields
  <2>3. logs[s[i].log].exists
    BY <2>1 DEF FrameInv, OfObject
  <2>4. Now(t).stage = "delete" => s[i].log # Now(t).log
    BY <1>1, <1>3, <1>4 DEF FrameInv
  <2>5. logs'[s[i].log].exists
    BY <2>2, <2>3, <2>4
  <2> QED BY <2>1, <2>2, <2>5 DEF FrameInv, BeforeObject, OfObject
<1>5. CASE i = n
  <2>1. \A j \in 1..i - 1 : r[j] = s[j]
    BY <1>1, <1>5
  <2> QED BY <1>1, <1>3, <1>5, <2>1 DEF FrameInv
<1> QED BY <1>1, <1>4, <1>5

\* The defaults are not in the middle of a routine.
Outside(t) == \A st \in BetweenStacks \cup {"refillVerbosity", "pointer", "construct"} : ~At(t, st)

LEMMA DefaultsKept ==
  ASSUME OneThread, DefaultsInv, NEW t \in Threads, UNCHANGED defaults, Outside(t), Outside(t)'
  PROVE  DefaultsInv'
BY DEF OneThread, DefaultsInv, DefaultsOf, Outside, BetweenStacks, defaults, languages, pointers

\* No entry is between its time stamp and the print function.
Quiet(t) == ~At(t, "format") /\ ~At(t, "print")

LEMMA QuietNumbers ==
  ASSUME OneThread, NEW t \in Threads, Quiet(t)
  PROVE  NumbersInv <=>
           \A l \in Logs :
             /\ written[l].stamp <= clock /\ logs[l].latestTimeStamp <= clock
             /\ logs[l].exists =>
                  logs[l].latestTimeStamp = written[l].stamp /\ logs[l].sequence = written[l].sequence
BY DEF OneThread, Quiet, NumbersInv

LEMMA QuietNumbersNext ==
  ASSUME OneThread, NEW t \in Threads, Quiet(t)'
  PROVE  NumbersInv' <=>
           \A l \in Logs :
             /\ written'[l].stamp <= clock' /\ logs'[l].latestTimeStamp <= clock'
             /\ logs'[l].exists =>
                  logs'[l].latestTimeStamp = written'[l].stamp /\ logs'[l].sequence = written'[l].sequence
BY DEF OneThread, Quiet, NumbersInv

LEMMA NumbersKept ==
  ASSUME OneThread, NumbersInv, NEW t \in Threads, Quiet(t), Quiet(t)', UNCHANGED <<clock, written>>,
         \A l \in Logs : /\ logs'[l].exists => logs[l].exists
                         /\ logs'[l].latestTimeStamp = logs[l].latestTimeStamp
                         /\ logs'[l].sequence = logs[l].sequence
  PROVE  NumbersInv'
BY QuietNumbers, QuietNumbersNext

-----------------------------------------------------------------------------
(* The invariant is inductive. *)

\* A stage of which no part of the invariant but the frames' says anything
Plain(st) == st \in Stage \ (BetweenStacks \cup {"refillVerbosity", "pointer", "construct", "format", "print"})

LEMMA PlainCall ==
  ASSUME OneThread, Inv, NEW t \in Threads, NEW name, MayCall(t, name),
         NEW call \in Call, Starts(t, call), UNCHANGED <<defaults, logs, clock, written>>,
         Plain(call.stage),
         call.stage \in OfObject => logs[call.log].exists,
         call.stage \in BeforeObject => ~logs[call.log].exists,
         call.stage = "delete" => call.after = "delete",
         call.after = "delete" => ~InUse(call.log)
  PROVE  Inv'
<1> USE DEF Inv
<1>1. /\ calls' \in [Threads -> Seq(Call)]
      /\ \A st : At(t, st)' <=> call.stage = st
      /\ \A st : At(t, st) => st = "printing"
  BY CallStarts
<1>2. Outside(t) /\ Outside(t)' /\ Quiet(t) /\ Quiet(t)'
  BY <1>1 DEF Outside, Quiet, Plain, BetweenStacks
<1>3. TypeOK' /\ ObjectsInv'
  BY <1>1 DEF TypeOK, ObjectsInv, PrintersSpeakTheirLanguage, defaults
<1>4. DefaultsInv'
  BY <1>2, DefaultsKept
<1>5. FramesInv'
  BY FramesOfACall
<1>6. NumbersInv'
  BY <1>2, NumbersKept
<1> QED BY <1>3, <1>4, <1>5, <1>6

LEMMA PlainStep ==
  ASSUME OneThread, Inv, NEW t \in Threads, Running(t),
         NEW call \in Call, Becomes(t, call), UNCHANGED <<defaults, logs, clock, written>>,
         Plain(Now(t).stage), Plain(call.stage), call.log = Now(t).log,
         call.stage \in OfObject => logs[call.log].exists,
         call.stage \in BeforeObject => ~logs[call.log].exists,
         call.stage = "delete" => call.after = "delete",
         call.after = "delete" => Now(t).after = "delete"
  PROVE  Inv'
<1> USE DEF Inv
<1>1. calls' \in [Threads -> Seq(Call)] /\ \A st : At(t, st)' <=> call.stage = st
  BY CallGoesOn
<1>2. Outside(t) /\ Outside(t)' /\ Quiet(t) /\ Quiet(t)'
  BY <1>1 DEF Outside, Quiet, Plain, At, BetweenStacks
<1>3. TypeOK' /\ ObjectsInv'
  BY <1>1 DEF TypeOK, ObjectsInv, PrintersSpeakTheirLanguage, defaults
<1>4. DefaultsInv'
  BY <1>2, DefaultsKept
<1>5. FramesInv'
  BY FramesOfOneCall
<1>6. NumbersInv'
  BY <1>2, NumbersKept
<1> QED BY <1>3, <1>4, <1>5, <1>6

LEMMA ValidLevel ==
  ASSUME NEW level \in Levels, NEW stack \in Seq(Level), stack # <<>>
  PROVE  Valid(level, stack) \in Level
BY TopOfStack DEF Valid

LEMMA EnteringFrame ==
  ASSUME NEW c \in Call, NEW l \in Logs, NEW level, NEW after \in After
  PROVE  LET d == Entering(c, l, level, after)
         IN  /\ d \in Call /\ d.log = l /\ d.after = after /\ d.stage \in {"stamp", after}
             /\ d.stage = "stamp" <=> IsWritten(l, level)
             /\ d.id = c.id /\ d.level = c.level /\ d.pointer = c.pointer /\ d.language = c.language
<1> DEFINE st == IF IsWritten(l, level) THEN "stamp" ELSE after
<1>1. st \in Stage /\ st \in {"stamp", after} /\ (st = "stamp" <=> IsWritten(l, level))
  BY DEF Stage, After
<1> HIDE DEF st
<1>2. Entering(c, l, level, after) = [c EXCEPT !.log = l, !.after = after, !.stage = st]
  BY DEF Entering, st
<1> QED BY <1>1, <1>2 DEF Call

LEMMA IdsExist ==
  ASSUME Inv, NEW l \in Logs
  PROVE  Ids # {} /\ logs[l] \in Object
BY ObjectFields DEF Inv, TypeOK

LEMMA LogEntryStep ==
  ASSUME OneThread, Inv, NEW t \in Threads, NEW l \in Logs, NEW level \in Levels, LogEntry(t, l, level)
  PROVE  Inv'
<1> DEFINE v == Valid(level, logs[l].verbosity)
           call == Entering(Some(l, "return"), l, v, "return")
<1>1. Some(l, "return") \in Call /\ "return" \in After
  BY IdsExist, FrameOfSome DEF Stage, After
<1>2. call \in Call /\ call.log = l /\ call.after = "return" /\ call.stage \in {"stamp", "return"}
  BY <1>1, EnteringFrame
<1>3. logs[l].exists /\ Starts(t, call) /\ MayCall(t, "LogEntry")
  BY DEF LogEntry, MayWrite
<1> HIDE DEF call
<1>4. Plain(call.stage) /\ call.stage \notin BeforeObject /\ call.stage # "delete"
  BY <1>2 DEF Plain, Stage, After, BetweenStacks, BeforeObject
<1> QED BY <1>2, <1>3, <1>4, PlainCall DEF LogEntry

LEMMA SetIDStep ==
  ASSUME OneThread, Inv, NEW t \in Threads, NEW l \in Logs, NEW id \in Ids, SetID(t, l, id)
  PROVE  Inv'
<1> DEFINE some == [Some(l, "rename") EXCEPT !.id = Sanitized[id]]
           call == Entering(some, l, Information, "rename")
<1>1. Some(l, "rename") \in Call /\ "rename" \in After
  BY IdsExist, FrameOfSome DEF Stage, After
<1>2. some \in Call
  BY <1>1, ConstantTypes DEF Call
<1> HIDE DEF some
<1>3. call \in Call /\ call.log = l /\ call.after = "rename" /\ call.stage \in {"stamp", "rename"}
  BY <1>1, <1>2, EnteringFrame
<1>4. logs[l].exists /\ Starts(t, call) /\ MayCall(t, "SetID")
  BY DEF SetID, MayWrite, some
<1> HIDE DEF call
<1>5. Plain(call.stage) /\ call.stage \notin BeforeObject /\ call.stage # "delete"
  BY <1>3 DEF Plain, Stage, After, BetweenStacks, BeforeObject
<1> QED BY <1>3, <1>4, <1>5, PlainCall DEF SetID

LEMMA PushVerbosityStep ==
  ASSUME OneThread, Inv, NEW t \in Threads, NEW l \in Logs, NEW level \in Levels, PushVerbosity(t, l, level)
  PROVE  Inv'
<1> DEFINE v == Valid(level, logs[l].verbosity)
           some == [Some(l, "push") EXCEPT !.level = v]
           call == Entering(some, l, Information, "push")
<1>1. Some(l, "push") \in Call /\ "push" \in After
  BY IdsExist, FrameOfSome DEF Stage, After
<1>2. v \in Level
  BY IdsExist, ObjectFields, ValidLevel DEF Inv, ObjectsInv
<1> HIDE DEF v
<1>3. some \in Call
  BY <1>1, <1>2 DEF Call
<1> HIDE DEF some
<1>4. call \in Call /\ call.log = l /\ call.after = "push" /\ call.stage \in {"stamp", "push"}
  BY <1>1, <1>3, EnteringFrame
<1>5. logs[l].exists /\ Starts(t, call) /\ MayCall(t, "PushVerbosity")
  BY DEF PushVerbosity, MayWrite, some, v
<1> HIDE DEF call
<1>6. Plain(call.stage) /\ call.stage \notin BeforeObject /\ call.stage # "delete"
  BY <1>4 DEF Plain, Stage, After, BetweenStacks, BeforeObject
<1> QED BY <1>4, <1>5, <1>6, PlainCall DEF PushVerbosity

LEMMA CreateStep ==
  ASSUME OneThread, Inv, NEW t \in Threads, NEW l \in Logs, NEW id \in Ids, Create(t, l, id)
  PROVE  Inv'
<1> DEFINE call == [Some(l, "language") EXCEPT !.id = id]
<1>1. Some(l, "language") \in Call /\ Some(l, "language").log = l
      /\ Some(l, "language").after = "return" /\ Some(l, "language").stage = "language"
  BY IdsExist, FrameOfSome DEF Stage
<1>2. call \in Call /\ call.log = l /\ call.after = "return" /\ call.stage = "language"
  BY <1>1 DEF Call
<1>3. ~logs[l].exists /\ Starts(t, call) /\ MayCall(t, "Create")
  BY DEF Create
<1> HIDE DEF call
<1>4. Plain(call.stage) /\ call.stage \notin OfObject
  BY <1>2 DEF Plain, Stage, BetweenStacks, OfObject
<1> QED BY <1>2, <1>3, <1>4, PlainCall DEF Create

LEMMA DestroyStep ==
  ASSUME OneThread, Inv, NEW t \in Threads, NEW l \in Logs, Destroy(t, l)
  PROVE  Inv'
<1> DEFINE call == Entering(Some(l, "delete"), l, Information, "delete")
<1>1. Some(l, "delete") \in Call /\ "delete" \in After
  BY IdsExist, FrameOfSome DEF Stage, After
<1>2. call \in Call /\ call.log = l /\ call.after = "delete" /\ call.stage \in {"stamp", "delete"}
  BY <1>1, EnteringFrame
<1>3. logs[l].exists /\ ~InUse(l) /\ Starts(t, call) /\ MayCall(t, "Destroy")
  BY DEF Destroy
<1> HIDE DEF call
<1>4. Plain(call.stage) /\ call.stage \notin BeforeObject
  BY <1>2 DEF Plain, Stage, After, BetweenStacks, BeforeObject
<1> QED BY <1>2, <1>3, <1>4, PlainCall DEF Destroy

\* The stacks that no stage is about may be read.
LEMMA StacksAreFilled ==
  ASSUME OneThread, DefaultsInv, NEW t \in Threads
  PROVE  /\ ~At(t, "refillVerbosity") => defaultLogVerbosity # <<>>
         /\ (\A st \in BetweenStacks : ~At(t, st)) => pointers # <<>> /\ Len(languages) = Len(pointers)
BY DEF OneThread, DefaultsInv

LEMMA PushDefaultVerbosityStep ==
  ASSUME OneThread, Inv, NEW t \in Threads, NEW level \in Levels, PushDefaultVerbosity(t, level)
  PROVE  Inv'
<1>1. PICK l \in Logs :
        Starts(t, [Some(l, "pushVerbosity") EXCEPT !.level = Valid(level, defaultLogVerbosity)])
  BY DEF PushDefaultVerbosity
<1> DEFINE v == Valid(level, defaultLogVerbosity)
           call == [Some(l, "pushVerbosity") EXCEPT !.level = v]
<1>2. MayCall(t, "PushDefaultVerbosity") /\ ~At(t, "refillVerbosity")
  BY DEF PushDefaultVerbosity, MayCall, At
<1>3. v \in Level
  BY <1>2, StacksAreFilled, ValidLevel DEF Inv, TypeOK
<1>4. Starts(t, call)
  BY <1>1
<1> HIDE DEF v
<1>5. Some(l, "pushVerbosity") \in Call /\ Some(l, "pushVerbosity").after = "return"
      /\ Some(l, "pushVerbosity").stage = "pushVerbosity"
  BY IdsExist, FrameOfSome DEF Stage
<1>6. call \in Call /\ call.after = "return" /\ call.stage = "pushVerbosity"
  BY <1>3, <1>5 DEF Call
<1> HIDE DEF call
<1>7. Plain(call.stage) /\ call.stage \notin OfObject /\ call.stage \notin BeforeObject
  BY <1>6 DEF Plain, Stage, BetweenStacks, OfObject, BeforeObject
<1> QED BY <1>2, <1>4, <1>6, <1>7, PlainCall DEF PushDefaultVerbosity

LEMMA PopDefaultVerbosityStep ==
  ASSUME OneThread, Inv, NEW t \in Threads, PopDefaultVerbosity(t)
  PROVE  Inv'
<1> USE DEF Inv
<1>1. PICK l \in Logs : Starts(t, Some(l, "refillVerbosity"))
  BY DEF PopDefaultVerbosity
<1> DEFINE call == Some(l, "refillVerbosity")
<1>2. /\ defaultLogVerbosity' = Popped(defaultLogVerbosity) /\ MayCall(t, "PopDefaultVerbosity")
      /\ UNCHANGED <<languages, pointers, logs, clock, written>>
  BY DEF PopDefaultVerbosity, languages, pointers
<1>3. call \in Call /\ call.after = "return" /\ call.stage = "refillVerbosity"
  BY IdsExist, FrameOfSome DEF Stage
<1>4. Starts(t, call)
  BY <1>1
<1> HIDE DEF call
<1>5. /\ calls' \in [Threads -> Seq(Call)]
      /\ \A st : At(t, st)' <=> call.stage = st
      /\ \A st : At(t, st) => st = "printing"
  BY <1>2, <1>3, <1>4, CallStarts
<1>6. Popped(defaultLogVerbosity) \in Seq(Level)
  BY <1>5, StacksAreFilled, PoppedStack DEF TypeOK
<1>7. TypeOK' /\ ObjectsInv'
  BY <1>2, <1>5, <1>6 DEF TypeOK, ObjectsInv, PrintersSpeakTheirLanguage, languages, pointers
<1>8. DefaultsInv'
  <2>1. \A st \in BetweenStacks \cup {"pointer", "construct"} : ~At(t, st) /\ ~At(t, st)'
    BY <1>3, <1>5 DEF BetweenStacks
  <2>2. At(t, "refillVerbosity")'
    BY <1>3, <1>5
  <2> QED BY <1>2, <2>1, <2>2 DEF DefaultsInv, DefaultsOf, OneThread, BetweenStacks, languages, pointers
<1>9. FramesInv'
  BY <1>2, <1>3, <1>4, FramesOfACall DEF OfObject, BeforeObject
<1>10. NumbersInv'
  <2>1. Quiet(t) /\ Quiet(t)'
    BY <1>3, <1>5 DEF Quiet
  <2> QED BY <1>2, <2>1, NumbersKept
<1> QED BY <1>7, <1>8, <1>9, <1>10

LEMMA PushDefaultPrintFunctionStep ==
  ASSUME OneThread, Inv, NEW t \in Threads, NEW f \in Pointers, PushDefaultPrintFunction(t, f)
  PROVE  Inv'
<1> USE DEF Inv
<1>1. PICK l \in Logs : Starts(t, [Some(l, "pushPointer") EXCEPT !.pointer = f])
  BY DEF PushDefaultPrintFunction
<1> DEFINE call == [Some(l, "pushPointer") EXCEPT !.pointer = f]
<1>2. /\ languages' = Append(languages, Known(LanguageOf[f])) /\ MayCall(t, "PushDefaultPrintFunction")
      /\ UNCHANGED <<defaultLogVerbosity, pointers, logs, clock, written>>
  BY DEF PushDefaultPrintFunction, languages, pointers
<1>3. call \in Call /\ call.after = "return" /\ call.stage = "pushPointer" /\ call.pointer = f
  <2>1. Some(l, "pushPointer") \in Call /\ Some(l, "pushPointer").after = "return"
        /\ Some(l, "pushPointer").stage = "pushPointer"
    BY IdsExist, FrameOfSome DEF Stage
  <2> QED BY <2>1 DEF Call
<1>4. Starts(t, call)
  BY <1>1
<1> HIDE DEF call
<1>5. /\ calls' \in [Threads -> Seq(Call)]
      /\ Now(t)' = call
      /\ \A st : At(t, st)' <=> call.stage = st
      /\ \A st : At(t, st) => st = "printing"
  BY <1>2, <1>3, <1>4, CallStarts
<1>6. /\ languages \in Seq(Language) /\ pointers \in Seq(Pointers) /\ Known(LanguageOf[f]) \in Language
      /\ pointers # <<>> /\ Len(languages) = Len(pointers) /\ Len(languages) \in Nat
  BY <1>5, StacksAreFilled, ConstantTypes, LenProperties DEF BetweenStacks, TypeOK, languages, pointers
<1>7. /\ languages' \in Seq(Language) /\ Len(languages') = Len(languages) + 1
      /\ \A i \in 1..Len(languages) : languages'[i] = languages[i]
      /\ Top(languages') = Known(LanguageOf[f])
  BY <1>2, <1>6, PushedStack
<1>8. TypeOK' /\ ObjectsInv'
  BY <1>2, <1>5, <1>7 DEF TypeOK, ObjectsInv, PrintersSpeakTheirLanguage, languages, pointers
<1>9. DefaultsInv'
  <2>1. \A i \in 1..Len(pointers') : i <= Len(languages') => languages'[i] = Known(LanguageOf[pointers'[i]])
    BY <1>2, <1>6, <1>7 DEF DefaultsInv
  <2>2. At(t, "pushPointer")' /\ \A st : At(t, st)' => st = "pushPointer"
    BY <1>3, <1>5
  <2>3. DefaultsOf(t)'
    BY <1>2, <1>3, <1>5, <1>6, <1>7, <2>2 DEF DefaultsOf
  <2>4. (~At(t, "refillVerbosity"))' => defaultLogVerbosity' # <<>>
    BY <1>2, <1>5, StacksAreFilled
  <2> QED BY <2>1, <2>2, <2>3, <2>4 DEF DefaultsInv, OneThread, BetweenStacks
<1>10. FramesInv'
  BY <1>2, <1>3, <1>4, FramesOfACall DEF OfObject, BeforeObject
<1>11. NumbersInv'
  <2>1. Quiet(t) /\ Quiet(t)'
    BY <1>3, <1>5 DEF Quiet
  <2> QED BY <1>2, <2>1, NumbersKept
<1> QED BY <1>8, <1>9, <1>10, <1>11

LEMMA PopDefaultPrintFunctionStep ==
  ASSUME OneThread, Inv, NEW t \in Threads, PopDefaultPrintFunction(t)
  PROVE  Inv'
<1> USE DEF Inv
<1>1. PICK l \in Logs : Starts(t, Some(l, "popPointer"))
  BY DEF PopDefaultPrintFunction
<1> DEFINE call == Some(l, "popPointer")
<1>2. /\ languages' = Popped(languages) /\ MayCall(t, "PopDefaultPrintFunction")
      /\ UNCHANGED <<defaultLogVerbosity, pointers, logs, clock, written>>
  BY DEF PopDefaultPrintFunction, languages, pointers
<1>3. call \in Call /\ call.after = "return" /\ call.stage = "popPointer"
  BY IdsExist, FrameOfSome DEF Stage
<1>4. Starts(t, call)
  BY <1>1
<1> HIDE DEF call
<1>5. /\ calls' \in [Threads -> Seq(Call)]
      /\ \A st : At(t, st)' <=> call.stage = st
      /\ \A st : At(t, st) => st = "printing"
  BY <1>2, <1>3, <1>4, CallStarts
<1>6. /\ languages \in Seq(Language) /\ pointers \in Seq(Pointers)
      /\ pointers # <<>> /\ Len(languages) = Len(pointers) /\ Len(languages) \in Nat /\ languages # <<>>
  BY <1>5, StacksAreFilled, LenProperties, EmptySeq DEF BetweenStacks, TypeOK, languages, pointers
<1>7. /\ languages' \in Seq(Language) /\ Len(languages') = Len(languages) - 1
      /\ \A i \in 1..Len(languages') : languages'[i] = languages[i]
  BY <1>2, <1>6, PoppedStack
<1>8. TypeOK' /\ ObjectsInv'
  BY <1>2, <1>5, <1>7 DEF TypeOK, ObjectsInv, PrintersSpeakTheirLanguage, languages, pointers
<1>9. DefaultsInv'
  <2>1. \A i \in 1..Len(pointers') : i <= Len(languages') => languages'[i] = Known(LanguageOf[pointers'[i]])
    BY <1>2, <1>6, <1>7 DEF DefaultsInv
  <2>2. At(t, "popPointer")' /\ \A st : At(t, st)' => st = "popPointer"
    BY <1>3, <1>5
  <2>3. DefaultsOf(t)'
    BY <1>2, <1>6, <1>7, <2>2 DEF DefaultsOf
  <2>4. (~At(t, "refillVerbosity"))' => defaultLogVerbosity' # <<>>
    BY <1>2, <1>5, StacksAreFilled
  <2> QED BY <2>1, <2>2, <2>3, <2>4 DEF DefaultsInv, OneThread, BetweenStacks
<1>10. FramesInv'
  BY <1>2, <1>3, <1>4, FramesOfACall DEF OfObject, BeforeObject
<1>11. NumbersInv'
  <2>1. Quiet(t) /\ Quiet(t)'
    BY <1>3, <1>5 DEF Quiet
  <2> QED BY <1>2, <2>1, NumbersKept
<1> QED BY <1>8, <1>9, <1>10, <1>11

LEMMA PopVerbosityStep ==
  ASSUME OneThread, Inv, NEW t \in Threads, NEW l \in Logs, PopVerbosity(t, l)
  PROVE  Inv'
<1> USE DEF Inv
<1> DEFINE left == IF Len(logs[l].verbosity) = 1 THEN <<Top(defaultLogVerbosity)>> ELSE Popped(logs[l].verbosity)
           st == IF Information <= Top(left) THEN "stamp" ELSE "return"
           call == [Some(l, "return") EXCEPT !.stage = st]
<1>1. /\ MayCall(t, "PopVerbosity") /\ logs[l].exists
      /\ logs' = [logs EXCEPT ![l].verbosity = left]
      /\ Starts(t, call)
      /\ UNCHANGED <<defaults, clock, written>>
  BY DEF PopVerbosity, MayWrite
<1>2. ~At(t, "refillVerbosity")
  BY <1>1 DEF MayCall, At
<1>3. logs[l] \in Object /\ Top(defaultLogVerbosity) \in Level /\ logs[l].verbosity \in Seq(Level)
  BY <1>2, IdsExist, StacksAreFilled, TopOfStack, ObjectFields DEF TypeOK
<1>4. left \in Seq(Level) /\ left # <<>>
  <2>1. logs[l].verbosity # <<>>
    BY DEF ObjectsInv
  <2>2. CASE Len(logs[l].verbosity) = 1
    <3>1. left = <<Top(defaultLogVerbosity)>>
      BY <2>2
    <3>2. \A x \in Level : <<x>> \in Seq(Level) /\ <<x>> # <<>>
      OBVIOUS
    <3> QED BY <1>3, <3>1, <3>2
  <2>3. CASE Len(logs[l].verbosity) # 1
    BY <1>3, <2>1, <2>3, PoppedStack
  <2> QED BY <2>2, <2>3
<1>5. st \in {"stamp", "return"} /\ st \in Stage
  BY DEF Stage, After
<1> HIDE DEF left, st
<1>6. call \in Call /\ call.stage = st /\ call.after = "return" /\ call.log = l
  <2>1. Some(l, "return") \in Call /\ Some(l, "return").after = "return" /\ Some(l, "return").log = l
    BY IdsExist, FrameOfSome DEF Stage, After
  <2> QED BY <1>5, <2>1, StageOfFrame
<1> HIDE DEF call
<1>7. /\ calls' \in [Threads -> Seq(Call)]
      /\ \A x : At(t, x)' <=> call.stage = x
      /\ \A x : At(t, x) => x = "printing"
  BY <1>1, <1>6, CallStarts
<1>8. /\ logs' \in [Logs -> Object]
      /\ \A m \in Logs :
           /\ logs'[m].exists = logs[m].exists /\ logs'[m].verbosity # <<>>
           /\ logs'[m].language = logs[m].language /\ logs'[m].pointer = logs[m].pointer
           /\ logs'[m].latestTimeStamp = logs[m].latestTimeStamp /\ logs'[m].sequence = logs[m].sequence
  BY <1>1, <1>3, <1>4 DEF TypeOK, Object, ObjectsInv
<1>9. Outside(t) /\ Outside(t)' /\ Quiet(t) /\ Quiet(t)'
  BY <1>5, <1>6, <1>7 DEF Outside, Quiet, BetweenStacks
<1>10. TypeOK' /\ ObjectsInv'
  BY <1>1, <1>7, <1>8 DEF TypeOK, ObjectsInv, PrintersSpeakTheirLanguage, defaults
<1>11. DefaultsInv'
  BY <1>1, <1>9, DefaultsKept
<1>12. FramesInv'
  <2>1. call.stage \notin BeforeObject /\ call.stage # "delete" /\ call.after # "delete"
    BY <1>5, <1>6 DEF BeforeObject
  <2> QED BY <1>1, <1>6, <1>8, <2>1, FramesOfACall
<1>13. NumbersInv'
  BY <1>1, <1>8, <1>9, NumbersKept
<1> QED BY <1>10, <1>11, <1>12, <1>13

LEMMA BeginStep ==
  ASSUME OneThread, Inv, NEW t \in Threads, Begin(t)
  PROVE  Inv'
BY PushDefaultVerbosityStep, PopDefaultVerbosityStep, PushDefaultPrintFunctionStep,
   PopDefaultPrintFunctionStep, LogEntryStep, PushVerbosityStep, SetIDStep, CreateStep,
   PopVerbosityStep, DestroyStep DEF Begin

\* The frame that is left, if there is one, is in the print function.
LEMMA ReturnStep ==
  ASSUME OneThread, Inv, NEW t \in Threads, Return(t)
  PROVE  Inv'
<1> USE DEF Inv
<1> DEFINE s == calls[t]  r == calls'[t]  n == Len(calls[t])
<1>1. /\ s \in Seq(Call) /\ s # <<>> /\ r = Popped(s) /\ UNCHANGED <<defaults, logs, clock, written>>
      /\ calls' = [calls EXCEPT ![t] = Popped(@)] /\ Now(t).stage = "return"
  BY DEF TypeOK, Return, At, Running
<1>2. /\ r \in Seq(Call) /\ Len(r) = n - 1 /\ n \in Nat /\ n > 0
      /\ \A i \in 1..n - 1 : r[i] = s[i] /\ r[i].stage = "printing"
  <2>1. /\ r \in Seq(Call) /\ Len(r) = n - 1 /\ n \in Nat /\ n > 0
        /\ \A i \in 1..Len(r) : r[i] = s[i]
    BY <1>1, PoppedStack, TopOfStack
  <2>2. \A i \in 1..n - 1 : s[i].stage = "printing"
    BY <2>1 DEF FramesInv, FrameInv
  <2> QED BY <2>1, <2>2
<1>3. \A st : At(t, st)' => st = "printing"
  <2>1. ASSUME r # <<>> PROVE Top(r).stage = "printing"
    <3>1. Len(r) > 0 /\ Len(r) \in Nat
      BY <1>2, <2>1, TopOfStack
    <3> QED BY <1>2, <3>1 DEF Top
  <2> QED BY <2>1 DEF At, Running, Now
<1>4. Outside(t) /\ Outside(t)' /\ Quiet(t) /\ Quiet(t)'
  BY <1>1, <1>3 DEF Outside, Quiet, BetweenStacks, At
<1>5. TypeOK' /\ ObjectsInv'
  BY <1>1, <1>2 DEF TypeOK, ObjectsInv, PrintersSpeakTheirLanguage, defaults
<1>6. DefaultsInv'
  BY <1>1, <1>4, DefaultsKept
<1>7. FramesInv'
  <2>1. SUFFICES ASSUME NEW i \in 1..n - 1 PROVE FrameInv(calls[t], i)'
    BY <1>2 DEF FramesInv, OneThread
  <2>2. FrameInv(s, i) /\ r[i] = s[i] /\ r[i].stage = "printing"
    BY <1>2 DEF FramesInv
  <2>3. \A j \in 1..i - 1 : r[j] = s[j]
    BY <1>2
  <2> QED BY <1>1, <1>2, <2>2, <2>3 DEF FrameInv
<1>8. NumbersInv'
  BY <1>1, <1>4, NumbersKept
<1> QED BY <1>5, <1>6, <1>7, <1>8

\* Stages of the defaults go on with frames of no object.
LEMMA FramesOfDefaults ==
  ASSUME OneThread, TypeOK, FramesInv, NEW t \in Threads, Running(t), NEW st \in Stage, GoesTo(t, st),
         UNCHANGED logs, st \notin OfObject, st \notin BeforeObject
  PROVE  FramesInv'
<1> DEFINE call == [Now(t) EXCEPT !.stage = st]
<1>1. Now(t) \in Call
  BY LastFrame
<1>2. call \in Call /\ call.stage = st /\ call.after = Now(t).after /\ call.log = Now(t).log /\ Becomes(t, call)
  BY <1>1, StageOfFrame DEF GoesTo
<1> HIDE DEF call
<1> QED BY <1>2, FramesOfOneCall DEF OfObject

\* What a frame is when it only changes its stage
LEMMA StageChanges ==
  ASSUME TypeOK, NEW t \in Threads, Running(t), NEW st \in Stage, GoesTo(t, st)
  PROVE  /\ calls' \in [Threads -> Seq(Call)]
         /\ \A x : At(t, x)' <=> x = st
         /\ \A x : At(t, x) => x = Now(t).stage
         /\ Now(t) \in Call
         /\ Now(t)' = [Now(t) EXCEPT !.stage = st]
<1> DEFINE call == [Now(t) EXCEPT !.stage = st]
<1>1. Now(t) \in Call
  BY TopOfStack DEF TypeOK, Running, Now
<1>2. call \in Call /\ call.stage = st /\ Becomes(t, call)
  BY <1>1, StageOfFrame DEF GoesTo
<1> HIDE DEF call
<1>3. /\ calls' \in [Threads -> Seq(Call)] /\ Now(t)' = call
      /\ \A x : At(t, x)' <=> call.stage = x
  BY <1>2, CallGoesOn
<1> QED BY <1>1, <1>2, <1>3 DEF At, call

LEMMA PushLevelStep ==
  ASSUME OneThread, Inv, NEW t \in Threads, PushLevel(t)
  PROVE  Inv'
<1> USE DEF Inv
<1>1. /\ Running(t) /\ Now(t).stage = "pushVerbosity" /\ GoesTo(t, "return") /\ "return" \in Stage
      /\ defaultLogVerbosity' = Append(defaultLogVerbosity, Now(t).level)
      /\ UNCHANGED <<languages, pointers, logs, clock, written>>
  BY DEF PushLevel, At, languages, pointers, Stage, After
<1>2. /\ calls' \in [Threads -> Seq(Call)] /\ Now(t) \in Call
      /\ \A x : At(t, x)' <=> x = "return"
      /\ \A x : At(t, x) => x = "pushVerbosity"
  BY <1>1, StageChanges
<1>3. defaultLogVerbosity' \in Seq(Level) /\ defaultLogVerbosity' # <<>>
  BY <1>1, <1>2, FrameFields, PushedStack DEF TypeOK
<1>4. TypeOK' /\ ObjectsInv'
  BY <1>1, <1>2, <1>3 DEF TypeOK, ObjectsInv, PrintersSpeakTheirLanguage, languages, pointers
<1>5. DefaultsInv'
  BY <1>1, <1>2, <1>3 DEF DefaultsInv, DefaultsOf, OneThread, BetweenStacks
<1>6. FramesInv'
  BY <1>1, FramesOfDefaults DEF OfObject, BeforeObject
<1>7. NumbersInv'
  <2>1. Quiet(t) /\ Quiet(t)'
    BY <1>2 DEF Quiet
  <2> QED BY <1>1, <2>1, NumbersKept
<1> QED BY <1>4, <1>5, <1>6, <1>7

LEMMA RefillVerbosityStep ==
  ASSUME OneThread, Inv, NEW t \in Threads, RefillVerbosity(t)
  PROVE  Inv'
<1> USE DEF Inv
<1>1. /\ Running(t) /\ Now(t).stage = "refillVerbosity" /\ GoesTo(t, "return") /\ "return" \in Stage
      /\ defaultLogVerbosity' = IF defaultLogVerbosity = <<>> THEN <<MaximumLevel>> ELSE defaultLogVerbosity
      /\ UNCHANGED <<languages, pointers, logs, clock, written>>
  BY DEF RefillVerbosity, At, languages, pointers, Stage, After
<1>2. /\ calls' \in [Threads -> Seq(Call)] /\ Now(t) \in Call
      /\ \A x : At(t, x)' <=> x = "return"
      /\ \A x : At(t, x) => x = "refillVerbosity"
  BY <1>1, StageChanges
<1>3. defaultLogVerbosity' \in Seq(Level) /\ defaultLogVerbosity' # <<>>
  <2>1. <<MaximumLevel>> \in Seq(Level) /\ <<MaximumLevel>> # <<>>
    BY ConstantTypes
  <2> QED BY <1>1, <2>1 DEF TypeOK
<1>4. TypeOK' /\ ObjectsInv'
  BY <1>1, <1>2, <1>3 DEF TypeOK, ObjectsInv, PrintersSpeakTheirLanguage, languages, pointers
<1>5. DefaultsInv'
  BY <1>1, <1>2, <1>3 DEF DefaultsInv, DefaultsOf, OneThread, BetweenStacks
<1>6. FramesInv'
  BY <1>1, FramesOfDefaults DEF OfObject, BeforeObject
<1>7. NumbersInv'
  <2>1. Quiet(t) /\ Quiet(t)'
    BY <1>2 DEF Quiet
  <2> QED BY <1>1, <2>1, NumbersKept
<1> QED BY <1>4, <1>5, <1>6, <1>7

LEMMA PushPointerStep ==
  ASSUME OneThread, Inv, NEW t \in Threads, PushPointer(t)
  PROVE  Inv'
<1> USE DEF Inv
<1>1. /\ Running(t) /\ Now(t).stage = "pushPointer" /\ GoesTo(t, "return") /\ "return" \in Stage
      /\ pointers' = Append(pointers, Now(t).pointer)
      /\ UNCHANGED <<defaultLogVerbosity, languages, logs, clock, written>>
  BY DEF PushPointer, At, languages, pointers, Stage, After
<1>2. /\ calls' \in [Threads -> Seq(Call)] /\ Now(t) \in Call
      /\ \A x : At(t, x)' <=> x = "return"
      /\ \A x : At(t, x) <=> x = "pushPointer"
  BY <1>1, StageChanges DEF At
<1>3. /\ Len(languages) = Len(pointers) + 1 /\ Top(languages) = Known(LanguageOf[Now(t).pointer])
      /\ pointers \in Seq(Pointers) /\ languages \in Seq(Language) /\ Len(pointers) \in Nat
  BY <1>2, LenProperties DEF DefaultsInv, DefaultsOf, TypeOK, languages, pointers
<1>4. /\ pointers' \in Seq(Pointers) /\ pointers' # <<>> /\ Len(pointers') = Len(pointers) + 1
      /\ \A i \in 1..Len(pointers) : pointers'[i] = pointers[i]
      /\ pointers'[Len(pointers) + 1] = Now(t).pointer
  BY <1>1, <1>2, <1>3, FrameFields, PushedStack
<1>5. TypeOK' /\ ObjectsInv'
  BY <1>1, <1>2, <1>4 DEF TypeOK, ObjectsInv, PrintersSpeakTheirLanguage, languages, pointers
<1>6. DefaultsInv'
  <2>1. \A i \in 1..Len(pointers') : i <= Len(languages') => languages'[i] = Known(LanguageOf[pointers'[i]])
    <3>1. languages[Len(pointers) + 1] = Known(LanguageOf[Now(t).pointer])
      BY <1>3 DEF Top
    <3>2. \A i \in 1..Len(pointers) : languages[i] = Known(LanguageOf[pointers[i]])
      BY <1>3 DEF DefaultsInv
    <3> QED BY <1>1, <1>3, <1>4, <3>1, <3>2
  <2>2. Len(languages') = Len(pointers')
    BY <1>1, <1>3, <1>4
  <2>3. defaultLogVerbosity' # <<>>
    BY <1>1, <1>2, StacksAreFilled
  <2> QED BY <1>2, <1>4, <2>1, <2>2, <2>3 DEF DefaultsInv, DefaultsOf, OneThread, BetweenStacks
<1>7. FramesInv'
  BY <1>1, FramesOfDefaults DEF OfObject, BeforeObject
<1>8. NumbersInv'
  <2>1. Quiet(t) /\ Quiet(t)'
    BY <1>2 DEF Quiet
  <2> QED BY <1>1, <2>1, NumbersKept
<1> QED BY <1>5, <1>6, <1>7, <1>8

LEMMA PopPointerStep ==
  ASSUME OneThread, Inv, NEW t \in Threads, PopPointer(t)
  PROVE  Inv'
<1> USE DEF Inv
<1>1. /\ Running(t) /\ Now(t).stage = "popPointer" /\ GoesTo(t, "refillLanguage") /\ "refillLanguage" \in Stage
      /\ pointers' = Popped(pointers)
      /\ UNCHANGED <<defaultLogVerbosity, languages, logs, clock, written>>
  BY DEF PopPointer, At, languages, pointers, Stage
<1>2. /\ calls' \in [Threads -> Seq(Call)] /\ Now(t) \in Call
      /\ \A x : At(t, x)' <=> x = "refillLanguage"
      /\ \A x : At(t, x) <=> x = "popPointer"
  BY <1>1, StageChanges DEF At
<1>3. /\ Len(languages) + 1 = Len(pointers) /\ Len(languages) \in Nat
      /\ pointers \in Seq(Pointers) /\ languages \in Seq(Language)
  BY <1>2, LenProperties DEF DefaultsInv, DefaultsOf, TypeOK, languages, pointers
<1>4. /\ pointers' \in Seq(Pointers) /\ Len(pointers') = Len(languages')
      /\ \A i \in 1..Len(languages) : pointers'[i] = pointers[i]
  <2>1. pointers # <<>>
    BY <1>3
  <2> QED BY <1>1, <1>3, <2>1, PoppedStack
<1>5. TypeOK' /\ ObjectsInv'
  BY <1>1, <1>2, <1>4 DEF TypeOK, ObjectsInv, PrintersSpeakTheirLanguage, languages, pointers
<1>6. DefaultsInv'
  <2>1. \A i \in 1..Len(pointers') : i <= Len(languages') => languages'[i] = Known(LanguageOf[pointers'[i]])
    BY <1>1, <1>3, <1>4, SMTT(30) DEF DefaultsInv
  <2>2. defaultLogVerbosity' # <<>>
    BY <1>1, <1>2, StacksAreFilled
  <2> QED BY <1>2, <1>4, <2>1, <2>2 DEF DefaultsInv, DefaultsOf, OneThread, BetweenStacks
<1>7. FramesInv'
  BY <1>1, FramesOfDefaults DEF OfObject, BeforeObject
<1>8. NumbersInv'
  <2>1. Quiet(t) /\ Quiet(t)'
    BY <1>2 DEF Quiet
  <2> QED BY <1>1, <2>1, NumbersKept
<1> QED BY <1>5, <1>6, <1>7, <1>8

LEMMA RefillLanguageStep ==
  ASSUME OneThread, Inv, NEW t \in Threads, RefillLanguage(t)
  PROVE  Inv'
<1> USE DEF Inv
<1> DEFINE next == IF languages = <<>> THEN "refillPointer" ELSE "return"
<1>1. /\ Running(t) /\ Now(t).stage = "refillLanguage" /\ GoesTo(t, next) /\ next \in Stage
      /\ languages' = IF languages = <<>> THEN <<"cpp">> ELSE languages
      /\ UNCHANGED <<defaultLogVerbosity, pointers, logs, clock, written>>
  BY DEF RefillLanguage, At, languages, pointers, Stage, After
<1>2. next \in {"refillPointer", "return"} /\ (next = "refillPointer" <=> languages = <<>>)
  OBVIOUS
<1> HIDE DEF next
<1>3. /\ calls' \in [Threads -> Seq(Call)] /\ Now(t) \in Call
      /\ \A x : At(t, x)' <=> x = next
      /\ \A x : At(t, x) <=> x = "refillLanguage"
  BY <1>1, StageChanges DEF At
<1>4. /\ Len(languages) = Len(pointers) /\ Len(languages) \in Nat
      /\ pointers \in Seq(Pointers) /\ languages \in Seq(Language)
  BY <1>3, LenProperties DEF DefaultsInv, DefaultsOf, TypeOK, languages, pointers
<1>5. languages' \in Seq(Language)
  <2>1. <<"cpp">> \in Seq(Language)
    BY DEF Language
  <2> QED BY <1>1, <1>4, <2>1
<1>6. TypeOK' /\ ObjectsInv'
  BY <1>1, <1>3, <1>5 DEF TypeOK, ObjectsInv, PrintersSpeakTheirLanguage, languages, pointers
<1>7. DefaultsInv'
  <2>1. defaultLogVerbosity' # <<>>
    BY <1>1, <1>3, StacksAreFilled
  <2>2. CASE languages = <<>>
    <3>1. languages' = <<"cpp">> /\ pointers' = <<>> /\ Len(pointers') = 0
      BY <1>1, <1>4, <2>2, EmptySeq
    <3>2. \A x : At(t, x)' <=> x = "refillPointer"
      BY <1>2, <1>3, <2>2
    <3> QED BY <2>1, <3>1, <3>2 DEF DefaultsInv, DefaultsOf, OneThread, BetweenStacks
  <2>3. CASE languages # <<>>
    <3>1. languages' = languages /\ pointers' = pointers /\ pointers # <<>>
      BY <1>1, <1>4, <2>3, EmptySeq
    <3>2. \A x : At(t, x)' <=> x = "return"
      BY <1>2, <1>3, <2>3
    <3> QED BY <1>4, <2>1, <3>1, <3>2 DEF DefaultsInv, DefaultsOf, OneThread, BetweenStacks
  <2> QED BY <2>2, <2>3
<1>8. FramesInv'
  BY <1>1, <1>2, FramesOfDefaults DEF OfObject, BeforeObject
<1>9. NumbersInv'
  <2>1. Quiet(t) /\ Quiet(t)'
    BY <1>2, <1>3 DEF Quiet
  <2> QED BY <1>1, <2>1, NumbersKept
<1> QED BY <1>6, <1>7, <1>8, <1>9

LEMMA RefillPointerStep ==
  ASSUME OneThread, Inv, NEW t \in Threads, RefillPointer(t)
  PROVE  Inv'
<1> USE DEF Inv
<1>1. /\ Running(t) /\ Now(t).stage = "refillPointer" /\ GoesTo(t, "return") /\ "return" \in Stage
      /\ pointers' = Append(pointers, Global)
      /\ UNCHANGED <<defaultLogVerbosity, languages, logs, clock, written>>
  BY DEF RefillPointer, At, languages, pointers, Stage, After
<1>2. /\ calls' \in [Threads -> Seq(Call)] /\ Now(t) \in Call
      /\ \A x : At(t, x)' <=> x = "return"
      /\ \A x : At(t, x) <=> x = "refillPointer"
  BY <1>1, StageChanges DEF At
<1>3. languages' = <<"cpp">> /\ pointers' = <<Global>>
  <2>1. languages = <<"cpp">> /\ pointers = <<>>
    BY <1>2 DEF DefaultsInv, DefaultsOf
  <2>2. Append(<<>>, Global) = <<Global>>
    OBVIOUS
  <2> QED BY <1>1, <2>1, <2>2
<1>4. pointers' \in Seq(Pointers) /\ Known(LanguageOf[Global]) = "cpp"
  BY <1>3, ConstantTypes
<1>5. TypeOK' /\ ObjectsInv'
  BY <1>1, <1>2, <1>4 DEF TypeOK, ObjectsInv, PrintersSpeakTheirLanguage, languages, pointers
<1>6. DefaultsInv'
  <2>1. Len(pointers') = 1 /\ Len(languages') = 1 /\ pointers'[1] = Global /\ languages'[1] = "cpp"
        /\ pointers' # <<>>
    BY <1>3
  <2>2. defaultLogVerbosity' # <<>>
    BY <1>1, <1>2, StacksAreFilled
  <2> QED BY <1>2, <1>4, <2>1, <2>2 DEF DefaultsInv, DefaultsOf, OneThread, BetweenStacks
<1>7. FramesInv'
  BY <1>1, FramesOfDefaults DEF OfObject, BeforeObject
<1>8. NumbersInv'
  <2>1. Quiet(t) /\ Quiet(t)'
    BY <1>2 DEF Quiet
  <2> QED BY <1>1, <2>1, NumbersKept
<1> QED BY <1>5, <1>6, <1>7, <1>8

LEMMA StampOfFrame ==
  ASSUME NEW c \in Call, NEW stamp \in Time
  PROVE  LET d == [c EXCEPT !.stage = "format", !.entry.stamp = stamp]
         IN  /\ d \in Call /\ d.stage = "format" /\ d.after = c.after /\ d.log = c.log
             /\ d.entry.stamp = stamp
<1> DEFINE e == [c.entry EXCEPT !.stamp = stamp]
<1>1. e \in Entry /\ e.stamp = stamp
  BY FrameFields, EntryTypes
<1> HIDE DEF e
<1>2. [c EXCEPT !.stage = "format", !.entry.stamp = stamp] = [c EXCEPT !.stage = "format", !.entry = e]
  BY DEF e, Call
<1>3. "format" \in Stage
  BY DEF Stage
<1> QED BY <1>1, <1>2, <1>3 DEF Call

LEMMA SequenceOfFrame ==
  ASSUME NEW c \in Call, NEW n \in Nat
  PROVE  LET d == [c EXCEPT !.stage = "print", !.entry.sequence = n]
         IN  /\ d \in Call /\ d.stage = "print" /\ d.after = c.after /\ d.log = c.log
             /\ d.entry.stamp = c.entry.stamp /\ d.entry.sequence = n
<1> DEFINE e == [c.entry EXCEPT !.sequence = n]
<1>1. e \in Entry /\ e.stamp = c.entry.stamp /\ e.sequence = n
  BY FrameFields, EntryTypes
<1> HIDE DEF e
<1>2. [c EXCEPT !.stage = "print", !.entry.sequence = n] = [c EXCEPT !.stage = "print", !.entry = e]
  BY DEF e, Call
<1>3. "print" \in Stage
  BY DEF Stage
<1> QED BY <1>1, <1>2, <1>3 DEF Call

LEMMA FrameIsOutside ==
  ASSUME NEW t \in Threads, NEW st, At(t, st),
         st \notin BetweenStacks \cup {"refillVerbosity", "pointer", "construct"}
  PROVE  Outside(t)
BY DEF Outside, At

LEMMA GetTimeStampStep ==
  ASSUME OneThread, Inv, NEW t \in Threads, GetTimeStamp(t)
  PROVE  Inv'
<1> USE DEF Inv
<1> DEFINE l == Now(t).log
           n == IF clock = logs[l].latestTimeStamp THEN logs[l].sequence + 1 ELSE 0
           call == [Now(t) EXCEPT !.stage = "format", !.entry.stamp = clock]
<1>1. /\ Running(t) /\ Now(t).stage = "stamp" /\ At(t, "stamp") /\ Becomes(t, call)
      /\ logs' = [logs EXCEPT ![l].latestTimeStamp = clock, ![l].sequence =
                    IF clock = logs[l].latestTimeStamp THEN @ + 1 ELSE 0]
      /\ UNCHANGED <<defaults, clock, written>>
  BY DEF GetTimeStamp, At
<1>2. Now(t) \in Call /\ l \in Logs /\ logs[l].exists /\ clock \in Time
  BY <1>1, LastFrame, FrameFields DEF OfObject, TypeOK
<1>3. /\ call \in Call /\ call.stage = "format" /\ call.after = Now(t).after /\ call.log = l
      /\ call.entry.stamp = clock
  BY <1>2, StampOfFrame
<1>4. logs[l] \in Object /\ n \in Nat
  BY <1>2, ObjectFields DEF TypeOK
<1> HIDE DEF call
<1>5. /\ calls' \in [Threads -> Seq(Call)] /\ Now(t)' = call
      /\ \A x : At(t, x)' <=> x = "format"
  BY <1>1, <1>3, CallGoesOn
<1>6. /\ logs' \in [Logs -> Object]
      /\ \A m \in Logs :
           /\ logs'[m].exists = logs[m].exists /\ logs'[m].verbosity = logs[m].verbosity
           /\ logs'[m].language = logs[m].language /\ logs'[m].pointer = logs[m].pointer
           /\ m # l => logs'[m] = logs[m]
      /\ logs'[l].latestTimeStamp = clock /\ logs'[l].sequence = n
  BY <1>1, <1>2, <1>4 DEF TypeOK, Object
<1> HIDE DEF n
<1>7. TypeOK' /\ ObjectsInv'
  BY <1>1, <1>5, <1>6, SMTT(30) DEF TypeOK, ObjectsInv, PrintersSpeakTheirLanguage, defaults
<1>8. DefaultsInv'
  <2>1. Outside(t) /\ Outside(t)'
    BY <1>1, <1>5, FrameIsOutside DEF BetweenStacks, Outside
  <2> QED BY <1>1, <2>1, DefaultsKept
<1>9. FramesInv'
  BY <1>1, <1>2, <1>3, <1>6, FramesOfOneCall, SMTT(30) DEF BeforeObject
<1>10. NumbersInv'
  <2>1. Quiet(t)
    BY <1>1 DEF Quiet, At
  <2>2. \A m \in Logs :
          /\ written[m].stamp <= clock /\ logs[m].latestTimeStamp <= clock
          /\ logs[m].exists =>
               logs[m].latestTimeStamp = written[m].stamp /\ logs[m].sequence = written[m].sequence
    BY <2>1, QuietNumbers
  <2>3. Follows(clock, n, written[l])
    <3>1. written[l].stamp \in Time \cup {NoTime}
      BY <1>2 DEF TypeOK, Entry
    <3> QED BY <1>2, <2>2, <3>1, LogAssumption DEF Follows, n, Time, NoTime
  <2>4. \A m \in Logs : written'[m].stamp <= clock' /\ logs'[m].latestTimeStamp <= clock'
    <3>1. clock <= clock
      BY <1>2, LogAssumption DEF Time
    <3> QED BY <1>1, <1>6, <2>2, <3>1
  <2> QED BY <1>1, <1>2, <1>3, <1>5, <1>6, <2>2, <2>3, <2>4, SMTT(30) DEF NumbersInv, OneThread
<1> QED BY <1>7, <1>8, <1>9, <1>10

LEMMA FormatEntryStep ==
  ASSUME OneThread, Inv, NEW t \in Threads, FormatEntry(t)
  PROVE  Inv'
<1> USE DEF Inv
<1> DEFINE l == Now(t).log
           call == [Now(t) EXCEPT !.stage = "print", !.entry.sequence = logs[l].sequence]
<1>1. /\ Running(t) /\ Now(t).stage = "format" /\ At(t, "format") /\ Becomes(t, call)
      /\ UNCHANGED <<defaults, logs, clock, written>>
  BY DEF FormatEntry, At
<1>2. Now(t) \in Call /\ l \in Logs /\ logs[l].exists /\ logs[l].sequence \in Nat
  BY <1>1, LastFrame, FrameFields, ObjectFields DEF OfObject, TypeOK
<1>3. /\ call \in Call /\ call.stage = "print" /\ call.after = Now(t).after /\ call.log = l
      /\ call.entry.stamp = Now(t).entry.stamp /\ call.entry.sequence = logs[l].sequence
  BY <1>2, SequenceOfFrame
<1> HIDE DEF call
<1>4. /\ calls' \in [Threads -> Seq(Call)] /\ Now(t)' = call
      /\ \A x : At(t, x)' <=> x = "print"
  BY <1>1, <1>3, CallGoesOn
<1>5. TypeOK' /\ ObjectsInv'
  BY <1>1, <1>4 DEF TypeOK, ObjectsInv, PrintersSpeakTheirLanguage, defaults
<1>6. DefaultsInv'
  <2>1. Outside(t) /\ Outside(t)'
    BY <1>1, <1>4, FrameIsOutside DEF BetweenStacks, Outside
  <2> QED BY <1>1, <2>1, DefaultsKept
<1>7. FramesInv'
  BY <1>1, <1>2, <1>3, FramesOfOneCall DEF BeforeObject
<1>8. NumbersInv'
  <2>1. \A m \in Logs :
          /\ written[m].stamp <= clock /\ logs[m].latestTimeStamp <= clock
          /\ m # l /\ logs[m].exists =>
               logs[m].latestTimeStamp = written[m].stamp /\ logs[m].sequence = written[m].sequence
    BY DEF NumbersInv, OneThread
  <2>2. Now(t).entry.stamp = logs[l].latestTimeStamp
        /\ Follows(logs[l].latestTimeStamp, logs[l].sequence, written[l])
    BY <1>1, <1>2 DEF NumbersInv, OneThread
  <2> QED BY <1>1, <1>2, <1>3, <1>4, <2>1, <2>2 DEF NumbersInv, OneThread
<1> QED BY <1>5, <1>6, <1>7, <1>8

LEMMA PrintEntryStep ==
  ASSUME OneThread, Inv, NEW t \in Threads, PrintEntry(t)
  PROVE  Inv'
<1> USE DEF Inv
<1> DEFINE l == Now(t).log
           call == [Now(t) EXCEPT !.stage = "printing"]
<1>1. /\ Running(t) /\ Now(t).stage = "print" /\ At(t, "print") /\ Becomes(t, call)
      /\ written' = [written EXCEPT ![l] = Now(t).entry]
      /\ UNCHANGED <<defaults, logs, clock>>
  BY DEF PrintEntry, At, GoesTo
<1>2. Now(t) \in Call /\ l \in Logs /\ logs[l].exists /\ Now(t).entry \in Entry
  BY <1>1, LastFrame, FrameFields DEF OfObject
<1>3. call \in Call /\ call.stage = "printing" /\ call.after = Now(t).after /\ call.log = l
  <2>1. "printing" \in Stage
    BY DEF Stage
  <2> QED BY <1>2, <2>1, StageOfFrame
<1> HIDE DEF call
<1>4. /\ calls' \in [Threads -> Seq(Call)] /\ Now(t)' = call
      /\ \A x : At(t, x)' <=> x = "printing"
  BY <1>1, <1>3, CallGoesOn
<1>5. /\ written' \in [Logs -> Entry] /\ written'[l] = Now(t).entry
      /\ \A m \in Logs : m # l => written'[m] = written[m]
  BY <1>1, <1>2 DEF TypeOK
<1>6. TypeOK' /\ ObjectsInv'
  BY <1>1, <1>4, <1>5 DEF TypeOK, ObjectsInv, PrintersSpeakTheirLanguage, defaults
<1>7. DefaultsInv'
  <2>1. Outside(t) /\ Outside(t)'
    BY <1>1, <1>4, FrameIsOutside DEF BetweenStacks, Outside
  <2> QED BY <1>1, <2>1, DefaultsKept
<1>8. FramesInv'
  BY <1>1, <1>2, <1>3, FramesOfOneCall DEF BeforeObject
<1>9. NumbersInv'
  <2>1. \A m \in Logs :
          /\ written[m].stamp <= clock /\ logs[m].latestTimeStamp <= clock
          /\ m # l /\ logs[m].exists =>
               logs[m].latestTimeStamp = written[m].stamp /\ logs[m].sequence = written[m].sequence
    BY <1>1 DEF NumbersInv, OneThread
  <2>2. /\ Now(t).entry.stamp = logs[l].latestTimeStamp /\ Now(t).entry.sequence = logs[l].sequence
        /\ Follows(logs[l].latestTimeStamp, logs[l].sequence, written[l])
    BY <1>1, <1>2 DEF NumbersInv, OneThread
  <2>3. Now(t).entry.stamp <= clock
    BY <1>1, <1>2, <2>2 DEF NumbersInv
  <2>4. Quiet(t)'
    BY <1>4 DEF Quiet
  <2>5. \A m \in Logs :
          /\ written'[m].stamp <= clock' /\ logs'[m].latestTimeStamp <= clock'
          /\ logs'[m].exists =>
               logs'[m].latestTimeStamp = written'[m].stamp /\ logs'[m].sequence = written'[m].sequence
    BY <1>1, <1>2, <1>5, <2>1, <2>2, <2>3
  <2> QED BY <2>4, <2>5, QuietNumbersNext
<1> QED BY <1>6, <1>7, <1>8, <1>9

LEMMA PrintedStep ==
  ASSUME OneThread, Inv, NEW t \in Threads, Printed(t)
  PROVE  Inv'
<1> USE DEF Inv
<1> DEFINE call == [Now(t) EXCEPT !.stage = Now(t).after]
<1>1. /\ Running(t) /\ Now(t).stage = "printing" /\ Becomes(t, call)
      /\ UNCHANGED <<defaults, logs, clock, written>>
  BY DEF Printed, At, GoesTo
<1>2. Now(t) \in Call /\ logs[Now(t).log].exists /\ Now(t).after \in After
  BY <1>1, LastFrame, FrameFields DEF OfObject
<1>3. call \in Call /\ call.stage = Now(t).after /\ call.after = Now(t).after /\ call.log = Now(t).log
  BY <1>2, StageOfFrame DEF Stage
<1> HIDE DEF call
<1>4. Plain(Now(t).stage) /\ Plain(call.stage) /\ call.stage \notin BeforeObject
  BY <1>1, <1>2, <1>3 DEF Plain, Stage, After, BetweenStacks, BeforeObject
<1> QED BY <1>1, <1>2, <1>3, <1>4, PlainStep

LEMMA RenameStep ==
  ASSUME OneThread, Inv, NEW t \in Threads, Rename(t)
  PROVE  Inv'
<1> USE DEF Inv
<1> DEFINE l == Now(t).log
           call == Entering(Now(t), l, Information, "return")
<1>1. /\ Running(t) /\ Now(t).stage = "rename" /\ At(t, "rename") /\ Becomes(t, call)
      /\ logs' = [logs EXCEPT ![l].id = Now(t).id]
      /\ UNCHANGED <<defaults, clock, written>>
  BY DEF Rename, At
<1>2. Now(t) \in Call /\ l \in Logs /\ Now(t).id \in Ids /\ logs[l].exists
  BY <1>1, LastFrame, FrameFields DEF OfObject
<1>3. call \in Call /\ call.log = l /\ call.after = "return" /\ call.stage \in {"stamp", "return"}
  <2>1. "return" \in After
    BY DEF After
  <2> QED BY <1>2, <2>1, EnteringFrame
<1> HIDE DEF call
<1>4. calls' \in [Threads -> Seq(Call)] /\ \A x : At(t, x)' <=> call.stage = x
  BY <1>1, <1>3, CallGoesOn
<1>5. /\ logs' \in [Logs -> Object]
      /\ \A m \in Logs :
           /\ logs'[m].exists = logs[m].exists /\ logs'[m].verbosity = logs[m].verbosity
           /\ logs'[m].language = logs[m].language /\ logs'[m].pointer = logs[m].pointer
           /\ logs'[m].latestTimeStamp = logs[m].latestTimeStamp /\ logs'[m].sequence = logs[m].sequence
  BY <1>1, <1>2 DEF TypeOK, Object
<1>6. Outside(t) /\ Outside(t)' /\ Quiet(t) /\ Quiet(t)'
  BY <1>1, <1>3, <1>4, FrameIsOutside DEF BetweenStacks, Outside, Quiet, At
<1>7. TypeOK' /\ ObjectsInv'
  BY <1>1, <1>4, <1>5 DEF TypeOK, ObjectsInv, PrintersSpeakTheirLanguage, defaults
<1>8. DefaultsInv'
  BY <1>1, <1>6, DefaultsKept
<1>9. FramesInv'
  BY <1>1, <1>2, <1>3, <1>5, FramesOfOneCall DEF BeforeObject
<1>10. NumbersInv'
  BY <1>1, <1>5, <1>6, NumbersKept
<1> QED BY <1>7, <1>8, <1>9, <1>10

LEMMA PushStep ==
  ASSUME OneThread, Inv, NEW t \in Threads, Push(t)
  PROVE  Inv'
<1> USE DEF Inv
<1> DEFINE l == Now(t).log
           call == [Now(t) EXCEPT !.stage = "return"]
<1>1. /\ Running(t) /\ Now(t).stage = "push" /\ At(t, "push") /\ Becomes(t, call)
      /\ logs' = [logs EXCEPT ![l].verbosity = Append(@, Now(t).level)]
      /\ UNCHANGED <<defaults, clock, written>>
  BY DEF Push, At, GoesTo
<1>2. Now(t) \in Call /\ l \in Logs /\ Now(t).level \in Level
  BY <1>1, LastFrame, FrameFields
<1>3. call \in Call /\ call.log = l /\ call.stage = "return" /\ call.after = Now(t).after
  <2>1. "return" \in Stage
    BY DEF Stage, After
  <2> QED BY <1>2, <2>1, StageOfFrame
<1> HIDE DEF call
<1>4. calls' \in [Threads -> Seq(Call)] /\ \A x : At(t, x)' <=> call.stage = x
  BY <1>1, <1>3, CallGoesOn
<1>5. Append(logs[l].verbosity, Now(t).level) \in Seq(Level) /\ Append(logs[l].verbosity, Now(t).level) # <<>>
  <2>1. logs[l].verbosity \in Seq(Level)
    BY <1>2, ObjectFields DEF TypeOK
  <2> QED BY <1>2, <2>1, PushedStack
<1>6. /\ logs' \in [Logs -> Object]
      /\ \A m \in Logs :
           /\ logs'[m].exists = logs[m].exists /\ logs'[m].verbosity # <<>>
           /\ logs'[m].language = logs[m].language /\ logs'[m].pointer = logs[m].pointer
           /\ logs'[m].latestTimeStamp = logs[m].latestTimeStamp /\ logs'[m].sequence = logs[m].sequence
  BY <1>1, <1>2, <1>5, ZenonT(60) DEF TypeOK, Object, ObjectsInv
<1>7. Outside(t) /\ Outside(t)' /\ Quiet(t) /\ Quiet(t)'
  BY <1>1, <1>3, <1>4, FrameIsOutside DEF BetweenStacks, Outside, Quiet, At
<1>8. TypeOK' /\ ObjectsInv'
  <2>1. ObjectsInv'
    BY <1>6 DEF ObjectsInv, PrintersSpeakTheirLanguage
  <2> QED BY <1>1, <1>4, <1>6, <2>1 DEF TypeOK, defaults
<1>9. DefaultsInv'
  BY <1>1, <1>7, DefaultsKept
<1>10. FramesInv'
  BY <1>1, <1>3, <1>6, FramesOfOneCall DEF BeforeObject, OfObject
<1>11. NumbersInv'
  BY <1>1, <1>6, <1>7, NumbersKept
<1> QED BY <1>8, <1>9, <1>10, <1>11

LEMMA ReadLanguageStep ==
  ASSUME OneThread, Inv, NEW t \in Threads, ReadLanguage(t)
  PROVE  Inv'
<1> USE DEF Inv
<1> DEFINE call == [Now(t) EXCEPT !.stage = "pointer", !.language = Top(languages)]
<1>1. /\ Running(t) /\ Now(t).stage = "language" /\ At(t, "language") /\ Becomes(t, call)
      /\ UNCHANGED <<defaults, logs, clock, written>>
  BY DEF ReadLanguage, At, languages
<1>2. Now(t) \in Call /\ Now(t).log \in Logs /\ ~logs[Now(t).log].exists
  BY <1>1, LastFrame, FrameFields DEF BeforeObject
<1>3. \A st \in BetweenStacks \cup {"refillVerbosity"} : ~At(t, st)
  BY <1>1 DEF At, BetweenStacks
<1>4. /\ languages \in Seq(Language) /\ languages # <<>> /\ Top(languages) \in Language
  <2>1. /\ pointers # <<>> /\ Len(languages) = Len(pointers) /\ languages \in Seq(Language)
        /\ pointers \in Seq(Pointers)
    BY <1>3, StacksAreFilled DEF TypeOK, languages, pointers
  <2>2. languages # <<>>
    BY <2>1, EmptySeq
  <2> QED BY <2>1, <2>2, TopOfStack
<1>5. /\ call \in Call /\ call.log = Now(t).log /\ call.stage = "pointer" /\ call.after = Now(t).after
      /\ call.language = Top(languages)
  BY <1>2, <1>4 DEF Call, Stage
<1> HIDE DEF call
<1>6. /\ calls' \in [Threads -> Seq(Call)] /\ Now(t)' = call
      /\ \A x : At(t, x)' <=> x = "pointer"
  BY <1>1, <1>5, CallGoesOn
<1>7. TypeOK' /\ ObjectsInv'
  BY <1>1, <1>6 DEF TypeOK, ObjectsInv, PrintersSpeakTheirLanguage, defaults
<1>8. DefaultsInv'
  <2>1. languages' = languages /\ pointers' = pointers /\ defaultLogVerbosity' = defaultLogVerbosity
    BY <1>1 DEF defaults, languages, pointers
  <2> QED BY <1>3, <1>5, <1>6, <2>1 DEF DefaultsInv, DefaultsOf, OneThread, BetweenStacks
<1>9. FramesInv'
  BY <1>1, <1>2, <1>5, FramesOfOneCall DEF OfObject
<1>10. NumbersInv'
  <2>1. Quiet(t) /\ Quiet(t)'
    BY <1>1, <1>6 DEF Quiet, At
  <2> QED BY <1>1, <2>1, NumbersKept
<1> QED BY <1>7, <1>8, <1>9, <1>10

LEMMA ReadPointerStep ==
  ASSUME OneThread, Inv, NEW t \in Threads, ReadPointer(t)
  PROVE  Inv'
<1> USE DEF Inv
<1> DEFINE call == [Now(t) EXCEPT !.stage = "construct", !.pointer = Top(pointers)]
<1>1. /\ Running(t) /\ Now(t).stage = "pointer" /\ At(t, "pointer") /\ Becomes(t, call)
      /\ UNCHANGED <<defaults, logs, clock, written>>
  BY DEF ReadPointer, At, pointers
<1>2. Now(t) \in Call /\ Now(t).log \in Logs /\ ~logs[Now(t).log].exists
  BY <1>1, LastFrame, FrameFields DEF BeforeObject
<1>3. \A st \in BetweenStacks \cup {"refillVerbosity"} : ~At(t, st)
  BY <1>1 DEF At, BetweenStacks
<1>4. Top(pointers) \in Pointers /\ Now(t).language = Top(languages)
  <2>1. pointers # <<>> /\ pointers \in Seq(Pointers)
    BY <1>3, StacksAreFilled DEF TypeOK, pointers
  <2> QED BY <1>1, <2>1, TopOfStack DEF DefaultsInv, DefaultsOf
<1>5. /\ call \in Call /\ call.log = Now(t).log /\ call.stage = "construct" /\ call.after = Now(t).after
      /\ call.language = Top(languages) /\ call.pointer = Top(pointers)
  BY <1>2, <1>4 DEF Call, Stage
<1> HIDE DEF call
<1>6. /\ calls' \in [Threads -> Seq(Call)] /\ Now(t)' = call
      /\ \A x : At(t, x)' <=> x = "construct"
  BY <1>1, <1>5, CallGoesOn
<1>7. TypeOK' /\ ObjectsInv'
  BY <1>1, <1>6 DEF TypeOK, ObjectsInv, PrintersSpeakTheirLanguage, defaults
<1>8. DefaultsInv'
  <2>1. languages' = languages /\ pointers' = pointers /\ defaultLogVerbosity' = defaultLogVerbosity
    BY <1>1 DEF defaults, languages, pointers
  <2> QED BY <1>3, <1>5, <1>6, <2>1 DEF DefaultsInv, DefaultsOf, OneThread, BetweenStacks
<1>9. FramesInv'
  BY <1>1, <1>2, <1>5, FramesOfOneCall DEF OfObject
<1>10. NumbersInv'
  <2>1. Quiet(t) /\ Quiet(t)'
    BY <1>1, <1>6 DEF Quiet, At
  <2> QED BY <1>1, <2>1, NumbersKept
<1> QED BY <1>7, <1>8, <1>9, <1>10

\* The pair that a new object gets is a pair of the stacks.
LEMMA TopPair ==
  ASSUME OneThread, TypeOK, DefaultsInv, NEW t \in Threads, \A st \in BetweenStacks : ~At(t, st)
  PROVE  Top(pointers) \in Pointers /\ Top(languages) = Known(LanguageOf[Top(pointers)])
<1>1. /\ pointers # <<>> /\ Len(languages) = Len(pointers) /\ pointers \in Seq(Pointers)
  BY StacksAreFilled DEF TypeOK, pointers
<1>2. Len(pointers) \in 1..Len(pointers) /\ Top(pointers) \in Pointers
  BY <1>1, TopOfStack
<1>3. languages[Len(pointers)] = Known(LanguageOf[pointers[Len(pointers)]])
  BY <1>1, <1>2 DEF DefaultsInv
<1> QED BY <1>1, <1>2, <1>3 DEF Top

LEMMA ConstructStep ==
  ASSUME OneThread, Inv, NEW t \in Threads, Construct(t)
  PROVE  Inv'
<1> USE DEF Inv
<1> DEFINE l == Now(t).log
           level == Top(defaultLogVerbosity)
           o == Constructed(Now(t).language, Now(t).pointer, Now(t).id, level)
           st == IF Information <= level THEN "stamp" ELSE "return"
           call == [Now(t) EXCEPT !.stage = st]
<1>1. /\ Running(t) /\ Now(t).stage = "construct" /\ At(t, "construct") /\ Becomes(t, call)
      /\ logs' = [logs EXCEPT ![l] = o]
      /\ written' = [written EXCEPT ![l] = NoEntry]
      /\ UNCHANGED <<defaults, clock>>
  BY DEF Construct, Constructed, At, GoesTo
<1>2. Now(t) \in Call /\ l \in Logs /\ ~logs[l].exists
  BY <1>1, LastFrame, FrameFields DEF BeforeObject
<1>3. st \in {"stamp", "return"} /\ st \in Stage
  BY DEF Stage, After
<1> HIDE DEF st
<1>4. call \in Call /\ call.log = l /\ call.stage = st /\ call.after = Now(t).after
  BY <1>2, <1>3, StageOfFrame
<1> HIDE DEF call
<1>5. \A x \in BetweenStacks \cup {"refillVerbosity"} : ~At(t, x)
  BY <1>1 DEF At, BetweenStacks
<1>6. level \in Level
  BY <1>5, StacksAreFilled, TopOfStack DEF TypeOK
<1>7. Now(t).language = Known(LanguageOf[Now(t).pointer])
  BY <1>1, <1>5, TopPair DEF DefaultsInv, DefaultsOf
<1>8. /\ o \in Object /\ o.exists /\ o.verbosity # <<>>
      /\ o.language = Now(t).language /\ o.pointer = Now(t).pointer
      /\ o.latestTimeStamp = NoTime /\ o.sequence = 0
  <2>1. Now(t).language \in Language /\ Now(t).pointer \in Pointers /\ Now(t).id \in Ids
    BY <1>2, FrameFields
  <2> QED BY <1>6, <2>1, ConstructedObject
<1> HIDE DEF o, level
<1>9. calls' \in [Threads -> Seq(Call)] /\ \A x : At(t, x)' <=> call.stage = x
  BY <1>1, <1>4, CallGoesOn
<1>10. /\ logs' \in [Logs -> Object] /\ logs'[l] = o /\ \A m \in Logs : m # l => logs'[m] = logs[m]
       /\ written' \in [Logs -> Entry] /\ written'[l] = NoEntry
       /\ \A m \in Logs : m # l => written'[m] = written[m]
  BY <1>1, <1>2, <1>8, EntryTypes DEF TypeOK
<1>11. TypeOK'
  BY <1>1, <1>9, <1>10 DEF TypeOK, defaults
<1>12. ObjectsInv'
  BY <1>2, <1>7, <1>8, <1>10 DEF ObjectsInv, PrintersSpeakTheirLanguage
<1>13. DefaultsInv'
  <2>1. languages' = languages /\ pointers' = pointers /\ defaultLogVerbosity' = defaultLogVerbosity
    BY <1>1 DEF defaults, languages, pointers
  <2> QED BY <1>3, <1>4, <1>5, <1>9, <2>1 DEF DefaultsInv, DefaultsOf, OneThread, BetweenStacks
<1>14. FramesInv'
  <2>1. \A m \in Logs : logs'[m].exists # logs[m].exists => m = l /\ ~logs[m].exists
    BY <1>2, <1>10
  <2>2. call.stage \notin BeforeObject /\ call.stage # "delete" /\ logs'[call.log].exists
    BY <1>3, <1>4, <1>8, <1>10 DEF BeforeObject
  <2> QED BY <1>1, <1>2, <1>4, <2>1, <2>2, FramesOfOneCall
<1>15. NumbersInv'
  <2>1. Quiet(t) /\ Quiet(t)'
    BY <1>1, <1>3, <1>4, <1>9 DEF Quiet, At
  <2>2. \A m \in Logs :
          /\ written[m].stamp <= clock /\ logs[m].latestTimeStamp <= clock
          /\ logs[m].exists =>
               logs[m].latestTimeStamp = written[m].stamp /\ logs[m].sequence = written[m].sequence
    BY <2>1, QuietNumbers
  <2>3. NoTime <= clock
    BY LogAssumption DEF TypeOK, Time, NoTime
  <2>4. \A m \in Logs :
          /\ written'[m].stamp <= clock' /\ logs'[m].latestTimeStamp <= clock'
          /\ logs'[m].exists =>
               logs'[m].latestTimeStamp = written'[m].stamp /\ logs'[m].sequence = written'[m].sequence
    BY <1>1, <1>8, <1>10, <2>2, <2>3, EntryTypes
  <2> QED BY <2>1, <2>4, QuietNumbersNext
<1> QED BY <1>11, <1>12, <1>13, <1>14, <1>15

LEMMA DeleteStep ==
  ASSUME OneThread, Inv, NEW t \in Threads, Delete(t)
  PROVE  Inv'
<1> USE DEF Inv
<1> DEFINE l == Now(t).log
           o == Prepared(logs[l].id, FALSE)
           call == [Now(t) EXCEPT !.stage = "return"]
<1>1. /\ Running(t) /\ Now(t).stage = "delete" /\ At(t, "delete") /\ Becomes(t, call)
      /\ logs' = [logs EXCEPT ![l] = o]
      /\ UNCHANGED <<defaults, clock, written>>
  BY DEF Delete, Prepared, At, GoesTo
<1>2. Now(t) \in Call /\ l \in Logs
  BY <1>1, LastFrame, FrameFields
<1>3. call \in Call /\ call.log = l /\ call.stage = "return" /\ call.after = Now(t).after
  <2>1. "return" \in Stage
    BY DEF Stage, After
  <2> QED BY <1>2, <2>1, StageOfFrame
<1> HIDE DEF call
<1>4. o \in Object /\ ~o.exists /\ o.verbosity # <<>> /\ o.latestTimeStamp = NoTime
  <2>1. logs[l].id \in Ids
    BY <1>2, ObjectFields DEF TypeOK
  <2> QED BY <2>1, PreparedObject
<1> HIDE DEF o
<1>7. calls' \in [Threads -> Seq(Call)] /\ \A x : At(t, x)' <=> x = "return"
  BY <1>1, <1>3, CallGoesOn
<1>8. logs' \in [Logs -> Object] /\ logs'[l] = o /\ \A m \in Logs : m # l => logs'[m] = logs[m]
  BY <1>1, <1>2, <1>4 DEF TypeOK
<1>9. Outside(t) /\ Outside(t)' /\ Quiet(t) /\ Quiet(t)'
  BY <1>1, <1>7, FrameIsOutside DEF BetweenStacks, Outside, Quiet, At
<1>10. TypeOK'
  BY <1>1, <1>7, <1>8 DEF TypeOK, defaults
<1>11. ObjectsInv'
  BY <1>4, <1>8 DEF ObjectsInv, PrintersSpeakTheirLanguage
<1>12. DefaultsInv'
  BY <1>1, <1>9, DefaultsKept
<1>13. FramesInv'
  BY <1>1, <1>3, <1>8, FramesOfOneCall DEF BeforeObject, OfObject
<1>14. NumbersInv'
  <2>1. \A m \in Logs :
          /\ written[m].stamp <= clock /\ logs[m].latestTimeStamp <= clock
          /\ logs[m].exists =>
               logs[m].latestTimeStamp = written[m].stamp /\ logs[m].sequence = written[m].sequence
    BY <1>9, QuietNumbers
  <2>2. NoTime <= clock
    BY LogAssumption DEF TypeOK, Time, NoTime
  <2>3. \A m \in Logs :
          /\ written'[m].stamp <= clock' /\ logs'[m].latestTimeStamp <= clock'
          /\ logs'[m].exists =>
               logs'[m].latestTimeStamp = written'[m].stamp /\ logs'[m].sequence = written'[m].sequence
    BY <1>1, <1>4, <1>8, <2>1, <2>2
  <2> QED BY <1>9, <2>3, QuietNumbersNext
<1> QED BY <1>10, <1>11, <1>12, <1>13, <1>14

LEMMA StepStep ==
  ASSUME OneThread, Inv, NEW t \in Threads, Step(t)
  PROVE  Inv'
BY ReturnStep, PushLevelStep, RefillVerbosityStep, PushPointerStep, PopPointerStep, RefillLanguageStep,
   RefillPointerStep, GetTimeStampStep, FormatEntryStep, PrintEntryStep, PrintedStep, RenameStep,
   PushStep, ReadLanguageStep, ReadPointerStep, ConstructStep, DeleteStep DEF Step

LEMMA TickStep ==
  ASSUME Inv, Tick
  PROVE  Inv'
<1> USE DEF Inv
<1>1. clock \in Time /\ clock' = clock + 1 /\ clock' \in Time /\ UNCHANGED <<defaults, logs, calls, written>>
  BY LogAssumption DEF Tick, TypeOK, Time
<1>2. \A l \in Logs : written'[l].stamp <= clock' /\ logs'[l].latestTimeStamp <= clock'
  <2>1. \A l \in Logs : /\ written[l].stamp \in Time \cup {NoTime}
                        /\ logs[l].latestTimeStamp \in Time \cup {NoTime}
    BY ObjectFields DEF TypeOK, Entry
  <2>2. \A x \in Time \cup {NoTime} : x <= clock => x <= clock + 1
    BY <1>1, LogAssumption DEF Time, NoTime
  <2> QED BY <1>1, <2>1, <2>2 DEF NumbersInv
<1>3. TypeOK' /\ ObjectsInv'
  BY <1>1 DEF TypeOK, ObjectsInv, PrintersSpeakTheirLanguage, defaults
<1>4. DefaultsInv' /\ FramesInv'
  BY <1>1 DEF DefaultsInv, DefaultsOf, At, Running, Now, FramesInv, FrameInv, defaults, languages, pointers
<1>5. NumbersInv'
  BY <1>1, <1>2 DEF NumbersInv, At, Running, Now
<1> QED BY <1>3, <1>4, <1>5

LEMMA InitInv ==
  ASSUME Init
  PROVE  Inv
<1>1. PICK some \in InitialLogs, i \in Ids : logs = [l \in Logs |-> Prepared(i, l \in some)]
  BY DEF Init, Prepared
<1>2. \A l \in Logs :
        /\ logs[l] \in Object /\ logs[l].verbosity # <<>>
        /\ logs[l].language = "cpp" /\ logs[l].pointer = Global
        /\ logs[l].latestTimeStamp = NoTime /\ logs[l].sequence = 0
  <2>1. TAKE l \in Logs
  <2>2. logs[l] = Prepared(i, l \in some) /\ (l \in some) \in BOOLEAN
    BY <1>1
  <2> QED BY <2>2, PreparedObject
<1>3. /\ defaultLogVerbosity = <<MaximumLevel>> /\ languages = <<"cpp">> /\ pointers = <<Global>>
      /\ calls = [t \in Threads |-> <<>>] /\ clock = 0 /\ written = [l \in Logs |-> NoEntry]
  BY DEF Init, languages, pointers
<1>4. <<MaximumLevel>> \in Seq(Level) /\ <<"cpp">> \in Seq(Language) /\ <<Global>> \in Seq(Pointers)
      /\ <<MaximumLevel>> # <<>>
  BY ConstantTypes DEF Language
<1>5. \A t \in Threads : \A st : ~At(t, st)
  BY <1>3 DEF At, Running
<1>6. TypeOK
  <2>1. logs \in [Logs -> Object]
    BY <1>1, <1>2
  <2>2. 0 \in Time /\ NoEntry \in Entry
    BY LogAssumption, EntryTypes DEF Time
  <2> QED BY <1>3, <1>4, <2>1, <2>2 DEF TypeOK, languages, pointers
<1>7. DefaultsInv
  <2>1. Len(pointers) = 1 /\ Len(languages) = 1 /\ pointers[1] = Global /\ languages[1] = "cpp"
        /\ pointers # <<>>
    BY <1>3
  <2>2. \A n \in 1..Len(pointers) : languages[n] = Known(LanguageOf[pointers[n]])
    BY <2>1, ConstantTypes
  <2> QED BY <1>3, <1>4, <1>5, <2>1, <2>2 DEF DefaultsInv, DefaultsOf
<1>8. ObjectsInv
  BY <1>2, <1>4, ConstantTypes DEF ObjectsInv, PrintersSpeakTheirLanguage
<1>9. FramesInv
  BY <1>3 DEF FramesInv
<1>10. NumbersInv
  BY <1>2, <1>3, <1>5, EntryTypes DEF NumbersInv, NoTime
<1> QED BY <1>6, <1>7, <1>8, <1>9, <1>10 DEF Inv

LEMMA NextInv ==
  ASSUME OneThread, Inv, [Next]_vars
  PROVE  Inv'
<1>1. CASE Tick
  BY <1>1, TickStep
<1>2. ASSUME NEW t \in Threads, Begin(t) \/ Step(t) PROVE Inv'
  BY <1>2, BeginStep, StepStep
<1>3. CASE UNCHANGED vars
  BY <1>3 DEF vars, Inv, TypeOK, DefaultsInv, DefaultsOf, ObjectsInv, PrintersSpeakTheirLanguage, FramesInv,
     FrameInv, NumbersInv, At, Running, Now, defaults, languages, pointers
<1> QED BY <1>1, <1>2, <1>3 DEF Next

\* For one thread the strengthening is an invariant.
THEOREM Invariance ==
  ASSUME OneThread
  PROVE  Spec => []Inv
BY InitInv, NextInv, PTL DEF Spec

-----------------------------------------------------------------------------
(* What follows from it. *)

LEMMA InvIsSound ==
  ASSUME OneThread, Inv
  PROVE  DefaultsAreSound
<1> USE DEF Inv
<1>1. languages \in Seq(Language) /\ pointers \in Seq(Pointers)
  BY DEF TypeOK, languages, pointers
<1>2. defaultLogVerbosity = <<>> => \E t \in Threads : At(t, "refillVerbosity")
  BY DEF DefaultsInv
<1>3. ASSUME languages = <<>> PROVE \E t \in Threads : At(t, "popPointer") \/ At(t, "refillLanguage")
  <2>1. Len(languages) = 0 /\ Len(pointers) \in Nat
    BY <1>1, <1>3, EmptySeq, LenProperties
  <2>2. PICK t \in Threads, s \in BetweenStacks : At(t, s)
    BY <1>1, <2>1, EmptySeq DEF DefaultsInv
  <2> QED BY <1>3, <2>1, <2>2 DEF DefaultsInv, DefaultsOf, BetweenStacks
<1>4. ASSUME pointers = <<>> PROVE \E t \in Threads : At(t, "refillLanguage") \/ At(t, "refillPointer")
  <2>1. Len(pointers) = 0 /\ Len(languages) \in Nat
    BY <1>1, <1>4, EmptySeq, LenProperties
  <2>2. PICK t \in Threads, s \in BetweenStacks : At(t, s)
    BY <1>4 DEF DefaultsInv
  <2> QED BY <1>4, <2>1, <2>2 DEF DefaultsInv, DefaultsOf, BetweenStacks
<1>5. StacksAreNeverEmpty
  BY <1>2, <1>3, <1>4 DEF StacksAreNeverEmpty, ObjectsInv, languages, pointers
<1> QED BY <1>5 DEF DefaultsAreSound, ObjectsInv

\* While one thread uses the library, the stacks are filled wherever they are read
\* (top() and pop() of the default verbosity, language and function in
\* LogImplementation), and a Log object has the language of its print function.
THEOREM Defaults ==
  ASSUME OneThread
  PROVE  Spec => []DefaultsAreSound
BY Invariance, InvIsSound, PTL

\* Entries reach the print function with the numbers 0, 1, ... of their second
\* (GetTimeStamp, EntryString), whatever print functions write meanwhile.
THEOREM Numbering ==
  ASSUME OneThread
  PROVE  Spec => EntriesAreNumbered
<1>1. ASSUME Inv, NEW t \in Threads, At(t, "print")
      PROVE  Follows(Now(t).entry.stamp, Now(t).entry.sequence, written[Now(t).log])
  <2>1. Running(t) /\ Now(t).stage = "print"
    BY <1>1 DEF At
  <2>2. Now(t).log \in Logs /\ logs[Now(t).log].exists
    BY <1>1, <2>1, LastFrame, FrameFields DEF Inv, OfObject
  <2> QED BY <1>1, <2>2 DEF Inv, NumbersInv, OneThread
<1>2. Inv /\ [Next]_vars =>
        [\A t \in Threads :
           At(t, "print") /\ At(t, "printing")' =>
             LET last == written[Now(t).log]
                 entry == Now(t).entry
             IN  IF entry.stamp = last.stamp THEN entry.sequence = last.sequence + 1
                 ELSE entry.stamp > last.stamp /\ entry.sequence = 0]_vars
  BY <1>1 DEF Follows
<1> QED BY <1>2, Invariance, PTL DEF Spec, EntriesAreNumbered

-----------------------------------------------------------------------------
(* The two stacks implement one of pairs. *)

PairsOf(a, b) ==
  LET shorter == IF Len(a) < Len(b) THEN Len(a) ELSE Len(b)
  IN  IF shorter = 0 THEN <<<<"cpp", Global>>>> ELSE [i \in 1..shorter |-> <<a[i], b[i]>>]

Pair == Language \X Pointers
Printing == [l \in Logs |-> IF logs[l].exists THEN <<logs[l].language, logs[l].pointer>> ELSE NULL]

LEMMA PairsOfStacks ==
  ASSUME NEW a \in Seq(Language), NEW b \in Seq(Pointers),
         NEW n \in Nat, n = IF Len(a) < Len(b) THEN Len(a) ELSE Len(b)
  PROVE  /\ PairsOf(a, b) \in Seq(Pair) /\ PairsOf(a, b) # <<>>
         /\ n = 0 => PairsOf(a, b) = <<<<"cpp", Global>>>>
         /\ n > 0 => Len(PairsOf(a, b)) = n /\ \A i \in 1..n : PairsOf(a, b)[i] = <<a[i], b[i]>>
<1>1. CASE n = 0
  <2>1. PairsOf(a, b) = <<<<"cpp", Global>>>>
    BY <1>1 DEF PairsOf
  <2>2. <<"cpp", Global>> \in Pair
    BY ConstantTypes DEF Pair, Language
  <2>3. \A x \in Pair : <<x>> \in Seq(Pair) /\ <<x>> # <<>>
    OBVIOUS
  <2> QED BY <1>1, <2>1, <2>2, <2>3
<1>2. CASE n > 0
  <2> DEFINE p == [i \in 1..n |-> <<a[i], b[i]>>]
  <2>1. PairsOf(a, b) = p
    BY <1>2 DEF PairsOf
  <2>2. \A i \in 1..n : i \in 1..Len(a) /\ i \in 1..Len(b)
    BY LenProperties
  <2>3. \A i \in 1..n : <<a[i], b[i]>> \in Pair
    BY <2>2, ElementOfSeq DEF Pair
  <2>4. p \in [1..n -> Pair]
    BY <2>3
  <2>5. p \in Seq(Pair) /\ Len(p) = n
    <3>1. p \in Seq(Pair)
      BY <2>4, SeqDef, SMTT(30)
    <3>2. Len(p) \in Nat /\ 1..Len(p) = 1..n
      BY <3>1, LenProperties
    <3>3. \A m \in Nat : 1..m = 1..n => m = n
      <4>1. SUFFICES ASSUME NEW m \in Nat, 1..m = 1..n PROVE m = n
        OBVIOUS
      <4>2. n \in 1..m /\ (m > 0 => m \in 1..n)
        BY <1>2, <4>1
      <4> QED BY <4>2
    <3> QED BY <3>1, <3>2, <3>3
  <2>6. p # <<>>
    BY <1>2, <2>5, EmptySeq
  <2> QED BY <1>2, <2>1, <2>5, <2>6
<1> QED BY <1>1, <1>2

\* Stacks that agree as far as the shorter ones go are the same pairs.
LEMMA SamePairs ==
  ASSUME NEW a \in Seq(Language), NEW b \in Seq(Pointers), NEW c \in Seq(Language), NEW d \in Seq(Pointers),
         NEW n \in Nat, n = IF Len(a) < Len(b) THEN Len(a) ELSE Len(b),
         n = IF Len(c) < Len(d) THEN Len(c) ELSE Len(d),
         \A i \in 1..n : a[i] = c[i] /\ b[i] = d[i]
  PROVE  PairsOf(c, d) = PairsOf(a, b)
<1>1. CASE n = 0
  BY <1>1, PairsOfStacks, ZenonT(60)
<1>2. CASE n > 0
  <2> DEFINE p == PairsOf(a, b)  q == PairsOf(c, d)
  <2>1. /\ p \in Seq(Pair) /\ Len(p) = n /\ \A i \in 1..n : p[i] = <<a[i], b[i]>>
        /\ q \in Seq(Pair) /\ Len(q) = n /\ \A i \in 1..n : q[i] = <<c[i], d[i]>>
    BY <1>2, PairsOfStacks
  <2> HIDE DEF p, q
  <2>2. \A i \in 1..Len(p) : p[i] = q[i]
    BY <2>1
  <2>3. p = q
    BY <2>1, <2>2, SeqEqual
  <2> QED BY <2>3 DEF p, q
<1> QED BY <1>1, <1>2

LEMMA PairsAreOfTheStacks ==
  /\ Pairs = PairsOf(languages, pointers)
  /\ Pairs' = PairsOf(languages', pointers')
BY DEF Pairs, PairsOf, languages, pointers

\* Where nobody is in the middle of the stacks, they are of one length.
LEMMA PairsOutside ==
  ASSUME OneThread, Inv, NEW t \in Threads, \A st \in BetweenStacks : ~At(t, st)
  PROVE  LET n == Len(pointers)
         IN  /\ n \in Nat /\ n > 0 /\ Len(languages) = n
             /\ languages \in Seq(Language) /\ pointers \in Seq(Pointers)
             /\ Pairs \in Seq(Pair) /\ Pairs # <<>> /\ Len(Pairs) = n
             /\ \A i \in 1..n : Pairs[i] = <<languages[i], pointers[i]>>
<1>1. /\ pointers # <<>> /\ Len(languages) = Len(pointers)
      /\ languages \in Seq(Language) /\ pointers \in Seq(Pointers)
  BY StacksAreFilled DEF Inv, TypeOK, languages, pointers
<1>2. Len(pointers) \in Nat /\ Len(pointers) > 0
  BY <1>1, TopOfStack
<1> QED BY <1>1, <1>2, PairsOfStacks, PairsAreOfTheStacks

LEMMA PopIsAbstract ==
  ASSUME OneThread, Inv, NEW t \in Threads, PopDefaultPrintFunction(t)
  PROVE  Pairs' = IF Len(Pairs) = 1 THEN <<<<"cpp", Global>>>> ELSE SubSeq(Pairs, 1, Len(Pairs) - 1)
<1> DEFINE n == Len(pointers)
<1>1. \A st \in BetweenStacks : ~At(t, st)
  BY DEF PopDefaultPrintFunction, MayCall, At, BetweenStacks
<1>2. /\ n \in Nat /\ n > 0 /\ Len(languages) = n
      /\ languages \in Seq(Language) /\ pointers \in Seq(Pointers)
      /\ Pairs \in Seq(Pair) /\ Pairs # <<>> /\ Len(Pairs) = n
      /\ \A i \in 1..n : Pairs[i] = <<languages[i], pointers[i]>>
  BY <1>1, PairsOutside
<1>3. languages' = Popped(languages) /\ pointers' = pointers
  BY DEF PopDefaultPrintFunction, languages, pointers
<1>4. languages # <<>>
  BY <1>2
<1>5. /\ languages' \in Seq(Language) /\ Len(languages') = n - 1
      /\ \A i \in 1..n - 1 : languages'[i] = languages[i]
  <2>1. LET r == Popped(languages)
        IN  r \in Seq(Language) /\ Len(r) = Len(languages) - 1 /\ \A i \in 1..Len(r) : r[i] = languages[i]
    BY <1>2, <1>4, PoppedStack
  <2> QED BY <1>2, <1>3, <2>1
<1>6. /\ n - 1 \in Nat /\ n - 1 = IF Len(languages') < Len(pointers') THEN Len(languages') ELSE Len(pointers')
      /\ pointers' \in Seq(Pointers)
  BY <1>2, <1>3, <1>5
<1>7. /\ Pairs' \in Seq(Pair) /\ Pairs' # <<>>
      /\ n - 1 = 0 => Pairs' = <<<<"cpp", Global>>>>
      /\ n - 1 > 0 => Len(Pairs') = n - 1 /\ \A i \in 1..n - 1 : Pairs'[i] = <<languages'[i], pointers'[i]>>
  BY <1>5, <1>6, PairsOfStacks, PairsAreOfTheStacks
<1>8. CASE n = 1
  BY <1>2, <1>7, <1>8
<1>9. CASE n > 1
  <2> DEFINE p == Popped(Pairs)  q == Pairs'
  <2>1. p \in Seq(Pair) /\ Len(p) = n - 1 /\ \A i \in 1..n - 1 : p[i] = Pairs[i]
    BY <1>2, PoppedStack
  <2>2. q \in Seq(Pair) /\ Len(q) = n - 1 /\ \A i \in 1..n - 1 : q[i] = <<languages[i], pointers[i]>>
    BY <1>3, <1>5, <1>7, <1>9
  <2>3. \A i \in 1..n - 1 : p[i] = q[i]
    <3>1. \A i \in 1..n - 1 : i \in 1..n
      BY <1>2
    <3> QED BY <1>2, <2>1, <2>2, <3>1
  <2> HIDE DEF p, q
  <2>4. p = q
    BY <2>1, <2>2, <2>3, SeqEqual
  <2> QED BY <1>2, <1>9, <2>4 DEF p, q, Popped
<1> QED BY <1>2, <1>8, <1>9

LEMMA PushIsAbstract ==
  ASSUME OneThread, Inv, NEW t \in Threads, PushPointer(t)
  PROVE  \E f \in Pointers : Pairs' = Append(Pairs, <<Known(LanguageOf[f]), f>>)
<1> DEFINE n == Len(pointers)  f == Now(t).pointer
<1>1. /\ Running(t) /\ At(t, "pushPointer") /\ pointers' = Append(pointers, f) /\ languages' = languages
  BY DEF PushPointer, At, languages, pointers
<1>2. f \in Pointers
  BY <1>1, TopOfStack, FrameFields DEF Inv, TypeOK, Running, Now
<1>3. /\ n \in Nat /\ n > 0 /\ Len(languages) = n + 1 /\ Top(languages) = Known(LanguageOf[f])
      /\ languages \in Seq(Language) /\ pointers \in Seq(Pointers)
  BY <1>1, TopOfStack DEF Inv, DefaultsInv, DefaultsOf, TypeOK, languages, pointers
<1>4. /\ pointers' \in Seq(Pointers) /\ Len(pointers') = n + 1
      /\ \A i \in 1..n : pointers'[i] = pointers[i]
      /\ pointers'[n + 1] = f
  BY <1>1, <1>2, <1>3, PushedStack
<1>5. /\ Pairs \in Seq(Pair) /\ Len(Pairs) = n /\ \A i \in 1..n : Pairs[i] = <<languages[i], pointers[i]>>
  <2>1. n = IF Len(languages) < Len(pointers) THEN Len(languages) ELSE Len(pointers)
    BY <1>3
  <2> QED BY <1>3, <2>1, PairsOfStacks, PairsAreOfTheStacks
<1>6. /\ Pairs' \in Seq(Pair) /\ Len(Pairs') = n + 1
      /\ \A i \in 1..n + 1 : Pairs'[i] = <<languages'[i], pointers'[i]>>
  <2>1. n + 1 \in Nat /\ n + 1 > 0
        /\ n + 1 = IF Len(languages') < Len(pointers') THEN Len(languages') ELSE Len(pointers')
    BY <1>1, <1>3, <1>4
  <2> QED BY <1>1, <1>3, <1>4, <2>1, PairsOfStacks, PairsAreOfTheStacks
<1> DEFINE e == <<Known(LanguageOf[f]), f>>  p == Append(Pairs, e)  q == Pairs'
<1>7. e \in Pair
  BY <1>2, ConstantTypes DEF Pair
<1> HIDE DEF e
<1>8. p \in Seq(Pair) /\ Len(p) = n + 1 /\ p[n + 1] = e /\ \A i \in 1..n : p[i] = Pairs[i]
  BY <1>5, <1>7, PushedStack
<1>9. \A i \in 1..n + 1 : p[i] = q[i]
  <2>1. q[n + 1] = e
    BY <1>1, <1>3, <1>4, <1>6 DEF Top, e
  <2>2. \A i \in 1..n : q[i] = Pairs[i]
    <3>1. \A i \in 1..n : i \in 1..n + 1
      BY <1>3
    <3> QED BY <1>1, <1>4, <1>5, <1>6, <3>1
  <2> QED BY <1>3, <1>8, <2>1, <2>2
<1> HIDE DEF p, q
<1>10. p = q
  BY <1>6, <1>8, <1>9, SeqEqual DEF q
<1> QED BY <1>2, <1>10 DEF p, q, e

\* The other steps in the stacks leave the pairs.
LEMMA PushStartsNoPair ==
  ASSUME OneThread, Inv, NEW t \in Threads, NEW f \in Pointers, PushDefaultPrintFunction(t, f)
  PROVE  Pairs' = Pairs
<1> DEFINE n == Len(pointers)
<1>1. \A st \in BetweenStacks : ~At(t, st)
  BY DEF PushDefaultPrintFunction, MayCall, At, BetweenStacks
<1>2. /\ n \in Nat /\ Len(languages) = n
      /\ languages \in Seq(Language) /\ pointers \in Seq(Pointers)
  BY <1>1, PairsOutside
<1>3. languages' = Append(languages, Known(LanguageOf[f])) /\ pointers' = pointers
  BY DEF PushDefaultPrintFunction, languages, pointers
<1>4. /\ languages' \in Seq(Language) /\ Len(languages') = n + 1
      /\ \A i \in 1..n : languages'[i] = languages[i]
  BY <1>2, <1>3, ConstantTypes, PushedStack
<1>5. /\ n = IF Len(languages) < Len(pointers) THEN Len(languages) ELSE Len(pointers)
      /\ n = IF Len(languages') < Len(pointers') THEN Len(languages') ELSE Len(pointers')
  BY <1>2, <1>3, <1>4
<1> QED BY <1>2, <1>3, <1>4, <1>5, SamePairs, PairsAreOfTheStacks, ZenonT(60)

LEMMA PopPointerKeepsPairs ==
  ASSUME OneThread, Inv, NEW t \in Threads, PopPointer(t)
  PROVE  Pairs' = Pairs
<1> DEFINE n == Len(languages)
<1>1. At(t, "popPointer") /\ pointers' = Popped(pointers) /\ languages' = languages
  BY DEF PopPointer, languages, pointers
<1>2. /\ n \in Nat /\ Len(pointers) = n + 1
      /\ languages \in Seq(Language) /\ pointers \in Seq(Pointers) /\ pointers # <<>>
  BY <1>1, LenProperties, EmptySeq DEF Inv, DefaultsInv, DefaultsOf, TypeOK, languages, pointers
<1>3. /\ pointers' \in Seq(Pointers) /\ Len(pointers') = n
      /\ \A i \in 1..n : pointers'[i] = pointers[i]
  BY <1>1, <1>2, PoppedStack
<1>4. /\ n = IF Len(languages) < Len(pointers) THEN Len(languages) ELSE Len(pointers)
      /\ n = IF Len(languages') < Len(pointers') THEN Len(languages') ELSE Len(pointers')
  BY <1>1, <1>2, <1>3
<1> QED BY <1>1, <1>2, <1>3, <1>4, SamePairs, PairsAreOfTheStacks

\* Empty stacks are those of the start, before and after they are refilled.
LEMMA RefillsKeepPairs ==
  ASSUME OneThread, Inv, NEW t \in Threads, RefillLanguage(t) \/ RefillPointer(t)
  PROVE  Pairs' = Pairs
<1> USE DEF Inv
<1>1. languages \in Seq(Language) /\ pointers \in Seq(Pointers)
  BY DEF TypeOK, languages, pointers
<1>2. CASE RefillLanguage(t)
  <2>1. At(t, "refillLanguage") /\ pointers' = pointers
        /\ languages' = IF languages = <<>> THEN <<"cpp">> ELSE languages
    BY <1>2 DEF RefillLanguage, languages, pointers
  <2>2. CASE languages # <<>>
    BY <2>1, <2>2, PairsAreOfTheStacks
  <2>3. CASE languages = <<>>
    <3>1. Len(languages) = 0 /\ Len(pointers) = 0
      BY <2>1, <2>3, EmptySeq DEF DefaultsInv, DefaultsOf
    <3>2. languages' = <<"cpp">> /\ Len(languages') = 1 /\ Len(pointers') = 0
      BY <2>1, <2>3, <3>1
    <3>3. Pairs = <<<<"cpp", Global>>>> /\ Pairs' = <<<<"cpp", Global>>>>
      BY <3>1, <3>2, PairsAreOfTheStacks DEF PairsOf
    <3> QED BY <3>3
  <2> QED BY <2>2, <2>3
<1>3. CASE RefillPointer(t)
  <2>1. /\ At(t, "refillPointer") /\ pointers' = Append(pointers, Global) /\ languages' = languages
    BY <1>3 DEF RefillPointer, languages, pointers
  <2>2. languages = <<"cpp">> /\ pointers = <<>>
    BY <2>1 DEF DefaultsInv, DefaultsOf
  <2>3. pointers' = <<Global>> /\ languages' = <<"cpp">>
    <3>1. Append(<<>>, Global) = <<Global>>
      OBVIOUS
    <3> QED BY <2>1, <2>2, <3>1
  <2>4. Pairs = <<<<"cpp", Global>>>>
    <3>1. Len(languages) = 1 /\ Len(pointers) = 0
      BY <2>2
    <3> QED BY <3>1, PairsAreOfTheStacks DEF PairsOf
  <2>5. Pairs' = <<<<"cpp", Global>>>>
    <3>1. Len(languages') = 1 /\ Len(pointers') = 1 /\ languages'[1] = "cpp" /\ pointers'[1] = Global
      BY <2>3
    <3>2. languages' \in Seq(Language) /\ pointers' \in Seq(Pointers)
      BY <2>3, ConstantTypes DEF Language
    <3>3. Pairs' \in Seq(Pair) /\ Len(Pairs') = 1 /\ Pairs'[1] = <<"cpp", Global>>
      BY <3>1, <3>2, PairsOfStacks, PairsAreOfTheStacks
    <3> DEFINE e == <<"cpp", Global>>  q == Pairs'
    <3> HIDE DEF e, q
    <3>4. q \in Seq(Pair) /\ Len(q) = 1 /\ q[1] = e
      BY <3>3 DEF e, q
    <3>5. q = <<e>>
      BY <3>4
    <3> QED BY <3>5 DEF e, q
  <2> QED BY <2>4, <2>5
<1> QED BY <1>2, <1>3

\* A step that creates or deletes no object leaves the print functions of all.
LEMMA PrintingKept ==
  ASSUME OneThread, Inv, NEW t \in Threads, Begin(t) \/ Step(t), ~Construct(t), ~Delete(t)
  PROVE  Printing' = Printing
<1> USE DEF Inv
<1>1. SUFFICES \A l \in Logs : /\ logs'[l].exists <=> logs[l].exists
                               /\ logs'[l].language = logs[l].language
                               /\ logs'[l].pointer = logs[l].pointer
  BY DEF Printing
<1>2. \A l \in Logs : logs[l] \in Object
  BY DEF TypeOK
<1>3. CASE UNCHANGED logs
  BY <1>3
<1>4. CASE \E l \in Logs : \E v : logs' = [logs EXCEPT ![l].verbosity = v]
  BY <1>2, <1>4 DEF Object, TypeOK
<1>5. CASE \E l \in Logs : \E v : logs' = [logs EXCEPT ![l].id = v]
  BY <1>2, <1>5 DEF Object, TypeOK
<1>6. CASE \E l \in Logs : \E v, w : logs' = [logs EXCEPT ![l].latestTimeStamp = v, ![l].sequence = w]
  BY <1>2, <1>6 DEF Object, TypeOK
<1>7. CASE Begin(t)
  <2>1. CASE \E l \in Logs : PopVerbosity(t, l)
    <3>1. PICK l \in Logs : PopVerbosity(t, l)
      BY <2>1
    <3>2. \E v : logs' = [logs EXCEPT ![l].verbosity = v]
      BY <3>1 DEF PopVerbosity
    <3> QED BY <1>4, <3>2
  <2>2. CASE ~\E l \in Logs : PopVerbosity(t, l)
    <3>1. UNCHANGED logs
      BY <1>7, <2>2 DEF Begin, PushDefaultVerbosity, PopDefaultVerbosity, PushDefaultPrintFunction,
         PopDefaultPrintFunction, LogEntry, PushVerbosity, SetID, Create, Destroy
    <3> QED BY <1>3, <3>1
  <2> QED BY <2>1, <2>2
<1>8. CASE Step(t)
  <2>1. Running(t) => Now(t).log \in Logs
    BY TopOfStack, FrameFields DEF TypeOK, Running, Now
  <2>2. CASE GetTimeStamp(t)
    <3>1. \E v, w : logs' = [logs EXCEPT ![Now(t).log].latestTimeStamp = v, ![Now(t).log].sequence = w]
      BY <2>2 DEF GetTimeStamp
    <3> QED BY <1>6, <2>1, <2>2, <3>1 DEF GetTimeStamp, At
  <2>3. CASE Rename(t)
    BY <1>5, <2>1, <2>3 DEF Rename, At
  <2>4. CASE Push(t)
    <3>1. \E v : logs' = [logs EXCEPT ![Now(t).log].verbosity = v]
      BY <2>4 DEF Push
    <3> QED BY <1>4, <2>1, <2>4, <3>1 DEF Push, At
  <2>5. CASE ~(GetTimeStamp(t) \/ Rename(t) \/ Push(t))
    <3>1. UNCHANGED logs
      BY <1>8, <2>5 DEF Step, Return, PushLevel, RefillVerbosity, PushPointer, PopPointer, RefillLanguage,
         RefillPointer, FormatEntry, PrintEntry, Printed, ReadLanguage, ReadPointer
    <3> QED BY <1>3, <3>1
  <2> QED BY <2>2, <2>3, <2>4, <2>5
<1> QED BY <1>7, <1>8

LEMMA PairsKept ==
  ASSUME OneThread, Inv, NEW t \in Threads, Begin(t) \/ Step(t),
         ~PopDefaultPrintFunction(t), ~PushPointer(t)
  PROVE  Pairs' = Pairs
<1>1. CASE languages' = languages /\ pointers' = pointers
  BY <1>1, PairsAreOfTheStacks
<1>2. CASE Begin(t)
  <2>1. CASE \E f \in Pointers : PushDefaultPrintFunction(t, f)
    BY <2>1, PushStartsNoPair
  <2>2. CASE ~\E f \in Pointers : PushDefaultPrintFunction(t, f)
    <3>1. languages' = languages /\ pointers' = pointers
      BY <1>2, <2>2 DEF Begin, PushDefaultVerbosity, PopDefaultVerbosity, PopVerbosity,
         LogEntry, PushVerbosity, SetID, Create, Destroy, defaults, languages, pointers
    <3> QED BY <1>1, <3>1
  <2> QED BY <2>1, <2>2
<1>3. CASE Step(t)
  <2>1. CASE PopPointer(t) \/ RefillLanguage(t) \/ RefillPointer(t)
    BY <2>1, PopPointerKeepsPairs, RefillsKeepPairs
  <2>2. CASE ~(PopPointer(t) \/ RefillLanguage(t) \/ RefillPointer(t))
    <3>1. languages' = languages /\ pointers' = pointers
      BY <1>3, <2>2 DEF Step, Return, PushLevel, RefillVerbosity, GetTimeStamp, FormatEntry, PrintEntry,
         Printed, Rename, Push, ReadLanguage, ReadPointer, Construct, Delete, defaults, languages, pointers
    <3> QED BY <1>1, <3>1
  <2> QED BY <2>1, <2>2
<1> QED BY <1>2, <1>3

LEMMA ConstructIsAbstract ==
  ASSUME OneThread, Inv, NEW t \in Threads, Construct(t)
  PROVE  \E l \in Logs : /\ Printing[l] = NULL
                         /\ Printing' = [Printing EXCEPT ![l] = Pairs[Len(Pairs)]]
                         /\ Pairs' = Pairs
<1> USE DEF Inv
<1> DEFINE l == Now(t).log
           o == Constructed(Now(t).language, Now(t).pointer, Now(t).id, Top(defaultLogVerbosity))
<1>1. /\ Running(t) /\ Now(t).stage = "construct" /\ At(t, "construct")
      /\ logs' = [logs EXCEPT ![l] = o] /\ UNCHANGED defaults
  BY DEF Construct, Constructed, At
<1>2. Now(t) \in Call /\ l \in Logs /\ ~logs[l].exists
  BY <1>1, LastFrame, FrameFields DEF BeforeObject
<1>3. \A x \in BetweenStacks \cup {"refillVerbosity"} : ~At(t, x)
  BY <1>1 DEF At, BetweenStacks
<1>4. o.exists /\ o.language = Now(t).language /\ o.pointer = Now(t).pointer
  <2>1. Top(defaultLogVerbosity) \in Level
    BY <1>3, StacksAreFilled, TopOfStack DEF TypeOK
  <2>2. Now(t).language \in Language /\ Now(t).pointer \in Pointers /\ Now(t).id \in Ids
    BY <1>2, FrameFields
  <2> QED BY <2>1, <2>2, ConstructedObject
<1> HIDE DEF o
<1>5. Pairs[Len(Pairs)] = <<Now(t).language, Now(t).pointer>>
  <2>1. Now(t).language = Top(languages) /\ Now(t).pointer = Top(pointers)
    BY <1>1 DEF DefaultsInv, DefaultsOf
  <2>2. Pairs[Len(Pairs)] = <<languages[Len(languages)], pointers[Len(pointers)]>>
    BY <1>3, PairsOutside
  <2> QED BY <2>1, <2>2 DEF Top
<1>6. Printing[l] = NULL
  BY <1>2 DEF Printing
<1>7. Printing' = [Printing EXCEPT ![l] = <<Now(t).language, Now(t).pointer>>]
  BY <1>1, <1>2, <1>4 DEF Printing, TypeOK
<1>8. Pairs' = Pairs
  BY <1>1 DEF Pairs, defaults
<1> QED BY <1>2, <1>5, <1>6, <1>7, <1>8

LEMMA DeleteIsAbstract ==
  ASSUME OneThread, Inv, NEW t \in Threads, Delete(t)
  PROVE  \E l \in Logs : /\ Printing[l] # NULL
                         /\ Printing' = [Printing EXCEPT ![l] = NULL]
                         /\ Pairs' = Pairs
<1> USE DEF Inv
<1> DEFINE l == Now(t).log
           o == Prepared(logs[l].id, FALSE)
<1>1. /\ Running(t) /\ Now(t).stage = "delete" /\ At(t, "delete")
      /\ logs' = [logs EXCEPT ![l] = o] /\ UNCHANGED defaults
  BY DEF Delete, Prepared, At
<1>2. Now(t) \in Call /\ l \in Logs /\ logs[l].exists /\ logs[l] \in Object
  BY <1>1, LastFrame, FrameFields DEF OfObject, TypeOK
<1>3. ~o.exists
  BY <1>2, ObjectFields, PreparedObject
<1> HIDE DEF o
<1>4. Printing[l] # NULL
  <2>1. Printing[l] = <<logs[l].language, logs[l].pointer>>
    BY <1>2 DEF Printing
  <2>2. <<logs[l].language, logs[l].pointer>> \in Language \X Pointers
    BY <1>2, ObjectFields
  <2> QED BY <2>1, <2>2, LogAssumption
<1>5. Printing' = [Printing EXCEPT ![l] = NULL]
  BY <1>1, <1>2, <1>3 DEF Printing, TypeOK
<1>6. Pairs' = Pairs
  BY <1>1 DEF Pairs, defaults
<1> QED BY <1>2, <1>4, <1>5, <1>6

LEMMA InitIsAbstract ==
  ASSUME Init
  PROVE  Abstract!Init
<1>1. PICK some \in InitialLogs, i \in Ids : logs = [l \in Logs |-> Prepared(i, l \in some)]
  BY DEF Init, Prepared
<1>2. \A l \in Logs : (logs[l].exists <=> l \in some) /\ logs[l].language = "cpp" /\ logs[l].pointer = Global
  <2>1. TAKE l \in Logs
  <2>2. logs[l] = Prepared(i, l \in some) /\ (l \in some) \in BOOLEAN
    BY <1>1
  <2> QED BY <2>2, PreparedObject
<1>3. Printing = [l \in Logs |-> IF l \in some THEN <<"cpp", Global>> ELSE NULL]
  BY <1>2 DEF Printing
<1>4. some \in SUBSET Logs
  BY LogAssumption
<1>5. Pairs = <<<<"cpp", Global>>>>
  <2>1. languages = <<"cpp">> /\ pointers = <<Global>>
    BY DEF Init, languages, pointers
  <2>2. Len(languages) = 1 /\ Len(pointers) = 1 /\ languages[1] = "cpp" /\ pointers[1] = Global
    BY <2>1
  <2>3. languages \in Seq(Language) /\ pointers \in Seq(Pointers)
    BY <2>1, ConstantTypes DEF Language
  <2>4. Pairs \in Seq(Pair) /\ Len(Pairs) = 1 /\ Pairs[1] = <<"cpp", Global>>
    BY <2>2, <2>3, PairsOfStacks, PairsAreOfTheStacks
  <2> DEFINE e == <<"cpp", Global>>  q == Pairs
  <2> HIDE DEF e, q
  <2>5. q \in Seq(Pair) /\ Len(q) = 1 /\ q[1] = e
    BY <2>4 DEF e, q
  <2>6. q = <<e>>
    BY <2>5
  <2> QED BY <2>6 DEF e, q
<1> QED BY <1>3, <1>4, <1>5 DEF Abstract!Init, Printing

LEMMA NextIsAbstract ==
  ASSUME OneThread, Inv, [Next]_vars
  PROVE  [Abstract!Next]_(Abstract!vars)
<1> USE DEF Abstract!Next, Abstract!vars
<1>1. CASE Tick \/ UNCHANGED vars
  BY <1>1 DEF Tick, vars, defaults, Pairs
<1>2. ASSUME NEW t \in Threads, Begin(t) \/ Step(t) PROVE [Abstract!Next]_(Abstract!vars)
  <2>1. CASE PopDefaultPrintFunction(t)
    <3>1. Pairs' = IF Len(Pairs) = 1 THEN <<<<"cpp", Global>>>> ELSE SubSeq(Pairs, 1, Len(Pairs) - 1)
      BY <2>1, PopIsAbstract
    <3>2. Printing' = Printing
      BY <2>1 DEF PopDefaultPrintFunction, Printing
    <3>3. Abstract!PopDefault
      BY <3>1, <3>2 DEF Abstract!PopDefault, Printing
    <3> QED BY <3>3
  <2>2. CASE PushPointer(t)
    <3>1. PICK f \in Pointers : Pairs' = Append(Pairs, <<Known(LanguageOf[f]), f>>)
      BY <2>2, PushIsAbstract
    <3>2. Printing' = Printing
      BY <2>2 DEF PushPointer, Printing
    <3>3. Abstract!PushDefault(<<Known(LanguageOf[f]), f>>)
      BY <3>1, <3>2 DEF Abstract!PushDefault, Printing
    <3> QED BY <3>3
  <2>3. CASE Construct(t)
    <3>1. \E l \in Logs : Abstract!Create(l)
      BY <2>3, ConstructIsAbstract DEF Abstract!Create, Printing
    <3> QED BY <3>1
  <2>4. CASE Delete(t)
    <3>1. \E l \in Logs : Abstract!Destroy(l)
      BY <2>4, DeleteIsAbstract DEF Abstract!Destroy, Printing
    <3> QED BY <3>1
  <2>5. CASE ~PopDefaultPrintFunction(t) /\ ~PushPointer(t) /\ ~Construct(t) /\ ~Delete(t)
    <3>1. Pairs' = Pairs /\ Printing' = Printing
      BY <1>2, <2>5, PairsKept, PrintingKept
    <3> QED BY <3>1 DEF Printing
  <2> QED BY <2>1, <2>2, <2>3, <2>4, <2>5
<1> QED BY <1>1, <1>2 DEF Next

\* For one thread the two stacks of functions and of languages, which are pushed,
\* popped and refilled one after the other, are one stack of pairs, of which every
\* Log object gets the top.
THEOREM Refinement ==
  ASSUME OneThread
  PROVE  Spec => ImplementsAbstractLog
<1>1. Init => Abstract!Init
  BY InitIsAbstract
<1>2. Inv /\ [Next]_vars => [Abstract!Next]_(Abstract!vars)
  BY NextIsAbstract
<1> QED BY <1>1, <1>2, Invariance, PTL DEF Spec, ImplementsAbstractLog, Abstract!Spec
=============================================================================
