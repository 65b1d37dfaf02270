----------------------------- MODULE Interface -----------------------------
(***************************************************************************)
(* A call from C++, C or Fortran on its way through the layers of the API  *)
(* to the function of the implementation, and its results on their way     *)
(* back.  The functions are those of InterfaceFortran, InterfaceC and      *)
(* InterfaceCpp; what they compute is the subject of other modules.  Here  *)
(* it is which of them is reached, with which arguments, and what the      *)
(* caller gets of it.                                                      *)
(*                                                                         *)
(* Calls share nothing, so a behaviour is one call.  A value says which    *)
(* argument it is, in which form, and what its elements are counted from.  *)
(***************************************************************************)
EXTENDS Integers, Sequences, SequencesExt, InterfaceRows

CONSTANT RowAt   \* the functions of each layer, by class and name

VARIABLES
  caller,    \* the call
  frames,    \* the functions that were entered and have not returned
  phase,
  returned,  \* the results of the function that returned last
  error,     \* its status: TRUE for an error
  failed,    \* whether the implementation has failed
  fault      \* "NULL" if a result was written at NULL, "unset" if one was read that nobody has written

vars == <<caller, frames, phase, returned, error, failed, fault>>

Below == [Fortran |-> "C", C |-> "Cpp", Cpp |-> "Implementation"]

\* The function of C++ that is meant.  A function of Fortran may be named after one of
\* several things that a function of C++ does, and calls a function of C that serves it.
CppNameOf(layer, row) ==
  IF row.name \in DOMAIN RowAt["Cpp"][row.class] THEN row.name
  ELSE IF layer = "Fortran" THEN RowAt["C"][row.calleeClass][row.callee].callee ELSE row.callee
Meant(layer, row) == RowAt["Cpp"][row.class][CppNameOf(layer, row)]

\* The names of its parameters, in the order in which all layers declare them
Signature(cppRow) == [i \in DOMAIN cppRow.passed |-> cppRow.passed[i].of]

Where(row, p) == CHOOSE i \in DOMAIN row.passed : row.passed[i].of = p
How(row, p) == row.passed[Where(row, p)].how
Parameters(row) == {row.passed[i].of : i \in DOMAIN row.passed}
ResultsOf(row) == {p \in Parameters(row) : How(row, p) \in Results}
InputsOf(row) == Parameters(row) \ ResultsOf(row)
IsText(row, p) == How(row, p) \in {"Text"} \cup TextResults

(***************************************************************************)
(* Values                                                                  *)
(***************************************************************************)
FormOfText == [Fortran |-> "blanks", C |-> "null", Cpp |-> "string"]

Value(p, from, form) == [of |-> p, base |-> from, form |-> form, whole |-> TRUE]
Null == Value("NULL", 0, "address")
AddressOf(p) == Value(p, 0, "address")
Unset == Value("nothing", 0, "plain")
FixedValue == Value("fixed", 0, "plain")

\* What a caller gives: Fortran counts from 1, and has texts filled up with blanks.
Given(layer, meant, p, omitted) ==
  IF p \in omitted THEN Null
  ELSE IF p \in ResultsOf(meant) THEN AddressOf(p)
  ELSE Value(p, IF layer = "Fortran" /\ How(meant, p) = "Index" THEN 1 ELSE 0,
                IF IsText(meant, p) THEN FormOfText[layer] ELSE "plain")

\* Fault: C takes one from an index as well.
ArgumentShiftedTwice(layer, how, v, contiguous) ==
  CASE how = "Index" /\ layer \in {"Fortran", "C"} -> [v EXCEPT !.base = @ - 1]
    [] how = "Text" /\ layer = "Fortran" -> [v EXCEPT !.form = "null"]
    [] how = "Text" /\ layer = "C" -> [v EXCEPT !.form = "string"]
    [] how \in {"Array", "First"} -> [v EXCEPT !.whole = contiguous]
    [] how = "Fixed" -> FixedValue
    [] OTHER -> v

\* An argument that is passed on.  An array that is not contiguous is passed as a copy that
\* does not outlast the call, or as the address of an element that others do not follow.
Argument(layer, how, v, contiguous) ==
  CASE how = "Index" /\ layer = "Fortran" -> [v EXCEPT !.base = @ - 1]
    [] how = "Text" /\ layer = "Fortran" -> [v EXCEPT !.form = "null"]
    [] how = "Text" /\ layer = "C" -> [v EXCEPT !.form = "string"]
    [] how \in {"Array", "First"} -> [v EXCEPT !.whole = contiguous]
    [] how = "Fixed" -> FixedValue
    [] OTHER -> v

\* The address for a result that is passed on: the caller's or, where the result is
\* translated, dropped or copied, one of the function's own.
Address(layer, how, p, v) ==
  IF \/ layer = "Cpp" \/ how \in {"Out", "Optional"}
     \/ how \in TestedTexts /\ v = Null
  THEN v ELSE AddressOf(p)

\* A result on its way back: C reads a std::string by c_str(), Fortran fills up a variable.
Translates(layer, how) == layer # "Cpp" /\ how \in TextResults
Translated(layer, how, v) ==
  IF Translates(layer, how) /\ v \notin {Unset, Null} THEN [v EXCEPT !.form = FormOfText[layer]] ELSE v

(***************************************************************************)
(* The tables                                                              *)
(***************************************************************************)
\* The function of the implementation that a function of C++ calls
Implemented(cppRow) == [cppRow EXCEPT !.class = cppRow.calleeClass]

\* What a function calls.  A function of C that serves Fortran calls one of C.
CalleeLayer(layer, row) == IF layer = "C" /\ row.callee # row.name THEN "C" ELSE Below[layer]
Callee(layer, row) ==
  IF layer = "Cpp" THEN Implemented(row)
  ELSE RowAt[CalleeLayer(layer, row)][row.calleeClass][row.callee]

\* What Fortran callers have no say in: the place in a source file of an entry of the Log,
\* and the size of an array of parameters, which is that of the array
LeftOut(layer, meant, p) ==
  /\ layer = "Fortran"
  /\ \/ p \in {"lineNumber", "fileName"} /\ meant.name = "LogEntry"
     \/ p = "extent"

\* One function passes on what its callee expects: in the same places, indices from 0 and texts
\* in the form of the layer below, where it is another one.
PassesOn(layer, row, target, p) ==
  LET how == How(row, p)
      converts == CalleeLayer(layer, row) # layer /\ IsText(target, p)
  IN  /\ p \in InputsOf(target) =>
           \/ how = "Fixed" /\ LeftOut(layer, target, p)
           \/ /\ how # "Fixed"
              /\ layer = "Fortran" => (how = "Index" <=> How(target, p) = "Index")
              /\ how = "Text" <=> converts
      /\ p \in ResultsOf(target) =>
           \/ how = "Local" /\ layer = "Fortran"
           \/ how # "Local" /\ (how \in TextResults <=> converts)

IsRow(row) ==
  /\ row \in [class : STRING, name : STRING, calleeClass : STRING, callee : STRING,
               passed : Seq([how : STRING, of : STRING]), status : STRING]
  /\ \A i, j \in DOMAIN row.passed : row.passed[i].of = row.passed[j].of => i = j

InTable(layer, row) ==
  /\ row.class \in DOMAIN RowAt[layer] /\ row.name \in DOMAIN RowAt[layer][row.class]
  /\ RowAt[layer][row.class][row.name] = row

\* Each function by itself fits to the one that it calls.  (Where a Model writes itself, the
\* functions of Fortran call those of C for its computation, which serve as well.)
Fits(layer, row) ==
  LET meant == Meant(layer, row)
      target == Implemented(meant)
      below == Callee(layer, row)
  IN  /\ IsRow(row) /\ InTable("Cpp", meant)
      /\ Signature(row) = Signature(target) /\ ResultsOf(row) = ResultsOf(target)
      /\ \A p \in Parameters(row) : PassesOn(layer, row, target, p)
      /\ target.status = "error" => row.status = "error"
      /\ IF layer = "Cpp" THEN row = meant
         ELSE LET next == CalleeLayer(layer, row)
              IN  InTable(next, below) /\ Implemented(Meant(next, below)) = target

RowsAssumption ==
  /\ DOMAIN RowAt = {"Fortran", "C", "Cpp"}
  /\ \A layer \in DOMAIN RowAt : \A class \in DOMAIN RowAt[layer] : \A name \in DOMAIN RowAt[layer][class] :
       LET row == RowAt[layer][class][name]
       IN  row.class = class /\ row.name = name /\ Fits(layer, row)

(***************************************************************************)
(* The way down                                                            *)
(***************************************************************************)
Omissions(meant) ==
  LET optional == {p \in ResultsOf(meant) : How(meant, p) \in MayBeOmitted}
  IN  {{}, optional} \cup {{p} : p \in optional}

Contiguities(row) ==
  IF \E p \in Parameters(row) : How(row, p) \in {"Array", "First"} THEN BOOLEAN ELSE {TRUE}

\* A program in one of the languages calls one of its functions.
Enter(layer, row) ==
  LET meant == Meant(layer, row)
  IN  /\ phase = "none"
      /\ \E omitted \in IF layer = "Fortran" THEN {{}} ELSE Omissions(meant),
            contiguous \in Contiguities(row),
            tooSmall \in SUBSET {p \in Parameters(row) : How(row, p) = "Copied"} :
           /\ caller' = [layer |-> layer, row |-> row, contiguous |-> contiguous, omitted |-> omitted,
                         tooSmall |-> tooSmall]
           /\ frames' = << [layer |-> layer, row |-> row,
                            arguments |-> [p \in Parameters(row) |-> Given(layer, meant, p, omitted)]] >>
      /\ phase' = "down"
      /\ UNCHANGED <<returned, error, failed, fault>>

\* The function on top calls the one below, whose parameters have names of their own.
PassOn ==
  LET top == Last(frames)
      row == top.row
      passed == [i \in DOMAIN row.passed |->
                   LET p == row.passed[i].of
                       how == row.passed[i].how
                   IN  IF how \in Results THEN Address(top.layer, how, p, top.arguments[p])
                       ELSE Argument(top.layer, how, top.arguments[p], caller.contiguous)]
      layer == CalleeLayer(top.layer, row)
      callee == Callee(top.layer, row)
      names == Signature(IF top.layer = "Cpp" THEN row ELSE Meant(layer, callee))
  IN  /\ phase = "down" /\ top.layer # "Implementation"
      /\ frames' = Append(frames,
                     [layer |-> layer, row |-> callee,
                      arguments |-> [p \in {names[i] : i \in DOMAIN names} |->
                                       passed[CHOOSE i \in DOMAIN names : names[i] = p]]])
      /\ UNCHANGED <<caller, phase, returned, error, failed, fault>>

(***************************************************************************)
(* The way back                                                            *)
(***************************************************************************)
\* The implementation writes its results, unless it fails; those that may be omitted it
\* tests for NULL.  A file that is not available as a string has no text.
Written(row, p, availableAsString) ==
  CASE How(row, p) = "TextOrNull" /\ ~availableAsString -> Null
    [] How(row, p) = "TextIfAny" /\ ~availableAsString -> Unset
    [] OTHER -> Value(p, 0, IF IsText(row, p) THEN "string" ELSE "plain")

Implementation ==
  LET top == Last(frames)
      unguarded == {p \in ResultsOf(top.row) : How(top.row, p) \notin MayBeOmitted}
  IN  /\ phase = "down" /\ top.layer = "Implementation"
      /\ failed' \in IF top.row.status = "error" THEN BOOLEAN ELSE {FALSE}
      /\ error' = failed'
      /\ fault' = IF ~failed' /\ \E p \in unguarded : top.arguments[p] = Null THEN "NULL" ELSE "none"
      /\ \E availableAsString \in BOOLEAN :
           returned' = [p \in ResultsOf(top.row) |->
                          IF failed' THEN Unset ELSE Written(top.row, p, availableAsString)]
      /\ frames' = Front(frames)
      /\ phase' = "up"
      /\ UNCHANGED caller

\* The function below has returned to the one on top, which returns too.
Return ==
  LET top == Last(frames)
      row == top.row
      names == Signature(Meant(top.layer, row))
      Result(p) == returned[names[Where(row, p)]]
      \* After an error, results are not looked at, with the exception of some texts in Fortran.
      read == {p \in ResultsOf(row) :
                 /\ Translates(top.layer, How(row, p)) /\ (error => How(row, p) = "AlwaysText")
                 /\ ~(How(row, p) \in TestedTexts /\ top.arguments[p] = Null)}
      copied == {i \in DOMAIN row.passed : row.passed[i].how = "Copied"}
      lastCopied == row.passed[CHOOSE i \in copied : \A j \in copied : j <= i].of
  IN  /\ phase = "up" /\ fault = "none" /\ frames # <<>>
      /\ returned' = [p \in ResultsOf(row) |->
                        IF How(row, p) = "Local" \/ p \in caller.tooSmall THEN Unset
                        ELSE Translated(top.layer, How(row, p), Result(p))]
      /\ fault' = IF \E p \in read : Result(p) = Unset THEN "unset"
                  ELSE IF \E p \in read : top.arguments[p] = Null THEN "NULL" ELSE "none"
      /\ CASE row.status = "error" -> error' = error
           [] row.status = "none" -> error' = FALSE
           [] row.status = "own" -> error' = (lastCopied \in caller.tooSmall)
           [] row.status = "undefined" -> error' \in BOOLEAN
      /\ frames' = Front(frames)
      /\ UNCHANGED <<caller, phase, failed>>

(***************************************************************************)
(* The specification                                                       *)
(***************************************************************************)
NoCall == [layer |-> "none"]

Init ==
  /\ caller = NoCall /\ frames = <<>> /\ phase = "none"
  /\ returned = <<>> /\ error = FALSE /\ failed = FALSE /\ fault = "none"

Next ==
  \/ \E layer \in DOMAIN RowAt : \E class \in DOMAIN RowAt[layer] : \E name \in DOMAIN RowAt[layer][class] :
       Enter(layer, RowAt[layer][class][name])
  \/ PassOn
  \/ Implementation
  \/ Return

Spec == Init /\ [][Next]_vars

(***************************************************************************)
(* What must hold                                                          *)
(***************************************************************************)
MeantByCaller == Meant(caller.layer, caller.row)
Arrived == phase = "down" /\ Last(frames).layer = "Implementation"
Back == phase = "up" /\ frames = <<>> /\ fault = "none"

\* The implementation's function is the one meant, and it gets every argument in its place.
ArgumentsArrive ==
  Arrived =>
    LET f == Last(frames)
        meant == MeantByCaller
    IN  /\ f.row.class = meant.calleeClass /\ f.row.name = meant.name
        /\ \A p \in InputsOf(meant) :
             \/ f.arguments[p].of = "fixed" /\ LeftOut(caller.layer, meant, p)
             \/ /\ f.arguments[p].of = p /\ f.arguments[p].base = 0
                /\ f.arguments[p].form = IF IsText(meant, p) THEN "string" ELSE "plain"

\* The text of a file that may not be available as a string
MayBeWithoutText(p) == How(MeantByCaller, p) \in {"TextOrNull", "TextIfAny"}

\* The caller gets each result under its name, with texts of its own language, and learns
\* of failures wherever C++ tells of them.
ResultsComeBack ==
  Back =>
    /\ \A p \in ResultsOf(caller.row) :
         \/ failed \/ p \in caller.tooSmall \/ How(caller.row, p) = "Local"
         \/ returned[p] = Value(p, 0, IF IsText(MeantByCaller, p) THEN FormOfText[caller.layer] ELSE "plain")
         \/ MayBeWithoutText(p) /\ returned[p] \in {Null, Unset}
    /\ MeantByCaller.status = "error" => error = failed

\* Whatever the caller's language, a call arrives at the function that is meant, and its
\* results come back.
CallsArrive == ArgumentsArrive /\ ResultsComeBack

\* What a caller of Fortran passes is what arrives, also if its array is a section of another.
\* (The code does not keep this: README, "What the documentation says and the code does not do".)
ArraysArrive == Arrived => \A p \in DOMAIN Last(frames).arguments : Last(frames).arguments[p].whole

\* A result that the implementation can do without may be omitted.
\* (The code does not keep this: README, "What the documentation says and the code does not do".)
CallersMayOmit == fault # "NULL"

\* A call that fails leaves the caller's variables as they are.
\* (The code does not keep this: README, "What the documentation says and the code does not do".)
FailuresLeaveResults == failed => fault # "unset"

\* The text of a metadata file is NULL if it is not available as a string.
\* (The code does not keep this: README, "What the documentation says and the code does not do".)
FilesHaveTextOrNull ==
  ~failed =>
    /\ fault # "unset"
    /\ Back => \A p \in DOMAIN returned : MayBeWithoutText(p) /\ How(caller.row, p) # "Local" => returned[p] # Unset

\* An array without room for the values is reported, and functions that cannot fail do not.
\* (The code does not keep this: README, "What the documentation says and the code does not do".)
StatusTellsAll ==
  Back => (error <=> failed \/ caller.tooSmall # {})
=============================================================================
