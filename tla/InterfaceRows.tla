--------------------------- MODULE InterfaceRows ---------------------------
(***************************************************************************)
(* The words in which InterfaceCpp, InterfaceC and InterfaceFortran write  *)
(* down the functions of the three interfaces.  A function has a row: what *)
(* it calls one layer further down, and what it passes there, parameter by *)
(* parameter in the order of the function that it calls.                   *)
(***************************************************************************)
EXTENDS Sequences

(***************************************************************************)
(* What is passed: the caller's argument and what becomes of it on the way *)
(***************************************************************************)
Passed(how, p) == [how |-> how, of |-> p]

In(p) == Passed("In", p)         \* a value or an address, as it is
Index(p) == Passed("Index", p)   \* the number of an element; Fortran counts from 1 and passes p - 1
Text(p) == Passed("Text", p)     \* Fortran: trim(p)//c_null_char; C: char const *, made a std::string
Array(p) == Passed("Array", p)   \* an address the callee keeps, of a Fortran array of explicit shape
First(p) == Passed("First", p)   \* the first element of a Fortran array of assumed shape
Fixed(p) == Passed("Fixed", p)   \* what the caller has no say in: 0, "", the size of an array

Out(p) == Passed("Out", p)                     \* the address for a result, as it is
Optional(p) == Passed("Optional", p)           \* one that may be NULL, and is tested
OutText(p) == Passed("OutText", p)             \* a text that is made one of the caller's language
OptionalText(p) == Passed("OptionalText", p)   \* the same, after a test for NULL
TextOrNull(p) == Passed("TextOrNull", p)       \* the same, of a text that there may be none of: then it is NULL
TextIfAny(p) == Passed("TextIfAny", p)         \* the same, but then nothing is written
AlwaysText(p) == Passed("AlwaysText", p)       \* a text that is made one of the language also after an error
Local(p) == Passed("Local", p)                 \* a result that the function asks for and drops
Copied(p) == Passed("Copied", p)               \* one that is copied into the caller's array if it fits

TestedTexts == {"OptionalText", "TextOrNull", "TextIfAny"}
TextResults == {"OutText", "AlwaysText"} \cup TestedTexts
Results == {"Out", "Optional", "Local", "Copied"} \cup TextResults
MayBeOmitted == {"Optional"} \cup TestedTexts

(***************************************************************************)
(* Functions: their status is the callee's error, or there is none, or one *)
(* that the function makes up itself, or one that nobody sets.             *)
(***************************************************************************)
Row(name, passed, status) ==
  [class |-> "", name |-> name, calleeClass |-> "", callee |-> name, passed |-> passed, status |-> status]

Call(name, passed) == Row(name, passed, "error")
Do(name, passed) == Row(name, passed, "none")
Own(name, passed) == Row(name, passed, "own")
Undefined(name, passed) == Row(name, passed, "undefined")

\* Functions with a result of their own
Ask(name, passed) == Do(name, Append(passed, Out("result")))
Say(name, passed) == Do(name, Append(passed, OutText("result")))

\* A function that has another name than the one it calls
As(name, row) == [row EXCEPT !.name = name]

\* The functions of a class, which call those of the same or of another one
Via(class, calleeClass, rows) == {[r EXCEPT !.class = class, !.calleeClass = calleeClass] : r \in rows}
Of(class, rows) == Via(class, class, rows)

(***************************************************************************)
(* Parameters that many functions have                                     *)
(***************************************************************************)
Entry == <<In("logVerbosity"), Text("message"), In("lineNumber"), Text("fileName")>>
EntryWithoutPlace == <<In("logVerbosity"), Text("message"), Fixed("lineNumber"), Fixed("fileName")>>

UnitsIn == <<In("lengthUnit"), In("energyUnit"), In("chargeUnit"), In("temperatureUnit"), In("timeUnit")>>
UnitConversion ==
  <<In("fromLengthUnit"), In("fromEnergyUnit"), In("fromChargeUnit"), In("fromTemperatureUnit"), In("fromTimeUnit"),
    In("toLengthUnit"), In("toEnergyUnit"), In("toChargeUnit"), In("toTemperatureUnit"), In("toTimeUnit"),
    In("lengthExponent"), In("energyExponent"), In("chargeExponent"), In("temperatureExponent"), In("timeExponent"),
    Out("conversionFactor")>>

\* The functions that every enumeration has.  Equal and NotEqual are not among them: each
\* language compares the numbers itself.
Enumeration(class) ==
  Of(class, {
    Do("GetNumber", <<Out("number")>>),
    Call("Get", <<Index("index"), Out("value")>>),
    Ask("Known", <<In("value")>>),
    Ask("FromString", <<Text("string")>>),
    Say("ToString", <<In("value")>>)})
=============================================================================
