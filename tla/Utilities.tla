----------------------------- MODULE Utilities -----------------------------
(***************************************************************************)
(* Programs that read what Models and Simulator Models say of themselves:  *)
(* kim-api-portable-model-info, kim-api-simulator-model and the example    *)
(* programs simulator-model-example in C and C++.                          *)
(*                                                                         *)
(* An action is a section of a main.  A pointer is "unset" before a call   *)
(* writes it, then "null" or "object".  Which calls fail is not known; a   *)
(* call through a null pointer ends the program, "crashed".  The text they *)
(* print is left out, but for the contents of files.                       *)
(***************************************************************************)
EXTENDS Integers, Sequences, FiniteSets

CONSTANTS
  MaxFields,   \* bound: simulator fields
  MaxItems     \* bound: lines of a field, parameter files and species

UtilitiesAssumption == MaxFields \in Nat /\ MaxItems \in Nat

Programs == {"portable-model-info", "simulator-model", "example", "example-c"}
Examples == {"example", "example-c"}
Pointers == {"unset", "null", "object"}
Extents == UNION {[1 .. n -> 0 .. MaxItems] : n \in 0 .. MaxFields}

VARIABLES
  program, pc,
  outcome,     \* "running", "returned" from main, "exited", "crashed"
  status,      \* what the program returned or exited with
  pointer,     \* mdl, computeArguments and simulatorModel (SM)
  templateMap, \* that of the Simulator Model: "open" or "closed"
  fields,      \* how many lines its fields have
  at,          \* the index the program's loop is at
  arguments,   \* what argv[2] and argv[3] ask for
  file,        \* "closed", "open", or "gone" when it is opened and is not there
  data,        \* fileData: "none", "short", "whole"
  printed      \* what was written of a file

objects == <<pointer, templateMap, fields>>
vars == <<program, pc, outcome, status, objects, at, arguments, file, data, printed>>

Init ==
  /\ program \in Programs /\ pc = "begin" /\ outcome = "running" /\ status = 0
  /\ pointer = [p \in {"mdl", "computeArguments", "simulatorModel"} |-> "unset"]
  /\ templateMap = "open" /\ fields \in Extents /\ at = 0
  /\ arguments \in [what : {"nothing", "number", "specification", "index"}, wish : {"name", "data", "other"}]
  /\ file = "closed" /\ data = "none" /\ printed = "nothing"

At(p, label) == program = p /\ pc = label /\ outcome = "running"
Goto(label) == pc' = label /\ UNCHANGED <<outcome, status>>
Ends(how, s) == outcome' = how /\ status' = s /\ UNCHANGED pc
Creates(p, made) == pointer' = [pointer EXCEPT ![p] = IF made THEN "object" ELSE "null"]

(***************************************************************************)
(* portable-model-info.cpp                                                 *)
(***************************************************************************)
InfoUsage ==
  /\ At("portable-model-info", "begin")
  /\ \E s \in {0, 1} : Ends("returned", s)
  /\ UNCHANGED <<program, objects, at, arguments, file, data, printed>>

InfoCreate ==
  /\ At("portable-model-info", "begin")
  /\ \E made \in BOOLEAN :
       /\ Creates("mdl", made)
       /\ IF made THEN Goto("units") ELSE Ends("exited", 1)
  /\ UNCHANGED <<program, templateMap, fields, at, arguments, file, data, printed>>

InfoUnitsToSpecies ==
  /\ At("portable-model-info", "units") /\ Goto("parameters")
  /\ UNCHANGED <<program, objects, at, arguments, file, data, printed>>

InfoParametersToExtensions ==
  /\ At("portable-model-info", "parameters") /\ Goto("arguments")
  /\ UNCHANGED <<program, objects, at, arguments, file, data, printed>>

\* An error is no reason to stop: the arguments are left out of what is printed.
InfoComputeArguments ==
  /\ At("portable-model-info", "arguments")
  /\ \E made \in BOOLEAN : Creates("computeArguments", made)
  /\ Goto("callbacks")
  /\ UNCHANGED <<program, templateMap, fields, at, arguments, file, data, printed>>

\* Fault: the callbacks are read whatever the pointer is.
ReadsAlways == TRUE

Reads == pointer["computeArguments"] # "null"

InfoComputeCallbacks ==
  /\ At("portable-model-info", "callbacks")
  /\ IF Reads /\ pointer["computeArguments"] # "object" THEN Ends("crashed", 0) ELSE Goto("destroy")
  /\ UNCHANGED <<program, objects, at, arguments, file, data, printed>>

\* The Model compares its name with that of the arguments, through their pointer.  If its
\* routine fails they stay.
InfoDestroy ==
  /\ At("portable-model-info", "destroy")
  /\ IF pointer["computeArguments"] = "null"
       THEN Ends("crashed", 0) /\ UNCHANGED pointer
       ELSE /\ \E kept \in {"null", "object"} :
                 pointer' = [pointer EXCEPT !["computeArguments"] = kept, !["mdl"] = "null"]
            /\ Goto("print")
  /\ UNCHANGED <<program, templateMap, fields, at, arguments, file, data, printed>>

InfoPrint ==
  /\ At("portable-model-info", "print")
  /\ Ends("returned", 0) \/ Ends("exited", 2)
  /\ UNCHANGED <<program, objects, at, arguments, file, data, printed>>

(***************************************************************************)
(* simulator-model.cpp: every way from the creation on leads to cleanup.   *)
(***************************************************************************)
\* Fault: an error returns at once.
ReturnsAtOnce(s) == Ends("returned", s)

Cleanup(s) == pc' = "cleanup" /\ status' = s /\ UNCHANGED outcome

ModelUsage ==
  /\ At("simulator-model", "begin")
  /\ \E s \in {0, -1} : Ends("returned", s)
  /\ UNCHANGED <<program, objects, at, arguments, file, data, printed>>

ModelCreate ==
  /\ At("simulator-model", "begin")
  /\ \E made \in BOOLEAN :
       /\ Creates("simulatorModel", made)
       /\ IF made THEN Goto("asked") ELSE Ends("returned", 1)
  /\ UNCHANGED <<program, templateMap, fields, at, arguments, file, data, printed>>

\* With a number of an item, what is wished of it may be left out.
ModelAsked ==
  /\ At("simulator-model", "asked")
  /\ IF arguments.what \in {"nothing", "number"}
       THEN Cleanup(0)
       ELSE Cleanup(-2) \/ Goto(arguments.what)
  /\ UNCHANGED <<program, objects, at, arguments, file, data, printed>>

\* Opens the file to find how long it is, and closes it.
Measures ==
  /\ file' \in {"closed", "gone"}
  /\ IF file' = "gone" THEN Cleanup(8) ELSE Goto("reopen")

ModelSpecification ==
  /\ At("simulator-model", "specification")
  /\ Measures
  /\ UNCHANGED <<program, objects, at, arguments, data, printed>>

\* There is no parameter file of this number, or its name cannot be had.
ModelParameterFile ==
  /\ At("simulator-model", "index")
  /\ \/ UNCHANGED file /\ \E s \in {7, 8} : Cleanup(s)
     \/ Measures
  /\ UNCHANGED <<program, objects, at, arguments, data, printed>>

\* The file is opened a second time, and this is not looked at.
ModelReopen ==
  /\ At("simulator-model", "reopen")
  /\ file' \in {"open", "gone"}
  /\ IF file' = "gone" THEN Ends("crashed", 0) ELSE Goto("read")
  /\ UNCHANGED <<program, objects, at, arguments, data, printed>>

\* Fault: how much was read is not looked at.
TakesAny(d) == TRUE

IsWhole(d) == d = "whole"

\* On an error fileData is not given back.
ModelRead ==
  /\ At("simulator-model", "read")
  /\ file' = "closed"
  /\ data' \in {"short", "whole"}
  /\ IF IsWhole(data') THEN Goto("write") ELSE Cleanup(8)
  /\ UNCHANGED <<program, objects, at, arguments, printed>>

ModelWrite ==
  /\ At("simulator-model", "write")
  /\ printed' = CASE arguments.wish = "data" -> data
                  [] arguments.wish = "name" -> "name"
                  [] OTHER -> printed
  /\ data' = "none"
  /\ Cleanup(0)
  /\ UNCHANGED <<program, objects, at, arguments, file>>

\* Fault: a pointer that is null is followed.
DestroysObjects(p) == p = "object"

\* SimulatorModel::Destroy, which accepts NULL.
Destroys(p) == p \in {"object", "null"}

Destroy ==
  IF Destroys(pointer["simulatorModel"])
    THEN pointer' = [pointer EXCEPT !["simulatorModel"] = "null"] /\ Ends("returned", status)
    ELSE Ends("crashed", 0) /\ UNCHANGED pointer

ModelCleanup ==
  /\ At("simulator-model", "cleanup")
  /\ Destroy
  /\ UNCHANGED <<program, templateMap, fields, at, arguments, file, data, printed>>

(***************************************************************************)
(* simulator-model-example.cpp and simulator-model-example-c.cpp: an error *)
(* leads to fail, where the Simulator Model is destroyed too.              *)
(***************************************************************************)
IsExample(label) == program \in Examples /\ pc = label /\ outcome = "running"
GotoOrFail(label) ==
  /\ pc' \in {label, "fail"} /\ UNCHANGED outcome
  /\ status' = IF pc' = "fail" THEN 1 ELSE status

\* The program in C++ returns at once, the one in C destroys what is NULL.
ExampleCreate ==
  /\ At("example", "begin")
  /\ \E made \in BOOLEAN :
       /\ Creates("simulatorModel", made)
       /\ IF made THEN Goto("species") ELSE Ends("returned", 1)
  /\ UNCHANGED <<program, templateMap, fields, at, arguments, file, data, printed>>

ExampleCCreate ==
  /\ At("example-c", "begin")
  /\ \E made \in BOOLEAN :
       /\ Creates("simulatorModel", made)
       /\ IF made THEN Goto("species") ELSE pc' = "fail" /\ status' = 1 /\ UNCHANGED outcome
  /\ UNCHANGED <<program, templateMap, fields, at, arguments, file, data, printed>>

ExampleSpecies ==
  /\ IsExample("species") /\ GotoOrFail("template map")
  /\ UNCHANGED <<program, objects, at, arguments, file, data, printed>>

\* Fault: the map is left open.
KeepsOpen == "open"

CloseTemplateMap == "closed"

ExampleTemplateMap ==
  /\ IsExample("template map") /\ GotoOrFail("fields")
  /\ templateMap' = IF pc' = "fail" THEN templateMap ELSE CloseTemplateMap
  /\ UNCHANGED <<program, pointer, fields, at, arguments, file, data, printed>>

\* A line is refused as long as the map is open.
ReadsLines(n) ==
  GotoOrFail("fields") /\ (n > 0 /\ templateMap = "open" => pc' = "fail")

\* Fault: the index is moved on by the body of the loop too.
MovesTwice == at + 2

NextField == at + 1

ExampleField ==
  /\ IsExample("fields") /\ at < Len(fields)
  /\ ReadsLines(fields[at + 1])
  /\ at' = IF pc' = "fail" THEN at ELSE NextField
  /\ UNCHANGED <<program, objects, arguments, file, data, printed>>

ExampleLastField ==
  /\ IsExample("fields") /\ at = Len(fields)
  /\ Goto("parameter files")
  /\ UNCHANGED <<program, objects, at, arguments, file, data, printed>>

ExampleParameterFiles ==
  /\ IsExample("parameter files") /\ GotoOrFail("end")
  /\ UNCHANGED <<program, objects, at, arguments, file, data, printed>>

ExampleEnd ==
  /\ IsExample("end") \/ IsExample("fail")
  /\ Destroy
  /\ UNCHANGED <<program, templateMap, fields, at, arguments, file, data, printed>>

Next ==
  \/ InfoUsage \/ InfoCreate \/ InfoUnitsToSpecies \/ InfoParametersToExtensions
  \/ InfoComputeArguments \/ InfoComputeCallbacks \/ InfoDestroy \/ InfoPrint
  \/ ModelUsage \/ ModelCreate \/ ModelAsked \/ ModelSpecification \/ ModelParameterFile
  \/ ModelReopen \/ ModelRead \/ ModelWrite \/ ModelCleanup
  \/ ExampleCreate \/ ExampleCCreate \/ ExampleSpecies \/ ExampleTemplateMap \/ ExampleField
  \/ ExampleLastField \/ ExampleParameterFiles \/ ExampleEnd

Spec == Init /\ [][Next]_vars

(***************************************************************************)
(* Properties.                                                             *)
(***************************************************************************)
TypeOK ==
  /\ program \in Programs /\ outcome \in {"running", "returned", "exited", "crashed"}
  /\ status \in {-2, -1, 0, 1, 2, 7, 8}
  /\ pointer \in [{"mdl", "computeArguments", "simulatorModel"} -> Pointers]
  /\ templateMap \in {"open", "closed"} /\ fields \in Extents /\ at \in 0 .. Len(fields)
  /\ file \in {"closed", "open", "gone"} /\ data \in {"none", "short", "whole"}
  /\ printed \in {"nothing", "name", "short", "whole"}

\* kim-api-portable-model-info goes on without the arguments that a Model did not create, as it
\* does when it comes to the callbacks.  (README, "What the documentation says and the code does
\* not do": it does not when it destroys them.)
RefusedArgumentsAreLeft == program = "portable-model-info" => outcome # "crashed"

\* In whatever order calls fail, a program uses what is NULL in two places only: the arguments that
\* a Model did not create, and a file that is removed between the two times that it is opened.
CrashesAreKnown ==
  outcome = "crashed" =>
    \/ program = "portable-model-info" /\ pc = "destroy" /\ pointer["computeArguments"] = "null"
    \/ program = "simulator-model" /\ file = "gone" /\ pc = "reopen"

\* However a program returns from main, the Model and the Simulator Model that it created are
\* destroyed and its file is closed; its exit status is zero only if it had them.
ReturnIsClean ==
  outcome = "returned" =>
    /\ pointer["mdl"] # "object" /\ pointer["simulatorModel"] # "object" /\ file # "open"
    /\ status = 0 /\ pc # "begin" => "null" \in {pointer["mdl"], pointer["simulatorModel"]}

\* kim-api-simulator-model writes a file as a whole or not at all, and never with an error.
PrintsWholeFiles ==
  /\ printed # "short"
  /\ printed = "whole" => status = 0 /\ arguments.wish = "data"

\* An example program that succeeds has read the lines of all fields, with the template map closed.
ReadsAllFields ==
  outcome = "returned" /\ program \in Examples /\ status = 0 =>
    at = Len(fields) /\ templateMap = "closed"
=============================================================================
