----------------------------- MODULE MCPrograms -----------------------------
(***************************************************************************)
(* Values of the constants of Programs, one part after the other.          *)
(***************************************************************************)
EXTENDS Programs, Sequences, FiniteSets, SequencesExt, TLC

(***************************************************************************)
(* The create routines of the example models, and routines that leave out  *)
(* a call of a complete one, make one of its calls badly, or make one      *)
(* again in another way                                                    *)
(***************************************************************************)
\* The words in which create routines are written down, which need no values
E == INSTANCE ModelRoutines WITH
  Functions <- {}, LanguageOf <- <<>>, Scripts <- {}, LateCalls <- {}, Requests <- {},
  KnownUnits <- <<>>, KnownSpecies <- {}

AllFunctions == E!RoutineNames \X E!Languages
LanguageOfAll == [f \in AllFunctions |-> E!Language(f)]

OtherLists(number, cutoffs, hint) ==
  [call |-> "SetNeighborListPointers", errors |-> "ignored", number |-> number,
   cutoffs |-> cutoffs, hint |-> hint]
NoRoutine(name) ==
  [call |-> "SetRoutinePointer", errors |-> "ignored", name |-> name, language |-> "cpp",
   required |-> TRUE, function |-> NULL]

\* A routine of every kind, in several languages
CompleteSteps ==
  <<E!Units("A", "eV", "returns"), E!ModelNumbering("ignored"),
    E!Routine("ComputeArgumentsCreate", "fortran", TRUE, "chained"),
    E!Routine("Compute", "cpp", TRUE, "chained"),
    E!Routine("Refresh", "fortran", TRUE, "chained"),
    E!Routine("Extension", "c", FALSE, "chained"),
    E!Routine("WriteParameterizedModel", "fortran", FALSE, "chained"),
    E!Routine("ComputeArgumentsDestroy", "cpp", TRUE, "chained"),
    E!Routine("Destroy", "c", TRUE, "chained"),
    E!Species("Ar", "ignored"), E!Parameter("p", "chained"),
    E!Influence(8), E!Lists(<<4, 8>>)>>

Bad ==
  { E!Units("unused", "eV", "ignored"), E!Units("A", "parsec", "chained"),
    [E!ModelNumbering("ignored") EXCEPT !.known = FALSE],
    E!Routine("Compute", "cpp", FALSE, "ignored"),
    [E!Routine("Compute", "c", TRUE, "ignored") EXCEPT !.name = "unknown"],
    E!Routine("Compute", "fortran", TRUE, "ignored"),
    E!Routine("Create", "c", TRUE, "ignored"), NoRoutine("Create"),
    NoRoutine("Refresh"), NoRoutine("Extension"), NoRoutine("Destroy"),
    [NoRoutine("Extension") EXCEPT !.language = "unknown"],
    E!Species("unknown", "chained"), E!Parameter("p", "chained"),
    E!Influence(2), E!Influence(NULL), OtherLists(0, NULL, FALSE), OtherLists(1, NULL, TRUE),
    E!File(1), E!Files(2), E!Own }

Generic(steps, files) ==
  [create |-> <<"Create", "fortran">>, steps |-> steps, parameterized |-> files > 0,
   files |-> files, example |-> FALSE, converts |-> FALSE]

SomeScripts ==
  E!Examples
  \cup {Generic(CompleteSteps, n) : n \in {0, 2}}
  \cup {Generic(RemoveAt(CompleteSteps, i), 0) : i \in 1 .. Len(CompleteSteps)}
  \cup {Generic(SelectSeq(CompleteSteps, LAMBDA s :
          /\ s.call # "SetParameterPointer"
          /\ ~(s.call = "SetRoutinePointer"
               /\ s.name \in {"Refresh", "WriteParameterizedModel"} \ k)), n) :
          k \in SUBSET {"Refresh", "WriteParameterizedModel"}, n \in {0, 1}}
  \cup {Generic(InsertAt(CompleteSteps, i, s), 1) : i \in {1, 8, Len(CompleteSteps) + 1}, s \in Bad}

SomeLateCalls ==
  { E!Parameter("late", "ignored"), E!Parameter("p", "ignored"),
    E!Routine("Refresh", "cpp", FALSE, "ignored"),
    E!Routine("Compute", "c", TRUE, "ignored"),
    E!Routine("Compute", "c", FALSE, "ignored"),
    E!Influence(4), OtherLists(0, NULL, FALSE), E!File(0) }

UnitsAskedFor(l, e) ==
  [d \in E!Dimensions |-> CASE d = "length" -> l [] d = "energy" -> e
                          [] d = "charge" -> "e" [] d = "temperature" -> "K" [] OTHER -> "ps"]
SomeUnits == {UnitsAskedFor("A", "eV"), UnitsAskedFor("Bohr", "eV"), UnitsAskedFor("unused", "eV")}
Known == [length |-> {"A", "Bohr", "unused"}, energy |-> {"eV", "unused"}, charge |-> {"e", "unused"},
          temperature |-> {"K", "unused"}, time |-> {"ps", "unused"}]

(***************************************************************************)
(* Callbacks: an optional argument and a required one, a callback, and     *)
(* functions in C++ and Fortran                                            *)
(***************************************************************************)
LanguageOfSome == [f \in SimulatorFunctions |-> IF f = "f" THEN "fortran" ELSE "cpp"]
SomeNumbering == {"zeroBased", "oneBased"}
AllPairs == [model : SomeNumbering, simulator : SomeNumbering]

(***************************************************************************)
(* Three particles, within, beyond and exactly at the cutoffs, with those  *)
(* that do not contribute before and after those that do                   *)
(***************************************************************************)
Tables(n) == [l \in 1 .. 2 |-> [r2 \in 0 .. 25 |-> (n * r2 * r2 + 5 * r2 + l) % 13]]
PhiTable == Tables(3)
DPhiTable == Tables(4)
D2PhiTable == Tables(6)

SomeCutoffs ==
  "driver" :> <<2>> @@ "07C" :> <<2>> @@ "extensions" :> <<2>> @@ "multi" :> <<1, 3>> @@ "lj" :> <<3>>

Places == {<<0, 1, 3>>, <<3, 1, 0>>, <<2, 0, 1>>}
SomeConfigurations ==
  {[n |-> 3, x |-> [k \in 0 .. 2 |-> p[k + 1]], contributing |-> c, known |-> TRUE, skin |-> w] :
     p \in Places, c \in [0 .. 2 -> BOOLEAN], w \in BOOLEAN}
  \cup {[n |-> 1, x |-> [k \in 0 .. 0 |-> 0], contributing |-> [k \in 0 .. 0 |-> TRUE], known |-> FALSE,
          skin |-> FALSE]}

(***************************************************************************)
(* A Model that both example simulators can use, and those that differ     *)
(* from it in one or two answers                                           *)
(***************************************************************************)
TestArguments == {"partialEnergy", "partialForces", "partialVirial"}

Usable ==
  [created |-> TRUE, unitsAccepted |-> TRUE, required |-> {"Create", "Compute", "Destroy"},
   species |-> TRUE, code |-> 7, makesArguments |-> TRUE, unmakesArguments |-> TRUE,
   arguments |-> [a \in TestArguments |-> "optional"], ProcessDEDrTerm |-> "optional",
   Extension |-> "succeeds", WriteParameterizedModel |-> "succeeds",
   parameters |-> <<"Integer", "Double">>, cutoffs |-> <<2>>, Refresh |-> "inPlace",
   newCutoffs |-> <<3>>]

Unusable ==
  {[Usable EXCEPT !.created = FALSE], [Usable EXCEPT !.unitsAccepted = FALSE],
   [Usable EXCEPT !.required = @ \cup {"Extension"}], [Usable EXCEPT !.species = FALSE],
   [Usable EXCEPT !.makesArguments = FALSE], [Usable EXCEPT !.ProcessDEDrTerm = "required"],
   [Usable EXCEPT !.Extension = "fails"], [Usable EXCEPT !.cutoffs = <<2, 1>>]}

Others ==
  {[Usable EXCEPT !.arguments = s] : s \in [TestArguments -> {"required", "optional", "notSupported"}]}
  \cup {[Usable EXCEPT !.parameters = p, !.WriteParameterizedModel = w] :
          p \in {<<>>, <<"Double">>, <<"Double", "Integer">>, <<"Integer", "Double", "Integer">>},
          w \in {"absent", "fails", "succeeds"}}
  \cup {[Usable EXCEPT !.Refresh = r, !.newCutoffs = c, !.unmakesArguments = u] :
          r \in {"fails", "inPlace", "moves"}, c \in {<<1>>, <<2>>, <<4>>, <<3, 3>>}, u \in BOOLEAN}

SomeModels == {Usable} \cup Unusable \cup Others
SomeSpacings == <<2, 3>>
=============================================================================
