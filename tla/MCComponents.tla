---------------------------- MODULE MCComponents ----------------------------
(***************************************************************************)
(* Values of the constants of Components, one component after the other.   *)
(***************************************************************************)
EXTENDS Components, Sequences, FiniteSets, Functions, TLC

(***************************************************************************)
(* Versions                                                                *)
(***************************************************************************)
Version(major, minor, patch, prerelease, buildMetadata) ==
  [major |-> major, minor |-> minor, patch |-> patch,
   prerelease |-> prerelease, buildMetadata |-> buildMetadata]

Alphas == {<<"a">>, <<"A">>, <<"a", "-">>}
Numerics == {<<"2">>, <<"1", "0">>}
SomeSeries ==
  LET ids == Alphas \cup Numerics
  IN  {<<>>} \cup {<<id>> : id \in ids} \cup {<<a, b>> : a \in {<<"a">>, <<"2">>}, b \in ids}

AllVersions ==
  {Version(1, 0, 0, p, <<>>) : p \in SomeSeries}
  \cup {Version(1, 0, 0, p, b) :
          p \in {<<>>, << <<"a">> >>}, b \in {<< <<"0", "1">> >>, << <<"-", "a">>, <<"2">> >>}}
  \cup {Version(major, minor, patch, p, <<>>) :
          major \in {0, 2, 10}, minor \in {0, 2}, patch \in {0, 10}, p \in {<<>>}}

Characters == {"0", "1", "a", ".", "-", "+"}
AllStrings == UNION {[1..n -> Characters] : n \in 0..4}
Longer ==
  {<<"0", ".">> \o s : s \in [1..3 -> Characters]}
  \cup {<<"0", ".", "1", ".">> \o s : s \in UNION {[1..n -> Characters] : n \in 3..4}}
ManyStrings == AllStrings \cup Longer

(***************************************************************************)
(* Units                                                                   *)
(***************************************************************************)
SomeUnits ==
  [length |-> {"A", "Bohr", "unused"}, energy |-> {"eV", "kcal_mol", "unused"},
   charge |-> {"e"}, temperature |-> {"K"}, time |-> {"ps", "unknown"}]
Powers(l, e, q, t) == [length |-> l, energy |-> e, charge |-> q, temperature |-> 0, time |-> t]
SomeExponents == {Powers(1, 0, 0, 0), Powers(6, 1, 0, 0), Powers(0, 1, -2, 1)}

(***************************************************************************)
(* The model driver's computation: one thread with all small               *)
(* configurations of three particles, or two threads                       *)
(***************************************************************************)
TwoSpecies == {"Ar", "Kr"}
Distances == {1, 4, 9, 16}
Cutoffs == [s, u \in TwoSpecies |-> IF s = u THEN 4 ELSE 1]
Curried(f) == [s \in TwoSpecies |-> [u \in TwoSpecies |-> f[s, u]]]
Kind(s, u) == IF s # u THEN 3 ELSE IF s = "Ar" THEN 7 ELSE 10
PhiTable == [s, u \in TwoSpecies |-> [r \in Distances |-> Kind(s, u) * (6 - r)]]
\* Even numbers, since dE/dr is halved as well
DPhiTable == [s, u \in TwoSpecies |-> [r \in Distances |-> 2 * Kind(s, u) * (r - 3) + 2]]
CurriedCutoffs == Curried(Cutoffs)
CurriedPhi == Curried(PhiTable)
CurriedDPhi == Curried(DPhiTable)

ThreeParticles ==
  {[n |-> 3, x |-> x, species |-> s, contributing |-> c] :
     x \in {f \in [0..2 -> 0..3] : IsInjective(f)}, s \in [0..2 -> TwoSpecies], c \in [0..2 -> BOOLEAN]}
TwoParticles(x, y, both) ==
  [n |-> 2, x |-> [k \in 0..1 |-> IF k = 0 THEN x ELSE y], species |-> [k \in 0..1 |-> "Ar"],
   contributing |-> [k \in 0..1 |-> k = 1 \/ both]]

SomeRequests ==
  {{}, {"energy"}, {"energy", "particleEnergy", "forces", "dEdr"},
   {"forces", "virial", "particleVirial", "d2Edr2"},
   {"energy", "forces", "dEdr", "d2Edr2", "virial", "particleEnergy"}}
\* One thread has two particles, the other two or three.
ParticlesInARow == [n |-> 3, x |-> [k \in 0..2 |-> 2 - k], species |-> [k \in 0..2 |-> "Ar"],
                    contributing |-> [k \in 0..2 |-> k # 1]]
TwoConfigurations ==
  [t \in {"t1", "t2"} |-> IF t = "t1" THEN {TwoParticles(0, 1, TRUE)}
                                      ELSE {TwoParticles(2, 0, FALSE), ParticlesInARow}]
TwoRequests == {{"energy", "particleEnergy"}, {"forces", "dEdr", "virial"}}

(***************************************************************************)
(* The model driver's parameters                                           *)
(***************************************************************************)
Data(a, b, cutoff, epsilon) == [kind |-> "data", a |-> a, b |-> b, cutoff |-> cutoff, epsilon |-> epsilon]
Other(kind) == [Data("", "", 0, 0) EXCEPT !.kind = kind]
File(n, shifted, lines) == [N |-> n, shift |-> shifted, lines |-> lines]

Ar == Data("Ar", "Ar", 4, 4)
Kr == Data("Kr", "Kr", 6, 9)
Xe == Data("Xe", "Xe", 2, 16)
SomeLines == {Other("comment"), Other("short"), Ar, Kr, Data("Ar", "Kr", 8, 25), Data("Kr", "Ar", 10, 1)}
SomeFiles ==
  {File(1, 1, <<Other("comment"), Ar>>)}
  \cup {File(2, 1, lines) : lines \in UNION {[1..n -> SomeLines] : n \in 2..4}}
  \cup {File(3, 0, <<Xe, Ar, Kr>>),
        File(3, 1, <<Data("Kr", "Xe", 12, 1), Kr, Xe, Data("Ar", "Xe", 8, 9), Ar>>),
        File(3, 1, <<Data("Xe", "Ar", 14, 1), Kr, Data("Ar", "Kr", 8, 1), Ar, Xe, Data("Ar", "Xe", 8, 9)>>)}

(***************************************************************************)
(* The parameters of a Model                                               *)
(***************************************************************************)
SomeBlocks == {"shift", "cutoffs"}
Types == [b \in SomeBlocks |-> IF b = "shift" THEN "Integer" ELSE "Double"]
Sizes == [b \in SomeBlocks |-> IF b = "cutoffs" THEN 2 ELSE 1]
WholeBlocks == [b \in SomeBlocks |-> {Sizes[b]}]

(***************************************************************************)
(* The enumerations: the units that read one another, and the others.  The *)
(* build links the sources of C++ before those of C.                       *)
(***************************************************************************)
ReadingUnits ==
  {"DataType", "ComputeArgumentName", "LanguageName", "LogVerbosity", "LogVerbosity_c", "LogImplementation"}
OtherUnits ==
  {"ChargeUnit", "Collection", "CollectionItemType", "ComputeCallbackName", "EnergyUnit", "LengthUnit",
   "ModelRoutineName", "Numbering", "SpeciesName", "SupportStatus", "TemperatureUnit", "TimeUnit"}
UnitsOfCpp == (ReadingUnits \cup OtherUnits) \ {"LogVerbosity_c"}
TwoSets == {ReadingUnits, OtherUnits}
CppBeforeC == UnitsOfCpp \X {"LogVerbosity_c"}

(***************************************************************************)
(* The Fortran interface: texts with blanks inside and at the end          *)
(***************************************************************************)
SomeTexts == UNION {[1..n -> {"a", " "}] : n \in 0..2} \cup {<<"a", "b">>, <<"a", " ", "b">>}
SomeFields == {<< <<x, y>>, <<y>> >> : x, y \in SomeTexts} \cup {<< <<>> >>}

(***************************************************************************)
(* The functions of the three interfaces, by class and name                *)
(***************************************************************************)
Fortran == INSTANCE InterfaceFortran
C == INSTANCE InterfaceC
Cpp == INSTANCE InterfaceCpp

ByName(rows) ==
  [class \in {r.class : r \in rows} |->
    LET own == {r \in rows : r.class = class}
    IN  [name \in {r.name : r \in own} |-> CHOOSE r \in own : r.name = name]]

Tables == [Fortran |-> ByName(Fortran!Rows), C |-> ByName(C!Rows), Cpp |-> ByName(Cpp!Rows)]

(***************************************************************************)
(* Simulator models: keys of one letter, and specification files with the  *)
(* fields "units" and "model-defn"                                         *)
(***************************************************************************)
SimulatorFiles ==
  [f1 |-> [loadable |-> TRUE, schema |-> "V1", itemType |-> "simulatorModel", hasDriver |-> FALSE,
           parameterFiles |-> 1],
   f2 |-> [loadable |-> TRUE, schema |-> "other", itemType |-> "portableModel", hasDriver |-> FALSE,
           parameterFiles |-> 1]]

StandardTemplates == "d" :> <<"tmp">>
KeysInOrder == <<"a", "b", "d">>
SomeValues == {<<>>, <<"x">>, <<"x", "y">>}

StringNode(text) == [type |-> "string", text |-> text, lines |-> <<<<text>>>>]
IntNode(text) == [type |-> "int", text |-> text, lines |-> <<>>]
Field(one) == [type |-> "string", text |-> "line", lines |-> <<one>>]
Several(lines) == [type |-> "strings", text |-> "", lines |-> lines]

Head1 ==
  <<StringNode("kim-api-sm-schema-version"), IntNode("1"), StringNode("model-name"), StringNode("Sim"),
    StringNode("simulator-name"), StringNode("LAMMPS")>>
Head2 ==
  <<StringNode("simulator-version"), StringNode("1"), StringNode("supported-species"), StringNode("Ar")>>
Tagged(key) == <<"@", "<", key, ">", "@">>
OneLine == Field(Tagged("a") \o <<"+">> \o Tagged("b") \o Tagged("a"))
TwoLines == Several(<< <<"@", "<">> \o Tagged("d"), Tagged("b") \o <<">", "@">> >>)

\* All lines of up to three pieces
Pieces == <<Tagged("a"), Tagged("b"), <<"+">>, <<"@", "<">>, <<">", "@">>, <<>>>>
AllLines ==
  [i \in 1..216 |->
     Pieces[1 + ((i - 1) % 6)] \o Pieces[1 + (((i - 1) \div 6) % 6)] \o Pieces[1 + ((i - 1) \div 36)]]

Exhaustive == Head1 \o Head2 \o <<StringNode("units"), Several(AllLines)>>
Valid == Head1 \o <<StringNode("units"), OneLine>> \o Head2 \o <<StringNode("model-defn"), TwoLines>>
ValidOrder ==
  <<StringNode("model-defn"), Several(<<>>), StringNode("units"), StringNode("units")>> \o Head2 \o Head1
WrongVersion == [Valid EXCEPT ![2] = IntNode("2")]
WrongName == [Valid EXCEPT ![4] = StringNode("Sim2")]
WrongType == [Valid EXCEPT ![6] = IntNode("3")]
NoSpecies == Head1 \o <<StringNode("simulator-version"), StringNode("1")>>
SomeSpecifications == {Valid, Exhaustive, ValidOrder, WrongVersion, WrongName, WrongType, NoSpecies}

FilesOfSimulators == DOMAIN SimulatorFiles
Simulators == {"o1", "o2"}

\* Objects are created side by side from one file, or one has any file and a map.
SimulatorBounds ==
  /\ specification["f2"] = Valid
  /\ \/ \E o \in Simulators : \A p \in Simulators \ {o} : stage[p] = "none" /\ object[p] = M!NewObject
     \/ /\ specification["f1"] = Valid
        /\ \A o \in Simulators : object[o].templateMap \in {<<>>, StandardTemplates} /\ object[o].fields = <<>>

Bounds == subject = "Simulator" => SimulatorBounds
=============================================================================
