---------------------------- MODULE Enumerations ----------------------------
(***************************************************************************)
(* The enumerations of the API (KIM_ChargeUnit.cpp and its like): their    *)
(* constants, the tables from values to names, and how all of them come to *)
(* be when the library is loaded.                                          *)
(*                                                                         *)
(* Every translation unit initialises its objects in the order of their    *)
(* definition; the order of the units is the linker's.  Objects of a unit  *)
(* that has not been initialised are zero, unless the compiler has given   *)
(* its constants their values beforehand, as it may.                       *)
(***************************************************************************)
EXTENDS Integers, Sequences, FiniteSets, FiniteSetsExt

CONSTANTS
  Linked,         \* sets of units that are considered together
  LinkedBefore,   \* <<u, v>>: u is initialised before v in every build
  MaximumLevel    \* KIM_LOG_MAXIMUM_LEVEL, a number the preprocessor puts in

\* An enumeration: its constants with their numbers
Numbered(names, first) == [i \in DOMAIN names |-> [name |-> names[i], id |-> first + i - 1]]

ChargeUnit == Numbered(<<"unused", "C", "e", "statC">>, 0)
Collection == Numbered(<<"system", "user", "environmentVariable", "currentWorkingDirectory">>, 0)
CollectionItemType == Numbered(<<"modelDriver", "portableModel", "simulatorModel">>, 0)
ComputeArgumentName ==
  Numbered(<<"numberOfParticles", "particleSpeciesCodes", "particleContributing", "coordinates",
             "partialEnergy", "partialForces", "partialParticleEnergy", "partialVirial",
             "partialParticleVirial">>, 0)
ComputeCallbackName == Numbered(<<"GetNeighborList", "ProcessDEDrTerm", "ProcessD2EDr2Term">>, 0)
DataType == Numbered(<<"Integer", "Double">>, 0)
EnergyUnit == Numbered(<<"unused", "amu_A2_per_ps2", "erg", "eV", "Hartree", "J", "kcal_mol">>, 0)
LanguageName == Numbered(<<"cpp", "c", "fortran">>, 0)
LengthUnit == Numbered(<<"unused", "A", "Bohr", "cm", "m", "nm">>, 0)
LogVerbosity == Numbered(<<"silent", "fatal", "error", "warning", "information", "debug">>, 0)
ModelRoutineName ==
  Numbered(<<"Create", "ComputeArgumentsCreate", "Compute", "Extension", "Refresh",
             "WriteParameterizedModel", "ComputeArgumentsDestroy", "Destroy">>, 0)
Numbering == Numbered(<<"zeroBased", "oneBased">>, 0)
SupportStatus == Numbered(<<"requiredByAPI", "notSupported", "required", "optional">>, 0)
TemperatureUnit == Numbered(<<"unused", "K">>, 0)
TimeUnit == Numbered(<<"unused", "fs", "ps", "ns", "s">>, 0)

\* The species: the elements, and those for users, whose numbers are apart
Elements ==
  <<
    "electron", "H", "He", "Li", "Be", "B", "C", "N", "O", "F", "Ne", "Na", "Mg", "Al", "Si", "P",
    "S", "Cl", "Ar", "K", "Ca", "Sc", "Ti", "V", "Cr", "Mn", "Fe", "Co", "Ni", "Cu", "Zn", "Ga",
    "Ge", "As", "Se", "Br", "Kr", "Rb", "Sr", "Y", "Zr", "Nb", "Mo", "Tc", "Ru", "Rh", "Pd", "Ag",
    "Cd", "In", "Sn", "Sb", "Te", "I", "Xe", "Cs", "Ba", "La", "Ce", "Pr", "Nd", "Pm", "Sm", "Eu",
    "Gd", "Tb", "Dy", "Ho", "Er", "Tm", "Yb", "Lu", "Hf", "Ta", "W", "Re", "Os", "Ir", "Pt", "Au",
    "Hg", "Tl", "Pb", "Bi", "Po", "At", "Rn", "Fr", "Ra", "Ac", "Th", "Pa", "U", "Np", "Pu", "Am",
    "Cm", "Bk", "Cf", "Es", "Fm", "Md", "No", "Lr", "Rf", "Db", "Sg", "Bh", "Hs", "Mt", "Ds", "Rg",
    "Cn", "Nh", "Fl", "Mc", "Lv", "Ts", "Og">>
UserSpecies ==
  <<
    "user01", "user02", "user03", "user04", "user05", "user06", "user07", "user08", "user09",
    "user10", "user11", "user12", "user13", "user14", "user15", "user16", "user17", "user18",
    "user19", "user20">>
SpeciesName == Numbered(Elements, 0) \o Numbered(UserSpecies, 201)

Enumeration ==
  [ ChargeUnit |-> ChargeUnit, Collection |-> Collection, CollectionItemType |-> CollectionItemType,
    ComputeArgumentName |-> ComputeArgumentName, ComputeCallbackName |-> ComputeCallbackName,
    DataType |-> DataType, EnergyUnit |-> EnergyUnit, LanguageName |-> LanguageName,
    LengthUnit |-> LengthUnit, LogVerbosity |-> LogVerbosity, ModelRoutineName |-> ModelRoutineName,
    Numbering |-> Numbering, SpeciesName |-> SpeciesName, SupportStatus |-> SupportStatus,
    TemperatureUnit |-> TemperatureUnit, TimeUnit |-> TimeUnit ]

Units == DOMAIN Enumeration \cup {"LogImplementation", "LogVerbosity_c"}
ReadByOthers == {"DataType", "LanguageName", "LogVerbosity"}

LinkedAssumption ==
  /\ Linked \subseteq SUBSET Units /\ LinkedBefore \subseteq Units \X Units
  /\ MaximumLevel \in 0..5

VARIABLES
  pending,              \* the units still to be initialised
  early,                \* those whose constants have their values already
  strings,              \* the StringMap of each enumeration: from numbers to names
  dataTypes,            \* the DataTypeMap: from arguments to data types, all by number
  defaultVerbosity, defaultLanguage,   \* the numbers on the default stacks of the Log
  verbosityC            \* the constants of C: from names to numbers

vars == <<pending, early, strings, dataTypes, defaultVerbosity, defaultLanguage, verbosityC>>
defaults == <<defaultVerbosity, defaultLanguage>>

NoMap == <<>>
NoValue == -1

Init ==
  /\ pending \in Linked
  /\ early \in SUBSET (ReadByOthers \cap pending)
  /\ strings = [u \in DOMAIN Enumeration \cap pending |-> NoMap]
  /\ dataTypes = NoMap
  /\ defaultVerbosity = NoValue /\ defaultLanguage = NoValue
  /\ verbosityC = NoMap

IdOf(u, name) ==
  LET e == Enumeration[u] IN e[CHOOSE i \in DOMAIN e : e[i].name = name].id

\* What another unit reads.
Read(u, name) == IF u \in pending \ early THEN 0 ELSE IdOf(u, name)

(***************************************************************************)
(* Initialisation.                                                         *)
(***************************************************************************)
Initializes(u) ==
  /\ u \in pending
  /\ \A v \in pending : <<v, u>> \notin LinkedBefore
  /\ pending' = pending \ {u}
  /\ UNCHANGED early

\* m[constant] = "name", in order
StringMap(u) ==
  LET e == Enumeration[u]
  IN  [id \in {e[i].id : i \in DOMAIN e} |-> e[Max({i \in DOMAIN e : e[i].id = id})].name]

InitializeEnumeration(u) ==
  /\ u \in DOMAIN Enumeration \ {"ComputeArgumentName"}
  /\ Initializes(u)
  /\ strings' = [strings EXCEPT ![u] = StringMap(u)]
  /\ UNCHANGED <<dataTypes, defaults, verbosityC>>

IntegerArguments == {"numberOfParticles", "particleSpeciesCodes", "particleContributing"}
DataTypeMapOf(integer, double) ==
  [id \in {ComputeArgumentName[i].id : i \in DOMAIN ComputeArgumentName} |->
    IF id \in {IdOf("ComputeArgumentName", a) : a \in IntegerArguments} THEN integer ELSE double]

\* Fault: the constants of DataType are used.
DataTypeMapFromConstants == DataTypeMapOf(Read("DataType", "Integer"), Read("DataType", "Double"))

\* "Here we must assume that the DATA_TYPE:: constants are not initialized."
DataTypeMap == DataTypeMapOf(0, 1)

InitializeComputeArgumentName ==
  /\ Initializes("ComputeArgumentName")
  /\ strings' = [strings EXCEPT !["ComputeArgumentName"] = StringMap("ComputeArgumentName")]
  /\ dataTypes' = DataTypeMap
  /\ UNCHANGED <<defaults, verbosityC>>

\* The stacks of the Log: the level is a number, the language a constant.
InitializeLogImplementation ==
  /\ Initializes("LogImplementation")
  /\ defaultVerbosity' = MaximumLevel
  /\ defaultLanguage' = Read("LanguageName", "cpp")
  /\ UNCHANGED <<strings, dataTypes, verbosityC>>

\* The levels of C are read from those of C++; the other constants of C are numbers.
InitializeLogVerbosity_c ==
  /\ Initializes("LogVerbosity_c")
  /\ verbosityC' = [name \in {LogVerbosity[i].name : i \in DOMAIN LogVerbosity} |-> Read("LogVerbosity", name)]
  /\ UNCHANGED <<strings, dataTypes, defaults>>

Next ==
  \/ \E u \in DOMAIN Enumeration : InitializeEnumeration(u)
  \/ InitializeComputeArgumentName
  \/ InitializeLogImplementation
  \/ InitializeLogVerbosity_c

Spec == Init /\ [][Next]_vars

(***************************************************************************)
(* The operations of an enumeration.                                       *)
(***************************************************************************)
GetNumber(u) == Cardinality(DOMAIN strings[u])

\* The constructor from a string: the first in the order of numbers, and -1 if there is none
FromString(u, str) ==
  IF \E id \in DOMAIN strings[u] : strings[u][id] = str
  THEN Min({id \in DOMAIN strings[u] : strings[u][id] = str}) ELSE -1

\* It goes through the values by their indices, which are those of the map.
Known(u, id) == id \in DOMAIN strings[u]
ToString(u, id) == IF id \in DOMAIN strings[u] THEN strings[u][id] ELSE "unknown"

-----------------------------------------------------------------------------
\* The variables have their types.
TypeOK ==
  /\ pending \subseteq Units /\ early \subseteq ReadByOthers
  /\ DOMAIN strings \subseteq DOMAIN Enumeration
  /\ \A u \in DOMAIN strings : u \notin pending => strings[u] # NoMap
  /\ defaultVerbosity \in -1..5 /\ defaultLanguage \in -1..2

Loaded == pending = {}
Has(u) == u \in DOMAIN strings

\* Every constant has a name and a number of its own, by which it is found again: none is
\* lost in the tables, whatever the numbers are.
NamesAndNumbersAgree ==
  Loaded => \A u \in DOMAIN strings :
    /\ GetNumber(u) = Len(Enumeration[u])
    /\ \A i \in DOMAIN Enumeration[u] :
         LET c == Enumeration[u][i]
         IN  Known(u, c.id) /\ ToString(u, c.id) = c.name /\ FromString(u, c.name) = c.id
    /\ ~Known(u, FromString(u, "another")) /\ ToString(u, FromString(u, "another")) = "unknown"

\* The data type of an argument is one of the enumeration, in whatever order the units of
\* the arguments and of the data types were initialised.
DataTypesAreKnown ==
  Loaded /\ dataTypes # NoMap /\ Has("DataType") =>
    \A i \in DOMAIN ComputeArgumentName :
      LET a == ComputeArgumentName[i]
      IN  ToString("DataType", dataTypes[a.id]) = IF a.name \in IntegerArguments THEN "Integer" ELSE "Double"

\* The default print function of the Log is one of C++ and its verbosity the highest,
\* though the constant may be read before it is initialised.
DefaultsAreConstants ==
  Loaded /\ defaultLanguage # NoValue =>
    /\ Has("LanguageName") => ToString("LanguageName", defaultLanguage) = "cpp"
    /\ Has("LogVerbosity") => Known("LogVerbosity", defaultVerbosity)

\* The levels of C are those of C++: this rests on the order in which the build links them.
LevelsOfCAreThoseOfCpp ==
  Loaded /\ verbosityC # NoMap /\ Has("LogVerbosity") =>
    \A name \in DOMAIN verbosityC : ToString("LogVerbosity", verbosityC[name]) = name

\* The variables have their types; whatever the order in which the library's units are
\* initialised, constants, names and defaults agree.
EnumerationsAgree ==
  TypeOK /\ NamesAndNumbersAgree /\ DataTypesAreKnown /\ DefaultsAreConstants /\ LevelsOfCAreThoseOfCpp
=============================================================================
