--------------------------- MODULE SimulatorModel ---------------------------
(***************************************************************************)
(* SimulatorModel objects (KIM_SimulatorModelImplementation.cpp): their    *)
(* creation with the resources it takes, their template map and simulator  *)
(* fields, and their end.                                                  *)
(*                                                                         *)
(* Objects share the dynamic linker and the directory for temporary files. *)
(* Within one creation other programs may change the collections, and each *)
(* access to the file system may fail.                                     *)
(***************************************************************************)
EXTENDS SharedLibrary, Naturals, Sequences, SequencesExt, FiniteSets

CONSTANTS
  Objects,
  Name,             \* the name the objects are created with
  Specifications,   \* the nodes that specification files may have
  StandardMap,      \* what AddStandardTemplatesToMap adds
  KeyOrder,         \* all valid keys, in the order of std::map
  AddedKeys,        \* the keys the simulator adds; others than the valid are refused
  AddedValues

\* What the tables must be
FieldsAssumption ==
  /\ IsFiniteSet(Objects)
  /\ NoFile \notin Files /\ NoDirectory \notin Directories
  /\ DOMAIN StandardMap \subseteq Range(KeyOrder)
  /\ Contents \in [Files -> FileContents]

(***************************************************************************)
(* The specification file: what GetSchemaVersion and ReadEdnSchemaV1 make  *)
(* of the nodes of the EDN map.  A node has its type, its text where that  *)
(* is a name, and its lines where it is the value of a simulator field.  A *)
(* line is a sequence of characters.                                       *)
(***************************************************************************)
\* The types of nodes are "string", "int", "strings", "vector" and "other";
\* "strings": a vector of strings; "vector": one with an element of another type

RequiredKeys == {"model-name", "simulator-name", "simulator-version", "supported-species"}
VersionKey == "kim-api-sm-schema-version"

\* The iterator looks for a string and takes the node after it for its value; what
\* is not a string is passed over, alone.
IsKey(nodes) ==
  LET key[i \in DOMAIN nodes] ==
        nodes[i].type = "string" /\ (i = 1 \/ ~key[i - 1])
  IN  [i \in DOMAIN nodes |-> key[i]]

Keys(nodes) == {i \in DOMAIN nodes : IsKey(nodes)[i]}
Value(nodes, i) == nodes[i + 1]

\* The value of the last key is read after the end of the map.
ReadsPastEnd(nodes) == Len(nodes) \in Keys(nodes)

Expects(key) ==
  IF key = VersionKey THEN {"int"}
  ELSE IF key \in RequiredKeys THEN {"string"}
  ELSE {"string", "strings"}

LastOf(nodes, key) ==
  LET at == {i \in Keys(nodes) : nodes[i].text = key}
  IN  CHOOSE i \in at : \A j \in at : j <= i
Gives(nodes, key) == \E i \in Keys(nodes) : nodes[i].text = key

\* GetSchemaVersion
SchemaFails(nodes) ==
  \/ \E i \in Keys(nodes) : nodes[i].text = VersionKey /\ Value(nodes, i).type # "int"
  \/ ~Gives(nodes, VersionKey)
  \/ Value(nodes, LastOf(nodes, VersionKey)).text # "1"

\* ReadEdnSchemaV1
ReadFails(nodes) == \E i \in Keys(nodes) : Value(nodes, i).type \notin Expects(nodes[i].text)

\* What Initialize requires then
DataMissing(nodes, name) ==
  \/ \E key \in RequiredKeys : ~Gives(nodes, key) \/ Value(nodes, LastOf(nodes, key)).text = ""
  \/ Value(nodes, LastOf(nodes, "model-name")).text # name

\* simulatorFieldNames_ and originalSimulatorFields_
FieldKeys(nodes) ==
  SelectSeq([i \in DOMAIN nodes |-> i],
            LAMBDA i : IsKey(nodes)[i] /\ nodes[i].text \notin RequiredKeys \cup {VersionKey})
FieldNames(nodes) == [f \in DOMAIN FieldKeys(nodes) |-> nodes[FieldKeys(nodes)[f]].text]
OriginalFields(nodes) == [f \in DOMAIN FieldKeys(nodes) |-> Value(nodes, FieldKeys(nodes)[f]).lines]

(***************************************************************************)
(* Substitution: what ProcessSimulatorFields makes of a line               *)
(***************************************************************************)
Tag(key) == <<"@", "<", key, ">", "@">>
IsAt(tag, line, i) == i + Len(tag) - 1 <= Len(line) /\ SubSeq(line, i, i + Len(tag) - 1) = tag
Occurs(tag, line) == \E i \in DOMAIN line : IsAt(tag, line, i)

\* The loop over find and replace: from left to right, after each value
Replace(line, tag, value) ==
  LET begins[i \in DOMAIN line] ==
        IsAt(tag, line, i) /\ \A j \in DOMAIN line : i - Len(tag) < j /\ j < i => ~begins[j]
      covered(i) == \E j \in DOMAIN line : i - Len(tag) < j /\ j <= i /\ begins[j]
  IN  FlattenSeq([i \in DOMAIN line |->
        IF begins[i] THEN value ELSE IF covered(i) THEN <<>> ELSE <<line[i]>>])

\* All the keys of the map, one after the other in the order of the map
Substitute(line, map, order) ==
  FoldLeft(LAMBDA text, key : IF key \in DOMAIN map THEN Replace(text, Tag(key), map[key]) ELSE text,
           line, order)

SubstituteFields(fields, map, order) ==
  [f \in DOMAIN fields |-> [i \in DOMAIN fields[f] |-> Substitute(fields[f][i], map, order)]]

\* What the documentation describes: each tag that is found in the line is replaced
\* by its value, and nothing else is touched.
IsSubstituted(line, result, map) ==
  LET tags == {t \in (DOMAIN line) \X (DOMAIN map) : IsAt(Tag(t[2]), line, t[1])}
      within(i) == \E t \in tags : t[1] <= i /\ i < t[1] + Len(Tag(t[2]))
      starts(i) == {t[2] : t \in {u \in tags : u[1] = i}}
  IN  result = FlattenSeq([i \in DOMAIN line |->
        IF starts(i) # {} THEN map[CHOOSE key \in starts(i) : TRUE]
        ELSE IF within(i) THEN <<>> ELSE <<line[i]>>])

(***************************************************************************)
(* The objects                                                             *)
(***************************************************************************)
VARIABLES
  stage,        \* how far the creation of each object is, and its life
  object,       \* the objects
  specification,\* the specification in each file
  loaded,       \* how often each file is open: dlopen and dlclose
  directories   \* the scratch directories on disk

vars == <<stage, object, specification, loaded, directories>>

Stage == { "none", "finding", "typing", "writing", "reading", "created", "failing", "failed", "undefined" }

NewObject ==
  [ library |-> NewLibrary, names |-> <<>>, original |-> <<>>,
    templateMapOpen |-> TRUE, templateMap |-> <<>>, fields |-> <<>>,
    added |-> <<>> ]   \* history: what was added since the map was opened

Init ==
  /\ stage = [o \in Objects |-> "none"]
  /\ object = [o \in Objects |-> NewObject]
  /\ specification \in [Files -> Specifications]
  /\ loaded = [f \in Files |-> 0]
  /\ directories = {}

Goes(o, s) == stage' = [stage EXCEPT ![o] = s]

(***************************************************************************)
(* Create and Initialize.                                                  *)
(***************************************************************************)
Create(o) ==
  /\ stage[o] \in {"none", "failed"}
  /\ object' = [object EXCEPT ![o] = NewObject]
  /\ Goes(o, "finding")
  /\ UNCHANGED <<specification, loaded, directories>>

\* The collections cannot be read or do not have the item.
ItemNotFound(o) ==
  /\ stage[o] = "finding"
  /\ Goes(o, "failing")
  /\ UNCHANGED <<object, specification, loaded, directories>>

OpenLibrary(o, f) ==
  /\ stage[o] = "finding"
  /\ object' = [object EXCEPT ![o].library = Opened(@, f)]
  /\ loaded' = IF Loads(object[o].library, f) THEN [loaded EXCEPT ![f] = @ + 1] ELSE loaded
  /\ Goes(o, IF OpenFails(object[o].library, f) \/ object'[o].library.itemType # "simulatorModel"
             THEN "failing" ELSE "writing")
  /\ UNCHANGED <<specification, directories>>

\* WriteParameterFileDirectory, with mkdtemp
WriteParameterFiles(o, d) ==
  /\ stage[o] = "writing" /\ d \notin directories
  /\ directories' = directories \cup {d}
  /\ object' = [object EXCEPT ![o].library = WithDirectory(@, d)]
  /\ Goes(o, "reading")
  /\ UNCHANGED <<specification, loaded>>

\* The directory or a file cannot be written; what was written is removed.
ParameterFilesNotWritten(o) ==
  /\ stage[o] = "writing"
  /\ Goes(o, "failing")
  /\ UNCHANGED <<object, specification, loaded, directories>>

Nodes(o) == specification[object[o].library.handle]

\* The file cannot be read back, or is no EDN.
ParseFails(o) ==
  /\ stage[o] = "reading"
  /\ Goes(o, "failing")
  /\ UNCHANGED <<object, specification, loaded, directories>>

\* Fault: the map keeps what it has.
OpenedKept(x) ==
  [x EXCEPT !.templateMapOpen = TRUE, !.templateMap = @ @@ StandardMap, !.fields = <<>>, !.added = <<>>]

\* OpenAndInitializeTemplateMap
OpenedAndInitialized(x) ==
  [x EXCEPT !.templateMapOpen = TRUE, !.templateMap = StandardMap, !.fields = <<>>, !.added = <<>>]

\* GetSchemaVersion, ReadEdnSchemaV1 and the checks of what is required.  A read
\* after the end of the map is undefined, and the end of what is modelled.
ReadSpecification(o) ==
  /\ stage[o] = "reading"
  /\ IF ReadsPastEnd(Nodes(o))
     THEN Goes(o, "undefined") /\ UNCHANGED object
     ELSE IF SchemaFails(Nodes(o)) \/ ReadFails(Nodes(o)) \/ DataMissing(Nodes(o), Name)
     THEN Goes(o, "failing") /\ UNCHANGED object
     ELSE /\ Goes(o, "created")
          /\ object' = [object EXCEPT ![o] =
               OpenedAndInitialized([@ EXCEPT !.names = FieldNames(Nodes(o)),
                                              !.original = OriginalFields(Nodes(o))])]
  /\ UNCHANGED <<specification, loaded, directories>>

\* Fault: the library is not closed after an error.
DeleteOpen(o) ==
  /\ stage[o] \in {"failing", "created"}
  /\ directories' = directories \ {object[o].library.directory}
  /\ object' = [object EXCEPT ![o].library = WithoutDirectory(@)]
  /\ Goes(o, IF stage[o] = "failing" THEN "failed" ELSE "none")
  /\ UNCHANGED <<specification, loaded>>

\* The destructor, after an error of Initialize and in Destroy
Delete(o) ==
  /\ stage[o] \in {"failing", "created"}
  /\ LET lib == object[o].library
     IN  /\ directories' = IF IsOpen(lib) THEN directories \ {lib.directory} ELSE directories
         /\ loaded' = IF IsOpen(lib) THEN [loaded EXCEPT ![lib.handle] = @ - 1] ELSE loaded
         /\ object' = [object EXCEPT ![o] = [NewObject EXCEPT !.library = Closed(lib)]]
  /\ Goes(o, IF stage[o] = "failing" THEN "failed" ELSE "none")
  /\ UNCHANGED specification

(***************************************************************************)
(* What the simulator does with the object.                                *)
(***************************************************************************)
Uses(o, new) ==
  /\ stage[o] = "created"
  /\ object' = [object EXCEPT ![o] = new]
  /\ UNCHANGED <<stage, specification, loaded, directories>>

OpenAndInitializeTemplateMap(o) == Uses(o, OpenedAndInitialized(object[o]))

\* templateMap_[key] = value
Put(map, key, value) ==
  [k \in DOMAIN map \cup {key} |-> IF k = key THEN value ELSE map[k]]

\* A closed map, or a key with other characters, is refused.
AddTemplateMap(o, key, value) ==
  /\ object[o].templateMapOpen /\ key \in Range(KeyOrder)
  /\ Uses(o, [object[o] EXCEPT !.templateMap = Put(@, key, value), !.added = Put(@, key, value)])

CloseTemplateMap(o) ==
  Uses(o, [object[o] EXCEPT
             !.templateMapOpen = FALSE,
             !.fields = SubstituteFields(object[o].original, object[o].templateMap, KeyOrder)])

\* GetSimulatorFieldMetadata and GetSimulatorFieldLine
HasField(o, f, extent) == f \in DOMAIN object[o].original /\ extent = Len(object[o].original[f])
HasLine(o, f, i) ==
  ~object[o].templateMapOpen /\ f \in DOMAIN object[o].fields /\ i \in DOMAIN object[o].fields[f]

Next ==
  \E o \in Objects :
    \/ Create(o) \/ ItemNotFound(o) \/ ParameterFilesNotWritten(o) \/ ParseFails(o)
    \/ ReadSpecification(o) \/ Delete(o)
    \/ \E f \in Files : OpenLibrary(o, f)
    \/ \E d \in Directories : WriteParameterFiles(o, d)
    \/ OpenAndInitializeTemplateMap(o) \/ CloseTemplateMap(o)
    \/ \E key \in AddedKeys, value \in AddedValues : AddTemplateMap(o, key, value)

Spec == Init /\ [][Next]_vars

(***************************************************************************)
(* What must hold.                                                         *)
(***************************************************************************)
\* The variables have their types.
TypeOK ==
  /\ stage \in [Objects -> Stage]
  /\ \A o \in Objects :
       /\ object[o].library \in Library
       /\ object[o].templateMapOpen \in BOOLEAN
       /\ DOMAIN object[o].templateMap \subseteq Range(KeyOrder)
       /\ DOMAIN object[o].names = DOMAIN object[o].original
       /\ DOMAIN object[o].fields \in {{}, DOMAIN object[o].original}
  /\ specification \in [Files -> Specifications]
  /\ loaded \in [Files -> Nat]
  /\ directories \subseteq Directories

\* Each library is open as often as objects hold it: an object that could not be
\* created, or is destroyed, holds nothing.
LibrariesAreCounted ==
  \A f \in Files :
    loaded[f] = Cardinality({o \in Objects : object[o].library.handle = f
                                             /\ stage[o] \notin {"none", "failed"}})

\* An object has its parameter files for itself until it is destroyed, also when it
\* is created together with others.
ScratchLivesWithObject ==
  /\ \A o \in Objects : stage[o] \in {"reading", "created"} =>
       /\ object[o].library.directory \in directories
       /\ \A p \in Objects \ {o} : object[p].library.directory # object[o].library.directory
  /\ \A d \in directories : \E o \in Objects : object[o].library.directory = d

\* The lines are those of the file, with the standard templates and what the simulator
\* has added since it last opened the map: each tag of a key is replaced by the value
\* given last, whatever was added and substituted before.
LinesFollowTheMap ==
  \A o \in Objects : stage[o] = "created" /\ ~object[o].templateMapOpen =>
    \A f \in DOMAIN object[o].original : \A i \in DOMAIN object[o].original[f] :
      IsSubstituted(object[o].original[f][i], object[o].fields[f][i], object[o].added @@ StandardMap)

\* A field and a line that the metadata announce can be read when the map is closed,
\* and no other.
AnnouncedLinesAreThere ==
  \A o \in Objects : stage[o] = "created" /\ ~object[o].templateMapOpen =>
    \A f \in 1..Len(object[o].names) + 1, extent \in 0..3 :
      HasField(o, f, extent) => \A i \in 1..4 : HasLine(o, f, i) <=> i <= extent

\* A specification is refused rather than read after its end.
\* (The code does not keep this: README, "What the documentation says and the code does not do".)
NothingIsReadPastTheEnd == \A o \in Objects : stage[o] # "undefined"

\* The object of an accepted file has every simulator field of the file, in its order.
AllFieldsAreRead ==
  \A o \in Objects : stage[o] = "created" =>
    LET nodes == Nodes(o)
        odd == SelectSeq([i \in DOMAIN nodes |-> i], LAMBDA i : i % 2 = 1)
    IN  object[o].names =
          SelectSeq([i \in DOMAIN odd |-> nodes[odd[i]].text],
                    LAMBDA key : key \notin RequiredKeys \cup {VersionKey})

\* The variables have their types; objects that come to exist, fail and end in any order
\* have their library and scratch directory for themselves and leave neither.
ResourcesAreOwned == TypeOK /\ LibrariesAreCounted /\ ScratchLivesWithObject

\* What a simulator reads are the fields of the file, with the lines they announce and
\* the values given since the map was opened.
LinesAreSubstituted == LinesFollowTheMap /\ AnnouncedLinesAreThere /\ AllFieldsAreRead
=============================================================================
