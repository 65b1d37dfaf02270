-------------------------- MODULE Components_proofs --------------------------
(***************************************************************************)
(* What the components keep, for all values of their constants: the        *)
(* parameters of a Model, the resources of simulator models, the texts of  *)
(* the Fortran interface, the conversion of units, the tables of the       *)
(* Lennard-Jones model driver, the constants of the enumerations, the      *)
(* calls that pass through the layers of the interfaces, the order of      *)
(* versions, and threads that compute on one model.                        *)
(***************************************************************************)
EXTENDS Components, FiniteSetTheorems, SequenceTheorems, WellFoundedInduction, TLAPS

-----------------------------------------------------------------------------
(* The parameters of a Model. *)

\* A model does not register more entries than its array has.
ExtentsFit == \A b \in Blocks : \A extent \in Extents[b] : extent \in Int /\ extent <= SizeOf[b]

ParameterTypes == \A b \in Blocks : SizeOf[b] \in Nat

Parameter == [block : Blocks, type : {TypeOf[b] : b \in Blocks}, extent : UNION {Extents[b] : b \in Blocks}]

\* Each name has one parameter, with the extent of its block.
RegistryInv ==
  /\ parameters \in Seq(Parameter)
  /\ \A i \in DOMAIN parameters : parameters[i].extent \in Extents[parameters[i].block]
  /\ \A i, j \in DOMAIN parameters : parameters[i].block = parameters[j].block => i = j

\* An index that was found for a name stays that name's.
HeldInv ==
  \A b \in Blocks : held[b] # P!None =>
    held[b] \in DOMAIN parameters /\ parameters[held[b]].block = b

\* The memory has what was set, and nothing else was accessed.
MemoryInv ==
  /\ DOMAIN memory = Blocks
  /\ \A b \in Blocks : memory[b] \in [0..SizeOf[b] - 1 -> Values]
  /\ given = memory
  /\ ~outside
  /\ got.entry # P!None =>
       /\ got.name \in Blocks /\ got.entry \in 0..SizeOf[got.name] - 1
       /\ got.value = memory[got.name][got.entry]

\* What is not left to be written is in the list, once, and in its file.
ListInv(list, names) ==
  /\ list \in Seq(Blocks)
  /\ \A i, j \in DOMAIN list : i # j => list[i] # list[j]
  /\ {list[n] : n \in DOMAIN list} = names

FilesInv(path, names, values) ==
  \A b \in names : b \in DOMAIN directory[path].files /\ directory[path].files[b] = values[b]

WriteInv ==
  /\ writing \in [active : BOOLEAN, left : SUBSET Blocks]
  /\ \A i, j \in DOMAIN cmakelists : i # j => cmakelists[i] # cmakelists[j]
  /\ DOMAIN directory = Paths
  /\ \A p \in Paths : DOMAIN directory[p] = {"files", "list"}
  /\ writing.active =>
       /\ writing.left \subseteq P!Registered /\ writePath \in Paths
       /\ ~written.ok
       /\ ListInv(cmakelists, P!Registered \ writing.left)
       /\ FilesInv(writePath, P!Registered \ writing.left, memory)
  /\ written.ok =>
       /\ written.path \in Paths
       /\ ListInv(directory[written.path].list, written.names)
       /\ FilesInv(written.path, written.names, written.memory)

ParametersInv == RegistryInv /\ HeldInv /\ MemoryInv /\ WriteInv

LEMMA ListLength ==
  ASSUME NEW list, NEW names, ListInv(list, names)
  PROVE  Len(list) = Cardinality(names)
<1>1. Len(list) \in Nat /\ DOMAIN list = 1..Len(list)
  BY DEF ListInv
<1>2. list \in Bijection(1..Len(list), names)
  BY <1>1 DEF ListInv, Bijection, Injection, Surjection, IsInjective
<1>3. IsFiniteSet(1..Len(list)) /\ Cardinality(1..Len(list)) = Len(list)
  <2>1. 1 \in Int /\ Len(list) \in Int
    BY <1>1
  <2>2. IsFiniteSet(1..Len(list)) /\ Cardinality(1..Len(list)) = IF 1 > Len(list) THEN 0 ELSE Len(list) - 1 + 1
    BY <2>1, FS_Interval
  <2> HIDE DEF Cardinality
  <2> QED BY <1>1, <2>2
<1> QED BY <1>2, <1>3, FS_Bijection DEF ExistsBijection

LEMMA ParametersNext ==
  ASSUME subject = "Parameters", [Next]_vars
  PROVE  subject' = "Parameters" /\ (P!Next \/ UNCHANGED modelParameters)
BY DEF Next, vars, modelParameters

LEMMA InitParameters ==
  ASSUME subject = "Parameters", Init
  PROVE  ParametersInv
<1>1. P!Init
  BY DEF Init
<1>2. RegistryInv
  <2>1. parameters = <<>>
    BY <1>1 DEF P!Init
  <2> QED BY <2>1 DEF RegistryInv
<1>3. HeldInv
  BY <1>1 DEF P!Init, HeldInv
<1>4. MemoryInv
  <2>1. DOMAIN memory = Blocks /\ given = memory /\ ~outside /\ got.entry = P!None
    BY <1>1 DEF P!Init
  <2>2. ASSUME NEW b \in Blocks PROVE memory[b] \in [0..SizeOf[b] - 1 -> Values]
    <3>1. memory[b] \in UNION {[0..n -> Values] : n \in {SizeOf[c] - 1 : c \in Blocks}}
      BY <1>1 DEF P!Init
    <3>2. DOMAIN memory[b] = 0..SizeOf[b] - 1
      BY <1>1 DEF P!Init
    <3> QED BY <3>1, <3>2
  <2> QED BY <2>1, <2>2 DEF MemoryInv
<1>5. WriteInv
  <2>1. cmakelists = <<>> /\ ~writing.active /\ ~written.ok
    BY <1>1 DEF P!Init, P!NotWriting, P!NotWritten
  <2>2. directory = [p \in Paths |-> [files |-> <<>>, list |-> <<>>]]
    BY <1>1 DEF P!Init, P!Empty
  <2>3. writing \in [active : BOOLEAN, left : SUBSET Blocks]
    BY <1>1 DEF P!Init, P!NotWriting
  <2> QED BY <2>1, <2>2, <2>3 DEF WriteInv
<1> QED BY <1>2, <1>3, <1>4, <1>5 DEF ParametersInv

LEMMA RegisterStep ==
  ASSUME ParametersInv, NEW b \in Blocks, NEW extent \in Extents[b], P!SetParameterPointer(b, extent)
  PROVE  ParametersInv'
<1> DEFINE new == [block |-> b, type |-> TypeOf[b], extent |-> extent]
<1>1. /\ parameters' = Append(parameters, new) /\ new \in Parameter /\ ~writing.active
      /\ \A i \in DOMAIN parameters : parameters[i].block # b
      /\ UNCHANGED <<memory, held, given, got, outside, writing, cmakelists, writePath, directory, written>>
  BY DEF P!SetParameterPointer, P!PointerFails, P!Indices, Parameter, P!registry, P!contents, P!write
<1>2. /\ new.block = b /\ new.extent = extent /\ parameters \in Seq(Parameter)
  BY DEF ParametersInv, RegistryInv
<1> HIDE DEF new
<1>3. /\ DOMAIN parameters' = DOMAIN parameters \cup {Len(parameters) + 1}
      /\ \A i \in DOMAIN parameters : parameters'[i] = parameters[i]
      /\ parameters'[Len(parameters) + 1] = new /\ parameters' \in Seq(Parameter)
  BY <1>1, <1>2
<1>4. RegistryInv'
  BY <1>1, <1>2, <1>3 DEF ParametersInv, RegistryInv
<1>5. HeldInv'
  BY <1>1, <1>3 DEF ParametersInv, HeldInv
<1>6. MemoryInv'
  BY <1>1 DEF ParametersInv, MemoryInv
<1>7. WriteInv'
  BY <1>1 DEF ParametersInv, WriteInv, ListInv, FilesInv
<1> QED BY <1>4, <1>5, <1>6, <1>7 DEF ParametersInv

LEMMA MetadataStep ==
  ASSUME ParametersInv, NEW i \in P!Indices, P!GetParameterMetadata(i)
  PROVE  ParametersInv'
<1>1. /\ held' = [held EXCEPT ![parameters[i].block] = i] /\ i \in DOMAIN parameters /\ ~writing.active
      /\ UNCHANGED <<parameters, memory, given, got, outside, writing, cmakelists, writePath, directory, written>>
  BY DEF P!GetParameterMetadata, P!Indices, P!registry, P!contents, P!write
<1>2. HeldInv'
  BY <1>1 DEF ParametersInv, HeldInv
<1>3. RegistryInv' /\ MemoryInv' /\ WriteInv'
  BY <1>1 DEF ParametersInv, RegistryInv, MemoryInv, WriteInv, ListInv, FilesInv
<1> QED BY <1>2, <1>3 DEF ParametersInv

\* An access by the index of a name is to an entry of that name's block.
LEMMA AccessInside ==
  ASSUME ParametersInv, ExtentsFit, ParameterTypes, NEW x \in P!Accesses, ~P!AccessFails(held[x[1]], x[2], x[3])
  PROVE  /\ x[1] \in Blocks
         /\ parameters[held[x[1]]].block = x[1] /\ parameters[held[x[1]]].type = x[2]
         /\ x[3] \in Int /\ x[3] \in 0..SizeOf[x[1]] - 1 /\ x[3] # P!None
<1>1. x[1] \in Blocks /\ x[3] \in Int /\ held[x[1]] # P!None
  BY DEF P!Accesses
<1> DEFINE p == parameters[held[x[1]]]
<1>2. /\ held[x[1]] \in DOMAIN parameters /\ p.block = x[1] /\ p.type = x[2]
      /\ ~(x[3] < 0) /\ ~(x[3] >= p.extent)
  BY <1>1 DEF P!AccessFails, P!Indices, ParametersInv, HeldInv
<1>3. p.extent \in Int /\ p.extent <= SizeOf[x[1]]
  BY <1>1, <1>2 DEF ParametersInv, RegistryInv, ExtentsFit
<1>4. SizeOf[x[1]] \in Nat
  BY <1>1 DEF ParameterTypes
<1> QED BY <1>1, <1>2, <1>3, <1>4 DEF P!None

LEMMA GetStep ==
  ASSUME ParametersInv, ExtentsFit, ParameterTypes, NEW x \in P!Accesses, P!GetParameter(x[1], x[2], x[3])
  PROVE  ParametersInv'
<1>1. ~P!AccessFails(held[x[1]], x[2], x[3]) /\ ~writing.active
      /\ UNCHANGED <<parameters, held, memory, given, writing, cmakelists, writePath, directory, written>>
  BY DEF P!GetParameter, P!registry, P!write
<1>2. /\ x[1] \in Blocks
      /\ parameters[held[x[1]]].block = x[1] /\ parameters[held[x[1]]].type = x[2]
      /\ x[3] \in 0..SizeOf[x[1]] - 1
  BY <1>1, AccessInside
<1>3. DOMAIN memory[x[1]] = 0..SizeOf[x[1]] - 1
  BY <1>2 DEF ParametersInv, MemoryInv
<1>4. x[3] \in DOMAIN memory[parameters[held[x[1]]].block]
  BY <1>2, <1>3
<1>5. got' = [name |-> x[1], entry |-> x[3], value |-> memory[x[1]][x[3]]]
  BY <1>2, <1>4 DEF P!GetParameter
<1>6. ~outside'
  BY <1>2, <1>4 DEF P!GetParameter, ParametersInv, MemoryInv
<1>7. MemoryInv'
  BY <1>1, <1>2, <1>5, <1>6 DEF ParametersInv, MemoryInv
<1>8. RegistryInv' /\ HeldInv' /\ WriteInv'
  BY <1>1 DEF ParametersInv, RegistryInv, HeldInv, WriteInv, ListInv, FilesInv
<1> QED BY <1>7, <1>8 DEF ParametersInv

LEMMA SetStep ==
  ASSUME ParametersInv, ExtentsFit, ParameterTypes, NEW x \in P!Accesses, NEW value \in Values,
         P!SetParameter(x[1], x[2], x[3], value)
  PROVE  ParametersInv'
<1>1. /\ ~P!AccessFails(held[x[1]], x[2], x[3]) /\ ~writing.active
      /\ UNCHANGED <<parameters, held, writing, cmakelists, writePath, directory, written>>
      /\ got'.entry = P!None
  BY DEF P!SetParameter, P!registry, P!write
<1>2. /\ x[1] \in Blocks
      /\ parameters[held[x[1]]].block = x[1] /\ parameters[held[x[1]]].type = x[2]
      /\ x[3] \in 0..SizeOf[x[1]] - 1
  BY <1>1, AccessInside
<1>3. DOMAIN memory[x[1]] = 0..SizeOf[x[1]] - 1 /\ given = memory
  BY <1>2 DEF ParametersInv, MemoryInv
<1>4. /\ memory' = [memory EXCEPT ![x[1]][x[3]] = value]
      /\ given' = memory' /\ ~outside'
  <2>1. x[3] \in DOMAIN memory[parameters[held[x[1]]].block] /\ x[3] \in DOMAIN given[x[1]]
    BY <1>2, <1>3
  <2>2. memory' = [memory EXCEPT ![x[1]][x[3]] = value]
    BY <1>2, <2>1 DEF P!SetParameter
  <2>3. given' = [given EXCEPT ![x[1]][x[3]] = value]
    BY <1>2, <2>1 DEF P!SetParameter
  <2>4. ~outside'
    BY <1>2, <2>1 DEF P!SetParameter, ParametersInv, MemoryInv
  <2> QED BY <1>3, <2>2, <2>3, <2>4
<1>5. \A b \in Blocks : memory'[b] \in [0..SizeOf[b] - 1 -> Values]
  BY <1>2, <1>4 DEF ParametersInv, MemoryInv
<1>6. MemoryInv'
  BY <1>1, <1>4, <1>5 DEF ParametersInv, MemoryInv
<1>7. RegistryInv' /\ HeldInv' /\ WriteInv'
  BY <1>1 DEF ParametersInv, RegistryInv, HeldInv, WriteInv, ListInv, FilesInv
<1> QED BY <1>6, <1>7 DEF ParametersInv

LEMMA BeginWriteStep ==
  ASSUME ParametersInv, NEW path \in Paths, P!BeginWrite(path)
  PROVE  ParametersInv'
<1>1. /\ UNCHANGED <<parameters, held, memory, given, got, outside, directory>>
      /\ cmakelists' = <<>> /\ writePath' = path
      /\ writing'.left = P!Registered /\ ~written'.ok
  BY DEF P!BeginWrite, P!registry, P!contents, P!NotWritten
<1>0. P!Registered \subseteq Blocks /\ writing' = [active |-> TRUE, left |-> P!Registered]
  <2>1. ASSUME NEW i \in DOMAIN parameters PROVE parameters[i].block \in Blocks
    <3>1. parameters \in Seq(Parameter)
      BY DEF ParametersInv, RegistryInv
    <3>2. parameters[i] \in Parameter
      BY <2>1, <3>1
    <3> QED BY <3>2 DEF Parameter
  <2>2. writing' = [active |-> TRUE, left |-> P!Registered]
    BY DEF P!BeginWrite
  <2> QED BY <2>1, <2>2 DEF P!Registered, P!Indices
<1>2. P!Registered' = P!Registered
  BY <1>1 DEF P!Registered, P!Indices
<1>3. ListInv(cmakelists', {}) /\ \A i, j \in DOMAIN cmakelists' : i # j => cmakelists'[i] # cmakelists'[j]
  BY <1>1 DEF ListInv
<1>4. WriteInv'
  BY <1>0, <1>1, <1>2, <1>3 DEF ParametersInv, WriteInv, FilesInv, ListInv
<1>5. RegistryInv' /\ HeldInv' /\ MemoryInv'
  BY <1>1 DEF ParametersInv, RegistryInv, HeldInv, MemoryInv
<1> QED BY <1>4, <1>5 DEF ParametersInv

LEMMA WriteFileStep ==
  ASSUME ParametersInv, NEW b \in Blocks, P!WriteParameterFile(b)
  PROVE  ParametersInv'
<1>1. /\ UNCHANGED <<parameters, held, memory, given, got, outside, writePath, written>>
      /\ writing.active /\ b \in writing.left /\ writePath \in Paths /\ ~written.ok
      /\ writing.left \subseteq P!Registered
      /\ ListInv(cmakelists, P!Registered \ writing.left)
      /\ FilesInv(writePath, P!Registered \ writing.left, memory)
  BY DEF P!WriteParameterFile, P!registry, P!contents, ParametersInv, WriteInv
<1>2. P!Registered' = P!Registered /\ P!Registered' \ (writing.left \ {b}) = (P!Registered \ writing.left) \cup {b}
  BY <1>1 DEF P!Registered, P!Indices
<1>3. writing' = [writing EXCEPT !.left = @ \ {b}] /\ cmakelists' = Append(cmakelists, b)
      /\ directory' = [directory EXCEPT ![writePath].files = P!WithFile(@, b, memory[b])]
  BY DEF P!WriteParameterFile
<1>4. /\ writing' \in [active : BOOLEAN, left : SUBSET Blocks]
      /\ writing'.left = writing.left \ {b} /\ writing'.active = writing.active
  BY <1>3 DEF ParametersInv, WriteInv
<1> DEFINE names == P!Registered \ writing.left
           files == directory[writePath].files
<1>5. b \notin names
  BY <1>1
<1>6. ListInv(cmakelists', names \cup {b})
  <2> HIDE DEF names
  <2>1. /\ cmakelists \in Seq(Blocks) /\ {cmakelists[n] : n \in DOMAIN cmakelists} = names
        /\ \A i, j \in DOMAIN cmakelists : i # j => cmakelists[i] # cmakelists[j]
    BY <1>1 DEF ListInv, names
  <2>2. /\ cmakelists' \in Seq(Blocks) /\ DOMAIN cmakelists' = DOMAIN cmakelists \cup {Len(cmakelists) + 1}
        /\ \A n \in DOMAIN cmakelists : cmakelists'[n] = cmakelists[n]
        /\ cmakelists'[Len(cmakelists) + 1] = b
    BY <1>3, <2>1
  <2>3. \A n \in DOMAIN cmakelists : cmakelists[n] # b
    BY <1>5, <2>1
  <2>4. {cmakelists'[n] : n \in DOMAIN cmakelists'} = names \cup {b}
    BY <2>1, <2>2
  <2>5. \A i, j \in DOMAIN cmakelists' : i # j => cmakelists'[i] # cmakelists'[j]
    BY <2>1, <2>2, <2>3
  <2> QED BY <2>2, <2>4, <2>5 DEF ListInv
<1>7. /\ DOMAIN directory' = Paths /\ \A p \in Paths : DOMAIN directory'[p] = {"files", "list"}
      /\ directory'[writePath].files = P!WithFile(files, b, memory[b])
  BY <1>1, <1>3 DEF ParametersInv, WriteInv
<1>8. FilesInv(writePath, names, memory)
  BY <1>1
<1>9. ASSUME NEW c \in names \cup {b}
      PROVE  c \in DOMAIN directory'[writePath].files /\ directory'[writePath].files[c] = memory[c]
  <2> HIDE DEF names
  <2>1. c \in names => c \in DOMAIN files /\ files[c] = memory[c]
    BY <1>8 DEF FilesInv
  <2> HIDE DEF files
  <2> QED BY <1>7, <1>9, <2>1 DEF P!WithFile
<1>10. WriteInv'
  <2>1. P!Registered' \ writing'.left = names \cup {b}
    BY <1>2, <1>4
  <2>2. writing'.left \subseteq P!Registered' /\ writePath' \in Paths /\ ~written'.ok
    BY <1>1, <1>2, <1>4
  <2>3. FilesInv(writePath, P!Registered \ writing.left, memory)'
    BY <1>1, <1>9, <2>1 DEF FilesInv
  <2>4. ListInv(cmakelists', P!Registered' \ writing'.left)
    BY <1>6, <2>1
  <2>5. \A i, j \in DOMAIN cmakelists' : i # j => cmakelists'[i] # cmakelists'[j]
    BY <2>4 DEF ListInv
  <2> HIDE DEF names, files
  <2> QED BY <1>4, <1>7, <2>2, <2>3, <2>4, <2>5 DEF WriteInv, ListInv
<1>11. RegistryInv' /\ HeldInv' /\ MemoryInv'
  BY <1>1 DEF ParametersInv, RegistryInv, HeldInv, MemoryInv
<1> QED BY <1>10, <1>11 DEF ParametersInv

LEMMA FailStep ==
  ASSUME ParametersInv, P!RoutineFails
  PROVE  ParametersInv'
<1>1. /\ UNCHANGED <<parameters, held, memory, given, got, outside, cmakelists, directory, written>>
      /\ writing' = [active |-> FALSE, left |-> {}]
  BY DEF P!RoutineFails, P!registry, P!contents, P!NotWriting
<1>2. WriteInv'
  BY <1>1 DEF ParametersInv, WriteInv, ListInv, FilesInv
<1>3. RegistryInv' /\ HeldInv' /\ MemoryInv'
  BY <1>1 DEF ParametersInv, RegistryInv, HeldInv, MemoryInv
<1> QED BY <1>2, <1>3 DEF ParametersInv

\* The stream is not asked whether the disk is full.
LEMMA WriteListStep ==
  ASSUME ParametersInv, MayFill = FALSE, P!WriteCMakeLists
  PROVE  ParametersInv'
<1>1. /\ UNCHANGED <<parameters, held, memory, given, got, outside, cmakelists>>
      /\ writing' = [active |-> FALSE, left |-> {}]
      /\ writing.active /\ writing.left = {} /\ writePath \in Paths /\ ~written.ok
      /\ ListInv(cmakelists, P!Registered) /\ FilesInv(writePath, P!Registered, memory)
  <2>1. writing.active /\ writing.left = {}
    BY DEF P!WriteCMakeLists
  <2>2. P!Registered \ writing.left = P!Registered
    BY <2>1
  <2> QED BY <2>1, <2>2 DEF P!WriteCMakeLists, P!Returns, P!NotWriting, P!registry, P!contents,
                            ParametersInv, WriteInv
<1>2. RegistryInv' /\ HeldInv' /\ MemoryInv'
  BY <1>1 DEF ParametersInv, RegistryInv, HeldInv, MemoryInv
<1>3. CASE writePath \notin Existing
  <2>1. UNCHANGED directory /\ ~written'.ok
    <3>1. P!Returns(FALSE) /\ UNCHANGED directory
      BY <1>3 DEF P!WriteCMakeLists
    <3> QED BY <3>1 DEF P!Returns, P!NotWritten
  <2>2. WriteInv'
    BY <1>1, <2>1 DEF ParametersInv, WriteInv
  <2> QED BY <1>2, <2>2 DEF ParametersInv
<1>4. CASE writePath \in Existing
  <2>1. /\ directory' = [directory EXCEPT ![writePath].list = cmakelists]
        /\ written' = [ok |-> TRUE, path |-> writePath, names |-> P!Registered, memory |-> memory]
    BY <1>4 DEF P!WriteCMakeLists, P!Returns
  <2>2. /\ DOMAIN directory' = Paths /\ \A p \in Paths : DOMAIN directory'[p] = {"files", "list"}
        /\ directory'[writePath].list = cmakelists /\ directory'[writePath].files = directory[writePath].files
    BY <1>1, <2>1 DEF ParametersInv, WriteInv
  <2>3. /\ written'.path = writePath /\ written'.names = P!Registered /\ written'.memory = memory
    BY <2>1
  <2>4. ListInv(directory'[written'.path].list, written'.names)
    BY <1>1, <2>2, <2>3
  <2>5. FilesInv(written.path, written.names, written.memory)'
    BY <1>1, <2>2, <2>3 DEF FilesInv
  <2>6. /\ writing' \in [active : BOOLEAN, left : SUBSET Blocks] /\ ~writing'.active
        /\ \A i, j \in DOMAIN cmakelists' : i # j => cmakelists'[i] # cmakelists'[j]
    BY <1>1 DEF ListInv
  <2>7. WriteInv'
    BY <1>1, <2>2, <2>3, <2>4, <2>5, <2>6 DEF WriteInv, ListInv
  <2> QED BY <1>2, <2>7 DEF ParametersInv
<1> QED BY <1>3, <1>4

LEMMA ParametersStep ==
  ASSUME ParametersInv, ExtentsFit, ParameterTypes, MayFill = FALSE, P!Next
  PROVE  ParametersInv'
BY RegisterStep, MetadataStep, GetStep, SetStep, BeginWriteStep, WriteFileStep, FailStep, WriteListStep DEF P!Next

LEMMA ParametersKept ==
  ASSUME ParametersInv
  PROVE  P!ParametersAreKept
<1>1. P!TypeOK
  BY DEF ParametersInv, MemoryInv, HeldInv, WriteInv, P!TypeOK, P!Indices
<1>2. P!AccessesStayInside
  BY DEF ParametersInv, MemoryInv, P!AccessesStayInside
<1>3. P!GetsWhatWasSet
  <2>1. SUFFICES ASSUME got.entry # P!None
                 PROVE  got.entry \in DOMAIN given[got.name] /\ got.value = given[got.name][got.entry]
    BY DEF P!GetsWhatWasSet
  <2> QED BY <2>1 DEF ParametersInv, MemoryInv
<1>4. P!WrittenModelIsComplete
  <2>1. CASE ~written.ok
    BY <2>1 DEF P!WrittenModelIsComplete
  <2>2. CASE written.ok
    <3>1. /\ ListInv(directory[written.path].list, written.names)
          /\ FilesInv(written.path, written.names, written.memory)
      BY <2>2 DEF ParametersInv, WriteInv
    <3>2. Len(directory[written.path].list) = Cardinality(written.names)
      BY <3>1, ListLength
    <3>3. {directory[written.path].list[n] : n \in DOMAIN directory[written.path].list} = written.names
      BY <3>1 DEF ListInv
    <3>4. \A b \in written.names : directory[written.path].files[b] = written.memory[b]
      BY <3>1 DEF FilesInv
    <3>5. P!Cardinality(written.names) = Cardinality(written.names)
      BY DEF P!Cardinality, Cardinality
    <3> QED BY <3>2, <3>3, <3>4, <3>5 DEF P!WrittenModelIsComplete
  <2> QED BY <2>1, <2>2
<1> QED BY <1>1, <1>2, <1>3, <1>4 DEF P!ParametersAreKept

\* An index that a simulator has found for a name (GetParameterMetadata) stays valid when
\* an Extension registers more parameters; accesses by it (GetParameter, SetParameter)
\* stay inside the name's array and get what was set; and a directory that
\* WriteParameterizedModel has written has all files and names each once.
THEOREM Parameters ==
  ASSUME ExtentsFit, MayFill = FALSE
  PROVE  Spec => []ParametersAreKept
<1> DEFINE Invariant == subject = "Parameters" => ParametersInv
<1>1. ParameterTypes
  BY ComponentsAssumption DEF ParameterTypes, P!BlocksAssumption
<1>2. Init => Invariant
  BY InitParameters
<1>3. Invariant /\ [Next]_vars => Invariant'
  <2>1. SUFFICES ASSUME Invariant, [Next]_vars, subject' = "Parameters" PROVE ParametersInv'
    OBVIOUS
  <2>2. subject = "Parameters"
    BY <2>1 DEF Next, vars
  <2>3. ParametersInv /\ (P!Next \/ UNCHANGED modelParameters)
    BY <2>1, <2>2, ParametersNext
  <2>4. CASE UNCHANGED modelParameters
    <3>1. UNCHANGED <<parameters, memory, held, given, got, outside, writing, cmakelists, writePath, directory, written>>
      BY <2>4 DEF modelParameters
    <3>2. P!Registered' = P!Registered
      BY <3>1 DEF P!Registered, P!Indices
    <3>3. RegistryInv' /\ HeldInv' /\ MemoryInv'
      BY <2>3, <3>1 DEF ParametersInv, RegistryInv, HeldInv, MemoryInv
    <3>4. WriteInv'
      BY <2>3, <3>1, <3>2 DEF ParametersInv, WriteInv, ListInv, FilesInv
    <3> QED BY <3>3, <3>4 DEF ParametersInv
  <2> QED BY <1>1, <2>3, <2>4, ParametersStep
<1>4. Invariant => ParametersAreKept
  BY ParametersKept DEF ParametersAreKept
<1> QED BY <1>2, <1>3, <1>4, PTL DEF Spec

-----------------------------------------------------------------------------
(* Simulator models. *)

Handle(o) == object[o].library.handle
Scratch(o) == object[o].library.directory
Holders(f) == {o \in Objects : Handle(o) = f}

SimulatorTypes ==
  /\ IsFiniteSet(Objects) /\ NoFile \notin Files /\ NoDirectory \notin Directories
  /\ DOMAIN StandardMap \subseteq M!Range(KeyOrder)
  /\ Contents \in [Files -> M!FileContents]

\* An object is a record of its fields, with tables that fit together.
Shape(x) ==
  /\ DOMAIN x = {"library", "names", "original", "templateMapOpen", "templateMap", "fields", "added"}
  /\ x.library \in M!Library
  /\ x.templateMapOpen \in BOOLEAN
  /\ DOMAIN x.templateMap \subseteq M!Range(KeyOrder)
  /\ DOMAIN x.names = DOMAIN x.original
  /\ DOMAIN x.fields \in {{}, DOMAIN x.original}

\* What an object has at each stage: only an open library has a scratch directory.
HasByStage(o) ==
  /\ stage[o] \in M!Stage
  /\ stage[o] \in {"none", "finding", "failed"} => Handle(o) = NoFile
  /\ Handle(o) = NoFile => Scratch(o) = NoDirectory
  /\ stage[o] \in {"writing", "reading", "created"} => Handle(o) # NoFile
  /\ stage[o] = "writing" => Scratch(o) = NoDirectory
  /\ stage[o] \in {"reading", "created"} => Scratch(o) # NoDirectory

Counted == \A f \in Files : loaded[f] = Cardinality(Holders(f))

Distinct == \A o, p \in Objects : o # p /\ Scratch(o) = Scratch(p) => Scratch(o) = NoDirectory

Present ==
  /\ \A o \in Objects : Scratch(o) # NoDirectory => Scratch(o) \in directories
  /\ \A d \in directories : \E o \in Objects : Scratch(o) = d

ResourcesInv ==
  /\ stage \in [Objects -> M!Stage] /\ DOMAIN object = Objects
  /\ \A o \in Objects : Shape(object[o]) /\ HasByStage(o)
  /\ specification \in [Files -> Specifications]
  /\ loaded \in [Files -> Nat] /\ directories \subseteq Directories
  /\ Counted /\ Distinct /\ Present

\* What a step of one object may do with what the objects share: nothing, or it opens a
\* library, makes a directory of a name that no object has, or gives back both.
Nothing(o) ==
  Handle(o)' = Handle(o) /\ Scratch(o)' = Scratch(o) /\ UNCHANGED <<loaded, directories>>
Opens(o, f) ==
  /\ Handle(o) = NoFile /\ Handle(o)' = f /\ Scratch(o)' = Scratch(o)
  /\ loaded' = [loaded EXCEPT ![f] = @ + 1] /\ UNCHANGED directories
Makes(o, d) ==
  /\ d \notin directories /\ directories' = directories \cup {d}
  /\ Handle(o)' = Handle(o) /\ Scratch(o) = NoDirectory /\ Scratch(o)' = d /\ UNCHANGED loaded
GivesBack(o) ==
  /\ Handle(o) # NoFile /\ Handle(o)' = NoFile /\ Scratch(o)' = NoDirectory
  /\ loaded' = [loaded EXCEPT ![Handle(o)] = @ - 1]
  /\ directories' = directories \ {Scratch(o)}

Effect(o) ==
  /\ stage' \in [Objects -> M!Stage] /\ DOMAIN object' = Objects /\ UNCHANGED specification
  /\ \A p \in Objects \ {o} : object'[p] = object[p] /\ stage'[p] = stage[p]
  /\ Shape(object'[o]) /\ HasByStage(o)'
  /\ \/ Nothing(o)
     \/ \E f \in Files : Opens(o, f)
     \/ \E d \in Directories : Makes(o, d)
     \/ GivesBack(o)

(* What the operators on an object return. *)

LEMMA ShapeOfNew ==
  ASSUME SimulatorTypes
  PROVE  /\ Shape(M!NewObject)
         /\ M!NewObject.library.handle = NoFile /\ M!NewObject.library.directory = NoDirectory
<1>1. /\ M!NewLibrary \in M!Library
      /\ M!NewLibrary.handle = NoFile /\ M!NewLibrary.directory = NoDirectory
  BY DEF M!NewLibrary, M!Library
<1>2. M!NewObject.library = M!NewLibrary
  BY DEF M!NewObject
<1> QED BY <1>1, <1>2 DEF M!NewObject, Shape

LEMMA LibraryOperations ==
  ASSUME SimulatorTypes, NEW lib \in M!Library, NEW f \in Files, NEW d \in Directories
  PROVE  /\ M!Opened(lib, f) \in M!Library
         /\ M!Opened(lib, f).directory = lib.directory
         /\ M!Opened(lib, f).handle = IF M!Loads(lib, f) THEN f ELSE lib.handle
         /\ M!WithDirectory(lib, d) \in M!Library
         /\ M!WithDirectory(lib, d).directory = d /\ M!WithDirectory(lib, d).handle = lib.handle
         /\ M!Closed(lib) \in M!Library
         /\ M!Closed(lib).handle = NoFile
         /\ lib.handle = NoFile => M!Closed(lib) = lib
         /\ lib.handle # NoFile => M!Closed(lib).directory = NoDirectory
<1>1. M!Opened(lib, f) \in M!Library
  BY DEF SimulatorTypes, M!Opened, M!Library, M!FileContents
<1>2. M!Closed(lib) \in M!Library
  BY DEF M!Closed, M!WithoutDirectory, M!Library
<1>3. M!WithDirectory(lib, d) \in M!Library
  BY DEF M!WithDirectory, M!Library
<1>4. M!Opened(lib, f).directory = lib.directory /\ M!Opened(lib, f).handle = IF M!Loads(lib, f) THEN f ELSE lib.handle
  BY DEF M!Opened, M!Library
<1>5. M!WithDirectory(lib, d).directory = d /\ M!WithDirectory(lib, d).handle = lib.handle
  BY DEF M!WithDirectory, M!Library
<1>6. /\ M!Closed(lib).handle = NoFile /\ (lib.handle = NoFile => M!Closed(lib) = lib)
      /\ lib.handle # NoFile => M!Closed(lib).directory = NoDirectory
  BY DEF M!Closed, M!WithoutDirectory, M!IsOpen, M!Library
<1> QED BY <1>1, <1>2, <1>3, <1>4, <1>5, <1>6

\* An object with another library has that, and keeps its shape.
LEMMA ShapeWithLibrary ==
  ASSUME NEW x, Shape(x), NEW lib \in M!Library
  PROVE  LET y == [x EXCEPT !.library = lib] IN Shape(y) /\ y.library = lib
BY DEF Shape

LEMMA ShapeOpened ==
  ASSUME SimulatorTypes, NEW x, Shape(x)
  PROVE  LET y == M!OpenedAndInitialized(x) IN Shape(y) /\ y.library = x.library
BY DEF SimulatorTypes, Shape, M!OpenedAndInitialized

(* What the actions do. *)

\* Steps that leave the library of an object alone
LEMMA PassingStep ==
  ASSUME ResourcesInv, SimulatorTypes, NEW o \in Objects,
         M!Create(o) \/ M!ItemNotFound(o) \/ M!ParameterFilesNotWritten(o) \/ M!ParseFails(o)
  PROVE  Effect(o)
<1>1. Shape(object[o]) /\ HasByStage(o) /\ stage \in [Objects -> M!Stage] /\ DOMAIN object = Objects
  BY DEF ResourcesInv
<1>2. CASE M!Create(o)
  <2>1. /\ stage[o] \in {"none", "failed"} /\ object' = [object EXCEPT ![o] = M!NewObject]
        /\ stage' = [stage EXCEPT ![o] = "finding"]
        /\ UNCHANGED <<specification, loaded, directories>>
    BY <1>2 DEF M!Create, M!Goes
  <2>2. object'[o] = M!NewObject /\ stage'[o] = "finding"
    BY <1>1, <2>1
  <2>3. Handle(o)' = NoFile /\ Scratch(o)' = NoDirectory /\ Shape(object'[o])
    BY <2>2, ShapeOfNew DEF Handle, Scratch
  <2>4. HasByStage(o)'
    BY <2>2, <2>3 DEF HasByStage, M!Stage
  <2>5. Nothing(o)
    BY <1>1, <2>1, <2>3 DEF Nothing, HasByStage
  <2> QED BY <1>1, <2>1, <2>3, <2>4, <2>5 DEF Effect, HasByStage
<1>3. CASE ~M!Create(o)
  <2>1. /\ stage[o] \in {"finding", "writing", "reading"} /\ stage' = [stage EXCEPT ![o] = "failing"]
        /\ UNCHANGED <<object, specification, loaded, directories>>
    BY <1>3 DEF M!ItemNotFound, M!ParameterFilesNotWritten, M!ParseFails, M!Goes
  <2>2. stage'[o] = "failing" /\ Handle(o)' = Handle(o) /\ Scratch(o)' = Scratch(o)
    BY <1>1, <2>1 DEF Handle, Scratch
  <2>3. HasByStage(o)' /\ Nothing(o)
    BY <1>1, <2>1, <2>2 DEF HasByStage, Nothing, M!Stage
  <2> QED BY <1>1, <2>1, <2>3 DEF Effect, HasByStage
<1> QED BY <1>2, <1>3

LEMMA OpenLibraryStep ==
  ASSUME ResourcesInv, SimulatorTypes, NEW o \in Objects, NEW f \in Files, M!OpenLibrary(o, f)
  PROVE  Effect(o)
<1> DEFINE lib == object[o].library
           opened == M!Opened(lib, f)
<1>1. Shape(object[o]) /\ HasByStage(o) /\ stage \in [Objects -> M!Stage] /\ DOMAIN object = Objects
  BY DEF ResourcesInv
<1>2. /\ stage[o] = "finding" /\ object' = [object EXCEPT ![o] = [object[o] EXCEPT !.library = opened]]
      /\ loaded' = IF M!Loads(lib, f) THEN [loaded EXCEPT ![f] = @ + 1] ELSE loaded
      /\ stage' = [stage EXCEPT ![o] = IF M!OpenFails(lib, f) \/ object'[o].library.itemType # "simulatorModel"
                                       THEN "failing" ELSE "writing"]
      /\ UNCHANGED <<specification, directories>>
  BY DEF M!OpenLibrary, M!Goes
<1>3. Handle(o) = NoFile /\ Scratch(o) = NoDirectory /\ lib \in M!Library
  BY <1>1, <1>2 DEF HasByStage, Shape, Handle, Scratch
<1>4. /\ opened \in M!Library /\ opened.directory = NoDirectory
      /\ opened.handle = IF M!Loads(lib, f) THEN f ELSE NoFile
  <2>1. opened \in M!Library
    BY <1>3 DEF SimulatorTypes, M!Opened, M!Library, M!FileContents
  <2>2. opened.directory = lib.directory /\ opened.handle = IF M!Loads(lib, f) THEN f ELSE lib.handle
    BY <1>3 DEF M!Opened, M!Library
  <2> QED BY <1>3, <2>1, <2>2 DEF Handle, Scratch
<1>5. stage'[o] = "failing" \/ (stage'[o] = "writing" /\ M!Loads(lib, f))
  <2> DEFINE fails == M!OpenFails(lib, f) \/ object'[o].library.itemType # "simulatorModel"
  <2>1. stage' = [stage EXCEPT ![o] = IF fails THEN "failing" ELSE "writing"]
    BY <1>2
  <2>2. fails \/ M!Loads(lib, f)
    BY DEF M!OpenFails
  <2> HIDE DEF fails
  <2>3. fails => stage'[o] = "failing"
    BY <1>1, <2>1
  <2>4. ~fails => stage'[o] = "writing"
    BY <1>1, <2>1
  <2> QED BY <2>2, <2>3, <2>4
<1> HIDE DEF lib, opened
<1>6. object'[o] = [object[o] EXCEPT !.library = opened]
  BY <1>1, <1>2
<1>7. Shape(object'[o]) /\ object'[o].library = opened
  BY <1>1, <1>4, <1>6, ShapeWithLibrary
<1>8. Scratch(o)' = NoDirectory /\ Handle(o)' = IF M!Loads(lib, f) THEN f ELSE NoFile
  BY <1>4, <1>7 DEF Handle, Scratch
<1>9. HasByStage(o)'
  BY <1>5, <1>8 DEF SimulatorTypes, HasByStage, M!Stage
<1>10. Nothing(o) \/ Opens(o, f)
  BY <1>2, <1>3, <1>8 DEF Nothing, Opens
<1> QED BY <1>1, <1>2, <1>7, <1>9, <1>10 DEF Effect, HasByStage

LEMMA WriteFilesStep ==
  ASSUME ResourcesInv, SimulatorTypes, NEW o \in Objects, NEW d \in Directories, M!WriteParameterFiles(o, d)
  PROVE  Effect(o)
<1> DEFINE lib == object[o].library
           with == M!WithDirectory(lib, d)
<1>1. Shape(object[o]) /\ HasByStage(o) /\ stage \in [Objects -> M!Stage] /\ DOMAIN object = Objects
  BY DEF ResourcesInv
<1>2. /\ stage[o] = "writing" /\ object' = [object EXCEPT ![o] = [object[o] EXCEPT !.library = with]]
      /\ d \notin directories /\ directories' = directories \cup {d}
      /\ stage' = [stage EXCEPT ![o] = "reading"]
      /\ UNCHANGED <<specification, loaded>>
  BY DEF M!WriteParameterFiles, M!Goes
<1>3. Handle(o) # NoFile /\ Scratch(o) = NoDirectory /\ lib \in M!Library /\ lib.handle = Handle(o)
  BY <1>1, <1>2 DEF HasByStage, Shape, Handle, Scratch
<1>4. with \in M!Library /\ with.directory = d /\ with.handle = lib.handle
  BY <1>3 DEF M!WithDirectory, M!Library
<1> HIDE DEF lib, with
<1>6. object'[o] = [object[o] EXCEPT !.library = with] /\ stage'[o] = "reading"
  BY <1>1, <1>2
<1>7. Shape(object'[o]) /\ object'[o].library = with
  BY <1>1, <1>4, <1>6, ShapeWithLibrary
<1>8. Scratch(o)' = d /\ Handle(o)' = Handle(o)
  BY <1>3, <1>4, <1>7 DEF Handle, Scratch
<1>9. HasByStage(o)'
  BY <1>3, <1>6, <1>8 DEF SimulatorTypes, HasByStage, M!Stage
<1>10. Makes(o, d)
  BY <1>2, <1>3, <1>8 DEF Makes
<1> QED BY <1>1, <1>2, <1>7, <1>9, <1>10 DEF Effect, HasByStage

LEMMA ReadStep ==
  ASSUME ResourcesInv, SimulatorTypes, NEW o \in Objects, M!ReadSpecification(o)
  PROVE  Effect(o)
<1>1. Shape(object[o]) /\ HasByStage(o) /\ stage \in [Objects -> M!Stage] /\ DOMAIN object = Objects
  BY DEF ResourcesInv
<1>2. stage[o] = "reading" /\ UNCHANGED <<specification, loaded, directories>>
  BY DEF M!ReadSpecification
<1>3. ASSUME NEW s \in {"undefined", "failing"}, M!Goes(o, s), UNCHANGED object
      PROVE  Effect(o)
  <2>1. stage' = [stage EXCEPT ![o] = s] /\ Handle(o)' = Handle(o) /\ Scratch(o)' = Scratch(o)
    BY <1>3 DEF M!Goes, Handle, Scratch
  <2>2. HasByStage(o)' /\ Nothing(o)
    BY <1>1, <1>2, <2>1 DEF HasByStage, Nothing, M!Stage
  <2> QED BY <1>1, <1>2, <1>3, <2>1, <2>2 DEF Effect, HasByStage
<1>4. ASSUME M!Goes(o, "created"),
             object' = [object EXCEPT ![o] = M!OpenedAndInitialized(
                         [object[o] EXCEPT !.names = M!FieldNames(M!Nodes(o)),
                                           !.original = M!OriginalFields(M!Nodes(o))])]
      PROVE  Effect(o)
  <2> DEFINE names == M!FieldNames(M!Nodes(o))
             original == M!OriginalFields(M!Nodes(o))
             keys == M!FieldKeys(M!Nodes(o))
             read == [object[o] EXCEPT !.names = names, !.original = original]
  <2>1. DOMAIN names = DOMAIN original
    BY DEF M!FieldNames, M!OriginalFields
  <2>2. object'[o] = M!OpenedAndInitialized(read) /\ stage' = [stage EXCEPT ![o] = "created"]
    BY <1>1, <1>4 DEF M!Goes
  <2> HIDE DEF names, original
  <2>3. /\ DOMAIN read = DOMAIN object[o] /\ read.library = object[o].library
        /\ DOMAIN read.names = DOMAIN read.original
        /\ read.templateMapOpen = object[o].templateMapOpen /\ read.templateMap = object[o].templateMap
    BY <1>1, <2>1 DEF Shape
  <2> HIDE DEF read
  <2>4. Shape(object'[o]) /\ object'[o].library = object[o].library
    <3> DEFINE new == M!OpenedAndInitialized(read)
    <3>1. /\ DOMAIN new = DOMAIN read /\ new.library = read.library /\ new.names = read.names
          /\ new.original = read.original /\ new.templateMapOpen = TRUE
          /\ new.templateMap = StandardMap /\ new.fields = <<>>
      BY <1>1, <2>3 DEF Shape, M!OpenedAndInitialized
    <3> HIDE DEF new
    <3>2. DOMAIN new.fields = {} /\ new.library \in M!Library /\ DOMAIN new.names = DOMAIN new.original
      BY <1>1, <2>3, <3>1 DEF Shape
    <3>3. Shape(new)
      BY <1>1, <2>3, <3>1, <3>2 DEF Shape, SimulatorTypes
    <3> USE DEF new
    <3> QED BY <2>2, <2>3, <3>1, <3>3
  <2>5. Handle(o)' = Handle(o) /\ Scratch(o)' = Scratch(o) /\ stage'[o] = "created"
    BY <1>1, <2>2, <2>4 DEF Handle, Scratch
  <2>6. HasByStage(o)' /\ Nothing(o)
    BY <1>1, <1>2, <2>5 DEF HasByStage, Nothing, M!Stage
  <2> QED BY <1>1, <1>2, <1>4, <2>2, <2>4, <2>6 DEF Effect, HasByStage
<1> QED BY <1>3, <1>4 DEF M!ReadSpecification

LEMMA DeleteStep ==
  ASSUME ResourcesInv, SimulatorTypes, NEW o \in Objects, M!Delete(o)
  PROVE  Effect(o)
<1> DEFINE lib == object[o].library
           closed == M!Closed(lib)
<1>1. Shape(object[o]) /\ HasByStage(o) /\ stage \in [Objects -> M!Stage] /\ DOMAIN object = Objects
  BY DEF ResourcesInv
<1>2. /\ directories' = IF M!IsOpen(lib) THEN directories \ {Scratch(o)} ELSE directories
      /\ loaded' = IF M!IsOpen(lib) THEN [loaded EXCEPT ![Handle(o)] = @ - 1] ELSE loaded
      /\ object' = [object EXCEPT ![o] = [M!NewObject EXCEPT !.library = closed]]
      /\ stage' = [stage EXCEPT ![o] = IF stage[o] = "failing" THEN "failed" ELSE "none"]
      /\ UNCHANGED specification
  BY DEF M!Delete, M!Goes, Handle, Scratch
<1>3. lib \in M!Library /\ lib.handle = Handle(o) /\ lib.directory = Scratch(o)
  BY <1>1 DEF Shape, Handle, Scratch
<1>4. /\ closed \in M!Library /\ closed.handle = NoFile
      /\ Handle(o) = NoFile => closed = lib
      /\ Handle(o) # NoFile => closed.directory = NoDirectory
  <2>1. closed \in M!Library
    BY <1>3 DEF M!Closed, M!WithoutDirectory, M!Library
  <2> QED BY <1>3, <2>1 DEF M!Closed, M!WithoutDirectory, M!IsOpen, M!Library
<1>5. M!IsOpen(lib) <=> Handle(o) # NoFile
  BY <1>3 DEF M!IsOpen
<1>6. object'[o] = [M!NewObject EXCEPT !.library = closed] /\ stage'[o] \in {"failed", "none"}
  BY <1>1, <1>2
<1> HIDE DEF lib, closed
<1>7. Shape(object'[o]) /\ object'[o].library = closed
  BY <1>4, <1>6, ShapeWithLibrary, ShapeOfNew
<1>8. Handle(o)' = NoFile /\ Scratch(o)' = NoDirectory
  BY <1>1, <1>3, <1>4, <1>7 DEF Handle, Scratch, HasByStage
<1>9. HasByStage(o)'
  BY <1>6, <1>8 DEF HasByStage, M!Stage
<1>10. Nothing(o) \/ GivesBack(o)
  BY <1>1, <1>2, <1>5, <1>8 DEF Nothing, GivesBack, HasByStage
<1> QED BY <1>1, <1>2, <1>7, <1>9, <1>10 DEF Effect, HasByStage

\* Uses of the template map
LEMMA UseStep ==
  ASSUME ResourcesInv, SimulatorTypes, NEW o \in Objects, NEW new, M!Uses(o, new),
         Shape(new), new.library = object[o].library
  PROVE  Effect(o)
<1>1. Shape(object[o]) /\ HasByStage(o) /\ stage \in [Objects -> M!Stage] /\ DOMAIN object = Objects
  BY DEF ResourcesInv
<1>2. object' = [object EXCEPT ![o] = new] /\ UNCHANGED <<stage, specification, loaded, directories>>
  BY DEF M!Uses
<1>3. object'[o] = new
  BY <1>1, <1>2
<1>4. Handle(o)' = Handle(o) /\ Scratch(o)' = Scratch(o)
  BY <1>3 DEF Handle, Scratch
<1>5. HasByStage(o)' /\ Nothing(o)
  BY <1>1, <1>2, <1>4 DEF HasByStage, Nothing
<1> QED BY <1>1, <1>2, <1>3, <1>5 DEF Effect

LEMMA MapStep ==
  ASSUME ResourcesInv, SimulatorTypes, NEW o \in Objects,
         \/ M!OpenAndInitializeTemplateMap(o) \/ M!CloseTemplateMap(o)
         \/ \E key \in AddedKeys, value \in AddedValues : M!AddTemplateMap(o, key, value)
  PROVE  Effect(o)
<1>1. Shape(object[o])
  BY DEF ResourcesInv
<1>2. CASE M!OpenAndInitializeTemplateMap(o)
  BY <1>1, <1>2, ShapeOpened, UseStep DEF M!OpenAndInitializeTemplateMap
<1>3. CASE M!CloseTemplateMap(o)
  <2> DEFINE lines == M!SubstituteFields(object[o].original, object[o].templateMap, KeyOrder)
             new == [object[o] EXCEPT !.templateMapOpen = FALSE, !.fields = lines]
  <2>1. DOMAIN lines = DOMAIN object[o].original
    BY DEF M!SubstituteFields
  <2>2. M!Uses(o, new)
    BY <1>3 DEF M!CloseTemplateMap
  <2> HIDE DEF lines
  <2>3. Shape(new) /\ new.library = object[o].library
    BY <1>1, <2>1 DEF Shape
  <2> QED BY <2>2, <2>3, UseStep
<1>4. ASSUME NEW key \in AddedKeys, NEW value \in AddedValues, M!AddTemplateMap(o, key, value)
      PROVE  Effect(o)
  <2> DEFINE map == M!Put(object[o].templateMap, key, value)
             added == M!Put(object[o].added, key, value)
             new == [object[o] EXCEPT !.templateMap = map, !.added = added]
  <2>1. DOMAIN map = DOMAIN object[o].templateMap \cup {key} /\ key \in M!Range(KeyOrder)
    BY <1>4 DEF M!AddTemplateMap, M!Put
  <2>2. M!Uses(o, new)
    BY <1>4 DEF M!AddTemplateMap
  <2> HIDE DEF map, added
  <2>3. Shape(new) /\ new.library = object[o].library
    BY <1>1, <2>1 DEF Shape
  <2> QED BY <2>2, <2>3, UseStep
<1> QED BY <1>2, <1>3, <1>4

(* What an effect keeps. *)

LEMMA CountedStays ==
  ASSUME ResourcesInv, SimulatorTypes, NEW o \in Objects, Effect(o)
  PROVE  Counted' /\ loaded' \in [Files -> Nat]
<1>1. /\ Counted /\ loaded \in [Files -> Nat] /\ IsFiniteSet(Objects) /\ NoFile \notin Files
      /\ \A p \in Objects : Handle(p) \in Files \cup {NoFile}
  BY DEF ResourcesInv, SimulatorTypes, Shape, Handle, M!Library
<1>2. \A p \in Objects \ {o} : Handle(p)' = Handle(p)
  BY DEF Effect, Handle
<1>3. ASSUME NEW f \in Files
      PROVE  /\ IsFiniteSet(Holders(f)) /\ Cardinality(Holders(f)) \in Nat
             /\ IsFiniteSet(Holders(f)') /\ Cardinality(Holders(f)') \in Nat
  <2>1. IsFiniteSet(Holders(f)) /\ IsFiniteSet(Holders(f)')
    BY <1>1, FS_Subset DEF Holders
  <2> QED BY <2>1, FS_CardinalityType
<1>4. ASSUME NEW f \in Files PROVE loaded'[f] = Cardinality(Holders(f)')
  <2>1. loaded[f] = Cardinality(Holders(f)) /\ DOMAIN loaded = Files
    BY <1>1 DEF Counted
  <2>2. CASE Nothing(o)
    <3>1. Holders(f)' = Holders(f)
      BY <1>2, <2>2 DEF Nothing, Holders
    <3> QED BY <2>1, <2>2, <3>1 DEF Nothing
  <2>3. ASSUME NEW g \in Files, Opens(o, g) PROVE loaded'[f] = Cardinality(Holders(f)')
    <3>1. Handle(o) = NoFile /\ Handle(o)' = g /\ loaded' = [loaded EXCEPT ![g] = @ + 1]
      BY <2>3 DEF Opens
    <3>2. CASE f = g
      <4>1. Holders(f)' = Holders(f) \cup {o} /\ o \notin Holders(f)
        BY <1>1, <1>2, <3>1, <3>2 DEF Holders
      <4>2. Cardinality(Holders(f)') = Cardinality(Holders(f)) + 1
        BY <1>3, <4>1, FS_AddElement
      <4>3. loaded'[f] = loaded[f] + 1
        BY <2>1, <3>1, <3>2
      <4> QED BY <2>1, <4>2, <4>3
    <3>3. CASE f # g
      <4>1. Holders(f)' = Holders(f)
        BY <1>1, <1>2, <3>1, <3>3 DEF Holders
      <4>2. loaded'[f] = loaded[f]
        BY <2>1, <3>1, <3>3
      <4> QED BY <2>1, <4>1, <4>2
    <3> QED BY <3>2, <3>3
  <2>4. ASSUME NEW d \in Directories, Makes(o, d) PROVE loaded'[f] = Cardinality(Holders(f)')
    <3>1. Holders(f)' = Holders(f)
      BY <1>2, <2>4 DEF Makes, Holders
    <3> QED BY <2>1, <2>4, <3>1 DEF Makes
  <2>5. CASE GivesBack(o)
    <3>1. Handle(o) \in Files /\ Handle(o)' = NoFile /\ loaded' = [loaded EXCEPT ![Handle(o)] = @ - 1]
      BY <1>1, <2>5 DEF GivesBack
    <3>2. CASE f = Handle(o)
      <4>1. Holders(f)' = Holders(f) \ {o} /\ o \in Holders(f)
        BY <1>1, <1>2, <3>1, <3>2 DEF Holders
      <4>2. Cardinality(Holders(f)') = Cardinality(Holders(f)) - 1
        BY <1>3, <4>1, FS_RemoveElement
      <4>3. loaded'[f] = loaded[f] - 1
        BY <2>1, <3>1, <3>2
      <4> QED BY <2>1, <4>2, <4>3
    <3>3. CASE f # Handle(o)
      <4>1. Holders(f)' = Holders(f)
        BY <1>1, <1>2, <3>1, <3>3 DEF Holders
      <4>2. loaded'[f] = loaded[f]
        BY <2>1, <3>1, <3>3
      <4> QED BY <2>1, <4>1, <4>2
    <3> QED BY <3>2, <3>3
  <2> QED BY <2>2, <2>3, <2>4, <2>5 DEF Effect
<1>5. DOMAIN loaded' = Files /\ loaded' = [f \in Files |-> loaded'[f]]
  BY <1>1 DEF Effect, Nothing, Opens, Makes, GivesBack
<1> HIDE DEF Cardinality
<1>6. \A f \in Files : loaded'[f] \in Nat
  BY <1>3, <1>4
<1> QED BY <1>4, <1>5, <1>6 DEF Counted

LEMMA ScratchStays ==
  ASSUME ResourcesInv, SimulatorTypes, NEW o \in Objects, Effect(o)
  PROVE  Distinct' /\ Present' /\ directories' \subseteq Directories
<1>1. /\ Distinct /\ Present /\ directories \subseteq Directories /\ NoDirectory \notin Directories
      /\ Handle(o) = NoFile => Scratch(o) = NoDirectory
  BY DEF ResourcesInv, SimulatorTypes, HasByStage
<1>2. \A p \in Objects \ {o} : Scratch(p)' = Scratch(p)
  BY DEF Effect, Scratch
<1>3. CASE Nothing(o) \/ \E f \in Files : Opens(o, f)
  <2>1. directories' = directories /\ \A p \in Objects : Scratch(p)' = Scratch(p)
    BY <1>2, <1>3 DEF Nothing, Opens
  <2> QED BY <1>1, <2>1 DEF Distinct, Present
<1>4. ASSUME NEW d \in Directories, Makes(o, d)
      PROVE  Distinct' /\ Present' /\ directories' \subseteq Directories
  <2>1. d \notin directories /\ directories' = directories \cup {d} /\ Scratch(o) = NoDirectory /\ Scratch(o)' = d
    BY <1>4 DEF Makes
  <2> QED BY <1>1, <1>2, <2>1 DEF Distinct, Present
<1>5. CASE GivesBack(o)
  <2>1. directories' = directories \ {Scratch(o)} /\ Scratch(o)' = NoDirectory
    BY <1>5 DEF GivesBack
  <2>2. \A p \in Objects \ {o} : Scratch(p) # NoDirectory => Scratch(p) # Scratch(o)
    BY <1>1 DEF Distinct
  <2> QED BY <1>1, <1>2, <2>1, <2>2 DEF Distinct, Present
<1> QED BY <1>3, <1>4, <1>5 DEF Effect

LEMMA EffectKeeps ==
  ASSUME ResourcesInv, SimulatorTypes, NEW o \in Objects, Effect(o)
  PROVE  ResourcesInv'
<1>1. \A p \in Objects : Shape(object'[p]) /\ HasByStage(p)'
  <2>1. ASSUME NEW p \in Objects \ {o} PROVE Shape(object'[p]) /\ HasByStage(p)'
    <3>1. object'[p] = object[p] /\ stage'[p] = stage[p]
      BY DEF Effect
    <3>2. Handle(p)' = Handle(p) /\ Scratch(p)' = Scratch(p)
      BY <3>1 DEF Handle, Scratch
    <3>3. Shape(object[p]) /\ HasByStage(p)
      BY DEF ResourcesInv
    <3> QED BY <3>1, <3>2, <3>3 DEF HasByStage
  <2> QED BY <2>1 DEF Effect
<1>2. specification' \in [Files -> Specifications] /\ stage' \in [Objects -> M!Stage] /\ DOMAIN object' = Objects
  BY DEF Effect, ResourcesInv
<1> QED BY <1>1, <1>2, CountedStays, ScratchStays DEF ResourcesInv

LEMMA ResourcesStep ==
  ASSUME ResourcesInv, SimulatorTypes, M!Next
  PROVE  ResourcesInv'
<1>1. \E o \in Objects : Effect(o)
  BY PassingStep, OpenLibraryStep, WriteFilesStep, ReadStep, DeleteStep, MapStep DEF M!Next
<1> QED BY <1>1, EffectKeeps

LEMMA InitResources ==
  ASSUME subject = "Simulator", Init, SimulatorTypes
  PROVE  ResourcesInv
<1>1. /\ stage = [o \in Objects |-> "none"] /\ object = [o \in Objects |-> M!NewObject]
      /\ specification \in [Files -> Specifications]
      /\ loaded = [f \in Files |-> 0] /\ directories = {}
  BY DEF Init, M!Init
<1>2. ASSUME NEW o \in Objects
      PROVE  Shape(object[o]) /\ stage[o] = "none" /\ Handle(o) = NoFile /\ Scratch(o) = NoDirectory
  BY <1>1, ShapeOfNew DEF Handle, Scratch
<1>3. Counted
  <2>1. ASSUME NEW f \in Files PROVE loaded[f] = Cardinality(Holders(f))
    <3>1. Holders(f) = {}
      BY <1>2 DEF Holders, SimulatorTypes
    <3> QED BY <1>1, <3>1, FS_EmptySet
  <2> QED BY <2>1 DEF Counted
<1>4. Distinct /\ Present
  BY <1>1, <1>2 DEF Distinct, Present
<1>5. \A o \in Objects : HasByStage(o)
  BY <1>2 DEF HasByStage, M!Stage
<1>6. stage \in [Objects -> M!Stage]
  BY <1>1 DEF M!Stage
<1> QED BY <1>1, <1>2, <1>3, <1>4, <1>5, <1>6 DEF ResourcesInv

LEMMA ResourcesOwned ==
  ASSUME ResourcesInv, SimulatorTypes
  PROVE  M!ResourcesAreOwned
<1>1. M!TypeOK
  BY DEF ResourcesInv, Shape, M!TypeOK
<1>2. M!LibrariesAreCounted
  <2>1. ASSUME NEW f \in Files
        PROVE  {o \in Objects : object[o].library.handle = f /\ stage[o] \notin {"none", "failed"}} = Holders(f)
    BY DEF ResourcesInv, SimulatorTypes, HasByStage, Holders, Handle
  <2>2. ASSUME NEW f \in Files
        PROVE  loaded[f] = M!Cardinality({o \in Objects : object[o].library.handle = f
                                                           /\ stage[o] \notin {"none", "failed"}})
    <3>1. loaded[f] = Cardinality(Holders(f))
      BY DEF ResourcesInv, Counted
    <3>2. M!Cardinality(Holders(f)) = Cardinality(Holders(f))
      BY DEF M!Cardinality, Cardinality
    <3> QED BY <2>1, <3>1, <3>2
  <2> QED BY <2>2 DEF M!LibrariesAreCounted
<1>3. M!ScratchLivesWithObject
  BY DEF ResourcesInv, HasByStage, Distinct, Present, Scratch, M!ScratchLivesWithObject
<1> QED BY <1>1, <1>2, <1>3 DEF M!ResourcesAreOwned

LEMMA SimulatorNext ==
  ASSUME subject = "Simulator", [Next]_vars
  PROVE  subject' = "Simulator" /\ (M!Next \/ UNCHANGED simulators)
BY DEF Next, vars, simulators

\* However the creations of simulator models interleave and fail, each library is open as
\* often as objects hold it, an object has its scratch directory for itself until it is
\* destroyed, and an object that could not be created or was destroyed leaves neither
\* (SimulatorModelImplementation's Initialize and destructor).
THEOREM Resources == Spec => []ResourcesAreOwned
<1> DEFINE Invariant == subject = "Simulator" => ResourcesInv
<1>1. SimulatorTypes
  <2>1. M!IsFiniteSet(Objects) => IsFiniteSet(Objects)
    BY DEF M!IsFiniteSet, IsFiniteSet
  <2> QED BY <2>1, ComponentsAssumption DEF SimulatorTypes, M!FieldsAssumption
<1>2. Init => Invariant
  BY <1>1, InitResources
<1>3. Invariant /\ [Next]_vars => Invariant'
  <2>1. SUFFICES ASSUME Invariant, [Next]_vars, subject' = "Simulator" PROVE ResourcesInv'
    OBVIOUS
  <2>2. subject = "Simulator"
    BY <2>1 DEF Next, vars
  <2>3. ResourcesInv /\ (M!Next \/ UNCHANGED simulators)
    BY <2>1, <2>2, SimulatorNext
  <2>4. CASE UNCHANGED simulators
    <3>1. UNCHANGED <<stage, object, specification, loaded, directories>>
      BY <2>4 DEF simulators
    <3>2. /\ \A o \in Objects : HasByStage(o)' = HasByStage(o)
          /\ Counted' = Counted /\ Distinct' = Distinct /\ Present' = Present
      BY <3>1 DEF HasByStage, Handle, Scratch, Counted, Holders, Distinct, Present
    <3> QED BY <2>3, <3>1, <3>2 DEF ResourcesInv
  <2> QED BY <1>1, <2>3, <2>4, ResourcesStep
<1>4. Invariant => ResourcesAreOwned
  BY <1>1, ResourcesOwned DEF ResourcesAreOwned
<1> QED BY <1>2, <1>3, <1>4, PTL DEF Spec

-----------------------------------------------------------------------------
(* Least and greatest elements; a set of numbers takes the place of a property in an        *)
(* induction.                                                                               *)

Less == {ss \in Nat \X Nat : ss[1] < ss[2]}

LEMMA LessWellFounded == IsWellFoundedOn(Less, Nat)
BY NatLessThanWellFounded DEF OpToRel, Less

LEMMA HasLeast ==
  ASSUME NEW T, T \subseteq Nat, T # {}
  PROVE  \E n \in T : \A m \in T : n <= m
<1>1. PICK n \in T : \A m \in T : <<m, n>> \notin Less
  BY LessWellFounded, WFMin
<1>2. ASSUME NEW m \in T PROVE n <= m
  <2>1. <<m, n>> \notin Less /\ m \in Nat /\ n \in Nat
    BY <1>1
  <2> QED BY <2>1 DEF Less
<1> QED BY <1>2

LEMMA HasGreatest ==
  ASSUME NEW k \in Nat, NEW T, T \subseteq 0..k, T # {}
  PROVE  \E n \in T : \A m \in T : m <= n
<1> DEFINE R == {k - n : n \in T}
<1>1. R \subseteq Nat
  BY \A n \in T : k - n \in Nat
<1>2. R # {}
  OBVIOUS
<1>3. PICK r \in R : \A m \in R : r <= m
  BY <1>1, <1>2, HasLeast
<1>4. PICK n \in T : r = k - n
  BY <1>3
<1>5. ASSUME NEW m \in T PROVE m <= n
  <2>1. r <= k - m
    BY <1>3
  <2> QED BY <1>4, <2>1
<1> QED BY <1>5

-----------------------------------------------------------------------------
(* The Fortran interface. *)

FortranTypes ==
  /\ MaxLength \in Nat \ {0} /\ TriedIndices \subseteq Int
  /\ \A text \in Texts : text \in Seq({text[i] : i \in DOMAIN text})
  /\ Fields \subseteq Seq(Seq(Texts)) \ {<<>>}

\* A sequence, whatever its elements
IsSeq(s) == Len(s) \in Nat /\ DOMAIN s = 1..Len(s)

\* What a variable of a length has, if it has room for a text
HasText(s, text) == \A i \in DOMAIN s : s[i] = IF i \in DOMAIN text THEN text[i] ELSE F!Blank

LEMMA TextsAreSequences ==
  ASSUME FortranTypes, NEW text \in Texts PROVE IsSeq(text)
BY DEF FortranTypes, IsSeq

LEMMA ConvertedIs ==
  ASSUME FortranTypes, NEW length \in F!Lengths, NEW text
  PROVE  LET s == F!Converted(text, length) IN IsSeq(s) /\ Len(s) = length
<1> DEFINE s == F!Converted(text, length)
<1>1. length \in Nat
  BY DEF FortranTypes, F!Lengths
<1>2. s \in Seq({s[i] : i \in 1..length}) /\ DOMAIN s = 1..length
  BY <1>1 DEF F!Converted
<1>3. Len(s) = length
  BY <1>1, <1>2
<1> HIDE DEF s
<1>4. IsSeq(s) /\ Len(s) = length
  BY <1>1, <1>2, <1>3 DEF IsSeq
<1> USE DEF s
<1> QED BY <1>4

LEMMA ConvertedHasText ==
  ASSUME FortranTypes, NEW length \in F!Lengths, NEW text \in Texts, Len(text) <= length
  PROVE  HasText(F!Converted(text, length), text) /\ ~F!WritesOutside(text, length)
<1>1. length \in Nat /\ IsSeq(text)
  BY TextsAreSequences DEF FortranTypes, F!Lengths
<1>2. F!CopiedLength(text, length) = Len(text)
  <2>1. F!NullIndex(text, length) = Len(text) + 1
    BY DEF F!NullIndex
  <2>2. CASE Len(text) = length
    BY <1>1, <2>1, <2>2 DEF F!CopiedLength
  <2>3. CASE Len(text) # length
    <3>1. Len(text) + 1 # length + 1 /\ Len(text) + 1 - 1 = Len(text)
      <4>1. Len(text) \in Nat
        BY <1>1 DEF IsSeq
      <4>2. \A n \in Nat : n # length => n + 1 # length + 1 /\ n + 1 - 1 = n
        BY <1>1
      <4> QED BY <2>3, <4>1, <4>2
    <3> QED BY <2>1, <3>1 DEF F!CopiedLength
  <2> QED BY <2>2, <2>3
<1>3. ~F!WritesOutside(text, length)
  BY <1>1, <1>2 DEF IsSeq, F!WritesOutside
<1>4. HasText(F!Converted(text, length), text)
  BY <1>1, <1>2 DEF IsSeq, F!Converted, HasText
<1> QED BY <1>3, <1>4

\* There is one place after which a text is blank.
IsLast(s, n) ==
  /\ n \in 0..Len(s)
  /\ \A i \in n + 1..Len(s) : s[i] = F!Blank
  /\ n = 0 \/ s[n] # F!Blank

LEMMA LastExists ==
  ASSUME NEW s, IsSeq(s)
  PROVE  \E n : IsLast(s, n)
<1> DEFINE T == {n \in 0..Len(s) : n = 0 \/ s[n] # F!Blank}
<1>1. Len(s) \in Nat
  BY DEF IsSeq
<1>2. 0 \in T /\ T \subseteq 0..Len(s)
  BY <1>1
<1>3. PICK n \in T : \A m \in T : m <= n
  <2> HIDE DEF T
  <2> QED BY <1>1, <1>2, HasGreatest
<1>4. \A i \in n + 1..Len(s) : s[i] = F!Blank
  <2>1. ASSUME NEW i \in n + 1..Len(s), s[i] # F!Blank PROVE FALSE
    <3>1. i \in 0..Len(s) /\ n < i
      BY <1>1
    <3>2. i \in T
      BY <2>1, <3>1
    <3>3. i <= n
      BY <1>3, <3>2
    <3> QED BY <1>1, <3>1, <3>3
  <2> QED BY <2>1
<1> QED BY <1>4 DEF IsLast

LEMMA LastIsUnique ==
  ASSUME NEW s, IsSeq(s), NEW n, NEW m, IsLast(s, n), IsLast(s, m)
  PROVE  n = m
BY DEF IsSeq, IsLast

LEMMA TrimmedIs ==
  ASSUME NEW s, IsSeq(s), NEW n, IsLast(s, n)
  PROVE  F!Trimmed(s) = SubSeq(s, 1, n)
<1>1. \A m \in 0..Len(s) :
        (\A i \in m + 1..Len(s) : s[i] = F!Blank) /\ (m = 0 \/ s[m] # F!Blank) <=> m = n
  BY LastIsUnique DEF IsLast
<1>2. n \in 0..Len(s)
  BY DEF IsLast
<1> DEFINE last == CHOOSE m \in 0..Len(s) :
                     /\ \A i \in m + 1..Len(s) : s[i] = F!Blank
                     /\ m = 0 \/ s[m] # F!Blank
<1>3. last = n
  BY <1>1, <1>2
<1>4. F!Trimmed(s) = SubSeq(s, 1, last)
  BY DEF F!Trimmed
<1> QED BY <1>3, <1>4

\* A text without blanks at its end is what is left of a variable that has it.
LEMMA TrimmedIsText ==
  ASSUME NEW text, IsSeq(text), F!Trimmed(text) = text,
         NEW s, IsSeq(s), Len(text) <= Len(s), HasText(s, text)
  PROVE  F!Trimmed(s) = text
<1>1. PICK n : IsLast(text, n)
  BY LastExists
<1>2. n \in 0..Len(text) /\ text = SubSeq(text, 1, n) /\ Len(text) \in Nat
  BY <1>1, TrimmedIs DEF IsLast, IsSeq
<1>3. Len(SubSeq(text, 1, n)) = n
  BY <1>2
<1>4. n = Len(text)
  BY <1>2, <1>3
<1>5. IsLast(s, Len(text))
  BY <1>1, <1>4 DEF IsLast, IsSeq, HasText
<1>6. F!Trimmed(s) = SubSeq(s, 1, Len(text))
  BY <1>5, TrimmedIs
<1>7. SubSeq(s, 1, Len(text)) = [i \in 1..Len(text) |-> s[i]]
  BY DEF IsSeq
<1>8. text = [i \in 1..Len(text) |-> text[i]]
  BY <1>2, <1>4
<1> QED BY <1>6, <1>7, <1>8 DEF IsSeq, HasText

\* The text that was asked for, and what the variable has after it was given one
FortranInv ==
  /\ fields \in Fields
  /\ DOMAIN asked = {"routine", "indices", "text", "size"}
  /\ asked.routine \in {"name", "type"} => asked.indices[1] = 1 /\ IsSeq(string)
  /\ F!FortranShowsTheSame

LEMMA Answered ==
  ASSUME FortranTypes, NEW length \in F!Lengths, NEW text \in Texts, F!Answer(text, length)
  PROVE  /\ ierr' = FALSE /\ IsSeq(string)' /\ F!Holds(text)'
<1>1. string' = F!Converted(text, length) /\ ierr' = FALSE /\ overrun' = F!WritesOutside(text, length)
  BY DEF F!Answer
<1>2. IsSeq(string)' /\ Len(string') = length
  BY <1>1, ConvertedIs DEF IsSeq
<1>3. ASSUME Len(text) <= length PROVE HasText(string', text) /\ ~overrun'
  BY <1>1, <1>3, ConvertedHasText
<1>4. F!Holds(text)'
  BY <1>2, <1>3 DEF F!Holds, HasText
<1> QED BY <1>1, <1>2, <1>4

LEMMA AnythingIs ==
  ASSUME FortranTypes, NEW length \in F!Lengths, NEW fails, F!Anything(length, fails)
  PROVE  ierr' = fails /\ IsSeq(string)'
BY ConvertedIs DEF F!Anything, IsSeq

\* The fields of an object are sequences of texts.
LEMMA FieldsAre ==
  ASSUME FortranTypes, NEW object2 \in Fields
  PROVE  /\ Len(object2) \in Nat /\ DOMAIN object2 = 1..Len(object2) /\ 1 \in DOMAIN object2
         /\ \A i \in DOMAIN object2 :
              /\ Len(object2[i]) \in Nat /\ DOMAIN object2[i] = 1..Len(object2[i])
              /\ \A j \in DOMAIN object2[i] : object2[i][j] \in Texts
<1>1. object2 \in Seq(Seq(Texts)) /\ object2 # <<>>
  BY DEF FortranTypes
<1>2. Len(object2) \in Nat /\ DOMAIN object2 = 1..Len(object2) /\ Len(object2) # 0
  BY <1>1, EmptySeq
<1>3. ASSUME NEW i \in DOMAIN object2
      PROVE  /\ Len(object2[i]) \in Nat /\ DOMAIN object2[i] = 1..Len(object2[i])
             /\ \A j \in DOMAIN object2[i] : object2[i][j] \in Texts
  <2>1. object2[i] \in Seq(Texts)
    BY <1>1
  <2> QED BY <2>1
<1> QED BY <1>2, <1>3

\* An index of Fortran, counted from 1, is that of the element or refused.
LEMMA FieldLineStep ==
  ASSUME FortranTypes, FortranInv, NEW i \in TriedIndices, NEW j \in TriedIndices, NEW length \in F!Lengths,
         F!GetSimulatorFieldLine(i, j, length)
  PROVE  FortranInv'
<1>1. /\ asked' = [routine |-> "line", indices |-> <<i, j>>, text |-> <<>>, size |-> 0]
      /\ UNCHANGED <<fields, found>> /\ fields \in Fields /\ i \in Int /\ j \in Int
  BY DEF F!GetSimulatorFieldLine, FortranInv, FortranTypes
<1> DEFINE refused == i - 1 < 0 \/ i - 1 >= Len(fields) \/ j - 1 < 0 \/ j - 1 >= Len(fields[i])
<1>2. i - 1 + 1 = i /\ j - 1 + 1 = j
  BY <1>1
<1>3. refused => F!Anything(length, TRUE)
  BY <1>2 DEF F!GetSimulatorFieldLine
<1>4. ~refused => F!Answer(fields[i][j], length)
  BY <1>2 DEF F!GetSimulatorFieldLine
<1>5. ~refused <=> i \in DOMAIN fields /\ j \in DOMAIN fields[i]
  BY <1>1, FieldsAre
<1>6. F!Exists' <=> ~refused
  BY <1>1, <1>5 DEF F!Exists
<1>7. F!Meant' = fields[i][j]
  BY <1>1 DEF F!Meant
<1> HIDE DEF refused
<1>8. CASE refused
  <2>1. ierr' = TRUE
    BY <1>3, <1>8, AnythingIs
  <2> QED BY <1>1, <1>6, <1>8, <2>1
          DEF FortranInv, F!FortranShowsTheSame, F!LinesAreThoseMeant, F!NamesLeadBack, F!FilesAreRead, F!VersionsArrive
<1>9. CASE ~refused
  <2>1. PICK text \in Texts : text = fields[i][j]
    BY <1>1, <1>5, <1>9, FieldsAre
  <2>2. ierr' = FALSE /\ F!Holds(text)'
    BY <1>4, <1>9, <2>1, Answered
  <2>3. F!Holds(text)' <=> F!Holds(F!Meant)'
    BY <1>1, <1>7, <2>1 DEF F!Holds
  <2> QED BY <1>1, <1>6, <1>9, <2>2, <2>3
          DEF FortranInv, F!FortranShowsTheSame, F!LinesAreThoseMeant, F!NamesLeadBack, F!FilesAreRead, F!VersionsArrive
<1> QED BY <1>8, <1>9

LEMMA ItemNameStep ==
  ASSUME FortranTypes, FortranInv, NEW i \in TriedIndices, NEW length \in F!Lengths,
         F!GetItemNameByType(i, length)
  PROVE  FortranInv'
<1>1. /\ asked' = [routine |-> "name", indices |-> <<1, i>>, text |-> <<>>, size |-> 0]
      /\ UNCHANGED <<fields, found>> /\ fields \in Fields /\ i \in Int
  BY DEF F!GetItemNameByType, FortranInv, FortranTypes
<1>2. F!Exists' <=> i \in DOMAIN fields[1]
  BY <1>1, FieldsAre DEF F!Exists
<1>3. /\ Len(fields[1]) \in Nat /\ DOMAIN fields[1] = 1..Len(fields[1])
      /\ \A j \in DOMAIN fields[1] : fields[1][j] \in Texts
  BY <1>1, FieldsAre
<1>4. CASE i \in DOMAIN fields[1]
  <2>1. PICK text \in Texts : text = fields[1][i]
    BY <1>3, <1>4
  <2>2. ~(i - 1 < 0 \/ i - 1 > Len(fields[1])) /\ i - 1 # Len(fields[1])
    BY <1>1, <1>3, <1>4
  <2>3. F!Answer(text, length)
    BY <2>1, <2>2 DEF F!GetItemNameByType, F!Names
  <2>4. ierr' = FALSE /\ IsSeq(string)' /\ F!Holds(text)'
    BY <2>3, Answered
  <2>5. F!Holds(F!Meant)'
    BY <1>1, <2>1, <2>4 DEF F!Holds, F!Meant
  <2> QED BY <1>1, <2>4, <2>5
          DEF FortranInv, F!FortranShowsTheSame, F!LinesAreThoseMeant, F!NamesLeadBack, F!FilesAreRead, F!VersionsArrive
<1>5. CASE i \notin DOMAIN fields[1]
  <2>1. i - 1 < 0 \/ i - 1 > Len(fields[1]) \/ i - 1 = Len(fields[1])
    BY <1>1, <1>3, <1>5
  <2>2. F!Anything(length, TRUE) \/ F!Anything(length, FALSE)
    BY <2>1 DEF F!GetItemNameByType, F!Names
  <2>3. IsSeq(string)' /\ ~F!Exists'
    BY <1>2, <1>5, <2>2, AnythingIs
  <2> QED BY <1>1, <2>3
          DEF FortranInv, F!FortranShowsTheSame, F!LinesAreThoseMeant, F!NamesLeadBack, F!FilesAreRead, F!VersionsArrive
<1> QED BY <1>4, <1>5

LEMMA FileStep ==
  ASSUME FortranTypes, FortranInv, NEW i \in TriedIndices, NEW size \in F!Lengths, NEW length \in F!Lengths,
         F!GetItemMetadataFileValues(i, size, length)
  PROVE  FortranInv'
<1>1. /\ asked' = [routine |-> "file", indices |-> <<1, i>>, text |-> <<>>, size |-> size]
      /\ UNCHANGED <<fields, found>> /\ fields \in Fields /\ i \in Int
  BY DEF F!GetItemMetadataFileValues, FortranInv, FortranTypes
<1>2. F!Exists' <=> i \in DOMAIN fields[1]
  BY <1>1, FieldsAre DEF F!Exists
<1>3. /\ Len(fields[1]) \in Nat /\ DOMAIN fields[1] = 1..Len(fields[1])
      /\ \A j \in DOMAIN fields[1] : fields[1][j] \in Texts
  BY <1>1, FieldsAre
<1>4. ASSUME i \in DOMAIN fields[1], size = F!MetadataFileLength(i)', ~ierr'
      PROVE  F!Holds(F!Meant)'
  <2>1. i - 1 # Len(fields[1]) /\ size = F!MetadataFileLength(i) /\ ~(size < F!MetadataFileLength(i))
    BY <1>1, <1>3, <1>4 DEF F!MetadataFileLength, F!Names, F!Lengths
  <2>2. PICK text \in Texts : text = fields[1][i]
    BY <1>3, <1>4
  <2>3. string' = F!Converted(text, length) /\ overrun' = F!WritesOutside(text, length)
    BY <1>4, <2>1, <2>2 DEF F!GetItemMetadataFileValues, F!Names, F!WritesOutside
  <2>4. Len(string') = length
    BY <2>3, ConvertedIs
  <2>5. Len(text) <= length => HasText(string', text) /\ ~overrun'
    BY <2>3, ConvertedHasText
  <2>6. F!Holds(text)'
    BY <2>4, <2>5 DEF F!Holds, HasText
  <2> QED BY <1>1, <2>2, <2>6 DEF F!Holds, F!Meant
<1>5. F!FilesAreRead'
  BY <1>1, <1>2, <1>4 DEF F!FilesAreRead
<1> QED BY <1>1, <1>5
        DEF FortranInv, F!FortranShowsTheSame, F!LinesAreThoseMeant, F!NamesLeadBack, F!VersionsArrive

LEMMA VersionStep ==
  ASSUME FortranTypes, FortranInv, NEW text \in Texts, NEW length \in F!Lengths,
         F!ParseSemVer(text, length)
  PROVE  FortranInv'
<1>1. /\ asked' = [routine |-> "version", indices |-> <<>>, text |-> text, size |-> 0]
      /\ UNCHANGED <<fields, found>> /\ fields \in Fields
  BY DEF F!ParseSemVer, FortranInv
<1>2. length \in Nat /\ IsSeq(text)
  BY TextsAreSequences DEF FortranTypes, F!Lengths
<1>3. ASSUME ~ierr', Len(text) < Len(string') PROVE F!Holds(text)'
  <2>1. CASE F!Answer(text, length)
    BY <2>1, Answered
  <2>2. CASE Len(text) >= length /\ string' = SubSeq(text, 1, length)
    <3>1. Len(string') = length
      BY <1>2, <2>2
    <3> QED BY <1>2, <1>3, <2>2, <3>1 DEF IsSeq
  <2>3. CASE F!Anything(length, TRUE)
    <3>1. ierr' = TRUE
      BY <2>3, AnythingIs
    <3> QED BY <1>3, <3>1
  <2> QED BY <2>1, <2>2, <2>3 DEF F!ParseSemVer
<1>4. F!VersionsArrive'
  BY <1>1, <1>3 DEF F!VersionsArrive, F!Holds
<1> QED BY <1>1, <1>4
        DEF FortranInv, F!FortranShowsTheSame, F!LinesAreThoseMeant, F!NamesLeadBack, F!FilesAreRead

\* The name leads back to the item: what the variable has besides the name is blank, and
\* trimmed away.
LEMMA ItemTypeStep ==
  ASSUME FortranTypes, FortranInv, F!GetItemType
  PROVE  FortranInv'
<1>1. /\ asked.routine = "name" /\ ~ierr /\ asked' = [asked EXCEPT !.routine = "type"]
      /\ found' = {n \in DOMAIN fields[1] : fields[1][n] = F!Trimmed(string)}
      /\ ierr' = (found' = {}) /\ UNCHANGED <<fields, string>>
  BY DEF F!GetItemType, F!Names
<1>2. /\ asked.indices[1] = 1 /\ IsSeq(string) /\ fields \in Fields
      /\ F!Exists => F!Holds(F!Meant)
  BY <1>1 DEF FortranInv, F!FortranShowsTheSame, F!NamesLeadBack
<1>3. asked'.indices = asked.indices
  BY <1>1
<1>4. (F!Exists' <=> F!Exists) /\ F!Meant' = F!Meant
  BY <1>1, <1>3 DEF F!Exists, F!Meant
<1>5. ASSUME F!Exists, Len(F!Meant) <= Len(string), F!Trimmed(F!Meant) = F!Meant
      PROVE  asked.indices[2] \in found'
  <2>1. asked.indices[2] \in DOMAIN fields[1] /\ F!Meant = fields[1][asked.indices[2]]
    BY <1>2, <1>5 DEF F!Exists, F!Meant
  <2>2. IsSeq(F!Meant)
    BY <1>2, <2>1, FieldsAre, TextsAreSequences
  <2>3. HasText(string, F!Meant)
    BY <1>2, <1>5 DEF F!Holds, HasText
  <2>4. F!Trimmed(string) = F!Meant
    BY <1>2, <1>5, <2>2, <2>3, TrimmedIsText
  <2> QED BY <1>1, <2>1, <2>4
<1>6. asked'.routine \in {"name", "type"} => asked'.indices[1] = 1 /\ IsSeq(string)'
  BY <1>1, <1>2, <1>3 DEF IsSeq
<1>7. asked'.routine = "type" /\ DOMAIN asked' = DOMAIN asked
  BY <1>1 DEF FortranInv
<1>8. F!NamesLeadBack'
  <2>1. ASSUME F!Exists, Len(F!Meant) <= Len(string), F!Trimmed(F!Meant) = F!Meant
        PROVE  ~ierr' /\ asked'.indices[2] \in found'
    BY <1>1, <1>3, <1>5, <2>1
  <2>2. string' = string
    BY <1>1
  <2> QED BY <1>4, <1>7, <2>1, <2>2 DEF F!NamesLeadBack
<1>9. FortranInv'
  BY <1>1, <1>2, <1>6, <1>7, <1>8, <1>5, <1>6
     DEF FortranInv, F!FortranShowsTheSame, F!LinesAreThoseMeant, F!FilesAreRead, F!VersionsArrive
<1> QED BY <1>9

LEMMA FortranStep ==
  ASSUME FortranTypes, FortranInv, F!Next
  PROVE  FortranInv'
BY FieldLineStep, ItemNameStep, FileStep, VersionStep, ItemTypeStep DEF F!Next

LEMMA FortranNext ==
  ASSUME subject = "Fortran", [Next]_vars
  PROVE  subject' = "Fortran" /\ (F!Next \/ UNCHANGED bindings)
BY DEF Next, vars, bindings

LEMMA InitFortran ==
  ASSUME subject = "Fortran", Init
  PROVE  FortranInv
<1>1. F!Init
  BY DEF Init
<1> QED BY <1>1
        DEF F!Init, FortranInv, F!FortranShowsTheSame, F!LinesAreThoseMeant, F!NamesLeadBack, F!FilesAreRead,
            F!VersionsArrive

\* Whatever the lengths of the texts and of the Fortran caller's variables: an index counted
\* from 1 is that of the element or refused, a variable with room for a text holds it, a
\* name leads back to its item, a file of the announced length is read, and the parts of a
\* version arrive (kim_convert_string_module.f90 and the bindings).
THEOREM Fortran == Spec => []FortranShowsTheSame
<1> DEFINE Invariant == subject = "Fortran" => FortranInv
<1>1. FortranTypes
  BY ComponentsAssumption DEF FortranTypes, F!LengthAssumption
<1>2. Init => Invariant
  BY InitFortran
<1>3. Invariant /\ [Next]_vars => Invariant'
  <2>1. SUFFICES ASSUME Invariant, [Next]_vars, subject' = "Fortran" PROVE FortranInv'
    OBVIOUS
  <2>2. subject = "Fortran"
    BY <2>1 DEF Next, vars
  <2>3. FortranInv /\ (F!Next \/ UNCHANGED bindings)
    BY <2>1, <2>2, FortranNext
  <2>4. CASE UNCHANGED bindings
    <3>1. UNCHANGED <<fields, string, ierr, found, overrun, asked>>
      BY <2>4 DEF bindings
    <3> QED BY <2>3, <3>1, SMTT(30)
            DEF FortranInv, IsSeq, F!FortranShowsTheSame, F!LinesAreThoseMeant, F!NamesLeadBack, F!FilesAreRead,
                F!VersionsArrive, F!Exists, F!Meant, F!Holds, F!MetadataFileLength, F!Names, F!Trimmed
  <2> QED BY <1>1, <2>3, <2>4, FortranStep
<1>4. Invariant => FortranShowsTheSame
  BY DEF FortranInv, FortranShowsTheSame
<1> QED BY <1>2, <1>3, <1>4, PTL DEF Spec

-----------------------------------------------------------------------------
(* Units. *)

Factors == [U!Numbers -> Int]

LEMMA FactorTypes ==
  /\ U!One \in Factors
  /\ \A power \in Int : U!Ten(power) \in Factors
  /\ \A power \in Int, number \in U!Numbers : U!Of(number, power) \in Factors
<1>1. U!One \in Factors
  BY DEF Factors, U!One
<1>2. \A power \in Int : U!Ten(power) \in Factors
  BY <1>1 DEF Factors, U!Ten, U!Numbers
<1>3. \A power \in Int, number \in U!Numbers : U!Of(number, power) \in Factors
  BY DEF Factors, U!Of
<1> QED BY <1>1, <1>2, <1>3

LEMMA TableTypes ==
  ASSUME NEW d \in U!Dimensions, NEW u \in DOMAIN U!ToSI[d]
  PROVE  U!ToSI[d][u] \in Factors
<1>1. CASE d = "length"
  <2>1. U!ToSI[d] = U!LengthMap
    BY <1>1 DEF U!ToSI
  <2> QED BY <2>1, FactorTypes DEF U!LengthMap, U!Numbers
<1>2. CASE d = "energy"
  <2>1. U!ToSI[d] = U!EnergyMap
    BY <1>2 DEF U!ToSI
  <2> QED BY <2>1, FactorTypes DEF U!EnergyMap, U!Numbers
<1>3. CASE d = "charge"
  <2>1. U!ToSI[d] = U!ChargeMap
    BY <1>3 DEF U!ToSI
  <2> QED BY <2>1, FactorTypes DEF U!ChargeMap, U!Numbers
<1>4. CASE d = "temperature"
  <2>1. U!ToSI[d] = U!TemperatureMap
    BY <1>4 DEF U!ToSI
  <2> QED BY <2>1, FactorTypes DEF U!TemperatureMap, U!Numbers
<1>5. CASE d = "time"
  <2>1. U!ToSI[d] = U!TimeMap
    BY <1>5 DEF U!ToSI
  <2> QED BY <2>1, FactorTypes DEF U!TimeMap, U!Numbers
<1> QED BY <1>1, <1>2, <1>3, <1>4, <1>5 DEF U!Dimensions

LEMMA SIType ==
  ASSUME NEW d \in U!Dimensions, NEW unit, NEW n \in U!Numbers
  PROVE  U!SI(d, unit)[n] \in Int
BY TableTypes, FactorTypes DEF U!SI, Factors

\* One dimension's part of a factor
Part(powers, from, to, n, d) == powers[d] * (U!SI(d, from[d])[n] - U!SI(d, to[d])[n])
Parts(powers, from, to, n) ==
  Part(powers, from, to, n, "length") + Part(powers, from, to, n, "energy") + Part(powers, from, to, n, "charge")
    + Part(powers, from, to, n, "temperature") + Part(powers, from, to, n, "time")

LEMMA Telescopes ==
  ASSUME NEW e \in Int, NEW a \in Int, NEW b \in Int, NEW c \in Int
  PROVE  e * (a - b) \in Int /\ e * (a - a) = 0 /\ e * (a - b) + e * (b - c) = e * (a - c)
OBVIOUS

LEMMA PartsTelescope ==
  ASSUME NEW powers \in [U!Dimensions -> Int], NEW n \in U!Numbers, NEW x, NEW y, NEW z
  PROVE  /\ Parts(powers, x, y, n) \in Int /\ Parts(powers, x, x, n) = 0
         /\ Parts(powers, x, y, n) + Parts(powers, y, z, n) = Parts(powers, x, z, n)
<1>1. ASSUME NEW d \in U!Dimensions
      PROVE  /\ Part(powers, x, y, n, d) \in Int /\ Part(powers, y, z, n, d) \in Int
             /\ Part(powers, x, z, n, d) \in Int /\ Part(powers, x, x, n, d) = 0
             /\ Part(powers, x, y, n, d) + Part(powers, y, z, n, d) = Part(powers, x, z, n, d)
  BY SIType, Telescopes DEF Part
<1>2. {"length", "energy", "charge", "temperature", "time"} \subseteq U!Dimensions
  BY DEF U!Dimensions
<1> QED BY <1>1, <1>2 DEF Parts

\* A factor that there is, is the sum of the parts of all dimensions.
LEMMA FactorIs ==
  ASSUME NEW powers \in [U!Dimensions -> Int], NEW n \in U!Numbers, NEW from, NEW to,
         ~U!ConvertFails(from, to, powers)
  PROVE  U!Factor(from, to, powers)[n] = Parts(powers, from, to, n)
<1> DEFINE f == [d \in U!Dimensions |->
                  IF U!IsUnused(from, to, d) THEN 0
                  ELSE powers[d] * (U!SI(d, from[d])[n] - U!SI(d, to[d])[n])]
<1>1. U!Factor(from, to, powers)[n] = f.length + f.energy + f.charge + f.temperature + f.time
  BY DEF U!Factor, U!SumOver
<1>2. ASSUME NEW d \in U!Dimensions PROVE f[d] = Part(powers, from, to, n, d)
  <2>1. CASE U!IsUnused(from, to, d)
    <3>1. powers[d] = 0
      BY <2>1 DEF U!ConvertFails
    <3>2. U!SI(d, from[d])[n] \in Int /\ U!SI(d, to[d])[n] \in Int
      BY SIType
    <3> QED BY <2>1, <3>1, <3>2 DEF Part
  <2>2. CASE ~U!IsUnused(from, to, d)
    BY <2>2 DEF Part
  <2> QED BY <2>1, <2>2
<1>3. {"length", "energy", "charge", "temperature", "time"} \subseteq U!Dimensions
  BY DEF U!Dimensions
<1> HIDE DEF f
<1> QED BY <1>1, <1>2, <1>3 DEF Parts

UnitTypes == Exponents \subseteq [U!Dimensions -> Int] /\ MaxSteps \in Nat

\* The factor so far is that of the direct way; what is in use is known.
UnitsInv ==
  /\ exponents \in [U!Dimensions -> Int]
  /\ first \in U!Bases /\ base \in U!Bases /\ steps \in 0..MaxSteps
  /\ total \in Factors
  /\ \A n \in U!Numbers : total[n] = Parts(exponents, first, base, n)
  /\ base # first =>
       /\ U!Known(base)
       /\ \A d \in U!Dimensions : exponents[d] # 0 => base[d] # "unused"
  /\ U!LookUpsSucceed
  /\ modelUnits = U!NotSet \/ (modelUnits \in U!Bases /\ ~U!SetUnitsFails(modelUnits))

LEMMA InitUnits ==
  ASSUME subject = "Units", Init, UnitTypes
  PROVE  UnitsInv
<1>1. /\ modelUnits = U!NotSet /\ exponents \in [U!Dimensions -> Int] /\ base \in U!Bases /\ first = base
      /\ total = U!One /\ steps = 0 /\ lookUps = {}
  BY DEF Init, U!Init, UnitTypes
<1>2. \A n \in U!Numbers : total[n] = Parts(exponents, first, base, n)
  BY <1>1, PartsTelescope DEF U!One
<1>3. total \in Factors
  BY <1>1, FactorTypes
<1> QED BY <1>1, <1>2, <1>3 DEF UnitsInv, UnitTypes, U!LookUpsSucceed

LEMMA ConvertStep ==
  ASSUME UnitsInv, UnitTypes, NEW to \in U!Bases, U!ConvertUnit(to)
  PROVE  UnitsInv'
<1>1. /\ steps < MaxSteps /\ steps' = steps + 1 /\ UNCHANGED <<modelUnits, exponents, first>>
      /\ IF U!ConvertFails(base, to, exponents)
         THEN UNCHANGED <<base, total, lookUps>>
         ELSE /\ base' = to
              /\ total' = [n \in U!Numbers |-> total[n] + U!Factor(base, to, exponents)[n]]
              /\ lookUps' = U!LookUps(base, to)
  BY DEF U!ConvertUnit
<1>2. steps' \in 0..MaxSteps
  BY <1>1 DEF UnitsInv, UnitTypes
<1>3. CASE U!ConvertFails(base, to, exponents)
  BY <1>1, <1>2, <1>3 DEF UnitsInv, U!LookUpsSucceed
<1>4. CASE ~U!ConvertFails(base, to, exponents)
  <2>1. U!Known(base) /\ U!Known(to) /\ \A d \in U!Dimensions : exponents[d] # 0 => to[d] # "unused"
    BY <1>4 DEF U!ConvertFails, U!IsUnused
  <2>2. ASSUME NEW n \in U!Numbers
        PROVE  total'[n] = Parts(exponents, first, to, n) /\ total'[n] \in Int
    <3>1. U!Factor(base, to, exponents)[n] = Parts(exponents, base, to, n)
      BY <1>4, FactorIs DEF UnitsInv
    <3>2. total[n] = Parts(exponents, first, base, n)
      BY DEF UnitsInv
    <3>3. total'[n] = total[n] + U!Factor(base, to, exponents)[n]
      BY <1>1, <1>4
    <3>4. exponents \in [U!Dimensions -> Int]
      BY DEF UnitsInv
    <3>5. Parts(exponents, first, to, n) \in Int
      BY <3>4, PartsTelescope
    <3>6. Parts(exponents, first, base, n) + Parts(exponents, base, to, n) = Parts(exponents, first, to, n)
      BY <3>4, PartsTelescope
    <3> QED BY <3>1, <3>2, <3>3, <3>5, <3>6
  <2>3. total' \in Factors
    BY <1>1, <1>4, <2>2 DEF Factors
  <2>4. U!LookUpsSucceed'
    <3>1. ASSUME NEW l \in lookUps' PROVE l[2] \in DOMAIN U!ToSI[l[1]]
      <4>1. PICK d \in U!Dimensions : ~U!IsUnused(base, to, d) /\ l \in {<<d, base[d]>>, <<d, to[d]>>}
        BY <1>1, <1>4 DEF U!LookUps
      <4> QED BY <2>1, <4>1 DEF U!Known, U!IsUnused
    <3> QED BY <3>1 DEF U!LookUpsSucceed
  <2>5. \A n \in U!Numbers : total'[n] = Parts(exponents', first', base', n)
    BY <1>1, <1>4, <2>2
  <2> QED BY <1>1, <1>2, <1>4, <2>1, <2>3, <2>4, <2>5 DEF UnitsInv
<1> QED BY <1>3, <1>4

LEMMA SetUnitsStep ==
  ASSUME UnitsInv, NEW units2 \in U!Bases, U!SetUnits(units2)
  PROVE  UnitsInv'
<1>1. modelUnits' = IF U!SetUnitsFails(units2) THEN U!NotSet ELSE units2
  BY DEF U!SetUnits
<1>2. UNCHANGED <<exponents, first, base, total, steps, lookUps>>
  BY DEF U!SetUnits
<1>3. modelUnits' = U!NotSet \/ (modelUnits' \in U!Bases /\ ~U!SetUnitsFails(modelUnits'))
  BY <1>1
<1> QED BY <1>2, <1>3 DEF UnitsInv, U!LookUpsSucceed

\* The direct way, as WayDoesNotMatter says it
LEMMA DirectWay ==
  ASSUME UnitsInv
  PROVE  U!WayDoesNotMatter
<1>1. SUFFICES ASSUME base # first, ~U!ConvertFails(first, base, exponents)
               PROVE  total = [n \in U!Numbers |-> U!SumOver([d \in U!Dimensions |->
                        IF exponents[d] = 0 THEN 0
                        ELSE exponents[d] * (U!ToSI[d][first[d]][n] - U!ToSI[d][base[d]][n])])]
  BY DEF U!WayDoesNotMatter
<1>2. ASSUME NEW n \in U!Numbers, NEW f,
             f = [d \in U!Dimensions |->
                   IF exponents[d] = 0 THEN 0
                   ELSE exponents[d] * (U!ToSI[d][first[d]][n] - U!ToSI[d][base[d]][n])]
      PROVE  total[n] = U!SumOver(f)
  <2>1. ASSUME NEW d \in U!Dimensions PROVE f[d] = Part(exponents, first, base, n, d)
    <3>1. CASE exponents[d] = 0
      <4>1. U!SI(d, first[d])[n] \in Int /\ U!SI(d, base[d])[n] \in Int
        BY SIType
      <4> QED BY <1>2, <3>1, <4>1 DEF Part
    <3>2. CASE exponents[d] # 0
      <4>1. first[d] \in DOMAIN U!ToSI[d] /\ base[d] \in DOMAIN U!ToSI[d]
        BY <1>1, <3>2 DEF U!ConvertFails, U!IsUnused, U!Known
      <4> QED BY <1>2, <3>2, <4>1 DEF Part, U!SI
    <3> QED BY <3>1, <3>2
  <2>2. {"length", "energy", "charge", "temperature", "time"} \subseteq U!Dimensions
    BY DEF U!Dimensions
  <2>3. total[n] = Parts(exponents, first, base, n)
    BY DEF UnitsInv
  <2> QED BY <2>1, <2>2, <2>3 DEF Parts, U!SumOver
<1>3. total = [n \in U!Numbers |-> total[n]]
  BY DEF UnitsInv, Factors
<1> QED BY <1>2, <1>3

LEMMA UnitsHold ==
  ASSUME UnitsInv
  PROVE  U!UnitsConvert
<1>1. U!TypeOK
  BY DEF UnitsInv, Factors, U!TypeOK
<1>2. U!ModelUnitsConvert
  <2>1. SUFFICES ASSUME modelUnits # U!NotSet, NEW to \in U!Bases, NEW d \in {"length", "energy"},
                        U!Known(to), to[d] # "unused",
                        NEW powers, powers = [e \in U!Dimensions |-> IF e = d THEN 1 ELSE 0]
                 PROVE  ~U!ConvertFails(modelUnits, to, powers) /\ ~U!ConvertFails(to, modelUnits, powers)
    BY DEF U!ModelUnitsConvert
  <2>2. U!Known(modelUnits) /\ modelUnits.length # "unused" /\ modelUnits.energy # "unused"
    BY <2>1 DEF UnitsInv, U!SetUnitsFails
  <2>3. \A e \in U!Dimensions : powers[e] # 0 => e = d
    BY <2>1
  <2> QED BY <2>1, <2>2, <2>3 DEF U!ConvertFails, U!IsUnused
<1> QED BY <1>1, <1>2, DirectWay DEF UnitsInv, U!UnitsConvert

LEMMA UnitsNext ==
  ASSUME subject = "Units", [Next]_vars
  PROVE  subject' = "Units" /\ (U!Next \/ UNCHANGED units)
BY DEF Next, vars, units

\* For all base units and exponents: conversions in a row give the factor of the direct
\* one, every unit that is looked up is in its table, also when dimensions are unused,
\* and the units that a model could set convert lengths and energies (ConvertUnit, SetUnits).
THEOREM Conversions == Spec => []UnitsConvert
<1> DEFINE Invariant == subject = "Units" => UnitsInv
<1>1. UnitTypes
  BY ComponentsAssumption DEF UnitTypes, U!UnitsAssumption
<1>2. Init => Invariant
  BY <1>1, InitUnits
<1>3. Invariant /\ [Next]_vars => Invariant'
  <2>1. SUFFICES ASSUME Invariant, [Next]_vars, subject' = "Units" PROVE UnitsInv'
    OBVIOUS
  <2>2. subject = "Units"
    BY <2>1 DEF Next, vars
  <2>3. UnitsInv /\ (U!Next \/ UNCHANGED units)
    BY <2>1, <2>2, UnitsNext
  <2>4. CASE UNCHANGED units
    <3>1. UNCHANGED <<modelUnits, exponents, first, base, total, steps, lookUps>>
      BY <2>4 DEF units
    <3> QED BY <2>3, <3>1 DEF UnitsInv, U!LookUpsSucceed
  <2> QED BY <1>1, <2>3, <2>4, ConvertStep, SetUnitsStep DEF U!Next
<1>4. Invariant => UnitsConvert
  BY UnitsHold DEF UnitsConvert
<1> QED BY <1>2, <1>3, <1>4, PTL DEF Spec

-----------------------------------------------------------------------------
(* The parameters of the model driver. *)

\* The places of the pairs of codes: row j has those of j and the codes from j on.
Triangle(j) == (j * j + j) \div 2
Place(n, i, j) == j * n + i - Triangle(j)

LEMMA TriangleIs ==
  ASSUME NEW j \in Nat
  PROVE  Triangle(j) \in Nat /\ 2 * Triangle(j) = j * j + j
<1>1. PICK k \in Nat : j = 2 * k \/ j = 2 * k + 1
  <2>1. j \div 2 \in Nat /\ (j = 2 * (j \div 2) \/ j = 2 * (j \div 2) + 1)
    OBVIOUS
  <2> QED BY <2>1
<1>2. k * k \in Nat
  OBVIOUS
<1>3. j * j + j = 2 * (2 * (k * k) + k) \/ j * j + j = 2 * (2 * (k * k) + 3 * k + 1)
  <2>1. CASE j = 2 * k
    <3>1. (2 * k) * (2 * k) = 4 * (k * k)
      OBVIOUS
    <3> QED BY <1>2, <2>1, <3>1
  <2>2. CASE j = 2 * k + 1
    <3>1. (2 * k + 1) * (2 * k + 1) = 4 * (k * k) + 4 * k + 1
      OBVIOUS
    <3> QED BY <1>2, <2>2, <3>1
  <2> QED BY <1>1, <2>1, <2>2
<1>4. \E m \in Nat : j * j + j = 2 * m
  <2>1. 2 * (k * k) + k \in Nat /\ 2 * (k * k) + 3 * k + 1 \in Nat
    BY <1>2
  <2> QED BY <1>3, <2>1
<1>5. \A m \in Nat : (2 * m) \div 2 = m
  OBVIOUS
<1> QED BY <1>4, <1>5 DEF Triangle

LEMMA RowsAreApart ==
  ASSUME NEW n \in Nat, NEW j \in Nat, NEW k \in 0..n - 1, j < k, NEW i \in j..n - 1, NEW l \in k..n - 1
  PROVE  Place(n, i, j) < Place(n, l, k)
<1> DEFINE d == k - j
           tj == Triangle(j)  tk == Triangle(k)
<1>1. /\ tj \in Nat /\ tk \in Nat /\ 2 * tj = j * j + j /\ 2 * tk = k * k + k
      /\ d \in Nat /\ d >= 1 /\ k = j + d /\ n >= k + 1
  BY TriangleIs
<1>2. (d - 1) * n >= (d - 1) * (k + 1)
  BY <1>1
<1>3. (d - 1) * n = d * n - n /\ (d - 1) * (k + 1) = d * k + d - k - 1
  BY <1>1
<1>4. k * k = j * j + d * k + d * j /\ d * k = d * j + d * d
  BY <1>1
<1>5. k * n = j * n + d * n
  BY <1>1
<1>6. d * d \in Nat /\ d * d >= 1 /\ d * n \in Int /\ d * k \in Int /\ d * j \in Int /\ j * n \in Int /\ k * n \in Int
      /\ j * j \in Int /\ k * k \in Int
  BY <1>1
<1> DEFINE dn == d * n  dk == d * k  dj == d * j  dd == d * d  jn == j * n  kn == k * n  jj == j * j  kk == k * k
<1>7. /\ dn - n >= dk + d - k - 1 /\ kk = jj + dk + dj /\ dk = dj + dd /\ kn = jn + dn
      /\ 2 * tj = jj + j /\ 2 * tk = kk + k /\ dd >= 1
      /\ dn \in Int /\ dk \in Int /\ dj \in Int /\ dd \in Int /\ jn \in Int /\ kn \in Int /\ jj \in Int /\ kk \in Int
  BY <1>1, <1>2, <1>3, <1>4, <1>5, <1>6
<1>8. tj \in Int /\ tk \in Int /\ d \in Int /\ k = j + d /\ d >= 1 /\ i <= n - 1 /\ l >= k /\ i \in Int /\ l \in Int /\ n \in Int
      /\ j \in Int
  BY <1>1
<1> HIDE DEF d, dn, dk, dj, dd, jn, kn, jj, kk, tj, tk
<1>9. jn + i - tj < kn + l - tk
  BY <1>7, <1>8
<1> QED BY <1>9 DEF Place, jn, kn, tj, tk

LEMMA PlacesAreDistinct ==
  ASSUME NEW n \in Nat, NEW j \in 0..n - 1, NEW k \in 0..n - 1, NEW i \in j..n - 1, NEW l \in k..n - 1,
         Place(n, i, j) = Place(n, l, k)
  PROVE  j = k /\ i = l
<1>1. \A a \in Nat : \A c \in a..n - 1 : Place(n, c, a) \in Int
  BY TriangleIs DEF Place
<1>2. j = k
  BY <1>1, RowsAreApart
<1>3. j * n \in Int /\ Triangle(j) \in Int
  BY TriangleIs
<1> QED BY <1>2, <1>3 DEF Place

Pairs(n) == ((n + 1) * n) \div 2

LEMMA PlacesAreAll ==
  ASSUME NEW n \in Nat \ {0}
  PROVE  /\ \A j \in 0..n - 1 : \A i \in j..n - 1 : Place(n, i, j) \in 0..Pairs(n) - 1
         /\ \A m \in 0..Pairs(n) - 1 : \E j \in 0..n - 1 : \E i \in j..n - 1 : Place(n, i, j) = m
<1>0. Pairs(n) = Triangle(n) /\ Pairs(n) \in Nat /\ 2 * Pairs(n) = n * n + n
  <2>1. (n + 1) * n = n * n + n
    OBVIOUS
  <2> QED BY <2>1, TriangleIs DEF Pairs, Triangle
\* A row begins where the one before ends.
<1>1. ASSUME NEW j \in 0..n - 1
      PROVE  /\ Place(n, j, j) \in Int /\ Place(n, n - 1, j) = Place(n, j, j) + (n - 1 - j)
             /\ \A i \in j..n - 1 : Place(n, i, j) = Place(n, j, j) + (i - j)
             /\ j # n - 1 => Place(n, j + 1, j + 1) = Place(n, n - 1, j) + 1
             /\ j = n - 1 => Place(n, n - 1, j) = Pairs(n) - 1
  <2>1. /\ Triangle(j) \in Nat /\ 2 * Triangle(j) = j * j + j
        /\ Triangle(j + 1) \in Nat /\ 2 * Triangle(j + 1) = (j + 1) * (j + 1) + (j + 1)
    BY TriangleIs
  <2>2. (j + 1) * (j + 1) = j * j + 2 * j + 1 /\ j * n \in Int /\ (j + 1) * n = j * n + n /\ j * j \in Int
    OBVIOUS
  <2>3. Triangle(j + 1) = Triangle(j) + j + 1
    BY <2>1, <2>2
  <2>4. ASSUME j = n - 1 PROVE j * n + n = n * n /\ Triangle(n) = Triangle(j) + n
    <3>1. j + 1 = n
      BY <2>4
    <3>2. (j + 1) * n = j * n + n /\ Triangle(j + 1) = Triangle(j) + (j + 1)
      BY <2>1, <2>2, <2>3
    <3> QED BY <3>1, <3>2
  <2>5. n * n \in Int
    OBVIOUS
  <2>6. Place(n, j, j) \in Int /\ \A i \in j..n - 1 : Place(n, i, j) = Place(n, j, j) + (i - j)
    BY <2>1, <2>2 DEF Place
  <2>7. Place(n, n - 1, j) = Place(n, j, j) + (n - 1 - j)
    BY <2>6
  <2>8. Place(n, j + 1, j + 1) = Place(n, n - 1, j) + 1
    BY <2>1, <2>2, <2>3 DEF Place
  <2>9. j = n - 1 => Place(n, n - 1, j) = Pairs(n) - 1
    <3>1. Place(n, n - 1, j) = j * n + (n - 1) - Triangle(j)
      BY DEF Place
    <3> QED BY <1>0, <2>1, <2>2, <2>4, <2>5, <3>1
  <2> QED BY <2>6, <2>7, <2>8, <2>9
<1>2. Place(n, 0, 0) = 0
  BY TriangleIs DEF Place
<1>3. ASSUME NEW j \in 0..n - 1 PROVE 0 <= Place(n, j, j) /\ Place(n, n - 1, j) <= Pairs(n) - 1
  <2>1. CASE j = 0
    <3>1. n # 1 => Place(n, n - 1, 0) < Place(n, n - 1, n - 1)
      BY RowsAreApart
    <3>2. Place(n, n - 1, 0) \in Int /\ Place(n, n - 1, n - 1) = Pairs(n) - 1 /\ Pairs(n) \in Int
      BY <1>0, <1>1
    <3> QED BY <1>2, <2>1, <3>1, <3>2
  <2>2. CASE j # 0
    <3>1. Place(n, 0, 0) < Place(n, j, j)
      BY <2>2, RowsAreApart
    <3>2. j # n - 1 => Place(n, n - 1, j) < Place(n, n - 1, n - 1)
      BY RowsAreApart
    <3>3. Place(n, j, j) \in Int /\ Place(n, n - 1, j) \in Int /\ Place(n, n - 1, n - 1) = Pairs(n) - 1
      BY <1>1
    <3> QED BY <1>0, <1>2, <3>1, <3>2, <3>3
  <2> QED BY <2>1, <2>2
<1>4. ASSUME NEW j \in 0..n - 1, NEW i \in j..n - 1 PROVE Place(n, i, j) \in 0..Pairs(n) - 1
  BY <1>0, <1>1, <1>3
<1>5. ASSUME NEW m \in 0..Pairs(n) - 1
      PROVE  \E j \in 0..n - 1 : \E i \in j..n - 1 : Place(n, i, j) = m
  <2> DEFINE R == {j \in 0..n - 1 : Place(n, j, j) <= m}
  <2>1. 0 \in R
    BY <1>2
  <2>2. R \subseteq 0..n - 1 /\ R # {} /\ n - 1 \in Nat
    BY <2>1
  <2>3. PICK j \in R : \A k \in R : k <= j
    BY <2>2, HasGreatest
  <2>4. j \in 0..n - 1 /\ Place(n, j, j) <= m
    BY <2>3
  <2>5. m <= Place(n, n - 1, j)
    <3>1. CASE j = n - 1
      BY <1>1, <3>1, <1>0
    <3>2. CASE j # n - 1
      <4>1. j + 1 \in 0..n - 1 /\ j + 1 \notin R
        BY <2>3, <2>4, <3>2
      <4>2. Place(n, j + 1, j + 1) > m
        BY <4>1, <1>1
      <4> QED BY <1>1, <2>4, <3>2, <4>2
    <3> QED BY <3>1, <3>2
  <2>6. m - Place(n, j, j) \in 0..n - 1 - j /\ Place(n, j, j) \in Int
    BY <1>1, <2>4, <2>5
  <2>7. j + (m - Place(n, j, j)) \in j..n - 1
    BY <2>4, <2>6
  <2>8. Place(n, j + (m - Place(n, j, j)), j) = m
    BY <1>1, <2>4, <2>6, <2>7
  <2> QED BY <2>4, <2>7, <2>8
<1> QED BY <1>4, <1>5

DriverTypes ==
  /\ LengthFactor \in Nat \ {0} /\ NewCutoffs \subseteq Nat \ {0}
  /\ \A f \in ParameterFiles :
       /\ f.N \in Nat \ {0} /\ f.shift \in {0, 1}
       /\ IsSeq(f.lines)
       /\ \A n \in DOMAIN f.lines : f.lines[n].kind \in D!Kinds
       /\ \A n \in D!DataLines(f) :
            /\ f.lines[n].cutoff \in Nat \ {0} /\ f.lines[n].epsilon \in Nat
            /\ \E root \in 1..f.lines[n].epsilon : f.lines[n].epsilon = root * root

SpeciesOf(f) == UNION {{f.lines[n].a, f.lines[n].b} : n \in D!DataLines(f)}

SpeciesFit == \A f \in ParameterFiles : Cardinality(SpeciesOf(f)) <= f.N

LEMMA FilesAreTyped == DriverTypes /\ SpeciesFit
<1>1. D!FilesAssumption
  BY ComponentsAssumption
<1>2. ASSUME NEW f \in ParameterFiles PROVE IsSeq(f.lines)
  <2>1. f.lines \in Seq({f.lines[n] : n \in DOMAIN f.lines})
    BY <1>1 DEF D!FilesAssumption
  <2> QED BY <2>1 DEF IsSeq
<1>3. \A S : D!Cardinality(S) = Cardinality(S)
  BY DEF D!Cardinality, Cardinality
<1> QED BY <1>1, <1>2, <1>3 DEF D!FilesAssumption, DriverTypes, SpeciesFit, SpeciesOf

LEMMA SpeciesAreFinite ==
  ASSUME NEW f \in ParameterFiles
  PROVE  IsFiniteSet(SpeciesOf(f))
<1> DEFINE L == D!DataLines(f)
           A == {f.lines[n].a : n \in L}  B == {f.lines[n].b : n \in L}
           fa == [n \in L |-> f.lines[n].a]  fb == [n \in L |-> f.lines[n].b]
<1>1. IsFiniteSet(L)
  <2>1. DOMAIN f.lines = 1..Len(f.lines) /\ Len(f.lines) \in Nat
    BY FilesAreTyped DEF DriverTypes, IsSeq
  <2>2. IsFiniteSet(1..Len(f.lines))
    BY <2>1, FS_Interval
  <2>3. L \in SUBSET (1..Len(f.lines))
    BY <2>1 DEF D!DataLines
  <2> QED BY <2>2, <2>3, FS_Subset
<1>2. fa \in Surjection(L, A) /\ fb \in Surjection(L, B)
  BY DEF Surjection
<1>3. IsFiniteSet(A) /\ IsFiniteSet(B)
  <2> HIDE DEF fa, fb, A, B, L
  <2> QED BY <1>1, <1>2, FS_Surjection
<1>4. IsFiniteSet(A \cup B)
  BY <1>3, FS_Union
<1>5. SpeciesOf(f) = A \cup B
  BY DEF SpeciesOf
<1> QED BY <1>4, <1>5

\* A list of different species of a file is no longer than the file says.
LEMMA ListsFit ==
  ASSUME NEW f \in ParameterFiles, NEW s \in Seq(SpeciesOf(f)),
         \A i, j \in 1..Len(s) : s[i] = s[j] => i = j
  PROVE  Len(s) <= f.N
<1>1. Len(s) \in Nat /\ s \in [1..Len(s) -> SpeciesOf(f)]
  OBVIOUS
<1>2. s \in Injection(1..Len(s), SpeciesOf(f))
  BY <1>1 DEF Injection, IsInjective
<1>3. Cardinality(1..Len(s)) <= Cardinality(SpeciesOf(f))
  BY <1>2, SpeciesAreFinite, FS_Injection
<1>4. Cardinality(1..Len(s)) = Len(s)
  <2>1. Cardinality(1..Len(s)) = IF 1 > Len(s) THEN 0 ELSE Len(s) - 1 + 1
    BY <1>1, FS_Interval
  <2> QED BY <1>1, <2>1
<1>5. Cardinality(SpeciesOf(f)) <= f.N
  BY FilesAreTyped DEF SpeciesFit
<1>6. Cardinality(SpeciesOf(f)) \in Nat /\ f.N \in Nat
  BY SpeciesAreFinite, FS_CardinalityType, FilesAreTyped DEF DriverTypes
<1> QED BY <1>1, <1>3, <1>4, <1>5, <1>6

\* The place of the pair of codes i and j among n species
Index(n, i, j) == IF i >= j THEN Place(n, i, j) ELSE Place(n, j, i)
CodesOf(n) == 0..n - 1
PlacesOf(n) == 0..Pairs(n) - 1

LEMMA PairsAre ==
  ASSUME NEW a, NEW b, NEW c, NEW d
  PROVE  D!Pair(a, b) = D!Pair(c, d) <=> (a = c /\ b = d) \/ (a = d /\ b = c)
BY DEF D!Pair

LEMMA IndexIs ==
  ASSUME NEW n \in Nat \ {0}
  PROVE  /\ \A i, j \in CodesOf(n) : Index(n, i, j) \in PlacesOf(n)
         /\ \A i, j, k, l \in CodesOf(n) : Index(n, i, j) = Index(n, k, l) <=> D!Pair(i, j) = D!Pair(k, l)
         /\ \A m \in PlacesOf(n) : \E i, j \in CodesOf(n) : Index(n, i, j) = m
<1>1. ASSUME NEW i \in CodesOf(n), NEW j \in CodesOf(n)
      PROVE  /\ Index(n, i, j) \in PlacesOf(n) /\ Index(n, i, j) = Index(n, j, i)
             /\ \E a, b \in CodesOf(n) : b <= a /\ D!Pair(a, b) = D!Pair(i, j) /\ Index(n, i, j) = Place(n, a, b)
  <2>1. \A a, b \in CodesOf(n) : b <= a => a \in b..n - 1 /\ b \in 0..n - 1
    BY DEF CodesOf
  <2>2. \A a, b \in CodesOf(n) : b <= a => Place(n, a, b) \in PlacesOf(n)
    BY <2>1, PlacesAreAll DEF PlacesOf
  <2>3. i \in Int /\ j \in Int
    BY DEF CodesOf
  <2>4. CASE i >= j
    <3>1. Index(n, i, j) = Place(n, i, j) /\ Index(n, j, i) = Place(n, i, j)
      BY <2>3, <2>4 DEF Index
    <3>2. j <= i
      BY <2>3, <2>4
    <3> QED BY <2>2, <3>1, <3>2
  <2>5. CASE i < j
    <3>1. Index(n, i, j) = Place(n, j, i) /\ Index(n, j, i) = Place(n, j, i)
      BY <2>3, <2>5 DEF Index
    <3>2. i <= j /\ D!Pair(j, i) = D!Pair(i, j)
      BY <2>3, <2>5, PairsAre
    <3> QED BY <2>2, <3>1, <3>2
  <2> QED BY <2>3, <2>4, <2>5
<1>2. ASSUME NEW i \in CodesOf(n), NEW j \in CodesOf(n), NEW k \in CodesOf(n), NEW l \in CodesOf(n),
             Index(n, i, j) = Index(n, k, l)
      PROVE  D!Pair(i, j) = D!Pair(k, l)
  <2>1. PICK a, b \in CodesOf(n) : b <= a /\ D!Pair(a, b) = D!Pair(i, j) /\ Index(n, i, j) = Place(n, a, b)
    BY <1>1
  <2>2. PICK c, d \in CodesOf(n) : d <= c /\ D!Pair(c, d) = D!Pair(k, l) /\ Index(n, k, l) = Place(n, c, d)
    BY <1>1
  <2>3. a \in b..n - 1 /\ b \in 0..n - 1 /\ c \in d..n - 1 /\ d \in 0..n - 1
    BY <2>1, <2>2 DEF CodesOf
  <2>4. b = d /\ a = c
    BY <1>2, <2>1, <2>2, <2>3, PlacesAreDistinct
  <2> QED BY <2>1, <2>2, <2>4
<1>3. ASSUME NEW i \in CodesOf(n), NEW j \in CodesOf(n), NEW k \in CodesOf(n), NEW l \in CodesOf(n),
             D!Pair(i, j) = D!Pair(k, l)
      PROVE  Index(n, i, j) = Index(n, k, l)
  <2>1. (i = k /\ j = l) \/ (i = l /\ j = k)
    BY <1>3, PairsAre
  <2> QED BY <1>1, <2>1
<1>4. ASSUME NEW m \in PlacesOf(n) PROVE \E i, j \in CodesOf(n) : Index(n, i, j) = m
  <2>1. PICK b \in 0..n - 1 : \E a \in b..n - 1 : Place(n, a, b) = m
    BY PlacesAreAll DEF PlacesOf
  <2>2. PICK a \in b..n - 1 : Place(n, a, b) = m
    BY <2>1
  <2>3. a \in CodesOf(n) /\ b \in CodesOf(n) /\ a >= b
    BY DEF CodesOf
  <2> QED BY <2>2, <2>3 DEF Index
<1>5. \A i, j, k, l \in CodesOf(n) : Index(n, i, j) = Index(n, k, l) <=> D!Pair(i, j) = D!Pair(k, l)
  <2> HIDE DEF CodesOf, Index
  <2> QED BY <1>2, <1>3
<1> QED BY <1>1, <1>4, <1>5

\* The root of a square
LEMMA RootOfSquare ==
  ASSUME NEW r \in Nat
  PROVE  D!Root(r * r) = r
<1>1. r * r \in Nat /\ (r = 0 \/ r * r >= r)
  OBVIOUS
<1>2. r \in 0..r * r
  BY <1>1
<1>3. \A s \in Nat : s * s = r * r => s = r
  <2>1. \A s, t \in Nat : s < t => s * s < t * t
    OBVIOUS
  <2> QED BY <2>1
<1>4. \E s \in 0..r * r : s * s = r * r
  BY <1>2
<1>5. (CHOOSE s \in 0..r * r : s * s = r * r) = r
  <2>1. \A s \in 0..r * r : s * s = r * r => s = r
    BY <1>3
  <2> QED BY <1>2, <2>1
<1> QED BY <1>4, <1>5 DEF D!Root

LEMMA RootOfProduct ==
  ASSUME NEW x \in Nat, NEW y \in Nat, NEW r \in Nat, NEW s \in Nat, x = r * r, y = s * s, x > 0, y > 0
  PROVE  D!Root(x * y) \in Nat /\ D!Root(x * y) > 0 /\ D!Square(D!Root(x * y)) = x * y
<1>1. x * y = (r * s) * (r * s) /\ r * s \in Nat
  OBVIOUS
<1>2. D!Root(x * y) = r * s
  BY <1>1, RootOfSquare
<1>3. r > 0 /\ s > 0
  <2>1. r # 0 /\ s # 0
    <3>1. 0 * 0 = 0
      OBVIOUS
    <3> QED BY <3>1
  <2> QED BY <2>1
<1>4. r * s > 0
  BY <1>3
<1> QED BY <1>1, <1>2, <1>4 DEF D!Square

CodePairs(n) == {D!Pair(i, j) : i, j \in CodesOf(n)}
Distinctly(s) == \A i, j \in 1..Len(s) : s[i] = s[j] => i = j

DriverState ==
  /\ file \in ParameterFiles
  /\ creation \in {"read", "error", "mix", "convert", "refresh", "created"}
  /\ line \in 1..Len(file.lines) + 1
  /\ creation \notin {"read", "error"} => line = Len(file.lines) + 1
  /\ cutoffs \in [PlacesOf(file.N) -> Int] /\ epsilons \in [PlacesOf(file.N) -> Int]
  /\ shift \in {0, 1}
  /\ givenCutoffs \in [CodePairs(file.N) -> Int]
  /\ modelSpecies \in Seq(SpeciesOf(file)) /\ Distinctly(modelSpecies)

\* A line that has been read names the species of codes i and j; the last one; none.
Names(i, j, n) ==
  /\ n \in D!DataLines(file) /\ n < line
  /\ i < Len(modelSpecies) /\ j < Len(modelSpecies)
  /\ D!Pair(file.lines[n].a, file.lines[n].b) = D!Pair(modelSpecies[i + 1], modelSpecies[j + 1])
LastNames(i, j, n) == Names(i, j, n) /\ \A m \in D!DataLines(file) : Names(i, j, m) => m <= n
Unnamed(i, j) == \A n \in D!DataLines(file) : ~Names(i, j, n)

CutoffOf(i, j) == cutoffs[Index(file.N, i, j)]
EpsilonOf(i, j) == epsilons[Index(file.N, i, j)]

\* What has been read of a pair
FromLines(i, j) ==
  \/ \E n \in D!DataLines(file) :
       LastNames(i, j, n) /\ CutoffOf(i, j) = file.lines[n].cutoff /\ EpsilonOf(i, j) = file.lines[n].epsilon
  \/ Unnamed(i, j) /\ CutoffOf(i, j) = -1

ReadInv ==
  creation \in {"read", "mix"} =>
    /\ \A i, j \in CodesOf(file.N) : FromLines(i, j) /\ givenCutoffs[D!Pair(i, j)] = CutoffOf(i, j)
    /\ \A n \in D!DataLines(file) : n < line =>
         \E i, j \in 1..Len(modelSpecies) :
           file.lines[n].a = modelSpecies[i] /\ file.lines[n].b = modelSpecies[j]
    /\ creation = "mix" => \A i \in CodesOf(file.N) : CutoffOf(i, i) # -1

\* What a pair has after mixing, its cutoff in units of length
FromPairs(length, i, j) ==
  \/ \E n \in D!DataLines(file) :
       LastNames(i, j, n) /\ CutoffOf(i, j) = length * file.lines[n].cutoff /\ EpsilonOf(i, j) = file.lines[n].epsilon
  \/ /\ Unnamed(i, j)
     /\ \E n, m \in D!DataLines(file) :
          /\ LastNames(i, i, n) /\ LastNames(j, j, m)
          /\ CutoffOf(i, j) = length * ((file.lines[n].cutoff + file.lines[m].cutoff) \div 2)
          /\ D!Square(EpsilonOf(i, j)) = file.lines[n].epsilon * file.lines[m].epsilon

MixedInv ==
  /\ creation \in {"convert", "refresh", "created"} =>
       \A i, j \in CodesOf(file.N) :
         /\ CutoffOf(i, j) > 0 /\ EpsilonOf(i, j) > 0
         /\ givenCutoffs[D!Pair(i, j)] \in {-1, CutoffOf(i, j)}
  /\ creation = "convert" => \A i, j \in CodesOf(file.N) : FromPairs(1, i, j)
  /\ creation = "refresh" => \A i, j \in CodesOf(file.N) : FromPairs(LengthFactor, i, j)
  /\ creation \in {"convert", "refresh"} => Len(modelSpecies) = file.N

\* After a refresh the tables have what the arrays have.
RefreshedInv ==
  refreshed =>
    /\ creation = "created"
    /\ \A i, j \in CodesOf(file.N) : cutoffsSq2D[i][j] = D!Square(CutoffOf(i, j))
    /\ shift = 1 => \A i, j \in CodesOf(file.N) : shifts2D[i][j] = <<EpsilonOf(i, j), CutoffOf(i, j)>>
    /\ D!InfluenceCoversCutoffs

DriverInv == DriverState /\ ReadInv /\ MixedInv /\ RefreshedInv

LEMMA FileFacts ==
  ASSUME file \in ParameterFiles
  PROVE  /\ file.N \in Nat \ {0} /\ file.shift \in {0, 1}
         /\ IsSeq(file.lines)
         /\ D!Codes = CodesOf(file.N) /\ D!NumberUniqueSpeciesPairs = Pairs(file.N)
         /\ \A i, j : D!PairIndex(i, j) = Index(file.N, i, j)
         /\ \A n \in D!DataLines(file) :
              /\ n \in 1..Len(file.lines) /\ file.lines[n].kind = "data"
              /\ file.lines[n].cutoff \in Nat \ {0} /\ file.lines[n].epsilon \in Nat \ {0}
              /\ file.lines[n].a \in SpeciesOf(file) /\ file.lines[n].b \in SpeciesOf(file)
<1>1. \A n \in D!DataLines(file) : n \in DOMAIN file.lines /\ file.lines[n].kind = "data"
  BY DEF D!DataLines
<1>2. \A n \in D!DataLines(file) : file.lines[n].epsilon \in Nat \ {0}
  BY FilesAreTyped DEF DriverTypes
<1>3. file.N \in Nat \ {0} /\ file.shift \in {0, 1} /\ IsSeq(file.lines)
      /\ \A n \in D!DataLines(file) : file.lines[n].cutoff \in Nat \ {0}
  BY FilesAreTyped DEF DriverTypes
<1>4. D!Codes = CodesOf(file.N) /\ D!NumberUniqueSpeciesPairs = Pairs(file.N)
  BY DEF D!Codes, CodesOf, D!NumberUniqueSpeciesPairs, Pairs, D!N
<1>5. \A i, j : D!PairIndex(i, j) = Index(file.N, i, j)
  BY DEF D!PairIndex, Index, Place, Triangle, D!N
<1>6. \A n \in D!DataLines(file) : file.lines[n].a \in SpeciesOf(file) /\ file.lines[n].b \in SpeciesOf(file)
  BY DEF SpeciesOf
<1> QED BY <1>1, <1>2, <1>3, <1>4, <1>5, <1>6 DEF IsSeq

LEMMA InitDriver ==
  ASSUME D!Init
  PROVE  DriverInv
<1>1. file \in ParameterFiles /\ creation = "read" /\ line = 1 /\ modelSpecies = <<>> /\ refreshed = FALSE
      /\ shift = file.shift
  BY DEF D!Init
<1>2. /\ cutoffs = [n \in PlacesOf(file.N) |-> -1] /\ epsilons = [n \in PlacesOf(file.N) |-> -1]
      /\ givenCutoffs = [p \in CodePairs(file.N) |-> -1]
  BY <1>1, FileFacts DEF D!Init, D!NotGiven, PlacesOf, CodePairs, D!Pair
<1>3. DriverState
  BY <1>1, <1>2, FileFacts DEF DriverState, Distinctly, IsSeq
<1>4. ReadInv
  <2>1. \A i, j \in CodesOf(file.N) : Index(file.N, i, j) \in PlacesOf(file.N)
    BY <1>1, FileFacts, IndexIs
  <2>2. \A i, j \in CodesOf(file.N) : CutoffOf(i, j) = -1 /\ givenCutoffs[D!Pair(i, j)] = -1
    BY <1>2, <2>1 DEF CutoffOf, CodePairs
  <2>3. \A n \in D!DataLines(file) : ~(n < line)
    BY <1>1, FileFacts
  <2> QED BY <1>1, <2>2, <2>3 DEF ReadInv, FromLines, Unnamed, Names
<1> QED BY <1>1, <1>3, <1>4 DEF DriverInv, MixedInv, RefreshedInv

\* A list of different species t is s with x, which is added if it is not there.
IsWith(S, s, x, t) ==
  /\ t \in Seq(S) /\ Distinctly(t) /\ Len(s) <= Len(t)
  /\ \A k \in 1..Len(s) : t[k] = s[k]
  /\ \E k \in 1..Len(t) : t[k] = x

LEMMA WithIs ==
  ASSUME NEW S, NEW s \in Seq(S), Distinctly(s), NEW x \in S
  PROVE  IsWith(S, s, x, D!With(s, x))
<1>1. DOMAIN s = 1..Len(s) /\ Len(s) \in Nat
  OBVIOUS
<1>2. CASE \E n \in DOMAIN s : s[n] = x
  BY <1>1, <1>2 DEF D!With, IsWith
<1>3. CASE ~\E n \in DOMAIN s : s[n] = x
  <2> DEFINE t == Append(s, x)
  <2>1. D!With(s, x) = t
    BY <1>3 DEF D!With
  <2>2. t \in Seq(S) /\ Len(t) = Len(s) + 1 /\ t[Len(s) + 1] = x /\ \A k \in 1..Len(s) : t[k] = s[k]
    OBVIOUS
  <2> HIDE DEF t
  <2>3. Distinctly(t)
    BY <1>1, <1>3, <2>2 DEF Distinctly
  <2> QED BY <1>1, <2>1, <2>2, <2>3 DEF IsWith
<1> QED BY <1>2, <1>3

LEMMA CodeIs ==
  ASSUME NEW S, NEW t \in Seq(S), Distinctly(t), NEW k \in 1..Len(t)
  PROVE  D!CodeIn(t, t[k]) = k - 1
<1>1. DOMAIN t = 1..Len(t) /\ Len(t) \in Nat
  OBVIOUS
<1>2. (CHOOSE n \in DOMAIN t : t[n] = t[k]) = k
  <2>1. \A n \in DOMAIN t : t[n] = t[k] => n = k
    BY <1>1 DEF Distinctly
  <2> QED BY <1>1, <2>1
<1> QED BY <1>2 DEF D!CodeIn

\* Two sets of two of different species
LEMMA SamePairs ==
  ASSUME NEW t, Distinctly(t), NEW i \in 1..Len(t), NEW j \in 1..Len(t),
         NEW k \in 1..Len(t), NEW l \in 1..Len(t)
  PROVE  D!Pair(t[i], t[j]) = D!Pair(t[k], t[l]) <=> D!Pair(i, j) = D!Pair(k, l)
<1>1. \A a, b \in 1..Len(t) : t[a] = t[b] <=> a = b
  BY DEF Distinctly
<1>2. D!Pair(t[i], t[j]) = D!Pair(t[k], t[l]) <=> (t[i] = t[k] /\ t[j] = t[l]) \/ (t[i] = t[l] /\ t[j] = t[k])
  BY PairsAre
<1>3. D!Pair(i, j) = D!Pair(k, l) <=> (i = k /\ j = l) \/ (i = l /\ j = k)
  BY PairsAre
<1> QED BY <1>1, <1>2, <1>3

\* A data line gives the pair of its two species what it says, and no other pair anything.
LEMMA ReadData ==
  ASSUME DriverInv, D!ReadLine, file.lines[line].kind = "data"
  PROVE  DriverInv'
<1> DEFINE N == file.N
           ln == file.lines[line]
           half == D!With(modelSpecies, ln.a)
           list == D!With(half, ln.b)
<1>1. /\ creation = "read" /\ line \in 1..Len(file.lines) /\ line' = line + 1
      /\ creation' = creation /\ UNCHANGED <<file, shift, refreshed>>
      /\ modelSpecies' = list
      /\ refreshed = FALSE
  BY DEF D!ReadLine, DriverInv, DriverState, RefreshedInv
<1>2. /\ file \in ParameterFiles /\ file.lines[line].a \in SpeciesOf(file) /\ file.lines[line].b \in SpeciesOf(file)
      /\ line \in D!DataLines(file) /\ Len(file.lines) \in Nat /\ ln.cutoff \in Nat /\ ln.epsilon \in Nat
      /\ N \in Nat \ {0}
  <2>1. file \in ParameterFiles
    BY DEF DriverInv, DriverState
  <2>2. line \in D!DataLines(file)
    BY <1>1, <2>1, FileFacts DEF D!DataLines, IsSeq
  <2> QED BY <2>1, <2>2, FileFacts DEF IsSeq
<1>3. /\ list \in Seq(SpeciesOf(file)) /\ Distinctly(list) /\ Len(modelSpecies) \in Nat /\ Len(list) \in Nat
      /\ Len(modelSpecies) <= Len(list)
      /\ \A k \in 1..Len(modelSpecies) : list[k] = modelSpecies[k]
      /\ \E k \in 1..Len(list) : list[k] = ln.a
      /\ \E k \in 1..Len(list) : list[k] = ln.b
  <2> DEFINE S == SpeciesOf(file)
  <2>1. modelSpecies \in Seq(S) /\ Distinctly(modelSpecies)
    BY DEF DriverInv, DriverState
  <2>2. ln.a \in S /\ ln.b \in S
    BY <1>2
  <2> HIDE DEF S, ln
  <2>3. IsWith(S, modelSpecies, ln.a, half)
    BY <2>1, <2>2, WithIs
  <2>4. IsWith(S, half, ln.b, list)
    <3>1. half \in Seq(S) /\ Distinctly(half)
      BY <2>3 DEF IsWith
    <3> HIDE DEF half
    <3> QED BY <2>2, <3>1, WithIs
  <2> HIDE DEF half, list
  <2>5. Len(modelSpecies) \in Nat /\ Len(half) \in Nat /\ Len(list) \in Nat
    BY <2>1, <2>3, <2>4 DEF IsWith
  <2>6. \A k \in 1..Len(modelSpecies) : k \in 1..Len(half) /\ list[k] = modelSpecies[k]
    BY <2>3, <2>4, <2>5 DEF IsWith
  <2>7. \A k \in 1..Len(half) : k \in 1..Len(list)
    BY <2>4, <2>5 DEF IsWith
  <2>8. \E k \in 1..Len(list) : list[k] = ln.a
    BY <2>3, <2>4, <2>7 DEF IsWith
  <2> QED BY <2>3, <2>4, <2>5, <2>6, <2>8 DEF IsWith, S
<1>4. Len(list) <= N
  <2> HIDE DEF list
  <2> QED BY <1>2, <1>3, ListsFit DEF Distinctly
<1>5. PICK ka \in 1..Len(list) : list[ka] = ln.a
  BY <1>3
<1>6. PICK kb \in 1..Len(list) : list[kb] = ln.b
  BY <1>3
<1> DEFINE i == ka - 1  j == kb - 1
<1>7. D!CodeIn(list, ln.a) = i /\ D!CodeIn(list, ln.b) = j
  <2> HIDE DEF list, ln
  <2> QED BY <1>3, <1>5, <1>6, CodeIs
<1>8. i \in CodesOf(N) /\ j \in CodesOf(N) /\ i < Len(list) /\ j < Len(list) /\ i + 1 = ka /\ j + 1 = kb
  <2> HIDE DEF list, N
  <2> QED BY <1>2, <1>3, <1>4, <1>5, <1>6 DEF CodesOf
<1>9. /\ cutoffs' = [cutoffs EXCEPT ![Index(N, i, j)] = ln.cutoff]
      /\ epsilons' = [epsilons EXCEPT ![Index(N, i, j)] = ln.epsilon]
      /\ givenCutoffs' = [givenCutoffs EXCEPT ![D!Pair(i, j)] = ln.cutoff]
  <2>1. ln.kind = "data"
    OBVIOUS
  <2>2. LET ci == D!CodeIn(list, ln.a)  cj == D!CodeIn(list, ln.b)
        IN  /\ cutoffs' = [cutoffs EXCEPT ![D!PairIndex(ci, cj)] = ln.cutoff]
            /\ epsilons' = [epsilons EXCEPT ![D!PairIndex(ci, cj)] = ln.epsilon]
            /\ givenCutoffs' = [givenCutoffs EXCEPT ![D!Pair(ci, cj)] = ln.cutoff]
    BY <2>1 DEF D!ReadLine
  <2>3. D!PairIndex(i, j) = Index(N, i, j)
    BY <1>2, FileFacts
  <2> HIDE DEF list, half, ln, i, j, N
  <2> QED BY <1>7, <2>2, <2>3
<1> HIDE DEF list, half, ln, i, j, N
<1>10. /\ Index(N, i, j) \in PlacesOf(N) /\ D!Pair(i, j) \in CodePairs(N)
       /\ \A k, l \in CodesOf(N) : Index(N, k, l) \in PlacesOf(N) /\ D!Pair(k, l) \in CodePairs(N)
       /\ \A k, l \in CodesOf(N) : Index(N, k, l) = Index(N, i, j) <=> D!Pair(k, l) = D!Pair(i, j)
  <2>1. \A k, l \in CodesOf(N) : Index(N, k, l) \in PlacesOf(N)
    BY <1>2, IndexIs
  <2>2. \A k, l \in CodesOf(N) : D!Pair(k, l) \in CodePairs(N)
    BY DEF CodePairs
  <2>3. \A k, l \in CodesOf(N) : Index(N, k, l) = Index(N, i, j) <=> D!Pair(k, l) = D!Pair(i, j)
    <3>1. \A k, l, a, b \in CodesOf(N) : Index(N, k, l) = Index(N, a, b) <=> D!Pair(k, l) = D!Pair(a, b)
      BY <1>2, IndexIs
    <3>2. i \in CodesOf(N) /\ j \in CodesOf(N)
      BY <1>8
    <3> QED BY <3>1, <3>2
  <2> QED BY <1>8, <2>1, <2>2, <2>3
<1>11. /\ cutoffs \in [PlacesOf(N) -> Int] /\ epsilons \in [PlacesOf(N) -> Int]
       /\ givenCutoffs \in [CodePairs(N) -> Int]
  BY DEF DriverInv, DriverState, N
<1>12. DriverState'
  <2>1. cutoffs' \in [PlacesOf(N) -> Int] /\ epsilons' \in [PlacesOf(N) -> Int]
        /\ givenCutoffs' \in [CodePairs(N) -> Int]
    BY <1>2, <1>9, <1>10, <1>11
  <2>2. line' \in 1..Len(file'.lines) + 1
    BY <1>1, <1>2
  <2>3. N' = N /\ file'.N = N
    BY <1>1 DEF N
  <2> QED BY <1>1, <1>2, <1>3, <2>1, <2>2, <2>3 DEF DriverInv, DriverState, Distinctly
<1>13. PICK here \in Nat : here = line /\ here \in D!DataLines(file)
  BY <1>1, <1>2
\* What the lines before say is as before, and this line is about its pair.
<1>14. ASSUME NEW k \in CodesOf(N), NEW l \in CodesOf(N)
       PROVE  /\ \A n \in D!DataLines(file) : n < here => (Names(k, l, n)' <=> Names(k, l, n))
              /\ Names(k, l, here)' <=> D!Pair(k, l) = D!Pair(i, j)
              /\ \A n \in D!DataLines(file) : Names(k, l, n)' => n <= here
  <2>0. /\ k \in Nat /\ l \in Nat /\ Len(modelSpecies) \in Nat /\ Len(list) \in Nat
        /\ Len(modelSpecies) <= Len(list)
        /\ \A n \in D!DataLines(file) : n \in Nat
    BY <1>2, <1>3, FileFacts DEF CodesOf
  <2>1. \A n \in D!DataLines(file) : Names(k, l, n)' <=>
          /\ n < here + 1 /\ k < Len(list) /\ l < Len(list)
          /\ D!Pair(file.lines[n].a, file.lines[n].b) = D!Pair(list[k + 1], list[l + 1])
    BY <1>1, <1>13 DEF Names
  <2>2. ASSUME NEW n \in D!DataLines(file), n < here
        PROVE  Names(k, l, n)' <=> Names(k, l, n)
    <3>1. CASE k < Len(modelSpecies) /\ l < Len(modelSpecies)
      <4>1. k + 1 \in 1..Len(modelSpecies) /\ l + 1 \in 1..Len(modelSpecies)
        BY <2>0, <3>1
      <4>2. list[k + 1] = modelSpecies[k + 1] /\ list[l + 1] = modelSpecies[l + 1]
        BY <1>3, <4>1
      <4>3. k < Len(list) /\ l < Len(list)
        BY <2>0, <3>1
      <4>4. n < here + 1
        <5>1. n \in Nat
          BY <2>0
        <5> QED BY <2>2, <5>1
      <4> QED BY <1>13, <2>1, <2>2, <3>1, <4>2, <4>3, <4>4 DEF Names
    <3>2. ASSUME k < Len(list), l < Len(list), Names(k, l, n)',
                 k >= Len(modelSpecies) \/ l >= Len(modelSpecies)
          PROVE  FALSE
      <4>1. PICK x, y \in 1..Len(modelSpecies) :
              file.lines[n].a = modelSpecies[x] /\ file.lines[n].b = modelSpecies[y]
        BY <1>1, <1>13, <2>2 DEF DriverInv, ReadInv
      <4>2. D!Pair(list[k + 1], list[l + 1]) = D!Pair(list[x], list[y])
        BY <1>3, <2>1, <3>2, <4>1
      <4>3. x \in 1..Len(list) /\ y \in 1..Len(list) /\ k + 1 \in 1..Len(list) /\ l + 1 \in 1..Len(list)
        BY <1>3, <2>0, <3>2
      <4>4. D!Pair(k + 1, l + 1) = D!Pair(x, y)
        <5>1. D!Pair(list[k + 1], list[l + 1]) = D!Pair(list[x], list[y]) <=> D!Pair(k + 1, l + 1) = D!Pair(x, y)
          <6>1. Distinctly(list)
            BY <1>3
          <6> QED BY <4>3, <6>1, SamePairs
        <5> QED BY <4>2, <5>1
      <4>5. (k + 1 = x \/ k + 1 = y) /\ (l + 1 = x \/ l + 1 = y)
        BY <4>4, PairsAre
      <4>6. k + 1 <= Len(modelSpecies) /\ l + 1 <= Len(modelSpecies)
        BY <2>0, <4>5
      <4> QED BY <2>0, <3>2, <4>6
    <3>3. CASE k >= Len(modelSpecies) \/ l >= Len(modelSpecies)
      <4>1. ~Names(k, l, n)
        BY <2>0, <3>3 DEF Names
      <4>2. ~Names(k, l, n)'
        BY <2>1, <3>2, <3>3
      <4> QED BY <4>1, <4>2
    <3> QED BY <2>0, <3>1, <3>3
  <2>3. Names(k, l, here)' <=> D!Pair(k, l) = D!Pair(i, j)
    <3>1. Names(k, l, here)' <=>
            k < Len(list) /\ l < Len(list) /\ D!Pair(list[i + 1], list[j + 1]) = D!Pair(list[k + 1], list[l + 1])
      <4>1. here < here + 1
        BY <1>13
      <4>2. file.lines[here].a = list[i + 1] /\ file.lines[here].b = list[j + 1]
        BY <1>5, <1>6, <1>8, <1>13 DEF ln
      <4> QED BY <1>13, <2>1, <4>1, <4>2
    <3>2. k < Len(list) /\ l < Len(list) =>
            (D!Pair(list[i + 1], list[j + 1]) = D!Pair(list[k + 1], list[l + 1]) <=> D!Pair(i, j) = D!Pair(k, l))
      <4>1. SUFFICES ASSUME k < Len(list), l < Len(list)
                     PROVE  D!Pair(list[i + 1], list[j + 1]) = D!Pair(list[k + 1], list[l + 1]) <=> D!Pair(i, j) = D!Pair(k, l)
        OBVIOUS
      <4>2. i + 1 \in 1..Len(list) /\ j + 1 \in 1..Len(list) /\ k + 1 \in 1..Len(list) /\ l + 1 \in 1..Len(list)
        BY <1>5, <1>6, <1>8, <2>0, <4>1
      <4>3. D!Pair(list[i + 1], list[j + 1]) = D!Pair(list[k + 1], list[l + 1]) <=> D!Pair(i + 1, j + 1) = D!Pair(k + 1, l + 1)
        <5>1. Distinctly(list)
          BY <1>3
        <5> QED BY <4>2, <5>1, SamePairs
      <4>4. i \in Nat /\ j \in Nat
        BY <1>8 DEF CodesOf
      <4>5. D!Pair(i + 1, j + 1) = D!Pair(k + 1, l + 1) <=> D!Pair(i, j) = D!Pair(k, l)
        <5>1. i + 1 = k + 1 <=> i = k
          BY <2>0, <4>4
        <5>2. i + 1 = l + 1 <=> i = l
          BY <2>0, <4>4
        <5>3. j + 1 = k + 1 <=> j = k
          BY <2>0, <4>4
        <5>4. j + 1 = l + 1 <=> j = l
          BY <2>0, <4>4
        <5> QED BY <5>1, <5>2, <5>3, <5>4, PairsAre
      <4> QED BY <4>3, <4>5
    <3>3. D!Pair(k, l) = D!Pair(i, j) => k < Len(list) /\ l < Len(list)
      <4>1. SUFFICES ASSUME D!Pair(k, l) = D!Pair(i, j) PROVE k < Len(list) /\ l < Len(list)
        OBVIOUS
      <4>2. (k = i \/ k = j) /\ (l = i \/ l = j)
        BY <4>1, PairsAre
      <4> QED BY <1>8, <4>2
    <3> QED BY <3>1, <3>2, <3>3
  <2>4. \A n \in D!DataLines(file) : n < here + 1 => n <= here
    BY <1>13, <2>0
  <2> QED BY <2>1, <2>2, <2>3, <2>4
<1>15. ASSUME NEW k \in CodesOf(N), NEW l \in CodesOf(N)
       PROVE  FromLines(k, l)' /\ givenCutoffs'[D!Pair(k, l)] = CutoffOf(k, l)'
  <2>0. N' = N /\ file' = file /\ file.N = N /\ D!DataLines(file)' = D!DataLines(file)
    BY <1>1 DEF N, D!DataLines
  <2>1. /\ CutoffOf(k, l)' = cutoffs'[Index(N, k, l)] /\ EpsilonOf(k, l)' = epsilons'[Index(N, k, l)]
        /\ CutoffOf(k, l) = cutoffs[Index(N, k, l)] /\ EpsilonOf(k, l) = epsilons[Index(N, k, l)]
    BY <2>0 DEF CutoffOf, EpsilonOf
  <2>2. FromLines(k, l) /\ givenCutoffs[D!Pair(k, l)] = CutoffOf(k, l)
    BY <1>1 DEF DriverInv, ReadInv, N
  <2>3. CASE D!Pair(k, l) = D!Pair(i, j)
    <3>1. LastNames(k, l, here)'
      BY <1>13, <1>14, <2>0, <2>3 DEF LastNames
    <3>2. cutoffs'[Index(N, k, l)] = ln.cutoff /\ epsilons'[Index(N, k, l)] = ln.epsilon
          /\ givenCutoffs'[D!Pair(k, l)] = ln.cutoff
      BY <1>9, <1>10, <1>11, <2>3
    <3> QED BY <1>13, <2>0, <2>1, <3>1, <3>2 DEF FromLines, ln
  <2>4. CASE D!Pair(k, l) # D!Pair(i, j)
    <3>1. /\ CutoffOf(k, l)' = CutoffOf(k, l) /\ EpsilonOf(k, l)' = EpsilonOf(k, l)
          /\ givenCutoffs'[D!Pair(k, l)] = givenCutoffs[D!Pair(k, l)]
      BY <1>9, <1>10, <1>11, <2>1, <2>4
    <3>2. ~Names(k, l, here)'
      BY <1>14, <2>4
    <3>3. \A n \in D!DataLines(file) : Names(k, l, n)' <=> Names(k, l, n)
      <4>1. \A n \in D!DataLines(file) : n < here \/ n = here \/ n > here
        BY <1>2, <1>13, FileFacts
      <4>2. \A n \in D!DataLines(file) : Names(k, l, n) => n < here
        BY <1>13 DEF Names
      <4>3. \A n \in D!DataLines(file) : n > here => ~(n <= here) /\ ~(n < here)
        BY <1>2, <1>13, FileFacts
      <4>4. ~(here < here)
        BY <1>13
      <4> QED BY <1>14, <3>2, <4>1, <4>2, <4>3, <4>4
    <3>4. \A n \in D!DataLines(file) : LastNames(k, l, n)' <=> LastNames(k, l, n)
      BY <2>0, <3>3 DEF LastNames
    <3> QED BY <2>0, <2>2, <3>1, <3>3, <3>4 DEF FromLines, Unnamed
  <2> QED BY <2>3, <2>4
<1>16. ReadInv'
  <2>1. creation' = "read" /\ file'.N = N
    BY <1>1 DEF N
  <2>2. ASSUME NEW n \in D!DataLines(file), n < line + 1
        PROVE  \E x, y \in 1..Len(list) : file.lines[n].a = list[x] /\ file.lines[n].b = list[y]
    <3>1. CASE n = line
      BY <1>5, <1>6, <3>1 DEF ln
    <3>2. CASE n # line
      <4>1. n < line
        BY <1>2, <2>2, <3>2, FileFacts
      <4>2. PICK x, y \in 1..Len(modelSpecies) :
              file.lines[n].a = modelSpecies[x] /\ file.lines[n].b = modelSpecies[y]
        BY <1>1, <4>1 DEF DriverInv, ReadInv
      <4>3. x \in 1..Len(list) /\ y \in 1..Len(list)
        BY <1>3
      <4> QED BY <1>3, <4>2, <4>3
    <3> QED BY <3>1, <3>2
  <2> QED BY <1>1, <1>15, <2>1, <2>2 DEF ReadInv, N, D!DataLines
<1> QED BY <1>1, <1>12, <1>16 DEF DriverInv, MixedInv, RefreshedInv

\* What lines say depends on the file, the place in it and the species.
LEMMA NamesStay ==
  ASSUME UNCHANGED <<file, line, modelSpecies>>
  PROVE  /\ \A i, j, n : /\ Names(i, j, n)' <=> Names(i, j, n)
                         /\ LastNames(i, j, n)' <=> LastNames(i, j, n)
         /\ \A i, j : Unnamed(i, j)' <=> Unnamed(i, j)
         /\ D!DataLines(file)' = D!DataLines(file)
<1>1. D!DataLines(file)' = D!DataLines(file)
  BY DEF D!DataLines
<1>2. \A i, j, n : Names(i, j, n)' <=> Names(i, j, n)
  BY <1>1 DEF Names
<1> QED BY <1>1, <1>2 DEF LastNames, Unnamed

LEMMA ReadOther ==
  ASSUME DriverInv, D!ReadLine, file.lines[line].kind # "data"
  PROVE  DriverInv'
<1>1. /\ creation = "read" /\ line \in 1..Len(file.lines) /\ line' = line + 1 /\ refreshed = FALSE
      /\ UNCHANGED <<file, shift, refreshed, modelSpecies, cutoffs, epsilons, givenCutoffs>>
      /\ creation' \in {"read", "error"}
      /\ file \in ParameterFiles /\ Len(file.lines) \in Nat
  <2>1. file \in ParameterFiles /\ line \in 1..Len(file.lines) + 1 /\ (refreshed => creation = "created")
    BY DEF DriverInv, DriverState, RefreshedInv
  <2>2. creation = "read" /\ line <= Len(file.lines) /\ line' = line + 1 /\ UNCHANGED <<file, shift, refreshed>>
    BY DEF D!ReadLine
  <2>3. Len(file.lines) \in Nat /\ DOMAIN file.lines = 1..Len(file.lines)
    BY <2>1, FileFacts DEF IsSeq
  <2>4. line \in DOMAIN file.lines
    BY <2>1, <2>2, <2>3
  <2>5. file.lines[line].kind \in {"comment", "short"}
    BY <2>1, <2>4, FilesAreTyped DEF DriverTypes, D!Kinds
  <2>6. UNCHANGED <<modelSpecies, cutoffs, epsilons, givenCutoffs>> /\ creation' \in {creation, "error"}
    BY <2>5 DEF D!ReadLine
  <2>7. refreshed \in BOOLEAN => refreshed = FALSE
    BY <2>1, <2>2
  <2> QED BY <2>1, <2>2, <2>3, <2>6, <2>7 DEF DriverInv, DriverState
<1>2. DriverState'
  BY <1>1 DEF DriverInv, DriverState, Distinctly
<1>3. \A i, j, n : n \in D!DataLines(file) => (Names(i, j, n)' <=> Names(i, j, n))
  <2>1. \A n \in D!DataLines(file) : n < line + 1 <=> n < line
    <3>1. ASSUME NEW n \in D!DataLines(file) PROVE n \in Nat /\ n # line
      BY <1>1, FileFacts
    <3> QED BY <1>1, <3>1
  <2> QED BY <1>1, <2>1 DEF Names, D!DataLines
<1>4. ReadInv'
  <2>1. SUFFICES ASSUME creation' = "read" PROVE ReadInv'
    BY <1>1 DEF ReadInv
  <2>2. \A i, j \in CodesOf(file.N) : FromLines(i, j)' /\ (givenCutoffs[D!Pair(i, j)] = CutoffOf(i, j))'
    <3>1. \A i, j \in CodesOf(file.N) : FromLines(i, j) /\ givenCutoffs[D!Pair(i, j)] = CutoffOf(i, j)
      BY <1>1 DEF DriverInv, ReadInv
    <3>2. D!DataLines(file)' = D!DataLines(file)
      BY <1>1 DEF D!DataLines
    <3>3. \A i, j : CutoffOf(i, j)' = CutoffOf(i, j) /\ EpsilonOf(i, j)' = EpsilonOf(i, j)
      BY <1>1 DEF CutoffOf, EpsilonOf
    <3>4. \A i, j, n : n \in D!DataLines(file) => (LastNames(i, j, n)' <=> LastNames(i, j, n))
      BY <1>3, <3>2 DEF LastNames
    <3> QED BY <1>1, <1>3, <3>1, <3>2, <3>3, <3>4 DEF FromLines, Unnamed
  <2>3. \A n \in D!DataLines(file) : n < line + 1 =>
          \E i, j \in 1..Len(modelSpecies) :
            file.lines[n].a = modelSpecies[i] /\ file.lines[n].b = modelSpecies[j]
    <3>1. \A n \in D!DataLines(file) : n < line + 1 => n < line
      <4>1. ASSUME NEW n \in D!DataLines(file) PROVE n \in Nat /\ n # line
        BY <1>1, FileFacts
      <4> QED BY <1>1, <4>1
    <3> QED BY <1>1, <3>1 DEF DriverInv, ReadInv
  <2> QED BY <1>1, <2>1, <2>2, <2>3 DEF ReadInv, D!DataLines
<1> QED BY <1>1, <1>2, <1>4 DEF DriverInv, MixedInv, RefreshedInv

LEMMA CheckStep ==
  ASSUME DriverInv, D!CheckPairs
  PROVE  DriverInv'
<1>1. /\ creation = "read" /\ creation' \in {"error", "mix"} /\ ~refreshed /\ file \in ParameterFiles
      /\ line \in 1..Len(file.lines) + 1 /\ line > Len(file.lines)
      /\ UNCHANGED <<file, line, modelSpecies, cutoffs, epsilons, shift, givenCutoffs, refreshed>>
  BY DEF D!CheckPairs, DriverInv, DriverState, RefreshedInv, D!arrays
<1>2. Len(file.lines) \in Nat
  BY <1>1, FileFacts DEF IsSeq
<1>3. DriverState'
  <2>1. line = Len(file.lines) + 1
    BY <1>1, <1>2
  <2> QED BY <1>1, <2>1 DEF DriverInv, DriverState, Distinctly
<1>4. ReadInv'
  <2>1. \A i, j \in CodesOf(file.N) : FromLines(i, j) /\ givenCutoffs[D!Pair(i, j)] = CutoffOf(i, j)
    BY <1>1 DEF DriverInv, ReadInv
  <2>2. \A i, j : CutoffOf(i, j)' = CutoffOf(i, j) /\ EpsilonOf(i, j)' = EpsilonOf(i, j)
    BY <1>1 DEF CutoffOf, EpsilonOf
  <2>3. \A i, j \in CodesOf(file.N) : FromLines(i, j)' /\ (givenCutoffs[D!Pair(i, j)] = CutoffOf(i, j))'
    BY <1>1, <2>1, <2>2, NamesStay DEF FromLines
  <2>4. creation' = "mix" => \A i \in CodesOf(file.N) : CutoffOf(i, i) # -1
    <3>1. D!Codes = CodesOf(file.N) /\ \A i, j : D!PairIndex(i, j) = Index(file.N, i, j)
      BY <1>1, FileFacts
    <3>2. creation' = "mix" => \A i \in D!Codes : cutoffs[D!PairIndex(i, i)] # -1
      BY DEF D!CheckPairs
    <3> QED BY <3>1, <3>2 DEF CutoffOf
  <2>5. \A n \in D!DataLines(file) : n < line =>
          \E i, j \in 1..Len(modelSpecies) :
            file.lines[n].a = modelSpecies[i] /\ file.lines[n].b = modelSpecies[j]
    BY <1>1 DEF DriverInv, ReadInv
  <2> QED BY <1>1, <2>2, <2>3, <2>4, <2>5 DEF ReadInv, D!DataLines
<1> QED BY <1>1, <1>3, <1>4 DEF DriverInv, MixedInv, RefreshedInv

\* The pairs of codes that are mixed into place m, and the value of its k-th species
At(m) == {p \in D!Codes \X D!Codes : D!PairIndex(p[1], p[2]) = m /\ D!IsMixed(p[1], p[2])}
Like(values, m, k) ==
  LET i == (CHOOSE p \in At(m) : p[1] < p[2])[k] IN values[D!PairIndex(i, i)]

LEMMA MixIs ==
  ASSUME D!Mix
  PROVE  /\ cutoffs' = [n \in DOMAIN cutoffs |->
              IF At(n) # {} THEN (Like(cutoffs, n, 1) + Like(cutoffs, n, 2)) \div 2 ELSE cutoffs[n]]
         /\ epsilons' = [n \in DOMAIN epsilons |->
              IF At(n) # {} THEN D!Root(Like(epsilons, n, 1) * Like(epsilons, n, 2)) ELSE epsilons[n]]
         /\ creation = "mix" /\ creation' = "convert"
         /\ UNCHANGED <<file, line, modelSpecies, shift, givenCutoffs, refreshed>>
BY DEF D!Mix, At, Like

LEMMA CutoffsAreOfPairs ==
  ASSUME file \in ParameterFiles
  PROVE  \A i, j \in CodesOf(file.N) : CutoffOf(i, j) = CutoffOf(j, i) /\ EpsilonOf(i, j) = EpsilonOf(j, i)
<1>1. \A i, j \in CodesOf(file.N) : Index(file.N, i, j) = Index(file.N, j, i)
  <2>1. file.N \in Nat \ {0}
    BY FileFacts
  <2>2. \A i, j : D!Pair(i, j) = D!Pair(j, i)
    BY PairsAre
  <2> QED BY <2>1, <2>2, IndexIs
<1> QED BY <1>1 DEF CutoffOf, EpsilonOf

\* A pair that the file gives, and a pair of equal species, is not mixed; another one is from its species.
LEMMA MixedPairs ==
  ASSUME DriverInv, creation = "mix", NEW i \in CodesOf(file.N), NEW j \in CodesOf(file.N)
  PROVE  /\ CutoffOf(i, j) # -1 => At(Index(file.N, i, j)) = {}
         /\ CutoffOf(i, j) = -1 /\ i < j =>
              /\ At(Index(file.N, i, j)) # {}
              /\ Like(cutoffs, Index(file.N, i, j), 1) = CutoffOf(i, i)
              /\ Like(cutoffs, Index(file.N, i, j), 2) = CutoffOf(j, j)
              /\ Like(epsilons, Index(file.N, i, j), 1) = EpsilonOf(i, i)
              /\ Like(epsilons, Index(file.N, i, j), 2) = EpsilonOf(j, j)
<1> DEFINE N == file.N  m == Index(N, i, j)
<1>1. file \in ParameterFiles /\ N \in Nat \ {0} /\ D!Codes = CodesOf(N) /\ \A k, l : D!PairIndex(k, l) = Index(N, k, l)
  BY FileFacts DEF DriverInv, DriverState
<1>2. \A p : p \in At(m) <=>
        /\ p \in CodesOf(N) \X CodesOf(N) /\ Index(N, p[1], p[2]) = m
        /\ p[1] # p[2] /\ cutoffs[Index(N, p[1], p[2])] = -1
  BY <1>1 DEF At, D!IsMixed
<1>3. ASSUME CutoffOf(i, j) # -1 PROVE At(m) = {}
  BY <1>2, <1>3 DEF CutoffOf
<1>4. ASSUME CutoffOf(i, j) = -1, i < j
      PROVE  (CHOOSE p \in At(m) : p[1] < p[2]) = <<i, j>> /\ At(m) # {}
  <2>0. i \in Int /\ j \in Int
    BY <1>1 DEF CodesOf
  <2>1. <<i, j>> \in At(m) /\ <<i, j>>[1] < <<i, j>>[2]
    <3>1. i # j
      BY <1>4, <2>0
    <3>2. <<i, j>>[1] = i /\ <<i, j>>[2] = j /\ <<i, j>> \in CodesOf(N) \X CodesOf(N)
      OBVIOUS
    <3> QED BY <1>2, <1>4, <3>1, <3>2 DEF CutoffOf
  <2>2. ASSUME NEW p \in At(m), p[1] < p[2] PROVE p = <<i, j>>
    <3>1. p \in CodesOf(N) \X CodesOf(N) /\ Index(N, p[1], p[2]) = m
      BY <1>2
    <3>2. p[1] \in CodesOf(N) /\ p[2] \in CodesOf(N) /\ p = <<p[1], p[2]>>
      BY <3>1
    <3>3. D!Pair(p[1], p[2]) = D!Pair(i, j)
      BY <1>1, <3>1, <3>2, IndexIs
    <3>4. (p[1] = i /\ p[2] = j) \/ (p[1] = j /\ p[2] = i)
      BY <3>3, PairsAre
    <3>5. ~(j < i)
      BY <1>4, <2>0
    <3>6. p[1] = i /\ p[2] = j
      BY <2>2, <3>4, <3>5
    <3> QED BY <3>2, <3>6
  <2> QED BY <2>1, <2>2
<1>5. ASSUME CutoffOf(i, j) = -1, i < j
      PROVE  /\ Like(cutoffs, m, 1) = CutoffOf(i, i) /\ Like(cutoffs, m, 2) = CutoffOf(j, j)
             /\ Like(epsilons, m, 1) = EpsilonOf(i, i) /\ Like(epsilons, m, 2) = EpsilonOf(j, j)
  <2> HIDE DEF m
  <2>1. (CHOOSE p \in At(m) : p[1] < p[2])[1] = i /\ (CHOOSE p \in At(m) : p[1] < p[2])[2] = j
    <3> DEFINE c == CHOOSE p \in At(m) : p[1] < p[2]
    <3>1. c = <<i, j>>
      BY <1>4, <1>5
    <3> HIDE DEF c
    <3>2. c[1] = i /\ c[2] = j
      BY <3>1
    <3> QED BY <3>2 DEF c
  <2> QED BY <1>1, <2>1 DEF Like, CutoffOf, EpsilonOf
<1> QED BY <1>3, <1>4, <1>5

\* After mixing, each pair has what the file gives for it or what the rules make of its species.
LEMMA MixStep ==
  ASSUME DriverInv, D!Mix
  PROVE  DriverInv'
<1> DEFINE N == file.N
<1>1. /\ creation = "mix" /\ creation' = "convert" /\ ~refreshed /\ file \in ParameterFiles
      /\ UNCHANGED <<file, line, modelSpecies, shift, givenCutoffs, refreshed>>
      /\ cutoffs \in [PlacesOf(N) -> Int] /\ epsilons \in [PlacesOf(N) -> Int]
      /\ N \in Nat \ {0}
  BY MixIs, FileFacts DEF DriverInv, DriverState, RefreshedInv
<1>2. \A i, j \in CodesOf(N) : FromLines(i, j) /\ givenCutoffs[D!Pair(i, j)] = CutoffOf(i, j)
  BY <1>1 DEF DriverInv, ReadInv
<1>3. \A i, j \in CodesOf(N) : Index(N, i, j) \in PlacesOf(N)
  BY <1>1, IndexIs
<1>4. \A n \in D!DataLines(file) :
        /\ file.lines[n].cutoff \in Nat \ {0} /\ file.lines[n].epsilon \in Nat \ {0}
        /\ \E root \in Nat : file.lines[n].epsilon = root * root
  BY <1>1, FileFacts, FilesAreTyped DEF DriverTypes
\* A pair that the file gives
<1>5. ASSUME NEW i \in CodesOf(N), NEW j \in CodesOf(N), CutoffOf(i, j) # -1
      PROVE  /\ \E n \in D!DataLines(file) :
                  LastNames(i, j, n) /\ CutoffOf(i, j) = file.lines[n].cutoff /\ EpsilonOf(i, j) = file.lines[n].epsilon
             /\ CutoffOf(i, j)' = CutoffOf(i, j) /\ EpsilonOf(i, j)' = EpsilonOf(i, j)
  <2>1. At(Index(N, i, j)) = {}
    BY <1>1, <1>5, MixedPairs
  <2>2. cutoffs'[Index(N, i, j)] = cutoffs[Index(N, i, j)] /\ epsilons'[Index(N, i, j)] = epsilons[Index(N, i, j)]
    BY <1>1, <1>3, <2>1, MixIs
  <2>3. CutoffOf(i, j)' = CutoffOf(i, j) /\ EpsilonOf(i, j)' = EpsilonOf(i, j)
    BY <1>1, <2>2 DEF CutoffOf, EpsilonOf
  <2> QED BY <1>2, <1>5, <2>3 DEF FromLines
\* A pair that is mixed
<1>6. ASSUME NEW i \in CodesOf(N), NEW j \in CodesOf(N), CutoffOf(i, j) = -1, i < j
      PROVE  /\ Unnamed(i, j)
             /\ CutoffOf(i, j)' \in Nat \ {0} /\ EpsilonOf(i, j)' \in Nat \ {0}
             /\ CutoffOf(j, i)' = CutoffOf(i, j)' /\ EpsilonOf(j, i)' = EpsilonOf(i, j)'
             /\ FromPairs(1, i, j)' /\ FromPairs(1, j, i)'
  <2>0. CutoffOf(i, i) # -1 /\ CutoffOf(j, j) # -1
    BY <1>1 DEF DriverInv, ReadInv
  <2>1. PICK n \in D!DataLines(file) :
          LastNames(i, i, n) /\ CutoffOf(i, i) = file.lines[n].cutoff /\ EpsilonOf(i, i) = file.lines[n].epsilon
    BY <1>5, <2>0
  <2>2. PICK m \in D!DataLines(file) :
          LastNames(j, j, m) /\ CutoffOf(j, j) = file.lines[m].cutoff /\ EpsilonOf(j, j) = file.lines[m].epsilon
    BY <1>5, <2>0
  <2> DEFINE p == Index(N, i, j)
             cn == file.lines[n].cutoff  cm == file.lines[m].cutoff
             en == file.lines[n].epsilon  em == file.lines[m].epsilon
  <2>3. /\ At(p) # {} /\ Like(cutoffs, p, 1) = cn /\ Like(cutoffs, p, 2) = cm
        /\ Like(epsilons, p, 1) = en /\ Like(epsilons, p, 2) = em
    BY <1>1, <1>6, <2>1, <2>2, MixedPairs
  <2>4. p \in PlacesOf(N)
    BY <1>3
  <2> HIDE DEF p
  <2>5. cutoffs'[p] = (cn + cm) \div 2 /\ epsilons'[p] = D!Root(en * em)
    BY <1>1, <2>3, <2>4, MixIs
  <2>6. CutoffOf(i, j)' = (cn + cm) \div 2 /\ EpsilonOf(i, j)' = D!Root(en * em)
    BY <1>1, <2>5 DEF CutoffOf, EpsilonOf, p
  <2>7. (cn + cm) \div 2 \in Nat \ {0}
    <3>1. \A x, y \in Nat \ {0} : (x + y) \div 2 \in Nat \ {0}
      OBVIOUS
    <3> QED BY <1>4, <3>1
  <2>8. D!Root(en * em) \in Nat \ {0} /\ D!Square(D!Root(en * em)) = en * em
    <3>1. PICK r \in Nat : en = r * r
      BY <1>4
    <3>2. PICK s \in Nat : em = s * s
      BY <1>4
    <3>3. en \in Nat /\ em \in Nat /\ en > 0 /\ em > 0
      BY <1>4
    <3> HIDE DEF en, em
    <3>4. D!Root(en * em) \in Nat /\ D!Root(en * em) > 0 /\ D!Square(D!Root(en * em)) = en * em
      BY <3>1, <3>2, <3>3, RootOfProduct
    <3> QED BY <3>4
  <2>9. Unnamed(i, j)
    <3>1. \A k \in D!DataLines(file) : file.lines[k].cutoff # -1
      BY <1>4
    <3> QED BY <1>2, <1>6, <3>1 DEF FromLines
  <2>10. FromPairs(1, i, j)'
    <3>1. Unnamed(i, j)' /\ LastNames(i, i, n)' /\ LastNames(j, j, m)' /\ D!DataLines(file)' = D!DataLines(file)
      BY <1>1, <2>1, <2>2, <2>9, NamesStay
    <3>2. CutoffOf(i, j)' = 1 * ((cn + cm) \div 2)
      BY <2>6, <2>7
    <3>3. D!Square(EpsilonOf(i, j))' = en * em
      BY <2>6, <2>8 DEF D!Square
    <3> QED BY <1>1, <3>1, <3>2, <3>3 DEF FromPairs
  <2>11. CutoffOf(j, i)' = CutoffOf(i, j)' /\ EpsilonOf(j, i)' = EpsilonOf(i, j)'
    <3>1. D!Pair(j, i) = D!Pair(i, j)
      BY PairsAre
    <3>2. Index(N, j, i) = Index(N, i, j)
      BY <1>1, <3>1, IndexIs
    <3> QED BY <1>1, <3>2 DEF CutoffOf, EpsilonOf
  <2>12. FromPairs(1, j, i)'
    <3>1. Unnamed(j, i)
      <4>1. D!Pair(modelSpecies[i + 1], modelSpecies[j + 1]) = D!Pair(modelSpecies[j + 1], modelSpecies[i + 1])
        BY PairsAre
      <4> QED BY <2>9, <4>1 DEF Unnamed, Names
    <3>2. Unnamed(j, i)' /\ LastNames(i, i, n)' /\ LastNames(j, j, m)' /\ D!DataLines(file)' = D!DataLines(file)
      BY <1>1, <2>1, <2>2, <3>1, NamesStay
    <3>3. CutoffOf(j, i)' = 1 * ((cm + cn) \div 2) /\ en * em = em * en
      <4>1. cm + cn = cn + cm /\ en * em = em * en
        <5>1. cm \in Nat /\ cn \in Nat /\ en \in Nat /\ em \in Nat
          BY <1>4
        <5> HIDE DEF cm, cn, en, em
        <5> QED BY <5>1
      <4> HIDE DEF cm, cn, en, em
      <4> QED BY <2>6, <2>7, <2>11, <4>1
    <3>4. D!Square(EpsilonOf(j, i))' = em * en
      BY <2>6, <2>8, <2>11, <3>3 DEF D!Square
    <3> QED BY <1>1, <3>2, <3>3, <3>4 DEF FromPairs
  <2> QED BY <2>6, <2>7, <2>8, <2>9, <2>10, <2>11, <2>12
\* Both
<1>7. ASSUME NEW i \in CodesOf(N), NEW j \in CodesOf(N)
      PROVE  /\ CutoffOf(i, j)' \in Nat \ {0} /\ EpsilonOf(i, j)' \in Nat \ {0}
             /\ FromPairs(1, i, j)'
             /\ givenCutoffs[D!Pair(i, j)] \in {-1, CutoffOf(i, j)'}
  <2>0. i \in Int /\ j \in Int
    BY <1>1 DEF CodesOf
  <2>1. CASE CutoffOf(i, j) # -1
    <3>1. PICK n \in D!DataLines(file) :
            LastNames(i, j, n) /\ CutoffOf(i, j) = file.lines[n].cutoff /\ EpsilonOf(i, j) = file.lines[n].epsilon
      BY <1>5, <2>1
    <3>2. CutoffOf(i, j)' = CutoffOf(i, j) /\ EpsilonOf(i, j)' = EpsilonOf(i, j)
      BY <1>5, <2>1
    <3>3. LastNames(i, j, n)' /\ D!DataLines(file)' = D!DataLines(file)
      BY <1>1, <3>1, NamesStay
    <3>4. file.lines[n].cutoff = 1 * file.lines[n].cutoff
      BY <1>4
    <3>5. FromPairs(1, i, j)'
      BY <1>1, <3>1, <3>2, <3>3, <3>4 DEF FromPairs
    <3> QED BY <1>2, <1>4, <3>1, <3>2, <3>5
  <2>2. CASE CutoffOf(i, j) = -1 /\ i < j
    BY <1>2, <1>6, <2>2
  <2>3. CASE CutoffOf(i, j) = -1 /\ j < i
    <3>1. CutoffOf(j, i) = -1
      BY <1>1, <2>3, CutoffsAreOfPairs
    <3>2. /\ CutoffOf(j, i)' \in Nat \ {0} /\ EpsilonOf(j, i)' \in Nat \ {0}
          /\ CutoffOf(i, j)' = CutoffOf(j, i)' /\ EpsilonOf(i, j)' = EpsilonOf(j, i)'
          /\ FromPairs(1, i, j)'
      BY <1>6, <2>3, <3>1
    <3> QED BY <1>2, <2>3, <3>2
  <2>4. CASE i = j
    <3>1. CutoffOf(i, j) # -1
      BY <1>1, <2>4 DEF DriverInv, ReadInv
    <3> QED BY <2>1, <3>1
  <2> QED BY <2>0, <2>1, <2>2, <2>3, <2>4
<1>8. cutoffs' \in [PlacesOf(N) -> Int] /\ epsilons' \in [PlacesOf(N) -> Int]
  <2>1. DOMAIN cutoffs' = PlacesOf(N) /\ DOMAIN epsilons' = PlacesOf(N)
        /\ cutoffs' = [m \in PlacesOf(N) |-> cutoffs'[m]] /\ epsilons' = [m \in PlacesOf(N) |-> epsilons'[m]]
    BY <1>1, MixIs
  <2>2. ASSUME NEW m \in PlacesOf(N) PROVE cutoffs'[m] \in Int /\ epsilons'[m] \in Int
    <3>1. PICK i, j \in CodesOf(N) : Index(N, i, j) = m
      BY <1>1, IndexIs
    <3>2. CutoffOf(i, j)' = cutoffs'[m] /\ EpsilonOf(i, j)' = epsilons'[m]
      BY <1>1, <3>1 DEF CutoffOf, EpsilonOf
    <3> QED BY <1>7, <3>2
  <2> QED BY <2>1, <2>2
<1>9. Len(modelSpecies) = N
  <2>1. N - 1 \in CodesOf(N)
    BY <1>1 DEF CodesOf
  <2>2. CutoffOf(N - 1, N - 1) # -1
    BY <1>1, <2>1 DEF DriverInv, ReadInv
  <2>3. N - 1 < Len(modelSpecies)
    BY <1>5, <2>1, <2>2 DEF LastNames, Names
  <2>4. Len(modelSpecies) <= N /\ Len(modelSpecies) \in Nat
    <3>1. modelSpecies \in Seq(SpeciesOf(file)) /\ \A i, j \in 1..Len(modelSpecies) : modelSpecies[i] = modelSpecies[j] => i = j
      BY DEF DriverInv, DriverState, Distinctly
    <3>2. Len(modelSpecies) <= file.N
      BY <1>1, <3>1, ListsFit
    <3> QED BY <3>1, <3>2
  <2> QED BY <1>1, <2>3, <2>4
<1>10. DriverState'
  BY <1>1, <1>8 DEF DriverInv, DriverState, Distinctly
<1>11. MixedInv'
  <2>1. file'.N = N /\ modelSpecies' = modelSpecies /\ givenCutoffs' = givenCutoffs
    BY <1>1
  <2>2. \A i, j \in CodesOf(N) : CutoffOf(i, j)' > 0 /\ EpsilonOf(i, j)' > 0
    BY <1>7
  <2> QED BY <1>1, <1>7, <1>9, <2>1, <2>2 DEF MixedInv
<1> QED BY <1>1, <1>10, <1>11 DEF DriverInv, ReadInv, RefreshedInv

\* The conversion multiplies every cutoff, and what the file has given.
LEMMA LengthsStep ==
  ASSUME DriverInv, D!ConvertUnits
  PROVE  DriverInv'
<1> DEFINE N == file.N
<1>1. /\ creation = "convert" /\ creation' = "refresh" /\ ~refreshed /\ file \in ParameterFiles
      /\ UNCHANGED <<file, line, modelSpecies, shift, epsilons, refreshed>>
      /\ cutoffs \in [PlacesOf(N) -> Int] /\ epsilons \in [PlacesOf(N) -> Int]
      /\ givenCutoffs \in [CodePairs(N) -> Int]
      /\ cutoffs' = [n \in DOMAIN cutoffs |-> LengthFactor * cutoffs[n]]
      /\ givenCutoffs' = [p \in DOMAIN givenCutoffs |-> IF givenCutoffs[p] = -1 THEN -1 ELSE LengthFactor * givenCutoffs[p]]
      /\ N \in Nat \ {0}
  BY FileFacts DEF DriverInv, DriverState, RefreshedInv, D!ConvertUnits
<1>2. LengthFactor \in Nat /\ LengthFactor > 0
  BY FilesAreTyped DEF DriverTypes
<1>3. \A i, j \in CodesOf(N) : Index(N, i, j) \in PlacesOf(N) /\ D!Pair(i, j) \in CodePairs(N)
  BY <1>1, IndexIs DEF CodePairs
<1>4. /\ cutoffs' \in [PlacesOf(N) -> Int] /\ givenCutoffs' \in [CodePairs(N) -> Int]
  <2>1. \A x \in Int : LengthFactor * x \in Int
    BY <1>2
  <2> QED BY <1>1, <2>1
<1>5. ASSUME NEW i \in CodesOf(N), NEW j \in CodesOf(N)
      PROVE  /\ CutoffOf(i, j)' = LengthFactor * CutoffOf(i, j) /\ EpsilonOf(i, j)' = EpsilonOf(i, j)
             /\ CutoffOf(i, j) \in Nat \ {0} /\ EpsilonOf(i, j) > 0 /\ CutoffOf(i, j)' > 0
             /\ givenCutoffs'[D!Pair(i, j)] \in {-1, CutoffOf(i, j)'}
             /\ FromPairs(1, i, j)
  <2>1. CutoffOf(i, j)' = LengthFactor * CutoffOf(i, j) /\ EpsilonOf(i, j)' = EpsilonOf(i, j)
        /\ CutoffOf(i, j) \in Int
    BY <1>1, <1>3 DEF CutoffOf, EpsilonOf
  <2>2. /\ CutoffOf(i, j) > 0 /\ EpsilonOf(i, j) > 0 /\ FromPairs(1, i, j)
        /\ givenCutoffs[D!Pair(i, j)] \in {-1, CutoffOf(i, j)}
    BY <1>1 DEF DriverInv, MixedInv
  <2>3. LengthFactor * CutoffOf(i, j) > 0
    <3>1. \A x, y \in Nat : x > 0 /\ y > 0 => x * y > 0
      OBVIOUS
    <3> QED BY <1>2, <2>1, <2>2, <3>1
  <2>4. givenCutoffs'[D!Pair(i, j)] \in {-1, LengthFactor * CutoffOf(i, j)}
    BY <1>1, <1>3, <2>2
  <2> QED BY <2>1, <2>2, <2>3, <2>4
<1>6. ASSUME NEW i \in CodesOf(N), NEW j \in CodesOf(N) PROVE FromPairs(LengthFactor, i, j)'
  <2>0. /\ D!DataLines(file)' = D!DataLines(file) /\ file' = file
        /\ \A k, l, n : LastNames(k, l, n)' <=> LastNames(k, l, n)
        /\ \A k, l : Unnamed(k, l)' <=> Unnamed(k, l)
    BY <1>1, NamesStay
  <2>1. FromPairs(1, i, j)
    BY <1>5
  <2>2. \A n \in D!DataLines(file) : file.lines[n].cutoff \in Nat
    BY <1>1, FileFacts
  <2>3. CASE \E n \in D!DataLines(file) :
               LastNames(i, j, n) /\ CutoffOf(i, j) = 1 * file.lines[n].cutoff /\ EpsilonOf(i, j) = file.lines[n].epsilon
    <3>1. PICK n \in D!DataLines(file) :
            LastNames(i, j, n) /\ CutoffOf(i, j) = 1 * file.lines[n].cutoff /\ EpsilonOf(i, j) = file.lines[n].epsilon
      BY <2>3
    <3>2. CutoffOf(i, j) = file.lines[n].cutoff
      BY <2>2, <3>1
    <3>3. CutoffOf(i, j)' = LengthFactor * file.lines[n].cutoff /\ EpsilonOf(i, j)' = file.lines[n].epsilon
      BY <1>5, <3>1, <3>2
    <3> QED BY <2>0, <3>1, <3>3 DEF FromPairs
  <2>4. CASE /\ Unnamed(i, j)
             /\ \E n, m \in D!DataLines(file) :
                  /\ LastNames(i, i, n) /\ LastNames(j, j, m)
                  /\ CutoffOf(i, j) = 1 * ((file.lines[n].cutoff + file.lines[m].cutoff) \div 2)
                  /\ D!Square(EpsilonOf(i, j)) = file.lines[n].epsilon * file.lines[m].epsilon
    <3>1. PICK n, m \in D!DataLines(file) :
                  /\ LastNames(i, i, n) /\ LastNames(j, j, m)
                  /\ CutoffOf(i, j) = 1 * ((file.lines[n].cutoff + file.lines[m].cutoff) \div 2)
                  /\ D!Square(EpsilonOf(i, j)) = file.lines[n].epsilon * file.lines[m].epsilon
      BY <2>4
    <3> DEFINE c == (file.lines[n].cutoff + file.lines[m].cutoff) \div 2
    <3>2. CutoffOf(i, j) = c
      <4>1. c \in Int
        BY <2>2
      <4>2. CutoffOf(i, j) = 1 * c
        BY <3>1
      <4> HIDE DEF c
      <4> QED BY <4>1, <4>2
    <3>3. CutoffOf(i, j)' = LengthFactor * c /\ D!Square(EpsilonOf(i, j))' = D!Square(EpsilonOf(i, j))
      BY <1>5, <3>2 DEF D!Square
    <3> QED BY <2>0, <2>4, <3>1, <3>3 DEF FromPairs
  <2> QED BY <2>1, <2>3, <2>4 DEF FromPairs
<1>7. DriverState'
  BY <1>1, <1>4 DEF DriverInv, DriverState, Distinctly
<1>8. MixedInv'
  <2>1. file'.N = N /\ modelSpecies' = modelSpecies /\ Len(modelSpecies) = N
    BY <1>1 DEF DriverInv, MixedInv
  <2>2. \A i, j \in CodesOf(N) : CutoffOf(i, j)' > 0 /\ EpsilonOf(i, j)' > 0
    BY <1>5
  <2> QED BY <1>1, <1>5, <1>6, <2>1, <2>2 DEF MixedInv
<1> QED BY <1>1, <1>7, <1>8 DEF DriverInv, ReadInv, RefreshedInv

\* A function on finitely many numbers takes a greatest value.
LEMMA GreatestValue ==
  ASSUME NEW n \in Nat \ {0}, NEW f \in [0..n - 1 -> Nat]
  PROVE  \E m \in 0..n - 1 : \A k \in 0..n - 1 : f[k] <= f[m]
<1> DEFINE Has(p) == \E m \in 0..p : \A k \in 0..p : f[k] <= f[m]
           T == {p \in 0..n - 1 : ~Has(p)}
<1>1. SUFFICES ASSUME T # {} PROVE FALSE
  <2>1. n - 1 \in 0..n - 1
    OBVIOUS
  <2>2. T = {} => Has(n - 1)
    BY <2>1
  <2> QED BY <2>2
<1>2. T \subseteq Nat
  OBVIOUS
<1>3. PICK p \in T : \A q \in T : p <= q
  <2> HIDE DEF T
  <2> QED BY <1>1, <1>2, HasLeast
<1>4. p \in 0..n - 1 /\ ~Has(p)
  BY <1>3
<1>5. p # 0
  <2>1. ASSUME p = 0 PROVE Has(p)
    <3>1. \A k \in 0..p : k = 0
      BY <2>1
    <3>2. 0 \in 0..p /\ f[0] \in Nat
      BY <2>1
    <3>3. f[0] <= f[0]
      BY <3>2
    <3>4. \A k \in 0..p : f[k] <= f[0]
      BY <3>1, <3>3
    <3> QED BY <3>2, <3>4
  <2> QED BY <1>4, <2>1
<1>6. Has(p - 1)
  <2>1. p - 1 \in 0..n - 1 /\ ~(p <= p - 1)
    BY <1>4, <1>5
  <2>2. p - 1 \notin T
    <3> HIDE DEF T
    <3> QED BY <1>3, <2>1
  <2> QED BY <2>1, <2>2
<1>7. PICK m \in 0..p - 1 : \A k \in 0..p - 1 : f[k] <= f[m]
  BY <1>6
<1>8. f[p] \in Nat /\ f[m] \in Nat /\ m \in 0..p /\ p \in 0..p /\ \A k \in 0..p : k = p \/ k \in 0..p - 1
  BY <1>4, <1>5, <1>7
<1>9. \A k \in 0..p : f[k] \in Nat
  BY <1>4
<1>10. CASE f[p] <= f[m]
  BY <1>4, <1>7, <1>8, <1>10
<1>11. CASE f[m] <= f[p]
  <2>1. \A k \in 0..p : f[k] <= f[p]
    BY <1>7, <1>8, <1>9, <1>11
  <2> QED BY <1>4, <1>8, <2>1
<1> QED BY <1>8, <1>10, <1>11

LEMMA MaxIs ==
  ASSUME NEW S, NEW x \in S, x \in Int, \A y \in S : y \in Int /\ y <= x
  PROVE  D!Max(S) = x
<1>1. \A y \in S : x >= y
  OBVIOUS
<1>2. \A z \in S : (\A y \in S : z >= y) => z = x
  OBVIOUS
<1> QED BY <1>1, <1>2 DEF D!Max

\* The influence distance is the greatest of the cutoffs.
LEMMA InfluenceIs ==
  ASSUME file \in ParameterFiles, cutoffs \in [PlacesOf(file.N) -> Int],
         \A i, j \in CodesOf(file.N) : CutoffOf(i, j) > 0,
         NEW table, \A i, j \in CodesOf(file.N) : table[i][j] = D!Square(CutoffOf(i, j))
  PROVE  /\ \A i, j \in CodesOf(file.N) : table[i][j] <= D!Square(D!Influence(table))
         /\ \E i, j \in CodesOf(file.N) : table[i][j] = D!Square(D!Influence(table))
<1> DEFINE N == file.N
<1>1. N \in Nat \ {0} /\ D!Codes = CodesOf(N)
  BY FileFacts
<1>2. Pairs(N) \in Nat \ {0}
  <2>1. 0 \in CodesOf(N)
    BY <1>1 DEF CodesOf
  <2>2. Index(N, 0, 0) \in 0..Pairs(N) - 1
    BY <1>1, <2>1, IndexIs DEF PlacesOf
  <2>3. Pairs(N) \in Int
    <3>1. \A x \in Nat : ((x + 1) * x) \div 2 \in Int
      OBVIOUS
    <3> QED BY <1>1, <3>1 DEF Pairs
  <2> QED BY <2>2, <2>3
<1>3. cutoffs \in [PlacesOf(N) -> Nat]
  <2>1. ASSUME NEW m \in PlacesOf(N) PROVE cutoffs[m] \in Nat
    <3>1. PICK i, j \in CodesOf(N) : Index(N, i, j) = m
      BY <1>1, IndexIs
    <3>2. cutoffs[m] > 0 /\ cutoffs[m] \in Int
      BY <3>1 DEF CutoffOf
    <3> QED BY <3>2
  <2> QED BY <2>1
<1>4. PICK m \in PlacesOf(N) : \A k \in PlacesOf(N) : cutoffs[k] <= cutoffs[m]
  <2>1. cutoffs \in [0..Pairs(N) - 1 -> Nat]
    BY <1>3 DEF PlacesOf
  <2>2. \E m \in 0..Pairs(N) - 1 : \A k \in 0..Pairs(N) - 1 : cutoffs[k] <= cutoffs[m]
    BY <1>2, <2>1, GreatestValue
  <2> QED BY <2>2 DEF PlacesOf
<1>5. PICK a, b \in CodesOf(N) : Index(N, a, b) = m
  BY <1>1, IndexIs
<1> DEFINE c == CutoffOf(a, b)
<1>6. c \in Nat /\ \A i, j \in CodesOf(N) : CutoffOf(i, j) \in Nat /\ CutoffOf(i, j) <= c
  BY <1>1, <1>3, <1>4, <1>5, IndexIs DEF CutoffOf
<1> HIDE DEF c
<1>7. \A x, y \in Nat : D!Square(x) \in Nat /\ (x <= y => D!Square(x) <= D!Square(y))
  BY DEF D!Square
<1> DEFINE S == {table[i][j] : i, j \in CodesOf(N)}
<1>8. table[a][b] = D!Square(c) /\ table[a][b] \in S
  BY <1>5 DEF c
<1>9. D!Square(c) \in Int /\ \A y \in S : y \in Int /\ y <= D!Square(c)
  BY <1>6, <1>7
<1>10. D!Influence(table) = D!Root(D!Max(S))
  BY <1>1 DEF D!Influence
<1>11. D!Max(S) = D!Square(c)
  <2> HIDE DEF S
  <2> QED BY <1>8, <1>9, MaxIs
<1>12. D!Influence(table) = c
  BY <1>6, <1>10, <1>11, RootOfSquare DEF D!Square
<1>13. \A i, j \in CodesOf(N) : table[i][j] <= D!Square(c)
  BY <1>9
<1> QED BY <1>8, <1>12, <1>13

LEMMA RefreshStep ==
  ASSUME DriverInv, D!FirstRefresh \/ D!Refresh
  PROVE  DriverInv'
<1> DEFINE N == file.N
<1>1. /\ creation \in {"refresh", "created"} /\ creation' = "created" /\ file \in ParameterFiles
      /\ UNCHANGED <<file, line, modelSpecies, cutoffs, epsilons, shift, givenCutoffs>>
      /\ cutoffs \in [PlacesOf(N) -> Int]
      /\ D!SetRefreshMutableValues
      /\ N \in Nat \ {0} /\ D!Codes = CodesOf(N) /\ \A i, j : D!PairIndex(i, j) = Index(N, i, j)
  BY FileFacts DEF DriverInv, DriverState, D!FirstRefresh, D!Refresh, D!arrays
<1>2. \A i, j : CutoffOf(i, j)' = CutoffOf(i, j) /\ EpsilonOf(i, j)' = EpsilonOf(i, j)
  BY <1>1 DEF CutoffOf, EpsilonOf
<1>3. /\ cutoffsSq2D' = [i \in CodesOf(N) |-> [j \in CodesOf(N) |-> D!Square(CutoffOf(i, j))]]
      /\ influence' = D!Influence(cutoffsSq2D')
      /\ shift = 1 =>
           shifts2D' = [i \in CodesOf(N) |-> [j \in CodesOf(N) |-> <<EpsilonOf(i, j), CutoffOf(i, j)>>]]
  BY <1>1 DEF D!SetRefreshMutableValues, D!Shifts, CutoffOf, EpsilonOf
<1>4. \A i, j \in CodesOf(N) : CutoffOf(i, j) > 0
  BY <1>1 DEF DriverInv, MixedInv
<1>5. \A i, j \in CodesOf(N) : cutoffsSq2D'[i][j] = D!Square(CutoffOf(i, j))
  BY <1>3
<1>6. \A i, j \in CodesOf(N) : shift = 1 => shifts2D'[i][j] = <<EpsilonOf(i, j), CutoffOf(i, j)>>
  BY <1>3
<1>7. /\ \A i, j \in CodesOf(N) : cutoffsSq2D'[i][j] <= D!Square(influence')
      /\ \E i, j \in CodesOf(N) : cutoffsSq2D'[i][j] = D!Square(influence')
  <2> DEFINE table == cutoffsSq2D'
  <2>1. \A i, j \in CodesOf(N) : table[i][j] = D!Square(CutoffOf(i, j))
    BY <1>5
  <2>2. influence' = D!Influence(table)
    BY <1>3
  <2> HIDE DEF table
  <2>3. /\ \A i, j \in CodesOf(N) : table[i][j] <= D!Square(D!Influence(table))
        /\ \E i, j \in CodesOf(N) : table[i][j] = D!Square(D!Influence(table))
    BY <1>1, <1>4, <2>1, InfluenceIs
  <2> QED BY <2>2, <2>3 DEF table
<1>8. D!Codes' = CodesOf(N) /\ \A x : D!Square(x)' = D!Square(x)
  BY <1>1 DEF D!Codes, CodesOf, D!N, D!Square
<1>9. D!InfluenceCoversCutoffs'
  BY <1>7, <1>8 DEF D!InfluenceCoversCutoffs, D!Square
<1>10. RefreshedInv'
  <2>1. \A i, j \in CodesOf(N) : (D!Square(CutoffOf(i, j)))' = D!Square(CutoffOf(i, j))
    BY <1>2 DEF D!Square
  <2> QED BY <1>1, <1>2, <1>5, <1>6, <1>9, <2>1 DEF RefreshedInv
<1>11. DriverState'
  BY <1>1 DEF DriverInv, DriverState, Distinctly
<1>12. MixedInv'
  BY <1>1, <1>2 DEF DriverInv, MixedInv
<1> QED BY <1>1, <1>10, <1>11, <1>12 DEF DriverInv, ReadInv

\* The simulator finds the place of a pair as the driver does.
LEMMA SetCutoffStep ==
  ASSUME DriverInv, NEW k \in D!Codes, NEW l \in D!Codes, NEW value \in NewCutoffs, D!SetCutoff(k, l, value)
  PROVE  DriverInv'
<1> DEFINE N == file.N
<1>1. /\ creation = "created" /\ creation' = "created" /\ file \in ParameterFiles /\ refreshed' = FALSE
      /\ UNCHANGED <<file, line, modelSpecies, epsilons, shift>>
      /\ cutoffs \in [PlacesOf(N) -> Int] /\ givenCutoffs \in [CodePairs(N) -> Int]
      /\ N \in Nat \ {0} /\ D!Codes = CodesOf(N) /\ value \in Nat /\ value > 0
      /\ k \in CodesOf(N) /\ l \in CodesOf(N) /\ k >= l
  BY FileFacts, FilesAreTyped DEF DriverInv, DriverState, D!SetCutoff, DriverTypes
<1>2. cutoffs' = [cutoffs EXCEPT ![Index(N, k, l)] = value] /\ givenCutoffs' = [givenCutoffs EXCEPT ![D!Pair(k, l)] = value]
  BY <1>1 DEF D!SetCutoff, Index, Place, Triangle, D!N
<1>3. \A i, j \in CodesOf(N) :
        /\ Index(N, i, j) \in PlacesOf(N) /\ D!Pair(i, j) \in CodePairs(N)
        /\ Index(N, i, j) = Index(N, k, l) <=> D!Pair(i, j) = D!Pair(k, l)
  <2>1. \A i, j \in CodesOf(N) : Index(N, i, j) \in PlacesOf(N)
    BY <1>1, IndexIs
  <2>2. \A i, j \in CodesOf(N) : Index(N, i, j) = Index(N, k, l) <=> D!Pair(i, j) = D!Pair(k, l)
    <3>1. \A i, j, a, b \in CodesOf(N) : Index(N, i, j) = Index(N, a, b) <=> D!Pair(i, j) = D!Pair(a, b)
      BY <1>1, IndexIs
    <3>2. k \in CodesOf(N) /\ l \in CodesOf(N)
      BY <1>1
    <3> QED BY <3>1, <3>2
  <2> QED BY <2>1, <2>2 DEF CodePairs
<1>4. DriverState'
  <2>1. cutoffs' \in [PlacesOf(N) -> Int] /\ givenCutoffs' \in [CodePairs(N) -> Int]
    <3>1. value \in Int
      BY <1>1
    <3>2. [cutoffs EXCEPT ![Index(N, k, l)] = value] \in [PlacesOf(N) -> Int]
      BY <1>1, <3>1
    <3>3. [givenCutoffs EXCEPT ![D!Pair(k, l)] = value] \in [CodePairs(N) -> Int]
      BY <1>1, <3>1
    <3> QED BY <1>2, <3>2, <3>3
  <2> QED BY <1>1, <2>1 DEF DriverInv, DriverState, Distinctly
<1>5. ASSUME NEW i \in CodesOf(N), NEW j \in CodesOf(N)
      PROVE  CutoffOf(i, j)' > 0 /\ EpsilonOf(i, j)' > 0 /\ givenCutoffs'[D!Pair(i, j)] \in {-1, CutoffOf(i, j)'}
  <2>1. /\ CutoffOf(i, j)' = cutoffs'[Index(N, i, j)] /\ CutoffOf(i, j) = cutoffs[Index(N, i, j)]
        /\ EpsilonOf(i, j)' = EpsilonOf(i, j)
    BY <1>1 DEF CutoffOf, EpsilonOf
  <2>2. CutoffOf(i, j) > 0 /\ EpsilonOf(i, j) > 0 /\ givenCutoffs[D!Pair(i, j)] \in {-1, CutoffOf(i, j)}
    BY <1>1 DEF DriverInv, MixedInv
  <2>3. CASE D!Pair(i, j) = D!Pair(k, l)
    <3>1. cutoffs'[Index(N, i, j)] = value /\ givenCutoffs'[D!Pair(i, j)] = value
      BY <1>1, <1>2, <1>3, <2>3
    <3> QED BY <1>1, <2>1, <2>2, <3>1
  <2>4. CASE D!Pair(i, j) # D!Pair(k, l)
    <3>1. cutoffs'[Index(N, i, j)] = cutoffs[Index(N, i, j)] /\ givenCutoffs'[D!Pair(i, j)] = givenCutoffs[D!Pair(i, j)]
      BY <1>1, <1>2, <1>3, <2>4
    <3> QED BY <2>1, <2>2, <3>1
  <2> QED BY <2>3, <2>4
<1>6. MixedInv'
  <2>1. file'.N = N
    BY <1>1
  <2> QED BY <1>1, <1>5, <2>1 DEF MixedInv
<1> QED BY <1>1, <1>4, <1>6 DEF DriverInv, ReadInv, RefreshedInv

LEMMA SetShiftStep ==
  ASSUME DriverInv, NEW value \in {0, 1}, D!SetShift(value)
  PROVE  DriverInv'
<1>1. /\ creation = "created" /\ creation' = "created" /\ shift' \in {0, 1} /\ refreshed' = FALSE
      /\ UNCHANGED <<file, line, modelSpecies, cutoffs, epsilons, givenCutoffs>>
  BY DEF D!SetShift
<1>2. \A i, j : CutoffOf(i, j)' = CutoffOf(i, j) /\ EpsilonOf(i, j)' = EpsilonOf(i, j)
  BY <1>1 DEF CutoffOf, EpsilonOf
<1>3. DriverState'
  BY <1>1 DEF DriverInv, DriverState, Distinctly
<1>4. MixedInv'
  BY <1>1, <1>2 DEF DriverInv, MixedInv
<1> QED BY <1>1, <1>3, <1>4 DEF DriverInv, ReadInv, RefreshedInv

LinesOf(a, b) == {n \in D!DataLines(file) : D!Pair(file.lines[n].a, file.lines[n].b) = D!Pair(a, b)}
LastOf(a, b) == IF LinesOf(a, b) = {} THEN 0 ELSE D!Max(LinesOf(a, b))

LEMMA LastOfIs ==
  ASSUME DriverInv, creation = "refresh", NEW i \in CodesOf(file.N), NEW j \in CodesOf(file.N)
  PROVE  LET a == modelSpecies[i + 1]
             b == modelSpecies[j + 1]
         IN  /\ \A n \in D!DataLines(file) : LastNames(i, j, n) => LastOf(a, b) = n /\ n # 0
             /\ Unnamed(i, j) => LastOf(a, b) = 0
<1> DEFINE N == file.N  a == modelSpecies[i + 1]  b == modelSpecies[j + 1]
<1>1. /\ file \in ParameterFiles /\ line = Len(file.lines) + 1 /\ Len(modelSpecies) = N /\ N \in Nat
      /\ Len(file.lines) \in Nat
  BY FileFacts DEF DriverInv, DriverState, MixedInv, IsSeq
<1>2. \A n \in D!DataLines(file) : n \in 1..Len(file.lines) /\ n < line
  BY <1>1, FileFacts
<1>3. i < Len(modelSpecies) /\ j < Len(modelSpecies)
  BY <1>1 DEF CodesOf
<1>4. \A n : n \in LinesOf(a, b) <=> n \in D!DataLines(file) /\ Names(i, j, n)
  BY <1>2, <1>3 DEF LinesOf, Names
<1>5. ASSUME NEW n \in D!DataLines(file), LastNames(i, j, n) PROVE LastOf(a, b) = n /\ n # 0
  <2>1. n \in LinesOf(a, b) /\ \A m \in LinesOf(a, b) : m <= n
    BY <1>4, <1>5 DEF LastNames
  <2>2. n \in Int /\ n # 0 /\ \A m \in LinesOf(a, b) : m \in Int
    BY <1>2, <1>4
  <2> HIDE DEF a, b
  <2>3. D!Max(LinesOf(a, b)) = n
    BY <2>1, <2>2, MaxIs
  <2> QED BY <2>1, <2>2, <2>3 DEF LastOf
<1>6. Unnamed(i, j) => LastOf(a, b) = 0
  BY <1>4 DEF Unnamed, LastOf
<1> QED BY <1>5, <1>6

LEMMA TablesHold ==
  ASSUME DriverInv
  PROVE  D!TablesAreTheFiles
<1> DEFINE N == file.N
<1>1. SUFFICES ASSUME creation = "refresh" PROVE D!TablesAreTheFiles
  BY DEF D!TablesAreTheFiles
<1>2. file \in ParameterFiles /\ D!Codes = CodesOf(N) /\ \A i, j : D!PairIndex(i, j) = Index(N, i, j)
  BY FileFacts DEF DriverInv, DriverState
<1>3. ASSUME NEW i \in CodesOf(N), NEW j \in CodesOf(N)
      PROVE  LET a == modelSpecies[i + 1]
                 b == modelSpecies[j + 1]
                 n == LastOf(a, b)
                 own(s) == file.lines[LastOf(s, s)]
             IN  IF n # 0
                 THEN /\ CutoffOf(i, j) = LengthFactor * file.lines[n].cutoff
                      /\ EpsilonOf(i, j) = file.lines[n].epsilon
                 ELSE /\ CutoffOf(i, j) = LengthFactor * ((own(a).cutoff + own(b).cutoff) \div 2)
                      /\ D!Square(EpsilonOf(i, j)) = own(a).epsilon * own(b).epsilon
  <2> DEFINE a == modelSpecies[i + 1]  b == modelSpecies[j + 1]
  <2>1. FromPairs(LengthFactor, i, j)
    BY <1>1 DEF DriverInv, MixedInv
  <2>2. /\ \A n \in D!DataLines(file) : LastNames(i, j, n) => LastOf(a, b) = n /\ n # 0
        /\ Unnamed(i, j) => LastOf(a, b) = 0
    BY <1>1, LastOfIs
  <2>3. /\ \A n \in D!DataLines(file) : LastNames(i, i, n) => LastOf(a, a) = n
        /\ \A n \in D!DataLines(file) : LastNames(j, j, n) => LastOf(b, b) = n
    <3>1. \A n \in D!DataLines(file) : LastNames(i, i, n) => LastOf(a, a) = n
      BY <1>1, LastOfIs
    <3>2. \A n \in D!DataLines(file) : LastNames(j, j, n) => LastOf(b, b) = n
      BY <1>1, LastOfIs
    <3> QED BY <3>1, <3>2
  <2> HIDE DEF a, b
  <2>4. CASE \E n \in D!DataLines(file) :
               LastNames(i, j, n) /\ CutoffOf(i, j) = LengthFactor * file.lines[n].cutoff /\ EpsilonOf(i, j) = file.lines[n].epsilon
    BY <2>2, <2>4 DEF a, b
  <2>5. CASE /\ Unnamed(i, j)
             /\ \E n, m \in D!DataLines(file) :
                  /\ LastNames(i, i, n) /\ LastNames(j, j, m)
                  /\ CutoffOf(i, j) = LengthFactor * ((file.lines[n].cutoff + file.lines[m].cutoff) \div 2)
                  /\ D!Square(EpsilonOf(i, j)) = file.lines[n].epsilon * file.lines[m].epsilon
    BY <2>2, <2>3, <2>5 DEF a, b
  <2> QED BY <2>1, <2>4, <2>5 DEF FromPairs
<1> QED BY <1>2, <1>3 DEF D!TablesAreTheFiles, CutoffOf, EpsilonOf, LastOf, LinesOf, D!Pair

LEMMA DriverHolds ==
  ASSUME DriverInv
  PROVE  D!ParametersAreRefreshed
<1> DEFINE N == file.N
<1>1. /\ file \in ParameterFiles /\ D!Codes = CodesOf(N) /\ \A i, j : D!PairIndex(i, j) = Index(N, i, j)
      /\ D!NumberUniqueSpeciesPairs = Pairs(N) /\ D!N = N /\ N \in Nat \ {0}
  BY FileFacts DEF DriverInv, DriverState, D!N
<1>2. creation = "created" => \A i, j \in CodesOf(N) :
        /\ CutoffOf(i, j) > 0 /\ EpsilonOf(i, j) > 0
        /\ givenCutoffs[D!Pair(i, j)] \in {-1, CutoffOf(i, j)}
  BY DEF DriverInv, MixedInv
<1>3. D!TypeOK
  <2>1. Len(modelSpecies) <= N
    <3>1. modelSpecies \in Seq(SpeciesOf(file)) /\ \A i, j \in 1..Len(modelSpecies) : modelSpecies[i] = modelSpecies[j] => i = j
      BY DEF DriverInv, DriverState, Distinctly
    <3> QED BY <1>1, <3>1, ListsFit
  <2>2. DOMAIN cutoffs = PlacesOf(N) /\ DOMAIN epsilons = PlacesOf(N)
        /\ creation \in {"read", "error", "mix", "convert", "refresh", "created"}
    BY DEF DriverInv, DriverState
  <2>3. ASSUME creation = "created", NEW m \in PlacesOf(N) PROVE cutoffs[m] > 0 /\ epsilons[m] > 0
    <3>1. PICK i, j \in CodesOf(N) : Index(N, i, j) = m
      BY <1>1, IndexIs
    <3> QED BY <1>2, <2>3, <3>1 DEF CutoffOf, EpsilonOf
  <2> QED BY <1>1, <2>1, <2>2, <2>3 DEF D!TypeOK, PlacesOf
<1>4. SUFFICES ASSUME refreshed
               PROVE  D!CutoffsFollowTheSimulator /\ D!InfluenceCoversCutoffs /\ D!ShiftsAreAtTheCutoffs
  BY <1>3, TablesHold DEF D!ParametersAreRefreshed, D!CutoffsFollowTheSimulator, D!InfluenceCoversCutoffs,
     D!ShiftsAreAtTheCutoffs
<1>5. /\ creation = "created"
      /\ \A i, j \in CodesOf(N) : cutoffsSq2D[i][j] = D!Square(CutoffOf(i, j))
      /\ shift = 1 => \A i, j \in CodesOf(N) : shifts2D[i][j] = <<EpsilonOf(i, j), CutoffOf(i, j)>>
      /\ D!InfluenceCoversCutoffs
  BY <1>4 DEF DriverInv, RefreshedInv
<1>6. D!CutoffsFollowTheSimulator
  <2>1. ASSUME NEW i \in CodesOf(N), NEW j \in CodesOf(N), givenCutoffs[D!Pair(i, j)] # -1
        PROVE  /\ cutoffsSq2D[i][j] = D!Square(givenCutoffs[D!Pair(i, j)])
               /\ cutoffsSq2D[j][i] = D!Square(givenCutoffs[D!Pair(i, j)])
    <3>1. CutoffOf(i, j) = CutoffOf(j, i)
      BY <1>1, CutoffsAreOfPairs
    <3> QED BY <1>2, <1>5, <2>1, <3>1
  <2> QED BY <1>1, <2>1 DEF D!CutoffsFollowTheSimulator
<1>7. D!ShiftsAreAtTheCutoffs
  <2>1. ASSUME shift = 1, NEW i \in CodesOf(N), NEW j \in CodesOf(N)
        PROVE  shifts2D[i][j] = <<EpsilonOf(i, j), D!Root(cutoffsSq2D[i][j])>>
    <3>1. CutoffOf(i, j) \in Nat
      <4>1. Index(N, i, j) \in PlacesOf(N)
        BY <1>1, IndexIs
      <4>2. CutoffOf(i, j) \in Int
        BY <4>1 DEF CutoffOf, DriverInv, DriverState
      <4> QED BY <1>2, <1>5, <4>2
    <3>2. D!Root(cutoffsSq2D[i][j]) = CutoffOf(i, j)
      BY <1>5, <3>1, RootOfSquare DEF D!Square
    <3> QED BY <1>5, <2>1, <3>2
  <2> QED BY <1>1, <2>1 DEF D!ShiftsAreAtTheCutoffs, EpsilonOf
<1> QED BY <1>5, <1>6, <1>7

LEMMA SameDriver ==
  ASSUME DriverInv,
         UNCHANGED <<creation, file, line, modelSpecies, cutoffs, epsilons, shift, cutoffsSq2D, shifts2D,
                     influence, givenCutoffs, refreshed>>
  PROVE  DriverInv'
<1>1. /\ \A i, j, n : LastNames(i, j, n)' <=> LastNames(i, j, n)
      /\ \A i, j : Unnamed(i, j)' <=> Unnamed(i, j)
      /\ D!DataLines(file)' = D!DataLines(file)
  BY NamesStay
<1>2. \A i, j : CutoffOf(i, j)' = CutoffOf(i, j) /\ EpsilonOf(i, j)' = EpsilonOf(i, j)
  BY DEF CutoffOf, EpsilonOf
<1>3. DriverState'
  BY DEF DriverInv, DriverState, Distinctly
<1>4. ReadInv'
  <2>1. \A i, j : FromLines(i, j)' <=> FromLines(i, j)
    BY <1>1, <1>2 DEF FromLines
  <2> QED BY <1>1, <1>2, <2>1 DEF DriverInv, ReadInv
<1>5. MixedInv'
  <2>1. \A length, i, j : FromPairs(length, i, j)' <=> FromPairs(length, i, j)
    BY <1>1, <1>2 DEF FromPairs, D!Square
  <2> QED BY <1>2, <2>1 DEF DriverInv, MixedInv
<1>6. RefreshedInv'
  BY <1>2 DEF DriverInv, RefreshedInv, D!InfluenceCoversCutoffs, D!Square, D!Codes, D!N
<1> QED BY <1>3, <1>4, <1>5, <1>6 DEF DriverInv

LEMMA DriverNext ==
  ASSUME subject = "Driver", [Next]_vars
  PROVE  subject' = "Driver" /\ (D!Next \/ UNCHANGED driver)
BY DEF Next, vars, driver

\* For all numbers of species, parameter files and values a simulator sets: the tables
\* the driver computes with are those of the file, and after a refresh those of what the
\* simulator has set since (ProcessParameterFiles to SetRefreshMutableValues).
THEOREM Refreshes == Spec => []ParametersAreRefreshed
<1> DEFINE Invariant == subject = "Driver" => DriverInv
<1>1. Init => Invariant
  BY InitDriver DEF Init
<1>2. Invariant /\ [Next]_vars => Invariant'
  <2>1. SUFFICES ASSUME Invariant, [Next]_vars, subject' = "Driver" PROVE DriverInv'
    OBVIOUS
  <2>2. subject = "Driver"
    BY <2>1 DEF Next, vars
  <2>3. DriverInv /\ (D!Next \/ UNCHANGED driver)
    BY <2>1, <2>2, DriverNext
  <2>4. CASE UNCHANGED driver
    <3>1. UNCHANGED <<creation, file, line, modelSpecies, cutoffs, epsilons, shift, cutoffsSq2D, shifts2D,
                      influence, givenCutoffs, sets, refreshed>>
      BY <2>4 DEF driver
    <3> QED BY <2>3, <3>1, SameDriver
  <2>5. CASE D!ReadLine
    BY <2>3, <2>5, ReadData, ReadOther
  <2>6. CASE \E i, j \in D!Codes, value \in NewCutoffs : D!SetCutoff(i, j, value)
    BY <2>3, <2>6, SetCutoffStep
  <2> QED BY <2>3, <2>4, <2>5, <2>6, CheckStep, MixStep, LengthsStep, RefreshStep, SetShiftStep DEF D!Next
<1>3. Invariant => ParametersAreRefreshed
  BY DriverHolds DEF ParametersAreRefreshed
<1> QED BY <1>1, <1>2, <1>3, PTL DEF Spec

-----------------------------------------------------------------------------
(* The enumerations. *)

\* A table of an enumeration: constants with numbers and names of their own
Sound(e) ==
  /\ Len(e) \in Nat \ {0} /\ DOMAIN e = 1..Len(e)
  /\ \A i \in 1..Len(e) : e[i].id \in Nat /\ e[i].name # "another"
  /\ \A i, j \in 1..Len(e) : e[i].id = e[j].id => i = j
  /\ \A i, j \in 1..Len(e) : e[i].name = e[j].name => i = j

LEMMA SequenceIs ==
  ASSUME NEW S, NEW n \in Nat, NEW f \in [1..n -> S]
  PROVE  f \in Seq(S) /\ Len(f) = n
OBVIOUS

LEMMA ConcatenationIs ==
  ASSUME NEW S, NEW s \in Seq(S), NEW t \in Seq(S)
  PROVE  /\ Len(s \o t) = Len(s) + Len(t) /\ DOMAIN (s \o t) = 1..Len(s) + Len(t)
         /\ \A i \in 1..Len(s) : (s \o t)[i] = s[i]
         /\ \A i \in 1..Len(t) : (s \o t)[Len(s) + i] = t[i]
OBVIOUS

\* Two lists of names whose numbers are apart
LEMMA TwoListsAreSound ==
  ASSUME NEW names, NEW others, NEW m \in Nat \ {0}, NEW n \in Nat, NEW k \in Nat, m <= k,
         DOMAIN names = 1..m, DOMAIN others = 1..n,
         \A i, j \in 1..m : names[i] = names[j] => i = j,
         \A i, j \in 1..n : others[i] = others[j] => i = j,
         \A i \in 1..m : \A j \in 1..n : names[i] # others[j],
         \A i \in 1..m : names[i] # "another",
         \A i \in 1..n : others[i] # "another"
  PROVE  Sound(E!Numbered(names, 0) \o E!Numbered(others, k))
<1> DEFINE a == E!Numbered(names, 0)
           b == E!Numbered(others, k)
           S == {a[i] : i \in 1..m} \cup {b[i] : i \in 1..n}
<1>1. /\ a = [i \in 1..m |-> a[i]] /\ b = [i \in 1..n |-> b[i]]
      /\ \A i \in 1..m : a[i] = [name |-> names[i], id |-> 0 + i - 1]
      /\ \A i \in 1..n : b[i] = [name |-> others[i], id |-> k + i - 1]
  BY DEF E!Numbered
<1> HIDE DEF a, b
<1>2. a \in [1..m -> S] /\ b \in [1..n -> S]
  BY <1>1
<1> HIDE DEF S
<1>3. Len(a) = m /\ Len(b) = n /\ a \in Seq(S) /\ b \in Seq(S)
  BY <1>2, SequenceIs
<1> DEFINE e == a \o b
<1>4. /\ Len(e) = m + n /\ DOMAIN e = 1..m + n
      /\ \A i \in 1..m : e[i] = a[i]
      /\ \A i \in 1..n : e[m + i] = b[i]
  BY <1>3, ConcatenationIs
<1> HIDE DEF e
<1>5. \A i \in 1..m : e[i].name = names[i] /\ e[i].id = i - 1
  BY <1>1, <1>4
<1>6. \A i \in 1..n : e[m + i].name = others[i] /\ e[m + i].id = k + i - 1
  BY <1>1, <1>4
<1>7. ASSUME NEW i \in 1..m + n, i \notin 1..m PROVE \E l \in 1..n : i = m + l
  <2>1. i - m \in 1..n /\ i = m + (i - m)
    BY <1>7
  <2> QED BY <2>1
<1>8. ASSUME NEW i \in 1..m + n PROVE e[i].id \in Nat /\ e[i].name # "another"
  <2>1. CASE i \in 1..m
    BY <1>5, <2>1
  <2>2. CASE i \notin 1..m
    <3>1. PICK l \in 1..n : i = m + l
      BY <1>7, <2>2
    <3>2. e[i].name = others[l] /\ e[i].id = k + l - 1
      BY <1>6, <3>1
    <3>3. k + l - 1 \in Nat
      OBVIOUS
    <3> QED BY <3>2, <3>3
  <2> QED BY <2>1, <2>2
<1>9. ASSUME NEW i \in 1..m + n, NEW j \in 1..m + n, i \in 1..m, j \notin 1..m
      PROVE  e[i].id # e[j].id /\ e[i].name # e[j].name
  <2>1. PICK l \in 1..n : j = m + l
    BY <1>7, <1>9
  <2>2. e[j].name = others[l] /\ e[j].id = k + l - 1
    BY <1>6, <2>1
  <2>3. e[i].name = names[i] /\ e[i].id = i - 1
    BY <1>5, <1>9
  <2>4. i - 1 # k + l - 1
    BY <1>9
  <2> QED BY <1>9, <2>2, <2>3, <2>4
<1>10. ASSUME NEW i \in 1..m + n, NEW j \in 1..m + n, e[i].id = e[j].id \/ e[i].name = e[j].name PROVE i = j
  <2>1. CASE i \in 1..m /\ j \in 1..m
    BY <1>5, <1>10, <2>1
  <2>2. CASE i \notin 1..m /\ j \notin 1..m
    <3>1. PICK l \in 1..n : i = m + l
      BY <1>7, <2>2
    <3>2. PICK h \in 1..n : j = m + h
      BY <1>7, <2>2
    <3>3. e[i].name = others[l] /\ e[i].id = k + l - 1 /\ e[j].name = others[h] /\ e[j].id = k + h - 1
      BY <1>6, <3>1, <3>2
    <3>4. l = h
      BY <1>10, <3>3
    <3> QED BY <3>1, <3>2, <3>4
  <2> QED BY <1>9, <1>10, <2>1, <2>2
<1>11. Sound(e)
  BY <1>4, <1>8, <1>10 DEF Sound
<1> QED BY <1>11 DEF a, b, e

LEMMA ElementsAreApart == \A i, j \in 1..119 : E!Elements[i] = E!Elements[j] => i = j
BY SMTT(120) DEF E!Elements

LEMMA UserSpeciesAreApart == \A i, j \in 1..20 : E!UserSpecies[i] = E!UserSpecies[j] => i = j
BY DEF E!UserSpecies

LEMMA SpeciesAreApart == \A i \in 1..119 : \A j \in 1..20 : E!Elements[i] # E!UserSpecies[j]
BY DEF E!Elements, E!UserSpecies

LEMMA SpeciesAreNamed ==
  /\ DOMAIN E!Elements = 1..119 /\ DOMAIN E!UserSpecies = 1..20
  /\ \A i \in 1..119 : E!Elements[i] # "another"
  /\ \A i \in 1..20 : E!UserSpecies[i] # "another"
BY DEF E!Elements, E!UserSpecies

LEMMA SpeciesAreSound == Sound(E!SpeciesName)
<1>1. PICK m \in Nat \ {0}, n \in Nat, k \in Nat : m = 119 /\ n = 20 /\ k = 201
  OBVIOUS
<1>2. /\ DOMAIN E!Elements = 1..m /\ DOMAIN E!UserSpecies = 1..n /\ m <= k
      /\ \A i, j \in 1..m : E!Elements[i] = E!Elements[j] => i = j
      /\ \A i, j \in 1..n : E!UserSpecies[i] = E!UserSpecies[j] => i = j
      /\ \A i \in 1..m : \A j \in 1..n : E!Elements[i] # E!UserSpecies[j]
      /\ \A i \in 1..m : E!Elements[i] # "another"
      /\ \A i \in 1..n : E!UserSpecies[i] # "another"
  <2>1. DOMAIN E!Elements = 1..m /\ DOMAIN E!UserSpecies = 1..n /\ m <= k
    BY <1>1, SpeciesAreNamed
  <2>2. /\ \A i, j \in 1..m : E!Elements[i] = E!Elements[j] => i = j
        /\ \A i, j \in 1..n : E!UserSpecies[i] = E!UserSpecies[j] => i = j
    BY <1>1, ElementsAreApart, UserSpeciesAreApart
  <2>3. \A i \in 1..m : \A j \in 1..n : E!Elements[i] # E!UserSpecies[j]
    BY <1>1, SpeciesAreApart
  <2>4. (\A i \in 1..m : E!Elements[i] # "another") /\ \A i \in 1..n : E!UserSpecies[i] # "another"
    BY <1>1, SpeciesAreNamed
  <2> QED BY <2>1, <2>2, <2>3, <2>4
<1>3. Sound(E!Numbered(E!Elements, 0) \o E!Numbered(E!UserSpecies, k))
  BY <1>2, TwoListsAreSound
<1> QED BY <1>1, <1>3 DEF E!SpeciesName

LEMMA TablesAreSound == \A u \in DOMAIN E!Enumeration : Sound(E!Enumeration[u])
<1>1. Sound(E!ChargeUnit) /\ Sound(E!Collection) /\ Sound(E!CollectionItemType)
  BY DEF Sound, E!ChargeUnit, E!Collection, E!CollectionItemType, E!Numbered
<1>2. Sound(E!ComputeArgumentName) /\ Sound(E!ComputeCallbackName) /\ Sound(E!DataType)
  BY DEF Sound, E!ComputeArgumentName, E!ComputeCallbackName, E!DataType, E!Numbered
<1>3. Sound(E!EnergyUnit) /\ Sound(E!LanguageName) /\ Sound(E!LengthUnit)
  BY DEF Sound, E!EnergyUnit, E!LanguageName, E!LengthUnit, E!Numbered
<1>4. Sound(E!LogVerbosity) /\ Sound(E!ModelRoutineName) /\ Sound(E!Numbering)
  BY DEF Sound, E!LogVerbosity, E!ModelRoutineName, E!Numbering, E!Numbered
<1>5. Sound(E!SupportStatus) /\ Sound(E!TemperatureUnit) /\ Sound(E!TimeUnit)
  BY DEF Sound, E!SupportStatus, E!TemperatureUnit, E!TimeUnit, E!Numbered
<1> QED BY <1>1, <1>2, <1>3, <1>4, <1>5, SpeciesAreSound DEF E!Enumeration

\* The units of C are initialised after those of C++ whose constants they read.
CppIsBeforeC == <<"LogVerbosity", "LogVerbosity_c">> \in LinkedBefore

VerbositiesOf == {E!LogVerbosity[i].name : i \in DOMAIN E!LogVerbosity}

EnumerationsInv ==
  /\ pending \subseteq E!Units /\ early \subseteq E!ReadByOthers
  /\ DOMAIN strings \subseteq DOMAIN E!Enumeration
  /\ \A u \in DOMAIN E!Enumeration : u \in pending => u \in DOMAIN strings
  /\ \A u \in DOMAIN strings : u \notin pending => strings[u] = E!StringMap(u)
  /\ dataTypes \in {E!NoMap, E!DataTypeMapOf(0, 1)}
  /\ <<defaultVerbosity, defaultLanguage>> \in {<<-1, -1>>, <<MaximumLevel, 0>>}
  /\ verbosityC \in {E!NoMap, [name \in VerbositiesOf |-> E!IdOf("LogVerbosity", name)]}

LEMMA EnumerationTypes == E!LinkedAssumption
BY ComponentsAssumption

\* A name finds its number, and a number its name.
LEMMA IdOfIs ==
  ASSUME NEW u \in DOMAIN E!Enumeration, NEW i \in DOMAIN E!Enumeration[u]
  PROVE  E!IdOf(u, E!Enumeration[u][i].name) = E!Enumeration[u][i].id
<1> DEFINE e == E!Enumeration[u]
<1>1. Sound(e)
  BY TablesAreSound
<1> HIDE DEF e
<1>2. (CHOOSE j \in DOMAIN e : e[j].name = e[i].name) = i
  <2>1. \A j \in DOMAIN e : e[j].name = e[i].name => j = i
    BY <1>1 DEF Sound, e
  <2>2. i \in DOMAIN e
    BY DEF e
  <2> QED BY <2>1, <2>2
<1> QED BY <1>2 DEF E!IdOf, e

LEMMA MaxOfOne ==
  ASSUME NEW S, NEW x \in Int, S = {x}
  PROVE  E!Max(S) = x /\ E!Min(S) = x
<1>1. \A y \in S : y = x
  OBVIOUS
<1>2. x \in S /\ x >= x /\ x <= x
  OBVIOUS
<1> QED BY <1>1, <1>2 DEF E!Max, E!Min

LEMMA StringMapIs ==
  ASSUME NEW u \in DOMAIN E!Enumeration
  PROVE  LET e == E!Enumeration[u]
         IN  /\ DOMAIN E!StringMap(u) = {e[i].id : i \in DOMAIN e}
             /\ \A i \in DOMAIN e : E!StringMap(u)[e[i].id] = e[i].name
<1> DEFINE e == E!Enumeration[u]
<1>1. Sound(e)
  BY TablesAreSound
<1>2. E!StringMap(u) = [id \in {e[i].id : i \in DOMAIN e} |-> e[E!Max({i \in DOMAIN e : e[i].id = id})].name]
  BY DEF E!StringMap
<1> HIDE DEF e
<1>3. ASSUME NEW i \in DOMAIN e PROVE E!Max({j \in DOMAIN e : e[j].id = e[i].id}) = i
  <2>1. {j \in DOMAIN e : e[j].id = e[i].id} = {i}
    BY <1>1 DEF Sound
  <2>2. i \in Int
    BY <1>1 DEF Sound
  <2> QED BY <2>1, <2>2, MaxOfOne
<1> QED BY <1>2, <1>3 DEF e

LEMMA InitEnumerations ==
  ASSUME E!Init
  PROVE  EnumerationsInv
<1>1. pending \subseteq E!Units
  BY EnumerationTypes DEF E!Init, E!LinkedAssumption
<1> QED BY <1>1 DEF E!Init, EnumerationsInv, E!NoValue

LEMMA UnitInitialised ==
  ASSUME EnumerationsInv, NEW u, E!Initializes(u)
  PROVE  /\ pending' \subseteq E!Units /\ early' \subseteq E!ReadByOthers
         /\ u \in pending /\ pending' = pending \ {u}
BY DEF EnumerationsInv, E!Initializes

LEMMA EnumerationStep ==
  ASSUME EnumerationsInv, NEW u \in DOMAIN E!Enumeration, E!Initializes(u),
         strings' = [strings EXCEPT ![u] = E!StringMap(u)],
         dataTypes' \in {E!NoMap, E!DataTypeMapOf(0, 1)}, UNCHANGED <<defaultVerbosity, defaultLanguage, verbosityC>>
  PROVE  EnumerationsInv'
<1>1. u \in DOMAIN strings
  BY UnitInitialised DEF EnumerationsInv
<1>2. DOMAIN strings' = DOMAIN strings /\ strings'[u] = E!StringMap(u)
      /\ \A v \in DOMAIN strings : v # u => strings'[v] = strings[v]
  BY <1>1
<1> QED BY <1>2, UnitInitialised DEF EnumerationsInv

\* The number of the language of C++ is that of memory that is not initialised.
LEMMA LanguageIsCpp == E!Read("LanguageName", "cpp") = 0
<1>1. E!Enumeration["LanguageName"] = E!LanguageName /\ "LanguageName" \in DOMAIN E!Enumeration
  BY DEF E!Enumeration
<1>2. 1 \in DOMAIN E!LanguageName /\ E!LanguageName[1].name = "cpp" /\ E!LanguageName[1].id = 0
  BY DEF E!LanguageName, E!Numbered
<1>3. E!IdOf("LanguageName", "cpp") = 0
  BY <1>1, <1>2, IdOfIs
<1> QED BY <1>3 DEF E!Read

LEMMA EnumerationsStep ==
  ASSUME CppIsBeforeC, EnumerationsInv, E!Next
  PROVE  EnumerationsInv'
<1>1. ASSUME NEW u \in DOMAIN E!Enumeration, E!InitializeEnumeration(u) PROVE EnumerationsInv'
  <2>1. /\ E!Initializes(u) /\ strings' = [strings EXCEPT ![u] = E!StringMap(u)]
        /\ UNCHANGED <<dataTypes, defaultVerbosity, defaultLanguage, verbosityC>>
    BY <1>1 DEF E!InitializeEnumeration, E!defaults
  <2>2. dataTypes' \in {E!NoMap, E!DataTypeMapOf(0, 1)}
    BY <2>1 DEF EnumerationsInv
  <2> QED BY <2>1, <2>2, EnumerationStep
<1>2. CASE E!InitializeComputeArgumentName
  <2>1. "ComputeArgumentName" \in DOMAIN E!Enumeration
    BY DEF E!Enumeration
  <2>2. /\ E!Initializes("ComputeArgumentName") /\ dataTypes' = E!DataTypeMapOf(0, 1)
        /\ strings' = [strings EXCEPT !["ComputeArgumentName"] = E!StringMap("ComputeArgumentName")]
        /\ UNCHANGED <<defaultVerbosity, defaultLanguage, verbosityC>>
    BY <1>2 DEF E!InitializeComputeArgumentName, E!defaults, E!DataTypeMap
  <2> QED BY <2>1, <2>2, EnumerationStep
<1>3. CASE E!InitializeLogImplementation
  <2>1. /\ E!Initializes("LogImplementation") /\ defaultVerbosity' = MaximumLevel /\ defaultLanguage' = 0
        /\ UNCHANGED <<strings, dataTypes, verbosityC>>
    BY <1>3, LanguageIsCpp DEF E!InitializeLogImplementation
  <2>2. "LogImplementation" \notin DOMAIN strings
    <3>1. "LogImplementation" \notin DOMAIN E!Enumeration
      BY DEF E!Enumeration
    <3> QED BY <3>1 DEF EnumerationsInv
  <2> QED BY <2>1, <2>2, UnitInitialised DEF EnumerationsInv
<1>4. CASE E!InitializeLogVerbosity_c
  <2>1. /\ E!Initializes("LogVerbosity_c") /\ UNCHANGED <<strings, dataTypes, defaultVerbosity, defaultLanguage>>
        /\ verbosityC' = [name \in VerbositiesOf |-> E!Read("LogVerbosity", name)]
    BY <1>4 DEF E!InitializeLogVerbosity_c, E!defaults, VerbositiesOf
  <2>2. "LogVerbosity" \notin pending
    BY <2>1 DEF E!Initializes, CppIsBeforeC
  <2>3. \A name : E!Read("LogVerbosity", name) = E!IdOf("LogVerbosity", name)
    BY <2>2 DEF E!Read
  <2>4. verbosityC' = [name \in VerbositiesOf |-> E!IdOf("LogVerbosity", name)]
    BY <2>1, <2>3
  <2>5. "LogVerbosity_c" \notin DOMAIN strings
    <3>1. "LogVerbosity_c" \notin DOMAIN E!Enumeration
      BY DEF E!Enumeration
    <3> QED BY <3>1 DEF EnumerationsInv
  <2> QED BY <2>1, <2>4, <2>5, UnitInitialised DEF EnumerationsInv
<1> QED BY <1>1, <1>2, <1>3, <1>4 DEF E!Next

\* What the operations of an enumeration return once the library is loaded
LEMMA LoadedIs ==
  ASSUME EnumerationsInv, E!Loaded, NEW u \in DOMAIN strings
  PROVE  LET e == E!Enumeration[u]
         IN  /\ Sound(e) /\ DOMAIN e = 1..Len(e)
             /\ DOMAIN strings[u] = {e[i].id : i \in DOMAIN e}
             /\ \A i \in DOMAIN e : strings[u][e[i].id] = e[i].name
             /\ \A i \in DOMAIN e : E!Known(u, e[i].id) /\ E!ToString(u, e[i].id) = e[i].name
<1> DEFINE e == E!Enumeration[u]
<1>1. u \in DOMAIN E!Enumeration /\ strings[u] = E!StringMap(u)
  BY DEF EnumerationsInv, E!Loaded
<1>2. Sound(e)
  BY <1>1, TablesAreSound
<1>3. /\ DOMAIN strings[u] = {e[i].id : i \in DOMAIN e}
      /\ \A i \in DOMAIN e : strings[u][e[i].id] = e[i].name
  BY <1>1, StringMapIs
<1> HIDE DEF e
<1> QED BY <1>2, <1>3 DEF Sound, E!Known, E!ToString, e

LEMMA NumberOfNames ==
  ASSUME NEW e, Sound(e)
  PROVE  E!Cardinality({e[i].id : i \in DOMAIN e}) = Len(e)
<1> DEFINE T == {e[i].id : i \in DOMAIN e}
           f == [i \in 1..Len(e) |-> e[i].id]
<1>1. Len(e) \in Nat /\ DOMAIN e = 1..Len(e)
  BY DEF Sound
<1>2. f \in Bijection(1..Len(e), T)
  BY <1>1 DEF Sound, Bijection, Injection, Surjection, IsInjective
<1> HIDE DEF T, f
<1>3. IsFiniteSet(1..Len(e)) /\ Cardinality(1..Len(e)) = Len(e)
  <2>1. 1 \in Int /\ Len(e) \in Int
    BY <1>1
  <2>2. IsFiniteSet(1..Len(e)) /\ Cardinality(1..Len(e)) = IF 1 > Len(e) THEN 0 ELSE Len(e) - 1 + 1
    BY <2>1, FS_Interval
  <2> HIDE DEF Cardinality
  <2> QED BY <1>1, <2>2
<1>4. Cardinality(T) = Len(e)
  BY <1>2, <1>3, FS_Bijection DEF ExistsBijection
<1>5. E!Cardinality(T) = Cardinality(T)
  BY DEF E!Cardinality, Cardinality
<1> QED BY <1>4, <1>5 DEF T

LEMMA NamesHold ==
  ASSUME EnumerationsInv
  PROVE  E!NamesAndNumbersAgree
<1>1. SUFFICES ASSUME E!Loaded, NEW u \in DOMAIN strings
               PROVE  /\ E!GetNumber(u) = Len(E!Enumeration[u])
                      /\ \A i \in DOMAIN E!Enumeration[u] :
                           LET c == E!Enumeration[u][i]
                           IN  E!Known(u, c.id) /\ E!ToString(u, c.id) = c.name /\ E!FromString(u, c.name) = c.id
                      /\ ~E!Known(u, E!FromString(u, "another"))
                      /\ E!ToString(u, E!FromString(u, "another")) = "unknown"
  BY DEF E!NamesAndNumbersAgree
<1> DEFINE e == E!Enumeration[u]  s == strings[u]
<1>2. /\ Sound(e) /\ DOMAIN e = 1..Len(e) /\ DOMAIN s = {e[i].id : i \in DOMAIN e}
      /\ \A i \in DOMAIN e : s[e[i].id] = e[i].name
      /\ \A i \in DOMAIN e : E!Known(u, e[i].id) /\ E!ToString(u, e[i].id) = e[i].name
  BY <1>1, LoadedIs
<1>3. E!GetNumber(u) = E!Cardinality(DOMAIN s)
  BY DEF E!GetNumber
<1>4. \A str : E!FromString(u, str) =
        IF \E id \in DOMAIN s : s[id] = str THEN E!Min({id \in DOMAIN s : s[id] = str}) ELSE -1
  BY DEF E!FromString
<1>5. \A id : E!Known(u, id) <=> id \in DOMAIN s
  BY DEF E!Known
<1>6. \A id : id \notin DOMAIN s => E!ToString(u, id) = "unknown"
  BY DEF E!ToString
<1> HIDE DEF e, s
<1>7. E!GetNumber(u) = Len(e)
  BY <1>2, <1>3, NumberOfNames
<1>8. ASSUME NEW i \in DOMAIN e PROVE E!FromString(u, e[i].name) = e[i].id
  <2>1. {id \in DOMAIN s : s[id] = e[i].name} = {e[i].id}
    <3>1. e[i].id \in DOMAIN s /\ s[e[i].id] = e[i].name
      BY <1>2
    <3>2. ASSUME NEW id \in DOMAIN s, s[id] = e[i].name PROVE id = e[i].id
      <4>1. PICK j \in DOMAIN e : id = e[j].id
        BY <1>2
      <4>2. e[j].name = e[i].name
        BY <1>2, <3>2, <4>1
      <4> QED BY <1>2, <4>1, <4>2 DEF Sound
    <3> QED BY <3>1, <3>2
  <2>2. e[i].id \in Int
    BY <1>2 DEF Sound
  <2>3. E!Min({id \in DOMAIN s : s[id] = e[i].name}) = e[i].id
    BY <2>1, <2>2, MaxOfOne
  <2> QED BY <1>2, <1>4, <2>3
<1>9. E!FromString(u, "another") = -1
  <2>1. \A id \in DOMAIN s : s[id] # "another"
    BY <1>2 DEF Sound
  <2> QED BY <1>4, <2>1
<1>10. -1 \notin DOMAIN s
  BY <1>2 DEF Sound
<1> QED BY <1>2, <1>5, <1>6, <1>7, <1>8, <1>9, <1>10 DEF e

LEMMA DataTypesHold ==
  ASSUME EnumerationsInv
  PROVE  E!DataTypesAreKnown
<1>1. SUFFICES ASSUME E!Loaded, dataTypes # E!NoMap, "DataType" \in DOMAIN strings,
                      NEW i \in DOMAIN E!ComputeArgumentName
               PROVE  E!ToString("DataType", dataTypes[E!ComputeArgumentName[i].id]) =
                        IF E!ComputeArgumentName[i].name \in E!IntegerArguments THEN "Integer" ELSE "Double"
  BY DEF E!DataTypesAreKnown, E!Has
<1> DEFINE e == E!ComputeArgumentName
<1>2. /\ E!Enumeration["ComputeArgumentName"] = e /\ "ComputeArgumentName" \in DOMAIN E!Enumeration
      /\ E!Enumeration["DataType"] = E!DataType
  BY DEF E!Enumeration
<1>3. Sound(e)
  BY <1>2, TablesAreSound
<1>4. \A j \in DOMAIN e : E!IdOf("ComputeArgumentName", e[j].name) = e[j].id
  BY <1>2, IdOfIs
<1>5. \A x \in E!IntegerArguments : \E j \in DOMAIN e : x = e[j].name
  <2>1. 1 \in DOMAIN e /\ 2 \in DOMAIN e /\ 3 \in DOMAIN e
        /\ e[1].name = "numberOfParticles" /\ e[2].name = "particleSpeciesCodes" /\ e[3].name = "particleContributing"
    BY DEF E!ComputeArgumentName, E!Numbered
  <2> QED BY <2>1 DEF E!IntegerArguments
<1>6. dataTypes = E!DataTypeMapOf(0, 1)
  BY <1>1 DEF EnumerationsInv
<1> HIDE DEF e
<1>7. dataTypes[e[i].id] = IF e[i].name \in E!IntegerArguments THEN 0 ELSE 1
  <2>1. i \in DOMAIN e
    BY <1>1 DEF e
  <2>2. e[i].id \in {E!IdOf("ComputeArgumentName", a) : a \in E!IntegerArguments} <=> e[i].name \in E!IntegerArguments
    <3>1. ASSUME e[i].name \in E!IntegerArguments
          PROVE  e[i].id \in {E!IdOf("ComputeArgumentName", a) : a \in E!IntegerArguments}
      BY <1>4, <2>1, <3>1
    <3>2. ASSUME NEW x \in E!IntegerArguments, e[i].id = E!IdOf("ComputeArgumentName", x)
          PROVE  e[i].name \in E!IntegerArguments
      <4>1. PICK j \in DOMAIN e : x = e[j].name
        BY <1>5
      <4>2. e[i].id = e[j].id
        BY <1>4, <3>2, <4>1
      <4>3. i = j
        BY <1>3, <2>1, <4>2 DEF Sound
      <4> QED BY <4>1, <4>3
    <3> QED BY <3>1, <3>2
  <2> QED BY <1>6, <2>1, <2>2 DEF E!DataTypeMapOf, e
<1>8. E!ToString("DataType", 0) = "Integer" /\ E!ToString("DataType", 1) = "Double"
  <2>1. /\ 1 \in DOMAIN E!DataType /\ 2 \in DOMAIN E!DataType
        /\ E!DataType[1].name = "Integer" /\ E!DataType[1].id = 0
        /\ E!DataType[2].name = "Double" /\ E!DataType[2].id = 1
    BY DEF E!DataType, E!Numbered
  <2>2. \A j \in DOMAIN E!DataType : E!ToString("DataType", E!DataType[j].id) = E!DataType[j].name
    BY <1>1, <1>2, LoadedIs
  <2> QED BY <2>1, <2>2
<1> QED BY <1>7, <1>8 DEF e

LEMMA VerbositiesHold ==
  ASSUME EnumerationsInv
  PROVE  E!DefaultsAreConstants /\ E!LevelsOfCAreThoseOfCpp
<1>1. E!Enumeration["LanguageName"] = E!LanguageName /\ E!Enumeration["LogVerbosity"] = E!LogVerbosity
      /\ "LogVerbosity" \in DOMAIN E!Enumeration
  BY DEF E!Enumeration
<1>2. ASSUME E!Loaded, "LanguageName" \in DOMAIN strings PROVE E!ToString("LanguageName", 0) = "cpp"
  <2>1. 1 \in DOMAIN E!LanguageName /\ E!LanguageName[1].name = "cpp" /\ E!LanguageName[1].id = 0
    BY DEF E!LanguageName, E!Numbered
  <2> QED BY <1>1, <1>2, <2>1, LoadedIs
<1>3. ASSUME E!Loaded, "LogVerbosity" \in DOMAIN strings
      PROVE  \A i \in DOMAIN E!LogVerbosity :
               /\ E!Known("LogVerbosity", E!LogVerbosity[i].id)
               /\ E!ToString("LogVerbosity", E!LogVerbosity[i].id) = E!LogVerbosity[i].name
  BY <1>1, <1>3, LoadedIs
<1>4. E!DefaultsAreConstants
  <2>1. SUFFICES ASSUME E!Loaded, defaultLanguage # -1
                 PROVE  /\ "LanguageName" \in DOMAIN strings => E!ToString("LanguageName", defaultLanguage) = "cpp"
                        /\ "LogVerbosity" \in DOMAIN strings => E!Known("LogVerbosity", defaultVerbosity)
    BY DEF E!DefaultsAreConstants, E!NoValue, E!Has
  <2>2. defaultVerbosity = MaximumLevel /\ defaultLanguage = 0
    BY <2>1 DEF EnumerationsInv
  <2>3. \E i \in DOMAIN E!LogVerbosity : E!LogVerbosity[i].id = MaximumLevel
    <3>1. \A k \in 0..5 : k + 1 \in DOMAIN E!LogVerbosity /\ E!LogVerbosity[k + 1].id = k
      BY DEF E!LogVerbosity, E!Numbered
    <3>2. MaximumLevel \in 0..5
      BY EnumerationTypes DEF E!LinkedAssumption
    <3> QED BY <3>1, <3>2
  <2> QED BY <1>2, <1>3, <2>1, <2>2, <2>3
<1>5. E!LevelsOfCAreThoseOfCpp
  <2>1. SUFFICES ASSUME E!Loaded, verbosityC # E!NoMap, "LogVerbosity" \in DOMAIN strings,
                        NEW name \in DOMAIN verbosityC
                 PROVE  E!ToString("LogVerbosity", verbosityC[name]) = name
    BY DEF E!LevelsOfCAreThoseOfCpp, E!Has
  <2>2. verbosityC = [x \in VerbositiesOf |-> E!IdOf("LogVerbosity", x)]
    BY <2>1 DEF EnumerationsInv
  <2>3. PICK i \in DOMAIN E!LogVerbosity : name = E!LogVerbosity[i].name
    BY <2>1, <2>2 DEF VerbositiesOf
  <2>4. verbosityC[name] = E!LogVerbosity[i].id
    BY <1>1, <2>1, <2>2, <2>3, IdOfIs
  <2> QED BY <1>3, <2>1, <2>3, <2>4
<1> QED BY <1>4, <1>5

LEMMA EnumerationsHold ==
  ASSUME EnumerationsInv
  PROVE  E!EnumerationsAgree
<1>1. E!TypeOK
  <2>1. ASSUME NEW u \in DOMAIN strings, u \notin pending PROVE strings[u] # E!NoMap
    <3>1. u \in DOMAIN E!Enumeration /\ strings[u] = E!StringMap(u)
      BY <2>1 DEF EnumerationsInv
    <3>2. Sound(E!Enumeration[u]) /\ DOMAIN strings[u] = {E!Enumeration[u][i].id : i \in DOMAIN E!Enumeration[u]}
      BY <3>1, TablesAreSound, StringMapIs
    <3>3. 1 \in DOMAIN E!Enumeration[u]
      BY <3>2 DEF Sound
    <3>4. DOMAIN E!NoMap = {}
      BY DEF E!NoMap
    <3> QED BY <3>2, <3>3, <3>4
  <2>2. MaximumLevel \in 0..5
    BY EnumerationTypes DEF E!LinkedAssumption
  <2>3. defaultVerbosity \in -1..5 /\ defaultLanguage \in -1..2
    BY <2>2 DEF EnumerationsInv
  <2> QED BY <2>1, <2>3 DEF EnumerationsInv, E!TypeOK
<1> QED BY <1>1, NamesHold, DataTypesHold, VerbositiesHold DEF E!EnumerationsAgree

LEMMA EnumerationsNext ==
  ASSUME subject = "Enumerations", [Next]_vars
  PROVE  subject' = "Enumerations" /\ (E!Next \/ UNCHANGED enumerations)
BY DEF Next, vars, enumerations

\* For all sets of translation units and every order in which a linker may have them
\* initialised that has LogVerbosity before its binding to C: all constants, their names and
\* numbers, the data types of arguments and the defaults of the Log agree.
THEOREM Initialisation ==
  ASSUME CppIsBeforeC
  PROVE  Spec => []EnumerationsAgree
<1> DEFINE Invariant == subject = "Enumerations" => EnumerationsInv
<1>1. Init => Invariant
  BY InitEnumerations DEF Init
<1>2. Invariant /\ [Next]_vars => Invariant'
  <2>1. SUFFICES ASSUME Invariant, [Next]_vars, subject' = "Enumerations" PROVE EnumerationsInv'
    OBVIOUS
  <2>2. subject = "Enumerations"
    BY <2>1 DEF Next, vars
  <2>3. EnumerationsInv /\ (E!Next \/ UNCHANGED enumerations)
    BY <2>1, <2>2, EnumerationsNext
  <2>4. CASE UNCHANGED enumerations
    <3>1. UNCHANGED <<pending, early, strings, dataTypes, defaultVerbosity, defaultLanguage, verbosityC>>
      BY <2>4 DEF enumerations
    <3> QED BY <2>3, <3>1 DEF EnumerationsInv
  <2> QED BY <2>1, <2>3, <2>4, EnumerationsStep
<1>3. Invariant => EnumerationsAgree
  BY EnumerationsHold DEF EnumerationsAgree
<1> QED BY <1>1, <1>2, <1>3, PTL DEF Spec

-----------------------------------------------------------------------------
(* Calls through the interfaces.  What is on the stack is what the functions *)
(* of the tables call, one below the other, for one and the same function of *)
(* the implementation; each argument is in the form of its function's layer. *)

Layers == {"Fortran", "C", "Cpp"}

\* The function of the implementation that the call of the program is for
Target == I!Implemented(I!MeantByCaller)

\* The form that a value has in a layer
FormAt(target, layer, p) ==
  IF ~I!IsText(target, p) THEN "plain"
  ELSE IF layer = "Fortran" THEN "blanks" ELSE IF layer = "C" THEN "null" ELSE "string"

RowsOfAll ==
  [class : STRING, name : STRING, calleeClass : STRING, callee : STRING,
   passed : Seq([how : STRING, of : STRING]), status : STRING]
\* What a value may be called and may look like (the provers do not know what is in STRING)
NamesOfValues == STRING \cup {"NULL", "nothing", "fixed"}
FormsOfValues == {"plain", "address", "blanks", "null", "string"}
ValuesPassed == [of : NamesOfValues, base : Int, form : FormsOfValues, whole : BOOLEAN]
Frames ==
  [layer : Layers \cup {"Implementation"}, row : RowsOfAll,
   arguments : UNION {[places -> ValuesPassed] : places \in SUBSET STRING}]

\* A function that stands for the target in its layer
StandsFor(target, layer, row) ==
  IF layer = "Implementation" THEN row = target
  ELSE I!InTable(layer, row) /\ I!Implemented(I!Meant(layer, row)) = target

\* The arguments of a function are those of the caller, in the form of its layer.
IsArgument(v, target, language, layer, p) ==
  \/ v.of = "fixed" /\ I!LeftOut(language, target, p)
  \/ /\ v.of = p
     /\ v.base = IF layer = "Fortran" /\ I!How(target, p) = "Index" THEN 1 ELSE 0
     /\ v.form = FormAt(target, layer, p)
ArgumentsAreThose(f, target, language) ==
  /\ DOMAIN f.arguments = I!Parameters(target)
  /\ \A p \in I!InputsOf(target) : IsArgument(f.arguments[p], target, language, f.layer, p)

\* Each function of the stack was called by the one before it, the first by the program.
IsCalledBy(f, g) ==
  /\ g.layer # "Implementation"
  /\ f.layer = I!CalleeLayer(g.layer, g.row) /\ f.row = I!Callee(g.layer, g.row)

StackInv ==
  /\ frames \in Seq(Frames)
  /\ \A n \in 1 .. Len(frames) : StandsFor(Target, frames[n].layer, frames[n].row)
  /\ \A n \in 1 .. Len(frames) : n > 1 => IsCalledBy(frames[n], frames[n - 1])
  /\ frames # <<>> => frames[1].layer = caller.layer /\ frames[1].row = caller.row

CallerInv ==
  /\ caller.layer \in Layers /\ I!InTable(caller.layer, caller.row)
  /\ caller.contiguous \in BOOLEAN

\* The function that returned last
ReturnedLayer ==
  IF frames = <<>> THEN caller.layer ELSE I!CalleeLayer(I!Last(frames).layer, I!Last(frames).row)

\* A result under its name, in the form of a layer, or the text of a file that has none
IsResult(v, target, layer, p) ==
  \/ v = I!Value(p, 0, FormAt(target, layer, p))
  \/ I!How(target, p) \in {"TextOrNull", "TextIfAny"} /\ v \in {I!Null, I!Unset}

ResultsInv ==
  /\ \A p \in I!ResultsOf(Target) :
       \/ failed \/ p \in caller.tooSmall
       \/ frames = <<>> /\ I!How(caller.row, p) = "Local"
       \/ IsResult(returned[p], Target, ReturnedLayer, p)
  /\ Target.status = "error" => error = failed

CallsInv ==
  /\ phase \in {"none", "down", "up"}
  /\ phase # "none" => CallerInv /\ StackInv
  /\ phase = "down" => frames # <<>> /\ \A n \in 1 .. Len(frames) : ArgumentsAreThose(frames[n], Target, caller.layer)
  /\ phase = "up" => ResultsInv /\ \A n \in 1 .. Len(frames) : frames[n].layer # "Implementation"

\* The parameters of a function have places of their own.
LEMMA PlacesOfParameters ==
  ASSUME NEW row, I!IsRow(row)
  PROVE  /\ \A p \in I!Parameters(row) :
              /\ I!Where(row, p) \in DOMAIN row.passed /\ row.passed[I!Where(row, p)].of = p
              /\ p \in STRING /\ I!How(row, p) \in STRING
         /\ \A n \in DOMAIN row.passed : I!Where(row, row.passed[n].of) = n
<1>1. row.passed \in Seq([how : STRING, of : STRING])
  BY DEF I!IsRow
<1>2. \A n \in DOMAIN row.passed : row.passed[n] \in [how : STRING, of : STRING]
  <2> DEFINE S == [how : STRING, of : STRING]
  <2> HIDE DEF S
  <2>1. row.passed \in Seq(S)
    BY <1>1 DEF S
  <2>2. \A n \in DOMAIN row.passed : row.passed[n] \in S
    BY <2>1
  <2> QED BY <2>2 DEF S
<1>3. ASSUME NEW p \in I!Parameters(row)
      PROVE  I!Where(row, p) \in DOMAIN row.passed /\ row.passed[I!Where(row, p)].of = p
  <2>1. \E n \in DOMAIN row.passed : row.passed[n].of = p
    BY <1>3 DEF I!Parameters
  <2> QED BY <2>1 DEF I!Where
<1>4. ASSUME NEW n \in DOMAIN row.passed PROVE I!Where(row, row.passed[n].of) = n
  <2>1. row.passed[n].of \in I!Parameters(row)
    BY DEF I!Parameters
  <2> QED BY <1>3, <2>1 DEF I!IsRow
<1> QED BY <1>2, <1>3, <1>4 DEF I!How

\* The function of the implementation has the parameters of the one of C++.
LEMMA ImplementedIsAlike ==
  ASSUME NEW row, I!IsRow(row)
  PROVE  LET target == I!Implemented(row)
         IN  /\ I!IsRow(target)
             /\ target.passed = row.passed /\ target.name = row.name /\ target.status = row.status
             /\ target.class = row.calleeClass
             /\ I!Signature(target) = I!Signature(row) /\ I!Parameters(target) = I!Parameters(row)
             /\ I!ResultsOf(target) = I!ResultsOf(row) /\ I!InputsOf(target) = I!InputsOf(row)
             /\ \A p : I!How(target, p) = I!How(row, p) /\ (I!IsText(target, p) <=> I!IsText(row, p))
<1> DEFINE target == I!Implemented(row)
<1>1. row \in RowsOfAll
  BY DEF I!IsRow, RowsOfAll
<1>2. /\ target \in RowsOfAll
      /\ target.passed = row.passed /\ target.name = row.name /\ target.status = row.status
      /\ target.class = row.calleeClass
  BY <1>1 DEF I!Implemented, RowsOfAll
<1>3. I!IsRow(target)
  BY <1>2 DEF I!IsRow, RowsOfAll
<1>4. I!Signature(target) = I!Signature(row) /\ I!Parameters(target) = I!Parameters(row)
  BY <1>2, Zenon DEF I!Signature, I!Parameters
<1>5. \A p : I!Where(target, p) = I!Where(row, p)
  BY <1>2, Zenon DEF I!Where
<1>6. \A p : I!How(target, p) = I!How(row, p)
  BY <1>2, <1>5, Zenon DEF I!How
<1>7. \A p : I!IsText(target, p) <=> I!IsText(row, p)
  BY <1>6, Zenon DEF I!IsText
<1> HIDE DEF target
<1>8. I!ResultsOf(target) = I!ResultsOf(row)
  BY <1>4, <1>6 DEF I!ResultsOf
<1>9. I!InputsOf(target) = I!InputsOf(row)
  BY <1>4, <1>8, Zenon DEF I!InputsOf
<1>10. /\ I!IsRow(target)
       /\ target.passed = row.passed /\ target.name = row.name /\ target.status = row.status
       /\ target.class = row.calleeClass
       /\ I!Signature(target) = I!Signature(row) /\ I!Parameters(target) = I!Parameters(row)
       /\ I!ResultsOf(target) = I!ResultsOf(row) /\ I!InputsOf(target) = I!InputsOf(row)
       /\ \A p : I!How(target, p) = I!How(row, p) /\ (I!IsText(target, p) <=> I!IsText(row, p))
  BY <1>2, <1>3, <1>4, <1>6, <1>7, <1>8, <1>9, Zenon
<1> QED BY <1>10, Zenon DEF target

LEMMA RowsFit ==
  ASSUME NEW layer \in Layers, NEW row, I!InTable(layer, row)
  PROVE  I!Fits(layer, row)
<1>1. layer \in DOMAIN RowAt
  BY ComponentsAssumption DEF I!RowsAssumption, Layers
<1>2. \A class \in DOMAIN RowAt[layer] : \A name \in DOMAIN RowAt[layer][class] :
        I!Fits(layer, RowAt[layer][class][name])
  BY <1>1, ComponentsAssumption, Zenon DEF I!RowsAssumption
<1> QED BY <1>2, Zenon DEF I!InTable

\* What holds of a function of the interfaces that stands for the target
LEMMA StandsForFits ==
  ASSUME NEW layer \in Layers, NEW row, NEW target, StandsFor(target, layer, row)
  PROVE  /\ I!IsRow(row) /\ I!IsRow(target)
         /\ I!Signature(row) = I!Signature(target)
         /\ I!Signature(I!Meant(layer, row)) = I!Signature(target) /\ I!IsRow(I!Meant(layer, row))
         /\ I!Parameters(row) = I!Parameters(target)
         /\ I!ResultsOf(row) = I!ResultsOf(target)
         /\ I!InputsOf(row) = I!InputsOf(target)
         /\ \A p \in I!Parameters(row) : I!PassesOn(layer, row, target, p)
         /\ target.status = "error" => row.status = "error"
         /\ StandsFor(target, I!CalleeLayer(layer, row), I!Callee(layer, row))
         /\ I!CalleeLayer(layer, row) \in {"C", "Cpp", "Implementation"}
         /\ layer = "Cpp" <=> I!CalleeLayer(layer, row) = "Implementation"
<1>1. I!InTable(layer, row) /\ I!Implemented(I!Meant(layer, row)) = target
  BY DEF StandsFor, Layers
<1>2. I!Fits(layer, row)
  BY <1>1, RowsFit
<1>3. /\ I!IsRow(row) /\ I!InTable("Cpp", I!Meant(layer, row))
      /\ I!Signature(row) = I!Signature(target) /\ I!ResultsOf(row) = I!ResultsOf(target)
      /\ \A p \in I!Parameters(row) : I!PassesOn(layer, row, target, p)
      /\ target.status = "error" => row.status = "error"
      /\ layer = "Cpp" => row = I!Meant(layer, row)
      /\ layer # "Cpp" =>
           /\ I!InTable(I!CalleeLayer(layer, row), I!Callee(layer, row))
           /\ I!Implemented(I!Meant(I!CalleeLayer(layer, row), I!Callee(layer, row))) = target
  BY <1>1, <1>2, Zenon DEF I!Fits
<1>4. I!IsRow(target) /\ I!Signature(I!Meant(layer, row)) = I!Signature(target) /\ I!IsRow(I!Meant(layer, row))
  <2>1. I!Fits("Cpp", I!Meant(layer, row))
    BY <1>3, RowsFit DEF Layers
  <2>2. I!IsRow(I!Meant(layer, row))
    BY <2>1, Zenon DEF I!Fits
  <2> QED BY <1>1, <2>2, ImplementedIsAlike
<1>5. ASSUME NEW r, I!IsRow(r)
      PROVE  I!Parameters(r) = {I!Signature(r)[n] : n \in DOMAIN I!Signature(r)}
  BY DEF I!Parameters, I!Signature
<1>6. I!Parameters(row) = I!Parameters(target)
  BY <1>3, <1>4, <1>5
<1>7. I!InputsOf(row) = I!InputsOf(target)
  BY <1>3, <1>6, Zenon DEF I!InputsOf
<1>8. I!CalleeLayer(layer, row) \in {"C", "Cpp", "Implementation"} /\ (layer = "Cpp" <=> I!CalleeLayer(layer, row) = "Implementation")
  BY DEF I!CalleeLayer, I!Below, Layers
<1>9. StandsFor(target, I!CalleeLayer(layer, row), I!Callee(layer, row))
  <2>1. CASE layer = "Cpp"
    <3>1. I!Callee(layer, row) = I!Implemented(row)
      BY <2>1 DEF I!Callee
    <3> QED BY <1>1, <1>3, <1>8, <2>1, <3>1 DEF StandsFor
  <2>2. CASE layer # "Cpp"
    BY <1>3, <1>8, <2>2, Zenon DEF StandsFor
  <2> QED BY <2>1, <2>2
<1> QED BY <1>3, <1>4, <1>6, <1>7, <1>8, <1>9, Zenon

(* What becomes of one value in one function. *)

LEMMA FormsAreForms ==
  ASSUME NEW target, NEW layer, NEW p PROVE FormAt(target, layer, p) \in FormsOfValues
BY DEF FormAt, FormsOfValues

LEMMA ValuesAreValues ==
  /\ \A p \in NamesOfValues, n \in Int, f \in FormsOfValues : I!Value(p, n, f) \in ValuesPassed
  /\ I!Null \in ValuesPassed /\ I!Unset \in ValuesPassed /\ I!FixedValue \in ValuesPassed
<1>1. \A p \in NamesOfValues, n \in Int, f \in FormsOfValues : I!Value(p, n, f) \in ValuesPassed
  BY DEF I!Value, ValuesPassed
<1> QED BY <1>1 DEF I!Null, I!Unset, I!FixedValue, NamesOfValues, FormsOfValues

LEMMA ArgumentIsPassed ==
  ASSUME NEW layer \in Layers, NEW row, NEW target, StandsFor(target, layer, row),
         NEW language, layer = "Fortran" => language = "Fortran",
         NEW p \in I!InputsOf(target), NEW v \in ValuesPassed, IsArgument(v, target, language, layer, p),
         NEW contiguous \in BOOLEAN
  PROVE  LET w == I!Argument(layer, I!How(row, p), v, contiguous)
         IN  w \in ValuesPassed /\ IsArgument(w, target, language, I!CalleeLayer(layer, row), p)
<1> DEFINE how == I!How(row, p)
           next == I!CalleeLayer(layer, row)
           w == I!Argument(layer, how, v, contiguous)
<1>1. /\ next \in {"C", "Cpp", "Implementation"}
      /\ layer = "Fortran" => next = "C"
      /\ layer = "C" => next \in {"C", "Cpp"}
      /\ layer = "Cpp" => next = "Implementation"
  BY DEF I!CalleeLayer, I!Below, Layers
<1>2. I!PassesOn(layer, row, target, p)
  <2>1. p \in I!Parameters(row)
    BY StandsForFits DEF I!InputsOf
  <2> QED BY <2>1, StandsForFits
<1>3. \/ how = "Fixed" /\ I!LeftOut(layer, target, p)
      \/ /\ how # "Fixed"
         /\ layer = "Fortran" => (how = "Index" <=> I!How(target, p) = "Index")
         /\ how = "Text" <=> next # layer /\ I!IsText(target, p)
  BY <1>2, Zenon DEF I!PassesOn
<1> HIDE DEF how, next
<1>4. CASE how = "Fixed" /\ I!LeftOut(layer, target, p)
  <2>1. w = I!FixedValue
    BY <1>4 DEF I!Argument
  <2>2. layer = "Fortran"
    BY <1>4 DEF I!LeftOut
  <2>3. I!LeftOut(language, target, p)
    BY <1>4, <2>2
  <2> QED BY <2>1, <2>3 DEF IsArgument, I!FixedValue, I!Value, ValuesPassed, NamesOfValues, FormsOfValues, how, next
<1>5. CASE how # "Fixed"
  <2>1. /\ w \in ValuesPassed /\ w.of = v.of
        /\ w.base = IF how = "Index" /\ layer = "Fortran" THEN v.base - 1 ELSE v.base
        /\ w.form = IF how = "Text" /\ layer = "Fortran" THEN "null"
                    ELSE IF how = "Text" /\ layer = "C" THEN "string" ELSE v.form
    <3>1. CASE how = "Index" /\ layer = "Fortran"
      <4>1. w = [v EXCEPT !.base = @ - 1]
        BY <3>1 DEF I!Argument
      <4> QED BY <3>1, <4>1 DEF ValuesPassed, FormsOfValues
    <3>2. CASE how = "Text" /\ layer = "Fortran"
      <4>1. w = [v EXCEPT !.form = "null"]
        BY <3>2 DEF I!Argument
      <4> QED BY <3>2, <4>1 DEF ValuesPassed, FormsOfValues
    <3>3. CASE how = "Text" /\ layer = "C"
      <4>1. w = [v EXCEPT !.form = "string"]
        BY <3>3 DEF I!Argument
      <4> QED BY <3>3, <4>1 DEF ValuesPassed, FormsOfValues
    <3>4. CASE how \in {"Array", "First"}
      <4>1. w = [v EXCEPT !.whole = contiguous]
        BY <3>4 DEF I!Argument
      <4> QED BY <3>4, <4>1 DEF ValuesPassed, FormsOfValues
    <3>5. CASE /\ ~(how = "Index" /\ layer = "Fortran") /\ ~(how = "Text" /\ layer = "Fortran")
               /\ ~(how = "Text" /\ layer = "C") /\ how \notin {"Array", "First"}
      <4>1. w = v
        BY <1>5, <3>5 DEF I!Argument
      <4> QED BY <3>5, <4>1
    <3> QED BY <3>1, <3>2, <3>3, <3>4, <3>5
  <2>2. CASE v.of = "fixed" /\ I!LeftOut(language, target, p)
    BY <2>1, <2>2 DEF IsArgument, how, next
  <2>3. CASE /\ v.of = p
             /\ v.base = IF layer = "Fortran" /\ I!How(target, p) = "Index" THEN 1 ELSE 0
             /\ v.form = FormAt(target, layer, p)
    <3>1. w.base = 0
      BY <1>3, <1>5, <2>1, <2>3
    <3>2. w.form = FormAt(target, next, p)
      BY <1>1, <1>3, <1>5, <2>1, <2>3 DEF FormAt, Layers
    <3> QED BY <1>1, <2>1, <2>3, <3>1, <3>2 DEF IsArgument, how, next
  <2> QED BY <2>2, <2>3 DEF IsArgument
<1> QED BY <1>3, <1>4, <1>5

LEMMA ResultIsPassed ==
  ASSUME NEW layer \in Layers, NEW row, NEW target, StandsFor(target, layer, row),
         NEW p \in I!ResultsOf(target), p \in NamesOfValues, I!How(row, p) # "Local",
         NEW v, IsResult(v, target, I!CalleeLayer(layer, row), p)
  PROVE  IsResult(I!Translated(layer, I!How(row, p), v), target, layer, p)
<1> DEFINE how == I!How(row, p)
           next == I!CalleeLayer(layer, row)
<1>1. /\ next \in {"C", "Cpp", "Implementation"}
      /\ layer = "Fortran" => next = "C"
      /\ layer = "C" => next \in {"C", "Cpp"}
      /\ layer = "Cpp" => next = "Implementation"
  BY DEF I!CalleeLayer, I!Below, Layers
<1>2. I!PassesOn(layer, row, target, p)
  <2>1. p \in I!Parameters(row)
    BY StandsForFits DEF I!ResultsOf
  <2> QED BY <2>1, StandsForFits
<1>3. how \in I!TextResults <=> next # layer /\ I!IsText(target, p)
  BY <1>2, Zenon DEF I!PassesOn
<1> HIDE DEF how, next
<1>4. I!Translates(layer, how) <=> layer # "Cpp" /\ next # layer /\ I!IsText(target, p)
  BY <1>3, Zenon DEF I!Translates
<1>5. CASE v \in {I!Null, I!Unset}
  <2>1. I!Translated(layer, how, v) = v
    BY <1>5 DEF I!Translated
  <2>2. CASE v = I!Value(p, 0, FormAt(target, next, p))
    <3>1. FormAt(target, next, p) \in {"plain", "address"}
      BY <1>5, <2>2 DEF I!Value, I!Null, I!Unset
    <3>2. ~I!IsText(target, p)
      BY <1>1, <3>1 DEF FormAt
    <3> QED BY <2>1, <2>2, <3>2 DEF IsResult, FormAt, how
  <2>3. CASE I!How(target, p) \in {"TextOrNull", "TextIfAny"}
    BY <1>5, <2>1, <2>3 DEF IsResult, how
  <2> QED BY <2>2, <2>3 DEF IsResult, next
<1>6. CASE v \notin {I!Null, I!Unset}
  <2>1. v = I!Value(p, 0, FormAt(target, next, p))
    BY <1>6 DEF IsResult, next
  <2>2. CASE I!Translates(layer, how)
    <3>1. I!Translated(layer, how, v) = [v EXCEPT !.form = I!FormOfText[layer]]
      BY <1>6, <2>2 DEF I!Translated
    <3>2. layer \in {"Fortran", "C"} /\ I!IsText(target, p)
      BY <1>4, <2>2 DEF Layers
    <3>3. I!FormOfText[layer] = FormAt(target, layer, p)
      BY <3>2 DEF I!FormOfText, FormAt
    <3>4. [v EXCEPT !.form = FormAt(target, layer, p)] = I!Value(p, 0, FormAt(target, layer, p))
      <4>1. ASSUME NEW x \in ValuesPassed, NEW f \in FormsOfValues, x.base = 0, x.whole = TRUE
            PROVE  [x EXCEPT !.form = f] = I!Value(x.of, 0, f)
        <5> DEFINE y == [x EXCEPT !.form = f]
        <5>1. y \in ValuesPassed /\ y.of = x.of /\ y.base = 0 /\ y.form = f /\ y.whole = TRUE
          BY <4>1 DEF ValuesPassed
        <5> HIDE DEF y
        <5>2. y = [of |-> x.of, base |-> 0, form |-> f, whole |-> TRUE]
          BY <5>1 DEF ValuesPassed
        <5> QED BY <5>2 DEF I!Value, y
      <4>2. v \in ValuesPassed /\ v.of = p /\ v.base = 0 /\ v.whole = TRUE
        BY <2>1, FormsAreForms, ValuesAreValues DEF I!Value
      <4>3. FormAt(target, layer, p) \in FormsOfValues
        BY FormsAreForms
      <4> QED BY <4>1, <4>2, <4>3
    <3> QED BY <3>1, <3>3, <3>4 DEF IsResult, how
  <2>3. CASE ~I!Translates(layer, how)
    <3>1. I!Translated(layer, how, v) = v
      BY <2>3 DEF I!Translated
    <3>2. FormAt(target, next, p) = FormAt(target, layer, p)
      BY <1>1, <1>4, <2>3 DEF FormAt, Layers
    <3> QED BY <2>1, <3>1, <3>2 DEF IsResult, how
  <2> QED BY <2>2, <2>3
<1> QED BY <1>5, <1>6

LEMMA WrittenIsResult ==
  ASSUME NEW target, NEW p \in I!ResultsOf(target), NEW availableAsString
  PROVE  IsResult(I!Written(target, p, availableAsString), target, "Implementation", p)
<1>1. CASE I!How(target, p) = "TextOrNull" /\ ~availableAsString
  BY <1>1 DEF I!Written, IsResult
<1>2. CASE I!How(target, p) = "TextIfAny" /\ ~availableAsString
  BY <1>2 DEF I!Written, IsResult
<1>3. CASE ~(I!How(target, p) = "TextOrNull" /\ ~availableAsString) /\ ~(I!How(target, p) = "TextIfAny" /\ ~availableAsString)
  <2>1. I!Written(target, p, availableAsString) = I!Value(p, 0, IF I!IsText(target, p) THEN "string" ELSE "plain")
    BY <1>3 DEF I!Written
  <2>2. FormAt(target, "Implementation", p) = IF I!IsText(target, p) THEN "string" ELSE "plain"
    BY DEF FormAt
  <2> QED BY <2>1, <2>2 DEF IsResult
<1> QED BY <1>1, <1>2, <1>3

(* The steps of a call. *)

LEMMA PlaceInSignature ==
  ASSUME NEW row, I!IsRow(row), NEW p \in I!Parameters(row)
  PROVE  /\ I!Parameters(row) = {I!Signature(row)[n] : n \in DOMAIN I!Signature(row)}
         /\ (CHOOSE n \in DOMAIN I!Signature(row) : I!Signature(row)[n] = p) = I!Where(row, p)
         /\ I!Signature(row)[I!Where(row, p)] = p
<1>1. I!Where(row, p) \in DOMAIN row.passed /\ row.passed[I!Where(row, p)].of = p
  BY PlacesOfParameters
<1>2. DOMAIN I!Signature(row) = DOMAIN row.passed /\ \A n \in DOMAIN row.passed : I!Signature(row)[n] = row.passed[n].of
  BY DEF I!Signature
<1> DEFINE place == CHOOSE n \in DOMAIN I!Signature(row) : I!Signature(row)[n] = p
<1>3. place \in DOMAIN row.passed /\ row.passed[place].of = p
  <2>1. \E n \in DOMAIN I!Signature(row) : I!Signature(row)[n] = p
    BY <1>1, <1>2
  <2>2. place \in DOMAIN I!Signature(row) /\ I!Signature(row)[place] = p
    BY <2>1
  <2> HIDE DEF place
  <2> QED BY <1>2, <2>2
<1> HIDE DEF place
<1>4. place = I!Where(row, p)
  BY <1>1, <1>3, Zenon DEF I!IsRow
<1> QED BY <1>1, <1>2, <1>4 DEF place, I!Parameters

\* Only the function that the program called can be one of Fortran.
LEMMA FortranIsFirst ==
  ASSUME StackInv, NEW n \in 1 .. Len(frames), frames[n].layer = "Fortran"
  PROVE  n = 1 /\ caller.layer = "Fortran" /\ frames[n].row = caller.row
<1>1. Len(frames) \in Nat /\ frames # <<>>
  BY DEF StackInv
<1>2. CASE n > 1
  <2>1. IsCalledBy(frames[n], frames[n - 1]) /\ frames[n - 1] \in Frames
    BY <1>1, <1>2 DEF StackInv
  <2>2. frames[n - 1].layer \in Layers
    BY <2>1 DEF IsCalledBy, Frames
  <2> QED BY <2>1, <2>2 DEF IsCalledBy, I!CalleeLayer, I!Below, Layers
<1>3. CASE n = 1
  BY <1>1, <1>3 DEF StackInv
<1> QED BY <1>1, <1>2, <1>3

\* The function on top and what it may rest on
LEMMA TopOfStack ==
  ASSUME CallerInv, StackInv, frames # <<>>
  PROVE  LET top == I!Last(frames)
         IN  /\ Len(frames) \in Nat \ {0} /\ top = frames[Len(frames)] /\ top \in Frames
             /\ StandsFor(Target, top.layer, top.row)
             /\ top.layer = "Fortran" =>
                  /\ Len(frames) = 1 /\ caller.layer = "Fortran" /\ top.row = caller.row
             /\ \A p \in DOMAIN top.arguments : top.arguments[p] \in ValuesPassed
<1>1. frames \in Seq(Frames) /\ Len(frames) \in Nat \ {0}
  BY EmptySeq DEF StackInv
<1>2. I!Last(frames) = frames[Len(frames)]
  BY DEF I!Last
<1>3. Len(frames) \in 1 .. Len(frames) /\ frames[Len(frames)] \in Frames
  BY <1>1
<1>4. \A p \in DOMAIN frames[Len(frames)].arguments : frames[Len(frames)].arguments[p] \in ValuesPassed
  <2>1. frames[Len(frames)].arguments \in UNION {[places -> ValuesPassed] : places \in SUBSET STRING}
    BY <1>3 DEF Frames
  <2>2. PICK places \in SUBSET STRING : frames[Len(frames)].arguments \in [places -> ValuesPassed]
    BY <2>1
  <2> QED BY <2>2
<1>5. StandsFor(Target, frames[Len(frames)].layer, frames[Len(frames)].row)
  BY <1>3, Zenon DEF StackInv
<1> QED BY <1>1, <1>2, <1>3, <1>4, <1>5, FortranIsFirst

\* What the function on top passes for one parameter
PassedFor(top, p) ==
  IF I!How(top.row, p) \in I!Results
  THEN I!Address(top.layer, I!How(top.row, p), p, top.arguments[p])
  ELSE I!Argument(top.layer, I!How(top.row, p), top.arguments[p], caller.contiguous)

LEMMA PassedArguments ==
  ASSUME CallerInv, StackInv, frames # <<>>, I!Last(frames).layer \in Layers,
         ArgumentsAreThose(I!Last(frames), Target, caller.layer)
  PROVE  LET top == I!Last(frames)
         IN  \A p \in I!Parameters(Target) :
               /\ p \in STRING /\ PassedFor(top, p) \in ValuesPassed
               /\ p \in I!InputsOf(Target) =>
                    IsArgument(PassedFor(top, p), Target, caller.layer, I!CalleeLayer(top.layer, top.row), p)
<1> DEFINE top == I!Last(frames)
<1>1. /\ StandsFor(Target, top.layer, top.row) /\ top.layer \in Layers
      /\ top.layer = "Fortran" => caller.layer = "Fortran"
      /\ \A p \in DOMAIN top.arguments : top.arguments[p] \in ValuesPassed
  BY TopOfStack
<1>2. DOMAIN top.arguments = I!Parameters(Target)
  BY DEF ArgumentsAreThose
<1>3. \A p \in I!InputsOf(Target) : IsArgument(top.arguments[p], Target, caller.layer, top.layer, p)
  BY Zenon DEF ArgumentsAreThose
<1>4. /\ I!IsRow(top.row) /\ I!IsRow(Target)
      /\ I!Parameters(top.row) = I!Parameters(Target) /\ I!ResultsOf(top.row) = I!ResultsOf(Target)
  <2> HIDE DEF top
  <2> QED BY <1>1, StandsForFits
<1>5. caller.contiguous \in BOOLEAN
  BY DEF CallerInv
<1> HIDE DEF top
<1>6. SUFFICES ASSUME NEW p \in I!Parameters(Target)
               PROVE  /\ p \in STRING /\ PassedFor(top, p) \in ValuesPassed
                      /\ p \in I!InputsOf(Target) =>
                           IsArgument(PassedFor(top, p), Target, caller.layer, I!CalleeLayer(top.layer, top.row), p)
  BY DEF top
<1>7. p \in STRING /\ top.arguments[p] \in ValuesPassed
  BY <1>1, <1>2, <1>4, PlacesOfParameters
<1>8. CASE p \in I!ResultsOf(Target)
  <2>1. I!How(top.row, p) \in I!Results
    BY <1>4, <1>8 DEF I!ResultsOf
  <2>2. PassedFor(top, p) \in {top.arguments[p], I!AddressOf(p)}
    BY <2>1 DEF PassedFor, I!Address
  <2>3. I!AddressOf(p) \in ValuesPassed
    <3>1. p \in NamesOfValues /\ "address" \in FormsOfValues /\ 0 \in Int
      BY <1>7 DEF NamesOfValues, FormsOfValues
    <3> QED BY <3>1, ValuesAreValues, Zenon DEF I!AddressOf
  <2> QED BY <1>7, <1>8, <2>2, <2>3 DEF I!InputsOf
<1>9. CASE p \notin I!ResultsOf(Target)
  <2>1. I!How(top.row, p) \notin I!Results
    BY <1>4, <1>9 DEF I!ResultsOf
  <2>2. PassedFor(top, p) = I!Argument(top.layer, I!How(top.row, p), top.arguments[p], caller.contiguous)
    BY <2>1 DEF PassedFor
  <2>3. p \in I!InputsOf(Target)
    BY <1>9 DEF I!InputsOf
  <2>4. IsArgument(top.arguments[p], Target, caller.layer, top.layer, p)
    BY <1>3, <2>3, Zenon
  <2>5. LET w == I!Argument(top.layer, I!How(top.row, p), top.arguments[p], caller.contiguous)
        IN  w \in ValuesPassed /\ IsArgument(w, Target, caller.layer, I!CalleeLayer(top.layer, top.row), p)
    BY <1>1, <1>5, <1>7, <2>3, <2>4, ArgumentIsPassed, Zenon
  <2> QED BY <1>7, <2>2, <2>5, Zenon
<1> QED BY <1>8, <1>9

LEMMA PassOnStep ==
  ASSUME CallsInv, I!PassOn
  PROVE  CallsInv'
<1> DEFINE top == I!Last(frames)
           row == top.row
           next == I!CalleeLayer(top.layer, row)
           callee == I!Callee(top.layer, row)
           arguments == [p \in I!Parameters(Target) |-> PassedFor(top, p)]
           f == [layer |-> next, row |-> callee, arguments |-> arguments]
<1>1. phase = "down" /\ top.layer # "Implementation" /\ UNCHANGED <<caller, phase, returned, error, failed, fault>>
  BY Zenon DEF I!PassOn
<1>2. CallerInv /\ StackInv /\ frames # <<>> /\ \A n \in 1 .. Len(frames) : ArgumentsAreThose(frames[n], Target, caller.layer)
  BY <1>1 DEF CallsInv
<1>3. /\ Len(frames) \in Nat \ {0} /\ top = frames[Len(frames)] /\ top \in Frames
      /\ StandsFor(Target, top.layer, row)
  BY <1>2, TopOfStack
<1>4. top.layer \in Layers
  BY <1>1, <1>3 DEF Frames
<1>5. ArgumentsAreThose(top, Target, caller.layer)
  BY <1>2, <1>3
<1>6. \A p \in I!Parameters(Target) :
        /\ p \in STRING /\ PassedFor(top, p) \in ValuesPassed
        /\ p \in I!InputsOf(Target) => IsArgument(PassedFor(top, p), Target, caller.layer, next, p)
  BY <1>2, <1>4, <1>5, PassedArguments
<1>7. /\ I!IsRow(row) /\ I!IsRow(Target) /\ I!Parameters(row) = I!Parameters(Target)
      /\ I!Signature(row) = I!Signature(Target)
      /\ StandsFor(Target, next, callee) /\ next \in {"C", "Cpp", "Implementation"}
      /\ top.layer = "Cpp" <=> next = "Implementation"
  BY <1>3, <1>4, StandsForFits
<1>8. /\ I!IsRow(callee)
      /\ I!Signature(IF top.layer = "Cpp" THEN row ELSE I!Meant(next, callee)) = I!Signature(row)
  <2>1. CASE next = "Implementation"
    BY <1>7, <2>1 DEF StandsFor
  <2>2. CASE next # "Implementation"
    <3>1. next \in Layers
      BY <1>7, <2>2 DEF Layers
    <3>2. I!IsRow(callee) /\ I!Signature(I!Meant(next, callee)) = I!Signature(Target)
      BY <1>7, <3>1, StandsForFits
    <3> QED BY <1>7, <2>2, <3>2
  <2> QED BY <2>1, <2>2
<1> HIDE DEF top, next, callee
<1>9. frames' = Append(frames, f)
  <2> DEFINE passed == [n \in DOMAIN row.passed |->
                          LET p == row.passed[n].of
                              how == row.passed[n].how
                          IN  IF how \in I!Results THEN I!Address(top.layer, how, p, top.arguments[p])
                              ELSE I!Argument(top.layer, how, top.arguments[p], caller.contiguous)]
             names == I!Signature(IF top.layer = "Cpp" THEN row ELSE I!Meant(next, callee))
             handed(p) == passed[CHOOSE n \in DOMAIN names : names[n] = p]
             given_ == [p \in {names[n] : n \in DOMAIN names} |-> handed(p)]
  <2>1. frames' = Append(frames, [layer |-> next, row |-> callee, arguments |-> given_])
    BY Zenon DEF I!PassOn, top, next, callee
  <2>2. ASSUME NEW p \in I!Parameters(row)
        PROVE  handed(p) = PassedFor(top, p)
    <3>1. /\ (CHOOSE n \in DOMAIN names : names[n] = p) = I!Where(row, p)
          /\ I!Where(row, p) \in DOMAIN row.passed /\ row.passed[I!Where(row, p)].of = p
      BY <1>7, <1>8, PlaceInSignature, PlacesOfParameters
    <3>2. row.passed[I!Where(row, p)].how = I!How(row, p)
      BY DEF I!How
    <3>3. passed[I!Where(row, p)] = PassedFor(top, p)
      BY <3>1, <3>2 DEF PassedFor
    <3> QED BY <3>1, <3>3, Zenon
  <2>3. I!Parameters(row) = {names[n] : n \in DOMAIN names}
    <3>1. I!Parameters(row) = {I!Signature(row)[n] : n \in DOMAIN I!Signature(row)}
      BY DEF I!Parameters, I!Signature
    <3>2. names = I!Signature(row)
      BY <1>8, Zenon
    <3> HIDE DEF names
    <3> QED BY <3>1, <3>2
  <2> HIDE DEF passed, names, handed
  <2>4. given_ = arguments
    <3>1. {names[n] : n \in DOMAIN names} = I!Parameters(Target)
      BY <1>7, <2>3
    <3>2. \A p \in I!Parameters(Target) : handed(p) = PassedFor(top, p)
      BY <1>7, <2>2
    <3> QED BY <3>1, <3>2, Zenon
  <2> QED BY <2>1, <2>4, Zenon
<1>10. f \in Frames
  <2>1. arguments \in UNION {[places -> ValuesPassed] : places \in SUBSET STRING}
    <3>1. I!Parameters(Target) \in SUBSET STRING
      BY <1>6
    <3>2. arguments \in [I!Parameters(Target) -> ValuesPassed]
      BY <1>6
    <3> HIDE DEF arguments
    <3> QED BY <3>1, <3>2
  <2>2. callee \in RowsOfAll
    BY <1>8 DEF I!IsRow, RowsOfAll
  <2> HIDE DEF arguments
  <2> QED BY <1>7, <2>1, <2>2 DEF Frames, Layers
<1>11. ArgumentsAreThose(f, Target, caller.layer)
  BY <1>6, SMTT(20) DEF ArgumentsAreThose, I!InputsOf
<1>12. IsCalledBy(f, top)
  BY <1>1 DEF IsCalledBy, next, callee
<1> HIDE DEF f
<1>13. f.layer = next /\ f.row = callee
  BY DEF f
<1>14. /\ frames' \in Seq(Frames) /\ Len(frames') = Len(frames) + 1
       /\ \A n \in 1 .. Len(frames) : frames'[n] = frames[n]
       /\ frames'[Len(frames) + 1] = f /\ frames' # <<>>
  BY <1>2, <1>3, <1>9, <1>10 DEF StackInv
<1>15. Target' = Target /\ CallerInv'
  BY <1>1, <1>2 DEF Target, I!MeantByCaller, CallerInv
<1>16. StackInv'
  <2>1. ASSUME NEW n \in 1 .. Len(frames') PROVE StandsFor(Target, frames'[n].layer, frames'[n].row)
    BY <1>2, <1>3, <1>7, <1>13, <1>14, <2>1, Z3 DEF StackInv
  <2>2. ASSUME NEW n \in 1 .. Len(frames'), n > 1 PROVE IsCalledBy(frames'[n], frames'[n - 1])
    <3>1. CASE n <= Len(frames)
      BY <1>2, <1>3, <1>14, <2>2, <3>1 DEF StackInv
    <3>2. CASE n = Len(frames) + 1
      BY <1>3, <1>12, <1>14, <2>2, <3>2
    <3> QED BY <1>3, <1>14, <2>2, <3>1, <3>2
  <2>3. frames'[1].layer = caller.layer /\ frames'[1].row = caller.row
    BY <1>2, <1>3, <1>14 DEF StackInv
  <2> QED BY <1>1, <1>14, <1>15, <2>1, <2>2, <2>3 DEF StackInv
<1>17. \A n \in 1 .. Len(frames') : ArgumentsAreThose(frames'[n], Target, caller.layer)
  BY <1>2, <1>3, <1>11, <1>14
<1> QED BY <1>1, <1>14, <1>15, <1>16, <1>17, Zenon DEF CallsInv

\* What a program gives is an argument in the form of its language.
LEMMA GivenIsArgument ==
  ASSUME NEW layer \in Layers, NEW row, I!InTable(layer, row),
         NEW omitted \in SUBSET I!ResultsOf(I!Meant(layer, row)),
         NEW p \in I!Parameters(row)
  PROVE  LET meant == I!Meant(layer, row)
             target == I!Implemented(meant)
             v == I!Given(layer, meant, p, omitted)
         IN  /\ p \in STRING /\ v \in ValuesPassed
             /\ p \in I!InputsOf(target) => IsArgument(v, target, layer, layer, p)
<1> DEFINE meant == I!Meant(layer, row)
           target == I!Implemented(meant)
           v == I!Given(layer, meant, p, omitted)
<1>1. StandsFor(target, layer, row)
  BY DEF StandsFor, Layers
<1>2. I!IsRow(row) /\ I!IsRow(meant)
  BY <1>1, StandsForFits
<1>3. p \in STRING
  BY <1>2, PlacesOfParameters
<1>4. /\ I!ResultsOf(target) = I!ResultsOf(meant)
      /\ I!How(target, p) = I!How(meant, p) /\ (I!IsText(target, p) <=> I!IsText(meant, p))
  BY <1>2, ImplementedIsAlike
<1>5. I!FormOfText[layer] = IF layer = "Fortran" THEN "blanks" ELSE IF layer = "C" THEN "null" ELSE "string"
  BY DEF I!FormOfText, Layers
<1> DEFINE counted == IF layer = "Fortran" /\ I!How(meant, p) = "Index" THEN 1 ELSE 0
           form == IF I!IsText(meant, p) THEN I!FormOfText[layer] ELSE "plain"
<1>6. /\ I!AddressOf(p) \in ValuesPassed /\ I!Value(p, counted, form) \in ValuesPassed /\ I!Null \in ValuesPassed
      /\ form = FormAt(target, layer, p)
  <2>1. p \in NamesOfValues /\ "address" \in FormsOfValues /\ counted \in Int
    BY <1>3 DEF NamesOfValues, FormsOfValues
  <2>2. form = FormAt(target, layer, p)
    BY <1>4, <1>5 DEF FormAt
  <2>3. form \in FormsOfValues
    BY <2>2, FormsAreForms
  <2>4. 0 \in Int
    OBVIOUS
  <2> HIDE DEF counted, form
  <2>5. I!AddressOf(p) \in ValuesPassed
    BY <2>1, <2>4, ValuesAreValues, Zenon DEF I!AddressOf
  <2> QED BY <2>1, <2>2, <2>3, <2>5, ValuesAreValues, Zenon
<1> HIDE DEF meant, target, counted, form
<1>7. v \in {I!Null, I!AddressOf(p), I!Value(p, counted, form)}
  BY DEF I!Given, counted, form
<1>8. ASSUME p \in I!InputsOf(target) PROVE IsArgument(v, target, layer, layer, p)
  <2>1. p \notin I!ResultsOf(meant) /\ p \notin omitted
    BY <1>4, <1>8 DEF I!InputsOf, meant
  <2>2. v = I!Value(p, counted, form)
    BY <2>1 DEF I!Given, counted, form
  <2>3. v.of = p /\ v.base = counted /\ v.form = form
    BY <2>2 DEF I!Value
  <2>4. counted = IF layer = "Fortran" /\ I!How(target, p) = "Index" THEN 1 ELSE 0
    BY <1>4 DEF counted
  <2> HIDE DEF v
  <2> QED BY <1>6, <2>3, <2>4 DEF IsArgument
<1>9. v \in ValuesPassed
  BY <1>6, <1>7
<1> QED BY <1>3, <1>8, <1>9 DEF meant, target

\* A function stands in its table under its name.
LEMMA RowsAreNamed ==
  ASSUME NEW layer \in DOMAIN RowAt, NEW class \in DOMAIN RowAt[layer], NEW name \in DOMAIN RowAt[layer][class]
  PROVE  layer \in Layers /\ I!InTable(layer, RowAt[layer][class][name])
<1>1. layer \in Layers
  BY ComponentsAssumption DEF I!RowsAssumption, Layers
<1>2. I!RowsAssumption
  BY ComponentsAssumption, Zenon
<1>3. \A c \in DOMAIN RowAt[layer] : \A n \in DOMAIN RowAt[layer][c] :
        RowAt[layer][c][n].class = c /\ RowAt[layer][c][n].name = n
  BY <1>2 DEF I!RowsAssumption
<1> QED BY <1>1, <1>3, Zenon DEF I!InTable

LEMMA EnterStep ==
  ASSUME CallsInv, NEW layer \in DOMAIN RowAt, NEW class \in DOMAIN RowAt[layer],
         NEW name \in DOMAIN RowAt[layer][class], I!Enter(layer, RowAt[layer][class][name])
  PROVE  CallsInv'
<1> DEFINE row == RowAt[layer][class][name]
           meant == I!Meant(layer, row)
           target == I!Implemented(meant)
           given_(omitted) == [p \in I!Parameters(row) |-> I!Given(layer, meant, p, omitted)]
           f(omitted) == [layer |-> layer, row |-> row, arguments |-> given_(omitted)]
<1>1. layer \in Layers
  BY RowsAreNamed
<1>2. I!InTable(layer, row)
  BY RowsAreNamed
<1>3. StandsFor(target, layer, row)
  BY <1>1, <1>2 DEF StandsFor, Layers
<1>4. I!IsRow(row) /\ I!Parameters(row) = I!Parameters(target)
  BY <1>1, <1>3, StandsForFits
<1>5. PICK omitted \in SUBSET I!ResultsOf(meant), contiguous \in BOOLEAN,
        tooSmall \in SUBSET I!Parameters(row) :
        /\ caller' = [layer |-> layer, row |-> row, contiguous |-> contiguous, omitted |-> omitted,
                      tooSmall |-> tooSmall]
        /\ frames' = <<f(omitted)>> /\ phase' = "down"
  <2>1. PICK omitted \in IF layer = "Fortran" THEN {{}} ELSE I!Omissions(meant),
             contiguous \in I!Contiguities(row),
             tooSmall \in SUBSET {p \in I!Parameters(row) : I!How(row, p) = "Copied"} :
          /\ caller' = [layer |-> layer, row |-> row, contiguous |-> contiguous, omitted |-> omitted,
                        tooSmall |-> tooSmall]
          /\ frames' = <<f(omitted)>> /\ phase' = "down"
    BY Zenon DEF I!Enter
  <2>2. contiguous \in BOOLEAN
    BY DEF I!Contiguities
  <2>3. omitted \in SUBSET I!ResultsOf(meant)
    BY DEF I!Omissions
  <2>4. tooSmall \in SUBSET I!Parameters(row)
    OBVIOUS
  <2> QED BY <2>1, <2>2, <2>3, <2>4, Zenon
<1> DEFINE args == given_(omitted)
           g == f(omitted)
<1>6. \A p \in I!Parameters(row) :
        /\ p \in STRING /\ args[p] \in ValuesPassed
        /\ p \in I!InputsOf(target) => IsArgument(args[p], target, layer, layer, p)
  BY <1>1, <1>2, GivenIsArgument
<1>7. DOMAIN args = I!Parameters(row) /\ args \in [I!Parameters(row) -> ValuesPassed]
  BY <1>6
<1>8. g.layer = layer /\ g.row = row /\ g.arguments = args
  OBVIOUS
<1>9. g \in Frames
  <2>1. row \in RowsOfAll
    BY <1>4 DEF I!IsRow, RowsOfAll
  <2>2. args \in UNION {[places -> ValuesPassed] : places \in SUBSET STRING}
    <3>1. I!Parameters(row) \in SUBSET STRING
      BY <1>6
    <3> HIDE DEF args, row
    <3> QED BY <1>7, <3>1
  <2> HIDE DEF row, args
  <2>3. [layer |-> layer, row |-> row, arguments |-> args] \in Frames
    <3>1. layer \in Layers \cup {"Implementation"}
      BY <1>1
    <3> QED BY <2>1, <2>2, <3>1 DEF Frames
  <2> QED BY <2>3, Zenon DEF args
<1>10. ArgumentsAreThose(g, target, layer)
  <2>1. \A p \in I!InputsOf(target) : p \in I!Parameters(row)
    BY <1>4 DEF I!InputsOf
  <2> HIDE DEF g, args, row, target
  <2> QED BY <1>4, <1>6, <1>7, <1>8, <2>1 DEF ArgumentsAreThose
<1>11. caller'.layer = layer /\ caller'.row = row /\ caller'.contiguous \in BOOLEAN
  BY <1>5
<1>12. Target' = target
  BY <1>11 DEF Target, I!MeantByCaller
<1> HIDE DEF row, meant, target, g
<1>13. frames' = <<g>> /\ phase' = "down"
  BY <1>5, Zenon DEF g
<1>14. /\ frames' \in Seq(Frames) /\ Len(frames') = 1 /\ frames'[1] = g /\ frames' # <<>>
  BY <1>9, <1>13
<1>15. CallerInv'
  BY <1>1, <1>2, <1>11 DEF CallerInv
<1>16. StackInv'
  BY <1>3, <1>8, <1>11, <1>12, <1>14 DEF StackInv
<1>17. \A n \in 1 .. Len(frames') : ArgumentsAreThose(frames'[n], target, layer)
  BY <1>10, <1>14
<1> QED BY <1>11, <1>12, <1>13, <1>14, <1>15, <1>16, <1>17 DEF CallsInv

\* The function on top returns.
LEMMA StackIsPopped ==
  ASSUME CallerInv, StackInv, frames # <<>>, frames' = I!Front(frames), UNCHANGED caller
  PROVE  /\ Target' = Target /\ CallerInv' /\ StackInv'
         /\ ReturnedLayer' = I!Last(frames).layer
         /\ \A n \in 1 .. Len(frames') : frames'[n].layer # "Implementation"
         /\ I!Last(frames).layer = "Fortran" => frames' = <<>> /\ I!Last(frames).row = caller.row
<1> DEFINE n == Len(frames)
           top == I!Last(frames)
<1>1. /\ n \in Nat \ {0} /\ top = frames[n] /\ frames \in Seq(Frames)
      /\ top.layer = "Fortran" => n = 1 /\ top.row = caller.row
  BY TopOfStack DEF StackInv
<1>2. /\ frames' \in Seq(Frames) /\ Len(frames') = n - 1
      /\ \A m \in 1 .. n - 1 : frames'[m] = frames[m]
  <2>1. frames' = SubSeq(frames, 1, n - 1)
    BY DEF I!Front
  <2>2. \A m \in 1 .. n : frames[m] \in Frames
    BY <1>1
  <2> HIDE DEF n
  <2>3. n = Len(frames)
    BY DEF n
  <2>4. 1 \in 1 .. n + 1 /\ n - 1 \in 0 .. Len(frames)
    BY <1>1, <2>3
  <2>5. /\ SubSeq(frames, 1, n - 1) \in Seq(Frames)
        /\ Len(SubSeq(frames, 1, n - 1)) = IF 1 <= n - 1 THEN (n - 1) - 1 + 1 ELSE 0
        /\ \A m \in 1 .. (n - 1) - 1 + 1 : SubSeq(frames, 1, n - 1)[m] = frames[1 + m - 1]
    BY <1>1, <2>3, <2>4, SubSeqProperties
  <2> QED BY <1>1, <2>1, <2>5
<1> HIDE DEF top, n
<1>3. frames' = <<>> <=> n = 1
  BY <1>1, <1>2, EmptySeq
<1>4. Target' = Target /\ CallerInv'
  BY DEF Target, I!MeantByCaller, CallerInv
<1>5. StackInv'
  <2>1. ASSUME NEW m \in 1 .. Len(frames') PROVE StandsFor(Target, frames'[m].layer, frames'[m].row)
    <3>1. m \in 1 .. Len(frames) /\ frames'[m] = frames[m]
      BY <1>1, <1>2 DEF n
    <3> QED BY <3>1 DEF StackInv
  <2>2. ASSUME NEW m \in 1 .. Len(frames'), m > 1 PROVE IsCalledBy(frames'[m], frames'[m - 1])
    <3>1. m \in 1 .. Len(frames) /\ frames'[m] = frames[m] /\ frames'[m - 1] = frames[m - 1]
      BY <1>1, <1>2, <2>2 DEF n
    <3> QED BY <2>2, <3>1 DEF StackInv
  <2>3. frames' # <<>> => frames'[1].layer = caller.layer /\ frames'[1].row = caller.row
    BY <1>1, <1>2, <1>3 DEF StackInv
  <2> QED BY <1>2, <1>4, <2>1, <2>2, <2>3 DEF StackInv
<1>6. ASSUME NEW m \in 1 .. Len(frames') PROVE frames'[m].layer # "Implementation"
  <2>1. m + 1 \in 1 .. Len(frames) /\ m + 1 > 1 /\ (m + 1) - 1 = m
    BY <1>1, <1>2 DEF n
  <2>2. IsCalledBy(frames[m + 1], frames[(m + 1) - 1])
    BY <2>1 DEF StackInv
  <2> QED BY <1>2, <2>1, <2>2 DEF IsCalledBy
<1>7. ReturnedLayer' = top.layer
  <2>1. CASE n = 1
    <3>1. frames[1].layer = caller.layer
      BY DEF StackInv
    <3> QED BY <1>1, <1>3, <2>1, <3>1 DEF ReturnedLayer
  <2>2. CASE n > 1
    <3>1. IsCalledBy(frames[n], frames[n - 1])
      BY <1>1, <2>2 DEF StackInv, n
    <3>2. I!Last(frames)' = frames[n - 1]
      <4>1. I!Last(frames)' = frames'[Len(frames')]
        BY DEF I!Last
      <4> QED BY <1>1, <1>2, <2>2, <4>1
    <3> QED BY <1>1, <1>3, <2>2, <3>1, <3>2 DEF ReturnedLayer, IsCalledBy, I!CalleeLayer
  <2> QED BY <1>1, <2>1, <2>2
<1> QED BY <1>1, <1>3, <1>4, <1>5, <1>6, <1>7 DEF top

LEMMA ImplementationStep ==
  ASSUME CallsInv, I!Implementation
  PROVE  CallsInv'
<1> DEFINE top == I!Last(frames)
<1>1. /\ phase = "down" /\ top.layer = "Implementation" /\ error' = failed'
      /\ frames' = I!Front(frames) /\ phase' = "up" /\ UNCHANGED caller
  BY Zenon DEF I!Implementation
<1>2. PICK availableAsString \in BOOLEAN :
        returned' = [p \in I!ResultsOf(top.row) |->
                       IF failed' THEN I!Unset ELSE I!Written(top.row, p, availableAsString)]
  BY Zenon DEF I!Implementation
<1>3. CallerInv /\ StackInv /\ frames # <<>>
  BY <1>1 DEF CallsInv
<1>4. top.row = Target
  <2>1. StandsFor(Target, top.layer, top.row)
    BY <1>3, TopOfStack
  <2> QED BY <1>1, <2>1 DEF StandsFor
<1>5. /\ Target' = Target /\ CallerInv' /\ StackInv' /\ ReturnedLayer' = "Implementation"
      /\ \A n \in 1 .. Len(frames') : frames'[n].layer # "Implementation"
  BY <1>1, <1>3, StackIsPopped
<1> HIDE DEF top
<1>6. ASSUME NEW p \in I!ResultsOf(Target), ~failed'
      PROVE  IsResult(returned'[p], Target, "Implementation", p)
  <2>1. returned'[p] = I!Written(Target, p, availableAsString)
    BY <1>2, <1>4, <1>6
  <2> QED BY <2>1, WrittenIsResult
<1>7. ResultsInv'
  BY <1>1, <1>5, <1>6 DEF ResultsInv
<1> QED BY <1>1, <1>5, <1>7 DEF CallsInv

LEMMA ReturnStep ==
  ASSUME CallsInv, I!Return
  PROVE  CallsInv'
<1> DEFINE top == I!Last(frames)
           row == top.row
           names == I!Signature(I!Meant(top.layer, row))
           Result(p) == returned[names[I!Where(row, p)]]
<1>1. /\ phase = "up" /\ frames # <<>> /\ frames' = I!Front(frames) /\ UNCHANGED <<caller, phase, failed>>
      /\ row.status = "error" => error' = error
  BY DEF I!Return
<1>2. returned' = [p \in I!ResultsOf(row) |->
                     IF I!How(row, p) = "Local" \/ p \in caller.tooSmall THEN I!Unset
                     ELSE I!Translated(top.layer, I!How(row, p), Result(p))]
  BY Zenon DEF I!Return
<1>3. CallerInv /\ StackInv /\ ResultsInv /\ \A n \in 1 .. Len(frames) : frames[n].layer # "Implementation"
  BY <1>1 DEF CallsInv
<1>4. top.layer \in Layers /\ StandsFor(Target, top.layer, row)
  <2>1. Len(frames) \in Nat \ {0} /\ top = frames[Len(frames)] /\ top \in Frames
    BY <1>1, <1>3, TopOfStack
  <2>2. top.layer # "Implementation"
    BY <1>3, <2>1
  <2> QED BY <1>1, <1>3, <2>1, <2>2, TopOfStack DEF Frames
<1>5. /\ I!IsRow(row) /\ I!Parameters(row) = I!Parameters(Target) /\ I!ResultsOf(row) = I!ResultsOf(Target)
      /\ names = I!Signature(row)
      /\ \A p \in I!Parameters(row) : I!PassesOn(top.layer, row, Target, p)
      /\ Target.status = "error" => row.status = "error"
  BY <1>4, StandsForFits
<1>6. /\ Target' = Target /\ CallerInv' /\ StackInv' /\ ReturnedLayer' = top.layer
      /\ \A n \in 1 .. Len(frames') : frames'[n].layer # "Implementation"
      /\ top.layer = "Fortran" => frames' = <<>> /\ row = caller.row
  BY <1>1, <1>3, StackIsPopped
<1>7. ReturnedLayer = I!CalleeLayer(top.layer, row)
  BY <1>1 DEF ReturnedLayer
<1> HIDE DEF top
<1>8. ASSUME NEW p \in I!ResultsOf(Target)
      PROVE  \/ failed \/ p \in caller.tooSmall
             \/ frames' = <<>> /\ I!How(caller.row, p) = "Local"
             \/ IsResult(returned'[p], Target, top.layer, p)
  <2>1. SUFFICES ASSUME ~failed, p \notin caller.tooSmall
                 PROVE  \/ frames' = <<>> /\ I!How(caller.row, p) = "Local"
                        \/ IsResult(returned'[p], Target, top.layer, p)
    OBVIOUS
  <2>2. p \in I!Parameters(row) /\ p \in NamesOfValues
    BY <1>5, PlacesOfParameters DEF I!ResultsOf, NamesOfValues
  <2>3. CASE I!How(row, p) = "Local"
    <3>1. top.layer = "Fortran"
      BY <1>5, <2>2, <2>3, Zenon DEF I!PassesOn
    <3> QED BY <1>6, <2>3, <3>1
  <2>4. CASE I!How(row, p) # "Local"
    <3>1. Result(p) = returned[p]
      BY <1>5, <2>2, PlaceInSignature
    <3> HIDE DEF names
    <3>2. IsResult(returned[p], Target, I!CalleeLayer(top.layer, row), p)
      BY <1>1, <1>3, <1>7, <2>1 DEF ResultsInv
    <3>3. returned'[p] = I!Translated(top.layer, I!How(row, p), returned[p])
      BY <1>2, <1>5, <2>1, <2>4, <3>1
    <3> QED BY <1>4, <2>2, <2>4, <3>2, <3>3, ResultIsPassed
  <2> QED BY <2>3, <2>4
<1>9. Target.status = "error" => error' = failed
  BY <1>1, <1>3, <1>5 DEF ResultsInv
<1>10. ResultsInv'
  BY <1>1, <1>6, <1>8, <1>9 DEF ResultsInv
<1> QED BY <1>1, <1>6, <1>10 DEF CallsInv

\* What has been kept on the way is what a caller is to rely on.
LEMMA CallsInvSuffices ==
  ASSUME CallsInv
  PROVE  I!CallsArrive
<1> DEFINE top == I!Last(frames)
           meant == I!MeantByCaller
<1>1. ASSUME CallerInv
      PROVE  /\ Target = I!Implemented(meant) /\ I!IsRow(meant)
             /\ Target.class = meant.calleeClass /\ Target.name = meant.name /\ Target.status = meant.status
             /\ I!ResultsOf(caller.row) = I!ResultsOf(Target) /\ I!InputsOf(Target) = I!InputsOf(meant)
             /\ \A p : I!How(Target, p) = I!How(meant, p) /\ (I!IsText(Target, p) <=> I!IsText(meant, p))
  <2>1. StandsFor(Target, caller.layer, caller.row) /\ caller.layer \in Layers
    BY <1>1 DEF StandsFor, CallerInv, Target, I!MeantByCaller, Layers
  <2>2. I!IsRow(I!Meant(caller.layer, caller.row)) /\ I!ResultsOf(caller.row) = I!ResultsOf(Target)
    BY <2>1, StandsForFits
  <2> QED BY <2>2, ImplementedIsAlike, Zenon DEF Target, I!MeantByCaller
<1>2. I!ArgumentsArrive
  <2> SUFFICES ASSUME I!Arrived
               PROVE  /\ top.row.class = meant.calleeClass /\ top.row.name = meant.name
                      /\ \A p \in I!InputsOf(meant) :
                           \/ top.arguments[p].of = "fixed" /\ I!LeftOut(caller.layer, meant, p)
                           \/ /\ top.arguments[p].of = p /\ top.arguments[p].base = 0
                              /\ top.arguments[p].form = IF I!IsText(meant, p) THEN "string" ELSE "plain"
    BY Zenon DEF I!ArgumentsArrive
  <2>1. phase = "down" /\ top.layer = "Implementation"
    BY DEF I!Arrived
  <2>2. CallerInv /\ StackInv /\ frames # <<>>
    BY <2>1 DEF CallsInv
  <2>3. top.row = Target /\ Len(frames) \in Nat \ {0} /\ top = frames[Len(frames)]
    BY <2>1, <2>2, TopOfStack DEF StandsFor
  <2>4. ArgumentsAreThose(top, Target, caller.layer)
    BY <2>1, <2>3 DEF CallsInv
  <2> HIDE DEF top, meant
  <2>5. ASSUME NEW p \in I!InputsOf(meant)
        PROVE  \/ top.arguments[p].of = "fixed" /\ I!LeftOut(caller.layer, meant, p)
               \/ /\ top.arguments[p].of = p /\ top.arguments[p].base = 0
                  /\ top.arguments[p].form = IF I!IsText(meant, p) THEN "string" ELSE "plain"
    <3>1. IsArgument(top.arguments[p], Target, caller.layer, "Implementation", p)
      BY <1>1, <2>1, <2>2, <2>4 DEF ArgumentsAreThose
    <3>2. I!LeftOut(caller.layer, Target, p) <=> I!LeftOut(caller.layer, meant, p)
      BY <1>1, <2>2 DEF I!LeftOut
    <3> QED BY <1>1, <2>2, <3>1, <3>2 DEF IsArgument, FormAt
  <2> QED BY <1>1, <2>2, <2>3, <2>5
<1>3. I!ResultsComeBack
  <2> SUFFICES ASSUME I!Back
               PROVE  /\ \A p \in I!ResultsOf(caller.row) :
                           \/ failed \/ p \in caller.tooSmall \/ I!How(caller.row, p) = "Local"
                           \/ returned[p] = I!Value(p, 0, IF I!IsText(meant, p) THEN I!FormOfText[caller.layer] ELSE "plain")
                           \/ I!MayBeWithoutText(p) /\ returned[p] \in {I!Null, I!Unset}
                      /\ meant.status = "error" => error = failed
    BY Zenon DEF I!ResultsComeBack
  <2>1. phase = "up" /\ frames = <<>>
    BY DEF I!Back
  <2>2. CallerInv /\ ResultsInv
    BY <2>1 DEF CallsInv
  <2>3. ReturnedLayer = caller.layer /\ caller.layer \in Layers
    BY <2>1, <2>2 DEF ReturnedLayer, CallerInv
  <2>4. I!FormOfText[caller.layer] = IF caller.layer = "Fortran" THEN "blanks"
                                     ELSE IF caller.layer = "C" THEN "null" ELSE "string"
    BY <2>3 DEF I!FormOfText, Layers
  <2> HIDE DEF meant
  <2>5. ASSUME NEW p \in I!ResultsOf(caller.row)
        PROVE  \/ failed \/ p \in caller.tooSmall \/ I!How(caller.row, p) = "Local"
               \/ returned[p] = I!Value(p, 0, IF I!IsText(meant, p) THEN I!FormOfText[caller.layer] ELSE "plain")
               \/ I!MayBeWithoutText(p) /\ returned[p] \in {I!Null, I!Unset}
    <3>1. \/ failed \/ p \in caller.tooSmall \/ I!How(caller.row, p) = "Local"
          \/ IsResult(returned[p], Target, caller.layer, p)
      BY <1>1, <2>2, <2>3 DEF ResultsInv
    <3>2. I!MayBeWithoutText(p) <=> I!How(Target, p) \in {"TextOrNull", "TextIfAny"}
      BY <1>1, <2>2 DEF I!MayBeWithoutText, meant
    <3>3. FormAt(Target, caller.layer, p) = IF I!IsText(meant, p) THEN I!FormOfText[caller.layer] ELSE "plain"
      BY <1>1, <2>2, <2>4 DEF FormAt
    <3> QED BY <3>1, <3>2, <3>3, Zenon DEF IsResult
  <2>6. meant.status = "error" => error = failed
    BY <1>1, <2>2 DEF ResultsInv
  <2> QED BY <2>5, <2>6
<1> QED BY <1>2, <1>3 DEF I!CallsArrive

LEMMA CallsUnchanged ==
  ASSUME CallsInv, UNCHANGED I!vars
  PROVE  CallsInv'
<1> QED BY DEF CallsInv, CallerInv, StackInv, ResultsInv, ReturnedLayer, Target, I!MeantByCaller, I!vars

LEMMA CallsStep ==
  ASSUME CallsInv, I!Next
  PROVE  CallsInv'
<1>1. CASE \E layer \in DOMAIN RowAt : \E class \in DOMAIN RowAt[layer] : \E name \in DOMAIN RowAt[layer][class] :
             I!Enter(layer, RowAt[layer][class][name])
  BY <1>1, EnterStep, Zenon
<1>2. CASE I!PassOn
  BY <1>2, PassOnStep
<1>3. CASE I!Implementation
  BY <1>3, ImplementationStep
<1>4. CASE I!Return
  BY <1>4, ReturnStep
<1> QED BY <1>1, <1>2, <1>3, <1>4, Zenon DEF I!Next

LEMMA InterfaceNext ==
  ASSUME subject = "Interface", [Next]_vars
  PROVE  subject' = "Interface" /\ (I!Next \/ UNCHANGED passage)
BY DEF Next, vars, passage

\* Whatever functions the layers have, as long as each fits to the one that it calls: a call
\* from Fortran, C or C++ gets to the function of the implementation that is meant, with every
\* argument in its place, counted and written as C++ expects it, and each result comes back
\* under its name, in the form of the caller's language (the functions of src/fortran/include,
\* src/c/src and src/cpp/src that pass calls on).
THEOREM Calls == Spec => []CallsArrive
<1> DEFINE Invariant == subject = "Interface" => CallsInv
<1>1. Init => Invariant
  <2>1. Init /\ subject = "Interface" => I!Init
    BY DEF Init
  <2>2. I!Init => CallsInv
    BY DEF I!Init, CallsInv
  <2> QED BY <2>1, <2>2
<1>2. Invariant /\ [Next]_vars => Invariant'
  <2>1. SUFFICES ASSUME Invariant, [Next]_vars, subject' = "Interface" PROVE CallsInv'
    OBVIOUS
  <2>2. subject = "Interface"
    BY <2>1 DEF Next, vars
  <2>3. CallsInv /\ (I!Next \/ UNCHANGED passage)
    BY <2>1, <2>2, InterfaceNext
  <2>4. CASE UNCHANGED passage
    BY <2>3, <2>4, CallsUnchanged DEF passage, I!vars
  <2> QED BY <2>3, <2>4, CallsStep
<1>3. Invariant => CallsArrive
  BY CallsInvSuffices DEF CallsArrive
<1> QED BY <1>1, <1>2, <1>3, PTL DEF Spec

-----------------------------------------------------------------------------
(* Versions. *)

\* A relation orders the elements of a set one after the other.
IsOrder(R, S) ==
  /\ \A a \in S : <<a, a>> \notin R
  /\ \A a, b, c \in S : <<a, b>> \in R /\ <<b, c>> \in R => <<a, c>> \in R
  /\ \A a, b \in S : a = b \/ <<a, b>> \in R \/ <<b, a>> \in R

\* Sequences are compared by the first place where they differ, or the shorter one comes first.
Differ(R, a, b, n) ==
  /\ n <= Len(b) /\ \A k \in 1 .. n - 1 : a[k] = b[k]
  /\ n = Len(a) + 1 \/ <<a[n], b[n]>> \in R
Comes(R, a, b) == \E n \in 1 .. Len(a) + 1 : Differ(R, a, b, n)
Lexicographic(R, S) == {p \in Seq(S) \X Seq(S) : Comes(R, p[1], p[2])}

LEMMA LexicographicIsTransitive ==
  ASSUME NEW S, NEW R, IsOrder(R, S), NEW a \in Seq(S), NEW b \in Seq(S), NEW c \in Seq(S),
         Comes(R, a, b), Comes(R, b, c)
  PROVE  Comes(R, a, c)
<1>1. PICK n \in 1 .. Len(a) + 1 : Differ(R, a, b, n)
  BY DEF Comes
<1>2. PICK m \in 1 .. Len(b) + 1 : Differ(R, b, c, m)
  BY DEF Comes
<1>3. Len(a) \in Nat /\ Len(b) \in Nat /\ Len(c) \in Nat
  OBVIOUS
<1>4. /\ \A k \in 1 .. Len(a) : a[k] \in S
      /\ \A k \in 1 .. Len(b) : b[k] \in S
      /\ \A k \in 1 .. Len(c) : c[k] \in S
  OBVIOUS
<1>5. n <= Len(b) /\ m <= Len(c) /\ n \in Nat /\ m \in Nat
  BY <1>1, <1>2, <1>3 DEF Differ
<1>6. CASE n < m
  <2>1. b[n] = c[n] /\ n <= Len(c)
    BY <1>2, <1>3, <1>5, <1>6 DEF Differ
  <2>2. \A k \in 1 .. n - 1 : a[k] = c[k]
    BY <1>1, <1>2, <1>3, <1>5, <1>6 DEF Differ
  <2>3. n = Len(a) + 1 \/ <<a[n], c[n]>> \in R
    BY <1>1, <2>1 DEF Differ
  <2> QED BY <2>1, <2>2, <2>3 DEF Comes, Differ
<1>7. CASE m < n
  <2>1. a[m] = b[m] /\ m \in 1 .. Len(a) + 1 /\ m # Len(b) + 1
    BY <1>1, <1>2, <1>3, <1>5, <1>7 DEF Differ
  <2>2. \A k \in 1 .. m - 1 : a[k] = c[k]
    BY <1>1, <1>2, <1>3, <1>5, <1>7 DEF Differ
  <2>3. <<a[m], c[m]>> \in R
    BY <1>2, <2>1 DEF Differ
  <2> QED BY <1>5, <2>1, <2>2, <2>3 DEF Comes, Differ
<1>8. CASE n = m
  <2>1. \A k \in 1 .. n - 1 : a[k] = c[k]
    BY <1>1, <1>2, <1>8 DEF Differ
  <2>2. n = Len(a) + 1 \/ <<a[n], c[n]>> \in R
    <3>1. SUFFICES ASSUME n # Len(a) + 1 PROVE <<a[n], c[n]>> \in R
      OBVIOUS
    <3>2. <<a[n], b[n]>> \in R /\ <<b[n], c[n]>> \in R
      BY <1>1, <1>2, <1>3, <1>5, <1>8, <3>1 DEF Differ
    <3>3. a[n] \in S /\ b[n] \in S /\ c[n] \in S
      BY <1>3, <1>4, <1>5, <1>8, <3>1
    <3> QED BY <3>2, <3>3, Zenon DEF IsOrder
  <2> QED BY <1>5, <1>8, <2>1, <2>2 DEF Comes, Differ
<1> QED BY <1>5, <1>6, <1>7, <1>8

LEMMA LexicographicIsTotal ==
  ASSUME NEW S, NEW R, IsOrder(R, S), NEW a \in Seq(S), NEW b \in Seq(S), a # b
  PROVE  Comes(R, a, b) \/ Comes(R, b, a)
<1> DEFINE Differing == {k \in Nat \ {0} : k <= Len(a) /\ k <= Len(b) /\ a[k] # b[k]}
<1>1. Len(a) \in Nat /\ Len(b) \in Nat
  OBVIOUS
<1>2. CASE Differing = {}
  <2>1. \A k \in 1 .. Len(a) : k <= Len(b) => a[k] = b[k]
    BY <1>1, <1>2
  <2>2. Len(a) # Len(b)
    <3>1. ASSUME Len(a) = Len(b) PROVE FALSE
      <4>1. \A k \in 1 .. Len(a) : a[k] = b[k]
        BY <1>1, <2>1, <3>1
      <4> QED BY <3>1, <4>1, SeqEqual
    <3> QED BY <3>1
  <2>3. CASE Len(a) < Len(b)
    <3> DEFINE n == Len(a) + 1
    <3>1. n \in 1 .. Len(a) + 1 /\ n <= Len(b) /\ \A k \in 1 .. n - 1 : a[k] = b[k]
      BY <1>1, <2>1, <2>3
    <3> QED BY <3>1 DEF Comes, Differ
  <2>4. CASE Len(b) < Len(a)
    <3> DEFINE n == Len(b) + 1
    <3>1. n \in 1 .. Len(b) + 1 /\ n <= Len(a) /\ \A k \in 1 .. n - 1 : b[k] = a[k]
      BY <1>1, <2>1, <2>4
    <3> QED BY <3>1 DEF Comes, Differ
  <2> QED BY <1>1, <2>2, <2>3, <2>4
<1>3. CASE Differing # {}
  <2>1. PICK n \in Differing : \A m \in Differing : n <= m
    BY <1>3, HasLeast
  <2>2. n \in Nat \ {0} /\ n <= Len(a) /\ n <= Len(b) /\ a[n] # b[n]
    OBVIOUS
  <2>3. \A k \in 1 .. n - 1 : a[k] = b[k]
    BY <1>1, <2>1, <2>2
  <2>4. a[n] \in S /\ b[n] \in S
    BY <2>2
  <2>5. <<a[n], b[n]>> \in R \/ <<b[n], a[n]>> \in R
    BY <2>2, <2>4, Zenon DEF IsOrder
  <2>6. n \in 1 .. Len(a) + 1 /\ n \in 1 .. Len(b) + 1
    BY <1>1, <2>2
  <2> QED BY <2>2, <2>3, <2>5, <2>6 DEF Comes, Differ
<1> QED BY <1>2, <1>3

LEMMA LexicographicIsOrder ==
  ASSUME NEW S, NEW R, IsOrder(R, S)
  PROVE  IsOrder(Lexicographic(R, S), Seq(S))
<1>1. ASSUME NEW a \in Seq(S) PROVE ~Comes(R, a, a)
  <2>1. SUFFICES ASSUME NEW n \in 1 .. Len(a) + 1, Differ(R, a, a, n) PROVE FALSE
    BY DEF Comes
  <2>2. n \in 1 .. Len(a) /\ <<a[n], a[n]>> \in R
    BY <2>1 DEF Differ
  <2>3. a[n] \in S
    BY <2>2
  <2> QED BY <2>2, <2>3 DEF IsOrder
<1>2. \A a, b \in Seq(S) : <<a, b>> \in Lexicographic(R, S) <=> Comes(R, a, b)
  BY DEF Lexicographic
<1>3. \A a, b, c \in Seq(S) : Comes(R, a, b) /\ Comes(R, b, c) => Comes(R, a, c)
  BY LexicographicIsTransitive
<1>4. \A a, b \in Seq(S) : a = b \/ Comes(R, a, b) \/ Comes(R, b, a)
  BY LexicographicIsTotal
<1> HIDE DEF Lexicographic
<1> QED BY <1>1, <1>2, <1>3, <1>4, Zenon DEF IsOrder

Alphabet == {V!AlphaNumerics[i] : i \in DOMAIN V!AlphaNumerics}
ByCode == {p \in Alphabet \X Alphabet : V!Rank(p[1]) < V!Rank(p[2])}
ByCharacters == Lexicographic(ByCode, Alphabet)
ByIdentifiers == Lexicographic(ByCharacters, Seq(Alphabet))

LEMMA CodesAreOrdered == IsOrder(ByCode, Alphabet)
<1>1. ASSUME NEW c \in Alphabet
      PROVE  V!Rank(c) \in Int /\ V!AlphaNumerics[V!Rank(c)] = c
  <2>1. \E i \in DOMAIN V!AlphaNumerics : V!AlphaNumerics[i] = c
    BY DEF Alphabet
  <2>2. V!Rank(c) \in DOMAIN V!AlphaNumerics /\ V!AlphaNumerics[V!Rank(c)] = c
    BY <2>1 DEF V!Rank
  <2>3. DOMAIN V!AlphaNumerics \subseteq Int
    BY DEF V!AlphaNumerics
  <2> QED BY <2>2, <2>3
<1>2. \A a \in Alphabet : <<a, a>> \notin ByCode
  BY <1>1 DEF ByCode
<1>3. \A a, b, c \in Alphabet : <<a, b>> \in ByCode /\ <<b, c>> \in ByCode => <<a, c>> \in ByCode
  BY <1>1 DEF ByCode
<1>4. \A a, b \in Alphabet : a = b \/ <<a, b>> \in ByCode \/ <<b, a>> \in ByCode
  BY <1>1 DEF ByCode
<1> QED BY <1>2, <1>3, <1>4 DEF IsOrder

LEMMA IdentifiersAreOrdered ==
  /\ IsOrder(ByCharacters, Seq(Alphabet))
  /\ IsOrder(ByIdentifiers, Seq(Seq(Alphabet)))
BY CodesAreOrdered, LexicographicIsOrder DEF ByCharacters, ByIdentifiers

\* What the code compares: pushed identifiers have no numbers among them.
IsIdentifiers(ids) ==
  /\ ids \in Seq(Seq(Alphabet))
  /\ \A n \in DOMAIN ids : V!IdentifierType(ids[n]) = "alphaNumeric"

LEMMA TextsAreCompared ==
  ASSUME NEW a \in Seq(Alphabet), NEW b \in Seq(Alphabet)
  PROVE  V!TextLess(a, b) <=> <<a, b>> \in ByCharacters
<1>1. \A n \in 1 .. Len(a) + 1 :
        n <= Len(b) => (n = Len(a) + 1 \/ V!Rank(a[n]) < V!Rank(b[n]) <=> n = Len(a) + 1 \/ <<a[n], b[n]>> \in ByCode)
  <2>1. ASSUME NEW n \in 1 .. Len(a) + 1, n <= Len(b), n # Len(a) + 1
        PROVE  V!Rank(a[n]) < V!Rank(b[n]) <=> <<a[n], b[n]>> \in ByCode
    <3>1. a[n] \in Alphabet /\ b[n] \in Alphabet
      BY <2>1
    <3> QED BY <3>1 DEF ByCode
  <2> QED BY <2>1
<1>2. <<a, b>> \in ByCharacters <=> Comes(ByCode, a, b)
  BY DEF ByCharacters, Lexicographic
<1>3. ASSUME NEW n \in 1 .. Len(a) + 1
      PROVE  Differ(ByCode, a, b, n) <=>
               /\ n <= Len(b) /\ \A k \in 1 .. n - 1 : a[k] = b[k]
               /\ n = Len(a) + 1 \/ V!Rank(a[n]) < V!Rank(b[n])
  BY <1>1, Zenon DEF Differ
<1> QED BY <1>2, <1>3, Zenon DEF Comes, V!TextLess

LEMMA SeriesAreCompared ==
  ASSUME NEW v, NEW w, IsIdentifiers(V!Pushed(v)), IsIdentifiers(V!Pushed(w))
  PROVE  V!IsPrereleaseLessThan(v, w) <=> <<V!Pushed(v), V!Pushed(w)>> \in ByIdentifiers
<1> DEFINE a == V!Pushed(v)
           b == V!Pushed(w)
           common == DOMAIN a \cap DOMAIN b
           ties(n) == ~V!IdentifierLess(a[n], b[n]) /\ ~V!IdentifierLess(b[n], a[n])
<1>1. /\ a \in Seq(Seq(Alphabet)) /\ b \in Seq(Seq(Alphabet))
      /\ Len(a) \in Nat /\ Len(b) \in Nat /\ DOMAIN a = 1 .. Len(a) /\ DOMAIN b = 1 .. Len(b)
      /\ \A n \in common : V!IdentifierType(a[n]) = "alphaNumeric" /\ V!IdentifierType(b[n]) = "alphaNumeric"
  BY DEF IsIdentifiers
<1>2. V!IsPrereleaseLessThan(v, w) <=>
        \/ \E n \in common : V!IdentifierLess(a[n], b[n]) /\ \A k \in 1 .. n - 1 : ties(k)
        \/ (\A n \in common : ties(n)) /\ Len(a) < Len(b)
  BY Zenon DEF V!IsPrereleaseLessThan
<1> HIDE DEF a, b
<1>3. ASSUME NEW n \in common
      PROVE  /\ V!IdentifierLess(a[n], b[n]) <=> <<a[n], b[n]>> \in ByCharacters
             /\ ties(n) <=> a[n] = b[n]
  <2>1. a[n] \in Seq(Alphabet) /\ b[n] \in Seq(Alphabet)
    BY <1>1
  <2>2. V!IdentifierLess(a[n], b[n]) <=> V!TextLess(a[n], b[n])
    BY <1>1 DEF V!IdentifierLess
  <2>3. V!IdentifierLess(b[n], a[n]) <=> V!TextLess(b[n], a[n])
    BY <1>1 DEF V!IdentifierLess
  <2>4. /\ V!IdentifierLess(a[n], b[n]) <=> <<a[n], b[n]>> \in ByCharacters
        /\ V!IdentifierLess(b[n], a[n]) <=> <<b[n], a[n]>> \in ByCharacters
    BY <2>1, <2>2, <2>3, TextsAreCompared, Zenon
  <2> QED BY <2>1, <2>4, IdentifiersAreOrdered, Zenon DEF IsOrder
<1>4. <<a, b>> \in ByIdentifiers <=> Comes(ByCharacters, a, b)
  BY <1>1 DEF ByIdentifiers, Lexicographic
<1>5. ASSUME NEW n \in common
      PROVE  Differ(ByCharacters, a, b, n) <=> V!IdentifierLess(a[n], b[n]) /\ \A k \in 1 .. n - 1 : ties(k)
  <2>1. n <= Len(b) /\ n # Len(a) + 1 /\ \A k \in 1 .. n - 1 : k \in common
    BY <1>1
  <2> HIDE DEF ties, common
  <2> QED BY <1>3, <1>5, <2>1 DEF Differ
<1>6. Differ(ByCharacters, a, b, Len(a) + 1) <=> (\A n \in common : ties(n)) /\ Len(a) < Len(b)
  <2>1. ASSUME Len(a) < Len(b) PROVE \A n : n \in common <=> n \in 1 .. (Len(a) + 1) - 1
    BY <1>1, <2>1
  <2>2. Len(a) + 1 <= Len(b) <=> Len(a) < Len(b)
    BY <1>1
  <2> HIDE DEF ties, common
  <2> QED BY <1>3, <2>1, <2>2 DEF Differ
<1>7. \A n \in 1 .. Len(a) + 1 : Differ(ByCharacters, a, b, n) => n \in common \/ n = Len(a) + 1
  BY <1>1 DEF Differ
<1>8. common \subseteq 1 .. Len(a) + 1 /\ Len(a) + 1 \in 1 .. Len(a) + 1
  BY <1>1
<1> HIDE DEF ties, common
<1>9. Comes(ByCharacters, a, b) <=>
        \/ \E n \in common : V!IdentifierLess(a[n], b[n]) /\ \A k \in 1 .. n - 1 : ties(k)
        \/ (\A n \in common : ties(n)) /\ Len(a) < Len(b)
  BY <1>5, <1>6, <1>7, <1>8, Zenon DEF Comes
<1> QED BY <1>2, <1>4, <1>9 DEF a, b, common, ties

\* Parts of versions
IsParts(parts) ==
  /\ parts.major \in Int /\ parts.minor \in Int /\ parts.patch \in Int
  /\ IsIdentifiers(V!Pushed(parts.prerelease))

\* A strict weak order: no two versions are each less than the other, and whatever lies
\* between the two that are compared is greater than the one or less than the other.
LEMMA PartsAreOrdered ==
  ASSUME NEW v, NEW w, NEW x, IsParts(v), IsParts(w), IsParts(x)
  PROVE  /\ ~(V!PartsLess(v, w) /\ V!PartsLess(w, v))
         /\ V!PartsLess(v, w) => V!PartsLess(v, x) \/ V!PartsLess(x, w)
<1> DEFINE p == V!Pushed(v.prerelease)
           q == V!Pushed(w.prerelease)
           r == V!Pushed(x.prerelease)
           Pre(s, t) == <<s, t>> \in ByIdentifiers
<1>1. /\ V!IsPrereleaseLessThan(v.prerelease, w.prerelease) <=> Pre(p, q)
      /\ V!IsPrereleaseLessThan(w.prerelease, v.prerelease) <=> Pre(q, p)
      /\ V!IsPrereleaseLessThan(v.prerelease, x.prerelease) <=> Pre(p, r)
      /\ V!IsPrereleaseLessThan(x.prerelease, w.prerelease) <=> Pre(r, q)
  BY SeriesAreCompared, Zenon DEF IsParts
<1>2. /\ ~(Pre(p, q) /\ Pre(q, p))
      /\ Pre(p, q) => Pre(p, r) \/ Pre(r, q)
  <2>1. p \in Seq(Seq(Alphabet)) /\ q \in Seq(Seq(Alphabet)) /\ r \in Seq(Seq(Alphabet))
    BY DEF IsParts, IsIdentifiers
  <2> HIDE DEF p, q, r
  <2> QED BY <2>1, IdentifiersAreOrdered, Zenon DEF IsOrder
<1>3. /\ v.major \in Int /\ v.minor \in Int /\ v.patch \in Int
      /\ w.major \in Int /\ w.minor \in Int /\ w.patch \in Int
      /\ x.major \in Int /\ x.minor \in Int /\ x.patch \in Int
  BY DEF IsParts
<1> HIDE DEF p, q, r, Pre
<1> QED BY <1>1, <1>2, <1>3, SMTT(30) DEF V!PartsLess

VersionLess(v, w) == V!IsLessThan(V!Text(v), V!Text(w))

LEMMA VersionsAreOrdered ==
  ASSUME NEW v \in Versions, NEW w \in Versions, NEW x \in Versions
  PROVE  /\ ~(VersionLess(v, w) /\ VersionLess(w, v))
         /\ VersionLess(v, w) => VersionLess(v, x) \/ VersionLess(x, w)
<1>1. \A u \in Versions : IsParts(V!Parts(V!Text(u)))
  BY ComponentsAssumption DEF V!VersionsAssumption, IsParts, IsIdentifiers, Alphabet
<1> QED BY <1>1, PartsAreOrdered, Zenon DEF VersionLess, V!IsLessThan

SortedInv ==
  /\ sorted \in Seq(Versions)
  /\ \A i, j \in 1 .. Len(sorted) : i < j => ~VersionLess(sorted[j], sorted[i])

\* A new version goes before the last ones that it is less than.
LEMMA PlaceOfInsertion ==
  ASSUME sorted \in Seq(Versions), NEW v \in Versions
  PROVE  LET greater == {i \in DOMAIN sorted : \A j \in i .. Len(sorted) : VersionLess(v, sorted[j])}
             place == Len(sorted) + 1 - V!Cardinality(greater)
         IN  /\ place \in 1 .. Len(sorted) + 1
             /\ \A j \in place .. Len(sorted) : VersionLess(v, sorted[j])
             /\ place > 1 => ~VersionLess(v, sorted[place - 1])
<1> DEFINE n == Len(sorted)
           greater == {i \in DOMAIN sorted : \A j \in i .. n : VersionLess(v, sorted[j])}
           place == n + 1 - V!Cardinality(greater)
<1>1. n \in Nat /\ DOMAIN sorted = 1 .. n
  OBVIOUS
<1>2. greater \subseteq Nat /\ greater \subseteq 1 .. n
  BY <1>1
<1>3. V!Cardinality(greater) = Cardinality(greater)
  BY DEF V!Cardinality, Cardinality
<1>4. PICK m \in 1 .. n + 1 : greater = m .. n
  <2>1. CASE greater = {}
    <3>1. greater = (n + 1) .. n /\ n + 1 \in 1 .. n + 1
      BY <1>1, <2>1
    <3> QED BY <3>1
  <2>2. CASE greater # {}
    <3> HIDE DEF greater
    <3>1. PICK m \in greater : \A k \in greater : m <= k
      BY <1>2, <2>2, HasLeast
    <3>2. m \in 1 .. n /\ \A j \in m .. n : VersionLess(v, sorted[j])
      BY <1>1, <3>1 DEF greater
    <3>3. \A k \in m .. n : k \in greater
      <4> TAKE k \in m .. n
      <4>1. k \in 1 .. n /\ \A j \in k .. n : j \in m .. n
        BY <1>1, <3>2
      <4> QED BY <1>1, <3>2, <4>1 DEF greater
    <3>4. greater = m .. n
      <4>1. ASSUME NEW k \in greater PROVE k \in m .. n
        <5>1. k \in 1 .. n /\ m <= k /\ m \in 1 .. n
          BY <1>2, <3>1, <3>2
        <5> HIDE DEF n
        <5> QED BY <1>1, <5>1
      <4> QED BY <3>3, <4>1
    <3> QED BY <1>1, <3>2, <3>4
  <2> QED BY <2>1, <2>2
<1>5. place = m
  <2>1. Cardinality(m .. n) = IF m > n THEN 0 ELSE n - m + 1
    <3>1. m \in Int /\ n \in Int
      BY <1>1
    <3> HIDE DEF n
    <3> QED BY <3>1, FS_Interval, Zenon
  <2> HIDE DEF greater
  <2> QED BY <1>1, <1>3, <1>4, <2>1
<1>6. \A j \in m .. n : VersionLess(v, sorted[j])
  <2> TAKE j \in m .. n
  <2>1. j \in greater /\ j \in j .. n
    BY <1>1, <1>4
  <2> QED BY <2>1
<1>7. ASSUME m > 1 PROVE ~VersionLess(v, sorted[m - 1])
  <2>1. SUFFICES ASSUME VersionLess(v, sorted[m - 1]) PROVE FALSE
    OBVIOUS
  <2>2. m - 1 \in DOMAIN sorted /\ \A j \in m - 1 .. n : j = m - 1 \/ j \in m .. n
    BY <1>1, <1>7
  <2>3. m - 1 \in greater
    BY <1>6, <2>1, <2>2
  <2> HIDE DEF greater
  <2> QED BY <1>1, <1>4, <2>3
<1> QED BY <1>4, <1>5, <1>6, <1>7

\* What the list is after an insertion
LEMMA Inserted ==
  ASSUME sorted \in Seq(Versions), NEW v \in Versions, NEW place \in 1 .. Len(sorted) + 1,
         sorted' = V!InsertAt(sorted, place, v)
  PROVE  /\ sorted' \in Seq(Versions) /\ Len(sorted') = Len(sorted) + 1
         /\ \A i \in 1 .. place - 1 : sorted'[i] = sorted[i]
         /\ sorted'[place] = v
         /\ \A i \in place + 1 .. Len(sorted) + 1 : sorted'[i] = sorted[i - 1]
<1> DEFINE n == Len(sorted)
           front == SubSeq(sorted, 1, place - 1)
           back == SubSeq(sorted, place, n)
<1>1. n \in Nat /\ place \in Nat
  OBVIOUS
<1>2. front \in Seq(Versions) /\ Len(front) = place - 1 /\ \A i \in 1 .. place - 1 : front[i] = sorted[i]
  <2>1. 1 \in 1 .. n + 1 /\ place - 1 \in 1 - 1 .. n /\ place - 1 \in 0 .. n
    BY <1>1
  <2>2. /\ front \in Seq(Versions)
        /\ Len(front) = IF 1 <= place - 1 THEN (place - 1) - 1 + 1 ELSE 0
        /\ \A i \in 1 .. (place - 1) - 1 + 1 : front[i] = sorted[1 + i - 1]
    BY <2>1, SubSeqProperties
  <2> HIDE DEF front
  <2> QED BY <1>1, <2>2
<1>3. back \in Seq(Versions) /\ Len(back) = n - place + 1 /\ \A i \in 1 .. n - place + 1 : back[i] = sorted[place + i - 1]
  <2>1. place \in 1 .. n + 1 /\ n \in place - 1 .. n
    BY <1>1
  <2>2. /\ back \in Seq(Versions)
        /\ Len(back) = IF place <= n THEN n - place + 1 ELSE 0
        /\ \A i \in 1 .. n - place + 1 : back[i] = sorted[place + i - 1]
    BY <2>1, SubSeqProperties
  <2> HIDE DEF back
  <2> QED BY <1>1, <2>2
<1>4. sorted' = front \o <<v>> \o back
  BY DEF V!InsertAt
<1> HIDE DEF front, back
<1> DEFINE start == front \o <<v>>
<1>5. /\ start \in Seq(Versions) /\ Len(start) = place
      /\ \A i \in 1 .. place - 1 : start[i] = sorted[i]
      /\ start[place] = v
  BY <1>1, <1>2
<1>6. sorted' = start \o back
  BY <1>4
<1> HIDE DEF start, n
<1> DEFINE list == start \o back
<1>7. /\ list \in Seq(Versions) /\ Len(list) = Len(start) + Len(back)
      /\ \A i \in 1 .. Len(start) + Len(back) : list[i] = IF i <= Len(start) THEN start[i] ELSE back[i - Len(start)]
  BY <1>3, <1>5, ConcatProperties
<1> HIDE DEF list
<1>8. /\ list \in Seq(Versions) /\ Len(list) = n + 1 /\ sorted' = list
      /\ \A i \in 1 .. place : list[i] = start[i]
  BY <1>1, <1>3, <1>5, <1>6, <1>7 DEF list
<1>9. ASSUME NEW i \in place + 1 .. n + 1 PROVE sorted'[i] = sorted[i - 1]
  <2>1. i - place \in 1 .. n - place + 1 /\ i \in 1 .. Len(start) + Len(back) /\ i > Len(start)
    BY <1>1, <1>3, <1>5
  <2>2. sorted'[i] = back[i - place]
    BY <1>5, <1>7, <1>8, <2>1
  <2>3. place + (i - place) - 1 = i - 1
    BY <1>1
  <2> QED BY <1>3, <2>1, <2>2, <2>3
<1>10. \A i \in 1 .. place - 1 : i \in 1 .. place
  BY <1>1
<1> QED BY <1>1, <1>5, <1>8, <1>9, <1>10 DEF n

LEMMA InsertStep ==
  ASSUME SortedInv, NEW v \in Versions, V!Insert(v)
  PROVE  SortedInv'
<1> DEFINE n == Len(sorted)
           greater == {i \in DOMAIN sorted : \A j \in i .. Len(sorted) : VersionLess(v, sorted[j])}
           place == Len(sorted) + 1 - V!Cardinality(greater)
<1>1. sorted' = V!InsertAt(sorted, place, v)
  BY Zenon DEF V!Insert, VersionLess
<1>2. sorted \in Seq(Versions) /\ n \in Nat /\ \A i \in 1 .. n : sorted[i] \in Versions
  BY DEF SortedInv
<1>3. /\ place \in 1 .. n + 1
      /\ \A j \in place .. n : VersionLess(v, sorted[j])
      /\ place > 1 => ~VersionLess(v, sorted[place - 1])
  BY <1>2, PlaceOfInsertion
<1> HIDE DEF place
<1>4. /\ sorted' \in Seq(Versions) /\ Len(sorted') = n + 1
      /\ \A i \in 1 .. place - 1 : sorted'[i] = sorted[i]
      /\ sorted'[place] = v
      /\ \A i \in place + 1 .. n + 1 : sorted'[i] = sorted[i - 1]
  BY <1>1, <1>2, <1>3, Inserted
<1>5. \A i, j \in 1 .. n : i < j => ~VersionLess(sorted[j], sorted[i])
  BY DEF SortedInv
<1> HIDE DEF n
<1>6. ASSUME NEW i \in 1 .. place - 1 PROVE ~VersionLess(v, sorted[i])
  <2>1. place > 1 /\ place - 1 \in 1 .. n /\ i \in 1 .. n
    BY <1>2, <1>3
  <2>2. CASE i = place - 1
    BY <1>3, <2>1, <2>2
  <2>3. CASE i < place - 1
    <3>1. ~VersionLess(sorted[place - 1], sorted[i]) /\ ~VersionLess(v, sorted[place - 1])
      BY <1>3, <1>5, <2>1, <2>3
    <3>2. sorted[i] \in Versions /\ sorted[place - 1] \in Versions
      BY <1>2, <2>1
    <3> QED BY <3>1, <3>2, VersionsAreOrdered, Zenon
  <2> QED BY <1>2, <1>3, <2>2, <2>3
<1>7. ASSUME NEW j \in place .. n PROVE ~VersionLess(sorted[j], v)
  <2>1. VersionLess(v, sorted[j]) /\ sorted[j] \in Versions
    BY <1>2, <1>3
  <2> QED BY <2>1, VersionsAreOrdered, Zenon
<1>8. ASSUME NEW i \in 1 .. n + 1, NEW j \in 1 .. n + 1, i < j
      PROVE  ~VersionLess(sorted'[j], sorted'[i])
  <2>1. CASE j < place
    <3>1. i \in 1 .. n /\ j \in 1 .. n /\ sorted'[i] = sorted[i] /\ sorted'[j] = sorted[j]
      BY <1>2, <1>3, <1>4, <1>8, <2>1
    <3> QED BY <1>5, <1>8, <3>1
  <2>2. CASE j = place
    <3>1. i \in 1 .. place - 1 /\ sorted'[i] = sorted[i] /\ sorted'[j] = v
      BY <1>2, <1>3, <1>4, <1>8, <2>2
    <3> QED BY <1>6, <3>1
  <2>3. CASE j > place /\ i < place
    <3>1. /\ i \in 1 .. n /\ j - 1 \in 1 .. n
          /\ sorted'[i] = sorted[i] /\ sorted'[j] = sorted[j - 1]
      BY <1>2, <1>3, <1>4, <1>8, <2>3
    <3>2. i < j - 1 /\ sorted'[i] = sorted[i] /\ sorted'[j] = sorted[j - 1]
      BY <1>2, <1>3, <1>4, <1>8, <2>3
    <3> QED BY <1>5, <3>1, <3>2
  <2>4. CASE j > place /\ i = place
    <3>1. j - 1 \in place .. n /\ sorted'[i] = v /\ sorted'[j] = sorted[j - 1]
      BY <1>2, <1>3, <1>4, <2>4
    <3> QED BY <1>7, <3>1
  <2>5. CASE j > place /\ i > place
    <3>1. /\ i - 1 \in 1 .. n /\ j - 1 \in 1 .. n /\ i - 1 < j - 1
          /\ sorted'[i] = sorted[i - 1] /\ sorted'[j] = sorted[j - 1]
      <4>1. i \in place + 1 .. n + 1 /\ j \in place + 1 .. n + 1
        BY <1>2, <1>3, <2>5
      <4>2. i - 1 \in 1 .. n /\ j - 1 \in 1 .. n /\ i - 1 < j - 1
        BY <1>2, <1>3, <1>8, <4>1
      <4> QED BY <1>4, <4>1, <4>2
    <3> QED BY <1>5, <3>1
  <2> QED BY <1>2, <1>3, <1>8, <2>1, <2>2, <2>3, <2>4, <2>5
<1>9. \A i, j \in 1 .. Len(sorted') : i < j => ~VersionLess(sorted'[j], sorted'[i])
  BY <1>4, <1>8
<1> QED BY <1>4, <1>9 DEF SortedInv, VersionLess

LEMMA SortedSuffices ==
  ASSUME SortedInv
  PROVE  V!ListIsSorted
<1>1. sorted \in Seq(Versions) /\ Len(sorted) \in Nat /\ DOMAIN sorted = 1 .. Len(sorted)
  BY DEF SortedInv
<1>2. SUFFICES ASSUME NEW i \in DOMAIN sorted, NEW j \in DOMAIN sorted, i < j
               PROVE  /\ ~VersionLess(sorted[j], sorted[i])
                      /\ ~VersionLess(sorted[i], sorted[j]) => \A k \in i .. j : ~VersionLess(sorted[i], sorted[k])
  BY Zenon DEF V!ListIsSorted, VersionLess
<1>3. ~VersionLess(sorted[j], sorted[i])
  BY <1>1, <1>2 DEF SortedInv
<1>4. ASSUME ~VersionLess(sorted[i], sorted[j]), NEW k \in i .. j PROVE ~VersionLess(sorted[i], sorted[k])
  <2>1. k \in 1 .. Len(sorted) /\ sorted[i] \in Versions /\ sorted[j] \in Versions /\ sorted[k] \in Versions
    BY <1>1
  <2>2. k < j \/ k = j
    BY <1>1
  <2>3. CASE k = j
    BY <1>4, <2>3
  <2>4. CASE k < j
    <3>1. ~VersionLess(sorted[j], sorted[k])
      BY <1>1, <2>1, <2>4 DEF SortedInv
    <3> QED BY <1>4, <2>1, <3>1, VersionsAreOrdered, Zenon
  <2> QED BY <2>2, <2>3, <2>4
<1> QED BY <1>3, <1>4

LEMMA VersionsNext ==
  ASSUME subject = "SemVer", [Next]_vars
  PROVE  subject' = "SemVer" /\ (V!Next \/ UNCHANGED versions)
BY DEF Next, vars, versions

\* For all versions: a list that is kept in order by comparing each new version with the last
\* ones is in order throughout, also if IsLessThan takes some of its versions for equal
\* (IsLessThan in KIM_SemVer.cpp is a strict weak order).
THEOREM SortedVersions == Spec => [](subject = "SemVer" => V!ListIsSorted)
<1> DEFINE Invariant == subject = "SemVer" => SortedInv
<1>1. Init => Invariant
  <2>1. Init /\ subject = "SemVer" => sorted = <<>>
    BY DEF Init, V!Init
  <2> QED BY <2>1 DEF SortedInv
<1>2. Invariant /\ [Next]_vars => Invariant'
  <2>1. SUFFICES ASSUME Invariant, [Next]_vars, subject' = "SemVer" PROVE SortedInv'
    OBVIOUS
  <2>2. subject = "SemVer"
    BY <2>1 DEF Next, vars
  <2>3. SortedInv /\ (V!Next \/ UNCHANGED versions)
    BY <2>1, <2>2, VersionsNext
  <2>4. ASSUME UNCHANGED sorted PROVE SortedInv'
    BY <2>3, <2>4 DEF SortedInv
  <2>5. ASSUME NEW v \in Versions, V!Insert(v) PROVE SortedInv'
    BY <2>3, <2>5, InsertStep
  <2>6. ASSUME NEW text, V!ParseSemVer(text) PROVE UNCHANGED sorted
    BY <2>6 DEF V!ParseSemVer
  <2>7. UNCHANGED versions => UNCHANGED sorted
    BY DEF versions
  <2> QED BY <2>3, <2>4, <2>5, <2>6, <2>7, Zenon DEF V!Next
<1>3. Invariant => (subject = "SemVer" => V!ListIsSorted)
  BY SortedSuffices
<1> QED BY <1>1, <1>2, <1>3, PTL DEF Spec

-----------------------------------------------------------------------------
(* Threads that compute on one model. *)

\* The terms of a particle whose list is given, and those of the particles before one
ParticleTerms(c, i) == {<<i, j, L2!DEidrByR(c, i, j)>> : j \in L2!PairsOf(c, i, L2!NeighborList(c, i))}
TermsBelow(c, m) == UNION {ParticleTerms(c, i) : i \in {k \in 0 .. m - 1 : c.contributing[k]}}

\* A thread that no other has overtaken with another number of particles finds its own number
\* in the model, and has the terms of the particles before ii whose lists it got.
ThreadInv(t) ==
  /\ config[t] \in ConfigurationsTogether[t]
  /\ pc[t] \in {"idle", "initialize", "loop", "pairs", "done", "error", "outside"}
  /\ pc[t] = "outside" => t \in overwritten
  /\ pc[t] \in {"idle", "initialize"} => terms[t] = {}
  /\ pc[t] \in {"loop", "pairs"} => ii[t] \in 0 .. config[t].n
  /\ pc[t] = "pairs" => ii[t] < config[t].n /\ config[t].contributing[ii[t]]
  /\ pc[t] = "pairs" /\ ii[t] \notin unlisted[t] => neighbors[t] = L2!NeighborList(config[t], ii[t])
  /\ t \notin overwritten =>
       /\ L2!IsComputing(t) => cachedNumberOfParticles = config[t].n
       /\ pc[t] \in {"loop", "pairs"} /\ "dEdr" \in flags[t] =>
            L2!Listed(t, terms[t]) = L2!Listed(t, TermsBelow(config[t], ii[t]))
       /\ pc[t] = "done" /\ "dEdr" \in flags[t] =>
            L2!Listed(t, terms[t]) = L2!Listed(t, TermsBelow(config[t], config[t].n))

ThreadsInv ==
  /\ DOMAIN pc = Threads /\ DOMAIN ii = Threads /\ DOMAIN flags = Threads
  /\ DOMAIN terms = Threads /\ DOMAIN neighbors = Threads /\ DOMAIN unlisted = Threads
  /\ \A t \in Threads : ThreadInv(t)

LEMMA ConfigurationsAre ==
  ASSUME NEW t \in Threads, NEW c \in ConfigurationsTogether[t]
  PROVE  L2!IsConfiguration(c) /\ c.n \in Nat
BY ComponentsAssumption DEF L2!ConfigurationsAssumption, L2!IsConfiguration

LEMMA AllNeighborsAreSeen ==
  ASSUME NEW t \in Threads, NEW c \in ConfigurationsTogether[t]
  PROVE  TermsBelow(c, c.n) = L2!TermsOf(c)
<1>1. /\ c.n \in Nat /\ c.x \in [0 .. c.n - 1 -> Int] /\ c.species \in [0 .. c.n - 1 -> Species]
  BY ConfigurationsAre DEF L2!IsConfiguration
<1>2. \A s, u \in Species : CutoffSq[s][u] \in Nat /\ CutoffSq[s][u] <= L2!InfluenceSq /\ L2!InfluenceSq \in Nat
  <2> DEFINE Cutoffs == {CutoffSq[s][u] : s, u \in Species}
  <2>1. \E m \in Cutoffs : \A s, u \in Species : CutoffSq[s][u] <= m
    <3>1. PICK s \in Species, u \in Species : \A q, v \in Species : CutoffSq[q][v] <= CutoffSq[s][u]
      BY ComponentsAssumption, Zenon DEF L2!CutoffsAssumption
    <3>2. CutoffSq[s][u] \in Cutoffs
      OBVIOUS
    <3> HIDE DEF Cutoffs
    <3> QED BY <3>1, <3>2, Zenon
  <2>2. L2!InfluenceSq \in Cutoffs /\ \A s, u \in Species : CutoffSq[s][u] <= L2!InfluenceSq
    <3>1. L2!InfluenceSq = CHOOSE m \in Cutoffs : \A s, u \in Species : CutoffSq[s][u] <= m
      BY DEF L2!InfluenceSq
    <3> HIDE DEF Cutoffs
    <3> QED BY <2>1, <3>1, Zenon
  <2> QED BY <2>2, ComponentsAssumption DEF L2!CutoffsAssumption
<1>3. \A i, j \in 0 .. c.n - 1 : L2!IsWithin(c, i, j) => L2!R2(c, i, j) <= L2!InfluenceSq
  <2> TAKE i, j \in 0 .. c.n - 1
  <2>1. c.species[i] \in Species /\ c.species[j] \in Species
    BY <1>1
  <2>2. L2!R2(c, i, j) \in Int
    BY <1>1 DEF L2!R2
  <2> QED BY <1>2, <2>1, <2>2 DEF L2!IsWithin
<1>4. \A i, j : i \in 0 .. c.n - 1 /\ c.contributing[i] /\ j \in L2!PairsOf(c, i, L2!NeighborList(c, i))
                <=> <<i, j>> \in L2!OrderedPairs(c) /\ ~(c.contributing[j] /\ j < i)
  BY <1>3 DEF L2!PairsOf, L2!NeighborList, L2!Particles, L2!OrderedPairs, L2!IsComputed
<1>5. \A z : z \in TermsBelow(c, c.n) <=>
              \E i, j : i \in 0 .. c.n - 1 /\ c.contributing[i] /\ j \in L2!PairsOf(c, i, L2!NeighborList(c, i))
                        /\ z = <<i, j, L2!DEidrByR(c, i, j)>>
  <2>1. \A z : z \in TermsBelow(c, c.n) <=>
                \E i : i \in 0 .. c.n - 1 /\ c.contributing[i] /\ z \in ParticleTerms(c, i)
    BY DEF TermsBelow
  <2>2. \A z, i : z \in ParticleTerms(c, i) <=> \E j : j \in L2!PairsOf(c, i, L2!NeighborList(c, i)) /\ z = <<i, j, L2!DEidrByR(c, i, j)>>
    BY DEF ParticleTerms
  <2>3. ASSUME NEW z, z \in TermsBelow(c, c.n)
        PROVE  \E i, j : i \in 0 .. c.n - 1 /\ c.contributing[i] /\ j \in L2!PairsOf(c, i, L2!NeighborList(c, i))
                         /\ z = <<i, j, L2!DEidrByR(c, i, j)>>
    <3>1. PICK i : i \in 0 .. c.n - 1 /\ c.contributing[i] /\ z \in ParticleTerms(c, i)
      BY <2>1, <2>3
    <3>2. PICK j : j \in L2!PairsOf(c, i, L2!NeighborList(c, i)) /\ z = <<i, j, L2!DEidrByR(c, i, j)>>
      BY <2>2, <3>1
    <3> QED BY <3>1, <3>2
  <2>4. ASSUME NEW z, NEW i, NEW j, i \in 0 .. c.n - 1, c.contributing[i], j \in L2!PairsOf(c, i, L2!NeighborList(c, i)),
               z = <<i, j, L2!DEidrByR(c, i, j)>>
        PROVE  z \in TermsBelow(c, c.n)
    <3>1. z \in ParticleTerms(c, i)
      BY <2>2, <2>4
    <3> QED BY <2>1, <2>4, <3>1
  <2> QED BY <2>3, <2>4, Zenon
<1>6. \A z : z \in L2!TermsOf(c) <=>
              \E i, j : <<i, j>> \in L2!OrderedPairs(c) /\ ~(c.contributing[j] /\ j < i)
                        /\ z = <<i, j, L2!DEidrByR(c, i, j)>>
  <2>1. \A q \in L2!OrderedPairs(c) : q = <<q[1], q[2]>>
    BY DEF L2!OrderedPairs
  <2> QED BY <2>1 DEF L2!TermsOf
<1> QED BY <1>4, <1>5, <1>6, Zenon

LEMMA TermsOfNext ==
  ASSUME NEW c, NEW i \in Nat
  PROVE  TermsBelow(c, i + 1) = TermsBelow(c, i) \cup IF c.contributing[i] THEN ParticleTerms(c, i) ELSE {}
<1>1. 0 .. (i + 1) - 1 = (0 .. i - 1) \cup {i}
  OBVIOUS
<1> QED BY <1>1 DEF TermsBelow

\* What a step leaves to other threads
LEMMA OtherThreads ==
  ASSUME NEW t \in Threads, ThreadInv(t), config' = config,
         pc'[t] = pc[t], ii'[t] = ii[t], flags'[t] = flags[t], terms'[t] = terms[t],
         neighbors'[t] = neighbors[t], unlisted'[t] = unlisted[t],
         t \in overwritten => t \in overwritten',
         t \notin overwritten' /\ L2!IsComputing(t) => cachedNumberOfParticles' \in {cachedNumberOfParticles, config[t].n}
  PROVE  ThreadInv(t)'
BY DEF ThreadInv, TermsBelow, ParticleTerms, L2!IsComputing, L2!Listed

LEMMA ThreadsStep ==
  ASSUME ThreadsInv, NEW s \in Threads,
         \/ L2!SetComputeMutableValues(s) \/ L2!Initialize(s) \/ L2!ReadOutside(s) \/ L2!SkipParticle(s)
         \/ L2!GetNeighborList(s) \/ L2!ComputeParticle(s) \/ L2!CallbackFails(s) \/ L2!Return(s)
  PROVE  ThreadsInv'
<1> DEFINE c == config[s]
           i == ii[s]
<1>1. /\ DOMAIN pc = Threads /\ DOMAIN ii = Threads /\ DOMAIN flags = Threads
      /\ DOMAIN terms = Threads /\ DOMAIN neighbors = Threads /\ DOMAIN unlisted = Threads
      /\ \A t \in Threads : ThreadInv(t) /\ config[t].n \in Nat
  BY ConfigurationsAre DEF ThreadsInv, ThreadInv
<1>2. config' = config
  BY DEF L2!SetComputeMutableValues, L2!Initialize, L2!ReadOutside, L2!SkipParticle, L2!GetNeighborList,
         L2!ComputeParticle, L2!CallbackFails, L2!Return, L2!arguments
<1>3. CASE L2!SetComputeMutableValues(s)
  <2>1. /\ pc[s] = "idle" /\ cachedNumberOfParticles' = c.n /\ UNCHANGED <<ii, neighbors, terms, unlisted>>
        /\ overwritten' = overwritten \cup {u \in Threads : L2!IsComputing(u) /\ config[u].n # c.n}
        /\ DOMAIN flags' = Threads /\ \A t \in Threads \ {s} : flags'[t] = flags[t]
        /\ pc' = [pc EXCEPT ![s] = IF flags'[s] \subseteq {"shift"} THEN "done" ELSE "initialize"]
    BY <1>1, <1>3 DEF L2!SetComputeMutableValues, L2!Goto, L2!outputs
  <2>2. ThreadInv(s)'
    <3>1. pc'[s] \in {"done", "initialize"} /\ (pc'[s] = "done" => "dEdr" \notin flags'[s])
      BY <1>1, <2>1
    <3>2. terms'[s] = {}
      BY <1>1, <2>1 DEF ThreadInv
    <3> QED BY <1>1, <1>2, <2>1, <3>1, <3>2 DEF ThreadInv
  <2>3. ASSUME NEW t \in Threads \ {s} PROVE ThreadInv(t)'
    BY <1>1, <1>2, <2>1, OtherThreads
  <2> QED BY <1>1, <2>1, <2>2, <2>3 DEF ThreadsInv
\* The other steps leave the number and what is overwritten.
<1>4. \/ L2!Initialize(s) \/ L2!ReadOutside(s) \/ L2!SkipParticle(s) \/ L2!GetNeighborList(s)
      \/ L2!ComputeParticle(s) \/ L2!CallbackFails(s) \/ L2!Return(s)
      => UNCHANGED <<cachedNumberOfParticles, flags, overwritten>>
  BY DEF L2!Initialize, L2!ReadOutside, L2!SkipParticle, L2!GetNeighborList,
         L2!ComputeParticle, L2!CallbackFails, L2!Return
<1>5. ASSUME UNCHANGED <<cachedNumberOfParticles, flags, overwritten>>, DOMAIN pc' = Threads, DOMAIN ii' = Threads,
             DOMAIN terms' = Threads, DOMAIN neighbors' = Threads, DOMAIN unlisted' = Threads,
             \A t \in Threads \ {s} : /\ pc'[t] = pc[t] /\ ii'[t] = ii[t] /\ terms'[t] = terms[t]
                                      /\ neighbors'[t] = neighbors[t] /\ unlisted'[t] = unlisted[t],
             ThreadInv(s)'
      PROVE  ThreadsInv'
  <2>1. ASSUME NEW t \in Threads \ {s} PROVE ThreadInv(t)'
    BY <1>1, <1>2, <1>5, OtherThreads
  <2> QED BY <1>1, <1>5, <2>1 DEF ThreadsInv
<1>6. CASE L2!Initialize(s)
  <2>1. /\ pc[s] = "initialize" /\ UNCHANGED <<terms, unlisted>>
        /\ ii' = [ii EXCEPT ![s] = 0] /\ neighbors' = [neighbors EXCEPT ![s] = {}]
        /\ \/ pc' = [pc EXCEPT ![s] = "loop"]
           \/ pc' = [pc EXCEPT ![s] = "outside"] /\ cachedNumberOfParticles > c.n
    BY <1>6 DEF L2!Initialize, L2!Goto, L2!outputs
  <2>2. ii'[s] = 0 /\ terms'[s] = {} /\ TermsBelow(c, 0) = {}
    <3>1. ii'[s] = 0 /\ terms'[s] = {}
      BY <1>1, <2>1 DEF ThreadInv
    <3>2. TermsBelow(c, 0) = {}
      BY DEF TermsBelow
    <3> QED BY <3>1, <3>2
  <2>3. s \notin overwritten => cachedNumberOfParticles = c.n
    BY <1>1, <2>1 DEF ThreadInv, L2!IsComputing
  <2>4. pc'[s] \in {"loop", "outside"} /\ (pc'[s] = "outside" => s \in overwritten)
    BY <1>1, <2>1, <2>3
  <2>5. ThreadInv(s)'
    <3>1. ii'[s] \in 0 .. c.n /\ TermsBelow(c, ii'[s]) = terms'[s]
      BY <1>1, <2>2
    <3>2. TermsBelow(c, ii[s])' = TermsBelow(c, ii'[s])
      BY <1>2 DEF TermsBelow, ParticleTerms
    <3> QED BY <1>1, <1>2, <1>4, <1>6, <2>1, <2>3, <2>4, <3>1, <3>2 DEF ThreadInv, L2!Listed
  <2> QED BY <1>1, <1>4, <1>5, <1>6, <2>1, <2>5
<1>7. CASE L2!ReadOutside(s)
  <2>1. /\ pc[s] = "loop" /\ UNCHANGED <<ii, neighbors, terms, unlisted>> /\ pc' = [pc EXCEPT ![s] = "outside"]
        /\ i \in 0 .. c.n /\ i < cachedNumberOfParticles /\ i >= c.n
    BY <1>1, <1>7 DEF L2!ReadOutside, L2!Goto, L2!outputs, L2!IsInLoop, ThreadInv
  <2>2. s \in overwritten
    <3>1. s \notin overwritten => cachedNumberOfParticles = c.n
      BY <1>1, <2>1 DEF ThreadInv, L2!IsComputing
    <3> QED BY <1>1, <2>1, <3>1
  <2>3. ThreadInv(s)'
    BY <1>1, <1>2, <1>4, <1>7, <2>1, <2>2 DEF ThreadInv
  <2> QED BY <1>1, <1>4, <1>5, <1>7, <2>1, <2>3
<1>8. CASE L2!SkipParticle(s)
  <2>1. /\ pc[s] = "loop" /\ UNCHANGED <<pc, neighbors, terms, unlisted>> /\ ii' = [ii EXCEPT ![s] = i + 1]
        /\ i \in 0 .. c.n /\ i < c.n /\ ~c.contributing[i]
    BY <1>1, <1>8 DEF L2!SkipParticle, L2!outputs, ThreadInv
  <2>2. TermsBelow(c, i + 1) = TermsBelow(c, i)
    <3>1. i \in Nat
      BY <1>1, <2>1
    <3>2. TermsBelow(c, i + 1) = TermsBelow(c, i) \cup IF c.contributing[i] THEN ParticleTerms(c, i) ELSE {}
      BY <3>1, TermsOfNext
    <3> HIDE DEF c, i
    <3> QED BY <2>1, <3>2
  <2>3. ii'[s] = i + 1 /\ ii'[s] \in 0 .. c.n /\ pc'[s] = "loop"
    BY <1>1, <2>1
  <2>4. s \notin overwritten => cachedNumberOfParticles = c.n
    BY <1>1, <2>1 DEF ThreadInv, L2!IsComputing
  <2>5. s \notin overwritten /\ "dEdr" \in flags[s] => L2!Listed(s, terms[s]) = L2!Listed(s, TermsBelow(c, ii'[s]))
    BY <1>1, <2>1, <2>2, <2>3 DEF ThreadInv
  <2>6. ThreadInv(s)'
    BY <1>1, <1>2, <1>4, <1>8, <2>1, <2>3, <2>4, <2>5 DEF ThreadInv, L2!Listed
  <2> QED BY <1>1, <1>4, <1>5, <1>8, <2>1, <2>6
<1>9. CASE L2!GetNeighborList(s)
  <2>1. /\ pc[s] = "loop" /\ i \in 0 .. c.n /\ i < c.n /\ c.contributing[i]
        /\ UNCHANGED <<ii, terms>> /\ pc' = [pc EXCEPT ![s] = "pairs"]
        /\ \/ neighbors' = [neighbors EXCEPT ![s] = L2!NeighborList(c, i)] /\ UNCHANGED unlisted
           \/ /\ \E kept : neighbors' = [neighbors EXCEPT ![s] = kept]
              /\ unlisted' = [unlisted EXCEPT ![s] = @ \cup {i}]
    BY <1>1, <1>9 DEF L2!GetNeighborList, L2!Goto, L2!outputs, ThreadInv
  <2>2. /\ DOMAIN neighbors' = Threads /\ DOMAIN unlisted' = Threads
        /\ \A t \in Threads \ {s} : neighbors'[t] = neighbors[t] /\ unlisted'[t] = unlisted[t]
    BY <1>1, <2>1
  <2>3. unlisted[s] \subseteq unlisted'[s] /\ (i \notin unlisted'[s] => neighbors'[s] = L2!NeighborList(c, i))
    BY <1>1, <2>1
  <2>4. s \notin overwritten => cachedNumberOfParticles = c.n
    BY <1>1, <2>1 DEF ThreadInv, L2!IsComputing
  <2>5. s \notin overwritten /\ "dEdr" \in flags[s] =>
          {z \in terms[s] : z[1] \notin unlisted'[s]} = {z \in TermsBelow(c, i) : z[1] \notin unlisted'[s]}
    <3>1. s \notin overwritten /\ "dEdr" \in flags[s] =>
            {z \in terms[s] : z[1] \notin unlisted[s]} = {z \in TermsBelow(c, i) : z[1] \notin unlisted[s]}
      BY <1>1, <2>1 DEF ThreadInv, L2!Listed
    <3> QED BY <2>3, <3>1
  <2>6. ThreadInv(s)'
    BY <1>1, <1>2, <1>4, <1>9, <2>1, <2>2, <2>3, <2>4, <2>5 DEF ThreadInv, L2!Listed
  <2> QED BY <1>1, <1>4, <1>5, <1>9, <2>1, <2>2, <2>6
<1>10. CASE L2!ComputeParticle(s)
  <2> DEFINE pairs == L2!PairsOf(c, i, neighbors[s])
             more == {<<i, j, L2!DEidrByR(c, i, j)>> : j \in pairs \ {i}}
  <2>1. /\ pc[s] = "pairs" /\ i \in 0 .. c.n /\ i < c.n /\ c.contributing[i]
        /\ UNCHANGED <<neighbors, unlisted>>
        /\ ii' = [ii EXCEPT ![s] = i + 1] /\ pc' = [pc EXCEPT ![s] = "loop"]
    BY <1>1, <1>10 DEF L2!ComputeParticle, L2!Goto, ThreadInv
  <2>2. terms' = [terms EXCEPT ![s] = @ \cup IF "dEdr" \in flags[s] THEN more ELSE {}]
    BY <1>10 DEF L2!ComputeParticle, L2!Added
  <2>3. DOMAIN terms' = Threads /\ (\A t \in Threads \ {s} : terms'[t] = terms[t])
        /\ ("dEdr" \in flags[s] => terms'[s] = terms[s] \cup more)
    <3> HIDE DEF more
    <3> QED BY <1>1, <2>2
  <2>4. TermsBelow(c, i + 1) = TermsBelow(c, i) \cup ParticleTerms(c, i)
    BY <2>1, TermsOfNext
  <2>5. L2!Listed(s, more) = L2!Listed(s, ParticleTerms(c, i))
    <3>1. CASE i \in unlisted[s]
      BY <3>1 DEF L2!Listed, ParticleTerms
    <3>2. CASE i \notin unlisted[s]
      <4>1. neighbors[s] = L2!NeighborList(c, i)
        BY <1>1, <2>1, <3>2 DEF ThreadInv
      <4>2. i \notin pairs
        BY <4>1 DEF L2!PairsOf, L2!NeighborList
      <4> QED BY <4>1, <4>2 DEF ParticleTerms
    <3> QED BY <3>1, <3>2
  <2>6. \A X, Y : L2!Listed(s, X \cup Y) = L2!Listed(s, X) \cup L2!Listed(s, Y)
    BY DEF L2!Listed
  <2>7. s \notin overwritten /\ "dEdr" \in flags[s] => L2!Listed(s, terms'[s]) = L2!Listed(s, TermsBelow(c, i + 1))
    <3>1. s \notin overwritten /\ "dEdr" \in flags[s] => L2!Listed(s, terms[s]) = L2!Listed(s, TermsBelow(c, i))
      BY <1>1, <2>1 DEF ThreadInv
    <3>2. "dEdr" \in flags[s] => L2!Listed(s, terms'[s]) = L2!Listed(s, terms[s]) \cup L2!Listed(s, more)
      BY <2>3, <2>6, Zenon
    <3>3. L2!Listed(s, TermsBelow(c, i + 1)) = L2!Listed(s, TermsBelow(c, i)) \cup L2!Listed(s, ParticleTerms(c, i))
      BY <2>4, <2>6, Zenon
    <3> HIDE DEF more, c, i
    <3> QED BY <2>5, <3>1, <3>2, <3>3
  <2>8. ii'[s] = i + 1 /\ ii'[s] \in 0 .. c.n /\ pc'[s] = "loop"
    BY <1>1, <2>1
  <2>9. s \notin overwritten => cachedNumberOfParticles = c.n
    BY <1>1, <2>1 DEF ThreadInv, L2!IsComputing
  <2>10. ThreadInv(s)'
    <3> HIDE DEF more, pairs
    <3> QED BY <1>1, <1>2, <1>4, <1>10, <2>1, <2>7, <2>8, <2>9 DEF ThreadInv, L2!Listed
  <2> QED BY <1>1, <1>4, <1>5, <1>10, <2>1, <2>3, <2>10
<1>11. CASE L2!CallbackFails(s)
  <2>1. pc[s] = "pairs" /\ UNCHANGED <<ii, neighbors, unlisted>> /\ pc' = [pc EXCEPT ![s] = "error"]
    BY <1>11 DEF L2!CallbackFails, L2!Goto
  <2>2. DOMAIN terms' = Threads /\ \A t \in Threads \ {s} : terms'[t] = terms[t]
    BY <1>1, <1>11 DEF L2!CallbackFails, L2!Added
  <2>3. ThreadInv(s)'
    BY <1>1, <1>2, <1>4, <1>11, <2>1 DEF ThreadInv, L2!IsComputing
  <2> QED BY <1>1, <1>4, <1>5, <1>11, <2>1, <2>2, <2>3
<1>12. CASE L2!Return(s)
  <2>1. /\ pc[s] = "loop" /\ UNCHANGED <<ii, neighbors, terms, unlisted>> /\ pc' = [pc EXCEPT ![s] = "done"]
        /\ i \in 0 .. c.n /\ ~(i < cachedNumberOfParticles)
    BY <1>1, <1>12 DEF L2!Return, L2!Goto, L2!outputs, L2!IsInLoop, ThreadInv
  <2>2. s \notin overwritten => i = c.n
    <3>1. s \notin overwritten => cachedNumberOfParticles = c.n
      BY <1>1, <2>1 DEF ThreadInv, L2!IsComputing
    <3> QED BY <1>1, <2>1, <3>1
  <2>3. s \notin overwritten /\ "dEdr" \in flags[s] => L2!Listed(s, terms[s]) = L2!Listed(s, TermsBelow(c, c.n))
    BY <1>1, <2>1, <2>2 DEF ThreadInv
  <2>4. ThreadInv(s)'
    BY <1>1, <1>2, <1>4, <1>12, <2>1, <2>3 DEF ThreadInv, L2!IsComputing, L2!Listed
  <2> QED BY <1>1, <1>4, <1>5, <1>12, <2>1, <2>4
<1> QED BY <1>3, <1>6, <1>7, <1>8, <1>9, <1>10, <1>11, <1>12

LEMMA InitThreads ==
  ASSUME L2!Init
  PROVE  ThreadsInv
BY DEF L2!Init, L2!Nothing, ThreadsInv, ThreadInv, L2!IsComputing

LEMMA ThreadsNext ==
  ASSUME subject = "Computes", [Next]_vars
  PROVE  subject' = "Computes" /\ (L2!Next \/ UNCHANGED computation)
BY DEF Next, vars, computation

LEMMA ThreadsUnchanged ==
  ASSUME ThreadsInv, UNCHANGED computation
  PROVE  ThreadsInv'
BY DEF computation, ThreadsInv, ThreadInv, L2!IsComputing, L2!Listed

\* However many threads compute on one model, with configurations of any sizes, however they
\* interleave, and whichever callbacks fail: one that no other overtakes with another number
\* of particles stays within its arrays, and gives its simulator one term for each pair within
\* the cutoff of the particles whose lists it got, and no others of these (Compute of
\* LennardJones612Implementation.hpp, with the number of particles in the model).
THEOREM ThreadsTogether == Spec => []ThreadsStayApart
<1> DEFINE Invariant == subject = "Computes" => ThreadsInv
<1>1. Init => Invariant
  BY InitThreads DEF Init
<1>2. Invariant /\ [Next]_vars => Invariant'
  <2>1. SUFFICES ASSUME Invariant, [Next]_vars, subject' = "Computes" PROVE ThreadsInv'
    OBVIOUS
  <2>2. subject = "Computes"
    BY <2>1 DEF Next, vars
  <2>3. ThreadsInv /\ (L2!Next \/ UNCHANGED computation)
    BY <2>1, <2>2, ThreadsNext
  <2>4. CASE L2!Next
    BY <2>3, <2>4, ThreadsStep DEF L2!Next
  <2>5. CASE UNCHANGED computation
    BY <2>3, <2>5, ThreadsUnchanged
  <2> QED BY <2>3, <2>4, <2>5
<1>3. Invariant => ThreadsStayApart
  <2>1. ASSUME ThreadsInv, NEW t \in Threads \ overwritten
        PROVE  /\ pc[t] # "outside"
               /\ pc[t] = "done" /\ "dEdr" \in flags[t] =>
                    L2!Listed(t, terms[t]) = L2!Listed(t, L2!TermsOf(config[t]))
    <3>1. ThreadInv(t)
      BY <2>1 DEF ThreadsInv
    <3>2. TermsBelow(config[t], config[t].n) = L2!TermsOf(config[t])
      BY <3>1, AllNeighborsAreSeen DEF ThreadInv
    <3> QED BY <2>1, <3>1, <3>2 DEF ThreadInv
  <2> QED BY <2>1 DEF ThreadsStayApart, L2!ThreadsStayApart
<1> QED BY <1>1, <1>2, <1>3, PTL DEF Spec
=============================================================================
