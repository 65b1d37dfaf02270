--------------------------- MODULE ModelParameters ---------------------------
(***************************************************************************)
(* The parameters of a Model (KIM_ModelImplementation.cpp): the model's    *)
(* arrays registered by SetParameterPointer, when the object is created    *)
(* and later by an Extension routine, the simulator's accesses by index,   *)
(* and WriteParameterizedModel, which writes the parameters in memory as a *)
(* new parameterized model.                                                *)
(*                                                                         *)
(* The model's arrays are blocks of memory.  Its WriteParameterizedModel   *)
(* routine writes one file for each block.                                 *)
(***************************************************************************)
EXTENDS Integers, Sequences, FiniteSets

CONSTANTS
  Blocks,        \* the model's arrays; a block is registered under its own name
  TypeOf,        \* [Blocks -> {"Integer", "Double"}]
  SizeOf,        \* [Blocks -> Nat], the entries a block has
  Extents,       \* [Blocks -> set of integers], the extents it may be registered with
  Values,
  Paths, Existing,   \* directories a simulator names, and those that exist
  IsParameterized,   \* whether the model has a driver, and its routine
  MayFill,       \* whether the disk may be full
  MaxCalls       \* bound: calls of the simulator that set or write

BlocksAssumption == \A b \in Blocks : SizeOf[b] \in Nat \ {0}

VARIABLES
  parameters,  \* sequence of [block, type, extent]: the parallel vectors of the code
  memory,      \* [Blocks -> [0 .. size - 1 -> Values]]
  held,        \* the index the simulator has found for a name, or none
  given,       \* history: what a name's entries were last set to
  got,         \* the simulator's last GetParameter
  outside,     \* an entry outside of its block was accessed
  writing,     \* WriteParameterizedModel: what is left to be written
  cmakelists, writePath,  \* members of the object
  directory,   \* [Paths -> files and list]
  written,     \* the last WriteParameterizedModel that returned
  calls

registry == <<parameters, held>>
contents == <<memory, given, got, outside>>
write == <<writing, cmakelists, writePath, directory, written>>
vars == <<registry, contents, write, calls>>

None == -1
Indices == DOMAIN parameters
NotWriting == [active |-> FALSE, left |-> {}]
Registered == {parameters[i].block : i \in Indices}
NotWritten == [ok |-> FALSE, path |-> "", names |-> {}, memory |-> <<>>]
Empty == [files |-> <<>>, list |-> <<>>]

Init ==
  /\ parameters = <<>>
  /\ held = [b \in Blocks |-> None]
  /\ memory \in [Blocks -> UNION {[0..n -> Values] : n \in {SizeOf[b] - 1 : b \in Blocks}}]
  /\ \A b \in Blocks : DOMAIN memory[b] = 0..SizeOf[b] - 1
  /\ given = memory
  /\ got = [name |-> "", entry |-> None, value |-> None]
  /\ outside = FALSE
  /\ writing = NotWriting /\ cmakelists = <<>> /\ writePath = ""
  /\ directory = [p \in Paths |-> Empty]
  /\ written = NotWritten
  /\ calls = 0

(***************************************************************************)
(* The model registers its arrays.                                         *)
(***************************************************************************)
PointerFails(b, extent) == extent = 0 \/ \E i \in Indices : parameters[i].block = b

\* Fault: a new parameter is put first.
SetParameterPointerFirst(b, extent) ==
  /\ ~writing.active
  /\ ~PointerFails(b, extent)
  /\ parameters' = <<[block |-> b, type |-> TypeOf[b], extent |-> extent]>> \o parameters
  /\ UNCHANGED <<held, contents, write, calls>>

SetParameterPointer(b, extent) ==
  /\ ~writing.active
  /\ ~PointerFails(b, extent)
  /\ parameters' = Append(parameters, [block |-> b, type |-> TypeOf[b], extent |-> extent])
  /\ UNCHANGED <<held, contents, write, calls>>

(***************************************************************************)
(* The simulator.                                                          *)
(***************************************************************************)
\* GetNumberOfParameters and GetParameterMetadata: it looks for a name.
GetParameterMetadata(i) ==
  /\ ~writing.active
  /\ i \in Indices
  /\ held' = [held EXCEPT ![parameters[i].block] = i]
  /\ UNCHANGED <<parameters, contents, write, calls>>

AccessFails(i, type, entry) ==
  \/ i \notin Indices
  \/ parameters[i].type # type
  \/ entry < 0 \/ entry >= parameters[i].extent

Accesses == {x \in Blocks \X {"Integer", "Double"} \X (-1..2) : held[x[1]] # None}

\* GetParameter, in either type; an entry of another type is read as that.
GetParameter(b, type, entry) ==
  /\ ~writing.active
  /\ ~AccessFails(held[b], type, entry)
  /\ LET p == parameters[held[b]]
         inside == entry \in DOMAIN memory[p.block] /\ p.type = type
     IN  /\ got' = IF inside THEN [name |-> b, entry |-> entry, value |-> memory[p.block][entry]] ELSE got
         /\ outside' = (outside \/ ~inside)
  /\ UNCHANGED <<registry, memory, given, write, calls>>

SetParameter(b, type, entry, value) ==
  /\ ~writing.active
  /\ calls < MaxCalls
  /\ ~AccessFails(held[b], type, entry)
  /\ LET p == parameters[held[b]]
         inside == entry \in DOMAIN memory[p.block] /\ p.type = type
     IN  /\ memory' = IF inside THEN [memory EXCEPT ![p.block][entry] = value] ELSE memory
         /\ given' = IF inside /\ entry \in DOMAIN given[b] THEN [given EXCEPT ![b][entry] = value] ELSE given
         /\ outside' = (outside \/ ~inside)
  /\ got' = [name |-> "", entry |-> None, value |-> None]
  /\ calls' = calls + 1
  /\ UNCHANGED <<registry, write>>

(***************************************************************************)
(* WriteParameterizedModel.                                                *)
(***************************************************************************)
BeginWrite(path) ==
  /\ ~writing.active /\ calls < MaxCalls /\ IsParameterized
  /\ cmakelists' = <<>>
  /\ writePath' = path
  /\ writing' = [active |-> TRUE, left |-> Registered]
  /\ written' = NotWritten
  /\ calls' = calls + 1
  /\ UNCHANGED <<registry, contents, directory>>

WithFile(files, b, value) ==
  [c \in DOMAIN files \cup {b} |-> IF c = b THEN value ELSE files[c]]

\* The model's routine writes the file of a block in the directory GetPath gives and
\* names it with SetParameterFileName.
WriteParameterFile(b) ==
  /\ writing.active /\ b \in writing.left
  /\ writePath \in Existing
  /\ directory' = [directory EXCEPT ![writePath].files = WithFile(@, b, memory[b])]
  /\ cmakelists' = Append(cmakelists, b)
  /\ writing' = [writing EXCEPT !.left = @ \ {b}]
  /\ UNCHANGED <<registry, contents, writePath, written, calls>>

\* It cannot write a file, or has another reason to return an error.
RoutineFails ==
  /\ writing.active
  /\ writing' = NotWriting
  /\ UNCHANGED <<registry, contents, cmakelists, writePath, directory, written, calls>>

Returns(ok) ==
  /\ writing' = NotWriting
  /\ written' = IF ok THEN [ok |-> TRUE, path |-> writePath, names |-> Registered, memory |-> memory] ELSE NotWritten

\* The list is opened, truncated and written; without an open file the call fails, with
\* a full disk it does not: the stream is not asked.
WriteCMakeLists ==
  /\ writing.active /\ writing.left = {}
  /\ IF writePath \in Existing
     THEN /\ \E full \in {FALSE, MayFill} :
               directory' = [directory EXCEPT ![writePath].list = IF full THEN <<>> ELSE cmakelists]
          /\ Returns(TRUE)
     ELSE /\ Returns(FALSE)
          /\ UNCHANGED directory
  /\ UNCHANGED <<registry, contents, cmakelists, writePath, calls>>

Next ==
  \/ \E b \in Blocks : \E extent \in Extents[b] : SetParameterPointer(b, extent)
  \/ \E i \in Indices : GetParameterMetadata(i)
  \/ \E x \in Accesses : GetParameter(x[1], x[2], x[3])
  \/ \E x \in Accesses, value \in Values : SetParameter(x[1], x[2], x[3], value)
  \/ \E path \in Paths : BeginWrite(path)
  \/ \E b \in Blocks : WriteParameterFile(b)
  \/ RoutineFails
  \/ WriteCMakeLists

Spec == Init /\ [][Next]_vars

-----------------------------------------------------------------------------
\* Blocks keep their size, and the list that is being written names blocks once.
TypeOK ==
  /\ \A b \in Blocks : memory[b] \in [0..SizeOf[b] - 1 -> Values]
  /\ \A b \in Blocks : held[b] \in {None} \cup Indices
  /\ \A i, j \in DOMAIN cmakelists : i # j => cmakelists[i] # cmakelists[j]

\* No access of the simulator leaves the block of its parameter or takes it for
\* another type.
AccessesStayInside == ~outside

\* What the simulator gets for a name is what the name was set to last, also when it
\* found the index before an Extension registered more parameters.
GetsWhatWasSet ==
  got.entry # None => <<got.entry, got.value>> \in {<<n, given[got.name][n]>> : n \in DOMAIN given[got.name]}

\* When WriteParameterizedModel returns without error, the directory has the values of
\* all parameters at that time and a list that names all of their files, once: the
\* "parameter files and CMake file necessary to create a new parameterized PM from the
\* current set of in-memory parameters".
WrittenModelIsComplete ==
  written.ok =>
    LET d == directory[written.path]
    IN  /\ {d.list[n] : n \in DOMAIN d.list} = written.names
        /\ Len(d.list) = Cardinality(written.names)
        /\ \A b \in written.names : d.files[b] = written.memory[b]

\* Every parameter has entries ("Extent, ..., must be > 0.").
\* (The code does not keep this: README, "What the documentation says and the code does not do".)
ExtentsArePositive == \A i \in Indices : parameters[i].extent > 0

\* The variables have their types, and a simulator reads, sets and writes the parameters
\* it means, also when more were registered meanwhile.
ParametersAreKept == TypeOK /\ AccessesStayInside /\ GetsWhatWasSet /\ WrittenModelIsComplete
=============================================================================
