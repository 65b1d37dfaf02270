-------------------------- MODULE FortranBindings --------------------------
(***************************************************************************)
(* What lies between a Fortran caller and the C++ objects: its indices     *)
(* begin at 1, its character variables have a declared length and are      *)
(* filled with blanks, and the texts of C++ end with a null character      *)
(* (fortran/src/kim_convert_string_module.f90, fortran/include, c/src).    *)
(*                                                                         *)
(* The caller asks for a text by index, with a variable of any length, and *)
(* looks up by name what it was given.  Other functions with an index or a *)
(* text do the same conversions.  Calls share nothing, so a behaviour is   *)
(* one call, and the look-up that uses its result.                         *)
(*                                                                         *)
(* A text is a sequence of characters none of which is null.  "overrun"    *)
(* says that a call has accessed memory that belongs neither to the        *)
(* caller's variable nor to the text; what it reads there may be anything. *)
(***************************************************************************)
EXTENDS Integers, Sequences

CONSTANTS
  Texts,             \* the texts that C++ objects have
  Fields,            \* what a C++ object may hold: for each field its lines
  TriedIndices,      \* the indices the caller tries
  MaxLength,         \* bound: the longest variable of the caller
  UnsignedModulus    \* 2^w for a C++ unsigned of w bits

LengthAssumption ==
  /\ MaxLength \in Nat \ {0} /\ UnsignedModulus \in Nat /\ UnsignedModulus > MaxLength
  /\ TriedIndices \subseteq Int
  /\ \A text \in Texts : text \in Seq({text[i] : i \in DOMAIN text})
  /\ Fields \subseteq Seq(Seq(Texts)) \ {<<>>}

Blank == " "

VARIABLES
  fields,    \* the texts of the C++ object; those of its first field are its names
  string,    \* the caller's character variable
  ierr,
  found,     \* the names that the last look-up would take for the one meant
  overrun,
  asked      \* history: the last call and its arguments

vars == <<fields, string, ierr, found, overrun, asked>>

Lengths == 1..MaxLength
Names == fields[1]

(***************************************************************************)
(* kim_convert_string_module                                               *)
(***************************************************************************)
\* Where the loop of kim_convert_c_char_array_to_string over 1..len(string)+1 ends: at
\* the null character after the text, or past its last turn.
NullIndex(text, length) == IF Len(text) <= length THEN Len(text) + 1 ELSE length + 2

\* Fault: the test for the variable that is filled exactly is one off.
CopiedLengthShort(text, length) ==
  IF NullIndex(text, length) = length + 1 THEN length - 1 ELSE NullIndex(text, length) - 1

CopiedLength(text, length) ==
  IF NullIndex(text, length) = length + 1 THEN length ELSE NullIndex(text, length) - 1

Converted(text, length) ==
  [i \in 1..length |-> IF i <= CopiedLength(text, length) THEN text[i] ELSE Blank]

WritesOutside(text, length) == CopiedLength(text, length) > length

\* trim(string)//c_null_char, as C++ reads it
Trimmed(s) ==
  LET last == CHOOSE n \in 0..Len(s) :
                /\ \A i \in n + 1..Len(s) : s[i] = Blank
                /\ n = 0 \/ s[n] # Blank
  IN  SubSeq(s, 1, last)

\* kim_convert_string_to_c_char_array assigns a text to an array of single characters:
\* each becomes the first of the text.
ToArray(s, size) == [i \in 1..size |-> (Append(Trimmed(s), "null"))[1]]

(***************************************************************************)
(* Calls that return a text                                                *)
(***************************************************************************)
Answer(text, length) ==
  /\ string' = Converted(text, length)
  /\ ierr' = FALSE
  /\ overrun' = WritesOutside(text, length)

\* What there is past the end of an array, and what a pointer points to that nobody has
\* set: the Fortran routines convert it also when the C function returned an error.
Anything(length, fails) ==
  /\ \E text \in Texts \cup {<<>>} : string' = Converted(text, length)
  /\ ierr' = fails
  /\ overrun' \in BOOLEAN

\* kim_simulator_model_get_simulator_field_line
GetSimulatorFieldLine(fieldIndex, lineIndex, length) ==
  LET field == fieldIndex - 1
      line == lineIndex - 1
  IN  /\ IF \/ field < 0 \/ field >= Len(fields)
            \/ line < 0 \/ line >= Len(fields[field + 1])
         THEN Anything(length, TRUE)
         ELSE Answer(fields[field + 1][line + 1], length)
      /\ asked' = [routine |-> "line", indices |-> <<fieldIndex, lineIndex>>, text |-> <<>>, size |-> 0]
      /\ UNCHANGED <<fields, found>>

\* kim_collections_get_item_name_by_type: the index is compared with >, so that what is
\* past the end of the list is one of the answers.
GetItemNameByType(index, length) ==
  /\ IF index - 1 < 0 \/ index - 1 > Len(Names) THEN Anything(length, TRUE)
     ELSE IF index - 1 = Len(Names) THEN Anything(length, FALSE)
     ELSE Answer(Names[index], length)
  /\ asked' = [routine |-> "name", indices |-> <<1, index>>, text |-> <<>>, size |-> 0]
  /\ UNCHANGED <<fields, found>>

\* kim_collections_get_item_metadata_file_length: that of the text less one, an unsigned
\* number
MetadataFileLength(index) == (Len(Names[index]) - 1) % UnsignedModulus

\* kim_collections_get_item_metadata_file_values with an array of `size` bytes, to which
\* the contents are assigned as a whole; what is refused leaves the string alone.
GetItemMetadataFileValues(index, size, length) ==
  /\ IF index - 1 = Len(Names) THEN Anything(length, FALSE)
     ELSE IF index \notin DOMAIN Names \/ size < MetadataFileLength(index) \/ length < MetadataFileLength(index)
     THEN ierr' = TRUE /\ overrun' = FALSE /\ string' = string
     ELSE /\ string' = Converted(Names[index], length)
          /\ ierr' = FALSE
          /\ overrun' = (WritesOutside(Names[index], length) \/ size # MetadataFileLength(index))
  /\ asked' = [routine |-> "file", indices |-> <<1, index>>, text |-> <<>>, size |-> size]
  /\ UNCHANGED <<fields, found>>

\* kim_parse_sem_ver, the prerelease: strncpy fills an array of the variable's length,
\* and writes a null only if the text is shorter; the conversion looks one element
\* further.  When the version is refused nobody has set the array.
ParseSemVer(text, length) ==
  /\ \/ Len(text) < length /\ Answer(text, length)
     \/ /\ Len(text) >= length
        /\ string' = SubSeq(text, 1, length) /\ ierr' = FALSE /\ overrun' = TRUE
     \/ Anything(length, TRUE)
  /\ asked' = [routine |-> "version", indices |-> <<>>, text |-> text, size |-> 0]
  /\ UNCHANGED <<fields, found>>

(***************************************************************************)
(* Calls that pass a text                                                  *)
(***************************************************************************)
\* kim_collections_get_item_type with what the caller's variable holds
GetItemType ==
  /\ asked.routine = "name" /\ ~ierr
  /\ found' = {i \in DOMAIN Names : Names[i] = Trimmed(string)}
  /\ ierr' = (found' = {})
  /\ overrun' = FALSE
  /\ asked' = [asked EXCEPT !.routine = "type"]
  /\ UNCHANGED <<fields, string>>

(***************************************************************************)
(* The specification                                                       *)
(***************************************************************************)
Init ==
  /\ fields \in Fields
  /\ string = <<>> /\ ierr = FALSE /\ found = {} /\ overrun = FALSE
  /\ asked = [routine |-> "none", indices |-> <<>>, text |-> <<>>, size |-> 0]

Next ==
  \/ /\ asked.routine = "none"
     /\ \/ \E i, j \in TriedIndices, n \in Lengths : GetSimulatorFieldLine(i, j, n)
        \/ \E i \in TriedIndices, n \in Lengths : GetItemNameByType(i, n)
        \/ \E i \in TriedIndices, m, n \in Lengths : GetItemMetadataFileValues(i, m, n)
        \/ \E text \in Texts, n \in Lengths : ParseSemVer(text, n)
  \/ GetItemType

Spec == Init /\ [][Next]_vars

(***************************************************************************)
(* What must hold                                                          *)
(***************************************************************************)
Exists == asked.indices[1] \in DOMAIN fields /\ asked.indices[2] \in DOMAIN fields[asked.indices[1]]
Meant == fields[asked.indices[1]][asked.indices[2]]

\* The variable holds the text, if it has room for it, and nothing else was touched.
Holds(text) ==
  Len(text) <= Len(string) =>
    /\ ~overrun
    /\ \A i \in DOMAIN string : string[i] = IF i \in DOMAIN text THEN text[i] ELSE Blank

\* The element that a Fortran index stands for is the one whose number it is, counted
\* from 1, and every other index is refused.
LinesAreThoseMeant ==
  asked.routine = "line" => (ierr <=> ~Exists) /\ (Exists => Holds(Meant))

\* A name that was given to a variable with room for it leads back to the item.
NamesLeadBack ==
  /\ asked.routine = "name" /\ Exists => ~ierr /\ Holds(Meant)
  /\ asked.routine = "type" /\ Exists /\ Len(Meant) <= Len(string) /\ Trimmed(Meant) = Meant =>
       ~ierr /\ asked.indices[2] \in found

\* A file is read into an array of the length the caller was told and a string with room
\* for all of the file.
FilesAreRead ==
  asked.routine = "file" /\ Exists /\ asked.size = MetadataFileLength(asked.indices[2]) /\ ~ierr => Holds(Meant)

\* The parts of a version arrive in variables that are longer than they are.
VersionsArrive ==
  asked.routine = "version" /\ ~ierr /\ Len(asked.text) < Len(string) => Holds(asked.text)

\* Where the caller's variables have room, the Fortran interface shows what the C++
\* objects hold: the conversions of indices and texts in both directions cancel.
FortranShowsTheSame == LinesAreThoseMeant /\ NamesLeadBack /\ FilesAreRead /\ VersionsArrive

\* No call touches memory that is neither the caller's nor the library's.
\* (The code does not keep this: README, "What the documentation says and the code does not do".)
NothingOutsideIsTouched == ~overrun

\* A character array made of a string holds the string, and a null after it.
\* (The code does not keep this: README, "What the documentation says and the code does not do".)
ArraysHoldTheString ==
  \A s \in Texts : Len(Trimmed(s)) < MaxLength =>
    \A i \in 1..Len(Trimmed(s)) + 1 : ToArray(s, MaxLength)[i] = Append(Trimmed(s), "null")[i]
=============================================================================
