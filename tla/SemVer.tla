------------------------------- MODULE SemVer -------------------------------
(***************************************************************************)
(* Semantic versions (KIM_SemVer.cpp): ParseSemVer on strings and          *)
(* IsLessThan on pairs of them, used by a caller that keeps a list of      *)
(* versions in ascending order, and against them the grammar and the       *)
(* precedence of the Semantic Version 2.0.0 standard, which the header     *)
(* refers to.                                                              *)
(*                                                                         *)
(* A string is a sequence of characters.  Numbers are read by strtol into  *)
(* an int of IntBits bits; its long is taken to be wide enough.            *)
(***************************************************************************)
EXTENDS Integers, Sequences, FiniteSets, SequencesExt

CONSTANTS
  Versions,    \* the versions the caller sorts, as records of their parts
  Strings,     \* the strings it parses
  MaxSorted,   \* bound: the longest list
  IntBits

IntBitsAssumption == IntBits \in Nat \ {0}

VARIABLES
  sorted,   \* the caller's versions
  call      \* its last call of ParseSemVer

vars == <<sorted, call>>

Digits == <<"0", "1", "2">>
AlphaNumerics == <<"-", "0", "1", "2", "A", "a", "b">>   \* in the order of their codes
Rank(c) == CHOOSE i \in DOMAIN AlphaNumerics : AlphaNumerics[i] = c
IsOver(alphabet, text) == \A i \in DOMAIN text : \E j \in DOMAIN alphabet : alphabet[j] = text[i]

\* find_first_of, 0 for npos; substr up to it and after it, and npos + 1 is 0
Find(text, c) ==
  IF \E i \in DOMAIN text : text[i] = c
  THEN CHOOSE i \in DOMAIN text : text[i] = c /\ \A j \in 1..i - 1 : text[j] # c
  ELSE 0
Before(text, c) == IF Find(text, c) = 0 THEN text ELSE SubSeq(text, 1, Find(text, c) - 1)
After(text, c) == SubSeq(text, Find(text, c) + 1, Len(text))

Segments(text) ==
  LET dots == {i \in DOMAIN text : text[i] = "."} \cup {0, Len(text) + 1}
      at(n) == CHOOSE i \in dots : Cardinality({j \in dots : j < i}) = n - 1
  IN  [n \in 1..Cardinality(dots) - 1 |-> SubSeq(text, at(n) + 1, at(n + 1) - 1)]

(***************************************************************************)
(* ParseSemVer.                                                            *)
(***************************************************************************)
HasLeadingZero(text) == Len(text) > 1 /\ text[1] = "0"

IdentifierType(text) ==
  IF IsOver(Digits, text) THEN "numeric"
  ELSE IF IsOver(AlphaNumerics, text) THEN "alphaNumeric"
  ELSE "invalid"

\* ParseIdentifiers: an empty series has no identifier and is not refused.
IdentifiersOf(series) == IF series = <<>> THEN <<>> ELSE Segments(series)

SeriesFails(series, isPrerelease) ==
  \E n \in DOMAIN IdentifiersOf(series) :
     LET id == IdentifiersOf(series)[n]
     IN  \/ id = <<>>
         \/ IdentifierType(id) = "invalid"
         \/ isPrerelease /\ IdentifierType(id) = "numeric" /\ HasLeadingZero(id)

\* The identifiers it hands out: the alphanumeric ones alone are pushed back.
Pushed(series) == SelectSeq(IdentifiersOf(series), LAMBDA id : IdentifierType(id) = "alphaNumeric")

\* strtol and the conversion of its result to int
IsSigned(text) == text # <<>> /\ text[1] \in {"+", "-"}
Magnitude(text) == IF IsSigned(text) THEN Tail(text) ELSE text
IsNumber(text) == IsOver(Digits, Magnitude(text)) /\ (IsSigned(text) => Len(text) > 1)
AsInt(n) == ((n + 2^(IntBits - 1)) % 2^IntBits) - 2^(IntBits - 1)
Number(text) ==
  LET n == FoldLeft(LAMBDA sum, c : 10 * sum + (CHOOSE i \in DOMAIN Digits : Digits[i] = c) - 1,
                    0, Magnitude(text))
  IN  AsInt(IF IsSigned(text) /\ text[1] = "-" THEN -n ELSE n)

NumberFails(text) == HasLeadingZero(text) \/ ~IsNumber(text)

\* hasAncillary: both are looked for in the whole version.
HasBuildMetadata(version) == Find(version, "+") # 0
HasPrerelease(version) ==
  /\ Find(version, "-") # 0
  /\ HasBuildMetadata(version) => Find(version, "-") < Find(version, "+")

FieldsOf(version) ==
  LET rest == After(After(version, "."), ".")
      ancillary == After(rest, "-")
  IN  [major |-> Before(version, "."),
       minor |-> Before(After(version, "."), "."),
       patch |-> IF HasPrerelease(version) THEN Before(rest, "-")
                 ELSE IF HasBuildMetadata(version) THEN Before(rest, "+") ELSE rest,
       prerelease |-> IF ~HasPrerelease(version) THEN <<>>
                      ELSE IF HasBuildMetadata(version) THEN Before(ancillary, "+") ELSE ancillary,
       buildMetadata |-> IF ~HasBuildMetadata(version) THEN <<>>
                         ELSE IF HasPrerelease(version) THEN After(ancillary, "+") ELSE After(rest, "+")]

ParseFails(version) ==
  \/ Find(version, ".") = 0
  \/ Find(After(version, "."), ".") = 0
  \/ LET fields == FieldsOf(version)
     IN  \/ \E number \in {fields.major, fields.minor, fields.patch} : NumberFails(number)
         \/ SeriesFails(fields.prerelease, TRUE)
         \/ SeriesFails(fields.buildMetadata, FALSE)

Parts(version) ==
  LET fields == FieldsOf(version)
  IN  [fields EXCEPT !.major = Number(@), !.minor = Number(@), !.patch = Number(@)]

(***************************************************************************)
(* IsLessThan.                                                             *)
(***************************************************************************)
TextLess(a, b) ==
  \E i \in 1..Len(a) + 1 :
     /\ i <= Len(b)
     /\ \A j \in 1..i - 1 : a[j] = b[j]
     /\ i = Len(a) + 1 \/ Rank(a[i]) < Rank(b[i])

IdentifierLess(a, b) ==
  CASE IdentifierType(a) = "numeric" /\ IdentifierType(b) = "numeric" -> Number(a) < Number(b)
    [] IdentifierType(a) = "alphaNumeric" /\ IdentifierType(b) = "alphaNumeric" -> TextLess(a, b)
    [] OTHER -> IdentifierType(a) = "numeric"

\* Fault: the shorter prerelease is the greater one.
IsPrereleaseLessThanShort(a, b) ==
  LET idsA == Pushed(a)  idsB == Pushed(b)
      common == DOMAIN idsA \cap DOMAIN idsB
      ties(n) == ~IdentifierLess(idsA[n], idsB[n]) /\ ~IdentifierLess(idsB[n], idsA[n])
  IN  \/ \E n \in common : IdentifierLess(idsA[n], idsB[n]) /\ \A k \in 1..n - 1 : ties(k)
      \/ (\A n \in common : ties(n)) /\ Len(idsA) > Len(idsB)

IsPrereleaseLessThan(a, b) ==
  LET idsA == Pushed(a)  idsB == Pushed(b)
      common == DOMAIN idsA \cap DOMAIN idsB
      ties(n) == ~IdentifierLess(idsA[n], idsB[n]) /\ ~IdentifierLess(idsB[n], idsA[n])
  IN  \/ \E n \in common : IdentifierLess(idsA[n], idsB[n]) /\ \A k \in 1..n - 1 : ties(k)
      \/ (\A n \in common : ties(n)) /\ Len(idsA) < Len(idsB)

PartsLess(a, b) ==
  \/ a.major < b.major
  \/ a.major = b.major /\ a.minor < b.minor
  \/ a.major = b.major /\ a.minor = b.minor /\ a.patch < b.patch
  \/ /\ a.major = b.major /\ a.minor = b.minor /\ a.patch = b.patch
     /\ a.prerelease # <<>>
     /\ b.prerelease = <<>> \/ IsPrereleaseLessThan(a.prerelease, b.prerelease)

IsLessThan(lhs, rhs) == PartsLess(Parts(lhs), Parts(rhs))

(***************************************************************************)
(* The standard.  A version is the record of its numbers and of the        *)
(* sequences of its identifiers; Text is its string.                       *)
(***************************************************************************)
NumberText(n) == IF n < 10 THEN <<Digits[n + 1]>> ELSE <<Digits[(n \div 10) + 1], Digits[(n % 10) + 1]>>
Joined(ids) == FlattenSeq([n \in DOMAIN ids |-> IF n = 1 THEN ids[n] ELSE <<".">> \o ids[n]])
Text(v) ==
  NumberText(v.major) \o <<".">> \o NumberText(v.minor) \o <<".">> \o NumberText(v.patch)
    \o (IF v.prerelease = <<>> THEN <<>> ELSE <<"-">> \o Joined(v.prerelease))
    \o (IF v.buildMetadata = <<>> THEN <<>> ELSE <<"+">> \o Joined(v.buildMetadata))

IsNumeric(id) == id # <<>> /\ IsOver(Digits, id)
HasNumericIdentifier(v) == \E n \in DOMAIN v.prerelease : IsNumeric(v.prerelease[n])

\* The value of a numeric identifier, of up to two digits
NumericValue(id) == CHOOSE n \in 0..22 : n % 10 <= 2 /\ NumberText(n) = id

IdentifierPrecedes(a, b) ==
  \/ IsNumeric(a) /\ ~IsNumeric(b)
  \/ IsNumeric(a) /\ IsNumeric(b) /\ NumericValue(a) < NumericValue(b)
  \/ ~IsNumeric(a) /\ ~IsNumeric(b) /\ TextLess(a, b)

Precedes(v, w) ==
  LET a == <<v.major, v.minor, v.patch>>
      b == <<w.major, w.minor, w.patch>>
      p == v.prerelease
      q == w.prerelease
  IN  \/ \E i \in 1..3 : a[i] < b[i] /\ \A j \in 1..i - 1 : a[j] = b[j]
      \/ /\ a = b /\ p # q /\ p # <<>>
         /\ \/ q = <<>>
            \/ IsPrefix(p, q)
            \/ \E i \in DOMAIN p \cap DOMAIN q :
                  IdentifierPrecedes(p[i], q[i]) /\ \A j \in 1..i - 1 : p[j] = q[j]

\* The grammar: three numbers without leading zeros, then identifiers that are not empty
IsVersion(text) ==
  LET main == Before(text, "+")
      numbers == Segments(Before(main, "-"))
      series == (IF Find(main, "-") = 0 THEN <<>> ELSE Segments(After(main, "-")))
      build == (IF Find(text, "+") = 0 THEN <<>> ELSE Segments(After(text, "+")))
  IN  /\ Len(numbers) = 3
      /\ \A n \in DOMAIN numbers : IsNumeric(numbers[n]) /\ ~HasLeadingZero(numbers[n])
      /\ \A n \in DOMAIN series :
            /\ series[n] # <<>> /\ IsOver(AlphaNumerics, series[n])
            /\ IsNumeric(series[n]) => ~HasLeadingZero(series[n])
      /\ \A n \in DOMAIN build : build[n] # <<>> /\ IsOver(AlphaNumerics, build[n])

\* What is compared: numbers, and identifiers that are not numeric.  (So it is whatever the texts
\* are; that the values of folds have types is the part that TLC evaluates and no prover derives.)
VersionsAssumption ==
  \A v \in Versions :
    LET parts == Parts(Text(v))
        ids == Pushed(parts.prerelease)
    IN  /\ {parts.major, parts.minor, parts.patch} \subseteq Int
        /\ ids \in Seq(Seq({AlphaNumerics[i] : i \in DOMAIN AlphaNumerics}))
        /\ \A n \in DOMAIN ids : IdentifierType(ids[n]) = "alphaNumeric"

(***************************************************************************)
(* The caller.                                                             *)
(***************************************************************************)
NoCall == [text |-> <<>>, version |-> FALSE, fails |-> TRUE, parts |-> <<>>]

Init == sorted = <<>> /\ call = NoCall

\* Insertion before the elements at the end that the new version is less than
Insert(v) ==
  /\ Len(sorted) < MaxSorted
  /\ call = NoCall
  /\ LET greater == {i \in DOMAIN sorted :
                       \A j \in i..Len(sorted) : IsLessThan(Text(v), Text(sorted[j]))}
     IN  sorted' = InsertAt(sorted, Len(sorted) + 1 - Cardinality(greater), v)
  /\ UNCHANGED call

\* Out arguments are assigned when nothing failed.  The function has no state: one
\* call of it is considered, and either the list or that.
ParseSemVer(text) ==
  /\ sorted = <<>> /\ call = NoCall
  /\ call' = [text |-> text, version |-> IsVersion(text), fails |-> ParseFails(text),
              parts |-> IF ParseFails(text) THEN <<>> ELSE Parts(text)]
  /\ UNCHANGED sorted

Next ==
  \/ \E v \in Versions : Insert(v)
  \/ \E text \in Strings : ParseSemVer(text)
  \/ \E v \in Versions : ParseSemVer(Text(v))

Spec == Init /\ [][Next]_vars

-----------------------------------------------------------------------------
\* The caller's list is of its versions, and a call that fails assigns nothing.
TypeOK ==
  /\ sorted \in Seq(Versions)
  /\ call.version \in BOOLEAN /\ call.fails \in BOOLEAN
  /\ call.fails <=> call.parts = <<>>

\* A list kept in order by comparing each new version with the last ones is in order
\* throughout: none is less than one before it, and what lies between two that are
\* equal is equal to them.  IsLessThan is a strict weak order, as sorting requires.
ListIsSorted ==
  \A i, j \in DOMAIN sorted :
     i < j =>
       LET before == Text(sorted[i])
           after == Text(sorted[j])
       IN  /\ ~IsLessThan(after, before)
           /\ ~IsLessThan(before, after) =>
                \A k \in i..j : ~IsLessThan(before, Text(sorted[k]))

\* IsLessThan is the precedence of the standard between versions without numeric
\* identifiers in their prereleases: numbers by value, a prerelease before its
\* release, identifiers by their characters and a prefix before what extends it,
\* whatever the build metadata.
ComparesAlphanumerics ==
  \A i, j \in DOMAIN sorted :
     ~HasNumericIdentifier(sorted[i]) /\ ~HasNumericIdentifier(sorted[j]) =>
       (IsLessThan(Text(sorted[i]), Text(sorted[j])) <=> Precedes(sorted[i], sorted[j]))

\* IsLessThan is the precedence of the standard ("isLessThan Truth value of lhs < rhs
\* as defined by the Semantic Version 2.0.0 standard").
\* (The code does not keep this: README, "What the documentation says and the code does not do".)
ComparesAsStandard ==
  \A i, j \in DOMAIN sorted :
     IsLessThan(Text(sorted[i]), Text(sorted[j])) <=> Precedes(sorted[i], sorted[j])

\* ParseSemVer takes every version of the grammar apart: the '-' and '.' of build
\* metadata and of prerelease identifiers divide nothing else.
VersionsAreTakenApart ==
  call.version =>
    /\ ~call.fails
    /\ \A v \in Versions : call.text = Text(v) =>
         /\ <<call.parts.major, call.parts.minor, call.parts.patch>> = <<v.major, v.minor, v.patch>>
         /\ call.parts.prerelease = Joined(v.prerelease)
         /\ call.parts.buildMetadata = Joined(v.buildMetadata)

\* What ParseSemVer accepts is a version of the grammar.
\* (The code does not keep this: README, "What the documentation says and the code does not do".)
OnlyVersionsAreAccepted == ~call.fails => call.version

\* The variables have their types, IsLessThan orders versions, as the standard does if
\* no identifier is numeric, and ParseSemVer takes them apart.
VersionsAreRight == TypeOK /\ ListIsSorted /\ ComparesAlphanumerics /\ VersionsAreTakenApart
=============================================================================
