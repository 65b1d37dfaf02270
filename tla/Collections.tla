---------------------------- MODULE Collections ----------------------------
(***************************************************************************)
(* Where the items of the collections are, and the order in which they are *)
(* looked for (KIM_CollectionsImplementation.cpp): operators on the set of *)
(* library files that exist.                                               *)
(*                                                                         *)
(* A collection keeps the items of a type in the subdirectories of a list  *)
(* of directories, the list of PrivateGetCWDDirs, PrivateGetEnvironmentDirs*)
(* PrivateGetUserDirs or PrivateGetSystemDirs.  An item is there when the  *)
(* library file of its type is: <<directory, type, name>>.  Two lists may  *)
(* name one directory.                                                     *)
(***************************************************************************)
EXTENDS Naturals, Sequences, FiniteSets

CONSTANTS
  Names,        \* the names of items
  Directories,
  DirsOf        \* [Collection -> [ItemType -> Seq(Directories)]]

SearchOrder == <<"currentWorkingDirectory", "environmentVariable", "user", "system">>
TypeOrder == <<"portableModel", "simulatorModel", "modelDriver">>
Collection == {SearchOrder[i] : i \in 1..4}
ItemType == {TypeOrder[i] : i \in 1..3}
Item == Directories \X ItemType \X Names

ASSUME CollectionsAssumption ==
  DirsOf \in [Collection -> [ItemType -> Seq(Directories)]]

\* dirsMap[itemType] of one collection, each with the collection's name
PlacesOf(c, t) ==
  [i \in 1..Len(DirsOf[c][t]) |-> [collection |-> c, directory |-> DirsOf[c][t][i]]]

\* The places in which PrivateGetItemLibraryFileNameAndCollection looks, in order
Places(t) ==
  PlacesOf(SearchOrder[1], t) \o PlacesOf(SearchOrder[2], t)
    \o PlacesOf(SearchOrder[3], t) \o PlacesOf(SearchOrder[4], t)

Place == [collection : Collection, directory : Directories]

\* Where the file of an item of type t and name n is
FoundAt(disk, places, t, n) ==
  {i \in DOMAIN places : <<places[i].directory, t, n>> \in disk}

First(S) == CHOOSE i \in S : \A j \in S : i <= j

\* The outcome of a search while nothing changes
IsInstalled(disk, t, n) == FoundAt(disk, Places(t), t, n) # {}
Finds(disk, t, n) == Places(t)[First(FoundAt(disk, Places(t), t, n))]

IsInstalledIn(disk, c, t, n) == FoundAt(disk, PlacesOf(c, t), t, n) # {}

\* What the documentation of Collections::GetItemType describes: each
\* collection in its order and, within it, each type in its order
DocumentedItemType(disk, n) ==
  LET here(i) == {j \in 1..3 : IsInstalledIn(disk, SearchOrder[i], TypeOrder[j], n)}
  IN  TypeOrder[First(here(First({i \in 1..4 : here(i) # {}})))]
=============================================================================
