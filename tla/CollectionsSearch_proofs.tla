----------------------- MODULE CollectionsSearch_proofs -----------------------
(***************************************************************************)
(* What a search that tests one file after the other finds, whatever other *)
(* processes install and remove meanwhile, for all lists of directories.   *)
(*                                                                         *)
(* The places a search has passed hold no item that has been there since   *)
(* it began: it saw them empty, and what came later was not there all the  *)
(* time.  A list holds what was there all the time in the places it read.  *)
(***************************************************************************)
EXTENDS CollectionsSearch, TLAPS

-----------------------------------------------------------------------------
(* The lists of places. *)

\* The places of one collection: a sequence of places, all its own.
LEMMA PlacesOfType ==
  ASSUME NEW c \in Collection, NEW t \in ItemType
  PROVE  /\ PlacesOf(c, t) \in Seq(Place)
         /\ Len(PlacesOf(c, t)) = Len(DirsOf[c][t])
<1>1. DirsOf[c][t] \in Seq(Directories)
  BY CollectionsAssumption
<1>2. \A i \in 1..Len(DirsOf[c][t]) : DirsOf[c][t][i] \in Directories
  BY <1>1
<1>3. PlacesOf(c, t) \in [1..Len(DirsOf[c][t]) -> Place]
  BY <1>2 DEF PlacesOf, Place
<1>4. Len(DirsOf[c][t]) \in Nat
  BY <1>1
<1>. QED
  BY <1>3, <1>4

LEMMA TypesAreItemTypes ==
  ASSUME NEW i \in 1..3 PROVE TypeOrder[i] \in ItemType
BY DEF ItemType

LEMMA CollectionsInOrder == \A i \in 1..4 : SearchOrder[i] \in Collection
BY DEF Collection

\* Where a search looks is a sequence of places.
LEMMA PlacesWithinType ==
  ASSUME NEW w \in Within, NEW t \in ItemType
  PROVE  PlacesWithin(w, t) \in Seq(Place)
<1>1. CASE w # "all"
  BY <1>1, PlacesOfType DEF PlacesWithin, Within
<1>2. CASE w = "all"
  <2>1. \A i \in 1..4 : PlacesOf(SearchOrder[i], t) \in Seq(Place)
    BY PlacesOfType, CollectionsInOrder
  <2>. QED
    BY <2>1, <1>2 DEF PlacesWithin, Places
<1>. QED
  BY <1>1, <1>2

Elements(s) == {s[i] : i \in 1..Len(s)}

\* A concatenation has the elements of its parts.
LEMMA ConcatElements ==
  ASSUME NEW a \in Seq(Place), NEW b \in Seq(Place)
  PROVE  a \o b \in Seq(Place) /\ Elements(a \o b) = Elements(a) \cup Elements(b)
<1>1. a \o b \in Seq(Place) /\ Len(a \o b) = Len(a) + Len(b)
  OBVIOUS
<1>2. \A i \in 1..Len(a) : i \in 1..Len(a \o b) /\ (a \o b)[i] = a[i]
  OBVIOUS
<1>3. \A i \in 1..Len(b) : Len(a) + i \in 1..Len(a \o b) /\ (a \o b)[Len(a) + i] = b[i]
  OBVIOUS
<1>4. ASSUME NEW j \in 1..Len(a \o b)
      PROVE  (a \o b)[j] \in Elements(a) \cup Elements(b)
  <2>1. CASE j <= Len(a)
    BY <2>1, <1>2 DEF Elements
  <2>2. CASE j > Len(a)
    <3>1. j - Len(a) \in 1..Len(b)
      BY <2>2, <1>1
    <3>2. (a \o b)[j] = b[j - Len(a)]
      BY <3>1, <1>3, <1>1, <2>2
    <3>. QED
      BY <3>1, <3>2 DEF Elements
  <2>. QED
    BY <2>1, <2>2, <1>1
<1>5. Elements(a) \subseteq Elements(a \o b)
  BY <1>2 DEF Elements
<1>6. Elements(b) \subseteq Elements(a \o b)
  BY <1>3 DEF Elements
<1>7. Elements(a \o b) \subseteq Elements(a) \cup Elements(b)
  BY <1>4 DEF Elements
<1>. QED
  BY <1>1, <1>5, <1>6, <1>7

\* A list reads the places in which a search looks, in another order.
LEMMA SamePlaces ==
  TypeOK => /\ ListPlaces \in Seq(Place) /\ Len(ListPlaces) = Len(SearchPlaces)
            /\ Elements(ListPlaces) = Elements(SearchPlaces)
<1>. SUFFICES ASSUME TypeOK
              PROVE  /\ ListPlaces \in Seq(Place) /\ Len(ListPlaces) = Len(SearchPlaces)
                     /\ Elements(ListPlaces) = Elements(SearchPlaces)
  OBVIOUS
<1>1. Type \in ItemType
  BY TypesAreItemTypes DEF Type, TypeOK, Call
<1>2. CASE call.within # "all"
  <2>1. ListPlaces = SearchPlaces
    BY <1>2 DEF ListPlaces
  <2>2. SearchPlaces \in Seq(Place)
    BY <1>1, PlacesWithinType DEF SearchPlaces, TypeOK, Call
  <2>. QED
    BY <2>1, <2>2
<1>3. CASE call.within = "all"
  <2>. DEFINE a == PlacesOf(SearchOrder[1], Type)
              b == PlacesOf(SearchOrder[2], Type)
              c == PlacesOf(SearchOrder[3], Type)
              d == PlacesOf(SearchOrder[4], Type)
  <2>1. a \in Seq(Place) /\ b \in Seq(Place) /\ c \in Seq(Place) /\ d \in Seq(Place)
    BY <1>1, PlacesOfType, CollectionsInOrder
  <2>2. ListPlaces = ((d \o c) \o b) \o a
    BY <1>3 DEF ListPlaces
  <2>3. SearchPlaces = ((a \o b) \o c) \o d
    BY <1>3 DEF SearchPlaces, PlacesWithin, Places
  <2>. HIDE DEF a, b, c, d
  <2>4. d \o c \in Seq(Place) /\ Elements(d \o c) = Elements(d) \cup Elements(c)
    BY <2>1, ConcatElements
  <2>5. (d \o c) \o b \in Seq(Place) /\ Elements((d \o c) \o b) = Elements(d \o c) \cup Elements(b)
    BY <2>1, <2>4, ConcatElements
  <2>6. /\ ((d \o c) \o b) \o a \in Seq(Place)
        /\ Elements(((d \o c) \o b) \o a) = Elements((d \o c) \o b) \cup Elements(a)
    BY <2>1, <2>5, ConcatElements
  <2>7. a \o b \in Seq(Place) /\ Elements(a \o b) = Elements(a) \cup Elements(b)
    BY <2>1, ConcatElements
  <2>8. (a \o b) \o c \in Seq(Place) /\ Elements((a \o b) \o c) = Elements(a \o b) \cup Elements(c)
    BY <2>1, <2>7, ConcatElements
  <2>9. Elements(((a \o b) \o c) \o d) = Elements((a \o b) \o c) \cup Elements(d)
    BY <2>1, <2>8, ConcatElements
  <2>10. Elements(ListPlaces) = Elements(SearchPlaces)
    BY <2>2, <2>3, <2>4, <2>5, <2>6, <2>7, <2>8, <2>9
  <2>11. Len(ListPlaces) = Len(SearchPlaces)
    BY <2>1, <2>2, <2>3, <2>4, <2>5, <2>7, <2>8
  <2>. QED
    BY <2>2, <2>6, <2>10, <2>11
<1>. QED
  BY <1>2, <1>3

-----------------------------------------------------------------------------
(* Types. *)

LEMMA StepsAt ==
  call \in Call => [call EXCEPT !.at = @ + 1] \in Call
BY DEF Call

LEMMA RewindsCall ==
  call \in Call => /\ \A t \in 1..3 : [call EXCEPT !.type = t, !.at = 1] \in Call
                   /\ \A w \in Within : [call EXCEPT !.within = w, !.at = 1] \in Call
<1>. DEFINE at == 1
<1>1. at \in Nat \ {0}
  OBVIOUS
<1>. HIDE DEF at
<1>2. ASSUME call \in Call, NEW t \in 1..3
      PROVE  [call EXCEPT !.type = t, !.at = at] \in Call
  BY <1>1, <1>2 DEF Call
<1>3. ASSUME call \in Call, NEW w \in Within
      PROVE  [call EXCEPT !.within = w, !.at = at] \in Call
  BY <1>1, <1>3 DEF Call
<1>. QED
  BY <1>2, <1>3 DEF at

LEMMA ListsMore ==
  ASSUME call \in Call, NEW more \in SUBSET Path
  PROVE  [call EXCEPT !.at = @ + 1, !.paths = @ \cup more] \in Call
<1>1. call.paths \cup more \in SUBSET Path
  BY DEF Call
<1>2. call.at + 1 \in Nat \ {0}
  BY DEF Call
<1>. DEFINE paths == call.paths \cup more
            at == call.at + 1
<1>. HIDE DEF paths, at
<1>3. [call EXCEPT !.at = at, !.paths = paths] \in Call
  BY <1>1, <1>2 DEF Call, paths, at
<1>. QED
  BY <1>3 DEF paths, at

\* What is read from the disk is a place.
LEMMA HereIsPlace ==
  TypeOK /\ Searching => /\ SearchPlaces \in Seq(Place)
                        /\ call.at \in 1..Len(SearchPlaces)
                        /\ Here \in Place
<1>. SUFFICES ASSUME TypeOK, Searching
              PROVE  /\ SearchPlaces \in Seq(Place)
                     /\ call.at \in 1..Len(SearchPlaces)
                     /\ Here \in Place
  OBVIOUS
<1>1. Type \in ItemType
  BY TypesAreItemTypes DEF Type, TypeOK, Call
<1>2. SearchPlaces \in Seq(Place)
  BY <1>1, PlacesWithinType DEF SearchPlaces, TypeOK, Call
<1>3. call.at \in Nat \ {0} /\ call.at <= Len(SearchPlaces)
  BY DEF Searching, TypeOK, Call
<1>4. call.at \in 1..Len(SearchPlaces)
  BY <1>2, <1>3
<1>. QED
  BY <1>2, <1>4 DEF Here

LEMMA ListedIsPlace ==
  TypeOK /\ Searching => ListPlaces[call.at] \in Place
<1>. SUFFICES ASSUME TypeOK, Searching PROVE ListPlaces[call.at] \in Place
  OBVIOUS
<1>1. ListPlaces \in Seq(Place) /\ Len(ListPlaces) = Len(SearchPlaces)
  BY SamePlaces
<1>2. call.at \in 1..Len(SearchPlaces)
  BY HereIsPlace
<1>. QED
  BY <1>1, <1>2

LEMMA IndexType == Indices \subseteq Int
BY DEF Indices

LEMMA LengthType ==
  ASSUME TypeOK, NEW f \in Form, NEW index \in Int
  PROVE  MetadataLength(f, index) \in 0..(UnsignedModulus - 1)
<1>1. CASE index + 1 \in DOMAIN metadata[f]
  <2>1. metadata[f] \in Seq(File)
    BY DEF TypeOK
  <2>2. metadata[f][index + 1] \in File
    BY <1>1, <2>1
  <2>3. metadata[f][index + 1].length - 1 \in Int
    BY <2>2, SearchAssumption DEF File
  <2>4. UnsignedModulus \in Nat \ {0}
    BY SearchAssumption
  <2>. QED
    BY <1>1, <2>3, <2>4 DEF MetadataLength
<1>2. CASE index + 1 \notin DOMAIN metadata[f]
  BY <1>2, SearchAssumption DEF MetadataLength
<1>. QED
  BY <1>1, <1>2

\* The variables have their types.
THEOREM TypeCorrect == Spec => []TypeOK
<1>1. Init => TypeOK
  <2>. SUFFICES ASSUME Init PROVE TypeOK
    OBVIOUS
  <2>1. disk \subseteq Item /\ stable \subseteq disk
    BY SearchAssumption DEF Init
  <2>2. call \in Call
    BY DEF Init, Call, NoCall, Form, Within
  <2>3. answer \in Answer
    BY DEF Init, Answer
  <2>4. fetched \in Fetched
    BY SearchAssumption DEF Init, Fetched, Nothing, Form
  <2>5. names \in [Form -> SUBSET Path] /\ metadata \in [Form -> Seq(File)]
    BY DEF Init
  <2>. QED
    BY <2>1, <2>2, <2>3, <2>4, <2>5 DEF TypeOK
<1>2. TypeOK /\ [Next]_vars => TypeOK'
  <2>. SUFFICES ASSUME TypeOK, [Next]_vars PROVE TypeOK'
    OBVIOUS
  <2>1. ASSUME NEW item \in Changing, Install(item) \/ Remove(item) PROVE TypeOK'
    <3>1. disk' \subseteq Item /\ stable' \subseteq disk'
      BY <2>1, SearchAssumption DEF TypeOK, Install, Remove
    <3>2. UNCHANGED <<call, answer, names, metadata, fetched>>
      BY <2>1 DEF Install, Remove, lists
    <3>. QED
      BY <3>1, <3>2 DEF TypeOK
  <2>2. ASSUME NEW o \in Operation, NEW n \in Names, NEW t \in 1..3, NEW w \in Within,
               Begins(o, n, t, w),
               names' \in [Form -> SUBSET Path], metadata' \in [Form -> Seq(File)]
        PROVE  TypeOK'
    <3>1. FormOf(w) \in Form
      BY DEF FormOf, Form
    <3>2. call' = [ operation |-> o, active |-> TRUE, form |-> FormOf(w), name |-> n,
                    type |-> t, within |-> w, at |-> 1, paths |-> {} ]
      BY <2>2 DEF Begins, NoCall
    <3>3. call' \in Call
      BY <3>1, <3>2 DEF Call
    <3>4. fetched' \in Fetched
      BY <2>2, SearchAssumption DEF Begins, Fetched, Nothing, Form
    <3>5. disk' \subseteq Item /\ stable' \subseteq disk' /\ answer' \in Answer
      BY <2>2 DEF Begins, TypeOK
    <3>. QED
      BY <2>2, <3>3, <3>4, <3>5 DEF TypeOK
  <2>3. ASSUME NEW n \in Names, NEW t \in 1..3, NEW w \in Within,
               BeginFind(n, t, w) \/ BeginCacheMetadata(n, t, w)
        PROVE  TypeOK'
    <3>1. CASE BeginFind(n, t, w)
      <4>1. Begins("find", n, t, w) /\ "find" \in Operation
        BY <3>1 DEF BeginFind, Operation
      <4>2. names' \in [Form -> SUBSET Path] /\ metadata' \in [Form -> Seq(File)]
        BY <3>1 DEF BeginFind, lists, TypeOK
      <4>. QED
        BY <4>1, <4>2, <2>2
    <3>2. CASE BeginCacheMetadata(n, t, w)
      <4>1. Begins("metadata", n, t, w) /\ "metadata" \in Operation
        BY <3>2 DEF BeginCacheMetadata, Operation
      <4>2. names' = names /\ metadata' = [metadata EXCEPT ![FormOf(w)] = <<>>]
        BY <3>2 DEF BeginCacheMetadata
      <4>3. <<>> \in Seq(File)
        OBVIOUS
      <4>4. names' \in [Form -> SUBSET Path] /\ metadata' \in [Form -> Seq(File)]
        BY <4>2, <4>3 DEF TypeOK
      <4>. QED
        BY <4>1, <4>4, <2>2
    <3>. QED
      BY <2>3, <3>1, <3>2
  <2>4. ASSUME NEW n \in Names, BeginGetItemType(n) PROVE TypeOK'
    <3>1. Begins("type", n, 1, "all") /\ "type" \in Operation /\ "all" \in Within
      BY <2>4 DEF BeginGetItemType, Operation, Within
    <3>2. names' \in [Form -> SUBSET Path] /\ metadata' \in [Form -> Seq(File)]
      BY <2>4 DEF BeginGetItemType, lists, TypeOK
    <3>. QED
      BY <3>1, <3>2, <2>2
  <2>5. ASSUME NEW t \in 1..3, NEW w \in Within, BeginCacheNames(t, w) PROVE TypeOK'
    <3>1. PICK n \in Names : Begins("list", n, t, w)
      BY <2>5 DEF BeginCacheNames
    <3>2. "list" \in Operation
      BY DEF Operation
    <3>3. names' \in [Form -> SUBSET Path] /\ metadata' \in [Form -> Seq(File)]
      BY <2>5 DEF BeginCacheNames, TypeOK
    <3>. QED
      BY <3>1, <3>2, <3>3, <2>2
  <2>6. ASSUME call' \in Call, UNCHANGED <<disk, answer, names, metadata, fetched, stable>>
        PROVE  TypeOK'
    BY <2>6 DEF TypeOK
  <2>7. ASSUME PassPlace PROVE TypeOK'
    <3>1. call' = [call EXCEPT !.at = @ + 1]
      BY <2>7 DEF PassPlace
    <3>2. call' \in Call
      BY <3>1, StepsAt DEF TypeOK
    <3>. QED
      BY <3>2, <2>6, <2>7 DEF PassPlace, lists
  <2>8. ASSUME NextType PROVE TypeOK'
    <3>1. call.type + 1 \in 1..3
      BY <2>8 DEF NextType, TypeOK, Call
    <3>2. call' = [call EXCEPT !.type = call.type + 1, !.at = 1]
      BY <2>8 DEF NextType
    <3>3. call' \in Call
      BY <3>1, <3>2, RewindsCall DEF TypeOK
    <3>. QED
      BY <3>3, <2>6, <2>8 DEF NextType, lists
  <2>9. ASSUME FindMetadataCollection PROVE TypeOK'
    <3>1. Here.collection \in Within
      BY <2>9, HereIsPlace DEF FindMetadataCollection, Place, Within
    <3>2. call' = [call EXCEPT !.within = Here.collection, !.at = 1]
      BY <2>9 DEF FindMetadataCollection
    <3>3. call' \in Call
      BY <3>1, <3>2, RewindsCall DEF TypeOK
    <3>. QED
      BY <3>3, <2>6, <2>9 DEF FindMetadataCollection, lists
  <2>10. ASSUME ListDirectory PROVE TypeOK'
    <3>. DEFINE dir == ListPlaces[call.at].directory
                found == {<<dir, n>> : n \in {m \in Names : <<dir, Type, m>> \in disk}}
    <3>1. dir \in Directories
      BY <2>10, ListedIsPlace DEF ListDirectory, Place
    <3>. HIDE DEF dir
    <3>2. found \subseteq Path
      <4>1. \A n \in {m \in Names : <<dir, Type, m>> \in disk} : <<dir, n>> \in Path
        BY <3>1 DEF Path
      <4>. QED
        BY <4>1, Zenon
    <3>3. call' = [call EXCEPT !.at = @ + 1, !.paths = @ \cup found]
      BY <2>10 DEF ListDirectory, dir
    <3>. HIDE DEF found
    <3>4. call' \in Call
      BY <3>2, <3>3, ListsMore DEF TypeOK
    <3>. QED
      BY <3>4, <2>6, <2>10 DEF ListDirectory, lists
  <2>11. ASSUME NEW error \in BOOLEAN, NEW place \in Place \cup {NoPlace}, Returns(error, place),
                names' \in [Form -> SUBSET Path], metadata' \in [Form -> Seq(File)],
                UNCHANGED <<disk, fetched, stable>>
         PROVE  TypeOK'
    <3>1. call' \in Call
      BY <2>11 DEF Returns, TypeOK, Call
    <3>2. answer' \in Answer
      BY <2>11 DEF Returns, Answer
    <3>. QED
      BY <2>11, <3>1, <3>2 DEF TypeOK
  <2>12. ASSUME FindPlace PROVE TypeOK'
    <3>1. Returns(FALSE, Here) /\ Here \in Place \cup {NoPlace}
      BY <2>12, HereIsPlace DEF FindPlace
    <3>2. /\ UNCHANGED <<disk, fetched, stable>>
          /\ names' \in [Form -> SUBSET Path] /\ metadata' \in [Form -> Seq(File)]
      BY <2>12 DEF FindPlace, lists, TypeOK
    <3>. QED
      BY <3>1, <3>2, <2>11
  <2>13. ASSUME NEW files \in MetadataFiles, FindMetadata(files) PROVE TypeOK'
    <3>1. files \in Seq(File)
      <4>1. PICK k \in 0..1 : files \in [1..k -> File]
        BY DEF MetadataFiles
      <4>. QED
        BY <4>1
    <3>2. metadata' \in [Form -> Seq(File)]
      BY <2>13, <3>1 DEF FindMetadata, TypeOK
    <3>3. names' \in [Form -> SUBSET Path] /\ UNCHANGED <<disk, fetched, stable>>
      BY <2>13 DEF FindMetadata, TypeOK
    <3>4. Here \in Place \cup {NoPlace} /\ (Returns(FALSE, Here) \/ Returns(TRUE, NoPlace))
      BY <2>13, HereIsPlace DEF FindMetadata
    <3>. QED
      BY <3>2, <3>3, <3>4, <2>11
  <2>14. ASSUME NotFound PROVE TypeOK'
    <3>1. Returns(TRUE, NoPlace)
      BY <2>14 DEF NotFound
    <3>2. /\ UNCHANGED <<disk, fetched, stable>>
          /\ names' \in [Form -> SUBSET Path] /\ metadata' \in [Form -> Seq(File)]
      BY <2>14 DEF NotFound, lists, TypeOK
    <3>. QED
      BY <3>1, <3>2, <2>11
  <2>15. ASSUME ListNames PROVE TypeOK'
    <3>1. Returns(FALSE, NoPlace)
      BY <2>15 DEF ListNames
    <3>2. call.paths \in SUBSET Path
      BY DEF TypeOK, Call
    <3>3. names' \in [Form -> SUBSET Path]
      BY <2>15, <3>2 DEF ListNames, TypeOK
    <3>4. UNCHANGED <<disk, fetched, stable>> /\ metadata' \in [Form -> Seq(File)]
      BY <2>15 DEF ListNames, TypeOK
    <3>. QED
      BY <3>1, <3>3, <3>4, <2>11
  <2>16. ASSUME NEW f \in Form, NEW index \in Indices, GetItemName(f, index) PROVE TypeOK'
    <3>1. fetched' \in Fetched
      BY <2>16, IndexType, SearchAssumption DEF GetItemName, Fetch, Fetched
    <3>. QED
      BY <2>16, <3>1 DEF GetItemName, lists, TypeOK
  <2>17. ASSUME NEW f \in Form, NEW index \in Indices, GetItemMetadataFile(f, index) PROVE TypeOK'
    <3>1. MetadataLength(f, index) \in 0..(UnsignedModulus - 1)
      BY IndexType, LengthType
    <3>2. MetadataString(f, index) \in {"contents", "null", "unchanged"}
      BY DEF MetadataString
    <3>3. fetched' \in Fetched
      BY <2>17, <3>1, <3>2, IndexType DEF GetItemMetadataFile, Fetch, Fetched
    <3>. QED
      BY <2>17, <3>3 DEF GetItemMetadataFile, lists, TypeOK
  <2>18. ASSUME UNCHANGED vars PROVE TypeOK'
    BY <2>18 DEF vars, TypeOK
  <2>. QED
    BY <2>1, <2>3, <2>4, <2>5, <2>7, <2>8, <2>9, <2>10, <2>12, <2>13, <2>14, <2>15, <2>16, <2>17,
       <2>18 DEF Next
<1>. QED
  BY <1>1, <1>2, PTL DEF Spec

-----------------------------------------------------------------------------
(* The inductive invariant. *)

\* How far the search of the type has come
Upto == IF call.active THEN call.at ELSE LookedAt

\* What has been there all the time is not in a place the search has passed.
PassedPlaces ==
  call.operation \in {"find", "type"} => NoneStableBefore(call.within, call.type, Upto)

\* Nor under a type it has gone through.
PassedTypes ==
  call.operation = "type" =>
    /\ call.within = "all"
    /\ \A t \in 1..(call.type - 1) : NoneStableBefore("all", t, Len(Places(TypeOrder[t])) + 1)
    /\ ~call.active /\ answer.error => call.type = 3

\* What has been there all the time is in the paths when its directory was read.
ReadPlaces ==
  call.operation = "list" /\ call.active =>
    \A j \in 1..Len(ListPlaces), n \in Names :
      j < call.at /\ <<ListPlaces[j].directory, Type, n>> \in stable
        => <<ListPlaces[j].directory, n>> \in call.paths

SearchInv == PassedPlaces /\ PassedTypes /\ ReadPlaces /\ ListsAreComplete /\ FailedListsAreEmpty

\* Steps that leave the call and the lists alone.  What is stable can only shrink.
LEMMA FramePreserves ==
  ASSUME SearchInv, UNCHANGED <<call, answer, names, metadata>>, stable' \subseteq stable
  PROVE  SearchInv'
<1>1. /\ Type' = Type /\ SearchPlaces' = SearchPlaces /\ ListPlaces' = ListPlaces
      /\ LookedAt' = LookedAt /\ Upto' = Upto
  BY DEF Type, SearchPlaces, ListPlaces, LookedAt, Upto
<1>2. \A w, t, i : NoneStableBefore(w, t, i) => NoneStableBefore(w, t, i)'
  BY DEF NoneStableBefore
<1>3. PassedPlaces'
  BY <1>1, <1>2 DEF SearchInv, PassedPlaces
<1>4. PassedTypes'
  BY <1>1, <1>2 DEF SearchInv, PassedTypes
<1>5. ReadPlaces'
  BY <1>1 DEF SearchInv, ReadPlaces
<1>6. ListsAreComplete'
  BY <1>1 DEF SearchInv, ListsAreComplete, Answered
<1>7. FailedListsAreEmpty'
  BY DEF SearchInv, FailedListsAreEmpty
<1>. QED
  BY <1>3, <1>4, <1>5, <1>6, <1>7 DEF SearchInv

LEMMA BeginEstablishes ==
  ASSUME TypeOK, NEW o \in Operation, NEW n \in Names, NEW t \in 1..3, NEW w \in Within,
         Begins(o, n, t, w), o = "type" => t = 1 /\ w = "all",
         o = "metadata" => metadata' = [metadata EXCEPT ![FormOf(w)] = <<>>]
  PROVE  SearchInv'
<1>1. call' = [ operation |-> o, active |-> TRUE, form |-> FormOf(w), name |-> n,
                type |-> t, within |-> w, at |-> 1, paths |-> {} ]
  BY DEF Begins, NoCall
<1>2. PassedPlaces'
  <2>1. Upto' = 1
    BY <1>1 DEF Upto
  <2>2. NoneStableBefore(w, t, 1)'
    BY DEF NoneStableBefore
  <2>. QED
    BY <1>1, <2>1, <2>2 DEF PassedPlaces
<1>3. PassedTypes'
  BY <1>1 DEF PassedTypes
<1>4. ReadPlaces'
  BY <1>1 DEF ReadPlaces
<1>5. ListsAreComplete'
  BY <1>1 DEF ListsAreComplete, Answered
<1>6. FailedListsAreEmpty'
  <2>1. FormOf(w) \in Form
    BY DEF FormOf, Form
  <2>. QED
    BY <1>1, <2>1 DEF FailedListsAreEmpty, TypeOK
<1>. QED
  BY <1>2, <1>3, <1>4, <1>5, <1>6 DEF SearchInv

LEMMA PassPreserves ==
  ASSUME TypeOK, SearchInv, PassPlace
  PROVE  SearchInv'
<1>1. /\ Searching /\ call.operation # "list" /\ ~IsHere /\ call.active
      /\ call' = [call EXCEPT !.at = @ + 1]
      /\ UNCHANGED <<disk, answer, names, metadata, fetched, stable>>
  BY DEF PassPlace, Searching, lists
<1>2. call \in Call
  BY DEF TypeOK
<1>3. /\ call'.at = call.at + 1 /\ call'.operation = call.operation /\ call'.active = call.active
      /\ call'.within = call.within /\ call'.type = call.type /\ call'.name = call.name
      /\ call'.form = call.form
  BY <1>1, <1>2 DEF Call
<1>4. PassedPlaces'
  <2>. SUFFICES ASSUME call.operation \in {"find", "type"} PROVE PassedPlaces'
    BY <1>3 DEF PassedPlaces
  <2>1. NoneStableBefore(call.within, call.type, call.at)
    BY <1>1 DEF SearchInv, PassedPlaces, Upto
  <2>2. <<SearchPlaces[call.at].directory, Type, call.name>> \notin stable
    BY <1>1 DEF IsHere, Here, TypeOK
  <2>3. call.at \in Nat
    BY <1>2 DEF Call
  <2>4. SearchPlaces = PlacesWithin(call.within, TypeOrder[call.type]) /\ Type = TypeOrder[call.type]
    BY DEF SearchPlaces, PlacesWithin, Type
  <2>5. SearchPlaces \in Seq(Place)
    BY <1>1, HereIsPlace
  <2>6. \A k \in 1..Len(SearchPlaces) :
          k < call.at + 1 => <<SearchPlaces[k].directory, Type, call.name>> \notin stable
    BY <2>1, <2>2, <2>3, <2>4, <2>5 DEF NoneStableBefore
  <2>7. NoneStableBefore(call.within, call.type, call.at + 1)
    BY <2>4, <2>6 DEF NoneStableBefore
  <2>8. Upto' = call.at + 1
    BY <1>1, <1>3 DEF Upto
  <2>9. \A w, t, i : NoneStableBefore(w, t, i) => NoneStableBefore(w, t, i)'
    BY <1>1, <1>3 DEF NoneStableBefore
  <2>. QED
    BY <1>3, <2>7, <2>8, <2>9 DEF PassedPlaces
<1>5. PassedTypes'
  <2>1. \A t, i : NoneStableBefore("all", t, i) => NoneStableBefore("all", t, i)'
    BY <1>1, <1>3 DEF NoneStableBefore
  <2>. QED
    BY <1>1, <1>3, <2>1 DEF SearchInv, PassedTypes
<1>6. ReadPlaces' /\ ListsAreComplete'
  BY <1>1, <1>3 DEF ReadPlaces, ListsAreComplete, Answered
<1>7. FailedListsAreEmpty'
  BY <1>1, <1>3 DEF SearchInv, FailedListsAreEmpty
<1>. QED
  BY <1>4, <1>5, <1>6, <1>7 DEF SearchInv

\* A search for a file that ends
LEMMA FindPreserves ==
  ASSUME TypeOK, SearchInv, FindPlace \/ (NotFound /\ call.operation # "metadata")
  PROVE  SearchInv'
<1>. DEFINE error == ~FindPlace
<1>0. call \in Call
  BY DEF TypeOK
<1>1. /\ call.active /\ call.operation \in {"find", "type"}
      /\ UNCHANGED <<disk, names, metadata, fetched, stable>>
      /\ \E place : Returns(error, place)
      /\ error => Exhausted /\ (call.operation = "type" => call.type = 3)
  BY DEF FindPlace, NotFound, Searching, Exhausted, lists
<1>. HIDE DEF error
<1>2. /\ call'.operation = call.operation /\ call'.active = FALSE /\ call'.at = call.at
      /\ call'.within = call.within /\ call'.type = call.type /\ call'.name = call.name
      /\ call'.form = call.form /\ answer'.error = error
  BY <1>0, <1>1 DEF Returns, Call
<1>3. Type' = Type /\ SearchPlaces' = SearchPlaces
  BY <1>2 DEF Type, SearchPlaces
<1>4. PassedPlaces'
  <2>1. NoneStableBefore(call.within, call.type, call.at)
    BY <1>1 DEF SearchInv, PassedPlaces, Upto
  <2>2. Upto' = IF error THEN Len(SearchPlaces) + 1 ELSE call.at
    BY <1>2, <1>3 DEF Upto, LookedAt
  <2>3. NoneStableBefore(call.within, call.type, Upto')
    <3>1. CASE error
      <4>1. call.at > Len(SearchPlaces)
        BY <1>1, <3>1 DEF Exhausted
      <4>2. SearchPlaces = PlacesWithin(call.within, TypeOrder[call.type])
        BY DEF SearchPlaces, PlacesWithin, Type
      <4>3. SearchPlaces \in Seq(Place)
        BY <1>0, TypesAreItemTypes, PlacesWithinType DEF SearchPlaces, Type, Call
      <4>4. call.at \in Nat
        BY <1>0 DEF Call
      <4>. QED
        BY <2>1, <4>1, <4>2, <4>3, <4>4 DEF NoneStableBefore
    <3>2. CASE ~error
      BY <2>1, <2>2, <3>2
    <3>. QED
      BY <3>1, <3>2
  <2>4. \A i : NoneStableBefore(call.within, call.type, i) => NoneStableBefore(call.within, call.type, i)'
    BY <1>1, <1>2 DEF NoneStableBefore
  <2>. QED
    BY <1>2, <2>3, <2>4 DEF PassedPlaces
<1>5. PassedTypes'
  <2>1. \A t, i : NoneStableBefore("all", t, i) => NoneStableBefore("all", t, i)'
    BY <1>1, <1>2 DEF NoneStableBefore
  <2>. QED
    BY <1>1, <1>2, <2>1 DEF SearchInv, PassedTypes
<1>6. ReadPlaces' /\ ListsAreComplete' /\ FailedListsAreEmpty'
  BY <1>1, <1>2 DEF ReadPlaces, ListsAreComplete, FailedListsAreEmpty, Answered
<1>. QED
  BY <1>4, <1>5, <1>6 DEF SearchInv

LEMMA NextTypePreserves ==
  ASSUME TypeOK, SearchInv, NextType
  PROVE  SearchInv'
<1>0. call \in Call
  BY DEF TypeOK
<1>1. /\ call.active /\ call.operation = "type" /\ Exhausted
      /\ UNCHANGED <<disk, answer, names, metadata, fetched, stable>>
      /\ call' = [call EXCEPT !.type = @ + 1, !.at = 1]
  BY DEF NextType, Exhausted, lists
<1>2. /\ call'.operation = "type" /\ call'.active /\ call'.at = 1 /\ call'.within = call.within
      /\ call'.type = call.type + 1 /\ call'.name = call.name
  BY <1>0, <1>1 DEF Call
<1>3. PassedPlaces'
  <2>1. Upto' = 1
    BY <1>2 DEF Upto
  <2>. QED
    BY <2>1 DEF PassedPlaces, NoneStableBefore
<1>4. PassedTypes'
  <2>1. \A t, i : NoneStableBefore("all", t, i) => NoneStableBefore("all", t, i)'
    BY <1>1, <1>2 DEF NoneStableBefore
  <2>2. NoneStableBefore("all", call.type, call.at)
    BY <1>1 DEF SearchInv, PassedPlaces, PassedTypes, Upto
  <2>3. NoneStableBefore("all", call.type, Len(Places(TypeOrder[call.type])) + 1)
    <3>1. SearchPlaces = Places(TypeOrder[call.type])
      BY <1>1 DEF SearchInv, PassedTypes, SearchPlaces, PlacesWithin, Type
    <3>2. Places(TypeOrder[call.type]) = PlacesWithin("all", TypeOrder[call.type])
      BY DEF PlacesWithin
    <3>3. SearchPlaces \in Seq(Place)
      BY <1>0, TypesAreItemTypes, PlacesWithinType DEF SearchPlaces, Type, Call
    <3>4. call.at > Len(SearchPlaces) /\ call.at \in Nat
      BY <1>0, <1>1 DEF Exhausted, Call
    <3>. QED
      BY <2>2, <3>1, <3>2, <3>3, <3>4 DEF NoneStableBefore
  <2>4. \A t \in 1..(call.type - 1) : NoneStableBefore("all", t, Len(Places(TypeOrder[t])) + 1)
    BY <1>1 DEF SearchInv, PassedTypes
  <2>5. \A t \in 1..call.type : NoneStableBefore("all", t, Len(Places(TypeOrder[t])) + 1)
    <3>1. call.type \in 1..3
      BY <1>0 DEF Call
    <3>. QED
      BY <2>3, <2>4, <3>1
  <2>6. call'.within = "all" /\ call'.type - 1 = call.type
    <3>1. call.type \in 1..3 /\ call.within = "all"
      BY <1>0, <1>1 DEF Call, SearchInv, PassedTypes
    <3>. QED
      BY <1>2, <3>1
  <2>. QED
    BY <1>2, <2>1, <2>5, <2>6 DEF PassedTypes
<1>5. ReadPlaces' /\ ListsAreComplete' /\ FailedListsAreEmpty'
  BY <1>1, <1>2 DEF ReadPlaces, ListsAreComplete, FailedListsAreEmpty, Answered
<1>. QED
  BY <1>3, <1>4, <1>5 DEF SearchInv

LEMMA MetadataPreserves ==
  ASSUME TypeOK, SearchInv,
         \/ FindMetadataCollection
         \/ NotFound /\ call.operation = "metadata"
         \/ \E files \in MetadataFiles : FindMetadata(files)
  PROVE  SearchInv'
<1>0. call \in Call
  BY DEF TypeOK
<1>1. call.operation = "metadata" /\ call.active /\ metadata[call.form] = <<>>
  BY DEF FindMetadataCollection, FindMetadata, NotFound, Searching, Exhausted,
         SearchInv, FailedListsAreEmpty
<1>2. /\ call'.operation = "metadata" /\ call'.form = call.form
      /\ metadata' # metadata => ~call'.active /\ ~answer'.error
  <2>1. CASE FindMetadataCollection
    BY <1>0, <1>1, <2>1 DEF FindMetadataCollection, Call, lists
  <2>2. CASE NotFound
    BY <1>0, <1>1, <2>2 DEF NotFound, Returns, Call, lists
  <2>3. ASSUME NEW files \in MetadataFiles, FindMetadata(files)
        PROVE  /\ call'.operation = "metadata" /\ call'.form = call.form
               /\ metadata' # metadata => ~call'.active /\ ~answer'.error
    <3>1. \/ Returns(FALSE, Here)
          \/ Returns(TRUE, NoPlace) /\ metadata' = metadata
      BY <2>3 DEF FindMetadata
    <3>2. ASSUME NEW error \in BOOLEAN, NEW place, Returns(error, place)
          PROVE  /\ call'.operation = "metadata" /\ call'.form = call.form
                 /\ ~call'.active /\ answer'.error = error
      BY <1>0, <1>1, <3>2 DEF Returns, Call
    <3>. QED
      BY <3>1, <3>2
  <2>. QED
    BY <2>1, <2>2, <2>3
<1>3. FailedListsAreEmpty'
  BY <1>1, <1>2 DEF FailedListsAreEmpty
<1>4. PassedPlaces' /\ PassedTypes' /\ ReadPlaces' /\ ListsAreComplete'
  BY <1>2 DEF PassedPlaces, PassedTypes, ReadPlaces, ListsAreComplete, Answered
<1>. QED
  BY <1>3, <1>4 DEF SearchInv

LEMMA ListDirectoryPreserves ==
  ASSUME TypeOK, SearchInv, ListDirectory
  PROVE  SearchInv'
<1>. DEFINE dir == ListPlaces[call.at].directory
            found == {<<dir, n>> : n \in {m \in Names : <<dir, Type, m>> \in disk}}
<1>0. call \in Call
  BY DEF TypeOK
<1>1. /\ Searching /\ call.active /\ call.operation = "list"
      /\ UNCHANGED <<disk, answer, names, metadata, fetched, stable>>
      /\ call' = [call EXCEPT !.at = @ + 1, !.paths = @ \cup found]
  BY DEF ListDirectory, Searching, lists
<1>2. \A n \in Names : <<dir, Type, n>> \in stable => <<dir, n>> \in found
  BY DEF TypeOK
<1>. HIDE DEF found
<1>3. /\ call'.operation = "list" /\ call'.active /\ call'.at = call.at + 1
      /\ call'.within = call.within /\ call'.type = call.type /\ call'.form = call.form
      /\ call'.paths = call.paths \cup found
  BY <1>0, <1>1 DEF Call
<1>4. Type' = Type /\ ListPlaces' = ListPlaces
  BY <1>3 DEF Type, ListPlaces, SearchPlaces
<1>5. ReadPlaces'
  <2>1. \A j \in 1..Len(ListPlaces), n \in Names :
          j < call.at /\ <<ListPlaces[j].directory, Type, n>> \in stable
            => <<ListPlaces[j].directory, n>> \in call.paths
    BY <1>1 DEF SearchInv, ReadPlaces
  <2>2. call.at \in Nat /\ Len(ListPlaces) \in Nat
    BY <1>0, SamePlaces DEF Call
  <2>3. \A j \in 1..Len(ListPlaces), n \in Names :
          j < call.at + 1 /\ <<ListPlaces[j].directory, Type, n>> \in stable
            => <<ListPlaces[j].directory, n>> \in call.paths \cup found
    BY <1>2, <2>1, <2>2
  <2>. QED
    BY <1>1, <1>3, <1>4, <2>3 DEF ReadPlaces
<1>6. PassedPlaces' /\ PassedTypes' /\ ListsAreComplete' /\ FailedListsAreEmpty'
  BY <1>3 DEF PassedPlaces, PassedTypes, ListsAreComplete, FailedListsAreEmpty, Answered
<1>. QED
  BY <1>5, <1>6 DEF SearchInv

LEMMA ListNamesPreserves ==
  ASSUME TypeOK, SearchInv, ListNames
  PROVE  SearchInv'
<1>0. call \in Call
  BY DEF TypeOK
<1>1. /\ Exhausted /\ call.active /\ call.operation = "list"
      /\ UNCHANGED <<disk, metadata, fetched, stable>>
      /\ names' = [names EXCEPT ![call.form] = call.paths]
      /\ Returns(FALSE, NoPlace)
  BY DEF ListNames, Exhausted
<1>2. /\ call'.operation = "list" /\ ~call'.active /\ call'.at = call.at
      /\ call'.within = call.within /\ call'.type = call.type /\ call'.form = call.form
  BY <1>0, <1>1 DEF Returns, Call
<1>3. Type' = Type /\ SearchPlaces' = SearchPlaces
  BY <1>2 DEF Type, SearchPlaces
<1>4. names'[call'.form] = call.paths
  BY <1>0, <1>1, <1>2 DEF Call, TypeOK
<1>5. ListsAreComplete'
  <2>1. /\ ListPlaces \in Seq(Place) /\ Len(ListPlaces) = Len(SearchPlaces)
        /\ Elements(ListPlaces) = Elements(SearchPlaces)
    BY SamePlaces
  <2>2. \A j \in 1..Len(ListPlaces), n \in Names :
          <<ListPlaces[j].directory, Type, n>> \in stable => <<ListPlaces[j].directory, n>> \in call.paths
    <3>1. \A j \in 1..Len(ListPlaces) : j < call.at
      BY <1>0, <1>1, <2>1 DEF Exhausted, Call
    <3>. QED
      BY <1>1, <3>1 DEF SearchInv, ReadPlaces
  <2>3. \A x \in Elements(ListPlaces), n \in Names :
          <<x.directory, Type, n>> \in stable => <<x.directory, n>> \in call.paths
    BY <2>2 DEF Elements
  <2>4. \A i \in 1..Len(SearchPlaces) : SearchPlaces[i] \in Elements(ListPlaces)
    BY <2>1 DEF Elements
  <2>5. \A i \in 1..Len(SearchPlaces), n \in Names :
          <<SearchPlaces[i].directory, Type, n>> \in stable
            => <<SearchPlaces[i].directory, n>> \in call.paths
    BY <2>3, <2>4
  <2>. QED
    BY <1>1, <1>3, <1>4, <2>5 DEF ListsAreComplete
<1>6. PassedPlaces' /\ PassedTypes' /\ ReadPlaces' /\ FailedListsAreEmpty'
  BY <1>2 DEF PassedPlaces, PassedTypes, ReadPlaces, FailedListsAreEmpty
<1>. QED
  BY <1>5, <1>6 DEF SearchInv

LEMMA InitSearch == Init => SearchInv
<1>. SUFFICES ASSUME Init PROVE SearchInv
  OBVIOUS
<1>1. call.operation = "none"
  BY DEF Init, NoCall
<1>. QED
  BY <1>1 DEF SearchInv, PassedPlaces, PassedTypes, ReadPlaces, ListsAreComplete,
              FailedListsAreEmpty, Answered

LEMMA NextSearch == TypeOK /\ SearchInv /\ [Next]_vars => SearchInv'
<1>. SUFFICES ASSUME TypeOK, SearchInv, [Next]_vars PROVE SearchInv'
  OBVIOUS
<1>1. ASSUME NEW item \in Changing, Install(item) \/ Remove(item) PROVE SearchInv'
  <2>1. UNCHANGED <<call, answer, names, metadata>> /\ stable' \subseteq stable
    BY <1>1 DEF Install, Remove, lists
  <2>. QED
    BY <2>1, FramePreserves
<1>2. ASSUME NEW n \in Names, NEW t \in 1..3, NEW w \in Within,
             BeginFind(n, t, w) \/ BeginCacheMetadata(n, t, w)
      PROVE  SearchInv'
  <2>1. CASE BeginFind(n, t, w)
    <3>1. Begins("find", n, t, w) /\ "find" \in Operation
      BY <2>1 DEF BeginFind, Operation
    <3>. QED
      BY <3>1, BeginEstablishes
  <2>2. CASE BeginCacheMetadata(n, t, w)
    <3>1. /\ Begins("metadata", n, t, w) /\ "metadata" \in Operation
          /\ metadata' = [metadata EXCEPT ![FormOf(w)] = <<>>]
      BY <2>2 DEF BeginCacheMetadata, Operation
    <3>. QED
      BY <3>1, BeginEstablishes
  <2>. QED
    BY <1>2, <2>1, <2>2
<1>3. ASSUME NEW n \in Names, BeginGetItemType(n) PROVE SearchInv'
  <2>1. Begins("type", n, 1, "all") /\ "type" \in Operation /\ "all" \in Within /\ 1 \in 1..3
    BY <1>3 DEF BeginGetItemType, Operation, Within
  <2>. QED
    BY <2>1, BeginEstablishes
<1>4. ASSUME NEW t \in 1..3, NEW w \in Within, BeginCacheNames(t, w) PROVE SearchInv'
  <2>1. PICK n \in Names : Begins("list", n, t, w)
    BY <1>4 DEF BeginCacheNames
  <2>2. "list" \in Operation
    BY DEF Operation
  <2>. QED
    BY <2>1, <2>2, BeginEstablishes
<1>5. ASSUME NEW f \in Form, NEW index \in Indices,
             GetItemName(f, index) \/ GetItemMetadataFile(f, index)
      PROVE  SearchInv'
  <2>1. UNCHANGED <<call, answer, names, metadata>> /\ stable' \subseteq stable
    BY <1>5 DEF GetItemName, GetItemMetadataFile, lists
  <2>. QED
    BY <2>1, FramePreserves
<1>6. ASSUME UNCHANGED vars PROVE SearchInv'
  BY <1>6, FramePreserves DEF vars
<1>. QED
  BY <1>1, <1>2, <1>3, <1>4, <1>5, <1>6, PassPreserves, FindPreserves, NextTypePreserves,
     MetadataPreserves, ListDirectoryPreserves, ListNamesPreserves DEF Next

THEOREM SearchInvariant == Spec => []SearchInv
<1>1. Spec => []TypeOK
  BY TypeCorrect
<1>. QED
  BY <1>1, InitSearch, NextSearch, PTL DEF Spec

-----------------------------------------------------------------------------
(* What callers rely on. *)

\* A look-up of an item by its type and name finds one that is there all the
\* time, or one in an earlier place, whatever other processes do.
THEOREM StableItems == Spec => []StableItemsAreFound
<1>1. SearchInv => StableItemsAreFound
  BY DEF SearchInv, PassedPlaces, Upto, StableItemsAreFound, Answered
<1>. QED
  BY <1>1, SearchInvariant, PTL

\* GetItemType finds a name that is there all the time, and none of a type that
\* comes before the one it answers.
THEOREM StableTypes == Spec => []StableTypesAreFound
<1>1. SearchInv => StableTypesAreFound
  BY DEF SearchInv, PassedPlaces, PassedTypes, Upto, StableTypesAreFound, Answered
<1>. QED
  BY <1>1, SearchInvariant, PTL

\* A list holds every item that is there while it is made.
THEOREM CompleteLists == Spec => []ListsAreComplete
<1>1. SearchInv => ListsAreComplete
  BY DEF SearchInv
<1>. QED
  BY <1>1, SearchInvariant, PTL

\* A list of metadata files is empty when it could not be made.
THEOREM EmptyLists == Spec => []FailedListsAreEmpty
<1>1. SearchInv => FailedListsAreEmpty
  BY DEF SearchInv
<1>. QED
  BY <1>1, SearchInvariant, PTL

\* A name that is there all the time is found, and so is its type.
THEOREM StableFound == Spec => []StableIsFound
<1>1. StableItemsAreFound /\ StableTypesAreFound => StableIsFound
  BY DEF StableIsFound
<1>. QED
  BY <1>1, StableItems, StableTypes, PTL

\* A list holds all it should, or nothing.
THEOREM RightLists == Spec => []ListsAreRight
<1>1. TypeOK /\ ListsAreComplete /\ FailedListsAreEmpty => ListsAreRight
  BY DEF ListsAreRight
<1>. QED
  BY <1>1, TypeCorrect, CompleteLists, EmptyLists, PTL
=============================================================================
