------------------------- MODULE CollectionsSearch -------------------------
(***************************************************************************)
(* One CollectionsImplementation object, while other processes install and *)
(* remove items.  A search tests one file after the other; lists are kept  *)
(* in the object until they are made again.                                *)
(***************************************************************************)
EXTENDS Collections, Integers

CONSTANTS
  Operations,     \* the calls that are made
  InitialDisks,   \* the sets of items that may be installed at the start
  Changing,       \* the items that may be installed or removed meanwhile
  NoPlace,        \* nothing found
  MaxLength,      \* metadata files have at most this many bytes
  UnsignedModulus \* 2^32: unsigned int

Operation == {"find", "type", "metadata", "list"}

ASSUME SearchAssumption ==
  /\ Operations \subseteq Operation
  /\ InitialDisks \subseteq SUBSET Item /\ Changing \subseteq Item
  /\ NoPlace \notin Place
  /\ MaxLength \in Nat /\ UnsignedModulus \in Nat /\ MaxLength < UnsignedModulus

VARIABLES
  disk,       \* the items whose library file exists
  call,       \* the call in progress, or the last one
  answer,     \* what it returned
  names,      \* cacheListOfItemNames...: the paths whose last parts the lists hold
  metadata,   \* cacheListOfItemMetadataFiles...: the files in the lists
  fetched,    \* what the last Get with an index returned
  stable      \* history: items on disk ever since the call began

vars == <<disk, call, answer, names, metadata, fetched, stable>>
lists == <<names, metadata>>

\* Where a call looks: in one collection or in all
Within == Collection \cup {"all"}
\* The object keeps each kind of list twice, for the two forms of the calls.
Form == {"ByType", "ByCollectionAndType"}
FormOf(within) == IF within = "all" THEN "ByType" ELSE "ByCollectionAndType"

Path == Directories \X Names
\* A metadata file; it is a text when it has no null character.
File == [length : 0..MaxLength, text : BOOLEAN]

Call == [ operation : Operation \cup {"none"},
          active : BOOLEAN,
          form : Form,
          name : Names,
          type : 1..3,          \* the position in TypeOrder
          within : Within,      \* where it looks now
          at : Nat \ {0},       \* the next place there to look at
          paths : SUBSET Path ] \* listOfPaths
Answer == [error : BOOLEAN, place : Place \cup {NoPlace}]
Fetched == [ kind : {"none", "entry", "error", "pastTheEnd"}, form : Form, index : Int,
             length : 0..(UnsignedModulus - 1),
             string : {"contents", "null", "unchanged"} ]

Type == TypeOrder[call.type]
PlacesWithin(w, t) == IF w = "all" THEN Places(t) ELSE PlacesOf(w, t)
SearchPlaces == PlacesWithin(call.within, Type)
Searching == call.active /\ call.at <= Len(SearchPlaces)
Exhausted == call.active /\ call.at > Len(SearchPlaces)

NoCall(n) == [ operation |-> "none", active |-> FALSE, form |-> "ByType", name |-> n,
               type |-> 1, within |-> "all", at |-> 1, paths |-> {} ]
Nothing == [ kind |-> "none", form |-> "ByType", index |-> 0, length |-> 0,
             string |-> "unchanged" ]

Init ==
  /\ disk \in InitialDisks
  /\ \E n \in Names : call = NoCall(n)
  /\ answer = [error |-> FALSE, place |-> NoPlace]
  /\ names = [f \in Form |-> {}]
  /\ metadata = [f \in Form |-> <<>>]
  /\ fetched = Nothing
  /\ stable = disk

(***************************************************************************)
(* Other processes: an installation makes the library file of an item, a   *)
(* removal takes it away.                                                  *)
(***************************************************************************)
Install(item) ==
  /\ item \in Changing \ disk
  /\ disk' = disk \cup {item}
  /\ UNCHANGED <<call, answer, lists, fetched, stable>>

Remove(item) ==
  /\ item \in Changing \cap disk
  /\ disk' = disk \ {item}
  /\ stable' = stable \ {item}
  /\ UNCHANGED <<call, answer, lists, fetched>>

(***************************************************************************)
(* The calls.  What the last one returned is forgotten with the next.      *)
(***************************************************************************)
Begins(operation, n, t, w) ==
  /\ operation \in Operations
  /\ ~call.active
  /\ call' = [NoCall(n) EXCEPT !.operation = operation, !.active = TRUE,
                               !.form = FormOf(w), !.type = t, !.within = w]
  /\ stable' = disk
  /\ fetched' = Nothing
  /\ UNCHANGED <<disk, answer>>

\* GetItemLibraryFileNameAndCollection, GetItemLibraryFileNameByCollectionAndType
BeginFind(n, t, w) == Begins("find", n, t, w) /\ UNCHANGED lists

BeginGetItemType(n) == Begins("type", n, 1, "all") /\ UNCHANGED lists

\* CacheListOfItemMetadataFiles, CacheListOfItemMetadataFilesByCollectionAndType
\* clear the list first.
BeginCacheMetadata(n, t, w) ==
  /\ Begins("metadata", n, t, w)
  /\ metadata' = [metadata EXCEPT ![FormOf(w)] = <<>>]
  /\ UNCHANGED names

\* CacheListOfItemNamesByType, CacheListOfItemNamesByCollectionAndType
BeginCacheNames(t, w) ==
  /\ \E n \in Names : Begins("list", n, t, w)
  /\ names' = [names EXCEPT ![FormOf(w)] = {}]
  /\ UNCHANGED metadata

Returns(error, place) ==
  /\ answer' = [error |-> error, place |-> place]
  /\ call' = [call EXCEPT !.active = FALSE, !.paths = {}]

Here == SearchPlaces[call.at]
IsHere == <<Here.directory, Type, call.name>> \in disk

\* Fault: the search goes on with the next directory but one.
PassPlaceTwice ==
  /\ Searching /\ call.operation # "list" /\ ~IsHere
  /\ call' = [call EXCEPT !.at = @ + 2]
  /\ UNCHANGED <<disk, answer, lists, fetched, stable>>

\* libPath.exists(): not here
PassPlace ==
  /\ Searching /\ call.operation # "list" /\ ~IsHere
  /\ call' = [call EXCEPT !.at = @ + 1]
  /\ UNCHANGED <<disk, answer, lists, fetched, stable>>

FindPlace ==
  /\ Searching /\ call.operation \in {"find", "type"} /\ IsHere
  /\ Returns(FALSE, Here)
  /\ UNCHANGED <<disk, lists, fetched, stable>>

\* The item's collection is known; the search for its file starts anew there.
FindMetadataCollection ==
  /\ Searching /\ call.operation = "metadata" /\ call.within = "all" /\ IsHere
  /\ call' = [call EXCEPT !.within = Here.collection, !.at = 1]
  /\ UNCHANGED <<disk, answer, lists, fetched, stable>>

\* The library is opened and its files are copied; or opening fails, for
\* instance because the file is gone by now.
FindMetadata(files) ==
  /\ Searching /\ call.operation = "metadata" /\ call.within # "all" /\ IsHere
  /\ \/ Returns(FALSE, Here) /\ metadata' = [metadata EXCEPT ![call.form] = files]
     \/ Returns(TRUE, NoPlace) /\ UNCHANGED metadata
  /\ UNCHANGED <<disk, names, fetched, stable>>

\* PrivateGetItemType goes on with the next type.
NextType ==
  /\ Exhausted /\ call.operation = "type" /\ call.type < 3
  /\ call' = [call EXCEPT !.type = @ + 1, !.at = 1]
  /\ UNCHANGED <<disk, answer, lists, fetched, stable>>

NotFound ==
  /\ Exhausted
  /\ call.operation \in {"find", "metadata"} \/ (call.operation = "type" /\ call.type = 3)
  /\ Returns(TRUE, NoPlace)
  /\ UNCHANGED <<disk, lists, fetched, stable>>

\* The lists go through the collections from the last to the first.
ListPlaces ==
  IF call.within # "all" THEN SearchPlaces
  ELSE PlacesOf(SearchOrder[4], Type) \o PlacesOf(SearchOrder[3], Type)
         \o PlacesOf(SearchOrder[2], Type) \o PlacesOf(SearchOrder[1], Type)

\* Fault: the paths of a directory replace those of the directories before it.
ListDirectoryOnly ==
  /\ Searching /\ call.operation = "list"
  /\ LET dir == ListPlaces[call.at].directory
     IN  call' = [call EXCEPT !.at = @ + 1,
           !.paths = {<<dir, n>> : n \in {m \in Names : <<dir, Type, m>> \in disk}}]
  /\ UNCHANGED <<disk, answer, lists, fetched, stable>>

\* PrivateGetListOfItemPathsByCollectionAndType reads one directory and tests
\* its subdirectories, here in one step.
ListDirectory ==
  /\ Searching /\ call.operation = "list"
  /\ LET dir == ListPlaces[call.at].directory
     IN  call' = [call EXCEPT !.at = @ + 1,
           !.paths = @ \cup {<<dir, n>> : n \in {m \in Names : <<dir, Type, m>> \in disk}}]
  /\ UNCHANGED <<disk, answer, lists, fetched, stable>>

\* Sorted and without duplicates: a set.
ListNames ==
  /\ Exhausted /\ call.operation = "list"
  /\ names' = [names EXCEPT ![call.form] = call.paths]
  /\ Returns(FALSE, NoPlace)
  /\ UNCHANGED <<disk, metadata, fetched, stable>>

(***************************************************************************)
(* The getters.  An index is refused when it is negative or above the size *)
(* of the list.                                                            *)
(***************************************************************************)
Fetch(f, index, size, length, string) ==
  fetched' = [ kind |-> IF index < 0 \/ index > size THEN "error"
                        ELSE IF index = size THEN "pastTheEnd" ELSE "entry",
               form |-> f, index |-> index, length |-> length, string |-> string ]

\* GetItemNameByType, GetItemNameByCollectionAndType
GetItemName(f, index) ==
  /\ ~call.active /\ call.operation = "list"
  /\ Fetch(f, index, Cardinality(names[f]), 0, "unchanged")
  /\ UNCHANGED <<disk, call, answer, lists, stable>>

\* The length is that of the data less one, as an unsigned int; the string is
\* set, or not, when it cannot be given.  Outside the list nothing is known.
MetadataLength(f, index) ==
  IF index + 1 \in DOMAIN metadata[f]
  THEN (metadata[f][index + 1].length - 1) % UnsignedModulus ELSE 0
MetadataString(f, index) ==
  IF index + 1 \notin DOMAIN metadata[f] THEN "unchanged"
  ELSE IF metadata[f][index + 1].text THEN "contents"
  ELSE IF f = "ByType" THEN "null" ELSE "unchanged"

\* GetItemMetadataFile, GetItemMetadataFileByCollectionAndType
GetItemMetadataFile(f, index) ==
  /\ ~call.active /\ call.operation = "metadata"
  /\ Fetch(f, index, Len(metadata[f]), MetadataLength(f, index), MetadataString(f, index))
  /\ UNCHANGED <<disk, call, answer, lists, stable>>

\* One beyond the largest lists
Indices == -1..(Cardinality(Path) + 1)
\* At most one file: enough for lists that are empty and lists that are not
MetadataFiles == UNION {[1..k -> File] : k \in 0..1}

Next ==
  \/ \E item \in Changing : Install(item) \/ Remove(item)
  \/ \E n \in Names, t \in 1..3, w \in Within : BeginFind(n, t, w) \/ BeginCacheMetadata(n, t, w)
  \/ \E n \in Names : BeginGetItemType(n)
  \/ \E t \in 1..3, w \in Within : BeginCacheNames(t, w)
  \/ PassPlace \/ FindPlace \/ FindMetadataCollection
  \/ \E files \in MetadataFiles : FindMetadata(files)
  \/ NextType \/ NotFound \/ ListDirectory \/ ListNames
  \/ \E f \in Form, index \in Indices : GetItemName(f, index) \/ GetItemMetadataFile(f, index)

Spec == Init /\ [][Next]_vars

(***************************************************************************)
(* What must hold.                                                         *)
(***************************************************************************)
\* The variables have their types.
TypeOK ==
  /\ disk \subseteq Item
  /\ call \in Call
  /\ answer \in Answer
  /\ names \in [Form -> SUBSET Path]
  /\ metadata \in [Form -> Seq(File)]
  /\ fetched \in Fetched
  /\ stable \subseteq disk

\* The first places where a call looked for type t hold no item of its name that
\* has been there all the time.
NoneStableBefore(w, t, i) ==
  \A j \in 1..Len(PlacesWithin(w, TypeOrder[t])) :
    j < i => <<PlacesWithin(w, TypeOrder[t])[j].directory, TypeOrder[t], call.name>> \notin stable

\* There the search stopped, or it went through all of them.
LookedAt == IF answer.error THEN Len(SearchPlaces) + 1 ELSE call.at

Answered(operation) == ~call.active /\ call.operation = operation

\* A look-up finds an item that is there from its beginning to its end, unless
\* it finds one in an earlier place: other processes that install and remove
\* items while the files are tested one by one cannot hide it.
StableItemsAreFound ==
  Answered("find") => NoneStableBefore(call.within, call.type, LookedAt)

\* GetItemType finds a name that is there all the time, and no type of a higher
\* rank under that name is.
StableTypesAreFound ==
  Answered("type") =>
    /\ \A t \in 1..(call.type - 1) : NoneStableBefore("all", t, Len(Places(TypeOrder[t])) + 1)
    /\ NoneStableBefore("all", call.type, LookedAt)
    /\ answer.error => call.type = 3

\* A list contains every item of its type that was there while it was made,
\* in the form of the list that was asked for.
ListsAreComplete ==
  Answered("list") =>
    \A i \in 1..Len(SearchPlaces), n \in Names :
      <<SearchPlaces[i].directory, Type, n>> \in stable
        => <<SearchPlaces[i].directory, n>> \in names[call.form]

\* What the cached lists of metadata hold is of the item that was asked for last:
\* after an error they are empty.
FailedListsAreEmpty ==
  call.operation = "metadata" /\ (call.active \/ answer.error) => metadata[call.form] = <<>>

\* While nothing changes, GetItemType answers as its documentation says.
\* (The code does not keep this: README, "What the documentation says and the code does not do".)
TypesFollowDocumentedOrder ==
  Answered("type") /\ ~answer.error => Type = DocumentedItemType(disk, call.name)

\* An index that is not below the size of the list is refused.
\* (The code does not keep this: README, "What the documentation says and the code does not do".)
PastTheEndIsRefused == fetched.kind # "pastTheEnd"

FetchedFile == metadata[fetched.form][fetched.index + 1]
\* The length that is given for a metadata file is its length.
\* (The code does not keep this: README, "What the documentation says and the code does not do".)
LengthIsTheFiles ==
  Answered("metadata") /\ fetched.kind = "entry" => fetched.length = FetchedFile.length

\* The string that is given for a metadata file that is not a text is null.
\* (The code does not keep this: README, "What the documentation says and the code does not do".)
StringIsNullOtherwise ==
  Answered("metadata") /\ fetched.kind = "entry" /\ ~FetchedFile.text
    => fetched.string = "null"

\* Other processes that install and remove items cannot hide an item, or its type,
\* that is there all the time.
StableIsFound == StableItemsAreFound /\ StableTypesAreFound

\* A cached list is one of its call: all of it, with lengths a caller can be told, or
\* empty after an error.
ListsAreRight == TypeOK /\ ListsAreComplete /\ FailedListsAreEmpty
=============================================================================
