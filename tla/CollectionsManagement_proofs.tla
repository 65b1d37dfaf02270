-------------------- MODULE CollectionsManagement_proofs --------------------
(***************************************************************************)
(* What the script kim-api-collections-management does with the items, for *)
(* all lists of directories, all items and any number of scripts: an item  *)
(* is installed where it was to be and with its driver, what one script    *)
(* installs is what simulators find, and remove-all, alone, removes        *)
(* everything and nothing else.                                            *)
(***************************************************************************)
EXTENDS CollectionsManagement, FiniteSetTheorems, TLAPS

-----------------------------------------------------------------------------
(* Where items are found. *)

LEMMA ItemTypes ==
  /\ ItemType = {"modelDriver", "portableModel", "simulatorModel"}
  /\ ScriptTypes[1] = "modelDriver" /\ ScriptTypes[2] = "portableModel" /\ ScriptTypes[3] = "simulatorModel"
  /\ \A j \in 1..3 : ScriptTypes[j] \in ItemType
  /\ \A t \in ItemType : \E j \in 1..3 : ScriptTypes[j] = t
<1>1. ItemType = {"modelDriver", "portableModel", "simulatorModel"}
  <2>1. \A i \in 1..3 : i = 1 \/ i = 2 \/ i = 3
    OBVIOUS
  <2>2. TypeOrder[1] = "portableModel" /\ TypeOrder[2] = "simulatorModel" /\ TypeOrder[3] = "modelDriver"
    BY DEF TypeOrder
  <2> QED BY <2>1, <2>2 DEF ItemType
<1>2. ScriptTypes[1] = "modelDriver" /\ ScriptTypes[2] = "portableModel" /\ ScriptTypes[3] = "simulatorModel"
  BY DEF ScriptTypes
<1>3. \A j \in 1..3 : j = 1 \/ j = 2 \/ j = 3
  OBVIOUS
<1> QED BY <1>1, <1>2, <1>3

LEMMA TheCollections ==
  /\ Collection = {"currentWorkingDirectory", "environmentVariable", "user", "system"}
  /\ \A c \in Collection : \E i \in 1..4 : SearchOrder[i] = c
<1>1. \A i \in 1..4 : i = 1 \/ i = 2 \/ i = 3 \/ i = 4
  OBVIOUS
<1>2. /\ SearchOrder[1] = "currentWorkingDirectory" /\ SearchOrder[2] = "environmentVariable"
      /\ SearchOrder[3] = "user" /\ SearchOrder[4] = "system"
  BY DEF SearchOrder
<1> QED BY <1>1, <1>2 DEF Collection

DirectoriesOf(c, t) == {DirsOf[c][t][i] : i \in 1..Len(DirsOf[c][t])}

LEMMA PlacesOfType ==
  ASSUME NEW c \in Collection, NEW t \in ItemType
  PROVE  /\ DirsOf[c][t] \in Seq(Directories) /\ DirectoriesOf(c, t) \subseteq Directories
         /\ PlacesOf(c, t) \in Seq(Place)
         /\ Len(PlacesOf(c, t)) = Len(DirsOf[c][t]) /\ Len(DirsOf[c][t]) \in Nat
         /\ \A i \in 1..Len(DirsOf[c][t]) : PlacesOf(c, t)[i] = [collection |-> c, directory |-> DirsOf[c][t][i]]
<1>1. DirsOf[c][t] \in Seq(Directories)
  BY CollectionsAssumption
<1>2. \A i \in 1..Len(DirsOf[c][t]) : DirsOf[c][t][i] \in Directories
  BY <1>1
<1>3. PlacesOf(c, t) \in [1..Len(DirsOf[c][t]) -> Place]
  BY <1>2 DEF PlacesOf, Place
<1>4. Len(DirsOf[c][t]) \in Nat
  BY <1>1
<1>5. PlacesOf(c, t) \in Seq(Place) /\ Len(PlacesOf(c, t)) = Len(DirsOf[c][t])
  BY <1>3, <1>4
<1> QED BY <1>1, <1>2, <1>4, <1>5 DEF PlacesOf, DirectoriesOf

Elements(s) == {s[i] : i \in 1..Len(s)}

LEMMA ConcatElements ==
  ASSUME NEW a \in Seq(Place), NEW b \in Seq(Place)
  PROVE  a \o b \in Seq(Place) /\ Elements(a \o b) = Elements(a) \cup Elements(b)
<1>1. a \o b \in Seq(Place) /\ Len(a \o b) = Len(a) + Len(b)
  OBVIOUS
<1>2. \A i \in 1..Len(a) : i \in 1..Len(a \o b) /\ (a \o b)[i] = a[i]
  OBVIOUS
<1>3. \A i \in 1..Len(b) : Len(a) + i \in 1..Len(a \o b) /\ (a \o b)[Len(a) + i] = b[i]
  OBVIOUS
<1>4. ASSUME NEW j \in 1..Len(a \o b) PROVE (a \o b)[j] \in Elements(a) \cup Elements(b)
  <2>1. CASE j <= Len(a)
    BY <2>1, <1>2 DEF Elements
  <2>2. CASE j > Len(a)
    <3>1. j - Len(a) \in 1..Len(b)
      BY <2>2, <1>1
    <3>2. (a \o b)[j] = b[j - Len(a)]
      BY <3>1, <1>3, <1>1, <2>2
    <3> QED BY <3>1, <3>2 DEF Elements
  <2> QED BY <2>1, <2>2, <1>1
<1>5. Elements(a) \subseteq Elements(a \o b)
  BY <1>2 DEF Elements
<1>6. Elements(b) \subseteq Elements(a \o b)
  BY <1>3 DEF Elements
<1>7. Elements(a \o b) \subseteq Elements(a) \cup Elements(b)
  BY <1>4 DEF Elements
<1> QED BY <1>1, <1>5, <1>6, <1>7

\* A search looks in the directories of all collections.
LEMMA PlacesAre ==
  ASSUME NEW t \in ItemType
  PROVE  /\ Places(t) \in Seq(Place)
         /\ \A d : (\E e \in Elements(Places(t)) : e.directory = d)
                     <=> \E c \in Collection : d \in DirectoriesOf(c, t)
<1> DEFINE a == PlacesOf("currentWorkingDirectory", t)  b == PlacesOf("environmentVariable", t)
           c == PlacesOf("user", t)                     e == PlacesOf("system", t)
<1>1. /\ a \in Seq(Place) /\ b \in Seq(Place) /\ c \in Seq(Place) /\ e \in Seq(Place)
  BY PlacesOfType, TheCollections
<1>2. Places(t) = ((a \o b) \o c) \o e
  BY DEF Places, SearchOrder
<1>3. Elements(Places(t)) = Elements(a) \cup Elements(b) \cup Elements(c) \cup Elements(e)
      /\ Places(t) \in Seq(Place)
  <2> HIDE DEF a, b, c, e
  <2>1. a \o b \in Seq(Place) /\ Elements(a \o b) = Elements(a) \cup Elements(b)
    BY <1>1, ConcatElements
  <2>2. /\ (a \o b) \o c \in Seq(Place)
        /\ Elements((a \o b) \o c) = Elements(a \o b) \cup Elements(c)
    BY <1>1, <2>1, ConcatElements
  <2>3. /\ ((a \o b) \o c) \o e \in Seq(Place)
        /\ Elements(((a \o b) \o c) \o e) = Elements((a \o b) \o c) \cup Elements(e)
    BY <1>1, <2>2, ConcatElements
  <2> QED BY <1>2, <2>1, <2>2, <2>3
<1>4. ASSUME NEW k \in Collection, NEW d
      PROVE  (\E x \in Elements(PlacesOf(k, t)) : x.directory = d) <=> d \in DirectoriesOf(k, t)
  <2> DEFINE n == Len(DirsOf[k][t])  dirs == DirsOf[k][t]  p == PlacesOf(k, t)
  <2>1. Len(p) = n /\ \A i \in 1..n : p[i].directory = dirs[i]
    <3>1. \A i \in 1..n : p[i] = [collection |-> k, directory |-> dirs[i]]
      BY PlacesOfType
    <3>2. Len(p) = n
      BY PlacesOfType
    <3> HIDE DEF p, n, dirs
    <3> QED BY <3>1, <3>2
  <2> HIDE DEF n, dirs, p
  <2>2. (\E x \in {p[i] : i \in 1..Len(p)} : x.directory = d) <=> d \in {dirs[i] : i \in 1..n}
    BY <2>1
  <2> QED BY <2>2 DEF Elements, DirectoriesOf, n, dirs, p
<1>5. ASSUME NEW d
      PROVE  (\E x \in Elements(Places(t)) : x.directory = d) <=> \E k \in Collection : d \in DirectoriesOf(k, t)
  <2>1. (\E x \in Elements(Places(t)) : x.directory = d) <=>
          \/ \E x \in Elements(a) : x.directory = d
          \/ \E x \in Elements(b) : x.directory = d
          \/ \E x \in Elements(c) : x.directory = d
          \/ \E x \in Elements(e) : x.directory = d
    BY <1>3
  <2> HIDE DEF Elements
  <2> QED BY <2>1, <1>4, TheCollections
<1> QED BY <1>3, <1>5

LEMMA FirstOfSome ==
  ASSUME NEW S \in SUBSET Nat, S # {}
  PROVE  First(S) \in S
<1>1. \E x \in S : \A y \in S : <<y, x>> \notin OpToRel(<, Nat)
  BY NatLessThanWellFounded, WFMin
<1>2. ASSUME NEW x \in Nat, NEW y \in Nat, y < x PROVE <<y, x>> \in OpToRel(<, Nat)
  BY <1>2 DEF OpToRel
<1>3. PICK x \in S : \A y \in S : <<y, x>> \notin OpToRel(<, Nat)
  BY <1>1
<1>4. \A y \in S : x <= y
  <2>1. TAKE y \in S
  <2>2. x \in Nat /\ y \in Nat
    BY <1>3
  <2>3. ~(y < x)
    BY <1>2, <1>3, <2>2
  <2> QED BY <2>2, <2>3
<1> QED BY <1>4 DEF First

\* An item is installed if it is in a directory of a collection, and one such is found.
LEMMA Installed ==
  ASSUME NEW D, NEW t \in ItemType, NEW n
  PROVE  /\ IsInstalled(D, t, n) <=>
              \E c \in Collection : \E d \in DirectoriesOf(c, t) : <<d, t, n>> \in D
         /\ IsInstalled(D, t, n) =>
              /\ Finds(D, t, n).collection \in Collection
              /\ Finds(D, t, n).directory \in Directories
              /\ <<Finds(D, t, n).directory, t, n>> \in D
              /\ \E c \in Collection : Finds(D, t, n).directory \in DirectoriesOf(c, t)
<1> DEFINE places == Places(t)  at == FoundAt(D, places, t, n)
<1>1. places \in Seq(Place) /\ DOMAIN places = 1..Len(places) /\ Len(places) \in Nat
  BY PlacesAre
<1>2. at = {i \in 1..Len(places) : <<places[i].directory, t, n>> \in D}
  BY <1>1 DEF FoundAt
<1>3. IsInstalled(D, t, n) <=> \E e \in Elements(places) : <<e.directory, t, n>> \in D
  BY <1>2 DEF IsInstalled, Elements
<1>4. IsInstalled(D, t, n) <=> \E c \in Collection : \E d \in DirectoriesOf(c, t) : <<d, t, n>> \in D
  <2> HIDE DEF places
  <2>1. \A d : (\E e \in Elements(places) : e.directory = d) <=> \E c \in Collection : d \in DirectoriesOf(c, t)
    BY PlacesAre DEF places
  <2> HIDE DEF Elements
  <2> QED BY <1>3, <2>1
<1>5. ASSUME IsInstalled(D, t, n)
      PROVE  /\ Finds(D, t, n).collection \in Collection
             /\ Finds(D, t, n).directory \in Directories
             /\ <<Finds(D, t, n).directory, t, n>> \in D
             /\ \E c \in Collection : Finds(D, t, n).directory \in DirectoriesOf(c, t)
  <2>1. at # {} /\ at \in SUBSET Nat
    BY <1>1, <1>2, <1>5 DEF IsInstalled
  <2>2. First(at) \in at
    BY <2>1, FirstOfSome
  <2>3. Finds(D, t, n) = places[First(at)]
    BY DEF Finds
  <2>4. Finds(D, t, n) \in Elements(places) /\ Finds(D, t, n) \in Place
    <3>1. First(at) \in 1..Len(places)
      BY <1>2, <2>2
    <3>2. places[First(at)] \in Place
      BY <1>1, <3>1
    <3> QED BY <2>3, <3>1, <3>2 DEF Elements
  <2>5. <<Finds(D, t, n).directory, t, n>> \in D
    BY <1>2, <2>2, <2>3
  <2>6. \E c \in Collection : Finds(D, t, n).directory \in DirectoriesOf(c, t)
    BY <2>4, PlacesAre
  <2> QED BY <2>4, <2>5, <2>6 DEF Place
<1> QED BY <1>4, <1>5
-----------------------------------------------------------------------------
(* What the steps make of the variables of their script. *)

\* The list and the first directory of the collection a script installs into
ListIn(s, t) ==
  CASE s.collection = "system" -> DirsOf["system"][t]
    [] s.collection = "user" -> DirsOf["user"][t]
    [] s.collection = "environment" ->
         IF s.cwdFirst THEN <<WorkingDirectory>> \o DirsOf["environmentVariable"][t]
         ELSE DirsOf["environmentVariable"][t]
    [] OTHER -> <<>>
FirstIn(s, t) == Head(ListIn(s, t))

Ending(s, status) == [s EXCEPT !.stage = "idle", !.status = status]
AfterInstall(s, status) ==
  IF s.model = NoName THEN Ending(s, status)
  ELSE [s EXCEPT !.stage = "making", !.item = s.model, !.model = NoName,
                 !.target = s.aside, !.aside = NoPlace, !.warned = (status = "failure")]
AfterRefusal(s) == IF s.command = "install" THEN AfterInstall(s, "failure") ELSE Ending(s, "failure")
AfterRemove(s) ==
  CASE s.command = "remove" -> Ending(s, "success")
    [] s.command = "remove-all" -> [s EXCEPT !.stage = "taking"]
    [] s.command = "install" -> [s EXCEPT !.stage = "configuring"]
    [] s.command = "reinstall" ->
         [s EXCEPT !.stage = "sourcing", !.removing = FALSE, !.found = NoPlace, !.type = 1, !.sudo = FALSE]

Changed(p, new) ==
  Becomes(p, new) /\ script'[p] = new /\ \A q \in Scripts \ {p} : script'[q] = script[q]

LEMMA BecomesChanged ==
  ASSUME TypeOK, NEW p \in Scripts, NEW new, Becomes(p, new)
  PROVE  Changed(p, new)
BY DEF TypeOK, Becomes, Changed

LEMMA Returns ==
  ASSUME TypeOK, NEW p \in Scripts
  PROVE  /\ \A status : Ends(p, status) => Changed(p, Ending(script[p], status))
         /\ \A status : InstallEnds(p, status) => Changed(p, AfterInstall(script[p], status))
         /\ RemoveFails(p) => Changed(p, AfterRefusal(script[p]))
         /\ RemoveEnds(p) => Changed(p, AfterRemove(script[p]))
         /\ \A t : ListFor(p, t) = ListIn(script[p], t) /\ FirstDir(p, t) = FirstIn(script[p], t)
<1>1. \A status : Ends(p, status) => Changed(p, Ending(script[p], status))
  BY BecomesChanged DEF Ends, Ending
<1>2. \A status : InstallEnds(p, status) => Changed(p, AfterInstall(script[p], status))
  BY <1>1, BecomesChanged DEF InstallEnds, AfterInstall
<1>3. RemoveFails(p) => Changed(p, AfterRefusal(script[p]))
  BY <1>1, <1>2 DEF RemoveFails, AfterRefusal
<1>4. RemoveEnds(p) => Changed(p, AfterRemove(script[p]))
  <2>1. script[p].command \in Command
    BY DEF TypeOK, Script
  <2> QED BY <1>1, <2>1, BecomesChanged DEF RemoveEnds, AfterRemove, Command
<1>5. \A t : ListFor(p, t) = ListIn(script[p], t) /\ FirstDir(p, t) = FirstIn(script[p], t)
  BY DEF ListFor, ListIn, FirstDir, FirstIn
<1> QED BY <1>1, <1>2, <1>3, <1>4, <1>5

LEMMA Lists ==
  ASSUME NEW s \in Script, NEW t \in ItemType
  PROVE  /\ WorkingDirectory \in Directories
         /\ \A u \in ItemType : WorkingDirectory \in DirectoriesOf("currentWorkingDirectory", u)
         /\ ListIn(s, t) \in Seq(Directories)
         /\ ListIn(s, t) # <<>> => FirstIn(s, t) \in Directories
              /\ \E c \in Collection : FirstIn(s, t) \in DirectoriesOf(c, t)
<1>1. /\ WorkingDirectory \in Directories
      /\ \A u \in ItemType : WorkingDirectory \in DirectoriesOf("currentWorkingDirectory", u)
  <2> DEFINE here(u) == DirsOf["currentWorkingDirectory"][u]
  <2>1. \A u \in ItemType : here(u) \in Seq(Directories) /\ Len(here(u)) = 1 /\ here(u) = here("modelDriver")
    BY PlacesOfType, TheCollections, ManagementAssumption
  <2>2. WorkingDirectory = here("modelDriver")[1] /\ WorkingDirectory \in Directories
    BY <2>1, ItemTypes DEF WorkingDirectory
  <2>3. \A u \in ItemType : 1 \in 1..Len(here(u)) /\ here(u)[1] = WorkingDirectory
    BY <2>1, <2>2
  <2> QED BY <2>2, <2>3 DEF DirectoriesOf
<1>2. ASSUME NEW c \in Collection, DirsOf[c][t] # <<>>
      PROVE  Head(DirsOf[c][t]) \in DirectoriesOf(c, t)
  <2>1. DirsOf[c][t] \in Seq(Directories)
    BY PlacesOfType
  <2>2. Head(DirsOf[c][t]) = DirsOf[c][t][1] /\ 1 \in 1..Len(DirsOf[c][t])
    BY <1>2, <2>1
  <2> QED BY <2>2 DEF DirectoriesOf
<1>3. \A c \in Collection : DirsOf[c][t] \in Seq(Directories) /\ DirectoriesOf(c, t) \subseteq Directories
  BY PlacesOfType
<1> DEFINE lent == DirsOf["environmentVariable"][t]  here == <<WorkingDirectory>>
<1>4. here \o lent \in Seq(Directories) /\ Head(here \o lent) = WorkingDirectory
  <2>1. here \in Seq(Directories) /\ Len(here) = 1 /\ here[1] = WorkingDirectory
    BY <1>1
  <2>2. lent \in Seq(Directories)
    BY <1>3, TheCollections
  <2> HIDE DEF here, lent
  <2> QED BY <2>1, <2>2
<1>5. CASE s.collection = "environment" /\ s.cwdFirst
  BY <1>1, <1>4, <1>5, TheCollections DEF ListIn, FirstIn
<1>6. CASE ~(s.collection = "environment" /\ s.cwdFirst)
  <2>1. ListIn(s, t) = <<>> \/ \E c \in Collection : ListIn(s, t) = DirsOf[c][t]
    BY <1>6, TheCollections DEF ListIn
  <2>2. CASE ListIn(s, t) = <<>>
    BY <1>1, <2>2
  <2>3. CASE ListIn(s, t) # <<>>
    <3>1. PICK c \in Collection : ListIn(s, t) = DirsOf[c][t]
      BY <2>1, <2>3
    <3>2. FirstIn(s, t) \in DirectoriesOf(c, t)
      BY <1>2, <2>3, <3>1 DEF FirstIn
    <3> QED BY <1>1, <1>3, <3>1, <3>2
  <2> QED BY <2>1, <2>2, <2>3
<1> QED BY <1>5, <1>6
-----------------------------------------------------------------------------
(* Types, and what the stage of a script says of its variables. *)

Removal == {"finding", "locating", "deleting"}
Installation == {"sourcing", "looking", "configuring", "checking", "making"}

\* The installation of an item that was not there has succeeded.
Done(s) == s.stage = "idle" /\ s.command = "install" /\ s.status = "success" /\ s.target # NoPlace

Flow(s) ==
  /\ s.stage \in {"listing", "taking"} => s.command = "remove-all"
  /\ s.stage \in Installation => s.command \in {"install", "reinstall"}
  /\ s.command = "install" =>
       /\ ~s.removing /\ s.collection \in {"environment", "user", "system"}
       /\ s.cwdFirst => s.collection = "environment"
       /\ ~s.force => s.stage \notin Removal
  /\ s.command = "reinstall" => ~s.force /\ (s.stage \in Removal => s.removing)
  /\ s.removing => /\ s.command = "reinstall" /\ s.model = NoName
                   /\ s.stage \in Removal \cup {"sourcing", "looking", "idle"}
  /\ s.model # NoName =>
       /\ DriverOf[s.model] = s.item
       /\ s.aside = FirstIn(s, TypeOf[s.model]) /\ ListIn(s, TypeOf[s.model]) # <<>>
       /\ s.command \in {"install", "reinstall"}
       /\ s.stage \in {"sourcing", "looking", "configuring", "making"} \cup Removal
  /\ s.stage = "checking" => s.model = NoName /\ DriverOf[s.item] # NoName
  /\ s.stage \in {"checking", "making"} \/ Done(s) =>
       s.target = FirstIn(s, TypeOf[s.item]) /\ ListIn(s, TypeOf[s.item]) # <<>>
  /\ s.command = "install" /\ s.model = NoName /\ s.stage \in {"sourcing", "looking"} => s.target = NoPlace

LEMMA NamesAndTypes ==
  \A n \in Names : /\ TypeOf[n] \in ItemType /\ n # NoName /\ DriverOf[n] \in Names \cup {NoName}
                   /\ DriverOf[n] # NoName => /\ TypeOf[n] # TypeOf[DriverOf[n]] /\ DriverOf[n] # n
                                              /\ TypeOf[DriverOf[n]] = "modelDriver"
                                              /\ DriverOf[DriverOf[n]] = NoName
<1>1. \A n \in Names : TypeOf[n] \in ItemType /\ n # NoName /\ DriverOf[n] \in Names \cup {NoName}
  BY ManagementAssumption
<1>2. \A n \in Names : DriverOf[n] # NoName => TypeOf[n] = "portableModel" /\ TypeOf[DriverOf[n]] = "modelDriver"
  BY ManagementAssumption
<1> QED BY <1>1, <1>2

LEMMA IdleFlow ==
  ASSUME NEW n \in Names
  PROVE  Idle(n) \in Script /\ Flow(Idle(n))
<1>1. [m \in Names |-> 0] \in [Names -> Nat]
  OBVIOUS
<1>2. Idle(n) \in Script
  BY <1>1 DEF Idle, Script, Stage, Command, Word
<1>3. Flow(Idle(n))
  BY DEF Idle, Flow, Removal, Installation, Done
<1> QED BY <1>2, <1>3

LEMMA EndingFlow ==
  ASSUME NEW s \in Script, Flow(s), NEW status \in {"success", "failure"}, s.model = NoName,
         s.command = "install" /\ status = "success" /\ s.target # NoPlace =>
           s.target = FirstIn(s, TypeOf[s.item]) /\ ListIn(s, TypeOf[s.item]) # <<>>
  PROVE  Ending(s, status) \in Script /\ Flow(Ending(s, status))
<1> DEFINE n == Ending(s, status)
<1>1. n \in Script
  BY ZenonT(60) DEF Script, Ending, Stage
<1>2. \A t : ListIn(n, t) = ListIn(s, t) /\ FirstIn(n, t) = FirstIn(s, t)
  BY DEF ListIn, FirstIn, Ending, Script
<1>3. /\ n.stage = "idle" /\ n.command = s.command /\ n.removing = s.removing /\ n.collection = s.collection
      /\ n.cwdFirst = s.cwdFirst /\ n.force = s.force /\ n.model = s.model /\ n.item = s.item
      /\ n.aside = s.aside /\ n.target = s.target /\ n.status = status
  BY DEF Script, Ending
<1> HIDE DEF n
<1> QED BY <1>1, <1>2, <1>3 DEF Flow, Removal, Installation, Done, n

LEMMA AfterInstallFlow ==
  ASSUME NEW s \in Script, Flow(s), NEW status \in {"success", "failure"}, ~s.removing,
         s.stage \in Installation \cup Removal,
         s.command = "install" /\ s.model = NoName /\ status = "success" /\ s.target # NoPlace =>
           s.target = FirstIn(s, TypeOf[s.item]) /\ ListIn(s, TypeOf[s.item]) # <<>>
  PROVE  AfterInstall(s, status) \in Script /\ Flow(AfterInstall(s, status))
<1> DEFINE n == AfterInstall(s, status)
<1>1. CASE s.model = NoName
  BY <1>1, EndingFlow DEF AfterInstall
<1>2. CASE s.model # NoName
  <2>1. n = [s EXCEPT !.stage = "making", !.item = s.model, !.model = NoName,
                      !.target = s.aside, !.aside = NoPlace, !.warned = (status = "failure")]
    BY <1>2 DEF AfterInstall
  <2>2. s.model \in Names /\ s.aside \in Directories \cup {NoPlace} /\ (status = "failure") \in BOOLEAN
    BY <1>2 DEF Script
  <2>3. n \in Script
    BY <2>1, <2>2, ZenonT(60) DEF Script, Stage
  <2>4. /\ n.stage = "making" /\ n.command = s.command /\ n.removing = s.removing /\ n.collection = s.collection
        /\ n.cwdFirst = s.cwdFirst /\ n.force = s.force /\ n.model = NoName /\ n.item = s.model
        /\ n.target = s.aside
    BY <2>1 DEF Script
  <2>5. \A t : ListIn(n, t) = ListIn(s, t) /\ FirstIn(n, t) = FirstIn(s, t)
    BY <2>4 DEF ListIn, FirstIn
  <2> HIDE DEF n
  <2> QED BY <1>2, <2>3, <2>4, <2>5 DEF Flow, Removal, Installation, Done, n
<1> QED BY <1>1, <1>2
StateInv == TypeOK /\ \A p \in Scripts : Flow(script[p])

LEMMA StateKept ==
  ASSUME StateInv, NEW p \in Scripts, NEW new \in Script, Changed(p, new), Flow(new),
         disk' \subseteq Item, strayed' \in BOOLEAN
  PROVE  StateInv'
<1>1. script' \in [Scripts -> Script]
  BY DEF StateInv, TypeOK, Changed, Becomes
<1>2. \A q \in Scripts : Flow(script'[q])
  BY DEF StateInv, Changed
<1>3. TypeOK'
  BY <1>1 DEF TypeOK
<1>4. \A q \in Scripts : Flow(script[q])'
  BY <1>2 DEF Flow, Done, FirstIn, ListIn
<1> QED BY <1>3, <1>4 DEF StateInv

\* What a command starts with
Started(s) ==
  /\ Flow(s) /\ s.stage # "idle" /\ s.status = "none" /\ s.command \in Commands
  /\ s.model = NoName /\ s.found = NoPlace /\ s.type = 1 /\ ~s.warned
  /\ \/ s.command = "install" /\ s.stage = "sourcing" /\ s.force \in ByForce
     \/ s.command = "reinstall" /\ s.stage = "sourcing"
     \/ s.command = "remove" /\ s.stage = "finding"
     \/ s.command = "remove-all" /\ s.stage = "listing"

Begins(p) ==
  \/ \E n \in Names, word \in Word, force \in ByForce, sudo \in BOOLEAN : BeginInstall(p, n, word, force, sudo)
  \/ \E n \in Names, sudo, interactive \in BOOLEAN :
       BeginReinstall(p, n, sudo, interactive) \/ BeginRemove(p, n, sudo, interactive)
  \/ \E sudo, interactive \in BOOLEAN : BeginRemoveAll(p, sudo, interactive)

LEMMA BeginIs ==
  ASSUME StateInv, NEW p \in Scripts, NEW command \in Command, NEW s \in Script, Begin(p, command, s)
  PROVE  LET new == [s EXCEPT !.command = command]
         IN  /\ new \in Script /\ Changed(p, new) /\ UNCHANGED <<disk, strayed>>
             /\ new.command = command /\ command \in Commands
             /\ new.stage = s.stage /\ new.status = s.status /\ new.model = s.model /\ new.found = s.found
             /\ new.type = s.type /\ new.warned = s.warned /\ new.force = s.force /\ new.removing = s.removing
             /\ new.collection = s.collection /\ new.cwdFirst = s.cwdFirst /\ new.target = s.target
<1>1. [s EXCEPT !.command = command] \in Script
  BY DEF Script
<1>2. Changed(p, [s EXCEPT !.command = command])
  BY BecomesChanged DEF Begin, StateInv
<1> QED BY <1>1, <1>2 DEF Begin, Script

LEMMA BeginFlow ==
  ASSUME StateInv, NEW p \in Scripts, Begins(p)
  PROVE  \E new \in Script : Changed(p, new) /\ Started(new) /\ UNCHANGED <<disk, strayed>>
<1>1. ASSUME NEW n \in Names, NEW word \in Word, NEW force \in ByForce, NEW sudo \in BOOLEAN,
             BeginInstall(p, n, word, force, sudo)
      PROVE  \E new \in Script : Changed(p, new) /\ Started(new) /\ UNCHANGED <<disk, strayed>>
  <2> DEFINE s == [Idle(n) EXCEPT !.stage = "sourcing", !.force = force, !.sudo = sudo,
                     !.cwdFirst = (word = "CWD"),
                     !.collection = IF word = "CWD" THEN "environment" ELSE word]
             new == [s EXCEPT !.command = "install"]
  <2>1. /\ word \in {"CWD", "environment", "user", "system"} /\ force \in BOOLEAN
        /\ (word = "CWD") \in BOOLEAN /\ Begin(p, "install", s)
    BY <1>1, ManagementAssumption DEF BeginInstall
  <2>2. Idle(n) \in Script
    BY IdleFlow
  <2>3. s \in Script
    <3> DEFINE c == IF word = "CWD" THEN "environment" ELSE word
               first == word = "CWD"
               x == [Idle(n) EXCEPT !.stage = "sourcing", !.force = force, !.sudo = sudo,
                       !.cwdFirst = first, !.collection = c]
    <3>1. c \in Word /\ first \in BOOLEAN
      BY <2>1 DEF Word
    <3> HIDE DEF c, first
    <3>2. x \in Script
      BY <2>1, <2>2, <3>1, ZenonT(60) DEF Script, Stage
    <3> QED BY <3>2 DEF c, first
  <2>4. /\ s.stage = "sourcing" /\ s.force = force /\ s.cwdFirst = (word = "CWD")
        /\ s.collection = IF word = "CWD" THEN "environment" ELSE word
        /\ s.model = NoName /\ s.found = NoPlace /\ s.type = 1 /\ ~s.warned /\ s.status = "none"
        /\ ~s.removing /\ s.target = NoPlace
    BY DEF Idle
  <2> HIDE DEF s
  <2>5. /\ new \in Script /\ Changed(p, new) /\ UNCHANGED <<disk, strayed>>
        /\ new.command = "install" /\ "install" \in Commands
        /\ new.stage = "sourcing" /\ new.force = force /\ new.cwdFirst = (word = "CWD")
        /\ new.collection = IF word = "CWD" THEN "environment" ELSE word
        /\ new.model = NoName /\ new.found = NoPlace /\ new.type = 1 /\ ~new.warned /\ new.status = "none"
        /\ ~new.removing /\ new.target = NoPlace
    BY <2>1, <2>3, <2>4, BeginIs DEF Command
  <2> HIDE DEF new
  <2>6. Started(new)
    BY <2>1, <2>5 DEF Started, Flow, Removal, Installation, Done
  <2> QED BY <2>5, <2>6
<1>2. ASSUME NEW n \in Names, NEW sudo \in BOOLEAN, NEW interactive \in BOOLEAN,
             BeginReinstall(p, n, sudo, interactive)
      PROVE  \E new \in Script : Changed(p, new) /\ Started(new) /\ UNCHANGED <<disk, strayed>>
  <2> DEFINE s == [Idle(n) EXCEPT !.stage = "sourcing", !.sudo = sudo, !.interactive = interactive,
                     !.removing = TRUE]
             new == [s EXCEPT !.command = "reinstall"]
  <2>1. Idle(n) \in Script
    BY IdleFlow
  <2>2. s \in Script
    BY <2>1 DEF Script, Stage
  <2>3. /\ s.stage = "sourcing" /\ s.force = FALSE /\ s.model = NoName /\ s.found = NoPlace /\ s.type = 1
        /\ ~s.warned /\ s.status = "none" /\ Begin(p, "reinstall", s)
    BY <1>2 DEF Idle, BeginReinstall
  <2> HIDE DEF s
  <2>4. /\ new \in Script /\ Changed(p, new) /\ UNCHANGED <<disk, strayed>>
        /\ new.command = "reinstall" /\ "reinstall" \in Commands
        /\ new.stage = "sourcing" /\ new.force = FALSE /\ new.model = NoName /\ new.found = NoPlace
        /\ new.type = 1 /\ ~new.warned /\ new.status = "none"
    BY <2>2, <2>3, BeginIs DEF Command
  <2> HIDE DEF new
  <2>5. Started(new)
    BY <2>4 DEF Started, Flow, Removal, Installation, Done
  <2> QED BY <2>4, <2>5
<1>3. ASSUME NEW n \in Names, NEW sudo \in BOOLEAN, NEW interactive \in BOOLEAN,
             NEW command, NEW stage,
             \/ command = "remove" /\ stage = "finding"
             \/ command = "remove-all" /\ stage = "listing",
             Begin(p, command, [Idle(n) EXCEPT !.stage = stage, !.sudo = sudo, !.interactive = interactive])
      PROVE  \E new \in Script : Changed(p, new) /\ Started(new) /\ UNCHANGED <<disk, strayed>>
  <2> DEFINE s == [Idle(n) EXCEPT !.stage = stage, !.sudo = sudo, !.interactive = interactive]
             new == [s EXCEPT !.command = command]
  <2>1. Idle(n) \in Script
    BY IdleFlow
  <2>2. s \in Script
    BY <1>3, <2>1 DEF Script, Stage
  <2>3. /\ s.stage = stage /\ s.force = FALSE /\ s.model = NoName /\ s.found = NoPlace /\ s.type = 1
        /\ ~s.warned /\ s.status = "none" /\ ~s.removing /\ Begin(p, command, s)
    BY <1>3 DEF Idle
  <2> HIDE DEF s
  <2>4. /\ new \in Script /\ Changed(p, new) /\ UNCHANGED <<disk, strayed>>
        /\ new.command = command /\ command \in Commands
        /\ new.stage = stage /\ new.force = FALSE /\ new.model = NoName /\ new.found = NoPlace
        /\ new.type = 1 /\ ~new.warned /\ new.status = "none" /\ ~new.removing
    BY <1>3, <2>2, <2>3, BeginIs DEF Command
  <2> HIDE DEF new
  <2>5. Started(new)
    BY <1>3, <2>4 DEF Started, Flow, Removal, Installation, Done
  <2> QED BY <2>4, <2>5
<1>4. ASSUME NEW n \in Names, NEW sudo \in BOOLEAN, NEW interactive \in BOOLEAN,
             BeginRemove(p, n, sudo, interactive)
      PROVE  \E new \in Script : Changed(p, new) /\ Started(new) /\ UNCHANGED <<disk, strayed>>
  BY <1>3, <1>4 DEF BeginRemove
<1>5. ASSUME NEW sudo \in BOOLEAN, NEW interactive \in BOOLEAN, BeginRemoveAll(p, sudo, interactive)
      PROVE  \E new \in Script : Changed(p, new) /\ Started(new) /\ UNCHANGED <<disk, strayed>>
  BY <1>3, <1>5 DEF BeginRemoveAll
<1> QED BY <1>1, <1>2, <1>4, <1>5 DEF Begins
-----------------------------------------------------------------------------
(* The steps, as changes of the record of their script. *)

LEMMA FoundType ==
  ASSUME StateInv, NEW p \in Scripts
  PROVE  FoundFirst(p) \in Collection \cup {NoPlace} /\ Type(p) \in ItemType
         /\ Type(p) = ScriptTypes[script[p].type] /\ script[p] \in Script /\ Flow(script[p])
<1>1. script[p] \in Script
  BY DEF StateInv, TypeOK
<1>2. Type(p) \in ItemType /\ Type(p) = ScriptTypes[script[p].type]
  BY <1>1, ItemTypes DEF Type, Script
<1> QED BY <1>1, <1>2, Installed DEF FoundFirst, Script, StateInv

\* The copies of an item, as the list counts them
CopiesOf(D, t, n) ==
  {place \in Collection \X Directories : place[2] \in DirectoriesOf(place[1], t) /\ <<place[2], t, n>> \in D}

LEMMA CopiesCounted ==
  ASSUME NEW D, NEW t \in ItemType, NEW n
  PROVE  IsFiniteSet(CopiesOf(D, t, n)) /\ Cardinality(CopiesOf(D, t, n)) \in Nat
<1>2. \A c \in Collection : IsFiniteSet(DirectoriesOf(c, t))
  <2>1. TAKE c \in Collection
  <2>2. DirsOf[c][t] \in Seq(Directories) /\ Len(DirsOf[c][t]) \in Nat
    BY PlacesOfType
  <2>3. IsFiniteSet(1..Len(DirsOf[c][t]))
    BY <2>2, FS_Interval
  <2> DEFINE n2 == Len(DirsOf[c][t])  f == [i \in 1..n2 |-> DirsOf[c][t][i]]
  <2>4. f \in Surjection(1..n2, DirectoriesOf(c, t))
    BY DEF Surjection, DirectoriesOf
  <2>5. IsFiniteSet(DirectoriesOf(c, t))
    BY <2>3, <2>4, FS_Surjection
  <2> QED BY <2>5
<1>3. IsFiniteSet(Collection)
  <2>1. {"currentWorkingDirectory", "environmentVariable", "user", "system"} =
          ((({} \cup {"currentWorkingDirectory"}) \cup {"environmentVariable"}) \cup {"user"}) \cup {"system"}
    OBVIOUS
  <2>2. IsFiniteSet({} \cup {"currentWorkingDirectory"})
    BY FS_EmptySet, FS_AddElement
  <2>3. IsFiniteSet(({} \cup {"currentWorkingDirectory"}) \cup {"environmentVariable"})
    BY <2>2, FS_AddElement
  <2>4. IsFiniteSet((({} \cup {"currentWorkingDirectory"}) \cup {"environmentVariable"}) \cup {"user"})
    BY <2>3, FS_AddElement
  <2>5. IsFiniteSet(((({} \cup {"currentWorkingDirectory"}) \cup {"environmentVariable"}) \cup {"user"}) \cup {"system"})
    BY <2>4, FS_AddElement
  <2> QED BY <2>1, <2>5, TheCollections
<1> DEFINE d(c) == DirectoriesOf(c, t)
           u1 == d("currentWorkingDirectory") \cup d("environmentVariable")
           u2 == u1 \cup d("user")
           u3 == u2 \cup d("system")
<1>4. IsFiniteSet(u3)
  <2>1. IsFiniteSet(d("currentWorkingDirectory")) /\ IsFiniteSet(d("environmentVariable"))
        /\ IsFiniteSet(d("user")) /\ IsFiniteSet(d("system"))
    BY <1>2, TheCollections
  <2> HIDE DEF d
  <2>2. IsFiniteSet(u1)
    BY <2>1, FS_Union
  <2> HIDE DEF u1
  <2>3. IsFiniteSet(u2)
    BY <2>1, <2>2, FS_Union
  <2> HIDE DEF u2
  <2> QED BY <2>1, <2>3, FS_Union
<1>5. IsFiniteSet(Collection \X u3)
  BY <1>3, <1>4, FS_Product
<1>6. CopiesOf(D, t, n) \in SUBSET (Collection \X u3)
  <2>1. \A c \in Collection : DirectoriesOf(c, t) \subseteq u3
    BY TheCollections
  <2> HIDE DEF u3
  <2> QED BY <2>1 DEF CopiesOf
<1> HIDE DEF u3
<1>7. IsFiniteSet(CopiesOf(D, t, n))
  BY <1>5, <1>6, FS_Subset
<1> QED BY <1>7, FS_CardinalityType

LEMMA CopiesAre ==
  ASSUME StateInv, NEW p \in Scripts
  PROVE  \A n : Copies(p, n) = CopiesOf(disk, ScriptTypes[script[p].type], n)
<1>1. \A c \in Collection : InCollection(c, p) = DirectoriesOf(c, ScriptTypes[script[p].type])
  <2>1. TAKE c \in Collection
  <2>2. DirsOf[c][Type(p)] \in Seq(Directories)
    BY FoundType, PlacesOfType
  <2>3. DOMAIN DirsOf[c][Type(p)] = 1..Len(DirsOf[c][Type(p)])
    BY <2>2
  <2> QED BY <2>3 DEF InCollection, DirectoriesOf, Dirs, Type
<1> QED BY <1>1 DEF Copies, CopiesOf, Type

LEMMA TakenType ==
  ASSUME NEW s \in Script, NEW stage \in Stage, NEW type \in 1..3, NEW n \in Names, NEW list \in [Names -> Nat]
  PROVE  [s EXCEPT !.stage = stage, !.type = type, !.item = n, !.list = list] \in Script
BY DEF Script

LEMMA ListSteps ==
  ASSUME StateInv, NEW p \in Scripts, ListItems(p) \/ TakeItem(p)
  PROVE  StateInv'
<1> DEFINE s == script[p]
<1>1. s \in Script /\ Flow(s) /\ disk' = disk /\ strayed' = strayed /\ disk \subseteq Item /\ strayed \in BOOLEAN
  BY FoundType DEF ListItems, TakeItem, StateInv, TypeOK
<1>2. SUFFICES \E new \in Script : Changed(p, new) /\ Flow(new)
  BY <1>1, StateKept
<1>3. CASE ListItems(p)
  <2> DEFINE counts == [n \in Names |-> Cardinality(Copies(p, n))]
             new == [s EXCEPT !.stage = "taking", !.listed = s.type, !.list = counts]
  <2>1. Changed(p, new) /\ s.stage = "listing"
    BY <1>3, BecomesChanged DEF ListItems, StateInv, At
  <2>2. counts \in [Names -> Nat]
    <3>1. \A n : Cardinality(CopiesOf(disk, ScriptTypes[s.type], n)) \in Nat
      BY FoundType, CopiesCounted
    <3> QED BY <3>1, CopiesAre
  <2> HIDE DEF counts
  <2>3. new \in Script
    BY <1>1, <2>2 DEF Script, Stage
  <2>4. /\ new.stage = "taking" /\ new.command = s.command /\ new.removing = s.removing
        /\ new.collection = s.collection /\ new.cwdFirst = s.cwdFirst /\ new.force = s.force
        /\ new.model = s.model
    BY <1>1 DEF Script
  <2>5. Flow(new)
    <3> HIDE DEF new
    <3> QED BY <1>1, <2>1, <2>4 DEF Flow, Removal, Installation, Done
  <2> QED BY <2>1, <2>3, <2>5
<1>4. CASE TakeItem(p)
  <2>0. s.stage = "taking" /\ s.command = "remove-all" /\ s.model = NoName
    BY <1>1, <1>4 DEF TakeItem, At, Flow, Removal
  <2>1. ASSUME NEW n \in Listed(p),
               Becomes(p, [s EXCEPT !.stage = "finding", !.type = 1, !.item = n, !.list[n] = @ - 1])
        PROVE  \E new \in Script : Changed(p, new) /\ Flow(new)
    <3> DEFINE list == [s.list EXCEPT ![n] = @ - 1]
               new == [s EXCEPT !.stage = "finding", !.type = 1, !.item = n, !.list = list]
    <3>1. n \in Names /\ s.list \in [Names -> Nat] /\ s.list[n] > 0
      BY <1>1, <2>1 DEF Listed, Script
    <3>2. list \in [Names -> Nat]
      BY <3>1
    <3>3. Changed(p, new)
      <4>1. new = [s EXCEPT !.stage = "finding", !.type = 1, !.item = n, !.list[n] = @ - 1]
        BY <1>1 DEF Script
      <4> QED BY <2>1, <4>1, BecomesChanged DEF StateInv
    <3> HIDE DEF list
    <3>4. new \in Script
      <4>1. s \in Script /\ n \in Names /\ list \in [Names -> Nat]
        BY <1>1, <3>1, <3>2
      <4> HIDE DEF s
      <4>2. "finding" \in Stage /\ 1 \in 1..3
        BY DEF Stage
      <4> QED BY <4>1, <4>2, TakenType
    <3>5. /\ new.stage = "finding" /\ new.command = s.command /\ new.removing = s.removing
          /\ new.collection = s.collection /\ new.cwdFirst = s.cwdFirst /\ new.force = s.force
          /\ new.model = s.model
      BY <1>1 DEF Script
    <3>6. Flow(new)
      <4> HIDE DEF new
      <4> QED BY <1>1, <2>0, <3>5 DEF Flow, Removal, Installation, Done
    <3> QED BY <3>3, <3>4, <3>6
  <2>2. ASSUME Becomes(p, [s EXCEPT !.stage = "listing", !.type = s.listed + 1]), s.listed < 3
        PROVE  \E new \in Script : Changed(p, new) /\ Flow(new)
    <3> DEFINE new == [s EXCEPT !.stage = "listing", !.type = s.listed + 1]
    <3>1. Changed(p, new)
      BY <2>2, BecomesChanged DEF StateInv
    <3>2. s.listed + 1 \in 1..3
      BY <1>1, <2>2 DEF Script
    <3>3. new \in Script
      BY <1>1, <3>2 DEF Script, Stage
    <3>4. /\ new.stage = "listing" /\ new.command = s.command /\ new.removing = s.removing
          /\ new.collection = s.collection /\ new.cwdFirst = s.cwdFirst /\ new.force = s.force
          /\ new.model = s.model
      BY <1>1 DEF Script
    <3>5. Flow(new)
      <4> HIDE DEF new
      <4> QED BY <1>1, <2>0, <3>4 DEF Flow, Removal, Installation, Done
    <3> QED BY <3>1, <3>3, <3>5
  <2>3. ASSUME Ends(p, "success")
        PROVE  \E new \in Script : Changed(p, new) /\ Flow(new)
    BY <1>1, <2>0, <2>3, EndingFlow, Returns DEF StateInv
  <2> QED BY <1>4, <2>1, <2>2, <2>3 DEF TakeItem
<1> QED BY <1>3, <1>4

\* What the steps that look for an item change
Looked(s, stage, type, found, collection) ==
  [s EXCEPT !.stage = stage, !.type = type, !.found = found, !.collection = collection]

LEMMA LookSteps ==
  ASSUME StateInv, NEW p \in Scripts, FindSources(p) \/ LookForItem(p) \/ DecideOnItem(p)
  PROVE  StateInv'
<1> DEFINE s == script[p]
<1>1. /\ s \in Script /\ Flow(s) /\ disk' = disk /\ strayed' = strayed
      /\ disk \subseteq Item /\ strayed \in BOOLEAN /\ s.stage \in {"sourcing", "looking"}
  BY FoundType DEF FindSources, LookForItem, DecideOnItem, StateInv, TypeOK, At
<1>2. SUFFICES \E new \in Script : Changed(p, new) /\ Flow(new)
  BY <1>1, StateKept
<1>3. ASSUME NEW status \in {"success", "failure"}, InstallEnds(p, status), ~s.removing
      PROVE  \E new \in Script : Changed(p, new) /\ Flow(new)
  <2>1. s.command = "install" /\ s.model = NoName => s.target = NoPlace
    BY <1>1 DEF Flow
  <2> QED BY <1>1, <1>3, <2>1, AfterInstallFlow, Returns DEF StateInv, Installation
<1>4. ASSUME NEW stage \in {"looking", "finding", "configuring"}, NEW type \in 1..3,
             NEW found \in Collection \cup {NoPlace}, NEW collection \in Word,
             Becomes(p, Looked(s, stage, type, found, collection)),
             collection # s.collection => s.removing,
             stage = "finding" => s.removing \/ s.force,
             stage = "configuring" => ~s.removing
      PROVE  \E new \in Script : Changed(p, new) /\ Flow(new)
  <2> DEFINE new == Looked(s, stage, type, found, collection)
  <2>1. Changed(p, new)
    BY <1>4, BecomesChanged DEF StateInv
  <2>2. new \in Script
    BY <1>1, <1>4 DEF Script, Stage, Looked
  <2>3. /\ new.stage = stage /\ new.command = s.command /\ new.removing = s.removing /\ new.item = s.item
        /\ new.collection = collection /\ new.cwdFirst = s.cwdFirst /\ new.force = s.force
        /\ new.model = s.model /\ new.target = s.target /\ new.aside = s.aside
    BY <1>1 DEF Script, Looked
  <2> HIDE DEF new
  <2>4. s.model # NoName => collection = s.collection
    BY <1>1, <1>4 DEF Flow
  <2>5. collection = s.collection => \A t : ListIn(new, t) = ListIn(s, t) /\ FirstIn(new, t) = FirstIn(s, t)
    BY <2>3 DEF ListIn, FirstIn
  <2>6. s.removing => s.command # "install"
    BY <1>1 DEF Flow
  <2>7. Flow(new)
    BY <1>1, <1>4, <2>3, <2>4, <2>5, <2>6 DEF Flow, Removal, Installation, Done
  <2> QED BY <2>1, <2>2, <2>7
<1>5. CASE FindSources(p)
  <2>1. CASE Ends(p, "failure") /\ s.removing
    <3>1. s.model = NoName
      BY <1>1, <2>1 DEF Flow
    <3> QED BY <1>1, <2>1, <3>1, EndingFlow, Returns DEF StateInv
  <2>2. CASE InstallEnds(p, "failure") /\ ~s.removing
    BY <1>3, <2>2
  <2>3. CASE Becomes(p, [s EXCEPT !.stage = "looking", !.type = 1, !.found = NoPlace])
    <3>1. [s EXCEPT !.stage = "looking", !.type = 1, !.found = NoPlace]
            = Looked(s, "looking", 1, NoPlace, s.collection)
      BY <1>1 DEF Script, Looked
    <3>2. s.collection \in Word
      BY <1>1 DEF Script
    <3> QED BY <1>4, <2>3, <3>1, <3>2
  <2>4. s.removing => s.command = "reinstall"
    BY <1>1 DEF Flow, Installation
  <2> QED BY <1>5, <2>1, <2>2, <2>3, <2>4 DEF FindSources
<1>6. CASE LookForItem(p)
  <2>1. Becomes(p, [s EXCEPT !.type = @ + 1, !.found = FoundFirst(p)]) /\ s.stage = "looking" /\ s.type < 3
    BY <1>6 DEF LookForItem, At
  <2>2. s.type + 1 \in 1..3 /\ s.collection \in Word
    BY <1>1, <2>1 DEF Script
  <2>3. [s EXCEPT !.type = @ + 1, !.found = FoundFirst(p)]
          = Looked(s, "looking", s.type + 1, FoundFirst(p), s.collection)
    BY <1>1, <2>1 DEF Script, Looked
  <2> QED BY <1>4, <2>1, <2>2, <2>3, FoundType
<1>7. CASE DecideOnItem(p)
  <2>0. s.type \in 1..3 /\ s.found \in Collection \cup {NoPlace} /\ s.collection \in Word
    BY <1>1 DEF Script
  <2>1. CASE s.removing /\ Becomes(p, [s EXCEPT !.stage = "finding", !.type = 1,
                             !.collection = IF FoundFirst(p) = NoPlace THEN "" ELSE FoundFirst(p)])
    <3> DEFINE c == IF FoundFirst(p) = NoPlace THEN "" ELSE FoundFirst(p)
    <3>1. c \in Word
      BY FoundType DEF Word
    <3> HIDE DEF c
    <3>2. [s EXCEPT !.stage = "finding", !.type = 1, !.collection = c]
            = Looked(s, "finding", 1, s.found, c)
      BY <1>1 DEF Script, Looked
    <3>3. Becomes(p, Looked(s, "finding", 1, s.found, c))
      BY <2>1, <3>2 DEF c
    <3> QED BY <1>4, <2>0, <2>1, <3>1, <3>3
  <2>2. CASE ~s.removing /\ Becomes(p, [s EXCEPT !.stage = "configuring"])
    <3>1. [s EXCEPT !.stage = "configuring"]
            = Looked(s, "configuring", s.type, s.found, s.collection)
      BY <1>1 DEF Script, Looked
    <3> QED BY <1>4, <2>0, <2>2, <3>1
  <2>3. CASE s.force /\ Becomes(p, [s EXCEPT !.stage = "finding", !.type = 1])
    <3>1. [s EXCEPT !.stage = "finding", !.type = 1]
            = Looked(s, "finding", 1, s.found, s.collection)
      BY <1>1 DEF Script, Looked
    <3> QED BY <1>4, <2>0, <2>3, <3>1
  <2>4. CASE ~s.removing /\ \E status \in {"success", "failure"} : InstallEnds(p, status)
    BY <1>3, <2>4
  <2> QED BY <1>7, <2>1, <2>2, <2>3, <2>4 DEF DecideOnItem
<1> QED BY <1>5, <1>6, <1>7
\* What the steps that install and remove an item change
Staged(s, stage, target) == [s EXCEPT !.stage = stage, !.target = target]

LEMMA StagedFields ==
  ASSUME NEW s \in Script, NEW stage \in Stage, NEW target \in Directories \cup {NoPlace}
  PROVE  LET n == Staged(s, stage, target)
         IN  /\ n \in Script
             /\ n.stage = stage /\ n.target = target /\ n.command = s.command /\ n.collection = s.collection
             /\ n.cwdFirst = s.cwdFirst /\ n.item = s.item /\ n.force = s.force /\ n.type = s.type
             /\ n.found = s.found /\ n.model = s.model /\ n.aside = s.aside /\ n.removing = s.removing
             /\ n.warned = s.warned /\ n.status = s.status /\ n.list = s.list /\ n.listed = s.listed
             /\ n.interactive = s.interactive /\ n.sudo = s.sudo
             /\ \A t : ListIn(n, t) = ListIn(s, t) /\ FirstIn(n, t) = FirstIn(s, t)
<1> DEFINE n == Staged(s, stage, target)
<1>1. n \in Script
  BY DEF Script, Staged
<1>2. /\ n.stage = stage /\ n.target = target /\ n.command = s.command /\ n.collection = s.collection
      /\ n.cwdFirst = s.cwdFirst /\ n.item = s.item /\ n.force = s.force /\ n.type = s.type
      /\ n.found = s.found /\ n.model = s.model /\ n.aside = s.aside /\ n.removing = s.removing
      /\ n.warned = s.warned /\ n.status = s.status /\ n.list = s.list /\ n.listed = s.listed
      /\ n.interactive = s.interactive /\ n.sudo = s.sudo
  BY DEF Script, Staged
<1> HIDE DEF n
<1>3. \A t : ListIn(n, t) = ListIn(s, t) /\ FirstIn(n, t) = FirstIn(s, t)
  BY <1>2 DEF ListIn, FirstIn
<1> QED BY <1>1, <1>2, <1>3 DEF n

\* CheckDriver goes on to the driver.
ForDriver(s) ==
  [s EXCEPT !.stage = "sourcing", !.item = DriverOf[s.item], !.model = s.item,
            !.aside = s.target, !.target = NoPlace]

LEMMA ForDriverFields ==
  ASSUME NEW s \in Script, DriverOf[s.item] # NoName
  PROVE  LET n == ForDriver(s)
         IN  /\ n \in Script
             /\ n.stage = "sourcing" /\ n.target = NoPlace /\ n.command = s.command /\ n.collection = s.collection
             /\ n.cwdFirst = s.cwdFirst /\ n.item = DriverOf[s.item] /\ n.force = s.force
             /\ n.model = s.item /\ n.aside = s.target /\ n.removing = s.removing
             /\ n.warned = s.warned /\ n.status = s.status
             /\ \A t : ListIn(n, t) = ListIn(s, t) /\ FirstIn(n, t) = FirstIn(s, t)
<1> DEFINE n == ForDriver(s)
<1>1. s.item \in Names /\ DriverOf[s.item] \in Names /\ s.target \in Directories \cup {NoPlace}
  BY NamesAndTypes DEF Script
<1>2. n \in Script
  BY <1>1 DEF Script, Stage, ForDriver
<1>3. /\ n.stage = "sourcing" /\ n.target = NoPlace /\ n.command = s.command /\ n.collection = s.collection
      /\ n.cwdFirst = s.cwdFirst /\ n.item = DriverOf[s.item] /\ n.force = s.force
      /\ n.model = s.item /\ n.aside = s.target /\ n.removing = s.removing
      /\ n.warned = s.warned /\ n.status = s.status
  BY DEF Script, ForDriver
<1> HIDE DEF n
<1>4. \A t : ListIn(n, t) = ListIn(s, t) /\ FirstIn(n, t) = FirstIn(s, t)
  BY <1>3 DEF ListIn, FirstIn
<1> QED BY <1>2, <1>3, <1>4 DEF n

\* What a configured item goes on with
AfterConfigure(s) ==
  Staged(s, IF DriverOf[s.item] = NoName THEN "making" ELSE "checking", FirstIn(s, TypeOf[s.item]))

LEMMA InstallResults ==
  ASSUME StateInv, NEW p \in Scripts
  PROVE  LET s == script[p] IN
         /\ Configure(p) =>
              \/ InstallEnds(p, "failure")
              \/ ListIn(s, TypeOf[s.item]) # <<>> /\ Changed(p, AfterConfigure(s))
         /\ CheckDriver(p) =>
              \/ IsInstalled(disk, "modelDriver", DriverOf[s.item]) /\ Changed(p, Staged(s, "making", s.target))
              \/ ~IsInstalled(disk, "modelDriver", DriverOf[s.item]) /\ Changed(p, ForDriver(s))
<1> DEFINE s == script[p]
<1>1. s \in Script
  BY FoundType
<1>2. ASSUME Configure(p)
      PROVE  \/ InstallEnds(p, "failure")
             \/ ListIn(s, TypeOf[s.item]) # <<>> /\ Changed(p, AfterConfigure(s))
  <2> DEFINE stage == IF DriverOf[s.item] = NoName THEN "making" ELSE "checking"
             target == FirstIn(s, TypeOf[s.item])
  <2>1. [s EXCEPT !.target = target, !.stage = stage] = AfterConfigure(s)
    <3>1. \A a, b : [s EXCEPT !.target = a, !.stage = b] = Staged(s, b, a)
      BY <1>1 DEF Script, Staged
    <3> QED BY <3>1 DEF AfterConfigure
  <2>2. FirstDir(p, TypeOf[s.item]) = target /\ ListFor(p, TypeOf[s.item]) = ListIn(s, TypeOf[s.item])
    BY Returns DEF StateInv
  <2> HIDE DEF stage, target
  <2>3. \/ InstallEnds(p, "failure")
        \/ ListIn(s, TypeOf[s.item]) # <<>> /\ Becomes(p, [s EXCEPT !.target = target, !.stage = stage])
    BY <1>2, <2>2 DEF Configure, stage
  <2> QED BY <2>1, <2>3, BecomesChanged DEF StateInv
<1>3. ASSUME CheckDriver(p)
      PROVE  \/ IsInstalled(disk, "modelDriver", DriverOf[s.item]) /\ Changed(p, Staged(s, "making", s.target))
             \/ ~IsInstalled(disk, "modelDriver", DriverOf[s.item]) /\ Changed(p, ForDriver(s))
  <2>1. [s EXCEPT !.stage = "making"] = Staged(s, "making", s.target)
    BY <1>1 DEF Script, Staged
  <2>2. \/ IsInstalled(disk, "modelDriver", DriverOf[s.item]) /\ Becomes(p, [s EXCEPT !.stage = "making"])
        \/ ~IsInstalled(disk, "modelDriver", DriverOf[s.item]) /\ Becomes(p, ForDriver(s))
    BY <1>3 DEF CheckDriver, ForDriver
  <2> QED BY <2>1, <2>2, BecomesChanged DEF StateInv
<1> QED BY <1>2, <1>3

LEMMA InstallSteps ==
  ASSUME StateInv, NEW p \in Scripts, Configure(p) \/ CheckDriver(p) \/ Make(p)
  PROVE  StateInv'
<1> DEFINE s == script[p]
<1>1. /\ s \in Script /\ Flow(s) /\ strayed' = strayed /\ disk \subseteq Item /\ strayed \in BOOLEAN
      /\ s.stage \in {"configuring", "checking", "making"} /\ s.item \in Names /\ TypeOf[s.item] \in ItemType
      /\ ~s.removing
  <2>1. s \in Script /\ Flow(s) /\ s.item \in Names
    BY FoundType DEF Script
  <2> QED BY <2>1, NamesAndTypes DEF Configure, CheckDriver, Make, StateInv, TypeOK, At, Flow, Removal
<1>2. ListIn(s, TypeOf[s.item]) # <<>> => FirstIn(s, TypeOf[s.item]) \in Directories
  BY <1>1, Lists
<1>3. disk' \subseteq Item
  <2>1. CASE Make(p)
    <3>1. s.stage = "making" /\ (disk' = disk \/ disk' = disk \cup {<<s.target, TypeOf[s.item], s.item>>})
      BY <2>1 DEF Make, At
    <3>2. s.target \in Directories
      BY <1>1, <1>2, <3>1 DEF Flow
    <3>3. <<s.target, TypeOf[s.item], s.item>> \in Item
      BY <1>1, <3>2 DEF Item
    <3> QED BY <1>1, <3>1, <3>3
  <2>2. CASE Configure(p) \/ CheckDriver(p)
    BY <1>1, <2>2 DEF Configure, CheckDriver
  <2> QED BY <2>1, <2>2
<1>4. SUFFICES \E new \in Script : Changed(p, new) /\ Flow(new)
  BY <1>1, <1>3, StateKept
<1>5. ASSUME NEW status \in {"success", "failure"}, InstallEnds(p, status), status = "success" => s.stage = "making"
      PROVE  \E new \in Script : Changed(p, new) /\ Flow(new)
  <2>1. s.stage = "making" => s.target = FirstIn(s, TypeOf[s.item]) /\ ListIn(s, TypeOf[s.item]) # <<>>
    BY <1>1 DEF Flow
  <2> QED BY <1>1, <1>5, <2>1, AfterInstallFlow, Returns DEF StateInv, Installation
<1>6. CASE Configure(p)
  <2>1. s.stage = "configuring"
    BY <1>6 DEF Configure, At
  <2>2. CASE ListIn(s, TypeOf[s.item]) # <<>> /\ Changed(p, AfterConfigure(s))
    <3> DEFINE n == AfterConfigure(s)
    <3>1. /\ n \in Script
          /\ n.stage = (IF DriverOf[s.item] = NoName THEN "making" ELSE "checking")
          /\ n.target = FirstIn(s, TypeOf[s.item]) /\ n.command = s.command /\ n.collection = s.collection
          /\ n.cwdFirst = s.cwdFirst /\ n.item = s.item /\ n.force = s.force
          /\ n.model = s.model /\ n.aside = s.aside /\ n.removing = s.removing
          /\ \A t : ListIn(n, t) = ListIn(s, t) /\ FirstIn(n, t) = FirstIn(s, t)
      <4> DEFINE stage == IF DriverOf[s.item] = NoName THEN "making" ELSE "checking"
      <4>1. stage \in Stage /\ FirstIn(s, TypeOf[s.item]) \in Directories \cup {NoPlace}
        BY <1>2, <2>2 DEF Stage
      <4> HIDE DEF stage
      <4> QED BY <1>1, <4>1, StagedFields DEF AfterConfigure, stage
    <3> HIDE DEF n
    <3>2. s.model # NoName => DriverOf[s.item] = NoName
      <4>1. s.model # NoName => s.model \in Names /\ DriverOf[s.model] = s.item
        BY <1>1 DEF Script, Flow
      <4> QED BY <1>1, <4>1, NamesAndTypes
    <3>3. Flow(n)
      BY <1>1, <2>1, <2>2, <3>1, <3>2 DEF Flow, Removal, Installation, Done
    <3> QED BY <2>2, <3>1, <3>3 DEF n
  <2> QED BY <1>5, <1>6, <2>2, InstallResults
<1>7. CASE CheckDriver(p)
  <2>1. s.stage = "checking" /\ DriverOf[s.item] # NoName /\ s.model = NoName /\ s.target \in Directories \cup {NoPlace}
    BY <1>1, <1>7 DEF CheckDriver, At, Flow, Script
  <2>2. CASE Changed(p, Staged(s, "making", s.target))
    <3> DEFINE n == Staged(s, "making", s.target)
    <3>1. /\ n \in Script
          /\ n.stage = "making" /\ n.target = s.target /\ n.command = s.command /\ n.collection = s.collection
          /\ n.cwdFirst = s.cwdFirst /\ n.item = s.item /\ n.force = s.force
          /\ n.model = s.model /\ n.aside = s.aside /\ n.removing = s.removing
          /\ \A t : ListIn(n, t) = ListIn(s, t) /\ FirstIn(n, t) = FirstIn(s, t)
      <4>1. "making" \in Stage
        BY DEF Stage
      <4> QED BY <1>1, <2>1, <4>1, StagedFields
    <3> HIDE DEF n
    <3>2. Flow(n)
      BY <1>1, <2>1, <3>1 DEF Flow, Removal, Installation, Done
    <3> QED BY <2>2, <3>1, <3>2 DEF n
  <2>3. CASE Changed(p, ForDriver(s))
    <3> DEFINE n == ForDriver(s)
    <3>1. /\ n \in Script
          /\ n.stage = "sourcing" /\ n.target = NoPlace /\ n.command = s.command /\ n.collection = s.collection
          /\ n.cwdFirst = s.cwdFirst /\ n.item = DriverOf[s.item] /\ n.force = s.force
          /\ n.model = s.item /\ n.aside = s.target /\ n.removing = s.removing
          /\ \A t : ListIn(n, t) = ListIn(s, t) /\ FirstIn(n, t) = FirstIn(s, t)
      BY <1>1, <2>1, ForDriverFields
    <3> HIDE DEF n
    <3>2. Flow(n)
      BY <1>1, <2>1, <3>1 DEF Flow, Removal, Installation, Done
    <3> QED BY <2>3, <3>1, <3>2 DEF n
  <2> QED BY <1>7, <2>2, <2>3, InstallResults
<1>8. CASE Make(p)
  <2>1. s.stage = "making" /\ (InstallEnds(p, "failure") \/ InstallEnds(p, "success"))
    BY <1>8 DEF Make, At
  <2> QED BY <1>5, <2>1
<1> QED BY <1>6, <1>7, <1>8
LEMMA AfterRefusalFlow ==
  ASSUME NEW s \in Script, Flow(s), s.stage \in Removal
  PROVE  AfterRefusal(s) \in Script /\ Flow(AfterRefusal(s))
<1>1. CASE s.command = "install"
  <2>1. ~s.removing
    BY <1>1 DEF Flow
  <2> QED BY <1>1, <2>1, AfterInstallFlow DEF AfterRefusal
<1>2. CASE s.command # "install"
  <2>1. s.model = NoName
    BY <1>2 DEF Flow
  <2> QED BY <1>2, <2>1, EndingFlow DEF AfterRefusal
<1> QED BY <1>1, <1>2

\* What AfterRemove leaves as it is
LEMMA AfterRemoveFields ==
  ASSUME NEW s \in Script, Flow(s), s.stage \in Removal
  PROVE  LET n == AfterRemove(s)
         IN  /\ n \in Script
             /\ s.command = "remove" => n = Ending(s, "success")
             /\ s.command = "remove-all" => n.stage = "taking"
             /\ s.command = "install" => n.stage = "configuring"
             /\ s.command = "reinstall" => /\ n.stage = "sourcing" /\ ~n.removing
                                           /\ n.found = NoPlace /\ n.type = 1
             /\ s.command # "reinstall" => n.removing = s.removing /\ n.found = s.found /\ n.type = s.type
             /\ s.command \in {"install", "remove-all"} => n.status = s.status
             /\ n.command = s.command /\ n.collection = s.collection /\ n.cwdFirst = s.cwdFirst
             /\ n.item = s.item /\ n.force = s.force /\ n.model = s.model /\ n.aside = s.aside
             /\ n.target = s.target /\ n.warned = s.warned /\ n.list = s.list /\ n.listed = s.listed
             /\ n.interactive = s.interactive
             /\ \A t : ListIn(n, t) = ListIn(s, t) /\ FirstIn(n, t) = FirstIn(s, t)
<1> DEFINE n == AfterRemove(s)
<1>1. s.command \in Command
  BY DEF Script
<1>2. n \in Script
  <2>1. s.command = "remove" => n \in Script
    <3>1. s.command = "remove" => s.model = NoName
      BY DEF Flow
    <3> QED BY <3>1, EndingFlow DEF AfterRemove
  <2>2. s.command = "remove-all" => n \in Script
    BY DEF AfterRemove, Script, Stage
  <2>3. s.command = "install" => n \in Script
    BY DEF AfterRemove, Script, Stage
  <2>4. s.command = "reinstall" => n \in Script
    <3>1. 1 \in 1..3 /\ "sourcing" \in Stage
      BY DEF Stage
    <3> DEFINE one == 1
    <3> HIDE DEF one
    <3>2. [s EXCEPT !.stage = "sourcing", !.removing = FALSE, !.found = NoPlace, !.type = one, !.sudo = FALSE] \in Script
      BY <3>1 DEF Script, one
    <3> QED BY <3>2 DEF AfterRemove, one
  <2> QED BY <1>1, <2>1, <2>2, <2>3, <2>4 DEF Command
<1>3. /\ s.command = "remove" => n = Ending(s, "success")
      /\ s.command = "remove-all" => n.stage = "taking"
      /\ s.command = "install" => n.stage = "configuring"
      /\ s.command = "reinstall" => /\ n.stage = "sourcing" /\ ~n.removing
                                    /\ n.found = NoPlace /\ n.type = 1
  BY DEF AfterRemove, Script
<1>4. /\ s.command # "reinstall" => n.removing = s.removing /\ n.found = s.found /\ n.type = s.type
      /\ s.command \in {"install", "remove-all"} => n.status = s.status
      /\ n.command = s.command /\ n.collection = s.collection /\ n.cwdFirst = s.cwdFirst
      /\ n.item = s.item /\ n.force = s.force /\ n.model = s.model /\ n.aside = s.aside
      /\ n.target = s.target /\ n.warned = s.warned /\ n.list = s.list /\ n.listed = s.listed
      /\ n.interactive = s.interactive
  BY <1>1 DEF AfterRemove, Ending, Script, Command
<1> HIDE DEF n
<1>5. \A t : ListIn(n, t) = ListIn(s, t) /\ FirstIn(n, t) = FirstIn(s, t)
  BY <1>4 DEF ListIn, FirstIn
<1> QED BY <1>2, <1>3, <1>4, <1>5 DEF n

LEMMA AfterRemoveFlow ==
  ASSUME NEW s \in Script, Flow(s), s.stage \in Removal
  PROVE  Flow(AfterRemove(s))
<1> DEFINE n == AfterRemove(s)
<1>1. CASE s.command = "remove"
  <2>1. s.model = NoName /\ AfterRemove(s) = Ending(s, "success")
    BY <1>1, AfterRemoveFields DEF Flow
  <2> QED BY <1>1, <2>1, EndingFlow
<1>2. CASE s.command \in {"remove-all", "install", "reinstall"}
  <2>1. /\ s.command = "remove-all" => n.stage = "taking"
        /\ s.command = "install" => n.stage = "configuring"
        /\ s.command = "reinstall" => n.stage = "sourcing" /\ ~n.removing
        /\ s.command # "reinstall" => n.removing = s.removing
        /\ n.command = s.command /\ n.collection = s.collection /\ n.cwdFirst = s.cwdFirst
        /\ n.item = s.item /\ n.force = s.force /\ n.model = s.model /\ n.aside = s.aside
        /\ \A t : ListIn(n, t) = ListIn(s, t) /\ FirstIn(n, t) = FirstIn(s, t)
    BY AfterRemoveFields
  <2> HIDE DEF n
  <2>2. s.command = "reinstall" => s.model = NoName
    BY DEF Flow
  <2>3. ASSUME s.command = "remove-all" PROVE Flow(n)
    BY <2>1, <2>3 DEF Flow, Removal, Installation, Done
  <2>4. ASSUME s.command = "install" PROVE Flow(n)
    BY <2>1, <2>4 DEF Flow, Removal, Installation, Done
  <2>5. ASSUME s.command = "reinstall" PROVE Flow(n)
    BY <2>1, <2>2, <2>5 DEF Flow, Removal, Installation, Done
  <2> QED BY <1>2, <2>3, <2>4, <2>5 DEF n
<1> QED BY <1>1, <1>2 DEF Script, Command

LEMMA RemoveResults ==
  ASSUME StateInv, NEW p \in Scripts
  PROVE  LET s == script[p]
             n == s.item
         IN
         /\ FindToRemove(p) =>
              \/ IsInstalled(disk, Type(p), n) /\ Changed(p, Staged(s, "locating", s.target))
              \/ /\ ~IsInstalled(disk, Type(p), n) /\ s.type < 3
                 /\ Changed(p, [s EXCEPT !.type = @ + 1])
              \/ ~IsInstalled(disk, Type(p), n) /\ s.type = 3 /\ Changed(p, AfterRefusal(s))
         /\ LocateToRemove(p) =>
              Changed(p, Staged(s, "deleting",
                IF IsInstalled(disk, Type(p), n) THEN Finds(disk, Type(p), n).directory ELSE NoPlace))
         /\ Delete(p) =>
              \/ s.interactive /\ Changed(p, AfterRemove(s)) /\ UNCHANGED <<disk, strayed>>
              \/ ~s.sudo /\ Changed(p, AfterRefusal(s)) /\ UNCHANGED <<disk, strayed>>
              \/ /\ Changed(p, AfterRemove(s))
                 /\ disk' = disk \ {<<s.target, t, n>> : t \in ItemType}
                 /\ strayed' = (strayed \/ s.target = NoPlace)
<1> DEFINE s == script[p]  n == s.item
<1>1. s \in Script
  BY FoundType
<1>2. ASSUME FindToRemove(p)
      PROVE  \/ IsInstalled(disk, Type(p), n) /\ Changed(p, Staged(s, "locating", s.target))
             \/ /\ ~IsInstalled(disk, Type(p), n) /\ s.type < 3
                /\ Changed(p, [s EXCEPT !.type = @ + 1])
             \/ ~IsInstalled(disk, Type(p), n) /\ s.type = 3 /\ Changed(p, AfterRefusal(s))
  <2>1. [s EXCEPT !.stage = "locating"] = Staged(s, "locating", s.target)
    BY <1>1 DEF Script, Staged
  <2> QED BY <1>2, <2>1, BecomesChanged, Returns DEF FindToRemove, StateInv
<1>3. ASSUME LocateToRemove(p)
      PROVE  Changed(p, Staged(s, "deleting",
                IF IsInstalled(disk, Type(p), n) THEN Finds(disk, Type(p), n).directory ELSE NoPlace))
  BY <1>3, BecomesChanged DEF LocateToRemove, StateInv, Staged
<1>4. ASSUME Delete(p)
      PROVE  \/ s.interactive /\ Changed(p, AfterRemove(s)) /\ UNCHANGED <<disk, strayed>>
             \/ ~s.sudo /\ Changed(p, AfterRefusal(s)) /\ UNCHANGED <<disk, strayed>>
             \/ /\ Changed(p, AfterRemove(s))
                /\ disk' = disk \ {<<s.target, t, n>> : t \in ItemType}
                /\ strayed' = (strayed \/ s.target = NoPlace)
  BY <1>4, Returns DEF Delete, StateInv
<1> QED BY <1>2, <1>3, <1>4

LEMMA RemoveSteps ==
  ASSUME StateInv, NEW p \in Scripts, FindToRemove(p) \/ LocateToRemove(p) \/ Delete(p)
  PROVE  StateInv'
<1> DEFINE s == script[p]  n == s.item
<1>1. /\ s \in Script /\ Flow(s) /\ disk \subseteq Item /\ strayed \in BOOLEAN
      /\ s.stage \in Removal /\ Type(p) \in ItemType /\ s.target \in Directories \cup {NoPlace}
  BY FoundType DEF FindToRemove, LocateToRemove, Delete, At, Removal, StateInv, TypeOK, Script
<1>2. disk' \subseteq Item /\ strayed' \in BOOLEAN
  <2>1. CASE FindToRemove(p) \/ LocateToRemove(p)
    BY <1>1, <2>1 DEF FindToRemove, LocateToRemove
  <2>2. CASE Delete(p)
    <3>1. disk' \subseteq disk
      BY <2>2, RemoveResults
    <3>2. strayed' = strayed \/ strayed' = (strayed \/ s.target = NoPlace)
      BY <2>2, RemoveResults
    <3> QED BY <1>1, <3>1, <3>2
  <2> QED BY <2>1, <2>2
<1>3. SUFFICES \E new \in Script : Changed(p, new) /\ Flow(new)
  BY <1>2, StateKept
<1>4. ASSUME NEW stage \in {"locating", "deleting"}, NEW target \in Directories \cup {NoPlace}
      PROVE  Staged(s, stage, target) \in Script /\ Flow(Staged(s, stage, target))
  <2> DEFINE new == Staged(s, stage, target)
  <2>1. stage \in Stage
    BY DEF Stage
  <2>2. /\ new \in Script
        /\ new.stage = stage /\ new.command = s.command /\ new.collection = s.collection
        /\ new.cwdFirst = s.cwdFirst /\ new.item = s.item /\ new.force = s.force
        /\ new.model = s.model /\ new.aside = s.aside /\ new.removing = s.removing
        /\ \A t : ListIn(new, t) = ListIn(s, t) /\ FirstIn(new, t) = FirstIn(s, t)
    BY <1>1, <2>1, StagedFields
  <2> HIDE DEF new
  <2>3. Flow(new)
    BY <1>1, <2>2 DEF Flow, Removal, Installation, Done
  <2> QED BY <2>2, <2>3 DEF new
<1>5. CASE FindToRemove(p)
  <2>1. CASE Changed(p, Staged(s, "locating", s.target))
    BY <1>1, <1>4, <2>1
  <2>2. CASE s.type < 3 /\ Changed(p, [s EXCEPT !.type = @ + 1])
    <3> DEFINE type == s.type + 1  new == [s EXCEPT !.type = type]
    <3>1. type \in 1..3 /\ Changed(p, new)
      BY <1>1, <2>2 DEF Script
    <3> HIDE DEF type
    <3>2. new \in Script
      BY <1>1, <3>1 DEF Script
    <3>3. /\ new.stage = s.stage /\ new.command = s.command /\ new.collection = s.collection
          /\ new.cwdFirst = s.cwdFirst /\ new.item = s.item /\ new.force = s.force
          /\ new.model = s.model /\ new.aside = s.aside /\ new.removing = s.removing
      BY <1>1 DEF Script
    <3> HIDE DEF new
    <3>4. \A t : ListIn(new, t) = ListIn(s, t) /\ FirstIn(new, t) = FirstIn(s, t)
      BY <3>3 DEF ListIn, FirstIn
    <3>5. Flow(new)
      BY <1>1, <3>3, <3>4 DEF Flow, Removal, Installation, Done
    <3> QED BY <3>1, <3>2, <3>5
  <2>3. CASE Changed(p, AfterRefusal(s))
    BY <1>1, <2>3, AfterRefusalFlow
  <2> QED BY <1>5, <2>1, <2>2, <2>3, RemoveResults
<1>6. CASE LocateToRemove(p)
  <2> DEFINE target == IF IsInstalled(disk, Type(p), n) THEN Finds(disk, Type(p), n).directory ELSE NoPlace
  <2>1. Changed(p, Staged(s, "deleting", target))
    BY <1>6, RemoveResults
  <2>2. target \in Directories \cup {NoPlace}
    BY <1>1, Installed
  <2> HIDE DEF target
  <2> QED BY <1>4, <2>1, <2>2
<1>7. CASE Delete(p)
  BY <1>1, <1>7, RemoveResults, AfterRefusalFlow, AfterRemoveFields, AfterRemoveFlow
<1> QED BY <1>5, <1>6, <1>7

LEMMA InitState == Init => StateInv
<1> SUFFICES ASSUME Init PROVE StateInv
  OBVIOUS
<1>1. disk \subseteq Item /\ strayed = FALSE
  BY ManagementAssumption DEF Init
<1>2. PICK n \in Names : script = [p \in Scripts |-> Idle(n)]
  BY DEF Init
<1> QED BY <1>1, <1>2, IdleFlow DEF StateInv, TypeOK

LEMMA NextState == StateInv /\ [Next]_vars => StateInv'
<1> SUFFICES ASSUME StateInv, [Next]_vars PROVE StateInv'
  OBVIOUS
<1>1. ASSUME NEW p \in Scripts, Begins(p) PROVE StateInv'
  <2>1. PICK new \in Script : Changed(p, new) /\ Started(new) /\ UNCHANGED <<disk, strayed>>
    BY <1>1, BeginFlow
  <2> QED BY <2>1, StateKept DEF Started, StateInv, TypeOK
<1>2. ASSUME NEW p \in Scripts, Step(p) PROVE StateInv'
  BY <1>2, ListSteps, LookSteps, InstallSteps, RemoveSteps DEF Step
<1>3. CASE UNCHANGED vars
  BY <1>3, SMTT(30) DEF vars, StateInv, TypeOK, Flow, Done, FirstIn, ListIn
<1> QED BY <1>1, <1>2, <1>3 DEF Next, Begins

\* The variables of the script have their types at every stage of every command.
THEOREM TypeCorrect == Spec => []TypeOK
<1>1. StateInv => TypeOK
  BY DEF StateInv
<1> QED BY <1>1, InitState, NextState, PTL DEF Spec
-----------------------------------------------------------------------------
(* What the scripts have found, installed and are about to remove. *)

\* Nobody removes what another script installs: there is one script, or all only
\* install, without --force.
Undisturbed ==
  (\A p, q \in Scripts : p = q) \/ (Commands \subseteq {"install"} /\ TRUE \notin ByForce)

\* What is installed at the start has the type its sources name.
Typed(D) == \A d \in Directories, t \in ItemType, n \in Names : <<d, t, n>> \in D => TypeOf[n] = t
DisksAreTyped == \A D \in InitialDisks : Typed(D)

Placed(s, D) == Done(s) => <<s.target, TypeOf[s.item], s.item>> \in D

Safe(s, D) ==
  /\ s.stage = "locating" => IsInstalled(D, ScriptTypes[s.type], s.item)
  /\ s.stage = "deleting" => s.target # NoPlace

Driven(s, D) ==
  s.command = "install" =>
    /\ s.stage = "looking" /\ s.found # NoPlace => IsInstalled(D, TypeOf[s.item], s.item)
    /\ (s.stage = "making" /\ s.model = NoName) \/ Done(s) =>
         (~s.warned /\ DriverOf[s.item] # NoName => IsInstalled(D, "modelDriver", DriverOf[s.item]))

Facts(s, D) == Placed(s, D) /\ Safe(s, D) /\ (DisksAreTyped => Driven(s, D))

SafeInv ==
  /\ StateInv /\ ~strayed
  /\ DisksAreTyped => Typed(disk)
  /\ \A p \in Scripts : Facts(script[p], disk)

\* An installed item stays installed while the disk only grows.
LEMMA Grows ==
  ASSUME NEW D, NEW E, D \subseteq E
  PROVE  /\ \A t \in ItemType : \A n : IsInstalled(D, t, n) => IsInstalled(E, t, n)
         /\ \A s \in Script : Facts(s, D) => Facts(s, E)
<1>1. \A t \in ItemType : \A n : IsInstalled(D, t, n) => IsInstalled(E, t, n)
  BY Installed
<1>2. ASSUME NEW s \in Script, Facts(s, D) PROVE Facts(s, E)
  <2>1. ScriptTypes[s.type] \in ItemType /\ TypeOf[s.item] \in ItemType /\ "modelDriver" \in ItemType
    BY ItemTypes, NamesAndTypes DEF Script
  <2> QED BY <1>1, <1>2, <2>1 DEF Facts, Placed, Safe, Driven
<1> QED BY <1>1, <1>2

LEMMA LookedFields ==
  ASSUME NEW s \in Script, NEW stage, NEW type, NEW found, NEW collection
  PROVE  LET n == Looked(s, stage, type, found, collection)
         IN  /\ n.stage = stage /\ n.type = type /\ n.found = found /\ n.collection = collection
             /\ n.command = s.command /\ n.item = s.item /\ n.force = s.force /\ n.model = s.model
             /\ n.target = s.target /\ n.warned = s.warned /\ n.status = s.status
             /\ n.removing = s.removing
BY DEF Script, Looked

LEMMA EndingFields ==
  ASSUME NEW s \in Script, NEW status
  PROVE  LET n == Ending(s, status)
         IN  /\ n.stage = "idle" /\ n.status = status
             /\ n.type = s.type /\ n.found = s.found /\ n.collection = s.collection
             /\ n.command = s.command /\ n.item = s.item /\ n.force = s.force /\ n.model = s.model
             /\ n.target = s.target /\ n.warned = s.warned /\ n.removing = s.removing
             /\ n.sudo = s.sudo /\ n.interactive = s.interactive
BY DEF Script, Ending

LEMMA AfterInstallFields ==
  ASSUME NEW s \in Script, NEW status
  PROVE  LET n == AfterInstall(s, status)
         IN  /\ s.model = NoName => n = Ending(s, status)
             /\ s.model # NoName =>
                  /\ n.stage = "making" /\ n.item = s.model /\ n.model = NoName /\ n.target = s.aside
                  /\ n.warned = (status = "failure") /\ n.command = s.command /\ n.force = s.force
                  /\ n.status = s.status
BY DEF Script, AfterInstall

\* The steps that look for an item
LEMMA LookResults ==
  ASSUME StateInv, NEW p \in Scripts
  PROVE  LET s == script[p] IN
         /\ FindSources(p) =>
              \/ s.removing /\ Changed(p, Ending(s, "failure"))
              \/ ~s.removing /\ Changed(p, AfterInstall(s, "failure"))
              \/ Changed(p, Looked(s, "looking", 1, NoPlace, s.collection))
         /\ LookForItem(p) =>
              s.type < 3 /\ Changed(p, Looked(s, "looking", s.type + 1, FoundFirst(p), s.collection))
         /\ DecideOnItem(p) =>
              \/ \E c \in Word : s.removing /\ Changed(p, Looked(s, "finding", 1, s.found, c))
              \/ /\ ~s.removing /\ FoundFirst(p) = NoPlace /\ s.type = 3
                 /\ Changed(p, Looked(s, "configuring", s.type, s.found, s.collection))
              \/ /\ ~s.removing /\ s.force /\ FoundFirst(p) # NoPlace
                 /\ Changed(p, Looked(s, "finding", 1, s.found, s.collection))
              \/ /\ ~s.removing /\ ~s.force /\ FoundFirst(p) # NoPlace
                 /\ \E status \in {"success", "failure"} : Changed(p, AfterInstall(s, status))
<1> DEFINE s == script[p]
<1>1. s \in Script /\ Flow(s) /\ FoundFirst(p) \in Collection \cup {NoPlace}
  BY FoundType
<1>2. s.stage = "sourcing" /\ s.removing => s.command = "reinstall"
  BY <1>1 DEF Flow
<1>3. ASSUME FindSources(p)
      PROVE  \/ s.removing /\ Changed(p, Ending(s, "failure"))
             \/ ~s.removing /\ Changed(p, AfterInstall(s, "failure"))
             \/ Changed(p, Looked(s, "looking", 1, NoPlace, s.collection))
  <2>1. [s EXCEPT !.stage = "looking", !.type = 1, !.found = NoPlace]
          = Looked(s, "looking", 1, NoPlace, s.collection)
    BY <1>1 DEF Script, Looked
  <2>2. s.stage = "sourcing" /\
        (\/ s.removing /\ Ends(p, "failure")
         \/ ~s.removing /\ InstallEnds(p, "failure")
         \/ Becomes(p, Looked(s, "looking", 1, NoPlace, s.collection)))
    BY <1>2, <1>3, <2>1 DEF FindSources, At
  <2> QED BY <2>2, BecomesChanged, Returns DEF StateInv
<1>4. ASSUME LookForItem(p)
      PROVE  s.type < 3 /\ Changed(p, Looked(s, "looking", s.type + 1, FoundFirst(p), s.collection))
  <2>1. s.stage = "looking" /\ s.type < 3 /\ Becomes(p, [s EXCEPT !.type = @ + 1, !.found = FoundFirst(p)])
    BY <1>4 DEF LookForItem, At
  <2>2. [s EXCEPT !.type = @ + 1, !.found = FoundFirst(p)]
          = Looked(s, "looking", s.type + 1, FoundFirst(p), s.collection)
    BY <1>1, <2>1 DEF Script, Looked
  <2> QED BY <2>1, <2>2, BecomesChanged DEF StateInv
<1>5. ASSUME DecideOnItem(p)
      PROVE  \/ \E c \in Word : s.removing /\ Changed(p, Looked(s, "finding", 1, s.found, c))
             \/ /\ ~s.removing /\ FoundFirst(p) = NoPlace /\ s.type = 3
                /\ Changed(p, Looked(s, "configuring", s.type, s.found, s.collection))
             \/ /\ ~s.removing /\ s.force /\ FoundFirst(p) # NoPlace
                /\ Changed(p, Looked(s, "finding", 1, s.found, s.collection))
             \/ /\ ~s.removing /\ ~s.force /\ FoundFirst(p) # NoPlace
                /\ \E status \in {"success", "failure"} : Changed(p, AfterInstall(s, status))
  <2> DEFINE c == IF FoundFirst(p) = NoPlace THEN "" ELSE FoundFirst(p)
  <2>1. c \in Word
    BY <1>1 DEF Word
  <2> HIDE DEF c
  <2>2. /\ [s EXCEPT !.stage = "finding", !.type = 1, !.collection = c] = Looked(s, "finding", 1, s.found, c)
        /\ [s EXCEPT !.stage = "configuring"] = Looked(s, "configuring", s.type, s.found, s.collection)
        /\ [s EXCEPT !.stage = "finding", !.type = 1] = Looked(s, "finding", 1, s.found, s.collection)
    BY <1>1 DEF Script, Looked
  <2>3. \/ s.removing /\ Becomes(p, Looked(s, "finding", 1, s.found, c))
        \/ /\ ~s.removing /\ FoundFirst(p) = NoPlace /\ s.type = 3
           /\ Becomes(p, Looked(s, "configuring", s.type, s.found, s.collection))
        \/ /\ ~s.removing /\ s.force /\ FoundFirst(p) # NoPlace
           /\ Becomes(p, Looked(s, "finding", 1, s.found, s.collection))
        \/ /\ ~s.removing /\ ~s.force /\ FoundFirst(p) # NoPlace
           /\ \E status \in {"success", "failure"} : InstallEnds(p, status)
    BY <1>5, <2>2 DEF DecideOnItem, At, c
  <2> QED BY <2>1, <2>3, BecomesChanged, Returns DEF StateInv
<1> QED BY <1>3, <1>4, <1>5
\* What a failure leaves says nothing.
LEMMA FailureFacts ==
  ASSUME NEW D, NEW s \in Script, Flow(s)
  PROVE  Facts(AfterInstall(s, "failure"), D) /\ Facts(Ending(s, "failure"), D)
<1> DEFINE n == AfterInstall(s, "failure")  e == Ending(s, "failure")
<1>1. Facts(e, D)
  <2>1. e.stage = "idle" /\ e.status = "failure"
    BY EndingFields
  <2> HIDE DEF e
  <2> QED BY <2>1 DEF Facts, Placed, Safe, Driven, Done
<1>2. CASE s.model = NoName
  BY <1>1, <1>2, AfterInstallFields
<1>3. CASE s.model # NoName
  <2>1. n.stage = "making" /\ n.warned = TRUE
    BY <1>3, AfterInstallFields
  <2> HIDE DEF n
  <2> QED BY <1>1, <2>1 DEF Facts, Placed, Safe, Driven, Done, n
<1> QED BY <1>1, <1>2, <1>3

LEMMA LookFacts ==
  ASSUME SafeInv, NEW p \in Scripts, FindSources(p) \/ LookForItem(p) \/ DecideOnItem(p)
  PROVE  Facts(script'[p], disk)
<1> DEFINE s == script[p]
<1>1. StateInv /\ s \in Script /\ Flow(s) /\ Facts(s, disk) /\ Type(p) \in ItemType /\ s.item \in Names
  BY FoundType DEF SafeInv, Script
<1>2. ASSUME s.command = "install", s.stage = "looking", FoundFirst(p) # NoPlace, DisksAreTyped
      PROVE  IsInstalled(disk, TypeOf[s.item], s.item)
  <2>1. CASE s.found # NoPlace
    BY <1>1, <1>2, <2>1 DEF Facts, Driven
  <2>2. CASE s.found = NoPlace
    <3>1. IsInstalled(disk, Type(p), s.item)
      BY <1>2, <2>2 DEF FoundFirst
    <3>2. Finds(disk, Type(p), s.item).directory \in Directories
          /\ <<Finds(disk, Type(p), s.item).directory, Type(p), s.item>> \in disk
      BY <1>1, <3>1, Installed
    <3>3. TypeOf[s.item] = Type(p)
      BY <1>1, <1>2, <3>2 DEF SafeInv, Typed
    <3> QED BY <3>1, <3>3
  <2> QED BY <2>1, <2>2
<1>3. ASSUME NEW stage \in {"looking", "finding", "configuring"}, NEW type, NEW found, NEW collection,
             stage = "looking" => found = NoPlace \/ (found = FoundFirst(p) /\ s.stage = "looking"),
             Changed(p, Looked(s, stage, type, found, collection))
      PROVE  Facts(script'[p], disk)
  <2> DEFINE n == Looked(s, stage, type, found, collection)
  <2>1. n.stage = stage /\ n.found = found /\ n.command = s.command /\ n.item = s.item
    BY <1>1, LookedFields
  <2> HIDE DEF n
  <2>2. Facts(n, disk)
    BY <1>2, <1>3, <2>1 DEF Facts, Placed, Safe, Driven, Done
  <2> QED BY <1>3, <2>2 DEF Changed, n
<1>4. CASE FindSources(p)
  BY <1>1, <1>3, <1>4, LookResults, FailureFacts DEF Changed
<1>5. CASE LookForItem(p)
  <2>1. s.stage = "looking"
    BY <1>5 DEF LookForItem, At
  <2> QED BY <1>1, <1>3, <1>5, <2>1, LookResults
<1>6. CASE DecideOnItem(p)
  <2>0. s.stage = "looking"
    BY <1>6 DEF DecideOnItem, At
  <2>1. CASE \E status \in {"success", "failure"} : Changed(p, AfterInstall(s, status)) /\ ~s.removing
                                                     /\ FoundFirst(p) # NoPlace
    <3>1. PICK status \in {"success", "failure"} : Changed(p, AfterInstall(s, status))
      BY <2>1
    <3>2. CASE status = "failure"
      BY <1>1, <3>1, <3>2, FailureFacts DEF Changed
    <3> DEFINE n == AfterInstall(s, "success")
    <3>3. CASE status = "success" /\ s.model = NoName
      <4>1. n.stage = "idle" /\ n.command = s.command /\ n.target = s.target
        BY <1>1, <3>3, AfterInstallFields, EndingFields
      <4>2. s.command = "install" => s.target = NoPlace
        BY <1>1, <2>0, <3>3 DEF Flow
      <4> HIDE DEF n
      <4>3. Facts(n, disk)
        BY <4>1, <4>2 DEF Facts, Placed, Safe, Driven, Done
      <4> QED BY <3>1, <3>3, <4>3 DEF Changed, n
    <3>4. CASE status = "success" /\ s.model # NoName
      <4>1. n.stage = "making" /\ n.command = s.command /\ n.item = s.model
        BY <1>1, <3>4, AfterInstallFields
      <4>2. s.model \in Names /\ DriverOf[s.model] = s.item
        BY <1>1, <3>4 DEF Flow, Script
      <4>3. TypeOf[s.item] = "modelDriver"
        BY <1>1, <4>2, NamesAndTypes
      <4> HIDE DEF n
      <4>4. Facts(n, disk)
        BY <1>2, <2>0, <2>1, <4>1, <4>2, <4>3 DEF Facts, Placed, Safe, Driven, Done
      <4> QED BY <3>1, <3>4, <4>4 DEF Changed, n
    <3> QED BY <3>2, <3>3, <3>4
  <2> QED BY <1>1, <1>3, <1>6, <2>1, LookResults
<1> QED BY <1>4, <1>5, <1>6

LEMMA MakeResults ==
  ASSUME StateInv, NEW p \in Scripts, Make(p)
  PROVE  LET s == script[p]
             new == <<s.target, TypeOf[s.item], s.item>>
         IN  /\ s.stage = "making" /\ strayed' = strayed
             /\ \/ Changed(p, AfterInstall(s, "failure")) /\ disk' = disk
                \/ Changed(p, AfterInstall(s, "success")) /\ disk' = disk \cup {new}
             /\ IsInstalled(disk', TypeOf[s.item], s.item) \/ disk' = disk
<1> DEFINE s == script[p]  new == <<s.target, TypeOf[s.item], s.item>>
<1>1. s \in Script /\ Flow(s) /\ s.stage = "making" /\ TypeOf[s.item] \in ItemType
  BY FoundType, NamesAndTypes DEF Make, At, Script
<1>2. /\ strayed' = strayed
      /\ \/ Changed(p, AfterInstall(s, "failure")) /\ disk' = disk
         \/ Changed(p, AfterInstall(s, "success")) /\ disk' = disk \cup {new}
  BY Returns DEF Make, StateInv
<1>3. \E c \in Collection : s.target \in DirectoriesOf(c, TypeOf[s.item])
  BY <1>1, Lists DEF Flow
<1>4. disk' = disk \cup {new} => IsInstalled(disk', TypeOf[s.item], s.item)
  <2>1. ASSUME NEW D, new \in D PROVE IsInstalled(D, TypeOf[s.item], s.item)
    BY <1>1, <1>3, <2>1, Installed
  <2> QED BY <2>1
<1> QED BY <1>1, <1>2, <1>4

LEMMA InstallFacts ==
  ASSUME SafeInv, NEW p \in Scripts, Configure(p) \/ CheckDriver(p) \/ Make(p)
  PROVE  Facts(script'[p], disk')
<1> DEFINE s == script[p]
<1>1. StateInv /\ s \in Script /\ Flow(s) /\ Facts(s, disk) /\ s.item \in Names
      /\ s.target \in Directories \cup {NoPlace}
  BY FoundType DEF SafeInv, Script
<1>2. CASE Configure(p)
  <2>1. disk' = disk
    BY <1>2 DEF Configure
  <2>2. CASE InstallEnds(p, "failure")
    BY <1>1, <2>1, <2>2, FailureFacts, Returns DEF Changed, StateInv
  <2>3. CASE ListIn(s, TypeOf[s.item]) # <<>> /\ Changed(p, AfterConfigure(s))
    <3> DEFINE stage == IF DriverOf[s.item] = NoName THEN "making" ELSE "checking"
               n == Staged(s, stage, FirstIn(s, TypeOf[s.item]))
    <3>1. n.stage = stage /\ n.item = s.item
      BY <1>1 DEF Staged, Script
    <3>2. Facts(n, disk)
      <4> HIDE DEF n
      <4> QED BY <3>1 DEF Facts, Placed, Safe, Driven, Done
    <3> QED BY <2>1, <2>3, <3>2 DEF Changed, AfterConfigure
  <2> QED BY <1>1, <1>2, <2>2, <2>3, InstallResults
<1>3. CASE CheckDriver(p)
  <2>1. disk' = disk /\ s.stage = "checking" /\ DriverOf[s.item] # NoName
    BY <1>1, <1>3 DEF CheckDriver, At, Flow
  <2>2. CASE IsInstalled(disk, "modelDriver", DriverOf[s.item]) /\ Changed(p, Staged(s, "making", s.target))
    <3> DEFINE n == Staged(s, "making", s.target)
    <3>1. n.stage = "making" /\ n.item = s.item
      <4>1. "making" \in Stage
        BY DEF Stage
      <4> QED BY <1>1, <4>1, StagedFields
    <3>2. Facts(n, disk)
      <4> HIDE DEF n
      <4> QED BY <2>2, <3>1 DEF Facts, Placed, Safe, Driven, Done
    <3> QED BY <2>1, <2>2, <3>2 DEF Changed
  <2>3. CASE Changed(p, ForDriver(s))
    <3> DEFINE n == ForDriver(s)
    <3>1. n.stage = "sourcing"
      BY <1>1, <2>1, ForDriverFields
    <3>2. Facts(n, disk)
      <4> HIDE DEF n
      <4> QED BY <3>1 DEF Facts, Placed, Safe, Driven, Done
    <3> QED BY <2>1, <2>3, <3>2 DEF Changed
  <2> QED BY <1>1, <1>3, <2>2, <2>3, InstallResults
<1>4. CASE Make(p)
  <2>1. s.stage = "making"
    BY <1>1, <1>4, MakeResults
  <2>2. CASE Changed(p, AfterInstall(s, "failure"))
    BY <1>1, <2>2, FailureFacts DEF Changed
  <2>3. CASE Changed(p, AfterInstall(s, "success")) /\ disk' = disk \cup {<<s.target, TypeOf[s.item], s.item>>}
    <3> DEFINE n == AfterInstall(s, "success")
    <3>1. CASE s.model = NoName
      <4>1. n.stage = "idle" /\ n.command = s.command /\ n.target = s.target /\ n.item = s.item /\ n.warned = s.warned
        BY <1>1, <3>1, AfterInstallFields, EndingFields
      <4>2. Facts(s, disk')
        BY <1>1, <2>3, Grows
      <4> HIDE DEF n
      <4>3. Facts(n, disk')
        BY <2>1, <2>3, <3>1, <4>1, <4>2 DEF Facts, Placed, Safe, Driven, Done
      <4> QED BY <2>3, <4>3 DEF Changed, n
    <3>2. CASE s.model # NoName
      <4>1. n.stage = "making" /\ n.command = s.command /\ n.item = s.model
        BY <1>1, <3>2, AfterInstallFields
      <4>2. s.model \in Names /\ DriverOf[s.model] = s.item
        BY <1>1, <3>2 DEF Flow, Script
      <4>3. TypeOf[s.item] = "modelDriver"
        BY <1>1, <4>2, NamesAndTypes
      <4>4. IsInstalled(disk', "modelDriver", s.item)
        <5>1. <<s.target, "modelDriver", s.item>> \in disk'
          BY <2>3, <4>3
        <5>2. \E c \in Collection : s.target \in DirectoriesOf(c, "modelDriver")
          BY <1>1, <2>1, <4>3, Lists, NamesAndTypes DEF Flow
        <5>3. "modelDriver" \in ItemType
          BY ItemTypes
        <5> QED BY <5>1, <5>2, <5>3, Installed
      <4> HIDE DEF n
      <4>5. Facts(n, disk')
        BY <4>1, <4>2, <4>4 DEF Facts, Placed, Safe, Driven, Done
      <4> QED BY <2>3, <4>5 DEF Changed, n
    <3> QED BY <3>1, <3>2
  <2> QED BY <1>1, <1>4, <2>2, <2>3, MakeResults
<1> QED BY <1>2, <1>3, <1>4

LEMMA RemoveFacts ==
  ASSUME SafeInv, NEW p \in Scripts, FindToRemove(p) \/ LocateToRemove(p) \/ Delete(p)
  PROVE  Facts(script'[p], disk') /\ ~strayed'
<1> DEFINE s == script[p]
<1>1. /\ StateInv /\ s \in Script /\ Flow(s) /\ Facts(s, disk) /\ s.item \in Names
      /\ Type(p) \in ItemType /\ Type(p) = ScriptTypes[s.type] /\ ~strayed
      /\ s.target \in Directories \cup {NoPlace} /\ s.stage \in Removal
  BY FoundType DEF SafeInv, Script, FindToRemove, LocateToRemove, Delete, At, Removal
<1>2. ASSUME NEW D PROVE Facts(AfterRefusal(s), D)
  BY <1>1, FailureFacts DEF AfterRefusal
<1>3. ASSUME NEW D PROVE Facts(AfterRemove(s), D)
  <2> DEFINE n == AfterRemove(s)
  <2>1. /\ s.command = "remove" => n.stage = "idle"
        /\ s.command # "remove" => n.stage \in {"taking", "configuring", "sourcing"}
        /\ n.command = s.command /\ s.command \in Command
    BY <1>1, AfterRemoveFields, EndingFields DEF Script, Command
  <2> HIDE DEF n
  <2> QED BY <2>1 DEF Facts, Placed, Safe, Driven, Done, n
<1>4. CASE FindToRemove(p)
  <2>1. disk' = disk /\ strayed' = strayed /\ s.stage = "finding"
    BY <1>4 DEF FindToRemove, At
  <2>2. CASE IsInstalled(disk, Type(p), s.item) /\ Changed(p, Staged(s, "locating", s.target))
    <3> DEFINE n == Staged(s, "locating", s.target)
    <3>1. n.stage = "locating" /\ n.item = s.item /\ n.type = s.type
      <4>1. "locating" \in Stage
        BY DEF Stage
      <4> QED BY <1>1, <4>1, StagedFields
    <3>2. Facts(n, disk)
      <4> HIDE DEF n
      <4> QED BY <1>1, <2>2, <3>1 DEF Facts, Placed, Safe, Driven, Done
    <3> QED BY <1>1, <2>1, <2>2, <3>2 DEF Changed
  <2>3. CASE Changed(p, [s EXCEPT !.type = @ + 1])
    <3> DEFINE n == [s EXCEPT !.type = @ + 1]
    <3>1. n.stage = "finding"
      BY <1>1, <2>1 DEF Script
    <3>2. Facts(n, disk)
      <4> HIDE DEF n
      <4> QED BY <3>1 DEF Facts, Placed, Safe, Driven, Done
    <3> QED BY <1>1, <2>1, <2>3, <3>2 DEF Changed
  <2>4. CASE Changed(p, AfterRefusal(s))
    BY <1>1, <1>2, <2>1, <2>4 DEF Changed
  <2> QED BY <1>1, <1>4, <2>2, <2>3, <2>4, RemoveResults
<1>5. CASE LocateToRemove(p)
  <2>1. disk' = disk /\ strayed' = strayed /\ s.stage = "locating"
    BY <1>5 DEF LocateToRemove, At
  <2> DEFINE place == Finds(disk, Type(p), s.item).directory
             n == Staged(s, "deleting", place)
  <2>2. IsInstalled(disk, Type(p), s.item)
    BY <1>1, <2>1 DEF Facts, Safe
  <2>3. place \in Directories /\ place # NoPlace
    <3>1. NoPlace \notin Directories
      BY ManagementAssumption
    <3>2. place \in Directories
      BY <1>1, <2>2, Installed
    <3> HIDE DEF place
    <3> QED BY <3>1, <3>2
  <2>4. Changed(p, n)
    BY <1>1, <1>5, <2>2, RemoveResults
  <2> HIDE DEF place
  <2>5. n.stage = "deleting" /\ n.target = place
    <3>1. "deleting" \in Stage
      BY DEF Stage
    <3> QED BY <1>1, <2>3, <3>1, StagedFields
  <2> HIDE DEF n
  <2>6. Facts(n, disk)
    BY <2>3, <2>5 DEF Facts, Placed, Safe, Driven, Done
  <2> QED BY <1>1, <2>1, <2>4, <2>6 DEF Changed
<1>6. CASE Delete(p)
  <2>1. s.target # NoPlace
    BY <1>1, <1>6 DEF Delete, At, Facts, Safe
  <2>2. ~strayed'
    BY <1>1, <1>6, <2>1, RemoveResults
  <2> QED BY <1>1, <1>2, <1>3, <1>6, <2>2, RemoveResults DEF Changed
<1> QED BY <1>4, <1>5, <1>6-----------------------------------------------------------------------------
(* The steps of remove-all, and what no step changes. *)

Counted(s, counts) == [s EXCEPT !.stage = "taking", !.listed = s.type, !.list = counts]
Taken(s, n) == [s EXCEPT !.stage = "finding", !.type = 1, !.item = n, !.list[n] = @ - 1]
NextList(s) == [s EXCEPT !.stage = "listing", !.type = s.listed + 1]

LEMMA ListFields ==
  ASSUME NEW s \in Script
  PROVE  /\ \A counts : LET n == Counted(s, counts) IN
              /\ n.stage = "taking" /\ n.listed = s.type /\ n.list = counts /\ n.command = s.command
              /\ n.interactive = s.interactive /\ n.sudo = s.sudo /\ n.status = s.status /\ n.force = s.force
         /\ \A m \in Names : LET n == Taken(s, m) IN
              /\ n.stage = "finding" /\ n.type = 1 /\ n.item = m /\ n.listed = s.listed
              /\ n.list = [s.list EXCEPT ![m] = @ - 1] /\ n.command = s.command
              /\ n.interactive = s.interactive /\ n.sudo = s.sudo /\ n.status = s.status /\ n.force = s.force
         /\ LET n == NextList(s) IN
              /\ n.stage = "listing" /\ n.type = s.listed + 1 /\ n.listed = s.listed
              /\ n.list = s.list /\ n.command = s.command
              /\ n.interactive = s.interactive /\ n.sudo = s.sudo /\ n.status = s.status /\ n.force = s.force
BY DEF Script, Counted, Taken, NextList

LEMMA ListResults ==
  ASSUME StateInv, NEW p \in Scripts
  PROVE  LET s == script[p] IN
         /\ ListItems(p) =>
              /\ s.stage = "listing" /\ UNCHANGED <<disk, strayed>>
              /\ Changed(p, Counted(s, [n \in Names |-> Cardinality(CopiesOf(disk, ScriptTypes[s.type], n))]))
         /\ TakeItem(p) =>
              /\ s.stage = "taking" /\ UNCHANGED <<disk, strayed>>
              /\ \/ \E n \in Names : s.list[n] > 0 /\ Changed(p, Taken(s, n))
                 \/ (\A n \in Names : ~(s.list[n] > 0)) /\ s.listed < 3 /\ Changed(p, NextList(s))
                 \/ (\A n \in Names : ~(s.list[n] > 0)) /\ s.listed = 3 /\ Changed(p, Ending(s, "success"))
<1> DEFINE s == script[p]
<1>1. \A n : Copies(p, n) = CopiesOf(disk, ScriptTypes[s.type], n)
  BY CopiesAre
<1>2. ASSUME ListItems(p)
      PROVE  /\ s.stage = "listing" /\ UNCHANGED <<disk, strayed>>
             /\ Changed(p, Counted(s, [n \in Names |-> Cardinality(CopiesOf(disk, ScriptTypes[s.type], n))]))
  <2>1. [n \in Names |-> Cardinality(Copies(p, n))]
          = [n \in Names |-> Cardinality(CopiesOf(disk, ScriptTypes[s.type], n))]
    BY <1>1
  <2> QED BY <1>2, <2>1, BecomesChanged DEF ListItems, At, StateInv, Counted
<1>3. ASSUME TakeItem(p)
      PROVE  /\ s.stage = "taking" /\ UNCHANGED <<disk, strayed>>
             /\ \/ \E n \in Names : s.list[n] > 0 /\ Changed(p, Taken(s, n))
                \/ (\A n \in Names : ~(s.list[n] > 0)) /\ s.listed < 3 /\ Changed(p, NextList(s))
                \/ (\A n \in Names : ~(s.list[n] > 0)) /\ s.listed = 3 /\ Changed(p, Ending(s, "success"))
  <2>1. \A n : n \in Listed(p) <=> n \in Names /\ s.list[n] > 0
    BY DEF Listed
  <2>2. /\ s.stage = "taking" /\ UNCHANGED <<disk, strayed>>
        /\ \/ \E n \in Listed(p) : Becomes(p, Taken(s, n))
           \/ Listed(p) = {} /\ s.listed < 3 /\ Becomes(p, NextList(s))
           \/ Listed(p) = {} /\ s.listed = 3 /\ Ends(p, "success")
    BY <1>3 DEF TakeItem, At, Taken, NextList
  <2> QED BY <2>1, <2>2, BecomesChanged, Returns DEF StateInv
<1> QED BY <1>2, <1>3

\* A script that runs keeps its command, and says how it has ended.
LEMMA StepKeeps ==
  ASSUME StateInv, NEW p \in Scripts, Step(p)
  PROVE  LET s == script[p]
             n == script'[p]
         IN  /\ s.stage # "idle" /\ n.command = s.command /\ n.force = s.force
             /\ n.stage # "idle" \/ n.status # "none"
             /\ \A q \in Scripts \ {p} : script'[q] = script[q]
<1> DEFINE s == script[p]
           Kept(n) == /\ n.command = s.command /\ n.force = s.force
                      /\ n.stage # "idle" \/ n.status # "none"
<1>1. s \in Script /\ Flow(s)
  BY FoundType
<1>2. s.stage # "idle"
  BY DEF Step, ListItems, TakeItem, FindSources, LookForItem, DecideOnItem, Configure, CheckDriver, Make,
         FindToRemove, LocateToRemove, Delete, At
<1>3. SUFFICES \E n : Changed(p, n) /\ Kept(n)
  BY <1>2 DEF Changed
<1>4. \A status : status # "none" => Kept(Ending(s, status)) /\ Kept(AfterInstall(s, status))
  <2>1. TAKE status
  <2>2. HAVE status # "none"
  <2>3. Kept(Ending(s, status))
    BY <1>1, <2>2, EndingFields
  <2>4. s.model # NoName => Kept(AfterInstall(s, status))
    BY <1>1, AfterInstallFields
  <2> QED BY <1>1, <2>3, <2>4, AfterInstallFields
<1>5. Kept(AfterRefusal(s))
  BY <1>4 DEF AfterRefusal
<1>6. \A stage, type, found, collection : stage # "idle" => Kept(Looked(s, stage, type, found, collection))
  BY <1>1, LookedFields
<1>7. \A stage \in Stage, target \in Directories \cup {NoPlace} : stage # "idle" => Kept(Staged(s, stage, target))
  BY <1>1, StagedFields
<1>8. s.target \in Directories \cup {NoPlace} /\ {"making", "checking", "locating", "deleting"} \subseteq Stage
      /\ s.command \in Command
  BY <1>1 DEF Script, Stage
<1>9. CASE ListItems(p) \/ TakeItem(p)
  <2>1. \A counts : Kept(Counted(s, counts))
    BY <1>1, ListFields
  <2>2. \A n \in Names : Kept(Taken(s, n))
    BY <1>1, ListFields
  <2>3. Kept(NextList(s))
    BY <1>1, ListFields
  <2> HIDE DEF Kept
  <2> QED BY <1>4, <1>9, <2>1, <2>2, <2>3, ListResults
<1>10. CASE FindSources(p) \/ LookForItem(p) \/ DecideOnItem(p)
  <2> HIDE DEF Kept
  <2>1. CASE FindSources(p)
    BY <1>4, <1>6, <2>1, LookResults
  <2>2. CASE LookForItem(p)
    BY <1>6, <2>2, LookResults
  <2>3. CASE DecideOnItem(p)
    BY <1>4, <1>6, <2>3, LookResults
  <2> QED BY <1>10, <2>1, <2>2, <2>3
<1>11. CASE Configure(p)
  <2>1. CASE InstallEnds(p, "failure")
    BY <1>4, <2>1, Returns DEF StateInv
  <2>2. CASE ListIn(s, TypeOf[s.item]) # <<>> /\ Changed(p, AfterConfigure(s))
    <3>1. FirstIn(s, TypeOf[s.item]) \in Directories
      BY <1>1, <2>2, Lists, NamesAndTypes DEF Script
    <3> DEFINE stage == IF DriverOf[s.item] = NoName THEN "making" ELSE "checking"
    <3>2. stage \in Stage /\ stage # "idle"
      BY DEF Stage
    <3> HIDE DEF stage
    <3>3. Kept(Staged(s, stage, FirstIn(s, TypeOf[s.item])))
      BY <1>7, <3>1, <3>2
    <3>4. AfterConfigure(s) = Staged(s, stage, FirstIn(s, TypeOf[s.item]))
      BY DEF AfterConfigure, stage
    <3> HIDE DEF Kept
    <3> QED BY <2>2, <3>3, <3>4
  <2> QED BY <1>11, <2>1, <2>2, InstallResults
<1>12. CASE CheckDriver(p)
  <2>1. s.stage = "checking"
    BY <1>12 DEF CheckDriver, At
  <2>2. Kept(ForDriver(s))
    BY <1>1, <2>1, ForDriverFields DEF Flow
  <2> HIDE DEF Kept
  <2> QED BY <1>7, <1>8, <1>12, <2>2, InstallResults
<1>13. CASE Make(p)
  <2> HIDE DEF Kept
  <2> QED BY <1>4, <1>13, MakeResults
<1>14. CASE FindToRemove(p)
  <2>1. s.stage = "finding"
    BY <1>14 DEF FindToRemove, At
  <2>2. Kept([s EXCEPT !.type = @ + 1])
    BY <1>1, <2>1 DEF Script
  <2> HIDE DEF Kept
  <2> QED BY <1>5, <1>7, <1>8, <1>14, <2>2, RemoveResults
<1>15. CASE LocateToRemove(p)
  <2> DEFINE target == IF IsInstalled(disk, Type(p), s.item)
                       THEN Finds(disk, Type(p), s.item).directory ELSE NoPlace
  <2>1. target \in Directories \cup {NoPlace}
    BY FoundType, Installed
  <2>2. Changed(p, Staged(s, "deleting", target))
    BY <1>15, RemoveResults
  <2> HIDE DEF target, Kept
  <2> QED BY <1>7, <1>8, <2>1, <2>2 DEF Kept
<1>16. CASE Delete(p)
  <2>1. Kept(AfterRemove(s))
    <3>1. s.stage \in Removal
      BY <1>16 DEF Delete, At, Removal
    <3>2. s.command = "remove" => Kept(AfterRemove(s))
      BY <1>1, <1>4, <3>1, AfterRemoveFields
    <3>3. s.command # "remove" => Kept(AfterRemove(s))
      BY <1>1, <1>8, <3>1, AfterRemoveFields DEF Command
    <3> QED BY <3>2, <3>3
  <2> HIDE DEF Kept
  <2> QED BY <1>5, <1>16, <2>1, RemoveResults
<1> HIDE DEF Kept
<1> QED BY <1>9, <1>10, <1>11, <1>12, <1>13, <1>14, <1>15, <1>16 DEF Step-----------------------------------------------------------------------------
(* What is installed is where it was to be and has its driver, and only    *)
(* items are removed.                                                      *)

\* What a script that runs was started with
Chosen(s) == s.stage # "idle" => s.command \in Commands /\ (s.command = "install" => s.force \in ByForce)

KeptInv == SafeInv /\ \A p \in Scripts : Chosen(script[p])

LEMMA StartedFacts ==
  ASSUME NEW D, NEW s, Started(s)
  PROVE  Facts(s, D)
BY DEF Started, Facts, Placed, Safe, Driven, Done

LEMMA StepFacts ==
  ASSUME SafeInv, NEW p \in Scripts, Step(p)
  PROVE  Facts(script'[p], disk') /\ ~strayed'
<1>1. StateInv /\ ~strayed /\ script[p] \in Script /\ Flow(script[p])
  BY FoundType DEF SafeInv
<1>2. CASE ListItems(p) \/ TakeItem(p)
  <2>0. strayed' = strayed /\ script[p].stage \in {"listing", "taking"}
    BY <1>1, <1>2, ListResults
  <2>1. ~strayed' /\ script[p].command = "remove-all"
    BY <1>1, <2>0 DEF Flow
  <2>2. script'[p].command = "remove-all"
    BY <1>1, <2>1, StepKeeps
  <2>3. script'[p].stage \in {"listing", "taking", "finding", "idle"}
    <3> DEFINE s == script[p]
    <3>1. CASE ListItems(p)
      <4>1. \A counts : Counted(s, counts).stage = "taking"
        BY <1>1, ListFields
      <4> QED BY <1>1, <3>1, <4>1, ListResults DEF Changed
    <3>2. CASE TakeItem(p)
      <4>1. \/ \E n \in Names : script'[p] = Taken(s, n)
            \/ script'[p] = NextList(s)
            \/ script'[p] = Ending(s, "success")
        BY <1>1, <3>2, ListResults DEF Changed
      <4>2. \A n \in Names : Taken(s, n).stage = "finding"
        BY <1>1, ListFields
      <4>3. NextList(s).stage = "listing" /\ Ending(s, "success").stage = "idle"
        BY <1>1, ListFields, EndingFields
      <4> QED BY <4>1, <4>2, <4>3
    <3> QED BY <1>2, <3>1, <3>2
  <2> QED BY <2>1, <2>2, <2>3 DEF Facts, Placed, Safe, Driven, Done
<1>3. CASE FindSources(p) \/ LookForItem(p) \/ DecideOnItem(p)
  <2>1. disk' = disk /\ strayed' = strayed
    BY <1>3 DEF FindSources, LookForItem, DecideOnItem
  <2> QED BY <1>1, <1>3, <2>1, LookFacts
<1>4. CASE Configure(p) \/ CheckDriver(p) \/ Make(p)
  <2>1. strayed' = strayed
    BY <1>4 DEF Configure, CheckDriver, Make
  <2> QED BY <1>1, <1>4, <2>1, InstallFacts
<1>5. CASE FindToRemove(p) \/ LocateToRemove(p) \/ Delete(p)
  BY <1>5, RemoveFacts
<1> QED BY <1>2, <1>3, <1>4, <1>5 DEF Step

\* What a step makes of the disk
LEMMA StepDisk ==
  ASSUME StateInv, NEW p \in Scripts, Step(p)
  PROVE  /\ script[p].stage \notin Removal => disk \subseteq disk'
         /\ Typed(disk) => Typed(disk')
<1> DEFINE s == script[p]
<1>1. s \in Script /\ s.item \in Names
  BY FoundType DEF Script
<1>2. CASE Delete(p)
  <2>1. disk' \subseteq disk /\ s.stage = "deleting"
    BY <1>2, RemoveResults DEF Delete, At
  <2> QED BY <2>1 DEF Typed, Removal
<1>3. CASE Make(p)
  <2>1. disk' = disk \/ disk' = disk \cup {<<s.target, TypeOf[s.item], s.item>>}
    BY <1>3, MakeResults
  <2> QED BY <1>1, <2>1 DEF Typed
<1>4. CASE disk' = disk
  BY <1>4 DEF Typed
<1> QED BY <1>2, <1>3, <1>4 DEF Step, ListItems, TakeItem, FindSources, LookForItem, DecideOnItem,
             Configure, CheckDriver, FindToRemove, LocateToRemove

LEMMA InitKept == Init => KeptInv
<1> SUFFICES ASSUME Init PROVE KeptInv
  OBVIOUS
<1>1. StateInv
  BY InitState
<1>2. ~strayed /\ (DisksAreTyped => Typed(disk))
  BY DEF Init, DisksAreTyped
<1>3. PICK n \in Names : script = [p \in Scripts |-> Idle(n)]
  BY DEF Init
<1>4. \A p \in Scripts : script[p].stage = "idle" /\ script[p].status = "none"
  BY <1>3 DEF Idle
<1> QED BY <1>1, <1>2, <1>4 DEF KeptInv, SafeInv, Facts, Placed, Safe, Driven, Done, Chosen

LEMMA NextKept == Undisturbed /\ KeptInv /\ [Next]_vars => KeptInv'
<1> SUFFICES ASSUME Undisturbed, KeptInv, [Next]_vars PROVE KeptInv'
  OBVIOUS
<1>0. StateInv /\ SafeInv /\ StateInv'
  BY NextState DEF KeptInv, SafeInv
<1>1. SUFFICES /\ ~strayed' /\ (DisksAreTyped => Typed(disk'))
               /\ \A q \in Scripts : Facts(script'[q], disk') /\ Chosen(script'[q])
  <2>1. Typed(disk') => Typed(disk)'
    BY DEF Typed
  <2>2. \A q \in Scripts : Facts(script'[q], disk') => Facts(script[q], disk)'
    BY DEF Facts, Placed, Safe, Driven, Done, IsInstalled, FoundAt
  <2>3. \A q \in Scripts : Chosen(script'[q]) => Chosen(script[q])'
    BY DEF Chosen
  <2> QED BY <1>0, <1>1, <2>1, <2>2, <2>3 DEF KeptInv, SafeInv
<1>2. ASSUME NEW p \in Scripts, Begins(p)
      PROVE  /\ ~strayed' /\ (DisksAreTyped => Typed(disk'))
             /\ \A q \in Scripts : Facts(script'[q], disk') /\ Chosen(script'[q])
  <2>1. PICK new \in Script : Changed(p, new) /\ Started(new) /\ UNCHANGED <<disk, strayed>>
    BY <1>0, <1>2, BeginFlow
  <2>2. Facts(new, disk) /\ Chosen(new)
    BY <2>1, StartedFacts DEF Started, Chosen
  <2> QED BY <1>0, <2>1, <2>2 DEF Changed, KeptInv, SafeInv
<1>3. ASSUME NEW p \in Scripts, Step(p)
      PROVE  /\ ~strayed' /\ (DisksAreTyped => Typed(disk'))
             /\ \A q \in Scripts : Facts(script'[q], disk') /\ Chosen(script'[q])
  <2>1. Facts(script'[p], disk') /\ ~strayed'
    BY <1>0, <1>3, StepFacts
  <2>2. DisksAreTyped => Typed(disk')
    BY <1>0, <1>3, StepDisk DEF SafeInv
  <2>3. /\ script[p].stage # "idle" /\ script'[p].command = script[p].command
        /\ script'[p].force = script[p].force /\ \A q \in Scripts \ {p} : script'[q] = script[q]
    BY <1>0, <1>3, StepKeeps
  <2>4. \A q \in Scripts : Chosen(script'[q])
    BY <2>3 DEF KeptInv, Chosen
  <2>5. ASSUME NEW q \in Scripts \ {p} PROVE Facts(script[q], disk')
    <3>1. Commands \subseteq {"install"} /\ TRUE \notin ByForce
      BY <2>5 DEF Undisturbed
    <3>2. script[p].command = "install" /\ script[p].force \in ByForce /\ Flow(script[p]) /\ script[p] \in Script
      BY <1>0, <2>3, <3>1, FoundType DEF KeptInv, Chosen
    <3>3. script[p].force = FALSE
      BY <3>1, <3>2 DEF Script
    <3>4. disk \subseteq disk'
      BY <1>0, <1>3, <3>2, <3>3, StepDisk DEF Flow
    <3>5. script[q] \in Script /\ Facts(script[q], disk)
      BY <1>0, <2>5, FoundType DEF SafeInv
    <3> QED BY <3>4, <3>5, Grows
  <2> QED BY <2>1, <2>2, <2>3, <2>4, <2>5
<1>4. CASE UNCHANGED vars
  BY <1>0, <1>4 DEF vars, KeptInv, SafeInv
<1> QED BY <1>2, <1>3, <1>4 DEF Next, Begins

\* Where the documentation says an item is installed is where the script installs it.
LEMMA PromisedIsFirst ==
  ASSUME StateInv, NEW p \in Scripts, script[p].command = "install"
  PROVE  Promised(p) = FirstIn(script[p], TypeOf[script[p].item])
<1> DEFINE s == script[p]  t == TypeOf[s.item]  lent == DirsOf["environmentVariable"][t]
           here == <<WorkingDirectory>>
<1>1. s \in Script /\ Flow(s)
  BY FoundType
<1>2. t \in ItemType
  BY <1>1, NamesAndTypes DEF Script
<1>3. Head(here \o lent) = WorkingDirectory
  <2>1. lent \in Seq(Directories)
    BY <1>2, PlacesOfType, TheCollections
  <2>2. here \in Seq({WorkingDirectory}) /\ Len(here) = 1 /\ here[1] = WorkingDirectory
    OBVIOUS
  <2> HIDE DEF here, lent
  <2> QED BY <2>1, <2>2
<1>4. s.collection \in {"environment", "user", "system"} /\ (s.cwdFirst => s.collection = "environment")
  BY <1>1 DEF Flow
<1> QED BY <1>3, <1>4 DEF Promised, FirstIn, ListIn

\* A model is installed with its driver, or with a warning: whatever directories and
\* items there are and however many scripts install at a time (get_build_install_item).
THEOREM DriversAreInstalled ==
  ASSUME Undisturbed, DisksAreTyped
  PROVE  Spec => []ModelsHaveDrivers
<1>1. KeptInv => ModelsHaveDrivers
  <2> SUFFICES ASSUME KeptInv, NEW p \in Scripts, Ended(p, "install", "success"), script[p].target # NoPlace,
                      ~script[p].warned, DriverOf[script[p].item] # NoName
               PROVE  IsInstalled(disk, "modelDriver", DriverOf[script[p].item])
    BY DEF ModelsHaveDrivers
  <2>1. Done(script[p]) /\ script[p].command = "install"
    BY DEF Ended, At, Done
  <2> QED BY <2>1 DEF KeptInv, SafeInv, Facts, Driven
<1>2. Init => KeptInv
  BY InitKept
<1>3. KeptInv /\ [Next]_vars => KeptInv'
  BY NextKept
<1> QED BY <1>1, <1>2, <1>3, PTL DEF Spec
-----------------------------------------------------------------------------
(* What a script does while no other has run.                              *)

\* The item that was asked for, also while its driver is being installed
Main(s) == IF s.model = NoName THEN s.item ELSE s.model

\* An item is installed only after no copy of it was found.
Use(s, D) ==
  s.command = "install" /\ ~s.force =>
    /\ s.stage = "looking" /\ s.model = NoName /\ s.found = NoPlace =>
         \A j \in 1..3 : j < s.type => ~IsInstalled(D, ScriptTypes[j], s.item)
    /\ s.model # NoName \/ s.stage \in {"configuring", "checking", "making"} =>
         ~IsInstalled(D, TypeOf[Main(s)], Main(s))
    /\ Done(s) => Finds(D, TypeOf[s.item], s.item).directory = s.target

\* A successful installation of the item that was asked for, where there was no copy
LEMMA OnlyCopy ==
  ASSUME NEW D, NEW t \in ItemType, NEW n, ~IsInstalled(D, t, n),
         NEW d, \E c \in Collection : d \in DirectoriesOf(c, t)
  PROVE  Finds(D \cup {<<d, t, n>>}, t, n).directory = d
<1> DEFINE E == D \cup {<<d, t, n>>}
<1> HIDE DEF E
<1>1. <<d, t, n>> \in E /\ \A x : x \in E => x \in D \/ x = <<d, t, n>>
  BY DEF E
<1>2. IsInstalled(E, t, n)
  BY <1>1, Installed
<1> DEFINE e == Finds(E, t, n).directory
<1>3. <<e, t, n>> \in E /\ \E c \in Collection : e \in DirectoriesOf(c, t)
  BY <1>2, Installed
<1> HIDE DEF e
<1>4. <<e, t, n>> \notin D
  BY <1>3, Installed
<1>5. e = d
  BY <1>1, <1>3, <1>4
<1> QED BY <1>5 DEF e, E

LEMMA OtherCopy ==
  ASSUME NEW D, NEW t \in ItemType, NEW n, ~IsInstalled(D, t, n), NEW i, i[2] # t \/ i[3] # n
  PROVE  ~IsInstalled(D \cup {i}, t, n)
<1> DEFINE E == D \cup {i}
<1>1. \A d : <<d, t, n>> \in E => <<d, t, n>> \in D
  OBVIOUS
<1> HIDE DEF E
<1>2. ~IsInstalled(E, t, n)
  BY <1>1, Installed
<1> QED BY <1>2 DEF E

LEMMA StepUse ==
  ASSUME StateInv, NEW p \in Scripts, Step(p), Use(script[p], disk)
  PROVE  Use(script'[p], disk')
<1> DEFINE s == script[p]  n == script'[p]
<1>1. s \in Script /\ Flow(s) /\ s.item \in Names /\ s.type \in 1..3 /\ s.model \in Names \cup {NoName}
      /\ s.target \in Directories \cup {NoPlace}
  BY FoundType DEF Script
<1>2. s.stage # "idle" /\ n.command = s.command /\ n.force = s.force
  BY StepKeeps
<1>3. SUFFICES ASSUME s.command = "install", ~s.force PROVE Use(n, disk')
  BY <1>2 DEF Use
<1>4. s.stage \in Installation /\ ~s.removing
  BY <1>1, <1>2, <1>3 DEF Flow, Script, Stage, Installation, Removal
\* A failure, or that an item was there, leaves at most the model to be made.
<1>5. ASSUME NEW status, Changed(p, AfterInstall(s, status)), disk' = disk,
             s.model = NoName => status = "failure" \/ s.target = NoPlace
      PROVE  Use(n, disk')
  <2>1. CASE s.model = NoName
    <3>1. n.stage = "idle" /\ n.model = NoName /\ n.status = status /\ n.target = s.target
      BY <1>1, <1>5, <2>1, AfterInstallFields, EndingFields DEF Changed
    <3>2. ~Done(n)
      BY <1>5, <2>1, <3>1 DEF Done
    <3> QED BY <3>1, <3>2 DEF Use
  <2>2. CASE s.model # NoName
    <3>1. n.stage = "making" /\ n.model = NoName /\ n.item = s.model
      BY <1>1, <1>5, <2>2, AfterInstallFields DEF Changed
    <3>2. Main(n) = Main(s)
      BY <2>2, <3>1 DEF Main
    <3>3. ~IsInstalled(disk, TypeOf[Main(s)], Main(s))
      BY <1>3, <2>2 DEF Use
    <3> HIDE DEF n, s
    <3> QED BY <1>5, <3>1, <3>2, <3>3 DEF Use, Done
  <2> QED BY <2>1, <2>2
<1>6. CASE FindSources(p)
  <2>1. disk' = disk
    BY <1>6 DEF FindSources
  <2>2. CASE Changed(p, AfterInstall(s, "failure"))
    BY <1>5, <2>1, <2>2
  <2>3. CASE Changed(p, Looked(s, "looking", 1, NoPlace, s.collection))
    <3>1. n.stage = "looking" /\ n.type = 1 /\ n.model = s.model /\ n.item = s.item
      BY <1>1, <2>3, LookedFields DEF Changed
    <3>2. Main(n) = Main(s) /\ \A j \in 1..3 : ~(j < 1)
      BY <3>1 DEF Main
    <3> HIDE DEF n
    <3> QED BY <1>3, <2>1, <3>1, <3>2 DEF Use, Done
  <2> QED BY <1>4, <1>6, <2>2, <2>3, LookResults
<1>7. ASSUME s.stage = "looking", s.model = NoName, FoundFirst(p) = NoPlace
      PROVE  \A j \in 1..3 : j < s.type + 1 => ~IsInstalled(disk, ScriptTypes[j], s.item)
  <2>1. NoPlace \notin Collection
    BY ManagementAssumption
  <2>2. Finds(disk, Type(p), s.item).collection # NoPlace \/ ~IsInstalled(disk, Type(p), s.item)
    <3>1. Type(p) \in ItemType
      BY FoundType
    <3>2. IsInstalled(disk, Type(p), s.item) => Finds(disk, Type(p), s.item).collection \in Collection
      BY <3>1, Installed
    <3> QED BY <2>1, <3>2
  <2>3. s.found = NoPlace /\ ~IsInstalled(disk, ScriptTypes[s.type], s.item)
    BY <1>7, <2>2 DEF FoundFirst, Type
  <2>4. \A j \in 1..3 : j < s.type => ~IsInstalled(disk, ScriptTypes[j], s.item)
    BY <1>3, <1>7, <2>3 DEF Use
  <2> QED BY <1>1, <2>3, <2>4
<1>8. CASE LookForItem(p)
  <2>1. disk' = disk /\ s.stage = "looking"
    BY <1>8 DEF LookForItem, At
  <2>2. n.stage = "looking" /\ n.type = s.type + 1 /\ n.found = FoundFirst(p) /\ n.model = s.model /\ n.item = s.item
    BY <1>1, <1>8, LookResults, LookedFields DEF Changed
  <2>3. Main(n) = Main(s)
    BY <2>2 DEF Main
  <2> HIDE DEF n
  <2> QED BY <1>3, <1>7, <2>1, <2>2, <2>3 DEF Use, Done
<1>9. CASE DecideOnItem(p)
  <2>1. disk' = disk /\ s.stage = "looking"
    BY <1>9 DEF DecideOnItem, At
  <2>2. CASE /\ FoundFirst(p) = NoPlace /\ s.type = 3
             /\ Changed(p, Looked(s, "configuring", s.type, s.found, s.collection))
    <3>1. n.stage = "configuring" /\ n.model = s.model /\ n.item = s.item
      BY <1>1, <2>2, LookedFields DEF Changed
    <3>2. Main(n) = Main(s)
      BY <3>1 DEF Main
    <3>3. s.model = NoName => ~IsInstalled(disk, TypeOf[s.item], s.item)
      <4>1. HAVE s.model = NoName
      <4>2. \A j \in 1..3 : ~IsInstalled(disk, ScriptTypes[j], s.item)
        BY <1>7, <2>1, <2>2, <4>1
      <4> QED BY <1>1, <4>2, ItemTypes, NamesAndTypes
    <3>4. ~IsInstalled(disk, TypeOf[Main(s)], Main(s))
      BY <1>3, <3>3 DEF Use, Main
    <3> HIDE DEF n, s
    <3> QED BY <2>1, <3>1, <3>2, <3>4 DEF Use, Done
  <2>3. CASE \E status \in {"success", "failure"} : Changed(p, AfterInstall(s, status))
    <3>1. s.model = NoName => s.target = NoPlace
      BY <1>1, <1>3, <2>1 DEF Flow
    <3> QED BY <1>5, <2>1, <2>3, <3>1
  <2> QED BY <1>3, <1>4, <1>9, <2>2, <2>3, LookResults
<1>10. CASE Configure(p)
  <2>1. disk' = disk /\ s.stage = "configuring"
    BY <1>10 DEF Configure, At
  <2>2. CASE InstallEnds(p, "failure")
    BY <1>5, <2>1, <2>2, Returns DEF StateInv
  <2>3. CASE ListIn(s, TypeOf[s.item]) # <<>> /\ Changed(p, AfterConfigure(s))
    <3>1. n.stage \in {"making", "checking"} /\ n.model = s.model /\ n.item = s.item
      <4>1. \A stage, target : LET x == [s EXCEPT !.stage = stage, !.target = target]
                               IN  x.stage = stage /\ x.model = s.model /\ x.item = s.item
        BY <1>1 DEF Script
      <4> QED BY <2>3, <4>1 DEF Changed, AfterConfigure, Staged
    <3>2. Main(n) = Main(s)
      BY <3>1 DEF Main
    <3> HIDE DEF n
    <3> QED BY <1>3, <2>1, <3>1, <3>2 DEF Use, Done
  <2> QED BY <1>10, <2>2, <2>3, InstallResults
<1>11. CASE CheckDriver(p)
  <2>1. disk' = disk /\ s.stage = "checking" /\ s.model = NoName /\ DriverOf[s.item] # NoName
    BY <1>1, <1>11 DEF CheckDriver, At, Flow
  <2>2. CASE Changed(p, Staged(s, "making", s.target))
    <3>1. n.stage = "making" /\ n.model = s.model /\ n.item = s.item
      <4>1. "making" \in Stage
        BY DEF Stage
      <4> QED BY <1>1, <2>2, <4>1, StagedFields DEF Changed
    <3>2. Main(n) = Main(s)
      BY <3>1 DEF Main
    <3> HIDE DEF n
    <3> QED BY <1>3, <2>1, <3>1, <3>2 DEF Use, Done
  <2>3. CASE Changed(p, ForDriver(s))
    <3>1. n.stage = "sourcing" /\ n.model = s.item
      BY <1>1, <2>1, <2>3, ForDriverFields DEF Changed
    <3>2. Main(n) = Main(s)
      BY <1>1, <2>1, <3>1, NamesAndTypes DEF Main
    <3> HIDE DEF n
    <3> QED BY <1>3, <2>1, <3>1, <3>2, <1>1, NamesAndTypes DEF Use, Done
  <2> QED BY <1>11, <2>2, <2>3, InstallResults
<1>12. CASE Make(p)
  <2> DEFINE i == <<s.target, TypeOf[s.item], s.item>>
  <2>1. s.stage = "making" /\ Main(s) \in Names /\ TypeOf[Main(s)] \in ItemType
    BY <1>1, <1>12, NamesAndTypes DEF Make, At, Main
  <2>2. ~IsInstalled(disk, TypeOf[Main(s)], Main(s))
    BY <1>3, <2>1 DEF Use
  <2>3. CASE Changed(p, AfterInstall(s, "failure")) /\ disk' = disk
    BY <1>5, <2>3
  <2>4. CASE Changed(p, AfterInstall(s, "success")) /\ disk' = disk \cup {i}
    <3>1. CASE s.model = NoName
      <4>1. n.stage = "idle" /\ n.model = NoName /\ n.item = s.item /\ n.target = s.target
        BY <1>1, <2>4, <3>1, AfterInstallFields, EndingFields DEF Changed
      <4>2. \E c \in Collection : s.target \in DirectoriesOf(c, TypeOf[s.item])
        BY <1>1, <2>1, Lists, NamesAndTypes DEF Flow
      <4>3. Finds(disk \cup {i}, TypeOf[s.item], s.item).directory = s.target
        BY <2>1, <2>2, <3>1, <4>2, OnlyCopy DEF Main
      <4> HIDE DEF n
      <4> QED BY <2>4, <4>1, <4>3 DEF Use
    <3>2. CASE s.model # NoName
      <4>1. n.stage = "making" /\ n.model = NoName /\ n.item = s.model
        BY <1>1, <2>4, <3>2, AfterInstallFields DEF Changed
      <4>2. s.model \in Names /\ DriverOf[s.model] = s.item
        BY <1>1, <3>2 DEF Flow
      <4>3. TypeOf[s.model] # TypeOf[s.item]
        BY <1>1, <4>2, NamesAndTypes
      <4>4. ~IsInstalled(disk \cup {i}, TypeOf[s.model], s.model)
        <5>1. i[2] # TypeOf[s.model]
          BY <4>3
        <5> HIDE DEF i
        <5> QED BY <2>1, <2>2, <3>2, <5>1, OtherCopy DEF Main
      <4>5. Main(n) = s.model
        BY <4>1 DEF Main
      <4> HIDE DEF n
      <4> QED BY <2>4, <4>1, <4>4, <4>5 DEF Use, Done
    <3> QED BY <3>1, <3>2
  <2> QED BY <1>12, <2>3, <2>4, MakeResults
<1>13. s.stage \notin {"listing", "taking", "finding", "locating", "deleting"}
  BY <1>4 DEF Installation
<1> QED BY <1>6, <1>8, <1>9, <1>10, <1>11, <1>12, <1>13 DEF Step, ListItems, TakeItem, FindToRemove,
             LocateToRemove, Delete, At
\* No directory belongs to two collections.
Apart ==
  \A t \in ItemType, c, d \in Collection : c # d => DirectoriesOf(c, t) \cap DirectoriesOf(d, t) = {}

\* Without a copy an item is not installed, and rm -rf takes one copy of its item.
LEMMA CopiesInstalled ==
  ASSUME NEW D, NEW t \in ItemType, NEW n
  PROVE  IsInstalled(D, t, n) <=> Cardinality(CopiesOf(D, t, n)) > 0
<1>1. IsFiniteSet(CopiesOf(D, t, n)) /\ Cardinality(CopiesOf(D, t, n)) \in Nat
  BY CopiesCounted
<1>2. Cardinality(CopiesOf(D, t, n)) = 0 <=> CopiesOf(D, t, n) = {}
  BY <1>1, FS_EmptySet
<1>3. CopiesOf(D, t, n) # {} <=> \E c \in Collection : \E d \in DirectoriesOf(c, t) : <<d, t, n>> \in D
  <2>1. ASSUME NEW c \in Collection, NEW d \in DirectoriesOf(c, t), <<d, t, n>> \in D
        PROVE  <<c, d>> \in CopiesOf(D, t, n)
    <3>1. d \in Directories
      BY PlacesOfType
    <3> QED BY <2>1, <3>1 DEF CopiesOf
  <2>2. ASSUME NEW place \in CopiesOf(D, t, n)
        PROVE  place[1] \in Collection /\ place[2] \in DirectoriesOf(place[1], t) /\ <<place[2], t, n>> \in D
    BY <2>2 DEF CopiesOf
  <2> QED BY <2>1, <2>2
<1>4. Cardinality(CopiesOf(D, t, n)) > 0 <=> CopiesOf(D, t, n) # {}
  <2> DEFINE k == Cardinality(CopiesOf(D, t, n))
  <2> HIDE DEF k
  <2>1. k \in Nat /\ (k = 0 <=> CopiesOf(D, t, n) = {})
    BY <1>1, <1>2 DEF k
  <2>2. k > 0 <=> CopiesOf(D, t, n) # {}
    BY <2>1
  <2> QED BY <2>2 DEF k
<1> QED BY <1>3, <1>4, Installed

LEMMA CopiesAfter ==
  ASSUME Apart, NEW D, NEW t \in ItemType, NEW d, NEW n,
         NEW E, E = D \ {<<d, u, n>> : u \in ItemType}
  PROVE  /\ \A m : m # n => CopiesOf(E, t, m) = CopiesOf(D, t, m)
         /\ Cardinality(CopiesOf(E, t, n)) >= Cardinality(CopiesOf(D, t, n)) - 1
         /\ <<d, t, n>> \in D /\ (\E c \in Collection : d \in DirectoriesOf(c, t)) =>
              Cardinality(CopiesOf(E, t, n)) = Cardinality(CopiesOf(D, t, n)) - 1
<1> DEFINE A == CopiesOf(D, t, n)  B == CopiesOf(E, t, n)
<1>1. \A e, m : <<e, t, m>> \in E <=> <<e, t, m>> \in D /\ ~(e = d /\ m = n)
  OBVIOUS
<1>2. ASSUME NEW m, m # n PROVE CopiesOf(E, t, m) = CopiesOf(D, t, m)
  <2> QED BY <1>1, <1>2 DEF CopiesOf
<1>3. IsFiniteSet(A) /\ Cardinality(A) \in Nat
  BY CopiesCounted
<1>4. \A place : place \in B <=> place \in A /\ place[2] # d
  <2> QED BY <1>1 DEF CopiesOf
<1>5. ASSUME NEW c \in Collection, d \in DirectoriesOf(c, t), <<d, t, n>> \in D
      PROVE  Cardinality(B) = Cardinality(A) - 1
  <2>1. <<c, d>> \in A
    <3>1. d \in Directories
      BY <1>5, PlacesOfType
    <3> QED BY <1>5, <3>1 DEF CopiesOf
  <2>2. \A place \in A : place[2] = d => place = <<c, d>>
    <3>1. TAKE place \in A
    <3>2. HAVE place[2] = d
    <3>3. place \in Collection \X Directories /\ place[2] \in DirectoriesOf(place[1], t)
      BY DEF CopiesOf
    <3>4. place[1] = c
      BY <1>5, <3>2, <3>3 DEF Apart
    <3> QED BY <3>2, <3>3, <3>4
  <2>3. B = A \ {<<c, d>>}
    <3> HIDE DEF A, B
    <3> QED BY <1>4, <2>1, <2>2
  <2> HIDE DEF A, B
  <2> QED BY <1>3, <2>1, <2>3, FS_RemoveElement
<1>6. CASE \E c \in Collection : d \in DirectoriesOf(c, t) /\ <<d, t, n>> \in D
  <2>1. Cardinality(B) = Cardinality(A) - 1
    BY <1>5, <1>6
  <2> HIDE DEF A, B
  <2>2. Cardinality(B) >= Cardinality(A) - 1
    BY <1>3, <2>1
  <2> QED BY <1>2, <2>1, <2>2 DEF A, B
<1>7. CASE ~\E c \in Collection : d \in DirectoriesOf(c, t) /\ <<d, t, n>> \in D
  <2>1. \A place \in A : place[2] # d
    BY <1>7 DEF CopiesOf
  <2>2. B = A
    <3> HIDE DEF A, B
    <3> QED BY <1>4, <2>1
  <2> HIDE DEF A, B
  <2>3. Cardinality(B) >= Cardinality(A) - 1
    BY <1>3, <2>2
  <2> QED BY <1>2, <1>7, <2>3 DEF A, B
<1> QED BY <1>6, <1>7

\* How often remove-all has still to remove an item, and how often it can
Due(s, n) == s.list[n] + (IF s.stage \in Removal /\ s.item = n THEN 1 ELSE 0)
Left(s, D, n) == Cardinality(CopiesOf(D, ScriptTypes[s.listed], n))
Gone(D, t) == \A n \in Names : ~IsInstalled(D, t, n)

\* What remove-all has listed is there, and if nobody declines it is all there is; the
\* items of the types before are gone.
Rem(s, D) ==
  s.command = "remove-all" =>
    /\ s.stage \in {"taking"} \cup Removal => \A n \in Names : Due(s, n) <= Left(s, D, n)
    /\ s.stage = "finding" => s.type <= s.listed
    /\ s.stage = "idle" /\ s.status = "failure" => ~s.sudo
    /\ ~s.interactive =>
         /\ s.stage \in {"taking"} \cup Removal => \A n \in Names : Due(s, n) = Left(s, D, n)
         /\ s.stage \in {"taking"} \cup Removal => \A j \in 1..3 : j < s.listed => Gone(D, ScriptTypes[j])
         /\ s.stage = "listing" => \A j \in 1..3 : j < s.type => Gone(D, ScriptTypes[j])
         /\ s.stage = "locating" => s.type = s.listed /\ IsInstalled(D, ScriptTypes[s.listed], s.item)
         /\ s.stage = "deleting" =>
              /\ <<s.target, ScriptTypes[s.listed], s.item>> \in D
              /\ \E c \in Collection : s.target \in DirectoriesOf(c, ScriptTypes[s.listed])
         /\ s.stage = "idle" /\ s.status = "success" => \A t \in ItemType : Gone(D, t)

LEMMA ListRem ==
  ASSUME StateInv, NEW p \in Scripts, ListItems(p) \/ TakeItem(p), Rem(script[p], disk)
  PROVE  Rem(script'[p], disk')
<1> DEFINE s == script[p]  n == script'[p]
<1>1. s \in Script /\ Flow(s) /\ s.listed \in 1..3 /\ s.type \in 1..3 /\ s.list \in [Names -> Nat]
  BY FoundType DEF Script
<1>2. CASE ListItems(p)
  <2> DEFINE counts == [m \in Names |-> Cardinality(CopiesOf(disk, ScriptTypes[s.type], m))]
  <2>1. /\ s.stage = "listing" /\ disk' = disk /\ s.command = "remove-all"
        /\ n.stage = "taking" /\ n.listed = s.type /\ n.list = counts /\ n.command = s.command
        /\ n.interactive = s.interactive
    BY <1>1, <1>2, ListResults, ListFields DEF Changed, Flow
  <2>2. \A m \in Names : counts[m] \in Nat /\ counts[m] = Cardinality(CopiesOf(disk, ScriptTypes[s.type], m))
    BY <1>1, CopiesCounted, ItemTypes
  <2> HIDE DEF n, counts
  <2>3. \A m \in Names : Due(n, m) = Left(n, disk, m) /\ Due(n, m) \in Nat
    BY <2>1, <2>2 DEF Due, Left, Removal
  <2>4. \A m \in Names : Due(n, m) <= Left(n, disk, m)
    BY <2>3
  <2>5. ~s.interactive => \A j \in 1..3 : j < s.type => Gone(disk, ScriptTypes[j])
    BY <2>1 DEF Rem
  <2>6. Rem(n, disk)
    BY <2>1, <2>3, <2>4, <2>5 DEF Rem, Removal
  <2> QED BY <2>1, <2>6 DEF n
<1>3. CASE TakeItem(p)
  <2>1. s.stage = "taking" /\ disk' = disk /\ s.command = "remove-all"
    BY <1>1, <1>3, ListResults DEF Flow
  <2>2. \A m \in Names : Due(s, m) = s.list[m] /\ s.list[m] \in Nat
    BY <1>1, <2>1 DEF Due, Removal
  <2>3. ASSUME \A m \in Names : ~(s.list[m] > 0), ~s.interactive
        PROVE  \A j \in 1..3 : j < s.listed + 1 => Gone(disk, ScriptTypes[j])
    <3>1. \A m \in Names : s.list[m] = 0
      BY <2>2, <2>3
    <3>2. \A m \in Names : Left(s, disk, m) = 0
      BY <2>1, <2>2, <2>3, <3>1 DEF Rem
    <3>3. Gone(disk, ScriptTypes[s.listed])
      BY <1>1, <3>2, CopiesInstalled, ItemTypes DEF Gone, Left
    <3>4. \A j \in 1..3 : j < s.listed => Gone(disk, ScriptTypes[j])
      BY <2>1, <2>3 DEF Rem
    <3> QED BY <1>1, <3>3, <3>4
  <2>4. ASSUME NEW m \in Names, s.list[m] > 0, Changed(p, Taken(s, m))
        PROVE  Rem(n, disk)
    <3>1. /\ n.stage = "finding" /\ n.type = 1 /\ n.item = m /\ n.listed = s.listed
          /\ n.list = [s.list EXCEPT ![m] = @ - 1] /\ n.command = s.command /\ n.interactive = s.interactive
      BY <1>1, <2>4, ListFields DEF Changed
    <3>2. \A x \in Names : Due(n, x) = s.list[x] /\ Left(n, disk, x) = Left(s, disk, x)
      <4> HIDE DEF n
      <4>1. TAKE x \in Names
      <4>2. Left(n, disk, x) = Left(s, disk, x)
        BY <3>1 DEF Left
      <4>3. CASE x = m
        <5>1. n.list[m] = s.list[m] - 1 /\ s.list[m] \in Nat
          BY <1>1, <3>1
        <5>2. Due(n, m) = n.list[m] + 1
          BY <3>1 DEF Due, Removal
        <5> QED BY <4>2, <4>3, <5>1, <5>2
      <4>4. CASE x # m
        <5>1. n.list[x] = s.list[x] /\ s.list[x] \in Nat
          BY <1>1, <3>1, <4>4
        <5>2. Due(n, x) = n.list[x] + 0
          BY <3>1, <4>4 DEF Due
        <5> QED BY <4>2, <5>1, <5>2
      <4> QED BY <4>2, <4>3, <4>4
    <3>3. 1 <= s.listed
      BY <1>1
    <3> HIDE DEF n
    <3> QED BY <2>1, <2>2, <3>1, <3>2, <3>3 DEF Rem, Removal
  <2>5. ASSUME \A m \in Names : ~(s.list[m] > 0), Changed(p, NextList(s))
        PROVE  Rem(n, disk)
    <3>1. n.stage = "listing" /\ n.type = s.listed + 1 /\ n.interactive = s.interactive
      BY <1>1, <2>5, ListFields DEF Changed
    <3> HIDE DEF n
    <3> QED BY <2>3, <2>5, <3>1 DEF Rem, Removal
  <2>6. ASSUME \A m \in Names : ~(s.list[m] > 0), s.listed = 3, Changed(p, Ending(s, "success"))
        PROVE  Rem(n, disk)
    <3>1. n.stage = "idle" /\ n.status = "success" /\ n.interactive = s.interactive
      BY <1>1, <2>6, EndingFields DEF Changed
    <3>2. ~s.interactive => \A t \in ItemType : Gone(disk, t)
      <4>1. HAVE ~s.interactive
      <4>2. \A j \in 1..3 : Gone(disk, ScriptTypes[j])
        BY <2>3, <2>6, <4>1
      <4> QED BY <4>2, ItemTypes
    <3> HIDE DEF n
    <3> QED BY <3>1, <3>2 DEF Rem, Removal
  <2> QED BY <1>1, <1>3, <2>1, <2>4, <2>5, <2>6, ListResults
<1> QED BY <1>2, <1>3

LEMMA RemoveRem ==
  ASSUME Apart, StateInv, NEW p \in Scripts, Rem(script[p], disk), script[p].command = "remove-all",
         FindToRemove(p) \/ LocateToRemove(p) \/ Delete(p)
  PROVE  Rem(script'[p], disk')
<1> DEFINE s == script[p]  n == script'[p]
<1>1. /\ s \in Script /\ Flow(s) /\ s.listed \in 1..3 /\ s.type \in 1..3 /\ s.list \in [Names -> Nat]
      /\ s.item \in Names /\ s.target \in Directories \cup {NoPlace} /\ s.stage \in Removal
      /\ Type(p) = ScriptTypes[s.type] /\ ScriptTypes[s.listed] \in ItemType /\ ScriptTypes[s.type] \in ItemType
  BY FoundType, ItemTypes DEF Script, FindToRemove, LocateToRemove, Delete, At, Removal
<1>2. \A m \in Names : /\ Due(s, m) <= Left(s, disk, m) /\ (~s.interactive => Due(s, m) = Left(s, disk, m))
                       /\ Due(s, m) \in Nat /\ Left(s, disk, m) \in Nat
                       /\ Due(s, m) = IF m = s.item THEN s.list[m] + 1 ELSE s.list[m]
  <2>1. \A m \in Names : s.list[m] \in Nat /\ Left(s, disk, m) \in Nat
    BY <1>1, CopiesCounted DEF Left
  <2>2. \A m \in Names : Due(s, m) = IF m = s.item THEN s.list[m] + 1 ELSE s.list[m]
    BY <1>1, <2>1 DEF Due
  <2> QED BY <1>1, <2>1, <2>2 DEF Rem
\* There is a copy of the listed type.
<1>3. IsInstalled(disk, ScriptTypes[s.listed], s.item)
  <2>1. Left(s, disk, s.item) > 0
    BY <1>1, <1>2
  <2> QED BY <1>1, <2>1, CopiesInstalled DEF Left
\* The steps to the next stage, on the same disk
<1>4. ASSUME NEW stage \in {"finding", "locating", "deleting"}, NEW type,
             n.stage = stage, n.command = s.command, n.listed = s.listed, n.list = s.list, n.item = s.item,
             n.interactive = s.interactive, n.type = type, disk' = disk,
             stage = "finding" => type <= s.listed,
             ~s.interactive /\ stage = "locating" => type = s.listed,
             ~s.interactive /\ stage = "deleting" =>
               /\ <<n.target, ScriptTypes[s.listed], s.item>> \in disk
               /\ \E c \in Collection : n.target \in DirectoriesOf(c, ScriptTypes[s.listed])
      PROVE  Rem(n, disk')
  <2>1. \A m \in Names : Due(n, m) = Due(s, m) /\ Left(n, disk, m) = Left(s, disk, m)
    BY <1>1, <1>4 DEF Due, Left, Removal
  <2>2. ~s.interactive => \A j \in 1..3 : j < s.listed => Gone(disk, ScriptTypes[j])
    BY <1>1 DEF Rem
  <2> HIDE DEF n, s
  <2> QED BY <1>2, <1>3, <1>4, <2>1, <2>2 DEF Rem, Removal
<1>5. CASE FindToRemove(p)
  <2>1. disk' = disk /\ s.stage = "finding"
    BY <1>5 DEF FindToRemove, At
  <2>2. s.type <= s.listed /\ (~s.interactive => \A j \in 1..3 : j < s.listed => Gone(disk, ScriptTypes[j]))
    BY <1>1, <2>1 DEF Rem
  <2>3. CASE IsInstalled(disk, Type(p), s.item) /\ Changed(p, Staged(s, "locating", s.target))
    <3>1. ~s.interactive => s.type = s.listed
      BY <1>1, <2>2, <2>3 DEF Gone
    <3>2. /\ n.stage = "locating" /\ n.command = s.command /\ n.listed = s.listed /\ n.list = s.list
          /\ n.item = s.item /\ n.interactive = s.interactive /\ n.type = s.type
      <4>1. "locating" \in Stage
        BY DEF Stage
      <4> QED BY <1>1, <2>3, <4>1, StagedFields DEF Changed
    <3> QED BY <1>4, <2>1, <3>1, <3>2
  <2>4. CASE ~IsInstalled(disk, Type(p), s.item) /\ Changed(p, [s EXCEPT !.type = @ + 1])
    <3>1. s.type + 1 <= s.listed
      BY <1>1, <1>3, <2>2, <2>4
    <3>2. /\ n.stage = "finding" /\ n.command = s.command /\ n.listed = s.listed /\ n.list = s.list
          /\ n.item = s.item /\ n.interactive = s.interactive /\ n.type = s.type + 1
      BY <1>1, <2>1, <2>4 DEF Changed, Script
    <3> QED BY <1>4, <2>1, <3>1, <3>2
  <2>5. ~(~IsInstalled(disk, Type(p), s.item) /\ s.type = 3)
    BY <1>1, <1>3, <2>2
  <2> QED BY <1>5, <2>3, <2>4, <2>5, RemoveResults
<1>6. CASE LocateToRemove(p)
  <2>1. disk' = disk /\ s.stage = "locating"
    BY <1>6 DEF LocateToRemove, At
  <2> DEFINE target == IF IsInstalled(disk, Type(p), s.item)
                       THEN Finds(disk, Type(p), s.item).directory ELSE NoPlace
  <2>2. target \in Directories \cup {NoPlace}
    BY <1>1, Installed
  <2>3. ~s.interactive =>
          /\ <<target, ScriptTypes[s.listed], s.item>> \in disk
          /\ \E c \in Collection : target \in DirectoriesOf(c, ScriptTypes[s.listed])
    <3>1. HAVE ~s.interactive
    <3>2. s.type = s.listed
      BY <2>1, <3>1 DEF Rem
    <3> QED BY <1>1, <1>3, <3>2, Installed
  <2>4. Changed(p, Staged(s, "deleting", target))
    BY <1>6, RemoveResults
  <2> HIDE DEF target
  <2>5. /\ n.stage = "deleting" /\ n.command = s.command /\ n.listed = s.listed /\ n.list = s.list
        /\ n.item = s.item /\ n.interactive = s.interactive /\ n.type = s.type /\ n.target = target
    <3>1. "deleting" \in Stage
      BY DEF Stage
    <3> QED BY <1>1, <2>2, <2>4, <3>1, StagedFields DEF Changed
  <2> QED BY <1>4, <2>1, <2>3, <2>5
<1>7. CASE Delete(p)
  <2>0. s.stage = "deleting"
    BY <1>7 DEF Delete, At
  <2>1. CASE ~s.sudo /\ Changed(p, AfterRefusal(s))
    <3>1. n = Ending(s, "failure")
      BY <1>1, <2>1 DEF Changed, AfterRefusal
    <3>2. n.stage = "idle" /\ n.status = "failure" /\ n.sudo = s.sudo
      BY <1>1, <3>1, EndingFields
    <3>3. ~n.sudo
      BY <2>1, <3>2
    <3> HIDE DEF n
    <3>4. Rem(n, disk')
      BY <3>2, <3>3 DEF Rem, Removal
    <3> QED BY <3>4 DEF n
  <2>2. CASE /\ Changed(p, AfterRemove(s))
             /\ \/ s.interactive /\ disk' = disk
                \/ disk' = disk \ {<<s.target, t, s.item>> : t \in ItemType}
    <3>1. /\ n.stage = "taking" /\ n.command = s.command /\ n.listed = s.listed /\ n.list = s.list
          /\ n.interactive = s.interactive
      BY <1>1, <2>2, AfterRemoveFields DEF Changed
    <3>2. \A m \in Names : Due(n, m) = s.list[m] /\ Left(n, disk', m) = Left(s, disk', m)
      <4>1. \A m \in Names : s.list[m] \in Nat
        BY <1>1
      <4> HIDE DEF n
      <4> QED BY <3>1, <4>1 DEF Due, Left, Removal
    <3>3. ASSUME NEW E, E \subseteq disk,
                 \A m \in Names : s.list[m] <= Left(s, E, m) /\ (~s.interactive => s.list[m] = Left(s, E, m)),
                 E = disk'
          PROVE  Rem(n, disk')
      <4>1. ~s.interactive => \A j \in 1..3 : j < s.listed => Gone(disk, ScriptTypes[j])
        BY <1>1 DEF Rem
      <4>2. \A t \in ItemType : Gone(disk, t) => Gone(E, t)
        BY <3>3, Grows DEF Gone
      <4>3. ~s.interactive => \A j \in 1..3 : j < s.listed => Gone(E, ScriptTypes[j])
        BY <4>1, <4>2, ItemTypes
      <4> HIDE DEF n
      <4> QED BY <3>1, <3>2, <3>3, <4>3 DEF Rem, Removal
    <3>4. CASE s.interactive /\ disk' = disk
      <4>1. \A m \in Names : s.list[m] <= Left(s, disk, m)
        <5>1. TAKE m \in Names
        <5>2. s.list[m] \in Nat
          BY <1>1
        <5> QED BY <1>2, <5>2
      <4> QED BY <3>3, <3>4, <4>1
    <3>5. CASE disk' = disk \ {<<s.target, t, s.item>> : t \in ItemType}
      <4> DEFINE E == disk \ {<<s.target, t, s.item>> : t \in ItemType}
      <4>1. /\ \A m : m # s.item => Left(s, E, m) = Left(s, disk, m)
            /\ Left(s, E, s.item) >= Left(s, disk, s.item) - 1
            /\ <<s.target, ScriptTypes[s.listed], s.item>> \in disk
                 /\ (\E c \in Collection : s.target \in DirectoriesOf(c, ScriptTypes[s.listed])) =>
                 Left(s, E, s.item) = Left(s, disk, s.item) - 1
        <5> DEFINE t == ScriptTypes[s.listed]
        <5>1. t \in ItemType
          BY <1>1
        <5>2. \A m, D : Left(s, D, m) = Cardinality(CopiesOf(D, t, m))
          BY DEF Left
        <5> HIDE DEF t
        <5>3. /\ \A x : x # s.item => CopiesOf(E, t, x) = CopiesOf(disk, t, x)
              /\ Cardinality(CopiesOf(E, t, s.item)) >= Cardinality(CopiesOf(disk, t, s.item)) - 1
              /\ <<s.target, t, s.item>> \in disk /\ (\E c \in Collection : s.target \in DirectoriesOf(c, t)) =>
                   Cardinality(CopiesOf(E, t, s.item)) = Cardinality(CopiesOf(disk, t, s.item)) - 1
          BY <5>1, CopiesAfter
        <5>4. t = ScriptTypes[s.listed]
          BY DEF t
        <5> QED BY <5>2, <5>3, <5>4
      <4>2. Left(s, E, s.item) \in Nat
        BY <1>1, CopiesCounted DEF Left
      <4>3. ~s.interactive => Left(s, E, s.item) = Left(s, disk, s.item) - 1
        BY <2>0, <4>1 DEF Rem
      <4>4. E \subseteq disk /\ E = disk'
        BY <3>5
      <4> HIDE DEF E
      <4>5. ASSUME NEW m \in Names
            PROVE  s.list[m] <= Left(s, E, m) /\ (~s.interactive => s.list[m] = Left(s, E, m))
        <5>1. s.list[m] \in Nat
          BY <1>1
        <5>2. CASE m = s.item
          BY <1>2, <4>1, <4>2, <4>3, <5>1, <5>2
        <5>3. CASE m # s.item
          BY <1>2, <4>1, <5>1, <5>3
        <5> QED BY <5>2, <5>3
      <4> QED BY <3>3, <4>4, <4>5
    <3> QED BY <2>2, <3>4, <3>5
  <2> QED BY <1>7, <2>1, <2>2, RemoveResults
<1> QED BY <1>5, <1>6, <1>7
-----------------------------------------------------------------------------
(* The invariant of a script that runs alone, and what follows from it. *)

AloneInv ==
  StateInv /\ \A p \in Scripts : Alone(p) => Use(script[p], disk) /\ (Apart => Rem(script[p], disk))

LEMMA StepAlone ==
  ASSUME Apart, StateInv, NEW p \in Scripts, Step(p), Rem(script[p], disk)
  PROVE  Rem(script'[p], disk')
<1>1. script[p] \in Script /\ Flow(script[p]) /\ script'[p].command = script[p].command
  BY FoundType, StepKeeps
<1>2. CASE script[p].command # "remove-all"
  BY <1>1, <1>2 DEF Rem
<1>3. CASE script[p].command = "remove-all"
  <2>1. script[p].stage \notin Installation
    BY <1>1, <1>3 DEF Flow
  <2>2. ListItems(p) \/ TakeItem(p) \/ FindToRemove(p) \/ LocateToRemove(p) \/ Delete(p)
    BY <2>1 DEF Step, FindSources, LookForItem, DecideOnItem, Configure, CheckDriver, Make, At, Installation
  <2> QED BY <1>3, <2>2, ListRem, RemoveRem
<1> QED BY <1>2, <1>3

\* After the step of a script no other is alone, and it is alone only if it was.
LEMMA AloneBefore ==
  ASSUME StateInv, NEW p \in Scripts, Begins(p) \/ Step(p), NEW q \in Scripts, Alone(q)'
  PROVE  q = p /\ Alone(p)
<1>1. script'[p].stage # "idle" \/ script'[p].status # "none"
  BY BeginFlow, StepKeeps DEF Changed, Started
<1>2. \A r \in Scripts \ {p} : script'[r] = script[r]
  BY BeginFlow, StepKeeps DEF Changed
<1>3. \A r \in Scripts \ {q} : script'[r].stage = "idle" /\ script'[r].status = "none"
  BY DEF Alone, At
<1>4. q = p
  BY <1>1, <1>3
<1> QED BY <1>2, <1>3, <1>4 DEF Alone, At

LEMMA InitAlone == Init => AloneInv
<1> SUFFICES ASSUME Init PROVE AloneInv
  OBVIOUS
<1>1. StateInv
  BY InitState
<1>2. PICK n \in Names : script = [p \in Scripts |-> Idle(n)]
  BY DEF Init
<1>3. \A p \in Scripts : script[p].stage = "idle" /\ script[p].status = "none" /\ script[p].command = "remove"
  BY <1>2 DEF Idle
<1> QED BY <1>1, <1>3 DEF AloneInv, Use, Rem

LEMMA NextAlone == AloneInv /\ [Next]_vars => AloneInv'
<1> SUFFICES ASSUME AloneInv, [Next]_vars PROVE AloneInv'
  OBVIOUS
<1>0. StateInv /\ StateInv'
  BY NextState DEF AloneInv
<1>1. SUFFICES ASSUME NEW q \in Scripts, Alone(q)'
               PROVE  Use(script'[q], disk') /\ (Apart => Rem(script'[q], disk'))
  <2>1. \A q \in Scripts : Use(script'[q], disk') => Use(script[q], disk)'
    BY DEF Use, Done, Main, IsInstalled, FoundAt, Finds
  <2>2. \A q \in Scripts : Rem(script'[q], disk') => Rem(script[q], disk)'
    BY DEF Rem, Due, Left, CopiesOf, Gone, IsInstalled, FoundAt
  <2> QED BY <1>0, <1>1, <2>1, <2>2 DEF AloneInv
<1>2. ASSUME NEW p \in Scripts, Begins(p)
      PROVE  Use(script'[q], disk') /\ (Apart => Rem(script'[q], disk'))
  <2>1. q = p
    BY <1>0, <1>1, <1>2, AloneBefore
  <2>2. PICK new \in Script : Changed(p, new) /\ Started(new)
    BY <1>0, <1>2, BeginFlow
  <2>3. \A j \in 1..3 : ~(j < 1)
    OBVIOUS
  <2>4. Use(new, disk') /\ Rem(new, disk')
    BY <2>2, <2>3 DEF Started, Use, Rem, Done, Removal
  <2> QED BY <2>1, <2>2, <2>4 DEF Changed
<1>3. ASSUME NEW p \in Scripts, Step(p)
      PROVE  Use(script'[q], disk') /\ (Apart => Rem(script'[q], disk'))
  <2>1. q = p /\ Alone(p)
    BY <1>0, <1>1, <1>3, AloneBefore
  <2>2. Use(script[p], disk) /\ (Apart => Rem(script[p], disk))
    BY <2>1 DEF AloneInv
  <2> QED BY <1>0, <1>3, <2>1, <2>2, StepUse, StepAlone
<1>4. CASE UNCHANGED vars
  <2>1. script' = script /\ disk' = disk
    BY <1>4 DEF vars
  <2>2. Alone(q)
    BY <1>1, <2>1 DEF Alone, At
  <2> QED BY <2>1, <2>2 DEF AloneInv
<1> QED BY <1>2, <1>3, <1>4 DEF Next, Begins

\* An item that was not found, and whose installation succeeds, is in the first
\* directory of the collection's list whoever installs at the same time; and what one
\* script installs alone, without --force, is what a simulator finds, although the
\* collections are searched in another order (get_build_install_item).
THEOREM InstallsAreUsed ==
  ASSUME Undisturbed
  PROVE  Spec => []InstalledWhereItIsUsed
<1>1. KeptInv /\ AloneInv => InstalledWhereItIsUsed
  <2> SUFFICES ASSUME KeptInv, AloneInv PROVE InstalledWhereItIsUsed
    OBVIOUS
  <2>1. TypeOK
    BY DEF AloneInv, StateInv
  <2>2. ASSUME NEW p \in Scripts, Ended(p, "install", "success"), script[p].target # NoPlace
        PROVE  /\ <<Promised(p), TypeOf[script[p].item], script[p].item>> \in disk
               /\ Alone(p) /\ ~script[p].force =>
                    Finds(disk, TypeOf[script[p].item], script[p].item).directory = script[p].target
    <3>1. Done(script[p]) /\ script[p].command = "install"
      BY <2>2 DEF Ended, At, Done
    <3>2. StateInv /\ Facts(script[p], disk) /\ Flow(script[p])
      BY DEF KeptInv, SafeInv, StateInv
    <3>3. script[p].target = Promised(p)
      BY <3>1, <3>2, PromisedIsFirst DEF Flow
    <3>4. <<Promised(p), TypeOf[script[p].item], script[p].item>> \in disk
      BY <3>1, <3>2, <3>3 DEF Facts, Placed
    <3>5. ASSUME Alone(p), ~script[p].force
          PROVE  Finds(disk, TypeOf[script[p].item], script[p].item).directory = script[p].target
      BY <3>1, <3>5 DEF AloneInv, Use
    <3> QED BY <3>4, <3>5
  <2> QED BY <2>1, <2>2 DEF InstalledWhereItIsUsed, InstalledInFirstDirectory, InstalledIsInUse
<1>2. Init => KeptInv /\ AloneInv
  BY InitKept, InitAlone
<1>3. KeptInv /\ AloneInv /\ [Next]_vars => (KeptInv /\ AloneInv)'
  BY NextKept, NextAlone
<1> QED BY <1>1, <1>2, <1>3, PTL DEF Spec

\* remove-all, alone, removes every item of every type however many copies there are,
\* fails only without the rights it needs, and only directories of items are removed
\* (remove_item and the loops of remove-all).
THEOREM RemovalsAreExact ==
  ASSUME Undisturbed, Apart
  PROVE  Spec => []RemovalIsExact
<1>1. KeptInv /\ AloneInv => RemovalIsExact
  <2> SUFFICES ASSUME KeptInv, AloneInv PROVE RemovalIsExact
    OBVIOUS
  <2>1. OnlyItemsAreRemoved
    BY DEF KeptInv, SafeInv, OnlyItemsAreRemoved
  <2>2. RemoveAllLeavesNothing
    BY DEF RemoveAllLeavesNothing, AloneInv, Rem, Gone, Ended, At
  <2>3. RemoveAllSucceeds
    BY DEF RemoveAllSucceeds, AloneInv, Rem, Ended, At
  <2> QED BY <2>1, <2>2, <2>3 DEF RemovalIsExact
<1>2. Init => KeptInv /\ AloneInv
  BY InitKept, InitAlone
<1>3. KeptInv /\ AloneInv /\ [Next]_vars => (KeptInv /\ AloneInv)'
  BY NextKept, NextAlone
<1> QED BY <1>1, <1>2, <1>3, PTL DEF Spec
=============================================================================
