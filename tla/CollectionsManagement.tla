----------------------- MODULE CollectionsManagement -----------------------
(***************************************************************************)
(* The script kim-api-collections-management: its commands install,        *)
(* reinstall, remove and remove-all (collections-management.in), with the  *)
(* part of the build that says where an item goes (items-macros.cmake.in). *)
(*                                                                         *)
(* The script sees the collections through collections-info, a process for *)
(* each question (collections-info.cpp), so that what one answer says may  *)
(* be untrue when the next is asked.  An item is removed with rm -rf of    *)
(* its directory and installed with a build of its sources.                *)
(***************************************************************************)
EXTENDS Collections

CONSTANTS
  Scripts,        \* scripts that run side by side
  Commands,       \* the commands they may be started with
  ByForce,        \* whether install may get --force
  InitialDisks,   \* the items that may be installed at the start
  Protected,      \* directories that only sudo may change
  TypeOf,         \* the type of an item, as its sources say
  DriverOf,       \* the driver of a portable model, or NoName
  NoName,
  NoPlace

ASSUME ManagementAssumption ==
  /\ InitialDisks \subseteq SUBSET Item
  /\ Protected \subseteq Directories
  /\ TypeOf \in [Names -> ItemType]
  /\ NoName \notin Names /\ DriverOf \in [Names -> Names \cup {NoName}]
  /\ \A n \in Names : DriverOf[n] # NoName =>
       TypeOf[n] = "portableModel" /\ TypeOf[DriverOf[n]] = "modelDriver"
  /\ NoPlace \notin Place \cup Directories \cup Collection
  /\ \A t \in ItemType :   \* PrivateGetCWDDirs lists "." and nothing else
       /\ Len(DirsOf["currentWorkingDirectory"][t]) = 1
       /\ DirsOf["currentWorkingDirectory"][t] = DirsOf["currentWorkingDirectory"]["modelDriver"]
  /\ ByForce \subseteq BOOLEAN

VARIABLES
  disk,    \* the items whose library file exists
  script,  \* the variables of each script
  strayed  \* history: rm -rf has been called with a directory that is no item's

vars == <<disk, script, strayed>>

Command == {"install", "reinstall", "remove", "remove-all"}
\* What may be asked for, and what collections-info prints
Word == {"CWD", "environment", "user", "system", ""} \cup Collection
\* The order in which the script asks for the types
ScriptTypes == <<"modelDriver", "portableModel", "simulatorModel">>

Stage == { "idle",
           "sourcing",     \* install, reinstall: check_for_local_build
           "looking",      \*                     the finds of the three types
           "listing",      \* remove-all: the list of a type
           "taking",       \*             the next item of the list
           "finding",      \* remove_item: its first finds
           "locating",     \*              the find for the directory
           "deleting",     \*              rm -rf
           "configuring",  \* get_build_install_item: download and cmake
           "checking",     \*                         is the driver there?
           "making" }      \*                         make, test and install
Script ==
  [ stage : Stage, command : Command,
    collection : Word,                   \* install_collection
    cwdFirst : BOOLEAN,                  \* $PWD has been put before the environment's lists
    item : Names, force : BOOLEAN, sudo : BOOLEAN, interactive : BOOLEAN,
    type : 1..3,                         \* the type that is asked for
    found : Collection \cup {NoPlace},   \* the first collection in found_item
    list : [Names -> Nat],               \* remove-all: how often a name is in the list
    listed : 1..3,                       \*             of this type
    model : Names \cup {NoName},         \* the model whose driver is being installed
    target : Directories \cup {NoPlace}, \* where the item goes, or is removed
    aside : Directories \cup {NoPlace},  \* where that model goes
    removing : BOOLEAN,                  \* reinstall has yet to remove the item
    warned : BOOLEAN,                    \* a driver could not be installed
    status : {"none", "success", "failure"} ]

Idle(n) ==
  [ stage |-> "idle", command |-> "remove", collection |-> "user", cwdFirst |-> FALSE,
    item |-> n, force |-> FALSE, sudo |-> FALSE, interactive |-> FALSE, type |-> 1,
    found |-> NoPlace, list |-> [m \in Names |-> 0], listed |-> 1, model |-> NoName,
    target |-> NoPlace, aside |-> NoPlace, removing |-> FALSE, warned |-> FALSE, status |-> "none" ]

Init ==
  /\ disk \in InitialDisks
  /\ \E n \in Names : script = [p \in Scripts |-> Idle(n)]
  /\ strayed = FALSE

At(p, stage) == script[p].stage = stage
Becomes(p, new) == script' = [script EXCEPT ![p] = new]
Ends(p, status) == Becomes(p, [script[p] EXCEPT !.stage = "idle", !.status = status])
Type(p) == ScriptTypes[script[p].type]

(***************************************************************************)
(* The main script.                                                        *)
(***************************************************************************)
Begin(p, command, new) ==
  /\ At(p, "idle") /\ command \in Commands
  /\ Becomes(p, [new EXCEPT !.command = command])
  /\ UNCHANGED <<disk, strayed>>

\* For the working directory the script extends the environment.
BeginInstall(p, n, word, force, sudo) ==
  /\ word \in {"CWD", "environment", "user", "system"}
  /\ sudo => word = "system"
  /\ Begin(p, "install",
       [Idle(n) EXCEPT !.stage = "sourcing", !.force = force, !.sudo = sudo,
                       !.cwdFirst = (word = "CWD"),
                       !.collection = IF word = "CWD" THEN "environment" ELSE word])

BeginReinstall(p, n, sudo, interactive) ==
  Begin(p, "reinstall",
    [Idle(n) EXCEPT !.stage = "sourcing", !.sudo = sudo, !.interactive = interactive,
                    !.removing = TRUE])

BeginRemove(p, n, sudo, interactive) ==
  Begin(p, "remove",
    [Idle(n) EXCEPT !.stage = "finding", !.sudo = sudo, !.interactive = interactive])

BeginRemoveAll(p, sudo, interactive) ==
  \E n \in Names :
    Begin(p, "remove-all",
      [Idle(n) EXCEPT !.stage = "listing", !.sudo = sudo, !.interactive = interactive])

Dirs(c, p) == DirsOf[c][Type(p)]
InCollection(c, p) == {Dirs(c, p)[i] : i \in DOMAIN Dirs(c, p)}
Copies(p, n) == {place \in Collection \X Directories :
                   /\ place[2] \in InCollection(place[1], p)
                   /\ <<place[2], Type(p), n>> \in disk}

\* collections-info lists the items of a type, each once for every collection and
\* directory it is in.
ListItems(p) ==
  /\ At(p, "listing")
  /\ Becomes(p, [script[p] EXCEPT !.stage = "taking", !.listed = script[p].type,
                   !.list = [n \in Names |-> Cardinality(Copies(p, n))]])
  /\ UNCHANGED <<disk, strayed>>

Listed(p) == {n \in Names : script[p].list[n] > 0}

\* Fault: the loop does not go on to the next item.
TakeItemAgain(p) ==
  /\ At(p, "taking")
  /\ \/ \E n \in Listed(p) : Becomes(p, [script[p] EXCEPT !.stage = "finding", !.type = 1, !.item = n])
     \/ /\ Listed(p) = {} /\ script[p].listed < 3
        /\ Becomes(p, [script[p] EXCEPT !.stage = "listing", !.type = script[p].listed + 1])
     \/ Listed(p) = {} /\ script[p].listed = 3 /\ Ends(p, "success")
  /\ UNCHANGED <<disk, strayed>>

\* The loop over the list, here in any order; then the list of the next type
TakeItem(p) ==
  /\ At(p, "taking")
  /\ \/ \E n \in Listed(p) :
          Becomes(p, [script[p] EXCEPT !.stage = "finding", !.type = 1, !.item = n, !.list[n] = @ - 1])
     \/ /\ Listed(p) = {} /\ script[p].listed < 3
        /\ Becomes(p, [script[p] EXCEPT !.stage = "listing", !.type = script[p].listed + 1])
     \/ Listed(p) = {} /\ script[p].listed = 3 /\ Ends(p, "success")
  /\ UNCHANGED <<disk, strayed>>

(***************************************************************************)
(* How the functions return to their callers.                              *)
(***************************************************************************)
\* get_build_install_item: when it was for a model's driver, a failure is a
\* warning, and the model is made next.
InstallEnds(p, status) ==
  IF script[p].model = NoName THEN Ends(p, status)
  ELSE Becomes(p, [script[p] EXCEPT !.stage = "making", !.item = script[p].model, !.model = NoName,
                     !.target = script[p].aside, !.aside = NoPlace,
                     !.warned = (status = "failure")])

RemoveFails(p) == IF script[p].command = "install" THEN InstallEnds(p, "failure") ELSE Ends(p, "failure")

\* reinstall calls get_build_install_item next, with its arguments in the wrong
\* places: neither --force nor sudo arrive.
RemoveEnds(p) ==
  CASE script[p].command = "remove" -> Ends(p, "success")
    [] script[p].command = "remove-all" -> Becomes(p, [script[p] EXCEPT !.stage = "taking"])
    [] script[p].command = "install" -> Becomes(p, [script[p] EXCEPT !.stage = "configuring"])
    [] script[p].command = "reinstall" ->
         Becomes(p, [script[p] EXCEPT !.stage = "sourcing", !.removing = FALSE, !.found = NoPlace,
                                     !.type = 1, !.sudo = FALSE])

(***************************************************************************)
(* get_build_install_item, and how reinstall begins.                       *)
(***************************************************************************)
WorkingDirectory == Head(DirsOf["currentWorkingDirectory"]["modelDriver"])
DirectoryExists(d, n) == \E t \in ItemType : <<d, t, n>> \in disk

\* A directory with the item's name in the working directory is taken for its
\* sources; that of an installed item has none.  The sources may be unusable or
\* unknown in any case.
FindSources(p) ==
  /\ At(p, "sourcing")
  /\ \/ IF script[p].command = "reinstall" /\ script[p].removing THEN Ends(p, "failure")
        ELSE InstallEnds(p, "failure")
     \/ /\ ~DirectoryExists(WorkingDirectory, script[p].item)
        /\ Becomes(p, [script[p] EXCEPT !.stage = "looking", !.type = 1, !.found = NoPlace])
  /\ UNCHANGED <<disk, strayed>>

\* Fault: what the find of the last type prints replaces the rest.
FoundLast(p) ==
  IF IsInstalled(disk, Type(p), script[p].item)
  THEN Finds(disk, Type(p), script[p].item).collection ELSE NoPlace

\* found_item: what the finds of the types print, one after the other
FoundFirst(p) ==
  IF script[p].found = NoPlace /\ IsInstalled(disk, Type(p), script[p].item)
  THEN Finds(disk, Type(p), script[p].item).collection ELSE script[p].found

LookForItem(p) ==
  /\ At(p, "looking") /\ script[p].type < 3
  /\ Becomes(p, [script[p] EXCEPT !.type = @ + 1, !.found = FoundFirst(p)])
  /\ UNCHANGED <<disk, strayed>>

\* The find of the last type, and what follows from the three
DecideOnItem(p) ==
  /\ At(p, "looking") /\ script[p].type = 3
  /\ UNCHANGED <<disk, strayed>>
  /\ LET found == FoundFirst(p)
         here == script[p]
     IN \/ /\ here.removing
           /\ Becomes(p, [here EXCEPT !.stage = "finding", !.type = 1,
                             !.collection = IF found = NoPlace THEN "" ELSE found])
        \/ /\ ~here.removing /\ found = NoPlace
           /\ Becomes(p, [here EXCEPT !.stage = "configuring"])
        \/ /\ ~here.removing /\ found # NoPlace /\ here.force
           /\ Becomes(p, [here EXCEPT !.stage = "finding", !.type = 1])
        \/ /\ ~here.removing /\ found # NoPlace /\ ~here.force
           /\ InstallEnds(p, IF found = here.collection THEN "success" ELSE "failure")

\* The list of the collection that cmake is told, in upper case, and that it knows
ListFor(p, t) ==
  CASE script[p].collection = "system" -> DirsOf["system"][t]
    [] script[p].collection = "user" -> DirsOf["user"][t]
    [] script[p].collection = "environment" ->
         IF script[p].cwdFirst THEN <<WorkingDirectory>> \o DirsOf["environmentVariable"][t]
         ELSE DirsOf["environmentVariable"][t]
    [] OTHER -> <<>>

FirstDir(p, t) == Head(ListFor(p, t))

\* The item is downloaded and configured, which may fail.
Configure(p) ==
  /\ At(p, "configuring")
  /\ UNCHANGED <<disk, strayed>>
  /\ LET n == script[p].item
     IN \/ InstallEnds(p, "failure")
        \/ /\ ListFor(p, TypeOf[n]) # <<>>
           /\ Becomes(p, [script[p] EXCEPT
                !.target = FirstDir(p, TypeOf[n]),
                !.stage = IF DriverOf[n] = NoName THEN "making" ELSE "checking"])

\* Fault: the driver is not installed with the model.
CheckDriverOnly(p) ==
  /\ At(p, "checking")
  /\ Becomes(p, [script[p] EXCEPT !.stage = "making"])
  /\ UNCHANGED <<disk, strayed>>

CheckDriver(p) ==
  /\ At(p, "checking")
  /\ LET driver == DriverOf[script[p].item]
     IN  IF IsInstalled(disk, "modelDriver", driver)
         THEN Becomes(p, [script[p] EXCEPT !.stage = "making"])
         ELSE Becomes(p, [script[p] EXCEPT !.stage = "sourcing", !.item = driver,
                !.model = script[p].item, !.aside = script[p].target, !.target = NoPlace])
  /\ UNCHANGED <<disk, strayed>>

\* make install; make or its tests may fail.
Make(p) ==
  /\ At(p, "making")
  /\ \/ InstallEnds(p, "failure") /\ UNCHANGED disk
     \/ /\ script[p].target \in Protected => script[p].sudo
        /\ disk' = disk \cup {<<script[p].target, TypeOf[script[p].item], script[p].item>>}
        /\ InstallEnds(p, "success")
  /\ UNCHANGED strayed

(***************************************************************************)
(* remove_item                                                             *)
(***************************************************************************)
FindToRemove(p) ==
  /\ At(p, "finding")
  /\ \/ /\ IsInstalled(disk, Type(p), script[p].item)
        /\ Becomes(p, [script[p] EXCEPT !.stage = "locating"])
     \/ /\ ~IsInstalled(disk, Type(p), script[p].item) /\ script[p].type < 3
        /\ Becomes(p, [script[p] EXCEPT !.type = @ + 1])
     \/ /\ ~IsInstalled(disk, Type(p), script[p].item) /\ script[p].type = 3
        /\ RemoveFails(p)
  /\ UNCHANGED <<disk, strayed>>

\* Fault: the directory is always asked for as that of a driver.
LocateDriver(p) ==
  /\ At(p, "locating")
  /\ LET n == script[p].item
     IN  Becomes(p, [script[p] EXCEPT !.stage = "deleting",
           !.target = IF IsInstalled(disk, "modelDriver", n)
                      THEN Finds(disk, "modelDriver", n).directory ELSE NoPlace])
  /\ UNCHANGED <<disk, strayed>>

\* The item is asked for once more, to know its directory.  Nothing is printed
\* when it is not there any more: item_dir becomes "/" with the item's name.
LocateToRemove(p) ==
  /\ At(p, "locating")
  /\ LET n == script[p].item
     IN  Becomes(p, [script[p] EXCEPT !.stage = "deleting",
           !.target = IF IsInstalled(disk, Type(p), n) THEN Finds(disk, Type(p), n).directory ELSE NoPlace])
  /\ UNCHANGED <<disk, strayed>>

\* rm -rf takes the directory with all that is in it.
Delete(p) ==
  /\ At(p, "deleting")
  /\ LET n == script[p].item
         dir == script[p].target
         refused == dir \in Protected /\ DirectoryExists(dir, n) /\ ~script[p].sudo
     IN \/ script[p].interactive /\ RemoveEnds(p) /\ UNCHANGED <<disk, strayed>>
        \/ refused /\ RemoveFails(p) /\ UNCHANGED <<disk, strayed>>
        \/ /\ ~refused /\ RemoveEnds(p)
           /\ disk' = disk \ {<<dir, t, n>> : t \in ItemType}
           /\ strayed' = (strayed \/ dir = NoPlace)

Step(p) ==
  \/ ListItems(p) \/ TakeItem(p)
  \/ FindSources(p) \/ LookForItem(p) \/ DecideOnItem(p) \/ Configure(p) \/ CheckDriver(p) \/ Make(p)
  \/ FindToRemove(p) \/ LocateToRemove(p) \/ Delete(p)

Next ==
  \E p \in Scripts :
    \/ \E n \in Names, word \in Word, force \in ByForce, sudo \in BOOLEAN : BeginInstall(p, n, word, force, sudo)
    \/ \E n \in Names, sudo, interactive \in BOOLEAN :
         BeginReinstall(p, n, sudo, interactive) \/ BeginRemove(p, n, sudo, interactive)
    \/ \E sudo, interactive \in BOOLEAN : BeginRemoveAll(p, sudo, interactive)
    \/ Step(p)

Spec == Init /\ [][Next]_vars

\* A script that runs goes on; nobody has to start one.
FairSpec == Spec /\ \A p \in Scripts : WF_vars(Step(p))

(***************************************************************************)
(* What must hold.                                                         *)
(***************************************************************************)
\* The variables have their types.
TypeOK ==
  /\ disk \subseteq Item
  /\ script \in [Scripts -> Script]
  /\ strayed \in BOOLEAN

Ended(p, command, status) ==
  At(p, "idle") /\ script[p].command = command /\ script[p].status = status

\* The directory the documentation names: the first one of the collection's list
Promised(p) ==
  IF script[p].cwdFirst THEN WorkingDirectory ELSE
  LET collection == IF script[p].collection = "environment" THEN "environmentVariable"
                    ELSE script[p].collection
  IN  Head(DirsOf[collection][TypeOf[script[p].item]])

\* An installation of an item that was not found, and that succeeds, leaves it in
\* the first directory of the collection, also when another installs it meanwhile.
InstalledInFirstDirectory ==
  \A p \in Scripts :
    Ended(p, "install", "success") /\ script[p].target # NoPlace =>
      <<Promised(p), TypeOf[script[p].item], script[p].item>> \in disk

\* No other script has run.
Alone(p) == \A q \in Scripts \ {p} : At(q, "idle") /\ script[q].status = "none"

\* What one script installs without --force is what simulators find.
InstalledIsInUse ==
  \A p \in Scripts :
    Alone(p) /\ Ended(p, "install", "success") /\ ~script[p].force /\ script[p].target # NoPlace =>
      Finds(disk, TypeOf[script[p].item], script[p].item).directory = script[p].target

\* A model is not installed without its driver unless the script has said so.
ModelsHaveDrivers ==
  \A p \in Scripts :
    Ended(p, "install", "success") /\ script[p].target # NoPlace /\ ~script[p].warned
        /\ DriverOf[script[p].item] # NoName =>
      IsInstalled(disk, "modelDriver", DriverOf[script[p].item])

\* After remove-all that is not asked to skip items no item is found anywhere,
\* however many copies there were in the collections.
RemoveAllLeavesNothing ==
  \A p \in Scripts :
    Alone(p) /\ Ended(p, "remove-all", "success") /\ ~script[p].interactive =>
      \A t \in ItemType, n \in Names : ~IsInstalled(disk, t, n)

\* remove-all with the rights it needs succeeds.
RemoveAllSucceeds ==
  \A p \in Scripts : Alone(p) /\ Ended(p, "remove-all", "failure") => ~script[p].sudo

\* remove-all removes the items of the three collections it names when it asks for
\* confirmation, and leaves those of the working directory.
\* (The code does not keep this: README, "What the documentation says and the code does not do".)
RemoveAllSparesWorkingDirectory ==
  [][\A p \in Scripts, t \in ItemType, n \in Names :
       At(p, "deleting") /\ ~At(p, "deleting")' /\ script[p].command = "remove-all"
         /\ <<WorkingDirectory, t, n>> \in disk => <<WorkingDirectory, t, n>> \in disk']_vars

\* Only directories of items are removed.
OnlyItemsAreRemoved == ~strayed

\* reinstall leaves an item that it has removed installed.
\* (The code does not keep this: README, "What the documentation says and the code does not do".)
ReinstalledItemsExist ==
  \A p \in Scripts :
    Ended(p, "reinstall", "failure") /\ ~script[p].removing => IsInstalled(disk, TypeOf[script[p].item], script[p].item)

\* A command comes to its end.
ScriptsEnd == \A p \in Scripts : ~At(p, "idle") ~> At(p, "idle")

\* The variables have their types, and an item that a script has installed is where
\* the script was told to install it and, if no script interferes, what simulators use.
InstalledWhereItIsUsed == TypeOK /\ InstalledInFirstDirectory /\ InstalledIsInUse

\* What is removed is all that was to be removed, and nothing but items.
RemovalIsExact == RemoveAllLeavesNothing /\ RemoveAllSucceeds /\ OnlyItemsAreRemoved
=============================================================================
