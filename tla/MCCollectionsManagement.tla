---------------------- MODULE MCCollectionsManagement ----------------------
(***************************************************************************)
(* Values for the constants of CollectionsManagement in the runs of TLC:   *)
(* a model and its driver; the environment names one directory and the     *)
(* user two; only sudo changes the system's.                               *)
(***************************************************************************)
EXTENDS CollectionsManagement, TLC

Where(working, environment, user, system) ==
  [c \in Collection |-> CASE c = "currentWorkingDirectory" -> working
                          [] c = "environmentVariable" -> environment
                          [] c = "user" -> user
                          [] OTHER -> system]
Lists(environment) ==
  [c \in Collection |->
    [t \in ItemType |-> Where(<<"here">>, environment, <<"mine", "old">>, <<"all">>)[c]]]
DirectoryLists == Lists(<<"lent">>)

DirectoryNames == {"here", "lent", "mine", "old", "all"}
ItemTypes == [m |-> "portableModel", d |-> "modelDriver"]
Drivers == [m |-> "d", d |-> NoName]

At2(directories, n) == {<<d, ItemTypes[n], n>> : d \in directories}
\* Nothing, or copies of the model in one or two collections
SomeDisks == {{}, At2({"here"}, "m"), At2({"old", "all"}, "m"), At2({"lent", "old"}, "m") \cup At2({"mine"}, "d")}

\* One script runs alone, or two scripts install the model, with its driver and without
\* --force, into the collections of the environment and the user, with no copies elsewhere.
Bounds ==
  \/ \E p \in Scripts : Alone(p)
  \/ /\ \A p \in Scripts :
          /\ script[p].command = "install" /\ ~script[p].force
          /\ script[p].collection \in {"environment", "user"} /\ ~script[p].cwdFirst
          /\ "m" \in {script[p].item, script[p].model}
     /\ \A i \in disk : i[1] \notin {"here", "all"}
=============================================================================
