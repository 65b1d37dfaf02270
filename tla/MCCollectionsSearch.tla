------------------------ MODULE MCCollectionsSearch ------------------------
(***************************************************************************)
(* Values for the constants of CollectionsSearch in the runs of TLC: the   *)
(* environment's list names the working directory and the user's directory.*)
(***************************************************************************)
EXTENDS CollectionsSearch, TLC

Where(working, environment, user, system) ==
  [c \in Collection |-> CASE c = "currentWorkingDirectory" -> working
                          [] c = "environmentVariable" -> environment
                          [] c = "user" -> user
                          [] OTHER -> system]
DirectoryLists ==
  [c \in Collection |->
    [t \in ItemType |->
      Where(<<"here">>, IF t = "portableModel" THEN <<"here", "mine">> ELSE <<>>,
            <<"mine">>, <<"all">>)[c]]]

DirectoryNames == {"here", "mine", "all"}
\* Items that come and go
Portables == {i \in Item : i[2] = "portableModel" /\ i[1] # "mine"}
OfTwoTypes == {<<"here", "portableModel", "m">>, <<"all", "portableModel", "m">>,
               <<"mine", "simulatorModel", "m">>, <<"all", "modelDriver", "m">>}
AnyOfTwoTypes == SUBSET OfTwoTypes

\* Items of other types come and go while one is looked for; the lists are made
\* with items of one type.
Bounds ==
  IF call.operation \in {"list", "metadata"}
  THEN disk \subseteq Portables
  ELSE names = [f \in Form |-> {}] /\ metadata = [f \in Form |-> <<>>]
=============================================================================
