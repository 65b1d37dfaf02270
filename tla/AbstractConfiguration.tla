----------------------- MODULE AbstractConfiguration -----------------------
(***************************************************************************)
(* What the user's configuration file promises: each type of item has a    *)
(* list of directories; set-user-...-dir replaces one list and leaves the  *)
(* others; a look-up returns the three lists of one moment, or an error.   *)
(***************************************************************************)
EXTENDS Sequences

CONSTANTS Processes, Setters, Directories

VARIABLES settings, answers

Types == {"modelDriver", "portableModel", "simulatorModel"}

Init == \A p \in Processes : ~answers[p].error

Set(p, t, d) ==
  /\ p \in Setters
  /\ settings' = [settings EXCEPT ![t] = [paths |-> <<d>>, joined |-> FALSE]]
  /\ UNCHANGED answers

LookUp(p) ==
  /\ answers' = [answers EXCEPT ![p] = [error |-> FALSE, dirs |-> settings]]
  /\ UNCHANGED settings

Fail(p) ==
  /\ \E dirs \in {[t \in Types |-> [paths |-> <<>>, joined |-> FALSE]]} :
       answers' = [answers EXCEPT ![p] = [error |-> TRUE, dirs |-> dirs]]
  /\ UNCHANGED settings

Next ==
  \E p \in Processes :
    \/ \E t \in Types, d \in Directories : Set(p, t, d)
    \/ LookUp(p) \/ Fail(p)

Spec == Init /\ [][Next]_<<settings, answers>>
=============================================================================
