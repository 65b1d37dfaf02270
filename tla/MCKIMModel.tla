----------------------------- MODULE MCKIMModel -----------------------------
(***************************************************************************)
(* Values for the constants of KIMModel in the runs of TLC.                *)
(***************************************************************************)
EXTENDS KIMModel, TLC

OneList == {<<1>>}
OneOrTwoLists == {<<1>>, <<1, 2>>}

Conversion == {[model |-> "oneBased", simulator |-> "zeroBased"]}
ThreePairs == Conversion \cup {[model |-> "zeroBased", simulator |-> "oneBased"], [model |-> "zeroBased", simulator |-> "zeroBased"]}

Refreshable == {{"Refresh"}}
EveryRoutine == {{"Refresh", "Extension"}}

(***************************************************************************)
(* The bounds of the run of several threads or several models: either      *)
(* threads share one Model that is refreshed, or one thread uses Models of *)
(* all numberings, of the same name or another, with one ComputeArguments. *)
(***************************************************************************)
AtMostOne(S) == \A a, b \in S : a = b

LiveModels == {m \in Models : LiveModel(m)}
LiveArgumentsObjects == {c \in ArgumentsObjects : LiveArguments(c)}

SharedModel ==
  /\ AtMostOne(LiveModels)
  /\ \A m \in LiveModels :
       /\ models[m].name = "Lennard-Jones"
       /\ models[m].modelNumbering = "oneBased" /\ models[m].simulatorNumbering = "zeroBased"
  /\ AtMostOne({c \in LiveArgumentsObjects : ~AreAllRequiredArgumentsAndCallbacksPresent(args[c])})

ManyModels ==
  /\ AtMostOne(LiveArgumentsObjects)
  /\ AtMostOne({t \in Threads : frame[t] # Idle})
  /\ \A m \in LiveModels : models[m].accepted /\ models[m].influenceDistance = 2

SharedOrMany == SharedModel \/ ManyModels

ObjectSymmetry == Permutations(Threads) \cup Permutations(ArgumentsObjects) \cup Permutations(Models)
=============================================================================
