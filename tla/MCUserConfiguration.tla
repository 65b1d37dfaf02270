------------------------ MODULE MCUserConfiguration ------------------------
(***************************************************************************)
(* Values for the constants of UserConfiguration in the runs of TLC.       *)
(***************************************************************************)
EXTENDS UserConfiguration, TLC

DirectoryNames == {"drivers", "models", "simulators", "mine"}
Defaults ==
  [modelDriver |-> "drivers", portableModel |-> "models", simulatorModel |-> "simulators"]

SetSimulators == [type |-> "simulatorModel", directory |-> "mine"]
SetDrivers == [type |-> "modelDriver", directory |-> "drivers"]
TwoSettings == {SetSimulators, SetDrivers}

SettingLine(identifier, paths) == [identifier |-> identifier, paths |-> paths]
First == SettingLine("model-drivers-dir", <<"mine">>)
Second == SettingLine("portable-models-dir", <<"models">>)
Third == SettingLine("simulator-models-dir", <<"simulators">>)
SecondOld == SettingLine("models-dir", <<"mine">>)
Several(identifier) == SettingLine(identifier, <<"models", "mine">>)

CompleteFiles == {<<First, Second, Third>>}

\* No file, an old one of two lines, complete ones, and what editing may leave:
\* a line missing, empty, too long, or of the wrong kind
AnyFiles ==
  {NoFile, <<>>, <<First>>, <<First, SecondOld>>, <<First, SecondOld, Third>>,
   <<First, Second, Third>>, <<Second, First, Third>>,
   <<First, SettingLine("blank", <<>>)>>, <<First, SettingLine("portable-models-dir", <<>>), Third>>,
   <<Several("model-drivers-dir"), Second, Third>>,
   <<First, Second, SettingLine("other", <<>>)>>}
=============================================================================
