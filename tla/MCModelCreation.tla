-------------------------- MODULE MCModelCreation --------------------------
(***************************************************************************)
(* Values for the constants of ModelCreation in the runs of TLC: one file  *)
(* of each kind that Open and ModelCreate tell apart.                      *)
(***************************************************************************)
EXTENDS ModelCreation, TLC

File(loadable, schema, itemType, hasDriver, parameterFiles) ==
  [ loadable |-> loadable, schema |-> schema, itemType |-> itemType,
    hasDriver |-> hasDriver, parameterFiles |-> parameterFiles ]

OneOfEachKind ==
  [ standAlone |-> File(TRUE, "V2", "portableModel", FALSE, 0),
    parameterized |-> File(TRUE, "V1", "portableModel", TRUE, 1),
    driver |-> File(TRUE, "V2", "modelDriver", FALSE, 0),
    simulatorModel |-> File(TRUE, "V2", "simulatorModel", TRUE, 1),
    noLibrary |-> File(FALSE, "absent", "unknown", FALSE, 0),
    noSchema |-> File(TRUE, "absent", "unknown", FALSE, 0) ]

KindsForDrivers ==
  [ parameterized |-> File(TRUE, "V2", "portableModel", TRUE, 1),
    driver |-> File(TRUE, "V1", "modelDriver", FALSE, 0),
    unknown |-> File(TRUE, "V1", "unknown", FALSE, 0) ]

Kinds == DOMAIN OneOfEachKind
DriverKinds == DOMAIN KindsForDrivers

CallSymmetry == Permutations(Creations) \cup Permutations(Directories)
=============================================================================
