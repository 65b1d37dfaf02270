------------------------------- MODULE Units -------------------------------
(***************************************************************************)
(* Units (KIM_ModelImplementation.cpp): the units a model sets and the     *)
(* factor ConvertUnit returns between derived units of two sets of base    *)
(* units, as a model uses them that brings a parameter from one set of     *)
(* base units to another, step by step.                                    *)
(*                                                                         *)
(* A factor is a product of powers of ten and of the numbers that define   *)
(* the other units; it is represented by the exponents of these, so that   *)
(* the product of factors is the sum of their exponents.  Exponents of     *)
(* derived units are integers here; in the code they are doubles.          *)
(***************************************************************************)
EXTENDS Integers, FiniteSets

CONSTANTS
  Units,       \* the units of each dimension a caller may name, "unused" and unknown ones among them
  Exponents,   \* the exponents of the derived units that are converted
  MaxSteps     \* bound: conversions in a row

VARIABLES
  modelUnits,   \* the base units the model has set, or NotSet
  exponents,    \* those of the parameter
  first, base,  \* the base units it was given in and those it is in now
  total,        \* the factor it has been multiplied with
  steps,
  lookUps       \* the units that were looked up in their tables

vars == <<modelUnits, exponents, first, base, total, steps, lookUps>>

Dimensions == {"length", "energy", "charge", "temperature", "time"}
UnitsAssumption == Exponents \subseteq [Dimensions -> Int] /\ MaxSteps \in Nat

NotSet == [d \in Dimensions |-> "not set"]

\* Numbers that define units: ten, and mantissas that are not powers of it
Numbers == {"ten", "bohr", "amu", "eV", "hartree", "kcal", "e", "c"}
One == [n \in Numbers |-> 0]
Of(number, power) == [n \in Numbers |-> IF n = number THEN 1 ELSE IF n = "ten" THEN power ELSE 0]
Ten(power) == [One EXCEPT !["ten"] = power]

LengthMap == [A |-> Ten(-10), Bohr |-> Of("bohr", -11), cm |-> Ten(-2), m |-> One, nm |-> Ten(-9)]
EnergyMap ==
  [amu_A2_per_ps2 |-> Of("amu", -23), erg |-> Ten(7), eV |-> Of("eV", -19),
   Hartree |-> Of("hartree", -18), J |-> One, kcal_mol |-> Of("kcal", -21)]
ChargeMap == [C |-> One, e |-> Of("e", -19), statC |-> Of("c", -9)]
TemperatureMap == [K |-> One]
TimeMap == [fs |-> Ten(-15), ps |-> Ten(-12), ns |-> Ten(-9), s |-> One]
ToSI == [length |-> LengthMap, energy |-> EnergyMap, charge |-> ChargeMap,
         temperature |-> TemperatureMap, time |-> TimeMap]

Known(units) == \A d \in Dimensions : units[d] \in DOMAIN ToSI[d] \cup {"unused"}

(***************************************************************************)
(* ConvertUnit.                                                            *)
(***************************************************************************)
IsUnused(from, to, d) == from[d] = "unused" \/ to[d] = "unused"

ConvertFails(from, to, powers) ==
  \/ ~Known(from) \/ ~Known(to)
  \/ \E d \in Dimensions : powers[d] # 0 /\ IsUnused(from, to, d)

\* The units it looks up in the tables.  The value of one that is not there is read
\* past the end of the table; lookUps tells, and the value is not of interest.
SI(d, unit) == IF unit \in DOMAIN ToSI[d] THEN ToSI[d][unit] ELSE One
LookUps(from, to) ==
  UNION {{<<d, from[d]>>, <<d, to[d]>>} : d \in {e \in Dimensions : ~IsUnused(from, to, e)}}

SumOver(f) == f.length + f.energy + f.charge + f.temperature + f.time

\* Fault: the factor of the length is that of the unit it is converted from.
FactorFrom(from, to, powers) ==
  [n \in Numbers |-> SumOver([d \in Dimensions |->
     IF IsUnused(from, to, d) THEN 0
     ELSE powers[d] * (SI(d, from[d])[n] - (IF d = "length" THEN 0 ELSE SI(d, to[d])[n]))])]

Factor(from, to, powers) ==
  [n \in Numbers |-> SumOver([d \in Dimensions |->
     IF IsUnused(from, to, d) THEN 0
     ELSE powers[d] * (SI(d, from[d])[n] - SI(d, to[d])[n])])]

(***************************************************************************)
(* The model.                                                              *)
(***************************************************************************)
SetUnitsFails(units) == ~Known(units) \/ units.length = "unused" \/ units.energy = "unused"

Bases == [length : Units.length, energy : Units.energy, charge : Units.charge,
          temperature : Units.temperature, time : Units.time]

\* The two operations have no state in common: a model either sets its units here or
\* converts a parameter.
Init ==
  /\ modelUnits = NotSet
  /\ exponents \in Exponents
  /\ base \in Bases /\ first = base
  /\ total = One
  /\ steps = 0
  /\ lookUps = {}

SetUnits(units) ==
  /\ modelUnits = NotSet /\ steps = 0
  /\ modelUnits' = IF SetUnitsFails(units) THEN NotSet ELSE units
  /\ UNCHANGED <<exponents, first, base, total, steps, lookUps>>

\* The parameter is multiplied with the factor; when there is none it stays as it is.
ConvertUnit(to) ==
  /\ steps < MaxSteps /\ modelUnits = NotSet
  /\ steps' = steps + 1
  /\ IF ConvertFails(base, to, exponents)
     THEN UNCHANGED <<base, total, lookUps>>
     ELSE /\ base' = to
          /\ total' = [n \in Numbers |-> total[n] + Factor(base, to, exponents)[n]]
          /\ lookUps' = LookUps(base, to)
  /\ UNCHANGED <<modelUnits, exponents, first>>

Next ==
  \/ \E units \in Bases : SetUnits(units)
  \/ \E to \in Bases : ConvertUnit(to)

Spec == Init /\ [][Next]_vars

-----------------------------------------------------------------------------
\* The parameter is in base units that are known, once it has been converted.
TypeOK ==
  /\ modelUnits \in Bases \cup {NotSet}
  /\ first \in Bases /\ base \in Bases /\ (base # first => Known(base))
  /\ \A n \in Numbers : total[n] \in Int
  /\ steps \in 0..MaxSteps

\* What ConvertUnit looks up is in its tables, "unused" is not.
LookUpsSucceed == \A l \in lookUps : l[2] \in DOMAIN ToSI[l[1]]

\* The factor does not depend on the way: conversions in a row, also by base units in
\* which a dimension of no exponent is unused, give the factor of the direct one.
WayDoesNotMatter ==
  base # first /\ ~ConvertFails(first, base, exponents) =>
    total = [n \in Numbers |-> SumOver([d \in Dimensions |->
              IF exponents[d] = 0 THEN 0
              ELSE exponents[d] * (ToSI[d][first[d]][n] - ToSI[d][base[d]][n])])]

\* A model's units are of use: an energy and a length in them convert to and from
\* any base units that have both.
ModelUnitsConvert ==
  modelUnits # NotSet =>
    \A to \in Bases, d \in {"length", "energy"} :
      LET powers == [e \in Dimensions |-> IF e = d THEN 1 ELSE 0]
      IN  Known(to) /\ to[d] # "unused" =>
            ~ConvertFails(modelUnits, to, powers) /\ ~ConvertFails(to, modelUnits, powers)

\* An energy in ergs is converted as one in grams times square centimetres per square
\* second ("The standard erg unit of energy").
\* (The code does not keep this: README, "What the documentation says and the code does not do".)
ErgIsStandard ==
  first.energy = "erg" /\ base.energy = "J" /\ exponents.energy = 1
    /\ (\A d \in Dimensions \ {"energy"} : exponents[d] = 0)
    => total = Ten(-3 + 2 * LengthMap.cm["ten"] - 2 * TimeMap.s["ten"])

\* A charge in statcoulombs is converted to coulombs by the reciprocal of ten times the
\* speed of light in metres per second ("The standard statcoulomb unit of charge").
\* (The code does not keep this: README, "What the documentation says and the code does not do".)
StatCIsStandard ==
  first.charge = "statC" /\ base.charge = "C" /\ exponents.charge = 1
    /\ (\A d \in Dimensions \ {"charge"} : exponents[d] = 0)
    => total = [n \in Numbers |-> IF n = "c" THEN -1 ELSE IF n = "ten" THEN -9 ELSE 0]

\* The variables have their types, and conversions between units that are known succeed
\* and agree, whatever the way and whichever dimensions are unused.
UnitsConvert == TypeOK /\ LookUpsSucceed /\ WayDoesNotMatter /\ ModelUnitsConvert
=============================================================================
