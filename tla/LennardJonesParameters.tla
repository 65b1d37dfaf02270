----------------------- MODULE LennardJonesParameters -----------------------
(***************************************************************************)
(* The parameters of the Lennard-Jones model driver                        *)
(* (LennardJones612Implementation.cpp): its parameter file read line by    *)
(* line into triangular arrays, the mixing of the pairs the file does not  *)
(* give, the conversion of units, the values the Refresh routine computes  *)
(* from the arrays, and a simulator that changes parameters and refreshes. *)
(*                                                                         *)
(* Values are whole numbers, epsilons squares of them; -1 is a value that  *)
(* has not been given.  sigma is read, mixed and converted as the cutoff   *)
(* is, and is left out.  A file has a readable first line and at most as   *)
(* many species as that says.                                              *)
(***************************************************************************)
EXTENDS Integers, Sequences, FiniteSets, FiniteSetsExt

CONSTANTS
  Files,         \* [N |-> number of species, shift |-> 0 or 1, lines |-> sequence of Lines]
  LengthFactor,  \* of the requested units
  NewCutoffs,    \* what a simulator sets
  MaxSets        \* bound: parameters it sets

\* A data line, a comment or blank line, and one with fewer than five fields
Kinds == {"data", "comment", "short"}
DataLines(f) == {n \in DOMAIN f.lines : f.lines[n].kind = "data"}

FilesAssumption ==
  /\ LengthFactor \in Nat \ {0} /\ NewCutoffs \subseteq Nat \ {0}
  /\ \A f \in Files :
       /\ f.N \in Nat \ {0} /\ f.shift \in {0, 1}
       /\ f.lines \in Seq({f.lines[n] : n \in DOMAIN f.lines})
       /\ \A n \in DOMAIN f.lines : f.lines[n].kind \in Kinds
       /\ \A n \in DataLines(f) :
            /\ f.lines[n].cutoff \in Nat \ {0} /\ f.lines[n].epsilon \in Nat
            /\ \E root \in 1..f.lines[n].epsilon : f.lines[n].epsilon = root * root
       /\ Cardinality(UNION {{f.lines[n].a, f.lines[n].b} : n \in DataLines(f)}) <= f.N

VARIABLES
  pc, file, line,
  modelSpecies,       \* the species in the order of their codes
  cutoffs, epsilons,  \* arrays over 0 .. number of pairs - 1
  shift,
  cutoffsSq2D, shifts2D, influence,   \* what Refresh computes
  given,              \* history: the cutoff of each pair of codes last given, by the file or the simulator
  sets, refreshed

arrays == <<cutoffs, epsilons, shift>>
derived == <<cutoffsSq2D, shifts2D, influence>>
vars == <<pc, file, line, modelSpecies, arrays, derived, given, sets, refreshed>>

N == file.N
Codes == 0..N - 1
NumberUniqueSpeciesPairs == ((N + 1) * N) \div 2

\* Fault: the roles of row and column are interchanged.
PairIndexSwapped(i, j) ==
  IF i >= j THEN i * N + j - (i * i + i) \div 2 ELSE j * N + i - (j * j + j) \div 2

\* The place of the pair of codes i and j
PairIndex(i, j) ==
  IF i >= j THEN j * N + i - (j * j + j) \div 2 ELSE i * N + j - (i * i + i) \div 2

Square(n) == n * n
Root(n) == IF \E r \in 0..n : r * r = n THEN CHOOSE r \in 0..n : r * r = n ELSE -1
Pair(i, j) == {i, j}

(***************************************************************************)
(* Creation.                                                               *)
(***************************************************************************)
NotComputed == [i \in Codes |-> [j \in Codes |-> 0]]
NotGiven == [n \in 0..NumberUniqueSpeciesPairs - 1 |-> -1]

\* The first line has been read and the arrays are allocated.
Init ==
  /\ pc = "read"
  /\ file \in Files
  /\ line = 1
  /\ modelSpecies = <<>>
  /\ cutoffs = NotGiven /\ epsilons = NotGiven
  /\ shift = file.shift
  /\ cutoffsSq2D = NotComputed
  /\ shifts2D = [i \in Codes |-> [j \in Codes |-> <<0, 0>>]]
  /\ influence = 0
  /\ given = [p \in {Pair(i, j) : i, j \in Codes} |-> -1]
  /\ sets = 0 /\ refreshed = FALSE

CodeIn(list, s) == (CHOOSE n \in DOMAIN list : list[n] = s) - 1
With(list, s) == IF \E n \in DOMAIN list : list[n] = s THEN list ELSE Append(list, s)

ReadLine ==
  /\ pc = "read" /\ line <= Len(file.lines)
  /\ line' = line + 1
  /\ LET l == file.lines[line]
     IN  CASE l.kind = "comment" -> UNCHANGED <<pc, modelSpecies, cutoffs, epsilons, given>>
           [] l.kind = "short" -> pc' = "error" /\ UNCHANGED <<modelSpecies, cutoffs, epsilons, given>>
           [] OTHER ->
                LET list == With(With(modelSpecies, l.a), l.b)
                    i == CodeIn(list, l.a)
                    j == CodeIn(list, l.b)
                IN  /\ modelSpecies' = list
                    /\ cutoffs' = [cutoffs EXCEPT ![PairIndex(i, j)] = l.cutoff]
                    /\ epsilons' = [epsilons EXCEPT ![PairIndex(i, j)] = l.epsilon]
                    /\ given' = [given EXCEPT ![Pair(i, j)] = l.cutoff]
                    /\ UNCHANGED pc
  /\ UNCHANGED <<file, shift, derived, sets, refreshed>>

\* All like-like pairs must have been given.
CheckPairs ==
  /\ pc = "read" /\ line > Len(file.lines)
  /\ pc' = IF \E i \in Codes : cutoffs[PairIndex(i, i)] = -1 THEN "error" ELSE "mix"
  /\ UNCHANGED <<file, line, modelSpecies, arrays, derived, given, sets, refreshed>>

\* The Lorentz-Berthelot rules for the pairs without values
IsMixed(i, j) == i # j /\ cutoffs[PairIndex(i, j)] = -1
Mix ==
  /\ pc = "mix"
  /\ LET at(n) == {p \in Codes \X Codes : PairIndex(p[1], p[2]) = n /\ IsMixed(p[1], p[2])}
         mixed(n) == at(n) # {}
         like(values, n, k) ==
           LET i == (CHOOSE p \in at(n) : p[1] < p[2])[k] IN values[PairIndex(i, i)]
     IN  /\ cutoffs' = [n \in DOMAIN cutoffs |->
              IF mixed(n) THEN (like(cutoffs, n, 1) + like(cutoffs, n, 2)) \div 2 ELSE cutoffs[n]]
         /\ epsilons' = [n \in DOMAIN epsilons |->
              IF mixed(n) THEN Root(like(epsilons, n, 1) * like(epsilons, n, 2)) ELSE epsilons[n]]
  /\ pc' = "convert"
  /\ UNCHANGED <<file, line, modelSpecies, shift, derived, given, sets, refreshed>>

ConvertUnits ==
  /\ pc = "convert"
  /\ cutoffs' = [n \in DOMAIN cutoffs |-> LengthFactor * cutoffs[n]]
  /\ given' = [p \in DOMAIN given |-> IF given[p] = -1 THEN -1 ELSE LengthFactor * given[p]]
  /\ pc' = "refresh"
  /\ UNCHANGED <<file, line, modelSpecies, epsilons, shift, derived, sets, refreshed>>

(***************************************************************************)
(* Refresh, and the simulator.                                             *)
(***************************************************************************)
Influence(cutoffsSq) == Root(Max({cutoffsSq[i][j] : i, j \in Codes}))

\* The potential at the cutoff is represented by what it is computed from.  The shifts
\* are computed when they are in use only.
Shifts(old) ==
  IF shift = 1
  THEN [i \in Codes |-> [j \in Codes |-> <<epsilons[PairIndex(i, j)], cutoffs[PairIndex(i, j)]>>]]
  ELSE old

SetRefreshMutableValues ==
  /\ cutoffsSq2D' = [i \in Codes |-> [j \in Codes |-> Square(cutoffs[PairIndex(i, j)])]]
  /\ influence' = Influence(cutoffsSq2D')
  /\ shifts2D' = Shifts(shifts2D)
  /\ refreshed' = TRUE

FirstRefresh ==
  /\ pc = "refresh"
  /\ SetRefreshMutableValues
  /\ pc' = "created"
  /\ UNCHANGED <<file, line, modelSpecies, arrays, given, sets>>

\* The simulator sets the cutoff of a pair at the place the parameter's description
\* gives: the index (j*N + i - (j*j + j)/2) for i >= j.
SetCutoff(i, j, value) ==
  /\ pc = "created" /\ i >= j /\ sets < MaxSets
  /\ cutoffs' = [cutoffs EXCEPT ![j * N + i - (j * j + j) \div 2] = value]
  /\ given' = [given EXCEPT ![Pair(i, j)] = value]
  /\ sets' = sets + 1
  /\ refreshed' = FALSE
  /\ UNCHANGED <<pc, file, line, modelSpecies, epsilons, shift, derived>>

SetShift(value) ==
  /\ pc = "created" /\ sets < MaxSets
  /\ shift' = value
  /\ sets' = sets + 1
  /\ refreshed' = FALSE
  /\ UNCHANGED <<pc, file, line, modelSpecies, cutoffs, epsilons, derived, given>>

Refresh ==
  /\ pc = "created" /\ ~refreshed
  /\ SetRefreshMutableValues
  /\ UNCHANGED <<pc, file, line, modelSpecies, arrays, given, sets>>

Next ==
  \/ ReadLine \/ CheckPairs \/ Mix \/ ConvertUnits \/ FirstRefresh
  \/ \E i, j \in Codes, value \in NewCutoffs : SetCutoff(i, j, value)
  \/ \E value \in {0, 1} : SetShift(value)
  \/ Refresh

Spec == Init /\ [][Next]_vars

-----------------------------------------------------------------------------
\* The arrays have a value for each pair, once the model is created.
TypeOK ==
  /\ pc \in {"read", "error", "mix", "convert", "refresh", "created"}
  /\ DOMAIN cutoffs = 0..NumberUniqueSpeciesPairs - 1 /\ DOMAIN epsilons = DOMAIN cutoffs
  /\ Len(modelSpecies) <= N
  /\ pc = "created" => \A n \in DOMAIN cutoffs : cutoffs[n] > 0 /\ epsilons[n] > 0

\* Each pair of species has what the last line of the file that names both in either
\* order gave for it, and where there is none what is mixed from the pairs of each.
TablesAreTheFiles ==
  pc = "refresh" =>
    \A i, j \in Codes :
      LET last(a, b) ==
            LET of == {n \in DataLines(file) : {file.lines[n].a, file.lines[n].b} = {a, b}}
            IN  IF of = {} THEN 0 ELSE Max(of)
          a == modelSpecies[i + 1]
          b == modelSpecies[j + 1]
          n == last(a, b)
          own(s) == file.lines[last(s, s)]
      IN  IF n # 0
          THEN /\ cutoffs[PairIndex(i, j)] = LengthFactor * file.lines[n].cutoff
               /\ epsilons[PairIndex(i, j)] = file.lines[n].epsilon
          ELSE /\ cutoffs[PairIndex(i, j)] = LengthFactor * ((own(a).cutoff + own(b).cutoff) \div 2)
               /\ Square(epsilons[PairIndex(i, j)]) = own(a).epsilon * own(b).epsilon

\* After a refresh the potential is cut off where the file or the simulator said last,
\* from both sides of the pair, whatever was set in between.
CutoffsFollowTheSimulator ==
  refreshed =>
    \A i, j \in Codes :
      LET value == given[Pair(i, j)]
      IN  value # -1 =>
            cutoffsSq2D[i][j] = Square(value) /\ cutoffsSq2D[j][i] = Square(value)

\* The neighbour lists reach as far as any two species interact, and no farther.
InfluenceCoversCutoffs ==
  refreshed =>
    /\ \A i, j \in Codes : cutoffsSq2D[i][j] <= Square(influence)
    /\ \E i, j \in Codes : cutoffsSq2D[i][j] = Square(influence)

\* When the potential is shifted, it is shifted to zero at the cutoff in use ("If
\* (shift == 1), all LJ potentials are shifted to zero energy at their respective cutoff
\* distance."), also when the shift was turned off and on in between.
ShiftsAreAtTheCutoffs ==
  refreshed /\ shift = 1 =>
    \A i, j \in Codes : shifts2D[i][j] = <<epsilons[PairIndex(i, j)], Root(cutoffsSq2D[i][j])>>

\* The variables have their types, and after a refresh the tables the computation reads
\* are those of the file and of what the simulator has set.
ParametersAreRefreshed ==
  /\ TypeOK /\ TablesAreTheFiles
  /\ CutoffsFollowTheSimulator /\ InfluenceCoversCutoffs /\ ShiftsAreAtTheCutoffs
=============================================================================
