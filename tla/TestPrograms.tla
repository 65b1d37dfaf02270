---------------------------- MODULE TestPrograms ----------------------------
(***************************************************************************)
(* The programs ex_test_Ar_fcc_cluster (C and C++): each creates a Model   *)
(* for Ar, finds out whether it can use it, and computes with it for a     *)
(* cluster of atoms on an fcc lattice, of several spacings.  The program   *)
(* in C++ then changes a parameter, refreshes the Model and computes again.*)
(*                                                                         *)
(* An action is a section of main.  The Model is one of Models, what it    *)
(* answers is told by the record's fields.  Sites of the lattice are given *)
(* in halves of its spacing, so that coordinates are whole.  MY_ERROR      *)
(* ends a program at once.  What the programs print is left out.           *)
(***************************************************************************)
EXTENDS Integers, Sequences, FiniteSets, SequencesExt

CONSTANTS
  Models,     \* see IsModel
  Sizes,      \* values of NCELLSPERSIDE
  Spacings,   \* the values of CurrentSpacing, in order
  Cutpad

Arguments == {"partialEnergy", "partialForces", "partialVirial"}
ArgumentsOfTheAPI == {"numberOfParticles", "particleSpeciesCodes", "particleContributing", "coordinates"}
Statuses == {"required", "optional", "notSupported"}
Known == {"Create", "ComputeArgumentsCreate", "Compute", "Refresh", "ComputeArgumentsDestroy", "Destroy"}
Answers == {"absent", "fails", "succeeds"}

IsModel(m) ==
  /\ m.created \in BOOLEAN /\ m.unitsAccepted \in BOOLEAN
  /\ \A r \in m.required : r \in STRING     \* the routines that are present and required
  /\ m.species \in BOOLEAN /\ m.code \in Int
  /\ m.makesArguments \in BOOLEAN /\ m.unmakesArguments \in BOOLEAN
  /\ m.arguments \in [Arguments -> Statuses] /\ m.ProcessDEDrTerm \in Statuses
  /\ m.Extension \in Answers /\ m.WriteParameterizedModel \in Answers
  /\ m.parameters \in Seq({"Integer", "Double"})
  /\ m.cutoffs \in Seq(Nat \ {0}) /\ m.cutoffs # <<>>
  /\ m.Refresh \in {"fails", "inPlace", "moves"}
  /\ m.newCutoffs \in Seq(Nat \ {0}) /\ m.newCutoffs # <<>>

TestProgramsAssumption ==
  /\ \A m \in Models : IsModel(m)
  /\ Sizes \subseteq Nat \ {0} /\ Spacings \in Seq(Nat \ {0}) /\ Cutpad \in Nat

VARIABLES
  program,      \* "c" or "cpp"
  model, cells,
  pc,
  made,         \* what the program created and did not destroy yet
  pointers,     \* the arguments and callbacks that have a pointer
  species,      \* particleSpecies: the codes it holds
  store,        \* the Model's array of cutoffs: which one it is and what it holds
  fetched,      \* the number of lists and the pointer to the cutoffs the program last got
  k,            \* how many spacings the loop has done
  coords, nl,   \* coords_cluster; the neighbor list
  refreshes,    \* how often the Model was refreshed
  outcome       \* "running", "exited" after MY_ERROR, "returned" from main

api == <<made, pointers, store, fetched, species>>
work == <<k, coords, nl>>
vars == <<program, model, cells, pc, api, work, refreshes, outcome>>

Objects == {"model", "arguments", "lists"}
NoList == [cutoff |-> 0, lists |-> <<>>]

Init ==
  /\ program \in {"c", "cpp"} /\ model \in Models /\ cells \in Sizes
  /\ pc = "begin" /\ outcome = "running"
  /\ made = {} /\ pointers = {} /\ species = {}
  /\ store = [id |-> 0, cutoffs |-> model.cutoffs] /\ fetched = [number |-> 0, id |-> -1]
  /\ k = 0 /\ coords = <<>> /\ nl = NoList /\ refreshes = 0

(***************************************************************************)
(* The cluster.                                                            *)
(***************************************************************************)
Plus(u, v) == [n \in 1 .. 3 |-> u[n] + v[n]]
FCCshifts == << <<0, 0, 0>>, <<1, 1, 0>>, <<1, 0, 1>>, <<0, 1, 1>> >>
Concat(f(_), n) == FlattenSeq([a \in 1 .. n |-> f(a - 1)])

\* Fault: latVec keeps the first coordinate that it has on the first face.
PosZFaceKept(n, i, j) == <<2 * n, 2 * j, 2 * n>>

\* The sites on the three faces are at latVec, and beside it; on the last face it gets back
\* the first coordinate that the next row of cells begins with.
PosZFace(n, i, j) == <<2 * i, 2 * j, 2 * n>>

Faces(n, i, j) ==
  LET x == <<2 * n, 2 * i, 2 * j>>
      y == <<2 * i, 2 * n, 2 * j>>
      z == PosZFace(n, i, j)
  IN << x, Plus(x, FCCshifts[4]), y, Plus(y, FCCshifts[3]), z, Plus(z, FCCshifts[2]) >>

RowX(n, i, j) == IF j = 0 THEN 2 * i ELSE PosZFace(n, i, j - 1)[1]
Cells(n, i, j) ==
  Concat(LAMBDA c : [m \in 1 .. 4 |-> Plus(<<RowX(n, i, j), 2 * j, 2 * c>>, FCCshifts[m])], n)

Edges(n, i) == << <<2 * i, 2 * n, 2 * n>>, <<2 * n, 2 * i, 2 * n>>, <<2 * n, 2 * n, 2 * i>> >>

create_FCC_cluster(n) ==
  Concat(LAMBDA i : Concat(LAMBDA j : Cells(n, i, j) \o Faces(n, i, j), n) \o Edges(n, i), n)
    \o << <<2 * n, 2 * n, 2 * n>> >>

(***************************************************************************)
(* The neighbor lists.  Lengths are compared in halves too.                *)
(***************************************************************************)
NClusterParts(n) == 4 * n * n * n + 6 * n * n + 3 * n + 1
Particles == 0 .. NClusterParts(cells) - 1

Square(a) == a * a
R2(c, i, j) == LET u == c[i + 1] v == c[j + 1]
               IN Square(v[1] - u[1]) + Square(v[2] - u[2]) + Square(v[3] - u[3])

\* Which particles the list of particle i has, for a whole list or a half one.
IsListed(half, c, cutoff, i, j) ==
  /\ R2(c, i, j) < Square(2 * cutoff)
  /\ IF half THEN i < j ELSE i # j

fcc_cluster_neighborlist(half, c, cutoff) ==
  [cutoff |-> cutoff,
   lists |-> [i \in Particles |-> SelectSeq([j \in 1 .. Len(c) |-> j - 1],
                                            LAMBDA j : IsListed(half, c, cutoff, i, j))]]

\* There is one list only, it may end before the cutoff, and there may be no such particle.
IsRefused(list, number, cutoff, index, i) ==
  number # 1 \/ cutoff > list.cutoff \/ index # 0 \/ i \notin Particles

get_cluster_neigh(list, number, cutoff, index, i) ==
  IF IsRefused(list, number, cutoff, index, i)
    THEN [error |-> TRUE, neighbors |-> <<>>]
    ELSE [error |-> FALSE, neighbors |-> list.lists[i]]

(***************************************************************************)
(* The steps of both programs.                                             *)
(***************************************************************************)
At(p, label) == program = p /\ pc = label /\ outcome = "running"
Goto(label) == pc' = label /\ UNCHANGED outcome
MY_ERROR == outcome' = "exited" /\ UNCHANGED pc
GotoIf(condition, label) == IF condition THEN Goto(label) ELSE MY_ERROR

Create(next) ==
  /\ GotoIf(model.created /\ model.unitsAccepted, next)
  /\ made' = IF model.created THEN {"model"} ELSE {}
  /\ UNCHANGED <<program, model, cells, pointers, store, fetched, species, work, refreshes>>

\* No routine is required that the program does not know, and Ar is supported.
CanBeCalled == model.required \subseteq Known /\ model.species

CreateArguments(next) ==
  /\ made' = IF model.makesArguments THEN made \cup {"arguments"} ELSE made
  /\ GotoIf(model.makesArguments, next)
  /\ UNCHANGED <<program, model, cells, pointers, store, fetched, species, work, refreshes>>

\* Fault: only the energy and the forces are looked at.
LooksAtEnergyAndForces(status) ==
  \A a \in {"partialEnergy", "partialForces"} : status[a] # "notSupported"

\* Energy and forces there must be, and nothing else may be required.
ArgumentsFit(status) ==
  \A a \in Arguments :
    IF a \in {"partialEnergy", "partialForces"} THEN status[a] # "notSupported"
                                                ELSE status[a] # "required"

CallbacksFit == model.ProcessDEDrTerm # "required"

Given == ArgumentsOfTheAPI \cup {"partialEnergy", "partialForces", "GetNeighborList"}

\* A pointer is not taken for an argument that is not supported.
IsAccepted(argument) == argument \in Arguments => model.arguments[argument] # "notSupported"
SetPointers(next) ==
  /\ pointers' = {a \in Given : IsAccepted(a)}
  /\ GotoIf(\A a \in Given : IsAccepted(a), next)
  /\ UNCHANGED <<program, model, cells, made, store, fetched, species, work, refreshes>>

Fetch == fetched' = [number |-> Len(store.cutoffs), id |-> store.id]

SetUp(next) ==
  /\ Fetch
  /\ IF Len(store.cutoffs) = 1
       THEN /\ species' = {model.code}
            /\ made' = made \cup {"lists"}
            /\ Goto(next)
       ELSE MY_ERROR /\ UNCHANGED <<species, made>>
  /\ UNCHANGED <<program, model, cells, pointers, store, work, refreshes>>

(***************************************************************************)
(* The loop over the spacings: the cluster, its lists, then the results.   *)
(***************************************************************************)
Scaled(sites, spacing) == [a \in DOMAIN sites |-> [n \in 1 .. 3 |-> spacing * sites[a][n]]]

\* What the program reads where the Model's cutoffs were when it fetched the pointer.
Cutoff == IF fetched.id = store.id THEN store.cutoffs[1] ELSE 0

NextSpacing(after) ==
  /\ IF k < Len(Spacings)
       THEN /\ k' = k + 1
            /\ coords' = Scaled(create_FCC_cluster(cells), Spacings[k + 1])
            /\ nl' = fcc_cluster_neighborlist(FALSE, coords', Cutoff + Cutpad)
            /\ Goto("compute")
       ELSE Goto(after) /\ UNCHANGED work
  /\ UNCHANGED <<program, model, cells, api, refreshes>>

Required ==
  ArgumentsOfTheAPI \cup {"GetNeighborList"}
  \cup {a \in Arguments : model.arguments[a] = "required"}
  \cup IF model.ProcessDEDrTerm = "required" THEN {"ProcessDEDrTerm"} ELSE {}

\* The Model asks for every list of every particle, with the cutoffs it has now.
Asked(index, i) == get_cluster_neigh(nl, Len(store.cutoffs), store.cutoffs[1], index, i)
IsAnswered ==
  \A i \in Particles, index \in 0 .. Len(store.cutoffs) - 1 : ~Asked(index, i).error

\* A Model fails that gets no list; it may fail for reasons of its own.
Compute(next) ==
  /\ \E error \in BOOLEAN :
       /\ ~(Required \subseteq pointers) \/ ~IsAnswered => error
       /\ GotoIf(~error, next)
  /\ UNCHANGED <<program, model, cells, api, work, refreshes>>

(***************************************************************************)
(* ex_test_Ar_fcc_cluster.c                                                *)
(***************************************************************************)
CBegin == At("c", "begin") /\ Create("routines")
Check(condition, next) ==
  GotoIf(condition, next) /\ UNCHANGED <<program, model, cells, api, work, refreshes>>
CRoutines == At("c", "routines") /\ Check(CanBeCalled, "create arguments")
CCreateArguments == At("c", "create arguments") /\ CreateArguments("arguments")
CArguments == At("c", "arguments") /\ Check(ArgumentsFit(model.arguments), "callbacks")
CCallbacks == At("c", "callbacks") /\ Check(CallbacksFit, "pointers")
CSetPointers == At("c", "pointers") /\ SetPointers("set up")
CSetUp == At("c", "set up") /\ SetUp("loop")
CNextSpacing == At("c", "loop") /\ NextSpacing("destroy")
CCompute == At("c", "compute") /\ Compute("loop")

\* Fault: the Model is destroyed and its ComputeArguments object is not.
ModelAndLists == {"model", "lists"}

Destroyed == {"arguments", "model", "lists"}

\* The Model's own routine may fail to destroy the arguments.
Return ==
  /\ IF model.unmakesArguments
       THEN outcome' = "returned" /\ pc' = pc /\ made' = made \ Destroyed
       ELSE MY_ERROR /\ UNCHANGED made
  /\ UNCHANGED <<program, model, cells, pointers, store, fetched, species, work, refreshes>>

CDestroy == At("c", "destroy") /\ Return

(***************************************************************************)
(* ex_test_Ar_fcc_cluster_cpp.cpp                                          *)
(***************************************************************************)
CppBegin == At("cpp", "begin") /\ Create("routines")
CppRoutines == At("cpp", "routines") /\ Check(CanBeCalled, "create arguments")
CppCreateArguments == At("cpp", "create arguments") /\ CreateArguments("arguments")
CppArguments == At("cpp", "arguments") /\ Check(ArgumentsFit(model.arguments), "callbacks")
CppCallbacks == At("cpp", "callbacks") /\ Check(CallbacksFit, "extension")
CppExtension == At("cpp", "extension") /\ Check(model.Extension # "fails", "pointers")
CppSetPointers == At("cpp", "pointers") /\ SetPointers("set up")
CppSetUp == At("cpp", "set up") /\ SetUp("loop")
\* Fault: the parameter is changed after every loop.
AfterEveryLoop == "parameter"

AfterLoop == IF refreshes = 0 THEN "parameter" ELSE "write"

CppNextSpacing == At("cpp", "loop") /\ NextSpacing(AfterLoop)
CppCompute == At("cpp", "compute") /\ Compute("loop")

\* The Model computes its cutoffs anew, where they were or elsewhere.
Refreshed ==
  [id |-> IF model.Refresh = "moves" THEN store.id + 1 ELSE store.id, cutoffs |-> model.newCutoffs]

\* Fault: the cutoffs are not asked for again.
KeepsCutoffs == UNCHANGED fetched

\* GetNeighborListPointers, after the refresh.
FetchAgain == fetched' = [number |-> Len(store'.cutoffs), id |-> store'.id]

\* The parameter in the middle, if there are any, and if it is not an integer.
CppSetParameter ==
  /\ At("cpp", "parameter")
  /\ LET n == Len(model.parameters)
     IN IF n = 0 THEN Goto("destroy") /\ UNCHANGED <<store, fetched, k, refreshes>>
        ELSE IF model.parameters[n \div 2 + 1] = "Integer"
          THEN Goto("write") /\ UNCHANGED <<store, fetched, k, refreshes>>
        ELSE IF model.Refresh = "fails" THEN MY_ERROR /\ UNCHANGED <<store, fetched, k, refreshes>>
        ELSE /\ store' = Refreshed
             /\ FetchAgain
             /\ k' = 0 /\ refreshes' = refreshes + 1
             /\ Goto("loop")
  /\ UNCHANGED <<program, model, cells, made, pointers, species, coords, nl>>

CppWriteParameterizedModel ==
  At("cpp", "write") /\ Check(model.WriteParameterizedModel # "fails", "destroy")

CppDestroy == At("cpp", "destroy") /\ Return

Next ==
  \/ CBegin \/ CRoutines \/ CCreateArguments \/ CArguments \/ CCallbacks \/ CSetPointers \/ CSetUp
  \/ CNextSpacing \/ CCompute \/ CDestroy
  \/ CppBegin \/ CppRoutines \/ CppCreateArguments \/ CppArguments \/ CppCallbacks \/ CppExtension
  \/ CppSetPointers \/ CppSetUp \/ CppNextSpacing \/ CppCompute
  \/ CppSetParameter \/ CppWriteParameterizedModel \/ CppDestroy

Spec == Init /\ [][Next]_vars

(***************************************************************************)
(* Properties.                                                             *)
(***************************************************************************)
TypeOK ==
  /\ program \in {"c", "cpp"} /\ model \in Models /\ cells \in Sizes
  /\ outcome \in {"running", "exited", "returned"}
  /\ made \subseteq Objects /\ pointers \subseteq Given
  /\ species \subseteq {model.code}
  /\ store.cutoffs \in Seq(Nat) /\ refreshes \in 0 .. 1 /\ k \in 0 .. Len(Spacings)

\* The cluster that create_FCC_cluster writes, cells, faces, edges and corner one after the
\* other with one counter, is the fcc lattice of the cube: no site is missing, none is there
\* twice, and the arrays, of NCLUSTERPARTS particles, are filled and not exceeded.
ClusterIsTheLattice ==
  pc = "compute" =>
    /\ IsInjective(coords)
    /\ {coords[a] : a \in DOMAIN coords} =
         {[n \in 1 .. 3 |-> Spacings[k] * p[n]] :
            p \in {q \in [1 .. 3 -> 0 .. 2 * cells] : (q[1] + q[2] + q[3]) % 2 = 0}}
    /\ Len(coords) = NClusterParts(cells)

\* When a program calls Compute, the Model has all that it may not do without: the checks of
\* main leave no required argument or callback that the program does not set, and the codes of
\* the particles are those of the Model for Ar.  It has one neighbor list, unless a
\* refresh made it more.
ComputeHasWhatTheModelNeeds ==
  pc = "compute" =>
    /\ Required \subseteq pointers /\ species = {model.code}
    /\ {"model", "arguments", "lists"} \subseteq made
    /\ Len(store.cutoffs) = 1 \/ refreshes = 1

\* As long as the Model has one neighbor list, each of its calls of get_cluster_neigh is answered,
\* with every other particle within the cutoff the Model has now: also after a refresh gave it
\* another, and at each spacing, with lists as long as those of the spacing before.
NeighborsAreComplete ==
  pc = "compute" /\ Len(store.cutoffs) = 1 =>
    /\ fetched.id = store.id
    /\ \A i \in Particles :
         /\ ~Asked(0, i).error
         /\ \A j \in Particles \ {i} :
              R2(coords, i, j) <= Square(2 * store.cutoffs[1]) =>
                \E a \in DOMAIN Asked(0, i).neighbors : Asked(0, i).neighbors[a] = j

\* A program that returns from main has destroyed all that it created, and a ComputeArguments
\* object never outlives its Model.
NothingIsLeft ==
  /\ outcome = "returned" => made = {}
  /\ made \cap {"arguments", "lists"} # {} => "model" \in made
=============================================================================
