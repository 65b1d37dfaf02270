----------------------------- MODULE PairModels -----------------------------
(***************************************************************************)
(* The Compute routines of the example models in C and C++: the Morse      *)
(* model driver (ex_model_driver_P_Morse.c), ex_model_Ar_P_Morse_07C with  *)
(* and without extensions, ex_model_Ar_P_Morse_MultiCutoff and             *)
(* LennardJones_Ar.  The driver has parameters that a simulator may set.   *)
(*                                                                         *)
(* Each model has a file of its own and each routine in it an action; what *)
(* they do alike is stated once.  Particles are on a line and have whole   *)
(* coordinates; a potential is a table over the squared distance, for each *)
(* neighbor list of the model.  Results are counted in halves.  The create *)
(* routines are in ModelRoutines.                                          *)
(***************************************************************************)
EXTENDS Integers, Sequences, FiniteSets, FiniteSetsExt

CONSTANTS
  Configurations,   \* [n, x, contributing, known, skin], see IsConfiguration
  Cutoffs,          \* of each model, one for each neighbor list
  NewCutoffs,       \* what a simulator sets the driver's parameter to
  Phi, DPhiByR, D2Phi,  \* [list][squared distance]
  MaxSets           \* bound: parameters set

Names == {"driver", "07C", "extensions", "multi", "lj"}

\* No two particles are at the same place; the species of all are known to the model or
\* not; the simulator's lists go beyond the cutoffs or not.
IsConfiguration(c) ==
  /\ c.n \in Nat \ {0}
  /\ c.x \in [0 .. c.n - 1 -> Int] /\ IsInjective(c.x)
  /\ c.contributing \in [0 .. c.n - 1 -> BOOLEAN]
  /\ c.known \in BOOLEAN /\ c.skin \in BOOLEAN

PairModelsAssumption ==
  /\ \A c \in Configurations : IsConfiguration(c)
  /\ DOMAIN Cutoffs = Names /\ \A m \in Names : Cutoffs[m] \in Seq(Nat)
  /\ NewCutoffs \subseteq Nat /\ MaxSets \in Nat

VARIABLES
  model, config, request,
  buffer,      \* the driver's: cutoff, cutsq, influenceDistance, the cutoff that shift is of
  file,        \* the cutoff in the parameter file
  sets, refreshed,
  pc, list, i,
  local,       \* cutsq and shift, and the cutoff of the potential, of each list
  energy, particleEnergy, forces, terms, terms2,
  asked,       \* the extensions an Extension routine told of
  created      \* ghost: the cutoff the model was created with

results == <<energy, particleEnergy, forces, terms, terms2>>
progress == <<pc, list, i, local>>
vars == <<model, config, request, buffer, file, sets, refreshed, progress, results, asked, created>>

Sum(op(_), S) == MapThenSumSet(op, S)
Square(n) == n * n
Particles == 0 .. config.n - 1
R2(j, k) == Square(config.x[k] - config.x[j])
Has(output) == output \in request

\* Fault: everything is computed.
ComputesAll(output) == TRUE

\* comp_energy, comp_force and so on: the pointer or the callback is there.
Computes(output) == Has(output)

(***************************************************************************)
(* What a simulator may ask a model for (ComputeArgumentsCreate).          *)
(***************************************************************************)
DriverOutputs == [required |-> {}, optional |-> {"energy", "forces", "particleEnergy"}]
Morse07COutputs ==
  [required |-> {}, optional |-> {"energy", "forces", "particleEnergy", "dEdr", "d2Edr2"}]
ExtensionsOutputs == Morse07COutputs
MultiOutputs == Morse07COutputs
LJOutputs == [required |-> {"energy", "forces"}, optional |-> {}]

Outputs(m) ==
  CASE m = "driver" -> DriverOutputs
    [] m = "07C" -> Morse07COutputs
    [] m = "extensions" -> ExtensionsOutputs
    [] m = "multi" -> MultiOutputs
    [] OTHER -> LJOutputs

Init ==
  /\ model \in Names /\ config \in Configurations
  /\ request \in {Outputs(model).required \cup s : s \in SUBSET Outputs(model).optional}
  /\ created = Cutoffs[model][1]
  /\ buffer = [cutoff |-> created, cutsq |-> Square(created),
               influenceDistance |-> created, shift |-> created]
  /\ file = created
  /\ sets = 0 /\ refreshed = TRUE
  /\ pc = "idle" /\ list = 1 /\ i = 0 /\ local = <<>>
  /\ energy = 0 /\ terms = {} /\ terms2 = {}
  /\ particleEnergy = [k \in Particles |-> 0] /\ forces = [k \in Particles |-> 0]
  /\ asked = {}

(***************************************************************************)
(* The driver's parameters.                                                *)
(***************************************************************************)
Idle == pc = "idle"

SetCutoff(value) ==
  /\ model = "driver" /\ Idle /\ sets < MaxSets
  /\ buffer' = [buffer EXCEPT !.cutoff = value]
  /\ sets' = sets + 1 /\ refreshed' = FALSE
  /\ UNCHANGED <<model, config, request, file, progress, results, asked, created>>

\* cutsq stays that of the cutoff the model was created with.
Refreshed(b) == [b EXCEPT !.influenceDistance = b.cutoff, !.shift = b.cutoff]

DriverRefresh ==
  /\ model = "driver" /\ Idle
  /\ buffer' = Refreshed(buffer)
  /\ refreshed' = TRUE
  /\ UNCHANGED <<model, config, request, file, sets, progress, results, asked, created>>

DriverWriteParameterizedModel ==
  /\ model = "driver" /\ Idle
  /\ file' = buffer.cutoff
  /\ UNCHANGED <<model, config, request, buffer, sets, refreshed, progress, results, asked, created>>

\* The model is destroyed, its buffer is freed, and it is created again from a file.
DriverDestroy ==
  /\ model = "driver" /\ Idle
  /\ buffer' = [cutoff |-> file, cutsq |-> Square(file), influenceDistance |-> file, shift |-> file]
  /\ created' = file
  /\ refreshed' = TRUE
  /\ UNCHANGED <<model, config, request, file, sets, progress, results, asked>>

\* It tells that it knows the extension with which it is asked for its extensions, and
\* another one, that it does not know.
Extension(ID) ==
  /\ model = "extensions" /\ Idle
  /\ asked' = IF ID = "KIM_SUPPORTED_EXTENSIONS" THEN {ID, "Fake_Extension"} ELSE asked
  /\ UNCHANGED <<model, config, request, buffer, file, sets, refreshed, progress, results, created>>

(***************************************************************************)
(* One pair of particles.                                                  *)
(***************************************************************************)
\* A model with parameters keeps the square of its cutoff and its shift, LennardJones_Ar
\* has no shift, and the others compute them when they are called.
Stored == [cutsq |-> buffer.cutsq, cutoff |-> buffer.influenceDistance, shift |-> buffer.shift]
Local(cutoff) == [cutsq |-> Square(cutoff), cutoff |-> cutoff, shift |-> cutoff]

ShiftOf(l) == IF model = "lj" THEN 0 ELSE Phi[l][Square(local[l].shift)]
Exceeds(l, r2) == model # "lj" /\ r2 > Square(local[l].cutoff)
calc_phi(l, r2) == IF Exceeds(l, r2) THEN 0 ELSE Phi[l][r2] - ShiftOf(l)

\* Fault: the derivative is that of the potential beyond the cutoff, too.
calc_phi_dphi_beyond(l, r2) == DPhiByR[l][r2]

calc_phi_dphi(l, r2) == IF Exceeds(l, r2) THEN 0 ELSE DPhiByR[l][r2]

\* Fault: the first derivative is passed as the second.
calc_phi_d2phi_first(l, r2) == IF Exceeds(l, r2) THEN 0 ELSE DPhiByR[l][r2]

calc_phi_d2phi(l, r2) == IF Exceeds(l, r2) THEN 0 ELSE D2Phi[l][r2]

\* The simulator's list: all others within the list's cutoff, as published, or more
NeighborList(l, j) ==
  LET cutoff == IF model = "driver" THEN buffer.cutoff ELSE Cutoffs[model][l]
  IN  {k \in Particles \ {j} : config.skin \/ R2(j, k) <= Square(cutoff)}

\* Fault: half of a pair is left out though its other half is not computed.
IsComputedOnce(j, k) == ~(k < j)

\* "short-circuit half-list"
IsComputed(j, k) == ~(config.contributing[k] /\ k < j)

\* How much of a pair of a particle with k counts for it, in halves.  The driver
\* goes over the whole lists.
Share(k) == IF model # "driver" /\ config.contributing[k] THEN 2 ELSE 1

ParticleShare(j, k, p) ==
  IF p = j \/ (p = k /\ model # "driver" /\ config.contributing[k]) THEN 1 ELSE 0

PairsOf(j) ==
  {k \in NeighborList(list, j) :
     (model = "driver" \/ IsComputed(j, k)) /\ R2(j, k) < local[list].cutsq}

\* The pairs of particle i that have begun are added to the energies and passed to the
\* callbacks, those that are complete to the forces.
AddPairs(begun, complete) ==
  LET phi(k) == calc_phi(list, R2(i, k))
      dEidr(k) == Share(k) * calc_phi_dphi(list, R2(i, k))
      sign(k, p) == IF p = i THEN 1 ELSE IF p = k THEN -1 ELSE 0
      force(k, p) == dEidr(k) * (config.x[k] - config.x[i]) * sign(k, p)
      passed(output, value(_)) ==
        IF Computes(output) THEN {<<list, i, k, value(k)>> : k \in begun} ELSE {}
  IN  /\ energy' = IF Computes("energy") THEN energy + Sum(LAMBDA k : Share(k) * phi(k), begun) ELSE energy
      /\ particleEnergy' =
           IF Computes("particleEnergy")
           THEN [p \in Particles |-> particleEnergy[p]
                   + Sum(LAMBDA k : ParticleShare(i, k, p) * phi(k), begun)]
           ELSE particleEnergy
      /\ forces' =
           IF Computes("forces")
           THEN [p \in Particles |-> forces[p] + Sum(LAMBDA k : force(k, p), complete)]
           ELSE forces
      /\ terms' = terms \cup passed("dEdr", dEidr)
      /\ terms2' = terms2 \cup passed("d2Edr2", LAMBDA k : Share(k) * calc_phi_d2phi(list, R2(i, k)))

(***************************************************************************)
(* A computation: what was asked for is set to zero, then each list's      *)
(* particles are gone over.                                                *)
(***************************************************************************)
\* A model may refuse particles of a species it does not know.
Begins(m, locals, refuses) ==
  /\ model = m /\ Idle /\ refreshed
  /\ local' = locals
  /\ list' = 1 /\ i' = 0
  /\ IF refuses
     THEN pc' = "error" /\ UNCHANGED results
     ELSE /\ pc' = "loop"
          /\ energy' = 0 /\ terms' = {} /\ terms2' = {}
          /\ particleEnergy' = [k \in Particles |-> 0] /\ forces' = [k \in Particles |-> 0]
  /\ UNCHANGED <<model, config, request, buffer, file, sets, refreshed, asked, created>>

DriverBegins == Begins("driver", <<Stored>>, ~config.known)

\* Fault: the species are not looked at.
Morse07CBeginsAny == Begins("07C", <<Local(Cutoffs["07C"][1])>>, FALSE)

Morse07CBegins == Begins("07C", <<Local(Cutoffs["07C"][1])>>, ~config.known)
ExtensionsBegins == Begins("extensions", <<Local(Cutoffs["extensions"][1])>>, ~config.known)
MultiBegins ==
  Begins("multi", <<Local(Cutoffs["multi"][1]), Local(Cutoffs["multi"][2])>>, ~config.known)

LJBegins == Begins("lj", <<Local(Cutoffs["lj"][1])>>, FALSE)

Steps(m) ==
  /\ model = m /\ pc = "loop" /\ i \in Particles
  /\ UNCHANGED <<model, config, request, buffer, file, sets, refreshed, list, local, asked, created>>

\* Particle i is computed, or not if it does not contribute.
ComputesParticle(m) ==
  /\ Steps(m)
  /\ IF config.contributing[i] THEN AddPairs(PairsOf(i), PairsOf(i)) ELSE UNCHANGED results
  /\ i' = i + 1
  /\ UNCHANGED pc

\* The simulator has no neighbors, or its callback refuses the pair of i and k.
NeighborsFail(m) ==
  /\ Steps(m) /\ config.contributing[i]
  /\ pc' = "error"
  /\ UNCHANGED <<results, i>>

CallbackFails(m) ==
  /\ Steps(m) /\ config.contributing[i]
  /\ \E k \in PairsOf(i) :
       /\ Has("dEdr") \/ Has("d2Edr2")
       /\ AddPairs({q \in PairsOf(i) : q <= k}, {q \in PairsOf(i) : q < k})
  /\ pc' = "error"
  /\ UNCHANGED i

DriverParticle == ComputesParticle("driver") \/ NeighborsFail("driver")
Morse07CParticle == ComputesParticle("07C") \/ NeighborsFail("07C") \/ CallbackFails("07C")
ExtensionsParticle ==
  ComputesParticle("extensions") \/ NeighborsFail("extensions") \/ CallbackFails("extensions")
MultiParticle == ComputesParticle("multi") \/ NeighborsFail("multi") \/ CallbackFails("multi")

\* This one does not look at the error, and goes on with the neighbors it has: none yet,
\* or those of a particle before.
LJParticle ==
  \/ ComputesParticle("lj")
  \/ /\ Steps("lj") /\ config.contributing[i]
     /\ pc' = "undefined"
     /\ UNCHANGED <<results, i>>

\* The next neighbor list, of the model with two of them
MultiNextList ==
  /\ model = "multi" /\ pc = "loop" /\ i = config.n /\ list < Len(local)
  /\ list' = list + 1 /\ i' = 0
  /\ UNCHANGED <<model, config, request, buffer, file, sets, refreshed, pc, local, results, asked, created>>

Returns ==
  /\ pc = "loop" /\ i = config.n /\ list = Len(local)
  /\ pc' = "done"
  /\ UNCHANGED <<model, config, request, buffer, file, sets, refreshed, list, i, local, results, asked, created>>

\* The simulator goes on.
Again ==
  /\ pc \in {"done", "error"}
  /\ pc' = "idle"
  /\ UNCHANGED <<model, config, request, buffer, file, sets, refreshed, list, i, local, results, asked, created>>

Next ==
  \/ \E value \in NewCutoffs : SetCutoff(value)
  \/ DriverRefresh \/ DriverWriteParameterizedModel \/ DriverDestroy
  \/ \E ID \in {"KIM_SUPPORTED_EXTENSIONS", "Fake_Extension"} : Extension(ID)
  \/ DriverBegins \/ Morse07CBegins \/ ExtensionsBegins \/ MultiBegins \/ LJBegins
  \/ DriverParticle \/ Morse07CParticle \/ ExtensionsParticle \/ MultiParticle \/ LJParticle
  \/ MultiNextList \/ Returns \/ Again

Spec == Init /\ [][Next]_vars

-----------------------------------------------------------------------------
\* Nothing is written that was not asked for, and what was is of the particles.
TypeOK ==
  /\ pc \in {"idle", "loop", "done", "error", "undefined"}
  /\ list \in 1 .. 2 /\ i \in 0 .. config.n
  /\ Outputs(model).required \subseteq request
  /\ ~Has("energy") => energy = 0
  /\ ~Has("dEdr") => terms = {}
  /\ DOMAIN particleEnergy = Particles /\ DOMAIN forces = Particles

\* All ordered pairs, of each list, of a contributing particle and another one, that are
\* nearer than the cutoff the model was created with and not farther than the one in use
OrderedPairs ==
  {p \in (1 .. Len(local)) \X Particles \X Particles :
     /\ p[2] # p[3] /\ config.contributing[p[2]]
     /\ R2(p[2], p[3]) <= Square(local[p[1]].cutoff)
     /\ R2(p[2], p[3]) < IF model = "driver" THEN Square(created) ELSE Square(local[p[1]].cutoff)}

ReferencePhi(p) ==
  LET cutoff == IF model = "driver" THEN buffer.cutoff ELSE Cutoffs[model][p[1]]
      shift == IF model = "lj" THEN 0 ELSE Phi[p[1]][Square(cutoff)]
  IN  Phi[p[1]][R2(p[2], p[3])] - shift

Done(output) == pc = "done" /\ Has(output)

\* Whatever else is asked for, the energy is one half of the potential over all ordered
\* pairs whose first particle contributes, whether a model goes over whole lists or
\* leaves out the second half of each pair; the particles' energies add up to it,
\* and those that do not contribute have none.
EnergyIsOfAllPairs ==
  /\ Done("energy") => energy = Sum(ReferencePhi, OrderedPairs)
  /\ Done("particleEnergy") =>
       /\ Sum(ReferencePhi, OrderedPairs) = Sum(LAMBDA k : particleEnergy[k], Particles)
       /\ \A k \in Particles : ~config.contributing[k] => particleEnergy[k] = 0

\* The forces are the negative derivative of that energy, on the particles that do not
\* contribute too, and the terms given to the simulator one by one make them up.
ForcesAreOfTheEnergy ==
  LET first(p) == DPhiByR[p[1]][R2(p[2], p[3])] * (config.x[p[3]] - config.x[p[2]])
      of(z) == z[4] * (config.x[z[3]] - config.x[z[2]])
      made(op(_), S, k) == Sum(op, {p \in S : p[2] = k}) - Sum(op, {p \in S : p[3] = k})
  IN  \A k \in Particles :
        /\ Done("forces") => forces[k] = made(first, OrderedPairs, k)
        /\ Done("dEdr") => made(of, terms, k) = made(first, OrderedPairs, k)

\* No second term is passed twice or left out.
SecondTermsAreOfTheEnergy ==
  Done("d2Edr2") =>
    Sum(LAMBDA z : z[4], terms2) = Sum(LAMBDA p : D2Phi[p[1]][R2(p[2], p[3])], OrderedPairs)

\* Results are not given for particles of which the model does not know the energy, nor
\* after an error of the simulator (LennardJones_Ar does both).
ErrorsAreReported ==
  /\ pc = "done" => config.known \/ model = "lj"
  /\ pc = "undefined" => model = "lj"

\* "shifted to have zero energy at the cutoff radius" (ex_model_driver_P_Morse.c:32),
\* where "cutoff" is the "pair cutoff distance" (:586): the energy is that of all pairs
\* within the parameter's value.
\* (The code does not keep this: README, "What the documentation says and the code does not do".)
CutoffIsTheParameter ==
  Done("energy") /\ model = "driver" =>
    energy = Sum(ReferencePhi,
                 {p \in {1} \X Particles \X Particles :
                    /\ p[2] # p[3] /\ config.contributing[p[2]]
                    /\ R2(p[2], p[3]) < Square(buffer.cutoff)})
=============================================================================
