--------------------------- MODULE LennardJones612 ---------------------------
(***************************************************************************)
(* The Compute routine of the Lennard-Jones model driver                   *)
(* (LennardJones612Implementation.cpp and .hpp): threads of a simulator    *)
(* that compute on one model, each with a compute arguments object and a   *)
(* configuration of its own.                                               *)
(*                                                                         *)
(* Particles are on a line and have whole coordinates.  The potential and  *)
(* its derivative are tables of whole numbers over the squared distance,   *)
(* for each pair of species.  Energies, forces and virials are counted in  *)
(* quarters, since the code halves a term twice.  A term of a particle     *)
(* with itself is no number (singular).                                    *)
(***************************************************************************)
EXTENDS Integers, FiniteSets, FiniteSetsExt

CONSTANTS
  Threads,
  Configurations,  \* [Threads -> set of configurations], see IsConfiguration
  Requests,        \* the sets of outputs a simulator may ask for
  Species,
  CutoffSq,        \* [Species -> [Species -> Nat]], cutoffsSq2D_
  Phi,             \* Phi[s][u][r2], without shift
  DPhiByR          \* DPhiByR[s][u][r2]

\* A configuration has n particles 0, 1, ..., with their coordinates (x), species and
\* whether they contribute; no two are at the same place.
IsConfiguration(c) ==
  /\ c.n \in Nat
  /\ c.x \in [0..c.n - 1 -> Int] /\ IsInjective(c.x)
  /\ c.species \in [0..c.n - 1 -> Species]
  /\ c.contributing \in [0..c.n - 1 -> BOOLEAN]

ConfigurationsAssumption == \A t \in Threads : \A c \in Configurations[t] : IsConfiguration(c)

\* Of the cutoffs one is the greatest.
CutoffsAssumption ==
  /\ \A s, u \in Species : CutoffSq[s][u] \in Nat
  /\ \E s, u \in Species : \A q, v \in Species : CutoffSq[q][v] <= CutoffSq[s][u]

VARIABLES
  cachedNumberOfParticles,   \* a member of the model
  isShift,                   \* 1 == shift_
  config, request,           \* the arguments of each thread
  pc, ii,
  neighbors,                 \* the list held, n1atom up to numnei
  flags,                     \* the template arguments of the Compute it runs
  energy, particleEnergy, forces, virial, particleVirial,
  terms,                     \* the calls of ProcessDEDrTerm: i, j and dE/dr divided by r
  singular,                  \* particles with a term of their own: 1.0 / rij2 for rij2 = 0
  unlisted,                  \* history: particles whose call for a list failed
  overwritten                \* history: threads for which another one changed the model's number

arguments == <<isShift, config, request>>
outputs == <<energy, particleEnergy, forces, virial, particleVirial, terms, singular>>
vars == <<cachedNumberOfParticles, arguments, pc, ii, neighbors, flags, outputs, unlisted, overwritten>>

Sum(op(_), S) == MapThenSumSet(op, S)
Particles(c) == 0..c.n - 1

(***************************************************************************)
(* The dispatch.                                                           *)
(***************************************************************************)
Flags == {"shift", "particleVirial", "virial", "particleEnergy", "forces", "energy", "d2Edr2", "dEdr"}
Weight == [shift |-> 1, particleVirial |-> 2, virial |-> 4, particleEnergy |-> 8,
           forces |-> 16, energy |-> 32, d2Edr2 |-> 64, dEdr |-> 128]

GetComputeIndex(asked) == Sum(LAMBDA f : Weight[f], asked)

\* The case of the generated switch statement: its loops run over the flags from
\* the last one of Weight to the first.
Dispatch(index) == {f \in Flags : (index \div Weight[f]) % 2 = 1}

(***************************************************************************)
(* One pair of particles.                                                  *)
(***************************************************************************)
R2(c, i, j) == (c.x[j] - c.x[i]) * (c.x[j] - c.x[i])
IsWithin(c, i, j) == R2(c, i, j) <= CutoffSq[c.species[i]][c.species[j]]
InfluenceSq == CHOOSE m \in {CutoffSq[s][u] : s, u \in Species} : \A s, u \in Species : CutoffSq[s][u] <= m

\* The simulator's neighbour list: all the others within the influence distance
NeighborList(c, i) == {j \in Particles(c) : j # i /\ R2(c, i, j) <= InfluenceSq}

\* Fault: the half-list leaves out the neighbours that do not contribute, too.
IsComputedHalf(c, i, j) == ~(j < i)

\* The effective half-list
IsComputed(c, i, j) == ~(c.contributing[j] /\ j < i)

\* A term counts for half when its neighbour does not contribute.
Share(c, j) == IF c.contributing[j] THEN 4 ELSE 2

ParticleShare(c, i, j, k) == IF k = i \/ (k = j /\ c.contributing[j]) THEN 2 ELSE 0

PhiOf(c, shifted, i, j) ==
  LET s == c.species[i]  u == c.species[j]
  IN  Phi[s][u][R2(c, i, j)] - IF shifted THEN Phi[s][u][CutoffSq[s][u]] ELSE 0
DEidrByR(c, i, j) == (Share(c, j) * DPhiByR[c.species[i]][c.species[j]][R2(c, i, j)]) \div 4

Force(c, i, j, k) ==
  4 * DEidrByR(c, i, j) * (c.x[j] - c.x[i]) * (IF k = i THEN 1 ELSE IF k = j THEN -1 ELSE 0)

VirialTerm(c, i, j) == 4 * DEidrByR(c, i, j) * R2(c, i, j)
ParticleVirialTerm(c, i, j, k) == IF k \in {i, j} THEN 2 * DEidrByR(c, i, j) * R2(c, i, j) ELSE 0

(***************************************************************************)
(* Compute.                                                                *)
(***************************************************************************)
Nothing == [t \in Threads |-> 0]
NoParticles == [t \in Threads |-> [k \in Particles(config[t]) |-> 0]]

Init ==
  /\ config \in {f \in [Threads -> UNION {Configurations[t] : t \in Threads}] :
                   \A t \in Threads : f[t] \in Configurations[t]}
  /\ request \in [Threads -> Requests]
  /\ isShift \in BOOLEAN
  /\ cachedNumberOfParticles = 0
  /\ pc = [t \in Threads |-> "idle"]
  /\ ii = Nothing
  /\ neighbors = [t \in Threads |-> {}]
  /\ flags = [t \in Threads |-> {}]
  /\ energy = Nothing /\ virial = Nothing
  /\ particleEnergy = NoParticles /\ forces = NoParticles /\ particleVirial = NoParticles
  /\ terms = [t \in Threads |-> {}]
  /\ singular = [t \in Threads |-> {}]
  /\ unlisted = [t \in Threads |-> {}]
  /\ overwritten = {}

Goto(t, label) == pc' = [pc EXCEPT ![t] = label]

IsComputing(t) == pc[t] \notin {"idle", "done", "error"}

SetComputeMutableValues(t) ==
  /\ pc[t] = "idle"
  /\ cachedNumberOfParticles' = config[t].n
  /\ overwritten' = overwritten \cup {u \in Threads : IsComputing(u) /\ config[u].n # config[t].n}
  /\ flags' = [flags EXCEPT ![t] =
       Dispatch(GetComputeIndex(request[t] \cup IF isShift THEN {"shift"} ELSE {}))]
  /\ Goto(t, IF flags'[t] \subseteq {"shift"} THEN "done" ELSE "initialize")
  /\ UNCHANGED <<arguments, ii, neighbors, outputs, unlisted>>

\* The outputs are set to zero up to the number the model has; beyond those of the
\* thread's own arrays that is a write outside of them.
Initialize(t) ==
  /\ pc[t] = "initialize"
  /\ Goto(t, IF cachedNumberOfParticles > config[t].n
                  /\ flags[t] \cap {"particleEnergy", "forces", "particleVirial"} # {}
             THEN "outside" ELSE "loop")
  /\ ii' = [ii EXCEPT ![t] = 0]
  /\ neighbors' = [neighbors EXCEPT ![t] = {}]
  /\ UNCHANGED <<cachedNumberOfParticles, arguments, flags, outputs, unlisted, overwritten>>

\* Fault: the loop runs to the number of particles, and not to the last of them.
IsInLoopToN(i) == i <= cachedNumberOfParticles

\* The bound of the loop is the member of the model.
IsInLoop(i) == i < cachedNumberOfParticles

\* The contributing flag of a particle the thread does not have is read outside of its
\* array.
ReadOutside(t) ==
  /\ pc[t] = "loop" /\ IsInLoop(ii[t]) /\ ii[t] >= config[t].n
  /\ Goto(t, "outside")
  /\ UNCHANGED <<cachedNumberOfParticles, arguments, ii, neighbors, flags, outputs, unlisted, overwritten>>

SkipParticle(t) ==
  /\ pc[t] = "loop" /\ IsInLoop(ii[t]) /\ ii[t] < config[t].n
  /\ ~config[t].contributing[ii[t]]
  /\ ii' = [ii EXCEPT ![t] = @ + 1]
  /\ UNCHANGED <<cachedNumberOfParticles, arguments, pc, neighbors, flags, outputs, unlisted, overwritten>>

\* The error of a simulator's routine is not looked at: the list of an earlier particle
\* is still held then, or nothing of it if the routine has set the number to zero.
GetNeighborList(t) ==
  /\ pc[t] = "loop" /\ IsInLoop(ii[t]) /\ ii[t] < config[t].n
  /\ config[t].contributing[ii[t]]
  /\ \/ /\ neighbors' = [neighbors EXCEPT ![t] = NeighborList(config[t], ii[t])]
        /\ UNCHANGED unlisted
     \/ /\ \E kept \in {{}, neighbors[t]} : neighbors' = [neighbors EXCEPT ![t] = kept]
        /\ unlisted' = [unlisted EXCEPT ![t] = @ \cup {ii[t]}]
  /\ Goto(t, "pairs")
  /\ UNCHANGED <<cachedNumberOfParticles, arguments, ii, flags, outputs, overwritten>>

\* The terms of particle i up to the one whose callback fails, with what was added for
\* that one before the callback was called.
Added(t, i, whole, begun) ==
  LET c == config[t]
      has(f, x) == IF f \in flags[t] THEN x ELSE 0
      over(op(_), S) == Sum(op, S \ {i})
  IN  /\ energy' = [energy EXCEPT ![t] = @ +
           has("energy", over(LAMBDA j : Share(c, j) * PhiOf(c, "shift" \in flags[t], i, j), begun))]
      /\ particleEnergy' = [particleEnergy EXCEPT ![t] = [k \in Particles(c) |-> @[k] +
           has("particleEnergy",
               over(LAMBDA j : ParticleShare(c, i, j, k) * PhiOf(c, "shift" \in flags[t], i, j), begun))]]
      /\ forces' = [forces EXCEPT ![t] = [k \in Particles(c) |-> @[k] +
           has("forces", over(LAMBDA j : Force(c, i, j, k), begun))]]
      /\ terms' = [terms EXCEPT ![t] = @ \cup
           IF "dEdr" \in flags[t] THEN {<<i, j, DEidrByR(c, i, j)>> : j \in begun \ {i}} ELSE {}]
      /\ singular' = [singular EXCEPT ![t] = @ \cup (begun \cap {i})]
      /\ virial' = [virial EXCEPT ![t] = @ + has("virial", over(LAMBDA j : VirialTerm(c, i, j), whole))]
      /\ particleVirial' = [particleVirial EXCEPT ![t] = [k \in Particles(c) |-> @[k] +
           has("particleVirial", over(LAMBDA j : ParticleVirialTerm(c, i, j, k), whole))]]

PairsOf(c, i, list) == {j \in list : IsComputed(c, i, j) /\ IsWithin(c, i, j)}

\* The loop over the list
ComputeParticle(t) ==
  LET pairs == PairsOf(config[t], ii[t], neighbors[t])
  IN  /\ pc[t] = "pairs"
      /\ Added(t, ii[t], pairs, pairs)
      /\ ii' = [ii EXCEPT ![t] = @ + 1]
      /\ Goto(t, "loop")
      /\ UNCHANGED <<cachedNumberOfParticles, arguments, neighbors, flags, unlisted, overwritten>>

\* A callback for a term returns an error, and so does Compute.
CallbackFails(t) ==
  LET pairs == PairsOf(config[t], ii[t], neighbors[t])
  IN  /\ pc[t] = "pairs"
      /\ \E callback \in flags[t] \cap {"dEdr", "d2Edr2"}, j \in pairs :
           Added(t, ii[t], {k \in pairs : k < j \/ (k = j /\ callback = "d2Edr2")}, {k \in pairs : k <= j})
      /\ Goto(t, "error")
      /\ UNCHANGED <<cachedNumberOfParticles, arguments, ii, neighbors, flags, unlisted, overwritten>>

Return(t) ==
  /\ pc[t] = "loop" /\ ~IsInLoop(ii[t])
  /\ Goto(t, "done")
  /\ UNCHANGED <<cachedNumberOfParticles, arguments, ii, neighbors, flags, outputs, unlisted, overwritten>>

Next ==
  \E t \in Threads :
    \/ SetComputeMutableValues(t)
    \/ Initialize(t)
    \/ ReadOutside(t)
    \/ SkipParticle(t)
    \/ GetNeighborList(t)
    \/ ComputeParticle(t)
    \/ CallbackFails(t)
    \/ Return(t)

Spec == Init /\ [][Next]_vars

-----------------------------------------------------------------------------
\* Every output is of the particles of its thread, and one that was not requested
\* stays as the simulator left it.
TypeOK ==
  /\ cachedNumberOfParticles \in Nat
  /\ \A t \in Threads :
       /\ pc[t] \in {"idle", "initialize", "loop", "pairs", "outside", "error", "done"}
       /\ ii[t] \in 0..config[t].n
       /\ flags[t] \subseteq Flags
       /\ neighbors[t] \cup singular[t] \cup unlisted[t] \subseteq Particles(config[t])
       /\ DOMAIN particleEnergy[t] = Particles(config[t])
       /\ energy[t] # 0 => "energy" \in request[t]
       /\ terms[t] # {} => "dEdr" \in request[t]
       /\ (\E k \in Particles(config[t]) : forces[t][k] # 0) => "forces" \in request[t]

\* A result counts if no other thread changed the number of particles meanwhile, if none
\* wrote where it should not, and if it is a number.
Done(t, f) ==
  /\ pc[t] = "done" /\ f \in request[t]
  /\ t \notin overwritten /\ (\A u \in Threads : pc[u] # "outside")
  /\ singular[t] = {}

\* All the ordered pairs of a contributing particle and another one within the cutoff
OrderedPairs(c) ==
  {p \in Particles(c) \X Particles(c) :
     p[1] # p[2] /\ c.contributing[p[1]] /\ IsWithin(c, p[1], p[2])}

\* The energy is one half of the potential over all ordered pairs whose first particle
\* contributes, though each pair of two contributing particles is computed once, in an
\* order of the indices, and the others from one side; if every call for a list succeeded.
EnergyIsOfAllPairs ==
  \A t \in Threads : Done(t, "energy") /\ unlisted[t] = {} =>
    energy[t] = Sum(LAMBDA p : 2 * PhiOf(config[t], isShift, p[1], p[2]), OrderedPairs(config[t]))

\* The energies of the particles add up to the energy, and those that do not contribute
\* have none.
ParticleEnergiesAddUp ==
  \A t \in Threads : Done(t, "particleEnergy") =>
    /\ Done(t, "energy") =>
         energy[t] = Sum(LAMBDA k : particleEnergy[t][k], Particles(config[t]))
    /\ \A k \in Particles(config[t]) : ~config[t].contributing[k] => particleEnergy[t][k] = 0

\* The force on each particle, also one that does not contribute, is the negative
\* derivative of the energy over all pairs by its coordinate; if every call for a list
\* succeeded.
ForcesAreOfTheEnergy ==
  \A t \in Threads : Done(t, "forces") /\ unlisted[t] = {} =>
    LET c == config[t]
        derivative(p) == 2 * DPhiByR[c.species[p[1]]][c.species[p[2]]][R2(c, p[1], p[2])] * (c.x[p[2]] - c.x[p[1]])
    IN  \A k \in Particles(c) :
          forces[t][k] = Sum(derivative, {p \in OrderedPairs(c) : p[1] = k})
                         - Sum(derivative, {p \in OrderedPairs(c) : p[2] = k})

\* The terms given to the simulator one by one make up the forces: a simulator that
\* asks for both finds them equal.
TermsMakeTheForces ==
  \A t \in Threads : Done(t, "forces") /\ Done(t, "dEdr") =>
    LET c == config[t]
        force(z) == 4 * z[3] * (c.x[z[2]] - c.x[z[1]])
    IN  \A k \in Particles(c) :
          forces[t][k] = Sum(force, {z \in terms[t] : z[1] = k}) - Sum(force, {z \in terms[t] : z[2] = k})

\* The virial is that of the forces, the negative sum of coordinate times force, and
\* the particles' virials add up to it.
VirialIsOfTheForces ==
  \A t \in Threads :
    /\ Done(t, "forces") /\ Done(t, "virial") =>
         virial[t] = -Sum(LAMBDA k : config[t].x[k] * forces[t][k], Particles(config[t]))
    /\ Done(t, "particleVirial") /\ Done(t, "virial") =>
         virial[t] = Sum(LAMBDA k : particleVirial[t][k], Particles(config[t]))

\* Results are numbers unless a call for a list failed.
ResultsAreNumbers == \A t \in Threads : singular[t] \subseteq unlisted[t]

\* The variables have their types, and all results that a simulator asks for are of one
\* energy.  Where a call for a list failed, the results are still of one another: the
\* forces of the terms, the virial of the forces and the energy of the particles'.
ResultsAreOfTheEnergy ==
  /\ TypeOK /\ ResultsAreNumbers
  /\ EnergyIsOfAllPairs /\ ParticleEnergiesAddUp
  /\ ForcesAreOfTheEnergy /\ TermsMakeTheForces /\ VirialIsOfTheForces

\* One term for each pair within the cutoff: from the lower index where both contribute,
\* otherwise from the one that does
TermsOf(c) ==
  {<<p[1], p[2], DEidrByR(c, p[1], p[2])>> :
     p \in {q \in OrderedPairs(c) : ~(c.contributing[q[2]] /\ q[2] < q[1])}}

Listed(t, S) == {z \in S : z[1] \notin unlisted[t]}

\* A thread reads and writes within its own arrays, and gives its simulator all terms of the
\* particles whose lists it got, and no others of these, unless another thread with a
\* different number of particles began meanwhile.
ThreadsStayApart ==
  \A t \in Threads \ overwritten :
    /\ pc[t] # "outside"
    /\ pc[t] = "done" /\ "dEdr" \in flags[t] => Listed(t, terms[t]) = Listed(t, TermsOf(config[t]))

\* No thread ever reads or writes outside of its arrays.  The code does not keep this: the
\* threads share the number of particles, though the documentation has them compute "for
\* many different configurations simultaneously" (version2-differences.txt).
StaysWithinArrays == \A t \in Threads : pc[t] # "outside"

\* Compute fails if a call for a list fails.  The code does not keep this: it ignores the
\* error, goes on with a list that is another particle's or empty, and returns success.
FailuresAreReturned == \A t \in Threads : pc[t] = "done" => unlisted[t] = {}
=============================================================================
