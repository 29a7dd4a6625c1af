# A TLA+ model of DuMuX 3.0

DuMuX is a C++ library for flow and transport in porous media, built on DUNE.
Most of it is numerics: constitutive relations, flux laws, discretizations.
What decides whether a simulation *proceeds correctly* is a much smaller core
of stateful protocols: two time loops, the Newton method that retries with
smaller steps, the caches that must follow every change of the solution, the
partial reassembly that decides which parts of a matrix may be kept, the switch
of primary variables, local time steps, restart files, grid adaption, and the
collective communications of a parallel solver. This directory models that core
in TLA+, checks it with TLC and proves parts of it with TLAPS. Paths below are
relative to `src/`, those without a directory are found in section 1.

## 1. Inventory

| Component (source) | State | Operations | Interacts with |
|---|---|---|---|
| Check point time loop (`dumux/common/timeloop.hh`) | time, end, step size, maximum step, user's maximum, finished flag; periodic check points (on, interval, last), queue of check points, flag "now is a check point" | construct, `reset`, `advanceTimeStep`, `setTime`, `setEndTime`, `setTimeStepSize`, `setMaxTimeStepSize`, `setFinished`, `setPeriodicCheckPoint`, `disablePeriodicCheckPoints`, `removeAllCheckPoints`, `setCheckPoint` for one point and for a range | main program; the Newton solver halves the step on it; the local residual reads the step size |
| Newton solver (`dumux/nonlinear/newtonsolver.hh`) | iteration counter, shift and last shift, residual, switch flag, distances since the last linearization | `solve(u, timeLoop)` with retries, `solve(u)`, `solve_` with its hooks, `suggestTimeStepSize` | assembler, linear solver, time loop, switch, reassembler; collective calls |
| Assembler (`dumux/assembly/fvassembler.hh`) | matrix, residual, pointer to the previous solution | `assembleJacobianAndResidual`, `assembleResidual`, `residualNorm`, `updateGridVariables`, `resetTimeStep`, `setPreviousSolution` | local assemblers, grid variables; `comm().min` after each assembly |
| Local assemblers (`dumux/assembly/boxlocalassembler.hh`, `cclocalassembler.hh`) | none; deflect entries of the caches while differentiating | `assembleJacobianAndResidual` per element | grid variables, reassembler |
| Grid variables (`dumux/discretization/fvgridvariables.hh`) | volume variables of this and the previous level, flux cache | `init`, `update`, `advanceTimeStep`, `resetTimeStep` | all of the above |
| Partial reassembler (`dumux/assembly/partialreassembler.hh`, `entitycolor.hh`, `dumux/parallel/vertexhandles.hh`) | colors of elements and vertices | `computeColors`, `resetJacobian`, `resetColors` | Newton solver (distances), local assemblers (colors), neighbor processes |
| Primary variable switch (`dumux/porousmediumflow/compositional/primaryvariableswitch.hh`) | flags of switched degrees of freedom | `reset`, `update`, `updateBoundary`, `updateSwitchedVolVars`, `updateSwitchedFluxVarsCache` | Newton solver, caches; `comm().max` |
| Switch rules (`dumux/porousmediumflow/{2pnc,co2,2p1c,richards,3p3c,3pwateroil}/primaryvariableswitch.hh`) | phase presence of a degree of freedom, its flag | `update_` | switch; the `volumevariables.hh` beside each, which read what a rule has written |
| Main programs (`test/**/main.cc`) | current and old solution, output | the time loop and its order of calls | everything above |
| Time manager (`dumux/common/timemanager.hh`, `start.hh`) | time, step, previous step, index, episode (index, start, length) | `init`, `run`, `setTimeStepSize`, `startNextEpisode`, `serialize`, `deserialize` | the problem's hooks |
| IMPET problem (`dumux/porousmediumflow/sequential/impetproblem.hh`) | output interval, output time interval, step restrictions | `preTimeStep`, `timeIntegration`, `shouldWriteOutput`, `shouldWriteRestartFile`, `episodeEnd`, `serialize`, `restart` | time manager, transport, grid adaption, output |
| Explicit transport with local time steps (`sequential/cellcentered/transport.hh`, `2p/.../saturation.hh`) | per cell and face a flux and a target, accumulated time, sub-step | `update`, `updatedTargetDt_`, `innerUpdate`, `resetTimeStepData_` | IMPET problem, time manager |
| Grid adaption of the sequential models (`sequential/gridadapt.hh`, `gridadaptinitializationindicator.hh`, `variableclassadaptive.hh`) | marks, adaption map, iteration of the initialization | `init`, `adaptGrid`, `markElements`, `storePrimVars`, `reconstructPrimVars` | grid, indicators, cell data |
| Grid adaption of the implicit 2p model (`dumux/adaptive/`, `2p/gridadaptindicator.hh`, `2p/griddatatransfer.hh`) | indicator vector, stored data | `calculate`, `markElements`, `store`, `adapt`, `reconstruct` | grid, solution, geometry, main program |
| Output and restart files (`dumux/io/restart.hh`, `vtkmultiwriter.hh`) | series of files written | `serializeBegin/End`, `deserializeBegin/End` | IMPET problem |
| Multidomain coupling, parallel linear solver, boundary types, parameter tree, connectivity map, bounding box tree, constitutive laws, flux laws, free flow, geomechanics, property system | see `PROJECT.json` | | |

What makes the core hard to test, and what correctness means for each part:

* **Time loop.** The order of the base class's and the derived class's
  updates inside `advanceTimeStep`; calls in any order by any client; exact and
  tolerant comparisons of floating point times. Correct: the step is never
  negative, crosses neither the end nor a check point; every check point is
  met, reported once and taken off.
* **Newton solver.** Any call may throw, at any point, and the retry has to put
  five things back that were changed by different objects. Correct: every
  assembly sees caches of its own iterate and the right old level; accepted
  solution, grid variables and time agree; the loop ends.
* **Several processes.** A process that leaves the sequence of collective calls
  hangs all the others. Correct: same calls, same decisions, all return.
* **Partial reassembly.** What may be kept depends on colors computed from
  distances, in stages, with neighbors on other processes. Correct: cleared
  rows are refilled completely, kept ones are recent enough, and processes agree.
* **Variable switch.** It rewrites the solution after the caches were computed,
  and gives the variables another meaning. Correct: caches follow before the
  next assembly, the variables hold what will be read, and it does not go to
  and fro for ever.
* **Sequential loop.** The process may die between any two statements of
  `run()`; the restart file was written in the middle of a step, by three
  objects. Correct: the restarted run continues on the same grid of episodes,
  with solution and time in agreement and no output missing.
* **Local time steps.** Both cells of a face decide for themselves whether a
  flux is due; a sub-step may be dropped after targets have moved. Correct: the
  sides agree, and every cell is integrated over exactly the step that is made.
* **Grid adaption.** Data is stored, the grid changes and data comes back by
  three calls; a recursion keeps neighbors within one level. Correct: nothing
  is lost or created, the 2:1 ratio holds, what depends on the grid is renewed.

There is no shared memory concurrency; the only actors are MPI processes, and
the operating system that ends one.

## 2. Modules

```
TimeLoop -- TimeLoopClient -- TimeLoopProofs*
   |
GridVariables -- NewtonSolver -- InstationarySimulation -- SimulationProofs*
SolveAgreement <= ParallelNewton -- ParallelProofs*
PartialReassembly -- BoxReassembly  -- MC_Assembly -- AssemblyProofs*
                  -- CellReassembly -- MC_Assembly
PrimaryVariableSwitch               -- MC_Assembly
PhasePresence                       -- MC_Assembly
TimeManager -- SequentialSimulation
                       ^= LocalTimeStepping -- SequentialProofs*
AdaptiveGrid -- GridAdapt    -- MC_Adaption -- AdaptionProofs*
             -- TwoPAdaptive -- MC_Adaption    -- TransferProofs* -- RatioProofs*
MC_* : instances for TLC        * : TLAPS        <=, ^= : implemented by
```

**TimeLoop** — `CheckPointTimeLoop` and its base. One variable per member, one
action per member function. Time is integer ticks; comparisons with relative
tolerance 1e-10 and 1e-14 are exact at this resolution, the one with
`1e-8*timeStepSize()` is not and is the operator `FuzzyEq`, whose tolerance
grows with the step in seconds; `EqScale` fixes the seconds of a tick. What
`advanceTimeStep` leaves of the queue is `QueueAfter`. None of
the member functions is virtual, so the base class's `advanceTimeStep` cuts the
step with the *base* `setTimeStepSize` first (`CutStep`) and the derived class
aligns it to check points only afterwards (`AlignTimeStepSize`).
`SetCheckPoints` is the range overload for a range of two. Step index, last
step size, clocks and reports are left out.

**TimeLoopClient** — clients of it, told apart by `keepsNotes`: one that keeps
the notes in the header (it sets the step again after moving time or end,
`mustAlign`, moves the time past no check point and resets a loop without check
points only), and one that calls anything.

**GridVariables** — with global caching. A set of cached values is represented
by the solution it was computed from; `Mixed` are values of no solution (an
exception came in between), `Stale` those left behind by `updateBoundary`.

**NewtonSolver** — `solve(u, timeLoop)`: one action per call inside `solve_`
that can throw, `Throw` being the catch block, then `RetryWithHalfStep` or
`GiveUp`. Numbers are choices: the new iterate is any solution, convergence and
"shift shrinks by four" are any value where the code does not fix them
(two iterations at least, no convergence after a switch). The code divides and
scales floating point steps; a step between two ticks becomes either of them
(`ToTicks`), so a short step may be scaled to nothing, as the code, which has no
lower bound, may scale it again and again.

**InstationarySimulation** — composes the three as the main programs do,
statement by statement after
`test/multidomain/embedded/1d3d/1p_richards/main.cc`. `uLevel`, `prevLevel` and
`wanted` only observe: time levels of the two vectors, check points asked for;
`belowTick` remembers that a positive step was scaled to less than a tick.

**ParallelNewton** — the same `solve` on several processes, reduced to its
control: each collective call of the source has a name, a process that has made
it waits, and `Meet` lets all go on when all wait in the same one, as MPI does.
An exception may hit one process where a communication follows that tells the
others (assembly, residual, convergence of the linear solver); `ThrowSites`
names places where none follows. **SolveAgreement** is the abstract
specification: all processes return the same outcome after the same number of
divisions. ParallelNewton implements it under the mapping `Agreement`.

**PartialReassembly** — the Newton solver's side: distances, threshold, and how
far each unknown has travelled, which observes. `discMethod` is the engine that
the discretization chooses at compile time. **BoxReassembly** adds colors of
vertices and elements on several processes. Each stage of `computeColors` is a
function of the colors of all processes, since between two communications a
process depends on no other; the two exchanges at the border are
`MinOverProcesses` and `MaxOverProcesses`. The matrix is represented by which
element contributed to which row, how often and in which iteration.
**CellReassembly** does the same with columns, for the cell-centered engine.

**PrimaryVariableSwitch** — the caches in detail: one volume variable per pair
of element and unknown, one flux cache entry per face with the stencil it was
computed from. The loop of `invokePriVarSwitch_` is one action per element, so
the order in which volume variables and flux caches are renewed matters.

**PhasePresence** — the rules of six models at one degree of freedom. A rule
is a row of a table: presence before, phases that pass their threshold,
presence after, variables written. A variable is the *quantity* it holds
(`S("w")`, `x("g", "n")`, the temperature, or one of the constants near zero or
one), and `Reads...` says, from the volume variables, which quantity each
presence reads. How far a phase is beyond its threshold is an input: not,
beyond the usual one (`slight`), beyond the flagged one too (`far`). Saturations
add up to one, so never all present phases are beyond. With all phases present
the code is an `else if` chain (`Precedes`). Models: the water-oil model comes
in its default form (`3pwateroil_gas`, only the gas can vanish) and with all
presences. Richards with the switch turned off returns at once and has no step.

**TimeManager** — time, step, episodes and their alignments. `setFinished`,
`setTime` and `setEndTime` are left out: only the stationary problem and single
tests call them. **SequentialSimulation** — the loop of `run()` with the hooks
of `IMPETProblem`: choose a step (`ChooseStep`), integrate (`Integrate`), write
output, write a restart file, advance. One action per statement, `where` being
the place, so that `CrashAndRestart` may come between any two; a crash while a
file is written leaves a cut-off file that cannot be continued from, and may
take the file it replaces with it. `solutionTime` observes over which time the
transported quantity has been integrated; `replays` marks the first step after
a restart. The index of the step is a plain counter. **LocalTimeStepping** replaces `Integrate` by the transport's
passes: `update`, then `innerUpdate` with a sub-step per loop, cell by cell where
a cell may leave the physical range. A flux is the number of the update that
computed it, kept on *both* sides of a face. Both CFL factors are constants, in
parts of `FactorUnit`; the sub-CFL factor need only be the smaller one, as the
constructor makes it. `integrated` and `leftRange` observe. It implements SequentialSimulation (`ImplementsSimulation`).

**AdaptiveGrid** — the hierarchical grid: elements with a level and an integer
position, leaves, neighbors in the order of their intersections, and the
recursion `CheckNeighborsRefine`, a recursive function of an element and a
level. The grid is Dune's and external: of cubes,
every refined element has all children, it refines what is marked and removes
families all of whose children are marked, nothing else. **GridAdapt** — the
sequential models: initialization rounds with their indicator, marking with the
coarsening rule, `storePrimVars`, adaption, `reconstructPrimVars`, and the calls
from `preTimeStep`. **TwoPAdaptive** — the implicit model as
`test/porousmediumflow/2p/implicit/adaptive/main.cc` drives it. What the
standard indicators want is any set of points to refine at; means are exact
because the field is divisible often enough.

`MC_Assembly` and `MC_Adaption` each put several such state machines into one
specification: a behavior is one of one `subject` (`model`), and the variables
of the others stand still in an initial state.

Definitions marked *Mutant* are not part of the model: each is a plausible
mistake in the definition after it, and shows that a property notices it.

## 3. Runs

| Run | Checks | Shows |
|---|---|---|
| `timeloop` | `QueueSorted`, `ClientInv`, `CallRepairsStep`, `CheckPointsMet` | any sequence of calls: the queue stays sorted, and a call ending in `setTimeStepSize` puts the step right after a jump that left nothing behind; a client that keeps the notes has an aligned step and a flag raised exactly at check points, passes none, and each arrival takes off exactly one |
| `simulation` | `SimTypeOK`, `AssemblyIsConsistent`, `SolutionMatchesTime`, `OutputComplete`, `LoopEnds` | all failures and retries of a simulation over five ticks; it ends unless its steps are scaled to nothing |
| `simulation_coincide` | `LoopEnds`, violated | finding 1 |
| `parallel` | `TypeOK`, `SameCall`, `SolvesAlike`, `AllReturn` | three processes, and one; both criteria; with and without switch |
| `parallel_solver` | `SameCall`, violated | finding 2 |
| `assembly` | `TypesCorrect`, `RowsComplete`, `RowsOfOneIterate`, `BorderColorsAgree`, `KeptRowsAreClose`, `KeptColumnsAreClose`, `CachesFollowSolution`, `SwitchedVarsFit`, `SettlesDown` | coloring across a process border, with failed assemblies and repeated attempts; the cell-centered engine; the interleaved renewal of caches; the switch rules of all models |
| `reassembly_cells_neighbors` | `KeptNeighborsAreClose`, violated | finding 3 |
| `switch_box` | `CachesFollowSolution`, violated | finding 4 |
| `sequential` | `SeqInv`, `StepStaysInside`, `EpisodesOnGrid`, `SolutionFollowsTime`, `EpisodeEndsWritten`, `SidesAgree`, `CellsFollowStep`, `SomeFaceIsDue`, `EmptyStepOnlyFirst`, `ImplementsSimulation`, `RunEnds` | a sequential simulation with local steps, dropped sub-steps, restart files and a crash anywhere |
| `adaption` | `SeqTypeCorrect`, `RatioKept`, `AmountsKept`, `VerdictIsCurrent`, `MassKept`, `DataCurrent`, `InitPrepares` | initial and later adaptions of both kinds of models |
| `adaption_ratio` | `RatioKept`, violated | finding 5 |
| `switch_rules` | `PhasesFlip`, violated | finding 6 |

Bounds, and why they are enough:

* *Time loop* (`TimeLoop.cfg`): two to four times, step sizes and intervals,
  chosen so that check points fall on the end, between steps and on each
  other's multiples; the code only compares and subtracts them. `QueueBound`
  two lets a queued point wait behind another. `EqScale` 31 is the smallest that
  `ShortSimulations` admits for these times, so the tolerance of the comparison
  comes close to a tick and never reaches it. `ClockBound` (`MC_TimeLoop`)
  stops a free client that runs off with an unaligned step.
* *Simulation*: two solutions (equal or not is all the caches tell apart), one
  division (zero, one, exhausted), `MaxSteps` two, and up to `IterBound` four
  iterations while the shift shrinks: every branch of `newtonProceed`. With
  `TargetSteps` three a solve may need more, as many or fewer iterations than the
  target, so `suggestTimeStepSize` shrinks the step, keeps it and lets it grow.
  The run of finding 1 has one periodic interval and nothing that fails.
* *Processes*: three, so that two can agree against one. Iterations and
  divisions as above.
* *Reassembly*: a chain of three elements with the border between the second
  and third is the smallest in which red, orange and green vertices meet across
  a border; three iterations (`MaxIterations`) let a distance sum up over two
  updates; four cells have a cell two away from a red one. Shifts and
  thresholds zero and one make "above" and "not above" occur by one shift and
  by the sum of two.
* *Switch*: three cells, so that the middle one has a neighbor renewed before
  it and one after; two values. The *rules* need no bound: presence, flag and
  threshold levels are finite; each model has all its presences.
* *Sequential* (`Sequential.cfg`): end eight with episodes of three, so that
  the last episode is cut and a restart file falls on the end of an episode and
  inside one; maximum step six longer than an episode; local steps two and four
  with a CFL factor of two and a sub-CFL factor of one half, so that targets lie
  between the sub-steps and a face may be due once or several times in a step;
  three cells in a row, closed by two boundary faces; one crash (`MaxCrashes`),
  after which the run is as before it with other files.
* *Adaption*: two macro cells with levels up to three, so that a leaf may have
  a neighbor two levels away if nothing prevents it, and children of children
  are transferred. Finding 5 needs an element with two coarser neighbors that
  have coarser ones: 1 x 1 x 2 macro cells in three dimensions.

Fairness is used in three runs. A simulation is one thread that executes its
statements until the program ends: weak fairness of the program's steps
together, and of entering the loop (a program that calls setters for ever is
none). In ParallelNewton no process stops by itself and MPI completes a call
that all have made: weak fairness per process and of `Meet`. In
LocalTimeStepping weak fairness of the steps of `run()` together (`LtsStep`);
crashes are not fair, but bounded. Termination inside `solve` also rests on
`IterBound`: the code goes on while the shift shrinks by four each time, which
for floating point numbers cannot go on for ever; what happens beyond the bound
is not checked. `LoopEnds` excepts one way of not ending, which the code allows:
failed attempts halve the step and slow solves shrink it further, and no lower
bound stops a sequence of ever shorter steps. A step that is scaled to less than
a tick is one of these (`belowTick`); with steps of a tick or more the loop ends.
`SettlesDown` needs none: a
system that stops does not switch. Deadlock is checked in all runs but
`sequential`: there the program ends when its time is up (`where = "done"`), and
without a file that can be read a restart is impossible.

## 4. Proofs

Eight modules, for every value of the constants; the named assumptions of the
modules are all that is assumed, and TLC evaluates them in the runs. A theorem
with a further hypothesis names it below. Every inductive invariant was first
checked by TLC on the instance of its run.

**TimeLoopProofs** — `ClientSafety`, `QueueSafety`, `CallsRepair`. What a client
wants, `ClientStepAligned`, is not inductive. `advanceTimeStep` reaches a time at
which the step to the next check point is computed anew; it is not negative
only if no check point lies behind (`NoneLeftBehind`), which after the step
holds only if the step was aligned before. If a periodic point falls on the
same time as a queued one, the queued one stays, at distance zero: that is why
`NoneLeftBehind` allows equality for queued points and not for periodic ones.
Of the comparison one fact is needed, `FuzzyEqReflexive`. For a client that calls
what it likes the invariant is `FreeInv`, and `AlignLemma` holds in every typed
state in which the end and the points due are not behind.
`CheckPointsAreMet` needs more: that two times a tick apart are told apart for
every step that fits into the simulation. That is the hypothesis `ShortSimulations`;
TLC evaluates it for its instances (`ShortClock`), and without it the statement
is false (section 5, check points at long steps). Its invariant `SpanInv`
keeps time and end between times the client may name, which bounds the step.
That the point arrived at is taken off, and no other, is `AdvanceTakesOff`; the
head of the queue is the point arrived at because the queue is sorted and
nothing in it is behind (`HeadAndTail`).

**SimulationProofs** — `AssembliesConsistent`, `SolutionsMatch`. The invariant
`SimInv` says for each place in the program which solution the grid variables
belong to (`GridState`), and between two solves how the levels of the two
vectors relate to the time (`MainState`). The retry is the step that needs it:
the flux cache is renewed from volume variables that `resetTimeStep` has put back.
`MainProgramKeepsNotes`: the main program, retries included, implements
`ClientSpec`, so what is proved of clients holds of it (`LoopInv`). With
`ShortSimulations` this gives `OutputIsComplete` (`OutputInv`: a check point that
was asked for is written, or ahead and still in the queue or the period).
`SimTypeCorrect` is the type invariant of the composition.

**ParallelProofs** — `CallsMatch`, `SolvesAgree`, for any number of processes,
under `ThrowSites = {}` (finding 2 is what happens otherwise). Between two
collective calls a process computes alone, but its way is determined:
`EndOfWay` is the same for all, only the value it brings is its own.
`ParallelTypeCorrect` holds for any `ThrowSites`.

**AssemblyProofs** — on reassembly `RowsAreComplete`, `RowsAreOfOneIterate`, `BordersAgree`,
`RowsAreClose` for any grid and any distribution over processes. The invariant
has the stages of the coloring (`ColorsComputed`), that a vertex has one color on
all its processes (`AgreedColor`) and that after the last stage no element is
orange. For the cell-centered engine `ColumnsClose`, from `DistanceIsTravel`:
the distance of an unknown is how far it has travelled since its column was
computed.

On the variable switch `CachesFollow`, for cell-centered grids (no boundary element
is skipped, finding 4). The invariant has two parts: cells not yet visited still
have to be renewed (`RestIsAhead`), and a face whose cells have all been visited
follows the volume variables (`FacesFollow`); what a face misses when its first
cell is renewed it gets with the last. `SwitchedVariablesFit`, for all sets of
models without the water-oil model with all its presences, which violates it
(finding 6): a rule reads the variables of an iterate, which mean what the old
presence says, so it suffices that each row of the tables writes what the new
presence reads and leaves only what meant the same before (`GoodRule`).
`SwitchesSettle` proves `SettlesDown`, which states that something happens for
ever but needs no fairness: while the phases stay near their thresholds, a
flagged degree of freedom does not switch; if a phase would appear it keeps the
flag (`HeldBack`); if none would appear, only present phases can vanish, and by
`RuleReturns` one of them is then held back. `TypesStayCorrect` is the type
invariant of all four state machines.

**SequentialProofs** — `SequentialInvariant` and its parts `StepsStayInside`,
`EpisodesStayOnGrid`, `SolutionsFollowTime`. The strengthening is
`FilesRestorable`: every file holds a state the loop could be in, so a restart
needs no history. `EndsOfEpisodesWritten` and `EmptyStepsAreFirst` look further:
`SeriesInv` demands of every restart file, too, that the series up to its time
has all ends of episodes, and by `StepsAhead` only the first step after a restart
starts at the end of an episode. On local time steps `FluxesAgree`, `CellsIntegrated`, and
`LocalImplements`: every step of the local transport is a step of
SequentialSimulation or a stutter, from which `LocalKeepsPromises` has the
theorems on the abstract simulation. The last three and `FacesAreDue` hold for
sub-CFL factors up to one, and beyond it they are false (section 5, local time
steps); `FluxesAgree` holds for all. `LocalInv` relates accumulated time, sub-step
and what each cell has been integrated over at each place in `innerUpdate`, and
carries `SidesAgree` through targets that are renewed face by face. `FacesAreDue`
(`DueInv`): the sub-step is the smallest *unscaled* local step, the target of
that face has moved by no more than it (`ScaledBounds`), so the accumulated time
has reached the target of some face whenever targets are renewed.

**AdaptionProofs** — about the sequential model `SequentialTypes` (`GridInv`),
`VerdictsAreCurrent` and `InitializationPrepares`, about the implicit one
`DataStaysCurrent`. What the recursion of `CheckNeighborsRefine` computes for each
element cannot be proved, but two facts suffice. It marks coarser elements than the one it
starts from only (`FollowersAreCoarser`), so refining stays below `LevelMax`
and reaches every marked element. And it exists: that a recursive function
satisfies its equation is not for free, and since the library's induction theorems
cannot be instantiated here, `PowersExist` and `FollowersExist` argue with the
least element at which a partial function could not be continued.
`InitializationPrepares` counts rounds: after n of them the elements at the
sources have n levels or the highest, all others n or the lowest that is allowed
(`RoundsInv`), and a round that adapts nothing is the last. `VerdictsAreCurrent`
has the hypothesis `StartsCoarse`: a grid that starts at the highest level asks
an indicator that was never calculated (section 5, adaption).

**TransferProofs** — `AmountsStay` and `MassStays`: storing the data, adapting the
grid and putting the data back keep what is held in every element of both grids,
over any number of adaptions, for any dimension, macro grid and levels.

* *Hypothesis.* `ExactMeans`: the values given to the cells can be divided by the
  number of children once for each level. The code's means are floating point
  numbers, the model's are integer quotients, and a remainder that is cut off is
  lost; under the hypothesis no mean has one. `MCFieldIsExact` shows that the
  field of the run satisfies it.
* *The grid.* Leaves never cover each other (`IsGrid`), and a step of the grid
  leads to leaves that differ from those before by one level (`OneLevel`, in both
  directions): `AdaptedGrid`. So below each of the larger elements of the two
  grids (`Top`) one grid has that element alone, the other one the same or its
  children, and the amounts agree there (`BlockAmount`). An element of both
  hierarchies is filled by such blocks (`CoversTop`), and its amount is their sum
  (`MovedAmounts`).
* *The means.* A value that came from a mean can be divided less often than before,
  so divisibility by itself is not inductive. `Exact` is: a value can be divided
  once for each ancestor whose leaves do not all hold the same. A mean uses up
  one division; refining makes equal leaves, whose mean needs none.
* *The entries.* Both `StoredEntries` and `Stored` are recursive functions over the
  hierarchy; that they exist is shown from the finest level upwards
  (`EntriesExist`, `MassEntriesExist`). Of their values only those of leaves and of
  fathers of leaves are needed, since the grid changes by one level.
* The inductive invariant is `TransferInv`, with `EntriesOf` or `MassEntriesOf`
  between storing and putting back. It was checked by TLC on the instance of
  `adaption` before it was proved.

* *Sums.* The community modules add up by a recursive function over the subsets
  of a set, under a CHOOSE; `PartSumsExist` and `PartSumsAgree`, at the head of
  AdaptionProofs, show by the least counterexample that it exists and does not
  depend on the set, and from `SumTakesOut` follow sums over parts, over groups
  and of multiples.

**RatioProofs** — `RatioStays`: grids of one or two directions keep the ratio of
2:1, for every macro grid, all levels and whatever the indicators want. The
hypothesis `Len(MacroCells) <= 2` is needed: in three directions the property is
false (finding 5).

* *The counter.* `checkNeighborsRefine_` counts one for each coarser face, not
  only for each level, and stops at the highest level. An element has coarser
  neighbors in each direction on one side only (`OneSideCoarser`, since the other
  side is inside its father), so in two directions the element to refine has two
  of them at most and the second one counts one too many. There is one level
  to spare, since that element is below the highest level.
* *The recursion.* Every element the recursion comes to has one coarser face only
  (`ReachedHasOneFace`): had it two, the element it was reached from would have
  a father beside the second of them, and some leaf in that father, two levels
  finer, would touch it (`LeafAtFace`). So from there on nothing more is counted
  and the recursion ends only at level 0 (`SingleFollow`, by induction over the
  counter from the highest level downwards); all coarser neighbors of what is
  refined are refined (`RefinementsFollow`).
* *The step.* If the marks follow the neighbors (`MarksFollow`), what lies at a
  face of a new leaf lay at a face of an old one (`OldFaces`), and the nine cases of
  two leaves that stay, are new or take the place of their children keep the ratio
  (`RatioSteps`).
* The inductive invariant is `RatioInv`: leaves never cover each other, the grid
  has no holes (`Complete`, needed for `LeafAtFace`, kept by `CompleteSteps`), the
  ratio, and `MarksFollow` until the grid is adapted. TLC checked it on the
  instance of `adaption` before it was proved.

Only model-checked:

* `RatioKept` in three directions, where it is false (finding 5).
* Liveness under fairness, `LoopEnds`, `AllReturn`, `RunEnds`, which is out of
  the prover's reach.
* The findings, which are violations.

## 5. Findings

1. **A periodic and a queued check point at one time stop the simulation for
   ever** (`timeloop.hh:411-439`). `else if` takes off the periodic one only; the
   queued one is at distance zero, so the step is zero. In the trace both fall on
   time 3: the step that arrives takes the periodic one off and leaves a step of
   zero; the next, empty step takes the queued one off as well, but its size was
   the last one and every later size is scaled from it. `finished()` never becomes
   true. With `DistinctCheckPoints` the same instance ends. (In a program whose
   residual divides by the step, the solver may instead throw on values that are
   not numbers.)
2. **An exception in the linear solver hangs a parallel run**
   (`newtonsolver.hh:347-371`). One process throws before `comm_.min` and calls
   it in the handler; the others call it at its regular place, learn of the
   failure, throw, and call it a second time in *their* handler.
3. **The neighbors of red cells are never reassembled**
   (`partialreassembler.hh:342-354`). The loop skips red elements and then asks
   for elements above the threshold, which are exactly the red ones.
4. **Stale volume variables after `updateBoundary`**
   (`compositional/primaryvariableswitch.hh:219-221`). Elements that touch the
   boundary in a vertex only are skipped, although that vertex got a new state.
5. **The 2:1 ratio breaks where an element has several coarser neighbors**
   (`gridadapt.hh:382`). `++level` in the argument of the recursion also counts
   the siblings, so later neighbors are followed less deep. This takes three
   directions; in one and two there is no such grid (`RatioStays`). Shown for a grid
   that adapts what is marked; some grid managers enforce the ratio themselves.
6. **The NAPL vanishes with the gas** (`3pwateroil/primaryvariableswitch.hh:141`).
   With all presences allowed, `newPhasePresence = FluidSystem::gPhaseIdx`
   assigns a phase index, 2, which as a presence means water only.

Seen while modelling, without a run of their own:

* *Check points at long steps* (`timeloop.hh:418,425`): the tolerance handed to
  the relative comparison is `1e-8*timeStepSize()`; with steps of 1e8 seconds it
  is one and every time "equals" every check point. The run and the theorem keep
  to steps for which the tolerance stays below a tick (`ShortSimulations`); for
  the times of the run `CheckPointsMet` is violated at `EqScale` 8.
* A check point set at the current time is at distance zero too and stops the
  loop like finding 1, so `SetUp` sets none there.
* Short steps: retries and suggestions only multiply the step, and nothing stops
  a simulation whose steps shrink geometrically (`newtonsolver.hh:224,597-603`).
* `setPeriodicCheckPoint` with an offset ahead of the time meets offset +
  interval first, not the offset as its comment says (`timeloop.hh:462,476`). The
  model, and what `CheckPointsMet` takes as due, follow the code.
  `setEndTime` leaves the step size alone and `reset` leaves check points of the
  previous run in place.
* `PrimaryVariableSwitch::reset` resizes its flags, which clears none after the
  first call (`:75`). An exception in `PrimaryVariableSwitch::update` or in
  `updateGridVariables` on one process leaves the others in a collective call
  (the sites `"switch"` and `"gridUpdate"` in `ThrowSites` show it).
* Box engine: the distance of a promoted vertex is reset although kept rows
  next to it hold older derivatives with respect to it; every element at an
  orange vertex is red or yellow, so no vertex ends up yellow and the demotion
  with its maximum exchange never acts.
* Switch rules: 2p1c has no hysteresis for a phase that appears, so
  `SettlesDown` excepts it. In 3p3c and the water-oil model, gas that vanishes
  from water and gas while another phase also changes switches nothing, but
  sets the flag. The water-oil model with all presences writes, in several
  rules besides finding 6, something else than its volume variables read:
  switch 2 of water and gas holds x_w^n where x_g^n is read (`:169,298,362,426`),
  switch 1 holds the temperature where S_w is read (`:361`), water and gas with
  NAPL from water leave x_w^n where S_n is read (`:234`), gas to gas and NAPL
  leaves the temperature where S_n is read (`:436`). In 2pnc with
  `SetMoleFractionsForFirstPhase` false the secondary components are read as
  fractions of the other phase than a switch to both phases writes.
* Sequential models: after a restart from the end of an episode the first step
  is empty, writes its output and restart file once more and counts as a step;
  file names have six digits of the time (`restart.hh:78`); the size of the step
  is not restored. The comment at `timemanager.hh:354-357` promises the suggested
  step at the end of an episode, the code returns zero.
* Local time steps: if a cell leaves the physical range in the first sub-step,
  the cells after it miss that sub-step (`transport.hh:595-624`), which
  `CellsFollowStep` excepts. The sub-CFL factor scales targets but not the
  sub-step at interior faces (`:505` against `:514`), and the constructor admits
  factors above one if the CFL factor is larger (`:221,224`). Then the first
  sub-step may end before every target: no face is due, the sub-step becomes the
  largest number and the rest of the step is not integrated, though the time
  advances by all of it. With the factor one and a half (`SubCflFactor` three,
  unit two) TLC finds `SeqInv` violated; with one it passes.
* Adaption: the minimum level binds the initialization only; the implicit
  indicator coarsens below it (`2p/gridadaptindicator.hh:218-232`). A grid that
  starts at the highest level asks an indicator that was never calculated. That
  the number of corners equals that of children (`gridadapt.hh:261`) holds for
  cubes only.

## 6. Not modelled

The larger part of the 220 000 lines is numerics without a protocol:
constitutive relations, fluid systems, flux laws, discretizations, the mpfa
transmissibilities (alone the adaptive 3-D versions have thousands of lines),
linear algebra, geometry, and a vendored XML library. A model of it would
repeat its formulas; the share of the code the map can reach is that of its
control, and a third of all lines is out of reach.

Left out of what is modelled: runs without the initialization indicator
(`GridAdapt.EnableInitializationIndicator` false: `init()` returns at once,
`gridadapt.hh:91`), in which the grid is adapted by `adaptGrid` alone; input and output except for the times at which
output is due and what a restart file holds; floating point values, which are
ticks or choices (`newtonsolver.hh:912` keeps the old maximum when the shift is
not a number); line search and chopped update, which the free choice of the
iterate contains; ghost elements in BoxReassembly; local caching of grid
variables, which has no state that could be stale; the inner communications of
the linear solver, one call here; iterated IMPET and the multiphysics
subdomains; local time steps at hanging nodes and across processes; adaption on
several processes, and the box scheme's transfer of masses; an `episodeEnd` that
sets a step of its own (`timemanager.hh:425`).

## 7. Plan

What is left, in order of importance.

1. *Coupling*: the contexts of the embedded coupling managers while one domain
   is deflected (`dumux/multidomain/couplingmanager.hh:152-160`), and the
   multidomain Newton solver with one switch per domain
   (`dumux/multidomain/newtonsolver.hh:92-96,135-145`).
2. *Check point clock*: an abstract clock that stops at given times,
   implemented by TimeLoopClient for exact comparison.
3. *Parallel linear solver*: how border rows become consistent
   (`dumux/linear/vectorexchange.hh`, `amgparallelhelpers.hh`).
4. *Connectivity map* as the inverse of flux stencils; *boundary types* and
   *parameter tree*, small protocols of setters and lookups.
5. *Box data transfer* of the adaptive implicit model.
