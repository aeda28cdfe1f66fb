# A TLA+ development for SymuMaster and SymuVia

SymuMaster simulates the traffic of a city over a rolling horizon: it cuts the simulated time
into *assignment periods*, simulates each of them up to the end of a longer *prediction period*,
lets an assignment model judge the result, goes back and tries another assignment until the model
is satisfied, and then keeps the part of the result that falls in the assignment period. The
traffic itself is simulated by the traffic simulators it drives: SymuVia (microscopic), an MFD
model run by Matlab, and a walking simulator.

What makes this hard to get right is that everything is simulated several times and taken back:
the state of each simulator, user engine and output file is saved, restored and dropped by code of
its own, and the whole is correct only if all of them do it at the same instants and restore
everything. Most modules here are about that. The others are about the loop of the assignment
model that drives it, and about two parts of a SymuVia network whose control is discrete and
intricate, the traffic lights with priority for buses and the event-driven mesoscopic links, each
with what a snapshot does to it.

1. [The system](#1-the-system)
2. [The modules](#2-the-modules)
3. [The runs](#3-the-runs)
4. [Fairness](#4-fairness)
5. [Findings](#5-findings)
6. [Proofs](#6-proofs)
7. [What is not modelled](#7-what-is-not-modelled)
8. [Plan](#8-plan)

To repeat the checks, in this directory: `tlc -config RollingHorizon.cfg RollingHorizon.tla` (the
module of each configuration is in the table of section 3), and `tlapm M.tla` for `M` each of `RollingHorizonProofs`,
`UserEngineProofs`, `SymuViaInstanceProofs`, `DualLoopProofs`, `TrafficLightsProofs`, `MesoNetworkProofs`, `MesoPaceProofs` and
`Induction`. The longest, `MesoPaceProofs`, takes some minutes.

---

## 1. The system

About 152 000 lines of C++ in three libraries: `src/symucore` (demand, multi-layer graph, shortest
paths), `src/symumaster` (the rolling horizon, the simulators' adapters, the users, the assignment
models) and `src/symuvia` (the microscopic simulator). The repository holds no test.

### 1.1 SymuMaster

| Component | State | Operations | Talks to | What is hard | What makes it correct |
|---|---|---|---|---|---|
| **SimulationRunner** | period index, clock, iteration, the redo flag | `Execute`, `RunNextAssignmentPeriod`, `SimulationThread::run` | all the others, one thread per simulation instance | retries, batches, threads, errors half-way | all participants always stand on one timeline; the committed one is gapless; the run ends |
| **TraficSimulators / TraficSimulatorHandler** | the handlers, their instances | `AssignmentPeriodStart/Ended/Rollback/Commit`, `Step`, `Initialize`, `Terminate`, `ComputeCosts` | the simulators, the user engines | stops at the first failure, leaving a prefix of the instances called | an instance is called exactly when its number is below the number in use |
| **SymuViaInstance** | `m_bHasStartPeriodSnapshot` | the same calls, translated into `SymTakeSimulationSnapshot`, `SymSimulationRollback(0 or 1)`, `SymSimulationCommit`; activation of legs | SymuVia's exported calls; calls the user engine back | a commit is a rollback to the *second* snapshot | the flag is true exactly when the stack is not empty |
| **MFDInstance** | previous demand, users in the model | the same calls, sent to Matlab | Matlab | every call can fail | as for the other simulators |
| **UserEngine, UserPathWriting** | users, waiting users, index in the demand, arrival times, snapshots of all these | `Run`, `OnPPathCompleted`, period calls | the simulators, both ways | callbacks *during* the activation and during the step; restoring pointers | every leg is run once, in order; nobody is lost |
| **WalkSimulator** | none | `ActivatePPath` | calls the user engine back at once | re-entrance | |
| **MSADualLoop** | inner and outer index, best gap, saved assignment, two flags | `AssignPathsToTrips`, `IsRollbackNeeded` | the runner, whose iteration it decrements | ten branches that share flags | the best assignment met is the one committed; the loops end |
| **HeuristicDualLoop** | its particles or genomes | the same | the runner; several instances in parallel | many instances | as above |
| **Configuration, readers, launcher** | the options | reading XML and CSV | | | |

### 1.2 SymuVia

| Component | State | What is hard | What makes it correct |
|---|---|---|---|
| **Affectation, SimulationSnapshot** | stack of snapshots | validating the earlier ones, discarding the later ones, naming the files | a restored network is the saved one |
| **CSV writer, XML documents, travel times** | main files, temporary files, the pointer to the current snapshot, the data of the period | they follow the stack each in its own way, periods straddle snapshots | the files tell the history of the current state |
| **Network and vehicles** (`reseau`, `vehicule`, `tuyau`, `voie`, car following) | positions and speeds | floating point, order of vehicles | |
| **Meso nodes and links** | arrivals, next arrivals and events of the nodes, passing times, supply times and occupancy of the links | the same event kept three times, supply postponed to infinity, entries refused, restore | no event refers to somebody gone or comes too late; whoever can go on is woken; capacity and storage are kept |
| **Traffic lights** | the cycle, a priority plan, its mode, the buses being processed | the plan is rebuilt from the one in force at each detection; readers of later times | no crossing greens, green for expected buses, back in phase with the minimum of green |
| **Merges, roundabouts** | ratio counters | | ratios respected |
| **Fleets, stops, car parks** | schedules, lists of waiting passengers, capacities | boarding across steps | nobody lost, capacity kept |
| **Sensors** | accumulated measures | sampling periods | each passage counted once |
| **Regulation, ITS, exporters** | user-defined, optional, or pure output | | |

### 1.3 Interactions

* The runner calls the fan-out, which calls every handler, which calls its instances *below the number
  in use*, and stops at the first one that returns false. It then calls the user engines, which cannot fail.
* Each instance is stepped by a thread of its own. The runner joins the threads in order.
  The threads share nothing but what the runner set before it created them.
* The user engine hands legs to simulators. A simulator calls `OnPPathCompleted` when a leg is done: the
  walking simulator inside the activation itself, the others in the middle of their step.
* The assignment model is asked three things: how many instances it wants, which paths the trips get,
  and whether to go back. It holds a *reference* to the runner's iteration number.
* In SymuVia every output writer is told of each snapshot taken, validated or discarded.
* A time step of SymuVia first finds the nodes' earliest event, moves the microscopic vehicles, updates the
  lights, writes the outputs and then simulates the mesoscopic events up to the end of the step. Vehicles ask the lights for the colour
  of the step that begins, mesoscopic nodes for the next green after an instant to come.
* A vehicle that reaches the end of a microscopic link is offered to the mesoscopic node there, which may refuse it; one that leaves the
  last mesoscopic link needs room on the microscopic one.

The hazards this gives rise to are listed, each at its line, in `PROJECT.json`, with the properties
that watch for them; those no property covers yet say why.

---

## 2. The modules

```
 CommittedTimeline            what a run promises
        ^  implements
 RollingHorizon  <--------  RollingHorizonProofs
   (SimulationRunner, fan-out, simulators' and users' period calls)
        |                          the parts, each seen from closer:
        +-- UserEngine  <-- MCUserEngine     users, legs, callbacks, arrival times
        |       ^ UserEngineProofs
        +-- SymuViaInstance                  one SymuVia instance
        |       |       ^ SymuViaInstanceProofs
        |       | extends
        |   SimulationSnapshots              SymuVia's stack of snapshots and its writers
        +-- DualLoop  <--  DualLoopProofs    MSADualLoop: when to go back, and with what

 Inside a SymuVia network, each with Backup and Restore of its own state:
   TrafficLights  <-- MCTrafficLights        a controller, its priority plan, its readers
        ^ TrafficLightsProofs
   MesoNetwork    <-- MCMesoNetwork          nodes, links and events of SimuTraficMeso
        ^ MesoNetworkProofs  <--  MesoPaceProofs

 Induction: what the proofs know of numbers and of recursive functions
```

### CommittedTimeline

The abstract specification: a sequence of steps without gap or overlap, grown by a whole assignment
period at a time, all of it under one assignment and with outputs on, never taken back. It has two
actions, `CommitPeriod` and `Fail`.

### RollingHorizon

| In the module | In the code |
|---|---|
| `period`, `clock`, `iteration`, `redoing`, `nb`, `batch`, `ended`, `ok` | members and locals of `RunNextAssignmentPeriod` |
| `StartIteration`, `NeededFails` | the head of the `do` loop (`SimulationRunner.cpp:378-420`), with `AssignmentPeriodStart` of every participant |
| `StartBatch` | the head of the batch loop: rollback between batches, `AssignPathsToTrips`, creation of the threads |
| `thr[i]`, `TakeEndSnapshot`, `StepInstance`, `ComputeCosts` | `SimulationThread` and its `run`: one action between two points where another thread's progress could matter |
| `Join` | `wait` on each thread, and the merge of its result |
| `RollbackIteration`, `RedoIteration`, `CommitPeriod`, `DecideFails` | what follows the batches (`:540-610`) |
| `CallSims`, `Called`, `Before` | the fan-out and where a failure stops it |
| `SimStart`, `SimRollback`, `SimCommit`, `UserStart`, ... | the period calls of `SymuViaInstance` and `UserEngine` |

*Abstractions.* A participant's state is its history: the steps it simulated, each with the
runner's time, the assignment and whether trajectories were output. Two participants agree when their
histories do, so forgetting to restore one is visible as a gap, a double step or a step under the
wrong assignment. An assignment is named by the period, iteration and instance it was made for, so that two
different ones are never confused. `Dt` is the longest time step of the simulators: when two of them
have different time steps, `Step` runs the short ones inside the long one, which is one step here.
A call of `FailingCalls` may return false; the call that fails changes nothing, those before it in the
fan-out have been made. In the code SymuVia's rollback and commit always return true, so
"rollback" and "commit" failures are the MFD simulator's. The decrement of the iteration by `MSADualLoop`
is in `DualLoop`; here the iteration only counts up, to `MaxRollbacks`.

*Precondition.* `ClocksAgree` needs the assignment period to be a multiple of the longest time step:
the runner sets its clock to the *nominal* end of the period (`SimulationRunner.cpp:604`) while the
snapshot was taken at the last step boundary not after it (`:288`). With `Dt = 2` and `AssignLen = 3` TLC finds the
clock of the runner and of the simulators to part. Nothing in the code checks that the configured durations
are aligned. The schema also asks for an assignment period no longer than the prediction period
(`SymuMasterConfig.xsd:257`); the checked instances respect it. Of the theorems only those of section 6 that speak of
clocks and of the refinement assume the two (`Aligned`).

### UserEngine

The state of one engine (`all`, `owned`, `next`), of its path writer (`written`), the users inside
external simulators (`travelling`) and a record of every leg handed over (`journal`), which are
external state that goes back with the rest. `Run` is one action: activation of the trips that depart, collection of those
that are due, activation of their legs, walks completing inside. `OnPPathCompleted` is the callback of another simulator,
in any order, with a delay that may lie after the end of the step (as a bus stop reports it). How
`CreateTrackedUserFromTrip` cuts a path is a choice among `Plans`; the trips of `Unroutable` are those for
which it returns no user, which are passed over. The period calls follow `RollingHorizon`'s protocol.

### SimulationSnapshots and SymuViaInstance

`SimulationSnapshots` is the stack of `Affectation` and the files that follow it; its actions are the exported calls,
free of any client. A step carries the number of rollbacks before it, so that a step done again is a different
row. Trajectories, XML and CSV outputs are taken to be asked for in the configuration. The XML rows hang on the last snapshot
of the stack and are saved only while `SymDisableTrajectoriesOutput` has not switched them off (`DoSortieTraj`, `reseau.cpp:2365`).
The CSV rows are written at every step, whatever the switch says (`:2330`); they go where the writer's own
pointer `cur` says, to a file named by an index. `XmlFollowsHistory` is thus about the steps made with the outputs on and
`CsvFollowsHistory` about all of `hist`: the rows written during the iterations that are thrown away must go with
their files. The travel times are not written row by row: `travel` is
the manager's period number and the steps gathered in it (sensors and measured times alike), a period is written to the
current document when a step reaches its end, and `Backup` and `Restore` keep both. The CSV writer and the travel time manager
each have a pointer to the current snapshot; both are set and cleared in the same calls and `cur` is either.
`FinSimuTrafic` writes what is left of the last period. `SymuViaInstance` extends all this with the adapter's flag
and restricts the calls to the orders in which the runner makes them.

### DualLoop

`AssignPathsToTrips` is `AssignFirstPaths`, `SwapTrips`, `SimulateAgain` or `AssignFails`;
`IsRollbackNeeded` is `RetryBest`, `NextInner`, `ConfirmBest`, `Initialization`, `NextOuter`, `Stop` or
`DecideFails`, one for each way through the function. An assignment is its gap and whether it is the saved best one.
The simulation is deterministic (a snapshot holds the count of random draws), so simulating the
best assignment again gives its gap again. Swap sizes, costs, path sets and whether new paths
are found are choices.

### TrafficLights

One controller (`ControleurDeFeux`) with its cycle of sequences, the priority plan `ex` put in front of it, the mode
(`N`ormal, pre-priority `O`, `P`riority, post-priority `Q`) and the buses being processed.

| In the module | In the code |
|---|---|
| `BaseAt`, `SequenceAt`, `GetSequence`, `AfterReading` | `GetTrafficLightCycle`, `GetSequence`: reading past the end of the return plan discards it |
| `Colour`, `NextGreen`, `NextTurn` | `GetCouleurFeux`, `GetInstantVertSuivant`, a turn of its loop |
| `Detect`, `DetectFirst` (`CurrentShortened`, `CurrentProlonged`, ...), `DetectFurther` | the first part of `Update`: which plan a detected bus gets |
| `PrePriority`, `Priority`, `ReturnPlan`, `Raised`, `PostPriority` | the other three parts, always in this order within one call |
| `Step` | a time step: vehicles pass the upstream detector, the zone and the exit in order, then `Update` |
| `ReadAhead` | a mesoscopic node that asks for the lights at a later instant (`reseau.cpp:15429`) |
| `TakeSnapshot`, `Restore`, `SharedPlan` | the controller's part of `SimulationSnapshot`; the plan is kept by pointer, so it is the same object after |

Time is in 504 ticks per second, so that the stretching of the return sequences (a product and a quotient) is exact for
the lengths used. A bus is a place on its line; how long it needs from one detector to the next is a choice.
`TrafficLightsAssumption` says what the plans that are loaded satisfy and what the controller supposes of them: sequences last whole seconds and have signals,
activation delays are not negative (the schema says so), movements that cross have no sequence in common, the lines of the buses do not cross each other or the sequence they share; and
no instant or clearance, nor twice the cycle (`CycleAssumption`), reaches `DBL_MAX`, the length of an endless sequence.
Not modelled: plans sent from outside (`SendSignalPlan`), several plans in a day, and the
estimation of the time to the zone, which is a choice of `Estimates`.

### MesoNetwork

The nodes and links of `SimuTraficMeso` inside the steps of `SimuTrafic`.

| In the module | In the code |
|---|---|
| `net.arr`, `net.next`, `net.event` | the three copies of what comes next at a node: `m_arrivals`, `m_NextArrivals`, the node's event |
| `net.supply`, passing times, ranks | `m_dNextSupplyTime`, `m_upstreamPassingTimes`, `m_downstreamPassingTimes`, `m_mapRanks...` |
| `Refreshed` | the head of the loop: supply times that were postponed are computed again |
| `Passed`, `Withdrawn`, `Entered`, `SupplyAfter`, `Announced` | the event itself: the vehicle leaves its link, enters the next one or is refused, the supply of both links changes, its arrival is announced downstream |
| `UpdateNode`, `Candidates`, `Selections`, `WithSelection`, `Updated` | the nodes to update, one after the other: who comes next, at what time |
| `Earliest` | the sorted list `m_mesoNodes` |
| `Started`, `MicroStep`, `MesoStep` | the parts of a time step |
| `Demanded`, `Generated`, `Ended`, `MicroEnd`, `Accepted` | a vehicle created at an entry, one handed over by a microscopic link |
| `TakeSnapshot`, `Restore` | the nodes' and links' part of `SimulationSnapshot`, with what it does not clear |

`Never` and `Past` stand for the two infinite times. `net.led` is a history, which nothing reads but `GapRespected`: whether a vehicle had
left the link when the last one entered it, without which the code does not compute the gap (`reseau.cpp:15168`). `SimuTraficMeso` is one action: nothing else runs
meanwhile. Links have one lane. At most one vehicle is created and one reaches the end of a microscopic
link in a step; when is a choice. `MesoNetworkAssumption` says what the loading of a network and of the routes ensures: an
entry leads to one link, which is mesoscopic here ("an input can't lead to multiple links", `reseau.cpp:6995`), and a route is a sequence of links that follow one another, each
taken once, that starts at an entry or on a microscopic link and ends at an exit or on one; and no time computed up to the last
instant reaches `DBL_MAX`. Not modelled: overtaking between lanes, stops, bricks, the
supply given by lights, and switching a link from one mode to the other.

Definitions commented *Variant to test the properties with* are plausible mistakes. Nothing in the models uses them:
each property has been seen to fail with one of them in place of the definition it varies.

---

## 3. The runs

| Configuration | Module | Checks | Result |
|---|---|---|---|
| `RollingHorizon` | `RollingHorizon` | `TypeOK`, `SnapshotDiscipline`, `OneTimeline`, `ClocksAgree`, `CommittedUpToClock`, `WholeHorizonSimulated`, `RunEnds`, `ImplementsTimeline` | hold, 42 988 states |
| `UserEngine` | `MCUserEngine` | `TypeOK`, `LegsOnceInOrder`, `NobodyLost`, `ArrivalsFollowLegs`, `LatenessBounded` | hold, 296 395 states |
| `SymuViaOutputs` | `SymuViaInstance` | `TypeOK`, `XmlFollowsHistory`, `CsvFollowsHistory`, `TravelTimesFollowHistory`, `WritersAgree`, `OutputsCommitted`, `SnapshotsInPlace` | hold, 22 256 states |
| `DualLoop` | `DualLoop` | `TypeOK`, `CommittedIsBest`, `IterationsBounded`, `LoopsEnd` | hold, 3 495 states |
| `TrafficLights` | `MCTrafficLights` | `TypeOK`, `PriorityPlanInForce`, `NoConflictingGreens`, `ProcessedBusGreen`, `ReturnInPhase`, `ReturnKeepsMinGreen`, `NextGreenIsGreen` | hold, 529 928 states |
| `MesoNetwork` | `MCMesoNetwork` | `TypeOK`, `OnePlace`, `EventsConsumable`, `NoLostWakeup`, `NoEventMissed`, `ExitCapacityKept`, `LinkCapacityKept`, `GapRespected`, `RefusedRetriesLater` | hold, 180 674 states |
| `HorizonBatchRollback` | `RollingHorizon` | `BatchStartsFromBase` | violated, see section 5 |
| `DualLoopInitialization` | `DualLoop` | `QualityAssured` | violated |
| `DualLoopRelative` | `DualLoop` | `RelativeGapReached` | violated |
| `LightsShared` | `MCTrafficLights` | `ProcessedBusGreen` | violated |
| `MesoDeadlock` | `MCMesoNetwork` | `BlockedNodesReleased` | violated |
| `MesoCapacity` | `MCMesoNetwork` | `CapacityKept` | violated |

**RollingHorizon** runs an assignment model that wants up to three instances when two may run in
parallel: batches of two and one, threads interleaved, a different number of instances at each iteration. Any call but a
rollback may fail (section 5 says why not a rollback; the theorems of section 6 cover one that fails where iterations are one
batch). `ImplementsTimeline` shows that a run is a run of `CommittedTimeline`: retries, redone iterations and predictions are invisible.

The end (5) is a multiple neither of the assignment period (2) nor of the prediction
(3): the last assignment period is shorter, the prediction outlives the period in the first two and is cut by the
end of the simulation in the last, so commits with one and with two snapshots both happen. The update period (2)
does not divide the prediction, so that the last update period is a short one. Two simulators let a fan-out fail between them.
Three periods are a first, a middle and a last one. `MaxRollbacks = 2` lets an iteration follow one that already
followed another; nothing depends on the iteration number otherwise. With at most two threads at a time, batches of
full and of partial size occur, and so does the exact division (`nb = 2`).

**UserEngine** has four trips of two populations: two depart in the same population in different steps, one at 0, one cannot
be carried. A walk (1) is shorter than a step (2), so a walk completes in the step it starts in, and two walks in a row make the user
wait in between. Delays go up to 3, beyond the end of the step. Three steps and one rollback allow a period to be
rolled back with users in any position, in the first or in a later period. The engine stops at `EndTime`, so deadlock is not
checked.

**SymuViaOutputs** lets the adapter make up to 8 steps and 4 rollbacks (a commit that goes back to the
second snapshot is one of them), enough for three periods with retries, in every cut of the steps into periods. A travel
time period of three steps straddles snapshots in every way: its end before the first, between the two, after both. The
network may be closed between any two periods. It stops at its bounds, so deadlock is not checked.

**DualLoop** takes three inner and two outer iterations, a total of 5 that can stop the loops anywhere, gaps 0 to 2
(two gaps to compare and one in between) and two periods, so that what is left over by the first is seen by the second.
All three convergence tests are tried.

**TrafficLights** has a cycle of three sequences (4, 5 and 3 s), two crossing movements and two buses of total priority on the main one;
15 s are more than a cycle, so that the detection falls in each sequence and the priority's return
begins in this cycle or the next. The bus is expected at once, after some time or after a whole cycle, which makes the current sequence be shortened or
prolonged, and a second bus may be detected in any mode. There is one snapshot and one rollback, and a reader of later instants
at any step. `ReturnInPhase` is about return plans of two sequences: one that is brought back by a third sequence or was raised
to the minimum of green ends inside a sequence, which is what the code does. `NextGreenIsGreen` is
stated for instants after 0, and checked on a cycle without activation delays (section 5).
**LightsShared** makes the line's priority a shared one, in the sequence that has a signal for it.

**MesoNetwork** has two mesoscopic links that meet at a node: `linkA` comes from the entry, `linkB` is fed by a microscopic street. From there
`linkC` leads to the exit and another microscopic street leaves, so that the node arbitrates between two ways in and two ways out. Six vehicles, one of them from the
street, which it may leave at any time. `linkA` takes 7 to cross and holds one vehicle, which makes entries be refused; the headway (3) is longer than `linkB`
takes to cross (1), so that its vehicle can come to the node within the headway after any other. `linkC` takes 4 to cross and holds two: its
supply is postponed while vehicles are on it and computed again when one leaves, from the gap and from the headway. The exit lets one vehicle out every 4, so that queues form behind it.
Thirty instants let all the vehicles through on most paths. Snapshots may be taken every fourth instant and one rollback falls at any such instant after.
`NoEventMissed` is stated up to the first rollback, after which the list of nodes is no
longer sorted (`Restore` does not sort it) until the next change of an event. Time is bounded, so deadlock is not checked.
**MesoDeadlock** and **MesoCapacity** take the same network with links that take 1 to cross and hold one vehicle, every other vehicle from the street and no rollback: a link
can then be empty again before its postponed supply is computed.

---

## 4. Fairness

*RollingHorizon* assumes weak fairness of the runner and of each thread. They are operating system threads; a thread
waits for nothing, and the runner only for the thread it joins, so each is scheduled
eventually. No fairness is asked of which result a call gives or of the model's decision: the
model stops asking for iterations because of the bound, which stands for what `DualLoop` shows.

*DualLoop* assumes weak fairness of its one thread, which waits for nothing. That its loops end
(`LoopsEnd`) rests on no fairness of the choices: every path through the branches ends.

The other modules have safety properties only. In `MesoNetwork` every step of the code is one action that is
always possible up to the time bound; what must not happen for ever (an entry that is refused and tried again at the same instant, a
vehicle nobody wakes) is stated of each state or step instead: `RefusedRetriesLater`, `NoLostWakeup`.

---

## 5. Findings

* **A rollback that fails between two batches is ignored** (`SimulationRunner.cpp:442`). The comment above the call says
  "we have to rollback between each batch", and the two other rollbacks of the function stop the run when they
  fail. Only the MFD simulator can fail there. `HorizonBatchRollback` shows the threads of the second batch started
  on a simulator that still stands at the end of the first one's prediction. It is also why the
  theorems of section 6 assume that such a rollback does not fail: the batch adds snapshots on top of those
  that were not dropped.
* **The switch stops the XML rows only** (`reseau.cpp:2330`; a remark, no document says otherwise). The iterations SymuMaster knows it
  will roll back are run with the trajectories disabled, but their CSV rows are written all the same, to temporary files that
  the rollback removes. Nothing of them is left in the main file (`CsvFollowsHistory`, `OutputsCommitted`).
* **Validating two snapshots at once loses rows of the CSV output** (`CSVOutputWriter.cpp:314`). `converge` opens the temporary file
  without an index whatever the snapshot. SymuMaster never validates two at once,
  which `SymuViaOutputs` checks; only another client of the exported calls can meet it (`CsvFollowsHistory` is violated by
  `SimulationSnapshots!Spec`, which leaves the calls free).
* **With `is_initialization` the best assignment may not be the one committed** (`MSADualLoop.cpp:744`). `Initialization()` sets
  `m_bChangeInitialization`, which is cleared on one path only (`:1052`); when the loops stop
  before it, the trips are never put back to the saved assignment (`DualLoopInitialization`).
* **The relative convergence test compares a gap with itself** (`MSADualLoop.cpp:2490`), so that it always declares
  convergence; the schema describes it as relative to the previous outer loop's gap (`DualLoopRelative`).

* **A shared priority may leave its bus at red for ever** (`ControleurDeFeux.cpp:567`). The endless sequence is a copy of one that has a signal for the
  same movement; the endless signal is appended after it and never read, although the comment at `:583` says
  it is there to let the arriving vehicle go. The priority lasts until the bus has passed, which it cannot (`LightsShared`).
* **The call that should unblock the mesoscopic nodes can strand them** (`reseau.cpp:15734`). When no node has an event, the time of the loop is
  `DBL_MAX`, and `UpdateNode` raises the chosen vehicle's time to it: event, arrival and next arrival become infinite, although
  the comment at `:2050` says that the call is made to unblock the situation at the next step. Only another vehicle coming by
  updates the node again (`MesoDeadlock`). `NoLostWakeup` is stated of the nodes where no arrival is at `DBL_MAX`.
* **A mesoscopic link that empties forgets its headway** (`reseau.cpp:14833`). When a postponed supply time is computed again and nobody is on the link any
  more, it becomes `-DBL_MAX`. The comment (`:14831`) gives the reason for a link that was microscopic before and has no history; but a link whose only
  vehicle left before the next call gets there too, and the next vehicle enters less than a headway after it (`MesoCapacity`). As long as somebody is on the link the
  headway is kept: `LinkCapacityKept`, which is proved.

Others were met while modelling and are listed as hazards or remarked here:

* `max_innerloop_iterations = 0`, which the schema allows, lets a worse assignment be kept (the theorem `BestIsCommitted` assumes it is not 0).
* Restoring a mesoscopic node does not clear its next arrivals; in the runs the copies that stay are of links
  whose arrivals and events are restored, and do no harm. Restoring does not sort the list of nodes.
* The travel times of the first step are never reported, and with a period of one time step each period is reported
  with the data of the next step (`TravelTimesOutputManager.cpp:110` closes one period at most in a step).
* Nothing bounds the occupancy of a mesoscopic link before a first vehicle has left it (`reseau.cpp:15168`), and vehicles
  created at an entry or handed over by a microscopic link do not keep the headway of the link (`SymuViaTripNode.cpp:709`, `MesoNode.cpp:80`): `LinkCapacityKept`,
  `ExitCapacityKept` and `GapRespected` are stated where the code does bound them. Of two vehicles raised to the same time the one with the lower
  number goes first, whatever the order they came in.
* A traffic light plan that cuts the current sequence ignores the minimum of green of that sequence.
* With an activation delay the next green announced may be red (`ControleurDeFeux.cpp:1007`): the sequence under way is taken for one that begins at the
  instant asked, and the instant plus the delay is kept as the next green even when the green of that sequence is over. It is returned if the next sequence
  has no signal for the movement. `ControleurDeFeux.h:296` says that it is the beginning of the next green, and a mesoscopic node lets a vehicle go then.
* With a shared priority, a bus expected within the clearance time gets a plan whose cycle is added up before its sequence is
  lengthened and may be zero or negative (`ControleurDeFeux.cpp:466`); `GetSequence` divides by it (`:250`). `LightsShared` uses longer estimates, and
  `GreensDoNotConflict` is about total priority.

---

## 6. Proofs

TLAPS proves the following for every value of the constants allowed by the named assumptions.

### RollingHorizonProofs

Under `Reliable` (a rollback may fail only where every iteration is one batch, `ModelMax <= MaxParallel`, as in any sequential run; every other
call may fail anywhere; a call that fails stops half-way through the simulators), for any durations, numbers of simulators, instances,
batches and iterations:

* `TypesAreCorrect`: `Spec => []TypeOK`;
* `SnapshotsAreDisciplined`: `Spec => []SnapshotDiscipline`. No participant has more than two snapshots, and at a commit each has exactly the
  ones the commit indexes;
* `HorizonIsCovered`: `Spec => []WholeHorizonSimulated`. A thread that ended well simulated the whole
  prediction, whether or not the update periods divide it.

All follow from `Invariance`: `Spec => []IInv`. None of the three is inductive. That a commit finds two snapshots everywhere depends on every thread of every batch
having taken one at the same clock, which depends on the numbers of batches and threads adding up to the
number of instances started, on the window of each thread, and on what was left by the instances an earlier iteration used and this
one does not. `IInv` says that, in six parts:

| Part | Says |
|---|---|
| `RunnerOK` | types of the variables of the runner and of the threads |
| `Sound` | every participant's record is well formed, with a flag that tells the truth |
| `PeriodInv` | each period starts at its multiple of the assignment period, and a run that failed is not taken up again |
| `BatchInv` | the sizes of batches and how many threads have been joined |
| `ThreadInv` | each thread is on the grid of time steps from the start, in the window of its update period, and has taken its end snapshot exactly if it passed the end of the assignment period |
| `KeptInv` | how many snapshots each instance has, by the place of the runner, the state of its thread and whether it was started in this iteration |

The proof has a lemma for each action, lemmas on one call to a record and on the fan-out, and lemmas on the
arithmetic of ceilings, windows and batches (`CeilDivBounds`, `BatchBounds`, `UpdatesCover`, `Grid`, ...). `IInv` was
checked by TLC on two instances before it was proved.

The second half of the module is about the histories. Under `Reliable`:

* `ParticipantsAgree`: `Spec => []OneTimeline`. All instances of all simulators, user engines and path writers agree on where the
  current period started, whatever was tried, rolled back or redone;
* `BatchesStartFromBase`: `Spec => []BatchStartsFromBase`, so that the first finding of section 5 has no other cause than a rollback that fails between two batches.

With `Aligned` (the assignment period is a multiple of the time step and no longer than the prediction; the first is the precondition of
section 2, the second the schema's):

* `StepsAreOnTime`: `Spec => []ClocksAgree`, and `CommitsReachTheClock`: `Spec => []CommittedUpToClock`;
* `RunImplementsTimeline`: `Spec => ImplementsTimeline`, with `WholeSimulation` (the end is a multiple of the time step; otherwise the last step
  goes beyond it). Every step of the detailed specification is a step of `CommittedTimeline` or a stutter.

`TInv` extends `IInv` by what the histories are. Every record of an instance that was called in this period has the same base (`OneBase`),
stands on it, or on it followed by the steps of its own thread's plan, its snapshots at the points of it where they were taken (`WalkInv`,
`DoneInv`), and an instance that does not simulate stands where the period started (`RestInv`), and the trajectories are output only in the iteration to be committed, which runs under one assignment (`ChoiceInv`). Nothing weaker is inductive: that the
commit gives everybody the same state needs each instance's second snapshot to be a known number of steps after the base, under the assignment and with
the outputs of the iteration that is committed. `CInv` adds that step `k` of any history, those kept in snapshots included, is at `(k - 1) * Dt`.

### UserEngineProofs

For any demand, cuts of the paths, durations, delays and number of rollbacks (`UserEngineAssumption` only says what type each constant has):

* `EachLegOnce`: `Spec => []LegsOnceInOrder`;
* `NobodyIsLost`: `Spec => []NobodyLost`;
* `ArrivalsAreKept`: `Spec => []ArrivalsFollowLegs`;
* `LatenessIsBounded`: `Spec => []LatenessBounded`;
* `EngineTypeOK`: `Spec => []TypeOK`.

The invariant is one statement, `EngineOK(e, h)`, about the record `e` of an engine and the time `h` its activity has reached; it holds of the present
state and, since a rollback puts them back, of each snapshot at its own clock. It ties the index in the demand to who was activated, the legs counted by
a user to those of the journal and to the arrival times written (a user being in a simulator is the one leg between the two), and
keeps the arrival times in order. `Run` activates any number of users, walks completing inside: the proof of it treats one
user at a time.

### SymuViaInstanceProofs

For any bounds on steps, snapshots and rollbacks, under the calls of the adapter:

* `SnapshotsAreInPlace`, `WritersStayTogether`: `InstanceSpec => []SnapshotsInPlace`, `=> []WritersAgree`;
* `OutputsAreCommitted`: `InstanceSpec => []OutputsCommitted`;
* `XmlTellsHistory`, `CsvTellsHistory`: `InstanceSpec => []XmlFollowsHistory`, `=> []CsvFollowsHistory`;
* `InstanceTypeOK`: `InstanceSpec => []TypeOK`.

`CsvTellsHistory` is about every step made, with the trajectories switched off or not; `XmlTellsHistory` about those made with them on.

None of them is inductive. The invariant adds that each temporary CSV file holds exactly the steps between its snapshot and the next, that
each temporary XML document holds the same if trajectories are output and nothing otherwise, that outside a period at most one snapshot is left and it is where the history ends, and that the pointer
and the indices in the names of the files are those of the stack. The second finding of section 5 is why this is about `InstanceSpec`: free calls violate
`CsvFollowsHistory`.

* `TravelTimesTellHistory`: `InstanceSpec => []TravelTimesFollowHistory`, under `LongPeriods` (a travel time period longer than a time step; section 5
  says what happens otherwise). `TravelInv` gives, for the network and each snapshot, the period number and the
  measures gathered at the end of its history, and for each document the periods that ended in its part of the history.

### DualLoopProofs

* `BestIsCommitted`: `Spec => []CommittedIsBest`, under `Regular` (no initialisation, which the third finding makes necessary, and at least one inner iteration);
* `IterationsAreBounded`: `Spec => []IterationsBounded`, with the decremented iteration, in every configuration;
* `DualLoopTypeOK`: `Spec => []TypeOK`, in every configuration: the decrement never makes the iteration negative.

The invariant adds to `TypeOK` that an assignment that was simulated again is the saved one and comes after an iteration
that counted, so that the decrement never reaches the first one (`RetrySound`), that the saved gap is the lowest since paths last changed (`BestTracksLowest`), that inside the loops
every gap has been compared (`ComparedInside`), and bounds on the outer and total counts. The last two theorems need less of it (`Bounded`).

### TrafficLightsProofs

For any cycle, buses, movements, estimates and number of rollbacks:

* `PriorityHasItsPlan`: `Spec => []PriorityPlanInForce`;
* `GreensDoNotConflict`: `Spec => []NoConflictingGreens`, with `TotalPriority` (no line shares a sequence);
* `BusesFindTheirGreen`: `Spec => []ProcessedBusGreen`, with `TotalPriority`;
* `ReturnsInPhase`: `Spec => []ReturnInPhase`, with `ExactTicks`: the seconds of two sequences that follow one another divide the ticks of a second, so
  that the lengths of a return plan of two sequences are exact, as in the code, where they are doubles. With rounded lengths the statement is false;
* `ReturnsKeepGreens`: `Spec => []ReturnKeepsMinGreen`, with `LongGreens`: the greens of the cycle last the minimum at least. The schema asks for it
  (`reseau.xsd:3515`, with a warning otherwise); without it a return plan that is not shortened has the short greens of the cycle;
* `GreensAreAnnounced`: `Spec => []NextGreenIsGreen`, with `NoDelays` (section 5 says why it is needed) and `FarEnd`: the simulation ends
  two cycles after the last instant asked, the end being what stands for no green;
* `LightsTypeOK`: `Spec => []TypeOK`.

`TypeOK` alone is not inductive: the length of a return plan is a quotient, the index of a sequence a choice among those that end after an instant, and both are
numbers only if the plan in force is longer than the time spent in it. `IInv` says that the controller, and the one kept in the snapshot, is `Good`: while buses are processed
its plan ends with an endless sequence whose movements no bus crosses, and it knows two successive sequences to return to; in
post-priority its plan lasts a second at least and ends at `fin`; and each sequence of either lets no two crossing movements go. `Standing` adds the buses: in priority none of those being processed
is out of the network, which is what keeps the list from becoming empty by a restore. `Linked` is about the plan that a restore shares with the
snapshot: a bus detected later changes the plan *of the snapshot* too, which does no harm because both are then in a mode of priority. The
hardest lemma is `ReturnPlanOK`: the lengths shared out, rounded down, of two or of three sequences still add up to a second. Those of three are divided by a sum from which
the time spent in the sequence under way is taken off (`ControleurDeFeux.cpp:729`). It is positive because a third sequence is added only when less
time is left than usual, which happens only in the first of the two (`FirstUnderWay`), so that what is taken off is less than the length it is taken from.

The green of the buses and the return need an invariant each, over `IInv` (`LeadInvariance`, `ReturnInvariance`):

* `LeadInv`. `Leads(c)`: the plan of priority reaches its last sequence within `due - deb` seconds (`Prepares`), the last sequence has no signal that is ever red
  (`AlwaysGreen`), and it has one for every bus being processed. Each of the three ways of preparing an arrival is a lemma
  (`MinimumRespectedBrings`, `CurrentShortenedBrings`, `CurrentProlongedBrings`). What makes it hard is the plan that a restore shares with the snapshot: a bus
  detected later rewrites the plan of the snapshot, so that the invariant must say that the dates of both are the same and that operations only add movements
  to the last sequence (`Grows`). The hypothesis `TotalPriority` is the one that finding `LightsShared` shows to be needed.
* `ReturnInv`. `ReturnsWell(c)`: the return plan of the controller, and of its snapshot, ends at the end of its second sequence in the cycle, and keeps the minimum of green, each under its
  hypothesis. The first holds when the plan is made by `ReturnPlanInPhase`: the lengths that follow a sequence up to another are the difference of their ends, a cycle apart if
  need be (`LengthIs`), so that the time to the end leads to that end (`LeadsToTheEnd`), where the next sequence begins (`AtTheEnd`).
  The second is `ReturnPlanKeepsGreens`. With more time than usual each sequence gets longer, and its greens with it. With less, the sequence under way is the first of the two, and the
  time left is short of the usual by the time `e` spent in it. What the greens of a sequence have above the minimum, when that is not enough, is less than its part of `e` (`ShareLacks`), so that the
  two together lack no more than `e` (`LacksTogether`). The sequences raised to the minimum have lost just that: with the third one they last as long as the sum they are divided by,
  which has lost `e`, and each of the three gets its length of the cycle at least (`LongerShare`).

`NextGreenIsGreen` needs no more than `IInv` (outside the modes of priority the cycle is what is read), but the loop has to be gone through. `LoopUnrolled` gives its turns up to the one that ends it. `Searching` is what is known after a turn:
the sequences from the one under way are passed in order, numbered on over the end of the cycle (`Numbered`, `EndOfNumber`), and none that was passed has a green after the instant asked.
The loop ends with the first green (`GreenFound`) or, when a sequence without a signal for the movement comes a second time, with none in the whole cycle (`NoGreen`).

### MesoNetworkProofs

For any network, routes, times to cross, capacities, microscopic side, creations and number of rollbacks (`MesoNetworkAssumption`, section 2):

* `EventsCanBeSimulated`: `Spec => []EventsConsumable`. The assertion of `SimuTraficMeso` on the list of arrivals never fails;
* `EachVehicleInOnePlace`: `Spec => []OnePlace`;
* `NoEventIsMissed`: `Spec => []NoEventMissed`;
* `MesoTypeOK`: `Spec => []TypeOK`.

`MesoInvariance` proves the invariant `IInv`. Its main part is a statement `NetInv(s, D)` about the record `s` that a snapshot holds. It is true of the network and of its
snapshot with `D` empty, and *in the middle of a call* with `D` the nodes still to be updated, whose events may refer to somebody who has just gone. This is what
makes the proof of a call possible: the refresh of the postponed supply times adds the nodes they concern to `D`, the passage adds the node and the one downstream, and
each update takes one out (`UpdateChain`, `AllUpdated`).

| Part | Says |
|---|---|
| `NetType`, `EventsOK` | types; an event is about an incoming link of its node |
| `Placed` | where each vehicle is: in one list of arrivals at most (`ArrivalsOK`), on one link, on a mesoscopic one exactly if it arrives at its end (`LinksOK`), waiting before its first link exactly if it arrives at an origin (`WaitOK`), on its route once created (`RoutesOK`) |
| `Counted` | the vehicles on a link are those that entered it less those that left it |
| `Consumable` | the event of a node outside `D` is the next arrival of its link, and that is in the list |
| `FrontInv` | up to the first rollback the first node is the earliest, and no event is before the step that has just ended |

A vehicle created or handed over replaces the event of its node together with the next arrival of its link, and only when it comes before that event; no other
node's event can refer to that link (`KeyOwner`: an incoming link belongs to one node). A restore keeps next arrivals of keys that had none in the
snapshot; no event of the snapshot refers to them (`RestoreInv`).

### MesoPaceProofs

The times of the same network, in the same generality:

* `NoNodeIsForgotten`: `Spec => []NoLostWakeup`;
* `ExitsKeepTheirRate`: `Spec => []ExitCapacityKept`, and `LinksKeepTheirRate`: `Spec => LinkCapacityKept`;
* `GapsComeBack`: `Spec => GapRespected`;
* `RefusalsMoveOn`: `Spec => RefusedRetriesLater`.

`MesoPaceInvariance` proves a second invariant over the first, of the network and of its snapshot. Its main part is `PaceInv(s, G, D)`, `D` being as above the nodes still to be
updated and `G` those whose events are compared with the supply times:

| Part | Says |
|---|---|
| `TimesOK` | no passing time recorded is after the step in progress, no arrival or supply time is after `DBL_MAX`: this is what makes the passages later than the recorded ones comparable with them |
| `ComesIn` | a vehicle that a microscopic link announces is about to enter a mesoscopic one |
| `LinksPaced`, `ExitsPaced` | the supply time of an occupied link, and that of an exit, is a headway after the last passage; the passages of an exit are spaced; the supply time of an occupied link that vehicles had left when the last one entered is postponed or not before the gap is back (`GapBack`) |
| `AfterSupply` | the event of a node of `G` outside `D` is not before the supply time of the link its vehicle takes |
| `Wakes` | a node outside `D` where vehicles wait has an event or a postponed supply |

That exits are spaced is not inductive: it needs the event to have been chosen with the supply time that is there *now*, whereas supply times
change in other calls. `G` is `Calm` between the calls: the nodes that are no origin and where no microscopic link comes in, the only ones whose events are set by updates alone. A supply
time changes in a call only with the nodes that read it in `D`, and a node that passes a vehicle is in `G` at the end of the call, calm or not, because it has just been updated, which is what
`RefusalsMoveOn` uses. `CallPaced` goes through a call: `RefreshedPaced` (a postponed time may become anything, and its node goes to `D`), `PassedPaced` (the link entered and
the node left), `AllPaced` (each update takes its node out). On the microscopic side a creation or a vehicle handed over disturbs one node, which is not calm, and leaves
it awake (`ComesPaced`). A gap that is back stays so when another vehicle leaves the link (`GapStays`). TLC checked the invariant on both networks before it was proved.

The proof required two of the assumptions of section 2, that a route ends at an exit or on a microscopic link and that times stay below `DBL_MAX`: without the
first a vehicle could want to leave through a node that is no exit, whose supply time nobody keeps; without the second a time that is computed could be taken for a postponed one.

### What the proofs rest on

`Induction` proves, from the library's well-founded induction, induction over a set of numbers and from it that a recursive function exists and keeps the type of its values
(`NatSetInduction`, `Recursion`, `RecursionType`). That is how the ends of the sequences of a plan, the detection of several buses
in one step and the sums of lengths are reasoned about. Nothing else is assumed but the named assumptions on
constants and the hypotheses above; TLC evaluates the former in every run.

### Model-checked only

* `RunEnds` and `LoopsEnd`, which are liveness properties under fairness: TLAPS does not prove them. Every safety and action
  property that a run finds to hold is stated by a theorem.

---

## 7. What is not modelled

* **Traffic itself**: positions, speeds, car following, lane changes. These are floating-point dynamics over a large
  network; a time step is one entry of a history. In particular *that a snapshot restores everything* of a network is taken as what
  restoring means (but for the travel times, the lights and the mesoscopic nodes, whose Backup and Restore are modelled field by field), and is a matter of comparing two states of the program rather than of checking a model.
* **Mesoscopic links and lights, in part**: several lanes and overtaking, stops, bricks, switching modes; plans sent
  from outside and several plans in a day (sections 2 and 3).
* **Costs and paths**: shortest paths, marginals, travel times and swap sizes are choices. The choices include every
  value the code can compute, within the bounds.
* **Simulators with two time steps**: `Step` is one step of the longest.
* **Initialisation and the end**: loading the demand, merging destinations, the `Terminate` of a run that failed.
* **The MFD model**: external Matlab code; its period calls are the ones that fail.
* **HeuristicDualLoop**: only the number of instances it asks for.
* **SymuVia's own convergent assignment** (`Affectation::Run`): not used under SymuMaster.
* **Regulation and ITS**: the conditions and actions are Python functions of the user, or need an external library.

---

## 8. Plan

Done: the modules above, in the order `RollingHorizon`, `CommittedTimeline`, `UserEngine`, `SimulationSnapshots`,
`SymuViaInstance`, `DualLoop`, then `TrafficLights`, `MesoNetwork` and the travel times; then the proofs of section 6, of every
safety property of the first six but those that other clients or configurations violate, of every one of `TrafficLights`, and of the
places, events and times of `MesoNetwork`.

Next, in order:

1. `HeuristicDualLoop`: its control, composed with the number of instances of `RollingHorizon`; an `MFDInstance` with the demand it
   remembers across rollbacks.
2. `HorizonTrips`: loading and sorting of the demand (`SortTrip`, dates), and the trips no model optimises; the cutting of a path into legs
   (`CreateTrackedUserFromTrip`) as a function, checked against a reference definition.
3. `Step` with two time steps, composed with `UserEngine`: what the engine's start-of-step time is when the long simulator's callbacks come.
4. In SymuVia: `Fleet` and `Stops` (trip nodes, boarding lists), `Parking` (capacity), merge ratios, the other sensors.
5. Shortest paths of SymuCore against a reference definition on small graphs.

Runs and bounds for these stay small: two or three users, vehicles, phases or nodes, and counters that
pass their limit by one.
