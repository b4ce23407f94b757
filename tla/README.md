# A model of the FITS scheduling core

The program plans and simulates the production of gear parts on a line of
machines. It reads a plant (machines, their clocks, change-over times, routes of
the models), the state of the site (what lies in which buffer), a shift book of
outages and the requirements of every day, and then simulates the line second by
second. Whenever the simulation returns, a planner may order one machine to
change over to another model. The program ends when everything required has
been delivered.

Everything runs in one thread. What makes it hard is not concurrency but the
length of the sequences of steps: every machine is a small state machine, a
second visits all of them, and the planner, the shift book and the daily
requirements all act on the same machines and the same books between two calls.

## 1. Inventory

| Part | Source | State it keeps | Operations |
|---|---|---|---|
| Machine | `machine.hpp`, `machine.cpp`, `jobs.cpp` | status, on/off line, mode, pending change-over and its target, time at which it is idle, input, work slot, output | `acceptable`, `workOn`, `changeOver`, `finishJob`, `setState`, `getCOTimeCost` |
| Product line, site | `productLine.hpp`, `models.hpp`, `loader.cpp`, `jobs.hpp` | the machines by process; does not change | the loaders, `isGenericProcess`, `clock`, `support`, `COB` |
| Simulator | `simulator.cpp`, `simulator.hpp` | clock, `JOP` (trays by model and process), triggers | `update`, `setup`, `simulate`, `moveJobToNextProcess` |
| Shift book | `shiftbook.hpp`, `loader.cpp:16-29` | queue of on/off entries | looked at once a second by `simulate` |
| Tasks | `tasks.hpp`, `tasks.cpp` | requirements by day, progress | `fill`, `empty` |
| `refresh` and main loop | `fits_core.cpp:711-874, 1924-2213` | `gTasks`, `jop`, `jobs` | read in days, plan, simulate, until `gTasks` is empty |
| Planner | `fits_core.cpp:130-485, 1684-1867` | none | chooses a machine and its next model |
| Older planner | `assigner.hpp`, `voter.*`, `configuration.*`, `envaluator.*` | - | the call in `main` is compiled out |
| Start of `main` | `fits_core.cpp:1941-2072`, `loader.cpp`, `utils.cpp:57-87` | the machines, their clocks, the first `jobs`, `jop` and `gTasks` | six loaders one after the other, each with an exit code of its own |
| Requirements file | `fits_core.cpp:989-1091`, `tasks.hpp:37-50` | the tasks of a date, the date of an index | `parseRequirement2`, `put` |
| Surplus machines | `fits_core.cpp` | - | `setCapacitySurplusMachineOffLine`: without effect |
| Messages | `mq.hpp` | - | every call is commented out |

How they interact: the loaders fill the plant; `main` enters the trays found on
the machines into `jobs` and `jop`; `refresh` reads in days while the window of
days on the line is narrow; the planner looks at the triggers the last call of
`simulate` left and configures at most one machine; `update` hands the waiting
trays to the simulator, `setup` the configuration; `simulate` runs until a
trigger, an idle machine or an entry of the shift book makes it return.

What must be right, and is hard to test:

* a machine never meets a tray it cannot work (the program throws or returns),
  never loses one, and never changes over over the heads of waiting trays;
* lanes, indexes of the trays and `JOP` tell the same story after every move;
* the trigger fires for the last tray of a model, and only for it;
* an outage begins and ends when the shift book says;
* the line always comes free again, and all that is ordered is delivered, once;
* the planner sees the line as it is, chooses only what a machine can be set up
  for, and what it chooses leads to the end of the requirements;
* a run that hangs is given up.

`PROJECT.json` lists the hazards line by line.

## 2. Modules

| Module | Models |
|---|---|
| `Machine` | one machine under any order of the calls made on it |
| `Lane` | what a machine promises: a queue of trays |
| `ProductLine` | the plant and the state the loaders and `main` start the machines in |
| `Simulator` | a second of `simulate`, `moveJobToNextProcess`, `setup`, `update`, the shift book; the caller is any program |
| `Tasks` | `fill`, `refresh` and the main loop; the simulation is "some tray leaves" |
| `Orders` | what the program promises to the customer |
| `Planner` | the choice of a machine and its next model, with the estimates it rests on |
| `Scheduler` | `main`: the steps of `refresh`, the planner, the simulator and the watchdog taking turns |
| `MachineOfLine` | one machine of the simulated line, `self`, as a `Machine`: the refinement mapping |
| `SimulatorMachines` | every machine of the simulated line as a `Machine` |
| `Requirements` | how the header and the rows of the requirements become indexed days |
| `Startup` | `main` before it simulates: what the loaders make of the site data and of the clocks, and the first entries of the books |
| `MCMachine`, `MCSimulator`, `MCTasks`, `MCScheduler`, `MCStartup` | values of the constants for TLC |
| `MachineProofs`, `SimulatorProofs`, `ShippingProofs`, `MachineOfLineProofs`, `TasksProofs`, `SchedulerProofs`, `StartupProofs` | theorems and their proofs |
| `LaneLemmas` | lemmas on sequences, on counting up to a number and on functions defined that way |

`Simulator` EXTENDS `ProductLine`; `MachineOfLine` EXTENDS `Simulator` and
instantiates `Machine` with the fields of the machine `self`, its trays reduced to
their models; `SimulatorMachines` instantiates `MachineOfLine` once for every
machine of the plant (`Of(m)`); `Machine` instantiates `Lane`, `Tasks` instantiates
`Orders`. `Startup` EXTENDS
`Requirements`, the last thing it reads, and instantiates `ProductLine` (`Plant`)
with the site data it has loaded. `Planner` EXTENDS `Simulator`, `Scheduler` EXTENDS
`Planner` and instantiates `Tasks`: it is at the same time an implementation of
`Simulator`, with the caller made concrete, and of `Tasks`, with the simulation
made concrete.

### Machine

A tray is its model, the only field the machine looks at. The variables are the
fields of `Machine` under their names; `changeStatus = "COS_GOING"` is a pending
change-over, `status = "MS_CO"` a running one. The actions are the methods with
the conditions under which the simulator calls them. `StartCO` contains the
offset that the status log adds to `toIdle`: the log is not only a log
(`simulator.cpp:115-118`). `Unload(k, last)` is `outputBuffer.pop()`; `k > 1`
only on a generic machine, which takes trays out and puts them back at the end;
`last` is the decision that the last tray has left, of which the machine only
sees its own part (`RunOut`). `Init` are the states the loader can leave,
including buffers loaded beyond their capacity.

### Simulator

`pc` and `current` say where in a second the simulation is: `book`, then for each
machine, those of the last process first (`FirstVisited`), `feed`, `work`, `ship`,
then `tick`. Each branch of the program is an action; each action is the whole
branch, `Move` the whole of `moveJobToNextProcess` with the test for the last
tray and its effects. `GoOn` is the control flow after a machine, including the
`continue` that skips the test of `working`. `Call` is the caller between two
calls of `simulate`: it may add the trays of a further day, put the machine it
configures on line, and hand over any configuration of one machine that is not
generic, supports the model, and lies on its route. Any planner and any caller
is covered. The status that no branch applies to is `KeepOn`. The throw and the
return with -8 lead to `abort`. `Books` is the set of the shift books a run may
have; `Init` takes one of them. `Best`, the
machine whose finished tray is the oldest, and the machine a tray goes to are
defined by the order they are selected by, not by the loops that find them; ties
go to the machine the loops come to first.

The last part of the module names what a plant and a site may be expected to be.
No run or property assumes it silently: the theorems name what they need.
`SiteIsSound`: a tray is on one machine, of a process of its route, and a machine
that is off line holds no finished trays (`main` would book none of them,
`loader.cpp:200`). `RoutesMeet`: models that meet on a generic machine go on to
the same process. `Fitting`: the machines loaded with what they are set up for.
`ClocksComplete` and `TargetsAreSetUp`: the machines of the shift book have a mode
and a clock for it (`clock(-1)` is -1, and would make an outage late).

### Tasks

A tray is its uid, its model and its day. Of the list of tasks only the sum of
the counts of each model is kept, which is 0 exactly when the model has no task;
deadlines are left out (nothing that decides when the program ends reads them).
`Count`, `NoMoreDays`, `Fill`, `Merge` are the parts of `refresh`; `Ship` is a
tray leaving the line, `Return` the return of `simulate`. The condition on the
machines of the first process (`isFirstProcessMachinesIdle`) is a free choice at
every call.

### Planner and Scheduler

`Planner` has no state of its own but `fetched`, the trays `refresh` has read in
since the last call of `simulate` (`jop` of `main` is `JOP` of the simulator with
these). `Choice` goes over the machines that triggered and, for each (`BestFor`),
over the models that have a task, and keeps the better of two (`Better`). The
program computes with doubles; here a capacity is a number of parts in `UnitTime` seconds and an estimate a number of parts
times `UnitTime`, so that all comparisons are exact, and percentages are
multiplied out. `COTable` keeps the key of the program's `map`: of two machines
that are ready in the same second one is lost. What is computed but not used is
left out. The list of tasks has no order here, so `Plan` takes any.

`Scheduler` adds `stage`, what `main` is doing, and puts the actions together:
`Count`, `Fill`, `NoMoreDays`, `Merge` are those of `Tasks` with the state of the
line; `Plan` is the planner, `update` and `setup`, including the configuration
that is kept from round to round; `Run` is a step of `simulate`; `Exit` is a
failed call or the watchdog. `EndStaysFree` is what the theorem about the watchdog
asks of the state `main` starts in: the line ends in a machine that no outage is
for.

### Requirements

The header is read cell by cell. `ReadHeading` is a cell with a comma behind it,
which counts when it looks like a date; `ReadLastHeading` what stands behind the
last comma, which is taken for a date whatever it is; `EndOfHeader` a header that
ends with a comma. A row is a name and a sequence of numbers; `ReadRow` replaces
an earlier row of the model. `Put` is `TasksManager.put` for the next column, with
the index taken from the size of the map. The numbers of a row are counted from
its first, the dates from the first that looks like one: behind a cell that does
not, they part (`OrdersCovered` says how far they go together).

### Startup

`stage` is the file `main` is at. A file that cannot be opened ends the program
with its code (`CannotOpen`), which for the requirements is the 0 of a run that
went well (`fits_core.cpp:2068-2072`). A machine without buffer, or with a target
although it does not change over, ends it with the code of the site data
(`RefuseMachine`). `LoadMachine` is a round of
the loop over the machines of the site data: uids are given in the order in which
trays are loaded, a machine that is off line keeps only its finished trays, a
generic one has its tray in work put behind its input and its buffers enlarged.
`LoadClocks` pairs the cells of a row with the models by their position; `Cut` is
what `CSVLoader` makes of a blank last cell, machines of one name share a row
(two rows of one name in the file are not modelled), and a cell behind the last model
falls on id 0 (`modelIndexMap` makes an entry for it). `FileRecord` is what a
record may say: the models it names are those of the file of models, its buffer size and its time
are not negative. `EnterMachine` is a round
of the loop of `main` over the machines, with the repair of one that works on
nothing; `EnterBooks` makes `jop` and `gTasks` of the trays. The contents of the
other four files are constants of the modules that use them.

### Conventions

Definitions named "Variant" above an action or operator are mutated forms of it
(a dropped guard, a missing reset); no specification uses them. Times are whole
seconds: the program casts them to `int` where it stores them. A tray has one
part (`CAPACITY = 1`) in the plants, so that times stay small.

## 3. What the runs check

| Run | Question | Result |
|---|---|---|
| `Machine` | Types, status and work slot, change-over fields, order of the input; no mismatch; a change-over strands nothing and keeps its target; the end of the work never moves, that of a change-over once; capacities; a machine is a `Lane`. One machine, not a generic one, and three models; set up for one of them or not yet | holds |
| `Line` | One machine feeds two parallel ones, they feed a last one, and all may have to change over; one holds a tray finished before it changed over. Any configuration at any return: types, books match the floor, no abort, trigger, order of leaving, returns, every machine is a `Machine` | holds |
| `Generic` | The same books for a generic machine in the middle, also when site data that do not fit end the run; it ships what fits | holds |
| `Flow` | One model, slow middle process, any of a set of outages: begins in time, everything ships | holds |
| `Tasks` | The inductive invariant; every model on the line has a task; the program implements `Orders`; everything is delivered | holds |
| `Scheduler` | `main` with its planner: it implements `Simulator`, `Tasks` and `Orders`, every tray goes from the requirements to the simulator once, everything is delivered unless an outage is longer than `main` waits, and a run in which nothing is finished is given up | holds |
| `Startup` | Two machines under every record of the site data, rows of clocks that are full, blank, short and too long: the machines are those `ProductLine` says the simulation starts with, every tray has a uid of its own and is found under it, the books cover the floor, clocks are those of their columns. Then the requirements: every date has one index; the index is the column unless dates are repeated; the trays cover the parts up to the first cell that is no date | holds |
| `Diverging` | A generic machine checks every tray (`simulator.cpp:525`) | violated |
| `OutageEnd` | An outage lasts its interval (`data/ShiftBook.csv:1`) | violated |
| `TasksHoliday` | "all passed!" (`fits_core.cpp:1116`) | violated |
| `Capacity` | No machine for a process that makes more than the one before it (`fits_core.cpp:1703`) | violated |
| `Blocked` | A run that hangs is given up (`loader.cpp:267`) | violated |

What some of the properties say had to be found out. `DueTimeFixed`: the
offset that is added when the last tray leaves never hits a machine at work, but
it does put off the end of a change-over that runs; it cannot add up, because the
output runs empty only once before the change-over is over. `TriggerMeansRunOut`: the
trigger means that no tray of the model waits, is upstream or is left on the
machine (`simulator.hpp:78`, "*only* last tray"), but for one case: a machine
ships the last tray of a model it has left, and there are already trays of that
model in its input for the change-over back. `OldestLeavesFirst`: only front trays
are compared, and still the tray that leaves was finished before every other on
the machines that compete with it; that includes trays of other models only in
front of a generic process. `GivesUpInTime`: the time to wait may pass while the
last machine changes over or works, and `simulate` returns only when it is idle,
so both are part of the bound, with the offset that puts off when it counts as
idle (twice: after a tray and for the test), the interval of the test, and a
second each for the end of the wait, the change-over and the tray. `LoadsThePlant`
is about every record but two, which
`Plausible` names: nothing repairs a machine that says it is blocked without a
tray, or that it changes over without saying into what.

The violated ones in a sentence each:

* *Diverging*: the next process of each tray is looked up in the route of the
  first one; a tray whose route parts from it stays although a machine is free.
* *OutageEnd*: the time that brings the beginning of an outage forward brings
  its end forward too.
* *TasksHoliday*: a day that requires nothing makes the list of tasks empty,
  which `refresh` takes for the end.
* *Capacity*: the capacities are assigned to `int`, so that with clocks of more
  than a second both are 0 and the rule never applies.
* *Blocked*: the watchdog is looked at when `simulate` returns, and `simulate`
  returns for a trigger, for an idle machine or for the shift book. When the only
  machine of a process is off line and those before it are full there is none of
  these, and the program runs for ever. `GivesUpInTime` holds in the run
  `Scheduler`, and wherever the line ends in a machine that stays on line
  (`StuckRunsAreGivenUp`, section 4).

Other things seen while modelling, for which no property is stated, since no
document or comment says what should happen: the
outage of a machine without mode begins late (`clock(-1)` is -1); trays finished
on a machine that is off line at the start are in no book; trays on the line
count twice in `gTasks` after `refresh`; the window is tested before the next
day is read in, so the days on the line can be further apart than it; the trigger
of a generic machine compares the front of its input with a mode it has not, so
it can fire with trays of the model waiting; a configuration that `setup`
discarded (`simulator.hpp:148`) is kept by `main` and can be carried out in a
later round; of a date that is in the header twice only the last column counts.

### Bounds

* `Machine`: one machine with modes, three models, buffers of two, loaded with up to three, four seconds:
  enough for a full change-over with its offset, a block, a tray of each model
  in each place, a second plan during a change-over, and one after it for a third
  model. A generic machine is in the run `Generic`, as a `Machine` too, and in the
  theorems.
* `Line`: four trays of two models (one arrives later), buffers of one, of two on
  the parallel machines, eight seconds: both models reach the last machine, the
  planner is called several times, change-overs start and end on all machines, and
  the parallel machines compete with trays finished at different times.
  `CheckTime = 2` makes idle machines count within the run.
* `Generic`: seven trays; one in work that goes back to the input, finished ones
  at a final machine, some waiting, one that its machine is not set up for.
* `Flow`: sixty seconds are more than the slowest schedule needs: the clock never
  stops the run before the last tray has left.
* `Scheduler`: six trays on three days, four machines, every subset of three
  outages, one of them longer than the watchdog waits: both models are planned
  for, days are read in while the line runs, and `Exit` is taken. `MaxTime` is
  more than the slowest run needs; the plants of `Capacity` and `Blocked` are the
  smallest that show what they show.
* `Startup`: two machines, one of them generic, with up to one tray in each lane,
  in every combination of status, target and state, trays where their route says
  and where it does not. One site goes on with 36 choices of clocks, and with one
  of them to the requirements (`OneSiteGoesOn`, the only CONSTRAINT of a run): what
  is read later does not depend on the site. Requirements of up to three columns,
  of two dates, so that a date is repeated before and after another one, and a
  text that is no date; two rows of three names, one unknown.
* `Tasks`: four days, seven trays, a window of two, a phase of one.

`MaxTime` and `MaxLoad`, and `MaxDays` and `MaxRows` of `Requirements`, are with
this constraint the only bounds that are not in the program.
Deadlock is not checked where the clock's bound stops the run, where the program
ends (`done`) or aborts; on `Machine` it is.

### Fairness

`Simulator!FairSpec` is weak fairness of the next-state relation: the loop of
`simulate` and the loop around it are sequential code that does not stop on its
own. `Tasks!FairSpec` adds that a tray on the line leaves it in the end (strong
fairness of `Ship`), which stands for `EverythingShips` of `Simulator`; the real
program guards it with a watchdog (`fits_core.cpp:2164`) that ends it. In
`Scheduler` there is no such assumption: `FairMainSpec` is weak fairness of the
whole next-state relation, which is sequential code, and `EverythingDelivered`
follows from the steps of the line.

## 4. What is proved

`MachineProofs`, for every set of models, every capacity, clock and change-over
matrix, site load and length of run:

* `Invariance`: `IInv`, that is `TypeOK`, `ChangeOverConsistent`,
  `WorkSlotMatchesStatus` and `InputOrdered`, is an invariant. None of the parts
  is inductive alone: that the work slot is of the mode needs that a change-over
  starts with an empty slot, which needs the status; that a change-over ends in
  a mode needs that its target is a model, which needs the pending one to have
  been consistent.
* `TypeCorrect`, `ChangeOversConsistent`, `WorkSlotsMatch`, `InputsOrdered`: its
  parts.
* `NeverMismatched`, `NothingStranded`, `TargetKept`, `DueTimesKept`,
  `CapacityRespected`: the properties of the run `Machine`, from `IInv`.
* `MachineImplementsLane`: every step of a machine puts a tray at the end of the
  lane, takes one from its front (a generic machine: from further back), or
  leaves the lane as it is. The lemmas on sequences that carry this are above it.

`SimulatorProofs`, for every plant, every site, every shift book and every caller
that configures what the planner may, any number of machines, trays and seconds:

* `TypeIsCorrect` and `PlannerIsCalledForATrigger`, for a site that is sound, from
  `IInv`: the types; a machine at work or blocked has a tray in its work slot, so
  that `front()` of an empty queue is never read; a change-over knows its models;
  and while a second runs, `working` is off only if a machine triggered.
* `SimulatorNeverAborts`, if moreover the site loaded every machine with what it is
  set up for: `FitInv` adds `Ready`, which relates the input of a machine to its
  mode, target and status, since the machine that is idle next is mismatched by
  what was accepted long before.
* `BooksAlwaysMatch`, for plants whose routes meet behind generic machines:
  `BooksInv` adds `BooksMatchFloor` itself. Its one hard step is a move: the tray
  leaves one lane, enters the end of another and its entry in `JOP` and its `ioo`
  go with it, while the route used is that of the first tray (`simulator.cpp:472`);
  `MovedBooks` shows that the two routes name the same process at the same place.
  `LaneLemmas` has what taking a tray out of a lane and putting one in it does.
* `GenericsShipWhatFits`, from the same invariant.
* `OutagesBeginInTime`, if the machines of the shift book have a mode and clocks:
  `OutageInv` says that while machines are visited no entry is overdue; the top of
  the book is its earliest entry, and the time an outage is brought forward by is
  not negative, because a machine that has a mode keeps one it has a clock for.

`ShippingProofs`, for every plant whose routes meet behind generic machines and
every sound site:

* `OldestTrayLeaves`: `OrderInv` says that the finished trays of a machine with
  modes stand in the order they were finished in and that none was finished after
  now; a finished tray goes to the end with the time of now, trays are taken from
  the front, and no step but this one writes a time. So the front tray of each
  machine is its oldest, and the choice among the front trays is the choice among
  all.
* `LastTrayMeansRunOut`, if moreover every machine is loaded with what it is set
  up for. The program looks at the books of the processes before this one, at the
  work slot, at the finished trays and at the front of the input only. `BooksInv`
  makes the books the floor, upstream of the tray; `FitInv` gives that when the
  front of the input is not of the mode nothing behind it is, since trays of the
  target come last, and that a tray of a mode the machine has left is finished.

`MachineOfLineProofs`: `LineIsMadeOfMachines`, the refinement, for any machine
`self` that the site loaded with what it is set up for, in a plant with the clocks
the site needs (`ClocksComplete`): it starts as a `Machine` and every step of the line is a step of
that `Machine` or leaves it alone. `SelfInv`, which is `BooksInv` and that the
machine has a clock for its mode and its targets (`Able`), gives the guards of
`Machine`: that a tray offered is one it may take, that a front tray exists, that
no lane is longer than there are trays. `MaxTime` bounds what `Machine` starts
with, hence `IdleInTime`. `StepOfLine` has one case for each action of the line.
What `MachineProofs` proves of a `Machine` therefore holds of every machine of
the line. One machine is a constant of `MachineOfLine`, since the prover cannot
use an instance that has a parameter; that is why the theorem is about `self` and
`MachinesAreMachines`, which says the same of all machines at once, is left to
the runs `Line` and `Generic`.

`TasksProofs`, for any set of trays, days and window sizes:

* `Invariance`: `IInv`; `EveryModelHasTask` is not inductive: it holds after the
  merge because the copy lists exactly the models on the line, which holds
  because the count before it found a task for every tray.
* `NoModelForgotten`, from it.
* `EveryDayIsRead` and `TasksImplementOrders`, under `NoHoliday` (every day
  requires something), without which they are false (`TasksHoliday`).

`SchedulerProofs`, for the whole program, any plant, sound site and requirements
whose models meet as above:

* `MainIsACaller`: the program is one of the callers of `Simulator`. `CallInv`
  says that what triggered are machines, that what is configured is one of the
  `Configurations`, and that what was read in is still to come. Its hard part is
  `ChoiceType`, that whatever the planner chooses is such a configuration: it is
  a candidate, or nothing, at each turn of its two loops.
* `EveryTrayIsHandedOver`: `MainInv` joins `BooksInv` of the simulator to what
  `main` does between its calls. A tray of a day that is read is in exactly one
  place: handed over, or read in and waiting for the next call; and the trays
  read in are forgotten only by the call that hands them over. `StepsKeepBooks`
  is what this takes from the simulator: a second may take one tray out of the
  books and brings none back.
* `MainRefreshes`: the program implements `Tasks`, with the line that `refresh`
  sees being the books and what was read in. A step of the simulator is to
  `refresh` a tray leaving, or nothing; a call of the simulator is nothing.
* `NoModelIsForgotten` and, if something is required every day, `MainDelivers`:
  what `TasksProofs` proves, carried over to the program by that refinement. The
  whole program implements `Orders`: nothing is lost, nothing is delivered twice,
  and it ends of its own only when everything is delivered.
* `MainKeepsBooks` and, if the site loads every machine with what it is set up
  for, `MainNeverAborts`: what `SimulatorProofs` proves, carried over by
  `MainIsACaller`. The other theorems about the simulator carry over in the same
  way.
* `StuckRunsAreGivenUp`: `GivesUpInTime`, if `main` starts with `EndStaysFree`:
  nothing finished lies at the end of the line, and some machine f there is on line
  and in no entry of the shift book. (`Blocked` is the plant without such a
  machine, so something of the kind is needed; in the run `Scheduler` it holds of
  the books without an outage of machine 3.) The argument has two parts. `EndInv`:
  the machines of the last process ship what they finish in the same visit, for
  which every tray there must have its route end there (`AtTheEnd`, from
  `BooksMatchFloor` and the rise of the routes), so none of them is ever blocked.
  `ClockInv(f)`: what f is busy with was begun in time and so ends in time
  (`OnTime`), and its end is noticed in the second after (`Within`). In detail, a
  change-over is begun in the first second of a call, when the time to wait has
  not passed, or just after a tray, and takes at most `LongestChange` and the
  offset of the log; idle without one, f is found when idle machines are next
  looked for, which the counter `count` measures, or takes up one more tray, for at
  most `LongestWork`. The invariant depends on where in the second the visit of f
  is (`Seen`): before it a bound may be exceeded by the second that just began. A
  second that is cut short, so that f is not visited, ends the call, and `main`
  looks at the time. `Longest` (no cost exceeds the greatest) needs the plant to be
  finite, which is why `SchedulerAssumption` says so of the models.

`StartupProofs`, for every site data, any number of machines and trays, and every
file of clocks and of requirements:

* `LineIsThePlant` and `BooksAreMade`: `SiteInv` follows the files. The records
  read so far have become the machines `MachineOf` makes of them, with uids
  counted from the trays before them, and the machines entered so far are the
  repaired ones (`LineRead`); the books are made of the trays of those that are on
  line (`BooksMade`); when a file is read, those before it are complete
  (`StagesInOrder`). Neither property is inductive: each speaks of the end, and
  says nothing of a line half loaded.
* `EveryTrayIsItsOwn`: the uids of a machine are the numbers behind those of the
  machines before it (`UidsGrow`), so no two trays share one, and `trays` has
  under it what the file says of it (`TraysRead`). This is what `SiteIsSound`
  asks of the site the simulation starts with as far as trays are on one machine;
  the rest of it (a tray stands where its route leads; a machine that is off line
  holds nothing finished) is in the hands of who writes the file.
* `ClocksAreTheirCells`: the clock of a machine for a model is the number in its
  column, and a row that is too long spoils only the clock of the model with id 0.
* `EveryDateIndexed`, `IndexesAreColumns`, `EveryOrderCovered`: the properties of
  the run `Startup` about the requirements, proved of `Requirements`, any number of
  dates and rows and any size of a tray. Their invariant adds that up to the
  first cell that is no date the days are the header (`Headed`), that the indexer
  names no date that was not put, that the tasks of a date are those of its last
  column, and that without repeated dates the days are the columns; the arithmetic
  is in `TraysCover`. `StartupReads` makes them hold of `main`, which leaves the
  parser alone before and after it reads this file.

`LaneLemmas` has what these proofs need of induction. The prover cannot use the
induction theorems of the library, whose parameter is an operator; `CountUp` is
induction up to a number over a set instead, from the least element outside it,
and `Recursion` that a function defined step by step over `0..n` exists. With the
two, the loops of the planner and the counting of the uids, written as recursive
functions, can be proved about.

The assumptions on the constants are `MachineAssumption`, `PlantAssumption`,
`SimulatorAssumption`, `TasksAssumption`, `PlannerAssumption`,
`SchedulerAssumption`, `RequirementsAssumption` and `StartupAssumption`; the
theorems about the simulator and `main` name the further ones of section 2. The
plants of the run `Scheduler` satisfy all of them (`PlantsAreSound`).

Only model-checked:

* `MachinesAreMachines`, as stated for all machines at once; proved for any one.
* `GivesUpInTime` when an outage is for every machine at the end of the line: it
  holds in the run `Scheduler`, where other machines are idle then, and is false in
  `Blocked`, where none is.
* Liveness, which is beyond the prover: `EverythingShips`, `AllDelivered`,
  `EverythingDelivered`.

## 5. What is not modelled, and why

* Rounding of the planner's doubles: `Planner` is exact. The two conversions to
  `int`, which are not rounding, are in the model.
* `setCapacitySurplusMachineOffLine`: its one effect is commented out.
* The older planner: assigner, voter, configuration, evaluation; not called.
* Reading text: how a line is cut into cells, JSON, numbers. A line of more than
  1023 characters makes the loops that read files go on for ever (`getline` fails
  without reaching the end of the file); lines are shorter here.
* What the change-over matrix, the file of models, the shift book and the settings
  may say beyond what the constants allow, the defaults of blank settings included.
* Logs and statistics, except the one log that changes a machine.
* Messages: no call is left in the code.
* Machines the shift book names that do not exist, and machines a site says are
  blocked without a tray (which the program does not repair, and then reads from
  an empty queue).

The vendored libraries (`3rd/`, `include/`) are by far the largest part of the
repository's lines, and no call of them decides anything the model is about:
`jsoncpp` reads one file, `rabbitmq-c` is not called. The program's own source has
about 5400 lines, of which the map names a third; most of the rest is the older
planner, commented-out code and output.

## 6. Plan

1. Done: `Machine`, `Lane`, `ProductLine`, `Simulator`, `Tasks`, `Orders`,
   `Planner`, `Scheduler`, `Requirements`, `Startup`; the proofs about all of them,
   and the three refinements by which `main` is a caller of the simulator, sees
   the line as `Tasks` has it, and keeps to `Orders`.
2. The remaining theorems about the simulator restated for `main`: outages, the
   last tray, the oldest tray, one machine as a `Machine`.
3. `GivesUpInTime` with outages at the end of the line, the length of the longest
   of them added to the bound.
