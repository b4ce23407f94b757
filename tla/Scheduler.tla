------------------------------- MODULE Scheduler -------------------------------
(***************************************************************************)
(* The main program (main of fits_core.cpp): refresh() keeps the list of   *)
(* tasks, the planner may pick a machine that triggered, and the simulator *)
(* runs until it asks for the planner again.  The steps of refresh() and   *)
(* of the simulator are those of Tasks and of Simulator; what is added is  *)
(* how they take turns, and what is carried from one turn to the next.     *)
(***************************************************************************)
EXTENDS Planner

CONSTANTS
    NumDays,            \* days of the requirements
    WindowPhase,        \* gContext.windowPhase
    MaxPrefetch,        \* gContext.windowMaxPreFetchDays
    EndlessLoopWaitTime \* gContext.endlessLoopWaitTime

\* Nothing waits when main starts, and a machine that is off line is empty; the
\* models are those of a file.
ASSUME SchedulerAssumption ==
    /\ IsFiniteSet(Model)
    /\ Waiting0 = {}
    /\ \A m \in Machines : Site[m].state = "S_OFFLINE" => Site[m].output = <<>>
    /\ NumDays \in Nat /\ \A u \in Tray : DayOf[u] < NumDays
    /\ WindowPhase \in Nat /\ MaxPrefetch \in Nat /\ EndlessLoopWaitTime \in Nat

VARIABLES
    gTasks, tasks, progress, idle, \* see Tasks
    stage                          \* what main is doing

taskVars == <<gTasks, tasks, progress, idle>>
mainVars == <<simVars, fetched, taskVars, stage>>

\* refresh() waits while main plans or simulates, and when it gives up.
T == INSTANCE Tasks WITH
    jop <- UNION {jop[p] : p \in DOMAIN jop},
    SiteTray <- UNION {OnSite(m) : m \in Machines},
    pc <- IF stage \in {"plan", "simulate", "exit"} THEN "run" ELSE stage

MainInit ==
    /\ Init
    /\ fetched = {}
    /\ stage = "count"
    /\ T!Init

-----------------------------------------------------------------------------
(* refresh() *)

\* isFirstProcessMachinesIdle.
FirstProcessIdle ==
    \E m \in MachinesOf(0) : /\ mach[m].status = "MS_IDLE"
                             /\ Magnitude(mach[m].toIdle - realTime) > Offset

Count ==
    /\ stage' = "window"
    /\ idle' = FirstProcessIdle
    /\ UNCHANGED <<simVars, fetched>>
    /\ T!Count

NoMoreDays ==
    /\ stage' = "merge"
    /\ UNCHANGED <<simVars, fetched>>
    /\ T!NoMoreDays

Fill ==
    /\ stage' \in {"window", "merge"}
    /\ fetched' = fetched \cup T!Required(progress)
    /\ UNCHANGED simVars
    /\ T!Fill

Merge ==
    /\ stage' \in {"plan", "done"}
    /\ UNCHANGED <<simVars, fetched>>
    /\ T!Merge

-----------------------------------------------------------------------------
(* A round of the main loop. *)

\* The models that have a task, in any order.
TaskOrders == SetToSeqs({t \in Model : gTasks[t] > 0})

\* Variant: what triggered is not planned for.
PlanNothing ==
    /\ stage = "plan" /\ stage' = "simulate"
    /\ Call(fetched, config, FALSE)
    /\ fetched' = {}
    /\ UNCHANGED taskVars

\* Variant: what was read in is not handed over.
PlanWithoutUpdate ==
    /\ stage = "plan" /\ stage' = "simulate"
    /\ \E choice \in {Choice(triggered, models) : models \in TaskOrders} :
          \/ choice # {} /\ Call({}, choice, TRUE)
          \/ choice = {} /\ Call({}, config, FALSE)
    /\ fetched' = {}
    /\ UNCHANGED taskVars

\* The planner chooses; when it does not, the last choice is handed to setup()
\* once more.
Plan ==
    /\ stage = "plan"
    /\ stage' = "simulate"
    /\ \E choice \in {Choice(triggered, models) : models \in TaskOrders} :
          \/ choice # {} /\ Call(fetched, choice, TRUE)
          \/ choice = {} /\ Call(fetched, config, FALSE)
    /\ fetched' = {}
    /\ UNCHANGED taskVars

Run ==
    /\ stage = "simulate"
    /\ Setup \/ Simulate
    /\ UNCHANGED <<fetched, taskVars, stage>>

\* Variant: the difference is taken the other way round.
StuckReversed == lastJobReleaseTime - realTime > EndlessLoopWaitTime

\* Nothing was finished for too long.
Stuck == realTime - lastJobReleaseTime > EndlessLoopWaitTime

\* simulate() returned, and main goes on with refresh().
Return ==
    /\ stage = "simulate"
    /\ pc = "idle"
    /\ ~Stuck
    /\ stage' = "count"
    /\ UNCHANGED <<simVars, fetched, taskVars>>

\* simulate() failed, or the run is given up.
Exit ==
    /\ stage = "simulate"
    /\ pc = "abort" \/ (pc = "idle" /\ Stuck)
    /\ stage' = "exit"
    /\ UNCHANGED <<simVars, fetched, taskVars>>

MainNext ==
    \/ Count \/ NoMoreDays \/ Fill \/ Merge
    \/ Plan \/ Run \/ Return \/ Exit

MainSpec == MainInit /\ [][MainNext]_mainVars

\* The program does not stop on its own.
FairMainSpec == MainSpec /\ WF_mainVars(MainNext)

-----------------------------------------------------------------------------
\* What the planner chooses is a configuration the simulator was made for, and
\* refresh() hands it every tray once: the rounds of main (fits_core.cpp:
\* 2121-2180) are calls the simulator is checked under.
ImplementsSimulator == Spec

\* Between refresh() and the simulator no tray is lost and none handed over
\* twice: those that are still to come are those of the days that are not read
\* in yet and those just read in (fits_core.cpp:2157 and 783-861).
HandedOverOnce ==
    /\ fetched \subseteq Later
    /\ \A u \in Later : ToCome(u) <=> u \in fetched \/ DayOf[u] >= progress

\* Trays on the line, handed over or just read in: refresh() sees the line as
\* Tasks describes it, whatever the simulator does between two refreshes
\* (fits_core.cpp:2066-2180).
ImplementsTasks == T!Spec

\* Whoever ordered the parts sees every tray delivered once, and the program
\* stop when all are, whatever the planner, the simulator and refresh() do in
\* between (fits_core.cpp:2121-2180).
ImplementsOrders == T!O!Spec

\* Every outage that is to come is shorter than what main waits.
ShortOutages ==
    \A off, on \in book :
       off.type = "SBI_OFF" /\ on.type = "SBI_ON" /\ off.target = on.target
          => on.beginTime - off.beginTime < EndlessLoopWaitTime

\* The planner finds a machine for every model, and everything is delivered:
\* no run is given up (fits_core.cpp:2164) or ended early, but for an outage
\* that lasts longer than main waits.
EverythingDelivered == ShortOutages => <>(stage = "done" /\ T!Outstanding = {})

\* The longest change-over, and the longest time a tray is worked on.
LongestChange == Max({0} \cup {COCost[m][s][t] : m \in Machines, s \in Model, t \in Model})
LongestWork == Max({0} \cup {WorkTime(m, t) : m \in Machines, t \in Model})

\* A run in which nothing is finished any more is given up in time, although
\* main only looks at the clock when simulate() returns (fits_core.cpp:2164, for
\* which loader.cpp:267 names a "time to leave the loop, so that it does not
\* hang"): it does so when idle machines are next looked for, which a machine is
\* after a change-over and a tray; the end of each is noticed in the second after.
GivesUpInTime ==
    realTime - lastJobReleaseTime <=
       EndlessLoopWaitTime + CheckTime + LongestChange + LongestWork + 2 * Offset + 3

\* Of the state main starts in: nothing finished lies at the end of the line, and
\* some machine there is on line, idle before main gives up, and in no entry of
\* the shift book.
EndStaysFree ==
    /\ \A m \in MachinesOf(NumProcesses - 1) : mach[m].output = <<>>
    /\ \E m \in MachinesOf(NumProcesses - 1) :
          /\ mach[m].state = "S_ONLINE" /\ mach[m].toIdle <= EndlessLoopWaitTime
          /\ \A e \in book : e.target # m

-----------------------------------------------------------------------------
\* What the sources say of the planner and the code does not do.

\* fits_core.cpp:1703, a machine is not considered when its process makes more
\* of the model than the process before it, generic ones not counted.
CapacityBalanced ==
    [][\A m \in Machines, t \in Model : <<m, t>> \in config' \ config =>
          LET before == {q \in ToSet(Route[t]) : q < ProcessOf[m] /\ ~IsGenericProcess(q)}
          IN before # {} => Capacity(mach, t, ProcessOf[m]) <= Capacity(mach, t, Max(before))
      ]_mainVars
=============================================================================
