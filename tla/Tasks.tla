-------------------------------- MODULE Tasks --------------------------------
(***************************************************************************)
(* How the daily requirements reach the line: TasksManager (tasks.hpp),    *)
(* refresh() and the main loop around it (fits_core.cpp).  refresh() runs  *)
(* between two simulations; it keeps the list of tasks in step with the    *)
(* trays on the line and reads in further days while the window of days on *)
(* the line is narrow enough.  The main loop ends when the list is empty.  *)
(*                                                                         *)
(* A tray is its uid; of the list of tasks only the number of trays of     *)
(* each model is kept, 0 when the model has no task.                       *)
(***************************************************************************)
EXTENDS Integers, FiniteSets

CONSTANTS
    Model,       \* the models of part
    Tray,        \* the trays of the run
    ModelOf,     \* ModelOf[u]: the model of tray u
    DayOf,       \* DayOf[u]: the day it is required for (daysIndex)
    SiteTray,    \* the trays that are on the line when the program starts
    NumDays,     \* days of the requirements, 0 .. NumDays - 1
    WindowPhase, \* gContext.windowPhase
    MaxPrefetch  \* gContext.windowMaxPreFetchDays

Day == 0..NumDays - 1

ASSUME TasksAssumption ==
    /\ IsFiniteSet(Tray)
    /\ ModelOf \in [Tray -> Model]
    /\ NumDays \in Nat
    /\ DayOf \in [Tray -> Day]
    /\ SiteTray \subseteq Tray
    /\ WindowPhase \in Nat
    /\ MaxPrefetch \in Nat

VARIABLES
    jop,      \* the trays that are on the line or wait for it
    gTasks,   \* gTasks[t]: what the list of tasks says of model t
    tasks,    \* refresh's copy of gTasks, with the days it reads in
    progress, \* the next day to be read in
    idle,     \* a machine of the first process has been idle for long
    pc

vars == <<jop, gTasks, tasks, progress, idle, pc>>

OnLine(t) == {u \in jop : ModelOf[u] = t}

\* Variant: every day up to d is read again.
RequiredUpTo(d) == {u \in Tray : DayOf[u] <= d}

\* What TasksManager still holds of day d, and of model t on that day.
Required(d) == {u \in Tray \ SiteTray : DayOf[u] = d}
RequiredOf(d, t) == {u \in Required(d) : ModelOf[u] = t}

Nothing(list) == \A t \in Model : list[t] = 0

\* The trays found on the machines are entered in jop and in gTasks.
Init ==
    /\ jop = SiteTray
    /\ gTasks = [t \in Model |-> Cardinality(OnLine(t))]
    /\ tasks = [t \in Model |-> 0]
    /\ progress = 0
    /\ idle = FALSE
    /\ pc = "count"

-----------------------------------------------------------------------------
(* refresh() *)

\* The trays of the models that have a task are counted.  Meanwhile, in the
\* simulation, machines of the first process may have fallen idle or not.
Count ==
    /\ pc = "count"
    /\ gTasks' = [t \in Model |-> IF gTasks[t] > 0 THEN Cardinality(OnLine(t)) ELSE 0]
    /\ tasks' = gTasks'
    /\ idle' \in BOOLEAN
    /\ pc' = "window"
    /\ UNCHANGED <<jop, progress>>

\* The days on the line are at least n apart.
Span(n) == \E u, v \in jop : DayOf[v] - DayOf[u] >= n

\* Variant: an idle machine closes the window whatever is on the line.
FullWhenIdle == idle \/ Span(MaxPrefetch)

WindowFull == Span(MaxPrefetch) \/ (idle /\ Span(WindowPhase))

\* The window is wide enough, or every day has been read in.
NoMoreDays ==
    /\ pc = "window"
    /\ WindowFull \/ progress = NumDays
    /\ pc' = "merge"
    /\ UNCHANGED <<jop, gTasks, tasks, progress, idle>>

\* Variant: the day is put on the line but not on the list.
FillWithoutTasks ==
    /\ pc = "window" /\ ~WindowFull /\ progress < NumDays
    /\ jop' = jop \cup Required(progress)
    /\ progress' = progress + 1
    /\ UNCHANGED <<gTasks, tasks, idle, pc>>

\* fill(): one more day is put on the line and on the list.
Fill ==
    /\ pc = "window"
    /\ ~WindowFull
    /\ progress < NumDays
    /\ jop' = jop \cup Required(progress)
    /\ tasks' = [t \in Model |-> tasks[t] + Cardinality(RequiredOf(progress, t))]
    /\ progress' = progress + 1
    /\ pc' = IF Nothing(tasks') THEN "merge" ELSE "window"
    /\ UNCHANGED <<gTasks, idle>>

\* Variant: a model without a task is not entered.
MergeKnownOnly ==
    /\ pc = "merge"
    /\ gTasks' = [t \in Model |-> IF gTasks[t] > 0 THEN gTasks[t] + tasks[t] ELSE 0]
    /\ pc' = IF Nothing(gTasks') THEN "done" ELSE "run"
    /\ UNCHANGED <<jop, tasks, progress, idle>>

\* Variant: tasks whose count is 0 stay on the list.
MergeKeepsEmptyTasks ==
    /\ pc = "merge"
    /\ gTasks' = [t \in Model |-> gTasks[t] + tasks[t]]
    /\ pc' = "run"
    /\ UNCHANGED <<jop, tasks, progress, idle>>

\* The copy is added to the list; main goes on if there is a task.
Merge ==
    /\ pc = "merge"
    /\ gTasks' = [t \in Model |-> gTasks[t] + tasks[t]]
    /\ pc' = IF Nothing(gTasks') THEN "done" ELSE "run"
    /\ UNCHANGED <<jop, tasks, progress, idle>>

-----------------------------------------------------------------------------
(* The simulation, as refresh() sees it. *)

\* A tray leaves the line.
Ship(u) ==
    /\ pc = "run"
    /\ u \in jop
    /\ jop' = jop \ {u}
    /\ UNCHANGED <<gTasks, tasks, progress, idle, pc>>

\* simulate() returns and refresh() is called.
Return ==
    /\ pc = "run"
    /\ pc' = "count"
    /\ UNCHANGED <<jop, gTasks, tasks, progress, idle>>

Next ==
    \/ Count \/ NoMoreDays \/ Fill \/ Merge
    \/ \E u \in Tray : Ship(u)
    \/ Return

Spec == Init /\ [][Next]_vars

\* The program does not stop on its own, and every tray on the line leaves it
\* in the end (EverythingShips of Simulator).
FairSpec ==
    /\ Spec
    /\ WF_vars(Next)
    /\ \A u \in Tray : SF_vars(Ship(u))

-----------------------------------------------------------------------------
\* The type of what main and refresh() keep (fits_core.cpp:98-100, 783 and
\* tasks.hpp:74).
TypeOK ==
    /\ jop \subseteq Tray
    /\ gTasks \in [Model -> Nat]
    /\ tasks \in [Model -> Nat]
    /\ progress \in 0..NumDays
    /\ idle \in BOOLEAN
    /\ pc \in {"count", "window", "merge", "run", "done"}

\* A model with trays on the line always has a task while the simulation runs
\* (fits_core.cpp:717-733 and 863-871, whose loops go over different sets of
\* models): the planner, which goes over the tasks, forgets none.
EveryModelHasTask ==
    pc \in {"run", "count"} => \A u \in jop : gTasks[ModelOf[u]] > 0

\* What is ordered and has not left the line.
Outstanding == jop \cup {u \in Tray \ SiteTray : DayOf[u] >= progress}

O == INSTANCE Orders WITH outstanding <- Outstanding, stopped <- pc = "done"

\* Reading in days, counting and merging neither loses nor doubles a tray, and
\* the program ends when all are delivered (main, fits_core.cpp:2121).
ImplementsOrders == O!Spec

\* Every day is read in, and every tray delivered: refresh() is not stuck with
\* a window that is full or a list that never empties (fits_core.cpp:711-873).
AllDelivered == <>(pc = "done" /\ Outstanding = {})

\* The copy refresh() fills (fits_core.cpp:783-861) lists exactly the models
\* with trays on the line, the list itself no other ones.
CopyMatchesLine ==
    pc \in {"window", "merge"} =>
       \A t \in Model : /\ tasks[t] > 0 <=> OnLine(t) # {}
                        /\ gTasks[t] > 0 => tasks[t] > 0

\* When the program ends (fits_core.cpp:2121) nothing is on the line.
DoneMeansNothing == pc = "done" => jop = {}

\* The inductive invariant of the loop of main and refresh(): from the copy
\* having the models on the line follows that the merged list has them, and
\* from that, that the next count finds a task for every tray.
IInv ==
    /\ TypeOK
    /\ EveryModelHasTask
    /\ CopyMatchesLine
    /\ DoneMeansNothing

\* Something is required on every day.
NoHoliday == \A d \in Day : Required(d) # {}

\* When something is required every day, a complete copy without a task means
\* that no day is left to be read in (the exits of the loop, fits_core.cpp:787-861).
EmptyCopyMeansNoDays ==
    (pc = "merge" /\ Nothing(tasks)) \/ pc = "done" => progress = NumDays

-----------------------------------------------------------------------------
\* What the sources say of refresh() and the code does not do.

\* fits_core.cpp:1116, "all passed!" is printed when all have been delivered.
AllPassed == pc = "done" => Outstanding = {}
=============================================================================
