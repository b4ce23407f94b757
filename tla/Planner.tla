-------------------------------- MODULE Planner --------------------------------
(***************************************************************************)
(* Which machine is to change over, and to which model                     *)
(* (getMostSuitbleCOMachineInMachines2 and the estimates of ProductLine,   *)
(* fits_core.cpp).  The planner reads the machines and the trays on the    *)
(* line; it changes nothing.                                               *)
(*                                                                         *)
(* The program computes with doubles.  Here a capacity is a number of      *)
(* parts in UnitTime seconds, and an estimate a number of parts in         *)
(* 1 / UnitTime, both exact; TrayUnit of these are a tray.  What the       *)
(* program computes without using it (the earliest day, the model the      *)
(* machine has now, the process before) is left out.                       *)
(***************************************************************************)
EXTENDS Simulator

CONSTANTS
    DayOf,             \* DayOf[u]: the day tray u is required for (daysIndex)
    UnitTime,          \* a common multiple of the clocks
    WorkingTimePerDay, \* gContext.workingTimePerDay
    MaxDelaySeconds    \* gContext.windowMaxDelaySeconds

ASSUME PlannerAssumption ==
    /\ DayOf \in [Tray -> Nat]
    /\ UnitTime \in Nat \ {0}
    /\ \A m \in Machines, t \in Model :
          Clock[m][t] = -1 \/ (Clock[m][t] > 0 /\ UnitTime % Clock[m][t] = 0)
    /\ WorkingTimePerDay \in Nat \ {0}
    /\ MaxDelaySeconds \in Nat

VARIABLE fetched \* the trays refresh() has read in since the last call of simulate()

\* jop of the main program: the books of the simulator, and what was read in.
jop == [JOP EXCEPT ![-1] = @ \cup fetched]

TrayUnit == UnitTime * CAPACITY

-----------------------------------------------------------------------------
(* Capacities and estimates of a line, which is the line as it is or as it *)
(* will be.                                                                *)

Rate(m, t) == UnitTime \div Clock[m][t]

\* getCapacityInProcess().
Capacity(line, t, p) ==
    MapThenSumSet(LAMBDA m : Rate(m, t),
                  {m \in MachinesOf(p) : line[m].mode = t /\ line[m].state = "S_ONLINE"})

\* The index of process p in the route of model t, from 0.
Position(p, t) == (CHOOSE i \in 1..Len(Route[t]) : Route[t][i] = p) - 1

\* judgeCapacityOverLastProcess(): the two capacities are compared as whole
\* numbers of parts in a second, and it is the position in the route that is
\* asked whether it is generic.
CapacityOverLastProcess(p, t) ==
    LET before == Position(p, t) - 1
        last == IF IsGenericProcess(before) THEN before - 1 ELSE before
    IN /\ last >= 0
       /\ Capacity(mach, t, p) \div UnitTime
             > Capacity(mach, t, Route[t][last + 1]) \div UnitTime

\* When a machine that is to change over for model t will be able to make it.
ReadyAt(line, m, t) ==
    Max({line[m].toIdle, realTime})
       + IF line[m].mode = NoModel THEN 0 ELSE COCost[m][line[m].mode][t]

\* COTable: the machines that will make t, by the time they are ready.  Of
\* those with the same time only the last one is kept.
COTable(line, t, p) ==
    LET changing == {m \in MachinesOf(p) : /\ line[m].COTarget = t /\ line[m].mode # t
                                           /\ line[m].state = "S_ONLINE"}
    IN {m \in changing : \A n \in changing : n > m => ReadyAt(line, n, t) # ReadyAt(line, m, t)}

\* CountToFinishBeforeDeadLineInCertainProcess(): parts of model t that process
\* p makes from now to the deadline.  Every machine of COTable adds its rate
\* from when it is ready, and takes it off again when that is too late.
CountToFinish(line, t, p, deadline) ==
    (deadline - realTime) * Capacity(line, t, p)
       + MapThenSumSet(LAMBDA m : (deadline - ReadyAt(line, m, t)) * Rate(m, t), COTable(line, t, p))

-----------------------------------------------------------------------------
(* What model t needs of process p. *)

\* The trays that have not left process p.
RequiredOfProcess(p, t) ==
    {u \in UNION {jop[q] : q \in -1..p} : ModelOf[u] = t}

\* The deadline of the last day among them; when it is over, a day from now.
Deadline(p, t) ==
    LET lastDay == Max({0} \cup {DayOf[u] : u \in RequiredOfProcess(p, t)})
        deadline == MaxDelaySeconds + (lastDay + 1) * WorkingTimePerDay
    IN IF deadline < realTime THEN realTime + WorkingTimePerDay ELSE deadline

\* The process can be supplied: it is the first one, some machine of the first
\* one makes t or will, or finished trays of t wait on the process whose number
\* is the position in the route before.
Supplied(p, t) ==
    \/ FirstProcess(t) = p
    \/ \E m \in MachinesOf(FirstProcess(t)) : mach[m].mode = t \/ mach[m].COTarget = t
    \/ \E m \in MachinesOf(Position(p, t) - 1) :
          \E i \in 1..Len(mach[m].output) : ModelOf[mach[m].output[i]] = t

-----------------------------------------------------------------------------
(* The choice. *)

\* Variant: generic machines are considered, too.
CandidateGeneric(m, t) ==
    /\ t # mach[m].mode
    /\ Supports(m, t)
    /\ ProcessOf[m] \in ToSet(Route[t])

\* What is considered at all for a machine that triggered.
Candidate(m, t) ==
    /\ ~Generic[m]
    /\ t # mach[m].mode
    /\ Supports(m, t)
    /\ ProcessOf[m] \in ToSet(Route[t])
    /\ ~CapacityOverLastProcess(ProcessOf[m], t)

\* The line once machine m is to change over for model t.
Planned(m, t) == [mach EXCEPT ![m].COTarget = t, ![m].state = "S_ONLINE"]

\* The appraisal of a candidate.  need is what is required, gain how much more
\* is made before the deadline; before and diff, in parts of size, are how far
\* what is made is off what is required, and how much farther it will be.
Appraisal(m, t) ==
    LET p == ProcessOf[m]
        need == Cardinality(RequiredOfProcess(p, t))
        now == CountToFinish(mach, t, p, Deadline(p, t))
        then == CountToFinish(Planned(m, t), t, p, Deadline(p, t))
        size == TrayUnit * need
        before == IF need = 0 \/ now = 0 THEN 0 ELSE Magnitude(now - size)
        after == Magnitude(then - size)
    IN [plan |-> <<m, t>>, need |-> need, size |-> size, gain |-> then - now,
        before |-> before,
        diff |-> IF before # 0 THEN after - before
                 ELSE IF Supplied(p, t) THEN after - 1000 * size ELSE 0]

\* No candidate was preferred yet.
NoPlan == [plan |-> <<>>]

\* An appraisal against the best so far.
Preferred(a, best) ==
    /\ a.need > 0
    /\ 10 * a.diff < -a.size
    /\ \/ /\ best = NoPlan \/ a.diff * best.size < best.diff * a.size
          /\ a.gain > 10 * TrayUnit
       \/ 10 * a.before > 9 * a.size

\* The best so far, once model t is considered for machine m ...
Better(m, t, best) ==
    IF Candidate(m, t) /\ Preferred(Appraisal(m, t), best) THEN Appraisal(m, t) ELSE best

\* ... and once the models of the list of tasks are, in their order.
BestFor(m, models, best) ==
    LET after[j \in 0..Len(models)] ==
            IF j = 0 THEN best ELSE Better(m, models[j], after[j - 1])
    IN after[Len(models)]

\* getMostSuitbleCOMachineInMachines2(): {} or one machine with its new model.
Choice(triggers, models) ==
    LET after[i \in 0..Len(triggers)] ==
            IF i = 0 THEN NoPlan ELSE BestFor(triggers[i], models, after[i - 1])
        best == after[Len(triggers)]
    IN IF best = NoPlan THEN {} ELSE {best.plan}
=============================================================================
