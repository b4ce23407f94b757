----------------------------- MODULE ProductLine -----------------------------
(***************************************************************************)
(* The plant as the loaders read it (productLine.hpp, models.hpp,          *)
(* loader.cpp): what does not change while the program runs.  Machines are *)
(* numbered in the order of the file, process by process, trays in the     *)
(* order of their uid.                                                     *)
(***************************************************************************)
EXTENDS Integers, SequencesExt, FiniteSetsExt

CONSTANTS
    Model,        \* the models of part
    NoModel,      \* "no mode" and "no target" (-1)
    NumMachines,  \* machines 0 .. NumMachines - 1
    NumProcesses, \* processes 0 .. NumProcesses - 1
    ProcessOf,    \* the process a machine belongs to
    Generic,      \* the machines that take every model without change-over
    BufferSize,   \* capacity of the input and of the output of a machine
    Clock,        \* Clock[m][t]: seconds per part, -1 when m cannot make t
    CAPACITY,     \* parts in a tray (48)
    COCost,       \* COCost[m][from][to]: seconds of a change-over
    Route,        \* the processes a model goes through
    ModelOf,      \* ModelOf[u]: the model of tray u
    Site,         \* what the site data says of each machine
    Offset        \* gContext.offset

Machines == 0..NumMachines - 1
Process == 0..NumProcesses - 1
Tray == 1..Len(ModelOf)

\* A machine as the site data describes it; each lane is a sequence of trays.
SiteRecord == [state : {"S_ONLINE", "S_OFFLINE"}, mode : Model \cup {NoModel},
               COTarget : Model \cup {NoModel}, toIdle : Nat,
               input : Seq(Tray), producting : Seq(Tray), output : Seq(Tray)]

ASSUME PlantAssumption ==
    /\ NoModel \notin Model
    /\ NumMachines \in Nat \ {0} /\ NumProcesses \in Nat \ {0}
    /\ ProcessOf \in [Machines -> Process]
    /\ \A m, n \in Machines : m < n => ProcessOf[m] <= ProcessOf[n]
    /\ \A p \in Process : \E m \in Machines : ProcessOf[m] = p
    /\ Generic \in [Machines -> BOOLEAN]
    /\ BufferSize \in [Machines -> Nat \ {0}]
    /\ Clock \in [Machines -> [Model -> Int]]
    /\ CAPACITY \in Nat \ {0}
    /\ COCost \in [Machines -> [Model -> [Model -> Nat]]]
    /\ Route \in [Model -> Seq(Process)]
    /\ \A t \in Model : Route[t] # <<>> /\ \A i, j \in 1..Len(Route[t]) :
                            i < j => Route[t][i] < Route[t][j]
    /\ ModelOf \in Seq(Model)
    /\ Site \in [Machines -> SiteRecord]
    /\ Offset \in Nat

-----------------------------------------------------------------------------
MachinesOf(p) == {m \in Machines : ProcessOf[m] = p}
FirstOf(p) == Min(MachinesOf(p))

\* A second visits the machines last process first, those of a process in
\* their own order.
FirstVisited == FirstOf(NumProcesses - 1)

\* isGenericProcess(): the first machine of the process decides; there is no
\* process beyond the last.
IsGenericProcess(p) == p \in Process /\ Generic[FirstOf(p)]

\* clock(): of a model the machine has no clock for, and of no model, -1.
ClockOf(m, t) == IF t \in Model THEN Clock[m][t] ELSE -1

\* support(), whether or not a change-over is needed first.
Supports(m, t) == Generic[m] \/ ClockOf(m, t) >= 0

\* COT(): seconds to work a tray.
WorkTime(m, t) == ClockOf(m, t) * CAPACITY

FirstProcess(t) == Head(Route[t])
FinalProcess(t) == Last(Route[t])

-----------------------------------------------------------------------------
\* COB(): the tray a generic machine had in work is put back into its input,
\* which is enlarged for it.
CapacityOf(m) == BufferSize[m] + IF Generic[m] /\ Site[m].state = "S_ONLINE"
                          THEN Len(Site[m].producting) ELSE 0

\* The machine the loader makes of its site record, after the repair at the
\* start of main: what is off line loses its input and the tray in work but
\* keeps its output, the work slot decides whether the machine is working.
Loaded(m) ==
    LET s == Site[m]
        online == s.state = "S_ONLINE"
        work == IF online /\ ~Generic[m] THEN s.producting ELSE <<>>
    IN [state |-> s.state, mode |-> s.mode, toIdle |-> s.toIdle,
        status |-> IF work # <<>> THEN "MS_WORKING"
                   ELSE IF online /\ s.producting = <<>> /\ s.COTarget # NoModel
                        THEN "MS_CO" ELSE "MS_IDLE",
        changeStatus |-> "COS_KEEP", COTarget |-> s.COTarget,
        input |-> IF ~online THEN <<>>
                  ELSE s.input \o (IF Generic[m] THEN s.producting ELSE <<>>),
        model |-> work, output |-> s.output]

\* The trays main enters into its books: those of the machines on line.
OnSite(m) ==
    IF Site[m].state = "S_ONLINE"
    THEN ToSet(Site[m].input \o Site[m].producting \o Site[m].output) ELSE {}
=============================================================================
