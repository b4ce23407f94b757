---------------------------- MODULE MachineOfLine ----------------------------
(***************************************************************************)
(* One machine of the simulated line, self, as a Machine: what the detailed *)
(* specification of the line is to the one of a machine alone.             *)
(***************************************************************************)
EXTENDS Simulator

CONSTANT self

\* The models of the trays in a lane: all that a Machine knows of them.
Models(lane) == [i \in 1..Len(lane) |-> ModelOf[lane[i]]]

M == INSTANCE Machine WITH
    Generic <- Generic[self],
    Supported <- {t \in Model : ClockOf(self, t) >= 0},
    COB <- CapacityOf(self),
    COT <- [t \in Model |-> IF ClockOf(self, t) >= 0 THEN WorkTime(self, t) ELSE 0],
    COCost <- COCost[self],
    MaxLoad <- Len(ModelOf),
    status <- mach[self].status, state <- mach[self].state,
    changeStatus <- mach[self].changeStatus, mode <- mach[self].mode,
    COTarget <- mach[self].COTarget, toIdle <- mach[self].toIdle,
    inputBuffer <- Models(mach[self].input), model <- Models(mach[self].model),
    outputBuffer <- Models(mach[self].output)

-----------------------------------------------------------------------------
\* The site loads the machine in a state a Machine starts in ...
Starts == M!Init

\* ... and a step of the line is one of the machine, or leaves it alone.
Steps == [M!Next]_(M!vars)

\* The machine is a Machine.
IsMachine == Starts /\ [][Steps]_simVars
=============================================================================
