-------------------------- MODULE SimulatorMachines --------------------------
(***************************************************************************)
(* Every machine of the simulated line is a Machine: the detailed          *)
(* specification of the line implements the one of a machine alone.        *)
(***************************************************************************)
EXTENDS Simulator

Of(m) == INSTANCE MachineOfLine WITH self <- m

\* The simulator uses its machines as Machine describes: what holds of a
\* Machine holds of every machine of the line that the site loaded with what
\* it is set up for.
MachinesAreMachines ==
    /\ \A m \in Fitting : Of(m)!Starts
    /\ [][\A m \in Fitting : Of(m)!Steps]_simVars
=============================================================================
