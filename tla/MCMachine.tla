------------------------------ MODULE MCMachine ------------------------------
(***************************************************************************)
(* Values of the constants of Machine for TLC.                             *)
(***************************************************************************)
EXTENDS Machine

CONSTANTS ma, mb, mc

TwoModels == {ma, mb}
ThreeModels == {ma, mb, mc}
\* The models take a different time, and so do the change-overs; some of them
\* are free, as they are when the change-over matrix does not list them.
MCCOT == [t \in Model |-> IF t = mb THEN 2 ELSE 1]
MCCOCost == [from \in Model |-> [to \in Model |->
                IF from = ma /\ to # ma THEN 1 ELSE IF from = mb /\ to = mc THEN 2 ELSE 0]]
=============================================================================
