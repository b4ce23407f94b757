------------------------------ MODULE MCScheduler ------------------------------
(***************************************************************************)
(* Small plants and requirements for TLC.                                  *)
(***************************************************************************)
EXTENDS Scheduler

CONSTANTS ma, mb

TwoModels == {ma, mb}

\* A machine that starts empty and on line.
Fresh(t) == [state |-> "S_ONLINE", mode |-> t, COTarget |-> NoModel, toIdle |-> 0,
             input |-> <<>>, producting |-> <<>>, output |-> <<>>]

\* Shop: machines 0 and 1, the generic machine 2, the final machine 3.
ShopProcess == (0 :> 0 @@ 1 :> 0 @@ 2 :> 1 @@ 3 :> 2)
ShopGeneric == [m \in 0..3 |-> m = 2]
ShopBuffer == [m \in 0..3 |-> 2]
ShopClock == [m \in 0..3 |-> [t \in Model |-> IF m = 3 /\ t = ma THEN 2 ELSE 1]]
ShopCost == [m \in 0..3 |-> [f \in Model |-> [t \in Model |-> IF f = t THEN 0 ELSE 2]]]
ShopRoute == [t \in Model |-> <<0, 1, 2>>]
ShopModelOf == <<ma, ma, mb, ma, mb, mb>>
ShopDayOf == <<0, 0, 0, 1, 1, 2>>
ShopSite == (0 :> Fresh(ma) @@ 1 :> Fresh(NoModel) @@ 2 :> Fresh(NoModel)
          @@ 3 :> [Fresh(ma) EXCEPT !.input = <<1>>])
ShopBooks == SUBSET {[target |-> 3, beginTime |-> 9, interval |-> 6],
                     [target |-> 0, beginTime |-> 4, interval |-> 5],
                     [target |-> 3, beginTime |-> 20, interval |-> 90]}
NoBook == {{}}
NoTray == {}

\* Twenty: one slow machine before two fast ones, one of them set up for another
\* model; twenty trays are wanted on the first day.
TwentyProcess == (0 :> 0 @@ 1 :> 1 @@ 2 :> 1)
TwentyGeneric == [m \in 0..2 |-> FALSE]
TwentyBuffer == [m \in 0..2 |-> 2]
TwentyClock == (0 :> [t \in Model |-> 4] @@ 1 :> [t \in Model |-> 2] @@ 2 :> [t \in Model |-> 1])
TwentyCost == [m \in 0..2 |-> [f \in Model |-> [t \in Model |-> 0]]]
TwoRoute == [t \in Model |-> <<0, 1>>]
TwentyModelOf == [u \in 1..20 |-> ma]
TwentyDayOf == [u \in 1..20 |-> 0]
TwentySite == (0 :> Fresh(ma) @@ 1 :> Fresh(ma) @@ 2 :> Fresh(mb))

\* Blocked: the only machine of the last process is off line.
BlockedProcess == (0 :> 0 @@ 1 :> 1)
BlockedGeneric == [m \in 0..1 |-> FALSE]
BlockedBuffer == [m \in 0..1 |-> 1]
BlockedClock == [m \in 0..1 |-> [t \in Model |-> 1]]
BlockedCost == [m \in 0..1 |-> [f \in Model |-> [t \in Model |-> 0]]]
BlockedModelOf == <<ma, ma, ma, ma>>
BlockedDayOf == [u \in 1..4 |-> 0]
BlockedSite == (0 :> Fresh(ma) @@ 1 :> [Fresh(ma) EXCEPT !.state = "S_OFFLINE"])

\* These plants are what the theorems about the simulator ask for.
ASSUME PlantsAreSound == SiteIsSound /\ RoutesMeet /\ ClocksComplete /\ Fitting = Machines
=============================================================================
