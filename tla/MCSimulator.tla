----------------------------- MODULE MCSimulator -----------------------------
(***************************************************************************)
(* Small plants for TLC.                                                   *)
(***************************************************************************)
EXTENDS SimulatorMachines

CONSTANTS ma, mb

TwoModels == {ma, mb}

\* A machine that starts empty and on line.
Fresh(t) == [state |-> "S_ONLINE", mode |-> t, COTarget |-> NoModel, toIdle |-> 0,
             input |-> <<>>, producting |-> <<>>, output |-> <<>>]

EveryClock(c) == [m \in Machines |-> [t \in Model |-> c]]
EveryCost(c) == [m \in Machines |-> [f \in Model |-> [t \in Model |-> IF f = t THEN 0 ELSE c]]]

\* Line: machine 0 feeds machines 1 and 2, which feed machine 3.  The site left
\* a finished tray on machine 2, which has changed over since.
LineProcess == (0 :> 0 @@ 1 :> 1 @@ 2 :> 1 @@ 3 :> 2)
LineGeneric == [m \in 0..3 |-> FALSE]
LineBuffer == [m \in 0..3 |-> IF m \in {1, 2} THEN 2 ELSE 1]
LineClock == [m \in 0..3 |-> IF m = 2 THEN (ma :> 1 @@ mb :> 2) ELSE (ma :> 1 @@ mb :> 1)]
LineCost == [m \in 0..3 |-> (ma :> (ma :> 0 @@ mb :> 1) @@ mb :> (ma :> 1 @@ mb :> 0))]
LineRoute == [t \in {ma, mb} |-> <<0, 1, 2>>]
LineModelOf == <<ma, ma, mb, mb>>
LineSite == (0 :> Fresh(ma) @@ 1 :> Fresh(ma)
          @@ 2 :> [Fresh(mb) EXCEPT !.output = <<1>>] @@ 3 :> Fresh(mb))
LineWaiting == {2, 3}

NoBook == {{}}

\* Generic: machine 0, the generic machine 1, and two final machines, each
\* set up for one of the models.  The site left a tray of the wrong model in
\* the input of the last machine, which is to come to work at 10.
GenericProcess == (0 :> 0 @@ 1 :> 1 @@ 2 :> 2 @@ 3 :> 2)
GenericGeneric == [m \in 0..3 |-> m = 1]
GenericBuffer == [m \in 0..3 |-> 1]
GenericClock == [m \in 0..3 |-> LET c == <<1, 3, 4, 4>>[m + 1] IN (ma :> c @@ mb :> c)]
GenericCost == [m \in 0..3 |-> (ma :> (ma :> 0 @@ mb :> 1) @@ mb :> (ma :> 1 @@ mb :> 0))]
GenericRoute == [t \in {ma, mb} |-> <<0, 1, 2>>]
GenericModelOf == <<ma, ma, mb, ma, ma, mb, ma>>
GenericSite == (0 :> Fresh(ma)
             @@ 1 :> [Fresh(NoModel) EXCEPT !.producting = <<3>>, !.input = <<2>>]
             @@ 2 :> [Fresh(ma) EXCEPT !.output = <<4>>]
             @@ 3 :> [Fresh(mb) EXCEPT !.producting = <<6>>, !.toIdle = 9, !.input = <<7>>])
GenericWaiting == {1, 5}

\* Flow: one model; the second of three processes is slow, so the first blocks;
\* the last machine has an outage.
FlowProcess == (0 :> 0 @@ 1 :> 1 @@ 2 :> 1 @@ 3 :> 2)
FlowGeneric == [m \in 0..3 |-> FALSE]
FlowBuffer == [m \in 0..3 |-> 1]
FlowClock == (0 :> (ma :> 1) @@ 1 :> (ma :> 4) @@ 2 :> (ma :> 3) @@ 3 :> (ma :> 2))
FlowCost == [m \in 0..3 |-> (ma :> (ma :> 0))]
FlowRoute == (ma :> <<0, 1, 2>>)
FlowModelOf == [i \in 1..8 |-> ma]
FlowSite == [m \in 0..3 |-> Fresh(ma)]
FlowWaiting == 1..8
FlowBook == SUBSET {[target |-> 3, beginTime |-> 6, interval |-> 5],
                    [target |-> 1, beginTime |-> 9, interval |-> 3]}
OneModel == {ma}

\* Outage: one machine at the head of the line and a generic one behind it.
OutageProcess == (0 :> 0 @@ 1 :> 1)
OutageGeneric == (0 :> FALSE @@ 1 :> TRUE)
OutageBuffer == [m \in 0..1 |-> 2]
OutageClock == [m \in 0..1 |-> (ma :> 2 @@ mb :> 3)]
OutageCost == [m \in 0..1 |-> (ma :> (ma :> 0 @@ mb :> 1) @@ mb :> (ma :> 1 @@ mb :> 0))]
OutageRoute == [t \in {ma, mb} |-> <<0, 1>>]
OutageModelOf == <<ma, ma, mb>>
OutageSite == (0 :> Fresh(ma) @@ 1 :> Fresh(NoModel))
OutageWaiting == {1, 2, 3}
HeadOutage == {{[target |-> 0, beginTime |-> 4, interval |-> 3]}}

\* Diverging: two models part after the generic machine, for processes 2 and 3.
DivergingProcess == (0 :> 0 @@ 1 :> 1 @@ 2 :> 2 @@ 3 :> 3)
DivergingGeneric == [m \in 0..3 |-> m = 1]
DivergingBuffer == (0 :> 1 @@ 1 :> 2 @@ 2 :> 1 @@ 3 :> 1)
DivergingClock == [m \in 0..3 |-> IF m = 2 THEN (ma :> 4 @@ mb :> 4) ELSE (ma :> 1 @@ mb :> 1)]
DivergingRoute == (ma :> <<0, 1, 2>> @@ mb :> <<0, 1, 3>>)
DivergingModelOf == <<ma, ma, ma, mb>>
DivergingSite == (0 :> Fresh(ma)
               @@ 1 :> [Fresh(NoModel) EXCEPT !.input = <<4>>, !.output = <<3>>]
               @@ 2 :> [Fresh(ma) EXCEPT !.producting = <<1>>, !.input = <<2>>, !.toIdle = 4]
               @@ 3 :> Fresh(mb))
DivergingWaiting == {}
=============================================================================
