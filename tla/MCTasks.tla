------------------------------- MODULE MCTasks -------------------------------
(***************************************************************************)
(* Small requirements for TLC.                                             *)
(***************************************************************************)
EXTENDS Tasks, TLC

CONSTANTS ma, mb

TwoModels == {ma, mb}

\* Seven trays in four days, the first of them on the line at the start.
Trays == 1..7
TrayModel == (1 :> ma @@ 2 :> ma @@ 3 :> mb @@ 4 :> ma @@ 5 :> mb @@ 6 :> mb @@ 7 :> ma)
EveryDay == (1 :> 0 @@ 2 :> 0 @@ 3 :> 0 @@ 4 :> 1 @@ 5 :> 1 @@ 6 :> 2 @@ 7 :> 3)
OnSite == {1}

\* Nothing is required on day 2.
Holiday == (1 :> 0 @@ 2 :> 0 @@ 3 :> 0 @@ 4 :> 1 @@ 5 :> 1 @@ 6 :> 3 @@ 7 :> 3)
=============================================================================
