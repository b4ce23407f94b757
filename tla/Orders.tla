-------------------------------- MODULE Orders --------------------------------
(***************************************************************************)
(* What the program promises to whoever ordered the parts: every tray that *)
(* is ordered is delivered once, and the program stops when all are.       *)
(***************************************************************************)

CONSTANTS Tray   \* the trays that are ordered

VARIABLES
    outstanding, \* the trays that have not been delivered
    stopped      \* the program has ended

Init == outstanding = Tray /\ stopped = FALSE

Deliver(u) ==
    /\ ~stopped
    /\ u \in outstanding
    /\ outstanding' = outstanding \ {u}
    /\ UNCHANGED stopped

Stop ==
    /\ outstanding = {}
    /\ stopped' = TRUE
    /\ UNCHANGED outstanding

Next == Stop \/ \E u \in Tray : Deliver(u)

Spec == Init /\ [][Next]_<<outstanding, stopped>>
=============================================================================
