--------------------------------- MODULE Lane ---------------------------------
(***************************************************************************)
(* What a machine of the line promises to whoever feeds and unloads it: it *)
(* is a queue of trays.  Nothing is said of modes, change-overs, times and *)
(* buffers; Machine shows how the program keeps the promise.               *)
(***************************************************************************)
EXTENDS Naturals, Sequences

CONSTANTS
    Tray,      \* what is queued
    AnyOrder   \* TRUE iff a tray may overtake others on its way out

VARIABLE queue \* the trays in the machine, oldest first

Init == queue \in Seq(Tray)

\* A tray enters.
Put(t) == queue' = Append(queue, t)

\* The k-th of the n trays that are ready leaves; those that were tried
\* before it go behind the other ready ones.
Get(k, n) ==
    /\ k > 1 => AnyOrder
    /\ queue' = SubSeq(queue, k + 1, n) \o SubSeq(queue, 1, k - 1)
                \o SubSeq(queue, n + 1, Len(queue))

Next ==
    \/ \E t \in Tray : Put(t)
    \/ \E n \in 1..Len(queue) : \E k \in 1..n : Get(k, n)

Spec == Init /\ [][Next]_queue
=============================================================================
