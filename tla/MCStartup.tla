------------------------------ MODULE MCStartup ------------------------------
(***************************************************************************)
(* Values of the constants of Startup for TLC: a machine that changes over *)
(* and a generic one behind it.                                            *)
(***************************************************************************)
EXTENDS Startup

CONSTANTS d1, d2, text, ma, mb, unknown, none, blank

TwoDates == {d1, d2}
Headings == {d1, d2, text}
ThreeNames == {ma, mb, unknown}
TwoModels == {ma, mb}

\* A tray, and one part more; nothing is required where a row has ended.
Quantities == {3, 4}

FileOfModels == <<ma, mb>>
TwoNames == [m \in 0..1 |-> m]
TwoProcesses == [m \in 0..1 |-> m]
SecondGeneric == [m \in 0..1 |-> m = 1]
BothProcesses == [t \in TwoModels |-> <<0, 1>>]

Standing(t, i) == [model |-> t, ioo |-> i]

MCRecord(state, status, target, lanes) ==
    [state |-> state, status |-> status, COTarget |-> target, mode |-> ma, toIdle |-> 0,
     bufferSize |-> 1, input |-> lanes[1], producting |-> lanes[2], output |-> lanes[3]]

MCLanes(parts) == [1..3 -> {<<>>} \cup {<<x>> : x \in parts}]

\* The first machine: every status, with and without a target, and trays that
\* are, or are not, where their routes say.
FirstRecords ==
    {MCRecord(state, status, target, lanes) :
        state \in {"S_ONLINE", "S_OFFLINE"},
        status \in {"MS_IDLE", "MS_WORKING", "MS_CO", "MS_BLOCKING"},
        target \in {none, mb},
        lanes \in MCLanes({Standing(ma, 0), Standing(mb, 0)}) \cup MCLanes({Standing(ma, 1)})}
    \cup {[MCRecord("S_ONLINE", "MS_IDLE", none, <<<<>>, <<>>, <<>>>>) EXCEPT !.bufferSize = 0]}

\* The generic one behind it.
SecondRecords ==
    {MCRecord(state, status, target, lanes) :
        state \in {"S_ONLINE", "S_OFFLINE"},
        status \in {"MS_WORKING", "MS_CO"},
        target \in {none, mb},
        lanes \in MCLanes({Standing(mb, 1)})}

SiteRecords == [m \in 0..1 |-> IF m = 0 THEN FirstRecords ELSE SecondRecords]

\* Full, blank, short and too long.
ClockRows == {<<1, 2>>, <<blank, 2>>, <<1, blank>>, <<1>>, <<>>, <<1, 2, 3>>}

\* Bound: one site goes on with every choice of clocks, and with one of them to
\* the requirements; the others end with their books.
SampleSite ==
    <<MCRecord("S_ONLINE", "MS_WORKING", none, <<<<Standing(ma, 0)>>, <<Standing(ma, 0)>>, <<>>>>),
      MCRecord("S_OFFLINE", "MS_WORKING", none, <<<<>>, <<>>, <<Standing(mb, 1)>>>>)>>

SampleRows == <<1, 2>>

OneSiteGoesOn ==
    /\ stage = "requirements" => site = SampleSite
    /\ stage \in {"books", "shiftBook", "settings", "requirements"} =>
          \/ cells = [m \in 0..1 |-> SampleRows]
          \/ site = SampleSite /\ stage # "requirements"
=============================================================================
