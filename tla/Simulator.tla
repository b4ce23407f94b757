------------------------------ MODULE Simulator ------------------------------
(***************************************************************************)
(* The second-by-second simulation of the product line (simulator.cpp and  *)
(* simulator.hpp): Simulator::simulate with the calls it makes on the      *)
(* machines, moveJobToNextProcess, setup and update.  The caller is any    *)
(* main program that, between two calls of simulate, adds waiting trays,   *)
(* puts a machine on line and hands setup a configuration.                 *)
(*                                                                         *)
(* A second is one round of the while loop: the shift book, then every     *)
(* machine, the last process first -- fed, advanced and unloaded -- and    *)
(* the clock.  pc says which of these comes next, current which machine.   *)
(***************************************************************************)
EXTENDS ProductLine

CONSTANTS
    Waiting0,    \* the trays that wait when the run starts
    Books,       \* the shift books: sets of outages [target, beginTime, interval]
    CheckTime,   \* gContext.checkTime
    MaxTime      \* bound: last value of realTime

Outage == [target : Machines, beginTime : Nat, interval : Nat]

ASSUME SimulatorAssumption ==
    /\ Waiting0 \subseteq Tray
    /\ Books \subseteq SUBSET Outage
    /\ CheckTime \in Nat \ {0}
    /\ MaxTime \in Nat

VARIABLES
    mach,        \* the machines; a lane is a sequence of trays
    ioo,         \* ioo[u]: index in its route of the process tray u is at, -1 before
    releaseTime, \* releaseTime[u]: when tray u was finished last
    JOP,         \* JOP[p]: trays at process p; JOP[-1]: those that wait
    realTime,    \* the clock
    count,       \* seconds since idle machines were last looked for
    working,     \* goes FALSE when the simulation is to return
    triggered,   \* triggerIndexVec, the machines to re-plan
    book,        \* shift book entries that have not been carried out
    lastJobReleaseTime,
    config,      \* the argument of setup: {} or one <<machine, model>>
    pc,          \* what comes next
    current      \* the machine whose turn it is

simVars == <<mach, ioo, releaseTime, JOP, realTime, count, working, triggered, book,
             lastJobReleaseTime, config, pc, current>>

\* What is on a machine, first out first.
Lane(m) == m.output \o m.model \o m.input

\* Shift book entries: every outage is two of them.
Entries(outages) ==
    {[target |-> o.target, type |-> "SBI_OFF", beginTime |-> o.beginTime] : o \in outages}
    \cup {[target |-> o.target, type |-> "SBI_ON", beginTime |-> o.beginTime + o.interval]
            : o \in outages}

Init ==
    /\ mach = [m \in Machines |-> Loaded(m)]
    /\ ioo = [u \in Tray |->
                IF \E m \in Machines : u \in ToSet(Lane(Loaded(m)))
                THEN LET p == ProcessOf[CHOOSE m \in Machines : u \in ToSet(Lane(Loaded(m)))]
                     IN  (CHOOSE i \in 1..Len(Route[ModelOf[u]]) : Route[ModelOf[u]][i] = p) - 1
                ELSE -1]
    /\ releaseTime = [u \in Tray |-> 0]
    /\ JOP = [p \in Process \cup {-1} |->
                IF p = -1 THEN Waiting0 ELSE UNION {OnSite(m) : m \in MachinesOf(p)}]
    /\ realTime = 0
    /\ count = 0
    /\ working = TRUE
    /\ triggered = <<>>
    /\ \E outages \in Books : book = Entries(outages)
    /\ lastJobReleaseTime = 0
    /\ config = {}
    /\ pc = "idle"
    /\ current = FirstVisited

-----------------------------------------------------------------------------
\* The front of a lane holds a tray of model t.
FrontIs(lane, t) == lane # <<>> /\ ModelOf[Head(lane)] = t

Waiting(t) == {u \in JOP[-1] : ModelOf[u] = t}

\* Variant: a generic machine has no limit, as COB() once said (INT_MAX).
AcceptsUnlimited(m, t) ==
    \/ Generic[m]
    \/ /\ Len(mach[m].input) < CapacityOf(m)
       /\ IF mach[m].changeStatus = "COS_GOING" \/ mach[m].status = "MS_CO"
          THEN mach[m].COTarget = t ELSE mach[m].mode = t

\* Variant: the change-over that is pending or runs is forgotten.
AcceptsOldMode(m, t) ==
    /\ Len(mach[m].input) < CapacityOf(m)
    /\ Generic[m] \/ mach[m].mode = t \/ mach[m].COTarget = t

\* Machine::acceptable().
Acceptable(m, t) ==
    /\ Len(mach[m].input) < CapacityOf(m)
    /\ \/ Generic[m]
       \/ /\ mach[m].changeStatus = "COS_GOING" \/ mach[m].status = "MS_CO"
          /\ mach[m].COTarget = t
       \/ /\ mach[m].changeStatus = "COS_KEEP" /\ mach[m].status # "MS_CO"
          /\ mach[m].mode = t

\* getCOTimeCost().
COTimeCost(m) ==
    IF mach[m].changeStatus = "COS_GOING" \/ mach[m].status = "MS_CO"
    THEN COCost[m][mach[m].mode][mach[m].COTarget] ELSE 0

\* The loop over the machines goes on with the next one, or the second ends.
\* A machine that shipped out a finished tray passes over the test of working
\* after it (the continue of simulator.cpp:477), but not over the one after
\* the last machine of the process.
GoOn(w, shippedOut) ==
    LET p == ProcessOf[current]
        sameProcess == current + 1 \in MachinesOf(p)
    IN IF (p = 0 /\ ~sameProcess) \/ (~w /\ ~(shippedOut /\ sameProcess))
       THEN pc' = "tick" /\ current' = FirstVisited
       ELSE pc' = "feed" /\ current' = IF sameProcess THEN current + 1
                                                     ELSE FirstOf(p - 1)

-----------------------------------------------------------------------------
(* Between two calls: the caller, update() and setup(). *)

\* The caller adds trays to the queue (update), may put the machine it wants
\* to configure on line, and forgets the triggers.
Call(arrivals, configuration, online) ==
    /\ pc = "idle"
    /\ \A u \in arrivals : u \notin JOP[-1] /\ ioo[u] = -1
    /\ JOP' = [JOP EXCEPT ![-1] = @ \cup arrivals]
    /\ config' = configuration
    /\ mach' = [m \in Machines |-> IF online /\ \E t \in Model : <<m, t>> \in configuration
                                   THEN [mach[m] EXCEPT !.state = "S_ONLINE"] ELSE mach[m]]
    /\ triggered' = <<>>
    /\ pc' = "setup"
    /\ UNCHANGED <<ioo, releaseTime, realTime, count, working, book, lastJobReleaseTime, current>>

\* One machine of setup(): without mode it takes the model at once; with a
\* change-over pending or running it is left alone.
Configured(m, t) ==
    IF mach[m].mode = NoModel THEN [mach[m] EXCEPT !.mode = t]
    ELSE IF /\ mach[m].changeStatus = "COS_KEEP"
            /\ mach[m].status # "MS_CO"
            /\ mach[m].mode # t
         THEN [mach[m] EXCEPT !.changeStatus = "COS_GOING", !.COTarget = t]
         ELSE mach[m]

\* setup(), then simulate() is entered.
Setup ==
    /\ pc = "setup"
    /\ mach' = [m \in Machines |->
                  IF \E t \in Model : <<m, t>> \in config
                  THEN Configured(m, CHOOSE t \in Model : <<m, t>> \in config) ELSE mach[m]]
    /\ count' = 0
    /\ working' = TRUE
    /\ pc' = "book"
    /\ UNCHANGED <<ioo, releaseTime, JOP, realTime, triggered, book, lastJobReleaseTime,
                   config, current>>

-----------------------------------------------------------------------------
(* The shift book. *)

\* Variant: the order of the entries is reversed (the < of ShiftBookItem).
LatestFirst == {e \in book : \A f \in book : e.beginTime >= f.beginTime}

\* Only the earliest entry is looked at (any of those that tie for it).
Top == {e \in book : \A f \in book : e.beginTime <= f.beginTime}

\* How long the machine needs for what is in its lane, at its own clock.
ExtraTimeCost(m) == WorkTime(m, mach[m].mode) * (Len(mach[m].input) + 1)

Due(e) == realTime + ExtraTimeCost(e.target) >= e.beginTime

\* Variant: the end of an outage leaves the machine off line.
BookOnlySwitchesOff ==
    /\ pc = "book"
    /\ \E e \in Top : /\ Due(e)
                      /\ mach' = [mach EXCEPT ![e.target].state = "S_OFFLINE"]
                      /\ book' = book \ {e}
    /\ pc' = "idle"
    /\ UNCHANGED <<ioo, releaseTime, JOP, realTime, count, working, triggered,
                   lastJobReleaseTime, config, current>>

\* An entry is carried out, and simulate() returns.
BookFires ==
    /\ pc = "book"
    /\ \E e \in Top :
          /\ Due(e)
          /\ mach' = [mach EXCEPT ![e.target].state =
                         IF e.type = "SBI_OFF" THEN "S_OFFLINE" ELSE "S_ONLINE"]
          /\ book' = book \ {e}
    /\ pc' = "idle"
    /\ UNCHANGED <<ioo, releaseTime, JOP, realTime, count, working, triggered,
                   lastJobReleaseTime, config, current>>

BookQuiet ==
    /\ pc = "book"
    /\ book # {} => \E e \in Top : ~Due(e)
    /\ pc' = "feed"
    /\ UNCHANGED <<mach, ioo, releaseTime, JOP, realTime, count, working, triggered, book,
                   lastJobReleaseTime, config, current>>

-----------------------------------------------------------------------------
(* moveJobToNextProcess(). *)

\* Variant: the tray stays in the books of the process it leaves.
RebookedOnly(u, from, to) == [p \in DOMAIN JOP |-> IF p = to THEN JOP[p] \cup {u} ELSE JOP[p]]

\* JOP once tray u has left process from for process to (none: no entry).
Rebooked(u, from, to) ==
    [p \in DOMAIN JOP |-> IF p = to THEN JOP[p] \cup {u}
                          ELSE IF p = from THEN JOP[p] \ {u} ELSE JOP[p]]

\* Variant: only the processes are looked at, not the trays that wait.
LastTrayOnFloor(u, m, jop, from, left) ==
    /\ \A p \in 0..from - 1 : \A v \in jop[p] : ModelOf[v] # ModelOf[u]
    /\ mach[m].model = <<>> /\ left = <<>>
    /\ mach[m].input # <<>> => ModelOf[Head(mach[m].input)] # mach[m].mode

\* The test for the last tray: nothing of the model waits or is at an earlier
\* process, and the machine it leaves has run out of it.  left is what the
\* output holds while the test is made.
LastTray(u, m, jop, from, left) ==
    /\ \A p \in -1..from - 1 : \A v \in jop[p] : ModelOf[v] # ModelOf[u]
    /\ mach[m].model = <<>>
    /\ left = <<>>
    /\ mach[m].input # <<>> => ModelOf[Head(mach[m].input)] # mach[m].mode

\* Variant: the trays that were tried are not put back.
LeftWithoutTried(out, k) == SubSeq(out, k + 1, Len(out))

\* What is left of the output once its k-th tray has left: the trays that were
\* tried before it are put back at the end.
Left(out, k) == SubSeq(out, k + 1, Len(out)) \o SubSeq(out, 1, k - 1)

\* Tray u, the k-th in the output of machine m, goes to the input of machine
\* to or, when to = -1, leaves the line.
Move(u, m, k, to) ==
    LET process == Route[ModelOf[u]][ioo[u] + 1]
        final == to = -1
        dest == IF final THEN -2 ELSE Route[ModelOf[u]][ioo[u] + 2]
        jop == Rebooked(u, process, dest)
        out == mach[m].output
        fires == LastTray(u, m, jop, process, SubSeq(out, k + 1, Len(out)))
        sent == [mach EXCEPT
                   ![m].output = Left(out, k),
                   ![m].toIdle = IF fires THEN @ + Offset ELSE @]
    IN /\ JOP' = jop
       /\ ioo' = IF final THEN ioo ELSE [ioo EXCEPT ![u] = @ + 1]
       /\ mach' = IF final THEN sent ELSE [sent EXCEPT ![to].input = Append(@, u)]
       /\ triggered' = IF fires THEN <<m>> ELSE triggered
       /\ working' = ~fires
       /\ GoOn(~fires, final)

-----------------------------------------------------------------------------
(* The visit of a machine: it is fed if it is at the head of the line ... *)

CanBeFed(m) ==
    /\ mach[m].mode # NoModel
    /\ ProcessOf[m] = FirstProcess(mach[m].mode)
    /\ mach[m].state = "S_ONLINE"
    /\ Waiting(mach[m].mode) # {}
    /\ Acceptable(m, mach[m].mode)

Feed ==
    /\ pc = "feed"
    /\ CanBeFed(current)
    /\ LET u == Min(Waiting(mach[current].mode))
       IN /\ JOP' = Rebooked(u, -1, ProcessOf[current])
          /\ ioo' = [ioo EXCEPT ![u] = 0]
          /\ mach' = [mach EXCEPT ![current].input = Append(@, u)]
    /\ working' = TRUE
    /\ pc' = "work"
    /\ UNCHANGED <<releaseTime, realTime, count, triggered, book, lastJobReleaseTime,
                   config, current>>

FeedNothing ==
    /\ pc = "feed"
    /\ ~CanBeFed(current)
    /\ pc' = "work"
    /\ UNCHANGED <<mach, ioo, releaseTime, JOP, realTime, count, working, triggered, book,
                   lastJobReleaseTime, config, current>>

-----------------------------------------------------------------------------
(* ... its status is advanced ... *)

\* The machine whose turn it is becomes r.
Becomes(r) ==
    /\ mach' = [mach EXCEPT ![current] = r]
    /\ pc' = "ship"
    /\ UNCHANGED <<ioo, JOP, realTime, count, working, triggered, book, config, current>>

\* finishJob(), for a tray whose time is over or that waited for room.
Finish ==
    /\ pc = "work"
    /\ LET m == mach[current]
       IN /\ \/ m.status = "MS_WORKING" /\ realTime >= m.toIdle
             \/ m.status = "MS_BLOCKING"
          /\ Len(m.output) < CapacityOf(current)
          /\ Becomes([m EXCEPT !.output = Append(@, Head(m.model)), !.model = Tail(@),
                               !.toIdle = realTime, !.status = "MS_IDLE"])
          /\ releaseTime' = [releaseTime EXCEPT ![Head(m.model)] = realTime]
          /\ lastJobReleaseTime' = IF m.status = "MS_WORKING" THEN realTime
                                   ELSE lastJobReleaseTime

Block ==
    /\ pc = "work"
    /\ LET m == mach[current]
       IN /\ m.status = "MS_WORKING" /\ realTime >= m.toIdle
          /\ Len(m.output) >= CapacityOf(current)
          /\ Becomes([m EXCEPT !.status = "MS_BLOCKING"])
    /\ UNCHANGED <<releaseTime, lastJobReleaseTime>>

\* Variant: the target is not forgotten.
CODoneKeepsTarget ==
    /\ pc = "work"
    /\ LET m == mach[current]
       IN /\ m.status = "MS_CO" /\ m.toIdle <= realTime
          /\ Becomes([m EXCEPT !.status = "MS_IDLE", !.mode = m.COTarget])
    /\ UNCHANGED <<releaseTime, lastJobReleaseTime>>

\* The change-over is over.
CODone ==
    /\ pc = "work"
    /\ LET m == mach[current]
       IN /\ m.status = "MS_CO" /\ m.toIdle <= realTime
          /\ Becomes([m EXCEPT !.status = "MS_IDLE", !.mode = m.COTarget, !.COTarget = NoModel])
    /\ UNCHANGED <<releaseTime, lastJobReleaseTime>>

\* changeOver(), and the offset the status log adds to toIdle.
StartCO ==
    /\ pc = "work"
    /\ LET m == mach[current]
           idle == realTime + COCost[current][m.mode][m.COTarget]
       IN /\ m.status = "MS_IDLE" /\ m.changeStatus = "COS_GOING"
          /\ m.input # <<>> => FrontIs(m.input, m.COTarget)
          /\ Becomes([m EXCEPT !.status = "MS_CO", !.changeStatus = "COS_KEEP",
                               !.toIdle = IF realTime - idle < Offset THEN idle + Offset
                                                                      ELSE idle])
    /\ UNCHANGED <<releaseTime, lastJobReleaseTime>>

\* The front tray of the input may be worked on.
Workable(m) ==
    /\ mach[m].input # <<>>
    /\ mach[m].changeStatus = "COS_GOING" => ~FrontIs(mach[m].input, mach[m].COTarget)
    /\ FrontIs(mach[m].input, mach[m].mode) \/ Generic[m]

\* workOn().
StartWork ==
    /\ pc = "work"
    /\ LET m == mach[current]
       IN /\ m.status = "MS_IDLE"
          /\ Workable(current)
          /\ Becomes([m EXCEPT !.status = "MS_WORKING",
                               !.toIdle = realTime + WorkTime(current, ModelOf[Head(m.input)]),
                               !.model = Append(@, Head(m.input)), !.input = Tail(@)])
    /\ UNCHANGED <<releaseTime, lastJobReleaseTime>>

\* A front tray the machine can neither work on nor change over for: the
\* program throws when a change-over is pending and returns -8 otherwise.
Mismatch ==
    /\ pc = "work"
    /\ LET m == mach[current]
       IN /\ m.status = "MS_IDLE"
          /\ m.input # <<>>
          /\ m.changeStatus = "COS_GOING" => ~FrontIs(m.input, m.COTarget)
          /\ ~Workable(current)
    /\ pc' = "abort"
    /\ UNCHANGED <<mach, ioo, releaseTime, JOP, realTime, count, working, triggered, book,
                   lastJobReleaseTime, config, current>>

\* Nothing is due on the machine.
KeepOn ==
    /\ pc = "work"
    /\ LET m == mach[current]
       IN \/ m.status \in {"MS_WORKING", "MS_CO"} /\ realTime < m.toIdle
          \/ m.status = "MS_BLOCKING" /\ Len(m.output) >= CapacityOf(current)
          \/ m.status = "MS_IDLE" /\ m.changeStatus = "COS_KEEP" /\ m.input = <<>>
    /\ pc' = "ship"
    /\ UNCHANGED <<mach, ioo, releaseTime, JOP, realTime, count, working, triggered, book,
                   lastJobReleaseTime, config, current>>

-----------------------------------------------------------------------------
(* ... and its output is shipped. *)

\* Of some machines the one with the least key, the first of those that tie.
Least(key, macs) ==
    {m \in macs : \A n \in macs : key[m] < key[n] \/ (key[m] = key[n] /\ m <= n)}

\* The one whose front finished tray is oldest ...
Oldest(macs) == Least([m \in macs |-> releaseTime[Head(mach[m].output)]], macs)

\* ... and the one that will be idle first.
IdleFirst(macs) == Least([m \in macs |-> mach[m].toIdle + COTimeCost(m)], macs)

\* Variant: the machine ships its own tray, however old the others are.
BestIsSelf(m) == {m}

\* Of the machines of the process with a finished tray (of the same model,
\* unless the next process is generic), the one whose tray is oldest.
Best(m) ==
    LET t == ModelOf[Head(mach[m].output)]
        macs == {n \in MachinesOf(ProcessOf[m]) :
                   /\ mach[n].output # <<>>
                   /\ IsGenericProcess(ProcessOf[m] + 1) \/ FrontIs(mach[n].output, t)}
    IN Oldest(macs)

\* The process the k-th finished tray of machine m is sent to: looked up in
\* the route of the first tray, mi, whatever the model of the k-th.
NextProcess(m, k) ==
    LET mi == Route[ModelOf[Head(mach[m].output)]]
    IN mi[ioo[mach[m].output[k]] + 2]

\* The machines that can take it.
Takers(m, k) ==
    {n \in MachinesOf(NextProcess(m, k)) :
        /\ Acceptable(n, ModelOf[mach[m].output[k]])
        /\ mach[n].state = "S_ONLINE"}

\* Variant: no machine looks past the first.
TriesFirst(m) == {1}

\* The finished trays of machine m that are looked at: only a generic machine
\* looks past the first.
Tried(m) == 1..IF Generic[m] THEN Len(mach[m].output) ELSE 1

AtFinalProcess(m) == ProcessOf[m] = FinalProcess(ModelOf[Head(mach[m].output)])

ShipUnchanged == UNCHANGED <<releaseTime, realTime, count, book, lastJobReleaseTime, config>>

\* The oldest finished tray leaves the line.
ShipOut ==
    /\ pc = "ship"
    /\ mach[current].output # <<>>
    /\ \E best \in Best(current) :
          /\ AtFinalProcess(best)
          /\ Move(Head(mach[best].output), best, 1, -1)
    /\ ShipUnchanged

\* The first tray some machine can take goes to the one that is idle first.
ShipOn ==
    /\ pc = "ship"
    /\ mach[current].output # <<>>
    /\ \E best \in Best(current) :
          /\ ~AtFinalProcess(best)
          /\ \E k \in Tried(best) :
                /\ \A i \in 1..k - 1 : Takers(best, i) = {}
                /\ \E to \in IdleFirst(Takers(best, k)) :
                      Move(mach[best].output[k], best, k, to)
    /\ ShipUnchanged

\* No machine can take a tray; a generic machine has its trays back in order.
ShipNothing ==
    /\ pc = "ship"
    /\ mach[current].output # <<>> =>
          \E best \in Best(current) :
             ~AtFinalProcess(best) /\ \A k \in Tried(best) : Takers(best, k) = {}
    /\ GoOn(working, FALSE)
    /\ UNCHANGED <<mach, ioo, JOP, working, triggered>>
    /\ ShipUnchanged

-----------------------------------------------------------------------------
Magnitude(x) == IF x < 0 THEN -x ELSE x

\* The machines that have been idle for more than Offset.
LongIdle(now) ==
    {m \in Machines : /\ mach[m].status = "MS_IDLE"
                      /\ mach[m].state # "S_OFFLINE"
                      /\ now - Magnitude(mach[m].toIdle) > Offset}

\* The triggers when idle machines are looked for: those are added, in their
\* order.
WithIdle(now) ==
    {triggered \o s : s \in {s \in [1..Cardinality(LongIdle(now)) -> LongIdle(now)] :
                               \A i, j \in DOMAIN s : i < j => s[i] < s[j]}}

\* Variant: the seconds since the last look are not counted anew.
TickWithoutReset ==
    /\ pc = "tick" /\ realTime < MaxTime
    /\ realTime' = realTime + 1 /\ count' = count + 1
    /\ LET check == count' = CheckTime
       IN /\ triggered' \in IF check THEN WithIdle(realTime') ELSE {triggered}
          /\ pc' = IF ~working \/ (check /\ triggered' # <<>>) THEN "idle" ELSE "book"
    /\ UNCHANGED <<mach, ioo, releaseTime, JOP, working, book, lastJobReleaseTime, config,
                   current>>

\* Variant: the simulation returns whenever it looks for idle machines.
TickReturns ==
    /\ pc = "tick" /\ realTime < MaxTime
    /\ realTime' = realTime + 1
    /\ LET check == count + 1 = CheckTime
       IN /\ triggered' \in IF check THEN WithIdle(realTime') ELSE {triggered}
          /\ count' = IF check THEN 0 ELSE count + 1
          /\ pc' = IF ~working \/ check THEN "idle" ELSE "book"
    /\ UNCHANGED <<mach, ioo, releaseTime, JOP, working, book, lastJobReleaseTime, config,
                   current>>

\* The end of a second: every CheckTime seconds idle machines are looked for;
\* simulate() returns when there are triggers then, or working is FALSE.
Tick ==
    /\ pc = "tick"
    /\ realTime < MaxTime
    /\ realTime' = realTime + 1
    /\ LET check == count + 1 = CheckTime
       IN /\ triggered' \in IF check THEN WithIdle(realTime') ELSE {triggered}
          /\ count' = IF check /\ triggered' = <<>> THEN 0 ELSE count + 1
          /\ pc' = IF ~working \/ (check /\ triggered' # <<>>) THEN "idle" ELSE "book"
    /\ UNCHANGED <<mach, ioo, releaseTime, JOP, working, book, lastJobReleaseTime, config,
                   current>>

-----------------------------------------------------------------------------
\* What a caller may configure: one machine that is not generic, with a model
\* it supports and whose route passes its process.
Configurations ==
    {{}} \cup {{c} : c \in {c \in Machines \X Model :
                              /\ ~Generic[c[1]]
                              /\ Supports(c[1], c[2])
                              /\ ProcessOf[c[1]] \in ToSet(Route[c[2]])}}

\* The trays that are still to come when the run starts.
Later == Tray \ (Waiting0 \cup UNION {ToSet(Lane(Loaded(m))) : m \in Machines})

Simulate ==
    \/ BookFires \/ BookQuiet
    \/ Feed \/ FeedNothing
    \/ Finish \/ Block \/ CODone \/ StartCO \/ StartWork \/ Mismatch \/ KeepOn
    \/ ShipOut \/ ShipOn \/ ShipNothing
    \/ Tick

Next ==
    \/ \E arrivals \in SUBSET Later, c \in Configurations, online \in BOOLEAN :
          Call(arrivals, c, online)
    \/ Setup
    \/ Simulate

Spec == Init /\ [][Next]_simVars

FairSpec == Spec /\ WF_simVars(Next)

-----------------------------------------------------------------------------
Status == {"MS_IDLE", "MS_WORKING", "MS_CO", "MS_BLOCKING"}
Phase == {"idle", "setup", "book", "feed", "work", "ship", "tick", "abort"}
Mode == Model \cup {NoModel}
MachineRecord == [state : {"S_ONLINE", "S_OFFLINE"}, mode : Mode, toIdle : Int, status : Status,
                  changeStatus : {"COS_KEEP", "COS_GOING"}, COTarget : Mode,
                  input : Seq(Tray), model : Seq(Tray), output : Seq(Tray)]

\* The type of the state of the simulator and its machines (simulator.hpp,
\* lines 105-110, machine.hpp, lines 11-99).
TypeOK ==
    /\ mach \in [Machines -> MachineRecord]
    /\ ioo \in [Tray -> Nat \cup {-1}]
    /\ releaseTime \in [Tray -> Nat]
    /\ JOP \in [Process \cup {-1} -> SUBSET Tray]
    /\ realTime \in Nat /\ count \in 0..CheckTime /\ lastJobReleaseTime \in Nat
    /\ working \in BOOLEAN
    /\ triggered \in Seq(Machines)
    /\ book \subseteq Entries(UNION Books)
    /\ config \in Configurations
    /\ pc \in Phase /\ current \in Machines

OnMachine(u) == {m \in Machines : u \in ToSet(Lane(mach[m]))}
Booked(u) == {p \in DOMAIN JOP : u \in JOP[p]}

\* Where a tray may be: it waits, is still to come, has left, or is on a machine.
Waits(u) == OnMachine(u) = {} /\ Booked(u) = {-1} /\ ioo[u] = -1
ToCome(u) == OnMachine(u) = {} /\ Booked(u) = {} /\ ioo[u] = -1 /\ u \in Later
HasLeft(u) == OnMachine(u) = {} /\ Booked(u) = {} /\ ioo[u] = Len(Route[ModelOf[u]]) - 1
IsOn(u, m) == /\ OnMachine(u) = {m} /\ Booked(u) = {ProcessOf[m]}
              /\ ioo[u] + 1 \in 1..Len(Route[ModelOf[u]])
              /\ Route[ModelOf[u]][ioo[u] + 1] = ProcessOf[m]

\* The books and the floor agree (moveJobToNextProcess, simulator.hpp:33-55):
\* a tray is in one lane of one machine, of the process its route and JOP
\* name, or waits, or has left; none is lost, doubled or entered twice.
BooksMatchFloor ==
    /\ \A m \in Machines : IsInjective(Lane(mach[m]))
    /\ \A u \in Tray : Waits(u) \/ ToCome(u) \/ HasLeft(u) \/ \E m \in Machines : IsOn(u, m)

\* The simulator never meets a front tray its machine is not set up for
\* (simulator.cpp:328 and 423): feeding, shipping, change-overs and
\* configurations work together on every machine of the line.
NeverAborts == pc # "abort"

\* The trays that leave the machine they are on in this step.
Leaving(m) == ToSet(mach[m].output) \ ToSet(mach'[m].output)

Fires(m) == Leaving(m) # {} /\ mach'[m].toIdle # mach[m].toIdle

Upstream(u, v) == v \in UNION {JOP[p] : p \in {q \in DOMAIN JOP : q = -1 \/
                                 q < Route[ModelOf[u]][ioo[u] + 1]}}

\* When the last tray fires the trigger (simulator.hpp:57-90) it is the last:
\* no tray of its model waits, is upstream, or is left on the machine, but for
\* those that came for the change-over back to it.
LastTrayIsLast(m) ==
    Fires(m) => \A u \in Leaving(m), v \in Tray :
                   v # u /\ ModelOf[v] = ModelOf[u] =>
                      /\ ~Upstream(u, v)
                      /\ v \in ToSet(Lane(mach[m])) => mach[m].COTarget = ModelOf[u]

\* On a machine with modes.
TriggerMeansRunOut ==
    [][\A m \in Machines : ~Generic[m] => LastTrayIsLast(m)]_simVars

\* The trays machine n competes with for the way to the next process, when it
\* is the turn of a tray of model t.
Competes(n, t) ==
    mach[n].output # <<>> /\ (IsGenericProcess(ProcessOf[n] + 1) \/ FrontIs(mach[n].output, t))

\* The tray that leaves was finished before every other finished tray of the
\* machines that compete with it (simulator.cpp:461, "the tray with the earliest
\* time"), although only their front trays are compared.
OldestLeavesFirst ==
    [][\A m \in Machines : ~Generic[m] =>
         \A u \in Leaving(m), n \in MachinesOf(ProcessOf[m]) :
            ~Generic[n] /\ Competes(n, ModelOf[u]) =>
               \A v \in ToSet(mach[n].output) : releaseTime[u] <= releaseTime[v]]_simVars

\* simulate() gives control back at the end of a second only with a machine
\* to re-plan (simulator.cpp:541-560), so the planner is never called in vain.
ReturnsWithTrigger ==
    [][pc = "tick" /\ pc' = "idle" => triggered' # <<>>]_simVars

\* simulator.cpp:139, the warning is brought forward: an outage has begun by
\* its begin time, even if several are due at once.
OutageBeginsInTime ==
    \A e \in book : pc = "feed" /\ e.type = "SBI_OFF" => realTime < e.beginTime

\* simulator.cpp:525, "if generic machine, check every job in output queue
\* until one match or all failed": when nothing is shipped, no machine of the
\* next process of any of the trays could take it.  This holds while the routes
\* of the models part only behind the next process.
GenericShipsWhatFits ==
    pc = "ship" /\ mach[current].output # <<>> =>
       \A best \in Best(current) :
          LET out == mach[best].output
          IN Generic[best] /\ ~AtFinalProcess(best) /\ (\A k \in Tried(best) : Takers(best, k) = {})
            => \A k \in 1..Len(out), n \in Machines :
                  ProcessOf[n] = Route[ModelOf[out[k]]][ioo[out[k]] + 2] =>
                     ~(Acceptable(n, ModelOf[out[k]]) /\ mach[n].state = "S_ONLINE")

Shipped == JOP = [p \in DOMAIN JOP |-> {}]

\* With one model and nothing to plan, every tray leaves the line: blocked
\* machines are freed again, outages end, and no call to simulate() hangs
\* (simulator.cpp:135-561).
EverythingShips == <>Shipped

-----------------------------------------------------------------------------
\* What the sources say of the simulator and the code does not do.

\* data/ShiftBook.csv:1, an outage has a begin time and a length in seconds:
\* the machine is not put on line before it is over.
OutageLastsItsInterval ==
    [][\A e \in book \ book' : e.type = "SBI_ON" => realTime >= e.beginTime]_simVars

-----------------------------------------------------------------------------
(* What the site data and the plant may be expected to be. *)

\* A tray is on one machine, of a process its model goes through, or waits; a
\* machine that is off line is empty.
SiteIsSound ==
    \A m \in Machines :
       LET lane == Lane(Loaded(m))
       IN /\ IsInjective(lane)
          /\ \A n \in Machines : m # n => ToSet(lane) \cap ToSet(Lane(Loaded(n))) = {}
          /\ ToSet(lane) \cap Waiting0 = {}
          /\ \A u \in ToSet(lane) : ProcessOf[m] \in ToSet(Route[ModelOf[u]])
          /\ Site[m].state = "S_OFFLINE" => Site[m].output = <<>>

\* Models that meet on a generic machine go on to the same process, at the same
\* place of their routes.
RoutesMeet ==
    \A s, t \in Model : \A i \in 1..Len(Route[s]) - 1, j \in 1..Len(Route[t]) :
       Route[s][i] = Route[t][j] /\ (\E m \in MachinesOf(Route[t][j]) : Generic[m]) =>
          /\ j < Len(Route[t]) /\ j < Len(Route[s])
          /\ Route[s][j + 1] = Route[t][j + 1]

\* A machine can make what it is set up for, and a generic one everything.
ClocksComplete ==
    \A m \in Machines :
       IF Generic[m] THEN \A t \in Model : Clock[m][t] >= 0
       ELSE \A t \in {Site[m].mode, Site[m].COTarget} \ {NoModel} : Clock[m][t] >= 0

\* The machines the shift books name have a mode: the warning of an outage is
\* brought forward by a time that is not negative.
TargetsAreSetUp ==
    \A outages \in Books : \A o \in outages :
       ~Generic[o.target] /\ Site[o.target].mode \in Model

\* The machines whose lanes hold what the machine is set up for; one that is
\* to change over is doing so.
Fitting == {m \in Machines :
              LET s == Loaded(m)
              IN /\ s.COTarget # NoModel <=> s.status = "MS_CO"
                 /\ s.status = "MS_CO" => s.mode \in Model
                 /\ Len(s.model) <= 1
                 /\ IF Generic[m] THEN s.mode = NoModel /\ s.COTarget = NoModel
                    ELSE \A u \in ToSet(s.input \o s.model) :
                            ModelOf[u] = IF s.status = "MS_CO" THEN s.COTarget ELSE s.mode}
=============================================================================
