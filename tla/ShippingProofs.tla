---------------------------- MODULE ShippingProofs ----------------------------
(***************************************************************************)
(* What holds of the trays that leave a machine, for every plant: which of *)
(* the finished trays it is, and what the trigger of the last one means.   *)
(***************************************************************************)
EXTENDS SimulatorProofs

\* The shipping of a tray moves one tray of one machine, the best.
LEMMA ShippedTray ==
    ASSUME TypeOK, ShipOut \/ ShipOn
    PROVE  \E best \in Best(current) : \E k \in Tried(best) : \E to \in Machines \cup {-1} :
              Moved(best, k, to)
<1>1. CASE ShipOut
  <2>1. PICK best \in Best(current) : Move(Head(mach[best].output), best, 1, -1)
    BY <1>1 DEF ShipOut
  <2>2. /\ best \in Machines /\ Head(mach[best].output) = mach[best].output[1]
        /\ 1 \in 1..Len(mach[best].output) /\ 1 \in Tried(best)
    <3>1. /\ best \in Machines /\ Head(mach[best].output) = mach[best].output[1]
          /\ 1 \in 1..Len(mach[best].output)
      BY BestType
    <3> QED
      BY <3>1 DEF Tried
  <2>3. -1 \in Machines \cup {-1}
    OBVIOUS
  <2>4. Moved(best, 1, -1)
    BY <2>1, <2>2, <2>3, MoveEffect
  <2> QED
    BY <2>2, <2>3, <2>4
<1>2. CASE ShipOn
  <2>1. PICK best \in Best(current) :
           \E k \in Tried(best) : \E to \in IdleFirst(Takers(best, k)) :
              Move(mach[best].output[k], best, k, to)
    BY <1>2 DEF ShipOn
  <2>2. PICK k \in Tried(best) : \E to \in IdleFirst(Takers(best, k)) :
           Move(mach[best].output[k], best, k, to)
    BY <2>1
  <2>3. PICK to \in IdleFirst(Takers(best, k)) : Move(mach[best].output[k], best, k, to)
    BY <2>2
  <2>4. best \in Machines /\ k \in 1..Len(mach[best].output)
    BY BestType
  <2>5. to \in Machines
    BY DEF IdleFirst, Least, Takers, MachinesOf
  <2>6. Moved(best, k, to)
    BY <2>3, <2>4, <2>5, MoveEffect
  <2> QED
    BY <2>5, <2>6
<1> QED
  BY <1>1, <1>2

\* Every other step leaves the finished trays where they are, or finishes one.
LEMMA OutputsStay ==
    ASSUME TypeOK, [Next]_simVars, ~ShipOut, ~ShipOn, ~Finish
    PROVE  /\ \A n \in Machines : mach'[n].output = mach[n].output
           /\ releaseTime' = releaseTime
           /\ realTime' \in {realTime, realTime + 1}
<1>0. mach \in [Machines -> MachineRecord] /\ current \in Machines
  BY DEF TypeOK
<1>1. ASSUME NEW arrivals \in SUBSET Later, NEW c \in Configurations, NEW online \in BOOLEAN,
             Call(arrivals, c, online), NEW n \in Machines
      PROVE  mach'[n].output = mach[n].output
  <2>1. mach'[n] = mach[n] \/ mach'[n] = [mach[n] EXCEPT !.state = "S_ONLINE"]
    BY <1>1 DEF Call
  <2>2. [mach[n] EXCEPT !.state = "S_ONLINE"].output = mach[n].output
    BY <1>0 DEF MachineRecord
  <2> QED
    BY <2>1, <2>2
<1>2. ASSUME Setup, NEW n \in Machines PROVE mach'[n].output = mach[n].output
  <2>1. mach'[n] = mach[n] \/ \E t \in Model : mach'[n] = Configured(n, t)
    <3> SUFFICES ASSUME \E t \in Model : <<n, t>> \in config
                 PROVE  \E t \in Model : mach'[n] = Configured(n, t)
      BY <1>2 DEF Setup
    <3> QED
      BY <1>2 DEF Setup
  <2>2. \A t : Configured(n, t).output = mach[n].output
    BY <1>0 DEF Configured, MachineRecord
  <2> QED
    BY <2>1, <2>2
<1>3. ASSUME BookFires, NEW n \in Machines PROVE mach'[n].output = mach[n].output
  <2>1. PICK e \in Top : mach' = [mach EXCEPT ![e.target].state =
                                    IF e.type = "SBI_OFF" THEN "S_OFFLINE" ELSE "S_ONLINE"]
    BY <1>3 DEF BookFires
  <2> QED
    BY SMTT(30), <1>0, <2>1 DEF MachineRecord
<1>4. ASSUME Feed, NEW n \in Machines PROVE mach'[n].output = mach[n].output
  <2>1. PICK u : mach' = [mach EXCEPT ![current].input = Append(@, u)]
    BY <1>4 DEF Feed
  <2> QED
    BY <1>0, <2>1 DEF MachineRecord
<1>5. ASSUME NEW r, Becomes(r), r.output = mach[current].output, NEW n \in Machines
      PROVE  mach'[n].output = mach[n].output
  BY <1>0, <1>5 DEF Becomes
<1>6. ASSUME Block, NEW n \in Machines PROVE mach'[n].output = mach[n].output
  <2>1. Becomes([mach[current] EXCEPT !.status = "MS_BLOCKING"])
    BY <1>6 DEF Block
  <2>2. [mach[current] EXCEPT !.status = "MS_BLOCKING"].output = mach[current].output
    BY <1>0 DEF MachineRecord
  <2> QED
    BY <1>5, <2>1, <2>2
<1>7. ASSUME CODone, NEW n \in Machines PROVE mach'[n].output = mach[n].output
  <2> DEFINE r == [mach[current] EXCEPT !.status = "MS_IDLE", !.mode = mach[current].COTarget,
                                        !.COTarget = NoModel]
  <2>1. Becomes(r)
    BY <1>7 DEF CODone
  <2>2. r.output = mach[current].output
    BY SMTT(30), <1>0 DEF MachineRecord
  <2> HIDE DEF r
  <2> QED
    BY <1>5, <2>1, <2>2
<1>8. ASSUME StartCO, NEW n \in Machines PROVE mach'[n].output = mach[n].output
  <2> DEFINE idle == realTime + COCost[current][mach[current].mode][mach[current].COTarget]
             until == IF realTime - idle < Offset THEN idle + Offset ELSE idle
             r == [mach[current] EXCEPT !.status = "MS_CO", !.changeStatus = "COS_KEEP",
                                        !.toIdle = until]
  <2>1. Becomes(r)
    BY <1>8 DEF StartCO
  <2>2. r.output = mach[current].output
    <3> HIDE DEF until
    <3> QED
      BY <1>0 DEF MachineRecord
  <2> HIDE DEF r
  <2> QED
    BY <1>5, <2>1, <2>2
<1>9. ASSUME StartWork, NEW n \in Machines PROVE mach'[n].output = mach[n].output
  <2> DEFINE u == Head(mach[current].input)
             until == realTime + WorkTime(current, ModelOf[u])
             r == [mach[current] EXCEPT !.status = "MS_WORKING", !.toIdle = until,
                                        !.model = Append(@, u), !.input = Tail(@)]
  <2>1. Becomes(r)
    BY <1>9 DEF StartWork
  <2>2. r.output = mach[current].output
    <3> HIDE DEF until, u
    <3> QED
      BY <1>0 DEF MachineRecord
  <2> HIDE DEF r
  <2> QED
    BY <1>5, <2>1, <2>2
<1>10. CASE BookQuiet \/ FeedNothing \/ Mismatch \/ KeepOn \/ ShipNothing \/ Tick
            \/ UNCHANGED simVars
  BY <1>10 DEF BookQuiet, FeedNothing, Mismatch, KeepOn, ShipNothing, ShipUnchanged, Tick, simVars
<1>11. CASE \/ \E arrivals \in SUBSET Later, c \in Configurations, online \in BOOLEAN :
                  Call(arrivals, c, online)
            \/ Setup \/ BookFires \/ Feed \/ Block \/ CODone \/ StartCO \/ StartWork
  <2>1. releaseTime' = releaseTime /\ realTime' = realTime
    BY <1>11 DEF Call, Setup, BookFires, Feed, Block, CODone, StartCO, StartWork, Becomes
  <2> QED
    BY <1>1, <1>2, <1>3, <1>4, <1>6, <1>7, <1>8, <1>9, <1>11, <2>1
<1> QED
  BY <1>10, <1>11 DEF Next, Simulate

\* A machine at work finishes the tray in its work slot.
LEMMA FinishedTray ==
    ASSUME IInv, Finish
    PROVE  LET m == mach[current]
           IN /\ m.model # <<>> /\ m.model \in Seq(Tray) /\ m.output \in Seq(Tray)
              /\ Head(m.model) \in Tray /\ Head(m.model) \in ToSet(m.model)
              /\ mach'[current].output = Append(m.output, Head(m.model))
              /\ \A n \in Machines : n # current => mach'[n] = mach[n]
              /\ releaseTime' = [releaseTime EXCEPT ![Head(m.model)] = realTime]
              /\ realTime' = realTime
<1> DEFINE m == mach[current]
           r == [m EXCEPT !.output = Append(@, Head(m.model)), !.model = Tail(@),
                          !.toIdle = realTime, !.status = "MS_IDLE"]
<1>1. current \in Machines /\ mach \in [Machines -> MachineRecord] /\ m \in MachineRecord
  BY DEF IInv, TypeOK
<1>2. /\ Becomes(r) /\ m.status \in {"MS_WORKING", "MS_BLOCKING"}
      /\ releaseTime' = [releaseTime EXCEPT ![Head(m.model)] = realTime]
  BY DEF Finish
<1>3. m.model # <<>>
  BY <1>1, <1>2 DEF IInv, MachineOK
<1>4. m.model \in Seq(Tray) /\ m.output \in Seq(Tray)
  <2> HIDE DEF m
  <2> QED
    BY <1>1 DEF MachineRecord
<1>5. Head(m.model) \in Tray /\ Head(m.model) \in ToSet(m.model)
  <2>1. Head(m.model) = m.model[1] /\ 1 \in 1..Len(m.model)
    BY <1>3, <1>4, TailOf
  <2> HIDE DEF m
  <2> QED
    BY <1>4, <2>1 DEF ToSet
<1>6. r.output = Append(m.output, Head(m.model))
  <2> HIDE DEF m
  <2> QED
    BY <1>1 DEF MachineRecord
<1> HIDE DEF r
<1>7. mach'[current] = r /\ (\A n \in Machines : n # current => mach'[n] = mach[n])
      /\ realTime' = realTime
  BY <1>1, <1>2 DEF Becomes
<1> QED
  BY <1>2, <1>3, <1>4, <1>5, <1>6, <1>7

\* Finishing a tray takes none away.
LEMMA FinishLeaves ==
    ASSUME IInv, NEW m \in Machines, Leaving(m) # {}
    PROVE  ~Finish
<1> SUFFICES ASSUME Finish PROVE FALSE
  OBVIOUS
<1>1. CASE m = current
  <2>1. ToSet(Append(mach[m].output, Head(mach[m].model)))
           = ToSet(mach[m].output) \cup {Head(mach[m].model)}
    BY <1>1, FinishedTray, RangeOfAppend
  <2> QED
    BY <1>1, <2>1, FinishedTray DEF Leaving
<1>2. CASE m # current
  BY <1>2, FinishedTray DEF Leaving
<1> QED
  BY <1>1, <1>2

-----------------------------------------------------------------------------
\* What is behind the first of the finished trays.
LEMMA BehindFirst ==
    ASSUME NEW out \in Seq(Tray), out # <<>>, NEW rest, rest = SubSeq(out, 2, Len(out))
    PROVE  /\ rest \in Seq(Tray) /\ Len(out) \in Nat \ {0} /\ Len(rest) = Len(out) - 1
           /\ \A i \in 1..Len(rest) : i + 1 \in 1..Len(out) /\ rest[i] = out[i + 1]
<1>1. PICK n \in Nat \ {0} : n = Len(out)
  BY EmptySeq, LenProperties
<1>2. rest \in Seq(Tray) /\ Len(rest) = IF 2 <= n THEN n - 2 + 1 ELSE 0
  BY <1>1, SubSeqProperties
<1>3. Len(rest) = n - 1
  <2>1. (IF 2 <= n THEN n - 2 + 1 ELSE 0) = n - 1
    OBVIOUS
  <2> QED
    BY <1>2, <2>1
<1>4. ASSUME NEW i \in 1..n - 1 PROVE i + 1 \in 1..n /\ rest[i] = out[i + 1]
  <2>1. i \in 1..n - 2 + 1 /\ 2 + i - 1 = i + 1 /\ i + 1 \in 1..n
    OBVIOUS
  <2>2. rest[i] = out[2 + i - 1]
    BY <1>1, <2>1, SubSeqProperties
  <2> QED
    BY <2>1, <2>2
<1> QED
  BY <1>1, <1>2, <1>3, <1>4

\* The first of the finished trays leaves, the others keep their order.
LEMMA LeftFirst ==
    ASSUME NEW out \in Seq(Tray), out # <<>>
    PROVE  Left(out, 1) = SubSeq(out, 2, Len(out))
<1> DEFINE rest == SubSeq(out, 2, Len(out))
<1>1. SubSeq(out, 1, 0) = <<>>
  BY SubSeqEmpty
<1>2. Left(out, 1) = SubSeq(out, 1 + 1, Len(out)) \o SubSeq(out, 1, 1 - 1)
  BY DEF Left
<1>3. 1 + 1 = 2 /\ 1 - 1 = 0
  OBVIOUS
<1>4. Left(out, 1) = rest \o <<>> /\ rest \in Seq(Tray)
  BY <1>1, <1>2, <1>3, BehindFirst
<1> HIDE DEF rest
<1> QED
  BY <1>4, ConcatEmptySeq DEF rest

\* Nothing behind the first of the finished trays: it is the only one.
LEMMA OnlyOne ==
    ASSUME NEW out \in Seq(Tray), out # <<>>, SubSeq(out, 2, Len(out)) = <<>>
    PROVE  ToSet(out) = {out[1]}
<1>1. PICK rest \in Seq(Tray) : rest = SubSeq(out, 2, Len(out))
  BY BehindFirst
<1>2. Len(rest) = 0
  BY <1>1, EmptySeq
<1>3. Len(out) = 1
  <2>1. Len(rest) = Len(out) - 1 /\ Len(out) \in Nat
    BY <1>1, BehindFirst
  <2> QED
    BY <1>2, <2>1
<1> QED
  BY <1>3 DEF ToSet

\* When a machine with modes fires the trigger, no tray of the model of the one
\* that leaves it is left on the machine, or the machine changes over to it.
LEMMA LastOfMachine ==
    ASSUME FitInv, NEW m \in Machines, ~Generic[m], mach[m].output # <<>>, IsLast(m, 1),
           NEW u, u = mach[m].output[1], NEW v \in Tray, v # u, ModelOf[v] = ModelOf[u],
           v \in ToSet(Lane(mach[m]))
    PROVE  mach[m].COTarget = ModelOf[u]
<1> DEFINE r == mach[m]
<1>1. r \in MachineRecord /\ MachineOK(r) /\ Ready(m, r)
  BY DEF FitInv, IInv, TypeOK
<1> HIDE DEF r
<1>2. r.output \in Seq(Tray) /\ r.input \in Seq(Tray)
  BY <1>1 DEF MachineRecord
<1>3. /\ r.model = <<>> /\ SubSeq(r.output, 2, Len(r.output)) = <<>>
      /\ r.input # <<>> => ModelOf[Head(r.input)] # r.mode
  BY DEF IsLast, LastTray, r
<1>4. v \in ToSet(r.output) \cup ToSet(r.model) \cup ToSet(r.input)
  BY <1>1, LaneOf DEF r
<1>5. v \notin ToSet(r.output)
  <2>1. ToSet(r.output) = {r.output[1]}
    BY <1>2, <1>3, OnlyOne DEF r
  <2> QED
    BY <2>1 DEF r
<1>6. v \notin ToSet(r.model)
  <2>1. ToSet(<<>>) = {}
    BY DEF ToSet
  <2> QED
    BY <1>3, <2>1
<1>7. PICK i \in 1..Len(r.input) : v = r.input[i]
  <2>1. v \in ToSet(r.input)
    BY <1>4, <1>5, <1>6
  <2>2. DOMAIN r.input = 1..Len(r.input)
    BY <1>2, LenProperties
  <2> QED
    BY <2>1, <2>2 DEF ToSet
<1>8. Len(r.input) \in Nat \ {0}
  BY <1>2, <1>7, LenProperties
<1>9. 1 \in 1..Len(r.input) /\ 1 <= i /\ ModelOf[r.input[1]] # r.mode
  <2>1. r.input # <<>>
    BY <1>2, <1>8, EmptySeq
  <2> QED
    BY <1>2, <1>3, <1>7, <2>1, TailOf
<1>10. r.COTarget = ModelOf[v]
  <2>1. CASE r.status = "MS_CO"
    BY <1>1, <1>7, <2>1 DEF Ready
  <2>2. CASE r.changeStatus = "COS_GOING"
    <3>1. ModelOf[r.input[1]] = r.COTarget
      BY <1>1, <1>9, <2>2 DEF Ready
    <3> QED
      BY <1>1, <1>7, <1>9, <2>2, <3>1 DEF Ready
  <2>3. CASE r.status # "MS_CO" /\ r.changeStatus = "COS_KEEP"
    BY <1>1, <1>9, <2>3 DEF Ready
  <2>4. r.changeStatus \in {"COS_KEEP", "COS_GOING"}
    BY <1>1 DEF MachineRecord
  <2> QED
    BY <2>1, <2>2, <2>3, <2>4
<1> QED
  BY <1>10 DEF r

\* ... nor does one wait or come down the line.
LEMMA LastOfLine ==
    ASSUME TypeOK, BooksMatchFloor, NEW m \in Machines, NEW k \in 1..Len(mach[m].output),
           NEW to, Moved(m, k, to), IsLast(m, k),
           NEW u, u = mach[m].output[k], NEW v \in Tray, v # u, ModelOf[v] = ModelOf[u]
    PROVE  ~Upstream(u, v)
<1> DEFINE from == Route[ModelOf[u]][ioo[u] + 1]
<1>1. mach[m] \in MachineRecord /\ mach[m].output \in Seq(Tray)
  BY DEF TypeOK, MachineRecord
<1>2. u \in Tray /\ u \in ToSet(mach[m].output)
  BY <1>1, LenProperties DEF ToSet
<1>3. IsOn(u, m)
  BY <1>1, <1>2, LaneOf, OnFloor
<1>4. from \in Nat
  <2>1. from = ProcessOf[m]
    BY <1>3 DEF IsOn
  <2> HIDE DEF from
  <2> QED
    BY <2>1, PlantAssumption DEF Process
<1>5. PICK dest : JOP' = Rebooked(u, from, dest)
  BY ZenonT(30) DEF Moved
<1>6. \A p \in -1..from - 1 : \A w \in JOP'[p] : ModelOf[w] # ModelOf[u]
  BY DEF IsLast, LastTray
<1> HIDE DEF from
<1> SUFFICES ASSUME NEW q \in DOMAIN JOP, q = -1 \/ q < from, v \in JOP[q] PROVE FALSE
  BY DEF Upstream, from
<1>7. q \in -1..from - 1
  <2>1. q \in Process \cup {-1}
    BY DEF TypeOK
  <2>2. q \in Int /\ -1 <= q
    <3>1. Process \subseteq Nat
      BY PlantAssumption DEF Process
    <3>2. CASE q = -1
      BY <3>2
    <3>3. CASE q \in Process
      BY <3>1, <3>3
    <3> QED
      BY <2>1, <3>2, <3>3
  <2> QED
    BY <1>4, <2>2
<1>8. v \in JOP'[q]
  BY <1>5 DEF Rebooked
<1> QED
  BY <1>6, <1>7, <1>8

\* Every plant: a machine with modes asks to be re-planned for its last tray
\* only when the line has run out of the model up to it (simulator.hpp, lines
\* 57-90): what is asked before the tray has left still holds when it has.
THEOREM LastTrayMeansRunOut ==
    ASSUME SiteIsSound, RoutesMeet, Fitting = Machines PROVE Spec => TriggerMeansRunOut
<1> DEFINE Inv == FitInv /\ BooksInv
<1>1. Init => Inv
  BY InitFits, InitIsTyped, InitBooks DEF BooksInv
<1>2. Inv /\ [Next]_simVars => Inv'
  BY StepFits, StepBooks
<1>3. Inv /\ [Next]_simVars => \A m \in Machines : ~Generic[m] => LastTrayIsLast(m)
  <2> SUFFICES ASSUME Inv, [Next]_simVars, NEW m \in Machines, ~Generic[m], Fires(m),
                      NEW u \in Leaving(m), NEW v \in Tray, v # u, ModelOf[v] = ModelOf[u]
               PROVE  /\ ~Upstream(u, v)
                      /\ v \in ToSet(Lane(mach[m])) => mach[m].COTarget = ModelOf[u]
    BY DEF LastTrayIsLast
  <2>1. IInv /\ TypeOK /\ BooksMatchFloor /\ mach[m].output \in Seq(Tray)
    BY DEF BooksInv, IInv, TypeOK, MachineRecord
  <2>2. ~Finish
    BY <2>1, FinishLeaves
  <2>3. ShipOut \/ ShipOn
    BY <2>1, <2>2, OutputsStay DEF Leaving
  <2>4. PICK best \in Best(current) : \E k \in Tried(best) : \E to \in Machines \cup {-1} :
           Moved(best, k, to)
    BY <2>1, <2>3, ShippedTray
  <2>5. PICK k \in Tried(best) : \E to \in Machines \cup {-1} : Moved(best, k, to)
    BY <2>4
  <2>6. PICK to \in Machines \cup {-1} : Moved(best, k, to)
    BY <2>5
  <2>7. m = best /\ IsLast(m, k) /\ k = 1
    <3>1. m = best /\ IsLast(best, k)
      BY ZenonT(30), <2>6 DEF Moved, Fires
    <3> QED
      BY <3>1 DEF Tried
  <2>8. mach[m].output # <<>> /\ 1 \in 1..Len(mach[m].output)
    BY <2>1, <2>7, BestType
  <2>9. u = mach[m].output[1]
    <3>1. u \in ToSet(mach[m].output)
      BY DEF Leaving
    <3>2. SubSeq(mach[m].output, 2, Len(mach[m].output)) = <<>>
      <4>1. SubSeq(mach[m].output, 1 + 1, Len(mach[m].output)) = <<>>
        BY <2>7 DEF IsLast, LastTray
      <4> QED
        BY <4>1
    <3>3. ToSet(mach[m].output) = {mach[m].output[1]}
      BY <2>1, <2>8, <3>2, OnlyOne
    <3> QED
      BY <3>1, <3>3
  <2>10. ~Upstream(u, v)
    BY <2>1, <2>6, <2>7, <2>8, <2>9, LastOfLine
  <2>11. v \in ToSet(Lane(mach[m])) => mach[m].COTarget = ModelOf[u]
    BY <2>7, <2>8, <2>9, LastOfMachine
  <2> QED
    BY <2>10, <2>11
<1>4. Inv /\ [Next]_simVars => [\A m \in Machines : ~Generic[m] => LastTrayIsLast(m)]_simVars
  BY <1>3
<1> HIDE DEF Inv
<1> QED
  BY <1>1, <1>2, <1>4, PTL DEF Spec, TriggerMeansRunOut

-----------------------------------------------------------------------------
\* The finished trays of a machine with modes are in the order they were
\* finished in, none of them later than now.
InOrder(out, time) ==
    \A i, j \in 1..Len(out) : i <= j => time[out[i]] <= time[out[j]]

OrderInv ==
    /\ BooksInv
    /\ \A u \in Tray : releaseTime[u] <= realTime
    /\ \A m \in Machines : ~Generic[m] => InOrder(mach[m].output, releaseTime)

\* A tray that is finished now goes behind those that were.
LEMMA FinishedLast ==
    ASSUME NEW out \in Seq(Tray), NEW time \in [Tray -> Nat], NEW now \in Nat,
           \A v \in Tray : time[v] <= now, InOrder(out, time),
           NEW u \in Tray, u \notin ToSet(out)
    PROVE  InOrder(Append(out, u), [time EXCEPT ![u] = now])
<1> DEFINE late == [time EXCEPT ![u] = now]
           all == Append(out, u)
<1>1. PICK n \in Nat : n = Len(out)
  BY LenProperties
<1>2. /\ Len(all) = n + 1 /\ all[n + 1] = u
      /\ \A i \in 1..n : all[i] = out[i] /\ out[i] \in Tray /\ out[i] # u
  <2>1. \A i \in 1..n : out[i] \in Tray /\ out[i] \in ToSet(out)
    BY <1>1, LenProperties DEF ToSet
  <2>2. Len(all) = n + 1 /\ all[n + 1] = u /\ \A i \in 1..n : all[i] = out[i]
    BY <1>1, AppendProperties
  <2> QED
    BY <2>1, <2>2
<1>3. late[u] = now /\ (\A v \in Tray : v # u => late[v] = time[v]) /\ late \in [Tray -> Nat]
  OBVIOUS
<1> HIDE DEF late, all
<1> SUFFICES ASSUME NEW i \in 1..n + 1, NEW j \in 1..n + 1, i <= j
             PROVE  late[all[i]] <= late[all[j]]
  BY <1>2 DEF InOrder, late, all
<1>4. CASE j = n + 1
  <2>1. late[all[j]] = now
    BY <1>2, <1>3, <1>4
  <2>2. CASE i = n + 1
    BY <1>2, <1>3, <2>1, <2>2
  <2>3. CASE i \in 1..n
    BY <1>2, <1>3, <2>1, <2>3
  <2> QED
    BY <2>2, <2>3
<1>5. CASE j \in 1..n
  <2>1. i \in 1..n
    BY <1>5
  <2>2. all[i] = out[i] /\ all[j] = out[j] /\ late[all[i]] = time[out[i]]
        /\ late[all[j]] = time[out[j]]
    BY <1>2, <1>3, <1>5, <2>1
  <2> QED
    BY <1>1, <1>5, <2>1, <2>2 DEF InOrder
<1> QED
  BY SMTT(30), <1>4, <1>5

\* The order stays when the first of the finished trays leaves.
LEMMA FirstLeaves ==
    ASSUME NEW out \in Seq(Tray), out # <<>>, NEW time, InOrder(out, time)
    PROVE  InOrder(Left(out, 1), time)
<1>1. PICK rest : rest = Left(out, 1)
  OBVIOUS
<1>2. /\ Len(out) \in Nat \ {0} /\ Len(rest) = Len(out) - 1
      /\ \A i \in 1..Len(rest) : i + 1 \in 1..Len(out) /\ rest[i] = out[i + 1]
  BY <1>1, LeftFirst, BehindFirst
<1>3. \A i, j \in 1..Len(rest) : i <= j => i + 1 <= j + 1
  BY <1>2
<1> QED
  BY <1>1, <1>2, <1>3 DEF InOrder

\* The tray a machine finishes is not among those it has finished.
LEMMA FinishedOnce ==
    ASSUME BooksInv, Finish, NEW n \in Machines
    PROVE  Head(mach[current].model) \notin ToSet(mach[n].output)
<1> DEFINE u == Head(mach[current].model)
<1>1. IInv /\ TypeOK /\ BooksMatchFloor /\ current \in Machines
      /\ mach[current] \in MachineRecord /\ mach[n] \in MachineRecord
  BY DEF BooksInv, IInv, TypeOK
<1>2. u \in Tray /\ u \in ToSet(mach[current].model)
  BY <1>1, FinishedTray
<1> HIDE DEF u
<1>3. u \in ToSet(Lane(mach[current])) /\ u \notin ToSet(mach[current].output)
  BY <1>1, <1>2, LaneOf DEF BooksMatchFloor
<1>4. ASSUME n # current PROVE u \notin ToSet(mach[n].output)
  <2>1. OnMachine(u) = {current}
    BY <1>1, <1>2, <1>3, OnFloor DEF IsOn
  <2>2. u \notin ToSet(Lane(mach[n]))
    BY <1>4, <2>1 DEF OnMachine
  <2> QED
    BY <1>1, <2>2, LaneOf
<1> QED
  BY <1>3, <1>4 DEF u

THEOREM InitOrdered == SiteIsSound /\ Init => OrderInv
<1> SUFFICES ASSUME SiteIsSound, Init PROVE OrderInv
  OBVIOUS
<1>1. BooksInv /\ TypeOK
  BY InitIsTyped, InitBooks DEF BooksInv, IInv
<1>2. \A u \in Tray : releaseTime[u] = 0 /\ realTime = 0
  BY DEF Init
<1>3. ASSUME NEW m \in Machines PROVE InOrder(mach[m].output, releaseTime)
  <2>1. mach[m].output \in Seq(Tray)
    BY <1>1 DEF TypeOK, MachineRecord
  <2>2. \A i \in 1..Len(mach[m].output) : mach[m].output[i] \in Tray
    BY <2>1, LenProperties
  <2>3. \A i \in 1..Len(mach[m].output) : releaseTime[mach[m].output[i]] = 0
    BY <1>2, <2>2
  <2> QED
    BY <2>3 DEF InOrder
<1> QED
  BY <1>1, <1>2, <1>3 DEF OrderInv

\* What is left on the machine a tray has left.
LEMMA MovedFrom ==
    ASSUME NEW m \in Machines, NEW k, NEW to, Moved(m, k, to)
    PROVE  mach'[m].output = Left(mach[m].output, k)
  BY ZenonT(30) DEF Moved

\* Of a machine with modes it is the front tray.
LEMMA MovedFront ==
    ASSUME NEW m \in Machines, NEW k \in Tried(m), NEW to, Moved(m, k, to), ~Generic[m]
    PROVE  mach'[m].output = Left(mach[m].output, 1)
<1>1. k = 1
  BY DEF Tried
<1> QED
  BY <1>1, MovedFrom

THEOREM StepOrdered == ASSUME RoutesMeet PROVE OrderInv /\ [Next]_simVars => OrderInv'
<1> SUFFICES ASSUME OrderInv, [Next]_simVars PROVE OrderInv'
  OBVIOUS
<1>0. /\ BooksInv /\ BooksInv' /\ IInv /\ TypeOK
      /\ releaseTime \in [Tray -> Nat] /\ realTime \in Nat
  BY StepBooks DEF OrderInv, BooksInv, IInv, TypeOK
<1>1. CASE Finish
  <2> DEFINE u == Head(mach[current].model)
  <2>1. /\ u \in Tray /\ mach[current].output \in Seq(Tray)
        /\ mach'[current].output = Append(mach[current].output, u)
        /\ \A n \in Machines : n # current => mach'[n] = mach[n]
        /\ releaseTime' = [releaseTime EXCEPT ![u] = realTime] /\ realTime' = realTime
    BY <1>0, <1>1, FinishedTray
  <2>2. \A n \in Machines : u \notin ToSet(mach[n].output)
    BY <1>0, <1>1, FinishedOnce
  <2> HIDE DEF u
  <2>3. \A v \in Tray : releaseTime'[v] <= realTime'
    BY <1>0, <2>1 DEF OrderInv
  <2>4. ASSUME NEW n \in Machines, ~Generic[n] PROVE InOrder(mach'[n].output, releaseTime')
    <3>1. mach[n].output \in Seq(Tray) /\ InOrder(mach[n].output, releaseTime)
      BY <1>0, <2>4 DEF OrderInv, TypeOK, MachineRecord
    <3>2. CASE n = current
      <4> DEFINE out == mach[n].output
      <4>1. mach'[n].output = Append(out, u) /\ u \notin ToSet(out)
        BY <2>1, <2>2, <3>2
      <4>2. \A v \in Tray : releaseTime[v] <= realTime
        BY DEF OrderInv
      <4>3. out \in Seq(Tray) /\ InOrder(out, releaseTime)
        BY <3>1
      <4> HIDE DEF out
      <4>4. InOrder(Append(out, u), [releaseTime EXCEPT ![u] = realTime])
        BY <1>0, <2>1, <4>1, <4>2, <4>3, FinishedLast
      <4> QED
        BY <2>1, <4>1, <4>4
    <3>3. CASE n # current
      <4>1. \A i \in 1..Len(mach[n].output) :
               releaseTime'[mach[n].output[i]] = releaseTime[mach[n].output[i]]
        <5>1. \A i \in 1..Len(mach[n].output) :
                 mach[n].output[i] \in Tray /\ mach[n].output[i] \in ToSet(mach[n].output)
          BY <3>1, LenProperties DEF ToSet
        <5> QED
          BY <1>0, <2>1, <2>2, <5>1
      <4> QED
        BY <2>1, <3>1, <3>3, <4>1 DEF InOrder
    <3> QED
      BY <3>2, <3>3
  <2> QED
    BY <1>0, <2>3, <2>4 DEF OrderInv
<1>2. CASE ShipOut \/ ShipOn
  <2>1. PICK best \in Best(current) : \E k \in Tried(best) : \E to \in Machines \cup {-1} :
           Moved(best, k, to)
    BY <1>0, <1>2, ShippedTray
  <2>2. PICK k \in Tried(best) : \E to \in Machines \cup {-1} : Moved(best, k, to)
    BY <2>1
  <2>3. PICK to \in Machines \cup {-1} : Moved(best, k, to)
    BY <2>2
  <2>4. releaseTime' = releaseTime /\ realTime' = realTime
    BY <1>2 DEF ShipOut, ShipOn, ShipUnchanged
  <2>5. ASSUME NEW n \in Machines, ~Generic[n] PROVE InOrder(mach'[n].output, releaseTime)
    <3>1. InOrder(mach[n].output, releaseTime)
      BY <2>5 DEF OrderInv
    <3>2. CASE n = best
      <4>2. mach'[n].output = Left(mach[n].output, 1)
        <5>1. n \in Machines /\ k \in Tried(n) /\ Moved(n, k, to)
          BY <2>3, <3>2
        <5> QED
          BY <2>5, <5>1, MovedFront
      <4>3. mach[n].output \in Seq(Tray) /\ mach[n].output # <<>>
        BY <1>0, <3>2, BestType
      <4> QED
        BY <3>1, <4>2, <4>3, FirstLeaves
    <3>3. CASE n # best
      BY ZenonT(30), <2>3, <3>1, <3>3 DEF Moved
    <3> QED
      BY <3>2, <3>3
  <2> QED
    BY <1>0, <2>4, <2>5 DEF OrderInv
<1>3. CASE ~Finish /\ ~ShipOut /\ ~ShipOn
  <2>1. /\ \A n \in Machines : mach'[n].output = mach[n].output
        /\ releaseTime' = releaseTime
        /\ realTime' \in {realTime, realTime + 1}
    BY <1>0, <1>3, OutputsStay
  <2>2. \A u \in Tray : releaseTime'[u] <= realTime'
    BY <1>0, <2>1 DEF OrderInv
  <2> QED
    BY <1>0, <2>1, <2>2 DEF OrderInv
<1> QED
  BY <1>1, <1>2, <1>3

\* Every plant: the tray that leaves a machine with modes was finished before
\* every other tray that competes with it for the next process, although only
\* the front trays are compared (simulator.cpp, line 461).
THEOREM OldestTrayLeaves ==
    ASSUME SiteIsSound, RoutesMeet PROVE Spec => OldestLeavesFirst
<1> DEFINE Oldest1(m) ==
             \A u \in Leaving(m), n \in MachinesOf(ProcessOf[m]) :
                ~Generic[n] /\ Competes(n, ModelOf[u]) =>
                   \A v \in ToSet(mach[n].output) : releaseTime[u] <= releaseTime[v]
<1>1. Init => OrderInv
  BY InitOrdered
<1>2. OrderInv /\ [Next]_simVars => OrderInv'
  BY StepOrdered
<1>3. OrderInv /\ [Next]_simVars => \A m \in Machines : ~Generic[m] => Oldest1(m)
  <2> SUFFICES ASSUME OrderInv, [Next]_simVars, NEW m \in Machines, ~Generic[m],
                      NEW u \in Leaving(m), NEW n \in MachinesOf(ProcessOf[m]), ~Generic[n],
                      Competes(n, ModelOf[u]), NEW v \in ToSet(mach[n].output)
               PROVE  releaseTime[u] <= releaseTime[v]
    OBVIOUS
  <2>1. /\ IInv /\ TypeOK /\ BooksMatchFloor
        /\ n \in Machines /\ ProcessOf[n] = ProcessOf[m]
        /\ mach[m].output \in Seq(Tray) /\ mach[n].output \in Seq(Tray)
        /\ releaseTime \in [Tray -> Nat]
    BY DEF OrderInv, BooksInv, IInv, TypeOK, MachineRecord, MachinesOf
  <2>2. ShipOut \/ ShipOn
    BY <2>1, FinishLeaves, OutputsStay DEF Leaving
  <2>3. PICK best \in Best(current) : \E k \in Tried(best) : \E to \in Machines \cup {-1} :
           Moved(best, k, to)
    BY <2>1, <2>2, ShippedTray
  <2>4. PICK k \in Tried(best) : \E to \in Machines \cup {-1} : Moved(best, k, to)
    BY <2>3
  <2>5. PICK to \in Machines \cup {-1} : Moved(best, k, to)
    BY <2>4
  <2>6. m = best
    BY ZenonT(30), <2>5 DEF Moved, Leaving
  <2>8. /\ mach[m].output # <<>> /\ Head(mach[m].output) = mach[m].output[1]
        /\ 1 \in 1..Len(mach[m].output) /\ ProcessOf[m] = ProcessOf[current]
    BY <2>1, <2>6, BestType
  <2>9. u = Head(mach[m].output)
    <3>1. ToSet(mach'[m].output) = ToSet(mach[m].output) \ {mach[m].output[1]}
      <4>1. IsInjective(mach[m].output)
        BY <2>1, LaneOf DEF BooksMatchFloor, TypeOK
      <4>2. mach'[m].output = Left(mach[m].output, 1)
        <5>1. k \in Tried(m) /\ Moved(m, k, to)
          BY <2>4, <2>5, <2>6
        <5> QED
          BY <5>1, MovedFront
      <4> QED
        BY ZenonT(30), <2>1, <2>8, <4>1, <4>2, LaneWithout DEF Left
    <3> QED
      BY <2>8, <3>1 DEF Leaving
  <2>10. releaseTime[u] <= releaseTime[Head(mach[n].output)]
    <3> DEFINE t == ModelOf[Head(mach[current].output)]
               macs == {l \in MachinesOf(ProcessOf[current]) :
                          /\ mach[l].output # <<>>
                          /\ \/ IsGenericProcess(ProcessOf[current] + 1)
                             \/ FrontIs(mach[l].output, t)}
               key == [l \in macs |-> releaseTime[Head(mach[l].output)]]
    <3>1. m \in macs /\ \A l \in macs : key[m] < key[l] \/ (key[m] = key[l] /\ m <= l)
      BY <2>6 DEF Best, Oldest, Least
    <3>2. n \in macs
      <4>1. ProcessOf[n] = ProcessOf[current]
        BY <2>1, <2>8
      <4>2. n \in MachinesOf(ProcessOf[current])
        BY <2>1, <4>1 DEF MachinesOf
      <4>3. /\ mach[n].output # <<>>
            /\ IsGenericProcess(ProcessOf[current] + 1) \/ FrontIs(mach[n].output, ModelOf[u])
        BY ZenonT(30), <4>1 DEF Competes
      <4>4. IsGenericProcess(ProcessOf[current] + 1) \/ ModelOf[u] = t
        BY ZenonT(30), <2>9, <3>1 DEF FrontIs
      <4> QED
        BY <4>2, <4>3, <4>4
    <3>3. key[m] = releaseTime[u] /\ key[n] = releaseTime[Head(mach[n].output)]
      BY SMTT(30), <2>9, <3>1, <3>2
    <3>4. key[m] \in Nat /\ key[n] \in Nat
      <4>1. u \in Tray /\ Head(mach[n].output) \in Tray
        BY <2>1, <2>8, <2>9, TailOf, LenProperties DEF Competes
      <4> QED
        BY <2>1, <3>3, <4>1
    <3> HIDE DEF key
    <3> QED
      BY <3>1, <3>2, <3>3, <3>4
  <2>11. releaseTime[Head(mach[n].output)] <= releaseTime[v]
    <3>1. PICK j \in 1..Len(mach[n].output) : v = mach[n].output[j]
      <4>1. DOMAIN mach[n].output = 1..Len(mach[n].output)
        BY <2>1, LenProperties
      <4> QED
        BY <4>1 DEF ToSet
    <3>2. Head(mach[n].output) = mach[n].output[1] /\ 1 \in 1..Len(mach[n].output) /\ 1 <= j
      BY <2>1, <3>1, TailOf DEF Competes
    <3>3. InOrder(mach[n].output, releaseTime)
      BY <2>1 DEF OrderInv
    <3> QED
      BY <3>1, <3>2, <3>3 DEF InOrder
  <2>12. u \in Tray /\ v \in Tray /\ Head(mach[n].output) \in Tray
    <3>1. Head(mach[n].output) = mach[n].output[1] /\ 1 \in 1..Len(mach[n].output)
      BY <2>1, TailOf DEF Competes
    <3>2. ToSet(mach[n].output) \subseteq Tray
      BY <2>1, LenProperties DEF ToSet
    <3> QED
      BY <2>1, <2>8, <2>9, <3>1, <3>2, LenProperties
  <2>13. releaseTime[u] \in Nat /\ releaseTime[v] \in Nat
         /\ releaseTime[Head(mach[n].output)] \in Nat
    BY <2>1, <2>12
  <2> QED
    BY <2>10, <2>11, <2>13
<1>4. OrderInv /\ [Next]_simVars => [\A m \in Machines : ~Generic[m] => Oldest1(m)]_simVars
  BY <1>3
<1>5. Spec => [][\A m \in Machines : ~Generic[m] => Oldest1(m)]_simVars
  <2> HIDE DEF Oldest1
  <2> QED
    BY <1>1, <1>2, <1>4, PTL DEF Spec
<1> QED
  BY <1>5 DEF OldestLeavesFirst
=============================================================================
