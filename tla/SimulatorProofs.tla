---------------------------- MODULE SimulatorProofs ----------------------------
(***************************************************************************)
(* What holds of the simulator for every plant, every site and every order *)
(* of calls.                                                               *)
(***************************************************************************)
EXTENDS Simulator, LaneLemmas, FiniteSetTheorems

\* What the simulator relies on of one machine: a machine at work has a tray
\* in its work slot, and a change-over, pending or running, knows its models.
MachineOK(r) ==
    /\ r \in MachineRecord
    /\ r.status \in {"MS_WORKING", "MS_BLOCKING"} => r.model # <<>>
    /\ r.changeStatus = "COS_GOING" =>
          r.status # "MS_CO" /\ r.mode \in Model /\ r.COTarget \in Model
    /\ r.status = "MS_CO" => r.COTarget \in Model

\* simulate() is entered.
Running == {"book", "feed", "work", "ship", "tick"}

\* The inductive invariant the others rest on.
IInv ==
    /\ TypeOK
    /\ \A m \in Machines : MachineOK(mach[m])
    /\ pc \in Running => count < CheckTime /\ (~working => triggered # <<>>)

-----------------------------------------------------------------------------
\* The machines are numbers, and every process has a first one.
LEMMA MachinesType == Machines \subseteq Nat /\ 0 \in Process /\ NumProcesses - 1 \in Process
  BY PlantAssumption DEF Machines, Process

LEMMA FirstOfType ==
    ASSUME NEW p \in Process
    PROVE  /\ FirstOf(p) \in Machines
           /\ ProcessOf[FirstOf(p)] = p
           /\ \A m \in MachinesOf(p) : FirstOf(p) <= m
<1>1. MachinesOf(p) \subseteq Nat /\ MachinesOf(p) # {}
  BY MachinesType, PlantAssumption DEF MachinesOf
<1>2. FirstOf(p) \in MachinesOf(p) /\ \A m \in MachinesOf(p) : FirstOf(p) <= m
  BY <1>1, MinOfNaturals DEF FirstOf
<1> QED
  BY <1>2 DEF MachinesOf

\* A tray has a model, and the model a route.
LEMMA TrayType ==
    ASSUME NEW u \in Tray
    PROVE  /\ u \in Nat \ {0}
           /\ ModelOf[u] \in Model
           /\ Route[ModelOf[u]] \in Seq(Process)
           /\ Len(Route[ModelOf[u]]) \in Nat \ {0}
<1>1. ModelOf[u] \in Model /\ u \in Nat \ {0}
  <2>1. ModelOf \in Seq(Model) /\ u \in 1..Len(ModelOf) /\ Len(ModelOf) \in Nat
    BY PlantAssumption, LenProperties DEF Tray
  <2> QED
    BY <2>1
<1>2. Route[ModelOf[u]] \in Seq(Process) /\ Route[ModelOf[u]] # <<>>
  BY <1>1, PlantAssumption
<1> QED
  BY <1>1, <1>2, EmptySeq, LenProperties

\* The machines the site describes are sound.
LEMMA LoadedOK ==
    ASSUME NEW m \in Machines
    PROVE  MachineOK(Loaded(m))
<1>1. Site[m] \in SiteRecord
  BY PlantAssumption
<1> DEFINE s == Site[m]
           online == s.state = "S_ONLINE"
           work == IF online /\ ~Generic[m] THEN s.producting ELSE <<>>
           input == IF ~online THEN <<>>
                    ELSE s.input \o (IF Generic[m] THEN s.producting ELSE <<>>)
<1>2. s.input \in Seq(Tray) /\ s.producting \in Seq(Tray) /\ s.output \in Seq(Tray)
  BY <1>1 DEF SiteRecord
<1>3. work \in Seq(Tray)
  BY <1>2, EmptySeq
<1>4. input \in Seq(Tray)
  BY <1>2, EmptySeq, ConcatProperties
<1>5. /\ s.state \in {"S_ONLINE", "S_OFFLINE"} /\ s.mode \in Mode
      /\ s.COTarget \in Mode /\ s.toIdle \in Int
  BY <1>1 DEF SiteRecord, Mode
<1>6. Loaded(m) = [state |-> s.state, mode |-> s.mode, toIdle |-> s.toIdle,
        status |-> IF work # <<>> THEN "MS_WORKING"
                   ELSE IF online /\ s.producting = <<>> /\ s.COTarget # NoModel
                        THEN "MS_CO" ELSE "MS_IDLE",
        changeStatus |-> "COS_KEEP", COTarget |-> s.COTarget,
        input |-> input, model |-> work, output |-> s.output]
  BY DEF Loaded
<1> HIDE DEF s, online, work, input
<1> QED
  BY <1>2, <1>3, <1>4, <1>5, <1>6 DEF MachineOK, MachineRecord, Status, Mode

\* What goes on after a visit: another machine, or the end of the second.
LEMMA GoOnType ==
    ASSUME TypeOK, NEW w, NEW out, GoOn(w, out)
    PROVE  pc' \in {"tick", "feed"} /\ current' \in Machines
<1>1. current \in Machines /\ ProcessOf[current] \in Process
  BY PlantAssumption DEF TypeOK
<1>2. FirstVisited \in Machines
  BY FirstOfType, MachinesType DEF FirstVisited
<1>3. ASSUME ProcessOf[current] # 0 PROVE FirstOf(ProcessOf[current] - 1) \in Machines
  <2>1. ProcessOf[current] - 1 \in Process
    BY <1>1, <1>3, PlantAssumption DEF Process
  <2> QED
    BY <2>1, FirstOfType
<1>4. MachinesOf(ProcessOf[current]) \subseteq Machines
  BY DEF MachinesOf
<1> QED
  BY <1>2, <1>3, <1>4 DEF GoOn

\* The machine that ships is one of the process, with something to ship.
LEMMA BestType ==
    ASSUME TypeOK, NEW n, NEW best \in Best(n)
    PROVE  /\ best \in Machines /\ ProcessOf[best] = ProcessOf[n]
           /\ mach[best].output # <<>> /\ mach[best].output \in Seq(Tray)
           /\ Head(mach[best].output) = mach[best].output[1]
           /\ 1 \in 1..Len(mach[best].output)
           /\ Tried(best) \subseteq 1..Len(mach[best].output)
<1>1. best \in Machines /\ ProcessOf[best] = ProcessOf[n] /\ mach[best].output # <<>>
  BY DEF Best, Oldest, Least, MachinesOf
<1>2. mach[best].output \in Seq(Tray)
  BY <1>1 DEF TypeOK, MachineRecord
<1>3. 1 \in 1..Len(mach[best].output)
  BY <1>1, <1>2, EmptySeq, LenProperties
<1>4. Head(mach[best].output) = mach[best].output[1]
  BY <1>1, <1>2
<1>5. Tried(best) \subseteq 1..Len(mach[best].output)
  BY <1>2, <1>3, LenProperties DEF Tried
<1> QED
  BY <1>1, <1>2, <1>3, <1>4, <1>5

\* The lane a tray has left.
LEMMA LeftType ==
    ASSUME NEW out \in Seq(Tray), NEW k \in 1..Len(out)
    PROVE  Left(out, k) \in Seq(Tray)
<1>1. SubSeq(out, k + 1, Len(out)) \in Seq(Tray)
  BY LenProperties, SubSeqProperties
<1>2. SubSeq(out, 1, k - 1) \in Seq(Tray)
  BY LenProperties, SubSeqProperties
<1> QED
  BY <1>1, <1>2, ConcatProperties DEF Left

\* The k-th finished tray of machine m fires the trigger as it leaves.
IsLast(m, k) ==
    LET u == mach[m].output[k]
    IN LastTray(u, m, JOP', Route[ModelOf[u]][ioo[u] + 1],
                SubSeq(mach[m].output, k + 1, Len(mach[m].output)))

\* What it does to the line when it goes to machine to, or leaves (-1): the
\* lanes of two machines change.
Moved(m, k, to) ==
    LET u == mach[m].output[k]
    IN /\ u \in Tray
       /\ mach' \in [Machines -> MachineRecord]
       /\ \A n \in Machines :
             /\ mach'[n].output = IF n = m THEN Left(mach[n].output, k) ELSE mach[n].output
             /\ mach'[n].input = IF n = to THEN Append(mach[n].input, u) ELSE mach[n].input
             /\ mach'[n].model = mach[n].model
             /\ mach'[n].state = mach[n].state /\ mach'[n].mode = mach[n].mode
             /\ mach'[n].status = mach[n].status
             /\ mach'[n].changeStatus = mach[n].changeStatus
             /\ mach'[n].COTarget = mach[n].COTarget
             /\ mach'[n].toIdle # mach[n].toIdle => n = m /\ IsLast(m, k)
       /\ JOP' = Rebooked(u, Route[ModelOf[u]][ioo[u] + 1],
                          IF to = -1 THEN -2 ELSE Route[ModelOf[u]][ioo[u] + 2])
       /\ ioo' = IF to = -1 THEN ioo ELSE [ioo EXCEPT ![u] = @ + 1]
       /\ triggered' = IF IsLast(m, k) THEN <<m>> ELSE triggered
       /\ working' \in BOOLEAN /\ (working' <=> ~IsLast(m, k))
       /\ GoOn(working', to = -1)

LEMMA MoveEffect ==
    ASSUME TypeOK, NEW m \in Machines, NEW k \in 1..Len(mach[m].output),
           NEW to \in Machines \cup {-1}, Move(mach[m].output[k], m, k, to)
    PROVE  Moved(m, k, to)
<1> DEFINE out == mach[m].output
           u == out[k]
           sent == [mach EXCEPT ![m].output = Left(out, k),
                                ![m].toIdle = IF IsLast(m, k) THEN @ + Offset ELSE @]
<1>1. mach \in [Machines -> MachineRecord] /\ Offset \in Nat
  BY PlantAssumption DEF TypeOK
<1>2. out \in Seq(Tray) /\ u \in Tray
  <2>1. out \in Seq(Tray)
    BY <1>1 DEF MachineRecord
  <2> QED
    BY <2>1, LenProperties
<1>3. Left(out, k) \in Seq(Tray)
  BY <1>2, LeftType
<1>4. /\ JOP' = Rebooked(u, Route[ModelOf[u]][ioo[u] + 1],
                         IF to = -1 THEN -2 ELSE Route[ModelOf[u]][ioo[u] + 2])
      /\ ioo' = IF to = -1 THEN ioo ELSE [ioo EXCEPT ![u] = @ + 1]
      /\ mach' = IF to = -1 THEN sent ELSE [sent EXCEPT ![to].input = Append(@, u)]
      /\ triggered' = IF IsLast(m, k) THEN <<m>> ELSE triggered
      /\ working' = ~IsLast(m, k)
      /\ GoOn(~IsLast(m, k), to = -1)
  BY ZenonT(30) DEF Move, IsLast
<1>5. /\ sent \in [Machines -> MachineRecord]
      /\ \A n \in Machines :
            /\ sent[n].output = IF n = m THEN Left(mach[n].output, k) ELSE mach[n].output
            /\ sent[n].input = mach[n].input /\ sent[n].model = mach[n].model
            /\ sent[n].state = mach[n].state /\ sent[n].mode = mach[n].mode
            /\ sent[n].status = mach[n].status
            /\ sent[n].changeStatus = mach[n].changeStatus
            /\ sent[n].COTarget = mach[n].COTarget
            /\ sent[n].toIdle # mach[n].toIdle => n = m /\ IsLast(m, k)
  <2> DEFINE idle == IF IsLast(m, k) THEN mach[m].toIdle + Offset ELSE mach[m].toIdle
             r == [mach[m] EXCEPT !.output = Left(out, k), !.toIdle = idle]
  <2>1. mach[m] \in MachineRecord
    BY <1>1
  <2>2. idle \in Int
    BY <1>1, <2>1 DEF MachineRecord
  <2>3. r \in MachineRecord
    <3> HIDE DEF idle
    <3> QED
      BY <1>3, <2>1, <2>2 DEF MachineRecord
  <2>4. /\ r.output = Left(out, k) /\ r.toIdle = idle
        /\ r.input = mach[m].input /\ r.model = mach[m].model
        /\ r.state = mach[m].state /\ r.mode = mach[m].mode /\ r.status = mach[m].status
        /\ r.changeStatus = mach[m].changeStatus /\ r.COTarget = mach[m].COTarget
    <3> HIDE DEF idle
    <3> QED
      BY <2>1 DEF MachineRecord
  <2>5. sent = [mach EXCEPT ![m] = r]
    BY <1>1
  <2> HIDE DEF r, sent
  <2>6. sent \in [Machines -> MachineRecord]
    BY <1>1, <2>3, <2>5
  <2>7. \A n \in Machines : sent[n] = IF n = m THEN r ELSE mach[n]
    BY <1>1, <2>5
  <2> QED
    BY <2>4, <2>6, <2>7
<1>6. CASE to = -1
  <2> HIDE DEF sent
  <2>1. mach' = sent /\ \A n \in Machines : n # to
    BY <1>4, <1>6, MachinesType
  <2>2. \A n \in Machines : mach'[n].input = IF n = to THEN Append(mach[n].input, u)
                                            ELSE mach[n].input
    BY <1>5, <2>1
  <2>3. mach' \in [Machines -> MachineRecord]
    BY <1>5, <2>1
  <2>4. \A n \in Machines :
            /\ mach'[n].output = IF n = m THEN Left(mach[n].output, k) ELSE mach[n].output
            /\ mach'[n].model = mach[n].model
            /\ mach'[n].state = mach[n].state /\ mach'[n].mode = mach[n].mode
            /\ mach'[n].status = mach[n].status
            /\ mach'[n].changeStatus = mach[n].changeStatus
            /\ mach'[n].COTarget = mach[n].COTarget
            /\ mach'[n].toIdle # mach[n].toIdle => n = m /\ IsLast(m, k)
    BY <1>5, <2>1
  <2> QED
    BY <1>2, <1>4, <2>2, <2>3, <2>4 DEF Moved
<1>7. CASE to # -1
  <2> DEFINE got == [sent EXCEPT ![to].input = Append(@, u)]
  <2> HIDE DEF sent
  <2>0. to \in Machines
    BY <1>7
  <2>1. Append(sent[to].input, u) \in Seq(Tray)
    BY <1>2, <1>5, <2>0, AppendProperties DEF MachineRecord
  <2> DEFINE r == [sent[to] EXCEPT !.input = Append(@, u)]
  <2>2. r \in MachineRecord
    <3>1. sent[to] \in MachineRecord
      BY <1>5, <2>0
    <3> HIDE DEF u
    <3> QED
      BY <2>1, <3>1 DEF MachineRecord
  <2>3. /\ r.input = Append(sent[to].input, u)
        /\ r.output = sent[to].output /\ r.model = sent[to].model
        /\ r.state = sent[to].state /\ r.mode = sent[to].mode /\ r.status = sent[to].status
        /\ r.changeStatus = sent[to].changeStatus /\ r.COTarget = sent[to].COTarget
        /\ r.toIdle = sent[to].toIdle
    BY <1>5, <2>0 DEF MachineRecord
  <2>4. got = [sent EXCEPT ![to] = r]
    BY <1>5, <2>0
  <2>5. mach' = got
    BY <1>4, <1>7
  <2> HIDE DEF r, got
  <2>6. /\ mach' \in [Machines -> MachineRecord]
        /\ \A n \in Machines : mach'[n] = IF n = to THEN r ELSE sent[n]
    BY <1>5, <2>0, <2>2, <2>4, <2>5
  <2>7. \A n \in Machines :
           /\ mach'[n].input = IF n = to THEN Append(sent[n].input, u) ELSE sent[n].input
           /\ mach'[n].output = sent[n].output /\ mach'[n].model = sent[n].model
           /\ mach'[n].state = sent[n].state /\ mach'[n].mode = sent[n].mode
           /\ mach'[n].status = sent[n].status
           /\ mach'[n].changeStatus = sent[n].changeStatus
           /\ mach'[n].COTarget = sent[n].COTarget /\ mach'[n].toIdle = sent[n].toIdle
    BY <2>3, <2>6
  <2>8. \A n \in Machines :
            /\ mach'[n].output = IF n = m THEN Left(mach[n].output, k) ELSE mach[n].output
            /\ mach'[n].input = IF n = to THEN Append(mach[n].input, u) ELSE mach[n].input
            /\ mach'[n].model = mach[n].model
            /\ mach'[n].state = mach[n].state /\ mach'[n].mode = mach[n].mode
            /\ mach'[n].status = mach[n].status
            /\ mach'[n].changeStatus = mach[n].changeStatus
            /\ mach'[n].COTarget = mach[n].COTarget
            /\ mach'[n].toIdle # mach[n].toIdle => n = m /\ IsLast(m, k)
    BY <1>5, <2>7
  <2> QED
    BY <1>2, <1>4, <2>6, <2>8 DEF Moved
<1> QED
  BY <1>6, <1>7

-----------------------------------------------------------------------------
\* The least number of a lane's trays that wait is a tray.
LEMMA WaitingType ==
    ASSUME TypeOK, NEW t, Waiting(t) # {}
    PROVE  Min(Waiting(t)) \in Waiting(t) /\ Waiting(t) \subseteq Tray
<1>1. JOP[-1] \subseteq Tray
  BY DEF TypeOK
<1>2. Waiting(t) \subseteq Tray /\ Tray \subseteq Nat
  BY <1>1, TrayType DEF Waiting
<1> QED
  BY <1>2, MinOfNaturals

\* The books stay books of trays when a tray is booked elsewhere.
LEMMA RebookedType ==
    ASSUME TypeOK, NEW u \in Tray, NEW from, NEW to
    PROVE  Rebooked(u, from, to) \in [Process \cup {-1} -> SUBSET Tray]
  BY DEF TypeOK, Rebooked

\* The trays the site reports are trays.
LEMMA SiteTrays ==
    ASSUME NEW m \in Machines
    PROVE  OnSite(m) \subseteq Tray
<1>1. /\ Site[m].input \in Seq(Tray) /\ Site[m].producting \in Seq(Tray)
      /\ Site[m].output \in Seq(Tray)
  BY PlantAssumption DEF SiteRecord
<1> DEFINE all == Site[m].input \o Site[m].producting \o Site[m].output
<1>2. all \in Seq(Tray)
  BY <1>1, ConcatProperties
<1>3. ToSet(all) \subseteq Tray
  <2> HIDE DEF all
  <2> QED
    BY <1>2 DEF ToSet
<1> QED
  BY <1>3 DEF OnSite

\* The line the loaders build is of its type.
THEOREM InitIsTyped == SiteIsSound /\ Init => IInv
<1> SUFFICES ASSUME SiteIsSound, Init PROVE IInv
  OBVIOUS
<1>1. /\ mach \in [Machines -> MachineRecord]
      /\ \A m \in Machines : MachineOK(mach[m]) /\ mach[m] = Loaded(m)
  BY LoadedOK DEF Init, MachineOK
<1>2. ioo \in [Tray -> Nat \cup {-1}]
  <2> SUFFICES ASSUME NEW u \in Tray,
                      \E m \in Machines : u \in ToSet(Lane(Loaded(m)))
               PROVE  ioo[u] \in Nat
    BY DEF Init
  <2> DEFINE m == CHOOSE n \in Machines : u \in ToSet(Lane(Loaded(n)))
             IsAt(i) == Route[ModelOf[u]][i] = ProcessOf[m]
  <2>1. m \in Machines /\ u \in ToSet(Lane(Loaded(m)))
    OBVIOUS
  <2>2. ProcessOf[m] \in ToSet(Route[ModelOf[u]])
    BY <2>1 DEF SiteIsSound
  <2>3. \E i \in 1..Len(Route[ModelOf[u]]) : IsAt(i)
    <3> HIDE DEF m
    <3> QED
      BY <2>2, TrayType, LenProperties DEF ToSet
  <2>4. ioo[u] = (CHOOSE i \in 1..Len(Route[ModelOf[u]]) : IsAt(i)) - 1
    BY DEF Init
  <2> HIDE DEF IsAt
  <2>5. (CHOOSE i \in 1..Len(Route[ModelOf[u]]) : IsAt(i)) \in 1..Len(Route[ModelOf[u]])
    BY <2>3
  <2> QED
    BY <2>4, <2>5, TrayType
<1>3. JOP \in [Process \cup {-1} -> SUBSET Tray]
  <2>1. Waiting0 \subseteq Tray
    BY SimulatorAssumption
  <2>2. \A p \in Process \cup {-1} : UNION {OnSite(m) : m \in MachinesOf(p)} \subseteq Tray
    BY SiteTrays DEF MachinesOf
  <2> QED
    BY <2>1, <2>2 DEF Init
<1>4. book \subseteq Entries(UNION Books)
  BY DEF Init, Entries
<1>5. config \in Configurations /\ current \in Machines
  BY FirstOfType, MachinesType DEF Init, Configurations, FirstVisited
<1>6. releaseTime \in [Tray -> Nat] /\ triggered \in Seq(Machines) /\ count \in 0..CheckTime
  BY SimulatorAssumption, EmptySeq DEF Init
<1> QED
  BY <1>1, <1>2, <1>3, <1>4, <1>5, <1>6 DEF IInv, TypeOK, Init, Phase, Running

\* The machine whose turn it is becomes another sound one.
LEMMA BecomesTyped ==
    ASSUME IInv, pc = "work", NEW r, MachineOK(r), Becomes(r),
           releaseTime' \in [Tray -> Nat], lastJobReleaseTime' \in Nat
    PROVE  IInv'
<1>1. current \in Machines /\ r \in MachineRecord
  BY DEF IInv, TypeOK, MachineOK
<1>2. mach' \in [Machines -> MachineRecord] /\ \A m \in Machines : MachineOK(mach'[m])
  BY <1>1 DEF IInv, TypeOK, Becomes
<1> QED
  BY <1>2 DEF IInv, TypeOK, Becomes, Phase, Running

\* A tray leaves for another machine or the end of the line.
LEMMA MoveTyped ==
    ASSUME IInv, pc = "ship", NEW m \in Machines, NEW k \in 1..Len(mach[m].output),
           NEW to \in Machines \cup {-1}, Move(mach[m].output[k], m, k, to), ShipUnchanged
    PROVE  IInv'
<1> DEFINE u == mach[m].output[k]
<1>1. TypeOK
  BY DEF IInv
<1>2. Moved(m, k, to)
  BY <1>1, MoveEffect
<1>0. \A n \in Nat \cup {-1} : n + 1 \in Nat
  OBVIOUS
<1> USE <1>2 DEF Moved
<1>3. \A n \in Machines : MachineOK(mach'[n])
  BY ZenonT(30) DEF IInv, MachineOK
<1>4. JOP' \in [Process \cup {-1} -> SUBSET Tray]
  BY <1>1, RebookedType
<1>5. ioo' \in [Tray -> Nat \cup {-1}]
  BY <1>0, <1>1 DEF TypeOK
<1>6. pc' \in {"tick", "feed"} /\ current' \in Machines
  BY <1>1, GoOnType
<1>7. triggered' \in Seq(Machines) /\ working' \in BOOLEAN /\ (~working' => triggered' # <<>>)
  <2>1. triggered' = IF IsLast(m, k) THEN <<m>> ELSE triggered
    OBVIOUS
  <2>2. working' = ~IsLast(m, k)
    OBVIOUS
  <2>3. triggered \in Seq(Machines) /\ <<m>> \in Seq(Machines) /\ <<m>> # <<>>
    BY <1>1, EmptySeq DEF TypeOK
  <2>4. IsLast(m, k) \in BOOLEAN
    BY DEF IsLast, LastTray
  <2> QED
    BY <2>1, <2>2, <2>3, <2>4
<1> QED
  BY <1>3, <1>4, <1>5, <1>6, <1>7 DEF IInv, TypeOK, ShipUnchanged, Phase, Running

-----------------------------------------------------------------------------
\* The triggers when idle machines were looked for are machines.
LEMMA WithIdleType ==
    ASSUME triggered \in Seq(Machines), NEW now
    PROVE  \A s \in WithIdle(now) : s \in Seq(Machines)
<1> SUFFICES ASSUME NEW s \in [1..Cardinality(LongIdle(now)) -> LongIdle(now)]
             PROVE  triggered \o s \in Seq(Machines)
  BY DEF WithIdle
<1>1. LongIdle(now) \subseteq Machines
  BY DEF LongIdle
<1>2. IsFiniteSet(Machines)
  BY PlantAssumption, FS_Interval DEF Machines
<1>3. Cardinality(LongIdle(now)) \in Nat
  BY <1>1, <1>2, FS_Subset, FS_CardinalityType
<1>4. s \in Seq(Machines)
  BY <1>1, <1>3
<1> QED
  BY <1>4, ConcatProperties

\* Every step keeps the line of its type.
THEOREM StepIsTyped == IInv /\ [Next]_simVars => IInv'
<1> SUFFICES ASSUME IInv, [Next]_simVars PROVE IInv'
  OBVIOUS
<1>1. ASSUME NEW arrivals \in SUBSET Later, NEW c \in Configurations, NEW online \in BOOLEAN,
             Call(arrivals, c, online)
      PROVE  IInv'
  <2>1. \A m \in Machines : mach'[m] \in {mach[m], [mach[m] EXCEPT !.state = "S_ONLINE"]}
    BY <1>1 DEF Call
  <2>2. \A m \in Machines : MachineOK([mach[m] EXCEPT !.state = "S_ONLINE"])
    BY DEF IInv, MachineOK, MachineRecord
  <2>3. \A m \in Machines : MachineOK(mach'[m])
    BY <2>1, <2>2 DEF IInv
  <2>4. mach' \in [Machines -> MachineRecord]
    BY <1>1, <2>3 DEF Call, MachineOK
  <2>5. JOP' \in [Process \cup {-1} -> SUBSET Tray]
    BY <1>1 DEF Call, IInv, TypeOK, Later
  <2> QED
    BY <1>1, <2>3, <2>4, <2>5, EmptySeq DEF Call, IInv, TypeOK, Phase, Running
<1>2. CASE Setup
  <2>1. ASSUME NEW m \in Machines, NEW t \in Model
        PROVE  MachineOK(Configured(m, t))
    <3>1. MachineOK(mach[m])
      BY DEF IInv
    <3>2. CASE mach[m].mode = NoModel
      <4>1. Configured(m, t) = [mach[m] EXCEPT !.mode = t]
        BY <3>2 DEF Configured
      <4>2. MachineOK([mach[m] EXCEPT !.mode = t])
        BY <3>1 DEF MachineOK, MachineRecord, Mode
      <4> QED
        BY <4>1, <4>2
    <3>3. CASE mach[m].mode # NoModel /\ Configured(m, t) # mach[m]
      <4>1. /\ Configured(m, t) = [mach[m] EXCEPT !.changeStatus = "COS_GOING", !.COTarget = t]
            /\ mach[m].status # "MS_CO"
        BY <3>3 DEF Configured
      <4>2. mach[m].mode \in Model
        BY <3>1, <3>3 DEF MachineOK, MachineRecord, Mode
      <4>3. MachineOK([mach[m] EXCEPT !.changeStatus = "COS_GOING", !.COTarget = t])
        BY <3>1, <4>1, <4>2 DEF MachineOK, MachineRecord, Mode
      <4> QED
        BY <4>1, <4>3
    <3> QED
      BY <3>1, <3>2, <3>3
  <2>2. \A m \in Machines : mach'[m] = mach[m] \/ \E t \in Model : mach'[m] = Configured(m, t)
    <3> SUFFICES ASSUME NEW m \in Machines, \E t \in Model : <<m, t>> \in config
                 PROVE  \E t \in Model : mach'[m] = Configured(m, t)
      BY <1>2 DEF Setup
    <3> QED
      BY <1>2 DEF Setup
  <2>3. \A m \in Machines : MachineOK(mach'[m])
    BY <2>1, <2>2 DEF IInv
  <2>4. mach' \in [Machines -> MachineRecord]
    BY <1>2, <2>3 DEF Setup, MachineOK
  <2>5. /\ count' = 0 /\ working' = TRUE /\ pc' = "book"
        /\ 0 \in 0..CheckTime /\ 0 < CheckTime
    BY <1>2, SimulatorAssumption DEF Setup
  <2>6. TypeOK'
    BY <1>2, <2>4, <2>5 DEF Setup, IInv, TypeOK, Phase
  <2> QED
    BY <2>3, <2>5, <2>6 DEF IInv
<1>3. CASE BookFires
  <2>1. PICK e \in Top : /\ mach' = [mach EXCEPT ![e.target].state =
                                       IF e.type = "SBI_OFF" THEN "S_OFFLINE" ELSE "S_ONLINE"]
                         /\ book' = book \ {e}
    BY <1>3 DEF BookFires
  <2> DEFINE s == IF e.type = "SBI_OFF" THEN "S_OFFLINE" ELSE "S_ONLINE"
  <2>2. s \in {"S_ONLINE", "S_OFFLINE"}
    OBVIOUS
  <2>3. \A m \in Machines : mach'[m] \in {mach[m], [mach[m] EXCEPT !.state = s]}
    BY <2>1 DEF IInv, TypeOK
  <2> HIDE DEF s
  <2>4. \A m \in Machines : MachineOK([mach[m] EXCEPT !.state = s])
    BY <2>2 DEF IInv, MachineOK, MachineRecord
  <2>5. \A m \in Machines : MachineOK(mach'[m])
    BY <2>3, <2>4 DEF IInv
  <2>6. mach' \in [Machines -> MachineRecord]
    BY <2>1, <2>5 DEF MachineOK, IInv, TypeOK
  <2> QED
    BY <1>3, <2>1, <2>5, <2>6 DEF BookFires, IInv, TypeOK, Phase, Running
<1>4. CASE BookQuiet
  BY <1>4 DEF BookQuiet, IInv, TypeOK, Phase, Running
<1>5. CASE Feed
  <2> DEFINE u == Min(Waiting(mach[current].mode))
  <2>1. TypeOK /\ current \in Machines
    BY DEF IInv, TypeOK
  <2>2. u \in Tray
    BY <1>5, <2>1, WaitingType DEF Feed, CanBeFed
  <2>3. /\ JOP' = Rebooked(u, -1, ProcessOf[current])
        /\ ioo' = [ioo EXCEPT ![u] = 0]
        /\ mach' = [mach EXCEPT ![current].input = Append(@, u)]
    BY <1>5 DEF Feed
  <2> HIDE DEF u
  <2>4. JOP' \in [Process \cup {-1} -> SUBSET Tray]
    BY <2>1, <2>2, <2>3, RebookedType
  <2> DEFINE r == [mach[current] EXCEPT !.input = Append(@, u)]
  <2>5. MachineOK(mach[current]) /\ mach[current].input \in Seq(Tray)
    BY <2>1 DEF IInv, MachineOK, MachineRecord
  <2>6. Append(mach[current].input, u) \in Seq(Tray)
    BY <2>2, <2>5, AppendProperties
  <2>7. MachineOK(r)
    BY <2>5, <2>6 DEF MachineOK, MachineRecord
  <2>8. mach' = [mach EXCEPT ![current] = r]
    BY <2>1, <2>3 DEF TypeOK
  <2> HIDE DEF r
  <2>9. mach' \in [Machines -> MachineRecord] /\ \A m \in Machines : MachineOK(mach'[m])
    BY <2>1, <2>7, <2>8 DEF IInv, TypeOK, MachineOK
  <2>10. ioo' \in [Tray -> Nat \cup {-1}]
    BY <2>1, <2>3 DEF TypeOK
  <2> QED
    BY <1>5, <2>4, <2>9, <2>10 DEF Feed, IInv, TypeOK, Phase, Running
<1>6. CASE FeedNothing
  BY <1>6 DEF FeedNothing, IInv, TypeOK, Phase, Running
<1> DEFINE m == mach[current]
<1>7. /\ current \in Machines /\ MachineOK(m) /\ m \in MachineRecord
      /\ m.input \in Seq(Tray) /\ m.model \in Seq(Tray) /\ m.output \in Seq(Tray)
      /\ realTime \in Int /\ realTime \in Nat
  BY DEF IInv, TypeOK, MachineOK, MachineRecord
<1>8. CASE Finish
  <2> DEFINE r == [m EXCEPT !.output = Append(@, Head(m.model)), !.model = Tail(@),
                            !.toIdle = realTime, !.status = "MS_IDLE"]
  <2>1. pc = "work" /\ Becomes(r)
    BY <1>8 DEF Finish
  <2>2. m.status \in {"MS_WORKING", "MS_BLOCKING"}
    BY <1>8 DEF Finish
  <2>3. m.model # <<>>
    BY <1>7, <2>2 DEF MachineOK
  <2>4. Head(m.model) \in Tray /\ Tail(m.model) \in Seq(Tray)
    BY <1>7, <2>3, HeadTailProperties
  <2>5. Append(m.output, Head(m.model)) \in Seq(Tray)
    BY <1>7, <2>4, AppendProperties
  <2>6. MachineOK(r)
    <3> HIDE DEF m
    <3> QED
      BY <1>7, <2>4, <2>5 DEF MachineOK, MachineRecord, Status
  <2>7. releaseTime' \in [Tray -> Nat] /\ lastJobReleaseTime' \in Nat
    BY <1>7, <1>8, <2>4 DEF Finish, IInv, TypeOK
  <2> HIDE DEF r
  <2> QED
    BY <2>1, <2>6, <2>7, BecomesTyped
<1>9. CASE Block
  <2> DEFINE r == [m EXCEPT !.status = "MS_BLOCKING"]
  <2>1. pc = "work" /\ Becomes(r) /\ m.status = "MS_WORKING"
        /\ UNCHANGED <<releaseTime, lastJobReleaseTime>>
    BY <1>9 DEF Block
  <2>2. MachineOK(r)
    <3> HIDE DEF m
    <3> QED
      BY <1>7, <2>1 DEF MachineOK, MachineRecord, Status
  <2> HIDE DEF r
  <2> QED
    BY <2>1, <2>2, BecomesTyped DEF IInv, TypeOK
<1>10. CASE CODone
  <2> DEFINE r == [m EXCEPT !.status = "MS_IDLE", !.mode = m.COTarget, !.COTarget = NoModel]
  <2>1. pc = "work" /\ Becomes(r) /\ m.status = "MS_CO"
        /\ UNCHANGED <<releaseTime, lastJobReleaseTime>>
    BY <1>10 DEF CODone
  <2>2. MachineOK(r)
    <3> HIDE DEF m
    <3> QED
      BY <1>7, <2>1 DEF MachineOK, MachineRecord, Status, Mode
  <2> HIDE DEF r
  <2> QED
    BY <2>1, <2>2, BecomesTyped DEF IInv, TypeOK
<1>11. CASE StartCO
  <2> DEFINE idle == realTime + COCost[current][m.mode][m.COTarget]
             until == IF realTime - idle < Offset THEN idle + Offset ELSE idle
             r == [m EXCEPT !.status = "MS_CO", !.changeStatus = "COS_KEEP", !.toIdle = until]
  <2>1. pc = "work" /\ Becomes(r) /\ m.changeStatus = "COS_GOING"
        /\ UNCHANGED <<releaseTime, lastJobReleaseTime>>
    BY <1>11 DEF StartCO
  <2>2. m.mode \in Model /\ m.COTarget \in Model
    BY <1>7, <2>1 DEF MachineOK
  <2>3. COCost[current][m.mode][m.COTarget] \in Nat /\ Offset \in Nat
    <3>1. COCost \in [Machines -> [Model -> [Model -> Nat]]] /\ Offset \in Nat
      BY PlantAssumption
    <3> QED
      BY <1>7, <2>2, <3>1
  <2>4. until \in Int
    BY SMTT(30), <1>7, <2>3
  <2>5. MachineOK(r)
    <3> HIDE DEF m, until
    <3> QED
      BY <1>7, <2>2, <2>4 DEF MachineOK, MachineRecord, Status
  <2> HIDE DEF r
  <2> QED
    BY <2>1, <2>5, BecomesTyped DEF IInv, TypeOK
<1>12. CASE StartWork
  <2> DEFINE until == realTime + WorkTime(current, ModelOf[Head(m.input)])
             r == [m EXCEPT !.status = "MS_WORKING", !.toIdle = until,
                            !.model = Append(@, Head(m.input)), !.input = Tail(@)]
  <2>1. pc = "work" /\ Becomes(r) /\ m.status = "MS_IDLE" /\ m.input # <<>>
        /\ UNCHANGED <<releaseTime, lastJobReleaseTime>>
    BY <1>12 DEF StartWork, Workable
  <2>2. Head(m.input) \in Tray /\ Tail(m.input) \in Seq(Tray)
    BY <1>7, <2>1, HeadTailProperties
  <2>3. Append(m.model, Head(m.input)) \in Seq(Tray) /\ Append(m.model, Head(m.input)) # <<>>
    <3>1. Append(m.model, Head(m.input)) \in Seq(Tray)
          /\ Len(Append(m.model, Head(m.input))) = Len(m.model) + 1
      BY <1>7, <2>2, AppendProperties
    <3>2. Len(m.model) \in Nat
      BY <1>7, LenProperties
    <3> QED
      BY <3>1, <3>2, EmptySeq
  <2>4. until \in Int
    <3>1. ModelOf[Head(m.input)] \in Model
      BY <2>2, TrayType
    <3>2. ClockOf(current, ModelOf[Head(m.input)]) \in Int
      <4>1. Clock \in [Machines -> [Model -> Int]]
        BY PlantAssumption
      <4> QED
        BY <1>7, <3>1, <4>1 DEF ClockOf
    <3>3. CAPACITY \in Nat
      BY PlantAssumption
    <3> QED
      BY <1>7, <3>2, <3>3 DEF WorkTime
  <2>5. MachineOK(r)
    <3> HIDE DEF m, until
    <3> QED
      BY <1>7, <2>1, <2>2, <2>3, <2>4 DEF MachineOK, MachineRecord, Status
  <2> HIDE DEF r
  <2> QED
    BY <2>1, <2>5, BecomesTyped DEF IInv, TypeOK
<1>13. CASE Mismatch
  BY <1>13 DEF Mismatch, IInv, TypeOK, Phase, Running
<1>14. CASE KeepOn
  BY <1>14 DEF KeepOn, IInv, TypeOK, Phase, Running
<1>15. CASE ShipOut
  <2>1. PICK best \in Best(current) : Move(Head(mach[best].output), best, 1, -1)
    BY <1>15 DEF ShipOut
  <2>2. TypeOK
    BY DEF IInv
  <2>3. /\ best \in Machines /\ Head(mach[best].output) = mach[best].output[1]
        /\ 1 \in 1..Len(mach[best].output)
    BY <2>2, BestType
  <2>4. Move(mach[best].output[1], best, 1, -1) /\ pc = "ship" /\ ShipUnchanged
    BY <1>15, <2>1, <2>3 DEF ShipOut
  <2> QED
    BY <2>3, <2>4, MoveTyped
<1>16. CASE ShipOn
  <2>0. PICK best \in Best(current) :
           \E k \in Tried(best) : \E to \in IdleFirst(Takers(best, k)) :
              Move(mach[best].output[k], best, k, to)
    BY <1>16 DEF ShipOn
  <2>1. PICK k \in Tried(best) : \E to \in IdleFirst(Takers(best, k)) :
           Move(mach[best].output[k], best, k, to)
    BY <2>0
  <2>6. PICK to \in IdleFirst(Takers(best, k)) : Move(mach[best].output[k], best, k, to)
    BY <2>1
  <2>2. TypeOK
    BY DEF IInv
  <2>3. best \in Machines /\ k \in 1..Len(mach[best].output)
    BY <2>1, <2>2, BestType
  <2>4. to \in Machines
    BY DEF IdleFirst, Least, Takers, MachinesOf
  <2>5. pc = "ship" /\ ShipUnchanged
    BY <1>16 DEF ShipOn
  <2> QED
    BY <2>3, <2>4, <2>5, <2>6, MoveTyped
<1>17. CASE ShipNothing
  <2>1. TypeOK /\ GoOn(working, FALSE)
    BY <1>17 DEF ShipNothing, IInv
  <2>2. pc' \in {"tick", "feed"} /\ current' \in Machines
    BY <2>1, GoOnType
  <2> QED
    BY <1>17, <2>2 DEF ShipNothing, ShipUnchanged, IInv, TypeOK, Phase, Running
<1>18. CASE Tick
  <2>1. triggered \in Seq(Machines) /\ count \in 0..CheckTime /\ CheckTime \in Nat
    BY SimulatorAssumption DEF IInv, TypeOK
  <2>2. triggered' \in Seq(Machines)
    BY <1>18, <2>1, WithIdleType DEF Tick
  <2>3. count < CheckTime /\ (~working => triggered # <<>>)
    BY <1>18 DEF Tick, IInv, Running
  <2>4. /\ count' \in 0..CheckTime
        /\ pc' \in {"idle", "book"}
        /\ pc' = "book" => count' < CheckTime /\ working
    BY <1>18, <2>1, <2>3, SimulatorAssumption DEF Tick
  <2>6. realTime' \in Nat
    BY <1>18 DEF Tick, IInv, TypeOK
  <2>7. UNCHANGED <<mach, ioo, releaseTime, JOP, working, book, lastJobReleaseTime, config, current>>
    BY <1>18 DEF Tick
  <2>5. TypeOK'
    BY <2>2, <2>4, <2>6, <2>7 DEF IInv, TypeOK, Phase
  <2> QED
    BY <2>3, <2>4, <2>5, <2>7 DEF IInv, Running
<1>19. CASE UNCHANGED simVars
  BY <1>19 DEF simVars, IInv, TypeOK, Phase, Running
<1> QED
  BY <1>1, <1>2, <1>3, <1>4, <1>5, <1>6, <1>8, <1>9, <1>10, <1>11, <1>12, <1>13, <1>14,
     <1>15, <1>16, <1>17, <1>18, <1>19 DEF Next, Simulate

\* Every site, every plant: the variables keep their types (simulator.hpp, lines
\* 105-110, machine.hpp, lines 11-99).
THEOREM TypeIsCorrect == ASSUME SiteIsSound PROVE Spec => []TypeOK
<1>1. Init => IInv
  BY InitIsTyped
<1>2. IInv /\ [Next]_simVars => IInv'
  BY StepIsTyped
<1>3. IInv => TypeOK
  BY DEF IInv
<1> QED
  BY <1>1, <1>2, <1>3, PTL DEF Spec

\* simulate() gives control back only with a machine to re-plan: the check for
\* idle machines, the last tray and working never disagree (simulator.cpp,
\* lines 541-560).
THEOREM PlannerIsCalledForATrigger == ASSUME SiteIsSound PROVE Spec => ReturnsWithTrigger
<1>1. Init => IInv
  BY InitIsTyped
<1>2. IInv /\ [Next]_simVars => IInv'
  BY StepIsTyped
<1>3. ASSUME IInv, Next, pc = "tick", pc' = "idle" PROVE triggered' # <<>>
  <2>1. Tick
    BY <1>3 DEF Next, Simulate, Call, Setup, BookFires, BookQuiet, Feed, FeedNothing, Finish,
          Block, CODone, StartCO, StartWork, Mismatch, KeepOn, ShipOut, ShipOn, ShipNothing
  <2>2. triggered \in Seq(Machines) /\ (~working => triggered # <<>>)
    BY <1>3 DEF IInv, TypeOK, Running
  <2>3. triggered' = triggered
        \/ \E s \in [1..Cardinality(LongIdle(realTime')) -> LongIdle(realTime')] :
              triggered' = triggered \o s
    BY <2>1 DEF Tick, WithIdle
  <2>4. CASE working
    BY <1>3, <2>1, <2>4 DEF Tick
  <2>5. CASE ~working
    <3>1. ASSUME NEW s \in [1..Cardinality(LongIdle(realTime')) -> LongIdle(realTime')],
                 triggered' = triggered \o s
          PROVE  triggered' # <<>>
      <4>1. LongIdle(realTime') \subseteq Machines /\ IsFiniteSet(Machines)
        BY PlantAssumption, FS_Interval DEF Machines, LongIdle
      <4>2. s \in Seq(Machines)
        BY <4>1, FS_Subset, FS_CardinalityType
      <4>3. Len(triggered') = Len(triggered) + Len(s) /\ Len(triggered) \in Nat \ {0}
            /\ Len(s) \in Nat
        BY <2>2, <2>5, <3>1, <4>2, ConcatProperties, LenProperties, EmptySeq
      <4> QED
        BY <4>3, EmptySeq
    <3> QED
      BY <2>2, <2>3, <2>5, <3>1
  <2> QED
    BY <2>4, <2>5 DEF IInv, TypeOK
<1>4. IInv /\ [Next]_simVars => (pc = "tick" /\ pc' = "idle" => triggered' # <<>>) \/ UNCHANGED simVars
  BY <1>3
<1>5. IInv /\ [Next]_simVars => [pc = "tick" /\ pc' = "idle" => triggered' # <<>>]_simVars
  BY <1>4
<1> QED
  BY <1>1, <1>2, <1>5, PTL DEF Spec, ReturnsWithTrigger

-----------------------------------------------------------------------------
\* What is in the input of machine m fits the state it is in: while it changes
\* over, trays of the target; with a change-over pending, trays of the mode and
\* behind them trays of the target; otherwise trays of the mode.
Ready(m, r) ==
    ~Generic[m] =>
       /\ r.status = "MS_CO" =>
             \A i \in 1..Len(r.input) : ModelOf[r.input[i]] = r.COTarget
       /\ r.changeStatus = "COS_GOING" =>
             /\ \A i \in 1..Len(r.input) : ModelOf[r.input[i]] \in {r.mode, r.COTarget}
             /\ \A i, j \in 1..Len(r.input) :
                   i <= j /\ ModelOf[r.input[i]] = r.COTarget => ModelOf[r.input[j]] = r.COTarget
       /\ r.status # "MS_CO" /\ r.changeStatus = "COS_KEEP" =>
             \A i \in 1..Len(r.input) : ModelOf[r.input[i]] = r.mode

FitInv ==
    /\ IInv
    /\ \A m \in Machines : Ready(m, mach[m])
    /\ pc # "abort"

\* A machine takes only what fits.
LEMMA AcceptedFits ==
    ASSUME NEW m \in Machines, MachineOK(mach[m]), Ready(m, mach[m]),
           NEW u \in Tray, Acceptable(m, ModelOf[u]),
           NEW r, r.input = Append(mach[m].input, u),
           r.status = mach[m].status, r.changeStatus = mach[m].changeStatus,
           r.mode = mach[m].mode, r.COTarget = mach[m].COTarget
    PROVE  Ready(m, r)
<1> DEFINE s == mach[m]
<1>1. s.input \in Seq(Tray) /\ Len(s.input) \in Nat
  BY LenProperties DEF MachineOK, MachineRecord
<1>2. Len(r.input) = Len(s.input) + 1
  BY <1>1, AppendProperties
<1>3. \A i \in 1..Len(r.input) : IF i = Len(s.input) + 1 THEN r.input[i] = u
                                 ELSE i \in 1..Len(s.input) /\ r.input[i] = s.input[i]
  BY <1>1, <1>2, AppendProperties
<1> SUFFICES ASSUME ~Generic[m] PROVE Ready(m, r)
  BY DEF Ready
<1>4. CASE s.status = "MS_CO"
  <2>1. ModelOf[u] = s.COTarget /\ r.status = "MS_CO" /\ s.changeStatus # "COS_GOING"
    BY <1>4 DEF Acceptable, MachineOK
  <2> HIDE DEF s
  <2>2. \A i \in 1..Len(r.input) : ModelOf[r.input[i]] = s.COTarget
    BY <1>3, <1>4, <2>1 DEF Ready, s
  <2> QED
    BY <2>1, <2>2 DEF Ready, s
<1>5. CASE s.changeStatus = "COS_GOING"
  <2>1. ModelOf[u] = s.COTarget /\ s.status # "MS_CO"
    BY <1>5 DEF Acceptable, MachineOK
  <2>2. \A i \in 1..Len(r.input) : ModelOf[r.input[i]] \in {s.mode, s.COTarget}
    BY <1>3, <1>5, <2>1 DEF Ready
  <2>3. ASSUME NEW i \in 1..Len(r.input), NEW j \in 1..Len(r.input), i <= j,
               ModelOf[r.input[i]] = s.COTarget
        PROVE  ModelOf[r.input[j]] = s.COTarget
    <3>1. CASE j = Len(s.input) + 1
      BY <1>3, <2>1, <3>1
    <3>2. CASE j # Len(s.input) + 1
      <4>1. j \in 1..Len(s.input) /\ i \in 1..Len(s.input)
        BY <1>1, <1>2, <2>3, <3>2
      <4>2. r.input[i] = s.input[i] /\ r.input[j] = s.input[j]
        BY <1>1, <1>3, <4>1
      <4> QED
        BY <1>5, <2>3, <4>1, <4>2 DEF Ready
    <3> QED
      BY <3>1, <3>2
  <2> QED
    BY <1>5, <2>1, <2>2, <2>3 DEF Ready
<1>6. CASE s.status # "MS_CO" /\ s.changeStatus # "COS_GOING"
  <2>1. ModelOf[u] = s.mode
    BY <1>6 DEF Acceptable
  <2>2. s.changeStatus = "COS_KEEP"
    BY <1>6 DEF MachineOK, MachineRecord
  <2>3. \A i \in 1..Len(r.input) : ModelOf[r.input[i]] = s.mode
    BY <1>3, <1>6, <2>1, <2>2 DEF Ready
  <2> QED
    BY <1>6, <2>3 DEF Ready
<1> QED
  BY <1>4, <1>5, <1>6

\* A machine that is put on or off line is otherwise as it was.
LEMMA OnlyState ==
    ASSUME NEW r \in MachineRecord, NEW s
    PROVE  LET q == [r EXCEPT !.state = s]
           IN /\ q.input = r.input /\ q.model = r.model /\ q.output = r.output
              /\ q.status = r.status /\ q.changeStatus = r.changeStatus
              /\ q.mode = r.mode /\ q.COTarget = r.COTarget /\ q.toIdle = r.toIdle
  BY DEF MachineRecord

\* A step that leaves what Ready looks at alone.
LEMMA SameIsReady ==
    ASSUME NEW m \in Machines, Ready(m, mach[m]), NEW r, r.input = mach[m].input,
           r.status = mach[m].status \/ (r.status # "MS_CO" /\ mach[m].status # "MS_CO"),
           r.changeStatus = mach[m].changeStatus,
           r.mode = mach[m].mode, r.COTarget = mach[m].COTarget
    PROVE  Ready(m, r)
  BY DEF Ready

THEOREM InitFits == SiteIsSound /\ Fitting = Machines /\ Init => FitInv
<1> SUFFICES ASSUME SiteIsSound, Fitting = Machines, Init PROVE FitInv
  OBVIOUS
<1>1. IInv
  BY InitIsTyped
<1>2. ASSUME NEW m \in Machines PROVE Ready(m, mach[m])
  <2> DEFINE s == Loaded(m)
  <2>1. mach[m] = s /\ s.changeStatus = "COS_KEEP"
    BY DEF Init, Loaded
  <2>2. ~Generic[m] => \A u \in ToSet(s.input \o s.model) :
                          ModelOf[u] = IF s.status = "MS_CO" THEN s.COTarget ELSE s.mode
    BY DEF Fitting
  <2>3. s.input \in Seq(Tray) /\ s.model \in Seq(Tray)
    BY LoadedOK DEF MachineOK, MachineRecord
  <2> HIDE DEF s
  <2>4. \A i \in 1..Len(s.input) : s.input[i] \in ToSet(s.input \o s.model)
    <3>1. ToSet(s.input \o s.model) = ToSet(s.input) \cup ToSet(s.model)
      BY <2>3, RangeOfConcat
    <3>2. \A i \in 1..Len(s.input) : s.input[i] \in ToSet(s.input)
      BY <2>3 DEF ToSet
    <3> QED
      BY <3>1, <3>2
  <2> QED
    BY <2>1, <2>2, <2>4 DEF Ready
<1> QED
  BY <1>1, <1>2 DEF FitInv, Init

\* The machine whose turn it is becomes another that is ready.
LEMMA BecomesReady ==
    ASSUME FitInv, NEW r, Ready(current, r), Becomes(r), IInv'
    PROVE  FitInv'
<1>1. current \in Machines /\ mach \in [Machines -> MachineRecord]
  BY DEF FitInv, IInv, TypeOK
<1>2. \A m \in Machines : Ready(m, mach'[m])
  BY <1>1 DEF FitInv, Becomes
<1> QED
  BY <1>2 DEF FitInv, Becomes

\* The first of what is left is the second of what was there.
LEMMA TailOf ==
    ASSUME NEW lane \in Seq(Tray), lane # <<>>
    PROVE  /\ Head(lane) = lane[1] /\ 1 \in 1..Len(lane)
           /\ \A i \in 1..Len(Tail(lane)) : i + 1 \in 1..Len(lane) /\ Tail(lane)[i] = lane[i + 1]
<1>1. Len(lane) \in Nat \ {0} /\ Len(Tail(lane)) = Len(lane) - 1
  BY EmptySeq, LenProperties, HeadTailProperties
<1> QED
  BY <1>1

THEOREM StepFits == FitInv /\ [Next]_simVars => FitInv'
<1> SUFFICES ASSUME FitInv, [Next]_simVars PROVE FitInv'
  OBVIOUS
<1>0. IInv /\ IInv' /\ TypeOK /\ current \in Machines
  BY StepIsTyped DEF FitInv, IInv, TypeOK
<1>1. ASSUME NEW arrivals \in SUBSET Later, NEW c \in Configurations, NEW online \in BOOLEAN,
             Call(arrivals, c, online)
      PROVE  FitInv'
  <2>1. \A m \in Machines : mach'[m] \in {mach[m], [mach[m] EXCEPT !.state = "S_ONLINE"]}
    BY <1>1 DEF Call
  <2>2. ASSUME NEW m \in Machines
        PROVE  LET r == mach'[m]
               IN /\ r.input = mach[m].input /\ r.status = mach[m].status
                  /\ r.changeStatus = mach[m].changeStatus
                  /\ r.mode = mach[m].mode /\ r.COTarget = mach[m].COTarget
    <3>1. mach[m] \in MachineRecord
      BY <1>0 DEF TypeOK
    <3>2. CASE mach'[m] = mach[m]
      BY <3>2
    <3>3. CASE mach'[m] = [mach[m] EXCEPT !.state = "S_ONLINE"]
      BY <3>1, <3>3, OnlyState
    <3> QED
      BY <2>1, <3>2, <3>3
  <2>3. \A m \in Machines : Ready(m, mach'[m])
    BY <2>2, SameIsReady DEF FitInv
  <2> QED
    BY <1>0, <1>1, <2>3 DEF Call, FitInv
<1>2. CASE Setup
  <2>1. ASSUME NEW m \in Machines, NEW t \in Model, <<m, t>> \in config
        PROVE  Ready(m, Configured(m, t))
    <3>1. mach[m] \in MachineRecord /\ Ready(m, mach[m])
      BY DEF FitInv, IInv, TypeOK
    <3>2. Len(mach[m].input) \in Nat
          /\ \A i \in 1..Len(mach[m].input) : ModelOf[mach[m].input[i]] \in Model
      <4>1. mach[m].input \in Seq(Tray)
        BY <3>1 DEF MachineRecord
      <4> QED
        BY <4>1, TrayType, LenProperties
    <3>3. CASE mach[m].mode = NoModel
      <4> DEFINE r == [mach[m] EXCEPT !.mode = t]
      <4>1. Configured(m, t) = r
        BY <3>3 DEF Configured
      <4>2. /\ r.mode = t /\ r.input = mach[m].input /\ r.status = mach[m].status
            /\ r.changeStatus = mach[m].changeStatus /\ r.COTarget = mach[m].COTarget
        BY <3>1 DEF MachineRecord
      <4>3. mach[m].changeStatus = "COS_KEEP" /\ NoModel \notin Model
        BY <3>1, <3>3, PlantAssumption DEF FitInv, IInv, MachineOK, MachineRecord
      <4> HIDE DEF r
      <4> QED
        BY <3>1, <3>2, <3>3, <4>1, <4>2, <4>3 DEF Ready
    <3>4. CASE mach[m].mode # NoModel /\ Configured(m, t) # mach[m]
      <4> DEFINE r == [mach[m] EXCEPT !.changeStatus = "COS_GOING", !.COTarget = t]
      <4>1. /\ Configured(m, t) = r
            /\ mach[m].changeStatus = "COS_KEEP" /\ mach[m].status # "MS_CO"
            /\ mach[m].mode # t
        BY <3>4 DEF Configured
      <4>2. /\ r.mode = mach[m].mode /\ r.input = mach[m].input /\ r.status = mach[m].status
            /\ r.changeStatus = "COS_GOING" /\ r.COTarget = t
        BY <3>1 DEF MachineRecord
      <4> HIDE DEF r
      <4> QED
        BY <3>1, <4>1, <4>2 DEF Ready
    <3> QED
      BY <3>1, <3>3, <3>4
  <2>2. \A m \in Machines : mach'[m] = mach[m]
           \/ \E t \in Model : <<m, t>> \in config /\ mach'[m] = Configured(m, t)
    <3> SUFFICES ASSUME NEW m \in Machines, \E t \in Model : <<m, t>> \in config
                 PROVE  \E t \in Model : <<m, t>> \in config /\ mach'[m] = Configured(m, t)
      BY <1>2 DEF Setup
    <3> QED
      BY <1>2 DEF Setup
  <2>3. \A m \in Machines : Ready(m, mach'[m])
    BY <2>1, <2>2 DEF FitInv
  <2> QED
    BY <1>0, <1>2, <2>3 DEF Setup, FitInv
<1>3. CASE BookFires
  <2>1. PICK e \in Top : mach' = [mach EXCEPT ![e.target].state =
                                    IF e.type = "SBI_OFF" THEN "S_OFFLINE" ELSE "S_ONLINE"]
    BY <1>3 DEF BookFires
  <2>2. \A m \in Machines : LET r == mach'[m]
                            IN /\ r.input = mach[m].input /\ r.status = mach[m].status
                               /\ r.changeStatus = mach[m].changeStatus
                               /\ r.mode = mach[m].mode /\ r.COTarget = mach[m].COTarget
    BY SMTT(30), <1>0, <2>1 DEF TypeOK, MachineRecord
  <2>3. \A m \in Machines : Ready(m, mach'[m])
    BY <2>2, SameIsReady DEF FitInv
  <2> QED
    BY <1>0, <1>3, <2>3 DEF BookFires, FitInv
<1>4. CASE Feed
  <2> DEFINE u == Min(Waiting(mach[current].mode))
  <2>1. u \in Tray /\ ModelOf[u] = mach[current].mode
    BY <1>0, <1>4, WaitingType DEF Feed, CanBeFed, Waiting
  <2>2. mach' = [mach EXCEPT ![current].input = Append(@, u)] /\ Acceptable(current, ModelOf[u])
    BY <1>4, <2>1 DEF Feed, CanBeFed
  <2> HIDE DEF u
  <2> DEFINE r == [mach[current] EXCEPT !.input = Append(@, u)]
  <2>3. /\ r.input = Append(mach[current].input, u) /\ r.status = mach[current].status
        /\ r.changeStatus = mach[current].changeStatus
        /\ r.mode = mach[current].mode /\ r.COTarget = mach[current].COTarget
    BY <1>0 DEF TypeOK, MachineRecord
  <2>4. \A m \in Machines : mach'[m] = IF m = current THEN r ELSE mach[m]
    BY <1>0, <2>2 DEF TypeOK
  <2> HIDE DEF r
  <2>5. Ready(current, r)
    BY <1>0, <2>1, <2>2, <2>3, AcceptedFits DEF FitInv, IInv
  <2>6. \A m \in Machines : Ready(m, mach'[m])
    BY <2>4, <2>5 DEF FitInv
  <2> QED
    BY <1>0, <1>4, <2>6 DEF Feed, FitInv
<1> DEFINE m == mach[current]
<1>7. m \in MachineRecord /\ MachineOK(m) /\ Ready(current, m) /\ m.input \in Seq(Tray)
  BY <1>0 DEF IInv, FitInv, TypeOK, MachineRecord
<1>8. CASE Finish
  <2> DEFINE r == [m EXCEPT !.output = Append(@, Head(m.model)), !.model = Tail(@),
                            !.toIdle = realTime, !.status = "MS_IDLE"]
  <2>1. Becomes(r) /\ m.status # "MS_CO"
    BY <1>8 DEF Finish
  <2>2. /\ r.status = "MS_IDLE" /\ r.input = m.input /\ r.changeStatus = m.changeStatus
        /\ r.mode = m.mode /\ r.COTarget = m.COTarget
    <3> HIDE DEF m
    <3> QED
      BY <1>7 DEF MachineRecord
  <2> HIDE DEF r
  <2>3. Ready(current, r)
    BY <1>0, <1>7, <2>1, <2>2, SameIsReady
  <2> QED
    BY <1>0, <2>1, <2>3, BecomesReady
<1>9. CASE Block
  <2> DEFINE r == [m EXCEPT !.status = "MS_BLOCKING"]
  <2>1. Becomes(r) /\ m.status = "MS_WORKING"
    BY <1>9 DEF Block
  <2>2. /\ r.status = "MS_BLOCKING" /\ r.input = m.input /\ r.changeStatus = m.changeStatus
        /\ r.mode = m.mode /\ r.COTarget = m.COTarget
    <3> HIDE DEF m
    <3> QED
      BY <1>7 DEF MachineRecord
  <2> HIDE DEF r
  <2>3. Ready(current, r)
    BY <1>0, <1>7, <2>1, <2>2, SameIsReady
  <2> QED
    BY <1>0, <2>1, <2>3, BecomesReady
<1>10. CASE CODone
  <2> DEFINE r == [m EXCEPT !.status = "MS_IDLE", !.mode = m.COTarget, !.COTarget = NoModel]
  <2>1. Becomes(r) /\ m.status = "MS_CO" /\ m.changeStatus # "COS_GOING"
    BY <1>7, <1>10 DEF CODone, MachineOK
  <2>2. /\ r.status = "MS_IDLE" /\ r.input = m.input /\ r.changeStatus = m.changeStatus
        /\ r.mode = m.COTarget
    <3> HIDE DEF m
    <3> QED
      BY <1>7 DEF MachineRecord
  <2> HIDE DEF r
  <2>3. Ready(current, r)
    BY <1>7, <2>1, <2>2 DEF Ready
  <2> QED
    BY <1>0, <2>1, <2>3, BecomesReady
<1>11. CASE StartCO
  <2> DEFINE idle == realTime + COCost[current][m.mode][m.COTarget]
             until == IF realTime - idle < Offset THEN idle + Offset ELSE idle
             r == [m EXCEPT !.status = "MS_CO", !.changeStatus = "COS_KEEP", !.toIdle = until]
  <2>1. Becomes(r) /\ m.changeStatus = "COS_GOING" /\ m.status = "MS_IDLE"
        /\ (m.input # <<>> => FrontIs(m.input, m.COTarget))
    BY <1>11 DEF StartCO
  <2>2. /\ r.status = "MS_CO" /\ r.input = m.input /\ r.changeStatus = "COS_KEEP"
        /\ r.COTarget = m.COTarget
    <3> HIDE DEF m, until
    <3> QED
      BY <1>7 DEF MachineRecord
  <2> HIDE DEF r
  <2>3. ASSUME ~Generic[current], NEW i \in 1..Len(m.input)
        PROVE  ModelOf[m.input[i]] = m.COTarget
    <3>1. m.input # <<>> /\ Len(m.input) \in Nat
      BY <1>7, <2>3, EmptySeq, LenProperties
    <3>2. ModelOf[m.input[1]] = m.COTarget /\ 1 \in 1..Len(m.input)
      BY <1>7, <2>1, <3>1, TailOf DEF FrontIs
    <3>3. 1 <= i
      BY <3>1, <2>3
    <3> HIDE DEF m
    <3> QED
      BY <1>7, <2>1, <2>3, <3>2, <3>3 DEF Ready
  <2>4. Ready(current, r)
    BY <2>2, <2>3 DEF Ready
  <2> QED
    BY <1>0, <2>1, <2>4, BecomesReady
<1>12. CASE StartWork
  <2> DEFINE until == realTime + WorkTime(current, ModelOf[Head(m.input)])
             r == [m EXCEPT !.status = "MS_WORKING", !.toIdle = until,
                            !.model = Append(@, Head(m.input)), !.input = Tail(@)]
  <2>1. Becomes(r) /\ m.status = "MS_IDLE" /\ m.input # <<>>
    BY <1>12 DEF StartWork, Workable
  <2>2. /\ r.status = "MS_WORKING" /\ r.input = Tail(m.input)
        /\ r.changeStatus = m.changeStatus /\ r.mode = m.mode /\ r.COTarget = m.COTarget
    <3> HIDE DEF m, until
    <3> QED
      BY <1>7 DEF MachineRecord
  <2> HIDE DEF r
  <2>3. \A i \in 1..Len(r.input) : i + 1 \in 1..Len(m.input) /\ r.input[i] = m.input[i + 1]
    BY <1>7, <2>1, <2>2, TailOf
  <2>4. \A i, j \in 1..Len(r.input) : i <= j => i + 1 <= j + 1
    <3>1. 1..Len(r.input) \subseteq Int
      BY <2>2, <1>7, <2>1, HeadTailProperties, LenProperties
    <3> QED
      BY <3>1
  <2> HIDE DEF m
  <2>5. Ready(current, r)
    BY <1>7, <2>1, <2>2, <2>3, <2>4 DEF Ready
  <2> QED
    BY <1>0, <2>1, <2>5, BecomesReady DEF m
<1>13. ~Mismatch
  <2> SUFFICES ASSUME Mismatch PROVE FALSE
    OBVIOUS
  <2>1. /\ m.status = "MS_IDLE" /\ m.input # <<>>
        /\ m.changeStatus = "COS_GOING" => ~FrontIs(m.input, m.COTarget)
        /\ ~(FrontIs(m.input, m.mode) \/ Generic[current])
    BY DEF Mismatch, Workable
  <2>2. ~Generic[current] /\ ModelOf[m.input[1]] # m.mode /\ 1 \in 1..Len(m.input)
    BY <1>7, <2>1, TailOf DEF FrontIs
  <2>3. m.changeStatus = "COS_GOING" => ModelOf[m.input[1]] # m.COTarget
    BY <1>7, <2>1, TailOf DEF FrontIs
  <2>4. m.changeStatus \in {"COS_KEEP", "COS_GOING"}
    BY <1>7 DEF MachineRecord
  <2> HIDE DEF m
  <2> QED
    BY <1>7, <2>1, <2>2, <2>3, <2>4 DEF Ready
<1>15. ASSUME NEW from \in Machines, NEW k \in 1..Len(mach[from].output),
              NEW to \in Machines \cup {-1}, Move(mach[from].output[k], from, k, to),
              to \in Machines => Acceptable(to, ModelOf[mach[from].output[k]])
       PROVE  FitInv'
  <2> DEFINE u == mach[from].output[k]
  <2>1. Moved(from, k, to)
    BY <1>0, <1>15, MoveEffect
  <2>2. u \in Tray
    BY <2>1 DEF Moved
  <2>3. \A n \in Machines :
           /\ mach'[n].input = IF n = to THEN Append(mach[n].input, u) ELSE mach[n].input
           /\ mach'[n].status = mach[n].status
           /\ mach'[n].changeStatus = mach[n].changeStatus
           /\ mach'[n].mode = mach[n].mode /\ mach'[n].COTarget = mach[n].COTarget
    BY <2>1 DEF Moved
  <2>4. pc' # "abort"
    BY <1>0, <2>1, GoOnType DEF Moved
  <2> HIDE DEF u
  <2>5. ASSUME NEW n \in Machines PROVE Ready(n, mach'[n])
    <3>1. MachineOK(mach[n]) /\ Ready(n, mach[n])
      BY DEF FitInv, IInv
    <3>2. CASE n = to
      BY ZenonT(30), <1>15, <2>2, <2>3, <3>1, <3>2, AcceptedFits DEF u
    <3>3. CASE n # to
      BY <2>3, <3>1, <3>3, SameIsReady
    <3> QED
      BY <3>2, <3>3
  <2> QED
    BY <1>0, <2>4, <2>5 DEF FitInv
<1>16. CASE ShipOut
  <2>1. PICK best \in Best(current) : Move(Head(mach[best].output), best, 1, -1)
    BY <1>16 DEF ShipOut
  <2>2. /\ best \in Machines /\ Head(mach[best].output) = mach[best].output[1]
        /\ 1 \in 1..Len(mach[best].output)
    BY <1>0, BestType
  <2>3. -1 \notin Machines
    BY MachinesType
  <2> QED
    BY <1>15, <2>1, <2>2, <2>3
<1>17. CASE ShipOn
  <2>1. PICK best \in Best(current) :
           \E k \in Tried(best) : \E to \in IdleFirst(Takers(best, k)) :
              Move(mach[best].output[k], best, k, to)
    BY <1>17 DEF ShipOn
  <2>2. PICK k \in Tried(best) : \E to \in IdleFirst(Takers(best, k)) :
           Move(mach[best].output[k], best, k, to)
    BY <2>1
  <2>3. PICK to \in IdleFirst(Takers(best, k)) : Move(mach[best].output[k], best, k, to)
    BY <2>2
  <2>4. best \in Machines /\ k \in 1..Len(mach[best].output)
    BY <1>0, BestType
  <2>5. to \in Machines /\ Acceptable(to, ModelOf[mach[best].output[k]])
    BY DEF IdleFirst, Least, Takers, MachinesOf
  <2> QED
    BY <1>15, <2>3, <2>4, <2>5
<1>18. CASE BookQuiet \/ FeedNothing \/ KeepOn \/ ShipNothing \/ Tick \/ UNCHANGED simVars
  <2>1. mach' = mach
    BY <1>18 DEF BookQuiet, FeedNothing, KeepOn, ShipNothing, Tick, simVars
  <2>2. pc' # "abort"
    BY <1>0, <1>18, GoOnType DEF BookQuiet, FeedNothing, KeepOn, ShipNothing, Tick, simVars, FitInv
  <2> QED
    BY <1>0, <2>1, <2>2 DEF FitInv
<1> QED
  BY <1>1, <1>2, <1>3, <1>4, <1>8, <1>9, <1>10, <1>11, <1>12, <1>13, <1>16, <1>17, <1>18
     DEF Next, Simulate

\* Every plant: if the site loads machines with what they are set up for, no
\* order of feeding, shipping, change-overs, outages and configurations brings
\* a front tray its machine is not set up for (simulator.cpp, lines 328 and 423).
THEOREM SimulatorNeverAborts ==
    ASSUME SiteIsSound, Fitting = Machines PROVE Spec => []NeverAborts
<1>1. Init => FitInv
  BY InitFits
<1>2. FitInv /\ [Next]_simVars => FitInv'
  BY StepFits
<1>3. FitInv => NeverAborts
  BY DEF FitInv, NeverAborts
<1> QED
  BY <1>1, <1>2, <1>3, PTL DEF Spec

-----------------------------------------------------------------------------
\* The lane of a machine is what is in its output, its work slot and its input.
LEMMA LaneOf ==
    ASSUME NEW r \in MachineRecord
    PROVE  /\ Lane(r) \in Seq(Tray)
           /\ ToSet(Lane(r)) = ToSet(r.output) \cup ToSet(r.model) \cup ToSet(r.input)
           /\ IsInjective(Lane(r)) <=>
                 /\ IsInjective(r.output) /\ IsInjective(r.model) /\ IsInjective(r.input)
                 /\ ToSet(r.output) \cap ToSet(r.model) = {}
                 /\ ToSet(r.output) \cap ToSet(r.input) = {}
                 /\ ToSet(r.model) \cap ToSet(r.input) = {}
<1>1. r.output \in Seq(Tray) /\ r.model \in Seq(Tray) /\ r.input \in Seq(Tray)
  BY DEF MachineRecord
<1> QED
  BY <1>1, RangeOfThree DEF Lane

\* A machine that takes its front tray up has the same trays.
LEMMA TakenUp ==
    ASSUME NEW m \in MachineRecord, m.input # <<>>,
           NEW r \in MachineRecord, r.output = m.output,
           r.model = Append(m.model, Head(m.input)), r.input = Tail(m.input)
    PROVE  ToSet(Lane(r)) = ToSet(Lane(m)) /\ (IsInjective(Lane(m)) => IsInjective(Lane(r)))
<1>1. /\ m.output \in Seq(Tray) /\ m.model \in Seq(Tray) /\ m.input \in Seq(Tray)
      /\ r.model \in Seq(Tray) /\ r.input \in Seq(Tray)
  BY DEF MachineRecord
<1>2. r.model \o r.input = m.model \o m.input
  BY <1>1, HeadMovesUp
<1> DEFINE a == r.model
           b == r.input
           c == m.model
           d == m.input
<1>3. a \o b = c \o d =>
         /\ ToSet(a) \cup ToSet(b) = ToSet(c) \cup ToSet(d)
         /\ IsInjective(c) /\ IsInjective(d) /\ ToSet(c) \cap ToSet(d) = {}
            => IsInjective(a) /\ IsInjective(b) /\ ToSet(a) \cap ToSet(b) = {}
  <2>1. a \in Seq(Tray) /\ b \in Seq(Tray) /\ c \in Seq(Tray) /\ d \in Seq(Tray)
    BY <1>1
  <2> HIDE DEF a, b, c, d
  <2> QED
    BY <2>1, SameConcat
<1>4. /\ ToSet(a) \cup ToSet(b) = ToSet(c) \cup ToSet(d)
      /\ IsInjective(c) /\ IsInjective(d) /\ ToSet(c) \cap ToSet(d) = {}
         => IsInjective(a) /\ IsInjective(b) /\ ToSet(a) \cap ToSet(b) = {}
  BY <1>2, <1>3, Zenon
<1>5. ToSet(Lane(r)) = ToSet(m.output) \cup ToSet(r.model) \cup ToSet(r.input)
      /\ ToSet(Lane(m)) = ToSet(m.output) \cup ToSet(m.model) \cup ToSet(m.input)
  BY LaneOf
<1>6. ASSUME IsInjective(Lane(m)) PROVE IsInjective(Lane(r))
  <2>1. /\ IsInjective(m.output) /\ IsInjective(m.model) /\ IsInjective(m.input)
        /\ ToSet(m.output) \cap ToSet(m.model) = {}
        /\ ToSet(m.output) \cap ToSet(m.input) = {}
        /\ ToSet(m.model) \cap ToSet(m.input) = {}
    BY <1>6, LaneOf
  <2>2. /\ IsInjective(r.output) /\ IsInjective(r.model) /\ IsInjective(r.input)
        /\ ToSet(r.output) \cap ToSet(r.model) = {}
        /\ ToSet(r.output) \cap ToSet(r.input) = {}
        /\ ToSet(r.model) \cap ToSet(r.input) = {}
    BY <1>4, <2>1
  <2> QED
    BY <2>2, LaneOf
<1> QED
  BY <1>4, <1>5, <1>6

\* What the site reports of a machine is what is on it once it is loaded.
LEMMA SiteIsFloor ==
    ASSUME NEW m \in Machines, Site[m].state = "S_OFFLINE" => Site[m].output = <<>>
    PROVE  OnSite(m) = ToSet(Lane(Loaded(m)))
<1> DEFINE s == Site[m]
           r == Loaded(m)
<1>1. s \in SiteRecord /\ s.input \in Seq(Tray) /\ s.producting \in Seq(Tray)
      /\ s.output \in Seq(Tray) /\ s.state \in {"S_ONLINE", "S_OFFLINE"}
  BY PlantAssumption DEF SiteRecord
<1>2. ToSet(Lane(r)) = ToSet(r.output) \cup ToSet(r.model) \cup ToSet(r.input)
  BY LoadedOK, LaneOf DEF MachineOK
<1>3. ToSet(<<>>) = {}
  BY DEF ToSet
<1>4. CASE s.state = "S_OFFLINE"
  <2>1. r.output = <<>> /\ r.model = <<>> /\ r.input = <<>>
    BY <1>4 DEF Loaded
  <2> QED
    BY <1>2, <1>3, <1>4, <2>1 DEF OnSite
<1>5. CASE s.state = "S_ONLINE"
  <2>1. OnSite(m) = ToSet(s.input) \cup ToSet(s.producting) \cup ToSet(s.output)
    BY <1>1, <1>5, RangeOfThree DEF OnSite
  <2>2. r.output = s.output
    BY DEF Loaded
  <2>3. CASE Generic[m]
    <3>1. r.model = <<>> /\ r.input = s.input \o s.producting
      BY <1>5, <2>3 DEF Loaded
    <3>2. ToSet(s.input \o s.producting) = ToSet(s.input) \cup ToSet(s.producting)
      BY <1>1, RangeOfConcat
    <3> QED
      BY <1>2, <1>3, <2>1, <2>2, <3>1, <3>2
  <2>4. CASE ~Generic[m]
    <3>1. r.model = s.producting /\ r.input = s.input \o <<>> /\ <<>> \in Seq(Tray)
      BY <1>5, <2>4 DEF Loaded
    <3>2. s.input \o <<>> = s.input
      <4> HIDE DEF s, r
      <4> QED
        BY <1>1, <3>1
    <3> QED
      BY <1>2, <1>3, <2>1, <2>2, <3>1, <3>2
  <2> QED
    BY <2>3, <2>4
<1> QED
  BY <1>1, <1>4, <1>5

THEOREM InitBooks == SiteIsSound /\ Init => BooksMatchFloor
<1> SUFFICES ASSUME SiteIsSound, Init PROVE BooksMatchFloor
  OBVIOUS
<1>1. \A m \in Machines : mach[m] = Loaded(m)
  BY DEF Init
<1>2. \A m \in Machines : IsInjective(Lane(mach[m]))
  BY <1>1 DEF SiteIsSound
<1>3. \A m, n \in Machines : m # n => ToSet(Lane(mach[m])) \cap ToSet(Lane(mach[n])) = {}
  BY <1>1 DEF SiteIsSound
<1>4. \A m \in Machines : ToSet(Lane(mach[m])) \cap Waiting0 = {}
  BY <1>1 DEF SiteIsSound
<1>5. /\ DOMAIN JOP = Process \cup {-1} /\ -1 \notin Process
      /\ JOP[-1] = Waiting0
      /\ \A p \in Process : JOP[p] = UNION {ToSet(Lane(mach[m])) : m \in MachinesOf(p)}
  <2>1. -1 \notin Process
    BY DEF Process
  <2>2. \A p \in Process : \A m \in MachinesOf(p) : OnSite(m) = ToSet(Lane(mach[m]))
    BY <1>1, SiteIsFloor DEF MachinesOf, SiteIsSound
  <2>3. \A p \in Process : JOP[p] = UNION {OnSite(m) : m \in MachinesOf(p)}
    BY <2>1 DEF Init
  <2> QED
    BY ZenonT(30), <2>1, <2>2, <2>3 DEF Init
<1>6. ASSUME NEW u \in Tray
      PROVE  Waits(u) \/ ToCome(u) \/ HasLeft(u) \/ \E m \in Machines : IsOn(u, m)
  <2>1. ASSUME NEW m \in Machines, u \in ToSet(Lane(mach[m]))
        PROVE  IsOn(u, m)
    <3>1. OnMachine(u) = {m}
      BY <1>3, <2>1 DEF OnMachine
    <3>2. \A p \in Process : u \in JOP[p] <=> p = ProcessOf[m]
      <4>1. ProcessOf[m] \in Process
        BY PlantAssumption
      <4>2. u \in JOP[ProcessOf[m]]
        BY <1>5, <2>1, <4>1 DEF MachinesOf
      <4>3. ASSUME NEW p \in Process, u \in JOP[p] PROVE p = ProcessOf[m]
        <5>1. PICK n \in MachinesOf(p) : u \in ToSet(Lane(mach[n]))
          BY <1>5, <4>3
        <5>2. n = m
          BY <1>3, <2>1, <5>1 DEF MachinesOf
        <5> QED
          BY <5>1, <5>2 DEF MachinesOf
      <4> QED
        BY <4>2, <4>3
    <3>3. Booked(u) = {ProcessOf[m]}
      BY <1>4, <1>5, <2>1, <3>2, PlantAssumption DEF Booked
    <3>4. \E n \in Machines : u \in ToSet(Lane(Loaded(n)))
      BY <1>1, <2>1
    <3> DEFINE n == CHOOSE q \in Machines : u \in ToSet(Lane(Loaded(q)))
               IsAt(i) == Route[ModelOf[u]][i] = ProcessOf[n]
    <3>5. n = m
      <4>1. n \in Machines /\ u \in ToSet(Lane(Loaded(n)))
        BY <3>4
      <4> QED
        BY <1>1, <1>3, <2>1, <4>1
    <3>6. ioo[u] = (CHOOSE i \in 1..Len(Route[ModelOf[u]]) : IsAt(i)) - 1
      BY <3>4 DEF Init
    <3>7. \E i \in 1..Len(Route[ModelOf[u]]) : IsAt(i)
      <4>1. ProcessOf[m] \in ToSet(Route[ModelOf[u]])
        BY <1>1, <2>1 DEF SiteIsSound
      <4> HIDE DEF n
      <4> QED
        BY <3>5, <4>1, TrayType, LenProperties DEF ToSet
    <3> DEFINE i == CHOOSE j \in 1..Len(Route[ModelOf[u]]) : IsAt(j)
    <3>8. i \in 1..Len(Route[ModelOf[u]]) /\ Route[ModelOf[u]][i] = ProcessOf[m]
      <4>1. i \in 1..Len(Route[ModelOf[u]]) /\ IsAt(i)
        <5> HIDE DEF IsAt
        <5> QED
          BY <3>7
      <4> QED
        BY <3>5, <4>1
    <3>10. ioo[u] = i - 1
      BY <3>6
    <3> HIDE DEF i
    <3>9. ioo[u] + 1 = i
      BY <3>8, <3>10, TrayType
    <3> QED
      BY <3>1, <3>3, <3>8, <3>9 DEF IsOn
  <2>2. ASSUME \A m \in Machines : u \notin ToSet(Lane(mach[m]))
        PROVE  Waits(u) \/ ToCome(u)
    <3>1. OnMachine(u) = {} /\ \A p \in Process : u \notin JOP[p]
      BY <1>5, <2>2 DEF OnMachine, MachinesOf
    <3>2. ioo[u] = -1
      BY <1>1, <2>2 DEF Init
    <3>3. u \in Waiting0 => Booked(u) = {-1}
      BY <1>5, <3>1 DEF Booked
    <3>4. u \notin Waiting0 => Booked(u) = {} /\ u \in Later
      BY <1>1, <1>5, <2>2, <3>1 DEF Booked, Later
    <3> QED
      BY <3>1, <3>2, <3>3, <3>4 DEF Waits, ToCome
  <2> QED
    BY <2>1, <2>2
<1> QED
  BY <1>2, <1>6 DEF BooksMatchFloor

\* A step that leaves every tray on its machine.
LEMMA NothingLeaves ==
    ASSUME BooksMatchFloor, JOP' = JOP, ioo' = ioo,
           \A m \in Machines : ToSet(Lane(mach'[m])) = ToSet(Lane(mach[m]))
                               /\ (IsInjective(Lane(mach[m])) => IsInjective(Lane(mach'[m])))
    PROVE  BooksMatchFloor'
<1>1. \A u : OnMachine(u)' = OnMachine(u) /\ Booked(u)' = Booked(u)
  BY DEF OnMachine, Booked
<1> QED
  BY <1>1 DEF BooksMatchFloor, Waits, ToCome, HasLeft, IsOn

\* A step that moves no tray.
LEMMA NothingMoves ==
    ASSUME BooksMatchFloor, JOP' = JOP, ioo' = ioo,
           \A m \in Machines : Lane(mach'[m]) = Lane(mach[m])
    PROVE  BooksMatchFloor'
  BY NothingLeaves

\* A step that moves tray u only.
LEMMA OneMoves ==
    ASSUME BooksMatchFloor, NEW u \in Tray,
           \A m \in Machines : IsInjective(Lane(mach'[m])),
           \A v \in Tray : v # u =>
              OnMachine(v)' = OnMachine(v) /\ Booked(v)' = Booked(v) /\ ioo'[v] = ioo[v],
           Waits(u)' \/ HasLeft(u)' \/ \E m \in Machines : IsOn(u, m)'
    PROVE  BooksMatchFloor'
<1>1. ASSUME NEW v \in Tray
      PROVE  Waits(v)' \/ ToCome(v)' \/ HasLeft(v)' \/ \E m \in Machines : IsOn(v, m)'
  <2>1. CASE v = u
    BY <2>1
  <2>2. CASE v # u
    BY <2>2 DEF BooksMatchFloor, Waits, ToCome, HasLeft, IsOn
  <2> QED
    BY <2>1, <2>2
<1> QED
  BY <1>1 DEF BooksMatchFloor

\* Only the tray that is booked elsewhere changes its place in the books.
LEMMA RebookedBooks ==
    ASSUME TypeOK, NEW u, NEW from, NEW to, from # to, JOP' = Rebooked(u, from, to)
    PROVE  /\ \A v : v # u => Booked(v)' = Booked(v)
           /\ Booked(u)' = (Booked(u) \ {from}) \cup ({to} \cap (Process \cup {-1}))
<1>1. DOMAIN JOP = Process \cup {-1} /\ DOMAIN JOP' = Process \cup {-1}
  BY DEF TypeOK, Rebooked
<1>2. \A p \in Process \cup {-1} :
         JOP'[p] = IF p = to THEN JOP[p] \cup {u} ELSE IF p = from THEN JOP[p] \ {u} ELSE JOP[p]
  BY <1>1 DEF Rebooked
<1> QED
  BY <1>1, <1>2 DEF Booked

\* A tray on a machine is booked where it is.
LEMMA OnFloor ==
    ASSUME TypeOK, BooksMatchFloor, NEW u \in Tray, NEW m \in Machines,
           u \in ToSet(Lane(mach[m]))
    PROVE  IsOn(u, m)
<1>1. m \in OnMachine(u)
  BY DEF OnMachine
<1>2. Waits(u) \/ ToCome(u) \/ HasLeft(u) \/ \E n \in Machines : IsOn(u, n)
  BY DEF BooksMatchFloor
<1>3. PICK n \in Machines : IsOn(u, n)
  BY <1>1, <1>2 DEF Waits, ToCome, HasLeft
<1>4. n = m
  BY <1>1, <1>3 DEF IsOn
<1> QED
  BY <1>3, <1>4

\* A route passes a process once, in the order of the line.
LEMMA RouteRises ==
    ASSUME NEW u \in Tray, NEW i \in 1..Len(Route[ModelOf[u]]), NEW j \in 1..Len(Route[ModelOf[u]])
    PROVE  /\ i < j => Route[ModelOf[u]][i] < Route[ModelOf[u]][j]
           /\ Route[ModelOf[u]][i] = Route[ModelOf[u]][j] => i = j
           /\ Route[ModelOf[u]][i] \in Process
<1>1. \A a, b \in 1..Len(Route[ModelOf[u]]) :
         a < b => Route[ModelOf[u]][a] < Route[ModelOf[u]][b]
  <2>1. ModelOf[u] \in Model
    BY TrayType
  <2>2. \A t \in Model : \A a, b \in 1..Len(Route[t]) : a < b => Route[t][a] < Route[t][b]
    BY PlantAssumption
  <2> QED
    BY <2>1, <2>2
<1>2. Route[ModelOf[u]] \in Seq(Process) /\ Len(Route[ModelOf[u]]) \in Nat
  BY TrayType
<1>3. Route[ModelOf[u]][i] \in Process /\ Route[ModelOf[u]][j] \in Process /\ Process \subseteq Int
  <2>1. Process \subseteq Int
    BY PlantAssumption DEF Process
  <2> QED
    BY <1>2, <2>1
<1> DEFINE route == Route[ModelOf[u]]
<1>4. /\ i < j => route[i] < route[j]
      /\ j < i => route[j] < route[i]
  BY <1>1
<1>5. route[i] \in Int /\ route[j] \in Int /\ i \in Int /\ j \in Int
  <2>1. route[i] \in Int /\ route[j] \in Int
    BY <1>3
  <2>2. i \in Int /\ j \in Int
    BY <1>2
  <2> QED
    BY <2>1, <2>2
<1> HIDE DEF route
<1>6. route[i] = route[j] => i = j
  BY <1>4, <1>5
<1> QED
  BY <1>3, <1>4, <1>6 DEF route

\* A tray enters a machine, which may be one it was not on before.
LEMMA Entered ==
    ASSUME TypeOK, NEW m \in Machines, NEW u \in Tray, u \notin ToSet(Lane(mach[m])),
           IsInjective(Lane(mach[m])),
           mach' \in [Machines -> MachineRecord],
           mach'[m].input = Append(mach[m].input, u),
           mach'[m].model = mach[m].model, mach'[m].output = mach[m].output
    PROVE  /\ ToSet(Lane(mach'[m])) = ToSet(Lane(mach[m])) \cup {u}
           /\ IsInjective(Lane(mach'[m]))
<1>1. mach[m] \in MachineRecord /\ mach'[m] \in MachineRecord /\ mach[m].input \in Seq(Tray)
  BY DEF TypeOK, MachineRecord
<1>2. /\ ToSet(mach'[m].input) = ToSet(mach[m].input) \cup {u}
      /\ IsInjective(mach'[m].input) <=> IsInjective(mach[m].input) /\ u \notin ToSet(mach[m].input)
  BY <1>1, RangeOfAppend
<1>3. /\ ToSet(Lane(mach[m])) = ToSet(mach[m].output) \cup ToSet(mach[m].model)
                                 \cup ToSet(mach[m].input)
      /\ IsInjective(mach[m].output) /\ IsInjective(mach[m].model)
      /\ IsInjective(mach[m].input)
      /\ ToSet(mach[m].output) \cap ToSet(mach[m].model) = {}
      /\ ToSet(mach[m].output) \cap ToSet(mach[m].input) = {}
      /\ ToSet(mach[m].model) \cap ToSet(mach[m].input) = {}
  BY <1>1, LaneOf
<1> DEFINE r == mach'[m]
<1>4. /\ r.output = mach[m].output /\ r.model = mach[m].model
      /\ ToSet(r.input) = ToSet(mach[m].input) \cup {u} /\ IsInjective(r.input)
  BY <1>2, <1>3
<1>5. r \in MachineRecord
  BY <1>1
<1> HIDE DEF r
<1>6. ToSet(Lane(r)) = ToSet(Lane(mach[m])) \cup {u} /\ IsInjective(Lane(r))
  BY SMTT(30), <1>3, <1>4, <1>5, LaneOf
<1> QED
  BY <1>6 DEF r

\* A finished tray goes from a machine to one of the next process of its
\* route, or leaves the line behind the last.
LEMMA MovedBooks ==
    ASSUME TypeOK, BooksMatchFloor, NEW m \in Machines, NEW k \in 1..Len(mach[m].output),
           NEW to \in Machines \cup {-1}, Moved(m, k, to),
           NEW u, u = mach[m].output[k],
           IF to = -1 THEN ioo[u] + 1 = Len(Route[ModelOf[u]])
           ELSE ioo[u] + 1 < Len(Route[ModelOf[u]])
                /\ Route[ModelOf[u]][ioo[u] + 2] = ProcessOf[to]
    PROVE  BooksMatchFloor'
<1> DEFINE route == Route[ModelOf[u]]
<1>1. u \in Tray /\ mach' \in [Machines -> MachineRecord]
  BY DEF Moved
<1>2. mach[m] \in MachineRecord /\ mach[m].output \in Seq(Tray)
  BY DEF TypeOK, MachineRecord
<1>3. u \in ToSet(mach[m].output)
  BY <1>2, LenProperties DEF ToSet
<1>4. u \in ToSet(Lane(mach[m]))
  BY <1>2, <1>3, LaneOf
<1>5. IsOn(u, m)
  BY <1>1, <1>4, OnFloor
<1>6. /\ \A n \in Machines :
            /\ mach'[n].output = IF n = m THEN Left(mach[n].output, k) ELSE mach[n].output
            /\ mach'[n].input = IF n = to THEN Append(mach[n].input, u) ELSE mach[n].input
            /\ mach'[n].model = mach[n].model
      /\ JOP' = Rebooked(u, route[ioo[u] + 1], IF to = -1 THEN -2 ELSE route[ioo[u] + 2])
      /\ ioo' = IF to = -1 THEN ioo ELSE [ioo EXCEPT ![u] = @ + 1]
  BY DEF Moved
<1>7. /\ ioo[u] + 1 \in 1..Len(route) /\ route[ioo[u] + 1] = ProcessOf[m]
      /\ OnMachine(u) = {m} /\ Booked(u) = {ProcessOf[m]}
      /\ ioo[u] \in Int /\ Len(route) \in Nat
  <2>1. ioo[u] \in Nat \cup {-1} /\ Len(route) \in Nat
    BY <1>1, TrayType DEF TypeOK
  <2> QED
    BY SMTT(30), <1>5, <2>1 DEF IsOn
<1>8. IF to = -1 THEN ioo[u] + 1 = Len(route)
      ELSE ioo[u] + 1 < Len(route) /\ route[ioo[u] + 2] = ProcessOf[to]
  OBVIOUS
<1>9. ProcessOf[m] \in Process /\ -1 \notin Process /\ -2 \notin Process /\ -1 \notin Machines
  BY PlantAssumption, MachinesType DEF Process
<1> HIDE DEF route
<1>10. to \in Machines => to # m /\ ProcessOf[to] # ProcessOf[m]
  <2>1. ASSUME to \in Machines PROVE ProcessOf[to] # ProcessOf[m]
    <3>0. to # -1
      BY <1>9, <2>1
    <3>3. ioo[u] + 1 < Len(route)
      BY <1>8, <3>0
    <3>1. ioo[u] + 2 \in 1..Len(route) /\ ioo[u] + 1 # ioo[u] + 2
      <4> DEFINE i == ioo[u]
                 n == Len(route)
      <4>1. i \in Int /\ n \in Nat /\ i + 1 \in 1..n /\ i + 1 < n
        BY <1>7, <3>3
      <4> HIDE DEF i, n
      <4>2. i + 2 \in 1..n /\ i + 1 # i + 2
        BY <4>1
      <4> QED
        BY <4>2 DEF i, n
    <3>2. route[ioo[u] + 1] # route[ioo[u] + 2]
      BY <1>1, <1>7, <3>1, RouteRises DEF route
    <3> QED
      BY <1>7, <1>8, <3>0, <3>2
  <2>2. ProcessOf[to] # ProcessOf[m] => to # m
    OBVIOUS
  <2> QED
    BY <2>1, <2>2
<1>11. \A n \in Machines : IsInjective(Lane(mach[n]))
  BY DEF BooksMatchFloor
<1>12. ToSet(Lane(mach'[m])) = ToSet(Lane(mach[m])) \ {u} /\ IsInjective(Lane(mach'[m]))
  <2>1. mach'[m].output = Left(mach[m].output, k) /\ mach'[m].input = mach[m].input
        /\ mach'[m].model = mach[m].model /\ mach'[m] \in MachineRecord
    BY <1>1, <1>6, <1>9, <1>10
  <2>2. IsInjective(mach[m].output)
    BY <1>2, <1>11, LaneOf
  <2>3. ToSet(Left(mach[m].output, k)) = ToSet(mach[m].output) \ {u}
        /\ IsInjective(Left(mach[m].output, k))
    BY <1>2, <2>2, LaneWithout DEF Left
  <2> QED
    BY ZenonT(30), <1>2, <1>3, <1>11, <2>1, <2>3, LaneOf
<1>13. ASSUME NEW n \in Machines, n # m, n # to
       PROVE  Lane(mach'[n]) = Lane(mach[n])
  BY <1>6, <1>13 DEF Lane
<1>14. ASSUME to \in Machines
       PROVE  ToSet(Lane(mach'[to])) = ToSet(Lane(mach[to])) \cup {u} /\ IsInjective(Lane(mach'[to]))
  <2>1. u \notin ToSet(Lane(mach[to]))
    BY <1>7, <1>10, <1>14 DEF OnMachine
  <2> QED
    BY <1>1, <1>6, <1>10, <1>11, <1>14, <2>1, Entered
<1>15. \A n \in Machines : IsInjective(Lane(mach'[n]))
  BY <1>11, <1>12, <1>13, <1>14
<1>16. \A v \in Tray : v # u => OnMachine(v)' = OnMachine(v)
  <2>1. \A v \in Tray : \A n \in Machines :
           v # u => (v \in ToSet(Lane(mach'[n])) <=> v \in ToSet(Lane(mach[n])))
    BY <1>12, <1>13, <1>14
  <2> QED
    BY <2>1 DEF OnMachine
<1>17. OnMachine(u)' = IF to = -1 THEN {} ELSE {to}
  <2>1. \A n \in Machines : n # m /\ n # to => u \notin ToSet(Lane(mach'[n]))
    BY <1>7, <1>13 DEF OnMachine
  <2>2. u \notin ToSet(Lane(mach'[m]))
    BY <1>12
  <2> QED
    BY <1>9, <1>14, <2>1, <2>2 DEF OnMachine
<1>18. /\ \A v : v # u => Booked(v)' = Booked(v)
       /\ Booked(u)' = IF to = -1 THEN {} ELSE {ProcessOf[to]}
  <2> DEFINE dest == IF to = -1 THEN -2 ELSE ProcessOf[to]
  <2>1. JOP' = Rebooked(u, ProcessOf[m], dest) /\ dest # ProcessOf[m]
    BY <1>6, <1>7, <1>8, <1>9, <1>10
  <2>2. dest \in Process <=> to # -1
    BY <1>9, PlantAssumption
  <2>3. dest # -1
    BY <1>9, <2>2
  <2> HIDE DEF dest
  <2>4. /\ \A v : v # u => Booked(v)' = Booked(v)
        /\ Booked(u)' = (Booked(u) \ {ProcessOf[m]}) \cup ({dest} \cap (Process \cup {-1}))
    BY <2>1, RebookedBooks
  <2>5. {dest} \cap (Process \cup {-1}) = IF to = -1 THEN {} ELSE {dest}
    BY <2>2, <2>3
  <2>6. Booked(u)' = IF to = -1 THEN {} ELSE {ProcessOf[to]}
    BY <1>7, <2>4, <2>5 DEF dest
  <2> QED
    BY <2>4, <2>6
<1>19. \A v \in Tray : v # u => ioo'[v] = ioo[v]
  BY <1>1, <1>6 DEF TypeOK
<1>20. ioo'[u] = IF to = -1 THEN ioo[u] ELSE ioo[u] + 1
  BY <1>1, <1>6 DEF TypeOK
<1>21. CASE to = -1
  <2>0. ioo'[u] = Len(route) - 1
    BY <1>7, <1>8, <1>20, <1>21
  <2>1. HasLeft(u)'
    BY <1>17, <1>18, <1>21, <2>0 DEF HasLeft, route
  <2> QED
    BY <1>1, <1>15, <1>16, <1>18, <1>19, <2>1, OneMoves
<1>22. CASE to \in Machines
  <2>1. to # -1
    BY <1>9, <1>22
  <2>2. ioo'[u] + 1 \in 1..Len(route) /\ route[ioo'[u] + 1] = ProcessOf[to]
    <3>1. ioo'[u] + 1 = ioo[u] + 2
      BY <1>7, <1>20, <2>1
    <3> QED
      BY SMTT(30), <1>7, <1>8, <2>1, <3>1
  <2>3. IsOn(u, to)'
    BY <1>17, <1>18, <2>1, <2>2 DEF IsOn, route
  <2> QED
    BY <1>1, <1>15, <1>16, <1>18, <1>19, <1>22, <2>3, OneMoves
<1> QED
  BY <1>21, <1>22

\* The machine whose turn it is becomes another with the same trays.
LEMMA BecomesBooks ==
    ASSUME TypeOK, BooksMatchFloor, NEW r, Becomes(r), Lane(r) = Lane(mach[current])
    PROVE  BooksMatchFloor'
<1>1. \A m \in Machines : Lane(mach'[m]) = Lane(mach[m])
  BY DEF TypeOK, Becomes
<1> QED
  BY <1>1, NothingMoves DEF Becomes

\* Every tray is shipped to a machine of the next process of its own route,
\* although the route of the front tray is looked at.
LEMMA NextOfRoute ==
    ASSUME TypeOK, BooksMatchFloor, RoutesMeet, NEW m \in Machines,
           mach[m].output # <<>>, ~AtFinalProcess(m), NEW k \in Tried(m),
           NEW u, u = mach[m].output[k]
    PROVE  /\ u \in Tray /\ IsOn(u, m)
           /\ ioo[u] + 1 < Len(Route[ModelOf[u]])
           /\ Route[ModelOf[u]][ioo[u] + 2] = NextProcess(m, k)
<1>1. mach[m] \in MachineRecord /\ mach[m].output \in Seq(Tray)
  BY DEF TypeOK, MachineRecord
<1>2. Len(mach[m].output) \in Nat \ {0} /\ k \in 1..Len(mach[m].output)
  BY <1>1, EmptySeq, LenProperties DEF Tried
<1>3. ASSUME NEW i \in 1..Len(mach[m].output), NEW v, v = mach[m].output[i]
      PROVE  v \in Tray /\ IsOn(v, m)
  <2>1. v \in Tray /\ v \in ToSet(mach[m].output)
    BY <1>1, <1>3, LenProperties DEF ToSet
  <2>2. v \in ToSet(Lane(mach[m]))
    BY <1>1, <2>1, LaneOf
  <2> QED
    BY <2>1, <2>2, OnFloor
<1>4. u \in Tray /\ IsOn(u, m)
  BY <1>2, <1>3
<1> DEFINE f == Head(mach[m].output)
           rf == Route[ModelOf[f]]
           ru == Route[ModelOf[u]]
<1>5. f = mach[m].output[1] /\ 1 \in 1..Len(mach[m].output)
  BY <1>1, <1>2
<1>6. f \in Tray /\ IsOn(f, m)
  BY <1>3, <1>5
<1>7. /\ ioo[f] + 1 \in 1..Len(rf) /\ rf[ioo[f] + 1] = ProcessOf[m]
      /\ ioo[u] + 1 \in 1..Len(ru) /\ ru[ioo[u] + 1] = ProcessOf[m]
      /\ Len(rf) \in Nat /\ Len(ru) \in Nat /\ ioo[f] \in Int /\ ioo[u] \in Int
  <2>1. /\ ioo[f] + 1 \in 1..Len(rf) /\ rf[ioo[f] + 1] = ProcessOf[m]
        /\ ioo[u] + 1 \in 1..Len(ru) /\ ru[ioo[u] + 1] = ProcessOf[m]
    BY <1>4, <1>6 DEF IsOn
  <2>2. ioo[f] \in Int /\ ioo[u] \in Int
    BY <1>4, <1>6 DEF TypeOK
  <2>3. Len(rf) \in Nat /\ Len(ru) \in Nat
    BY <1>4, <1>6, TrayType
  <2> QED
    BY <2>1, <2>2, <2>3
<1>8. rf[Len(rf)] # ProcessOf[m]
  <2>1. rf \in Seq(Process) /\ rf # <<>>
    BY <1>6, TrayType, EmptySeq
  <2>2. Last(rf) = rf[Len(rf)]
    BY <2>1 DEF Last
  <2> QED
    BY <2>2 DEF AtFinalProcess, FinalProcess
<1>9. ModelOf[f] \in Model /\ ModelOf[u] \in Model
  BY <1>4, <1>6, TrayType
<1>10. NextProcess(m, k) = rf[ioo[u] + 2]
  BY DEF NextProcess
<1> HIDE DEF f, rf, ru
<1>11. ioo[f] + 1 \in 1..Len(rf) - 1
  <2>1. ioo[f] + 1 # Len(rf)
    BY <1>7, <1>8
  <2>2. \A i, n \in Int : i + 1 \in 1..n /\ i + 1 # n => i + 1 \in 1..n - 1
    OBVIOUS
  <2> QED
    BY <1>7, <2>1, <2>2
<1>12. CASE k = 1
  <2>1. u = f /\ ru = rf
    BY <1>5, <1>12 DEF ru, rf
  <2>2. \A i, n \in Int : i + 1 \in 1..n - 1 => i + 1 < n
    OBVIOUS
  <2> QED
    BY <1>4, <1>7, <1>10, <1>11, <2>1, <2>2 DEF ru
<1>13. CASE k # 1
  <2>1. Generic[m] /\ m \in MachinesOf(ProcessOf[m])
    BY <1>13 DEF Tried, MachinesOf
  <2> DEFINE i == ioo[f] + 1
             j == ioo[u] + 1
  <2>2. Route[ModelOf[f]][i] = Route[ModelOf[u]][j] /\ Route[ModelOf[u]][j] = ProcessOf[m]
    BY <1>7 DEF rf, ru
  <2>3. i \in 1..Len(Route[ModelOf[f]]) - 1 /\ j \in 1..Len(Route[ModelOf[u]])
    BY <1>7, <1>11 DEF rf, ru
  <2> HIDE DEF i, j
  <2>4. \E n \in MachinesOf(Route[ModelOf[u]][j]) : Generic[n]
    BY <2>1, <2>2
  <2>5. j < Len(Route[ModelOf[u]]) /\ Route[ModelOf[f]][j + 1] = Route[ModelOf[u]][j + 1]
    BY <1>9, <2>2, <2>3, <2>4 DEF RoutesMeet
  <2>6. j + 1 = ioo[u] + 2
    BY <1>7 DEF j
  <2> QED
    BY <1>4, <1>10, <2>5, <2>6 DEF rf, j
<1> QED
  BY <1>12, <1>13

\* What is shipped out of the line has gone through the whole of its route.
LEMMA EndOfRoute ==
    ASSUME TypeOK, BooksMatchFloor, NEW m \in Machines,
           mach[m].output # <<>>, AtFinalProcess(m), NEW u, u = mach[m].output[1]
    PROVE  u \in Tray /\ IsOn(u, m) /\ ioo[u] + 1 = Len(Route[ModelOf[u]])
<1>1. mach[m] \in MachineRecord /\ mach[m].output \in Seq(Tray)
  BY DEF TypeOK, MachineRecord
<1>2. 1 \in 1..Len(mach[m].output) /\ u = Head(mach[m].output)
  BY <1>1, EmptySeq, LenProperties
<1>3. u \in Tray /\ u \in ToSet(mach[m].output)
  BY <1>1, <1>2, LenProperties DEF ToSet
<1>4. IsOn(u, m)
  BY <1>1, <1>3, LaneOf, OnFloor
<1> DEFINE route == Route[ModelOf[u]]
<1>5. route \in Seq(Process) /\ Len(route) \in Nat \ {0}
  BY <1>3, TrayType
<1>6. route[Len(route)] = ProcessOf[m]
  BY <1>2, <1>5 DEF AtFinalProcess, FinalProcess, Last
<1>7. ioo[u] + 1 \in 1..Len(route) /\ route[ioo[u] + 1] = ProcessOf[m]
  BY <1>4 DEF IsOn
<1>8. Len(route) \in 1..Len(route)
  BY <1>5
<1>9. ioo[u] + 1 = Len(route)
  <2> DEFINE i == ioo[u] + 1
             j == Len(route)
  <2>1. i \in 1..Len(route) /\ j \in 1..Len(route) /\ route[i] = route[j]
    BY <1>6, <1>7, <1>8
  <2> HIDE DEF i, j
  <2>2. i = j
    BY <1>3, <2>1, RouteRises
  <2> QED
    BY <2>2 DEF i, j
<1> QED
  BY <1>3, <1>4, <1>9

BooksInv == IInv /\ BooksMatchFloor

THEOREM StepBooks ==
    ASSUME RoutesMeet PROVE BooksInv /\ [Next]_simVars => BooksInv'
<1> SUFFICES ASSUME BooksInv, [Next]_simVars PROVE BooksMatchFloor'
  BY StepIsTyped DEF BooksInv
<1>0. IInv /\ TypeOK /\ BooksMatchFloor /\ current \in Machines /\ mach[current] \in MachineRecord
  BY DEF BooksInv, IInv, TypeOK
<1> DEFINE m == mach[current]
<1>00. m.input \in Seq(Tray) /\ m.model \in Seq(Tray) /\ m.output \in Seq(Tray)
  BY <1>0 DEF MachineRecord
<1>1. ASSUME NEW arrivals \in SUBSET Later, NEW c \in Configurations, NEW online \in BOOLEAN,
             Call(arrivals, c, online)
      PROVE  BooksMatchFloor'
  <2>1. \A n \in Machines : mach'[n] \in {mach[n], [mach[n] EXCEPT !.state = "S_ONLINE"]}
    BY <1>1 DEF Call
  <2>2. ASSUME NEW n \in Machines PROVE Lane(mach'[n]) = Lane(mach[n])
    <3>1. mach[n] \in MachineRecord
      BY <1>0 DEF TypeOK
    <3>2. CASE mach'[n] = [mach[n] EXCEPT !.state = "S_ONLINE"]
      <4>1. /\ mach'[n].input = mach[n].input /\ mach'[n].model = mach[n].model
            /\ mach'[n].output = mach[n].output
        BY <3>1, <3>2, OnlyState
      <4> QED
        BY <4>1 DEF Lane
    <3> QED
      BY <2>1, <3>2
  <2>3. \A u : OnMachine(u)' = OnMachine(u)
    BY <2>2 DEF OnMachine
  <2>4. /\ DOMAIN JOP = Process \cup {-1} /\ DOMAIN JOP' = Process \cup {-1}
        /\ JOP'[-1] = JOP[-1] \cup arrivals
        /\ \A p \in Process : JOP'[p] = JOP[p]
    <3>1. -1 \notin Process
      BY DEF Process
    <3> QED
      BY <1>0, <1>1, <3>1 DEF Call, TypeOK
  <2>5. \A u : Booked(u)' = IF u \in arrivals THEN Booked(u) \cup {-1} ELSE Booked(u)
    BY <2>4 DEF Booked
  <2>6. ASSUME NEW u \in Tray
        PROVE  Waits(u)' \/ ToCome(u)' \/ HasLeft(u)' \/ \E n \in Machines : IsOn(u, n)'
    <3>1. ioo' = ioo
      BY <1>1 DEF Call
    <3>2. Waits(u) \/ ToCome(u) \/ HasLeft(u) \/ \E n \in Machines : IsOn(u, n)
      BY <1>0 DEF BooksMatchFloor
    <3>3. CASE u \notin arrivals
      BY <2>3, <2>5, <3>1, <3>2, <3>3 DEF Waits, ToCome, HasLeft, IsOn
    <3>4. CASE u \in arrivals
      <4>1. u \notin JOP[-1] /\ ioo[u] = -1
        BY <1>1, <3>4 DEF Call
      <4>2. ~Waits(u)
        BY <4>1 DEF Waits, Booked
      <4>3. ~HasLeft(u) /\ \A n \in Machines : ~IsOn(u, n)
        BY <4>1, TrayType DEF HasLeft, IsOn
      <4>4. OnMachine(u) = {} /\ Booked(u) = {}
        BY <3>2, <4>2, <4>3 DEF ToCome
      <4> QED
        BY <2>3, <2>5, <3>1, <3>4, <4>1, <4>4 DEF Waits
    <3> QED
      BY <3>3, <3>4
  <2>7. \A n \in Machines : IsInjective(Lane(mach'[n]))
    BY <1>0, <2>2 DEF BooksMatchFloor
  <2> QED
    BY <2>6, <2>7 DEF BooksMatchFloor
<1>2. CASE Setup
  <2>1. ASSUME NEW n \in Machines, NEW t \in Model
        PROVE  Lane(Configured(n, t)) = Lane(mach[n])
    <3>1. mach[n] \in MachineRecord
      BY <1>0 DEF TypeOK
    <3>2. /\ Configured(n, t).input = mach[n].input /\ Configured(n, t).model = mach[n].model
          /\ Configured(n, t).output = mach[n].output
      BY <3>1 DEF Configured, MachineRecord
    <3> QED
      BY <3>2 DEF Lane
  <2>2. \A n \in Machines : mach'[n] = mach[n] \/ \E t \in Model : mach'[n] = Configured(n, t)
    <3> SUFFICES ASSUME NEW n \in Machines, \E t \in Model : <<n, t>> \in config
                 PROVE  \E t \in Model : mach'[n] = Configured(n, t)
      BY <1>2 DEF Setup
    <3> QED
      BY <1>2 DEF Setup
  <2>3. \A n \in Machines : Lane(mach'[n]) = Lane(mach[n])
    BY <2>1, <2>2
  <2> QED
    BY <1>0, <1>2, <2>3, NothingMoves DEF Setup
<1>3. CASE BookFires
  <2>1. PICK e \in Top : mach' = [mach EXCEPT ![e.target].state =
                                    IF e.type = "SBI_OFF" THEN "S_OFFLINE" ELSE "S_ONLINE"]
    BY <1>3 DEF BookFires
  <2>2. \A n \in Machines : /\ mach'[n].input = mach[n].input /\ mach'[n].model = mach[n].model
                            /\ mach'[n].output = mach[n].output
    BY SMTT(30), <1>0, <2>1 DEF TypeOK, MachineRecord
  <2>3. \A n \in Machines : Lane(mach'[n]) = Lane(mach[n])
    BY <2>2 DEF Lane
  <2> QED
    BY <1>0, <1>3, <2>3, NothingMoves DEF BookFires
<1>4. CASE Feed
  <2>1. PICK u \in Tray : /\ u \in Waiting(mach[current].mode)
                          /\ JOP' = Rebooked(u, -1, ProcessOf[current])
                          /\ ioo' = [ioo EXCEPT ![u] = 0]
                          /\ mach' = [mach EXCEPT ![current].input = Append(@, u)]
    BY <1>0, <1>4, WaitingType DEF Feed, CanBeFed
  <2>2. u \in JOP[-1] /\ ModelOf[u] = mach[current].mode
    BY <2>1 DEF Waiting
  <2>3. Waits(u)
    <3>1. -1 \in Booked(u) /\ -1 \notin Process
      BY <1>0, <2>2 DEF Booked, TypeOK, Process
    <3>2. \A n \in Machines : ProcessOf[n] # -1
      BY <3>1, PlantAssumption
    <3>3. Waits(u) \/ ToCome(u) \/ HasLeft(u) \/ \E n \in Machines : IsOn(u, n)
      BY <1>0 DEF BooksMatchFloor
    <3> QED
      BY <3>1, <3>2, <3>3 DEF ToCome, HasLeft, IsOn
  <2>4. Append(mach[current].input, u) \in Seq(Tray)
    BY <1>00, AppendProperties
  <2>5. mach' \in [Machines -> MachineRecord]
    BY StepIsTyped DEF BooksInv, IInv, TypeOK
  <2>6. /\ mach'[current].input = Append(mach[current].input, u)
        /\ mach'[current].model = mach[current].model
        /\ mach'[current].output = mach[current].output
        /\ \A n \in Machines : n # current => mach'[n] = mach[n]
    BY <1>0, <2>1 DEF TypeOK, MachineRecord
  <2>7. \A n \in Machines : u \notin ToSet(Lane(mach[n]))
    BY <2>3 DEF Waits, OnMachine
  <2>8. ToSet(Lane(mach'[current])) = ToSet(Lane(mach[current])) \cup {u}
        /\ IsInjective(Lane(mach'[current]))
    BY <1>0, <2>5, <2>6, <2>7, Entered DEF BooksMatchFloor
  <2>9. \A n \in Machines : IsInjective(Lane(mach'[n]))
    BY <1>0, <2>6, <2>8 DEF BooksMatchFloor
  <2>10. \A v \in Tray : v # u => OnMachine(v)' = OnMachine(v)
    <3>1. \A v \in Tray : \A n \in Machines :
             v # u => (v \in ToSet(Lane(mach'[n])) <=> v \in ToSet(Lane(mach[n])))
      BY <2>6, <2>8
    <3> QED
      BY <3>1 DEF OnMachine
  <2>11. OnMachine(u)' = {current}
    BY <1>0, <2>6, <2>7, <2>8 DEF OnMachine
  <2>12. /\ \A v : v # u => Booked(v)' = Booked(v)
         /\ Booked(u)' = {ProcessOf[current]}
    <3>1. ProcessOf[current] \in Process /\ -1 # ProcessOf[current]
      BY <1>0, PlantAssumption DEF Process
    <3>2. Booked(u) = {-1}
      BY <2>3 DEF Waits
    <3>3. /\ \A v : v # u => Booked(v)' = Booked(v)
          /\ Booked(u)' = (Booked(u) \ {-1}) \cup ({ProcessOf[current]} \cap (Process \cup {-1}))
      BY <1>0, <2>1, <3>1, RebookedBooks
    <3> QED
      BY <3>1, <3>2, <3>3
  <2>13. ioo'[u] = 0 /\ \A v \in Tray : v # u => ioo'[v] = ioo[v]
    BY <1>0, <2>1 DEF TypeOK
  <2>14. IsOn(u, current)'
    <3>1. ProcessOf[current] = Head(Route[ModelOf[u]])
      BY <1>4, <2>2 DEF Feed, CanBeFed, FirstProcess
    <3>2. Route[ModelOf[u]] \in Seq(Process) /\ Len(Route[ModelOf[u]]) \in Nat \ {0}
      BY TrayType
    <3>3. Head(Route[ModelOf[u]]) = Route[ModelOf[u]][1] /\ 1 \in 1..Len(Route[ModelOf[u]])
      BY <3>2, EmptySeq
    <3>4. ioo'[u] + 1 = 1
      BY <2>13
    <3>5. current' = current
      BY <1>4 DEF Feed
    <3> QED
      BY <2>11, <2>12, <3>1, <3>3, <3>4, <3>5 DEF IsOn
  <2>15. \E n \in Machines : IsOn(u, n)'
    <3>1. PICK n \in Machines : n = current
      BY <1>0
    <3>2. current' = current
      BY <1>4 DEF Feed
    <3>3. IsOn(u, n)'
      BY <2>14, <3>1, <3>2 DEF IsOn
    <3> QED
      BY <3>3
  <2> QED
    BY <1>0, <2>9, <2>10, <2>12, <2>13, <2>15, OneMoves
<1>8. CASE Finish
  <2> DEFINE r == [m EXCEPT !.output = Append(@, Head(m.model)), !.model = Tail(@),
                            !.toIdle = realTime, !.status = "MS_IDLE"]
  <2>1. Becomes(r) /\ m.status \in {"MS_WORKING", "MS_BLOCKING"}
    BY <1>8 DEF Finish
  <2>2. m.model # <<>>
    BY <1>0, <2>1 DEF IInv, MachineOK
  <2>3. r.output = Append(m.output, Head(m.model)) /\ r.model = Tail(m.model) /\ r.input = m.input
    <3>1. m \in MachineRecord
      BY <1>0
    <3> HIDE DEF m
    <3> QED
      BY <3>1 DEF MachineRecord
  <2> HIDE DEF r
  <2>4. Lane(r) = Lane(m)
    BY ZenonT(30), <1>00, <2>2, <2>3, HeadMovesUp DEF Lane
  <2> QED
    BY <1>0, <2>1, <2>4, BecomesBooks
<1>9. ASSUME NEW r, Becomes(r), r.input = m.input, r.model = m.model, r.output = m.output
      PROVE  BooksMatchFloor'
  <2>1. Lane(r) = Lane(m)
    BY <1>9 DEF Lane
  <2> QED
    BY <1>0, <1>9, <2>1, BecomesBooks
<1>10. CASE Block
  <2> DEFINE r == [m EXCEPT !.status = "MS_BLOCKING"]
  <2>1. Becomes(r)
    BY <1>10 DEF Block
  <2>2. r.input = m.input /\ r.model = m.model /\ r.output = m.output
    BY <1>0 DEF MachineRecord
  <2> HIDE DEF r
  <2> QED
    BY <1>9, <2>1, <2>2
<1>11. CASE CODone
  <2> DEFINE r == [m EXCEPT !.status = "MS_IDLE", !.mode = m.COTarget, !.COTarget = NoModel]
  <2>1. Becomes(r)
    BY <1>11 DEF CODone
  <2>2. r.input = m.input /\ r.model = m.model /\ r.output = m.output
    BY <1>0 DEF MachineRecord
  <2> HIDE DEF r
  <2> QED
    BY <1>9, <2>1, <2>2
<1>13. CASE StartCO
  <2> DEFINE idle == realTime + COCost[current][m.mode][m.COTarget]
             until == IF realTime - idle < Offset THEN idle + Offset ELSE idle
             r == [m EXCEPT !.status = "MS_CO", !.changeStatus = "COS_KEEP", !.toIdle = until]
  <2>1. Becomes(r)
    BY <1>13 DEF StartCO
  <2>2. r.input = m.input /\ r.model = m.model /\ r.output = m.output
    <3> HIDE DEF until
    <3> QED
      BY <1>0 DEF MachineRecord
  <2> HIDE DEF r
  <2> QED
    BY <1>9, <2>1, <2>2
<1>12. CASE StartWork
  <2> DEFINE until == realTime + WorkTime(current, ModelOf[Head(m.input)])
             r == [m EXCEPT !.status = "MS_WORKING", !.toIdle = until,
                            !.model = Append(@, Head(m.input)), !.input = Tail(@)]
  <2>1. Becomes(r) /\ m.input # <<>>
    BY <1>12 DEF StartWork, Workable
  <2>3. r.output = m.output /\ r.model = Append(m.model, Head(m.input)) /\ r.input = Tail(m.input)
    <3> HIDE DEF until
    <3> QED
      BY <1>0 DEF MachineRecord
  <2> HIDE DEF r, m
  <2>4. mach'[current] = r /\ (\A n \in Machines : n # current => mach'[n] = mach[n])
        /\ JOP' = JOP /\ ioo' = ioo
    BY <1>0, <2>1 DEF TypeOK, Becomes
  <2>5. r \in MachineRecord
    BY <1>0, <2>4, StepIsTyped DEF BooksInv, IInv, TypeOK
  <2>6. ToSet(Lane(r)) = ToSet(Lane(m)) /\ (IsInjective(Lane(m)) => IsInjective(Lane(r)))
    BY <1>0, <2>1, <2>3, <2>5, TakenUp DEF m
  <2>7. \A n \in Machines : ToSet(Lane(mach'[n])) = ToSet(Lane(mach[n]))
                            /\ (IsInjective(Lane(mach[n])) => IsInjective(Lane(mach'[n])))
    BY <2>4, <2>6 DEF m
  <2> QED
    BY <1>0, <2>4, <2>7, NothingLeaves
<1>16. CASE ShipOut
  <2>1. PICK best \in Best(current) :
           AtFinalProcess(best) /\ Move(Head(mach[best].output), best, 1, -1)
    BY <1>16 DEF ShipOut
  <2>2. /\ best \in Machines /\ mach[best].output # <<>>
        /\ Head(mach[best].output) = mach[best].output[1]
        /\ 1 \in 1..Len(mach[best].output)
    BY <1>0, BestType
  <2>3. Moved(best, 1, -1)
    BY <1>0, <2>1, <2>2, MoveEffect
  <2>4. PICK u : u = mach[best].output[1]
    OBVIOUS
  <2>5. ioo[u] + 1 = Len(Route[ModelOf[u]])
    BY <1>0, <2>1, <2>2, <2>4, EndOfRoute
  <2> QED
    BY <1>0, <2>2, <2>3, <2>4, <2>5, MovedBooks
<1>17. CASE ShipOn
  <2>1. PICK best \in Best(current) :
           ~AtFinalProcess(best)
           /\ \E k \in Tried(best) : \E to \in IdleFirst(Takers(best, k)) :
              Move(mach[best].output[k], best, k, to)
    BY <1>17 DEF ShipOn
  <2>2. PICK k \in Tried(best) : \E to \in IdleFirst(Takers(best, k)) :
           Move(mach[best].output[k], best, k, to)
    BY <2>1
  <2>3. PICK to \in IdleFirst(Takers(best, k)) : Move(mach[best].output[k], best, k, to)
    BY <2>2
  <2>4. best \in Machines /\ k \in 1..Len(mach[best].output) /\ mach[best].output # <<>>
    BY <1>0, BestType
  <2>5. to \in Machines /\ ProcessOf[to] = NextProcess(best, k) /\ to # -1
    BY MachinesType DEF IdleFirst, Least, Takers, MachinesOf
  <2>6. Moved(best, k, to)
    BY <1>0, <2>3, <2>4, <2>5, MoveEffect
  <2>7. PICK u : u = mach[best].output[k]
    OBVIOUS
  <2>8. ioo[u] + 1 < Len(Route[ModelOf[u]]) /\ Route[ModelOf[u]][ioo[u] + 2] = ProcessOf[to]
    BY <1>0, <2>1, <2>4, <2>5, <2>7, NextOfRoute
  <2> QED
    BY <1>0, <2>4, <2>5, <2>6, <2>7, <2>8, MovedBooks
<1>18. CASE BookQuiet \/ FeedNothing \/ Mismatch \/ KeepOn \/ ShipNothing \/ Tick
            \/ UNCHANGED simVars
  <2>1. mach' = mach /\ JOP' = JOP /\ ioo' = ioo
    BY <1>18 DEF BookQuiet, FeedNothing, Mismatch, KeepOn, ShipNothing, Tick, simVars
  <2> QED
    BY <1>0, <2>1, NothingMoves
<1> QED
  BY <1>1, <1>2, <1>3, <1>4, <1>8, <1>10, <1>11, <1>12, <1>13, <1>16, <1>17, <1>18
     DEF Next, Simulate

\* Every plant whose routes do not part behind a generic machine: the books of
\* moveJobToNextProcess (simulator.hpp, lines 33-55) and the lanes of the machines
\* never disagree, so no tray is lost, doubled or booked where it is not.
THEOREM BooksAlwaysMatch ==
    ASSUME SiteIsSound, RoutesMeet PROVE Spec => []BooksMatchFloor
<1>1. Init => BooksInv
  BY InitIsTyped, InitBooks DEF BooksInv
<1>2. BooksInv /\ [Next]_simVars => BooksInv'
  BY StepBooks
<1>3. BooksInv => BooksMatchFloor
  BY DEF BooksInv
<1> QED
  BY <1>1, <1>2, <1>3, PTL DEF Spec

\* Every plant whose models part only behind the process they meet at: no
\* machine keeps a tray another could take (simulator.cpp, line 525), although
\* the next process is looked up in the route of the front tray.
THEOREM GenericsShipWhatFits ==
    ASSUME SiteIsSound, RoutesMeet PROVE Spec => []GenericShipsWhatFits
<1>1. Init => BooksInv
  BY InitIsTyped, InitBooks DEF BooksInv
<1>2. BooksInv /\ [Next]_simVars => BooksInv'
  BY StepBooks
<1>3. BooksInv => GenericShipsWhatFits
  <2> SUFFICES ASSUME BooksInv, NEW best \in Best(current),
                      Generic[best], ~AtFinalProcess(best),
                      \A k \in Tried(best) : Takers(best, k) = {},
                      NEW k \in 1..Len(mach[best].output), NEW n \in Machines,
                      ProcessOf[n] = Route[ModelOf[mach[best].output[k]]]
                                          [ioo[mach[best].output[k]] + 2],
                      Acceptable(n, ModelOf[mach[best].output[k]]), mach[n].state = "S_ONLINE"
               PROVE  FALSE
    BY DEF GenericShipsWhatFits
  <2>1. TypeOK /\ BooksMatchFloor
    BY DEF BooksInv, IInv
  <2>2. best \in Machines /\ mach[best].output # <<>> /\ k \in Tried(best)
    BY <2>1, BestType DEF Tried
  <2>3. PICK u : u = mach[best].output[k]
    OBVIOUS
  <2>4. Route[ModelOf[u]][ioo[u] + 2] = NextProcess(best, k)
    BY <2>1, <2>2, <2>3, NextOfRoute
  <2>5. n \in Takers(best, k)
    BY <2>3, <2>4 DEF Takers, MachinesOf
  <2> QED
    BY <2>2, <2>5
<1> QED
  BY <1>1, <1>2, <1>3, PTL DEF Spec

-----------------------------------------------------------------------------
\* Machine m can make what it is, and what it is to be, set up for.
Clocked(m, r) ==
    /\ r.mode \in Model /\ Clock[m][r.mode] >= 0
    /\ r.COTarget \in Model => Clock[m][r.COTarget] >= 0

Targets == {o.target : o \in UNION Books}

\* While machines are visited no entry is overdue.
OutageInv ==
    /\ IInv
    /\ \A m \in Targets : Clocked(m, mach[m])
    /\ pc \in {"feed", "work", "ship"} => \A e \in book : realTime < e.beginTime

LEMMA TargetsType ==
    /\ Targets \subseteq Machines
    /\ \A e \in Entries(UNION Books) : e.target \in Targets /\ e.beginTime \in Nat
<1>1. \A o \in UNION Books : o.target \in Machines /\ o.beginTime \in Nat /\ o.interval \in Nat
  BY SimulatorAssumption DEF Outage
<1>2. \A o \in UNION Books : o.beginTime + o.interval \in Nat
  BY <1>1
<1> QED
  BY <1>1, <1>2 DEF Targets, Entries

\* The time an outage is brought forward by is not negative.
LEMMA ExtraTimeType ==
    ASSUME OutageInv, NEW m \in Targets
    PROVE  ExtraTimeCost(m) \in Nat
<1>1. m \in Machines /\ mach[m] \in MachineRecord /\ Clocked(m, mach[m])
  BY TargetsType DEF OutageInv, IInv, TypeOK
<1>2. Len(mach[m].input) \in Nat
  BY <1>1, LenProperties DEF MachineRecord
<1>3. Clock[m][mach[m].mode] \in Nat /\ CAPACITY \in Nat
  BY SMTT(30), <1>1, PlantAssumption DEF Clocked
<1>4. \A a, b \in Nat : a * b \in Nat
  OBVIOUS
<1> DEFINE w == Clock[m][mach[m].mode] * CAPACITY
<1>5. w \in Nat
  BY <1>3, <1>4
<1>6. WorkTime(m, mach[m].mode) = w
  BY <1>1 DEF WorkTime, ClockOf, Clocked
<1> HIDE DEF w
<1>7. Len(mach[m].input) + 1 \in Nat
  BY <1>2
<1>8. w * (Len(mach[m].input) + 1) \in Nat
  BY <1>4, <1>5, <1>7
<1> QED
  BY <1>6, <1>8 DEF ExtraTimeCost

THEOREM InitOutages == SiteIsSound /\ ClocksComplete /\ TargetsAreSetUp /\ Init => OutageInv
<1> SUFFICES ASSUME SiteIsSound, ClocksComplete, TargetsAreSetUp, Init PROVE OutageInv
  OBVIOUS
<1>1. IInv
  BY InitIsTyped
<1>2. ASSUME NEW m \in Targets PROVE Clocked(m, mach[m])
  <2>1. m \in Machines /\ ~Generic[m] /\ Site[m].mode \in Model
    BY TargetsType DEF Targets, TargetsAreSetUp
  <2>2. mach[m].mode = Site[m].mode /\ mach[m].COTarget = Site[m].COTarget
    BY <2>1 DEF Init, Loaded
  <2>3. \A t \in {Site[m].mode, Site[m].COTarget} \ {NoModel} : Clock[m][t] >= 0
    BY <2>1 DEF ClocksComplete
  <2>4. NoModel \notin Model
    BY PlantAssumption
  <2> QED
    BY <2>1, <2>2, <2>3, <2>4 DEF Clocked
<1> QED
  BY <1>1, <1>2 DEF OutageInv, Init

\* A step that leaves the modes alone.
LEMMA ModesStay ==
    ASSUME OutageInv, IInv',
           \A m \in Machines : mach'[m].mode = mach[m].mode /\ mach'[m].COTarget = mach[m].COTarget,
           pc' \in {"feed", "work", "ship"} => pc \in {"feed", "work", "ship"}
                                              /\ book' = book /\ realTime' = realTime
    PROVE  OutageInv'
<1>1. \A m \in Targets : Clocked(m, mach'[m])
  BY TargetsType DEF OutageInv, Clocked
<1> QED
  BY <1>1 DEF OutageInv

\* The machine whose turn it is becomes another.
LEMMA BecomesClocked ==
    ASSUME OutageInv, IInv', pc = "work", NEW r, Becomes(r),
           Clocked(current, mach[current]) => Clocked(current, r)
    PROVE  OutageInv'
<1>1. current \in Machines /\ mach \in [Machines -> MachineRecord]
  BY DEF OutageInv, IInv, TypeOK
<1>2. \A m \in Targets : Clocked(m, mach'[m])
  BY <1>1, TargetsType DEF OutageInv, Becomes
<1> QED
  BY <1>2 DEF OutageInv, Becomes

THEOREM StepOutages == OutageInv /\ [Next]_simVars => OutageInv'
<1> SUFFICES ASSUME OutageInv, [Next]_simVars PROVE OutageInv'
  OBVIOUS
<1>0. IInv /\ IInv' /\ TypeOK /\ current \in Machines
  BY StepIsTyped DEF OutageInv, IInv, TypeOK
<1> DEFINE m == mach[current]
<1>00. m \in MachineRecord
  BY <1>0 DEF TypeOK
<1>1. ASSUME NEW arrivals \in SUBSET Later, NEW c \in Configurations, NEW online \in BOOLEAN,
             Call(arrivals, c, online)
      PROVE  OutageInv'
  <2>1. \A n \in Machines : mach'[n] \in {mach[n], [mach[n] EXCEPT !.state = "S_ONLINE"]}
    BY <1>1 DEF Call
  <2>2. ASSUME NEW n \in Machines
        PROVE  mach'[n].mode = mach[n].mode /\ mach'[n].COTarget = mach[n].COTarget
    <3>1. mach[n] \in MachineRecord
      BY <1>0 DEF TypeOK
    <3>2. CASE mach'[n] = [mach[n] EXCEPT !.state = "S_ONLINE"]
      BY <3>1, <3>2, OnlyState
    <3> QED
      BY <2>1, <3>2
  <2> QED
    BY <1>0, <1>1, <2>2, ModesStay DEF Call
<1>2. CASE Setup
  <2>1. ASSUME NEW n \in Targets, NEW t \in Model, <<n, t>> \in config
        PROVE  Clocked(n, Configured(n, t))
    <3>1. n \in Machines /\ mach[n] \in MachineRecord /\ Clocked(n, mach[n])
      BY <1>0, TargetsType DEF OutageInv, TypeOK
    <3>2. Clock[n][t] >= 0
      <4>1. config \in Configurations
        BY <1>0 DEF TypeOK
      <4>2. config # {}
        BY <2>1
      <4>3. PICK c \in Machines \X Model :
               ~Generic[c[1]] /\ Supports(c[1], c[2]) /\ config = {c}
        BY <4>1, <4>2, Zenon DEF Configurations
      <4>4. <<n, t>> = c
        BY <2>1, <4>3
      <4>5. ~Generic[n] /\ Supports(n, t)
        BY <4>3, <4>4
      <4> QED
        BY <2>1, <4>5 DEF Supports, ClockOf
    <3>3. CASE mach[n].mode = NoModel
      BY <3>1, <3>3, PlantAssumption DEF Clocked
    <3>4. CASE mach[n].mode # NoModel /\ Configured(n, t) # mach[n]
      <4> DEFINE r == [mach[n] EXCEPT !.changeStatus = "COS_GOING", !.COTarget = t]
      <4>1. Configured(n, t) = r
        BY <3>4 DEF Configured
      <4>2. r.mode = mach[n].mode /\ r.COTarget = t
        BY <3>1 DEF MachineRecord
      <4> HIDE DEF r
      <4> QED
        BY <3>1, <3>2, <4>1, <4>2 DEF Clocked
    <3> QED
      BY <3>1, <3>3, <3>4
  <2>2. \A n \in Machines : mach'[n] = mach[n]
           \/ \E t \in Model : <<n, t>> \in config /\ mach'[n] = Configured(n, t)
    <3> SUFFICES ASSUME NEW n \in Machines, \E t \in Model : <<n, t>> \in config
                 PROVE  \E t \in Model : <<n, t>> \in config /\ mach'[n] = Configured(n, t)
      BY <1>2 DEF Setup
    <3> QED
      BY <1>2 DEF Setup
  <2>3. \A n \in Targets : Clocked(n, mach'[n])
    BY <2>1, <2>2, TargetsType DEF OutageInv
  <2> QED
    BY <1>0, <1>2, <2>3 DEF Setup, OutageInv
<1>3. CASE BookFires
  <2>1. PICK e \in Top : mach' = [mach EXCEPT ![e.target].state =
                                    IF e.type = "SBI_OFF" THEN "S_OFFLINE" ELSE "S_ONLINE"]
    BY <1>3 DEF BookFires
  <2>2. \A n \in Machines : mach'[n].mode = mach[n].mode /\ mach'[n].COTarget = mach[n].COTarget
    BY SMTT(30), <1>0, <2>1 DEF TypeOK, MachineRecord
  <2> QED
    BY <1>0, <1>3, <2>2, ModesStay DEF BookFires
<1>4. CASE BookQuiet
  <2>1. ASSUME NEW f \in book PROVE realTime < f.beginTime
    <3>1. PICK e \in Top : ~Due(e)
      BY <1>4 DEF BookQuiet
    <3>2. e \in book /\ e.beginTime <= f.beginTime /\ book \subseteq Entries(UNION Books)
      BY <1>0, <3>1 DEF Top, TypeOK
    <3>3. e.target \in Targets /\ e.beginTime \in Nat /\ f.beginTime \in Nat
      BY <2>1, <3>2, TargetsType
    <3>4. ExtraTimeCost(e.target) \in Nat
      BY <3>3, ExtraTimeType
    <3>5. realTime \in Nat /\ ~(realTime + ExtraTimeCost(e.target) >= e.beginTime)
      BY <1>0, <3>1 DEF Due, TypeOK
    <3> QED
      BY <3>2, <3>3, <3>4, <3>5
  <2> QED
    BY <1>0, <1>4, <2>1 DEF BookQuiet, OutageInv
<1>5. CASE Feed
  <2>1. \A n \in Machines : mach'[n].mode = mach[n].mode /\ mach'[n].COTarget = mach[n].COTarget
    BY <1>0, <1>5 DEF Feed, TypeOK, MachineRecord
  <2> QED
    BY <1>0, <1>5, <2>1, ModesStay DEF Feed
<1>6. ASSUME pc = "work", NEW r, Becomes(r), r.mode = m.mode, r.COTarget = m.COTarget
      PROVE  OutageInv'
  BY <1>0, <1>6, BecomesClocked DEF Clocked
<1>7. CASE Finish
  <2> DEFINE r == [m EXCEPT !.output = Append(@, Head(m.model)), !.model = Tail(@),
                            !.toIdle = realTime, !.status = "MS_IDLE"]
  <2>1. Becomes(r) /\ pc = "work"
    BY <1>7 DEF Finish
  <2>2. r.mode = m.mode /\ r.COTarget = m.COTarget
    BY <1>00 DEF MachineRecord
  <2> HIDE DEF r
  <2> QED
    BY <1>6, <2>1, <2>2
<1>8. CASE Block
  <2> DEFINE r == [m EXCEPT !.status = "MS_BLOCKING"]
  <2>1. Becomes(r) /\ pc = "work"
    BY <1>8 DEF Block
  <2>2. r.mode = m.mode /\ r.COTarget = m.COTarget
    BY <1>00 DEF MachineRecord
  <2> HIDE DEF r
  <2> QED
    BY <1>6, <2>1, <2>2
<1>9. CASE CODone
  <2> DEFINE r == [m EXCEPT !.status = "MS_IDLE", !.mode = m.COTarget, !.COTarget = NoModel]
  <2>1. Becomes(r) /\ pc = "work" /\ m.status = "MS_CO"
    BY <1>9 DEF CODone
  <2>2. r.mode = m.COTarget /\ r.COTarget = NoModel
    BY <1>00 DEF MachineRecord
  <2>3. m.COTarget \in Model /\ NoModel \notin Model
    BY <1>0, <2>1, PlantAssumption DEF IInv, MachineOK
  <2> HIDE DEF r
  <2> QED
    BY <1>0, <2>1, <2>2, <2>3, BecomesClocked DEF Clocked
<1>10. CASE StartCO
  <2> DEFINE idle == realTime + COCost[current][m.mode][m.COTarget]
             until == IF realTime - idle < Offset THEN idle + Offset ELSE idle
             r == [m EXCEPT !.status = "MS_CO", !.changeStatus = "COS_KEEP", !.toIdle = until]
  <2>1. Becomes(r) /\ pc = "work"
    BY <1>10 DEF StartCO
  <2>2. r.mode = m.mode /\ r.COTarget = m.COTarget
    <3> HIDE DEF until
    <3> QED
      BY <1>00 DEF MachineRecord
  <2> HIDE DEF r
  <2> QED
    BY <1>6, <2>1, <2>2
<1>11. CASE StartWork
  <2> DEFINE until == realTime + WorkTime(current, ModelOf[Head(m.input)])
             r == [m EXCEPT !.status = "MS_WORKING", !.toIdle = until,
                            !.model = Append(@, Head(m.input)), !.input = Tail(@)]
  <2>1. Becomes(r) /\ pc = "work"
    BY <1>11 DEF StartWork
  <2>2. r.mode = m.mode /\ r.COTarget = m.COTarget
    <3> HIDE DEF until
    <3> QED
      BY <1>00 DEF MachineRecord
  <2> HIDE DEF r
  <2> QED
    BY <1>6, <2>1, <2>2
<1>12. ASSUME NEW from \in Machines, NEW k \in 1..Len(mach[from].output),
              NEW to \in Machines \cup {-1}, Move(mach[from].output[k], from, k, to),
              pc = "ship", ShipUnchanged
       PROVE  OutageInv'
  <2>1. Moved(from, k, to)
    BY <1>0, <1>12, MoveEffect
  <2>2. \A n \in Machines : mach'[n].mode = mach[n].mode /\ mach'[n].COTarget = mach[n].COTarget
    BY <2>1 DEF Moved
  <2> QED
    BY <1>0, <1>12, <2>2, ModesStay DEF ShipUnchanged
<1>13. CASE ShipOut
  <2>1. PICK best \in Best(current) : Move(Head(mach[best].output), best, 1, -1)
    BY <1>13 DEF ShipOut
  <2>2. /\ best \in Machines /\ Head(mach[best].output) = mach[best].output[1]
        /\ 1 \in 1..Len(mach[best].output)
    BY <1>0, BestType
  <2>3. Move(mach[best].output[1], best, 1, -1) /\ pc = "ship" /\ ShipUnchanged
    BY <1>13, <2>1, <2>2 DEF ShipOut
  <2> QED
    BY <1>12, <2>2, <2>3
<1>14. CASE ShipOn
  <2>1. PICK best \in Best(current) :
           \E k \in Tried(best) : \E to \in IdleFirst(Takers(best, k)) :
              Move(mach[best].output[k], best, k, to)
    BY <1>14 DEF ShipOn
  <2>2. PICK k \in Tried(best) : \E to \in IdleFirst(Takers(best, k)) :
           Move(mach[best].output[k], best, k, to)
    BY <2>1
  <2>3. PICK to \in IdleFirst(Takers(best, k)) : Move(mach[best].output[k], best, k, to)
    BY <2>2
  <2>4. best \in Machines /\ k \in 1..Len(mach[best].output)
    BY <1>0, BestType
  <2>5. to \in Machines /\ pc = "ship" /\ ShipUnchanged
    BY <1>14 DEF IdleFirst, Least, Takers, MachinesOf, ShipOn
  <2> QED
    BY <1>12, <2>3, <2>4, <2>5
<1>15. CASE FeedNothing \/ KeepOn \/ UNCHANGED simVars
  <2>1. mach' = mach /\ book' = book /\ realTime' = realTime
        /\ (pc' \in {"feed", "work", "ship"} => pc \in {"feed", "work", "ship"})
    BY <1>15 DEF FeedNothing, KeepOn, simVars
  <2> QED
    BY <1>0, <2>1, ModesStay
<1>16. CASE ShipNothing
  <2>1. mach' = mach /\ book' = book /\ realTime' = realTime /\ pc = "ship"
    BY <1>16 DEF ShipNothing, ShipUnchanged
  <2> QED
    BY <1>0, <2>1, ModesStay
<1>17. CASE Mismatch \/ Tick
  <2>1. mach' = mach /\ pc' \notin {"feed", "work", "ship"}
    BY <1>17 DEF Mismatch, Tick
  <2> QED
    BY <1>0, <2>1, ModesStay
<1> QED
  BY <1>1, <1>2, <1>3, <1>4, <1>5, <1>7, <1>8, <1>9, <1>10, <1>11, <1>13, <1>14, <1>15,
     <1>16, <1>17 DEF Next, Simulate

\* Every plant: if the machines of the shift book have a mode and a clock for it,
\* no machine is visited after the begin of an outage that has not been carried
\* out, however many are due at once (simulator.cpp, line 139).
THEOREM OutagesBeginInTime ==
    ASSUME SiteIsSound, ClocksComplete, TargetsAreSetUp PROVE Spec => []OutageBeginsInTime
<1>1. Init => OutageInv
  BY InitOutages
<1>2. OutageInv /\ [Next]_simVars => OutageInv'
  BY StepOutages
<1>3. OutageInv => OutageBeginsInTime
  BY DEF OutageInv, OutageBeginsInTime
<1> QED
  BY <1>1, <1>2, <1>3, PTL DEF Spec
===============================================================================
