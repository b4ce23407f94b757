----------------------------- MODULE SchedulerProofs -----------------------------
(***************************************************************************)
(* What holds of the whole program, for every plant, every site and every  *)
(* list of requirements: main, with its planner and refresh(), uses the    *)
(* simulator the way it is meant to be used, and refresh() sees the line   *)
(* the way Tasks describes it.                                             *)
(***************************************************************************)
EXTENDS Scheduler, SimulatorProofs

-----------------------------------------------------------------------------
(* The planner. *)

\* What may be the best so far: nothing, or the appraisal of a candidate.
Plans ==
    {NoPlan} \cup {Appraisal(c[1], c[2]) : c \in {c \in Machines \X Model : Candidate(c[1], c[2])}}

LEMMA BetterType ==
    ASSUME NEW m \in Machines, NEW t \in Model, NEW best \in Plans
    PROVE  Better(m, t, best) \in Plans
<1>1. ASSUME Candidate(m, t) PROVE Appraisal(m, t) \in Plans
  <2>1. <<m, t>> \in {c \in Machines \X Model : Candidate(c[1], c[2])}
    BY <1>1
  <2> QED
    BY <2>1 DEF Plans
<1> QED
  BY <1>1 DEF Better

\* The inner loop goes over the models ...
LEMMA BestForType ==
    ASSUME NEW m \in Machines, NEW models \in Seq(Model), NEW best \in Plans
    PROVE  BestFor(m, models, best) \in Plans
<1> DEFINE n == Len(models)
           step == [j \in 1..n |-> [b \in Plans |-> Better(m, models[j], b)]]
           Is(f) == f = [j \in 0..n |-> IF j = 0 THEN best ELSE Better(m, models[j], f[j - 1])]
           S(f) == {j \in 0..n : f[j] \in Plans}
<1>1. n \in Nat /\ \A j \in 1..n : models[j] \in Model
  BY LenProperties
<1>2. BestFor(m, models, best) = (CHOOSE f : Is(f))[n]
  BY DEF BestFor
<1>3. step \in [1..n -> [Plans -> Plans]]
  BY <1>1, BetterType
<1>4. PICK f : Computes(f, n, Plans, best, step)
  <2> HIDE DEF step, n, Is
  <2> QED
    BY <1>1, <1>3, Recursion, Zenon
<1>5. Is(f)
  <2>1. \A j \in 1..n : f[j] = step[j][f[j - 1]] /\ f[j - 1] \in Plans
    BY <1>1, <1>4 DEF Computes
  <2>2. \A j \in 1..n : f[j] = Better(m, models[j], f[j - 1])
    BY <2>1
  <2>3. f \in [0..n -> Plans] /\ f[0] = best
    BY <1>4 DEF Computes
  <2> HIDE DEF n
  <2>4. \A j \in 0..n : f[j] = IF j = 0 THEN best ELSE Better(m, models[j], f[j - 1])
    BY <1>1, <2>2, <2>3
  <2> QED
    BY <2>3, <2>4
<1>6. PICK g : g = (CHOOSE h : Is(h)) /\ Is(g)
  <2> HIDE DEF Is
  <2> QED
    BY <1>5
<1>7. 0 \in S(g) /\ \A i \in 0..n - 1 : i \in S(g) => i + 1 \in S(g)
  <2>1. \A j \in 0..n : g[j] = IF j = 0 THEN best ELSE Better(m, models[j], g[j - 1])
    BY <1>6
  <2> QED
    BY <1>1, <2>1, BetterType
<1>8. n \in S(g)
  <2> DEFINE T1 == S(g)
  <2>1. 0 \in T1 /\ \A i \in 0..n - 1 : i \in T1 => i + 1 \in T1
    BY <1>7
  <2> HIDE DEF T1, n
  <2>2. \A i \in 0..n : i \in T1
    BY <1>1, <2>1, CountUp
  <2>3. n \in T1
    BY <1>1, <2>2
  <2> QED
    BY <2>3 DEF T1
<1> QED
  BY <1>2, <1>6, <1>8

\* ... and the outer one over the machines: what is chosen is a configuration.
LEMMA ChoiceType ==
    ASSUME NEW triggers \in Seq(Machines), NEW models \in Seq(Model)
    PROVE  Choice(triggers, models) \in Configurations
<1> DEFINE n == Len(triggers)
           step == [i \in 1..n |-> [b \in Plans |-> BestFor(triggers[i], models, b)]]
           Is(f) == f = [i \in 0..n |->
                            IF i = 0 THEN NoPlan ELSE BestFor(triggers[i], models, f[i - 1])]
           best == (CHOOSE f : Is(f))[n]
           S(f) == {i \in 0..n : f[i] \in Plans}
<1>1. n \in Nat /\ (\A i \in 1..n : triggers[i] \in Machines) /\ NoPlan \in Plans
  BY LenProperties DEF Plans
<1>2. Choice(triggers, models) = IF best = NoPlan THEN {} ELSE {best.plan}
  BY DEF Choice
<1>3. step \in [1..n -> [Plans -> Plans]]
  BY <1>1, BestForType
<1>4. PICK f : Computes(f, n, Plans, NoPlan, step)
  <2> HIDE DEF step, n, Is
  <2> QED
    BY <1>1, <1>3, Recursion, Zenon
<1>5. Is(f)
  <2>1. \A i \in 1..n : f[i] = step[i][f[i - 1]] /\ f[i - 1] \in Plans
    <3> HIDE DEF step, n
    <3> QED
      BY <1>1, <1>4 DEF Computes
  <2>2. \A i \in 1..n : f[i] = BestFor(triggers[i], models, f[i - 1])
    BY <2>1
  <2>3. f \in [0..n -> Plans] /\ f[0] = NoPlan
    BY <1>4 DEF Computes
  <2> HIDE DEF n
  <2>4. \A i \in 0..n : f[i] = IF i = 0 THEN NoPlan ELSE BestFor(triggers[i], models, f[i - 1])
    BY <1>1, <2>2, <2>3
  <2> QED
    BY <2>3, <2>4
<1>6. PICK g : g = (CHOOSE h : Is(h)) /\ Is(g)
  <2> HIDE DEF Is
  <2> QED
    BY <1>5
<1>7. 0 \in S(g) /\ \A i \in 0..n - 1 : i \in S(g) => i + 1 \in S(g)
  <2>1. \A i \in 0..n : g[i] = IF i = 0 THEN NoPlan ELSE BestFor(triggers[i], models, g[i - 1])
    BY <1>6
  <2> QED
    BY <1>1, <2>1, BestForType
<1>8. n \in S(g)
  <2> DEFINE T1 == S(g)
  <2>1. 0 \in T1 /\ \A i \in 0..n - 1 : i \in T1 => i + 1 \in T1
    BY <1>7
  <2> HIDE DEF T1, n
  <2>2. \A i \in 0..n : i \in T1
    BY <1>1, <2>1, CountUp
  <2>3. n \in T1
    BY <1>1, <2>2
  <2> QED
    BY <2>3 DEF T1
<1>9. best \in Plans
  BY <1>6, <1>8
<1> HIDE DEF best
<1>10. CASE best = NoPlan
  BY <1>2, <1>10 DEF Configurations
<1>11. ASSUME NEW m \in Machines, NEW t \in Model, Candidate(m, t), best = Appraisal(m, t)
       PROVE  best = NoPlan \/ Choice(triggers, models) \in Configurations
  <2>1. best.plan = <<m, t>>
    BY <1>11 DEF Appraisal
  <2>2. {<<m, t>>} \in Configurations
    BY <1>11 DEF Candidate, Configurations
  <2> QED
    BY <1>2, <2>1, <2>2
<1> QED
  BY <1>9, <1>10, <1>11 DEF Plans

-----------------------------------------------------------------------------
(* The calls of simulate(). *)

\* What refresh() reads in is still to come when the run starts.
LEMMA RequiredIsLater == ASSUME NEW d PROVE T!Required(d) \subseteq Later
<1>1. \A m \in Machines : OnSite(m) = ToSet(Lane(Loaded(m)))
  BY SchedulerAssumption, SiteIsFloor
<1> QED
  BY <1>1, SchedulerAssumption DEF T!Required, Later

\* The planner is given sequences of machines and of models.
LEMMA TaskOrdersType == ASSUME NEW models \in TaskOrders PROVE models \in Seq(Model)
<1> DEFINE S == {t \in Model : gTasks[t] > 0}
<1>1. IsFiniteSet(S) /\ S \subseteq Model
  BY SchedulerAssumption, FS_Subset
<1>2. Cardinality(S) \in Nat
  BY <1>1, FS_CardinalityType
<1>3. models \in [1..Cardinality(S) -> S]
  BY DEF TaskOrders, SetToSeqs
<1> HIDE DEF S
<1> QED
  BY <1>1, <1>2, <1>3

\* What main hands to the simulator is what the simulator takes.
CallInv ==
    /\ triggered \in Seq(Machines)
    /\ config \in Configurations
    /\ fetched \subseteq Later

LEMMA InitCalls == MainInit => CallInv
<1>1. {} \in Configurations
  BY DEF Configurations
<1> QED
  BY <1>1 DEF MainInit, Init, CallInv

\* A step of the simulator triggers machines only.
LEMMA TriggersStay ==
    ASSUME CallInv, Setup \/ Simulate, fetched' = fetched
    PROVE  CallInv'
<1>0. ASSUME NEW m \in Machines, NEW u, NEW k, NEW to, Move(u, m, k, to), ShipUnchanged
      PROVE  triggered' \in Seq(Machines) /\ config' = config
  <2>1. config' = config
    BY <1>0 DEF ShipUnchanged
  <2>2. triggered' = <<m>> \/ triggered' = triggered
    BY <1>0, Zenon DEF Move
  <2>3. <<m>> \in Seq(Machines)
    OBVIOUS
  <2> QED
    BY <2>1, <2>2, <2>3 DEF CallInv
<1>a. Best(current) \subseteq Machines
  BY DEF Best, Oldest, Least, MachinesOf
<1>1. CASE ShipOut
  BY <1>0, <1>1, <1>a DEF ShipOut, CallInv
<1>2. CASE ShipOn
  BY <1>0, <1>2, <1>a DEF ShipOn, CallInv
<1>3. CASE Tick
  <2>1. \A s \in WithIdle(realTime') : s \in Seq(Machines)
    BY WithIdleType DEF CallInv
  <2> QED
    BY <1>3, <2>1 DEF Tick, CallInv
<1>4. CASE UNCHANGED <<triggered, config>>
  BY <1>4 DEF CallInv
<1> QED
  BY <1>1, <1>2, <1>3, <1>4
     DEF Simulate, Setup, BookFires, BookQuiet, Feed, FeedNothing, Finish, Block, CODone,
         StartCO, StartWork, Mismatch, KeepOn, ShipNothing, ShipUnchanged, Becomes

\* Every step of main is a step of the simulator, one of its calls, or nothing
\* to it.
LEMMA StepCalls == CallInv /\ [MainNext]_mainVars => CallInv' /\ [Next]_simVars
<1> SUFFICES ASSUME CallInv, [MainNext]_mainVars PROVE CallInv' /\ [Next]_simVars
  OBVIOUS
<1>1. CASE Count \/ NoMoreDays \/ Merge \/ Return \/ Exit \/ UNCHANGED mainVars
  BY <1>1 DEF Count, NoMoreDays, Merge, Return, Exit, mainVars, CallInv, simVars
<1>2. CASE Fill
  BY <1>2, RequiredIsLater DEF Fill, CallInv, simVars
<1>3. CASE Plan
  <2>1. PICK models \in TaskOrders : LET c == Choice(triggered, models)
                                     IN \/ c # {} /\ Call(fetched, c, TRUE)
                                        \/ c = {} /\ Call(fetched, config, FALSE)
    BY <1>3 DEF Plan
  <2>2. Choice(triggered, models) \in Configurations
    BY TaskOrdersType, ChoiceType DEF CallInv
  <2>3. PICK c \in Configurations, online \in BOOLEAN : Call(fetched, c, online)
    BY <2>1, <2>2 DEF CallInv
  <2>4. Next
    BY <2>3 DEF Next, CallInv
  <2>5. CallInv'
    BY <1>3, <2>3 DEF Call, Plan, CallInv
  <2> QED
    BY <2>4, <2>5
<1>4. CASE Run
  BY <1>4, TriggersStay DEF Run, Next, CallInv
<1> QED
  BY <1>1, <1>2, <1>3, <1>4 DEF MainNext

\* For every plant, site and list of requirements: what the planner chooses is
\* a configuration the simulator was made for, and what refresh() hands over is
\* still to come; so all that is proved of the simulator holds in the program.
THEOREM MainIsACaller == MainSpec => ImplementsSimulator
<1>1. MainInit => Init
  BY DEF MainInit
<1> QED
  BY <1>1, InitCalls, StepCalls, PTL DEF MainSpec, ImplementsSimulator, Spec

-----------------------------------------------------------------------------
(* The trays the simulator knows. *)

\* The trays in the books: those that wait or are on the line.
InBooks == UNION {JOP[p] : p \in DOMAIN JOP}

\* A tray that is shipped was on the line, and goes to a machine or leaves.
LEMMA ShippedWhere ==
    ASSUME RoutesMeet, BooksInv, ShipOut \/ ShipOn
    PROVE  \E u \in Tray, from \in Process, to \in Process \cup {-2} :
              /\ Booked(u) = {from} /\ ioo[u] \in Nat
              /\ JOP' = Rebooked(u, from, to)
              /\ ioo' = ioo \/ ioo' = [ioo EXCEPT ![u] = @ + 1]
<1>0. TypeOK /\ BooksMatchFloor
  BY DEF BooksInv, IInv
<1>1. ASSUME NEW m \in Machines, NEW k, NEW to \in Machines \cup {-1}, Moved(m, k, to),
             NEW u \in Tray, u = mach[m].output[k], IsOn(u, m),
             to # -1 => Route[ModelOf[u]][ioo[u] + 2] = ProcessOf[to]
      PROVE  \E from \in Process, dest \in Process \cup {-2} :
                /\ Booked(u) = {from} /\ ioo[u] \in Nat
                /\ JOP' = Rebooked(u, from, dest)
                /\ ioo' = ioo \/ ioo' = [ioo EXCEPT ![u] = @ + 1]
  <2> DEFINE from == Route[ModelOf[u]][ioo[u] + 1]
             dest == IF to = -1 THEN -2 ELSE Route[ModelOf[u]][ioo[u] + 2]
  <2>1. JOP' = Rebooked(u, from, dest)
    BY <1>1, Zenon DEF Moved
  <2>2. ioo' = ioo \/ ioo' = [ioo EXCEPT ![u] = @ + 1]
    BY <1>1, Zenon DEF Moved
  <2>3. from = ProcessOf[m] /\ Booked(u) = {ProcessOf[m]} /\ ProcessOf[m] \in Process
    BY <1>1, PlantAssumption DEF IsOn
  <2>4. ioo[u] \in Nat
    BY <1>0, <1>1, TrayType DEF IsOn, TypeOK
  <2>5. dest \in Process \cup {-2}
    BY <1>1, PlantAssumption
  <2> HIDE DEF from, dest
  <2> QED
    BY <2>1, <2>2, <2>3, <2>4, <2>5
<1>2. CASE ShipOut
  <2>1. PICK best \in Best(current) :
           AtFinalProcess(best) /\ Move(Head(mach[best].output), best, 1, -1)
    BY <1>2 DEF ShipOut
  <2>2. /\ best \in Machines /\ mach[best].output # <<>>
        /\ Head(mach[best].output) = mach[best].output[1]
        /\ 1 \in 1..Len(mach[best].output)
    BY <1>0, BestType
  <2>3. Moved(best, 1, -1)
    BY <1>0, <2>1, <2>2, MoveEffect
  <2>4. PICK u : u = mach[best].output[1]
    OBVIOUS
  <2>5. u \in Tray /\ IsOn(u, best)
    BY <1>0, <2>1, <2>2, <2>4, EndOfRoute
  <2> QED
    BY <1>1, <2>2, <2>3, <2>4, <2>5
<1>3. CASE ShipOn
  <2>1. PICK best \in Best(current) :
           ~AtFinalProcess(best)
           /\ \E k \in Tried(best) : \E to \in IdleFirst(Takers(best, k)) :
              Move(mach[best].output[k], best, k, to)
    BY <1>3 DEF ShipOn
  <2>a. PICK k \in Tried(best) : \E to \in IdleFirst(Takers(best, k)) :
           Move(mach[best].output[k], best, k, to)
    BY <2>1
  <2>2. PICK to \in IdleFirst(Takers(best, k)) : Move(mach[best].output[k], best, k, to)
    BY <2>a
  <2>3. best \in Machines /\ k \in 1..Len(mach[best].output) /\ mach[best].output # <<>>
    BY <1>0, BestType
  <2>4. to \in Machines /\ ProcessOf[to] = NextProcess(best, k) /\ to # -1
    BY MachinesType DEF IdleFirst, Least, Takers, MachinesOf
  <2>5. Moved(best, k, to)
    BY <1>0, <2>2, <2>3, <2>4, MoveEffect
  <2>6. PICK u : u = mach[best].output[k]
    OBVIOUS
  <2>7. u \in Tray /\ IsOn(u, best) /\ Route[ModelOf[u]][ioo[u] + 2] = ProcessOf[to]
    BY <1>0, <2>1, <2>3, <2>4, <2>6, NextOfRoute
  <2>8. to \in Machines \cup {-1} /\ (to # -1 => Route[ModelOf[u]][ioo[u] + 2] = ProcessOf[to])
    BY <2>4, <2>7
  <2>9. u \in Tray /\ u = mach[best].output[k] /\ IsOn(u, best) /\ best \in Machines
    BY <2>3, <2>6, <2>7
  <2> QED
    BY ONLY <1>1, <2>5, <2>8, <2>9
<1> QED
  BY <1>2, <1>3

\* In the simulation a tray may leave the books, but none enters them, and none
\* that was there is to come again.
LEMMA StepsKeepBooks ==
    ASSUME RoutesMeet, BooksInv, BooksInv', Setup \/ Simulate
    PROVE  /\ InBooks' = InBooks \/ \E u \in Tray : u \in InBooks /\ InBooks' = InBooks \ {u}
           /\ \A u \in Tray : ToCome(u)' <=> ToCome(u)
<1>0. /\ TypeOK /\ BooksMatchFloor /\ BooksMatchFloor'
      /\ DOMAIN JOP = Process \cup {-1} /\ ioo \in [Tray -> Nat \cup {-1}]
  BY DEF BooksInv, IInv, TypeOK
<1>a. -1 \notin Process /\ -2 \notin Process
  BY DEF Process
<1>b. \A u : u \in InBooks <=> Booked(u) # {}
  BY DEF InBooks, Booked
<1>c. \A u : u \in InBooks' <=> Booked(u)' # {}
  BY DEF InBooks, Booked
<1>d. \A u \in Tray : ToCome(u) <=> u \in Later /\ ioo[u] = -1 /\ u \notin JOP[-1]
  <2> SUFFICES ASSUME NEW u \in Tray, u \in Later, ioo[u] = -1, u \notin JOP[-1]
               PROVE  ToCome(u)
    BY <1>0 DEF ToCome, Booked
  <2>1. ~Waits(u) /\ ~HasLeft(u)
    BY <1>0, TrayType DEF Waits, Booked, HasLeft
  <2>2. ~ \E m \in Machines : IsOn(u, m)
    BY DEF IsOn
  <2> QED
    BY <1>0, <2>1, <2>2 DEF BooksMatchFloor
<1>e. \A u \in Tray : ToCome(u)' <=> u \in Later /\ ioo'[u] = -1 /\ u \notin JOP'[-1]
  <2> SUFFICES ASSUME NEW u \in Tray, u \in Later, ioo'[u] = -1, u \notin JOP'[-1]
               PROVE  ToCome(u)'
    <3>1. DOMAIN JOP' = Process \cup {-1}
      BY DEF BooksInv, IInv, TypeOK
    <3> QED
      BY <3>1 DEF ToCome, Booked
  <2>1. ~Waits(u)' /\ ~HasLeft(u)'
    BY <1>0, TrayType DEF Waits, Booked, HasLeft
  <2>2. ~ \E m \in Machines : IsOn(u, m)'
    BY DEF IsOn
  <2> QED
    BY <1>0, <2>1, <2>2 DEF BooksMatchFloor
<1>1. CASE ShipOut \/ ShipOn
  <2>1. PICK u \in Tray, from \in Process, to \in Process \cup {-2} :
              /\ Booked(u) = {from} /\ ioo[u] \in Nat
              /\ JOP' = Rebooked(u, from, to)
              /\ ioo' = ioo \/ ioo' = [ioo EXCEPT ![u] = @ + 1]
    BY <1>1, ShippedWhere
  <2>2. CASE from = to
    <3>1. JOP' = JOP
      <4>1. u \in JOP[from] /\ from \in DOMAIN JOP
        BY <2>1 DEF Booked
      <4>2. JOP' = [p \in DOMAIN JOP |-> IF p = from THEN JOP[p] \cup {u} ELSE JOP[p]]
        BY <2>1, <2>2 DEF Rebooked
      <4>3. JOP = [p \in DOMAIN JOP |-> JOP[p]]
        BY <1>0 DEF TypeOK
      <4>4. \A p \in DOMAIN JOP : (IF p = from THEN JOP[p] \cup {u} ELSE JOP[p]) = JOP[p]
        BY <4>1
      <4> QED
        BY <4>2, <4>3, <4>4
    <3>2. InBooks' = InBooks
      BY <3>1 DEF InBooks
    <3>3. \A v \in Tray : ioo'[v] = -1 <=> ioo[v] = -1
      BY <1>0, <2>1
    <3> QED
      BY <1>d, <1>e, <3>1, <3>2, <3>3
  <2>3. CASE from # to
    <3>1. /\ \A v : v # u => Booked(v)' = Booked(v)
          /\ Booked(u)' = (Booked(u) \ {from}) \cup ({to} \cap (Process \cup {-1}))
      BY <1>0, <2>1, <2>3, RebookedBooks
    <3>2. InBooks' = InBooks \/ (u \in InBooks /\ InBooks' = InBooks \ {u})
      BY <1>b, <1>c, <2>1, <3>1
    <3>3. \A v \in Tray : ioo'[v] = -1 <=> ioo[v] = -1
      BY <1>0, <2>1
    <3>4. \A v \in Tray : v # u => (v \in JOP'[-1] <=> v \in JOP[-1])
      BY <1>0, <1>a, <2>1 DEF Rebooked
    <3> QED
      BY <1>d, <1>e, <2>1, <3>2, <3>3, <3>4
  <2> QED
    BY <2>2, <2>3
<1>2. CASE Feed
  <2>1. PICK u : /\ u = Min(Waiting(mach[current].mode)) /\ Waiting(mach[current].mode) # {}
                 /\ JOP' = Rebooked(u, -1, ProcessOf[current])
                 /\ ioo' = [ioo EXCEPT ![u] = 0]
    BY <1>2 DEF Feed, CanBeFed
  <2>2. u \in Tray /\ u \in JOP[-1]
    BY <1>0, <2>1, WaitingType DEF Waiting
  <2>3. ProcessOf[current] \in Process
    BY <1>0, PlantAssumption DEF TypeOK
  <2>4. /\ \A v : v # u => Booked(v)' = Booked(v)
        /\ Booked(u)' = (Booked(u) \ {-1}) \cup ({ProcessOf[current]} \cap (Process \cup {-1}))
    BY <1>0, <1>a, <2>1, <2>3, RebookedBooks
  <2>5. InBooks' = InBooks
    <3>1. Booked(u) # {} /\ Booked(u)' # {}
      BY <1>0, <2>2, <2>3, <2>4 DEF Booked
    <3> QED
      BY <1>b, <1>c, <2>4, <3>1
  <2>6. \A v \in Tray : v # u => ioo'[v] = ioo[v] /\ (v \in JOP'[-1] <=> v \in JOP[-1])
    BY <1>0, <1>a, <2>1, <2>3 DEF Rebooked
  <2>7. ioo'[u] = 0
    BY <1>0, <2>1, <2>2
  <2> QED
    BY <1>d, <1>e, <2>2, <2>5, <2>6, <2>7
<1>3. CASE UNCHANGED <<JOP, ioo>>
  <2>1. InBooks' = InBooks
    BY <1>3 DEF InBooks
  <2> QED
    BY <1>3, <1>d, <1>e, <2>1
<1> QED
  BY <1>1, <1>2, <1>3
     DEF Simulate, Setup, BookFires, BookQuiet, FeedNothing, Finish, Block, CODone,
         StartCO, StartWork, Mismatch, KeepOn, ShipNothing, ShipUnchanged, Becomes, Tick

-----------------------------------------------------------------------------
(* The rounds of main. *)

\* The inductive invariant of main: the books and the floor agree, the simulator
\* rests while main does not simulate, and what was read in is with main until
\* it is handed over.
MainInv ==
    /\ BooksInv
    /\ HandedOverOnce
    /\ stage \in {"count", "window", "merge", "plan", "simulate", "exit", "done"}
    /\ stage \notin {"simulate", "exit"} => pc = "idle"
    /\ stage \in {"count", "simulate", "exit"} => fetched = {}
    /\ progress \in Nat /\ \A u \in fetched : DayOf[u] < progress

\* A tray that is not on the site when the program starts is to come.
LEMMA LaterThanSite == Later = Tray \ UNION {OnSite(m) : m \in Machines}
<1>1. \A m \in Machines : OnSite(m) = ToSet(Lane(Loaded(m)))
  BY SchedulerAssumption, SiteIsFloor
<1> QED
  BY <1>1, SchedulerAssumption DEF Later

LEMMA InitMain == ASSUME SiteIsSound PROVE MainInit => MainInv
<1> SUFFICES ASSUME MainInit PROVE MainInv
  OBVIOUS
<1>1. Init /\ BooksInv
  BY InitIsTyped, InitBooks DEF MainInit, BooksInv
<1>2. stage = "count" /\ pc = "idle" /\ fetched = {} /\ progress = 0
  BY DEF MainInit, Init, T!Init
<1>3. ASSUME NEW u \in Later PROVE ToCome(u) /\ DayOf[u] >= progress
  <2>1. u \in Tray /\ u \notin Waiting0 /\ \A m \in Machines : u \notin ToSet(Lane(Loaded(m)))
    BY DEF Later
  <2>2. ioo[u] = -1
    BY <1>1, <2>1 DEF Init
  <2>3. OnMachine(u) = {}
    BY <1>1, <2>1 DEF Init, OnMachine
  <2>4. Booked(u) = {}
    <3>1. \A m \in Machines : u \notin OnSite(m)
      BY <1>3, LaterThanSite
    <3>2. \A p \in DOMAIN JOP : u \notin JOP[p]
      BY <1>1, <2>1, <3>1 DEF Init, MachinesOf
    <3> QED
      BY <3>2 DEF Booked
  <2> QED
    BY <1>2, <2>1, <2>2, <2>3, <2>4, PlannerAssumption DEF ToCome
<1> QED
  BY <1>1, <1>2, <1>3 DEF MainInv, HandedOverOnce

\* refresh() reads in a day: the trays of that day, all of them to come, are no
\* longer to be read in.
LEMMA FillKeeps ==
    ASSUME MainInv, Fill
    PROVE  /\ HandedOverOnce'
           /\ progress' \in Nat /\ \A u \in fetched' : DayOf[u] < progress'
<1> USE DEF HandedOverOnce
<1>1. progress' = progress + 1 /\ fetched' = fetched \cup T!Required(progress)
  BY DEF Fill, T!Fill
<1>2. T!Required(progress) = {u \in Later : DayOf[u] = progress}
  BY LaterThanSite DEF T!Required
<1>3. \A u : ToCome(u)' <=> ToCome(u)
  BY DEF Fill, simVars, ToCome, OnMachine, Booked
<1>4. \A u \in Later : DayOf[u] \in Nat
  BY PlannerAssumption DEF Later
<1>5. progress \in Nat /\ fetched \subseteq Later
      /\ \A u \in fetched : DayOf[u] < progress
  BY DEF MainInv
<1>a. \A u \in Later : (ToCome(u) <=> u \in fetched \/ DayOf[u] >= progress)
  BY DEF MainInv
<1>6. \A u \in Later : DayOf[u] >= progress <=> DayOf[u] = progress \/ DayOf[u] >= progress + 1
  BY <1>4, <1>5
<1>7. fetched' \subseteq Later
  BY <1>1, <1>2, <1>5
<1>8. ASSUME NEW u \in Later PROVE ToCome(u)' <=> u \in fetched' \/ DayOf[u] >= progress'
  <2>1. u \in fetched' <=> u \in fetched \/ DayOf[u] = progress
    <3>1. u \in T!Required(progress) <=> DayOf[u] = progress
      BY <1>2
    <3>2. u \in fetched' <=> u \in fetched \/ u \in T!Required(progress)
      BY <1>1, Zenon
    <3> QED
      BY <3>1, <3>2
  <2>2. ToCome(u) <=> u \in fetched \/ DayOf[u] >= progress
    BY <1>a
  <2>3. ToCome(u)' <=> ToCome(u)
    BY <1>3
  <2>4. DayOf[u] >= progress <=> DayOf[u] = progress \/ DayOf[u] >= progress'
    BY <1>1, <1>6
  <2> QED
    BY <2>1, <2>2, <2>3, <2>4
<1>9. \A u \in fetched' : DayOf[u] < progress'
  BY <1>1, <1>2, <1>4, <1>5
<1> QED
  BY <1>1, <1>5, <1>7, <1>8, <1>9

\* What was read in is handed over: it waits from then on.
LEMMA PlanKeeps ==
    ASSUME MainInv, Plan
    PROVE  HandedOverOnce' /\ progress' = progress /\ fetched' = {}
<1> USE DEF HandedOverOnce
<1>1. PICK c, online : Call(fetched, c, online)
  BY DEF Plan
<1>2. progress' = progress /\ fetched' = {}
  BY DEF Plan, taskVars
<1>3. /\ DOMAIN JOP = Process \cup {-1} /\ DOMAIN JOP' = Process \cup {-1}
      /\ JOP'[-1] = JOP[-1] \cup fetched
      /\ \A p \in Process : JOP'[p] = JOP[p]
      /\ ioo' = ioo
  <2>1. -1 \notin Process
    BY DEF Process
  <2> QED
    BY <1>1, <2>1 DEF Call, MainInv, BooksInv, IInv, TypeOK
<1>4. \A u : Booked(u)' = IF u \in fetched THEN Booked(u) \cup {-1} ELSE Booked(u)
  BY <1>3 DEF Booked
<1>5. \A u : OnMachine(u)' = OnMachine(u)
  <2>1. \A m \in Machines : mach'[m] \in {mach[m], [mach[m] EXCEPT !.state = "S_ONLINE"]}
    BY <1>1 DEF Call
  <2>2. ASSUME NEW m \in Machines PROVE Lane(mach'[m]) = Lane(mach[m])
    <3>1. mach[m] \in MachineRecord
      BY DEF MainInv, BooksInv, IInv, TypeOK
    <3>2. CASE mach'[m] = [mach[m] EXCEPT !.state = "S_ONLINE"]
      <4>1. /\ mach'[m].input = mach[m].input /\ mach'[m].model = mach[m].model
            /\ mach'[m].output = mach[m].output
        BY <3>1, <3>2, OnlyState
      <4> QED
        BY <4>1 DEF Lane
    <3> QED
      BY <2>1, <3>2
  <2> QED
    BY <2>2 DEF OnMachine
<1>6. \A u : ToCome(u)' <=> ToCome(u) /\ u \notin fetched
  BY <1>3, <1>4, <1>5 DEF ToCome
<1>7. /\ \A u \in Later : ToCome(u) <=> u \in fetched \/ DayOf[u] >= progress
      /\ \A u \in fetched : DayOf[u] < progress
      /\ progress \in Nat /\ \A u \in Later : DayOf[u] \in Nat
  BY PlannerAssumption DEF MainInv, Later
<1>8. \A u \in Later : ToCome(u) /\ u \notin fetched <=> DayOf[u] >= progress
  BY <1>7 DEF MainInv
<1> QED
  BY <1>2, <1>6, <1>8

\* Between two calls the simulator does nothing.
LEMMA StepMain == ASSUME RoutesMeet PROVE MainInv /\ CallInv /\ [MainNext]_mainVars => MainInv'
<1> SUFFICES ASSUME MainInv, CallInv, [MainNext]_mainVars PROVE MainInv'
  OBVIOUS
<1>1. BooksInv'
  BY StepCalls, StepBooks DEF MainInv
<1>2. CASE Count \/ NoMoreDays \/ Merge \/ Return \/ Exit \/ UNCHANGED mainVars
  <2>1. /\ UNCHANGED <<simVars, fetched, progress>>
        /\ stage' = stage \/ stage' \in {"window", "merge", "plan", "done", "count", "exit"}
        /\ stage' = "count" \/ stage' = "exit" => stage \in {"simulate", stage'}
        /\ stage' = "count" => pc = "idle"
        /\ stage' \in {"window", "merge", "plan", "done"} => stage \notin {"simulate", "exit"}
    BY <1>2 DEF Count, NoMoreDays, Merge, Return, Exit, mainVars, taskVars,
                T!Count, T!NoMoreDays, T!Merge, MainInv
  <2>2. \A u : ToCome(u)' <=> ToCome(u)
    BY <2>1 DEF simVars, ToCome, OnMachine, Booked
  <2>3. HandedOverOnce'
    BY <2>1, <2>2 DEF MainInv, HandedOverOnce
  <2> QED
    BY <1>1, <2>1, <2>3 DEF MainInv, simVars
<1>3. CASE Fill
  <2>1. UNCHANGED simVars /\ stage = "window" /\ stage' \in {"window", "merge"}
    BY <1>3 DEF Fill, T!Fill, MainInv
  <2> QED
    BY <1>1, <1>3, <2>1, FillKeeps DEF MainInv, simVars
<1>4. CASE Plan
  <2>1. stage' = "simulate"
    BY <1>4 DEF Plan
  <2> QED
    BY <1>1, <1>4, <2>1, PlanKeeps DEF MainInv
<1>5. CASE Run
  <2>1. stage = "simulate" /\ UNCHANGED <<fetched, taskVars, stage>> /\ (Setup \/ Simulate)
    BY <1>5 DEF Run
  <2>2. \A u \in Tray : ToCome(u)' <=> ToCome(u)
    BY <1>1, <2>1, StepsKeepBooks DEF MainInv
  <2>3. HandedOverOnce'
    BY <2>1, <2>2 DEF MainInv, HandedOverOnce, taskVars, Later
  <2> QED
    BY <1>1, <2>1, <2>3 DEF MainInv, taskVars
<1> QED
  BY <1>2, <1>3, <1>4, <1>5 DEF MainNext

\* For every plant, site and list of requirements: no tray is lost between
\* refresh() and the simulator, and none is handed over twice.
THEOREM EveryTrayIsHandedOver ==
    ASSUME SiteIsSound, RoutesMeet PROVE MainSpec => []HandedOverOnce
<1>1. MainInit => MainInv
  BY InitMain
<1>2. MainInv /\ CallInv /\ [MainNext]_mainVars => MainInv'
  BY StepMain
<1>3. MainInv => HandedOverOnce
  BY DEF MainInv
<1> QED
  BY <1>1, <1>2, <1>3, InitCalls, StepCalls, PTL DEF MainSpec

-----------------------------------------------------------------------------
(* The line as refresh() sees it. *)

\* For refresh() a tray is on the line when it is in the books or was read in.
OnTheLine == UNION {jop[p] : p \in DOMAIN jop}

LEMMA UnionOfBooks ==
    ASSUME NEW books, -1 \in DOMAIN books, NEW S, NEW entered,
           entered = [books EXCEPT ![-1] = @ \cup S]
    PROVE  UNION {entered[p] : p \in DOMAIN entered} = (UNION {books[p] : p \in DOMAIN books}) \cup S
<1>1. DOMAIN entered = DOMAIN books
  OBVIOUS
<1>2. \A p \in DOMAIN books : entered[p] = IF p = -1 THEN books[p] \cup S ELSE books[p]
  OBVIOUS
<1>3. ASSUME NEW u
      PROVE  (\E p \in DOMAIN entered : u \in entered[p])
                <=> (\E p \in DOMAIN books : u \in books[p]) \/ u \in S
  BY <1>1, <1>2
<1> DEFINE before == UNION {books[p] : p \in DOMAIN books}
           after == UNION {entered[p] : p \in DOMAIN entered}
<1>4. ASSUME NEW u
      PROVE  /\ u \in before <=> \E p \in DOMAIN books : u \in books[p]
             /\ u \in after <=> \E p \in DOMAIN entered : u \in entered[p]
  OBVIOUS
<1>5. after = before \cup S
  <2> HIDE DEF before, after
  <2> QED
    BY <1>3, <1>4
<1> QED
  BY <1>5

LEMMA OnTheLineIs ==
    ASSUME MainInv, MainInv'
    PROVE  OnTheLine = InBooks \cup fetched /\ OnTheLine' = InBooks' \cup fetched'
<1>1. -1 \in DOMAIN JOP /\ -1 \in DOMAIN JOP'
  BY DEF MainInv, BooksInv, IInv, TypeOK
<1>2. OnTheLine = InBooks \cup fetched
  <2>1. jop = [JOP EXCEPT ![-1] = @ \cup fetched]
    BY DEF jop
  <2> QED
    BY <1>1, <2>1, UnionOfBooks DEF OnTheLine, InBooks
<1>3. OnTheLine' = InBooks' \cup fetched'
  <2>1. jop' = [JOP' EXCEPT ![-1] = @ \cup fetched']
    BY DEF jop
  <2> QED
    BY <1>1, <2>1, UnionOfBooks DEF OnTheLine, InBooks
<1> QED
  BY <1>2, <1>3

\* A step of the simulator is, to refresh(), one that ships a tray or nothing.
LEMMA RunShips ==
    ASSUME RoutesMeet, MainInv, MainInv', Run
    PROVE  (\E u \in Tray : T!Ship(u)) \/ UNCHANGED T!vars
<1>1. /\ stage = "simulate" /\ stage' = "simulate" /\ (Setup \/ Simulate)
      /\ UNCHANGED <<gTasks, tasks, progress, idle>>
      /\ fetched = {} /\ fetched' = {}
  BY DEF Run, MainInv, taskVars
<1>2. OnTheLine = InBooks /\ OnTheLine' = InBooks'
  BY <1>1, OnTheLineIs
<1>3. InBooks' = InBooks \/ \E u \in Tray : u \in InBooks /\ InBooks' = InBooks \ {u}
  BY <1>1, StepsKeepBooks DEF MainInv
<1>4. CASE InBooks' = InBooks
  BY <1>1, <1>2, <1>4 DEF T!vars, OnTheLine
<1>5. ASSUME NEW u \in Tray, u \in InBooks, InBooks' = InBooks \ {u} PROVE T!Ship(u)
  BY <1>1, <1>2, <1>5 DEF T!Ship, OnTheLine
<1> QED
  BY <1>3, <1>4, <1>5

\* What was read in is on the line already, handed over or not.
LEMMA PlanIsNothing ==
    ASSUME MainInv, MainInv', Plan
    PROVE  UNCHANGED T!vars
<1>1. PICK c, online : Call(fetched, c, online)
  BY DEF Plan
<1>2. /\ stage = "plan" /\ stage' = "simulate" /\ fetched' = {}
      /\ UNCHANGED <<gTasks, tasks, progress, idle>>
  BY DEF Plan, taskVars
<1>3. -1 \in DOMAIN JOP /\ JOP' = [JOP EXCEPT ![-1] = @ \cup fetched]
  <2>1. -1 \in DOMAIN JOP
    BY DEF MainInv, BooksInv, IInv, TypeOK
  <2>2. JOP' = [JOP EXCEPT ![-1] = @ \cup fetched]
    BY <1>1 DEF Call
  <2> QED
    BY <2>1, <2>2
<1>4. InBooks' = InBooks \cup fetched
  <2>1. UNION {JOP'[p] : p \in DOMAIN JOP'} = (UNION {JOP[p] : p \in DOMAIN JOP}) \cup fetched
    BY ONLY <1>3, UnionOfBooks
  <2> QED
    BY <2>1 DEF InBooks
<1>5. OnTheLine' = OnTheLine
  BY <1>2, <1>4, OnTheLineIs
<1> QED
  BY <1>2, <1>5 DEF T!vars, OnTheLine

LEMMA StepTasks ==
    ASSUME RoutesMeet, MainInv, MainInv', [MainNext]_mainVars PROVE [T!Next]_(T!vars)
<1>1. CASE Count \/ NoMoreDays \/ Fill \/ Merge
  BY <1>1 DEF Count, NoMoreDays, Fill, Merge, T!Next
<1>2. CASE Plan
  BY <1>2, PlanIsNothing
<1>3. CASE Run
  BY <1>3, RunShips DEF T!Next
<1>4. CASE Return \/ Exit \/ UNCHANGED mainVars
  <2>1. /\ UNCHANGED <<simVars, fetched, gTasks, tasks, progress, idle>>
        /\ OnTheLine' = OnTheLine
    BY <1>4 DEF Return, Exit, mainVars, taskVars, simVars, OnTheLine, jop
  <2>2. CASE Return
    BY <2>1, <2>2 DEF Return, T!Return, T!Next, OnTheLine
  <2>3. CASE Exit \/ UNCHANGED mainVars
    BY <2>1, <2>3 DEF Exit, mainVars, T!vars, OnTheLine
  <2> QED
    BY <1>4, <2>2, <2>3
<1> QED
  BY <1>1, <1>2, <1>3, <1>4 DEF MainNext

\* For every plant, site and list of requirements: refresh() sees the line as
\* Tasks describes it, whatever the planner and the simulator do between two
\* refreshes.
THEOREM MainRefreshes ==
    ASSUME SiteIsSound, RoutesMeet PROVE MainSpec => ImplementsTasks
<1>1. MainInit => MainInv /\ T!Init
  BY InitMain DEF MainInit
<1>2. MainInv /\ CallInv /\ [MainNext]_mainVars => MainInv'
  BY StepMain
<1>3. MainInv /\ MainInv' /\ [MainNext]_mainVars => [T!Next]_(T!vars)
  BY StepTasks
<1> QED
  BY <1>1, <1>2, <1>3, InitCalls, StepCalls, PTL DEF MainSpec, ImplementsTasks, T!Spec

-----------------------------------------------------------------------------
(* What is proved of the simulator and of refresh() holds in the program. *)

\* What is proved of Tasks, of refresh() as main calls it.
R == INSTANCE TasksProofs WITH
    jop <- UNION {jop[p] : p \in DOMAIN jop},
    SiteTray <- UNION {OnSite(m) : m \in Machines},
    pc <- IF stage \in {"plan", "simulate", "exit"} THEN "run" ELSE stage

\* The trays, the days and the site are what Tasks takes.
LEMMA TasksApply == R!TasksAssumption
<1>1. IsFiniteSet(Tray)
  BY PlantAssumption, LenProperties, FS_Interval DEF Tray
<1>a. R!IsFiniteSet(Tray)
  BY <1>1, Zenon DEF IsFiniteSet, R!IsFiniteSet
<1>2. ModelOf \in [Tray -> Model]
  BY PlantAssumption, LenProperties, TrayType DEF Tray
<1>3. DayOf \in [Tray -> R!Day]
  BY PlannerAssumption, SchedulerAssumption DEF R!Day
<1>4. ASSUME NEW m \in Machines PROVE OnSite(m) \subseteq Tray
  <2>1. Site[m] \in SiteRecord
    BY <1>4, PlantAssumption
  <2>2. Site[m].input \in Seq(Tray) /\ Site[m].producting \in Seq(Tray) /\ Site[m].output \in Seq(Tray)
    BY <2>1 DEF SiteRecord
  <2>3. Site[m].input \o Site[m].producting \o Site[m].output \in Seq(Tray)
    BY <2>2
  <2>4. \A s \in Seq(Tray) : ToSet(s) \subseteq Tray
    BY DEF ToSet
  <2> QED
    BY <2>3, <2>4 DEF OnSite
<1>5. UNION {OnSite(m) : m \in Machines} \subseteq Tray
  BY <1>4
<1>6. NumDays \in Nat /\ WindowPhase \in Nat /\ MaxPrefetch \in Nat
  BY SchedulerAssumption
<1> QED
  BY <1>a, <1>2, <1>3, <1>5, <1>6 DEF R!TasksAssumption

\* It is the Tasks of main.
LEMMA SameTasks == (T!Init <=> R!Init) /\ ([T!Next]_(T!vars) <=> [R!Next]_(R!vars))
<1>n. \A S : T!Cardinality(S) = R!Cardinality(S)
  BY Zenon DEF T!Cardinality, R!Cardinality
<1>a. \A t : T!OnLine(t) = R!OnLine(t)
  BY DEF T!OnLine, R!OnLine
<1>b. \A d : T!Required(d) = R!Required(d)
  BY DEF T!Required, R!Required
<1>c. \A d, t : T!RequiredOf(d, t) = R!RequiredOf(d, t)
  BY <1>b DEF T!RequiredOf, R!RequiredOf
<1>1. T!Init <=> R!Init
  <2>1. [t \in Model |-> T!Cardinality(T!OnLine(t))] = [t \in Model |-> R!Cardinality(R!OnLine(t))]
    BY <1>a, <1>n
  <2> QED
    BY <2>1 DEF T!Init, R!Init
<1>2. T!vars = R!vars /\ T!vars' = R!vars'
  BY DEF T!vars, R!vars
<1>3. T!Count <=> R!Count
  <2>1. [t \in Model |-> IF gTasks[t] > 0 THEN T!Cardinality(T!OnLine(t)) ELSE 0]
           = [t \in Model |-> IF gTasks[t] > 0 THEN R!Cardinality(R!OnLine(t)) ELSE 0]
    BY <1>a, <1>n
  <2> QED
    BY <2>1 DEF T!Count, R!Count
<1>4. T!WindowFull <=> R!WindowFull
  BY DEF T!WindowFull, R!WindowFull, T!Span, R!Span
<1>5. T!NoMoreDays <=> R!NoMoreDays
  BY <1>4 DEF T!NoMoreDays, R!NoMoreDays
<1>6. T!Fill <=> R!Fill
  <2>1. [t \in Model |-> tasks[t] + T!Cardinality(T!RequiredOf(progress, t))]
           = [t \in Model |-> tasks[t] + R!Cardinality(R!RequiredOf(progress, t))]
    BY <1>c, <1>n
  <2> QED
    BY <1>4, <1>b, <2>1 DEF T!Fill, R!Fill, T!Nothing, R!Nothing
<1>7. T!Merge <=> R!Merge
  BY DEF T!Merge, R!Merge, T!Nothing, R!Nothing
<1>8. \A u : T!Ship(u) <=> R!Ship(u)
  BY DEF T!Ship, R!Ship
<1>9. T!Return <=> R!Return
  BY DEF T!Return, R!Return
<1> QED
  BY <1>1, <1>2, <1>3, <1>5, <1>6, <1>7, <1>8, <1>9 DEF T!Next, R!Next

LEMMA MainRefreshesSo == ASSUME SiteIsSound, RoutesMeet PROVE MainSpec => R!Spec
BY SameTasks, MainRefreshes, PTL DEF ImplementsTasks, T!Spec, R!Spec

\* No model with trays on the line is ever without a task when the planner goes
\* over the tasks.
THEOREM NoModelIsForgotten ==
    ASSUME SiteIsSound, RoutesMeet PROVE MainSpec => []T!EveryModelHasTask
<1>1. R!Spec => []R!EveryModelHasTask
  BY TasksApply, R!NoModelForgotten
<1>2. R!EveryModelHasTask <=> T!EveryModelHasTask
  BY DEF R!EveryModelHasTask, T!EveryModelHasTask
<1> QED
  BY <1>1, <1>2, MainRefreshesSo, PTL

\* When something is required every day: of what is ordered nothing is lost and
\* nothing is delivered twice, by the whole program, and it ends of its own only
\* when everything is delivered.
THEOREM MainDelivers ==
    ASSUME SiteIsSound, RoutesMeet, T!NoHoliday PROVE MainSpec => ImplementsOrders
<1>1. R!NoHoliday
  BY DEF T!NoHoliday, R!NoHoliday, T!Day, R!Day, T!Required, R!Required
<1>2. R!Spec => R!O!Spec
  BY <1>1, TasksApply, R!TasksImplementOrders DEF R!ImplementsOrders
<1>3. T!Outstanding = R!Outstanding /\ T!Outstanding' = R!Outstanding'
  BY DEF T!Outstanding, R!Outstanding
<1>4. T!O!Init <=> R!O!Init
  BY <1>3 DEF T!O!Init, R!O!Init
<1> DEFINE stopped == (IF stage \in {"plan", "simulate", "exit"} THEN "run" ELSE stage) = "done"
<1>5. [T!O!Next]_<<T!Outstanding, stopped>> <=> [R!O!Next]_<<R!Outstanding, stopped>>
  BY <1>3 DEF T!O!Next, R!O!Next, T!O!Stop, R!O!Stop, T!O!Deliver, R!O!Deliver
<1> QED
  BY <1>2, <1>4, <1>5, MainRefreshesSo, PTL DEF ImplementsOrders, T!O!Spec, R!O!Spec

\* The books of the program and its floor agree, and where every machine makes
\* what its process needs no simulation fails.
THEOREM MainKeepsBooks ==
    ASSUME SiteIsSound, RoutesMeet PROVE MainSpec => []BooksMatchFloor
<1> QED
  BY MainIsACaller, BooksAlwaysMatch, PTL DEF ImplementsSimulator

THEOREM MainNeverAborts ==
    ASSUME SiteIsSound, Fitting = Machines PROVE MainSpec => []NeverAborts
<1> QED
  BY MainIsACaller, SimulatorNeverAborts, PTL DEF ImplementsSimulator

-----------------------------------------------------------------------------
(* The end of the line, and the time to give up. *)

\* Of finitely many numbers one is the greatest.
LEMMA MaxOfFinite ==
    ASSUME NEW S, S \subseteq Int, S # {}, IsFiniteSet(S)
    PROVE  Max(S) \in S /\ \A x \in S : Max(S) >= x
<1> DEFINE HasMax(Part) == \E x \in Part : \A y \in Part : x >= y
           n == Cardinality(S)
           Sizes == {k \in 0..n : \A Part \in SUBSET S : Part # {} /\ Cardinality(Part) = k => HasMax(Part)}
<1>1. n \in Nat
  BY FS_CardinalityType
<1>2. \A Part \in SUBSET S : IsFiniteSet(Part) /\ Cardinality(Part) \in Nat
  BY FS_Subset, FS_CardinalityType
<1>3. 0 \in Sizes
  BY <1>1, <1>2, FS_EmptySet
<1>4. ASSUME NEW k \in 0..n - 1, k \in Sizes PROVE k + 1 \in Sizes
  <2> SUFFICES ASSUME NEW Part \in SUBSET S, Part # {}, Cardinality(Part) = k + 1 PROVE HasMax(Part)
    BY <1>1, <1>4
  <2>1. PICK x \in Part : TRUE
    OBVIOUS
  <2>2. Part \ {x} \in SUBSET S /\ Cardinality(Part \ {x}) = k
    BY <1>1, <1>2, <1>4, FS_RemoveElement
  <2>3. CASE Part \ {x} = {}
    <3>1. \A y \in Part : x >= y
      BY <2>1, <2>3
    <3> QED
      BY <2>1, <3>1
  <2>4. CASE Part \ {x} # {}
    <3>1. PICK z \in Part \ {x} : \A y \in Part \ {x} : z >= y
      BY <1>4, <2>2, <2>4
    <3>2. x \in Int /\ \A y \in Part : y \in Int
      BY <2>1
    <3>3. CASE z >= x
      <4>1. \A y \in Part : z >= y
        BY <3>1, <3>3
      <4> QED
        BY <3>1, <4>1
    <3>4. CASE x > z
      <4>1. \A y \in Part : x >= y
        BY <3>1, <3>2, <3>4
      <4> QED
        BY <2>1, <4>1
    <3> QED
      BY <3>1, <3>2, <3>3, <3>4
  <2> QED
    BY <2>3, <2>4
<1> HIDE DEF Sizes
<1>5. n \in Sizes
  BY <1>1, <1>3, <1>4, CountUp
<1>6. HasMax(S)
  BY <1>5 DEF Sizes
<1> QED
  BY <1>6 DEF Max

\* No change-over takes longer than LongestChange, no work longer than LongestWork.
LEMMA Longest ==
    /\ LongestChange \in Nat /\ LongestWork \in Nat
    /\ \A m \in Machines, s \in Model, t \in Model :
          COCost[m][s][t] \in Nat /\ COCost[m][s][t] <= LongestChange
    /\ \A m \in Machines, t \in Model : WorkTime(m, t) \in Int /\ WorkTime(m, t) <= LongestWork
<1>1. IsFiniteSet(Machines) /\ IsFiniteSet(Model)
  BY PlantAssumption, SchedulerAssumption, FS_Interval DEF Machines
<1>2. \A m \in Machines, s \in Model, t \in Model : COCost[m][s][t] \in Nat
  BY PlantAssumption
<1>3. \A m \in Machines, t \in Model : WorkTime(m, t) \in Int
  BY PlantAssumption DEF WorkTime, ClockOf
<1>4. LongestChange \in Nat /\ \A m \in Machines, s \in Model, t \in Model :
                                  COCost[m][s][t] <= LongestChange
  <2> DEFINE Costs == {COCost[m][s][t] : m \in Machines, s \in Model, t \in Model}
             K == Machines \X (Model \X Model)
             f == [k \in K |-> COCost[k[1]][k[2][1]][k[2][2]]]
  <2>1. IsFiniteSet(K)
    BY <1>1, FS_Product
  <2>2. f \in Surjection(K, Costs)
    <3>1. \A k \in K : f[k] \in Costs
      OBVIOUS
    <3>2. ASSUME NEW c \in Costs PROVE \E k \in K : f[k] = c
      <4>1. PICK m \in Machines, s \in Model, t \in Model : c = COCost[m][s][t]
        OBVIOUS
      <4>2. <<m, <<s, t>>>> \in K /\ f[<<m, <<s, t>>>>] = c
        BY <4>1
      <4> QED
        BY <4>2
    <3> HIDE DEF Costs, K
    <3> QED
      BY <3>1, <3>2 DEF Surjection
  <2>3. IsFiniteSet(Costs)
    <3> HIDE DEF Costs, K, f
    <3> QED
      BY <2>1, <2>2, FS_Surjection
  <2>4. Costs \subseteq Nat
    BY <1>2
  <2> DEFINE S == {0} \cup Costs
  <2>5. IsFiniteSet(S) /\ S \subseteq Int /\ S # {} /\ 0 \in S /\ \A x \in S : x \in Nat
    <3> HIDE DEF Costs
    <3>1. IsFiniteSet({0})
      BY FS_Singleton
    <3>2. IsFiniteSet(S)
      BY <2>3, <3>1, FS_Union
    <3> QED
      BY <2>4, <3>2
  <2>6. LongestChange = Max(S)
    BY DEF LongestChange
  <2>7. \A m \in Machines, s \in Model, t \in Model : COCost[m][s][t] \in S
    OBVIOUS
  <2> HIDE DEF S
  <2>8. Max(S) \in S /\ \A x \in S : Max(S) >= x
    BY <2>5, MaxOfFinite
  <2> QED
    BY <2>5, <2>6, <2>7, <2>8
<1>5. LongestWork \in Nat /\ \A m \in Machines, t \in Model : WorkTime(m, t) <= LongestWork
  <2> DEFINE Times == {WorkTime(m, t) : m \in Machines, t \in Model}
             K == Machines \X Model
             f == [k \in K |-> WorkTime(k[1], k[2])]
  <2>1. IsFiniteSet(K)
    BY <1>1, FS_Product
  <2>2. f \in Surjection(K, Times)
    <3>1. \A k \in K : f[k] \in Times
      OBVIOUS
    <3>2. ASSUME NEW c \in Times PROVE \E k \in K : f[k] = c
      <4>1. PICK m \in Machines, t \in Model : c = WorkTime(m, t)
        OBVIOUS
      <4>2. <<m, t>> \in K /\ f[<<m, t>>] = c
        BY <4>1
      <4> QED
        BY <4>2
    <3> HIDE DEF Times, K
    <3> QED
      BY <3>1, <3>2 DEF Surjection
  <2>3. IsFiniteSet(Times)
    <3> HIDE DEF Times, K, f
    <3> QED
      BY <2>1, <2>2, FS_Surjection
  <2>4. Times \subseteq Int
    BY <1>3
  <2> DEFINE S == {0} \cup Times
  <2>5. IsFiniteSet(S) /\ S \subseteq Int /\ S # {} /\ 0 \in S
    <3> HIDE DEF Times
    <3>1. IsFiniteSet({0})
      BY FS_Singleton
    <3>2. IsFiniteSet(S)
      BY <2>3, <3>1, FS_Union
    <3> QED
      BY <2>4, <3>2
  <2>6. LongestWork = Max(S)
    BY DEF LongestWork
  <2>7. \A m \in Machines, t \in Model : WorkTime(m, t) \in S
    OBVIOUS
  <2> HIDE DEF S
  <2>8. Max(S) \in S /\ \A x \in S : Max(S) >= x
    BY <2>5, MaxOfFinite
  <2> QED
    <3>1. Max(S) \in Int /\ Max(S) >= 0
      BY <2>5, <2>8
    <3>2. \A m \in Machines, t \in Model : WorkTime(m, t) <= Max(S)
      BY <1>3, <2>7, <2>8, <3>1
    <3> QED
      BY <2>6, <3>1, <3>2
<1> QED
  BY <1>2, <1>3, <1>4, <1>5

\* The machines of the last process.
Ends == MachinesOf(NumProcesses - 1)

\* What they finish leaves the line in the same visit, so none of them is ever
\* blocked; and every second begins with the first of them.
EndInv ==
    /\ pc \in {"idle", "setup", "book", "tick"} => current = FirstVisited
    /\ \A m \in Ends :
          /\ mach[m].status # "MS_BLOCKING"
          /\ mach[m].output # <<>> =>
                /\ pc = "ship" /\ current = m /\ Len(mach[m].output) = 1
                /\ mach[m].status = "MS_IDLE" /\ mach[m].toIdle = realTime
                /\ lastJobReleaseTime = realTime

\* Machine f has been visited in this second, unless the second is cut short.
Seen(f) ==
    \/ pc = "tick" /\ working
    \/ /\ pc \in {"feed", "work", "ship"}
       /\ current \notin Ends \/ current > f \/ (current = f /\ pc = "ship")

LEMMA EndsType == Ends \subseteq Machines /\ FirstVisited \in Ends /\ \A m \in Ends : FirstVisited <= m
BY MachinesType, FirstOfType DEF Ends, MachinesOf, FirstVisited

\* Of a tray at the end of the line the route ends there.
LEMMA AtTheEnd ==
    ASSUME TypeOK, BooksMatchFloor, NEW m \in Ends, mach[m].output # <<>>
    PROVE  AtFinalProcess(m)
<1>1. m \in Machines /\ ProcessOf[m] = NumProcesses - 1
  BY DEF Ends, MachinesOf
<1>2. mach[m].output \in Seq(Tray)
  BY <1>1 DEF TypeOK, MachineRecord
<1> DEFINE u == Head(mach[m].output)
<1>3. u \in Tray /\ u \in ToSet(mach[m].output)
  <2>1. 1 \in 1..Len(mach[m].output) /\ u = mach[m].output[1]
    BY <1>2, EmptySeq, LenProperties
  <2> QED
    BY <1>2, <2>1, LenProperties DEF ToSet
<1>4. IsOn(u, m)
  <2>1. mach[m] \in MachineRecord
    BY <1>1 DEF TypeOK
  <2> HIDE DEF u
  <2> QED
    BY <1>1, <1>3, <2>1, LaneOf, OnFloor
<1> DEFINE route == Route[ModelOf[u]]
<1>5. ioo[u] + 1 \in 1..Len(route) /\ route[ioo[u] + 1] = NumProcesses - 1
  BY <1>1, <1>4 DEF IsOn
<1>6. Len(route) \in Nat \ {0} /\ Len(route) \in 1..Len(route)
  BY <1>3, TrayType
<1>7. ioo[u] + 1 = Len(route)
  <2>1. ioo[u] + 1 < Len(route) => route[ioo[u] + 1] < route[Len(route)]
    BY <1>3, <1>5, <1>6, RouteRises
  <2>2. route[Len(route)] \in 0..NumProcesses - 1
    BY <1>3, <1>6, RouteRises DEF Process
  <2>3. NumProcesses \in Nat
    BY PlantAssumption
  <2> HIDE DEF route
  <2> QED
    BY <1>5, <1>6, <2>1, <2>2, <2>3
<1>8. route[Len(route)] = ProcessOf[m]
  BY <1>1, <1>5, <1>7
<1> HIDE DEF u
<1> QED
  BY <1>1, <1>8 DEF AtFinalProcess, FinalProcess, Last, u

\* What shipping does to the machines at the end: a finished tray leaves.
LEMMA ShipEnds ==
    ASSUME RoutesMeet, BooksInv, EndInv, ShipOut \/ ShipOn \/ ShipNothing
    PROVE  /\ pc = "ship" /\ \E out \in BOOLEAN : GoOn(working', out)
           /\ UNCHANGED <<realTime, count, book, lastJobReleaseTime>>
           /\ \A m \in Ends :
                 /\ mach'[m].output = <<>>
                 /\ mach'[m].state = mach[m].state /\ mach'[m].status = mach[m].status
                 /\ mach'[m].changeStatus = mach[m].changeStatus
                 /\ \/ mach'[m].toIdle = mach[m].toIdle
                    \/ mach[m].output # <<>> /\ mach'[m].toIdle = mach[m].toIdle + Offset
<1>0. TypeOK /\ BooksMatchFloor
  BY DEF BooksInv, IInv
<1>a. ASSUME NEW best \in Best(current), current \in Ends, mach[current].output # <<>>
      PROVE  best = current
  <2>1. best \in Ends /\ mach[best].output # <<>>
    BY <1>0, <1>a, BestType DEF Ends, MachinesOf
  <2> QED
    BY <2>1 DEF EndInv
<1>b. ASSUME NEW best \in Best(current), best \in Ends PROVE best = current /\ mach[best].output # <<>>
  <2>1. mach[best].output # <<>>
    BY <1>0, <1>b, BestType
  <2> QED
    BY <1>b, <2>1 DEF EndInv
<1>c. ASSUME NEW m \in Ends, m # current PROVE mach[m].output = <<>>
  <2>1. mach[m].output # <<>> => current = m
    BY Zenon DEF EndInv
  <2> QED
    BY <1>c, <2>1
<1>1. CASE ShipOut
  <2>1. PICK best \in Best(current) :
           AtFinalProcess(best) /\ Move(Head(mach[best].output), best, 1, -1)
    BY <1>1 DEF ShipOut
  <2>2. /\ best \in Machines /\ mach[best].output \in Seq(Tray)
        /\ Head(mach[best].output) = mach[best].output[1] /\ 1 \in 1..Len(mach[best].output)
    BY <1>0, BestType
  <2>3. Moved(best, 1, -1)
    BY <1>0, <2>1, <2>2, MoveEffect
  <2>4. \A n \in Machines : mach'[n].toIdle \in {mach[n].toIdle, mach[n].toIdle + Offset}
                             /\ (n # best => mach'[n].toIdle = mach[n].toIdle)
    <3>1. \E fires \in BOOLEAN :
             mach' = [mach EXCEPT ![best].output = Left(mach[best].output, 1),
                                  ![best].toIdle = IF fires THEN @ + Offset ELSE @]
      BY <2>1, Zenon DEF Move, LastTray
    <3>2. mach \in [Machines -> MachineRecord]
      BY <1>0 DEF TypeOK
    <3> QED
      BY <3>1, <3>2 DEF MachineRecord
  <2>5. ASSUME NEW m \in Ends PROVE mach'[m].output = <<>>
    <3>1. m \in Machines
      BY EndsType
    <3>2. CASE m = best
      <4>1. Len(mach[best].output) = 1
        BY <1>b, <2>1, <3>2 DEF EndInv
      <4>2. Left(mach[best].output, 1) = <<>>
        BY <2>2, <4>1 DEF Left
      <4> QED
        BY <2>3, <3>1, <3>2, <4>2 DEF Moved
    <3>3. CASE m # best
      <4>1. mach[m].output = <<>>
        BY <1>1, <1>a, <1>c, <3>3 DEF ShipOut
      <4> QED
        BY <2>3, <3>1, <3>3, <4>1 DEF Moved
    <3> QED
      BY <3>2, <3>3
  <2>6. /\ pc = "ship" /\ \E out \in BOOLEAN : GoOn(working', out)
        /\ UNCHANGED <<realTime, count, book, lastJobReleaseTime>>
    <3>1. GoOn(working', TRUE)
      BY <2>3, Zenon DEF Moved
    <3> QED
      BY <1>1, <3>1 DEF ShipOut, ShipUnchanged
  <2> QED
    BY <1>b, <2>3, <2>4, <2>5, <2>6, EndsType DEF Moved
<1>2. CASE ShipOn
  <2>1. PICK best \in Best(current) :
           ~AtFinalProcess(best)
           /\ \E k \in Tried(best) : \E to \in IdleFirst(Takers(best, k)) :
                 Move(mach[best].output[k], best, k, to)
    BY <1>2 DEF ShipOn
  <2>k. PICK k \in Tried(best) : \E to \in IdleFirst(Takers(best, k)) :
                                    Move(mach[best].output[k], best, k, to)
    BY <2>1
  <2>2. PICK to \in IdleFirst(Takers(best, k)) : Move(mach[best].output[k], best, k, to)
    BY <2>k
  <2>3. to \in Machines /\ best \in Machines /\ k \in 1..Len(mach[best].output)
    BY <1>0, BestType DEF IdleFirst, Least, Takers, MachinesOf
  <2>4. Moved(best, k, to)
    BY <1>0, <2>2, <2>3, MoveEffect
  <2>5. best \notin Ends
    BY <1>0, <1>b, <2>1, AtTheEnd
  <2>6. \A m \in Ends : mach[m].output = <<>>
    BY <1>2, <1>a, <1>c, <2>5 DEF ShipOn
  <2>7. /\ pc = "ship" /\ \E out \in BOOLEAN : GoOn(working', out)
        /\ UNCHANGED <<realTime, count, book, lastJobReleaseTime>>
    <3>1. GoOn(working', FALSE)
      <4>1. (to = -1) = FALSE
        BY <2>3, MachinesType
      <4> QED
        BY <2>4, <4>1, Zenon DEF Moved
    <3> QED
      BY <1>2, <3>1 DEF ShipOn, ShipUnchanged
  <2>8. ASSUME NEW m \in Ends
        PROVE  /\ mach'[m].output = mach[m].output /\ mach'[m].toIdle = mach[m].toIdle
               /\ mach'[m].state = mach[m].state /\ mach'[m].status = mach[m].status
               /\ mach'[m].changeStatus = mach[m].changeStatus
    <3>1. m \in Machines /\ m # best
      BY <2>5, EndsType
    <3> QED
      BY <2>4, <3>1, Zenon DEF Moved
  <2> QED
    BY <2>6, <2>7, <2>8
<1>3. CASE ShipNothing
  <2>1. \A m \in Ends : mach[m].output = <<>>
    <3>1. ASSUME current \in Ends, mach[current].output # <<>> PROVE FALSE
      <4>1. PICK best \in Best(current) : ~AtFinalProcess(best)
        BY <1>3, <3>1 DEF ShipNothing
      <4>2. best = current
        BY <1>a, <3>1
      <4> QED
        BY <1>0, <3>1, <4>1, <4>2, AtTheEnd
    <3> QED
      BY <1>c, <3>1
  <2> QED
    BY <1>3, <2>1 DEF ShipNothing, ShipUnchanged
<1> QED
  BY <1>1, <1>2, <1>3

\* Until it is its turn, machine f is not passed over in a second that goes on.
LEMMA SeenOn ==
    ASSUME TypeOK, NEW f \in Ends, pc = "ship", NEW out, GoOn(working', out), ~Seen(f)
    PROVE  ~Seen(f)'
<1>1. current \in Ends /\ current < f
  <2>1. current \in Ends /\ ~(current > f) /\ current # f
    BY DEF Seen
  <2>2. current \in Nat /\ f \in Nat
    BY <2>1, EndsType, MachinesType
  <2> QED
    BY <2>1, <2>2
<1>2. current + 1 \in Ends /\ current + 1 <= f
  <2>1. /\ NumMachines \in Nat /\ current \in 0..NumMachines - 1 /\ f \in 0..NumMachines - 1
        /\ ProcessOf[current] = NumProcesses - 1 /\ ProcessOf[f] = NumProcesses - 1
    BY <1>1, PlantAssumption DEF Ends, MachinesOf, Machines
  <2>2. current + 1 \in Machines /\ current \in Machines /\ f \in Machines /\ current + 1 <= f
    BY <1>1, <2>1 DEF Machines
  <2>3. ProcessOf[current] <= ProcessOf[current + 1] /\ ProcessOf[current + 1] <= ProcessOf[f]
    <3>1. current < current + 1 /\ (current + 1 < f \/ current + 1 = f)
      BY <2>1, <2>2
    <3>2. \A m \in Machines : ProcessOf[m] \in Int
      BY PlantAssumption DEF Process
    <3> QED
      BY <2>2, <3>1, <3>2, PlantAssumption
  <2>4. ProcessOf[current + 1] \in Int /\ NumProcesses - 1 \in Int
    BY <2>2, PlantAssumption DEF Process
  <2>5. ProcessOf[current + 1] = NumProcesses - 1
    BY <2>1, <2>3, <2>4
  <2> QED
    BY <2>2, <2>5 DEF Ends, MachinesOf
<1>3. current + 1 \in MachinesOf(ProcessOf[current])
  BY <1>1, <1>2 DEF Ends, MachinesOf
<1>4. \/ pc' = "tick" /\ ~working'
      \/ pc' = "feed" /\ current' = current + 1
  BY <1>3 DEF GoOn
<1>5. ~(current + 1 > f)
  <2>1. f \in Machines /\ current + 1 \in Machines
    BY <1>2, EndsType
  <2>2. \A x, y \in Machines : x <= y => ~(x > y)
    BY MachinesType
  <2> QED
    BY <1>2, <2>1, <2>2
<1> QED
  BY <1>2, <1>4, <1>5 DEF Seen

\* A machine is advanced: nobody else is.
LEMMA BecomesOne ==
    ASSUME TypeOK, pc = "work", NEW r, Becomes(r)
    PROVE  /\ mach'[current] = r /\ \A m \in Machines : m # current => mach'[m] = mach[m]
           /\ current \in Machines /\ mach[current] \in MachineRecord
           /\ pc' = "ship" /\ current' = current
           /\ UNCHANGED <<realTime, count, working, book>>
BY DEF TypeOK, Becomes

\* Of a machine that is advanced without finishing a tray: it blocks, has changed
\* over, begins to change over, or begins to work.
LEMMA Advances ==
    ASSUME IInv, Block \/ CODone \/ StartCO \/ StartWork
    PROVE  LET m == mach[current]
               r == mach'[current]
           IN /\ pc = "work" /\ pc' = "ship" /\ current' = current /\ current \in Machines
              /\ UNCHANGED <<realTime, count, working, book, lastJobReleaseTime>>
              /\ \A n \in Machines : n # current => mach'[n] = mach[n]
              /\ r.state = m.state /\ r.output = m.output
              /\ \/ r.status = "MS_BLOCKING" /\ Len(m.output) >= CapacityOf(current)
                 \/ /\ m.status = "MS_CO" /\ r.status = "MS_IDLE"
                    /\ r.toIdle = m.toIdle /\ r.changeStatus = "COS_KEEP"
                 \/ /\ m.status = "MS_IDLE" /\ m.changeStatus = "COS_GOING" /\ r.status = "MS_CO"
                    /\ realTime <= r.toIdle /\ r.toIdle <= realTime + LongestChange + Offset
                 \/ /\ m.status = "MS_IDLE" /\ r.status = "MS_WORKING"
                    /\ r.toIdle <= realTime + LongestWork
<1> DEFINE m == mach[current]
<1>0. TypeOK /\ pc = "work"
  BY DEF IInv, Block, CODone, StartCO, StartWork
<1>a. current \in Machines /\ m \in MachineRecord /\ MachineOK(m) /\ realTime \in Nat
  BY DEF IInv, TypeOK
<1>b. m.changeStatus \in {"COS_KEEP", "COS_GOING"} /\ m.input \in Seq(Tray)
  BY <1>a DEF MachineRecord
<1>1. CASE Block
  <2> DEFINE r == [m EXCEPT !.status = "MS_BLOCKING"]
  <2>1. Becomes(r) /\ Len(m.output) >= CapacityOf(current) /\ lastJobReleaseTime' = lastJobReleaseTime
    BY <1>1 DEF Block
  <2>2. r.status = "MS_BLOCKING" /\ r.state = m.state /\ r.output = m.output
    BY <1>a DEF MachineRecord
  <2> HIDE DEF r
  <2> QED
    BY <1>0, <2>1, <2>2, BecomesOne
<1>2. CASE CODone
  <2> DEFINE r == [m EXCEPT !.status = "MS_IDLE", !.mode = m.COTarget, !.COTarget = NoModel]
  <2>1. Becomes(r) /\ m.status = "MS_CO" /\ lastJobReleaseTime' = lastJobReleaseTime
    BY <1>2 DEF CODone
  <2>2. /\ r.status = "MS_IDLE" /\ r.state = m.state /\ r.output = m.output
        /\ r.toIdle = m.toIdle /\ r.changeStatus = m.changeStatus
    BY <1>a DEF MachineRecord
  <2>3. m.changeStatus = "COS_KEEP"
    BY <1>a, <1>b, <2>1 DEF MachineOK
  <2> HIDE DEF r
  <2> QED
    BY <1>0, <2>1, <2>2, <2>3, BecomesOne
<1>3. CASE StartCO
  <2> DEFINE cost == COCost[current][m.mode][m.COTarget]
             end == realTime + cost
             to == IF realTime - end < Offset THEN end + Offset ELSE end
             r == [m EXCEPT !.status = "MS_CO", !.changeStatus = "COS_KEEP", !.toIdle = to]
  <2>1. /\ Becomes(r) /\ m.status = "MS_IDLE" /\ m.changeStatus = "COS_GOING"
        /\ lastJobReleaseTime' = lastJobReleaseTime
    BY <1>3 DEF StartCO
  <2>2. m.mode \in Model /\ m.COTarget \in Model
    BY <1>a, <2>1 DEF MachineOK
  <2>3. cost \in Nat /\ cost <= LongestChange
    BY <1>a, <2>2, Longest
  <2>4. realTime <= to /\ to <= realTime + LongestChange + Offset
    <3>1. Offset \in Nat /\ LongestChange \in Nat
      BY PlantAssumption, Longest
    <3> HIDE DEF cost
    <3> QED
      BY <1>a, <2>3, <3>1
  <2> HIDE DEF to
  <2>5. r.status = "MS_CO" /\ r.state = m.state /\ r.output = m.output /\ r.toIdle = to
    BY <1>a DEF MachineRecord
  <2> HIDE DEF r
  <2> QED
    BY <1>0, <2>1, <2>4, <2>5, BecomesOne
<1>4. CASE StartWork
  <2> DEFINE to == realTime + WorkTime(current, ModelOf[Head(m.input)])
             r == [m EXCEPT !.status = "MS_WORKING", !.toIdle = to,
                            !.model = Append(@, Head(m.input)), !.input = Tail(@)]
  <2>1. /\ Becomes(r) /\ m.status = "MS_IDLE" /\ m.input # <<>>
        /\ lastJobReleaseTime' = lastJobReleaseTime
    BY <1>4 DEF StartWork, Workable
  <2>2. ModelOf[Head(m.input)] \in Model
    <3>1. Head(m.input) \in Tray
      BY <1>b, <2>1, EmptySeq, LenProperties
    <3> QED
      BY <3>1, TrayType
  <2>3. to <= realTime + LongestWork
    BY <1>a, <2>2, Longest
  <2> HIDE DEF to
  <2>4. r.status = "MS_WORKING" /\ r.state = m.state /\ r.output = m.output /\ r.toIdle = to
    BY <1>a DEF MachineRecord
  <2> HIDE DEF r
  <2> QED
    BY <1>0, <2>1, <2>3, <2>4, BecomesOne
<1> QED
  BY <1>1, <1>2, <1>3, <1>4

LEMMA InitEnds ==
    ASSUME Init, \A m \in Ends : mach[m].output = <<>>
    PROVE  EndInv
<1>1. \A m \in Ends : m \in Machines /\ mach[m] = Loaded(m)
  BY EndsType DEF Init
<1>2. \A m \in Machines : Loaded(m).status # "MS_BLOCKING"
  BY DEF Loaded
<1> QED
  BY <1>1, <1>2 DEF EndInv, Init

LEMMA StepEnds ==
    ASSUME RoutesMeet, BooksInv, EndInv, [Next]_simVars
    PROVE  EndInv'
<1>0. TypeOK /\ IInv
  BY DEF BooksInv, IInv
<1>e. \A m \in Ends : m \in Machines
  BY EndsType
<1>q. ASSUME pc # "ship",
             \A m \in Ends : mach'[m].status = mach[m].status /\ mach'[m].output = mach[m].output,
             pc' \in {"idle", "setup", "book", "tick"} => current' = FirstVisited
      PROVE  EndInv'
  BY <1>q DEF EndInv
<1>1. ASSUME NEW arrivals \in SUBSET Later, NEW c \in Configurations, NEW online \in BOOLEAN,
             Call(arrivals, c, online)
      PROVE  EndInv'
  <2>1. \A m \in Machines : mach'[m] \in {mach[m], [mach[m] EXCEPT !.state = "S_ONLINE"]}
    BY <1>1 DEF Call
  <2>2. \A m \in Machines : mach[m] \in MachineRecord
    BY <1>0 DEF TypeOK
  <2>3. \A m \in Ends : mach'[m].status = mach[m].status /\ mach'[m].output = mach[m].output
    BY <1>e, <2>1, <2>2 DEF MachineRecord
  <2> QED
    BY <1>1, <1>q, <2>3 DEF Call, EndInv
<1>2. CASE Setup
  <2>1. \A m \in Machines, t \in Model : /\ Configured(m, t).status = mach[m].status
                                         /\ Configured(m, t).output = mach[m].output
    BY <1>0 DEF Configured, TypeOK, MachineRecord
  <2>2. ASSUME NEW m \in Ends
        PROVE  mach'[m].status = mach[m].status /\ mach'[m].output = mach[m].output
    <3>1. mach'[m] = mach[m] \/ \E t \in Model : mach'[m] = Configured(m, t)
      BY <1>2, <1>e DEF Setup
    <3> QED
      BY <1>e, <2>1, <3>1
  <2> QED
    BY <1>2, <1>q, <2>2 DEF Setup, EndInv
<1>3. CASE BookFires
  <2>1. PICK e \in Top : mach' = [mach EXCEPT ![e.target].state =
                                     IF e.type = "SBI_OFF" THEN "S_OFFLINE" ELSE "S_ONLINE"]
    BY <1>3 DEF BookFires
  <2>2. \A m \in Ends : mach'[m].status = mach[m].status /\ mach'[m].output = mach[m].output
    BY <1>0, <1>e, <2>1 DEF TypeOK, MachineRecord
  <2> QED
    BY <1>3, <1>q, <2>2 DEF BookFires, EndInv
<1>4. CASE BookQuiet \/ FeedNothing \/ KeepOn \/ Mismatch \/ Tick
  BY <1>4, <1>q DEF BookQuiet, FeedNothing, KeepOn, Mismatch, Tick, EndInv
<1>5. CASE Feed
  <2>1. \E u : mach' = [mach EXCEPT ![current].input = Append(@, u)]
    BY <1>5 DEF Feed
  <2>2. \A m \in Ends : mach'[m].status = mach[m].status /\ mach'[m].output = mach[m].output
    BY <1>0, <1>e, <2>1 DEF TypeOK, MachineRecord
  <2> QED
    BY <1>5, <1>q, <2>2 DEF Feed, EndInv
<1>6. CASE Finish
  <2> DEFINE m == mach[current]
             r == [m EXCEPT !.output = Append(@, Head(m.model)), !.model = Tail(@),
                            !.toIdle = realTime, !.status = "MS_IDLE"]
  <2>1. pc = "work" /\ Becomes(r)
    BY <1>6 DEF Finish
  <2>2. /\ mach'[current] = r /\ \A n \in Machines : n # current => mach'[n] = mach[n]
        /\ m \in MachineRecord /\ pc' = "ship" /\ current' = current /\ realTime' = realTime
    BY <1>0, <2>1, BecomesOne
  <2>3. \A n \in Ends : mach[n].output = <<>> /\ mach[n].status # "MS_BLOCKING"
    BY <2>1 DEF EndInv
  <2>4. CASE current \in Ends
    <3>1. lastJobReleaseTime' = realTime
      BY <1>6, <2>3, <2>4 DEF Finish
    <3>2. r.status = "MS_IDLE" /\ r.toIdle = realTime /\ r.output = Append(m.output, Head(m.model))
      BY <2>2 DEF MachineRecord
    <3>3. Len(Append(m.output, Head(m.model))) = 1
      BY <2>3, <2>4
    <3> HIDE DEF r
    <3> QED
      BY <1>e, <2>2, <2>3, <3>1, <3>2, <3>3 DEF EndInv
  <2>5. CASE current \notin Ends
    BY <1>e, <2>2, <2>3, <2>5 DEF EndInv
  <2> QED
    BY <2>4, <2>5
<1>7. CASE Block \/ CODone \/ StartCO \/ StartWork
  <2> DEFINE r == mach'[current]
  <2>3. /\ \A n \in Machines : n # current => mach'[n] = mach[n]
        /\ pc = "work" /\ pc' = "ship" /\ current' = current
        /\ r.output = mach[current].output
        /\ r.status = "MS_BLOCKING" => Len(mach[current].output) >= CapacityOf(current)
    BY <1>0, <1>7, Advances
  <2>4. \A n \in Ends : mach[n].output = <<>> /\ mach[n].status # "MS_BLOCKING"
    BY <2>3 DEF EndInv
  <2>5. current \in Ends => r.status # "MS_BLOCKING"
    <3>1. ASSUME current \in Ends PROVE CapacityOf(current) \in Nat \ {0}
      <4>1. current \in Machines
        BY <1>e, <3>1
      <4>2. Site[current].producting \in Seq(Tray) /\ BufferSize[current] \in Nat \ {0}
        BY <4>1, PlantAssumption DEF SiteRecord
      <4>3. Len(Site[current].producting) \in Nat
        BY <4>2, LenProperties
      <4> QED
        BY <4>2, <4>3 DEF CapacityOf
    <3>2. Len(<<>>) = 0
      OBVIOUS
    <3> QED
      BY <2>3, <2>4, <3>1, <3>2
  <2> QED
    BY <1>e, <2>3, <2>4, <2>5 DEF EndInv
<1>8. CASE ShipOut \/ ShipOn \/ ShipNothing
  <2>1. /\ \E out \in BOOLEAN : GoOn(working', out)
        /\ \A m \in Ends : mach'[m].output = <<>> /\ mach'[m].status = mach[m].status
    BY <1>8, ShipEnds
  <2>2. pc' \in {"idle", "setup", "book", "tick"} => current' = FirstVisited
    BY <2>1 DEF GoOn
  <2> QED
    BY <2>1, <2>2 DEF EndInv
<1>9. CASE UNCHANGED simVars
  BY <1>9 DEF simVars, EndInv
<1> QED
  BY <1>1, <1>2, <1>3, <1>4, <1>5, <1>6, <1>7, <1>8, <1>9 DEF Next, Simulate

-----------------------------------------------------------------------------
(* A run in which nothing is finished any more is given up in time. *)

\* How long nothing has been finished.
Pause == realTime - lastJobReleaseTime

\* A machine that stays free is idle, if it changes over, and has finished the
\* tray it then takes up, so long after the last tray.
IdleBy == EndlessLoopWaitTime + 1 + LongestChange + Offset
FinishBy == IdleBy + Offset + CheckTime + LongestWork

\* What machine f is busy with ends in time ...
OnTime(f) ==
    /\ mach[f].state = "S_ONLINE" /\ \A e \in book : e.target # f
    /\ mach[f].status \in {"MS_IDLE", "MS_CO"} =>
          0 <= mach[f].toIdle /\ mach[f].toIdle <= lastJobReleaseTime + IdleBy
    /\ mach[f].status = "MS_WORKING" => mach[f].toIdle <= lastJobReleaseTime + FinishBy

\* ... and while simulate() runs is noticed in time, at the latest when the
\* machine is visited; that it is idle, when idle machines are next looked for.
Within(f) ==
    /\ mach[f].status = "MS_IDLE" /\ mach[f].changeStatus = "COS_KEEP" =>
          Pause <= IdleBy + 1 + Offset + count
    /\ mach[f].status = "MS_IDLE" /\ mach[f].changeStatus = "COS_GOING" =>
          Pause <= IF Seen(f) THEN 0 ELSE EndlessLoopWaitTime + 1
    /\ mach[f].status = "MS_CO" => Pause <= IF Seen(f) THEN IdleBy ELSE IdleBy + 1
    /\ mach[f].status = "MS_WORKING" => Pause <= IF Seen(f) THEN FinishBy ELSE FinishBy + 1

\* The inductive invariant, of a machine f at the end of the line.
ClockInv(f) ==
    /\ lastJobReleaseTime <= realTime
    /\ OnTime(f)
    /\ Pause <= FinishBy + 2
    /\ stage \notin {"simulate", "exit"} \/ pc = "setup" => Pause <= EndlessLoopWaitTime
    /\ pc \in Running => stage = "simulate" /\ Within(f)

LEMMA Times ==
    /\ EndlessLoopWaitTime \in Nat /\ LongestChange \in Nat /\ LongestWork \in Nat /\ Offset \in Nat
    /\ CheckTime \in Nat /\ IdleBy \in Nat /\ FinishBy \in Nat
    /\ EndlessLoopWaitTime + 1 + LongestChange + Offset = IdleBy
    /\ IdleBy + Offset + CheckTime + LongestWork = FinishBy
<1>1. /\ EndlessLoopWaitTime \in Nat /\ LongestChange \in Nat /\ LongestWork \in Nat
      /\ Offset \in Nat /\ CheckTime \in Nat
  BY SchedulerAssumption, SimulatorAssumption, PlantAssumption, Longest
<1> QED
  BY <1>1 DEF IdleBy, FinishBy

LEMMA ClockTypes ==
    ASSUME TypeOK, NEW f \in Machines
    PROVE  /\ realTime \in Nat /\ lastJobReleaseTime \in Nat /\ count \in Nat /\ mach[f].toIdle \in Int
           /\ mach[f].status \in Status /\ mach[f].changeStatus \in {"COS_KEEP", "COS_GOING"}
BY SimulatorAssumption DEF TypeOK, MachineRecord

\* Whatever the machine does, the run is not long past its time.
LEMMA WithinTime ==
    ASSUME TypeOK, NEW f \in Machines, mach[f].status # "MS_BLOCKING", count < CheckTime, Within(f)
    PROVE  Pause <= FinishBy + 1
<1>1. /\ realTime \in Nat /\ lastJobReleaseTime \in Nat /\ count \in Nat
      /\ mach[f].status \in {"MS_IDLE", "MS_CO", "MS_WORKING"}
      /\ mach[f].changeStatus \in {"COS_KEEP", "COS_GOING"}
  BY ClockTypes DEF Status
<1>2. Pause \in Int
  BY <1>1 DEF Pause
<1> QED
  BY <1>1, <1>2, Times DEF Within

\* A step that leaves machine f and the clock alone, but perhaps finishes a tray.
LEMMA ClockStays ==
    ASSUME TypeOK, TypeOK', NEW f \in Machines, lastJobReleaseTime <= realTime, OnTime(f), Within(f),
           UNCHANGED <<realTime, count>>, book' \subseteq book,
           lastJobReleaseTime' \in {lastJobReleaseTime, realTime},
           mach'[f].state = mach[f].state, mach'[f].status = mach[f].status,
           mach'[f].changeStatus = mach[f].changeStatus, mach'[f].toIdle = mach[f].toIdle,
           Seen(f)' => Seen(f)
    PROVE  /\ lastJobReleaseTime' <= realTime' /\ Pause' <= Pause /\ OnTime(f)' /\ Within(f)'
<1>1. /\ realTime \in Nat /\ lastJobReleaseTime \in Nat /\ count \in Nat /\ mach[f].toIdle \in Int
      /\ mach[f].status \in Status /\ mach[f].changeStatus \in {"COS_KEEP", "COS_GOING"}
  BY ClockTypes
<1>3. /\ lastJobReleaseTime' <= realTime' /\ lastJobReleaseTime <= lastJobReleaseTime'
      /\ lastJobReleaseTime' \in Nat
  BY <1>1
<1>2. Pause \in Int /\ Pause' \in Int /\ Pause' <= Pause
  <2>1. Pause' = realTime - lastJobReleaseTime' /\ Pause = realTime - lastJobReleaseTime
    BY DEF Pause
  <2>2. \A r, l, n \in Nat : l <= n => r - l \in Int /\ r - n \in Int /\ r - n <= r - l
    OBVIOUS
  <2>3. /\ realTime - lastJobReleaseTime \in Int /\ realTime - lastJobReleaseTime' \in Int
        /\ realTime - lastJobReleaseTime' <= realTime - lastJobReleaseTime
    BY <1>1, <1>3, <2>2
  <2> QED
    BY <2>1, <2>3
<1>4. IdleBy' = IdleBy /\ FinishBy' = FinishBy
  BY DEF IdleBy, FinishBy
<1>5. OnTime(f)'
  BY <1>1, <1>3, <1>4, Times DEF OnTime
<1>6. Within(f)'
  <2>1. /\ mach[f].status = "MS_IDLE" /\ mach[f].changeStatus = "COS_KEEP" =>
              Pause <= IdleBy + 1 + Offset + count
        /\ mach[f].status = "MS_IDLE" /\ mach[f].changeStatus = "COS_GOING" =>
              Pause <= EndlessLoopWaitTime + 1 /\ (Seen(f) => Pause <= 0)
        /\ mach[f].status = "MS_CO" => Pause <= IdleBy + 1 /\ (Seen(f) => Pause <= IdleBy)
        /\ mach[f].status = "MS_WORKING" => Pause <= FinishBy + 1 /\ (Seen(f) => Pause <= FinishBy)
    BY <1>2, Times DEF Within
  <2>2. /\ mach'[f].status = "MS_IDLE" /\ mach'[f].changeStatus = "COS_KEEP" =>
              Pause' <= IdleBy + 1 + Offset + count'
        /\ mach'[f].status = "MS_IDLE" /\ mach'[f].changeStatus = "COS_GOING" =>
              Pause' <= EndlessLoopWaitTime + 1 /\ (Seen(f)' => Pause' <= 0)
        /\ mach'[f].status = "MS_CO" => Pause' <= IdleBy + 1 /\ (Seen(f)' => Pause' <= IdleBy)
        /\ mach'[f].status = "MS_WORKING" => Pause' <= FinishBy + 1 /\ (Seen(f)' => Pause' <= FinishBy)
    BY <1>1, <1>2, <2>1, Times
  <2> QED
    BY <1>4, <2>2 DEF Within
<1> QED
  BY <1>2, <1>3, <1>5, <1>6

\* When it is the turn of machine f it has not been visited yet.
LEMMA SeenAtWork ==
    ASSUME TypeOK, NEW f \in Ends, pc = "work", pc' \in {"ship", "abort"}, current' = current
    PROVE  /\ current # f => (Seen(f)' => Seen(f))
           /\ current = f => ~Seen(f)
<1>1. f \in Machines /\ ~(f > f)
  BY EndsType, MachinesType
<1> QED
  BY <1>1 DEF Seen

\* A visit of machine f: what is due is done, and takes no longer than it may.
LEMMA VisitInTime ==
    ASSUME BooksInv, TypeOK', EndInv, EndInv', NEW f \in Ends, ClockInv(f), current = f,
           Finish \/ Block \/ CODone \/ StartCO \/ StartWork \/ KeepOn
    PROVE  /\ lastJobReleaseTime' <= realTime' /\ Pause' <= Pause /\ OnTime(f)' /\ Within(f)'
<1>0. IInv /\ TypeOK
  BY DEF BooksInv, IInv
<1>p. pc = "work" /\ pc' = "ship" /\ current' = current
  BY DEF Finish, Block, CODone, StartCO, StartWork, KeepOn, Becomes
<1>1. /\ f \in Machines /\ realTime \in Nat /\ lastJobReleaseTime \in Nat /\ count \in Nat
      /\ mach[f].toIdle \in Int /\ mach[f].status \in {"MS_IDLE", "MS_CO", "MS_WORKING"}
      /\ mach[f].changeStatus \in {"COS_KEEP", "COS_GOING"}
  <2>1. f \in Machines /\ mach[f].status # "MS_BLOCKING"
    BY EndsType DEF EndInv
  <2> QED
    BY <1>0, <2>1, ClockTypes DEF Status
<1>2. Within(f) /\ OnTime(f) /\ lastJobReleaseTime <= realTime /\ count < CheckTime
  BY <1>0, <1>p DEF ClockInv, Running, IInv
<1>3. ~Seen(f)
  BY <1>0, <1>p, SeenAtWork
<1>4. IdleBy' = IdleBy /\ FinishBy' = FinishBy
  BY DEF IdleBy, FinishBy
<1>5. Pause = realTime - lastJobReleaseTime /\ Pause' = realTime' - lastJobReleaseTime'
  BY DEF Pause
<1>6. CASE Finish
  <2> DEFINE m == mach[current]
             r == [m EXCEPT !.output = Append(@, Head(m.model)), !.model = Tail(@),
                            !.toIdle = realTime, !.status = "MS_IDLE"]
  <2>1. Becomes(r) /\ m.status = "MS_WORKING" /\ lastJobReleaseTime' = realTime
    BY <1>1, <1>6 DEF Finish
  <2>2. /\ mach'[f] = r /\ m \in MachineRecord /\ UNCHANGED <<realTime, count, working, book>>
    BY <1>0, <1>p, <2>1, BecomesOne
  <2>3. r.status = "MS_IDLE" /\ r.toIdle = realTime /\ r.state = m.state
    BY <2>2 DEF MachineRecord
  <2> HIDE DEF r
  <2>4. Pause' = 0 /\ Pause' <= Pause
    BY <1>1, <1>2, <1>5, <2>1, <2>2
  <2>5. OnTime(f)'
    BY <1>1, <1>2, <1>4, <2>1, <2>2, <2>3, Times DEF OnTime
  <2>6. Within(f)'
    BY <1>1, <1>4, <2>2, <2>3, <2>4, Times DEF Within
  <2> QED
    BY <1>1, <2>1, <2>2, <2>4, <2>5, <2>6
<1>7. CASE Block \/ CODone \/ StartCO \/ StartWork
  <2> DEFINE m == mach[f]
             r == mach'[f]
  <2>1. /\ UNCHANGED <<realTime, count, working, book, lastJobReleaseTime>>
        /\ r.state = m.state
        /\ \/ r.status = "MS_BLOCKING"
           \/ /\ m.status = "MS_CO" /\ r.status = "MS_IDLE"
              /\ r.toIdle = m.toIdle /\ r.changeStatus = "COS_KEEP"
           \/ /\ m.status = "MS_IDLE" /\ m.changeStatus = "COS_GOING" /\ r.status = "MS_CO"
              /\ realTime <= r.toIdle /\ r.toIdle <= realTime + LongestChange + Offset
           \/ /\ m.status = "MS_IDLE" /\ r.status = "MS_WORKING"
              /\ r.toIdle <= realTime + LongestWork
    BY <1>0, <1>7, Advances
  <2>2. r.status # "MS_BLOCKING" /\ r.toIdle \in Int
    BY <1>1 DEF EndInv, TypeOK, MachineRecord
  <2>3. Pause' = Pause /\ Pause \in Int
    BY <1>1, <1>5, <2>1
  <2>4. /\ m.status = "MS_IDLE" /\ m.changeStatus = "COS_GOING" =>
              Pause <= EndlessLoopWaitTime + 1
        /\ m.status = "MS_IDLE" => Pause + LongestWork <= FinishBy
        /\ m.status = "MS_CO" => Pause <= IdleBy + 1
    BY <1>1, <1>2, <1>3, <2>3, Times DEF Within
  <2>5. realTime = lastJobReleaseTime + Pause
    BY <1>1, <1>5
  <2> HIDE DEF r
  <2>6. OnTime(f)'
    <3>1. /\ r.status \in {"MS_IDLE", "MS_CO"} =>
                0 <= r.toIdle /\ r.toIdle <= lastJobReleaseTime + IdleBy
          /\ r.status = "MS_WORKING" => r.toIdle <= lastJobReleaseTime + FinishBy
      BY <1>1, <1>2, <2>1, <2>2, <2>3, <2>4, <2>5, Times DEF OnTime
    <3> QED
      BY <1>2, <1>4, <2>1, <3>1 DEF OnTime, r
  <2>7. Within(f)'
    <3>1. /\ r.status = "MS_IDLE" => r.changeStatus = "COS_KEEP" /\ Pause <= IdleBy + 1 + Offset + count
          /\ r.status = "MS_CO" => Pause <= IdleBy
          /\ r.status = "MS_WORKING" => Pause <= FinishBy
      BY <1>1, <2>1, <2>2, <2>3, <2>4, Times
    <3>2. IdleBy <= IdleBy + 1 /\ FinishBy <= FinishBy + 1
      BY Times
    <3> QED
      BY <1>4, <2>1, <2>3, <3>1, <3>2, Times DEF Within, r
  <2> QED
    BY <1>1, <1>2, <2>1, <2>3, <2>6, <2>7
<1>8. CASE KeepOn
  <2>1. UNCHANGED <<mach, realTime, count, book, lastJobReleaseTime>>
    BY <1>8 DEF KeepOn
  <2>2. \/ mach[f].status \in {"MS_WORKING", "MS_CO"} /\ realTime < mach[f].toIdle
        \/ mach[f].status = "MS_IDLE" /\ mach[f].changeStatus = "COS_KEEP"
    BY <1>1, <1>8 DEF KeepOn
  <2>3. Pause' = Pause /\ Pause \in Int
    BY <1>1, <1>5, <2>1
  <2>4. OnTime(f)'
    BY <1>2, <1>4, <2>1 DEF OnTime
  <2>5. Within(f)'
    <3>1. /\ mach[f].status = "MS_IDLE" => mach[f].changeStatus = "COS_KEEP" /\ Pause <= IdleBy + 1 + Offset + count
          /\ mach[f].status = "MS_CO" => Pause <= IdleBy
          /\ mach[f].status = "MS_WORKING" => Pause <= FinishBy
      <4>1. mach[f].status = "MS_IDLE" => mach[f].changeStatus = "COS_KEEP" /\ Pause <= IdleBy + 1 + Offset + count
        BY <1>2, <2>2 DEF Within
      <4>2. /\ mach[f].status = "MS_CO" => realTime <= lastJobReleaseTime + IdleBy
            /\ mach[f].status = "MS_WORKING" => realTime <= lastJobReleaseTime + FinishBy
        BY <1>1, <1>2, <2>2, Times DEF OnTime
      <4> QED
        BY <1>1, <1>5, <4>1, <4>2, Times
    <3>2. IdleBy <= IdleBy + 1 /\ FinishBy <= FinishBy + 1
      BY Times
    <3> QED
      BY <1>4, <2>1, <2>3, <3>1, <3>2, Times DEF Within
  <2> QED
    BY <1>2, <2>1, <2>3, <2>4, <2>5
<1> QED
  BY <1>6, <1>7, <1>8

\* Idle machines that were looked for and are none.
LEMMA NoneIdle ==
    ASSUME triggered \in Seq(Machines), NEW now, <<>> \in WithIdle(now) PROVE LongIdle(now) = {}
<1>1. LongIdle(now) \subseteq Machines /\ IsFiniteSet(LongIdle(now))
  <2>1. IsFiniteSet(Machines)
    BY PlantAssumption, FS_Interval DEF Machines
  <2> QED
    BY <2>1, FS_Subset DEF LongIdle
<1>2. Cardinality(LongIdle(now)) \in Nat
  BY <1>1, FS_CardinalityType
<1>3. PICK s \in [1..Cardinality(LongIdle(now)) -> LongIdle(now)] : triggered \o s = <<>>
  BY DEF WithIdle
<1>4. s \in Seq(Machines) /\ Len(s) = Cardinality(LongIdle(now))
  BY <1>1, <1>2, <1>3
<1>5. Len(triggered) + Len(s) = 0
  BY <1>3, <1>4, ConcatProperties, EmptySeq
<1>6. Cardinality(LongIdle(now)) = 0
  BY <1>2, <1>4, <1>5, LenProperties
<1> QED
  BY <1>1, <1>6, FS_EmptySet

\* A second ends: a machine that stays free is found idle before it is too late.
LEMMA TickInTime ==
    ASSUME CallInv, IInv, EndInv, NEW f \in Ends, ClockInv(f), Tick
    PROVE  /\ lastJobReleaseTime' <= realTime' /\ OnTime(f)' /\ Pause' <= FinishBy + 2
           /\ pc' \in {"idle", "book"} /\ (pc' = "book" => Within(f)')
<1>1. /\ f \in Machines /\ realTime \in Nat /\ lastJobReleaseTime \in Nat /\ count \in Nat
      /\ mach[f].toIdle \in Int /\ mach[f].status \in {"MS_IDLE", "MS_CO", "MS_WORKING"}
      /\ mach[f].changeStatus \in {"COS_KEEP", "COS_GOING"} /\ TypeOK
  <2>1. f \in Machines /\ mach[f].status # "MS_BLOCKING" /\ TypeOK
    BY EndsType DEF EndInv, IInv
  <2> QED
    BY <2>1, ClockTypes DEF Status
<1>2. Within(f) /\ OnTime(f) /\ lastJobReleaseTime <= realTime /\ count < CheckTime
  BY DEF Tick, ClockInv, Running, IInv
<1>3. /\ pc = "tick" /\ realTime' = realTime + 1
      /\ UNCHANGED <<mach, working, book, lastJobReleaseTime, current>>
      /\ pc' \in {"idle", "book"}
      /\ pc' = "book" => /\ working
                         /\ \/ count' = count + 1
                            \/ count' = 0 /\ <<>> \in WithIdle(realTime')
  BY DEF Tick
<1>4. IdleBy' = IdleBy /\ FinishBy' = FinishBy
  BY DEF IdleBy, FinishBy
<1>5. Pause = realTime - lastJobReleaseTime /\ Pause' = realTime' - lastJobReleaseTime'
  BY DEF Pause
<1>6. Pause \in Int /\ Pause' = Pause + 1 /\ realTime = lastJobReleaseTime + Pause
      /\ lastJobReleaseTime' <= realTime'
  BY <1>1, <1>2, <1>3, <1>5
<1>7. OnTime(f)'
  BY <1>2, <1>3, <1>4 DEF OnTime
<1>8. Pause <= FinishBy + 1
  BY <1>1, <1>2, WithinTime
<1>9. ASSUME pc' = "book" PROVE Within(f)'
  <2>1. Seen(f) /\ ~Seen(f)'
    BY <1>3, <1>9 DEF Seen
  <2>2. /\ mach[f].status = "MS_IDLE" /\ mach[f].changeStatus = "COS_KEEP" =>
              Pause <= IdleBy + 1 + Offset + count
        /\ mach[f].status = "MS_IDLE" /\ mach[f].changeStatus = "COS_GOING" => Pause <= 0
        /\ mach[f].status = "MS_CO" => Pause <= IdleBy
        /\ mach[f].status = "MS_WORKING" => Pause <= FinishBy
    BY <1>2, <2>1 DEF Within
  <2>3. mach[f].status = "MS_IDLE" /\ mach[f].changeStatus = "COS_KEEP" =>
              Pause + 1 <= IdleBy + 1 + Offset + count'
    <3>1. CASE count' = count + 1
      BY <1>1, <1>6, <2>2, <3>1, Times
    <3>2. CASE count' = 0 /\ LongIdle(realTime') = {}
      <4>1. mach[f].status = "MS_IDLE" => ~(realTime' - Magnitude(mach[f].toIdle) > Offset)
        BY <1>1, <1>2, <3>2 DEF LongIdle, OnTime
      <4>2. mach[f].status = "MS_IDLE" =>
               Magnitude(mach[f].toIdle) = mach[f].toIdle /\ mach[f].toIdle <= lastJobReleaseTime + IdleBy
        BY <1>1, <1>2 DEF Magnitude, OnTime
      <4> QED
        BY <1>1, <1>3, <1>6, <3>2, <4>1, <4>2, Times
    <3> QED
      BY <1>3, <1>9, <3>1, <3>2, NoneIdle DEF CallInv
  <2>4. /\ mach[f].status = "MS_IDLE" /\ mach[f].changeStatus = "COS_GOING" =>
              Pause + 1 <= EndlessLoopWaitTime + 1
        /\ mach[f].status = "MS_CO" => Pause + 1 <= IdleBy + 1
        /\ mach[f].status = "MS_WORKING" => Pause + 1 <= FinishBy + 1
    BY <1>6, <2>2, Times
  <2> QED
    BY <1>3, <1>4, <1>6, <2>1, <2>3, <2>4 DEF Within
<1> QED
  BY <1>3, <1>4, <1>6, <1>7, <1>8, <1>9, Times

\* Shipping: only a tray just finished puts off when its machine counts as idle.
LEMMA ShipInTime ==
    ASSUME RoutesMeet, BooksInv, TypeOK', EndInv, NEW f \in Ends, ClockInv(f),
           ShipOut \/ ShipOn \/ ShipNothing
    PROVE  /\ lastJobReleaseTime' <= realTime' /\ Pause' <= Pause /\ OnTime(f)' /\ Within(f)'
           /\ pc' \in {"feed", "tick"}
<1>0. TypeOK
  BY DEF BooksInv, IInv
<1>1. /\ pc = "ship" /\ \E out \in BOOLEAN : GoOn(working', out)
      /\ UNCHANGED <<realTime, count, book, lastJobReleaseTime>>
      /\ \A m \in Ends :
            /\ mach'[m].output = <<>>
            /\ mach'[m].state = mach[m].state /\ mach'[m].status = mach[m].status
            /\ mach'[m].changeStatus = mach[m].changeStatus
            /\ \/ mach'[m].toIdle = mach[m].toIdle
               \/ mach[m].output # <<>> /\ mach'[m].toIdle = mach[m].toIdle + Offset
  BY ShipEnds
<1>2. pc' \in {"feed", "tick"} /\ (Seen(f)' => Seen(f))
  <2>1. PICK out \in BOOLEAN : GoOn(working', out)
    BY <1>1
  <2> QED
    BY <1>0, <1>1, <2>1, SeenOn, GoOnType
<1>3. f \in Machines /\ Within(f) /\ OnTime(f) /\ lastJobReleaseTime <= realTime
  BY <1>1, EndsType DEF ClockInv, Running
<1>4. CASE mach'[f].toIdle = mach[f].toIdle
  <2>1. book' \subseteq book /\ lastJobReleaseTime' \in {lastJobReleaseTime, realTime}
        /\ UNCHANGED <<realTime, count>>
    BY <1>1
  <2> QED
    BY <1>0, <1>1, <1>2, <1>3, <1>4, <2>1, ClockStays
<1>5. CASE mach[f].output # <<>> /\ mach'[f].toIdle = mach[f].toIdle + Offset
  <2>1. mach[f].status = "MS_IDLE" /\ mach[f].toIdle = realTime /\ lastJobReleaseTime = realTime
    BY <1>5 DEF EndInv
  <2>2. realTime \in Nat /\ count \in Nat /\ mach[f].changeStatus \in {"COS_KEEP", "COS_GOING"}
    BY <1>0, <1>3, ClockTypes
  <2>3. IdleBy' = IdleBy /\ FinishBy' = FinishBy
    BY DEF IdleBy, FinishBy
  <2>4. Pause = 0 /\ Pause' = 0
    BY <1>1, <2>1, <2>2 DEF Pause
  <2>5. 0 <= mach'[f].toIdle /\ mach'[f].toIdle <= lastJobReleaseTime' + IdleBy
    BY <1>1, <1>5, <2>1, <2>2, Times
  <2>6. OnTime(f)'
    BY <1>1, <1>3, <2>1, <2>3, <2>5 DEF OnTime
  <2>7. Within(f)'
    BY <1>1, <2>1, <2>2, <2>3, <2>4, Times DEF Within
  <2> QED
    BY <1>1, <1>2, <1>3, <2>4, <2>6, <2>7
<1> QED
  BY <1>1, <1>4, <1>5

LEMMA RunInTime ==
    ASSUME RoutesMeet, CallInv, BooksInv, TypeOK', EndInv, EndInv', NEW f \in Ends, ClockInv(f),
           stage = "simulate", stage' = "simulate", Setup \/ Simulate
    PROVE  ClockInv(f)'
<1>0. IInv /\ TypeOK /\ f \in Machines
  BY EndsType DEF BooksInv, IInv
<1>a. IdleBy' = IdleBy /\ FinishBy' = FinishBy
  BY DEF IdleBy, FinishBy
<1>b. Pause \in Int /\ Pause <= FinishBy + 2 /\ OnTime(f) /\ lastJobReleaseTime <= realTime
  BY <1>0, ClockTypes DEF ClockInv, Pause
<1>c. ASSUME lastJobReleaseTime' <= realTime', Pause' <= Pause, OnTime(f)', Within(f)', pc' # "setup"
      PROVE  ClockInv(f)'
  <2>1. Pause' \in Int
    BY DEF Pause, TypeOK
  <2> QED
    BY <1>a, <1>b, <1>c, <2>1, Times DEF ClockInv
<1>d. ASSUME Within(f), pc' # "setup", UNCHANGED <<realTime, count>>, book' \subseteq book,
             lastJobReleaseTime' \in {lastJobReleaseTime, realTime},
             mach'[f].state = mach[f].state, mach'[f].status = mach[f].status,
             mach'[f].changeStatus = mach[f].changeStatus, mach'[f].toIdle = mach[f].toIdle,
             Seen(f)' => Seen(f)
      PROVE  ClockInv(f)'
  BY <1>0, <1>b, <1>c, <1>d, ClockStays
<1>1. CASE Setup
  <2>1. /\ pc = "setup" /\ pc' = "book" /\ UNCHANGED <<realTime, book, lastJobReleaseTime>>
        /\ count' = 0 /\ ~Seen(f)'
    BY <1>1 DEF Setup, Seen
  <2>2. Pause <= EndlessLoopWaitTime /\ Pause' = Pause
    BY <2>1 DEF ClockInv, Pause
  <2>3. /\ mach'[f].state = mach[f].state /\ mach'[f].status = mach[f].status
        /\ mach'[f].toIdle = mach[f].toIdle
    <3>1. mach'[f] = mach[f] \/ \E t \in Model : mach'[f] = Configured(f, t)
      BY <1>0, <1>1 DEF Setup
    <3>2. \A t \in Model : /\ Configured(f, t).state = mach[f].state
                            /\ Configured(f, t).status = mach[f].status
                            /\ Configured(f, t).toIdle = mach[f].toIdle
      BY <1>0 DEF Configured, TypeOK, MachineRecord
    <3> QED
      BY <3>1, <3>2
  <2>4. OnTime(f)'
    BY <1>a, <1>b, <2>1, <2>3 DEF OnTime
  <2>5. /\ Pause' <= IdleBy + 1 + Offset + count' /\ Pause' <= EndlessLoopWaitTime + 1
        /\ Pause' <= IdleBy + 1 /\ Pause' <= FinishBy + 1
    BY <1>b, <2>1, <2>2, Times
  <2>6. Within(f)'
    BY <1>a, <2>1, <2>5 DEF Within
  <2>7. lastJobReleaseTime' <= realTime' /\ Pause' <= Pause
    BY <1>b, <2>1, <2>2
  <2> QED
    BY <1>c, <2>1, <2>4, <2>6, <2>7
<1>2. ASSUME pc \in Running PROVE Within(f)
  BY <1>2 DEF ClockInv
<1>3. CASE BookFires
  <2>1. PICK e \in Top : /\ mach' = [mach EXCEPT ![e.target].state =
                                       IF e.type = "SBI_OFF" THEN "S_OFFLINE" ELSE "S_ONLINE"]
                         /\ book' = book \ {e}
    BY <1>3 DEF BookFires
  <2>2. mach'[f] = mach[f]
    BY <1>0, <1>b, <2>1 DEF OnTime, Top, TypeOK
  <2>3. pc' = "idle" /\ ~Seen(f)' /\ UNCHANGED <<realTime, count, lastJobReleaseTime>> /\ Within(f)
    BY <1>2, <1>3 DEF BookFires, Seen, Running
  <2> QED
    BY <1>d, <2>1, <2>2, <2>3
<1>4. CASE BookQuiet
  <2>1. /\ pc = "book" /\ pc' = "feed" /\ current' = current
        /\ UNCHANGED <<mach, realTime, count, book, lastJobReleaseTime>>
    BY <1>4 DEF BookQuiet
  <2>2. ~Seen(f)'
    <3>1. current = FirstVisited /\ current \in Ends /\ current <= f
      BY <2>1, EndsType DEF EndInv
    <3>2. current \in Nat /\ f \in Nat
      BY <1>0, <3>1, EndsType, MachinesType
    <3>3. ~(current > f)
      BY <3>1, <3>2
    <3> QED
      BY <2>1, <3>1, <3>3 DEF Seen
  <2> QED
    BY <1>2, <1>d, <2>1, <2>2 DEF Running
<1>5. CASE Feed \/ FeedNothing
  <2>1. /\ pc = "feed" /\ pc' = "work" /\ current' = current
        /\ UNCHANGED <<realTime, count, book, lastJobReleaseTime>>
    BY <1>5 DEF Feed, FeedNothing
  <2>2. /\ mach'[f].state = mach[f].state /\ mach'[f].status = mach[f].status
        /\ mach'[f].changeStatus = mach[f].changeStatus /\ mach'[f].toIdle = mach[f].toIdle
    <3>1. CASE FeedNothing
      BY <3>1 DEF FeedNothing
    <3>2. CASE Feed
      <4>1. PICK u : mach' = [mach EXCEPT ![current].input = Append(@, u)]
        BY <3>2 DEF Feed
      <4>2. mach'[f] = mach[f] \/ mach'[f] = [mach[f] EXCEPT !.input = Append(@, u)]
        BY <1>0, <4>1 DEF TypeOK
      <4>3. mach[f] \in MachineRecord
        BY <1>0 DEF TypeOK
      <4> QED
        BY <4>2, <4>3 DEF MachineRecord
    <3> QED
      BY <1>5, <3>1, <3>2
  <2>3. Seen(f)' => Seen(f)
    BY <2>1 DEF Seen
  <2> QED
    BY <1>2, <1>d, <2>1, <2>2, <2>3 DEF Running
<1>6. CASE Mismatch
  <2>1. /\ pc = "work" /\ pc' = "abort" /\ current' = current
        /\ UNCHANGED <<mach, realTime, count, book, lastJobReleaseTime>>
    BY <1>6 DEF Mismatch
  <2>2. ~Seen(f)'
    BY <2>1 DEF Seen
  <2> QED
    BY <1>2, <1>d, <2>1, <2>2 DEF Running
<1>7. CASE Finish \/ Block \/ CODone \/ StartCO \/ StartWork \/ KeepOn
  <2>1. pc = "work" /\ pc' = "ship" /\ current' = current
    BY <1>7 DEF Finish, Block, CODone, StartCO, StartWork, KeepOn, Becomes
  <2>2. CASE current = f
    BY <1>0, <1>7, <1>c, <2>1, <2>2, VisitInTime
  <2>3. CASE current # f
    <3>1. mach'[f] = mach[f]
      <4>1. ASSUME NEW r, Becomes(r) PROVE mach'[f] = mach[f]
        BY <1>0, <2>1, <2>3, <4>1, BecomesOne
      <4> QED
        BY <1>7, <4>1 DEF Finish, Block, CODone, StartCO, StartWork, KeepOn
    <3>2. UNCHANGED <<realTime, count, book>> /\ lastJobReleaseTime' \in {lastJobReleaseTime, realTime}
      BY <1>7 DEF Finish, Block, CODone, StartCO, StartWork, KeepOn, Becomes
    <3>3. Seen(f)' => Seen(f)
      BY <1>0, <2>1, <2>3, SeenAtWork
    <3> QED
      BY <1>2, <1>d, <2>1, <3>1, <3>2, <3>3 DEF Running
  <2> QED
    BY <2>2, <2>3
<1>8. CASE ShipOut \/ ShipOn \/ ShipNothing
  <2>1. /\ lastJobReleaseTime' <= realTime' /\ Pause' <= Pause /\ OnTime(f)' /\ Within(f)'
        /\ pc' \in {"feed", "tick"}
    BY <1>8, ShipInTime
  <2> QED
    BY <1>c, <2>1
<1>9. CASE Tick
  <2>1. /\ lastJobReleaseTime' <= realTime' /\ OnTime(f)' /\ Pause' <= FinishBy + 2
        /\ pc' \in {"idle", "book"} /\ (pc' = "book" => Within(f)')
    BY <1>0, <1>9, TickInTime
  <2> QED
    BY <1>a, <2>1 DEF ClockInv, Running
<1> QED
  BY <1>1, <1>3, <1>4, <1>5, <1>6, <1>7, <1>8, <1>9 DEF Simulate

LEMMA StepClock ==
    ASSUME RoutesMeet, CallInv, MainInv, EndInv, NEW f \in Ends, ClockInv(f), [MainNext]_mainVars
    PROVE  ClockInv(f)'
<1>0. /\ BooksInv /\ TypeOK' /\ EndInv' /\ f \in Machines
      /\ stage \notin {"simulate", "exit"} => pc = "idle"
  <2>1. BooksInv /\ MainInv' /\ [Next]_simVars
    BY StepMain, StepCalls DEF MainInv
  <2> QED
    BY <2>1, StepEnds, EndsType DEF MainInv, BooksInv, IInv
<1>a. IdleBy' = IdleBy /\ FinishBy' = FinishBy
  BY DEF IdleBy, FinishBy
<1>1. ASSUME UNCHANGED simVars, pc \notin Running \/ stage' = stage,
             stage' \notin {"simulate", "exit"} \/ pc = "setup" =>
                stage \notin {"simulate", "exit"} \/ pc = "setup" \/ Pause <= EndlessLoopWaitTime
      PROVE  ClockInv(f)'
  <2>1. /\ UNCHANGED <<mach, realTime, count, working, book, lastJobReleaseTime, pc, current>>
    BY <1>1 DEF simVars
  <2>2. Pause' = Pause /\ OnTime(f)' = OnTime(f) /\ Within(f)' = Within(f)
    BY <1>a, <2>1 DEF Pause, OnTime, Within, Seen
  <2> QED
    BY <1>1, <1>a, <2>1, <2>2 DEF ClockInv
<1>2. CASE Count \/ NoMoreDays \/ Fill \/ Merge
  <2>1. UNCHANGED simVars /\ stage \notin {"simulate", "exit"}
    BY <1>2 DEF Count, NoMoreDays, Fill, Merge, T!Count, T!NoMoreDays, T!Fill, T!Merge, MainInv
  <2>2. pc \notin Running
    BY <1>0, <2>1 DEF Running
  <2> QED
    BY <1>1, <2>1, <2>2
<1>3. CASE Plan
  <2>1. stage = "plan" /\ stage' = "simulate"
    BY <1>3 DEF Plan
  <2>2. PICK c, online : Call(fetched, c, online)
    BY <1>3 DEF Plan
  <2>3. /\ pc' = "setup" /\ UNCHANGED <<realTime, book, lastJobReleaseTime>>
        /\ mach'[f] = mach[f] \/ mach'[f] = [mach[f] EXCEPT !.state = "S_ONLINE"]
    BY <1>0, <2>2 DEF Call
  <2>4. /\ mach'[f].state \in {mach[f].state, "S_ONLINE"} /\ mach'[f].status = mach[f].status
        /\ mach'[f].toIdle = mach[f].toIdle
    BY <1>0, <2>3 DEF BooksInv, IInv, TypeOK, MachineRecord
  <2>5. Pause' = Pause /\ Pause <= EndlessLoopWaitTime
    BY <2>1, <2>3 DEF Pause, ClockInv
  <2>6. OnTime(f)'
    BY <1>a, <2>3, <2>4 DEF ClockInv, OnTime
  <2> QED
    BY <1>a, <2>1, <2>3, <2>5, <2>6 DEF ClockInv, Running
<1>4. CASE Run
  <2>1. stage = "simulate" /\ stage' = "simulate" /\ (Setup \/ Simulate)
    BY <1>4 DEF Run
  <2> QED
    BY <1>0, <2>1, RunInTime
<1>5. CASE Return
  <2>1. UNCHANGED simVars /\ pc = "idle"
    BY <1>5 DEF Return
  <2>2. Pause <= EndlessLoopWaitTime
    <3>1. realTime \in Nat /\ lastJobReleaseTime \in Nat
      BY <1>0, ClockTypes DEF BooksInv, IInv
    <3> QED
      BY <1>5, <3>1, Times DEF Return, Stuck, Pause
  <2> QED
    BY <1>1, <2>1, <2>2 DEF Running
<1>6. CASE Exit
  <2>1. UNCHANGED simVars /\ pc \in {"idle", "abort"} /\ stage' = "exit"
    BY <1>6 DEF Exit
  <2> QED
    BY <1>1, <2>1 DEF Running
<1>7. CASE UNCHANGED mainVars
  BY <1>1, <1>7 DEF mainVars
<1> QED
  BY <1>2, <1>3, <1>4, <1>5, <1>6, <1>7 DEF MainNext

LEMMA InitClock ==
    ASSUME MainInit, EndStaysFree
    PROVE  \E f \in Ends : ClockInv(f)
<1>1. PICK f \in Ends : /\ mach[f].state = "S_ONLINE" /\ mach[f].toIdle <= EndlessLoopWaitTime
                        /\ \A e \in book : e.target # f
  BY DEF EndStaysFree, Ends
<1>2. /\ mach[f] = Loaded(f) /\ realTime = 0 /\ lastJobReleaseTime = 0 /\ pc = "idle"
      /\ stage = "count" /\ f \in Machines
  BY EndsType DEF MainInit, Init
<1>3. mach[f].toIdle \in Nat
  BY <1>2, PlantAssumption DEF Loaded, SiteRecord
<1>4. Pause = 0
  BY <1>2 DEF Pause
<1> QED
  BY <1>1, <1>2, <1>3, <1>4, Times DEF ClockInv, OnTime, Running

\* For every plant, site and list of requirements: when the line ends in a machine
\* that stays free, a run in which nothing is finished any more is given up in
\* time, although main looks at the clock only when simulate() returns
\* (fits_core.cpp:2164).
THEOREM StuckRunsAreGivenUp ==
    ASSUME SiteIsSound, RoutesMeet PROVE MainSpec /\ EndStaysFree => []GivesUpInTime
<1> DEFINE I == CallInv /\ MainInv /\ EndInv /\ \E f \in Ends : ClockInv(f)
<1>1. MainInit /\ EndStaysFree => I
  <2>1. MainInit /\ EndStaysFree => EndInv
    BY InitEnds DEF EndStaysFree, Ends, MainInit
  <2> QED
    BY <2>1, InitCalls, InitMain, InitClock
<1>2. I /\ [MainNext]_mainVars => I'
  <2> SUFFICES ASSUME I, [MainNext]_mainVars PROVE I'
    OBVIOUS
  <2>1. CallInv' /\ MainInv' /\ [Next]_simVars
    BY StepCalls, StepMain
  <2>2. EndInv'
    BY <2>1, StepEnds DEF MainInv
  <2>3. PICK f \in Ends : ClockInv(f)
    OBVIOUS
  <2>4. ClockInv(f)'
    BY <2>3, StepClock
  <2>5. (\E g \in Ends : ClockInv(g))'
    BY <2>4 DEF Ends
  <2> QED
    BY <2>1, <2>2, <2>5
<1>3. I => GivesUpInTime
  <2> SUFFICES ASSUME I PROVE GivesUpInTime
    OBVIOUS
  <2>1. realTime - lastJobReleaseTime <= FinishBy + 2
    BY DEF ClockInv, Pause
  <2>2. FinishBy + 2 = EndlessLoopWaitTime + CheckTime + LongestChange + LongestWork + 2 * Offset + 3
    BY Times
  <2> QED
    BY <2>1, <2>2 DEF GivesUpInTime
<1> HIDE DEF I
<1> QED
  BY <1>1, <1>2, <1>3, PTL DEF MainSpec
=============================================================================
