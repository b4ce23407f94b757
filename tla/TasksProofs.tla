----------------------------- MODULE TasksProofs -----------------------------
(***************************************************************************)
(* Proofs about Tasks, for any models, trays, days and window.             *)
(***************************************************************************)
EXTENDS Tasks, FiniteSetTheorems, TLAPS

\* A set of trays has a number of elements, and it is 0 only for no trays.
LEMMA TrayCount ==
    ASSUME NEW S, S \subseteq Tray
    PROVE  Cardinality(S) \in Nat /\ (Cardinality(S) > 0 <=> S # {})
<1>1. IsFiniteSet(S) BY TasksAssumption, FS_Subset
<1>2. Cardinality(S) \in Nat BY <1>1, FS_CardinalityType
<1>3. Cardinality(S) = 0 <=> S = {} BY <1>1, FS_EmptySet
<1>4. QED BY <1>2, <1>3

\* The trays of a model on the line, and those of a day, are trays.
LEMMA TraysAreTrays ==
    ASSUME jop \subseteq Tray, NEW t, NEW d
    PROVE  OnLine(t) \subseteq Tray /\ RequiredOf(d, t) \subseteq Tray
BY DEF OnLine, RequiredOf, Required

\* The invariant holds at the start.
LEMMA InitIInv == Init => IInv
<1> SUFFICES ASSUME Init PROVE IInv OBVIOUS
<1> USE DEF Init
<1>0. jop \subseteq Tray BY TasksAssumption
<1>1. \A t \in Model : Cardinality(OnLine(t)) \in Nat
                       /\ (Cardinality(OnLine(t)) > 0 <=> OnLine(t) # {})
  BY <1>0, TraysAreTrays, TrayCount
<1>2. TypeOK
  <2>1. gTasks \in [Model -> Nat] BY <1>1
  <2>2. tasks \in [Model -> Nat] /\ progress \in 0..NumDays BY TasksAssumption
  <2>3. idle \in BOOLEAN /\ pc \in {"count", "window", "merge", "run", "done"} OBVIOUS
  <2>4. QED BY <1>0, <2>1, <2>2, <2>3 DEF TypeOK
<1>3. EveryModelHasTask
  <2> SUFFICES ASSUME NEW u \in jop PROVE gTasks[ModelOf[u]] > 0 BY DEF EveryModelHasTask
  <2>1. u \in OnLine(ModelOf[u]) BY DEF OnLine
  <2>2. ModelOf[u] \in Model BY <1>0, TasksAssumption
  <2>3. QED BY <1>1, <2>1, <2>2
<1>4. CopyMatchesLine /\ DoneMeansNothing BY DEF CopyMatchesLine, DoneMeansNothing
<1>5. QED BY <1>2, <1>3, <1>4 DEF IInv

\* Every step keeps the invariant.
LEMMA NextIInv == IInv /\ [Next]_vars => IInv'
<1> SUFFICES ASSUME IInv, [Next]_vars PROVE IInv' OBVIOUS
<1> USE DEF IInv
<1>0. \A t \in Model : Cardinality(OnLine(t)) \in Nat
                       /\ (Cardinality(OnLine(t)) > 0 <=> OnLine(t) # {})
  BY TraysAreTrays, TrayCount DEF TypeOK
<1>a. \A t \in Model, d \in Day :
         /\ Cardinality(RequiredOf(d, t)) \in Nat
         /\ Cardinality(RequiredOf(d, t)) > 0 <=> RequiredOf(d, t) # {}
  BY TraysAreTrays, TrayCount DEF TypeOK
<1>1. CASE Count
  <2> USE <1>1 DEF Count
  <2>1. gTasks' \in [Model -> Nat] BY <1>0
  <2>a. TypeOK' BY <2>1 DEF TypeOK
  <2>2. CopyMatchesLine'
    <3> SUFFICES ASSUME NEW t \in Model
                 PROVE  /\ tasks'[t] > 0 <=> OnLine(t) # {}
                        /\ gTasks'[t] > 0 => tasks'[t] > 0
      BY DEF CopyMatchesLine, OnLine
    <3>1. tasks'[t] = IF gTasks[t] > 0 THEN Cardinality(OnLine(t)) ELSE 0 OBVIOUS
    <3>2. OnLine(t) # {} => gTasks[t] > 0 BY DEF EveryModelHasTask, OnLine
    <3>3. QED BY <1>0, <3>1, <3>2
  <2>3. EveryModelHasTask' /\ DoneMeansNothing' BY DEF EveryModelHasTask, DoneMeansNothing
  <2>4. QED BY <2>a, <2>2, <2>3
<1>2. CASE NoMoreDays
  <2> USE <1>2 DEF NoMoreDays
  <2>1. TypeOK' BY DEF TypeOK
  <2>2. CopyMatchesLine' BY DEF CopyMatchesLine, OnLine
  <2>3. QED BY <2>1, <2>2 DEF EveryModelHasTask, DoneMeansNothing
<1>3. CASE Fill
  <2> USE <1>3 DEF Fill
  <2>0. progress \in Day BY TasksAssumption DEF TypeOK, Day
  <2>1. TypeOK' BY <1>a, <2>0, TasksAssumption DEF TypeOK, Day, Required
  <2>2. CopyMatchesLine'
    <3> SUFFICES ASSUME NEW t \in Model
                 PROVE  /\ tasks'[t] > 0 <=> OnLine(t)' # {}
                        /\ gTasks'[t] > 0 => tasks'[t] > 0
      BY DEF CopyMatchesLine
    <3>1. tasks'[t] = tasks[t] + Cardinality(RequiredOf(progress, t)) OBVIOUS
    <3>2. OnLine(t)' = OnLine(t) \cup RequiredOf(progress, t)
      BY DEF OnLine, RequiredOf
    <3>3. tasks[t] > 0 <=> OnLine(t) # {} BY DEF CopyMatchesLine
    <3>4. gTasks[t] > 0 => tasks[t] > 0 BY DEF CopyMatchesLine
    <3>5. tasks[t] \in Nat /\ gTasks[t] \in Nat BY DEF TypeOK
    <3>6. /\ Cardinality(RequiredOf(progress, t)) \in Nat
          /\ Cardinality(RequiredOf(progress, t)) > 0 <=> RequiredOf(progress, t) # {}
      BY <1>a, <2>0
    <3>7. tasks'[t] > 0 <=> OnLine(t)' # {} BY <3>1, <3>2, <3>3, <3>5, <3>6
    <3>8. QED BY <3>1, <3>4, <3>5, <3>6, <3>7
  <2>3. EveryModelHasTask' /\ DoneMeansNothing' BY DEF EveryModelHasTask, DoneMeansNothing
  <2>4. QED BY <2>1, <2>2, <2>3
<1>4. CASE Merge
  <2> USE <1>4 DEF Merge
  <2>1. TypeOK' BY DEF TypeOK
  <2>2. \A t \in Model : gTasks'[t] > 0 <=> OnLine(t) # {}
    <3> SUFFICES ASSUME NEW t \in Model PROVE gTasks'[t] > 0 <=> OnLine(t) # {} OBVIOUS
    <3>1. gTasks'[t] = gTasks[t] + tasks[t] OBVIOUS
    <3>2. gTasks[t] \in Nat /\ tasks[t] \in Nat BY DEF TypeOK
    <3>3. tasks[t] > 0 <=> OnLine(t) # {} BY DEF CopyMatchesLine
    <3>4. gTasks[t] > 0 => tasks[t] > 0 BY DEF CopyMatchesLine
    <3>5. QED BY <3>1, <3>2, <3>3, <3>4
  <2>3. \A u \in jop : ModelOf[u] \in Model /\ u \in OnLine(ModelOf[u])
    BY TasksAssumption DEF TypeOK, OnLine
  <2>4. EveryModelHasTask' BY <2>2, <2>3 DEF EveryModelHasTask
  <2>5. DoneMeansNothing'
    <3> SUFFICES ASSUME Nothing(gTasks') PROVE jop = {} BY DEF DoneMeansNothing
    <3>1. QED BY <2>2, <2>3 DEF Nothing
  <2>6. CopyMatchesLine' BY DEF CopyMatchesLine
  <2>7. QED BY <2>1, <2>4, <2>5, <2>6
<1>5. ASSUME NEW u \in Tray, Ship(u) PROVE IInv'
  BY <1>5 DEF Ship, TypeOK, EveryModelHasTask, CopyMatchesLine, DoneMeansNothing
<1>6. CASE Return
  BY <1>6 DEF Return, TypeOK, EveryModelHasTask, CopyMatchesLine, DoneMeansNothing
<1>7. CASE UNCHANGED vars
  BY <1>7 DEF vars, TypeOK, EveryModelHasTask, CopyMatchesLine, DoneMeansNothing, OnLine
<1>8. QED BY <1>1, <1>2, <1>3, <1>4, <1>5, <1>6, <1>7 DEF Next

\* The list of tasks, its copy and the trays on the line are in step whenever
\* main and refresh() rely on it.
THEOREM Invariance == Spec => []IInv
<1>1. QED BY InitIInv, NextIInv, PTL DEF Spec

\* No model with trays on the line is ever without a task when the planner
\* goes over the tasks.
THEOREM NoModelForgotten == Spec => []EveryModelHasTask
<1>1. IInv => EveryModelHasTask BY DEF IInv
<1>2. QED BY <1>1, Invariance, PTL

-----------------------------------------------------------------------------
\* While something is required every day, the loop of refresh() never ends
\* with an empty copy before the last day is read in.
LEMMA NextEmptyCopy ==
    ASSUME NoHoliday
    PROVE  IInv /\ EmptyCopyMeansNoDays /\ [Next]_vars => EmptyCopyMeansNoDays'
<1> SUFFICES ASSUME IInv, EmptyCopyMeansNoDays, [Next]_vars PROVE EmptyCopyMeansNoDays'
  OBVIOUS
<1> USE DEF EmptyCopyMeansNoDays
<1>1. CASE NoMoreDays
  <2> USE <1>1 DEF NoMoreDays
  <2> SUFFICES ASSUME Nothing(tasks) PROVE progress = NumDays BY DEF Nothing
  <2>1. \A t \in Model : ~(tasks[t] > 0) BY DEF Nothing
  <2>2. jop = {}
    <3> SUFFICES ASSUME NEW u \in jop PROVE FALSE OBVIOUS
    <3>1. ModelOf[u] \in Model BY TasksAssumption DEF IInv, TypeOK
    <3>2. OnLine(ModelOf[u]) # {} BY DEF OnLine
    <3>3. QED BY <2>1, <3>1, <3>2 DEF IInv, CopyMatchesLine
  <2>3. ~WindowFull BY <2>2 DEF WindowFull, Span
  <2>4. QED BY <2>3
<1>2. CASE Fill
  <2> USE <1>2 DEF Fill
  <2> SUFFICES ASSUME Nothing(tasks') PROVE FALSE OBVIOUS
  <2>1. progress \in Day BY TasksAssumption DEF IInv, TypeOK, Day
  <2>2. PICK u \in Required(progress) : TRUE BY <2>1 DEF NoHoliday
  <2>3. u \in Tray /\ ModelOf[u] \in Model BY <2>2, TasksAssumption DEF Required
  <2>4. Cardinality(RequiredOf(progress, ModelOf[u])) > 0
    BY <2>2, TrayCount DEF RequiredOf, Required
  <2>5. Cardinality(RequiredOf(progress, ModelOf[u])) \in Nat
    BY TrayCount DEF RequiredOf, Required
  <2>6. tasks[ModelOf[u]] \in Nat BY <2>3 DEF IInv, TypeOK
  <2>7. tasks'[ModelOf[u]] = tasks[ModelOf[u]] + Cardinality(RequiredOf(progress, ModelOf[u]))
    BY <2>3
  <2>8. QED BY <2>3, <2>4, <2>5, <2>6, <2>7 DEF Nothing
<1>3. CASE Merge
  <2> USE <1>3 DEF Merge
  <2> SUFFICES ASSUME Nothing(gTasks') PROVE progress = NumDays OBVIOUS
  <2>1. Nothing(tasks)
    <3> SUFFICES ASSUME NEW t \in Model PROVE tasks[t] = 0 BY DEF Nothing
    <3>1. gTasks[t] \in Nat /\ tasks[t] \in Nat BY DEF IInv, TypeOK
    <3>2. gTasks[t] + tasks[t] = 0 BY DEF Nothing
    <3>3. QED BY <3>1, <3>2
  <2>2. QED BY <2>1
<1>4. CASE Count BY <1>4 DEF Count
<1>5. ASSUME NEW u \in Tray, Ship(u) PROVE EmptyCopyMeansNoDays' BY <1>5 DEF Ship
<1>6. CASE Return BY <1>6 DEF Return
<1>7. CASE UNCHANGED vars BY <1>7 DEF vars, Nothing
<1>8. QED BY <1>1, <1>2, <1>3, <1>4, <1>5, <1>6, <1>7 DEF Next

\* The program does not end while a day is still to be read in, when something
\* is required every day.
THEOREM EveryDayIsRead == ASSUME NoHoliday PROVE Spec => []EmptyCopyMeansNoDays
<1>1. Init => EmptyCopyMeansNoDays BY DEF Init, EmptyCopyMeansNoDays
<1>2. IInv /\ EmptyCopyMeansNoDays /\ [Next]_vars => EmptyCopyMeansNoDays'
  BY NextEmptyCopy
<1>3. QED BY <1>1, <1>2, Invariance, PTL DEF Spec

\* Of what is ordered nothing is lost, nothing is delivered twice, and the
\* program ends only when everything is delivered, when something is required
\* every day.
THEOREM TasksImplementOrders == ASSUME NoHoliday PROVE Spec => ImplementsOrders
<1>1. Init => O!Init
  BY TasksAssumption DEF Init, O!Init, Outstanding, Day
<1>2. IInv /\ EmptyCopyMeansNoDays /\ EmptyCopyMeansNoDays' /\ IInv' /\ [Next]_vars
         => [O!Next]_<<Outstanding, pc = "done">>
  <2> SUFFICES ASSUME IInv, IInv', EmptyCopyMeansNoDays', [Next]_vars
               PROVE  O!Next \/ (Outstanding' = Outstanding /\ (pc = "done")' = (pc = "done"))
    OBVIOUS
  <2>1. CASE Count \/ NoMoreDays \/ Return
    BY <2>1 DEF Count, NoMoreDays, Return, Outstanding
  <2>2. CASE Fill
    <3> USE <2>2 DEF Fill
    <3>1. progress \in Nat BY DEF IInv, TypeOK
    <3>2. \A u \in Tray : DayOf[u] \in Int BY TasksAssumption DEF Day
    <3>3. Outstanding' = Outstanding BY <3>1, <3>2 DEF Outstanding, Required
    <3>4. QED BY <3>3
  <2>3. CASE Merge
    <3> USE <2>3 DEF Merge
    <3>1. Outstanding' = Outstanding BY DEF Outstanding
    <3>2. CASE Nothing(gTasks')
      <4>1. jop = {} /\ progress = NumDays
        BY <3>2 DEF IInv, DoneMeansNothing, EmptyCopyMeansNoDays
      <4>2. \A u \in Tray : ~(DayOf[u] >= NumDays) BY TasksAssumption DEF Day
      <4>3. Outstanding = {} BY <4>1, <4>2 DEF Outstanding
      <4>4. QED BY <3>1, <3>2, <4>3 DEF O!Next, O!Stop
    <3>3. CASE ~Nothing(gTasks') BY <3>1, <3>3
    <3>4. QED BY <3>2, <3>3
  <2>4. ASSUME NEW u \in Tray, Ship(u) PROVE O!Next \/ (Outstanding' = Outstanding /\ UNCHANGED pc)
    <3> USE <2>4 DEF Ship
    <3>1. CASE u \in SiteTray \/ ~(DayOf[u] >= progress)
      <4>1. Outstanding' = Outstanding \ {u} /\ u \in Outstanding
        BY <3>1 DEF Outstanding
      <4>2. QED BY <4>1 DEF O!Next, O!Deliver
    <3>2. CASE u \notin SiteTray /\ DayOf[u] >= progress
      <4>1. QED BY <3>2 DEF Outstanding
    <3>3. QED BY <3>1, <3>2
  <2>5. CASE UNCHANGED vars BY <2>5 DEF vars, Outstanding
  <2>6. QED BY <2>1, <2>2, <2>3, <2>4, <2>5 DEF Next
<1>3. QED BY <1>1, <1>2, Invariance, EveryDayIsRead, PTL DEF Spec, ImplementsOrders, O!Spec
=============================================================================
