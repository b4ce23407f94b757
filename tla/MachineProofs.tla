---------------------------- MODULE MachineProofs ----------------------------
(***************************************************************************)
(* What holds of a machine for every set of models, every capacity, every  *)
(* clock and change-over matrix, and every length of a run.                *)
(***************************************************************************)
EXTENDS Machine, TLAPS, SequenceTheorems

\* A bounded sequence is a sequence.
LEMMA BoundedSeqIsSeq ==
    ASSUME NEW S, NEW n \in Nat, NEW s \in BoundedSeq(S, n)
    PROVE  s \in Seq(S)
<1>1. PICK m \in 0..n : s \in [1..m -> S]
  BY DEF BoundedSeq, SeqOf
<1> QED
  BY <1>1, SeqDef

\* Appending a tray of the same model keeps a lane uniform.
LEMMA AllOfAppend ==
    ASSUME NEW S, NEW s \in Seq(S), NEW t \in S, AllOf(s, t)
    PROVE  AllOf(Append(s, t), t)
  BY DEF AllOf

\* What holds of every tray of a lane holds of every tray behind the first.
LEMMA AllOfTail ==
    ASSUME NEW S, NEW s \in Seq(S), NEW t, s # <<>>, AllOf(s, t)
    PROVE  AllOf(Tail(s), t)
  BY DEF AllOf

\* The front of a lane is its first tray.
LEMMA HeadIsFirst ==
    ASSUME NEW S, NEW s \in Seq(S), s # <<>>
    PROVE  Len(s) \in Nat \ {0} /\ 1 \in 1..Len(s) /\ Head(s) = s[1]
  BY EmptySeq

\* A lane with one tray is empty once it has left.
LEMMA TailOfOne ==
    ASSUME NEW S, NEW s \in Seq(S), Len(s) = 1
    PROVE  s # <<>> /\ Head(s) \in S /\ Tail(s) = <<>>
<1>1. s # <<>>
  BY EmptySeq
<1>2. Head(s) \in S /\ Tail(s) \in Seq(S) /\ Len(Tail(s)) = 0
  BY <1>1, HeadTailProperties
<1>3. Tail(s) = <<>>
  BY <1>2, EmptySeq
<1> QED
  BY <1>1, <1>2, <1>3

\* The queue without its k-th tray is a queue, one tray shorter.
LEMMA WithoutType ==
    ASSUME NEW S, NEW s \in Seq(S), NEW k \in 1..Len(s)
    PROVE  /\ Without(s, k) \in Seq(S)
           /\ Len(Without(s, k)) = Len(s) - 1
<1> DEFINE back == SubSeq(s, k + 1, Len(s))
           front == SubSeq(s, 1, k - 1)
<1>1. back \in Seq(S) /\ Len(back) = Len(s) - k
  BY SubSeqProperties
<1>2. front \in Seq(S) /\ Len(front) = k - 1
  BY SubSeqProperties
<1>3. back \o front \in Seq(S) /\ Len(back \o front) = Len(back) + Len(front)
  BY <1>1, <1>2, ConcatProperties
<1>4. Without(s, k) = back \o front
  BY DEF Without
<1>5. Len(s) \in Nat /\ k \in Nat
  OBVIOUS
<1> HIDE DEF back, front
<1>6. Len(back) + Len(front) = Len(s) - 1
  BY <1>1, <1>2, <1>5
<1> QED
  BY ONLY <1>3, <1>4, <1>6

-----------------------------------------------------------------------------
\* The machines a site describes satisfy the invariant.
LEMMA InitIInv == Init => IInv
<1> SUFFICES ASSUME Init PROVE IInv
  OBVIOUS
<1> USE MachineAssumption DEF Init
<1>1. TypeOK
  <2>1. inputBuffer \in Seq(Model) /\ outputBuffer \in Seq(Model)
    BY BoundedSeqIsSeq
  <2>2. model \in Seq(Model)
    BY EmptySeq
  <2> QED
    BY <2>1, <2>2 DEF TypeOK, MachineStatus, MachineState, ChangeOverStatus
<1>2. ChangeOverConsistent
  BY DEF ChangeOverConsistent
<1>3. WorkSlotMatchesStatus
  BY DEF WorkSlotMatchesStatus
<1>4. InputOrdered
  BY DEF InputOrdered
<1> QED
  BY <1>1, <1>2, <1>3, <1>4 DEF IInv

\* Every step of the machine preserves it.
LEMMA NextIInv == IInv /\ [Next]_vars => IInv'
<1> SUFFICES ASSUME IInv, [Next]_vars PROVE IInv'
  OBVIOUS
<1> USE MachineAssumption
<1> USE DEF IInv, TypeOK, MachineStatus, MachineState, ChangeOverStatus
<1>1. ASSUME NEW t \in Model, Accept(t) PROVE IInv'
  <2> USE <1>1 DEF Accept, Acceptable
  <2>1. TypeOK'
    BY AppendProperties
  <2>2. ChangeOverConsistent' /\ WorkSlotMatchesStatus'
    BY DEF ChangeOverConsistent, WorkSlotMatchesStatus
  <2>3. InputOrdered'
    <3>1. CASE Generic
      BY <3>1 DEF InputOrdered
    <3>2. CASE ~Generic /\ changeStatus = "COS_KEEP"
      BY <3>2, AllOfAppend DEF InputOrdered
    <3>3. CASE ~Generic /\ changeStatus = "COS_GOING"
      <4>1. status # "MS_CO" /\ t = COTarget /\ mode # COTarget
        BY <3>3 DEF ChangeOverConsistent
      <4>2. \A i \in 1..Len(inputBuffer) : inputBuffer'[i] = inputBuffer[i]
        BY AppendProperties
      <4>3. Len(inputBuffer') = Len(inputBuffer) + 1 /\ inputBuffer'[Len(inputBuffer) + 1] = t
        BY AppendProperties
      <4>4. SUFFICES ASSUME NEW i \in 1..Len(inputBuffer'), NEW j \in 1..Len(inputBuffer')
                     PROVE  /\ inputBuffer'[i] \in {mode, COTarget}
                            /\ i < j /\ inputBuffer'[j] = mode => inputBuffer'[i] = mode
        BY <3>3, <4>1 DEF InputOrdered
      <4>5. \A n \in 1..Len(inputBuffer') :
               n \in 1..Len(inputBuffer) \/ n = Len(inputBuffer) + 1
        <5>1. Len(inputBuffer) \in Nat
          BY LenProperties
        <5> QED
          BY ONLY <4>3, <5>1
      <4>6. inputBuffer'[i] \in {mode, COTarget}
        BY <3>3, <4>1, <4>2, <4>3, <4>5 DEF InputOrdered
      <4>7. ASSUME i < j, inputBuffer'[j] = mode PROVE inputBuffer'[i] = mode
        <5>1. j \in 1..Len(inputBuffer)
          BY <4>1, <4>3, <4>5, <4>7
        <5>2. i \in 1..Len(inputBuffer)
          BY <4>7, <5>1
        <5> QED
          BY <3>3, <4>1, <4>2, <4>7, <5>1, <5>2 DEF InputOrdered
      <4> QED
        BY <4>6, <4>7
    <3> QED
      BY <3>1, <3>2, <3>3
  <2> QED
    BY <2>1, <2>2, <2>3
<1>2. CASE StartWork
  <2> USE <1>2 DEF StartWork
  <2>1. /\ Head(inputBuffer) \in Model
        /\ Tail(inputBuffer) \in Seq(Model)
        /\ Len(Tail(inputBuffer)) = Len(inputBuffer) - 1
        /\ \A i \in 1..Len(inputBuffer) - 1 : Tail(inputBuffer)[i] = inputBuffer[i + 1]
    BY HeadTailProperties
  <2>2. model' \in Seq(Model) /\ Len(model') = 1 /\ model'[1] = Head(inputBuffer)
    <3>1. model = <<>> /\ Len(model) = 0
      BY EmptySeq DEF WorkSlotMatchesStatus
    <3> QED
      BY <2>1, <3>1, AppendProperties
  <2>3. TypeOK'
    <3>1. COT[Head(inputBuffer)] \in Nat /\ realTime \in Nat
      BY <2>1
    <3>2. realTime + COT[Head(inputBuffer)] \in Nat
      BY ONLY <3>1
    <3>3. toIdle' \in Nat
      BY <3>2
    <3> QED
      BY <2>1, <2>2, <3>3
  <2>4. ChangeOverConsistent' /\ WorkSlotMatchesStatus'
    BY <2>2 DEF ChangeOverConsistent, WorkSlotMatchesStatus
  <2>5. InputOrdered'
    BY <2>1, AllOfTail DEF InputOrdered
  <2> QED
    BY <2>3, <2>4, <2>5
<1>3. CASE StartCO
  <2> USE <1>3 DEF StartCO
  <2>1. mode \in Model /\ COTarget \in Model /\ mode # COTarget /\ ~Generic
    BY DEF ChangeOverConsistent
  <2>2. COCost[mode][COTarget] \in Nat
    BY <2>1
  <2>3. toIdle' \in Nat
    <3>0. realTime \in Nat /\ Offset \in Nat
      OBVIOUS
    <3>1. realTime + COCost[mode][COTarget] \in Nat
      BY ONLY <2>2, <3>0
    <3>2. realTime + COCost[mode][COTarget] + Offset \in Nat
      BY ONLY <2>2, <3>0
    <3> QED
      BY <3>1, <3>2
  <2>4. TypeOK' /\ ChangeOverConsistent' /\ WorkSlotMatchesStatus'
    BY <2>1, <2>3 DEF ChangeOverConsistent, WorkSlotMatchesStatus
  <2>5. AllOf(inputBuffer, COTarget)
    <3>1. SUFFICES ASSUME NEW i \in 1..Len(inputBuffer), inputBuffer[i] = mode PROVE FALSE
      BY <2>1 DEF InputOrdered, AllOf
    <3>2. inputBuffer # <<>>
      BY <3>1, EmptySeq
    <3>3. inputBuffer[1] = COTarget /\ 1 \in 1..Len(inputBuffer)
      BY <3>2, HeadIsFirst
    <3>4. i # 1 /\ 1 < i
      <4>1. i # 1
        BY <2>1, <3>1, <3>3
      <4>2. Len(inputBuffer) \in Nat
        BY LenProperties
      <4> QED
        BY ONLY <3>1, <4>1, <4>2
    <3> QED
      BY <2>1, <3>1, <3>3, <3>4 DEF InputOrdered
  <2>6. InputOrdered'
    BY <2>5 DEF InputOrdered, AllOf
  <2> QED
    BY <2>4, <2>6
<1>4. CASE CODone
  BY <1>4 DEF CODone, ChangeOverConsistent, WorkSlotMatchesStatus, InputOrdered
<1>5. CASE Finish
  <2> USE <1>5 DEF Finish
  <2>1. Len(model) = 1 /\ model # <<>> /\ status \in {"MS_WORKING", "MS_BLOCKING"}
    BY DEF WorkSlotMatchesStatus
  <2>2. Head(model) \in Model /\ Tail(model) = <<>>
    BY <2>1, TailOfOne
  <2>3. TypeOK'
    BY <2>2, EmptySeq, AppendProperties
  <2>4. ChangeOverConsistent' /\ WorkSlotMatchesStatus'
    BY <2>2 DEF ChangeOverConsistent, WorkSlotMatchesStatus
  <2>5. InputOrdered'
    BY <2>1 DEF InputOrdered
  <2> QED
    BY <2>3, <2>4, <2>5
<1>6. CASE Block
  BY <1>6 DEF Block, ChangeOverConsistent, WorkSlotMatchesStatus, InputOrdered
<1>7. ASSUME NEW k \in 1..Len(outputBuffer), NEW last \in BOOLEAN, Unload(k, last) PROVE IInv'
  BY <1>7, WithoutType DEF Unload, ChangeOverConsistent, WorkSlotMatchesStatus, InputOrdered
<1>8. ASSUME NEW t \in Model, Setup(t) PROVE IInv'
  <2> USE <1>8 DEF Setup
  <2>1. CASE mode = NoModel
    <3>1. mode' = t /\ changeStatus = "COS_KEEP" /\ status # "MS_CO" /\ UNCHANGED <<changeStatus, COTarget>>
      BY <2>1 DEF ChangeOverConsistent
    <3>2. status \notin {"MS_WORKING", "MS_BLOCKING"}
      BY <2>1 DEF WorkSlotMatchesStatus
    <3>3. inputBuffer = <<>>
      <4>1. ASSUME inputBuffer # <<>> PROVE FALSE
        <5>1. inputBuffer[1] \in Model /\ 1 \in 1..Len(inputBuffer)
          BY <4>1, HeadIsFirst, ElementOfSeq
        <5>2. inputBuffer[1] = NoModel
          BY <2>1, <3>1, <5>1 DEF InputOrdered, AllOf
        <5> QED
          BY <5>1, <5>2
      <4> QED
        BY <4>1
    <3>4. TypeOK' /\ ChangeOverConsistent' /\ WorkSlotMatchesStatus'
      BY <3>1, <3>2 DEF ChangeOverConsistent, WorkSlotMatchesStatus
    <3>5. InputOrdered'
      BY <3>1, <3>3, EmptySeq DEF InputOrdered, AllOf
    <3> QED
      BY <3>4, <3>5
  <2>2. CASE mode \in Model
    BY <2>2 DEF ChangeOverConsistent, WorkSlotMatchesStatus, InputOrdered, AllOf
  <2> QED
    BY <2>1, <2>2
<1>9. ASSUME NEW s \in MachineState, SetState(s) PROVE IInv'
  BY <1>9 DEF SetState, ChangeOverConsistent, WorkSlotMatchesStatus, InputOrdered
<1>10. CASE Tick
  BY <1>10 DEF Tick, ChangeOverConsistent, WorkSlotMatchesStatus, InputOrdered
<1>11. CASE UNCHANGED vars
  BY <1>11 DEF vars, ChangeOverConsistent, WorkSlotMatchesStatus, InputOrdered
<1> QED
  BY <1>1, <1>2, <1>3, <1>4, <1>5, <1>6, <1>7, <1>8, <1>9, <1>10, <1>11 DEF Next

\* The inductive invariant: types, the agreement of the change-over fields,
\* the work slot, and the order of the waiting trays, in every reachable state.
THEOREM Invariance == Spec => []IInv
<1>1. Init => IInv
  BY InitIInv
<1>2. IInv /\ [Next]_vars => IInv'
  BY NextIInv
<1> QED
  BY <1>1, <1>2, PTL DEF Spec

\* The machine's state has its type in every reachable state.
THEOREM TypeCorrect == Spec => []TypeOK
  BY Invariance, PTL DEF IInv

\* A change-over that is pending or runs knows its mode and its target, and it
\* is never both (changeOver, and the end of it, simulator.cpp:223-231).
THEOREM ChangeOversConsistent == Spec => []ChangeOverConsistent
  BY Invariance, PTL DEF IInv

\* finishJob() never pops an empty work slot: a machine works or is blocked
\* exactly when one tray is in it (simulator.cpp:209-222).
THEOREM WorkSlotsMatch == Spec => []WorkSlotMatchesStatus
  BY Invariance, PTL DEF IInv

\* On the input the trays of the mode lie before those of the target: what
\* acceptable() lets in for a change-over overtakes nothing.
THEOREM InputsOrdered == Spec => []InputOrdered
  BY Invariance, PTL DEF IInv

\* The mismatch branches of the simulator are dead on every machine.
THEOREM NeverMismatched == Spec => []NoMismatch
<1>1. IInv => NoMismatch
  <2> SUFFICES ASSUME IInv, status = "MS_IDLE", inputBuffer # <<>>, ~Generic
               PROVE  \/ Head(inputBuffer) = mode
                      \/ changeStatus = "COS_GOING" /\ Head(inputBuffer) = COTarget
    BY DEF NoMismatch
  <2>1. 1 \in 1..Len(inputBuffer) /\ Head(inputBuffer) = inputBuffer[1]
    BY HeadIsFirst DEF IInv, TypeOK
  <2> QED
    BY <2>1 DEF IInv, TypeOK, ChangeOverStatus, InputOrdered, AllOf
<1> QED
  BY <1>1, Invariance, PTL

\* No change-over starts over a tray of the old mode.
THEOREM NothingStranded == Spec => ChangeOverStrandsNothing
<1> DEFINE Safe == status # "MS_CO" /\ status' = "MS_CO" =>
                      model = <<>> /\ \A i \in 1..Len(inputBuffer) : inputBuffer[i] # mode
<1>1. IInv /\ IInv' /\ [Next]_vars => [Safe]_vars
  <2> SUFFICES ASSUME IInv, IInv', [Next]_vars, status # "MS_CO", status' = "MS_CO"
               PROVE  model = <<>> /\ \A i \in 1..Len(inputBuffer) : inputBuffer[i] # mode
    OBVIOUS
  <2>1. StartCO
    BY DEF Next, vars, Accept, StartWork, CODone, Finish, Block, Unload, Setup, SetState, Tick
  <2>2. /\ model = <<>>
        /\ mode # COTarget
        /\ inputBuffer' = inputBuffer /\ COTarget' = COTarget
        /\ ~Generic
    BY <2>1 DEF StartCO, IInv, WorkSlotMatchesStatus, ChangeOverConsistent
  <2>3. AllOf(inputBuffer, COTarget)
    BY <2>2 DEF IInv, InputOrdered, AllOf
  <2> QED
    BY <2>2, <2>3 DEF AllOf
<1> QED
  BY <1>1, Invariance, PTL DEF Spec, ChangeOverStrandsNothing

\* A change-over once planned is carried out before another one is.
THEOREM TargetKept == Spec => ChangeOverKeepsTarget
<1> DEFINE Safe == changeStatus = "COS_GOING" \/ status = "MS_CO" =>
                      /\ COTarget' = COTarget \/ mode' = COTarget
                      /\ mode' # mode => mode' = COTarget
<1>1. IInv /\ [Next]_vars => [Safe]_vars
  <2> SUFFICES ASSUME IInv, [Next]_vars, changeStatus = "COS_GOING" \/ status = "MS_CO"
               PROVE  /\ COTarget' = COTarget \/ mode' = COTarget
                      /\ mode' # mode => mode' = COTarget
    OBVIOUS
  <2>1. mode # NoModel
    BY MachineAssumption DEF IInv, ChangeOverConsistent
  <2> QED
    BY <2>1 DEF Next, vars, Accept, StartWork, StartCO, CODone, Finish, Block, Unload,
                Setup, SetState, Tick
<1> QED
  BY <1>1, Invariance, PTL DEF Spec, ChangeOverKeepsTarget

\* The end of the tray in work never moves, and that of a change-over that runs
\* only once, when the output runs empty (simulator.hpp:87).
THEOREM DueTimesKept == Spec => DueTimeFixed
<1> DEFINE AtWork == status = "MS_WORKING" /\ status' = "MS_WORKING" => toIdle' = toIdle
           PutOff == status = "MS_CO" /\ status' = "MS_CO" =>
                        /\ Len(outputBuffer') <= Len(outputBuffer)
                        /\ toIdle' # toIdle => /\ toIdle' = toIdle + Offset
                                              /\ outputBuffer # <<>> /\ outputBuffer' = <<>>
<1>1. IInv /\ [Next]_vars => AtWork
  <2> SUFFICES ASSUME IInv, [Next]_vars, status = "MS_WORKING", status' = "MS_WORKING"
               PROVE  toIdle' = toIdle
    OBVIOUS
  <2>1. model # <<>>
    BY EmptySeq DEF IInv, WorkSlotMatchesStatus
  <2>2. \A k \in 1..Len(outputBuffer), last \in BOOLEAN :
           Unload(k, last) => toIdle' = toIdle
    BY <2>1 DEF Unload, RunOut
  <2> QED
    BY <2>2 DEF Next, vars, Accept, StartWork, StartCO, CODone, Finish, Block,
                Setup, SetState, Tick
<1>2. IInv /\ [Next]_vars => PutOff
  <2> SUFFICES ASSUME IInv, [Next]_vars, status = "MS_CO", status' = "MS_CO"
               PROVE  /\ Len(outputBuffer') <= Len(outputBuffer)
                      /\ toIdle' # toIdle => /\ toIdle' = toIdle + Offset
                                            /\ outputBuffer # <<>> /\ outputBuffer' = <<>>
    OBVIOUS
  <2>1. ~Generic /\ outputBuffer \in Seq(Model) /\ Len(outputBuffer) \in Nat
    BY LenProperties DEF IInv, TypeOK, ChangeOverConsistent
  <2>2. ASSUME NEW k \in 1..Len(outputBuffer), NEW last \in BOOLEAN, Unload(k, last)
        PROVE  /\ Len(outputBuffer') = Len(outputBuffer) - 1
               /\ outputBuffer # <<>>
               /\ toIdle' # toIdle => toIdle' = toIdle + Offset /\ Len(outputBuffer) = 1
    <3>1. outputBuffer' = Without(outputBuffer, k)
      BY <2>2 DEF Unload
    <3>2. Len(outputBuffer') = Len(outputBuffer) - 1
      BY <2>1, <3>1, WithoutType
    <3>3. k = 1
      BY <2>1, <2>2 DEF Unload
    <3>4. outputBuffer # <<>>
      BY <2>1
    <3> QED
      BY <2>2, <3>2, <3>3, <3>4 DEF Unload, RunOut
  <2>3. CASE \E k \in 1..Len(outputBuffer), last \in BOOLEAN : Unload(k, last)
    <3>1. PICK k \in 1..Len(outputBuffer), last \in BOOLEAN : Unload(k, last)
      BY <2>3
    <3>2. outputBuffer' \in Seq(Model)
      BY <2>1, <3>1, WithoutType DEF Unload
    <3>3. Len(outputBuffer') = 0 => outputBuffer' = <<>>
      BY <3>2, EmptySeq
    <3>4. /\ Len(outputBuffer') = Len(outputBuffer) - 1
          /\ outputBuffer # <<>>
          /\ toIdle' # toIdle => toIdle' = toIdle + Offset /\ Len(outputBuffer) = 1
      BY <2>2, <3>1
    <3> QED
      BY <2>1, <3>3, <3>4
  <2>4. CASE ~\E k \in 1..Len(outputBuffer), last \in BOOLEAN : Unload(k, last)
    <3>1. UNCHANGED <<toIdle, outputBuffer>>
      BY <2>4 DEF Next, vars, Accept, StartWork, StartCO, CODone, Finish, Block,
                  Setup, SetState, Tick
    <3> QED
      BY <2>1, <3>1
  <2> QED
    BY <2>3, <2>4
<1>3. IInv /\ [Next]_vars => [AtWork /\ PutOff]_vars
  BY <1>1, <1>2
<1> QED
  BY <1>3, Invariance, PTL DEF Spec, DueTimeFixed

\* No step makes a buffer longer than its capacity.
THEOREM CapacityRespected == Spec => BuffersRespectCapacity
<1> DEFINE Safe == /\ Len(inputBuffer') > Len(inputBuffer) => Len(inputBuffer') <= COB
                   /\ Len(outputBuffer') > Len(outputBuffer) => Len(outputBuffer') <= COB
<1>1. IInv /\ [Next]_vars => [Safe]_vars
  <2> SUFFICES ASSUME IInv, [Next]_vars PROVE Safe
    OBVIOUS
  <2>1. Len(inputBuffer) \in Nat /\ Len(outputBuffer) \in Nat /\ COB \in Nat
    BY MachineAssumption DEF IInv, TypeOK
  <2>2. ASSUME NEW t \in Model, Accept(t) PROVE Safe
    BY <2>1, <2>2 DEF Accept, Acceptable, IInv, TypeOK
  <2>3. CASE StartWork
    BY <2>1, <2>3, HeadTailProperties DEF StartWork, IInv, TypeOK
  <2>4. CASE Finish
    BY <2>1, <2>4 DEF Finish, IInv, TypeOK
  <2>5. ASSUME NEW k \in 1..Len(outputBuffer), NEW last \in BOOLEAN, Unload(k, last)
        PROVE  Safe
    <3>1. Len(outputBuffer') = Len(outputBuffer) - 1
      BY <2>5, WithoutType DEF Unload, IInv, TypeOK
    <3> QED
      BY <2>1, <2>5, <3>1 DEF Unload
  <2>6. CASE UNCHANGED <<inputBuffer, outputBuffer>>
    BY <2>1, <2>6
  <2> QED
    BY <2>2, <2>3, <2>4, <2>5, <2>6
    DEF Next, vars, StartCO, CODone, Block, Setup, SetState, Tick
<1> QED
  BY <1>1, Invariance, PTL DEF Spec, BuffersRespectCapacity

-----------------------------------------------------------------------------
\* A lane that is not empty is its front tray and the rest.
LEMMA FrontAndRest ==
    ASSUME NEW S, NEW s \in Seq(S), s # <<>>
    PROVE  s = <<Head(s)>> \o Tail(s) /\ <<Head(s)>> \in Seq(S)
<1>1. Len(s) \in Nat \ {0} /\ 1 \in 1..Len(s) /\ Len(s) \in 1..Len(s) /\ Head(s) = s[1]
  BY HeadIsFirst
<1>2. SubSeq(s, 1, Len(s)) = <<s[1]>> \o SubSeq(s, 1 + 1, Len(s))
  BY <1>1, SubSeqRecursiveFirst
<1>3. SubSeq(s, 1, Len(s)) = s /\ Tail(s) = SubSeq(s, 2, Len(s))
  BY SubSeqFull, TailIsSubSeq
<1>4. Head(s) \in S
  BY HeadTailProperties
<1> QED
  BY <1>1, <1>2, <1>3, <1>4

\* Taking a tray out of the first of two lanes takes it out of both together.
LEMMA WithoutOfConcat ==
    ASSUME NEW S, NEW s \in Seq(S), NEW r \in Seq(S), NEW k \in 1..Len(s)
    PROVE  /\ Len(s) \in 1..Len(s \o r)
           /\ Without(s, k) \o r =
                 SubSeq(s \o r, k + 1, Len(s)) \o SubSeq(s \o r, 1, k - 1)
                 \o SubSeq(s \o r, Len(s) + 1, Len(s \o r))
<1>1. Len(s) \in Nat \ {0} /\ Len(r) \in Nat /\ Len(s \o r) = Len(s) + Len(r)
  BY EmptySeq, LenProperties, ConcatProperties
<1>2. SubSeq(s \o r, k + 1, Len(s)) = SubSeq(s, k + 1, Len(s))
  <2>1. CASE k = Len(s)
    BY <1>1, <2>1, SubSeqEmpty
  <2>2. CASE k < Len(s)
    BY <1>1, <2>2, SubSeqOfConcat1
  <2> QED
    BY <1>1, <2>1, <2>2
<1>3. SubSeq(s \o r, 1, k - 1) = SubSeq(s, 1, k - 1)
  <2>1. CASE k = 1
    BY <2>1, SubSeqEmpty
  <2>2. CASE k > 1
    BY <1>1, <2>2, SubSeqOfConcat1
  <2> QED
    BY <1>1, <2>1, <2>2
<1>4. SubSeq(s \o r, Len(s) + 1, Len(s \o r)) = r
  <2>1. CASE r = <<>>
    BY <1>1, <2>1, SubSeqEmpty, EmptySeq
  <2>2. CASE r # <<>>
    <3>1. Len(r) \in Nat \ {0}
      BY <2>2, EmptySeq
    <3>2. /\ Len(s) + 1 \in Len(s) + 1..Len(s) + Len(r)
          /\ Len(s) + Len(r) \in Len(s) + 1..Len(s) + Len(r)
          /\ (Len(s) + 1) - Len(s) = 1
          /\ (Len(s) + Len(r)) - Len(s) = Len(r)
      BY <1>1, <3>1
    <3>3. SubSeq(s \o r, Len(s) + 1, Len(s) + Len(r))
             = SubSeq(r, (Len(s) + 1) - Len(s), (Len(s) + Len(r)) - Len(s))
      BY <3>2, SubSeqOfConcat2
    <3> QED
      BY <1>1, <3>2, <3>3, SubSeqFull
  <2> QED
    BY <2>1, <2>2
<1>5. Len(s) \in 1..Len(s \o r)
  BY ONLY <1>1
<1> QED
  BY ONLY <1>2, <1>3, <1>4, <1>5 DEF Without

-----------------------------------------------------------------------------
\* Lanes of one machine, put one behind the other.
LEMMA LanesClosed == \A s, t \in Seq(Model) : s \o t \in Seq(Model)
  BY ConcatProperties

\* Lanes joined one after the other, in either grouping.
LEMMA LanesAssociate ==
    ASSUME NEW s \in Seq(Model), NEW t \in Seq(Model), NEW u \in Seq(Model)
    PROVE  (s \o t) \o u = s \o (t \o u)
  BY ConcatAssociative

\* Joining with an empty lane changes nothing.
LEMMA LanesEmpty == \A s \in Seq(Model) : s \o <<>> = s /\ <<>> \o s = s
  BY ConcatEmptySeq

\* A tray appended to the last of the joined lanes is appended to all.
LEMMA LanesAppend ==
    \A s \in Seq(Model), t \in Model : <<t>> \in Seq(Model) /\ Append(s, t) = s \o <<t>>
  BY AppendIsConcat

\* Every step of the machine puts one tray into the lane, takes one out of
\* it, or leaves it as it is.
LEMMA StepImplementsLane == IInv /\ IInv' /\ [Next]_vars => [L!Next]_Contents
<1> SUFFICES ASSUME IInv, IInv', [Next]_vars PROVE [L!Next]_Contents
  OBVIOUS
<1>0. /\ inputBuffer \in Seq(Model) /\ model \in Seq(Model) /\ outputBuffer \in Seq(Model)
      /\ inputBuffer' \in Seq(Model) /\ model' \in Seq(Model) /\ outputBuffer' \in Seq(Model)
  BY DEF IInv, TypeOK
<1>a. /\ Contents = outputBuffer \o (model \o inputBuffer)
      /\ Contents' = outputBuffer' \o (model' \o inputBuffer')
      /\ Contents \in Seq(Model)
  <2>1. (outputBuffer \o model) \o inputBuffer = outputBuffer \o (model \o inputBuffer)
    BY ONLY <1>0, LanesAssociate, SMTT(20)
  <2>2. (outputBuffer' \o model') \o inputBuffer' = outputBuffer' \o (model' \o inputBuffer')
    BY ONLY <1>0, LanesAssociate, SMTT(20)
  <2>3. (outputBuffer \o model) \o inputBuffer \in Seq(Model)
    BY ONLY <1>0, LanesClosed
  <2> QED
    BY <2>1, <2>2, <2>3 DEF Contents
<1>1. ASSUME NEW t \in Model, Accept(t) PROVE L!Next
  <2>1. <<t>> \in Seq(Model) /\ inputBuffer' = inputBuffer \o <<t>>
    BY <1>0, <1>1, LanesAppend DEF Accept
  <2>2. outputBuffer' = outputBuffer /\ model' = model
    BY <1>1 DEF Accept
  <2>3. Contents' = (outputBuffer \o model) \o (inputBuffer \o <<t>>)
    BY <2>1, <2>2 DEF Contents
  <2>4. Contents' = Contents \o <<t>>
    <3>1. outputBuffer \o model \in Seq(Model)
      BY <1>0, LanesClosed
    <3>2. (outputBuffer \o model) \o (inputBuffer \o <<t>>)
             = ((outputBuffer \o model) \o inputBuffer) \o <<t>>
      BY ONLY <1>0, <2>1, <3>1, LanesAssociate, SMTT(20)
    <3> QED
      BY <2>3, <3>2 DEF Contents
  <2>5. Contents' = Append(Contents, t)
    BY <1>a, <2>4, LanesAppend
  <2> QED
    BY <2>5 DEF L!Next, L!Put
<1>2. CASE StartWork
  <2>1. model = <<>> /\ inputBuffer # <<>> /\ outputBuffer' = outputBuffer
    BY <1>2 DEF StartWork, IInv, WorkSlotMatchesStatus
  <2>2. Head(inputBuffer) \in Model
    BY <1>0, <2>1, HeadTailProperties
  <2>3. model' = <<>> \o <<Head(inputBuffer)>>
    BY <1>0, <1>2, <2>1, <2>2, LanesAppend DEF StartWork
  <2>4. model' = <<Head(inputBuffer)>>
    BY ONLY <2>2, <2>3, <1>0, LanesAppend, LanesEmpty
  <2>5. model' \o inputBuffer' = inputBuffer
    BY <1>0, <1>2, <2>1, <2>4, FrontAndRest DEF StartWork
  <2>6. model \o inputBuffer = inputBuffer
    BY <1>0, <2>1, LanesEmpty
  <2> QED
    BY <1>a, <2>1, <2>5, <2>6
<1>3. CASE Finish
  <2>1. Len(model) = 1
    BY <1>3 DEF Finish, IInv, WorkSlotMatchesStatus
  <2>2. model # <<>> /\ Head(model) \in Model /\ Tail(model) = <<>>
    BY <1>0, <2>1, TailOfOne
  <2>3. <<Head(model)>> \in Seq(Model) /\ model = <<Head(model)>> \o Tail(model)
    BY <1>0, <2>2, FrontAndRest
  <2>4. model = <<Head(model)>>
    <3>1. <<Head(model)>> \o <<>> = <<Head(model)>>
      BY ONLY <2>3, LanesEmpty
    <3> QED
      BY ONLY <2>2, <2>3, <3>1
  <2>5. outputBuffer' = outputBuffer \o model
    BY <1>0, <1>3, <2>2, <2>4, LanesAppend DEF Finish
  <2>6. outputBuffer' \o model' = outputBuffer \o model
    BY <1>0, <1>3, <2>2, <2>5, LanesClosed, LanesEmpty DEF Finish
  <2> QED
    BY <1>3, <2>6 DEF Finish, Contents
<1>4. ASSUME NEW k \in 1..Len(outputBuffer), NEW last \in BOOLEAN, Unload(k, last)
      PROVE  L!Next
  <2> DEFINE rest == model \o inputBuffer
  <2>1. rest \in Seq(Model) /\ Contents = outputBuffer \o rest
    BY <1>0, <1>a, LanesClosed
  <2>2. k > 1 => Generic
    BY <1>4 DEF Unload
  <2>3. Contents' = Without(outputBuffer, k) \o rest
    BY <1>a, <1>4 DEF Unload
  <2> HIDE DEF rest
  <2>4. /\ Len(outputBuffer) \in 1..Len(Contents)
        /\ Contents' = SubSeq(Contents, k + 1, Len(outputBuffer))
                       \o SubSeq(Contents, 1, k - 1)
                       \o SubSeq(Contents, Len(outputBuffer) + 1, Len(Contents))
    BY <1>0, <2>1, <2>3, WithoutOfConcat
  <2>5. L!Get(k, Len(outputBuffer))
    BY <2>2, <2>4 DEF L!Get
  <2> QED
    BY <2>4, <2>5 DEF L!Next
<1>5. ASSUME UNCHANGED <<inputBuffer, model, outputBuffer>> PROVE UNCHANGED Contents
  BY <1>5 DEF Contents
<1> QED
  BY <1>1, <1>2, <1>3, <1>4, <1>5
     DEF Next, vars, StartCO, CODone, Block, Setup, SetState, Tick

\* The machine implements the lane: whatever the shift book, the planner and
\* the other machines do, it is a queue that loses, duplicates and reorders
\* nothing (a generic one lets a tray overtake on its way out).
THEOREM MachineImplementsLane == Spec => ImplementsLane
<1>1. Init => L!Init
  <2> SUFFICES ASSUME Init PROVE Contents \in Seq(Model)
    BY DEF L!Init
  <2>1. inputBuffer \in Seq(Model) /\ model \in Seq(Model) /\ outputBuffer \in Seq(Model)
    BY InitIInv DEF IInv, TypeOK
  <2> QED
    BY <2>1, LanesClosed DEF Contents
<1>2. IInv /\ IInv' /\ [Next]_vars => [L!Next]_Contents
  BY StepImplementsLane
<1> QED
  BY <1>1, <1>2, Invariance, PTL DEF Spec, ImplementsLane, L!Spec
=============================================================================
