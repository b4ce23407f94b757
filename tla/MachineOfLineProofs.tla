------------------------- MODULE MachineOfLineProofs -------------------------
(***************************************************************************)
(* Every machine of every line is a Machine.                               *)
(***************************************************************************)
EXTENDS MachineOfLine, SimulatorProofs

-----------------------------------------------------------------------------
(* The models of the trays in a lane. *)

LEMMA ModelsType ==
    ASSUME NEW lane \in Seq(Tray)
    PROVE  /\ Models(lane) \in Seq(Model)
           /\ Len(Models(lane)) = Len(lane) /\ Len(lane) \in Nat
           /\ \A i \in 1..Len(lane) : Models(lane)[i] = ModelOf[lane[i]] /\ lane[i] \in Tray
           /\ Models(lane) = <<>> <=> lane = <<>>
<1>1. PICK n \in Nat : n = Len(lane)
  BY LenProperties
<1>2. \A i \in 1..n : lane[i] \in Tray
  BY <1>1, LenProperties
<1>3. \A i \in 1..n : ModelOf[lane[i]] \in Model
  BY <1>2, TrayType
<1>4. Models(lane) = [i \in 1..n |-> ModelOf[lane[i]]]
  BY <1>1 DEF Models
<1>5. Models(lane) \in [1..n -> Model]
  BY <1>3, <1>4
<1>6. Models(lane) \in Seq(Model) /\ Len(Models(lane)) = n
  BY <1>5, IsASeq
<1>7. Models(lane) = <<>> => n = 0
  BY <1>6, EmptySeq
<1>8. lane = <<>> => n = 0
  BY <1>1, EmptySeq
<1>9. n = 0 => lane = <<>> /\ Models(lane) = <<>>
  BY <1>1, <1>6, EmptySeq
<1> QED
  BY <1>1, <1>2, <1>4, <1>6, <1>7, <1>8, <1>9

\* The front of a lane, and what is behind it.
LEMMA ModelsFront ==
    ASSUME NEW lane \in Seq(Tray), lane # <<>>
    PROVE  /\ Head(lane) \in Tray /\ Tail(lane) \in Seq(Tray)
           /\ Head(Models(lane)) = ModelOf[Head(lane)]
           /\ Tail(Models(lane)) = Models(Tail(lane))
<1>1. /\ Head(lane) = lane[1] /\ 1 \in 1..Len(lane) /\ Tail(lane) \in Seq(Tray)
      /\ Len(Tail(lane)) = Len(lane) - 1
      /\ \A i \in 1..Len(Tail(lane)) :
            i + 1 \in 1..Len(lane) /\ Tail(lane)[i] = lane[i + 1]
  BY TailOf, HeadTailProperties
<1>2. /\ Models(lane) \in Seq(Model) /\ Models(lane) # <<>>
      /\ Len(Models(lane)) = Len(lane)
      /\ \A i \in 1..Len(lane) : Models(lane)[i] = ModelOf[lane[i]] /\ lane[i] \in Tray
  BY ModelsType
<1>3. Models(Tail(lane)) \in Seq(Model) /\ Len(Models(Tail(lane))) = Len(Tail(lane))
      /\ \A i \in 1..Len(Tail(lane)) : Models(Tail(lane))[i] = ModelOf[Tail(lane)[i]]
  BY ZenonT(30), <1>1, ModelsType
<1>4. /\ Head(Models(lane)) = Models(lane)[1] /\ Tail(Models(lane)) \in Seq(Model)
      /\ Len(Tail(Models(lane))) = Len(lane) - 1
      /\ \A i \in 1..Len(Tail(Models(lane))) : Tail(Models(lane))[i] = Models(lane)[i + 1]
  BY <1>2, HeadTailProperties
<1>5. \A i \in 1..Len(Tail(Models(lane))) : Tail(Models(lane))[i] = Models(Tail(lane))[i]
  BY <1>1, <1>2, <1>3, <1>4
<1>6. Tail(Models(lane)) = Models(Tail(lane))
  BY <1>1, <1>3, <1>4, <1>5, SeqEqual
<1> QED
  BY <1>1, <1>2, <1>4, <1>6

\* A tray behind a lane.
LEMMA ModelsAppend ==
    ASSUME NEW lane \in Seq(Tray), NEW u \in Tray
    PROVE  Models(Append(lane, u)) = Append(Models(lane), ModelOf[u])
<1>1. PICK n \in Nat : n = Len(lane)
  BY LenProperties
<1>2. /\ Append(lane, u) \in Seq(Tray) /\ Len(Append(lane, u)) = n + 1
      /\ Append(lane, u)[n + 1] = u /\ \A i \in 1..n : Append(lane, u)[i] = lane[i]
  BY <1>1, AppendProperties
<1>3. /\ Models(lane) \in Seq(Model) /\ Len(Models(lane)) = n
      /\ \A i \in 1..n : Models(lane)[i] = ModelOf[lane[i]]
  BY <1>1, ModelsType
<1>4. /\ Models(Append(lane, u)) \in Seq(Model) /\ Len(Models(Append(lane, u))) = n + 1
      /\ \A i \in 1..n + 1 : Models(Append(lane, u))[i] = ModelOf[Append(lane, u)[i]]
  BY <1>2, ModelsType
<1>5. /\ Append(Models(lane), ModelOf[u]) \in Seq(Model)
      /\ Len(Append(Models(lane), ModelOf[u])) = n + 1
      /\ Append(Models(lane), ModelOf[u])[n + 1] = ModelOf[u]
      /\ \A i \in 1..n : Append(Models(lane), ModelOf[u])[i] = Models(lane)[i]
  BY <1>3, TrayType, AppendProperties
<1>6. ASSUME NEW i \in 1..n + 1
      PROVE  Models(Append(lane, u))[i] = Append(Models(lane), ModelOf[u])[i]
  <2>1. CASE i = n + 1
    BY <1>2, <1>4, <1>5, <2>1
  <2>2. CASE i \in 1..n
    BY <1>2, <1>3, <1>4, <1>5, <2>2
  <2>3. i = n + 1 \/ i \in 1..n
    OBVIOUS
  <2> QED
    BY <2>1, <2>2, <2>3
<1> QED
  BY <1>4, <1>5, <1>6, SeqEqual

\* A part of a lane.
LEMMA ModelsSubSeq ==
    ASSUME NEW lane \in Seq(Tray), NEW a \in 1..Len(lane) + 1, NEW b \in 0..Len(lane)
    PROVE  /\ SubSeq(lane, a, b) \in Seq(Tray)
           /\ Models(SubSeq(lane, a, b)) = SubSeq(Models(lane), a, b)
<1> DEFINE s == SubSeq(lane, a, b)
           t == SubSeq(Models(lane), a, b)
<1>1. /\ Models(lane) \in Seq(Model) /\ Len(Models(lane)) = Len(lane) /\ Len(lane) \in Nat
      /\ \A i \in 1..Len(lane) : Models(lane)[i] = ModelOf[lane[i]] /\ lane[i] \in Tray
  BY ModelsType
<1>2. PICK n \in Nat : n = IF a <= b THEN b - a + 1 ELSE 0
  <2>1. a \in Int /\ b \in Int
    BY <1>1
  <2>2. a <= b => b - a + 1 \in Nat
    BY <2>1
  <2> QED
    BY <2>2
<1>3. /\ s \in Seq(Tray) /\ Len(s) = n
      /\ \A i \in 1..n : s[i] = lane[a + i - 1] /\ a + i - 1 \in 1..Len(lane)
  <2>1. a \in Int /\ b \in Int /\ \A i \in a..b : i \in 1..Len(lane) /\ lane[i] \in Tray
    BY <1>1
  <2>2. \A i \in 1..n : i \in 1..b - a + 1 /\ a + i - 1 \in 1..Len(lane)
    BY <1>1, <1>2
  <2> QED
    BY <1>2, <2>1, <2>2, SubSeqProperties
<1>4. /\ t \in Seq(Model) /\ Len(t) = n
      /\ \A i \in 1..n : t[i] = Models(lane)[a + i - 1]
  <2>1. a \in Int /\ b \in Int /\ \A i \in a..b : i \in 1..Len(lane) /\ Models(lane)[i] \in Model
    BY <1>1, LenProperties
  <2>2. \A i \in 1..n : i \in 1..b - a + 1
    BY <1>1, <1>2
  <2> QED
    BY SMTT(30), <1>2, <2>1, <2>2, SubSeqProperties
<1> HIDE DEF s, t
<1>5. /\ Models(s) \in Seq(Model) /\ Len(Models(s)) = n
      /\ \A i \in 1..n : Models(s)[i] = ModelOf[s[i]]
  BY <1>3, ModelsType
<1>6. ASSUME NEW i \in 1..n PROVE Models(s)[i] = t[i]
  <2> DEFINE j == a + i - 1
  <2>1. j \in 1..Len(lane) /\ s[i] = lane[j] /\ t[i] = Models(lane)[j]
    BY <1>3, <1>4
  <2> HIDE DEF j
  <2>2. Models(lane)[j] = ModelOf[lane[j]]
    BY <1>1, <2>1
  <2> QED
    BY <1>5, <2>1, <2>2
<1>7. Models(s) = t
  BY <1>4, <1>5, <1>6, SeqEqual
<1> QED
  BY <1>3, <1>7 DEF s, t

\* Two lanes one behind the other.
LEMMA ModelsConcat ==
    ASSUME NEW s \in Seq(Tray), NEW t \in Seq(Tray)
    PROVE  Models(s \o t) = Models(s) \o Models(t)
<1>1. /\ s \o t \in Seq(Tray) /\ Len(s \o t) = Len(s) + Len(t)
      /\ Len(s) \in Nat /\ Len(t) \in Nat
  BY ConcatProperties, LenProperties
<1>2. \A i \in 1..Len(s) + Len(t) :
         (s \o t)[i] = IF i <= Len(s) THEN s[i] ELSE t[i - Len(s)]
  BY ConcatProperties
<1>3. /\ Models(s) \in Seq(Model) /\ Len(Models(s)) = Len(s)
      /\ \A i \in 1..Len(s) : Models(s)[i] = ModelOf[s[i]]
      /\ Models(t) \in Seq(Model) /\ Len(Models(t)) = Len(t)
      /\ \A i \in 1..Len(t) : Models(t)[i] = ModelOf[t[i]]
      /\ Models(s \o t) \in Seq(Model) /\ Len(Models(s \o t)) = Len(s) + Len(t)
      /\ \A i \in 1..Len(s) + Len(t) : Models(s \o t)[i] = ModelOf[(s \o t)[i]]
  BY <1>1, ModelsType
<1>4. /\ Models(s) \o Models(t) \in Seq(Model)
      /\ Len(Models(s) \o Models(t)) = Len(s) + Len(t)
      /\ \A i \in 1..Len(s) + Len(t) :
            (Models(s) \o Models(t))[i] = IF i <= Len(s) THEN Models(s)[i]
                                          ELSE Models(t)[i - Len(s)]
  <2> DEFINE ms == Models(s)
             mt == Models(t)
  <2>1. ms \in Seq(Model) /\ mt \in Seq(Model) /\ Len(ms) = Len(s) /\ Len(mt) = Len(t)
    BY <1>3
  <2> HIDE DEF ms, mt
  <2>2. /\ ms \o mt \in Seq(Model) /\ Len(ms \o mt) = Len(ms) + Len(mt)
        /\ \A i \in 1..Len(ms) + Len(mt) :
              (ms \o mt)[i] = IF i <= Len(ms) THEN ms[i] ELSE mt[i - Len(ms)]
    BY <2>1, ConcatProperties
  <2> QED
    BY <2>1, <2>2 DEF ms, mt
<1>5. ASSUME NEW i \in 1..Len(s) + Len(t)
      PROVE  Models(s \o t)[i] = (Models(s) \o Models(t))[i]
  <2>1. CASE i <= Len(s)
    <3>1. i \in 1..Len(s)
      BY <1>1, <2>1
    <3>2. Models(s \o t)[i] = ModelOf[(s \o t)[i]] /\ (s \o t)[i] = s[i]
      BY <1>2, <1>3, <2>1
    <3>3. (Models(s) \o Models(t))[i] = Models(s)[i]
      BY <1>4, <2>1
    <3>4. Models(s)[i] = ModelOf[s[i]]
      BY <1>3, <3>1
    <3> QED
      BY <3>2, <3>3, <3>4
  <2>2. CASE ~(i <= Len(s))
    <3>1. i - Len(s) \in 1..Len(t)
      BY <1>1, <2>2
    <3>2. Models(s \o t)[i] = ModelOf[(s \o t)[i]] /\ (s \o t)[i] = t[i - Len(s)]
      BY <1>2, <1>3, <2>2
    <3>3. (Models(s) \o Models(t))[i] = Models(t)[i - Len(s)]
      BY <1>4, <2>2
    <3>4. Models(t)[i - Len(s)] = ModelOf[t[i - Len(s)]]
      BY <1>3, <3>1
    <3> QED
      BY <3>2, <3>3, <3>4
  <2> QED
    BY <2>1, <2>2
<1> QED
  BY <1>3, <1>4, <1>5, SeqEqual

\* The lane the k-th tray has left.
LEMMA ModelsLeft ==
    ASSUME NEW out \in Seq(Tray), NEW k \in 1..Len(out)
    PROVE  Models(Left(out, k)) = M!Without(Models(out), k)
<1>1. Len(out) \in Nat /\ Len(Models(out)) = Len(out)
  BY ModelsType
<1>2. /\ k + 1 \in 1..Len(out) + 1 /\ Len(out) \in 0..Len(out)
      /\ 1 \in 1..Len(out) + 1 /\ k - 1 \in 0..Len(out)
  BY <1>1
<1> DEFINE a == SubSeq(out, k + 1, Len(out))
           b == SubSeq(out, 1, k - 1)
<1>3. a \in Seq(Tray) /\ Models(a) = SubSeq(Models(out), k + 1, Len(Models(out)))
  BY <1>1, <1>2, ModelsSubSeq
<1>4. b \in Seq(Tray) /\ Models(b) = SubSeq(Models(out), 1, k - 1)
  BY <1>2, ModelsSubSeq
<1>5. Left(out, k) = a \o b
  BY DEF Left
<1>6. M!Without(Models(out), k)
         = SubSeq(Models(out), k + 1, Len(Models(out))) \o SubSeq(Models(out), 1, k - 1)
  BY DEF M!Without
<1> HIDE DEF a, b
<1> QED
  BY <1>3, <1>4, <1>5, <1>6, ModelsConcat

-----------------------------------------------------------------------------
(* The steps. *)

\* The machine can make what it is, and what it is to be, set up for.
Able(r) ==
    IF Generic[self] THEN \A t \in Model : Clock[self][t] >= 0
    ELSE \A t \in {r.mode, r.COTarget} \ {NoModel} : Clock[self][t] >= 0

SelfInv == BooksInv /\ Able(mach[self])

\* What SelfInv says of the machine and its lanes.
LEMMA SelfType ==
    ASSUME self \in Machines, BooksInv
    PROVE  /\ mach \in [Machines -> MachineRecord] /\ mach[self] \in MachineRecord
           /\ MachineOK(mach[self])
           /\ mach[self].input \in Seq(Tray) /\ mach[self].model \in Seq(Tray)
           /\ mach[self].output \in Seq(Tray)
           /\ current \in Machines /\ TypeOK /\ IInv /\ BooksMatchFloor
<1>1. IInv /\ TypeOK /\ mach[self] \in MachineRecord
  BY DEF BooksInv, IInv, TypeOK
<1> QED
  BY <1>1 DEF BooksInv, IInv, TypeOK, MachineRecord

\* A step that leaves the machine as it is.
LEMMA Stutters ==
    ASSUME mach'[self] = mach[self], realTime' = realTime
    PROVE  Steps
  BY DEF Steps, M!vars, Models

\* A step that sets its state.
LEMMA Switches ==
    ASSUME self \in Machines, BooksInv, NEW s \in {"S_ONLINE", "S_OFFLINE"},
           mach'[self] = [mach[self] EXCEPT !.state = s], realTime' = realTime
    PROVE  Steps
<1>1. LET r == mach'[self]
      IN /\ r.input = mach[self].input /\ r.model = mach[self].model
         /\ r.output = mach[self].output /\ r.state = s
         /\ r.status = mach[self].status /\ r.changeStatus = mach[self].changeStatus
         /\ r.mode = mach[self].mode /\ r.COTarget = mach[self].COTarget
         /\ r.toIdle = mach[self].toIdle
  BY SelfType DEF MachineRecord
<1>2. M!SetState(s)
  BY <1>1 DEF M!SetState, Models
<1> QED
  BY <1>2 DEF Steps, M!Next, M!MachineState

\* A step that puts a tray into its input.
LEMMA Accepts ==
    ASSUME self \in Machines, BooksInv, NEW u \in Tray, Acceptable(self, ModelOf[u]),
           mach[self].state = "S_ONLINE", realTime' = realTime,
           LET r == mach'[self]
           IN /\ r.input = Append(mach[self].input, u) /\ r.model = mach[self].model
              /\ r.output = mach[self].output /\ r.state = mach[self].state
              /\ r.status = mach[self].status /\ r.changeStatus = mach[self].changeStatus
              /\ r.mode = mach[self].mode /\ r.COTarget = mach[self].COTarget
              /\ r.toIdle = mach[self].toIdle
    PROVE  Steps
<1>1. /\ Len(Models(mach[self].input)) = Len(mach[self].input)
      /\ Models(mach'[self].input) = Append(Models(mach[self].input), ModelOf[u])
  BY SelfType, ModelsType, ModelsAppend
<1>2. M!Acceptable(ModelOf[u])
  BY <1>1 DEF M!Acceptable, Acceptable
<1>3. M!Accept(ModelOf[u])
  BY <1>1, <1>2 DEF M!Accept
<1> QED
  BY <1>3, TrayType DEF Steps, M!Next

\* Becomes, seen from the machine whose turn it is not.
LEMMA TurnOfOther ==
    ASSUME self \in Machines, BooksInv, NEW r, Becomes(r), self # current
    PROVE  Steps
<1>1. mach'[self] = mach[self] /\ realTime' = realTime
  BY SelfType DEF Becomes
<1> QED
  BY <1>1, Stutters

\* The machine is advanced.
LEMMA Advances ==
    ASSUME self \in Machines, SelfInv, self = current,
           Finish \/ Block \/ CODone \/ StartCO \/ StartWork
    PROVE  Steps
<1> DEFINE m == mach[self]
<1>0. /\ mach \in [Machines -> MachineRecord] /\ m \in MachineRecord
      /\ MachineOK(m) /\ m.input \in Seq(Tray) /\ m.model \in Seq(Tray) /\ m.output \in Seq(Tray)
      /\ IInv /\ BooksInv
  BY SelfType DEF SelfInv
<1>1. ASSUME NEW r, Becomes(r) PROVE mach'[self] = r /\ realTime' = realTime
  BY <1>0, <1>1 DEF Becomes
<1> HIDE DEF m
<1>2. CASE Finish
  <2> DEFINE r == [m EXCEPT !.output = Append(@, Head(m.model)), !.model = Tail(@),
                            !.toIdle = realTime, !.status = "MS_IDLE"]
  <2>1. \/ m.status = "MS_WORKING" /\ realTime >= m.toIdle
        \/ m.status = "MS_BLOCKING"
    BY <1>2 DEF Finish, m
  <2>2. Becomes(r) /\ Len(m.output) < CapacityOf(self)
    BY <1>2 DEF Finish, m
  <2>3. /\ r.output = Append(m.output, Head(m.model)) /\ r.model = Tail(m.model)
        /\ r.toIdle = realTime /\ r.status = "MS_IDLE" /\ r.input = m.input
        /\ r.state = m.state /\ r.changeStatus = m.changeStatus /\ r.mode = m.mode
        /\ r.COTarget = m.COTarget
    BY <1>0 DEF MachineRecord
  <2> HIDE DEF r
  <2>4. mach'[self] = r /\ realTime' = realTime
    BY <1>1, <2>2
  <2>5. m.model # <<>>
    BY <1>0, <2>1 DEF MachineOK
  <2>6. /\ Models(r.output) = Append(Models(m.output), Head(Models(m.model)))
        /\ Models(r.model) = Tail(Models(m.model))
        /\ Len(Models(m.output)) = Len(m.output)
    BY ZenonT(30), <1>0, <2>3, <2>5, ModelsFront, ModelsAppend, ModelsType
  <2>7. M!Finish
    BY <2>1, <2>2, <2>3, <2>4, <2>6 DEF M!Finish, m
  <2> QED
    BY <2>7 DEF Steps, M!Next
<1>3. CASE Block
  <2> DEFINE r == [m EXCEPT !.status = "MS_BLOCKING"]
  <2>1. /\ Becomes(r) /\ m.status = "MS_WORKING" /\ realTime >= m.toIdle
        /\ Len(m.output) >= CapacityOf(self)
    BY <1>3 DEF Block, m
  <2>2. /\ r.output = m.output /\ r.model = m.model /\ r.input = m.input
        /\ r.status = "MS_BLOCKING" /\ r.state = m.state /\ r.changeStatus = m.changeStatus
        /\ r.mode = m.mode /\ r.COTarget = m.COTarget /\ r.toIdle = m.toIdle
    BY <1>0 DEF MachineRecord
  <2> HIDE DEF r
  <2>3. mach'[self] = r /\ realTime' = realTime /\ Len(Models(m.output)) = Len(m.output)
    BY <1>0, <1>1, <2>1, ModelsType
  <2>4. M!Block
    BY <2>1, <2>2, <2>3 DEF M!Block, m
  <2> QED
    BY <2>4 DEF Steps, M!Next
<1>4. CASE CODone
  <2> DEFINE r == [m EXCEPT !.status = "MS_IDLE", !.mode = m.COTarget, !.COTarget = NoModel]
  <2>1. Becomes(r) /\ m.status = "MS_CO" /\ m.toIdle <= realTime
    BY <1>4 DEF CODone, m
  <2>2. /\ r.output = m.output /\ r.model = m.model /\ r.input = m.input
        /\ r.status = "MS_IDLE" /\ r.state = m.state /\ r.changeStatus = m.changeStatus
        /\ r.mode = m.COTarget /\ r.COTarget = NoModel /\ r.toIdle = m.toIdle
    BY <1>0 DEF MachineRecord
  <2> HIDE DEF r
  <2>3. mach'[self] = r /\ realTime' = realTime
    BY <1>1, <2>1
  <2>4. M!CODone
    BY <2>1, <2>2, <2>3 DEF M!CODone, m
  <2> QED
    BY <2>4 DEF Steps, M!Next
<1>5. CASE StartCO
  <2> DEFINE idle == realTime + COCost[self][m.mode][m.COTarget]
             until == IF realTime - idle < Offset THEN idle + Offset ELSE idle
             r == [m EXCEPT !.status = "MS_CO", !.changeStatus = "COS_KEEP", !.toIdle = until]
  <2>1. /\ Becomes(r) /\ m.status = "MS_IDLE" /\ m.changeStatus = "COS_GOING"
        /\ m.input # <<>> => FrontIs(m.input, m.COTarget)
    BY <1>5 DEF StartCO, m
  <2>2. /\ r.output = m.output /\ r.model = m.model /\ r.input = m.input
        /\ r.status = "MS_CO" /\ r.state = m.state /\ r.changeStatus = "COS_KEEP"
        /\ r.mode = m.mode /\ r.COTarget = m.COTarget /\ r.toIdle = until
    <3> HIDE DEF until
    <3> QED
      BY <1>0 DEF MachineRecord
  <2> HIDE DEF r
  <2>3. mach'[self] = r /\ realTime' = realTime
    BY <1>1, <2>1
  <2>4. Models(m.input) # <<>> => Head(Models(m.input)) = m.COTarget
    BY <1>0, <2>1, ModelsType, ModelsFront DEF FrontIs
  <2>5. M!StartCO
    BY <2>1, <2>2, <2>3, <2>4 DEF M!StartCO, m
  <2> QED
    BY SMTT(30), <2>5 DEF Steps, M!Next
<1>6. CASE StartWork
  <2> DEFINE t == ModelOf[Head(m.input)]
             until == realTime + WorkTime(self, t)
             r == [m EXCEPT !.status = "MS_WORKING", !.toIdle = until,
                            !.model = Append(@, Head(m.input)), !.input = Tail(@)]
  <2>1. /\ Becomes(r) /\ m.status = "MS_IDLE" /\ m.input # <<>>
        /\ m.changeStatus = "COS_GOING" => ~FrontIs(m.input, m.COTarget)
        /\ FrontIs(m.input, m.mode) \/ Generic[self]
    BY <1>6 DEF StartWork, Workable, m
  <2>2. /\ r.output = m.output /\ r.model = Append(m.model, Head(m.input))
        /\ r.input = Tail(m.input) /\ r.status = "MS_WORKING" /\ r.state = m.state
        /\ r.changeStatus = m.changeStatus /\ r.mode = m.mode /\ r.COTarget = m.COTarget
        /\ r.toIdle = until
    <3> HIDE DEF until
    <3> QED
      BY <1>0 DEF MachineRecord
  <2> HIDE DEF r
  <2>3. mach'[self] = r /\ realTime' = realTime
    BY <1>1, <2>1
  <2>4. /\ Head(m.input) \in Tray /\ Head(Models(m.input)) = t
        /\ Models(r.input) = Tail(Models(m.input))
        /\ Models(r.model) = Append(Models(m.model), t)
        /\ Models(m.input) # <<>>
    <3>1. /\ Head(m.input) \in Tray /\ Head(Models(m.input)) = t
          /\ Models(r.input) = Tail(Models(m.input))
      BY <1>0, <2>1, <2>2, ModelsFront
    <3>2. Models(m.input) # <<>>
      BY <1>0, <2>1, ModelsType
    <3>3. Models(r.model) = Append(Models(m.model), t)
      BY <1>0, <2>2, <3>1, ModelsAppend
    <3> QED
      BY <3>1, <3>2, <3>3
  <2>5. t \in Model
    BY <2>4, TrayType
  <2> HIDE DEF t
  <2>6. Clock[self][t] >= 0
    <3>1. CASE Generic[self]
      BY <2>5, <3>1 DEF SelfInv, Able
    <3>2. CASE ~Generic[self]
      <4>1. m.mode = t /\ t # NoModel
        BY <2>1, <2>5, <3>2, PlantAssumption DEF FrontIs, t
      <4> QED
        BY <3>2, <4>1 DEF SelfInv, Able, m
    <3> QED
      BY <3>1, <3>2
  <2>7. until = realTime + [s \in Model |-> IF ClockOf(self, s) >= 0 THEN WorkTime(self, s)
                                            ELSE 0][t]
    BY <2>5, <2>6 DEF ClockOf
  <2>8. M!StartWork
    <3>1. m.changeStatus = "COS_GOING" => t # m.COTarget
      BY <2>1 DEF FrontIs, t
    <3>2. t = m.mode \/ Generic[self]
      BY <2>1 DEF FrontIs, t
    <3> HIDE DEF until
    <3> QED
      BY <2>1, <2>2, <2>3, <2>4, <2>7, <3>1, <3>2 DEF M!StartWork, m
  <2> QED
    BY <2>8 DEF Steps, M!Next
<1> QED
  BY <1>2, <1>3, <1>4, <1>5, <1>6

\* The machine is configured.
LEMMA Configures ==
    ASSUME self \in Machines, BooksInv, NEW t \in Model, ~Generic[self], Supports(self, t),
           mach'[self] = Configured(self, t), realTime' = realTime
    PROVE  Steps
<1> DEFINE m == mach[self]
<1>0. m \in MachineRecord
  BY SelfType
<1>1. t \in {s \in Model : ClockOf(self, s) >= 0}
  BY DEF Supports
<1>2. CASE m.mode = NoModel
  <2> DEFINE r == [m EXCEPT !.mode = t]
  <2>1. mach'[self] = r
    BY <1>2 DEF Configured
  <2>2. /\ r.output = m.output /\ r.model = m.model /\ r.input = m.input
        /\ r.status = m.status /\ r.state = m.state /\ r.changeStatus = m.changeStatus
        /\ r.mode = t /\ r.COTarget = m.COTarget /\ r.toIdle = m.toIdle
    BY <1>0 DEF MachineRecord
  <2> HIDE DEF r, m
  <2>3. M!Setup(t)
    BY <1>1, <1>2, <2>1, <2>2 DEF M!Setup, m
  <2> QED
    BY <2>3 DEF Steps, M!Next
<1>3. CASE /\ m.mode # NoModel /\ m.changeStatus = "COS_KEEP"
           /\ m.status # "MS_CO" /\ m.mode # t
  <2> DEFINE r == [m EXCEPT !.changeStatus = "COS_GOING", !.COTarget = t]
  <2>1. mach'[self] = r
    BY <1>3 DEF Configured
  <2>2. /\ r.output = m.output /\ r.model = m.model /\ r.input = m.input
        /\ r.status = m.status /\ r.state = m.state /\ r.changeStatus = "COS_GOING"
        /\ r.mode = m.mode /\ r.COTarget = t /\ r.toIdle = m.toIdle
    BY <1>0 DEF MachineRecord
  <2>3. m.mode \in Model
    BY <1>0, <1>3 DEF MachineRecord, Mode
  <2> HIDE DEF r, m
  <2>4. M!Setup(t)
    BY <1>1, <1>3, <2>1, <2>2, <2>3 DEF M!Setup, m
  <2> QED
    BY <2>4 DEF Steps, M!Next
<1>4. CASE /\ m.mode # NoModel
           /\ ~(m.changeStatus = "COS_KEEP" /\ m.status # "MS_CO" /\ m.mode # t)
  <2>1. mach'[self] = m
    BY <1>4 DEF Configured
  <2> QED
    BY <2>1, Stutters
<1> QED
  BY <1>2, <1>3, <1>4

\* A finished tray leaves the machine.
LEMMA Unloads ==
    ASSUME self \in Machines, BooksInv, NEW k \in Tried(self), k \in 1..Len(mach[self].output),
           NEW last \in BOOLEAN, realTime' = realTime,
           LET r == mach'[self]
           IN /\ r.output = Left(mach[self].output, k) /\ r.input = mach[self].input
              /\ r.model = mach[self].model /\ r.state = mach[self].state
              /\ r.status = mach[self].status /\ r.changeStatus = mach[self].changeStatus
              /\ r.mode = mach[self].mode /\ r.COTarget = mach[self].COTarget
              /\ r.toIdle = IF last THEN mach[self].toIdle + Offset ELSE mach[self].toIdle,
           last => IsLast(self, k)
    PROVE  Steps
<1> DEFINE m == mach[self]
<1>0. m.input \in Seq(Tray) /\ m.model \in Seq(Tray) /\ m.output \in Seq(Tray)
  BY SelfType
<1>1. Len(Models(m.output)) = Len(m.output) /\ Len(m.output) \in Nat
  BY <1>0, ModelsType
<1>2. Models(Left(m.output, k)) = M!Without(Models(m.output), k)
  BY <1>0, ModelsLeft
<1>3. k > 1 => Generic[self]
  <2>1. ~Generic[self] => k \in 1..1
    BY DEF Tried
  <2> QED
    BY <2>1
<1>4. ASSUME last PROVE M!RunOut(k)
  <2>1. /\ m.model = <<>> /\ SubSeq(m.output, k + 1, Len(m.output)) = <<>>
        /\ m.input # <<>> => ModelOf[Head(m.input)] # m.mode
    BY <1>4 DEF IsLast, LastTray
  <2> HIDE DEF m
  <2>2. k = Len(m.output)
    <3> DEFINE rest == SubSeq(m.output, k + 1, Len(m.output))
    <3>1. PICK n \in Nat : n = Len(m.output)
      BY <1>1
    <3>2. k \in 1..n
      BY <3>1 DEF m
    <3>3. /\ k + 1 \in Int /\ \A i \in k + 1..n : m.output[i] \in Tray
      BY <1>0, <3>1, <3>2, LenProperties
    <3>4. Len(rest) = IF k + 1 <= n THEN n - (k + 1) + 1 ELSE 0
      BY <3>1, <3>3, SubSeqProperties
    <3> HIDE DEF rest
    <3>5. Len(rest) = 0
      BY <2>1, EmptySeq DEF rest
    <3> QED
      BY <3>1, <3>2, <3>4, <3>5
  <2>3. Models(m.model) = <<>>
    BY <1>0, <2>1, ModelsType
  <2>4. Models(m.input) # <<>> => Head(Models(m.input)) # m.mode
    BY <1>0, <2>1, ModelsType, ModelsFront
  <2> QED
    BY <1>1, <2>2, <2>3, <2>4 DEF M!RunOut, m
<1>5. M!Unload(k, last)
  BY <1>1, <1>2, <1>3, <1>4 DEF M!Unload
<1>6. k \in 1..Len(Models(m.output))
  BY <1>1
<1> QED
  BY <1>5, <1>6 DEF Steps, M!Next

\* What the shipping of a tray does to the machine, when it is the one that ships,
\* the one the tray goes to, or another.
LEMMA Ships ==
    ASSUME self \in Machines, BooksInv, RoutesMeet, ShipOut \/ ShipOn
    PROVE  Steps
<1>0. TypeOK /\ BooksMatchFloor /\ mach \in [Machines -> MachineRecord] /\ realTime' = realTime
  BY SelfType DEF ShipOut, ShipOn, ShipUnchanged
<1>1. ASSUME NEW m \in Machines, NEW k \in Tried(m), k \in 1..Len(mach[m].output),
             NEW to \in Machines \cup {-1}, Move(mach[m].output[k], m, k, to),
             to \in Machines => /\ to # m /\ mach[to].state = "S_ONLINE"
                                /\ Acceptable(to, ModelOf[mach[m].output[k]])
      PROVE  Steps
  <2> DEFINE u == mach[m].output[k]
  <2>1. Moved(m, k, to)
    BY <1>0, <1>1, MoveEffect
  <2>2. CASE self = m
    <3>1. self # to
      BY <1>1, <2>2, MachinesType
    <3>2. mach'[self].toIdle = IF IsLast(m, k) THEN mach[self].toIdle + Offset
                               ELSE mach[self].toIdle
      <4> DEFINE sent == [mach EXCEPT ![m].output = Left(mach[m].output, k),
                            ![m].toIdle = IF IsLast(m, k) THEN @ + Offset ELSE @]
      <4>1. mach' = IF to = -1 THEN sent ELSE [sent EXCEPT ![to].input = Append(@, u)]
        BY ZenonT(30), <1>1 DEF Move, IsLast
      <4>2. sent[self].toIdle = IF IsLast(m, k) THEN mach[self].toIdle + Offset
                                ELSE mach[self].toIdle
        BY <1>0, <2>2 DEF MachineRecord
      <4>3. sent \in [Machines -> {sent[n] : n \in Machines}]
        BY <1>0
      <4> HIDE DEF sent
      <4>4. mach'[self] = sent[self]
        BY <3>1, <4>1, <4>3
      <4> QED
        BY <4>2, <4>4
    <3>3. PICK last \in BOOLEAN : last <=> IsLast(m, k)
      OBVIOUS
    <3>4. /\ mach'[self].output = Left(mach[self].output, k)
          /\ mach'[self].input = mach[self].input /\ mach'[self].model = mach[self].model
          /\ mach'[self].state = mach[self].state /\ mach'[self].status = mach[self].status
          /\ mach'[self].changeStatus = mach[self].changeStatus
          /\ mach'[self].mode = mach[self].mode /\ mach'[self].COTarget = mach[self].COTarget
      BY ZenonT(30), <2>1, <2>2, <3>1 DEF Moved
    <3>5. /\ mach'[self].toIdle = IF last THEN mach[self].toIdle + Offset ELSE mach[self].toIdle
          /\ last => IsLast(self, k)
      BY <2>2, <3>2, <3>3
    <3>6. k \in Tried(self) /\ k \in 1..Len(mach[self].output)
      BY <1>1, <2>2
    <3> QED
      BY <1>0, <3>4, <3>5, <3>6, Unloads
  <2>3. CASE self = to
    <3>1. self # m /\ Acceptable(self, ModelOf[u]) /\ mach[self].state = "S_ONLINE"
      BY <1>1, <2>3
    <3>2. /\ mach'[self].output = mach[self].output
          /\ mach'[self].input = Append(mach[self].input, u)
          /\ mach'[self].model = mach[self].model
          /\ mach'[self].state = mach[self].state /\ mach'[self].status = mach[self].status
          /\ mach'[self].changeStatus = mach[self].changeStatus
          /\ mach'[self].mode = mach[self].mode /\ mach'[self].COTarget = mach[self].COTarget
          /\ mach'[self].toIdle = mach[self].toIdle
      BY ZenonT(30), <2>1, <2>3, <3>1 DEF Moved
    <3>3. u \in Tray
      BY ZenonT(30), <2>1 DEF Moved
    <3> HIDE DEF u
    <3> QED
      BY <1>0, <3>1, <3>2, <3>3, Accepts
  <2>4. CASE self # m /\ self # to
    <3>1. /\ mach'[self].output = mach[self].output /\ mach'[self].input = mach[self].input
          /\ mach'[self].model = mach[self].model
          /\ mach'[self].state = mach[self].state /\ mach'[self].status = mach[self].status
          /\ mach'[self].changeStatus = mach[self].changeStatus
          /\ mach'[self].mode = mach[self].mode /\ mach'[self].COTarget = mach[self].COTarget
          /\ mach'[self].toIdle = mach[self].toIdle
      BY ZenonT(30), <2>1, <2>4 DEF Moved
    <3> QED
      BY SMTT(30), <1>0, <3>1 DEF Steps, M!vars, Models
  <2> QED
    BY <2>2, <2>3, <2>4
<1>2. CASE ShipOut
  <2>1. PICK best \in Best(current) : Move(Head(mach[best].output), best, 1, -1)
    BY <1>2 DEF ShipOut
  <2>2. /\ best \in Machines /\ Head(mach[best].output) = mach[best].output[1]
        /\ 1 \in 1..Len(mach[best].output) /\ -1 \notin Machines
    BY <1>0, BestType, MachinesType
  <2>3. 1 \in Tried(best)
    BY <2>2 DEF Tried
  <2> QED
    BY <1>1, <2>1, <2>2, <2>3
<1>3. CASE ShipOn
  <2>1. PICK best \in Best(current) :
           ~AtFinalProcess(best)
           /\ \E k \in Tried(best) : \E to \in IdleFirst(Takers(best, k)) :
              Move(mach[best].output[k], best, k, to)
    BY <1>3 DEF ShipOn
  <2>2. PICK k \in Tried(best) : \E to \in IdleFirst(Takers(best, k)) :
           Move(mach[best].output[k], best, k, to)
    BY <2>1
  <2>3. PICK to \in IdleFirst(Takers(best, k)) : Move(mach[best].output[k], best, k, to)
    BY <2>2
  <2>4. best \in Machines /\ k \in 1..Len(mach[best].output) /\ mach[best].output # <<>>
    BY <1>0, BestType
  <2>5. /\ to \in Machines /\ ProcessOf[to] = NextProcess(best, k)
        /\ Acceptable(to, ModelOf[mach[best].output[k]]) /\ mach[to].state = "S_ONLINE"
    BY DEF IdleFirst, Least, Takers, MachinesOf
  <2>6. to # best
    <3>1. PICK u : u = mach[best].output[k]
      OBVIOUS
    <3>2. /\ u \in Tray /\ IsOn(u, best) /\ ioo[u] + 1 < Len(Route[ModelOf[u]])
          /\ Route[ModelOf[u]][ioo[u] + 2] = NextProcess(best, k)
      BY <1>0, <2>1, <2>4, <3>1, NextOfRoute
    <3>3. /\ ioo[u] + 1 \in 1..Len(Route[ModelOf[u]])
          /\ Route[ModelOf[u]][ioo[u] + 1] = ProcessOf[best]
      BY <3>2 DEF IsOn
    <3>4. Len(Route[ModelOf[u]]) \in Nat /\ ioo[u] \in Int
      BY <1>0, <3>2, TrayType DEF TypeOK
    <3>5. ioo[u] + 2 \in 1..Len(Route[ModelOf[u]]) /\ ioo[u] + 2 # ioo[u] + 1
      BY <3>2, <3>3, <3>4
    <3>6. Route[ModelOf[u]][ioo[u] + 2] # Route[ModelOf[u]][ioo[u] + 1]
      BY <3>2, <3>3, <3>5, RouteRises
    <3> QED
      BY <2>5, <3>2, <3>3, <3>6
  <2> QED
    BY <1>1, <2>3, <2>4, <2>5, <2>6
<1> QED
  BY <1>2, <1>3

\* A step of the line is a step of the machine or leaves it alone.
LEMMA StepOfSelf ==
    ASSUME self \in Machines, SelfInv, RoutesMeet, [Next]_simVars
    PROVE  Steps
<1>0. /\ mach \in [Machines -> MachineRecord] /\ mach[self] \in MachineRecord
      /\ current \in Machines /\ BooksInv /\ TypeOK
  BY SelfType DEF SelfInv
<1>1. ASSUME NEW arrivals \in SUBSET Later, NEW c \in Configurations, NEW online \in BOOLEAN,
             Call(arrivals, c, online)
      PROVE  Steps
  <2>1. realTime' = realTime
        /\ (mach'[self] = mach[self] \/ mach'[self] = [mach[self] EXCEPT !.state = "S_ONLINE"])
    BY <1>1 DEF Call
  <2> QED
    BY <1>0, <2>1, Stutters, Switches
<1>2. CASE Setup
  <2>1. realTime' = realTime
    BY <1>2 DEF Setup
  <2>2. CASE \E t \in Model : <<self, t>> \in config
    <3>1. PICK t \in Model : <<self, t>> \in config /\ mach'[self] = Configured(self, t)
      BY <1>2, <2>2 DEF Setup
    <3>2. PICK c \in Machines \X Model : config = {c} /\ ~Generic[c[1]] /\ Supports(c[1], c[2])
      BY <1>0, <3>1 DEF TypeOK, Configurations
    <3>3. c = <<self, t>>
      BY <3>1, <3>2
    <3>4. ~Generic[self] /\ Supports(self, t)
      BY <3>2, <3>3
    <3> QED
      BY <1>0, <2>1, <3>1, <3>4, Configures
  <2>3. CASE ~\E t \in Model : <<self, t>> \in config
    <3>1. mach'[self] = mach[self]
      BY <1>2, <2>3 DEF Setup
    <3> QED
      BY <2>1, <3>1, Stutters
  <2> QED
    BY <2>2, <2>3
<1>3. CASE BookFires
  <2>1. PICK s \in {"S_ONLINE", "S_OFFLINE"} : \E e \in Top :
           mach' = [mach EXCEPT ![e.target].state = s]
    BY <1>3 DEF BookFires
  <2>2. PICK e \in Top : mach' = [mach EXCEPT ![e.target].state = s]
    BY <2>1
  <2>3. \/ mach'[self] = mach[self]
        \/ mach'[self] = [mach[self] EXCEPT !.state = s]
    BY <1>0, <2>2
  <2>4. realTime' = realTime
    BY <1>3 DEF BookFires
  <2> QED
    BY <1>0, <2>3, <2>4, Stutters, Switches
<1>4. CASE Feed
  <2>1. PICK u \in Tray : /\ u \in Waiting(mach[current].mode)
                          /\ mach' = [mach EXCEPT ![current].input = Append(@, u)]
    BY <1>0, <1>4, WaitingType DEF Feed, CanBeFed
  <2>2. realTime' = realTime
    BY <1>4 DEF Feed
  <2>3. CASE self = current
    <3>1. /\ Acceptable(self, ModelOf[u]) /\ mach[self].state = "S_ONLINE"
      BY <1>4, <2>1, <2>3 DEF Feed, CanBeFed, Waiting
    <3>2. mach'[self] = [mach[self] EXCEPT !.input = Append(mach[self].input, u)]
      BY <1>0, <2>1, <2>3
    <3>3. LET r == mach'[self]
          IN /\ r.input = Append(mach[self].input, u) /\ r.model = mach[self].model
             /\ r.output = mach[self].output /\ r.state = mach[self].state
             /\ r.status = mach[self].status /\ r.changeStatus = mach[self].changeStatus
             /\ r.mode = mach[self].mode /\ r.COTarget = mach[self].COTarget
             /\ r.toIdle = mach[self].toIdle
      BY <1>0, <3>2 DEF MachineRecord
    <3> QED
      BY <1>0, <2>2, <3>1, <3>3, Accepts
  <2>4. CASE self # current
    <3>1. mach'[self] = mach[self]
      BY <1>0, <2>1, <2>4
    <3> QED
      BY <2>2, <3>1, Stutters
  <2> QED
    BY <2>3, <2>4
<1>5. CASE Finish \/ Block \/ CODone \/ StartCO \/ StartWork
  <2>1. PICK r : Becomes(r)
    BY <1>5 DEF Finish, Block, CODone, StartCO, StartWork
  <2>2. CASE self # current
    BY <1>0, <2>1, <2>2, TurnOfOther
  <2>3. CASE self = current
    BY <1>5, <2>3, Advances
  <2> QED
    BY <2>2, <2>3
<1>6. CASE ShipOut \/ ShipOn
  BY <1>0, <1>6, Ships
<1>7. CASE BookQuiet \/ FeedNothing \/ Mismatch \/ KeepOn \/ ShipNothing \/ UNCHANGED simVars
  <2>1. mach' = mach /\ realTime' = realTime
    BY <1>7 DEF BookQuiet, FeedNothing, Mismatch, KeepOn, ShipNothing, ShipUnchanged, simVars
  <2> QED
    BY <2>1, Stutters
<1>8. CASE Tick
  <2>1. M!Tick
    BY <1>8 DEF M!Tick, Models, Tick
  <2> QED
    BY <2>1 DEF Steps, M!Next
<1> QED
  BY <1>1, <1>2, <1>3, <1>4, <1>5, <1>6, <1>7, <1>8 DEF Next, Simulate

\* A machine stays one that can make what it is set up for.
LEMMA AbleStays ==
    ASSUME Steps, Able(mach[self])
    PROVE  Able(mach'[self])
<1> SUFFICES ASSUME ~Generic[self], NEW t \in {mach'[self].mode, mach'[self].COTarget} \ {NoModel}
             PROVE  Clock[self][t] >= 0
  BY DEF Able
<1>1. \/ t \in {mach[self].mode, mach[self].COTarget}
      \/ t \in Model /\ ClockOf(self, t) >= 0
  BY ZenonT(30) DEF Steps, M!vars, M!Next, M!Accept, M!StartWork, M!StartCO, M!CODone, M!Finish, M!Block,
         M!Unload, M!Setup, M!SetState, M!Tick
<1> QED
  BY <1>1 DEF Able, ClockOf

THEOREM StepOfLine ==
    ASSUME self \in Machines, RoutesMeet
    PROVE  SelfInv /\ [Next]_simVars => Steps /\ SelfInv'
<1> SUFFICES ASSUME SelfInv, [Next]_simVars PROVE Steps /\ SelfInv'
  OBVIOUS
<1>1. Steps
  BY StepOfSelf
<1>2. BooksInv'
  BY StepBooks DEF SelfInv
<1>3. Able(mach'[self])
  BY <1>1, AbleStays DEF SelfInv
<1> QED
  BY <1>1, <1>2, <1>3 DEF SelfInv, Able

-----------------------------------------------------------------------------
(* The start. *)

\* Trays that are all different are no more than there are.
LEMMA AllDifferent ==
    ASSUME NEW lane \in Seq(Tray), IsInjective(lane)
    PROVE  Len(lane) <= Len(ModelOf)
<1>1. Len(lane) \in Nat /\ Len(ModelOf) \in Nat /\ Tray = 1..Len(ModelOf)
      /\ lane \in [1..Len(lane) -> Tray]
  BY PlantAssumption, LenProperties DEF Tray
<1>2. \A i, j \in 1..Len(lane) : lane[i] = lane[j] => i = j
  BY <1>1 DEF IsInjective
<1>3. lane \in Injection(1..Len(lane), Tray)
  BY <1>1, <1>2 DEF Injection, IsInjective
<1>4. IsFiniteSet(Tray) /\ Cardinality(Tray) = Len(ModelOf)
      /\ Cardinality(1..Len(lane)) = Len(lane)
  <2>1. ASSUME NEW n \in Nat PROVE IsFiniteSet(1..n) /\ Cardinality(1..n) = n
    <3>1. IsFiniteSet(1..n) /\ Cardinality(1..n) = IF 1 > n THEN 0 ELSE n - 1 + 1
      BY FS_Interval
    <3> QED
      BY <3>1
  <2> QED
    BY <1>1, <2>1
<1> QED
  BY <1>3, <1>4, FS_Injection

\* The site expects no machine to be idle later than the run is looked at.
IdleInTime == Site[self].toIdle <= MaxTime

LEMMA StartOfSelf ==
    ASSUME SiteIsSound, self \in Fitting, IdleInTime, Init
    PROVE  Starts
<1> DEFINE s == Loaded(self)
<1>1. self \in Machines /\ mach[self] = s /\ realTime = 0
  BY DEF Fitting, Init
<1>2. /\ s.COTarget # NoModel <=> s.status = "MS_CO"
      /\ s.status = "MS_CO" => s.mode \in Model
      /\ Len(s.model) <= 1
      /\ IF Generic[self] THEN s.mode = NoModel /\ s.COTarget = NoModel
         ELSE \A u \in ToSet(s.input \o s.model) :
                 ModelOf[u] = IF s.status = "MS_CO" THEN s.COTarget ELSE s.mode
  BY DEF Fitting
<1>3. s \in MachineRecord /\ MachineOK(s)
  BY <1>1, LoadedOK DEF MachineOK
<1>4. IsInjective(Lane(s))
  BY <1>1 DEF SiteIsSound
<1>5. /\ s.changeStatus = "COS_KEEP" /\ s.toIdle \in 0..MaxTime
      /\ s.status \in {"MS_IDLE", "MS_WORKING", "MS_CO"}
      /\ s.status = "MS_WORKING" <=> s.model # <<>>
      /\ s.state = "S_OFFLINE" => s.status = "MS_IDLE" /\ s.input = <<>>
      /\ Generic[self] => s.model = <<>>
  <2>1. Site[self] \in SiteRecord /\ MaxTime \in Nat
    BY <1>1, PlantAssumption, SimulatorAssumption
  <2>2. Site[self].toIdle \in 0..MaxTime
    BY <2>1 DEF SiteRecord, IdleInTime
  <2> QED
    BY <2>1, <2>2 DEF Loaded, SiteRecord
<1> HIDE DEF s
<1>6. s.input \in Seq(Tray) /\ s.model \in Seq(Tray) /\ s.output \in Seq(Tray)
  BY <1>3 DEF MachineRecord
<1>7. Len(s.input) <= Len(ModelOf) /\ Len(s.output) <= Len(ModelOf)
  BY <1>3, <1>4, <1>6, LaneOf, AllDifferent
<1>8. ASSUME NEW lane \in Seq(Tray), Len(lane) <= Len(ModelOf)
      PROVE  Models(lane) \in M!BoundedSeq(Model, Len(ModelOf))
  <2>1. Models(lane) \in Seq(Model) /\ Len(Models(lane)) = Len(lane) /\ Len(lane) \in Nat
        /\ Len(ModelOf) \in Nat
    BY PlantAssumption, ModelsType, LenProperties
  <2>2. Models(lane) \in [1..Len(lane) -> Model] /\ Len(lane) \in 0..Len(ModelOf)
    BY <1>8, <2>1, LenProperties
  <2> QED
    BY <2>2 DEF M!BoundedSeq, M!SeqOf
<1>9. ToSet(s.input \o s.model) = ToSet(s.input) \cup ToSet(s.model)
  BY <1>6, RangeOfConcat
<1>10. Models(s.model) = IF s.status = "MS_WORKING" THEN <<s.mode>> ELSE <<>>
  <2>1. CASE s.status # "MS_WORKING"
    BY <1>5, <1>6, <2>1, ModelsType
  <2>2. CASE s.status = "MS_WORKING"
    <3>1. s.model # <<>> /\ ~Generic[self] /\ Len(s.model) \in Nat \ {0}
      BY <1>5, <1>6, <2>2, EmptySeq
    <3>2. Len(s.model) = 1
      <4>1. PICK n \in Nat \ {0} : n = Len(s.model)
        BY <3>1
      <4>2. n <= 1
        BY <1>2, <4>1
      <4>3. n = 1
        BY <4>2
      <4> QED
        BY <4>1, <4>3
    <3>3. s.model[1] \in ToSet(s.model)
      <4>1. 1 \in DOMAIN s.model
        BY <1>6, <3>2, LenProperties
      <4> QED
        BY <4>1 DEF ToSet
    <3>4. ModelOf[s.model[1]] = s.mode
      BY <1>2, <1>9, <2>2, <3>1, <3>3
    <3>5. Models(s.model) \in Seq(Model) /\ Len(Models(s.model)) = 1
          /\ Models(s.model)[1] = s.mode
      BY <1>6, <3>2, <3>4, ModelsType
    <3> QED
      BY <2>2, <3>5
  <2> QED
    BY <2>1, <2>2
<1>11. s.status # "MS_IDLE" => s.mode \in Model
  <2> SUFFICES ASSUME s.status = "MS_WORKING" PROVE s.mode \in Model
    BY <1>2, <1>5
  <2>1. Models(s.model) \in Seq(Model) /\ Models(s.model) = <<s.mode>>
    BY <1>6, <1>10, ModelsType
  <2>2. Len(Models(s.model)) = 1 /\ Models(s.model)[1] = s.mode
    BY <2>1
  <2> QED
    BY <2>1, <2>2, LenProperties
<1>12. ~Generic[self] => M!AllOf(Models(s.input), IF s.status = "MS_CO" THEN s.COTarget ELSE s.mode)
  <2> SUFFICES ASSUME ~Generic[self], NEW i \in 1..Len(Models(s.input))
               PROVE  Models(s.input)[i] = IF s.status = "MS_CO" THEN s.COTarget ELSE s.mode
    BY DEF M!AllOf
  <2>1. i \in 1..Len(s.input) /\ Models(s.input)[i] = ModelOf[s.input[i]]
    BY <1>6, ModelsType
  <2>2. s.input[i] \in ToSet(s.input)
    <3>1. i \in DOMAIN s.input
      BY <1>6, <2>1, LenProperties
    <3> QED
      BY <3>1 DEF ToSet
  <2> QED
    BY <1>2, <1>9, <2>1, <2>2
<1>13. /\ s.state \in {"S_ONLINE", "S_OFFLINE"} /\ s.mode \in Model \cup {NoModel}
       /\ s.COTarget \in Model \cup {NoModel}
  BY <1>3 DEF MachineRecord, Mode
<1>14. Generic[self] => s.status = "MS_IDLE" /\ s.mode = NoModel
  BY <1>2, <1>5
<1>15. s.state = "S_OFFLINE" => Models(s.input) = <<>>
  BY <1>5, <1>6, ModelsType
<1>16. /\ Models(s.input) \in M!BoundedSeq(Model, Len(ModelOf))
       /\ Models(s.output) \in M!BoundedSeq(Model, Len(ModelOf))
  BY <1>6, <1>7, <1>8
<1>17. s.COTarget # NoModel <=> s.status = "MS_CO"
  BY <1>2
<1> DEFINE r == mach[self]
<1>18. r = s
  BY <1>1
<1> HIDE DEF r
<1>19. /\ r.state \in M!MachineState /\ r.status \in {"MS_IDLE", "MS_WORKING", "MS_CO"}
       /\ r.changeStatus = "COS_KEEP" /\ r.mode \in Model \cup {NoModel}
       /\ r.COTarget \in Model \cup {NoModel} /\ r.toIdle \in 0..MaxTime
  BY <1>5, <1>13, <1>18 DEF M!MachineState
<1>20. /\ Models(r.input) \in M!BoundedSeq(Model, Len(ModelOf))
       /\ Models(r.output) \in M!BoundedSeq(Model, Len(ModelOf))
       /\ Models(r.model) = IF r.status = "MS_WORKING" THEN <<r.mode>> ELSE <<>>
  BY <1>10, <1>16, <1>18
<1>21. /\ Generic[self] => r.mode = NoModel /\ r.status = "MS_IDLE"
       /\ r.state = "S_OFFLINE" => r.status = "MS_IDLE" /\ Models(r.input) = <<>>
       /\ r.status # "MS_IDLE" => r.mode \in Model
       /\ r.COTarget # NoModel <=> r.status = "MS_CO"
       /\ ~Generic[self] => M!AllOf(Models(r.input),
                                    IF r.status = "MS_CO" THEN r.COTarget ELSE r.mode)
  BY <1>5, <1>11, <1>12, <1>14, <1>15, <1>17, <1>18
<1> QED
  BY ZenonT(30), <1>1, <1>19, <1>20, <1>21 DEF Starts, M!Init, r

\* Every plant: every machine of the line the site loaded with what it is set up
\* for is a Machine.  The simulator calls its machines as they may be called, and
\* what is proved of a Machine holds of it (simulator.cpp, machine.hpp).
THEOREM LineIsMadeOfMachines ==
    ASSUME SiteIsSound, RoutesMeet, ClocksComplete, self \in Fitting, IdleInTime
    PROVE  Spec => IsMachine
<1>1. Init => SelfInv
  <2> SUFFICES ASSUME Init PROVE SelfInv
    OBVIOUS
  <2>1. BooksInv
    BY InitIsTyped, InitBooks DEF BooksInv
  <2>2. self \in Machines
    BY SMTT(30) DEF Fitting
  <2>3. mach[self].mode = Site[self].mode /\ mach[self].COTarget = Site[self].COTarget
    BY <2>2 DEF Init, Loaded
  <2>4. Able(mach[self])
    BY <2>2, <2>3 DEF Able, ClocksComplete
  <2> QED
    BY <2>1, <2>4 DEF SelfInv
<1>2. SelfInv /\ [Next]_simVars => Steps /\ SelfInv'
  BY StepOfLine DEF Fitting
<1>3. Init => Starts
  BY StartOfSelf
<1>4. SelfInv /\ [Next]_simVars => [Steps]_simVars
  BY <1>2
<1> QED
  BY <1>1, <1>2, <1>3, <1>4, PTL DEF Spec, IsMachine
=============================================================================
