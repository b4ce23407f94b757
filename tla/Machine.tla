------------------------------- MODULE Machine -------------------------------
(***************************************************************************)
(* One machine of the production line (machine.hpp), under any order of    *)
(* the calls the rest of the program makes on it: the simulator feeds,     *)
(* advances and unloads it (simulator.cpp), the planner configures it      *)
(* (simulator.hpp, setup), the shift book and the planner switch it on and *)
(* off.  A tray (JobUnit) is represented by its model, the only field the  *)
(* machine itself looks at.                                                *)
(***************************************************************************)
EXTENDS Integers, SequencesExt

CONSTANTS
    Model,      \* the models (types of part) of the plant
    NoModel,    \* mode and COTarget of a machine that has none (-1)
    Generic,    \* TRUE iff the machine takes every model without change-over
    Supported,  \* models with a clock on this machine
    COB,        \* capacity of each of the two buffers (COB())
    COT,        \* seconds to work one tray: COT[model]
    COCost,     \* seconds of a change-over: COCost[mode][target]
    Offset,     \* gContext.offset
    MaxLoad,    \* bound: trays the site data puts in one buffer
    MaxTime     \* bound: last value of realTime

\* The line a site describes: the loader refuses a buffer of capacity zero,
\* and a generic machine works every model without mode.
ASSUME MachineAssumption ==
    /\ NoModel \notin Model
    /\ Generic \in BOOLEAN
    /\ Supported \subseteq Model
    /\ COB \in Nat \ {0}
    /\ COT \in [Model -> Nat]
    /\ COCost \in [Model -> [Model -> Nat]]
    /\ Offset \in Nat
    /\ MaxLoad \in Nat
    /\ MaxTime \in Nat

VARIABLES
    status,        \* MachineStatus
    state,         \* MachineState; S_PAUSE is never set by the program
    changeStatus,  \* ChangeOverStatus: is a change-over pending?
    mode,          \* model the machine is set up for
    COTarget,      \* target of a pending or running change-over
    toIdle,        \* time at which the machine expects to be idle
    inputBuffer,   \* trays waiting, oldest first
    model,         \* the work slot: a queue of at most one tray
    outputBuffer,  \* trays finished, oldest first
    realTime       \* the simulator's clock

vars == <<status, state, changeStatus, mode, COTarget, toIdle,
          inputBuffer, model, outputBuffer, realTime>>

MachineStatus == {"MS_IDLE", "MS_WORKING", "MS_CO", "MS_BLOCKING"}
MachineState == {"S_ONLINE", "S_OFFLINE"}
ChangeOverStatus == {"COS_KEEP", "COS_GOING"}

AllOf(lane, t) == \A i \in 1..Len(lane) : lane[i] = t

-----------------------------------------------------------------------------
\* The states the site data can describe once loaded, indexed and repaired:
\* no change-over is pending, a machine that is off line is idle and empty
\* but for its output, the tray in work of a generic machine went back to its
\* input, and the lane of a machine holds what the machine is set up for.
Init ==
    /\ state \in MachineState
    /\ status \in {"MS_IDLE", "MS_WORKING", "MS_CO"}
    /\ changeStatus = "COS_KEEP"
    /\ mode \in Model \cup {NoModel}
    /\ COTarget \in Model \cup {NoModel}
    /\ toIdle \in 0..MaxTime
    /\ inputBuffer \in BoundedSeq(Model, MaxLoad)
    /\ outputBuffer \in BoundedSeq(Model, MaxLoad)
    /\ model = IF status = "MS_WORKING" THEN <<mode>> ELSE <<>>
    /\ realTime = 0
    /\ Generic => mode = NoModel /\ status = "MS_IDLE"
    /\ state = "S_OFFLINE" => status = "MS_IDLE" /\ inputBuffer = <<>>
    /\ status # "MS_IDLE" => mode \in Model
    /\ COTarget # NoModel <=> status = "MS_CO"
    /\ ~Generic => AllOf(inputBuffer, IF status = "MS_CO" THEN COTarget ELSE mode)

-----------------------------------------------------------------------------
\* Variant: a generic machine has no limit, as COB() once said (INT_MAX).
GenericUnlimited(t) == Generic \/ Len(inputBuffer) < COB

\* Variant: the pending change-over is forgotten.
AcceptsOldMode(t) ==
    /\ Len(inputBuffer) < COB
    /\ Generic \/ mode = t \/ COTarget = t

\* acceptable(): room in the input, and the model the machine will be set up
\* for when the tray's turn comes.
Acceptable(t) ==
    /\ Len(inputBuffer) < COB
    /\ \/ Generic
       \/ (changeStatus = "COS_GOING" \/ status = "MS_CO") /\ COTarget = t
       \/ changeStatus = "COS_KEEP" /\ status # "MS_CO" /\ mode = t

\* A tray arrives, from the job queue or from the previous process.
Accept(t) ==
    /\ state = "S_ONLINE"
    /\ Acceptable(t)
    /\ inputBuffer' = Append(inputBuffer, t)
    /\ UNCHANGED <<status, state, changeStatus, mode, COTarget, toIdle, model,
                   outputBuffer, realTime>>

\* Variant: the tray is not taken out of the input.
StartWorkKeepsInput ==
    /\ status = "MS_IDLE" /\ inputBuffer # <<>>
    /\ changeStatus = "COS_GOING" => Head(inputBuffer) # COTarget
    /\ Head(inputBuffer) = mode \/ Generic
    /\ status' = "MS_WORKING"
    /\ toIdle' = realTime + COT[Head(inputBuffer)]
    /\ model' = Append(model, Head(inputBuffer))
    /\ UNCHANGED <<state, changeStatus, mode, COTarget, inputBuffer, outputBuffer, realTime>>

\* workOn(): an idle machine takes the front tray of its input.
StartWork ==
    /\ status = "MS_IDLE"
    /\ inputBuffer # <<>>
    /\ changeStatus = "COS_GOING" => Head(inputBuffer) # COTarget
    /\ Head(inputBuffer) = mode \/ Generic
    /\ status' = "MS_WORKING"
    /\ toIdle' = realTime + COT[Head(inputBuffer)]
    /\ model' = Append(model, Head(inputBuffer))
    /\ inputBuffer' = Tail(inputBuffer)
    /\ UNCHANGED <<state, changeStatus, mode, COTarget, outputBuffer, realTime>>

\* Variant: changeOver() leaves the change-over pending.
StartCOStaysPending ==
    /\ status = "MS_IDLE" /\ changeStatus = "COS_GOING"
    /\ inputBuffer # <<>> => Head(inputBuffer) = COTarget
    /\ status' = "MS_CO"
    /\ toIdle' = realTime + COCost[mode][COTarget]
    /\ UNCHANGED <<state, changeStatus, mode, COTarget, inputBuffer, model, outputBuffer, realTime>>

\* Variant: the input is not looked at.
StartCOAtOnce ==
    /\ status = "MS_IDLE" /\ changeStatus = "COS_GOING"
    /\ status' = "MS_CO" /\ changeStatus' = "COS_KEEP"
    /\ toIdle' = realTime + COCost[mode][COTarget]
    /\ UNCHANGED <<state, mode, COTarget, inputBuffer, model, outputBuffer, realTime>>

\* changeOver(), followed by the status log, which moves toIdle once more
\* when the machine has not been idle for Offset seconds.
StartCO ==
    /\ status = "MS_IDLE"
    /\ changeStatus = "COS_GOING"
    /\ inputBuffer # <<>> => Head(inputBuffer) = COTarget
    /\ status' = "MS_CO"
    /\ changeStatus' = "COS_KEEP"
    /\ LET idle == realTime + COCost[mode][COTarget]
       IN  toIdle' = IF realTime - idle < Offset THEN idle + Offset ELSE idle
    /\ UNCHANGED <<state, mode, COTarget, inputBuffer, model, outputBuffer, realTime>>

\* The change-over is over.
CODone ==
    /\ status = "MS_CO"
    /\ toIdle <= realTime
    /\ status' = "MS_IDLE"
    /\ mode' = COTarget
    /\ COTarget' = NoModel
    /\ UNCHANGED <<state, changeStatus, toIdle, inputBuffer, model, outputBuffer, realTime>>

\* Variant: the work slot is not emptied.
FinishKeepsModel ==
    /\ status = "MS_BLOCKING" \/ (status = "MS_WORKING" /\ realTime >= toIdle)
    /\ Len(outputBuffer) < COB
    /\ outputBuffer' = Append(outputBuffer, Head(model))
    /\ toIdle' = realTime /\ status' = "MS_IDLE"
    /\ UNCHANGED <<state, changeStatus, mode, COTarget, inputBuffer, model, realTime>>

\* Variant: room for one tray too many.
FinishOffByOne ==
    /\ status = "MS_BLOCKING" \/ (status = "MS_WORKING" /\ realTime >= toIdle)
    /\ Len(outputBuffer) <= COB
    /\ outputBuffer' = Append(outputBuffer, Head(model))
    /\ model' = Tail(model) /\ toIdle' = realTime /\ status' = "MS_IDLE"
    /\ UNCHANGED <<state, changeStatus, mode, COTarget, inputBuffer, realTime>>

\* finishJob(): the tray in work goes to the output, on time or as soon as
\* the output has room again.
Finish ==
    /\ \/ status = "MS_WORKING" /\ realTime >= toIdle
       \/ status = "MS_BLOCKING"
    /\ Len(outputBuffer) < COB
    /\ outputBuffer' = Append(outputBuffer, Head(model))
    /\ model' = Tail(model)
    /\ toIdle' = realTime
    /\ status' = "MS_IDLE"
    /\ UNCHANGED <<state, changeStatus, mode, COTarget, inputBuffer, realTime>>

\* The tray in work is done but the output is full.
Block ==
    /\ status = "MS_WORKING"
    /\ realTime >= toIdle
    /\ Len(outputBuffer) >= COB
    /\ status' = "MS_BLOCKING"
    /\ UNCHANGED <<state, changeStatus, mode, COTarget, toIdle, inputBuffer, model,
                   outputBuffer, realTime>>

\* Variant: the trays that were tried are not put back.
WithoutPutBack(queue, k) == SubSeq(queue, k + 1, Len(queue))

\* The queue of finished trays once its k-th tray has left: the trays tried
\* before it were put back at the end.
Without(queue, k) == SubSeq(queue, k + 1, Len(queue)) \o SubSeq(queue, 1, k - 1)

\* Variant: the work slot is not looked at.
RunOutAtWork(k) ==
    k = Len(outputBuffer) /\ (inputBuffer # <<>> => Head(inputBuffer) # mode)

\* Variant: the trays that are still finished are not looked at.
RunOutBeforeOutput(k) ==
    model = <<>> /\ (inputBuffer # <<>> => Head(inputBuffer) # mode)

\* The machine's part of the test for "the last tray has left": the output
\* is looked at before the trays that were tried are put back.
RunOut(k) ==
    /\ model = <<>>
    /\ k = Len(outputBuffer)
    /\ inputBuffer # <<>> => Head(inputBuffer) # mode

\* Variant: the machine counts as idle for longer, not as busy.
UnloadEarlier(k, last) ==
    /\ k \in 1..Len(outputBuffer) /\ (k > 1 => Generic) /\ (last => RunOut(k))
    /\ outputBuffer' = Without(outputBuffer, k)
    /\ toIdle' = IF last THEN toIdle - Offset ELSE toIdle
    /\ UNCHANGED <<status, state, changeStatus, mode, COTarget, inputBuffer, model, realTime>>

\* The k-th finished tray leaves.  Only a generic machine looks past the
\* first.  When it was the last tray upstream (which the line decides, last),
\* re-planning is triggered and the machine counts as busy for Offset more.
Unload(k, last) ==
    /\ k \in 1..Len(outputBuffer)
    /\ k > 1 => Generic
    /\ last => RunOut(k)
    /\ outputBuffer' = Without(outputBuffer, k)
    /\ toIdle' = IF last THEN toIdle + Offset ELSE toIdle
    /\ UNCHANGED <<status, state, changeStatus, mode, COTarget, inputBuffer, model, realTime>>

\* Variant: a later plan replaces a pending change-over.
SetupReplaces(t) ==
    /\ ~Generic /\ t \in Supported
    /\ mode \in Model /\ status # "MS_CO" /\ mode # t
    /\ changeStatus' = "COS_GOING" /\ COTarget' = t
    /\ UNCHANGED <<mode, status, state, toIdle, inputBuffer, model, outputBuffer, realTime>>

\* Variant: a running change-over is not looked at.
SetupDuringCO(t) ==
    /\ ~Generic /\ t \in Supported
    /\ mode \in Model /\ changeStatus = "COS_KEEP" /\ mode # t
    /\ changeStatus' = "COS_GOING" /\ COTarget' = t
    /\ UNCHANGED <<mode, status, state, toIdle, inputBuffer, model, outputBuffer, realTime>>

\* setup() with the target the planner chose.  A machine without mode is set
\* up at once; one that already has a change-over pending or running keeps it.
Setup(t) ==
    /\ ~Generic
    /\ t \in Supported
    /\ \/ /\ mode = NoModel
          /\ mode' = t
          /\ UNCHANGED <<changeStatus, COTarget>>
       \/ /\ mode \in Model
          /\ changeStatus = "COS_KEEP"
          /\ status # "MS_CO"
          /\ mode # t
          /\ changeStatus' = "COS_GOING"
          /\ COTarget' = t
          /\ UNCHANGED mode
    /\ UNCHANGED <<status, state, toIdle, inputBuffer, model, outputBuffer, realTime>>

\* The shift book or the planner switches the machine.
SetState(s) ==
    /\ state' = s
    /\ UNCHANGED <<status, changeStatus, mode, COTarget, toIdle, inputBuffer, model,
                   outputBuffer, realTime>>

\* One second passes.
Tick ==
    /\ realTime < MaxTime
    /\ realTime' = realTime + 1
    /\ UNCHANGED <<status, state, changeStatus, mode, COTarget, toIdle, inputBuffer,
                   model, outputBuffer>>

Next ==
    \/ \E t \in Model : Accept(t)
    \/ StartWork
    \/ StartCO
    \/ CODone
    \/ Finish
    \/ Block
    \/ \E k \in 1..Len(outputBuffer), last \in BOOLEAN : Unload(k, last)
    \/ \E t \in Model : Setup(t)
    \/ \E s \in MachineState : SetState(s)
    \/ Tick

Spec == Init /\ [][Next]_vars

-----------------------------------------------------------------------------
\* The type of the state of a machine (machine.hpp, lines 11-79 and 96-99).
TypeOK ==
    /\ status \in MachineStatus
    /\ state \in MachineState
    /\ changeStatus \in ChangeOverStatus
    /\ mode \in Model \cup {NoModel}
    /\ COTarget \in Model \cup {NoModel}
    /\ toIdle \in Nat
    /\ inputBuffer \in Seq(Model)
    /\ model \in Seq(Model)
    /\ outputBuffer \in Seq(Model)
    /\ realTime \in Nat

\* What status, changeStatus, mode and COTarget say together: a running
\* change-over is no longer pending, and both kinds know where they come from
\* and where they go.
ChangeOverConsistent ==
    /\ status = "MS_CO" =>
          changeStatus = "COS_KEEP" /\ mode \in Model /\ COTarget \in Model
    /\ changeStatus = "COS_GOING" =>
          mode \in Model /\ COTarget \in Model /\ mode # COTarget
    /\ Generic => changeStatus = "COS_KEEP" /\ status # "MS_CO"

\* The work slot holds a tray exactly while the status says so, and on a
\* machine that is not generic it is a tray of the current mode: the front()
\* and pop() of finishJob never meet an empty queue.
WorkSlotMatchesStatus ==
    IF status \in {"MS_WORKING", "MS_BLOCKING"}
    THEN Len(model) = 1 /\ (Generic \/ model[1] = mode)
    ELSE model = <<>>

\* Every waiting tray will find the machine set up for it: those of the mode
\* first, then those of the target of the pending change-over; only the
\* target's during a change-over.
InputOrdered ==
    ~Generic =>
       IF status = "MS_CO" THEN AllOf(inputBuffer, COTarget)
       ELSE IF changeStatus = "COS_GOING"
            THEN \A i, j \in 1..Len(inputBuffer) :
                    /\ inputBuffer[i] \in {mode, COTarget}
                    /\ i < j /\ inputBuffer[j] = mode => inputBuffer[i] = mode
            ELSE AllOf(inputBuffer, mode)

\* The inductive invariant of the machine.
IInv == TypeOK /\ ChangeOverConsistent /\ WorkSlotMatchesStatus /\ InputOrdered

\* An idle machine never finds a front tray it can neither work nor change
\* over for: the throw of simulator.cpp:328 and the return of :423 are dead.
NoMismatch ==
    status = "MS_IDLE" /\ inputBuffer # <<>> =>
        \/ Generic
        \/ Head(inputBuffer) = mode
        \/ changeStatus = "COS_GOING" /\ Head(inputBuffer) = COTarget

\* A change-over starts only when no tray of the old mode waits or is in
\* work, so it never strands one (simulator.cpp:263-367).
ChangeOverStrandsNothing ==
    [][status # "MS_CO" /\ status' = "MS_CO" =>
          model = <<>> /\ \A i \in 1..Len(inputBuffer) : inputBuffer[i] # mode]_vars

\* A pending or running change-over is carried out: no later plan replaces
\* its target before the machine is in that mode (simulator.hpp:146-158).
ChangeOverKeepsTarget ==
    [][changeStatus = "COS_GOING" \/ status = "MS_CO" =>
          /\ COTarget' = COTarget \/ mode' = COTarget
          /\ mode' # mode => mode' = COTarget]_vars

\* The Offset added when the last tray leaves (simulator.hpp:87) never moves the
\* end of the tray in work.  It does move the end of a change-over that runs, but
\* only once: when the output runs empty, which is not filled again while
\* simulator.cpp:223 waits for toIdle.
DueTimeFixed ==
    [][/\ status = "MS_WORKING" /\ status' = "MS_WORKING" => toIdle' = toIdle
       /\ status = "MS_CO" /\ status' = "MS_CO" =>
             /\ Len(outputBuffer') <= Len(outputBuffer)
             /\ toIdle' # toIdle =>
                   /\ toIdle' = toIdle + Offset
                   /\ outputBuffer # <<>> /\ outputBuffer' = <<>>]_vars

\* No buffer grows beyond its capacity, whatever the site data loaded it with.
BuffersRespectCapacity ==
    [][/\ Len(inputBuffer') > Len(inputBuffer) => Len(inputBuffer') <= COB
       /\ Len(outputBuffer') > Len(outputBuffer) => Len(outputBuffer') <= COB]_vars

-----------------------------------------------------------------------------
\* What the machine promises to the line: see Lane.
Contents == outputBuffer \o model \o inputBuffer

L == INSTANCE Lane WITH Tray <- Model, AnyOrder <- Generic, queue <- Contents

\* Seen from outside the machine is one queue: trays enter at the end and
\* leave from the front (a generic machine may let one overtake); no internal
\* step, change-over, block or switch-off loses, duplicates or reorders a tray.
ImplementsLane == L!Spec
=============================================================================
