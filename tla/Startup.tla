-------------------------------- MODULE Startup --------------------------------
(***************************************************************************)
(* What main does before it simulates (fits_core.cpp:1949-2066): it loads  *)
(* the files one after the other and gives up at the first it cannot load, *)
(* makes the machines of the site data, enters their trays into its books, *)
(* and reads the requirements.                                             *)
(*                                                                         *)
(* The contents of the matrix of change-overs, of the models, of the shift *)
(* book and of the settings are constants here and in ProductLine,         *)
(* Simulator and Scheduler; what becomes of the site data and of the       *)
(* clocks is worked out.  uids are given to trays in the order in which    *)
(* they are loaded.                                                        *)
(***************************************************************************)
EXTENDS Requirements, SequencesExt, FiniteSetsExt

CONSTANTS
    NoModel,      \* "no mode" and "no target" (-1)
    ModelsFile,   \* the models in the order of their file
    ModelZero,    \* the model with id 0, or an id no model has
    NumMachines,  \* machines of the site data
    NumProcesses,
    ProcessOf,    \* the process of a machine
    Generic,
    Route,        \* the processes a model goes through
    RecordsOf,    \* RecordsOf[m]: what the site data may say of machine m
    NameOf,       \* the name of a machine, which others may have as well
    ClockRow,     \* the rows the clocks of a machine may be read from
    Blank         \* a cell with nothing in it

Machines == 0..NumMachines - 1

\* A tray of the site data, and what the site data may say of a machine, when
\* the models it names are those of the file of models.
Part == [model : Model, ioo : Int]
FileRecord == [state : {"S_ONLINE", "S_OFFLINE"}, mode : Model \cup {NoModel},
               COTarget : Model \cup {NoModel}, toIdle : Nat, bufferSize : Nat,
               status : {"MS_IDLE", "MS_WORKING", "MS_CO", "MS_BLOCKING"},
               input : Seq(Part), producting : Seq(Part), output : Seq(Part)]

ASSUME StartupAssumption ==
    /\ NoModel \notin Model
    /\ ModelsFile \in Seq(Model) /\ IsInjective(ModelsFile)
    /\ NumMachines \in Nat /\ NumProcesses \in Nat
    /\ ProcessOf \in [Machines -> 0..NumProcesses - 1]
    /\ Generic \in [Machines -> BOOLEAN]
    /\ Route \in [Model -> Seq(0..NumProcesses - 1)]
    /\ \A m \in Machines : RecordsOf[m] \subseteq FileRecord
    /\ Blank \notin Nat /\ ClockRow \subseteq Seq(Nat \cup {Blank})

VARIABLES
    stage,   \* the file main is at, "books", "requirements" or "ended"
    exit,    \* what main returns; 0 while it runs
    site,    \* the records of the site data read so far
    line,    \* the machines made of them (gProductLine)
    trays,   \* trays[u]: model and ioo of the tray with uid u
    cells,   \* the row of each machine in the file of clocks
    clocks,  \* the clocks made of them
    entered, \* machines whose trays are entered
    jobs,    \* the trays that are entered
    jop,     \* <<model, process, uid>>
    gTasks   \* gTasks[t]: trays of the task of model t; only for models with one

lineVars == <<site, line, trays>>
clockVars == <<cells, clocks>>
bookVars == <<entered, jobs, jop, gTasks>>
startupVars == <<stage, exit, lineVars, clockVars, bookVars>>

\* The code main returns when a file cannot be loaded: for the requirements the
\* one it returns when all went well.
CodeOf == [changeOver |-> -1, models |-> -2, line |-> -3, clocks |-> -4,
           shiftBook |-> -5, settings |-> -6, requirements |-> 0]

\* The stage after those whose contents are constants.
After == [changeOver |-> "models", models |-> "line",
          shiftBook |-> "settings", settings |-> "requirements"]

StartupInit ==
    /\ Init
    /\ stage = "changeOver"
    /\ exit = 0
    /\ site = <<>> /\ line = <<>> /\ trays = <<>>
    /\ cells = <<>> /\ clocks = <<>>
    /\ entered = 0 /\ jobs = {} /\ jop = {}
    /\ gTasks = [t \in {} |-> 0]

GiveUp ==
    /\ exit' = CodeOf[stage]
    /\ stage' = "ended"
    /\ UNCHANGED <<lineVars, clockVars, bookVars, vars>>

\* The file of the stage, of which nothing is read yet, cannot be opened.
CannotOpen ==
    /\ stage \in DOMAIN CodeOf
    /\ stage = "line" => site = <<>>
    /\ stage = "requirements" => Init
    /\ GiveUp

LoadConstants ==
    /\ stage \in DOMAIN After
    /\ stage' = After[stage]
    /\ UNCHANGED <<exit, lineVars, clockVars, bookVars, vars>>

-----------------------------------------------------------------------------
\* Variant: a machine that is off line takes uids for the trays it loses.
KeptOffLine(r) == r.input \o r.producting \o r.output

\* The trays of a record that are loaded, in the order of their uids.
Kept(r) == IF r.state = "S_ONLINE" THEN r.input \o r.producting \o r.output ELSE r.output

\* The numbers n + 1, ..., n + k.
NumbersFrom(n, k) == [i \in 1..k |-> n + i]

\* The machine made of a record when n uids have been given.  What is off line
\* keeps only its finished trays; a generic machine has the trays in work behind
\* those in its input.
MachineOf(m, r, n) ==
    LET online == r.state = "S_ONLINE"
        waiting == IF online THEN Len(r.input) ELSE 0
        inWork == IF online THEN Len(r.producting) ELSE 0
        finished == NumbersFrom(n + waiting + inWork, Len(r.output))
        working == online /\ r.producting # <<>>
    IN [state |-> r.state, mode |-> r.mode, COTarget |-> r.COTarget,
        changeStatus |-> "COS_KEEP", toIdle |-> r.toIdle,
        status |-> IF working THEN "MS_WORKING" ELSE IF online THEN r.status ELSE "MS_IDLE",
        bufferSize |-> r.bufferSize + IF Generic[m] THEN inWork ELSE 0,
        input |-> NumbersFrom(n, waiting + IF Generic[m] THEN inWork ELSE 0),
        model |-> IF Generic[m] THEN <<>> ELSE NumbersFrom(n + waiting, inWork),
        output |-> finished]

\* A record the loader refuses.
Refused(r) == r.bufferSize = 0 \/ (r.COTarget # NoModel /\ r.status # "MS_CO")

LoadMachine(r) ==
    /\ stage = "line"
    /\ ~Refused(r)
    /\ site' = Append(site, r)
    /\ line' = Append(line, MachineOf(Len(line), r, Len(trays)))
    /\ trays' = trays \o Kept(r)
    /\ UNCHANGED <<stage, exit, clockVars, bookVars, vars>>

RefuseMachine(r) ==
    /\ stage = "line"
    /\ Refused(r)
    /\ GiveUp

LineLoaded ==
    /\ stage = "line"
    /\ Len(line) = NumMachines
    /\ stage' = "clocks"
    /\ UNCHANGED <<exit, lineVars, clockVars, bookVars, vars>>

-----------------------------------------------------------------------------
\* A blank cell behind the last comma of a line is no cell.
Cut(row) == IF row # <<>> /\ Last(row) = Blank THEN Front(row) ELSE row

\* Variant: the name of the machine is counted as a column.
IdOneOff(i) == IF i + 1 <= Len(ModelsFile) THEN ModelsFile[i + 1] ELSE ModelZero

\* The model of column i: the i-th of the file of models, and id 0 behind them.
IdOf(i) == IF i <= Len(ModelsFile) THEN ModelsFile[i] ELSE ModelZero

\* The clocks of a row: a later column of the same model counts, a blank is -1.
\* A model without a cell has no clock, which clock() makes -1 as well.
ClocksOf(row) ==
    [t \in Model |->
        LET columns == {i \in DOMAIN Cut(row) : IdOf(i) = t}
        IN IF columns = {} \/ row[Max(columns)] = Blank THEN -1 ELSE row[Max(columns)]]

\* Machines of one name have one row.
LoadClocks(rowsRead) ==
    /\ stage = "clocks"
    /\ \A m, n \in Machines : NameOf[m] = NameOf[n] => rowsRead[m] = rowsRead[n]
    /\ cells' = rowsRead
    /\ clocks' = [m \in Machines |-> ClocksOf(rowsRead[m])]
    /\ stage' = "books"
    /\ UNCHANGED <<exit, lineVars, bookVars, vars>>

-----------------------------------------------------------------------------
\* Variant: the status is taken as it was loaded.
NotRepaired(mach) == mach

\* A machine that works on nothing is idle.
Repaired(mach) ==
    IF mach.model = <<>> /\ mach.status = "MS_WORKING"
    THEN [mach EXCEPT !.status = "MS_IDLE"] ELSE mach

\* Variant: the tray in work is forgotten.
WaitingTraysOf(mach) == ToSet(mach.input \o mach.output)

TraysOf(mach) == ToSet(mach.input \o mach.output \o mach.model)

\* The trays of the next machine are entered, if it is on line.
EnterMachine ==
    /\ stage = "books"
    /\ entered < Len(line)
    /\ LET mach == line[entered + 1]
       IN IF mach.state = "S_ONLINE"
          THEN /\ line' = [line EXCEPT ![entered + 1] = Repaired(mach)]
               /\ jobs' = jobs \cup TraysOf(mach)
          ELSE UNCHANGED <<line, jobs>>
    /\ entered' = entered + 1
    /\ UNCHANGED <<stage, exit, site, trays, clockVars, jop, gTasks, vars>>

\* The process of a tray: that of its place on its route, or none.
ProcessOfTray(u) ==
    IF trays[u].ioo < 0 THEN -1 ELSE Route[trays[u].model][trays[u].ioo + 1]

\* The books of the processes and the tasks are made of the trays entered.
EnterBooks ==
    /\ stage = "books"
    /\ entered = Len(line)
    /\ jop' = {<<trays[u].model, ProcessOfTray(u), u>> : u \in jobs}
    /\ gTasks' = [t \in {trays[u].model : u \in jobs} |->
                     Cardinality({u \in jobs : trays[u].model = t})]
    /\ stage' = "shiftBook"
    /\ UNCHANGED <<exit, lineVars, clockVars, entered, jobs, vars>>

-----------------------------------------------------------------------------
ReadRequirements ==
    /\ stage = "requirements"
    /\ Next
    /\ UNCHANGED startupVars

StartupNext ==
    \/ CannotOpen
    \/ LoadConstants
    \/ \E r \in UNION {RecordsOf[m] : m \in {Len(line)} \cap Machines} :
          LoadMachine(r) \/ RefuseMachine(r)
    \/ LineLoaded
    \/ \E rowsRead \in [Machines -> ClockRow] : LoadClocks(rowsRead)
    \/ EnterMachine
    \/ EnterBooks
    \/ ReadRequirements

StartupSpec == StartupInit /\ [][StartupNext]_<<startupVars, vars>>

-----------------------------------------------------------------------------
\* The site data as ProductLine has it, with uids for its trays.
UidsBefore(m) ==
    LET uids[i \in 0..Len(site)] == IF i = 0 THEN 0 ELSE uids[i - 1] + Len(Kept(site[i]))
    IN uids[m]

SiteOf(m) ==
    LET r == site[m + 1]
        online == r.state = "S_ONLINE"
        n == UidsBefore(m)
        waiting == IF online THEN Len(r.input) ELSE 0
        inWork == IF online THEN Len(r.producting) ELSE 0
    IN [state |-> r.state, mode |-> r.mode, COTarget |-> r.COTarget, toIdle |-> r.toIdle,
        input |-> NumbersFrom(n, waiting),
        producting |-> NumbersFrom(n + waiting, inWork),
        output |-> NumbersFrom(n + waiting + inWork, Len(r.output))]

Plant == INSTANCE ProductLine WITH
    BufferSize <- [m \in Machines |-> site[m + 1].bufferSize],
    Clock <- clocks,
    COCost <- [m \in Machines |-> [s, t \in Model |-> 0]],
    ModelOf <- [u \in 1..Len(trays) |-> trays[u].model],
    Site <- [m \in Machines |-> SiteOf(m)],
    Offset <- 0

\* Everything is loaded that the simulation starts with.
SiteLoaded == stage \in {"shiftBook", "settings", "requirements"}

\* A machine that has nothing in work does not say that a tray blocks it, nor
\* that it changes over into nothing.
Plausible(r) ==
    r.state = "S_ONLINE" /\ r.producting = <<>> =>
       r.status \in {"MS_IDLE", "MS_WORKING"} \/ (r.status = "MS_CO" /\ r.COTarget # NoModel)

\* The machines the loader makes and main repairs (loader.cpp:99-218 and
\* fits_core.cpp:1990) are those the simulation is specified for: a machine
\* works only on a tray it holds, and no tray is lost but those of the input
\* and the work slot of a machine that is off line.
LoadsThePlant ==
    SiteLoaded =>
       \A m \in Machines : Plausible(site[m + 1]) =>
          /\ [f \in DOMAIN Plant!Loaded(m) |-> line[m + 1][f]] = Plant!Loaded(m)
          /\ line[m + 1].bufferSize = Plant!CapacityOf(m)

\* The trays on a machine, in the order of the site data.
OnMachine(m) == line[m + 1].input \o line[m + 1].model \o line[m + 1].output

\* Every tray on the line has a uid of its own, and what is looked up under it is
\* what the site data says of the tray at that place; the books are kept by uid
\* (loader.cpp:148-212, fits_core.cpp:2010-2018).
TraysAreTheirOwn ==
    SiteLoaded =>
       \A m \in Machines :
          /\ IsInjective(OnMachine(m))
          /\ \A n \in Machines : m # n => ToSet(OnMachine(m)) \cap ToSet(OnMachine(n)) = {}
          /\ [i \in DOMAIN OnMachine(m) |-> trays[OnMachine(m)[i]]] = Kept(site[m + 1])

\* The books of a process hold the trays that stand at its machines on line and
\* no others, whatever the order they were entered in, and every such tray is
\* in one task, if the site data has a tray where its route says it is
\* (fits_core.cpp:1981-2018).  The finished trays of a machine that is off line
\* are in no book.
BooksCoverFloor ==
    SiteLoaded =>
       /\ (\A m \in Machines : \A u \in Plant!OnSite(m) : ProcessOfTray(u) = ProcessOf[m])
             => \A p \in 0..NumProcesses - 1 :
                   {b[3] : b \in {c \in jop : c[2] = p}} =
                      UNION {Plant!OnSite(m) : m \in Plant!MachinesOf(p)}
       /\ \A t \in Model :
             Cardinality({b \in jop : b[1] = t}) = IF t \in DOMAIN gTasks THEN gTasks[t] ELSE 0

\* The clock of a machine for a model is the number in the column of the model,
\* and -1 if there is none; a row that is too long spoils only the clock of the
\* model with id 0 (loader.cpp:83-97, utils.cpp:80).
ClockIsItsCell ==
    clocks # <<>> =>
       \A m \in Machines : \A i \in DOMAIN ModelsFile :
          ModelsFile[i] # ModelZero \/ Len(cells[m]) <= Len(ModelsFile)
             => clocks[m][ModelsFile[i]] =
                   IF i \in DOMAIN cells[m] /\ cells[m][i] # Blank THEN cells[m][i] ELSE -1
=============================================================================
